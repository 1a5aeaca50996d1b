------------------------------- MODULE Azure ---------------------------------
(***************************************************************************)
(* Azure provisioning and telemetry (gecko_bglib/src/azure_functions.c):   *)
(* wait_for_network_connection, azure_init and azure_post_telemetry, over  *)
(* one make_request that they share, with its buffer and its parsed        *)
(* response.                                                               *)
(*                                                                         *)
(* libcurl, parson and the services are external. A body comes in chunks;  *)
(* what it says is one of Answers; a name is known by how it compares with *)
(* the field of AzureConfig that it is copied to.                          *)
(***************************************************************************)
EXTENDS Naturals, Sequences

CONSTANTS
    NetworkAttempts,    \* attempts of wait_for_network_connection, at least 1
    HostNameRetries,    \* HOST_NAME_RETRIES
    BufferSize,         \* CURL_BUFFER_SIZE, in chunks of a body
    HubNames            \* names of hubs: shorter than host_name, as long, longer

ASSUME AzureAssumption ==
    /\ NetworkAttempts \in Nat \ {0}
    /\ HostNameRetries \in Nat \ {0}
    /\ BufferSize \in Nat
    /\ HubNames \subseteq {"fits", "exact", "long"}

VARIABLES
    call,       \* the function that runs: Calls, or "none"
    ret,        \* what the last one returned
    req,        \* make_request: "no", or "sent", then what it returned
    buffer,     \* _curl_buffer up to _buffer_offset: the call each chunk is for
    json,       \* _json_response
    attempt,    \* attempt_counter, or retries
    operation,  \* _azure_config.operation_id: "", "whole", or "cut" short
    hub,        \* _azure_config.host_name: "", "whole", or "cut" short
    device      \* external: the hub the service has assigned the device to, or ""

azureVars == <<call, ret, req, buffer, json, attempt, operation, hub, device>>

Calls == {"network", "config", "register", "poll", "post"}

\* What a parsed body can say: an operationId without an errorCode, shorter than
\* operation_id or as long; the assignedHub of a registrationState; or anything else,
\* an operationId that is longer included, with an object at its root or without.
Operations == {"operation", "exact operation"}
Answers == Operations \cup {"other"} \cup HubNames

NoJson == [of |-> "none", says |-> "nothing"]

-----------------------------------------------------------------------------
(* make_request. *)

\* Mutant: _buffer_offset is not reset.
ResetJsonOnly == json' = NoJson /\ UNCHANGED buffer

\* The response of the request before is forgotten first.
ResetResponse == buffer' = <<>> /\ json' = NoJson

BeginRequest ==
    /\ req' = "sent"
    /\ ResetResponse

\* Mutant: the bound is tested before the size of the chunk is added.
FitsAlmost == Len(buffer) <= BufferSize

\* write_callback refuses what does not fit.
Fits == Len(buffer) + 1 <= BufferSize

ReceiveChunk ==
    /\ req = "sent"
    /\ Fits
    /\ buffer' = Append(buffer, call)
    /\ UNCHANGED <<call, ret, req, json, attempt, operation, hub, device>>

\* Setting libcurl up fails, the transfer fails, or the body is too long.
RequestFails ==
    /\ req = "sent"
    /\ req' = "failed"
    /\ UNCHANGED <<call, ret, buffer, json, attempt, operation, hub, device>>

\* What the service may answer, besides errors and anything unexpected: it names a
\* hub to who asks with the operationId that it gave, whole, and once it has assigned
\* the device, always the same name.
Expected ==
    CASE call = "register" -> Operations
      [] call = "poll" /\ operation = "whole" ->
            IF device \in HubNames THEN {device} ELSE HubNames
      [] OTHER -> {}

\* The transfer succeeds, whatever the HTTP status, and the body is parsed: it
\* may be empty or no JSON at all.
RequestDone ==
    /\ req = "sent"
    /\ req' = "ok"
    /\ json' \in {NoJson} \cup
            (IF buffer = <<>> THEN {}
             ELSE [of : {Head(buffer)}, says : {"other"} \cup Expected])
    /\ device' = IF json'.says \in HubNames THEN json'.says ELSE device
    /\ UNCHANGED <<call, ret, buffer, attempt, operation, hub>>

-----------------------------------------------------------------------------
(* wait_for_network_connection. *)

Return(r) == call' = "none" /\ ret' = r

WaitForNetwork ==
    /\ call = "none"
    /\ call' = "network"
    /\ attempt' = 0
    /\ UNCHANGED <<ret, req, buffer, json, operation, hub, device>>

\* No connection, or no name resolution: tried again after ten seconds.
NoConnection ==
    /\ call = "network"
    /\ attempt' = attempt + 1
    /\ IF attempt' < NetworkAttempts THEN UNCHANGED <<call, ret>> ELSE Return("failed")
    /\ UNCHANGED <<req, buffer, json, operation, hub, device>>

\* The page has been read to _curl_buffer, whose offset nobody resets.
NetworkUp ==
    /\ call = "network"
    /\ buffer' \in {buffer} \cup (IF Fits THEN {Append(buffer, call)} ELSE {})
    /\ Return("ok")
    /\ UNCHANGED <<req, json, attempt, operation, hub, device>>

\* Any other result of libcurl ends the wait at once.
NetworkError ==
    /\ call = "network"
    /\ Return("failed")
    /\ UNCHANGED <<req, buffer, json, attempt, operation, hub, device>>

-----------------------------------------------------------------------------
(* azure_init. *)

InitAzure ==
    /\ call = "none"
    /\ call' = "config"
    /\ UNCHANGED <<ret, req, buffer, json, attempt, operation, hub, device>>

\* init_azure_config: the file or one of its three fields is missing.
NoConfig ==
    /\ call = "config"
    /\ Return("failed")
    /\ UNCHANGED <<req, buffer, json, attempt, operation, hub, device>>

\* fetch_operation_id.
Register ==
    /\ call = "config"
    /\ call' = "register"
    /\ BeginRequest
    /\ UNCHANGED <<ret, attempt, operation, hub, device>>

\* The first request of fetch_host_name. A response that was no JSON at all is
\* logged as fatal, and counts as success. An id that is as long as its field loses
\* its last character to the terminator.
Registered ==
    /\ call = "register"
    /\ req = "ok"
    /\ json = NoJson \/ json.says \in Operations
    /\ operation' = IF json = NoJson THEN operation
                    ELSE IF json.says = "operation" THEN "whole" ELSE "cut"
    /\ call' = "poll"
    /\ attempt' = 0
    /\ BeginRequest
    /\ UNCHANGED <<ret, hub, device>>

\* The request fails, or the answer has an errorCode, no operationId or no object.
RegistrationFails ==
    /\ call = "register"
    /\ \/ req = "failed"
       \/ req = "ok" /\ json # NoJson /\ json.says \notin Operations
    /\ req' = "no"
    /\ Return("failed")
    /\ UNCHANGED <<buffer, json, attempt, operation, hub, device>>

\* Mutant: a name that does not fit counts all the same.
ExtractAny(says) == hub' = IF says = "fits" THEN "whole" ELSE "cut"

\* extract_json_string refuses what is longer than the field, but not what is
\* as long and loses its last character to the terminator.
Extract(says) ==
    /\ says # "long"
    /\ hub' = IF says = "fits" THEN "whole" ELSE "cut"

Assigned ==
    /\ call = "poll"
    /\ req = "ok"
    /\ json.says \in HubNames
    /\ Extract(json.says)
    /\ req' = "no"
    /\ Return("ok")
    /\ UNCHANGED <<buffer, json, attempt, operation, device>>

\* Mutant: asked again without counting.
NotAssignedForEver ==
    /\ call = "poll"
    /\ req = "ok"
    /\ json.says \notin HubNames \ {"long"}
    /\ BeginRequest
    /\ hub' = IF json.says = "long" THEN "cut" ELSE hub
    /\ UNCHANGED <<call, ret, attempt, operation, device>>

\* Not assigned yet, or any other answer: fetch_host_name asks again after two
\* seconds. A name that is too long has been copied in part.
NotAssigned ==
    /\ call = "poll"
    /\ req = "ok"
    /\ json.says \notin HubNames \ {"long"}
    /\ hub' = IF json.says = "long" THEN "cut" ELSE hub
    /\ attempt' = attempt + 1
    /\ IF attempt' < HostNameRetries
       THEN BeginRequest /\ UNCHANGED <<call, ret>>
       ELSE req' = "no" /\ Return("failed") /\ UNCHANGED <<buffer, json>>
    /\ UNCHANGED <<operation, device>>

\* A request that fails ends fetch_host_name at once.
PollFails ==
    /\ call = "poll"
    /\ req = "failed"
    /\ req' = "no"
    /\ Return("failed")
    /\ UNCHANGED <<buffer, json, attempt, operation, hub, device>>

-----------------------------------------------------------------------------
(* azure_post_telemetry. *)

PostTelemetry ==
    /\ call = "none"
    /\ call' = "post"
    /\ BeginRequest
    /\ UNCHANGED <<ret, attempt, operation, hub, device>>

\* 0 for a request that failed or was answered by nothing, -1 for any JSON.
Posted ==
    /\ call = "post"
    /\ req \in {"ok", "failed"}
    /\ req' = "no"
    /\ Return(IF req = "failed" \/ json = NoJson THEN "ok" ELSE "failed")
    /\ UNCHANGED <<buffer, json, attempt, operation, hub, device>>

-----------------------------------------------------------------------------

AzureInit ==
    /\ call = "none"
    /\ ret = "ok"
    /\ req = "no"
    /\ buffer = <<>>
    /\ json = NoJson
    /\ attempt = 0
    /\ operation = ""
    /\ hub = ""
    /\ device = ""

\* What goes on once one of the three functions has been called.
AzureStep ==
    \/ ReceiveChunk \/ RequestFails \/ RequestDone
    \/ NoConnection \/ NetworkUp \/ NetworkError
    \/ NoConfig \/ Register \/ Registered \/ RegistrationFails
    \/ Assigned \/ NotAssigned \/ PollFails
    \/ Posted

AzureTypeOK ==
    /\ call \in Calls \cup {"none"}
    /\ ret \in {"ok", "failed"}
    /\ req \in {"no", "sent", "ok", "failed"}
    /\ buffer \in Seq(Calls) /\ Len(buffer) <= BufferSize
    /\ json \in [of : Calls \cup {"none"}, says : Answers \cup {"nothing"}]
    /\ attempt \in 0..(NetworkAttempts + HostNameRetries)
    /\ operation \in {"", "whole", "cut"}
    /\ hub \in {"", "whole", "cut"}
    /\ device \in HubNames \cup {""}
==============================================================================
