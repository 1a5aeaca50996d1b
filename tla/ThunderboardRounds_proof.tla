---------------------- MODULE ThunderboardRounds_proof ----------------------
(***************************************************************************)
(* Proofs about ThunderboardApp, continued: what the host has found out    *)
(* when its discovery is over, and what it uploads.  They hold for every   *)
(* peripheral, but for fewer faults than those of ThunderboardApp_proof:   *)
(* each theorem says which.                                                *)
(***************************************************************************)
EXTENDS ThunderboardApp_proof

-----------------------------------------------------------------------------
(* The sensors that the device has are all registered. *)

\* An event of this type and argument comes before the completion of the procedure
\* under way: there is no completion it does not precede.
Meets(e, type, arg) == e.type = type /\ e.arg = arg

Ahead(type, arg) ==
    /\ \A i \in 1..Len(inbox) :
          inbox[i].type = "completed" => \E j \in 1..i - 1 : Meets(inbox[j], type, arg)
    /\ proc # <<>> =>
          \/ \E j \in 1..Len(inbox) : Meets(inbox[j], type, arg)
          \/ \E k \in 1..Len(proc) : Meets(proc[k], type, arg)

\* Service m of the peripheral has a characteristic with the UUID of sensor s.
Has(m, s) == \E j \in 1..Len(ServiceChars[m]) : Uuid[ServiceChars[m][j]] = s

\* Each service is among those whose characteristics are still to be discovered,
\* or is about to be reported.
ServicesFound ==
    Running /\ state = "DISCOVER_SERVICES" =>
        \A m \in ServiceIds :
            \/ \E k \in serviceIndex..Len(services) : services[k] = m
            \/ Ahead("service", m)

\* Each sensor has its pointer, or belongs to a service still to be looked at, or
\* a characteristic with its UUID is about to be reported.
CharsFound ==
    Running /\ state = "DISCOVER_CHARACTERISTICS" =>
        \A s \in Sensors :
            \/ sensors[s] # Null
            \/ \E k \in serviceIndex + 1..Len(services) : Has(services[k], s)
            \/ \E h \in Handles : Uuid[h] = s /\ Ahead("characteristic", h)

\* service_index never leaves the services by more than one.
IndexFollows ==
    Running =>
        /\ serviceIndex <= Len(services) + 1
        /\ state = "DISCOVER_CHARACTERISTICS" => serviceIndex <= Len(services)

RegInv == ServicesFound /\ CharsFound /\ IndexFollows /\ SensorsRegistered

\* A completion that is next has nothing ahead of it.
LEMMA NothingAhead ==
  ASSUME IInv, Receive("completed"), NEW type, NEW arg
  PROVE  ~Ahead(type, arg)
  <1>1. 1 \in 1..Len(inbox) /\ inbox[1].type = "completed"
    BY TakenInbox DEF IInv
  <1>2. ~\E j \in 1..1 - 1 : Meets(inbox[j], type, arg)
    OBVIOUS
  <1> QED
    BY <1>1, <1>2 DEF Ahead

LEMMA AheadTaken ==
  ASSUME IInv, NEW taken, taken # "completed", Receive(taken), proc' = proc,
         NEW type, NEW arg, ~(taken = type /\ Arg = arg), Ahead(type, arg)
  PROVE  Ahead(type, arg)'
  <1>1. /\ Len(inbox) \in Nat /\ Len(inbox') = Len(inbox) - 1
        /\ \A i \in 1..Len(inbox') : i + 1 \in 1..Len(inbox) /\ inbox'[i] = inbox[i + 1]
    BY TakenInbox DEF IInv
  <1>2. ~Meets(inbox[1], type, arg)
    <2>1. inbox[1] = Head(inbox) /\ inbox[1].type = taken
      BY DEF Receive, IInv, HostTypeOK
    <2> QED
      BY <2>1 DEF Arg, Meets
  <1>3. ASSUME NEW j \in 1..Len(inbox), Meets(inbox[j], type, arg)
        PROVE  j - 1 \in 1..Len(inbox') /\ Meets(inbox'[j - 1], type, arg)
    <2>1. j - 1 \in 1..Len(inbox') /\ inbox'[j - 1] = inbox[j]
      BY <1>1, <1>2, <1>3
    <2> QED
      BY <1>3, <2>1
  <1>4. ASSUME NEW i \in 1..Len(inbox'), inbox'[i].type = "completed"
        PROVE  \E j \in 1..i - 1 : Meets(inbox'[j], type, arg)
    <2>1. PICK j \in 1..(i + 1) - 1 : Meets(inbox[j], type, arg)
      BY <1>1, <1>4 DEF Ahead
    <2>2. j \in 1..Len(inbox) /\ j - 1 \in 1..Len(inbox') /\ Meets(inbox'[j - 1], type, arg)
      BY <1>1, <1>3, <2>1
    <2> QED
      BY <2>1, <2>2
  <1>5. proc' # <<>> =>
          \/ \E j \in 1..Len(inbox') : Meets(inbox'[j], type, arg)
          \/ \E k \in 1..Len(proc') : Meets(proc'[k], type, arg)
    BY <1>3 DEF Ahead
  <1>6. Ahead(type, arg)'
    BY <1>4, <1>5 DEF Ahead, Meets
  <1> QED
    BY <1>6

LEMMA AheadDelivered ==
  ASSUME IInv, NEW e \in Event, Deliver(e),
         NEW type, NEW arg, Ahead(type, arg),
         \/ e.type # "completed" /\ (proc' = proc \/ proc' = <<>>)
         \/ /\ proc # <<>> /\ e = proc[1] /\ proc' = Tail(proc)
            /\ type # "completed"
  PROVE  Ahead(type, arg)'
  <1>1. /\ Len(inbox) \in Nat /\ Len(inbox') = Len(inbox) + 1
        /\ \A i \in 1..Len(inbox) : i \in 1..Len(inbox') /\ inbox'[i] = inbox[i]
        /\ inbox'[Len(inbox) + 1] = e /\ Len(inbox) + 1 \in 1..Len(inbox')
    BY DeliveredInbox DEF IInv
  <1>2. \A i \in 1..Len(inbox') : i \in 1..Len(inbox) \/ i = Len(inbox) + 1
    BY <1>1
  <1>3. ASSUME NEW i \in 1..Len(inbox), inbox'[i].type = "completed"
        PROVE  \E j \in 1..i - 1 : Meets(inbox'[j], type, arg)
    <2>1. PICK j \in 1..i - 1 : Meets(inbox[j], type, arg)
      BY <1>1, <1>3 DEF Ahead
    <2>2. j \in 1..Len(inbox)
      BY <1>1, <2>1
    <2> QED
      BY <1>1, <2>1, <2>2
  <1>4. CASE e.type # "completed" /\ (proc' = proc \/ proc' = <<>>)
    <2>1. proc' # <<>> =>
            \/ \E j \in 1..Len(inbox') : Meets(inbox'[j], type, arg)
            \/ \E k \in 1..Len(proc') : Meets(proc'[k], type, arg)
      BY <1>1, <1>4 DEF Ahead
    <2> QED
      BY <1>1, <1>2, <1>3, <1>4, <2>1 DEF Ahead, Meets
  <1>5. CASE proc # <<>> /\ e = proc[1] /\ proc' = Tail(proc) /\ type # "completed"
    <2>1. /\ Len(proc) \in Nat /\ 1 \in 1..Len(proc)
          /\ Len(proc') = Len(proc) - 1
          /\ \A k \in 1..Len(proc') : k + 1 \in 1..Len(proc) /\ proc'[k] = proc[k + 1]
      BY <1>5, SMTT(30) DEF IInv, GoodProc
    <2>2. e.type = "completed" => Len(proc) = 1
      BY <1>5, <2>1 DEF IInv, GoodProc
    <2>3. CASE \E j \in 1..Len(inbox) : Meets(inbox[j], type, arg)
      <3>1. PICK j \in 1..Len(inbox) : Meets(inbox[j], type, arg)
        BY <2>3
      <3>2. /\ j \in 1..Len(inbox') /\ j \in 1..(Len(inbox) + 1) - 1
            /\ Meets(inbox'[j], type, arg)
        BY <1>1, <3>1
      <3> QED
        BY <1>1, <1>2, <1>3, <3>2 DEF Ahead, Meets
    <2>4. CASE \E k \in 1..Len(proc) : Meets(proc[k], type, arg)
      <3>1. PICK k \in 1..Len(proc) : Meets(proc[k], type, arg)
        BY <2>4
      <3>2. e.type # "completed"
        <4> SUFFICES ASSUME e.type = "completed" PROVE FALSE
          OBVIOUS
        <4>1. k = 1
          <5>1. Len(proc) = 1
            BY <2>2
          <5> QED
            BY <3>1, <5>1
        <4>2. e.type = type
          BY <1>5, <3>1, <4>1 DEF Meets
        <4> QED
          BY <1>5, <4>2
      <3>3. CASE k = 1
        <4>1. Meets(inbox'[Len(inbox) + 1], type, arg)
          BY <1>1, <1>5, <3>1, <3>3
        <4> QED
          BY <1>1, <1>2, <1>3, <3>2, <4>1 DEF Ahead, Meets
      <3>4. CASE k # 1
        <4>1. k - 1 \in 1..Len(proc') /\ proc'[k - 1] = proc[k]
          BY <2>1, <3>1, <3>4
        <4> QED
          BY <1>1, <1>2, <1>3, <3>1, <3>2, <4>1 DEF Ahead, Meets
      <3> QED
        BY <3>3, <3>4
    <2> QED
      BY <1>5, <2>3, <2>4 DEF Ahead
  <1> QED
    BY <1>4, <1>5

\* A procedure starts with no completion in the inbox, so that all it is going to
\* report is ahead.
LEMMA AheadStarted ==
  ASSUME IInv, NEW taken, Receive(taken),
         \/ taken = "completed" /\ state \in GattStates
         \/ state = "CONNECT",
         NEW type, NEW arg, \E k \in 1..Len(proc') : Meets(proc'[k], type, arg)
  PROVE  Ahead(type, arg)'
  <1>1. /\ Running /\ state # "INIT"
        /\ 1 \in 1..Len(inbox) /\ inbox[1].type = taken
        /\ \A i \in 1..Len(inbox') : i \in Nat /\ i + 1 \in 1..Len(inbox) /\ i + 1 # 1
                                   /\ inbox'[i] = inbox[i + 1]
    BY TakenInbox DEF IInv, GattStates
  <1>2. \A i \in 1..Len(inbox) : ~inbox[i].stale
    BY <1>1 DEF IInv, Safe, NoStaleEvents
  <1>3. \A i \in 1..Len(inbox') : inbox'[i].type # "completed"
    <2> SUFFICES ASSUME NEW i \in 1..Len(inbox'), inbox'[i].type = "completed"
                 PROVE  FALSE
      OBVIOUS
    <2>1. i + 1 \in Completions
      BY <1>1, <1>2 DEF Completions
    <2>2. CASE state = "CONNECT"
      BY <1>1, <2>1, <2>2 DEF IInv, Safe, OneProcedure, GattStates
    <2>3. CASE taken = "completed"
      <3>1. 1 \in Completions
        BY <1>1, <1>2, <2>3 DEF Completions
      <3> QED
        BY <1>1, <2>1, <3>1 DEF IInv, Safe, OneProcedure
    <2> QED
      BY <2>2, <2>3
  <1> QED
    BY <1>3 DEF Ahead, Meets
\* A step that only adds an event of another kind, or takes one, changes nothing.
LEMMA QuietKeeps ==
  ASSUME RegInv, UNCHANGED <<state, status, services, serviceIndex, sensors>>,
         state = "DISCOVER_SERVICES" =>
             \A arg : Ahead("service", arg) => Ahead("service", arg)',
         state = "DISCOVER_CHARACTERISTICS" =>
             \A arg : Ahead("characteristic", arg) => Ahead("characteristic", arg)'
  PROVE  RegInv'
  <1>1. ServicesFound'
    BY DEF RegInv, ServicesFound, Running
  <1>2. CharsFound'
    BY DEF RegInv, CharsFound, Running, Has
  <1>3. IndexFollows' /\ SensorsRegistered'
    BY DEF RegInv, IndexFollows, SensorsRegistered, Running
  <1> QED
    BY <1>1, <1>2, <1>3 DEF RegInv

\* In the other states nothing is promised but the place of service_index.
LEMMA ElsewhereKeeps ==
  ASSUME RegInv, Running, UNCHANGED <<services, serviceIndex>>,
         state' \in {"INIT", "DISCOVERY", "CONNECT"}
  PROVE  RegInv'
  BY DEF RegInv, ServicesFound, CharsFound, IndexFollows, SensorsRegistered, Running

LEMMA StoppedKeeps ==
  ASSUME ~Running' PROVE RegInv'
  BY DEF RegInv, ServicesFound, CharsFound, IndexFollows, SensorsRegistered

LEMMA ServicesListed ==
  ASSUME NEW m \in ServiceIds
  PROVE  \E k \in 1..Len(ServicesProc) : Meets(ServicesProc[k], "service", m)
  <1>1. Len(ServiceChars) \in Nat
    BY DeviceAssumption
  <1>2. Len(ServicesProc) = Len(ServiceChars) + 1
    BY <1>1 DEF ServicesProc
  <1>3. m \in 1..Len(ServicesProc) /\ ServicesProc[m] = Ev("service", m)
    BY <1>1, <1>2 DEF ServicesProc, ServiceIds
  <1> QED
    BY <1>3 DEF Meets, Ev

LEMMA CharsListed ==
  ASSUME NEW m \in ServiceIds, NEW j \in 1..Len(ServiceChars[m])
  PROVE  /\ ServiceChars[m][j] \in Handles
         /\ \E k \in 1..Len(CharsProc(m)) :
                Meets(CharsProc(m)[k], "characteristic", ServiceChars[m][j])
  <1> DEFINE n == Len(ServiceChars[m])
             P == [i \in 1..n + 1 |->
                      IF i <= n THEN Ev("characteristic", ServiceChars[m][i])
                      ELSE Completed]
  <1>1. ServiceChars[m] \in Seq(Handles) /\ n \in Nat
    BY DeviceAssumption DEF ServiceIds
  <1>2. CharsProc(m) = P
    BY DEF CharsProc
  <1>3. Len(P) = n + 1
    BY <1>1
  <1>4. j \in 1..Len(P) /\ P[j] = Ev("characteristic", ServiceChars[m][j])
    BY <1>1, <1>3
  <1> HIDE DEF P
  <1> QED
    BY <1>1, <1>2, <1>4 DEF Meets, Ev

\* A procedure that is accepted is under way; when it is not, the program stops.
LEMMA Started ==
  ASSUME NEW results, NEW events, Start(results, events), Running'
  PROVE  proc' = events
  BY DEF Start, Stop, Running

\* The discovery of the characteristics of service i, when those of the services
\* before it are known.
LEMMA NextServiceKeeps ==
  ASSUME IInv, IInv', NEW i \in Nat \ {0}, i <= Len(services),
         Receive("completed"), state \in GattStates, DiscoverChars(i),
         serviceIndex' = i, UNCHANGED <<services, sensors>>,
         \A s \in Sensors : sensors[s] # Null \/ \E k \in i..Len(services) : Has(services[k], s)
  PROVE  RegInv'
  <1> SUFFICES ASSUME Running' PROVE RegInv'
    BY StoppedKeeps
  <1>1. /\ services \in Seq(ServiceIds) /\ i \in 1..Len(services)
        /\ Len(services) \in Nat /\ services[i] \in ServiceIds
    BY SMTT(30) DEF IInv, HostTypeOK
  <1>2. state' = "DISCOVER_CHARACTERISTICS" /\ proc' = CharsProc(services[i])
    BY <1>1, Started DEF DiscoverChars
  <1>3. CharsFound'
    <2> SUFFICES ASSUME NEW s \in Sensors, sensors[s] = Null
                 PROVE  \/ \E k \in i + 1..Len(services) : Has(services[k], s)
                        \/ \E h \in Handles : Uuid[h] = s /\ Ahead("characteristic", h)'
      BY DEF CharsFound, Has
    <2>1. PICK k \in i..Len(services) : Has(services[k], s)
      OBVIOUS
    <2>2. CASE k # i
      BY <1>1, <2>1, <2>2
    <2>3. CASE k = i
      <3>1. PICK j \in 1..Len(ServiceChars[services[i]]) :
               Uuid[ServiceChars[services[i]][j]] = s
        BY <2>1, <2>3 DEF Has
      <3>2. PICK h \in Handles : h = ServiceChars[services[i]][j]
        BY <1>1, CharsListed
      <3>3. \E n \in 1..Len(proc') : Meets(proc'[n], "characteristic", h)
        BY <1>1, <1>2, <3>2, CharsListed
      <3>4. Ahead("characteristic", h)'
        BY <3>3, AheadStarted
      <3> QED
        BY <3>1, <3>2, <3>4
    <2> QED
      BY <2>2, <2>3
  <1>4. ServicesFound' /\ SensorsRegistered'
    BY <1>2 DEF ServicesFound, SensorsRegistered
  <1>5. IndexFollows'
    BY <1>1 DEF IndexFollows
  <1> QED
    BY <1>3, <1>4, <1>5 DEF RegInv

LEMMA OpenedRegisters == ASSUME IInv, RegInv, Opened PROVE RegInv'
  <1> SUFFICES ASSUME Running' PROVE RegInv'
    BY StoppedKeeps
  <1>1. /\ state = "CONNECT" /\ Receive("opened") /\ state' = "DISCOVER_SERVICES"
        /\ Start(GattResults, ServicesProc) /\ UNCHANGED <<services, serviceIndex>>
    BY DEF Opened, EnterServices, gattVars
  <1>2. proc' = ServicesProc /\ Running
    BY <1>1, Started DEF Receive, Running
  <1>3. \A m \in ServiceIds : Ahead("service", m)'
    BY <1>1, <1>2, ServicesListed, AheadStarted
  <1> QED
    BY <1>1, <1>2, <1>3
    DEF RegInv, ServicesFound, CharsFound, IndexFollows, SensorsRegistered

LEMMA ServiceFoundRegisters == ASSUME IInv, RegInv, ServiceFound PROVE RegInv'
  <1> SUFFICES ASSUME Running' PROVE RegInv'
    BY StoppedKeeps
  <1>1. /\ state = "DISCOVER_SERVICES" /\ state' = state /\ Receive("service")
        /\ services' = Append(services, Arg)
        /\ UNCHANGED <<serviceIndex, proc>> /\ Running
    BY DEF ServiceFound, ncpVars, Stop, Running, Receive
  <1>2. /\ Len(services) \in Nat /\ Len(services') = Len(services) + 1
        /\ services'[Len(services) + 1] = Arg
        /\ \A k \in 1..Len(services) : services'[k] = services[k]
        /\ serviceIndex \in Nat \ {0} /\ serviceIndex <= Len(services) + 1
    BY <1>1, HeadArg DEF IInv, HostTypeOK, RegInv, IndexFollows
  <1>3. ASSUME NEW m \in ServiceIds
        PROVE  \/ \E k \in serviceIndex..Len(services') : services'[k] = m
               \/ Ahead("service", m)'
    <2>1. CASE \E k \in serviceIndex..Len(services) : services[k] = m
      BY <1>2, <2>1
    <2>2. CASE Ahead("service", m) /\ Arg # m
      BY <1>1, <2>2, AheadTaken
    <2>3. CASE Arg = m
      <3>1. Len(services) + 1 \in serviceIndex..Len(services')
        BY <1>2
      <3> QED
        BY <1>2, <2>3, <3>1
    <2> QED
      BY <1>1, <2>1, <2>2, <2>3 DEF RegInv, ServicesFound
  <1>4. ServicesFound'
    BY <1>1, <1>3 DEF ServicesFound
  <1>5. IndexFollows'
    BY <1>1, <1>2 DEF IndexFollows
  <1> QED
    BY <1>1, <1>4, <1>5 DEF RegInv, CharsFound, SensorsRegistered

LEMMA CharacteristicFoundRegisters ==
  ASSUME IInv, RegInv, CharacteristicFound PROVE RegInv'
  <1> SUFFICES ASSUME Running' PROVE RegInv'
    BY StoppedKeeps
  <1>1. /\ state = "DISCOVER_CHARACTERISTICS" /\ state' = state
        /\ Receive("characteristic") /\ Running
        /\ charsLen + 1 <= MaxChars /\ sensors' = Register(charsLen + 1, Arg)
        /\ UNCHANGED <<services, serviceIndex, proc>>
    <2>1. ~(charsLen + 1 > MaxChars)
      BY DEF CharacteristicFound, Running
    <2> QED
      BY <2>1, BoundAssumption DEF CharacteristicFound, IInv, HostTypeOK, ncpVars, Running, Receive
  <1>2. /\ Arg \in Handles /\ Uuid[Arg] \in Sensors \cup {0} /\ 0 \notin Sensors
        /\ charsLen + 1 # Null /\ sensors \in [Sensors -> 0..MaxChars]
    BY <1>1, HeadArg, DeviceAssumption, SMTT(30) DEF IInv, HostTypeOK, Null, Sensors
  <1>3. /\ \A s \in Sensors : sensors[s] # Null => sensors'[s] # Null
        /\ \A s \in Sensors : Uuid[Arg] = s => sensors'[s] # Null
    BY <1>1, <1>2 DEF Register
  <1>4. ASSUME NEW s \in Sensors
        PROVE  \/ sensors'[s] # Null
               \/ \E k \in serviceIndex + 1..Len(services) : Has(services[k], s)
               \/ \E h \in Handles : Uuid[h] = s /\ Ahead("characteristic", h)'
    <2>1. CASE \E h \in Handles : Uuid[h] = s /\ Ahead("characteristic", h)
      <3>1. PICK h \in Handles : Uuid[h] = s /\ Ahead("characteristic", h)
        BY <2>1
      <3>2. CASE h = Arg
        BY <1>3, <3>1, <3>2
      <3>3. CASE h # Arg
        <4>1. Ahead("characteristic", h)'
          BY <1>1, <3>1, <3>3, AheadTaken
        <4> QED
          BY <3>1, <4>1
      <3> QED
        BY <3>2, <3>3
    <2> QED
      BY <1>1, <1>3, <2>1 DEF RegInv, CharsFound
  <1>5. CharsFound'
    BY <1>1, <1>4 DEF CharsFound, Has
  <1> QED
    BY <1>1, <1>5 DEF RegInv, ServicesFound, IndexFollows, SensorsRegistered
\* Each sensor of the demo is that of a characteristic of the peripheral, and no
\* report of the discovery is lost: a procedure that fails, at most, belongs to
\* another state.
Complete ==
    /\ \A s \in Sensors : \E m \in ServiceIds : Has(m, s)
    /\ "drop" \notin Faults
    /\ "att" \in Faults =>
          FaultStates \cap {"DISCOVER_SERVICES", "DISCOVER_CHARACTERISTICS"} = {}

LEMMA ServicesDiscoveredRegisters ==
  ASSUME Complete, IInv, IInv', RegInv, ServicesDiscovered PROVE RegInv'
  <1>1. /\ state = "DISCOVER_SERVICES" /\ Receive("completed") /\ Running
        /\ DiscoverChars(serviceIndex)
        /\ UNCHANGED <<services, serviceIndex, sensors>>
    BY DEF ServicesDiscovered, gattVars, Receive, Running
  <1>2. serviceIndex \in Nat \ {0} /\ Len(services) \in Nat
    BY DEF IInv, HostTypeOK
  <1>3. \A m \in ServiceIds : \E k \in serviceIndex..Len(services) : services[k] = m
    BY <1>1, NothingAhead DEF RegInv, ServicesFound
  <1>4. \A s \in Sensors : \E k \in serviceIndex..Len(services) : Has(services[k], s)
    BY <1>3 DEF Complete
  <1>5. serviceIndex <= Len(services)
    <2>1. 1 \in Sensors
      BY DeviceAssumption DEF Sensors
    <2> QED
      BY <1>2, <1>4, <2>1
  <1> QED
    BY <1>1, <1>2, <1>4, <1>5, NextServiceKeeps DEF GattStates

\* The states after the discovery.
LEMMA SubscribeStates ==
  ASSUME HostTypeOK, NEW i \in 1..NumSensors + 1, SubscribeFrom(i)
  PROVE  state' \in {"SUBSCRIBE", "READ", "INIT"}
  BY SubscribeOutcome

LEMMA RegisteredKeeps ==
  ASSUME \A s \in Sensors : sensors[s] # Null,
         UNCHANGED <<services, sensors>>,
         Running' => serviceIndex' <= Len(services) + 1,
         state' \in {"SUBSCRIBE", "READ", "INIT"}
  PROVE  RegInv'
  BY DEF RegInv, ServicesFound, CharsFound, IndexFollows, SensorsRegistered

LEMMA CharacteristicsDiscoveredRegisters ==
  ASSUME IInv, IInv', RegInv, CharacteristicsDiscovered PROVE RegInv'
  <1>1. /\ state = "DISCOVER_CHARACTERISTICS" /\ Receive("completed") /\ Running
        /\ serviceIndex' = serviceIndex + 1 /\ UNCHANGED <<services, sensors>>
    BY DEF CharacteristicsDiscovered, Receive, Running
  <1>2. /\ serviceIndex \in Nat \ {0} /\ Len(services) \in Nat
        /\ serviceIndex <= Len(services)
    BY <1>1 DEF IInv, HostTypeOK, RegInv, IndexFollows
  <1>3. \A s \in Sensors :
           sensors[s] # Null \/ \E k \in serviceIndex + 1..Len(services) : Has(services[k], s)
    BY <1>1, NothingAhead DEF RegInv, CharsFound
  <1> DEFINE i == serviceIndex + 1
  <1>4. CASE i <= Len(services)
    <2>1. DiscoverChars(i) /\ i \in Nat \ {0} /\ serviceIndex' = i
      BY <1>1, <1>2, <1>4 DEF CharacteristicsDiscovered, IsService
    <2>2. PICK n \in Nat \ {0} : n = i
      BY <2>1
    <2> QED
      BY <1>1, <1>3, <1>4, <2>1, <2>2, NextServiceKeeps DEF GattStates
  <1>5. CASE ~(i <= Len(services))
    <2>1. \A s \in Sensors : sensors[s] # Null
      BY <1>2, <1>3, <1>5
    <2>2. SubscribeFrom(1) /\ 1 \in 1..NumSensors + 1
      BY <1>1, <1>5, DeviceAssumption DEF CharacteristicsDiscovered, IsService
    <2>3. state' \in {"SUBSCRIBE", "READ", "INIT"}
      BY <2>2, SubscribeStates DEF IInv
    <2> QED
      BY <1>1, <1>2, <2>1, <2>3, RegisteredKeeps
  <1> QED
    BY <1>4, <1>5

\* The handlers of SUBSCRIBE and READ.
LEMMA LaterHandlersRegister ==
  ASSUME IInv, RegInv,
         Subscribed \/ ValueReceived \/ RequestNext \/ Refresh \/ RefreshCrash
  PROVE  RegInv'
  <1>1. /\ state \in {"SUBSCRIBE", "READ"} /\ Running
        /\ UNCHANGED <<services, serviceIndex, sensors>>
    BY DEF Subscribed, ValueReceived, RequestNext, Refresh, RefreshCrash, RoundEnded,
           Receive, Running, gattVars
  <1>2. /\ \A s \in Sensors : sensors[s] # Null
        /\ serviceIndex <= Len(services) + 1
    BY <1>1 DEF RegInv, SensorsRegistered, IndexFollows
  <1>3. state' \in {"SUBSCRIBE", "READ", "INIT"}
    <2>1. CASE Subscribed
      BY <2>1, SubscribeStates DEF Subscribed, IInv, HostTypeOK
    <2>2. CASE ValueReceived \/ RefreshCrash
      BY <1>1, <2>2 DEF ValueReceived, RefreshCrash
    <2>3. CASE RequestNext \/ Refresh
      BY <2>3 DEF RequestNext, Refresh, Request, EnterInit
    <2> QED
      BY <2>1, <2>2, <2>3
  <1> QED
    BY <1>1, <1>2, <1>3, RegisteredKeeps

LEMMA IgnoreRegisters == ASSUME IInv, RegInv, Ignore PROVE RegInv'
  <1>1. PICK type \in EventTypes \ Handled(state) : Receive(type)
    BY DEF Ignore
  <1>2. UNCHANGED <<state, status, services, serviceIndex, sensors, proc>>
    BY DEF Ignore, hostVars, gattVars, ncpVars
  <1>3. /\ state = "DISCOVER_SERVICES" => type \notin {"service", "completed"}
        /\ state = "DISCOVER_CHARACTERISTICS" => type \notin {"characteristic", "completed"}
    BY <1>1 DEF Handled, GattStates
  <1>4. ASSUME state = "DISCOVER_SERVICES", NEW arg, Ahead("service", arg)
        PROVE  Ahead("service", arg)'
    BY <1>1, <1>2, <1>3, <1>4, AheadTaken
  <1>5. ASSUME state = "DISCOVER_CHARACTERISTICS", NEW arg, Ahead("characteristic", arg)
        PROVE  Ahead("characteristic", arg)'
    BY <1>1, <1>2, <1>3, <1>5, AheadTaken
  <1> QED
    BY <1>2, <1>4, <1>5, QuietKeeps

\* The other handlers leave the states of the discovery, or are not in them.
LEMMA OtherHandlersRegister ==
  ASSUME IInv, RegInv,
         Boot \/ AdvertisementTimeout \/ ThunderboardFound \/ OtherAdvertisement \/ Closed
  PROVE  RegInv'
  <1>1. Running /\ UNCHANGED <<services, serviceIndex>>
    BY DEF Boot, AdvertisementTimeout, ThunderboardFound, OtherAdvertisement, Closed,
           Receive, Running, gattVars, hostVars
  <1>2. CASE state' \in {"INIT", "DISCOVERY", "CONNECT"}
    BY <1>1, <1>2, ElsewhereKeeps
  <1>3. state' \in {"INIT", "DISCOVERY", "CONNECT"}
    BY DEF Boot, AdvertisementTimeout, ThunderboardFound, OtherAdvertisement, Closed,
           EnterDiscovery, EnterConnect, EnterInit, hostVars
  <1> QED
    BY <1>2, <1>3

\* The NCP and the peripheral report what they have left to report.
LEMMA EnvironmentRegisters ==
  ASSUME Complete, IInv, RegInv, Environment
  PROVE  RegInv'
  <1>1. UNCHANGED <<state, status, services, serviceIndex, sensors>>
    BY DEF Environment, Reset, Advertise, OpenConnection, OtherEvent, Progress,
           Notify, OpenFails, LoseConnection, Disconnect, AttError, DropEvent, Tick,
           hostVars, gattVars
  <1>2. CASE AttError
    <2>1. state \notin {"DISCOVER_SERVICES", "DISCOVER_CHARACTERISTICS"}
      BY <1>2 DEF AttError, Complete
    <2> QED
      BY <1>1, <2>1, QuietKeeps
  <1>3. CASE Reset
    <2>1. state = "INIT"
      BY <1>3 DEF Reset, IInv, Safe, BootInv, Running
    <2> QED
      BY <1>1, <2>1, QuietKeeps
  <1>4. CASE Tick
    <2>1. state = "DISCOVERY"
      BY <1>4 DEF Tick
    <2> QED
      BY <1>1, <2>1, QuietKeeps
  <1>5. CASE Progress
    <2>1. /\ proc # <<>> /\ Deliver(proc[1]) /\ proc' = Tail(proc) /\ proc[1] \in Event
      BY <1>5 DEF Progress, IInv, GoodProc
    <2>2. PICK e \in Event : e = proc[1]
      BY <2>1
    <2>3. ASSUME NEW type, type # "completed", NEW arg, Ahead(type, arg)
          PROVE  Ahead(type, arg)'
      BY <2>1, <2>2, <2>3, AheadDelivered
    <2> QED
      BY <1>1, <2>3, QuietKeeps
  <1>6. ASSUME NEW e \in Event, Deliver(e), e.type # "completed",
               proc' = proc \/ proc' = <<>>
        PROVE  RegInv'
    <2>1. ASSUME NEW type, NEW arg, Ahead(type, arg)
          PROVE  Ahead(type, arg)'
      BY <1>6, <2>1, AheadDelivered
    <2> QED
      BY <1>1, <2>1, QuietKeeps
  <1>7. CASE \E match \in {0, 1} : Advertise(match)
    <2>1. PICK match \in {0, 1} : Deliver(Ev("scan", match)) /\ proc' = proc
      BY <1>7 DEF Advertise, ncpVars
    <2>2. Ev("scan", match) \in Event /\ Ev("scan", match).type # "completed"
      BY EvIsEvent DEF EventTypes
    <2> QED
      BY <1>6, <2>1, <2>2
  <1>8. CASE \E h \in Notifying : Notify(h)
    <2>1. PICK h \in subscribed : Deliver(Ev("value", h)) /\ proc' = proc
      BY <1>8 DEF Notify, ncpVars
    <2>2. h \in Handles /\ h \in Nat
      BY DeviceAssumption DEF IInv, HostTypeOK
    <2>3. Ev("value", h) \in Event /\ Ev("value", h).type # "completed"
      BY <2>2, EvIsEvent DEF EventTypes
    <2> QED
      BY <1>6, <2>1, <2>3
  <1>9. CASE OpenConnection \/ OtherEvent \/ OpenFails \/ LoseConnection
    <2>1. \E type \in {"opened", "other", "closed"} :
             Deliver(Ev(type, 0)) /\ (proc' = proc \/ proc' = <<>>)
      BY <1>9 DEF OpenConnection, OtherEvent, OpenFails, LoseConnection, Disconnect, ncpVars
    <2>2. \A type \in {"opened", "other", "closed"} :
             Ev(type, 0) \in Event /\ Ev(type, 0).type # "completed"
      BY DEF Ev, Event, EventTypes
    <2> QED
      BY <1>6, <2>1, <2>2
  <1> QED
    BY <1>2, <1>3, <1>4, <1>5, <1>7, <1>8, <1>9 DEF Environment, DropEvent, Complete

LEMMA NextRegisters ==
  ASSUME Complete, IInv, IInv', RegInv, [Next]_vars
  PROVE  RegInv'
  <1>1. CASE HandleEvent
    BY <1>1, OpenedRegisters, ServiceFoundRegisters, ServicesDiscoveredRegisters,
       CharacteristicFoundRegisters, CharacteristicsDiscoveredRegisters,
       LaterHandlersRegister, IgnoreRegisters, OtherHandlersRegister
    DEF HandleEvent
  <1>2. CASE Upload \/ TakeJob \/ UNCHANGED vars
    <2>1. UNCHANGED <<state, status, services, serviceIndex, sensors, inbox, proc>>
      BY <1>2 DEF Upload, TakeJob, vars, hostVars, gattVars, ncpVars
    <2>2. \A type, arg : Ahead(type, arg) => Ahead(type, arg)'
      BY <2>1 DEF Ahead, Meets
    <2> QED
      BY <2>1, <2>2, QuietKeeps
  <1>3. CASE Environment
    BY <1>3, EnvironmentRegisters
  <1> QED
    BY <1>1, <1>2, <1>3 DEF Next, Stopped

\* A device that has all the sensors has them all registered when their pointers
\* are first followed, however often and wherever its connection was lost before,
\* when no procedure of the discovery fails and no event is dropped.
THEOREM AllRegistered ==
  ASSUME \A s \in Sensors : \E m \in ServiceIds : \E j \in 1..Len(ServiceChars[m]) :
             Uuid[ServiceChars[m][j]] = s,
         "drop" \notin Faults,
         "att" \in Faults =>
             FaultStates \cap {"DISCOVER_SERVICES", "DISCOVER_CHARACTERISTICS"} = {}
  PROVE  Spec => []SensorsRegistered
  <1>1. Complete
    BY DEF Complete, Has
  <1>2. Init => RegInv
    BY DEF Init, RegInv, ServicesFound, CharsFound, IndexFollows, SensorsRegistered
  <1>3. IInv /\ IInv' /\ RegInv /\ [Next]_vars => RegInv'
    BY <1>1, NextRegisters
  <1>4. RegInv => SensorsRegistered
    BY DEF RegInv
  <1> QED
    BY <1>2, <1>3, <1>4, Invariance, PTL DEF Spec

\* Where the sensors are registered no null pointer is followed.
LEMMA NoNullKept ==
  ASSUME SensorsRegistered, status # "null_deref", [Next]_vars
  PROVE  status' # "null_deref"
  <1>1. CASE ValueReceived
    <2>1. \A s \in Sensors : sensors[s] # Null
      BY <1>1 DEF ValueReceived, Receive, SensorsRegistered, Running
    <2> QED
      BY <1>1, <2>1 DEF ValueReceived
  <1>2. ~RefreshCrash
    BY DeviceAssumption
    DEF RefreshCrash, RoundEnded, Receive, SensorsRegistered, Running, Sensors
  <1>3. CASE Boot \/ AdvertisementTimeout \/ ThunderboardFound \/ OtherAdvertisement
             \/ Opened \/ Closed \/ ServiceFound
    BY <1>3 DEF Boot, AdvertisementTimeout, ThunderboardFound, OtherAdvertisement,
       Opened, Closed, ServiceFound, EnterDiscovery, EnterConnect, EnterServices,
       EnterInit, Start, Stop, hostVars
  <1>4. ASSUME NEW s, NEW revert, Request(s, revert)
        PROVE  status' # "null_deref"
    BY <1>4 DEF Request, Stop
  <1>5. ASSUME NEW i, SubscribeFrom(i) PROVE status' # "null_deref"
    <2>1. ASSUME EnterRead PROVE status' # "null_deref"
      <3> DEFINE s == FirstSensor(1, CanRead)
      <3>1. Request(s, Refusals) \/ UNCHANGED status
        BY <2>1 DEF EnterRead
      <3> HIDE DEF s
      <3> QED
        BY <1>4, <3>1
    <2>2. EnterRead \/ UNCHANGED status \/ Stop("command_failed")
      BY <1>5 DEF SubscribeFrom
    <2> QED
      BY <2>1, <2>2 DEF Stop
  <1>6. CASE ServicesDiscovered \/ CharacteristicFound \/ CharacteristicsDiscovered
    <2>1. ASSUME NEW i, DiscoverChars(i) PROVE status' # "null_deref"
      BY <2>1 DEF DiscoverChars, Start, Stop
    <2>2. CASE CharacteristicFound
      BY <2>2 DEF CharacteristicFound
    <2>3. CASE ServicesDiscovered
      BY <2>1, <2>3 DEF ServicesDiscovered
    <2>4. CASE CharacteristicsDiscovered
      <3>1. (\E i \in {serviceIndex'} : DiscoverChars(i)) \/ SubscribeFrom(1)
        BY <2>4 DEF CharacteristicsDiscovered
      <3> QED
        BY <1>5, <2>1, <3>1
    <2> QED
      BY <1>6, <2>2, <2>3, <2>4
  <1>7. CASE Subscribed \/ RequestNext \/ Refresh
    <2>1. \/ \E i \in {subIndex} : SubscribeFrom(i)
          \/ \E s \in {FirstSensor(readIndex, CanRead)} :
                 Request(s, {"invalid_conn_handle"})
          \/ Request(1, Refusals)
      BY <1>7 DEF Subscribed, RequestNext, Refresh
    <2>2. (\E i : SubscribeFrom(i)) \/ (\E s, revert : Request(s, revert))
      BY <2>1
    <2> QED
      BY <1>4, <1>5, <2>2
  <1>8. CASE Ignore \/ Upload \/ TakeJob \/ Environment \/ UNCHANGED vars
    BY <1>8 DEF Ignore, Upload, TakeJob, Environment, Reset, Advertise, OpenConnection, OtherEvent,
       Progress, Notify, OpenFails, LoseConnection, Disconnect, AttError, DropEvent, Tick,
       hostVars, vars
  <1> QED
    BY <1>1, <1>2, <1>3, <1>6, <1>7, <1>8 DEF Next, HandleEvent, Stopped

\* Under the same conditions neither the loops over the sensors nor
\* get_characteristic_by_handle nor refresh_sensor_values follows a null pointer.
THEOREM NoNullFollowed ==
  ASSUME \A s \in Sensors : \E m \in ServiceIds : \E j \in 1..Len(ServiceChars[m]) :
             Uuid[ServiceChars[m][j]] = s,
         "drop" \notin Faults,
         "att" \in Faults =>
             FaultStates \cap {"DISCOVER_SERVICES", "DISCOVER_CHARACTERISTICS"} = {}
  PROVE  Spec => [](status # "null_deref")
  <1> DEFINE Safely == status # "null_deref"
  <1>1. Spec => []SensorsRegistered
    BY AllRegistered
  <1>2. Init => Safely
    BY DEF Init
  <1>3. SensorsRegistered /\ Safely /\ [Next]_vars => Safely'
    BY NoNullKept
  <1>4. Spec => []Safely
    <2> HIDE DEF Safely
    <2> QED
      BY <1>1, <1>2, <1>3, PTL DEF Spec
  <1> QED
    BY <1>4

-----------------------------------------------------------------------------
(* The connection, when it is not lost while services or characteristics are
   discovered. *)

DiscoveryStates == {"DISCOVER_SERVICES", "DISCOVER_CHARACTERISTICS"}

LateFaults == FaultStates \cap DiscoveryStates = {} /\ "drop" \notin Faults

\* No event of these types is in the inbox, or none after the boot event.
Absent(types) == \A i \in 1..Len(inbox) : inbox[i].type \notin types

After(types) ==
    \A i, j \in 1..Len(inbox) :
        inbox[i].type = "boot" /\ i < j => inbox[j].type \notin types

LinkEvents == {"opened", "closed", "service", "characteristic", "value"}

\* From the boot on the connection is down until the host opens it, and up during the
\* discovery, and in CONNECT and SUBSCRIBE as well if it is not lost there; "closed"
\* is sent when it goes down.
LinkInv ==
    Running =>
        /\ (state = "INIT" /\ ~resetPending) \/ state = "DISCOVERY" => link = "down"
        /\ (state = "INIT" /\ ~resetPending) \/ state \in {"DISCOVERY", "CONNECT"} =>
               subscribed = {}
        /\ After(LinkEvents)
        /\ state = "DISCOVERY" => Absent(LinkEvents)
        /\ state = "CONNECT" =>
               /\ Absent({"service", "characteristic", "value"})
               /\ link = "connecting" => Absent({"opened"})
               /\ link = "down" /\ state \notin FaultStates => Absent({"opened"})
        /\ state \in DiscoveryStates => link = "up"
        /\ state = "SUBSCRIBE" /\ state \notin FaultStates => link = "up"
        /\ state \in {"SUBSCRIBE", "READ"} => link # "connecting"
        /\ state # "INIT" /\ link # "down" => Absent({"closed"})

LEMMA AbsentPart ==
  ASSUME NEW S, NEW T, S \subseteq T, Absent(T)
  PROVE  Absent(S)
  BY DEF Absent

\* The boot event is only there between the reset and the end of INIT.
LEMMA NoBoot ==
  ASSUME BootInv, Running, state # "INIT" \/ resetPending
  PROVE  Absent({"boot"}) /\ \A T : After(T)
  BY DEF BootInv, Absent, After

LEMMA NoBootNext ==
  ASSUME BootInv', Running', state' # "INIT" \/ resetPending'
  PROVE  \A T : After(T)'
  BY DEF BootInv, After

LEMMA TakenAbsent ==
  ASSUME HostTypeOK, NEW type, Receive(type)
  PROVE  /\ \A T : Absent(T) => Absent(T)' /\ type \notin T
         /\ \A T : After(T) => After(T)'
         /\ type = "boot" => \A T : After(T) => Absent(T)'
  <1>1. /\ 1 \in 1..Len(inbox) /\ inbox[1].type = type
        /\ \A i \in 1..Len(inbox') : /\ i \in Nat /\ i + 1 \in 1..Len(inbox) /\ 1 < i + 1
                                   /\ inbox'[i] = inbox[i + 1]
    BY TakenInbox
  <1>2. \A T : Absent(T) => Absent(T)' /\ type \notin T
    BY <1>1 DEF Absent
  <1>3. ASSUME NEW T, After(T) PROVE After(T)'
    <2> SUFFICES ASSUME NEW i \in 1..Len(inbox'), NEW j \in 1..Len(inbox'),
                        inbox'[i].type = "boot", i < j
                 PROVE  inbox'[j].type \notin T
      BY DEF After
    <2>1. i + 1 < j + 1 /\ inbox[i + 1].type = "boot"
      BY <1>1
    <2> QED
      BY <1>1, <1>3, <2>1 DEF After
  <1>4. type = "boot" => \A T : After(T) => Absent(T)'
    BY <1>1 DEF After, Absent
  <1> QED
    BY <1>2, <1>3, <1>4

LEMMA DeliveredAbsent ==
  ASSUME HostTypeOK, NEW e \in Event, Deliver(e)
  PROVE  /\ \A T : e.type \notin T /\ Absent(T) => Absent(T)'
         /\ \A T : e.type \notin T /\ e.type # "boot" /\ After(T) => After(T)'
  <1>1. /\ \A i \in 1..Len(inbox) : inbox'[i] = inbox[i]
        /\ inbox'[Len(inbox) + 1] = e /\ Len(inbox) \in Nat
        /\ \A i \in 1..Len(inbox') : i \in 1..Len(inbox) \/ i = Len(inbox) + 1
    BY DeliveredInbox
  <1>2. \A T : e.type \notin T /\ Absent(T) => Absent(T)'
    BY <1>1 DEF Absent
  <1>3. \A T : e.type \notin T /\ e.type # "boot" /\ After(T) => After(T)'
    BY <1>1 DEF After
  <1> QED
    BY <1>2, <1>3

\* A step of the host out of the states that follow "opened".
LEMMA LinkedKeeps ==
  ASSUME IInv, IInv', LinkInv, NEW type, Receive(type),
         state \in GattStates, UNCHANGED link,
         \/ state' = "INIT" /\ resetPending' = TRUE
         \/ state' = "READ"
         \/ state \in DiscoveryStates /\ state' \in GattStates
         \/ state = "SUBSCRIBE" /\ state' = "SUBSCRIBE"
  PROVE  LinkInv'
  <1> SUFFICES ASSUME Running' PROVE LinkInv'
    BY DEF LinkInv, DiscoveryStates
  <1>1. Running /\ \A T : Absent(T) => Absent(T)'
    BY TakenInbox, TakenAbsent DEF IInv
  <1>2. \A T : After(T)'
    <2>1. state' # "INIT" \/ resetPending'
      BY DEF GattStates
    <2> QED
      BY <2>1, NoBootNext DEF IInv, Safe
  <1>3. link # "connecting" /\ (link # "down" => Absent({"closed"}))
    BY <1>1 DEF LinkInv, GattStates, DiscoveryStates
  <1>4. /\ state \in DiscoveryStates => link = "up"
        /\ state = "SUBSCRIBE" /\ state \notin FaultStates => link = "up"
    BY <1>1 DEF LinkInv, DiscoveryStates
  <1> QED
    BY <1>1, <1>2, <1>3, <1>4 DEF LinkInv, GattStates, DiscoveryStates

\* A step that takes an event and leaves the host and its connection as they are.
LEMMA TakenKeepsLink ==
  ASSUME IInv, LinkInv, NEW type, Receive(type),
         UNCHANGED <<state, status, link, subscribed, resetPending>>
  PROVE  LinkInv'
  <1>1. /\ \A T : Absent(T) => Absent(T)'
        /\ \A T : After(T) => After(T)'
    BY TakenAbsent DEF IInv
  <1> QED
    BY <1>1 DEF LinkInv, DiscoveryStates, Running

LEMMA HandlersKeepLink ==
  ASSUME IInv, IInv', LinkInv, HandleEvent
  PROVE  LinkInv'
  <1> SUFFICES ASSUME Running' PROVE LinkInv'
    BY DEF LinkInv, DiscoveryStates
  <1>1. CASE Boot
    <2>1. /\ Receive("boot") /\ state = "INIT" /\ state' = "DISCOVERY"
          /\ UNCHANGED <<link, subscribed, resetPending>>
      BY <1>1 DEF Boot, EnterDiscovery
    <2>2. Running /\ \A T : After(T) => Absent(T)'
      BY <2>1, TakenInbox, TakenAbsent DEF IInv
    <2>3. ~resetPending
      <3>1. ~Absent({"boot"})
        BY <2>1, TakenInbox DEF Absent, IInv
      <3> QED
        BY <2>2, <3>1, NoBoot DEF IInv, Safe
    <2>4. \A T : After(T)'
      BY <2>1, NoBootNext DEF IInv, Safe
    <2> QED
      BY <2>1, <2>2, <2>3, <2>4 DEF LinkInv, DiscoveryStates
  <1>2. ~AdvertisementTimeout /\ ~RefreshCrash
    BY DEF AdvertisementTimeout, RefreshCrash, Stop, Running
  <1>3. CASE ThunderboardFound
    <2>1. /\ Receive("scan") /\ state = "DISCOVERY" /\ UNCHANGED subscribed
          /\ \/ state' = "CONNECT" /\ link' = "connecting"
             \/ state' = state /\ link' = link
      BY <1>3 DEF ThunderboardFound, EnterConnect, Stop, Running
    <2>2. Running /\ \A T : Absent(T) => Absent(T)'
      BY <2>1, TakenInbox, TakenAbsent DEF IInv
    <2>3. \A T : After(T)'
      BY <2>1, NoBootNext DEF IInv, Safe
    <2>4. /\ Absent(LinkEvents)' /\ Absent({"closed"})' /\ Absent({"opened"})'
          /\ Absent({"service", "characteristic", "value"})'
      <3>1. Absent(LinkEvents)
        BY <2>1, <2>2 DEF LinkInv, DiscoveryStates
      <3>2. /\ Absent({"closed"}) /\ Absent({"opened"})
            /\ Absent({"service", "characteristic", "value"})
        BY <3>1, AbsentPart DEF LinkEvents
      <3> QED
        BY <2>2, <3>1, <3>2
    <2> QED
      BY <2>1, <2>2, <2>3, <2>4 DEF LinkInv, DiscoveryStates
  <1>4. CASE OtherAdvertisement
    BY <1>4, TakenKeepsLink DEF OtherAdvertisement, hostVars, ncpVars
  <1>5. CASE Opened
    <2>1. /\ Receive("opened") /\ state = "CONNECT" /\ state' = "DISCOVER_SERVICES"
          /\ UNCHANGED link
      BY <1>5 DEF Opened, EnterServices
    <2>2. Running /\ \A T : Absent(T) => Absent(T)' /\ "opened" \notin T
      BY <2>1, TakenInbox, TakenAbsent DEF IInv
    <2>3. \A T : After(T)'
      BY <2>1, NoBootNext DEF IInv, Safe
    <2>4. link = "up" /\ Absent({"closed"})'
      <3>1. link = "up"
        BY <1>5 DEF Opened, EnterServices, Start, GattResults, Stop, Running
      <3> QED
        BY <2>1, <2>2, <3>1 DEF LinkInv, DiscoveryStates
    <2> QED
      BY <2>1, <2>3, <2>4 DEF LinkInv, DiscoveryStates
  <1>6. CASE Closed
    <2>1. state' = "INIT" /\ resetPending' = TRUE
      BY <1>6 DEF Closed, EnterInit
    <2>2. \A T : After(T)'
      BY <2>1, NoBootNext DEF IInv, Safe
    <2> QED
      BY <2>1, <2>2 DEF LinkInv, DiscoveryStates
  <1>7. CASE ServiceFound \/ ServicesDiscovered \/ CharacteristicFound
             \/ CharacteristicsDiscovered
    <2>1. /\ state \in DiscoveryStates /\ UNCHANGED link
          /\ Receive("service") \/ Receive("characteristic") \/ Receive("completed")
      BY <1>7 DEF ServiceFound, ServicesDiscovered, CharacteristicFound,
         CharacteristicsDiscovered, ncpVars, DiscoveryStates
    <2>2. (state' = "INIT" /\ resetPending' = TRUE) \/ state' \in GattStates
      <3>1. CASE ServiceFound \/ ServicesDiscovered \/ CharacteristicFound
        BY <3>1 DEF ServiceFound, ServicesDiscovered, CharacteristicFound, DiscoverChars,
           GattStates
      <3>2. CASE CharacteristicsDiscovered
        <4>1. CASE state' = "DISCOVER_CHARACTERISTICS"
          BY <4>1 DEF GattStates
        <4>2. CASE SubscribeFrom(1)
          <5>1. 1 \in 1..NumSensors + 1
            BY DeviceAssumption
          <5> QED
            BY <4>2, <5>1, SubscribeOutcome DEF IInv, Outcome, GattStates
        <4> QED
          BY <3>2, <4>1, <4>2 DEF CharacteristicsDiscovered, DiscoverChars
      <3> QED
        BY <1>7, <3>1, <3>2
    <2> QED
      BY <2>1, <2>2, LinkedKeeps DEF GattStates, DiscoveryStates
  <1>8. CASE Subscribed
    <2>1. /\ state = "SUBSCRIBE" /\ UNCHANGED link /\ Receive("completed")
          /\ SubscribeFrom(subIndex) /\ subIndex \in 1..NumSensors + 1
      BY <1>8 DEF Subscribed, IInv, HostTypeOK
    <2>2. \/ state' = "INIT" /\ resetPending' = TRUE
          \/ state' \in {"SUBSCRIBE", "READ"}
      <3>1. PICK i \in 1..NumSensors + 1 : SubscribeFrom(i)
        BY <2>1
      <3> QED
        BY <3>1, SubscribeOutcome DEF IInv, Outcome
    <2> QED
      BY <2>1, <2>2, LinkedKeeps DEF GattStates
  <1>9. CASE ValueReceived \/ RequestNext \/ Refresh
    <2>1. ASSUME NEW s, NEW revert, Request(s, revert)
          PROVE  state' = "READ" \/ (state' = "INIT" /\ resetPending' = TRUE)
      BY <2>1 DEF Request, EnterInit
    <2>2. \/ ValueReceived \/ Request(1, Refusals)
          \/ \E s \in {FirstSensor(readIndex, CanRead)} :
                 Request(s, {"invalid_conn_handle"})
      BY <1>9 DEF RequestNext, Refresh
    <2>3. state' = "READ" \/ (state' = "INIT" /\ resetPending' = TRUE)
      BY <2>1, <2>2 DEF ValueReceived
    <2>4. /\ state = "READ" /\ UNCHANGED link
          /\ Receive("value") \/ Receive("completed")
      BY <1>9 DEF ValueReceived, RequestNext, Refresh, RoundEnded, ncpVars
    <2> QED
      BY <2>3, <2>4, LinkedKeeps DEF GattStates
  <1>10. CASE Ignore
    BY <1>10, TakenKeepsLink DEF Ignore, hostVars, ncpVars
  <1> QED
    BY <1>1, <1>2, <1>3, <1>4, <1>5, <1>6, <1>7, <1>8, <1>9, <1>10 DEF HandleEvent

\* An event of the NCP leaves the link as it is.
LEMMA DeliveredKeepsLink ==
  ASSUME IInv, IInv', LinkInv, NEW e \in Event, Deliver(e),
         e.type \notin {"boot", "opened", "closed"},
         UNCHANGED <<state, status, link, resetPending, subscribed>>,
         e.type \in {"service", "characteristic", "value"} =>
             state # "CONNECT" /\ state # "DISCOVERY" /\ (state # "INIT" \/ resetPending)
  PROVE  LinkInv'
  <1> SUFFICES ASSUME Running PROVE LinkInv'
    BY DEF LinkInv, DiscoveryStates, Running
  <1> USE DEF Running
  <1>1. /\ \A T : e.type \notin T /\ Absent(T) => Absent(T)'
        /\ \A T : e.type \notin T /\ After(T) => After(T)'
    BY DeliveredAbsent DEF IInv
  <1>2. Absent({"closed"}) => Absent({"closed"})'
    BY <1>1
  <1>3. CASE e.type \notin LinkEvents
    <2>1. \A T : T \subseteq LinkEvents /\ Absent(T) => Absent(T)'
      BY <1>1, <1>3
    <2>2. After(LinkEvents)'
      BY <1>1, <1>3 DEF LinkInv, DiscoveryStates
    <2>3. /\ Absent({"opened"}) => Absent({"opened"})'
          /\ Absent({"service", "characteristic", "value"}) =>
                 Absent({"service", "characteristic", "value"})'
      BY <2>1 DEF LinkEvents
    <2> QED
      BY <1>2, <2>1, <2>2, <2>3 DEF LinkInv, DiscoveryStates
  <1>4. CASE e.type \in LinkEvents
    <2>1. state \notin {"CONNECT", "DISCOVERY"} /\ (state # "INIT" \/ resetPending)
      BY <1>4 DEF LinkEvents
    <2>2. After(LinkEvents)'
      BY <2>1, NoBootNext DEF IInv, Safe
    <2> QED
      BY <1>2, <2>1, <2>2 DEF LinkInv, DiscoveryStates
  <1> QED
    BY <1>3, <1>4

LEMMA EnvironmentKeepsLink ==
  ASSUME LateFaults, IInv, IInv', LinkInv, Environment
  PROVE  LinkInv'
  <1> SUFFICES ASSUME Running' PROVE LinkInv'
    BY DEF LinkInv, DiscoveryStates
  <1>1. UNCHANGED <<state, status>> /\ Running
    BY DEF Environment, Reset, Advertise, OpenConnection, OtherEvent, Progress,
           Notify, OpenFails, LoseConnection, Disconnect, AttError, DropEvent, Tick,
           hostVars, Running
  <1>2. CASE Reset
    <2>1. /\ state = "INIT" /\ resetPending /\ link' = "down" /\ subscribed' = {}
      BY <1>2 DEF Reset, IInv, Safe, BootInv, Running
    <2>2. After(LinkEvents)'
      <3>1. /\ Len(inbox) \in Nat /\ Len(inbox') = Len(inbox) + 1
            /\ \A i \in 1..Len(inbox) : inbox'[i].type = inbox[i].type
        BY <1>2, ResetInbox DEF IInv
      <3>2. \A i \in 1..Len(inbox) : inbox[i].type # "boot"
        BY <1>1, <2>1 DEF IInv, Safe, BootInv
      <3>3. \A i, j \in 1..Len(inbox') : inbox'[i].type = "boot" => ~(i < j)
        BY <3>1, <3>2
      <3> QED
        BY <3>3 DEF After
    <2> QED
      BY <1>1, <2>1, <2>2 DEF LinkInv, DiscoveryStates
  <1>3. CASE OpenConnection
    <2>1. /\ link = "connecting" /\ Deliver(Ev("opened", 0)) /\ link' = "up"
          /\ UNCHANGED <<subscribed, resetPending>>
      BY <1>3 DEF OpenConnection
    <2>2. PICK e \in Event : e = Ev("opened", 0) /\ e.type = "opened"
      BY EvIsEvent DEF EventTypes
    <2>3. \A T : "opened" \notin T /\ Absent(T) => Absent(T)'
      BY <2>1, <2>2, DeliveredAbsent DEF IInv
    <2>4. state = "CONNECT" \/ (state = "INIT" /\ resetPending)
      BY <1>1, <2>1, BoundAssumption DEF LinkInv, DiscoveryStates, IInv, HostTypeOK, States
    <2>5. \A T : After(T)'
      BY <1>1, <2>1, <2>4, NoBootNext DEF IInv, Safe
    <2>6. /\ state = "CONNECT" =>
                 Absent({"service", "characteristic", "value"})' /\ Absent({"closed"})'
      <3>1. state = "CONNECT" =>
               Absent({"service", "characteristic", "value"}) /\ Absent({"closed"})
        BY <1>1, <2>1 DEF LinkInv, DiscoveryStates
      <3> QED
        BY <2>3, <3>1
    <2> QED
      BY <1>1, <2>1, <2>4, <2>5, <2>6 DEF LinkInv, DiscoveryStates
  <1>4. CASE OpenFails \/ LoseConnection
    <2>1. /\ Deliver(Ev("closed", 0)) /\ link' = "down" /\ subscribed' = {}
          /\ UNCHANGED resetPending
          /\ link = "connecting" \/ (link = "up" /\ state \in FaultStates)
          /\ state \notin DiscoveryStates
      BY <1>1, <1>4 DEF OpenFails, LoseConnection, Disconnect, LateFaults, LinkInv,
         DiscoveryStates
    <2>2. PICK e \in Event : e = Ev("closed", 0) /\ e.type = "closed"
      BY EvIsEvent DEF EventTypes
    <2>3. \A T : "closed" \notin T /\ Absent(T) => Absent(T)'
      BY <2>1, <2>2, DeliveredAbsent DEF IInv
    <2>4. \/ state \in {"CONNECT", "SUBSCRIBE", "READ"}
          \/ state = "INIT" /\ resetPending
      BY <1>1, <2>1, BoundAssumption DEF LinkInv, DiscoveryStates, IInv, HostTypeOK, States
    <2>5. \A T : After(T)'
      BY <1>1, <2>1, <2>4, NoBootNext DEF IInv, Safe
    <2>6. state = "CONNECT" =>
             /\ Absent({"service", "characteristic", "value"})'
             /\ state \notin FaultStates => Absent({"opened"})'
      <3>1. state = "CONNECT" =>
               /\ Absent({"service", "characteristic", "value"})
               /\ state \notin FaultStates => Absent({"opened"})
        BY <1>1, <2>1 DEF LinkInv, DiscoveryStates
      <3> QED
        BY <2>3, <3>1
    <2> QED
      BY <1>1, <2>1, <2>4, <2>5, <2>6 DEF LinkInv, DiscoveryStates
  <1>5. CASE Progress
    <2>1. /\ proc # <<>> /\ Deliver(proc[1]) /\ 1 \in 1..Len(proc)
          /\ proc[1] \in Event /\ UNCHANGED <<link, subscribed, resetPending>>
      BY <1>5 DEF Progress, IInv, GoodProc
    <2>2. proc[1].type \in {"service", "characteristic", "value", "completed"}
      BY <2>1 DEF IInv, GoodProc
    <2>3. state \in GattStates \/ (state = "INIT" /\ resetPending)
      BY <1>1, <2>1 DEF IInv, Safe, BootInv, OneProcedure
    <2>4. PICK e \in Event : e = proc[1]
      BY <2>1
    <2> QED
      BY <1>1, <2>1, <2>2, <2>3, <2>4, DeliveredKeepsLink DEF GattStates
  <1>6. CASE \E h \in Notifying : Notify(h)
    <2>1. PICK h \in subscribed : /\ Deliver(Ev("value", h))
                                 /\ UNCHANGED <<link, subscribed, resetPending>>
      BY <1>6 DEF Notify, ncpVars
    <2>2. h \in Handles /\ h \in Nat
      BY DeviceAssumption DEF IInv, HostTypeOK
    <2>3. PICK e \in Event : e = Ev("value", h) /\ e.type = "value"
      BY <2>2, EvIsEvent DEF EventTypes
    <2>4. state \notin {"CONNECT", "DISCOVERY"} /\ (state # "INIT" \/ resetPending)
      BY <1>1, <2>1 DEF LinkInv, DiscoveryStates
    <2> QED
      BY <1>1, <2>1, <2>3, <2>4, DeliveredKeepsLink
  <1>7. CASE OtherEvent \/ \E match \in {0, 1} : Advertise(match)
    <2>1. PICK type \in {"other", "scan"}, arg \in {0, 1} :
             Deliver(Ev(type, arg)) /\ UNCHANGED <<link, subscribed, resetPending>>
      BY <1>7 DEF OtherEvent, Advertise, ncpVars
    <2>2. PICK e \in Event : e = Ev(type, arg) /\ e.type = type
      BY EvIsEvent DEF EventTypes
    <2> QED
      BY <1>1, <2>1, <2>2, DeliveredKeepsLink
  <1>8. CASE AttError \/ Tick
    <2>1. UNCHANGED <<inbox, link, subscribed, resetPending>>
      BY <1>8 DEF AttError, Tick, ncpVars
    <2> QED
      BY <1>1, <2>1 DEF LinkInv, DiscoveryStates, Absent, After
  <1> QED
    BY <1>2, <1>3, <1>4, <1>5, <1>6, <1>7, <1>8
    DEF Environment, DropEvent, LateFaults

LEMMA NextKeepsLink ==
  ASSUME LateFaults, IInv, IInv', LinkInv, [Next]_vars
  PROVE  LinkInv'
  <1>1. CASE Upload \/ TakeJob \/ UNCHANGED vars
    <2>1. UNCHANGED <<state, status, link, subscribed, resetPending, inbox>>
      BY <1>1 DEF Upload, TakeJob, vars, hostVars, ncpVars
    <2> QED
      BY <2>1 DEF LinkInv, DiscoveryStates, Absent, After, Running
  <1> QED
    BY <1>1, HandlersKeepLink, EnvironmentKeepsLink DEF Next, Stopped

-----------------------------------------------------------------------------
(* What a procedure of the discovery still has to report. *)

Report == {"service", "characteristic", "completed"}

\* Once d events of procedure P have been handled the next q are in the inbox, the
\* k-th at place at[k], and the others are still to be sent; there is no other
\* report in the inbox.
Placed(P, d, q, at) ==
    /\ at \in [1..q -> 1..Len(inbox)]
    /\ \A j, k \in 1..q : j < k => at[j] < at[k]
    /\ \A k \in 1..q : inbox[at[k]] = P[d + k]
    /\ \A i \in 1..Len(inbox) : inbox[i].type \in Report => \E k \in 1..q : at[k] = i
    /\ d + q + Len(proc) = Len(P)
    /\ \A k \in 1..Len(proc) : proc[k] = P[d + q + k]

Stream(P, d) == \E q \in Nat : \E at : Placed(P, d, q, at)

LEMMA StreamStarts ==
  ASSUME NEW P \in Seq(Event), proc' = P, Absent(Report)'
  PROVE  Stream(P, 0)'
  <1> DEFINE at == [k \in 1..0 |-> 1]
  <1>1. /\ at \in [1..0 -> 1..Len(inbox')] /\ 1..0 = {}
        /\ 0 + 0 + Len(proc') = Len(P)
        /\ \A k \in 1..Len(proc') : proc'[k] = P[0 + 0 + k]
    OBVIOUS
  <1>2. \A i \in 1..Len(inbox') : inbox'[i].type \notin Report
    BY DEF Absent
  <1> HIDE DEF at
  <1>3. Placed(P, 0, 0, at)'
    BY <1>1, <1>2 DEF Placed
  <1> QED
    BY <1>3 DEF Stream

\* The report at the head of the inbox is the next of the procedure.
LEMMA StreamNext ==
  ASSUME HostTypeOK, NEW P \in Seq(Event), NEW d \in Nat, Stream(P, d),
         NEW type \in Report, Receive(type), proc' = proc
  PROVE  /\ d + 1 \in 1..Len(P) /\ P[d + 1].type = type /\ P[d + 1].arg = Arg
         /\ Stream(P, d + 1)'
  <1>a. PICK q \in Nat : \E at : Placed(P, d, q, at)
    BY DEF Stream
  <1>1. PICK at : Placed(P, d, q, at)
    BY <1>a
  <1>2. /\ Len(inbox) \in Nat /\ Len(inbox') = Len(inbox) - 1 /\ Len(P) \in Nat
        /\ 1 \in 1..Len(inbox) /\ inbox[1].type = type /\ Arg = inbox[1].arg
        /\ \A i \in 1..Len(inbox') : i \in Nat /\ i + 1 \in 1..Len(inbox) /\ inbox'[i] = inbox[i + 1]
        /\ Len(proc) \in Nat
    <2>1. Head(inbox) = inbox[1]
      BY DEF Receive, HostTypeOK
    <2> QED
      BY <2>1, TakenInbox DEF Arg, HostTypeOK
  <1>3. 1 \in 1..q /\ at[1] = 1
    <2>1. PICK k \in 1..q : at[k] = 1
      BY <1>1, <1>2 DEF Placed
    <2>2. 1 \in 1..q /\ at[1] \in 1..Len(inbox)
      <3>1. at \in [1..q -> 1..Len(inbox)]
        BY <1>1 DEF Placed
      <3>2. 1 \in 1..q
        BY <2>1
      <3> QED
        BY <3>1, <3>2
    <2>3. ~(1 < k)
      BY <1>1, <2>1, <2>2 DEF Placed
    <2> QED
      BY <2>1, <2>2, <2>3
  <1>4. d + 1 \in 1..Len(P) /\ P[d + 1] = inbox[1]
    BY <1>1, <1>2, <1>3 DEF Placed
  <1> DEFINE to == [k \in 1..q - 1 |-> at[k + 1] - 1]
  <1>5. \A k \in 1..q - 1 : /\ k + 1 \in 1..q /\ at[k + 1] \in 1..Len(inbox) /\ at[k + 1] > 1
                            /\ to[k] = at[k + 1] - 1 /\ to[k] \in 1..Len(inbox')
    <2> SUFFICES ASSUME NEW k \in 1..q - 1
                 PROVE  /\ k + 1 \in 1..q /\ at[k + 1] \in 1..Len(inbox) /\ at[k + 1] > 1
                        /\ to[k] = at[k + 1] - 1 /\ to[k] \in 1..Len(inbox')
      OBVIOUS
    <2>1. k + 1 \in 1..q /\ 1 < k + 1 /\ to[k] = at[k + 1] - 1
      BY <1>3
    <2>2. at[k + 1] \in 1..Len(inbox) /\ at[k + 1] > 1
      BY <1>1, <1>3, <2>1 DEF Placed
    <2> QED
      BY <1>2, <2>1, <2>2
  <1>6. to \in [1..q - 1 -> 1..Len(inbox')]
    BY <1>5
  <1> HIDE DEF to
  <1>7. \A j, k \in 1..q - 1 : j < k => to[j] < to[k]
    <2> SUFFICES ASSUME NEW j \in 1..q - 1, NEW k \in 1..q - 1, j < k PROVE to[j] < to[k]
      OBVIOUS
    <2>1. at[j + 1] < at[k + 1]
      BY <1>1, <1>5 DEF Placed
    <2> QED
      BY <1>5, <2>1
  <1>8. \A k \in 1..q - 1 : inbox'[to[k]] = P[(d + 1) + k]
    <2> SUFFICES ASSUME NEW k \in 1..q - 1 PROVE inbox'[to[k]] = P[(d + 1) + k]
      OBVIOUS
    <2>1. inbox'[to[k]] = inbox[at[k + 1]]
      BY <1>2, <1>5
    <2>2. inbox[at[k + 1]] = P[d + (k + 1)] /\ d + (k + 1) = (d + 1) + k
      BY <1>1, <1>5 DEF Placed
    <2> QED
      BY <2>1, <2>2
  <1>9. \A i \in 1..Len(inbox') : inbox'[i].type \in Report => \E k \in 1..q - 1 : to[k] = i
    <2> SUFFICES ASSUME NEW i \in 1..Len(inbox'), inbox'[i].type \in Report
                 PROVE  \E k \in 1..q - 1 : to[k] = i
      OBVIOUS
    <2>1. PICK k \in 1..q : at[k] = i + 1
      BY <1>1, <1>2 DEF Placed
    <2>2. k # 1
      BY <1>3, <2>1
    <2>3. k - 1 \in 1..q - 1 /\ (k - 1) + 1 = k
      BY <1>3, <2>2
    <2>4. to[k - 1] = at[k] - 1
      BY <1>5, <2>3
    <2>5. to[k - 1] = i
      BY <2>1, <2>4
    <2> QED
      BY <2>3, <2>5
  <1>10. /\ q - 1 \in Nat /\ (d + 1) + (q - 1) + Len(proc') = Len(P)
         /\ \A k \in 1..Len(proc') : proc'[k] = P[(d + 1) + (q - 1) + k]
    <2>1. q - 1 \in Nat /\ (d + 1) + (q - 1) = d + q
      BY <1>3
    <2> QED
      BY <1>1, <2>1 DEF Placed
  <1>11. Placed(P, d + 1, q - 1, to)'
    BY <1>6, <1>7, <1>8, <1>9, <1>10 DEF Placed
  <1> QED
    BY <1>2, <1>4, <1>10, <1>11 DEF Stream

\* The completion is the last report of a procedure.
LEMMA StreamEnds ==
  ASSUME HostTypeOK, NEW P, GoodProc(P), NEW d \in Nat, Stream(P, d), Receive("completed")
  PROVE  d + 1 = Len(P) /\ proc = <<>> /\ Absent(Report)'
  <1>a. PICK q \in Nat : \E at : Placed(P, d, q, at)
    BY DEF Stream
  <1>1. PICK at : Placed(P, d, q, at)
    BY <1>a
  <1>2. /\ Len(inbox) \in Nat /\ Len(P) \in Nat /\ P \in Seq(Event)
        /\ 1 \in 1..Len(inbox) /\ inbox[1].type = "completed"
        /\ \A i \in 1..Len(inbox') : i \in Nat /\ i + 1 \in 1..Len(inbox) /\ i + 1 # 1
                                   /\ inbox'[i] = inbox[i + 1]
        /\ Len(proc) \in Nat /\ proc \in Seq(Event)
    BY TakenInbox DEF HostTypeOK, GoodProc
  <1>3. PICK k \in 1..q : at[k] = 1
    BY <1>1, <1>2 DEF Placed, Report
  <1>4. 1 \in 1..q /\ at[1] \in 1..Len(inbox) /\ k = 1
    <2>1. 1 \in 1..q /\ at[1] \in 1..Len(inbox)
      BY <1>1, <1>3 DEF Placed
    <2>2. ~(1 < k)
      BY <1>1, <1>3, <2>1 DEF Placed
    <2> QED
      BY <2>1, <2>2
  <1>5. d + 1 \in 1..Len(P) /\ P[d + 1].type = "completed" /\ d + q + Len(proc) = Len(P)
    BY <1>1, <1>2, <1>3, <1>4 DEF Placed
  <1>6. d + 1 = Len(P)
    BY <1>5 DEF GoodProc
  <1>7. q = 1 /\ Len(proc) = 0
    BY <1>2, <1>4, <1>5, <1>6
  <1>8. Absent(Report)'
    <2> SUFFICES ASSUME NEW i \in 1..Len(inbox'), inbox'[i].type \in Report PROVE FALSE
      BY DEF Absent
    <2>1. PICK j \in 1..q : at[j] = i + 1
      BY <1>1, <1>2 DEF Placed
    <2> QED
      BY <1>2, <1>3, <1>4, <1>7, <2>1
  <1> QED
    BY <1>2, <1>6, <1>7, <1>8

\* Other events come and go between the reports.
LEMMA StreamSkips ==
  ASSUME HostTypeOK, NEW P, \A i \in 1..Len(P) : P[i].type \in Report,
         NEW d \in Nat, Stream(P, d),
         NEW type, type \notin Report, Receive(type), proc' = proc
  PROVE  Stream(P, d)'
  <1>a. PICK q \in Nat : \E at : Placed(P, d, q, at)
    BY DEF Stream
  <1>1. PICK at : Placed(P, d, q, at)
    BY <1>a
  <1>2. /\ Len(inbox) \in Nat /\ Len(inbox') = Len(inbox) - 1
        /\ 1 \in 1..Len(inbox) /\ inbox[1].type \notin Report
        /\ \A i \in 1..Len(inbox') : i \in Nat /\ i + 1 \in 1..Len(inbox) /\ inbox'[i] = inbox[i + 1]
        /\ Len(proc) \in Nat
    BY TakenInbox DEF HostTypeOK
  <1>3. at \in [1..q -> 1..Len(inbox)]
    BY <1>1 DEF Placed
  <1>4. ASSUME NEW k \in 1..q
        PROVE  at[k] > 1 /\ at[k] - 1 \in 1..Len(inbox') /\ inbox'[at[k] - 1] = P[d + k]
    <2>1. d + k \in 1..Len(P) /\ inbox[at[k]] = P[d + k]
      <3>1. d + q + Len(proc) = Len(P) /\ inbox[at[k]] = P[d + k]
        BY <1>1 DEF Placed
      <3> QED
        BY <1>2, <3>1
    <2>2. at[k] # 1 /\ at[k] \in 1..Len(inbox)
      BY <1>2, <1>3, <2>1
    <2>3. at[k] - 1 \in 1..Len(inbox') /\ (at[k] - 1) + 1 = at[k]
      BY <1>2, <2>2
    <2> QED
      BY <1>2, <2>1, <2>2, <2>3, SMTT(30)
  <1> DEFINE to == [k \in 1..q |-> at[k] - 1]
  <1>5. to \in [1..q -> 1..Len(inbox')] /\ \A k \in 1..q : to[k] = at[k] - 1
    BY <1>4
  <1> HIDE DEF to
  <1>6. \A j, k \in 1..q : j < k => to[j] < to[k]
    <2> SUFFICES ASSUME NEW j \in 1..q, NEW k \in 1..q, j < k PROVE to[j] < to[k]
      OBVIOUS
    <2>1. at[j] < at[k]
      BY <1>1 DEF Placed
    <2> QED
      BY <1>3, <1>5, <2>1
  <1>7. \A k \in 1..q : inbox'[to[k]] = P[d + k]
    BY <1>4, <1>5
  <1>8. \A i \in 1..Len(inbox') : inbox'[i].type \in Report => \E k \in 1..q : to[k] = i
    <2> SUFFICES ASSUME NEW i \in 1..Len(inbox'), inbox'[i].type \in Report
                 PROVE  \E k \in 1..q : to[k] = i
      OBVIOUS
    <2>1. PICK k \in 1..q : at[k] = i + 1
      BY <1>1, <1>2 DEF Placed
    <2> QED
      BY <1>2, <1>5, <2>1
  <1>9. /\ d + q + Len(proc') = Len(P)
        /\ \A k \in 1..Len(proc') : proc'[k] = P[d + q + k]
    BY <1>1 DEF Placed
  <1>10. Placed(P, d, q, to)'
    BY <1>5, <1>6, <1>7, <1>8, <1>9 DEF Placed
  <1> QED
    BY <1>10 DEF Stream

LEMMA StreamDelivered ==
  ASSUME HostTypeOK, NEW P, NEW d, Stream(P, d),
         NEW e \in Event, Deliver(e), e.type \notin Report, proc' = proc
  PROVE  Stream(P, d)'
  <1>a. PICK q \in Nat : \E at : Placed(P, d, q, at)
    BY DEF Stream
  <1>1. PICK at : Placed(P, d, q, at)
    BY <1>a
  <1>2. /\ Len(inbox) \in Nat /\ inbox'[Len(inbox) + 1] = e
        /\ \A i \in 1..Len(inbox) : i \in 1..Len(inbox') /\ inbox'[i] = inbox[i]
        /\ \A i \in 1..Len(inbox') : i \in 1..Len(inbox) \/ i = Len(inbox) + 1
    BY DeliveredInbox
  <1>3. at \in [1..q -> 1..Len(inbox)]
    BY <1>1 DEF Placed
  <1>4. at \in [1..q -> 1..Len(inbox')]
    BY <1>2, <1>3
  <1>5. \A k \in 1..q : inbox'[at[k]] = P[d + k]
    BY <1>1, <1>2, <1>3 DEF Placed
  <1>6. \A i \in 1..Len(inbox') : inbox'[i].type \in Report => \E k \in 1..q : at[k] = i
    BY <1>1, <1>2 DEF Placed
  <1>7. Placed(P, d, q, at)'
    BY <1>1, <1>4, <1>5, <1>6 DEF Placed
  <1> QED
    BY <1>7 DEF Stream

LEMMA StreamProgresses ==
  ASSUME IInv, NEW P \in Seq(Event), NEW d \in Nat, Stream(P, d), Progress
  PROVE  Stream(P, d)'
  <1>a. PICK q \in Nat : \E at : Placed(P, d, q, at)
    BY DEF Stream
  <1>1. PICK at : Placed(P, d, q, at)
    BY <1>a
  <1>2. /\ proc # <<>> /\ Deliver(proc[1]) /\ 1 \in 1..Len(proc) /\ proc[1] \in Event
        /\ proc' = Tail(proc) /\ Len(proc) \in Nat /\ Len(proc') = Len(proc) - 1
        /\ \A k \in 1..Len(proc') : k \in Nat /\ k + 1 \in 1..Len(proc) /\ proc'[k] = proc[k + 1]
    BY DEF Progress, IInv, GoodProc
  <1>3. PICK e \in Event : e = proc[1]
    BY <1>2
  <1>4. /\ Len(inbox) \in Nat /\ inbox'[Len(inbox) + 1] = e
        /\ Len(inbox) + 1 \in 1..Len(inbox')
        /\ \A i \in 1..Len(inbox) : i \in 1..Len(inbox') /\ inbox'[i] = inbox[i]
        /\ \A i \in 1..Len(inbox') : i \in 1..Len(inbox) \/ i = Len(inbox) + 1
    BY <1>2, <1>3, DeliveredInbox DEF IInv
  <1>5. at \in [1..q -> 1..Len(inbox)]
    BY <1>1 DEF Placed
  <1>0. PICK last : last = Len(inbox) + 1
    OBVIOUS
  <1> DEFINE to == [k \in 1..q + 1 |-> IF k = q + 1 THEN last ELSE at[k]]
  <1>6. \A k \in 1..q + 1 : k \in 1..q \/ k = q + 1
    OBVIOUS
  <1>7. /\ \A k \in 1..q : k \in 1..q + 1 /\ to[k] = at[k] /\ to[k] \in 1..Len(inbox)
        /\ q + 1 \in 1..q + 1 /\ to[q + 1] = Len(inbox) + 1
        /\ to \in [1..q + 1 -> 1..Len(inbox')]
    <2>1. \A k \in 1..q : k \in 1..q + 1 /\ to[k] = at[k] /\ to[k] \in 1..Len(inbox)
      BY <1>5
    <2>2. q + 1 \in 1..q + 1 /\ to[q + 1] = Len(inbox) + 1
      BY <1>0
    <2>3. \A k \in 1..q + 1 : to[k] \in 1..Len(inbox')
      BY <1>4, <1>6, <2>1, <2>2
    <2>4. to \in [1..q + 1 -> 1..Len(inbox')]
      BY <2>3
    <2> QED
      BY <2>1, <2>2, <2>4
  <1> HIDE DEF to
  <1>8. \A j, k \in 1..q + 1 : j < k => to[j] < to[k]
    <2> SUFFICES ASSUME NEW j \in 1..q + 1, NEW k \in 1..q + 1, j < k PROVE to[j] < to[k]
      OBVIOUS
    <2>1. j \in 1..q
      BY <1>6
    <2>2. CASE k \in 1..q
      BY <1>1, <1>7, <2>1, <2>2 DEF Placed
    <2>3. CASE k = q + 1
      BY <1>4, <1>7, <2>1, <2>3
    <2> QED
      BY <1>6, <2>2, <2>3
  <1>9. \A k \in 1..q + 1 : inbox'[to[k]] = P[d + k]
    <2> SUFFICES ASSUME NEW k \in 1..q + 1 PROVE inbox'[to[k]] = P[d + k]
      OBVIOUS
    <2>1. CASE k \in 1..q
      <3>1. to[k] = at[k] /\ inbox[at[k]] = P[d + k]
        BY <1>1, <1>7, <2>1 DEF Placed
      <3>2. inbox'[at[k]] = inbox[at[k]]
        BY <1>4, <1>5, <2>1
      <3> QED
        BY <3>1, <3>2
    <2>2. CASE k = q + 1
      <3>1. proc[1] = P[d + q + 1] /\ d + q + 1 = d + (q + 1)
        BY <1>1, <1>2 DEF Placed
      <3> QED
        BY <1>3, <1>4, <1>7, <2>2, <3>1
    <2> QED
      BY <1>6, <2>1, <2>2
  <1>10. \A i \in 1..Len(inbox') : inbox'[i].type \in Report => \E k \in 1..q + 1 : to[k] = i
    <2> SUFFICES ASSUME NEW i \in 1..Len(inbox'), inbox'[i].type \in Report
                 PROVE  \E k \in 1..q + 1 : to[k] = i
      OBVIOUS
    <2>1. CASE i \in 1..Len(inbox)
      <3>1. PICK k \in 1..q : at[k] = i
        BY <1>1, <1>4, <2>1 DEF Placed
      <3> QED
        BY <1>7, <3>1
    <2> QED
      BY <1>4, <1>7, <2>1
  <1>11. /\ d + (q + 1) + Len(proc') = Len(P)
         /\ \A k \in 1..Len(proc') : proc'[k] = P[d + (q + 1) + k]
    <2>1. d + (q + 1) + Len(proc') = Len(P)
      BY <1>1, <1>2 DEF Placed
    <2>2. ASSUME NEW k \in 1..Len(proc') PROVE proc'[k] = P[d + (q + 1) + k]
      <3>1. proc'[k] = proc[k + 1] /\ k + 1 \in 1..Len(proc) /\ k \in Nat
        BY <1>2
      <3>2. proc[k + 1] = P[d + q + (k + 1)]
        BY <1>1, <3>1 DEF Placed
      <3>3. d + q + (k + 1) = d + (q + 1) + k
        BY <3>1
      <3> QED
        BY <3>1, <3>2, <3>3
    <2> QED
      BY <2>1, <2>2
  <1>12. Placed(P, d, q + 1, to)'
    BY <1>7, <1>8, <1>9, <1>10, <1>11 DEF Placed
  <1> QED
    BY <1>12 DEF Stream

-----------------------------------------------------------------------------
(* The list of the characteristics, as a complete discovery fills it. *)

\* off[m] characteristics belong to the services up to m.
Offsets(off) ==
    /\ off \in [0..Len(ServiceChars) -> Nat]
    /\ off[0] = 0
    /\ \A m \in ServiceIds : off[m] = off[m - 1] + Len(ServiceChars[m])

\* list holds the characteristics of the first n services, one after the other.
Layout(n, off, list) ==
    /\ list \in Seq(Handles)
    /\ Len(list) = off[n]
    /\ \A m \in 1..n :
          /\ off[m] <= Len(list)
          /\ \A j \in 1..Len(ServiceChars[m]) : list[off[m - 1] + j] = ServiceChars[m][j]

LEMMA ServiceLength ==
  /\ Len(ServiceChars) \in Nat
  /\ ServiceIds = 1..Len(ServiceChars)
  /\ \A m \in ServiceIds : ServiceChars[m] \in Seq(Handles) /\ Len(ServiceChars[m]) \in Nat
  BY DeviceAssumption DEF ServiceIds

LEMMA OffsetsExist == \E off : Offsets(off)
  <1> DEFINE N == Len(ServiceChars)
             Upto(n, off) == /\ off \in [0..n -> Nat] /\ off[0] = 0
                             /\ \A m \in 1..n : off[m] = off[m - 1] + Len(ServiceChars[m])
             S == {n \in Nat : n <= N => \E off : Upto(n, off)}
  <1>1. 0 \in S
    <2> DEFINE o == [m \in 0..0 |-> 0]
    <2>1. o \in [0..0 -> Nat] /\ o[0] = 0
      OBVIOUS
    <2> HIDE DEF o
    <2>2. Upto(0, o)
      BY <2>1
    <2> QED
      BY <2>2
  <1>2. ASSUME NEW n \in Nat, n \in S PROVE n + 1 \in S
    <2> SUFFICES ASSUME n + 1 <= N PROVE \E off : Upto(n + 1, off)
      <3> HIDE DEF Upto
      <3> QED
        OBVIOUS
    <2>1. PICK off : Upto(n, off)
      BY <1>2, ServiceLength
    <2>2. Len(ServiceChars[n + 1]) \in Nat
      BY ServiceLength
    <2> DEFINE o == [m \in 0..n + 1 |->
                        IF m <= n THEN off[m] ELSE off[n] + Len(ServiceChars[n + 1])]
    <2>3. o \in [0..n + 1 -> Nat] /\ o[0] = 0 /\ o[n + 1] = o[n] + Len(ServiceChars[n + 1])
      BY <2>1, <2>2
    <2>4. ASSUME NEW m \in 1..n + 1 PROVE o[m] = o[m - 1] + Len(ServiceChars[m])
      <3>1. CASE m = n + 1
        <4>1. m - 1 = n
          BY <3>1
        <4> QED
          BY <2>3, <3>1, <4>1
      <3>2. CASE m \in 1..n
        <4>1. off[m] = off[m - 1] + Len(ServiceChars[m])
          BY <2>1, <3>2
        <4>2. o[m] = off[m] /\ m - 1 \in 0..n + 1 /\ m - 1 <= n /\ o[m - 1] = off[m - 1]
          BY <3>2
        <4> QED
          BY <4>1, <4>2
      <3> QED
        BY <3>1, <3>2
    <2> HIDE DEF o
    <2> QED
      BY <2>3, <2>4
  <1>3. N \in S
    <2> HIDE DEF S
    <2> QED
      BY <1>1, <1>2, CountingUp, ServiceLength
  <1> QED
    BY <1>3, ServiceLength DEF Offsets

LEMMA OffsetOfService ==
  ASSUME NEW off, Offsets(off), NEW m \in ServiceIds
  PROVE  off[m - 1] \in Nat /\ off[m] \in Nat
  <1>1. m - 1 \in 0..Len(ServiceChars) /\ m \in 0..Len(ServiceChars)
    BY ServiceLength
  <1> QED
    BY <1>1 DEF Offsets

LEMMA Joined ==
  ASSUME NEW a \in Seq(Handles), NEW b \in Seq(Handles)
  PROVE  /\ a \o b \in Seq(Handles) /\ Len(a \o b) = Len(a) + Len(b)
         /\ \A p \in 1..Len(a) : (a \o b)[p] = a[p]
         /\ \A j \in 1..Len(b) : (a \o b)[Len(a) + j] = b[j]
  OBVIOUS

LEMMA ListExists ==
  ASSUME NEW off, Offsets(off)
  PROVE  \E list : Layout(Len(ServiceChars), off, list)
  <1> DEFINE N == Len(ServiceChars)
             S == {n \in Nat : n <= N => \E list : Layout(n, off, list)}
  <1>1. 0 \in S
    <2>1. Layout(0, off, <<>>)
      BY DEF Layout, Offsets
    <2> QED
      BY <2>1
  <1>2. ASSUME NEW n \in Nat, n \in S PROVE n + 1 \in S
    <2> SUFFICES ASSUME n + 1 <= N PROVE \E list : Layout(n + 1, off, list)
      OBVIOUS
    <2>1. PICK list : Layout(n, off, list)
      BY <1>2, ServiceLength
    <2> DEFINE new == ServiceChars[n + 1]
               longer == list \o new
    <2>2. /\ new \in Seq(Handles) /\ Len(new) \in Nat /\ n + 1 \in ServiceIds
          /\ list \in Seq(Handles) /\ Len(list) \in Nat /\ Len(list) = off[n]
      BY <2>1, ServiceLength DEF Layout
    <2>3. /\ longer \in Seq(Handles) /\ Len(longer) = Len(list) + Len(new)
          /\ \A p \in 1..Len(list) : longer[p] = list[p]
          /\ \A j \in 1..Len(new) : longer[Len(list) + j] = new[j]
      <3> HIDE DEF new
      <3>1. /\ list \o new \in Seq(Handles) /\ Len(list \o new) = Len(list) + Len(new)
            /\ \A p \in 1..Len(list) : (list \o new)[p] = list[p]
            /\ \A j \in 1..Len(new) : (list \o new)[Len(list) + j] = new[j]
        BY <2>2, Joined, Zenon
      <3> QED
        BY <3>1, Zenon
    <2>4. off[n + 1] = off[(n + 1) - 1] + Len(new) /\ (n + 1) - 1 = n
      BY <2>2 DEF Offsets
    <2>5. ASSUME NEW m \in 1..n + 1
          PROVE  /\ off[m] <= Len(longer)
                 /\ \A j \in 1..Len(ServiceChars[m]) :
                       longer[off[m - 1] + j] = ServiceChars[m][j]
      <3>1. CASE m = n + 1
        <4>1. off[m] = Len(longer) /\ off[m - 1] = Len(list) /\ ServiceChars[m] = new
          BY <2>2, <2>3, <2>4, <3>1
        <4>2. off[m] <= Len(longer)
          BY <2>2, <2>3, <4>1
        <4>3. \A j \in 1..Len(new) : longer[off[m - 1] + j] = new[j]
          BY <2>3, <4>1, Zenon
        <4> QED
          BY <4>1, <4>2, <4>3, Zenon
      <3>2. CASE m \in 1..n
        <4>1. /\ off[m] <= Len(list) /\ m \in ServiceIds
              /\ \A j \in 1..Len(ServiceChars[m]) : list[off[m - 1] + j] = ServiceChars[m][j]
          BY <2>1, <3>2, ServiceLength DEF Layout
        <4>2. /\ off[m] \in Nat /\ off[m - 1] \in Nat
              /\ off[m] = off[m - 1] + Len(ServiceChars[m]) /\ Len(ServiceChars[m]) \in Nat
          BY <4>1, ServiceLength DEF Offsets
        <4>3. off[m] <= Len(longer)
          BY <2>2, <2>3, <4>1, <4>2, SMTT(30)
        <4>4. ASSUME NEW j \in 1..Len(ServiceChars[m])
              PROVE  off[m - 1] + j \in 1..Len(list)
          <5>1. off[m - 1] + j <= off[m] /\ off[m - 1] + j \in Nat \ {0}
            BY <4>2
          <5> QED
            BY <2>2, <4>1, <4>2, <5>1, SMTT(30)
        <4> HIDE DEF longer
        <4> QED
          BY <2>3, <4>1, <4>3, <4>4
      <3>3. m = n + 1 \/ m \in 1..n
        OBVIOUS
      <3> QED
        BY <3>1, <3>2, <3>3, Zenon
    <2>6. Layout(n + 1, off, longer)
      BY <2>2, <2>3, <2>4, <2>5 DEF Layout
    <2> QED
      BY <2>6
  <1>3. N \in S
    <2> HIDE DEF S
    <2> QED
      BY <1>1, <1>2, CountingUp, ServiceLength
  <1> QED
    BY <1>3, ServiceLength

\* What the procedures of the discovery report.
LEMMA EvFields ==
  ASSUME NEW type, NEW arg
  PROVE  Ev(type, arg).type = type /\ Ev(type, arg).arg = arg
  BY DEF Ev

LEMMA ServicesReported ==
  /\ ServicesProc \in Seq(Event) /\ GoodProc(ServicesProc)
  /\ Len(ServicesProc) = Len(ServiceChars) + 1
  /\ \A i \in ServiceIds : ServicesProc[i] = Ev("service", i)
  /\ ServicesProc[Len(ServiceChars) + 1] = Completed
  /\ \A i \in 1..Len(ServicesProc) : ServicesProc[i].type \in {"service", "completed"}
  <1>1. /\ Len(ServiceChars) \in Nat /\ ServiceIds = 1..Len(ServiceChars)
        /\ Len(ServiceChars) + 1 \notin ServiceIds
    BY ServiceLength
  <1>2. Len(ServicesProc) = Len(ServiceChars) + 1
    BY <1>1 DEF ServicesProc
  <1>3. /\ \A i \in ServiceIds : ServicesProc[i] = Ev("service", i)
        /\ ServicesProc[Len(ServiceChars) + 1] = Completed
    BY <1>1 DEF ServicesProc
  <1>4. \A i \in 1..Len(ServicesProc) : ServicesProc[i].type \in {"service", "completed"}
    <2>1. ASSUME NEW i \in ServiceIds PROVE ServicesProc[i].type = "service"
      <3>1. ServicesProc[i] = Ev("service", i)
        BY <1>3
      <3> QED
        BY <3>1, EvFields
    <2>2. ServicesProc[Len(ServiceChars) + 1].type = "completed"
      BY <1>3 DEF Completed, Ev
    <2>3. \A i \in 1..Len(ServicesProc) : i \in ServiceIds \/ i = Len(ServiceChars) + 1
      BY <1>1, <1>2
    <2> QED
      BY <2>1, <2>2, <2>3
  <1> QED
    <2>1. ServicesProc \in Seq(Event) /\ GoodProc(ServicesProc)
      BY ServicesProcIsGood, Zenon DEF GoodProc
    <2> QED
      BY <1>2, <1>3, <1>4, <2>1, Zenon

LEMMA CharsReported ==
  ASSUME NEW m \in ServiceIds
  PROVE  /\ CharsProc(m) \in Seq(Event) /\ GoodProc(CharsProc(m))
         /\ Len(CharsProc(m)) = Len(ServiceChars[m]) + 1
         /\ \A j \in 1..Len(ServiceChars[m]) :
               CharsProc(m)[j] = Ev("characteristic", ServiceChars[m][j])
         /\ CharsProc(m)[Len(ServiceChars[m]) + 1] = Completed
         /\ \A i \in 1..Len(CharsProc(m)) :
               CharsProc(m)[i].type \in {"characteristic", "completed"}
  <1> DEFINE n == Len(ServiceChars[m])
             P == [i \in 1..n + 1 |->
                      IF i <= n THEN Ev("characteristic", ServiceChars[m][i])
                      ELSE Completed]
  <1>1. n \in Nat
    BY ServiceLength
  <1>2. CharsProc(m) = P
    BY DEF CharsProc
  <1>3. Len(P) = n + 1
    BY <1>1
  <1>4. /\ \A j \in 1..n : P[j] = Ev("characteristic", ServiceChars[m][j])
        /\ P[n + 1] = Completed
    BY <1>1
  <1>5. \A i \in 1..Len(P) : i \in 1..n \/ i = n + 1
    BY <1>1, <1>3
  <1> HIDE DEF P
  <1>6. \A i \in 1..Len(P) : P[i].type \in {"characteristic", "completed"}
    <2>1. ASSUME NEW i \in 1..n PROVE P[i].type = "characteristic"
      <3>1. P[i] = Ev("characteristic", ServiceChars[m][i])
        BY <1>4
      <3> QED
        BY <3>1, EvFields
    <2>2. P[n + 1].type = "completed"
      BY <1>4 DEF Completed, Ev
    <2> QED
      BY <1>5, <2>1, <2>2
  <1>7. P \in Seq(Event) /\ GoodProc(P)
    BY <1>2, CharsProcIsGood, Zenon DEF GoodProc
  <1> QED
    BY <1>2, <1>3, <1>4, <1>6, <1>7, Zenon

-----------------------------------------------------------------------------
(* The discovery in step with the peripheral, connection after connection. *)

\* Each entry of the list that has ever been written holds the characteristic that
\* belongs there, and each sensor pointer leads to one of these, with its UUID.
ListInv(list) ==
    Running =>
        /\ \A p \in 1..MaxChars : chars[p] # Null => p \in 1..Len(list) /\ chars[p] = list[p]
        /\ \A s \in Sensors : sensors[s] # Null =>
              chars[sensors[s]] # Null /\ Uuid[chars[sensors[s]]] = s

\* The first d services of the peripheral have been found.
ServicesSoFar(d) ==
    /\ Len(services) = serviceIndex - 1 + d
    /\ \A k \in 1..d : services[serviceIndex - 1 + k] = k
    /\ Stream(ServicesProc, d)

\* The services from m on are left, and d characteristics of m have been found.
CharsSoFar(off, m, d) ==
    /\ Len(services) - serviceIndex = Len(ServiceChars) - m
    /\ \A k \in 0..Len(ServiceChars) - m : services[serviceIndex + k] = m + k
    /\ Stream(CharsProc(m), d)
    /\ charsLen = off[m - 1] + d

\* Outside the discovery service_index is just past the services found so far, over
\* all connections; the list of the characteristics is empty when one begins.
PlaceInv(off) ==
    Running =>
        /\ state \notin {"DISCOVER_SERVICES", "DISCOVER_CHARACTERISTICS"} =>
               serviceIndex = Len(services) + 1
        /\ state \in {"INIT", "DISCOVERY", "CONNECT", "DISCOVER_SERVICES"} => charsLen = 0
        /\ state = "DISCOVER_SERVICES" => \E d \in 0..Len(ServiceChars) : ServicesSoFar(d)
        /\ state = "DISCOVER_CHARACTERISTICS" =>
               \E m \in ServiceIds : \E d \in Nat : CharsSoFar(off, m, d)

\* A procedure starts with none of the reports of an earlier one left.
LEMMA NothingReported ==
  ASSUME IInv, LinkInv, state = "CONNECT", NEW type, Receive(type)
  PROVE  Absent(Report)'
  <1>1. Running /\ \A T : Absent(T) => Absent(T)'
    BY TakenInbox, TakenAbsent DEF IInv
  <1>2. Absent({"service", "characteristic", "value"})
    BY <1>1 DEF LinkInv
  <1>3. Completions = {} /\ \A i \in 1..Len(inbox) : ~inbox[i].stale
    BY <1>1 DEF IInv, Safe, OneProcedure, NoStaleEvents, GattStates
  <1>4. \A i \in 1..Len(inbox) : inbox[i].type # "completed"
    BY <1>3 DEF Completions
  <1> QED
    BY <1>1, <1>2, <1>4 DEF Absent, Report

LEMMA OpenedPlaces ==
  ASSUME IInv, LinkInv, NEW off, PlaceInv(off), Opened
  PROVE  PlaceInv(off)'
  <1> SUFFICES ASSUME Running' PROVE PlaceInv(off)'
    BY DEF PlaceInv
  <1>1. /\ state = "CONNECT" /\ Receive("opened") /\ state' = "DISCOVER_SERVICES"
        /\ Start(GattResults, ServicesProc) /\ UNCHANGED <<services, serviceIndex, charsLen>>
    BY DEF Opened, EnterServices, gattVars
  <1>2. proc' = ServicesProc /\ Running /\ Absent(Report)'
    BY <1>1, Started, NothingReported DEF Receive, Running
  <1>3. Stream(ServicesProc, 0)'
    BY <1>2, StreamStarts, ServicesReported
  <1>4. serviceIndex = Len(services) + 1 /\ charsLen = 0
    BY <1>1, <1>2 DEF PlaceInv
  <1>5. Len(services) \in Nat /\ serviceIndex \in Nat /\ 0 \in 0..Len(ServiceChars)
    BY ServiceLength DEF IInv, HostTypeOK
  <1>6. ServicesSoFar(0)'
    BY <1>1, <1>3, <1>4, <1>5 DEF ServicesSoFar
  <1> QED
    BY <1>1, <1>4, <1>5, <1>6 DEF PlaceInv

LEMMA ServiceFoundPlaces ==
  ASSUME IInv, NEW off, PlaceInv(off), ServiceFound
  PROVE  PlaceInv(off)'
  <1> SUFFICES ASSUME Running' PROVE PlaceInv(off)'
    BY DEF PlaceInv
  <1>1. /\ state = "DISCOVER_SERVICES" /\ state' = state /\ Receive("service")
        /\ services' = Append(services, Arg)
        /\ UNCHANGED <<serviceIndex, charsLen, proc>> /\ Running
    BY DEF ServiceFound, ncpVars, Stop, Running, Receive
  <1>2. PICK d \in 0..Len(ServiceChars) : ServicesSoFar(d)
    BY <1>1 DEF PlaceInv
  <1>3. /\ d + 1 \in 1..Len(ServicesProc) /\ ServicesProc[d + 1].type = "service"
        /\ ServicesProc[d + 1].arg = Arg /\ Stream(ServicesProc, d + 1)'
    <2>1. Stream(ServicesProc, d) /\ d \in Nat /\ "service" \in Report
      BY <1>2 DEF ServicesSoFar, Report
    <2> QED
      BY <1>1, <2>1, StreamNext, ServicesReported DEF IInv
  <1>4. d + 1 \in ServiceIds /\ Arg = d + 1
    <2>1. Completed.type = "completed"
      BY DEF Completed, Ev
    <2>2. d + 1 # Len(ServiceChars) + 1
      BY <1>3, <2>1, ServicesReported
    <2>3. d + 1 \in ServiceIds
      BY <1>3, <2>2, ServiceLength, ServicesReported
    <2> QED
      BY <1>3, <2>3, ServicesReported, EvFields
  <1>5. /\ Len(services') = Len(services) + 1 /\ Len(services) \in Nat
        /\ services'[Len(services) + 1] = d + 1
        /\ \A k \in 1..Len(services) : services'[k] = services[k]
        /\ serviceIndex \in Nat \ {0} /\ Len(services) = serviceIndex - 1 + d
    BY <1>1, <1>2, <1>4 DEF IInv, HostTypeOK, ServicesSoFar
  <1>6. \A k \in 1..d + 1 : services'[serviceIndex - 1 + k] = k
    <2> SUFFICES ASSUME NEW k \in 1..d + 1 PROVE services'[serviceIndex - 1 + k] = k
      OBVIOUS
    <2>1. CASE k = d + 1
      BY <1>5, <2>1
    <2>2. CASE k \in 1..d
      <3>1. services[serviceIndex - 1 + k] = k /\ serviceIndex - 1 + k \in 1..Len(services)
        BY <1>2, <1>5, <2>2 DEF ServicesSoFar
      <3> QED
        BY <1>5, <3>1
    <2> QED
      BY <2>1, <2>2
  <1>7. ServicesSoFar(d + 1)'
    <2>1. Len(services') = serviceIndex' - 1 + (d + 1)
      BY <1>1, <1>5
    <2> QED
      BY <1>1, <1>3, <1>6, <2>1 DEF ServicesSoFar
  <1>8. d + 1 \in 0..Len(ServiceChars)
    BY <1>4, ServiceLength
  <1>9. charsLen' = 0
    BY <1>1 DEF PlaceInv
  <1> QED
    BY <1>1, <1>7, <1>8, <1>9 DEF PlaceInv

\* The discovery of the characteristics of the service at place i, which is service
\* m of the peripheral.
LEMMA NextServicePlaces ==
  ASSUME IInv, NEW off, Offsets(off), NEW i \in Nat \ {0}, NEW m \in ServiceIds,
         Len(services) - i = Len(ServiceChars) - m,
         \A k \in 0..Len(ServiceChars) - m : services[i + k] = m + k,
         DiscoverChars(i), serviceIndex' = i, UNCHANGED services,
         charsLen' = off[m - 1], Absent(Report)', Running'
  PROVE  PlaceInv(off)'
  <1>1. /\ Len(services) \in Nat /\ i <= Len(services) /\ services[i] = m /\ m # 0
    <2>1. /\ Len(ServiceChars) \in Nat /\ m \in 1..Len(ServiceChars)
      BY ServiceLength
    <2>2. Len(services) \in Nat
      BY DEF IInv, HostTypeOK
    <2>3. 0 \in 0..Len(ServiceChars) - m /\ i + 0 = i /\ m + 0 = m
      BY <2>1
    <2>4. services[i + 0] = m + 0
      BY <2>3
    <2>5. i <= Len(services) /\ m # 0
      BY <2>1, <2>2
    <2> QED
      BY <2>2, <2>3, <2>4, <2>5, Zenon
  <1>2. state' = "DISCOVER_CHARACTERISTICS" /\ proc' = CharsProc(m)
    BY <1>1, Started DEF DiscoverChars
  <1>3. Stream(CharsProc(m), 0)'
    BY <1>2, StreamStarts, CharsReported
  <1>4. off[m - 1] \in Nat /\ off[m - 1] + 0 = off[m - 1]
    BY OffsetOfService
  <1>5. CharsSoFar(off, m, 0)'
    BY <1>3, <1>4 DEF CharsSoFar
  <1> QED
    BY <1>2, <1>5 DEF PlaceInv

LEMMA ServicesDiscoveredPlaces ==
  ASSUME ServiceChars # <<>>, IInv, NEW off, Offsets(off), PlaceInv(off), ServicesDiscovered
  PROVE  PlaceInv(off)'
  <1> SUFFICES ASSUME Running' PROVE PlaceInv(off)'
    BY DEF PlaceInv
  <1>1. /\ state = "DISCOVER_SERVICES" /\ Receive("completed") /\ Running
        /\ DiscoverChars(serviceIndex)
        /\ UNCHANGED <<services, serviceIndex, charsLen>>
    BY DEF ServicesDiscovered, gattVars, Receive, Running
  <1>2. PICK d \in 0..Len(ServiceChars) : ServicesSoFar(d)
    BY <1>1 DEF PlaceInv
  <1>3. d = Len(ServiceChars) /\ Absent(Report)'
    <2>1. Stream(ServicesProc, d) /\ d \in Nat
      BY <1>2 DEF ServicesSoFar
    <2>2. d + 1 = Len(ServicesProc) /\ Absent(Report)'
      BY <1>1, <2>1, StreamEnds, ServicesReported DEF IInv
    <2> QED
      BY <2>1, <2>2, ServicesReported, ServiceLength
  <1>4. 1 \in ServiceIds /\ Len(ServiceChars) \in Nat \ {0}
    BY DeviceAssumption DEF ServiceIds
  <1>5. /\ serviceIndex \in Nat \ {0} /\ Len(services) \in Nat
        /\ Len(services) - serviceIndex = Len(ServiceChars) - 1
    BY <1>2, <1>3, <1>4 DEF IInv, HostTypeOK, ServicesSoFar
  <1>6. \A k \in 0..Len(ServiceChars) - 1 : services[serviceIndex + k] = 1 + k
    <2> SUFFICES ASSUME NEW k \in 0..Len(ServiceChars) - 1
                 PROVE  services[serviceIndex + k] = 1 + k
      OBVIOUS
    <2>1. k + 1 \in 1..d /\ serviceIndex - 1 + (k + 1) = serviceIndex + k /\ k + 1 = 1 + k
      BY <1>3, <1>4, <1>5
    <2>2. services[serviceIndex - 1 + (k + 1)] = k + 1
      BY <1>2, <2>1 DEF ServicesSoFar
    <2> QED
      BY <2>1, <2>2
  <1>7. charsLen' = off[1 - 1]
    BY <1>1 DEF PlaceInv, Offsets
  <1>8. PICK i \in Nat \ {0} : i = serviceIndex
    BY <1>5
  <1> QED
    BY <1>1, <1>3, <1>4, <1>5, <1>6, <1>7, <1>8, NextServicePlaces

LEMMA CharacteristicFoundPlaces ==
  ASSUME IInv, NEW off, Offsets(off), NEW list, Layout(Len(ServiceChars), off, list),
         PlaceInv(off), ListInv(list), CharacteristicFound
  PROVE  PlaceInv(off)' /\ ListInv(list)'
  <1> SUFFICES ASSUME Running' PROVE PlaceInv(off)' /\ ListInv(list)'
    BY DEF PlaceInv, ListInv
  <1> DEFINE n == charsLen + 1
  <1>1. /\ state = "DISCOVER_CHARACTERISTICS" /\ state' = state
        /\ Receive("characteristic") /\ Running /\ charsLen' = n /\ n <= MaxChars
        /\ chars' = [chars EXCEPT ![n] = Arg] /\ sensors' = Register(n, Arg)
        /\ UNCHANGED <<services, serviceIndex, proc>>
    <2>1. ~(charsLen + 1 > MaxChars)
      BY DEF CharacteristicFound, Running
    <2> QED
      BY <2>1, BoundAssumption DEF CharacteristicFound, IInv, HostTypeOK, ncpVars, Running, Receive
  <1>2. PICK m \in ServiceIds, d \in Nat : CharsSoFar(off, m, d)
    BY <1>1 DEF PlaceInv
  <1>3. /\ d + 1 \in 1..Len(CharsProc(m)) /\ CharsProc(m)[d + 1].type = "characteristic"
        /\ CharsProc(m)[d + 1].arg = Arg /\ Stream(CharsProc(m), d + 1)'
    <2>1. Stream(CharsProc(m), d) /\ "characteristic" \in Report
      BY <1>2 DEF CharsSoFar, Report
    <2> QED
      BY <1>1, <2>1, StreamNext, CharsReported DEF IInv
  <1>4. d + 1 \in 1..Len(ServiceChars[m]) /\ Arg = ServiceChars[m][d + 1]
    <2>1. Completed.type = "completed"
      BY DEF Completed, Ev
    <2>2. d + 1 # Len(ServiceChars[m]) + 1
      BY <1>3, <2>1, CharsReported
    <2>3. d + 1 \in 1..Len(ServiceChars[m])
      BY <1>3, <2>2, ServiceLength, CharsReported
    <2> QED
      BY <1>3, <2>3, CharsReported, EvFields
  <1>5. /\ off[m - 1] \in Nat /\ charsLen = off[m - 1] + d
        /\ n = off[m - 1] + (d + 1) /\ n \in 1..MaxChars
    <2>1. off[m - 1] \in Nat /\ charsLen = off[m - 1] + d
      BY <1>2, ServiceLength DEF Offsets, CharsSoFar
    <2> QED
      BY <1>1, <2>1, BoundAssumption
  <1>6. n \in 1..Len(list) /\ list[n] = Arg
    <2>1. /\ off[m] <= Len(list) /\ Len(list) \in Nat
          /\ list[off[m - 1] + (d + 1)] = ServiceChars[m][d + 1]
      BY <1>4, ServiceLength DEF Layout
    <2>2. off[m] = off[m - 1] + Len(ServiceChars[m]) /\ Len(ServiceChars[m]) \in Nat
      BY ServiceLength DEF Offsets
    <2> QED
      BY <1>4, <1>5, <2>1, <2>2, SMTT(30)
  <1>7. CharsSoFar(off, m, d + 1)'
    <2>1. charsLen' = off[m - 1] + (d + 1)
      BY <1>1, <1>5
    <2> QED
      BY <1>1, <1>2, <1>3, <2>1 DEF CharsSoFar
  <1>8. PlaceInv(off)'
    BY <1>1, <1>7 DEF PlaceInv
  <1> HIDE DEF n
  <1>9. /\ chars \in [1..MaxChars -> Handles \cup {Null}] /\ Arg \in Handles /\ Arg # Null
        /\ chars'[n] = Arg /\ \A p \in 1..MaxChars : p # n => chars'[p] = chars[p]
        /\ sensors \in [Sensors -> 0..MaxChars] /\ Uuid[Arg] \in Sensors \cup {0}
        /\ 0 \notin Sensors
    <2>1. /\ chars \in [1..MaxChars -> Handles \cup {Null}]
          /\ sensors \in [Sensors -> 0..MaxChars]
      BY DEF IInv, HostTypeOK
    <2>2. Arg \in Handles /\ Arg # Null
      BY <1>1, HeadArg, DeviceAssumption DEF IInv
    <2>3. Uuid[Arg] \in Sensors \cup {0} /\ 0 \notin Sensors
      BY <2>2, DeviceAssumption DEF Sensors
    <2> QED
      BY <1>1, <1>5, <2>1, <2>2, <2>3
  <1>10. \A p \in 1..MaxChars : chars'[p] # Null => p \in 1..Len(list) /\ chars'[p] = list[p]
    BY <1>1, <1>6, <1>9 DEF ListInv
  <1>11. ASSUME NEW s \in Sensors, sensors'[s] # Null
         PROVE  chars'[sensors'[s]] # Null /\ Uuid[chars'[sensors'[s]]] = s
    <2>1. CASE sensors'[s] = sensors[s]
      <3>1. sensors[s] \in 1..MaxChars /\ chars[sensors[s]] # Null /\ Uuid[chars[sensors[s]]] = s
        BY <1>1, <1>9, <1>11, <2>1 DEF ListInv, Null
      <3>2. CASE sensors[s] = n
        <4>1. chars[n] = Arg
          BY <1>1, <1>5, <1>6, <3>1, <3>2 DEF ListInv
        <4> QED
          BY <1>9, <2>1, <3>1, <3>2, <4>1
      <3>3. CASE sensors[s] # n
        BY <1>9, <2>1, <3>1, <3>3
      <3> QED
        BY <3>2, <3>3
    <2>2. CASE sensors'[s] # sensors[s]
      <3>1. s = Uuid[Arg] /\ sensors'[s] = n
        BY <1>1, <1>9, <2>2 DEF Register
      <3> QED
        BY <1>9, <3>1
    <2> QED
      BY <2>1, <2>2
  <1>12. ListInv(list)'
    BY <1>10, <1>11 DEF ListInv
  <1> QED
    BY <1>8, <1>12

\* The ways back to INIT empty the list.
LEMMA RequestEmpties ==
  ASSUME NEW s, NEW revert, Request(s, revert)
  PROVE  state' = "READ" \/ (state' = "INIT" /\ charsLen' = 0)
  BY DEF Request, EnterInit

LEMMA SubscribeEmpties ==
  ASSUME NEW i, SubscribeFrom(i)
  PROVE  state' \in {"READ", "SUBSCRIBE"} \/ (state' = "INIT" /\ charsLen' = 0)
  <1>1. ASSUME EnterRead PROVE state' = "READ" \/ (state' = "INIT" /\ charsLen' = 0)
    <2>1. state' = "READ" \/ Request(FirstSensor(1, CanRead), Refusals)
      BY <1>1 DEF EnterRead
    <2>2. state' = "READ" \/ \E s : Request(s, Refusals)
      BY <2>1
    <2> QED
      BY <2>2, RequestEmpties
  <1>2. EnterRead \/ state' = "SUBSCRIBE"
    BY DEF SubscribeFrom
  <1> QED
    BY <1>1, <1>2

LEMMA ElsewherePlaces ==
  ASSUME NEW off, PlaceInv(off), Running, UNCHANGED <<services, serviceIndex>>,
         state \notin {"DISCOVER_SERVICES", "DISCOVER_CHARACTERISTICS"},
         state' \notin {"DISCOVER_SERVICES", "DISCOVER_CHARACTERISTICS"},
         state' \in {"INIT", "DISCOVERY", "CONNECT"} => charsLen' = 0
  PROVE  PlaceInv(off)'
  BY DEF PlaceInv

LEMMA CharacteristicsDiscoveredPlaces ==
  ASSUME IInv, NEW off, Offsets(off), PlaceInv(off), CharacteristicsDiscovered
  PROVE  PlaceInv(off)'
  <1> SUFFICES ASSUME Running' PROVE PlaceInv(off)'
    BY DEF PlaceInv
  <1>1. /\ state = "DISCOVER_CHARACTERISTICS" /\ Receive("completed") /\ Running
        /\ serviceIndex' = serviceIndex + 1 /\ UNCHANGED services
    BY DEF CharacteristicsDiscovered, Receive, Running
  <1>2. PICK m \in ServiceIds, d \in Nat : CharsSoFar(off, m, d)
    BY <1>1 DEF PlaceInv
  <1>3. d = Len(ServiceChars[m]) /\ Absent(Report)'
    <2>1. Stream(CharsProc(m), d)
      BY <1>2 DEF CharsSoFar
    <2>2. d + 1 = Len(CharsProc(m)) /\ Absent(Report)'
      BY <1>1, <2>1, StreamEnds, CharsReported DEF IInv
    <2> QED
      BY <2>2, CharsReported, ServiceLength
  <1>4. charsLen = off[m]
    BY <1>2, <1>3 DEF CharsSoFar, Offsets
  <1>5. /\ serviceIndex \in Nat \ {0} /\ Len(services) \in Nat
        /\ Len(services) - serviceIndex = Len(ServiceChars) - m
        /\ Len(ServiceChars) \in Nat /\ m \in 1..Len(ServiceChars)
    BY <1>2, ServiceLength DEF IInv, HostTypeOK, CharsSoFar
  <1>6. CASE serviceIndex + 1 <= Len(services)
    <2>1. DiscoverChars(serviceIndex') /\ UNCHANGED charsLen
      BY <1>1, <1>6 DEF CharacteristicsDiscovered, IsService
    <2>2. PICK i \in Nat \ {0} : i = serviceIndex + 1
      BY <1>5
    <2>3. DiscoverChars(i) /\ serviceIndex' = i
      BY <1>1, <2>1, <2>2
    <2>4. /\ m + 1 \in ServiceIds /\ (m + 1) - 1 = m
          /\ Len(services) - i = Len(ServiceChars) - (m + 1)
      BY <1>5, <1>6, <2>2, ServiceLength
    <2>5. \A k \in 0..Len(ServiceChars) - (m + 1) : services[i + k] = (m + 1) + k
      <3> SUFFICES ASSUME NEW k \in 0..Len(ServiceChars) - (m + 1)
                   PROVE  services[i + k] = (m + 1) + k
        OBVIOUS
      <3>1. /\ k + 1 \in 0..Len(ServiceChars) - m
            /\ serviceIndex + (k + 1) = i + k /\ m + (k + 1) = (m + 1) + k
        BY <1>5, <2>2
      <3>2. services[serviceIndex + (k + 1)] = m + (k + 1)
        BY <1>2, <3>1 DEF CharsSoFar
      <3> QED
        BY <3>1, <3>2
    <2>6. charsLen' = off[(m + 1) - 1]
      BY <1>4, <2>1, <2>4
    <2> QED
      BY <1>1, <1>3, <2>3, <2>4, <2>5, <2>6, NextServicePlaces
  <1>7. CASE ~(serviceIndex + 1 <= Len(services))
    <2>1. SubscribeFrom(1)
      BY <1>1, <1>7 DEF CharacteristicsDiscovered, IsService
    <2>2. state' \in {"READ", "SUBSCRIBE"} \/ (state' = "INIT" /\ charsLen' = 0)
      BY <2>1, SubscribeEmpties
    <2>3. serviceIndex' = Len(services') + 1
      BY <1>1, <1>5, <1>7
    <2> QED
      BY <2>2, <2>3 DEF PlaceInv
  <1> QED
    BY <1>6, <1>7

\* A step that keeps what the procedures still have to report.
LEMMA QuietPlaces ==
  ASSUME NEW off, PlaceInv(off), UNCHANGED <<state, status, services, serviceIndex, charsLen>>,
         Running /\ state = "DISCOVER_SERVICES" =>
             \A d \in Nat : Stream(ServicesProc, d) => Stream(ServicesProc, d)',
         Running /\ state = "DISCOVER_CHARACTERISTICS" =>
             \A m \in ServiceIds : \A d \in Nat :
                 Stream(CharsProc(m), d) => Stream(CharsProc(m), d)'
  PROVE  PlaceInv(off)'
  <1> SUFFICES ASSUME Running PROVE PlaceInv(off)'
    BY DEF PlaceInv, Running
  <1>1. CASE state = "DISCOVER_SERVICES"
    <2>1. PICK d \in 0..Len(ServiceChars) : ServicesSoFar(d)
      BY <1>1 DEF PlaceInv
    <2>2. ServicesSoFar(d)'
      BY <1>1, <2>1 DEF ServicesSoFar
    <2> QED
      BY <1>1, <2>2 DEF PlaceInv
  <1>2. CASE state = "DISCOVER_CHARACTERISTICS"
    <2>1. PICK m \in ServiceIds, d \in Nat : CharsSoFar(off, m, d)
      BY <1>2 DEF PlaceInv
    <2>2. CharsSoFar(off, m, d)'
      BY <1>2, <2>1 DEF CharsSoFar
    <2> QED
      BY <1>2, <2>2 DEF PlaceInv
  <1>3. CASE state \notin {"DISCOVER_SERVICES", "DISCOVER_CHARACTERISTICS"}
    BY <1>3, ElsewherePlaces DEF PlaceInv
  <1> QED
    BY <1>1, <1>2, <1>3

LEMMA IgnorePlaces ==
  ASSUME IInv, NEW off, PlaceInv(off), Ignore
  PROVE  PlaceInv(off)'
  <1>1. PICK type \in EventTypes : type \notin Handled(state) /\ Receive(type)
    BY DEF Ignore
  <1>2. UNCHANGED <<state, status, services, serviceIndex, charsLen, proc>>
    BY DEF Ignore, hostVars, gattVars, ncpVars
  <1>3. ASSUME state = "DISCOVER_SERVICES", NEW d \in Nat, Stream(ServicesProc, d)
        PROVE  Stream(ServicesProc, d)'
    <2>1. type \notin {"service", "completed"}
      BY <1>1, <1>3 DEF Handled, GattStates
    <2>2. type \notin Report
      <3> SUFFICES ASSUME type \in Report PROVE FALSE
        OBVIOUS
      <3>1. d + 1 \in 1..Len(ServicesProc) /\ ServicesProc[d + 1].type = type
        BY <1>1, <1>2, <1>3, StreamNext, ServicesReported DEF IInv
      <3> QED
        BY <2>1, <3>1, ServicesReported
    <2>3. \A i \in 1..Len(ServicesProc) : ServicesProc[i].type \in Report
      BY ServicesReported DEF Report
    <2> QED
      BY <1>1, <1>2, <1>3, <2>2, <2>3, StreamSkips DEF IInv
  <1>4. ASSUME state = "DISCOVER_CHARACTERISTICS", NEW m \in ServiceIds, NEW d \in Nat,
               Stream(CharsProc(m), d)
        PROVE  Stream(CharsProc(m), d)'
    <2>1. type \notin {"characteristic", "completed"}
      BY <1>1, <1>4 DEF Handled, GattStates
    <2>2. type \notin Report
      <3> SUFFICES ASSUME type \in Report PROVE FALSE
        OBVIOUS
      <3>1. d + 1 \in 1..Len(CharsProc(m)) /\ CharsProc(m)[d + 1].type = type
        BY <1>1, <1>2, <1>4, StreamNext, CharsReported DEF IInv
      <3> QED
        BY <2>1, <3>1, CharsReported
    <2>3. \A i \in 1..Len(CharsProc(m)) : CharsProc(m)[i].type \in Report
      BY CharsReported DEF Report
    <2> QED
      BY <1>1, <1>2, <1>4, <2>2, <2>3, StreamSkips DEF IInv
  <1> QED
    BY <1>2, <1>3, <1>4, QuietPlaces

\* The connection is not lost while the discovery lasts.
LEMMA NotClosed ==
  ASSUME IInv, LinkInv, Receive("closed")
  PROVE  state \notin {"DISCOVER_SERVICES", "DISCOVER_CHARACTERISTICS"}
  <1>1. Running /\ ~Absent({"closed"})
    BY TakenAbsent, TakenInbox DEF IInv
  <1> QED
    BY <1>1 DEF LinkInv, DiscoveryStates

LEMMA OtherHandlersPlace ==
  ASSUME IInv, LinkInv, NEW off, PlaceInv(off),
         Boot \/ AdvertisementTimeout \/ ThunderboardFound \/ OtherAdvertisement \/ Closed
         \/ Subscribed \/ ValueReceived \/ RequestNext \/ Refresh \/ RefreshCrash
  PROVE  PlaceInv(off)'
  <1> SUFFICES ASSUME Running' PROVE PlaceInv(off)'
    BY DEF PlaceInv
  <1>1. CASE Boot \/ ThunderboardFound \/ OtherAdvertisement
    <2>1. /\ Running /\ state \in {"INIT", "DISCOVERY"} /\ state' \in {"DISCOVERY", "CONNECT"}
          /\ UNCHANGED <<services, serviceIndex, charsLen>>
      BY <1>1 DEF Boot, ThunderboardFound, OtherAdvertisement, Receive, Running,
         EnterDiscovery, EnterConnect, gattVars, hostVars
    <2> QED
      BY <2>1, ElsewherePlaces DEF PlaceInv
  <1>2. ~AdvertisementTimeout /\ ~RefreshCrash
    BY DEF AdvertisementTimeout, RefreshCrash, Stop, Running
  <1>3. CASE Closed
    <2>1. /\ Receive("closed") /\ Running /\ state' = "INIT" /\ charsLen' = 0
          /\ UNCHANGED <<services, serviceIndex>>
      BY <1>3 DEF Closed, EnterInit, Receive, Running
    <2> QED
      BY <2>1, NotClosed, ElsewherePlaces
  <1>4. CASE Subscribed
    <2>1. /\ Running /\ state = "SUBSCRIBE" /\ UNCHANGED <<services, serviceIndex>>
          /\ \E i \in {subIndex} : SubscribeFrom(i)
      BY <1>4 DEF Subscribed, Receive, Running
    <2>2. state' \in {"READ", "SUBSCRIBE"} \/ (state' = "INIT" /\ charsLen' = 0)
      BY <2>1, SubscribeEmpties
    <2> QED
      BY <2>1, <2>2, ElsewherePlaces
  <1>5. CASE ValueReceived \/ RequestNext \/ Refresh
    <2>1. /\ Running /\ state = "READ" /\ UNCHANGED <<services, serviceIndex>>
          /\ \/ state' = "READ"
             \/ Request(1, Refusals)
             \/ \E s \in {FirstSensor(readIndex, CanRead)} :
                    Request(s, {"invalid_conn_handle"})
      BY <1>5 DEF ValueReceived, RequestNext, Refresh, RoundEnded, Receive, Running, gattVars
    <2>2. state' = "READ" \/ (state' = "INIT" /\ charsLen' = 0)
      BY <2>1, RequestEmpties
    <2> QED
      BY <2>1, <2>2, ElsewherePlaces
  <1> QED
    BY <1>1, <1>2, <1>3, <1>4, <1>5

LEMMA StreamStays ==
  ASSUME UNCHANGED <<inbox, proc>>, NEW P, NEW d, Stream(P, d)
  PROVE  Stream(P, d)'
  <1>a. PICK q \in Nat : \E at : Placed(P, d, q, at)
    BY DEF Stream
  <1>1. PICK at : Placed(P, d, q, at)
    BY <1>a
  <1>2. Placed(P, d, q, at)'
    BY <1>1 DEF Placed
  <1> QED
    BY <1>2 DEF Stream

LEMMA EnvironmentStreams ==
  ASSUME LateFaults, IInv, LinkInv, Environment, Running,
         state \in {"DISCOVER_SERVICES", "DISCOVER_CHARACTERISTICS"},
         NEW P \in Seq(Event), NEW d \in Nat, Stream(P, d)
  PROVE  Stream(P, d)'
  <1>1. link = "up" /\ ~resetPending
    BY DEF LinkInv, DiscoveryStates, IInv, Safe, BootInv
  <1>2. ~Reset /\ ~OpenConnection /\ ~OpenFails
    BY <1>1 DEF Reset, OpenConnection, OpenFails
  <1>3. ~LoseConnection /\ ~AttError /\ ~DropEvent /\ ~Tick
    BY DEF LoseConnection, AttError, DropEvent, Tick, LateFaults, DiscoveryStates
  <1>4. CASE Progress
    BY <1>4, StreamProgresses
  <1>5. CASE OtherEvent \/ \E match \in {0, 1} : Advertise(match)
    <2>1. PICK type \in {"other", "scan"}, arg \in {0, 1} :
             Deliver(Ev(type, arg)) /\ proc' = proc
      BY <1>5 DEF OtherEvent, Advertise, ncpVars
    <2>2. PICK e \in Event : e = Ev(type, arg) /\ e.type = type
      BY EvIsEvent DEF EventTypes
    <2> QED
      BY <2>1, <2>2, StreamDelivered DEF IInv, Report
  <1>6. CASE \E h \in Notifying : Notify(h)
    <2>1. PICK h \in Notifying : Deliver(Ev("value", h)) /\ proc' = proc
      BY <1>6 DEF Notify, ncpVars
    <2>2. h \in Handles /\ h \in Nat
      BY DeviceAssumption
    <2>3. PICK e \in Event : e = Ev("value", h) /\ e.type = "value"
      BY <2>2, EvIsEvent DEF EventTypes
    <2> QED
      BY <2>1, <2>3, StreamDelivered DEF IInv, Report
  <1> QED
    BY <1>2, <1>3, <1>4, <1>5, <1>6 DEF Environment

LEMMA EnvironmentPlaces ==
  ASSUME LateFaults, IInv, LinkInv, NEW off, PlaceInv(off), Environment
  PROVE  PlaceInv(off)'
  <1>1. UNCHANGED <<state, status, services, serviceIndex, charsLen>>
    BY DEF Environment, Reset, Advertise, OpenConnection, OtherEvent, Progress,
           Notify, OpenFails, LoseConnection, Disconnect, AttError, DropEvent, Tick,
           hostVars, gattVars
  <1>2. ASSUME Running, state = "DISCOVER_SERVICES", NEW d \in Nat, Stream(ServicesProc, d)
        PROVE  Stream(ServicesProc, d)'
    BY <1>2, EnvironmentStreams, ServicesReported
  <1>3. ASSUME Running, state = "DISCOVER_CHARACTERISTICS", NEW m \in ServiceIds,
               NEW d \in Nat, Stream(CharsProc(m), d)
        PROVE  Stream(CharsProc(m), d)'
    BY <1>3, EnvironmentStreams, CharsReported
  <1> QED
    BY <1>1, <1>2, <1>3, QuietPlaces

\* No other step writes an entry of the list or a pointer.
LEMMA ListKept ==
  ASSUME [Next]_vars, ~CharacteristicFound
  PROVE  UNCHANGED <<chars, sensors>> /\ (Running' => Running)
  <1>1. CASE Boot \/ AdvertisementTimeout \/ ThunderboardFound \/ OtherAdvertisement
             \/ Opened \/ Closed \/ ServiceFound \/ ServicesDiscovered
    BY <1>1 DEF Boot, AdvertisementTimeout, ThunderboardFound, OtherAdvertisement,
       Opened, Closed, ServiceFound, ServicesDiscovered, gattVars, hostVars, Receive, Running
  <1>2. CASE CharacteristicsDiscovered \/ Subscribed \/ ValueReceived \/ RequestNext
             \/ Refresh \/ RefreshCrash \/ Ignore
    BY <1>2 DEF CharacteristicsDiscovered, Subscribed, ValueReceived, RequestNext,
       Refresh, RefreshCrash, RoundEnded, Ignore, gattVars, hostVars, Receive, Running
  <1>3. CASE Upload \/ TakeJob \/ Environment \/ UNCHANGED vars
    BY <1>3 DEF Upload, TakeJob, Environment, Reset, Advertise, OpenConnection, OtherEvent,
       Progress, Notify, OpenFails, LoseConnection, Disconnect, AttError, DropEvent, Tick,
       gattVars, hostVars, vars, Running
  <1> QED
    BY <1>1, <1>2, <1>3 DEF Next, HandleEvent, Stopped

LEMMA NextPlaces ==
  ASSUME LateFaults, ServiceChars # <<>>, IInv, LinkInv,
         NEW off, Offsets(off), NEW list, Layout(Len(ServiceChars), off, list),
         PlaceInv(off), ListInv(list), [Next]_vars
  PROVE  PlaceInv(off)' /\ ListInv(list)'
  <1>1. CASE CharacteristicFound
    BY <1>1, CharacteristicFoundPlaces
  <1>2. CASE ~CharacteristicFound
    <2>1. ListInv(list)'
      BY <1>2, ListKept DEF ListInv
    <2>2. CASE Upload \/ TakeJob \/ UNCHANGED vars
      <3>1. UNCHANGED <<state, status, services, serviceIndex, charsLen, inbox, proc>>
        BY <2>2 DEF Upload, TakeJob, vars, hostVars, gattVars, ncpVars
      <3>2. \A P, d : Stream(P, d) => Stream(P, d)'
        BY <3>1, StreamStays
      <3> QED
        BY <2>1, <3>1, <3>2, QuietPlaces
    <2>3. CASE Environment
      BY <2>1, <2>3, EnvironmentPlaces
    <2>4. CASE HandleEvent
      BY <1>2, <2>1, <2>4, OpenedPlaces, ServiceFoundPlaces, ServicesDiscoveredPlaces,
         CharacteristicsDiscoveredPlaces, IgnorePlaces, OtherHandlersPlace DEF HandleEvent
    <2> QED
      BY <2>2, <2>3, <2>4 DEF Next, Stopped
  <1> QED
    BY <1>1, <1>2

LEMMA InitPlaces ==
  ASSUME NEW off, NEW list, Init
  PROVE  PlaceInv(off) /\ ListInv(list)
  <1>1. PlaceInv(off)
    BY DEF Init, PlaceInv
  <1>2. /\ \A p \in 1..MaxChars : chars[p] = Null
        /\ \A s \in Sensors : sensors[s] = Null
    BY DEF Init
  <1> QED
    BY <1>1, <1>2 DEF ListInv

\* What the two invariants say of the states that follow the discovery, and of the
\* discovery itself.
LEMMA ListMatches ==
  ASSUME NEW list, ListInv(list) PROVE SensorsMatch
  BY DEF ListInv, SensorsMatch, Handle

LEMMA PlaceInStep ==
  ASSUME HostTypeOK, NEW off, PlaceInv(off) PROVE DiscoveryInStep
  <1> SUFFICES ASSUME Running, state = "DISCOVER_CHARACTERISTICS"
               PROVE  LET left == SubSeq(services, serviceIndex, Len(services)) IN
                      /\ left # <<>>
                      /\ \A i \in 1..Len(left) : left[i] = Len(ServiceChars) - Len(left) + i
    BY DEF DiscoveryInStep
  <1>1. PICK m \in ServiceIds, d \in Nat : CharsSoFar(off, m, d)
    BY DEF PlaceInv
  <1> DEFINE N == Len(ServiceChars)
             left == SubSeq(services, serviceIndex, Len(services))
  <1>2. /\ N \in Nat /\ m \in 1..N /\ services \in Seq(ServiceIds) /\ Len(services) \in Nat
        /\ serviceIndex \in Nat \ {0} /\ Len(services) - serviceIndex = N - m
    BY <1>1, ServiceLength DEF HostTypeOK, CharsSoFar
  <1>3. serviceIndex \in 1..Len(services) /\ (Len(services) - serviceIndex) + 1 = (N - m) + 1
    BY <1>2
  <1>4. /\ Len(left) = (N - m) + 1
        /\ \A i \in 1..(N - m) + 1 : left[i] = services[serviceIndex + i - 1]
    BY <1>2, <1>3
  <1>5. \A i \in 1..(N - m) + 1 : left[i] = N - ((N - m) + 1) + i
    <2> SUFFICES ASSUME NEW i \in 1..(N - m) + 1 PROVE left[i] = N - ((N - m) + 1) + i
      OBVIOUS
    <2>1. /\ i - 1 \in 0..N - m /\ serviceIndex + (i - 1) = serviceIndex + i - 1
          /\ m + (i - 1) = N - ((N - m) + 1) + i
      BY <1>2
    <2>2. services[serviceIndex + (i - 1)] = m + (i - 1)
      BY <1>1, <2>1 DEF CharsSoFar
    <2> HIDE DEF left, N
    <2> QED
      BY <1>4, <2>1, <2>2
  <1> HIDE DEF left
  <1>6. left # <<>>
    BY <1>2, <1>4
  <1> QED
    BY <1>4, <1>5, <1>6 DEF left

LEMMA InitLink == Init => LinkInv
  <1>1. Init => 1..Len(inbox) = {}
    BY DEF Init
  <1> QED
    BY <1>1 DEF Init, LinkInv, After, DiscoveryStates

\* When no connection is lost and no procedure fails while services or
\* characteristics are discovered, whatever fails before and after, each sensor
\* pointer leads to the characteristic of its sensor in every round.
THEOREM SensorsMatched ==
  ASSUME FaultStates \cap {"DISCOVER_SERVICES", "DISCOVER_CHARACTERISTICS"} = {},
         "drop" \notin Faults, ServiceChars # <<>>
  PROVE  Spec => []SensorsMatch
  <1>1. PICK off : Offsets(off)
    BY OffsetsExist
  <1>2. PICK list : Layout(Len(ServiceChars), off, list)
    BY <1>1, ListExists
  <1> DEFINE Inv == LinkInv /\ PlaceInv(off) /\ ListInv(list)
  <1>3. Init => Inv
    BY InitLink, InitPlaces
  <1>4. IInv /\ IInv' /\ Inv /\ [Next]_vars => Inv'
    BY <1>1, <1>2, NextKeepsLink, NextPlaces DEF LateFaults, DiscoveryStates
  <1>5. Inv => SensorsMatch
    BY ListMatches
  <1> HIDE DEF Inv
  <1> QED
    BY <1>3, <1>4, <1>5, Invariance, PTL DEF Spec

\* Under the same conditions the services whose characteristics are left to discover
\* are the last ones of the peripheral, in its order, on every connection.
THEOREM DiscoveryKeepsStep ==
  ASSUME FaultStates \cap {"DISCOVER_SERVICES", "DISCOVER_CHARACTERISTICS"} = {},
         "drop" \notin Faults, ServiceChars # <<>>
  PROVE  Spec => []DiscoveryInStep
  <1>1. PICK off : Offsets(off)
    BY OffsetsExist
  <1>2. PICK list : Layout(Len(ServiceChars), off, list)
    BY <1>1, ListExists
  <1> DEFINE Inv == LinkInv /\ PlaceInv(off) /\ ListInv(list)
  <1>3. Init => Inv
    BY InitLink, InitPlaces
  <1>4. IInv /\ IInv' /\ Inv /\ [Next]_vars => Inv'
    BY <1>1, <1>2, NextKeepsLink, NextPlaces DEF LateFaults, DiscoveryStates
  <1>5. IInv /\ Inv => DiscoveryInStep
    BY PlaceInStep DEF IInv
  <1> HIDE DEF Inv
  <1> QED
    BY <1>3, <1>4, <1>5, Invariance, PTL DEF Spec

-----------------------------------------------------------------------------
(* The loop of main goes on as long as the lists are large enough. *)

\* No command is refused without a reason, and time does not run out.
FewFaults == Faults \subseteq {"connect", "loss", "att"} /\ FaultStates \subseteq {"READ"}

\* The services that the connections lost so far have left in the list.
Used == Len(ServiceChars) * (MaxFaults - faults)

\* Each connection that was lost has taken one fault and added, at most, the
\* services of the peripheral once more.
Funded ==
    /\ faults <= MaxFaults
    /\ waited = 0
    /\ state \in {"INIT", "DISCOVERY", "CONNECT"} \/ link = "down" => Len(services) <= Used
    /\ state = "DISCOVER_SERVICES" => serviceIndex - 1 <= Used
    /\ Len(services) <= Used + Len(ServiceChars)

LEMMA OnceMore ==
  ASSUME NEW n \in Nat, NEW k \in Nat
  PROVE  n * k \in Nat /\ n * (k + 1) = n * k + n
  BY Z3

LEMMA NoMoreThan ==
  ASSUME NEW n \in Nat, NEW k \in Nat, NEW m \in Nat, k <= m
  PROVE  n * k <= n * m
  <1>1. PICK d \in Nat : m = k + d
    <2>1. m - k \in Nat /\ m = k + (m - k)
      OBVIOUS
    <2> QED
      BY <2>1
  <1>2. n * m = n * k + n * d /\ n * d \in Nat /\ n * k \in Nat
    BY <1>1, Z3
  <1> QED
    BY <1>2

LEMMA UsedGrows ==
  ASSUME HostTypeOK, faults <= MaxFaults
  PROVE  /\ Used \in Nat
         /\ faults' = faults => Used' = Used
         /\ faults > 0 /\ faults' = faults - 1 => Used' = Used + Len(ServiceChars)
         /\ Used + Len(ServiceChars) <= Len(ServiceChars) * (MaxFaults + 1)
  <1>1. /\ faults \in Nat /\ MaxFaults \in Nat /\ Len(ServiceChars) \in Nat
    BY ServiceLength, BoundAssumption DEF HostTypeOK
  <1>2. PICK n \in Nat, k \in Nat, m \in Nat :
           n = Len(ServiceChars) /\ k = MaxFaults - faults /\ m = MaxFaults /\ k <= m
    BY <1>1
  <1>3. n * k \in Nat /\ n * (k + 1) = n * k + n /\ n * (m + 1) = n * m + n /\ n * k <= n * m
        /\ n * m \in Nat
    BY <1>2, OnceMore, NoMoreThan
  <1>4. Used = n * k
    BY <1>2 DEF Used
  <1>5. faults' = faults => Used' = Used
    BY DEF Used
  <1>6. faults' = faults - 1 => Used' = n * (k + 1)
    <2>1. faults' = faults - 1 => MaxFaults - faults' = k + 1
      BY <1>1, <1>2
    <2> QED
      BY <1>2, <2>1 DEF Used
  <1> QED
    BY <1>2, <1>3, <1>4, <1>5, <1>6, SMTT(30)

\* What the answers to the commands can be.
LEMMA AnswersKnown ==
  ASSUME FewFaults
  PROVE  /\ CommandResults = {"ok"}
         /\ proc = <<>> => GattResults = IF link = "up" THEN {"ok"} ELSE {"invalid_conn_handle"}
  BY DEF FewFaults, CommandResults, GattResults

LEMMA StartRuns ==
  ASSUME FewFaults, link = "up", proc = <<>>, NEW events, Start(GattResults, events)
  PROVE  UNCHANGED <<status, faults>>
  <1>1. GattResults = {"ok"}
    BY AnswersKnown
  <1> QED
    BY <1>1 DEF Start, CountFault

LEMMA RequestRuns ==
  ASSUME FewFaults, proc = <<>>, NEW s, NEW revert,
         "invalid_conn_handle" \in revert, "ok" \notin revert, Request(s, revert)
  PROVE  /\ UNCHANGED <<status, faults>>
         /\ state' = "READ" \/ (state' = "INIT" /\ link # "up")
  <1>1. PICK r \in GattResults :
          /\ CountFault(r)
          /\ \/ /\ r = "ok"
                /\ state' = "READ"
                /\ UNCHANGED status
             \/ /\ r \in revert
                /\ EnterInit
                /\ UNCHANGED status
             \/ r \notin revert \cup {"ok"}
    BY DEF Request
  <1>2. r = "ok" \/ (r = "invalid_conn_handle" /\ link # "up")
    BY <1>1, AnswersKnown
  <1>3. UNCHANGED faults
    BY <1>1, <1>2 DEF CountFault
  <1> QED
    BY <1>1, <1>2, <1>3 DEF EnterInit

LEMMA SubscribeRuns ==
  ASSUME FewFaults, link = "up", proc = <<>>, NEW i, SubscribeFrom(i)
  PROVE  UNCHANGED <<status, faults>> /\ state' \in {"SUBSCRIBE", "READ"}
  <1>1. CASE EnterRead
    <2>1. \/ UNCHANGED <<status, faults>> /\ state' = "READ"
          \/ \E s \in {FirstSensor(1, CanRead)} : Request(s, Refusals)
      BY <1>1 DEF EnterRead
    <2>2. "invalid_conn_handle" \in Refusals /\ "ok" \notin Refusals
      BY DEF Refusals
    <2>3. ASSUME NEW s, Request(s, Refusals)
          PROVE  UNCHANGED <<status, faults>> /\ state' = "READ"
      BY <2>2, <2>3, RequestRuns
    <2> QED
      BY <2>1, <2>3
  <1>2. CASE ~EnterRead
    <2>1. PICK r \in GattResults :
             CountFault(r) /\ state' = "SUBSCRIBE" /\ (r = "ok" => UNCHANGED status)
      BY <1>2 DEF SubscribeFrom
    <2>2. r = "ok"
      BY <2>1, AnswersKnown
    <2> QED
      BY <2>1, <2>2 DEF CountFault
  <1> QED
    BY <1>1, <1>2

\* A completion that is handled leaves no procedure under way.
LEMMA CompletedAlone ==
  ASSUME IInv, state # "INIT", Receive("completed")
  PROVE  proc = <<>>
  <1>1. Running /\ 1 \in 1..Len(inbox) /\ inbox[1].type = "completed"
    BY TakenInbox DEF IInv
  <1>2. ~inbox[1].stale
    BY <1>1 DEF IInv, Safe, NoStaleEvents
  <1>3. 1 \in Completions
    BY <1>1, <1>2 DEF Completions
  <1> QED
    BY <1>1, <1>3 DEF IInv, Safe, OneProcedure

\* A step that lists no service and takes no fault.
LEMMA FundsKept ==
  ASSUME HostTypeOK, Funded, UNCHANGED <<services, serviceIndex, faults, waited>>,
         state' \in {"INIT", "DISCOVERY", "CONNECT"} \/ link' = "down" =>
             state \in {"INIT", "DISCOVERY", "CONNECT"} \/ link = "down",
         state' = "DISCOVER_SERVICES" =>
             state = "DISCOVER_SERVICES" \/ (serviceIndex - 1 <= Used)
  PROVE  Funded'
  <1>1. Used' = Used
    BY UsedGrows DEF Funded
  <1> QED
    BY <1>1 DEF Funded

LEMMA HostRuns ==
  ASSUME FewFaults, IInv, LinkInv, SensorsRegistered, IndexFollows, Running, Funded,
         NEW off, Offsets(off), NEW list, Layout(Len(ServiceChars), off, list),
         Len(list) <= MaxChars, ServiceChars # <<>>,
         Len(ServiceChars) * (MaxFaults + 1) <= MaxServices,
         PlaceInv(off), HandleEvent
  PROVE  Running' /\ Funded'
  <1>1. CommandResults = {"ok"}
    BY AnswersKnown
  <1>2. CASE Boot \/ ThunderboardFound \/ OtherAdvertisement
    <2>1. CASE Boot
      <3>1. /\ UNCHANGED <<status, faults, services, serviceIndex, link>>
            /\ state = "INIT" /\ state' = "DISCOVERY" /\ waited' = 0
        BY <1>1, <2>1 DEF Boot, EnterDiscovery, CountFault, gattVars
      <3>2. waited' = waited
        BY <3>1 DEF Funded
      <3> QED
        BY <3>1, <3>2, FundsKept DEF Running, IInv
    <2>2. CASE ThunderboardFound \/ OtherAdvertisement
      <3>1. /\ UNCHANGED <<status, faults, services, serviceIndex, waited>>
            /\ state = "DISCOVERY" /\ state' \in {"DISCOVERY", "CONNECT"}
        BY <1>1, <2>2 DEF ThunderboardFound, OtherAdvertisement, EnterConnect, CountFault,
           gattVars, hostVars
      <3> QED
        BY <3>1, FundsKept DEF Running, IInv
    <2> QED
      BY <1>2, <2>1, <2>2
  <1>3. ~AdvertisementTimeout
    <2>1. ~TimedOut
      BY BoundAssumption DEF TimedOut, Funded
    <2> QED
      BY <2>1 DEF AdvertisementTimeout
  <1>4. CASE Opened
    <2>1. /\ state = "CONNECT" /\ Receive("opened") /\ state' = "DISCOVER_SERVICES"
          /\ Start(GattResults, ServicesProc)
          /\ UNCHANGED <<services, serviceIndex, waited, link>>
      BY <1>4 DEF Opened, EnterServices, gattVars
    <2>2. ~Absent({"opened"})
      BY <2>1, TakenAbsent DEF IInv
    <2>3. link = "up" /\ proc = <<>>
      <3>1. link = "up"
        BY <2>1, <2>2, BoundAssumption DEF LinkInv, FewFaults, IInv, HostTypeOK, LinkStates
      <3> QED
        BY <2>1, <3>1 DEF IInv, Safe, OneProcedure, GattStates
    <2>4. UNCHANGED <<status, faults>>
      BY <2>1, <2>3, StartRuns
    <2>5. serviceIndex - 1 <= Used
      <3>1. serviceIndex = Len(services) + 1 /\ Len(services) <= Used
        BY <2>1 DEF PlaceInv, Funded
      <3> QED
        BY <3>1 DEF IInv, HostTypeOK
    <2> QED
      BY <2>1, <2>3, <2>4, <2>5, FundsKept DEF Running, IInv
  <1>5. CASE Closed
    <2>1. /\ Receive("closed") /\ state # "INIT" /\ state' = "INIT"
          /\ UNCHANGED <<status, faults, services, serviceIndex, waited, link>>
      BY <1>5 DEF Closed, EnterInit, LinkStates, GattStates
    <2>2. link = "down"
      BY <2>1, TakenAbsent DEF LinkInv, IInv
    <2> QED
      BY <2>1, <2>2, FundsKept DEF Running, IInv
  <1>6. CASE ServiceFound
    <2>1. /\ state = "DISCOVER_SERVICES" /\ Receive("service") /\ state' = state
          /\ UNCHANGED <<serviceIndex, faults, waited, link, proc>>
      BY <1>6 DEF ServiceFound, ncpVars
    <2>2. PICK d \in 0..Len(ServiceChars) : ServicesSoFar(d)
      BY <2>1 DEF PlaceInv
    <2>3. d < Len(ServiceChars)
      <3>1. Stream(ServicesProc, d) /\ d \in Nat /\ "service" \in Report
        BY <2>2 DEF ServicesSoFar, Report
      <3>2. d + 1 \in 1..Len(ServicesProc) /\ ServicesProc[d + 1].type = "service"
        BY <2>1, <3>1, StreamNext, ServicesReported DEF IInv
      <3>3. d + 1 # Len(ServiceChars) + 1
        BY <3>2, ServicesReported, EvFields DEF Completed
      <3> QED
        BY <3>3, ServiceLength
    <2>4. /\ Len(services) = serviceIndex - 1 + d /\ serviceIndex - 1 <= Used
          /\ Len(services) \in Nat /\ serviceIndex \in Nat /\ d \in Nat
          /\ Len(ServiceChars) \in Nat /\ MaxServices \in Nat
      BY <2>1, <2>2, ServiceLength, BoundAssumption DEF ServicesSoFar, Funded, IInv, HostTypeOK
    <2>5. /\ Used \in Nat /\ Used' = Used
          /\ Used + Len(ServiceChars) <= Len(ServiceChars) * (MaxFaults + 1)
      BY <2>1, UsedGrows DEF Funded, IInv
    <2>6. Len(services) + 1 <= Used + Len(ServiceChars)
      BY <2>3, <2>4, <2>5
    <2>7. PICK top \in Int : top = Len(ServiceChars) * (MaxFaults + 1)
      BY <2>4, BoundAssumption
    <2>8. Len(services) # MaxServices
      BY <2>4, <2>5, <2>6, <2>7
    <2>9. services' = Append(services, Arg) /\ UNCHANGED status
      BY <1>6, <2>8 DEF ServiceFound
    <2>10. Len(services') = Len(services) + 1
      BY <2>9 DEF IInv, HostTypeOK
    <2>11. link = "up"
      BY <2>1 DEF LinkInv, DiscoveryStates
    <2> QED
      BY <2>1, <2>5, <2>6, <2>9, <2>10, <2>11 DEF Funded, Running
  <1>7. ASSUME NEW i \in Nat \ {0}, i <= Len(services), DiscoverChars(i), Receive("completed"),
               state \in {"DISCOVER_SERVICES", "DISCOVER_CHARACTERISTICS"},
               UNCHANGED <<services, waited, link>>
        PROVE  Running' /\ Funded'
    <2>1. services[i] \in ServiceIds /\ services[i] # 0
      <3>1. i \in 1..Len(services) /\ services \in Seq(ServiceIds)
        BY <1>7 DEF IInv, HostTypeOK
      <3> QED
        BY <3>1 DEF ServiceIds
    <2>2. state' = "DISCOVER_CHARACTERISTICS" /\ Start(GattResults, CharsProc(services[i]))
      BY <1>7, <2>1 DEF DiscoverChars
    <2>3. link = "up" /\ proc = <<>>
      BY <1>7, CompletedAlone DEF LinkInv, DiscoveryStates
    <2>4. UNCHANGED <<status, faults>>
      <3>1. \E events \in {CharsProc(services[i])} : Start(GattResults, events)
        BY <2>2
      <3> QED
        BY <2>3, <3>1, StartRuns
    <2>5. Used' = Used
      BY <2>4, UsedGrows DEF Funded, IInv
    <2> QED
      BY <1>7, <2>2, <2>3, <2>4, <2>5 DEF Funded, Running
  <1>8. CASE ServicesDiscovered
    <2>1. /\ state = "DISCOVER_SERVICES" /\ Receive("completed") /\ DiscoverChars(serviceIndex)
          /\ UNCHANGED <<services, waited, link>>
      BY <1>8 DEF ServicesDiscovered, gattVars
    <2>2. PICK d \in 0..Len(ServiceChars) : ServicesSoFar(d)
      BY <2>1 DEF PlaceInv
    <2>3. d = Len(ServiceChars)
      <3>1. Stream(ServicesProc, d) /\ d \in Nat
        BY <2>2 DEF ServicesSoFar
      <3>2. d + 1 = Len(ServicesProc)
        BY <2>1, <3>1, StreamEnds, ServicesReported DEF IInv
      <3> QED
        BY <3>1, <3>2, ServicesReported, ServiceLength
    <2>4. PICK i \in Nat \ {0} : i = serviceIndex
      BY DEF IInv, HostTypeOK
    <2>5. Len(ServiceChars) \in Nat \ {0}
      BY DeviceAssumption
    <2>6. i <= Len(services)
      BY <2>2, <2>3, <2>4, <2>5 DEF ServicesSoFar, IInv, HostTypeOK
    <2> QED
      BY <1>7, <2>1, <2>4, <2>6
  <1>9. CASE CharacteristicFound
    <2>1. /\ state = "DISCOVER_CHARACTERISTICS" /\ Receive("characteristic") /\ state' = state
          /\ UNCHANGED <<services, serviceIndex, faults, waited, link, proc>>
      BY <1>9 DEF CharacteristicFound, ncpVars
    <2>2. PICK m \in ServiceIds, d \in Nat : CharsSoFar(off, m, d)
      BY <2>1 DEF PlaceInv
    <2>3. d + 1 \in 1..Len(ServiceChars[m])
      <3>1. Stream(CharsProc(m), d) /\ "characteristic" \in Report
        BY <2>2 DEF CharsSoFar, Report
      <3>2. d + 1 \in 1..Len(CharsProc(m)) /\ CharsProc(m)[d + 1].type = "characteristic"
        BY <2>1, <3>1, StreamNext, CharsReported DEF IInv
      <3>3. d + 1 # Len(ServiceChars[m]) + 1
        BY <3>2, CharsReported, EvFields DEF Completed
      <3> QED
        BY <3>2, <3>3, ServiceLength, CharsReported
    <2>4. /\ charsLen = off[m - 1] + d /\ off[m - 1] \in Nat
          /\ off[m] = off[m - 1] + Len(ServiceChars[m]) /\ Len(ServiceChars[m]) \in Nat
      BY <2>2, OffsetOfService, ServiceLength DEF CharsSoFar, Offsets
    <2>5. off[m] <= Len(list) /\ Len(list) \in Nat
      BY ServiceLength DEF Layout
    <2>6. charsLen + 1 <= MaxChars /\ charsLen \in Nat /\ MaxChars \in Nat
      <3>1. off[m] \in Nat /\ d + 1 <= Len(ServiceChars[m]) /\ MaxChars \in Nat
        BY <2>3, <2>4, BoundAssumption
      <3>2. charsLen \in Nat /\ charsLen + 1 <= off[m]
        BY <2>4, <3>1, SMTT(30)
      <3>3. off[m] <= MaxChars
        BY <2>5, <3>1
      <3> QED
        BY <3>1, <3>2, <3>3
    <2>7. UNCHANGED status
      BY <1>9, <2>6 DEF CharacteristicFound
    <2> QED
      BY <2>1, <2>7, FundsKept DEF Running, IInv
  <1>10. CASE CharacteristicsDiscovered
    <2>1. /\ state = "DISCOVER_CHARACTERISTICS" /\ Receive("completed")
          /\ serviceIndex' = serviceIndex + 1 /\ serviceIndex \in Nat
          /\ UNCHANGED <<services, waited, link>>
      BY <1>10 DEF CharacteristicsDiscovered, IInv, HostTypeOK
    <2>2. CASE IsService(serviceIndex')
      <3>1. PICK i \in Nat \ {0} : i = serviceIndex + 1
        BY <2>1
      <3>2. DiscoverChars(i) /\ i <= Len(services)
        BY <1>10, <2>1, <2>2, <3>1 DEF CharacteristicsDiscovered, IsService
      <3> QED
        BY <1>7, <2>1, <3>2
    <2>3. CASE ~IsService(serviceIndex')
      <3>1. SubscribeFrom(1)
        BY <1>10, <2>3 DEF CharacteristicsDiscovered
      <3>2. link = "up" /\ proc = <<>>
        BY <2>1, CompletedAlone DEF LinkInv, DiscoveryStates, FewFaults
      <3>3. UNCHANGED <<status, faults>> /\ state' \in {"SUBSCRIBE", "READ"}
        BY <3>1, <3>2, SubscribeRuns
      <3>4. Used' = Used
        BY <3>3, UsedGrows DEF Funded, IInv
      <3> QED
        BY <2>1, <3>2, <3>3, <3>4 DEF Funded, Running
    <2> QED
      BY <2>2, <2>3
  <1>11. CASE Subscribed
    <2>1. /\ state = "SUBSCRIBE" /\ Receive("completed")
          /\ \E i \in {subIndex} : SubscribeFrom(i)
          /\ UNCHANGED <<services, serviceIndex, waited, link>>
      BY <1>11 DEF Subscribed
    <2>2. link = "up" /\ proc = <<>>
      BY <2>1, CompletedAlone DEF LinkInv, DiscoveryStates, FewFaults
    <2>3. UNCHANGED <<status, faults>> /\ state' \in {"SUBSCRIBE", "READ"}
      BY <2>1, <2>2, SubscribeRuns
    <2> QED
      BY <2>1, <2>2, <2>3, FundsKept DEF Running, IInv
  <1>12. CASE ValueReceived
    <2>1. /\ state = "READ" /\ state' = state
          /\ UNCHANGED <<services, serviceIndex, faults, waited, link>>
      BY <1>12 DEF ValueReceived, gattVars, ncpVars
    <2>2. \A s \in Sensors : sensors[s] # Null
      BY <2>1 DEF SensorsRegistered
    <2>3. UNCHANGED status
      BY <1>12, <2>2 DEF ValueReceived
    <2> QED
      BY <2>1, <2>3, FundsKept DEF Running, IInv
  <1>13. CASE RequestNext \/ Refresh
    <2>1. /\ state = "READ" /\ Receive("completed")
          /\ \/ \E s \in {FirstSensor(readIndex, CanRead)} :
                    Request(s, {"invalid_conn_handle"})
             \/ Request(1, Refusals)
          /\ UNCHANGED <<services, serviceIndex, waited, link>>
      BY <1>13 DEF RequestNext, Refresh, RoundEnded
    <2>2. PICK s, revert :
             /\ Request(s, revert)
             /\ "invalid_conn_handle" \in revert /\ "ok" \notin revert
      <3>1. "invalid_conn_handle" \in Refusals /\ "ok" \notin Refusals
        BY DEF Refusals
      <3> QED
        BY <2>1, <3>1
    <2>3. proc = <<>> /\ link # "connecting"
      BY <2>1, CompletedAlone DEF LinkInv, DiscoveryStates, FewFaults
    <2>4. /\ UNCHANGED <<status, faults>>
          /\ state' = "READ" \/ (state' = "INIT" /\ link = "down")
      BY <2>2, <2>3, RequestRuns DEF IInv, HostTypeOK
    <2> QED
      BY <2>1, <2>4, FundsKept DEF Running, IInv
  <1>14. ~RefreshCrash
    BY DeviceAssumption DEF RefreshCrash, RoundEnded, SensorsRegistered, Sensors
  <1>15. CASE Ignore
    BY <1>15, FundsKept DEF Ignore, hostVars, gattVars, ncpVars, Running, IInv
  <1> QED
    BY <1>2, <1>3, <1>4, <1>5, <1>6, <1>8, <1>9, <1>10, <1>11, <1>12, <1>13, <1>14, <1>15
    DEF HandleEvent

LEMMA EnvironmentRuns ==
  ASSUME FewFaults, IInv, LinkInv, Running, Funded, Environment
  PROVE  Running' /\ Funded'
  <1>1. UNCHANGED <<state, status, services, serviceIndex>>
    BY DEF Environment, Reset, Advertise, OpenConnection, OtherEvent, Progress,
           Notify, OpenFails, LoseConnection, Disconnect, AttError, DropEvent, Tick,
           hostVars, gattVars
  <1>2. ~DropEvent /\ ~Tick
    BY DEF DropEvent, Tick, FewFaults
  <1>3. CASE Reset
    <2>1. UNCHANGED <<faults, waited>> /\ state = "INIT"
      BY <1>3 DEF Reset, IInv, Safe, BootInv
    <2> QED
      BY <1>1, <2>1, FundsKept DEF Running, IInv
  <1>4. CASE OpenFails \/ LoseConnection \/ AttError
    <2>1. faults > 0 /\ faults' = faults - 1 /\ UNCHANGED waited
      BY <1>4 DEF OpenFails, LoseConnection, Disconnect, AttError
    <2>2. /\ Used \in Nat /\ Used' = Used + Len(ServiceChars) /\ Len(ServiceChars) \in Nat
      BY <2>1, UsedGrows, ServiceLength DEF Funded, IInv
    <2>3. /\ faults \in Nat /\ MaxFaults \in Nat /\ Len(services) \in Nat /\ serviceIndex \in Nat
      BY BoundAssumption DEF IInv, HostTypeOK
    <2> QED
      BY <1>1, <2>1, <2>2, <2>3 DEF Funded, Running
  <1>5. CASE OpenConnection \/ OtherEvent \/ Progress
             \/ (\E match \in {0, 1} : Advertise(match)) \/ (\E h \in Notifying : Notify(h))
    <2>1. UNCHANGED <<faults, waited>> /\ (link' = link \/ link' = "up")
      BY <1>5 DEF OpenConnection, OtherEvent, Progress, Advertise, Notify, ncpVars
    <2> QED
      BY <1>1, <2>1, FundsKept DEF Running, IInv
  <1> QED
    BY <1>2, <1>3, <1>4, <1>5 DEF Environment

\* Every peripheral with all the sensors is read for ever: as long as connections
\* fail to open, or are lost or answered with an error only while sensor values are
\* read, no more than MaxFaults times in all, and the list of the services has room
\* for those of each connection, that of the characteristics for those of one, no
\* handler stops the loop of main.
THEOREM MainLoopRuns ==
  ASSUME Faults \subseteq {"connect", "loss", "att"}, FaultStates \subseteq {"READ"},
         \A s \in Sensors : \E m \in ServiceIds : \E j \in 1..Len(ServiceChars[m]) :
             Uuid[ServiceChars[m][j]] = s,
         Len(ServiceChars) * (MaxFaults + 1) <= MaxServices,
         NEW off \in [0..Len(ServiceChars) -> Nat], off[0] = 0,
         \A m \in ServiceIds : off[m] = off[m - 1] + Len(ServiceChars[m]),
         off[Len(ServiceChars)] <= MaxChars
  PROVE  Spec => []KeepsRunning
  <1>1. Offsets(off) /\ FewFaults /\ LateFaults
    BY DEF Offsets, FewFaults, LateFaults, DiscoveryStates
  <1>2. ServiceChars # <<>>
    <2>1. 1 \in Sensors
      BY DeviceAssumption DEF Sensors
    <2> QED
      BY <2>1, ServiceLength
  <1>3. PICK list : Layout(Len(ServiceChars), off, list)
    BY <1>1, ListExists
  <1>4. Len(list) <= MaxChars
    BY <1>3 DEF Layout
  <1>5. Complete
    BY DEF Complete, Has
  <1> DEFINE Place == LinkInv /\ PlaceInv(off) /\ ListInv(list) /\ RegInv
             Live == Running /\ Funded
  <1>6. Init => Place /\ Live
    <2>1. Init => RegInv
      BY DEF Init, RegInv, ServicesFound, CharsFound, IndexFollows, SensorsRegistered
    <2>2. Init => Live
      <3> SUFFICES ASSUME Init PROVE Live
        OBVIOUS
      <3>1. /\ faults = MaxFaults /\ waited = 0 /\ Len(services) = 0 /\ state = "INIT"
        BY DEF Init
      <3>2. Used \in Nat /\ faults <= MaxFaults
        BY <3>1, InitIInv, UsedGrows, BoundAssumption DEF IInv
      <3> QED
        BY <3>1, <3>2, ServiceLength DEF Init, Running, Funded
    <2> QED
      BY <2>1, <2>2, InitLink, InitPlaces
  <1>7. IInv /\ IInv' /\ Place /\ [Next]_vars => Place'
    BY <1>1, <1>2, <1>3, <1>5, NextKeepsLink, NextPlaces, NextRegisters
  <1>8. IInv /\ Place /\ Live /\ [Next]_vars => Live'
    <2> SUFFICES ASSUME IInv, Place, Live, [Next]_vars PROVE Live'
      OBVIOUS
    <2>1. CASE HandleEvent
      BY <1>1, <1>2, <1>3, <1>4, <2>1, HostRuns DEF RegInv
    <2>2. CASE Environment
      BY <1>1, <2>2, EnvironmentRuns
    <2>3. CASE Upload \/ TakeJob \/ UNCHANGED vars
      BY <2>3, FundsKept DEF Upload, TakeJob, vars, hostVars, gattVars, ncpVars, Running, IInv
    <2> QED
      BY <2>1, <2>2, <2>3 DEF Next, Stopped
  <1>9. Live => KeepsRunning
    BY DEF KeepsRunning
  <1> HIDE DEF Place, Live
  <1> QED
    BY <1>6, <1>7, <1>8, <1>9, Invariance, PTL DEF Spec

-----------------------------------------------------------------------------
(* The values of a round. *)

\* A sensor that notifies is not read as well, and the first one, which each round
\* reads without a look at its properties, does not notify.
QuietSensors == \A h \in Notifying : Uuid[h] # 0 => h \notin Readable /\ Uuid[h] # 1

\* Characteristic h is that of a sensor whose values come unasked.
Pushed(h) == h \in Notifying /\ Uuid[h] # 0

\* Event i is the answer to the last request.
Requested(i) == inbox[i].type = "value" /\ inbox[i].arg = lastRequested

\* The last request is for the sensor the round has come to.
Awaited ==
    readIndex \in Sensors /\ sensors[readIndex] # Null /\ Handle(readIndex) = lastRequested

\* The answer to the last request comes once at most, before the completion of its
\* procedure; the other values are notifications.
Arriving ==
    /\ \A i \in 1..Len(inbox) :
          inbox[i].type = "value" => Pushed(inbox[i].arg) \/ Requested(i)
    /\ \A i \in 1..Len(inbox) : Requested(i) =>
          /\ Awaited
          /\ \A j \in 1..Len(inbox) : Requested(j) \/ inbox[j].type = "completed" => i <= j
          /\ \A k \in 1..Len(proc) : proc[k].type # "value"
    /\ \A k \in 1..Len(proc) :
          proc[k].type = "value" => k = 1 /\ proc[k].arg = lastRequested /\ Awaited

\* The round has a value of each readable sensor it has passed.
ReadSoFar == \A s \in 1..readIndex - 1 : CanRead(s) => reading[sensors[s]] = s

OnlyPushed == \A i \in 1..Len(inbox) : inbox[i].type = "value" => Pushed(inbox[i].arg)

ReadInv ==
    /\ \A h \in subscribed : Pushed(h)
    /\ ~Pushed(lastRequested)
    /\ Running /\ state \notin {"INIT", "READ"} =>
           OnlyPushed /\ \A k \in 1..Len(proc) : proc[k].type # "value"
    /\ Running /\ state = "READ" => Arriving /\ ReadSoFar

\* No readable sensor is passed over.
LEMMA FirstIsLeast ==
  ASSUME NEW i \in 1..NumSensors + 1, NEW s \in i..NumSensors, CanRead(s)
  PROVE  FirstSensor(i, CanRead) <= s
  <1> DEFINE S == {x \in i..NumSensors : CanRead(x)} \cup {NumSensors + 1}
  <1>1. NumSensors + 1 \in Nat
    BY DeviceAssumption
  <1>2. S \subseteq 1..NumSensors + 1 /\ S # {} /\ s \in S
    BY DeviceAssumption
  <1>3. \A x \in S : Min(S) <= x
    BY <1>1, <1>2, MinIsLeast, Zenon
  <1> QED
    BY <1>2, <1>3 DEF FirstSensor

\* get_characteristic_by_handle stops at the first null pointer or match.
LEMMA SensorFound ==
  ASSUME NEW h
  PROVE  /\ SensorOfHandle(h) \in 1..NumSensors + 1
         /\ SensorOfHandle(h) \in Sensors =>
                sensors[SensorOfHandle(h)] = Null \/ Handle(SensorOfHandle(h)) = h
         /\ \A s \in Sensors : Handle(s) = h => SensorOfHandle(h) <= s
  <1> DEFINE S == {s \in 1..NumSensors : sensors[s] = Null \/ Handle(s) = h}
                  \cup {NumSensors + 1}
  <1>1. NumSensors + 1 \in Nat /\ NumSensors + 1 \notin Sensors
    BY DeviceAssumption DEF Sensors
  <1>2. S \subseteq 1..NumSensors + 1 /\ S # {}
    BY DeviceAssumption
  <1>3. Min(S) \in S /\ \A x \in S : Min(S) <= x
    BY <1>1, <1>2, MinIsLeast, Zenon
  <1>4. SensorOfHandle(h) = Min(S)
    BY DEF SensorOfHandle, FirstSensor
  <1>5. \A s \in Sensors : Handle(s) = h => s \in S
    BY DEF Sensors
  <1> QED
    BY <1>1, <1>2, <1>3, <1>4, <1>5

\* What a sensor pointer leads to.
LEMMA SensorUuid ==
  ASSUME HostTypeOK, Running, NEW list, ListInv(list), NEW s \in Sensors, sensors[s] # Null
  PROVE  /\ Handle(s) \in Handles /\ Uuid[Handle(s)] = s /\ s # 0
         /\ sensors[s] \in 1..MaxChars
  <1>1. sensors[s] \in 1..MaxChars /\ s # 0
    <2>1. sensors \in [Sensors -> 0..MaxChars] /\ MaxChars \in Nat
      BY BoundAssumption DEF HostTypeOK
    <2> QED
      BY <2>1, DeviceAssumption DEF Null, Sensors
  <1>2. chars[sensors[s]] \in Handles \cup {Null} /\ chars[sensors[s]] # Null
    BY <1>1 DEF HostTypeOK, ListInv
  <1> QED
    BY <1>1, <1>2 DEF ListInv, Handle

\* The procedures of the discovery, and a subscription, report no values.
LEMMA NoValuesFound ==
  /\ \A k \in 1..Len(ServicesProc) : ServicesProc[k].type # "value"
  /\ \A s : \A k \in 1..Len(CharsProc(s)) : CharsProc(s)[k].type # "value"
  /\ \A k \in 1..Len(<<Completed>>) : <<Completed>>[k].type # "value"
  <1>1. \A k \in 1..Len(<<Completed>>) : <<Completed>>[k].type # "value"
    BY DEF Completed, Ev
  <1>2. ASSUME NEW s, NEW k \in 1..Len(CharsProc(s)) PROVE CharsProc(s)[k].type # "value"
    <2>1. CASE s \in ServiceIds
      BY <1>2, <2>1, CharsReported
    <2>2. CASE s \notin ServiceIds
      BY <1>1, <1>2, <2>2 DEF CharsProc
    <2> QED
      BY <2>1, <2>2
  <1> QED
    BY <1>1, <1>2, ServicesReported

\* A read reports the value first.
LEMMA ValueFirst ==
  ASSUME NEW h, NEW k \in 1..Len(ReadProc(h)), ReadProc(h)[k].type = "value"
  PROVE  k = 1 /\ ReadProc(h)[k].arg = h
  <1>1. Completed.type # "value" /\ Ev("value", h).arg = h
    BY DEF Completed, Ev
  <1>2. CASE h \in Readable
    <2> DEFINE P == <<Ev("value", h), Completed>>
    <2>1. Len(P) = 2 /\ P[1] = Ev("value", h) /\ P[2] = Completed
      OBVIOUS
    <2>2. ReadProc(h) = P
      BY <1>2 DEF ReadProc
    <2> HIDE DEF P
    <2>3. k = 1 \/ k = 2
      BY <2>1, <2>2
    <2> QED
      BY <1>1, <2>1, <2>2, <2>3
  <1>3. CASE h \notin Readable
    <2>1. ReadProc(h) = <<Completed>>
      BY <1>3 DEF ReadProc
    <2> QED
      BY <1>1, <2>1
  <1> QED
    BY <1>2, <1>3

LEMMA TakenPushed ==
  ASSUME HostTypeOK, NEW type, Receive(type), OnlyPushed
  PROVE  OnlyPushed'
  <1>1. \A i \in 1..Len(inbox') : i + 1 \in 1..Len(inbox) /\ inbox'[i] = inbox[i + 1]
    BY TakenInbox
  <1> QED
    BY <1>1 DEF OnlyPushed, Pushed

\* A step of the host that neither enters READ nor takes place in it.
LEMMA TakenReads ==
  ASSUME HostTypeOK, ReadInv, NEW type, Receive(type), state # "INIT",
         state' # "READ", UNCHANGED <<subscribed, lastRequested>>,
         state' = "INIT" \/
            (state # "READ" /\ \A k \in 1..Len(proc') : proc'[k].type # "value")
  PROVE  ReadInv'
  <1>1. Running
    BY DEF Receive, Running
  <1>2. state' # "INIT" => OnlyPushed'
    BY <1>1, TakenPushed DEF ReadInv
  <1>3. /\ \A h \in subscribed' : Pushed(h)
        /\ ~Pushed(lastRequested')
    BY DEF ReadInv
  <1> QED
    BY <1>2, <1>3 DEF ReadInv, Pushed

\* A new request: the values on their way are no answers to it.
LEMMA RequestReads ==
  ASSUME NEW s \in Sensors, sensors[s] # Null, ~Pushed(Handle(s)),
         NEW revert, Request(s, revert),
         readIndex' = s, UNCHANGED <<chars, sensors>>, proc = <<>>,
         \A h \in subscribed' : Pushed(h), OnlyPushed', ReadSoFar'
  PROVE  ReadInv'
  <1>1. /\ lastRequested' = Handle(s) /\ state' \in {"READ", "INIT"}
        /\ proc' = <<>> \/ proc' = ReadProc(Handle(s))
    BY DEF Request, EnterInit
  <1>2. Awaited'
    BY <1>1 DEF Awaited, Handle
  <1>3. \A k \in 1..Len(proc') :
           proc'[k].type = "value" => k = 1 /\ proc'[k].arg = lastRequested'
    <2>1. PICK h : h = Handle(s)
      OBVIOUS
    <2>2. CASE proc' = <<>>
      BY <2>2
    <2>3. CASE proc' = ReadProc(h)
      BY <1>1, <2>1, <2>3, ValueFirst
    <2> QED
      BY <1>1, <2>1, <2>2, <2>3
  <1>4. ~Pushed(lastRequested') /\ ~Pushed(lastRequested)'
    BY <1>1 DEF Pushed
  <1>5. \A i \in 1..Len(inbox') : ~Requested(i)'
    BY <1>4 DEF Requested, OnlyPushed, Pushed
  <1>6. Arriving'
    BY <1>2, <1>3, <1>5 DEF Arriving, OnlyPushed
  <1>7. \A h \in subscribed' : Pushed(h)'
    BY DEF Pushed
  <1> QED
    BY <1>1, <1>4, <1>6, <1>7 DEF ReadInv

\* What is asked for is read, and what is subscribed to is pushed.
LEMMA ReadNotPushed ==
  ASSUME QuietSensors, HostTypeOK, Running, NEW list, ListInv(list), NEW s \in Sensors,
         sensors[s] # Null, CanRead(s) \/ s = 1
  PROVE  ~Pushed(Handle(s))
  BY SensorUuid DEF QuietSensors, Pushed, CanRead

LEMMA SubscribedPushed ==
  ASSUME HostTypeOK, Running, NEW list, ListInv(list), NEW s \in Sensors, CanSubscribe(s)
  PROVE  Pushed(Handle(s))
  BY SensorUuid DEF Pushed, CanSubscribe

\* The subscriptions, and the first request of a round that follows them.
LEMMA SubscribeReads ==
  ASSUME QuietSensors, IInv, NEW list, ListInv(list), ReadInv, Receive("completed"),
         state \in {"DISCOVER_CHARACTERISTICS", "SUBSCRIBE"},
         NEW i \in 1..NumSensors + 1, SubscribeFrom(i), UNCHANGED <<chars, sensors, reading>>
  PROVE  ReadInv'
  <1>1. Running /\ HostTypeOK
    BY DEF Receive, Running, IInv
  <1>2. OnlyPushed' /\ proc = <<>>
    BY <1>1, TakenPushed, CompletedAlone DEF ReadInv
  <1>3. CASE ~EnterRead
    <2>1. PICK s \in 1..NumSensors + 1 : s = FirstSensor(i, CanSubscribe)
      BY FirstSubscribable
    <2>2. /\ s \in Sensors /\ CanSubscribe(s)
          /\ state' = "SUBSCRIBE" /\ lastRequested' = lastRequested
      BY <1>3, <2>1, FirstSubscribable DEF SubscribeFrom
    <2>3. PICK r \in GattResults :
             IF r = "ok"
             THEN proc' = <<Completed>> /\ subscribed' = subscribed \cup {Handle(s)}
             ELSE UNCHANGED <<proc, subscribed>>
      BY <1>3, <2>1 DEF SubscribeFrom
    <2>4. \A h \in subscribed' : Pushed(h)
      BY <1>1, <2>2, <2>3, SubscribedPushed DEF ReadInv
    <2>5. \A k \in 1..Len(proc') : proc'[k].type # "value"
      <3>1. CASE r = "ok"
        BY <2>3, <3>1, NoValuesFound
      <3>2. CASE r # "ok"
        BY <1>2, <2>3, <3>2
      <3> QED
        BY <3>1, <3>2
    <2>6. ~Pushed(lastRequested')
      BY <2>2 DEF ReadInv
    <2> QED
      BY <1>2, <2>2, <2>4, <2>5, <2>6 DEF ReadInv, Pushed
  <1>4. CASE EnterRead
    <2>0. 1 \in 1..NumSensors + 1
      BY DeviceAssumption
    <2>1. PICK s \in 1..NumSensors + 1 : s = FirstSensor(1, CanRead)
      BY <2>0, FirstReadable
    <2>2. readIndex' = s /\ (s \in Sensors => CanRead(s))
      <3>1. readIndex' = s
        BY <1>4, <2>1 DEF EnterRead
      <3> QED
        BY <2>0, <2>1, <3>1, FirstReadable
    <2>3. subscribed' = subscribed
      <3>1. CASE FirstSensor(i, CanSubscribe) \notin Sensors
        BY <3>1 DEF SubscribeFrom
      <3>2. CASE FirstSensor(i, CanSubscribe) \in Sensors
        <4>1. state' = "SUBSCRIBE"
          BY <3>2 DEF SubscribeFrom
        <4>2. state' # "SUBSCRIBE"
          BY <1>1, <1>4, EnterReadOutcome
        <4> QED
          BY <4>1, <4>2
      <3> QED
        BY <3>1, <3>2
    <2>4. \A h \in subscribed' : Pushed(h)
      BY <2>3 DEF ReadInv
    <2>5. \A x \in 1..s - 1 : ~CanRead(x)
      <3> SUFFICES ASSUME NEW x \in 1..s - 1, CanRead(x) PROVE FALSE
        OBVIOUS
      <3>1. x \in 1..NumSensors /\ 1 \in 1..NumSensors + 1 /\ x < s
        BY DeviceAssumption
      <3>2. s <= x
        BY <2>1, <3>1, FirstIsLeast
      <3> QED
        BY <3>1, <3>2
    <2>6. ReadSoFar'
      BY <2>2, <2>5 DEF ReadSoFar, CanRead, Handle
    <2>7. CASE s \in Sensors
      <3>1. /\ Request(s, Refusals) /\ sensors[s] # Null
            /\ ~Pushed(Handle(s))
        BY <1>1, <1>4, <2>1, <2>2, <2>7, ReadNotPushed DEF EnterRead, CanRead
      <3> QED
        BY <1>2, <2>2, <2>4, <2>6, <2>7, <3>1, RequestReads
    <2>8. CASE s \notin Sensors
      <3>1. state' = "READ" /\ UNCHANGED <<lastRequested, proc>>
        BY <1>4, <2>1, <2>8 DEF EnterRead
      <3>2. ~Pushed(lastRequested')
        BY <3>1 DEF ReadInv
      <3>3. \A j \in 1..Len(inbox') : ~Requested(j)'
        BY <1>2, <3>2 DEF Requested, OnlyPushed, Pushed
      <3>4. Arriving'
        BY <1>2, <3>1, <3>3 DEF Arriving, OnlyPushed
      <3> QED
        BY <2>4, <2>6, <3>1, <3>2, <3>4 DEF ReadInv, Pushed
    <2> QED
      BY <2>7, <2>8
  <1> QED
    BY <1>3, <1>4

\* An event that is no answer to the last request leaves the answer on its way.
LEMMA ArrivingTaken ==
  ASSUME HostTypeOK, Arriving, NEW type, Receive(type),
         type = "value" => ~Requested(1),
         UNCHANGED <<chars, sensors, readIndex, lastRequested, proc>>
  PROVE  Arriving'
  <1>1. /\ \A i \in 1..Len(inbox') : i \in Nat /\ i + 1 \in 1..Len(inbox)
                                   /\ inbox'[i] = inbox[i + 1]
    BY TakenInbox
  <1>2. \A i \in 1..Len(inbox') : Requested(i)' <=> Requested(i + 1)
    BY <1>1 DEF Requested
  <1>3. Awaited' <=> Awaited
    BY DEF Awaited, Handle
  <1>4. \A i \in 1..Len(inbox') :
           inbox'[i].type = "value" => Pushed(inbox'[i].arg) \/ Requested(i)'
    BY <1>1, <1>2 DEF Arriving
  <1>5. ASSUME NEW i \in 1..Len(inbox'), Requested(i)'
        PROVE  /\ Awaited'
               /\ \A j \in 1..Len(inbox') :
                     Requested(j)' \/ inbox'[j].type = "completed" => i <= j
               /\ \A k \in 1..Len(proc') : proc'[k].type # "value"
    <2>1. Requested(i + 1) /\ i + 1 \in 1..Len(inbox)
      BY <1>1, <1>2, <1>5
    <2>2. Awaited /\ \A k \in 1..Len(proc) : proc[k].type # "value"
      BY <2>1 DEF Arriving
    <2>3. ASSUME NEW j \in 1..Len(inbox'), Requested(j)' \/ inbox'[j].type = "completed"
          PROVE  i <= j
      <3>1. j + 1 \in 1..Len(inbox) /\ (Requested(j + 1) \/ inbox[j + 1].type = "completed")
        BY <1>1, <1>2, <2>3
      <3>2. i + 1 <= j + 1
        BY <2>1, <3>1 DEF Arriving
      <3> QED
        BY <3>2
    <2> QED
      BY <1>3, <2>2, <2>3
  <1>6. \A k \in 1..Len(proc') :
           proc'[k].type = "value" => k = 1 /\ proc'[k].arg = lastRequested' /\ Awaited'
    BY <1>3 DEF Arriving
  <1> QED
    BY <1>4, <1>5, <1>6 DEF Arriving, Pushed

\* The answer completes the round up to its sensor; the others leave it alone.
LEMMA ValueReads ==
  ASSUME IInv, NEW list, ListInv(list), ReadInv, ValueReceived
  PROVE  ReadInv'
  <1> SUFFICES ASSUME Running' PROVE ReadInv'
    BY DEF ReadInv, ValueReceived, gattVars, ncpVars, Pushed
  <1>1. /\ state = "READ" /\ state' = "READ" /\ Receive("value") /\ HostTypeOK /\ Running
        /\ UNCHANGED <<chars, sensors, lastRequested, proc, subscribed>>
    BY DEF ValueReceived, gattVars, ncpVars, Receive, Running, IInv
  <1>2. PICK s \in 1..NumSensors + 1, h \in Handles : s = SensorOfHandle(h) /\ h = Arg
    BY <1>1, HeadArg, SensorFound
  <1>3. /\ s \in Sensors => sensors[s] # Null /\ Handle(s) = h
        /\ \A t \in Sensors : Handle(t) = h => s <= t
        /\ IF s \in Sensors
           THEN /\ reading' = [reading EXCEPT ![sensors[s]] = Uuid[h]]
                /\ readIndex' = AfterValue(h)
           ELSE UNCHANGED <<reading, readIndex>>
    <2>1. ~(s \in Sensors /\ sensors[s] = Null)
      BY <1>2 DEF ValueReceived, Running
    <2>2. /\ s \in Sensors => sensors[s] = Null \/ Handle(s) = h
          /\ \A t \in Sensors : Handle(t) = h => s <= t
      BY <1>2, SensorFound
    <2> QED
      BY <1>2, <2>1, <2>2 DEF ValueReceived
  <1>4. /\ readIndex \in 1..NumSensors + 1 /\ NumSensors \in Nat /\ 1..readIndex - 1 \subseteq Sensors
        /\ reading \in [1..MaxChars -> Sensors \cup {Null}]
    BY <1>1, DeviceAssumption DEF HostTypeOK, Sensors
  <1>5. ASSUME s \in Sensors
        PROVE  /\ Uuid[h] = s /\ reading'[sensors[s]] = s
               /\ \A t \in Sensors : sensors[t] # Null /\ t # s =>
                      reading'[sensors[t]] = reading[sensors[t]]
    <2>1. Uuid[h] = s /\ sensors[s] \in 1..MaxChars
      BY <1>1, <1>3, <1>5, SensorUuid
    <2>2. \A t \in Sensors : sensors[t] # Null /\ t # s => sensors[t] # sensors[s]
      BY <1>1, <1>3, <1>5, <2>1, SensorUuid DEF Handle
    <2>3. \A t \in Sensors : sensors[t] # Null => sensors[t] \in 1..MaxChars
      BY <1>1, SensorUuid
    <2> QED
      BY <1>3, <1>4, <1>5, <2>1, <2>2, <2>3
  <1>6. Arg = inbox[1].arg /\ 1 \in 1..Len(inbox) /\ inbox[1].type = "value"
    <2>1. inbox \in Seq(Event) /\ inbox # <<>>
      BY <1>1 DEF HostTypeOK, Receive
    <2>2. Head(inbox) = inbox[1]
      BY <2>1
    <2> QED
      BY <1>1, <2>2, TakenInbox DEF Arg
  <1>7. Requested(1) <=> h = lastRequested
    BY <1>2, <1>6 DEF Requested
  <1>8. Arriving /\ ReadSoFar /\ ~Pushed(lastRequested)
    BY <1>1 DEF ReadInv
  <1>9. CASE h = lastRequested
    <2>1. /\ Awaited
          /\ \A j \in 1..Len(inbox) : Requested(j) => 1 <= j
          /\ \A j \in 1..Len(inbox) : Requested(j) => j <= 1
          /\ \A k \in 1..Len(proc) : proc[k].type # "value"
      <3>1. Requested(1)
        BY <1>7, <1>9
      <3> QED
        BY <1>6, <1>8, <3>1 DEF Arriving
    <2>2. s = readIndex /\ s \in Sensors
      <3>1. readIndex \in Sensors /\ sensors[readIndex] # Null /\ Handle(readIndex) = h
        BY <1>9, <2>1 DEF Awaited
      <3>2. s <= readIndex
        BY <1>3, <3>1
      <3>3. s \in Sensors
        BY <1>4, <3>1, <3>2 DEF Sensors
      <3>4. Uuid[h] = readIndex
        BY <1>1, <3>1, SensorUuid
      <3> QED
        BY <1>5, <3>3, <3>4
    <2>3. readIndex' = readIndex + 1
      BY <1>3, <1>9, <2>2 DEF AfterValue
    <2>4. ReadSoFar'
      <3> SUFFICES ASSUME NEW t \in 1..readIndex' - 1, CanRead(t)
                   PROVE  reading'[sensors[t]] = t
        BY <1>1 DEF ReadSoFar, CanRead, Handle
      <3>1. CASE t = s
        BY <1>5, <2>2, <3>1
      <3>2. CASE t # s
        <4>1. t \in 1..readIndex - 1 /\ t \in Sensors /\ sensors[t] # Null
          BY <1>4, <2>2, <2>3, <3>2 DEF CanRead
        <4>2. reading[sensors[t]] = t
          BY <1>8, <4>1 DEF ReadSoFar
        <4> QED
          BY <1>5, <2>2, <3>2, <4>1, <4>2
      <3> QED
        BY <3>1, <3>2
    <2>5. /\ \A i \in 1..Len(inbox') : i \in Nat /\ i + 1 \in 1..Len(inbox) /\ i + 1 # 1
                                     /\ inbox'[i] = inbox[i + 1]
          /\ 1..Len(inbox) \subseteq Nat
      BY <1>1, TakenInbox
    <2>6. \A i \in 1..Len(inbox') : ~Requested(i)'
      <3> SUFFICES ASSUME NEW i \in 1..Len(inbox'), Requested(i)' PROVE FALSE
        OBVIOUS
      <3>1. Requested(i + 1)
        BY <1>1, <2>5 DEF Requested
      <3>2. i + 1 <= 1 /\ i \in Nat
        BY <2>1, <2>5, <3>1
      <3> QED
        BY <2>5, <3>2
    <2>7. OnlyPushed'
      <3> SUFFICES ASSUME NEW i \in 1..Len(inbox'), inbox'[i].type = "value"
                   PROVE  Pushed(inbox'[i].arg)
        BY DEF OnlyPushed, Pushed
      <3>1. Pushed(inbox[i + 1].arg) \/ Requested(i + 1)
        BY <1>8, <2>5 DEF Arriving
      <3>2. ~Requested(i + 1)
        BY <1>1, <2>5, <2>6 DEF Requested
      <3> QED
        BY <2>5, <3>1, <3>2
    <2>8. Arriving'
      BY <1>1, <2>1, <2>6, <2>7 DEF Arriving, OnlyPushed
    <2> QED
      BY <1>1, <2>4, <2>8 DEF ReadInv, Pushed
  <1>10. CASE h # lastRequested
    <2>1. readIndex' = readIndex
      BY <1>3, <1>10 DEF AfterValue
    <2>2. ReadSoFar'
      <3> SUFFICES ASSUME NEW t \in 1..readIndex - 1, CanRead(t)
                   PROVE  reading'[sensors[t]] = t
        BY <1>1, <2>1 DEF ReadSoFar, CanRead, Handle
      <3>1. reading[sensors[t]] = t /\ t \in Sensors /\ sensors[t] # Null
        BY <1>4, <1>8 DEF ReadSoFar, CanRead
      <3> QED
        BY <1>3, <1>5, <3>1
    <2>3. Arriving'
      BY <1>1, <1>7, <1>8, <1>10, <2>1, ArrivingTaken
    <2> QED
      BY <1>1, <2>2, <2>3 DEF ReadInv, Pushed
  <1> QED
    BY <1>9, <1>10

\* What is on its way when a read has been completed.
LEMMA AllAnswered ==
  ASSUME IInv, ReadInv, state = "READ", Receive("completed")
  PROVE  OnlyPushed'
  <1>1. Running /\ Arriving
    BY DEF Receive, Running, ReadInv
  <1>2. 1 \in 1..Len(inbox) /\ inbox[1].type = "completed"
    BY TakenInbox DEF IInv
  <1>3. \A i \in 1..Len(inbox) : ~Requested(i)
    <2> SUFFICES ASSUME NEW i \in 1..Len(inbox), Requested(i) PROVE FALSE
      OBVIOUS
    <2>1. i <= 1
      BY <1>1, <1>2 DEF Arriving
    <2>2. i = 1
      BY <2>1
    <2> QED
      BY <1>2, <2>2 DEF Requested
  <1>4. OnlyPushed
    BY <1>1, <1>3 DEF Arriving, OnlyPushed
  <1> QED
    BY <1>4, TakenPushed DEF IInv

\* The next read of a round passes over the sensors that are not readable.
LEMMA RequestNextReads ==
  ASSUME QuietSensors, IInv, NEW list, ListInv(list), ReadInv, RequestNext
  PROVE  ReadInv'
  <1>1. /\ Running /\ HostTypeOK /\ state = "READ" /\ Receive("completed")
        /\ UNCHANGED <<chars, sensors, reading, subscribed>>
    BY DEF RequestNext, Receive, Running, IInv
  <1>2. OnlyPushed' /\ proc = <<>> /\ ReadSoFar
    BY <1>1, AllAnswered, CompletedAlone DEF ReadInv
  <1>3. readIndex \in 1..NumSensors + 1 /\ NumSensors \in Nat
    BY <1>1, DeviceAssumption DEF HostTypeOK
  <1>4. PICK i \in 1..NumSensors + 1 : i = readIndex
    BY <1>3
  <1>5. PICK s \in 1..NumSensors + 1 : s = FirstSensor(i, CanRead)
    BY FirstReadable
  <1>6. /\ s \in Sensors /\ CanRead(s) /\ readIndex' = s
        /\ Request(s, {"invalid_conn_handle"})
    <2>1. s \in Sensors /\ readIndex' = s /\ Request(s, {"invalid_conn_handle"})
      BY <1>4, <1>5 DEF RequestNext
    <2> QED
      BY <1>5, <2>1, FirstReadable
  <1>7. ~Pushed(Handle(s)) /\ sensors[s] # Null
    BY <1>1, <1>6, ReadNotPushed DEF CanRead
  <1>8. ReadSoFar'
    <2> SUFFICES ASSUME NEW t \in 1..s - 1, CanRead(t)
                 PROVE  reading[sensors[t]] = t
      BY <1>1, <1>6 DEF ReadSoFar, CanRead, Handle
    <2>1. CASE t \in i..NumSensors
      <3>1. s <= t
        BY <1>5, <2>1, FirstIsLeast
      <3> QED
        BY <3>1
    <2>2. CASE t \notin i..NumSensors
      <3>1. t \in 1..readIndex - 1
        BY <1>3, <1>4, <2>2
      <3> QED
        BY <1>2, <3>1 DEF ReadSoFar
    <2> QED
      BY <2>1, <2>2
  <1>9. \A h \in subscribed' : Pushed(h)
    BY <1>1 DEF ReadInv
  <1> QED
    BY <1>1, <1>2, <1>6, <1>7, <1>8, <1>9, RequestReads

\* The first read of the next round.
LEMMA RefreshReads ==
  ASSUME QuietSensors, IInv, NEW list, ListInv(list), ReadInv, Refresh
  PROVE  ReadInv'
  <1>1. /\ Running /\ HostTypeOK /\ state = "READ" /\ Receive("completed")
        /\ UNCHANGED <<chars, sensors, subscribed>>
        /\ readIndex' = 1 /\ Request(1, Refusals)
        /\ sensors[1] # Null
    BY DEF Refresh, RoundEnded, Receive, Running, IInv
  <1>2. OnlyPushed' /\ proc = <<>>
    BY <1>1, AllAnswered, CompletedAlone
  <1>3. PICK s \in Sensors : s = 1
    BY DeviceAssumption DEF Sensors
  <1>4. ~Pushed(Handle(s))
    BY <1>1, <1>3, ReadNotPushed
  <1>5. ReadSoFar'
    BY <1>1 DEF ReadSoFar
  <1>6. \A h \in subscribed' : Pushed(h)
    BY <1>1 DEF ReadInv
  <1> QED
    BY <1>1, <1>2, <1>3, <1>4, <1>5, <1>6, RequestReads

\* What is copied when a round has ended.
LEMMA RoundIsComplete ==
  ASSUME HostTypeOK, ReadInv, Running, RoundEnded
  PROVE  \A s \in Sensors : CanRead(s) => reading[sensors[s]] = s
  <1> SUFFICES ASSUME NEW s \in Sensors, CanRead(s) PROVE reading[sensors[s]] = s
    OBVIOUS
  <1>1. readIndex \in 1..NumSensors + 1 /\ NumSensors \in Nat /\ s \in 1..NumSensors
    BY DeviceAssumption DEF HostTypeOK, Sensors
  <1>2. PICK i \in 1..NumSensors + 1 : i = readIndex
    BY <1>1
  <1>3. CASE s \in i..NumSensors
    <2>1. FirstSensor(i, CanRead) <= s /\ FirstSensor(i, CanRead) \in 1..NumSensors + 1
      BY <1>3, FirstIsLeast, FirstReadable
    <2>2. FirstSensor(i, CanRead) \notin Sensors
      BY <1>2 DEF RoundEnded
    <2> HIDE DEF FirstSensor
    <2> QED
      BY <1>1, <2>1, <2>2 DEF Sensors
  <1>4. CASE s \notin i..NumSensors
    <2>1. s \in 1..readIndex - 1
      BY <1>1, <1>2, <1>4
    <2> QED
      BY <2>1 DEF RoundEnded, ReadInv, ReadSoFar
  <1> QED
    BY <1>3, <1>4

\* The handlers of the states before READ.
LEMMA EarlierHandlersRead ==
  ASSUME IInv, ReadInv,
         AdvertisementTimeout \/ ThunderboardFound \/ OtherAdvertisement \/ Opened
         \/ Closed \/ ServiceFound \/ ServicesDiscovered \/ CharacteristicFound
  PROVE  ReadInv'
  <1>1. ASSUME Running, state \notin {"INIT", "READ"}, UNCHANGED proc
        PROVE  \A k \in 1..Len(proc') : proc'[k].type # "value"
    BY <1>1 DEF ReadInv
  <1>2. CASE AdvertisementTimeout \/ ThunderboardFound \/ OtherAdvertisement
    <2>1. /\ state = "DISCOVERY" /\ state' \in {"DISCOVERY", "CONNECT"} /\ Running
          /\ UNCHANGED <<proc, subscribed, lastRequested>>
          /\ \E type \in EventTypes : Receive(type)
      BY <1>2 DEF AdvertisementTimeout, ThunderboardFound, OtherAdvertisement, Receive,
         Running, EnterConnect, roundVars, ncpVars, hostVars, EventTypes
    <2> QED
      BY <1>1, <2>1, TakenReads DEF IInv
  <1>3. CASE Closed
    <2>1. /\ state # "INIT" /\ state' = "INIT" /\ Receive("closed")
          /\ UNCHANGED <<subscribed, lastRequested>>
      BY <1>3 DEF Closed, EnterInit, LinkStates, GattStates, roundVars
    <2> QED
      BY <2>1, TakenReads DEF IInv
  <1>4. CASE ServiceFound \/ CharacteristicFound
    <2>1. /\ state \notin {"INIT", "READ"} /\ state' = state /\ Running
          /\ UNCHANGED <<proc, subscribed, lastRequested>>
          /\ \E type \in EventTypes : Receive(type)
      BY <1>4 DEF ServiceFound, CharacteristicFound, Receive, Running, roundVars,
         ncpVars, EventTypes
    <2> QED
      BY <1>1, <2>1, TakenReads DEF IInv
  <1>5. CASE Opened \/ ServicesDiscovered
    <2>1. /\ state \notin {"INIT", "READ"} /\ Running
          /\ state' \in {"DISCOVER_SERVICES", "DISCOVER_CHARACTERISTICS"}
          /\ UNCHANGED <<subscribed, lastRequested>>
          /\ \E type \in EventTypes : Receive(type)
          /\ proc' = proc \/ proc' = ServicesProc \/ \E m : proc' = CharsProc(m)
      BY <1>5 DEF Opened, ServicesDiscovered, EnterServices, DiscoverChars, Start,
         Receive, Running, roundVars, EventTypes
    <2>2. \A k \in 1..Len(proc') : proc'[k].type # "value"
      BY <1>1, <2>1, NoValuesFound
    <2> QED
      BY <2>1, <2>2, TakenReads DEF IInv
  <1> QED
    BY <1>2, <1>3, <1>4, <1>5

LEMMA IgnoreReads ==
  ASSUME IInv, ReadInv, Ignore
  PROVE  ReadInv'
  <1>1. PICK type \in EventTypes \ Handled(state) : Receive(type)
    BY DEF Ignore
  <1>2. UNCHANGED <<state, status, chars, sensors, readIndex, lastRequested, reading,
                    proc, subscribed>>
    BY DEF Ignore, hostVars, gattVars, roundVars, ncpVars
  <1>3. Running
    BY <1>1 DEF Receive, Running
  <1>4. CASE state = "INIT"
    BY <1>2, <1>4 DEF ReadInv, Pushed
  <1>5. CASE state = "READ"
    <2>1. type # "value"
      BY <1>1, <1>5 DEF Handled
    <2>2. Arriving'
      BY <1>1, <1>2, <1>3, <1>5, <2>1, ArrivingTaken DEF ReadInv, IInv
    <2>3. ReadSoFar'
      BY <1>2, <1>3, <1>5 DEF ReadInv, ReadSoFar, CanRead, Handle
    <2> QED
      BY <1>2, <1>5, <2>2, <2>3 DEF ReadInv, Pushed
  <1>6. CASE state \notin {"INIT", "READ"}
    <2>1. \A k \in 1..Len(proc') : proc'[k].type # "value"
      BY <1>2, <1>3, <1>6 DEF ReadInv
    <2> QED
      BY <1>1, <1>2, <1>6, <2>1, TakenReads DEF IInv
  <1> QED
    BY <1>4, <1>5, <1>6

LEMMA HandlersRead ==
  ASSUME QuietSensors, IInv, LinkInv, NEW list, ListInv(list), ReadInv, HandleEvent
  PROVE  ReadInv'
  <1>1. CASE Boot
    <2>1. /\ Receive("boot") /\ state = "INIT" /\ state' = "DISCOVERY"
          /\ UNCHANGED <<proc, subscribed, lastRequested>>
      BY <1>1 DEF Boot, EnterDiscovery, roundVars
    <2>2. Running /\ \A T : After(T) => Absent(T)'
      BY <2>1, TakenInbox, TakenAbsent DEF IInv
    <2>3. ~resetPending
      <3>1. ~Absent({"boot"})
        BY <2>1, TakenInbox DEF Absent, IInv
      <3> QED
        BY <2>2, <3>1, NoBoot DEF IInv, Safe
    <2>4. proc' = <<>>
      BY <2>1, <2>2, <2>3 DEF IInv, Safe, BootInv
    <2>5. OnlyPushed'
      <3>1. Absent(LinkEvents)'
        BY <2>2 DEF LinkInv
      <3> QED
        BY <3>1 DEF Absent, LinkEvents, OnlyPushed
    <2> QED
      BY <2>1, <2>4, <2>5 DEF ReadInv, Pushed
  <1>2. CASE CharacteristicsDiscovered
    <2>1. /\ state = "DISCOVER_CHARACTERISTICS" /\ Receive("completed") /\ Running
          /\ UNCHANGED <<chars, sensors, reading>>
      BY <1>2 DEF CharacteristicsDiscovered, Receive, Running
    <2>2. CASE SubscribeFrom(1)
      <3>1. PICK i \in 1..NumSensors + 1 : i = 1
        BY DeviceAssumption
      <3> QED
        BY <2>1, <2>2, <3>1, SubscribeReads
    <2>3. CASE ~SubscribeFrom(1)
      <3>1. /\ state' = "DISCOVER_CHARACTERISTICS"
            /\ UNCHANGED <<subscribed, lastRequested>>
            /\ proc' = proc \/ \E m : proc' = CharsProc(m)
        BY <1>2, <2>3 DEF CharacteristicsDiscovered, DiscoverChars, Start
      <3>2. \A k \in 1..Len(proc') : proc'[k].type # "value"
        BY <2>1, <3>1, NoValuesFound DEF ReadInv
      <3> QED
        BY <2>1, <3>1, <3>2, TakenReads DEF IInv
    <2> QED
      BY <2>2, <2>3
  <1>3. CASE Subscribed
    <2>1. /\ state = "SUBSCRIBE" /\ Receive("completed")
          /\ UNCHANGED <<chars, sensors, reading>> /\ SubscribeFrom(subIndex)
      BY <1>3 DEF Subscribed
    <2>2. PICK i \in 1..NumSensors + 1 : i = subIndex
      BY DEF IInv, HostTypeOK
    <2> QED
      BY <2>1, <2>2, SubscribeReads
  <1>4. CASE RefreshCrash
    BY <1>4 DEF RefreshCrash, ReadInv, Running, ncpVars, Pushed
  <1> QED
    BY <1>1, <1>2, <1>3, <1>4, EarlierHandlersRead, IgnoreReads, ValueReads,
       RequestNextReads, RefreshReads DEF HandleEvent

\* The procedure under way may end early, but no other value is announced.
LEMMA QuietReads ==
  ASSUME ReadInv, subscribed' \subseteq subscribed,
         UNCHANGED <<state, status, chars, sensors, readIndex, lastRequested, reading, inbox>>,
         proc' = proc \/ \A k \in 1..Len(proc') : proc'[k].type # "value"
  PROVE  ReadInv'
  <1>1. OnlyPushed <=> OnlyPushed'
    BY DEF OnlyPushed, Pushed
  <1>2. Awaited <=> Awaited'
    BY DEF Awaited, Handle
  <1>3. \A i \in 1..Len(inbox) : Requested(i)' <=> Requested(i)
    BY DEF Requested
  <1>4. Arriving => Arriving'
    BY <1>2, <1>3 DEF Arriving, Pushed
  <1>5. ReadSoFar => ReadSoFar'
    BY DEF ReadSoFar, CanRead, Handle
  <1> QED
    BY <1>1, <1>4, <1>5 DEF ReadInv, Running, Pushed

\* An event joins the inbox that is no answer to the last request.
LEMMA DeliveredReads ==
  ASSUME HostTypeOK, ReadInv, NEW e \in Event, Deliver(e),
         e.type = "value" => Pushed(e.arg), subscribed' \subseteq subscribed,
         UNCHANGED <<state, status, chars, sensors, readIndex, lastRequested, reading>>,
         proc' = proc \/ \A k \in 1..Len(proc') : proc'[k].type # "value"
  PROVE  ReadInv'
  <1>0. PICK n \in Nat : n = Len(inbox) + 1
    BY DEF HostTypeOK
  <1>1. /\ \A i \in 1..Len(inbox) : inbox'[i] = inbox[i]
        /\ inbox'[n] = e /\ n = Len(inbox) + 1 /\ Len(inbox) \in Nat
        /\ \A i \in 1..Len(inbox') : i \in 1..Len(inbox) \/ i = n
        /\ Running
    BY <1>0, DeliveredInbox
  <1>2. OnlyPushed => OnlyPushed'
    BY <1>1 DEF OnlyPushed, Pushed
  <1>3. Awaited <=> Awaited'
    BY DEF Awaited, Handle
  <1>4. ~Requested(n)'
    BY <1>1 DEF Requested, ReadInv
  <1>5. \A i \in 1..Len(inbox) : Requested(i)' <=> Requested(i)
    BY <1>1 DEF Requested
  <1>6. ASSUME Arriving PROVE Arriving'
    <2>1. \A i \in 1..Len(inbox') :
             inbox'[i].type = "value" => Pushed(inbox'[i].arg) \/ Requested(i)'
      BY <1>1, <1>5, <1>6 DEF Arriving
    <2>2. ASSUME NEW i \in 1..Len(inbox'), Requested(i)'
          PROVE  /\ Awaited'
                 /\ \A j \in 1..Len(inbox') :
                       Requested(j)' \/ inbox'[j].type = "completed" => i <= j
                 /\ \A k \in 1..Len(proc') : proc'[k].type # "value"
      <3>1. i \in 1..Len(inbox) /\ Requested(i)
        BY <1>1, <1>4, <1>5, <2>2
      <3>2. /\ Awaited
            /\ \A j \in 1..Len(inbox) : Requested(j) \/ inbox[j].type = "completed" => i <= j
            /\ \A k \in 1..Len(proc) : proc[k].type # "value"
        BY <1>6, <3>1 DEF Arriving
      <3>3. \A j \in 1..Len(inbox') :
               Requested(j)' \/ inbox'[j].type = "completed" => i <= j
        BY <1>1, <1>5, <3>1, <3>2
      <3> QED
        BY <1>3, <3>2, <3>3
    <2>3. \A k \in 1..Len(proc') :
             proc'[k].type = "value" => k = 1 /\ proc'[k].arg = lastRequested' /\ Awaited'
      BY <1>3, <1>6 DEF Arriving
    <2> QED
      BY <2>1, <2>2, <2>3 DEF Arriving, Pushed
  <1>7. ReadSoFar => ReadSoFar'
    BY DEF ReadSoFar, CanRead, Handle
  <1> QED
    BY <1>1, <1>2, <1>6, <1>7 DEF ReadInv, Running, Pushed

\* The procedure under way reports its next event: the value, if it is one.
LEMMA ProgressReads ==
  ASSUME IInv, ReadInv, Progress
  PROVE  ReadInv'
  <1>1. /\ proc \in Seq(Event) /\ proc # <<>> /\ Deliver(proc[1]) /\ proc' = Tail(proc)
        /\ UNCHANGED <<state, status, chars, sensors, readIndex, lastRequested, reading,
                       subscribed>>
    BY DEF Progress, IInv, GoodProc, hostVars, gattVars, roundVars
  <1>2. /\ 1 \in 1..Len(proc) /\ proc[1] \in Event
        /\ \A k \in 1..Len(proc') :
              k \in Nat /\ k + 1 \in 1..Len(proc) /\ k + 1 # 1 /\ proc'[k] = proc[k + 1]
    BY <1>1
  <1>3. PICK e \in Event : e = proc[1]
    BY <1>2
  <1>4. Running /\ HostTypeOK
    BY <1>1 DEF Deliver, Running, IInv
  <1>5. CASE state = "INIT"
    BY <1>1, <1>5 DEF ReadInv, Pushed
  <1>6. CASE state # "INIT"
    <2>1. \A k \in 1..Len(proc) : proc[k].type = "value" => k = 1
      BY <1>4, <1>6 DEF ReadInv, Arriving
    <2>2. \A k \in 1..Len(proc') : proc'[k].type # "value"
      BY <1>2, <2>1
    <2>3. CASE e.type # "value"
      BY <1>1, <1>3, <1>4, <2>2, <2>3, DeliveredReads
    <2>4. CASE e.type = "value"
      <3>1. state = "READ" /\ Arriving /\ ReadSoFar /\ ~Pushed(lastRequested)
        BY <1>2, <1>3, <1>4, <1>6, <2>4 DEF ReadInv
      <3>2. e.arg = lastRequested /\ Awaited
        BY <1>2, <1>3, <2>4, <3>1 DEF Arriving
      <3>3. Completions = {} /\ \A i \in 1..Len(inbox) : ~inbox[i].stale
        BY <1>1, <1>4, <1>6 DEF IInv, Safe, OneProcedure, NoStaleEvents
      <3>0. PICK n \in Nat : n = Len(inbox) + 1
        BY <1>4 DEF HostTypeOK
      <3>4. /\ \A i \in 1..Len(inbox) : inbox'[i] = inbox[i]
            /\ inbox'[n] = e /\ n = Len(inbox) + 1 /\ Len(inbox) \in Nat
            /\ \A i \in 1..Len(inbox') : i \in 1..Len(inbox) \/ i = n
        BY <1>1, <1>3, <1>4, <3>0, DeliveredInbox
      <3>5. \A i \in 1..Len(inbox) : inbox[i].type # "completed" /\ ~Requested(i)
        BY <1>2, <1>3, <2>4, <3>1, <3>3 DEF Completions, Arriving
      <3>6. /\ \A i \in 1..Len(inbox) : ~Requested(i)'
            /\ Requested(n)' /\ inbox'[n].type = "value"
        BY <1>1, <2>4, <3>2, <3>4, <3>5 DEF Requested
      <3>7. Awaited'
        BY <1>1, <3>2 DEF Awaited, Handle
      <3>8. \A i \in 1..Len(inbox') :
               inbox'[i].type = "value" => Pushed(inbox'[i].arg) \/ Requested(i)'
        BY <3>1, <3>4, <3>5, <3>6 DEF Arriving
      <3>9. \A i, j \in 1..Len(inbox') :
               Requested(i)' /\ (Requested(j)' \/ inbox'[j].type = "completed") => i <= j
        <4>1. \A i \in 1..Len(inbox') : Requested(i)' \/ inbox'[i].type = "completed" => i = n
          BY <3>4, <3>5, <3>6
        <4> QED
          BY <3>4, <4>1
      <3>10. Arriving'
        BY <2>2, <3>7, <3>8, <3>9 DEF Arriving, Pushed
      <3>11. ReadSoFar'
        BY <1>1, <3>1 DEF ReadSoFar, CanRead, Handle
      <3> QED
        BY <1>1, <3>1, <3>10, <3>11 DEF ReadInv, Pushed
    <2> QED
      BY <2>3, <2>4
  <1> QED
    BY <1>5, <1>6

LEMMA EnvironmentReads ==
  ASSUME LateFaults, IInv, ReadInv, Environment
  PROVE  ReadInv'
  <1>1. UNCHANGED <<state, status, chars, sensors, readIndex, lastRequested, reading>>
    BY DEF Environment, Reset, Advertise, OpenConnection, OtherEvent, Progress,
           Notify, OpenFails, LoseConnection, Disconnect, AttError, DropEvent, Tick,
           hostVars, gattVars, roundVars
  <1>2. CASE Reset
    <2>1. state = "INIT" /\ subscribed' = {}
      BY <1>2 DEF Reset, IInv, Safe, BootInv, Running
    <2> QED
      BY <1>1, <2>1 DEF ReadInv, Pushed
  <1>3. CASE OpenConnection \/ OtherEvent \/ \E match \in {0, 1} : Advertise(match)
    <2>1. PICK type \in {"opened", "other", "scan"}, arg \in {0, 1} :
             Deliver(Ev(type, arg)) /\ UNCHANGED <<proc, subscribed>>
      BY <1>3 DEF OpenConnection, OtherEvent, Advertise, ncpVars
    <2>2. PICK e \in Event : e = Ev(type, arg) /\ e.type # "value"
      BY EvIsEvent DEF EventTypes
    <2> QED
      BY <1>1, <2>1, <2>2, DeliveredReads DEF IInv
  <1>4. CASE OpenFails \/ LoseConnection
    <2>1. Deliver(Ev("closed", 0)) /\ proc' = <<>> /\ subscribed' = {}
      BY <1>4 DEF OpenFails, LoseConnection, Disconnect
    <2>2. PICK e \in Event : e = Ev("closed", 0) /\ e.type # "value"
      BY EvIsEvent DEF EventTypes
    <2> QED
      BY <1>1, <2>1, <2>2, DeliveredReads DEF IInv
  <1>5. CASE \E h \in Notifying : Notify(h)
    <2>1. PICK h \in subscribed :
             Deliver(Ev("value", h)) /\ UNCHANGED <<proc, subscribed>>
      BY <1>5 DEF Notify, ncpVars
    <2>2. h \in Handles /\ h \in Nat /\ Pushed(h)
      BY DeviceAssumption DEF IInv, HostTypeOK, ReadInv
    <2>3. PICK e \in Event : e = Ev("value", h) /\ e.arg = h
      BY <2>2, EvIsEvent, EvFields DEF EventTypes
    <2> QED
      BY <1>1, <2>1, <2>2, <2>3, DeliveredReads DEF IInv
  <1>6. CASE AttError
    <2>1. UNCHANGED <<inbox, subscribed>> /\ proc' = <<Completed>>
      BY <1>6 DEF AttError
    <2> QED
      BY <1>1, <2>1, NoValuesFound, QuietReads
  <1>7. CASE Tick
    <2>1. UNCHANGED <<inbox, subscribed, proc>>
      BY <1>7 DEF Tick, ncpVars
    <2> QED
      BY <1>1, <2>1, QuietReads
  <1> QED
    BY <1>2, <1>3, <1>4, <1>5, <1>6, <1>7, ProgressReads
    DEF Environment, DropEvent, LateFaults

LEMMA InitReads == Init => ReadInv
  <1>1. ~Pushed(0)
    BY DeviceAssumption DEF Pushed, Null
  <1> QED
    BY <1>1 DEF Init, ReadInv

LEMMA NextReads ==
  ASSUME QuietSensors, LateFaults, IInv, LinkInv, NEW list, ListInv(list), ReadInv,
         [Next]_vars
  PROVE  ReadInv'
  <1>1. CASE Upload \/ TakeJob \/ UNCHANGED vars
    <2>1. UNCHANGED <<state, status, chars, sensors, readIndex, lastRequested, reading,
                      inbox, proc, subscribed>>
      BY <1>1 DEF Upload, TakeJob, vars, hostVars, gattVars, roundVars, ncpVars
    <2> QED
      BY <2>1, QuietReads
  <1> QED
    BY <1>1, HandlersRead, EnvironmentReads DEF Next, Stopped

\* Only refresh_sensor_values leads to an upload.
LEMMA OnlyRefresh ==
  ASSUME Next, pc = "loop", pc' = "upload"
  PROVE  RoundEnded /\ Running
  <1>1. ~Upload /\ ~TakeJob /\ ~Environment /\ ~Stopped
    BY DEF Upload, TakeJob, Environment, Reset, Advertise, OpenConnection, OtherEvent, Progress,
           Notify, OpenFails, LoseConnection, Disconnect, AttError, DropEvent, Tick,
           hostVars, Stopped, vars
  <1>2. CASE HandleEvent
    BY <1>2 DEF HandleEvent, Boot, AdvertisementTimeout, ThunderboardFound,
       OtherAdvertisement, Opened, Closed, ServiceFound, ServicesDiscovered,
       CharacteristicFound, CharacteristicsDiscovered, Subscribed, ValueReceived,
       RequestNext, RefreshCrash, Refresh, RoundEnded, Ignore, hostVars, Receive, Running
  <1> QED
    BY <1>1, <1>2 DEF Next

\* When no connection is lost and no procedure fails while services or
\* characteristics are discovered, and the sensors that notify are not read, each
\* refresh copies a value of every
\* readable sensor, and one that was taken since the previous refresh.
THEOREM RoundsComplete ==
  ASSUME FaultStates \cap {"DISCOVER_SERVICES", "DISCOVER_CHARACTERISTICS"} = {},
         "drop" \notin Faults, ServiceChars # <<>>,
         \A h \in Notifying : Uuid[h] # 0 => h \notin Readable /\ Uuid[h] # 1
  PROVE  Spec => RefreshComplete
  <1>1. PICK off : Offsets(off)
    BY OffsetsExist
  <1>2. PICK list : Layout(Len(ServiceChars), off, list)
    BY <1>1, ListExists
  <1> DEFINE Inv == LinkInv /\ PlaceInv(off) /\ ListInv(list) /\ ReadInv
             Copied == pc' = "upload" /\ pc = "loop" =>
                           \A s \in Sensors : CanRead(s) => reading[sensors[s]] = s
  <1>3. Init => Inv
    BY InitLink, InitPlaces, InitReads
  <1>4. IInv /\ IInv' /\ Inv /\ [Next]_vars => Inv'
    BY <1>1, <1>2, NextKeepsLink, NextPlaces, NextReads
    DEF LateFaults, DiscoveryStates, QuietSensors
  <1>5. IInv /\ Inv /\ [Next]_vars => [Copied]_vars
    BY OnlyRefresh, RoundIsComplete DEF IInv
  <1>6. Spec => [][Copied]_vars
    <2> HIDE DEF Inv, Copied
    <2> QED
      BY <1>3, <1>4, <1>5, Invariance, PTL DEF Spec
  <1> QED
    BY <1>6 DEF RefreshComplete
==============================================================================
