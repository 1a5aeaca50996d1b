---------------------------- MODULE GeckoCommands ----------------------------
(***************************************************************************)
(* The commands of the BGAPI as host_gecko.h builds them: each is an       *)
(* inline function that stores its parameters after a header and hands     *)
(* both to gecko_handle_command. In the order of the file.                 *)
(*                                                                         *)
(* A command is known by its name, its place in a class, the length its    *)
(* header gets, not counting the bytes of an array at its end, and the     *)
(* bytes stored of it: the sizes of its parameters, added up, the length   *)
(* byte of that array among them.                                          *)
(***************************************************************************)
EXTENDS Naturals, Sequences

\* A command without an array, with one, and without a response.
Cmd(name, index, fixed, stored) ==
    [name |-> name, index |-> index, fixed |-> fixed, stored |-> stored,
     array |-> FALSE, reply |-> TRUE]

Var(name, index, fixed, stored) ==
    [Cmd(name, index, fixed, stored) EXCEPT !.array = TRUE]

NoReply(name, index, fixed, stored) ==
    [Cmd(name, index, fixed, stored) EXCEPT !.reply = FALSE]

\* The commands of a class, with its number.
Class(number, commands) ==
    {[class |-> number, name |-> c.name, index |-> c.index, fixed |-> c.fixed,
      stored |-> c.stored, array |-> c.array, reply |-> c.reply] : c \in commands}

-----------------------------------------------------------------------------

DfuCommands == Class(0,
    {NoReply("dfu_reset", 0, 1, 1),
     Cmd("dfu_flash_set_address", 1, 4, 4),
     Var("dfu_flash_upload", 2, 1, 1),
     Cmd("dfu_flash_upload_finish", 3, 0, 0)})

SystemCommands1 == Class(1,
    {Cmd("system_hello", 0, 0, 0),
     NoReply("system_reset", 1, 1, 1),
     Cmd("system_get_bt_address", 3, 0, 0),
     Cmd("system_set_bt_address", 4, 6, 6),
     Cmd("system_set_tx_power", 10, 2, 2),
     Cmd("system_get_random_data", 11, 1, 1)})

SystemCommands2 == Class(1,
    {Cmd("system_halt", 12, 1, 1),
     Var("system_set_device_name", 13, 2, 1 + 1),
     Var("system_linklayer_configure", 14, 2, 1 + 1),
     Cmd("system_get_counters", 15, 1, 1)})

LeGapCommands1 == Class(3,
    {Cmd("le_gap_open", 0, 7, 6 + 1),
     Cmd("le_gap_set_mode", 1, 2, 1 + 1),
     Cmd("le_gap_discover", 2, 1, 1),
     Cmd("le_gap_end_procedure", 3, 0, 0)})

LeGapCommands2 == Class(3,
    {Cmd("le_gap_set_adv_parameters", 4, 5, 2 + 2 + 1),
     Cmd("le_gap_set_conn_parameters", 5, 8, 2 + 2 + 2 + 2),
     Cmd("le_gap_set_scan_parameters", 6, 5, 2 + 2 + 1)})

LeGapCommands3 == Class(3,
    {Var("le_gap_set_adv_data", 7, 2, 1 + 1),
     Cmd("le_gap_set_adv_timeout", 8, 1, 1),
     Cmd("le_gap_set_phy", 9, 1, 1),
     Cmd("le_gap_bt5_set_mode", 10, 6, 1 + 1 + 1 + 2 + 1)})

LeGapCommands4 == Class(3,
    {Cmd("le_gap_bt5_set_adv_parameters", 11, 7, 1 + 2 + 2 + 1 + 1),
     Var("le_gap_bt5_set_adv_data", 12, 3, 1 + 1 + 1),
     Cmd("le_gap_set_privacy_mode", 13, 2, 1 + 1)})

LeGapCommands5 == Class(3,
    {Cmd("le_gap_set_advertise_timing", 14, 12, 1 + 4 + 4 + 2 + 1),
     Cmd("le_gap_set_advertise_channel_map", 15, 2, 1 + 1),
     Cmd("le_gap_set_advertise_report_scan_request", 16, 2, 1 + 1),
     Cmd("le_gap_set_advertise_phy", 17, 3, 1 + 1 + 1)})

LeGapCommands6 == Class(3,
    {Cmd("le_gap_set_advertise_configuration", 18, 5, 1 + 4),
     Cmd("le_gap_clear_advertise_configuration", 19, 5, 1 + 4),
     Cmd("le_gap_start_advertising", 20, 3, 1 + 1 + 1),
     Cmd("le_gap_stop_advertising", 21, 1, 1)})

LeGapCommands7 == Class(3,
    {Cmd("le_gap_set_discovery_timing", 22, 5, 1 + 2 + 2),
     Cmd("le_gap_set_discovery_type", 23, 2, 1 + 1),
     Cmd("le_gap_start_discovery", 24, 2, 1 + 1),
     Var("le_gap_set_data_channel_classification", 25, 1, 1)})

LeGapCommands8 == Class(3,
    {Cmd("le_gap_connect", 26, 8, 6 + 1 + 1),
     Cmd("le_gap_set_advertise_tx_power", 27, 3, 1 + 2)})

LeConnectionCommands1 == Class(8,
    {Cmd("le_connection_set_parameters", 0, 9, 1 + 2 + 2 + 2 + 2),
     Cmd("le_connection_get_rssi", 1, 1, 1),
     Cmd("le_connection_disable_slave_latency", 2, 2, 1 + 1),
     Cmd("le_connection_set_phy", 3, 2, 1 + 1)})

LeConnectionCommands2 == Class(8,
    {Cmd("le_connection_close", 4, 1, 1)})

GattCommands1 == Class(9,
    {Cmd("gatt_set_max_mtu", 0, 2, 2),
     Cmd("gatt_discover_primary_services", 1, 1, 1),
     Var("gatt_discover_primary_services_by_uuid", 2, 2, 1 + 1),
     Cmd("gatt_discover_characteristics", 3, 5, 1 + 4),
     Var("gatt_discover_characteristics_by_uuid", 4, 6, 1 + 4 + 1)})

GattCommands2 == Class(9,
    {Cmd("gatt_set_characteristic_notification", 5, 4, 1 + 2 + 1),
     Cmd("gatt_discover_descriptors", 6, 3, 1 + 2),
     Cmd("gatt_read_characteristic_value", 7, 3, 1 + 2),
     Var("gatt_read_characteristic_value_by_uuid", 8, 6, 1 + 4 + 1)})

GattCommands3 == Class(9,
    {Var("gatt_write_characteristic_value", 9, 4, 1 + 2 + 1),
     Var("gatt_write_characteristic_value_without_response", 10, 4, 1 + 2 + 1),
     Var("gatt_prepare_characteristic_value_write", 11, 6, 1 + 2 + 2 + 1),
     Cmd("gatt_execute_characteristic_value_write", 12, 2, 1 + 1)})

GattCommands4 == Class(9,
    {Cmd("gatt_send_characteristic_confirmation", 13, 1, 1),
     Cmd("gatt_read_descriptor_value", 14, 3, 1 + 2),
     Var("gatt_write_descriptor_value", 15, 4, 1 + 2 + 1),
     Cmd("gatt_find_included_services", 16, 5, 1 + 4),
     Var("gatt_read_multiple_characteristic_values", 17, 2, 1 + 1)})

GattCommands5 == Class(9,
    {Cmd("gatt_read_characteristic_value_from_offset", 18, 7, 1 + 2 + 2 + 2),
     Var("gatt_prepare_characteristic_value_reliable_write", 19, 6, 1 + 2 + 2 + 1)})

GattServerCommands1 == Class(10,
    {Cmd("gatt_server_read_attribute_value", 0, 4, 2 + 2),
     Cmd("gatt_server_read_attribute_type", 1, 2, 2),
     Var("gatt_server_write_attribute_value", 2, 5, 2 + 2 + 1),
     Var("gatt_server_send_user_read_response", 3, 5, 1 + 2 + 1 + 1),
     Cmd("gatt_server_send_user_write_response", 4, 4, 1 + 2 + 1)})

GattServerCommands2 == Class(10,
    {Var("gatt_server_send_characteristic_notification", 5, 4, 1 + 2 + 1),
     Var("gatt_server_find_attribute", 6, 3, 2 + 1),
     Cmd("gatt_server_set_database", 7, 4, 4),
     Cmd("gatt_server_set_capabilities", 8, 8, 4 + 4)})

GattServerCommands3 == Class(10,
    {Var("gatt_server_find_primary_service", 9, 3, 2 + 1)})

EndpointCommands == Class(11,
    {Cmd("endpoint_close", 2, 1, 1)})

HardwareCommands == Class(12,
    {Cmd("hardware_set_soft_timer", 0, 6, 4 + 1 + 1),
     Cmd("hardware_get_time", 11, 0, 0),
     Cmd("hardware_set_lazy_soft_timer", 12, 10, 4 + 4 + 1 + 1),
     Cmd("hardware_enable_dcdc", 13, 1, 1)})

FlashCommands == Class(13,
    {Cmd("flash_ps_erase_all", 1, 0, 0),
     Var("flash_ps_save", 2, 3, 2 + 1),
     Cmd("flash_ps_load", 3, 2, 2),
     Cmd("flash_ps_erase", 4, 2, 2)})

TestCommands1 == Class(14,
    {Cmd("test_dtm_tx", 0, 4, 1 + 1 + 1 + 1),
     Cmd("test_dtm_rx", 1, 2, 1 + 1),
     Cmd("test_dtm_end", 2, 0, 0),
     Var("test_debug_command", 7, 2, 1 + 1)})

TestCommands2 == Class(14,
    {Cmd("test_debug_counter", 12, 4, 4)})

SmCommands1 == Class(15,
    {Cmd("sm_set_bondable_mode", 0, 1, 1),
     Cmd("sm_configure", 1, 2, 1 + 1),
     Cmd("sm_store_bonding_configuration", 2, 2, 1 + 1),
     Cmd("sm_increase_security", 4, 1, 1),
     Cmd("sm_delete_bonding", 6, 1, 1)})

SmCommands2 == Class(15,
    {Cmd("sm_delete_bondings", 7, 0, 0),
     Cmd("sm_enter_passkey", 8, 5, 1 + 4),
     Cmd("sm_passkey_confirm", 9, 2, 1 + 1),
     Var("sm_set_oob_data", 10, 1, 1),
     Cmd("sm_list_all_bondings", 11, 0, 0),
     Cmd("sm_bonding_confirm", 14, 2, 1 + 1)})

SmCommands3 == Class(15,
    {Cmd("sm_set_debug_mode", 15, 0, 0),
     Cmd("sm_set_passkey", 16, 4, 4),
     Cmd("sm_use_sc_oob", 17, 1, 1),
     Var("sm_set_sc_remote_oob_data", 18, 1, 1)})

HomekitCommands1 == Class(19,
    {Cmd("homekit_configure", 0, 16, 1 + 1 + 1 + 2 + 1 + 2 + 2 + 4 + 2),
     Cmd("homekit_advertise", 1, 6, 1 + 2 + 2 + 1),
     Cmd("homekit_delete_pairings", 2, 0, 0),
     Cmd("homekit_check_authcp", 3, 0, 0),
     Cmd("homekit_get_pairing_id", 4, 1, 1)})

HomekitCommands2 == Class(19,
    {Cmd("homekit_send_write_response", 5, 4, 1 + 2 + 1),
     Var("homekit_send_read_response", 6, 7, 1 + 2 + 1 + 2 + 1),
     Cmd("homekit_gsn_action", 7, 1, 1),
     Var("homekit_event_notification", 8, 5, 1 + 2 + 1 + 1)})

HomekitCommands3 == Class(19,
    {Var("homekit_broadcast_action", 9, 2, 1 + 1)})

CoexCommands == Class(32,
    {Cmd("coex_set_options", 0, 8, 4 + 4),
     Cmd("coex_get_counters", 1, 1, 1)})

UserCommands == Class(255,
    {Var("user_message_to_target", 0, 1, 1)})

Commands ==
    UNION {DfuCommands, SystemCommands1, SystemCommands2, LeGapCommands1,
           LeGapCommands2, LeGapCommands3, LeGapCommands4, LeGapCommands5,
           LeGapCommands6, LeGapCommands7, LeGapCommands8,
           LeConnectionCommands1, LeConnectionCommands2, GattCommands1,
           GattCommands2, GattCommands3, GattCommands4, GattCommands5,
           GattServerCommands1, GattServerCommands2, GattServerCommands3,
           EndpointCommands, HardwareCommands, FlashCommands, TestCommands1,
           TestCommands2, SmCommands1, SmCommands2, SmCommands3,
           HomekitCommands1, HomekitCommands2, HomekitCommands3, CoexCommands,
           UserCommands}

-----------------------------------------------------------------------------
(* A command with n bytes in its array. *)

MaxPayload == 256

\* Mutant: only the array itself is compared with the limit.
TooLongArray(c, n) == c.array /\ n > MaxPayload

\* bg_err_command_too_long.
TooLong(c, n) == c.array /\ n > MaxPayload - c.fixed

\* The word put before the parameters: the type of the device, the length, the
\* class and the index, a byte each, added up.
Header(c, n) ==
    32 + (c.fixed + n) * 256 + c.class * 65536 + c.index * 16777216

\* BGLIB_MSG_LEN: its three high bits are the lowest of the word.
MsgLen(header) == ((header % 8) * 256) + ((header \div 256) % 256)

\* BGLIB_MSG_ID, without the type.
MsgClass(header) == (header \div 65536) % 256
MsgIndex(header) == header \div 16777216

\* The bytes of the parameters that are stored.
StoredBytes(c, n) == c.stored + n
==============================================================================
