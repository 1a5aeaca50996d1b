------------------------- MODULE GeckoCommands_proof -------------------------
(***************************************************************************)
(* Proofs about the headers of GeckoCommands, for every command and every  *)
(* length of its array.                                                    *)
(***************************************************************************)
EXTENDS GeckoCommands, TLAPS

\* What is known of a command of the tables: its parts fit the bytes of the header,
\* and the length it gives there is that of the parameters it stores.
Fits(c) ==
    /\ c.class \in 0..255
    /\ c.index \in 0..255
    /\ c.fixed \in 0..255
    /\ c.array \in BOOLEAN
    /\ c.reply \in BOOLEAN
    /\ c.stored = c.fixed

Part(c) ==
    /\ c.index \in 0..255
    /\ c.fixed \in 0..255
    /\ c.array \in BOOLEAN
    /\ c.reply \in BOOLEAN
    /\ c.stored = c.fixed

LEMMA CommandPart ==
  ASSUME NEW name, NEW index \in 0..255, NEW fixed \in 0..255, NEW stored,
         stored = fixed
  PROVE  /\ Part(Cmd(name, index, fixed, stored))
         /\ Part(Var(name, index, fixed, stored))
         /\ Part(NoReply(name, index, fixed, stored))
  BY DEF Part, Cmd, Var, NoReply

LEMMA ClassFits ==
  ASSUME NEW number \in 0..255, NEW S, \A c \in S : Part(c)
  PROVE  \A c \in Class(number, S) : Fits(c)
  BY DEF Class, Part, Fits

\* The tables keep to that.
LEMMA DfuCommandsFit == \A c \in DfuCommands : Fits(c)
  <1>1. {0, 1, 2, 3, 4} \subseteq 0..255
    BY SMT
  <1>2. /\ Part(NoReply("dfu_reset", 0, 1, 1))
        /\ Part(Cmd("dfu_flash_set_address", 1, 4, 4))
    BY <1>1, CommandPart, ZenonT(40)
  <1>3. /\ Part(Var("dfu_flash_upload", 2, 1, 1))
        /\ Part(Cmd("dfu_flash_upload_finish", 3, 0, 0))
    BY <1>1, CommandPart, ZenonT(40)
  <1> QED
    BY <1>1, <1>2, <1>3, ClassFits, ZenonT(40) DEF DfuCommands

LEMMA SystemCommands1Fit == \A c \in SystemCommands1 : Fits(c)
  <1>1. {0, 1, 2, 3, 4, 6, 10, 11} \subseteq 0..255
    BY SMT
  <1>2. /\ Part(Cmd("system_hello", 0, 0, 0))
        /\ Part(NoReply("system_reset", 1, 1, 1))
        /\ Part(Cmd("system_get_bt_address", 3, 0, 0))
    BY <1>1, CommandPart, ZenonT(40)
  <1>3. /\ Part(Cmd("system_set_bt_address", 4, 6, 6))
        /\ Part(Cmd("system_set_tx_power", 10, 2, 2))
        /\ Part(Cmd("system_get_random_data", 11, 1, 1))
    BY <1>1, CommandPart, ZenonT(40)
  <1> QED
    BY <1>1, <1>2, <1>3, ClassFits, ZenonT(40) DEF SystemCommands1

LEMMA SystemCommands2Fit == \A c \in SystemCommands2 : Fits(c)
  <1>1. {1, 2, 12, 13, 14, 15} \subseteq 0..255
    BY SMT
  <1>2. 1 + 1 = 2
    BY SMT
  <1>3. /\ Part(Cmd("system_halt", 12, 1, 1))
        /\ Part(Var("system_set_device_name", 13, 2, 1 + 1))
    BY <1>1, <1>2, CommandPart, ZenonT(40)
  <1>4. /\ Part(Var("system_linklayer_configure", 14, 2, 1 + 1))
        /\ Part(Cmd("system_get_counters", 15, 1, 1))
    BY <1>1, <1>2, CommandPart, ZenonT(40)
  <1> QED
    BY <1>1, <1>3, <1>4, ClassFits, ZenonT(40) DEF SystemCommands2

LEMMA LeGapCommands1Fit == \A c \in LeGapCommands1 : Fits(c)
  <1>1. {0, 1, 2, 3, 7} \subseteq 0..255
    BY SMT
  <1>2. /\ 6 + 1 = 7 /\ 1 + 1 = 2
    BY SMT
  <1>3. /\ Part(Cmd("le_gap_open", 0, 7, 6 + 1))
        /\ Part(Cmd("le_gap_set_mode", 1, 2, 1 + 1))
    BY <1>1, <1>2, CommandPart, ZenonT(40)
  <1>4. /\ Part(Cmd("le_gap_discover", 2, 1, 1))
        /\ Part(Cmd("le_gap_end_procedure", 3, 0, 0))
    BY <1>1, <1>2, CommandPart, ZenonT(40)
  <1> QED
    BY <1>1, <1>3, <1>4, ClassFits, ZenonT(40) DEF LeGapCommands1

LEMMA LeGapCommands2Fit == \A c \in LeGapCommands2 : Fits(c)
  <1>1. {3, 4, 5, 6, 8} \subseteq 0..255
    BY SMT
  <1>2. /\ 2 + 2 + 1 = 5 /\ 2 + 2 + 2 + 2 = 8
    BY SMT
  <1>3. /\ Part(Cmd("le_gap_set_adv_parameters", 4, 5, 2 + 2 + 1))
        /\ Part(Cmd("le_gap_set_conn_parameters", 5, 8, 2 + 2 + 2 + 2))
        /\ Part(Cmd("le_gap_set_scan_parameters", 6, 5, 2 + 2 + 1))
    BY <1>1, <1>2, CommandPart, ZenonT(40)
  <1> QED
    BY <1>1, <1>3, ClassFits, ZenonT(40) DEF LeGapCommands2

LEMMA LeGapCommands3Fit == \A c \in LeGapCommands3 : Fits(c)
  <1>1. {1, 2, 3, 6, 7, 8, 9, 10} \subseteq 0..255
    BY SMT
  <1>2. /\ 1 + 1 = 2 /\ 1 + 1 + 1 + 2 + 1 = 6
    BY SMT
  <1>3. /\ Part(Var("le_gap_set_adv_data", 7, 2, 1 + 1))
        /\ Part(Cmd("le_gap_set_adv_timeout", 8, 1, 1))
    BY <1>1, <1>2, CommandPart, ZenonT(40)
  <1>4. /\ Part(Cmd("le_gap_set_phy", 9, 1, 1))
        /\ Part(Cmd("le_gap_bt5_set_mode", 10, 6, 1 + 1 + 1 + 2 + 1))
    BY <1>1, <1>2, CommandPart, ZenonT(40)
  <1> QED
    BY <1>1, <1>3, <1>4, ClassFits, ZenonT(40) DEF LeGapCommands3

LEMMA LeGapCommands4Fit == \A c \in LeGapCommands4 : Fits(c)
  <1>1. {2, 3, 7, 11, 12, 13} \subseteq 0..255
    BY SMT
  <1>2. /\ 1 + 2 + 2 + 1 + 1 = 7 /\ 1 + 1 + 1 = 3 /\ 1 + 1 = 2
    BY SMT
  <1>3. /\ Part(Cmd("le_gap_bt5_set_adv_parameters", 11, 7, 1 + 2 + 2 + 1 + 1))
        /\ Part(Var("le_gap_bt5_set_adv_data", 12, 3, 1 + 1 + 1))
        /\ Part(Cmd("le_gap_set_privacy_mode", 13, 2, 1 + 1))
    BY <1>1, <1>2, CommandPart, ZenonT(40)
  <1> QED
    BY <1>1, <1>3, ClassFits, ZenonT(40) DEF LeGapCommands4

LEMMA LeGapCommands5Fit == \A c \in LeGapCommands5 : Fits(c)
  <1>1. {2, 3, 12, 14, 15, 16, 17} \subseteq 0..255
    BY SMT
  <1>2. /\ 1 + 4 + 4 + 2 + 1 = 12 /\ 1 + 1 = 2 /\ 1 + 1 + 1 = 3
    BY SMT
  <1>3. /\ Part(Cmd("le_gap_set_advertise_timing", 14, 12, 1 + 4 + 4 + 2 + 1))
        /\ Part(Cmd("le_gap_set_advertise_channel_map", 15, 2, 1 + 1))
    BY <1>1, <1>2, CommandPart, ZenonT(40)
  <1>4. /\ Part(Cmd("le_gap_set_advertise_report_scan_request", 16, 2, 1 + 1))
        /\ Part(Cmd("le_gap_set_advertise_phy", 17, 3, 1 + 1 + 1))
    BY <1>1, <1>2, CommandPart, ZenonT(40)
  <1> QED
    BY <1>1, <1>3, <1>4, ClassFits, ZenonT(40) DEF LeGapCommands5

LEMMA LeGapCommands6Fit == \A c \in LeGapCommands6 : Fits(c)
  <1>1. {1, 3, 5, 18, 19, 20, 21} \subseteq 0..255
    BY SMT
  <1>2. /\ 1 + 4 = 5 /\ 1 + 1 + 1 = 3
    BY SMT
  <1>3. /\ Part(Cmd("le_gap_set_advertise_configuration", 18, 5, 1 + 4))
        /\ Part(Cmd("le_gap_clear_advertise_configuration", 19, 5, 1 + 4))
    BY <1>1, <1>2, CommandPart, ZenonT(40)
  <1>4. /\ Part(Cmd("le_gap_start_advertising", 20, 3, 1 + 1 + 1))
        /\ Part(Cmd("le_gap_stop_advertising", 21, 1, 1))
    BY <1>1, <1>2, CommandPart, ZenonT(40)
  <1> QED
    BY <1>1, <1>3, <1>4, ClassFits, ZenonT(40) DEF LeGapCommands6

LEMMA LeGapCommands7Fit == \A c \in LeGapCommands7 : Fits(c)
  <1>1. {1, 2, 3, 5, 22, 23, 24, 25} \subseteq 0..255
    BY SMT
  <1>2. /\ 1 + 2 + 2 = 5 /\ 1 + 1 = 2
    BY SMT
  <1>3. /\ Part(Cmd("le_gap_set_discovery_timing", 22, 5, 1 + 2 + 2))
        /\ Part(Cmd("le_gap_set_discovery_type", 23, 2, 1 + 1))
    BY <1>1, <1>2, CommandPart, ZenonT(40)
  <1>4. /\ Part(Cmd("le_gap_start_discovery", 24, 2, 1 + 1))
        /\ Part(Var("le_gap_set_data_channel_classification", 25, 1, 1))
    BY <1>1, <1>2, CommandPart, ZenonT(40)
  <1> QED
    BY <1>1, <1>3, <1>4, ClassFits, ZenonT(40) DEF LeGapCommands7

LEMMA LeGapCommands8Fit == \A c \in LeGapCommands8 : Fits(c)
  <1>1. {3, 8, 26, 27} \subseteq 0..255
    BY SMT
  <1>2. /\ 6 + 1 + 1 = 8 /\ 1 + 2 = 3
    BY SMT
  <1>3. /\ Part(Cmd("le_gap_connect", 26, 8, 6 + 1 + 1))
        /\ Part(Cmd("le_gap_set_advertise_tx_power", 27, 3, 1 + 2))
    BY <1>1, <1>2, CommandPart, ZenonT(40)
  <1> QED
    BY <1>1, <1>3, ClassFits, ZenonT(40) DEF LeGapCommands8

LEMMA LeConnectionCommands1Fit == \A c \in LeConnectionCommands1 : Fits(c)
  <1>1. {0, 1, 2, 3, 8, 9} \subseteq 0..255
    BY SMT
  <1>2. /\ 1 + 2 + 2 + 2 + 2 = 9 /\ 1 + 1 = 2
    BY SMT
  <1>3. /\ Part(Cmd("le_connection_set_parameters", 0, 9, 1 + 2 + 2 + 2 + 2))
        /\ Part(Cmd("le_connection_get_rssi", 1, 1, 1))
    BY <1>1, <1>2, CommandPart, ZenonT(40)
  <1>4. /\ Part(Cmd("le_connection_disable_slave_latency", 2, 2, 1 + 1))
        /\ Part(Cmd("le_connection_set_phy", 3, 2, 1 + 1))
    BY <1>1, <1>2, CommandPart, ZenonT(40)
  <1> QED
    BY <1>1, <1>3, <1>4, ClassFits, ZenonT(40) DEF LeConnectionCommands1

LEMMA LeConnectionCommands2Fit == \A c \in LeConnectionCommands2 : Fits(c)
  <1>1. {1, 4, 8} \subseteq 0..255
    BY SMT
  <1>2. /\ Part(Cmd("le_connection_close", 4, 1, 1))
    BY <1>1, CommandPart, ZenonT(40)
  <1> QED
    BY <1>1, <1>2, ClassFits, ZenonT(40) DEF LeConnectionCommands2

LEMMA GattCommands1Fit == \A c \in GattCommands1 : Fits(c)
  <1>1. {0, 1, 2, 3, 4, 5, 6, 9} \subseteq 0..255
    BY SMT
  <1>2. /\ 1 + 1 = 2 /\ 1 + 4 = 5 /\ 1 + 4 + 1 = 6
    BY SMT
  <1>3. /\ Part(Cmd("gatt_set_max_mtu", 0, 2, 2))
        /\ Part(Cmd("gatt_discover_primary_services", 1, 1, 1))
        /\ Part(Var("gatt_discover_primary_services_by_uuid", 2, 2, 1 + 1))
    BY <1>1, <1>2, CommandPart, ZenonT(40)
  <1>4. /\ Part(Cmd("gatt_discover_characteristics", 3, 5, 1 + 4))
        /\ Part(Var("gatt_discover_characteristics_by_uuid", 4, 6, 1 + 4 + 1))
    BY <1>1, <1>2, CommandPart, ZenonT(40)
  <1> QED
    BY <1>1, <1>3, <1>4, ClassFits, ZenonT(40) DEF GattCommands1

LEMMA GattCommands2Fit == \A c \in GattCommands2 : Fits(c)
  <1>1. {3, 4, 5, 6, 7, 8, 9} \subseteq 0..255
    BY SMT
  <1>2. /\ 1 + 2 + 1 = 4 /\ 1 + 2 = 3 /\ 1 + 4 + 1 = 6
    BY SMT
  <1>3. /\ Part(Cmd("gatt_set_characteristic_notification", 5, 4, 1 + 2 + 1))
        /\ Part(Cmd("gatt_discover_descriptors", 6, 3, 1 + 2))
    BY <1>1, <1>2, CommandPart, ZenonT(40)
  <1>4. /\ Part(Cmd("gatt_read_characteristic_value", 7, 3, 1 + 2))
        /\ Part(Var("gatt_read_characteristic_value_by_uuid", 8, 6, 1 + 4 + 1))
    BY <1>1, <1>2, CommandPart, ZenonT(40)
  <1> QED
    BY <1>1, <1>3, <1>4, ClassFits, ZenonT(40) DEF GattCommands2

LEMMA GattCommands3Fit == \A c \in GattCommands3 : Fits(c)
  <1>1. {2, 4, 6, 9, 10, 11, 12} \subseteq 0..255
    BY SMT
  <1>2. /\ 1 + 2 + 1 = 4 /\ 1 + 2 + 2 + 1 = 6 /\ 1 + 1 = 2
    BY SMT
  <1>3. /\ Part(Var("gatt_write_characteristic_value", 9, 4, 1 + 2 + 1))
        /\ Part(Var("gatt_write_characteristic_value_without_response", 10, 4, 1 + 2 + 1))
    BY <1>1, <1>2, CommandPart, ZenonT(40)
  <1>4. /\ Part(Var("gatt_prepare_characteristic_value_write", 11, 6, 1 + 2 + 2 + 1))
        /\ Part(Cmd("gatt_execute_characteristic_value_write", 12, 2, 1 + 1))
    BY <1>1, <1>2, CommandPart, ZenonT(40)
  <1> QED
    BY <1>1, <1>3, <1>4, ClassFits, ZenonT(40) DEF GattCommands3

LEMMA GattCommands4Fit == \A c \in GattCommands4 : Fits(c)
  <1>1. {1, 2, 3, 4, 5, 9, 13, 14, 15, 16, 17} \subseteq 0..255
    BY SMT
  <1>2. /\ 1 + 2 = 3 /\ 1 + 2 + 1 = 4 /\ 1 + 4 = 5
        /\ 1 + 1 = 2
    BY SMT
  <1>3. /\ Part(Cmd("gatt_send_characteristic_confirmation", 13, 1, 1))
        /\ Part(Cmd("gatt_read_descriptor_value", 14, 3, 1 + 2))
        /\ Part(Var("gatt_write_descriptor_value", 15, 4, 1 + 2 + 1))
    BY <1>1, <1>2, CommandPart, ZenonT(40)
  <1>4. /\ Part(Cmd("gatt_find_included_services", 16, 5, 1 + 4))
        /\ Part(Var("gatt_read_multiple_characteristic_values", 17, 2, 1 + 1))
    BY <1>1, <1>2, CommandPart, ZenonT(40)
  <1> QED
    BY <1>1, <1>3, <1>4, ClassFits, ZenonT(40) DEF GattCommands4

LEMMA GattCommands5Fit == \A c \in GattCommands5 : Fits(c)
  <1>1. {6, 7, 9, 18, 19} \subseteq 0..255
    BY SMT
  <1>2. /\ 1 + 2 + 2 + 2 = 7 /\ 1 + 2 + 2 + 1 = 6
    BY SMT
  <1>3. /\ Part(Cmd("gatt_read_characteristic_value_from_offset", 18, 7, 1 + 2 + 2 + 2))
        /\ Part(Var("gatt_prepare_characteristic_value_reliable_write", 19, 6, 1 + 2 + 2 + 1))
    BY <1>1, <1>2, CommandPart, ZenonT(40)
  <1> QED
    BY <1>1, <1>3, ClassFits, ZenonT(40) DEF GattCommands5

LEMMA GattServerCommands1Fit == \A c \in GattServerCommands1 : Fits(c)
  <1>1. {0, 1, 2, 3, 4, 5, 10} \subseteq 0..255
    BY SMT
  <1>2. /\ 2 + 2 = 4 /\ 2 + 2 + 1 = 5 /\ 1 + 2 + 1 + 1 = 5
        /\ 1 + 2 + 1 = 4
    BY SMT
  <1>3. /\ Part(Cmd("gatt_server_read_attribute_value", 0, 4, 2 + 2))
        /\ Part(Cmd("gatt_server_read_attribute_type", 1, 2, 2))
        /\ Part(Var("gatt_server_write_attribute_value", 2, 5, 2 + 2 + 1))
    BY <1>1, <1>2, CommandPart, ZenonT(40)
  <1>4. /\ Part(Var("gatt_server_send_user_read_response", 3, 5, 1 + 2 + 1 + 1))
        /\ Part(Cmd("gatt_server_send_user_write_response", 4, 4, 1 + 2 + 1))
    BY <1>1, <1>2, CommandPart, ZenonT(40)
  <1> QED
    BY <1>1, <1>3, <1>4, ClassFits, ZenonT(40) DEF GattServerCommands1

LEMMA GattServerCommands2Fit == \A c \in GattServerCommands2 : Fits(c)
  <1>1. {3, 4, 5, 6, 7, 8, 10} \subseteq 0..255
    BY SMT
  <1>2. /\ 1 + 2 + 1 = 4 /\ 2 + 1 = 3 /\ 4 + 4 = 8
    BY SMT
  <1>3. /\ Part(Var("gatt_server_send_characteristic_notification", 5, 4, 1 + 2 + 1))
        /\ Part(Var("gatt_server_find_attribute", 6, 3, 2 + 1))
    BY <1>1, <1>2, CommandPart, ZenonT(40)
  <1>4. /\ Part(Cmd("gatt_server_set_database", 7, 4, 4))
        /\ Part(Cmd("gatt_server_set_capabilities", 8, 8, 4 + 4))
    BY <1>1, <1>2, CommandPart, ZenonT(40)
  <1> QED
    BY <1>1, <1>3, <1>4, ClassFits, ZenonT(40) DEF GattServerCommands2

LEMMA GattServerCommands3Fit == \A c \in GattServerCommands3 : Fits(c)
  <1>1. {3, 9, 10} \subseteq 0..255
    BY SMT
  <1>2. 2 + 1 = 3
    BY SMT
  <1>3. /\ Part(Var("gatt_server_find_primary_service", 9, 3, 2 + 1))
    BY <1>1, <1>2, CommandPart, ZenonT(40)
  <1> QED
    BY <1>1, <1>3, ClassFits, ZenonT(40) DEF GattServerCommands3

LEMMA EndpointCommandsFit == \A c \in EndpointCommands : Fits(c)
  <1>1. {1, 2, 11} \subseteq 0..255
    BY SMT
  <1>2. /\ Part(Cmd("endpoint_close", 2, 1, 1))
    BY <1>1, CommandPart, ZenonT(40)
  <1> QED
    BY <1>1, <1>2, ClassFits, ZenonT(40) DEF EndpointCommands

LEMMA HardwareCommandsFit == \A c \in HardwareCommands : Fits(c)
  <1>1. {0, 1, 6, 10, 11, 12, 13} \subseteq 0..255
    BY SMT
  <1>2. /\ 4 + 1 + 1 = 6 /\ 4 + 4 + 1 + 1 = 10
    BY SMT
  <1>3. /\ Part(Cmd("hardware_set_soft_timer", 0, 6, 4 + 1 + 1))
        /\ Part(Cmd("hardware_get_time", 11, 0, 0))
    BY <1>1, <1>2, CommandPart, ZenonT(40)
  <1>4. /\ Part(Cmd("hardware_set_lazy_soft_timer", 12, 10, 4 + 4 + 1 + 1))
        /\ Part(Cmd("hardware_enable_dcdc", 13, 1, 1))
    BY <1>1, <1>2, CommandPart, ZenonT(40)
  <1> QED
    BY <1>1, <1>3, <1>4, ClassFits, ZenonT(40) DEF HardwareCommands

LEMMA FlashCommandsFit == \A c \in FlashCommands : Fits(c)
  <1>1. {0, 1, 2, 3, 4, 13} \subseteq 0..255
    BY SMT
  <1>2. 2 + 1 = 3
    BY SMT
  <1>3. /\ Part(Cmd("flash_ps_erase_all", 1, 0, 0))
        /\ Part(Var("flash_ps_save", 2, 3, 2 + 1))
    BY <1>1, <1>2, CommandPart, ZenonT(40)
  <1>4. /\ Part(Cmd("flash_ps_load", 3, 2, 2))
        /\ Part(Cmd("flash_ps_erase", 4, 2, 2))
    BY <1>1, <1>2, CommandPart, ZenonT(40)
  <1> QED
    BY <1>1, <1>3, <1>4, ClassFits, ZenonT(40) DEF FlashCommands

LEMMA TestCommands1Fit == \A c \in TestCommands1 : Fits(c)
  <1>1. {0, 1, 2, 4, 7, 14} \subseteq 0..255
    BY SMT
  <1>2. /\ 1 + 1 + 1 + 1 = 4 /\ 1 + 1 = 2
    BY SMT
  <1>3. /\ Part(Cmd("test_dtm_tx", 0, 4, 1 + 1 + 1 + 1))
        /\ Part(Cmd("test_dtm_rx", 1, 2, 1 + 1))
    BY <1>1, <1>2, CommandPart, ZenonT(40)
  <1>4. /\ Part(Cmd("test_dtm_end", 2, 0, 0))
        /\ Part(Var("test_debug_command", 7, 2, 1 + 1))
    BY <1>1, <1>2, CommandPart, ZenonT(40)
  <1> QED
    BY <1>1, <1>3, <1>4, ClassFits, ZenonT(40) DEF TestCommands1

LEMMA TestCommands2Fit == \A c \in TestCommands2 : Fits(c)
  <1>1. {4, 12, 14} \subseteq 0..255
    BY SMT
  <1>2. /\ Part(Cmd("test_debug_counter", 12, 4, 4))
    BY <1>1, CommandPart, ZenonT(40)
  <1> QED
    BY <1>1, <1>2, ClassFits, ZenonT(40) DEF TestCommands2

LEMMA SmCommands1Fit == \A c \in SmCommands1 : Fits(c)
  <1>1. {0, 1, 2, 4, 6, 15} \subseteq 0..255
    BY SMT
  <1>2. 1 + 1 = 2
    BY SMT
  <1>3. /\ Part(Cmd("sm_set_bondable_mode", 0, 1, 1))
        /\ Part(Cmd("sm_configure", 1, 2, 1 + 1))
        /\ Part(Cmd("sm_store_bonding_configuration", 2, 2, 1 + 1))
    BY <1>1, <1>2, CommandPart, ZenonT(40)
  <1>4. /\ Part(Cmd("sm_increase_security", 4, 1, 1))
        /\ Part(Cmd("sm_delete_bonding", 6, 1, 1))
    BY <1>1, <1>2, CommandPart, ZenonT(40)
  <1> QED
    BY <1>1, <1>3, <1>4, ClassFits, ZenonT(40) DEF SmCommands1

LEMMA SmCommands2Fit == \A c \in SmCommands2 : Fits(c)
  <1>1. {0, 1, 2, 5, 7, 8, 9, 10, 11, 14, 15} \subseteq 0..255
    BY SMT
  <1>2. /\ 1 + 4 = 5 /\ 1 + 1 = 2
    BY SMT
  <1>3. /\ Part(Cmd("sm_delete_bondings", 7, 0, 0))
        /\ Part(Cmd("sm_enter_passkey", 8, 5, 1 + 4))
        /\ Part(Cmd("sm_passkey_confirm", 9, 2, 1 + 1))
    BY <1>1, <1>2, CommandPart, ZenonT(40)
  <1>4. /\ Part(Var("sm_set_oob_data", 10, 1, 1))
        /\ Part(Cmd("sm_list_all_bondings", 11, 0, 0))
        /\ Part(Cmd("sm_bonding_confirm", 14, 2, 1 + 1))
    BY <1>1, <1>2, CommandPart, ZenonT(40)
  <1> QED
    BY <1>1, <1>3, <1>4, ClassFits, ZenonT(40) DEF SmCommands2

LEMMA SmCommands3Fit == \A c \in SmCommands3 : Fits(c)
  <1>1. {0, 1, 4, 15, 16, 17, 18} \subseteq 0..255
    BY SMT
  <1>2. /\ Part(Cmd("sm_set_debug_mode", 15, 0, 0))
        /\ Part(Cmd("sm_set_passkey", 16, 4, 4))
    BY <1>1, CommandPart, ZenonT(40)
  <1>3. /\ Part(Cmd("sm_use_sc_oob", 17, 1, 1))
        /\ Part(Var("sm_set_sc_remote_oob_data", 18, 1, 1))
    BY <1>1, CommandPart, ZenonT(40)
  <1> QED
    BY <1>1, <1>2, <1>3, ClassFits, ZenonT(40) DEF SmCommands3

LEMMA HomekitCommands1Fit == \A c \in HomekitCommands1 : Fits(c)
  <1>1. {0, 1, 2, 3, 4, 6, 16, 19} \subseteq 0..255
    BY SMT
  <1>2. /\ 1 + 1 + 1 + 2 + 1 + 2 + 2 + 4 + 2 = 16 /\ 1 + 2 + 2 + 1 = 6
    BY SMT
  <1>3. /\ Part(Cmd("homekit_configure", 0, 16, 1 + 1 + 1 + 2 + 1 + 2 + 2 + 4 + 2))
        /\ Part(Cmd("homekit_advertise", 1, 6, 1 + 2 + 2 + 1))
        /\ Part(Cmd("homekit_delete_pairings", 2, 0, 0))
    BY <1>1, <1>2, CommandPart, ZenonT(40)
  <1>4. /\ Part(Cmd("homekit_check_authcp", 3, 0, 0))
        /\ Part(Cmd("homekit_get_pairing_id", 4, 1, 1))
    BY <1>1, <1>2, CommandPart, ZenonT(40)
  <1> QED
    BY <1>1, <1>3, <1>4, ClassFits, ZenonT(40) DEF HomekitCommands1

LEMMA HomekitCommands2Fit == \A c \in HomekitCommands2 : Fits(c)
  <1>1. {1, 4, 5, 6, 7, 8, 19} \subseteq 0..255
    BY SMT
  <1>2. /\ 1 + 2 + 1 = 4 /\ 1 + 2 + 1 + 2 + 1 = 7 /\ 1 + 2 + 1 + 1 = 5
    BY SMT
  <1>3. /\ Part(Cmd("homekit_send_write_response", 5, 4, 1 + 2 + 1))
        /\ Part(Var("homekit_send_read_response", 6, 7, 1 + 2 + 1 + 2 + 1))
    BY <1>1, <1>2, CommandPart, ZenonT(40)
  <1>4. /\ Part(Cmd("homekit_gsn_action", 7, 1, 1))
        /\ Part(Var("homekit_event_notification", 8, 5, 1 + 2 + 1 + 1))
    BY <1>1, <1>2, CommandPart, ZenonT(40)
  <1> QED
    BY <1>1, <1>3, <1>4, ClassFits, ZenonT(40) DEF HomekitCommands2

LEMMA HomekitCommands3Fit == \A c \in HomekitCommands3 : Fits(c)
  <1>1. {2, 9, 19} \subseteq 0..255
    BY SMT
  <1>2. 1 + 1 = 2
    BY SMT
  <1>3. /\ Part(Var("homekit_broadcast_action", 9, 2, 1 + 1))
    BY <1>1, <1>2, CommandPart, ZenonT(40)
  <1> QED
    BY <1>1, <1>3, ClassFits, ZenonT(40) DEF HomekitCommands3

LEMMA CoexCommandsFit == \A c \in CoexCommands : Fits(c)
  <1>1. {0, 1, 8, 32} \subseteq 0..255
    BY SMT
  <1>2. 4 + 4 = 8
    BY SMT
  <1>3. /\ Part(Cmd("coex_set_options", 0, 8, 4 + 4))
        /\ Part(Cmd("coex_get_counters", 1, 1, 1))
    BY <1>1, <1>2, CommandPart, ZenonT(40)
  <1> QED
    BY <1>1, <1>3, ClassFits, ZenonT(40) DEF CoexCommands

LEMMA UserCommandsFit == \A c \in UserCommands : Fits(c)
  <1>1. {0, 1, 255} \subseteq 0..255
    BY SMT
  <1>2. /\ Part(Var("user_message_to_target", 0, 1, 1))
    BY <1>1, CommandPart, ZenonT(40)
  <1> QED
    BY <1>1, <1>2, ClassFits, ZenonT(40) DEF UserCommands

LEMMA CommandsFit == \A c \in Commands : Fits(c)
  BY DfuCommandsFit, SystemCommands1Fit, SystemCommands2Fit,
     LeGapCommands1Fit, LeGapCommands2Fit, LeGapCommands3Fit,
     LeGapCommands4Fit, LeGapCommands5Fit, LeGapCommands6Fit,
     LeGapCommands7Fit, LeGapCommands8Fit, LeConnectionCommands1Fit,
     LeConnectionCommands2Fit, GattCommands1Fit, GattCommands2Fit,
     GattCommands3Fit, GattCommands4Fit, GattCommands5Fit,
     GattServerCommands1Fit, GattServerCommands2Fit, GattServerCommands3Fit,
     EndpointCommandsFit, HardwareCommandsFit, FlashCommandsFit,
     TestCommands1Fit, TestCommands2Fit, SmCommands1Fit,
     SmCommands2Fit, SmCommands3Fit, HomekitCommands1Fit,
     HomekitCommands2Fit, HomekitCommands3Fit, CoexCommandsFit,
     UserCommandsFit
  DEF Commands

\* The word made of the bytes of a type, a length l, a class k and an index i.
Word(l, k, i) == 32 + (l * 256) + (k * 65536) + (i * 16777216)

\* Taken apart again it has the length, the class and the index it was made of.
LEMMA BytesOfWord ==
  ASSUME NEW l \in 0..255, NEW k \in 0..255, NEW i \in 0..255
  PROVE  /\ MsgLen(Word(l, k, i)) = l
         /\ MsgClass(Word(l, k, i)) = k
         /\ MsgIndex(Word(l, k, i)) = i
  <1> DEFINE h == Word(l, k, i)
  <1>0. h = 32 + (l * 256) + (k * 65536) + (i * 16777216)
    BY DEF Word
  <1> HIDE DEF h
  <1>1. h \div 16777216 = i
    BY <1>0, SMTT(30)
  <1>2. (h \div 65536) % 256 = k
    <2>1. h \div 65536 = k + (i * 256)
      BY <1>0, SMTT(30)
    <2> QED
      BY <2>1, SMTT(30)
  <1>3. (h \div 256) % 256 = l
    <2>1. h \div 256 = l + (256 * (k + (i * 256)))
      BY <1>0, SMTT(30)
    <2> QED
      BY <2>1, SMTT(30)
  <1>4. h % 8 = 0
    BY <1>0, SMTT(30)
  <1>5. ((h % 8) * 256) + ((h \div 256) % 256) = l
    BY <1>3, <1>4, SMTT(30)
  <1>6. MsgLen(h) = l /\ MsgClass(h) = k /\ MsgIndex(h) = i
    BY <1>1, <1>2, <1>5 DEF MsgLen, MsgClass, MsgIndex
  <1> QED
    BY <1>6 DEF h

\* The bytes of a command that is short enough fit the byte of the length.
LEMMA LengthFits ==
  ASSUME NEW f \in 0..255, NEW n \in 0..255,
         n = 0 \/ ~(n > 256 - f), f + n # 256
  PROVE  f + n \in 0..255
  BY SMTT(30)

\* Whatever is sent for a command that passes the check of its length is heard as that
\* command with all of its parameters, unless they are exactly MaxPayload bytes long:
\* the inline functions of host_gecko.h and BGLIB_MSG_LEN agree but for that length.
THEOREM HeadersAgree ==
  \A c \in Commands : \A n \in 0..255 :
     /\ c.array \/ n = 0
     /\ ~TooLong(c, n)
     /\ c.fixed + n # MaxPayload
     => /\ MsgLen(Header(c, n)) = c.fixed + n
        /\ MsgClass(Header(c, n)) = c.class
        /\ MsgIndex(Header(c, n)) = c.index
  <1> TAKE c \in Commands
  <1> TAKE n \in 0..255
  <1> HAVE (c.array \/ n = 0) /\ ~TooLong(c, n) /\ c.fixed + n # MaxPayload
  <1>1. c.class \in 0..255 /\ c.index \in 0..255 /\ c.fixed \in 0..255
    BY CommandsFit DEF Fits
  <1>2. c.fixed + n \in 0..255
    <2>1. n = 0 \/ ~(n > 256 - c.fixed)
      BY Zenon DEF TooLong, MaxPayload
    <2>2. c.fixed + n # 256
      BY DEF MaxPayload
    <2> QED
      BY <1>1, <2>1, <2>2, LengthFits, ZenonT(40)
  <1>3. Header(c, n) = Word(c.fixed + n, c.class, c.index)
    BY DEF Header, Word
  <1>4. /\ MsgLen(Word(c.fixed + n, c.class, c.index)) = c.fixed + n
        /\ MsgClass(Word(c.fixed + n, c.class, c.index)) = c.class
        /\ MsgIndex(Word(c.fixed + n, c.class, c.index)) = c.index
    BY <1>1, <1>2, BytesOfWord, ZenonT(40)
  <1> QED
    BY <1>3, <1>4, ZenonT(40)

\* A command of exactly MaxPayload bytes is sent, and its header says that it has none
\* and is of the next class.
THEOREM LongestIsMisread ==
  \A c \in Commands : \A n \in 0..255 :
     c.array /\ c.fixed + n = MaxPayload /\ c.class < 255
     => /\ ~TooLong(c, n)
        /\ MsgLen(Header(c, n)) = 0
        /\ MsgClass(Header(c, n)) = c.class + 1
  <1> TAKE c \in Commands
  <1> TAKE n \in 0..255
  <1> HAVE c.array /\ c.fixed + n = MaxPayload /\ c.class < 255
  <1>1. c.class \in 0..255 /\ c.index \in 0..255 /\ c.fixed \in 0..255
    BY CommandsFit DEF Fits
  <1>2. ~TooLong(c, n)
    <2>1. ~(n > MaxPayload - c.fixed)
      BY <1>1, SMTT(30) DEF MaxPayload
    <2> QED
      BY <2>1 DEF TooLong
  <1>3. Header(c, n) = Word(0, c.class + 1, c.index)
    BY <1>1, SMTT(30) DEF Header, Word, MaxPayload
  <1>4. PICK l \in 0..255 : l = 0
    BY SMTT(30)
  <1>5. PICK k \in 0..255 : k = c.class + 1
    BY <1>1, SMTT(30)
  <1>6. /\ MsgLen(Word(l, k, c.index)) = l
        /\ MsgClass(Word(l, k, c.index)) = k
        /\ MsgIndex(Word(l, k, c.index)) = c.index
    BY <1>1, BytesOfWord, ZenonT(40)
  <1> QED
    BY <1>2, <1>3, <1>4, <1>5, <1>6, ZenonT(40)
==============================================================================
