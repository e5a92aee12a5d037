--------------------------- MODULE MCIpmiCommands ---------------------------
(***************************************************************************)
(* The IPMI commands for TLC.  Commands that share no state of the device  *)
(* are in different sessions.  Each command gets the lengths around those  *)
(* it tests for, and every value of its bytes that it tells apart.         *)
(***************************************************************************)
EXTENDS IpmiCommands, TLC

\* One request for each combination of a length and of the bytes, given as
\* sets of their values.
Reqs(netfn, cmd, srcs, lens, b0, b1, b2, b3, b4, b5) ==
  {[netfn |-> netfn, cmd |-> cmd, src |-> s, len |-> n,
    b |-> (0 :> v0 @@ 1 :> v1 @@ 2 :> v2 @@ 3 :> v3 @@ 4 :> v4 @@ 5 :> v5)] :
      s \in srcs, n \in lens, v0 \in b0, v1 \in b1, v2 \in b2, v3 \in b3, v4 \in b4, v5 \in b5}

Z == {0}
BMC == {"BMC_IPMB"}
One(netfn, cmd, lens) == Reqs(netfn, cmd, BMC, lens, Z, Z, Z, Z, Z, Z)
Byte(netfn, cmd, lens, b0) == Reqs(netfn, cmd, BMC, lens, b0, Z, Z, Z, Z, Z)

Flash ==
  Reqs("OEM_1S", "FW_UPDATE", BMC, {7, 8, 9}, {"BIOS", "BIC", "CPLD", "CXL", "PRoT", "other"},
       {0, 1}, Z, Z, Z, {0, 1}) \cup
  Reqs("OEM_1S", "READ_FW_IMAGE", BMC, {5, 6}, {"BIOS", "PRoT", "other"}, Z, Z, Z, Z, {16}) \cup
  Reqs("OEM_1S", "GET_FW_SHA256", BMC, {8, 9}, {"BIOS", "PRoT", "other"}, Z, Z, Z, Z, {32}) \cup
  Byte("OEM_1S", "GET_FW_VERSION", {0, 1}, {"BIC", "ME", "VR", "CPLD"}) \cup
  One("OEM_1S", "COPY_FLASH_IMAGE", {0})

Sensing ==
  Byte("OEM_1S", "SENSOR_POLL_EN", {0, 1}, {0, 1, 2}) \cup
  Reqs("OEM_1S", "ACCURACY_SENSOR_READING", BMC, {1, 2}, {1, 9}, {"CACHE", "SENSOR", "other"}, Z, Z, Z, Z) \cup
  UNION {Reqs("OEM_1S", "CONTROL_SENSOR_POLLING", BMC, {1 + Cardinality(S), 2 + Cardinality(S)},
              {Cardinality(S)}, {0, 1, 2}, {S}, Z, Z, Z) : S \in SUBSET {1, 2, 9}} \cup
  Reqs("OEM_1S", "CONTROL_SENSOR_POLLING", BMC, {13}, {11}, {0}, {{1}}, Z, Z, Z) \cup
  One("OEM_1S", "MULTI_ACCURACY_SENSOR_READING", {0, 1, 32, 33}) \cup
  Byte("SENSOR", "GET_SENSOR_READING", {0, 1}, {1, 9}) \cup One("SENSOR", "other", {0}) \cup
  Byte("OEM", "NM_SENSOR_READ", {2, 3}, {0, 1})

Pins ==
  Reqs("OEM_1S", "GET_SET_GPIO", BMC, 1 .. 4, {"GET", "GET_DIR", "SET", "SET_DIR", "other"},
       {0, 1, 2}, {0, 1}, {"KEY", "other"}, Z, Z) \cup
  Reqs("OEM_1S", "GET_SET_BIC_VGPIO", BMC, {2, 3}, {"GET", "SET", "other"}, Z, Z, Z, Z, Z) \cup
  One("OEM_1S", "GET_GPIO", {0, 1}) \cup One("OEM_1S", "GET_GPIO_CONFIG", {0})

Fans ==
  UNION {Reqs(c[1], c[2], Slots \cup BMC, {1, 2}, {0, 1, 2, INDEX_ALL_PWM}, {1, 2, 3}, Z, Z, Z, Z) :
           c \in {<<"OEM_1S", "SET_FAN_DUTY_AUTO">>, <<"OEM", "SET_FAN_DUTY_MANUAL">>}} \cup
  Byte("OEM", "GET_SET_FAN_CTRL_MODE", {0, 1}, 0 .. 3) \cup
  Reqs("OEM_1S", "GET_FAN_DUTY", Slots \cup BMC, {0, 1}, {0, 2}, Z, Z, Z, Z, Z) \cup
  One("OEM_1S", "GET_FAN_RPM", {0, 1}) \cup One("OEM", "CABLE_DETECTION", {0}) \cup
  One("OEM", "GET_CHASSIS_POSITION", {0}) \cup One("OEM", "GET_HTTP_BOOT_DATA", {0}) \cup
  One("OEM", "GET_HTTP_BOOT_ATTR", {0})

Records ==
  Reqs("STORAGE", "RSV_SDR", Slots \cup BMC, {0, 1}, Z, Z, Z, Z, Z, Z) \cup
  UNION {Reqs(c[1], c[2], Slots \cup BMC, {5, 6}, 0 .. 2, Z, {0, 1}, Z, {0, 1}, {16, 255}) :
           c \in {<<"STORAGE", "GET_SDR">>, <<"OEM_1S", "OEM_1S_GET_SDR">>}} \cup
  Byte("STORAGE", "GET_FRUID_INFO", {0, 1}, {0, 1}) \cup
  Reqs("STORAGE", "READ_FRUID_DATA", BMC, {3, 4}, Z, Z, Z, {32, 33}, Z, Z) \cup
  One("STORAGE", "WRITE_FRUID_DATA", {3, 4, 35, 36}) \cup One("STORAGE", "ADD_SEL", {15, 16}) \cup
  One("STORAGE", "other", {0}) \cup One("OEM", "SET_SYSTEM_GUID", {15, 16}) \cup
  Reqs("OEM", "GET_MB_INDEX", Slots \cup BMC, {0, 1}, Z, Z, Z, Z, Z, Z)

Control ==
  Byte("OEM_1S", "SET_WDT_FEED", {0, 1}, 0 .. 2) \cup
  Byte("OEM_1S", "ASD_INIT", {0, 1}, {0, 1, 255}) \cup
  Byte("OEM_1S", "SET_VR_MONITOR_STATUS", {0, 1}, 0 .. 2) \cup
  Byte("APP", "SET_BMC_GLOBAL_ENABLES", {0, 1}, {0, 1}) \cup
  UNION {One("OEM_1S", c, {0, 1}) : c \in
    {"GET_VR_MONITOR_STATUS", "GET_BIC_STATUS", "RESET_BIC", "RESET_BMC", "12V_CYCLE_SLOT", "CLEAR_CMOS",
     "GET_BOARD_ID", "I2C_DEV_SCAN", "INFORM_BMC_TO_CONTROL_POWER", "GET_POST_CODE",
     "SET_ADD_DEBUG_SEL_MODE", "GET_APML_RESPONSE", "GET_HSC_STATUS", "GET_BIOS_VERSION", "GET_SET_M2",
     "PEX_FLASH_READ", "CLEAR_CMET", "other"}} \cup
  UNION {One("OEM_1S", c, {1, 2, 3}) : c \in
    {"SET_JTAG_TAP_STA", "NOTIFY_PMIC_ERROR", "BMC_IPMB_ACCESS", "SEND_MCTP_PLDM_COMMAND"}} \cup
  Reqs("OEM_1S", "MSG_OUT", {"SLOT1_BIC", "BMC_IPMB"}, {2, 3}, {"PEER_BMC_IPMB", "ME_IPMB"}, Z, Z, Z,
       {0, 1}, {0, 1}) \cup
  Byte("OEM_1S", "GET_BIC_FW_INFO", {0, 1}, {3, 4}) \cup
  Byte("OEM_1S", "GET_4BYTE_POST_CODE", {0, 1}, {17, 18}) \cup
  Reqs("OEM_1S", "PECI_ACCESS", BMC, {2, 3, 4}, Z, {0, 1, 2}, {0, 4}, Z, Z, Z) \cup
  Reqs("OEM_1S", "JTAG_DATA_SHIFT", BMC, {5, 6}, {0, 1}, Z, {2}, Z, Z, Z) \cup
  Reqs("OEM_1S", "READ_BIC_REGISTER", BMC, {4, 5}, Z, Z, Z, Z, {4}, Z) \cup
  Reqs("OEM_1S", "WRITE_BIC_REGISTER", BMC, {5, 6, 9}, {0, 2}, Z, Z, Z, {0, 1, 4, 5}, Z) \cup
  Byte("OEM_1S", "APML_READ", {1, 2}, 0 .. 2) \cup Byte("OEM_1S", "APML_WRITE", {2, 3}, 0 .. 2) \cup
  UNION {One("APP", c, {0, 1}) : c \in {"GET_DEVICE_ID", "COLD_RESET", "GET_BMC_GLOBAL_ENABLES", "other"}} \cup
  UNION {One("CHASSIS", c, {0, 1}) : c \in {"GET_CHASSIS_STATUS", "other"}} \cup One("other", "other", {0})

Apml == Reqs("OEM_1S", "SEND_APML_REQUEST", BMC, {0, 1, 8}, 0 .. 3, Z, Z, Z, Z, {7}) \cup
        Byte("OEM_1S", "GET_APML_RESPONSE", {0, 1}, {0})

MCSessions ==
  [flash |-> Flash, sensing |-> Sensing, pins |-> Pins, fans |-> Fans, records |-> Records,
   control |-> Control, apml |-> Apml]
MCGpioTable == <<1, 0, 3>>
=============================================================================
