------------------------- MODULE IpmiCommandsProofs -------------------------
(***************************************************************************)
(* Proofs about IpmiCommands, for every set of requests, that is for every *)
(* length and every value of every byte of every command, every table of   *)
(* pins and any number of fans.                                            *)
(*                                                                         *)
(* A handler is careful if its results leave the device as it was, unless  *)
(* the command succeeds, and then at least the reservations and duties.    *)
(* That goes through the tests and driver calls a handler is made of, so   *)
(* that each handler needs one step.  The four handlers that are not       *)
(* careful have lemmas of their own.                                       *)
(***************************************************************************)
EXTENDS IpmiCommands, TLAPS

\* Reservations and duties are the same.
SameSlots(d, e) == e.rsv = d.rsv /\ e.duty = d.duty /\ DOMAIN e = DOMAIN d

Careful(R, d) == \A r \in R : r.dev = d \/ (r.cc = "SUCCESS" /\ SameSlots(d, r.dev))

\* Either all tests of a handler pass, or it answers an error.
LEMMA CheckedCases ==
  ASSUME NEW tests, NEW d, NEW R
  PROVE  \/ Checked(tests, d, R) = R /\ \A i \in DOMAIN tests : tests[i][1]
         \/ \E code : Checked(tests, d, R) = Err(code, d)
BY DEF Checked

\* What handlers are made of.
LEMMA CarefulParts ==
  /\ \A code, d : Careful(Err(code, d), d)
  /\ \A code, d : Careful(Stub(code, d), d)
  /\ \A n, d : Careful(Ok(n, d), d)
  /\ \A n, d, e : SameSlots(d, e) => Careful(Ok(n, e), d)
  /\ \A d, R, S : Careful(R, d) /\ Careful(S, d) => Careful(R \cup S, d)
  /\ \A code, d, R : Careful(R, d) => Careful(Try(code, d, R), d)
  /\ \A tests, d, R : Careful(R, d) => Careful(Checked(tests, d, R), d)
<1>1. \A code, d : Careful(Err(code, d), d)
  BY DEF Careful, Err
<1>2. \A n, d : Careful(Ok(n, d), d)
  BY DEF Careful, Ok
<1>3. \A n, d, e : SameSlots(d, e) => Careful(Ok(n, e), d)
  BY DEF Careful, Ok
<1>4. \A d, R, S : Careful(R, d) /\ Careful(S, d) => Careful(R \cup S, d)
  BY DEF Careful
<1>5. \A tests, d, R : Careful(R, d) => Careful(Checked(tests, d, R), d)
  BY <1>1, CheckedCases, Zenon
<1> QED BY <1>1, <1>2, <1>3, <1>4, <1>5, Zenon DEF Try, Stub

\* Commands that ask, or that set what is not part of the model.
LEMMA Inquiries1S ==
  ASSUME NEW m, NEW d
  PROVE  /\ Careful(OEM_1S_MSG_OUT(m, d), d)
         /\ Careful(OEM_1S_GET_GPIO(m, d), d)
         /\ Careful(OEM_1S_GPIO_CONFIG(m, d), d)
         /\ Careful(OEM_1S_GET_BIC_FW_INFO(m, d), d)
         /\ Careful(OEM_1S_INFORM_BMC_TO_CONTROL_POWER(m, d), d)
         /\ Careful(OEM_1S_RESET_BMC(m, d), d)
         /\ Careful(OEM_1S_READ_FW_IMAGE(m, d), d)
         /\ Careful(OEM_1S_GET_POST_CODE(m, d), d)
         /\ Careful(OEM_1S_GET_4BYTE_POST_CODE(m, d), d)
         /\ Careful(OEM_1S_PECI_ACCESS(m, d), d)
         /\ Careful(OEM_1S_SET_JTAG_TAP_STA(m, d), d)
         /\ Careful(OEM_1S_JTAG_DATA_SHIFT(m, d), d)
         /\ Careful(OEM_1S_ACCURACY_SENSOR_READING(m, d), d)
         /\ Careful(OEM_1S_GET_SET_BIC_VGPIO(m, d), d)
         /\ Careful(OEM_1S_GET_FW_SHA256(m, d), d)
         /\ Careful(OEM_1S_I2C_DEV_SCAN(m, d), d)
         /\ Careful(OEM_1S_GET_BIC_STATUS(m, d), d)
         /\ Careful(OEM_1S_GET_VR_MONITOR_STATUS(m, d), d)
         /\ Careful(OEM_1S_RESET_BIC(m, d), d)
         /\ Careful(OEM_1S_M2_AND_SSD(m, d), d)
         /\ Careful(OEM_1S_12V_CYCLE_SLOT(m, d), d)
         /\ Careful(OEM_1S_READ_BIC_REGISTER(m, d), d)
         /\ Careful(OEM_1S_WRITE_BIC_REGISTER(m, d), d)
         /\ Careful(OEM_1S_GET_FAN_DUTY(m, d), d)
         /\ Careful(OEM_1S_GET_FAN_RPM(m, d), d)
         /\ Careful(OEM_1S_COPY_FLASH_AND_SLED_CYCLE(m, d), d)
         /\ Careful(OEM_1S_EMPTY(m, d), d)
         /\ Careful(OEM_1S_GET_BOARD_ID(m, d), d)
         /\ Careful(OEM_1S_MULTI_ACCURACY_SENSOR_READING(m, d), d)
         /\ Careful(OEM_1S_CLEAR_CMOS(m, d), d)
         /\ Careful(OEM_1S_APML_READ(m, d), d)
         /\ Careful(OEM_1S_APML_WRITE(m, d), d)
         /\ Careful(OEM_1S_GET_APML_RESPONSE(m, d), d)
         /\ Careful(OEM_1S_NOTIFY_PMIC_ERROR(m, d), d)
         /\ Careful(OEM_1S_GET_SDR(m, d), d)
         /\ Careful(OEM_1S_BMC_IPMB_ACCESS(m, d), d)
         /\ Careful(OEM_1S_SET_ADD_DEBUG_SEL_MODE(m, d), d)
         /\ Careful(OEM_1S_PLATFORM(m, d), d)
         /\ Careful(OEM_1S_SEND_MCTP_PLDM_COMMAND(m, d), d)
         /\ Careful(OEM_1S_CLEAR_CMET(m, d), d)
<1>1. Careful(OEM_1S_MSG_OUT(m, d), d)
  BY CarefulParts, Zenon DEF OEM_1S_MSG_OUT
<1>2. Careful(OEM_1S_GET_GPIO(m, d), d)
  BY CarefulParts, SMT DEF OEM_1S_GET_GPIO
<1>3. Careful(OEM_1S_GPIO_CONFIG(m, d), d)
  BY CarefulParts, Zenon DEF OEM_1S_GPIO_CONFIG
<1>4. Careful(OEM_1S_GET_BIC_FW_INFO(m, d), d)
  BY CarefulParts, Zenon DEF OEM_1S_GET_BIC_FW_INFO
<1>5. Careful(OEM_1S_INFORM_BMC_TO_CONTROL_POWER(m, d), d)
  BY CarefulParts, Zenon DEF OEM_1S_INFORM_BMC_TO_CONTROL_POWER
<1>6. Careful(OEM_1S_RESET_BMC(m, d), d)
  BY CarefulParts, Zenon DEF OEM_1S_RESET_BMC
<1>7. Careful(OEM_1S_READ_FW_IMAGE(m, d), d)
  BY CarefulParts, SMT DEF OEM_1S_READ_FW_IMAGE
<1>8. Careful(OEM_1S_GET_POST_CODE(m, d), d)
  BY CarefulParts, SMT DEF OEM_1S_GET_POST_CODE
<1>9. Careful(OEM_1S_GET_4BYTE_POST_CODE(m, d), d)
  BY CarefulParts, SMT DEF OEM_1S_GET_4BYTE_POST_CODE
<1>10. Careful(OEM_1S_PECI_ACCESS(m, d), d)
  BY CarefulParts, Zenon DEF OEM_1S_PECI_ACCESS
<1>11. Careful(OEM_1S_SET_JTAG_TAP_STA(m, d), d)
  BY CarefulParts, Zenon DEF OEM_1S_SET_JTAG_TAP_STA
<1>12. Careful(OEM_1S_JTAG_DATA_SHIFT(m, d), d)
  BY CarefulParts, Zenon DEF OEM_1S_JTAG_DATA_SHIFT
<1>13. Careful(OEM_1S_ACCURACY_SENSOR_READING(m, d), d)
  BY CarefulParts, SMT DEF OEM_1S_ACCURACY_SENSOR_READING
<1>14. Careful(OEM_1S_GET_SET_BIC_VGPIO(m, d), d)
  BY CarefulParts, Zenon DEF OEM_1S_GET_SET_BIC_VGPIO
<1>15. Careful(OEM_1S_GET_FW_SHA256(m, d), d)
  BY CarefulParts, SMT DEF OEM_1S_GET_FW_SHA256
<1>16. Careful(OEM_1S_I2C_DEV_SCAN(m, d), d)
  BY CarefulParts, Zenon DEF OEM_1S_I2C_DEV_SCAN
<1>17. Careful(OEM_1S_GET_BIC_STATUS(m, d), d)
  BY CarefulParts, Zenon DEF OEM_1S_GET_BIC_STATUS
<1>18. Careful(OEM_1S_GET_VR_MONITOR_STATUS(m, d), d)
  BY CarefulParts, Zenon DEF OEM_1S_GET_VR_MONITOR_STATUS
<1>19. Careful(OEM_1S_RESET_BIC(m, d), d)
  BY CarefulParts, Zenon DEF OEM_1S_RESET_BIC
<1>20. Careful(OEM_1S_M2_AND_SSD(m, d), d)
  BY CarefulParts, Zenon DEF OEM_1S_M2_AND_SSD
<1>21. Careful(OEM_1S_12V_CYCLE_SLOT(m, d), d)
  BY CarefulParts, Zenon DEF OEM_1S_12V_CYCLE_SLOT
<1>22. Careful(OEM_1S_READ_BIC_REGISTER(m, d), d)
  BY CarefulParts, Zenon DEF OEM_1S_READ_BIC_REGISTER
<1>23. Careful(OEM_1S_WRITE_BIC_REGISTER(m, d), d)
  BY CarefulParts, Zenon DEF OEM_1S_WRITE_BIC_REGISTER
<1>24. Careful(OEM_1S_GET_FAN_DUTY(m, d), d)
  BY CarefulParts, Zenon DEF OEM_1S_GET_FAN_DUTY
<1>25. Careful(OEM_1S_GET_FAN_RPM(m, d), d)
  BY CarefulParts, Zenon DEF OEM_1S_GET_FAN_RPM
<1>26. Careful(OEM_1S_COPY_FLASH_AND_SLED_CYCLE(m, d), d)
  BY CarefulParts, Zenon DEF OEM_1S_COPY_FLASH_AND_SLED_CYCLE
<1>27. Careful(OEM_1S_EMPTY(m, d), d)
  BY CarefulParts, Zenon DEF OEM_1S_EMPTY
<1>28. Careful(OEM_1S_GET_BOARD_ID(m, d), d)
  BY CarefulParts, Zenon DEF OEM_1S_GET_BOARD_ID
<1>29. Careful(OEM_1S_MULTI_ACCURACY_SENSOR_READING(m, d), d)
  BY CarefulParts, Zenon DEF OEM_1S_MULTI_ACCURACY_SENSOR_READING
<1>30. Careful(OEM_1S_CLEAR_CMOS(m, d), d)
  BY CarefulParts, Zenon DEF OEM_1S_CLEAR_CMOS
<1>31. Careful(OEM_1S_APML_READ(m, d), d)
  BY CarefulParts, Zenon DEF OEM_1S_APML_READ
<1>32. Careful(OEM_1S_APML_WRITE(m, d), d)
  BY CarefulParts, Zenon DEF OEM_1S_APML_WRITE
<1>33. Careful(OEM_1S_GET_APML_RESPONSE(m, d), d)
  BY CarefulParts, SMT DEF OEM_1S_GET_APML_RESPONSE
<1>34. Careful(OEM_1S_NOTIFY_PMIC_ERROR(m, d), d)
  BY CarefulParts, Zenon DEF OEM_1S_NOTIFY_PMIC_ERROR
<1>35. Careful(OEM_1S_GET_SDR(m, d), d)
  BY CarefulParts, SMT DEF OEM_1S_GET_SDR
<1>36. Careful(OEM_1S_BMC_IPMB_ACCESS(m, d), d)
  BY CarefulParts, Zenon DEF OEM_1S_BMC_IPMB_ACCESS
<1>37. Careful(OEM_1S_SET_ADD_DEBUG_SEL_MODE(m, d), d)
  BY CarefulParts, Zenon DEF OEM_1S_SET_ADD_DEBUG_SEL_MODE
<1>38. Careful(OEM_1S_PLATFORM(m, d), d)
  BY CarefulParts, Zenon DEF OEM_1S_PLATFORM
<1>39. Careful(OEM_1S_SEND_MCTP_PLDM_COMMAND(m, d), d)
  BY CarefulParts, Zenon DEF OEM_1S_SEND_MCTP_PLDM_COMMAND
<1>40. Careful(OEM_1S_CLEAR_CMET(m, d), d)
  BY CarefulParts, Zenon DEF OEM_1S_CLEAR_CMET
<1> QED BY <1>1, <1>2, <1>3, <1>4, <1>5, <1>6, <1>7, <1>8, <1>9, <1>10, <1>11, <1>12,
           <1>13, <1>14, <1>15, <1>16, <1>17, <1>18, <1>19, <1>20, <1>21, <1>22, <1>23,
           <1>24, <1>25, <1>26, <1>27, <1>28, <1>29, <1>30, <1>31, <1>32, <1>33, <1>34,
           <1>35, <1>36, <1>37, <1>38, <1>39, <1>40

LEMMA Inquiries ==
  ASSUME NEW m, NEW d
  PROVE  /\ Careful(OEM_NM_SENSOR_READ(m, d), d)
         /\ Careful(OEM_SET_SYSTEM_GUID(m, d), d)
         /\ Careful(OEM_GET_MB_INDEX(m, d), d)
         /\ Careful(OEM_NOT_SUPPORTED(m, d), d)
         /\ Careful(STORAGE_GET_FRUID_INFO(m, d), d)
         /\ Careful(STORAGE_GET_SDR(m, d), d)
         /\ Careful(STORAGE_ADD_SEL(m, d), d)
         /\ Careful(SENSOR_GET_SENSOR_READING(m, d), d)
         /\ Careful(APP_GET_DEVICE_ID(m, d), d)
         /\ Careful(APP_RESET(m, d), d)
         /\ Careful(CHASSIS_GET_CHASSIS_STATUS(m, d), d)
<1>1. Careful(OEM_NM_SENSOR_READ(m, d), d)
  BY CarefulParts, SMT DEF OEM_NM_SENSOR_READ
<1>2. Careful(OEM_SET_SYSTEM_GUID(m, d), d)
  BY CarefulParts, Zenon DEF OEM_SET_SYSTEM_GUID
<1>3. Careful(OEM_GET_MB_INDEX(m, d), d)
  BY CarefulParts, Zenon DEF OEM_GET_MB_INDEX
<1>4. Careful(OEM_NOT_SUPPORTED(m, d), d)
  BY CarefulParts, Zenon DEF OEM_NOT_SUPPORTED
<1>5. Careful(STORAGE_GET_FRUID_INFO(m, d), d)
  BY CarefulParts, Zenon DEF STORAGE_GET_FRUID_INFO
<1>6. Careful(STORAGE_GET_SDR(m, d), d)
  BY CarefulParts, SMT DEF STORAGE_GET_SDR
<1>7. Careful(STORAGE_ADD_SEL(m, d), d)
  BY CarefulParts, Zenon DEF STORAGE_ADD_SEL
<1>8. Careful(SENSOR_GET_SENSOR_READING(m, d), d)
  BY CarefulParts, Zenon DEF SENSOR_GET_SENSOR_READING
<1>9. Careful(APP_GET_DEVICE_ID(m, d), d)
  BY CarefulParts, SMT DEF APP_GET_DEVICE_ID
<1>10. Careful(APP_RESET(m, d), d)
  BY CarefulParts, Zenon DEF APP_RESET
<1>11. Careful(CHASSIS_GET_CHASSIS_STATUS(m, d), d)
  BY CarefulParts, Zenon DEF CHASSIS_GET_CHASSIS_STATUS
<1> QED BY <1>1, <1>2, <1>3, <1>4, <1>5, <1>6, <1>7, <1>8, <1>9, <1>10, <1>11

\* Setting a field other than reservations and duties.
LEMMA OtherField ==
  ASSUME NEW d, {"rsv", "duty"} \subseteq DOMAIN d, NEW f, f \notin {"rsv", "duty"}, NEW v
  PROVE  SameSlots(d, [d EXCEPT ![f] = v])
BY DEF SameSlots

\* Commands that set one of the other fields of the device.
LEMMA Settings ==
  ASSUME NEW m, NEW d, {"rsv", "duty"} \subseteq DOMAIN d
  PROVE  /\ Careful(OEM_1S_FW_UPDATE(m, d), d)
         /\ Careful(OEM_1S_GET_FW_VERSION(m, d), d)
         /\ Careful(OEM_1S_SET_WDT_FEED(m, d), d)
         /\ Careful(OEM_1S_SENSOR_POLL_EN(m, d), d)
         /\ Careful(OEM_1S_GET_SET_GPIO(m, d), d)
         /\ Careful(OEM_1S_CONTROL_SENSOR_POLLING(m, d), d)
         /\ Careful(OEM_1S_SET_VR_MONITOR_STATUS(m, d), d)
         /\ Careful(OEM_1S_SEND_APML_REQUEST(m, d), d)
         /\ Careful(OEM_GET_SET_FAN_CTRL_MODE(m, d), d)
         /\ Careful(STORAGE_READ_FRUID_DATA(m, d), d)
         /\ Careful(STORAGE_WRITE_FRUID_DATA(m, d), d)
         /\ Careful(APP_BMC_GLOBAL_ENABLES(m, d), d)
<1>1. Careful(OEM_1S_FW_UPDATE(m, d), d)
  <2> DEFINE Codes == UNION {IF code = "SUCCESS" THEN Ok(0, d) ELSE Err(code, d) : code \in FwCodes}
  <2>1. Careful(Codes, d)
    BY SMT DEF Careful, Ok, Err
  <2>2. Careful(CASE m.b[0] = "BIOS" -> Try("INVALID_PARAM", d, Err("flash", d))
                  [] OTHER -> Codes, d)
    BY <2>1, CarefulParts
  <2> QED BY <2>2, CarefulParts, Zenon DEF OEM_1S_FW_UPDATE
<1>2. Careful(OEM_1S_GET_FW_VERSION(m, d), d)
  <2> DEFINE Tests == << <<m.len = 1, "INVALID_LENGTH">>,
                         <<m.b[0] \in {"BIC", "ME", "VR"}, "UNSPECIFIED_ERROR">> >>
             Versions ==
               CASE m.b[0] = "BIC" -> Ok(7, d)
                 [] m.b[0] = "ME" -> Try("UNSPECIFIED_ERROR", d,
                                       Try("OUT_OF_SPACE", d, Try("BRIDGE_MSG_ERR", d, Ok(5, d))))
                 [] m.b[0] = "VR" -> Try("UNSPECIFIED_ERROR", d, Ok(4, d) \cup Ok(2, d))
  <2>1. Tests[2][1] /\ 2 \in DOMAIN Tests => Careful(Versions, d)
    BY CarefulParts
  <2>2. 2 \in DOMAIN Tests
    OBVIOUS
  <2>3. Careful(Checked(Tests, d, Versions), d)
    <3> HIDE DEF Tests, Versions
    <3>1. \/ Checked(Tests, d, Versions) = Versions /\ \A i \in DOMAIN Tests : Tests[i][1]
          \/ \E code : Checked(Tests, d, Versions) = Err(code, d)
      BY CheckedCases
    <3>2. CASE Checked(Tests, d, Versions) = Versions /\ \A i \in DOMAIN Tests : Tests[i][1]
      BY <3>2, <2>1, <2>2
    <3>3. CASE \E code : Checked(Tests, d, Versions) = Err(code, d)
      BY <3>3, CarefulParts
    <3> QED BY <3>1, <3>2, <3>3
  <2> QED BY <2>3, Zenon DEF OEM_1S_GET_FW_VERSION
<1>3. Careful(OEM_1S_SET_WDT_FEED(m, d), d)
  <2>1. SameSlots(d, [d EXCEPT !.feed = m.b[0]])
    BY OtherField
  <2> QED BY <2>1, CarefulParts, Zenon DEF OEM_1S_SET_WDT_FEED
<1>4. Careful(OEM_1S_SENSOR_POLL_EN(m, d), d)
  <2>1. SameSlots(d, [d EXCEPT !.poll = (m.b[0] = 1)])
    BY OtherField
  <2> QED BY <2>1, CarefulParts, Zenon DEF OEM_1S_SENSOR_POLL_EN
<1>5. Careful(OEM_1S_GET_SET_GPIO(m, d), d)
  <2> DEFINE x == gpio_idx_exchange(m)
             Put(S) == IF m.b[2] = 0 THEN S \ {x.num} ELSE S \cup {x.num}
             Done == CASE m.b[0] = "SET" -> Ok(2, [d EXCEPT !.high = Put(@)])
                       [] m.b[0] = "SET_DIR" -> Ok(2, [d EXCEPT !.out = Put(@)])
                       [] OTHER -> Ok(2, d)
  <2>1. /\ SameSlots(d, [d EXCEPT !.high = Put(@)])
        /\ SameSlots(d, [d EXCEPT !.out = Put(@)])
    BY DEF SameSlots
  <2>2. Careful(Done, d)
    BY <2>1, CarefulParts
  <2> QED BY <2>2, CarefulParts, SMT DEF OEM_1S_GET_SET_GPIO
<1>6. Careful(OEM_1S_CONTROL_SENSOR_POLLING(m, d), d)
  <2>1. SameSlots(d, [d EXCEPT !.polled = Switched(m.b[1], m.b[2], d)])
    BY OtherField
  <2> QED BY <2>1, CarefulParts, SMT DEF OEM_1S_CONTROL_SENSOR_POLLING
<1>7. Careful(OEM_1S_SET_VR_MONITOR_STATUS(m, d), d)
  <2>1. SameSlots(d, [d EXCEPT !.vr = (m.b[0] = 1)])
    BY OtherField
  <2> QED BY <2>1, CarefulParts, Zenon DEF OEM_1S_SET_VR_MONITOR_STATUS
<1>8. Careful(OEM_1S_SEND_APML_REQUEST(m, d), d)
  <2>1. SameSlots(d, [d EXCEPT !.apml = (@ + 1) % 256])
    BY DEF SameSlots
  <2> QED BY <2>1, CarefulParts, SMT DEF OEM_1S_SEND_APML_REQUEST
<1>9. Careful(OEM_GET_SET_FAN_CTRL_MODE(m, d), d)
  <2>1. /\ SameSlots(d, [d EXCEPT !.mode = "MANUAL"])
        /\ SameSlots(d, [d EXCEPT !.mode = "AUTO"])
    BY OtherField
  <2> QED BY <2>1, CarefulParts, SMT DEF OEM_GET_SET_FAN_CTRL_MODE
<1>10. Careful(FruFails(d), d)
  BY SMT DEF FruFails, Careful, Err
<1>11. Careful(STORAGE_READ_FRUID_DATA(m, d), d)
  BY <1>10, CarefulParts, Zenon DEF STORAGE_READ_FRUID_DATA
<1>12. Careful(STORAGE_WRITE_FRUID_DATA(m, d), d)
  BY <1>10, CarefulParts, Zenon DEF STORAGE_WRITE_FRUID_DATA
<1>13. Careful(APP_BMC_GLOBAL_ENABLES(m, d), d)
  <2>1. SameSlots(d, [d EXCEPT !.enables = m.b[0]])
    BY OtherField
  <2> QED BY <2>1, CarefulParts, Zenon DEF APP_BMC_GLOBAL_ENABLES
<1> QED BY <1>1, <1>2, <1>3, <1>4, <1>5, <1>6, <1>7, <1>8, <1>9, <1>11, <1>12, <1>13

----------------------------------------------------------------------------
(***************************************************************************)
(* The four commands that change reservations, duties or, with an error,   *)
(* the PRDY interrupt                                                      *)
(***************************************************************************)
\* The parts of the device the proofs rely on.
DeviceOK(d) ==
  /\ {"rsv", "duty", "prdy"} \subseteq DOMAIN d
  /\ DOMAIN d.rsv = Slots /\ DOMAIN d.duty = Slots
  /\ \A s \in Slots : DOMAIN d.duty[s] = Pwm /\ \A p \in Pwm : d.duty[s][p] <= MAX_FAN_DUTY_VALUE

DutyTable(f) == DOMAIN f = Pwm /\ \A p \in Pwm : f[p] <= MAX_FAN_DUTY_VALUE

Disarmed(m, d, r) == m.cmd = "ASD_INIT" /\ r.cc # "flash" /\ r.dev = [d EXCEPT !.prdy = FALSE]
Reserved(m, d, r) == r.cc = "SUCCESS" /\ \E v : r.dev = [d EXCEPT !.rsv[RsvTable(m.src)] = v]
FansSet(m, d, r) ==
  /\ m.src \in Slots
  /\ m.cmd = IF d.mode = "AUTO" THEN "SET_FAN_DUTY_AUTO" ELSE "SET_FAN_DUTY_MANUAL"
  /\ r.cc # "flash" /\ (r.cc # "SUCCESS" => m.cmd = "SET_FAN_DUTY_MANUAL")
  /\ \E f : DutyTable(f) /\ r.dev = [d EXCEPT !.duty[m.src] = f]

\* What a result r of request m on device d may be.
Outcome(m, d, r) ==
  \/ r.dev = d \/ (r.cc = "SUCCESS" /\ SameSlots(d, r.dev))
  \/ Disarmed(m, d, r) \/ Reserved(m, d, r) \/ FansSet(m, d, r)

Sound(R, m, d) == \A r \in R : Outcome(m, d, r)

LEMMA CarefulIsSound ==
  ASSUME NEW R, NEW m, NEW d, Careful(R, d)
  PROVE  Sound(R, m, d)
BY Zenon DEF Careful, Sound, Outcome

LEMMA SoundParts ==
  ASSUME NEW m, NEW d
  PROVE  /\ \A code : Sound(Err(code, d), m, d)
         /\ \A R, S : Sound(R, m, d) /\ Sound(S, m, d) => Sound(R \cup S, m, d)
         /\ \A code, R : Sound(R, m, d) => Sound(Try(code, d, R), m, d)
         /\ \A tests, R : Sound(R, m, d) => Sound(Checked(tests, d, R), m, d)
<1>1. \A code : Sound(Err(code, d), m, d)
  BY CarefulParts, CarefulIsSound
<1>2. \A R, S : Sound(R, m, d) /\ Sound(S, m, d) => Sound(R \cup S, m, d)
  BY Zenon DEF Sound
<1>3. \A code, R : Sound(R, m, d) => Sound(Try(code, d, R), m, d)
  BY <1>1, <1>2, Zenon DEF Try
<1>4. \A tests, R : Sound(R, m, d) => Sound(Checked(tests, d, R), m, d)
  BY <1>1, CheckedCases, Zenon
<1> QED BY <1>1, <1>2, <1>3, <1>4

LEMMA AsdInit ==
  ASSUME NEW m, NEW d, DeviceOK(d), m.cmd = "ASD_INIT"
  PROVE  Sound(OEM_1S_ASD_INIT(m, d), m, d)
<1> DEFINE R == CASE m.b[0] = 1 -> Ok(0, [d EXCEPT !.prdy = TRUE])
                  [] m.b[0] = 255 -> Ok(0, [d EXCEPT !.prdy = FALSE])
                  [] OTHER -> Err("INVALID_DATA_FIELD", [d EXCEPT !.prdy = FALSE])
<1>1. SameSlots(d, [d EXCEPT !.prdy = TRUE]) /\ SameSlots(d, [d EXCEPT !.prdy = FALSE])
  BY DEF SameSlots, DeviceOK
<1>2. Sound(Ok(0, [d EXCEPT !.prdy = TRUE]), m, d) /\ Sound(Ok(0, [d EXCEPT !.prdy = FALSE]), m, d)
  BY <1>1, CarefulParts, CarefulIsSound
<1>3. Sound(Err("INVALID_DATA_FIELD", [d EXCEPT !.prdy = FALSE]), m, d)
  BY DEF Sound, Outcome, Err, Disarmed
<1>4. Sound(R, m, d)
  BY <1>2, <1>3
<1> QED BY <1>4, SoundParts, SMT DEF OEM_1S_ASD_INIT

LEMMA RsvSdr ==
  ASSUME NEW m, NEW d
  PROVE  Sound(STORAGE_RSV_SDR(m, d), m, d)
<1> DEFINE next == (d.rsv[RsvTable(m.src)] + 1) % (MaxRsv + 1)
           R == Ok(2, [d EXCEPT !.rsv[RsvTable(m.src)] = next])
<1>1. Sound(R, m, d)
  <2> HIDE DEF next
  <2> QED BY DEF Sound, Outcome, Ok, Reserved
<1> QED BY <1>1, SoundParts, Zenon DEF STORAGE_RSV_SDR

LEMMA FanDutyAuto ==
  ASSUME NEW m, NEW d, DeviceOK(d), m.cmd = "SET_FAN_DUTY_AUTO", m.b[1] \in Nat
  PROVE  Sound(OEM_1S_SET_FAN_DUTY_AUTO(m, d), m, d)
<1> DEFINE v == IF m.b[1] > MAX_FAN_DUTY_VALUE THEN MAX_FAN_DUTY_VALUE ELSE m.b[1]
           Tests == << <<m.len = 2, "INVALID_LENGTH">>,
                       <<m.src \in Slots, "PARAM_OUT_OF_RANGE">>,
                       <<m.b[0] \in Pwm, "PARAM_OUT_OF_RANGE">> >>
           e == IF d.mode # "AUTO" THEN d ELSE [d EXCEPT !.duty[m.src][m.b[0]] = v]
           R == Try("UNSPECIFIED_ERROR", d, Ok(0, e))
<1>1. v <= MAX_FAN_DUTY_VALUE
  BY CommandAssumption
<1>2. ASSUME m.src \in Slots, m.b[0] \in Pwm, d.mode = "AUTO"
      PROVE  \E f : /\ DutyTable(f)
                    /\ [d EXCEPT !.duty[m.src][m.b[0]] = v] = [d EXCEPT !.duty[m.src] = f]
  <2> DEFINE f == [d.duty[m.src] EXCEPT ![m.b[0]] = v]
  <2> HIDE DEF v
  <2>1. DutyTable(f)
    BY <1>1, <1>2 DEF DutyTable, DeviceOK
  <2>2. [d EXCEPT !.duty[m.src][m.b[0]] = v] = [d EXCEPT !.duty[m.src] = f]
    OBVIOUS
  <2> QED BY <2>1, <2>2
<1>3. ASSUME m.src \in Slots, m.b[0] \in Pwm
      PROVE  Sound(R, m, d)
  <2>1. CASE d.mode = "AUTO"
    <3> DEFINE r == [cc |-> "SUCCESS", len |-> 0, dev |-> [d EXCEPT !.duty[m.src][m.b[0]] = v]]
    <3>1. Sound(Ok(0, [d EXCEPT !.duty[m.src][m.b[0]] = v]), m, d)
      <4> HIDE DEF v
      <4>1. PICK f : /\ DutyTable(f)
                     /\ [d EXCEPT !.duty[m.src][m.b[0]] = v] = [d EXCEPT !.duty[m.src] = f]
        BY <1>2, <1>3, <2>1
      <4>2. r.cc = "SUCCESS" /\ r.dev = [d EXCEPT !.duty[m.src] = f]
        BY <4>1
      <4> HIDE DEF r
      <4>3. FansSet(m, d, r)
        BY <4>1, <4>2, <1>3, <2>1 DEF FansSet
      <4>4. Outcome(m, d, r)
        BY <4>3 DEF Outcome
      <4> QED BY <4>4 DEF Sound, Ok, r
    <3> QED BY <3>1, <2>1, SoundParts
  <2>2. CASE d.mode # "AUTO"
    BY <2>2, CarefulParts, CarefulIsSound
  <2> QED BY <2>1, <2>2
<1>4. /\ 2 \in DOMAIN Tests /\ (Tests[2][1] => m.src \in Slots)
      /\ 3 \in DOMAIN Tests /\ (Tests[3][1] => m.b[0] \in Pwm)
  <2>1. 2 \in DOMAIN Tests /\ 3 \in DOMAIN Tests
    OBVIOUS
  <2>2. Tests[2][1] => m.src \in Slots
    OBVIOUS
  <2>3. Tests[3][1] => m.b[0] \in Pwm
    OBVIOUS
  <2> QED BY <2>1, <2>2, <2>3
<1>5. Sound(Checked(Tests, d, R), m, d)
  <2> HIDE DEF Tests, R
  <2>1. \/ Checked(Tests, d, R) = R /\ \A i \in DOMAIN Tests : Tests[i][1]
        \/ \E code : Checked(Tests, d, R) = Err(code, d)
    BY CheckedCases
  <2> QED BY <2>1, <1>3, <1>4, SoundParts
<1> QED BY <1>5, Zenon DEF OEM_1S_SET_FAN_DUTY_AUTO

LEMMA FanDutyManual ==
  ASSUME NEW m, NEW d, DeviceOK(d), m.cmd = "SET_FAN_DUTY_MANUAL"
  PROVE  Sound(OEM_SET_FAN_DUTY_MANUAL(m, d), m, d)
<1> DEFINE Tests == << <<m.len = 2, "INVALID_LENGTH">>,
                       <<m.src \in Slots, "PARAM_OUT_OF_RANGE">>,
                       <<m.b[1] <= MAX_FAN_DUTY_VALUE /\ m.b[0] \in Pwm \cup {INDEX_ALL_PWM},
                         "PARAM_OUT_OF_RANGE">> >>
           Stops == UNION {Err("UNSPECIFIED_ERROR", SetDuty(d, m.src, 0 .. p - 1, m.b[1])) :
                             p \in Pwm}
           R == IF d.mode # "MANUAL" THEN Ok(0, d)
                ELSE IF m.b[0] # INDEX_ALL_PWM THEN Ok(0, SetDuty(d, m.src, {m.b[0]}, m.b[1]))
                ELSE Ok(0, SetDuty(d, m.src, Pwm, m.b[1])) \cup Stops
           T == Try("UNSPECIFIED_ERROR", d, R)
<1>1. ASSUME m.src \in Slots, m.b[1] <= MAX_FAN_DUTY_VALUE, d.mode = "MANUAL", NEW S
      PROVE  \E f : DutyTable(f) /\ SetDuty(d, m.src, S, m.b[1]) = [d EXCEPT !.duty[m.src] = f]
  <2> DEFINE f == [p \in Pwm |-> IF p \in S THEN m.b[1] ELSE d.duty[m.src][p]]
  <2>1. DutyTable(f)
    BY <1>1 DEF DutyTable, DeviceOK
  <2>2. SetDuty(d, m.src, S, m.b[1]) = [d EXCEPT !.duty[m.src] = f]
    BY DEF SetDuty
  <2> QED BY <2>1, <2>2
<1>2. ASSUME m.src \in Slots, m.b[1] <= MAX_FAN_DUTY_VALUE
      PROVE  Sound(R, m, d)
  <2>1. CASE d.mode # "MANUAL"
    BY <2>1, CarefulParts, CarefulIsSound
  <2>2. CASE d.mode = "MANUAL"
    <3>1. ASSUME NEW S, NEW r, r.dev = SetDuty(d, m.src, S, m.b[1]),
                 r.cc \in {"SUCCESS", "UNSPECIFIED_ERROR"}
          PROVE  Outcome(m, d, r)
      <4>1. PICK f : DutyTable(f) /\ SetDuty(d, m.src, S, m.b[1]) = [d EXCEPT !.duty[m.src] = f]
        BY <1>1, <1>2, <2>2
      <4>2. r.dev = [d EXCEPT !.duty[m.src] = f]
        BY <3>1, <4>1
      <4>3. FansSet(m, d, r)
        BY <4>1, <4>2, <1>2, <2>2, <3>1 DEF FansSet
      <4> QED BY <4>3 DEF Outcome
    <3>2. /\ \A S, n : Sound(Ok(n, SetDuty(d, m.src, S, m.b[1])), m, d)
          /\ \A S : Sound(Err("UNSPECIFIED_ERROR", SetDuty(d, m.src, S, m.b[1])), m, d)
      BY <3>1 DEF Sound, Ok, Err
    <3>3. Sound(Stops, m, d)
      BY <3>2 DEF Sound
    <3> HIDE DEF Stops
    <3> QED BY <2>2, <3>2, <3>3, SoundParts
  <2> QED BY <2>1, <2>2
<1>3. /\ 2 \in DOMAIN Tests /\ (Tests[2][1] => m.src \in Slots)
      /\ 3 \in DOMAIN Tests /\ (Tests[3][1] => m.b[1] <= MAX_FAN_DUTY_VALUE)
  <2>1. 2 \in DOMAIN Tests /\ 3 \in DOMAIN Tests
    OBVIOUS
  <2>2. Tests[2][1] => m.src \in Slots
    OBVIOUS
  <2>3. Tests[3][1] => m.b[1] <= MAX_FAN_DUTY_VALUE
    OBVIOUS
  <2> QED BY <2>1, <2>2, <2>3
<1>4. Sound(Checked(Tests, d, T), m, d)
  <2> HIDE DEF Tests, R
  <2>1. \/ Checked(Tests, d, T) = T /\ \A i \in DOMAIN Tests : Tests[i][1]
        \/ \E code : Checked(Tests, d, T) = Err(code, d)
    BY CheckedCases
  <2> QED BY <2>1, <1>2, <1>3, SoundParts
<1> QED BY <1>4, Zenon DEF OEM_SET_FAN_DUTY_MANUAL

----------------------------------------------------------------------------
(***************************************************************************)
(* The dispatch by network function and command                            *)
(***************************************************************************)
LEMMA Handlers ==
  ASSUME NEW m, NEW d, DeviceOK(d), m.cmd = "SET_FAN_DUTY_AUTO" => m.b[1] \in Nat
  PROVE  Sound(Handle(m, d), m, d)
<1>1. {"rsv", "duty"} \subseteq DOMAIN d
  BY DEF DeviceOK
<1>2. Sound(IPMI_OEM_1S_handler(m, d), m, d)
  <2>1. CASE m.cmd = "ASD_INIT"
    <3>1. IPMI_OEM_1S_handler(m, d) = OEM_1S_ASD_INIT(m, d)
      BY <2>1 DEF IPMI_OEM_1S_handler
    <3> QED BY <3>1, <2>1, AsdInit
  <2>2. CASE m.cmd = "SET_FAN_DUTY_AUTO"
    <3>1. IPMI_OEM_1S_handler(m, d) = OEM_1S_SET_FAN_DUTY_AUTO(m, d)
      BY <2>2 DEF IPMI_OEM_1S_handler
    <3> QED BY <3>1, <2>2, FanDutyAuto
  <2>3. CASE m.cmd \notin {"ASD_INIT", "SET_FAN_DUTY_AUTO"}
    <3>1. Careful(IPMI_OEM_1S_handler(m, d), d)
      BY <1>1, <2>3, Inquiries1S, Settings, CarefulParts DEF IPMI_OEM_1S_handler
    <3> QED BY <3>1, CarefulIsSound
  <2> QED BY <2>1, <2>2, <2>3
<1>3. Sound(IPMI_OEM_handler(m, d), m, d)
  <2>1. CASE m.cmd = "SET_FAN_DUTY_MANUAL"
    <3>1. IPMI_OEM_handler(m, d) = OEM_SET_FAN_DUTY_MANUAL(m, d)
      BY <2>1 DEF IPMI_OEM_handler
    <3> QED BY <3>1, <2>1, FanDutyManual
  <2>2. CASE m.cmd # "SET_FAN_DUTY_MANUAL"
    <3>1. Careful(IPMI_OEM_handler(m, d), d)
      BY <1>1, <2>2, Inquiries, Settings, CarefulParts DEF IPMI_OEM_handler
    <3> QED BY <3>1, CarefulIsSound
  <2> QED BY <2>1, <2>2
<1>4. Sound(IPMI_Storage_handler(m, d), m, d)
  <2>1. CASE m.cmd = "RSV_SDR"
    <3>1. IPMI_Storage_handler(m, d) = STORAGE_RSV_SDR(m, d)
      BY <2>1 DEF IPMI_Storage_handler
    <3> QED BY <3>1, RsvSdr
  <2>2. CASE m.cmd # "RSV_SDR"
    <3>1. Careful(IPMI_Storage_handler(m, d), d)
      BY <1>1, <2>2, Inquiries, Settings, CarefulParts DEF IPMI_Storage_handler
    <3> QED BY <3>1, CarefulIsSound
  <2> QED BY <2>1, <2>2
<1>5. Sound(IPMI_SENSOR_handler(m, d), m, d)
  BY Inquiries, CarefulParts, CarefulIsSound, Zenon DEF IPMI_SENSOR_handler
<1>6. Sound(IPMI_APP_handler(m, d), m, d)
  <2>1. Careful(IPMI_APP_handler(m, d), d)
    BY <1>1, Inquiries, Settings, CarefulParts DEF IPMI_APP_handler
  <2> QED BY <2>1, CarefulIsSound
<1>7. Sound(IPMI_CHASSIS_handler(m, d), m, d)
  BY Inquiries, CarefulParts, CarefulIsSound, Zenon DEF IPMI_CHASSIS_handler
<1> QED BY <1>2, <1>3, <1>4, <1>5, <1>6, <1>7, SoundParts DEF Handle

\* SlotsApart for a request m that makes device e out of d.
OneSlot(m, d, e) ==
  /\ \E s \in Slots : \A t \in Slots \ {s} : e.rsv[t] = d.rsv[t] /\ e.duty[t] = d.duty[t]
  /\ e.rsv["SLOT3_BIC"] # d.rsv["SLOT3_BIC"] => m.src = "SLOT3_BIC"
  /\ e.rsv["SLOT1_BIC"] # d.rsv["SLOT1_BIC"] => m.src # "SLOT3_BIC"
  /\ e.duty # d.duty =>
       /\ m.cmd = (IF d.mode = "AUTO" THEN "SET_FAN_DUTY_AUTO" ELSE "SET_FAN_DUTY_MANUAL")
       /\ \A s \in Slots, p \in Pwm : e.duty[s][p] <= MAX_FAN_DUTY_VALUE

LEMMA OutcomeKeepsSlotsApart ==
  ASSUME NEW m, NEW d, NEW r, DeviceOK(d), Outcome(m, d, r)
  PROVE  DeviceOK(r.dev) /\ OneSlot(m, d, r.dev)
<1> DEFINE e == r.dev
<1>1. CASE DOMAIN e = DOMAIN d /\ e.rsv = d.rsv /\ e.duty = d.duty
  <2>1. DeviceOK(e)
    BY <1>1 DEF DeviceOK
  <2>2. OneSlot(m, d, e)
    BY <1>1, "SLOT1_BIC" \in Slots DEF OneSlot, Slots
  <2> QED BY <2>1, <2>2
<1>2. CASE Disarmed(m, d, r)
  BY <1>1, <1>2 DEF Disarmed, DeviceOK
<1>3. CASE Reserved(m, d, r)
  <2>1. PICK v : e = [d EXCEPT !.rsv[RsvTable(m.src)] = v]
    BY <1>3 DEF Reserved
  <2> DEFINE s == RsvTable(m.src)
  <2>2. /\ s \in Slots
        /\ s = "SLOT3_BIC" => m.src = "SLOT3_BIC"
        /\ s = "SLOT1_BIC" => m.src # "SLOT3_BIC"
    BY DEF RsvTable, Slots
  <2>3. /\ DOMAIN e = DOMAIN d /\ e.duty = d.duty /\ DOMAIN e.rsv = Slots
        /\ \A t \in Slots \ {s} : e.rsv[t] = d.rsv[t]
    BY <2>1 DEF DeviceOK
  <2>4. DeviceOK(e)
    BY <2>3 DEF DeviceOK
  <2>5. OneSlot(m, d, e)
    BY <2>2, <2>3 DEF OneSlot, Slots
  <2> QED BY <2>4, <2>5
<1>4. CASE FansSet(m, d, r)
  <2>1. PICK f : DutyTable(f) /\ e = [d EXCEPT !.duty[m.src] = f]
    BY <1>4 DEF FansSet
  <2>2. m.src \in Slots
    BY <1>4 DEF FansSet
  <2>3. /\ DOMAIN e = DOMAIN d /\ e.rsv = d.rsv /\ DOMAIN e.duty = Slots
        /\ e.duty[m.src] = f /\ \A t \in Slots \ {m.src} : e.duty[t] = d.duty[t]
    BY <2>1, <2>2 DEF DeviceOK
  <2>4. \A s \in Slots : DOMAIN e.duty[s] = Pwm /\ \A p \in Pwm : e.duty[s][p] <= MAX_FAN_DUTY_VALUE
    BY <2>1, <2>2, <2>3 DEF DeviceOK, DutyTable
  <2>5. DeviceOK(e)
    BY <2>3, <2>4 DEF DeviceOK
  <2>6. OneSlot(m, d, e)
    BY <2>2, <2>3, <2>4, <1>4 DEF OneSlot, FansSet
  <2> QED BY <2>5, <2>6
<1> QED BY <1>1, <1>2, <1>3, <1>4 DEF Outcome, SameSlots

----------------------------------------------------------------------------
(***************************************************************************)
(* The inductive invariant                                                 *)
(***************************************************************************)
\* ErrorChangesNothing also holds while a command is in progress.
ErrorKept ==
  last.cc \notin {"none", "SUCCESS"} =>
    \/ dev = last.before
    \/ last.cmd = "ASD_INIT" /\ dev = [last.before EXCEPT !.prdy = FALSE]
    \/ /\ last.cmd = "SET_FAN_DUTY_MANUAL"
       /\ dev = [last.before EXCEPT !.duty[last.src] = dev.duty[last.src]]

\* The flash can be with the BIC while it is accessed.
MuxKept == mux = "BIC" /\ pc \notin {"access", "low"} => stranded

CommandsInv == session \in DOMAIN Sessions /\ DeviceOK(dev) /\ MuxKept /\ ErrorKept

LEMMA CommandsInit == Init => CommandsInv
<1> SUFFICES ASSUME Init PROVE CommandsInv
  OBVIOUS
<1>1. session \in DOMAIN Sessions /\ MuxKept
  BY DEF Init, MuxKept
<1>2. DeviceOK(dev)
  BY CommandAssumption DEF Init, DeviceOK
<1>3. ErrorKept
  BY DEF Init, ErrorKept
<1> QED BY <1>1, <1>2, <1>3 DEF CommandsInv

\* A command that is answered keeps the promise of ErrorKept.
LEMMA AnswerKeepsErrors ==
  ASSUME NEW m, NEW r, Outcome(m, dev, r), r.cc # "flash", dev' = r.dev,
         last'.cmd = m.cmd, last'.src = m.src, last'.cc = r.cc, last'.before = dev, DeviceOK(dev)
  PROVE  ErrorKept'
<1>1. CASE r.dev = dev \/ r.cc = "SUCCESS"
  BY <1>1 DEF ErrorKept
<1>2. CASE Disarmed(m, dev, r)
  BY <1>2 DEF ErrorKept, Disarmed
<1>3. CASE FansSet(m, dev, r) /\ r.cc # "SUCCESS"
  <2>1. PICK f : DutyTable(f) /\ r.dev = [dev EXCEPT !.duty[m.src] = f]
    BY <1>3 DEF FansSet
  <2>2. r.dev.duty[m.src] = f
    BY <2>1, <1>3 DEF DeviceOK, FansSet
  <2>3. dev' = [last'.before EXCEPT !.duty[last'.src] = dev'.duty[last'.src]]
    BY <2>1, <2>2
  <2>4. last'.cmd = "SET_FAN_DUTY_MANUAL"
    BY <1>3 DEF FansSet
  <2> QED BY <2>3, <2>4 DEF ErrorKept
<1> QED BY <1>1, <1>2, <1>3 DEF Outcome, Reserved

\* A command: the device afterwards is an outcome of its request.
LEMMA CommandStep ==
  ASSUME CommandsInv, NEW m \in Sessions[session], Command(m)
  PROVE  CommandsInv' /\ (dev' = dev \/ OneSlot(last', dev, dev'))
<1>1. m.cmd = "SET_FAN_DUTY_AUTO" => m.b[1] \in Nat
  BY CommandAssumption DEF CommandsInv
<1>2. PICK r \in Handle(m, dev) :
        /\ dev' = r.dev
        /\ IF r.cc = "flash" THEN pc' = "high" /\ cur' = m /\ cc' = "none" /\ UNCHANGED last
           ELSE Answer(m, r.cc, r.len, dev)
  BY Zenon DEF Command
<1>3. Outcome(m, dev, r)
  BY <1>1, Handlers DEF CommandsInv, Sound
<1>4. session' = session /\ mux' = mux /\ stranded' = stranded /\ pc = "idle"
  BY DEF Command
<1>5. DeviceOK(dev') /\ OneSlot(m, dev, dev')
  BY <1>2, <1>3, OutcomeKeepsSlotsApart DEF CommandsInv
<1>6. CASE r.cc = "flash"
  <2>1. dev' = dev
    BY <1>2, <1>3, <1>6 DEF Outcome, Disarmed, Reserved, FansSet
  <2>2. last' = last /\ pc' = "high"
    BY <1>2, <1>6
  <2>3. MuxKept'
    BY <1>4, <2>2 DEF CommandsInv, MuxKept
  <2>4. ErrorKept'
    BY <2>1, <2>2 DEF CommandsInv, ErrorKept
  <2> QED BY <1>4, <2>1, <2>3, <2>4 DEF CommandsInv
<1>7. CASE r.cc # "flash"
  <2>1. /\ last'.cmd = m.cmd /\ last'.src = m.src /\ last'.cc = r.cc /\ last'.before = dev
        /\ pc' = "idle"
    BY <1>2, <1>7 DEF Answer
  <2>2. MuxKept'
    BY <1>4, <2>1 DEF CommandsInv, MuxKept
  <2>3. ErrorKept'
    BY <1>2, <1>3, <1>7, <2>1, AnswerKeepsErrors DEF CommandsInv
  <2>4. OneSlot(last', dev, dev')
    BY <1>5, <2>1 DEF OneSlot
  <2> QED BY <1>4, <1>5, <2>2, <2>3, <2>4 DEF CommandsInv
<1> QED BY <1>6, <1>7

\* The steps of a flash access leave the device alone.
LEMMA FlashSteps ==
  ASSUME CommandsInv, FlashHigh \/ FlashAccess \/ FlashLow \/ Abort \/ UNCHANGED vars
  PROVE  CommandsInv' /\ dev' = dev
<1>1. session' = session /\ dev' = dev
  BY DEF FlashHigh, FlashAccess, FlashLow, Abort, vars
<1>2. last' = last \/ last'.before = dev
  BY DEF FlashHigh, FlashAccess, FlashLow, Abort, vars, Answer
<1>3. ErrorKept'
  BY <1>1, <1>2 DEF CommandsInv, ErrorKept
<1>4. MuxKept'
  <2>1. CASE FlashHigh
    BY <2>1, Zenon DEF CommandsInv, FlashHigh, Answer, MuxKept
  <2>2. CASE FlashAccess
    BY <2>2, Zenon DEF CommandsInv, FlashAccess, MuxKept
  <2>3. CASE FlashLow
    BY <2>3, Zenon DEF CommandsInv, FlashLow, Answer, MuxKept
  <2>4. CASE Abort
    BY <2>4, Zenon DEF CommandsInv, Abort, MuxKept
  <2>5. CASE UNCHANGED vars
    BY <2>5 DEF CommandsInv, MuxKept, vars
  <2> QED BY <2>1, <2>2, <2>3, <2>4, <2>5
<1> QED BY <1>1, <1>3, <1>4 DEF CommandsInv

LEMMA CommandsInductive == CommandsInv /\ [Next]_vars => CommandsInv'
BY CommandStep, FlashSteps DEF Next

\* However an access to the BIOS flash ends, the flash is back with the PCH
\* before the next command, unless the switch failed or the command was aborted,
\* and then that is on record.
THEOREM FlashIsReturned == Spec => []MuxReturned
<1>1. CommandsInv => MuxReturned
  BY DEF CommandsInv, MuxKept, MuxReturned
<1> QED BY <1>1, CommandsInit, CommandsInductive, PTL DEF Spec

\* No command of any network function that is answered with an error has changed
\* the device, whatever its length and its bytes and whichever driver failed,
\* but for the two that the property names.
THEOREM ErrorsAreHarmless == Spec => []ErrorChangesNothing
<1>1. CommandsInv => ErrorChangesNothing
  BY DEF CommandsInv, ErrorKept, ErrorChangesNothing
<1> QED BY <1>1, CommandsInit, CommandsInductive, PTL DEF Spec

\* No step of any command, whatever its bytes, changes reservations or fan
\* duties of more than one slot, sets duties in the wrong mode or above the
\* maximum.
THEOREM SlotsStayApart == Spec => SlotsApart
<1> DEFINE Apart ==
      /\ \E s \in Slots : \A t \in Slots \ {s} :
           dev'.rsv[t] = dev.rsv[t] /\ dev'.duty[t] = dev.duty[t]
      /\ dev'.rsv["SLOT3_BIC"] # dev.rsv["SLOT3_BIC"] => last'.src = "SLOT3_BIC"
      /\ dev'.rsv["SLOT1_BIC"] # dev.rsv["SLOT1_BIC"] => last'.src # "SLOT3_BIC"
      /\ dev'.duty # dev.duty =>
           /\ last'.cmd = (IF dev.mode = "AUTO" THEN "SET_FAN_DUTY_AUTO" ELSE "SET_FAN_DUTY_MANUAL")
           /\ \A s \in Slots, p \in Pwm : dev'.duty[s][p] <= MAX_FAN_DUTY_VALUE
<1>1. CommandsInv /\ [Next]_vars => [Apart]_vars
  <2> SUFFICES ASSUME CommandsInv, [Next]_vars PROVE Apart
    OBVIOUS
  <2>1. dev' = dev \/ OneSlot(last', dev, dev')
    BY CommandStep, FlashSteps DEF Next
  <2>2. CASE dev' = dev
    BY <2>2, "SLOT1_BIC" \in Slots DEF Slots
  <2>3. CASE OneSlot(last', dev, dev')
    BY <2>3 DEF OneSlot
  <2> QED BY <2>1, <2>2, <2>3
<1> QED BY <1>1, CommandsInit, CommandsInductive, PTL DEF Spec, SlotsApart
=============================================================================
