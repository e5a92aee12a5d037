---------------------------- MODULE IpmiCommands ----------------------------
(***************************************************************************)
(* The command handlers of samples/ipmi_openbic/src/ipmi: oem_1s, oem,     *)
(* storage, sensor, app and chassis.                                       *)
(*                                                                         *)
(* A handler is an operator from a request m and the device d to the set   *)
(* of results it may have, one for every outcome of the drivers it calls.  *)
(* m.b[i] is byte i of the request; a field of several bytes is one number *)
(* at the index of its first byte.  A result has the completion code, the  *)
(* length of the answer (ipmi_cmd_handle sets it to 0 on an error) and the *)
(* device afterwards; the bytes of the answer are left out.  Drivers, the  *)
(* platform's pal_ functions and the FRU, SDR and sensor libraries are not *)
(* in the repository: they succeed or fail in every way the handler tells  *)
(* apart.                                                                  *)
(*                                                                         *)
(* The three commands that reach the BIOS flash take several steps: they   *)
(* switch the flash from the PCH to the BIC, use it and switch it back,    *)
(* and IPMI_handler may abort them in between.                             *)
(***************************************************************************)
EXTENDS Integers, Sequences, FiniteSets

CONSTANTS Sessions,          \* sets of requests by name; a behaviour uses one of them
          TOTAL_GPIO_NUM, GpioTable,     \* gpio_ind_to_num_table, a sequence
          UnusedGpio,                    \* pins whose is_init is DISABLE
          Sensors,                       \* sensor_config_index_map
          MAX_FAN_PWM_INDEX_COUNT, MAX_FAN_DUTY_VALUE,
          MaxRsv                         \* bound: reservation numbers in use

\* The duty a request asks for is a number: it is a byte of the request.
ASSUME CommandAssumption ==
  /\ MAX_FAN_PWM_INDEX_COUNT \in Nat /\ MAX_FAN_DUTY_VALUE \in Nat
  /\ \A s \in DOMAIN Sessions : \A m \in Sessions[s] :
       m.cmd = "SET_FAN_DUTY_AUTO" => m.b[1] \in Nat

Slots == {"SLOT1_BIC", "SLOT3_BIC"}
INDEX_ALL_PWM == 255
Pwm == 0 .. MAX_FAN_PWM_INDEX_COUNT - 1

VARIABLES session, dev, mux,
          cur, pc, cc,     \* the command in progress, its step and its code
          last,            \* the last answer: request, code, device before
          stranded         \* a switch back to the PCH was lost (history)

vars == <<session, dev, mux, cur, pc, cc, last, stranded>>

None == [netfn |-> "none", cmd |-> "none", src |-> "none", len |-> 0, b |-> [i \in 0 .. 5 |-> 0]]

\* The state the handlers set: watchdog feeding, the sensor poll thread and
\* the polled sensors, VR monitoring, the PRDY interrupt, pin directions and
\* levels, the fan mode and duties, SDR reservations, the APML request index
\* and the global enables.
Init ==
  /\ session \in DOMAIN Sessions
  /\ dev = [feed |-> 1, poll |-> TRUE, polled |-> Sensors, vr |-> TRUE, prdy |-> FALSE,
            out |-> {}, high |-> {}, mode |-> "AUTO",
            duty |-> [s \in Slots |-> [p \in Pwm |-> 0]],
            rsv |-> [s \in Slots |-> 0], apml |-> 0, enables |-> 0]
  /\ mux = "PCH"
  /\ cur = None /\ pc = "idle" /\ cc = "none"
  /\ last = [cmd |-> "none", src |-> "none", cc |-> "none", len |-> 0, before |-> dev]
  /\ stranded = FALSE

----------------------------------------------------------------------------
Ok(n, d) == {[cc |-> "SUCCESS", len |-> n, dev |-> d]}
Err(code, d) == {[cc |-> code, len |-> 0, dev |-> d]}

\* The tests of a handler in their order, and what it does once all have passed.
Checked(tests, d, results) ==
  LET failed == {i \in DOMAIN tests : ~tests[i][1]}
  IN  IF failed = {} THEN results
      ELSE Err(tests[CHOOSE i \in failed : \A j \in failed : i <= j][2], d)

\* A driver call: its failure gives a code.
Try(code, d, results) == Err(code, d) \cup results

\* A command without a body of its own on this platform.
Stub(code, d) == Err(code, d)

----------------------------------------------------------------------------
(***************************************************************************)
(* oem_1s_handler.c                                                        *)
(***************************************************************************)
\* Bridges to another IPMB, or answers the error itself.  The handler makes all
\* its tests, and the last that fails gives the code.  b[0] is the target, b[4]
\* tells whether the IANA number was right and b[5] whether the target is usable.
OEM_1S_MSG_OUT(m, d) ==
  Checked(<< <<m.b[5] = 1, "NOT_SUPP_IN_CURR_STATE">>,
             <<m.b[0] # "PEER_BMC_IPMB" \/ m.src \in Slots, "INVALID_DATA_FIELD">>,
             <<m.len > 2, "INVALID_LENGTH">>,
             <<m.b[4] = 1, "INVALID_IANA">> >>,
          d, Try("OUT_OF_SPACE", d, Try("BRIDGE_MSG_ERR", d, Ok(0, d))))

\* The number of pins, rounded up past the next multiple of 8.
OEM_1S_GET_GPIO(m, d) ==
  LET n == Len(GpioTable)
  IN  Checked(<< <<m.len = 0, "INVALID_LENGTH">> >>, d, Ok((n + (8 - (n % 8))) \div 8, d))

OEM_1S_GPIO_CONFIG(m, d) == Stub("INVALID_CMD", d)

FwTargets == {"BIOS", "BIC", "CPLD", "CXL", "PRoT"}
FwCodes == {"SUCCESS", "LENGTH_EXCEEDED", "OUT_OF_SPACE", "INVALID_DATA_FIELD", "TIMEOUT",
            "PARAM_OUT_OF_RANGE", "INVALID_PARAM", "UNSPECIFIED_ERROR"}

\* b[0] is the target, b[1] tells whether the offset is beyond the part, b[5]
\* the length of the image data.  A BIOS target goes on in FlashHigh.
OEM_1S_FW_UPDATE(m, d) ==
  Checked(<< <<m.len >= 8, "INVALID_LENGTH">>,
             <<m.b[5] # 0 /\ m.b[5] = m.len - 7, "INVALID_LENGTH">>,
             <<m.b[0] \in FwTargets, "INVALID_DATA_FIELD">>,
             <<m.b[0] \in {"CPLD", "CXL"} \/ m.b[1] = 0, "PARAM_OUT_OF_RANGE">> >>, d,
    CASE m.b[0] = "BIOS" -> Try("INVALID_PARAM", d, Err("flash", d))
      [] OTHER -> UNION {IF code = "SUCCESS" THEN Ok(0, d) ELSE Err(code, d) : code \in FwCodes})

OEM_1S_GET_BIC_FW_INFO(m, d) ==
  Checked(<< <<m.len = 1, "INVALID_LENGTH">>, <<m.b[0] \in 0 .. 3, "INVALID_DATA_FIELD">> >>,
          d, Ok(1, d))

\* The voltage regulators are asked up to three times, the ME over its IPMB.
OEM_1S_GET_FW_VERSION(m, d) ==
  Checked(<< <<m.len = 1, "INVALID_LENGTH">>,
             <<m.b[0] \in {"BIC", "ME", "VR"}, "UNSPECIFIED_ERROR">> >>, d,
    CASE m.b[0] = "BIC" -> Ok(7, d)
      [] m.b[0] = "ME" -> Try("UNSPECIFIED_ERROR", d,
                            Try("OUT_OF_SPACE", d, Try("BRIDGE_MSG_ERR", d, Ok(5, d))))
      [] m.b[0] = "VR" -> Try("UNSPECIFIED_ERROR", d, Ok(4, d) \cup Ok(2, d)))

OEM_1S_INFORM_BMC_TO_CONTROL_POWER(m, d) ==
  Checked(<< <<m.len = 1, "INVALID_LENGTH">> >>, d, Err("INVALID_CMD", d))

OEM_1S_RESET_BMC(m, d) ==
  Checked(<< <<m.len = 0, "INVALID_LENGTH">> >>, d, Try("INVALID_CMD", d, Ok(0, d)))

\* b[5] is the length to read.
OEM_1S_READ_FW_IMAGE(m, d) ==
  Checked(<< <<m.len = 6, "INVALID_LENGTH">>,
             <<m.b[0] \in {"BIOS", "PRoT"}, "INVALID_DATA_FIELD">> >>, d,
    CASE m.b[0] = "BIOS" -> Err("flash", d)
      [] OTHER -> Try("INVALID_PARAM", d, Try("UNSPECIFIED_ERROR", d, Ok(m.b[5], d))))

OEM_1S_SET_WDT_FEED(m, d) ==
  Checked(<< <<m.len = 1, "INVALID_LENGTH">>, <<m.b[0] \in {0, 1}, "INVALID_DATA_FIELD">> >>,
          d, Ok(0, [d EXCEPT !.feed = m.b[0]]))

\* As many post codes as the snoop buffer holds.
OEM_1S_GET_POST_CODE(m, d) ==
  Checked(<< <<m.len = 0, "INVALID_LENGTH">> >>, d, Ok(0, d) \cup Ok(240, d))

OEM_1S_GET_4BYTE_POST_CODE(m, d) ==
  Checked(<< <<m.len = 1, "INVALID_LENGTH">>, <<m.b[0] <= 17, "INVALID_DATA_FIELD">> >>,
          d, Ok(60 * 4, d))

\* b[1] and b[2] are the lengths to write and to read.
OEM_1S_PECI_ACCESS(m, d) ==
  Checked(<< <<m.len >= 3, "INVALID_LENGTH">>,
             <<m.len - 3 \in {m.b[1], m.b[1] - 1}, "INVALID_LENGTH">>,
             <<m.len > 3 \/ (m.b[1] = 0 /\ m.b[2] = 0), "INVALID_LENGTH">> >>, d,
    IF m.len = 3 THEN Ok(1, d)
    ELSE Try("OUT_OF_SPACE", d, Try("UNSPECIFIED_ERROR", d, Ok(m.b[2], d))))

OEM_1S_SET_JTAG_TAP_STA(m, d) ==
  Checked(<< <<m.len = 2, "INVALID_LENGTH">> >>, d, Ok(0, d))

\* b[0] bytes are shifted out and b[2] in.
OEM_1S_JTAG_DATA_SHIFT(m, d) ==
  Checked(<< <<m.len = 5 + m.b[0], "INVALID_LENGTH">> >>, d, Ok(m.b[2], d))

\* An operation that is neither turns the interrupt off as well.
OEM_1S_ASD_INIT(m, d) ==
  Checked(<< <<m.len = 1, "INVALID_LENGTH">> >>, d,
    CASE m.b[0] = 1 -> Ok(0, [d EXCEPT !.prdy = TRUE])
      [] m.b[0] = 255 -> Ok(0, [d EXCEPT !.prdy = FALSE])
      [] OTHER -> Err("INVALID_DATA_FIELD", [d EXCEPT !.prdy = FALSE]))

OEM_1S_SENSOR_POLL_EN(m, d) ==
  Checked(<< <<m.len = 1, "INVALID_LENGTH">>, <<m.b[0] \in {0, 1}, "INVALID_DATA_FIELD">> >>,
          d, Ok(0, [d EXCEPT !.poll = (m.b[0] = 1)]))

\* b[0] is the sensor and b[1] where to read: the cache is only read while the
\* poll thread fills it.
OEM_1S_ACCURACY_SENSOR_READING(m, d) ==
  Checked(<< <<m.len = 2, "INVALID_LENGTH">>,
             <<m.b[1] \in {"CACHE", "SENSOR"}, "UNSPECIFIED_ERROR">>,
             <<m.b[1] = "SENSOR" \/ d.poll, "SENSOR_NOT_PRESENT">>,
             <<m.b[0] \in Sensors, "INVALID_DATA_FIELD">> >>, d,
    Try("NODE_BUSY", d, Try("UNSPECIFIED_ERROR", d, Ok(4, d) \cup Ok(5, d))))

\* A global index is used as it is, one of the BIC goes through the table; the
\* key that tells them apart is b[3], after the arguments of the operation.
GpioArgs(m) == IF m.b[0] \in {"GET", "GET_DIR"} THEN 2 ELSE 3
HasKey(m) == m.b[0] \in {"GET", "GET_DIR", "SET", "SET_DIR"} /\ m.len = GpioArgs(m) + 1
gpio_idx_exchange(m) ==
  [num |-> IF HasKey(m) /\ m.b[3] = "KEY" THEN m.b[1] ELSE GpioTable[m.b[1] + 1],
   len |-> IF HasKey(m) THEN m.len - 1 ELSE m.len]

OEM_1S_GET_SET_GPIO(m, d) ==
  LET x == gpio_idx_exchange(m)
      Put(S) == IF m.b[2] = 0 THEN S \ {x.num} ELSE S \cup {x.num}
  IN  Checked(<< <<m.len >= 2, "PARAM_OUT_OF_RANGE">>,
                 <<x.num < TOTAL_GPIO_NUM, "INVALID_LENGTH">>,
                 <<x.num \notin UnusedGpio, "INVALID_DATA_FIELD">>,
                 <<m.b[0] \in {"GET", "GET_DIR", "SET", "SET_DIR"}, "INVALID_CMD">>,
                 <<x.len = GpioArgs(m), "INVALID_LENGTH">> >>, d,
        CASE m.b[0] = "SET" -> Ok(2, [d EXCEPT !.high = Put(@)])
          [] m.b[0] = "SET_DIR" -> Ok(2, [d EXCEPT !.out = Put(@)])
          [] OTHER -> Ok(2, d))

OEM_1S_GET_SET_BIC_VGPIO(m, d) ==
  Checked(<< <<m.b[0] \in {"GET", "SET"}, "PARAM_OUT_OF_RANGE">>,
             <<m.len = (IF m.b[0] = "GET" THEN 2 ELSE 3), "INVALID_LENGTH">> >>,
          d, Try("UNSPECIFIED_ERROR", d, Ok(IF m.b[0] = "GET" THEN 4 ELSE 1, d)))

\* b[0] is the number of sensors, b[1] the operation and b[2] the set of them;
\* a sensor that is not there is answered with SENSOR_FAIL.
Switched(op, S, d) == IF op = 1 THEN d.polled \cup (S \cap Sensors) ELSE d.polled \ S
\* Faulty variant: the sensors are switched before the length is checked.
ControlFirst(m, d) ==
  LET d1 == IF m.b[0] <= 10 /\ m.b[1] \in {0, 1}
              THEN [d EXCEPT !.polled = Switched(m.b[1], m.b[2], d)] ELSE d
  IN  Checked(<< <<m.b[0] <= 10, "PARAM_OUT_OF_RANGE">>,
                 <<m.b[1] \in {0, 1}, "INVALID_DATA_FIELD">>,
                 <<m.len - 2 = m.b[0], "LENGTH_EXCEEDED">> >>, d1, Ok(2 * m.b[0], d1))

OEM_1S_CONTROL_SENSOR_POLLING(m, d) ==
  Checked(<< <<m.b[0] <= 10, "PARAM_OUT_OF_RANGE">>,
             <<m.b[1] \in {0, 1}, "INVALID_DATA_FIELD">>,
             <<m.len - 2 = m.b[0], "LENGTH_EXCEEDED">> >>, d,
          Ok(2 * m.b[0], [d EXCEPT !.polled = Switched(m.b[1], m.b[2], d)]))

OEM_1S_GET_FW_SHA256(m, d) ==
  Checked(<< <<m.len = 9, "INVALID_LENGTH">>,
             <<m.b[0] \in {"BIOS", "PRoT"}, "UNSPECIFIED_ERROR">> >>, d,
    Try("INVALID_PARAM", d,
        IF m.b[0] = "BIOS" THEN Err("flash", d) ELSE Try("UNSPECIFIED_ERROR", d, Ok(32, d))))

OEM_1S_I2C_DEV_SCAN(m, d) == Checked(<< <<m.len = 1, "INVALID_LENGTH">> >>, d, Ok(8, d))

OEM_1S_GET_BIC_STATUS(m, d) == Checked(<< <<m.len = 0, "INVALID_LENGTH">> >>, d, Ok(2, d))

OEM_1S_SET_VR_MONITOR_STATUS(m, d) ==
  Checked(<< <<m.len = 1, "INVALID_LENGTH">>, <<m.b[0] \in {0, 1}, "INVALID_DATA_FIELD">> >>,
          d, Ok(0, [d EXCEPT !.vr = (m.b[0] = 1)]))

OEM_1S_GET_VR_MONITOR_STATUS(m, d) == Checked(<< <<m.len = 0, "INVALID_LENGTH">> >>, d, Ok(1, d))

OEM_1S_RESET_BIC(m, d) == Checked(<< <<m.len = 0, "INVALID_LENGTH">> >>, d, Ok(0, d))

OEM_1S_M2_AND_SSD(m, d) == Stub("INVALID_CMD", d)

OEM_1S_12V_CYCLE_SLOT(m, d) ==
  Checked(<< <<m.len = 0, "INVALID_LENGTH">> >>, d,
          Try("INVALID_CMD", d, Try("UNSPECIFIED_ERROR", d, Ok(0, d))))

OEM_1S_READ_BIC_REGISTER(m, d) == Checked(<< <<m.len = 5, "INVALID_LENGTH">> >>, d, Ok(m.b[4], d))

\* b[0] is the address and b[4] the number of bytes.
OEM_1S_WRITE_BIC_REGISTER(m, d) ==
  Checked(<< <<m.b[4] \in 1 .. 4 /\ m.len = 5 + m.b[4], "INVALID_LENGTH">>,
             <<m.b[0] % 4 = 0, "INVALID_DATA_FIELD">> >>, d, Ok(0, d))

\* An acknowledged request outside auto mode changes nothing.
OEM_1S_SET_FAN_DUTY_AUTO(m, d) ==
  Checked(<< <<m.len = 2, "INVALID_LENGTH">>,
             <<m.src \in Slots, "PARAM_OUT_OF_RANGE">>,
             <<m.b[0] \in Pwm, "PARAM_OUT_OF_RANGE">> >>, d,
    Try("UNSPECIFIED_ERROR", d,
        Ok(0, IF d.mode # "AUTO" THEN d
              ELSE [d EXCEPT !.duty[m.src][m.b[0]] =
                      IF m.b[1] > MAX_FAN_DUTY_VALUE THEN MAX_FAN_DUTY_VALUE ELSE m.b[1]])))

OEM_1S_GET_FAN_DUTY(m, d) ==
  Checked(<< <<m.len = 1, "INVALID_LENGTH">>,
             <<m.src \in Slots, "PARAM_OUT_OF_RANGE">>,
             <<m.b[0] \in Pwm, "PARAM_OUT_OF_RANGE">> >>, d, Try("UNSPECIFIED_ERROR", d, Ok(1, d)))

OEM_1S_GET_FAN_RPM(m, d) ==
  Checked(<< <<m.len = 1, "INVALID_LENGTH">> >>, d, Try("UNSPECIFIED_ERROR", d, Ok(2, d)))

OEM_1S_COPY_FLASH_AND_SLED_CYCLE(m, d) == Stub("NOT_SUPP_IN_CURR_STATE", d)

\* Empty bodies: the code that ipmi_cmd_handle has set before stays.
OEM_1S_EMPTY(m, d) == Stub("INVALID_CMD", d)

OEM_1S_GET_BOARD_ID(m, d) ==
  Checked(<< <<m.len = 0, "INVALID_LENGTH">> >>, d, Err("INVALID_CMD", d))

\* Six bytes for every sensor, 0xFF where its cached reading has not five bytes.
OEM_1S_MULTI_ACCURACY_SENSOR_READING(m, d) ==
  Checked(<< <<m.len > 0, "INVALID_LENGTH">>, <<m.len <= 32, "PARAM_OUT_OF_RANGE">> >>,
          d, Ok(6 * m.len, d))

OEM_1S_CLEAR_CMOS(m, d) ==
  Checked(<< <<m.len = 0, "INVALID_LENGTH">> >>, d, Try("UNSPECIFIED_ERROR", d, Ok(0, d)))

OEM_1S_APML_READ(m, d) ==
  Checked(<< <<m.len = 2, "INVALID_LENGTH">>, <<m.b[0] \in {0, 1}, "UNSPECIFIED_ERROR">> >>,
          d, Try("UNSPECIFIED_ERROR", d, Ok(1, d)))

OEM_1S_APML_WRITE(m, d) ==
  Checked(<< <<m.len = 3, "INVALID_LENGTH">>, <<m.b[0] \in {0, 1}, "UNSPECIFIED_ERROR">> >>,
          d, Try("UNSPECIFIED_ERROR", d, Ok(0, d)))

\* b[5] is the length the message type asks for.  The index of the request is
\* a byte that wraps; it only advances when the request was accepted.
OEM_1S_SEND_APML_REQUEST(m, d) ==
  Checked(<< <<m.len >= 1, "INVALID_LENGTH">>,
             <<m.b[0] \in 0 .. 2, "UNSPECIFIED_ERROR">>,
             <<m.len = 1 + m.b[5], "INVALID_LENGTH">> >>, d,
    Try("UNSPECIFIED_ERROR", d, Ok(1, [d EXCEPT !.apml = (@ + 1) % 256])))

OEM_1S_GET_APML_RESPONSE(m, d) ==
  Checked(<< <<m.len = 1, "INVALID_LENGTH">> >>, d, Try("UNSPECIFIED_ERROR", d, Ok(8, d)))

OEM_1S_NOTIFY_PMIC_ERROR(m, d) ==
  Checked(<< <<m.len = 2, "INVALID_LENGTH">> >>, d,
          Try("INVALID_CMD", d, Try("INVALID_DATA_FIELD", d, Try("UNSPECIFIED_ERROR", d, Ok(0, d)))))

\* Requests of slot 3 use the second reservation, all others the first.
\* Faulty variant: all requests use the first.
RsvShared(src) == "SLOT1_BIC"
RsvTable(src) == IF src = "SLOT3_BIC" THEN "SLOT3_BIC" ELSE "SLOT1_BIC"

\* b[0] is the reservation, b[2] the record, b[4] tells whether offset and
\* length exceed it, b[5] is the length to read.
OEM_1S_GET_SDR(m, d) ==
  Checked(<< <<m.len = 6, "INVALID_LENGTH">>,
             <<m.b[0] = d.rsv[RsvTable(m.src)], "INVALID_RESERVATION">>,
             <<m.b[2] = 0, "INVALID_DATA_FIELD">>,
             <<m.b[5] + 2 <= 520, "LENGTH_EXCEEDED">>,
             <<m.b[4] = 0, "PARAM_OUT_OF_RANGE">> >>, d, Ok(m.b[5] + 2, d))

OEM_1S_BMC_IPMB_ACCESS(m, d) ==
  Checked(<< <<m.len >= 2, "INVALID_LENGTH">> >>, d,
          Try("NOT_SUPP_IN_CURR_STATE", d, Try("UNSPECIFIED_ERROR", d, Ok(m.len - 1, d))))

OEM_1S_SET_ADD_DEBUG_SEL_MODE(m, d) ==
  Checked(<< <<m.len >= 1, "INVALID_LENGTH">> >>, d, Try("UNSPECIFIED_ERROR", d, Ok(1, d)))

\* PCIe retimer and cards, HSC status, BIOS version, DIMM mux, M.2 data and the
\* other commands that a platform overrides.
OEM_1S_PLATFORM(m, d) ==
  Stub(IF m.cmd = "GET_HSC_STATUS" THEN "NOT_SUPP_IN_CURR_STATE" ELSE "INVALID_CMD", d)

OEM_1S_SEND_MCTP_PLDM_COMMAND(m, d) ==
  Checked(<< <<m.len >= 3, "INVALID_LENGTH">> >>, d,
          Try("UNSPECIFIED_ERROR", d, Try("CAN_NOT_RESPOND", d, Ok(1, d))))

OEM_1S_CLEAR_CMET(m, d) == Stub("INVALID_CMD", d)

IPMI_OEM_1S_handler(m, d) ==
  CASE m.cmd = "MSG_OUT" -> OEM_1S_MSG_OUT(m, d)
    [] m.cmd = "GET_GPIO" -> OEM_1S_GET_GPIO(m, d)
    [] m.cmd \in {"GET_GPIO_CONFIG", "SET_GPIO_CONFIG"} -> OEM_1S_GPIO_CONFIG(m, d)
    [] m.cmd = "FW_UPDATE" -> OEM_1S_FW_UPDATE(m, d)
    [] m.cmd = "GET_BIC_FW_INFO" -> OEM_1S_GET_BIC_FW_INFO(m, d)
    [] m.cmd = "GET_FW_VERSION" -> OEM_1S_GET_FW_VERSION(m, d)
    [] m.cmd = "INFORM_BMC_TO_CONTROL_POWER" -> OEM_1S_INFORM_BMC_TO_CONTROL_POWER(m, d)
    [] m.cmd = "RESET_BMC" -> OEM_1S_RESET_BMC(m, d)
    [] m.cmd = "READ_FW_IMAGE" -> OEM_1S_READ_FW_IMAGE(m, d)
    [] m.cmd = "SET_WDT_FEED" -> OEM_1S_SET_WDT_FEED(m, d)
    [] m.cmd = "GET_POST_CODE" -> OEM_1S_GET_POST_CODE(m, d)
    [] m.cmd = "GET_4BYTE_POST_CODE" -> OEM_1S_GET_4BYTE_POST_CODE(m, d)
    [] m.cmd = "PECI_ACCESS" -> OEM_1S_PECI_ACCESS(m, d)
    [] m.cmd = "SET_JTAG_TAP_STA" -> OEM_1S_SET_JTAG_TAP_STA(m, d)
    [] m.cmd = "JTAG_DATA_SHIFT" -> OEM_1S_JTAG_DATA_SHIFT(m, d)
    [] m.cmd = "ASD_INIT" -> OEM_1S_ASD_INIT(m, d)
    [] m.cmd = "SENSOR_POLL_EN" -> OEM_1S_SENSOR_POLL_EN(m, d)
    [] m.cmd = "ACCURACY_SENSOR_READING" -> OEM_1S_ACCURACY_SENSOR_READING(m, d)
    [] m.cmd = "GET_SET_GPIO" -> OEM_1S_GET_SET_GPIO(m, d)
    [] m.cmd = "GET_SET_BIC_VGPIO" -> OEM_1S_GET_SET_BIC_VGPIO(m, d)
    [] m.cmd = "CONTROL_SENSOR_POLLING" -> OEM_1S_CONTROL_SENSOR_POLLING(m, d)
    [] m.cmd = "GET_FW_SHA256" -> OEM_1S_GET_FW_SHA256(m, d)
    [] m.cmd = "I2C_DEV_SCAN" -> OEM_1S_I2C_DEV_SCAN(m, d)
    [] m.cmd = "GET_BIC_STATUS" -> OEM_1S_GET_BIC_STATUS(m, d)
    [] m.cmd = "SET_VR_MONITOR_STATUS" -> OEM_1S_SET_VR_MONITOR_STATUS(m, d)
    [] m.cmd = "GET_VR_MONITOR_STATUS" -> OEM_1S_GET_VR_MONITOR_STATUS(m, d)
    [] m.cmd = "RESET_BIC" -> OEM_1S_RESET_BIC(m, d)
    [] m.cmd \in {"GET_SET_M2", "SET_SSD_LED", "GET_SSD_STATUS"} -> OEM_1S_M2_AND_SSD(m, d)
    [] m.cmd = "12V_CYCLE_SLOT" -> OEM_1S_12V_CYCLE_SLOT(m, d)
    [] m.cmd = "READ_BIC_REGISTER" -> OEM_1S_READ_BIC_REGISTER(m, d)
    [] m.cmd = "WRITE_BIC_REGISTER" -> OEM_1S_WRITE_BIC_REGISTER(m, d)
    [] m.cmd = "SET_FAN_DUTY_AUTO" -> OEM_1S_SET_FAN_DUTY_AUTO(m, d)
    [] m.cmd = "GET_FAN_DUTY" -> OEM_1S_GET_FAN_DUTY(m, d)
    [] m.cmd = "GET_FAN_RPM" -> OEM_1S_GET_FAN_RPM(m, d)
    [] m.cmd \in {"COPY_FLASH_IMAGE", "GET_COPY_FLASH_STATUS", "INFORM_PEER_SLED_CYCLE"} ->
         OEM_1S_COPY_FLASH_AND_SLED_CYCLE(m, d)
    [] m.cmd \in {"PEX_FLASH_READ", "GET_FPGA_USER_CODE", "BRIDGE_I2C_MSG_BY_COMPNT"} ->
         OEM_1S_EMPTY(m, d)
    [] m.cmd = "GET_BOARD_ID" -> OEM_1S_GET_BOARD_ID(m, d)
    [] m.cmd = "MULTI_ACCURACY_SENSOR_READING" -> OEM_1S_MULTI_ACCURACY_SENSOR_READING(m, d)
    [] m.cmd = "CLEAR_CMOS" -> OEM_1S_CLEAR_CMOS(m, d)
    [] m.cmd = "APML_READ" -> OEM_1S_APML_READ(m, d)
    [] m.cmd = "APML_WRITE" -> OEM_1S_APML_WRITE(m, d)
    [] m.cmd = "SEND_APML_REQUEST" -> OEM_1S_SEND_APML_REQUEST(m, d)
    [] m.cmd = "GET_APML_RESPONSE" -> OEM_1S_GET_APML_RESPONSE(m, d)
    [] m.cmd = "NOTIFY_PMIC_ERROR" -> OEM_1S_NOTIFY_PMIC_ERROR(m, d)
    [] m.cmd = "OEM_1S_GET_SDR" -> OEM_1S_GET_SDR(m, d)
    [] m.cmd = "BMC_IPMB_ACCESS" -> OEM_1S_BMC_IPMB_ACCESS(m, d)
    [] m.cmd = "SET_ADD_DEBUG_SEL_MODE" -> OEM_1S_SET_ADD_DEBUG_SEL_MODE(m, d)
    [] m.cmd \in {"GET_PCIE_RETIMER_TYPE", "GET_HSC_STATUS", "GET_BIOS_VERSION",
                  "GET_PCIE_CARD_STATUS", "GET_PCIE_CARD_SENSOR_READING", "WRITE_READ_DIMM",
                  "GET_DIMM_I3C_MUX_SELECTION", "SAFE_WRITE_READ_M2_DATA",
                  "PRE_POWER_OFF_CONTROL", "SET_DEVICE_ACTIVE", "DEBUG_GET_HW_SIGNAL"} ->
         OEM_1S_PLATFORM(m, d)
    [] m.cmd = "SEND_MCTP_PLDM_COMMAND" -> OEM_1S_SEND_MCTP_PLDM_COMMAND(m, d)
    [] m.cmd = "CLEAR_CMET" -> OEM_1S_CLEAR_CMET(m, d)
    [] OTHER -> Err("INVALID_CMD", d)

----------------------------------------------------------------------------
(***************************************************************************)
(* oem_handler.c                                                           *)
(***************************************************************************)
OEM_NM_SENSOR_READ(m, d) ==
  Checked(<< <<m.len >= 3, "INVALID_LENGTH">>, <<m.b[0] = 0, "INVALID_DATA_FIELD">> >>, d,
    Try("NODE_BUSY", d, Try("NOT_SUPP_IN_CURR_STATE", d,
      Try("INVALID_DATA_FIELD", d, Try("UNSPECIFIED_ERROR", d, Ok(3, d))))))

OEM_SET_SYSTEM_GUID(m, d) ==
  Checked(<< <<m.len = 16, "INVALID_LENGTH">> >>, d,
    Try("INVALID_PARAM", d, Try("PARAM_OUT_OF_RANGE", d, Try("UNSPECIFIED_ERROR", d, Ok(0, d)))))

\* All PWMs of a slot are set one after the other until one fails.
SetDuty(d, slot, S, v) ==
  [d EXCEPT !.duty[slot] = [p \in Pwm |-> IF p \in S THEN v ELSE d.duty[slot][p]]]

OEM_SET_FAN_DUTY_MANUAL(m, d) ==
  Checked(<< <<m.len = 2, "INVALID_LENGTH">>,
             <<m.src \in Slots, "PARAM_OUT_OF_RANGE">>,
             <<m.b[1] <= MAX_FAN_DUTY_VALUE /\ m.b[0] \in Pwm \cup {INDEX_ALL_PWM},
               "PARAM_OUT_OF_RANGE">> >>, d,
    Try("UNSPECIFIED_ERROR", d,
        IF d.mode # "MANUAL" THEN Ok(0, d)
        ELSE IF m.b[0] # INDEX_ALL_PWM THEN Ok(0, SetDuty(d, m.src, {m.b[0]}, m.b[1]))
        ELSE Ok(0, SetDuty(d, m.src, Pwm, m.b[1])) \cup
             UNION {Err("UNSPECIFIED_ERROR", SetDuty(d, m.src, 0 .. p - 1, m.b[1])) : p \in Pwm}))

OEM_GET_SET_FAN_CTRL_MODE(m, d) ==
  Checked(<< <<m.len = 1, "INVALID_LENGTH">>, <<m.b[0] \in 0 .. 2, "PARAM_OUT_OF_RANGE">> >>, d,
    CASE m.b[0] = 0 -> Ok(0, [d EXCEPT !.mode = "MANUAL"])
      [] m.b[0] = 1 -> Ok(0, [d EXCEPT !.mode = "AUTO"])
      [] OTHER -> Try("UNSPECIFIED_ERROR", d, Ok(1, d)))

OEM_GET_MB_INDEX(m, d) ==
  Checked(<< <<m.len = 0, "INVALID_LENGTH">>, <<m.src \in Slots, "UNSPECIFIED_ERROR">> >>,
          d, Ok(1, d))

OEM_NOT_SUPPORTED(m, d) == Stub("NOT_SUPP_IN_CURR_STATE", d)

IPMI_OEM_handler(m, d) ==
  CASE m.cmd = "NM_SENSOR_READ" -> OEM_NM_SENSOR_READ(m, d)
    [] m.cmd = "SET_SYSTEM_GUID" -> OEM_SET_SYSTEM_GUID(m, d)
    [] m.cmd = "SET_FAN_DUTY_MANUAL" -> OEM_SET_FAN_DUTY_MANUAL(m, d)
    [] m.cmd = "GET_SET_FAN_CTRL_MODE" -> OEM_GET_SET_FAN_CTRL_MODE(m, d)
    [] m.cmd = "GET_MB_INDEX" -> OEM_GET_MB_INDEX(m, d)
    [] m.cmd \in {"CABLE_DETECTION", "GET_CHASSIS_POSITION", "GET_HTTP_BOOT_DATA",
                  "GET_HTTP_BOOT_ATTR"} -> OEM_NOT_SUPPORTED(m, d)
    [] OTHER -> Err("INVALID_CMD", d)

----------------------------------------------------------------------------
(***************************************************************************)
(* storage_handler.c, sensor_handler.c, app_handler.c, chassis_handler.c   *)
(***************************************************************************)
STORAGE_GET_FRUID_INFO(m, d) ==
  Checked(<< <<m.len = 1, "INVALID_LENGTH">>, <<m.b[0] = 0, "INVALID_DATA_FIELD">> >>,
          d, Try("UNSPECIFIED_ERROR", d, Ok(3, d)))

FruFails(d) == UNION {Err(code, d) : code \in
  {"INVALID_PARAM", "PARAM_OUT_OF_RANGE", "FRU_DEV_BUSY", "UNSPECIFIED_ERROR"}}

STORAGE_READ_FRUID_DATA(m, d) ==
  Checked(<< <<m.len = 4, "INVALID_LENGTH">>, <<m.b[3] <= 32, "LENGTH_EXCEEDED">> >>,
          d, FruFails(d) \cup Ok(m.b[3] + 1, d))

STORAGE_WRITE_FRUID_DATA(m, d) ==
  Checked(<< <<m.len >= 4, "INVALID_LENGTH">>, <<m.len - 3 <= 32, "LENGTH_EXCEEDED">> >>,
          d, FruFails(d) \cup Ok(1, d))

\* SDR_get_RSV_ID makes the next number; MaxRsv bounds them.
STORAGE_RSV_SDR(m, d) ==
  Checked(<< <<m.len = 0, "INVALID_LENGTH">> >>, d,
          Ok(2, [d EXCEPT !.rsv[RsvTable(m.src)] = (@ + 1) % (MaxRsv + 1)]))

STORAGE_GET_SDR(m, d) ==
  Checked(<< <<m.len = 6, "INVALID_LENGTH">>,
             <<m.b[0] = d.rsv[RsvTable(m.src)], "INVALID_RESERVATION">>,
             <<m.b[2] = 0, "INVALID_DATA_FIELD">>,
             <<m.b[5] + 2 <= 520, "LENGTH_EXCEEDED">>,
             <<m.b[4] = 0, "PARAM_OUT_OF_RANGE">> >>, d, Ok(m.b[5] + 2, d))

\* Of the errors of ipmb_read only two are told to the requester; the others,
\* and those of PLDM, are a success to it.
STORAGE_ADD_SEL(m, d) ==
  Checked(<< <<m.len = 16, "INVALID_LENGTH">> >>, d, Try("UNSPECIFIED_ERROR", d, Ok(0, d)))

IPMI_Storage_handler(m, d) ==
  CASE m.cmd = "GET_FRUID_INFO" -> STORAGE_GET_FRUID_INFO(m, d)
    [] m.cmd = "READ_FRUID_DATA" -> STORAGE_READ_FRUID_DATA(m, d)
    [] m.cmd = "WRITE_FRUID_DATA" -> STORAGE_WRITE_FRUID_DATA(m, d)
    [] m.cmd = "RSV_SDR" -> STORAGE_RSV_SDR(m, d)
    [] m.cmd = "GET_SDR" -> STORAGE_GET_SDR(m, d)
    [] m.cmd = "ADD_SEL" -> STORAGE_ADD_SEL(m, d)
    [] OTHER -> Err("INVALID_CMD", d)

SENSOR_GET_SENSOR_READING(m, d) ==
  Checked(<< <<m.len = 1, "INVALID_LENGTH">>,
             <<d.poll, "SENSOR_NOT_PRESENT">>,
             <<m.b[0] \in Sensors, "INVALID_DATA_FIELD">> >>,
          d, Try("NODE_BUSY", d, Try("UNSPECIFIED_ERROR", d, Ok(3, d))))

IPMI_SENSOR_handler(m, d) ==
  IF m.cmd = "GET_SENSOR_READING" THEN SENSOR_GET_SENSOR_READING(m, d) ELSE Err("INVALID_CMD", d)

\* Device ID, and the resets that are answered and not done.
APP_GET_DEVICE_ID(m, d) == Checked(<< <<m.len = 0, "INVALID_LENGTH">> >>, d, Ok(15, d))
APP_RESET(m, d) == Checked(<< <<m.len = 0, "INVALID_LENGTH">> >>, d, Ok(0, d))
APP_BMC_GLOBAL_ENABLES(m, d) ==
  IF m.cmd = "SET_BMC_GLOBAL_ENABLES" THEN Ok(0, [d EXCEPT !.enables = m.b[0]]) ELSE Ok(1, d)

IPMI_APP_handler(m, d) ==
  CASE m.cmd = "GET_DEVICE_ID" -> APP_GET_DEVICE_ID(m, d)
    [] m.cmd \in {"COLD_RESET", "WARM_RESET"} -> APP_RESET(m, d)
    [] m.cmd \in {"SET_BMC_GLOBAL_ENABLES", "GET_BMC_GLOBAL_ENABLES"} -> APP_BMC_GLOBAL_ENABLES(m, d)
    [] OTHER -> Stub("INVALID_CMD", d)

CHASSIS_GET_CHASSIS_STATUS(m, d) == Checked(<< <<m.len = 0, "INVALID_LENGTH">> >>, d, Ok(4, d))

IPMI_CHASSIS_handler(m, d) ==
  IF m.cmd = "GET_CHASSIS_STATUS" THEN CHASSIS_GET_CHASSIS_STATUS(m, d) ELSE Err("INVALID_CMD", d)

----------------------------------------------------------------------------
(***************************************************************************)
(* ipmi_cmd_handle: one command after the other                            *)
(***************************************************************************)
Handle(m, d) ==
  CASE m.netfn = "OEM_1S" -> IPMI_OEM_1S_handler(m, d)
    [] m.netfn = "OEM" -> IPMI_OEM_handler(m, d)
    [] m.netfn = "STORAGE" -> IPMI_Storage_handler(m, d)
    [] m.netfn = "SENSOR" -> IPMI_SENSOR_handler(m, d)
    [] m.netfn = "APP" -> IPMI_APP_handler(m, d)
    [] m.netfn = "CHASSIS" -> IPMI_CHASSIS_handler(m, d)
    [] OTHER -> Err("INVALID_CMD", d)

\* The answer of a OEM 1S command has the IANA number before its data.
Answer(m, code, n, d) ==
  /\ last' = [cmd |-> m.cmd, src |-> m.src, cc |-> code, before |-> d,
              len |-> IF code = "SUCCESS" /\ m.netfn = "OEM_1S" THEN n + 3 ELSE n]
  /\ pc' = "idle" /\ cur' = None /\ cc' = "none"

Command(m) ==
  /\ pc = "idle"
  /\ \E r \in Handle(m, dev) :
       /\ dev' = r.dev
       /\ IF r.cc = "flash"
            THEN pc' = "high" /\ cur' = m /\ cc' = "none" /\ UNCHANGED last
            ELSE Answer(m, r.cc, r.len, dev)
  /\ UNCHANGED <<session, mux, stranded>>

\* pal_switch_bios_spi_mux(GPIO_HIGH): the BIOS flash goes to the BIC.
FlashHigh ==
  /\ pc = "high"
  /\ \/ mux' = "BIC" /\ pc' = "access" /\ UNCHANGED <<cur, cc, last>>
     \/ UNCHANGED mux /\ Answer(cur, "UNSPECIFIED_ERROR", 0, dev)
  /\ UNCHANGED <<session, dev, stranded>>

AccessCodes(m) ==
  IF m.cmd = "FW_UPDATE" THEN FwCodes ELSE {"SUCCESS", "INVALID_PARAM", "UNSPECIFIED_ERROR"}

\* Faulty variant: an error is answered without switching back.
AccessReturnsEarly ==
  /\ pc = "access"
  /\ \E code \in AccessCodes(cur) :
       IF code = "SUCCESS" THEN cc' = code /\ pc' = "low" /\ UNCHANGED <<cur, last>>
       ELSE Answer(cur, code, 0, dev)
  /\ UNCHANGED <<session, dev, mux, stranded>>

\* fw_update, read_fw_image or get_fw_sha256; a read also finds out here that
\* the flash has no position.
FlashAccess ==
  /\ pc = "access"
  /\ \E code \in AccessCodes(cur) : cc' = code
  /\ pc' = "low"
  /\ UNCHANGED <<session, dev, mux, cur, last, stranded>>

\* The data of the answer: what was read, or the digest; none after an error.
FlashDataLen(m, code) ==
  CASE code # "SUCCESS" \/ m.cmd = "FW_UPDATE" -> 0
    [] m.cmd = "GET_FW_SHA256" -> 32
    [] OTHER -> m.b[5]

\* pal_switch_bios_spi_mux(GPIO_LOW): back to the PCH, or an error.
FlashLow ==
  /\ pc = "low"
  /\ \/ mux' = "PCH" /\ stranded' = FALSE /\ Answer(cur, cc, FlashDataLen(cur, cc), dev)
     \/ UNCHANGED mux /\ stranded' = TRUE /\ Answer(cur, "UNSPECIFIED_ERROR", 0, dev)
  /\ UNCHANGED <<session, dev>>

\* IPMI_handler gives the command ten seconds and aborts it wherever it is.
Abort ==
  /\ pc # "idle"
  /\ stranded' = (stranded \/ mux = "BIC")
  /\ pc' = "idle" /\ cur' = None /\ cc' = "none"
  /\ UNCHANGED <<session, dev, mux, last>>

Next == (\E m \in Sessions[session] : Command(m)) \/ FlashHigh \/ FlashAccess \/ FlashLow \/ Abort

Spec == Init /\ [][Next]_vars

----------------------------------------------------------------------------
\* Between two commands the BIOS flash belongs to the PCH, however the last
\* access to it ended; only an abort in the middle of an access or a failure of
\* the switch itself leaves it with the BIC, until the next access completes.
MuxReturned == pc = "idle" /\ mux = "BIC" => stranded

\* A command that is answered with an error has left the device as it was: the
\* handlers check lengths, ranges and modes before they act.  Two do not, and
\* both end in a safe state: ASD_INIT turns the PRDY interrupt off, and setting
\* all PWMs stops at the one that fails.
ErrorChangesNothing ==
  last.cc \notin {"none", "SUCCESS"} /\ pc = "idle" =>
    \/ dev = last.before
    \/ last.cmd = "ASD_INIT" /\ dev = [last.before EXCEPT !.prdy = FALSE]
    \/ /\ last.cmd = "SET_FAN_DUTY_MANUAL"
       /\ dev = [last.before EXCEPT !.duty[last.src] = dev.duty[last.src]]

\* The slots do not disturb each other: a step changes the reservation and the
\* fan duties of one slot at most, duties only by the command of the current
\* mode, and never above the maximum.
SlotsApart ==
  [][/\ \E s \in Slots : \A t \in Slots \ {s} : dev'.rsv[t] = dev.rsv[t] /\ dev'.duty[t] = dev.duty[t]
     /\ dev'.rsv["SLOT3_BIC"] # dev.rsv["SLOT3_BIC"] => last'.src = "SLOT3_BIC"
     /\ dev'.rsv["SLOT1_BIC"] # dev.rsv["SLOT1_BIC"] => last'.src # "SLOT3_BIC"
     /\ dev'.duty # dev.duty =>
          /\ last'.cmd = (IF dev.mode = "AUTO" THEN "SET_FAN_DUTY_AUTO" ELSE "SET_FAN_DUTY_MANUAL")
          /\ \A s \in Slots, p \in Pwm : dev'.duty[s][p] <= MAX_FAN_DUTY_VALUE]_vars
=============================================================================
