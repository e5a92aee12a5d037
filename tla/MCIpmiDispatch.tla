--------------------------- MODULE MCIpmiDispatch ---------------------------
(***************************************************************************)
(* The IPMI queue for TLC: the host sets and gets the global enables, the  *)
(* BMC gets them and has requests bridged.  One behaviour has a queue of   *)
(* IPMI_BUF_LEN, another a queue of one.                                   *)
(***************************************************************************)
EXTENDS IpmiDispatch

VARIABLE length

Short == INSTANCE IpmiDispatch WITH IPMI_BUF_LEN <- 1

MCCommand == [p \in Producer |-> IF p = "KCS" THEN {"SET", "GET"} ELSE {"GET", "MSG_OUT"}]

DispatchInit == length \in {1, IPMI_BUF_LEN} /\ Init

DispatchNext ==
  \/ length = IPMI_BUF_LEN /\ Next /\ UNCHANGED length
  \/ length = 1 /\ Short!Next /\ UNCHANGED length

Produce(p) == \/ length = IPMI_BUF_LEN /\ ProducerStep(p)
              \/ length = 1 /\ Short!ProducerStep(p)

\* The fairness of FairSpec; no other step looks at the length of the queue.
DispatchSpec ==
  /\ DispatchInit /\ [][DispatchNext]_<<vars, length>>
  /\ \A p \in Producer : WF_vars(Produce(p))
  /\ WF_vars(DispatcherStep) /\ WF_vars(BridgeResponsePut)
=============================================================================
