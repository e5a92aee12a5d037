--------------------------- MODULE SamplesProofs ----------------------------
(***************************************************************************)
(* Proofs about the programs of Samples, for every value of its constants. *)
(* A step of one image leaves the variables of the others alone, so each   *)
(* program has an inductive invariant of its own.                          *)
(***************************************************************************)
EXTENDS Samples, FiniteSetTheorems, SequenceTheorems, WellFoundedInduction, TLAPS

----------------------------------------------------------------------------
(***************************************************************************)
(* The USB console.                                                        *)
(***************************************************************************)
Command == {"uart_switch_sec", "other"}

ConsoleType ==
  us \in [init : {"ok", "no_agent", "no_shell"}, local_shell : BOOLEAN,
         queue : Seq({"local", "peer"}), work : {"none", "peer"}, suspended : BOOLEAN,
         agent : BOOLEAN, state : {"UNINITIALIZED", "INITIALIZED", "ACTIVE"},
         thread : Command \cup {"idle", "end"}, rx : Seq(Command), typed : Nat, sets : Nat,
         fault : BOOLEAN]

\* While the handler of the way out sleeps, the backend is suspended and the
\* agent may run or not; without the set-up no item is ever queued.
Handover ==
  /\ us.work = "peer" => us.suspended
  /\ us.init # "ok" => us.queue = << >> /\ us.work = "none" /\ ~us.agent /\ ~us.suspended
  /\ us.init = "ok" => us.state # "UNINITIALIZED"

ConsoleInv == ConsoleType /\ Handover /\ Console!OneOwner

LEMMA ConsoleInit == Console!Init => ConsoleInv
<1> SUFFICES ASSUME Console!Init PROVE ConsoleInv
  OBVIOUS
<1>1. PICK outcome \in {"ok", "no_agent", "no_shell"} : us = Console!SetUp(outcome)
  BY DEF Console!Init
<1>2. << >> \in Seq({"local", "peer"}) /\ << >> \in Seq(Command)
  BY EmptySeq
<1>3. (outcome = "ok") \in BOOLEAN
  OBVIOUS
<1>4. ConsoleType
  BY <1>1, <1>2, <1>3 DEF ConsoleType, Console!SetUp
<1>5. /\ us.init = outcome /\ us.local_shell = (outcome = "ok") /\ us.queue = << >>
      /\ us.work = "none" /\ us.suspended = FALSE /\ us.agent = FALSE
      /\ us.state = IF outcome = "no_shell" THEN "UNINITIALIZED" ELSE "ACTIVE"
  BY <1>1 DEF Console!SetUp
<1> QED BY <1>4, <1>5 DEF ConsoleInv, Handover, Console!OneOwner

\* Submitting an item touches the queue alone, and never the one of a console
\* that has not been set up.
LEMMA SubmittedKeeps ==
  ASSUME NEW u, NEW item \in {"local", "peer"},
         u.queue \in Seq({"local", "peer"}), u.init \in {"ok", "no_agent", "no_shell"}
  PROVE  \/ /\ u.init # "ok"
            /\ Console!Submitted(u, item) = [u EXCEPT !.fault = TRUE]
         \/ /\ u.init = "ok"
            /\ \E q \in Seq({"local", "peer"}) : Console!Submitted(u, item) = [u EXCEPT !.queue = q]
         \/ u.init = "ok" /\ Console!Submitted(u, item) = u
<1>1. Append(u.queue, item) \in Seq({"local", "peer"})
  BY AppendProperties
<1> QED BY <1>1 DEF Console!Submitted

LEMMA ConsoleStep == ConsoleInv /\ [Console!Next]_us => ConsoleInv'
<1> SUFFICES ASSUME ConsoleInv, [Console!Next]_us PROVE ConsoleInv'
  OBVIOUS
<1> USE DEF ConsoleInv, ConsoleType, Handover, Console!OneOwner
<1>1. ASSUME us.queue # << >>
      PROVE  Tail(us.queue) \in Seq({"local", "peer"}) /\ us.init = "ok"
  BY <1>1, HeadTailProperties
<1>2. ASSUME us.rx # << >>
      PROVE  Tail(us.rx) \in Seq(Command) /\ Head(us.rx) \in Command
  BY <1>2, HeadTailProperties
<1>3. CASE \E cmd \in Command : Console!Type(cmd)
  <2>1. PICK cmd \in Command : Console!Type(cmd)
    BY <1>3
  <2>2. Append(us.rx, cmd) \in Seq(Command)
    BY AppendProperties
  <2> DEFINE q == Append(us.rx, cmd)
             n == us.typed + 1
  <2>3. us' = [us EXCEPT !.rx = q, !.typed = n] /\ n \in Nat
    BY <2>1 DEF Console!Type
  <2> HIDE DEF q, n
  <2>4. ConsoleType'
    BY <2>2, <2>3 DEF q
  <2> QED BY <2>3, <2>4
<1>4. CASE Console!Collect
  BY <1>2, <1>4 DEF Console!Collect, Command
<1>5. CASE Console!cmd_uart_switch_peer
  <2> DEFINE u == [us EXCEPT !.thread = "end"]
  <2>1. u.queue = us.queue /\ u.init = us.init /\ us' = Console!Submitted(u, "peer")
    BY <1>5 DEF Console!cmd_uart_switch_peer
  <2> HIDE DEF u
  <2>2. \/ us' = [u EXCEPT !.fault = TRUE]
        \/ /\ u.init = "ok"
           /\ \E q \in Seq({"local", "peer"}) : us' = [u EXCEPT !.queue = q]
        \/ us' = u
    BY <2>1, SubmittedKeeps
  <2>3. CASE us' = [u EXCEPT !.fault = TRUE]
    BY <2>1, <2>3 DEF u
  <2>4. ASSUME u.init = "ok", NEW q \in Seq({"local", "peer"}), us' = [u EXCEPT !.queue = q]
        PROVE  ConsoleInv'
    BY <2>1, <2>4 DEF u
  <2>5. CASE us' = u
    BY <2>1, <2>5 DEF u
  <2> QED BY <2>2, <2>3, <2>4, <2>5
<1>6. CASE Console!CollectEnds
  BY <1>6 DEF Console!CollectEnds
<1>7. CASE Console!on_vuart_mode_set
  <2> DEFINE n == us.sets + 1
             u == [us EXCEPT !.sets = n]
  <2>1. u.queue = us.queue /\ u.init = us.init /\ us' = Console!Submitted(u, "local") /\ n \in Nat
    BY <1>7 DEF Console!on_vuart_mode_set
  <2> HIDE DEF u, n
  <2>2. \/ us' = [u EXCEPT !.fault = TRUE]
        \/ /\ u.init = "ok"
           /\ \E q \in Seq({"local", "peer"}) : us' = [u EXCEPT !.queue = q]
        \/ us' = u
    BY <2>1, SubmittedKeeps
  <2>3. CASE us' = [u EXCEPT !.fault = TRUE]
    BY <2>1, <2>3 DEF u
  <2>4. ASSUME u.init = "ok", NEW q \in Seq({"local", "peer"}), us' = [u EXCEPT !.queue = q]
        PROVE  ConsoleInv'
    BY <2>1, <2>4 DEF u
  <2>5. CASE us' = u
    BY <2>1, <2>5 DEF u
  <2> QED BY <2>2, <2>3, <2>4, <2>5
<1>8. CASE Console!switch_local_work_handler
  BY <1>1, <1>8 DEF Console!switch_local_work_handler, Console!Runs
<1>9. CASE Console!PeerSuspend
  BY <1>1, <1>9 DEF Console!PeerSuspend, Console!Runs
<1>10. CASE Console!PeerClaim
  BY <1>10 DEF Console!PeerClaim
<1>11. CASE UNCHANGED us
  BY <1>11
<1> QED BY <1>3, <1>4, <1>5, <1>6, <1>7, <1>8, <1>9, <1>10, <1>11 DEF Console!Next, Command

\* What another image does leaves the console alone.
LEMMA ConsoleAlone ==
  ASSUME [SamplesNext]_samplesVars
  PROVE  [Console!Next]_us
BY DEF SamplesNext, samplesVars

\* usb_shell.c: however many commands and requests of the other core meet, and in
\* whatever order their work items run, the port has one owner, the one that
\* local_shell tells, and a local console has a shell that listens.
THEOREM ConsoleHasOneOwner == SamplesSpec => []OneOwner
<1>1. SamplesInit => ConsoleInv
  BY ConsoleInit DEF SamplesInit
<1>2. ConsoleInv /\ [SamplesNext]_samplesVars => ConsoleInv'
  BY ConsoleStep, ConsoleAlone
<1>3. ConsoleInv => OneOwner
  BY DEF ConsoleInv, OneOwner
<1> QED BY <1>1, <1>2, <1>3, PTL DEF SamplesSpec

----------------------------------------------------------------------------
(***************************************************************************)
(* The SSH server: the tries of a client.                                  *)
(***************************************************************************)
\* While a client logs in, every try that is gone is one of its own wrong
\* passwords, and one is left; who is served has not used up the tries.
LoginInv ==
  /\ passwdRetry \in Int /\ wrong \in Nat
  /\ srv = "login" => passwdRetry = 3 - wrong /\ wrong < 3
  /\ Echo!Serving => wrong < 3

\* What an attempt does to the tries and where it leads.
LEMMA LoginCounts ==
  ASSUME LoginInv, NEW a \in Logins, Echo!Login(a)
  PROVE  LoginInv'
<1> DEFINE r == Echo!wsUserAuth(a)
<1>1. /\ srv = "login"
      /\ passwdRetry' = IF r \in {"INVALID_PASSWORD", "REJECTED"} THEN passwdRetry - 1 ELSE passwdRetry
      /\ wrong' = IF r \in {"INVALID_PASSWORD", "REJECTED"} THEN wrong + 1 ELSE wrong
  BY DEF Echo!Login
<1>2. r = "INVALID_PASSWORD" => passwdRetry - 1 > 0
  BY Zenon DEF Echo!wsUserAuth
<1>3. r = "REJECTED" => srv' = "after"
  BY DEF Echo!Login, Echo!EndLogin
<1>4. r # "REJECTED" => srv' \in {"enter", "sftp", "scp", "after", "login"}
  BY DEF Echo!Login, Echo!EndLogin, Echo!Services
<1> HIDE DEF r
<1>5. wrong < 3 /\ passwdRetry = 3 - wrong /\ passwdRetry \in Int /\ wrong \in Nat
  BY <1>1 DEF LoginInv
<1>6. CASE r = "REJECTED"
  BY <1>1, <1>3, <1>5, <1>6 DEF LoginInv, Echo!Serving
<1>7. CASE r # "REJECTED"
  <2>1. passwdRetry' = 3 - wrong' /\ wrong' < 3 /\ passwdRetry' \in Int /\ wrong' \in Nat
    BY <1>1, <1>2, <1>5, <1>7
  <2> QED BY <2>1 DEF LoginInv
<1> QED BY <1>6, <1>7

\* Every other step leaves the counters alone, resets them or ends the login.
LEMMA LoginStep == LoginInv /\ [Echo!Next]_echoVars => LoginInv'
<1> SUFFICES ASSUME LoginInv, [Echo!Next]_echoVars PROVE LoginInv'
  OBVIOUS
<1>1. CASE \E a \in Logins : Echo!Login(a)
  BY <1>1, LoginCounts
<1>2. CASE Echo!Accept
  BY <1>2 DEF LoginInv, Echo!Accept, Echo!MAX_PASSWD_RETRY, Echo!Serving
<1>3. CASE Echo!ReleaseConnection
  BY <1>3 DEF LoginInv, Echo!ReleaseConnection, Echo!Serving
<1>4. ASSUME UNCHANGED <<passwdRetry, wrong>>,
             srv' = "login" => srv = "login",
             Echo!Serving' => Echo!Serving
      PROVE  LoginInv'
  BY <1>4 DEF LoginInv
<1>5. CASE \/ Echo!Setup \/ Echo!NewConnection \/ Echo!LoginFails \/ Echo!AfterService \/ Echo!Shutdown
           \/ Echo!ScpTransfer \/ Echo!WorkerEnds \/ Echo!FwdStale
  <2>1. UNCHANGED <<passwdRetry, wrong>>
    BY <1>5 DEF Echo!Setup, Echo!NewConnection, Echo!LoginFails, Echo!AfterService, Echo!Shutdown,
       Echo!ScpTransfer, Echo!WorkerEnds, Echo!FwdStale, Echo!authVars, Echo!other
  <2>2. srv' \in {"failed", "listen", "accept", "after", "release", "shutdown"}
    BY <1>5 DEF Echo!Setup, Echo!NewConnection, Echo!LoginFails, Echo!AfterService, Echo!Shutdown,
       Echo!ScpTransfer, Echo!WorkerEnds, Echo!FwdStale, Echo!EndLogin, Echo!Break
  <2> QED BY <1>4, <2>1, <2>2 DEF Echo!Serving
<1>6. CASE Echo!SftpPending \/ Echo!SftpSelect \/ Echo!SftpPeek \/ Echo!EnterWorker
  <2>1. UNCHANGED <<passwdRetry, wrong>>
    BY <1>6 DEF Echo!SftpPending, Echo!SftpSelect, Echo!SftpPeek, Echo!EnterWorker, Echo!SftpLoop,
       Echo!SftpGoto, Echo!SftpFrame, Echo!authVars, Echo!other
  <2>2. Echo!Serving
    BY <1>6 DEF Echo!SftpPending, Echo!SftpSelect, Echo!SftpPeek, Echo!EnterWorker, Echo!Serving
  <2>3. srv' # "login"
    BY <1>6 DEF Echo!SftpPending, Echo!SftpSelect, Echo!SftpPeek, Echo!EnterWorker, Echo!SftpLoop,
       Echo!SftpGoto
  <2> QED BY <1>4, <2>1, <2>2, <2>3
<1>7. CASE \/ (\E c \in Input, sendOk, statsOk \in BOOLEAN : Echo!ShellData(c, sendOk, statsOk))
           \/ (\E how \in {"sent", "waits", "fails"} : Echo!FwdData(how))
  <2>1. UNCHANGED <<passwdRetry, wrong>> /\ srv' \in {"after", srv}
    BY <1>7 DEF Echo!ShellData, Echo!FwdData, Echo!Break, Echo!Stay, Echo!authVars, Echo!other
  <2> QED BY <1>4, <2>1 DEF Echo!Serving
<1>8. CASE \/ Echo!FWD_LOCAL_SETUP \/ Echo!FWD_LOCAL_CLEANUP \/ Echo!FWD_REMOTE_SETUP
           \/ Echo!FWD_REMOTE_CLEANUP \/ Echo!FwdAccept \/ Echo!FwdConnect \/ Echo!connect_addr
           \/ (\E how \in {"channel", "eof", "reset"} : Echo!FwdClosed(how))
  <2>1. UNCHANGED <<passwdRetry, wrong>> /\ srv' = srv
    BY <1>8 DEF Echo!FWD_LOCAL_SETUP, Echo!FWD_LOCAL_CLEANUP, Echo!FWD_REMOTE_SETUP,
       Echo!FWD_REMOTE_CLEANUP, Echo!FwdAccept, Echo!FwdConnect, Echo!connect_addr, Echo!FwdClosed,
       Echo!FwdFrame, Echo!Stay, Echo!authVars, Echo!other
  <2> QED BY <1>4, <2>1 DEF Echo!Serving
<1>9. CASE Echo!AgentAccept \/ Echo!AgentClosed \/ Echo!ClientGoes \/ Echo!Stopped \/ UNCHANGED echoVars
  <2>1. UNCHANGED <<passwdRetry, wrong>> /\ srv' = srv
    BY <1>9 DEF Echo!AgentAccept, Echo!AgentClosed, Echo!ClientGoes, Echo!Stopped, Echo!vars,
       Echo!Stay, Echo!authVars, Echo!other, echoVars
  <2> QED BY <1>4, <2>1 DEF Echo!Serving
<1> QED BY <1>1, <1>2, <1>3, <1>5, <1>6, <1>7, <1>8, <1>9 DEF Echo!Next, Echo!ServerStep

\* What another image does leaves the server alone.
LEMMA EchoAlone ==
  ASSUME [SamplesNext]_samplesVars
  PROVE  [Echo!Next]_echoVars
BY DEF SamplesNext, samplesVars, echoVars

\* echoserver.c: every client has three tries of its own, although passwdRetry
\* is a static variable, and none is served after three wrong passwords, for any
\* list of users and any sequence of connections and attempts.
THEOREM TriesAreLimited == SamplesSpec => []LoginLimit
<1>1. SamplesInit => LoginInv
  BY DEF SamplesInit, Echo!Init, LoginInv, Echo!Serving, Echo!MAX_PASSWD_RETRY
<1>2. LoginInv /\ [SamplesNext]_samplesVars => LoginInv'
  BY LoginStep, EchoAlone
<1>3. LoginInv => LoginLimit
  BY DEF LoginInv, LoginLimit, Echo!LoginLimit, Echo!MAX_PASSWD_RETRY
<1> QED BY <1>1, <1>2, <1>3, PTL DEF SamplesSpec

----------------------------------------------------------------------------
(***************************************************************************)
(* The SSH server: the descriptor of a forwarded connection.               *)
(***************************************************************************)
FwdFields == {"state", "listenFd", "appFd", "fwdFd", "listeners", "watch", "buf"}

\* From the accept or the connect on, until the state says otherwise, the
\* forward's descriptor is open and does not listen, in whatever step the server
\* is; the sockets that listen are open, so no new descriptor is one of them.
ForwardInv ==
  /\ DOMAIN fwd = FwdFields
  /\ fwd.listeners \subseteq openFds
  /\ fwd.state \in {"CONNECT", "CONNECTED"} => fwd.fwdFd \in openFds \ fwd.listeners

\* A new descriptor is a free one.
LEMMA NewFdIsFree ==
  ASSUME ~Echo!Full
  PROVE  Echo!NewFd(openFds) \in (3 .. MaxFds) \ openFds
<1> DEFINE N == (3 .. MaxFds) \ openFds
<1>6. MaxFds \in Nat
  BY SamplesAssumption, Zenon
<1>1. N \subseteq Nat /\ N # {}
  <2>1. N # {}
    BY Zenon DEF Echo!Full
  <2> QED BY <1>6, <2>1
<1> HIDE DEF N
<1>7. IsWellFoundedOn(OpToRel(<, Nat), Nat)
  BY NatLessThanWellFounded, Zenon
<1>8. \E f \in N : \A g \in N : ~(<<g, f>> \in OpToRel(<, Nat))
  BY <1>1, <1>7, WFMin, ZenonT(60)
<1>2. PICK f \in N : \A g \in N : ~(<<g, f>> \in OpToRel(<, Nat))
  BY <1>8, Zenon
<1>3. ASSUME NEW g \in N PROVE g \in Nat /\ f \in Nat /\ ~(g < f)
  <2>1. g \in Nat /\ f \in Nat
    BY <1>1
  <2>2. ASSUME g < f PROVE <<g, f>> \in OpToRel(<, Nat)
    BY <2>1, <2>2, Zenon DEF OpToRel
  <2> QED BY <1>2, <2>1, <2>2, Zenon
<1>4. f \in 3 .. MaxFds /\ f \notin openFds
  BY DEF N
<1>5. ASSUME NEW g \in 3 .. f - 1 PROVE g \in openFds
  <2>1. g \in Nat /\ g < f /\ f \in Nat /\ g \in 3 .. MaxFds
    BY <1>4, <1>6
  <2>2. g \notin N
    BY <1>3, <2>1
  <2> QED BY <2>1, <2>2 DEF N
<1> QED BY <1>4, <1>5 DEF Echo!NewFd

LEMMA ForwardStep ==
  ASSUME ForwardInv, [Echo!Next]_echoVars PROVE ForwardInv'
<1>1. ASSUME fwd' = Echo!NoFwd PROVE ForwardInv'
  BY <1>1 DEF ForwardInv, Echo!NoFwd, FwdFields
<1>2. ASSUME fwd' = fwd, openFds \subseteq openFds' PROVE ForwardInv'
  BY <1>2 DEF ForwardInv
<1>3. CASE Echo!Accept \/ Echo!ReleaseConnection
  BY <1>1, <1>2, <1>3 DEF Echo!Accept, Echo!ReleaseConnection
<1>4. CASE \/ Echo!Setup \/ Echo!NewConnection \/ Echo!LoginFails \/ Echo!AfterService
           \/ Echo!Shutdown \/ Echo!ScpTransfer \/ Echo!WorkerEnds \/ Echo!FwdStale
           \/ Echo!SftpPending \/ Echo!SftpSelect \/ Echo!SftpPeek
           \/ (\E a \in Logins : Echo!Login(a)) \/ Echo!ClientGoes \/ Echo!AgentClosed
           \/ (\E c \in Input, sendOk, statsOk \in BOOLEAN : Echo!ShellData(c, sendOk, statsOk))
           \/ Echo!Stopped \/ UNCHANGED echoVars
  <2>1. UNCHANGED <<fwd, openFds>>
    BY <1>4 DEF Echo!Setup, Echo!NewConnection, Echo!LoginFails, Echo!AfterService, Echo!Shutdown,
       Echo!ScpTransfer, Echo!WorkerEnds, Echo!FwdStale, Echo!SftpPending, Echo!SftpSelect,
       Echo!SftpPeek, Echo!SftpLoop, Echo!SftpGoto, Echo!SftpFrame, Echo!Login, Echo!ClientGoes,
       Echo!AgentClosed, Echo!ShellData, Echo!Stopped, Echo!vars, Echo!workVars, echoVars
  <2> QED BY <1>2, <2>1
<1>5. CASE Echo!AgentAccept
  BY <1>2, <1>5 DEF Echo!AgentAccept
<1>6. CASE Echo!EnterWorker
  BY <1>6 DEF ForwardInv, FwdFields, Echo!EnterWorker
<1>7. CASE Echo!FWD_LOCAL_SETUP \/ Echo!FWD_LOCAL_CLEANUP \/ Echo!FWD_REMOTE_CLEANUP
  <2>1. DOMAIN fwd' = FwdFields /\ fwd'.state \in {"DIRECT", "INIT"}
    BY <1>7 DEF ForwardInv, FwdFields, Echo!FWD_LOCAL_SETUP, Echo!FWD_LOCAL_CLEANUP,
       Echo!FWD_REMOTE_CLEANUP
  <2>2. CASE Echo!FWD_LOCAL_SETUP
    BY <2>1, <2>2 DEF ForwardInv, FwdFields, Echo!FWD_LOCAL_SETUP
  <2>3. CASE Echo!FWD_LOCAL_CLEANUP
    BY <2>1, <2>3 DEF ForwardInv, FwdFields, Echo!FWD_LOCAL_CLEANUP
  <2>4. CASE Echo!FWD_REMOTE_CLEANUP
    BY <2>1, <2>4 DEF ForwardInv, FwdFields, Echo!FWD_REMOTE_CLEANUP
  <2> QED BY <1>7, <2>2, <2>3, <2>4
<1>8. CASE Echo!FWD_REMOTE_SETUP
  <2> DEFINE f == Echo!NewFd(openFds)
  <2> HIDE DEF f
  <2>1. CASE fwd' = [fwd EXCEPT !.listenFd = -1] /\ UNCHANGED openFds
    BY <2>1 DEF ForwardInv, FwdFields
  <2>2. CASE /\ openFds' = openFds \cup {f}
             /\ fwd' = [fwd EXCEPT !.listenFd = f, !.state = "LISTEN", !.listeners = @ \cup {f}]
    BY <2>2 DEF ForwardInv, FwdFields
  <2> QED BY <1>8, <2>1, <2>2, Zenon DEF Echo!FWD_REMOTE_SETUP, f
<1>9. CASE Echo!FwdAccept \/ Echo!connect_addr
  <2>1. CASE Echo!FwdAccept
    BY <2>1, NewFdIsFree DEF ForwardInv, FwdFields, Echo!FwdAccept
  <2>2. CASE Echo!connect_addr
    BY <2>2, NewFdIsFree DEF ForwardInv, FwdFields, Echo!connect_addr
  <2> QED BY <1>9, <2>1, <2>2
<1>10. CASE Echo!FwdConnect \/ (\E how \in {"sent", "waits", "fails"} : Echo!FwdData(how))
  BY <1>10 DEF ForwardInv, FwdFields, Echo!FwdConnect, Echo!FwdData
<1>11. CASE \E how \in {"channel", "eof", "reset"} : Echo!FwdClosed(how)
  BY <1>11 DEF ForwardInv, FwdFields, Echo!FwdClosed
<1> QED BY <1>3, <1>4, <1>5, <1>6, <1>7, <1>8, <1>9, <1>10, <1>11 DEF Echo!Next, Echo!ServerStep

\* ssh_worker: for any number of descriptors and whatever callbacks, closed channels,
\* resets and connections come, the fwdFd of a connected forward is open and is no
\* listening socket.  (It says nothing of the copy of fwdListenFd: see ListenOpen.)
THEOREM ForwardIsOpen == SamplesSpec => []FwdOpen
<1>1. SamplesInit => ForwardInv
  BY DEF SamplesInit, Echo!Init, ForwardInv, FwdFields, Echo!NoFwd
<1>2. ForwardInv /\ [SamplesNext]_samplesVars => ForwardInv'
  BY ForwardStep, EchoAlone
<1>3. ForwardInv => FwdOpen
  BY DEF ForwardInv, FwdOpen, Echo!FwdOpen
<1> QED BY <1>1, <1>2, <1>3, PTL DEF SamplesSpec
----------------------------------------------------------------------------
(***************************************************************************)
(* The cipher programs: what they run.                                     *)
(***************************************************************************)
WholeBlocks == {n \in Nat : n % 16 = 0}
AesFn(n) == {Ciphers!aes256_ecb_mode(n), Ciphers!aes256_cbc_mode(n), Ciphers!aes256_ctr_mode(n),
             Ciphers!aes256_ccm_mode(n), Ciphers!aes256_gcm_mode(n)}
AesRound == [fn : UNION {AesFn(n) : n \in WholeBlocks}, keylen : Nat]

\* The functions that compare with a known ciphertext.
KnownRound == [fn : {Ciphers!crypto_ecb_mode, Ciphers!crypto_cbc_mode, Ciphers!crypto_ctr_mode,
                     Ciphers!crypto_ccm_mode, Ciphers!crypto_gcm_mode,
                     Ciphers!sm4_ecb_mode, Ciphers!sm4_cbc_mode, Ciphers!sm4_ctr_mode,
                     Ciphers!sm4_ccm_mode, Ciphers!sm4_gcm_mode}, keylen : {16}]

\* The k-th round of a test of aes256 has one of the lengths.
LEMMA RoundLength ==
  ASSUME NEW k \in 1 .. 3 * Len(Lens)
  PROVE  Lens[(k - 1) \div 3 + 1] \in WholeBlocks /\ 16 + 8 * ((k - 1) % 3) \in Nat
<1>1. Len(Lens) \in Nat /\ \A l \in 1 .. Len(Lens) : Lens[l] \in Nat /\ Lens[l] % 16 = 0
  BY SamplesAssumption, LenProperties, ElementOfSeq
<1>2. (k - 1) \div 3 + 1 \in 1 .. Len(Lens)
  BY <1>1
<1>3. (k - 1) % 3 \in Nat
  BY <1>1
<1> QED BY <1>1, <1>2, <1>3 DEF WholeBlocks

LEMMA TestRounds ==
  /\ Ciphers!test_ecb \in Seq(AesRound) /\ Len(Ciphers!test_ecb) = 3 * Len(Lens)
  /\ Ciphers!test_cbc \in Seq(AesRound) /\ Len(Ciphers!test_cbc) = 3 * Len(Lens)
  /\ Ciphers!test_ctr \in Seq(AesRound) /\ Len(Ciphers!test_ctr) = 3 * Len(Lens)
  /\ Ciphers!test_ccm \in Seq(AesRound) /\ Len(Ciphers!test_ccm) = 3 * Len(Lens)
  /\ Ciphers!test_gcm \in Seq(AesRound) /\ Len(Ciphers!test_gcm) = 3 * Len(Lens)
<1>1. Len(Lens) \in Nat /\ 3 * Len(Lens) \in Nat
  BY SamplesAssumption, LenProperties
<1> DEFINE at(k) == Lens[(k - 1) \div 3 + 1]
           kl(k) == 16 + 8 * ((k - 1) % 3)
<1>2. \A k \in 1 .. 3 * Len(Lens) : at(k) \in WholeBlocks /\ kl(k) \in Nat
  BY RoundLength
<1> HIDE DEF at, kl
<1>3. \A k \in 1 .. 3 * Len(Lens) :
        /\ [fn |-> Ciphers!aes256_ecb_mode(at(k)), keylen |-> kl(k)] \in AesRound
        /\ [fn |-> Ciphers!aes256_cbc_mode(at(k)), keylen |-> kl(k)] \in AesRound
        /\ [fn |-> Ciphers!aes256_ctr_mode(at(k)), keylen |-> kl(k)] \in AesRound
        /\ [fn |-> Ciphers!aes256_ccm_mode(at(k)), keylen |-> kl(k)] \in AesRound
        /\ [fn |-> Ciphers!aes256_gcm_mode(at(k)), keylen |-> kl(k)] \in AesRound
  BY <1>2 DEF AesRound, AesFn
<1>4. /\ Ciphers!test_ecb = [k \in 1 .. 3 * Len(Lens) |->
              [fn |-> Ciphers!aes256_ecb_mode(at(k)), keylen |-> kl(k)]]
      /\ Ciphers!test_cbc = [k \in 1 .. 3 * Len(Lens) |->
              [fn |-> Ciphers!aes256_cbc_mode(at(k)), keylen |-> kl(k)]]
      /\ Ciphers!test_ctr = [k \in 1 .. 3 * Len(Lens) |->
              [fn |-> Ciphers!aes256_ctr_mode(at(k)), keylen |-> kl(k)]]
      /\ Ciphers!test_ccm = [k \in 1 .. 3 * Len(Lens) |->
              [fn |-> Ciphers!aes256_ccm_mode(at(k)), keylen |-> kl(k)]]
      /\ Ciphers!test_gcm = [k \in 1 .. 3 * Len(Lens) |->
              [fn |-> Ciphers!aes256_gcm_mode(at(k)), keylen |-> kl(k)]]
  BY Zenon DEF Ciphers!test_ecb, Ciphers!test_cbc, Ciphers!test_ctr, Ciphers!test_ccm, Ciphers!test_gcm,
     Ciphers!Rounds, at, kl
<1>5. ASSUME NEW n \in Nat, NEW s \in [1 .. n -> AesRound]
      PROVE  s \in Seq(AesRound) /\ Len(s) = n
  OBVIOUS
<1>6. /\ Ciphers!test_ecb \in [1 .. 3 * Len(Lens) -> AesRound]
      /\ Ciphers!test_cbc \in [1 .. 3 * Len(Lens) -> AesRound]
      /\ Ciphers!test_ctr \in [1 .. 3 * Len(Lens) -> AesRound]
      /\ Ciphers!test_ccm \in [1 .. 3 * Len(Lens) -> AesRound]
      /\ Ciphers!test_gcm \in [1 .. 3 * Len(Lens) -> AesRound]
  BY <1>3, <1>4, Zenon
<1> QED BY <1>1, <1>5, <1>6, Zenon

\* The plan of a program has at least one round, and what it is.
LEMMA Plans ==
  /\ Ciphers!Plan("aes256") \in Seq(AesRound) /\ Len(Ciphers!Plan("aes256")) >= 1
  /\ Ciphers!Plan("crypto") \in Seq(KnownRound) /\ Len(Ciphers!Plan("crypto")) = 5
  /\ Ciphers!Plan("sm4") \in Seq(KnownRound) /\ Len(Ciphers!Plan("sm4")) = 5
<1>1. Ciphers!Plan("aes256") \in Seq(AesRound) /\ Len(Ciphers!Plan("aes256")) >= 1
  <2>1. Len(Lens) \in Nat /\ Len(Lens) >= 1
    BY SamplesAssumption, LenProperties, EmptySeq
  <2>2. Ciphers!aes256_main \in Seq(AesRound) /\ Len(Ciphers!aes256_main) = 15 * Len(Lens)
    <3>1. ASSUME NEW s \in Seq(AesRound), NEW t \in Seq(AesRound)
          PROVE  s \o t \in Seq(AesRound) /\ Len(s \o t) = Len(s) + Len(t)
      BY ConcatProperties
    <3>2. ASSUME NEW n \in Nat, NEW s \in Seq(AesRound), Len(s) = n * Len(Lens),
                 NEW t \in Seq(AesRound), Len(t) = 3 * Len(Lens)
          PROVE  s \o t \in Seq(AesRound) /\ Len(s \o t) = (n + 3) * Len(Lens)
      BY <2>1, <3>1, <3>2
    <3> DEFINE s2 == Ciphers!test_ecb \o Ciphers!test_cbc
               s3 == s2 \o Ciphers!test_ctr
               s4 == s3 \o Ciphers!test_ccm
               s5 == s4 \o Ciphers!test_gcm
    <3>3. s2 \in Seq(AesRound) /\ Len(s2) = 6 * Len(Lens)
      BY <3>2, TestRounds
    <3> HIDE DEF s2
    <3>4. s3 \in Seq(AesRound) /\ Len(s3) = 9 * Len(Lens)
      BY <3>2, <3>3, TestRounds
    <3> HIDE DEF s3
    <3>5. s4 \in Seq(AesRound) /\ Len(s4) = 12 * Len(Lens)
      BY <3>2, <3>4, TestRounds
    <3> HIDE DEF s4
    <3>6. s5 \in Seq(AesRound) /\ Len(s5) = 15 * Len(Lens)
      BY <3>2, <3>5, TestRounds
    <3> QED BY <3>6, Zenon DEF Ciphers!aes256_main, s2, s3, s4, s5
  <2>3. Ciphers!Plan("aes256") = Ciphers!aes256_main
    BY DEF Ciphers!Plan
  <2> QED BY <2>1, <2>2, <2>3
<1> DEFINE Five(a, b, c, d, e) == <<a>> \o <<b>> \o <<c>> \o <<d>> \o <<e>>
<1>2. ASSUME NEW a \in KnownRound, NEW b \in KnownRound, NEW c \in KnownRound, NEW d \in KnownRound,
             NEW e \in KnownRound
      PROVE  /\ Five(a, b, c, d, e) \in Seq(KnownRound)
             /\ Len(Five(a, b, c, d, e)) = 5
  <2>1. \A x \in KnownRound : <<x>> \in Seq(KnownRound) /\ Len(<<x>>) = 1
    OBVIOUS
  <2>2. ASSUME NEW s \in Seq(KnownRound), NEW x \in KnownRound
        PROVE  s \o <<x>> \in Seq(KnownRound) /\ Len(s \o <<x>>) = Len(s) + 1
    BY <2>1, ConcatProperties
  <2>3. <<a>> \o <<b>> \in Seq(KnownRound) /\ Len(<<a>> \o <<b>>) = 2
    BY <2>1, <2>2
  <2>4. <<a>> \o <<b>> \o <<c>> \in Seq(KnownRound) /\ Len(<<a>> \o <<b>> \o <<c>>) = 3
    BY <2>3, <2>2
  <2>5. <<a>> \o <<b>> \o <<c>> \o <<d>> \in Seq(KnownRound) /\ Len(<<a>> \o <<b>> \o <<c>> \o <<d>>) = 4
    BY <2>4, <2>2
  <2> QED BY <2>5, <2>2
<1> DEFINE R(f) == [fn |-> f, keylen |-> 16]
<1>3. /\ R(Ciphers!crypto_ecb_mode) \in KnownRound /\ R(Ciphers!crypto_cbc_mode) \in KnownRound
      /\ R(Ciphers!crypto_ctr_mode) \in KnownRound /\ R(Ciphers!crypto_ccm_mode) \in KnownRound
      /\ R(Ciphers!crypto_gcm_mode) \in KnownRound
      /\ R(Ciphers!sm4_ecb_mode) \in KnownRound /\ R(Ciphers!sm4_cbc_mode) \in KnownRound
      /\ R(Ciphers!sm4_ctr_mode) \in KnownRound /\ R(Ciphers!sm4_ccm_mode) \in KnownRound
      /\ R(Ciphers!sm4_gcm_mode) \in KnownRound
  BY DEF KnownRound
<1>4. /\ Ciphers!Plan("crypto") =
           Five(R(Ciphers!crypto_ecb_mode), R(Ciphers!crypto_cbc_mode), R(Ciphers!crypto_ctr_mode),
                R(Ciphers!crypto_ccm_mode), R(Ciphers!crypto_gcm_mode))
      /\ Ciphers!Plan("sm4") =
           Five(R(Ciphers!sm4_ecb_mode), R(Ciphers!sm4_cbc_mode), R(Ciphers!sm4_ctr_mode),
                R(Ciphers!sm4_gcm_mode), R(Ciphers!sm4_ccm_mode))
  BY DEF Ciphers!Plan, Ciphers!crypto_main, Ciphers!sm4_main, Ciphers!Once
<1> HIDE DEF R, Five
<1>5. Ciphers!Plan("crypto") \in Seq(KnownRound) /\ Len(Ciphers!Plan("crypto")) = 5
  BY <1>2, <1>3, <1>4
<1>6. Ciphers!Plan("sm4") \in Seq(KnownRound) /\ Len(Ciphers!Plan("sm4")) = 5
  BY <1>2, <1>3, <1>4
<1> QED BY <1>1, <1>5, <1>6


----------------------------------------------------------------------------
(***************************************************************************)
(* The cipher programs: their invariant, stated of a state c of ci.        *)
(***************************************************************************)
CipherFields == {"app", "asserts", "r", "dev", "pc", "ss", "hwOpen", "i", "ct", "same", "bad", "log",
                 "moved", "h"}
SessionFields == {"in_use", "holds", "mode", "fed"}
HandleFields == {"i", "started", "want", "out", "due"}

Sessions(ss) ==
  /\ DOMAIN ss = 1 .. MaxSession
  /\ \A k \in 1 .. MaxSession : DOMAIN ss[k] = SessionFields /\ ss[k].in_use \in BOOLEAN

CipherType(c) ==
  /\ DOMAIN c = CipherFields
  /\ c.app \in {"aes256", "crypto", "sm4", "hash"}
  /\ c.dev \in {"sw", "hw"} /\ (c.app # "aes256" => c.dev = "hw")
  /\ c.pc \in {"begin_enc", "enc", "free", "begin_dec", "dec", "out", "compare", "next", "done",
               "halt", "hash"}
  /\ c.app = "hash" <=> c.pc = "hash"
  /\ c.app # "hash" => c.r \in 1 .. Len(Ciphers!Plan(c.app))
  /\ c.asserts \in Asserts
  /\ DOMAIN c.ct = {"sw", "hw"}
  /\ Sessions(c.ss)

\* A cipher program has a session open from its begin to its free, and no other.
Holding(c) == c.pc \in {"enc", "free", "dec", "out"}
PoolInv(c) ==
  c.app # "hash" /\ c.pc # "halt" =>
    /\ Holding(c) /\ c.dev = "sw" => c.i \in 1 .. MaxSession
    /\ \A k \in 1 .. MaxSession : c.ss[k].in_use <=> (Holding(c) /\ c.dev = "sw" /\ k = c.i)
    /\ c.hwOpen = IF Holding(c) /\ c.dev = "hw" THEN 1 ELSE 0

\* A wrong ciphertext of aes256 stays in its buffer until the comparison, and
\* the two devices are never wrong in the same way; any other wrong text has
\* been reported at once, unless the buffer it should have been written to held
\* the right one, which it does only once the other device has deciphered.
ReportInv(c) ==
  /\ c.ct.sw \in {"zero", "right", "wrong_sw"} /\ c.ct.hw \in {"zero", "right", "wrong_hw"}
  /\ c.pc \in {"begin_enc", "enc"} => c.ct[c.dev] = "zero"
  /\ c.app = "aes256" /\ c.dev = "sw" => c.ct.hw = "zero"
  /\ c.bad \subseteq {"ciphertext", "plaintext", "masked"}
  /\ "masked" \in c.bad => c.app = "aes256" /\ c.dev = "hw"
  /\ c.pc \in {"begin_enc", "enc", "free", "begin_dec", "dec"} /\ ~(c.app = "aes256" /\ c.dev = "hw") =>
       c.same = FALSE
  /\ "plaintext" \in c.bad => c.log # {}
  /\ "ciphertext" \in c.bad =>
       IF c.app = "aes256" THEN c.ct.sw = "wrong_sw" \/ c.ct.hw = "wrong_hw" ELSE c.log # {}
  /\ c.pc = "compare" => c.app = "aes256"
  /\ c.pc = "next" /\ c.bad \ {"masked"} # {} => c.log # {}

\* A context of the hash client has a session of its own, and the session of a
\* context that is started has taken in what the digest is due to cover.
HashInv(c) ==
  /\ DOMAIN c.h = Handles
  /\ \A x \in Handles : DOMAIN c.h[x] = HandleFields /\ c.h[x].out = c.h[x].due
  /\ c.app = "hash" =>
       /\ \A x \in Handles : /\ c.h[x].i \in 0 .. MaxSession
                             /\ c.h[x].started \in BOOLEAN
                             /\ ~c.h[x].started => c.h[x].want = <<>>
                             /\ c.h[x].started => c.h[x].i # 0 /\ c.ss[c.h[x].i].fed = c.h[x].want
       /\ \A x, y \in Handles : x # y /\ c.h[x].i # 0 => c.h[x].i # c.h[y].i
       /\ \A k \in 1 .. MaxSession : c.ss[k].in_use <=> \E x \in Handles : c.h[x].i = k

\* The handlers stay within what the round's packet offers them.
BufferInv(c) ==
  c.app = "aes256" /\ c.dev = "sw" =>
    LET pkt == Ciphers!Plan(c.app)[c.r].fn.pkt
    IN  /\ c.pc = "free" => c.moved.read <= pkt.enc.cap /\ c.moved.wrote <= pkt.enc.max
        /\ c.pc = "out" /\ c.log \cap {"enc", "expect", "dec"} = {} =>
             c.moved.read <= pkt.dec.cap /\ c.moved.wrote <= pkt.dec.max

CipherInv(c) == CipherType(c) /\ PoolInv(c) /\ ReportInv(c) /\ HashInv(c) /\ BufferInv(c)

\* The session that is taken next is a free one.
LEMMA LowestFree ==
  ASSUME NEW ss, Ciphers!mtls_get_unused_session_index(ss) # 0
  PROVE  /\ Ciphers!mtls_get_unused_session_index(ss) \in 1 .. MaxSession
         /\ ~ss[Ciphers!mtls_get_unused_session_index(ss)].in_use
<1> DEFINE free == {i \in 1 .. MaxSession : ~ss[i].in_use}
<1>1. free # {} /\ Ciphers!mtls_get_unused_session_index(ss) = Ciphers!Min(free)
  BY DEF Ciphers!mtls_get_unused_session_index
<1>2. free \subseteq Nat
  BY SamplesAssumption
<1> HIDE DEF free
<1>3. PICK m \in free : \A n \in free : ~(<<n, m>> \in OpToRel(<, Nat))
  BY <1>1, <1>2, WFMin, NatLessThanWellFounded
<1>4. ASSUME NEW n \in free PROVE m <= n
  <2>1. m \in Nat /\ n \in Nat
    BY <1>2
  <2>2. ASSUME n < m PROVE <<n, m>> \in OpToRel(<, Nat)
    BY <2>1, <2>2, Zenon DEF OpToRel
  <2>3. ~(n < m)
    BY <1>3, <2>2, Zenon
  <2> QED BY <2>1, <2>3
<1>5. Ciphers!Min(free) \in free
  BY <1>4 DEF Ciphers!Min
<1> QED BY <1>1, <1>5 DEF free

\* What a session pool looks like after a setup that worked and after one that failed.
LEMMA SetupResult ==
  ASSUME NEW ss, Sessions(ss), NEW algo, NEW mode, NEW keylen, NEW keyset \in BOOLEAN
  PROVE  LET set == Ciphers!mtls_session_setup(ss, algo, mode, keylen, keyset)
         IN  /\ Sessions(set.ss)
             /\ set.ret = "ok" =>
                  /\ set.i \in 1 .. MaxSession /\ ~ss[set.i].in_use
                  /\ \A k \in 1 .. MaxSession : set.ss[k].in_use <=> (ss[k].in_use \/ k = set.i)
             /\ set.ret # "ok" =>
                  \A k \in 1 .. MaxSession : set.ss[k].in_use <=> ss[k].in_use
<1> DEFINE set == Ciphers!mtls_session_setup(ss, algo, mode, keylen, keyset)
           i == Ciphers!mtls_get_unused_session_index(ss)
           kept == [ss EXCEPT ![i].holds = mode]
           taken == [ss EXCEPT ![i].in_use = TRUE, ![i].holds = mode, ![i].mode = mode]
<1>1. \/ set.ret # "ok" /\ set.ss = ss
      \/ i # 0 /\ set.ret # "ok" /\ set.ss = kept
      \/ i # 0 /\ set.ret = "ok" /\ set.ss = taken /\ set.i = i
  BY DEF Ciphers!mtls_session_setup, Ciphers!Setup
<1>2. i # 0 => i \in 1 .. MaxSession /\ ~ss[i].in_use
  BY LowestFree
<1> HIDE DEF set, i
<1>3. CASE i # 0 /\ set.ret # "ok" /\ set.ss = kept
  <2>1. Sessions(kept) /\ \A k \in 1 .. MaxSession : kept[k].in_use <=> ss[k].in_use
    BY <1>2, <1>3 DEF Sessions, SessionFields
  <2> QED BY <1>3, <2>1 DEF set
<1>4. CASE i # 0 /\ set.ret = "ok" /\ set.ss = taken /\ set.i = i
  <2>1. Sessions(taken) /\ \A k \in 1 .. MaxSession : taken[k].in_use <=> (ss[k].in_use \/ k = i)
    <3> DEFINE one == [ss EXCEPT ![i].in_use = TRUE]
               two == [one EXCEPT ![i].holds = mode]
    <3>1. Sessions(one) /\ \A k \in 1 .. MaxSession : one[k].in_use <=> (ss[k].in_use \/ k = i)
      BY <1>2, <1>4 DEF Sessions, SessionFields
    <3> HIDE DEF one
    <3>2. Sessions(two) /\ \A k \in 1 .. MaxSession : two[k].in_use <=> one[k].in_use
      BY <1>2, <1>4, <3>1 DEF Sessions, SessionFields
    <3> HIDE DEF two
    <3> DEFINE three == [two EXCEPT ![i].mode = mode]
    <3>3. Sessions(three) /\ \A k \in 1 .. MaxSession : three[k].in_use <=> two[k].in_use
      BY <1>2, <1>4, <3>2 DEF Sessions, SessionFields
    <3>4. taken = three
      BY Zenon DEF one, two
    <3> QED BY <3>1, <3>2, <3>3, <3>4, Zenon
  <2> HIDE DEF taken
  <2> QED BY <1>2, <1>4, <2>1, Zenon DEF set
<1> QED BY <1>1, <1>3, <1>4 DEF set

\* What the mode functions never touch, and what ends of theirs do not touch either.
Untouched(s, t) ==
  DOMAIN t = CipherFields /\ t.app = s.app /\ t.asserts = s.asserts /\ t.r = s.r /\ t.h = s.h
Outputs(s, t) == t.ct = s.ct /\ t.same = s.same /\ t.bad = s.bad /\ t.moved = s.moved

LEMMA ReturnFields ==
  ASSUME NEW s, DOMAIN s = CipherFields
  PROVE  LET t == Ciphers!Return(s)
         IN  /\ Untouched(s, t) /\ Outputs(s, t)
             /\ t.ss = s.ss /\ t.hwOpen = s.hwOpen /\ t.log = s.log /\ t.i = 0
             /\ t.dev = IF s.app = "aes256" THEN "hw" ELSE s.dev
             /\ t.pc = IF s.app = "aes256" THEN (IF s.dev = "sw" THEN "begin_enc" ELSE "compare")
                       ELSE "next"
BY DEF Ciphers!Return, CipherFields, Untouched, Outputs

\* A failure at the begin of a session returns; one with the session open goes to out.
LEMMA FailedFields ==
  ASSUME NEW s, DOMAIN s = CipherFields, NEW where
  PROVE  LET t == Ciphers!Failed(s, where)
         IN  /\ Untouched(s, t) /\ Outputs(s, t) /\ t.ss = s.ss /\ t.hwOpen = s.hwOpen
             /\ where \in {"begin_enc", "begin_dec"} => t.log = s.log
             /\ where \notin {"begin_enc", "begin_dec"} => t.log = s.log \cup {where}
             /\ \/ t.pc = "halt" /\ t.i = s.i /\ t.dev = s.dev
                \/ /\ where \notin {"begin_enc", "begin_dec"}
                   /\ t.pc = "out" /\ t.i = s.i /\ t.dev = s.dev
                \/ /\ where \in {"begin_enc", "begin_dec"}
                   /\ t.i = 0 /\ t.dev = IF s.app = "aes256" THEN "hw" ELSE s.dev
                   /\ t.pc = IF s.app = "aes256" THEN (IF s.dev = "sw" THEN "begin_enc" ELSE "compare")
                             ELSE "next"
<1> DEFINE lg == IF where \in {"begin_enc", "begin_dec"} THEN s.log ELSE s.log \cup {where}
           u == [s EXCEPT !.log = lg]
<1>1. /\ Untouched(s, u) /\ Outputs(s, u) /\ u.ss = s.ss /\ u.hwOpen = s.hwOpen /\ u.i = s.i
      /\ u.dev = s.dev /\ u.log = lg
  BY DEF CipherFields, Untouched, Outputs
<1>2. Ciphers!Failed(s, where) =
        IF ci.asserts /\ where \in Ciphers!Fn.stop THEN [u EXCEPT !.pc = "halt"]
        ELSE IF where \in {"begin_enc", "begin_dec"} THEN Ciphers!Return(u)
        ELSE [u EXCEPT !.pc = "out"]
  BY DEF Ciphers!Failed, CipherFields
<1> HIDE DEF u
<1>3. ASSUME NEW p
      PROVE  LET t == [u EXCEPT !.pc = p]
             IN  /\ Untouched(s, t) /\ Outputs(s, t) /\ t.ss = s.ss /\ t.hwOpen = s.hwOpen
                 /\ t.i = s.i /\ t.dev = s.dev /\ t.log = lg /\ t.pc = p
  BY <1>1 DEF CipherFields, Untouched, Outputs
<1>4. LET t == Ciphers!Return(u)
      IN  /\ Untouched(s, t) /\ Outputs(s, t) /\ t.ss = s.ss /\ t.hwOpen = s.hwOpen
          /\ t.log = lg /\ t.i = 0
          /\ t.dev = IF s.app = "aes256" THEN "hw" ELSE s.dev
          /\ t.pc = IF s.app = "aes256" THEN (IF s.dev = "sw" THEN "begin_enc" ELSE "compare")
                    ELSE "next"
  BY <1>1, ReturnFields DEF Untouched, Outputs
<1> HIDE DEF lg
<1>5. CASE ci.asserts /\ where \in Ciphers!Fn.stop
  BY <1>2, <1>3, <1>5 DEF lg
<1>6. CASE ~(ci.asserts /\ where \in Ciphers!Fn.stop) /\ where \in {"begin_enc", "begin_dec"}
  BY <1>2, <1>4, <1>6 DEF lg
<1>7. CASE ~(ci.asserts /\ where \in Ciphers!Fn.stop) /\ where \notin {"begin_enc", "begin_dec"}
  BY <1>2, <1>3, <1>7 DEF lg
<1> QED BY <1>5, <1>6, <1>7

\* The round of a program is a mode function on a packet.
LEMMA RoundOf ==
  ASSUME NEW c, CipherType(c), c.app # "hash"
  PROVE  /\ c.app = "aes256" => \E n \in WholeBlocks : Ciphers!Plan(c.app)[c.r].fn \in AesFn(n)
         /\ c.app # "aes256" => Ciphers!Plan(c.app)[c.r] \in KnownRound
<1>1. c.r \in 1 .. Len(Ciphers!Plan(c.app)) /\ c.app \in {"aes256", "crypto", "sm4"}
  BY DEF CipherType
<1>2. c.app = "aes256" => Ciphers!Plan(c.app)[c.r] \in AesRound
  BY <1>1, Plans, ElementOfSeq
<1>3. c.app # "aes256" => Ciphers!Plan(c.app)[c.r] \in KnownRound
  BY <1>1, Plans, ElementOfSeq
<1> QED BY <1>2, <1>3 DEF AesRound

\* Every handler stays within the buffers of a packet of aes256.
LEMMA HandlersFit ==
  ASSUME NEW n \in WholeBlocks, NEW fn \in AesFn(n)
  PROVE  /\ ~fn.expect
         /\ Ciphers!Handler(fn.mode, "enc", fn.pkt.enc).read <= fn.pkt.enc.cap
         /\ Ciphers!Handler(fn.mode, "enc", fn.pkt.enc).wrote <= fn.pkt.enc.max
         /\ Ciphers!Handler(fn.mode, "dec", fn.pkt.dec).read <= fn.pkt.dec.cap
         /\ Ciphers!Handler(fn.mode, "dec", fn.pkt.dec).wrote <= fn.pkt.dec.max
<1>1. n \in Nat /\ 16 * ((n + 15) \div 16) = n
  BY DEF WholeBlocks
<1> USE DEF Ciphers!OfTest, Ciphers!ModeFn, Ciphers!Handler, Ciphers!Moves, Ciphers!IvBytes
<1>2. CASE fn = Ciphers!aes256_ecb_mode(n)
  BY <1>1, <1>2 DEF Ciphers!aes256_ecb_mode, Ciphers!mtls_ecb_encrypt, Ciphers!mtls_ecb_decrypt,
     Ciphers!Blocks
<1>3. CASE fn = Ciphers!aes256_cbc_mode(n)
  BY <1>1, <1>3 DEF Ciphers!aes256_cbc_mode, Ciphers!mtls_cbc_encrypt, Ciphers!mtls_cbc_decrypt
<1>4. CASE fn = Ciphers!aes256_ctr_mode(n)
  BY <1>1, <1>4 DEF Ciphers!aes256_ctr_mode, Ciphers!mtls_ctr_encrypt
<1>5. CASE fn = Ciphers!aes256_ccm_mode(n)
  BY <1>1, <1>5 DEF Ciphers!aes256_ccm_mode, Ciphers!mtls_ccm_encrypt_auth,
     Ciphers!mtls_ccm_decrypt_auth
<1>6. CASE fn = Ciphers!aes256_gcm_mode(n)
  BY <1>1, <1>6 DEF Ciphers!aes256_gcm_mode, Ciphers!mtls_gcm_encrypt_auth,
     Ciphers!mtls_gcm_decrypt_auth
<1> QED BY <1>2, <1>3, <1>4, <1>5, <1>6 DEF AesFn

\* crypto and sm4 compare with a known ciphertext.
LEMMA KnownExpects ==
  ASSUME NEW round \in KnownRound PROVE round.fn.expect = TRUE
<1> USE DEF Ciphers!ModeFn
<1>1. round.fn \in {Ciphers!crypto_ecb_mode, Ciphers!crypto_cbc_mode, Ciphers!crypto_ctr_mode,
                    Ciphers!crypto_ccm_mode, Ciphers!crypto_gcm_mode,
                    Ciphers!sm4_ecb_mode, Ciphers!sm4_cbc_mode, Ciphers!sm4_ctr_mode,
                    Ciphers!sm4_ccm_mode, Ciphers!sm4_gcm_mode}
  BY DEF KnownRound
<1>2. /\ Ciphers!crypto_ecb_mode.expect = TRUE /\ Ciphers!crypto_cbc_mode.expect = TRUE
      /\ Ciphers!crypto_ctr_mode.expect = TRUE /\ Ciphers!crypto_ccm_mode.expect = TRUE
      /\ Ciphers!crypto_gcm_mode.expect = TRUE
  BY DEF Ciphers!crypto_ecb_mode, Ciphers!crypto_cbc_mode, Ciphers!crypto_ctr_mode,
     Ciphers!crypto_ccm_mode, Ciphers!crypto_gcm_mode
<1>3. /\ Ciphers!sm4_ecb_mode.expect = TRUE /\ Ciphers!sm4_cbc_mode.expect = TRUE
      /\ Ciphers!sm4_ctr_mode.expect = TRUE /\ Ciphers!sm4_ccm_mode.expect = TRUE
      /\ Ciphers!sm4_gcm_mode.expect = TRUE
  BY DEF Ciphers!sm4_ecb_mode, Ciphers!sm4_cbc_mode, Ciphers!sm4_ctr_mode, Ciphers!sm4_ccm_mode,
     Ciphers!sm4_gcm_mode
<1> QED BY <1>1, <1>2, <1>3, Zenon


\* The hash client is not there while a cipher program runs.
LEMMA HashUntouched ==
  ASSUME NEW c, NEW d, HashInv(c), c.app # "hash", d.app = c.app, d.h = c.h
  PROVE  HashInv(d)
BY DEF HashInv

LEMMA TypeKept ==
  ASSUME NEW c, NEW d, CipherType(c), c.app # "hash", Untouched(c, d),
         d.pc \in {"begin_enc", "enc", "free", "begin_dec", "dec", "out", "compare", "next", "done",
                   "halt"},
         d.dev \in {"sw", "hw"}, c.app # "aes256" => d.dev = c.dev,
         DOMAIN d.ct = {"sw", "hw"}, Sessions(d.ss)
  PROVE  CipherType(d)
BY DEF CipherType, Untouched

LEMMA BeginStep == CipherInv(ci) /\ Ciphers!Begin => CipherInv(ci')
<1> SUFFICES ASSUME CipherInv(ci), Ciphers!Begin PROVE CipherInv(ci')
  OBVIOUS
<1>1. /\ ci.pc \in {"begin_enc", "begin_dec"} /\ CipherType(ci) /\ PoolInv(ci) /\ ReportInv(ci)
      /\ HashInv(ci) /\ ci.app # "hash" /\ DOMAIN ci = CipherFields /\ Sessions(ci.ss)
      /\ ci.dev \in {"sw", "hw"} /\ (ci.app # "aes256" => ci.dev = "hw") /\ DOMAIN ci.ct = {"sw", "hw"}
  BY DEF Ciphers!Begin, CipherInv, CipherType
<1>2. /\ ci.hwOpen = 0 /\ \A k \in 1 .. MaxSession : ~ci.ss[k].in_use
  BY <1>1 DEF PoolInv, Holding
<1>3. PICK ok \in BOOLEAN :
        LET set == Ciphers!mtls_session_setup(ci.ss, Ciphers!Fn.algo, Ciphers!Fn.mode,
                                              Ciphers!Round.keylen, ok)
            good == IF ci.dev = "sw" THEN set.ret = "ok" ELSE ok
            s == IF ci.dev = "sw" THEN [ci EXCEPT !.ss = set.ss, !.i = set.i]
                 ELSE [ci EXCEPT !.hwOpen = IF ok THEN @ + 1 ELSE @]
        IN  ci' = IF good THEN [s EXCEPT !.pc = IF ci.pc = "begin_enc" THEN "enc" ELSE "dec"]
                  ELSE Ciphers!Failed(s, ci.pc)
  BY DEF Ciphers!Begin
<1> DEFINE set == Ciphers!mtls_session_setup(ci.ss, Ciphers!Fn.algo, Ciphers!Fn.mode,
                                             Ciphers!Round.keylen, ok)
           good == IF ci.dev = "sw" THEN set.ret = "ok" ELSE ok
           s == IF ci.dev = "sw" THEN [ci EXCEPT !.ss = set.ss, !.i = set.i]
                ELSE [ci EXCEPT !.hwOpen = IF ok THEN @ + 1 ELSE @]
           p == IF ci.pc = "begin_enc" THEN "enc" ELSE "dec"
<1>4. /\ Sessions(set.ss)
      /\ set.ret = "ok" => /\ set.i \in 1 .. MaxSession
                           /\ \A k \in 1 .. MaxSession : set.ss[k].in_use <=> k = set.i
      /\ set.ret # "ok" => \A k \in 1 .. MaxSession : ~set.ss[k].in_use
  BY <1>1, <1>2, SetupResult
<1>5. ci' = IF good THEN [s EXCEPT !.pc = p] ELSE Ciphers!Failed(s, ci.pc)
  BY <1>3
<1> HIDE DEF set
<1>6. /\ Untouched(ci, s) /\ Outputs(ci, s) /\ s.log = ci.log /\ s.dev = ci.dev
      /\ ci.dev = "sw" => s.ss = set.ss /\ s.i = set.i /\ s.hwOpen = 0
      /\ ci.dev = "hw" => s.ss = ci.ss /\ s.hwOpen = IF ok THEN 1 ELSE 0
  BY <1>1, <1>2 DEF CipherFields, Untouched, Outputs
<1> HIDE DEF s
<1>7. Sessions(s.ss)
  BY <1>1, <1>4, <1>6
<1>8. CASE good
  <2>1. ci' = [s EXCEPT !.pc = p] /\ DOMAIN s = CipherFields
    BY <1>5, <1>6, <1>8 DEF Untouched
  <2>2. /\ Untouched(ci, ci') /\ Outputs(ci, ci') /\ ci'.pc = p /\ ci'.ss = s.ss /\ ci'.i = s.i
        /\ ci'.hwOpen = s.hwOpen /\ ci'.log = ci.log /\ ci'.dev = ci.dev
    BY <1>6, <2>1 DEF CipherFields, Untouched, Outputs
  <2>3. p \in {"enc", "dec"} /\ (p = "enc" => ci.pc = "begin_enc")
    OBVIOUS
  <2> HIDE DEF p
  <2>4. CipherType(ci')
    BY <1>1, <1>7, <2>2, <2>3, TypeKept DEF Outputs
  <2>5. PoolInv(ci')
    <3>1. CASE ci.dev = "sw"
      BY <1>1, <1>4, <1>6, <1>8, <2>2, <2>3, <3>1 DEF PoolInv, Holding
    <3>2. CASE ci.dev = "hw"
      BY <1>1, <1>2, <1>6, <1>8, <2>2, <2>3, <3>2 DEF PoolInv, Holding
    <3> QED BY <1>1, <3>1, <3>2
  <2>6. ReportInv(ci')
    BY <1>1, <2>2, <2>3 DEF ReportInv, Untouched, Outputs
  <2>7. HashInv(ci')
    BY <1>1, <2>2, HashUntouched DEF Untouched
  <2>8. BufferInv(ci')
    BY <2>2, <2>3 DEF BufferInv
  <2> QED BY <2>4, <2>5, <2>6, <2>7, <2>8 DEF CipherInv
<1>9. CASE ~good
  <2>1. ci' = Ciphers!Failed(s, ci.pc) /\ DOMAIN s = CipherFields
    BY <1>5, <1>6, <1>9 DEF Untouched
  <2>2. /\ Untouched(s, ci') /\ Outputs(s, ci') /\ ci'.ss = s.ss /\ ci'.hwOpen = s.hwOpen
        /\ ci'.log = s.log
        /\ \/ ci'.pc = "halt" /\ ci'.dev = s.dev
           \/ /\ ci'.dev = IF s.app = "aes256" THEN "hw" ELSE s.dev
              /\ ci'.pc = IF s.app = "aes256" THEN (IF s.dev = "sw" THEN "begin_enc" ELSE "compare")
                          ELSE "next"
    BY <1>1, <2>1, FailedFields
  <2>3. /\ Untouched(ci, ci') /\ Outputs(ci, ci') /\ ci'.log = ci.log
        /\ \/ ci'.pc = "halt" /\ ci'.dev = ci.dev
           \/ /\ ci'.dev = IF ci.app = "aes256" THEN "hw" ELSE ci.dev
              /\ ci'.pc = IF ci.app = "aes256" THEN (IF ci.dev = "sw" THEN "begin_enc" ELSE "compare")
                          ELSE "next"
    BY <1>6, <2>2 DEF Untouched, Outputs
  <2>4. CipherType(ci')
    <3>1. ci'.pc \in {"begin_enc", "compare", "next", "halt"} /\ ci'.dev \in {"sw", "hw"}
          /\ (ci.app # "aes256" => ci'.dev = ci.dev)
      BY <1>1, <2>3
    <3> QED BY <1>1, <1>7, <2>2, <2>3, <3>1, TypeKept DEF Outputs
  <2>5. ci'.hwOpen = 0 /\ \A k \in 1 .. MaxSession : ~ci'.ss[k].in_use
    BY <1>1, <1>2, <1>4, <1>6, <1>9, <2>2
  <2>6. PoolInv(ci')
    BY <2>3, <2>5 DEF PoolInv, Holding
  <2>7. ReportInv(ci')
    BY <1>1, <2>3 DEF ReportInv, Untouched, Outputs
  <2>8. HashInv(ci')
    BY <1>1, <2>3, HashUntouched DEF Untouched
  <2>9. BufferInv(ci')
    BY <2>3 DEF BufferInv
  <2> QED BY <2>4, <2>6, <2>7, <2>8, <2>9 DEF CipherInv
<1> QED BY <1>8, <1>9


\* A failure with the session open leaves it open: the way out frees it.
LEMMA FailedHolds ==
  ASSUME NEW s, NEW where, where \notin {"begin_enc", "begin_dec"}, CipherInv(ci), Holding(ci),
         Untouched(ci, s), s.ss = ci.ss, s.hwOpen = ci.hwOpen, s.i = ci.i, s.dev = ci.dev,
         DOMAIN s.ct = {"sw", "hw"}, ci' = Ciphers!Failed(s, where)
  PROVE  /\ CipherType(ci') /\ PoolInv(ci') /\ HashInv(ci')
         /\ Untouched(s, ci') /\ Outputs(s, ci') /\ ci'.log = s.log \cup {where}
         /\ ci'.pc \in {"halt", "out"} /\ ci'.dev = ci.dev
<1>1. /\ CipherType(ci) /\ PoolInv(ci) /\ HashInv(ci) /\ ci.pc # "halt" /\ ci.app # "hash"
      /\ Sessions(ci.ss) /\ ci.dev \in {"sw", "hw"} /\ DOMAIN s = CipherFields
  BY DEF CipherInv, CipherType, Holding, Untouched
<1>2. /\ Untouched(s, ci') /\ Outputs(s, ci') /\ ci'.log = s.log \cup {where} /\ ci'.ss = ci.ss
      /\ ci'.hwOpen = ci.hwOpen /\ ci'.i = ci.i /\ ci'.dev = ci.dev /\ ci'.pc \in {"halt", "out"}
  BY <1>1, FailedFields
<1>3. Untouched(ci, ci') /\ DOMAIN ci'.ct = {"sw", "hw"}
  BY <1>2 DEF Untouched, Outputs
<1>4. CipherType(ci')
  BY <1>1, <1>2, <1>3, TypeKept
<1>5. PoolInv(ci')
  <2>1. CASE ci'.pc = "halt"
    BY <2>1 DEF PoolInv
  <2>2. CASE ci'.pc = "out"
    BY <1>1, <1>2, <2>2 DEF PoolInv, Holding
  <2> QED BY <1>2, <2>1, <2>2
<1>6. HashInv(ci')
  BY <1>1, <1>3, HashUntouched DEF Untouched
<1> QED BY <1>2, <1>4, <1>5, <1>6

LEMMA EncryptStep == CipherInv(ci) /\ Ciphers!Encrypt => CipherInv(ci')
<1> SUFFICES ASSUME CipherInv(ci), Ciphers!Encrypt PROVE CipherInv(ci')
  OBVIOUS
<1>1. /\ ci.pc = "enc" /\ CipherType(ci) /\ PoolInv(ci) /\ ReportInv(ci) /\ HashInv(ci)
      /\ ci.app # "hash" /\ DOMAIN ci = CipherFields /\ Sessions(ci.ss) /\ Holding(ci)
      /\ ci.dev \in {"sw", "hw"} /\ (ci.app # "aes256" => ci.dev = "hw") /\ DOMAIN ci.ct = {"sw", "hw"}
      /\ Untouched(ci, ci)
  BY DEF Ciphers!Encrypt, CipherInv, CipherType, Holding, Untouched
<1>2. CASE ci' = Ciphers!Failed(ci, "enc")
  <2>1. /\ CipherType(ci') /\ PoolInv(ci') /\ HashInv(ci')
        /\ Untouched(ci, ci') /\ Outputs(ci, ci') /\ ci'.log = ci.log \cup {"enc"}
        /\ ci'.pc \in {"halt", "out"} /\ ci'.dev = ci.dev
    BY <1>1, <1>2, FailedHolds
  <2>2. ReportInv(ci')
    BY <1>1, <2>1 DEF ReportInv, Untouched, Outputs
  <2>3. BufferInv(ci')
    BY <2>1 DEF BufferInv
  <2> QED BY <2>1, <2>2, <2>3 DEF CipherInv
<1>3. ASSUME NEW out \in {"right", Ciphers!WrongOf(ci.dev)},
             LET s == [ci EXCEPT !.ct[ci.dev] = out,
                                 !.moved = IF ci.dev = "sw"
                                           THEN Ciphers!Handler(Ciphers!Fn.mode, "enc", Ciphers!Fn.pkt.enc)
                                           ELSE @,
                                 !.bad = IF out = "right" THEN @ ELSE @ \cup {"ciphertext"}]
             IN  ci' = IF Ciphers!Fn.expect /\ out # "right" THEN Ciphers!Failed(s, "expect")
                       ELSE [s EXCEPT !.pc = "free"]
      PROVE  CipherInv(ci')
  <2> DEFINE mv == IF ci.dev = "sw" THEN Ciphers!Handler(Ciphers!Fn.mode, "enc", Ciphers!Fn.pkt.enc)
                   ELSE ci.moved
             bd == IF out = "right" THEN ci.bad ELSE ci.bad \cup {"ciphertext"}
             s == [ci EXCEPT !.ct[ci.dev] = out, !.moved = mv, !.bad = bd]
  <2>1. ci' = IF Ciphers!Fn.expect /\ out # "right" THEN Ciphers!Failed(s, "expect")
              ELSE [s EXCEPT !.pc = "free"]
    BY <1>1, <1>3 DEF CipherFields
  <2>2. out \in {"right", "wrong_sw", "wrong_hw"} /\ (out = "wrong_sw" => ci.dev = "sw")
        /\ (out = "wrong_hw" => ci.dev = "hw")
    BY <1>1 DEF Ciphers!WrongOf
  <2>3. bd \subseteq {"ciphertext", "plaintext", "masked"} /\ ci.bad \subseteq bd
        /\ ("masked" \in bd => "masked" \in ci.bad)
        /\ ("ciphertext" \in bd => "ciphertext" \in ci.bad \/ out # "right")
        /\ ("plaintext" \in bd => "plaintext" \in ci.bad)
    BY <1>1 DEF ReportInv
  <2> HIDE DEF mv, bd
  <2>4. /\ Untouched(ci, s) /\ s.ss = ci.ss /\ s.hwOpen = ci.hwOpen /\ s.i = ci.i /\ s.dev = ci.dev
        /\ s.log = ci.log /\ s.moved = mv /\ s.bad = bd /\ s.same = ci.same
        /\ s.ct = [ci.ct EXCEPT ![ci.dev] = out]
    BY <1>1 DEF CipherFields, Untouched
  <2> HIDE DEF s
  <2>5. /\ DOMAIN s.ct = {"sw", "hw"}
        /\ ci.dev = "sw" => s.ct.sw = out /\ s.ct.hw = ci.ct.hw
        /\ ci.dev = "hw" => s.ct.hw = out /\ s.ct.sw = ci.ct.sw
    BY <1>1, <2>4
  <2>6. /\ s.ct.sw \in {"zero", "right", "wrong_sw"} /\ s.ct.hw \in {"zero", "right", "wrong_hw"}
        /\ ci.app = "aes256" /\ ci.dev = "sw" => s.ct.hw = "zero"
    BY <1>1, <2>2, <2>5 DEF ReportInv
  <2>7. "ciphertext" \in ci.bad /\ ci.app = "aes256" => s.ct.sw = "wrong_sw" \/ s.ct.hw = "wrong_hw"
    BY <1>1, <2>5 DEF ReportInv
  <2>8. "ciphertext" \in bd /\ ci.app = "aes256" => s.ct.sw = "wrong_sw" \/ s.ct.hw = "wrong_hw"
    BY <1>1, <2>2, <2>3, <2>5, <2>7
  <2>9. CASE Ciphers!Fn.expect /\ out # "right"
    <3>1. /\ CipherType(ci') /\ PoolInv(ci') /\ HashInv(ci')
          /\ Untouched(s, ci') /\ Outputs(s, ci') /\ ci'.log = s.log \cup {"expect"}
          /\ ci'.pc \in {"halt", "out"} /\ ci'.dev = ci.dev
      BY <1>1, <2>1, <2>4, <2>5, <2>9, FailedHolds
    <3>2. ci'.bad = bd /\ ci'.ct = s.ct /\ ci'.app = ci.app /\ ci'.log # {} /\ "expect" \in ci'.log
      BY <2>4, <3>1 DEF Untouched, Outputs
    <3>3. ReportInv(ci')
      <4>1. "masked" \in bd => ci.app = "aes256" /\ ci.dev = "hw"
        BY <1>1, <2>3 DEF ReportInv
      <4> QED BY <2>3, <2>6, <2>8, <3>1, <3>2, <4>1 DEF ReportInv
    <3>4. BufferInv(ci')
      BY <3>1, <3>2 DEF BufferInv
    <3> QED BY <3>1, <3>3, <3>4 DEF CipherInv
  <2>10. CASE ~(Ciphers!Fn.expect /\ out # "right")
    <3>1. ci' = [s EXCEPT !.pc = "free"] /\ DOMAIN s = CipherFields
      BY <2>1, <2>4, <2>10 DEF Untouched
    <3>2. /\ Untouched(ci, ci') /\ ci'.pc = "free" /\ ci'.ss = ci.ss /\ ci'.i = ci.i
          /\ ci'.hwOpen = ci.hwOpen /\ ci'.dev = ci.dev /\ ci'.log = ci.log /\ ci'.ct = s.ct
          /\ ci'.bad = bd /\ ci'.moved = mv /\ ci'.same = ci.same
      BY <2>4, <3>1 DEF CipherFields, Untouched
    <3>3. CipherType(ci')
      BY <1>1, <2>5, <3>2, TypeKept
    <3>4. PoolInv(ci')
      BY <1>1, <3>2 DEF PoolInv, Holding, Untouched
    <3>5. HashInv(ci')
      BY <1>1, <3>2, HashUntouched DEF Untouched
    <3>6. ci.app # "aes256" => out = "right"
      <4>1. ci.app # "aes256" => Ciphers!Fn.expect = TRUE
        BY <1>1, RoundOf, KnownExpects DEF Ciphers!Fn, Ciphers!Round
      <4> QED BY <2>10, <4>1
    <3>7. ReportInv(ci')
      BY <1>1, <2>3, <2>6, <2>8, <3>2, <3>6 DEF ReportInv, Untouched
    <3>8. BufferInv(ci')
      <4>1. SUFFICES ASSUME ci.app = "aes256", ci.dev = "sw"
                     PROVE  /\ mv.read <= Ciphers!Fn.pkt.enc.cap
                            /\ mv.wrote <= Ciphers!Fn.pkt.enc.max
        BY <3>2 DEF BufferInv, Untouched, Ciphers!Fn, Ciphers!Round
      <4>2. PICK n \in WholeBlocks : Ciphers!Fn \in AesFn(n)
        BY <1>1, <4>1, RoundOf DEF Ciphers!Fn, Ciphers!Round
      <4> QED BY <4>1, <4>2, HandlersFit DEF mv
    <3> QED BY <3>3, <3>4, <3>5, <3>7, <3>8 DEF CipherInv
  <2> QED BY <2>9, <2>10
<1> QED BY <1>2, <1>3 DEF Ciphers!Encrypt

LEMMA DecryptStep == CipherInv(ci) /\ Ciphers!Decrypt => CipherInv(ci')
<1> SUFFICES ASSUME CipherInv(ci), Ciphers!Decrypt PROVE CipherInv(ci')
  OBVIOUS
<1>1. /\ ci.pc = "dec" /\ CipherType(ci) /\ PoolInv(ci) /\ ReportInv(ci) /\ HashInv(ci)
      /\ ci.app # "hash" /\ DOMAIN ci = CipherFields /\ Sessions(ci.ss) /\ Holding(ci)
      /\ ci.dev \in {"sw", "hw"} /\ (ci.app # "aes256" => ci.dev = "hw") /\ DOMAIN ci.ct = {"sw", "hw"}
      /\ Untouched(ci, ci)
  BY DEF Ciphers!Decrypt, CipherInv, CipherType, Holding, Untouched
<1>2. CASE ci' = Ciphers!Failed(ci, "dec")
  <2>1. /\ CipherType(ci') /\ PoolInv(ci') /\ HashInv(ci')
        /\ Untouched(ci, ci') /\ Outputs(ci, ci') /\ ci'.log = ci.log \cup {"dec"}
        /\ ci'.pc \in {"halt", "out"} /\ ci'.dev = ci.dev
    BY <1>1, <1>2, FailedHolds
  <2>2. ReportInv(ci')
    BY <1>1, <2>1 DEF ReportInv, Untouched, Outputs
  <2>3. BufferInv(ci')
    BY <2>1 DEF BufferInv
  <2> QED BY <2>1, <2>2, <2>3 DEF CipherInv
<1>3. ASSUME NEW out \in {"right", "wrong", "nothing"},
             LET same == IF out = "nothing" THEN ci.same ELSE out = "right"
                 s == [ci EXCEPT !.same = same,
                                 !.moved = IF ci.dev = "sw"
                                           THEN Ciphers!Handler(Ciphers!Fn.mode, "dec", Ciphers!Fn.pkt.dec)
                                           ELSE @,
                                 !.bad = IF ~Ciphers!Fn.match \/ out = "right" THEN @
                                         ELSE @ \cup {IF same THEN "masked" ELSE "plaintext"}]
             IN  ci' = IF Ciphers!Fn.match /\ ~same THEN Ciphers!Failed(s, "match")
                       ELSE [s EXCEPT !.pc = "out"]
      PROVE  CipherInv(ci')
  <2> DEFINE same == IF out = "nothing" THEN ci.same ELSE out = "right"
             mv == IF ci.dev = "sw" THEN Ciphers!Handler(Ciphers!Fn.mode, "dec", Ciphers!Fn.pkt.dec)
                   ELSE ci.moved
             bd == IF ~Ciphers!Fn.match \/ out = "right" THEN ci.bad
                   ELSE ci.bad \cup {IF same THEN "masked" ELSE "plaintext"}
             s == [ci EXCEPT !.same = same, !.moved = mv, !.bad = bd]
  <2>1. ci' = IF Ciphers!Fn.match /\ ~same THEN Ciphers!Failed(s, "match")
              ELSE [s EXCEPT !.pc = "out"]
    BY <1>1, <1>3 DEF CipherFields
  <2>2. bd \subseteq {"ciphertext", "plaintext", "masked"}
        /\ ("ciphertext" \in bd <=> "ciphertext" \in ci.bad)
        /\ ("plaintext" \in bd => "plaintext" \in ci.bad \/ (Ciphers!Fn.match /\ ~same))
        /\ ("masked" \in bd => ci.app = "aes256" /\ ci.dev = "hw")
    <3>1. CASE ~(ci.app = "aes256" /\ ci.dev = "hw")
      <4>1. ci.same = FALSE /\ "masked" \notin ci.bad /\ ci.bad \subseteq {"ciphertext", "plaintext", "masked"}
        BY <1>1, <3>1 DEF ReportInv
      <4>2. out # "right" => same = FALSE
        BY <4>1
      <4> HIDE DEF same
      <4> QED BY <4>1, <4>2
    <3>2. CASE ci.app = "aes256" /\ ci.dev = "hw"
      <4>1. ci.bad \subseteq {"ciphertext", "plaintext", "masked"}
        BY <1>1 DEF ReportInv
      <4> HIDE DEF same
      <4> QED BY <3>2, <4>1
    <3> QED BY <3>1, <3>2
  <2> HIDE DEF mv, bd, same
  <2>3. /\ Untouched(ci, s) /\ s.ss = ci.ss /\ s.hwOpen = ci.hwOpen /\ s.i = ci.i /\ s.dev = ci.dev
        /\ s.log = ci.log /\ s.moved = mv /\ s.bad = bd /\ s.ct = ci.ct
    BY <1>1 DEF CipherFields, Untouched
  <2> HIDE DEF s
  <2>4. ci.app = "aes256" /\ ci.dev = "sw" =>
          /\ mv.read <= Ciphers!Fn.pkt.dec.cap
          /\ mv.wrote <= Ciphers!Fn.pkt.dec.max
    <3>1. SUFFICES ASSUME ci.app = "aes256", ci.dev = "sw"
                   PROVE  /\ mv.read <= Ciphers!Fn.pkt.dec.cap
                          /\ mv.wrote <= Ciphers!Fn.pkt.dec.max
      OBVIOUS
    <3>2. PICK n \in WholeBlocks : Ciphers!Fn \in AesFn(n)
      BY <1>1, <3>1, RoundOf DEF Ciphers!Fn, Ciphers!Round
    <3> QED BY <3>1, <3>2, HandlersFit DEF mv
  <2>5. CASE Ciphers!Fn.match /\ ~same
    <3>1. /\ CipherType(ci') /\ PoolInv(ci') /\ HashInv(ci')
          /\ Untouched(s, ci') /\ Outputs(s, ci') /\ ci'.log = s.log \cup {"match"}
          /\ ci'.pc \in {"halt", "out"} /\ ci'.dev = ci.dev
      BY <1>1, <2>1, <2>3, <2>5, FailedHolds
    <3>2. /\ ci'.bad = bd /\ ci'.ct = ci.ct /\ ci'.app = ci.app /\ ci'.r = ci.r /\ ci'.log # {}
          /\ ci'.moved = mv
      BY <2>3, <3>1 DEF Untouched, Outputs
    <3>3. ReportInv(ci')
      BY <1>1, <2>2, <3>1, <3>2 DEF ReportInv
    <3>4. BufferInv(ci')
      BY <2>4, <3>1, <3>2 DEF BufferInv, Ciphers!Fn, Ciphers!Round
    <3> QED BY <3>1, <3>3, <3>4 DEF CipherInv
  <2>6. CASE ~(Ciphers!Fn.match /\ ~same)
    <3>1. ci' = [s EXCEPT !.pc = "out"] /\ DOMAIN s = CipherFields
      BY <2>1, <2>3, <2>6 DEF Untouched
    <3>2. /\ Untouched(ci, ci') /\ ci'.pc = "out" /\ ci'.ss = ci.ss /\ ci'.i = ci.i
          /\ ci'.hwOpen = ci.hwOpen /\ ci'.dev = ci.dev /\ ci'.log = ci.log /\ ci'.ct = ci.ct
          /\ ci'.bad = bd /\ ci'.moved = mv
      BY <2>3, <3>1 DEF CipherFields, Untouched
    <3>3. CipherType(ci')
      BY <1>1, <3>2, TypeKept
    <3>4. PoolInv(ci')
      BY <1>1, <3>2 DEF PoolInv, Holding, Untouched
    <3>5. HashInv(ci')
      BY <1>1, <3>2, HashUntouched DEF Untouched
    <3>6. ReportInv(ci')
      BY <1>1, <2>2, <2>6, <3>2 DEF ReportInv, Untouched
    <3>7. BufferInv(ci')
      BY <2>4, <3>2 DEF BufferInv, Untouched, Ciphers!Fn, Ciphers!Round
    <3> QED BY <3>3, <3>4, <3>5, <3>6, <3>7 DEF CipherInv
  <2> QED BY <2>5, <2>6
<1> QED BY <1>2, <1>3 DEF Ciphers!Decrypt


\* cipher_free_session of the session that is open leaves none open.
LEMMA ReleaseFields ==
  ASSUME CipherInv(ci), Holding(ci)
  PROVE  LET s == Ciphers!Release(ci)
         IN  /\ Untouched(ci, s) /\ Outputs(ci, s) /\ s.log = ci.log /\ s.dev = ci.dev
             /\ Sessions(s.ss) /\ s.hwOpen = 0 /\ \A k \in 1 .. MaxSession : ~s.ss[k].in_use
<1>1. /\ CipherType(ci) /\ PoolInv(ci) /\ ci.pc # "halt" /\ ci.app # "hash" /\ Sessions(ci.ss)
      /\ ci.dev \in {"sw", "hw"} /\ DOMAIN ci = CipherFields
  BY DEF CipherInv, CipherType, Holding
<1>2. CASE ci.dev = "sw"
  <2> DEFINE ss == Ciphers!mtls_session_free(ci.ss, ci.i)
             s == [ci EXCEPT !.ss = ss, !.i = 0]
  <2>1. ci.i \in 1 .. MaxSession /\ ci.hwOpen = 0
        /\ \A k \in 1 .. MaxSession : ci.ss[k].in_use <=> k = ci.i
    BY <1>1, <1>2 DEF PoolInv
  <2>2. ss = [ci.ss EXCEPT ![ci.i].in_use = FALSE, ![ci.i].holds = "none"]
    BY DEF Ciphers!mtls_session_free
  <2>3. Sessions(ss) /\ \A k \in 1 .. MaxSession : ~ss[k].in_use
    <3> DEFINE one == [ci.ss EXCEPT ![ci.i].in_use = FALSE]
               two == [one EXCEPT ![ci.i].holds = "none"]
    <3>1. Sessions(one) /\ \A k \in 1 .. MaxSession : ~one[k].in_use
      BY <1>1, <2>1 DEF Sessions, SessionFields
    <3> HIDE DEF one
    <3>2. Sessions(two) /\ \A k \in 1 .. MaxSession : two[k].in_use <=> one[k].in_use
      BY <2>1, <3>1 DEF Sessions, SessionFields
    <3>3. ss = two
      BY <2>2, Zenon DEF one
    <3> HIDE DEF two, ss
    <3> QED BY <3>1, <3>2, <3>3
  <2> HIDE DEF ss
  <2>4. /\ Untouched(ci, s) /\ Outputs(ci, s) /\ s.log = ci.log /\ s.dev = ci.dev /\ s.ss = ss
        /\ s.hwOpen = ci.hwOpen
    BY <1>1 DEF CipherFields, Untouched, Outputs
  <2>5. Ciphers!Release(ci) = s
    BY <1>2 DEF Ciphers!Release, ss
  <2> HIDE DEF s
  <2> QED BY <2>1, <2>3, <2>4, <2>5
<1>3. CASE ci.dev = "hw"
  <2> DEFINE s == [ci EXCEPT !.hwOpen = ci.hwOpen - 1]
  <2>1. ci.hwOpen = 1 /\ \A k \in 1 .. MaxSession : ~ci.ss[k].in_use
    BY <1>1, <1>3 DEF PoolInv
  <2>2. /\ Untouched(ci, s) /\ Outputs(ci, s) /\ s.log = ci.log /\ s.dev = ci.dev /\ s.ss = ci.ss
        /\ s.hwOpen = 0
    BY <1>1, <2>1 DEF CipherFields, Untouched, Outputs
  <2>3. Ciphers!Release(ci) = s
    BY <1>1, <1>3 DEF Ciphers!Release, CipherFields
  <2> HIDE DEF s
  <2> QED BY <1>1, <2>1, <2>2, <2>3
<1> QED BY <1>1, <1>2, <1>3

\* With no session open the pool is as it was before the begin.
LEMMA PoolEmpty ==
  ASSUME NEW c, c.hwOpen = 0, \A k \in 1 .. MaxSession : ~c.ss[k].in_use, ~Holding(c)
  PROVE  PoolInv(c)
BY DEF PoolInv

LEMMA FreeStep == CipherInv(ci) /\ (Ciphers!FreeMid \/ Ciphers!Out) => CipherInv(ci')
<1> SUFFICES ASSUME CipherInv(ci), Ciphers!FreeMid \/ Ciphers!Out PROVE CipherInv(ci')
  OBVIOUS
<1> DEFINE s == Ciphers!Release(ci)
<1>1. /\ ci.pc \in {"free", "out"} /\ CipherType(ci) /\ ReportInv(ci) /\ HashInv(ci) /\ Holding(ci)
      /\ ci.app # "hash" /\ ci.dev \in {"sw", "hw"} /\ (ci.app # "aes256" => ci.dev = "hw")
      /\ DOMAIN ci.ct = {"sw", "hw"}
  BY DEF Ciphers!FreeMid, Ciphers!Out, CipherInv, CipherType, Holding
<1>2. /\ Untouched(ci, s) /\ Outputs(ci, s) /\ s.log = ci.log /\ s.dev = ci.dev
      /\ Sessions(s.ss) /\ s.hwOpen = 0 /\ \A k \in 1 .. MaxSession : ~s.ss[k].in_use
  BY <1>1, ReleaseFields
<1>3. \/ ci.pc = "free" /\ ci' = [s EXCEPT !.pc = "begin_dec"]
      \/ ci' = Ciphers!Return(s)
  BY DEF Ciphers!FreeMid, Ciphers!Out
<1> HIDE DEF s
<1>4. DOMAIN s = CipherFields
  BY <1>2 DEF Untouched
<1>5. /\ Untouched(ci, ci') /\ Outputs(ci, ci') /\ ci'.log = ci.log /\ ci'.ss = s.ss
      /\ ci'.hwOpen = 0
      /\ \/ ci.pc = "free" /\ ci'.pc = "begin_dec" /\ ci'.dev = ci.dev
         \/ /\ ci'.dev = IF ci.app = "aes256" THEN "hw" ELSE ci.dev
            /\ ci'.pc = IF ci.app = "aes256" THEN (IF ci.dev = "sw" THEN "begin_enc" ELSE "compare")
                        ELSE "next"
  <2>1. CASE ci.pc = "free" /\ ci' = [s EXCEPT !.pc = "begin_dec"]
    BY <1>2, <1>4, <2>1 DEF CipherFields, Untouched, Outputs
  <2>2. CASE ci' = Ciphers!Return(s)
    <3>1. /\ Untouched(s, ci') /\ Outputs(s, ci') /\ ci'.ss = s.ss /\ ci'.hwOpen = s.hwOpen
          /\ ci'.log = s.log
          /\ ci'.dev = IF s.app = "aes256" THEN "hw" ELSE s.dev
          /\ ci'.pc = IF s.app = "aes256" THEN (IF s.dev = "sw" THEN "begin_enc" ELSE "compare")
                      ELSE "next"
      BY <1>4, <2>2, ReturnFields
    <3> QED BY <1>2, <3>1 DEF Untouched, Outputs
  <2> QED BY <1>3, <2>1, <2>2
<1>6. /\ ci'.pc \in {"begin_dec", "begin_enc", "compare", "next"} /\ ci'.dev \in {"sw", "hw"}
      /\ (ci.app # "aes256" => ci'.dev = ci.dev)
  BY <1>1, <1>5
<1>7. CipherType(ci')
  BY <1>1, <1>2, <1>5, <1>6, TypeKept DEF Outputs
<1>8. PoolInv(ci')
  BY <1>2, <1>5, <1>6, PoolEmpty DEF Holding
<1>9. ReportInv(ci')
  <2>1. /\ ci'.ct = ci.ct /\ ci'.bad = ci.bad /\ ci'.log = ci.log /\ ci'.same = ci.same
        /\ ci'.app = ci.app
    BY <1>5 DEF Untouched, Outputs
  <2>2. CASE ci.pc = "free" /\ ci'.pc = "begin_dec" /\ ci'.dev = ci.dev
    BY <1>1, <2>1, <2>2 DEF ReportInv
  <2>3. CASE ci'.pc = "begin_enc" /\ ci.app = "aes256" /\ ci.dev = "sw" /\ ci'.dev = "hw"
    BY <1>1, <2>1, <2>3 DEF ReportInv
  <2>4. CASE ci'.pc \in {"compare", "next"} /\ ci'.dev = ci.dev
             /\ (ci'.pc = "next" <=> ci.app # "aes256")
    BY <1>1, <2>1, <2>4 DEF ReportInv
  <2> QED BY <1>1, <1>5, <2>2, <2>3, <2>4
<1>10. HashInv(ci')
  BY <1>1, <1>5, HashUntouched DEF Untouched
<1>11. BufferInv(ci')
  BY <1>6 DEF BufferInv
<1> QED BY <1>7, <1>8, <1>9, <1>10, <1>11 DEF CipherInv

LEMMA CompareStep == CipherInv(ci) /\ Ciphers!Compare => CipherInv(ci')
<1> SUFFICES ASSUME CipherInv(ci), Ciphers!Compare PROVE CipherInv(ci')
  OBVIOUS
<1> DEFINE differ == ci.ct.sw # ci.ct.hw
           lg == IF differ THEN ci.log \cup {"compare"} ELSE ci.log
           p == IF differ /\ ci.asserts THEN "halt" ELSE "next"
<1>1. /\ ci.pc = "compare" /\ CipherType(ci) /\ PoolInv(ci) /\ ReportInv(ci) /\ HashInv(ci)
      /\ ci.app = "aes256" /\ ci.dev \in {"sw", "hw"} /\ DOMAIN ci.ct = {"sw", "hw"}
      /\ DOMAIN ci = CipherFields /\ Sessions(ci.ss)
  BY DEF Ciphers!Compare, CipherInv, CipherType, ReportInv
<1>2. ci' = [ci EXCEPT !.log = lg, !.pc = p]
  BY <1>1 DEF Ciphers!Compare, CipherFields
<1>3. p \in {"halt", "next"} /\ (differ => lg # {}) /\ (~differ => lg = ci.log) /\ ci.log \subseteq lg
  OBVIOUS
<1> HIDE DEF lg, p
<1>4. /\ Untouched(ci, ci') /\ Outputs(ci, ci') /\ ci'.log = lg /\ ci'.pc = p /\ ci'.ss = ci.ss
      /\ ci'.hwOpen = ci.hwOpen /\ ci'.dev = ci.dev
  BY <1>1, <1>2 DEF CipherFields, Untouched, Outputs
<1>5. ci.hwOpen = 0 /\ \A k \in 1 .. MaxSession : ~ci.ss[k].in_use
  BY <1>1 DEF PoolInv, Holding
<1>6. CipherType(ci')
  BY <1>1, <1>3, <1>4, TypeKept DEF Outputs
<1>7. PoolInv(ci')
  BY <1>3, <1>4, <1>5, PoolEmpty DEF Holding
<1>8. ReportInv(ci')
  BY <1>1, <1>3, <1>4 DEF ReportInv, Untouched, Outputs
<1>9. HashInv(ci')
  BY <1>1, <1>4, HashUntouched DEF Untouched
<1>10. BufferInv(ci')
  BY <1>3, <1>4 DEF BufferInv
<1> QED BY <1>6, <1>7, <1>8, <1>9, <1>10 DEF CipherInv

LEMMA NextRoundStep == CipherInv(ci) /\ Ciphers!NextRound => CipherInv(ci')
<1> SUFFICES ASSUME CipherInv(ci), Ciphers!NextRound PROVE CipherInv(ci')
  OBVIOUS
<1>1. /\ ci.pc = "next" /\ CipherType(ci) /\ PoolInv(ci) /\ ReportInv(ci) /\ HashInv(ci)
      /\ ci.app # "hash" /\ ci.app \in {"aes256", "crypto", "sm4"} /\ ci.dev \in {"sw", "hw"}
      /\ (ci.app # "aes256" => ci.dev = "hw")
      /\ DOMAIN ci.ct = {"sw", "hw"} /\ DOMAIN ci = CipherFields /\ Sessions(ci.ss)
      /\ ci.r \in 1 .. Len(Ciphers!Plan(ci.app))
  BY DEF Ciphers!NextRound, CipherInv, CipherType
<1>2. ci.hwOpen = 0 /\ \A k \in 1 .. MaxSession : ~ci.ss[k].in_use
  BY <1>1 DEF PoolInv, Holding
<1>3. CASE ci.r = Len(Ciphers!Plan(ci.app))
  <2>1. ci' = [ci EXCEPT !.pc = "done"]
    BY <1>3 DEF Ciphers!NextRound
  <2>2. /\ Untouched(ci, ci') /\ Outputs(ci, ci') /\ ci'.log = ci.log /\ ci'.pc = "done"
        /\ ci'.ss = ci.ss /\ ci'.hwOpen = ci.hwOpen /\ ci'.dev = ci.dev
    BY <1>1, <2>1 DEF CipherFields, Untouched, Outputs
  <2>3. CipherType(ci')
    BY <1>1, <2>2, TypeKept DEF Outputs
  <2>4. PoolInv(ci')
    BY <1>2, <2>2, PoolEmpty DEF Holding
  <2>5. ReportInv(ci')
    BY <1>1, <2>2 DEF ReportInv, Untouched, Outputs
  <2>6. HashInv(ci')
    BY <1>1, <2>2, HashUntouched DEF Untouched
  <2>7. BufferInv(ci')
    BY <2>2 DEF BufferInv
  <2> QED BY <2>3, <2>4, <2>5, <2>6, <2>7 DEF CipherInv
<1>4. CASE ci.r # Len(Ciphers!Plan(ci.app))
  <2> DEFINE r1 == ci.r + 1
             d == Ciphers!FirstDev(ci.app)
  <2>1. ci' = [ci EXCEPT !.r = r1, !.dev = d, !.pc = "begin_enc", !.ct = Ciphers!Zeros,
                         !.same = FALSE, !.bad = {}, !.log = {}]
    BY <1>1, <1>4 DEF Ciphers!NextRound, CipherFields
  <2>2. r1 \in 1 .. Len(Ciphers!Plan(ci.app)) /\ d \in {"sw", "hw"} /\ (ci.app # "aes256" => d = "hw")
    <3>1. Len(Ciphers!Plan(ci.app)) \in Nat
      BY <1>1, Plans, LenProperties
    <3> QED BY <1>1, <1>4, <3>1 DEF Ciphers!FirstDev
  <2> HIDE DEF r1, d
  <2>3. /\ DOMAIN ci' = CipherFields /\ ci'.app = ci.app /\ ci'.asserts = ci.asserts /\ ci'.r = r1
        /\ ci'.dev = d /\ ci'.pc = "begin_enc" /\ ci'.ss = ci.ss /\ ci'.hwOpen = ci.hwOpen
        /\ ci'.ct = Ciphers!Zeros /\ ci'.same = FALSE /\ ci'.bad = {} /\ ci'.log = {} /\ ci'.h = ci.h
    BY <1>1, <2>1 DEF CipherFields
  <2>4. DOMAIN Ciphers!Zeros = {"sw", "hw"} /\ Ciphers!Zeros.sw = "zero" /\ Ciphers!Zeros.hw = "zero"
    BY DEF Ciphers!Zeros
  <2>5. CipherType(ci')
    BY <1>1, <2>2, <2>3, <2>4 DEF CipherType
  <2>6. PoolInv(ci')
    BY <1>2, <2>3, PoolEmpty DEF Holding
  <2>7. ReportInv(ci')
    BY <2>2, <2>3, <2>4 DEF ReportInv
  <2>8. HashInv(ci')
    BY <1>1, <2>3, HashUntouched
  <2>9. BufferInv(ci')
    BY <2>3 DEF BufferInv
  <2> QED BY <2>5, <2>6, <2>7, <2>8, <2>9 DEF CipherInv
<1> QED BY <1>3, <1>4


\* What a call of the hash client leaves alone.
Client(c, d) ==
  /\ DOMAIN d = CipherFields
  /\ d.app = c.app /\ d.asserts = c.asserts /\ d.r = c.r /\ d.dev = c.dev /\ d.pc = c.pc
  /\ d.hwOpen = c.hwOpen /\ d.ct = c.ct /\ d.bad = c.bad /\ d.log = c.log /\ d.moved = c.moved

LEMMA ClientKeeps ==
  ASSUME NEW c, NEW d, CipherInv(c), c.app = "hash", Client(c, d), Sessions(d.ss), HashInv(d)
  PROVE  CipherInv(d)
<1>1. CipherType(d)
  BY DEF CipherInv, CipherType, Client
<1>2. PoolInv(d) /\ BufferInv(d)
  BY DEF PoolInv, BufferInv, Client
<1>3. ReportInv(d)
  <2>1. d.pc = "hash"
    BY DEF CipherInv, CipherType, Client
  <2>2. /\ d.ct = c.ct /\ d.bad = c.bad /\ d.log = c.log /\ d.app = c.app /\ d.dev = c.dev
        /\ d.pc = c.pc /\ ReportInv(c)
    BY DEF CipherInv, Client
  <2> QED BY <2>1, <2>2 DEF ReportInv
<1> QED BY <1>1, <1>2, <1>3 DEF CipherInv

\* The session and the context of one user are written; those of the others are not.
LEMMA SetupStep ==
  ASSUME NEW x \in Handles, NEW algo, CipherInv(ci), Ciphers!mtls_hash_session_setup(x, algo)
  PROVE  CipherInv(ci')
<1> DEFINE i == Ciphers!mtls_get_unused_session_index(ci.ss)
           hx == [i |-> i, started |-> FALSE, want |-> <<>>, out |-> <<>>, due |-> <<>>]
<1>1. /\ ci.app = "hash" /\ CipherType(ci) /\ HashInv(ci) /\ DOMAIN ci = CipherFields /\ Sessions(ci.ss)
      /\ ci.h[x].i = 0
  BY DEF Ciphers!mtls_hash_session_setup, CipherInv, CipherType
<1>2. CASE ci' = ci
  BY <1>2
<1>3. CASE /\ i # 0
           /\ ci' = [ci EXCEPT !.ss[i].in_use = TRUE, !.ss[i].mode = algo, !.ss[i].holds = algo,
                               !.ss[i].fed = <<>>, !.h[x] = hx]
  <2>1. i \in 1 .. MaxSession /\ ~ci.ss[i].in_use
    BY <1>3, LowestFree
  <2> HIDE DEF i
  <2> DEFINE c1 == [ci EXCEPT !.ss[i].in_use = TRUE]
             c2 == [c1 EXCEPT !.ss[i].mode = algo]
             c3 == [c2 EXCEPT !.ss[i].holds = algo]
             c4 == [c3 EXCEPT !.ss[i].fed = <<>>]
             c5 == [c4 EXCEPT !.h[x] = hx]
  <2>2. ci' = c5
    BY <1>3, Zenon
  <2>3. /\ Client(ci, c1) /\ c1.h = ci.h /\ Sessions(c1.ss)
        /\ \A k \in 1 .. MaxSession : k # i => c1.ss[k] = ci.ss[k]
        /\ c1.ss[i].in_use = TRUE
    BY <1>1, <2>1 DEF Client, CipherFields, Sessions, SessionFields
  <2> HIDE DEF c1
  <2>4. /\ Client(ci, c2) /\ c2.h = ci.h /\ Sessions(c2.ss)
        /\ \A k \in 1 .. MaxSession : k # i => c2.ss[k] = ci.ss[k]
        /\ c2.ss[i].in_use = TRUE
    BY <2>1, <2>3 DEF Client, CipherFields, Sessions, SessionFields
  <2> HIDE DEF c2
  <2>5. /\ Client(ci, c3) /\ c3.h = ci.h /\ Sessions(c3.ss)
        /\ \A k \in 1 .. MaxSession : k # i => c3.ss[k] = ci.ss[k]
        /\ c3.ss[i].in_use = TRUE
    BY <2>1, <2>4 DEF Client, CipherFields, Sessions, SessionFields
  <2> HIDE DEF c3
  <2>6. /\ Client(ci, c4) /\ c4.h = ci.h /\ Sessions(c4.ss)
        /\ \A k \in 1 .. MaxSession : k # i => c4.ss[k] = ci.ss[k]
        /\ c4.ss[i].in_use = TRUE
    BY <2>1, <2>5 DEF Client, CipherFields, Sessions, SessionFields
  <2> HIDE DEF c4
  <2>7. /\ DOMAIN hx = HandleFields /\ hx.i = i /\ hx.started = FALSE /\ hx.want = <<>>
        /\ hx.out = <<>> /\ hx.due = <<>>
    BY DEF HandleFields
  <2> HIDE DEF hx
  <2>8. DOMAIN ci.h = Handles
    BY <1>1 DEF HashInv
  <2>9. /\ Client(ci, c5) /\ c5.ss = c4.ss /\ DOMAIN c5.h = Handles /\ c5.h[x] = hx
        /\ \A y \in Handles : y # x => c5.h[y] = ci.h[y]
    BY <2>6, <2>8 DEF Client, CipherFields
  <2> HIDE DEF c5
  <2>10. Sessions(c5.ss) /\ c5.ss[i].in_use = TRUE
         /\ \A k \in 1 .. MaxSession : k # i => c5.ss[k] = ci.ss[k]
    BY <2>6, <2>9
  <2>11. \A y \in Handles : ci.h[y].i # i
    BY <1>1, <2>1 DEF HashInv
  <2>12. HashInv(c5)
    <3>1. /\ DOMAIN c5.h = Handles
          /\ \A y \in Handles : DOMAIN c5.h[y] = HandleFields /\ c5.h[y].out = c5.h[y].due
      BY <1>1, <2>7, <2>9 DEF HashInv
    <3>2. ASSUME NEW y \in Handles
          PROVE  /\ c5.h[y].i \in 0 .. MaxSession
                 /\ c5.h[y].started \in BOOLEAN
                 /\ ~c5.h[y].started => c5.h[y].want = <<>>
                 /\ c5.h[y].started => c5.h[y].i # 0 /\ c5.ss[c5.h[y].i].fed = c5.h[y].want
      <4>1. CASE y = x
        <5>1. c5.h[y].i \in 0 .. MaxSession
          BY <2>1, <2>7, <2>9, <4>1
        <5>2. c5.h[y].started = FALSE /\ c5.h[y].want = <<>>
          BY <2>7, <2>9, <4>1
        <5> QED BY <5>1, <5>2, Zenon
      <4>2. CASE y # x
        BY <1>1, <2>9, <2>10, <2>11, <4>2 DEF HashInv
      <4> QED BY <4>1, <4>2
    <3>3. \A y, z \in Handles : y # z /\ c5.h[y].i # 0 => c5.h[y].i # c5.h[z].i
      BY <1>1, <2>7, <2>9, <2>11 DEF HashInv
    <3>4. ASSUME NEW k \in 1 .. MaxSession
          PROVE  c5.ss[k].in_use <=> \E y \in Handles : c5.h[y].i = k
      <4>1. CASE k = i
        <5>1. c5.h[x].i = k /\ c5.ss[k].in_use = TRUE
          BY <2>7, <2>9, <2>10, <4>1
        <5> QED BY <5>1, Zenon
      <4>2. CASE k # i
        <5>1. c5.ss[k].in_use <=> \E y \in Handles : ci.h[y].i = k
          BY <1>1, <2>10, <4>2 DEF HashInv
        <5>2. ASSUME NEW y \in Handles PROVE c5.h[y].i = k <=> ci.h[y].i = k
          BY <1>1, <2>7, <2>9, <4>2
        <5> QED BY <5>1, <5>2
      <4> QED BY <4>1, <4>2
    <3> QED BY <3>1, <3>2, <3>3, <3>4 DEF HashInv
  <2> QED BY <1>1, <2>2, <2>9, <2>10, <2>12, ClientKeeps
<1> QED BY <1>2, <1>3 DEF Ciphers!mtls_hash_session_setup

LEMMA HashFreeStep ==
  ASSUME NEW x \in Handles, CipherInv(ci), Ciphers!mtls_hash_session_free(x)
  PROVE  CipherInv(ci')
<1> DEFINE i == ci.h[x].i
           fs == [Ciphers!FreeSession EXCEPT !.mode = ci.ss[i].mode]
<1>1. /\ ci.app = "hash" /\ CipherType(ci) /\ HashInv(ci) /\ DOMAIN ci = CipherFields /\ Sessions(ci.ss)
      /\ i \in 1 .. MaxSession /\ DOMAIN ci.h = Handles /\ DOMAIN ci.h[x] = HandleFields
  BY SamplesAssumption DEF Ciphers!mtls_hash_session_free, CipherInv, CipherType, HashInv
<1>2. DOMAIN fs = SessionFields /\ fs.in_use = FALSE
  BY DEF Ciphers!FreeSession, SessionFields
<1>3. ci' = [ci EXCEPT !.ss[i] = fs, !.h[x].i = 0, !.h[x].want = <<>>, !.h[x].started = FALSE]
  BY DEF Ciphers!mtls_hash_session_free
<1> HIDE DEF fs
<1> DEFINE c1 == [ci EXCEPT !.ss[i] = fs]
           c2 == [c1 EXCEPT !.h[x].i = 0]
           c3 == [c2 EXCEPT !.h[x].want = <<>>]
           c4 == [c3 EXCEPT !.h[x].started = FALSE]
<1>4. ci' = c4
  BY <1>3, Zenon
<1>5. /\ Client(ci, c1) /\ c1.h = ci.h /\ Sessions(c1.ss) /\ c1.ss[i] = fs
      /\ \A k \in 1 .. MaxSession : k # i => c1.ss[k] = ci.ss[k]
  BY <1>1, <1>2 DEF Client, CipherFields, Sessions
<1> HIDE DEF c1
<1>6. /\ Client(ci, c2) /\ c2.ss = c1.ss /\ DOMAIN c2.h = Handles /\ DOMAIN c2.h[x] = HandleFields
      /\ \A y \in Handles : y # x => c2.h[y] = ci.h[y]
      /\ c2.h[x].i = 0 /\ c2.h[x].out = ci.h[x].out /\ c2.h[x].due = ci.h[x].due
  BY <1>1, <1>5 DEF Client, CipherFields, HandleFields
<1> HIDE DEF c2
<1>7. /\ Client(ci, c3) /\ c3.ss = c1.ss /\ DOMAIN c3.h = Handles /\ DOMAIN c3.h[x] = HandleFields
      /\ \A y \in Handles : y # x => c3.h[y] = ci.h[y]
      /\ c3.h[x].i = 0 /\ c3.h[x].out = ci.h[x].out /\ c3.h[x].due = ci.h[x].due
      /\ c3.h[x].want = <<>>
  BY <1>6 DEF Client, CipherFields, HandleFields
<1> HIDE DEF c3
<1>8. /\ Client(ci, c4) /\ c4.ss = c1.ss /\ DOMAIN c4.h = Handles /\ DOMAIN c4.h[x] = HandleFields
      /\ \A y \in Handles : y # x => c4.h[y] = ci.h[y]
      /\ c4.h[x].i = 0 /\ c4.h[x].out = ci.h[x].out /\ c4.h[x].due = ci.h[x].due
      /\ c4.h[x].want = <<>> /\ c4.h[x].started = FALSE
  BY <1>7 DEF Client, CipherFields, HandleFields
<1> HIDE DEF c4
<1>9. Sessions(c4.ss) /\ c4.ss[i].in_use = FALSE
      /\ \A k \in 1 .. MaxSession : k # i => c4.ss[k] = ci.ss[k]
  BY <1>2, <1>5, <1>8
<1>10. \A y \in Handles : y # x => ci.h[y].i # i
  BY <1>1 DEF HashInv
<1>11. HashInv(c4)
  <2>1. /\ DOMAIN c4.h = Handles
        /\ \A y \in Handles : DOMAIN c4.h[y] = HandleFields /\ c4.h[y].out = c4.h[y].due
    BY <1>1, <1>8 DEF HashInv
  <2>2. ASSUME NEW y \in Handles
        PROVE  /\ c4.h[y].i \in 0 .. MaxSession
               /\ c4.h[y].started \in BOOLEAN
               /\ ~c4.h[y].started => c4.h[y].want = <<>>
               /\ c4.h[y].started => c4.h[y].i # 0 /\ c4.ss[c4.h[y].i].fed = c4.h[y].want
    <3>1. CASE y = x
      <4>1. c4.h[y].i \in 0 .. MaxSession
        BY <1>8, <3>1, SamplesAssumption
      <4>2. c4.h[y].started = FALSE /\ c4.h[y].want = <<>>
        BY <1>8, <3>1
      <4> QED BY <4>1, <4>2, Zenon
    <3>2. CASE y # x
      BY <1>1, <1>8, <1>9, <1>10, <3>2 DEF HashInv
    <3> QED BY <3>1, <3>2
  <2>3. \A y, z \in Handles : y # z /\ c4.h[y].i # 0 => c4.h[y].i # c4.h[z].i
    BY <1>1, <1>8 DEF HashInv
  <2>4. ASSUME NEW k \in 1 .. MaxSession
        PROVE  c4.ss[k].in_use <=> \E y \in Handles : c4.h[y].i = k
    <3>1. CASE k = i
      <4>1. c4.ss[k].in_use = FALSE
        BY <1>9, <3>1
      <4>2. ASSUME NEW y \in Handles PROVE c4.h[y].i # k
        BY <1>1, <1>8, <1>10, <3>1
      <4> QED BY <4>1, <4>2, Zenon
    <3>2. CASE k # i
      <4>1. c4.ss[k].in_use <=> \E y \in Handles : ci.h[y].i = k
        BY <1>1, <1>9, <3>2 DEF HashInv
      <4>2. ASSUME NEW y \in Handles PROVE c4.h[y].i = k <=> ci.h[y].i = k
        BY <1>8, <3>2
      <4> QED BY <4>1, <4>2
    <3> QED BY <3>1, <3>2
  <2> QED BY <2>1, <2>2, <2>3, <2>4 DEF HashInv
<1> QED BY <1>1, <1>4, <1>8, <1>9, <1>11, ClientKeeps


\* A piece of the data goes to the session of its own context, and a digest is
\* taken of what that session has been fed since it was started.
LEMMA ComputeStep ==
  ASSUME NEW x \in Handles, NEW fin \in BOOLEAN, NEW fail \in {"none", "starts", "update", "finish"},
         CipherInv(ci), ci.pc = "hash", ci.h[x].i # 0, Ciphers!Compute(x, fin, fail)
  PROVE  CipherInv(ci')
<1> DEFINE c == ci.h[x]
           i == ci.h[x].i
           fed == IF c.started THEN Append(ci.ss[i].fed, x) ELSE <<x>>
           lost == fail # "none"
           fd == IF fail \in {"starts", "update"} THEN ci.ss[i].fed ELSE fed
           st == ~fin /\ ~lost
           wt == IF lost \/ fin THEN <<>> ELSE Append(c.want, x)
           ot == IF fin /\ ~lost THEN fed ELSE c.out
           du == IF fin /\ ~lost THEN Append(c.want, x) ELSE c.due
<1>1. /\ ci.app = "hash" /\ CipherType(ci) /\ HashInv(ci) /\ DOMAIN ci = CipherFields /\ Sessions(ci.ss)
      /\ i \in 1 .. MaxSession /\ DOMAIN ci.h = Handles /\ DOMAIN ci.h[x] = HandleFields
  BY SamplesAssumption DEF CipherInv, CipherType, HashInv
<1>2. fed = Append(c.want, x)
  <2>1. CASE c.started
    BY <1>1, <2>1 DEF HashInv
  <2>2. CASE ~c.started
    <3>1. c.want = <<>>
      BY <1>1, <2>2 DEF HashInv
    <3> QED BY <2>2, <3>1
  <2> QED BY <2>1, <2>2
<1>3. ot = du
  BY <1>1, <1>2 DEF HashInv
<1>4. st \in BOOLEAN /\ (~st => wt = <<>>) /\ (st => fd = wt)
  BY <1>2
<1> DEFINE c1 == [ci EXCEPT !.ss[i].fed = fd]
           c2 == [c1 EXCEPT !.h[x].started = st]
           c3 == [c2 EXCEPT !.h[x].want = wt]
           c4 == [c3 EXCEPT !.h[x].out = ot]
           c5 == [c4 EXCEPT !.h[x].due = du]
<1>5. ci' = c5
  <2>1. ci' = [ci EXCEPT !.ss[i].fed = IF fail \in {"starts", "update"} THEN @ ELSE fed,
                         !.h[x].started = ~fin /\ ~lost,
                         !.h[x].want = IF lost \/ fin THEN <<>> ELSE Append(c.want, x),
                         !.h[x].out = IF fin /\ ~lost THEN fed ELSE @,
                         !.h[x].due = IF fin /\ ~lost THEN Append(c.want, x) ELSE @]
    BY Zenon DEF Ciphers!Compute
  <2> QED BY <1>1, <2>1 DEF CipherFields, HandleFields, Sessions, SessionFields
<1> HIDE DEF fd, st, wt, ot, du
<1>6. /\ Client(ci, c1) /\ c1.h = ci.h /\ Sessions(c1.ss) /\ c1.ss[i].fed = fd
      /\ \A k \in 1 .. MaxSession : k # i => c1.ss[k] = ci.ss[k]
      /\ c1.ss[i].in_use = ci.ss[i].in_use
  BY <1>1 DEF Client, CipherFields, Sessions, SessionFields
<1> HIDE DEF c1
<1>7. /\ Client(ci, c2) /\ c2.ss = c1.ss /\ DOMAIN c2.h = Handles /\ DOMAIN c2.h[x] = HandleFields
      /\ \A y \in Handles : y # x => c2.h[y] = ci.h[y]
      /\ c2.h[x].i = i /\ c2.h[x].started = st
  BY <1>1, <1>6 DEF Client, CipherFields, HandleFields
<1> HIDE DEF c2
<1>8. /\ Client(ci, c3) /\ c3.ss = c1.ss /\ DOMAIN c3.h = Handles /\ DOMAIN c3.h[x] = HandleFields
      /\ \A y \in Handles : y # x => c3.h[y] = ci.h[y]
      /\ c3.h[x].i = i /\ c3.h[x].started = st /\ c3.h[x].want = wt
  BY <1>7 DEF Client, CipherFields, HandleFields
<1> HIDE DEF c3
<1>9. /\ Client(ci, c4) /\ c4.ss = c1.ss /\ DOMAIN c4.h = Handles /\ DOMAIN c4.h[x] = HandleFields
      /\ \A y \in Handles : y # x => c4.h[y] = ci.h[y]
      /\ c4.h[x].i = i /\ c4.h[x].started = st /\ c4.h[x].want = wt /\ c4.h[x].out = ot
  BY <1>8 DEF Client, CipherFields, HandleFields
<1> HIDE DEF c4
<1>10. /\ Client(ci, c5) /\ c5.ss = c1.ss /\ DOMAIN c5.h = Handles /\ DOMAIN c5.h[x] = HandleFields
       /\ \A y \in Handles : y # x => c5.h[y] = ci.h[y]
       /\ c5.h[x].i = i /\ c5.h[x].started = st /\ c5.h[x].want = wt /\ c5.h[x].out = ot
       /\ c5.h[x].due = du
  BY <1>9 DEF Client, CipherFields, HandleFields
<1> HIDE DEF c5
<1>11. /\ Sessions(c5.ss) /\ c5.ss[i].fed = fd
       /\ \A k \in 1 .. MaxSession : k # i => c5.ss[k] = ci.ss[k]
       /\ c5.ss[i].in_use = ci.ss[i].in_use
  BY <1>6, <1>10
<1>12. \A y \in Handles : c5.h[y].i = ci.h[y].i
  BY <1>10
<1>13. \A y \in Handles : y # x => ci.h[y].i # i
  BY <1>1 DEF HashInv
<1>14. HashInv(c5)
  <2>1. /\ DOMAIN c5.h = Handles
        /\ \A y \in Handles : DOMAIN c5.h[y] = HandleFields /\ c5.h[y].out = c5.h[y].due
    BY <1>1, <1>3, <1>10 DEF HashInv
  <2>2. ASSUME NEW y \in Handles
        PROVE  /\ c5.h[y].i \in 0 .. MaxSession
               /\ c5.h[y].started \in BOOLEAN
               /\ ~c5.h[y].started => c5.h[y].want = <<>>
               /\ c5.h[y].started => c5.h[y].i # 0 /\ c5.ss[c5.h[y].i].fed = c5.h[y].want
    <3>1. CASE y = x
      <4>1. c5.h[y].i \in 0 .. MaxSession /\ c5.h[y].i # 0 /\ c5.h[y].i = i
        BY <1>1, <1>10, <3>1
      <4>2. c5.h[y].started = st /\ c5.h[y].want = wt /\ c5.ss[i].fed = fd
        BY <1>10, <1>11, <3>1
      <4> QED BY <1>4, <4>1, <4>2, Zenon
    <3>2. CASE y # x
      BY <1>1, <1>10, <1>11, <1>13, <3>2 DEF HashInv
    <3> QED BY <3>1, <3>2
  <2>3. \A y, z \in Handles : y # z /\ c5.h[y].i # 0 => c5.h[y].i # c5.h[z].i
    BY <1>1, <1>12 DEF HashInv
  <2>4. ASSUME NEW k \in 1 .. MaxSession
        PROVE  c5.ss[k].in_use <=> \E y \in Handles : c5.h[y].i = k
    <3>1. c5.ss[k].in_use = ci.ss[k].in_use
      BY <1>11
    <3>2. ci.ss[k].in_use <=> \E y \in Handles : ci.h[y].i = k
      BY <1>1 DEF HashInv
    <3> QED BY <1>12, <3>1, <3>2, Zenon
  <2> QED BY <2>1, <2>2, <2>3, <2>4 DEF HashInv
<1> QED BY <1>1, <1>5, <1>10, <1>11, <1>14, ClientKeeps

LEMMA CipherStep == CipherInv(ci) /\ [Ciphers!Next]_ci => CipherInv(ci')
<1> SUFFICES ASSUME CipherInv(ci), [Ciphers!Next]_ci PROVE CipherInv(ci')
  OBVIOUS
<1>1. CASE Ciphers!HashClient
  <2>1. ASSUME NEW x \in Handles, NEW algo \in Ciphers!Algos, Ciphers!mtls_hash_session_setup(x, algo)
        PROVE  CipherInv(ci')
    BY <2>1, SetupStep
  <2>2. ASSUME NEW x \in Handles, NEW fin \in BOOLEAN,
               NEW fail \in {"none", "starts", "update", "finish"},
               Ciphers!mtls_sha256_compute(x, fin, fail) \/ Ciphers!mtls_sha512_compute(x, fin, fail)
        PROVE  CipherInv(ci')
    BY <2>2, ComputeStep DEF Ciphers!mtls_sha256_compute, Ciphers!mtls_sha512_compute
  <2>3. ASSUME NEW x \in Handles, Ciphers!mtls_hash_session_free(x)
        PROVE  CipherInv(ci')
    BY <2>3, HashFreeStep
  <2> QED BY <1>1, <2>1, <2>2, <2>3, Zenon DEF Ciphers!HashClient
<1>2. CASE UNCHANGED ci
  BY <1>2
<1> QED BY <1>1, <1>2, BeginStep, EncryptStep, FreeStep, DecryptStep, CompareStep, NextRoundStep,
     Zenon DEF Ciphers!Next

LEMMA CipherStarts == Ciphers!Init => CipherInv(ci)
<1> SUFFICES ASSUME Ciphers!Init PROVE CipherInv(ci)
  OBVIOUS
<1> DEFINE pool == [i \in 1 .. MaxSession |-> Ciphers!FreeSession]
           hx == [i |-> 0, started |-> FALSE, want |-> <<>>, out |-> <<>>, due |-> <<>>]
           hs0 == [x \in Handles |-> hx]
<1>1. PICK app \in {"aes256", "crypto", "sm4", "hash"}, a \in Asserts, compatible \in BOOLEAN :
        ci = [app |-> app, asserts |-> a, r |-> 1, dev |-> Ciphers!FirstDev(app),
              pc |-> IF app = "hash" THEN "hash" ELSE IF compatible THEN "begin_enc" ELSE "done",
              ss |-> pool, hwOpen |-> 0, i |-> 0,
              ct |-> Ciphers!Zeros, same |-> FALSE, bad |-> {}, log |-> {},
              moved |-> Ciphers!Moves(0, 0, 0), h |-> hs0]
  BY DEF Ciphers!Init
<1>2. Sessions(pool) /\ \A k \in 1 .. MaxSession : ~pool[k].in_use
  BY DEF Sessions, SessionFields, Ciphers!FreeSession
<1>3. DOMAIN hx = HandleFields /\ hx.i = 0 /\ hx.started = FALSE /\ hx.want = <<>> /\ hx.out = hx.due
  BY DEF HandleFields
<1> HIDE DEF pool, hx
<1>4. DOMAIN hs0 = Handles /\ \A x \in Handles : hs0[x] = hx
  OBVIOUS
<1> HIDE DEF hs0
<1>5. /\ DOMAIN Ciphers!Zeros = {"sw", "hw"} /\ Ciphers!Zeros.sw = "zero" /\ Ciphers!Zeros.hw = "zero"
      /\ Ciphers!FirstDev(app) = IF app = "aes256" THEN "sw" ELSE "hw"
  BY DEF Ciphers!Zeros, Ciphers!FirstDev
<1>6. /\ DOMAIN ci = CipherFields /\ ci.app = app /\ ci.asserts = a /\ ci.r = 1
      /\ ci.dev = (IF app = "aes256" THEN "sw" ELSE "hw")
      /\ ci.pc = (IF app = "hash" THEN "hash" ELSE IF compatible THEN "begin_enc" ELSE "done")
      /\ ci.ss = pool /\ ci.hwOpen = 0 /\ ci.ct = Ciphers!Zeros /\ ci.same = FALSE /\ ci.bad = {}
      /\ ci.log = {} /\ ci.h = hs0
  BY <1>1, <1>5 DEF CipherFields
<1>7. app # "hash" => 1 \in 1 .. Len(Ciphers!Plan(app))
  <2>1. app # "hash" => app = "aes256" \/ app = "crypto" \/ app = "sm4"
    OBVIOUS
  <2>2. \A n : n = 5 => 1 \in 1 .. n
    OBVIOUS
  <2>3. Len(Ciphers!Plan("aes256")) \in Nat
    BY Plans, LenProperties
  <2>4. 1 \in 1 .. Len(Ciphers!Plan("aes256"))
    BY <2>3, Plans
  <2> QED BY <2>1, <2>2, <2>4, Plans, Zenon
<1>8. CipherType(ci)
  BY <1>2, <1>5, <1>6, <1>7 DEF CipherType
<1>9. PoolInv(ci)
  BY <1>2, <1>6, PoolEmpty DEF Holding
<1>10. ReportInv(ci)
  BY <1>5, <1>6 DEF ReportInv
<1>11. HashInv(ci)
  <2>1. ASSUME NEW y \in Handles
        PROVE  /\ ci.h[y].i = 0 /\ DOMAIN ci.h[y] = HandleFields /\ ci.h[y].out = ci.h[y].due
               /\ ci.h[y].started = FALSE /\ ci.h[y].want = <<>>
    BY <1>3, <1>4, <1>6
  <2>2. 0 \in 0 .. MaxSession /\ \A k \in 1 .. MaxSession : k # 0
    BY SamplesAssumption
  <2>3. \A k \in 1 .. MaxSession : ~ci.ss[k].in_use /\ ~(\E y \in Handles : ci.h[y].i = k)
    BY <1>2, <1>6, <2>1, <2>2, Zenon
  <2>4. DOMAIN ci.h = Handles
    BY <1>4, <1>6
  <2> QED BY <2>1, <2>2, <2>3, <2>4, Zenon DEF HashInv
<1>12. BufferInv(ci)
  BY <1>6 DEF BufferInv
<1> QED BY <1>8, <1>9, <1>10, <1>11, <1>12 DEF CipherInv

\* What another image does leaves the cipher programs alone.
LEMMA CipherAlone ==
  ASSUME [SamplesNext]_samplesVars PROVE [Ciphers!Next]_ci
BY DEF SamplesNext, samplesVars

LEMMA SameCardinality == \A S : Ciphers!Cardinality(S) = Cardinality(S)
BY Zenon DEF Ciphers!Cardinality, Cardinality

\* Cardinality of the set of contexts with a session: the contexts are distinct.
LEMMA OneUser ==
  ASSUME HashInv(ci), ci.app = "hash", NEW k \in 1 .. MaxSession
  PROVE  ci.ss[k].in_use <=> Cardinality({x \in Handles : ci.h[x].i = k}) = 1
<1> DEFINE users == {x \in Handles : ci.h[x].i = k}
<1>1. CASE \E x \in Handles : ci.h[x].i = k
  <2>1. PICK x \in Handles : ci.h[x].i = k
    BY <1>1
  <2>2. users = {x}
    BY <2>1 DEF HashInv
  <2>3. Cardinality(users) = 1
    BY <2>2, FS_Singleton
  <2>4. ci.ss[k].in_use
    BY <1>1 DEF HashInv
  <2> QED BY <2>3, <2>4
<1>2. CASE ~\E x \in Handles : ci.h[x].i = k
  <2>1. users = {}
    BY <1>2
  <2>2. Cardinality(users) = 0
    BY <2>1, FS_EmptySet
  <2>3. ~ci.ss[k].in_use
    BY <1>2 DEF HashInv
  <2> QED BY <2>2, <2>3
<1> QED BY <1>1, <1>2

LEMMA CipherKept == CipherInv(ci) => SessionsKept /\ Ciphers!WrongOutputReported
<1> SUFFICES ASSUME CipherInv(ci) PROVE SessionsKept /\ Ciphers!WrongOutputReported
  OBVIOUS
<1>1. CipherType(ci) /\ PoolInv(ci) /\ ReportInv(ci) /\ HashInv(ci) /\ BufferInv(ci)
  BY DEF CipherInv
<1>2. ci.pc \in {"next", "compare", "done"} =>
        ci.hwOpen = 0 /\ \A i \in 1 .. MaxSession : ~ci.ss[i].in_use
  BY <1>1 DEF CipherType, PoolInv, Holding
<1>3. ci.app = "hash" =>
        /\ \A i \in 1 .. MaxSession :
             ci.ss[i].in_use <=> Cardinality({x \in Handles : ci.h[x].i = i}) = 1
        /\ \A x, y \in Handles : x # y /\ ci.h[x].i # 0 => ci.h[x].i # ci.h[y].i
  BY <1>1, OneUser DEF HashInv
<1>4. Ciphers!SessionsReturned
  BY <1>2, <1>3, SameCardinality, Zenon DEF Ciphers!SessionsReturned
<1>5. Ciphers!WithinBuffers
  BY <1>1 DEF BufferInv, Ciphers!WithinBuffers, Ciphers!Fn, Ciphers!Round
<1>6. Ciphers!WrongOutputReported
  BY <1>1 DEF ReportInv, HashInv, Ciphers!WrongOutputReported
<1> QED BY <1>4, <1>5, <1>6 DEF SessionsKept

\* The sessions of the mtls shim: free between rounds and when main returns, one
\* user each, and no handler outside the caller's buffers, on every path of aes256,
\* crypto, sm4 and the hash client, for every pool, lengths and configuration.
THEOREM SessionsAreKept == SamplesSpec => []SessionsKept
<1>1. SamplesInit => CipherInv(ci)
  BY CipherStarts DEF SamplesInit
<1>2. CipherInv(ci) /\ [SamplesNext]_samplesVars => CipherInv(ci)'
  BY CipherAlone, CipherStep
<1>3. CipherInv(ci) => SessionsKept
  BY CipherKept
<1> QED BY <1>1, <1>2, <1>3, PTL DEF SamplesSpec

\* A wrong ciphertext, plaintext or digest: reported in its own round by the
\* comparison that follows it, and a digest of the shim is the digest of the pieces
\* since the last one, however the calls of the contexts alternate and fail.
THEOREM WrongIsReported == SamplesSpec => []Ciphers!WrongOutputReported
<1>1. SamplesInit => CipherInv(ci)
  BY CipherStarts DEF SamplesInit
<1>2. CipherInv(ci) /\ [SamplesNext]_samplesVars => CipherInv(ci)'
  BY CipherAlone, CipherStep
<1>3. CipherInv(ci) => Ciphers!WrongOutputReported
  BY CipherKept
<1> QED BY <1>1, <1>2, <1>3, PTL DEF SamplesSpec


----------------------------------------------------------------------------
(***************************************************************************)
(* The hash test: the lists of calls it goes through.                      *)
(***************************************************************************)
HashModes == {"REF", "RANDOM64", "RANDOM512", "RANDOM8192", "ZERO_SPLICE", "ALTERNATING", "BOUNDARY",
              "LARGE_STEPS", "TINY", "ALIGNED_DMA", "LARGE_CPU", "SINGLE_ALIGNED_DMA", "MIXED_DMA_CPU"}
HashCall == [mode : HashModes, at : Nat, out : {"ref", "multi"}, cmp : BOOLEAN]

\* A list begins with a call that is not compared and ends with one that is.  A call
\* that is compared has the data of the one before it, and if that one was not
\* compared it is the next that is, with the other digest.
Shape(s) ==
  /\ s \in Seq(HashCall) /\ Len(s) >= 1 /\ s[1].cmp = FALSE /\ s[Len(s)].cmp = TRUE
  /\ \A k \in 1 .. Len(s) - 1 :
       /\ s[k + 1].cmp = TRUE => s[k + 1].at = s[k].at
       /\ s[k].cmp = FALSE => s[k + 1].cmp = TRUE /\ s[k + 1].out # s[k].out

\* A call that is not compared and the ones that are compared with it.
Block(s) ==
  /\ s \in Seq(HashCall) /\ Len(s) >= 2 /\ s[1].cmp = FALSE /\ s[2].out # s[1].out
  /\ \A k \in 2 .. Len(s) : s[k].cmp = TRUE /\ s[k].at = s[1].at

LEMMA BlockShape ==
  ASSUME NEW s, Block(s) PROVE Shape(s)
<1>1. Len(s) \in Nat /\ Len(s) >= 2 /\ s \in Seq(HashCall)
  BY LenProperties DEF Block
<1>2. s[Len(s)].cmp = TRUE
  BY <1>1 DEF Block
<1>3. ASSUME NEW k \in 1 .. Len(s) - 1
      PROVE  /\ s[k + 1].cmp = TRUE => s[k + 1].at = s[k].at
             /\ s[k].cmp = FALSE => s[k + 1].cmp = TRUE /\ s[k + 1].out # s[k].out
  <2>1. k + 1 \in 2 .. Len(s) /\ (k = 1 \/ k \in 2 .. Len(s))
    BY <1>1
  <2>2. k = 1 \/ (k # 1 /\ s[k].cmp = TRUE)
    BY <2>1 DEF Block
  <2>3. s[k + 1].cmp = TRUE /\ s[k + 1].at = s[k].at
    BY <2>1 DEF Block
  <2>4. k = 1 => s[k + 1].out # s[k].out
    BY DEF Block
  <2> QED BY <2>2, <2>3, <2>4
<1> QED BY <1>1, <1>2, <1>3 DEF Shape, Block

LEMMA ShapeConcat ==
  ASSUME NEW s, NEW t, Shape(s), Shape(t) PROVE Shape(s \o t)
<1>1. /\ s \in Seq(HashCall) /\ t \in Seq(HashCall) /\ Len(s) \in Nat /\ Len(t) \in Nat
      /\ Len(s) >= 1 /\ Len(t) >= 1
  BY LenProperties DEF Shape
<1> DEFINE u == s \o t
<1>2. /\ u \in Seq(HashCall) /\ Len(u) = Len(s) + Len(t)
      /\ \A i \in 1 .. Len(s) + Len(t) : u[i] = IF i <= Len(s) THEN s[i] ELSE t[i - Len(s)]
  BY <1>1, ConcatProperties
<1> HIDE DEF u
<1>3. u[1].cmp = FALSE /\ u[Len(u)].cmp = TRUE
  <2>1. 1 \in 1 .. Len(s) + Len(t) /\ 1 <= Len(s)
    BY <1>1
  <2>2. /\ Len(u) \in 1 .. Len(s) + Len(t) /\ ~(Len(u) <= Len(s)) /\ Len(u) - Len(s) = Len(t)
    BY <1>1, <1>2
  <2>3. u[1] = s[1] /\ u[Len(u)] = t[Len(t)]
    BY <1>2, <2>1, <2>2
  <2> QED BY <2>3 DEF Shape
<1>4. ASSUME NEW k \in 1 .. Len(u) - 1
      PROVE  /\ u[k + 1].cmp = TRUE => u[k + 1].at = u[k].at
             /\ u[k].cmp = FALSE => u[k + 1].cmp = TRUE /\ u[k + 1].out # u[k].out
  <2>1. CASE k < Len(s)
    <3>1. u[k] = s[k] /\ u[k + 1] = s[k + 1] /\ k \in 1 .. Len(s) - 1
      BY <1>1, <1>2, <2>1
    <3> QED BY <3>1 DEF Shape
  <2>2. CASE k = Len(s)
    <3>1. u[k] = s[Len(s)] /\ u[k + 1] = t[1]
      BY <1>1, <1>2, <2>2
    <3> QED BY <3>1 DEF Shape
  <2>3. CASE k > Len(s)
    <3> DEFINE j == k - Len(s)
    <3>1. u[k] = t[j] /\ u[k + 1] = t[j + 1] /\ j \in 1 .. Len(t) - 1
      BY <1>1, <1>2, <2>3
    <3> HIDE DEF j
    <3> QED BY <3>1 DEF Shape
  <2>4. k < Len(s) \/ k = Len(s) \/ k > Len(s)
    BY <1>1, <1>2
  <2> QED BY <2>1, <2>2, <2>3, <2>4
<1>5. Len(u) >= 1
  BY <1>1, <1>2
<1> QED BY <1>2, <1>3, <1>4, <1>5 DEF Shape, u

LEMMA AlignedBlock ==
  ASSUME NEW mode \in HashModes PROVE Shape(Hash!OnAligned(mode))
<1> DEFINE a == [mode |-> mode, at |-> 0, out |-> "multi", cmp |-> FALSE]
           b == Hash!Ref(0, TRUE)
<1>1. a \in HashCall /\ a.at = 0 /\ a.out = "multi" /\ a.cmp = FALSE
  BY DEF HashCall
<1>2. b \in HashCall /\ b.at = 0 /\ b.out = "ref" /\ b.cmp = TRUE
  BY DEF HashCall, HashModes, Hash!Ref
<1>3. Hash!OnAligned(mode) = <<a, b>>
  BY DEF Hash!OnAligned
<1> HIDE DEF a, b
<1>4. Block(<<a, b>>)
  BY <1>1, <1>2 DEF Block
<1> QED BY <1>3, <1>4, BlockShape

LEMMA OffsetShape ==
  ASSUME NEW total \in Nat, NEW off \in Nat PROVE Shape(Hash!OffsetCalls(total, off))
<1> DEFINE M(m) == Hash!Multi(m, off)
           c1 == Hash!Ref(off, FALSE)
           c2 == M("RANDOM64")
           c3 == M("RANDOM512")
           c4 == M("RANDOM8192")
           c5 == M("ZERO_SPLICE")
           c6 == M("ALTERNATING")
           c7 == M("BOUNDARY")
           c8 == M("LARGE_STEPS")
           c9 == M("TINY")
           s == <<c1, c2, c3, c4, c5, c6, c7, c8>>
           t == IF total <= 512 THEN <<c9>> ELSE <<>>
<1>1. \A m \in HashModes : M(m) \in HashCall /\ M(m).at = off /\ M(m).out = "multi" /\ M(m).cmp = TRUE
  BY DEF HashCall, Hash!Multi
<1>2. c1 \in HashCall /\ c1.at = off /\ c1.out = "ref" /\ c1.cmp = FALSE
  BY DEF HashCall, HashModes, Hash!Ref
<1>3. /\ "RANDOM64" \in HashModes /\ "RANDOM512" \in HashModes /\ "RANDOM8192" \in HashModes
      /\ "ZERO_SPLICE" \in HashModes /\ "ALTERNATING" \in HashModes /\ "BOUNDARY" \in HashModes
      /\ "LARGE_STEPS" \in HashModes /\ "TINY" \in HashModes /\ "ALIGNED_DMA" \in HashModes
  BY DEF HashModes
<1> HIDE DEF c1, M
<1> DEFINE Fits(c) == c \in HashCall /\ c.at = off /\ c.out = "multi" /\ c.cmp = TRUE
<1>4. Fits(c2) /\ Fits(c3) /\ Fits(c4) /\ Fits(c5) /\ Fits(c6) /\ Fits(c7) /\ Fits(c8) /\ Fits(c9)
  BY <1>1, <1>3
<1> HIDE DEF c2, c3, c4, c5, c6, c7, c8, c9
<1>5. s \in Seq(HashCall) /\ Len(s) = 8 /\ s[1] = c1
  BY <1>2, <1>4
<1>6. \A k \in 2 .. 8 : Fits(s[k])
  <2>1. s[2] = c2 /\ s[3] = c3 /\ s[4] = c4 /\ s[5] = c5 /\ s[6] = c6 /\ s[7] = c7 /\ s[8] = c8
    OBVIOUS
  <2>2. \A k \in 2 .. 8 : k = 2 \/ k = 3 \/ k = 4 \/ k = 5 \/ k = 6 \/ k = 7 \/ k = 8
    OBVIOUS
  <2> HIDE DEF s, Fits
  <2> QED BY <1>4, <2>1, <2>2, Zenon
<1> HIDE DEF s
<1>7. Block(s)
  BY <1>2, <1>5, <1>6 DEF Block
<1>8. Block(s \o t)
  <2>1. CASE total <= 512
    <3>1. <<c9>> \in Seq(HashCall) /\ Len(<<c9>>) = 1 /\ <<c9>>[1] = c9
      BY <1>4
    <3> DEFINE u == s \o <<c9>>
    <3>2. /\ u \in Seq(HashCall) /\ Len(u) = 9
          /\ \A k \in 1 .. 9 : u[k] = IF k <= 8 THEN s[k] ELSE <<c9>>[k - 8]
      <4>1. /\ u \in Seq(HashCall) /\ Len(u) = Len(s) + Len(<<c9>>)
            /\ \A k \in 1 .. Len(s) + Len(<<c9>>) : u[k] = IF k <= Len(s) THEN s[k] ELSE <<c9>>[k - Len(s)]
        BY <1>5, <3>1, ConcatProperties, Zenon
      <4> HIDE DEF u
      <4> QED BY <1>5, <3>1, <4>1
    <3> HIDE DEF u
    <3>3. u[1] = c1 /\ \A k \in 2 .. 9 : Fits(u[k])
      <4>1. u[1] = c1 /\ u[9] = c9 /\ \A k \in 2 .. 8 : u[k] = s[k]
        BY <1>5, <3>1, <3>2
      <4> HIDE DEF Fits
      <4>2. \A k \in 2 .. 9 : k \in 2 .. 8 \/ k = 9
        OBVIOUS
      <4> QED BY <1>4, <1>6, <4>1, <4>2
    <3>4. Block(u)
      BY <1>2, <3>2, <3>3 DEF Block
    <3> QED BY <2>1, <3>4 DEF u
  <2>2. CASE ~(total <= 512)
    <3>1. s \o <<>> = s
      BY <1>5, ConcatEmptySeq
    <3> QED BY <1>7, <2>2, <3>1
  <2> QED BY <2>1, <2>2
<1> HIDE DEF t
<1>9. Shape((s \o t) \o Hash!OnAligned("ALIGNED_DMA"))
  BY <1>3, <1>8, BlockShape, AlignedBlock, ShapeConcat
<1>10. Hash!OffsetCalls(total, off) = (s \o t) \o Hash!OnAligned("ALIGNED_DMA")
  BY Zenon DEF Hash!OffsetCalls, s, t, M, c1, c2, c3, c4, c5, c6, c7, c8, c9
<1> QED BY <1>9, <1>10

LEMMA LengthShape ==
  ASSUME NEW total \in Nat PROVE Shape(Hash!LengthCalls(total))
<1> DEFINE a == Hash!Ref(1, FALSE)
           b == Hash!Multi("LARGE_CPU", 1)
<1>1. a \in HashCall /\ a.at = 1 /\ a.out = "ref" /\ a.cmp = FALSE
  BY DEF HashCall, HashModes, Hash!Ref
<1>2. b \in HashCall /\ b.at = 1 /\ b.out = "multi" /\ b.cmp = TRUE
  BY DEF HashCall, HashModes, Hash!Multi
<1>3. Hash!LengthCalls(total) =
        <<a, b>> \o (IF total > 0 THEN Hash!OnAligned("SINGLE_ALIGNED_DMA") \o Hash!OnAligned("MIXED_DMA_CPU")
                     ELSE <<>>)
  BY DEF Hash!LengthCalls
<1> HIDE DEF a, b
<1>4. Shape(<<a, b>>)
  <2>1. Block(<<a, b>>)
    BY <1>1, <1>2 DEF Block
  <2> QED BY <2>1, BlockShape
<1>5. Shape(Hash!OnAligned("SINGLE_ALIGNED_DMA") \o Hash!OnAligned("MIXED_DMA_CPU"))
  <2>1. "SINGLE_ALIGNED_DMA" \in HashModes /\ "MIXED_DMA_CPU" \in HashModes
    BY DEF HashModes
  <2> QED BY <2>1, AlignedBlock, ShapeConcat
<1>6. CASE total > 0
  BY <1>3, <1>4, <1>5, <1>6, ShapeConcat
<1>7. CASE ~(total > 0)
  <2>1. <<a, b>> \in Seq(HashCall)
    BY <1>1, <1>2
  <2>2. <<a, b>> \o <<>> = <<a, b>>
    BY <2>1, ConcatEmptySeq
  <2> QED BY <1>3, <1>4, <1>7, <2>2
<1> QED BY <1>6, <1>7

\* Every suite goes through lists of this shape, for every length and offset.
LEMMA CallsShape ==
  ASSUME NEW suite, NEW total \in Nat, NEW oi \in 1 .. Len(HashOffsets) + 1
  PROVE  Shape(Hash!CallsOf(suite, total, oi))
<1>1. oi <= Len(HashOffsets) => HashOffsets[oi] \in Nat
  <2>1. Len(HashOffsets) \in Nat /\ HashOffsets \in Seq(Nat)
    BY SamplesAssumption, LenProperties
  <2> QED BY <2>1, ElementOfSeq
<1>2. /\ oi <= Len(HashOffsets) => Shape(Hash!OffsetCalls(total, HashOffsets[oi]))
      /\ Shape(Hash!LengthCalls(total))
  BY <1>1, OffsetShape, LengthShape
<1> QED BY <1>2 DEF Hash!CallsOf, Hash!run_test_suite, Hash!run_test_suite_sha512,
     Hash!OffsetCallsSha512, Hash!LengthCallsSha512


----------------------------------------------------------------------------
(***************************************************************************)
(* How the data is cut: every piece has a size, and the functions that     *)
(* update once take all of it.                                             *)
(***************************************************************************)
Sized(P) == \A p \in P : p.size \in Nat

LEMMA PieceSized ==
  ASSUME NEW n \in Nat PROVE Sized(Hash!Piece(n)) /\ \A p \in Hash!Piece(n) : p.size = n
BY DEF Sized, Hash!Piece

LEMMA CycleSized ==
  ASSUME NEW steps \in Seq(Nat), Len(steps) >= 1, NEW s \in Nat
  PROVE  Sized(Hash!Cycle(steps, s))
<1>1. Len(steps) \in Nat
  BY LenProperties
<1>2. (s % Len(steps)) + 1 \in 1 .. Len(steps)
  BY <1>1
<1>3. steps[(s % Len(steps)) + 1] \in Nat
  BY <1>2, ElementOfSeq
<1> QED BY <1>3, PieceSized DEF Hash!Cycle

LEMMA DrawSized ==
  ASSUME NEW max \in Nat, max >= 1, NEW s
  PROVE  /\ Sized(Hash!hash_multi_random_max(max)) /\ Sized(Hash!hash_multi_random_max_sha512(max))
         /\ Sized(Hash!hash_multi_random_zero_splice(max, s))
         /\ Sized(Hash!hash_multi_random_zero_splice_sha512(max, s))
<1>1. \A r \in Draws : (r % max) + 1 \in Nat
  BY SamplesAssumption
<1>2. \A r \in Draws : Sized(Hash!Piece((r % max) + 1))
  BY <1>1, PieceSized
<1>3. Sized(Hash!hash_multi_random_max(max)) /\ Sized(Hash!hash_multi_random_max_sha512(max))
  BY <1>2 DEF Sized, Hash!hash_multi_random_max, Hash!hash_multi_random_max_sha512
<1>4. Sized(Hash!hash_multi_random_zero_splice(max, s))
  BY <1>1 DEF Sized, Hash!hash_multi_random_zero_splice
<1>5. Sized(Hash!hash_multi_random_zero_splice_sha512(max, s))
  BY <1>1 DEF Sized, Hash!hash_multi_random_zero_splice_sha512
<1> QED BY <1>3, <1>4, <1>5

\* The tables of steps.
LEMMA Tables ==
  ASSUME NEW s \in Nat
  PROVE  /\ Sized(Hash!hash_multi_alternating(s)) /\ Sized(Hash!hash_multi_alternating_sha512(s))
         /\ Sized(Hash!hash_multi_boundary(s)) /\ Sized(Hash!hash_multi_boundary_sha512(s))
         /\ Sized(Hash!hash_multi_large_steps(s)) /\ Sized(Hash!hash_multi_large_steps_sha512(s))
         /\ Sized(Hash!hash_mixed_dma_cpu(s)) /\ Sized(Hash!hash_mixed_dma_cpu_sha512(s))
<1>1. ASSUME NEW steps, steps \in Seq(Nat), Len(steps) >= 1 PROVE Sized(Hash!Cycle(steps, s))
  BY <1>1, CycleSized
<1>2. Sized(Hash!hash_multi_alternating(s)) /\ Sized(Hash!hash_multi_alternating_sha512(s))
  <2> DEFINE t == <<1024, 1>>
  <2>1. t \in Seq(Nat) /\ Len(t) >= 1
    OBVIOUS
  <2>2. Hash!hash_multi_alternating(s) = Hash!Cycle(t, s)
        /\ Hash!hash_multi_alternating_sha512(s) = Hash!Cycle(t, s)
    BY DEF Hash!hash_multi_alternating, Hash!hash_multi_alternating_sha512, t
  <2> HIDE DEF t
  <2> QED BY <1>1, <2>1, <2>2
<1>3. Sized(Hash!hash_multi_boundary(s))
  <2> DEFINE t == <<1, 63, 64, 65, 127, 128, 129, 255, 256, 257, 511, 512, 513,
                    1023, 1024, 1025, 2047, 2048, 2049>>
  <2>1. t \in Seq(Nat) /\ Len(t) >= 1
    OBVIOUS
  <2>2. Hash!hash_multi_boundary(s) = Hash!Cycle(t, s)
    BY DEF Hash!hash_multi_boundary, t
  <2> HIDE DEF t
  <2> QED BY <1>1, <2>1, <2>2
<1>4. Sized(Hash!hash_multi_boundary_sha512(s))
  <2> DEFINE t == <<1, 127, 128, 129, 255, 256, 257, 511, 512, 513, 1023, 1024, 1025, 2047, 2048, 2049>>
  <2>1. t \in Seq(Nat) /\ Len(t) >= 1
    OBVIOUS
  <2>2. Hash!hash_multi_boundary_sha512(s) = Hash!Cycle(t, s)
    BY DEF Hash!hash_multi_boundary_sha512, t
  <2> HIDE DEF t
  <2> QED BY <1>1, <2>1, <2>2
<1>5. Sized(Hash!hash_multi_large_steps(s))
  <2> DEFINE t == <<1, 63, 64, 65, 127, 128, 129, 255, 256, 257, 511, 512, 513, 1023, 1024, 1025,
                    2047, 2048, 2049, 4095, 4096, 4097, 8127, 8128, 8129, 8191, 8192, 8193, 16383, 16384>>
  <2>1. t \in Seq(Nat) /\ Len(t) >= 1
    OBVIOUS
  <2>2. Hash!hash_multi_large_steps(s) = Hash!Cycle(t, s)
    BY DEF Hash!hash_multi_large_steps, t
  <2> HIDE DEF t
  <2> QED BY <1>1, <2>1, <2>2
<1>6. Sized(Hash!hash_multi_large_steps_sha512(s))
  <2> DEFINE t == <<1, 127, 128, 129, 255, 256, 257, 511, 512, 513, 1023, 1024, 1025, 2047, 2048, 2049,
                    4095, 4096, 4097, 8127, 8128, 8129, 8191, 8192, 8193, 16383, 16384>>
  <2>1. t \in Seq(Nat) /\ Len(t) >= 1
    OBVIOUS
  <2>2. Hash!hash_multi_large_steps_sha512(s) = Hash!Cycle(t, s)
    BY DEF Hash!hash_multi_large_steps_sha512, t
  <2> HIDE DEF t
  <2> QED BY <1>1, <2>1, <2>2
<1>7. Sized(Hash!hash_mixed_dma_cpu(s)) /\ Sized(Hash!hash_mixed_dma_cpu_sha512(s))
  <2> DEFINE t == <<8192, 63, 8192, 65, 1024, 1, 512, 7, 4096, 31, 2048, 1,
                    8128, 64, 8128, 65, 128, 127, 128, 1>>
  <2>1. t \in Seq(Nat) /\ Len(t) >= 1
    OBVIOUS
  <2>2. Hash!hash_mixed_dma_cpu(s) = Hash!Cycle(t, s) /\ Hash!hash_mixed_dma_cpu_sha512(s) = Hash!Cycle(t, s)
    BY DEF Hash!hash_mixed_dma_cpu, Hash!hash_mixed_dma_cpu_sha512, t
  <2> HIDE DEF t
  <2> QED BY <1>1, <2>1, <2>2
<1> QED BY <1>2, <1>3, <1>4, <1>5, <1>6, <1>7

LEMMA PiecesSized ==
  ASSUME NEW suite, NEW mode \in HashModes, NEW s \in Nat, NEW total \in Nat
  PROVE  /\ Sized(Hash!PiecesOf(suite, mode, s, total))
         /\ Hash!Once(mode) => \A p \in Hash!PiecesOf(suite, mode, s, total) : p.size = total
<1>1. /\ Sized(Hash!Piece(total)) /\ Sized(Hash!Piece(1)) /\ Sized(Hash!Piece(8192))
      /\ \A p \in Hash!Piece(total) : p.size = total
  BY PieceSized
<1>2. /\ Sized(Hash!hash_multi_random_max(64)) /\ Sized(Hash!hash_multi_random_max_sha512(64))
      /\ Sized(Hash!hash_multi_random_max(512)) /\ Sized(Hash!hash_multi_random_max_sha512(512))
      /\ Sized(Hash!hash_multi_random_max(8192)) /\ Sized(Hash!hash_multi_random_max_sha512(8192))
      /\ Sized(Hash!hash_multi_random_zero_splice(512, s))
      /\ Sized(Hash!hash_multi_random_zero_splice_sha512(512, s))
  BY DrawSized
<1>3. Sized(Hash!Pieces256(mode, s, total))
  BY <1>1, <1>2, Tables DEF HashModes, Hash!Pieces256, Hash!hash_ref, Hash!hash_multi_random,
     Hash!hash_multi_tiny, Hash!hash_multi_aligned_dma, Hash!hash_multi_large_cpu,
     Hash!hash_single_aligned_dma
<1>4. Sized(Hash!Pieces512(mode, s, total))
  BY <1>1, <1>2, Tables DEF HashModes, Hash!Pieces512, Hash!hash_ref_sha512,
     Hash!hash_multi_random_sha512, Hash!hash_multi_tiny_sha512, Hash!hash_multi_aligned_dma_sha512,
     Hash!hash_multi_large_cpu_sha512, Hash!hash_single_aligned_dma_sha512
<1>5. Hash!Once(mode) => /\ Hash!Pieces256(mode, s, total) = Hash!Piece(total)
                         /\ Hash!Pieces512(mode, s, total) = Hash!Piece(total)
  <2>1. Hash!Once(mode) => mode = "REF" \/ mode = "SINGLE_ALIGNED_DMA"
    BY DEF Hash!Once
  <2>2. mode = "REF" => Hash!Pieces256(mode, s, total) = Hash!Piece(total)
    BY DEF Hash!Pieces256, Hash!hash_ref
  <2>3. mode = "REF" => Hash!Pieces512(mode, s, total) = Hash!Piece(total)
    BY DEF Hash!Pieces512, Hash!hash_ref_sha512
  <2>4. mode = "SINGLE_ALIGNED_DMA" => Hash!Pieces256(mode, s, total) = Hash!Piece(total)
    BY DEF Hash!Pieces256, Hash!hash_single_aligned_dma
  <2>5. mode = "SINGLE_ALIGNED_DMA" => Hash!Pieces512(mode, s, total) = Hash!Piece(total)
    BY DEF Hash!Pieces512, Hash!hash_single_aligned_dma_sha512
  <2> QED BY <2>1, <2>2, <2>3, <2>4, <2>5
<1> QED BY <1>1, <1>3, <1>4, <1>5 DEF Hash!PiecesOf

----------------------------------------------------------------------------
(***************************************************************************)
(* The hash test: its invariant, stated of a state h of hs.                *)
(***************************************************************************)
SuiteFields == {"pc", "su", "li", "oi", "ci", "off", "s", "msg", "ref", "multi", "ret", "broken"}
TotalOf(h) == HashLengths[h.li]
CallsIn(h) == Hash!CallsOf(Hash!Suites[h.su], TotalOf(h), h.oi)
CallOf(h) == CallsIn(h)[h.ci]

\* The digest of n bytes at at, and the one a call is compared with.
Digest(at, n) == IF n = 0 THEN Hash!Nothing ELSE [from |-> at, n |-> n]
Other(h) == IF CallOf(h).out = "ref" THEN h.multi ELSE h.ref

\* In a suite: what the next comparison is with is the right digest or a wrong
\* one, and a fault that main has not been told of is one that it will find.
InSuite(h) ==
  /\ h.su \in 1 .. 5 /\ h.li \in 1 .. Len(HashLengths) /\ h.oi \in 1 .. Len(HashOffsets) + 1
  /\ h.ci \in 1 .. Len(CallsIn(h))
  /\ CallOf(h).cmp = TRUE =>
       /\ Other(h) \in {Digest(CallOf(h).at, TotalOf(h)), Hash!Wrong}
       /\ Other(h) = Hash!Wrong => h.broken = TRUE
  /\ h.broken = TRUE => h.ret # 0 \/ (CallOf(h).cmp = TRUE /\ Other(h) = Hash!Wrong)

\* In a call: the context has taken in what lies before off, from the start.
InCall(h) ==
  /\ h.s \in Nat /\ h.off \in 0 .. TotalOf(h) /\ h.msg = Digest(CallOf(h).at, h.off)
  /\ Hash!Once(CallOf(h).mode) => (h.s = 0 => h.off = 0) /\ (h.s > 0 => h.off = TotalOf(h))

SuiteInv(h) ==
  /\ DOMAIN h = SuiteFields /\ h.pc \in {"call", "update", "bulk", "done"} /\ h.broken \in BOOLEAN
  /\ h.ret # 0 => h.broken = TRUE
  /\ h.pc \in {"call", "update"} => InSuite(h)
  /\ h.pc = "update" => InCall(h)
  /\ h.pc \in {"bulk", "done"} => (h.broken = TRUE => h.ret # 0)


\* A state in a suite is at a call of a list of the known shape.
LEMMA AtCall ==
  ASSUME NEW h, InSuite(h)
  PROVE  /\ TotalOf(h) \in Nat /\ Shape(CallsIn(h)) /\ CallOf(h) \in HashCall
         /\ Len(CallsIn(h)) \in Nat
<1>1. TotalOf(h) \in Nat
  BY SamplesAssumption, ElementOfSeq DEF InSuite, TotalOf
<1>2. Shape(CallsIn(h))
  BY <1>1, CallsShape DEF InSuite, CallsIn
<1>3. CallsIn(h) \in Seq(HashCall)
  BY <1>2 DEF Shape
<1>4. Len(CallsIn(h)) \in Nat /\ CallOf(h) \in HashCall
  BY <1>3, LenProperties, ElementOfSeq DEF InSuite, CallOf
<1> QED BY <1>1, <1>2, <1>4

\* Two states at the same place with the same digests and verdict.
LEMMA SameSuite ==
  ASSUME NEW h, NEW d, InSuite(h), d.su = h.su, d.li = h.li, d.oi = h.oi, d.ci = h.ci,
         d.ref = h.ref, d.multi = h.multi, d.ret = h.ret, d.broken = h.broken
  PROVE  InSuite(d) /\ TotalOf(d) = TotalOf(h) /\ CallOf(d) = CallOf(h)
<1>1. TotalOf(d) = TotalOf(h) /\ CallsIn(d) = CallsIn(h)
  BY DEF TotalOf, CallsIn
<1>2. CallOf(d) = CallOf(h)
  BY <1>1 DEF CallOf
<1>3. Other(d) = Other(h)
  BY <1>2 DEF Other
<1> QED BY <1>1, <1>2, <1>3 DEF InSuite

\* The first call of a list is not compared: nothing is outstanding there.
LEMMA FirstCall ==
  ASSUME NEW h, h.su \in 1 .. 5, h.li \in 1 .. Len(HashLengths), h.oi \in 1 .. Len(HashOffsets) + 1,
         h.ci = 1, h.broken = TRUE => h.ret # 0
  PROVE  InSuite(h)
<1>1. TotalOf(h) \in Nat
  BY SamplesAssumption, ElementOfSeq DEF TotalOf
<1>2. Shape(CallsIn(h))
  BY <1>1, CallsShape DEF CallsIn
<1>3. CallOf(h).cmp = FALSE /\ h.ci \in 1 .. Len(CallsIn(h))
  <2>1. Len(CallsIn(h)) \in Nat
    BY <1>2, LenProperties DEF Shape
  <2> QED BY <1>2, <2>1 DEF Shape, CallOf
<1> QED BY <1>3 DEF InSuite

\* A suite that ends leaves nothing outstanding, if its result says so.
LEMMA EndsRight ==
  ASSUME NEW r, NEW b \in BOOLEAN, SuiteInv(hs), InSuite(hs),
         (b = TRUE) <=> (r # 0 \/ hs.ret # 0),
         hs' = [Hash!SuiteEnds(r) EXCEPT !.broken = b]
  PROVE  SuiteInv(hs')
<1> DEFINE last == hs.su = Len(Hash!Suites)
           rt == IF r # 0 THEN r ELSE hs.ret
           p == IF last THEN "bulk" ELSE "call"
           u == IF last THEN 1 ELSE hs.su + 1
           d == [hs EXCEPT !.ret = rt, !.pc = p, !.su = u,
                           !.li = 1, !.oi = 1, !.ci = 1, !.off = 0, !.s = 0, !.msg = Hash!Nothing]
<1>1. DOMAIN hs = SuiteFields /\ hs.su \in 1 .. 5
  BY DEF SuiteInv, InSuite
<1>2. Hash!SuiteEnds(r) = d
  BY <1>1 DEF Hash!SuiteEnds, SuiteFields
<1>3. Len(Hash!Suites) = 5
  BY DEF Hash!Suites
<1>4. /\ p \in {"bulk", "call"} /\ (p = "call" => u \in 1 .. 5)
      /\ (rt # 0 <=> b = TRUE)
  BY <1>1, <1>3
<1> HIDE DEF rt, p, u
<1>5. /\ DOMAIN d = SuiteFields /\ d.pc = p /\ d.su = u /\ d.li = 1 /\ d.oi = 1 /\ d.ci = 1
      /\ d.ret = rt
  BY <1>1 DEF SuiteFields
<1> HIDE DEF d
<1>6. /\ DOMAIN hs' = SuiteFields /\ hs'.pc = p /\ hs'.su = u /\ hs'.li = 1 /\ hs'.oi = 1
      /\ hs'.ci = 1 /\ hs'.ret = rt /\ hs'.broken = b
  BY <1>2, <1>5 DEF SuiteFields
<1>7. 1 \in 1 .. Len(HashLengths) /\ 1 \in 1 .. Len(HashOffsets) + 1
  <2>1. Len(HashLengths) \in Nat /\ Len(HashOffsets) \in Nat /\ Len(HashLengths) # 0
    BY SamplesAssumption, LenProperties, EmptySeq
  <2> QED BY <2>1
<1>8. p = "call" => InSuite(hs')
  BY <1>4, <1>6, <1>7, FirstCall
<1> QED BY <1>4, <1>6, <1>8 DEF SuiteInv

LEMMA FailsRight ==
  ASSUME SuiteInv(hs), InSuite(hs), Hash!Fails PROVE SuiteInv(hs')
<1>1. hs' = [Hash!SuiteEnds(-1) EXCEPT !.broken = TRUE]
  BY DEF Hash!Fails
<1>2. -1 # 0
  OBVIOUS
<1>3. (TRUE = TRUE) <=> (-1 # 0 \/ hs.ret # 0)
  BY <1>2
<1>4. TRUE \in BOOLEAN
  OBVIOUS
<1> QED BY <1>1, <1>3, <1>4, EndsRight

LEMMA StartsRight == SuiteInv(hs) /\ Hash!Starts => SuiteInv(hs')
<1> SUFFICES ASSUME SuiteInv(hs), Hash!Starts PROVE SuiteInv(hs')
  OBVIOUS
<1>1. InSuite(hs) /\ DOMAIN hs = SuiteFields
  BY DEF Hash!Starts, SuiteInv
<1>2. CASE Hash!Fails
  BY <1>1, <1>2, FailsRight
<1>3. CASE hs' = [hs EXCEPT !.pc = "update", !.off = 0, !.s = 0, !.msg = Hash!Nothing]
  <2>1. /\ DOMAIN hs' = SuiteFields /\ hs'.pc = "update" /\ hs'.su = hs.su /\ hs'.li = hs.li
        /\ hs'.oi = hs.oi /\ hs'.ci = hs.ci /\ hs'.off = 0 /\ hs'.s = 0 /\ hs'.msg = Hash!Nothing
        /\ hs'.ref = hs.ref /\ hs'.multi = hs.multi /\ hs'.ret = hs.ret /\ hs'.broken = hs.broken
    BY <1>1, <1>3 DEF SuiteFields
  <2>2. InSuite(hs') /\ TotalOf(hs') = TotalOf(hs) /\ TotalOf(hs) \in Nat
    BY <1>1, <2>1, SameSuite, AtCall
  <2>3. InCall(hs')
    BY <2>1, <2>2 DEF InCall, Digest
  <2> QED BY <2>1, <2>2, <2>3 DEF SuiteInv
<1> QED BY <1>2, <1>3 DEF Hash!Starts

\* A context that has taken in off bytes from at on takes in the next n.
LEMMA TakeRight ==
  ASSUME NEW at \in Nat, NEW off \in Nat, NEW n \in Nat
  PROVE  Hash!Take(Digest(at, off), at + off, n) = Digest(at, off + n)
<1> DEFINE m == Digest(at, off)
<1>1. m.n = off /\ (off # 0 => m = [from |-> at, n |-> off])
  BY DEF Digest, Hash!Nothing
<1>2. CASE n = 0
  BY <1>2 DEF Hash!Take
<1>3. CASE n # 0 /\ off = 0
  BY <1>1, <1>3 DEF Hash!Take, Digest
<1>4. CASE n # 0 /\ off # 0
  <2>1. m.from = at /\ [m EXCEPT !.n = m.n + n] = [from |-> at, n |-> off + n]
    BY <1>1, <1>4
  <2> HIDE DEF m
  <2>2. Hash!Take(m, at + off, n) = [from |-> at, n |-> off + n]
    BY <1>1, <1>4, <2>1 DEF Hash!Take
  <2>3. off + n # 0
    BY <1>4
  <2> QED BY <2>2, <2>3 DEF m, Digest
<1> QED BY <1>2, <1>3, <1>4

LEMMA UpdateRight == SuiteInv(hs) /\ Hash!Update => SuiteInv(hs')
<1> SUFFICES ASSUME SuiteInv(hs), Hash!Update PROVE SuiteInv(hs')
  OBVIOUS
<1>1. hs.pc = "update" /\ InSuite(hs) /\ InCall(hs) /\ DOMAIN hs = SuiteFields
  BY DEF Hash!Update, SuiteInv
<1>2. /\ Hash!Total = TotalOf(hs) /\ Hash!Call = CallOf(hs)
  BY DEF Hash!Total, Hash!Call, Hash!Calls, TotalOf, CallOf, CallsIn
<1>3. TotalOf(hs) \in Nat /\ CallOf(hs) \in HashCall
  BY <1>1, AtCall
<1> DEFINE at == CallOf(hs).at
           mode == CallOf(hs).mode
           total == TotalOf(hs)
<1>4. at \in Nat /\ mode \in HashModes /\ hs.s \in Nat /\ hs.off \in 0 .. total
      /\ hs.msg = Digest(at, hs.off)
  BY <1>1, <1>3 DEF HashCall, InCall
<1>5. IF Hash!Once(mode) THEN hs.s = 0 ELSE hs.off < total
  BY <1>2 DEF Hash!Update
<1>6. CASE Hash!Fails
  BY <1>1, <1>6, FailsRight
<1>7. ASSUME NEW q \in Hash!PiecesOf(Hash!Suites[hs.su], Hash!Call.mode, hs.s, Hash!Total),
             LET n == IF q.size > Hash!Total - hs.off THEN Hash!Total - hs.off ELSE q.size
                 m == IF q.zero THEN Hash!Take(hs.msg, Hash!Call.at + hs.off, 0) ELSE hs.msg
             IN  hs' = [hs EXCEPT !.msg = Hash!Take(m, Hash!Call.at + hs.off, n), !.off = @ + n,
                                  !.s = IF Hash!Counts(Hash!Call.mode) THEN @ + 1 ELSE 1]
      PROVE  SuiteInv(hs')
  <2> DEFINE n == IF q.size > total - hs.off THEN total - hs.off ELSE q.size
             m == IF q.zero THEN Hash!Take(hs.msg, at + hs.off, 0) ELSE hs.msg
             mm == Hash!Take(m, at + hs.off, n)
             o == hs.off + n
             t == IF Hash!Counts(mode) THEN hs.s + 1 ELSE 1
  <2>1. q.size \in Nat /\ (Hash!Once(mode) => q.size = total)
    BY <1>2, <1>3, <1>4, PiecesSized DEF Sized
  <2>2. n \in Nat /\ o \in 0 .. total /\ (Hash!Once(mode) => o = total)
    <3>1. Hash!Once(mode) => hs.off = 0
      BY <1>1, <1>5 DEF InCall
    <3> QED BY <1>3, <1>4, <2>1, <3>1
  <2>3. m = hs.msg
    BY DEF Hash!Take
  <2>4. mm = Digest(at, o)
    <3>1. mm = Hash!Take(Digest(at, hs.off), at + hs.off, n)
      BY <1>4, <2>3, Zenon
    <3>2. hs.off \in Nat
      BY <1>3, <1>4
    <3> HIDE DEF n, mm, m, at
    <3> QED BY <1>4, <2>2, <3>1, <3>2, TakeRight
  <2>5. t \in Nat /\ t > 0
    BY <1>4
  <2>6. hs' = [hs EXCEPT !.msg = mm, !.off = o, !.s = t]
    <3>1. hs' = [hs EXCEPT !.msg = mm, !.off = @ + n, !.s = IF Hash!Counts(mode) THEN @ + 1 ELSE 1]
      BY <1>2, <1>7, Zenon
    <3> HIDE DEF n, m, mm
    <3> QED BY <1>1, <3>1 DEF SuiteFields
  <2> HIDE DEF n, m, mm, o, t
  <2>7. /\ DOMAIN hs' = SuiteFields /\ hs'.pc = "update" /\ hs'.su = hs.su /\ hs'.li = hs.li
        /\ hs'.oi = hs.oi /\ hs'.ci = hs.ci /\ hs'.off = o /\ hs'.s = t /\ hs'.msg = mm
        /\ hs'.ref = hs.ref /\ hs'.multi = hs.multi /\ hs'.ret = hs.ret /\ hs'.broken = hs.broken
    BY <1>1, <2>6 DEF SuiteFields
  <2>8. InSuite(hs') /\ TotalOf(hs') = total /\ CallOf(hs') = CallOf(hs)
    BY <1>1, <2>7, SameSuite
  <2>9. InCall(hs')
    BY <2>2, <2>4, <2>5, <2>7, <2>8 DEF InCall
  <2> QED BY <2>7, <2>8, <2>9 DEF SuiteInv
<1> QED BY <1>6, <1>7 DEF Hash!Update


\* A finished call: what it wrote, and what is known of the comparison after it.
LEMMA FinishRight == SuiteInv(hs) /\ Hash!Finish => SuiteInv(hs')
<1> SUFFICES ASSUME SuiteInv(hs), Hash!Finish PROVE SuiteInv(hs')
  OBVIOUS
<1> DEFINE call == CallOf(hs)
           total == TotalOf(hs)
           Cs == CallsIn(hs)
           right == Digest(call.at, total)
           other == Other(hs)
<1>1. /\ hs.pc = "update" /\ InSuite(hs) /\ InCall(hs) /\ DOMAIN hs = SuiteFields
      /\ hs.broken \in BOOLEAN /\ (hs.ret # 0 => hs.broken = TRUE)
  BY DEF Hash!Finish, SuiteInv
<1>2. Hash!Total = total /\ Hash!Call = call /\ Hash!Calls = Cs
  BY DEF Hash!Total, Hash!Call, Hash!Calls, TotalOf, CallOf, CallsIn
<1>3. total \in Nat /\ call \in HashCall /\ Shape(Cs) /\ Len(Cs) \in Nat /\ hs.ci \in 1 .. Len(Cs)
      /\ call = Cs[hs.ci]
  BY <1>1, AtCall DEF InSuite, CallOf
<1>4. call.at \in Nat /\ call.out \in {"ref", "multi"} /\ call.cmp \in BOOLEAN
  BY <1>3 DEF HashCall
<1>5. hs.msg = right
  <2>1. IF Hash!Once(call.mode) THEN hs.s > 0 ELSE hs.off >= total
    BY <1>2 DEF Hash!Finish
  <2>2. hs.off = total
    BY <1>1, <1>3, <2>1 DEF InCall
  <2> QED BY <1>1, <2>2 DEF InCall
<1>6. right # Hash!Wrong
  BY <1>3, <1>4 DEF Digest, Hash!Nothing, Hash!Wrong
<1>7. /\ call.cmp = TRUE => /\ other \in {right, Hash!Wrong}
                            /\ other = Hash!Wrong => hs.broken = TRUE
      /\ hs.broken = TRUE => hs.ret # 0 \/ (call.cmp = TRUE /\ other = Hash!Wrong)
  BY <1>1 DEF InSuite
<1>8. CASE Hash!Fails
  BY <1>1, <1>8, FailsRight
<1>9. ASSUME NEW digest \in {hs.msg, Hash!Wrong},
             LET done == [hs EXCEPT ![Hash!Call.out] = digest, !.broken = @ \/ digest = Hash!Wrong]
                 last == hs.ci = Len(Hash!Calls)
                 through == last /\ hs.oi > Len(HashOffsets)
                 differ == Hash!Call.cmp /\ (done.ref # done.multi \/ Hash!Wrong \in {done.ref, done.multi})
             IN  hs' = IF differ THEN [Hash!SuiteEnds(-1) EXCEPT !.broken = done.broken]
                       ELSE IF through /\ hs.li = Len(HashLengths)
                            THEN [Hash!SuiteEnds(0) EXCEPT !.broken = done.broken]
                       ELSE [done EXCEPT !.pc = "call", !.ci = IF last THEN 1 ELSE @ + 1,
                                         !.oi = IF through THEN 1 ELSE IF last THEN @ + 1 ELSE @,
                                         !.li = IF through THEN @ + 1 ELSE @,
                                         !.off = 0, !.s = 0, !.msg = Hash!Nothing]
      PROVE  SuiteInv(hs')
  <2> DEFINE b == hs.broken \/ digest = Hash!Wrong
             done == [hs EXCEPT ![call.out] = digest, !.broken = b]
             last == hs.ci = Len(Cs)
             through == last /\ hs.oi > Len(HashOffsets)
             differ == call.cmp /\ (done.ref # done.multi \/ Hash!Wrong \in {done.ref, done.multi})
             c1 == IF last THEN 1 ELSE hs.ci + 1
             o1 == IF through THEN 1 ELSE IF last THEN hs.oi + 1 ELSE hs.oi
             l1 == IF through THEN hs.li + 1 ELSE hs.li
             d == [done EXCEPT !.pc = "call", !.ci = c1, !.oi = o1, !.li = l1,
                               !.off = 0, !.s = 0, !.msg = Hash!Nothing]
  <2>1. /\ DOMAIN done = SuiteFields /\ done.su = hs.su /\ done.li = hs.li /\ done.oi = hs.oi
        /\ done.ci = hs.ci /\ done.ret = hs.ret /\ done.broken = b
        /\ call.out = "ref" => done.ref = digest /\ done.multi = other
        /\ call.out = "multi" => done.multi = digest /\ done.ref = other
    <3>1. CASE call.out = "ref"
      BY <1>1, <3>1 DEF SuiteFields, Other
    <3>2. CASE call.out = "multi"
      BY <1>1, <3>2 DEF SuiteFields, Other
    <3> QED BY <1>4, <3>1, <3>2
  <2>2. hs' = IF differ THEN [Hash!SuiteEnds(-1) EXCEPT !.broken = b]
              ELSE IF through /\ hs.li = Len(HashLengths) THEN [Hash!SuiteEnds(0) EXCEPT !.broken = b]
              ELSE d
    <3> DEFINE done0 == [hs EXCEPT ![Hash!Call.out] = digest, !.broken = @ \/ digest = Hash!Wrong]
               last0 == hs.ci = Len(Hash!Calls)
               through0 == last0 /\ hs.oi > Len(HashOffsets)
               differ0 == Hash!Call.cmp
                          /\ (done0.ref # done0.multi \/ Hash!Wrong \in {done0.ref, done0.multi})
    <3>1. done0 = done
      <4>1. CASE call.out = "ref"
        BY <1>1, <1>2, <4>1 DEF SuiteFields
      <4>2. CASE call.out = "multi"
        BY <1>1, <1>2, <4>2 DEF SuiteFields
      <4> QED BY <1>4, <4>1, <4>2
    <3>2. hs' = IF differ THEN [Hash!SuiteEnds(-1) EXCEPT !.broken = done.broken]
                ELSE IF through /\ hs.li = Len(HashLengths)
                     THEN [Hash!SuiteEnds(0) EXCEPT !.broken = done.broken]
                ELSE [done EXCEPT !.pc = "call", !.ci = IF last THEN 1 ELSE @ + 1,
                                  !.oi = IF through THEN 1 ELSE IF last THEN @ + 1 ELSE @,
                                  !.li = IF through THEN @ + 1 ELSE @,
                                  !.off = 0, !.s = 0, !.msg = Hash!Nothing]
      <4>1. hs' = IF differ0 THEN [Hash!SuiteEnds(-1) EXCEPT !.broken = done0.broken]
                  ELSE IF through0 /\ hs.li = Len(HashLengths)
                       THEN [Hash!SuiteEnds(0) EXCEPT !.broken = done0.broken]
                  ELSE [done0 EXCEPT !.pc = "call", !.ci = IF last0 THEN 1 ELSE @ + 1,
                                    !.oi = IF through0 THEN 1 ELSE IF last0 THEN @ + 1 ELSE @,
                                    !.li = IF through0 THEN @ + 1 ELSE @,
                                    !.off = 0, !.s = 0, !.msg = Hash!Nothing]
        BY <1>9, Zenon
      <4> HIDE DEF done, done0
      <4>2. (last0 <=> last) /\ (through0 <=> through) /\ (differ0 <=> differ)
        BY <1>2, <3>1
      <4> HIDE DEF last, last0, through, through0, differ, differ0
      <4> QED BY <3>1, <4>1, <4>2
    <3>3. [done EXCEPT !.pc = "call", !.ci = IF last THEN 1 ELSE @ + 1,
                       !.oi = IF through THEN 1 ELSE IF last THEN @ + 1 ELSE @,
                       !.li = IF through THEN @ + 1 ELSE @,
                       !.off = 0, !.s = 0, !.msg = Hash!Nothing] = d
      <4> HIDE DEF done, last, through
      <4> QED BY <2>1 DEF SuiteFields
    <3> HIDE DEF done, d, last, through, b
    <3> QED BY <2>1, <3>2, <3>3
  <2> HIDE DEF done
  <2>3. b \in BOOLEAN /\ (b = TRUE <=> (hs.broken = TRUE \/ digest = Hash!Wrong))
        /\ digest \in {right, Hash!Wrong}
    BY <1>1, <1>5
  <2> HIDE DEF b, right, other, call, total, Cs
  <2>4. differ => b = TRUE /\ call.cmp = TRUE
    BY <1>4, <1>6, <1>7, <2>1, <2>3
  <2>5. ~differ /\ call.cmp = TRUE =>
          /\ done.ref = right /\ done.multi = right /\ digest # Hash!Wrong
          /\ (b = TRUE => hs.ret # 0)
    BY <1>4, <1>6, <1>7, <2>1, <2>3
  <2>6. last => call.cmp = TRUE
    BY <1>3 DEF Shape
  <2>7. CASE differ
    <3>1. hs' = [Hash!SuiteEnds(-1) EXCEPT !.broken = b]
      BY <2>2, <2>7
    <3>2. (b = TRUE) <=> (-1 # 0 \/ hs.ret # 0)
      BY <2>4, <2>7
    <3> QED BY <1>1, <2>3, <3>1, <3>2, EndsRight
  <2>8. CASE ~differ /\ through /\ hs.li = Len(HashLengths)
    <3>1. hs' = [Hash!SuiteEnds(0) EXCEPT !.broken = b]
      BY <2>2, <2>8
    <3>2. (b = TRUE) <=> (0 # 0 \/ hs.ret # 0)
      BY <1>1, <2>3, <2>5, <2>6, <2>8
    <3> QED BY <1>1, <2>3, <3>1, <3>2, EndsRight
  <2>9. CASE ~differ /\ ~(through /\ hs.li = Len(HashLengths))
    <3>1. hs' = d
      BY <2>2, <2>9
    <3> HIDE DEF c1, o1, l1
    <3>2. /\ DOMAIN hs' = SuiteFields /\ hs'.pc = "call" /\ hs'.su = hs.su /\ hs'.li = l1
          /\ hs'.oi = o1 /\ hs'.ci = c1 /\ hs'.ref = done.ref /\ hs'.multi = done.multi
          /\ hs'.ret = hs.ret /\ hs'.broken = b
      BY <2>1, <3>1 DEF SuiteFields
    <3>3. hs.su \in 1 .. 5 /\ hs.li \in 1 .. Len(HashLengths) /\ hs.oi \in 1 .. Len(HashOffsets) + 1
      BY <1>1 DEF InSuite
    <3>4. CASE last
      <4>1. c1 = 1
        BY <3>4 DEF c1
      <4>2. Len(HashLengths) \in Nat /\ Len(HashOffsets) \in Nat
        BY SamplesAssumption, LenProperties
      <4>3. l1 \in 1 .. Len(HashLengths) /\ o1 \in 1 .. Len(HashOffsets) + 1
        <5>1. CASE through
          BY <2>9, <3>3, <4>2, <5>1 DEF l1, o1
        <5>2. CASE ~through
          BY <3>3, <3>4, <4>2, <5>2 DEF l1, o1
        <5> QED BY <5>1, <5>2
      <4>4. InSuite(hs')
        BY <2>5, <2>6, <2>9, <3>2, <3>3, <3>4, <4>1, <4>3, FirstCall
      <4> QED BY <1>1, <2>3, <3>2, <4>4 DEF SuiteInv
    <3>5. CASE ~last
      <4>1. c1 = hs.ci + 1 /\ o1 = hs.oi /\ l1 = hs.li
        BY <3>5 DEF c1, o1, l1
      <4>2. hs.ci \in 1 .. Len(Cs) - 1 /\ c1 \in 1 .. Len(Cs)
        BY <1>3, <3>5, <4>1
      <4>3. TotalOf(hs') = total /\ CallsIn(hs') = Cs
        BY <3>2, <4>1 DEF TotalOf, CallsIn, total, Cs
      <4>4. CallOf(hs') = Cs[hs.ci + 1]
        BY <3>2, <4>1, <4>3 DEF CallOf
      <4> DEFINE next == Cs[hs.ci + 1]
      <4>5. /\ next.cmp = TRUE => next.at = call.at
            /\ call.cmp = FALSE => next.cmp = TRUE /\ next.out # call.out
        BY <1>3, <4>2 DEF Shape
      <4>6. next \in HashCall
        BY <1>3, <4>1, <4>2, ElementOfSeq DEF Shape
      <4>7. next.out \in {"ref", "multi"}
        BY <4>6 DEF HashCall
      <4> HIDE DEF next
      <4>8. Other(hs') = IF next.out = "ref" THEN done.multi ELSE done.ref
        BY <3>2, <4>4 DEF Other, next
      <4>9. /\ next.cmp = TRUE =>
                 /\ Other(hs') \in {right, Hash!Wrong}
                 /\ Other(hs') = Hash!Wrong => b = TRUE
            /\ b = TRUE => hs.ret # 0 \/ (next.cmp = TRUE /\ Other(hs') = Hash!Wrong)
        <5>1. CASE call.cmp = TRUE
          BY <1>6, <2>5, <2>9, <4>7, <4>8, <5>1
        <5>2. CASE call.cmp = FALSE
          <6>1. Other(hs') = digest
            BY <1>4, <2>1, <4>5, <4>7, <4>8, <5>2
          <6> QED BY <1>7, <2>3, <4>5, <5>2, <6>1
        <5> QED BY <1>4, <5>1, <5>2
      <4>10. next.cmp = TRUE => Digest(next.at, total) = right
        BY <4>5 DEF right
      <4>11. InSuite(hs')
        BY <3>2, <3>3, <4>1, <4>2, <4>3, <4>4, <4>9, <4>10 DEF InSuite, next
      <4> QED BY <1>1, <2>3, <3>2, <4>11 DEF SuiteInv
    <3> QED BY <3>4, <3>5
  <2> QED BY <2>7, <2>8, <2>9
<1> QED BY <1>8, <1>9 DEF Hash!Finish

LEMMA BulkRight == SuiteInv(hs) /\ Hash!Bulk => SuiteInv(hs')
<1> SUFFICES ASSUME SuiteInv(hs), Hash!Bulk PROVE SuiteInv(hs')
  OBVIOUS
<1>1. DOMAIN hs = SuiteFields /\ hs.pc = "bulk"
  BY DEF SuiteInv, Hash!Bulk
<1>2. \/ hs' = [hs EXCEPT !.su = hs.su + 1]
      \/ hs' = [hs EXCEPT !.su = hs.su + 1, !.pc = IF hs.su = 3 THEN "done" ELSE hs.pc]
  <2>1. \/ hs' = [hs EXCEPT !.su = @ + 1]
        \/ hs' = [hs EXCEPT !.su = @ + 1, !.pc = IF hs.su = 3 THEN "done" ELSE @]
    BY Zenon DEF Hash!Bulk, Hash!print_bulk_single_dma, Hash!print_bulk_single_dma_sha512
  <2> QED BY <1>1, <2>1 DEF SuiteFields
<1>3. /\ DOMAIN hs' = SuiteFields /\ hs'.pc \in {"bulk", "done"} /\ hs'.ret = hs.ret
      /\ hs'.broken = hs.broken
  BY <1>1, <1>2 DEF SuiteFields
<1> QED BY <1>1, <1>3 DEF SuiteInv

LEMMA SuiteStep == SuiteInv(hs) /\ [Hash!Next]_hs => SuiteInv(hs')
<1> SUFFICES ASSUME SuiteInv(hs), [Hash!Next]_hs PROVE SuiteInv(hs')
  OBVIOUS
<1>1. CASE UNCHANGED hs
  BY <1>1
<1> QED BY <1>1, StartsRight, UpdateRight, FinishRight, BulkRight, Zenon DEF Hash!Next

LEMMA SuiteStarts == Hash!Init => SuiteInv(hs)
<1> SUFFICES ASSUME Hash!Init PROVE SuiteInv(hs)
  OBVIOUS
<1>1. /\ DOMAIN hs = SuiteFields /\ hs.pc = "call" /\ hs.su = 1 /\ hs.li = 1 /\ hs.oi = 1
      /\ hs.ci = 1 /\ hs.ret = 0 /\ hs.broken = FALSE
  BY DEF Hash!Init, SuiteFields
<1>2. 1 \in 1 .. Len(HashLengths) /\ 1 \in 1 .. Len(HashOffsets) + 1 /\ 1 \in 1 .. 5
  <2>1. Len(HashLengths) \in Nat /\ Len(HashOffsets) \in Nat /\ Len(HashLengths) # 0
    BY SamplesAssumption, LenProperties, EmptySeq
  <2> QED BY <2>1
<1>3. InSuite(hs)
  BY <1>1, <1>2, FirstCall
<1> QED BY <1>1, <1>3 DEF SuiteInv

\* mbedtls_hash: main returns an error exactly if a library call of a suite failed
\* or a digest was wrong, for every table of lengths and offsets and whatever
\* the random generator draws.
THEOREM VerdictIsTrue == SamplesSpec => []Hash!VerdictTells
<1>1. SamplesInit => SuiteInv(hs)
  BY SuiteStarts DEF SamplesInit
<1>2. SuiteInv(hs) /\ [SamplesNext]_samplesVars => SuiteInv(hs)'
  <2>1. [SamplesNext]_samplesVars => [Hash!Next]_hs
    BY DEF SamplesNext, samplesVars
  <2> QED BY <2>1, SuiteStep
<1>3. SuiteInv(hs) => Hash!VerdictTells
  BY DEF SuiteInv, Hash!VerdictTells
<1> QED BY <1>1, <1>2, <1>3, PTL DEF SamplesSpec

\* The hash and cipher programs together: whatever an engine or the library gets wrong
\* where they look is in what they report, and mbedtls_hash reports nothing else.
THEOREM FaultsAreReported == SamplesSpec => []FaultsReported
BY VerdictIsTrue, WrongIsReported, PTL DEF FaultsReported

----------------------------------------------------------------------------
(***************************************************************************)
(* The test programs: what main does with what the functions return.       *)
(***************************************************************************)
\* A list of calls that are handled in one of the ways of S, but for those of the
\* functions T; none is the test that returns 0 whatever happened.
Handled(s, S, T) ==
  \E X : s \in Seq(X) /\ \A x \in X : (x.on \in S \/ x.fn \in T) /\ x.fn \notin Quiet

LEMMA HandledIntro ==
  ASSUME NEW S, NEW T, NEW X, NEW s \in Seq(X), \A x \in X : (x.on \in S \/ x.fn \in T) /\ x.fn \notin Quiet
  PROVE  Handled(s, S, T)
  BY DEF Handled

LEMMA HandledConcat ==
  ASSUME NEW S, NEW T, NEW s, NEW t, Handled(s, S, T), Handled(t, S, T) PROVE Handled(s \o t, S, T)
<1>1. PICK X : s \in Seq(X) /\ \A x \in X : (x.on \in S \/ x.fn \in T) /\ x.fn \notin Quiet
  BY DEF Handled
<1>2. PICK Y : t \in Seq(Y) /\ \A x \in Y : (x.on \in S \/ x.fn \in T) /\ x.fn \notin Quiet
  BY DEF Handled
<1>3. s \in Seq(X \cup Y) /\ t \in Seq(X \cup Y)
  BY <1>1, <1>2
<1>4. s \o t \in Seq(X \cup Y)
  BY <1>3, ConcatProperties
<1>5. \A x \in X \cup Y : (x.on \in S \/ x.fn \in T) /\ x.fn \notin Quiet
  BY <1>1, <1>2
<1> QED BY <1>4, <1>5 DEF Handled

LEMMA HandledCall ==
  ASSUME NEW S, NEW T, NEW fn, NEW code, NEW on, on \in S \/ fn \in T, fn \notin Quiet
  PROVE  Handled(Call(fn, code, on), S, T)
<1> DEFINE c == [fn |-> fn, code |-> code, on |-> on]
           s == <<c>>
<1>1. (c.on \in S \/ c.fn \in T) /\ c.fn \notin Quiet /\ Call(fn, code, on) = s
  BY DEF Call
<1> HIDE DEF c
<1>2. s \in Seq({c})
  OBVIOUS
<1> HIDE DEF s
<1>3. \A x \in {c} : (x.on \in S \/ x.fn \in T) /\ x.fn \notin Quiet
  BY <1>1
<1>4. Handled(s, S, T)
  BY <1>2, <1>3, HandledIntro
<1> QED BY <1>1, <1>4

LEMMA HandledIf ==
  ASSUME NEW S, NEW T, NEW cond, NEW s, Handled(s, S, T) PROVE Handled(If(cond, s), S, T)
<1> DEFINE none == <<>>
           X == {}
<1>1. none \in Seq(X) /\ \A x \in X : (x.on \in S \/ x.fn \in T) /\ x.fn \notin Quiet
  OBVIOUS
<1> HIDE DEF none, X
<1>2. Handled(none, S, T)
  BY <1>1, HandledIntro
<1>3. Handled(<<>>, S, T)
  BY <1>2 DEF none
<1>4. CASE cond
  BY <1>4 DEF If
<1>5. CASE ~cond
  BY <1>3, <1>5 DEF If
<1> QED BY <1>4, <1>5

LEMMA HandledElement ==
  ASSUME NEW S, NEW T, NEW s, Handled(s, S, T)
  PROVE  Len(s) \in Nat /\ \A k \in 1 .. Len(s) : (s[k].on \in S \/ s[k].fn \in T) /\ s[k].fn \notin Quiet
<1>1. PICK X : s \in Seq(X) /\ \A x \in X : (x.on \in S \/ x.fn \in T) /\ x.fn \notin Quiet
  BY DEF Handled
<1>2. Len(s) \in Nat /\ \A k \in 1 .. Len(s) : s[k] \in X
  BY <1>1, LenProperties, ElementOfSeq
<1> QED BY <1>1, <1>2

LEMMA HandledLoop == Handled(TestLoop, {"count", "run"}, {})
<1> DEFINE fst(k) == [fn |-> "sha384_test_once",
                      code |-> sha384_test_once(Lengths[(k + 1) \div 2]), on |-> "count"]
           snd(k) == [fn |-> "sha512_test_once",
                      code |-> sha512_test_once(Lengths[(k + 1) \div 2]), on |-> "count"]
           n == 2 * Len(Lengths)
           X == {TestLoop[k] : k \in 1 .. n}
<1>1. n \in Nat
  BY SamplesAssumption, LenProperties
<1>2. TestLoop = [k \in 1 .. n |-> IF k % 2 = 1 THEN fst(k) ELSE snd(k)]
  BY Zenon DEF TestLoop
<1>3. \A k \in 1 .. n : fst(k).on = "count" /\ fst(k).fn = "sha384_test_once"
                        /\ snd(k).on = "count" /\ snd(k).fn = "sha512_test_once"
  OBVIOUS
<1> HIDE DEF fst, snd, n
<1>4. \A k \in 1 .. n : TestLoop[k].on = "count"
                        /\ TestLoop[k].fn \in {"sha384_test_once", "sha512_test_once"}
  BY <1>2, <1>3
<1>5. TestLoop \in [1 .. n -> X]
  BY <1>2
<1>6. TestLoop \in Seq(X)
  <2> HIDE DEF X
  <2> QED BY <1>1, <1>5
<1>7. \A x \in X : x.on \in {"count", "run"} /\ x.fn \notin Quiet
  BY <1>4 DEF Quiet
<1> HIDE DEF X
<1> QED BY <1>6, <1>7 DEF Handled

\* Of the calls of the alignment test every failure is counted or stops the program;
\* of those of the wolfSSL rates, counted.
LEMMA AlignmentHandled ==
  ASSUME NEW build PROVE Handled(MainAlignment(build), {"count", "run"}, {})
<1> DEFINE S == {"count", "run"}
           H(s) == Handled(s, S, {})
<1>1. "sha384_test_once" \notin Quiet /\ "interleaved" \notin Quiet /\ "api" \notin Quiet
      /\ "transform" \notin Quiet /\ "cross_algo" \notin Quiet /\ "count" \in S /\ "run" \in S
  BY DEF Quiet
<1>2. H(TestLoop)
  BY HandledLoop
<1> HIDE DEF S
<1>3. \A code : H(Call("interleaved", code, "count"))
  BY <1>1, HandledCall
<1>4. ASSUME NEW fn \in {"api", "transform", "cross_algo"}
      PROVE  \A b, needs, code : H(ApiTest(b, needs, fn, code)) /\ H(run_test(fn, code))
  <2>1. \A code : H(Call(fn, code, "run"))
    BY <1>1, HandledCall
  <2> QED BY <2>1 DEF ApiTest, run_test
<1>5. \A s, t : H(s) /\ H(t) => H(s \o t)
  BY HandledConcat
<1>6. \A c, s : H(s) => H(If(c, s))
  BY HandledIf
<1> HIDE DEF H
<1> DEFINE inter == Call("interleaved", interleaved_sha224_test, "count")
                    \o Call("interleaved", interleaved_sha256_test, "count")
                    \o If("mbedtls_sm3_otbn" \in build, Call("interleaved", interleaved_sm3_test, "count"))
                    \o Call("interleaved", interleaved_sha384_test, "count")
                    \o Call("interleaved", interleaved_sha512_test, "count")
           apis == ApiTest(build, {"sha224"}, "api", sha224_api_test)
           api256 == run_test("api", sha256_api_test)
           api384 == ApiTest(build, {"sha512"}, "api", sha384_api_test)
           api512 == ApiTest(build, {"sha512"}, "api", sha512_api_test)
           trans == ApiTest(build, {"openssl"}, "transform", transform_api_test)
           sm3 == ApiTest(build, {"sm3"}, "cross_algo", cross_algo_sm3_256_test)
                  \o ApiTest(build, {"sm3", "sha512"}, "cross_algo", cross_algo_sm3_512_test)
           cross == ApiTest(build, {"sha224"}, "cross_algo", cross_algo_224_256_test)
                    \o ApiTest(build, {"sha224", "sha512"}, "cross_algo", cross_algo_224_384_test)
                    \o ApiTest(build, {"sha512"}, "cross_algo", cross_algo_256_384_test)
                    \o ApiTest(build, {"sha512"}, "cross_algo", cross_algo_256_512_test)
                    \o ApiTest(build, {"sha512"}, "cross_algo", cross_algo_384_512_test)
                    \o ApiTest(build, {"sha224", "sha512"}, "cross_algo", cross_algo_224_512_test)
                    \o If("mbedtls_sm3_otbn" \in build, sm3)
<1>7. H(inter)
  BY <1>3, <1>5, <1>6
<1>8. H(apis) /\ H(api256) /\ H(api384) /\ H(api512) /\ H(trans)
  BY <1>4
<1>9. H(cross)
  <2>1. \A needs, code : H(ApiTest(build, needs, "cross_algo", code))
    BY <1>4
  <2>2. H(If("mbedtls_sm3_otbn" \in build, sm3))
    BY <1>5, <1>6, <2>1
  <2> HIDE DEF sm3
  <2> QED BY <1>5, <2>1, <2>2
<1>10. MainAlignment(build) =
         TestLoop \o If("wolf_hw" \notin build, inter) \o apis \o api256 \o api384 \o api512 \o trans
         \o If("wolf_hw" \notin build, cross)
  BY Zenon DEF MainAlignment
<1> HIDE DEF inter, apis, api256, api384, api512, trans, cross
<1>11. H(MainAlignment(build))
  BY <1>2, <1>5, <1>6, <1>7, <1>8, <1>9, <1>10
<1> QED BY <1>11 DEF H, S

LEMMA WolfsslHandled ==
  ASSUME NEW build PROVE Handled(MainWolfssl(build), {"count"}, {})
<1> DEFINE S == {"count"}
           H(s) == Handled(s, S, {})
<1>1. "wolfssl" \notin Quiet /\ "count" \in S
  BY DEF Quiet
<1> HIDE DEF S
<1>2. \A code : H(Call("wolfssl", code, "count"))
  BY <1>1, HandledCall
<1>3. \A s, t : H(s) /\ H(t) => H(s \o t)
  BY HandledConcat
<1>4. \A c, s : H(s) => H(If(c, s))
  BY HandledIf
<1> HIDE DEF H
<1> DEFINE ecb == Call("wolfssl", run_aesecb_key_size("key128"), "count")
                  \o Call("wolfssl", run_aesecb_key_size("key256"), "count")
           gcm == Call("wolfssl", run_aesgcm_key_size("key128"), "count")
                  \o Call("wolfssl", run_aesgcm_key_size("key256"), "count")
<1>5. H(ecb) /\ H(gcm)
  BY <1>2, <1>3
<1>6. MainWolfssl(build) = gcm \o If("aes_ecb" \in build, ecb)
  BY Zenon DEF MainWolfssl
<1> HIDE DEF ecb, gcm
<1>7. H(MainWolfssl(build))
  BY <1>3, <1>4, <1>5, <1>6
<1> QED BY <1>7 DEF H, S

\* mbedtls_test stops at the first failure, but for that of the test of SHA-224 where
\* the engine has none.
LEMMA TestHandled ==
  ASSUME NEW build PROVE Handled(MainTest(build), {"stop"}, Excused("mbedtls_test", build))
<1> DEFINE S == {"stop"}
           T == Excused("mbedtls_test", build)
           H(s) == Handled(s, S, T)
<1>1. "stop" \in S /\ ("mbedtls_sm3_otbn" \in build => "test_sha224" \in T)
  BY DEF Excused
<1> HIDE DEF S, T
<1>2. \A fn, code : fn \notin Quiet => H(Call(fn, code, "stop"))
  BY <1>1, HandledCall
<1>3. \A s, t : H(s) /\ H(t) => H(s \o t)
  BY HandledConcat
<1>4. \A c, s : H(s) => H(If(c, s))
  BY HandledIf
<1>5. \A code : H(Call("test_sha224", code, IF "mbedtls_sm3_otbn" \in build THEN "ignore" ELSE "stop"))
  <2>1. "test_sha224" \notin Quiet
    BY DEF Quiet
  <2> QED BY <1>1, <2>1, HandledCall
<1> HIDE DEF H
<1> DEFINE sm2 == Call("ecdsa_test", ecdsa_test, "stop")
           s224 == Call("test_sha224", test_sha224,
                        IF "mbedtls_sm3_otbn" \in build THEN "ignore" ELSE "stop")
           s256 == Call("test_sha256", test_sha256, "stop")
           s3 == Call("test_sm3", test_sm3, "stop")
           dma == Call("dma", test_sha224_dma, "stop") \o Call("dma", test_sha256_dma, "stop")
                  \o Call("dma", test_sm3_dma, "stop")
                  \o Call("various", test_sha256_various_lengths, "stop")
           s384 == Call("test_sha384", test_sha384, "stop")
           s512 == Call("test_sha512", test_sha512, "stop")
           rsa == Call("test_rsa", test_rsa, "stop")
<1>6. /\ "ecdsa_test" \notin Quiet /\ "test_sha256" \notin Quiet /\ "test_sm3" \notin Quiet
      /\ "dma" \notin Quiet /\ "various" \notin Quiet /\ "test_sha384" \notin Quiet
      /\ "test_sha512" \notin Quiet /\ "test_rsa" \notin Quiet
  BY DEF Quiet
<1>7. H(sm2) /\ H(s224) /\ H(s256) /\ H(s3) /\ H(s384) /\ H(s512) /\ H(rsa)
  BY <1>2, <1>5, <1>6, Zenon
<1>8. H(dma)
  BY <1>2, <1>3, <1>6
<1>9. MainTest(build) =
        If("ecdsa_otbn" \in build, sm2) \o s224 \o s256 \o s3 \o If("hash_hw" \in build, dma)
        \o s384 \o s512 \o If("rsa_otbn" \in build, rsa)
  BY Zenon DEF MainTest
<1> HIDE DEF sm2, s224, s256, s3, dma, s384, s512, rsa
<1>10. H(MainTest(build))
  BY <1>3, <1>4, <1>7, <1>8, <1>9
<1> QED BY <1>10 DEF H, S, T

----------------------------------------------------------------------------
\* What main keeps over the calls.  While a function runs there is a call to go back
\* to; a fault that a function has told main of shows in main's counters, or has
\* stopped mbedtls_test; "passed" is the last word.
MainFields == DOMAIN Frame \cup {"prog", "build", "at", "failures", "skips", "said", "spoilt"}

Settled(c) ==
  /\ c.prog = "alignment" /\ c.spoilt # {} => c.failures + c.skips > 0
  /\ c.prog = "wolfssl" /\ c.spoilt # {} => c.failures > 0
  /\ c.prog = "mbedtls_test" => c.spoilt \subseteq Excused(c.prog, c.build)

Justified(c) ==
  /\ c.phase = "done" /\ c.prog \in {"alignment", "wolfssl", "mbedtls_test"}
  /\ c.prog = "alignment" => c.failures = 0 /\ c.skips = 0
  /\ c.prog = "wolfssl" => c.failures = 0

MainInv(c) ==
  /\ DOMAIN c = MainFields
  /\ c.prog \in ProgramNames /\ c.build \in Builds
  /\ c.at \in Nat \ {0} /\ c.failures \in Nat /\ c.skips \in Nat /\ c.ret \in {-1, 0, 1}
  /\ c.phase \in {"exit", "returned"} => c.at <= Len(Programs[c.prog][c.build])
  /\ Settled(c)
  /\ c.said = "passed" => Justified(c)

LEMMA MainInvRight == ASSUME MainInv(ct) PROVE PassedMeansRight
<1> SUFFICES ASSUME ct.said = "passed" PROVE ct.spoilt \subseteq Excused(ct.prog, ct.build)
  BY Zenon DEF PassedMeansRight
<1>1. Settled(ct) /\ Justified(ct)
  BY Zenon DEF MainInv
<1>2. CASE ct.prog = "mbedtls_test"
  BY <1>1, <1>2, Zenon DEF Settled
<1>3. CASE ct.prog # "mbedtls_test"
  <2>1. ct.spoilt = {}
    BY <1>1, <1>3, SMT DEF Settled, Justified
  <2> QED BY <2>1
<1> QED BY <1>2, <1>3

\* A step within a function leaves alone what main keeps.
LEMMA MainKept ==
  ASSUME NEW c, NEW d, MainInv(c), c.phase # "done",
         DOMAIN d = DOMAIN c, d.prog = c.prog, d.build = c.build, d.at = c.at,
         d.failures = c.failures, d.skips = c.skips, d.said = c.said, d.spoilt = c.spoilt,
         d.ret \in {-1, 0, 1},
         d.phase \in {"exit", "returned"} => c.at <= Len(Programs[c.prog][c.build])
  PROVE  MainInv(d)
<1>1. Settled(d)
  BY Zenon DEF MainInv, Settled
<1>2. d.said # "passed"
  BY Zenon DEF MainInv, Justified
<1> QED BY <1>1, <1>2, Zenon DEF MainInv

LEMMA FrameFields ==
  /\ MainFields = {"phase", "pc", "live", "known", "ctx", "buf", "faults", "bad", "ret", "todo",
                   "misuse", "prog", "build", "at", "failures", "skips", "said", "spoilt"}
  /\ DOMAIN Frame = {"phase", "pc", "live", "known", "ctx", "buf", "faults", "bad", "ret", "todo",
                     "misuse"}
  /\ Frame.phase = "run" /\ Frame.ret = 0
  BY DEF MainFields, Frame

LEMMA CallsOf ==
  ASSUME MainInv(ct) PROVE Calls = Programs[ct.prog][ct.build] /\ Here = Calls[ct.at]
  BY DEF Calls, Here

LEMMA StepKeepsMain ==
  ASSUME MainInv(ct), Step PROVE MainInv(ct')
<1> USE FrameFields
<1>1. ct.phase = "run" /\ ct.ret \in {-1, 0, 1} /\ DOMAIN ct = MainFields
  BY DEF Step, Running, MainInv
<1>2. CASE Unready(Ins)
  <2>1. PICK m, p : ct' = [ct EXCEPT !.misuse = m, !.pc = p]
    BY <1>2, Zenon DEF Step
  <2> QED BY <1>1, <2>1, MainKept
<1>3. CASE ~Unready(Ins)
  <2>1. PICK p, l, k, x, b :
          ct' = [ct EXCEPT !.pc = p, !.live = l, !.known = k, !.ctx = x, !.buf = b]
    BY <1>3, Zenon DEF Step
  <2> QED BY <1>1, <2>1, MainKept
<1> QED BY <1>2, <1>3

\* What follows a failure is within the function.
LEMMA FailKeepsMain ==
  ASSUME NEW c, NEW i, MainInv(c), c.phase = "run", c.at <= Len(Programs[c.prog][c.build])
  PROVE  MainInv(Fail(c, i))
<1> USE FrameFields
<1>1. c.ret \in {-1, 0, 1} /\ DOMAIN c = MainFields
  BY DEF MainInv
<1>2. CASE i.err.how = "return"
  <2>1. Fail(c, i) = [c EXCEPT !.phase = "exit", !.ret = -1, !.todo = i.err.free]
    BY <1>2 DEF Fail
  <2> QED BY <1>1, <2>1, MainKept
<1>3. CASE i.err.how = "hang"
  <2>1. Fail(c, i) = [c EXCEPT !.phase = "hung"]
    BY <1>3 DEF Fail
  <2> QED BY <1>1, <2>1, MainKept
<1>4. CASE i.err.how # "return" /\ i.err.how # "hang"
  <2>1. Fail(c, i) = [c EXCEPT !.pc = @ + 1]
    BY <1>4 DEF Fail
  <2> QED BY <1>1, <2>1, MainKept
<1> QED BY <1>2, <1>3, <1>4

LEMMA FaultKeepsMain ==
  ASSUME MainInv(ct), Mismatch \/ CallFails \/ WrongOutput PROVE MainInv(ct')
<1> USE FrameFields
<1>1. ct.phase = "run" /\ ct.ret \in {-1, 0, 1} /\ DOMAIN ct = MainFields
      /\ ct.at <= Len(Programs[ct.prog][ct.build])
  BY CallsOf DEF Mismatch, CallFails, WrongOutput, Running, MainInv
<1>2. CASE Mismatch
  BY <1>1, <1>2, FailKeepsMain DEF Mismatch
<1>3. CASE CallFails
  <2>1. PICK f, b, k, x :
          ct' = Fail([ct EXCEPT !.faults = f, !.bad = b, !.known = k, !.ctx = x], Ins)
    BY <1>3, Zenon DEF CallFails
  <2> DEFINE c == [ct EXCEPT !.faults = f, !.bad = b, !.known = k, !.ctx = x]
  <2>2. MainInv(c)
    BY <1>1, MainKept
  <2>3. c.phase = "run" /\ c.at <= Len(Programs[c.prog][c.build])
    BY <1>1
  <2> HIDE DEF c
  <2>4. MainInv(Fail(c, Ins))
    BY <2>2, <2>3, FailKeepsMain
  <2> QED BY <2>1, <2>4 DEF c
<1>4. CASE WrongOutput
  <2>1. PICK f, b, p, x, y :
          ct' = [ct EXCEPT !.faults = f, !.bad = b, !.pc = p, !.ctx = x, !.buf = y]
    BY <1>4, Zenon DEF WrongOutput
  <2> QED BY <1>1, <2>1, MainKept
<1> QED BY <1>2, <1>3, <1>4

LEMMA ReturnKeepsMain ==
  ASSUME MainInv(ct), Unwind \/ FromExit \/ FromEnd \/ Skip PROVE MainInv(ct')
<1> USE FrameFields
<1>1. ct.ret \in {-1, 0, 1} /\ DOMAIN ct = MainFields /\ ct.phase # "done"
      /\ ct.at <= Len(Programs[ct.prog][ct.build])
  BY CallsOf DEF Unwind, FromExit, FromEnd, Skip, Running, MainInv
<1>2. CASE Unwind
  <2>1. PICK t, l, m : ct' = [ct EXCEPT !.todo = t, !.live = l, !.misuse = m]
    BY <1>2, Zenon DEF Unwind
  <2> QED BY <1>1, <2>1, MainKept
<1>3. CASE FromExit
  <2>1. ct' = [ct EXCEPT !.phase = "returned", !.ret = 0]
        \/ ct' = [ct EXCEPT !.phase = "returned", !.ret = @]
    BY <1>3 DEF FromExit
  <2> QED BY <1>1, <2>1, MainKept
<1>4. CASE FromEnd
  BY <1>1, <1>4, MainKept DEF FromEnd
<1>5. CASE Skip
  BY <1>1, <1>5, MainKept DEF Skip
<1> QED BY <1>2, <1>3, <1>4, <1>5

----------------------------------------------------------------------------
LEMMA NextCallFields ==
  ASSUME NEW s, NEW d, DOMAIN s = MainFields, d = NextCall(s)
  PROVE  /\ DOMAIN d = MainFields /\ d.phase = "run" /\ d.ret = 0 /\ d.at = s.at + 1
         /\ d.prog = s.prog /\ d.build = s.build /\ d.failures = s.failures
         /\ d.skips = s.skips /\ d.said = s.said
         /\ d.spoilt = s.spoilt \cup Spoils(s)
<1> USE FrameFields
<1> DEFINE t == [s EXCEPT !.at = @ + 1, !.spoilt = @ \cup Spoils(s)]
<1>1. /\ DOMAIN t = MainFields /\ t.at = s.at + 1 /\ t.prog = s.prog /\ t.build = s.build
      /\ t.failures = s.failures /\ t.skips = s.skips /\ t.said = s.said
  OBVIOUS
<1>2. t.spoilt = s.spoilt \cup Spoils(s)
  OBVIOUS
<1>3. d = Entered(t)
  BY Zenon DEF NextCall
<1> HIDE DEF t
<1>4. \A x \in MainFields : d[x] = IF x \in DOMAIN Frame THEN Frame[x] ELSE t[x]
  BY <1>1, <1>3 DEF Entered
<1>5. DOMAIN d = MainFields
  BY <1>1, <1>3 DEF Entered
<1>6. d.phase = "run" /\ d.ret = 0 /\ d.at = t.at /\ d.prog = t.prog /\ d.build = t.build
      /\ d.failures = t.failures /\ d.skips = t.skips /\ d.said = t.said /\ d.spoilt = t.spoilt
  BY <1>4
<1> QED BY <1>1, <1>2, <1>5, <1>6, Zenon

\* How main handles the call it is at, and that the test is not the quiet one.
LEMMA HereHandled ==
  ASSUME MainInv(ct), ct.at <= Len(Calls)
  PROVE  /\ ct.prog = "alignment" => Here.on \in {"count", "run"} /\ Here.fn \notin Quiet
         /\ ct.prog = "wolfssl" => Here.on = "count" /\ Here.fn \notin Quiet
         /\ ct.prog = "mbedtls_test" =>
              (Here.on = "stop" \/ Here.fn \in Excused(ct.prog, ct.build)) /\ Here.fn \notin Quiet
<1>1. ct.prog \in ProgramNames /\ ct.build \in Builds /\ ct.at \in Nat \ {0}
  BY DEF MainInv
<1>2. Here = Calls[ct.at]
  BY CallsOf
<1>3. ASSUME NEW S, NEW T, Handled(Calls, S, T)
      PROVE  (Here.on \in S \/ Here.fn \in T) /\ Here.fn \notin Quiet
  BY <1>1, <1>2, <1>3, HandledElement
<1>4. Programs[ct.prog][ct.build] =
        CASE ct.prog = "alignment" -> MainAlignment(ct.build)
          [] ct.prog = "mbedtls_test" -> MainTest(ct.build)
          [] ct.prog = "throughput" -> MainThroughput(ct.build)
          [] ct.prog = "wolfssl" -> MainWolfssl(ct.build)
          [] OTHER -> Uncalled
  BY <1>1 DEF Programs
<1>5. CASE ct.prog = "alignment"
  <2>1. Calls = MainAlignment(ct.build)
    BY <1>4, <1>5 DEF Calls
  <2> QED BY <1>3, <1>5, <2>1, AlignmentHandled
<1>6. CASE ct.prog = "wolfssl"
  <2>1. Calls = MainWolfssl(ct.build)
    BY <1>4, <1>6 DEF Calls
  <2> QED BY <1>3, <1>6, <2>1, WolfsslHandled
<1>7. CASE ct.prog = "mbedtls_test"
  <2>1. Calls = MainTest(ct.build)
    BY <1>4, <1>7 DEF Calls
  <2> QED BY <1>3, <1>7, <2>1, TestHandled
<1> QED BY <1>5, <1>6, <1>7

\* Report: a function that something went wrong in did not return 0, so that a
\* counter shows it, or mbedtls_test stops.
LEMMA ReportKeepsMain ==
  ASSUME MainInv(ct), TestTells, Report PROVE MainInv(ct')
<1> USE FrameFields
<1>1. /\ DOMAIN ct = MainFields /\ ct.phase = "returned" /\ ct.ret \in {-1, 0, 1}
      /\ ct.prog \in ProgramNames /\ ct.build \in Builds
      /\ ct.at \in Nat \ {0} /\ ct.failures \in Nat /\ ct.skips \in Nat
  BY DEF MainInv, Report
<1>2. Settled(ct) /\ ct.at <= Len(Calls)
  BY <1>1, CallsOf DEF MainInv
<1>3. ct.said # "passed"
  BY <1>1 DEF MainInv, Justified
<1> DEFINE fault == ct.bad \cap {"call", "output"} # {}
           quiet == Here.fn \in Quiet
<1>4. fault /\ ~quiet => ct.ret # 0
  BY <1>1, Zenon DEF TestTells
<1>5. /\ ct.prog = "alignment" => Here.on \in {"count", "run"} /\ ~quiet
      /\ ct.prog = "wolfssl" => Here.on = "count" /\ ~quiet
      /\ ct.prog = "mbedtls_test" =>
           (Here.on = "stop" \/ Here.fn \in Excused(ct.prog, ct.build)) /\ ~quiet
  BY <1>2, HereHandled
\* A call that main goes on after.
<1>6. ASSUME NEW s, DOMAIN s = MainFields, ct' = NextCall(s),
             s.prog = ct.prog, s.build = ct.build, s.at = ct.at, s.said = ct.said,
             s.spoilt = ct.spoilt, s.bad = ct.bad,
             NEW f \in Nat, NEW k \in Nat, f >= ct.failures, k >= ct.skips,
             s.failures = f, s.skips = k,
             ct.prog = "alignment" /\ fault => f + k > 0,
             ct.prog = "wolfssl" /\ fault => f > 0,
             ct.prog = "mbedtls_test" /\ fault => Here.fn \in Excused(ct.prog, ct.build)
      PROVE  MainInv(ct')
  <2> DEFINE d == ct'
  <2>1. /\ DOMAIN d = MainFields /\ d.phase = "run" /\ d.ret = 0 /\ d.at = s.at + 1
        /\ d.prog = s.prog /\ d.build = s.build /\ d.failures = s.failures
        /\ d.skips = s.skips /\ d.said = s.said
        /\ d.spoilt = s.spoilt \cup Spoils(s)
    <3>1. ASSUME NEW x, x = NextCall(s)
          PROVE  /\ DOMAIN x = MainFields /\ x.phase = "run" /\ x.ret = 0 /\ x.at = s.at + 1
                 /\ x.prog = s.prog /\ x.build = s.build /\ x.failures = s.failures
                 /\ x.skips = s.skips /\ x.said = s.said
                 /\ x.spoilt = s.spoilt \cup Spoils(s)
      BY <1>6, <3>1, NextCallFields
    <3> QED BY <1>6, <3>1, Zenon
  <2> HIDE DEF d
  <2>2. /\ DOMAIN d = MainFields /\ d.phase = "run" /\ d.ret = 0 /\ d.at = ct.at + 1
        /\ d.prog = ct.prog /\ d.build = ct.build /\ d.failures = f /\ d.skips = k
        /\ d.said = ct.said /\ d.spoilt = ct.spoilt \cup Spoils(s)
    BY <1>6, <2>1, Zenon
  <2>3. /\ Spoils(s) # {} => fault
        /\ fault => Spoils(s) = {IF Here.fn = "test_sha224" THEN "test_sha224" ELSE "other"}
    BY <1>6, Zenon DEF Spoils
  <2>4. d.at \in Nat \ {0} /\ d.failures \in Nat /\ d.skips \in Nat /\ d.ret \in {-1, 0, 1}
    BY <1>1, <2>2
  <2>5. Settled(d)
    <3>1. ASSUME d.prog = "alignment", d.spoilt # {} PROVE d.failures + d.skips > 0
      <4>1. CASE ct.spoilt # {}
        <5>1. ct.failures + ct.skips > 0
          BY <1>2, <2>2, <3>1, <4>1, Zenon DEF Settled
        <5>2. f + k > 0
          BY <1>1, <1>6, <5>1
        <5> QED BY <2>2, <5>2
      <4>2. CASE fault
        <5>1. f + k > 0
          BY <1>6, <2>2, <3>1, <4>2, Zenon
        <5> QED BY <2>2, <5>1
      <4> QED BY <2>2, <2>3, <3>1, <4>1, <4>2
    <3>2. ASSUME d.prog = "wolfssl", d.spoilt # {} PROVE d.failures > 0
      <4>1. CASE ct.spoilt # {}
        <5>1. ct.failures > 0
          BY <1>2, <2>2, <3>2, <4>1, Zenon DEF Settled
        <5>2. f > 0
          BY <1>1, <1>6, <5>1
        <5> QED BY <2>2, <5>2
      <4>2. CASE fault
        <5>1. f > 0
          BY <1>6, <2>2, <3>2, <4>2, Zenon
        <5> QED BY <2>2, <5>1
      <4> QED BY <2>2, <2>3, <3>2, <4>1, <4>2
    <3>3. ASSUME d.prog = "mbedtls_test" PROVE d.spoilt \subseteq Excused(d.prog, d.build)
      <4>1. ct.spoilt \subseteq Excused(d.prog, d.build)
        BY <1>2, <2>2, <3>3, Zenon DEF Settled
      <4>2. fault => Here.fn \in Excused(d.prog, d.build)
        BY <1>6, <2>2, <3>3, Zenon
      <4>3. Excused(d.prog, d.build) \subseteq {"test_sha224"}
        BY DEF Excused
      <4>4. Spoils(s) \subseteq Excused(d.prog, d.build)
        BY <2>3, <4>2, <4>3
      <4> QED BY <2>2, <4>1, <4>4
    <3> QED BY <3>1, <3>2, <3>3, Zenon DEF Settled
  <2>6. d.phase \notin {"exit", "returned"} /\ d.said # "passed"
    BY <1>3, <2>2
  <2>7. MainInv(d)
    BY <1>1, <2>2, <2>4, <2>5, <2>6, Zenon DEF MainInv
  <2> QED BY <2>7, Zenon DEF d
<1>7. CASE Here.on = "count"
  <2>1. CASE ct.ret # 0
    <3> DEFINE s == [ct EXCEPT !.failures = @ + 1]
    <3>1. ct' = NextCall(s)
      BY <1>7, <2>1 DEF Report
    <3>2. /\ DOMAIN s = MainFields /\ s.prog = ct.prog /\ s.build = ct.build /\ s.at = ct.at
          /\ s.said = ct.said /\ s.spoilt = ct.spoilt /\ s.bad = ct.bad
          /\ s.failures = ct.failures + 1 /\ s.skips = ct.skips
      BY <1>1
    <3> HIDE DEF fault, s
    <3>3. ct.failures + 1 \in Nat /\ ct.failures + 1 > 0 /\ (ct.failures + 1) + ct.skips > 0
          /\ ct.failures + 1 >= ct.failures /\ ct.skips >= ct.skips
      BY <1>1
    <3>4. ct.prog = "mbedtls_test" /\ fault => Here.fn \in Excused(ct.prog, ct.build)
      BY <1>5, <1>7
    <3> QED BY <1>1, <1>6, <3>1, <3>2, <3>3, <3>4, Zenon
  <2>2. CASE ct.ret = 0
    <3> DEFINE s == [ct EXCEPT !.failures = @ + 0]
    <3>1. ct' = NextCall(s)
      BY <1>7, <2>2 DEF Report
    <3>2. /\ DOMAIN s = MainFields /\ s.prog = ct.prog /\ s.build = ct.build /\ s.at = ct.at
          /\ s.said = ct.said /\ s.spoilt = ct.spoilt /\ s.bad = ct.bad
          /\ s.failures = ct.failures /\ s.skips = ct.skips
      BY <1>1
    <3>3. (ct.prog = "alignment" => ~fault) /\ (ct.prog = "wolfssl" => ~fault)
      BY <1>4, <1>5, <2>2
    <3> HIDE DEF fault, s
    <3>4. ct.prog = "mbedtls_test" /\ fault => Here.fn \in Excused(ct.prog, ct.build)
      BY <1>5, <1>7
    <3>5. ct.failures >= ct.failures /\ ct.skips >= ct.skips
      BY <1>1
    <3> QED BY <1>1, <1>6, <3>1, <3>2, <3>3, <3>4, <3>5, Zenon
  <2> QED BY <2>1, <2>2
<1>8. CASE Here.on = "run" /\ ct.ret < 0
  <2>1. ct' = [ct EXCEPT !.failures = @ + 1, !.phase = "hung"]
    BY <1>1, <1>8 DEF Report
  <2>2. /\ DOMAIN ct' = MainFields /\ ct'.phase = "hung" /\ ct'.ret = ct.ret /\ ct'.at = ct.at
        /\ ct'.prog = ct.prog /\ ct'.build = ct.build /\ ct'.failures = ct.failures + 1
        /\ ct'.skips = ct.skips /\ ct'.said = ct.said /\ ct'.spoilt = ct.spoilt
    BY <1>1, <2>1
  <2>3. ct'.failures \in Nat /\ ct'.failures > 0 /\ ct'.failures + ct'.skips > 0
    BY <1>1, <2>2
  <2>4. Settled(ct')
    BY <1>2, <2>2, <2>3, Zenon DEF Settled
  <2>5. ct'.phase \notin {"exit", "returned"} /\ ct'.said # "passed"
    BY <1>3, <2>2
  <2> QED BY <1>1, <2>2, <2>3, <2>4, <2>5, Zenon DEF MainInv
<1>9. CASE Here.on = "run" /\ ct.ret > 0
  <2> DEFINE s == [ct EXCEPT !.skips = @ + 1]
  <2>1. ct' = NextCall(s)
    BY <1>1, <1>9 DEF Report
  <2>2. /\ DOMAIN s = MainFields /\ s.prog = ct.prog /\ s.build = ct.build /\ s.at = ct.at
        /\ s.said = ct.said /\ s.spoilt = ct.spoilt /\ s.bad = ct.bad
        /\ s.failures = ct.failures /\ s.skips = ct.skips + 1
    BY <1>1
  <2> HIDE DEF fault, s
  <2>3. ct.skips + 1 \in Nat /\ ct.failures + (ct.skips + 1) > 0
        /\ ct.failures >= ct.failures /\ ct.skips + 1 >= ct.skips
    BY <1>1
  <2>4. (ct.prog = "mbedtls_test" /\ fault => Here.fn \in Excused(ct.prog, ct.build))
        /\ ct.prog # "wolfssl"
    BY <1>5, <1>9
  <2> QED BY <1>1, <1>6, <2>1, <2>2, <2>3, <2>4, Zenon
<1>10. CASE Here.on = "stop" /\ ct.ret # 0
  <2>1. ct' = [ct EXCEPT !.phase = "done", !.said = "test end"]
    BY <1>10 DEF Report
  <2>2. /\ DOMAIN ct' = MainFields /\ ct'.phase = "done" /\ ct'.ret = ct.ret /\ ct'.at = ct.at
        /\ ct'.prog = ct.prog /\ ct'.build = ct.build /\ ct'.failures = ct.failures
        /\ ct'.skips = ct.skips /\ ct'.said = "test end" /\ ct'.spoilt = ct.spoilt
    BY <1>1, <2>1
  <2>3. ct'.said # "passed" /\ ct'.phase \notin {"exit", "returned"}
    BY <2>2
  <2>4. Settled(ct')
    BY <1>2, <2>2, Zenon DEF Settled
  <2> QED BY <1>1, <2>2, <2>3, <2>4, Zenon DEF MainInv
<1>11. CASE Here.on # "count" /\ (Here.on = "run" => ct.ret = 0) /\ (Here.on = "stop" => ct.ret = 0)
  <2>1. ct' = NextCall(ct)
    BY <1>1, <1>11 DEF Report
  <2>2. ct.failures >= ct.failures /\ ct.skips >= ct.skips
    BY <1>1
  <2>3. (ct.prog = "alignment" => ~fault) /\ (ct.prog = "wolfssl" => ~fault)
        /\ (ct.prog = "mbedtls_test" /\ fault => Here.fn \in Excused(ct.prog, ct.build))
    BY <1>4, <1>5, <1>11
  <2> HIDE DEF fault
  <2> QED BY <1>1, <1>6, <2>1, <2>2, <2>3, Zenon
<1> QED BY <1>1, <1>7, <1>8, <1>9, <1>10, <1>11

\* Finish: "passed" is said of counters that are 0.
LEMMA FinishKeepsMain ==
  ASSUME MainInv(ct), Finish PROVE MainInv(ct')
<1> USE FrameFields
<1>1. /\ DOMAIN ct = MainFields /\ ct.prog \in ProgramNames
      /\ ct' = [ct EXCEPT !.phase = "done", !.said = Verdict(ct)]
  BY DEF MainInv, Finish
<1>2. /\ DOMAIN ct' = MainFields /\ ct'.phase = "done" /\ ct'.ret = ct.ret /\ ct'.at = ct.at
      /\ ct'.prog = ct.prog /\ ct'.build = ct.build /\ ct'.failures = ct.failures
      /\ ct'.skips = ct.skips /\ ct'.said = Verdict(ct) /\ ct'.spoilt = ct.spoilt
  BY <1>1
<1>3. Verdict(ct) = "passed" =>
        /\ ct.prog \in {"alignment", "wolfssl", "mbedtls_test"}
        /\ ct.prog = "alignment" => ct.failures = 0 /\ ct.skips = 0
        /\ ct.prog = "wolfssl" => ct.failures = 0
  BY <1>1 DEF Verdict, ProgramNames
<1>4. ct'.said = "passed" => Justified(ct')
  BY <1>2, <1>3, Zenon DEF Justified
<1>5. Settled(ct') /\ ct'.phase \notin {"exit", "returned"}
  <2>1. Settled(ct')
    BY <1>2, Zenon DEF Settled, MainInv
  <2> QED BY <1>2, <2>1
<1> QED BY <1>2, <1>4, <1>5, Zenon DEF MainInv

LEMMA MainInit ==
  ASSUME Init PROVE MainInv(ct)
<1> USE FrameFields
<1>1. PICK prog \in ProgramNames, build \in Builds :
        ct = Entered([prog |-> prog, build |-> build, at |-> 1, failures |-> 0, skips |-> 0,
                      said |-> "nothing", spoilt |-> {}])
  BY DEF Init
<1> DEFINE s == [prog |-> prog, build |-> build, at |-> 1, failures |-> 0, skips |-> 0,
                 said |-> "nothing", spoilt |-> {}]
<1>2. /\ DOMAIN s = {"prog", "build", "at", "failures", "skips", "said", "spoilt"}
      /\ s.prog = prog /\ s.build = build /\ s.at = 1 /\ s.failures = 0 /\ s.skips = 0
      /\ s.said = "nothing" /\ s.spoilt = {}
  OBVIOUS
<1> HIDE DEF s
<1>3. DOMAIN Entered(s) = MainFields
      /\ \A x \in MainFields : Entered(s)[x] = IF x \in DOMAIN Frame THEN Frame[x] ELSE s[x]
  BY <1>2 DEF Entered
<1>4. ct = Entered(s)
  BY <1>1 DEF s
<1>5. /\ ct.phase = "run" /\ ct.ret = 0 /\ ct.prog = prog /\ ct.build = build /\ ct.at = 1
      /\ ct.failures = 0 /\ ct.skips = 0 /\ ct.said = "nothing"
  BY <1>2, <1>3, <1>4
<1>6. ct.spoilt = s.spoilt
  BY <1>3, <1>4
<1>7. ct.spoilt = {}
  BY <1>2, <1>6, Zenon
<1>8. Settled(ct)
  BY <1>7 DEF Settled
<1>9. ct.phase \notin {"exit", "returned"} /\ ct.ret \in {-1, 0, 1}
      /\ ct.at \in Nat \ {0} /\ ct.failures \in Nat /\ ct.skips \in Nat
  BY <1>5
<1>10. ct.said # "passed"
  BY <1>5
<1> QED BY <1>3, <1>4, <1>5, <1>8, <1>9, <1>10, Zenon DEF MainInv

LEMMA MainStep ==
  ASSUME MainInv(ct), TestTells, [SamplesNext]_samplesVars PROVE MainInv(ct')
<1>1. CASE Next
  BY <1>1, StepKeepsMain, FaultKeepsMain, ReturnKeepsMain, ReportKeepsMain, FinishKeepsMain, Zenon
     DEF Next
<1>2. CASE ct' = ct
  BY <1>2, Zenon
<1> QED BY <1>1, <1>2 DEF SamplesNext, samplesVars

(* run_test, main: what a test program says at its end.  "All tests passed" and "test
   succeed" are printed only if no function that was called had a call that failed or an
   output that was wrong where its code uses it, but for test_sha224 on the engine that
   has no SHA-224, provided that each function tells its own caller (TestTells): counting, skipping and
   stopping lose no failure between a function's return and main's last line, for every
   build, every list of lengths and any number of calls that go wrong. *)
THEOREM PassedIsRight == SamplesSpec /\ []TestTells => []PassedMeansRight
<1>1. SamplesInit => MainInv(ct)
  BY MainInit DEF SamplesInit
<1>2. MainInv(ct) /\ TestTells /\ [SamplesNext]_samplesVars => MainInv(ct)'
  BY MainStep
<1>3. MainInv(ct) => PassedMeansRight
  BY MainInvRight
<1> QED BY <1>1, <1>2, <1>3, PTL DEF SamplesSpec

=============================================================================
