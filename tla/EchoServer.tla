----------------------------- MODULE EchoServer -----------------------------
(***************************************************************************)
(* samples/echoserver/echoserver.c: the wolfSSH server.  One thread serves *)
(* one connection after the other: it logs the client in (wsUserAuth),     *)
(* then echoes, forwards a port, relays an agent or serves files until the *)
(* client goes, shuts the connection down and accepts the next.            *)
(*                                                                         *)
(* What the file compiles to depends on WOLFSSH_FWD, WOLFSSH_AGENT,        *)
(* WOLFSSH_SHELL and WOLFSSH_SFTP: feature holds those that are set (the   *)
(* sample's own settings leave all of them out).  wolfSSH itself is not in *)
(* the repository: a call returns any of the codes the server tells apart. *)
(***************************************************************************)
EXTENDS Integers, Sequences, FiniteSets, SequencesExt

CONSTANTS Builds,          \* [feature : features it is built with, opt : command line]
          Logins,          \* what a client may try: [type, user, secret]
          PasswdOptions,   \* lines given with -P, in order
          Input,          \* what a client may send on its channel
          MaxConns, MaxTries, MaxFds       \* bounds

MAX_PASSWD_RETRY == 3
maxAttempt == 2            \* the code's 10, cut
LongNames == {"longname"}  \* 32 characters or more

VARIABLES feature, opt,    \* build and command line
          srv,             \* the step of the server thread
          pwMap, passwdRetry, userAuthWouldBlock,
          conn,            \* the client: up, or gone
          held,            \* what the connection holds: {"ctx", "ssh", "fd"}
          wrong, tries,    \* wrong passwords and attempts of this connection
          ret, err,        \* ret of the worker, wolfSSH_get_error
          attempt, served,
          openFds,         \* open descriptors of forwarding and agent
          fwd, agent       \* WS_FwdCbActionCtx with fwdFd, WS_AgentCbActionCtx with agentFd

workVars == <<openFds, fwd, agent>>
authVars == <<passwdRetry, userAuthWouldBlock, wrong, tries>>
vars == <<feature, opt, srv, pwMap, authVars, conn, held, ret, err, attempt, served, workVars>>

----------------------------------------------------------------------------
(***************************************************************************)
(* The list of users.                                                      *)
(***************************************************************************)
\* A name that does not fit is cut, and then equals no name a client sends.
Cut(user) == IF user \in LongNames THEN "cut" ELSE user

\* A new entry goes to the head of the list.
PwMapNew(list, type, user, secret) ==
  <<[type |-> type, user |-> Cut(user), p |-> IF type = "NONE" THEN "none" ELSE secret]>> \o list

\* The loaders stop at the first line that has no delimiter.
Load(list, type, lines) ==
  LET bad == {i \in DOMAIN lines : ~lines[i].ok}
      n == IF bad = {} THEN Len(lines) ELSE (CHOOSE i \in bad : \A j \in bad : i <= j) - 1
  IN  FoldLeft(LAMBDA l, e : PwMapNew(l, type, e.user, e.secret), list, SubSeq(lines, 1, n))

LoadNoneBuffer(list, lines) == Load(list, "NONE", lines)
LoadPasswordBuffer(list, lines) == Load(list, "PASSWORD", lines)
LoadPublicKeyBuffer(list, lines) == Load(list, "PUBLICKEY", lines)

\* -P: a line without ':' is skipped, the others still count.
LoadPasswdList(list, lines) ==
  FoldLeft(LAMBDA l, e : IF e.ok THEN PwMapNew(l, "PASSWORD", e.user, e.secret) ELSE l, list, lines)

Line(u, s) == [user |-> u, secret |-> s, ok |-> TRUE]
samplePasswordBuffer == <<Line("jill", "upthehill"), Line("jack", "fetchapail")>>
samplePublicKeyRsaBuffer == <<Line("hansel", "key1"), Line("gretel", "key2")>>
sampleNoneBuffer == <<Line("holmes", "none")>>

\* StrListAdd puts an option before the earlier ones.
StrListAdd(list, x) == <<x>> \o list

\* The users in the order echoserver_test loads them: options, then samples.
AllUsers ==
  LET given == FoldLeft(StrListAdd, <<>>, PasswdOptions)
      l1 == LoadPasswdList(<<>>, given)
      l2 == LoadPasswordBuffer(l1, samplePasswordBuffer)
      l3 == LoadPublicKeyBuffer(l2, samplePublicKeyRsaBuffer)
  IN  IF "USERAUTH_NONE" \in feature THEN LoadNoneBuffer(l3, sampleNoneBuffer) ELSE l3

AuthTypes == {"PASSWORD", "PUBLICKEY"} \cup (IF "USERAUTH_NONE" \in feature THEN {"NONE"} ELSE {})

\* The callback that decides a login: the first entry of that user and type does.
wsUserAuth(a) ==
  LET same == {i \in DOMAIN pwMap : pwMap[i].user = a.user /\ pwMap[i].type = a.type}
      map == pwMap[CHOOSE i \in same : \A j \in same : i <= j]
  IN  IF userAuthWouldBlock > 0 THEN "WOULD_BLOCK"
      ELSE IF a.type \notin AuthTypes THEN "FAILURE"
      ELSE IF same = {} THEN "INVALID_USER"
      ELSE IF a.type = "NONE" \/ map.p = a.secret THEN "SUCCESS"
      ELSE IF a.type = "PUBLICKEY" THEN "INVALID_PUBLICKEY"
      ELSE IF passwdRetry - 1 > 0 THEN "INVALID_PASSWORD" ELSE "REJECTED"

----------------------------------------------------------------------------
(***************************************************************************)
(* echoserver_test: set up and accept.                                     *)
(***************************************************************************)
\* listeners: the sockets of this connection that listen and are open.
NoFwd == [state |-> "INIT", listenFd |-> -1, appFd |-> -1, fwdFd |-> -1,
          listeners |-> {}, watch |-> -1, buf |-> 0]
NoAgent == [state |-> "INIT", fd |-> -1]

Init ==
  /\ \E b \in Builds : feature = b.feature /\ opt = b.opt
  /\ userAuthWouldBlock = opt.block
  /\ srv = "setup" /\ pwMap = <<>> /\ passwdRetry = MAX_PASSWD_RETRY
  /\ conn = "none" /\ held = {} /\ wrong = 0 /\ tries = 0
  /\ ret = "SUCCESS" /\ err = "none" /\ attempt = 0 /\ served = 0
  /\ openFds = {}
  /\ fwd = NoFwd /\ agent = NoAgent

\* wolfSSH_Init, the context, the callbacks, the users and both host keys:
\* any failure is ES_ERROR, which returns without freeing anything.
Setup ==
  /\ srv = "setup"
  /\ \/ srv' = "failed" /\ UNCHANGED pwMap
     \/ srv' = "listen" /\ pwMap' = AllUsers
  /\ UNCHANGED <<feature, opt, authVars, conn, held, ret, err, attempt, served, workVars>>

\* The head of the accept loop: the objects of a connection are made before
\* accept, and ES_ERROR after wolfSSH_new leaves them behind.
NewConnection ==
  /\ srv = "listen"
  /\ \/ srv' = "failed" /\ UNCHANGED held
     \/ srv' = "accept" /\ held' = held \cup {"ctx", "ssh"}
  /\ UNCHANGED <<feature, opt, pwMap, authVars, conn, ret, err, attempt, served, workVars>>

\* Faulty variant: passwdRetry is set once and not for every connection.
AcceptKeepsRetries ==
  /\ srv = "accept" /\ served < MaxConns
  /\ served' = served + 1
  /\ srv' = "login" /\ conn' = "up" /\ held' = held \cup {"fd"}
  /\ wrong' = 0 /\ tries' = 0
  /\ fwd' = NoFwd /\ agent' = NoAgent
  /\ UNCHANGED <<passwdRetry, feature, opt, pwMap, userAuthWouldBlock, ret, err, attempt, openFds>>

\* accept returns, the new context starts from zero and server_worker begins.
Accept ==
  /\ srv = "accept" /\ served < MaxConns
  /\ served' = served + 1
  /\ \/ /\ srv' = "login" /\ conn' = "up" /\ held' = held \cup {"fd"}
        /\ passwdRetry' = MAX_PASSWD_RETRY
        /\ wrong' = 0 /\ tries' = 0
        /\ fwd' = NoFwd /\ agent' = NoAgent
     \/ /\ srv' = "failed"
        /\ UNCHANGED <<conn, held, passwdRetry, wrong, tries, fwd, agent>>
  /\ UNCHANGED <<feature, opt, pwMap, userAuthWouldBlock, ret, err, attempt, openFds>>

----------------------------------------------------------------------------
(***************************************************************************)
(* server_worker: log in, serve, shut down, release.                       *)
(***************************************************************************)
\* What the client wants once it is in.
Services == {"ssh", "scp"} \cup (IF "SFTP" \in feature THEN {"sftp"} ELSE {})

\* The login ends with ret and err.  WS_SCP_INIT calls wolfSSH_accept again.
EndLogin(r, e) ==
  /\ ret' = r /\ err' = e /\ tries' = 0
  /\ srv' = CASE r = "SUCCESS" -> "enter" [] r = "SFTP_COMPLETE" -> "sftp"
              [] r = "SCP_INIT" -> "scp" [] OTHER -> "after"

\* wolfSSH_accept hands one attempt of the client to wsUserAuth.  The pending
\* answer ends a blocking accept; NonBlockSSH_accept polls and tries again.
Login(a) ==
  LET r == wsUserAuth(a)
  IN
  /\ srv = "login" /\ conn = "up" /\ tries < MaxTries
  /\ userAuthWouldBlock' = IF r = "WOULD_BLOCK" THEN userAuthWouldBlock - 1 ELSE userAuthWouldBlock
  /\ passwdRetry' = IF r \in {"INVALID_PASSWORD", "REJECTED"} THEN passwdRetry - 1 ELSE passwdRetry
  /\ wrong' = IF r \in {"INVALID_PASSWORD", "REJECTED"} THEN wrong + 1 ELSE wrong
  /\ CASE r = "SUCCESS" ->
            \E s \in Services :
              EndLogin(CASE s = "ssh" -> "SUCCESS" [] s = "scp" -> "SCP_INIT"
                         [] s = "sftp" -> "SFTP_COMPLETE", "none")
       [] r = "REJECTED" -> EndLogin("FATAL", "USER_AUTH")
       [] r = "WOULD_BLOCK" /\ ~opt.nonBlock -> EndLogin("FATAL", "AUTH_PENDING")
       [] OTHER -> tries' = tries + 1 /\ UNCHANGED <<srv, ret, err>>
  /\ UNCHANGED <<feature, opt, pwMap, conn, held, attempt, served, workVars>>

\* The handshake fails: versions that differ, or the client has gone.
LoginFails ==
  /\ srv = "login"
  /\ \/ conn = "gone" /\ EndLogin("FATAL", "SOCKET")
     \/ conn = "up" /\ tries = 0 /\ EndLogin("FATAL", "VERSION")
  /\ UNCHANGED <<feature, opt, pwMap, passwdRetry, userAuthWouldBlock, wrong, conn, held, attempt, served, workVars>>

\* The second accept carries the file; COMPLETE makes ret 0.
ScpTransfer ==
  /\ srv = "scp"
  /\ \/ ret' = "SUCCESS" /\ err' = "none" /\ conn = "up"
     \/ ret' = "FATAL" /\ err' = "SOCKET" /\ conn = "gone"
  /\ srv' = "after"
  /\ UNCHANGED <<feature, opt, pwMap, authVars, conn, held, attempt, served, workVars>>

\* What wolfSSH_SFTP_read and wolfSSH_worker return, with wolfSSH_get_error.
Library ==
  IF conn = "gone" THEN {<<"FATAL", "SOCKET">>}
  ELSE {<<"SUCCESS", "none">>, <<"REKEYING", "REKEYING">>, <<"CHAN_RXD", "CHAN_RXD">>,
        <<"FATAL", "WANT_READ">>, <<"FATAL", "WINDOW_FULL">>, <<"FATAL", "EOF">>}

Retry == {"WANT_READ", "CHAN_RXD", "REKEYING", "WINDOW_FULL"}
Fold(r) == IF r[2] \in Retry THEN <<r[2], r[2]>> ELSE r     \* if (error == ...) ret = error

SftpFrame == UNCHANGED <<feature, opt, pwMap, authVars, conn, held, attempt, served, workVars>>
SftpGoto(step, r) == srv' = step /\ ret' = r[1] /\ err' = r[2] /\ SftpFrame

\* The condition of the do loop, where every continue leads.
SftpLoop(r) == SftpGoto(IF r[1] = "FATAL" THEN "after" ELSE "sftp", r)

\* sftp_worker, first part: data that waits to be sent.
SftpPending ==
  /\ srv = "sftp"
  /\ \/ SftpGoto("sftpSelect", <<ret, err>>)
     \/ \E r \in Library : SftpGoto(IF r[2] = "EOF" THEN "after" ELSE "sftpSelect", Fold(r))

\* Second part: select and wolfSSH_worker, which must succeed or bring channel data.
SftpSelect ==
  /\ srv = "sftpSelect"
  /\ \/ conn = "up" /\ SftpGoto("after", <<ret, err>>)          \* WS_SELECT_ERROR_READY
     \/ conn = "up" /\ SftpGoto("sftpPeek", <<ret, err>>)       \* timeout
     \/ \E r \in Library :
          LET f == IF r[2] \in {"WANT_READ", "WINDOW_FULL"} THEN <<r[2], r[2]>> ELSE r
          IN  IF r[1] = "REKEYING" THEN SftpLoop(r)
              ELSE SftpGoto(IF r[2] # "EOF" /\ f[1] \in {"SUCCESS", "CHAN_RXD"}
                            THEN "sftpPeek" ELSE "after", f)

\* Third part: SFTP_read when the peek finds data.  A peek that fails without
\* an error looks for the end of the channel.
SftpPeek ==
  /\ srv = "sftpPeek"
  /\ \/ \E r \in Library : IF r[2] = "EOF" THEN SftpGoto("after", r) ELSE SftpLoop(Fold(r))
     \/ SftpLoop(<<"REKEYING", err>>)
     \/ SftpGoto("after", <<"SUCCESS", "none">>)
     \/ SftpLoop(<<"FATAL", IF conn = "gone" THEN "SOCKET" ELSE "WANT_READ">>)

\* Back from the service.  Only a fatal return sets the local error; a lost
\* socket needs no shutdown.
AfterService ==
  /\ srv = "after"
  /\ srv' = IF ret = "FATAL" /\ err = "SOCKET" THEN "release" ELSE "shutdown"
  /\ ret' = IF ret = "FATAL" /\ err \in {"VERSION", "USER_AUTH", "SOCKET"} THEN "SUCCESS" ELSE ret
  /\ attempt' = 0
  /\ UNCHANGED <<feature, opt, pwMap, authVars, conn, held, err, served, workVars>>

\* Faulty variant: the shutdown waits for the client's answer without a limit.
ShutdownWaits ==
  /\ srv = "shutdown"
  /\ conn = "up"
  /\ srv' = "release" /\ ret' = "SUCCESS"
  /\ UNCHANGED <<feature, opt, pwMap, authVars, conn, held, err, attempt, served, workVars>>

\* wolfSSH_shutdown, then at most maxAttempt turns of wolfSSH_worker while it
\* still wants to read or to write.
Shutdown ==
  /\ srv = "shutdown"
  /\ \/ /\ conn = "up" /\ attempt < maxAttempt
        /\ attempt' = attempt + 1 /\ UNCHANGED srv
     \/ srv' = "release" /\ UNCHANGED attempt
  /\ ret' = "SUCCESS"
  /\ UNCHANGED <<feature, opt, pwMap, authVars, conn, held, err, served, workVars>>

\* The socket is closed and the objects are freed; the loop goes on unless -1.
ReleaseConnection ==
  /\ srv = "release"
  /\ held' = {} /\ conn' = "none" /\ fwd' = NoFwd /\ agent' = NoAgent
  /\ wrong' = 0 /\ tries' = 0 /\ attempt' = 0 /\ ret' = "SUCCESS" /\ err' = "none"
  /\ srv' = IF opt.single THEN "done" ELSE "listen"
  /\ UNCHANGED <<feature, opt, pwMap, passwdRetry, userAuthWouldBlock, served, openFds>>

ClientGoes ==
  /\ conn = "up"
  /\ conn' = "gone"
  /\ UNCHANGED <<feature, opt, srv, pwMap, authVars, held, ret, err, attempt, served, workVars>>

----------------------------------------------------------------------------
(***************************************************************************)
(* ssh_worker.                                                             *)
(***************************************************************************)
other == <<feature, opt, pwMap, authVars, conn, held, attempt, served>>

Break == srv' = "after" /\ ret' = "SUCCESS" /\ err' = err
Stay == UNCHANGED <<srv, ret, err>>

\* The head of ssh_worker copies the listening descriptor; with WOLFSSH_SHELL
\* the user, the child and its terminal must all be there.
EnterWorker ==
  /\ srv = "enter"
  /\ \/ srv' = "ssh" /\ ret' = ret /\ fwd' = [fwd EXCEPT !.watch = fwd.listenFd]
     \/ "SHELL" \in feature /\ srv' = "after" /\ ret' = "FATAL" /\ fwd' = fwd
  /\ UNCHANGED <<err, openFds, agent>> /\ UNCHANGED other

\* The first control character of the chunk counts, the others do not.
find_char(chunk) ==
  LET m == {i \in DOMAIN chunk : chunk[i] \in {"ETX", "ENQ", "ACK"}}
  IN  IF m = {} THEN "none" ELSE chunk[CHOOSE i \in m : \A j \in m : i <= j]

\* Stop, send the statistics, or start a key exchange; a failure stops too.
process_bytes(chunk, stats) ==
  LET c == find_char(chunk)
  IN  CASE c = "ETX" -> TRUE [] c \in {"ENQ", "ACK"} -> ~stats [] OTHER -> FALSE

\* Data on the shell channel is echoed, then looked at.  (WOLFSSH_SHELL without
\* -f writes it to the child instead; the child's output is what is sent.)
ShellData(chunk, sendOk, statsOk) ==
  /\ srv = "ssh" /\ conn = "up"
  /\ IF process_bytes(chunk, statsOk) \/ ~sendOk THEN Break ELSE Stay
  /\ UNCHANGED <<openFds, fwd, agent>> /\ UNCHANGED other

\* wolfSSH_worker reports the loss of the connection, or the shell's child ends.
WorkerEnds ==
  /\ srv = "ssh"
  /\ conn = "gone" \/ "SHELL" \in feature
  /\ Break
  /\ UNCHANGED workVars /\ UNCHANGED other

\* The lowest free descriptor.
NewFd(fds) == CHOOSE f \in 3 .. MaxFds : f \notin fds /\ \A g \in 3 .. f - 1 : g \in fds
Full == 3 .. MaxFds \subseteq openFds

----------------------------------------------------------------------------
(***************************************************************************)
(* Port forwarding: wolfSSH_FwdDefaultActions runs inside wolfSSH_worker.  *)
(* watch is fwdListenFd, which the worker reads from the context once.     *)
(***************************************************************************)
FwdWork == "FWD" \in feature /\ srv = "ssh" /\ conn = "up"
FwdCallback == "FWD" \in feature /\ srv \in {"enter", "ssh"} /\ conn = "up"
FwdFrame == Stay /\ UNCHANGED <<agent>> /\ UNCHANGED other

FWD_LOCAL_SETUP ==
  /\ FwdCallback
  /\ fwd' = [fwd EXCEPT !.state = "DIRECT"]
  /\ UNCHANGED openFds /\ FwdFrame

FWD_LOCAL_CLEANUP ==
  /\ FwdCallback
  /\ openFds' = openFds \ {fwd.appFd}
  /\ fwd' = [fwd EXCEPT !.state = "INIT", !.listeners = @ \ {fwd.appFd}]
  /\ FwdFrame

\* socket, bind and listen; any failure gives everything back.
FWD_REMOTE_SETUP ==
  /\ FwdCallback
  /\ \/ /\ ~Full
        /\ LET f == NewFd(openFds)
           IN  openFds' = openFds \cup {f}
               /\ fwd' = [fwd EXCEPT !.listenFd = f, !.state = "LISTEN",
                                    !.listeners = @ \cup {f}]
     \/ fwd' = [fwd EXCEPT !.listenFd = -1] /\ UNCHANGED openFds
  /\ FwdFrame

FWD_REMOTE_CLEANUP ==
  /\ FwdCallback
  /\ openFds' = openFds \ {fwd.listenFd}
  /\ fwd' = [fwd EXCEPT !.listenFd = -1, !.state = "INIT",
                        !.listeners = @ \ {fwd.listenFd}]
  /\ FwdFrame

\* accept on the descriptor the worker watches, in state LISTEN.
FwdAccept ==
  /\ FwdWork /\ fwd.state = "LISTEN" /\ fwd.watch \in fwd.listeners /\ ~Full
  /\ LET f == NewFd(openFds)
     IN  /\ openFds' = openFds \cup {f}
         /\ fwd' = [fwd EXCEPT !.fwdFd = f, !.appFd = f, !.state = "CONNECT"]
  /\ FwdFrame

\* The worker read the descriptor before a cleanup closed it: it polls a closed
\* descriptor, or a new one of that number that does not listen, and the failing
\* select or accept ends the loop.  (FD_SET takes no notice of -1.)
FwdStale ==
  /\ FwdWork /\ fwd.state = "LISTEN" /\ fwd.watch >= 0
  /\ fwd.watch \notin fwd.listeners
  /\ Break
  /\ UNCHANGED workVars /\ UNCHANGED other

\* The end of the loop body asks for a channel until it gets one.
FwdConnect ==
  /\ FwdWork /\ fwd.state = "CONNECT"
  /\ fwd' = [fwd EXCEPT !.state = "CONNECTED"]
  /\ UNCHANGED openFds /\ FwdFrame

\* connect_addr tries every address; -1 leaves the state for the next turn.
connect_addr ==
  /\ FwdWork /\ fwd.state = "DIRECT"
  /\ \/ /\ ~Full
        /\ LET f == NewFd(openFds)
           IN openFds' = openFds \cup {f} /\ fwd' = [fwd EXCEPT !.fwdFd = f, !.state = "CONNECTED"]
     \/ fwd' = [fwd EXCEPT !.fwdFd = -1] /\ UNCHANGED openFds
  /\ FwdFrame

\* Faulty variant: after a reset the state stays as it is.
FwdClosedKeepsState(how) ==
  /\ FwdWork /\ fwd.state = "CONNECTED" /\ fwd.fwdFd >= 0
  /\ openFds' = openFds \ {fwd.fwdFd}
  /\ fwd' = CASE how = "channel" -> [fwd EXCEPT !.fwdFd = -1, !.state = "LISTEN"]
              [] how = "eof" -> [fwd EXCEPT !.fwdFd = -1, !.state = "LISTEN"]
              [] how = "reset" -> fwd
  /\ FwdFrame

\* The client's channel was closed, or the application's end was.
FwdClosed(how) ==
  /\ FwdWork /\ fwd.state = "CONNECTED" /\ fwd.fwdFd >= 0
  /\ openFds' = openFds \ {fwd.fwdFd}
  /\ fwd' = CASE how = "channel" -> [fwd EXCEPT !.fwdFd = -1, !.state = "LISTEN"]
              [] how = "eof" -> [fwd EXCEPT !.fwdFd = -1, !.state = "LISTEN"]
              [] how = "reset" -> [fwd EXCEPT !.state = "LISTEN"]
  /\ FwdFrame

\* Data of the application waits in fwdBuffer until its channel is confirmed;
\* any other error of recv or of the send ends the loop.
FwdData(how) ==
  /\ FwdWork /\ fwd.state = "CONNECTED" /\ fwd.fwdFd >= 0
  /\ IF how = "fails" THEN Break /\ UNCHANGED fwd
     ELSE Stay /\ fwd' = [fwd EXCEPT !.buf = IF how = "sent" THEN 0 ELSE 1]
  /\ UNCHANGED <<openFds, agent>> /\ UNCHANGED other

----------------------------------------------------------------------------
(***************************************************************************)
(* The agent: a local socket whose connection is relayed to a channel.     *)
(***************************************************************************)
AgentWork == "AGENT" \in feature /\ srv = "ssh" /\ conn = "up"

\* LOCAL_SETUP and the accept that follows.
AgentAccept ==
  /\ AgentWork /\ agent.state # "CONNECTED" /\ ~Full
  /\ LET f == NewFd(openFds)
     IN openFds' = openFds \cup {f} /\ agent' = [state |-> "CONNECTED", fd |-> f]
  /\ Stay /\ UNCHANGED <<fwd>> /\ UNCHANGED other

\* End of file or reset: the worker listens again and leaves the socket open.
AgentClosed ==
  /\ AgentWork /\ agent.state = "CONNECTED"
  /\ agent' = [agent EXCEPT !.state = "LISTEN"]
  /\ Stay /\ UNCHANGED <<fwd, openFds>> /\ UNCHANGED other

----------------------------------------------------------------------------
\* The server stops: -1 and its one connection is over, or an error.
Stopped == srv \in {"done", "failed"} /\ UNCHANGED vars

ServerStep ==
  \/ Setup \/ NewConnection \/ LoginFails \/ ScpTransfer \/ SftpPending \/ SftpSelect \/ SftpPeek
  \/ EnterWorker \/ AfterService \/ Shutdown \/ ReleaseConnection \/ WorkerEnds

Next ==
  \/ ServerStep \/ Accept \/ ClientGoes
  \/ \E a \in Logins : Login(a)
  \/ \E c \in Input, sendOk, statsOk \in BOOLEAN : ShellData(c, sendOk, statsOk)
  \/ FWD_LOCAL_SETUP \/ FWD_LOCAL_CLEANUP \/ FWD_REMOTE_SETUP \/ FWD_REMOTE_CLEANUP
  \/ FwdAccept \/ FwdStale \/ FwdConnect \/ connect_addr
  \/ \E how \in {"channel", "eof", "reset"} : FwdClosed(how)
  \/ \E how \in {"sent", "waits", "fails"} : FwdData(how)
  \/ AgentAccept \/ AgentClosed
  \/ Stopped

Spec == Init /\ [][Next]_vars /\ WF_vars(ServerStep)

----------------------------------------------------------------------------
Serving == srv \in {"enter", "ssh", "scp", "sftp", "sftpSelect", "sftpPeek"}

\* passwdRetry is a static variable of the file, yet every client has its own
\* three tries, and none is served after three wrong passwords.
LoginLimit ==
  /\ srv = "login" => passwdRetry = MAX_PASSWD_RETRY - wrong
  /\ Serving => wrong < MAX_PASSWD_RETRY

\* A connected forward has an open socket of its own: whatever callbacks, closed
\* channels and resets came before, the fwdFd that the worker polls, reads and
\* writes is open, and is not one of the listening sockets.
FwdOpen ==
  srv = "ssh" /\ fwd.state = "CONNECTED" => fwd.fwdFd \in openFds \ fwd.listeners

\* The same of the descriptor the worker listens on, its copy of fwdListenFd.
\* Does not hold: a cleanup closes the socket, the next setup puts the state back
\* to LISTEN, and the worker polls the descriptor it copied (echoserver.c:835, 916).
ListenOpen == srv = "ssh" /\ fwd.state = "LISTEN" /\ fwd.watch >= 0 => fwd.watch \in fwd.listeners

\* Once its client has gone the server gets over the connection, whatever it
\* was doing, and waits for the next.
ServesAgain == (conn = "gone") ~> (srv \in {"accept", "done", "failed"} /\ "fd" \notin held)
=============================================================================
