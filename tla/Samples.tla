------------------------------ MODULE Samples -------------------------------
(***************************************************************************)
(* The programs that run alone: the SSH server, the cryptography programs  *)
(* and the USB console.  Each is a firmware image of its own: image is the *)
(* one that was flashed, and the others take no step.                      *)
(***************************************************************************)
EXTENDS CryptoTests

CONSTANTS HashLengths, HashOffsets, Draws,                    \* mbedtls_hash
          MaxSession, GcmEnabled, Asserts, Lens, Handles,     \* aes256, crypto and sm4
          MaxTyped, MaxSets,                                  \* the USB console
          EchoBuilds, Logins, PasswdOptions, Input,           \* echoserver
          MaxConns, MaxTries, MaxFds

\* Sessions, and the lengths the loops of mbedtls_hash, of aes256 and of the alignment
\* test go through; those of aes256 are whole blocks.
ASSUME SamplesAssumption ==
  /\ MaxSession \in Nat /\ MaxFds \in Nat
  /\ Lens \in Seq(Nat) /\ Lens # <<>> /\ \A l \in 1 .. Len(Lens) : Lens[l] % 16 = 0
  /\ HashLengths \in Seq(Nat) /\ HashLengths # <<>>
  /\ HashOffsets \in Seq(Nat) /\ Draws \subseteq Nat
  /\ Lengths \in Seq(STRING)

VARIABLES image, hs, ci, us,
          feature, opt, srv, pwMap, passwdRetry, userAuthWouldBlock, conn, held, wrong,
          tries, ret, sshErr, attempt, served, openFds, fwd, agent

Hash == INSTANCE HashSuite WITH Lengths <- HashLengths, Offsets <- HashOffsets
Ciphers == INSTANCE Cipher
Console == INSTANCE UsbShell
Echo == INSTANCE EchoServer WITH Builds <- EchoBuilds, err <- sshErr

echoVars == <<feature, opt, srv, pwMap, passwdRetry, userAuthWouldBlock, conn, held, wrong,
              tries, ret, sshErr, attempt, served, openFds, fwd, agent>>

----------------------------------------------------------------------------
samplesVars == <<image, echoVars, hs, ci, ct, us>>

\* What an image that does not run starts from does not matter: one value each.
SamplesInit ==
  /\ image \in {"echoserver", "hash", "cipher", "tests", "console"}
  /\ Echo!Init /\ Hash!Init /\ Ciphers!Init /\ Init /\ Console!Init
  /\ image # "echoserver" => feature = {} /\ ~opt.nonBlock
  /\ image # "cipher" => ci.app = "hash" /\ ci.asserts
  /\ image # "tests" => ct.prog = "alignment" /\ "wolf_hw" \in ct.build
  /\ image # "console" => us.init = "ok"

SamplesNext ==
  \/ image = "echoserver" /\ Echo!Next /\ UNCHANGED <<image, hs, ci, ct, us>>
  \/ image = "hash" /\ Hash!Next /\ UNCHANGED <<image, echoVars, ci, ct, us>>
  \/ image = "cipher" /\ Ciphers!Next /\ UNCHANGED <<image, echoVars, hs, ct, us>>
  \/ image = "tests" /\ Next /\ UNCHANGED <<image, echoVars, hs, ci, us>>
  \/ image = "console" /\ Console!Next /\ UNCHANGED <<image, echoVars, hs, ci, ct>>

\* The server thread is scheduled whenever it can go on; its clients owe nothing.
SamplesSpec ==
  /\ SamplesInit /\ [][SamplesNext]_samplesVars
  /\ WF_samplesVars(image = "echoserver" /\ Echo!ServerStep /\ UNCHANGED <<image, hs, ci, ct, us>>)

----------------------------------------------------------------------------
\* passwdRetry is a static variable of echoserver.c, yet every client has its own
\* three tries, and none is served after three wrong passwords.
LoginLimit == Echo!LoginLimit

\* ssh_worker: a connected forward has an open socket of its own.  No sequence of
\* callbacks, closed channels and resets makes it poll or write to fwdFd after fwdFd was
\* closed.  Of the copy of fwdListenFd that ssh_worker keeps this is not true: see ListenOpen.
FwdOpen == Echo!FwdOpen

\* server_worker: once its client has gone the server gets over the connection,
\* whatever it was doing, and waits for the next.
ServesAgain == Echo!ServesAgain

\* mbedtls_hash returns an error exactly if a call of a suite failed or a digest
\* was wrong; a wrong ciphertext or digest of aes256, crypto and sm4 is reported in
\* its own round, and a digest of the shim covers exactly the pieces since the last.
FaultsReported == Hash!VerdictTells /\ Ciphers!WrongOutputReported

\* On every path, the error paths too, the sessions of the mtls shim are free
\* between rounds and each belongs to one user, and the shim stays within the
\* caller's buffers.
SessionsKept == Ciphers!SessionsReturned /\ Ciphers!WithinBuffers

\* A test function returns 0 only if no call failed and no output was wrong that it
\* compares or uses up (but for the known signature of ecdsa_p256_test), and an error only
\* if something went wrong; on every path it has freed what it set up and used nothing
\* that it had not, but for the functions that CryptoTests names.
FunctionsSound == TestTells /\ ContextsReturned

\* usb_shell.c: the console has one owner, the shell or the agent, and it is the
\* one that local_shell tells, however the work items were submitted.
OneOwner == Console!OneOwner
=============================================================================
