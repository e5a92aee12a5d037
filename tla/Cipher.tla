------------------------------- MODULE Cipher -------------------------------
(***************************************************************************)
(* The cipher samples of samples/crypto: aes256 (every mode on two         *)
(* devices, the mbedTLS shim in software and the AES engine, whose         *)
(* ciphertexts are compared), crypto and sm4 (one device, compared with a  *)
(* known ciphertext), and the shim driver aes256 brings along,             *)
(* crypto_mtls_shim.c, with its pool of sessions.                          *)
(*                                                                         *)
(* mbedTLS, the engine and its driver are not in the repository: a call    *)
(* succeeds or fails, an output is right, wrong or missing.  Two wrong     *)
(* outputs differ from each other and from zeros.                          *)
(***************************************************************************)
EXTENDS Integers, Sequences, FiniteSets, FiniteSetsExt

CONSTANTS MaxSession,      \* CRYPTO_MAX_SESSION
          GcmEnabled,      \* CONFIG_MBEDTLS_CIPHER_GCM_ENABLED
          Asserts,         \* CONFIG_ASSERT, as a set of values
          Lens,            \* plaintext lengths of the tests of aes256
          Handles          \* hash contexts of the hash client

VARIABLE ci

----------------------------------------------------------------------------
(***************************************************************************)
(* The shim: sessions, and what each handler reads, writes and reports.    *)
(***************************************************************************)
FreeSession == [in_use |-> FALSE, holds |-> "none", mode |-> "none", fed |-> <<>>]

\* The first session that is not in use, 0 if there is none.
mtls_get_unused_session_index(ss) ==
  LET free == {i \in 1..MaxSession : ~ss[i].in_use}
  IN  IF free = {} THEN 0 ELSE Min(free)

Supported == {"ECB", "CBC", "CTR", "CCM"} \cup (IF GcmEnabled THEN {"GCM"} ELSE {})
Setup(ret, ss, i) == [ret |-> ret, ss |-> ss, i |-> i]

\* Faulty variant: a setup that fails keeps the session it took.
SetupKeepsSession(ss, algo, mode, keylen, keyset) ==
  LET i == mtls_get_unused_session_index(ss)
  IN  IF algo # "AES" \/ mode \notin Supported \/ keylen \notin {16, 24, 32} THEN Setup("EINVAL", ss, 0)
      ELSE IF i = 0 THEN Setup("ENOSPC", ss, 0)
      ELSE LET taken == [ss EXCEPT ![i].in_use = TRUE, ![i].holds = mode, ![i].mode = mode]
           IN  IF keyset THEN Setup("ok", taken, i) ELSE Setup("EINVAL", taken, 0)

\* keyset: whether mbedtls_*_setkey succeeds.  A failed setup gives its
\* session back.
mtls_session_setup(ss, algo, mode, keylen, keyset) ==
  LET i == mtls_get_unused_session_index(ss)
  IN  IF algo # "AES" \/ mode \notin Supported \/ keylen \notin {16, 24, 32} THEN Setup("EINVAL", ss, 0)
      ELSE IF i = 0 THEN Setup("ENOSPC", ss, 0)
      ELSE IF ~keyset THEN Setup("EINVAL", [ss EXCEPT ![i].holds = mode], 0)
      ELSE Setup("ok", [ss EXCEPT ![i].in_use = TRUE, ![i].holds = mode, ![i].mode = mode], i)

\* Every mode but CCM and GCM holds an AES context.
mtls_session_free(ss, i) == [ss EXCEPT ![i].in_use = FALSE, ![i].holds = "none"]

Blocks(n) == 16 * ((n + 15) \div 16)
IvBytes(pkt) == IF pkt.prefix THEN 16 ELSE 0
Moves(read, wrote, out) == [read |-> read, wrote |-> wrote, out_len |-> out]

mtls_ecb_encrypt(pkt) == Moves(Blocks(pkt.in_len), Blocks(pkt.in_len), Blocks(pkt.in_len))
mtls_ecb_decrypt(pkt) == Moves(Blocks(pkt.in_len), Blocks(pkt.in_len), Blocks(pkt.in_len))
\* The vector goes in front of the ciphertext unless CAP_NO_IV_PREFIX is set.
mtls_cbc_encrypt(pkt) ==
  Moves(pkt.in_len, pkt.in_len + IvBytes(pkt), pkt.in_len + IvBytes(pkt))
\* in_len counts the vector, and in_len bytes after it are deciphered.
mtls_cbc_decrypt(pkt) ==
  Moves(IvBytes(pkt) + pkt.in_len, pkt.in_len, pkt.in_len - IvBytes(pkt))
mtls_ctr_encrypt(pkt) == Moves(pkt.in_len, pkt.in_len, pkt.in_len)
mtls_ccm_encrypt_auth(pkt) == Moves(pkt.in_len, pkt.in_len, pkt.in_len + pkt.tag)
mtls_ccm_decrypt_auth(pkt) == Moves(pkt.in_len, pkt.in_len, pkt.in_len + pkt.tag)
mtls_gcm_encrypt_auth(pkt) == Moves(pkt.in_len, pkt.in_len, pkt.in_len + pkt.tag)
mtls_gcm_decrypt_auth(pkt) == Moves(pkt.in_len, pkt.in_len, pkt.in_len + pkt.tag)

\* The handler a setup stores in the context; CTR has one for both ways.
Handler(mode, op, pkt) ==
  CASE mode = "ECB" /\ op = "enc" -> mtls_ecb_encrypt(pkt)
    [] mode = "ECB" /\ op = "dec" -> mtls_ecb_decrypt(pkt)
    [] mode = "CBC" /\ op = "enc" -> mtls_cbc_encrypt(pkt)
    [] mode = "CBC" /\ op = "dec" -> mtls_cbc_decrypt(pkt)
    [] mode = "CTR" -> mtls_ctr_encrypt(pkt)
    [] mode = "CCM" /\ op = "enc" -> mtls_ccm_encrypt_auth(pkt)
    [] mode = "CCM" /\ op = "dec" -> mtls_ccm_decrypt_auth(pkt)
    [] mode = "GCM" /\ op = "enc" -> mtls_gcm_encrypt_auth(pkt)
    [] mode = "GCM" /\ op = "dec" -> mtls_gcm_decrypt_auth(pkt)

----------------------------------------------------------------------------
(***************************************************************************)
(* The mode functions.  All of them begin a session, encrypt, compare if   *)
(* expect is set, free the session, and do the same to decrypt.            *)
(* stop: the failures that are followed by an assertion; match: whether    *)
(* the decrypted text is compared.                                         *)
(***************************************************************************)
ModeFn(algo, mode, expect, match, stop, in, encmax, decin, decmax, prefix, tag) ==
  [algo |-> algo, mode |-> mode, expect |-> expect, match |-> match, stop |-> stop,
   pkt |-> [enc |-> [in_len |-> in, cap |-> in, max |-> encmax, prefix |-> prefix, tag |-> tag],
            dec |-> [in_len |-> decin, cap |-> encmax, max |-> decmax, prefix |-> prefix, tag |-> tag]]]

\* aes256: the buffers have the length of the plaintext.
OfTest(mode, stop, n, tag) == ModeFn("AES", mode, FALSE, TRUE, stop, n, n, n, n, FALSE, tag)
EveryFailure == {"begin_enc", "enc", "begin_dec", "dec", "match"}
aes256_ecb_mode(n) == OfTest("ECB", EveryFailure, n, 0)
aes256_cbc_mode(n) == OfTest("CBC", EveryFailure, n, 0)
aes256_ctr_mode(n) == OfTest("CTR", {}, n, 0)
aes256_ccm_mode(n) == OfTest("CCM", EveryFailure, n, 16)
aes256_gcm_mode(n) == OfTest("GCM", {"begin_dec", "dec", "match"}, n, 16)

crypto_ecb_mode == ModeFn("AES", "ECB", TRUE, TRUE, {}, 16, 16, 16, 16, FALSE, 0)
crypto_cbc_mode == ModeFn("AES", "CBC", TRUE, TRUE, {}, 64, 80, 80, 64, TRUE, 0)
crypto_ctr_mode == ModeFn("AES", "CTR", TRUE, TRUE, {}, 64, 64, 64, 64, FALSE, 0)
crypto_ccm_mode == ModeFn("AES", "CCM", TRUE, TRUE, {}, 23, 50, 23, 25, FALSE, 8)
crypto_gcm_mode == ModeFn("AES", "GCM", TRUE, TRUE, {}, 42, 60, 42, 44, FALSE, 16)

sm4_ecb_mode == ModeFn("SM4", "ECB", TRUE, TRUE, {}, 64, 64, 64, 64, FALSE, 0)
sm4_cbc_mode == ModeFn("SM4", "CBC", TRUE, TRUE, {}, 64, 64, 64, 64, TRUE, 0)
sm4_ctr_mode == ModeFn("SM4", "CTR", TRUE, TRUE, {}, 64, 64, 64, 64, FALSE, 0)
sm4_ccm_mode == ModeFn("SM4", "CCM", TRUE, FALSE, {}, 64, 64, 64, 64, FALSE, 16)
sm4_gcm_mode == ModeFn("SM4", "GCM", TRUE, FALSE, {}, 64, 64, 64, 64, FALSE, 16)

\* The rounds of a test: every length, and for each every length of the key.
Rounds(F(_)) ==
  [k \in 1 .. 3 * Len(Lens) |-> [fn |-> F(Lens[(k - 1) \div 3 + 1]), keylen |-> 16 + 8 * ((k - 1) % 3)]]
test_ecb == Rounds(aes256_ecb_mode)
test_cbc == Rounds(aes256_cbc_mode)
test_ctr == Rounds(aes256_ctr_mode)
test_ccm == Rounds(aes256_ccm_mode)
test_gcm == Rounds(aes256_gcm_mode)

Once(fn) == <<[fn |-> fn, keylen |-> 16]>>
aes256_main == test_ecb \o test_cbc \o test_ctr \o test_ccm \o test_gcm
crypto_main == Once(crypto_ecb_mode) \o Once(crypto_cbc_mode) \o Once(crypto_ctr_mode)
               \o Once(crypto_ccm_mode) \o Once(crypto_gcm_mode)
sm4_main == Once(sm4_ecb_mode) \o Once(sm4_cbc_mode) \o Once(sm4_ctr_mode)
            \o Once(sm4_gcm_mode) \o Once(sm4_ccm_mode)
Plan(app) == CASE app = "aes256" -> aes256_main [] app = "crypto" -> crypto_main
               [] app = "sm4" -> sm4_main

----------------------------------------------------------------------------
(***************************************************************************)
(* The programs.  ci.r: the round, ci.dev: the device ("sw", "hw"; crypto  *)
(* and sm4 have one, taken as "hw"); ci.i: the session in the context;     *)
(* ci.ct: the ciphertext buffers; ci.same: whether the buffer of decrypted *)
(* text holds the plaintext of this round (one that is not initialised is  *)
(* taken not to); ci.bad and ci.log: what went wrong in this round and     *)
(* what was reported of it.                                                *)
(***************************************************************************)
Zeros == [sw |-> "zero", hw |-> "zero"]

FirstDev(app) == IF app = "aes256" THEN "sw" ELSE "hw"

\* validate_hw_compatibility: a device without the capabilities ends main.
Init ==
  \E app \in {"aes256", "crypto", "sm4", "hash"}, a \in Asserts, compatible \in BOOLEAN :
    ci = [app |-> app, asserts |-> a, r |-> 1, dev |-> FirstDev(app),
          pc |-> IF app = "hash" THEN "hash" ELSE IF compatible THEN "begin_enc" ELSE "done",
          ss |-> [i \in 1..MaxSession |-> FreeSession], hwOpen |-> 0, i |-> 0,
          ct |-> Zeros, same |-> FALSE, bad |-> {}, log |-> {}, moved |-> Moves(0, 0, 0),
          h |-> [x \in Handles |-> [i |-> 0, started |-> FALSE, want |-> <<>>, out |-> <<>>, due |-> <<>>]]]

Round == Plan(ci.app)[ci.r]
Fn == Round.fn
Op == IF ci.pc \in {"begin_enc", "enc"} THEN "enc" ELSE "dec"

\* The mode function returns: to the next device, to the comparison of the
\* two ciphertexts, or to the next round.
Return(s) ==
  [s EXCEPT !.i = 0,
            !.dev = IF s.app = "aes256" THEN "hw" ELSE @,
            !.pc = IF s.app = "aes256" THEN (IF s.dev = "sw" THEN "begin_enc" ELSE "compare")
                   ELSE "next"]

\* An assertion after a failure stops the program if it is compiled in.
Failed(s, where) ==
  LET t == [s EXCEPT !.log = IF where \in {"begin_enc", "begin_dec"} THEN @ ELSE @ \cup {where}]
  IN  IF ci.asserts /\ where \in Fn.stop THEN [t EXCEPT !.pc = "halt"]
      ELSE IF where \in {"begin_enc", "begin_dec"} THEN Return(t)
      ELSE [t EXCEPT !.pc = "out"]

\* cipher_begin_session on the shim, or on the device that is not here.
Begin ==
  /\ ci.pc \in {"begin_enc", "begin_dec"}
  /\ \E ok \in BOOLEAN :
       LET set == mtls_session_setup(ci.ss, Fn.algo, Fn.mode, Round.keylen, ok)
           good == IF ci.dev = "sw" THEN set.ret = "ok" ELSE ok
           s == IF ci.dev = "sw" THEN [ci EXCEPT !.ss = set.ss, !.i = set.i]
                ELSE [ci EXCEPT !.hwOpen = IF ok THEN @ + 1 ELSE @]
       IN  ci' = IF good THEN [s EXCEPT !.pc = IF ci.pc = "begin_enc" THEN "enc" ELSE "dec"]
                 ELSE Failed(s, ci.pc)

WrongOf(dev) == IF dev = "sw" THEN "wrong_sw" ELSE "wrong_hw"

\* The encryption, and the comparison with the known ciphertext.
Encrypt ==
  /\ ci.pc = "enc"
  /\ \/ ci' = Failed(ci, "enc")
     \/ \E out \in {"right", WrongOf(ci.dev)} :
          LET s == [ci EXCEPT !.ct[ci.dev] = out,
                              !.moved = IF ci.dev = "sw" THEN Handler(Fn.mode, "enc", Fn.pkt.enc) ELSE @,
                              !.bad = IF out = "right" THEN @ ELSE @ \cup {"ciphertext"}]
          IN  ci' = IF Fn.expect /\ out # "right" THEN Failed(s, "expect") ELSE [s EXCEPT !.pc = "free"]

\* cipher_free_session between the two halves, and at the end.
Release(s) ==
  IF s.dev = "sw" THEN [s EXCEPT !.ss = mtls_session_free(s.ss, s.i), !.i = 0]
  ELSE [s EXCEPT !.hwOpen = @ - 1]
FreeMid == ci.pc = "free" /\ ci' = [Release(ci) EXCEPT !.pc = "begin_dec"]
Out == ci.pc = "out" /\ ci' = Return(Release(ci))

\* The decryption.  A device that writes nothing leaves the buffer as it is: where
\* the other device has deciphered the text of this round into it, that is masked.
Decrypt ==
  /\ ci.pc = "dec"
  /\ \/ ci' = Failed(ci, "dec")
     \/ \E out \in {"right", "wrong", "nothing"} :
          LET same == IF out = "nothing" THEN ci.same ELSE out = "right"
              s == [ci EXCEPT !.same = same,
                              !.moved = IF ci.dev = "sw" THEN Handler(Fn.mode, "dec", Fn.pkt.dec) ELSE @,
                              !.bad = IF ~Fn.match \/ out = "right" THEN @
                                      ELSE @ \cup {IF same THEN "masked" ELSE "plaintext"}]
          IN  ci' = IF Fn.match /\ ~same THEN Failed(s, "match") ELSE [s EXCEPT !.pc = "out"]

\* aes256: memcmp of the two ciphertexts (and of the tags of CCM and GCM).
Compare ==
  /\ ci.pc = "compare"
  /\ LET differ == ci.ct.sw # ci.ct.hw
     IN  ci' = [ci EXCEPT !.log = IF differ THEN @ \cup {"compare"} ELSE @,
                          !.pc = IF differ /\ ci.asserts THEN "halt" ELSE "next"]

\* The next round: new random data, and the ciphertext buffers cleared.
NextRound ==
  /\ ci.pc = "next"
  /\ ci' = IF ci.r = Len(Plan(ci.app)) THEN [ci EXCEPT !.pc = "done"]
           ELSE [ci EXCEPT !.r = @ + 1, !.dev = FirstDev(ci.app), !.pc = "begin_enc", !.ct = Zeros,
                           !.same = FALSE, !.bad = {}, !.log = {}]

----------------------------------------------------------------------------
(***************************************************************************)
(* A client of the hash half of the shim: contexts that begin, hash pieces *)
(* and free in any order.  want: the pieces since the digest was last      *)
(* finished or lost; due, out: the digest it should have had and had.      *)
(***************************************************************************)
Algos == {"SHA224", "SHA256", "SHA384", "SHA512", "SM3"}

mtls_hash_session_setup(x, algo) ==
  /\ ci.pc = "hash" /\ ci.h[x].i = 0
  /\ LET i == mtls_get_unused_session_index(ci.ss)
     IN  IF algo = "SM3" \/ i = 0 THEN ci' = ci
         ELSE ci' = [ci EXCEPT !.ss[i].in_use = TRUE, !.ss[i].mode = algo, !.ss[i].holds = algo,
                               !.ss[i].fed = <<>>,
                               !.h[x] = [i |-> i, started |-> FALSE, want |-> <<>>, out |-> <<>>, due |-> <<>>]]

\* mtls_sha256_compute and mtls_sha512_compute: starts if the context is not
\* started, update, finish if asked to.  fail: the call that fails.
Compute(x, fin, fail) ==
  LET c == ci.h[x]
      fed == IF c.started THEN Append(ci.ss[c.i].fed, x) ELSE <<x>>
      lost == fail # "none"
  IN  /\ fail = "starts" => ~c.started
      /\ fail = "finish" => fin
      /\ ci' = [ci EXCEPT !.ss[c.i].fed = IF fail \in {"starts", "update"} THEN @ ELSE fed,
                          !.h[x].started = ~fin /\ ~lost,
                          !.h[x].want = IF lost \/ fin THEN <<>> ELSE Append(c.want, x),
                          !.h[x].out = IF fin /\ ~lost THEN fed ELSE @,
                          !.h[x].due = IF fin /\ ~lost THEN Append(c.want, x) ELSE @]

Narrow(x) == ci.ss[ci.h[x].i].mode \in {"SHA224", "SHA256"}
MaxPieces == 2
mtls_sha256_compute(x, fin, fail) ==
  /\ ci.pc = "hash" /\ ci.h[x].i # 0 /\ Narrow(x) /\ Len(ci.h[x].want) < MaxPieces
  /\ Compute(x, fin, fail)
mtls_sha512_compute(x, fin, fail) ==
  /\ ci.pc = "hash" /\ ci.h[x].i # 0 /\ ~Narrow(x) /\ Len(ci.h[x].want) < MaxPieces
  /\ Compute(x, fin, fail)

\* Only SHA-256 is freed as a SHA-256 context (SHA-224 is freed as SHA-512).
mtls_hash_session_free(x) ==
  /\ ci.pc = "hash" /\ ci.h[x].i # 0
  /\ ci' = [ci EXCEPT !.ss[ci.h[x].i] = [FreeSession EXCEPT !.mode = ci.ss[ci.h[x].i].mode],
                      !.h[x].i = 0, !.h[x].want = <<>>, !.h[x].started = FALSE]

HashClient ==
  \E x \in Handles :
    \/ \E algo \in Algos : mtls_hash_session_setup(x, algo)
    \/ \E fin \in BOOLEAN, fail \in {"none", "starts", "update", "finish"} :
         mtls_sha256_compute(x, fin, fail) \/ mtls_sha512_compute(x, fin, fail)
    \/ mtls_hash_session_free(x)

Next == Begin \/ Encrypt \/ FreeMid \/ Out \/ Decrypt \/ Compare \/ NextRound \/ HashClient

----------------------------------------------------------------------------
\* Between two rounds, and when main returns, every session is free again on
\* both devices, whatever has failed; and a hash context owns a session of
\* its own.  (A setup that fails after it took a session, a mode function
\* that returns past its free, or one that frees twice, breaks it.)
SessionsReturned ==
  /\ ci.pc \in {"next", "compare", "done"} =>
       ci.hwOpen = 0 /\ \A i \in 1..MaxSession : ~ci.ss[i].in_use
  /\ ci.app = "hash" =>
       /\ \A i \in 1..MaxSession :
            ci.ss[i].in_use <=> Cardinality({x \in Handles : ci.h[x].i = i}) = 1
       /\ \A x, y \in Handles : x # y /\ ci.h[x].i # 0 => ci.h[x].i # ci.h[y].i

\* What a device computed wrongly in a round is reported in that round: by
\* the comparison with the known text, with the plaintext or with the other
\* device, unless an assertion stopped the program.  A decryption that writes
\* nothing is not reported where its buffer holds the right text already, which
\* is so only for the second device of aes256: the two share the buffer.  A
\* digest covers exactly the pieces since the last one.
WrongOutputReported ==
  /\ ci.pc = "next" /\ ci.bad \ {"masked"} # {} => ci.log # {}
  /\ "masked" \in ci.bad => ci.app = "aes256" /\ ci.dev = "hw"
  /\ \A x \in Handles : ci.h[x].out = ci.h[x].due

\* The shim reads no more than the caller's input and writes no more than
\* out_buf_max, for every packet aes256 gives it.
WithinBuffers ==
  ci.app = "aes256" /\ ci.dev = "sw" =>
    /\ ci.pc = "free" => ci.moved.read <= Fn.pkt.enc.cap /\ ci.moved.wrote <= Fn.pkt.enc.max
    /\ ci.pc = "out" /\ "enc" \notin ci.log /\ "expect" \notin ci.log /\ "dec" \notin ci.log =>
         ci.moved.read <= Fn.pkt.dec.cap /\ ci.moved.wrote <= Fn.pkt.dec.max

Spec == Init /\ [][Next]_ci
=============================================================================
