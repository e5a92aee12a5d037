----------------------------- MODULE HashSuite ------------------------------
(***************************************************************************)
(* samples/mbedtls_hash/src/main.c: the test of the hash engine.  For each *)
(* algorithm, each length and each offset of the data in s_base, the       *)
(* digest of one update (hash_ref) is compared with the digest of the same *)
(* data fed in pieces, cut in a dozen ways.                                *)
(*                                                                         *)
(* mbedtls and the engine are not in the repository: a call succeeds or    *)
(* fails, and a digest is right or wrong.  A right digest is a value that  *)
(* stands for the bytes that were hashed: where they start and how many.   *)
(* A wrong one differs from every other (an engine that is wrong in the    *)
(* same way each time passes this test).                                   *)
(***************************************************************************)
EXTENDS Integers, Sequences

CONSTANTS Lengths,       \* the lengths under test, in order
          Offsets,       \* offsets[]
          Draws          \* what xorshift32 may return

VARIABLE hs

----------------------------------------------------------------------------
(***************************************************************************)
(* How each function cuts the data: the pieces it may want at the s-th     *)
(* round, before they are cut to what remains.  zero: an empty update goes *)
(* first.                                                                  *)
(***************************************************************************)
Piece(n) == {[size |-> n, zero |-> FALSE]}
Cycle(steps, s) == Piece(steps[(s % Len(steps)) + 1])

hash_multi_random_max(max) == UNION {Piece((r % max) + 1) : r \in Draws}
hash_multi_random == hash_multi_random_max(512)
hash_multi_random_zero_splice(max, s) ==
  {[size |-> (r % max) + 1, zero |-> (r \div 256) % 2 = 1 /\ s > 0] : r \in Draws}
hash_multi_alternating(s) == Cycle(<<1024, 1>>, s)
hash_multi_boundary(s) ==
  Cycle(<<1, 63, 64, 65, 127, 128, 129, 255, 256, 257, 511, 512, 513,
          1023, 1024, 1025, 2047, 2048, 2049>>, s)
hash_multi_large_steps(s) ==
  Cycle(<<1, 63, 64, 65, 127, 128, 129, 255, 256, 257, 511, 512, 513, 1023, 1024, 1025,
          2047, 2048, 2049, 4095, 4096, 4097, 8127, 8128, 8129, 8191, 8192, 8193, 16383, 16384>>, s)
hash_multi_tiny == Piece(1)
hash_multi_aligned_dma == Piece(8192)
hash_multi_large_cpu == Piece(8192)
hash_mixed_dma_cpu(s) ==
  Cycle(<<8192, 63, 8192, 65, 1024, 1, 512, 7, 4096, 31, 2048, 1,
          8128, 64, 8128, 65, 128, 127, 128, 1>>, s)
hash_single_aligned_dma(len) == Piece(len)
hash_ref(len) == Piece(len)

\* The same functions for SHA-384 and SHA-512; the blocks have 128 bytes.
hash_multi_random_max_sha512(max) == UNION {Piece((r % max) + 1) : r \in Draws}
hash_multi_random_sha512 == hash_multi_random_max_sha512(512)
hash_multi_random_zero_splice_sha512(max, s) ==
  {[size |-> (r % max) + 1, zero |-> (r \div 256) % 2 = 1 /\ s > 0] : r \in Draws}
hash_multi_alternating_sha512(s) == Cycle(<<1024, 1>>, s)
hash_multi_boundary_sha512(s) ==
  Cycle(<<1, 127, 128, 129, 255, 256, 257, 511, 512, 513, 1023, 1024, 1025, 2047, 2048, 2049>>, s)
hash_multi_large_steps_sha512(s) ==
  Cycle(<<1, 127, 128, 129, 255, 256, 257, 511, 512, 513, 1023, 1024, 1025, 2047, 2048, 2049,
          4095, 4096, 4097, 8127, 8128, 8129, 8191, 8192, 8193, 16383, 16384>>, s)
hash_multi_tiny_sha512 == Piece(1)
hash_multi_aligned_dma_sha512 == Piece(8192)
hash_multi_large_cpu_sha512 == Piece(8192)
hash_mixed_dma_cpu_sha512(s) ==
  Cycle(<<8192, 63, 8192, 65, 1024, 1, 512, 7, 4096, 31, 2048, 1,
          8128, 64, 8128, 65, 128, 127, 128, 1>>, s)
hash_single_aligned_dma_sha512(len) == Piece(len)
hash_ref_sha512(len) == Piece(len)

Pieces256(mode, s, len) ==
  CASE mode = "REF" -> hash_ref(len)
    [] mode = "RANDOM64" -> hash_multi_random_max(64)
    [] mode = "RANDOM512" -> hash_multi_random
    [] mode = "RANDOM8192" -> hash_multi_random_max(8192)
    [] mode = "ZERO_SPLICE" -> hash_multi_random_zero_splice(512, s)
    [] mode = "ALTERNATING" -> hash_multi_alternating(s)
    [] mode = "BOUNDARY" -> hash_multi_boundary(s)
    [] mode = "LARGE_STEPS" -> hash_multi_large_steps(s)
    [] mode = "TINY" -> hash_multi_tiny
    [] mode = "ALIGNED_DMA" -> hash_multi_aligned_dma
    [] mode = "LARGE_CPU" -> hash_multi_large_cpu
    [] mode = "SINGLE_ALIGNED_DMA" -> hash_single_aligned_dma(len)
    [] mode = "MIXED_DMA_CPU" -> hash_mixed_dma_cpu(s)

Pieces512(mode, s, len) ==
  CASE mode = "REF" -> hash_ref_sha512(len)
    [] mode = "RANDOM64" -> hash_multi_random_max_sha512(64)
    [] mode = "RANDOM512" -> hash_multi_random_sha512
    [] mode = "RANDOM8192" -> hash_multi_random_max_sha512(8192)
    [] mode = "ZERO_SPLICE" -> hash_multi_random_zero_splice_sha512(512, s)
    [] mode = "ALTERNATING" -> hash_multi_alternating_sha512(s)
    [] mode = "BOUNDARY" -> hash_multi_boundary_sha512(s)
    [] mode = "LARGE_STEPS" -> hash_multi_large_steps_sha512(s)
    [] mode = "TINY" -> hash_multi_tiny_sha512
    [] mode = "ALIGNED_DMA" -> hash_multi_aligned_dma_sha512
    [] mode = "LARGE_CPU" -> hash_multi_large_cpu_sha512
    [] mode = "SINGLE_ALIGNED_DMA" -> hash_single_aligned_dma_sha512(len)
    [] mode = "MIXED_DMA_CPU" -> hash_mixed_dma_cpu_sha512(s)

----------------------------------------------------------------------------
(***************************************************************************)
(* What a suite does with one length: calls, each with the start of its    *)
(* data, the digest it writes and whether the two are compared after it.   *)
(***************************************************************************)
Ref(at, cmp) == [mode |-> "REF", at |-> at, out |-> "ref", cmp |-> cmp]
Multi(mode, at) == [mode |-> mode, at |-> at, out |-> "multi", cmp |-> TRUE]

\* A call on s_aligned, whose reference is computed afterwards.
OnAligned(mode) ==
  <<[mode |-> mode, at |-> 0, out |-> "multi", cmp |-> FALSE], Ref(0, TRUE)>>

\* The body of the loop over the offsets.
OffsetCalls(total, off) ==
  <<Ref(off, FALSE), Multi("RANDOM64", off), Multi("RANDOM512", off), Multi("RANDOM8192", off),
    Multi("ZERO_SPLICE", off), Multi("ALTERNATING", off), Multi("BOUNDARY", off),
    Multi("LARGE_STEPS", off)>>
  \o (IF total <= 512 THEN <<Multi("TINY", off)>> ELSE <<>>)
  \o OnAligned("ALIGNED_DMA")

\* What follows it for each length.
LengthCalls(total) ==
  <<Ref(1, FALSE), Multi("LARGE_CPU", 1)>>
  \o (IF total > 0 THEN OnAligned("SINGLE_ALIGNED_DMA") \o OnAligned("MIXED_DMA_CPU") ELSE <<>>)

\* The calls of the oi-th offset, and those after the loop over the offsets.
run_test_suite(total, oi) ==
  IF oi <= Len(Offsets) THEN OffsetCalls(total, Offsets[oi]) ELSE LengthCalls(total)

\* Lines for lines the same suite, over the SHA-512 functions.
OffsetCallsSha512(total, off) == OffsetCalls(total, off)
LengthCallsSha512(total) == LengthCalls(total)
run_test_suite_sha512(total, oi) ==
  IF oi <= Len(Offsets) THEN OffsetCallsSha512(total, Offsets[oi]) ELSE LengthCallsSha512(total)

Suites == <<"SHA-256", "SHA-224", "SM3", "SHA-384", "SHA-512">>
Wide(suite) == suite \in {"SHA-384", "SHA-512"}
CallsOf(suite, total, oi) ==
  IF Wide(suite) THEN run_test_suite_sha512(total, oi) ELSE run_test_suite(total, oi)
PiecesOf(suite, mode, s, len) ==
  IF Wide(suite) THEN Pieces512(mode, s, len) ELSE Pieces256(mode, s, len)

\* The functions that call update once, whatever the length.
Once(mode) == mode \in {"REF", "SINGLE_ALIGNED_DMA"}

\* The functions that count their rounds; the others only tell the first.
Counts(mode) == mode \in {"ALTERNATING", "BOUNDARY", "LARGE_STEPS", "MIXED_DMA_CPU"}

----------------------------------------------------------------------------
(***************************************************************************)
(* The program.  hs.su, hs.li, hs.oi and hs.ci: suite, length, offset and  *)
(* call, where the offset after the last stands for what follows the loop; *)
(* hs.off, hs.s and hs.msg: bytes and rounds so far of a call in progress, *)
(* and what its context has taken in; hs.ref, hs.multi: s_ref, s_multi.    *)
(***************************************************************************)
Nothing == [from |-> 0, n |-> 0]
Wrong == [from |-> -1, n |-> 0]

Init ==
  hs = [pc |-> "call", su |-> 1, li |-> 1, oi |-> 1, ci |-> 1, off |-> 0, s |-> 0,
        msg |-> Nothing, ref |-> Wrong, multi |-> Wrong, ret |-> 0, broken |-> FALSE]

Total == Lengths[hs.li]
Calls == CallsOf(Suites[hs.su], Total, hs.oi)
Call == Calls[hs.ci]

\* mbedtls_*_update: the context takes in n bytes that start at p.
Take(msg, p, n) ==
  IF n = 0 THEN msg
  ELSE IF msg.n = 0 THEN [from |-> p, n |-> n]
  ELSE IF p = msg.from + msg.n THEN [msg EXCEPT !.n = @ + n]
  ELSE Wrong

\* Faulty variant: main keeps the result of the last suite only.
LastSuiteDecides(r) ==
  [hs EXCEPT !.ret = r,
             !.pc = IF hs.su = Len(Suites) THEN "bulk" ELSE "call",
             !.su = IF hs.su = Len(Suites) THEN 1 ELSE @ + 1,
             !.li = 1, !.oi = 1, !.ci = 1, !.off = 0, !.s = 0, !.msg = Nothing]

\* The suite ends with r; main goes on with the next, then to the bulk tests.
SuiteEnds(r) ==
  [hs EXCEPT !.ret = IF r # 0 THEN r ELSE @,
             !.pc = IF hs.su = Len(Suites) THEN "bulk" ELSE "call",
             !.su = IF hs.su = Len(Suites) THEN 1 ELSE @ + 1,
             !.li = 1, !.oi = 1, !.ci = 1, !.off = 0, !.s = 0, !.msg = Nothing]

\* A library call fails: the context is freed and the suite returns at once.
Fails == hs' = [SuiteEnds(-1) EXCEPT !.broken = TRUE]

\* init and starts.
Starts ==
  /\ hs.pc = "call"
  /\ \/ hs' = [hs EXCEPT !.pc = "update", !.off = 0, !.s = 0, !.msg = Nothing]
     \/ Fails

\* One round of the loop: an empty update before it or not, then the piece.
Update ==
  /\ hs.pc = "update"
  /\ IF Once(Call.mode) THEN hs.s = 0 ELSE hs.off < Total
  /\ \/ \E p \in PiecesOf(Suites[hs.su], Call.mode, hs.s, Total) :
          LET n == IF p.size > Total - hs.off THEN Total - hs.off ELSE p.size
              m == IF p.zero THEN Take(hs.msg, Call.at + hs.off, 0) ELSE hs.msg
          IN  hs' = [hs EXCEPT !.msg = Take(m, Call.at + hs.off, n), !.off = @ + n,
                            !.s = IF Counts(Call.mode) THEN @ + 1 ELSE 1]
     \/ Fails

\* finish and free, the memcmp if the caller compares now, and the next call.
Finish ==
  /\ hs.pc = "update"
  /\ IF Once(Call.mode) THEN hs.s > 0 ELSE hs.off >= Total
  /\ \/ Fails
     \/ \E digest \in {hs.msg, Wrong} :
          LET done == [hs EXCEPT ![Call.out] = digest, !.broken = @ \/ digest = Wrong]
              last == hs.ci = Len(Calls)
              through == last /\ hs.oi > Len(Offsets)
              differ == Call.cmp /\ (done.ref # done.multi \/ Wrong \in {done.ref, done.multi})
          IN  hs' = IF differ THEN [SuiteEnds(-1) EXCEPT !.broken = done.broken]
                    ELSE IF through /\ hs.li = Len(Lengths) THEN [SuiteEnds(0) EXCEPT !.broken = done.broken]
                    ELSE [done EXCEPT !.pc = "call", !.ci = IF last THEN 1 ELSE @ + 1,
                                      !.oi = IF through THEN 1 ELSE IF last THEN @ + 1 ELSE @,
                                      !.li = IF through THEN @ + 1 ELSE @,
                                      !.off = 0, !.s = 0, !.msg = Nothing]

\* The bulk tests of SHA-256, SHA-384 and SHA-512: starts, update, finish,
\* free.  A failure is printed, and main does not hear of it.
Bulks == {IF ok.starts /\ ok.update /\ ok.finish THEN 0 ELSE -1 :
            ok \in [{"starts", "update", "finish"} -> BOOLEAN]}
hash_bulk_single_dma == Bulks
hash_bulk_single_dma_sha512 == Bulks
print_bulk_single_dma == \E err \in hash_bulk_single_dma : hs' = [hs EXCEPT !.su = @ + 1]
print_bulk_single_dma_sha512 ==
  \E err \in hash_bulk_single_dma_sha512 :
    hs' = [hs EXCEPT !.su = @ + 1, !.pc = IF hs.su = 3 THEN "done" ELSE @]
Bulk ==
  /\ hs.pc = "bulk"
  /\ IF hs.su = 1 THEN print_bulk_single_dma ELSE print_bulk_single_dma_sha512

Next == Starts \/ Update \/ Finish \/ Bulk

\* The program ends, and its verdict is right: main returns an error exactly
\* if a library call of a suite failed or a digest was wrong.  A suite that
\* skips or repeats a byte, or compares with the reference of other data,
\* reports a failure of its own; one whose result is lost reports none.
VerdictTells == hs.pc = "done" => (hs.ret # 0 <=> hs.broken)

Spec == Init /\ [][Next]_hs /\ WF_hs(Next)
=============================================================================
