---------------------------- MODULE CryptoTests -----------------------------
(***************************************************************************)
(* The programs that test and measure the cryptographic libraries:         *)
(* samples/crypto_sw_hw_alignment_test, samples/mbedtls_test,              *)
(* samples/mbedtls_throughput and samples/wolfssl_hw_throughput_rate.      *)
(* Each is a list of functions that main calls in turn; a function is      *)
(* straight-line code of library calls on contexts, comparisons and        *)
(* returns.  A function is written here as that line of instructions, and  *)
(* the actions below run it.                                               *)
(*                                                                         *)
(* wolfSSL, mbedtls and the engines are not in the repository: a call may  *)
(* fail, and one that writes an output may write a wrong one without       *)
(* failing.  A value is the sequence of what went into it; an output that  *)
(* is wrong differs from all others.  A buffer nothing was written to      *)
(* holds its own name: an input, or what the stack happened to hold.       *)
(***************************************************************************)
EXTENDS Integers, Sequences, SequencesExt, FiniteSets

CONSTANTS Times,       \* rounds of a loop that does the same each time (5, 10 or 20)
          Lengths,     \* test_lengths[]
          CaseLengths, \* the lengths of test_sha256_various_lengths
          TotalSize, Steps,    \* TEST_TOTAL_SIZE and step_sizes[], in KB
          Builds,      \* sets of what the build has compiled in
          MaxFaults    \* calls that go wrong within one function

VARIABLE ct

----------------------------------------------------------------------------
(***************************************************************************)
(* Instructions.  err: what the code does when the call has failed.        *)
(***************************************************************************)
Exit(cs) == [how |-> "return", free |-> cs]       \* goto exit, which frees cs
Ret == Exit(<<>>)                                 \* return at once
Hang == [how |-> "hang", free |-> <<>>]           \* while (1);
Ignored == [how |-> "ignore", free |-> <<>>]      \* the result is not looked at
Void == [how |-> "void", free |-> <<>>]           \* nothing to fail

New(c, alg, err) == [op |-> "new", c |-> c, x |-> alg, err |-> err]
Put(c, x, err) == [op |-> "put", c |-> c, x |-> x, err |-> err]
Key(c, k, err) == [op |-> "key", c |-> c, x |-> k, err |-> err]
PutBytes(c, n, err) == [op |-> "bytes", c |-> c, n |-> n, err |-> err]   \* of 0x02
Get(c, y, err) == [op |-> "get", c |-> c, y |-> y, err |-> err]
Peek(c, y, err) == [op |-> "peek", c |-> c, y |-> y, err |-> err]
Raw(c, y, err) == [op |-> "raw", c |-> c, y |-> y, err |-> err]
Dup(c, d, err) == [op |-> "dup", c |-> c, d |-> d, err |-> err]
Enc(c, x, y, err) == [op |-> "enc", c |-> c, x |-> x, y |-> y, err |-> err]
Dec(c, x, y, err) == [op |-> "dec", c |-> c, x |-> x, y |-> y, err |-> err]
Sign(c, x, y, err) == [op |-> "sign", c |-> c, x |-> x, y |-> y, err |-> err]
Verify(c, x, y, err) == [op |-> "verify", c |-> c, x |-> x, y |-> y, err |-> err]
Use(c, err) == [op |-> "use", c |-> c, err |-> err]
Free(c) == [op |-> "free", c |-> c, err |-> Void]
Same(x, y, err) == [op |-> "same", x |-> x, y |-> y, err |-> err]
Is(x, v, err) == [op |-> "is", x |-> x, v |-> v, err |-> err]
Const(y, v) == [op |-> "const", y |-> y, v |-> v, err |-> Void]
Read(y, v, err) == [op |-> "const", y |-> y, v |-> v, err |-> err]       \* from a string

Repeat(n, code) == FlattenSeq([i \in 1..n |-> code])
Over(s, Code(_)) == FlattenSeq([i \in 1..Len(s) |-> Code(s[i])])

HashOf(alg, x) == <<"H", alg>> \o x
CipherOf(alg, key, x) == <<"E", alg, key>> \o x
SignatureOf(alg, key, x) == <<"S", alg, key>> \o x

----------------------------------------------------------------------------
(***************************************************************************)
(* crypto_sw_hw_alignment_test.  wc_*Init on a context resets it.          *)
(***************************************************************************)
compare_results(a, b) == <<Same(a, b, Hang)>>

TestOnce(alg, len) ==
  <<New("ctx_w", alg, Hang), Put("ctx_w", len, Hang), Get("ctx_w", "result_a", Hang),
    New("ctx_m", alg, Void), Use("ctx_m", Hang), Put("ctx_m", len, Hang),
    Get("ctx_m", "result_b", Hang)>>
  \o compare_results("result_a", "result_b")
  \o <<Free("ctx_w"), Free("ctx_m")>>

sha224_test_once(len) == TestOnce("sha224", len)
sha256_test_once(len) == TestOnce("sha256", len)
sm3_test_once(len) == TestOnce("sm3", len)
sha384_test_once(len) == TestOnce("sha384", len)
sha512_test_once(len) == TestOnce("sha512", len)

\* Faulty variant: the references of mbedtls are not compared.
CompareWolfOnly == <<Same("result_a", "ref_wa", Ret), Same("result_b", "ref_wb", Ret)>>

interleaved_compare ==
  <<Same("result_a", "ref_wa", Ret), Same("result_b", "ref_wb", Ret),
    Same("result_a", "ref_ma", Ret), Same("result_b", "ref_mb", Ret)>>

WolfRef(c, alg, x, ref, err) ==
  <<New(c, alg, err)>> \o Repeat(Times, <<Put(c, x, Ignored)>>) \o <<Get(c, ref, Ignored)>>
MbedtlsRef(c, alg, x, ref) ==
  <<New(c, alg, Void), Use(c, Ignored)>> \o Repeat(Times, <<Put(c, x, Ignored)>>)
  \o <<Get(c, ref, Ignored), Free(c)>>

Interleaved(alg) ==
  <<New("ctx_wa", alg, Ignored), New("ctx_wb", alg, Ignored)>>
  \o Repeat(Times, <<Put("ctx_wa", "abcdef", Ret), Put("ctx_wb", "123456", Ret)>>)
  \o <<Get("ctx_wa", "result_a", Ret), Get("ctx_wb", "result_b", Ret)>>
  \o WolfRef("ctx_wa", alg, "abcdef", "ref_wa", Ignored)
  \o WolfRef("ctx_wb", alg, "123456", "ref_wb", Ignored)
  \o MbedtlsRef("ctx_ma", alg, "abcdef", "ref_ma") \o MbedtlsRef("ctx_mb", alg, "123456", "ref_mb")
  \o interleaved_compare

interleaved_sha224_test == Interleaved("sha224")
interleaved_sha256_test == Interleaved("sha256")
interleaved_sm3_test == Interleaved("sm3")
interleaved_sha384_test == Interleaved("sha384")
interleaved_sha512_test == Interleaved("sha512")

\* wc_*GetHash, wc_*Copy and wc_*FinalRaw beside the plain digest.
GetHashPart(alg) ==
  <<New("ctx_ref", alg, Ret), Put("ctx_ref", "chunk1", Ret), Put("ctx_ref", "chunk2", Ret),
    Get("ctx_ref", "digest2", Ret),
    New("ctx", alg, Ret), Put("ctx", "chunk1", Ret), Peek("ctx", "digest1", Ret),
    Put("ctx", "chunk2", Ret), Get("ctx", "digest1", Ret), Same("digest1", "digest2", Ret)>>
CopyPart(alg) ==
  <<New("ctx", alg, Ret), Put("ctx", "chunk1", Ret), Dup("ctx", "ctx_copy", Ret),
    Put("ctx", "chunk2", Ret), Put("ctx_copy", "chunk2", Ret),
    Get("ctx", "digest1", Ret), Get("ctx_copy", "digest2", Ret), Same("digest1", "digest2", Ret)>>
FinalRawPart(alg) ==
  <<New("ctx", alg, Ret), Put("ctx", "chunk1", Ret), Raw("ctx", "raw1", Ret),
    New("ctx_ref", alg, Ret), Put("ctx_ref", "chunk1", Ret), Raw("ctx_ref", "raw2", Ret),
    Same("raw1", "raw2", Ret)>>
ApiFrees == <<Free("ctx"), Free("ctx_ref"), Free("ctx_copy")>>

sha224_api_test == GetHashPart("sha224") \o CopyPart("sha224") \o ApiFrees
sha256_api_test == GetHashPart("sha256") \o CopyPart("sha256") \o FinalRawPart("sha256") \o ApiFrees
sha384_api_test == GetHashPart("sha384") \o CopyPart("sha384") \o FinalRawPart("sha384") \o ApiFrees
sha512_api_test == GetHashPart("sha512") \o CopyPart("sha512") \o FinalRawPart("sha512") \o ApiFrees

\* Two algorithms fed in turns; the references afterwards, on the same contexts.
CrossAlgo(a, b) ==
  <<New("ctx_a", a, Ret), New("ctx_b", b, Ret)>>
  \o Repeat(Times, <<Put("ctx_a", "abcdef", Ret), Put("ctx_b", "123456", Ret)>>)
  \o <<Get("ctx_a", "out_a", Ret), Get("ctx_b", "out_b", Ret)>>
  \o WolfRef("ctx_a", a, "abcdef", "ref_a", Ret) \o WolfRef("ctx_b", b, "123456", "ref_b", Ret)
  \o <<Same("out_a", "ref_a", Ret), Same("out_b", "ref_b", Ret)>>

cross_algo_224_256_test == CrossAlgo("sha224", "sha256")
cross_algo_256_512_test == CrossAlgo("sha256", "sha512")
cross_algo_384_512_test == CrossAlgo("sha384", "sha512")
cross_algo_224_512_test == CrossAlgo("sha224", "sha512")
cross_algo_224_384_test == CrossAlgo("sha224", "sha384")
cross_algo_256_384_test == CrossAlgo("sha256", "sha384")
cross_algo_sm3_256_test == CrossAlgo("sm3", "sha256")
cross_algo_sm3_512_test == CrossAlgo("sm3", "sha512")

\* wc_*Transform takes the block in the byte order of the host, and feeds it.
TransformPart(alg) ==
  <<New("ctx_t", alg, Ret), Put("ctx_t", "block", Ret), Raw("ctx_t", "raw_t", Ret),
    New("ctx_u", alg, Ret), Put("ctx_u", "block", Ret), Raw("ctx_u", "raw_u", Ret),
    Same("raw_t", "raw_u", Ret)>>
transform_api_test == TransformPart("sha256") \o TransformPart("sha512")

----------------------------------------------------------------------------
(***************************************************************************)
(* mbedtls_test.  sha[i] is the context of the i-th vector; exit frees the *)
(* ones before the one that failed.                                        *)
(***************************************************************************)
Vector(alg, shas, inputs, i) ==
  LET sha == shas[i]
      out == Exit(SubSeq(shas, 1, i - 1))
  IN <<New(sha, alg, Void), Use(sha, out), Put(sha, inputs[i], out), Get(sha, "hash", out),
       Is("hash", HashOf(alg, <<inputs[i]>>), out)>>
Vectors(alg, inputs) ==
  LET shas == SubSeq(<<"sha0", "sha1", "sha2", "sha3">>, 1, Len(inputs))
  IN FlattenSeq([i \in 1..Len(inputs) |-> Vector(alg, shas, inputs, i)])
     \o [i \in 1..Len(inputs) |-> Free(shas[i])]

test_sha224 == Vectors("sha224", <<"", "abc", "two_blocks">>)
test_sha256 == Vectors("sha256", <<"", "abc", "two_blocks", "a_million">>)
test_sm3 == Vectors("sm3", <<"abc", "abcd16", "long">>)
test_sha384 == Vectors("sha384", <<"", "abc", "two_blocks">>)
test_sha512 == Vectors("sha512", <<"", "abc", "two_blocks">>)

\* One digest of a buffer larger than a DMA transfer.
Dma(alg) ==
  LET out == Exit(<<"sha">>)
  IN <<New("sha", alg, Void), Use("sha", out), Put("sha", "big_buffer", out), Get("sha", "hash", out),
       Is("hash", HashOf(alg, <<"big_buffer">>), out), Free("sha")>>
test_sha224_dma == Dma("sha224")
test_sha256_dma == Dma("sha256")
test_sm3_dma == Dma("sm3")

\* The pieces of the second pass: 1, 63, 64 and the rest, cut to what remains.
Pieces(len) ==
  LET Cut(done, n) == LET left == len - FoldLeft(LAMBDA a, b : a + b, 0, done)
                      IN Append(done, IF n < left THEN n ELSE left)
  IN SelectSeq(FoldLeft(Cut, <<>>, <<1, 63, 64, len>>), LAMBDA n : n > 0)

FedIn(pieces, len) ==
  LET out == Exit(<<"ctx">>)
  IN <<New("ctx", "sha256", Void), Use("ctx", out)>>
     \o [i \in 1..Len(pieces) |-> PutBytes("ctx", pieces[i], out)]
     \o <<Get("ctx", "hash", out), Free("ctx"),
          Is("hash", HashOf("sha256", [i \in 1..len |-> "02"]), Ret)>>
test_sha256_various_lengths ==
  Over(CaseLengths, LAMBDA len : FedIn(<<len>>, len) \o FedIn(Pieces(len), len))

\* Encrypts and compares with the known answer; decrypts and compares again.
AesOut == Exit(<<"aes">>)
Encrypts(alg, key) ==
  <<Key("aes", key, AesOut), Enc("aes", "msg", "cipher", AesOut),
    Is("cipher", CipherOf(alg, key, <<"msg">>), AesOut)>>
Decrypts(from) == <<Dec("aes", from, "plain", AesOut), Is("plain", <<"msg">>, AesOut)>>

aes_ecb_test ==
  Over(<<"key_128", "key_192", "key_256", "niKey">>, LAMBDA key :
       <<New("aes", "ecb", Void)>> \o Encrypts("ecb", key)
       \o <<New("aes", "ecb", Void), Key("aes", key, AesOut)>> \o Decrypts("cipher"))
  \o <<Free("aes")>>
aes_cbc_test ==
  <<New("aes", "cbc", Void)>> \o Encrypts("cbc", "key")
  \o <<Key("aes", "key", AesOut)>> \o Decrypts("cipher") \o <<Free("aes")>>

\* The same key both ways, and the known ciphertext to decrypt.
Stream(alg) ==
  <<Const("known_cipher", CipherOf(alg, "key", <<"msg">>)), New("aes", alg, Void)>>
  \o Encrypts(alg, "key") \o Decrypts("known_cipher") \o <<Free("aes")>>
aes_ctr_test == Stream("ctr")
aes_cfb128_test == Stream("cfb128")
aes_cfb8_test == Stream("cfb8")
aes_ofb_test == Stream("ofb")

\* No path but the last frees the context.
aes_xts_test ==
  <<New("xts", "xts", Void)>>
  \o Over(<<"key0", "key1", "key2">>, LAMBDA key :
       <<Const("ct32", CipherOf("xts", key, <<"msg">>)),
         New("xts", "xts", Void), Key("xts", key, Ret), Dec("xts", "ct32", "buf", Ret),
         Is("buf", <<"msg">>, Ret),
         New("xts", "xts", Void), Key("xts", key, Ret), Enc("xts", "msg", "buf", Ret),
         Same("buf", "ct32", Ret)>>)
  \o <<Free("xts")>>

test_sm4 ==
  <<New("aes", "sm4", Void)>> \o Encrypts("sm4", "k1") \o Decrypts("cipher") \o <<Free("aes")>>

\* exit returns 0, whatever brought it there: see Quiet below.
sm4_ctr_test ==
  LET Half == <<New("aes", "sm4", Void), Key("aes", "k1", AesOut), Use("aes", AesOut)>>
  IN Half \o <<Enc("aes", "msg", "cipher", AesOut), Is("cipher", CipherOf("sm4", "k1", <<"msg">>), AesOut)>>
     \o Half \o Decrypts("cipher") \o <<Free("aes")>>

\* The digest of the message to be signed.
MessageHash(hash, out) ==
  LET fail == Exit(<<"sha">> \o out)
  IN <<New("sha", "sha256", Void), Use("sha", fail), Put("sha", "msg", fail), Get("sha", hash, fail), Free("sha")>>

test_rsa_keygen_size(size) ==
  LET out == <<"rsa_gen", "rsa">>
  IN <<New("rsa_gen", "rsa", Void), Key("rsa_gen", size, Exit(out)), Use("rsa_gen", Exit(out))>>
     \o MessageHash("hash_gen", out)
     \o <<Sign("rsa_gen", "hash_gen", "sig", Exit(out)), Verify("rsa_gen", "hash_gen", "sig", Exit(out)),
          Free("rsa_gen")>>

test_rsa ==
  LET out == Exit(<<"rsa">>)
      known == SignatureOf("rsa", "rsa2048", HashOf("sha256", <<"msg">>))
  IN <<Const("rsa2048_ciphertext", CipherOf("rsa", "rsa2048", <<"msg">>)),
       Const("rsa2048_signature", known),
       New("rsa", "rsa", Void), Key("rsa", "rsa2048", out), Use("rsa", out),
       Enc("rsa", "msg", "enc", out), Dec("rsa", "enc", "dec", out), Is("dec", <<"msg">>, out)>>
     \o MessageHash("hash", <<"rsa">>)
     \o <<Sign("rsa", "hash", "sig", out), Verify("rsa", "hash", "sig", out),
          Dec("rsa", "rsa2048_ciphertext", "dec", out), Is("dec", <<"msg">>, out),
          Sign("rsa", "hash", "sig", out),
          Is("sig", known, out),
          Verify("rsa", "hash", "rsa2048_signature", out), Free("rsa")>>
     \o Over(<<"2048", "3072", "4096">>, test_rsa_keygen_size)
     \o <<Free("rsa")>>

----------------------------------------------------------------------------
(***************************************************************************)
(* mbedtls_test/src/ecdsa_test.c.  The group goes with d to sign and with  *)
(* the point Q to verify.  r and s are one value here, rCheck and sCheck   *)
(* another: a signature that is not the known one is printed as an error,  *)
(* and no more; it is the known one that is verified.                      *)
(***************************************************************************)
ecdsa_p256_test ==
  <<New("grp", "p256", Void), New("r", "mpi", Void), New("s", "mpi", Void), Use("grp", Ignored),
    Dup("grp", "p256_Q", Void), Dup("grp", "p256_d", Void),
    Key("p256_Q", "d", Ignored), Key("p256_d", "d", Ignored),
    Read("check", SignatureOf("p256", "d", <<"hash_str">>), Ignored),
    Sign("p256_d", "hash_str", "sig_p256", Hang), Same("sig_p256", "check", Ignored),
    Verify("p256_Q", "hash_str", "check", Hang),
    Free("grp"), Free("p256_Q"), Free("p256_d"), Free("r"), Free("s")>>

\* mbedtls_ecdsa_genkey loads the group, so that it does not matter whether the
\* load before it succeeded.  Of the signatures only the last is verified.
ecdsa_test_curve(curve) ==
  LET out == Exit(<<"ctx", "r", "s">>)
  IN <<New("ctx", "ecdsa", Void), New("r", "mpi", Void), New("s", "mpi", Void), Key("ctx", curve, out)>>
     \o Repeat(Times - 1, <<Sign("ctx", "hash_str", "timed", out)>>) \o <<Sign("ctx", "hash_str", "sig", out)>>
     \o Repeat(Times, <<Verify("ctx", "hash_str", "sig", out)>>)
     \o <<Free("ctx"), Free("r"), Free("s")>>

ecdsa_test ==
  ecdsa_p256_test \o Over(<<"p384", "p256", "sm2">>, ecdsa_test_curve)

----------------------------------------------------------------------------
(***************************************************************************)
(* mbedtls_throughput: nothing is compared; every error path frees.        *)
(***************************************************************************)
\* What the loop over the buffer hands to update.
Chunks(step) == [i \in 1..((TotalSize + step - 1) \div step) |->
                   IF step < TotalSize - (i - 1) * step THEN step ELSE TotalSize - (i - 1) * step]
HashRate(alg, step) ==
  LET out == Exit(<<"sha">>)
      chunks == Chunks(step)
  IN <<New("sha", alg, Void), Use("sha", out)>>
     \o [i \in 1..Len(chunks) |-> PutBytes("sha", chunks[i], out)]
     \o <<Get("sha", "hash_result", out), Free("sha")>>

test_mbedtls_sha256(step) == HashRate("sha256", step)
test_mbedtls_sha512(step) == HashRate("sha512", step)
test_mbedtls_sha256_unaligned(step) == HashRate("sha256", step)
test_mbedtls_sha512_unaligned(step) == HashRate("sha512", step)
test_mbedtls_sm3(step) == HashRate("sm3", step)
test_mbedtls_sm3_unaligned(step) == HashRate("sm3", step)

\* CIPHER_RUNS times over the buffer in place; calls: how often crypt is called.
CipherRate(alg, key, calls, mode) ==
  Repeat(Times, <<Const("big_buffer", <<"02">>), New("aes", alg, Void), Key("aes", key, AesOut)>>
                \o Repeat(calls, <<IF mode = "encrypt" THEN Enc("aes", "big_buffer", "big_buffer", AesOut)
                                                       ELSE Dec("aes", "big_buffer", "big_buffer", AesOut)>>)
                \o <<Free("aes")>>)

test_mbedtls_aes_ecb_avg_with_key(key, mode) == CipherRate("ecb", key, 2, mode)
test_mbedtls_aes_cbc_avg_with_key(key, mode) == CipherRate("cbc", key, 1, mode)
test_mbedtls_aes_ctr_avg_with_key(key, mode) == CipherRate("ctr", key, 1, mode)
test_mbedtls_aes_cfb128_avg_with_key(key, mode) == CipherRate("cfb128", key, 1, mode)
test_mbedtls_aes_cfb8_avg_with_key(key, mode) == CipherRate("cfb8", key, 1, mode)
test_mbedtls_aes_ofb_avg_with_key(key, mode) == CipherRate("ofb", key, 1, mode)
test_mbedtls_aes_xts_avg_with_key(key, mode) == CipherRate("xts", key, 1, mode)

\* SM4 sets the key, and in CTR mode the counter, before it runs.
test_mbedtls_sm4_ctr_avg ==
  Repeat(Times, <<Const("big_buffer", <<"02">>), New("aes", "sm4", Void),
                  Key("aes", "sm4_key", AesOut), Use("aes", AesOut),
                  Enc("aes", "big_buffer", "big_buffer", AesOut), Free("aes")>>)
test_mbedtls_sm4_ctr_decrypt_avg == test_mbedtls_sm4_ctr_avg
test_mbedtls_sm4_ecb_encrypt_avg == CipherRate("sm4", "sm4_key", 2, "encrypt")
test_mbedtls_sm4_ecb_decrypt_avg == CipherRate("sm4", "sm4_key", 2, "decrypt")

test_mbedtls_ecdsa_curve(curve) ==
  LET out == Exit(<<"s", "r", "ctx">>)
  IN <<New("ctx", "ecdsa", Void), New("r", "mpi", Void), New("s", "mpi", Void),
       Use("ctx", out), Key("ctx", curve, out)>>
     \o Repeat(Times, <<Key("ctx", curve, out)>>)
     \o Repeat(Times, <<Sign("ctx", "hash", "sig", out)>>)
     \o Repeat(Times, <<Verify("ctx", "hash", "sig", out)>>)
     \o <<Free("s"), Free("r"), Free("ctx")>>

test_mbedtls_rsa_2048 ==
  LET out == Exit(<<"rsa">>)
  IN <<New("rsa", "rsa", Void), Key("rsa", "rsa2048", out), Use("rsa", out)>>
     \o Repeat(Times, <<Enc("rsa", "msg", "enc", out)>>)
     \o Repeat(Times, <<Dec("rsa", "enc", "dec", out)>>)
     \o Repeat(Times, <<Sign("rsa", "hash", "sig", out)>>)
     \o Repeat(Times, <<Verify("rsa", "hash", "sig", out)>>)
     \o <<Free("rsa")>>

\* exit frees the context of the last round a second time.
test_mbedtls_rsa_keygen ==
  Repeat(Times, <<New("rsa", "rsa", Void), Key("rsa", "generated", Exit(<<"rsa">>)), Free("rsa")>>)
  \o <<Free("rsa")>>

----------------------------------------------------------------------------
(***************************************************************************)
(* wolfssl_hw_throughput_rate.  timed: an output that is measured only.    *)
(***************************************************************************)
RoundTrip(enc, dec, x, out) ==
  <<Enc(enc, x, "cipher_buf", out), Dec(dec, "cipher_buf", "dec_buf", out), Is("dec_buf", <<x>>, out)>>
Sizes == <<"16", "64", "step">>

aesgcm_correctness(out) == Over(Sizes, LAMBDA x : RoundTrip("aes", "aes", x, out))
aesgcm_run(dir, out) ==
  Repeat(Len(Chunks(Steps[1])), IF dir = "BENCH_ENC" THEN <<Enc("aes", "in", "timed", out)>>
                                                     ELSE RoundTrip("aes", "aes", "in", out))
run_aesgcm_key_size(key) ==
  <<New("aes", "gcm", Ret), Key("aes", key, AesOut)>> \o aesgcm_correctness(AesOut)
  \o aesgcm_run("BENCH_ENC", AesOut) \o aesgcm_run("BENCH_DEC", AesOut) \o <<Free("aes")>>

aesecb_correctness(out) == Over(Sizes, LAMBDA x : RoundTrip("enc", "dec", x, out))
aesecb_run(dir, out) ==
  Repeat(Len(Chunks(Steps[1])), IF dir = "BENCH_ENC" THEN <<Enc("enc", "in", "timed", out)>>
                                                     ELSE <<Dec("dec", "in", "timed", out)>>)
run_aesecb_key_size(key) ==
  LET out == Exit(<<"enc", "dec">>)
  IN <<New("enc", "ecb", Ret), New("dec", "ecb", Exit(<<"enc">>)), Key("enc", key, out), Key("dec", key, out)>>
     \o aesecb_correctness(out) \o aesecb_run("BENCH_ENC", out) \o aesecb_run("BENCH_DEC", out)
     \o <<Free("enc"), Free("dec")>>

----------------------------------------------------------------------------
(***************************************************************************)
(* The four main functions: what they call, in order, and what they do    *)
(* with what it returns.  count: a failure is counted; run: run_test;      *)
(* stop: goto end; ignore.                                                 *)
(***************************************************************************)
Call(fn, code, on) == <<[fn |-> fn, code |-> code, on |-> on]>>
If(cond, calls) == IF cond THEN calls ELSE <<>>

run_test(fn, code) == Call(fn, code, "run")
Skipped == <<[op |-> "skip", err |-> Void]>>      \* compiled out: return 1
ApiTest(build, needs, fn, code) == run_test(fn, IF needs \subseteq build THEN code ELSE Skipped)

\* The loop over test_lengths: two calls for each.
TestLoop ==
  [k \in 1 .. 2 * Len(Lengths) |->
     LET len == Lengths[(k + 1) \div 2]
     IN  IF k % 2 = 1 THEN [fn |-> "sha384_test_once", code |-> sha384_test_once(len), on |-> "count"]
         ELSE [fn |-> "sha512_test_once", code |-> sha512_test_once(len), on |-> "count"]]
MainAlignment(build) ==
  TestLoop
  \o If("wolf_hw" \notin build,
        Call("interleaved", interleaved_sha224_test, "count")
        \o Call("interleaved", interleaved_sha256_test, "count")
        \o If("mbedtls_sm3_otbn" \in build, Call("interleaved", interleaved_sm3_test, "count"))
        \o Call("interleaved", interleaved_sha384_test, "count")
        \o Call("interleaved", interleaved_sha512_test, "count"))
  \o ApiTest(build, {"sha224"}, "api", sha224_api_test) \o run_test("api", sha256_api_test)
  \o ApiTest(build, {"sha512"}, "api", sha384_api_test) \o ApiTest(build, {"sha512"}, "api", sha512_api_test)
  \o ApiTest(build, {"openssl"}, "transform", transform_api_test)
  \o If("wolf_hw" \notin build,
        ApiTest(build, {"sha224"}, "cross_algo", cross_algo_224_256_test)
        \o ApiTest(build, {"sha224", "sha512"}, "cross_algo", cross_algo_224_384_test)
        \o ApiTest(build, {"sha512"}, "cross_algo", cross_algo_256_384_test)
        \o ApiTest(build, {"sha512"}, "cross_algo", cross_algo_256_512_test)
        \o ApiTest(build, {"sha512"}, "cross_algo", cross_algo_384_512_test)
        \o ApiTest(build, {"sha224", "sha512"}, "cross_algo", cross_algo_224_512_test)
        \o If("mbedtls_sm3_otbn" \in build,
              ApiTest(build, {"sm3"}, "cross_algo", cross_algo_sm3_256_test)
              \o ApiTest(build, {"sm3", "sha512"}, "cross_algo", cross_algo_sm3_512_test)))

MainTest(build) ==
  If("ecdsa_otbn" \in build, Call("ecdsa_test", ecdsa_test, "stop"))
  \o Call("test_sha224", test_sha224, IF "mbedtls_sm3_otbn" \in build THEN "ignore" ELSE "stop")
  \o Call("test_sha256", test_sha256, "stop") \o Call("test_sm3", test_sm3, "stop")
  \o If("hash_hw" \in build,
        Call("dma", test_sha224_dma, "stop") \o Call("dma", test_sha256_dma, "stop")
        \o Call("dma", test_sm3_dma, "stop") \o Call("various", test_sha256_various_lengths, "stop"))
  \o Call("test_sha384", test_sha384, "stop") \o Call("test_sha512", test_sha512, "stop")
  \o If("rsa_otbn" \in build, Call("test_rsa", test_rsa, "stop"))

Modes(Fn(_, _)) ==
  Call("cipher_rate", Fn("aes_key", "encrypt"), "ignore") \o Call("cipher_rate", Fn("aes_key", "decrypt"), "ignore")
  \o Call("cipher_rate", Fn("aes256_key", "encrypt"), "ignore")
  \o Call("cipher_rate", Fn("aes256_key", "decrypt"), "ignore")

MainThroughput(build) ==
  LET All(Fn(_)) == Over(Steps, LAMBDA step : Call("hash_rate", Fn(step), "ignore"))
  IN All(test_mbedtls_sha256) \o All(test_mbedtls_sha512)
     \o All(test_mbedtls_sha256_unaligned) \o All(test_mbedtls_sha512_unaligned)
     \o If("sm3" \in build, All(test_mbedtls_sm3) \o All(test_mbedtls_sm3_unaligned))
     \o Modes(test_mbedtls_aes_ecb_avg_with_key) \o Modes(test_mbedtls_aes_cbc_avg_with_key)
     \o Modes(test_mbedtls_aes_ctr_avg_with_key) \o Modes(test_mbedtls_aes_cfb128_avg_with_key)
     \o Modes(test_mbedtls_aes_cfb8_avg_with_key) \o Modes(test_mbedtls_aes_ofb_avg_with_key)
     \o Modes(test_mbedtls_aes_xts_avg_with_key)
     \o If("sm4_hw" \in build,
           Call("cipher_rate", test_mbedtls_sm4_ecb_encrypt_avg, "ignore")
           \o Call("cipher_rate", test_mbedtls_sm4_ecb_decrypt_avg, "ignore")
           \o Call("cipher_rate", test_mbedtls_sm4_ctr_avg, "ignore")
           \o Call("cipher_rate", test_mbedtls_sm4_ctr_decrypt_avg, "ignore"))
     \o Over(<<"p384", "p256">>, LAMBDA c : Call("ecdsa_rate", test_mbedtls_ecdsa_curve(c), "ignore"))
     \o If("ecdsa_otbn" \in build, Call("ecdsa_rate", test_mbedtls_ecdsa_curve("sm2"), "ignore"))
     \o Call("rsa_rate", test_mbedtls_rsa_2048, "ignore")
     \o Call("rsa_keygen_rate", test_mbedtls_rsa_keygen, "ignore")

MainWolfssl(build) ==
  Call("wolfssl", run_aesgcm_key_size("key128"), "count") \o Call("wolfssl", run_aesgcm_key_size("key256"), "count")
  \o If("aes_ecb" \in build,
        Call("wolfssl", run_aesecb_key_size("key128"), "count")
        \o Call("wolfssl", run_aesecb_key_size("key256"), "count"))

\* aes_test goes on after a failure; what follows it here has no caller left.
aes_test ==
  Call("aes_ecb_test", aes_ecb_test, "ignore") \o Call("aes_cbc_test", aes_cbc_test, "ignore")
  \o Call("aes_stream", aes_cfb128_test, "ignore") \o Call("aes_stream", aes_cfb8_test, "ignore")
  \o Call("aes_stream", aes_ofb_test, "ignore") \o Call("aes_stream", aes_ctr_test, "ignore")
  \o Call("aes_xts_test", aes_xts_test, "ignore")
Uncalled ==
  aes_test \o Call("test_sm4", test_sm4, "ignore") \o Call("sm4_ctr_test", sm4_ctr_test, "ignore")
  \o Over(Lengths, LAMBDA len : Call("sha224_test_once", sha224_test_once(len), "count")
                             \o Call("sha256_test_once", sha256_test_once(len), "count")
                             \o Call("sm3_test_once", sm3_test_once(len), "count"))

ProgramNames == {"alignment", "mbedtls_test", "throughput", "wolfssl", "uncalled"}
Programs ==
  [prog \in ProgramNames |-> [build \in Builds |->
     CASE prog = "alignment" -> MainAlignment(build)
       [] prog = "mbedtls_test" -> MainTest(build)
       [] prog = "throughput" -> MainThroughput(build)
       [] prog = "wolfssl" -> MainWolfssl(build)
       [] OTHER -> Uncalled]]

Calls == Programs[ct.prog][ct.build]
Here == Calls[ct.at]
Ins == Here.code[ct.pc]

----------------------------------------------------------------------------
(***************************************************************************)
(* Running a function.  live: the contexts that have been set up and not   *)
(* freed; ctx: what each holds; bad: what has gone wrong in this call.     *)
(***************************************************************************)
Frame == [phase |-> "run", pc |-> 1, live |-> {}, known |-> {}, ctx |-> <<>>, buf |-> <<>>,
          faults |-> 0, bad |-> {}, ret |-> 0, todo |-> <<>>, misuse |-> FALSE]

\* What main keeps, with the locals of a function that has just been called.
Entered(s) ==
  [x \in DOMAIN Frame \cup DOMAIN s |-> IF x \in DOMAIN Frame THEN Frame[x] ELSE s[x]]

Init ==
  \E prog \in ProgramNames, build \in Builds :
    ct = Entered([prog |-> prog, build |-> build, at |-> 1, failures |-> 0, skips |-> 0,
                  said |-> "nothing", spoilt |-> {}])

Content(x) == IF x \in DOMAIN ct.buf THEN ct.buf[x] ELSE <<x>>
Blocks(state) == SelectSeq(state, LAMBDA x : x = "block")

\* What the instruction writes to its output when all is well.
Output(i) ==
  LET state == ct.ctx[i.c]
  IN CASE i.op \in {"get", "peek"} -> <<"H">> \o state
       [] i.op = "raw" -> <<"R", Head(state)>> \o Blocks(state)
       [] i.op = "enc" -> <<"E">> \o state \o Content(i.x)
       [] i.op = "sign" -> <<"S">> \o state \o Content(i.x)
       [] i.op = "dec" -> LET in == Content(i.x)
                              head == <<"E">> \o state
                          IN IF IsPrefix(head, in) THEN SubSeq(in, Len(head) + 1, Len(in)) ELSE <<"garbage">>
Writes(i) == i.op \in {"get", "peek", "raw", "enc", "dec", "sign"}

\* The context after the instruction.
Context(i) ==
  LET state == ct.ctx[i.c]
  IN CASE i.op = "put" -> state \o Content(i.x)
       [] i.op = "bytes" -> state \o [k \in 1..i.n |-> "02"]
       [] i.op = "key" -> <<Head(state), i.x>>
       [] i.op = "get" -> <<Head(state)>>
       [] OTHER -> state

\* A comparison, or a check of a signature or of a padding, that does not hold.
Refuses(i) ==
  CASE i.op = "same" -> Content(i.x) # Content(i.y)
    [] i.op = "is" -> Content(i.x) # i.v
    [] i.op = "verify" -> Content(i.y) # <<"S">> \o ct.ctx[i.c] \o Content(i.x)
    [] i.op = "dec" -> Head(ct.ctx[i.c]) \in {"rsa", "gcm"} /\ Output(i) = <<"garbage">>
    [] OTHER -> FALSE

Compares(i) == i.op \in {"same", "is"}
Set(f, x, v) == [y \in DOMAIN f \cup {x} |-> IF y = x THEN v ELSE f[y]]
Unready(i) == "c" \in DOMAIN i /\ i.op # "new" /\ i.c \notin ct.known

Running == ct.phase = "run" /\ ct.at <= Len(Calls) /\ ct.pc <= Len(Here.code)

\* What the instruction leaves: the contexts that are set up, what they hold, and
\* the buffers.
LiveAfter(i) ==
  CASE i.op = "new" -> ct.live \cup {i.c} [] i.op = "dup" -> ct.live \cup {i.d}
    [] i.op = "free" -> ct.live \ {i.c} [] OTHER -> ct.live
KnownAfter(i) ==
  CASE i.op = "new" -> ct.known \cup {i.c} [] i.op = "dup" -> ct.known \cup {i.d} [] OTHER -> ct.known
CtxAfter(i) ==
  CASE i.op = "new" -> Set(ct.ctx, i.c, <<i.x>>)
    [] i.op = "dup" -> Set(ct.ctx, i.d, ct.ctx[i.c])
    [] "c" \in DOMAIN i /\ i.op \notin {"new", "dup"} -> Set(ct.ctx, i.c, Context(i))
    [] OTHER -> ct.ctx
BufAfter(i) ==
  CASE Writes(i) -> Set(ct.buf, i.y, Output(i)) [] i.op = "const" -> Set(ct.buf, i.y, i.v)
    [] OTHER -> ct.buf

\* The instruction does what it is for.
Step ==
  /\ Running /\ Ins.op # "skip"
  /\ Unready(Ins) \/ ~Refuses(Ins)
  /\ ct' = IF Unready(Ins) THEN [ct EXCEPT !.misuse = TRUE, !.pc = @ + 1]
           ELSE [ct EXCEPT !.pc = @ + 1, !.live = LiveAfter(Ins), !.known = KnownAfter(Ins),
                           !.ctx = CtxAfter(Ins), !.buf = BufAfter(Ins)]

\* What follows a failure.
Fail(s, i) ==
  CASE i.err.how = "return" -> [s EXCEPT !.phase = "exit", !.ret = -1, !.todo = i.err.free]
    [] i.err.how = "hang" -> [s EXCEPT !.phase = "hung"]
    [] OTHER -> [s EXCEPT !.pc = @ + 1]

\* The comparison or the verification finds a difference.
Mismatch == Running /\ Ins.op # "skip" /\ ~Unready(Ins) /\ Refuses(Ins) /\ ct' = Fail(ct, Ins)

\* d and the signature made with it: that the signature is wrong is printed, and no more.
OnlyPrinted(i) == "c" \in DOMAIN i /\ i.c = "p256_d"

\* The library call fails.  A context whose set-up failed hashes nothing well.
CallFails ==
  /\ Running /\ ct.faults < MaxFaults
  /\ LET i == Ins
     IN /\ i.err.how # "void" /\ ~Compares(i) /\ ~Unready(i)
        /\ ct' = Fail([ct EXCEPT !.faults = @ + 1,
                        !.bad = @ \cup {IF OnlyPrinted(i) THEN "printed" ELSE "call"},
                        !.known = IF i.op = "new" THEN @ \cup {i.c} ELSE @,
                        !.ctx = IF i.op = "new" \/ i.op = "use" THEN Set(@, i.c, <<"broken">>) ELSE @], i)

\* The engine is wrong and does not say so.
Unseen(i) == i.op = "peek" \/ i.y \in {"hash_gen", "timed"} \/ ct.prog = "throughput"
WrongOutput ==
  /\ Running /\ ct.faults < MaxFaults
  /\ Writes(Ins) /\ ~Unready(Ins)
  /\ ct' = [ct EXCEPT !.faults = @ + 1,
              !.bad = @ \cup {IF Unseen(Ins) THEN "unseen" ELSE IF OnlyPrinted(Ins) THEN "printed" ELSE "output"},
              !.pc = @ + 1, !.ctx = Set(@, Ins.c, Context(Ins)), !.buf = Set(@, Ins.y, <<"wrong", Ins.y>>)]

\* The label exit: frees, and returns.
Unwind ==
  /\ ct.phase = "exit" /\ ct.todo # <<>>
  /\ ct' = [ct EXCEPT !.todo = Tail(@), !.live = @ \ {Head(ct.todo)},
                      !.misuse = @ \/ Head(ct.todo) \notin ct.known]
FromExit ==
  /\ ct.phase = "exit" /\ ct.todo = <<>>
  /\ ct' = [ct EXCEPT !.phase = "returned", !.ret = IF Here.fn = "sm4_ctr_test" THEN 0 ELSE @]
FromEnd ==
  /\ ct.phase = "run" /\ ct.at <= Len(Calls) /\ ct.pc > Len(Here.code)
  /\ ct' = [ct EXCEPT !.phase = "returned"]
Skip == Running /\ Ins.op = "skip" /\ ct' = [ct EXCEPT !.phase = "returned", !.ret = 1]

----------------------------------------------------------------------------
\* Back in main.  spoilt: where something has gone wrong so far, in the test that some
\* engines are known to fail or in another.
Spoils(s) ==
  IF s.bad \cap {"call", "output"} = {} THEN {}
  ELSE {IF Here.fn = "test_sha224" THEN "test_sha224" ELSE "other"}
NextCall(s) == Entered([s EXCEPT !.at = @ + 1, !.spoilt = @ \cup Spoils(s)])
\* Faulty variant: mbedtls_test goes on after a failure.
ReportGoesOn ==
  /\ ct.phase = "returned"
  /\ ct' = CASE Here.on = "count" -> NextCall([ct EXCEPT !.failures = @ + IF ct.ret # 0 THEN 1 ELSE 0])
             [] Here.on = "run" /\ ct.ret < 0 -> [ct EXCEPT !.failures = @ + 1, !.phase = "hung"]
             [] Here.on = "run" /\ ct.ret > 0 -> NextCall([ct EXCEPT !.skips = @ + 1])
             [] OTHER -> NextCall(ct)

Report ==
  /\ ct.phase = "returned"
  /\ ct' = CASE Here.on = "count" -> NextCall([ct EXCEPT !.failures = @ + IF ct.ret # 0 THEN 1 ELSE 0])
             [] Here.on = "run" /\ ct.ret < 0 -> [ct EXCEPT !.failures = @ + 1, !.phase = "hung"]
             [] Here.on = "run" /\ ct.ret > 0 -> NextCall([ct EXCEPT !.skips = @ + 1])
             [] Here.on = "stop" /\ ct.ret # 0 -> [ct EXCEPT !.phase = "done", !.said = "test end"]
             [] OTHER -> NextCall(ct)

\* The last lines of main.
Verdict(s) ==
  CASE s.prog = "alignment" -> IF s.failures = 0 /\ s.skips = 0 THEN "passed" ELSE "some failed"
    [] s.prog = "wolfssl" -> IF s.failures = 0 THEN "passed" ELSE "some failed"
    [] s.prog = "mbedtls_test" -> "passed"
    [] OTHER -> "test end"
Finish ==
  /\ ct.phase = "run" /\ ct.at > Len(Calls)
  /\ ct' = [ct EXCEPT !.phase = "done", !.said = Verdict(ct)]

Next ==
  \/ Step \/ Mismatch \/ CallFails \/ WrongOutput
  \/ Unwind \/ FromExit \/ FromEnd \/ Skip \/ Report \/ Finish

Spec == Init /\ [][Next]_ct

----------------------------------------------------------------------------
\* The test returned 0 whatever happened: exit returns 0, not ret.
Quiet == {"sm4_ctr_test"}

(* A test function returns an error only if something went wrong in it, and 0 only if every
   call that it made succeeded and every output was right that it compares or uses up, whichever
   call goes wrong and also where the result of a call is not looked at: the digest that is
   missing then, or short of a piece, does not compare equal.  What only its measurements or
   nothing reads (Unseen) may be wrong, and so may the signature of ecdsa_p256_test: see
   EcdsaTells. *)
TestTells ==
  ct.phase = "returned" /\ Here.fn \notin Quiet =>
    /\ ct.ret < 0 => ct.bad # {}
    /\ ct.bad \cap {"call", "output"} # {} => ct.ret # 0

(* ecdsa_test.c:230, main.c:1549: "p256 test succeed" and "ECDSA  test passed!" are said of a
   test whose numbers r and s were the known ones.  It does not hold: ecdsa_p256_test prints
   "error r" and "error s", and goes on; its caller does not look at what it returns. *)
EcdsaTells ==
  ct.phase = "returned" /\ Here.fn = "ecdsa_test" /\ ct.ret = 0 => "printed" \notin ct.bad

\* The failure main passes over: where the hash engine is known to have no SHA-224.
Excused(prog, build) ==
  IF prog = "mbedtls_test" /\ "mbedtls_sm3_otbn" \in build THEN {"test_sha224"} ELSE {}

(* "All tests passed" and "test succeed" are printed only when nothing went wrong (in the
   sense of TestTells) in any of the functions that were called: a failure that one function
   reported, or that stopped it, is not lost on the way to main's last line.  Only a failure of
   test_sha224 is passed over, and only by mbedtls_test on the engine that has no SHA-224. *)
PassedMeansRight == ct.said = "passed" => ct.spoilt \subseteq Excused(ct.prog, ct.build)

\* The functions that never free, and the ones that do not on their error paths.
NeverFree == {"interleaved", "cross_algo", "transform"}
LeakOnError == NeverFree \cup {"api", "aes_xts_test", "test_sha224", "test_sha256", "test_sm3",
                               "test_sha384", "test_sha512"}

(* No context is used or freed that was never set up, and every context is freed again before
   a test returns, on its error paths too, but for the functions listed. *)
ContextsReturned ==
  /\ ~ct.misuse
  /\ ct.phase = "returned" /\ ct.live # {} =>
       Here.fn \in (IF ct.ret = 0 THEN NeverFree ELSE LeakOnError)

=============================================================================
