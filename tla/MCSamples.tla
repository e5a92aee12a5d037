----------------------------- MODULE MCSamples ------------------------------
(***************************************************************************)
(* The SSH server, the cryptography programs and the USB console for TLC.  *)
(***************************************************************************)
EXTENDS Samples

MCHashLengths == <<0, 65, 8193>>
MCHashOffsets == <<0, 1>>
MCLens == <<16, 10240>>

\* The hash engine of mbedtls is OTBN or the SHA hardware, one or the other, with ECDSA
\* and RSA on OTBN beside each; the third build is what wolfSSL leaves to its engine.
MCBuilds == {{"sha224", "sha512", "openssl", "sm3", "sm4_hw", "rsa_otbn", "ecdsa_otbn",
              "mbedtls_sm3_otbn", "aes_ecb"},
             {"sha224", "sha512", "sm3", "sm4_hw", "rsa_otbn", "ecdsa_otbn", "hash_hw"},
             {"wolf_hw", "sha224", "sha512"}}
MCLengths == <<"0", "64">>
MCCaseLengths == <<0, 1, 130>>
MCSteps == <<2, 8>>

----------------------------------------------------------------------------
\* Clients of the SSH server: right and wrong passwords and keys, a user with
\* no password, a name too long for its field, an unknown user.
MCLogins == [type : {"PASSWORD"}, user : {"jill"}, secret : {"upthehill", "no"}]
       \cup [type : {"PUBLICKEY"}, user : {"hansel"}, secret : {"key1", "key2"}]
       \cup {[type |-> "NONE", user |-> "holmes", secret |-> "none"],
             [type |-> "PASSWORD", user |-> "longname", secret |-> "long"],
             [type |-> "PASSWORD", user |-> "nobody", secret |-> "no"]}
MCPasswdOptions == <<[ok |-> TRUE, user |-> "jill", secret |-> "other"],
                     [ok |-> TRUE, user |-> "longname", secret |-> "long"]>>
MCInput == {<<"x">>, <<"ENQ", "ETX">>, <<"x", "ETX">>}

Build(f, single, nonBlock, block) ==
  [feature |-> f, opt |-> [single |-> single, nonBlock |-> nonBlock, block |-> block]]
MCEchoBuilds ==
  {Build({}, FALSE, FALSE, 1), Build({}, FALSE, TRUE, 1), Build({"FWD"}, TRUE, FALSE, 0),
   Build({"SFTP", "USERAUTH_NONE"}, FALSE, FALSE, 0), Build({"AGENT"}, FALSE, FALSE, 0),
   Build({"SHELL"}, TRUE, FALSE, 0)}
=============================================================================
