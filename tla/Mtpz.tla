-------------------------------- MODULE Mtpz --------------------------------
(***************************************************************************)
(* The messages of the MTPZ handshake (src/src/mtpz.c).  Keys, hashes and  *)
(* ciphers are symbols: what was signed, encrypted or hashed can be        *)
(* compared and, with the key, opened, and nothing else.                   *)
(***************************************************************************)
EXTENDS Naturals, Sequences

\* The five lines of ~/.mtpz-data: public exponent, encryption key, modulus,
\* private key and certificates; "odd" is a line with an odd number of digits.
Line == {"right", "wrong", "odd", "missing"}
\* mtpz_loaddata: the lines converted from hexadecimal must have pairs of digits;
\* what the digits say is not looked at.
Loads(file) == /\ \A i \in DOMAIN file : file[i] # "missing"
               /\ file[2] # "odd" /\ file[5] # "odd"
Genuine(file) == \A i \in DOMAIN file : file[i] = "right"

\* mtpz_hash_transform_hash, mtpz_hash_finalize_hash
Hash(x) == [hash |-> x]
\* mtpz_rsa_sign; only a genuine key makes a signature others accept.
Sign(file, x) == [signed |-> Hash(x), genuine |-> Genuine(file)]
\* mtpz_encryption_cipher_advanced, both ways; with another key it gives noise.
Noise == [random |-> 0, hash |-> 0]
Encrypt(k, x) == [under |-> k, text |-> x]
Decrypt(k, c) == IF c.under = k THEN c.text ELSE Noise
\* mtpz_hash_custom6A5DC masks the key of a response, and unmasks it.
Mask(k) == [masked |-> k]
Unmask(m) == m.masked
\* mtpz_encryption_encrypt_mac
Mac(k, n) == [mac |-> k, of |-> n]

-----------------------------------------------------------------------------
\* The three messages of the library.
NoHash == 0
Request(file, r) == [random |-> r, signature |-> Sign(file, r)]
Confirmation(hash) == Mac(hash, 1)
SecureSession(hash) == Mac(hash, << hash, "count" >>)

\* ptp_mtpz_validatehandshakeresponse: the hash in a response to the request with
\* the random number r.  Mutant: whose random number it has is not looked at.
Echoes_Any(body, r) == TRUE
Echoes(body, r) == body.random = r
Validated(m, r) ==
  LET body == Decrypt(Unmask(m.key), m.body)
  IN IF ~m.framed \/ ~Echoes(body, r) THEN NoHash ELSE body.hash

-----------------------------------------------------------------------------
\* A device: how far the handshake is, the random number of the request, how many
\* responses it made (each has a hash of its own), the random number of the last
\* one, and of the last one before the request.
Stages == << "none", "reset", "request", "response", "confirm", "trusted" >>
Stranger == [stage |-> "none", random |-> 0, made |-> 0, answered |-> 0, before |-> 0]
Response(r, n) == [framed |-> TRUE, key |-> Mask(n), body |-> Encrypt(n, [random |-> r, hash |-> n])]
Garbled(m) == [m EXCEPT !.framed = FALSE]
=============================================================================
