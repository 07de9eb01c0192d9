-------------------------------- MODULE Coz ---------------------------------
(***************************************************************************)
(* The bytes of a sign-in, from the Wasm module that signs to the Go code  *)
(* that verifies.                                                          *)
(*                                                                         *)
(* Rust writes coordinates and signatures with a fixed number of bytes; Go *)
(* reads them into big.Ints, which have no leading zeros.  Timestamps are  *)
(* int64, here the integers of Int64, and wrap around.  ECDSA and SHA-256  *)
(* are ideal: only the signature that was made verifies, and a digest is   *)
(* as good as the text it is of.                                           *)
(***************************************************************************)
EXTENDS Multihash, FiniteSetsExt

CONSTANTS
  Byte,        \* a few bytes, zero among them
  CoordLen,    \* the bytes of a coordinate: 32 in the code
  Half,        \* an int64 is in -Half .. Half - 1
  MaxDrift,    \* maxDrift, in seconds
  ServerTime,  \* what the server's clock may show
  Point,       \* the public keys a secret key may have
  Signature,   \* the pairs r, s that ECDSA may return
  MaxUsers,    \* bound on the key pairs
  DigestLen,   \* how long a digest may be, in bytes: 32 in the code
  None         \* no key, no message

\* Clocks are far from the ends of the int64s.
ASSUME TimeAssumption ==
  /\ Half \in Nat
  /\ MaxDrift \in Nat
  /\ ServerTime \subseteq Nat
  /\ \A t \in ServerTime : t + MaxDrift < Half

Coord == [1 .. CoordLen -> Byte]

ASSUME BytesAssumption ==
  /\ 0 \in Byte
  /\ Byte \subseteq 0 .. 255
  /\ DigestLen \subseteq 0 .. 255
  /\ CoordLen \in Nat \ {0}
  /\ Point \subseteq [x : Coord, y : Coord]
  /\ Signature \subseteq [r : Coord, s : Coord]

Int64 == -Half .. Half - 1

VARIABLES
  identities,  \* the key pairs that were generated
  users,       \* BRIDGE_USERS: public keys, as texts, by thumbprint
  made,        \* ideal ECDSA: the signature that was last made, of what
  message,     \* the Coz message on its way
  verdict      \* what became of it, and when

vars == <<identities, users, made, message, verdict>>

-----------------------------------------------------------------------------
(***************************************************************************)
(* Numbers and bytes.                                                      *)
(***************************************************************************)

\* What an int64 expression yields that is at most 2 * Half out of range.
Wrap(x) ==
  IF x < -Half THEN x + 2 * Half ELSE IF x >= Half THEN x - 2 * Half ELSE x

\* big.Int's SetBytes, and Bytes: the leading zeros are gone.
Trim(bytes) ==
  LET significant == {i \in DOMAIN bytes : bytes[i] # 0}
  IN  IF significant = {} THEN <<>>
      ELSE SubSeq(bytes, Min(significant), Len(bytes))

\* The ecdsa.PublicKey of a point.
Number(p) == [x |-> Trim(p.x), y |-> Trim(p.y)]

Sha256(text) == [sha256 |-> text]

\* The first byte of an uncompressed point.
Uncompressed == 4

-----------------------------------------------------------------------------
(***************************************************************************)
(* Thumbprints.                                                            *)
(***************************************************************************)

\* A mutant: the coordinates are run together, without their zeros.
compute_thumbprint_joined(p) == Sha256(Trim(p.x) \o Trim(p.y))

\* In Rust, the JWK holds the coordinates' bytes...
compute_thumbprint(p) == Sha256([x |-> p.x, y |-> p.y])

\* What the extension makes of a secret key, here the one of the point p.
derive_public_key(p) ==
  [public_key_x |-> p.x, public_key_y |-> p.y, thumbprint |-> compute_thumbprint(p)]

\* A mutant: the same coordinate twice.
ComputeThumbprintTwice(key) == Sha256([x |-> key.x, y |-> key.x])

\* ...and in Go those of two big.Ints.
ComputeThumbprint(key) == Sha256([x |-> key.x, y |-> key.y])

\* What is signed, and the message that carries it.
Pay == [tmb : {compute_thumbprint(p) : p \in Point}, now : Int64]

\* A key or a message is not None.
ASSUME NoneAssumption ==
  None \notin [x : Seq(Byte), y : Seq(Byte)] \cup [pay : Pay, sig : Seq(Byte)]

-----------------------------------------------------------------------------
(***************************************************************************)
(* What the bridge checks.                                                 *)
(***************************************************************************)

VerifyTimeliness(now, serverTime) ==
  LET diff == Wrap(now - serverTime)
      size == IF diff < 0 THEN Wrap(-diff) ELSE diff
  IN  size <= MaxDrift

\* The bytes of a hex or base64 text.
parseRawPublicKey(bytes) ==
  IF Len(bytes) # 1 + 2 * CoordLen \/ bytes[1] # Uncompressed THEN None
  ELSE [x |-> Trim(SubSeq(bytes, 2, 1 + CoordLen)),
        y |-> Trim(SubSeq(bytes, 2 + CoordLen, Len(bytes)))]

\* A PEM block is decoded by the library.
parsePublicKey(text) ==
  IF text.pem THEN Number(text.point) ELSE parseRawPublicKey(text.bytes)

\* A signature is two numbers of the same length.
VerifyCozSignature(pay, sig, pubKey) ==
  LET half == Len(sig) \div 2
  IN  /\ pubKey # None
      /\ made = [key |-> pubKey,
                 pay |-> pay,
                 r |-> Trim(SubSeq(sig, 1, half)),
                 s |-> Trim(SubSeq(sig, half + 1, Len(sig)))]

-----------------------------------------------------------------------------
(***************************************************************************)
(* The steps.                                                              *)
(***************************************************************************)

\* How an operator may write p into BRIDGE_USERS: as a PEM block, as the popup
\* writes it, with the prefix, or without it.
TextsOf(p) ==
  {[pem |-> TRUE, point |-> p],
   [pem |-> FALSE, bytes |-> <<Uncompressed>> \o p.x \o p.y],
   [pem |-> FALSE, bytes |-> p.x \o p.y]}

\* The bytes have the prefix: a coordinate may begin with the same byte.
WellFormed(text) == text.pem \/ Len(text.bytes) = 1 + 2 * CoordLen

TypeOK ==
  /\ identities \subseteq Point
  /\ DOMAIN users \subseteq {compute_thumbprint(p) : p \in identities}
  /\ \A t \in DOMAIN users : users[t] \in UNION {TextsOf(p) : p \in Point}
  /\ message \in [pay : Pay, sig : [1 .. 2 * CoordLen -> Byte]] \cup {None}
  /\ message # None => made.pay = message.pay
  /\ verdict = None \/ verdict.at \in ServerTime

Init ==
  /\ identities = {}
  /\ users = <<>>
  /\ made = None
  /\ message = None
  /\ verdict = None

generate_keypair ==
  /\ \E p \in Point \ identities : identities' = identities \cup {p}
  /\ Cardinality(identities) < MaxUsers
  /\ message = None
  /\ UNCHANGED <<users, made, message, verdict>>

\* The operator copies a thumbprint and a key into BRIDGE_USERS.
Register ==
  /\ \E p \in identities : \E text \in TextsOf(p) :
       users' = [t \in DOMAIN users \cup {compute_thumbprint(p)} |->
                   IF t = compute_thumbprint(p) THEN text ELSE users[t]]
  /\ message = None
  /\ UNCHANGED <<identities, made, message, verdict>>

\* A mutant: the two numbers are written without leading zeros.
signature_bytes_trimmed(sig) == Trim(sig.r) \o Trim(sig.s)

signature_bytes(sig) == sig.r \o sig.s

\* A mutant: the payload has milliseconds.
sign_action_millis ==
  /\ message = None
  /\ \E p \in identities, sig \in Signature, now \in Int64 :
       LET pay == [tmb |-> derive_public_key(p).thumbprint, now |-> now * 1000]
       IN  /\ message' = [pay |-> pay, sig |-> signature_bytes(sig)]
           /\ made' = [key |-> Number(p), pay |-> pay,
                       r |-> Trim(sig.r), s |-> Trim(sig.s)]
  /\ verdict' = None
  /\ UNCHANGED <<identities, users>>

\* handleSignatureRequest derives the thumbprint from the key it signs with.
\* The clock of the browser may show anything.
sign_action ==
  /\ message = None
  /\ \E p \in identities, sig \in Signature, now \in Int64 :
       LET pay == [tmb |-> derive_public_key(p).thumbprint, now |-> now]
       IN  /\ message' = [pay |-> pay, sig |-> signature_bytes(sig)]
           /\ made' = [key |-> Number(p), pay |-> pay,
                       r |-> Trim(sig.r), s |-> Trim(sig.s)]
  /\ verdict' = None
  /\ UNCHANGED <<identities, users>>

\* The order of HandleVerify's checks; the nonce is in ChallengeVerify.
Answer(pay, sig, serverTime) ==
  CASE ~VerifyTimeliness(pay.now, serverTime) -> "timestamp out of range"
    [] pay.tmb \notin DOMAIN users -> "unknown key thumbprint"
    [] ~VerifyCozSignature(pay, sig, parsePublicKey(users[pay.tmb])) ->
         "signature verification failed"
    [] OTHER -> "accepted"

HandleVerify ==
  /\ message # None
  /\ \E t \in ServerTime :
       verdict' = [answer |-> Answer(message.pay, message.sig, t), at |-> t]
  /\ message' = None
  /\ UNCHANGED <<identities, users, made>>

Next ==
  \/ generate_keypair
  \/ Register
  \/ sign_action
  \/ HandleVerify

Spec == Init /\ [][Next]_vars
-----------------------------------------------------------------------------
(***************************************************************************)
(* What must be true.                                                      *)
(***************************************************************************)

Within(now, serverTime) ==
  now - serverTime <= MaxDrift /\ serverTime - now <= MaxDrift

\* The one timestamp that is out of the window and passes: it is so far in the
\* past that the negation of the difference is the difference.
Edge(now, serverTime) == now = serverTime - Half

\* What the extension signs, for a user whose key is registered in any form
\* the bridge reads, is accepted exactly when the clocks agree: whatever
\* zeros the coordinates and the signature begin with, and whichever users
\* were registered before or since.
GenuineAccepted ==
  [][ HandleVerify =>
        LET pay == message.pay
        IN  (verdict'.answer = "accepted") <=>
              /\ Within(pay.now, verdict'.at) \/ Edge(pay.now, verdict'.at)
              /\ pay.tmb \in DOMAIN users
              /\ WellFormed(users[pay.tmb])
    ]_vars

\* No user's registration takes the place of another's: the entry under the
\* thumbprint of a key holds this key, or nothing that can be read.
UsersOwnKey ==
  \A p \in identities :
    compute_thumbprint(p) \in DOMAIN users =>
      parsePublicKey(users[compute_thumbprint(p)]) \in {None, Number(p)}

\* The two thumbprint functions, both "RFC 7638" in docs/DAY1.md, agree on
\* the keys whose coordinates have no leading zero byte, and on no others.
ThumbprintsAgree ==
  \A p \in identities :
    compute_thumbprint(p) = ComputeThumbprint(Number(p))
      <=> p.x[1] # 0 /\ p.y[1] # 0

\* A digest of the point p: SHA-256 is ideal, and the digest is made of the
\* bytes it is of, again and again.
EncodeMultihash(p, n) ==
  LET data == p.x \o p.y
  IN  SHA256([i \in 1 .. n |-> data[1 + ((i - 1) % Len(data))]])

\* The multihash of an identity is always read back from hex, and from
\* base64url exactly when the text has an odd length: that of 32 bytes, with
\* its 46 characters, is not.  No text is read as another multihash.
MultihashesReadBack ==
  \A p \in identities, n \in DigestLen :
    LET m == EncodeMultihash(p, n)
    IN  /\ ParseMultihash(EncodeHex(m)) = {m}
        /\ ParseMultihash(EncodeBase64(m)) = IF n % 3 = 0 THEN {m} ELSE {}
=============================================================================
