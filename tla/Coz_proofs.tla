----------------------------- MODULE Coz_proofs -----------------------------
(***************************************************************************)
(* Proofs about a sign-in, at every width of the coordinates and of the    *)
(* integers: what the extension signs is accepted exactly when the clocks  *)
(* agree, up to one timestamp; and which texts of a multihash are read     *)
(* back, for digests of every length.                                      *)
(***************************************************************************)
EXTENDS Coz, SequenceTheorems, WellFoundedInduction, TLAPS

\* At every width of the integers, and so at 64 bits, VerifyTimeliness accepts
\* the timestamps of the window, and one other.
THEOREM TimelyExact ==
  ASSUME NEW now \in Int64, NEW serverTime \in ServerTime
  PROVE  VerifyTimeliness(now, serverTime)
           <=> Within(now, serverTime) \/ Edge(now, serverTime)
<1> DEFINE diff == Wrap(now - serverTime)
<1>1. /\ Half \in Nat /\ MaxDrift \in Nat /\ serverTime \in Nat
      /\ serverTime + MaxDrift < Half
      /\ now \in Int /\ -Half <= now /\ now < Half
  BY TimeAssumption DEF Int64
<1>2. CASE now - serverTime < -Half
  \* The difference wraps around to a positive one, out of the window.
  <2>1. diff = now - serverTime + 2 * Half /\ diff > MaxDrift
    BY <1>1, <1>2 DEF Wrap
  <2>2. ~ VerifyTimeliness(now, serverTime)
    BY <1>1, <2>1 DEF VerifyTimeliness
  <2> QED
    BY <1>1, <1>2, <2>2 DEF Within, Edge
<1>3. CASE now - serverTime >= -Half
  <2>1. diff = now - serverTime
    BY <1>1, <1>3 DEF Wrap
  <2>2. CASE diff >= 0
    BY <1>1, <2>1, <2>2 DEF VerifyTimeliness, Within, Edge
  <2>3. CASE diff < 0 /\ now # serverTime - Half
    <3>1. Wrap(-diff) = serverTime - now
      BY <1>1, <1>3, <2>1, <2>3 DEF Wrap
    <3> QED
      BY <1>1, <2>1, <2>3, <3>1 DEF VerifyTimeliness, Within, Edge
  <2>4. CASE now = serverTime - Half
    <3>1. diff = -Half /\ Wrap(-diff) = -Half
      BY <1>1, <2>1, <2>4 DEF Wrap
    <3> QED
      BY <1>1, <2>4, <3>1 DEF VerifyTimeliness, Edge
  <2> QED
    BY <1>1, <2>1, <2>2, <2>3, <2>4
<1> QED
  BY <1>1, <1>2, <1>3

\* No base64url text of a SHA-256 multihash can be read as hex, whatever the
\* digest and its length: its second character has the last two bits of the
\* function and the first four of the length, and is none of the hex digits.
\* So a text of even length is refused, and never read as another multihash.
THEOREM SHA256NeverHex ==
  ASSUME NEW digest \in Seq(0 .. 255), Len(digest) \in 0 .. 255
  PROVE  DecodeHex(EncodeBase64(SHA256(digest))) = NoBytes
<1> DEFINE b == Bytes(SHA256(digest))
           text == EncodeBase64(SHA256(digest))
           length == Len(digest)
<1>0. length \in 0 .. 255
  OBVIOUS
<1>1. b = <<18, length>> \o digest
  BY DEF Bytes, SHA256
<1>2. Len(b) = 2 + length /\ b[1] = 18 /\ b[2] = length
  <2> DEFINE two == <<18, length>>
  <2>1. two \in Seq(0 .. 255) /\ Len(two) = 2 /\ two[1] = 18 /\ two[2] = length
    BY <1>0
  <2> HIDE DEF two, length
  <2>2. b = two \o digest
    BY <1>1 DEF two, length
  <2>3. Len(digest) = length /\ length \in 0 .. 255
    BY <1>0 DEF length
  <2>4. /\ Len(two \o digest) = Len(two) + Len(digest)
        /\ \A i \in 1 .. Len(two) + Len(digest) :
             (two \o digest)[i]
               = IF i <= Len(two) THEN two[i] ELSE digest[i - Len(two)]
    BY <2>1, ConcatProperties, Zenon
  <2>5. 1 \in 1 .. 2 + Len(digest) /\ 2 \in 1 .. 2 + Len(digest)
    BY <2>3
  <2>6. (two \o digest)[1] = two[1] /\ (two \o digest)[2] = two[2]
    BY <2>1, <2>4, <2>5
  <2> HIDE DEF b
  <2> QED
    BY <2>1, <2>2, <2>3, <2>4, <2>6
<1> HIDE DEF b, length
<1>3. 2 \in 1 .. ((8 * Len(b) + 5) \div 6)
  BY <1>0, <1>2
<1>4. text[2] = ((256 * 18 + length) \div (2 ^ 4)) % 64
  <2>1. Nth(b, 1) = 18 /\ Nth(b, 2) = length
    BY <1>0, <1>2 DEF Nth
  <2>2. 6 * (2 - 1) = 6 /\ (6 \div 8) + 1 = 1 /\ (6 \div 8) + 2 = 2 /\ 10 - (6 % 8) = 4
    OBVIOUS
  <2> QED
    BY <1>3, <2>1, <2>2, Zenon DEF EncodeBase64, b
<1>5. 2 ^ 4 = 16
  OBVIOUS
<1>6. ((256 * 18 + length) \div 16) % 64 \in 32 .. 47
  BY <1>0
<1>7. DOMAIN text = 1 .. ((8 * Len(b) + 5) \div 6)
  BY DEF EncodeBase64, b
<1> HIDE DEF text
<1>8. 2 \in DOMAIN text /\ text[2] \in 32 .. 47
  BY <1>3, <1>4, <1>5, <1>6, <1>7
<1>9. text[2] \notin HexDigits
  <2>1. \A c \in 32 .. 47 : c \notin HexDigits
    BY DEF HexDigits
  <2> QED
    BY <1>8, <2>1, Zenon
<1>10. DecodeHex(text) = NoBytes
  BY <1>8, <1>9 DEF DecodeHex
<1> QED
  BY <1>10 DEF text

-----------------------------------------------------------------------------
(***************************************************************************)
(* Bytes and numbers.                                                      *)
(***************************************************************************)

LEMMA MinIs ==
  ASSUME NEW S, S \subseteq Nat, S # {}
  PROVE  Min(S) \in S /\ \A y \in S : Min(S) <= y
<1>1. PICK x \in S : \A y \in S : ~ (<<y, x>> \in OpToRel(<, Nat))
  BY NatLessThanWellFounded, WFMin
<1>2. \A y \in S : x <= y
  <2> TAKE y \in S
  <2>1. x \in Nat /\ y \in Nat /\ ~ (<<y, x>> \in OpToRel(<, Nat))
    BY <1>1
  <2>2. ~ (y < x)
    BY <2>1, Zenon DEF OpToRel
  <2>3. x \in Nat /\ y \in Nat
    BY <1>1
  <2> HIDE <2>1
  <2> QED
    BY <2>2, <2>3
<1> QED
  BY <1>2 DEF Min

LEMMA CoordIs ==
  /\ \A c \in Coord : c \in Seq(Byte) /\ Len(c) = CoordLen
  /\ \A p \in Point : p.x \in Coord /\ p.y \in Coord
  /\ \A sig \in Signature : sig.r \in Coord /\ sig.s \in Coord
  /\ CoordLen \in Nat \ {0}
BY BytesAssumption DEF Coord

\* The zeros go, and only they: the rest begins with another byte.
LEMMA TrimIs ==
  ASSUME NEW bytes \in Seq(Byte)
  PROVE  /\ Trim(bytes) \in Seq(Byte)
         /\ Len(bytes) # 0 => (Trim(bytes) = bytes <=> bytes[1] # 0)
<1> DEFINE significant == {i \in DOMAIN bytes : bytes[i] # 0}
           first == Min(significant)
<1>0. Len(bytes) \in Nat /\ DOMAIN bytes = 1 .. Len(bytes)
  OBVIOUS
<1>1. CASE significant = {}
  <2>1. Trim(bytes) = <<>>
    BY <1>1 DEF Trim
  <2>2. Len(bytes) # 0 => bytes[1] = 0 /\ Trim(bytes) # bytes
    BY <1>0, <1>1, <2>1
  <2> QED
    BY <2>1, <2>2
<1>2. CASE significant # {}
  <2>1. first \in significant /\ \A i \in significant : first <= i
    <3>1. significant \subseteq Nat
      BY <1>0
    <3> HIDE DEF significant
    <3> QED
      BY <1>2, <3>1, MinIs
  <2>2. Trim(bytes) = SubSeq(bytes, first, Len(bytes))
    BY <1>2 DEF Trim
  <2> HIDE DEF first
  <2>3. first \in 1 .. Len(bytes) /\ bytes[first] # 0
    BY <1>0, <2>1
  <2>4. \A i \in first .. Len(bytes) : bytes[i] \in Byte
    BY <1>0, <2>3
  <2>5. /\ Trim(bytes) \in Seq(Byte)
        /\ Len(Trim(bytes)) = Len(bytes) - first + 1
        /\ \A i \in 1 .. Len(bytes) - first + 1 : Trim(bytes)[i] = bytes[first + i - 1]
    BY <1>0, <2>2, <2>3, <2>4, SubSeqProperties
  <2>6. CASE bytes[1] # 0
    <3>1. first = 1
      BY <1>0, <2>1, <2>3, <2>6
    <3> QED
      BY <1>0, <2>5, <2>6, <3>1, SeqEqual
  <2>7. CASE bytes[1] = 0
    <3>1. first # 1
      BY <2>3, <2>7
    <3>2. Len(Trim(bytes)) # Len(bytes)
      BY <1>0, <2>3, <2>5, <3>1
    <3> QED
      BY <2>5, <2>7, <3>2
  <2> QED
    BY <2>6, <2>7
<1> QED
  BY <1>1, <1>2

\* A piece of a text that was put together.
LEMMA PieceOf ==
  ASSUME NEW S, NEW a, NEW b, NEW c,
         a \in Seq(S), b \in Seq(S), c \in Seq(S)
  PROVE  /\ SubSeq((a \o b) \o c, Len(a) + 1, Len(a) + Len(b)) = b
         /\ Len((a \o b) \o c) = Len(a) + Len(b) + Len(c)
         /\ (a \o b) \o c \in Seq(S)
         /\ \A i \in 1 .. Len(a) : ((a \o b) \o c)[i] = a[i]
<1>1. PICK ab : ab = a \o b
  OBVIOUS
<1>2. /\ ab \in Seq(S) /\ Len(ab) = Len(a) + Len(b)
      /\ \A i \in 1 .. Len(a) + Len(b) :
           ab[i] = IF i <= Len(a) THEN a[i] ELSE b[i - Len(a)]
  BY <1>1, ConcatProperties, Zenon
<1>3. PICK t : t = ab \o c
  OBVIOUS
<1>4. /\ t \in Seq(S) /\ Len(t) = Len(ab) + Len(c)
      /\ \A i \in 1 .. Len(ab) + Len(c) :
           t[i] = IF i <= Len(ab) THEN ab[i] ELSE c[i - Len(ab)]
  <2>1. ab \in Seq(S)
    BY <1>2
  <2> QED
    BY <1>3, <2>1, ConcatProperties, Zenon
<1>5. Len(a) \in Nat /\ Len(b) \in Nat /\ Len(c) \in Nat
  OBVIOUS
<1>6. PICK m, n : m = Len(a) + 1 /\ n = Len(a) + Len(b)
  OBVIOUS
<1>7. m \in Int /\ n \in Int /\ n - m + 1 = Len(b)
  BY <1>5, <1>6
<1>8. \A i \in 1 .. n : t[i] = ab[i] /\ t[i] \in S
  <2>1. DOMAIN t = 1 .. n + Len(c) /\ \A i \in DOMAIN t : t[i] \in S
    BY <1>2, <1>4, <1>5, <1>6
  <2> QED
    BY <1>2, <1>4, <1>5, <1>6, <2>1
<1>9. \A i \in m .. n : t[i] \in S
  BY <1>5, <1>6, <1>8
<1>10. PICK piece : piece = SubSeq(t, m, n)
  OBVIOUS
<1>11. /\ piece \in Seq(S)
       /\ Len(piece) = IF m <= n THEN n - m + 1 ELSE 0
       /\ \A i \in 1 .. n - m + 1 : piece[i] = t[m + i - 1]
  <2>1. m \in Int /\ n \in Int
    BY <1>7
  <2>2. /\ SubSeq(t, m, n) \in Seq(S)
        /\ Len(SubSeq(t, m, n)) = IF m <= n THEN n - m + 1 ELSE 0
        /\ \A i \in 1 .. n - m + 1 : SubSeq(t, m, n)[i] = t[m + i - 1]
    BY <1>9, <2>1, SubSeqProperties
  <2> QED
    BY <1>10, <2>2, Zenon
<1>12. Len(piece) = Len(b)
  BY <1>5, <1>6, <1>7, <1>11
<1>13. \A i \in 1 .. Len(piece) : piece[i] = b[i]
  <2> TAKE i \in 1 .. Len(piece)
  <2>1. i \in 1 .. n - m + 1 /\ i \in Int
    BY <1>7, <1>12
  <2>2. piece[i] = t[Len(a) + i] /\ Len(a) + i \in 1 .. n
    BY <1>5, <1>6, <1>11, <1>12, <2>1
  <2>3. ab[Len(a) + i] = b[i]
    <3>1. /\ Len(a) + i \in 1 .. Len(a) + Len(b)
          /\ ~ (Len(a) + i <= Len(a)) /\ (Len(a) + i) - Len(a) = i
      BY <1>5, <1>6, <2>1, <2>2
    <3>2. ab[Len(a) + i] = b[(Len(a) + i) - Len(a)]
      BY <1>2, <3>1
    <3> QED
      BY <3>1, <3>2
  <2> QED
    BY <1>8, <2>2, <2>3
<1>14. piece = b
  BY <1>11, <1>12, <1>13, SeqEqual
<1>15. \A i \in 1 .. Len(a) : t[i] = a[i]
  BY <1>2, <1>5, <1>6, <1>8
<1>16. Len(t) = Len(a) + Len(b) + Len(c)
  BY <1>2, <1>4
<1>17. t = (a \o b) \o c /\ SubSeq(t, Len(a) + 1, Len(a) + Len(b)) = b
  BY <1>1, <1>3, <1>6, <1>10, <1>14
<1> QED
  BY <1>4, <1>15, <1>16, <1>17

\* The two halves of a text that was put together.
LEMMA HalvesOf ==
  ASSUME NEW S, NEW a, NEW b, a \in Seq(S), b \in Seq(S)
  PROVE  /\ SubSeq(a \o b, 1, Len(a)) = a
         /\ SubSeq(a \o b, Len(a) + 1, Len(a) + Len(b)) = b
         /\ Len(a \o b) = Len(a) + Len(b)
         /\ a \o b \in Seq(S)
<1>1. PICK e : e = <<>>
  OBVIOUS
<1>2. e \in Seq(S) /\ Len(e) = 0
  BY <1>1
<1>3. (e \o a) \o b = a \o b
  BY <1>1, ConcatEmptySeq, Zenon
<1>4. SubSeq((e \o a) \o b, Len(e) + 1, Len(e) + Len(a)) = a
  BY <1>2, PieceOf
<1>5. a \o b \in Seq(S) /\ Len(a \o b) = Len(a) + Len(b)
  BY ConcatProperties, Zenon
<1>6. (a \o b) \o e = a \o b
  BY <1>1, <1>5, ConcatEmptySeq, Zenon
<1>7. SubSeq((a \o b) \o e, Len(a) + 1, Len(a) + Len(b)) = b
  BY <1>2, PieceOf
<1>8. Len(e) + 1 = 1 /\ Len(e) + Len(a) = Len(a)
  BY <1>2
<1> QED
  BY <1>3, <1>4, <1>5, <1>6, <1>7, <1>8, Zenon

\* A public key is a key, and is known by the bytes of its coordinates.
LEMMA NumberIs ==
  ASSUME NEW p \in Point
  PROVE  /\ Number(p) \in [x : Seq(Byte), y : Seq(Byte)]
         /\ Number(p) # None
<1>1. Trim(p.x) \in Seq(Byte) /\ Trim(p.y) \in Seq(Byte)
  BY CoordIs, TrimIs
<1>2. Number(p) \in [x : Seq(Byte), y : Seq(Byte)]
  BY <1>1 DEF Number
<1> QED
  BY <1>2, NoneAssumption

LEMMA ThumbprintInjective ==
  ASSUME NEW p \in Point, NEW q \in Point,
         compute_thumbprint(p) = compute_thumbprint(q)
  PROVE  p = q
<1>1. p.x = q.x /\ p.y = q.y
  BY DEF compute_thumbprint, Sha256
<1>2. /\ p \in [x : Coord, y : Coord]
      /\ q \in [x : Coord, y : Coord]
  BY BytesAssumption
<1> QED
  BY <1>1, <1>2

\* The bytes of a signature are two coordinates, one after the other.
LEMMA SignatureBytesIs ==
  ASSUME NEW sig \in Signature
  PROVE  /\ signature_bytes(sig) \in [1 .. 2 * CoordLen -> Byte]
         /\ Len(signature_bytes(sig)) = 2 * CoordLen
         /\ SubSeq(signature_bytes(sig), 1, CoordLen) = sig.r
         /\ SubSeq(signature_bytes(sig), CoordLen + 1, 2 * CoordLen) = sig.s
<1>1. PICK r, s : r = sig.r /\ s = sig.s
  OBVIOUS
<1>2. r \in Seq(Byte) /\ s \in Seq(Byte)
  BY <1>1, CoordIs
<1>3. Len(r) = CoordLen /\ Len(s) = CoordLen /\ CoordLen \in Nat
  BY <1>1, CoordIs
<1>4. /\ SubSeq(r \o s, 1, Len(r)) = r
      /\ SubSeq(r \o s, Len(r) + 1, Len(r) + Len(s)) = s
      /\ Len(r \o s) = Len(r) + Len(s)
      /\ r \o s \in Seq(Byte)
  BY <1>2, HalvesOf
<1>5. PICK bytes : bytes = r \o s
  OBVIOUS
<1>6. Len(r) + Len(s) = 2 * CoordLen
  BY <1>3
<1>7. /\ SubSeq(bytes, 1, CoordLen) = r
      /\ SubSeq(bytes, CoordLen + 1, 2 * CoordLen) = s
      /\ Len(bytes) = 2 * CoordLen
      /\ bytes \in Seq(Byte)
  BY <1>3, <1>4, <1>5, <1>6, Zenon
<1>8. bytes \in [1 .. Len(bytes) -> Byte]
  BY <1>7, LenProperties, Zenon
<1>9. bytes \in [1 .. 2 * CoordLen -> Byte]
  BY <1>7, <1>8, Zenon
<1> QED
  BY <1>1, <1>5, <1>7, <1>9, Zenon DEF signature_bytes

\* Every text of a key that the bridge can read is read as this key, and the
\* text without the prefix cannot be read, whatever its bytes.
LEMMA TextsAreRead ==
  ASSUME NEW p \in Point, NEW text \in TextsOf(p)
  PROVE  parsePublicKey(text) = IF WellFormed(text) THEN Number(p) ELSE None
<1>1. PICK x, y : x = p.x /\ y = p.y
  OBVIOUS
<1>2. /\ x \in Seq(Byte) /\ Len(x) = CoordLen
      /\ y \in Seq(Byte) /\ Len(y) = CoordLen
      /\ CoordLen \in Nat
  BY <1>1, CoordIs
<1>3. CASE text = [pem |-> TRUE, point |-> p]
  BY <1>3 DEF parsePublicKey, WellFormed
<1>4. CASE text = [pem |-> FALSE, bytes |-> <<Uncompressed>> \o p.x \o p.y]
  <2>1. PICK S : S = Byte \cup {Uncompressed}
    OBVIOUS
  <2>2. PICK prefix : prefix = <<Uncompressed>>
    OBVIOUS
  <2>3. Len(prefix) = 1 /\ prefix[1] = Uncompressed
    BY <2>1, <2>2
  <2>4. prefix \in Seq(S) /\ x \in Seq(S) /\ y \in Seq(S)
    BY <1>2, <2>1, <2>2
  <2>5. /\ SubSeq((prefix \o x) \o y, Len(prefix) + 1, Len(prefix) + Len(x)) = x
        /\ Len((prefix \o x) \o y) = Len(prefix) + Len(x) + Len(y)
        /\ \A i \in 1 .. Len(prefix) : ((prefix \o x) \o y)[i] = prefix[i]
    BY <2>4, PieceOf
  <2>6. prefix \o x \in Seq(S) /\ Len(prefix \o x) = Len(prefix) + Len(x)
    BY <2>4, HalvesOf
  <2>7. PICK front : front = prefix \o x
    OBVIOUS
  <2>8. front \in Seq(S) /\ Len(front) = 1 + CoordLen
    BY <1>2, <2>3, <2>6, <2>7
  <2>9. SubSeq(front \o y, Len(front) + 1, Len(front) + Len(y)) = y
    BY <2>4, <2>8, HalvesOf
  <2>10. PICK bytes : bytes = front \o y
    OBVIOUS
  <2>11. text.pem = FALSE /\ text.bytes = bytes
    BY <1>1, <1>4, <2>2, <2>7, <2>10
  <2>12. /\ SubSeq(bytes, Len(prefix) + 1, Len(prefix) + Len(x)) = x
         /\ Len(bytes) = Len(prefix) + Len(x) + Len(y)
         /\ \A i \in 1 .. Len(prefix) : bytes[i] = prefix[i]
         /\ SubSeq(bytes, Len(front) + 1, Len(front) + Len(y)) = y
    BY <2>5, <2>7, <2>9, <2>10, Zenon
  <2>13. /\ Len(prefix) + 1 = 2 /\ Len(prefix) + Len(x) = 1 + CoordLen
         /\ Len(front) + 1 = 2 + CoordLen
         /\ Len(front) + Len(y) = 1 + 2 * CoordLen
         /\ Len(prefix) + Len(x) + Len(y) = 1 + 2 * CoordLen
    BY <1>2, <2>3, <2>8
  <2>14. 1 \in 1 .. Len(prefix)
    BY <2>3
  <2>15. /\ Len(bytes) = 1 + 2 * CoordLen
         /\ bytes[1] = Uncompressed
         /\ SubSeq(bytes, 2, 1 + CoordLen) = x
         /\ SubSeq(bytes, 2 + CoordLen, Len(bytes)) = y
    BY <2>3, <2>12, <2>13, <2>14, Zenon
  <2>16. parseRawPublicKey(bytes) = Number(p)
    BY <1>1, <2>15, Zenon DEF parseRawPublicKey, Number
  <2>17. WellFormed(text)
    BY <2>11, <2>15, Zenon DEF WellFormed
  <2> QED
    BY <2>11, <2>16, <2>17, Zenon DEF parsePublicKey
<1>5. CASE text = [pem |-> FALSE, bytes |-> p.x \o p.y]
  <2>1. Len(x \o y) = Len(x) + Len(y)
    BY <1>2, HalvesOf
  <2>2. PICK bytes : bytes = x \o y
    OBVIOUS
  <2>3. text.pem = FALSE /\ text.bytes = bytes
    BY <1>1, <1>5, <2>2
  <2>4. Len(bytes) # 1 + 2 * CoordLen
    BY <1>2, <2>1, <2>2
  <2>5. parseRawPublicKey(bytes) = None
    BY <2>4, Zenon DEF parseRawPublicKey
  <2>6. ~ WellFormed(text)
    BY <2>3, <2>4, Zenon DEF WellFormed
  <2> QED
    BY <2>3, <2>5, <2>6, Zenon DEF parsePublicKey
<1> QED
  BY <1>3, <1>4, <1>5, Zenon DEF TextsOf

\* A signature that was made verifies for the key it was made with, and for
\* no other: its two halves are its numbers, whatever zeros they begin with.
LEMMA MadeVerifies ==
  ASSUME NEW p \in Point, NEW sig \in Signature, NEW pay, NEW key,
         made = [key |-> Number(p), pay |-> pay, r |-> Trim(sig.r), s |-> Trim(sig.s)]
  PROVE  VerifyCozSignature(pay, signature_bytes(sig), key) <=> key = Number(p)
<1>1. PICK bytes : bytes = signature_bytes(sig)
  OBVIOUS
<1>2. PICK half : half = Len(bytes) \div 2
  OBVIOUS
<1>3. CoordLen \in Nat
  BY CoordIs
<1>4. Len(bytes) = 2 * CoordLen
  BY <1>1, SignatureBytesIs
<1>5. half = CoordLen
  BY <1>2, <1>3, <1>4
<1>6. /\ SubSeq(bytes, 1, half) = sig.r
      /\ SubSeq(bytes, half + 1, Len(bytes)) = sig.s
  BY <1>1, <1>4, <1>5, SignatureBytesIs
<1>7. Number(p) # None
  BY NumberIs
<1>8. VerifyCozSignature(pay, bytes, key)
        <=> /\ key # None
            /\ made = [key |-> key, pay |-> pay, r |-> Trim(sig.r), s |-> Trim(sig.s)]
  BY <1>2, <1>6, Zenon DEF VerifyCozSignature
<1>9. PICK r, s : r = Trim(sig.r) /\ s = Trim(sig.s)
  OBVIOUS
<1>10. made = [key |-> key, pay |-> pay, r |-> r, s |-> s] <=> key = Number(p)
  <2>1. made = [key |-> Number(p), pay |-> pay, r |-> r, s |-> s]
    BY <1>9, Zenon
  <2> QED
    BY <2>1
<1> QED
  BY <1>1, <1>7, <1>8, <1>9, <1>10, Zenon

-----------------------------------------------------------------------------
(***************************************************************************)
(* The inductive invariant.  The entries of BRIDGE_USERS and the message   *)
(* on its way are each of some identity, and it is the thumbprint that     *)
(* ties them: nobody's message meets the entry of another.                 *)
(***************************************************************************)

\* An entry is a text of the key whose thumbprint it is under.
OwnTexts ==
  \A t \in DOMAIN users : \E p \in identities :
    t = compute_thumbprint(p) /\ users[t] \in TextsOf(p)

\* The message holds the signature that was made last, by the key whose
\* thumbprint it names.
MessageMade ==
  message # None =>
    \E p \in identities, sig \in Signature :
      /\ message.pay.tmb = compute_thumbprint(p)
      /\ message.sig = signature_bytes(sig)
      /\ made = [key |-> Number(p), pay |-> message.pay,
                 r |-> Trim(sig.r), s |-> Trim(sig.s)]

IndInv == TypeOK /\ OwnTexts /\ MessageMade

LEMMA InitInv == Init => IndInv
<1> SUFFICES ASSUME Init PROVE IndInv
  OBVIOUS
<1> USE DEF Init
<1>1. DOMAIN users = {}
  OBVIOUS
<1>2. TypeOK
  BY <1>1 DEF TypeOK
<1>3. OwnTexts
  BY <1>1 DEF OwnTexts
<1>4. MessageMade
  BY DEF MessageMade
<1> QED
  BY <1>2, <1>3, <1>4 DEF IndInv

LEMMA KeypairInv ==
  ASSUME IndInv, generate_keypair
  PROVE  IndInv'
<1>1. /\ identities \subseteq identities' /\ identities' \subseteq Point
      /\ UNCHANGED <<users, made, message, verdict>>
  BY DEF generate_keypair, IndInv, TypeOK
<1>2. TypeOK'
  BY <1>1 DEF IndInv, TypeOK
<1>3. OwnTexts'
  BY <1>1 DEF IndInv, OwnTexts
<1>4. MessageMade'
  BY <1>1 DEF IndInv, MessageMade, generate_keypair
<1> QED
  BY <1>2, <1>3, <1>4 DEF IndInv

LEMMA RegisterInv ==
  ASSUME IndInv, Register
  PROVE  IndInv'
<1>1. PICK p \in identities : \E text \in TextsOf(p) :
        users' = [t \in DOMAIN users \cup {compute_thumbprint(p)} |->
                    IF t = compute_thumbprint(p) THEN text ELSE users[t]]
  BY DEF Register
<1>2. PICK text \in TextsOf(p) :
        users' = [t \in DOMAIN users \cup {compute_thumbprint(p)} |->
                    IF t = compute_thumbprint(p) THEN text ELSE users[t]]
  BY <1>1
<1>3. message = None /\ UNCHANGED <<identities, made, message, verdict>>
  BY DEF Register
<1>4. PICK k : k = compute_thumbprint(p)
  OBVIOUS
<1>5. /\ DOMAIN users' = {k} \cup DOMAIN users
      /\ users'[k] = text
      /\ \A t \in DOMAIN users : t # k => users'[t] = users[t]
  BY <1>2, <1>4
<1>6. identities \subseteq Point
  BY DEF IndInv, TypeOK
<1>7. TypeOK'
  <2>1. DOMAIN users' \subseteq {compute_thumbprint(q) : q \in identities}
    BY <1>4, <1>5 DEF IndInv, TypeOK
  <2>2. \A t \in DOMAIN users' : users'[t] \in UNION {TextsOf(q) : q \in Point}
    <3> TAKE t \in DOMAIN users'
    <3>1. CASE t = k
      BY <1>5, <1>6, <3>1
    <3>2. CASE t # k
      BY <1>5, <3>2 DEF IndInv, TypeOK
    <3> QED
      BY <3>1, <3>2
  <2> QED
    BY <1>3, <1>6, <2>1, <2>2 DEF IndInv, TypeOK
<1>8. OwnTexts'
  <2> SUFFICES ASSUME NEW t \in DOMAIN users'
               PROVE  \E q \in identities :
                        t = compute_thumbprint(q) /\ users'[t] \in TextsOf(q)
    BY <1>3 DEF OwnTexts
  <2>1. CASE t = k
    BY <1>4, <1>5, <2>1
  <2>2. CASE t # k
    <3>1. t \in DOMAIN users /\ users'[t] = users[t]
      BY <1>5, <2>2
    <3> QED
      BY <3>1 DEF IndInv, OwnTexts
  <2> QED
    BY <2>1, <2>2
<1>9. MessageMade'
  BY <1>3 DEF MessageMade
<1> QED
  BY <1>7, <1>8, <1>9 DEF IndInv

LEMMA SignInv ==
  ASSUME IndInv, sign_action
  PROVE  IndInv'
<1>1. PICK p \in identities, sig \in Signature, now \in Int64 :
        LET pay == [tmb |-> derive_public_key(p).thumbprint, now |-> now]
        IN  /\ message' = [pay |-> pay, sig |-> signature_bytes(sig)]
            /\ made' = [key |-> Number(p), pay |-> pay,
                        r |-> Trim(sig.r), s |-> Trim(sig.s)]
  BY DEF sign_action
<1>2. PICK pay : pay = [tmb |-> compute_thumbprint(p), now |-> now]
  OBVIOUS
<1>3. derive_public_key(p).thumbprint = compute_thumbprint(p)
  BY DEF derive_public_key
<1>4. /\ message' = [pay |-> pay, sig |-> signature_bytes(sig)]
      /\ made' = [key |-> Number(p), pay |-> pay,
                  r |-> Trim(sig.r), s |-> Trim(sig.s)]
  BY <1>1, <1>2, <1>3
<1>5. verdict' = None /\ UNCHANGED <<identities, users>>
  BY DEF sign_action
<1>6. pay \in Pay /\ pay.tmb = compute_thumbprint(p)
  BY <1>2 DEF Pay, IndInv, TypeOK
<1>7. TypeOK'
  <2>1. message' \in [pay : Pay, sig : [1 .. 2 * CoordLen -> Byte]]
    BY <1>4, <1>6, SignatureBytesIs
  <2>2. made'.pay = message'.pay
    BY <1>4
  <2> QED
    BY <1>5, <2>1, <2>2 DEF IndInv, TypeOK
<1>8. OwnTexts'
  BY <1>5 DEF IndInv, OwnTexts
<1>9. MessageMade'
  <2>1. message'.pay = pay /\ message'.sig = signature_bytes(sig)
    BY <1>4
  <2>2. made' = [key |-> Number(p), pay |-> message'.pay,
                 r |-> Trim(sig.r), s |-> Trim(sig.s)]
    BY <1>4, <2>1, Zenon
  <2>3. message'.pay.tmb = compute_thumbprint(p)
    BY <1>6, <2>1
  <2> QED
    BY <1>5, <2>1, <2>2, <2>3 DEF MessageMade
<1> QED
  BY <1>7, <1>8, <1>9 DEF IndInv

LEMMA VerifyInv ==
  ASSUME IndInv, HandleVerify
  PROVE  IndInv'
<1>1. /\ message' = None
      /\ UNCHANGED <<identities, users, made>>
      /\ \E t \in ServerTime :
           verdict' = [answer |-> Answer(message.pay, message.sig, t), at |-> t]
  BY DEF HandleVerify
<1>2. verdict'.at \in ServerTime
  BY <1>1
<1>3. TypeOK'
  BY <1>1, <1>2 DEF IndInv, TypeOK
<1>4. OwnTexts'
  BY <1>1 DEF IndInv, OwnTexts
<1>5. MessageMade'
  BY <1>1 DEF MessageMade
<1> QED
  BY <1>3, <1>4, <1>5 DEF IndInv

LEMMA NextInv == IndInv /\ [Next]_vars => IndInv'
<1> SUFFICES ASSUME IndInv, [Next]_vars PROVE IndInv'
  OBVIOUS
<1>1. CASE generate_keypair
  BY <1>1, KeypairInv
<1>2. CASE Register
  BY <1>2, RegisterInv
<1>3. CASE sign_action
  BY <1>3, SignInv
<1>4. CASE HandleVerify
  BY <1>4, VerifyInv
<1>5. CASE UNCHANGED vars
  BY <1>5 DEF vars, IndInv, TypeOK, OwnTexts, MessageMade
<1> QED
  BY <1>1, <1>2, <1>3, <1>4, <1>5 DEF Next

\* Every entry of BRIDGE_USERS is a text of the key it is filed under, and
\* every message was made by the key it names: in every reachable state.
THEOREM Invariance == Spec => []IndInv
<1> QED
  BY InitInv, NextInv, PTL DEF Spec

\* The variables keep their types.
THEOREM TypeCorrect == Spec => []TypeOK
<1>1. IndInv => TypeOK
  BY DEF IndInv
<1> QED
  BY <1>1, Invariance, PTL

\* No user's registration takes the place of another's.
THEOREM UsersOwnKeyHolds == Spec => []UsersOwnKey
<1>1. IndInv => UsersOwnKey
  <2> SUFFICES ASSUME IndInv, NEW p \in identities,
                      compute_thumbprint(p) \in DOMAIN users
               PROVE  parsePublicKey(users[compute_thumbprint(p)])
                        \in {None, Number(p)}
    BY DEF UsersOwnKey
  <2>1. PICK q \in identities :
          /\ compute_thumbprint(p) = compute_thumbprint(q)
          /\ users[compute_thumbprint(p)] \in TextsOf(q)
    BY DEF IndInv, OwnTexts
  <2>2. p \in Point /\ q \in Point
    BY DEF IndInv, TypeOK
  <2>3. p = q
    BY <2>1, <2>2, ThumbprintInjective
  <2>4. PICK text : text = users[compute_thumbprint(p)]
    OBVIOUS
  <2>5. parsePublicKey(text) = IF WellFormed(text) THEN Number(p) ELSE None
    BY <2>1, <2>2, <2>3, <2>4, TextsAreRead
  <2> QED
    BY <2>4, <2>5
<1> QED
  BY <1>1, Invariance, PTL

\* The thumbprints of Rust and of Go agree on the keys whose coordinates begin
\* with a byte other than zero, and on no others, at every width.
THEOREM ThumbprintsAgreeHolds == Spec => []ThumbprintsAgree
<1>1. IndInv => ThumbprintsAgree
  <2> SUFFICES ASSUME IndInv, NEW p \in identities
               PROVE  compute_thumbprint(p) = ComputeThumbprint(Number(p))
                        <=> p.x[1] # 0 /\ p.y[1] # 0
    BY DEF ThumbprintsAgree
  <2>1. p \in Point
    BY DEF IndInv, TypeOK
  <2>2. /\ p.x \in Seq(Byte) /\ Len(p.x) # 0
        /\ p.y \in Seq(Byte) /\ Len(p.y) # 0
    BY <2>1, CoordIs
  <2>3. /\ Trim(p.x) = p.x <=> p.x[1] # 0
        /\ Trim(p.y) = p.y <=> p.y[1] # 0
    BY <2>2, TrimIs
  <2>4. compute_thumbprint(p) = ComputeThumbprint(Number(p))
          <=> p.x = Trim(p.x) /\ p.y = Trim(p.y)
    BY DEF compute_thumbprint, ComputeThumbprint, Number, Sha256
  <2> QED
    BY <2>3, <2>4
<1> QED
  BY <1>1, Invariance, PTL

\* What a step of HandleVerify answers, whatever the message.
LEMMA AcceptedWhen ==
  ASSUME NEW pay, NEW sig, NEW t
  PROVE  Answer(pay, sig, t) = "accepted"
           <=> /\ VerifyTimeliness(pay.now, t)
               /\ pay.tmb \in DOMAIN users
               /\ VerifyCozSignature(pay, sig, parsePublicKey(users[pay.tmb]))
<1>1. PICK timely, known, verified :
        /\ timely = VerifyTimeliness(pay.now, t)
        /\ known = (pay.tmb \in DOMAIN users)
        /\ verified = VerifyCozSignature(pay, sig, parsePublicKey(users[pay.tmb]))
  OBVIOUS
<1> QED
  BY DEF Answer

\* A genuine message is accepted exactly when the clocks agree and the entry
\* under the thumbprint it names can be read: at every width of the
\* coordinates and of the integers, for every clock of the browser and of
\* the server.
THEOREM GenuineAcceptedHolds == Spec => GenuineAccepted
<1> DEFINE Claim ==
      HandleVerify =>
        LET pay == message.pay
        IN  (verdict'.answer = "accepted") <=>
              /\ Within(pay.now, verdict'.at) \/ Edge(pay.now, verdict'.at)
              /\ pay.tmb \in DOMAIN users
              /\ WellFormed(users[pay.tmb])
<1>1. IndInv /\ [Next]_vars => [Claim]_vars
  <2> SUFFICES ASSUME IndInv, HandleVerify
               PROVE  Claim
    OBVIOUS
  <2>1. PICK t \in ServerTime :
          verdict' = [answer |-> Answer(message.pay, message.sig, t), at |-> t]
    BY DEF HandleVerify
  <2>2. message # None
    BY DEF HandleVerify
  <2>3. PICK p \in identities, sig \in Signature :
          /\ message.pay.tmb = compute_thumbprint(p)
          /\ message.sig = signature_bytes(sig)
          /\ made = [key |-> Number(p), pay |-> message.pay,
                     r |-> Trim(sig.r), s |-> Trim(sig.s)]
    BY <2>2 DEF IndInv, MessageMade
  <2>4. p \in Point /\ message.pay.now \in Int64
    BY <2>2 DEF IndInv, TypeOK, Pay
  <2>5. PICK pay : pay = message.pay
    OBVIOUS
  <2>6. PICK key : key = parsePublicKey(users[pay.tmb])
    OBVIOUS
  <2>7. verdict'.answer = Answer(pay, message.sig, t) /\ verdict'.at = t
    BY <2>1, <2>5
  <2>8. verdict'.answer = "accepted"
          <=> /\ VerifyTimeliness(pay.now, t)
              /\ pay.tmb \in DOMAIN users
              /\ VerifyCozSignature(pay, message.sig, key)
    BY <2>6, <2>7, AcceptedWhen, Zenon
  <2>9. VerifyTimeliness(pay.now, t) <=> Within(pay.now, t) \/ Edge(pay.now, t)
    BY <2>4, <2>5, TimelyExact
  <2>10. VerifyCozSignature(pay, message.sig, key) <=> key = Number(p)
    <3>1. made = [key |-> Number(p), pay |-> pay,
                  r |-> Trim(sig.r), s |-> Trim(sig.s)]
      BY <2>3, <2>5, Zenon
    <3> QED
      BY <2>3, <2>4, <3>1, MadeVerifies, Zenon
  <2>11. ASSUME pay.tmb \in DOMAIN users
         PROVE  key = Number(p) <=> WellFormed(users[pay.tmb])
    <3>1. PICK q \in identities :
            pay.tmb = compute_thumbprint(q) /\ users[pay.tmb] \in TextsOf(q)
      BY <2>11 DEF IndInv, OwnTexts
    <3>2. q \in Point
      BY DEF IndInv, TypeOK
    <3>3. p = q
      BY <2>3, <2>4, <2>5, <3>1, <3>2, ThumbprintInjective, Zenon
    <3>4. key = IF WellFormed(users[pay.tmb]) THEN Number(p) ELSE None
      BY <2>4, <2>6, <3>1, <3>3, TextsAreRead, Zenon
    <3>5. Number(p) # None
      BY <2>4, NumberIs
    <3> QED
      BY <3>4, <3>5
  <2> QED
    BY <2>5, <2>7, <2>8, <2>9, <2>10, <2>11
<1> QED
  BY <1>1, Invariance, PTL DEF Spec, GenuineAccepted

-----------------------------------------------------------------------------
(***************************************************************************)
(* Multihashes.  Hex gives every byte two characters; base64url gives      *)
(* three bytes four characters of six bits each, and a text of an even     *)
(* length is taken for hex.                                                *)
(***************************************************************************)

\* The two bytes before the digest, and the digest.
LEMMA BytesAre ==
  ASSUME NEW digest, digest \in Seq(0 .. 255), Len(digest) \in 0 .. 255
  PROVE  /\ Bytes(SHA256(digest)) \in Seq(0 .. 255)
         /\ Len(Bytes(SHA256(digest))) = 2 + Len(digest)
         /\ Bytes(SHA256(digest))[1] = 18
         /\ Bytes(SHA256(digest))[2] = Len(digest)
         /\ SubSeq(Bytes(SHA256(digest)), 3, 2 + Len(digest)) = digest
<1>1. PICK length : length = Len(digest)
  OBVIOUS
<1>2. PICK S : S = 0 .. 255
  OBVIOUS
<1>3. PICK two : two = <<18, length>>
  OBVIOUS
<1>4. length \in 0 .. 255
  BY <1>1
<1>5. two \in Seq(S) /\ digest \in Seq(S)
  BY <1>2, <1>3, <1>4
<1>6. Len(two) = 2 /\ two[1] = 18 /\ two[2] = length
  BY <1>3
<1>7. PICK b : b = two \o digest
  OBVIOUS
<1>8. Bytes(SHA256(digest)) = b
  BY <1>1, <1>3, <1>7 DEF Bytes, SHA256
<1>9. /\ SubSeq(two \o digest, Len(two) + 1, Len(two) + Len(digest)) = digest
      /\ Len(two \o digest) = Len(two) + Len(digest)
      /\ two \o digest \in Seq(S)
  BY <1>5, HalvesOf
<1>10. \A i \in 1 .. Len(two) + Len(digest) :
         (two \o digest)[i] = IF i <= Len(two) THEN two[i] ELSE digest[i - Len(two)]
  BY <1>5, ConcatProperties
<1>11. Len(two) + 1 = 3 /\ Len(two) + Len(digest) = 2 + length
  BY <1>1, <1>6
<1>12. /\ b \in Seq(S) /\ Len(b) = 2 + length
       /\ SubSeq(b, 3, 2 + length) = digest
  BY <1>7, <1>9, <1>11, Zenon
<1>13. 1 \in 1 .. 2 + length /\ 2 \in 1 .. 2 + length /\ 1 <= 2 /\ 2 <= 2
  BY <1>4
<1>14. b[1] = 18 /\ b[2] = length
  <2>1. b[1] = two[1] /\ b[2] = two[2]
    BY <1>6, <1>7, <1>10, <1>11, <1>13, Zenon
  <2> QED
    BY <1>6, <2>1
<1> QED
  BY <1>1, <1>2, <1>8, <1>12, <1>14, Zenon

\* What a text is read as when its bytes are those of a multihash.
LEMMA ParsedIs ==
  ASSUME NEW digest, digest \in Seq(0 .. 255), Len(digest) \in 0 .. 255,
         NEW text,
         (IF Len(text) % 2 = 0 THEN DecodeHex(text) ELSE DecodeBase64(text))
           = Bytes(SHA256(digest))
  PROVE  ParseMultihash(text) = {SHA256(digest)}
<1>1. PICK data : data = Bytes(SHA256(digest))
  OBVIOUS
<1>2. /\ Len(data) = 2 + Len(digest) /\ data[1] = 18 /\ data[2] = Len(digest)
      /\ SubSeq(data, 3, 2 + Len(digest)) = digest
  BY <1>1, BytesAre
<1>3. Len(data) >= 2
  BY <1>2
<1>4. ParseMultihash(text)
        = IF Len(data) >= 2 /\ Len(data) = 2 + data[2]
            THEN {[fn |-> data[1], digest |-> SubSeq(data, 3, Len(data))]} ELSE {}
  BY <1>1, Zenon DEF ParseMultihash
<1>5. ParseMultihash(text) = {[fn |-> 18, digest |-> digest]}
  BY <1>2, <1>3, <1>4, Zenon
<1> QED
  BY <1>5, Zenon DEF SHA256

\* A byte is two hex digits.
LEMMA ByteIs ==
  ASSUME NEW v, v \in 0 .. 255
  PROVE  /\ v \div 16 \in 0 .. 15 /\ v % 16 \in 0 .. 15
         /\ 16 * (v \div 16) + (v % 16) = v
<1>1. v \in Int /\ 0 <= v /\ v <= 255
  OBVIOUS
<1>2. v = 16 * (v \div 16) + (v % 16) /\ v % 16 \in 0 .. 15 /\ v \div 16 \in Int
  BY <1>1
<1> QED
  BY <1>1, <1>2

LEMMA HexDigitIs ==
  ASSUME NEW d \in 0 .. 15
  PROVE  HexDigit(d) \in HexDigits /\ HexDigit(d) \in 0 .. 63 /\ HexValue(HexDigit(d)) = d
BY DEF HexDigit, HexDigits, HexValue

\* Hex is read back.
LEMMA HexReadBack ==
  ASSUME NEW digest, digest \in Seq(0 .. 255), Len(digest) \in 0 .. 255
  PROVE  ParseMultihash(EncodeHex(SHA256(digest))) = {SHA256(digest)}
<1>1. PICK b : b = Bytes(SHA256(digest))
  OBVIOUS
<1>2. PICK n : n = Len(b)
  OBVIOUS
<1>3. b \in Seq(0 .. 255) /\ n = 2 + Len(digest)
  BY <1>1, <1>2, BytesAre
<1>4. n \in Nat /\ DOMAIN b = 1 .. n /\ b \in [1 .. n -> 0 .. 255]
  <2>1. Len(b) \in Nat /\ DOMAIN b = 1 .. Len(b) /\ b \in [1 .. Len(b) -> 0 .. 255]
    BY <1>3, LenProperties, Zenon
  <2> QED
    BY <1>2, <2>1, Zenon
<1>5. PICK text : text = EncodeHex(SHA256(digest))
  OBVIOUS
<1>6. text = [i \in 1 .. 2 * n |->
                LET byte == b[(i + 1) \div 2]
                IN  HexDigit(IF i % 2 = 1 THEN byte \div 16 ELSE byte % 16)]
  BY <1>1, <1>2, <1>5, Zenon DEF EncodeHex
<1>7. \A k \in 1 .. n :
        /\ text[2 * k - 1] = HexDigit(b[k] \div 16)
        /\ text[2 * k] = HexDigit(b[k] % 16)
  <2> TAKE k \in 1 .. n
  <2>1. /\ 2 * k - 1 \in 1 .. 2 * n /\ 2 * k \in 1 .. 2 * n
        /\ ((2 * k - 1) + 1) \div 2 = k /\ (2 * k + 1) \div 2 = k
        /\ (2 * k - 1) % 2 = 1 /\ (2 * k) % 2 = 0
    BY <1>4
  <2> QED
    BY <1>6, <2>1
<1>8. \A k \in 1 .. n : b[k] \div 16 \in 0 .. 15 /\ b[k] % 16 \in 0 .. 15
  <2> TAKE k \in 1 .. n
  <2>1. b[k] \in 0 .. 255
    BY <1>4
  <2> QED
    BY <2>1, ByteIs
<1>9. \A i \in 1 .. 2 * n : text[i] \in HexDigits /\ text[i] \in 0 .. 63
  <2> TAKE i \in 1 .. 2 * n
  <2>1. PICK k \in 1 .. n : i = 2 * k - 1 \/ i = 2 * k
    <3>1. (i + 1) \div 2 \in 1 .. n
      BY <1>4
    <3>2. i = 2 * ((i + 1) \div 2) - 1 \/ i = 2 * ((i + 1) \div 2)
      BY <1>4
    <3> QED
      BY <3>1, <3>2
  <2> QED
    <3>1. /\ HexDigit(b[k] \div 16) \in HexDigits /\ HexDigit(b[k] \div 16) \in 0 .. 63
          /\ HexDigit(b[k] % 16) \in HexDigits /\ HexDigit(b[k] % 16) \in 0 .. 63
      BY <1>8, HexDigitIs, Zenon
    <3> QED
      BY <1>7, <2>1, <3>1, Zenon
<1>10. DOMAIN text = 1 .. 2 * n /\ text \in [1 .. 2 * n -> 0 .. 63]
  BY <1>6, <1>9
<1>11. Len(text) = 2 * n
  BY <1>4, <1>10
<1>12. DecodeHex(text)
         = [k \in 1 .. n |-> 16 * HexValue(text[2 * k - 1]) + HexValue(text[2 * k])]
  <2>1. Len(text) \div 2 = n
    BY <1>4, <1>11
  <2>2. \A i \in DOMAIN text : text[i] \in HexDigits
    BY <1>9, <1>10
  <2> QED
    BY <2>1, <2>2, Zenon DEF DecodeHex
<1>13. \A k \in 1 .. n : 16 * HexValue(text[2 * k - 1]) + HexValue(text[2 * k]) = b[k]
  <2> TAKE k \in 1 .. n
  <2>1. /\ HexValue(text[2 * k - 1]) = b[k] \div 16
        /\ HexValue(text[2 * k]) = b[k] % 16
    BY <1>7, <1>8, HexDigitIs
  <2>2. b[k] \in 0 .. 255
    BY <1>4
  <2> QED
    BY <2>1, <2>2, ByteIs, Zenon
<1>14. DecodeHex(text) = b
  BY <1>4, <1>12, <1>13
<1>15. Len(text) % 2 = 0
  BY <1>4, <1>11
<1> QED
  BY <1>1, <1>5, <1>14, <1>15, ParsedIs

LEMMA PowersAre == 2 ^ 4 = 16 /\ 2 ^ 6 = 64 /\ 2 ^ 8 = 256 /\ 2 ^ 10 = 1024
OBVIOUS

LEMMA ThirdOf ==
  ASSUME NEW x, x \in Nat
  PROVE  /\ x = 3 * (x \div 3) + (x % 3)
         /\ x \div 3 \in Nat /\ x % 3 \in {0, 1, 2}
OBVIOUS

LEMMA NthInside ==
  ASSUME NEW S, NEW s, s \in Seq(S), NEW i, i \in 1 .. Len(s)
  PROVE  Nth(s, i) = s[i]
<1>1. Len(s) \in Nat
  BY LenProperties
<1>2. i <= Len(s)
  BY <1>1
<1> QED
  BY <1>2, Zenon DEF Nth

LEMMA NthIs ==
  ASSUME NEW top, top \in Nat, NEW s, s \in Seq(0 .. top), NEW i, i \in Nat \ {0}
  PROVE  Nth(s, i) \in 0 .. top
<1>1. Len(s) \in Nat
  BY LenProperties
<1>2. 0 \in 0 .. top
  OBVIOUS
<1>3. CASE i <= Len(s)
  <2>1. i \in 1 .. Len(s)
    BY <1>1, <1>3
  <2>2. s[i] \in 0 .. top
    BY <2>1, ElementOfSeq
  <2> QED
    BY <1>3, <2>2, Zenon DEF Nth
<1> QED
  BY <1>2, <1>3, Zenon DEF Nth

\* The character with the six bits of the bytes after the k-th, e bits from
\* their end.
CharOf(b, k, e) == ((256 * Nth(b, k + 1) + Nth(b, k + 2)) \div (2 ^ e)) % 64

LEMMA CharIs ==
  ASSUME NEW b, \A i \in Nat \ {0} : Nth(b, i) \in 0 .. 255, NEW k, k \in Nat
  PROVE  /\ CharOf(b, k, 4) \in 0 .. 63 /\ CharOf(b, k, 6) \in 0 .. 63
         /\ CharOf(b, k, 8) \in 0 .. 63 /\ CharOf(b, k, 10) \in 0 .. 63
<1>1. k + 1 \in Nat \ {0} /\ k + 2 \in Nat \ {0}
  OBVIOUS
<1>2. PICK v : v = 256 * Nth(b, k + 1) + Nth(b, k + 2)
  OBVIOUS
<1>3. v \in Nat
  <2>1. Nth(b, k + 1) \in 0 .. 255 /\ Nth(b, k + 2) \in 0 .. 255
    BY <1>1
  <2>2. PICK v1, v2 : v1 = Nth(b, k + 1) /\ v2 = Nth(b, k + 2)
    OBVIOUS
  <2>3. v1 \in 0 .. 255 /\ v2 \in 0 .. 255 /\ v = 256 * v1 + v2
    BY <1>2, <2>1, <2>2
  <2> QED
    BY <2>3
<1>4. /\ CharOf(b, k, 4) = (v \div 16) % 64 /\ CharOf(b, k, 6) = (v \div 64) % 64
      /\ CharOf(b, k, 8) = (v \div 256) % 64 /\ CharOf(b, k, 10) = (v \div 1024) % 64
  BY <1>2, PowersAre DEF CharOf
<1>5. /\ (v \div 16) % 64 \in 0 .. 63 /\ (v \div 64) % 64 \in 0 .. 63
      /\ (v \div 256) % 64 \in 0 .. 63 /\ (v \div 1024) % 64 \in 0 .. 63
  BY <1>3
<1> QED
  BY <1>4, <1>5

\* The characters of a text, four by four: each has six bits of two bytes.
LEMMA Base64Is ==
  ASSUME NEW digest, digest \in Seq(0 .. 255), Len(digest) \in 0 .. 255,
         NEW b, b = Bytes(SHA256(digest)),
         NEW text, text = EncodeBase64(SHA256(digest))
  PROVE  /\ Len(text) = (8 * Len(b) + 5) \div 6
         /\ text \in Seq(0 .. 63)
         /\ \A q \in Nat :
              /\ 4 * q + 1 <= Len(text) => text[4 * q + 1] = CharOf(b, 3 * q, 10)
              /\ 4 * q + 2 <= Len(text) => text[4 * q + 2] = CharOf(b, 3 * q, 4)
              /\ 4 * q + 3 <= Len(text) => text[4 * q + 3] = CharOf(b, 3 * q + 1, 6)
              /\ 4 * q + 4 <= Len(text) => text[4 * q + 4] = CharOf(b, 3 * q + 2, 8)
<1> DEFINE bit(i) == 6 * (i - 1)
<1>1. PICK size : size = (8 * Len(b) + 5) \div 6
  OBVIOUS
<1>2. text = [i \in 1 .. size |-> CharOf(b, bit(i) \div 8, 10 - (bit(i) % 8))]
  BY <1>1, Zenon DEF EncodeBase64, CharOf
<1>3. b \in Seq(0 .. 255) /\ Len(b) = 2 + Len(digest)
  BY BytesAre
<1>4. size \in Nat
  BY <1>1, <1>3
<1>5. \A i \in 1 .. size : CharOf(b, bit(i) \div 8, 10 - (bit(i) % 8)) \in 0 .. 63
  <2> TAKE i \in 1 .. size
  <2>1. PICK k, e : k = bit(i) \div 8 /\ e = 10 - (bit(i) % 8)
    OBVIOUS
  <2>2. k \in Nat /\ (e = 4 \/ e = 6 \/ e = 8 \/ e = 10)
    BY <1>4, <2>1
  <2>3. CharOf(b, k, e) \in 0 .. 63
    <3>1. \A x \in Nat \ {0} : Nth(b, x) \in 0 .. 255
      <4>1. 255 \in Nat
        OBVIOUS
      <4> QED
        BY <1>3, <4>1, NthIs, Zenon
    <3> QED
      BY <2>2, <3>1, CharIs, Zenon
  <2> QED
    BY <2>1, <2>3, Zenon
<1>6. /\ DOMAIN text = 1 .. size
      /\ \A i \in 1 .. size : text[i] = CharOf(b, bit(i) \div 8, 10 - (bit(i) % 8))
  BY <1>2, Zenon
<1>7. text \in Seq(0 .. 63) /\ Len(text) = size
  <2>1. \A i \in 1 .. size : text[i] \in 0 .. 63
    BY <1>5, <1>6, Zenon
  <2>2. PICK S : S = 0 .. 63
    OBVIOUS
  <2>3. text \in [1 .. size -> S]
    BY <1>2, <2>1, <2>2
  <2> QED
    BY <1>4, <2>2, <2>3
<1>9. ASSUME NEW q, q \in Nat
      PROVE  /\ 4 * q + 1 <= size => text[4 * q + 1] = CharOf(b, 3 * q, 10)
             /\ 4 * q + 2 <= size => text[4 * q + 2] = CharOf(b, 3 * q, 4)
             /\ 4 * q + 3 <= size => text[4 * q + 3] = CharOf(b, 3 * q + 1, 6)
             /\ 4 * q + 4 <= size => text[4 * q + 4] = CharOf(b, 3 * q + 2, 8)
  <2>1. ASSUME NEW i, i \in 1 .. size, NEW k, k = bit(i) \div 8,
               NEW e, e = 10 - (bit(i) % 8)
        PROVE  text[i] = CharOf(b, k, e)
    BY <1>6, <2>1, Zenon
  <2>2. /\ bit(4 * q + 1) \div 8 = 3 * q /\ 10 - (bit(4 * q + 1) % 8) = 10
        /\ bit(4 * q + 2) \div 8 = 3 * q /\ 10 - (bit(4 * q + 2) % 8) = 4
        /\ bit(4 * q + 3) \div 8 = 3 * q + 1 /\ 10 - (bit(4 * q + 3) % 8) = 6
        /\ bit(4 * q + 4) \div 8 = 3 * q + 2 /\ 10 - (bit(4 * q + 4) % 8) = 8
    BY <1>9
  <2> HIDE DEF bit
  <2>3. /\ 4 * q + 1 <= size => 4 * q + 1 \in 1 .. size
        /\ 4 * q + 2 <= size => 4 * q + 2 \in 1 .. size
        /\ 4 * q + 3 <= size => 4 * q + 3 \in 1 .. size
        /\ 4 * q + 4 <= size => 4 * q + 4 \in 1 .. size
    BY <1>4, <1>9
  <2> QED
    BY <2>1, <2>2, <2>3
<1>10. \A q \in Nat :
         /\ 4 * q + 1 <= size => text[4 * q + 1] = CharOf(b, 3 * q, 10)
         /\ 4 * q + 2 <= size => text[4 * q + 2] = CharOf(b, 3 * q, 4)
         /\ 4 * q + 3 <= size => text[4 * q + 3] = CharOf(b, 3 * q + 1, 6)
         /\ 4 * q + 4 <= size => text[4 * q + 4] = CharOf(b, 3 * q + 2, 8)
  BY <1>9
<1> QED
  BY <1>1, <1>7, <1>10, Zenon

\* The byte with bits of the characters from the i-th on, e bits from the end
\* of the third.
OctetOf(text, i, e) ==
  ((4096 * Nth(text, i) + 64 * Nth(text, i + 1) + Nth(text, i + 2)) \div (2 ^ e)) % 256

\* The text holds the bits of the 3 * j + 2 bytes b, in 4 * j + 3 characters.
HoldsBits(text, b, j) ==
  /\ j \in Nat
  /\ \A i \in Nat \ {0} : Nth(b, i) \in 0 .. 255 /\ Nth(text, i) \in 0 .. 63
  /\ \A q \in Nat :
       /\ 4 * q + 1 <= 4 * j + 3 => Nth(text, 4 * q + 1) = CharOf(b, 3 * q, 10)
       /\ 4 * q + 2 <= 4 * j + 3 => Nth(text, 4 * q + 2) = CharOf(b, 3 * q, 4)
       /\ 4 * q + 3 <= 4 * j + 3 => Nth(text, 4 * q + 3) = CharOf(b, 3 * q + 1, 6)
       /\ 4 * q + 4 <= 4 * j + 3 => Nth(text, 4 * q + 4) = CharOf(b, 3 * q + 2, 8)

\* Three characters give a byte back.
LEMMA OctetIs ==
  ASSUME NEW text, NEW b, NEW j, HoldsBits(text, b, j),
         NEW k, k \in 1 .. 3 * j + 2
  PROVE  OctetOf(text, ((8 * (k - 1)) \div 6) + 1, 10 - ((8 * (k - 1)) % 6)) = Nth(b, k)
<1>1. j \in Nat
  BY DEF HoldsBits
<1>2. PICK q \in Nat : k = 3 * q + 1 \/ k = 3 * q + 2 \/ k = 3 * q + 3
  <2>1. PICK x : x = k - 1
    OBVIOUS
  <2>2. x \in Nat /\ k = x + 1
    BY <1>1, <2>1
  <2>3. x = 3 * (x \div 3) + (x % 3) /\ x \div 3 \in Nat /\ x % 3 \in {0, 1, 2}
    BY <2>2, ThirdOf, Zenon
  <2> QED
    BY <2>2, <2>3
<1>3. PICK b1, b2, b3, b4 :
        /\ b1 = Nth(b, 3 * q + 1) /\ b2 = Nth(b, 3 * q + 2)
        /\ b3 = Nth(b, 3 * q + 3) /\ b4 = Nth(b, 3 * q + 4)
  OBVIOUS
<1>4. PICK c1, c2, c3, c4, c5 :
        /\ c1 = Nth(text, 4 * q + 1) /\ c2 = Nth(text, 4 * q + 2)
        /\ c3 = Nth(text, 4 * q + 3) /\ c4 = Nth(text, 4 * q + 4)
        /\ c5 = Nth(text, 4 * q + 5)
  OBVIOUS
<1>5. /\ b1 \in 0 .. 255 /\ b2 \in 0 .. 255 /\ b3 \in 0 .. 255 /\ b4 \in 0 .. 255
      /\ c1 \in 0 .. 63 /\ c2 \in 0 .. 63 /\ c3 \in 0 .. 63
      /\ c4 \in 0 .. 63 /\ c5 \in 0 .. 63
  <2>1. /\ 3 * q + 1 \in Nat \ {0} /\ 3 * q + 2 \in Nat \ {0}
        /\ 3 * q + 3 \in Nat \ {0} /\ 3 * q + 4 \in Nat \ {0}
        /\ 4 * q + 1 \in Nat \ {0} /\ 4 * q + 2 \in Nat \ {0}
        /\ 4 * q + 3 \in Nat \ {0} /\ 4 * q + 4 \in Nat \ {0}
        /\ 4 * q + 5 \in Nat \ {0}
    OBVIOUS
  <2> QED
    BY <1>3, <1>4, <2>1 DEF HoldsBits
<1>6. /\ CharOf(b, 3 * q, 10) = ((256 * b1 + b2) \div 1024) % 64
      /\ CharOf(b, 3 * q, 4) = ((256 * b1 + b2) \div 16) % 64
      /\ CharOf(b, 3 * q + 1, 6) = ((256 * b2 + b3) \div 64) % 64
      /\ CharOf(b, 3 * q + 2, 8) = ((256 * b3 + b4) \div 256) % 64
  <2>1. /\ (3 * q + 1) + 1 = 3 * q + 2 /\ (3 * q + 1) + 2 = 3 * q + 3
        /\ (3 * q + 2) + 1 = 3 * q + 3 /\ (3 * q + 2) + 2 = 3 * q + 4
    OBVIOUS
  <2>2. /\ CharOf(b, 3 * q, 10) = ((256 * b1 + b2) \div (2 ^ 10)) % 64
        /\ CharOf(b, 3 * q, 4) = ((256 * b1 + b2) \div (2 ^ 4)) % 64
        /\ CharOf(b, 3 * q + 1, 6) = ((256 * b2 + b3) \div (2 ^ 6)) % 64
        /\ CharOf(b, 3 * q + 2, 8) = ((256 * b3 + b4) \div (2 ^ 8)) % 64
    BY <1>3, <2>1, Zenon DEF CharOf
  <2> QED
    BY <2>2, PowersAre
<1>7. /\ q <= j => c1 = ((256 * b1 + b2) \div 1024) % 64
      /\ q <= j => c2 = ((256 * b1 + b2) \div 16) % 64
      /\ q <= j => c3 = ((256 * b2 + b3) \div 64) % 64
      /\ q < j => c4 = ((256 * b3 + b4) \div 256) % 64
  <2>1. /\ q <= j => /\ 4 * q + 1 <= 4 * j + 3 /\ 4 * q + 2 <= 4 * j + 3
                     /\ 4 * q + 3 <= 4 * j + 3
        /\ q < j => 4 * q + 4 <= 4 * j + 3
    BY <1>1
  <2> QED
    BY <1>4, <1>6, <2>1 DEF HoldsBits
<1>8. /\ q <= j => /\ c1 = b1 \div 4
                   /\ c2 = 16 * (b1 % 4) + (b2 \div 16)
                   /\ c3 = 4 * (b2 % 16) + (b3 \div 64)
      /\ q < j => c4 = b3 % 64
  <2>1. /\ ((256 * b1 + b2) \div 1024) % 64 = b1 \div 4
        /\ ((256 * b1 + b2) \div 16) % 64 = 16 * (b1 % 4) + (b2 \div 16)
        /\ ((256 * b2 + b3) \div 64) % 64 = 4 * (b2 % 16) + (b3 \div 64)
        /\ ((256 * b3 + b4) \div 256) % 64 = b3 % 64
    BY <1>5, SMTT(60)
  <2> QED
    BY <1>7, <2>1
<1>9. PICK bit : bit = 8 * (k - 1)
  OBVIOUS
<1>10. CASE k = 3 * q + 1
  <2>1. /\ (bit \div 6) + 1 = 4 * q + 1 /\ 10 - (bit % 6) = 10 /\ q <= j
    BY <1>1, <1>9, <1>10
  <2>2. (4 * q + 1) + 1 = 4 * q + 2 /\ (4 * q + 1) + 2 = 4 * q + 3
    OBVIOUS
  <2>3. OctetOf(text, 4 * q + 1, 10) = ((4096 * c1 + 64 * c2 + c3) \div (2 ^ 10)) % 256
    BY <1>4, <2>2 DEF OctetOf
  <2>4. OctetOf(text, 4 * q + 1, 10) = ((4096 * c1 + 64 * c2 + c3) \div 1024) % 256
    BY <2>3, PowersAre
  <2>5. ((4096 * c1 + 64 * c2 + c3) \div 1024) % 256 = b1
    BY <1>5, <1>8, <2>1
  <2> QED
    BY <1>3, <1>9, <1>10, <2>1, <2>4, <2>5
<1>11. CASE k = 3 * q + 2
  <2>1. /\ (bit \div 6) + 1 = 4 * q + 2 /\ 10 - (bit % 6) = 8 /\ q <= j
    BY <1>1, <1>9, <1>11
  <2>2. (4 * q + 2) + 1 = 4 * q + 3 /\ (4 * q + 2) + 2 = 4 * q + 4
    OBVIOUS
  <2>3. OctetOf(text, 4 * q + 2, 8) = ((4096 * c2 + 64 * c3 + c4) \div (2 ^ 8)) % 256
    BY <1>4, <2>2 DEF OctetOf
  <2>4. OctetOf(text, 4 * q + 2, 8) = ((4096 * c2 + 64 * c3 + c4) \div 256) % 256
    BY <2>3, PowersAre
  <2>5. ((4096 * c2 + 64 * c3 + c4) \div 256) % 256 = b2
    <3>1. PICK x, h, l, m :
            x = b1 % 4 /\ h = b2 \div 16 /\ l = b2 % 16 /\ m = b3 \div 64
      OBVIOUS
    <3>2. /\ x \in 0 .. 3 /\ h \in 0 .. 15 /\ l \in 0 .. 15 /\ m \in 0 .. 3
          /\ b2 = 16 * h + l
      BY <1>5, <3>1
    <3>3. c2 = 16 * x + h /\ c3 = 4 * l + m
      BY <1>8, <2>1, <3>1
    <3>4. c4 \in 0 .. 63
      BY <1>5
    <3>5. 4096 * c2 + 64 * c3 + c4 = 256 * (256 * x + 16 * h + l) + (64 * m + c4)
      BY <3>2, <3>3, <3>4
    <3>6. PICK z : z = 4096 * c2 + 64 * c3 + c4
      OBVIOUS
    <3>7. z \div 256 = 256 * x + 16 * h + l
      BY <3>2, <3>4, <3>5, <3>6
    <3>8. (256 * x + 16 * h + l) % 256 = 16 * h + l
      BY <3>2
    <3> QED
      BY <3>2, <3>6, <3>7, <3>8
  <2> QED
    BY <1>3, <1>9, <1>11, <2>1, <2>4, <2>5
<1>12. CASE k = 3 * q + 3
  <2>1. /\ (bit \div 6) + 1 = 4 * q + 3 /\ 10 - (bit % 6) = 6 /\ q < j /\ q <= j
    BY <1>1, <1>9, <1>12
  <2>2. (4 * q + 3) + 1 = 4 * q + 4 /\ (4 * q + 3) + 2 = 4 * q + 5
    OBVIOUS
  <2>3. OctetOf(text, 4 * q + 3, 6) = ((4096 * c3 + 64 * c4 + c5) \div (2 ^ 6)) % 256
    BY <1>4, <2>2 DEF OctetOf
  <2>4. OctetOf(text, 4 * q + 3, 6) = ((4096 * c3 + 64 * c4 + c5) \div 64) % 256
    BY <2>3, PowersAre
  <2>5. ((4096 * c3 + 64 * c4 + c5) \div 64) % 256 = b3
    <3>1. PICK x, h, l :
            x = b2 % 16 /\ h = b3 \div 64 /\ l = b3 % 64
      OBVIOUS
    <3>2. /\ x \in 0 .. 15 /\ h \in 0 .. 3 /\ l \in 0 .. 63
          /\ b3 = 64 * h + l
      BY <1>5, <3>1
    <3>3. c3 = 4 * x + h /\ c4 = l
      BY <1>8, <2>1, <3>1
    <3>4. c5 \in 0 .. 63
      BY <1>5
    <3>5. 4096 * c3 + 64 * c4 + c5 = 64 * (256 * x + 64 * h + l) + c5
      BY <3>2, <3>3, <3>4
    <3>6. PICK z : z = 4096 * c3 + 64 * c4 + c5
      OBVIOUS
    <3>7. z \div 64 = 256 * x + 64 * h + l
      BY <3>2, <3>4, <3>5, <3>6
    <3>8. (256 * x + 64 * h + l) % 256 = 64 * h + l
      BY <3>2
    <3> QED
      BY <3>2, <3>6, <3>7, <3>8
  <2> QED
    BY <1>3, <1>9, <1>12, <2>1, <2>4, <2>5
<1> QED
  BY <1>2, <1>10, <1>11, <1>12, Zenon

\* Base64url is read back when it is not taken for hex.
LEMMA Base64ReadBack ==
  ASSUME NEW digest, digest \in Seq(0 .. 255), Len(digest) \in 0 .. 255,
         Len(digest) % 3 = 0
  PROVE  ParseMultihash(EncodeBase64(SHA256(digest))) = {SHA256(digest)}
<1>1. PICK b : b = Bytes(SHA256(digest))
  OBVIOUS
<1>2. PICK text : text = EncodeBase64(SHA256(digest))
  OBVIOUS
<1>3. PICK n, size : n = Len(b) /\ size = Len(text)
  OBVIOUS
<1>4. b \in Seq(0 .. 255) /\ n = 2 + Len(digest)
  BY <1>1, <1>3, BytesAre
<1>5. size = (8 * n + 5) \div 6 /\ text \in Seq(0 .. 63)
  BY <1>1, <1>2, <1>3, Base64Is, Zenon
<1>6. \A q \in Nat :
        /\ 4 * q + 1 <= size => text[4 * q + 1] = CharOf(b, 3 * q, 10)
        /\ 4 * q + 2 <= size => text[4 * q + 2] = CharOf(b, 3 * q, 4)
        /\ 4 * q + 3 <= size => text[4 * q + 3] = CharOf(b, 3 * q + 1, 6)
        /\ 4 * q + 4 <= size => text[4 * q + 4] = CharOf(b, 3 * q + 2, 8)
  BY <1>1, <1>2, <1>3, Base64Is
<1>7. PICK j : j \in Nat /\ n = 3 * j + 2
  <2>1. PICK length : length = Len(digest)
    OBVIOUS
  <2>2. length \in Nat /\ length % 3 = 0
    BY <2>1
  <2>3. length = 3 * (length \div 3) + (length % 3) /\ length \div 3 \in Nat
    BY <2>2, ThirdOf, Zenon
  <2>4. n = 3 * (length \div 3) + 2
    BY <1>4, <2>1, <2>2, <2>3
  <2> QED
    BY <2>3, <2>4, Zenon
<1>8. size = 4 * j + 3 /\ size % 2 = 1 /\ size % 4 = 3 /\ (6 * size) \div 8 = n
  <2>1. size = (8 * n + 5) \div 6
    BY <1>5
  <2> HIDE <1>5
  <2> QED
    BY <1>7, <2>1
<1>9. n \in Nat /\ b \in [1 .. n -> 0 .. 255]
  <2>1. Len(b) \in Nat /\ b \in [1 .. Len(b) -> 0 .. 255]
    BY <1>4, LenProperties, Zenon
  <2> QED
    BY <1>3, <2>1, Zenon
<1>10. \A i \in Nat \ {0} : Nth(b, i) \in 0 .. 255 /\ Nth(text, i) \in 0 .. 63
  <2>1. 255 \in Nat /\ 63 \in Nat
    OBVIOUS
  <2> QED
    BY <1>4, <1>5, <2>1, NthIs, Zenon
<1>11. /\ \A i \in 1 .. n : Nth(b, i) = b[i]
       /\ \A i \in 1 .. size : Nth(text, i) = text[i]
  BY <1>3, <1>4, <1>5, NthInside, Zenon
<1>12. HoldsBits(text, b, j)
  <2>1. ASSUME NEW q, q \in Nat
        PROVE  /\ 4 * q + 1 <= size => Nth(text, 4 * q + 1) = CharOf(b, 3 * q, 10)
               /\ 4 * q + 2 <= size => Nth(text, 4 * q + 2) = CharOf(b, 3 * q, 4)
               /\ 4 * q + 3 <= size => Nth(text, 4 * q + 3) = CharOf(b, 3 * q + 1, 6)
               /\ 4 * q + 4 <= size => Nth(text, 4 * q + 4) = CharOf(b, 3 * q + 2, 8)
    <3>1. /\ 4 * q + 1 <= size => 4 * q + 1 \in 1 .. size
          /\ 4 * q + 2 <= size => 4 * q + 2 \in 1 .. size
          /\ 4 * q + 3 <= size => 4 * q + 3 \in 1 .. size
          /\ 4 * q + 4 <= size => 4 * q + 4 \in 1 .. size
      BY <1>7, <1>8, <2>1
    <3> QED
      BY <1>6, <1>11, <2>1, <3>1, Zenon
  <2> QED
    BY <1>7, <1>8, <1>10, <2>1, Zenon DEF HoldsBits
<1> DEFINE octet(k) == OctetOf(text, ((8 * (k - 1)) \div 6) + 1, 10 - ((8 * (k - 1)) % 6))
<1>13. DecodeBase64(text) = [k \in 1 .. n |-> octet(k)]
  <2>1. Len(text) % 4 # 1 /\ (6 * Len(text)) \div 8 = n
    BY <1>3, <1>8
  <2> QED
    BY <2>1, Zenon DEF DecodeBase64, OctetOf
<1>14. \A k \in 1 .. n : octet(k) = b[k]
  <2> SUFFICES ASSUME NEW k \in 1 .. n PROVE octet(k) = b[k]
    OBVIOUS
  <2>1. k \in 1 .. 3 * j + 2
    BY <1>7
  <2>2. octet(k) = Nth(b, k)
    BY <1>12, <2>1, OctetIs, Zenon
  <2> QED
    BY <1>11, <2>2, Zenon
<1> HIDE DEF octet
<1>15. DecodeBase64(text) = b
  BY <1>9, <1>13, <1>14
<1>16. Len(text) % 2 # 0
  BY <1>3, <1>8
<1> QED
  BY <1>1, <1>2, <1>15, <1>16, ParsedIs

\* Every text of a multihash: which of them are read back, whatever the digest.
LEMMA ReadBack ==
  ASSUME NEW digest, digest \in Seq(0 .. 255), Len(digest) \in 0 .. 255
  PROVE  /\ ParseMultihash(EncodeHex(SHA256(digest))) = {SHA256(digest)}
         /\ ParseMultihash(EncodeBase64(SHA256(digest)))
              = IF Len(digest) % 3 = 0 THEN {SHA256(digest)} ELSE {}
<1>1. CASE Len(digest) % 3 = 0
  BY <1>1, HexReadBack, Base64ReadBack, Zenon
<1>2. CASE Len(digest) % 3 # 0
  <2>1. PICK text : text = EncodeBase64(SHA256(digest))
    OBVIOUS
  <2>2. PICK length : length = Len(digest)
    OBVIOUS
  <2>3. Len(text) = (8 * (2 + length) + 5) \div 6
    <3>1. PICK b : b = Bytes(SHA256(digest))
      OBVIOUS
    <3>2. Len(b) = 2 + length
      BY <2>2, <3>1, BytesAre, Zenon
    <3> QED
      BY <2>1, <3>1, <3>2, Base64Is, Zenon
  <2>4. length \in Nat /\ length % 3 \in {1, 2}
    BY <1>2, <2>2, ThirdOf
  <2>5. Len(text) % 2 = 0
    <3>1. length = 3 * (length \div 3) + (length % 3) /\ length \div 3 \in Nat
      BY <2>4
    <3> QED
      BY <2>3, <2>4, <3>1
  <2>6. DecodeHex(text) = <<>>
    BY <2>1, SHA256NeverHex DEF NoBytes
  <2>7. ParseMultihash(text) = {}
    BY <2>5, <2>6 DEF ParseMultihash
  <2> QED
    BY <1>2, <2>1, <2>7, HexReadBack, Zenon
<1> QED
  BY <1>1, <1>2

LEMMA ModIs ==
  ASSUME NEW x, x \in Nat, NEW m, m \in Nat \ {0}
  PROVE  x % m \in 0 .. m - 1
OBVIOUS

\* What SHA-256 is modelled by is a digest of the bytes it is asked for.
LEMMA DigestIs ==
  ASSUME NEW p \in Point, NEW n \in DigestLen
  PROVE  \E digest \in Seq(0 .. 255) :
           /\ EncodeMultihash(p, n) = SHA256(digest)
           /\ Len(digest) = n /\ Len(digest) \in 0 .. 255
<1>1. PICK x, y : x = p.x /\ y = p.y
  OBVIOUS
<1>2. x \in Seq(Byte) /\ y \in Seq(Byte)
  BY <1>1, CoordIs
<1>3. Len(x) = CoordLen /\ Len(y) = CoordLen /\ CoordLen \in Nat \ {0}
  BY <1>1, CoordIs
<1>4. x \o y \in Seq(Byte) /\ Len(x \o y) = Len(x) + Len(y)
  BY <1>2, HalvesOf
<1>5. PICK data, m : data = x \o y /\ m = Len(data)
  OBVIOUS
<1>6. data \in Seq(Byte)
  BY <1>4, <1>5
<1>7. m \in Nat \ {0}
  BY <1>3, <1>4, <1>5
<1>8. n \in 0 .. 255 /\ Byte \subseteq 0 .. 255
  BY BytesAssumption
<1>9. PICK digest : digest = [i \in 1 .. n |-> data[1 + ((i - 1) % m)]]
  OBVIOUS
<1>10. EncodeMultihash(p, n) = SHA256(digest)
  BY <1>1, <1>5, <1>9, Zenon DEF EncodeMultihash
<1>11. \A i \in 1 .. n : digest[i] \in 0 .. 255
  <2> TAKE i \in 1 .. n
  <2>1. i - 1 \in Nat
    BY <1>8
  <2>2. (i - 1) % m \in 0 .. m - 1
    BY <1>7, <2>1, ModIs, Zenon
  <2>3. PICK k : k = 1 + ((i - 1) % m)
    OBVIOUS
  <2>4. k \in 1 .. m
    BY <1>7, <2>2, <2>3
  <2>5. data[k] \in Byte
    BY <1>5, <1>6, <2>4, ElementOfSeq
  <2>6. digest[i] = data[k]
    BY <1>9, <2>3, Zenon
  <2> QED
    BY <1>8, <2>5, <2>6
<1>12. PICK S : S = 0 .. 255
  OBVIOUS
<1>13. digest \in [1 .. n -> S]
  BY <1>9, <1>11, <1>12
<1>14. n \in Nat
  BY <1>8
<1>15. digest \in Seq(S) /\ Len(digest) = n
  BY <1>13, <1>14
<1> QED
  BY <1>8, <1>10, <1>12, <1>15, Zenon

\* The multihash of an identity is read back from hex, and from base64url when
\* the text has an odd length and only then: for digests of every length of a
\* byte, whatever their bytes.
THEOREM MultihashesReadBackHolds == Spec => []MultihashesReadBack
<1>1. TypeOK => MultihashesReadBack
  <2> SUFFICES ASSUME TypeOK, NEW p \in identities, NEW n \in DigestLen
               PROVE  LET m == EncodeMultihash(p, n)
                      IN  /\ ParseMultihash(EncodeHex(m)) = {m}
                          /\ ParseMultihash(EncodeBase64(m)) = IF n % 3 = 0 THEN {m} ELSE {}
    BY DEF MultihashesReadBack
  <2>1. p \in Point
    BY DEF TypeOK
  <2>2. PICK digest \in Seq(0 .. 255) :
          /\ EncodeMultihash(p, n) = SHA256(digest)
          /\ Len(digest) = n /\ Len(digest) \in 0 .. 255
    BY <2>1, DigestIs
  <2> QED
    BY <2>2, ReadBack, Zenon
<1> QED
  BY <1>1, TypeCorrect, PTL
=============================================================================
