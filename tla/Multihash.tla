------------------------------ MODULE Multihash ------------------------------
(***************************************************************************)
(* The multihashes of bridge/crypto: digests with their hash function and  *)
(* length, written in hex or in base64url.  ParseMultihash is not told     *)
(* which: it takes a text of even length for hex.                          *)
(*                                                                         *)
(* A character of a text is its place in the base64url alphabet, A-Z, a-z, *)
(* 0-9, - and _, which contains the hex digits.                            *)
(***************************************************************************)
EXTENDS Integers, Sequences

\* The bytes of a text that cannot be decoded: too few, like none at all.
NoBytes == <<>>

\* A SHA-256 multihash.
SHA256(digest) == [fn |-> 18, digest |-> digest]

Bytes(m) == <<m.fn, Len(m.digest)>> \o m.digest

\* The i-th element of s, or 0 past its end.
Nth(s, i) == IF i <= Len(s) THEN s[i] ELSE 0

HexDigit(d) == IF d < 10 THEN 52 + d ELSE 16 + d
HexDigits == (0 .. 5) \cup (26 .. 31) \cup (52 .. 61)

\* Of a capital letter, a small letter or a decimal digit.
HexValue(c) == IF c < 6 THEN c + 10 ELSE IF c < 32 THEN c - 16 ELSE c - 52

EncodeHex(m) ==
  [i \in 1 .. 2 * Len(Bytes(m)) |->
     LET b == Bytes(m)[(i + 1) \div 2]
     IN  HexDigit(IF i % 2 = 1 THEN b \div 16 ELSE b % 16)]

DecodeHex(text) ==
  IF \A i \in DOMAIN text : text[i] \in HexDigits
    THEN [k \in 1 .. (Len(text) \div 2) |->
            16 * HexValue(text[2 * k - 1]) + HexValue(text[2 * k])]
    ELSE NoBytes

\* Six bits of two bytes, from bit 6 (i - 1) on.
EncodeBase64(m) ==
  LET b == Bytes(m)
  IN  [i \in 1 .. ((8 * Len(b) + 5) \div 6) |->
         LET bit == 6 * (i - 1)
             two == 256 * Nth(b, (bit \div 8) + 1) + Nth(b, (bit \div 8) + 2)
         IN  (two \div (2 ^ (10 - (bit % 8)))) % 64]

\* Eight bits of three characters, from bit 8 (k - 1) on; bits that are left
\* over are not looked at.
DecodeBase64(text) ==
  IF Len(text) % 4 = 1 THEN NoBytes
  ELSE [k \in 1 .. ((6 * Len(text)) \div 8) |->
          LET bit == 8 * (k - 1)
              i == (bit \div 6) + 1
              three == 4096 * Nth(text, i) + 64 * Nth(text, i + 1) + Nth(text, i + 2)
          IN  (three \div (2 ^ (10 - (bit % 6)))) % 256]

\* A mutant: the length byte counts the whole.
ParseMultihashWhole(text) ==
  LET data == IF Len(text) % 2 = 0 THEN DecodeHex(text) ELSE DecodeBase64(text)
  IN  IF Len(data) >= 2 /\ Len(data) = data[2]
        THEN {[fn |-> data[1], digest |-> SubSeq(data, 3, Len(data))]} ELSE {}

\* The multihash that a text is read as, if any.
ParseMultihash(text) ==
  LET data == IF Len(text) % 2 = 0 THEN DecodeHex(text) ELSE DecodeBase64(text)
  IN  IF Len(data) >= 2 /\ Len(data) = 2 + data[2]
        THEN {[fn |-> data[1], digest |-> SubSeq(data, 3, Len(data))]} ELSE {}
=============================================================================
