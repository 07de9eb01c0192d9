----------------------------- MODULE Locks_proofs -----------------------------
(***************************************************************************)
(* Proofs about the mutexes, for any number of goroutines: every lock is   *)
(* given back as it was taken, and there are no races but the known ones.  *)
(***************************************************************************)
EXTENDS Locks, SequenceTheorems, TLAPS

-----------------------------------------------------------------------------
(***************************************************************************)
(* Operations.  Their definitions stay hidden: two operations differ as    *)
(* soon as their kinds or their names do.                                  *)
(***************************************************************************)

Give(l) == <<"unlock", l>>
Enter(l) == <<"rlock", l>>
Leave(l) == <<"runlock", l>>

Kind == {"read", "write", "claim", "drain", "unlock", "rlock", "runlock"}

\* What Storage.lock protects, or should.
Data == {"authRequests", "codes", "AuthRequest", "tokens", "refreshTokens",
         "RefreshToken", "clients"}

Op == Kind \X (Mutex \cup Data \cup {"challenges"})

LEMMA OpParts ==
  /\ \A x : R(x)[1] = "read" /\ R(x)[2] = x
  /\ \A x : W(x)[1] = "write" /\ W(x)[2] = x
  /\ \A l : Claim(l)[1] = "claim" /\ Claim(l)[2] = l
  /\ \A l : Drain(l)[1] = "drain" /\ Drain(l)[2] = l
  /\ \A l : Give(l)[1] = "unlock" /\ Give(l)[2] = l
  /\ \A l : Enter(l)[1] = "rlock" /\ Enter(l)[2] = l
  /\ \A l : Leave(l)[1] = "runlock" /\ Leave(l)[2] = l
  BY DEF R, W, Claim, Drain, Give, Enter, Leave

LEMMA OpTypes ==
  /\ \A x \in Data \cup {"challenges"} : R(x) \in Op /\ W(x) \in Op
  /\ \A l \in Mutex : /\ Claim(l) \in Op /\ Drain(l) \in Op /\ Give(l) \in Op
                      /\ Enter(l) \in Op /\ Leave(l) \in Op
  BY DEF Op, Kind, R, W, Claim, Drain, Give, Enter, Leave

-----------------------------------------------------------------------------
(***************************************************************************)
(* What a sequence of operations holds.                                    *)
(***************************************************************************)

\* From its k-th operation on, s gives back with g before it takes with t.
Held(s, k, t, g) ==
  \E i \in k .. Len(s) : s[i] = g /\ \A j \in k .. i - 1 : s[j] # t

\* s takes before it gives back, and gives back what it takes, every time.
Closed(s, t, g) ==
  /\ ~Held(s, 1, t, g)
  /\ \A k \in 1 .. Len(s) : /\ s[k] = t => Held(s, k + 1, t, g)
                            /\ s[k] = g => ~Held(s, k + 1, t, g)

\* One operation on.
LEMMA HeldMoves ==
  ASSUME NEW s \in Seq(Op), NEW t, NEW g, t # g, NEW k \in 1 .. Len(s)
  PROVE  /\ s[k] = g => Held(s, k, t, g)
         /\ s[k] = t => ~Held(s, k, t, g)
         /\ s[k] # g /\ s[k] # t => (Held(s, k, t, g) <=> Held(s, k + 1, t, g))
<1>1. Len(s) \in Nat /\ k \in 1 .. Len(s)
  OBVIOUS
<1>2. ASSUME s[k] = g
      PROVE  Held(s, k, t, g)
  <2>1. k \in k .. Len(s) /\ \A j \in k .. k - 1 : s[j] # t
    BY <1>1
  <2> QED
    BY <1>2, <2>1 DEF Held
<1>3. ASSUME s[k] = t, Held(s, k, t, g)
      PROVE  FALSE
  <2>1. PICK i \in k .. Len(s) : s[i] = g /\ \A j \in k .. i - 1 : s[j] # t
    BY <1>3 DEF Held
  <2>2. i # k
    BY <1>3, <2>1
  <2>3. k \in k .. i - 1
    BY <1>1, <2>2
  <2> QED
    BY <1>3, <2>1, <2>3
<1>4. ASSUME s[k] # g, s[k] # t, Held(s, k, t, g)
      PROVE  Held(s, k + 1, t, g)
  <2>1. PICK i \in k .. Len(s) : s[i] = g /\ \A j \in k .. i - 1 : s[j] # t
    BY <1>4 DEF Held
  <2>2. i \in k + 1 .. Len(s) /\ \A j \in k + 1 .. i - 1 : j \in k .. i - 1
    BY <1>1, <1>4, <2>1
  <2> QED
    BY <2>1, <2>2 DEF Held
<1>5. ASSUME s[k] # g, s[k] # t, Held(s, k + 1, t, g)
      PROVE  Held(s, k, t, g)
  <2>1. PICK i \in k + 1 .. Len(s) : s[i] = g /\ \A j \in k + 1 .. i - 1 : s[j] # t
    BY <1>5 DEF Held
  <2>2. i \in k .. Len(s) /\ \A j \in k .. i - 1 : j = k \/ j \in k + 1 .. i - 1
    BY <1>1, <2>1
  <2> QED
    BY <1>5, <2>1, <2>2 DEF Held
<1> QED
  BY <1>2, <1>3, <1>4, <1>5

\* One sequence after the other.
LEMMA HeldConcat ==
  ASSUME NEW a \in Seq(Op), NEW b \in Seq(Op), NEW t, NEW g
  PROVE  /\ \A k \in 1 .. Len(a) + 1 :
              /\ Held(a, k, t, g) => Held(a \o b, k, t, g)
              /\ Held(a \o b, k, t, g) /\ ~Held(b, 1, t, g) => Held(a, k, t, g)
         /\ \A k \in 1 .. Len(b) + 1 :
              Held(a \o b, Len(a) + k, t, g) <=> Held(b, k, t, g)
<1> DEFINE c == a \o b
<1>1. /\ c \in Seq(Op) /\ Len(a) \in Nat /\ Len(b) \in Nat
      /\ Len(c) = Len(a) + Len(b)
      /\ \A i \in 1 .. Len(a) : c[i] = a[i]
      /\ \A i \in 1 .. Len(b) : c[Len(a) + i] = b[i]
  BY ConcatProperties
<1> HIDE DEF c
<1>2. ASSUME NEW k \in 1 .. Len(a) + 1, Held(a, k, t, g)
      PROVE  Held(c, k, t, g)
  <2>1. PICK i \in k .. Len(a) : a[i] = g /\ \A j \in k .. i - 1 : a[j] # t
    BY <1>2 DEF Held
  <2>2. i \in k .. Len(c) /\ c[i] = g /\ \A j \in k .. i - 1 : c[j] = a[j]
    BY <1>1, <2>1
  <2> QED
    BY <2>1, <2>2 DEF Held
<1>3. ASSUME NEW k \in 1 .. Len(a) + 1, Held(c, k, t, g), ~Held(b, 1, t, g)
      PROVE  Held(a, k, t, g)
  <2>1. PICK i \in k .. Len(c) : c[i] = g /\ \A j \in k .. i - 1 : c[j] # t
    BY <1>3 DEF Held
  <2>2. CASE i <= Len(a)
    <3>1. i \in k .. Len(a) /\ a[i] = g /\ \A j \in k .. i - 1 : c[j] = a[j]
      BY <1>1, <2>1, <2>2
    <3> QED
      BY <2>1, <3>1 DEF Held
  <2>3. CASE i > Len(a)
    <3> DEFINE m == i - Len(a)
    <3>0. m \in 1 .. Len(b) /\ i = Len(a) + m
      BY <1>1, <2>3
    <3>1. b[m] = g
      BY <1>1, <2>1, <3>0
    <3>2. ASSUME NEW j \in 1 .. m - 1
          PROVE  b[j] # t
      <4>1. Len(a) + j \in k .. i - 1 /\ j \in 1 .. Len(b)
        BY <1>1, <3>0
      <4> QED
        BY <1>1, <2>1, <4>1
    <3> HIDE DEF m
    <3> QED
      BY <1>3, <3>0, <3>1, <3>2 DEF Held
  <2> QED
    BY <1>1, <2>2, <2>3
<1>4. ASSUME NEW k \in 1 .. Len(b) + 1, Held(b, k, t, g)
      PROVE  Held(c, Len(a) + k, t, g)
  <2>1. PICK i \in k .. Len(b) : b[i] = g /\ \A j \in k .. i - 1 : b[j] # t
    BY <1>4 DEF Held
  <2>2. Len(a) + i \in Len(a) + k .. Len(c) /\ c[Len(a) + i] = g
    BY <1>1, <2>1
  <2>3. ASSUME NEW j \in Len(a) + k .. (Len(a) + i) - 1
        PROVE  c[j] # t
    <3> DEFINE m == j - Len(a)
    <3>1. m \in k .. i - 1 /\ m \in 1 .. Len(b) /\ j = Len(a) + m
      BY <1>1
    <3> HIDE DEF m
    <3> QED
      BY <1>1, <2>1, <3>1
  <2> QED
    BY <2>2, <2>3 DEF Held
<1>5. ASSUME NEW k \in 1 .. Len(b) + 1, Held(c, Len(a) + k, t, g)
      PROVE  Held(b, k, t, g)
  <2>1. PICK i \in Len(a) + k .. Len(c) :
          c[i] = g /\ \A j \in Len(a) + k .. i - 1 : c[j] # t
    BY <1>5 DEF Held
  <2>2. i - Len(a) \in k .. Len(b) /\ b[i - Len(a)] = g
    <3>1. i - Len(a) \in k .. Len(b) /\ i - Len(a) \in 1 .. Len(b)
      BY <1>1
    <3>2. c[Len(a) + (i - Len(a))] = b[i - Len(a)] /\ Len(a) + (i - Len(a)) = i
      BY <1>1, <3>1
    <3> QED
      BY <2>1, <3>1, <3>2
  <2>3. ASSUME NEW j \in k .. (i - Len(a)) - 1
        PROVE  b[j] # t
    <3>1. Len(a) + j \in Len(a) + k .. i - 1 /\ j \in 1 .. Len(b)
      BY <1>1, <2>2
    <3> QED
      BY <1>1, <2>1, <3>1
  <2> QED
    BY <2>2, <2>3 DEF Held
<1> QED
  BY <1>2, <1>3, <1>4, <1>5 DEF c

LEMMA ClosedConcat ==
  ASSUME NEW a \in Seq(Op), NEW b \in Seq(Op), NEW t, NEW g,
         Closed(a, t, g), Closed(b, t, g)
  PROVE  Closed(a \o b, t, g)
<1> DEFINE c == a \o b
<1>1. /\ Len(a) \in Nat /\ Len(b) \in Nat
      /\ Len(c) = Len(a) + Len(b)
      /\ \A i \in 1 .. Len(a) : c[i] = a[i]
      /\ \A i \in 1 .. Len(b) : c[Len(a) + i] = b[i]
  BY ConcatProperties
<1>2. /\ \A k \in 1 .. Len(a) + 1 : Held(c, k, t, g) <=> Held(a, k, t, g)
      /\ \A k \in 1 .. Len(b) + 1 : Held(c, Len(a) + k, t, g) <=> Held(b, k, t, g)
  BY HeldConcat DEF Closed
<1> HIDE DEF c
<1>3. ~Held(c, 1, t, g)
  BY <1>1, <1>2 DEF Closed
<1>4. ASSUME NEW k \in 1 .. Len(c)
      PROVE  /\ c[k] = t => Held(c, k + 1, t, g)
             /\ c[k] = g => ~Held(c, k + 1, t, g)
  <2>1. CASE k <= Len(a)
    <3>1. k \in 1 .. Len(a) /\ k + 1 \in 1 .. Len(a) + 1
      BY <1>1, <2>1
    <3> QED
      BY <1>1, <1>2, <3>1 DEF Closed
  <2>2. CASE k > Len(a)
    <3> DEFINE m == k - Len(a)
    <3>1. /\ m \in 1 .. Len(b) /\ m + 1 \in 1 .. Len(b) + 1
          /\ k = Len(a) + m /\ k + 1 = Len(a) + (m + 1)
      BY <1>1, <2>2
    <3>2. c[k] = b[m] /\ (Held(c, k + 1, t, g) <=> Held(b, m + 1, t, g))
      BY <1>1, <1>2, <3>1
    <3> QED
      BY <3>1, <3>2 DEF Closed
  <2> QED
    BY <1>1, <2>1, <2>2
<1> QED
  BY <1>3, <1>4 DEF Closed, c

LEMMA ClosedWithout ==
  ASSUME NEW s \in Seq(Op), NEW t, NEW g,
         \A i \in 1 .. Len(s) : s[i] # t /\ s[i] # g
  PROVE  Closed(s, t, g)
  BY DEF Closed, Held

\* One operation more.
LEMMA OneMore ==
  ASSUME NEW a \in Seq(Op), NEW o \in Op, NEW s, s = a \o <<o>>
  PROVE  /\ s \in Seq(Op) /\ Len(s) = Len(a) + 1
         /\ \A i \in 1 .. Len(a) : s[i] = a[i]
         /\ s[Len(a) + 1] = o
<1>1. <<o>> \in Seq(Op) /\ Len(<<o>>) = 1 /\ <<o>>[1] = o
  OBVIOUS
<1>2. /\ a \o <<o>> \in Seq(Op) /\ Len(a \o <<o>>) = Len(a) + 1
      /\ \A i \in 1 .. Len(a) : (a \o <<o>>)[i] = a[i]
      /\ (a \o <<o>>)[Len(a) + 1] = o
  BY <1>1, ConcatProperties
<1> QED
  BY <1>2

\* A section between t and g.
Bracket(t, body, g) == <<t>> \o body \o <<g>>

LEMMA Section ==
  ASSUME NEW body \in Seq(Op), NEW t \in Op, NEW g \in Op, t # g,
         \A i \in 1 .. Len(body) : body[i] # t /\ body[i] # g,
         NEW s, s = Bracket(t, body, g)
  PROVE  /\ s \in Seq(Op) /\ Len(s) = Len(body) + 2
         /\ s[1] = t /\ s[Len(s)] = g
         /\ \A i \in 2 .. Len(s) - 1 : i - 1 \in 1 .. Len(body) /\ s[i] = body[i - 1]
         /\ Closed(s, t, g)
         /\ \A k \in 2 .. Len(s) : Held(s, k, t, g)
<1> DEFINE a == <<t>> \o body
<1>0. s = a \o <<g>>
  BY DEF Bracket
<1>1. /\ <<t>> \in Seq(Op) /\ Len(<<t>>) = 1 /\ <<t>>[1] = t
      /\ <<g>> \in Seq(Op) /\ Len(<<g>>) = 1 /\ <<g>>[1] = g
      /\ Len(body) \in Nat
  OBVIOUS
<1>2. /\ a \in Seq(Op) /\ Len(a) = Len(body) + 1 /\ a[1] = t
      /\ \A i \in 2 .. Len(a) : i - 1 \in 1 .. Len(body) /\ a[i] = body[i - 1]
  <2>1. /\ a \in Seq(Op) /\ Len(a) = 1 + Len(body)
        /\ a[1] = t
        /\ \A i \in 1 .. Len(body) : a[1 + i] = body[i]
    BY <1>1, ConcatProperties
  <2> HIDE DEF a
  <2>2. ASSUME NEW i \in 2 .. Len(a)
        PROVE  i - 1 \in 1 .. Len(body) /\ a[i] = body[i - 1]
    <3>1. i - 1 \in 1 .. Len(body) /\ i = 1 + (i - 1)
      BY <1>1, <2>1
    <3> QED
      BY <2>1, <3>1
  <2> QED
    BY <1>1, <2>1, <2>2
<1> HIDE DEF a
<1>3. /\ s \in Seq(Op) /\ Len(s) = Len(body) + 2 /\ s[1] = t /\ s[Len(s)] = g
      /\ \A i \in 2 .. Len(s) - 1 : i - 1 \in 1 .. Len(body) /\ s[i] = body[i - 1]
  <2>2. /\ s \in Seq(Op) /\ Len(s) = Len(a) + 1
        /\ \A i \in 1 .. Len(a) : s[i] = a[i]
        /\ s[Len(a) + 1] = g
    BY <1>0, <1>2, OneMore
  <2>3. Len(a) \in Nat /\ Len(s) = Len(body) + 2
    BY <1>1, <1>2, <2>2
  <2>4. s[1] = t /\ s[Len(s)] = g
    BY <1>1, <1>2, <2>2
  <2>5. ASSUME NEW i \in 2 .. Len(s) - 1
        PROVE  i - 1 \in 1 .. Len(body) /\ s[i] = body[i - 1]
    <3>1. i \in 2 .. Len(a) /\ i \in 1 .. Len(a)
      BY <1>1, <1>2, <2>2
    <3> QED
      BY <1>2, <2>2, <3>1
  <2> QED
    BY <2>2, <2>3, <2>4, <2>5
<1>31. \A k \in 1 .. Len(s) :
         /\ k \in 2 .. Len(s) \/ k = 1
         /\ s[k] = t => k = 1
         /\ s[k] = g => k = Len(s)
  <2> SUFFICES ASSUME NEW k \in 1 .. Len(s), k # 1, k # Len(s)
               PROVE  s[k] # t /\ s[k] # g
    BY <1>1, <1>3
  <2>1. k \in 2 .. Len(s) - 1
    BY <1>1, <1>3
  <2> QED
    BY <1>3, <2>1
<1>4. ASSUME NEW k \in 2 .. Len(s)
      PROVE  Held(s, k, t, g)
  <2>1. Len(s) \in k .. Len(s) /\ \A j \in k .. Len(s) - 1 : s[j] # t
    BY <1>1, <1>3
  <2> QED
    BY <1>3, <2>1 DEF Held
<1>5. Closed(s, t, g)
  <2>1. ~Held(s, 1, t, g)
    <3>1. 1 \in 1 .. Len(s)
      BY <1>1, <1>3
    <3>2. s \in Seq(Op) /\ s[1] = t
      BY <1>3
    <3>3. s[1] = t => ~Held(s, 1, t, g)
      BY <3>1, <3>2, HeldMoves, Zenon
    <3> QED
      BY <3>2, <3>3
  <2>2. ASSUME NEW k \in 1 .. Len(s), s[k] = t
        PROVE  Held(s, k + 1, t, g)
    <3>1. k = 1 /\ k + 1 \in 2 .. Len(s)
      BY <1>1, <1>3, <1>31, <2>2
    <3> QED
      BY <1>4, <3>1
  <2>3. ASSUME NEW k \in 1 .. Len(s), s[k] = g
        PROVE  ~Held(s, k + 1, t, g)
    <3>1. k = Len(s) /\ k + 1 .. Len(s) = {}
      BY <1>1, <1>3, <1>31, <2>3
    <3> QED
      BY <3>1 DEF Held
  <2> QED
    BY <2>1, <2>2, <2>3 DEF Closed
<1> QED
  BY <1>3, <1>4, <1>5

-----------------------------------------------------------------------------
(***************************************************************************)
(* What is right about a path of call c: it closes every section it opens, *)
(* in the mode it opened it, and accesses data inside the right one.       *)
(***************************************************************************)

\* What c reads with no lock.
Free(c) ==
  CASE c = "GetRefreshTokenInfo" -> {R("refreshTokens"), R("RefreshToken")}
    [] c \in {"TokenCallback", "CreateAccessToken",
              "CreateAccessAndRefreshTokens", "CreateIDToken"} -> {R("AuthRequest")}
    [] OTHER -> {}

Guarded(c, s, k) ==
  /\ s[k] \notin {Drain("lock"), Enter("lock"), Leave("lock")}
  /\ s[k] = Drain("mu") => Held(s, k, Claim("mu"), Give("mu"))
  /\ \A x \in Data : s[k] \in {R(x), W(x)} =>
       s[k] \in Free(c) \/ Held(s, k, Claim("lock"), Give("lock"))
  /\ s[k] = W("AuthRequest") => c = "CompleteAuthRequest"
  /\ s[k] = W("challenges") =>
       \/ Held(s, k, Drain("mu"), Give("mu"))
       \/ c = "Get" /\ Held(s, k, Enter("mu"), Leave("mu"))
  /\ s[k] = R("challenges") => c = "Get" /\ Held(s, k, Enter("mu"), Leave("mu"))

Good(c, s) ==
  /\ s \in Seq(Op)
  /\ Closed(s, Claim("lock"), Give("lock"))
  /\ Closed(s, Claim("mu"), Give("mu"))
  /\ Closed(s, Drain("mu"), Give("mu"))
  /\ Closed(s, Enter("mu"), Leave("mu"))
  /\ \A k \in 1 .. Len(s) : Guarded(c, s, k)

AllGood(c, paths) == \A s \in paths : Good(c, s) /\ s # <<>>

LEMMA GoodConcat ==
  ASSUME NEW c, NEW a, NEW b, Good(c, a), Good(c, b)
  PROVE  Good(c, a \o b)
<1> DEFINE s == a \o b
<1>1. /\ a \in Seq(Op) /\ b \in Seq(Op) /\ s \in Seq(Op)
      /\ Len(a) \in Nat /\ Len(b) \in Nat
      /\ Len(s) = Len(a) + Len(b)
      /\ \A i \in 1 .. Len(a) : s[i] = a[i]
      /\ \A i \in 1 .. Len(b) : s[Len(a) + i] = b[i]
  BY ConcatProperties DEF Good
<1>2. /\ Closed(s, Claim("lock"), Give("lock"))
      /\ Closed(s, Claim("mu"), Give("mu"))
      /\ Closed(s, Drain("mu"), Give("mu"))
      /\ Closed(s, Enter("mu"), Leave("mu"))
  BY <1>1, ClosedConcat DEF Good
<1>3. ASSUME NEW t, NEW g
      PROVE  /\ \A k \in 1 .. Len(a) : Held(a, k, t, g) => Held(s, k, t, g)
             /\ \A k \in 1 .. Len(b) : Held(b, k, t, g) => Held(s, Len(a) + k, t, g)
  <2>1. /\ \A k \in 1 .. Len(a) + 1 : Held(a, k, t, g) => Held(s, k, t, g)
        /\ \A k \in 1 .. Len(b) + 1 :
             Held(s, Len(a) + k, t, g) <=> Held(b, k, t, g)
    BY <1>1, HeldConcat
  <2> HIDE DEF s
  <2> QED
    BY <1>1, <2>1
<1> HIDE DEF s
<1>4. ASSUME NEW k \in 1 .. Len(s)
      PROVE  Guarded(c, s, k)
  <2>1. CASE k <= Len(a)
    <3>1. k \in 1 .. Len(a) /\ s[k] = a[k] /\ Guarded(c, a, k)
      BY <1>1, <2>1 DEF Good
    <3> QED
      BY <1>3, <3>1 DEF Guarded
  <2>2. CASE k > Len(a)
    <3> DEFINE m == k - Len(a)
    <3>1. m \in 1 .. Len(b) /\ k = Len(a) + m
      BY <1>1, <2>2
    <3> HIDE DEF m
    <3>2. s[k] = b[m] /\ Guarded(c, b, m)
      BY <1>1, <3>1 DEF Good
    <3> QED
      BY <1>3, <3>1, <3>2 DEF Guarded
  <2> QED
    BY <1>1, <2>1, <2>2
<1> QED
  BY <1>1, <1>2, <1>4 DEF Good, s

LEMMA ThenGood ==
  ASSUME NEW c, NEW A, NEW B,
         \A a \in A : Good(c, a), AllGood(c, B)
  PROVE  AllGood(c, Then(A, B))
<1> SUFFICES ASSUME NEW s \in Then(A, B)
             PROVE  Good(c, s) /\ s # <<>>
  BY DEF AllGood
<1>0. PICK a \in A, b \in B : s = a \o b
  BY DEF Then
<1>1. Good(c, a) /\ Good(c, b) /\ b # <<>>
  BY DEF AllGood
<1>2. a \in Seq(Op) /\ b \in Seq(Op)
  BY <1>1 DEF Good
<1>3. a \o b # <<>>
  BY <1>1, <1>2
<1> QED
  BY <1>0, <1>1, <1>3, GoodConcat

\* What may be done under Storage.lock.
Inner(c) ==
  {R(x) : x \in Data} \cup {W(x) : x \in Data \ {"AuthRequest"}}
    \cup IF c = "CompleteAuthRequest" THEN {W("AuthRequest")} ELSE {}

LEMMA InnerOps ==
  ASSUME NEW c, NEW o \in Inner(c)
  PROVE  /\ o \in Op /\ o[1] \in {"read", "write"} /\ o[2] \in Data
         /\ o = W("AuthRequest") => c = "CompleteAuthRequest"
<1>1. "challenges" \notin Data /\ "AuthRequest" \in Data
  BY DEF Data
<1>2. CASE \E x \in Data : o = R(x)
  BY <1>1, <1>2, OpParts, OpTypes
<1>3. CASE \E x \in Data \ {"AuthRequest"} : o = W(x)
  BY <1>1, <1>3, OpParts, OpTypes
<1>4. CASE c = "CompleteAuthRequest" /\ o = W("AuthRequest")
  BY <1>1, <1>4, OpParts, OpTypes
<1> QED
  BY <1>2, <1>3, <1>4 DEF Inner

LEMMA LockedGood ==
  ASSUME NEW c, NEW body \in Seq(Inner(c))
  PROVE  Good(c, Locked(body)) /\ Locked(body) # <<>>
<1> DEFINE t == Claim("lock")
           g == Give("lock")
           s == Locked(body)
<1>1. s = Bracket(t, body, g)
  BY DEF Locked, Give, Bracket
<1>2. \A i \in 1 .. Len(body) :
        /\ body[i] \in Op /\ body[i][1] \in {"read", "write"} /\ body[i][2] \in Data
        /\ body[i] = W("AuthRequest") => c = "CompleteAuthRequest"
  BY InnerOps
<1>3. /\ body \in Seq(Op) /\ t \in Op /\ g \in Op /\ t # g
      /\ \A i \in 1 .. Len(body) : body[i] # t /\ body[i] # g
  BY <1>2, OpParts, OpTypes, SeqDef DEF Mutex
<1>4. /\ s \in Seq(Op) /\ Len(s) = Len(body) + 2 /\ s[1] = t /\ s[Len(s)] = g
      /\ \A i \in 2 .. Len(s) - 1 : i - 1 \in 1 .. Len(body) /\ s[i] = body[i - 1]
      /\ Closed(s, t, g) /\ \A k \in 2 .. Len(s) : Held(s, k, t, g)
  <2> HIDE DEF s, t, g
  <2> QED
    BY <1>1, <1>3, Section
<1> HIDE DEF s
<1>5. Len(body) \in Nat
  OBVIOUS
<1>6. \A i \in 1 .. Len(s) :
        \/ s[i] = t \/ s[i] = g
        \/ /\ s[i][1] \in {"read", "write"} /\ s[i][2] \in Data
           /\ s[i] = W("AuthRequest") => c = "CompleteAuthRequest"
           /\ Held(s, i, t, g)
  <2> SUFFICES ASSUME NEW i \in 1 .. Len(s), i # 1, i # Len(s)
               PROVE  /\ s[i][1] \in {"read", "write"} /\ s[i][2] \in Data
                      /\ s[i] = W("AuthRequest") => c = "CompleteAuthRequest"
                      /\ Held(s, i, t, g)
    BY <1>4
  <2>1. i \in 2 .. Len(s) - 1 /\ i \in 2 .. Len(s)
    BY <1>4, <1>5
  <2> QED
    BY <1>2, <1>4, <2>1
<1>7. "challenges" \notin Data
  BY DEF Data
<1>8. \A i \in 1 .. Len(s) : Guarded(c, s, i)
  BY <1>6, <1>7, OpParts DEF Guarded
<1>9. \A i \in 1 .. Len(s) :
        s[i] \notin {Claim("mu"), Give("mu"), Drain("mu"), Enter("mu"), Leave("mu")}
  BY <1>6, OpParts
<1>10. /\ Closed(s, Claim("mu"), Give("mu"))
       /\ Closed(s, Drain("mu"), Give("mu"))
       /\ Closed(s, Enter("mu"), Leave("mu"))
  BY <1>4, <1>9, ClosedWithout
<1>11. s # <<>>
  BY <1>4, <1>5
<1> QED
  BY <1>4, <1>8, <1>10, <1>11 DEF Good, s

\* Reads with no lock.
LEMMA FreeGood ==
  ASSUME NEW c, NEW s \in Seq(Free(c))
  PROVE  Good(c, s)
<1>1. \A o \in Free(c) : o \in Op /\ o[1] = "read" /\ o[2] # "challenges"
  BY OpParts, OpTypes DEF Free, Data
<1>2. \A i \in 1 .. Len(s) :
        s[i] \in Free(c) /\ s[i] \in Op /\ s[i][1] = "read" /\ s[i][2] # "challenges"
  BY <1>1
<1>3. s \in Seq(Op)
  BY <1>1, SeqMonotonic
<1>4. \A i \in 1 .. Len(s) : Guarded(c, s, i)
  BY <1>2, OpParts DEF Guarded
<1>5. \A i \in 1 .. Len(s) :
        s[i] \notin {Claim("lock"), Give("lock"), Claim("mu"), Give("mu"),
                     Drain("mu"), Enter("mu"), Leave("mu")}
  BY <1>2, OpParts
<1> QED
  BY <1>3, <1>4, <1>5, ClosedWithout DEF Good

-----------------------------------------------------------------------------
(***************************************************************************)
(* The paths of every call are right.                                      *)
(***************************************************************************)

Quad(a, b, d, e) == <<a, b>> \o <<d>> \o <<e>>

LEMMA FourParts ==
  ASSUME NEW s, NEW a, NEW b, NEW d, NEW e, s = Quad(a, b, d, e),
         a \in Op, b \in Op, d \in Op, e \in Op
  PROVE  /\ s \in Seq(Op) /\ Len(s) = 4
         /\ s[1] = a /\ s[2] = b /\ s[3] = d /\ s[4] = e
<1> DEFINE p == <<a, b>> \o <<d>>
<1>1. /\ <<a, b>> \in Seq(Op) /\ Len(<<a, b>>) = 2
      /\ <<a, b>>[1] = a /\ <<a, b>>[2] = b
  OBVIOUS
<1>2. /\ p \in Seq(Op) /\ Len(p) = 3
      /\ p[1] = a /\ p[2] = b /\ p[3] = d
  BY <1>1, ConcatProperties
<1>3. s = p \o <<e>>
  BY DEF Quad
<1> HIDE DEF p
<1>4. /\ s \in Seq(Op) /\ Len(s) = Len(p) + 1
      /\ \A i \in 1 .. Len(p) : s[i] = p[i]
      /\ s[Len(p) + 1] = e
  BY <1>2, <1>3, OneMore
<1> QED
  BY <1>2, <1>4

\* A section that claims and drains before it writes.
LEMMA QuadGood ==
  ASSUME NEW c, NEW s \in Seq(Op), Len(s) = 4,
         s[1] = Claim("mu"), s[2] = Drain("mu"), s[3] = W("challenges"),
         s[4] = Give("mu")
  PROVE  Good(c, s) /\ s # <<>>
<1>2. s # <<>> /\ \A k \in 1 .. Len(s) : k \in {1, 2, 3, 4}
  OBVIOUS
<1> DEFINE CM == Claim("mu")
           DM == Drain("mu")
           WC == W("challenges")
           GM == Give("mu")
<1>4. /\ CM # DM /\ CM # WC /\ CM # GM /\ DM # WC /\ DM # GM /\ WC # GM
      /\ \A o \in {CM, DM, WC, GM} :
           /\ o \notin {Claim("lock"), Give("lock"), Drain("lock"), Enter("lock"),
                        Leave("lock"), Enter("mu"), Leave("mu")}
           /\ o # W("AuthRequest") /\ o # R("challenges")
           /\ \A x \in Data : o \notin {R(x), W(x)}
      /\ CM # W("challenges") /\ DM # W("challenges") /\ GM # W("challenges")
  BY OpParts DEF Data
<1>5. Len(s) = 4 /\ s[1] = CM /\ s[2] = DM /\ s[3] = WC /\ s[4] = GM
  OBVIOUS
<1> HIDE DEF CM, DM, WC, GM
<1>6. /\ ~Held(s, 1, CM, GM) /\ Held(s, 2, CM, GM) /\ Held(s, 3, CM, GM)
      /\ Held(s, 4, CM, GM) /\ ~Held(s, 5, CM, GM)
  BY <1>2, <1>4, <1>5 DEF Held
<1>7. /\ ~Held(s, 1, DM, GM) /\ ~Held(s, 2, DM, GM) /\ Held(s, 3, DM, GM)
      /\ Held(s, 4, DM, GM) /\ ~Held(s, 5, DM, GM)
  BY <1>2, <1>4, <1>5 DEF Held
<1>8. Closed(s, CM, GM)
  BY <1>2, <1>4, <1>5, <1>6 DEF Closed
<1>9. Closed(s, DM, GM)
  BY <1>2, <1>4, <1>5, <1>7 DEF Closed
<1>10. Closed(s, Claim("lock"), Give("lock")) /\ Closed(s, Enter("mu"), Leave("mu"))
  BY <1>2, <1>4, <1>5, ClosedWithout
<1>11. \A k \in 1 .. Len(s) : Guarded(c, s, k)
  BY <1>2, <1>4, <1>5, <1>6, <1>7 DEF Guarded, CM, DM, WC, GM
<1> QED
  BY <1>2, <1>8, <1>9, <1>10, <1>11 DEF Good, CM, DM, GM

LEMMA StoreGood ==
  ASSUME NEW c
  PROVE  AllGood(c, Store) /\ AllGood(c, Delete)
<1> DEFINE C == Claim("mu")
           D == Drain("mu")
           B == W("challenges")
           G == Give("mu")
<1>1. /\ Store = {Quad(C, D, B, G)} /\ Delete = {Quad(C, D, B, G)}
      /\ C \in Op /\ D \in Op /\ B \in Op /\ G \in Op
  BY OpTypes DEF Store, Delete, WLocked, Give, Quad, Mutex
<1>2. \A s \in Seq(Op) :
        Len(s) = 4 /\ s[1] = C /\ s[2] = D /\ s[3] = B /\ s[4] = G
        => Good(c, s) /\ s # <<>>
  BY QuadGood
<1> HIDE DEF C, D, B, G
<1>3. PICK s : s = Quad(C, D, B, G)
  OBVIOUS
<1>4. /\ s \in Seq(Op) /\ Len(s) = 4
      /\ s[1] = C /\ s[2] = D /\ s[3] = B /\ s[4] = G
  <2>1. C \in Op /\ D \in Op /\ B \in Op /\ G \in Op
    BY <1>1
  <2> QED
    BY <1>3, <2>1, FourParts
<1> QED
  BY <1>1, <1>2, <1>3, <1>4 DEF AllGood

LEMMA GetGood ==
  ASSUME NEW body \in Seq({R("challenges"), W("challenges")}),
         NEW s, s = RLocked(body)
  PROVE  Good("Get", s) /\ s # <<>>
<1> DEFINE t == Enter("mu")
           g == Leave("mu")
<1>1. s = Bracket(t, body, g)
  BY DEF RLocked, Bracket, Enter, Leave
<1>2. /\ \A i \in 1 .. Len(body) : body[i] \in {R("challenges"), W("challenges")}
      /\ Len(body) \in Nat
  OBVIOUS
<1>3. R("challenges") \in Op /\ W("challenges") \in Op /\ t \in Op /\ g \in Op /\ t # g
  BY OpParts, OpTypes DEF Mutex
<1>4. \A i \in 1 .. Len(body) : body[i] # t /\ body[i] # g
  BY <1>2, OpParts
<1>5. body \in Seq(Op)
  BY <1>3, SeqMonotonic
<1>6. /\ s \in Seq(Op) /\ Len(s) = Len(body) + 2 /\ s[1] = t /\ s[Len(s)] = g
      /\ \A i \in 2 .. Len(s) - 1 : i - 1 \in 1 .. Len(body) /\ s[i] = body[i - 1]
      /\ Closed(s, t, g) /\ \A k \in 2 .. Len(s) : Held(s, k, t, g)
  <2> HIDE DEF t, g
  <2> QED
    BY <1>1, <1>3, <1>4, <1>5, Section
<1>7. \A i \in 1 .. Len(s) :
        \/ s[i] = t \/ s[i] = g
        \/ s[i] \in {R("challenges"), W("challenges")} /\ Held(s, i, t, g)
  <2> SUFFICES ASSUME NEW i \in 1 .. Len(s), i # 1, i # Len(s)
               PROVE  s[i] \in {R("challenges"), W("challenges")} /\ Held(s, i, t, g)
    BY <1>6
  <2>1. i \in 2 .. Len(s) - 1 /\ i \in 2 .. Len(s)
    BY <1>2, <1>6
  <2> QED
    BY <1>2, <1>6, <2>1
<1>8. "challenges" \notin Data /\ "AuthRequest" \in Data
  BY DEF Data
<1>9. \A i \in 1 .. Len(s) : Guarded("Get", s, i)
  BY <1>7, <1>8, OpParts DEF Guarded
<1>10. \A i \in 1 .. Len(s) :
         s[i] \notin {Claim("lock"), Give("lock"), Claim("mu"), Give("mu"), Drain("mu")}
  BY <1>7, OpParts
<1>11. /\ Closed(s, Claim("lock"), Give("lock"))
       /\ Closed(s, Claim("mu"), Give("mu"))
       /\ Closed(s, Drain("mu"), Give("mu"))
  BY <1>6, <1>10, ClosedWithout
<1>12. s # <<>>
  BY <1>2, <1>6
<1> QED
  BY <1>6, <1>9, <1>11, <1>12 DEF Good

\* Paths that run under Storage.lock from end to end.
LEMMA AllLocked ==
  ASSUME NEW c
  PROVE  \A body \in Seq(Inner(c)) : AllGood(c, {Locked(body)})
  BY LockedGood DEF AllGood

LEMMA AllUnion ==
  ASSUME NEW c, NEW A, NEW B, AllGood(c, A), AllGood(c, B)
  PROVE  AllGood(c, A \cup B)
  BY DEF AllGood

LEMMA InnerHas ==
  ASSUME NEW c
  PROVE  /\ \A x \in Data : R(x) \in Inner(c)
         /\ \A x \in Data \ {"AuthRequest"} : W(x) \in Inner(c)
         /\ c = "CompleteAuthRequest" => W("AuthRequest") \in Inner(c)
  BY DEF Inner

\* The operations by name.
LEMMA InnerNames ==
  ASSUME NEW c
  PROVE  /\ R("authRequests") \in Inner(c) /\ W("authRequests") \in Inner(c)
         /\ R("codes") \in Inner(c) /\ W("codes") \in Inner(c)
         /\ R("tokens") \in Inner(c) /\ W("tokens") \in Inner(c)
         /\ R("refreshTokens") \in Inner(c) /\ W("refreshTokens") \in Inner(c)
         /\ R("RefreshToken") \in Inner(c) /\ W("RefreshToken") \in Inner(c)
         /\ R("clients") \in Inner(c) /\ R("AuthRequest") \in Inner(c)
  BY InnerHas DEF Data

LEMMA SimpleCallsGood ==
  ASSUME NEW c
  PROVE  /\ AllGood(c, CreateAuthRequest) /\ AllGood(c, AuthRequestByID)
         /\ AllGood(c, {Locked(<<R("codes")>>)}) /\ AllGood(c, SaveAuthCode)
         /\ AllGood(c, createAccessToken) /\ AllGood(c, createRefreshToken)
         /\ AllGood(c, GetClientByClientID) /\ AllGood(c, AuthorizeClientIDSecret)
         /\ AllGood(c, ClientCredentials) /\ AllGood(c, SetUserinfoFromRequest)
         /\ AllGood(c, SetUserinfoFromToken) /\ AllGood(c, SetIntrospectionFromToken)
<1>1. ASSUME NEW o \in Inner(c)
      PROVE  AllGood(c, {Locked(<<o>>)})
  <2>1. <<o>> \in Seq(Inner(c))
    OBVIOUS
  <2> QED
    BY <2>1, AllLocked
<1> QED
  BY <1>1, InnerNames DEF CreateAuthRequest, AuthRequestByID, SaveAuthCode,
       createAccessToken, createRefreshToken, GetClientByClientID,
       AuthorizeClientIDSecret, ClientCredentials, SetUserinfoFromRequest,
       SetUserinfoFromToken, SetIntrospectionFromToken

LEMMA CompleteGood == AllGood("CompleteAuthRequest", CompleteAuthRequest)
<1> DEFINE S == Inner("CompleteAuthRequest")
<1>1. R("authRequests") \in S /\ W("AuthRequest") \in S
  BY InnerHas DEF Data
<1>0. \A body \in Seq(S) : AllGood("CompleteAuthRequest", {Locked(body)})
  BY AllLocked
<1> HIDE DEF S
<1>2. <<R("authRequests")>> \in Seq(S) /\ <<R("authRequests"), W("AuthRequest")>> \in Seq(S)
  BY <1>1
<1> QED
  BY <1>0, <1>2 DEF CompleteAuthRequest, AllGood

LEMMA DeleteRequestGood ==
  ASSUME NEW c
  PROVE  AllGood(c, DeleteAuthRequest)
<1> DEFINE S == Inner(c)
<1>1. W("authRequests") \in S /\ R("codes") \in S /\ W("codes") \in S
  BY InnerNames
<1>0. \A body \in Seq(S) : AllGood(c, {Locked(body)})
  BY AllLocked
<1> HIDE DEF S
<1>2. /\ <<W("authRequests"), R("codes")>> \in Seq(S)
      /\ <<W("authRequests"), R("codes"), W("codes")>> \in Seq(S)
  BY <1>1
<1> QED
  BY <1>0, <1>2 DEF DeleteAuthRequest, AllGood

LEMMA RenewGood ==
  ASSUME NEW c
  PROVE  AllGood(c, renewRefreshToken)
<1> DEFINE S == Inner(c)
           found == <<R("refreshTokens"), W("refreshTokens"), R("RefreshToken"),
                      W("tokens")>>
           renewed == <<W("RefreshToken"), W("refreshTokens")>>
<1>1. /\ R("refreshTokens") \in S /\ W("refreshTokens") \in S
      /\ R("RefreshToken") \in S /\ W("tokens") \in S /\ W("RefreshToken") \in S
  BY InnerNames
<1>2. renewRefreshToken =
        {Locked(<<R("refreshTokens")>>), Locked(found), Locked(found \o renewed)}
  BY DEF renewRefreshToken
<1>0. \A body \in Seq(S) : AllGood(c, {Locked(body)})
  BY AllLocked
<1> HIDE DEF S
<1>3. <<R("refreshTokens")>> \in Seq(S) /\ found \in Seq(S) /\ renewed \in Seq(S)
  BY <1>1
<1> HIDE DEF found, renewed
<1>4. found \o renewed \in Seq(S)
  BY <1>3
<1> QED
  BY <1>0, <1>2, <1>3, <1>4 DEF AllGood

LEMMA TerminateGood ==
  ASSUME NEW c
  PROVE  AllGood(c, TerminateSession) /\ AllGood(c, TokenRequestByRefreshToken)
<1> DEFINE S == Inner(c)
<1>1. /\ R("tokens") \in S /\ W("tokens") \in S /\ W("refreshTokens") \in S
      /\ R("refreshTokens") \in S /\ R("RefreshToken") \in S
  BY InnerNames
<1>0. \A body \in Seq(S) : AllGood(c, {Locked(body)})
  BY AllLocked
<1> HIDE DEF S
<1>2. <<R("tokens")>> \in Seq(S) /\ <<R("tokens"), W("tokens"), W("refreshTokens")>> \in Seq(S)
  BY <1>1
<1>3. <<R("refreshTokens")>> \in Seq(S) /\ <<R("refreshTokens"), R("RefreshToken")>> \in Seq(S)
  BY <1>1
<1> QED
  BY <1>0, <1>2, <1>3 DEF TerminateSession, TokenRequestByRefreshToken, AllGood

LEMMA RevokeGood ==
  ASSUME NEW c
  PROVE  AllGood(c, RevokeToken)
<1> DEFINE S == Inner(c)
           refresh == <<R("tokens"), R("refreshTokens"), R("RefreshToken")>>
           delete == <<W("refreshTokens"), W("tokens")>>
<1>1. /\ R("tokens") \in S /\ W("tokens") \in S /\ W("refreshTokens") \in S
      /\ R("refreshTokens") \in S /\ R("RefreshToken") \in S
  BY InnerNames
<1>2. RevokeToken =
        {Locked(<<R("tokens")>>), Locked(<<R("tokens"), W("tokens")>>),
         Locked(<<R("tokens"), R("refreshTokens")>>), Locked(refresh),
         Locked(refresh \o delete)}
  BY DEF RevokeToken
<1>0. \A body \in Seq(S) : AllGood(c, {Locked(body)})
  BY AllLocked
<1> HIDE DEF S
<1>3. /\ <<R("tokens")>> \in Seq(S) /\ <<R("tokens"), W("tokens")>> \in Seq(S)
      /\ <<R("tokens"), R("refreshTokens")>> \in Seq(S)
  BY <1>1
<1>4. refresh \in Seq(S) /\ delete \in Seq(S)
  BY <1>1
<1> HIDE DEF refresh, delete
<1>5. refresh \o delete \in Seq(S)
  BY <1>4
<1> QED
  BY <1>0, <1>2, <1>3, <1>4, <1>5 DEF AllGood

LEMMA FindEmailGood ==
  ASSUME NEW c
  PROVE  AllGood(c, SetUserinfoFromScopes) /\ AllGood(c, GetPrivateClaimsFromScopes)
<1> DEFINE S == Inner(c)
<1>1. R("authRequests") \in S /\ R("AuthRequest") \in S
  BY InnerNames
<1>0. \A body \in Seq(S) : AllGood(c, {Locked(body)})
  BY AllLocked
<1> HIDE DEF S
<1>2. <<R("authRequests")>> \in Seq(S) /\ <<R("authRequests"), R("AuthRequest")>> \in Seq(S)
  BY <1>1
<1> QED
  BY <1>0, <1>2 DEF SetUserinfoFromScopes, GetPrivateClaimsFromScopes,
                      findEmailBySubject, AllGood

\* Calls made of others.
LEMMA ByCodeGood ==
  ASSUME NEW c
  PROVE  /\ AllGood(c, FoundByCode) /\ AllGood(c, AuthRequestByCode)
         /\ R("AuthRequest") \in Free(c) =>
              AllGood(c, CreateAccessToken) /\ AllGood(c, TokenCallback)
<1>1. /\ AllGood(c, {Locked(<<R("codes")>>)}) /\ AllGood(c, AuthRequestByID)
      /\ AllGood(c, createAccessToken)
  BY SimpleCallsGood
<1>2. AllGood(c, FoundByCode)
  <2>1. \A a \in {Locked(<<R("codes")>>)} : Good(c, a)
    BY <1>1 DEF AllGood
  <2> QED
    BY <1>1, <2>1, ThenGood DEF FoundByCode
<1>3. AllGood(c, AuthRequestByCode)
  BY <1>1, <1>2, AllUnion DEF AuthRequestByCode
<1>4. ASSUME R("AuthRequest") \in Free(c)
      PROVE  AllGood(c, CreateAccessToken) /\ AllGood(c, TokenCallback)
  <2>1. <<>> \in Seq(Free(c)) /\ <<R("AuthRequest")>> \in Seq(Free(c))
    BY <1>4
  <2>2. Good(c, <<>>) /\ Good(c, <<R("AuthRequest")>>)
    BY <2>1, FreeGood
  <2>3. <<R("AuthRequest")>> # <<>>
    OBVIOUS
  <2>4. \A a \in Argument : Good(c, a)
    BY <2>2 DEF Argument
  <2>5. AllGood(c, CreateAccessToken)
    BY <1>1, <2>4, ThenGood DEF CreateAccessToken
  <2>6. AllGood(c, {<<R("AuthRequest")>>})
    BY <2>2, <2>3 DEF AllGood
  <2>7. AllGood(c, Then(FoundByCode, {<<R("AuthRequest")>>}))
    BY <1>2, <2>6, ThenGood DEF AllGood
  <2> QED
    BY <1>3, <2>5, <2>7, AllUnion DEF TokenCallback
<1> QED
  BY <1>2, <1>3, <1>4

LEMMA BothTokensGood ==
  ASSUME NEW c, R("AuthRequest") \in Free(c)
  PROVE  AllGood(c, CreateAccessAndRefreshTokens)
<1>1. /\ AllGood(c, CreateAccessToken) /\ AllGood(c, createRefreshToken)
      /\ AllGood(c, createAccessToken) /\ AllGood(c, renewRefreshToken)
  BY ByCodeGood, SimpleCallsGood, RenewGood
<1>2. AllGood(c, Then(CreateAccessToken, createRefreshToken))
  BY <1>1, ThenGood DEF AllGood
<1>3. AllGood(c, Then(createAccessToken, renewRefreshToken))
  BY <1>1, ThenGood DEF AllGood
<1> QED
  BY <1>2, <1>3, AllUnion DEF CreateAccessAndRefreshTokens

LEMMA UnlockedGood ==
  /\ AllGood("GetRefreshTokenInfo", GetRefreshTokenInfo)
  /\ AllGood("CreateIDToken", CreateIDToken)
<1>1. /\ R("refreshTokens") \in Free("GetRefreshTokenInfo")
      /\ R("RefreshToken") \in Free("GetRefreshTokenInfo")
      /\ R("AuthRequest") \in Free("CreateIDToken")
  BY DEF Free
<1>2. /\ <<R("refreshTokens")>> \in Seq(Free("GetRefreshTokenInfo"))
      /\ <<R("refreshTokens"), R("RefreshToken")>> \in Seq(Free("GetRefreshTokenInfo"))
      /\ <<R("AuthRequest")>> \in Seq(Free("CreateIDToken"))
  BY <1>1
<1>3. /\ <<R("refreshTokens")>> # <<>> /\ <<R("AuthRequest")>> # <<>>
      /\ <<R("refreshTokens"), R("RefreshToken")>> # <<>>
  OBVIOUS
<1> QED
  BY <1>2, <1>3, FreeGood DEF AllGood, GetRefreshTokenInfo, CreateIDToken

LEMMA GetsGood == AllGood("Get", Get)
<1> DEFINE S == {R("challenges"), W("challenges")}
<1>1. <<R("challenges")>> \in Seq(S) /\ <<R("challenges"), W("challenges")>> \in Seq(S)
  OBVIOUS
<1>2. \A body \in Seq(S) : Good("Get", RLocked(body)) /\ RLocked(body) # <<>>
  BY GetGood
<1> HIDE DEF S
<1> QED
  BY <1>1, <1>2 DEF AllGood, Get

LEMMA CallsGood == \A c \in DOMAIN Calls : AllGood(c, Calls[c])
<1> SUFFICES ASSUME NEW c \in DOMAIN Calls
             PROVE  AllGood(c, Calls[c])
  OBVIOUS
<1>1. CASE c \in {"Store", "Delete", "Get"}
  <2>1. /\ Calls["Store"] = Store /\ Calls["Delete"] = Delete /\ Calls["Get"] = Get
    BY DEF Calls
  <2> QED
    BY <1>1, <2>1, StoreGood, GetsGood
<1>2. CASE c \in {"CompleteAuthRequest", "CreateAuthRequest", "AuthRequestByID",
                  "AuthRequestByCode", "SaveAuthCode", "DeleteAuthRequest"}
  <2>1. /\ Calls["CompleteAuthRequest"] = CompleteAuthRequest
        /\ Calls["CreateAuthRequest"] = CreateAuthRequest
        /\ Calls["AuthRequestByID"] = AuthRequestByID
        /\ Calls["AuthRequestByCode"] = AuthRequestByCode
        /\ Calls["SaveAuthCode"] = SaveAuthCode
        /\ Calls["DeleteAuthRequest"] = DeleteAuthRequest
    BY DEF Calls
  <2> QED
    BY <1>2, <2>1, CompleteGood, SimpleCallsGood, ByCodeGood, DeleteRequestGood
<1>3. CASE c \in {"TokenCallback", "CreateAccessToken",
                  "CreateAccessAndRefreshTokens", "CreateIDToken"}
  <2>1. /\ Calls["TokenCallback"] = TokenCallback
        /\ Calls["CreateAccessToken"] = CreateAccessToken
        /\ Calls["CreateAccessAndRefreshTokens"] = CreateAccessAndRefreshTokens
        /\ Calls["CreateIDToken"] = CreateIDToken
    BY DEF Calls
  <2>2. R("AuthRequest") \in Free(c)
    BY <1>3 DEF Free
  <2> QED
    BY <1>3, <2>1, <2>2, ByCodeGood, BothTokensGood, UnlockedGood
<1>4. CASE c \in {"TokenRequestByRefreshToken", "TerminateSession",
                  "GetRefreshTokenInfo", "RevokeToken"}
  <2>1. /\ Calls["TokenRequestByRefreshToken"] = TokenRequestByRefreshToken
        /\ Calls["TerminateSession"] = TerminateSession
        /\ Calls["GetRefreshTokenInfo"] = GetRefreshTokenInfo
        /\ Calls["RevokeToken"] = RevokeToken
    BY DEF Calls
  <2> QED
    BY <1>4, <2>1, TerminateGood, UnlockedGood, RevokeGood
<1>5. CASE c \in {"GetClientByClientID", "AuthorizeClientIDSecret",
                  "ClientCredentials", "SetUserinfoFromScopes",
                  "GetPrivateClaimsFromScopes", "SetUserinfoFromRequest",
                  "SetUserinfoFromToken", "SetIntrospectionFromToken"}
  <2>1. /\ Calls["GetClientByClientID"] = GetClientByClientID
        /\ Calls["AuthorizeClientIDSecret"] = AuthorizeClientIDSecret
        /\ Calls["ClientCredentials"] = ClientCredentials
        /\ Calls["SetUserinfoFromScopes"] = SetUserinfoFromScopes
        /\ Calls["GetPrivateClaimsFromScopes"] = GetPrivateClaimsFromScopes
        /\ Calls["SetUserinfoFromRequest"] = SetUserinfoFromRequest
        /\ Calls["SetUserinfoFromToken"] = SetUserinfoFromToken
        /\ Calls["SetIntrospectionFromToken"] = SetIntrospectionFromToken
    BY DEF Calls
  <2> QED
    BY <1>5, <2>1, SimpleCallsGood, FindEmailGood
<1> QED
  BY <1>1, <1>2, <1>3, <1>4, <1>5 DEF Calls

-----------------------------------------------------------------------------
(***************************************************************************)
(* From a place on a path to what is left of it.                           *)
(***************************************************************************)

\* r gives back with g before it takes with t: Inside, of a sequence.
Gives(r, t, g) ==
  \E i \in DOMAIN r : r[i] = g /\ \A j \in 1 .. i - 1 : r[j] # t

\* r is path from its k-th operation on.
IsRest(path, k, r) ==
  /\ r \in Seq(Op) /\ r # <<>> /\ Len(r) = Len(path) - k + 1
  /\ \A i \in 1 .. Len(path) - k + 1 : r[i] = path[k + i - 1]

LEMMA RestParts ==
  ASSUME NEW path, NEW k, path \in Seq(Op), k \in 1 .. Len(path)
  PROVE  IsRest(path, k, Rest(path, k)) /\ Head(Rest(path, k)) = path[k]
<1> DEFINE r == Rest(path, k)
<1>1. /\ Len(path) \in Nat /\ k \in Int /\ k <= Len(path) /\ 1 <= k
      /\ \A i \in k .. Len(path) : path[i] \in Op
  OBVIOUS
<1>2. /\ r \in Seq(Op)
      /\ Len(r) = (IF k <= Len(path) THEN Len(path) - k + 1 ELSE 0)
      /\ \A i \in 1 .. Len(path) - k + 1 : r[i] = path[k + i - 1]
  BY <1>1, SubSeqProperties DEF Rest
<1> HIDE DEF r
<1>3. Len(r) = Len(path) - k + 1
  BY <1>1, <1>2
<1>4. r # <<>>
  BY <1>1, <1>2, <1>3
<1>5. r[1] = path[k]
  BY <1>1, <1>2
<1>6. Head(r) = r[1]
  OBVIOUS
<1>7. IsRest(path, k, r)
  BY <1>2, <1>3, <1>4 DEF IsRest
<1> QED
  BY <1>5, <1>6, <1>7 DEF r

LEMMA GivesHeld ==
  ASSUME NEW path, NEW k, NEW r, path \in Seq(Op), k \in 1 .. Len(path),
         r = Rest(path, k), NEW t, NEW g
  PROVE  Gives(r, t, g) <=> Held(path, k, t, g)
<1>1. /\ Len(path) \in Nat /\ k \in 1 .. Len(path)
      /\ DOMAIN r = 1 .. Len(path) - k + 1
      /\ \A i \in 1 .. Len(path) - k + 1 : r[i] = path[k + i - 1]
  <2>0. IsRest(path, k, r)
    BY RestParts
  <2>1. /\ r \in Seq(Op) /\ Len(r) = Len(path) - k + 1
        /\ \A i \in 1 .. Len(path) - k + 1 : r[i] = path[k + i - 1]
    BY <2>0 DEF IsRest
  <2>2. DOMAIN r = 1 .. Len(r)
    BY <2>1
  <2> QED
    BY <2>1, <2>2
<1>2. ASSUME Gives(r, t, g)
      PROVE  Held(path, k, t, g)
  <2>1. PICK i \in 1 .. Len(path) - k + 1 :
          r[i] = g /\ \A j \in 1 .. i - 1 : r[j] # t
    BY <1>1, <1>2 DEF Gives
  <2>2. k + i - 1 \in k .. Len(path) /\ path[k + i - 1] = g
    BY <1>1, <2>1
  <2>3. ASSUME NEW j \in k .. (k + i - 1) - 1
        PROVE  path[j] # t
    <3>1. /\ j - k + 1 \in 1 .. i - 1 /\ j - k + 1 \in 1 .. Len(path) - k + 1
          /\ k + (j - k + 1) - 1 = j
      BY <1>1, <2>1
    <3> QED
      BY <1>1, <2>1, <3>1
  <2> QED
    BY <2>2, <2>3 DEF Held
<1>3. ASSUME Held(path, k, t, g)
      PROVE  Gives(r, t, g)
  <2>1. PICK i \in k .. Len(path) : path[i] = g /\ \A j \in k .. i - 1 : path[j] # t
    BY <1>3 DEF Held
  <2>2. /\ i - k + 1 \in 1 .. Len(path) - k + 1 /\ k + (i - k + 1) - 1 = i
    BY <1>1, <2>1
  <2>3. r[i - k + 1] = g
    BY <1>1, <2>1, <2>2
  <2>4. ASSUME NEW j \in 1 .. (i - k + 1) - 1
        PROVE  r[j] # t
    <3>1. k + j - 1 \in k .. i - 1 /\ j \in 1 .. Len(path) - k + 1
      BY <1>1, <2>1
    <3> QED
      BY <1>1, <2>1, <3>1
  <2> QED
    BY <1>1, <2>2, <2>3, <2>4 DEF Gives
<1> QED
  BY <1>2, <1>3

LEMMA RestMoves ==
  ASSUME NEW path, NEW k, NEW r, path \in Seq(Op), k \in 1 .. Len(path),
         r = Rest(path, k)
  PROVE  /\ k < Len(path) => Tail(r) = Rest(path, k + 1) /\ Tail(r) # <<>>
         /\ k = Len(path) => Tail(r) = <<>>
<1>1. /\ Len(path) \in Nat /\ k \in 1 .. Len(path)
      /\ r \in Seq(Op) /\ r # <<>> /\ Len(r) = Len(path) - k + 1
      /\ \A i \in 1 .. Len(path) - k + 1 : r[i] = path[k + i - 1]
  <2>1. IsRest(path, k, r)
    BY RestParts
  <2> QED
    BY <2>1 DEF IsRest
<1>2. /\ Tail(r) \in Seq(Op) /\ Len(Tail(r)) = Len(r) - 1
      /\ \A i \in 1 .. Len(Tail(r)) : Tail(r)[i] = r[i + 1]
  BY <1>1, HeadTailProperties
<1>3. ASSUME k < Len(path)
      PROVE  Tail(r) = Rest(path, k + 1) /\ Tail(r) # <<>>
  <2> DEFINE n == Rest(path, k + 1)
  <2>1. k + 1 \in 1 .. Len(path)
    BY <1>1, <1>3
  <2>2. /\ n \in Seq(Op) /\ n # <<>> /\ Len(n) = Len(path) - (k + 1) + 1
        /\ \A i \in 1 .. Len(path) - (k + 1) + 1 : n[i] = path[(k + 1) + i - 1]
    <3>1. IsRest(path, k + 1, n)
      BY <2>1, RestParts
    <3> HIDE DEF n
    <3> QED
      BY <3>1 DEF IsRest
  <2> HIDE DEF n
  <2>3. Len(n) = Len(Tail(r))
    BY <1>1, <1>2, <2>2
  <2>4. ASSUME NEW i \in 1 .. Len(n)
        PROVE  n[i] = Tail(r)[i]
    <3>1. /\ i \in 1 .. Len(Tail(r)) /\ i + 1 \in 1 .. Len(path) - k + 1
          /\ i \in 1 .. Len(path) - (k + 1) + 1
          /\ k + (i + 1) - 1 = (k + 1) + i - 1
      BY <1>1, <1>2, <2>2, <2>3
    <3> QED
      BY <1>1, <1>2, <2>2, <3>1
  <2>5. n = Tail(r)
    BY <1>2, <2>2, <2>3, <2>4, SeqEqual
  <2> QED
    BY <2>2, <2>5 DEF n
<1>4. ASSUME k = Len(path)
      PROVE  Tail(r) = <<>>
  <2>1. Len(Tail(r)) = 0
    BY <1>1, <1>2, <1>4
  <2> QED
    BY <1>2, <2>1, EmptySeq
<1> QED
  BY <1>3, <1>4

\* One operation on: what it takes is inside, what it gives back no more.
LEMMA GivesMoves ==
  ASSUME NEW path, NEW k, NEW r, path \in Seq(Op), k \in 1 .. Len(path),
         r = Rest(path, k), NEW t, NEW g, t # g, Closed(path, t, g)
  PROVE  /\ Head(r) = t => ~Gives(r, t, g) /\ Gives(Tail(r), t, g)
         /\ Head(r) = g => Gives(r, t, g) /\ ~Gives(Tail(r), t, g)
         /\ Head(r) # t /\ Head(r) # g =>
              (Gives(r, t, g) <=> Gives(Tail(r), t, g))
<1>1. Head(r) = path[k]
  BY RestParts
<1>2. Gives(r, t, g) <=> Held(path, k, t, g)
  BY GivesHeld
<1>3. Gives(Tail(r), t, g) <=> Held(path, k + 1, t, g)
  <2>1. CASE k < Len(path)
    <3>1. k + 1 \in 1 .. Len(path)
      BY <2>1
    <3> QED
      BY <2>1, <3>1, RestMoves, GivesHeld
  <2>2. CASE k = Len(path)
    <3>1. Tail(r) = <<>>
      BY <2>2, RestMoves
    <3>2. k + 1 .. Len(path) = {}
      BY <2>2
    <3> QED
      BY <3>1, <3>2 DEF Gives, Held
  <2> QED
    BY <2>1, <2>2
<1>4. /\ path[k] = g => Held(path, k, t, g)
      /\ path[k] = t => ~Held(path, k, t, g)
      /\ path[k] # g /\ path[k] # t => (Held(path, k, t, g) <=> Held(path, k + 1, t, g))
  BY HeldMoves
<1>5. /\ path[k] = t => Held(path, k + 1, t, g)
      /\ path[k] = g => ~Held(path, k + 1, t, g)
  BY DEF Closed
<1> QED
  BY <1>1, <1>2, <1>3, <1>4, <1>5

LEMMA PathWhole ==
  ASSUME NEW path, path \in Seq(Op), path # <<>>
  PROVE  path = Rest(path, 1) /\ 1 \in 1 .. Len(path)
<1>1. Len(path) \in Nat /\ Len(path) # 0
  BY EmptySeq
<1>2. 1 \in 1 .. Len(path)
  BY <1>1
<1>3. /\ Rest(path, 1) \in Seq(Op) /\ Len(Rest(path, 1)) = Len(path) - 1 + 1
      /\ \A i \in 1 .. Len(path) - 1 + 1 : Rest(path, 1)[i] = path[1 + i - 1]
  BY <1>2, RestParts DEF IsRest
<1>4. path = Rest(path, 1)
  <2>1. Len(Rest(path, 1)) = Len(path)
    BY <1>1, <1>3
  <2>2. \A i \in 1 .. Len(path) : Rest(path, 1)[i] = path[i]
    BY <1>1, <1>3
  <2> QED
    BY <1>3, <2>1, <2>2, SeqEqual
<1> QED
  BY <1>2, <1>4

-----------------------------------------------------------------------------
(***************************************************************************)
(* The inductive invariant.                                                *)
(***************************************************************************)

\* Who waited for the readers to leave keeps the mutex, and keeps them out,
\* until it gives the mutex back: what DrainReaders waited for still holds.
Drained ==
  \A p \in Proc : Inside(p, Drain("mu"), Give("mu")) =>
    owner["mu"] = p /\ readers["mu"] = {}

IndInv == LocksMatch /\ Drained

\* The pairs of operations that open and close a section.
Opens(t, g) ==
  \/ t \in {Claim("mu"), Drain("mu")} /\ g = Give("mu")
  \/ t = Claim("lock") /\ g = Give("lock")
  \/ t = Enter("mu") /\ g = Leave("mu")
  \/ t = Enter("lock") /\ g = Leave("lock")

LEMMA OpensParts ==
  ASSUME NEW t, NEW g, Opens(t, g)
  PROVE  t # g
  BY OpParts DEF Opens

LEMMA GoodCloses ==
  ASSUME NEW c, NEW s, Good(c, s), NEW t, NEW g, Opens(t, g)
  PROVE  Closed(s, t, g)
<1>1. \A k \in 1 .. Len(s) : s[k] # Enter("lock") /\ s[k] # Leave("lock")
  BY DEF Good, Guarded
<1>2. Closed(s, Enter("lock"), Leave("lock"))
  BY <1>1, ClosedWithout DEF Good
<1> QED
  BY <1>2 DEF Good, Opens

\* Where a goroutine is.
LEMMA Where ==
  ASSUME TypeOK, NEW p \in Proc, call[p] # None
  PROVE  \E path, k : /\ call[p] \in DOMAIN Calls /\ path \in Calls[call[p]]
                      /\ Good(call[p], path) /\ path \in Seq(Op)
                      /\ k \in 1 .. Len(path) /\ todo[p] = Rest(path, k)
<1>1. call[p] \in DOMAIN Calls
  BY DEF TypeOK
<1>2. PICK path \in Calls[call[p]] : \E k \in 1 .. Len(path) : todo[p] = Rest(path, k)
  BY DEF TypeOK
<1>3. PICK k \in 1 .. Len(path) : todo[p] = Rest(path, k)
  BY <1>2
<1>4. AllGood(call[p], Calls[call[p]])
  BY <1>1, CallsGood
<1>5. Good(call[p], path) /\ path \in Seq(Op)
  BY <1>4 DEF AllGood, Good
<1> QED
  BY <1>1, <1>3, <1>5

\* What the invariant says of the goroutines' places, in terms of Gives.
Matches ==
  \A p \in Proc, l \in Mutex :
    /\ owner[l] = p <=> Gives(todo[p], Claim(l), Give(l))
    /\ p \in readers[l] <=> Gives(todo[p], Enter(l), Leave(l))

Holds ==
  \A p \in Proc : Gives(todo[p], Drain("mu"), Give("mu")) =>
    owner["mu"] = p /\ readers["mu"] = {}

LEMMA IndInvParts ==
  /\ IndInv <=> TypeOK /\ Matches /\ Holds
  /\ IndInv' <=> TypeOK' /\ Matches' /\ Holds'
<1>1. /\ \A p, l : /\ Inside(p, Claim(l), <<"unlock", l>>)
                        <=> Gives(todo[p], Claim(l), Give(l))
                   /\ Inside(p, <<"rlock", l>>, <<"runlock", l>>)
                        <=> Gives(todo[p], Enter(l), Leave(l))
      /\ \A p, l : /\ Inside(p, Claim(l), <<"unlock", l>>)'
                        <=> Gives(todo'[p], Claim(l), Give(l))
                   /\ Inside(p, <<"rlock", l>>, <<"runlock", l>>)'
                        <=> Gives(todo'[p], Enter(l), Leave(l))
  BY DEF Inside, Gives, Give, Enter, Leave
<1>2. /\ LocksMatch <=> TypeOK /\ Matches
      /\ LocksMatch' <=> TypeOK' /\ Matches'
  BY <1>1 DEF LocksMatch, Matches
<1>3. (Drained <=> Holds) /\ (Drained' <=> Holds')
  BY DEF Drained, Holds, Inside, Gives
<1> QED
  BY <1>2, <1>3 DEF IndInv

LEMMA NothingLeft == \A t, g : ~Gives(<<>>, t, g)
  BY DEF Gives

\* A goroutine's next operation moves it in and out of its own sections only.
LEMMA Moves ==
  ASSUME TypeOK, NEW p \in Proc, call[p] # None, Done(p),
         NEW t, NEW g, Opens(t, g)
  PROVE  /\ Head(todo[p]) = t =>
              ~Gives(todo[p], t, g) /\ Gives(todo'[p], t, g)
         /\ Head(todo[p]) = g =>
              Gives(todo[p], t, g) /\ ~Gives(todo'[p], t, g)
         /\ Head(todo[p]) # t /\ Head(todo[p]) # g =>
              (Gives(todo[p], t, g) <=> Gives(todo'[p], t, g))
         /\ \A q \in Proc : q # p => todo'[q] = todo[q]
<1>1. PICK path, k : /\ Good(call[p], path) /\ path \in Seq(Op)
                     /\ k \in 1 .. Len(path) /\ todo[p] = Rest(path, k)
  BY Where
<1>2. Closed(path, t, g) /\ t # g
  BY <1>1, GoodCloses, OpensParts
<1>3. todo'[p] = Tail(todo[p]) /\ \A q \in Proc : q # p => todo'[q] = todo[q]
  BY DEF Done, TypeOK
<1>4. PICK r : r = todo[p]
  OBVIOUS
<1>5. /\ Head(r) = t => ~Gives(r, t, g) /\ Gives(Tail(r), t, g)
      /\ Head(r) = g => Gives(r, t, g) /\ ~Gives(Tail(r), t, g)
      /\ Head(r) # t /\ Head(r) # g => (Gives(r, t, g) <=> Gives(Tail(r), t, g))
  BY <1>1, <1>2, <1>4, GivesMoves
<1> QED
  BY <1>3, <1>4, <1>5

\* The types of what Done changes.
CallsTyped ==
  /\ call \in [Proc -> DOMAIN Calls \cup {None}]
  /\ DOMAIN todo = Proc
  /\ \A p \in Proc :
       IF call[p] = None THEN todo[p] = <<>>
       ELSE \E path \in Calls[call[p]] :
              \E k \in 1 .. Len(path) : todo[p] = Rest(path, k)

LEMMA DoneTyped ==
  ASSUME TypeOK, NEW p \in Proc, call[p] # None, Done(p)
  PROVE  CallsTyped'
<1>1. PICK path, k : /\ call[p] \in DOMAIN Calls /\ path \in Calls[call[p]]
                     /\ path \in Seq(Op)
                     /\ k \in 1 .. Len(path) /\ todo[p] = Rest(path, k)
  BY Where
<1>2. /\ call' \in [Proc -> DOMAIN Calls \cup {None}] /\ DOMAIN todo' = Proc
      /\ \A q \in Proc \ {p} : call'[q] = call[q] /\ todo'[q] = todo[q]
      /\ todo'[p] = Tail(todo[p])
      /\ call'[p] = IF Tail(todo[p]) = <<>> THEN None ELSE call[p]
  BY <1>1 DEF Done, TypeOK
<1>3. /\ k < Len(path) => Tail(todo[p]) = Rest(path, k + 1) /\ Tail(todo[p]) # <<>>
      /\ k = Len(path) => Tail(todo[p]) = <<>>
  BY <1>1, RestMoves
<1>4. k = Len(path) \/ (k < Len(path) /\ k + 1 \in 1 .. Len(path))
  BY <1>1
<1>5. IF call'[p] = None THEN todo'[p] = <<>>
      ELSE \E way \in Calls[call'[p]] :
             \E n \in 1 .. Len(way) : todo'[p] = Rest(way, n)
  <2>1. CASE k = Len(path)
    BY <1>2, <1>3, <2>1
  <2>2. CASE k < Len(path) /\ k + 1 \in 1 .. Len(path)
    <3>1. call'[p] = call[p] /\ todo'[p] = Rest(path, k + 1)
      BY <1>2, <1>3, <2>2
    <3> QED
      BY <1>1, <2>2, <3>1
  <2> QED
    BY <1>4, <2>1, <2>2
<1>6. ASSUME NEW q \in Proc
      PROVE  IF call'[q] = None THEN todo'[q] = <<>>
             ELSE \E way \in Calls[call'[q]] :
                    \E n \in 1 .. Len(way) : todo'[q] = Rest(way, n)
  <2>1. CASE q = p
    BY <1>5, <2>1
  <2>2. CASE q # p
    <3>1. call'[q] = call[q] /\ todo'[q] = todo[q]
      BY <1>2, <2>2
    <3> QED
      BY <3>1 DEF TypeOK
  <2> QED
    BY <2>1, <2>2
<1> QED
  BY <1>2, <1>6 DEF CallsTyped

LEMMA TypedParts ==
  /\ TypeOK => /\ CallsTyped
               /\ owner \in [Mutex -> Proc \cup {None}]
               /\ readers \in [Mutex -> SUBSET Proc]
               /\ readers["lock"] = {}
  /\ TypeOK' <=> /\ CallsTyped'
                 /\ owner' \in [Mutex -> Proc \cup {None}]
                 /\ readers' \in [Mutex -> SUBSET Proc]
                 /\ readers'["lock"] = {}
  BY DEF TypeOK, CallsTyped

\* A step that leaves the mutexes alone, and everyone where they were with
\* respect to every section.
LEMMA Quiet ==
  ASSUME IndInv, CallsTyped', UNCHANGED <<owner, readers>>,
         \A q \in Proc : \A t, g : Opens(t, g) =>
           (Gives(todo[q], t, g) <=> Gives(todo'[q], t, g))
  PROVE  IndInv'
<1>1. /\ Opens(Claim("mu"), Give("mu")) /\ Opens(Claim("lock"), Give("lock"))
      /\ Opens(Enter("mu"), Leave("mu")) /\ Opens(Enter("lock"), Leave("lock"))
      /\ Opens(Drain("mu"), Give("mu"))
  BY DEF Opens
<1>2. \A l \in Mutex : Opens(Claim(l), Give(l)) /\ Opens(Enter(l), Leave(l))
  BY <1>1 DEF Mutex
<1>3. TypeOK /\ Matches /\ Holds
  BY IndInvParts
<1>4. TypeOK'
  BY <1>3, TypedParts
<1>5. Matches'
  BY <1>2, <1>3 DEF Matches
<1>6. Holds'
  BY <1>1, <1>3 DEF Holds
<1> QED
  BY <1>4, <1>5, <1>6, IndInvParts

LEMMA InitIndInv == Init => IndInv
<1> SUFFICES ASSUME Init
             PROVE  IndInv
  OBVIOUS
<1>1. TypeOK
  BY DEF Init, TypeOK, Mutex
<1>2. \A p \in Proc : \A t, g : ~Gives(todo[p], t, g)
  BY NothingLeft DEF Init
<1>3. \A p \in Proc, l \in Mutex : owner[l] # p /\ p \notin readers[l]
  BY LAssumption DEF Init
<1> QED
  BY <1>1, <1>2, <1>3, IndInvParts DEF Matches, Holds

LEMMA BeginKeeps ==
  ASSUME IndInv, NEW p \in Proc, Begin(p)
  PROVE  IndInv'
<1>1. TypeOK
  BY IndInvParts
<1>2. PICK c \in DOMAIN Calls : \E path \in Calls[c] :
        /\ call' = [call EXCEPT ![p] = c]
        /\ todo' = [todo EXCEPT ![p] = path]
  BY DEF Begin
<1>3. PICK path \in Calls[c] : /\ call' = [call EXCEPT ![p] = c]
                               /\ todo' = [todo EXCEPT ![p] = path]
  BY <1>2
<1>4. Good(c, path) /\ path # <<>> /\ path \in Seq(Op)
  BY CallsGood DEF AllGood, Good
<1>5. path = Rest(path, 1) /\ 1 \in 1 .. Len(path)
  BY <1>4, PathWhole
<1>6. /\ call' \in [Proc -> DOMAIN Calls \cup {None}] /\ DOMAIN todo' = Proc
      /\ call'[p] = c /\ todo'[p] = path /\ todo[p] = <<>>
      /\ \A q \in Proc \ {p} : call'[q] = call[q] /\ todo'[q] = todo[q]
  BY <1>1, <1>3 DEF TypeOK, Begin
<1>7. CallsTyped'
  <2>1. ASSUME NEW q \in Proc
        PROVE  IF call'[q] = None THEN todo'[q] = <<>>
               ELSE \E way \in Calls[call'[q]] :
                      \E n \in 1 .. Len(way) : todo'[q] = Rest(way, n)
    <3>1. CASE q = p
      <4>1. c # None
        BY LAssumption
      <4> QED
        BY <1>5, <1>6, <3>1, <4>1
    <3>2. CASE q # p
      <4>1. call'[q] = call[q] /\ todo'[q] = todo[q]
        BY <1>6, <3>2
      <4> QED
        BY <1>1, <4>1 DEF TypeOK
    <3> QED
      BY <3>1, <3>2
  <2> QED
    BY <1>6, <2>1 DEF CallsTyped
<1>8. ASSUME NEW q \in Proc, NEW t, NEW g, Opens(t, g)
      PROVE  Gives(todo[q], t, g) <=> Gives(todo'[q], t, g)
  <2>1. CASE q = p
    <3>1. ~Gives(path, t, g)
      <4>1. ~Held(path, 1, t, g)
        BY <1>4, <1>8, GoodCloses DEF Closed
      <4> QED
        BY <1>4, <1>5, <4>1, GivesHeld
    <3>2. ~Gives(todo[q], t, g)
      BY <1>6, <2>1, NothingLeft
    <3> QED
      BY <1>6, <2>1, <3>1, <3>2
  <2>2. CASE q # p
    BY <1>6, <2>2
  <2> QED
    BY <2>1, <2>2
<1>9. UNCHANGED <<owner, readers>>
  BY DEF Begin
<1> QED
  BY <1>7, <1>8, <1>9, Quiet

LEMMA AccessKeeps ==
  ASSUME IndInv, NEW p \in Proc, Access(p)
  PROVE  IndInv'
<1>1. TypeOK /\ call[p] # None /\ Done(p) /\ UNCHANGED <<owner, readers>>
  BY IndInvParts DEF Access
<1>2. Head(todo[p])[1] \in {"read", "write"}
  BY DEF Access
<1>3. ASSUME NEW q \in Proc, NEW t, NEW g, Opens(t, g)
      PROVE  Gives(todo[q], t, g) <=> Gives(todo'[q], t, g)
  <2>1. t[1] \notin {"read", "write"} /\ g[1] \notin {"read", "write"}
    BY <1>3, OpParts DEF Opens
  <2>2. Head(todo[p]) # t /\ Head(todo[p]) # g
    BY <1>2, <2>1
  <2>3. /\ Gives(todo[p], t, g) <=> Gives(todo'[p], t, g)
        /\ \A x \in Proc : x # p => todo'[x] = todo[x]
    BY <1>1, <1>3, <2>2, Moves
  <2> QED
    BY <2>3
<1>4. CallsTyped'
  BY <1>1, DoneTyped
<1> QED
  BY <1>1, <1>3, <1>4, Quiet

\* What every operation on a mutex does to the sections.
SectionsMove(p, o) ==
  /\ \A t, g : Opens(t, g) =>
       /\ o = t => ~Gives(todo[p], t, g) /\ Gives(todo'[p], t, g)
       /\ o = g => Gives(todo[p], t, g) /\ ~Gives(todo'[p], t, g)
       /\ o # t /\ o # g => (Gives(todo[p], t, g) <=> Gives(todo'[p], t, g))
  /\ \A q \in Proc : q # p => todo'[q] = todo[q]

LEMMA AtMoves ==
  ASSUME IndInv, NEW p \in Proc, NEW o, At(p, o), Done(p)
  PROVE  SectionsMove(p, o) /\ CallsTyped' /\ call[p] # None
<1>1. TypeOK /\ call[p] # None /\ Head(todo[p]) = o
  BY IndInvParts DEF At
<1>2. CallsTyped'
  BY <1>1, DoneTyped
<1>3. ASSUME NEW t, NEW g, Opens(t, g)
      PROVE  /\ o = t => ~Gives(todo[p], t, g) /\ Gives(todo'[p], t, g)
             /\ o = g => Gives(todo[p], t, g) /\ ~Gives(todo'[p], t, g)
             /\ o # t /\ o # g => (Gives(todo[p], t, g) <=> Gives(todo'[p], t, g))
  BY <1>1, <1>3, Moves
<1>4. \A q \in Proc : q # p => todo'[q] = todo[q]
  <2>1. Opens(Claim("mu"), Give("mu"))
    BY DEF Opens
  <2> QED
    BY <1>1, <2>1, Moves
<1> QED
  BY <1>1, <1>2, <1>3, <1>4 DEF SectionsMove

\* No operation is on the storage's Mutex as if it were an RWMutex, and
\* readers are waited for by who has claimed the mutex.
LEMMA AtMutex ==
  ASSUME IndInv, NEW p \in Proc, NEW o, At(p, o)
  PROVE  /\ o \notin {Drain("lock"), Enter("lock"), Leave("lock")}
         /\ o = Drain("mu") => owner["mu"] = p
<1>1. TypeOK /\ Matches /\ call[p] # None /\ Head(todo[p]) = o
  BY IndInvParts DEF At
<1>2. PICK path, k : /\ Good(call[p], path) /\ path \in Seq(Op)
                     /\ k \in 1 .. Len(path) /\ todo[p] = Rest(path, k)
  BY <1>1, Where
<1>3. Guarded(call[p], path, k) /\ o = path[k]
  BY <1>1, <1>2, RestParts DEF Good
<1>4. Gives(todo[p], Claim("mu"), Give("mu")) <=> Held(path, k, Claim("mu"), Give("mu"))
  BY <1>2, GivesHeld
<1> QED
  BY <1>1, <1>3, <1>4 DEF Guarded, Matches, Mutex

\* The sections, by name.
LEMMA OpensAll ==
  /\ Opens(Drain("mu"), Give("mu"))
  /\ \A l \in Mutex : Opens(Claim(l), Give(l)) /\ Opens(Enter(l), Leave(l))
  BY DEF Opens, Mutex

LEMMA ClaimKeeps ==
  ASSUME IndInv, NEW p \in Proc, NEW l \in Mutex, ClaimLock(p, l)
  PROVE  IndInv'
<1>1. /\ TypeOK /\ Matches /\ Holds /\ SectionsMove(p, Claim(l)) /\ CallsTyped'
      /\ owner[l] = None /\ owner' = [owner EXCEPT ![l] = p] /\ readers' = readers
  BY IndInvParts, AtMoves DEF ClaimLock
<1>2. /\ owner \in [Mutex -> Proc \cup {None}] /\ owner'[l] = p
      /\ \A x \in Mutex : x # l => owner'[x] = owner[x]
      /\ owner' \in [Mutex -> Proc \cup {None}]
  BY <1>1 DEF TypeOK
<1>3. TypeOK'
  BY <1>1, <1>2, TypedParts
<1>4. ASSUME NEW q \in Proc, NEW x \in Mutex
      PROVE  /\ owner'[x] = q <=> Gives(todo'[q], Claim(x), Give(x))
             /\ q \in readers'[x] <=> Gives(todo'[q], Enter(x), Leave(x))
  <2>1. /\ owner[x] = q <=> Gives(todo[q], Claim(x), Give(x))
        /\ q \in readers[x] <=> Gives(todo[q], Enter(x), Leave(x))
    BY <1>1 DEF Matches
  <2>2. CASE q = p
    <3>1. /\ x # l => Claim(l) # Claim(x)
          /\ Claim(l) \notin {Give(x), Enter(x), Leave(x)}
      BY OpParts
    <3>2. /\ x = l => Gives(todo'[p], Claim(x), Give(x))
          /\ x # l => (Gives(todo[p], Claim(x), Give(x))
                         <=> Gives(todo'[p], Claim(x), Give(x)))
          /\ Gives(todo[p], Enter(x), Leave(x)) <=> Gives(todo'[p], Enter(x), Leave(x))
      BY <1>1, <3>1, OpensAll DEF SectionsMove
    <3> QED
      BY <1>1, <1>2, <2>1, <2>2, <3>2
  <2>3. CASE q # p
    <3>1. todo'[q] = todo[q]
      BY <1>1, <2>3 DEF SectionsMove
    <3>2. q # None
      BY LAssumption
    <3>3. owner'[x] = q <=> owner[x] = q
      BY <1>1, <1>2, <2>3, <3>2
    <3> QED
      BY <1>1, <2>1, <3>1, <3>3
  <2> QED
    BY <2>2, <2>3
<1>5. ASSUME NEW q \in Proc, Gives(todo'[q], Drain("mu"), Give("mu"))
      PROVE  owner'["mu"] = q /\ readers'["mu"] = {}
  <2>1. Claim(l) # Drain("mu") /\ Claim(l) # Give("mu")
    BY OpParts
  <2>2. Gives(todo[q], Drain("mu"), Give("mu"))
    BY <1>1, <1>5, <2>1, OpensAll DEF SectionsMove
  <2>3. owner["mu"] = q /\ readers["mu"] = {} /\ q # None
    BY <1>1, <2>2, LAssumption DEF Holds
  <2> QED
    BY <1>1, <1>2, <2>3 DEF Mutex
<1>6. Matches' /\ Holds'
  BY <1>4, <1>5 DEF Matches, Holds
<1> QED
  BY <1>3, <1>6, IndInvParts

LEMMA DrainKeeps ==
  ASSUME IndInv, NEW p \in Proc, NEW l \in Mutex, DrainReaders(p, l)
  PROVE  IndInv'
<1>1. /\ TypeOK /\ Matches /\ Holds /\ SectionsMove(p, Drain(l)) /\ CallsTyped'
      /\ readers[l] = {} /\ owner' = owner /\ readers' = readers
  BY IndInvParts, AtMoves DEF DrainReaders
<1>2. l = "mu" /\ owner["mu"] = p
  <2>1. /\ Drain(l) # Drain("lock")
        /\ Drain(l) = Drain("mu") => owner["mu"] = p
    BY AtMutex DEF DrainReaders
  <2> QED
    BY <2>1 DEF Mutex
<1>3. TypeOK'
  BY <1>1, TypedParts
<1>4. ASSUME NEW q \in Proc, NEW x \in Mutex
      PROVE  /\ Gives(todo[q], Claim(x), Give(x)) <=> Gives(todo'[q], Claim(x), Give(x))
             /\ Gives(todo[q], Enter(x), Leave(x)) <=> Gives(todo'[q], Enter(x), Leave(x))
  <2>1. Drain(l) \notin {Claim(x), Give(x), Enter(x), Leave(x)}
    BY OpParts
  <2> QED
    BY <1>1, <2>1, OpensAll DEF SectionsMove
<1>5. ASSUME NEW q \in Proc, Gives(todo'[q], Drain("mu"), Give("mu"))
      PROVE  owner'["mu"] = q /\ readers'["mu"] = {}
  <2>1. CASE q = p
    BY <1>1, <1>2, <2>1
  <2>2. CASE q # p
    <3>1. Gives(todo[q], Drain("mu"), Give("mu"))
      BY <1>1, <1>5, <2>2 DEF SectionsMove
    <3> QED
      BY <1>1, <3>1 DEF Holds
  <2> QED
    BY <2>1, <2>2
<1>6. Matches' /\ Holds'
  BY <1>1, <1>4, <1>5 DEF Matches, Holds
<1> QED
  BY <1>3, <1>6, IndInvParts

LEMMA UnlockKeeps ==
  ASSUME IndInv, NEW p \in Proc, NEW l \in Mutex, Unlock(p, l)
  PROVE  IndInv'
<1>1. /\ TypeOK /\ Matches /\ Holds /\ SectionsMove(p, Give(l)) /\ CallsTyped'
      /\ owner' = [owner EXCEPT ![l] = None] /\ readers' = readers
  BY IndInvParts, AtMoves DEF Unlock, Give
<1>2. /\ owner \in [Mutex -> Proc \cup {None}] /\ owner'[l] = None
      /\ \A x \in Mutex : x # l => owner'[x] = owner[x]
      /\ owner' \in [Mutex -> Proc \cup {None}]
  BY <1>1 DEF TypeOK
<1>3. TypeOK'
  BY <1>1, <1>2, TypedParts
<1>4. owner[l] = p
  BY <1>1, OpensAll DEF SectionsMove, Matches
<1>5. ASSUME NEW q \in Proc, NEW x \in Mutex
      PROVE  /\ owner'[x] = q <=> Gives(todo'[q], Claim(x), Give(x))
             /\ q \in readers'[x] <=> Gives(todo'[q], Enter(x), Leave(x))
  <2>1. /\ owner[x] = q <=> Gives(todo[q], Claim(x), Give(x))
        /\ q \in readers[x] <=> Gives(todo[q], Enter(x), Leave(x))
    BY <1>1 DEF Matches
  <2>2. q # None
    BY LAssumption
  <2>3. CASE q = p
    <3>1. /\ x # l => Give(l) # Give(x)
          /\ Give(l) \notin {Claim(x), Enter(x), Leave(x)}
      BY OpParts
    <3>2. /\ x = l => ~Gives(todo'[p], Claim(x), Give(x))
          /\ x # l => (Gives(todo[p], Claim(x), Give(x))
                         <=> Gives(todo'[p], Claim(x), Give(x)))
          /\ Gives(todo[p], Enter(x), Leave(x)) <=> Gives(todo'[p], Enter(x), Leave(x))
      BY <1>1, <3>1, OpensAll DEF SectionsMove
    <3> QED
      BY <1>1, <1>2, <2>1, <2>2, <2>3, <3>2
  <2>4. CASE q # p
    <3>1. todo'[q] = todo[q]
      BY <1>1, <2>4 DEF SectionsMove
    <3>2. owner'[x] = q <=> owner[x] = q
      BY <1>2, <1>4, <2>2, <2>4
    <3> QED
      BY <1>1, <2>1, <3>1, <3>2
  <2> QED
    BY <2>3, <2>4
<1>6. ASSUME NEW q \in Proc, Gives(todo'[q], Drain("mu"), Give("mu"))
      PROVE  owner'["mu"] = q /\ readers'["mu"] = {}
  <2>1. q = p => l # "mu"
    BY <1>1, <1>6, OpensAll DEF SectionsMove
  <2>2. Give(l) # Drain("mu") /\ (l # "mu" => Give(l) # Give("mu"))
    BY OpParts
  <2>3. Gives(todo[q], Drain("mu"), Give("mu"))
    BY <1>1, <1>6, <2>1, <2>2, OpensAll DEF SectionsMove
  <2>4. owner["mu"] = q /\ readers["mu"] = {}
    BY <1>1, <2>3 DEF Holds
  <2> QED
    BY <1>1, <1>2, <1>4, <2>1, <2>4 DEF Mutex
<1>7. Matches' /\ Holds'
  BY <1>5, <1>6 DEF Matches, Holds
<1> QED
  BY <1>3, <1>7, IndInvParts

LEMMA RLockKeeps ==
  ASSUME IndInv, NEW p \in Proc, NEW l \in Mutex, RLock(p, l)
  PROVE  IndInv'
<1>1. /\ TypeOK /\ Matches /\ Holds /\ SectionsMove(p, Enter(l)) /\ CallsTyped'
      /\ owner[l] = None /\ owner' = owner
      /\ readers' = [readers EXCEPT ![l] = @ \cup {p}]
  BY IndInvParts, AtMoves DEF RLock, Enter
<1>2. l = "mu"
  <2>1. Enter(l) # Enter("lock")
    BY AtMutex DEF RLock, Enter
  <2> QED
    BY <2>1 DEF Mutex
<1>3. /\ readers \in [Mutex -> SUBSET Proc] /\ readers'[l] = readers[l] \cup {p}
      /\ \A x \in Mutex : x # l => readers'[x] = readers[x]
      /\ readers' \in [Mutex -> SUBSET Proc]
  BY <1>1 DEF TypeOK
<1>4. TypeOK'
  <2>1. readers'["lock"] = {}
    BY <1>1, <1>2, <1>3 DEF TypeOK, Mutex
  <2> QED
    BY <1>1, <1>3, <2>1, TypedParts
<1>5. ASSUME NEW q \in Proc, NEW x \in Mutex
      PROVE  /\ owner'[x] = q <=> Gives(todo'[q], Claim(x), Give(x))
             /\ q \in readers'[x] <=> Gives(todo'[q], Enter(x), Leave(x))
  <2>1. /\ owner[x] = q <=> Gives(todo[q], Claim(x), Give(x))
        /\ q \in readers[x] <=> Gives(todo[q], Enter(x), Leave(x))
    BY <1>1 DEF Matches
  <2>2. CASE q = p
    <3>1. /\ x # l => Enter(l) # Enter(x)
          /\ Enter(l) \notin {Claim(x), Give(x), Leave(x)}
      BY OpParts
    <3>2. /\ x = l => Gives(todo'[p], Enter(x), Leave(x))
          /\ x # l => (Gives(todo[p], Enter(x), Leave(x))
                         <=> Gives(todo'[p], Enter(x), Leave(x)))
          /\ Gives(todo[p], Claim(x), Give(x)) <=> Gives(todo'[p], Claim(x), Give(x))
      BY <1>1, <3>1, OpensAll DEF SectionsMove
    <3> QED
      BY <1>1, <1>3, <2>1, <2>2, <3>2
  <2>3. CASE q # p
    <3>1. todo'[q] = todo[q]
      BY <1>1, <2>3 DEF SectionsMove
    <3>2. q \in readers'[x] <=> q \in readers[x]
      BY <1>3, <2>3
    <3> QED
      BY <1>1, <2>1, <3>1, <3>2
  <2> QED
    BY <2>2, <2>3
<1>6. ASSUME NEW q \in Proc
      PROVE  ~Gives(todo'[q], Drain("mu"), Give("mu"))
  <2>1. ~Gives(todo[q], Drain("mu"), Give("mu"))
    BY <1>1, <1>2, LAssumption DEF Holds
  <2>2. Enter(l) # Drain("mu") /\ Enter(l) # Give("mu")
    BY OpParts
  <2> QED
    BY <1>1, <2>1, <2>2, OpensAll DEF SectionsMove
<1>7. Matches' /\ Holds'
  BY <1>5, <1>6 DEF Matches, Holds
<1> QED
  BY <1>4, <1>7, IndInvParts

LEMMA RUnlockKeeps ==
  ASSUME IndInv, NEW p \in Proc, NEW l \in Mutex, RUnlock(p, l)
  PROVE  IndInv'
<1>1. /\ TypeOK /\ Matches /\ Holds /\ SectionsMove(p, Leave(l)) /\ CallsTyped'
      /\ owner' = owner /\ readers' = [readers EXCEPT ![l] = @ \ {p}]
  BY IndInvParts, AtMoves DEF RUnlock, Leave
<1>2. /\ readers \in [Mutex -> SUBSET Proc] /\ readers'[l] = readers[l] \ {p}
      /\ \A x \in Mutex : x # l => readers'[x] = readers[x]
      /\ readers' \in [Mutex -> SUBSET Proc]
      /\ \A x \in Mutex : readers'[x] \subseteq readers[x]
  BY <1>1 DEF TypeOK
<1>3. TypeOK'
  <2>1. readers'["lock"] = {}
    BY <1>1, <1>2 DEF TypeOK, Mutex
  <2> QED
    BY <1>1, <1>2, <2>1, TypedParts
<1>4. ASSUME NEW q \in Proc, NEW x \in Mutex
      PROVE  /\ owner'[x] = q <=> Gives(todo'[q], Claim(x), Give(x))
             /\ q \in readers'[x] <=> Gives(todo'[q], Enter(x), Leave(x))
  <2>1. /\ owner[x] = q <=> Gives(todo[q], Claim(x), Give(x))
        /\ q \in readers[x] <=> Gives(todo[q], Enter(x), Leave(x))
    BY <1>1 DEF Matches
  <2>2. CASE q = p
    <3>1. /\ x # l => Leave(l) # Leave(x)
          /\ Leave(l) \notin {Claim(x), Give(x), Enter(x)}
      BY OpParts
    <3>2. /\ x = l => ~Gives(todo'[p], Enter(x), Leave(x))
          /\ x # l => (Gives(todo[p], Enter(x), Leave(x))
                         <=> Gives(todo'[p], Enter(x), Leave(x)))
          /\ Gives(todo[p], Claim(x), Give(x)) <=> Gives(todo'[p], Claim(x), Give(x))
      BY <1>1, <3>1, OpensAll DEF SectionsMove
    <3> QED
      BY <1>1, <1>2, <2>1, <2>2, <3>2
  <2>3. CASE q # p
    <3>1. todo'[q] = todo[q]
      BY <1>1, <2>3 DEF SectionsMove
    <3>2. q \in readers'[x] <=> q \in readers[x]
      BY <1>2, <2>3
    <3> QED
      BY <1>1, <2>1, <3>1, <3>2
  <2> QED
    BY <2>2, <2>3
<1>5. ASSUME NEW q \in Proc, Gives(todo'[q], Drain("mu"), Give("mu"))
      PROVE  owner'["mu"] = q /\ readers'["mu"] = {}
  <2>1. Leave(l) # Drain("mu") /\ Leave(l) # Give("mu")
    BY OpParts
  <2>2. Gives(todo[q], Drain("mu"), Give("mu"))
    BY <1>1, <1>5, <2>1, OpensAll DEF SectionsMove
  <2> QED
    BY <1>1, <1>2, <2>2 DEF Holds, Mutex
<1>6. Matches' /\ Holds'
  BY <1>4, <1>5 DEF Matches, Holds
<1> QED
  BY <1>3, <1>6, IndInvParts

LEMMA StepKeeps == IndInv /\ [Next]_vars => IndInv'
<1> SUFFICES ASSUME IndInv, [Next]_vars
             PROVE  IndInv'
  OBVIOUS
<1>1. ASSUME NEW p \in Proc, Begin(p)
      PROVE  IndInv'
  BY <1>1, BeginKeeps
<1>2. ASSUME NEW p \in Proc, Access(p)
      PROVE  IndInv'
  BY <1>2, AccessKeeps
<1>3. ASSUME NEW p \in Proc, NEW l \in Mutex, ClaimLock(p, l)
      PROVE  IndInv'
  BY <1>3, ClaimKeeps
<1>4. ASSUME NEW p \in Proc, NEW l \in Mutex, DrainReaders(p, l)
      PROVE  IndInv'
  BY <1>4, DrainKeeps
<1>5. ASSUME NEW p \in Proc, NEW l \in Mutex, Unlock(p, l)
      PROVE  IndInv'
  BY <1>5, UnlockKeeps
<1>6. ASSUME NEW p \in Proc, NEW l \in Mutex, RLock(p, l)
      PROVE  IndInv'
  BY <1>6, RLockKeeps
<1>7. ASSUME NEW p \in Proc, NEW l \in Mutex, RUnlock(p, l)
      PROVE  IndInv'
  BY <1>7, RUnlockKeeps
<1>8. ASSUME UNCHANGED vars
      PROVE  IndInv'
  <2>1. UNCHANGED <<owner, readers>> /\ CallsTyped' /\ todo' = todo
    <3>1. CallsTyped
      BY IndInvParts, TypedParts
    <3> QED
      BY <1>8, <3>1 DEF vars, CallsTyped
  <2> QED
    BY <2>1, Quiet
<1> QED
  BY <1>1, <1>2, <1>3, <1>4, <1>5, <1>6, <1>7, <1>8 DEF Next, Step

-----------------------------------------------------------------------------
(***************************************************************************)
(* Who may be about to access what.                                        *)
(***************************************************************************)

LEMMA AtAccess ==
  ASSUME IndInv, NEW p \in Proc, NEW o, At(p, o)
  PROVE  /\ \A x \in Data : o \in {R(x), W(x)} =>
              o \in Free(call[p]) \/ owner["lock"] = p
         /\ o = W("AuthRequest") => call[p] = "CompleteAuthRequest"
         /\ o = W("challenges") =>
              \/ owner["mu"] = p /\ readers["mu"] = {}
              \/ call[p] = "Get" /\ p \in readers["mu"]
         /\ o = R("challenges") => call[p] = "Get" /\ p \in readers["mu"]
<1>1. TypeOK /\ Matches /\ Holds /\ call[p] # None /\ Head(todo[p]) = o
  BY IndInvParts DEF At
<1>2. PICK path, k : /\ Good(call[p], path) /\ path \in Seq(Op)
                     /\ k \in 1 .. Len(path) /\ todo[p] = Rest(path, k)
  BY <1>1, Where
<1>3. Guarded(call[p], path, k) /\ o = path[k]
  BY <1>1, <1>2, RestParts DEF Good
<1>4. \A t, g : Gives(todo[p], t, g) <=> Held(path, k, t, g)
  BY <1>2, GivesHeld
<1>5. /\ Held(path, k, Claim("lock"), Give("lock")) => owner["lock"] = p
      /\ Held(path, k, Drain("mu"), Give("mu")) =>
           owner["mu"] = p /\ readers["mu"] = {}
      /\ Held(path, k, Enter("mu"), Leave("mu")) => p \in readers["mu"]
  BY <1>1, <1>4 DEF Matches, Holds, Mutex
<1> QED
  BY <1>3, <1>5 DEF Guarded

LEMMA FreeParts ==
  ASSUME NEW c
  PROVE  /\ \A x : W(x) \notin Free(c)
         /\ \A x \in {"authRequests", "codes", "tokens", "clients"} : R(x) \notin Free(c)
         /\ \A x \in {"refreshTokens", "RefreshToken"} :
              R(x) \in Free(c) => c = "GetRefreshTokenInfo"
         /\ R("AuthRequest") \in Free(c) =>
              c \in {"TokenCallback", "CreateAccessToken",
                     "CreateAccessAndRefreshTokens", "CreateIDToken"}
<1>1. ASSUME NEW o \in Free(c)
      PROVE  /\ o[1] = "read"
             /\ \/ /\ c = "GetRefreshTokenInfo"
                   /\ o[2] \in {"refreshTokens", "RefreshToken"}
                \/ /\ c \in {"TokenCallback", "CreateAccessToken",
                             "CreateAccessAndRefreshTokens", "CreateIDToken"}
                   /\ o[2] = "AuthRequest"
  BY OpParts DEF Free
<1> QED
  BY <1>1, OpParts

LEMMA IndInvRaces == IndInv => OnlyKnownRaces
<1> SUFFICES ASSUME IndInv, NEW p \in Proc, NEW q \in Proc
             PROVE
    /\ \A x \in {"authRequests", "codes", "tokens", "clients"} : ~Race(p, q, x)
    /\ Race(p, q, "challenges") => {call[p], call[q]} = {"Get"}
    /\ \A x \in {"refreshTokens", "RefreshToken"} :
         Race(p, q, x) => call[q] = "GetRefreshTokenInfo"
    /\ Race(p, q, "AuthRequest") =>
         /\ call[p] = "CompleteAuthRequest"
         /\ call[q] \in {"TokenCallback", "CreateAccessToken",
                         "CreateAccessAndRefreshTokens", "CreateIDToken"}
  BY DEF OnlyKnownRaces
<1>1. ASSUME NEW x \in Data, Race(p, q, x)
      PROVE  At(q, R(x)) /\ R(x) \in Free(call[q])
  <2>1. p # q /\ At(p, W(x)) /\ (At(q, W(x)) \/ At(q, R(x)))
    BY <1>1 DEF Race
  <2>2. owner["lock"] = p
    BY <2>1, AtAccess, FreeParts
  <2>3. ~At(q, W(x))
    BY <2>1, <2>2, AtAccess, FreeParts
  <2> QED
    BY <2>1, <2>2, <2>3, AtAccess
<1>2. ASSUME NEW x \in {"authRequests", "codes", "tokens", "clients"}
      PROVE  ~Race(p, q, x)
  BY <1>1, FreeParts DEF Data
<1>3. ASSUME Race(p, q, "challenges")
      PROVE  {call[p], call[q]} = {"Get"}
  <2>1. /\ p # q /\ At(p, W("challenges"))
        /\ At(q, W("challenges")) \/ At(q, R("challenges"))
    BY <1>3 DEF Race
  <2>2. \/ owner["mu"] = p /\ readers["mu"] = {}
        \/ call[p] = "Get" /\ p \in readers["mu"]
    BY <2>1, AtAccess
  <2>3. \/ owner["mu"] = q /\ readers["mu"] = {}
        \/ call[q] = "Get" /\ q \in readers["mu"]
    BY <2>1, AtAccess
  <2> QED
    BY <2>1, <2>2, <2>3
<1>4. ASSUME NEW x \in {"refreshTokens", "RefreshToken"}, Race(p, q, x)
      PROVE  call[q] = "GetRefreshTokenInfo"
  BY <1>1, <1>4, FreeParts DEF Data
<1>5. ASSUME Race(p, q, "AuthRequest")
      PROVE  /\ call[p] = "CompleteAuthRequest"
             /\ call[q] \in {"TokenCallback", "CreateAccessToken",
                             "CreateAccessAndRefreshTokens", "CreateIDToken"}
  <2>1. R("AuthRequest") \in Free(call[q])
    BY <1>1, <1>5 DEF Data
  <2>2. At(p, W("AuthRequest"))
    BY <1>5 DEF Race
  <2>3. call[p] = "CompleteAuthRequest"
    BY <2>2, AtAccess
  <2> QED
    BY <2>1, <2>3, FreeParts
<1> QED
  BY <1>2, <1>3, <1>4, <1>5

-----------------------------------------------------------------------------
(***************************************************************************)
(* The theorems.                                                           *)
(***************************************************************************)

\* However many goroutines call the storage and the challenge store, each is
\* at a place of its call, has the mutexes its path says, and nobody else has
\* what it waited for the readers to leave.
THEOREM Invariance == Spec => []IndInv
<1>1. Init => IndInv
  BY InitIndInv
<1>2. IndInv /\ [Next]_vars => IndInv'
  BY StepKeeps
<1> QED
  BY <1>1, <1>2, PTL DEF Spec

\* Every mutex is given back by the goroutine that took it, as it took it, on
\* every path of every method, deferred unlocks and early returns included.
THEOREM LocksMatchHolds == Spec => []LocksMatch
<1>1. IndInv => LocksMatch
  BY DEF IndInv
<1> QED
  BY <1>1, Invariance, PTL

\* Two goroutines access the same data, one to write it, only where the code
\* leaves the lock out or takes it for reading.
THEOREM OnlyKnownRacesHolds == Spec => []OnlyKnownRaces
<1>1. IndInv => OnlyKnownRaces
  BY IndInvRaces
<1> QED
  BY <1>1, Invariance, PTL
=============================================================================
