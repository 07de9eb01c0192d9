--------------------------- MODULE AuthFlow_proofs ---------------------------
(***************************************************************************)
(* Proofs about the authorization-code flow, for any number of requests,   *)
(* codes, exchanges, users and restarts.                                   *)
(***************************************************************************)
EXTENDS AuthFlow, FiniteSetTheorems, TLAPS

-----------------------------------------------------------------------------
(***************************************************************************)
(* The inductive invariant.  The fields of a request that an exchange      *)
(* reads at four different times only ever name users who verified that    *)
(* request, or the user it was created for; and the users who verified a   *)
(* request are never forgotten.                                            *)
(***************************************************************************)

\* An exchange that has a pointer to its request, and one with its token.
Begun == {"email", "mint", "scopes", "userinfo", "delete", "done"}
Granted == {"scopes", "userinfo", "delete", "done"}

\* A code, stored or about to be, stands for a request that was created.
CodeInv ==
  \A c \in Code :
    /\ codes[c] # None => object[codes[c]] # None
    /\ callback[c].pc = "save" =>
         callback[c].req \in ReqID /\ object[callback[c].req] # None

\* A request was verified only after it was created.
VerifiedInv == \A r \in ReqID : object[r] = None => verified[r] = {}

\* So does an exchange, and a request that was complete, when its code was
\* looked up or when an email was found in it, stays so.
PointerOK(e) ==
  LET x == exchange[e]
  IN  /\ x.pc \in Begun \cup {"byID"} => x.req \in ReqID /\ object[x.req] # None
      /\ x.pc \in Begun /\ x.early => object[x.req].completed
      /\ x.pc = "mint" /\ x.email # None => object[x.req].completed

\* Claims about users who verified r, maybe not about the same one.
About(claims, r) ==
  /\ claims.sub \in verified[r]
  /\ \E s \in verified[r] : claims.email = EmailOf[s]

\* What has been read from a request names users who verified it, or the one
\* it was created for, who is named without an email.
ClaimsOK(e) ==
  LET x == exchange[e]
  IN  /\ x.pc = "mint" /\ x.early => \E s \in verified[x.req] : x.email = EmailOf[s]
      /\ x.pc \notin Granted => x.access = None
      /\ x.pc \in Granted =>
           /\ x.access \in Claims
           /\ x.access.sub \in verified[x.req] \cup {hint[x.req]}
           /\ x.access.email # None => x.access.sub \in verified[x.req]
      /\ x.pc \in Granted /\ x.early => About(x.access, x.req)
      /\ x.pc \in {"delete", "done"} =>
           /\ x.id \in Claims
           /\ x.id.sub \in verified[x.req] \cup {hint[x.req]}
           /\ x.id.email # None => x.id.sub \in verified[x.req]
      /\ x.pc \in {"delete", "done"} /\ x.early => About(x.id, x.req)

ExchangeInv == \A e \in Exchange : PointerOK(e) /\ ClaimsOK(e)

\* Users verify one after the other.
FiniteInv == \A r \in ReqID : IsFiniteSet(verified[r])

IndInv ==
  TypeOK /\ RequestNamesUser /\ VerifiedInv /\ CodeInv /\ ExchangeInv /\ FiniteInv

LEMMA InitInv == Init => IndInv
<1> SUFFICES ASSUME Init PROVE IndInv
  OBVIOUS
<1> USE AFAssumption DEF Init
<1>1. \A e \in Exchange : exchange[e] = Without("ready")
  OBVIOUS
<1>2. Without("ready") \in Exchanging
  BY DEF Without, Exchanging
<1>3. TypeOK
  BY <1>2 DEF TypeOK
<1>4. RequestNamesUser /\ VerifiedInv /\ CodeInv /\ FiniteInv
  BY FS_EmptySet DEF RequestNamesUser, VerifiedInv, CodeInv, FiniteInv
<1>5. ExchangeInv
  BY <1>1 DEF ExchangeInv, PointerOK, ClaimsOK, Begun, Granted, Without
<1> QED
  BY <1>3, <1>4, <1>5 DEF IndInv

-----------------------------------------------------------------------------
(***************************************************************************)
(* What the other steps may do to an exchange.                             *)
(***************************************************************************)

\* Requests are created, completed and verified, and never the reverse.
Grows ==
  \A r \in ReqID :
    /\ object[r] # None =>
         /\ object'[r] # None /\ (object[r].completed => object'[r].completed)
         /\ hint'[r] = hint[r]
    /\ verified[r] \subseteq verified'[r]

\* An exchange that takes no step keeps what it has.
LEMMA ExchangeStays ==
  ASSUME TypeOK, NEW e \in Exchange, PointerOK(e), ClaimsOK(e),
         exchange'[e] = exchange[e], Grows
  PROVE  PointerOK(e)' /\ ClaimsOK(e)'
<1> DEFINE x == exchange[e]
<1>1. x.pc \in Begun \cup {"byID"} => x.req \in ReqID
  BY DEF PointerOK
<1>2. PointerOK(e)'
  <2>1. x.pc \in Begun \cup {"byID"} =>
          /\ x.req \in ReqID /\ object'[x.req] # None
          /\ object[x.req].completed => object'[x.req].completed
    BY <1>1 DEF PointerOK, Grows
  <2> QED
    BY <2>1 DEF PointerOK, Begun
<1>3. CASE x.pc \in Begun
  <2>1. /\ x.req \in ReqID /\ verified[x.req] \subseteq verified'[x.req]
        /\ hint'[x.req] = hint[x.req]
    BY <1>1, <1>3 DEF PointerOK, Grows
  <2>2. \A claims : About(claims, x.req) => About(claims, x.req)'
    BY <2>1 DEF About
  <2> QED
    BY <1>2, <2>1, <2>2 DEF ClaimsOK, About
<1>4. CASE x.pc \notin Begun
  BY <1>2, <1>4 DEF ClaimsOK, Begun, Granted
<1> QED
  BY <1>3, <1>4

\* A step of one exchange that only reads what the others share.
LEMMA ExchangeMoves ==
  ASSUME IndInv, NEW e \in Exchange, NEW y \in Exchanging,
         exchange' = [exchange EXCEPT ![e] = y],
         UNCHANGED <<object, stored, codes, callback, restarts, hint, verified>>,
         PointerOK(e)', ClaimsOK(e)'
  PROVE  IndInv'
<1> USE AFAssumption DEF IndInv
<1>1. TypeOK'
  BY DEF TypeOK
<1>2. RequestNamesUser' /\ VerifiedInv' /\ CodeInv' /\ FiniteInv'
  BY DEF RequestNamesUser, VerifiedInv, CodeInv, FiniteInv
<1>3. Grows
  BY DEF Grows
<1>4. ASSUME NEW f \in Exchange PROVE PointerOK(f)' /\ ClaimsOK(f)'
  <2>1. CASE f = e
    BY <2>1
  <2>2. CASE f # e
    BY <1>3, <2>2, ExchangeStays DEF ExchangeInv, TypeOK
  <2> QED
    BY <2>1, <2>2
<1> QED
  BY <1>1, <1>2, <1>4 DEF ExchangeInv

\* A step that no exchange takes.
LEMMA ExchangesStay ==
  ASSUME IndInv, UNCHANGED exchange, Grows
  PROVE  ExchangeInv'
BY ExchangeStays DEF IndInv, ExchangeInv

\* An exchange that ends without tokens keeps nothing.
LEMMA WithoutOK ==
  ASSUME NEW e \in Exchange, NEW pc \in {"ready", "failed", "shown"},
         exchange'[e] = Without(pc)
  PROVE  PointerOK(e)' /\ ClaimsOK(e)'
BY DEF PointerOK, ClaimsOK, Without, Begun, Granted

LEMMA WithoutType ==
  \A pc \in {"ready", "failed", "shown"} : Without(pc) \in Exchanging
BY DEF Without, Exchanging

-----------------------------------------------------------------------------
(***************************************************************************)
(* Every step keeps the invariant.                                         *)
(***************************************************************************)

\* A hint names a user who verified the request of a finished exchange, or
\* the one who did before that.
LEMMA HintsKnown ==
  ASSUME IndInv, NEW u \in HintSubjects, u # None
  PROVE  \E q \in ReqID : u \in verified[q]
<1>1. PICK e \in Exchange : /\ exchange[e].pc = "done"
                            /\ u \in {exchange[e].access.sub, exchange[e].id.sub}
  BY DEF HintSubjects
<1> DEFINE r == exchange[e].req
<1>2. r \in ReqID /\ u \in verified[r] \cup {hint[r]}
  BY <1>1 DEF IndInv, ExchangeInv, PointerOK, ClaimsOK, Begun, Granted
<1> HIDE DEF r
<1> QED
  BY <1>2 DEF IndInv, RequestNamesUser

LEMMA CreateAuthRequestKeeps ==
  ASSUME IndInv, NEW r \in ReqID, NEW u \in Subject \cup {None},
         CreateAuthRequest(r, u)
  PROVE  IndInv'
<1> USE AFAssumption DEF IndInv
<1> DEFINE new == [userID |-> u, email |-> None, completed |-> FALSE]
<1>0. /\ object[r] = None /\ object' = [object EXCEPT ![r] = new]
      /\ hint' = [hint EXCEPT ![r] = u]
      /\ stored' = stored \cup {r}
      /\ UNCHANGED <<codes, callback, exchange, restarts, verified>>
  BY DEF CreateAuthRequest
<1>1. new \in AuthRequest /\ new.completed = FALSE
      /\ new.userID = u /\ new.email = None
  BY DEF AuthRequest
<1> HIDE DEF new
<1>2. new # None
  BY <1>1
<1>3. TypeOK'
  BY <1>0, <1>1, <1>2 DEF TypeOK
<1>4. RequestNamesUser'
  <2>1. u # None => \E q \in ReqID \ {r} : u \in verified[q]
    BY <1>0, HintsKnown DEF CreateAuthRequest, VerifiedInv
  <2>2. /\ hint'[r] = u /\ object'[r] = new
        /\ \A q \in ReqID \ {r} : hint'[q] = hint[q] /\ object'[q] = object[q]
    BY <1>0 DEF TypeOK
  <2> QED
    BY <1>0, <1>1, <2>1, <2>2 DEF RequestNamesUser
<1>5. CodeInv' /\ VerifiedInv'
  BY <1>0, <1>2 DEF CodeInv, VerifiedInv, TypeOK
<1>6. ExchangeInv'
  <2>1. Grows
    BY <1>0, <1>2 DEF Grows, TypeOK
  <2> QED
    BY <1>0, <2>1, ExchangesStay
<1>7. FiniteInv'
  BY <1>0 DEF FiniteInv
<1> QED
  BY <1>3, <1>4, <1>5, <1>6, <1>7

LEMMA CompleteAuthRequestKeeps ==
  ASSUME IndInv, NEW r \in ReqID, NEW s \in Subject, CompleteAuthRequest(r, s)
  PROVE  IndInv'
<1> USE AFAssumption DEF IndInv
<1> DEFINE new == [userID |-> s, email |-> EmailOf[s], completed |-> TRUE]
<1>0. /\ r \in stored /\ object[r] # None
      /\ object' = [object EXCEPT ![r] = new]
      /\ verified' = [verified EXCEPT ![r] = verified[r] \cup {s}]
      /\ UNCHANGED <<stored, codes, callback, exchange, restarts, hint>>
  BY DEF CompleteAuthRequest, TypeOK
<1>1. new \in AuthRequest /\ new.completed = TRUE
      /\ new.userID = s /\ new.email = EmailOf[s]
  BY DEF AuthRequest, Email
<1> HIDE DEF new
<1>2. new # None
  BY <1>1
<1>3. TypeOK'
  BY <1>0, <1>1, <1>2 DEF TypeOK
<1>4. RequestNamesUser'
  <2>1. /\ object'[r] = new /\ verified'[r] = verified[r] \cup {s}
        /\ \A q \in ReqID \ {r} : object'[q] = object[q] /\ verified'[q] = verified[q]
        /\ \A q \in ReqID : verified[q] \subseteq verified'[q]
        /\ hint' = hint
    BY <1>0 DEF TypeOK
  <2>2. ASSUME NEW q \in ReqID, hint'[q] # None
        PROVE  \E p \in ReqID \ {q} : hint'[q] \in verified'[p]
    BY <2>1, <2>2 DEF RequestNamesUser
  <2> QED
    BY <1>1, <2>1, <2>2 DEF RequestNamesUser
<1>5. CodeInv' /\ VerifiedInv'
  BY <1>0, <1>2 DEF CodeInv, VerifiedInv, TypeOK
<1>6. ExchangeInv'
  <2>1. Grows
    BY <1>0, <1>1, <1>2 DEF Grows, TypeOK
  <2> QED
    BY <1>0, <2>1, ExchangesStay
<1>7. FiniteInv'
  BY <1>0, FS_AddElement DEF FiniteInv, TypeOK
<1> QED
  BY <1>3, <1>4, <1>5, <1>6, <1>7

LEMMA CallbackKeeps ==
  ASSUME IndInv, NEW c \in Code, CallbackLookup(c) \/ SaveAuthCode(c)
  PROVE  IndInv'
<1> USE AFAssumption DEF IndInv
<1>0. UNCHANGED <<object, stored, exchange, restarts, hint, verified>>
  BY DEF CallbackLookup, SaveAuthCode
<1>1. RequestNamesUser' /\ VerifiedInv' /\ FiniteInv'
  BY <1>0 DEF RequestNamesUser, VerifiedInv, FiniteInv
<1>2. ExchangeInv'
  <2>1. Grows
    BY <1>0 DEF Grows
  <2> QED
    BY <1>0, <2>1, ExchangesStay
<1>3. CASE CallbackLookup(c)
  <2>1. PICK r \in ReqID :
          /\ callback' = [callback EXCEPT ![c] =
               IF r \in stored THEN [pc |-> "save", req |-> r]
               ELSE [pc |-> "failed", req |-> None]]
          /\ UNCHANGED codes
    BY <1>3 DEF CallbackLookup
  <2>2. TypeOK'
    BY <1>0, <2>1 DEF TypeOK
  <2>3. CodeInv'
    BY <1>0, <2>1 DEF CodeInv, TypeOK
  <2> QED
    BY <1>1, <1>2, <2>2, <2>3
<1>4. CASE SaveAuthCode(c)
  <2>1. /\ callback[c].pc = "save"
        /\ codes' = [codes EXCEPT ![c] = callback[c].req]
        /\ callback' = [callback EXCEPT ![c] = [pc |-> "redirected", req |-> None]]
    BY <1>4 DEF SaveAuthCode
  <2>2. TypeOK'
    BY <1>0, <2>1 DEF TypeOK
  <2>3. CodeInv'
    BY <1>0, <2>1 DEF CodeInv, TypeOK
  <2> QED
    BY <1>1, <1>2, <2>2, <2>3
<1> QED
  BY <1>3, <1>4

LEMMA PresentCodeKeeps ==
  ASSUME IndInv, NEW e \in Exchange, PresentCode(e)
  PROVE  IndInv'
<1> USE AFAssumption DEF IndInv
<1>1. PICK c \in Code :
        exchange' = [exchange EXCEPT ![e] =
          IF codes[c] = None THEN Without("failed")
          ELSE [exchange[e] EXCEPT !.pc = "byID", !.req = codes[c]]]
  BY DEF PresentCode
<1>2. UNCHANGED <<object, stored, codes, callback, restarts, hint, verified>>
  BY DEF PresentCode
<1>3. CASE codes[c] = None
  BY <1>1, <1>2, <1>3, WithoutOK, WithoutType, ExchangeMoves DEF TypeOK
<1>4. CASE codes[c] # None
  <2> DEFINE y == [exchange[e] EXCEPT !.pc = "byID", !.req = codes[c]]
  <2>0. /\ exchange[e] \in Exchanging /\ codes[c] \in ReqID
        /\ exchange[e].pc = "ready" /\ ClaimsOK(e)
    BY <1>4 DEF TypeOK, PresentCode, ExchangeInv
  <2>1. /\ y \in Exchanging /\ y.pc = "byID" /\ y.req = codes[c]
        /\ y.access = exchange[e].access
    BY <2>0 DEF Exchanging
  <2>2. exchange' = [exchange EXCEPT ![e] = y]
    BY <1>1, <1>4
  <2> HIDE DEF y
  <2>3. codes[c] \in ReqID /\ object[codes[c]] # None
    BY <1>4 DEF CodeInv, TypeOK
  <2>4. PointerOK(e)' /\ ClaimsOK(e)'
    BY <1>2, <2>0, <2>1, <2>2, <2>3 DEF PointerOK, ClaimsOK, Begun, Granted, TypeOK
  <2> QED
    BY <1>2, <2>1, <2>2, <2>4, ExchangeMoves
<1> QED
  BY <1>3, <1>4

LEMMA RequestByIDKeeps ==
  ASSUME IndInv, NEW e \in Exchange, RequestByID(e)
  PROVE  IndInv'
<1> USE AFAssumption DEF IndInv
<1> DEFINE x == exchange[e]
<1>1. /\ x.pc = "byID"
      /\ UNCHANGED <<object, stored, codes, callback, restarts, hint, verified>>
  BY DEF RequestByID
<1>2. CASE x.req \notin stored
  BY <1>1, <1>2, WithoutOK, WithoutType, ExchangeMoves DEF RequestByID, TypeOK
<1>3. CASE x.req \in stored
  <2> DEFINE y == [x EXCEPT !.pc = "email", !.early = object[x.req].completed]
  <2>1. /\ x.req \in ReqID /\ object[x.req] # None
        /\ object[x.req].completed \in BOOLEAN /\ x \in Exchanging /\ ClaimsOK(e)
    BY <1>3 DEF TypeOK, AuthRequest, ExchangeInv
  <2>2. exchange' = [exchange EXCEPT ![e] = y]
    BY <1>3 DEF RequestByID, TypeOK
  <2>3. /\ y \in Exchanging /\ y.pc = "email" /\ y.req = x.req
        /\ y.early = object[x.req].completed /\ y.access = x.access
    BY <2>1 DEF Exchanging
  <2> HIDE DEF y
  <2>4. PointerOK(e)' /\ ClaimsOK(e)'
    BY <1>1, <2>1, <2>2, <2>3 DEF PointerOK, ClaimsOK, Begun, Granted, TypeOK
  <2> QED
    BY <1>1, <2>2, <2>3, <2>4, ExchangeMoves
<1> QED
  BY <1>2, <1>3

\* What an exchange may read through its pointer.
LEMMA ReadsRequest ==
  ASSUME IndInv, NEW e \in Exchange, exchange[e].pc \in Begun
  PROVE  LET q == object[exchange[e].req]
         IN  /\ exchange[e] \in Exchanging /\ exchange[e].req \in ReqID
             /\ q \in AuthRequest
             /\ q.userID \in verified[exchange[e].req] \cup {hint[exchange[e].req]}
             /\ q.email # None => q.completed
             /\ q.completed => q.userID \in verified[exchange[e].req]
             /\ exchange[e].early =>
                  /\ q.userID \in verified[exchange[e].req]
                  /\ \E s \in verified[exchange[e].req] : q.email = EmailOf[s]
<1> DEFINE r == exchange[e].req
<1>1. PointerOK(e) /\ exchange[e] \in Exchanging
  BY DEF IndInv, ExchangeInv, TypeOK
<1>2. r \in ReqID /\ object[r] # None /\ (exchange[e].early => object[r].completed)
  BY <1>1 DEF PointerOK
<1>3. object[r] \in AuthRequest
  BY <1>2 DEF IndInv, TypeOK
<1>4. IF object[r].completed
        THEN object[r].userID \in verified[r] /\ object[r].email = EmailOf[object[r].userID]
        ELSE object[r].userID = hint[r] /\ object[r].email = None
  BY <1>2 DEF IndInv, RequestNamesUser
<1> HIDE DEF r
<1>5. object[r].userID \in verified[r] \cup {hint[r]}
  BY <1>4
<1>6. object[r].completed => \E s \in verified[r] : object[r].email = EmailOf[s]
  BY <1>4
<1> QED
  BY <1>1, <1>2, <1>3, <1>4, <1>5, <1>6 DEF r

LEMMA ShowSubjectKeeps ==
  ASSUME IndInv, NEW e \in Exchange, ShowSubject(e)
  PROVE  IndInv'
<1>1. exchange' = [exchange EXCEPT ![e] = Without("shown")]
  BY DEF ShowSubject
<1>2. exchange'[e] = Without("shown")
  BY <1>1 DEF IndInv, TypeOK
<1> QED
  BY <1>1, <1>2, WithoutOK, WithoutType, ExchangeMoves DEF ShowSubject

LEMMA ReadEmailKeeps ==
  ASSUME IndInv, NEW e \in Exchange, ReadEmail(e)
  PROVE  IndInv'
<1> DEFINE x == exchange[e]
           q == object[x.req]
           y == [x EXCEPT !.pc = "mint", !.email = q.email]
<1>1. /\ x.pc = "email" /\ exchange' = [exchange EXCEPT ![e] = y]
      /\ UNCHANGED <<object, stored, codes, callback, restarts, hint, verified>>
  BY DEF ReadEmail, IndInv, TypeOK
<1>2. /\ x \in Exchanging /\ x.req \in ReqID /\ q.email \in Email \cup {None}
      /\ q.email # None => q.completed
      /\ x.early => \E s \in verified[x.req] : q.email = EmailOf[s]
  BY <1>1, ReadsRequest DEF Begun, AuthRequest
<1>3. PointerOK(e) /\ ClaimsOK(e)
  BY DEF IndInv, ExchangeInv
<1>4. /\ y \in Exchanging /\ y.pc = "mint" /\ y.req = x.req
      /\ y.early = x.early /\ y.email = q.email /\ y.access = x.access
  BY <1>2 DEF Exchanging
<1>5. exchange'[e] = y
  BY <1>1 DEF IndInv, TypeOK
<1> HIDE DEF y
<1>6. PointerOK(e)' /\ ClaimsOK(e)'
  BY <1>1, <1>2, <1>3, <1>4, <1>5 DEF PointerOK, ClaimsOK, Begun, Granted
<1> QED
  BY <1>1, <1>4, <1>6, ExchangeMoves

LEMMA CreateAccessTokenKeeps ==
  ASSUME IndInv, NEW e \in Exchange, CreateAccessToken(e)
  PROVE  IndInv'
<1> DEFINE x == exchange[e]
           q == object[x.req]
           a == [sub |-> q.userID, email |-> x.email]
           y == [x EXCEPT !.pc = "scopes", !.email = None, !.access = a]
<1>1. /\ x.pc = "mint" /\ exchange' = [exchange EXCEPT ![e] = y]
      /\ UNCHANGED <<object, stored, codes, callback, restarts, hint, verified>>
  BY DEF CreateAccessToken, IndInv, TypeOK
<1>2. /\ x \in Exchanging /\ x.req \in ReqID /\ q.userID \in Subject \cup {None}
      /\ q.userID \in verified[x.req] \cup {hint[x.req]}
      /\ q.completed => q.userID \in verified[x.req]
      /\ x.early => q.userID \in verified[x.req]
  BY <1>1, ReadsRequest DEF Begun, AuthRequest
<1>3. PointerOK(e) /\ ClaimsOK(e)
  BY DEF IndInv, ExchangeInv
<1>4. a \in Claims /\ a.sub = q.userID /\ a.email = x.email
  BY <1>2 DEF Claims, Exchanging
<1> HIDE DEF a
<1>5. /\ y \in Exchanging /\ y.pc = "scopes" /\ y.req = x.req
      /\ y.early = x.early /\ y.access = a
  BY <1>2, <1>4 DEF Exchanging
<1>6. exchange'[e] = y
  BY <1>1 DEF IndInv, TypeOK
<1> HIDE DEF y
<1>7. PointerOK(e)'
  BY <1>1, <1>3, <1>5, <1>6 DEF PointerOK, Begun
<1>8. /\ x.early => About(a, x.req)
      /\ a.email # None => a.sub \in verified[x.req]
  BY <1>1, <1>2, <1>3, <1>4 DEF PointerOK, ClaimsOK, About
<1>9. ClaimsOK(e)'
  BY <1>1, <1>2, <1>4, <1>5, <1>6, <1>8 DEF ClaimsOK, About, Granted
<1> QED
  BY <1>1, <1>5, <1>7, <1>9, ExchangeMoves

LEMMA SetUserinfoFromScopesKeeps ==
  ASSUME IndInv, NEW e \in Exchange, SetUserinfoFromScopes(e)
  PROVE  IndInv'
<1> DEFINE x == exchange[e]
           emails == EmailsOfSubject(object[x.req].userID)
<1>1. PICK m \in IF emails = {} THEN {None} ELSE emails :
        exchange' = [exchange EXCEPT ![e] = [x EXCEPT !.pc = "userinfo", !.found = m]]
  BY DEF SetUserinfoFromScopes, IndInv, TypeOK
<1> DEFINE y == [x EXCEPT !.pc = "userinfo", !.found = m]
<1>2. /\ x.pc = "scopes" /\ x \in Exchanging
      /\ UNCHANGED <<object, stored, codes, callback, restarts, hint, verified>>
  BY DEF SetUserinfoFromScopes, IndInv, TypeOK
<1>3. m \in Email \cup {None}
  BY DEF EmailsOfSubject, IndInv, TypeOK, AuthRequest
<1>4. PointerOK(e) /\ ClaimsOK(e)
  BY DEF IndInv, ExchangeInv
<1>5. /\ y \in Exchanging /\ y.pc = "userinfo" /\ y.req = x.req
      /\ y.early = x.early /\ y.access = x.access
  BY <1>2, <1>3 DEF Exchanging
<1>6. exchange'[e] = y /\ exchange' = [exchange EXCEPT ![e] = y]
  BY <1>1 DEF IndInv, TypeOK
<1> HIDE DEF y
<1>7. PointerOK(e)'
  BY <1>2, <1>4, <1>5, <1>6 DEF PointerOK, Begun
<1>8. ClaimsOK(e)'
  BY <1>2, <1>4, <1>5, <1>6 DEF ClaimsOK, About, Granted
<1> QED
  BY <1>2, <1>5, <1>6, <1>7, <1>8, ExchangeMoves

LEMMA SetUserinfoFromRequestKeeps ==
  ASSUME IndInv, NEW e \in Exchange, SetUserinfoFromRequest(e)
  PROVE  IndInv'
<1> DEFINE x == exchange[e]
           q == object[x.req]
           i == [sub |-> q.userID, email |-> q.email]
           y == [x EXCEPT !.pc = "delete", !.found = None, !.id = i]
<1>1. /\ x.pc = "userinfo" /\ exchange' = [exchange EXCEPT ![e] = y]
      /\ UNCHANGED <<object, stored, codes, callback, restarts, hint, verified>>
  BY DEF SetUserinfoFromRequest, IndInv, TypeOK
<1>2. /\ x \in Exchanging /\ x.req \in ReqID
      /\ q.userID \in Subject \cup {None} /\ q.email \in Email \cup {None}
      /\ q.userID \in verified[x.req] \cup {hint[x.req]}
      /\ q.email # None => q.userID \in verified[x.req]
      /\ x.early => /\ q.userID \in verified[x.req]
                    /\ \E s \in verified[x.req] : q.email = EmailOf[s]
  BY <1>1, ReadsRequest DEF Begun, AuthRequest
<1>3. PointerOK(e) /\ ClaimsOK(e)
  BY DEF IndInv, ExchangeInv
<1>4. i \in Claims /\ i.sub = q.userID /\ i.email = q.email
  BY <1>2 DEF Claims
<1> HIDE DEF i
<1>5. /\ y \in Exchanging /\ y.pc = "delete" /\ y.req = x.req
      /\ y.early = x.early /\ y.access = x.access /\ y.id = i
  BY <1>2, <1>4 DEF Exchanging
<1>6. exchange'[e] = y
  BY <1>1 DEF IndInv, TypeOK
<1> HIDE DEF y
<1>7. PointerOK(e)'
  BY <1>1, <1>3, <1>5, <1>6 DEF PointerOK, Begun
<1>8. x.early => About(i, x.req)
  BY <1>1, <1>2, <1>4 DEF About
<1>9. ClaimsOK(e)'
  BY <1>1, <1>2, <1>3, <1>4, <1>5, <1>6, <1>8 DEF ClaimsOK, About, Granted
<1> QED
  BY <1>1, <1>5, <1>7, <1>9, ExchangeMoves

\* The only step of an exchange that changes what others see.
LEMMA DeleteAuthRequestKeeps ==
  ASSUME IndInv, NEW e \in Exchange, DeleteAuthRequest(e)
  PROVE  IndInv'
<1> USE AFAssumption DEF IndInv
<1> DEFINE x == exchange[e]
           y == [x EXCEPT !.pc = "done"]
<1>1. /\ x.pc = "delete" /\ x \in Exchanging
      /\ exchange' = [exchange EXCEPT ![e] = y]
      /\ stored' = stored \ {x.req}
      /\ UNCHANGED <<object, callback, restarts, hint, verified>>
  BY DEF DeleteAuthRequest, TypeOK
<1>2. /\ codes' \in [Code -> ReqID \cup {None}]
      /\ \A c \in Code : codes'[c] \in {codes[c], None}
  BY DEF DeleteAuthRequest, TypeOK
<1>3. /\ y \in Exchanging /\ y.pc = "done" /\ y.req = x.req
      /\ y.early = x.early /\ y.access = x.access /\ y.id = x.id
  BY <1>1 DEF Exchanging
<1> HIDE DEF y
<1>4. TypeOK'
  BY <1>1, <1>2, <1>3 DEF TypeOK
<1>5. RequestNamesUser' /\ VerifiedInv' /\ CodeInv' /\ FiniteInv'
  BY <1>1, <1>2 DEF RequestNamesUser, VerifiedInv, CodeInv, FiniteInv
<1>6. Grows
  BY <1>1 DEF Grows
<1>7. ASSUME NEW f \in Exchange PROVE PointerOK(f)' /\ ClaimsOK(f)'
  <2>1. CASE f # e
    BY <1>1, <1>6, <2>1, ExchangeStays DEF ExchangeInv, TypeOK
  <2>2. CASE f = e
    <3>1. exchange'[e] = y /\ PointerOK(e) /\ ClaimsOK(e)
      BY <1>1 DEF ExchangeInv, TypeOK
    <3>2. PointerOK(e)'
      BY <1>1, <1>3, <3>1 DEF PointerOK, Begun
    <3>3. ClaimsOK(e)'
      BY <1>1, <1>3, <3>1 DEF ClaimsOK, About, Granted
    <3> QED
      BY <2>2, <3>2, <3>3
  <2> QED
    BY <2>1, <2>2
<1> QED
  BY <1>4, <1>5, <1>7 DEF ExchangeInv

LEMMA RestartKeeps ==
  ASSUME IndInv, Restart
  PROVE  IndInv'
<1> USE AFAssumption DEF IndInv
<1>0. /\ stored' = {} /\ codes' = [c \in Code |-> None]
      /\ callback' = [c \in Code |-> IF callback[c].pc = "save"
                       THEN [pc |-> "failed", req |-> None] ELSE callback[c]]
      /\ exchange' = [e \in Exchange |->
                       IF exchange[e].pc \in Ended \cup {"ready"}
                         THEN exchange[e] ELSE Without("failed")]
      /\ restarts' = restarts + 1 /\ restarts' \in 0 .. MaxRestarts
      /\ UNCHANGED <<object, hint, verified>>
  BY DEF Restart, TypeOK
<1>1. TypeOK'
  BY <1>0, WithoutType DEF TypeOK
<1>2. RequestNamesUser' /\ VerifiedInv' /\ FiniteInv'
  BY <1>0 DEF RequestNamesUser, VerifiedInv, FiniteInv
<1>3. CodeInv'
  BY <1>0 DEF CodeInv
<1>4. Grows
  BY <1>0 DEF Grows
<1>5. ASSUME NEW e \in Exchange PROVE PointerOK(e)' /\ ClaimsOK(e)'
  <2>1. CASE exchange'[e] = exchange[e]
    BY <1>4, <2>1, ExchangeStays DEF ExchangeInv
  <2>2. CASE exchange'[e] = Without("failed")
    BY <2>2, WithoutOK
  <2> QED
    BY <1>0, <2>1, <2>2
<1> QED
  BY <1>1, <1>2, <1>3, <1>5 DEF ExchangeInv

LEMMA NextInv == IndInv /\ [Next]_vars => IndInv'
<1> SUFFICES ASSUME IndInv, [Next]_vars PROVE IndInv'
  OBVIOUS
<1>1. CASE Next
  BY <1>1, CreateAuthRequestKeeps, CompleteAuthRequestKeeps, CallbackKeeps,
     PresentCodeKeeps, RequestByIDKeeps, ShowSubjectKeeps, ReadEmailKeeps,
     CreateAccessTokenKeeps, SetUserinfoFromScopesKeeps,
     SetUserinfoFromRequestKeeps, DeleteAuthRequestKeeps, RestartKeeps
     DEF Next, ExchangeStep
<1>2. CASE UNCHANGED vars
  BY <1>2 DEF vars, IndInv, TypeOK, RequestNamesUser, VerifiedInv, CodeInv, ExchangeInv,
     PointerOK, ClaimsOK, About, FiniteInv
<1> QED
  BY <1>1, <1>2

\* The invariant holds of every behaviour of the flow.
THEOREM Invariance == Spec => []IndInv
BY InitInv, NextInv, PTL DEF Spec

\* The maps, the codes and the exchanges keep their types.
THEOREM TypeCorrect == Spec => []TypeOK
<1>1. IndInv => TypeOK
  BY DEF IndInv
<1> QED
  BY <1>1, Invariance, PTL

\* A complete request names a user who verified it, with that user's email;
\* any other names, without one, a user who has verified another request.
THEOREM RequestNamesUserHolds == Spec => []RequestNamesUser
<1>1. IndInv => RequestNamesUser
  BY DEF IndInv
<1> QED
  BY <1>1, Invariance, PTL

\* The tokens of a request that one user completed agree on that user, and a
\* token with an email names a user who verified the request.
THEOREM TokensAgreeHolds == Spec => []TokensAgree
<1>1. IndInv => TokensAgree
  <2> SUFFICES ASSUME IndInv, NEW e \in Exchange, exchange[e].pc = "done"
               PROVE  LET x == exchange[e]
                      IN  /\ \A t \in {x.access, x.id} :
                               t.email # None => t.sub \in verified[x.req]
                          /\ x.early /\ Cardinality(verified[x.req]) = 1 =>
                               \A s \in verified[x.req] :
                                 /\ x.access = [sub |-> s, email |-> EmailOf[s]]
                                 /\ x.id = x.access
    BY DEF TokensAgree
  <2> DEFINE x == exchange[e]
  <2>1. PointerOK(e) /\ ClaimsOK(e)
    BY DEF IndInv, ExchangeInv
  <2>2. x.req \in ReqID
    BY <2>1 DEF PointerOK, Begun
  <2>3. x.access \in Claims /\ x.id \in Claims
    BY <2>1 DEF ClaimsOK, Granted
  <2>4. \A t \in {x.access, x.id} : t.email # None => t.sub \in verified[x.req]
    BY <2>1 DEF ClaimsOK, Granted
  <2>5. ASSUME x.early, Cardinality(verified[x.req]) = 1, NEW s \in verified[x.req]
        PROVE  x.access = [sub |-> s, email |-> EmailOf[s]] /\ x.id = x.access
    <3>1. verified[x.req] = {s}
      BY <2>2, <2>5, FS_Singleton DEF IndInv, FiniteInv
    <3>2. About(x.access, x.req) /\ About(x.id, x.req)
      BY <2>1, <2>5 DEF ClaimsOK, Granted
    <3>3. \A claims \in Claims :
            About(claims, x.req) => claims = [sub |-> s, email |-> EmailOf[s]]
      BY <3>1 DEF About, Claims
    <3> QED
      BY <2>3, <3>2, <3>3
  <2> QED
    BY <2>4, <2>5
<1> QED
  BY <1>1, Invariance, PTL

-----------------------------------------------------------------------------
(***************************************************************************)
(* The flow implements the abstract grant.                                 *)
(***************************************************************************)

LEMMA RequestStatesStay ==
  ASSUME UNCHANGED <<object, stored>>
  PROVE  RequestStates' = RequestStates
BY DEF RequestStates, RequestState

LEMMA GrantStatesStay ==
  ASSUME UNCHANGED exchange
  PROVE  GrantStates' = GrantStates
BY DEF GrantStates, GrantState

\* A step of one exchange changes one grant.
LEMMA GrantStatesMove ==
  ASSUME TypeOK, NEW e \in Exchange, NEW y, exchange' = [exchange EXCEPT ![e] = y]
  PROVE  /\ GrantStates' = [GrantStates EXCEPT ![e] = GrantState(e)']
         /\ GrantStates[e] = GrantState(e) /\ exchange'[e] = y
<1>1. /\ exchange'[e] = y
      /\ \A f \in Exchange : f # e => exchange'[f] = exchange[f]
  BY DEF TypeOK
<1>2. \A f \in Exchange : f # e => GrantState(f)' = GrantState(f)
  BY <1>1 DEF GrantState
<1> QED
  BY <1>1, <1>2 DEF GrantStates

LEMMA InitRefines == Init => CG!Init
<1> SUFFICES ASSUME Init PROVE CG!Init
  OBVIOUS
<1>1. RequestStates = [r \in ReqID |-> "none"]
  BY DEF Init, RequestStates, RequestState
<1>2. \A e \in Exchange : GrantState(e) = CG!NoGrant
  BY DEF Init, GrantState, CG!NoGrant, Without
<1> QED
  BY <1>1, <1>2 DEF Init, CG!Init, GrantStates

LEMMA CreateRefines ==
  ASSUME IndInv, NEW r \in ReqID, NEW u \in Subject \cup {None},
         CreateAuthRequest(r, u), IndInv'
  PROVE  CG!Next
<1>1. /\ object[r] = None /\ object'[r] # None /\ stored' = stored \cup {r}
      /\ \A q \in ReqID : q # r => object'[q] = object[q]
      /\ hint' = [hint EXCEPT ![r] = u]
      /\ UNCHANGED <<exchange, verified>>
  BY DEF CreateAuthRequest, IndInv, TypeOK
<1>2. RequestStates[r] = "none"
  BY <1>1 DEF RequestStates, RequestState
<1>3. RequestStates' = [RequestStates EXCEPT ![r] = "open"]
  <2>1. RequestState(r)' = "open"
    BY <1>1 DEF RequestState
  <2>2. \A q \in ReqID : q # r => RequestState(q)' = RequestState(q)
    BY <1>1 DEF RequestState
  <2> QED
    BY <2>1, <2>2 DEF RequestStates
<1>4. u = None \/ \E q \in ReqID : u \in verified[q]
  BY HintsKnown DEF CreateAuthRequest
<1>5. CG!Open(r, u)
  BY <1>1, <1>2, <1>3, <1>4, GrantStatesStay DEF CG!Open
<1> QED
  BY <1>5 DEF CG!Next

LEMMA CompleteRefines ==
  ASSUME IndInv, NEW r \in ReqID, NEW s \in Subject, CompleteAuthRequest(r, s), IndInv'
  PROVE  CG!Next
<1>1. /\ r \in stored /\ object[r] # None /\ object'[r] # None
      /\ stored' = stored /\ exchange' = exchange /\ hint' = hint
      /\ \A q \in ReqID : q # r => object'[q] = object[q]
      /\ verified' = [verified EXCEPT ![r] = verified[r] \cup {s}]
  BY DEF CompleteAuthRequest, IndInv, TypeOK
<1>2. RequestStates[r] = "open" /\ RequestStates' = RequestStates
  BY <1>1 DEF RequestStates, RequestState
<1>3. CG!Verify(r, s)
  BY <1>1, <1>2, GrantStatesStay DEF CG!Verify
<1> QED
  BY <1>3 DEF CG!Next

\* The steps of an exchange that end it without tokens.
LEMMA RefuseRefines ==
  ASSUME IndInv, NEW e \in Exchange, NEW pc \in {"failed", "shown"},
         exchange[e].pc \in {"ready", "byID", "email"},
         exchange' = [exchange EXCEPT ![e] = Without(pc)],
         UNCHANGED <<object, stored, hint, verified>>
  PROVE  CG!Next
<1>1. /\ GrantStates' = [GrantStates EXCEPT ![e] = GrantState(e)']
      /\ GrantStates[e] = GrantState(e) /\ exchange'[e] = Without(pc)
  BY GrantStatesMove DEF IndInv
<1>2. GrantState(e)' = CG!Over
  BY <1>1 DEF GrantState, CG!Over, Without
<1>3. GrantState(e).status \in {"none", "pending"}
  BY DEF GrantState
<1>4. CG!Refuse(e)
  BY <1>1, <1>2, <1>3, RequestStatesStay DEF CG!Refuse
<1> QED
  BY <1>4 DEF CG!Next

\* The steps of an exchange in which its grant stays what it is.
LEMMA GrantStays ==
  ASSUME IndInv, NEW e \in Exchange, NEW y,
         exchange' = [exchange EXCEPT ![e] = y],
         UNCHANGED <<object, stored, hint, verified>>,
         GrantState(e)' = GrantState(e)
  PROVE  UNCHANGED CG!vars
<1>1. /\ GrantStates' = [GrantStates EXCEPT ![e] = GrantStates[e]]
  BY GrantStatesMove DEF IndInv
<1>2. GrantStates' = GrantStates
  BY <1>1 DEF GrantStates
<1> QED
  BY <1>2, RequestStatesStay DEF CG!vars

LEMMA PresentCodeRefines ==
  ASSUME IndInv, NEW e \in Exchange, PresentCode(e)
  PROVE  [CG!Next]_CG!vars
<1>1. PICK c \in Code :
        exchange' = [exchange EXCEPT ![e] =
          IF codes[c] = None THEN Without("failed")
          ELSE [exchange[e] EXCEPT !.pc = "byID", !.req = codes[c]]]
  BY DEF PresentCode
<1>2. exchange[e].pc = "ready" /\ UNCHANGED <<object, stored, hint, verified>>
  BY DEF PresentCode
<1>3. CASE codes[c] = None
  BY <1>1, <1>2, <1>3, RefuseRefines
<1>4. CASE codes[c] # None
  <2> DEFINE y == [exchange[e] EXCEPT !.pc = "byID", !.req = codes[c]]
  <2>1. exchange[e] \in Exchanging /\ exchange' = [exchange EXCEPT ![e] = y]
    BY <1>1, <1>4 DEF IndInv, TypeOK
  <2>2. y.pc = "byID"
    BY <2>1 DEF Exchanging
  <2>3. exchange'[e] = y
    BY <2>1 DEF IndInv, TypeOK
  <2> HIDE DEF y
  <2>4. GrantState(e)' = GrantState(e)
    BY <1>2, <2>2, <2>3 DEF GrantState
  <2> QED
    BY <1>2, <2>1, <2>4, GrantStays
<1> QED
  BY <1>3, <1>4

LEMMA RequestByIDRefines ==
  ASSUME IndInv, NEW e \in Exchange, RequestByID(e)
  PROVE  CG!Next
<1> DEFINE x == exchange[e]
<1>1. x.pc = "byID" /\ UNCHANGED <<object, stored, hint, verified>>
  BY DEF RequestByID
<1>2. CASE x.req \notin stored
  BY <1>1, <1>2, RefuseRefines DEF RequestByID
<1>3. CASE x.req \in stored
  <2> DEFINE y == [x EXCEPT !.pc = "email", !.early = object[x.req].completed]
  <2>1. /\ x \in Exchanging /\ exchange' = [exchange EXCEPT ![e] = y]
        /\ x.req \in ReqID /\ object[x.req] # None
    BY <1>3 DEF RequestByID, IndInv, TypeOK
  <2>2. y.pc = "email" /\ y.req = x.req
    BY <2>1 DEF Exchanging
  <2> HIDE DEF y
  <2>3. /\ GrantStates' = [GrantStates EXCEPT ![e] = GrantState(e)']
        /\ GrantStates[e] = GrantState(e) /\ exchange'[e] = y
    BY <2>1, GrantStatesMove DEF IndInv
  <2>4. GrantState(e) = CG!NoGrant
    BY <1>1 DEF GrantState, CG!NoGrant
  <2>5. GrantState(e)' = [status |-> "pending", req |-> x.req, sub |-> None]
    BY <2>2, <2>3 DEF GrantState
  <2>6. RequestStates[x.req] = "open"
    BY <1>3, <2>1 DEF RequestStates, RequestState
  <2> DEFINE r == x.req
  <2>7. r \in ReqID /\ RequestStates[r] = "open"
        /\ GrantState(e)' = [status |-> "pending", req |-> r, sub |-> None]
    BY <2>1, <2>5, <2>6
  <2> HIDE DEF r
  <2>8. CG!Begin(e, r)
    BY <1>1, <2>3, <2>4, <2>7, RequestStatesStay DEF CG!Begin
  <2> QED
    BY <2>7, <2>8 DEF CG!Next
<1> QED
  BY <1>2, <1>3

\* What is read before and after the access token changes no grant.
LEMMA ReadingRefines ==
  ASSUME IndInv, NEW e \in Exchange,
         ReadEmail(e) \/ SetUserinfoFromScopes(e) \/ SetUserinfoFromRequest(e)
  PROVE  UNCHANGED CG!vars
<1> DEFINE x == exchange[e]
<1>0. x \in Exchanging
  BY DEF IndInv, TypeOK
<1>1. UNCHANGED <<object, stored, hint, verified>>
  BY DEF ReadEmail, SetUserinfoFromScopes, SetUserinfoFromRequest
<1>2. CASE ReadEmail(e)
  <2> DEFINE y == [x EXCEPT !.pc = "mint", !.email = object[x.req].email]
  <2>1. /\ x.pc = "email" /\ exchange' = [exchange EXCEPT ![e] = y]
        /\ exchange'[e] = y
    BY <1>2 DEF ReadEmail, IndInv, TypeOK
  <2>2. y.pc = "mint" /\ y.req = x.req
    BY <1>0 DEF Exchanging
  <2> HIDE DEF y
  <2>3. GrantState(e)' = GrantState(e)
    BY <2>1, <2>2 DEF GrantState
  <2> QED
    BY <1>1, <2>1, <2>3, GrantStays
<1>3. CASE SetUserinfoFromScopes(e)
  <2> DEFINE emails == EmailsOfSubject(object[x.req].userID)
  <2>1. PICK m \in IF emails = {} THEN {None} ELSE emails :
          exchange' = [exchange EXCEPT ![e] = [x EXCEPT !.pc = "userinfo", !.found = m]]
    BY <1>3 DEF SetUserinfoFromScopes, IndInv, TypeOK
  <2> DEFINE y == [x EXCEPT !.pc = "userinfo", !.found = m]
  <2>2. y.pc = "userinfo" /\ y.req = x.req /\ y.access = x.access
    BY <1>0 DEF Exchanging
  <2>3. x.pc = "scopes" /\ exchange'[e] = y /\ exchange' = [exchange EXCEPT ![e] = y]
    BY <1>3, <2>1 DEF SetUserinfoFromScopes, IndInv, TypeOK
  <2> HIDE DEF y
  <2>4. GrantState(e)' = GrantState(e)
    BY <2>2, <2>3 DEF GrantState
  <2> QED
    BY <1>1, <2>3, <2>4, GrantStays
<1>4. CASE SetUserinfoFromRequest(e)
  <2> DEFINE i == [sub |-> object[x.req].userID, email |-> object[x.req].email]
             y == [x EXCEPT !.pc = "delete", !.found = None, !.id = i]
  <2>1. /\ x.pc = "userinfo" /\ exchange' = [exchange EXCEPT ![e] = y]
        /\ exchange'[e] = y
    BY <1>4 DEF SetUserinfoFromRequest, IndInv, TypeOK
  <2> HIDE DEF i
  <2>2. y.pc = "delete" /\ y.req = x.req /\ y.access = x.access
    BY <1>0 DEF Exchanging
  <2> HIDE DEF y
  <2>3. GrantState(e)' = GrantState(e)
    BY <2>1, <2>2 DEF GrantState
  <2> QED
    BY <1>1, <2>1, <2>3, GrantStays
<1> QED
  BY <1>2, <1>3, <1>4

LEMMA CreateAccessTokenRefines ==
  ASSUME IndInv, NEW e \in Exchange, CreateAccessToken(e)
  PROVE  CG!Next
<1> DEFINE x == exchange[e]
           s == object[x.req].userID
           a == [sub |-> s, email |-> x.email]
           y == [x EXCEPT !.pc = "scopes", !.email = None, !.access = a]
<1>1. /\ x.pc = "mint" /\ exchange' = [exchange EXCEPT ![e] = y]
      /\ UNCHANGED <<object, stored, hint, verified>>
  BY DEF CreateAccessToken, IndInv, TypeOK
<1>2. x \in Exchanging /\ s \in verified[x.req] \cup {hint[x.req]}
  BY <1>1, ReadsRequest DEF Begun
<1>3. a.sub = s
  OBVIOUS
<1> HIDE DEF a
<1>4. y.pc = "scopes" /\ y.req = x.req /\ y.access = a
  BY <1>2 DEF Exchanging
<1> HIDE DEF y
<1>5. /\ GrantStates' = [GrantStates EXCEPT ![e] = GrantState(e)']
      /\ GrantStates[e] = GrantState(e) /\ exchange'[e] = y
  BY <1>1, GrantStatesMove DEF IndInv
<1>6. GrantState(e) = [status |-> "pending", req |-> x.req, sub |-> None]
  BY <1>1 DEF GrantState
<1>7. GrantState(e)' = [status |-> "granted", req |-> x.req, sub |-> s]
  BY <1>3, <1>4, <1>5 DEF GrantState
<1>8. /\ GrantStates[e].status = "pending"
      /\ GrantStates[e].req = x.req
      /\ s \in verified[GrantStates[e].req] \cup {hint[GrantStates[e].req]}
  BY <1>2, <1>5, <1>6
<1>9. GrantStates' = [GrantStates EXCEPT ![e] =
                       [status |-> "granted", req |-> GrantStates[e].req,
                        sub |-> s]]
  BY <1>5, <1>7, <1>8
<1> HIDE DEF s
<1>10. CG!Grant(e)
  BY <1>1, <1>8, <1>9, RequestStatesStay DEF CG!Grant
<1> QED
  BY <1>10 DEF CG!Next

LEMMA DeleteRefines ==
  ASSUME IndInv, NEW e \in Exchange, DeleteAuthRequest(e)
  PROVE  CG!Next
<1> DEFINE x == exchange[e]
           r == x.req
           y == [x EXCEPT !.pc = "done"]
<1>1. /\ x.pc = "delete" /\ exchange' = [exchange EXCEPT ![e] = y]
      /\ stored' = stored \ {r} /\ UNCHANGED <<object, hint, verified>>
      /\ x \in Exchanging
  BY DEF DeleteAuthRequest, IndInv, TypeOK
<1>2. r \in ReqID /\ object[r] # None
  BY <1>1 DEF IndInv, ExchangeInv, PointerOK, Begun
<1>3. y.pc = "done" /\ y.req = r /\ y.access = x.access
  BY <1>1 DEF Exchanging
<1> HIDE DEF y
<1>4. /\ GrantStates' = [GrantStates EXCEPT ![e] = GrantState(e)']
      /\ GrantStates[e] = GrantState(e) /\ exchange'[e] = y
  BY <1>1, GrantStatesMove DEF IndInv
<1>5. GrantState(e) = [status |-> "granted", req |-> r, sub |-> x.access.sub]
  BY <1>1 DEF GrantState
<1>6. GrantState(e)' = [GrantState(e) EXCEPT !.status = "finished"]
  BY <1>3, <1>4, <1>5 DEF GrantState
<1>7. GrantStates[e].status = "granted" /\ GrantStates[e].req = r
  BY <1>4, <1>5
<1>8. GrantStates' = [GrantStates EXCEPT ![e].status = "finished"]
  BY <1>4, <1>6 DEF GrantStates
<1>9. RequestStates' = [RequestStates EXCEPT ![r] = "closed"]
  BY <1>1, <1>2 DEF RequestStates, RequestState
<1> HIDE DEF r
<1>10. CG!Finish(e)
  BY <1>1, <1>7, <1>8, <1>9 DEF CG!Finish
<1> QED
  BY <1>10 DEF CG!Next

LEMMA RestartRefines ==
  ASSUME IndInv, Restart
  PROVE  CG!Next
<1>0. /\ stored' = {} /\ UNCHANGED <<object, hint, verified>>
      /\ exchange' = [e \in Exchange |->
                       IF exchange[e].pc \in Ended \cup {"ready"}
                         THEN exchange[e] ELSE Without("failed")]
  BY DEF Restart
<1>1. RequestStates' = [r \in ReqID |->
        IF RequestStates[r] = "open" THEN "closed" ELSE RequestStates[r]]
  BY <1>0 DEF RequestStates, RequestState
<1>2. ASSUME NEW e \in Exchange
      PROVE  \/ GrantState(e)' = GrantState(e)
             \/ /\ GrantState(e)' = CG!Over
                /\ GrantState(e).status \in {"none", "pending", "granted"}
  <2>1. CASE exchange[e].pc \in Ended \cup {"ready"}
    <3>1. exchange'[e] = exchange[e]
      BY <1>0, <2>1
    <3> QED
      BY <3>1 DEF GrantState
  <2>2. CASE exchange[e].pc \notin Ended \cup {"ready"}
    <3>1. exchange'[e] = Without("failed")
      BY <1>0, <2>2
    <3>2. GrantState(e)' = CG!Over
      BY <3>1 DEF GrantState, CG!Over, Without
    <3>3. exchange[e].pc \in {"byID", "email", "mint", "scopes", "userinfo", "delete"}
      BY <2>2 DEF Ended, IndInv, TypeOK, Exchanging
    <3>4. GrantState(e).status \in {"none", "pending", "granted"}
      BY <3>3 DEF GrantState
    <3> QED
      BY <3>2, <3>4
  <2> QED
    BY <2>1, <2>2
<1>3. \A e \in Exchange : /\ GrantStates[e] = GrantState(e)
                          /\ GrantStates'[e] = GrantState(e)'
  BY DEF GrantStates
<1>4. GrantStates' = [e \in Exchange |-> GrantStates'[e]]
  BY DEF GrantStates
<1>5. CG!Lose
  BY <1>0, <1>1, <1>2, <1>3, <1>4 DEF CG!Lose
<1> QED
  BY <1>5 DEF CG!Next

\* An exchange begins on a stored request only, its token names a user who
\* verified that request, or whom it was created for, and once it is over the
\* request is closed to every later exchange, whichever code is presented.
THEOREM CodeGrantHolds == Spec => CodeGrantSpec
<1>1. IndInv /\ IndInv' /\ [Next]_vars => [CG!Next]_CG!vars
  <2> SUFFICES ASSUME IndInv, IndInv', [Next]_vars PROVE [CG!Next]_CG!vars
    OBVIOUS
  <2>1. CASE \E c \in Code : CallbackLookup(c) \/ SaveAuthCode(c)
    BY <2>1, RequestStatesStay, GrantStatesStay
       DEF CallbackLookup, SaveAuthCode, CG!vars
  <2>2. CASE \E e \in Exchange : ShowSubject(e)
    BY <2>2, RefuseRefines DEF ShowSubject
  <2>3. CASE \E e \in Exchange : ExchangeStep(e)
    BY <2>3, RequestByIDRefines, ReadingRefines, CreateAccessTokenRefines,
       DeleteRefines DEF ExchangeStep
  <2>4. CASE UNCHANGED vars
    BY <2>4, RequestStatesStay, GrantStatesStay DEF vars, CG!vars
  <2> QED
    BY <2>1, <2>2, <2>3, <2>4, CreateRefines, CompleteRefines,
       PresentCodeRefines, RestartRefines DEF Next
<1> QED
  BY InitRefines, Invariance, <1>1, PTL DEF Spec, CodeGrantSpec, CG!Spec
=============================================================================
