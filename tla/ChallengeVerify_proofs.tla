----------------------- MODULE ChallengeVerify_proofs -----------------------
(***************************************************************************)
(* Proofs about the challenge store and its handlers, for any number of    *)
(* connections, nonces and users, any lifetimes and any number of restarts.*)
(***************************************************************************)
EXTENDS ChallengeVerify, SequenceTheorems, TLAPS

\* The type invariant of the handlers, the store and the history.
THEOREM TypeCorrect == Spec => []TypeOK
<1>1. Init => TypeOK
  BY CVAssumption DEF Init, TypeOK, Time
<1>2. TypeOK /\ [Next]_vars => TypeOK'
  <2> SUFFICES ASSUME TypeOK, [Next]_vars
               PROVE  TypeOK'
    OBVIOUS
  <2> USE CVAssumption DEF TypeOK, Return
  <2>1. ASSUME NEW h \in Handler, HandleChallenge(h)
        PROVE  TypeOK'
    <3> PICK n \in Nonce :
          /\ issue' = [issue EXCEPT ![n] = [to |-> RemoteAddr[h], at |-> clock]]
          /\ latest' = [latest EXCEPT ![RemoteAddr[h]] = n]
          /\ challenges' = [challenges EXCEPT ![RemoteAddr[h]] =
                              [nonce |-> n, createdAt |-> clock]]
      BY <2>1 DEF HandleChallenge
    <3>1. /\ [to |-> RemoteAddr[h], at |-> clock] \in Issue
          /\ [nonce |-> n, createdAt |-> clock] \in Entry
      BY DEF Issue, Entry
    <3> QED
      BY <2>1, <3>1 DEF HandleChallenge
  <2>2. ASSUME NEW h \in Handler, ReceiveVerify(h)
        PROVE  TypeOK'
    BY <2>2 DEF ReceiveVerify
  <2>3. ASSUME NEW h \in Handler, GetMissing(h)
        PROVE  TypeOK'
    BY <2>3 DEF GetMissing
  <2>4. ASSUME NEW h \in Handler, GetMismatch(h)
        PROVE  TypeOK'
    BY <2>4 DEF GetMismatch
  <2>5. ASSUME NEW h \in Handler, GetMatch(h)
        PROVE  TypeOK'
    BY <2>5 DEF GetMatch
  <2>6. ASSUME NEW h \in Handler, VerifyDelete(h)
        PROVE  TypeOK'
    BY <2>6 DEF VerifyDelete
  <2>7. ASSUME NEW h \in Handler, VerifyComplete(h)
        PROVE  TypeOK'
    <3> DEFINE a == [session |-> RemoteAddr[h], tmb |-> coz[h].tmb,
                     now |-> coz[h].now, signer |-> coz[h].signer,
                     req |-> coz[h].req]
    <3>1. coz[h] \in VerifyRequest
      BY <2>7 DEF VerifyComplete
    <3>2. a \in Acceptance /\ coz[h].nonce \in Nonce
      BY <3>1 DEF VerifyRequest, Acceptance
    <3>3. accepted' = [accepted EXCEPT ![coz[h].nonce] =
                         Append(accepted[coz[h].nonce], a)]
      BY <2>7 DEF VerifyComplete
    <3>4. accepted' \in [Nonce -> Seq(Acceptance)]
      BY <3>2, <3>3, AppendProperties
    <3> QED
      BY <2>7, <3>4 DEF VerifyComplete
  <2>8. CASE Tick
    BY <2>8 DEF Tick, Time
  <2>9. CASE Restart
    BY <2>9 DEF Restart
  <2>10. CASE UNCHANGED vars
    BY <2>10 DEF vars
  <2> QED
    BY <2>1, <2>2, <2>3, <2>4, <2>5, <2>6, <2>7, <2>8, <2>9, <2>10
       DEF Next, VerifyStep
<1> QED
  BY <1>1, <1>2, PTL DEF Spec

-----------------------------------------------------------------------------
(***************************************************************************)
(* The inductive invariant.  The argument is ownership: a nonce belongs to *)
(* the connection it was issued to, it is in the store or in the hands of  *)
(* that connection's handler but never in both once matched, and it is     *)
(* unused as long as it is in either.                                      *)
(***************************************************************************)

Parts ==
  IssueInv /\ StoredInv /\ RequestInv /\ MatchedInv
    /\ NonceOnce /\ SignedNearIssue /\ RegisteredSigner

LEMMA IndInvInit == Init => IndInv
<1> SUFFICES ASSUME Init
             PROVE  IndInv
  OBVIOUS
<1>1. TypeOK
  BY CVAssumption DEF Init, TypeOK, Time
<1>2. Parts
  BY DEF Init, Parts, IssueInv, StoredInv, RequestInv, MatchedInv, NonceOnce,
         SignedNearIssue, RegisteredSigner
<1> QED
  BY <1>1, <1>2 DEF IndInv, Parts

LEMMA StampInt ==
  /\ \A c \in VerifyRequest : c.now \in Int
  /\ \A t \in Time : t \in Int
  /\ \A i \in Issue : i.at \in Int
<1>1. Stamp \subseteq Int
  BY CVAssumption
<1> QED
  BY <1>1, CVAssumption DEF VerifyRequest, Issue, Time

\* A timestamp stays timely for a longer stretch of time.
LEMMA DatedLater ==
  ASSUME NEW now \in Int, NEW first \in Int, NEW last \in Int, NEW later \in Int,
         last <= later, DatedWithin(now, first, last)
  PROVE  DatedWithin(now, first, later)
BY CVAssumption DEF DatedWithin

\* What a handler owns stays its own under any step that leaves its request,
\* its connection's challenge and the history of its nonce alone.
LEMMA OwnsStays ==
  ASSUME NEW g \in Handler, Owns(g),
         pc'[g] = pc[g], coz'[g] = coz[g],
         issue'[coz[g].nonce] = issue[coz[g].nonce],
         latest'[RemoteAddr[g]] = latest[RemoteAddr[g]],
         accepted'[coz[g].nonce] = accepted[coz[g].nonce],
         challenges'[RemoteAddr[g]] = challenges[RemoteAddr[g]]
  PROVE  Owns(g)'
BY DEF Owns, SignedByUser, Users

\* A new challenge replaces the stored one; no handler of the connection is
\* at work, so nobody holds the nonce it replaces.
LEMMA HandleChallengeKeeps ==
  ASSUME IndInv, NEW h \in Handler, HandleChallenge(h)
  PROVE  Parts'
<1> USE CVAssumption DEF IndInv
<1> PICK n \in Nonce :
      /\ issue[n] = None
      /\ issue' = [issue EXCEPT ![n] = [to |-> RemoteAddr[h], at |-> clock]]
      /\ latest' = [latest EXCEPT ![RemoteAddr[h]] = n]
      /\ challenges' = [challenges EXCEPT ![RemoteAddr[h]] =
                          [nonce |-> n, createdAt |-> clock]]
  BY DEF HandleChallenge
<1> DEFINE new == [to |-> RemoteAddr[h], at |-> clock]
<1>0. /\ pc[h] = "idle" /\ UNCHANGED <<clock, pc, coz, restarts, accepted>>
      /\ new # None /\ new \in Issue
      /\ [nonce |-> n, createdAt |-> clock] # None
      /\ clock \in Int
  BY DEF HandleChallenge, TypeOK, Issue, Entry, Time
<1>1. IssueInv'
  BY <1>0 DEF IssueInv, TypeOK
<1>2. StoredInv'
  <2> SUFFICES ASSUME NEW s \in Session, challenges'[s] # None
               PROVE  /\ issue'[challenges'[s].nonce] =
                           [to |-> s, at |-> challenges'[s].createdAt]
                      /\ latest'[s] = challenges'[s].nonce
                      /\ accepted'[challenges'[s].nonce] = <<>>
    BY DEF StoredInv
  <2>1. CASE s = RemoteAddr[h]
    BY <2>1, <1>0 DEF IssueInv, TypeOK
  <2>2. CASE s # RemoteAddr[h]
    <3>1. /\ challenges'[s] = challenges[s] /\ latest'[s] = latest[s]
          /\ challenges[s] \in Entry
      BY <2>2 DEF TypeOK
    <3>2. /\ issue[challenges[s].nonce] = [to |-> s, at |-> challenges[s].createdAt]
          /\ [to |-> s, at |-> challenges[s].createdAt] # None
          /\ latest[s] = challenges[s].nonce
          /\ accepted[challenges[s].nonce] = <<>>
      BY <3>1 DEF StoredInv, Entry, Issue
    <3> QED
      BY <1>0, <3>1, <3>2 DEF TypeOK
  <2> QED
    BY <2>1, <2>2
<1>3. RequestInv'
  BY <1>0 DEF RequestInv, TypeOK, VerifyRequest
<1>4. MatchedInv'
  <2> SUFFICES ASSUME NEW g \in Handler, pc[g] \in {"delete", "complete"}
               PROVE  Owns(g)'
    BY <1>0 DEF MatchedInv
  <2>1. g # h /\ RemoteAddr[g] # RemoteAddr[h] /\ coz[g].nonce # n
    BY <1>0 DEF RequestInv
  <2>2. Owns(g)
    BY DEF MatchedInv
  <2> QED
    BY <1>0, <2>1, <2>2, OwnsStays DEF TypeOK
<1>5. NonceOnce' /\ RegisteredSigner'
  BY <1>0 DEF NonceOnce, RegisteredSigner
<1>6. SignedNearIssue'
  BY <1>0 DEF SignedNearIssue, IssueInv, TypeOK
<1> QED
  BY <1>1, <1>2, <1>3, <1>4, <1>5, <1>6 DEF Parts

\* The checks of time at arrival bound the signed timestamp from both sides.
LEMMA ReceiveVerifyKeeps ==
  ASSUME IndInv, NEW h \in Handler, ReceiveVerify(h)
  PROVE  Parts'
<1> USE CVAssumption DEF IndInv
<1> PICK c \in VerifyRequest : /\ issue[c.nonce] # None
                     /\ Timely(c)
                     /\ coz' = [coz EXCEPT ![h] = c]
  BY DEF ReceiveVerify
<1>0. /\ pc[h] = "idle" /\ pc' = [pc EXCEPT ![h] = "get"]
      /\ UNCHANGED <<clock, challenges, restarts, issue, latest, accepted>>
  BY DEF ReceiveVerify
<1>1. IssueInv' /\ StoredInv' /\ NonceOnce' /\ SignedNearIssue' /\ RegisteredSigner'
  BY <1>0 DEF IssueInv, StoredInv, NonceOnce, SignedNearIssue, RegisteredSigner
<1>2. RequestInv'
  <2>1. /\ issue[c.nonce].at \in Int /\ clock \in Int /\ c.now \in Int
        /\ issue[c.nonce].at <= clock
    <3>1. issue[c.nonce] \in Issue
      BY DEF TypeOK, VerifyRequest
    <3> QED
      BY <3>1, StampInt DEF TypeOK, IssueInv, VerifyRequest
  <2>2. DatedWithin(c.now, issue[c.nonce].at, clock)
    BY <2>1 DEF Timely, DatedWithin
  <2> QED
    BY <1>0, <2>2 DEF RequestInv, TypeOK
<1>3. MatchedInv'
  <2> SUFFICES ASSUME NEW g \in Handler, pc'[g] \in {"delete", "complete"}
               PROVE  Owns(g)'
    BY DEF MatchedInv
  <2>1. g # h /\ pc'[g] = pc[g] /\ coz'[g] = coz[g]
    BY <1>0 DEF TypeOK
  <2> QED
    BY <1>0, <2>1, OwnsStays DEF MatchedInv
<1> QED
  BY <1>1, <1>2, <1>3 DEF Parts

\* Get, whatever it finds.  A match binds the handler to the stored nonce.
LEMMA GetKeeps ==
  ASSUME IndInv, NEW h \in Handler,
         GetMissing(h) \/ GetMismatch(h) \/ GetMatch(h)
  PROVE  Parts'
<1> USE CVAssumption DEF IndInv
<1>0. /\ pc[h] = "get"
      /\ UNCHANGED <<clock, restarts, issue, latest, accepted>>
  BY DEF GetMissing, GetMismatch, GetMatch
<1>1. IssueInv' /\ NonceOnce' /\ SignedNearIssue' /\ RegisteredSigner'
  BY <1>0 DEF IssueInv, NonceOnce, SignedNearIssue, RegisteredSigner
<1>2. StoredInv'
  BY <1>0 DEF StoredInv, TypeOK, GetMissing, GetMismatch, GetMatch
<1>3. RequestInv'
  BY <1>0 DEF RequestInv, TypeOK, GetMissing, GetMismatch, GetMatch, Return
<1>4. MatchedInv'
  <2> SUFFICES ASSUME NEW g \in Handler, pc'[g] \in {"delete", "complete"}
               PROVE  Owns(g)'
    BY DEF MatchedInv
  <2>1. CASE g # h
    <3>1. /\ pc'[g] = pc[g] /\ coz'[g] = coz[g]
          /\ challenges'[RemoteAddr[g]] = challenges[RemoteAddr[g]]
      BY <2>1 DEF TypeOK, GetMissing, GetMismatch, GetMatch, Return
    <3> QED
      BY <1>0, <3>1, OwnsStays DEF MatchedInv
  <2>2. CASE g = h
    <3>0. GetMatch(h)
      BY <1>0, <2>2 DEF TypeOK, GetMissing, GetMismatch, Return
    <3> DEFINE s == RemoteAddr[h]
               n == coz[h].nonce
    <3>1. /\ challenges[s] # None /\ challenges[s].nonce = n
          /\ clock - challenges[s].createdAt <= TTL
          /\ pc' = [pc EXCEPT ![h] = "delete"] /\ UNCHANGED <<challenges, coz>>
      BY <3>0, <1>0 DEF GetMatch, Found, Expired, TypeOK, Entry, Time
    <3>2. /\ issue[n].to = s /\ issue[n].at = challenges[s].createdAt
          /\ latest[s] = n /\ accepted[n] = <<>>
      <4>1. s \in Session
        OBVIOUS
      <4>2. issue[n] = [to |-> s, at |-> challenges[s].createdAt]
        BY <3>1, <4>1 DEF StoredInv
      <4> QED
        BY <3>1, <4>1, <4>2 DEF StoredInv
    <3>3. /\ clock \in Int /\ coz[h].now \in Int /\ issue[n].at \in Int
          /\ DatedWithin(coz[h].now, issue[n].at, clock)
      <4>1. coz[h] \in VerifyRequest /\ challenges[s].createdAt \in Time
        BY <3>1, <1>0 DEF TypeOK, Entry
      <4> QED
        BY <3>2, <4>1, <1>0, StampInt DEF RequestInv, TypeOK
    <3>4. DatedWithin(coz[h].now, issue[n].at, issue[n].at + TTL)
      BY <3>1, <3>2, <3>3, DatedLater
    <3> QED
      BY <1>0, <2>2, <3>1, <3>2, <3>4 DEF Owns, TypeOK
  <2> QED
    BY <2>1, <2>2
<1> QED
  BY <1>1, <1>2, <1>3, <1>4 DEF Parts

\* After the deletion the nonce is nowhere but in the handler's hands.
LEMMA DeleteKeeps ==
  ASSUME IndInv, NEW h \in Handler, VerifyDelete(h)
  PROVE  Parts'
<1> USE CVAssumption DEF IndInv
<1>0. /\ pc[h] = "delete"
      /\ UNCHANGED <<clock, restarts, issue, latest, accepted>>
      /\ challenges' = [challenges EXCEPT ![RemoteAddr[h]] = None]
  BY DEF VerifyDelete
<1>1. IssueInv' /\ NonceOnce' /\ SignedNearIssue' /\ RegisteredSigner'
  BY <1>0 DEF IssueInv, NonceOnce, SignedNearIssue, RegisteredSigner
<1>2. StoredInv'
  BY <1>0 DEF StoredInv, TypeOK
<1>3. RequestInv'
  <2>1. \A g \in Handler : pc'[g] # "idle" => pc[g] # "idle" /\ coz'[g] = coz[g]
    BY DEF TypeOK, VerifyDelete, Return
  <2> QED
    BY <1>0, <2>1 DEF RequestInv, DatedWithin
<1>4. MatchedInv'
  <2> SUFFICES ASSUME NEW g \in Handler, pc'[g] \in {"delete", "complete"}
               PROVE  Owns(g)'
    BY DEF MatchedInv
  <2>1. CASE g # h
    <3>1. /\ pc'[g] = pc[g] /\ coz'[g] = coz[g]
          /\ challenges'[RemoteAddr[g]] = challenges[RemoteAddr[g]]
      BY <1>0, <2>1 DEF TypeOK, VerifyDelete, Return
    <3> QED
      BY <1>0, <3>1, OwnsStays DEF MatchedInv
  <2>2. CASE g = h
    <3>1. /\ SignedByUser(coz[h]) /\ UNCHANGED coz
          /\ pc' = [pc EXCEPT ![h] = "complete"]
      BY <1>0, <2>2 DEF TypeOK, VerifyDelete, Return
    <3>2. Owns(h)
      BY <1>0 DEF MatchedInv
    <3>3. SignedByUser(coz[h])'
      BY <3>1 DEF SignedByUser, Users
    <3> QED
      BY <1>0, <2>2, <3>1, <3>2, <3>3 DEF Owns, TypeOK
  <2> QED
    BY <2>1, <2>2
<1> QED
  BY <1>1, <1>2, <1>3, <1>4 DEF Parts

\* The answer uses the nonce up.  No other handler holds it: it would serve
\* the same connection.
LEMMA VerifyCompleteKeeps ==
  ASSUME IndInv, NEW h \in Handler, VerifyComplete(h)
  PROVE  Parts'
<1> USE CVAssumption DEF IndInv
<1> DEFINE n == coz[h].nonce
           a == [session |-> RemoteAddr[h], tmb |-> coz[h].tmb,
                 now |-> coz[h].now, signer |-> coz[h].signer,
                 req |-> coz[h].req]
<1>0. /\ pc[h] = "complete" /\ pc' = [pc EXCEPT ![h] = "idle"]
      /\ coz' = [coz EXCEPT ![h] = None]
      /\ UNCHANGED <<clock, challenges, restarts, issue, latest>>
      /\ accepted' = [accepted EXCEPT ![n] = Append(accepted[n], a)]
  BY DEF VerifyComplete, Return
<1>1. /\ coz[h] \in VerifyRequest /\ n \in Nonce /\ a \in Acceptance
      /\ accepted[n] = <<>> /\ issue[n] # None /\ issue[n] \in Issue
      /\ issue[n].to = RemoteAddr[h] /\ latest[RemoteAddr[h]] = n
      /\ challenges[RemoteAddr[h]] = None /\ SignedByUser(coz[h])
      /\ DatedWithin(a.now, issue[n].at, issue[n].at + TTL)
  BY <1>0 DEF TypeOK, VerifyRequest, Acceptance, MatchedInv, Owns, RequestInv
<1>2. accepted' = [accepted EXCEPT ![n] = <<a>>]
  BY <1>0, <1>1
<1> HIDE DEF a
<1>3. IssueInv'
  BY <1>0, <1>1, <1>2 DEF IssueInv, TypeOK
<1>4. StoredInv'
  BY <1>0, <1>1, <1>2 DEF StoredInv, TypeOK, Entry
<1>5. RequestInv'
  BY <1>0 DEF RequestInv, TypeOK
<1>6. MatchedInv'
  <2> SUFFICES ASSUME NEW g \in Handler, pc'[g] \in {"delete", "complete"}
               PROVE  Owns(g)'
    BY DEF MatchedInv
  <2>1. /\ g # h /\ pc'[g] = pc[g] /\ coz'[g] = coz[g]
        /\ pc[g] \in {"delete", "complete"}
    BY <1>0 DEF TypeOK
  <2>2. Owns(g) /\ coz[g].nonce # n
    BY <1>1, <2>1 DEF MatchedInv, Owns
  <2>3. accepted'[coz[g].nonce] = accepted[coz[g].nonce]
    BY <1>1, <1>2, <2>1, <2>2 DEF TypeOK, VerifyRequest
  <2> QED
    BY <1>0, <2>1, <2>2, <2>3, OwnsStays
<1>7. NonceOnce'
  BY <1>1, <1>2 DEF NonceOnce, TypeOK
<1>8. SignedNearIssue'
  BY <1>0, <1>1, <1>2 DEF SignedNearIssue, TypeOK
<1>9. RegisteredSigner'
  <2>1. IF a.tmb \in DOMAIN EnvUsers
          THEN a.signer = EnvUsers[a.tmb].key
          ELSE a.tmb \in DOMAIN TestUsers /\ a.signer = TestUsers[a.tmb].key
    BY <1>1 DEF SignedByUser, Users, a
  <2> QED
    BY <1>1, <1>2, <2>1 DEF RegisteredSigner, TypeOK
<1> QED
  BY <1>3, <1>4, <1>5, <1>6, <1>7, <1>8, <1>9 DEF Parts

\* Time only makes the bounds on the past looser.
LEMMA TickKeeps ==
  ASSUME IndInv, Tick
  PROVE  Parts'
<1> USE CVAssumption DEF IndInv
<1>0. /\ clock' = clock + 1 /\ clock \in Int
      /\ UNCHANGED <<challenges, pc, coz, restarts, issue, latest, accepted>>
  BY DEF Tick, TypeOK, Time
<1>1. IssueInv'
  BY <1>0 DEF IssueInv, TypeOK, Issue, Time
<1>2. RequestInv'
  <2> SUFFICES ASSUME NEW h \in Handler, pc'[h] # "idle"
               PROVE  /\ issue'[coz'[h].nonce] # None
                      /\ DatedWithin(coz[h].now, issue[coz[h].nonce].at, clock + 1)
    BY <1>0 DEF RequestInv, DatedWithin
  <2>1. /\ coz[h] \in VerifyRequest /\ issue[coz[h].nonce] # None
        /\ DatedWithin(coz[h].now, issue[coz[h].nonce].at, clock)
        /\ issue' = issue /\ coz' = coz
    BY <1>0 DEF RequestInv, TypeOK
  <2>2. issue[coz[h].nonce] \in Issue
    BY <2>1 DEF TypeOK, VerifyRequest
  <2> QED
    BY <1>0, <2>1, <2>2, StampInt, DatedLater
<1> QED
  BY <1>0, <1>1, <1>2 DEF Parts, StoredInv, MatchedInv, Owns, NonceOnce,
       SignedNearIssue, RegisteredSigner, SignedByUser, Users

\* A restart empties the store and every handler's hands.
LEMMA RestartKeeps ==
  ASSUME IndInv, Restart
  PROVE  Parts'
BY DEF IndInv, Restart, Parts, IssueInv, StoredInv, RequestInv, MatchedInv,
       NonceOnce, SignedNearIssue, RegisteredSigner

\* The invariant holds of every behaviour of the handlers.
THEOREM Invariance == Spec => []IndInv
<1>1. IndInv /\ TypeOK' /\ [Next]_vars => IndInv'
  <2> SUFFICES ASSUME IndInv, TypeOK', [Next]_vars
               PROVE  Parts'
    BY DEF IndInv, Parts
  <2>1. CASE Next
    BY <2>1, HandleChallengeKeeps, ReceiveVerifyKeeps, GetKeeps,
       DeleteKeeps, VerifyCompleteKeeps, TickKeeps, RestartKeeps
       DEF Next, VerifyStep
  <2>2. CASE UNCHANGED vars
    BY <2>2 DEF vars, IndInv, Parts, IssueInv, StoredInv, RequestInv,
       MatchedInv, Owns, NonceOnce, SignedNearIssue, RegisteredSigner,
       SignedByUser, Users
  <2> QED
    BY <2>1, <2>2
<1> QED
  BY IndInvInit, <1>1, TypeCorrect, PTL DEF Spec

\* A nonce serves one sign-in at most.
THEOREM NonceOnceHolds == Spec => []NonceOnce
<1>1. IndInv => NonceOnce
  BY DEF IndInv
<1> QED
  BY <1>1, Invariance, PTL

\* A sign-in past the deletion of its nonce uses its connection's last one.
THEOREM OwnLatestChallengeHolds == Spec => []OwnLatestChallenge
<1>1. IndInv => OwnLatestChallenge
  BY DEF IndInv, MatchedInv, Owns, OwnLatestChallenge
<1> QED
  BY <1>1, Invariance, PTL

\* What was accepted was signed near the time its challenge was issued.
THEOREM SignedNearIssueHolds == Spec => []SignedNearIssue
<1>1. IndInv => SignedNearIssue
  BY DEF IndInv
<1> QED
  BY <1>1, Invariance, PTL

\* What was accepted was signed with the registered key.
THEOREM RegisteredSignerHolds == Spec => []RegisteredSigner
<1>1. IndInv => RegisteredSigner
  BY DEF IndInv
<1> QED
  BY <1>1, Invariance, PTL

-----------------------------------------------------------------------------
(***************************************************************************)
(* The store implements the one-time nonce: every step moves every nonce   *)
(* forward in its life or leaves it where it is.                           *)
(***************************************************************************)

LEMMA InitRefines == Init => OTN!Init
<1> SUFFICES ASSUME Init PROVE OTN!Init
  OBVIOUS
<1>1. \A n \in Nonce : State(n) = "fresh" /\ Len(accepted[n]) = 0
  BY DEF Init, State
<1> QED
  BY <1>1 DEF OTN!Init, NonceStates, NonceUses

LEMMA StateIs ==
  ASSUME NEW n \in Nonce
  PROVE  /\ issue[n] = None => State(n) = "fresh"
         /\ issue[n] # None /\ Claimed(n) => State(n) = "claimed"
         /\ issue[n] # None /\ ~Claimed(n) /\ Stored(n) => State(n) = "outstanding"
         /\ issue[n] # None /\ ~Claimed(n) /\ ~Stored(n) => State(n) = "spent"
  BY DEF State

LEMMA StateIsNext ==
  ASSUME NEW n \in Nonce
  PROVE  /\ issue'[n] = None => State(n)' = "fresh"
         /\ issue'[n] # None /\ Claimed(n)' => State(n)' = "claimed"
         /\ issue'[n] # None /\ ~Claimed(n)' /\ Stored(n)' => State(n)' = "outstanding"
         /\ issue'[n] # None /\ ~Claimed(n)' /\ ~Stored(n)' => State(n)' = "spent"
  BY DEF State

\* What a step may do to the nonces when it redeems none of them: issue a new
\* one, claim a stored one, void the others.
LEMMA AdvanceRefines ==
  ASSUME UNCHANGED accepted,
         \A n \in Nonce :
           /\ issue[n] = None /\ issue'[n] # None => ~Claimed(n)' /\ Stored(n)'
           /\ issue[n] # None => issue'[n] # None
           /\ issue[n] # None /\ ~Claimed(n) /\ Claimed(n)' => Stored(n)
           /\ Claimed(n) /\ ~Claimed(n)' => ~Stored(n)'
           /\ issue[n] # None /\ ~Claimed(n) /\ Stored(n)' => Stored(n)
  PROVE  OTN!Next
<1>1. ASSUME NEW n \in Nonce
      PROVE  /\ State(n)' \in {"fresh", "outstanding", "claimed", "spent"}
             /\ State(n)' \in {State(n)} \cup OTN!Successors(State(n))
  <2>1. CASE issue[n] = None /\ issue'[n] = None
    BY <2>1, StateIs, StateIsNext
  <2>2. CASE issue[n] = None /\ issue'[n] # None
    BY <2>2, StateIs, StateIsNext DEF OTN!Successors
  <2>3. CASE issue[n] # None /\ issue'[n] # None /\ Claimed(n)
    BY <2>3, StateIs, StateIsNext DEF OTN!Successors
  <2>4. CASE issue[n] # None /\ issue'[n] # None /\ ~Claimed(n) /\ Stored(n)
    BY <2>4, StateIs, StateIsNext DEF OTN!Successors
  <2>5. CASE issue[n] # None /\ issue'[n] # None /\ ~Claimed(n) /\ ~Stored(n)
    BY <2>5, StateIs, StateIsNext DEF OTN!Successors
  <2> QED
    BY <2>1, <2>2, <2>3, <2>4, <2>5
<1>2. \A n \in Nonce : NonceStates[n] = State(n) /\ NonceStates'[n] = State(n)'
  BY DEF NonceStates
<1>3. NonceStates' \in [Nonce -> {"fresh", "outstanding", "claimed", "spent"}]
  BY <1>1 DEF NonceStates
<1>4. \A n \in Nonce :
        NonceStates'[n] \in {NonceStates[n]} \cup OTN!Successors(NonceStates[n])
  BY <1>1, <1>2
<1>5. UNCHANGED NonceUses
  BY DEF NonceUses
<1>6. OTN!Advance
  BY <1>3, <1>4, <1>5 DEF OTN!Advance
<1> QED
  BY <1>6 DEF OTN!Next

\* A nonce is only ever stored for the connection it was issued to.
LEMMA StoredWhereIssued ==
  ASSUME IndInv, NEW s \in Session, challenges[s] # None
  PROVE  /\ challenges[s].nonce \in Nonce
         /\ issue[challenges[s].nonce] # None
         /\ issue[challenges[s].nonce].to = s
<1>1. challenges[s] \in Entry
  BY DEF IndInv, TypeOK
<1>2. issue[challenges[s].nonce] = [to |-> s, at |-> challenges[s].createdAt]
  BY DEF IndInv, StoredInv
<1>3. [to |-> s, at |-> challenges[s].createdAt] \in Issue
  BY <1>1 DEF Entry, Issue
<1> QED
  BY <1>1, <1>2, <1>3, CVAssumption DEF Entry

\* A request that has matched its nonce is of the connection that the nonce
\* was issued to.
LEMMA ClaimedWhereIssued ==
  ASSUME IndInv, NEW h \in Handler, pc[h] \in {"delete", "complete"}
  PROVE  /\ coz[h].nonce \in Nonce /\ issue[coz[h].nonce] # None
         /\ issue[coz[h].nonce].to = RemoteAddr[h]
<1>1. coz[h] \in VerifyRequest
  BY DEF IndInv, TypeOK
<1> QED
  BY <1>1 DEF IndInv, RequestInv, MatchedInv, Owns, VerifyRequest

LEMMA HandleChallengeRefines ==
  ASSUME IndInv, NEW h \in Handler, HandleChallenge(h)
  PROVE  OTN!Next
<1>1. PICK n \in Nonce :
        /\ issue[n] = None
        /\ issue' = [issue EXCEPT ![n] = [to |-> RemoteAddr[h], at |-> clock]]
        /\ challenges' = [challenges EXCEPT ![RemoteAddr[h]] =
                            [nonce |-> n, createdAt |-> clock]]
  BY DEF HandleChallenge
<1>2. UNCHANGED <<pc, coz, accepted>>
  BY DEF HandleChallenge
<1>3. /\ [to |-> RemoteAddr[h], at |-> clock] # None
      /\ [nonce |-> n, createdAt |-> clock] # None
      /\ RemoteAddr[h] \in Session
  <2>1. RemoteAddr[h] \in Session /\ clock \in Time
    BY CVAssumption DEF IndInv, TypeOK
  <2>2. /\ [to |-> RemoteAddr[h], at |-> clock] \in Issue
        /\ [nonce |-> n, createdAt |-> clock] \in Entry
    BY <2>1 DEF Issue, Entry
  <2> QED
    BY <2>1, <2>2, CVAssumption
<1>4. \A m \in Nonce : Claimed(m)' = Claimed(m)
  BY <1>2 DEF Claimed
<1>5. ~Claimed(n)
  BY <1>1, ClaimedWhereIssued DEF Claimed
<1>6. /\ issue'[n] # None
      /\ \A m \in Nonce \ {n} : issue'[m] = issue[m]
  BY <1>1, <1>3 DEF IndInv, TypeOK
<1>7. /\ challenges'[RemoteAddr[h]] # None /\ challenges'[RemoteAddr[h]].nonce = n
      /\ \A s \in Session \ {RemoteAddr[h]} : challenges'[s] = challenges[s]
  BY <1>1, <1>3 DEF IndInv, TypeOK
<1>8. Stored(n)'
  BY <1>3, <1>7 DEF Stored
<1>9. \A m \in Nonce \ {n} : Stored(m)' => Stored(m)
  BY <1>7 DEF Stored
<1> QED
  BY <1>1, <1>2, <1>4, <1>5, <1>6, <1>8, <1>9, AdvanceRefines

\* A request that comes, and one that Get turns away, move no nonce but the
\* expired one.
LEMMA TurnedAwayRefines ==
  ASSUME IndInv, NEW h \in Handler,
         ReceiveVerify(h) \/ GetMissing(h) \/ GetMismatch(h)
  PROVE  OTN!Next
<1>1. /\ UNCHANGED <<issue, accepted>>
      /\ pc[h] \in {"idle", "get"} /\ pc'[h] \in {"idle", "get"}
      /\ \A g \in Handler \ {h} : pc'[g] = pc[g] /\ coz'[g] = coz[g]
      /\ \A s \in Session : challenges'[s] \in {challenges[s], None}
  BY DEF ReceiveVerify, GetMissing, GetMismatch, Return, IndInv, TypeOK
<1>2. \A m \in Nonce : Claimed(m)' = Claimed(m)
  BY <1>1 DEF Claimed
<1>3. \A m \in Nonce : Stored(m)' => Stored(m)
  BY <1>1 DEF Stored
<1> QED
  BY <1>1, <1>2, <1>3, AdvanceRefines

\* A match claims a nonce that is stored.
LEMMA GetMatchRefines ==
  ASSUME IndInv, NEW h \in Handler, GetMatch(h)
  PROVE  OTN!Next
<1>1. /\ UNCHANGED <<issue, accepted, challenges, coz>>
      /\ pc[h] = "get" /\ pc'[h] = "delete"
      /\ \A g \in Handler \ {h} : pc'[g] = pc[g]
      /\ RemoteAddr[h] \in Session /\ challenges[RemoteAddr[h]] # None
      /\ challenges[RemoteAddr[h]].nonce = coz[h].nonce
  BY CVAssumption DEF GetMatch, Found, IndInv, TypeOK
<1>2. \A m \in Nonce : Claimed(m)' <=> Claimed(m) \/ m = coz[h].nonce
  BY <1>1 DEF Claimed
<1>3. \A m \in Nonce : Stored(m)' = Stored(m)
  BY <1>1 DEF Stored
<1>4. Stored(coz[h].nonce)
  BY <1>1 DEF Stored
<1> QED
  BY <1>1, <1>2, <1>3, <1>4, AdvanceRefines

\* The deletion leaves the nonce claimed, or voids it: it is stored nowhere.
LEMMA VerifyDeleteRefines ==
  ASSUME IndInv, NEW h \in Handler, VerifyDelete(h)
  PROVE  OTN!Next
<1> DEFINE n == coz[h].nonce
<1>1. /\ UNCHANGED <<issue, accepted>>
      /\ pc[h] = "delete"
      /\ \/ pc'[h] = "complete" /\ coz'[h] = coz[h]
         \/ pc'[h] = "idle"
      /\ \A g \in Handler \ {h} : pc'[g] = pc[g] /\ coz'[g] = coz[g]
      /\ \A s \in Session \ {RemoteAddr[h]} : challenges'[s] = challenges[s]
      /\ RemoteAddr[h] \in Session /\ challenges'[RemoteAddr[h]] = None
  BY CVAssumption DEF VerifyDelete, Return, IndInv, TypeOK
<1>2. n \in Nonce /\ issue[n] # None /\ issue[n].to = RemoteAddr[h]
  BY <1>1, ClaimedWhereIssued
<1>3. \A m \in Nonce : Claimed(m)' => Claimed(m)
  BY <1>1 DEF Claimed
<1>4. \A m \in Nonce : Claimed(m) /\ m # n => Claimed(m)'
  BY <1>1 DEF Claimed
<1>5. \A m \in Nonce : Stored(m)' => Stored(m)
  BY <1>1 DEF Stored
<1>6. ASSUME NEW m \in Nonce, m = n
      PROVE  ~Stored(m)'
  <2>1. ASSUME NEW s \in Session, challenges'[s] # None, challenges'[s].nonce = m
        PROVE  FALSE
    <3>1. s # RemoteAddr[h] /\ challenges[s] # None /\ challenges[s].nonce = m
      BY <1>1, <2>1
    <3> QED
      BY <1>2, <1>6, <3>1, StoredWhereIssued
  <2> QED
    BY <2>1 DEF Stored
<1> HIDE DEF n
<1> QED
  BY <1>1, <1>3, <1>4, <1>5, <1>6, AdvanceRefines

\* The answer redeems the nonce, which nobody else holds or stores.
LEMMA VerifyCompleteRefines ==
  ASSUME IndInv, NEW h \in Handler, VerifyComplete(h)
  PROVE  OTN!Next
<1>1. /\ UNCHANGED <<issue, challenges>>
      /\ pc[h] = "complete" /\ pc'[h] = "idle"
      /\ \A g \in Handler \ {h} : pc'[g] = pc[g] /\ coz'[g] = coz[g]
  BY DEF VerifyComplete, Return, IndInv, TypeOK
<1>2. PICK n \in Nonce : n = coz[h].nonce
  BY <1>1, ClaimedWhereIssued
<1>3. issue[n] # None /\ issue[n].to = RemoteAddr[h]
  BY <1>1, <1>2, ClaimedWhereIssued
<1>4. accepted[n] = <<>> /\ challenges[RemoteAddr[h]] = None
  BY <1>1, <1>2 DEF IndInv, MatchedInv, Owns
<1>5. Claimed(n)
  BY <1>1, <1>2 DEF Claimed
<1>6. ~Claimed(n)'
  <2> SUFFICES ASSUME NEW g \in Handler, pc'[g] \in {"delete", "complete"},
                      coz'[g].nonce = n
               PROVE  FALSE
    BY DEF Claimed
  <2>1. g # h /\ pc[g] \in {"delete", "complete"} /\ coz[g].nonce = n
    BY <1>1
  <2> QED
    BY <1>3, <2>1, ClaimedWhereIssued, CVAssumption
<1>7. ~Stored(n)'
  BY <1>1, <1>3, <1>4, StoredWhereIssued DEF Stored
<1>8. \A m \in Nonce \ {n} : Claimed(m)' = Claimed(m) /\ Stored(m)' = Stored(m)
  BY <1>1, <1>2 DEF Claimed, Stored
<1>9. \A m \in Nonce \ {n} : State(m)' = State(m)
  BY <1>1, <1>8 DEF State
<1>10. State(n) = "claimed" /\ State(n)' = "spent"
  BY <1>1, <1>3, <1>5, <1>6, <1>7, StateIs, StateIsNext
<1>11. /\ NonceStates[n] = "claimed"
       /\ NonceStates' = [NonceStates EXCEPT ![n] = "spent"]
  BY <1>9, <1>10 DEF NonceStates
<1>12. /\ Len(accepted'[n]) = 1
       /\ \A m \in Nonce \ {n} : accepted'[m] = accepted[m]
  <2> DEFINE a == [session |-> RemoteAddr[h], tmb |-> coz[h].tmb,
                   now |-> coz[h].now, signer |-> coz[h].signer,
                   req |-> coz[h].req]
  <2>1. accepted' = [accepted EXCEPT ![n] = Append(<<>>, a)]
    BY <1>2, <1>4 DEF VerifyComplete
  <2> HIDE DEF a
  <2>2. Len(Append(<<>>, a)) = 1
    OBVIOUS
  <2> QED
    BY <2>1, <2>2 DEF IndInv, TypeOK
<1>13. NonceUses' = [NonceUses EXCEPT ![n] = 1]
  BY <1>12 DEF NonceUses
<1>14. OTN!Redeem(n)
  BY <1>11, <1>13 DEF OTN!Redeem
<1> QED
  BY <1>14 DEF OTN!Next

LEMMA RestartRefines ==
  ASSUME Restart
  PROVE  OTN!Next
<1>1. /\ UNCHANGED <<issue, accepted>>
      /\ \A h \in Handler : pc'[h] = "idle"
      /\ \A s \in Session : challenges'[s] = None
  BY DEF Restart
<1>2. \A n \in Nonce : ~Claimed(n)' /\ ~Stored(n)'
  BY <1>1 DEF Claimed, Stored
<1> QED
  BY <1>1, <1>2, AdvanceRefines

\* The challenge store and its handlers implement the one-time nonce.
THEOREM OneTimeNonceHolds == Spec => OneTimeNonceSpec
<1>1. Init => OTN!Init
  BY InitRefines
<1>2. IndInv /\ [Next]_vars => [OTN!Next]_OTN!vars
  <2> SUFFICES ASSUME IndInv, [Next]_vars PROVE [OTN!Next]_OTN!vars
    OBVIOUS
  <2>1. ASSUME UNCHANGED <<issue, pc, coz, challenges, accepted>>
        PROVE  UNCHANGED OTN!vars
    <3>1. \A n \in Nonce : State(n)' = State(n)
      BY <2>1 DEF State, Claimed, Stored
    <3>2. UNCHANGED <<NonceStates, NonceUses>>
      BY <2>1, <3>1 DEF NonceStates, NonceUses
    <3> QED
      BY <3>2 DEF OTN!vars
  <2>2. CASE Tick \/ UNCHANGED vars
    BY <2>1, <2>2 DEF Tick, vars
  <2>3. CASE Next /\ ~Tick
    BY <2>3, HandleChallengeRefines, TurnedAwayRefines, GetMatchRefines,
       VerifyDeleteRefines, VerifyCompleteRefines, RestartRefines
       DEF Next, VerifyStep
  <2> QED
    BY <2>2, <2>3
<1> QED
  BY <1>1, <1>2, Invariance, PTL DEF Spec, OneTimeNonceSpec, OTN!Spec
=============================================================================
