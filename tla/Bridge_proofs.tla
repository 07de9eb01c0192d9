---------------------------- MODULE Bridge_proofs ----------------------------
(***************************************************************************)
(* Proofs about the bridge, for any number of connections, nonces, users,  *)
(* requests, codes and exchanges: each part behaves, in the composition,   *)
(* like the part alone, whose theorems then hold of the bridge; and a      *)
(* token's subject has proved itself, for the request the token was issued *)
(* for unless a hint named it.                                             *)
(***************************************************************************)
EXTENDS Bridge, FiniteSetTheorems, SequenceTheorems, TLAPS

\* The parts, with what is proved of each.
CVP == INSTANCE ChallengeVerify_proofs
AFP == INSTANCE AuthFlow_proofs

-----------------------------------------------------------------------------
(***************************************************************************)
(* The assumptions of the parts, and their definitions.                    *)
(***************************************************************************)

LEMMA CVAssumed == CVP!CVAssumption
  BY BridgeAssumption
     DEF CVP!CVAssumption, CVP!Entry, CVP!VerifyRequest, CVP!Issue, CVP!Time,
         CV!Entry, CV!VerifyRequest, CV!Issue, CV!Time

LEMMA AFAssumed == AFP!AFAssumption
  BY BridgeAssumption
     DEF AFP!AFAssumption, AFP!AuthRequest, AFP!Email, AF!AuthRequest, AF!Email,
         Subject, EmailOf

LEMMA SameChecks ==
  /\ CV!Users = CVP!Users
  /\ CV!VerifyRequest = CVP!VerifyRequest
  /\ \A c : (CV!Timely(c) <=> CVP!Timely(c))
  /\ \A c : (CV!SignedByUser(c) <=> CVP!SignedByUser(c))
  /\ \A s : (CV!Found(s) <=> CVP!Found(s))
  /\ \A h : (CV!Return(h) <=> CVP!Return(h))
BY DEF CV!Users, CVP!Users, CV!VerifyRequest, CVP!VerifyRequest, CV!Timely, CVP!Timely, CV!SignedByUser, CVP!SignedByUser,
       CV!Found, CVP!Found, CV!Expired, CVP!Expired, CV!Return, CVP!Return

LEMMA SameVerification ==
  /\ CV!Init => CVP!Init
  /\ [CV!Next]_CV!vars => [CVP!Next]_CVP!vars
<1>1. CV!Init => CVP!Init
  BY DEF CV!Init, CVP!Init
<1>2. ASSUME NEW h \in Handler, CV!HandleChallenge(h) PROVE CVP!HandleChallenge(h)
  BY <1>2 DEF CV!HandleChallenge, CVP!HandleChallenge
<1>3. ASSUME NEW h \in Handler, CV!ReceiveVerify(h) PROVE CVP!ReceiveVerify(h)
  BY <1>3, SameChecks DEF CV!ReceiveVerify, CVP!ReceiveVerify
<1>4. ASSUME NEW h \in Handler, CV!VerifyStep(h) PROVE CVP!VerifyStep(h)
  BY <1>4, SameChecks
     DEF CV!VerifyStep, CV!GetMissing, CV!GetMismatch, CV!GetMatch,
         CV!VerifyDelete, CV!VerifyComplete,
         CVP!VerifyStep, CVP!GetMissing, CVP!GetMismatch, CVP!GetMatch,
         CVP!VerifyDelete, CVP!VerifyComplete
<1>5. CV!Tick => CVP!Tick
  BY DEF CV!Tick, CVP!Tick
<1>6. CV!Restart => CVP!Restart
  BY DEF CV!Restart, CVP!Restart
<1>7. UNCHANGED CV!vars => UNCHANGED CVP!vars
  BY DEF CV!vars, CVP!vars
<1>8. QED
  BY <1>1, <1>2, <1>3, <1>4, <1>5, <1>6, <1>7 DEF CV!Next, CVP!Next

LEMMA SameFlow ==
  /\ AF!Init => AFP!Init
  /\ [AF!Next]_AF!vars => [AFP!Next]_AFP!vars
<1>1. AF!Init => AFP!Init
  BY DEF AF!Init, AFP!Init, AF!Without, AFP!Without
<1>2. \A r \in ReqID :
        /\ \A u \in Subject \cup {None} :
             AF!CreateAuthRequest(r, u) => AFP!CreateAuthRequest(r, u)
        /\ \A s \in Subject :
             AF!CompleteAuthRequest(r, s) => AFP!CompleteAuthRequest(r, s)
  BY DEF AF!CreateAuthRequest, AFP!CreateAuthRequest,
         AF!HintSubjects, AFP!HintSubjects, AF!CompleteAuthRequest, AFP!CompleteAuthRequest
<1>3. \A c \in Code :
        /\ AF!CallbackLookup(c) => AFP!CallbackLookup(c)
        /\ AF!SaveAuthCode(c) => AFP!SaveAuthCode(c)
  BY DEF AF!CallbackLookup, AFP!CallbackLookup, AF!SaveAuthCode, AFP!SaveAuthCode
<1>4. \A e \in Exchange :
        /\ AF!PresentCode(e) => AFP!PresentCode(e)
        /\ AF!ShowSubject(e) => AFP!ShowSubject(e)
        /\ AF!RequestByID(e) => AFP!RequestByID(e)
  BY DEF AF!PresentCode, AFP!PresentCode, AF!ShowSubject, AFP!ShowSubject,
         AF!RequestByID, AFP!RequestByID, AF!Without, AFP!Without
<1>5. \A e \in Exchange :
        /\ AF!ReadEmail(e) => AFP!ReadEmail(e)
        /\ AF!CreateAccessToken(e) => AFP!CreateAccessToken(e)
        /\ AF!SetUserinfoFromScopes(e) => AFP!SetUserinfoFromScopes(e)
        /\ AF!SetUserinfoFromRequest(e) => AFP!SetUserinfoFromRequest(e)
        /\ AF!DeleteAuthRequest(e) => AFP!DeleteAuthRequest(e)
  BY DEF AF!ReadEmail, AFP!ReadEmail, AF!CreateAccessToken, AFP!CreateAccessToken,
         AF!SetUserinfoFromScopes, AFP!SetUserinfoFromScopes,
         AF!EmailsOfSubject, AFP!EmailsOfSubject,
         AF!SetUserinfoFromRequest, AFP!SetUserinfoFromRequest,
         AF!DeleteAuthRequest, AFP!DeleteAuthRequest
<1>6. AF!Restart => AFP!Restart
  BY DEF AF!Restart, AFP!Restart, AF!Ended, AFP!Ended, AF!Without, AFP!Without
<1>7. UNCHANGED AF!vars => UNCHANGED AFP!vars
  BY DEF AF!vars, AFP!vars
<1>8. ASSUME NEW e \in Exchange, AF!ExchangeStep(e) PROVE AFP!ExchangeStep(e)
  BY <1>4, <1>5, <1>8 DEF AF!ExchangeStep, AFP!ExchangeStep
<1>9. AF!Next => AFP!Next
  BY <1>2, <1>3, <1>4, <1>6, <1>8 DEF AF!Next, AFP!Next
<1>10. QED
  BY <1>1, <1>7, <1>9

-----------------------------------------------------------------------------
(***************************************************************************)
(* Each part takes its own steps, or none.                                 *)
(***************************************************************************)

\* A step of the bridge is one of the handlers and their store, or none.
LEMMA VerificationSteps == [Next]_vars => [CV!Next]_CV!vars
<1> SUFFICES ASSUME [Next]_vars PROVE [CV!Next]_CV!vars
  OBVIOUS
<1>1. ASSUME NEW h \in Handler, ReceiveVerify(h) PROVE CV!Next
  BY <1>1 DEF ReceiveVerify, CV!Next
<1>2. ASSUME NEW h \in Handler, ChallengeStep(h) PROVE CV!Next
  BY <1>2 DEF ChallengeStep, CV!Next, CV!VerifyStep
<1>3. ASSUME NEW h \in Handler, VerifyDelete(h) PROVE CV!Next
  BY <1>3 DEF VerifyDelete, CV!Next, CV!VerifyStep
<1>4. ASSUME NEW h \in Handler, VerifyComplete(h) PROVE CV!Next
  BY <1>4 DEF VerifyComplete, CV!Next, CV!VerifyStep
<1>5. Tick \/ Restart => CV!Next
  BY DEF Tick, Restart, CV!Next
<1>6. FlowStep => UNCHANGED CV!vars
  BY DEF FlowStep, challengeVars, CV!vars, AF!CreateAuthRequest, AF!CallbackLookup,
         AF!SaveAuthCode, AF!PresentCode, AF!ShowSubject, AF!ExchangeStep,
         AF!RequestByID, AF!ReadEmail, AF!CreateAccessToken,
         AF!SetUserinfoFromScopes, AF!SetUserinfoFromRequest, AF!DeleteAuthRequest
<1>7. UNCHANGED vars => UNCHANGED CV!vars
  BY DEF vars, challengeVars, CV!vars
<1>8. QED
  BY <1>1, <1>2, <1>3, <1>4, <1>5, <1>6, <1>7 DEF Next

\* The request of a handler that has checked the signature is of a user, who
\* signed it with the registered key.
LEMMA CompletesUser ==
  ASSUME CVP!IndInv, NEW h \in Handler, CV!VerifyComplete(h)
  PROVE  /\ coz[h].tmb \in Subject /\ coz[h].nonce \in Nonce
         /\ coz[h].signer = CV!Users[coz[h].tmb].key
<1>1. pc[h] = "complete"
  BY DEF CV!VerifyComplete
<1>2. CVP!Owns(h) /\ coz[h] \in CVP!VerifyRequest
  BY <1>1 DEF CVP!IndInv, CVP!TypeOK, CVP!MatchedInv
<1>3. CV!SignedByUser(coz[h])
  BY <1>1, <1>2, SameChecks DEF CVP!Owns
<1>4. QED
  BY <1>2, <1>3 DEF CV!SignedByUser, CVP!VerifyRequest, Subject

\* A step of the bridge is one of the authorization-code flow, or none: what
\* completes a request is a user's thumbprint.
LEMMA FlowSteps == CVP!IndInv /\ AFP!IndInv /\ [Next]_vars => [AF!Next]_AF!vars
<1> SUFFICES ASSUME CVP!IndInv, AFP!IndInv, [Next]_vars PROVE [AF!Next]_AF!vars
  OBVIOUS
<1>1. UNCHANGED <<flowVars, restarts>> => UNCHANGED AF!vars
  BY DEF flowVars, AF!vars
<1>2. ASSUME NEW h \in Handler,
             ReceiveVerify(h) \/ ChallengeStep(h) \/ VerifyDelete(h)
      PROVE  UNCHANGED AF!vars
  BY <1>1, <1>2 DEF ReceiveVerify, ChallengeStep, VerifyDelete, CV!ReceiveVerify,
       CV!HandleChallenge, CV!GetMissing, CV!GetMismatch, CV!GetMatch, CV!VerifyDelete
<1>3. ASSUME NEW h \in Handler, VerifyComplete(h) PROVE [AF!Next]_AF!vars
  <2>1. CV!VerifyComplete(h) /\ UNCHANGED restarts
    BY <1>3 DEF VerifyComplete, CV!VerifyComplete
  <2>2. CASE coz[h].req \in stored
    <3>1. AF!CompleteAuthRequest(coz[h].req, coz[h].tmb)
      BY <1>3, <2>2 DEF VerifyComplete
    <3>2. coz[h].req \in ReqID /\ coz[h].tmb \in Subject
      BY <2>1, <2>2, CompletesUser DEF AFP!IndInv, AFP!TypeOK
    <3>3. QED
      BY <3>1, <3>2 DEF AF!Next
  <2>3. CASE coz[h].req \notin stored
    BY <1>1, <1>3, <2>1, <2>3 DEF VerifyComplete
  <2>4. QED
    BY <2>2, <2>3
<1>4. Tick => UNCHANGED AF!vars
  BY <1>1 DEF Tick, CV!Tick
<1>5. FlowStep => AF!Next
  BY DEF FlowStep, AF!Next
<1>6. Restart => AF!Next
  BY DEF Restart, AF!Next
<1>7. UNCHANGED vars => UNCHANGED AF!vars
  BY <1>1 DEF vars
<1>8. QED
  BY <1>2, <1>3, <1>4, <1>5, <1>6, <1>7 DEF Next

\* What is proved of the parts holds of the bridge.
THEOREM PartsInvariance == Spec => [](CVP!IndInv /\ AFP!IndInv)
<1>1. CV!Spec => []CVP!IndInv
  BY SameVerification, CVAssumed, CVP!Invariance, PTL DEF CV!Spec, CVP!Spec
<1>2. Spec => CV!Spec
  <2>1. Init => CV!Init
    BY DEF Init
  <2>2. QED
    BY <2>1, VerificationSteps, PTL DEF Spec, CV!Spec
<1>3. Init => AFP!IndInv
  BY SameFlow, AFAssumed, AFP!InitInv DEF Init
<1>4. CVP!IndInv /\ AFP!IndInv /\ [Next]_vars => AFP!IndInv'
  BY FlowSteps, SameFlow, AFAssumed, AFP!NextInv
<1>5. QED
  BY <1>1, <1>2, <1>3, <1>4, PTL DEF Spec

\* Each part behaves like the part alone.
THEOREM PartsKeptHolds == Spec => PartsKept
<1>1. Init => CV!Init /\ AF!Init
  BY DEF Init
<1>2. QED
  BY <1>1, VerificationSteps, FlowSteps, PartsInvariance, PTL
     DEF Spec, PartsKept, CV!Spec, AF!Spec

-----------------------------------------------------------------------------
(***************************************************************************)
(* What the two histories have in common: whoever completed a request      *)
(* proved itself for it, and finitely many nonces were used so far.        *)
(***************************************************************************)

Used == {n \in Nonce : accepted[n] # <<>>}

ProvedInv ==
  /\ \A r \in ReqID : \A s \in verified[r] : Proved(s, r)
  /\ IsFiniteSet(Used)

\* What is accepted stays accepted.
LEMMA ProvedStays ==
  ASSUME NEW s, NEW r, Proved(s, r), NEW n, NEW a,
         CVP!TypeOK, n \in Nonce,
         accepted' = [accepted EXCEPT ![n] = Append(accepted[n], a)]
  PROVE  Proved(s, r)'
<1>1. PICK m \in Nonce : \E i \in DOMAIN accepted[m] :
        /\ accepted[m][i].tmb = s /\ accepted[m][i].req = r
        /\ accepted[m][i].signer = CV!Users[s].key
  BY DEF Proved
<1>2. PICK i \in DOMAIN accepted[m] :
        /\ accepted[m][i].tmb = s /\ accepted[m][i].req = r
        /\ accepted[m][i].signer = CV!Users[s].key
  BY <1>1
<1>3. accepted[n] \in Seq(CVP!Acceptance)
  BY DEF CVP!TypeOK
<1>4. /\ DOMAIN accepted[n] \subseteq DOMAIN Append(accepted[n], a)
      /\ \A j \in DOMAIN accepted[n] : Append(accepted[n], a)[j] = accepted[n][j]
  BY <1>3
<1>5. i \in DOMAIN accepted'[m] /\ accepted'[m][i] = accepted[m][i]
  BY <1>4 DEF CVP!TypeOK
<1>6. QED
  BY <1>2, <1>5 DEF Proved, CV!Users

LEMMA VerifyCompleteProves ==
  ASSUME CVP!IndInv, AFP!IndInv, ProvedInv, NEW h \in Handler, VerifyComplete(h)
  PROVE  ProvedInv'
<1> DEFINE c == coz[h]
           a == [session |-> RemoteAddr[h], tmb |-> c.tmb, now |-> c.now,
                 signer |-> c.signer, req |-> c.req]
<1>1. PICK n : n = c.nonce
  OBVIOUS
<1>2. PICK s : s = c.tmb
  OBVIOUS
<1>3. PICK r : r = c.req
  OBVIOUS
<1>4. /\ accepted' = [accepted EXCEPT ![n] = Append(accepted[n], a)]
      /\ a.tmb = s /\ a.req = r /\ a.signer = c.signer
  BY <1>1, <1>2, <1>3 DEF VerifyComplete, CV!VerifyComplete
<1> HIDE DEF a
<1>5. n \in Nonce /\ a.signer = CV!Users[s].key
  BY <1>1, <1>2, <1>4, CompletesUser DEF VerifyComplete
<1>6. CVP!TypeOK /\ accepted[n] \in Seq(CVP!Acceptance)
  BY <1>5 DEF CVP!IndInv, CVP!TypeOK
<1>7. accepted'[n] = Append(accepted[n], a)
  BY <1>4, <1>5 DEF CVP!IndInv, CVP!TypeOK
<1>8. Proved(s, r)'
  <2>1. PICK i : i = Len(accepted[n]) + 1
    OBVIOUS
  <2>2. i \in DOMAIN accepted'[n] /\ accepted'[n][i] = a
    BY <1>6, <1>7, <2>1
  <2>3. QED
    BY <1>4, <1>5, <2>2 DEF Proved, CV!Users
<1>9. \A q \in ReqID : verified'[q] = IF q = r /\ r \in stored
                                       THEN verified[q] \cup {s} ELSE verified[q]
  <2>1. CASE r \in stored
    BY <1>2, <1>3, <2>1 DEF VerifyComplete, AF!CompleteAuthRequest, AFP!IndInv, AFP!TypeOK
  <2>2. CASE r \notin stored
    BY <1>3, <2>2 DEF VerifyComplete, flowVars
  <2>3. QED
    BY <2>1, <2>2
<1>10. ASSUME NEW q \in ReqID, NEW t \in verified'[q] PROVE Proved(t, q)'
  <2>1. CASE t \in verified[q]
    BY <1>4, <1>5, <1>6, <2>1, ProvedStays DEF ProvedInv
  <2>2. CASE t \notin verified[q]
    BY <1>8, <1>9, <2>2
  <2>3. QED
    BY <2>1, <2>2
<1>11. IsFiniteSet(Used)'
  <2>1. Used' = Used \cup {n}
    <3>1. Append(accepted[n], a) # <<>>
      BY <1>6
    <3>2. \A m \in Nonce \ {n} : accepted'[m] = accepted[m]
      BY <1>4, <1>5 DEF CVP!IndInv, CVP!TypeOK
    <3>3. QED
      BY <1>5, <1>7, <3>1, <3>2 DEF Used
  <2>2. IsFiniteSet(Used \cup {n})
    BY FS_AddElement DEF ProvedInv
  <2>3. QED
    BY <2>1, <2>2
<1>12. QED
  BY <1>10, <1>11 DEF ProvedInv

\* No other step touches both histories.
LEMMA OthersProve ==
  ASSUME ProvedInv, UNCHANGED <<accepted, verified>>
  PROVE  ProvedInv'
<1>1. accepted' = accepted /\ verified' = verified
  OBVIOUS
<1>2. Used' = Used
  BY <1>1 DEF Used
<1>3. ASSUME NEW s, NEW r, Proved(s, r) PROVE Proved(s, r)'
  BY <1>1, <1>3 DEF Proved, CV!Users
<1>4. QED
  BY <1>1, <1>2, <1>3 DEF ProvedInv

THEOREM BridgeInvariance == Spec => []ProvedInv
<1>1. Init => ProvedInv
  <2> SUFFICES ASSUME Init PROVE ProvedInv
    OBVIOUS
  <2>1. /\ \A n \in Nonce : accepted[n] = <<>>
        /\ \A r \in ReqID : verified[r] = {}
    BY DEF Init, CV!Init, AF!Init
  <2>2. Used = {}
    BY <2>1 DEF Used
  <2>3. QED
    BY <2>1, <2>2, FS_EmptySet DEF ProvedInv
<1>2. CVP!IndInv /\ AFP!IndInv /\ ProvedInv /\ [Next]_vars => ProvedInv'
  <2> SUFFICES ASSUME CVP!IndInv, AFP!IndInv, ProvedInv, [Next]_vars PROVE ProvedInv'
    OBVIOUS
  <2>1. ASSUME NEW h \in Handler,
               ReceiveVerify(h) \/ ChallengeStep(h) \/ VerifyDelete(h)
        PROVE  ProvedInv'
    BY <2>1, OthersProve
       DEF ReceiveVerify, ChallengeStep, VerifyDelete, flowVars, CV!ReceiveVerify,
           CV!HandleChallenge, CV!GetMissing, CV!GetMismatch, CV!GetMatch,
           CV!VerifyDelete
  <2>2. ASSUME NEW h \in Handler, VerifyComplete(h) PROVE ProvedInv'
    BY <2>2, VerifyCompleteProves
  <2>3. Tick \/ Restart => ProvedInv'
    BY OthersProve DEF Tick, Restart, CV!Tick, CV!Restart, AF!Restart, flowVars
  <2>4. FlowStep => ProvedInv'
    BY OthersProve
       DEF FlowStep, challengeVars, AF!CreateAuthRequest, AF!CallbackLookup,
           AF!SaveAuthCode, AF!PresentCode, AF!ShowSubject, AF!ExchangeStep,
           AF!RequestByID, AF!ReadEmail, AF!CreateAccessToken,
           AF!SetUserinfoFromScopes, AF!SetUserinfoFromRequest, AF!DeleteAuthRequest
  <2>5. UNCHANGED vars => ProvedInv'
    BY OthersProve DEF vars, challengeVars, flowVars
  <2>6. QED
    BY <2>1, <2>2, <2>3, <2>4, <2>5 DEF Next
<1>3. QED
  BY <1>1, <1>2, PartsInvariance, PTL DEF Spec

\* A subject that a token names proved itself for the token's request; or it
\* was only hinted at, is named without an email, and proved itself for
\* another request.
THEOREM TokenSubjectProvedHolds == Spec => []TokenSubjectProved
<1>1. AFP!IndInv /\ ProvedInv => TokenSubjectProved
  <2> SUFFICES ASSUME AFP!IndInv, ProvedInv, NEW e \in Exchange,
                      exchange[e].access # None, exchange[e].access.sub # None,
                      ~Proved(exchange[e].access.sub, exchange[e].req)
               PROVE  LET x == exchange[e]
                      IN  /\ ~x.early
                          /\ x.access = [sub |-> hint[x.req], email |-> None]
                          /\ \E r \in ReqID \ {x.req} : Proved(x.access.sub, r)
    BY DEF TokenSubjectProved
  <2> DEFINE x == exchange[e]
  <2>1. AFP!PointerOK(e) /\ AFP!ClaimsOK(e)
    BY DEF AFP!IndInv, AFP!ExchangeInv
  <2>2. x.pc \in AFP!Granted
    BY <2>1 DEF AFP!ClaimsOK
  <2>3. x.req \in ReqID
    BY <2>1, <2>2 DEF AFP!PointerOK, AFP!Granted, AFP!Begun
  <2>4. x.access.sub \notin verified[x.req]
    BY <2>3 DEF ProvedInv
  <2>5. /\ x.access \in AFP!Claims /\ x.access.sub = hint[x.req]
        /\ x.access.email = None /\ ~x.early
    BY <2>1, <2>2, <2>4 DEF AFP!ClaimsOK, AFP!About
  <2>6. x.access = [sub |-> hint[x.req], email |-> None]
    BY <2>5 DEF AFP!Claims
  <2>7. PICK q \in ReqID \ {x.req} : hint[x.req] \in verified[q]
    BY <2>3, <2>5 DEF AFP!IndInv, AFP!RequestNamesUser
  <2>8. Proved(x.access.sub, q)
    BY <2>5, <2>7 DEF ProvedInv
  <2>9. QED
    BY <2>5, <2>6, <2>7, <2>8
<1>2. QED
  BY <1>1, PartsInvariance, BridgeInvariance, PTL

\* One answer to one challenge never completes two requests: a completion is
\* proved by a nonce, and a nonce, used once, proves one completion.
THEOREM CompletionsNeedNoncesHolds == Spec => []CompletionsNeedNonces
<1>1. CVP!IndInv /\ ProvedInv => CompletionsNeedNonces
  <2> SUFFICES ASSUME CVP!IndInv, ProvedInv PROVE CompletionsNeedNonces
    OBVIOUS
  <2> DEFINE Done == {p \in ReqID \X Subject : p[2] \in verified[p[1]]}
             Proves(n, p) == \E i \in DOMAIN accepted[n] :
                               accepted[n][i].tmb = p[2] /\ accepted[n][i].req = p[1]
             f == [p \in Done |-> CHOOSE n \in Used : Proves(n, p)]
  <2>1. ASSUME NEW p \in Done PROVE \E n \in Used : Proves(n, p)
    <3>1. p[1] \in ReqID /\ p[2] \in verified[p[1]]
      OBVIOUS
    <3>2. PICK n \in Nonce : Proves(n, p)
      BY <3>1 DEF ProvedInv, Proved
    <3>3. accepted[n] # <<>>
      BY <3>2
    <3>4. QED
      BY <3>2, <3>3 DEF Used
  <2>2. ASSUME NEW p \in Done PROVE f[p] \in Used /\ Proves(f[p], p)
    BY <2>1
  <2>3. ASSUME NEW n \in Used, NEW p \in Done, NEW q \in Done,
               Proves(n, p), Proves(n, q)
        PROVE  p = q
    <3>1. PICK i \in DOMAIN accepted[n] :
            accepted[n][i].tmb = p[2] /\ accepted[n][i].req = p[1]
      BY <2>3
    <3>2. PICK j \in DOMAIN accepted[n] :
            accepted[n][j].tmb = q[2] /\ accepted[n][j].req = q[1]
      BY <2>3
    <3>3. accepted[n] \in Seq(CVP!Acceptance) /\ Len(accepted[n]) <= 1
      BY DEF Used, CVP!IndInv, CVP!TypeOK, CVP!NonceOnce
    <3>4. i = j
      BY <3>1, <3>2, <3>3
    <3>5. p[1] = q[1] /\ p[2] = q[2]
      BY <3>1, <3>2, <3>4
    <3>6. QED
      BY <3>5
  <2> HIDE DEF f, Done, Proves
  <2>4. f \in Injection(Done, Used)
    <3>1. f \in [Done -> Used]
      BY <2>2 DEF f
    <3>2. \A p, q \in Done : f[p] = f[q] => p = q
      BY <2>2, <2>3
    <3>3. QED
      BY <3>1, <3>2 DEF Injection, IsInjective
  <2>5. Cardinality(Done) <= Cardinality(Used)
    BY <2>4, FS_Injection DEF ProvedInv
  <2>6. QED
    BY <2>5 DEF CompletionsNeedNonces, Done, Used
<1>2. QED
  BY <1>1, PartsInvariance, BridgeInvariance, PTL
=============================================================================
