------------------------------- MODULE Bridge -------------------------------
(***************************************************************************)
(* The bridge: the challenge handlers and the authorization-code flow,     *)
(* composed.  They meet in two places.  A successful verification          *)
(* completes the auth request named by its query, and both components lose *)
(* their memory together when the process restarts.                        *)
(***************************************************************************)
EXTENDS Integers, Sequences, FiniteSets

CONSTANTS
  Handler, Session, RemoteAddr, Nonce, Tmb, Key, TestUsers, EnvUsers, Query,
  TTL, MaxDrift, MaxTime, Half, Stamp, MaxRestarts, None,  \* see ChallengeVerify
  ReqID, Code, Exchange                                    \* see AuthFlow

VARIABLES
  clock, challenges, pc, coz, issue, latest, accepted,        \* ChallengeVerify
  object, stored, codes, callback, exchange, hint, verified,  \* AuthFlow
  restarts                                                    \* both

challengeVars == <<clock, challenges, pc, coz, issue, latest, accepted>>
flowVars == <<object, stored, codes, callback, exchange, hint, verified>>
vars == <<challengeVars, flowVars, restarts>>

CV == INSTANCE ChallengeVerify

\* The storage learns of a user's email from the table of the handlers.
Subject == DOMAIN CV!Users
EmailOf == [t \in Subject |-> CV!Users[t].email]

AF == INSTANCE AuthFlow

\* What both components assume of their parameters.
ASSUME BridgeAssumption ==
  /\ RemoteAddr \in [Handler -> Session]
  /\ \A g, h \in Handler : RemoteAddr[g] = RemoteAddr[h] => g = h
  /\ DOMAIN TestUsers \subseteq Tmb
  /\ DOMAIN EnvUsers \subseteq Tmb
  /\ {TTL, MaxDrift, MaxTime, Half, MaxRestarts} \subseteq Nat
  /\ MaxTime + MaxDrift < Half
  /\ Stamp \subseteq -Half .. Half - 1
  /\ None \notin CV!Entry \cup Nonce \cup CV!VerifyRequest \cup CV!Issue
  /\ None \notin ReqID \cup Subject \cup AF!AuthRequest
  /\ \A s \in Subject : EmailOf[s] # None

Init == CV!Init /\ AF!Init

\* The login page posts the id it was rendered for, or the popup posts none.
ReceiveVerify(h) ==
  /\ CV!ReceiveVerify(h)
  /\ coz'[h].req \in {None} \cup {r \in ReqID : object[r] # None}
  /\ UNCHANGED flowVars

\* A mutant: the request is completed before the signature is checked.
VerifyDeleteCompletes(h) ==
  /\ CV!VerifyDelete(h)
  /\ IF coz[h].req \in stored /\ coz[h].tmb \in Subject
       THEN AF!CompleteAuthRequest(coz[h].req, coz[h].tmb)
       ELSE UNCHANGED flowVars

\* The steps of verification that do not touch the storage.
VerifyDelete(h) == CV!VerifyDelete(h) /\ UNCHANGED flowVars

ChallengeStep(h) ==
  /\ CV!HandleChallenge(h) \/ CV!GetMissing(h) \/ CV!GetMismatch(h) \/ CV!GetMatch(h)
  /\ UNCHANGED flowVars

\* The request is completed if it is still stored.  If it is not, nothing is
\* completed and the caller is told of success all the same.
VerifyComplete(h) ==
  /\ CV!VerifyComplete(h)
  /\ IF coz[h].req \in stored
       THEN AF!CompleteAuthRequest(coz[h].req, coz[h].tmb)
       ELSE UNCHANGED flowVars

Tick == CV!Tick /\ UNCHANGED flowVars

FlowStep ==
  /\ \/ \E r \in ReqID, u \in Subject \cup {None} : AF!CreateAuthRequest(r, u)
     \/ \E c \in Code : AF!CallbackLookup(c) \/ AF!SaveAuthCode(c)
     \/ \E e \in Exchange :
          AF!PresentCode(e) \/ AF!ShowSubject(e) \/ AF!ExchangeStep(e)
  /\ UNCHANGED challengeVars

\* A mutant: the challenges outlive the restart.
RestartFlowOnly == AF!Restart /\ UNCHANGED challengeVars

Restart == CV!Restart /\ AF!Restart

Next ==
  \/ \E h \in Handler : ReceiveVerify(h)
  \/ \E h \in Handler : ChallengeStep(h)
  \/ \E h \in Handler : VerifyDelete(h)
  \/ \E h \in Handler : VerifyComplete(h)
  \/ Tick
  \/ FlowStep
  \/ Restart

Spec == Init /\ [][Next]_vars
-----------------------------------------------------------------------------
\* A user proved itself for a request: an accepted sign-in names that user,
\* was signed with the registered key, and came with that request in its
\* query.  (The signature covers the challenge and the user, not the query.)
Proved(s, r) ==
  \E n \in Nonce : \E i \in DOMAIN accepted[n] :
    /\ accepted[n][i].tmb = s
    /\ accepted[n][i].req = r
    /\ accepted[n][i].signer = CV!Users[s].key

\* The subject of a token proved itself for the token's request.  Or else the
\* code was looked up before the request was complete, and the subject is the
\* one that a hint gave the request: then it is named without an email, and
\* it has proved itself for another request.  This passes through two
\* components, four critical sections, an unlocked pointer that is read twice,
\* and any number of earlier tokens.
TokenSubjectProved ==
  \A e \in Exchange :
    LET x == exchange[e]
    IN  x.access # None /\ x.access.sub # None =>
          \/ Proved(x.access.sub, x.req)
          \/ /\ ~x.early
             /\ x.access = [sub |-> hint[x.req], email |-> None]
             /\ \E r \in ReqID \ {x.req} : Proved(x.access.sub, r)

\* No more requests are completed than challenges were redeemed: one answer
\* to one challenge never completes two requests.
CompletionsNeedNonces ==
  Cardinality({p \in ReqID \X Subject : p[2] \in verified[p[1]]})
    <= Cardinality({n \in Nonce : accepted[n] # <<>>})

\* The composition behaves, towards each component's state, like the
\* component alone: its theorems and its runs hold of the whole bridge.
PartsKept == CV!Spec /\ AF!Spec
=============================================================================
