-------------------------- MODULE ChallengeVerify --------------------------
(***************************************************************************)
(* The challenge store of the bridge and the two handlers that use it.     *)
(*                                                                         *)
(* GET /challenge stores a random nonce under the TCP address of the       *)
(* caller; POST /verify looks that nonce up, compares it with the signed   *)
(* one, deletes it, and only then looks up the user and checks the         *)
(* signature.  Each access to the store takes its mutex, so one verify     *)
(* request is four separate steps and the requests of different            *)
(* connections interleave between them.                                    *)
(***************************************************************************)
EXTENDS Integers, Sequences

CONSTANTS
  Handler,      \* the goroutines that serve connections
  Session,      \* the values of r.RemoteAddr
  RemoteAddr,   \* the address each handler serves
  Nonce,        \* the values GenerateNonce returns
  Tmb,          \* key thumbprints
  Key,          \* key pairs
  TestUsers,    \* the built-in users
  EnvUsers,     \* the users of BRIDGE_USERS; empty when unset or unparsable
  Query,        \* the values of the authRequestID parameter
  TTL,          \* lifetime of a challenge
  MaxDrift,     \* tolerance of the payload's timestamp
  MaxTime,      \* bound on the clock
  Half,         \* 2^63: a timestamp is an int64
  Stamp,        \* the timestamps that payloads carry
  MaxRestarts,  \* bound on the restarts of the process
  None          \* no entry, no nonce, no request

Time == 0 .. MaxTime

Entry == [nonce : Nonce, createdAt : Time]
Issue == [to : Session, at : Time]

\* A request as HandleVerify reads it: the payload's nonce, thumbprint and
\* timestamp, the key that signed the payload, and the auth request that the
\* URL's query names, which nothing signs.
VerifyRequest ==
  [nonce : Nonce, tmb : Tmb, now : Stamp, signer : Key, req : Query]

Acceptance ==
  [session : Session, tmb : Tmb, now : Stamp, signer : Key, req : Query]

\* Open connections have different addresses, and net/http serves one request
\* of a connection at a time: no two handlers share an address.
ASSUME CVAssumption ==
  /\ RemoteAddr \in [Handler -> Session]
  /\ \A g, h \in Handler : RemoteAddr[g] = RemoteAddr[h] => g = h
  /\ DOMAIN TestUsers \subseteq Tmb
  /\ DOMAIN EnvUsers \subseteq Tmb
  /\ TTL \in Nat
  /\ MaxDrift \in Nat
  /\ MaxTime \in Nat
  /\ Half \in Nat
  /\ MaxTime + MaxDrift < Half
  /\ Stamp \subseteq -Half .. Half - 1
  /\ MaxRestarts \in Nat
  /\ None \notin Entry \cup Nonce \cup VerifyRequest \cup Issue

VARIABLES
  clock,        \* the bridge's clock
  challenges,   \* ChallengeStore.challenges
  pc,           \* where each handler stands in HandleVerify
  coz,          \* the request each handler serves
  restarts,     \* the restarts so far
  issue,        \* history: to whom and when each nonce was issued
  latest,       \* history: the last nonce issued to each address
  accepted      \* history: the successful verifications of each nonce

vars == <<clock, challenges, pc, coz, restarts, issue, latest, accepted>>

TypeOK ==
  /\ clock \in Time
  /\ challenges \in [Session -> Entry \cup {None}]
  /\ pc \in [Handler -> {"idle", "get", "delete", "complete"}]
  /\ coz \in [Handler -> VerifyRequest \cup {None}]
  /\ \A h \in Handler : coz[h] = None <=> pc[h] = "idle"
  /\ restarts \in 0 .. MaxRestarts
  /\ issue \in [Nonce -> Issue \cup {None}]
  /\ latest \in [Session -> Nonce \cup {None}]
  /\ accepted \in [Nonce -> Seq(Acceptance)]

Init ==
  /\ clock = 0
  /\ challenges = [s \in Session |-> None]
  /\ pc = [h \in Handler |-> "idle"]
  /\ coz = [h \in Handler |-> None]
  /\ restarts = 0
  /\ issue = [n \in Nonce |-> None]
  /\ latest = [s \in Session |-> None]
  /\ accepted = [n \in Nonce |-> <<>>]

-----------------------------------------------------------------------------
(***************************************************************************)
(* The checks of HandleVerify.                                             *)
(***************************************************************************)

\* A mutant: the built-in users are laid over BRIDGE_USERS.
UsersBuiltInWin ==
  [t \in DOMAIN TestUsers \cup DOMAIN EnvUsers |->
     IF t \in DOMAIN TestUsers THEN TestUsers[t] ELSE EnvUsers[t]]

\* BRIDGE_USERS is laid over the built-in users, key by key.
Users ==
  [t \in DOMAIN TestUsers \cup DOMAIN EnvUsers |->
     IF t \in DOMAIN EnvUsers THEN EnvUsers[t] ELSE TestUsers[t]]

\* A mutant: the drift is only checked for timestamps of the past.
TimelyPast(c) == clock - c.now <= MaxDrift

\* VerifyTimeliness.  The difference of the two int64 wraps around; when it is
\* the smallest int64, which is its own negation, it passes for a small one.
\* (TimelyExact of module Coz_proofs: these two cases are exactly the code's.)
Timely(c) ==
  LET diff == c.now - clock
  IN  diff \in -MaxDrift .. MaxDrift \/ diff = -Half

SignedByUser(c) == c.tmb \in DOMAIN Users /\ Users[c.tmb].key = c.signer

\* A mutant: an entry expires one unit of time early.
ExpiredEarly(e) == clock - e.createdAt >= TTL

Expired(e) == clock - e.createdAt > TTL

\* ChallengeStore.Get finds an unexpired entry.
Found(s) == challenges[s] # None /\ ~Expired(challenges[s])

-----------------------------------------------------------------------------
(***************************************************************************)
(* The handlers.  A request that fails before it reaches the store (body,  *)
(* missing field, timestamp) changes nothing and is not a step.            *)
(***************************************************************************)

Return(h) ==
  /\ pc' = [pc EXCEPT ![h] = "idle"]
  /\ coz' = [coz EXCEPT ![h] = None]

\* HandleChallenge: a nonce never used before replaces whatever is stored.
HandleChallenge(h) ==
  /\ pc[h] = "idle"
  /\ \E n \in Nonce :
       /\ issue[n] = None
       /\ issue' = [issue EXCEPT ![n] = [to |-> RemoteAddr[h], at |-> clock]]
       /\ latest' = [latest EXCEPT ![RemoteAddr[h]] = n]
       /\ challenges' = [challenges EXCEPT ![RemoteAddr[h]] =
                           [nonce |-> n, createdAt |-> clock]]
  /\ UNCHANGED <<clock, pc, coz, restarts, accepted>>

\* HandleVerify receives a well-formed and timely request.  The nonce is one
\* that was issued, to this connection or to another one, at any time: the
\* request may be late, repeated, or sent over the wrong connection.
ReceiveVerify(h) ==
  /\ pc[h] = "idle"
  /\ \E c \in VerifyRequest :
       /\ issue[c.nonce] # None
       /\ Timely(c)
       /\ coz' = [coz EXCEPT ![h] = c]
  /\ pc' = [pc EXCEPT ![h] = "get"]
  /\ UNCHANGED <<clock, challenges, restarts, issue, latest, accepted>>

\* Get finds nothing, or an expired entry, which it deletes.
GetMissing(h) ==
  /\ pc[h] = "get"
  /\ ~Found(RemoteAddr[h])
  /\ challenges' = [challenges EXCEPT ![RemoteAddr[h]] = None]
  /\ Return(h)
  /\ UNCHANGED <<clock, restarts, issue, latest, accepted>>

\* Get finds another nonce than the signed one, which stays stored.
GetMismatch(h) ==
  /\ pc[h] = "get"
  /\ Found(RemoteAddr[h])
  /\ challenges[RemoteAddr[h]].nonce # coz[h].nonce
  /\ Return(h)
  /\ UNCHANGED <<clock, challenges, restarts, issue, latest, accepted>>

\* A mutant: any stored nonce will do.
GetMatchAny(h) ==
  /\ pc[h] = "get"
  /\ Found(RemoteAddr[h])
  /\ pc' = [pc EXCEPT ![h] = "delete"]
  /\ UNCHANGED <<clock, challenges, coz, restarts, issue, latest, accepted>>

\* Get finds the signed nonce.
GetMatch(h) ==
  /\ pc[h] = "get"
  /\ Found(RemoteAddr[h])
  /\ challenges[RemoteAddr[h]].nonce = coz[h].nonce
  /\ pc' = [pc EXCEPT ![h] = "delete"]
  /\ UNCHANGED <<clock, challenges, coz, restarts, issue, latest, accepted>>

\* A mutant: the nonce is deleted only when the signature is good.
VerifyDeleteIfGood(h) ==
  /\ pc[h] = "delete"
  /\ IF SignedByUser(coz[h])
       THEN /\ challenges' = [challenges EXCEPT ![RemoteAddr[h]] = None]
            /\ pc' = [pc EXCEPT ![h] = "complete"]
            /\ UNCHANGED coz
       ELSE Return(h) /\ UNCHANGED challenges
  /\ UNCHANGED <<clock, restarts, issue, latest, accepted>>

\* A mutant: the nonce is never deleted.
VerifyDeleteKeeps(h) ==
  /\ pc[h] = "delete"
  /\ IF SignedByUser(coz[h])
       THEN pc' = [pc EXCEPT ![h] = "complete"] /\ UNCHANGED coz
       ELSE Return(h)
  /\ UNCHANGED <<clock, challenges, restarts, issue, latest, accepted>>

\* The nonce is deleted, then the user is looked up and the signature
\* checked: a failure there has used the nonce up.
VerifyDelete(h) ==
  /\ pc[h] = "delete"
  /\ challenges' = [challenges EXCEPT ![RemoteAddr[h]] = None]
  /\ IF SignedByUser(coz[h])
       THEN pc' = [pc EXCEPT ![h] = "complete"] /\ UNCHANGED coz
       ELSE Return(h)
  /\ UNCHANGED <<clock, restarts, issue, latest, accepted>>

\* The verification succeeds: the request named in the query is completed
\* (module Bridge) and the caller is told its email and thumbprint.
VerifyComplete(h) ==
  /\ pc[h] = "complete"
  /\ accepted' = [accepted EXCEPT ![coz[h].nonce] = Append(@,
       [session |-> RemoteAddr[h], tmb |-> coz[h].tmb, now |-> coz[h].now,
        signer |-> coz[h].signer, req |-> coz[h].req])]
  /\ Return(h)
  /\ UNCHANGED <<clock, challenges, restarts, issue, latest>>

Tick ==
  /\ clock < MaxTime
  /\ clock' = clock + 1
  /\ UNCHANGED <<challenges, pc, coz, restarts, issue, latest, accepted>>

\* The process stops, at any point of any request, and starts again: the
\* store and the requests in progress are lost.
Restart ==
  /\ restarts < MaxRestarts
  /\ restarts' = restarts + 1
  /\ challenges' = [s \in Session |-> None]
  /\ pc' = [h \in Handler |-> "idle"]
  /\ coz' = [h \in Handler |-> None]
  /\ UNCHANGED <<clock, issue, latest, accepted>>

VerifyStep(h) ==
  \/ GetMissing(h)
  \/ GetMismatch(h)
  \/ GetMatch(h)
  \/ VerifyDelete(h)
  \/ VerifyComplete(h)

Next ==
  \/ \E h \in Handler : HandleChallenge(h)
  \/ \E h \in Handler : ReceiveVerify(h)
  \/ \E h \in Handler : VerifyStep(h)
  \/ Tick
  \/ Restart

Spec == Init /\ [][Next]_vars

\* The Go scheduler runs every request that is in progress, and time passes.
FairSpec == Spec /\ WF_vars(Tick) /\ \A h \in Handler : WF_vars(VerifyStep(h))
-----------------------------------------------------------------------------
(***************************************************************************)
(* What must be true.                                                      *)
(***************************************************************************)

\* A nonce serves one sign-in at most, however its requests are repeated,
\* delayed or spread over connections: HandleVerify reads, compares and
\* deletes it in separate critical sections.
NonceOnce == \A n \in Nonce : Len(accepted[n]) <= 1

\* A sign-in that is past the deletion of its nonce uses the last challenge
\* issued to its own connection, and no later one is stored for it.
OwnLatestChallenge ==
  \A h \in Handler : pc[h] = "complete" =>
    /\ issue[coz[h].nonce].to = RemoteAddr[h]
    /\ latest[RemoteAddr[h]] = coz[h].nonce
    /\ challenges[RemoteAddr[h]] = None

\* A timestamp that was timely at some moment from first to last: it is near
\* that moment, or 2^63 seconds before it.
DatedWithin(now, first, last) ==
  \/ now \in first - MaxDrift .. last + MaxDrift
  \/ now + Half \in first .. last

\* What was accepted was signed, by the signer's own clock, no earlier than
\* the drift before the challenge was issued and no later than the drift
\* after it expired: the two checks of time, made at different steps against
\* different events, together bind the signature to its challenge.  The one
\* exception is a timestamp 2^63 seconds before a moment, to the second, at
\* which the challenge was valid.
SignedNearIssue ==
  \A n \in Nonce : \A i \in DOMAIN accepted[n] :
    DatedWithin(accepted[n][i].now, issue[n].at, issue[n].at + TTL)

\* Every accepted sign-in was signed with the key that BRIDGE_USERS, or else
\* the built-in table, registers for its thumbprint.
RegisteredSigner ==
  \A n \in Nonce : \A i \in DOMAIN accepted[n] :
    LET a == accepted[n][i]
    IN  IF a.tmb \in DOMAIN EnvUsers
          THEN a.signer = EnvUsers[a.tmb].key
          ELSE a.tmb \in DOMAIN TestUsers /\ a.signer = TestUsers[a.tmb].key

\* A user of BRIDGE_USERS who answers the stored challenge with their own key
\* is signed in, unless the challenge expires first or the process restarts:
\* no other connection's requests can make it fail.
GoodSignInAccepted ==
  \A h \in Handler, n \in Nonce, r \in 0 .. MaxRestarts :
    ( /\ pc[h] = "get"
      /\ coz[h].nonce = n
      /\ coz[h].tmb \in DOMAIN EnvUsers
      /\ EnvUsers[coz[h].tmb].key = coz[h].signer
      /\ challenges[RemoteAddr[h]] # None
      /\ challenges[RemoteAddr[h]].nonce = n
      /\ restarts = r )
    ~> ( \/ accepted[n] # <<>>
         \/ restarts > r
         \/ issue[n] # None /\ clock - issue[n].at > TTL )

\* The store implements the one-time nonce.  A nonce is claimed while a
\* handler that has matched it has not answered yet.
Claimed(n) ==
  \E h \in Handler : pc[h] \in {"delete", "complete"} /\ coz[h].nonce = n

Stored(n) == \E s \in Session : challenges[s] # None /\ challenges[s].nonce = n

State(n) ==
  CASE issue[n] = None -> "fresh"
    [] issue[n] # None /\ Claimed(n) -> "claimed"
    [] issue[n] # None /\ ~Claimed(n) /\ Stored(n) -> "outstanding"
    [] OTHER -> "spent"

NonceStates == [n \in Nonce |-> State(n)]
NonceUses == [n \in Nonce |-> Len(accepted[n])]

OTN == INSTANCE OneTimeNonce WITH state <- NonceStates, uses <- NonceUses

\* Every step of the handlers moves every nonce forward in its life, or not
\* at all: a failed attempt, an overwritten challenge and a restart all void
\* the nonce for good.
OneTimeNonceSpec == OTN!Spec

-----------------------------------------------------------------------------
(***************************************************************************)
(* Why: an inductive invariant, in named parts.                            *)
(***************************************************************************)

\* Nothing was issued in the future, and what was not issued was not used.
IssueInv ==
  \A n \in Nonce :
    /\ issue[n] = None => accepted[n] = <<>>
    /\ issue[n] # None => issue[n].at <= clock

\* A stored challenge is the last one of its connection, and unused.
StoredInv ==
  \A s \in Session : challenges[s] # None =>
    /\ issue[challenges[s].nonce] =
         [to |-> s, at |-> challenges[s].createdAt]
    /\ latest[s] = challenges[s].nonce
    /\ accepted[challenges[s].nonce] = <<>>

\* A request in progress was timely when it came.
RequestInv ==
  \A h \in Handler : pc[h] # "idle" =>
    /\ issue[coz[h].nonce] # None
    /\ DatedWithin(coz[h].now, issue[coz[h].nonce].at, clock)

\* A request that has matched its nonce owns it until it answers.
Owns(h) ==
  /\ issue[coz[h].nonce].to = RemoteAddr[h]
  /\ latest[RemoteAddr[h]] = coz[h].nonce
  /\ accepted[coz[h].nonce] = <<>>
  /\ DatedWithin(coz[h].now, issue[coz[h].nonce].at, issue[coz[h].nonce].at + TTL)
  /\ pc[h] = "delete" => /\ challenges[RemoteAddr[h]] # None
                         /\ challenges[RemoteAddr[h]].nonce = coz[h].nonce
  /\ pc[h] = "complete" => /\ challenges[RemoteAddr[h]] = None
                           /\ SignedByUser(coz[h])

MatchedInv == \A h \in Handler : pc[h] \in {"delete", "complete"} => Owns(h)

IndInv ==
  TypeOK /\ IssueInv /\ StoredInv /\ RequestInv /\ MatchedInv
    /\ NonceOnce /\ SignedNearIssue /\ RegisteredSigner
=============================================================================
