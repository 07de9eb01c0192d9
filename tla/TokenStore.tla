----------------------------- MODULE TokenStore -----------------------------
(***************************************************************************)
(* The access and refresh tokens of bridge/storage.                        *)
(*                                                                         *)
(* The two maps share one mutex, but the calls that issue and renew tokens *)
(* take it several times: once per token they create, and once more to     *)
(* read the refresh token they are given.  Renewals of the same refresh    *)
(* token, revocations and logouts interleave between these sections.       *)
(*                                                                         *)
(* A call creates at most one access token and one refresh token, with ids *)
(* from uuid.NewString: here both are identified by the call.              *)
(***************************************************************************)
EXTENDS Integers, FiniteSets

CONSTANTS
  Call,         \* the calls that create tokens
  Revoker,      \* the goroutines that revoke tokens
  User,         \* subjects
  Client,       \* applications
  RefreshLife,  \* lifetime of a refresh token
  MaxTime,      \* bound on the clock
  MaxRestarts,  \* bound on the restarts of the process
  None          \* no token

Owner == [user : User, client : Client]
Token == [owner : Owner, refresh : Call \cup {None}]
RefreshToken == [owner : Owner, access : Call, exp : 0 .. MaxTime + RefreshLife]
RefreshID == Call \cup {None}

ASSUME TSAssumption ==
  /\ RefreshLife \in Nat
  /\ MaxTime \in Nat
  /\ MaxRestarts \in Nat
  /\ None \notin Call \cup Token \cup RefreshToken

VARIABLES
  clock,          \* the bridge's clock
  tokens,         \* Storage.tokens
  refreshTokens,  \* Storage.refreshTokens
  call,           \* where each call stands
  revoke,         \* the token each revoker is about to revoke
  restarts,       \* the restarts so far
  loggedOut       \* history: the families a logout found signed in

vars == <<clock, tokens, refreshTokens, call, revoke, restarts, loggedOut>>

\* A call that knows whom it serves.  current is the refresh token it was
\* given, and root the call that first signed the user in.
Serving ==
  [pc : {"refresh", "renew", "rotate", "plain", "done", "failed"},
   owner : Owner, current : RefreshID, root : Call]

Idle(pc) == [pc |-> pc, owner |-> None, current |-> None, root |-> None]

Revoking == [kind : {"access", "refresh"}, id : Call]

TypeOK ==
  /\ clock \in 0 .. MaxTime
  /\ tokens \in [Call -> Token \cup {None}]
  /\ refreshTokens \in [Call -> RefreshToken \cup {None}]
  /\ call \in [Call -> Serving \cup {Idle("ready"), Idle("failed")}]
  /\ revoke \in [Revoker -> Revoking \cup {None}]
  /\ restarts \in 0 .. MaxRestarts
  /\ loggedOut \subseteq Call

Init ==
  /\ clock = 0
  /\ tokens = [g \in Call |-> None]
  /\ refreshTokens = [g \in Call |-> None]
  /\ call = [g \in Call |-> Idle("ready")]
  /\ revoke = [v \in Revoker |-> None]
  /\ restarts = 0
  /\ loggedOut = {}

Rooted(f) == {g \in Call : call[g].root = f}

-----------------------------------------------------------------------------
(***************************************************************************)
(* Issuing tokens for a user who has just signed in.                       *)
(***************************************************************************)

\* createAccessToken, for call g.
StoreAccess(g, owner, refresh) ==
  tokens' = [tokens EXCEPT ![g] = [owner |-> owner, refresh |-> refresh]]

\* CreateAccessToken: an access token alone.
CreateAccessToken(g) ==
  /\ call[g].pc = "ready"
  /\ \E o \in Owner :
       /\ StoreAccess(g, o, None)
       /\ call' = [call EXCEPT ![g] =
            [pc |-> "plain", owner |-> o, current |-> None, root |-> g]]
  /\ UNCHANGED <<clock, refreshTokens, revoke, restarts, loggedOut>>

\* CreateAccessAndRefreshTokens without a current token: first the access
\* token, which already names the refresh token...
GrantAccess(g) ==
  /\ call[g].pc = "ready"
  /\ \E o \in Owner :
       /\ StoreAccess(g, o, g)
       /\ call' = [call EXCEPT ![g] =
            [pc |-> "refresh", owner |-> o, current |-> None, root |-> g]]
  /\ UNCHANGED <<clock, refreshTokens, revoke, restarts, loggedOut>>

\* ...then createRefreshToken.
GrantRefresh(g) ==
  /\ call[g].pc = "refresh"
  /\ refreshTokens' = [refreshTokens EXCEPT ![g] =
       [owner |-> call[g].owner, access |-> g, exp |-> clock + RefreshLife]]
  /\ call' = [call EXCEPT ![g].pc = "done"]
  /\ UNCHANGED <<clock, tokens, revoke, restarts, loggedOut>>

-----------------------------------------------------------------------------
(***************************************************************************)
(* Renewing: the client presents a refresh token it was sent, maybe one it *)
(* has used before.                                                        *)
(***************************************************************************)

\* A mutant: the lookup's ok is ignored and the zero value used.
TokenRequestUnchecked(g) ==
  /\ call[g].pc = "ready"
  /\ \E r \in Call :
       /\ call[r].pc = "done"
       /\ call' = [call EXCEPT ![g] =
            [pc |-> "renew", current |-> r, root |-> call[r].root,
             owner |-> IF refreshTokens[r] = None THEN None
                       ELSE refreshTokens[r].owner]]
  /\ UNCHANGED <<clock, tokens, refreshTokens, revoke, restarts, loggedOut>>

\* A copy of the stored token is taken; its expiration is not looked at.
TokenRequestByRefreshToken(g) ==
  /\ call[g].pc = "ready"
  /\ \E r \in Call :
       /\ call[r].pc = "done"
       /\ call' = [call EXCEPT ![g] =
            IF refreshTokens[r] = None THEN Idle("failed")
            ELSE [pc |-> "renew", owner |-> refreshTokens[r].owner,
                  current |-> r, root |-> call[r].root]]
  /\ UNCHANGED <<clock, tokens, refreshTokens, revoke, restarts, loggedOut>>

\* CreateAccessAndRefreshTokens with a current token: the new access token
\* is stored before the current token is checked again...
RenewAccess(g) ==
  /\ call[g].pc = "renew"
  /\ StoreAccess(g, call[g].owner, g)
  /\ call' = [call EXCEPT ![g].pc = "rotate"]
  /\ UNCHANGED <<clock, refreshTokens, revoke, restarts, loggedOut>>

\* A mutant: the renewed record still names the previous access token.
RotatedKeepsAccess(r, g) ==
  [refreshTokens[r] EXCEPT !.exp = clock + RefreshLife]

\* The stored record, under a new id and with a new access token.
Rotated(r, g) ==
  [owner |-> refreshTokens[r].owner, access |-> g, exp |-> clock + RefreshLife]

\* A mutant: the current refresh token stays valid until it expires.
RenewRefreshKeeps(g) ==
  LET r == call[g].current
  IN  /\ call[g].pc = "rotate"
      /\ refreshTokens[r] # None
      /\ tokens' = [tokens EXCEPT ![refreshTokens[r].access] = None]
      /\ IF refreshTokens[r].exp < clock
           THEN /\ refreshTokens' = [refreshTokens EXCEPT ![r] = None]
                /\ call' = [call EXCEPT ![g].pc = "failed"]
           ELSE /\ refreshTokens' = [refreshTokens EXCEPT ![g] = Rotated(r, g)]
                /\ call' = [call EXCEPT ![g].pc = "done"]
      /\ UNCHANGED <<clock, revoke, restarts, loggedOut>>

\* A mutant: the new refresh token is stored even if the current one is gone.
RenewRefreshAnyway(g) ==
  LET r == call[g].current
  IN  /\ call[g].pc = "rotate"
      /\ refreshTokens' = [refreshTokens EXCEPT ![r] = None, ![g] =
           [owner |-> call[g].owner, access |-> g, exp |-> clock + RefreshLife]]
      /\ IF refreshTokens[r] = None THEN UNCHANGED tokens
         ELSE tokens' = [tokens EXCEPT ![refreshTokens[r].access] = None]
      /\ call' = [call EXCEPT ![g].pc = "done"]
      /\ UNCHANGED <<clock, revoke, restarts, loggedOut>>

\* ...then renewRefreshToken finds the current token still stored, deletes it
\* with its access token, and stores it anew under its new id, or stops there
\* if it has expired.
RenewRefresh(g) ==
  LET r == call[g].current
  IN  /\ call[g].pc = "rotate"
      /\ refreshTokens[r] # None
      /\ tokens' = [tokens EXCEPT ![refreshTokens[r].access] = None]
      /\ IF refreshTokens[r].exp < clock
           THEN /\ refreshTokens' = [refreshTokens EXCEPT ![r] = None]
                /\ call' = [call EXCEPT ![g].pc = "failed"]
           ELSE /\ refreshTokens' =
                     [refreshTokens EXCEPT ![r] = None, ![g] = Rotated(r, g)]
                /\ call' = [call EXCEPT ![g].pc = "done"]
      /\ UNCHANGED <<clock, revoke, restarts, loggedOut>>

\* ...or finds it gone: the client gets an error, and the new access token,
\* which nobody was sent, stays in the map.
RenewRefreshGone(g) ==
  /\ call[g].pc = "rotate"
  /\ refreshTokens[call[g].current] = None
  /\ call' = [call EXCEPT ![g].pc = "failed"]
  /\ UNCHANGED <<clock, tokens, refreshTokens, revoke, restarts, loggedOut>>

-----------------------------------------------------------------------------
(***************************************************************************)
(* Revocation and logout.                                                  *)
(***************************************************************************)

\* The library decodes an access token by itself.
PresentAccessToken(v) ==
  /\ revoke[v] = None
  /\ \E g \in Call :
       /\ call[g].pc \in {"plain", "done"}
       /\ revoke' = [revoke EXCEPT ![v] = [kind |-> "access", id |-> g]]
  /\ UNCHANGED <<clock, tokens, refreshTokens, call, restarts, loggedOut>>

\* It asks GetRefreshTokenInfo for the id of a refresh token.
GetRefreshTokenInfo(v) ==
  /\ revoke[v] = None
  /\ \E g \in Call :
       /\ call[g].pc = "done"
       /\ refreshTokens[g] # None
       /\ revoke' = [revoke EXCEPT ![v] = [kind |-> "refresh", id |-> g]]
  /\ UNCHANGED <<clock, tokens, refreshTokens, call, restarts, loggedOut>>

\* GetRefreshTokenInfo holds no lock.  It reads the id through a pointer to
\* the record that renewals re-use, maybe after one of them has changed it.
ReadRenewedID(v) ==
  /\ revoke[v] # None
  /\ revoke[v].kind = "refresh"
  /\ \E g \in Rooted(call[revoke[v].id].root) :
       /\ refreshTokens[g] # None
       /\ revoke' = [revoke EXCEPT ![v].id = g]
  /\ UNCHANGED <<clock, tokens, refreshTokens, call, restarts, loggedOut>>

RevokeAccess(v) ==
  /\ revoke[v].kind = "access"
  /\ tokens' = [tokens EXCEPT ![revoke[v].id] = None]
  /\ UNCHANGED refreshTokens

\* A mutant: the access token of a revoked refresh token is left alone.
RevokeRefreshOnly(v) ==
  /\ revoke[v].kind = "refresh"
  /\ refreshTokens' = [refreshTokens EXCEPT ![revoke[v].id] = None]
  /\ UNCHANGED tokens

RevokeRefresh(v) ==
  LET r == revoke[v].id
  IN  /\ revoke[v].kind = "refresh"
      /\ refreshTokens' = [refreshTokens EXCEPT ![r] = None]
      /\ IF refreshTokens[r] = None THEN UNCHANGED tokens
         ELSE tokens' = [tokens EXCEPT ![refreshTokens[r].access] = None]

\* RevokeToken, or its refusal for a token of another client.
RevokeToken(v) ==
  /\ revoke[v] # None
  /\ \/ RevokeAccess(v)
     \/ RevokeRefresh(v)
     \/ UNCHANGED <<tokens, refreshTokens>>
  /\ revoke' = [revoke EXCEPT ![v] = None]
  /\ UNCHANGED <<clock, call, restarts, loggedOut>>

\* A mutant: a logout deletes access tokens alone.
TerminateSessionAccessOnly(o) ==
  LET mine == {g \in Call : tokens[g] # None /\ tokens[g].owner = o}
  IN  /\ mine # {}
      /\ tokens' = [g \in Call |-> IF g \in mine THEN None ELSE tokens[g]]
      /\ loggedOut' = loggedOut \cup
           {call[g].root : g \in {q \in mine : call[q].pc = "done"}}
      /\ UNCHANGED <<clock, refreshTokens, call, revoke, restarts>>

\* A logout deletes the user's access tokens for this client, and the refresh
\* tokens that those name.
TerminateSession(o) ==
  LET mine == {g \in Call : tokens[g] # None /\ tokens[g].owner = o}
      named == {tokens[g].refresh : g \in mine}
  IN  /\ mine # {}
      /\ tokens' = [g \in Call |-> IF g \in mine THEN None ELSE tokens[g]]
      /\ refreshTokens' =
           [g \in Call |-> IF g \in named THEN None ELSE refreshTokens[g]]
      /\ loggedOut' = loggedOut \cup
           {call[g].root : g \in {q \in mine : call[q].pc = "done"}}
      /\ UNCHANGED <<clock, call, revoke, restarts>>

-----------------------------------------------------------------------------
Tick ==
  /\ clock < MaxTime
  /\ clock' = clock + 1
  /\ UNCHANGED <<tokens, refreshTokens, call, revoke, restarts, loggedOut>>

\* The process stops, between any two sections, and starts with empty maps.
Restart ==
  /\ restarts < MaxRestarts
  /\ restarts' = restarts + 1
  /\ tokens' = [g \in Call |-> None]
  /\ refreshTokens' = [g \in Call |-> None]
  /\ call' = [g \in Call |->
       IF call[g].pc \in {"refresh", "renew", "rotate"}
         THEN [call[g] EXCEPT !.pc = "failed"] ELSE call[g]]
  /\ revoke' = [v \in Revoker |-> None]
  /\ UNCHANGED <<clock, loggedOut>>

Next ==
  \/ \E g \in Call :
       \/ CreateAccessToken(g)
       \/ GrantAccess(g)
       \/ GrantRefresh(g)
       \/ TokenRequestByRefreshToken(g)
       \/ RenewAccess(g)
       \/ RenewRefresh(g)
       \/ RenewRefreshGone(g)
  \/ \E v \in Revoker :
       \/ PresentAccessToken(v)
       \/ GetRefreshTokenInfo(v)
       \/ ReadRenewedID(v)
       \/ RevokeToken(v)
  \/ \E o \in Owner : TerminateSession(o)
  \/ Tick
  \/ Restart

Spec == Init /\ [][Next]_vars
-----------------------------------------------------------------------------
(***************************************************************************)
(* What must be true.                                                      *)
(***************************************************************************)

\* A refresh token is renewed at most once, however many calls have read it
\* before the first of them deletes it.
RenewedOnce ==
  \A g, h \in Call :
    /\ call[g].pc = "done" /\ call[h].pc = "done"
    /\ call[g].current = call[h].current /\ call[g].current # None
    => g = h

\* An access token sent together with a refresh token is only stored while
\* that refresh token is, and is the one it names: whoever revokes, renews or
\* loses the refresh token ends the access token too.  The maps are updated
\* one after the other when tokens are issued.
AccessFollowsRefresh ==
  \A g \in Call : call[g].pc = "done" /\ tokens[g] # None =>
    refreshTokens[g] # None /\ refreshTokens[g].access = g

\* A family that a logout found signed in never has a refresh token again,
\* though a renewal of it may already have stored its new access token.
LogoutEndsFamily ==
  \A g \in Call : refreshTokens[g] # None => call[g].root \notin loggedOut

\* The maps implement rotating tokens: one valid refresh token per sign-in,
\* and none that was replaced, revoked, expired on renewal or lost in a
\* restart is ever valid again.
Stored(f) == {g \in Rooted(f) : refreshTokens[g] # None}
ValidTokens == [f \in Call |-> Stored(f)]
RetiredTokens == {g \in Call : call[g].pc = "done" /\ refreshTokens[g] = None}

RT == INSTANCE RotatingToken
        WITH Token <- Call, Family <- Call,
             valid <- ValidTokens, retired <- RetiredTokens

RotatingTokenSpec == RT!Spec
=============================================================================
