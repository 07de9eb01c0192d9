-------------------------- MODULE TokenStore_proofs --------------------------
(***************************************************************************)
(* Proofs about the access and refresh tokens, for any number of calls,    *)
(* revokers, users, applications, ticks and restarts.                      *)
(***************************************************************************)
EXTENDS TokenStore, TLAPS

-----------------------------------------------------------------------------
(***************************************************************************)
(* The inductive invariant.  A call that renews remembers a refresh token  *)
(* that may be gone when it looks again; what keeps the maps right is that *)
(* a family has one refresh token at a time, stored under the id of the    *)
(* call that sent it, together with the access token that call stored.     *)
(***************************************************************************)

\* A renewal stays in the family of the token it was given.
Follows(g, r) ==
  /\ call[r].pc = "done"
  /\ call[g].root = call[r].root
  /\ call[g].owner = call[r].owner

CallOK(g) ==
  LET c == call[g]
  IN  /\ c.pc \in {"refresh", "plain"} => c.root = g /\ c.current = None
      /\ c.pc \in {"renew", "rotate"} => c.current \in Call
      /\ c.current \in Call => Follows(g, c.current)
      /\ c.pc = "done" =>
           /\ IF c.current = None THEN c.root = g
              ELSE refreshTokens[c.current] = None
           /\ call[c.root].pc = "done"
           /\ call[c.root].owner = c.owner

\* A call stores its access token under its own id, and names the refresh
\* token that it stores, under the same id, once it is done.
AccessOK(g) ==
  tokens[g] # None =>
    /\ call[g].root \in Call
    /\ call[g].pc \in {"plain", "refresh", "rotate", "done", "failed"}
    /\ tokens[g].owner = call[g].owner
    /\ tokens[g].refresh = IF call[g].pc = "plain" THEN None ELSE g

RefreshOK(g) ==
  refreshTokens[g] # None =>
    /\ call[g].pc = "done"
    /\ refreshTokens[g].access = g
    /\ refreshTokens[g].owner = call[g].owner

CallInv == \A g \in Call : CallOK(g)
StoreInv == \A g \in Call : AccessOK(g) /\ RefreshOK(g)

\* A family has one refresh token at a time.
OnePerFamily ==
  \A g, h \in Call :
    refreshTokens[g] # None /\ refreshTokens[h] # None
      /\ call[g].root = call[h].root => g = h

LogoutInv == LogoutEndsFamily /\ \A f \in loggedOut : call[f].pc = "done"

IndInv ==
  /\ TypeOK
  /\ CallInv
  /\ StoreInv
  /\ OnePerFamily
  /\ AccessFollowsRefresh
  /\ RenewedOnce
  /\ LogoutInv

\* Whatever is stored for a family of tokens is the tokens of the user and
\* the application that the family was opened for, however often the tokens
\* were renewed.
FamilyKeepsOwner ==
  \A g \in Call :
    refreshTokens[g] # None =>
      /\ refreshTokens[g].owner = call[call[g].root].owner
      /\ tokens[g] # None => tokens[g].owner = call[call[g].root].owner

LEMMA CallTypes ==
  ASSUME TypeOK, NEW g \in Call
  PROVE  /\ call[g] \in Serving \/ call[g] = Idle("ready") \/ call[g] = Idle("failed")
         /\ call[g].pc \in {"refresh", "renew", "rotate", "plain", "done"}
              => call[g] \in Serving
         /\ call[g].root \in Call => call[g] \in Serving
         /\ call[g] \in Serving => call[g].root \in Call /\ call[g].owner \in Owner
         /\ call[g].pc = "ready" => call[g] = Idle("ready")
         /\ call[g].pc = "ready" => call[g].root = None /\ call[g].current = None
         /\ call[g].current \in Call \cup {None}
<1>1. /\ Idle("ready").root = None /\ Idle("ready").current = None
      /\ Idle("ready").pc = "ready"
      /\ Idle("failed").root = None /\ Idle("failed").current = None
      /\ Idle("failed").pc = "failed"
  BY DEF Idle
<1>2. call[g] \in Serving \/ call[g] = Idle("ready") \/ call[g] = Idle("failed")
  BY DEF TypeOK
<1>3. call[g] \in Serving =>
        /\ call[g].root \in Call /\ call[g].owner \in Owner
        /\ call[g].pc # "ready" /\ call[g].current \in Call \cup {None}
  BY DEF Serving, RefreshID
<1> QED
  BY <1>1, <1>2, <1>3, TSAssumption

LEMMA InitInv == Init => IndInv
<1> SUFFICES ASSUME Init PROVE IndInv
  OBVIOUS
<1> USE TSAssumption
<1>1. \A g \in Call : /\ call[g] = Idle("ready") /\ call[g].pc = "ready"
                      /\ call[g].root = None /\ call[g].current = None
                      /\ tokens[g] = None /\ refreshTokens[g] = None
  BY DEF Init, Idle
<1>2. TypeOK
  BY DEF Init, TypeOK
<1>3. CallInv /\ StoreInv
  BY <1>1 DEF CallInv, CallOK, StoreInv, AccessOK, RefreshOK
<1>4. OnePerFamily /\ AccessFollowsRefresh /\ RenewedOnce
  BY <1>1 DEF OnePerFamily, AccessFollowsRefresh, RenewedOnce
<1>5. LogoutInv
  BY <1>1 DEF Init, LogoutInv, LogoutEndsFamily
<1> QED
  BY <1>2, <1>3, <1>4, <1>5 DEF IndInv

-----------------------------------------------------------------------------
(***************************************************************************)
(* Steps that only take tokens away, and calls that fail.                  *)
(***************************************************************************)

\* What a revocation, a logout, a restart and a renewal that fails have in
\* common: an access token goes no later than its refresh token.
Drops ==
  /\ \A g \in Call : /\ tokens'[g] \in {tokens[g], None}
                     /\ refreshTokens'[g] \in {refreshTokens[g], None}
                     /\ refreshTokens'[g] = refreshTokens[g] \/ tokens'[g] = None
  /\ \A g \in Call :
       \/ call'[g] = call[g]
       \/ /\ call[g].pc \in {"refresh", "renew", "rotate"}
          /\ call'[g] = [call[g] EXCEPT !.pc = "failed"]
  /\ \A f \in loggedOut' :
       \/ f \in loggedOut
       \/ /\ f \in Call /\ call[f].pc = "done"
          /\ \A g \in Call : call[g].root = f => refreshTokens'[g] = None

LEMMA DropsMoves ==
  ASSUME TypeOK, Drops, NEW g \in Call
  PROVE  /\ call'[g].root = call[g].root /\ call'[g].current = call[g].current
         /\ call'[g].owner = call[g].owner
         /\ \/ call'[g].pc = call[g].pc
            \/ call[g].pc \in {"refresh", "renew", "rotate"} /\ call'[g].pc = "failed"
         /\ refreshTokens'[g] # None => refreshTokens'[g] = refreshTokens[g]
         /\ tokens'[g] # None => tokens'[g] = tokens[g] /\ refreshTokens'[g] = refreshTokens[g]
<1>1. CASE call'[g] = call[g]
  BY <1>1 DEF Drops
<1>2. CASE /\ call[g].pc \in {"refresh", "renew", "rotate"}
           /\ call'[g] = [call[g] EXCEPT !.pc = "failed"]
  <2>1. call[g] \in Serving
    BY <1>2, CallTypes
  <2>2. /\ call'[g].root = call[g].root /\ call'[g].current = call[g].current
        /\ call'[g].owner = call[g].owner /\ call'[g].pc = "failed"
    BY <1>2, <2>1 DEF Serving
  <2> QED
    BY <1>2, <2>2 DEF Drops
<1> QED
  BY <1>1, <1>2 DEF Drops

LEMMA DropsKeeps ==
  ASSUME IndInv, TypeOK', Drops
  PROVE  IndInv'
<1> USE DEF IndInv
<1>1. \A g \in Call :
        /\ call'[g].root = call[g].root /\ call'[g].current = call[g].current
        /\ call'[g].owner = call[g].owner
        /\ \/ call'[g].pc = call[g].pc
           \/ call[g].pc \in {"refresh", "renew", "rotate"} /\ call'[g].pc = "failed"
        /\ refreshTokens'[g] # None => refreshTokens'[g] = refreshTokens[g]
        /\ tokens'[g] # None => tokens'[g] = tokens[g] /\ refreshTokens'[g] = refreshTokens[g]
  BY DropsMoves
<1>2. CallInv'
  <2> SUFFICES ASSUME NEW g \in Call PROVE CallOK(g)'
    BY DEF CallInv
  <2>1. CallOK(g)
    BY DEF CallInv
  <2>2. call[g].pc = "done" => call[g].root \in Call
    BY CallTypes
  <2>3. call[g].current \in Call \cup {None}
    BY CallTypes
  <2> QED
    BY <1>1, <2>1, <2>2, <2>3 DEF CallOK, Follows
<1>3. StoreInv'
  <2> SUFFICES ASSUME NEW g \in Call PROVE AccessOK(g)' /\ RefreshOK(g)'
    BY DEF StoreInv
  <2>1. AccessOK(g) /\ RefreshOK(g)
    BY DEF StoreInv
  <2>2. AccessOK(g)'
    BY <1>1, <2>1 DEF AccessOK
  <2>3. RefreshOK(g)'
    BY <1>1, <2>1 DEF RefreshOK
  <2> QED
    BY <2>2, <2>3
<1>4. OnePerFamily'
  BY <1>1 DEF OnePerFamily
<1>5. AccessFollowsRefresh'
  BY <1>1 DEF AccessFollowsRefresh
<1>6. RenewedOnce'
  BY <1>1 DEF RenewedOnce
<1>7. LogoutInv'
  <2>1. LogoutEndsFamily'
    BY <1>1 DEF LogoutInv, LogoutEndsFamily, Drops
  <2>2. \A f \in loggedOut : f \in Call /\ call[f].pc = "done"
    BY DEF LogoutInv, TypeOK
  <2>3. \A f \in loggedOut' : f \in Call /\ call[f].pc = "done"
    BY <2>2 DEF Drops
  <2>4. \A f \in loggedOut' : call'[f].pc = "done"
    BY <1>1, <2>3
  <2> QED
    BY <2>1, <2>4 DEF LogoutInv
<1> QED
  BY <1>2, <1>3, <1>4, <1>5, <1>6, <1>7

-----------------------------------------------------------------------------
(***************************************************************************)
(* Calls that begin.                                                       *)
(***************************************************************************)

\* Call g learns whom it serves, and maybe stores its access token.
Begins(g, c) ==
  /\ call[g].pc = "ready"
  /\ call' = [call EXCEPT ![g] = c]
  /\ \/ /\ c \in Serving
        /\ c.pc \in {"plain", "refresh"} /\ c.root = g /\ c.current = None
        /\ StoreAccess(g, c.owner, IF c.pc = "plain" THEN None ELSE g)
     \/ /\ c \in Serving
        /\ c.pc = "renew" /\ c.current \in Call
        /\ call[c.current].pc = "done"
        /\ c.root = call[c.current].root /\ c.owner = call[c.current].owner
        /\ UNCHANGED tokens
     \/ c = Idle("failed") /\ UNCHANGED tokens
  /\ UNCHANGED <<clock, refreshTokens, revoke, restarts, loggedOut>>

LEMMA CreateAccessTokenBegins ==
  ASSUME NEW g \in Call, CreateAccessToken(g)
  PROVE  \E c : Begins(g, c)
<1>1. PICK o \in Owner :
        /\ StoreAccess(g, o, None)
        /\ call' = [call EXCEPT ![g] =
             [pc |-> "plain", owner |-> o, current |-> None, root |-> g]]
  BY DEF CreateAccessToken
<1> DEFINE c == [pc |-> "plain", owner |-> o, current |-> None, root |-> g]
<1>2. /\ c \in Serving /\ c.pc = "plain" /\ c.root = g /\ c.current = None
      /\ c.owner = o
  BY DEF Serving, RefreshID
<1>3. call' = [call EXCEPT ![g] = c]
  BY <1>1
<1> HIDE DEF c
<1>4. Begins(g, c)
  BY <1>1, <1>2, <1>3 DEF Begins, CreateAccessToken
<1> QED
  BY <1>4

LEMMA GrantAccessBegins ==
  ASSUME NEW g \in Call, GrantAccess(g)
  PROVE  \E c : Begins(g, c)
<1>1. PICK o \in Owner :
        /\ StoreAccess(g, o, g)
        /\ call' = [call EXCEPT ![g] =
             [pc |-> "refresh", owner |-> o, current |-> None, root |-> g]]
  BY DEF GrantAccess
<1> DEFINE c == [pc |-> "refresh", owner |-> o, current |-> None, root |-> g]
<1>2. /\ c \in Serving /\ c.pc = "refresh" /\ c.root = g /\ c.current = None
      /\ c.owner = o
  BY DEF Serving, RefreshID
<1>3. call' = [call EXCEPT ![g] = c]
  BY <1>1
<1> HIDE DEF c
<1>4. Begins(g, c)
  BY <1>1, <1>2, <1>3 DEF Begins, GrantAccess
<1> QED
  BY <1>4

LEMMA TokenRequestBegins ==
  ASSUME IndInv, NEW g \in Call, TokenRequestByRefreshToken(g)
  PROVE  \E c : Begins(g, c)
<1>1. PICK r \in Call :
        /\ call[r].pc = "done"
        /\ call' = [call EXCEPT ![g] =
             IF refreshTokens[r] = None THEN Idle("failed")
             ELSE [pc |-> "renew", owner |-> refreshTokens[r].owner,
                   current |-> r, root |-> call[r].root]]
  BY DEF TokenRequestByRefreshToken
<1>2. CASE refreshTokens[r] = None
  <2>1. Begins(g, Idle("failed"))
    BY <1>1, <1>2 DEF Begins, TokenRequestByRefreshToken
  <2> QED
    BY <2>1
<1>3. CASE refreshTokens[r] # None
  <2> DEFINE c == [pc |-> "renew", owner |-> refreshTokens[r].owner,
                   current |-> r, root |-> call[r].root]
  <2>1. /\ refreshTokens[r].owner = call[r].owner
        /\ call[r].owner \in Owner /\ call[r].root \in Call
    BY <1>1, <1>3, CallTypes DEF IndInv, StoreInv, RefreshOK
  <2>2. /\ c \in Serving /\ c.pc = "renew" /\ c.current = r
        /\ c.root = call[r].root /\ c.owner = call[r].owner
    BY <2>1 DEF Serving, RefreshID
  <2>3. call' = [call EXCEPT ![g] = c]
    BY <1>1, <1>3
  <2> HIDE DEF c
  <2>4. Begins(g, c)
    BY <1>1, <2>2, <2>3 DEF Begins, TokenRequestByRefreshToken
  <2> QED
    BY <2>4
<1> QED
  BY <1>2, <1>3

LEMMA BeginsTypes ==
  ASSUME TypeOK, NEW g \in Call, NEW c, Begins(g, c)
  PROVE  TypeOK'
<1>1. call' \in [Call -> Serving \cup {Idle("ready"), Idle("failed")}]
  BY DEF Begins, TypeOK
<1>2. tokens' \in [Call -> Token \cup {None}]
  <2>1. CASE UNCHANGED tokens
    BY <2>1 DEF TypeOK
  <2>2. CASE c \in Serving /\ StoreAccess(g, c.owner, IF c.pc = "plain" THEN None ELSE g)
    <3>1. c.owner \in Owner
      BY <2>2 DEF Serving
    <3>2. \A x \in Call \cup {None} : [owner |-> c.owner, refresh |-> x] \in Token
      BY <3>1 DEF Token
    <3> QED
      BY <2>2, <3>2 DEF StoreAccess, TypeOK
  <2> QED
    BY <2>1, <2>2 DEF Begins
<1> QED
  BY <1>1, <1>2 DEF Begins, TypeOK

LEMMA BeginsKeeps ==
  ASSUME IndInv, NEW g \in Call, NEW c, Begins(g, c)
  PROVE  IndInv'
<1> USE DEF IndInv
<1>1. TypeOK'
  BY BeginsTypes
<1>2. /\ call'[g] = c /\ call[g].pc = "ready"
      /\ \A h \in Call \ {g} : call'[h] = call[h] /\ tokens'[h] = tokens[h]
      /\ UNCHANGED <<refreshTokens, loggedOut>>
  BY DEF Begins, TypeOK, StoreAccess
<1>3. refreshTokens[g] = None /\ tokens[g] = None
  BY <1>2 DEF StoreInv, AccessOK, RefreshOK
<1>4. c.pc # "done" /\ c.pc # "rotate"
  BY DEF Begins, Idle
<1>5. CallInv'
  <2> SUFFICES ASSUME NEW h \in Call PROVE CallOK(h)'
    BY DEF CallInv
  <2>1. CASE h = g
    <3>1. c.current \in Call => c.current # g
      BY <1>2, TSAssumption DEF Begins, Idle
    <3> QED
      BY <1>2, <1>4, <2>1, <3>1, TSAssumption DEF CallOK, Follows, Begins, Idle
  <2>2. CASE h # g
    <3>1. CallOK(h)
      BY DEF CallInv
    <3>2. call[h].current \in Call => call[h].current # g
      BY <1>2, <3>1 DEF CallOK, Follows
    <3>3. call[h].pc = "done" => call[h].root \in Call \ {g}
      BY <1>2, <3>1, CallTypes DEF CallOK
    <3> QED
      BY <1>2, <2>2, <3>1, <3>2, <3>3 DEF CallOK, Follows
  <2> QED
    BY <2>1, <2>2
<1>6. StoreInv'
  <2> SUFFICES ASSUME NEW h \in Call PROVE AccessOK(h)' /\ RefreshOK(h)'
    BY DEF StoreInv
  <2>1. AccessOK(h) /\ RefreshOK(h)
    BY DEF StoreInv
  <2>2. CASE h # g
    BY <1>2, <2>1, <2>2 DEF AccessOK, RefreshOK
  <2>3. CASE h = g
    <3>1. RefreshOK(h)'
      BY <1>2, <1>3, <2>3 DEF RefreshOK
    <3>2. CASE UNCHANGED tokens
      BY <1>3, <2>3, <3>1, <3>2 DEF AccessOK
    <3>3. CASE /\ c \in Serving /\ c.pc \in {"plain", "refresh"} /\ c.root = g
               /\ StoreAccess(g, c.owner, IF c.pc = "plain" THEN None ELSE g)
      <4> DEFINE n == IF c.pc = "plain" THEN None ELSE g
      <4>1. tokens'[g] = [owner |-> c.owner, refresh |-> n]
        BY <3>3 DEF StoreAccess, TypeOK
      <4>2. tokens'[g].owner = c.owner /\ tokens'[g].refresh = n
        BY <4>1
      <4> QED
        BY <1>2, <2>3, <3>1, <3>3, <4>2 DEF AccessOK
    <3> QED
      BY <3>2, <3>3 DEF Begins
  <2> QED
    BY <2>2, <2>3
<1>7. \A h \in Call : refreshTokens[h] # None => h # g
  BY <1>3
<1>8. OnePerFamily' /\ LogoutEndsFamily'
  BY <1>2, <1>7 DEF OnePerFamily, LogoutInv, LogoutEndsFamily
<1>9. AccessFollowsRefresh'
  BY <1>2, <1>4 DEF AccessFollowsRefresh
<1>10. RenewedOnce'
  BY <1>2, <1>4 DEF RenewedOnce
<1>11. \A f \in loggedOut' : call'[f].pc = "done"
  BY <1>2 DEF LogoutInv, TypeOK
<1> QED
  BY <1>1, <1>5, <1>6, <1>8, <1>9, <1>10, <1>11 DEF LogoutInv

-----------------------------------------------------------------------------
(***************************************************************************)
(* Calls that store their tokens.                                          *)
(***************************************************************************)

\* What a call in progress looks like after its program counter has moved.
LEMMA PcMoves ==
  ASSUME TypeOK, NEW g \in Call, call[g] \in Serving,
         NEW pc \in {"renew", "rotate", "done", "failed"},
         call' = [call EXCEPT ![g].pc = pc]
  PROVE  /\ call' \in [Call -> Serving \cup {Idle("ready"), Idle("failed")}]
         /\ call'[g].pc = pc /\ call'[g].root = call[g].root
         /\ call'[g].current = call[g].current /\ call'[g].owner = call[g].owner
         /\ \A h \in Call \ {g} : call'[h] = call[h]
<1> DEFINE c == [call[g] EXCEPT !.pc = pc]
<1>1. /\ c \in Serving /\ c.pc = pc /\ c.root = call[g].root
      /\ c.current = call[g].current /\ c.owner = call[g].owner
  BY DEF Serving
<1>2. call' = [call EXCEPT ![g] = c]
  OBVIOUS
<1> HIDE DEF c
<1> QED
  BY <1>1, <1>2 DEF TypeOK

LEMMA GrantRefreshKeeps ==
  ASSUME IndInv, NEW g \in Call, GrantRefresh(g)
  PROVE  IndInv'
<1> USE DEF IndInv
<1> DEFINE t == [owner |-> call[g].owner, access |-> g, exp |-> clock + RefreshLife]
<1>1. /\ call[g].pc = "refresh" /\ refreshTokens' = [refreshTokens EXCEPT ![g] = t]
      /\ call' = [call EXCEPT ![g].pc = "done"]
      /\ UNCHANGED <<clock, tokens, revoke, restarts, loggedOut>>
  BY DEF GrantRefresh
<1>2. call[g] \in Serving /\ call[g].root = g /\ call[g].current = None
  BY <1>1, CallTypes DEF CallInv, CallOK
<1>3. t \in RefreshToken /\ t.owner = call[g].owner /\ t.access = g
  <2>1. clock + RefreshLife \in 0 .. MaxTime + RefreshLife
    BY TSAssumption DEF TypeOK
  <2>2. call[g].owner \in Owner
    BY <1>2 DEF Serving
  <2> QED
    BY <2>1, <2>2 DEF RefreshToken
<1> HIDE DEF t
<1>4. /\ call' \in [Call -> Serving \cup {Idle("ready"), Idle("failed")}]
      /\ call'[g].pc = "done" /\ call'[g].root = g
      /\ call'[g].current = None /\ call'[g].owner = call[g].owner
      /\ \A h \in Call \ {g} : call'[h] = call[h]
  BY <1>1, <1>2, PcMoves
<1>5. /\ refreshTokens'[g] = t
      /\ \A h \in Call \ {g} : refreshTokens'[h] = refreshTokens[h]
  BY <1>1 DEF TypeOK
<1>6. TypeOK'
  BY <1>1, <1>3, <1>4 DEF TypeOK
<1>7. refreshTokens[g] = None
  BY <1>1 DEF StoreInv, RefreshOK
<1>8. \A h \in Call : call[h].pc = "done" => h # g /\ call[h].root # g
  BY <1>1 DEF CallInv, CallOK
<1>9. CallInv'
  <2> SUFFICES ASSUME NEW h \in Call PROVE CallOK(h)'
    BY DEF CallInv
  <2>1. CASE h = g
    BY <1>4, <2>1, TSAssumption DEF CallOK
  <2>2. CASE h # g
    <3>1. CallOK(h)
      BY DEF CallInv
    <3>2. call[h].current \in Call => call[h].current # g
      BY <1>1, <3>1 DEF CallOK, Follows
    <3>3. call[h].pc = "done" => call[h].root \in Call \ {g}
      BY <1>8, CallTypes
    <3>4. call[h].current \in Call \cup {None}
      BY CallTypes
    <3> QED
      BY <1>4, <1>5, <2>2, <3>1, <3>2, <3>3, <3>4 DEF CallOK, Follows
  <2> QED
    BY <2>1, <2>2
<1>10. StoreInv'
  <2> SUFFICES ASSUME NEW h \in Call PROVE AccessOK(h)' /\ RefreshOK(h)'
    BY DEF StoreInv
  <2>1. AccessOK(h) /\ RefreshOK(h)
    BY DEF StoreInv
  <2>2. AccessOK(h)'
    BY <1>1, <1>2, <1>4, <2>1 DEF AccessOK
  <2>3. RefreshOK(h)'
    BY <1>3, <1>4, <1>5, <2>1 DEF RefreshOK
  <2> QED
    BY <2>2, <2>3
<1>11. \A h \in Call : refreshTokens[h] # None => h # g /\ call[h].root # g
  BY <1>8 DEF StoreInv, RefreshOK
<1>12. OnePerFamily'
  BY <1>4, <1>5, <1>11 DEF OnePerFamily
<1>13. AccessFollowsRefresh'
  BY <1>1, <1>3, <1>4, <1>5, TSAssumption DEF AccessFollowsRefresh
<1>14. RenewedOnce'
  BY <1>4 DEF RenewedOnce
<1>15. g \notin loggedOut /\ \A f \in loggedOut : f \in Call
  BY <1>1 DEF LogoutInv, TypeOK
<1>16. LogoutInv'
  BY <1>1, <1>4, <1>5, <1>15 DEF LogoutInv, LogoutEndsFamily
<1> QED
  BY <1>6, <1>9, <1>10, <1>12, <1>13, <1>14, <1>16

LEMMA RenewAccessKeeps ==
  ASSUME IndInv, NEW g \in Call, RenewAccess(g)
  PROVE  IndInv'
<1> USE DEF IndInv
<1> DEFINE t == [owner |-> call[g].owner, refresh |-> g]
<1>1. /\ call[g].pc = "renew" /\ tokens' = [tokens EXCEPT ![g] = t]
      /\ call' = [call EXCEPT ![g].pc = "rotate"]
      /\ UNCHANGED <<clock, refreshTokens, revoke, restarts, loggedOut>>
  BY DEF RenewAccess, StoreAccess
<1>2. call[g] \in Serving /\ call[g].root \in Call /\ call[g].current \in Call
  BY <1>1, CallTypes DEF CallInv, CallOK
<1>3. t \in Token /\ t.owner = call[g].owner /\ t.refresh = g
  <2>1. call[g].owner \in Owner
    BY <1>2 DEF Serving
  <2> QED
    BY <2>1 DEF Token
<1> HIDE DEF t
<1>4. /\ call' \in [Call -> Serving \cup {Idle("ready"), Idle("failed")}]
      /\ call'[g].pc = "rotate" /\ call'[g].root = call[g].root
      /\ call'[g].current = call[g].current /\ call'[g].owner = call[g].owner
      /\ \A h \in Call \ {g} : call'[h] = call[h]
  BY <1>1, <1>2, PcMoves
<1>5. /\ tokens'[g] = t
      /\ \A h \in Call \ {g} : tokens'[h] = tokens[h]
  BY <1>1 DEF TypeOK
<1>6. TypeOK'
  BY <1>1, <1>3, <1>4 DEF TypeOK
<1>7. refreshTokens[g] = None
  BY <1>1 DEF StoreInv, RefreshOK
<1>8. CallInv'
  <2> SUFFICES ASSUME NEW h \in Call PROVE CallOK(h)'
    BY DEF CallInv
  <2>1. CallOK(h)
    BY DEF CallInv
  <2>2. call[h].current \in Call => call[h].current # g
    BY <1>1, <2>1 DEF CallOK, Follows
  <2>3. call[h].pc = "done" => call[h].root \in Call \ {g}
    BY <1>1, <2>1, CallTypes DEF CallOK
  <2> QED
    BY <1>1, <1>2, <1>4, <2>1, <2>2, <2>3 DEF CallOK, Follows
<1>9. StoreInv'
  <2> SUFFICES ASSUME NEW h \in Call PROVE AccessOK(h)' /\ RefreshOK(h)'
    BY DEF StoreInv
  <2>1. AccessOK(h) /\ RefreshOK(h)
    BY DEF StoreInv
  <2>2. AccessOK(h)'
    BY <1>2, <1>3, <1>4, <1>5, <2>1 DEF AccessOK
  <2>3. RefreshOK(h)'
    BY <1>1, <1>4, <1>7, <2>1 DEF RefreshOK
  <2> QED
    BY <2>2, <2>3
<1>10. OnePerFamily' /\ LogoutEndsFamily'
  BY <1>1, <1>4 DEF OnePerFamily, LogoutInv, LogoutEndsFamily
<1>11. AccessFollowsRefresh'
  BY <1>1, <1>4, <1>5 DEF AccessFollowsRefresh
<1>12. RenewedOnce'
  BY <1>1, <1>4 DEF RenewedOnce
<1>13. \A f \in loggedOut' : call'[f].pc = "done"
  BY <1>1, <1>4 DEF LogoutInv, TypeOK
<1> QED
  BY <1>6, <1>8, <1>9, <1>10, <1>11, <1>12, <1>13 DEF LogoutInv

\* What a renewal finds when its current token is still stored.
LEMMA RenewalFinds ==
  ASSUME IndInv, NEW g \in Call, call[g].pc = "rotate",
         refreshTokens[call[g].current] # None
  PROVE  /\ call[g] \in Serving /\ call[g].current \in Call
         /\ call[g].current # g /\ refreshTokens[g] = None
         /\ call[call[g].current].pc = "done"
         /\ call[g].root = call[call[g].current].root
         /\ call[g].owner = call[call[g].current].owner
         /\ refreshTokens[call[g].current].access = call[g].current
         /\ refreshTokens[call[g].current].owner = call[g].owner
<1> DEFINE r == call[g].current
<1>1. call[g] \in Serving /\ r \in Call
  BY CallTypes DEF IndInv, CallInv, CallOK
<1>2. Follows(g, r)
  BY <1>1 DEF IndInv, CallInv, CallOK
<1>3. r # g /\ refreshTokens[g] = None
  BY <1>2 DEF IndInv, StoreInv, RefreshOK, Follows
<1>4. refreshTokens[r].access = r /\ refreshTokens[r].owner = call[r].owner
  BY <1>1 DEF IndInv, StoreInv, RefreshOK
<1> QED
  BY <1>1, <1>2, <1>3, <1>4 DEF Follows

LEMMA RenewalKeeps ==
  ASSUME IndInv, NEW g \in Call, RenewRefresh(g),
         ~(refreshTokens[call[g].current].exp < clock)
  PROVE  IndInv'
<1> USE DEF IndInv
<1> DEFINE r == call[g].current
           t == Rotated(r, g)
<1>1. /\ call[g].pc = "rotate" /\ refreshTokens[r] # None
      /\ tokens' = [tokens EXCEPT ![refreshTokens[r].access] = None]
      /\ refreshTokens' = [refreshTokens EXCEPT ![r] = None, ![g] = t]
      /\ call' = [call EXCEPT ![g].pc = "done"]
      /\ UNCHANGED <<clock, revoke, restarts, loggedOut>>
  BY DEF RenewRefresh
<1>2. /\ call[g] \in Serving /\ r \in Call
      /\ r # g /\ refreshTokens[g] = None
      /\ call[r].pc = "done"
      /\ call[g].root = call[r].root
      /\ call[g].owner = call[r].owner
      /\ refreshTokens[r].access = r
      /\ refreshTokens[r].owner = call[g].owner
  BY <1>1, RenewalFinds
<1>3. t \in RefreshToken /\ t.owner = call[g].owner /\ t.access = g
  <2>1. clock + RefreshLife \in 0 .. MaxTime + RefreshLife
    BY TSAssumption DEF TypeOK
  <2>2. call[g].owner \in Owner
    BY <1>2 DEF Serving
  <2> QED
    BY <1>2, <2>1, <2>2 DEF RefreshToken, Rotated
<1>4. /\ call' \in [Call -> Serving \cup {Idle("ready"), Idle("failed")}]
      /\ call'[g].pc = "done" /\ call'[g].root = call[g].root
      /\ call'[g].current = r /\ call'[g].owner = call[g].owner
      /\ \A h \in Call \ {g} : call'[h] = call[h]
  BY <1>1, <1>2, PcMoves
<1> HIDE DEF t, r
<1>5. /\ refreshTokens'[g] = t /\ refreshTokens'[r] = None
      /\ \A h \in Call \ {g, r} : refreshTokens'[h] = refreshTokens[h]
      /\ tokens'[r] = None
      /\ \A h \in Call \ {r} : tokens'[h] = tokens[h]
  BY <1>1, <1>2 DEF TypeOK
<1>6. TypeOK'
  BY <1>1, <1>2, <1>3, <1>4 DEF TypeOK
<1>7. t # None
  BY <1>3, TSAssumption
<1>8. CallOK(r) /\ call[r].root \in Call
  BY <1>2, CallTypes DEF CallInv
<1>9. call[r].root # g
  BY <1>1, <1>2, <1>8 DEF CallOK
<1>10. CallInv'
  <2> SUFFICES ASSUME NEW h \in Call PROVE CallOK(h)'
    BY DEF CallInv
  <2>1. CASE h = g
    BY <1>2, <1>4, <1>5, <1>8, <1>9, <2>1, TSAssumption DEF CallOK, Follows
  <2>2. CASE h # g
    <3>1. CallOK(h)
      BY DEF CallInv
    <3>2. call[h].current \in Call => call[h].current # g
      BY <1>1, <3>1 DEF CallOK, Follows
    <3>3. call[h].pc = "done" => call[h].root \in Call \ {g}
      BY <1>1, <3>1, CallTypes DEF CallOK
    <3>4. call[h].current \in Call \cup {None}
      BY CallTypes
    <3> QED
      BY <1>4, <1>5, <2>2, <3>1, <3>2, <3>3, <3>4 DEF CallOK, Follows
  <2> QED
    BY <2>1, <2>2
<1>11. StoreInv'
  <2> SUFFICES ASSUME NEW h \in Call PROVE AccessOK(h)' /\ RefreshOK(h)'
    BY DEF StoreInv
  <2>1. AccessOK(h) /\ RefreshOK(h)
    BY DEF StoreInv
  <2>2. AccessOK(h)'
    BY <1>1, <1>2, <1>4, <1>5, <2>1 DEF AccessOK
  <2>3. RefreshOK(h)'
    BY <1>2, <1>3, <1>4, <1>5, <2>1 DEF RefreshOK
  <2> QED
    BY <2>2, <2>3
<1>12. \A h \in Call \ {r} : refreshTokens[h] # None => call[h].root # call[r].root
  BY <1>1, <1>2 DEF OnePerFamily
<1>13. OnePerFamily'
  BY <1>2, <1>4, <1>5, <1>12 DEF OnePerFamily
<1>14. AccessFollowsRefresh'
  BY <1>2, <1>3, <1>4, <1>5, <1>7 DEF AccessFollowsRefresh
<1>15. \A h \in Call : call[h].pc = "done" => call[h].current # r
  BY <1>1, <1>2, TSAssumption DEF CallInv, CallOK
<1>16. RenewedOnce'
  BY <1>4, <1>15 DEF RenewedOnce
<1>17. call[r].root \notin loggedOut /\ \A f \in loggedOut : f \in Call
  BY <1>1, <1>2 DEF LogoutInv, LogoutEndsFamily, TypeOK
<1>18. LogoutInv'
  <2>1. LogoutEndsFamily'
    BY <1>1, <1>2, <1>4, <1>5, <1>17 DEF LogoutInv, LogoutEndsFamily
  <2>2. \A f \in loggedOut' : call'[f].pc = "done"
    BY <1>1, <1>4, <1>17 DEF LogoutInv
  <2> QED
    BY <2>1, <2>2 DEF LogoutInv
<1> QED
  BY <1>6, <1>10, <1>11, <1>13, <1>14, <1>16, <1>18

-----------------------------------------------------------------------------
(***************************************************************************)
(* The steps that drop tokens.                                             *)
(***************************************************************************)

LEMMA RenewalExpires ==
  ASSUME IndInv, NEW g \in Call, RenewRefresh(g),
         refreshTokens[call[g].current].exp < clock
  PROVE  Drops /\ TypeOK'
<1> DEFINE r == call[g].current
<1>1. /\ call[g].pc = "rotate" /\ refreshTokens[r] # None
      /\ tokens' = [tokens EXCEPT ![refreshTokens[r].access] = None]
      /\ refreshTokens' = [refreshTokens EXCEPT ![r] = None]
      /\ call' = [call EXCEPT ![g].pc = "failed"]
      /\ UNCHANGED <<clock, revoke, restarts, loggedOut>>
  BY DEF RenewRefresh
<1>2. call[g] \in Serving /\ r \in Call /\ refreshTokens[r].access = r
  BY <1>1, RenewalFinds
<1>3. /\ call' \in [Call -> Serving \cup {Idle("ready"), Idle("failed")}]
      /\ \A h \in Call \ {g} : call'[h] = call[h]
      /\ call'[g] = [call[g] EXCEPT !.pc = "failed"]
  BY <1>1, <1>2, PcMoves DEF IndInv, TypeOK
<1> HIDE DEF r
<1>4. Drops
  BY <1>1, <1>2, <1>3 DEF Drops, IndInv, TypeOK
<1>5. TypeOK'
  BY <1>1, <1>2, <1>3 DEF IndInv, TypeOK
<1> QED
  BY <1>4, <1>5

LEMMA RenewalGoneDrops ==
  ASSUME IndInv, NEW g \in Call, RenewRefreshGone(g)
  PROVE  Drops /\ TypeOK'
<1>1. /\ call[g].pc = "rotate"
      /\ call' = [call EXCEPT ![g].pc = "failed"]
      /\ UNCHANGED <<clock, tokens, refreshTokens, revoke, restarts, loggedOut>>
  BY DEF RenewRefreshGone
<1>2. call[g] \in Serving
  BY <1>1, CallTypes DEF IndInv
<1>3. /\ call' \in [Call -> Serving \cup {Idle("ready"), Idle("failed")}]
      /\ \A h \in Call \ {g} : call'[h] = call[h]
      /\ call'[g] = [call[g] EXCEPT !.pc = "failed"]
  BY <1>1, <1>2, PcMoves DEF IndInv, TypeOK
<1>4. Drops
  BY <1>1, <1>3 DEF Drops
<1>5. TypeOK'
  BY <1>1, <1>3 DEF IndInv, TypeOK
<1> QED
  BY <1>4, <1>5

\* A revoker reads ids, some of them too late, and changes nothing.
LEMMA RevokerReads ==
  ASSUME IndInv, NEW v \in Revoker,
         PresentAccessToken(v) \/ GetRefreshTokenInfo(v) \/ ReadRenewedID(v)
  PROVE  Drops /\ TypeOK'
<1>1. UNCHANGED <<clock, tokens, refreshTokens, call, restarts, loggedOut>>
  BY DEF PresentAccessToken, GetRefreshTokenInfo, ReadRenewedID
<1>2. Drops
  BY <1>1 DEF Drops
<1>3. revoke' \in [Revoker -> Revoking \cup {None}]
  <2>1. CASE PresentAccessToken(v)
    <3>1. \A g \in Call : [kind |-> "access", id |-> g] \in Revoking
      BY DEF Revoking
    <3> QED
      BY <2>1, <3>1 DEF PresentAccessToken, IndInv, TypeOK
  <2>2. CASE GetRefreshTokenInfo(v)
    <3>1. \A g \in Call : [kind |-> "refresh", id |-> g] \in Revoking
      BY DEF Revoking
    <3> QED
      BY <2>2, <3>1 DEF GetRefreshTokenInfo, IndInv, TypeOK
  <2>3. CASE ReadRenewedID(v)
    <3>1. PICK g \in Call : revoke' = [revoke EXCEPT ![v].id = g]
      BY <2>3 DEF ReadRenewedID, Rooted
    <3>2. revoke[v] \in Revoking
      BY <2>3 DEF ReadRenewedID, IndInv, TypeOK
    <3>3. [revoke[v] EXCEPT !.id = g] \in Revoking
      BY <3>2 DEF Revoking
    <3> QED
      BY <3>1, <3>3 DEF IndInv, TypeOK
  <2> QED
    BY <2>1, <2>2, <2>3
<1> QED
  BY <1>1, <1>2, <1>3 DEF IndInv, TypeOK

LEMMA RevokeTokenDrops ==
  ASSUME IndInv, NEW v \in Revoker, RevokeToken(v)
  PROVE  Drops /\ TypeOK'
<1> DEFINE r == revoke[v].id
<1>1. /\ revoke[v] # None
      /\ RevokeAccess(v) \/ RevokeRefresh(v) \/ UNCHANGED <<tokens, refreshTokens>>
      /\ revoke' = [revoke EXCEPT ![v] = None]
      /\ UNCHANGED <<clock, call, restarts, loggedOut>>
  BY DEF RevokeToken
<1>2. r \in Call
  BY <1>1 DEF IndInv, TypeOK, Revoking
<1>3. \/ tokens' = [tokens EXCEPT ![r] = None] /\ UNCHANGED refreshTokens
      \/ /\ refreshTokens' = [refreshTokens EXCEPT ![r] = None]
         /\ refreshTokens[r] = None /\ UNCHANGED tokens
      \/ /\ refreshTokens' = [refreshTokens EXCEPT ![r] = None]
         /\ tokens' = [tokens EXCEPT ![r] = None]
      \/ UNCHANGED <<tokens, refreshTokens>>
  <2>1. refreshTokens[r] # None => refreshTokens[r].access = r
    BY <1>2 DEF IndInv, StoreInv, RefreshOK
  <2> QED
    BY <1>1, <2>1 DEF RevokeAccess, RevokeRefresh
<1> HIDE DEF r
<1>4. Drops
  BY <1>1, <1>2, <1>3 DEF Drops, IndInv, TypeOK
<1>5. TypeOK'
  BY <1>1, <1>2, <1>3 DEF IndInv, TypeOK
<1> QED
  BY <1>4, <1>5

\* The families that a logout found signed in have lost their refresh tokens:
\* the one they had is named by an access token that the logout deleted.
LEMMA TerminateSessionDrops ==
  ASSUME IndInv, NEW o \in Owner, TerminateSession(o)
  PROVE  Drops /\ TypeOK'
<1> USE DEF IndInv
<1> DEFINE mine == {g \in Call : tokens[g] # None /\ tokens[g].owner = o}
           named == {tokens[g].refresh : g \in mine}
<1>1. /\ tokens' = [g \in Call |-> IF g \in mine THEN None ELSE tokens[g]]
      /\ refreshTokens' =
           [g \in Call |-> IF g \in named THEN None ELSE refreshTokens[g]]
      /\ loggedOut' = loggedOut \cup
           {call[g].root : g \in {q \in mine : call[q].pc = "done"}}
      /\ UNCHANGED <<clock, call, revoke, restarts>>
  BY DEF TerminateSession
<1>2. ASSUME NEW g \in Call, g \in named
      PROVE  refreshTokens[g] = None \/ g \in mine
  <2>1. PICK h \in mine : g = tokens[h].refresh
    BY <1>2
  <2>2. g = h
    BY <1>2, <2>1, TSAssumption DEF StoreInv, AccessOK
  <2> QED
    BY <2>1, <2>2
<1>3. ASSUME NEW g \in mine, call[g].pc = "done"
      PROVE  /\ g \in named
             /\ call[g].root \in Call /\ call[call[g].root].pc = "done"
             /\ \A h \in Call : call[h].root = call[g].root => refreshTokens'[h] = None
  <2>1. tokens[g].refresh = g /\ refreshTokens[g] # None
    BY <1>3 DEF StoreInv, AccessOK, AccessFollowsRefresh
  <2>2. g \in named
    BY <2>1
  <2>3. \A h \in Call : call[h].root = call[g].root /\ h # g => refreshTokens[h] = None
    BY <2>1 DEF OnePerFamily
  <2>4. call[g].root \in Call /\ call[call[g].root].pc = "done"
    BY <1>3, CallTypes DEF CallInv, CallOK
  <2>5. \A h \in Call : refreshTokens[h] = None \/ h = g => refreshTokens'[h] = None
    BY <1>1, <2>2
  <2> QED
    BY <2>2, <2>3, <2>4, <2>5
<1>4. \A f \in loggedOut' :
        \/ f \in loggedOut
        \/ /\ f \in Call /\ call[f].pc = "done"
           /\ \A g \in Call : call[g].root = f => refreshTokens'[g] = None
  BY <1>1, <1>3
<1>5. /\ \A g \in Call : /\ tokens'[g] \in {tokens[g], None}
                         /\ refreshTokens'[g] \in {refreshTokens[g], None}
      /\ tokens' \in [Call -> Token \cup {None}]
      /\ refreshTokens' \in [Call -> RefreshToken \cup {None}]
  BY <1>1 DEF TypeOK
<1>6. \A g \in Call : refreshTokens'[g] = refreshTokens[g] \/ tokens'[g] = None
  BY <1>1, <1>2
<1> HIDE DEF mine, named
<1>7. Drops
  BY <1>1, <1>4, <1>5, <1>6 DEF Drops
<1>8. loggedOut' \subseteq Call
  BY <1>4 DEF TypeOK
<1> QED
  BY <1>1, <1>5, <1>7, <1>8 DEF TypeOK

LEMMA TickDrops ==
  ASSUME IndInv, Tick
  PROVE  Drops /\ TypeOK'
<1>1. clock' \in 0 .. MaxTime
  BY TSAssumption DEF Tick, IndInv, TypeOK
<1> QED
  BY <1>1 DEF Tick, Drops, IndInv, TypeOK

LEMMA RestartDrops ==
  ASSUME IndInv, Restart
  PROVE  Drops /\ TypeOK'
<1>1. /\ \A g \in Call :
           /\ tokens'[g] = None /\ refreshTokens'[g] = None
           /\ call'[g] = IF call[g].pc \in {"refresh", "renew", "rotate"}
                           THEN [call[g] EXCEPT !.pc = "failed"] ELSE call[g]
      /\ UNCHANGED <<clock, loggedOut>>
  BY DEF Restart
<1>2. Drops
  BY <1>1 DEF Drops
<1>3. ASSUME NEW g \in Call
      PROVE  call'[g] \in Serving \cup {Idle("ready"), Idle("failed")}
  <2>1. CASE call[g].pc \in {"refresh", "renew", "rotate"}
    <3>1. call[g] \in Serving
      BY <2>1, CallTypes DEF IndInv
    <3>2. [call[g] EXCEPT !.pc = "failed"] \in Serving
      BY <3>1 DEF Serving
    <3> QED
      BY <1>1, <2>1, <3>2
  <2>2. CASE ~(call[g].pc \in {"refresh", "renew", "rotate"})
    BY <1>1, <2>2 DEF IndInv, TypeOK
  <2> QED
    BY <2>1, <2>2
<1>4. call' \in [Call -> Serving \cup {Idle("ready"), Idle("failed")}]
  BY <1>3 DEF Restart
<1>5. restarts' \in 0 .. MaxRestarts
  BY TSAssumption DEF Restart, IndInv, TypeOK
<1>6. /\ tokens' \in [Call -> Token \cup {None}]
      /\ refreshTokens' \in [Call -> RefreshToken \cup {None}]
      /\ revoke' \in [Revoker -> Revoking \cup {None}]
  BY DEF Restart
<1> QED
  BY <1>1, <1>2, <1>4, <1>5, <1>6 DEF IndInv, TypeOK

LEMMA NextInv == IndInv /\ [Next]_vars => IndInv'
<1> SUFFICES ASSUME IndInv, [Next]_vars PROVE IndInv'
  OBVIOUS
<1>1. ASSUME NEW g \in Call, NEW c, Begins(g, c)
      PROVE  IndInv'
  BY <1>1, BeginsKeeps
<1>2. ASSUME Drops /\ TypeOK'
      PROVE  IndInv'
  BY <1>2, DropsKeeps
<1>3. ASSUME NEW g \in Call, CreateAccessToken(g)
      PROVE  IndInv'
  BY <1>1, <1>3, CreateAccessTokenBegins
<1>4. ASSUME NEW g \in Call, GrantAccess(g)
      PROVE  IndInv'
  BY <1>1, <1>4, GrantAccessBegins
<1>5. ASSUME NEW g \in Call, GrantRefresh(g)
      PROVE  IndInv'
  BY <1>5, GrantRefreshKeeps
<1>6. ASSUME NEW g \in Call, TokenRequestByRefreshToken(g)
      PROVE  IndInv'
  BY <1>1, <1>6, TokenRequestBegins
<1>7. ASSUME NEW g \in Call, RenewAccess(g)
      PROVE  IndInv'
  BY <1>7, RenewAccessKeeps
<1>8. ASSUME NEW g \in Call, RenewRefresh(g)
      PROVE  IndInv'
  BY <1>2, <1>8, RenewalKeeps, RenewalExpires
<1>9. ASSUME NEW g \in Call, RenewRefreshGone(g)
      PROVE  IndInv'
  BY <1>2, <1>9, RenewalGoneDrops
<1>10. ASSUME NEW v \in Revoker,
              PresentAccessToken(v) \/ GetRefreshTokenInfo(v) \/ ReadRenewedID(v)
       PROVE  IndInv'
  BY <1>2, <1>10, RevokerReads
<1>11. ASSUME NEW v \in Revoker, RevokeToken(v)
       PROVE  IndInv'
  BY <1>2, <1>11, RevokeTokenDrops
<1>12. ASSUME NEW o \in Owner, TerminateSession(o)
       PROVE  IndInv'
  BY <1>2, <1>12, TerminateSessionDrops
<1>13. CASE Tick
  BY <1>2, <1>13, TickDrops
<1>14. CASE Restart
  BY <1>2, <1>14, RestartDrops
<1>15. CASE UNCHANGED vars
  <2>1. Drops
    BY <1>15 DEF Drops, vars
  <2>2. TypeOK'
    BY <1>15 DEF IndInv, TypeOK, vars
  <2> QED
    BY <1>2, <2>1, <2>2
<1> QED
  BY <1>3, <1>4, <1>5, <1>6, <1>7, <1>8, <1>9, <1>10, <1>11, <1>12, <1>13,
     <1>14, <1>15 DEF Next

\* Tokens are issued, renewed, revoked and lost in steps that each keep the
\* inductive invariant.
THEOREM Invariance == Spec => []IndInv
<1>1. Init => IndInv
  BY InitInv
<1>2. IndInv /\ [Next]_vars => IndInv'
  BY NextInv
<1> QED
  BY <1>1, <1>2, PTL DEF Spec

-----------------------------------------------------------------------------
(***************************************************************************)
(* What it implies.                                                        *)
(***************************************************************************)

\* The maps, the calls and the revokers are type-correct.
THEOREM TypeCorrect == Spec => []TypeOK
<1>1. IndInv => TypeOK
  BY DEF IndInv
<1> QED
  BY <1>1, Invariance, PTL

\* No refresh token is renewed twice, however many calls read it in
\* TokenRequestByRefreshToken before the first reaches renewRefreshToken.
THEOREM RenewedOnceHolds == Spec => []RenewedOnce
<1>1. IndInv => RenewedOnce
  BY DEF IndInv
<1> QED
  BY <1>1, Invariance, PTL

\* Whoever takes away the refresh token of a call takes its access token too.
THEOREM AccessFollowsRefreshHolds == Spec => []AccessFollowsRefresh
<1>1. IndInv => AccessFollowsRefresh
  BY DEF IndInv
<1> QED
  BY <1>1, Invariance, PTL

\* TerminateSession ends the families it finds signed in, renewals in
\* progress included.
THEOREM LogoutEndsFamilyHolds == Spec => []LogoutEndsFamily
<1>1. IndInv => LogoutEndsFamily
  BY DEF IndInv, LogoutInv
<1> QED
  BY <1>1, Invariance, PTL

\* Renewals never change whom the tokens of a family are for.
THEOREM FamilyKeepsOwnerHolds == Spec => []FamilyKeepsOwner
<1>1. IndInv => FamilyKeepsOwner
  <2> SUFFICES ASSUME IndInv, NEW g \in Call, refreshTokens[g] # None
               PROVE  /\ refreshTokens[g].owner = call[call[g].root].owner
                      /\ tokens[g] # None => tokens[g].owner = call[call[g].root].owner
    BY DEF FamilyKeepsOwner
  <2>1. AccessOK(g) /\ RefreshOK(g) /\ CallOK(g)
    BY DEF IndInv, StoreInv, CallInv
  <2> QED
    BY <2>1 DEF AccessOK, RefreshOK, CallOK
<1> QED
  BY <1>1, Invariance, PTL

-----------------------------------------------------------------------------
(***************************************************************************)
(* The maps implement rotating tokens: every step of the bridge opens a    *)
(* family, replaces its token, closes families, or changes nothing that    *)
(* can be seen of them.                                                    *)
(***************************************************************************)

LEMMA InitRefines == Init => RT!Init
<1> SUFFICES ASSUME Init PROVE RT!Init
  OBVIOUS
<1>1. \A g \in Call : refreshTokens[g] = None /\ call[g].pc = "ready"
  BY DEF Init, Idle
<1>2. ValidTokens = [f \in Call |-> {}] /\ RetiredTokens = {}
  BY <1>1 DEF ValidTokens, Stored, Rooted, RetiredTokens
<1> QED
  BY <1>2 DEF RT!Init

\* A step that stores no refresh token closes the families that lose theirs.
LEMMA LosingCloses ==
  ASSUME IndInv,
         \A g \in Call :
           /\ refreshTokens'[g] \in {refreshTokens[g], None}
           /\ call'[g].pc = "done" <=> call[g].pc = "done"
           /\ refreshTokens[g] # None => call'[g].root = call[g].root
  PROVE  RT!Next
<1> USE DEF IndInv
<1> DEFINE lost == {g \in Call : refreshTokens[g] # None /\ refreshTokens'[g] = None}
           F == {call[g].root : g \in lost}
<1>1. \A g \in Call : refreshTokens[g] # None =>
        /\ call[g].pc = "done" /\ call[g].root \in Call
        /\ g \in Stored(call[g].root)
  BY CallTypes DEF StoreInv, RefreshOK, Stored, Rooted
<1>2. \A f \in Call : ValidTokens[f] = Stored(f) /\ ValidTokens'[f] = Stored(f)'
  BY DEF ValidTokens
<1>3. F \in SUBSET RT!Live
  BY <1>1, <1>2 DEF RT!Live
<1>4. ASSUME NEW f \in Call
      PROVE  Stored(f)' = IF f \in F THEN {} ELSE Stored(f)
  <2>1. CASE f \in F
    <3>1. PICK g \in lost : f = call[g].root
      BY <2>1
    <3>2. \A h \in Call : h # g /\ refreshTokens[h] # None => call[h].root # f
      BY <3>1 DEF OnePerFamily
    <3>3. \A h \in Call : refreshTokens'[h] # None =>
            h # g /\ refreshTokens[h] # None /\ call'[h].root = call[h].root
      BY <3>1
    <3> QED
      BY <2>1, <3>2, <3>3 DEF Stored, Rooted
  <2>2. CASE f \notin F
    <3>1. \A h \in Call : refreshTokens[h] # None /\ call[h].root = f =>
            refreshTokens'[h] # None
      BY <2>2
    <3> QED
      BY <2>2, <3>1 DEF Stored, Rooted
  <2> QED
    BY <2>1, <2>2
<1>5. UNION {ValidTokens[f] : f \in F} = lost
  <2>1. ASSUME NEW f \in F
        PROVE  f \in Call /\ \A h \in ValidTokens[f] : h \in lost
    <3>1. PICK g \in lost : f = call[g].root
      BY <2>1
    <3>2. f \in Call
      BY <1>1, <3>1
    <3>3. \A h \in Stored(f) : h = g
      BY <3>1 DEF OnePerFamily, Stored, Rooted
    <3> QED
      BY <1>2, <3>1, <3>2, <3>3
  <2>2. \A g \in lost : call[g].root \in F /\ g \in ValidTokens[call[g].root]
    BY <1>1, <1>2
  <2> HIDE DEF F, lost
  <2> QED
    BY <2>1, <2>2
<1>6. RetiredTokens' = RetiredTokens \cup lost
  BY <1>1 DEF RetiredTokens
<1>7. ValidTokens' = [f \in Call |-> IF f \in F THEN {} ELSE ValidTokens[f]]
  BY <1>2, <1>4 DEF ValidTokens
<1> HIDE DEF F, lost
<1>8. RT!Close(F)
  BY <1>5, <1>6, <1>7 DEF RT!Close
<1> QED
  BY <1>3, <1>8 DEF RT!Next

LEMMA DropsRefines ==
  ASSUME IndInv, Drops
  PROVE  RT!Next
<1>1. \A g \in Call :
        /\ call'[g].root = call[g].root
        /\ \/ call'[g].pc = call[g].pc
           \/ call[g].pc \in {"refresh", "renew", "rotate"} /\ call'[g].pc = "failed"
  BY DropsMoves DEF IndInv
<1> QED
  BY <1>1, LosingCloses DEF Drops

LEMMA BeginsRefines ==
  ASSUME IndInv, NEW g \in Call, NEW c, Begins(g, c)
  PROVE  RT!Next
<1>1. /\ call'[g] = c /\ call[g].pc = "ready" /\ c.pc # "done"
      /\ \A h \in Call \ {g} : call'[h] = call[h]
      /\ UNCHANGED refreshTokens
  BY DEF Begins, Idle, IndInv, TypeOK
<1>2. refreshTokens[g] = None
  BY <1>1 DEF IndInv, StoreInv, RefreshOK
<1> QED
  BY <1>1, <1>2, LosingCloses

LEMMA RenewAccessRefines ==
  ASSUME IndInv, NEW g \in Call, RenewAccess(g)
  PROVE  RT!Next
<1>1. /\ call[g].pc = "renew" /\ UNCHANGED refreshTokens
      /\ call' = [call EXCEPT ![g].pc = "rotate"]
  BY DEF RenewAccess
<1>2. call[g] \in Serving
  BY <1>1, CallTypes DEF IndInv
<1>3. /\ call'[g].pc = "rotate" /\ call'[g].root = call[g].root
      /\ \A h \in Call \ {g} : call'[h] = call[h]
  BY <1>1, <1>2, PcMoves DEF IndInv
<1> QED
  BY <1>1, <1>3, LosingCloses

\* The first refresh token of a family opens it: nobody else names a family
\* after this call.
LEMMA GrantRefreshRefines ==
  ASSUME IndInv, NEW g \in Call, GrantRefresh(g)
  PROVE  RT!Next
<1> USE DEF IndInv
<1>1. /\ call[g].pc = "refresh" /\ call' = [call EXCEPT ![g].pc = "done"]
      /\ \A h \in Call \ {g} : refreshTokens'[h] = refreshTokens[h]
  BY DEF GrantRefresh, TypeOK
<1>2. call[g] \in Serving /\ call[g].root = g
  BY <1>1, CallTypes DEF CallInv, CallOK
<1>3. /\ call'[g].pc = "done" /\ call'[g].root = g
      /\ \A h \in Call \ {g} : call'[h] = call[h]
  BY <1>1, <1>2, PcMoves
<1>4. refreshTokens'[g] # None
  <2>1. refreshTokens' \in [Call -> RefreshToken \cup {None}]
    BY GrantRefreshKeeps DEF TypeOK
  <2>2. call[g].owner \in Owner /\ clock + RefreshLife \in 0 .. MaxTime + RefreshLife
    BY <1>2, TSAssumption DEF Serving, TypeOK
  <2>3. [owner |-> call[g].owner, access |-> g, exp |-> clock + RefreshLife]
          \in RefreshToken
    BY <2>2 DEF RefreshToken
  <2> QED
    BY <2>3, TSAssumption DEF GrantRefresh, TypeOK
<1>5. \A h \in Call : refreshTokens[h] # None => h # g /\ call[h].root # g
  BY <1>1 DEF StoreInv, RefreshOK, CallInv, CallOK
<1>6. /\ Stored(g) = {} /\ Stored(g)' = {g}
      /\ \A f \in Call \ {g} : g \notin Stored(f) /\ Stored(f)' = Stored(f)
  BY <1>2, <1>3, <1>1, <1>4, <1>5 DEF Stored, Rooted
<1>7. \A f \in Call : ValidTokens[f] = Stored(f)
  BY DEF ValidTokens
<1>8. RetiredTokens' = RetiredTokens /\ g \notin RetiredTokens
  BY <1>1, <1>3, <1>4 DEF RetiredTokens
<1>9. g \in RT!Unused \ RT!Live
  BY <1>6, <1>7, <1>8 DEF RT!Unused, RT!Live
<1>10. ValidTokens' = [ValidTokens EXCEPT ![g] = {g}]
  BY <1>6, <1>7 DEF ValidTokens
<1>11. RT!Open(g)
  BY <1>8, <1>9, <1>10 DEF RT!Open
<1> QED
  BY <1>11 DEF RT!Next

\* A renewal replaces the one token of the family.
LEMMA RenewalRefines ==
  ASSUME IndInv, NEW g \in Call, RenewRefresh(g),
         ~(refreshTokens[call[g].current].exp < clock)
  PROVE  RT!Next
<1> USE DEF IndInv
<1> DEFINE r == call[g].current
<1>1. /\ call[g].pc = "rotate" /\ refreshTokens[r] # None
      /\ refreshTokens' = [refreshTokens EXCEPT ![r] = None, ![g] = Rotated(r, g)]
      /\ call' = [call EXCEPT ![g].pc = "done"]
  BY DEF RenewRefresh
<1>2. /\ call[g] \in Serving /\ r \in Call /\ r # g /\ refreshTokens[g] = None
      /\ call[r].pc = "done" /\ call[g].root = call[r].root
      /\ refreshTokens[r].owner = call[g].owner
  BY <1>1, RenewalFinds
<1>3. Rotated(r, g) # None
  <2>1. call[g].owner \in Owner /\ clock + RefreshLife \in 0 .. MaxTime + RefreshLife
    BY <1>2, TSAssumption DEF Serving, TypeOK
  <2>2. Rotated(r, g) \in RefreshToken
    BY <1>2, <2>1 DEF RefreshToken, Rotated
  <2> QED
    BY <2>2, TSAssumption
<1>4. /\ call'[g].pc = "done" /\ call'[g].root = call[r].root
      /\ \A h \in Call \ {g} : call'[h] = call[h]
  BY <1>1, <1>2, PcMoves
<1>5. PICK f \in Call : f = call[r].root
  BY <1>2, CallTypes
<1> HIDE DEF r
<1>6. /\ refreshTokens'[g] # None /\ refreshTokens'[r] = None
      /\ \A h \in Call \ {g, r} : refreshTokens'[h] = refreshTokens[h]
  BY <1>1, <1>2, <1>3 DEF TypeOK
<1>7. \A h \in Call \ {r} : refreshTokens[h] # None => call[h].root # f
  BY <1>1, <1>2, <1>5 DEF OnePerFamily
<1>8. call[r].root = f
  BY <1>5
<1>9. Stored(f) = {r} /\ Stored(f)' = {g}
  <2>1. \A h \in Call : h \in Stored(f) <=> h = r
    BY <1>1, <1>2, <1>7, <1>8 DEF Stored, Rooted
  <2>2. \A h \in Call : h \in Stored(f)' <=> h = g
    BY <1>2, <1>4, <1>6, <1>7, <1>8 DEF Stored, Rooted
  <2>3. Stored(f) \subseteq Call /\ Stored(f)' \subseteq Call
    BY DEF Stored, Rooted
  <2> QED
    BY <1>2, <2>1, <2>2, <2>3
<1>10. \A e \in Call \ {f} : g \notin Stored(e) /\ Stored(e)' = Stored(e)
  BY <1>1, <1>2, <1>4, <1>6, <1>7, <1>8 DEF Stored, Rooted
<1>11. \A e \in Call : ValidTokens[e] = Stored(e)
  BY DEF ValidTokens
<1>12. RetiredTokens' = RetiredTokens \cup {r} /\ g \notin RetiredTokens
  BY <1>1, <1>2, <1>4, <1>6 DEF RetiredTokens
<1>13. f \in RT!Live
  BY <1>5, <1>9, <1>11 DEF RT!Live
<1>14. g \in RT!Unused
  BY <1>2, <1>9, <1>10, <1>11, <1>12 DEF RT!Unused, RT!Live
<1>15. ValidTokens' = [ValidTokens EXCEPT ![f] = {g}]
  BY <1>5, <1>9, <1>10, <1>11 DEF ValidTokens
<1>16. RetiredTokens' = RetiredTokens \cup ValidTokens[f]
  BY <1>5, <1>9, <1>11, <1>12
<1>17. RT!Rotate(f)
  BY <1>14, <1>15, <1>16 DEF RT!Rotate
<1> QED
  BY <1>13, <1>17 DEF RT!Next

LEMMA NextRefines == IndInv /\ [Next]_vars => [RT!Next]_RT!vars
<1> SUFFICES ASSUME IndInv, [Next]_vars PROVE [RT!Next]_RT!vars
  OBVIOUS
<1>1. ASSUME NEW g \in Call,
             CreateAccessToken(g) \/ GrantAccess(g) \/ TokenRequestByRefreshToken(g)
      PROVE  RT!Next
  <2>1. \E c : Begins(g, c)
    BY <1>1, CreateAccessTokenBegins, GrantAccessBegins, TokenRequestBegins
  <2> QED
    BY <2>1, BeginsRefines
<1>2. ASSUME NEW g \in Call, GrantRefresh(g)
      PROVE  RT!Next
  BY <1>2, GrantRefreshRefines
<1>3. ASSUME NEW g \in Call, RenewAccess(g)
      PROVE  RT!Next
  BY <1>3, RenewAccessRefines
<1>4. ASSUME NEW g \in Call, RenewRefresh(g)
      PROVE  RT!Next
  BY <1>4, RenewalRefines, RenewalExpires, DropsRefines
<1>5. ASSUME NEW g \in Call, RenewRefreshGone(g)
      PROVE  RT!Next
  BY <1>5, RenewalGoneDrops, DropsRefines
<1>6. ASSUME NEW v \in Revoker,
             PresentAccessToken(v) \/ GetRefreshTokenInfo(v) \/ ReadRenewedID(v)
      PROVE  RT!Next
  BY <1>6, RevokerReads, DropsRefines
<1>7. ASSUME NEW v \in Revoker, RevokeToken(v)
      PROVE  RT!Next
  BY <1>7, RevokeTokenDrops, DropsRefines
<1>8. ASSUME NEW o \in Owner, TerminateSession(o)
      PROVE  RT!Next
  BY <1>8, TerminateSessionDrops, DropsRefines
<1>9. CASE Tick \/ Restart
  BY <1>9, TickDrops, RestartDrops, DropsRefines
<1>10. CASE UNCHANGED vars
  <2>1. ValidTokens' = ValidTokens /\ RetiredTokens' = RetiredTokens
    BY <1>10 DEF vars, ValidTokens, Stored, Rooted, RetiredTokens
  <2> QED
    BY <2>1 DEF RT!vars
<1>11. CASE Next
  BY <1>1, <1>2, <1>3, <1>4, <1>5, <1>6, <1>7, <1>8, <1>9, <1>11 DEF Next
<1> QED
  BY <1>10, <1>11

\* The bridge implements rotating refresh tokens: one valid token for each
\* sign-in, and none that was replaced, revoked, expired on renewal or lost
\* in a restart is ever valid again.
THEOREM RotatingTokenHolds == Spec => RotatingTokenSpec
<1>1. Init => RT!Init
  BY InitRefines
<1>2. IndInv /\ [Next]_vars => [RT!Next]_RT!vars
  BY NextRefines
<1> QED
  BY <1>1, <1>2, Invariance, PTL DEF Spec, RotatingTokenSpec, RT!Spec
=============================================================================
