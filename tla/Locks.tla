-------------------------------- MODULE Locks --------------------------------
(***************************************************************************)
(* The mutexes of the bridge, and what is read and written under them.     *)
(*                                                                         *)
(* The other modules take the critical sections of the storage and of the  *)
(* challenge store to be atomic.  That is right as long as the code takes  *)
(* the lock it needs around every access.  Here a call is the sequence of  *)
(* its lock operations and of its accesses to data that goroutines share:  *)
(* the maps, and the AuthRequest and RefreshToken objects, which are       *)
(* changed after others have got a pointer to them.  Clients and Tokens    *)
(* never change once they are in their maps.  Goroutines make any calls,   *)
(* in any order, on the same connection, request and token.                *)
(***************************************************************************)
EXTENDS Naturals, Sequences

CONSTANTS
  Proc,  \* goroutines
  None   \* no goroutine, no call

\* ChallengeStore.mu is a sync.RWMutex, Storage.lock a sync.Mutex.
Mutex == {"mu", "lock"}

R(x) == <<"read", x>>
W(x) == <<"write", x>>

\* RWMutex.Lock keeps new readers out, then waits for those that are inside.
Claim(l) == <<"claim", l>>
Drain(l) == <<"drain", l>>

-----------------------------------------------------------------------------
(***************************************************************************)
(* The calls: for each one, the paths through it.                          *)
(***************************************************************************)

\* The unlock is deferred: it ends every path.
Locked(body) == <<Claim("lock")>> \o body \o <<<<"unlock", "lock">>>>
WLocked(body) == <<Claim("mu"), Drain("mu")>> \o body \o <<<<"unlock", "mu">>>>
RLocked(body) == <<<<"rlock", "mu">>>> \o body \o <<<<"runlock", "mu">>>>

\* First a path of A, then one of B.
Then(A, B) == {a \o b : a \in A, b \in B}

Store == {WLocked(<<W("challenges")>>)}

\* The entry is missing or fresh; or it has expired and is deleted.
Get == {RLocked(<<R("challenges")>>),
        RLocked(<<R("challenges"), W("challenges")>>)}

\* A mutant: a delete without the lock.
DeleteUnlocked == {<<W("challenges")>>}

Delete == {WLocked(<<W("challenges")>>)}

CompleteAuthRequest == {Locked(<<R("authRequests")>>),
                        Locked(<<R("authRequests"), W("AuthRequest")>>)}

CreateAuthRequest == {Locked(<<W("authRequests")>>)}
AuthRequestByID == {Locked(<<R("authRequests")>>)}

\* A mutant: the request is looked up before the lock is given back.
AuthRequestByCodeNested ==
  {Locked(<<R("codes")>>)}
    \cup {Locked(<<R("codes")>> \o id) : id \in AuthRequestByID}

FoundByCode == Then({Locked(<<R("codes")>>)}, AuthRequestByID)

\* The unlock comes before the second lookup: a Mutex cannot be taken twice.
AuthRequestByCode == {Locked(<<R("codes")>>)} \cup FoundByCode

SaveAuthCode == {Locked(<<W("codes")>>)}

DeleteAuthRequest == {Locked(<<W("authRequests"), R("codes")>>),
                      Locked(<<W("authRequests"), R("codes"), W("codes")>>)}

\* The subject is read through the pointer after the lookup.
TokenCallback == AuthRequestByCode \cup Then(FoundByCode, {<<R("AuthRequest")>>})

\* What a call reads of the token request it is given: an AuthRequest, which
\* is shared, or the private copy made for a refresh.
Argument == {<<>>, <<R("AuthRequest")>>}

createAccessToken == {Locked(<<W("tokens")>>)}
createRefreshToken == {Locked(<<W("refreshTokens")>>)}

\* The token is gone, has expired, or is renewed.
renewRefreshToken ==
  LET found == <<R("refreshTokens"), W("refreshTokens"), R("RefreshToken"),
                 W("tokens")>>
  IN  {Locked(<<R("refreshTokens")>>), Locked(found),
       Locked(found \o <<W("RefreshToken"), W("refreshTokens")>>)}

CreateAccessToken == Then(Argument, createAccessToken)

CreateAccessAndRefreshTokens ==
  Then(CreateAccessToken, createRefreshToken)
    \cup Then(createAccessToken, renewRefreshToken)

TokenRequestByRefreshToken ==
  {Locked(<<R("refreshTokens")>>),
   Locked(<<R("refreshTokens"), R("RefreshToken")>>)}

TerminateSession == {Locked(<<R("tokens")>>),
                     Locked(<<R("tokens"), W("tokens"), W("refreshTokens")>>)}

\* No lock.
GetRefreshTokenInfo == {<<R("refreshTokens")>>,
                        <<R("refreshTokens"), R("RefreshToken")>>}

\* A mutant: the unlock is not deferred, and the early return forgets it.
RevokeTokenLeaks ==
  {Locked(<<R("tokens"), W("tokens")>>), <<Claim("lock"), R("tokens")>>}

\* Another client's token is left alone, whether an access token or a refresh
\* token is found; its own is deleted; or nothing is found.
RevokeToken ==
  LET refresh == <<R("tokens"), R("refreshTokens"), R("RefreshToken")>>
  IN  {Locked(<<R("tokens")>>), Locked(<<R("tokens"), W("tokens")>>),
       Locked(<<R("tokens"), R("refreshTokens")>>), Locked(refresh),
       Locked(refresh \o <<W("refreshTokens"), W("tokens")>>)}

GetClientByClientID == {Locked(<<R("clients")>>)}
AuthorizeClientIDSecret == {Locked(<<R("clients")>>)}
ClientCredentials == {Locked(<<R("clients")>>)}

\* Called with the lock held, it takes none.
findEmailBySubject == {<<R("authRequests")>>, <<R("authRequests"), R("AuthRequest")>>}

SetUserinfoFromScopes == {Locked(found) : found \in findEmailBySubject}
GetPrivateClaimsFromScopes == {Locked(found) : found \in findEmailBySubject}
SetUserinfoFromRequest == {Locked(<<R("AuthRequest")>>)}
SetUserinfoFromToken == {Locked(<<R("tokens")>>)}
SetIntrospectionFromToken == {Locked(<<R("tokens")>>)}

\* The library reads the subject and the time for an ID token.
CreateIDToken == {<<R("AuthRequest")>>}

\* What the handlers and the library call while the bridge serves.
Calls == [
  Store |-> Store, Get |-> Get, Delete |-> Delete,
  CompleteAuthRequest |-> CompleteAuthRequest,
  CreateAuthRequest |-> CreateAuthRequest,
  AuthRequestByID |-> AuthRequestByID,
  AuthRequestByCode |-> AuthRequestByCode,
  SaveAuthCode |-> SaveAuthCode,
  DeleteAuthRequest |-> DeleteAuthRequest,
  TokenCallback |-> TokenCallback,
  CreateAccessToken |-> CreateAccessToken,
  CreateAccessAndRefreshTokens |-> CreateAccessAndRefreshTokens,
  TokenRequestByRefreshToken |-> TokenRequestByRefreshToken,
  TerminateSession |-> TerminateSession,
  GetRefreshTokenInfo |-> GetRefreshTokenInfo,
  RevokeToken |-> RevokeToken,
  GetClientByClientID |-> GetClientByClientID,
  AuthorizeClientIDSecret |-> AuthorizeClientIDSecret,
  ClientCredentials |-> ClientCredentials,
  SetUserinfoFromScopes |-> SetUserinfoFromScopes,
  GetPrivateClaimsFromScopes |-> GetPrivateClaimsFromScopes,
  SetUserinfoFromRequest |-> SetUserinfoFromRequest,
  SetUserinfoFromToken |-> SetUserinfoFromToken,
  SetIntrospectionFromToken |-> SetIntrospectionFromToken,
  CreateIDToken |-> CreateIDToken ]

ASSUME LAssumption == None \notin Proc \cup DOMAIN Calls

-----------------------------------------------------------------------------
VARIABLES
  call,    \* the call each goroutine makes
  todo,    \* what is left of its path
  owner,   \* who has claimed or holds each mutex
  readers  \* who holds it for reading

vars == <<call, todo, owner, readers>>

\* What is left of a path from its k-th operation.
Rest(path, k) == SubSeq(path, k, Len(path))

\* A goroutine is at some operation of one of its call's paths.  A Mutex has
\* no readers: that is for an RWMutex.
TypeOK ==
  /\ call \in [Proc -> DOMAIN Calls \cup {None}]
  /\ DOMAIN todo = Proc
  /\ \A p \in Proc :
       IF call[p] = None THEN todo[p] = <<>>
       ELSE \E path \in Calls[call[p]] :
              \E k \in 1 .. Len(path) : todo[p] = Rest(path, k)
  /\ owner \in [Mutex -> Proc \cup {None}]
  /\ readers \in [Mutex -> SUBSET Proc]
  /\ readers["lock"] = {}

Init ==
  /\ call = [p \in Proc |-> None]
  /\ todo = [p \in Proc |-> <<>>]
  /\ owner = [l \in Mutex |-> None]
  /\ readers = [l \in Mutex |-> {}]

Begin(p) ==
  /\ call[p] = None
  /\ \E c \in DOMAIN Calls : \E path \in Calls[c] :
       /\ call' = [call EXCEPT ![p] = c]
       /\ todo' = [todo EXCEPT ![p] = path]
  /\ UNCHANGED <<owner, readers>>

\* The next operation of p, if it is in a call, is o.
At(p, o) == call[p] # None /\ Head(todo[p]) = o

Done(p) ==
  /\ todo' = [todo EXCEPT ![p] = Tail(@)]
  /\ call' = [call EXCEPT ![p] = IF Tail(todo[p]) = <<>> THEN None ELSE @]

\* The part of Lock that makes others wait.
ClaimLock(p, l) ==
  /\ At(p, Claim(l))
  /\ owner[l] = None
  /\ owner' = [owner EXCEPT ![l] = p]
  /\ Done(p)
  /\ UNCHANGED readers

\* The part of Lock that waits for the readers.
DrainReaders(p, l) ==
  /\ At(p, Drain(l))
  /\ readers[l] = {}
  /\ Done(p)
  /\ UNCHANGED <<owner, readers>>

Unlock(p, l) ==
  /\ At(p, <<"unlock", l>>)
  /\ owner' = [owner EXCEPT ![l] = None]
  /\ Done(p)
  /\ UNCHANGED readers

\* A writer that waits goes first.
RLock(p, l) ==
  /\ At(p, <<"rlock", l>>)
  /\ owner[l] = None
  /\ readers' = [readers EXCEPT ![l] = @ \cup {p}]
  /\ Done(p)
  /\ UNCHANGED owner

RUnlock(p, l) ==
  /\ At(p, <<"runlock", l>>)
  /\ readers' = [readers EXCEPT ![l] = @ \ {p}]
  /\ Done(p)
  /\ UNCHANGED owner

Access(p) ==
  /\ call[p] # None
  /\ Head(todo[p])[1] \in {"read", "write"}
  /\ Done(p)
  /\ UNCHANGED <<owner, readers>>

Step(p) ==
  \/ Access(p)
  \/ \E l \in Mutex :
       \/ ClaimLock(p, l)
       \/ DrainReaders(p, l)
       \/ Unlock(p, l)
       \/ RLock(p, l)
       \/ RUnlock(p, l)

Next == \E p \in Proc : Begin(p) \/ Step(p)

\* A waiting goroutine gets a mutex that is given back again and again: Go
\* hands a starved Mutex to the one that waits, and the readers that wait for
\* a writer go before the next one.
Fairness == \A p \in Proc : SF_vars(Step(p))

Spec == Init /\ [][Next]_vars
FairSpec == Spec /\ Fairness
-----------------------------------------------------------------------------
(***************************************************************************)
(* What must be true.                                                      *)
(***************************************************************************)

\* Two goroutines are about to access x, p to write it.
Race(p, q, x) == p # q /\ At(p, W(x)) /\ (At(q, W(x)) \/ At(q, R(x)))

\* Every race is one of these: two Gets, one of which deletes an expired
\* challenge under the read lock; GetRefreshTokenInfo, which takes no lock,
\* against a change of the refresh tokens or the renewal of one; and those
\* who read an AuthRequest through the pointer they were given, against
\* CompleteAuthRequest.  The last are the steps AuthFlow takes one by one.
OnlyKnownRaces ==
  \A p, q \in Proc :
    /\ \A x \in {"authRequests", "codes", "tokens", "clients"} : ~Race(p, q, x)
    /\ Race(p, q, "challenges") => {call[p], call[q]} = {"Get"}
    /\ \A x \in {"refreshTokens", "RefreshToken"} :
         Race(p, q, x) => call[q] = "GetRefreshTokenInfo"
    /\ Race(p, q, "AuthRequest") =>
         /\ call[p] = "CompleteAuthRequest"
         /\ call[q] \in {"TokenCallback", "CreateAccessToken",
                         "CreateAccessAndRefreshTokens", "CreateIDToken"}

\* p has taken what the next give on its path gives back.
Inside(p, take, give) ==
  \E i \in DOMAIN todo[p] :
    todo[p][i] = give /\ \A j \in 1 .. i - 1 : todo[p][j] # take

\* A mutex is given back by the goroutine that took it, in the mode it was
\* taken in, before its call ends, on every path, early returns included:
\* anything else is a fatal error, or blocks every later call.
LocksMatch ==
  /\ TypeOK
  /\ \A p \in Proc, l \in Mutex :
       /\ owner[l] = p <=> Inside(p, Claim(l), <<"unlock", l>>)
       /\ p \in readers[l] <=> Inside(p, <<"rlock", l>>, <<"runlock", l>>)

\* Every call ends, whatever the others do: no goroutine waits for a mutex it
\* holds itself, or in a circle with others.
CallsEnd == \A p \in Proc : call[p] # None ~> call[p] = None
=============================================================================
