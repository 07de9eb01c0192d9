------------------------------ MODULE AuthFlow ------------------------------
(***************************************************************************)
(* The authorization-code flow over bridge/storage: auth requests, codes,  *)
(* the callback that issues a code, and the exchange of a code for an      *)
(* access token and an ID token.                                           *)
(*                                                                         *)
(* The maps of Storage are guarded by one mutex, but an AuthRequest is     *)
(* handed out as a pointer: the library that exchanges the code reads its  *)
(* fields later, outside any lock, while CompleteAuthRequest may write     *)
(* them and DeleteAuthRequest may unlink it.  Each lock section and each   *)
(* unlocked read is a step.                                                *)
(***************************************************************************)
EXTENDS Integers, FiniteSets

CONSTANTS
  ReqID,        \* the ids uuid.NewString gives to auth requests
  Code,         \* the codes genCode gives to callbacks
  Exchange,     \* the requests that present a code
  Subject,      \* the thumbprints of registered users
  EmailOf,      \* the email of each registered user
  MaxRestarts,  \* bound on the restarts of the process
  None          \* the empty string, the nil pointer

Email == {EmailOf[s] : s \in Subject}

\* ApplicationID is left out: it is set together with completed.
AuthRequest == [userID : Subject \cup {None}, email : Email \cup {None},
                completed : BOOLEAN]

ASSUME AFAssumption ==
  /\ DOMAIN EmailOf = Subject
  /\ MaxRestarts \in Nat
  /\ None \notin ReqID \cup Subject \cup AuthRequest
  /\ \A s \in Subject : EmailOf[s] # None

Claims == [sub : Subject \cup {None}, email : Email \cup {None}]

VARIABLES
  object,     \* the AuthRequest objects ever allocated
  stored,     \* the keys of Storage.authRequests
  codes,      \* Storage.codes
  callback,   \* the callback that generated each code
  exchange,   \* the requests that present a code
  restarts,   \* the restarts so far
  hint,       \* history: the subject each request was created with
  verified    \* history: the subjects each stored request was completed with

vars == <<object, stored, codes, callback, exchange, restarts, hint, verified>>

\* What a request that presents a code has got so far.  found is the email
\* that findEmailBySubject returned; early says that the request was complete
\* when the code was looked up.
Exchanging ==
  [pc : {"ready", "byID", "email", "mint", "scopes", "userinfo", "delete",
         "done", "failed", "shown"},
   req : ReqID \cup {None}, early : BOOLEAN,
   email : Email \cup {None}, access : Claims \cup {None},
   found : Email \cup {None}, id : Claims \cup {None}]

\* A request that has not begun, or has ended without tokens.
Without(pc) == [pc |-> pc, req |-> None, early |-> FALSE, email |-> None,
                access |-> None, found |-> None, id |-> None]

TypeOK ==
  /\ object \in [ReqID -> AuthRequest \cup {None}]
  /\ stored \subseteq {r \in ReqID : object[r] # None}
  /\ codes \in [Code -> ReqID \cup {None}]
  /\ callback \in [Code -> [pc : {"unused", "save", "redirected", "failed"},
                            req : ReqID \cup {None}]]
  /\ exchange \in [Exchange -> Exchanging]
  /\ restarts \in 0 .. MaxRestarts
  /\ hint \in [ReqID -> Subject \cup {None}]
  /\ verified \in [ReqID -> SUBSET Subject]

Init ==
  /\ object = [r \in ReqID |-> None]
  /\ stored = {}
  /\ codes = [c \in Code |-> None]
  /\ callback = [c \in Code |-> [pc |-> "unused", req |-> None]]
  /\ exchange = [e \in Exchange |-> Without("ready")]
  /\ restarts = 0
  /\ hint = [r \in ReqID |-> None]
  /\ verified = [r \in ReqID |-> {}]

-----------------------------------------------------------------------------
(***************************************************************************)
(* Auth requests.                                                          *)
(***************************************************************************)

\* The subjects of the ID tokens that the bridge has sent: of exchanges, and
\* of renewals, which keep the subject of the access token.
HintSubjects ==
  LET Finished == {e \in Exchange : exchange[e].pc = "done"}
  IN  {exchange[e].access.sub : e \in Finished} \cup {exchange[e].id.sub : e \in Finished}

\* The authorization endpoint stores a new, uncompleted request.  Its subject
\* is the one of the id_token_hint that came with it, if any: the library
\* accepts any ID token that the bridge signed, expired or not.
CreateAuthRequest(r, u) ==
  /\ object[r] = None
  /\ u \in HintSubjects \cup {None}
  /\ object' = [object EXCEPT ![r] =
       [userID |-> u, email |-> None, completed |-> FALSE]]
  /\ hint' = [hint EXCEPT ![r] = u]
  /\ stored' = stored \cup {r}
  /\ UNCHANGED <<codes, callback, exchange, restarts, verified>>

\* A mutant: a request that has been deleted is completed too.
CompleteAuthRequestDeleted(r, s) ==
  /\ object[r] # None
  /\ object' = [object EXCEPT ![r] =
       [userID |-> s, email |-> EmailOf[s], completed |-> TRUE]]
  /\ verified' = IF r \in stored
                   THEN [verified EXCEPT ![r] = @ \cup {s}] ELSE verified
  /\ UNCHANGED <<stored, codes, callback, exchange, restarts, hint>>

\* A mutant: the two string arguments are swapped.
CompleteAuthRequestSwapped(r, s) ==
  /\ r \in stored
  /\ object' = [object EXCEPT ![r] =
       [userID |-> EmailOf[s], email |-> s, completed |-> TRUE]]
  /\ verified' = [verified EXCEPT ![r] = @ \cup {s}]
  /\ UNCHANGED <<stored, codes, callback, exchange, restarts, hint>>

\* A successful verification completes a stored request, again if need be.
\* Its writes, of the subject and then the email, are one step: whoever reads
\* without the lock takes one field at a time, the email before the subject,
\* and takes the lock before it reads on, so that it finds nothing half
\* written that it would not find with the writes all before or all after.
CompleteAuthRequest(r, s) ==
  /\ r \in stored
  /\ object' = [object EXCEPT ![r] =
       [userID |-> s, email |-> EmailOf[s], completed |-> TRUE]]
  /\ verified' = [verified EXCEPT ![r] = @ \cup {s}]
  /\ UNCHANGED <<stored, codes, callback, exchange, restarts, hint>>

-----------------------------------------------------------------------------
(***************************************************************************)
(* /login/callback: look the request up, then save a new code for it.      *)
(***************************************************************************)

\* The lookup does not ask whether the request is completed.
CallbackLookup(c) ==
  /\ callback[c].pc = "unused"
  /\ \E r \in ReqID :
       callback' = [callback EXCEPT ![c] =
         IF r \in stored THEN [pc |-> "save", req |-> r]
         ELSE [pc |-> "failed", req |-> None]]
  /\ UNCHANGED <<object, stored, codes, exchange, restarts, hint, verified>>

\* SaveAuthCode does not ask whether the request is still there.
SaveAuthCode(c) ==
  /\ callback[c].pc = "save"
  /\ codes' = [codes EXCEPT ![c] = callback[c].req]
  /\ callback' = [callback EXCEPT ![c] = [pc |-> "redirected", req |-> None]]
  /\ UNCHANGED <<object, stored, exchange, restarts, hint, verified>>

-----------------------------------------------------------------------------
(***************************************************************************)
(* The exchange of a code.  A code that was redirected to the client may   *)
(* be presented any number of times, at the same time too.                 *)
(***************************************************************************)

\* The first lock section of AuthRequestByCode.
PresentCode(e) ==
  /\ exchange[e].pc = "ready"
  /\ \E c \in Code :
       /\ callback[c].pc = "redirected"
       /\ exchange' = [exchange EXCEPT ![e] =
            IF codes[c] = None THEN Without("failed")
            ELSE [@ EXCEPT !.pc = "byID", !.req = codes[c]]]
  /\ UNCHANGED <<object, stored, codes, callback, restarts, hint, verified>>

\* A mutant: the request is taken from the code table alone.
RequestByIDUnchecked(e) ==
  /\ exchange[e].pc = "byID"
  /\ exchange' = [exchange EXCEPT
       ![e].pc = "email", ![e].early = object[exchange[e].req].completed]
  /\ UNCHANGED <<object, stored, codes, callback, restarts, hint, verified>>

\* The second lock section of AuthRequestByCode.  The caller is the token
\* endpoint, or the bridge's own callback page.
RequestByID(e) ==
  /\ exchange[e].pc = "byID"
  /\ exchange' = IF exchange[e].req \in stored
       THEN [exchange EXCEPT
               ![e].pc = "email", ![e].early = object[exchange[e].req].completed]
       ELSE [exchange EXCEPT ![e] = Without("failed")]
  /\ UNCHANGED <<object, stored, codes, callback, restarts, hint, verified>>

\* The bridge's callback page shows the subject and uses nothing up.
ShowSubject(e) ==
  /\ exchange[e].pc = "email"
  /\ exchange' = [exchange EXCEPT ![e] = Without("shown")]
  /\ UNCHANGED <<object, stored, codes, callback, restarts, hint, verified>>

\* CreateAccessToken reads the email through the pointer, with no lock...
ReadEmail(e) ==
  /\ exchange[e].pc = "email"
  /\ exchange' = [exchange EXCEPT
       ![e].pc = "mint", ![e].email = object[exchange[e].req].email]
  /\ UNCHANGED <<object, stored, codes, callback, restarts, hint, verified>>

\* ...and then the subject, and stores the token.
CreateAccessToken(e) ==
  /\ exchange[e].pc = "mint"
  /\ exchange' = [exchange EXCEPT ![e].pc = "scopes", ![e].email = None, ![e].access =
       [sub |-> object[exchange[e].req].userID, email |-> exchange[e].email]]
  /\ UNCHANGED <<object, stored, codes, callback, restarts, hint, verified>>

\* findEmailBySubject: the emails of the stored requests of a subject.
EmailsOfSubject(s) ==
  {object[r].email : r \in {q \in stored : object[q].userID = s
                                           /\ object[q].email # None}}

\* The ID token, first part: the email is looked up by the subject.
SetUserinfoFromScopes(e) ==
  /\ exchange[e].pc = "scopes"
  /\ LET emails == EmailsOfSubject(object[exchange[e].req].userID)
     IN  \E m \in IF emails = {} THEN {None} ELSE emails :
           exchange' = [exchange EXCEPT ![e].pc = "userinfo", ![e].found = m]
  /\ UNCHANGED <<object, stored, codes, callback, restarts, hint, verified>>

\* A mutant: the ID token is given the email that was found by subject.
SetUserinfoFromFound(e) ==
  /\ exchange[e].pc = "userinfo"
  /\ exchange' = [exchange EXCEPT ![e].pc = "delete", ![e].found = None, ![e].id =
       [sub |-> object[exchange[e].req].userID, email |-> exchange[e].found]]
  /\ UNCHANGED <<object, stored, codes, callback, restarts, hint, verified>>

\* The ID token, second part: the email comes from the request after all.
SetUserinfoFromRequest(e) ==
  /\ exchange[e].pc = "userinfo"
  /\ exchange' = [exchange EXCEPT ![e].pc = "delete", ![e].found = None, ![e].id =
       [sub |-> object[exchange[e].req].userID,
        email |-> object[exchange[e].req].email]]
  /\ UNCHANGED <<object, stored, codes, callback, restarts, hint, verified>>

\* DeleteAuthRequest unlinks the request and the first of its codes that the
\* iteration over the map meets; then the tokens are sent.
DeleteAuthRequest(e) ==
  /\ exchange[e].pc = "delete"
  /\ stored' = stored \ {exchange[e].req}
  /\ LET mine == {c \in Code : codes[c] = exchange[e].req}
     IN  IF mine = {} THEN UNCHANGED codes
         ELSE \E c \in mine : codes' = [codes EXCEPT ![c] = None]
  /\ exchange' = [exchange EXCEPT ![e].pc = "done"]
  /\ UNCHANGED <<object, callback, restarts, hint, verified>>

-----------------------------------------------------------------------------
Ended == {"done", "failed", "shown"}

\* The process stops and starts again with empty maps.
Restart ==
  /\ restarts < MaxRestarts
  /\ restarts' = restarts + 1
  /\ stored' = {}
  /\ codes' = [c \in Code |-> None]
  /\ callback' = [c \in Code |-> IF callback[c].pc = "save"
                    THEN [pc |-> "failed", req |-> None] ELSE callback[c]]
  /\ exchange' = [e \in Exchange |->
                    IF exchange[e].pc \in Ended \cup {"ready"}
                      THEN exchange[e]
                      ELSE Without("failed")]
  /\ UNCHANGED <<object, hint, verified>>

ExchangeStep(e) ==
  \/ RequestByID(e)
  \/ ReadEmail(e)
  \/ CreateAccessToken(e)
  \/ SetUserinfoFromScopes(e)
  \/ SetUserinfoFromRequest(e)
  \/ DeleteAuthRequest(e)

Next ==
  \/ \E r \in ReqID, u \in Subject \cup {None} : CreateAuthRequest(r, u)
  \/ \E r \in ReqID, s \in Subject : CompleteAuthRequest(r, s)
  \/ \E c \in Code : CallbackLookup(c)
  \/ \E c \in Code : SaveAuthCode(c)
  \/ \E e \in Exchange : PresentCode(e)
  \/ \E e \in Exchange : ShowSubject(e)
  \/ \E e \in Exchange : ExchangeStep(e)
  \/ Restart

Spec == Init /\ [][Next]_vars
-----------------------------------------------------------------------------
(***************************************************************************)
(* What must be true.                                                      *)
(***************************************************************************)

\* A token that carries an email names a user who verified its request, though
\* email and subject are read at different times and the request may have been
\* created for another user.  And if the request was complete when its code
\* was looked up, and one user only ever completed it, then the access token
\* and the ID token of the exchange agree on that user and carry that user's
\* email, whatever other exchanges of the same request do in between.  (With
\* two users they may not: the fields are read at four different times.)
TokensAgree ==
  \A e \in Exchange :
    LET x == exchange[e]
    IN  x.pc = "done" =>
          /\ \A t \in {x.access, x.id} : t.email # None => t.sub \in verified[x.req]
          /\ x.early /\ Cardinality(verified[x.req]) = 1 =>
               \A s \in verified[x.req] :
                 /\ x.access = [sub |-> s, email |-> EmailOf[s]]
                 /\ x.id = x.access

\* A complete request names a user who verified it, and that user's email.
\* Before that it names, with no email, the user it was created for; and that
\* user has verified another request, however many hints lie in between.
RequestNamesUser ==
  \A r \in ReqID :
    /\ hint[r] # None => \E q \in ReqID \ {r} : hint[r] \in verified[q]
    /\ object[r] # None =>
         IF object[r].completed
           THEN /\ object[r].userID \in verified[r]
                /\ object[r].email = EmailOf[object[r].userID]
           ELSE object[r].userID = hint[r] /\ object[r].email = None

\* A code that resolves leads to tokens at most until the first exchange of
\* its request finishes: the flow implements the abstract grant.
RequestState(r) ==
  IF object[r] = None THEN "none" ELSE IF r \in stored THEN "open" ELSE "closed"

GrantState(e) ==
  LET x == exchange[e]
      Grant(status, req, sub) == [status |-> status, req |-> req, sub |-> sub]
  IN  CASE x.pc \in {"ready", "byID"} -> Grant("none", None, None)
        [] x.pc \in {"email", "mint"} -> Grant("pending", x.req, None)
        [] x.pc \in {"scopes", "userinfo", "delete"} ->
             Grant("granted", x.req, x.access.sub)
        [] x.pc = "done" -> Grant("finished", x.req, x.access.sub)
        [] OTHER -> Grant("over", None, None)

RequestStates == [r \in ReqID |-> RequestState(r)]
GrantStates == [e \in Exchange |-> GrantState(e)]

CG == INSTANCE CodeGrant WITH request <- RequestStates, grant <- GrantStates

\* An exchange begins only on a stored request, its access token names a
\* subject that verified that request, or the one the request was created
\* for, and when it is over the request is closed to every exchange that
\* begins later, whichever code it presents.
CodeGrantSpec == CG!Spec

\* findEmailBySubject "succeeds during the token creation flow", as its
\* comment says of the request being exchanged, because the request is only
\* deleted after both tokens are created.
LookupSucceeds ==
  \A e \in Exchange :
    exchange[e].pc = "userinfo" /\ exchange[e].early => exchange[e].found # None
=============================================================================
