----------------------------- MODULE CodeGrant ------------------------------
(***************************************************************************)
(* What the authorization-code flow promises, with no codes, maps or       *)
(* pointers in it.  A request is opened, for nobody or for a user who has  *)
(* verified an earlier one, verified by users while it is open, and closed *)
(* for good.  A grant of tokens begins only on an open request, names a    *)
(* subject that verified that very request, or the one that it was opened  *)
(* for, and closes the request when it finishes.                           *)
(***************************************************************************)
CONSTANTS ReqID, Exchange, Subject, None

VARIABLES
  request,   \* "none", "open" or "closed"
  hint,      \* the subject each request was opened for
  verified,  \* the subjects that have verified each request
  grant      \* the grant each exchange is making

vars == <<request, hint, verified, grant>>

NoGrant == [status |-> "none", req |-> None, sub |-> None]
Over == [status |-> "over", req |-> None, sub |-> None]

Init ==
  /\ request = [r \in ReqID |-> "none"]
  /\ hint = [r \in ReqID |-> None]
  /\ verified = [r \in ReqID |-> {}]
  /\ grant = [e \in Exchange |-> NoGrant]

Open(r, s) ==
  /\ request[r] = "none"
  /\ s = None \/ \E q \in ReqID : s \in verified[q]
  /\ hint' = [hint EXCEPT ![r] = s]
  /\ request' = [request EXCEPT ![r] = "open"]
  /\ UNCHANGED <<verified, grant>>

Verify(r, s) ==
  /\ request[r] = "open"
  /\ verified' = [verified EXCEPT ![r] = @ \cup {s}]
  /\ UNCHANGED <<request, hint, grant>>

Begin(e, r) ==
  /\ grant[e] = NoGrant
  /\ request[r] = "open"
  /\ grant' = [grant EXCEPT ![e] = [status |-> "pending", req |-> r, sub |-> None]]
  /\ UNCHANGED <<request, hint, verified>>

Grant(e) ==
  /\ grant[e].status = "pending"
  /\ \E s \in verified[grant[e].req] \cup {hint[grant[e].req]} :
       grant' = [grant EXCEPT ![e] =
                  [status |-> "granted", req |-> grant[e].req, sub |-> s]]
  /\ UNCHANGED <<request, hint, verified>>

Finish(e) ==
  /\ grant[e].status = "granted"
  /\ grant' = [grant EXCEPT ![e].status = "finished"]
  /\ request' = [request EXCEPT ![grant[e].req] = "closed"]
  /\ UNCHANGED <<hint, verified>>

\* An exchange ends with no tokens.
Refuse(e) ==
  /\ grant[e].status \in {"none", "pending"}
  /\ grant' = [grant EXCEPT ![e] = Over]
  /\ UNCHANGED <<request, hint, verified>>

\* A crash closes the open requests and ends the exchanges in progress.
Lose ==
  /\ request' = [r \in ReqID |->
                   IF request[r] = "open" THEN "closed" ELSE request[r]]
  /\ \A e \in Exchange : grant'[e] \in {grant[e], Over}
  /\ grant' = [e \in Exchange |-> grant'[e]]
  /\ \A e \in Exchange :
       grant'[e] = grant[e] \/ grant[e].status \in {"none", "pending", "granted"}
  /\ UNCHANGED <<hint, verified>>

Next ==
  \/ \E r \in ReqID, s \in Subject \cup {None} : Open(r, s)
  \/ \E r \in ReqID, s \in Subject : Verify(r, s)
  \/ \E e \in Exchange, r \in ReqID : Begin(e, r)
  \/ \E e \in Exchange : Grant(e) \/ Finish(e) \/ Refuse(e)
  \/ Lose

Spec == Init /\ [][Next]_vars
=============================================================================
