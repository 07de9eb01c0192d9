------------------------------- MODULE SignIn --------------------------------
(***************************************************************************)
(* One sign-in in the browser: the login page, the content script of the   *)
(* extension, and the extension's worker (module KeyHolder).               *)
(*                                                                         *)
(* The page fetches a challenge once, when it loads, and the content       *)
(* script asks the worker once whether it is ready.  A click sends the     *)
(* challenge through the content script to the worker, the signature comes *)
(* back the same way and is posted to the bridge.  The bridge is reduced   *)
(* to the challenge it holds for each connection (module ChallengeVerify). *)
(***************************************************************************)
EXTENDS KeyHolder

CONSTANTS
  Registered,   \* the key registered for the user
  Nonce,        \* the nonces of the bridge
  Conn,         \* the browser's connections to the bridge
  MaxTrouble    \* bound on what the environment does to the sign-in

ASSUME SIAssumption ==
  /\ Registered \in Key
  /\ MaxTrouble \in Nat
  /\ None \notin Nonce

VARIABLES
  challenge,     \* the page's fetch of the challenge
  currentNonce,  \* the page's nonce; None is the empty string
  status,        \* the content script's question to the worker
  button,        \* the page's button, or what it waits for
  attempt,       \* the message that the page waits for, with its contents
  conn,          \* the connection the browser uses now
  drifted,       \* the browser's clock is off by more than the bridge allows
  held,          \* the challenge the bridge holds for each connection
  accepted,      \* the nonces the bridge accepted with the registered key
  trouble        \* what the environment has done so far

loginVars == <<challenge, currentNonce, status, button, attempt>>
bridgeVars == <<conn, drifted, held, accepted>>
signInVars == <<vars, loginVars, bridgeVars, trouble>>

MaybeNonce == Nonce \cup {None}
NoAttempt == [at |-> "none", nonce |-> None, key |-> None, timely |-> FALSE]

SignInTypeOK ==
  /\ TypeOK
  /\ challenge \in [at : {"unsent", "done", "lost"}, nonce : {None}]
                     \cup [at : {"response"}, nonce : Nonce]
  /\ currentNonce \in MaybeNonce
  /\ status \in {"unasked", "asked", "ready", "notReady", "done"}
  /\ button \in {"waiting", "ready", "requesting", "verifying", "redirecting"}
  /\ attempt \in [at : {"none", "worker", "error", "coz", "verify", "ok", "refused"},
                  nonce : MaybeNonce, key : Key \cup {None}, timely : BOOLEAN]
  /\ attempt.at # "none" <=> button \in {"requesting", "verifying"}
  /\ conn \in Conn
  /\ drifted \in BOOLEAN
  /\ held \in [Conn -> MaybeNonce]
  /\ accepted \subseteq Nonce
  /\ trouble \in 0 .. MaxTrouble

SignInInit ==
  /\ Init
  /\ challenge = [at |-> "unsent", nonce |-> None]
  /\ currentNonce = None
  /\ status = "unasked"
  /\ button = "waiting"
  /\ attempt = NoAttempt
  /\ conn \in Conn
  /\ drifted \in BOOLEAN
  /\ held = [c \in Conn |-> None]
  /\ accepted = {}
  /\ trouble = 0

\* Nonces are random: a new one was never held before.
NewNonce(n) ==
  /\ n # currentNonce /\ n # challenge.nonce /\ n \notin accepted
  /\ \A c \in Conn : held[c] # n

-----------------------------------------------------------------------------
(***************************************************************************)
(* The page loads.                                                         *)
(***************************************************************************)

\* fetchChallenge is called once, and reaches the bridge...
FetchChallenge ==
  /\ challenge.at = "unsent"
  /\ \E n \in Nonce :
       /\ NewNonce(n)
       /\ held' = [held EXCEPT ![conn] = n]
       /\ challenge' = [at |-> "response", nonce |-> n]
  /\ UNCHANGED <<vars, currentNonce, status, button, attempt, conn, drifted,
                 accepted, trouble>>

\* ...and its answer reaches the page, which may be clicked before that.
ChallengeFetched ==
  /\ challenge.at = "response"
  /\ currentNonce' = challenge.nonce
  /\ challenge' = [at |-> "done", nonce |-> None]
  /\ UNCHANGED <<vars, status, button, attempt, bridgeVars, trouble>>

\* The content script, when it is injected, asks for the worker's status.
AskStatus ==
  /\ status = "unasked"
  /\ status' = "asked"
  /\ UNCHANGED <<vars, challenge, currentNonce, button, attempt,
                 bridgeVars, trouble>>

\* A mutant: the answer is whether a key is loaded.
AnswerContentHasKey ==
  /\ status = "asked"
  /\ Running
  /\ status' = IF wasm = "ready" /\ privateKey # None THEN "ready" ELSE "notReady"
  /\ UNCHANGED <<vars, challenge, currentNonce, button, attempt,
                 bridgeVars, trouble>>

\* GET_STATUS.
AnswerContent ==
  /\ status = "asked"
  /\ Running
  /\ status' = IF wasm = "ready" THEN "ready" ELSE "notReady"
  /\ UNCHANGED <<vars, challenge, currentNonce, button, attempt,
                 bridgeVars, trouble>>

\* EXTENSION_STATUS enables the button, if the worker was ready by then.
ShowStatus ==
  /\ status \in {"ready", "notReady"}
  /\ status' = "done"
  /\ button' = IF status = "ready" THEN "ready" ELSE button
  /\ UNCHANGED <<vars, challenge, currentNonce, attempt, bridgeVars, trouble>>

-----------------------------------------------------------------------------
(***************************************************************************)
(* A click.                                                                *)
(***************************************************************************)

Click ==
  /\ button = "ready"
  /\ button' = "requesting"
  /\ attempt' = [NoAttempt EXCEPT !.at = "worker", !.nonce = currentNonce]
  /\ UNCHANGED <<vars, challenge, currentNonce, status, bridgeVars, trouble>>

\* A mutant: handleSignatureRequest waits for the module and the key.
RequestSignatureWaits ==
  /\ attempt.at = "worker"
  /\ wasm = "ready"
  /\ privateKey # None
  /\ attempt' = [attempt EXCEPT !.at = "coz", !.key = privateKey,
                                !.timely = ~drifted]
  /\ UNCHANGED <<vars, challenge, currentNonce, status, button,
                 bridgeVars, trouble>>

\* REQUEST_SIGNATURE is answered at once, with an error while the module or
\* the key is still loading.  The signature bears the time of the browser.
RequestSignature ==
  /\ attempt.at = "worker"
  /\ Running
  /\ attempt' = IF wasm = "ready" /\ privateKey # None
                  THEN [attempt EXCEPT !.at = "coz", !.key = privateKey,
                                       !.timely = ~drifted]
                  ELSE [attempt EXCEPT !.at = "error"]
  /\ UNCHANGED <<vars, challenge, currentNonce, status, button,
                 bridgeVars, trouble>>

\* SIGNATURE_ERROR enables the button again.
ShowSignatureError ==
  /\ attempt.at = "error"
  /\ button' = "ready"
  /\ attempt' = NoAttempt
  /\ UNCHANGED <<vars, challenge, currentNonce, status, bridgeVars, trouble>>

\* A mutant: the page fetches a new challenge before it posts the signature.
SubmitCozRefetches ==
  /\ attempt.at = "coz"
  /\ button' = "verifying"
  /\ attempt' = [attempt EXCEPT !.at = "verify"]
  /\ \E n \in Nonce : NewNonce(n) /\ held' = [held EXCEPT ![conn] = n]
  /\ UNCHANGED <<vars, challenge, currentNonce, status, conn, drifted,
                 accepted, trouble>>

\* SIGNATURE_RESPONSE is posted to the bridge as it is.
SubmitCoz ==
  /\ attempt.at = "coz"
  /\ button' = "verifying"
  /\ attempt' = [attempt EXCEPT !.at = "verify"]
  /\ UNCHANGED <<vars, challenge, currentNonce, status, bridgeVars, trouble>>

\* HandleVerify, in one step: a signature whose timestamp is off is refused
\* and leaves the nonce; any other signature of the nonce held for this
\* connection uses it up, whoever signed.
Verify ==
  /\ attempt.at = "verify"
  /\ LET match == /\ attempt.timely
                  /\ held[conn] # None /\ held[conn] = attempt.nonce
         proved == match /\ attempt.key = Registered
     IN  /\ held' = IF match THEN [held EXCEPT ![conn] = None] ELSE held
         /\ accepted' = IF proved THEN accepted \cup {attempt.nonce} ELSE accepted
         /\ attempt' = [attempt EXCEPT !.at = IF proved THEN "ok" ELSE "refused"]
  /\ UNCHANGED <<vars, challenge, currentNonce, status, button, conn, drifted,
                 trouble>>

\* A mutant: the page goes on whatever the bridge answers.
ShowVerdictUnchecked ==
  /\ attempt.at \in {"ok", "refused"}
  /\ button' = "redirecting"
  /\ attempt' = NoAttempt
  /\ UNCHANGED <<vars, challenge, currentNonce, status, bridgeVars, trouble>>

\* A mutant: the error path forgets the button.
ShowVerdictKeepsWaiting ==
  /\ attempt.at \in {"ok", "refused"}
  /\ button' = IF attempt.at = "ok" THEN "redirecting" ELSE button
  /\ attempt' = NoAttempt
  /\ UNCHANGED <<vars, challenge, currentNonce, status, bridgeVars, trouble>>

\* The page goes on to /login/callback, or lets the user try again.
ShowVerdict ==
  /\ attempt.at \in {"ok", "refused"}
  /\ button' = IF attempt.at = "ok" THEN "redirecting" ELSE "ready"
  /\ attempt' = NoAttempt
  /\ UNCHANGED <<vars, challenge, currentNonce, status, bridgeVars, trouble>>

-----------------------------------------------------------------------------
(***************************************************************************)
(* What the environment does to the sign-in.                               *)
(***************************************************************************)

Trouble == trouble < MaxTrouble /\ trouble' = trouble + 1

\* The fetch of the challenge fails, before or after the bridge stored it.
ChallengeLost ==
  /\ Trouble
  /\ challenge.at \in {"unsent", "response"}
  /\ challenge' = [at |-> "lost", nonce |-> None]
  /\ UNCHANGED <<vars, currentNonce, status, button, attempt, bridgeVars>>

\* The post fails on its way to the bridge or back.
VerifyLost ==
  /\ Trouble
  /\ attempt.at \in {"verify", "ok", "refused"}
  /\ attempt' = [attempt EXCEPT !.at = "refused"]
  /\ UNCHANGED <<vars, challenge, currentNonce, status, button, bridgeVars>>

\* The post takes so long that the signature is out of date when it arrives.
VerifyDelayed ==
  /\ Trouble
  /\ attempt.at \in {"coz", "verify"}
  /\ attempt' = [attempt EXCEPT !.timely = FALSE]
  /\ UNCHANGED <<vars, challenge, currentNonce, status, button, bridgeVars>>

\* The browser's clock is set, right or wrong.
SetClock ==
  /\ Trouble
  /\ drifted' \in BOOLEAN
  /\ UNCHANGED <<vars, loginVars, conn, held, accepted>>

\* The browser goes on over another connection.
Reconnect ==
  /\ Trouble
  /\ conn' \in Conn \ {conn}
  /\ UNCHANGED <<vars, loginVars, drifted, held, accepted>>

\* The challenge expires, or the bridge restarts.
Forget ==
  /\ Trouble
  /\ held' = [held EXCEPT ![conn] = None]
  /\ UNCHANGED <<vars, loginVars, conn, drifted, accepted>>

\* The popup fetches a challenge of its own, over the same connection.
PopupFetchChallenge ==
  /\ Trouble
  /\ \E n \in Nonce : NewNonce(n) /\ held' = [held EXCEPT ![conn] = n]
  /\ UNCHANGED <<vars, loginVars, conn, drifted, accepted>>

\* The user reloads the page.  What was under way for the old one is dropped;
\* a post that still reaches the bridge uses up its nonce, like Forget.
Reload ==
  /\ Trouble
  /\ challenge' = [at |-> "unsent", nonce |-> None]
  /\ currentNonce' = None
  /\ status' = "unasked"
  /\ button' = "waiting"
  /\ attempt' = NoAttempt
  /\ UNCHANGED <<vars, bridgeVars>>

\* The browser stops the worker, or the user sets a key.
WorkerTrouble ==
  /\ Trouble
  /\ Stop \/ SetKey \/ ImportKey
  /\ UNCHANGED <<loginVars, bridgeVars>>

\* Any message starts the worker, from here or from another page.
WakeWorker == Start /\ UNCHANGED <<loginVars, bridgeVars, trouble>>

LoadWorker ==
  /\ WasmInit \/ StorageStep \/ KeyLoaded
  /\ UNCHANGED <<loginVars, bridgeVars, trouble>>

\* The page's fetch, the content script's question, and an answer to a click
\* each go on by themselves.
FetchStep == FetchChallenge \/ ChallengeFetched
StatusStep == AskStatus \/ AnswerContent \/ ShowStatus
AttemptStep ==
  \/ RequestSignature
  \/ ShowSignatureError
  \/ SubmitCoz
  \/ Verify
  \/ ShowVerdict

SignInNext ==
  \/ FetchStep
  \/ StatusStep
  \/ AttemptStep
  \/ Click
  \/ WakeWorker
  \/ LoadWorker
  \/ ChallengeLost
  \/ VerifyLost
  \/ VerifyDelayed
  \/ SetClock
  \/ Reconnect
  \/ Forget
  \/ PopupFetchChallenge
  \/ Reload
  \/ WorkerTrouble

SignInSpec == SignInInit /\ [][SignInNext]_signInVars

\* A message that waits for the worker starts it.
Wanted == status = "asked" \/ attempt.at = "worker"

\* Messages, requests and callbacks are dealt with; a user need not click.
SignInFairSpec ==
  /\ SignInSpec
  /\ WF_signInVars(FetchStep)
  /\ WF_signInVars(StatusStep)
  /\ WF_signInVars(AttemptStep)
  /\ WF_signInVars(WakeWorker /\ Wanted)
  /\ WF_signInVars(LoadWorker /\ wasm' # wasm)
  /\ WF_signInVars(LoadWorker /\ wasm' = wasm)
-----------------------------------------------------------------------------
(***************************************************************************)
(* What must be true.                                                      *)
(***************************************************************************)

\* The page goes on only if the bridge accepted the registered key's
\* signature of this page's own challenge, whatever was fetched, lost or
\* clicked before.
RedirectProved == button = "redirecting" => currentNonce \in accepted

\* A click is answered: the page goes on or the button works again, even if
\* the worker is stopped or its module fails to load; or the page is reloaded.
ClickAnswered ==
  (button \in {"requesting", "verifying"}) ~> (button \notin {"requesting", "verifying"})

KeyReady == wasm = "ready" /\ loading = Loaded /\ privateKey = Registered

\* In a browser whose clock is within a minute of the bridge's, a request
\* signed in good order signs the user in, unless the environment interferes
\* after the click: no earlier click, failure or empty nonce is in its way.
GoodClickSignsIn ==
  \A t \in 0 .. MaxTrouble :
    ( /\ attempt.at = "worker"
      /\ KeyReady
      /\ ~drifted
      /\ attempt.nonce # None
      /\ held[conn] = attempt.nonce
      /\ trouble = t )
    ~> (button = "redirecting" \/ trouble > t)

\* A page that is loaded, or loaded again, while the worker is ready gets its
\* button, unless something happens meanwhile: reloading is a way out of what
\* ReadyEnablesButton is about.
ReloadEnablesButton ==
  \A t \in 0 .. MaxTrouble :
    (status = "unasked" /\ wasm = "ready" /\ trouble = t)
    ~> (button # "waiting" \/ trouble > t)

\* "Notify the page when the extension is ready": once the worker is ready
\* for good, the page's button is enabled.  The content script asks once, and
\* a worker that is still loading its module answers that it is not ready.
ReadyEnablesButton == <>[](wasm = "ready") => <>(button # "waiting")
=============================================================================
