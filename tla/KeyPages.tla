------------------------------- MODULE KeyPages -------------------------------
(***************************************************************************)
(* The popup or the options page of the extension, with its worker.        *)
(*                                                                         *)
(* A page that opens asks the worker for its status until the Wasm module  *)
(* is ready or has failed, then reads the key from chrome.storage once and *)
(* has the worker derive the identity it shows, exports and copies into    *)
(* BRIDGE_USERS.  Setting a key from the page shows the new identity.      *)
(* The messages of a page are handled and answered in the order of         *)
(* sending, and a poll is answered before the next one is sent.  The other *)
(* pages are reduced to the keys they set.                                 *)
(***************************************************************************)
EXTENDS KeyHolder

CONSTANT MaxMail   \* bound on the messages of the page that are under way

ASSUME PagesAssumption == MaxMail \in Nat \ {0}

VARIABLES
  page,      \* which page it is, and its React state
  load,      \* the answer to its get from chrome.storage, on its way
  sent,      \* its messages to the worker
  back,      \* the worker's answers
  troubled   \* history: something happened that the page does not hear of

pageVars == <<page, load, sent, back, troubled>>
pagesVars == <<vars, pageVars>>

MaybeKey == Key \cup {None}

\* GENERATE_KEY is an IMPORT_KEY of any key.
Request == {<<"GET_STATUS">>} \cup ({"DERIVE_KEY", "IMPORT_KEY"} \X Key)

\* The state of the Wasm module and hasKey; or the key whose identity was
\* derived, None for an error.
Reply == ({"status"} \X {"loading", "ready", "error"} \X BOOLEAN)
           \cup ({"derived", "imported"} \X MaybeKey)

NoLoad == <<>>
Closed == [kind |-> "closed", polling |-> FALSE, wasmReady |-> FALSE,
           hasKey |-> FALSE, identity |-> None]

PagesTypeOK ==
  /\ TypeOK
  /\ page \in [kind : {"closed", "popup", "options"}, polling : BOOLEAN,
               wasmReady : BOOLEAN, hasKey : BOOLEAN, identity : MaybeKey]
  /\ page.kind = "closed" => page = Closed
  /\ load \in {NoLoad} \cup {<<k>> : k \in MaybeKey}
  /\ sent \in Seq(Request)
  /\ back \in Seq(Reply)
  /\ Len(sent) + Len(back) <= MaxMail
  /\ troubled \in BOOLEAN

PagesInit ==
  /\ Init
  /\ page = Closed
  /\ load = NoLoad
  /\ sent = <<>>
  /\ back = <<>>
  /\ troubled = FALSE

HasRoom == Len(sent) + Len(back) < MaxMail

-----------------------------------------------------------------------------
(***************************************************************************)
(* What the user does.                                                     *)
(***************************************************************************)

Open ==
  /\ page.kind = "closed"
  /\ \E kind \in {"popup", "options"} :
       page' = [Closed EXCEPT !.kind = kind, !.polling = TRUE]
  /\ UNCHANGED <<vars, load, sent, back, troubled>>

Close ==
  /\ page.kind # "closed"
  /\ page' = Closed
  /\ load' = NoLoad
  /\ sent' = <<>>
  /\ back' = <<>>
  /\ troubled' = FALSE
  /\ UNCHANGED vars

\* "Set up your identity" is what a page offers that knows of no key.
Setup == ~page.hasKey /\ page.identity = None

\* generateNewKey, importKeyHex and importKeyFile.  The popup offers them on
\* the setup screen and next to an identity, the options page always.
SetKeyClicked ==
  /\ page.wasmReady
  /\ page.kind = "options" \/ Setup \/ page.identity # None
  /\ HasRoom
  /\ \E k \in Key : sent' = Append(sent, <<"IMPORT_KEY", k>>)
  /\ UNCHANGED <<vars, page, load, back, troubled>>

-----------------------------------------------------------------------------
(***************************************************************************)
(* What the page does.                                                     *)
(***************************************************************************)

\* The interval.
Poll ==
  /\ page.polling
  /\ sent = <<>> /\ back = <<>>
  /\ sent' = <<<<"GET_STATUS">>>>
  /\ UNCHANGED <<vars, page, load, back, troubled>>

\* What chrome.storage will answer to a get that is asked now.
Settled == CHOOSE k \in MaybeKey : SettlesOn(k)

\* The next answer is one of these.
Comes(kinds) == back # <<>> /\ Head(back)[1] \in kinds

\* A mutant: a failure to load the module does not end the interval.
StatusShownPollsOn ==
  /\ Comes({"status"})
  /\ LET ready == Head(back)[2] = "ready"
     IN  /\ page' = [page EXCEPT !.polling = ~ready,
                                 !.wasmReady = ready, !.hasKey = Head(back)[3]]
         /\ load' = IF ready THEN <<Settled>> ELSE load
  /\ back' = Tail(back)
  /\ UNCHANGED <<vars, sent, troubled>>

\* The answer to a poll ends the interval, unless the module is still loading,
\* and starts loadIdentity if it is ready.
StatusShown ==
  /\ Comes({"status"})
  /\ LET ready == Head(back)[2] = "ready"
     IN  /\ page' = [page EXCEPT !.polling = (Head(back)[2] = "loading"),
                                 !.wasmReady = ready, !.hasKey = Head(back)[3]]
         /\ load' = IF ready THEN <<Settled>> ELSE load
  /\ back' = Tail(back)
  /\ UNCHANGED <<vars, sent, troubled>>

\* loadIdentity goes on with a stored key.
KeyRead ==
  /\ load # NoLoad
  /\ HasRoom
  /\ load' = NoLoad
  /\ sent' = IF load[1] = None THEN sent ELSE Append(sent, <<"DERIVE_KEY", load[1]>>)
  /\ UNCHANGED <<vars, page, back, troubled>>

\* A mutant: an error shows no identity, instead of the one shown before.
IdentityCleared ==
  /\ Comes({"derived", "imported"})
  /\ LET k == Head(back)[2]
         imported == Head(back)[1] = "imported"
     IN  /\ page' = [page EXCEPT !.identity = k, !.hasKey = @ \/ (imported /\ k # None)]
         /\ troubled' = (troubled \/ (~imported /\ k = None))
  /\ back' = Tail(back)
  /\ UNCHANGED <<vars, load, sent>>

\* setIdentity, unless the worker answered with an error.
IdentityShown ==
  /\ Comes({"derived", "imported"})
  /\ LET k == Head(back)[2]
         imported == Head(back)[1] = "imported"
     IN  /\ page' = [page EXCEPT !.identity = IF k = None THEN @ ELSE k,
                                 !.hasKey = @ \/ (imported /\ k # None)]
         /\ troubled' = (troubled \/ (~imported /\ k = None))
  /\ back' = Tail(back)
  /\ UNCHANGED <<vars, load, sent>>

-----------------------------------------------------------------------------
(***************************************************************************)
(* What the worker does with a message of the page.                        *)
(***************************************************************************)

Arrives(what) == Running /\ sent # <<>> /\ Head(sent)[1] = what

Answers(reply) == sent' = Tail(sent) /\ back' = Append(back, reply)

AnswerStatus ==
  /\ Arrives("GET_STATUS")
  /\ Answers(<<"status", wasm, privateKey # None>>)
  /\ UNCHANGED <<vars, page, load, troubled>>

DeriveKey ==
  /\ Arrives("DERIVE_KEY")
  /\ Answers(<<"derived", IF wasm = "ready" THEN Head(sent)[2] ELSE None>>)
  /\ UNCHANGED <<vars, page, load, troubled>>

\* loadIdentity has asked for the key, and not got the identity yet.
LoadsIdentity ==
  load # NoLoad \/ \E i \in DOMAIN sent : sent[i][1] = "DERIVE_KEY"

\* IMPORT_KEY and GENERATE_KEY.  What loadIdentity shows after that is old.
AnswerSetKey ==
  /\ Arrives("IMPORT_KEY")
  /\ IF wasm = "ready"
       THEN /\ UseKey(Head(sent)[2])
            /\ Answers(<<"imported", Head(sent)[2]>>)
            /\ troubled' = LoadsIdentity
       ELSE /\ Answers(<<"imported", None>>)
            /\ UNCHANGED <<vars, troubled>>
  /\ UNCHANGED <<page, load>>

\* A key is set from another page, or by a message sent before this one opened.
SetElsewhere ==
  /\ SetKey \/ ImportKey
  /\ troubled' = (page.kind # "closed")
  /\ UNCHANGED <<page, load, sent, back>>

-----------------------------------------------------------------------------
StartWorker == Start /\ UNCHANGED pageVars
StopWorker == Stop /\ UNCHANGED pageVars
WorkerStep == (WasmInit \/ StorageStep \/ KeyLoaded) /\ UNCHANGED pageVars

PageStep == Poll \/ StatusShown \/ KeyRead \/ IdentityShown
MessageStep == AnswerStatus \/ DeriveKey \/ AnswerSetKey

PagesNext ==
  \/ Open
  \/ Close
  \/ SetKeyClicked
  \/ PageStep
  \/ MessageStep
  \/ SetElsewhere
  \/ StartWorker
  \/ StopWorker
  \/ WorkerStep

PagesSpec == PagesInit /\ [][PagesNext]_pagesVars

\* Messages are delivered, a message starts the worker, and the module's
\* instantiation ends; the user need not do anything.
PagesFairSpec ==
  /\ PagesSpec
  /\ WF_pagesVars(PageStep)
  /\ WF_pagesVars(MessageStep)
  /\ WF_pagesVars(StartWorker /\ sent # <<>>)
  /\ WF_pagesVars(WorkerStep /\ wasm' # wasm)
  /\ WF_pagesVars(WorkerStep /\ wasm' = wasm)
-----------------------------------------------------------------------------
(***************************************************************************)
(* What must be true.                                                      *)
(***************************************************************************)

\* A page that is up and waits for nothing shows the last key set, which is
\* the one storage settles on, and its setup screen only if there is none;
\* unless it was set from another page, or while this one was loading the
\* identity, or the worker failed to derive it.
PageShowsLatest ==
  /\ page.wasmReady /\ ~troubled
  /\ sent = <<>> /\ back = <<>> /\ load = NoLoad
  => page.identity = latest

\* A page does not ask for the status for ever, even if the worker is stopped
\* or its module fails to load.
PollEnds == page.polling ~> ~page.polling
=============================================================================
