----------------------------- MODULE SigningKey -----------------------------
(***************************************************************************)
(* The RSA key that signs ID tokens, over the starts of the process.       *)
(*                                                                         *)
(* With a key path, a start loads the key from the file, or generates one  *)
(* and saves it there; without a path it generates one and keeps it in     *)
(* memory.  Each start gives the key a new id.  os.WriteFile truncates the *)
(* file before it writes: a process that stops, or fails, in between       *)
(* leaves a file that no start can load.                                   *)
(***************************************************************************)
EXTENDS Naturals

CONSTANTS
  Key,         \* the keys rsa.GenerateKey returns
  KeyID,       \* the ids uuid.NewString gives to a start
  MaxTrouble,  \* bound on crashes and failed reads and writes
  None         \* no file, no key, no id

\* A file that was truncated and not written.
Torn == "torn"

ASSUME SKAssumption ==
  /\ MaxTrouble \in Nat
  /\ None \notin Key \cup KeyID
  /\ Torn \notin Key

VARIABLES
  path,     \* whether BRIDGE_SIGNING_KEY_PATH is set
  file,     \* what the path holds
  pc,       \* where the process stands in its start
  key,      \* the process's signing key
  id,       \* the id it publishes the key under
  used,     \* history: the keys and ids that were given out
  issued,   \* the ID tokens in the hands of clients
  reread,   \* history: a file that held a key could not be read
  trouble   \* the crashes and failures so far

vars == <<path, file, pc, key, id, used, issued, reread, trouble>>

TypeOK ==
  /\ path \in BOOLEAN
  /\ file \in Key \cup {None, Torn}
  /\ pc \in {"stopped", "generated", "writing", "serving"}
  /\ key \in Key \cup {None}
  /\ key = None <=> pc = "stopped"
  /\ id \in KeyID \cup {None}
  /\ id = None <=> pc # "serving"
  /\ used \subseteq Key \cup KeyID
  /\ issued \subseteq [key : Key, id : KeyID]
  /\ reread \in BOOLEAN
  /\ trouble \in 0 .. MaxTrouble

Init ==
  /\ path \in BOOLEAN
  /\ file = None
  /\ pc = "stopped"
  /\ key = None
  /\ id = None
  /\ used = {}
  /\ issued = {}
  /\ reread = FALSE
  /\ trouble = 0

Trouble == trouble < MaxTrouble /\ trouble' = trouble + 1

\* A mutant: an id that another start may have had.
ServeAnyID(k, given) ==
  /\ pc' = "serving"
  /\ key' = k
  /\ \E i \in KeyID :
       /\ id' = i
       /\ used' = used \cup given \cup {i}

\* The end of a start: the storage is made, with a new id for the key k.
Serve(k, given) ==
  /\ pc' = "serving"
  /\ key' = k
  /\ \E i \in KeyID \ used :
       /\ id' = i
       /\ used' = used \cup given \cup {i}

-----------------------------------------------------------------------------
(***************************************************************************)
(* A start of the process.                                                 *)
(***************************************************************************)

\* No path: a new key, which is not saved.
GenerateInMemory ==
  /\ pc = "stopped"
  /\ ~path
  /\ \E k \in Key \ used : Serve(k, {k})
  /\ UNCHANGED <<path, file, issued, reread, trouble>>

\* The file holds a key.  If it is torn, the start panics: there is no step.
LoadKey ==
  /\ pc = "stopped"
  /\ path
  /\ file \in Key
  /\ Serve(file, {})
  /\ UNCHANGED <<path, file, issued, reread, trouble>>

Generate ==
  /\ pc = "stopped"
  /\ path
  /\ \E k \in Key \ used : key' = k /\ used' = used \cup {k}
  /\ pc' = "generated"
  /\ UNCHANGED <<path, file, id, issued>>

\* A mutant: the new key is used without being saved.
GenerateUnsaved ==
  /\ pc = "stopped"
  /\ path
  /\ file = None
  /\ \E k \in Key \ used : Serve(k, {k})
  /\ UNCHANGED <<path, file, issued, reread, trouble>>

\* There is no file: a new key.
GenerateKey == Generate /\ file = None /\ UNCHANGED <<reread, trouble>>

\* The file cannot be read, for whatever reason: a new key all the same.
ReadFails ==
  /\ Generate
  /\ Trouble
  /\ file # None
  /\ reread' = (reread \/ file \in Key)

\* os.WriteFile opens the file and truncates it...
OpenFile ==
  /\ pc = "generated"
  /\ file' = Torn
  /\ pc' = "writing"
  /\ UNCHANGED <<path, key, id, used, issued, reread, trouble>>

\* ...and writes the key.
WriteFile ==
  /\ pc = "writing"
  /\ file' = key
  /\ Serve(key, {})
  /\ UNCHANGED <<path, issued, reread, trouble>>

\* The process stops: it is told to, it crashes, or the file cannot be opened
\* or written and it panics.
Stop ==
  /\ Trouble
  /\ pc # "stopped"
  /\ pc' = "stopped"
  /\ key' = None
  /\ id' = None
  /\ UNCHANGED <<path, file, used, issued, reread>>

\* An ID token, signed with the key and naming its id.
SignToken ==
  /\ pc = "serving"
  /\ issued' = issued \cup {[key |-> key, id |-> id]}
  /\ UNCHANGED <<path, file, pc, key, id, used, reread, trouble>>

Next ==
  \/ GenerateInMemory
  \/ LoadKey
  \/ GenerateKey
  \/ ReadFails
  \/ OpenFile
  \/ WriteFile
  \/ Stop
  \/ SignToken

Spec == Init /\ [][Next]_vars
-----------------------------------------------------------------------------
(***************************************************************************)
(* What must be true.                                                      *)
(***************************************************************************)

\* A process that serves with a key path signs with the key that its
\* successor will load.
ServedKeyIsSaved == path /\ pc = "serving" => file = key

\* "Persists across restarts": every token that was ever issued was signed
\* with the key in use, whatever crashed in between, unless a file that held
\* a key could not be read: then it is replaced.
IssuedWithSavedKey ==
  path /\ ~reread /\ pc = "serving" => \A t \in issued : t.key = key

\* Why: what the file holds is what every token was signed with, and a new
\* key is made only when there is none.
FileInv ==
  path /\ ~reread =>
    /\ \A t \in issued : t.key = file
    /\ pc \in {"generated", "writing"} => issued = {}

\* An id stands for one key: whoever knows the keys of earlier starts by their
\* ids is never led to verify a token with another key than its own, also
\* where keys are lost with each start.
IdNamesKey ==
  /\ \A s, t \in issued : s.id = t.id => s.key = t.key
  /\ \A t \in issued : t.id = id => t.key = key

\* Why: no id is given out twice.
IdInv ==
  /\ id # None => id \in used
  /\ \A t \in issued : t.id \in used
  /\ IdNamesKey

IndInv == TypeOK /\ ServedKeyIsSaved /\ FileInv /\ IdInv
=============================================================================
