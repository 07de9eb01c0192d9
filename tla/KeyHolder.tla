------------------------------ MODULE KeyHolder ------------------------------
(***************************************************************************)
(* The background service worker of the CyphrMask extension.               *)
(*                                                                         *)
(* The worker keeps the private key in a global.  The browser stops an     *)
(* idle worker and starts it again for the next message; a start loads the *)
(* Wasm module and asks chrome.storage for the key, and both answers come  *)
(* later, in any order, with messages handled in between.  chrome.storage  *)
(* carries out its operations one at a time, in the order they were asked  *)
(* for, also for a worker that has stopped since.                          *)
(***************************************************************************)
EXTENDS Integers, Sequences

CONSTANTS
  Key,        \* private keys
  MaxOps,     \* bound on the operations chrome.storage has not done yet
  MaxStarts,  \* bound on the starts of the worker
  None        \* no key, no answer

ASSUME KHAssumption ==
  /\ MaxOps \in Nat \ {0}
  /\ MaxStarts \in Nat
  /\ None \notin Key

\* A get is asked for by one life of the worker.
Operation == [op : {"get"}, life : 1 .. MaxStarts] \cup [op : {"set"}, key : Key]
Get(n) == [op |-> "get", life |-> n]
Set(k) == [op |-> "set", key |-> k]

VARIABLES
  wasm,        \* the Wasm module, in a worker that runs
  privateKey,  \* the worker's global
  loading,     \* the answer to the startup get: none yet, a key or nothing
  storage,     \* the key in chrome.storage
  ops,         \* the operations chrome.storage has not done yet
  starts,      \* the starts so far
  latest,      \* history: the last key the user was told is set
  raced        \* history: a key was set before the startup get was answered

vars == <<wasm, privateKey, loading, storage, ops, starts, latest, raced>>

\* The answer to the startup get.
Answer == {[pc |-> "asked", key |-> None], [pc |-> "loaded", key |-> None]}
            \cup [pc : {"answered"}, key : Key \cup {None}]
Asked == [pc |-> "asked", key |-> None]
Loaded == [pc |-> "loaded", key |-> None]

TypeOK ==
  /\ wasm \in {"stopped", "loading", "ready", "error"}
  /\ privateKey \in Key \cup {None}
  /\ wasm = "stopped" => privateKey = None
  /\ loading \in Answer
  /\ storage \in Key \cup {None}
  /\ ops \in Seq(Operation)
  /\ Len(ops) <= MaxOps
  /\ starts \in 0 .. MaxStarts
  /\ latest \in Key \cup {None}
  /\ raced \in BOOLEAN

Init ==
  /\ wasm = "stopped"
  /\ privateKey = None
  /\ loading = Loaded
  /\ storage = None
  /\ ops = <<>>
  /\ starts = 0
  /\ latest = None
  /\ raced = FALSE

Running == wasm # "stopped"

-----------------------------------------------------------------------------
(***************************************************************************)
(* The life of the worker.                                                 *)
(***************************************************************************)

\* A message finds the worker stopped: its script runs from the top.
Start ==
  /\ ~Running
  /\ starts < MaxStarts
  /\ Len(ops) < MaxOps
  /\ starts' = starts + 1
  /\ wasm' = "loading"
  /\ ops' = Append(ops, Get(starts + 1))
  /\ loading' = Asked
  /\ raced' = FALSE
  /\ UNCHANGED <<privateKey, storage, latest>>

\* The module is instantiated, or fails to be for the rest of this life.
WasmInit ==
  /\ wasm = "loading"
  /\ wasm' \in {"ready", "error"}
  /\ UNCHANGED <<privateKey, loading, storage, ops, starts, latest, raced>>

\* chrome.storage carries out its oldest operation.
StorageStep ==
  /\ ops # <<>>
  /\ ops' = Tail(ops)
  /\ IF Head(ops).op = "set"
       THEN /\ storage' = Head(ops).key
            /\ UNCHANGED loading
       ELSE /\ IF Running /\ Head(ops).life = starts
                 THEN loading' = [pc |-> "answered", key |-> storage]
                 ELSE UNCHANGED loading
            /\ UNCHANGED storage
  /\ UNCHANGED <<wasm, privateKey, starts, latest, raced>>

\* A mutant: the global is the result object, not the key in it.
KeyLoadedWhole ==
  /\ Running
  /\ loading.pc = "answered"
  /\ privateKey' = IF loading.key # None THEN {loading.key} ELSE privateKey
  /\ loading' = Loaded
  /\ UNCHANGED <<wasm, storage, ops, starts, latest, raced>>

\* The callback of the startup get: whatever is in the global, a stored key
\* replaces it.
KeyLoaded ==
  /\ Running
  /\ loading.pc = "answered"
  /\ privateKey' = IF loading.key # None THEN loading.key ELSE privateKey
  /\ loading' = Loaded
  /\ UNCHANGED <<wasm, storage, ops, starts, latest, raced>>

\* The browser stops the worker; nobody waits for the answer to its get.  The
\* last of the MaxStarts lives does not end.
Stop ==
  /\ Running
  /\ starts < MaxStarts
  /\ wasm' = "stopped"
  /\ privateKey' = None
  /\ loading' = Loaded
  /\ UNCHANGED <<storage, ops, starts, latest, raced>>

-----------------------------------------------------------------------------
(***************************************************************************)
(* The messages that set the key.  The others read: see SignIn.            *)
(***************************************************************************)

\* A mutant: the key is only kept in memory.
UseKeyInMemory(k) ==
  /\ Running
  /\ privateKey' = k
  /\ latest' = k
  /\ raced' = (raced \/ loading # Loaded)
  /\ UNCHANGED <<wasm, loading, storage, ops, starts>>

\* The global is set, the write is asked for, and the user is answered.
UseKey(k) ==
  /\ Running
  /\ Len(ops) < MaxOps
  /\ privateKey' = k
  /\ ops' = Append(ops, Set(k))
  /\ latest' = k
  /\ raced' = (raced \/ loading # Loaded)
  /\ UNCHANGED <<wasm, loading, storage, starts>>

\* SET_KEY asks nothing of the Wasm module.
SetKey == \E k \in Key : UseKey(k)

\* IMPORT_KEY and GENERATE_KEY call the module first, and fail without it.
ImportKey == wasm = "ready" /\ \E k \in Key : UseKey(k)

Next ==
  \/ Start
  \/ WasmInit
  \/ StorageStep
  \/ KeyLoaded
  \/ Stop
  \/ SetKey
  \/ ImportKey

Spec == Init /\ [][Next]_vars
-----------------------------------------------------------------------------
(***************************************************************************)
(* What must be true.                                                      *)
(***************************************************************************)

\* chrome.storage will hold this key once it has done what it was asked.
SettlesOn(key) ==
  \/ /\ key = storage
     /\ \A i \in DOMAIN ops : ops[i].op = "get"
  \/ \E i \in DOMAIN ops :
       /\ ops[i] = Set(key)
       /\ \A j \in DOMAIN ops : j > i => ops[j].op = "get"

\* A key the user was told is set is not lost when the worker stops before
\* the write is done: storage settles on the last one.
KeyIsDurable == SettlesOn(latest)

\* A worker that has heard from storage signs with the last key set, in this
\* life or in an earlier one, unless a key was set while it was waiting.
LoadedKeyIsLatest == Running /\ loading = Loaded /\ ~raced => privateKey = latest

\* "Load key from Chrome storage on startup": once storage has nothing more
\* to do for a running worker, the key in memory is the one in storage.  The
\* callback overwrites a key that was set after the get was asked for.
KeyMatchesStorage ==
  Running /\ ops = <<>> /\ loading = Loaded => privateKey = storage
=============================================================================
