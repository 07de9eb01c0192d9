--------------------------- MODULE KeyHolder_proofs ---------------------------
(***************************************************************************)
(* Proofs about the worker, for any keys and any bounds: no key is lost    *)
(* when the worker stops, and a worker that has heard from storage signs   *)
(* with the last key set, unless one was set while it was waiting.  Then   *)
(* about the pages that use the worker, next to which what is true of it   *)
(* stays true: one of its own pages that waits for nothing shows the last  *)
(* key set, and the login page goes on only when the bridge has accepted   *)
(* its own challenge.                                                      *)
(***************************************************************************)
EXTENDS KeyPages, SignIn, SequenceTheorems, TLAPS

-----------------------------------------------------------------------------
(***************************************************************************)
(* The inductive invariant.                                                *)
(***************************************************************************)

\* A get that is still to be answered was asked for by a start.
LifeInv == \A n \in 1 .. MaxStarts, i \in DOMAIN ops : ops[i] = Get(n) => n <= starts

Undisturbed == Running /\ ~raced

\* Nothing was asked for after the get of an undisturbed worker that waits,
\* and one that has its answer has no other get.
GetInv ==
  Undisturbed =>
    \A i \in DOMAIN ops : ops[i] = Get(starts) => loading = Asked /\ i = Len(ops)

\* Such a worker has no key until it has loaded the last one set, and that is
\* what storage answers.
MemoryInv ==
  Undisturbed =>
    /\ privateKey = IF loading = Loaded THEN latest ELSE None
    /\ loading.pc = "answered" => loading.key = latest

IndInv == TypeOK /\ KeyIsDurable /\ LifeInv /\ GetInv /\ MemoryInv

-----------------------------------------------------------------------------
(***************************************************************************)
(* What chrome.storage settles on.                                         *)
(***************************************************************************)

LEMMA OperationIs ==
  ASSUME NEW o \in Operation
  PROVE  \/ \E n \in 1 .. MaxStarts : o = Get(n) /\ o.op = "get"
         \/ \E k \in Key : o = Set(k) /\ o.op = "set" /\ o.key = k
  BY DEF Operation, Get, Set

\* A get that is asked for changes nothing of what storage settles on.
LEMMA GetSettles ==
  ASSUME TypeOK, NEW n \in 1 .. MaxStarts, NEW key, SettlesOn(key),
         storage' = storage, ops' = Append(ops, Get(n))
  PROVE  SettlesOn(key)'
<1>1. /\ Len(ops') = Len(ops) + 1
      /\ \A i \in 1 .. Len(ops) : ops'[i] = ops[i]
      /\ ops'[Len(ops) + 1] = Get(n)
      /\ Len(ops) \in Nat
      /\ DOMAIN ops = 1 .. Len(ops) /\ DOMAIN ops' = 1 .. Len(ops) + 1
  BY DEF TypeOK
<1>2. Get(n).op = "get"
  BY DEF Get
<1>3. CASE key = storage /\ \A i \in DOMAIN ops : ops[i].op = "get"
  BY <1>1, <1>2, <1>3 DEF SettlesOn
<1>4. ASSUME NEW i \in DOMAIN ops, ops[i] = Set(key),
             \A j \in DOMAIN ops : j > i => ops[j].op = "get"
      PROVE  SettlesOn(key)'
  <2>1. i \in DOMAIN ops' /\ ops'[i] = Set(key)
    BY <1>1, <1>4
  <2>2. \A j \in DOMAIN ops' : j > i => ops'[j].op = "get"
    BY <1>1, <1>2, <1>4
  <2>3. Set(key)' = Set(key)
    OBVIOUS
  <2>4. QED
    BY <2>1, <2>2 DEF SettlesOn, Set
<1>5. QED
  BY <1>3, <1>4 DEF SettlesOn

\* A set that is asked for is what storage settles on.
LEMMA SetSettles ==
  ASSUME TypeOK, NEW k \in Key, ops' = Append(ops, Set(k)), latest' = k
  PROVE  SettlesOn(latest)'
<1>1. /\ ops'[Len(ops) + 1] = Set(k)
      /\ Len(ops) \in Nat /\ DOMAIN ops' = 1 .. Len(ops) + 1
  BY DEF TypeOK
<1>2. \A j \in DOMAIN ops' : ~(j > Len(ops) + 1)
  BY <1>1
<1>3. Len(ops) + 1 \in DOMAIN ops' /\ ops'[Len(ops) + 1] = Set(latest')
  BY <1>1
<1>4. QED
  BY <1>2, <1>3 DEF SettlesOn, Set

\* The tail of the queue.
LEMMA TailOps ==
  ASSUME TypeOK, ops # <<>>, ops' = Tail(ops)
  PROVE  /\ Len(ops) \in Nat \ {0} /\ DOMAIN ops = 1 .. Len(ops)
         /\ Head(ops) = ops[1] /\ ops[1] \in Operation
         /\ ops' \in Seq(Operation) /\ Len(ops') = Len(ops) - 1
         /\ DOMAIN ops' = 1 .. Len(ops) - 1
         /\ \A i \in 1 .. Len(ops) - 1 : ops'[i] = ops[i + 1] /\ i + 1 \in DOMAIN ops
  BY HeadTailProperties, EmptySeq DEF TypeOK

\* Carrying out the oldest operation leaves storage settling on the same key.
LEMMA StepSettles ==
  ASSUME TypeOK, KeyIsDurable, StorageStep
  PROVE  KeyIsDurable'
<1>1. /\ ops # <<>> /\ ops' = Tail(ops) /\ latest' = latest
      /\ storage' = IF Head(ops).op = "set" THEN Head(ops).key ELSE storage
  BY DEF StorageStep
<1>2. /\ Len(ops) \in Nat \ {0} /\ DOMAIN ops = 1 .. Len(ops)
      /\ Head(ops) = ops[1] /\ ops[1] \in Operation
      /\ DOMAIN ops' = 1 .. Len(ops) - 1
      /\ \A i \in 1 .. Len(ops) - 1 : ops'[i] = ops[i + 1] /\ i + 1 \in DOMAIN ops
  BY <1>1, TailOps
<1>3. CASE latest = storage /\ \A i \in DOMAIN ops : ops[i].op = "get"
  <2>1. storage' = storage
    BY <1>1, <1>2, <1>3
  <2>2. \A i \in DOMAIN ops' : ops'[i].op = "get"
    BY <1>2, <1>3
  <2>3. QED
    BY <1>1, <1>3, <2>1, <2>2 DEF KeyIsDurable, SettlesOn
<1>4. ASSUME NEW i \in DOMAIN ops, ops[i] = Set(latest),
             \A j \in DOMAIN ops : j > i => ops[j].op = "get"
      PROVE  KeyIsDurable'
  <2>1. CASE i = 1
    <3>1. storage' = latest
      BY <1>1, <1>2, <1>4, <2>1 DEF Set
    <3>2. \A j \in DOMAIN ops' : ops'[j].op = "get"
      BY <1>2, <1>4, <2>1
    <3>3. QED
      BY <1>1, <3>1, <3>2 DEF KeyIsDurable, SettlesOn
  <2>2. CASE i # 1
    <3>1. i - 1 \in DOMAIN ops' /\ ops'[i - 1] = Set(latest)
      BY <1>2, <1>4, <2>2
    <3>2. \A j \in DOMAIN ops' : j > i - 1 => ops'[j].op = "get"
      BY <1>2, <1>4, <2>2
    <3>3. QED
      BY <1>1, <3>1, <3>2 DEF KeyIsDurable, SettlesOn, Set
  <2>3. QED
    BY <2>1, <2>2
<1>5. QED
  BY <1>3, <1>4 DEF KeyIsDurable, SettlesOn

-----------------------------------------------------------------------------
(***************************************************************************)
(* The invariant is inductive.                                             *)
(***************************************************************************)

LEMMA GetIs ==
  \A n, m \in 1 .. MaxStarts : Get(n) \in Operation /\ (Get(n) = Get(m) => n = m)
  BY DEF Get, Operation

LEMMA SetIs ==
  \A k \in Key : /\ Set(k) \in Operation
                 /\ \A n \in 1 .. MaxStarts : Set(k) # Get(n)
<1>1. \A k \in Key : Set(k) \in Operation
  BY DEF Set, Operation
<1>2. ASSUME NEW k \in Key, NEW n \in 1 .. MaxStarts PROVE Set(k) # Get(n)
  <2>1. Set(k).op = "set" /\ Get(n).op = "get"
    BY DEF Set, Get
  <2>2. QED
    BY <2>1
<1>3. QED
  BY <1>1, <1>2

LEMMA InitInv == Init => IndInv
<1> SUFFICES ASSUME Init PROVE IndInv
  OBVIOUS
<1>1. Len(ops) = 0 /\ ops \in Seq(Operation) /\ DOMAIN ops = {}
  BY EmptySeq DEF Init
<1>2. Loaded \in Answer /\ ~Running
  BY DEF Init, Running, Answer, Loaded
<1>3. TypeOK
  <2>1. raced \in BOOLEAN
    BY DEF Init
  <2>2. QED
    BY KHAssumption, <1>1, <1>2, <2>1 DEF Init, TypeOK
<1>4. KeyIsDurable
  BY <1>1 DEF Init, KeyIsDurable, SettlesOn
<1>5. LifeInv /\ GetInv /\ MemoryInv
  BY <1>1, <1>2 DEF LifeInv, GetInv, MemoryInv, Undisturbed
<1>6. QED
  BY <1>3, <1>4, <1>5 DEF IndInv

LEMMA StartInv == IndInv /\ Start => IndInv'
<1> SUFFICES ASSUME IndInv, Start PROVE IndInv'
  OBVIOUS
<1> USE DEF IndInv
<1>1. /\ starts' = starts + 1 /\ starts' \in 1 .. MaxStarts
      /\ ops' = Append(ops, Get(starts')) /\ Len(ops) < MaxOps
      /\ wasm' = "loading" /\ loading' = Asked /\ raced' = FALSE
      /\ privateKey' = privateKey /\ storage' = storage /\ latest' = latest
      /\ ~Running
  BY KHAssumption DEF Start, TypeOK
<1>2. /\ ops' \in Seq(Operation) /\ Len(ops') = Len(ops) + 1
      /\ \A i \in 1 .. Len(ops) : ops'[i] = ops[i]
      /\ ops'[Len(ops) + 1] = Get(starts')
      /\ Len(ops) \in Nat
      /\ DOMAIN ops = 1 .. Len(ops) /\ DOMAIN ops' = 1 .. Len(ops) + 1
  BY <1>1, GetIs DEF TypeOK
<1>3. Asked \in Answer /\ Asked # Loaded /\ Asked.pc = "asked"
  BY DEF Answer, Asked, Loaded
<1>4. privateKey = None /\ starts \in 0 .. MaxStarts
  BY <1>1 DEF TypeOK, Running
<1>5. TypeOK'
  <2>1. raced' \in BOOLEAN
    BY <1>1
  <2>2. Len(ops') <= MaxOps
    BY KHAssumption, <1>1, <1>2
  <2>3. QED
    BY KHAssumption, <1>1, <1>2, <1>3, <1>4, <2>1, <2>2 DEF TypeOK
<1>6. KeyIsDurable'
  BY <1>1, GetSettles DEF KeyIsDurable, SettlesOn
<1>7. LifeInv'
  BY <1>1, <1>2, <1>4, GetIs DEF LifeInv
<1>8. GetInv'
  BY <1>1, <1>2, <1>4, GetIs DEF LifeInv, GetInv
<1>9. MemoryInv'
  BY <1>1, <1>3, <1>4 DEF MemoryInv
<1>10. QED
  BY <1>5, <1>6, <1>7, <1>8, <1>9

LEMMA WasmInitInv == IndInv /\ WasmInit => IndInv'
<1> SUFFICES ASSUME IndInv, WasmInit PROVE IndInv'
  OBVIOUS
<1> USE DEF IndInv
<1>1. /\ privateKey' = privateKey /\ loading' = loading /\ storage' = storage
      /\ ops' = ops /\ starts' = starts /\ latest' = latest /\ raced' = raced
      /\ Running /\ Running' /\ wasm' \in {"ready", "error"}
  BY DEF WasmInit, Running
<1>2. TypeOK'
  BY <1>1 DEF TypeOK
<1>3. KeyIsDurable' /\ LifeInv'
  BY <1>1 DEF KeyIsDurable, SettlesOn, LifeInv
<1>4. GetInv' /\ MemoryInv'
  BY <1>1 DEF GetInv, MemoryInv, Undisturbed
<1>5. QED
  BY <1>2, <1>3, <1>4

LEMMA StorageStepInv == IndInv /\ StorageStep => IndInv'
<1> SUFFICES ASSUME IndInv, StorageStep PROVE IndInv'
  OBVIOUS
<1> USE DEF IndInv
<1>1. /\ ops # <<>> /\ ops' = Tail(ops)
      /\ wasm' = wasm /\ privateKey' = privateKey /\ starts' = starts
      /\ latest' = latest /\ raced' = raced /\ (Undisturbed' <=> Undisturbed)
  BY DEF StorageStep, Undisturbed, Running
<1>2. /\ Len(ops) \in Nat \ {0} /\ DOMAIN ops = 1 .. Len(ops)
      /\ Head(ops) = ops[1] /\ ops[1] \in Operation
      /\ ops' \in Seq(Operation) /\ Len(ops') = Len(ops) - 1
      /\ DOMAIN ops' = 1 .. Len(ops) - 1
      /\ \A i \in 1 .. Len(ops) - 1 : ops'[i] = ops[i + 1] /\ i + 1 \in DOMAIN ops
  BY <1>1, TailOps
<1>3. LifeInv'
  BY <1>1, <1>2 DEF LifeInv
<1>4. KeyIsDurable'
  BY StepSettles
<1>5. CASE ops[1].op = "set"
  <2>1. storage' \in Key /\ loading' = loading
    BY <1>2, <1>5, OperationIs DEF StorageStep
  <2>2. TypeOK'
    BY KHAssumption, <1>1, <1>2, <2>1 DEF TypeOK
  <2>3. GetInv' /\ MemoryInv'
    BY <1>1, <1>2, <2>1 DEF GetInv, MemoryInv
  <2>4. QED
    BY <1>3, <1>4, <2>2, <2>3
<1>6. CASE ops[1].op = "get" /\ Running /\ ops[1].life = starts
  <2>1. storage' = storage /\ loading' = [pc |-> "answered", key |-> storage]
    BY <1>2, <1>6 DEF StorageStep
  <2>2. /\ loading' \in Answer /\ loading'.pc = "answered"
        /\ loading' # Loaded /\ loading'.key = storage
    BY <2>1 DEF Answer, TypeOK, Loaded
  <2>3. TypeOK'
    BY KHAssumption, <1>1, <1>2, <2>1, <2>2 DEF TypeOK
  <2>4. ops[1] = Get(starts)
    BY <1>2, <1>6 DEF Operation, Get
  <2>5. Undisturbed => /\ Len(ops) = 1
                       /\ privateKey = None
                       /\ latest = storage
    <3> SUFFICES ASSUME Undisturbed
                 PROVE  Len(ops) = 1 /\ privateKey = None /\ latest = storage
      OBVIOUS
    <3>1. Len(ops) = 1 /\ loading = Asked
      BY <1>2, <2>4 DEF GetInv
    <3>2. privateKey = None
      BY <3>1 DEF MemoryInv, Asked, Loaded
    <3>3. ~\E i \in DOMAIN ops : ops[i] = Set(latest)
      BY <1>2, <1>6, <3>1 DEF Set
    <3>4. latest = storage
      BY <3>3 DEF KeyIsDurable, SettlesOn
    <3>5. QED
      BY <3>1, <3>2, <3>4
  <2>6. GetInv'
    BY <1>1, <1>2, <2>5 DEF GetInv
  <2>7. MemoryInv'
    BY <1>1, <2>2, <2>5 DEF MemoryInv
  <2>8. QED
    BY <1>3, <1>4, <2>3, <2>6, <2>7
<1>7. CASE ops[1].op = "get" /\ ~(Running /\ ops[1].life = starts)
  <2>1. storage' = storage /\ loading' = loading
    BY <1>2, <1>7 DEF StorageStep
  <2>2. TypeOK'
    BY KHAssumption, <1>1, <1>2, <2>1 DEF TypeOK
  <2>3. GetInv' /\ MemoryInv'
    BY <1>1, <1>2, <2>1 DEF GetInv, MemoryInv
  <2>4. QED
    BY <1>3, <1>4, <2>2, <2>3
<1>8. QED
  BY <1>2, <1>5, <1>6, <1>7, OperationIs

LEMMA KeyLoadedInv == IndInv /\ KeyLoaded => IndInv'
<1> SUFFICES ASSUME IndInv, KeyLoaded PROVE IndInv'
  OBVIOUS
<1> USE DEF IndInv
<1>1. /\ Running /\ loading.pc = "answered" /\ loading' = Loaded
      /\ privateKey' = IF loading.key # None THEN loading.key ELSE privateKey
      /\ wasm' = wasm /\ storage' = storage /\ ops' = ops
      /\ starts' = starts /\ latest' = latest /\ raced' = raced
      /\ (Undisturbed' <=> Undisturbed)
  BY DEF KeyLoaded, Undisturbed, Running
<1>2. /\ loading # Loaded /\ loading # Asked /\ Loaded.pc # "answered"
      /\ Loaded \in Answer /\ loading.key \in Key \cup {None}
  BY <1>1 DEF Answer, Asked, Loaded, TypeOK
<1>3. TypeOK'
  BY <1>1, <1>2 DEF TypeOK, Running
<1>4. KeyIsDurable' /\ LifeInv'
  BY <1>1 DEF KeyIsDurable, SettlesOn, LifeInv
<1>5. GetInv'
  BY <1>1, <1>2 DEF GetInv
<1>6. MemoryInv'
  BY <1>1, <1>2 DEF MemoryInv
<1>7. QED
  BY <1>3, <1>4, <1>5, <1>6

LEMMA StopInv == IndInv /\ Stop => IndInv'
<1> SUFFICES ASSUME IndInv, Stop PROVE IndInv'
  OBVIOUS
<1> USE DEF IndInv
<1>1. /\ wasm' = "stopped" /\ privateKey' = None /\ loading' = Loaded
      /\ storage' = storage /\ ops' = ops /\ starts' = starts
      /\ latest' = latest /\ raced' = raced /\ ~Undisturbed'
  BY DEF Stop, Undisturbed, Running
<1>2. TypeOK'
  BY <1>1 DEF TypeOK, Answer, Loaded
<1>3. KeyIsDurable' /\ LifeInv' /\ GetInv' /\ MemoryInv'
  BY <1>1 DEF KeyIsDurable, SettlesOn, LifeInv, GetInv, MemoryInv
<1>4. QED
  BY <1>2, <1>3

LEMMA UseKeyInv ==
  ASSUME IndInv, NEW k \in Key, UseKey(k)
  PROVE  IndInv'
<1> USE DEF IndInv
<1>1. /\ Running /\ Len(ops) < MaxOps /\ ops' = Append(ops, Set(k))
      /\ privateKey' = k /\ latest' = k /\ raced' = (raced \/ loading # Loaded)
      /\ wasm' = wasm /\ loading' = loading /\ storage' = storage
      /\ starts' = starts
      /\ (Undisturbed' <=> Undisturbed /\ loading = Loaded)
  BY DEF UseKey, Undisturbed, Running
<1>2. /\ ops' \in Seq(Operation) /\ Len(ops') = Len(ops) + 1
      /\ \A i \in 1 .. Len(ops) : ops'[i] = ops[i]
      /\ ops'[Len(ops) + 1] = Set(k)
      /\ Len(ops) \in Nat
      /\ DOMAIN ops = 1 .. Len(ops) /\ DOMAIN ops' = 1 .. Len(ops) + 1
  BY <1>1, SetIs DEF TypeOK
<1>3. TypeOK'
  BY KHAssumption, <1>1, <1>2 DEF TypeOK, Running
<1>4. KeyIsDurable'
  BY <1>1, SetSettles DEF KeyIsDurable
<1>5. LifeInv'
  BY <1>1, <1>2, SetIs DEF LifeInv
<1>6. ASSUME Undisturbed', NEW i \in DOMAIN ops', ops'[i] = Get(starts)
      PROVE  FALSE
  <2>1. starts \in 1 .. MaxStarts \/ starts = 0
    BY DEF TypeOK
  <2>2. ops'[i].op = "get"
    BY <1>6 DEF Get
  <2>3. i # Len(ops) + 1
    BY <1>2, <2>2 DEF Set
  <2>4. loading = Loaded /\ Undisturbed /\ i \in DOMAIN ops /\ ops[i] = Get(starts)
    BY <1>1, <1>2, <1>6, <2>3
  <2>5. Loaded # Asked
    BY DEF Asked, Loaded
  <2>6. QED
    BY <2>4, <2>5 DEF GetInv
<1>7. GetInv'
  BY <1>1, <1>6 DEF GetInv
<1>8. MemoryInv'
  BY <1>1 DEF MemoryInv, Loaded
<1>9. QED
  BY <1>3, <1>4, <1>5, <1>7, <1>8

LEMMA NextInv == IndInv /\ [Next]_vars => IndInv'
<1> SUFFICES ASSUME IndInv, [Next]_vars PROVE IndInv'
  OBVIOUS
<1>1. CASE Start
  BY <1>1, StartInv
<1>2. CASE WasmInit
  BY <1>2, WasmInitInv
<1>3. CASE StorageStep
  BY <1>3, StorageStepInv
<1>4. CASE KeyLoaded
  BY <1>4, KeyLoadedInv
<1>5. CASE Stop
  BY <1>5, StopInv
<1>6. CASE SetKey
  BY <1>6, UseKeyInv DEF SetKey
<1>7. CASE ImportKey
  BY <1>7, UseKeyInv DEF ImportKey
<1>8. CASE UNCHANGED vars
  BY <1>8 DEF vars, IndInv, TypeOK, KeyIsDurable, SettlesOn, LifeInv, GetInv,
              MemoryInv, Undisturbed, Running
<1>9. QED
  BY <1>1, <1>2, <1>3, <1>4, <1>5, <1>6, <1>7, <1>8 DEF Next

-----------------------------------------------------------------------------
(***************************************************************************)
(* The theorems.                                                           *)
(***************************************************************************)

\* The worker, chrome.storage and the history stay in the invariant.
THEOREM WorkerInvariance == Spec => []IndInv
  BY InitInv, NextInv, PTL DEF Spec

\* The worker's state keeps its type.
THEOREM WorkerTypeOK == Spec => []TypeOK
<1>1. IndInv => TypeOK
  BY DEF IndInv
<1>2. QED
  BY WorkerInvariance, <1>1, PTL

\* However often the worker stops, storage settles on the last key that the
\* user was told is set.
THEOREM KeyIsDurableHolds == Spec => []KeyIsDurable
<1>1. IndInv => KeyIsDurable
  BY DEF IndInv
<1>2. QED
  BY WorkerInvariance, <1>1, PTL

\* A worker that has heard from storage signs with the last key set, unless a
\* key was set while it was waiting.
THEOREM LoadedKeyIsLatestHolds == Spec => []LoadedKeyIsLatest
<1>1. IndInv => LoadedKeyIsLatest
  BY DEF IndInv, MemoryInv, Undisturbed, LoadedKeyIsLatest
<1>2. QED
  BY WorkerInvariance, <1>1, PTL

-----------------------------------------------------------------------------
(***************************************************************************)
(* A page and the worker: the inductive invariant.                         *)
(***************************************************************************)

\* What a message is, and its key.
Kind(m) == m[1]
KeyOf(m) == m[2]

\* None of the answers under way shows an identity.
Silent == \A i \in DOMAIN back : KeyOf(back[i]) = None

Derives(i) == Kind(sent[i]) = "DERIVE_KEY"

\* A closed page sends and gets nothing.
Gone == page.kind = "closed" => sent = <<>> /\ back = <<>>

\* Until the module is ready a page only asks for the status, once at a time.
Waits ==
  ~page.wasmReady =>
    /\ load = NoLoad
    /\ page.identity = None
    /\ \A i \in DOMAIN sent : Kind(sent[i]) = "GET_STATUS"
    /\ \A i \in DOMAIN back : Kind(back[i]) = "status"
    /\ Len(sent) + Len(back) <= 1

\* After that it does not.
Polled ==
  page.wasmReady =>
    /\ ~page.polling
    /\ \A i \in DOMAIN sent : Kind(sent[i]) # "GET_STATUS"
    /\ \A i \in DOMAIN back : Kind(back[i]) # "status"

\* The worker could not derive the identity; the page does not know yet.
Failed == \E i \in DOMAIN back : Kind(back[i]) = "derived" /\ KeyOf(back[i]) = None

\* The page shows something, and heard of all that changed the key.
Fresh == page.wasmReady /\ ~troubled /\ ~Failed

\* Once it has taken the answers under way the page shows the last key set.
Ends ==
  \/ page.identity = latest /\ Silent
  \/ \E i \in DOMAIN back :
       /\ KeyOf(back[i]) = latest /\ latest # None
       /\ \A j \in DOMAIN back : j > i => KeyOf(back[j]) = None

\* The stages of such a page: it gets the last key set from storage while it
\* shows none; it has the identity of that key derived; and it ends with it.
Loads ==
  Fresh /\ load # NoLoad =>
    /\ load = <<latest>> /\ page.identity = None /\ Silent
    /\ \A i \in DOMAIN sent : ~Derives(i)
Asks ==
  Fresh =>
    \A i \in DOMAIN sent : Derives(i) =>
      /\ KeyOf(sent[i]) = latest /\ page.identity = None /\ load = NoLoad /\ Silent
      /\ \A j \in DOMAIN sent : Derives(j) => j = i
Shows == Fresh /\ ~LoadsIdentity => Ends

Stages == Gone /\ Waits /\ Polled /\ Loads /\ Asks /\ Shows

PagesInv == IndInv /\ PagesTypeOK /\ Stages

-----------------------------------------------------------------------------
(***************************************************************************)
(* Messages and queues of them.                                            *)
(***************************************************************************)

Ask(what, k) == <<what, k>>

LEMMA RequestIs ==
  /\ <<"GET_STATUS">> \in Request /\ Kind(<<"GET_STATUS">>) = "GET_STATUS"
  /\ \A k \in Key : /\ Ask("IMPORT_KEY", k) \in Request
                    /\ Kind(Ask("IMPORT_KEY", k)) = "IMPORT_KEY"
                    /\ Ask("DERIVE_KEY", k) \in Request
                    /\ Kind(Ask("DERIVE_KEY", k)) = "DERIVE_KEY"
                    /\ KeyOf(Ask("DERIVE_KEY", k)) = k
  /\ \A m \in Request : Kind(m) # "GET_STATUS" => KeyOf(m) \in Key
  BY DEF Request, Kind, KeyOf, Ask

LEMMA ReplyIs ==
  /\ \A w \in {"loading", "ready", "error"}, b \in BOOLEAN :
       <<"status", w, b>> \in Reply /\ Kind(<<"status", w, b>>) = "status"
  /\ \A k \in MaybeKey : /\ Ask("derived", k) \in Reply
                         /\ Kind(Ask("derived", k)) = "derived"
                         /\ KeyOf(Ask("derived", k)) = k
                         /\ Ask("imported", k) \in Reply
                         /\ Kind(Ask("imported", k)) = "imported"
                         /\ KeyOf(Ask("imported", k)) = k
  /\ \A m \in Reply :
       /\ Kind(m) \in {"status", "derived", "imported"}
       /\ Kind(m) # "status" => KeyOf(m) \in MaybeKey
       /\ Kind(m) = "status" => m[3] \in BOOLEAN
  BY DEF Reply, Kind, KeyOf, Ask

\* t is s with x after it.
Longer(t, s, x) ==
  /\ Len(s) \in Nat /\ Len(t) = Len(s) + 1
  /\ DOMAIN s = 1 .. Len(s) /\ DOMAIN t = 1 .. Len(s) + 1
  /\ \A i \in DOMAIN s : t[i] = s[i]
  /\ t[Len(s) + 1] = x

LEMMA AppendIs ==
  ASSUME NEW S, NEW s, NEW x, s \in Seq(S), x \in S
  PROVE  Append(s, x) \in Seq(S) /\ Longer(Append(s, x), s, x)
  BY DEF Longer

\* t is s without its head.
Shorter(t, s) ==
  /\ Len(s) \in Nat \ {0} /\ Len(t) = Len(s) - 1
  /\ DOMAIN s = 1 .. Len(s) /\ DOMAIN t = 1 .. Len(s) - 1
  /\ \A i \in DOMAIN t : i + 1 \in DOMAIN s /\ t[i] = s[i + 1]

LEMMA TailIs ==
  ASSUME NEW S, NEW s, s \in Seq(S), s # <<>>
  PROVE  /\ Tail(s) \in Seq(S) /\ Shorter(Tail(s), s)
         /\ Head(s) = s[1] /\ s[1] \in S /\ 1 \in DOMAIN s
<1>1. Len(s) \in Nat \ {0} /\ DOMAIN s = 1 .. Len(s)
  BY EmptySeq
<1>2. /\ Tail(s) \in Seq(S) /\ Len(Tail(s)) = Len(s) - 1
      /\ \A i \in 1 .. Len(Tail(s)) : Tail(s)[i] = s[i + 1]
      /\ Head(s) = s[1] /\ s[1] \in S
  BY HeadTailProperties, <1>1
<1>3. DOMAIN Tail(s) = 1 .. Len(s) - 1
  BY <1>2
<1>4. QED
  BY <1>1, <1>2, <1>3 DEF Shorter

\* What is asked of storage now is answered with the last key set.
LEMMA SettledIsLatest ==
  ASSUME TypeOK, KeyIsDurable
  PROVE  Settled = latest
<1>1. ASSUME NEW k \in MaybeKey, SettlesOn(k) PROVE k = latest
  <2>1. SettlesOn(latest)
    BY DEF KeyIsDurable
  <2>2. \A i \in DOMAIN ops : i \in Nat
    BY DEF TypeOK
  <2>3. \A key, i : i \in DOMAIN ops /\ ops[i] = Set(key) =>
                      ops[i].op # "get" /\ ops[i].key = key
    BY DEF Set
  <2>4. CASE k = storage /\ \A i \in DOMAIN ops : ops[i].op = "get"
    BY <2>1, <2>3, <2>4 DEF SettlesOn
  <2>5. ASSUME NEW i \in DOMAIN ops, ops[i] = Set(k),
               \A j \in DOMAIN ops : j > i => ops[j].op = "get"
        PROVE  k = latest
    <3>1. PICK l \in DOMAIN ops : /\ ops[l] = Set(latest)
                                  /\ \A j \in DOMAIN ops : j > l => ops[j].op = "get"
      BY <2>1, <2>3, <2>5 DEF SettlesOn
    <3>2. ~(i > l) /\ ~(l > i)
      BY <2>3, <2>5, <3>1
    <3>3. i = l
      BY <2>2, <3>2
    <3>4. ops[i].key = k /\ ops[l].key = latest
      BY <2>5, <3>1 DEF Set
    <3>5. QED
      BY <3>3, <3>4
  <2>6. QED
    BY <1>1, <2>4, <2>5 DEF SettlesOn
<1>2. latest \in MaybeKey /\ SettlesOn(latest)
  BY DEF TypeOK, MaybeKey, KeyIsDurable
<1>3. QED
  BY <1>1, <1>2 DEF Settled

-----------------------------------------------------------------------------
(***************************************************************************)
(* Every step of the page, its messages and the worker keeps it.           *)
(***************************************************************************)

\* A step of the whole is a step of the worker, or leaves it alone.
LEMMA StepIsWorkers ==
  ASSUME PagesTypeOK, [PagesNext]_pagesVars
  PROVE  [Next]_vars
<1>1. CASE AnswerSetKey
  <2>1. CASE wasm = "ready"
    <3>1. Arrives("IMPORT_KEY") /\ UseKey(Head(sent)[2])
      BY <1>1, <2>1 DEF AnswerSetKey
    <3>2. Head(sent) \in Request /\ Kind(Head(sent)) = "IMPORT_KEY"
      BY <3>1, TailIs DEF Arrives, PagesTypeOK, Kind
    <3>3. Head(sent)[2] \in Key
      BY <3>2, RequestIs DEF KeyOf
    <3>4. QED
      BY <3>1, <3>3 DEF SetKey, Next
  <2>2. CASE wasm # "ready"
    BY <1>1, <2>2 DEF AnswerSetKey
  <2>3. QED
    BY <2>1, <2>2
<1>2. CASE SetElsewhere
  BY <1>2 DEF SetElsewhere, Next
<1>3. CASE StartWorker \/ StopWorker \/ WorkerStep
  BY <1>3 DEF StartWorker, StopWorker, WorkerStep, Next
<1>4. CASE Open \/ Close \/ SetKeyClicked \/ PageStep
  BY <1>4 DEF Open, Close, SetKeyClicked, PageStep, Poll, StatusShown, KeyRead,
              IdentityShown
<1>5. CASE AnswerStatus \/ DeriveKey
  BY <1>5 DEF AnswerStatus, DeriveKey
<1>6. CASE UNCHANGED pagesVars
  BY <1>6 DEF pagesVars
<1>7. QED
  BY <1>1, <1>2, <1>3, <1>4, <1>5, <1>6 DEF PagesNext, MessageStep

LEMMA StepWorkerInv ==
  ASSUME PagesInv, [PagesNext]_pagesVars
  PROVE  IndInv' /\ TypeOK' /\ latest' \in MaybeKey
<1>1. [Next]_vars
  BY StepIsWorkers DEF PagesInv
<1>2. IndInv'
  BY <1>1, NextInv DEF PagesInv
<1>3. QED
  BY <1>2 DEF IndInv, TypeOK, MaybeKey

LEMMA ClosedIs ==
  /\ Closed \in [kind : {"closed", "popup", "options"}, polling : BOOLEAN,
                 wasmReady : BOOLEAN, hasKey : BOOLEAN, identity : MaybeKey]
  /\ ~Closed.wasmReady /\ ~Closed.polling /\ Closed.identity = None
  BY DEF Closed, MaybeKey

LEMMA PagesInitInv == PagesInit => PagesInv
<1> SUFFICES ASSUME PagesInit PROVE PagesInv
  OBVIOUS
<1>1. IndInv
  BY InitInv DEF PagesInit
<1>2. PagesTypeOK
  <2>1. Len(sent) = 0 /\ Len(back) = 0 /\ sent \in Seq(Request) /\ back \in Seq(Reply)
    BY EmptySeq DEF PagesInit
  <2>2. troubled \in BOOLEAN /\ page = Closed /\ load = NoLoad
    BY DEF PagesInit
  <2>3. QED
    BY <1>1, <2>1, <2>2, ClosedIs, PagesAssumption DEF PagesTypeOK, IndInv
<1>3. Stages
  BY ClosedIs, EmptySeq
     DEF PagesInit, Stages, Gone, Waits, Polled, Loads, Asks, Shows, Fresh
<1>4. QED
  BY <1>1, <1>2, <1>3 DEF PagesInv

\* The worker goes on by itself.
LEMMA QuietInv ==
  ASSUME PagesTypeOK, Stages, TypeOK', UNCHANGED pageVars, latest' = latest
  PROVE  PagesTypeOK' /\ Stages'
<1>1. PagesTypeOK'
  BY DEF pageVars, PagesTypeOK
<1>2. Gone' /\ Waits' /\ Polled'
  BY DEF pageVars, Stages, Gone, Waits, Polled
<1>3. Loads' /\ Asks' /\ Shows'
  BY DEF pageVars, Stages, Loads, Asks, Shows, Fresh, Failed, Silent, Derives,
         Ends, LoadsIdentity
<1>4. QED
  BY <1>1, <1>2, <1>3 DEF Stages

LEMMA OpenInv ==
  ASSUME PagesTypeOK, Stages, TypeOK', Open
  PROVE  PagesTypeOK' /\ Stages'
<1>1. PICK kind \in {"popup", "options"} :
        page' = [Closed EXCEPT !.kind = kind, !.polling = TRUE]
  BY DEF Open
<1>2. /\ page' \in [kind : {"closed", "popup", "options"}, polling : BOOLEAN,
                    wasmReady : BOOLEAN, hasKey : BOOLEAN, identity : MaybeKey]
      /\ page'.kind # "closed" /\ ~page'.wasmReady /\ page'.identity = None
  BY <1>1, ClosedIs
<1>3. /\ page.kind = "closed" /\ page = Closed
      /\ UNCHANGED <<load, sent, back, troubled>>
  BY DEF Open, PagesTypeOK
<1>4. PagesTypeOK'
  BY <1>2, <1>3 DEF PagesTypeOK
<1>5. Waits'
  BY <1>2, <1>3, ClosedIs DEF Stages, Waits
<1>6. Gone' /\ Polled' /\ Loads' /\ Asks' /\ Shows'
  BY <1>2 DEF Gone, Polled, Loads, Asks, Shows, Fresh
<1>7. QED
  BY <1>4, <1>5, <1>6 DEF Stages

LEMMA CloseInv ==
  ASSUME TypeOK', Close
  PROVE  PagesTypeOK' /\ Stages'
<1>1. /\ page' = Closed /\ load' = NoLoad /\ sent' = <<>> /\ back' = <<>>
      /\ troubled' = FALSE /\ troubled' \in BOOLEAN
  BY DEF Close
<1>2. /\ Len(sent') = 0 /\ Len(back') = 0 /\ DOMAIN sent' = {} /\ DOMAIN back' = {}
      /\ sent' \in Seq(Request) /\ back' \in Seq(Reply)
  BY <1>1, EmptySeq
<1>3. PagesTypeOK'
  BY <1>1, <1>2, ClosedIs, PagesAssumption DEF PagesTypeOK
<1>4. Stages'
  BY <1>1, <1>2, ClosedIs DEF Stages, Gone, Waits, Polled, Loads, Asks, Shows, Fresh
<1>5. QED
  BY <1>3, <1>4

\* Another page sets a key: this one is troubled.
LEMMA SetElsewhereInv ==
  ASSUME PagesTypeOK, Stages, TypeOK', SetElsewhere
  PROVE  PagesTypeOK' /\ Stages'
<1>1. /\ UNCHANGED <<page, load, sent, back>>
      /\ troubled' = (page.kind # "closed") /\ troubled' \in BOOLEAN
  BY DEF SetElsewhere
<1>2. PagesTypeOK'
  BY <1>1 DEF PagesTypeOK
<1>3. Gone' /\ Waits' /\ Polled'
  BY <1>1 DEF Stages, Gone, Waits, Polled
<1>4. ~Fresh'
  BY <1>1, ClosedIs DEF PagesTypeOK, Fresh
<1>5. QED
  BY <1>2, <1>3, <1>4 DEF Stages, Loads, Asks, Shows

\* A request that is not a DERIVE_KEY changes no stage.
LEMMA SetKeyClickedInv ==
  ASSUME PagesTypeOK, Stages, TypeOK', latest' = latest, SetKeyClicked
  PROVE  PagesTypeOK' /\ Stages'
<1>1. PICK k \in Key : sent' = Append(sent, Ask("IMPORT_KEY", k))
  BY DEF SetKeyClicked, Ask
<1>2. /\ page.wasmReady /\ HasRoom
      /\ UNCHANGED <<page, load, back, troubled>>
  BY DEF SetKeyClicked
<1>3. sent' \in Seq(Request) /\ Longer(sent', sent, Ask("IMPORT_KEY", k))
  BY <1>1, AppendIs, RequestIs DEF PagesTypeOK
<1>4. PagesTypeOK'
  BY <1>2, <1>3, PagesAssumption DEF PagesTypeOK, Longer, HasRoom
<1>5. Gone' /\ Waits'
  BY <1>2, ClosedIs DEF PagesTypeOK, Gone, Waits
<1>6. Polled'
  BY <1>2, <1>3, RequestIs DEF Stages, Polled, Longer
<1>7. /\ (Fresh' <=> Fresh) /\ (Silent' <=> Silent) /\ (Ends' <=> Ends)
      /\ \A i \in DOMAIN sent' : Kind(sent'[i]) = "DERIVE_KEY" =>
           i \in DOMAIN sent /\ sent'[i] = sent[i]
      /\ \A i \in DOMAIN sent : i \in DOMAIN sent' /\ sent'[i] = sent[i]
  BY <1>2, <1>3, RequestIs DEF Fresh, Failed, Silent, Ends, Longer
<1>8. Loads' /\ Asks'
  BY <1>2, <1>7 DEF Stages, Loads, Asks, Derives
<1>9. Shows'
  BY <1>2, <1>7, Zenon DEF Stages, Shows, LoadsIdentity, Kind
<1>10. QED
  BY <1>4, <1>5, <1>6, <1>8, <1>9 DEF Stages

LEMMA PollInv ==
  ASSUME PagesTypeOK, Stages, TypeOK', Poll
  PROVE  PagesTypeOK' /\ Stages'
<1>1. /\ page.polling /\ sent = <<>> /\ back = <<>>
      /\ sent' = <<<<"GET_STATUS">>>>
      /\ UNCHANGED <<page, load, back, troubled>>
  BY DEF Poll
<1>2. ~page.wasmReady
  BY <1>1 DEF Stages, Polled
<1>3. /\ sent' \in Seq(Request) /\ Len(sent') = 1 /\ DOMAIN sent' = {1}
      /\ sent'[1] = <<"GET_STATUS">> /\ Len(back) = 0
  BY <1>1, RequestIs
<1>4. PagesTypeOK'
  BY <1>1, <1>3, PagesAssumption DEF PagesTypeOK
<1>5. Waits'
  BY <1>1, <1>2, <1>3, RequestIs DEF Stages, Waits
<1>6. Gone' /\ Polled' /\ ~Fresh'
  BY <1>1, <1>2, ClosedIs DEF PagesTypeOK, Gone, Polled, Fresh
<1>7. QED
  BY <1>4, <1>5, <1>6 DEF Stages, Loads, Asks, Shows

\* The module is ready: the page asks storage for the last key set.
LEMMA StatusShownInv ==
  ASSUME PagesTypeOK, Stages, TypeOK, KeyIsDurable, TypeOK', latest' = latest,
         StatusShown
  PROVE  PagesTypeOK' /\ Stages'
<1>1. /\ back # <<>> /\ Head(back)[1] \in {"status"} /\ back' = Tail(back)
      /\ UNCHANGED <<sent, troubled>>
      /\ page' = [page EXCEPT !.polling = (Head(back)[2] = "loading"),
                              !.wasmReady = (Head(back)[2] = "ready"),
                              !.hasKey = Head(back)[3]]
      /\ load' = IF Head(back)[2] = "ready" THEN <<Settled>> ELSE load
  BY DEF StatusShown, Comes
<1>2. /\ back' \in Seq(Reply) /\ Shorter(back', back)
      /\ Head(back) = back[1] /\ back[1] \in Reply /\ 1 \in DOMAIN back
  BY <1>1, TailIs DEF PagesTypeOK
<1>3. Kind(back[1]) = "status" /\ Head(back)[3] \in BOOLEAN
  BY <1>1, <1>2, ReplyIs DEF Kind
<1>4. /\ ~page.wasmReady /\ load = NoLoad /\ page.identity = None
      /\ Len(sent) + Len(back) <= 1
  BY <1>2, <1>3 DEF Stages, Polled, Waits
<1>5. /\ Len(sent) = 0 /\ Len(back') = 0 /\ DOMAIN sent' = {} /\ DOMAIN back' = {}
      /\ sent' = sent
  BY <1>1, <1>2, <1>4 DEF PagesTypeOK, Shorter
<1>6. /\ page' \in [kind : {"closed", "popup", "options"}, polling : BOOLEAN,
                    wasmReady : BOOLEAN, hasKey : BOOLEAN, identity : MaybeKey]
      /\ page'.kind = page.kind /\ page'.identity = None
      /\ page'.wasmReady <=> Head(back)[2] = "ready"
      /\ page'.polling <=> Head(back)[2] = "loading"
  BY <1>1, <1>3, <1>4 DEF PagesTypeOK
<1>7. Settled = latest /\ latest \in MaybeKey
  BY SettledIsLatest DEF TypeOK, MaybeKey
<1>8. load' = IF page'.wasmReady THEN <<latest>> ELSE NoLoad
  BY <1>1, <1>4, <1>6, <1>7
<1>9. PagesTypeOK'
  <2>1. page.kind # "closed"
    BY <1>1 DEF Stages, Gone
  <2>2. QED
    BY <1>1, <1>2, <1>5, <1>6, <1>7, <1>8, <2>1, PagesAssumption DEF PagesTypeOK
<1>10. Gone' /\ Waits'
  <2>1. Gone'
    BY <1>1, <1>6 DEF Stages, Gone
  <2>2. Waits'
    BY <1>5, <1>6, <1>8 DEF Waits
  <2>3. QED
    BY <2>1, <2>2
<1>11. Polled'
  BY <1>5, <1>6 DEF Polled
<1>12. Loads' /\ Asks' /\ Shows'
  BY <1>5, <1>6, <1>8 DEF Loads, Asks, Shows, Fresh, Silent, LoadsIdentity, NoLoad
<1>13. QED
  BY <1>9, <1>10, <1>11, <1>12 DEF Stages

\* Storage has answered: the identity of the last key set is asked for, or
\* there is none and the page shows none.
LEMMA KeyReadInv ==
  ASSUME PagesTypeOK, Stages, TypeOK', latest' = latest, KeyRead
  PROVE  PagesTypeOK' /\ Stages'
<1>1. /\ load # NoLoad /\ load' = NoLoad /\ HasRoom
      /\ UNCHANGED <<page, back, troubled>>
  BY DEF KeyRead
<1>2. page.wasmReady /\ page.kind # "closed"
  BY <1>1, ClosedIs DEF Stages, Waits, PagesTypeOK
<1>3. PICK k \in MaybeKey : load = <<k>>
  BY <1>1 DEF PagesTypeOK
<1>4. sent' = IF k = None THEN sent ELSE Append(sent, Ask("DERIVE_KEY", k))
  BY <1>3 DEF KeyRead, Ask
<1>5. Fresh' => /\ k = latest /\ page.identity = None /\ Silent
                /\ \A i \in DOMAIN sent : ~Derives(i)
  BY <1>1, <1>3 DEF Stages, Loads, Fresh, Failed
<1>6. (Silent' <=> Silent) /\ Gone' /\ Waits' /\ Loads'
  BY <1>1, <1>2 DEF Silent, Gone, Waits, Loads
<1>7. CASE k = None
  <2>1. sent' = sent
    BY <1>4, <1>7
  <2>2. PagesTypeOK'
    BY <1>1, <2>1 DEF PagesTypeOK
  <2>3. Polled'
    BY <1>1, <2>1 DEF Stages, Polled
  <2>4. Asks'
    BY <1>5, <2>1 DEF Asks, Derives
  <2>5. Fresh' => Ends'
    BY <1>1, <1>5, <1>6, <1>7 DEF Ends
  <2>6. QED
    BY <1>6, <2>2, <2>3, <2>4, <2>5 DEF Stages, Shows
<1>8. CASE k # None
  <2>1. k \in Key /\ sent' = Append(sent, Ask("DERIVE_KEY", k))
    BY <1>4, <1>8 DEF MaybeKey
  <2>2. sent' \in Seq(Request) /\ Longer(sent', sent, Ask("DERIVE_KEY", k))
    BY <2>1, AppendIs, RequestIs DEF PagesTypeOK
  <2>3. PagesTypeOK'
    BY <1>1, <2>2, PagesAssumption DEF PagesTypeOK, Longer, HasRoom
  <2>4. Polled'
    BY <1>1, <1>2, <2>1, <2>2, RequestIs DEF Stages, Polled, Longer
  <2>5. \E i \in DOMAIN sent' : Kind(sent'[i]) = "DERIVE_KEY"
    BY <2>1, <2>2, RequestIs DEF Longer
  <2>6. Fresh' => \A i \in DOMAIN sent' : Derives(i)' => i = Len(sent) + 1
    BY <1>5, <2>2 DEF Longer, Derives
  <2>7. KeyOf(sent'[Len(sent) + 1]) = k
    BY <2>1, <2>2, RequestIs DEF Longer
  <2>8. Asks'
    BY <1>1, <1>5, <1>6, <2>6, <2>7 DEF Asks, Derives
  <2>9. LoadsIdentity'
    BY <2>5 DEF LoadsIdentity, Kind
  <2>10. QED
    BY <1>6, <2>3, <2>4, <2>8, <2>9 DEF Stages, Shows
<1>9. QED
  BY <1>7, <1>8

\* An answer is shown.
LEMMA IdentityShownInv ==
  ASSUME PagesTypeOK, Stages, TypeOK', latest' = latest, IdentityShown
  PROVE  PagesTypeOK' /\ Stages'
<1> DEFINE k == KeyOf(back[1])
           imported == Kind(back[1]) = "imported"
<1>1. /\ back # <<>> /\ Head(back)[1] \in {"derived", "imported"}
      /\ back' = Tail(back) /\ UNCHANGED <<load, sent>>
  BY DEF IdentityShown, Comes
<1>2. /\ back' \in Seq(Reply) /\ Shorter(back', back)
      /\ Head(back) = back[1] /\ back[1] \in Reply /\ 1 \in DOMAIN back
  BY <1>1, TailIs DEF PagesTypeOK
<1>3. /\ page' = [page EXCEPT !.identity = IF k = None THEN @ ELSE k,
                              !.hasKey = @ \/ (imported /\ k # None)]
      /\ troubled' = (troubled \/ (~imported /\ k = None))
  BY <1>2 DEF IdentityShown, Kind, KeyOf
<1>4. k \in MaybeKey /\ Kind(back[1]) \in {"derived", "imported"}
  BY <1>1, <1>2, ReplyIs DEF Kind
<1>5. page.kind # "closed" /\ page.wasmReady
  BY <1>1, <1>2, <1>4 DEF Stages, Gone, Waits
<1>6. /\ page' \in [kind : {"closed", "popup", "options"}, polling : BOOLEAN,
                    wasmReady : BOOLEAN, hasKey : BOOLEAN, identity : MaybeKey]
      /\ page'.kind = page.kind /\ page'.wasmReady = page.wasmReady
      /\ page'.polling = page.polling
      /\ page'.identity = IF k = None THEN page.identity ELSE k
  BY <1>3, <1>4 DEF PagesTypeOK
<1>7. troubled' \in BOOLEAN
  BY <1>3
<1>8. PagesTypeOK'
  BY <1>1, <1>2, <1>5, <1>6, <1>7, PagesAssumption DEF PagesTypeOK, Shorter
<1>9. Gone' /\ Waits'
  BY <1>5, <1>6 DEF Gone, Waits
<1>10. Polled'
  BY <1>1, <1>2, <1>5, <1>6 DEF Stages, Polled, Shorter
<1>11. Fresh' => Fresh
  <2>1. ASSUME ~troubled', Failed PROVE Failed'
    <3>1. PICK i \in DOMAIN back : Kind(back[i]) = "derived" /\ KeyOf(back[i]) = None
      BY <2>1 DEF Failed
    <3>2. i # 1
      BY <1>3, <2>1, <3>1
    <3>3. i - 1 \in DOMAIN back' /\ back'[i - 1] = back[i]
      BY <1>2, <3>1, <3>2 DEF Shorter
    <3>4. QED
      BY <3>1, <3>3 DEF Failed
  <2>2. QED
    BY <1>3, <1>5, <2>1 DEF Fresh
<1>12. Silent => k = None /\ Silent' /\ page'.identity = page.identity
  BY <1>2, <1>6 DEF Silent, Shorter
<1>13. Loads'
  BY <1>1, <1>11, <1>12 DEF Stages, Loads, Derives
<1>14. Asks'
  BY <1>1, <1>11, <1>12 DEF Stages, Asks, Derives
<1>15. Ends => Ends'
  <2>1. CASE page.identity = latest /\ Silent
    BY <1>12, <2>1 DEF Ends
  <2>2. ASSUME NEW i \in DOMAIN back, KeyOf(back[i]) = latest, latest # None,
               \A j \in DOMAIN back : j > i => KeyOf(back[j]) = None
        PROVE  Ends'
    <3>1. CASE i = 1
      <4>1. page'.identity = latest
        BY <1>6, <2>2, <3>1
      <4>2. Silent'
        BY <1>2, <2>2, <3>1 DEF Silent, Shorter
      <4>3. QED
        BY <4>1, <4>2 DEF Ends
    <3>2. CASE i # 1
      <4>1. i - 1 \in DOMAIN back' /\ KeyOf(back'[i - 1]) = latest
        BY <1>2, <2>2, <3>2 DEF Shorter
      <4>2. \A j \in DOMAIN back' : j > i - 1 => KeyOf(back'[j]) = None
        BY <1>2, <2>2 DEF Shorter
      <4>3. QED
        BY <2>2, <4>1, <4>2 DEF Ends
    <3>3. QED
      BY <3>1, <3>2
  <2>3. QED
    BY <2>1, <2>2 DEF Ends
<1>16. Shows'
  BY <1>1, <1>11, <1>15 DEF Stages, Shows, LoadsIdentity
<1>17. QED
  BY <1>8, <1>9, <1>10, <1>13, <1>14, <1>16 DEF Stages

\* The worker takes a message and answers it.
LEMMA AnswersIs ==
  ASSUME PagesTypeOK, Stages, NEW what, NEW reply, Arrives(what), Answers(reply),
         reply \in Reply
  PROVE  /\ sent' \in Seq(Request) /\ Shorter(sent', sent)
         /\ back' \in Seq(Reply) /\ Longer(back', back, reply)
         /\ Len(sent') + Len(back') <= MaxMail
         /\ page.kind # "closed" /\ 1 \in DOMAIN sent /\ sent[1] \in Request
         /\ Head(sent) = sent[1] /\ Kind(sent[1]) = what
<1>1. sent # <<>> /\ Head(sent)[1] = what /\ sent' = Tail(sent)
      /\ back' = Append(back, reply)
  BY DEF Arrives, Answers
<1>2. /\ sent' \in Seq(Request) /\ Shorter(sent', sent)
      /\ 1 \in DOMAIN sent /\ sent[1] \in Request /\ Head(sent) = sent[1]
  BY <1>1, TailIs DEF PagesTypeOK
<1>3. back' \in Seq(Reply) /\ Longer(back', back, reply)
  BY <1>1, AppendIs DEF PagesTypeOK
<1>4. Len(sent') + Len(back') <= MaxMail
  BY <1>2, <1>3, PagesAssumption DEF PagesTypeOK, Shorter, Longer
<1>5. page.kind # "closed"
  BY <1>1 DEF Stages, Gone
<1>6. QED
  BY <1>1, <1>2, <1>3, <1>4, <1>5 DEF Kind

\* An answer that shows no identity keeps what the page ends with.
LEMMA SilentAnswer ==
  ASSUME NEW reply, Longer(back', back, reply), KeyOf(reply) = None,
         latest' = latest, page' = page
  PROVE  (Silent => Silent') /\ (Ends => Ends')
<1>1. Silent => Silent'
  BY DEF Silent, Longer
<1>2. ASSUME NEW i \in DOMAIN back, KeyOf(back[i]) = latest, latest # None,
             \A j \in DOMAIN back : j > i => KeyOf(back[j]) = None
      PROVE  Ends'
  <2>1. i \in DOMAIN back' /\ KeyOf(back'[i]) = latest
    BY <1>2 DEF Longer
  <2>2. \A j \in DOMAIN back' : j > i => KeyOf(back'[j]) = None
    BY <1>2 DEF Longer
  <2>3. QED
    BY <1>2, <2>1, <2>2 DEF Ends
<1>3. QED
  BY <1>1, <1>2 DEF Ends

\* After an answer with the last key set the page ends with it.
LEMMA LatestAnswer ==
  ASSUME NEW reply, Longer(back', back, reply), KeyOf(reply) = latest', latest' # None
  PROVE  Ends'
<1>1. PICK i : i = Len(back) + 1
  OBVIOUS
<1>2. i \in DOMAIN back' /\ KeyOf(back'[i]) = latest'
  BY <1>1 DEF Longer
<1>3. \A j \in DOMAIN back' : ~(j > i)
  BY <1>1 DEF Longer
<1>4. QED
  BY <1>2, <1>3 DEF Ends

\* A page is not waiting for its status and for an identity.
LEMMA AnswerStatusInv ==
  ASSUME PagesTypeOK, Stages, TypeOK, TypeOK', latest' = latest, AnswerStatus
  PROVE  PagesTypeOK' /\ Stages'
<1> DEFINE reply == <<"status", wasm, privateKey # None>>
<1>1. /\ Arrives("GET_STATUS") /\ Answers(reply)
      /\ UNCHANGED <<page, load, troubled>> /\ wasm # "stopped"
  BY DEF AnswerStatus, Arrives, Running
<1>2. reply \in Reply /\ Kind(reply) = "status"
  BY <1>1, ReplyIs DEF TypeOK
<1> HIDE DEF reply
<1>3. /\ sent' \in Seq(Request) /\ Shorter(sent', sent)
      /\ back' \in Seq(Reply) /\ Longer(back', back, reply)
      /\ Len(sent') + Len(back') <= MaxMail
      /\ page.kind # "closed" /\ 1 \in DOMAIN sent /\ Kind(sent[1]) = "GET_STATUS"
  BY <1>1, <1>2, AnswersIs
<1>4. PagesTypeOK'
  BY <1>1, <1>3 DEF PagesTypeOK
<1>5. ~page.wasmReady
  BY <1>3 DEF Stages, Polled
<1>6. Gone' /\ Polled' /\ ~Fresh'
  BY <1>1, <1>3, <1>5 DEF Gone, Polled, Fresh
<1>7. Waits'
  BY <1>1, <1>2, <1>3, <1>5 DEF Stages, Waits, Longer, Shorter
<1>8. QED
  BY <1>4, <1>6, <1>7 DEF Stages, Loads, Asks, Shows

\* The identity asked for is that of the last key set.
LEMMA DeriveKeyInv ==
  ASSUME PagesTypeOK, Stages, TypeOK', latest' = latest, latest \in MaybeKey,
         DeriveKey
  PROVE  PagesTypeOK' /\ Stages'
<1> DEFINE k == IF wasm = "ready" THEN KeyOf(sent[1]) ELSE None
           reply == Ask("derived", k)
<1>1. /\ Arrives("DERIVE_KEY") /\ sent # <<>>
      /\ Answers(<<"derived", IF wasm = "ready" THEN Head(sent)[2] ELSE None>>)
      /\ UNCHANGED <<page, load, troubled>>
  BY DEF DeriveKey, Arrives
<1>2. /\ Head(sent) = sent[1] /\ sent[1] \in Request /\ Kind(sent[1]) = "DERIVE_KEY"
      /\ 1 \in DOMAIN sent
  BY <1>1, TailIs DEF PagesTypeOK, Arrives, Kind
<1>3. KeyOf(sent[1]) \in Key
  BY <1>2, RequestIs
<1>4. reply \in Reply /\ Kind(reply) = "derived" /\ KeyOf(reply) = k /\ k \in MaybeKey
  BY <1>3, ReplyIs DEF MaybeKey
<1>5. Answers(reply)
  BY <1>1, <1>2 DEF Ask, KeyOf
<1>6. /\ k # None => k = KeyOf(sent[1])
      /\ k = None => wasm # "ready"
  BY <1>3, KHAssumption
<1> HIDE DEF reply, k
<1>7. /\ sent' \in Seq(Request) /\ Shorter(sent', sent)
      /\ back' \in Seq(Reply) /\ Longer(back', back, reply)
      /\ Len(sent') + Len(back') <= MaxMail /\ page.kind # "closed"
  BY <1>1, <1>4, <1>5, AnswersIs
<1>8. PagesTypeOK'
  BY <1>1, <1>7 DEF PagesTypeOK
<1>9. page.wasmReady
  BY <1>2 DEF Stages, Waits
<1>10. Gone' /\ Waits'
  BY <1>1, <1>7, <1>9 DEF Gone, Waits
<1>11. Polled'
  BY <1>1, <1>4, <1>7, <1>9 DEF Stages, Polled, Longer, Shorter
<1>12. Fresh' => Fresh /\ k # None
  <2>1. Failed => Failed'
    BY <1>7 DEF Failed, Longer
  <2>2. k = None => Failed'
    BY <1>4, <1>7 DEF Failed, Longer
  <2>3. QED
    BY <1>1, <2>1, <2>2 DEF Fresh
<1>13. Fresh' => /\ k = latest /\ latest # None /\ load' = NoLoad
                 /\ \A i \in DOMAIN sent : Derives(i) => i = 1
  BY <1>1, <1>2, <1>6, <1>12 DEF Stages, Asks, Derives
<1>14. Fresh' => \A i \in DOMAIN sent' : ~Derives(i)'
  BY <1>7, <1>13 DEF Derives, Shorter
<1>15. Loads' /\ Asks'
  BY <1>13, <1>14 DEF Loads, Asks
<1>16. Shows'
  BY <1>4, <1>7, <1>13, LatestAnswer DEF Shows
<1>17. QED
  BY <1>8, <1>10, <1>11, <1>15, <1>16 DEF Stages

\* A key is set from the page: it ends with that one, or is troubled.
LEMMA AnswerSetKeyInv ==
  ASSUME PagesTypeOK, Stages, TypeOK', AnswerSetKey
  PROVE  PagesTypeOK' /\ Stages'
<1>1. Arrives("IMPORT_KEY") /\ sent # <<>> /\ UNCHANGED <<page, load>>
  BY DEF AnswerSetKey, Arrives
<1>2. /\ Head(sent) = sent[1] /\ sent[1] \in Request /\ Kind(sent[1]) = "IMPORT_KEY"
      /\ 1 \in DOMAIN sent
  BY <1>1, TailIs DEF PagesTypeOK, Arrives, Kind
<1>3. KeyOf(sent[1]) \in Key
  BY <1>2, RequestIs
<1>4. PICK k : k = IF wasm = "ready" THEN KeyOf(sent[1]) ELSE None
  OBVIOUS
<1>5. PICK reply : reply = Ask("imported", k)
  OBVIOUS
<1>6. /\ reply \in Reply /\ Kind(reply) = "imported" /\ KeyOf(reply) = k
      /\ k # None <=> wasm = "ready"
  BY <1>3, <1>4, <1>5, ReplyIs, KHAssumption DEF MaybeKey
<1>7. Answers(reply)
  BY <1>2, <1>4, <1>5 DEF AnswerSetKey, Ask, KeyOf
<1>8. /\ k # None => latest' = k /\ troubled' = LoadsIdentity
      /\ k = None => latest' = latest /\ troubled' = troubled
  BY <1>2, <1>4, <1>6 DEF AnswerSetKey, UseKey, vars, KeyOf
<1>9. /\ sent' \in Seq(Request) /\ Shorter(sent', sent)
      /\ back' \in Seq(Reply) /\ Longer(back', back, reply)
      /\ Len(sent') + Len(back') <= MaxMail /\ page.kind # "closed"
  BY <1>1, <1>6, <1>7, AnswersIs
<1>10. PagesTypeOK'
  <2>1. troubled' \in BOOLEAN
    BY <1>8 DEF LoadsIdentity, PagesTypeOK
  <2>2. QED
    BY <1>1, <1>9, <2>1 DEF PagesTypeOK
<1>11. page.wasmReady
  BY <1>2 DEF Stages, Waits
<1>12. Gone' /\ Waits'
  BY <1>1, <1>9, <1>11 DEF Gone, Waits
<1>13. Polled'
  BY <1>1, <1>6, <1>9, <1>11 DEF Stages, Polled, Longer, Shorter
<1>14. \A i \in DOMAIN sent' : Derives(i)' => i + 1 \in DOMAIN sent /\ Derives(i + 1)
  BY <1>9 DEF Derives, Shorter
<1>15. \A i \in DOMAIN sent : Derives(i) => i - 1 \in DOMAIN sent' /\ Kind(sent'[i - 1]) = "DERIVE_KEY"
  BY <1>2, <1>9 DEF Derives, Shorter
<1>16. CASE k # None
  <2>1. Fresh' => load' = NoLoad /\ \A i \in DOMAIN sent : ~Derives(i)
    BY <1>1, <1>8, <1>16 DEF Fresh, LoadsIdentity, Derives, Kind
  <2>2. Loads' /\ Asks'
    BY <1>14, <2>1 DEF Loads, Asks
  <2>3. Shows'
    BY <1>6, <1>8, <1>9, <1>16, LatestAnswer DEF Shows
  <2>4. QED
    BY <1>10, <1>12, <1>13, <2>2, <2>3 DEF Stages
<1>17. CASE k = None
  <2>1. Fresh' => Fresh
    BY <1>1, <1>8, <1>9, <1>17 DEF Fresh, Failed, Longer
  <2>2. (Silent => Silent') /\ (Ends => Ends')
    BY <1>1, <1>6, <1>8, <1>9, <1>17, SilentAnswer
  <2>3. Loads'
    BY <1>1, <1>8, <1>14, <1>17, <2>1, <2>2 DEF Stages, Loads
  <2>4. Asks'
    <3> SUFFICES ASSUME Fresh', NEW i \in DOMAIN sent', Derives(i)'
                 PROVE  /\ KeyOf(sent'[i]) = latest' /\ page'.identity = None
                        /\ load' = NoLoad /\ Silent'
                        /\ \A j \in DOMAIN sent' : Derives(j)' => j = i
      BY DEF Asks
    <3>1. i + 1 \in DOMAIN sent /\ Derives(i + 1) /\ sent'[i] = sent[i + 1]
      BY <1>9, <1>14 DEF Shorter
    <3>2. /\ KeyOf(sent[i + 1]) = latest /\ page.identity = None /\ load = NoLoad
          /\ Silent /\ \A j \in DOMAIN sent : Derives(j) => j = i + 1
      BY <2>1, <3>1 DEF Stages, Asks
    <3>3. \A j \in DOMAIN sent' : Derives(j)' => j = i
      BY <1>9, <1>14, <3>2 DEF Shorter
    <3>4. QED
      BY <1>1, <1>8, <1>17, <2>2, <3>1, <3>2, <3>3
  <2>5. LoadsIdentity => LoadsIdentity'
    BY <1>1, <1>15 DEF LoadsIdentity, Derives, Kind
  <2>6. Shows'
    BY <2>1, <2>2, <2>5 DEF Stages, Shows
  <2>7. QED
    BY <1>10, <1>12, <1>13, <2>3, <2>4, <2>6 DEF Stages
<1>18. QED
  BY <1>16, <1>17

LEMMA PagesNextInv == PagesInv /\ [PagesNext]_pagesVars => PagesInv'
<1> SUFFICES ASSUME PagesInv, [PagesNext]_pagesVars PROVE PagesInv'
  OBVIOUS
<1>1. IndInv' /\ TypeOK' /\ latest' \in MaybeKey
  BY StepWorkerInv
<1>2. /\ PagesTypeOK /\ Stages /\ TypeOK /\ KeyIsDurable /\ latest \in MaybeKey
  BY DEF PagesInv, IndInv, TypeOK, MaybeKey
<1> SUFFICES PagesTypeOK' /\ Stages'
  BY <1>1 DEF PagesInv
<1>3. CASE Open
  BY <1>1, <1>2, <1>3, OpenInv
<1>4. CASE Close
  BY <1>1, <1>4, CloseInv
<1>5. CASE SetKeyClicked
  BY <1>1, <1>2, <1>5, SetKeyClickedInv DEF SetKeyClicked, vars
<1>6. CASE Poll
  BY <1>1, <1>2, <1>6, PollInv
<1>7. CASE StatusShown
  BY <1>1, <1>2, <1>7, StatusShownInv DEF StatusShown, vars
<1>8. CASE KeyRead
  BY <1>1, <1>2, <1>8, KeyReadInv DEF KeyRead, vars
<1>9. CASE IdentityShown
  BY <1>1, <1>2, <1>9, IdentityShownInv DEF IdentityShown, vars
<1>10. CASE AnswerStatus
  BY <1>1, <1>2, <1>10, AnswerStatusInv DEF AnswerStatus, vars
<1>11. CASE DeriveKey
  BY <1>1, <1>2, <1>11, DeriveKeyInv DEF DeriveKey, vars
<1>12. CASE AnswerSetKey
  BY <1>1, <1>2, <1>12, AnswerSetKeyInv
<1>13. CASE SetElsewhere
  BY <1>1, <1>2, <1>13, SetElsewhereInv
<1>14. CASE StartWorker \/ StopWorker \/ WorkerStep \/ UNCHANGED pagesVars
  <2>1. UNCHANGED pageVars
    BY <1>14 DEF StartWorker, StopWorker, WorkerStep, pagesVars
  <2>2. latest' = latest
    BY <1>14 DEF StartWorker, StopWorker, WorkerStep, pagesVars, vars, Start, Stop,
                 WasmInit, StorageStep, KeyLoaded
  <2>3. QED
    BY <1>1, <1>2, <2>1, <2>2, QuietInv
<1>15. QED
  BY <1>3, <1>4, <1>5, <1>6, <1>7, <1>8, <1>9, <1>10, <1>11, <1>12, <1>13, <1>14
     DEF PagesNext, PageStep, MessageStep

\* The page, its messages, the worker and chrome.storage stay in the
\* invariant.
THEOREM PagesInvariance == PagesSpec => []PagesInv
  BY PagesInitInv, PagesNextInv, PTL DEF PagesSpec

\* A page with its worker behaves as a worker: what is proved of the worker
\* alone holds next to a page.
THEOREM PagesAreWorkers == PagesSpec => Spec
<1>1. PagesInit => Init
  BY DEF PagesInit
<1>2. PagesInv /\ [PagesNext]_pagesVars => [Next]_vars
  BY StepIsWorkers DEF PagesInv
<1>3. QED
  BY <1>1, <1>2, PagesInvariance, PTL DEF PagesSpec, Spec

\* The page's state keeps its type, and no more than MaxMail of its messages
\* are under way.
THEOREM PagesTypeCorrect == PagesSpec => []PagesTypeOK
<1>1. PagesInv => PagesTypeOK
  BY DEF PagesInv
<1>2. QED
  BY PagesInvariance, <1>1, PTL

\* A page that waits for nothing shows the last key set, unless something
\* happened that it does not hear of.
THEOREM PageShowsLatestHolds == PagesSpec => []PageShowsLatest
<1>1. PagesInv => PageShowsLatest
  <2> SUFFICES ASSUME PagesInv, page.wasmReady, ~troubled,
                      sent = <<>>, back = <<>>, load = NoLoad
               PROVE  page.identity = latest
    BY DEF PageShowsLatest
  <2>1. DOMAIN sent = {} /\ DOMAIN back = {}
    BY EmptySeq
  <2>2. Fresh /\ ~LoadsIdentity
    BY <2>1 DEF Fresh, Failed, LoadsIdentity
  <2>3. Ends
    BY <2>2 DEF PagesInv, Stages, Shows
  <2>4. QED
    BY <2>1, <2>3 DEF Ends
<1>2. QED
  BY PagesInvariance, <1>1, PTL

-----------------------------------------------------------------------------
(***************************************************************************)
(* The login page and its sign-in, next to the same worker.                *)
(***************************************************************************)

\* The nonce of a page is set once, by the only answer to its only fetch.
FetchedOnce == challenge.at \in {"unsent", "response"} => currentNonce = None

\* The button is only enabled by an answer, and there is only one.
ShownOnce == status # "done" => button = "waiting"

\* A click sends the page's nonce, which is then fixed, or none.
OwnNonce == attempt.nonce # None => attempt.nonce = currentNonce

\* The bridge says "ok" to nonces it has accepted.
Proven == attempt.at = "ok" => attempt.nonce \in accepted

SignInInv ==
  /\ IndInv
  /\ SignInTypeOK
  /\ FetchedOnce /\ ShownOnce /\ OwnNonce /\ Proven
  /\ RedirectProved

LEMMA SignInInitInv == SignInInit => SignInInv
<1> SUFFICES ASSUME SignInInit PROVE SignInInv
  OBVIOUS
<1>1. IndInv
  BY InitInv DEF SignInInit
<1>2. SignInTypeOK
  BY <1>1, SIAssumption
     DEF SignInTypeOK, SignInInit, NoAttempt, MaybeNonce, IndInv
<1>3. FetchedOnce /\ ShownOnce /\ OwnNonce /\ Proven /\ RedirectProved
  BY DEF SignInInit, NoAttempt, FetchedOnce, ShownOnce, OwnNonce, Proven,
         RedirectProved
<1> QED
  BY <1>1, <1>2, <1>3 DEF SignInInv

\* The worker keeps its invariant.  What is left to show of a step:
LEMMA SignInStep ==
  ASSUME SignInInv, [Next]_vars,
         challenge' \in [at : {"unsent", "done", "lost"}, nonce : {None}]
                          \cup [at : {"response"}, nonce : Nonce],
         currentNonce' \in MaybeNonce,
         status' \in {"unasked", "asked", "ready", "notReady", "done"},
         button' \in {"waiting", "ready", "requesting", "verifying", "redirecting"},
         attempt' \in [at : {"none", "worker", "error", "coz", "verify", "ok", "refused"},
                       nonce : MaybeNonce, key : Key \cup {None}, timely : BOOLEAN],
         attempt'.at # "none" <=> button' \in {"requesting", "verifying"},
         conn' \in Conn,
         drifted' \in BOOLEAN,
         held' \in [Conn -> MaybeNonce],
         accepted' \subseteq Nonce,
         trouble' \in 0 .. MaxTrouble,
         FetchedOnce', ShownOnce', OwnNonce', Proven', RedirectProved'
  PROVE  SignInInv'
<1>1. IndInv'
  BY NextInv DEF SignInInv
<1>2. SignInTypeOK'
  BY <1>1 DEF SignInTypeOK, MaybeNonce, IndInv
<1> QED
  BY <1>1, <1>2 DEF SignInInv

\* The worker steps, or waits, while the page does something else or nothing.
LEMMA WorkersInv ==
  ASSUME SignInInv, [Next]_vars, UNCHANGED <<loginVars, bridgeVars>>,
         trouble' \in 0 .. MaxTrouble
  PROVE  SignInInv'
<1>1. /\ UNCHANGED <<challenge, currentNonce, status, button, attempt>>
      /\ UNCHANGED <<conn, drifted, held, accepted>>
  BY DEF loginVars, bridgeVars
<1>2. /\ FetchedOnce' /\ ShownOnce' /\ OwnNonce' /\ Proven' /\ RedirectProved'
  BY <1>1 DEF SignInInv, FetchedOnce, ShownOnce, OwnNonce, Proven, RedirectProved
<1> QED
  BY <1>1, <1>2, SignInStep DEF SignInInv, SignInTypeOK

LEMMA FetchInv ==
  ASSUME SignInInv, FetchStep PROVE SignInInv'
<1> USE DEF MaybeNonce
<1>1. UNCHANGED vars
  BY DEF FetchStep, FetchChallenge, ChallengeFetched, vars
<1>2. CASE FetchChallenge
  <2>1. PICK n \in Nonce :
          /\ held' = [held EXCEPT ![conn] = n]
          /\ challenge' = [at |-> "response", nonce |-> n]
    BY <1>2 DEF FetchChallenge
  <2>2. /\ challenge.at = "unsent"
        /\ UNCHANGED <<currentNonce, status, button, attempt, conn, drifted, accepted, trouble>>
    BY <1>2 DEF FetchChallenge
  <2>3. held' \in [Conn -> Nonce \cup {None}]
    BY <2>1 DEF SignInInv, SignInTypeOK
  <2>4. FetchedOnce' /\ ShownOnce' /\ OwnNonce' /\ Proven' /\ RedirectProved'
    BY <2>2 DEF SignInInv, FetchedOnce, ShownOnce, OwnNonce, Proven, RedirectProved
  <2> QED
    BY <1>1, <2>1, <2>2, <2>3, <2>4, SignInStep DEF SignInInv, SignInTypeOK
<1>3. CASE ChallengeFetched
  <2>1. /\ challenge.at = "response" /\ currentNonce' = challenge.nonce
        /\ challenge' = [at |-> "done", nonce |-> None]
        /\ UNCHANGED <<status, button, attempt, conn, drifted, held, accepted, trouble>>
    BY <1>3 DEF ChallengeFetched, bridgeVars
  <2>2. challenge.nonce \in Nonce /\ currentNonce = None
    BY <2>1 DEF SignInInv, SignInTypeOK, FetchedOnce
  <2>3. attempt.nonce = None /\ button # "redirecting"
    BY <2>2, SIAssumption DEF SignInInv, SignInTypeOK, OwnNonce, RedirectProved
  <2>4. FetchedOnce' /\ ShownOnce' /\ OwnNonce' /\ Proven' /\ RedirectProved'
    BY <2>1, <2>3
       DEF SignInInv, FetchedOnce, ShownOnce, OwnNonce, Proven, RedirectProved
  <2> QED
    BY <1>1, <2>1, <2>2, <2>4, SignInStep DEF SignInInv, SignInTypeOK
<1> QED
  BY <1>2, <1>3 DEF FetchStep

LEMMA StatusInv ==
  ASSUME SignInInv, StatusStep PROVE SignInInv'
<1> USE DEF bridgeVars
<1>1. /\ UNCHANGED vars
      /\ UNCHANGED <<challenge, currentNonce, attempt, conn, drifted, held, accepted, trouble>>
  BY DEF StatusStep, AskStatus, AnswerContent, ShowStatus, vars
<1>2. status # "done" /\ button = "waiting" /\ attempt.at = "none"
  BY DEF StatusStep, AskStatus, AnswerContent, ShowStatus,
         SignInInv, SignInTypeOK, ShownOnce
<1>3. /\ status' \in {"asked", "ready", "notReady", "done"}
      /\ button' \in {"waiting", "ready"}
      /\ status' # "done" => button' = "waiting"
  BY <1>2 DEF StatusStep, AskStatus, AnswerContent, ShowStatus
<1>4. FetchedOnce' /\ ShownOnce' /\ OwnNonce' /\ Proven' /\ RedirectProved'
  BY <1>1, <1>3
     DEF SignInInv, FetchedOnce, ShownOnce, OwnNonce, Proven, RedirectProved
<1> QED
  BY <1>1, <1>2, <1>3, <1>4, SignInStep DEF SignInInv, SignInTypeOK

LEMMA ClickInv ==
  ASSUME SignInInv, Click PROVE SignInInv'
<1>1. /\ UNCHANGED vars
      /\ UNCHANGED <<challenge, currentNonce, status, conn, drifted, held, accepted, trouble>>
      /\ button = "ready" /\ button' = "requesting"
      /\ attempt' = [at |-> "worker", nonce |-> currentNonce, key |-> None,
                     timely |-> FALSE]
  BY DEF Click, NoAttempt, vars, bridgeVars
<1>2. FetchedOnce' /\ ShownOnce' /\ OwnNonce' /\ Proven' /\ RedirectProved'
  BY <1>1 DEF SignInInv, FetchedOnce, ShownOnce, OwnNonce, Proven, RedirectProved
<1> QED
  BY <1>1, <1>2, SignInStep DEF SignInInv, SignInTypeOK

\* The answers on the way back to the page, or the loss of one.
LEMMA AnswersInv ==
  ASSUME SignInInv, RequestSignature \/ SubmitCoz \/ VerifyLost \/ VerifyDelayed
  PROVE  SignInInv'
<1>1. /\ UNCHANGED vars
      /\ UNCHANGED <<challenge, currentNonce, status, conn, drifted, held, accepted>>
      /\ trouble' \in 0 .. MaxTrouble
  BY SIAssumption
     DEF RequestSignature, SubmitCoz, VerifyLost, VerifyDelayed, Trouble, vars,
         bridgeVars, SignInInv, SignInTypeOK
<1>2. privateKey \in Key \cup {None} /\ drifted \in BOOLEAN
  BY DEF SignInInv, SignInTypeOK, IndInv, TypeOK
<1>3. /\ attempt.at # "none"
      /\ attempt' \in [at : {"error", "coz", "verify", "refused"},
                       nonce : Nonce \cup {None}, key : Key \cup {None},
                       timely : BOOLEAN]
      /\ attempt'.nonce = attempt.nonce
      /\ button' \in {button, "verifying"}
  BY <1>2 DEF RequestSignature, SubmitCoz, VerifyLost, VerifyDelayed,
              SignInInv, SignInTypeOK, MaybeNonce
<1>4. button \in {"requesting", "verifying"}
  BY <1>3 DEF SignInInv, SignInTypeOK
<1>5. FetchedOnce' /\ ShownOnce' /\ OwnNonce' /\ Proven' /\ RedirectProved'
  BY <1>1, <1>3, <1>4
     DEF SignInInv, FetchedOnce, ShownOnce, OwnNonce, Proven, RedirectProved
<1> QED
  BY <1>1, <1>3, <1>4, <1>5, SignInStep DEF SignInInv, SignInTypeOK, MaybeNonce

\* What the bridge accepts is the nonce of the attempt: the page's own.
LEMMA VerifyInv ==
  ASSUME SignInInv, Verify PROVE SignInInv'
<1>1. /\ UNCHANGED vars
      /\ UNCHANGED <<challenge, currentNonce, status, button, conn, drifted, trouble>>
      /\ attempt.at = "verify"
  BY DEF Verify, vars
<1> DEFINE match == /\ attempt.timely
                    /\ held[conn] # None /\ held[conn] = attempt.nonce
           proved == match /\ attempt.key = Registered
<1>2. /\ held' = IF match THEN [held EXCEPT ![conn] = None] ELSE held
      /\ accepted' = IF proved THEN accepted \cup {attempt.nonce} ELSE accepted
      /\ attempt' = [attempt EXCEPT !.at = IF proved THEN "ok" ELSE "refused"]
  BY DEF Verify
<1>3. match => attempt.nonce \in Nonce
  BY DEF SignInInv, SignInTypeOK, MaybeNonce
<1>4. /\ accepted \subseteq accepted' /\ accepted' \subseteq Nonce
      /\ held' \in [Conn -> Nonce \cup {None}]
  BY <1>2, <1>3 DEF SignInInv, SignInTypeOK, MaybeNonce
<1>5. /\ attempt' \in [at : {"ok", "refused"}, nonce : Nonce \cup {None},
                       key : Key \cup {None}, timely : BOOLEAN]
      /\ attempt'.nonce = attempt.nonce
      /\ attempt'.at = "ok" => attempt.nonce \in accepted'
  BY <1>2 DEF SignInInv, SignInTypeOK, MaybeNonce
<1>6. FetchedOnce' /\ ShownOnce' /\ OwnNonce' /\ Proven' /\ RedirectProved'
  BY <1>1, <1>4, <1>5
     DEF SignInInv, FetchedOnce, ShownOnce, OwnNonce, Proven, RedirectProved
<1> QED
  BY <1>1, <1>4, <1>5, <1>6, SignInStep DEF SignInInv, SignInTypeOK, MaybeNonce

\* The page goes on with the nonce of its attempt, which is its own.
LEMMA ShownInv ==
  ASSUME SignInInv, ShowSignatureError \/ ShowVerdict PROVE SignInInv'
<1>1. /\ UNCHANGED vars
      /\ UNCHANGED <<challenge, currentNonce, status, conn, drifted, held, accepted, trouble>>
      /\ attempt' = NoAttempt /\ attempt.at # "none"
      /\ button' \in {"ready", "redirecting"}
      /\ button' = "redirecting" => attempt.at = "ok"
  BY DEF ShowSignatureError, ShowVerdict, vars, bridgeVars
<1>2. button # "waiting"
  BY <1>1 DEF SignInInv, SignInTypeOK
<1>3. attempt.at = "ok" => currentNonce \in accepted
  BY SIAssumption DEF SignInInv, SignInTypeOK, Proven, OwnNonce
<1>4. FetchedOnce' /\ ShownOnce' /\ OwnNonce' /\ Proven' /\ RedirectProved'
  BY <1>1, <1>2, <1>3
     DEF SignInInv, FetchedOnce, ShownOnce, OwnNonce, Proven, RedirectProved,
         NoAttempt
<1> QED
  BY <1>1, <1>4, SignInStep DEF SignInInv, SignInTypeOK, NoAttempt, MaybeNonce

\* The fetch fails, or the page is loaded again.
LEMMA LoadsAgainInv ==
  ASSUME SignInInv, ChallengeLost \/ Reload PROVE SignInInv'
<1>1. UNCHANGED vars /\ UNCHANGED <<conn, drifted, held, accepted>>
      /\ trouble' \in 0 .. MaxTrouble
  BY SIAssumption
     DEF ChallengeLost, Reload, Trouble, vars, bridgeVars, SignInInv, SignInTypeOK
<1>2. CASE ChallengeLost
  <2>1. /\ challenge' = [at |-> "lost", nonce |-> None]
        /\ UNCHANGED <<currentNonce, status, button, attempt>>
    BY <1>2 DEF ChallengeLost
  <2>2. FetchedOnce' /\ ShownOnce' /\ OwnNonce' /\ Proven' /\ RedirectProved'
    BY <1>1, <2>1
       DEF SignInInv, FetchedOnce, ShownOnce, OwnNonce, Proven, RedirectProved
  <2> QED
    BY <1>1, <2>1, <2>2, SignInStep DEF SignInInv, SignInTypeOK
<1>3. CASE Reload
  <2>1. /\ challenge' = [at |-> "unsent", nonce |-> None] /\ currentNonce' = None
        /\ status' = "unasked" /\ button' = "waiting" /\ attempt' = NoAttempt
    BY <1>3 DEF Reload
  <2>2. FetchedOnce' /\ ShownOnce' /\ OwnNonce' /\ Proven' /\ RedirectProved'
    BY <2>1 DEF FetchedOnce, ShownOnce, OwnNonce, Proven, RedirectProved,
                NoAttempt
  <2> QED
    BY <1>1, <2>1, <2>2, SignInStep
       DEF SignInInv, SignInTypeOK, NoAttempt, MaybeNonce
<1> QED
  BY <1>2, <1>3

\* A clock that is set, another connection, a challenge that is forgotten or
\* overwritten.
LEMMA BridgeTroubleInv ==
  ASSUME SignInInv, SetClock \/ Reconnect \/ Forget \/ PopupFetchChallenge
  PROVE  SignInInv'
<1>1. /\ UNCHANGED vars
      /\ UNCHANGED <<challenge, currentNonce, status, button, attempt, accepted>>
      /\ trouble' \in 0 .. MaxTrouble
  BY SIAssumption
     DEF SetClock, Reconnect, Forget, PopupFetchChallenge, Trouble, vars, loginVars,
         SignInInv, SignInTypeOK
<1>2. /\ conn' \in Conn /\ drifted' \in BOOLEAN
      /\ held' \in [Conn -> Nonce \cup {None}]
  BY DEF SetClock, Reconnect, Forget, PopupFetchChallenge, SignInInv, SignInTypeOK,
         MaybeNonce
<1>3. FetchedOnce' /\ ShownOnce' /\ OwnNonce' /\ Proven' /\ RedirectProved'
  BY <1>1 DEF SignInInv, FetchedOnce, ShownOnce, OwnNonce, Proven, RedirectProved
<1> QED
  BY <1>1, <1>2, <1>3, SignInStep DEF SignInInv, SignInTypeOK, MaybeNonce

\* A step of a sign-in is one of the worker, or none of its.
LEMMA SignInStepIsWorkers ==
  /\ WakeWorker \/ LoadWorker \/ WorkerTrouble => Next
  /\ FetchStep \/ StatusStep \/ AttemptStep \/ Click \/ ChallengeLost
       \/ VerifyLost \/ VerifyDelayed \/ SetClock \/ Reconnect \/ Forget \/ PopupFetchChallenge
       \/ Reload \/ UNCHANGED signInVars => UNCHANGED vars
<1>1. WakeWorker \/ LoadWorker \/ WorkerTrouble => Next
  BY DEF WakeWorker, LoadWorker, WorkerTrouble, Next
<1>2. FetchStep \/ StatusStep \/ AttemptStep \/ Click \/ ChallengeLost
        \/ VerifyLost \/ VerifyDelayed \/ SetClock \/ Reconnect \/ Forget \/ PopupFetchChallenge
        \/ Reload \/ UNCHANGED signInVars => UNCHANGED vars
  BY DEF FetchStep, FetchChallenge, ChallengeFetched, StatusStep,
         AskStatus, AnswerContent, ShowStatus, AttemptStep,
         RequestSignature, ShowSignatureError, SubmitCoz, Verify,
         ShowVerdict, Click, ChallengeLost, VerifyLost, VerifyDelayed, SetClock, Reconnect,
         Forget, PopupFetchChallenge, Reload, signInVars, vars
<1> QED
  BY <1>1, <1>2

LEMMA SignInNextInv == SignInInv /\ [SignInNext]_signInVars => SignInInv'
<1> SUFFICES ASSUME SignInInv, [SignInNext]_signInVars PROVE SignInInv'
  OBVIOUS
<1>1. CASE FetchStep
  BY <1>1, FetchInv
<1>2. CASE StatusStep
  BY <1>2, StatusInv
<1>3. CASE AttemptStep
  BY <1>3, AnswersInv, VerifyInv, ShownInv DEF AttemptStep
<1>4. CASE Click
  BY <1>4, ClickInv
<1>5. CASE ChallengeLost \/ Reload
  BY <1>5, LoadsAgainInv
<1>6. CASE VerifyLost \/ VerifyDelayed
  BY <1>6, AnswersInv
<1>7. CASE SetClock \/ Reconnect \/ Forget \/ PopupFetchChallenge
  BY <1>7, BridgeTroubleInv
<1>8. CASE WakeWorker \/ LoadWorker \/ WorkerTrouble \/ UNCHANGED signInVars
  <2>1. [Next]_vars
    BY <1>8, SignInStepIsWorkers
  <2>2. UNCHANGED <<loginVars, bridgeVars>>
    BY <1>8 DEF WakeWorker, LoadWorker, WorkerTrouble, signInVars
  <2>3. trouble' \in 0 .. MaxTrouble
    BY <1>8, SIAssumption
       DEF WakeWorker, LoadWorker, WorkerTrouble, Trouble, signInVars, SignInInv,
           SignInTypeOK
  <2> QED
    BY <2>1, <2>2, <2>3, WorkersInv
<1> QED
  BY <1>1, <1>2, <1>3, <1>4, <1>5, <1>6, <1>7, <1>8 DEF SignInNext

\* The page, its sign-in, the worker and the bridge stay in the invariant.
THEOREM SignInInvariance == SignInSpec => []SignInInv
  BY SignInInitInv, SignInNextInv, PTL DEF SignInSpec

\* The worker of a sign-in behaves as a worker: what is proved of the worker
\* alone holds during a sign-in.
THEOREM SignInsAreWorkers == SignInSpec => Spec
<1>1. SignInInit => Init
  BY DEF SignInInit
<1>2. [SignInNext]_signInVars => [Next]_vars
  BY SignInStepIsWorkers DEF SignInNext, AttemptStep
<1>3. QED
  BY <1>1, <1>2, PTL DEF SignInSpec, Spec

\* The login page's state keeps its type, and a click is under way exactly
\* while the button says so.
THEOREM SignInTypeCorrect == SignInSpec => []SignInTypeOK
<1>1. SignInInv => SignInTypeOK
  BY DEF SignInInv
<1>2. QED
  BY SignInInvariance, <1>1, PTL

\* The page goes on only after the bridge accepted the registered key's
\* signature of this page's own challenge, whatever was fetched, clicked,
\* lost, reloaded or overwritten before.
THEOREM RedirectProvedHolds == SignInSpec => []RedirectProved
<1>1. SignInInv => RedirectProved
  BY DEF SignInInv
<1>2. QED
  BY SignInInvariance, <1>1, PTL
=============================================================================
