-------------------------- MODULE SigningKey_proofs --------------------------
(***************************************************************************)
(* What is proved about the signing key, for any number of starts, crashes *)
(* and failed reads.                                                       *)
(***************************************************************************)
EXTENDS SigningKey, TLAPS

\* Before the first start there is neither file nor token.
LEMMA InitInv == Init => IndInv
<1> SUFFICES ASSUME Init PROVE IndInv
  OBVIOUS
<1> USE SKAssumption DEF Init
<1>1. TypeOK
  <2>1. trouble \in 0 .. MaxTrouble
    OBVIOUS
  <2>2. path \in BOOLEAN /\ reread \in BOOLEAN
    BY Zenon
  <2> QED
    BY <2>1, <2>2 DEF TypeOK
<1>2. ServedKeyIsSaved
  BY DEF ServedKeyIsSaved
<1>3. FileInv /\ IdInv
  BY DEF FileInv, IdInv, IdNamesKey
<1> QED
  BY <1>1, <1>2, <1>3 DEF IndInv

\* A key that is served is generated now or was loaded from the file, and
\* comes with an id that no token names.
LEMMA ServeType ==
  ASSUME TypeOK, NEW k \in Key, NEW given \in SUBSET Key, Serve(k, given)
  PROVE  /\ pc' = "serving"
         /\ key' = k
         /\ id' \in KeyID
         /\ used' \subseteq Key \cup KeyID
         /\ id' \in used' \ used
         /\ used \subseteq used'
BY DEF TypeOK, Serve

\* A start keeps what is known of the ids: the tokens name earlier ones.
LEMMA ServeIds ==
  ASSUME IdInv, id' \in used' \ used, used \subseteq used', issued' = issued
  PROVE  IdInv'
BY DEF IdInv, IdNamesKey

\* A step gives out a new id or none, and a new token names the id in use.
LEMMA IdStep == IndInv /\ [Next]_vars => IdInv'
<1> SUFFICES ASSUME IndInv, [Next]_vars PROVE IdInv'
  OBVIOUS
<1> USE SKAssumption
<1>1. TypeOK /\ IdInv
  BY DEF IndInv
<1>2. ASSUME NEW k \in Key, NEW given \in SUBSET Key, Serve(k, given),
             issued' = issued
      PROVE  IdInv'
  BY <1>1, <1>2, ServeType, ServeIds
<1>3. CASE GenerateInMemory
  BY <1>2, <1>3 DEF GenerateInMemory
<1>4. CASE LoadKey
  BY <1>2, <1>4 DEF LoadKey
<1>5. CASE GenerateKey \/ ReadFails
  BY <1>1, <1>5 DEF GenerateKey, ReadFails, Generate, TypeOK, IdInv, IdNamesKey
<1>6. CASE OpenFile
  BY <1>1, <1>6 DEF OpenFile, IdInv, IdNamesKey
<1>7. CASE WriteFile
  <2>1. key \in Key
    BY <1>1, <1>7 DEF WriteFile, TypeOK
  <2> QED
    BY <1>2, <1>7, <2>1 DEF WriteFile
<1>8. CASE Stop
  BY <1>1, <1>8 DEF Stop, TypeOK, IdInv, IdNamesKey
<1>9. CASE SignToken
  BY <1>1, <1>9 DEF SignToken, TypeOK, IdInv, IdNamesKey
<1>10. CASE UNCHANGED vars
  BY <1>1, <1>10 DEF vars, IdInv, IdNamesKey
<1> QED
  BY <1>3, <1>4, <1>5, <1>6, <1>7, <1>8, <1>9, <1>10 DEF Next

\* Every step keeps the inductive invariant.
LEMMA StepInv == IndInv /\ [Next]_vars => IndInv'
<1> SUFFICES ASSUME IndInv, [Next]_vars PROVE IndInv'
  OBVIOUS
<1> USE SKAssumption
<1>0. IdInv'
  BY IdStep
<1>1. CASE GenerateInMemory
  <2>1. PICK k \in Key \ used : Serve(k, {k})
    BY <1>1 DEF GenerateInMemory
  <2>2. pc' = "serving" /\ key' = k /\ id' \in KeyID /\ used' \subseteq Key \cup KeyID
    BY <2>1, ServeType DEF IndInv
  <2> QED
    BY <1>0, <1>1, <2>2 DEF GenerateInMemory, IndInv, TypeOK, ServedKeyIsSaved, FileInv
<1>2. CASE LoadKey
  <2>1. pc' = "serving" /\ key' = file /\ id' \in KeyID /\ used' \subseteq Key \cup KeyID
    BY <1>2, ServeType DEF LoadKey, IndInv
  <2> QED
    BY <1>0, <1>2, <2>1 DEF LoadKey, IndInv, TypeOK, ServedKeyIsSaved, FileInv
<1>3. CASE GenerateKey
  \* No file, hence no token.
  <2>1. path /\ ~reread => issued = {}
    BY <1>3 DEF GenerateKey, Generate, IndInv, TypeOK, FileInv
  <2> QED
    BY <1>0, <1>3, <2>1
    DEF GenerateKey, Generate, IndInv, TypeOK, ServedKeyIsSaved, FileInv
<1>4. CASE ReadFails
  \* Either the file held a key, or it was torn and there is no token.
  <2>1. path /\ ~reread' => issued = {}
    <3> SUFFICES ASSUME path, ~reread', NEW t \in issued PROVE FALSE
      OBVIOUS
    <3>1. ~reread /\ file \notin Key
      BY <1>4, Zenon DEF ReadFails
    <3>2. t.key = file /\ t.key \in Key
      BY <3>1 DEF IndInv, TypeOK, FileInv
    <3> QED
      BY <3>1, <3>2
  <2>2. reread' \in BOOLEAN /\ trouble' \in 0 .. MaxTrouble
    BY <1>4 DEF ReadFails, Trouble, IndInv, TypeOK
  <2> QED
    BY <1>0, <1>4, <2>1, <2>2
    DEF ReadFails, Generate, IndInv, TypeOK, ServedKeyIsSaved, FileInv
<1>5. CASE OpenFile
  BY <1>0, <1>5 DEF OpenFile, IndInv, TypeOK, ServedKeyIsSaved, FileInv
<1>6. CASE WriteFile
  <2>1. pc' = "serving" /\ key' = key /\ id' \in KeyID /\ used' \subseteq Key \cup KeyID
    BY <1>6, ServeType DEF WriteFile, IndInv, TypeOK
  <2> QED
    BY <1>0, <1>6, <2>1 DEF WriteFile, IndInv, TypeOK, ServedKeyIsSaved, FileInv
<1>7. CASE Stop
  BY <1>0, <1>7 DEF Stop, Trouble, IndInv, TypeOK, ServedKeyIsSaved, FileInv
<1>8. CASE SignToken
  BY <1>0, <1>8 DEF SignToken, IndInv, TypeOK, ServedKeyIsSaved, FileInv
<1>9. CASE UNCHANGED vars
  BY <1>0, <1>9 DEF vars, IndInv, TypeOK, ServedKeyIsSaved, FileInv
<1> QED
  BY <1>1, <1>2, <1>3, <1>4, <1>5, <1>6, <1>7, <1>8, <1>9 DEF Next

\* The inductive invariant holds, and with it the types.
THEOREM KeyInvariance == Spec => []IndInv
BY InitInv, StepInv, PTL DEF Spec

\* The key that is served is the one the next start will load.
THEOREM ServedKeyIsSavedHolds == Spec => []ServedKeyIsSaved
<1>1. IndInv => ServedKeyIsSaved
  BY DEF IndInv
<1> QED
  BY <1>1, KeyInvariance, PTL

\* Tokens of any start were signed with the key in use, unless a file that
\* held a key could not be read.
THEOREM IssuedWithSavedKeyHolds == Spec => []IssuedWithSavedKey
<1>1. IndInv => IssuedWithSavedKey
  BY DEF IndInv, ServedKeyIsSaved, FileInv, IssuedWithSavedKey
<1> QED
  BY <1>1, KeyInvariance, PTL

\* An id stands for one key, over all starts.
THEOREM IdNamesKeyHolds == Spec => []IdNamesKey
<1>1. IndInv => IdNamesKey
  BY DEF IndInv, IdInv
<1> QED
  BY <1>1, KeyInvariance, PTL
=============================================================================
