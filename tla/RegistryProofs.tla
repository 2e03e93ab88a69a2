--------------------------- MODULE RegistryProofs ---------------------------
(***************************************************************************)
(* The registry's list and counter are right for any number of addresses   *)
(* and constructions, as long as no client assigns one potential to        *)
(* another.                                                                *)
(***************************************************************************)
EXTENDS Registry, FiniteSetTheorems, TLAPS

\* Live objects have different, past birthdays.
Birthdays ==
  /\ \A o \in alive : born[o] \in 1 .. clock
  /\ \A o, p \in alive : born[o] = born[p] => o = p

IndInv ==
  /\ TypeOK /\ Birthdays /\ ListsInstances
  /\ IsFiniteSet(alive) /\ CountsInstances

USE RegistryAssumption DEF Ptrs

LEMMA InitInv == Init => IndInv
<1> SUFFICES ASSUME Init PROVE IndInv
    OBVIOUS
<1>1. TypeOK /\ Birthdays /\ ListsInstances
      BY DEF Init, TypeOK, Birthdays, ListsInstances, Between
<1>2. IsFiniteSet(alive) /\ CountsInstances
      BY FS_EmptySet DEF Init, CountsInstances
<1> QED BY <1>1, <1>2 DEF IndInv

(* Both constructors put the youngest object at the front. *)
LEMMA PushInv ==
  ASSUME IndInv, NEW o \in Objs, Birth(o), count' = count + 1, PushFront(o)
  PROVE  IndInv'
<1> USE DEF IndInv
<1>1. TypeOK'
      BY DEF TypeOK, Birth, PushFront
<1>2. Birthdays'
      BY DEF TypeOK, Birth, Birthdays
<1>3. ListsInstances'
  <2>1. /\ alive' = alive \cup {o} /\ o \notin alive /\ head' = o
        /\ next'[o] = head /\ prev'[o] = null
        BY DEF TypeOK, Birth, PushFront
  <2>2. \A p \in alive : born'[p] < born'[o] /\ born'[p] = born[p]
        BY DEF TypeOK, Birth, Birthdays
  <2>3. \A p \in alive : /\ next'[p] = next[p]
                         /\ prev'[p] = IF p = head THEN o ELSE prev[p]
        BY DEF TypeOK, Birth, PushFront
  <2>4. \A p \in alive : p # head => prev[p] # null
        BY DEF TypeOK, Birthdays, ListsInstances
  <2>5. born' \in [Objs -> Int] /\ born \in [Objs -> Int]
        BY <1>1 DEF TypeOK
  <2> QED BY <2>1, <2>2, <2>3, <2>4, <2>5 DEF TypeOK, ListsInstances, Between
<1>4. IsFiniteSet(alive)' /\ CountsInstances'
      BY FS_AddElement DEF Birth, CountsInstances
<1> QED BY <1>1, <1>2, <1>3, <1>4

(* The destructor unlinks the object from its two neighbours. *)
LEMMA DestroyInv ==
  ASSUME IndInv, NEW o \in Objs, Destroy(o)
  PROVE  IndInv'
<1> USE DEF IndInv
<1>1. IsFiniteSet(alive)' /\ CountsInstances' /\ count' \in Nat
  <2>1. IsFiniteSet(alive \ {o}) /\ Cardinality(alive \ {o}) = Cardinality(alive) - 1
        BY FS_RemoveElement DEF Destroy
  <2>2. Cardinality(alive \ {o}) \in Nat
        BY <2>1, FS_CardinalityType
  <2> QED BY <2>1, <2>2 DEF Destroy, CountsInstances
<1>2. TypeOK'
      BY <1>1 DEF TypeOK, Destroy
<1>3. Birthdays'
      BY DEF TypeOK, Destroy, Birthdays
<1>4. ListsInstances'
  <2>1. /\ alive' = alive \ {o} /\ o \in alive /\ born' = born
        /\ alive \subseteq Objs /\ null \notin Objs /\ born \in [Objs -> Int]
        BY DEF Destroy, TypeOK
  <2>2. \A p \in alive : next[p] = o <=> prev[o] = p
        BY <2>1 DEF ListsInstances, Birthdays, Between
  <2>3. \A p \in alive : prev[p] = o <=> next[o] = p
        BY <2>1 DEF ListsInstances, Birthdays, Between
  <2>4. \A p \in alive : /\ next'[p] = IF next[p] = o THEN next[o] ELSE next[p]
                         /\ prev'[p] = IF prev[p] = o THEN prev[o] ELSE prev[p]
        BY <2>1, <2>2, <2>3 DEF Destroy
  <2>5. ASSUME NEW p \in alive'
        PROVE  /\ next'[p] = null => \A q \in alive' : born[q] >= born[p]
               /\ next'[p] # null => /\ next'[p] \in alive'
                                     /\ born[next'[p]] < born[p]
                                     /\ Between(born[next[p]], born[p])' = {}
    <3>1. p \in alive /\ p # o /\ born[p] # born[o]
          BY <2>1 DEF Birthdays
    <3>2. CASE next[p] # o
          BY <2>1, <2>4, <3>1, <3>2 DEF ListsInstances, Between
    <3>3. CASE next[p] = o /\ next[o] = null
      <4>1. next'[p] = null /\ \A q \in alive' : q \in alive /\ born[q] # born[o]
            BY <2>1, <2>4, <3>1, <3>3 DEF Birthdays
      <4> QED BY <2>1, <3>1, <3>3, <4>1 DEF ListsInstances, Between
    <3>4. CASE next[p] = o /\ next[o] # null
      <4>1. next'[p] = next[o] /\ next[o] \in alive /\ next[o] # o
            BY <2>1, <2>4, <3>1, <3>4 DEF ListsInstances
      <4>2. \A q \in alive : q # o => born[q] # born[o]
            BY <2>1 DEF Birthdays
      <4> QED BY <2>1, <3>1, <3>4, <4>1, <4>2 DEF ListsInstances, Between
    <3> QED BY <3>2, <3>3, <3>4
  <2>6. ASSUME NEW p \in alive'
        PROVE  /\ prev'[p] = null => \A q \in alive' : born[q] <= born[p]
               /\ prev'[p] # null => /\ prev'[p] \in alive'
                                     /\ born[prev'[p]] > born[p]
                                     /\ Between(born[p], born[prev[p]])' = {}
    <3>1. p \in alive /\ p # o /\ born[p] # born[o]
          BY <2>1 DEF Birthdays
    <3>2. CASE prev[p] # o
          BY <2>1, <2>4, <3>1, <3>2 DEF ListsInstances, Between
    <3>3. CASE prev[p] = o /\ prev[o] = null
      <4>1. prev'[p] = null /\ \A q \in alive' : q \in alive /\ born[q] # born[o]
            BY <2>1, <2>4, <3>1, <3>3 DEF Birthdays
      <4> QED BY <2>1, <3>1, <3>3, <4>1 DEF ListsInstances, Between
    <3>4. CASE prev[p] = o /\ prev[o] # null
      <4>1. prev'[p] = prev[o] /\ prev[o] \in alive /\ prev[o] # o
            BY <2>1, <2>4, <3>1, <3>4 DEF ListsInstances
      <4>2. \A q \in alive : q # o => born[q] # born[o]
            BY <2>1 DEF Birthdays
      <4> QED BY <2>1, <3>1, <3>4, <4>1, <4>2 DEF ListsInstances, Between
    <3> QED BY <3>2, <3>3, <3>4
  <2>7. /\ head' = null <=> alive' = {}
        /\ head' # null => head' \in alive' /\ \A p \in alive' : born[p] <= born[head']
    <3>1. CASE head = o
      <4>1. head' = next[o] /\ \A p \in alive' : p \in alive /\ born[p] < born[o]
            BY <2>1, <3>1 DEF ListsInstances, Birthdays, Destroy
      <4>2. CASE next[o] = null
            BY <2>1, <4>1, <4>2 DEF ListsInstances
      <4>3. CASE next[o] # null
            BY <2>1, <4>1, <4>3 DEF ListsInstances, Between
      <4> QED BY <4>2, <4>3
    <3>2. CASE head # o
          BY <2>1, <3>2 DEF ListsInstances, Birthdays, Between, Destroy
    <3> QED BY <3>1, <3>2
  <2> QED BY <2>1, <2>5, <2>6, <2>7 DEF ListsInstances, Between
<1> QED BY <1>1, <1>2, <1>3, <1>4

LEMMA NextInv ==
  ASSUME ~CopyAssigns, IndInv, [Next]_vars
  PROVE  IndInv'
<1>1. CASE \E o \in Objs : Construct(o) \/ \E from \in Objs : CopyConstruct(o, from)
      BY <1>1, PushInv DEF Construct, CopyConstruct
<1>2. CASE \E o \in Objs : Destroy(o)
      BY <1>2, DestroyInv
<1>3. CASE \/ \E o, from \in Objs : CopyAssign(o, from)
           \/ UNCHANGED vars
  <2>1. UNCHANGED vars
        BY <1>3 DEF CopyAssign, vars, IndInv, TypeOK
  <2> QED BY <2>1 DEF vars, IndInv, TypeOK, Birthdays, ListsInstances, Between, CountsInstances
<1> QED BY <1>1, <1>2, <1>3 DEF Next

(* The inductive invariant holds throughout, when no client assigns one    *)
(* potential to another.                                                   *)
THEOREM Invariance ==
  ASSUME ~CopyAssigns
  PROVE  Spec => []IndInv
<1>1. IndInv /\ [Next]_vars => IndInv'
      BY NextInv
<1> QED BY InitInv, <1>1, PTL DEF Spec

(* Every variable keeps its type: count never goes below zero, where the   *)
(* code's size_t would wrap around.                                        *)
THEOREM TypeCorrect ==
  ASSUME ~CopyAssigns
  PROVE  Spec => []TypeOK
<1>1. IndInv => TypeOK
      BY DEF IndInv
<1> QED BY <1>1, Invariance, PTL

(* PotHelpers.hpp:21-22, for any number of objects, built and destroyed in *)
(* any order: the list is exactly the live objects, newest first.          *)
THEOREM RegistryCorrect ==
  ASSUME ~CopyAssigns
  PROVE  Spec => []ListsInstances
<1>1. IndInv => ListsInstances
      BY DEF IndInv
<1> QED BY <1>1, Invariance, PTL

(* PotHelpers.hpp:26: count is the number of live objects.                 *)
THEOREM CountCorrect ==
  ASSUME ~CopyAssigns
  PROVE  Spec => []CountsInstances
<1>1. IndInv => CountsInstances
      BY DEF IndInv
<1> QED BY <1>1, Invariance, PTL
=============================================================================
