--------------------------- MODULE HandlesProofs ---------------------------
(***************************************************************************)
(* Ownership in the RAII layer, for any threads, owners and handles.       *)
(***************************************************************************)
EXTENDS Handles, TLAPS

\* A cell has a history only once it has been allocated.
Histories == alloc \subseteq used /\ owning \subseteq used

IndInv ==
  TypeOK /\ Histories /\ OwnedOnce /\ UserDataFreedOnce /\ ResultOwnsForces

USE HandlesAssumption DEF Ptrs

LEMMA InitInv == Init => IndInv
<1> SUFFICES ASSUME Init PROVE IndInv
    OBVIOUS
<1>1. TypeOK
  <2>1. held \in [Threads -> BOOLEAN]
        BY DEF Init
  <2> QED BY <2>1 DEF Init, TypeOK
<1>2. Histories /\ OwnedOnce /\ UserDataFreedOnce
      BY DEF Init, Histories, OwnedOnce, UserDataFreedOnce
<1>3. ResultOwnsForces
      BY DEF Init, ResultOwnsForces
<1> QED BY <1>1, <1>2, <1>3 DEF IndInv

LEMMA AdoptInv ==
  ASSUME IndInv, NEW s \in Slots, NEW p \in Cells, NEW f \in BOOLEAN,
         FromImpl(s, p) \/ Connect(s, p) \/ FromCallback(s, p, f)
  PROVE  IndInv'
<1> USE DEF IndInv, TypeOK, FromImpl, Connect, FromCallback, Adopt, calling
<1>1. TypeOK' /\ Histories'
      BY DEF Histories
<1>2. OwnedOnce'
      BY DEF OwnedOnce, Histories
<1>3. UserDataFreedOnce'
      BY DEF UserDataFreedOnce, Histories
<1>4. ResultOwnsForces'
      BY DEF ResultOwnsForces
<1> QED BY <1>1, <1>2, <1>3, <1>4

LEMMA MoveConstructInv ==
  ASSUME IndInv, NEW d \in Slots, NEW s \in Slots, MoveConstruct(d, s)
  PROVE  IndInv'
<1> USE DEF IndInv, TypeOK, MoveConstruct, SameClass, calling
<1>1. TypeOK' /\ Histories'
      BY DEF Histories
<1>2. OwnedOnce'
      BY DEF OwnedOnce
<1>3. UserDataFreedOnce' /\ ResultOwnsForces'
      BY DEF UserDataFreedOnce, ResultOwnsForces
<1> QED BY <1>1, <1>2, <1>3

(* Freeing the target's old handle is safe because no other owner has it.  *)
LEMMA MoveAssignInv ==
  ASSUME IndInv, NEW d \in Slots, NEW s \in Slots, MoveAssign(d, s)
  PROVE  IndInv'
<1> USE DEF IndInv, TypeOK, MoveAssign, SameClass, Free, calling
<1>1. TypeOK' /\ Histories'
      BY DEF Histories
<1>2. OwnedOnce'
      BY DEF OwnedOnce, NotInUse
<1>3. UserDataFreedOnce'
      BY DEF UserDataFreedOnce, OwnedOnce
<1>4. ResultOwnsForces'
      BY DEF ResultOwnsForces
<1> QED BY <1>1, <1>2, <1>3, <1>4

LEMMA DestroyInv ==
  ASSUME IndInv, NEW s \in Slots, Destroy(s)
  PROVE  IndInv'
<1> USE DEF IndInv, TypeOK, Destroy, Free, calling
<1>1. TypeOK' /\ Histories'
      BY DEF Histories
<1>2. OwnedOnce'
      BY DEF OwnedOnce, NotInUse
<1>3. UserDataFreedOnce'
      BY DEF UserDataFreedOnce, OwnedOnce
<1>4. ResultOwnsForces'
      BY DEF ResultOwnsForces
<1> QED BY <1>1, <1>2, <1>3, <1>4

(* A call moves no handle; it runs through one that is allocated. *)
LEMMA CalculateInv ==
  ASSUME IndInv, NEW t \in Threads, NEW s \in Slots, Calculate(t, s)
  PROVE  IndInv'
<1> USE DEF IndInv, TypeOK, Calculate, owners
<1>1. TypeOK' /\ Histories'
      BY DEF Histories
<1>2. OwnedOnce'
      BY DEF OwnedOnce
<1>3. UserDataFreedOnce' /\ ResultOwnsForces'
      BY DEF UserDataFreedOnce, ResultOwnsForces
<1> QED BY <1>1, <1>2, <1>3

(* However a call ends, one tensor at most is left, in the result held. *)
LEMMA ReturnInv ==
  ASSUME IndInv, NEW t \in Threads, NEW f \in BOOLEAN,
         CallSucceeds(t, f) \/ CallFails(t, f) \/ DropResult(t)
  PROVE  IndInv'
<1> USE DEF IndInv, CallSucceeds, CallFails, DropResult, owners
<1>1. UNCHANGED owners /\ inside' \in [Threads -> Ptrs]
      BY DEF TypeOK
<1>2. held' \in [Threads -> BOOLEAN]
      BY DEF TypeOK
<1>3. tens' \in [Threads -> Nat] /\ ResultOwnsForces'
      BY DEF TypeOK, ResultOwnsForces, TensAfterThrow, TensAfterReturn
<1>4. OwnedOnce'
      BY <1>1 DEF TypeOK, OwnedOnce
<1>5. Histories' /\ UserDataFreedOnce'
      BY <1>1 DEF Histories, UserDataFreedOnce
<1>6. TypeOK'
      BY <1>1, <1>2, <1>3 DEF TypeOK
<1> QED BY <1>3, <1>4, <1>5, <1>6

LEMMA NextInv == IndInv /\ [Next]_vars => IndInv'
<1> SUFFICES ASSUME IndInv, [Next]_vars PROVE IndInv'
    OBVIOUS
<1>1. CASE Next
      BY <1>1, AdoptInv, MoveConstructInv, MoveAssignInv, DestroyInv,
         CalculateInv, ReturnInv DEF Next
<1>2. CASE UNCHANGED vars
      BY <1>2 DEF vars, IndInv, TypeOK, Histories, OwnedOnce, UserDataFreedOnce,
                  ResultOwnsForces
<1> QED BY <1>1, <1>2

(* The inductive invariant holds throughout: the ownership properties with *)
(* the fact that a cell is allocated at most once.                         *)
THEOREM Invariance == Spec => []IndInv
BY InitInv, NextInv, PTL DEF Spec

(* Every variable keeps its type: the counts of frees and of tensors never *)
(* go below zero, so nothing is freed that was not there.                  *)
THEOREM TypeCorrect == Spec => []TypeOK
<1>1. IndInv => TypeOK
      BY DEF IndInv
<1> QED BY <1>1, Invariance, PTL

(* The move-only classes of include/rgpot neither leak nor double-free,    *)
(* for any number of owners, handles and threads: each allocated handle    *)
(* has one owner, no object points to a freed one and no call goes through *)
(* one (potential.hpp:62-108, rpc_client.hpp:73-107).                      *)
THEOREM OwnershipSafe == Spec => []OwnedOnce
<1>1. IndInv => OwnedOnce
      BY DEF IndInv
<1> QED BY <1>1, Invariance, PTL

(* free_fn runs when its handle is freed, once, and for no other handle    *)
(* (potential.rs:91-99).                                                   *)
THEOREM UserDataSafe == Spec => []UserDataFreedOnce
<1>1. IndInv => UserDataFreedOnce
      BY DEF IndInv
<1> QED BY <1>1, Invariance, PTL

(* A forces tensor lives exactly as long as the CalcResult that holds it,  *)
(* whichever way the call that made it ends (types.rs:14-16).              *)
THEOREM ForcesSafe == Spec => []ResultOwnsForces
<1>1. IndInv => ResultOwnsForces
      BY DEF IndInv
<1> QED BY <1>1, Invariance, PTL
=============================================================================
