------------------------------ MODULE Handles ------------------------------
(***************************************************************************)
(* The RAII classes of include/rgpot: PotentialHandle over                 *)
(* rgpot_potential_new / _calculate / _free, RpcClient over                *)
(* rgpot_rpc_client_new / _calculate / _free, and the CalcResult of their  *)
(* calls.                                                                  *)
(*                                                                         *)
(* A handle is a heap cell of the Rust core: a callback, the user_data     *)
(* passed to it and, optionally, a destructor for user_data; or an RPC     *)
(* client.  The C++ objects that own handles are moved, assigned and       *)
(* destroyed in any order, by several threads, while calls run.            *)
(***************************************************************************)
EXTENDS Integers

CONSTANTS Threads,
          Slots,     \* PotentialHandle and RpcClient objects
          Clients,   \* the RpcClient objects among them
          Cells,     \* handles of the Rust core, never used twice
          None       \* nullptr

ASSUME HandlesAssumption == None \notin Cells

VARIABLES slot,      \* handle_ of each object
          alloc,     \* cells that are allocated
          used,      \* cells that have ever been allocated
          strict,    \* cells whose calls leave forces just when they succeed
          owning,    \* cells with a free_fn and a user_data to free
          frees,     \* how often free_fn ran on the user_data of each cell
          inside,    \* the cell each thread's call goes through
          tens,      \* forces tensors each thread got and has not freed
          held       \* does the thread's CalcResult hold a forces tensor

vars == <<slot, alloc, used, strict, owning, frees, inside, tens, held>>
owners == <<slot, alloc, used, strict, owning, frees>>
calling == <<inside, tens, held>>

Init ==
  /\ slot = [s \in Slots |-> None]
  /\ alloc = {}
  /\ used = {}
  /\ strict = {}
  /\ owning = {}
  /\ frees = [p \in Cells |-> 0]
  /\ inside = [t \in Threads |-> None]
  /\ tens = [t \in Threads |-> 0]
  /\ held = [t \in Threads |-> FALSE]
-----------------------------------------------------------------------------
(* Ownership of handles.                                                   *)

\* The program keeps a handle alive while a call goes through it.
NotInUse(p) == \A t \in Threads : inside[t] # p

\* rgpot_potential_free and PotentialImpl::drop; rgpot_rpc_client_free.
FreeAlways(p) ==
  /\ alloc' = alloc \ {p}
  /\ frees' = IF p = None THEN frees ELSE [frees EXCEPT ![p] = @ + 1]
Free(p) ==
  /\ alloc' = alloc \ {p}
  /\ frees' = IF p \in owning THEN [frees EXCEPT ![p] = @ + 1] ELSE frees

\* rgpot_potential_new or rgpot_rpc_client_new, its result adopted by s.
Adopt(s, p) ==
  /\ slot[s] = None
  /\ p \notin used
  /\ slot' = [slot EXCEPT ![s] = p]
  /\ alloc' = alloc \cup {p}
  /\ used' = used \cup {p}

\* from_impl passes the trampoline and no free_fn: the caller owns the object.
FromImpl(s, p) ==
  /\ s \notin Clients
  /\ Adopt(s, p)
  /\ strict' = strict \cup {p}
  /\ UNCHANGED <<owning, frees, calling>>

\* from_callback passes a C callback and, if it likes, a free_fn.
FromCallback(s, p, hasFree) ==
  /\ s \notin Clients
  /\ Adopt(s, p)
  /\ owning' = IF hasFree THEN owning \cup {p} ELSE owning
  /\ UNCHANGED <<strict, frees, calling>>

\* The constructor of RpcClient; when there is no handle it throws and there
\* is no object.
Connect(s, p) ==
  /\ s \in Clients
  /\ Adopt(s, p)
  /\ strict' = strict \cup {p}
  /\ UNCHANGED <<owning, frees, calling>>

\* The two classes move alike, each among its own objects.
SameClass(d, s) == d # s /\ (d \in Clients <=> s \in Clients)

MoveConstructKeeping(d, s) ==
  /\ SameClass(d, s)
  /\ slot[d] = None
  /\ slot' = [slot EXCEPT ![d] = slot[s]]
  /\ UNCHANGED <<alloc, used, strict, owning, frees, calling>>
MoveConstruct(d, s) ==
  /\ SameClass(d, s)
  /\ slot[d] = None
  /\ slot' = [slot EXCEPT ![d] = slot[s], ![s] = None]
  /\ UNCHANGED <<alloc, used, strict, owning, frees, calling>>

\* operator=(&&): free, take over, clear; nothing at all on self-assignment.
MoveAssign(d, s) ==
  /\ SameClass(d, s)
  /\ slot[d] # None => NotInUse(slot[d])
  /\ Free(slot[d])
  /\ slot' = [slot EXCEPT ![d] = slot[s], ![s] = None]
  /\ UNCHANGED <<used, strict, owning, calling>>

Destroy(s) ==
  /\ slot[s] # None
  /\ NotInUse(slot[s])
  /\ Free(slot[s])
  /\ slot' = [slot EXCEPT ![s] = None]
  /\ UNCHANGED <<used, strict, owning, calling>>
-----------------------------------------------------------------------------
(* Calls.  A moved-from object's call is refused at once (CApi).           *)

Calculate(t, s) ==
  /\ inside[t] = None
  /\ slot[s] # None
  /\ inside' = [inside EXCEPT ![t] = slot[s]]
  /\ UNCHANGED <<owners, tens, held>>

\* The forces tensors of t after a call that left one in its output, or not.
\* A result is move-assigned over the caller's previous one, whose tensor is
\* freed; a throw unwinds the local CalcResult, which frees its own.
TensAfterThrowLeaking(t, hasForces) ==
  [tens EXCEPT ![t] = @ + (IF hasForces THEN 1 ELSE 0)]
TensAfterThrow(t, hasForces) == tens
TensAfterReturn(t, hasForces) ==
  [tens EXCEPT ![t] = @ + (IF hasForces THEN 1 ELSE 0) - (IF held[t] THEN 1 ELSE 0)]

\* Success.  The trampoline always sets output->forces, and so does a remote
\* call; a C callback may not.
CallSucceeds(t, hasForces) ==
  /\ inside[t] # None
  /\ inside[t] \in strict => hasForces
  /\ inside' = [inside EXCEPT ![t] = None]
  /\ tens' = TensAfterReturn(t, hasForces)
  /\ held' = [held EXCEPT ![t] = hasForces]
  /\ UNCHANGED owners

\* Failure: positions NULL, or an exception caught by the trampoline before
\* output->forces is set; a remote call sets it last; a C callback may have
\* set it.  check_status throws.
CallFails(t, hasForces) ==
  /\ inside[t] # None
  /\ inside[t] \in strict => ~hasForces
  /\ inside' = [inside EXCEPT ![t] = None]
  /\ tens' = TensAfterThrow(t, hasForces)
  /\ UNCHANGED <<owners, held>>

\* ~CalcResult.
DropResultTwice(t) ==
  /\ inside[t] = None
  /\ held[t]
  /\ tens' = [tens EXCEPT ![t] = @ - 1]
  /\ UNCHANGED <<owners, inside, held>>
DropResult(t) ==
  /\ inside[t] = None
  /\ held[t]
  /\ held' = [held EXCEPT ![t] = FALSE]
  /\ tens' = [tens EXCEPT ![t] = @ - 1]
  /\ UNCHANGED <<owners, inside>>

Next ==
  \/ \E s \in Slots, p \in Cells :
       FromImpl(s, p) \/ Connect(s, p) \/ \E f \in BOOLEAN : FromCallback(s, p, f)
  \/ \E d, s \in Slots : MoveConstruct(d, s) \/ MoveAssign(d, s)
  \/ \E s \in Slots : Destroy(s)
  \/ \E t \in Threads, s \in Slots : Calculate(t, s)
  \/ \E t \in Threads, f \in BOOLEAN : CallSucceeds(t, f) \/ CallFails(t, f)
  \/ \E t \in Threads : DropResult(t)

Spec == Init /\ [][Next]_vars
-----------------------------------------------------------------------------
Ptrs == Cells \cup {None}

TypeOK ==
  /\ slot \in [Slots -> Ptrs]
  /\ alloc \subseteq Cells /\ used \subseteq Cells /\ strict \subseteq Cells
  /\ owning \subseteq Cells
  /\ frees \in [Cells -> Nat]
  /\ inside \in [Threads -> Ptrs]
  /\ tens \in [Threads -> Nat]
  /\ held \in [Threads -> BOOLEAN]

(* Move-only ownership (potential.hpp:62-108, rpc_client.hpp:73-107):      *)
(* every allocated handle is owned by exactly one object and no object     *)
(* points to a freed one, so nothing leaks and nothing dangles; a call     *)
(* only goes through an allocated handle, given that owners free none that *)
(* is in use (NotInUse).                                                   *)
OwnedOnce ==
  /\ \A p \in alloc : \E s \in Slots : slot[s] = p
  /\ \A s, d \in Slots : slot[s] # None /\ slot[s] = slot[d] => s = d
  /\ \A s \in Slots : slot[s] # None => slot[s] \in alloc
  /\ \A t \in Threads : inside[t] # None => inside[t] \in alloc

(* free_fn runs exactly once for each handle that has one, when the handle *)
(* is freed, and never for an object the caller owns (potential.rs:91-99,  *)
(* potential.hpp:148 "caller owns impl").                                  *)
UserDataFreedOnce ==
  \A p \in Cells :
    frees[p] = IF p \in owning /\ p \notin alloc THEN 1 ELSE 0

(* types.rs:14-16: the caller owns the forces after a call.  Whatever way  *)
(* its calls end, a thread's only live forces tensor is the one in the     *)
(* CalcResult it holds.                                                    *)
ResultOwnsForces == \A t \in Threads : tens[t] = IF held[t] THEN 1 ELSE 0
=============================================================================
