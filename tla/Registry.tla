------------------------------ MODULE Registry ------------------------------
(***************************************************************************)
(* registry<T> of PotHelpers.hpp: every potential object of a class links  *)
(* itself into a doubly linked list, and a static counter says how many    *)
(* there are.  Objects are destroyed in any order and their addresses are  *)
(* used again.                                                             *)
(***************************************************************************)
EXTENDS Integers, FiniteSets

CONSTANTS Objs,         \* addresses a potential object can live at
          null,         \* nullptr
          MaxBirths,    \* bound on the constructions
          CopyAssigns   \* does any client assign one potential to another?

ASSUME RegistryAssumption ==
  /\ null \notin Objs
  /\ MaxBirths \in Nat
  /\ CopyAssigns \in BOOLEAN

VARIABLES alive,        \* the addresses that hold a constructed object
          head, count,  \* the static members
          prev, next,   \* the links inside each object
          born, clock   \* history: when the object at an address was built

vars == <<alive, head, count, prev, next, born, clock>>

Init ==
  /\ alive = {}
  /\ head = null
  /\ count = 0
  /\ prev = [o \in Objs |-> null]
  /\ next = [o \in Objs |-> null]
  /\ born = [o \in Objs |-> 0]
  /\ clock = 0
-----------------------------------------------------------------------------
\* Both constructors push the object at the front, next->prev = head included.
PushFrontOneWay(o) ==
  /\ head' = o
  /\ next' = [next EXCEPT ![o] = head]
  /\ prev' = [prev EXCEPT ![o] = null]
PushFront(o) ==
  /\ head' = o
  /\ next' = [next EXCEPT ![o] = head]
  /\ prev' = [p \in Objs |-> IF p = o THEN null ELSE IF p = head THEN o ELSE prev[p]]

Birth(o) ==
  /\ o \notin alive
  /\ clock < MaxBirths
  /\ alive' = alive \cup {o}
  /\ clock' = clock + 1
  /\ born' = [born EXCEPT ![o] = clock + 1]

Construct(o) ==
  /\ Birth(o)
  /\ count' = count + 1
  /\ PushFront(o)

\* The copy is an instance of its own; nothing is taken from the original.
CopyConstructUncounted(o, from) ==
  /\ from \in alive
  /\ Birth(o)
  /\ UNCHANGED count
  /\ PushFront(o)
CopyConstruct(o, from) ==
  /\ from \in alive
  /\ Birth(o)
  /\ count' = count + 1
  /\ PushFront(o)

\* The destructor: prev->next = next, next->prev = prev, head = next.
Destroy(o) ==
  /\ o \in alive
  /\ alive' = alive \ {o}
  /\ count' = count - 1
  /\ next' = [p \in Objs |-> IF p = prev[o] THEN next[o] ELSE next[p]]
  /\ prev' = [p \in Objs |-> IF p = next[o] THEN prev[o] ELSE prev[p]]
  /\ head' = IF head = o THEN next[o] ELSE head
  /\ UNCHANGED <<born, clock>>

\* registry declares no copy assignment: the implicit one copies the links.
CopyAssign(o, from) ==
  /\ {o, from} \subseteq alive
  /\ o # from => CopyAssigns
  /\ prev' = [prev EXCEPT ![o] = prev[from]]
  /\ next' = [next EXCEPT ![o] = next[from]]
  /\ UNCHANGED <<alive, head, count, born, clock>>

Next ==
  \/ \E o \in Objs : Construct(o) \/ Destroy(o)
  \/ \E o, from \in Objs : CopyConstruct(o, from) \/ CopyAssign(o, from)

Spec == Init /\ [][Next]_vars
-----------------------------------------------------------------------------
Ptrs == Objs \cup {null}

TypeOK ==
  /\ alive \subseteq Objs
  /\ head \in Ptrs
  /\ count \in Nat
  /\ prev \in [Objs -> Ptrs]
  /\ next \in [Objs -> Ptrs]
  /\ born \in [Objs -> 0 .. MaxBirths]
  /\ clock \in 0 .. MaxBirths

Between(b, c) == {p \in alive : b < born[p] /\ born[p] < c}

(* PotHelpers.hpp:21-22: the list tracks all active instances.  Read from  *)
(* head by next it is the live objects, newest first, each exactly once,   *)
(* and prev reads it backwards: next is the youngest of the older objects, *)
(* prev the oldest of the newer ones.                                      *)
ListsInstances ==
  /\ head = null <=> alive = {}
  /\ head # null => head \in alive /\ \A p \in alive : born[p] <= born[head]
  /\ \A o \in alive :
       /\ next[o] = null => \A p \in alive : born[p] >= born[o]
       /\ next[o] # null => /\ next[o] \in alive
                            /\ born[next[o]] < born[o]
                            /\ Between(born[next[o]], born[o]) = {}
       /\ prev[o] = null => \A p \in alive : born[p] <= born[o]
       /\ prev[o] # null => /\ prev[o] \in alive
                            /\ born[prev[o]] > born[o]
                            /\ Between(born[o], born[prev[o]]) = {}

(* PotHelpers.hpp:26: count is the number of active instances, and as an   *)
(* unsigned counter it never goes below zero.                              *)
CountsInstances == count = Cardinality(alive)
=============================================================================
