------------------------------ MODULE Tensors ------------------------------
(***************************************************************************)
(* DLPack tensors and the objects that own them: create_borrowed_tensor,   *)
(* create_owned_f64_tensor and their deleters (tensor.rs), the three       *)
(* tensors of an InputSpec, the forces tensor of a CalcResult (types.hpp)  *)
(* and the trampoline that reads the ones and makes the other.             *)
(*                                                                         *)
(* Tensors are numbered in the order they are made, and the memory a       *)
(* tensor describes goes by the number of the tensor.                      *)
(***************************************************************************)
EXTENDS Integers, Sequences, FiniteSets

CONSTANTS Inputs,     \* InputSpec objects and rgpot_force_input_t of C programs
          Results,    \* CalcResult objects
          Atoms,      \* atom counts passed to the pointer constructor
          VecLens,    \* lengths of the vector passed to the other one
          MaxTensors  \* bound on the tensors made

ASSUME TensorsAssumption ==
  Atoms \subseteq Nat /\ VecLens \subseteq Nat /\ MaxTensors \in Nat

VARIABLES made,       \* how many tensors have been made
          desc,       \* what the DLManagedTensorVersioned of each one says
          live,       \* the ones that have not been freed
          mem,        \* the ones whose data is allocated
          inp,        \* the input_ and n_atoms_ of each InputSpec
          res         \* the forces of each CalcResult, and their input

vars == <<made, desc, live, mem, inp, res>>

Ids == 1 .. MaxTensors
null == 0
-----------------------------------------------------------------------------
(* tensor.rs.                                                              *)

\* compute_row_major_strides: from the last dimension to the first.
StridesColumnMajor(shape) ==
  LET st[i \in DOMAIN shape] == IF i = 1 THEN 1 ELSE st[i - 1] * shape[i - 1]
  IN st
StridesTooFew(shape) == [i \in 1 .. Len(shape) - 1 |-> shape[i + 1]]
Strides(shape) ==
  LET st[i \in DOMAIN shape] ==
        IF i = Len(shape) THEN 1 ELSE st[i + 1] * shape[i + 1]
  IN st

\* len is the number of elements the memory behind the tensor really has.
Tensor(dtype, shape, len, deleter) ==
  [dtype |-> dtype, shape |-> shape, strides |-> Strides(shape), len |-> len,
   deleter |-> deleter]

Borrowed(dtype, shape, len) == Tensor(dtype, shape, len, "borrowed")
Owned(shape) == Tensor("f64", shape, shape[1] * shape[2], "owned")

\* The exported constructors.  Of the borrowed arrays the caller states the
\* extents; len elements are really there.
tensor_cpu_f64_2d(len, rows, cols) == Borrowed("f64", <<rows, cols>>, len)
tensor_cpu_i32_1d(len, n) == Borrowed("i32", <<n>>, len)
tensor_cpu_f64_matrix3(len) == Borrowed("f64", <<3, 3>>, len)
tensor_owned_cpu_f64_2d(rows, cols) == Owned(<<rows, cols>>)

\* rgpot_tensor_free on a set of pointers: the deleter of each frees the
\* metadata, and the data only if it is the tensor's own.
TensorFree(ts) ==
  /\ live' = live \ ts
  /\ mem' = mem \ {t \in ts \ {null} : desc[t].deleter = "owned"}

\* The validators, as conditions.
ValidPositions(t) ==
  /\ desc[t].dtype = "f64"
  /\ Len(desc[t].shape) = 2
  /\ desc[t].shape[2] = 3
ValidAtomicNumbers(t, n) == desc[t].dtype = "i32" /\ desc[t].shape = <<n>>
ValidBox(t) == desc[t].dtype = "f64" /\ desc[t].shape = <<3, 3>>
-----------------------------------------------------------------------------
(* Objects.  exists tells a constructed object from raw storage.           *)

NoInput == [exists |-> FALSE, pos |-> null, atm |-> null, box |-> null, n |-> 0]
NoResult == [exists |-> FALSE, forces |-> null, n |-> 0]

Pointers(i) == {inp[i].pos, inp[i].atm, inp[i].box}

Init ==
  /\ made = 0
  /\ desc = [t \in Ids |-> Borrowed("none", <<>>, 0)]
  /\ live = {}
  /\ mem = {}
  /\ inp = [i \in Inputs |-> NoInput]
  /\ res = [r \in Results |-> NoResult]

\* rgpot_force_input_create for n atoms, over a positions array of p doubles.
CreateInput(i, n, p) ==
  /\ ~inp[i].exists
  /\ made + 3 <= MaxTensors
  /\ made' = made + 3
  /\ desc' = [desc EXCEPT ![made + 1] = tensor_cpu_f64_2d(p, n, 3),
                          ![made + 2] = tensor_cpu_i32_1d(n, n),
                          ![made + 3] = tensor_cpu_f64_matrix3(9)]
  /\ live' = live \cup {made + 1, made + 2, made + 3}
  /\ mem' = mem \cup {made + 1, made + 2, made + 3}
  /\ inp' = [inp EXCEPT ![i] = [exists |-> TRUE, pos |-> made + 1,
                                atm |-> made + 2, box |-> made + 3, n |-> n]]
  /\ UNCHANGED res

\* The two constructors: raw arrays, and vectors.  The second takes the
\* number of atoms from the positions, rounding down.
InputFromArrays(i, n) == CreateInput(i, n, 3 * n)
InputFromVectors(i, p) == CreateInput(i, p \div 3, p)

\* ~InputSpec: rgpot_force_input_free.
DestroyInput(i) ==
  /\ inp[i].exists
  /\ TensorFree(Pointers(i))
  /\ inp' = [inp EXCEPT ![i] = NoInput]
  /\ UNCHANGED <<made, desc, res>>

\* What both moves leave of the other: its pointers are cleared, n_atoms_ stays.
MovedFromKeepingBox(x) == [x EXCEPT !.pos = null, !.atm = null]
MovedFrom(x) == [x EXCEPT !.pos = null, !.atm = null, !.box = null]

MoveConstructInput(d, s) ==
  /\ ~inp[d].exists
  /\ inp[s].exists
  /\ inp' = [inp EXCEPT ![d] = inp[s], ![s] = MovedFrom(inp[s])]
  /\ UNCHANGED <<made, desc, live, mem, res>>

MoveAssignInput(d, s) ==
  /\ d # s
  /\ inp[d].exists /\ inp[s].exists
  /\ TensorFree(Pointers(d))
  /\ inp' = [inp EXCEPT ![d] = inp[s], ![s] = MovedFrom(inp[s])]
  /\ UNCHANGED <<made, desc, res>>
\* A C program's rgpot_force_input_free on a structure it keeps, and may free
\* again.
FreeInput(i) ==
  /\ inp[i].exists
  /\ TensorFree(Pointers(i))
  /\ inp' = [inp EXCEPT ![i] = MovedFrom(inp[i])]
  /\ UNCHANGED <<made, desc, res>>
-----------------------------------------------------------------------------
(* A call through the trampoline, into the CalcResult r.                   *)

\* The forces tensor the trampoline leaves: a copy of its local vector, which
\* is gone when it returns.
ForcesBorrowed(n) == [tensor |-> tensor_cpu_f64_2d(3 * n, n, 3), mem |-> FALSE]
ForcesTransposed(n) == [tensor |-> tensor_owned_cpu_f64_2d(3, n), mem |-> TRUE]
Forces(n) == [tensor |-> tensor_owned_cpu_f64_2d(n, 3), mem |-> TRUE]

\* n_atoms is the first extent of the positions.  r is new, or the result is
\* move-assigned to it and its previous forces are freed.
Calculate(i, r) ==
  LET n == desc[inp[i].pos].shape[1]
      old == {res[r].forces} \ {null}
      f == Forces(n)
  IN /\ inp[i].exists
     /\ inp[i].pos # null
     /\ made < MaxTensors
     /\ made' = made + 1
     /\ desc' = [desc EXCEPT ![made + 1] = f.tensor]
     /\ live' = (live \ old) \cup {made + 1}
     /\ mem' = (mem \ old) \cup (IF f.mem THEN {made + 1} ELSE {})
     /\ res' = [res EXCEPT ![r] = [exists |-> TRUE, forces |-> made + 1,
                                   n |-> inp[i].n]]
     /\ UNCHANGED inp

\* A moved-from input: INVALID_PARAMETER, and the caller's result stays.
CalculateMovedFrom(i) ==
  /\ inp[i].exists
  /\ inp[i].pos = null
  /\ UNCHANGED vars

DestroyResult(r) ==
  /\ res[r].exists
  /\ TensorFree({res[r].forces})
  /\ res' = [res EXCEPT ![r] = NoResult]
  /\ UNCHANGED <<made, desc, inp>>

MoveConstructResult(d, s) ==
  /\ ~res[d].exists
  /\ res[s].exists
  /\ res' = [res EXCEPT ![d] = res[s], ![s].forces = null]
  /\ UNCHANGED <<made, desc, live, mem, inp>>

MoveAssignResult(d, s) ==
  /\ d # s
  /\ res[d].exists /\ res[s].exists
  /\ TensorFree({res[d].forces})
  /\ res' = [res EXCEPT ![d] = res[s], ![s].forces = null]
  /\ UNCHANGED <<made, desc, inp>>

\* forces_data: the number of elements is the product of the extents.
Product(shape) ==
  LET pr[i \in 0 .. Len(shape)] == IF i = 0 THEN 1 ELSE pr[i - 1] * shape[i]
  IN pr[Len(shape)]

Next ==
  \/ \E i \in Inputs : \/ \E n \in Atoms : InputFromArrays(i, n)
                       \/ \E p \in VecLens : InputFromVectors(i, p)
                       \/ DestroyInput(i) \/ FreeInput(i)
  \/ \E d, s \in Inputs : MoveConstructInput(d, s) \/ MoveAssignInput(d, s)
  \/ \E i \in Inputs, r \in Results : Calculate(i, r)
  \/ \E i \in Inputs : CalculateMovedFrom(i)
  \/ \E r \in Results : DestroyResult(r)
  \/ \E d, s \in Results : MoveConstructResult(d, s) \/ MoveAssignResult(d, s)

Spec == Init /\ [][Next]_vars
-----------------------------------------------------------------------------
TensorType == [dtype : {"none", "f64", "i32"}, shape : Seq(Nat),
               strides : Seq(Nat), len : Nat, deleter : {"borrowed", "owned"}]

TypeOK ==
  /\ made \in 0 .. MaxTensors
  /\ desc \in [Ids -> TensorType]
  /\ \A t \in Ids : Len(desc[t].shape) = Len(desc[t].strides)
  /\ live \subseteq 1 .. made
  /\ mem \subseteq 1 .. made
  /\ inp \in [Inputs -> [exists : BOOLEAN, pos : Ids \cup {null},
                         atm : Ids \cup {null}, box : Ids \cup {null}, n : Nat]]
  /\ res \in [Results -> [exists : BOOLEAN, forces : Ids \cup {null}, n : Nat]]

Holders(t) ==
  {h \in Inputs \X {"pos", "atm", "box"} : inp[h[1]][h[2]] = t}
    \cup {<<r, "forces">> : r \in {x \in Results : res[x].forces = t}}

(* types.rs:11-17 and the move-only classes: a tensor is freed exactly when *)
(* the one object that points to it lets go of it.  No pointer dangles, no  *)
(* tensor is owned twice, none is leaked.                                   *)
TensorsOwnedOnce ==
  \A t \in 1 .. made :
    Cardinality(Holders(t)) = IF t \in live THEN 1 ELSE 0

(* tensor.rs:9-11: a borrowed tensor never frees the caller's array, an     *)
(* owned one takes its data with it, and no live tensor points to memory    *)
(* that is gone (the trampoline's vector is).                               *)
DataOutlivesTensor ==
  \A t \in 1 .. made :
    t \in mem <=> (t \in live \/ desc[t].deleter = "borrowed")

\* The index tuples of a tensor and the element each one addresses.
Indices(shape) ==
  {x \in [DOMAIN shape -> UNION {0 .. shape[i] - 1 : i \in DOMAIN shape}] :
     \A i \in DOMAIN shape : x[i] < shape[i]}
Offset(d, x) ==
  LET sum[i \in 0 .. Len(d.shape)] ==
        IF i = 0 THEN 0 ELSE sum[i - 1] + x[i] * d.strides[i]
  IN sum[Len(d.shape)]

(* The strides address every element of a compact array exactly once, last *)
(* index fastest, and forces_vec reads as many as there are: no index of a *)
(* tensor leaves the array behind it, vectors that are no multiple of      *)
(* three and empty systems included.  The species array is taken to have   *)
(* one entry per atom, which the vector constructor does not check.        *)
AddressesItsArray ==
  \A t \in live :
    LET d == desc[t]
        ix == Indices(d.shape)
    IN /\ Product(d.shape) <= d.len
       /\ {Offset(d, x) : x \in ix} = 0 .. Product(d.shape) - 1
       /\ Cardinality(ix) = Product(d.shape)
       /\ \A x, y \in ix : Len(d.shape) = 2 /\ x[1] < y[1] => Offset(d, x) < Offset(d, y)

(* types.rs:19-26: whatever was moved where, an input that has tensors has *)
(* all three, of the shapes and types the validators demand and for        *)
(* n_atoms_ atoms, and a result's forces are those of as many atoms.       *)
ShapesAgree ==
  /\ \A i \in Inputs : inp[i].pos # null =>
       /\ inp[i].atm # null /\ inp[i].box # null
       /\ ValidPositions(inp[i].pos) /\ desc[inp[i].pos].shape[1] = inp[i].n
       /\ ValidAtomicNumbers(inp[i].atm, inp[i].n)
       /\ ValidBox(inp[i].box)
  /\ \A i \in Inputs : inp[i].pos = null => inp[i].atm = null /\ inp[i].box = null
  /\ \A r \in Results : res[r].forces # null =>
       desc[res[r].forces].shape = <<res[r].n, 3>>
=============================================================================
