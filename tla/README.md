# A TLA+ model of rgpot

rgpot evaluates interatomic potentials (energy and forces of a set of atoms)
in process, through a C ABI, and over Cap'n Proto RPC. This directory models
the parts that have state, that share memory across a language boundary, or
that talk to each other, and checks and proves what must hold of them. The
physics is abstracted: an energy or a force array is named by the configuration
it belongs to, so that "the right answer" can still be told from a wrong one.

Paths below are relative to the repository root (`src/` in `PROJECT.json`).

## 1. Inventory

| Component | State | Operations | Interacts with | What makes it hard |
|---|---|---|---|---|
| Rust RPC client (`rgpot-core/src/rpc/client.rs`, `c_api/rpc.rs`, `include/rgpot/rpc_client.hpp`) | runtime and address; per call a connection; the caller's output struct; `LAST_ERROR` of the thread | new, calculate, free | RPC server over TCP | no timeout, no keepalive, no retry, connection may die after delivery, noticed or not, output half written on failure |
| Rust RPC server (`rgpot-core/src/rpc/server.rs`) | listener, one task per connection with a copy of the callback, tensors of the running handler | start (blocks), accept, dispatch, callback, reply | client, potential handle | one thread for everything; accept failure and crash in mid-request; raw callback pointers |
| C bridge and `potserv` (`CppCore/rgpot/rpc/pot_bridge.cc`, `server.cpp`) | one connection per client for life, `last_error`, caller-owned buffers | init, free, calculate, last error; serve | either server | lazy connection, stale error text, buffers reused across failures |
| Potential handles and RPC clients as objects (`include/rgpot/potential.hpp`, `rpc_client.hpp`, `rgpot-core/src/potential.rs`, `c_api/potential.rs`) | boxed `PotentialImpl` or `RpcClient`, `user_data` with its destructor | create, move, free, calculate, callback | every user of a potential | ownership across C++ moves, exceptions between allocation and return, shared handles |
| Errors and panics at the C boundary (`rgpot-core/src/status.rs`, `c_api/*.rs`, `include/rgpot/errors.hpp`) | one `CString` per thread, pointers into it held by C programs, what each thread is inside of | every exported function, as a caller sees it fail | everything above | calls nest through callbacks and share the slot; tokio runtimes do not nest; a panic must not leave the library |
| DLPack tensors and inputs (`rgpot-core/src/tensor.rs`, `c_api/types.rs`, `include/rgpot/types.hpp`) | tensor metadata, borrowed or owned data | create, move, free, read | all callbacks | borrowed memory, deleters, strides |
| Instance registry (`CppCore/rgpot/PotHelpers.hpp`) | intrusive doubly linked list, `count`, `forceCalls` | construct, copy, assign, destroy | every C++ potential | any order of destruction, reused addresses, implicit assignment |
| Potential dispatch and cache (`CppCore/rgpot/Potential.hpp`, `PotentialCache.*`) | RocksDB on disk, `db_`, `own_db_`, `_cache` | open, set_db, close, find, add, operator() | client's own database, other processes | locks, restarts, ignored failures, key collisions |
| LJ and CuH2 potentials | `cuttOffU` and parameters | forceImpl | dispatch | uninitialised member, inputs rejected by exception |
| Matrix adapters, CuH2 geometry, Python scripts, build | none of their own, or scripts | | | not modelled, see section 8 |

Correctness, component by component:

* RPC stacks: a call ends once, with the energy and forces of its own input or
  with an error; the potential runs at most once for it; it returns unless its own
  connection was cut without notice; the reason of a failure is true; no tensor leaks; no freed potential is called.
* Handles and tensors: exactly one owner, freed exactly once, no dangling
  pointer, data as long-lived as the tensor that shows it.
* Errors: a failing status comes with its own message, pointers to a message stay
  good as long as documented, no panic crosses the boundary.
* Registry: the list is the set of live objects, in order.
* Cache: a cached answer is the answer that would have been computed; databases
  are held exactly as long as somebody uses them.

`PROJECT.json` lists the hazards behind these, each at its line, with the
properties that cover it or the reason why none does.

## 2. Modules

| Module | Models | Proofs | Runs |
|---|---|---|---|
| `PotentialService` | abstract: what a remote potential promises | `PotentialServiceProofs` | (refined by the next two) |
| `RpcService` | Rust client, connection, Rust server | `RpcServiceProofs` | `rpc` |
| `PotBridge` | C bridge, connection, `potserv` or the Rust server's answers | `PotBridgeProofs` | `bridge` |
| `Handles` | `PotentialHandle`, `RpcClient`, callbacks, results | `HandlesProofs` | `handles` |
| `CApi` | `LAST_ERROR`, `rgpot_last_error`, `catch_unwind`, nested calls | `CApiProofs` | `capi`, `capi_error`, `capi_panic` |
| `Tensors` | DLPack constructors and deleters, `InputSpec`, `CalcResult` | `TensorsProofs` | `tensors` |
| `Registry` | `registry<T>` | `RegistryProofs` | `registry`, `registry_assign` |
| `PotentialCache` | `Potential::operator()`, `PotentialCache`, what LJ and CuH2 results depend on | `PotentialCacheProofs` | `cache`, `cache_key`, `cache_cutoff` |

`MC*` modules only give the constants values. Definitions next to a mapped one
with the same parameters and a descriptive suffix (`FreedOnSuccess`,
`KeyOverwritten`, ...) are plausible mistakes in that piece of code; substituted
for it they must break the property listed with them in `PROJECT.json`.

### State and actions against the code

**RpcService.** `pc[t]` is where `calculate_async` is: `connect` up to
`TcpStream::connect`, `await` at `request.send().promise.await`. `Calculate`,
`CalculateNull` (a NULL client, input or output) and `CalculateRejected` are the ways
`rgpot_rpc_calculate` begins;
`Connect`/`ConnectFails` the two results of connecting; `Receive` everything
after the response, in the order of the code (energy first, then the length
check, then the forces tensor); `Disconnected` the failed promise. On the server
`Accept` and `Dispatch` need `busy = None`, because the accept loop, the tasks and
the callback share one thread, and `CallbackReturns` is the rest of the handler.
`DropConnections` is what dropping the listener and the `LocalSet` does, used by
`AcceptFails` and `ServerCrash`. A response that was not flushed may be lost.
`LoseConnection` is the network's. A connection ends in one of two ways (`Ends`):
`down`, where both ends see it, or `cut`, where no FIN or RST reaches the client (a
network partition, a powered-off host). The code sets no timeout and no keepalive
on its sockets, so nothing tells a client of a cut; it may still turn into a loss the
client sees. Errors of the server's host are one reason, `server_start`. A successful callback may leave no forces, as
the callback type allows.

**PotBridge.** `conn[t]` is the one connection of a `PotClient`: `pending` from
`pot_client_init` until the first call, then `up`, then possibly `broken`, or `cut`
without the client's knowing, for good: a request sent into a cut connection
arrives nowhere. `Receive` writes `out_energy` before the size check, as the code does.
`srv` says which server runs, `met` which kinds have run so far (a history
variable: energy and forces are only promised to match as long as every server
was `potserv`); the answers of the Rust server include a result without forces.

**Handles.** `slot` holds the `handle_` of every `PotentialHandle` and `RpcClient`
object (the two move alike, each among its own class), `inside` the handle a
thread's call goes through. A handle is not freed during a call through it: C++
callers must see to that, and the model gives them that discipline. Two threads
may call through one handle.

**CApi.** `stack[t]` is what a thread is inside of: its program, a callback of
`rgpot_potential_calculate`, the accept loop of `rgpot_rpc_server_start`, a
callback of that server. User code runs in all of them but the accept loop and
may call any exported function there. `text` is the heap of `CString`s, `slot` the
`LAST_ERROR` of each thread, and `ptr` a pointer some code got from
`rgpot_last_error`, `seen` what it read through it; every call the code makes ends
the pointer's validity, as the header says, and so drops `ptr`. A status is named
for what went wrong. `Outcomes` is what a callback may return: success, the failure of
its last call (an exception the trampoline turns into a status), or a failure of
its own. `InRuntime` is tokio's rule that a thread inside a runtime may neither
block on another nor drop one; both panic, the first inside `catch_unwind`
(`RpcCalculate`, `ServerStartFails`), the second in `ClientFree` outside of it. Starting
and dropping runtimes, binding and accepting may fail at any time.

**Tensors.** A tensor is a number; `desc` is its metadata, `live` says whether
the metadata is allocated, `mem` whether its data is. A recursive function
computes the strides as `compute_row_major_strides` does. `FreeInput` is the C
program's `rgpot_force_input_free`, which leaves a structure that may be freed
again.

**Registry.** An object is its address, so addresses are used again after
destruction. `born` and `clock` are history variables: they order the live
objects, and the list is specified in terms of that order. `CopyAssigns` enables
the assignment the compiler generates.

**PotentialCache.** XXH3 is taken as ideal; the XOR of ideal hashes is the
symmetric difference of the sets of hashed byte strings. A database on disk
survives `Restart`, the static `forceCalls` does not. `Get` may fail on a key that is
there, which the code treats as a miss, and `SetDb` may be given no database. `cuttOffU` is chosen arbitrarily per object, since no
constructor sets it. A cache stays in existence while it is attached, and the
client's database while a cache refers to it: both pointers are raw and that is
the client's part of the contract.

## 3. Runs

| Run | Instance | Shows |
|---|---|---|
| `rpc` | 2 callers, 2 calls between them in any split, inputs of 1 and of 0 atoms on CPU and one on GPU, 2 potentials | refinement of `PotentialService`, no leak, true reasons, no callback of a freed potential, and that every call returns whose own connection is not cut without notice: with the server crashing and coming back while one caller's callback blocks the other, and with a retry that meets the abandoned request of the first attempt |
| `bridge` | 2 callers, 2 calls between them, inputs that are good, empty or rejected by the potential, both servers, 2 clients each | error text, buffers, new client after a loss, refinement, every call returns whose connection is not cut without notice |
| `handles` | 2 threads, 2 `PotentialHandle`s, 2 `RpcClient`s, 4 handles | ownership of handles, `user_data` and forces |
| `capi` | 2 threads, 3 frames deep, 3 string addresses | pointers and messages across nested calls, callbacks and servers |
| `tensors` | 2 inputs, 2 results, 9 tensors; 0 and 2 atoms, and a vector of 4 doubles | ownership, lifetime, addressing and shapes of tensors |
| `registry` | 4 addresses, 6 constructions | list and count under every order |
| `cache` | a CuH2 and an LJ potential, 2 caches on 1 path, 4 configurations, 2 computations of each class | locks and pointers, entry lengths, transparency |
| `capi_error`, `capi_panic`, `registry_assign`, `cache_key`, `cache_cutoff` | small | the disagreements of section 7 |

Why the bounds are enough. Each interesting event needs few actors: one caller
in the callback and one waiting (2 callers), one abandoned request and one new
one (2 calls), one potential freed and one new (2 potentials), one object in the
middle of a list with a neighbour on both sides and one address used again (4
addresses, 6 births), one cache holding the lock and one refused (2 caches), a
server whose callback calls a potential whose callback fails (3 frames), a new
string while both threads keep theirs (3 addresses).
Three tensors make an input, so nine are two inputs and three results, or three
inputs. `MaxCalls`, `MaxTotal` (the calls of all callers together), `MaxPots`, `MaxDepth`, `MaxInits`, `MaxBirths` and `MaxTensors` only bound
how often something happens. What is proved (section 5) holds for every value.
`registry` and `tensors` do not check for deadlock, a bounded number of births
runs out, nor does `capi`, where a panic that gets out stops the process.

Symmetry is used only where no liveness property is checked.

## 4. Fairness

`RpcService!Fairness`: a thread inside `calculate` keeps running (it is blocked
in `block_on`, which polls whatever is ready); tokio polls the accept loop and
every ready task of the `LocalSet`; a callback returns. `PotBridge!Fairness` is
the same for the kj event loop. All of it is weak fairness. Nothing makes a
caller call, a host start a server, a server accept forever, or the network
stay up. A call still returns where the server crashes, its accept loop fails or a
connection is closed or reset, because the operating system then ends the wait.
It does not return where its own connection is cut and nothing says so: no fairness
is assumed of the network that would turn `cut` into `down` (or `broken`), since
neither `client.rs:115-119` nor `pot_bridge.cc:142` has a timeout or keepalive that
would. `CallsReturn` and `CalculateReturns` therefore say that every call returns
unless its own connection is cut: nobody else waits, in particular no caller is
held up by another one's dead connection. That a callback returns is an assumption
about the client's potential, and a necessary one: the code has no timeout, so
one that hangs blocks every caller of that server.

## 5. Proofs

All theorems hold for every value of the constants that satisfies the named
assumptions (`RpcAssumption`, `BridgeAssumption`, `HandlesAssumption`, `CApiAssumption`,
`TensorsAssumption`, `RegistryAssumption`, `CacheAssumption`), which only say that bounds are
natural numbers, that inputs have their type and that `None`, `null` and `Host` are
distinct from the things they are not. Every invariant of every passing run is a
theorem, and so are the refinements and the action property of `bridge`. In each
module `Invariance` states the inductive invariant and the other theorems follow
from it.

| Module | Theorem | States |
|---|---|---|
| `PotentialServiceProofs` | `PromiseKept`, `AtMostOneEvaluation`, `AnswersStay` | `Promise`, `EvaluatedOnce`, `AnswersFinal` |
| `RpcServiceProofs` | `TypeCorrect`, `CallbackSafe`, `HandlerFreesAll`, `FailureLeavesNothing`, `ReasonIsTrue`, `Refinement`, `AnswersAreOwn` | `TypeOK`, `NoUseAfterFree`, `HandlerLeaksNothing`, `ErrorOwnsNothing`, `ReasonTellsEvaluation`, `ImplementsService`, `SuccessIsOwnAnswer` |
| `PotBridgeProofs` | `TypeCorrect`, `MessageIsCurrent`, `PairsKept`, `ForcesKept`, `Refinement`, `AnswersAreOwn` | `TypeOK`, `ErrorTextIsCurrent`, `PotservKeepsPairs`, `FailureKeepsForces`, `ImplementsService`, `SuccessIsOwnAnswer` |
| `HandlesProofs` | `TypeCorrect`, `OwnershipSafe`, `UserDataSafe`, `ForcesSafe` | `TypeOK`, `OwnedOnce`, `UserDataFreedOnce`, `ResultOwnsForces` |
| `CApiProofs` | `TypeCorrect`, `PointersStayValid`, `ErrorsReachTheirCaller` | `TypeOK`, `PointersValid`, `RootCauseReported` |
| `TensorsProofs` | `TypeCorrect`, `OwnedOnce`, `DataLives`, `ShapesStayValid`, `LayoutCorrect` | `TypeOK`, `TensorsOwnedOnce`, `DataOutlivesTensor`, `ShapesAgree`, `AddressesItsArray` |
| `RegistryProofs` (no copy assignment) | `TypeCorrect`, `RegistryCorrect`, `CountCorrect` | `TypeOK`, `ListsInstances`, `CountsInstances` |
| `PotentialCacheProofs` | `TypeCorrect`, `DatabasesHeld`; under `PartsApart`: `CacheCorrect`, `HitsFit`, `InitialisedAgree` | `TypeOK`, `HandlesValid`, `CacheTransparent`, `HitFits`, `InstancesAgree` |

**PotentialServiceProofs.** What the abstract service promises follows from it alone:
an answer belongs to the input of a call that has ended and was evaluated
exactly once, nothing is evaluated twice or before it is called for, and an
answer stays until its caller calls again. The invariant adds that a pending
call has a number, which its evaluation is counted under.

**RpcServiceProofs.** None of the safety properties is inductive. `IndInv` adds

* `InvCalls`: a call in progress has a number and an input, and its output is
  untouched;
* `InvUnused`: nothing of a connection exists before its call has connected (so a
  call that never connected was not and will not be evaluated);
* `InvOnce`: a request is undispatched, or running, or answered, one after the
  other (so at most one evaluation);
* `InvWire` and `InvAwait`: what travels on a connection belongs to the input the
  connection carries, which is the caller's argument while it waits;
* `InvAnswer`: a success holds the caller's own energy and forces;
* `InvTasks`: tasks exist only inside the accept loop that spawned them and
  dispatch to its potential.

One lemma per action shows that it is preserved. `Refinement` (`Spec => ImplementsService`)
maps each action to a step of `PotentialService` under `IndInv`: a refused call to
`InvokeAndFail`, `Calculate` to `Invoke`, `Dispatch` to `Evaluate`, `Receive` to
`Succeed` or `Fail`, a failed connect or a lost connection to `Fail`, and all other
actions to a stutter. `AnswersAreOwn` instantiates `PotentialServiceProofs` under the
same mapping and reads its promise back in the variables of the code: `RGPOT_SUCCESS`
means the caller's own result, from exactly one evaluation.

**PotBridgeProofs.** The same argument for a connection that outlives its calls, so
that a request is named by the call and not by the connection: `InvUnsent` (nothing
of a call is on the network before it was sent), `InvOnce`, `InvWire` (every reply is
of the input that was sent), `InvAnswer`. `MessageIsCurrent` needs `InvCalls`, that
`last_error` is empty throughout a call; `PairsKept` needs `InvPotserv`, that as long
as only `potserv` has run every result on its way fits the caller's array.
`ForcesKept` is an action property and looks at `Receive` alone. The refinement
maps `Serve` to `Evaluate`, or to a stutter where the server refuses the request without
running the potential.

**RegistryProofs.** Without copy assignment the list is exactly the live objects,
newest first, and `count` their number. The invariant adds that live objects have
different birth numbers, none above the clock, and that `alive` is finite.
Destruction is the interesting case: the neighbours of the removed object become
each other's.

**HandlesProofs.** One owner per handle, no dangling handle, `free_fn` exactly once,
forces exactly as long as their result, for any number of threads, owners and
handles. The properties are inductive together: that a move keeps one owner needs
that there was one.

**CApiProofs.** `TypeOK`, `PointersValid` and `RootCauseReported` for any threads,
addresses and depth. The invariant adds that every stack starts with the program,
so that calls return to somewhere, and `ServingHoldsNoPointer`: a failing `accept`
stores a message without any call of the thread's own code, and only because the
thread has no pointer then does none dangle. `FailKeeps` (storing a message frees
no string but the thread's own) and `ReturnKeeps` (a status handed on keeps the
message) carry the argument; every action is one of four shapes: a call that
returns at once, one that enters a frame, one that leaves it, and a failing
`accept`.

**TensorsProofs.** Two halves. The first is about layouts: for shapes `<<n, 3>>`,
`<<3, 3>>` and `<<n>>` it evaluates the recursive functions `Strides`, `Product` and
`Offset` element by element (the shape's length is fixed, `n` is any natural number,
so no induction is needed) and shows by division with remainder that the index
pairs number the array exactly once, in row-major order (`Numbering`,
`PairAddresses`, `SingleAddresses`). The second is about ownership: `IndInv` adds
`InvInputs` (an input has all its tensors, live and of the shapes its constructor
made, or none), `InvResults`, `InvApart` (no tensor is pointed to twice) and `InvHeld`
(every live one is pointed to). `OwnedOnce` then counts the holders of a tensor, and
`LayoutCorrect` puts both halves together.

**PotentialCacheProofs.** `DatabasesHeld`: `HandlesValid`, which is inductive given its
types; what an owner closes is exactly what it holds (`CloseReleases`).
`CacheCorrect` and `HitsFit` assume `PartsApart`, that no positions are the bytes of a
box or of a species list. Then keys do not collide (`PartsApartSeparateKeys`: the XOR
can be taken apart again), and the invariant `DiskRight` holds: every entry is the
result of the configuration and class whose key it is stored under.
`MCPotentialCache` has TLC evaluate `PartsApart` for the configurations of `cache`;
those of `cache_key` violate it. `InitialisedAgree` is the other side of `cache_cutoff`:
if `cuttOffU` had one initial value, all objects would agree.

## 6. Only model-checked

Liveness (`CallsReturn`, `CalculateReturns`): liveness under fairness is outside
what the proof system here can do, as are `ENABLED` and induction over data (what
`Strides` or `Product` computes for shapes of every length; the lengths the code
uses are proved). No module uses `RECURSIVE`. The five runs of section 7
are counterexamples, which need no proof; what holds in their place is proved
(`RegistryCorrect` without assignment, `CacheCorrect` under `PartsApart`,
`InitialisedAgree`, `RootCauseReported` for failures of the library itself).

## 7. Where code and documentation disagree

Checked by a run whose counterexample shows it:

* `capi_error`: `rgpot_last_error` is documented to describe any failure; a
  callback that throws leaves no text, or an older failure's.
* `capi_panic`: every exported function is said to catch panics;
  `rgpot_rpc_client_free` does not, and inside a server's callback it panics.
* `registry_assign`: assigning one potential to another copies the links.
* `cache_key`: the XOR key of a three-atom system does not change when positions
  and box are exchanged, so the second configuration gets the first one's result.
* `cache_cutoff`: `LJPot::cuttOffU` is never set; energies differ between objects.

Visible in the model without a run of their own:

* `rpc_client.hpp` says the connection is established during construction;
  `ClientNew` needs no server. Likewise `pot_client_init` (`pot_bridge.cc:66`) is
  said to return NULL if there is none; `ClientInit` does not look.
* `rpc_client.hpp:120` promises a variance; the schema has no field for it, and
  `StoreResponse` leaves it at zero.
* `potential.rs:59` speaks of exclusive access through the handle; nothing in
  `Handles` keeps two threads out of one callback, and nothing in the code does.

## 8. Not modelled

* Arithmetic of the potentials, CuH2 geometry, `AtomMatrix` and its adapters:
  floating point, no state.
* Python clients: demonstration scripts (their pool is in the plan).
* Panics other than tokio's: the tensor functions and `rgpot_potential_new` are not
  wrapped in `catch_unwind` either, but only a shape whose element count overflows
  (in a debug build) or a failed allocation stops them. A callback that unwinds by itself is outside its contract.
* A `free_fn` that calls back into the library: one that failed there would replace
  the message of an error on its way out.
* `create_owned_i32_tensor` and the tensor accessors: the first is called by a test only,
  the others read one field.
* Copies of a `PotentialCache`, which the compiler would allow: no code makes one.
* Requests from foreign clients whose lists disagree in length; both clients here
  build them from one atom count, so `PotBridge!Refused` is never true. Likewise the
  Rust client's errors about a malformed response (`client.rs:121-131`): both servers
  build responses with the schema, and shorter than the request that was accepted.
* The lifetime of raw pointers the client keeps: what `forces_data` returns, a cache
  attached to a potential, a handle freed during a call, a species vector shorter
  than its positions. The code leaves these to the client, and so do the guards.
* `natoms * 3` in 32 bits: no instance reaches it.
* The order of species in a CuH2 configuration.
* Data races on the registry's statics: the registry is modelled for one thread.
* Build system, CI, documentation.

## 9. Plan

Done, in this order: `PotentialService`, `RpcService` with proofs and refinement,
`Registry` and `Handles` with proofs, `PotentialCache` with proofs, `Tensors`,
`PotBridge`, `CApi` with proofs, then `PotBridgeProofs`, `TensorsProofs` and
`PotentialServiceProofs`, and a theorem for every invariant the runs check.

Next:

1. Action properties of the proved modules: messages are thread-local in `CApi`
   (a step of one thread leaves what the others read), `forceCalls` counts the
   computations of `PotentialCache`, destruction order in `Registry`.
2. Requests with disagreeing lists (`server.rs:82`, `server.cpp:58`), as an input of
   their own kind.
3. The Python server pool, and the species order of CuH2 as a pure operator
   checked against a reference definition.
