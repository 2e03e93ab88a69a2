-------------------------------- MODULE CApi --------------------------------
(***************************************************************************)
(* The C boundary of rgpot-core as a program sees it: which call failed,   *)
(* what rgpot_last_error says about it (status.rs), and what a panic does. *)
(*                                                                         *)
(* Calls nest.  rgpot_potential_calculate and the server's handler run     *)
(* callbacks on the calling thread, and a callback may call the library    *)
(* again: a potential made of other potentials, a relay to another server. *)
(* Everything on a thread shares the thread's LAST_ERROR; a thread that is *)
(* driving a server is inside a tokio runtime and may neither start nor    *)
(* drop another.                                                           *)
(*                                                                         *)
(* RGPOT_SUCCESS is "ok"; a failing status goes by what went wrong.        *)
(***************************************************************************)
EXTENDS Naturals, Sequences

CONSTANTS Threads,
          Strings,   \* addresses of CStrings, used again once freed
          MaxDepth,  \* bound on the callbacks and servers a thread is inside
          None       \* no pointer

ASSUME CApiAssumption == None \notin Strings /\ MaxDepth \in Nat

VARIABLES stack,     \* what each thread is inside of, outermost first
          clients,   \* threads that have an rgpot_rpc_client_t
          result,    \* of the last call made by the code each thread runs
          text,      \* what is at each address
          slot,      \* LAST_ERROR of each thread: an address
          ptr, seen, \* a pointer got from rgpot_last_error, and what it read
          aborted    \* a panic reached the C side and ended the process

vars == <<stack, clients, result, text, slot, ptr, seen, aborted>>
errors == <<text, slot>>

\* "program" is the code outside any call, "calculate" and "handler" are
\* callbacks, "serving" is the accept loop of rgpot_rpc_server_start.
Frames == {"program", "calculate", "serving", "handler"}
Top(t) == stack[t][Len(stack[t])]
InUserCode(t) == ~aborted /\ Top(t) # "serving"

\* tokio, whose runtime context is the thread's, and external: block_on and
\* the drop of a Runtime panic on a thread that is inside one.
InRuntime(t) == \E k \in DOMAIN stack[t] : stack[t][k] = "serving"

Init ==
  /\ stack = [t \in Threads |-> <<"program">>]
  /\ clients = {}
  /\ result = [t \in Threads |-> "ok"]
  /\ slot \in [Threads -> Strings]
  /\ \A t, u \in Threads : slot[t] = slot[u] => t = u
  /\ text = [s \in Strings |-> IF \E t \in Threads : slot[t] = s
                               THEN "empty" ELSE "freed"]
  /\ ptr = [t \in Threads |-> None]
  /\ seen = [t \in Threads |-> "empty"]
  /\ aborted = FALSE
-----------------------------------------------------------------------------
(* status.rs.                                                              *)

\* The new string is made before the old one is dropped.
SetLastErrorGlobally(t, msg) ==
  \E s \in Strings :
    /\ text[s] = "freed"
    /\ text' = [a \in Strings |-> IF a = s THEN msg ELSE "freed"]
    /\ slot' = [u \in Threads |-> s]
SetLastErrorDangling(t, msg) ==
  \E s \in Strings :
    /\ text[s] = "freed"
    /\ text' = [text EXCEPT ![slot[t]] = "freed", ![s] = msg]
    /\ UNCHANGED slot
SetLastError(t, msg) ==
  \E s \in Strings :
    /\ text[s] = "freed"
    /\ text' = [text EXCEPT ![slot[t]] = "freed", ![s] = msg]
    /\ slot' = [slot EXCEPT ![t] = s]

\* What check_status and the constructor of RpcClient put into rgpot::Error.
Reported(t) == text[slot[t]]

\* Every call ends the validity of the pointer the thread got before.
DropPointer(t) ==
  /\ ptr' = [ptr EXCEPT ![t] = None]
  /\ seen' = [seen EXCEPT ![t] = "empty"]
Call(t) == InUserCode(t) /\ DropPointer(t)

Fail(t, why) ==
  /\ SetLastError(t, why)
  /\ result' = [result EXCEPT ![t] = why]
Succeed(t) ==
  /\ result' = [result EXCEPT ![t] = "ok"]
  /\ UNCHANGED errors

\* catch_unwind: a panic becomes RGPOT_INTERNAL_ERROR and its message is kept.
CatchUnwindSilently(t) ==
  /\ result' = [result EXCEPT ![t] = "panic"]
  /\ UNCHANGED errors
CatchUnwind(t) == Fail(t, "panic")

Push(t, f) ==
  /\ Len(stack[t]) <= MaxDepth
  /\ stack' = [stack EXCEPT ![t] = Append(@, f)]
Pop(t) == stack' = [stack EXCEPT ![t] = SubSeq(@, 1, Len(@) - 1)]

\* rgpot_last_error.
LastError(t) ==
  /\ InUserCode(t)
  /\ ptr' = [ptr EXCEPT ![t] = slot[t]]
  /\ seen' = [seen EXCEPT ![t] = text[slot[t]]]
  /\ UNCHANGED <<stack, clients, result, text, slot, aborted>>
-----------------------------------------------------------------------------
(* Potentials.                                                             *)

\* rgpot_potential_new and _free, like the functions on tensors, have no way
\* to fail and leave the slot alone.  A free_fn is taken to release memory and
\* not to call the library.
NewOrFree(t) ==
  /\ Call(t)
  /\ UNCHANGED <<stack, clients, result, errors, aborted>>

\* A NULL argument.
CalculateRefused(t) ==
  /\ Call(t)
  /\ Fail(t, "null")
  /\ UNCHANGED <<stack, clients, aborted>>

\* The callback starts, having called nothing yet.
Calculate(t) ==
  /\ Call(t)
  /\ Push(t, "calculate")
  /\ Succeed(t)
  /\ UNCHANGED <<clients, aborted>>

\* What a callback returns: success, whatever happened inside; the failure of
\* its last call, as a C++ exception that the trampoline turns into a status;
\* or a failure of its own, about which it cannot leave a message.
Outcomes(t) == {"ok", "callback", result[t]}

\* Its status is handed on and nothing else is touched.  The callback's
\* pointers go with it.
CallbackReturns(t) ==
  /\ ~aborted
  /\ Top(t) = "calculate"
  /\ Pop(t)
  /\ \E o \in Outcomes(t) : result' = [result EXCEPT ![t] = o]
  /\ DropPointer(t)
  /\ UNCHANGED <<clients, errors, aborted>>
-----------------------------------------------------------------------------
(* The RPC client.                                                         *)

ClientNew(t) ==
  /\ Call(t)
  /\ t \notin clients
  /\ \/ Succeed(t) /\ clients' = clients \cup {t}
     \/ Fail(t, "runtime") /\ UNCHANGED clients
  /\ UNCHANGED <<stack, aborted>>

\* A refused NULL; a panic inside a runtime; else an answer, or an error.
\* The thread does nothing else while it waits.
RpcCalculate(t) ==
  /\ Call(t)
  /\ \/ t \notin clients /\ Fail(t, "null")
     \/ t \in clients /\ InRuntime(t) /\ CatchUnwind(t)
     \/ t \in clients /\ ~InRuntime(t) /\ (Succeed(t) \/ Fail(t, "rpc"))
  /\ UNCHANGED <<stack, clients, aborted>>

\* rgpot_rpc_client_free drops the client's runtime outside catch_unwind.
ClientFree(t) ==
  /\ Call(t)
  /\ t \in clients
  /\ clients' = clients \ {t}
  /\ aborted' = InRuntime(t)
  /\ UNCHANGED <<stack, result, errors>>
-----------------------------------------------------------------------------
(* The RPC server.                                                         *)

\* Refused arguments, a panic inside a runtime, no runtime, no address.
ServerStartFails(t) ==
  /\ Call(t)
  /\ \/ Fail(t, "null")
     \/ InRuntime(t) /\ CatchUnwind(t)
     \/ Fail(t, "runtime")
     \/ ~InRuntime(t) /\ Fail(t, "bind")
  /\ UNCHANGED <<stack, clients, aborted>>

ServerStart(t) ==
  /\ Call(t)
  /\ ~InRuntime(t)
  /\ Push(t, "serving")
  /\ Succeed(t)
  /\ UNCHANGED <<clients, aborted>>

\* A request comes in and the handler calls the potential.
Dispatch(t) ==
  /\ ~aborted
  /\ Top(t) = "serving"
  /\ Push(t, "handler")
  /\ UNCHANGED <<clients, result, errors, ptr, seen, aborted>>

\* The remote caller learns whether it failed, this thread forgets it.
HandlerReturns(t) ==
  /\ ~aborted
  /\ Top(t) = "handler"
  /\ Pop(t)
  /\ result' = [result EXCEPT ![t] = "ok"]
  /\ DropPointer(t)
  /\ UNCHANGED <<clients, errors, aborted>>

\* listener.accept() fails and rgpot_rpc_server_start returns.
AcceptFails(t) ==
  /\ ~aborted
  /\ Top(t) = "serving"
  /\ Pop(t)
  /\ Fail(t, "accept")
  /\ UNCHANGED <<clients, ptr, seen, aborted>>

Next == \E t \in Threads :
  \/ LastError(t) \/ NewOrFree(t)
  \/ CalculateRefused(t) \/ Calculate(t) \/ CallbackReturns(t)
  \/ ClientNew(t) \/ RpcCalculate(t) \/ ClientFree(t)
  \/ ServerStartFails(t) \/ ServerStart(t) \/ Dispatch(t) \/ HandlerReturns(t)
  \/ AcceptFails(t)

Spec == Init /\ [][Next]_vars
-----------------------------------------------------------------------------
Messages == {"null", "panic", "runtime", "rpc", "bind", "accept"}

TypeOK ==
  /\ stack \in [Threads -> Seq(Frames)]
  /\ \A t \in Threads : Len(stack[t]) \in 1 .. MaxDepth + 1
  /\ clients \subseteq Threads
  /\ result \in [Threads -> Messages \cup {"ok", "callback"}]
  /\ text \in [Strings -> Messages \cup {"empty", "freed"}]
  /\ slot \in [Threads -> Strings]
  /\ ptr \in [Threads -> Strings \cup {None}]
  /\ seen \in [Threads -> Messages \cup {"empty"}]
  /\ aborted \in BOOLEAN

(* status.rs:16-17, 69-70: the pointer rgpot_last_error returned stays     *)
(* valid, and reads the same, until the thread's next rgpot_* call,        *)
(* whatever other threads do, and every thread owns exactly one string.    *)
PointersValid ==
  /\ \A t \in Threads : text[slot[t]] # "freed"
  /\ \A t, u \in Threads : slot[t] = slot[u] => t = u
  /\ \A s \in Strings : text[s] # "freed" => \E t \in Threads : slot[t] = s
  /\ \A t \in Threads : ptr[t] # None =>
       ptr[t] = slot[t] /\ text[ptr[t]] = seen[t]

(* A failure of the library keeps its own message on its way out.  The     *)
(* code that sees the failing status (errors.hpp:49-57), directly or at    *)
(* the far end of callbacks that pass it on, is told what went wrong       *)
(* first, not what an earlier call or another thread left, and destructors *)
(* that run in between do not disturb it.  A caught panic counts.          *)
RootCauseReported ==
  \A t \in Threads : result[t] \in Messages => Reported(t) = result[t]

(* As c_api/potential.rs and the architecture document have it, on any     *)
(* failure the thread's last error describes that failure.                 *)
ErrorDescribesFailure ==
  \A t \in Threads : result[t] # "ok" => Reported(t) = result[t]

(* lib.rs:33-36: no panic leaves the library, because every function wraps *)
(* its body in catch_unwind.                                               *)
PanicsCaught == ~aborted
=============================================================================
