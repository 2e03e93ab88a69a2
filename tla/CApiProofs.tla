----------------------------- MODULE CApiProofs -----------------------------
(***************************************************************************)
(* Proofs about CApi, for any threads, addresses and nesting.              *)
(*                                                                         *)
(* The invariant has a part about the frames and a part about messages.    *)
(* The two meet in one place: a thread in its accept loop stores a message *)
(* when accept fails, long after the call that started the server, so it   *)
(* must not hold a pointer to the message it replaces.                     *)
(***************************************************************************)
EXTENDS CApi, TLAPS

\* Calls return to the program they came from.
StackOK ==
  /\ stack \in [Threads -> Seq(Frames)]
  /\ \A t \in Threads : Len(stack[t]) \in 1 .. MaxDepth + 1
  /\ \A t \in Threads : stack[t][1] = "program"

MessagesOK ==
  /\ result \in [Threads -> Messages \cup {"ok", "callback"}]
  /\ text \in [Strings -> Messages \cup {"empty", "freed"}]
  /\ slot \in [Threads -> Strings]
  /\ ptr \in [Threads -> Strings \cup {None}]
  /\ seen \in [Threads -> Messages \cup {"empty"}]
  /\ PointersValid
  /\ RootCauseReported

ServingHoldsNoPointer ==
  \A t \in Threads : Top(t) = "serving" => ptr[t] = None

IInv ==
  /\ StackOK /\ MessagesOK /\ ServingHoldsNoPointer
  /\ clients \subseteq Threads /\ aborted \in BOOLEAN

USE CApiAssumption
-----------------------------------------------------------------------------
(* Frames.                                                                 *)

LEMMA PushStack ==
  ASSUME StackOK, NEW t \in Threads, NEW f \in Frames, Push(t, f)
  PROVE  /\ StackOK'
         /\ stack'[t][Len(stack'[t])] = f
         /\ \A u \in Threads \ {t} : stack'[u] = stack[u]
<1>1. /\ stack'[t] = Append(stack[t], f)
      /\ \A u \in Threads \ {t} : stack'[u] = stack[u]
      /\ stack' = [u \in Threads |-> IF u = t THEN Append(stack[t], f) ELSE stack[u]]
  BY DEF Push, StackOK
<1>2. /\ stack[t] \in Seq(Frames)
      /\ Len(stack[t]) \in 1 .. MaxDepth + 1
      /\ Len(stack[t]) <= MaxDepth
      /\ stack[t][1] = "program"
  BY DEF Push, StackOK
<1>3. /\ Append(stack[t], f) \in Seq(Frames)
      /\ Len(Append(stack[t], f)) = Len(stack[t]) + 1
      /\ Append(stack[t], f)[Len(stack[t]) + 1] = f
      /\ Append(stack[t], f)[1] = "program"
  BY <1>2
<1>4. stack' \in [Threads -> Seq(Frames)]
  BY <1>1, <1>3 DEF StackOK
<1>5. \A u \in Threads : Len(stack'[u]) \in 1 .. MaxDepth + 1
                         /\ stack'[u][1] = "program"
  BY <1>1, <1>2, <1>3 DEF StackOK
<1>. QED
  BY <1>1, <1>3, <1>4, <1>5 DEF StackOK

LEMMA PopStack ==
  ASSUME StackOK, NEW t \in Threads, Pop(t), Top(t) # "program"
  PROVE  StackOK' /\ \A u \in Threads \ {t} : stack'[u] = stack[u]
<1>. DEFINE rest == SubSeq(stack[t], 1, Len(stack[t]) - 1)
<1>1. /\ stack'[t] = rest
      /\ \A u \in Threads \ {t} : stack'[u] = stack[u]
      /\ stack' = [u \in Threads |-> IF u = t THEN rest ELSE stack[u]]
  BY DEF Pop, StackOK
<1>2. /\ stack[t] \in Seq(Frames)
      /\ Len(stack[t]) \in 2 .. MaxDepth + 1
      /\ stack[t][1] = "program"
  BY DEF StackOK, Top
<1>3. /\ rest \in Seq(Frames)
      /\ Len(rest) = Len(stack[t]) - 1
      /\ rest[1] = "program"
  BY <1>2
<1>. HIDE DEF rest
<1>4. stack' \in [Threads -> Seq(Frames)]
  BY <1>1, <1>3 DEF StackOK
<1>5. \A u \in Threads : Len(stack'[u]) \in 1 .. MaxDepth + 1
                         /\ stack'[u][1] = "program"
  BY <1>1, <1>2, <1>3 DEF StackOK
<1>. QED
  BY <1>1, <1>4, <1>5 DEF StackOK
-----------------------------------------------------------------------------
(* Messages.                                                               *)

(* Storing a message frees the thread's old string and no other, so a      *)
(* failure disturbs neither the pointers nor the messages of other threads.*)
LEMMA FailKeeps ==
  ASSUME MessagesOK, NEW t \in Threads, NEW why \in Messages, Fail(t, why),
         \A u \in Threads : ptr'[u] = IF u = t THEN None ELSE ptr[u],
         \A u \in Threads \ {t} : seen'[u] = seen[u],
         ptr' \in [Threads -> Strings \cup {None}],
         seen' \in [Threads -> Messages \cup {"empty"}]
  PROVE  MessagesOK'
<1>1. PICK s \in Strings :
        /\ text[s] = "freed"
        /\ text' = [text EXCEPT ![slot[t]] = "freed", ![s] = why]
        /\ slot' = [slot EXCEPT ![t] = s]
  BY DEF Fail, SetLastError
<1>2. result' = [result EXCEPT ![t] = why]
  BY DEF Fail
<1>3. /\ slot[t] \in Strings /\ slot[t] # s
      /\ \A u \in Threads : slot[u] \in Strings /\ slot[u] # s
      /\ \A u \in Threads \ {t} : slot[u] # slot[t]
  BY <1>1 DEF MessagesOK, PointersValid
<1>4. /\ slot' \in [Threads -> Strings] /\ slot'[t] = s
      /\ \A u \in Threads \ {t} : slot'[u] = slot[u]
      /\ text' \in [Strings -> Messages \cup {"empty", "freed"}]
      /\ text'[s] = why /\ text'[slot[t]] = "freed"
      /\ \A a \in Strings \ {s, slot[t]} : text'[a] = text[a]
  BY <1>1, <1>3 DEF MessagesOK
<1>5. why # "freed"
  BY DEF Messages
<1>6. PointersValid'
  <2>1. \A u \in Threads : text'[slot'[u]] # "freed"
    BY <1>3, <1>4, <1>5 DEF MessagesOK, PointersValid
  <2>2. \A u, v \in Threads : slot'[u] = slot'[v] => u = v
    BY <1>3, <1>4 DEF MessagesOK, PointersValid
  <2>3. \A a \in Strings : text'[a] # "freed" => \E u \in Threads : slot'[u] = a
    BY <1>3, <1>4 DEF MessagesOK, PointersValid
  <2>4. \A u \in Threads : ptr'[u] # None =>
          ptr'[u] = slot'[u] /\ text'[ptr'[u]] = seen'[u]
    BY <1>3, <1>4 DEF MessagesOK, PointersValid
  <2>. QED  BY <2>1, <2>2, <2>3, <2>4 DEF PointersValid
<1>7. RootCauseReported'
  BY <1>2, <1>3, <1>4 DEF MessagesOK, RootCauseReported, Reported
<1>8. result' \in [Threads -> Messages \cup {"ok", "callback"}]
  BY <1>2 DEF MessagesOK
<1>. QED
  BY <1>4, <1>6, <1>7, <1>8 DEF MessagesOK

(* Results that are no new failure leave everything true, the failure that *)
(* a callback passes on being the one last reported.                       *)
LEMMA ReturnKeeps ==
  ASSUME MessagesOK, NEW t \in Threads, NEW o \in Outcomes(t),
         result' = [result EXCEPT ![t] = o], UNCHANGED errors,
         DropPointer(t) \/ UNCHANGED <<ptr, seen>>
  PROVE  MessagesOK'
<1>1. /\ ptr' \in [Threads -> Strings \cup {None}]
      /\ seen' \in [Threads -> Messages \cup {"empty"}]
      /\ \A u \in Threads : ptr'[u] # None => ptr'[u] = ptr[u] /\ seen'[u] = seen[u]
  BY DEF MessagesOK, DropPointer
<1>2. PointersValid'
  BY <1>1 DEF MessagesOK, PointersValid, errors
<1>3. o \in Messages \cup {"ok", "callback"}
  BY DEF MessagesOK, Outcomes
<1>4. RootCauseReported'
  <2>1. o \in Messages => o = result[t]
    BY DEF Outcomes, Messages
  <2>. QED  BY <2>1 DEF MessagesOK, RootCauseReported, Reported, errors
<1>. QED
  BY <1>1, <1>2, <1>3, <1>4 DEF MessagesOK, errors
-----------------------------------------------------------------------------
(* Steps.                                                                  *)

LEMMA ServingKeeps ==
  ASSUME ServingHoldsNoPointer, NEW t \in Threads,
         \A u \in Threads \ {t} : stack'[u] = stack[u] /\ ptr'[u] = ptr[u],
         ptr'[t] = None \/ stack'[t][Len(stack'[t])] # "serving"
  PROVE  ServingHoldsNoPointer'
BY DEF ServingHoldsNoPointer, Top

LEMMA DropsOwnPointer ==
  ASSUME MessagesOK, NEW t \in Threads, DropPointer(t)
  PROVE  /\ \A u \in Threads : ptr'[u] = IF u = t THEN None ELSE ptr[u]
         /\ \A u \in Threads \ {t} : seen'[u] = seen[u]
         /\ ptr' \in [Threads -> Strings \cup {None}]
         /\ seen' \in [Threads -> Messages \cup {"empty"}]
BY DEF MessagesOK, DropPointer

\* A call that comes back at once: it stores a message, or not.
LEMMA CallInv ==
  ASSUME IInv, NEW t \in Threads, DropPointer(t), UNCHANGED stack,
         \/ \E why \in Messages : Fail(t, why)
         \/ Succeed(t)
         \/ UNCHANGED <<result, errors>>,
         clients' \subseteq Threads, aborted' \in BOOLEAN
  PROVE  IInv'
<1>1. MessagesOK'
  <2>1. CASE \E why \in Messages : Fail(t, why)
    BY <2>1, FailKeeps, DropsOwnPointer DEF IInv
  <2>2. CASE Succeed(t)
    BY <2>2, ReturnKeeps DEF IInv, Succeed, Outcomes
  <2>3. CASE UNCHANGED <<result, errors>>
    <3>1. result' = [result EXCEPT ![t] = result[t]]
      BY <2>3 DEF IInv, MessagesOK
    <3>. QED  BY <2>3, <3>1, ReturnKeeps DEF IInv, Outcomes
  <2>. QED  BY <2>1, <2>2, <2>3
<1>2. ServingHoldsNoPointer'
  BY ServingKeeps, DropsOwnPointer DEF IInv
<1>3. StackOK'
  BY DEF IInv, StackOK
<1>. QED  BY <1>1, <1>2, <1>3 DEF IInv

\* A call that enters a callback or a server.
LEMMA EnterInv ==
  ASSUME IInv, NEW t \in Threads, Calculate(t) \/ ServerStart(t) \/ Dispatch(t)
  PROVE  IInv'
<1>1. PICK f \in Frames : Push(t, f) /\ (f = "serving" => ServerStart(t))
  BY DEF Calculate, ServerStart, Dispatch, Frames
<1>2. /\ StackOK'
      /\ stack'[t][Len(stack'[t])] = f
      /\ \A u \in Threads \ {t} : stack'[u] = stack[u]
  BY <1>1, PushStack DEF IInv
<1>3. DropPointer(t) \/ (UNCHANGED <<ptr, seen>> /\ ~ ServerStart(t))
  BY DEF Calculate, ServerStart, Dispatch, Call
<1>4. MessagesOK'
  <2>1. UNCHANGED errors
    BY DEF Calculate, ServerStart, Dispatch, Succeed
  <2>2. \E o \in Outcomes(t) : result' = [result EXCEPT ![t] = o]
    BY DEF Calculate, ServerStart, Dispatch, Succeed, Outcomes, IInv, MessagesOK
  <2>. QED  BY <2>1, <2>2, <1>3, ReturnKeeps DEF IInv
<1>5. ServingHoldsNoPointer'
  <2>1. CASE DropPointer(t)
    BY <2>1, <1>2, ServingKeeps, DropsOwnPointer DEF IInv
  <2>2. CASE UNCHANGED <<ptr, seen>> /\ ~ ServerStart(t)
    <3>1. stack'[t][Len(stack'[t])] # "serving"
      BY <2>2, <1>1, <1>2
    <3>. QED  BY <2>2, <3>1, <1>2, ServingKeeps DEF IInv
  <2>. QED  BY <1>3, <2>1, <2>2
<1>6. UNCHANGED <<clients, aborted>>
  BY DEF Calculate, ServerStart, Dispatch
<1>. QED  BY <1>2, <1>4, <1>5, <1>6 DEF IInv

\* A callback, or a request, comes to its end.
LEMMA LeaveInv ==
  ASSUME IInv, NEW t \in Threads, CallbackReturns(t) \/ HandlerReturns(t)
  PROVE  IInv'
<1>1. StackOK' /\ \A u \in Threads \ {t} : stack'[u] = stack[u]
  BY PopStack DEF CallbackReturns, HandlerReturns, IInv
<1>2. DropPointer(t) /\ UNCHANGED <<clients, errors, aborted>>
  BY DEF CallbackReturns, HandlerReturns
<1>3. \E o \in Outcomes(t) : result' = [result EXCEPT ![t] = o]
  BY DEF CallbackReturns, HandlerReturns, Outcomes
<1>4. MessagesOK'
  BY <1>2, <1>3, ReturnKeeps DEF IInv
<1>5. ServingHoldsNoPointer'
  BY <1>1, <1>2, ServingKeeps, DropsOwnPointer DEF IInv
<1>. QED  BY <1>1, <1>2, <1>4, <1>5 DEF IInv

LEMMA AcceptFailsInv ==
  ASSUME IInv, NEW t \in Threads, AcceptFails(t)
  PROVE  IInv'
<1>1. StackOK' /\ \A u \in Threads \ {t} : stack'[u] = stack[u]
  BY PopStack DEF AcceptFails, IInv
<1>2. ptr[t] = None
  BY DEF AcceptFails, IInv, ServingHoldsNoPointer
<1>3. UNCHANGED <<clients, ptr, seen, aborted>> /\ Fail(t, "accept")
  BY DEF AcceptFails
<1>4. MessagesOK'
  <2>1. /\ \A u \in Threads : ptr'[u] = IF u = t THEN None ELSE ptr[u]
        /\ \A u \in Threads \ {t} : seen'[u] = seen[u]
        /\ ptr' \in [Threads -> Strings \cup {None}]
        /\ seen' \in [Threads -> Messages \cup {"empty"}]
    BY <1>2, <1>3 DEF IInv, MessagesOK
  <2>2. "accept" \in Messages
    BY DEF Messages
  <2>. QED  BY <1>3, <2>1, <2>2, FailKeeps DEF IInv
<1>5. ServingHoldsNoPointer'
  BY <1>1, <1>2, <1>3, ServingKeeps DEF IInv
<1>. QED  BY <1>1, <1>3, <1>4, <1>5 DEF IInv

LEMMA LastErrorInv ==
  ASSUME IInv, NEW t \in Threads, LastError(t)
  PROVE  IInv'
<1>1. slot[t] \in Strings /\ text[slot[t]] \in Messages \cup {"empty"}
  BY DEF IInv, MessagesOK, PointersValid
<1>2. /\ ptr' \in [Threads -> Strings \cup {None}]
      /\ seen' \in [Threads -> Messages \cup {"empty"}]
      /\ \A u \in Threads \ {t} : ptr'[u] = ptr[u] /\ seen'[u] = seen[u]
      /\ ptr'[t] = slot[t] /\ seen'[t] = text[slot[t]]
      /\ UNCHANGED <<stack, clients, result, text, slot, aborted>>
  BY <1>1 DEF LastError, IInv, MessagesOK
<1>3. PointersValid' /\ RootCauseReported'
  BY <1>2 DEF IInv, MessagesOK, PointersValid, RootCauseReported, Reported
<1>4. MessagesOK'
  BY <1>2, <1>3 DEF IInv, MessagesOK
<1>5. stack'[t][Len(stack'[t])] # "serving"
  BY <1>2 DEF LastError, InUserCode, Top
<1>6. ServingHoldsNoPointer'
  BY <1>2, <1>5, ServingKeeps DEF IInv
<1>. QED  BY <1>2, <1>4, <1>6 DEF IInv, StackOK

LEMMA InitInv == Init => IInv
<1>. SUFFICES ASSUME Init PROVE IInv
  OBVIOUS
<1>1. StackOK
  <2>1. <<"program">> \in Seq(Frames) /\ Len(<<"program">>) = 1
    BY DEF Frames
  <2>. QED  BY <2>1 DEF Init, StackOK
<1>2. PointersValid
  BY DEF Init, PointersValid
<1>3. RootCauseReported
  BY DEF Init, RootCauseReported, Messages
<1>4. MessagesOK
  BY <1>2, <1>3 DEF Init, MessagesOK
<1>5. ServingHoldsNoPointer
  BY DEF Init, ServingHoldsNoPointer
<1>. QED  BY <1>1, <1>4, <1>5 DEF Init, IInv

LEMMA NextInv == IInv /\ [Next]_vars => IInv'
<1>. SUFFICES ASSUME IInv, [Next]_vars PROVE IInv'
  OBVIOUS
<1>. USE DEF Call
<1>1. CASE UNCHANGED vars
  BY <1>1 DEF vars, IInv, StackOK, MessagesOK, PointersValid, RootCauseReported,
              Reported, ServingHoldsNoPointer, Top
<1>2. ASSUME NEW t \in Threads, NewOrFree(t)  PROVE IInv'
  BY <1>2, CallInv DEF NewOrFree, IInv
<1>3. ASSUME NEW t \in Threads, CalculateRefused(t)  PROVE IInv'
  BY <1>3, CallInv DEF CalculateRefused, IInv, Messages
<1>4. ASSUME NEW t \in Threads, ClientNew(t)  PROVE IInv'
  <2>1. (\E why \in Messages : Fail(t, why)) \/ Succeed(t)
    BY <1>4 DEF ClientNew, Messages
  <2>2. clients' \subseteq Threads /\ aborted' \in BOOLEAN
    BY <1>4 DEF ClientNew, IInv
  <2>3. DropPointer(t) /\ UNCHANGED stack
    BY <1>4 DEF ClientNew
  <2>. QED  BY <2>1, <2>2, <2>3, CallInv
<1>5. ASSUME NEW t \in Threads, RpcCalculate(t)  PROVE IInv'
  <2>1. (\E why \in Messages : Fail(t, why)) \/ Succeed(t)
    BY <1>5 DEF RpcCalculate, CatchUnwind, Messages
  <2>2. DropPointer(t) /\ UNCHANGED <<stack, clients, aborted>>
    BY <1>5 DEF RpcCalculate
  <2>. QED  BY <2>1, <2>2, CallInv DEF IInv
<1>6. ASSUME NEW t \in Threads, ClientFree(t)  PROVE IInv'
  <2>1. clients' \subseteq Threads /\ aborted' \in BOOLEAN
    BY <1>6 DEF ClientFree, IInv, InRuntime
  <2>2. DropPointer(t) /\ UNCHANGED <<stack, result, errors>>
    BY <1>6 DEF ClientFree
  <2>. QED  BY <2>1, <2>2, CallInv
<1>7. ASSUME NEW t \in Threads, ServerStartFails(t)  PROVE IInv'
  <2>1. \E why \in Messages : Fail(t, why)
    BY <1>7 DEF ServerStartFails, CatchUnwind, Messages
  <2>2. DropPointer(t) /\ UNCHANGED <<stack, clients, aborted>>
    BY <1>7 DEF ServerStartFails
  <2>. QED  BY <2>1, <2>2, CallInv DEF IInv
<1>. QED
  BY <1>1, <1>2, <1>3, <1>4, <1>5, <1>6, <1>7,
     EnterInv, LeaveInv, AcceptFailsInv, LastErrorInv DEF Next

(* The inductive invariant holds throughout.                               *)
THEOREM Invariance == Spec => []IInv
BY InitInv, NextInv, PTL DEF Spec

(* Every variable keeps its type: calls nest as deep as they may and return *)
(* to the program they came from.                                           *)
THEOREM TypeCorrect == Spec => []TypeOK
<1>1. IInv => TypeOK
  BY DEF IInv, StackOK, MessagesOK, TypeOK
<1>. QED  BY <1>1, Invariance, PTL

(* Every thread's pointer from rgpot_last_error is good until the thread's *)
(* next call, whatever other threads and servers do meanwhile              *)
(* (status.rs:16-17, 69-70).                                               *)
THEOREM PointersStayValid == Spec => []PointersValid
<1>1. IInv => PointersValid
  BY DEF IInv, MessagesOK
<1>. QED  BY <1>1, Invariance, PTL

(* Every failing status of the library that reaches a program, however     *)
(* many callbacks it passed through, comes with its own message            *)
(* (errors.hpp:49-57).                                                     *)
THEOREM ErrorsReachTheirCaller == Spec => []RootCauseReported
<1>1. IInv => RootCauseReported
  BY DEF IInv, MessagesOK
<1>. QED  BY <1>1, Invariance, PTL
=============================================================================
