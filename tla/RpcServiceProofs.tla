-------------------------- MODULE RpcServiceProofs --------------------------
(***************************************************************************)
(* Proofs about RpcService for any callers, inputs and bounds.             *)
(***************************************************************************)
EXTENDS RpcService, TLAPS

(***************************************************************************)
(* The inductive invariant, in parts.                                      *)
(***************************************************************************)

\* A call in progress has a number, an input and an untouched output.
InvCalls ==
  \A t \in Callers : pc[t] # "idle" =>
    /\ calls[t] \in 1 .. MaxCalls
    /\ arg[t] \in Inputs
    /\ status[t] = "none"
    /\ out[t] = FreshOut

\* Nothing of a connection exists before its call has connected.
Unused(c) ==
  /\ evals[c] = 0
  /\ c \notin inbox
  /\ busy # c
  /\ rep[c] = NoReply

InvUnused ==
  \A t \in Callers, k \in 1 .. MaxCalls :
    k > calls[t] \/ (k = calls[t] /\ pc[t] = "connect") => Unused(<<t, k>>)

\* A request is undispatched, or running, or answered: one after the other.
InvOnce ==
  \A c \in Conns :
    /\ c \in inbox => evals[c] = 0 /\ busy # c /\ rep[c] = NoReply
    /\ busy = c => evals[c] = 1 /\ rep[c] = NoReply
    /\ rep[c] # NoReply => evals[c] = 1
    /\ evals[c] \in {0, 1}

\* What travels on a connection belongs to the input the connection carries.
InvWire ==
  \A c \in Conns :
    /\ c \in inbox \/ busy = c => sent[c].inp \in Inputs
    /\ \/ rep[c] \in {NoReply, Failed}
       \/ sent[c].inp \in Inputs /\ \E k \in Nat : rep[c] = Result(sent[c].inp, k)

InvAwait ==
  \A t \in Callers : pc[t] = "await" => sent[Conn(t)].inp = arg[t]

\* A call that succeeded evaluated its own input, once.
InvAnswer ==
  \A t \in Callers : status[t] = "SUCCESS" =>
    /\ pc[t] = "idle"
    /\ calls[t] \in 1 .. MaxCalls
    /\ arg[t] \in Inputs
    /\ out[t].energy = arg[t]
    /\ out[t].forces = arg[t]

\* Tasks exist only inside the accept loop that spawned them, and dispatch to
\* the potential that loop was given.
InvTasks ==
  /\ srv = "up" => live
  /\ \A c \in Conns : task[c] # 0 => srv = "up" /\ task[c] = gen
  /\ busy # None => busy \in Conns /\ task[busy] # 0

IndInv ==
  /\ TypeOK /\ InvCalls /\ InvUnused /\ InvOnce /\ InvWire /\ InvAwait
  /\ InvAnswer /\ InvTasks
  /\ HandlerLeaksNothing /\ ErrorOwnsNothing /\ ReasonTellsEvaluation
-----------------------------------------------------------------------------
USE RpcAssumption DEF InputType, TensorStates, Conns, Conn, FreshOut, NoReply, Ends

LEMMA InitInv == Init => IndInv
<1> SUFFICES ASSUME Init PROVE IndInv
    OBVIOUS
<1>1. TypeOK
  <2>1. /\ sent \in [Conns -> RequestType]
        /\ rep \in [Conns -> ReplyType]
        /\ out \in [Callers -> OutType]
        BY DEF Init, NoRequest, RequestType, ReplyType, OutType
  <2>2. live \in BOOLEAN /\ err \in [Callers \cup {Host} -> Reasons]
        BY DEF Init, Reasons
  <2> QED BY <2>1, <2>2 DEF Init, TypeOK
<1>2. InvCalls /\ InvUnused /\ InvOnce /\ InvWire /\ InvAwait /\ InvAnswer
      BY DEF Init, InvCalls, InvUnused, Unused, InvOnce, InvWire, InvAwait, InvAnswer
<1>3. InvTasks /\ HandlerLeaksNothing /\ ErrorOwnsNothing /\ ReasonTellsEvaluation
      BY DEF Init, InvTasks, HandlerLeaksNothing, ErrorOwnsNothing,
             ReasonTellsEvaluation
<1> QED BY <1>1, <1>2, <1>3 DEF IndInv

(* What calculate_async stores of a response keeps the output well formed. *)
LEMMA StoreResponseType ==
  ASSUME NEW o \in OutType, NEW r \in ReplyType, NEW n
  PROVE  StoreResponse(o, r, n) \in OutType
BY DEF StoreResponse, OutType, ReplyType

(* rgpot_rpc_client_new touches the handle only. *)
LEMMA ClientNewInv ==
  ASSUME IndInv, NEW t \in Callers, ClientNew(t)
  PROVE  IndInv'
<1> USE DEF IndInv, ClientNew, cvars, nvars, svars
<1>1. TypeOK'
      BY DEF TypeOK, Reasons
<1>2. InvCalls' /\ InvUnused' /\ InvOnce' /\ InvWire' /\ InvAwait' /\ InvAnswer'
      BY DEF TypeOK, InvCalls, InvUnused, Unused, InvOnce, InvWire, InvAwait, InvAnswer
<1>3. InvTasks' /\ HandlerLeaksNothing' /\ ErrorOwnsNothing' /\ ReasonTellsEvaluation'
      BY DEF TypeOK, InvTasks, HandlerLeaksNothing, ErrorOwnsNothing,
             ReasonTellsEvaluation
<1> QED BY <1>1, <1>2, <1>3

LEMMA ClientNewFailsInv ==
  ASSUME IndInv, NEW t \in Callers, ClientNewFails(t)
  PROVE  IndInv'
<1> USE DEF IndInv, ClientNewFails, cvars, nvars, svars
<1>1. TypeOK'
      BY DEF TypeOK, Reasons
<1>2. InvCalls' /\ InvUnused' /\ InvOnce' /\ InvWire' /\ InvAwait' /\ InvAnswer'
      BY DEF TypeOK, InvCalls, InvUnused, Unused, InvOnce, InvWire, InvAwait, InvAnswer
<1>3. InvTasks' /\ HandlerLeaksNothing' /\ ErrorOwnsNothing' /\ ReasonTellsEvaluation'
      BY DEF TypeOK, InvTasks, HandlerLeaksNothing, ErrorOwnsNothing,
             ReasonTellsEvaluation
<1> QED BY <1>1, <1>2, <1>3

LEMMA ClientFreeInv ==
  ASSUME IndInv, NEW t \in Callers, ClientFree(t)
  PROVE  IndInv'
<1> USE DEF IndInv, ClientFree, cvars, nvars, svars
<1>1. TypeOK'
      BY DEF TypeOK, Reasons
<1>2. InvCalls' /\ InvUnused' /\ InvOnce' /\ InvWire' /\ InvAwait' /\ InvAnswer'
      BY DEF TypeOK, InvCalls, InvUnused, Unused, InvOnce, InvWire, InvAwait, InvAnswer
<1>3. InvTasks' /\ HandlerLeaksNothing' /\ ErrorOwnsNothing' /\ ReasonTellsEvaluation'
      BY DEF TypeOK, InvTasks, HandlerLeaksNothing, ErrorOwnsNothing,
             ReasonTellsEvaluation
<1> QED BY <1>1, <1>2, <1>3

(* A refused call takes a number, so its connection must have been unused. *)
LEMMA CalculateNullInv ==
  ASSUME IndInv, NEW t \in Callers, NEW i \in Inputs, CalculateNull(t, i)
  PROVE  IndInv'
<1> USE DEF IndInv, TypeOK, CalculateNull, BeginCall, Return, cvars, nvars, svars
<1>1. TypeOK'
      BY DEF InvCalls, InvWire, OutType, ReplyType, RequestType, Reasons
<1>2. InvCalls' /\ InvAnswer'
      BY DEF InvCalls, InvAnswer, InvAwait, InvWire
<1>3. InvUnused'
      BY DEF InvCalls, InvUnused, Unused, InvTasks
<1>4. InvOnce'
      BY DEF InvCalls, InvUnused, Unused, InvOnce
<1>5. InvWire'
      BY DEF InvCalls, InvUnused, Unused, InvOnce, InvWire
<1>6. InvAwait'
      BY DEF InvCalls, InvAwait
<1>7. InvTasks'
      BY DEF InvTasks
<1>8. HandlerLeaksNothing' /\ ErrorOwnsNothing'
      BY DEF HandlerLeaksNothing, ErrorOwnsNothing, InvCalls
<1>9. ReasonTellsEvaluation'
      BY DEF ReasonTellsEvaluation, InvCalls, InvUnused, Unused, InvOnce
<1> HIDE DEF IndInv, TypeOK
<1> QED BY <1>1, <1>2, <1>3, <1>4, <1>5, <1>6, <1>7, <1>8, <1>9 DEF IndInv

LEMMA CalculateRejectedInv ==
  ASSUME IndInv, NEW t \in Callers, NEW i \in Inputs, CalculateRejected(t, i)
  PROVE  IndInv'
<1> USE DEF IndInv, TypeOK, CalculateRejected, BeginCall, Return, Extractable, cvars, nvars, svars
<1>1. TypeOK'
      BY DEF InvCalls, InvWire, OutType, ReplyType, RequestType, Reasons
<1>2. InvCalls' /\ InvAnswer'
      BY DEF InvCalls, InvAnswer, InvAwait, InvWire
<1>3. InvUnused'
      BY DEF InvCalls, InvUnused, Unused, InvTasks
<1>4. InvOnce'
      BY DEF InvCalls, InvUnused, Unused, InvOnce
<1>5. InvWire'
      BY DEF InvCalls, InvUnused, Unused, InvOnce, InvWire
<1>6. InvAwait'
      BY DEF InvCalls, InvAwait
<1>7. InvTasks'
      BY DEF InvTasks
<1>8. HandlerLeaksNothing' /\ ErrorOwnsNothing'
      BY DEF HandlerLeaksNothing, ErrorOwnsNothing, InvCalls
<1>9. ReasonTellsEvaluation'
      BY DEF ReasonTellsEvaluation, InvCalls, InvUnused, Unused, InvOnce
<1> HIDE DEF IndInv, TypeOK
<1> QED BY <1>1, <1>2, <1>3, <1>4, <1>5, <1>6, <1>7, <1>8, <1>9 DEF IndInv

LEMMA CalculateInv ==
  ASSUME IndInv, NEW t \in Callers, NEW i \in Inputs, Calculate(t, i)
  PROVE  IndInv'
<1> USE DEF IndInv, TypeOK, Calculate, BeginCall, Extractable, cvars, nvars, svars
<1>1. TypeOK'
      BY DEF InvCalls, InvWire, OutType, ReplyType, RequestType, Reasons
<1>2. InvCalls' /\ InvAnswer'
      BY DEF InvCalls, InvAnswer, InvAwait, InvWire
<1>3. InvUnused'
      BY DEF InvCalls, InvUnused, Unused, InvTasks
<1>4. InvOnce'
      BY DEF InvCalls, InvUnused, Unused, InvOnce
<1>5. InvWire'
      BY DEF InvCalls, InvUnused, Unused, InvOnce, InvWire
<1>6. InvAwait'
      BY DEF InvCalls, InvAwait
<1>7. InvTasks'
      BY DEF InvTasks
<1>8. HandlerLeaksNothing' /\ ErrorOwnsNothing'
      BY DEF HandlerLeaksNothing, ErrorOwnsNothing, InvCalls
<1>9. ReasonTellsEvaluation'
      BY DEF ReasonTellsEvaluation, InvCalls, InvUnused, Unused, InvOnce
<1> HIDE DEF IndInv, TypeOK
<1> QED BY <1>1, <1>2, <1>3, <1>4, <1>5, <1>6, <1>7, <1>8, <1>9 DEF IndInv

(* The connection of a call that connects is unused, so its request is new. *)
LEMMA ConnectInv ==
  ASSUME IndInv, NEW t \in Callers, Connect(t)
  PROVE  IndInv'
<1> USE DEF IndInv, TypeOK, Connect, Request, cvars, nvars, svars
<1>1. TypeOK'
      BY DEF InvCalls, InvWire, OutType, ReplyType, RequestType, Reasons
<1>2. InvCalls' /\ InvAnswer'
      BY DEF InvCalls, InvAnswer, InvAwait, InvWire
<1>3. InvUnused'
      BY DEF InvCalls, InvUnused, Unused, InvTasks
<1>4. InvOnce'
      BY DEF InvCalls, InvUnused, Unused, InvOnce
<1>5. InvWire'
      BY DEF InvCalls, InvUnused, Unused, InvOnce, InvWire
<1>6. InvAwait'
      BY DEF InvCalls, InvAwait
<1>7. InvTasks'
      BY DEF InvTasks
<1>8. HandlerLeaksNothing' /\ ErrorOwnsNothing'
      BY DEF HandlerLeaksNothing, ErrorOwnsNothing, InvCalls
<1>9. ReasonTellsEvaluation'
      BY DEF ReasonTellsEvaluation, InvCalls, InvUnused, Unused, InvOnce
<1> HIDE DEF IndInv, TypeOK
<1> QED BY <1>1, <1>2, <1>3, <1>4, <1>5, <1>6, <1>7, <1>8, <1>9 DEF IndInv

LEMMA ConnectFailsInv ==
  ASSUME IndInv, NEW t \in Callers, ConnectFails(t)
  PROVE  IndInv'
<1> USE DEF IndInv, TypeOK, ConnectFails, Return, cvars, nvars, svars
<1>1. TypeOK'
      BY DEF InvCalls, InvWire, OutType, ReplyType, RequestType, Reasons
<1>2. InvCalls' /\ InvAnswer'
      BY DEF InvCalls, InvAnswer, InvAwait, InvWire
<1>3. InvUnused'
      BY DEF InvCalls, InvUnused, Unused, InvTasks
<1>4. InvOnce'
      BY DEF InvCalls, InvUnused, Unused, InvOnce
<1>5. InvWire'
      BY DEF InvCalls, InvUnused, Unused, InvOnce, InvWire
<1>6. InvAwait'
      BY DEF InvCalls, InvAwait
<1>7. InvTasks'
      BY DEF InvTasks
<1>8. HandlerLeaksNothing' /\ ErrorOwnsNothing'
      BY DEF HandlerLeaksNothing, ErrorOwnsNothing, InvCalls
<1>9. ReasonTellsEvaluation'
      BY DEF ReasonTellsEvaluation, InvCalls, InvUnused, Unused, InvOnce
<1> HIDE DEF IndInv, TypeOK
<1> QED BY <1>1, <1>2, <1>3, <1>4, <1>5, <1>6, <1>7, <1>8, <1>9 DEF IndInv

(* A response is an exception, or a result of the input that was sent. *)
LEMMA ReceiveInv ==
  ASSUME IndInv, NEW t \in Callers, Receive(t)
  PROVE  IndInv'
<1> DEFINE c == Conn(t)
           r == rep[c]
           n == arg[t].n
<1>1. /\ c \in Conns /\ r \in ReplyType /\ r # NoReply /\ evals[c] = 1
      /\ arg[t] \in Inputs /\ sent[c].inp = arg[t]
      /\ out[t] \in OutType /\ out[t].forces = None
      BY DEF IndInv, TypeOK, InvCalls, InvAwait, InvOnce, Receive
<1>2. /\ pc[t] = "await"
      /\ pc' = [pc EXCEPT ![t] = "idle"]
      /\ out' = [out EXCEPT ![t] = StoreResponse(out[t], r, n)]
      /\ link' = [link EXCEPT ![c] = "down"]
      /\ rep' = [rep EXCEPT ![c] = NoReply]
      /\ UNCHANGED <<client, calls, arg, sent, inbox, svars>>
      BY DEF Receive, Return
<1>3. \/ /\ Fits(r, n)
         /\ status' = [status EXCEPT ![t] = "SUCCESS"]
         /\ err' = err
      \/ /\ ~Fits(r, n)
         /\ status' = [status EXCEPT ![t] = "RPC_ERROR"]
         /\ \E why \in {"mismatch", "exception"} : err' = [err EXCEPT ![t] = why]
  <2>1. [err EXCEPT ![t] = err[t]] = err
        BY DEF IndInv, TypeOK
  <2>2. r.kind = "exception" => ~Fits(r, n)
        BY DEF Fits
  <2> QED BY <2>1, <2>2 DEF Receive, Return
<1>4. Fits(r, n) => out'[t].energy = arg[t] /\ out'[t].forces = arg[t]
  <2> SUFFICES ASSUME Fits(r, n) PROVE out'[t].energy = arg[t] /\ out'[t].forces = arg[t]
      OBVIOUS
  <2>1. PICK k \in Nat : r = Result(arg[t], k)
        BY <1>1 DEF IndInv, InvWire, Fits, Failed
  <2>2. out'[t] = StoreResponse(out[t], r, n)
        BY <1>2 DEF IndInv, TypeOK
  <2> QED BY <1>1, <2>1, <2>2 DEF Fits, Result, StoreResponse, OutType
<1>5. ~Fits(r, n) => out'[t].forces = None
      BY <1>1, <1>2 DEF IndInv, TypeOK, StoreResponse, OutType
<1>6. TypeOK'
  <2>1. out' \in [Callers -> OutType]
        BY <1>1, <1>2, StoreResponseType DEF IndInv, TypeOK
  <2>2. err' \in [Callers \cup {Host} -> Reasons]
        BY <1>3 DEF IndInv, TypeOK, Reasons
  <2>3. rep' \in [Conns -> ReplyType]
        BY <1>2 DEF IndInv, TypeOK, ReplyType
  <2>4. status' \in [Callers -> {"none", "SUCCESS", "INVALID_PARAMETER", "RPC_ERROR"}]
        BY <1>3 DEF IndInv, TypeOK
  <2> QED BY <1>2, <2>1, <2>2, <2>3, <2>4 DEF IndInv, TypeOK, svars
<1>7. InvCalls' /\ InvAwait'
      BY <1>2, <1>3 DEF IndInv, TypeOK, InvCalls, InvAwait
<1>8. InvAnswer'
      BY <1>2, <1>3, <1>4 DEF IndInv, TypeOK, InvAnswer, InvCalls
<1>9. InvUnused' /\ InvOnce'
      BY <1>1, <1>2 DEF IndInv, TypeOK, InvUnused, Unused, InvOnce, svars
<1>10. InvWire'
      BY <1>1, <1>2 DEF IndInv, TypeOK, InvWire, svars
<1>11. InvTasks' /\ HandlerLeaksNothing'
      BY <1>2 DEF IndInv, InvTasks, HandlerLeaksNothing, svars
<1>12. ErrorOwnsNothing'
      BY <1>2, <1>3, <1>5 DEF IndInv, TypeOK, ErrorOwnsNothing
<1>13. ReasonTellsEvaluation'
  <2>1. ASSUME NEW u \in Callers, u # t
        PROVE  /\ status'[u] = status[u] /\ err'[u] = err[u]
               /\ pc'[u] = pc[u]
        BY <2>1, <1>2, <1>3 DEF IndInv, TypeOK
  <2>2. status'[t] # "SUCCESS" => err'[t] \in {"mismatch", "exception"}
        BY <1>3 DEF IndInv, TypeOK
  <2>3. UNCHANGED <<calls, evals, inbox>>
        BY <1>2 DEF svars
  <2> QED BY <1>1, <2>1, <2>2, <2>3 DEF IndInv, ReasonTellsEvaluation
<1> QED BY <1>6, <1>7, <1>8, <1>9, <1>10, <1>11, <1>12, <1>13 DEF IndInv

LEMMA DisconnectedInv ==
  ASSUME IndInv, NEW t \in Callers, Disconnected(t)
  PROVE  IndInv'
<1> USE DEF IndInv, TypeOK, Disconnected, Return, cvars, nvars, svars
<1>1. TypeOK'
      BY DEF InvCalls, InvWire, OutType, ReplyType, RequestType, Reasons
<1>2. InvCalls' /\ InvAnswer'
      BY DEF InvCalls, InvAnswer, InvAwait, InvWire
<1>3. InvUnused'
      BY DEF InvCalls, InvUnused, Unused, InvTasks
<1>4. InvOnce'
      BY DEF InvCalls, InvUnused, Unused, InvOnce
<1>5. InvWire'
      BY DEF InvCalls, InvUnused, Unused, InvOnce, InvWire
<1>6. InvAwait'
      BY DEF InvCalls, InvAwait
<1>7. InvTasks'
      BY DEF InvTasks
<1>8. HandlerLeaksNothing' /\ ErrorOwnsNothing'
      BY DEF HandlerLeaksNothing, ErrorOwnsNothing, InvCalls
<1>9. ReasonTellsEvaluation'
      BY DEF ReasonTellsEvaluation, InvCalls, InvUnused, Unused, InvOnce
<1> HIDE DEF IndInv, TypeOK
<1> QED BY <1>1, <1>2, <1>3, <1>4, <1>5, <1>6, <1>7, <1>8, <1>9 DEF IndInv

(* Losing a connection only takes things off the wire. *)
LEMMA LoseConnectionInv ==
  ASSUME IndInv, NEW c \in Conns, NEW how \in Ends, LoseConnection(c, how)
  PROVE  IndInv'
<1> USE DEF IndInv, TypeOK, LoseConnection, cvars, nvars, svars
<1>1. TypeOK'
  <2>1. NoReply \in ReplyType
        BY DEF ReplyType, NoReply
  <2>2. rep' \in [Conns -> ReplyType]
        BY <2>1
  <2> QED BY <2>2
<1>2. InvCalls' /\ InvAnswer'
      BY DEF InvCalls, InvAnswer, InvAwait, InvWire
<1>3. InvUnused'
      BY DEF InvCalls, InvUnused, Unused, InvTasks
<1>4. InvOnce'
      BY DEF InvCalls, InvUnused, Unused, InvOnce
<1>5. InvWire'
      BY DEF InvCalls, InvUnused, Unused, InvOnce, InvWire
<1>6. InvAwait'
      BY DEF InvCalls, InvAwait
<1>7. InvTasks'
      BY DEF InvTasks
<1>8. HandlerLeaksNothing' /\ ErrorOwnsNothing'
      BY DEF HandlerLeaksNothing, ErrorOwnsNothing, InvCalls
<1>9. ReasonTellsEvaluation'
      BY DEF ReasonTellsEvaluation, InvCalls, InvUnused, Unused, InvOnce
<1> HIDE DEF IndInv, TypeOK
<1> QED BY <1>1, <1>2, <1>3, <1>4, <1>5, <1>6, <1>7, <1>8, <1>9 DEF IndInv

(* A new potential appears only when no task is left of the old one. *)
LEMMA PotentialNewInv ==
  ASSUME IndInv, PotentialNew
  PROVE  IndInv'
<1> USE DEF IndInv, PotentialNew, cvars, nvars, svars
<1>1. TypeOK'
      BY DEF TypeOK, Reasons
<1>2. InvCalls' /\ InvUnused' /\ InvOnce' /\ InvWire' /\ InvAwait' /\ InvAnswer'
      BY DEF TypeOK, InvCalls, InvUnused, Unused, InvOnce, InvWire, InvAwait, InvAnswer
<1>3. InvTasks' /\ HandlerLeaksNothing' /\ ErrorOwnsNothing' /\ ReasonTellsEvaluation'
      BY DEF TypeOK, InvTasks, HandlerLeaksNothing, ErrorOwnsNothing,
             ReasonTellsEvaluation
<1> QED BY <1>1, <1>2, <1>3

LEMMA PotentialFreeInv ==
  ASSUME IndInv, PotentialFree
  PROVE  IndInv'
<1> USE DEF IndInv, PotentialFree, cvars, nvars, svars
<1>1. TypeOK'
      BY DEF TypeOK, Reasons
<1>2. InvCalls' /\ InvUnused' /\ InvOnce' /\ InvWire' /\ InvAwait' /\ InvAnswer'
      BY DEF TypeOK, InvCalls, InvUnused, Unused, InvOnce, InvWire, InvAwait, InvAnswer
<1>3. InvTasks' /\ HandlerLeaksNothing' /\ ErrorOwnsNothing' /\ ReasonTellsEvaluation'
      BY DEF TypeOK, InvTasks, HandlerLeaksNothing, ErrorOwnsNothing,
             ReasonTellsEvaluation
<1> QED BY <1>1, <1>2, <1>3

LEMMA ServerStartInv ==
  ASSUME IndInv, ServerStart
  PROVE  IndInv'
<1> USE DEF IndInv, ServerStart, cvars, nvars, svars
<1>1. TypeOK'
      BY DEF TypeOK, Reasons
<1>2. InvCalls' /\ InvUnused' /\ InvOnce' /\ InvWire' /\ InvAwait' /\ InvAnswer'
      BY DEF TypeOK, InvCalls, InvUnused, Unused, InvOnce, InvWire, InvAwait, InvAnswer
<1>3. InvTasks' /\ HandlerLeaksNothing' /\ ErrorOwnsNothing' /\ ReasonTellsEvaluation'
      BY DEF TypeOK, InvTasks, HandlerLeaksNothing, ErrorOwnsNothing,
             ReasonTellsEvaluation
<1> QED BY <1>1, <1>2, <1>3

LEMMA ServerStartFailsInv ==
  ASSUME IndInv, ServerStartFails
  PROVE  IndInv'
<1> USE DEF IndInv, ServerStartFails, cvars, nvars, svars
<1>1. TypeOK'
      BY DEF TypeOK, Reasons
<1>2. InvCalls' /\ InvUnused' /\ InvOnce' /\ InvWire' /\ InvAwait' /\ InvAnswer'
      BY DEF TypeOK, InvCalls, InvUnused, Unused, InvOnce, InvWire, InvAwait, InvAnswer
<1>3. InvTasks' /\ HandlerLeaksNothing' /\ ErrorOwnsNothing' /\ ReasonTellsEvaluation'
      BY DEF TypeOK, InvTasks, HandlerLeaksNothing, ErrorOwnsNothing,
             ReasonTellsEvaluation
<1> QED BY <1>1, <1>2, <1>3

LEMMA AcceptInv ==
  ASSUME IndInv, NEW c \in Conns, Accept(c)
  PROVE  IndInv'
<1> USE DEF IndInv, Accept, cvars, nvars, svars
<1>1. TypeOK'
      BY DEF TypeOK, Reasons
<1>2. InvCalls' /\ InvUnused' /\ InvOnce' /\ InvWire' /\ InvAwait' /\ InvAnswer'
      BY DEF TypeOK, InvCalls, InvUnused, Unused, InvOnce, InvWire, InvAwait, InvAnswer
<1>3. InvTasks' /\ HandlerLeaksNothing' /\ ErrorOwnsNothing' /\ ReasonTellsEvaluation'
      BY DEF TypeOK, InvTasks, HandlerLeaksNothing, ErrorOwnsNothing,
             ReasonTellsEvaluation
<1> QED BY <1>1, <1>2, <1>3

(* Dispatch moves a request from undispatched to running: first evaluation. *)
LEMMA DispatchInv ==
  ASSUME IndInv, NEW c \in Conns, Dispatch(c)
  PROVE  IndInv'
<1> USE DEF IndInv, TypeOK, Dispatch, cvars, nvars, svars
<1>1. TypeOK'
      BY DEF InvCalls, InvWire, OutType, ReplyType, RequestType, Reasons
<1>2. InvCalls' /\ InvAnswer'
      BY DEF InvCalls, InvAnswer, InvAwait, InvWire
<1>3. InvUnused'
      BY DEF InvCalls, InvUnused, Unused, InvTasks
<1>4. InvOnce'
      BY DEF InvCalls, InvUnused, Unused, InvOnce
<1>5. InvWire'
      BY DEF InvCalls, InvUnused, Unused, InvOnce, InvWire
<1>6. InvAwait'
      BY DEF InvCalls, InvAwait
<1>7. InvTasks'
      BY DEF InvTasks
<1>8. HandlerLeaksNothing' /\ ErrorOwnsNothing'
      BY DEF HandlerLeaksNothing, ErrorOwnsNothing, InvCalls
<1>9. ReasonTellsEvaluation'
      BY DEF ReasonTellsEvaluation, InvCalls, InvUnused, Unused, InvOnce
<1> HIDE DEF IndInv, TypeOK
<1> QED BY <1>1, <1>2, <1>3, <1>4, <1>5, <1>6, <1>7, <1>8, <1>9 DEF IndInv

(* The handler's reply carries the input of the connection it serves. *)
LEMMA CallbackReturnsInv ==
  ASSUME IndInv, NEW s \in {"SUCCESS", "INTERNAL_ERROR"}, NEW f \in BOOLEAN, CallbackReturns(s, f)
  PROVE  IndInv'
<1> USE DEF IndInv, TypeOK, CallbackReturns, Result, Failed, Freed, cvars, nvars, svars
<1>1. TypeOK'
      BY DEF InvCalls, InvWire, OutType, ReplyType, RequestType, Reasons
<1>2. InvCalls' /\ InvAnswer'
      BY DEF InvCalls, InvAnswer, InvAwait, InvWire
<1>3. InvUnused'
      BY DEF InvCalls, InvUnused, Unused, InvTasks
<1>4. InvOnce'
      BY DEF InvCalls, InvUnused, Unused, InvOnce
<1>5. InvWire'
  <2> HIDE DEF InputType, TensorStates
  <2>1. busy \in Conns /\ sent[busy].inp \in Inputs /\ sent[busy].atm \in Nat
        BY DEF InvWire, RequestType
  <2> DEFINE k == IF f THEN 3 * sent[busy].atm ELSE 0
  <2>2. k \in Nat
        BY <2>1
  <2>3. rep'[busy] \in {rep[busy], Failed, Result(sent[busy].inp, k)}
        BY <2>1
  <2>4. \A c \in Conns : c # busy => rep'[c] = rep[c]
        BY <2>1
  <2> HIDE DEF k, Result
  <2> QED BY <2>1, <2>2, <2>3, <2>4 DEF InvWire
<1>6. InvAwait'
      BY DEF InvCalls, InvAwait
<1>7. InvTasks'
      BY DEF InvTasks
<1>8. HandlerLeaksNothing' /\ ErrorOwnsNothing'
      BY DEF HandlerLeaksNothing, ErrorOwnsNothing, InvCalls
<1>9. ReasonTellsEvaluation'
      BY DEF ReasonTellsEvaluation, InvCalls, InvUnused, Unused, InvOnce
<1> HIDE DEF IndInv, TypeOK
<1> QED BY <1>1, <1>2, <1>3, <1>4, <1>5, <1>6, <1>7, <1>8, <1>9 DEF IndInv

(* When the accept loop returns, its tasks and their connections go. *)
LEMMA AcceptFailsInv ==
  ASSUME IndInv, AcceptFails
  PROVE  IndInv'
<1> USE DEF IndInv, TypeOK, AcceptFails, DropConnections, cvars, nvars, svars
<1>1. TypeOK'
      BY DEF InvCalls, InvWire, OutType, ReplyType, RequestType, Reasons
<1>2. InvCalls' /\ InvAnswer'
      BY DEF InvCalls, InvAnswer, InvAwait, InvWire
<1>3. InvUnused'
      BY DEF InvCalls, InvUnused, Unused, InvTasks
<1>4. InvOnce'
      BY DEF InvCalls, InvUnused, Unused, InvOnce
<1>5. InvWire'
      BY DEF InvCalls, InvUnused, Unused, InvOnce, InvWire
<1>6. InvAwait'
      BY DEF InvCalls, InvAwait
<1>7. InvTasks'
      BY DEF InvTasks
<1>8. HandlerLeaksNothing' /\ ErrorOwnsNothing'
      BY DEF HandlerLeaksNothing, ErrorOwnsNothing, InvCalls
<1>9. ReasonTellsEvaluation'
      BY DEF ReasonTellsEvaluation, InvCalls, InvUnused, Unused, InvOnce
<1> HIDE DEF IndInv, TypeOK
<1> QED BY <1>1, <1>2, <1>3, <1>4, <1>5, <1>6, <1>7, <1>8, <1>9 DEF IndInv

LEMMA ServerCrashInv ==
  ASSUME IndInv, NEW how \in Ends, ServerCrash(how)
  PROVE  IndInv'
<1> USE DEF IndInv, TypeOK, ServerCrash, DropConnections, cvars, nvars, svars
<1>1. TypeOK'
  <2>1. rep' \in [Conns -> ReplyType]
        BY DEF ReplyType
  <2>2. live' \in BOOLEAN
        OBVIOUS
  <2>3. err' \in [Callers \cup {Host} -> Reasons]
        BY DEF Reasons
  <2> QED BY <2>1, <2>2, <2>3
<1>2. InvCalls' /\ InvAnswer'
      BY DEF InvCalls, InvAnswer, InvAwait, InvWire
<1>3. InvUnused'
      BY DEF InvCalls, InvUnused, Unused, InvTasks
<1>4. InvOnce'
      BY DEF InvCalls, InvUnused, Unused, InvOnce
<1>5. InvWire'
      BY DEF InvCalls, InvUnused, Unused, InvOnce, InvWire
<1>6. InvAwait'
      BY DEF InvCalls, InvAwait
<1>7. InvTasks'
      BY DEF InvTasks
<1>8. HandlerLeaksNothing' /\ ErrorOwnsNothing'
      BY DEF HandlerLeaksNothing, ErrorOwnsNothing, InvCalls
<1>9. ReasonTellsEvaluation'
      BY DEF ReasonTellsEvaluation, InvCalls, InvUnused, Unused, InvOnce
<1> HIDE DEF IndInv, TypeOK
<1> QED BY <1>1, <1>2, <1>3, <1>4, <1>5, <1>6, <1>7, <1>8, <1>9 DEF IndInv

LEMMA NextInv == IndInv /\ [Next]_vars => IndInv'
<1> SUFFICES ASSUME IndInv, [Next]_vars PROVE IndInv'
    OBVIOUS
<1>1. ASSUME NEW t \in Callers, CallerNext(t) PROVE IndInv'
      BY <1>1, ClientNewInv, ClientNewFailsInv, ClientFreeInv, CalculateNullInv,
         CalculateRejectedInv, CalculateInv, ConnectInv, ConnectFailsInv,
         ReceiveInv, DisconnectedInv DEF CallerNext
<1>2. ASSUME NEW c \in Conns, NEW how \in Ends, LoseConnection(c, how) PROVE IndInv'
      BY <1>2, LoseConnectionInv
<1>3. CASE HostNext
      BY <1>3, PotentialNewInv, PotentialFreeInv, ServerStartInv,
         ServerStartFailsInv, AcceptInv, DispatchInv, CallbackReturnsInv,
         AcceptFailsInv, ServerCrashInv DEF HostNext, Callback
<1>4. CASE UNCHANGED vars
  <2> USE <1>4 DEF IndInv, vars
  <2>1. TypeOK'
        BY DEF TypeOK
  <2>2. InvCalls' /\ InvUnused' /\ InvOnce' /\ InvWire' /\ InvAwait' /\ InvAnswer'
        BY DEF InvCalls, InvUnused, Unused, InvOnce, InvWire, InvAwait, InvAnswer
  <2>3. InvTasks' /\ HandlerLeaksNothing' /\ ErrorOwnsNothing' /\ ReasonTellsEvaluation'
        BY DEF InvTasks, HandlerLeaksNothing, ErrorOwnsNothing,
               ReasonTellsEvaluation
  <2> QED BY <2>1, <2>2, <2>3
<1> QED BY <1>1, <1>2, <1>3, <1>4 DEF Next

(* The inductive invariant holds throughout: types, what a call's position *)
(* in calculate_async says of its connection, and what the server's tasks  *)
(* say of the potential (client.rs:58-146, server.rs:170-203).             *)
THEOREM Invariance == Spec => []IndInv
BY InitInv, NextInv, PTL DEF Spec

(* Every variable keeps its type: in particular a request, a response and  *)
(* a running callback always belong to a connection some call has opened.  *)
THEOREM TypeCorrect == Spec => []TypeOK
<1>1. IndInv => TypeOK
      BY DEF IndInv
<1> QED BY <1>1, Invariance, PTL

(* For any number of callers, restarts and connections, the server never   *)
(* runs the callback of a potential that was freed (server.rs:116-119).    *)
THEOREM CallbackSafe == Spec => []NoUseAfterFree
<1>1. IndInv => NoUseAfterFree
      BY DEF IndInv, InvTasks, NoUseAfterFree
<1> QED BY <1>1, Invariance, PTL

(* The handler has freed every tensor it made by the time it is over,      *)
(* whatever the callback does (server.rs:88-101).                          *)
THEOREM HandlerFreesAll == Spec => []HandlerLeaksNothing
<1>1. IndInv => HandlerLeaksNothing
      BY DEF IndInv
<1> QED BY <1>1, Invariance, PTL

(* A call that failed leaves the caller no tensor to free                  *)
(* (client.rs:127-143).                                                    *)
THEOREM FailureLeavesNothing == Spec => []ErrorOwnsNothing
<1>1. IndInv => ErrorOwnsNothing
      BY DEF IndInv
<1> QED BY <1>1, Invariance, PTL

(* The reason rgpot_last_error gives for a failed call tells whether the   *)
(* potential was evaluated for it.                                         *)
THEOREM ReasonIsTrue == Spec => []ReasonTellsEvaluation
<1>1. IndInv => ReasonTellsEvaluation
      BY DEF IndInv
<1> QED BY <1>1, Invariance, PTL
-----------------------------------------------------------------------------
(***************************************************************************)
(* Refinement.  Pending and Answers name the two expressions that          *)
(* PotentialService's variables stand for.                                 *)
(***************************************************************************)
Pending == {t \in Callers : pc[t] # "idle"}
Answers == [t \in Callers |->
              IF status[t] = "SUCCESS"
              THEN [energy |-> out[t].energy, forces |-> out[t].forces]
              ELSE [energy |-> None, forces |-> None]]

LEMMA InitRefines == Init => Service!Init
BY DEF Init, Service!Init, Service!Calls, Service!NoAnswer, Service!Answer

(* A refused call is an invocation that fails at once. *)
LEMMA RefusedRefines ==
  ASSUME IndInv, NEW t \in Callers, NEW i \in Inputs,
         CalculateNull(t, i) \/ CalculateRejected(t, i)
  PROVE  Service!InvokeAndFail(t, i)
<1> USE DEF CalculateNull, CalculateRejected, BeginCall, Return
<1>1. Pending' = Pending
      BY DEF IndInv, TypeOK, Pending
<1>2. Answers' = [Answers EXCEPT ![t] = [energy |-> None, forces |-> None]]
      BY DEF IndInv, TypeOK, Answers
<1> QED BY <1>1, <1>2 DEF Pending, Answers, svars, Service!InvokeAndFail,
                          Service!NoAnswer, Service!Answer

LEMMA CalculateRefines ==
  ASSUME IndInv, NEW t \in Callers, NEW i \in Inputs, Calculate(t, i)
  PROVE  Service!Invoke(t, i)
<1> USE DEF Calculate, BeginCall
<1>1. Pending' = Pending \cup {t}
      BY DEF IndInv, TypeOK, Pending
<1>2. Answers' = [Answers EXCEPT ![t] = [energy |-> None, forces |-> None]]
      BY DEF IndInv, TypeOK, Answers
<1> QED BY <1>1, <1>2 DEF Pending, Answers, svars, Service!Invoke,
                          Service!NoAnswer, Service!Answer

(* A call that gives up, before or after it connected, has failed. *)
LEMMA GiveUpRefines ==
  ASSUME IndInv, NEW t \in Callers, ConnectFails(t) \/ Disconnected(t)
  PROVE  Service!Fail(t)
<1> USE DEF ConnectFails, Disconnected, Return
<1>1. Pending' = Pending \ {t} /\ t \in Pending
      BY DEF IndInv, TypeOK, Pending
<1>2. Answers' = Answers
      BY DEF IndInv, TypeOK, InvCalls, Answers
<1> QED BY <1>1, <1>2 DEF Pending, Answers, svars, Service!Fail

(* A response ends the call: with its own answer, evaluated once, if it    *)
(* has the right number of forces, with an error otherwise.                *)
LEMMA ReceiveRefines ==
  ASSUME IndInv, IndInv', NEW t \in Callers, Receive(t)
  PROVE  Service!Succeed(t) \/ Service!Fail(t)
<1>1. Pending' = Pending \ {t} /\ t \in Pending
      BY DEF IndInv, TypeOK, Pending, Receive, Return
<1>2. evals[Conn(t)] = 1
      BY DEF IndInv, TypeOK, Receive, InvCalls, InvOnce
<1>3. UNCHANGED <<calls, arg, evals>>
      BY DEF Receive, svars
<1>4. CASE status'[t] = "SUCCESS"
  <2>1. out'[t].energy = arg[t] /\ out'[t].forces = arg[t]
        BY <1>3, <1>4 DEF IndInv, InvAnswer
  <2>2. Answers' = [Answers EXCEPT ![t] = [energy |-> arg[t], forces |-> arg[t]]]
    <3>1. \A u \in Callers \ {t} : status'[u] = status[u] /\ out'[u] = out[u]
          BY DEF IndInv, TypeOK, Receive, Return
    <3> QED BY <1>4, <2>1, <3>1 DEF Answers
  <2> QED BY <1>1, <1>2, <1>3, <2>2 DEF Pending, Answers, Service!Succeed,
                                        Service!Answer
<1>5. CASE status'[t] # "SUCCESS"
  <2>1. Answers' = Answers
        BY <1>5 DEF IndInv, TypeOK, InvCalls, Answers, Receive, Return
  <2> QED BY <1>1, <1>3, <2>1 DEF Pending, Answers, Service!Fail
<1> QED BY <1>4, <1>5

LEMMA DispatchRefines ==
  ASSUME IndInv, NEW c \in Conns, Dispatch(c)
  PROVE  Service!Evaluate(c)
<1>1. evals[c] = 0
      BY DEF IndInv, Dispatch, InvOnce
<1>2. c[2] <= calls[c[1]]
      BY DEF IndInv, TypeOK, Dispatch, InvUnused, Unused
<1>3. evals' = [evals EXCEPT ![c] = 1]
      BY <1>1 DEF Dispatch, IndInv, TypeOK
<1> QED BY <1>1, <1>2, <1>3 DEF Dispatch, cvars, Service!Evaluate

(* Everything else is invisible to the callers. *)
LEMMA StutterRefines ==
  ASSUME IndInv,
         \/ \E t \in Callers : \/ ClientNew(t) \/ ClientNewFails(t)
                               \/ ClientFree(t) \/ Connect(t)
         \/ \E c \in Conns, how \in Ends : LoseConnection(c, how)
         \/ \E c \in Conns : Accept(c)
         \/ PotentialNew \/ PotentialFree \/ ServerStart \/ ServerStartFails
         \/ Callback \/ AcceptFails \/ (\E how \in Ends : ServerCrash(how))
         \/ UNCHANGED vars
  PROVE  UNCHANGED Service!vars
<1>1. UNCHANGED <<calls, arg, evals, out, status>>
      BY DEF ClientNew, ClientNewFails, ClientFree, Connect, LoseConnection,
             Accept, PotentialNew, PotentialFree, ServerStart,
             ServerStartFails, Callback, CallbackReturns, AcceptFails,
             ServerCrash, vars, cvars, nvars, svars
<1>2. Pending' = Pending
      BY DEF ClientNew, ClientNewFails, ClientFree, Connect, LoseConnection,
             Accept, PotentialNew, PotentialFree, ServerStart,
             ServerStartFails, Callback, CallbackReturns, AcceptFails,
             ServerCrash, vars, cvars, nvars, svars, Pending, IndInv, TypeOK
<1>3. Answers' = Answers
      BY <1>1 DEF Answers
<1> QED BY <1>1, <1>2, <1>3 DEF Service!vars, Pending, Answers

LEMMA NextRefines ==
  IndInv /\ IndInv' /\ [Next]_vars => [Service!Next]_(Service!vars)
<1> SUFFICES ASSUME IndInv, IndInv', [Next]_vars
             PROVE  Service!Next \/ UNCHANGED Service!vars
    OBVIOUS
<1>1. ASSUME NEW t \in Callers, CallerNext(t)
      PROVE  Service!Next \/ UNCHANGED Service!vars
  <2>1. CASE \E i \in Inputs : \/ CalculateNull(t, i) \/ CalculateRejected(t, i)
                               \/ Calculate(t, i)
        BY <2>1, RefusedRefines, CalculateRefines DEF Service!Next
  <2>2. CASE ConnectFails(t) \/ Disconnected(t) \/ Receive(t)
        BY <2>2, GiveUpRefines, ReceiveRefines DEF Service!Next
  <2>3. CASE ClientNew(t) \/ ClientNewFails(t) \/ ClientFree(t) \/ Connect(t)
        BY <2>3, StutterRefines
  <2> QED BY <1>1, <2>1, <2>2, <2>3 DEF CallerNext
<1>2. ASSUME NEW c \in Conns, Dispatch(c)
      PROVE  Service!Next
      BY <1>2, DispatchRefines DEF Service!Next, Service!Calls
<1>3. CASE \/ \E c \in Conns, how \in Ends : LoseConnection(c, how)
           \/ \E c \in Conns : Accept(c)
           \/ PotentialNew \/ PotentialFree \/ ServerStart \/ ServerStartFails
           \/ Callback \/ AcceptFails \/ (\E how \in Ends : ServerCrash(how))
           \/ UNCHANGED vars
      BY <1>3, StutterRefines
<1> QED BY <1>1, <1>2, <1>3 DEF Next, HostNext

(* For any callers, inputs and bounds, the RPC layer gives every call one  *)
(* answer, its own input's energy and forces or an error, and evaluates    *)
(* the potential at most once for it, whatever connections are lost and    *)
(* however often the server dies.                                          *)
THEOREM Refinement == Spec => ImplementsService
<1> USE InitRefines, NextRefines, Invariance
<1> QED BY PTL DEF Spec, ImplementsService, Service!Spec
-----------------------------------------------------------------------------
(* The abstract service once more, with the theorems about it, to carry    *)
(* what it promises over to the variables of this module.                  *)
Promised == INSTANCE PotentialServiceProofs WITH
  pending <- Pending,
  answer  <- Answers

LEMMA PromiseTransfers == Spec => []Promised!IndInv
<1>1. MaxCalls \in Nat
  BY RpcAssumption
<1>2. Promised!Spec => []Promised!IndInv
  BY <1>1, Promised!Invariance
<1>3. Service!Init => Promised!Init
  BY DEF Pending, Answers,
         Service!Init, Promised!Init, Service!Calls, Promised!Calls,
         Service!NoAnswer, Promised!NoAnswer, Service!Answer,
         Promised!Answer
<1>4. [Service!Next]_Service!vars => [Promised!Next]_Promised!vars
  BY DEF Pending, Answers,
         Service!Next, Promised!Next, Service!Invoke, Promised!Invoke,
         Service!InvokeAndFail, Promised!InvokeAndFail, Service!Evaluate,
         Promised!Evaluate, Service!Succeed, Promised!Succeed, Service!Fail,
         Promised!Fail, Service!Calls, Promised!Calls, Service!NoAnswer,
         Promised!NoAnswer, Service!Answer, Promised!Answer, Service!vars,
         Promised!vars
<1>. QED  BY <1>2, <1>3, <1>4, Refinement, PTL
          DEF ImplementsService, Service!Spec, Promised!Spec

\* What a caller of rgpot_rpc_calculate may conclude from RGPOT_SUCCESS.
SuccessIsOwnAnswer ==
  /\ \A t \in Callers : status[t] = "SUCCESS" =>
       /\ pc[t] = "idle"
       /\ out[t].energy = arg[t] /\ out[t].forces = arg[t]
       /\ evals[Conn(t)] = 1
  /\ \A c \in Conns : evals[c] \in {0, 1}

(* A call that returns RGPOT_SUCCESS left the energy and the forces of its *)
(* own input and the potential ran exactly once for it; for no call,       *)
(* failed or given up, does it run twice.  This is what the abstract       *)
(* service promises, read back through the refinement.                     *)
THEOREM AnswersAreOwn == Spec => []SuccessIsOwnAnswer
<1>1. ASSUME IndInv, Promised!IndInv PROVE SuccessIsOwnAnswer
  <2>1. ASSUME NEW t \in Callers, status[t] = "SUCCESS"
        PROVE  evals[Conn(t)] = 1
    <3>1. arg[t] # None /\ Answers[t] = [energy |-> arg[t], forces |-> arg[t]]
      BY <1>1, <2>1 DEF IndInv, InvAnswer, Answers
    <3>2. Answers[t] # Promised!NoAnswer
      BY <3>1 DEF Promised!NoAnswer, Promised!Answer
    <3>. QED  BY <1>1, <3>2 DEF Promised!IndInv, Promised!Promise
  <2>. QED  BY <1>1, <2>1 DEF IndInv, InvAnswer, InvOnce, SuccessIsOwnAnswer
<1>. QED  BY <1>1, PromiseTransfers, Invariance, PTL
=============================================================================
