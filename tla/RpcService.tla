----------------------------- MODULE RpcService -----------------------------
(***************************************************************************)
(* The Rust RPC layer: rgpot_rpc_client_* and RpcClient on the calling     *)
(* side, rgpot_rpc_server_start and PotentialServer on the serving side,   *)
(* and the TCP connection between them.                                    *)
(*                                                                         *)
(* Every calculate call opens a connection of its own, sends one request   *)
(* and blocks its thread until a response arrives or the connection is     *)
(* seen to die; there is no timeout, no keepalive and no retry.  The       *)
(* server is one thread: the accept loop, the connections' tasks and the   *)
(* potential's callback all run on it, so a callback in progress stops     *)
(* everything else on that side.                                           *)
(*                                                                         *)
(* A connection is named by the call that opens it.  An energy and a force *)
(* array are named by the input they belong to.                            *)
(***************************************************************************)
EXTENDS Naturals, FiniteSets

CONSTANTS Callers,    \* client threads, each with its own client handle
          Host,       \* the thread that runs rgpot_rpc_server_start
          Inputs,     \* the rgpot_force_input_t values the callers may pass
          MaxCalls,   \* bound on the calls one caller makes
          MaxTotal,   \* bound on the calls of all callers together
          MaxPots,    \* bound on the potential handles the host creates
          None        \* no value: a NULL pointer, an untouched 0.0

\* The state of one DLPack tensor pointer of an input.
TensorStates == {"null", "cpu", "cuda"}

\* Only the shape of the positions is ever looked at.
InputType == [cfg : STRING, n : Nat, pos : TensorStates \cup {"noshape"},
              atm : TensorStates, box : TensorStates]

ASSUME RpcAssumption ==
  /\ Host \notin Callers
  /\ Inputs \subseteq InputType
  /\ None \notin Inputs
  /\ None \notin Callers \X (1 .. MaxCalls)
  /\ MaxCalls \in Nat
  /\ MaxTotal \in Nat
  /\ MaxPots \in Nat

VARIABLES
  \* the calling side, one entry per thread
  client,    \* "none", or "open" once rgpot_rpc_client_new returned a handle
  pc,        \* "idle", "connect" or "await": where calculate_async is
  calls,     \* number of calls made
  arg,       \* the input of the current or last call
  out,       \* the caller's rgpot_force_out_t
  status,    \* the status the last call returned
  err,       \* the thread-local LAST_ERROR slot, the host's included
  \* the network, one entry per connection
  link,      \* "none", "up", "down" once the client has seen it end, or "cut":
             \* dead, and nothing has told the client
  sent,      \* the request: the input and the three list lengths
  inbox,     \* connections whose request the server has not dispatched
  rep,       \* the response on its way to the client
  \* the serving side
  srv,       \* "down" or "up": is rgpot_rpc_server_start in its accept loop
  backlog,   \* connections the listener has not accepted
  task,      \* accepted connections: the potential their task dispatches to
  busy,      \* the connection whose callback is running, or None
  tensors,   \* DLPack tensors the handler has allocated and not freed
  gen, live, \* the newest potential handle, and whether it is still allocated
  evals      \* how often the callback was invoked for each call

cvars == <<client, pc, calls, arg, out, status>>
nvars == <<link, sent, inbox, rep>>
svars == <<srv, backlog, task, busy, tensors, gen, live, evals>>
vars == <<client, pc, calls, arg, out, status, err,
          link, sent, inbox, rep,
          srv, backlog, task, busy, tensors, gen, live, evals>>

Conns == Callers \X (1 .. MaxCalls)
Conn(t) == <<t, calls[t]>>
Begun == {c \in Conns : c[2] <= calls[c[1]]}

\* rgpot_force_out_create: NULL forces and zero scalars.
FreshOut == [energy |-> None, forces |-> None, variance |-> None]

NoReply == [kind |-> "none", energy |-> None, forces |-> None, len |-> 0]
Failed == [kind |-> "exception", energy |-> None, forces |-> None, len |-> 0]
\* A list of k force components is the forces of i only if it is complete.
Result(i, k) == [kind |-> "result", energy |-> i,
                 forces |-> IF k = 3 * i.n THEN i ELSE None, len |-> k]

RequestShortBox(i) == [inp |-> i, pos |-> 3 * i.n, atm |-> i.n, box |-> 3]
Request(i) == [inp |-> i, pos |-> 3 * i.n, atm |-> i.n, box |-> 9]
NoRequest == [inp |-> None, pos |-> 0, atm |-> 0, box |-> 0]

\* n_atoms() and extract_cpu_input: the tensors must be there, in CPU memory,
\* and the positions must have a shape.
Extractable(i) == i.pos = "cpu" /\ i.atm = "cpu" /\ i.box = "cpu"
-----------------------------------------------------------------------------
Init ==
  /\ client = [t \in Callers |-> "none"]
  /\ pc = [t \in Callers |-> "idle"]
  /\ calls = [t \in Callers |-> 0]
  /\ arg = [t \in Callers |-> None]
  /\ out = [t \in Callers |-> FreshOut]
  /\ status = [t \in Callers |-> "none"]
  /\ err = [t \in Callers \cup {Host} |-> "none"]
  /\ link = [c \in Conns |-> "none"]
  /\ sent = [c \in Conns |-> NoRequest]
  /\ inbox = {}
  /\ rep = [c \in Conns |-> NoReply]
  /\ srv = "down"
  /\ backlog = {}
  /\ task = [c \in Conns |-> 0]
  /\ busy = None
  /\ tensors = {}
  /\ gen = 0
  /\ live = FALSE
  /\ evals = [c \in Conns |-> 0]
-----------------------------------------------------------------------------
(* The calling side.                                                       *)

\* rgpot_rpc_client_new: builds a runtime and remembers the address.
ClientNew(t) ==
  /\ client[t] = "none"
  /\ client' = [client EXCEPT ![t] = "open"]
  /\ UNCHANGED <<pc, calls, arg, out, status, err, nvars, svars>>

\* ... or fails (no runtime, no host name) and returns NULL.
ClientNewFails(t) ==
  /\ client[t] = "none"
  /\ err' = [err EXCEPT ![t] = "client_new"]
  /\ UNCHANGED <<cvars, nvars, svars>>

ClientFree(t) ==
  /\ client[t] = "open"
  /\ pc[t] = "idle"
  /\ client' = [client EXCEPT ![t] = "none"]
  /\ UNCHANGED <<pc, calls, arg, out, status, err, nvars, svars>>

\* What every calculate call does first: the caller hands over a fresh output.
BeginCall(t, i) ==
  /\ pc[t] = "idle"
  /\ calls[t] < MaxCalls
  /\ Cardinality(Begun) < MaxTotal
  /\ calls' = [calls EXCEPT ![t] = @ + 1]
  /\ arg' = [arg EXCEPT ![t] = i]
  /\ out' = [out EXCEPT ![t] = FreshOut]

\* Every return of rgpot_rpc_calculate and of calculate_async.
ReturnKeepingFirst(t, s, why) ==
  /\ pc' = [pc EXCEPT ![t] = "idle"]
  /\ status' = [status EXCEPT ![t] = s]
  /\ err' = [err EXCEPT ![t] = IF @ = "none" THEN why ELSE @]
Return(t, s, why) ==
  /\ pc' = [pc EXCEPT ![t] = "idle"]
  /\ status' = [status EXCEPT ![t] = s]
  /\ err' = [err EXCEPT ![t] = why]

\* A NULL handle (a moved-from or failed client) is refused, as are a NULL
\* input and a NULL output.
CalculateNull(t, i) ==
  /\ BeginCall(t, i)
  /\ Return(t, "INVALID_PARAMETER", "null")
  /\ UNCHANGED <<client, nvars, svars>>

CalculateRejected(t, i) ==
  /\ client[t] = "open"
  /\ ~Extractable(i)
  /\ BeginCall(t, i)
  /\ Return(t, "RPC_ERROR", "input")
  /\ UNCHANGED <<client, nvars, svars>>

Calculate(t, i) ==
  /\ client[t] = "open"
  /\ Extractable(i)
  /\ BeginCall(t, i)
  /\ pc' = [pc EXCEPT ![t] = "connect"]
  /\ status' = [status EXCEPT ![t] = "none"]
  /\ UNCHANGED <<client, err, nvars, svars>>

\* TcpStream::connect succeeded: the request is built and written.
Connect(t) ==
  /\ pc[t] = "connect"
  /\ srv = "up"
  /\ pc' = [pc EXCEPT ![t] = "await"]
  /\ link' = [link EXCEPT ![Conn(t)] = "up"]
  /\ sent' = [sent EXCEPT ![Conn(t)] = Request(arg[t])]
  /\ inbox' = inbox \cup {Conn(t)}
  /\ backlog' = backlog \cup {Conn(t)}
  /\ UNCHANGED <<client, calls, arg, out, status, err, rep,
                 srv, task, busy, tensors, gen, live, evals>>

\* connect or set_nodelay failed; nothing was sent.
ConnectFails(t) ==
  /\ pc[t] = "connect"
  /\ Return(t, "RPC_ERROR", "connect")
  /\ UNCHANGED <<client, calls, arg, out, nvars, svars>>

FitsUnchecked(r, n) == r.kind = "result"
Fits(r, n) == r.kind = "result" /\ r.len = 3 * n

\* The energy is stored before the length of the forces is looked at; the
\* forces tensor is allocated last; the variance is not in the response.
StoreEagerly(o, r, n) ==
  [o EXCEPT !.energy = IF r.kind = "result" THEN r.energy ELSE @,
            !.forces = IF r.kind = "result" THEN r.energy ELSE @]
StoreResponse(o, r, n) ==
  [o EXCEPT !.energy = IF r.kind = "result" THEN r.energy ELSE @,
            !.forces = IF Fits(r, n) THEN r.forces ELSE @]

\* The promise resolves.  The LocalSet that held the connection is dropped on
\* every way out.
Receive(t) ==
  LET c == Conn(t)
      r == rep[c]
      n == arg[t].n
  IN /\ pc[t] = "await"
     /\ r.kind # "none"
     /\ out' = [out EXCEPT ![t] = StoreResponse(@, r, n)]
     /\ \/ Fits(r, n) /\ Return(t, "SUCCESS", err[t])
        \/ ~Fits(r, n) /\ r.kind = "result" /\ Return(t, "RPC_ERROR", "mismatch")
        \/ r.kind = "exception" /\ Return(t, "RPC_ERROR", "exception")
     /\ link' = [link EXCEPT ![c] = "down"]
     /\ rep' = [rep EXCEPT ![c] = NoReply]
     /\ UNCHANGED <<client, calls, arg, sent, inbox, svars>>

\* The connection died and no response is left in it.
DisconnectedRetries(t) ==
  /\ pc[t] = "await"
  /\ link[Conn(t)] = "down"
  /\ rep[Conn(t)].kind = "none"
  /\ pc' = [pc EXCEPT ![t] = "connect"]
  /\ UNCHANGED <<client, calls, arg, out, status, err, nvars, svars>>
Disconnected(t) ==
  /\ pc[t] = "await"
  /\ link[Conn(t)] = "down"
  /\ rep[Conn(t)].kind = "none"
  /\ Return(t, "RPC_ERROR", "disconnected")
  /\ UNCHANGED <<client, calls, arg, out, nvars, svars>>
-----------------------------------------------------------------------------
(* The network: a connection may end at any moment, and whatever was in    *)
(* flight in either direction may or may not survive.  The client is told  *)
(* ("down": a FIN, an RST, a failed retransmission) or it is not ("cut":   *)
(* the path or the peer's host is gone; nothing more arrives).  It may     *)
(* still be told later, but the code asks for no keepalive that would make *)
(* sure of that.                                                           *)

Ends == {"down", "cut"}

LoseConnection(c, how) ==
  /\ link[c] = "up" \/ (link[c] = "cut" /\ how = "down")
  /\ link' = [link EXCEPT ![c] = how]
  /\ inbox' \in {inbox, inbox \ {c}}
  /\ rep' \in {rep, [rep EXCEPT ![c] = NoReply]}
  /\ UNCHANGED <<cvars, err, sent, svars>>
-----------------------------------------------------------------------------
(* The serving side.                                                       *)

PotentialNew ==
  /\ ~live
  /\ gen < MaxPots
  /\ gen' = gen + 1
  /\ live' = TRUE
  /\ UNCHANGED <<cvars, err, nvars, srv, backlog, task, busy, tensors, evals>>

\* The host keeps the potential for as long as the server runs, as
\* rgpot_rpc_server_start asks; after that it may free it.
PotentialFree ==
  /\ live
  /\ srv = "down"
  /\ live' = FALSE
  /\ UNCHANGED <<cvars, err, nvars, srv, backlog, task, busy, tensors, gen, evals>>

ServerStart ==
  /\ srv = "down"
  /\ live
  /\ srv' = "up"
  /\ UNCHANGED <<cvars, err, nvars, backlog, task, busy, tensors, gen, live, evals>>

\* NULL arguments, a bad host name, no runtime, or an address in use.  (What
\* the host is told in each case is in CApi.)
ServerStartFails ==
  /\ srv = "down"
  /\ err' = [err EXCEPT ![Host] = "server_start"]
  /\ UNCHANGED <<cvars, nvars, svars>>

\* One turn of the accept loop: the new task gets its own PotentialServer
\* with a copy of the callback and of user_data.
Accept(c) ==
  /\ srv = "up"
  /\ busy = None
  /\ c \in backlog
  /\ backlog' = backlog \ {c}
  /\ task' = [task EXCEPT ![c] = gen]
  /\ UNCHANGED <<cvars, err, nvars, srv, busy, tensors, gen, live, evals>>

\* The task reads the request: PotentialServer::calculate wraps the lists in
\* three borrowed tensors and calls the potential.
Dispatch(c) ==
  /\ srv = "up"
  /\ busy = None
  /\ task[c] # 0
  /\ c \in inbox
  /\ inbox' = inbox \ {c}
  /\ busy' = c
  /\ tensors' = tensors \cup {"pos", "atm", "box"}
  /\ evals' = [evals EXCEPT ![c] = @ + 1]
  /\ UNCHANGED <<cvars, err, link, sent, rep, srv, backlog, task, gen, live>>

\* The tensors the handler frees: all of them, whatever the status.
FreedOnSuccess(s) ==
  IF s = "SUCCESS" THEN {"forces", "pos", "atm", "box"} ELSE {}
Freed(s) == {"forces", "pos", "atm", "box"}

\* The callback returns status s, with a forces tensor or with NULL in
\* output.forces.  The handler copies the forces, frees all four tensors and
\* only then looks at the status.
CallbackReturns(s, hasForces) ==
  LET n == sent[busy].atm
      reply == IF s = "SUCCESS"
               THEN Result(sent[busy].inp, IF hasForces THEN 3 * n ELSE 0)
               ELSE Failed
  IN /\ busy # None
     /\ rep' = [rep EXCEPT ![busy] = IF link[busy] = "up" THEN reply ELSE @]
     /\ tensors' = (tensors \cup IF hasForces THEN {"forces"} ELSE {}) \ Freed(s)
     /\ busy' = None
     /\ UNCHANGED <<cvars, err, link, sent, inbox,
                    srv, backlog, task, gen, live, evals>>

\* What is left of the connections when the listener and the LocalSet go:
\* every link ends, unread requests are gone, and responses that were not
\* flushed are lost.
DropListenerOnly(how) ==
  /\ backlog' = {}
  /\ UNCHANGED <<link, inbox, task, rep>>
DropConnections(how) ==
  /\ link' = [c \in Conns |-> IF link[c] = "up" THEN how ELSE link[c]]
  /\ inbox' = {}
  /\ backlog' = {}
  /\ task' = [c \in Conns |-> 0]
  /\ \E lost \in SUBSET {c \in Conns : rep[c].kind # "none"} :
        rep' = [c \in Conns |-> IF c \in lost THEN NoReply ELSE rep[c]]

\* listener.accept() failed: rgpot_rpc_server_start returns RGPOT_RPC_ERROR.
AcceptFails ==
  /\ srv = "up"
  /\ busy = None
  /\ srv' = "down"
  /\ err' = [err EXCEPT ![Host] = "server_start"]
  /\ DropConnections("down")
  /\ UNCHANGED <<cvars, sent, busy, tensors, gen, live, evals>>

\* The server's process dies, in the middle of a callback or not: its kernel
\* closes the connections, or the whole machine is gone and nobody does.
ServerCrash(how) ==
  /\ live
  /\ srv' = "down"
  /\ live' = FALSE
  /\ busy' = None
  /\ tensors' = {}
  /\ err' = [err EXCEPT ![Host] = "none"]
  /\ DropConnections(how)
  /\ UNCHANGED <<cvars, sent, gen, evals>>
-----------------------------------------------------------------------------
CallerNext(t) ==
  \/ ClientNew(t) \/ ClientNewFails(t) \/ ClientFree(t)
  \/ \E i \in Inputs : CalculateNull(t, i) \/ CalculateRejected(t, i)
                          \/ Calculate(t, i)
  \/ Connect(t) \/ ConnectFails(t) \/ Receive(t) \/ Disconnected(t)

Callback == \E s \in {"SUCCESS", "INTERNAL_ERROR"}, f \in BOOLEAN :
               CallbackReturns(s, f)

HostNext ==
  \/ PotentialNew \/ PotentialFree \/ ServerStart \/ ServerStartFails
  \/ \E c \in Conns : Accept(c) \/ Dispatch(c)
  \/ Callback \/ AcceptFails
  \/ \E how \in Ends : ServerCrash(how)

Next ==
  \/ \E t \in Callers : CallerNext(t)
  \/ \E c \in Conns, how \in Ends : LoseConnection(c, how)
  \/ HostNext

(***************************************************************************)
(* Fairness.  A thread inside a calculate call is running; tokio polls the *)
(* accept loop and every task that is ready; and a callback returns.       *)
(* Nothing makes a host start a server, or a caller make a call, and       *)
(* nothing makes the network tell a client that its connection was cut.    *)
(***************************************************************************)
Fairness ==
  /\ \A t \in Callers : WF_vars(Connect(t) \/ ConnectFails(t) \/ Receive(t)
                                  \/ Disconnected(t))
  /\ \A c \in Conns : WF_vars(Accept(c)) /\ WF_vars(Dispatch(c))
  /\ WF_vars(Callback)

Spec == Init /\ [][Next]_vars /\ Fairness
-----------------------------------------------------------------------------
OutType == [energy : Inputs \cup {None}, forces : Inputs \cup {None},
            variance : Inputs \cup {None}]
ReplyType == [kind : {"none", "result", "exception"}, energy : Inputs \cup {None},
              forces : Inputs \cup {None}, len : Nat]
RequestType == [inp : Inputs \cup {None}, pos : Nat, atm : Nat, box : {0, 9}]
Reasons == {"none", "client_new", "null", "input", "connect", "mismatch",
            "exception", "disconnected", "server_start"}

TypeOK ==
  /\ client \in [Callers -> {"none", "open"}]
  /\ pc \in [Callers -> {"idle", "connect", "await"}]
  /\ calls \in [Callers -> 0 .. MaxCalls]
  /\ arg \in [Callers -> Inputs \cup {None}]
  /\ out \in [Callers -> OutType]
  /\ status \in [Callers -> {"none", "SUCCESS", "INVALID_PARAMETER", "RPC_ERROR"}]
  /\ err \in [Callers \cup {Host} -> Reasons]
  /\ link \in [Conns -> {"none", "up"} \cup Ends]
  /\ sent \in [Conns -> RequestType]
  /\ inbox \subseteq Conns
  /\ rep \in [Conns -> ReplyType]
  /\ srv \in {"down", "up"}
  /\ backlog \subseteq Conns
  /\ task \in [Conns -> 0 .. MaxPots]
  /\ busy \in Conns \cup {None}
  /\ tensors \subseteq {"pos", "atm", "box", "forces"}
  /\ gen \in 0 .. MaxPots
  /\ live \in BOOLEAN
  /\ evals \in [Conns -> Nat]
-----------------------------------------------------------------------------
(* The callback copied into a connection's task is only ever running while *)
(* the potential it came from is allocated: no task outlives the LocalSet  *)
(* of the rgpot_rpc_server_start that spawned it (server.rs:116-119, 154), *)
(* across accept failures, restarts and crashes.                           *)
NoUseAfterFree ==
  busy # None => live /\ srv = "up" /\ task[busy] = gen

(* The handler frees the three input tensors and the forces on every path  *)
(* out of PotentialServer::calculate, the failing ones included, before it *)
(* looks at the status (server.rs:88-101).                                 *)
HandlerLeaksNothing == busy = None => tensors = {}

(* What rgpot_last_error says after a failed call tells truly whether the  *)
(* potential ran: never (and never will) for a refused argument or a       *)
(* failed connect, exactly once for a server-side error or a force array   *)
(* of the wrong length.  Only a dropped connection leaves it open.         *)
ReasonTellsEvaluation ==
  \A t \in Callers :
    pc[t] = "idle" /\ status[t] \in {"INVALID_PARAMETER", "RPC_ERROR"} =>
      /\ err[t] \in {"null", "input", "connect"} =>
           evals[Conn(t)] = 0 /\ Conn(t) \notin inbox
      /\ err[t] \in {"mismatch", "exception"} => evals[Conn(t)] = 1
      /\ err[t] = "disconnected" => evals[Conn(t)] <= 1

(* A failed call leaves no forces tensor for the caller to free, whatever  *)
(* it did to the energy (client.rs:127-143).                               *)
ErrorOwnsNothing ==
  \A t \in Callers : status[t] # "SUCCESS" => out[t].forces = None

(* The RPC layer implements the abstract service: one answer per call, the *)
(* caller's own input's energy and forces or an error, and at most one     *)
(* evaluation of the potential per call.                                   *)
Service == INSTANCE PotentialService WITH
  pending <- {t \in Callers : pc[t] # "idle"},
  answer  <- [t \in Callers |->
               IF status[t] = "SUCCESS"
               THEN [energy |-> out[t].energy, forces |-> out[t].forces]
               ELSE [energy |-> None, forces |-> None]]

ImplementsService == Service!Spec

(* A calculate call returns, however the server fails or restarts and      *)
(* whatever becomes of the other callers, unless its own connection is cut *)
(* without notice: only then, and for as long as nothing tells the client, *)
(* does the await of client.rs:115-119 wait for ever.                      *)
CallsReturn ==
  \A t \in Callers : pc[t] # "idle" ~> pc[t] = "idle" \/ link[Conn(t)] = "cut"
=============================================================================
