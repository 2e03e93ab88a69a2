----------------------------- MODULE PotBridge -----------------------------
(***************************************************************************)
(* The C bridge for Fortran and other callers (pot_bridge.cc) and the      *)
(* stand-alone C++ server (rpc/server.cpp).                                *)
(*                                                                         *)
(* A PotClient keeps one connection for its whole life.  It is opened in   *)
(* the background: the first call finds out whether there is a server, and *)
(* once the connection is broken every later call fails until the caller   *)
(* frees the client and makes another.  Results go to buffers of the       *)
(* caller's that are used again for every call.                            *)
(*                                                                         *)
(* The bridge speaks the schema of the Rust server too, whose answer may   *)
(* have no forces in it (RpcService).                                      *)
(***************************************************************************)
EXTENDS Integers, FiniteSets

CONSTANTS Callers,    \* threads, each with its PotClient
          Inputs,     \* configurations
          Kinds,      \* the servers that may be running: "potserv", "rust"
          MaxCalls,   \* bound on the calls one caller makes
          MaxTotal,   \* bound on the calls of all callers together
          MaxInits,   \* bound on the clients one caller makes
          None        \* nothing written yet

\* ok says whether the server's potential accepts the configuration.
ASSUME BridgeAssumption ==
  /\ Inputs \subseteq [cfg : STRING, n : Nat, ok : BOOLEAN]
  /\ None \notin Inputs
  /\ Kinds \subseteq {"potserv", "rust"}
  /\ MaxCalls \in Nat
  /\ MaxTotal \in Nat
  /\ MaxInits \in Nat

VARIABLES
  client,      \* "none" (NULL) or "open"
  sess,        \* how many clients the caller has made: names the connection
  conn,        \* "none", "pending", "up", "broken" once the client has seen it
               \* end, or "cut": dead, and nothing has told the client
  last_error,  \* "empty", "exception" or "size"
  pc,          \* "idle", "send" or "wait": where pot_calculate is
  calls, arg,  \* number of calls made, and the input of the last
  rc,          \* what the last call returned; 1 before the first call
  out_energy,  \* the caller's buffers, named by the input they belong to
  out_forces,
  inbox,       \* requests at the server, or on their way
  sent, via,   \* each request and the connection it went by
  rep,         \* the response on its way to each call
  srv,         \* "down", or the kind of server that runs
  met,         \* the kinds of server that have run
  evals        \* how often the potential ran for each call

cvars == <<client, sess, last_error, pc, calls, arg, rc, out_energy, out_forces>>
nvars == <<conn, inbox, sent, via, rep>>
vars == <<client, sess, conn, last_error, pc, calls, arg, rc, out_energy,
          out_forces, inbox, sent, via, rep, srv, met, evals>>
svars == <<srv, met>>

Calls == Callers \X (1 .. MaxCalls)
Call(t) == <<t, calls[t]>>
Begun == {c \in Calls : c[2] <= calls[c[1]]}

NoRequest == [inp |-> None, pos |-> 0, atm |-> 0]
Request(i) == [inp |-> i, pos |-> 3 * i.n, atm |-> i.n]
NoReply == [kind |-> "none", inp |-> None, len |-> 0]
Failed == [kind |-> "exception", inp |-> None, len |-> 0]
Result(i, k) == [kind |-> "result", inp |-> i, len |-> k]

Init ==
  /\ client = [t \in Callers |-> "none"]
  /\ sess = [t \in Callers |-> 0]
  /\ conn = [t \in Callers |-> "none"]
  /\ last_error = [t \in Callers |-> "empty"]
  /\ pc = [t \in Callers |-> "idle"]
  /\ calls = [t \in Callers |-> 0]
  /\ arg = [t \in Callers |-> None]
  /\ rc = [t \in Callers |-> 1]
  /\ out_energy = [t \in Callers |-> None]
  /\ out_forces = [t \in Callers |-> None]
  /\ inbox = {}
  /\ sent = [c \in Calls |-> NoRequest]
  /\ via = [c \in Calls |-> 0]
  /\ rep = [c \in Calls |-> NoReply]
  /\ srv = "down"
  /\ met = {}
  /\ evals = [c \in Calls |-> 0]
-----------------------------------------------------------------------------
(* The bridge.                                                             *)

\* pot_client_init waits for nothing.  (With a NULL host or an address that
\* does not parse it returns NULL and there is no client.)
ClientInit(t) ==
  /\ client[t] = "none"
  /\ sess[t] < MaxInits
  /\ client' = [client EXCEPT ![t] = "open"]
  /\ sess' = [sess EXCEPT ![t] = @ + 1]
  /\ conn' = [conn EXCEPT ![t] = "pending"]
  /\ last_error' = [last_error EXCEPT ![t] = "empty"]
  /\ UNCHANGED <<pc, calls, arg, rc, out_energy, out_forces,
                 inbox, sent, via, rep, svars, evals>>

\* pot_client_free: the connection goes with the client.
ClientFree(t) ==
  /\ client[t] = "open"
  /\ pc[t] = "idle"
  /\ client' = [client EXCEPT ![t] = "none"]
  /\ conn' = [conn EXCEPT ![t] = "none"]
  /\ UNCHANGED <<sess, last_error, pc, calls, arg, rc, out_energy, out_forces,
                 inbox, sent, via, rep, svars, evals>>

BeginCall(t, i) ==
  /\ pc[t] = "idle"
  /\ calls[t] < MaxCalls
  /\ Cardinality(Begun) < MaxTotal
  /\ calls' = [calls EXCEPT ![t] = @ + 1]
  /\ arg' = [arg EXCEPT ![t] = i]

\* A NULL client: -1, and nowhere to put a message.
CalculateNull(t, i) ==
  /\ client[t] = "none"
  /\ BeginCall(t, i)
  /\ rc' = [rc EXCEPT ![t] = -1]
  /\ UNCHANGED <<client, sess, last_error, pc, out_energy, out_forces,
                 nvars, svars, evals>>

\* last_error.clear(), and the request is built.
StartKeepingError(t, i) ==
  /\ client[t] = "open"
  /\ BeginCall(t, i)
  /\ pc' = [pc EXCEPT ![t] = "send"]
  /\ UNCHANGED <<client, sess, last_error, rc, out_energy, out_forces,
                 nvars, svars, evals>>
Calculate(t, i) ==
  /\ client[t] = "open"
  /\ BeginCall(t, i)
  /\ last_error' = [last_error EXCEPT ![t] = "empty"]
  /\ pc' = [pc EXCEPT ![t] = "send"]
  /\ UNCHANGED <<client, sess, rc, out_energy, out_forces, nvars, svars, evals>>

\* send(): the connection is there, or it is made now that the event loop
\* runs, and the request leaves.  Into a connection that was cut it is written
\* all the same, and arrives nowhere.
Send(t) ==
  /\ pc[t] = "send"
  /\ conn[t] \in {"up", "cut"} \/ (conn[t] = "pending" /\ srv # "down")
  /\ conn' = [conn EXCEPT ![t] = IF @ = "cut" THEN "cut" ELSE "up"]
  /\ pc' = [pc EXCEPT ![t] = "wait"]
  /\ inbox' = IF conn[t] = "cut" THEN inbox ELSE inbox \cup {Call(t)}
  /\ sent' = [sent EXCEPT ![Call(t)] = Request(arg[t])]
  /\ via' = [via EXCEPT ![Call(t)] = sess[t]]
  /\ UNCHANGED <<client, sess, last_error, calls, arg, rc, out_energy,
                 out_forces, rep, svars, evals>>

CannotConnect(t) ==
  /\ pc[t] = "send"
  /\ conn[t] = "pending"
  /\ conn' = [conn EXCEPT ![t] = "broken"]
  /\ UNCHANGED <<cvars, inbox, sent, via, rep, svars, evals>>

Return(t, code, why) ==
  /\ pc' = [pc EXCEPT ![t] = "idle"]
  /\ rc' = [rc EXCEPT ![t] = code]
  /\ last_error' = [last_error EXCEPT ![t] = why]

\* wait() throws: CATCH_AND_REPORT.  The connection stays broken.
DisconnectedRetries(t) ==
  /\ pc[t] \in {"send", "wait"}
  /\ conn[t] = "broken"
  /\ pc[t] = "wait" => rep[Call(t)].kind = "none"
  /\ pc' = [pc EXCEPT ![t] = "send"]
  /\ conn' = [conn EXCEPT ![t] = "pending"]
  /\ UNCHANGED <<client, sess, last_error, calls, arg, rc, out_energy, out_forces,
                 inbox, sent, via, rep, svars, evals>>
Disconnected(t) ==
  /\ pc[t] \in {"send", "wait"}
  /\ conn[t] = "broken"
  /\ pc[t] = "wait" => rep[Call(t)].kind = "none"
  /\ Return(t, -1, "exception")
  /\ UNCHANGED <<client, sess, calls, arg, out_energy, out_forces,
                 nvars, svars, evals>>

FitsUnchecked(r, n) == TRUE
Fits(r, n) == r.len = 3 * n

\* The energy is stored first; forces are copied if there are enough.
Receive(t) ==
  LET r == rep[Call(t)]
      n == arg[t].n
  IN /\ pc[t] = "wait"
     /\ r.kind # "none"
     /\ \/ /\ r.kind = "exception"
           /\ Return(t, -1, "exception")
           /\ UNCHANGED <<out_energy, out_forces>>
        \/ /\ r.kind = "result"
           /\ out_energy' = [out_energy EXCEPT ![t] = r.inp]
           /\ \/ /\ Fits(r, n)
                 /\ out_forces' = [out_forces EXCEPT ![t] =
                                     IF r.len = 3 * n THEN r.inp ELSE None]
                 /\ Return(t, 0, last_error[t])
              \/ /\ ~Fits(r, n)
                 /\ Return(t, -2, "size")
                 /\ UNCHANGED out_forces
     /\ rep' = [rep EXCEPT ![Call(t)] = NoReply]
     /\ UNCHANGED <<client, sess, calls, arg, conn, inbox, sent, via, svars, evals>>
-----------------------------------------------------------------------------
(* The server and the network.                                             *)

ServerStart(k) ==
  /\ srv = "down"
  /\ srv' = k
  /\ met' = met \cup {k}
  /\ UNCHANGED <<cvars, nvars, evals>>

\* GenericPotImpl::calculate counts atoms by the positions and insists on as
\* many species; the Rust handler counts the species.
PotservAtoms(r) == r.pos \div 3

Refused(r) == srv = "potserv" /\ r.atm # PotservAtoms(r)

ReplyUnscaled(r, hasForces) ==
  IF Refused(r) \/ ~r.inp.ok THEN Failed ELSE Result(r.inp, PotservAtoms(r))
ReplySwallowed(r, hasForces) ==
  IF Refused(r) \/ ~r.inp.ok THEN NoReply ELSE Result(r.inp, PotservAtoms(r) * 3)
Reply(r, hasForces) ==
  IF Refused(r) \/ ~r.inp.ok THEN Failed
  ELSE Result(r.inp, IF srv = "potserv" THEN PotservAtoms(r) * 3
                     ELSE IF hasForces THEN r.atm * 3 ELSE 0)

\* The handler runs to its end on the server's only thread; its answer gets
\* through if the connection it came by is still the caller's.
Serve(c, hasForces) ==
  LET t == c[1]
  IN /\ srv # "down"
     /\ c \in inbox
     /\ srv = "potserv" => hasForces
     /\ inbox' = inbox \ {c}
     /\ evals' = [evals EXCEPT ![c] = IF Refused(sent[c]) THEN @ ELSE @ + 1]
     /\ rep' = [rep EXCEPT ![c] = IF conn[t] = "up" /\ via[c] = sess[t]
                                  THEN Reply(sent[c], hasForces) ELSE @]
     /\ UNCHANGED <<cvars, conn, sent, via, svars>>

\* A connection ends at any moment; what was in flight may or may not survive.
\* The client is told, or it is not, or it is later: neither side asks for a
\* keepalive.
Ends == {"broken", "cut"}

LoseConnection(t, how) ==
  /\ conn[t] = "up" \/ (conn[t] = "cut" /\ how = "broken")
  /\ conn' = [conn EXCEPT ![t] = how]
  /\ inbox' \in {inbox, inbox \ {Call(t)}}
  /\ rep' \in {rep, [c \in Calls |-> IF c[1] = t THEN NoReply ELSE rep[c]]}
  /\ UNCHANGED <<cvars, sent, via, svars, evals>>

\* The server's process ends and every connection with it: its kernel closes
\* them, or the whole machine is gone and nobody does.
ServerCrash(how) ==
  /\ srv # "down"
  /\ srv' = "down"
  /\ conn' = [t \in Callers |-> IF conn[t] = "up" THEN how ELSE conn[t]]
  /\ inbox' = {}
  /\ \E lost \in SUBSET {c \in Calls : rep[c].kind # "none"} :
        rep' = [c \in Calls |-> IF c \in lost THEN NoReply ELSE rep[c]]
  /\ UNCHANGED <<cvars, sent, via, met, evals>>
-----------------------------------------------------------------------------
CallerNext(t) ==
  \/ ClientInit(t) \/ ClientFree(t)
  \/ \E i \in Inputs : CalculateNull(t, i) \/ Calculate(t, i)
  \/ Send(t) \/ CannotConnect(t) \/ Disconnected(t) \/ Receive(t)

Next ==
  \/ \E t \in Callers : CallerNext(t)
  \/ \E t \in Callers, how \in Ends : LoseConnection(t, how)
  \/ \E k \in Kinds : ServerStart(k)
  \/ \E c \in Calls, f \in BOOLEAN : Serve(c, f)
  \/ \E how \in Ends : ServerCrash(how)

(* A thread inside pot_calculate runs its event loop, and so does a server *)
(* that is up; its potential returns.  Nothing makes anyone start either,  *)
(* and nothing makes the network tell a client that it was cut off.        *)
Fairness ==
  /\ \A t \in Callers : WF_vars(Send(t) \/ CannotConnect(t)
                                  \/ Disconnected(t) \/ Receive(t))
  /\ \A c \in Calls : WF_vars(\E f \in BOOLEAN : Serve(c, f))

Spec == Init /\ [][Next]_vars /\ Fairness
-----------------------------------------------------------------------------
TypeOK ==
  /\ client \in [Callers -> {"none", "open"}]
  /\ sess \in [Callers -> 0 .. MaxInits]
  /\ conn \in [Callers -> {"none", "pending", "up"} \cup Ends]
  /\ last_error \in [Callers -> {"empty", "exception", "size"}]
  /\ pc \in [Callers -> {"idle", "send", "wait"}]
  /\ calls \in [Callers -> 0 .. MaxCalls]
  /\ arg \in [Callers -> Inputs \cup {None}]
  /\ rc \in [Callers -> -2 .. 1]
  /\ out_energy \in [Callers -> Inputs \cup {None}]
  /\ out_forces \in [Callers -> Inputs \cup {None}]
  /\ inbox \subseteq Calls
  /\ sent \in [Calls -> [inp : Inputs \cup {None}, pos : Nat, atm : Nat]]
  /\ via \in [Calls -> 0 .. MaxInits]
  /\ rep \in [Calls -> [kind : {"none", "result", "exception"},
                        inp : Inputs \cup {None}, len : Nat]]
  /\ srv \in {"down"} \cup Kinds
  /\ met \subseteq Kinds
  /\ evals \in [Calls -> 0 .. 1]

(* pot_get_last_error speaks of the last call through the client, and says *)
(* nothing after one that succeeded (pot_bridge.cc:119, 173): it is never  *)
(* the message of an earlier failure.  A client whose connection is still  *)
(* pending has made no call.                                               *)
ErrorTextIsCurrent ==
  \A t \in Callers : client[t] = "open" /\ pc[t] = "idle" =>
    last_error[t] = IF conn[t] = "pending" THEN "empty"
                    ELSE CASE rc[t] = -1 -> "exception"
                           [] rc[t] = -2 -> "size"
                           [] OTHER      -> "empty"

(* The buffers are used again for every call, and a failed call may have   *)
(* overwritten the energy alone (pot_bridge.cc:145-157).  With potserv at  *)
(* the other end that cannot happen: its force arrays always fit, so the   *)
(* energy and the forces in the buffers always belong to the same          *)
(* configuration, however many calls failed since.                         *)
PotservKeepsPairs ==
  met \subseteq {"potserv"} =>
    \A t \in Callers : rc[t] # -2 /\ out_energy[t] = out_forces[t]

(* The forces buffer changes only in a call that returns 0, whatever the   *)
(* server sends (pot_bridge.cc:154-161).                                   *)
FailureKeepsForces ==
  [][\A t \in Callers : out_forces'[t] # out_forces[t] =>
       rc'[t] = 0 /\ out_forces'[t] = arg[t]]_vars

(* The bridge gives every call one answer, its own, and evaluates at most  *)
(* once for it, across lost connections, new clients and server restarts.  *)
Service == INSTANCE PotentialService WITH
  pending <- {t \in Callers : pc[t] # "idle"},
  answer  <- [t \in Callers |->
               IF pc[t] = "idle" /\ rc[t] = 0
               THEN [energy |-> out_energy[t], forces |-> out_forces[t]]
               ELSE [energy |-> None, forces |-> None]]

ImplementsService == Service!Spec

(* pot_calculate returns, whatever becomes of the server, of the other     *)
(* callers and of connections that are seen to end, those that never came  *)
(* up included.  Only a connection that is cut without notice, and for as  *)
(* long as nothing tells the client, leaves the wait of pot_bridge.cc:142  *)
(* without an end.                                                         *)
CalculateReturns ==
  \A t \in Callers : pc[t] # "idle" ~> pc[t] = "idle" \/ conn[t] = "cut"
=============================================================================
