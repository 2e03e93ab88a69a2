-------------------------- MODULE PotBridgeProofs --------------------------
(***************************************************************************)
(* Proofs about PotBridge for any callers, inputs, servers and bounds.     *)
(***************************************************************************)
EXTENDS PotBridge, TLAPS

(***************************************************************************)
(* The inductive invariant, in parts.                                      *)
(***************************************************************************)

\* Inside pot_calculate there is a client, whose message was cleared, and a
\* call that waits has had its connection.
InvCalls ==
  \A t \in Callers :
    /\ client[t] = "none" <=> conn[t] = "none"
    /\ pc[t] # "idle" =>
         /\ client[t] = "open"
         /\ calls[t] \in 1 .. MaxCalls
         /\ arg[t] \in Inputs
         /\ last_error[t] = "empty"
    /\ pc[t] = "wait" => /\ conn[t] # "pending"
                         /\ sent[Call(t)] = Request(arg[t])

\* Nothing of a call is on the network before it was sent.
Unsent(c) == evals[c] = 0 /\ c \notin inbox /\ rep[c] = NoReply

InvUnsent ==
  \A t \in Callers, k \in 1 .. MaxCalls :
    k > calls[t] \/ (k = calls[t] /\ pc[t] = "send") => Unsent(<<t, k>>)

\* A request waits at the server, then it was evaluated, then answered.
InvOnce ==
  \A c \in Calls :
    /\ c \in inbox => evals[c] = 0 /\ rep[c] = NoReply
    /\ rep[c].kind = "result" => evals[c] = 1

\* What travels for a call belongs to the input that was sent.
InvWire ==
  \A c \in Calls :
    /\ c \in inbox => sent[c].inp \in Inputs /\ sent[c] = Request(sent[c].inp)
    /\ rep[c].kind = "result" => rep[c].inp = sent[c].inp

\* A call that returned 0 left the energy and the forces of its own input.
InvAnswer ==
  \A t \in Callers : pc[t] = "idle" /\ rc[t] = 0 =>
    arg[t] \in Inputs /\ out_energy[t] = arg[t] /\ out_forces[t] = arg[t]

\* As long as only potserv has run, every result on its way fits.
InvPotserv ==
  /\ srv # "down" => srv \in met
  /\ met \subseteq {"potserv"} =>
       \A c \in Calls : rep[c].kind = "result" => rep[c].len = 3 * sent[c].inp.n

IndInv ==
  /\ TypeOK /\ InvCalls /\ InvUnsent /\ InvOnce /\ InvWire /\ InvAnswer
  /\ InvPotserv /\ ErrorTextIsCurrent /\ PotservKeepsPairs
-----------------------------------------------------------------------------
USE BridgeAssumption DEF Calls, Call, NoReply, Request, Failed, Result, Ends

LEMMA InitInv == Init => IndInv
<1> SUFFICES ASSUME Init PROVE IndInv
    OBVIOUS
<1>1. TypeOK
      BY DEF Init, TypeOK, NoRequest
<1>2. InvCalls /\ InvUnsent /\ InvOnce /\ InvWire /\ InvAnswer /\ InvPotserv
      BY DEF Init, InvCalls, InvUnsent, Unsent, InvOnce, InvWire, InvAnswer, InvPotserv
<1>3. ErrorTextIsCurrent /\ PotservKeepsPairs
      BY DEF Init, ErrorTextIsCurrent, PotservKeepsPairs
<1> QED BY <1>1, <1>2, <1>3 DEF IndInv

(* A new client starts with a pending connection and no message. *)
LEMMA ClientInitInv ==
  ASSUME IndInv, NEW t \in Callers, ClientInit(t)
  PROVE  IndInv'
<1> USE DEF IndInv, TypeOK, ClientInit, cvars, nvars, svars
<1>1. TypeOK'
      BY DEF InvCalls, InvWire
<1>2. InvCalls'
      BY DEF InvCalls
<1>3. InvUnsent' /\ InvOnce'
      BY DEF InvCalls, InvUnsent, Unsent, InvOnce
<1>4. InvWire'
      BY DEF InvCalls, InvUnsent, Unsent, InvOnce, InvWire
<1>5. InvAnswer'
      BY DEF InvCalls, InvWire, InvAnswer
<1>6. InvPotserv'
      BY DEF InvCalls, InvUnsent, Unsent, InvOnce, InvWire, InvPotserv
<1>7. ErrorTextIsCurrent' /\ PotservKeepsPairs'
  <2>1. PotservKeepsPairs'
        BY DEF PotservKeepsPairs
  <2>2. \A u \in Callers \ {t} : /\ client'[u] = client[u] /\ conn'[u] = conn[u]
                                 /\ last_error'[u] = last_error[u]
        OBVIOUS
  <2>3. conn'[t] = "pending" /\ last_error'[t] = "empty"
        OBVIOUS
  <2>4. ErrorTextIsCurrent'
        BY <2>2, <2>3 DEF ErrorTextIsCurrent
  <2> QED BY <2>1, <2>4
<1> HIDE DEF IndInv, TypeOK
<1> QED BY <1>1, <1>2, <1>3, <1>4, <1>5, <1>6, <1>7 DEF IndInv

LEMMA ClientFreeInv ==
  ASSUME IndInv, NEW t \in Callers, ClientFree(t)
  PROVE  IndInv'
<1> USE DEF IndInv, TypeOK, ClientFree, cvars, nvars, svars
<1>1. TypeOK'
      BY DEF InvCalls, InvWire
<1>2. InvCalls'
      BY DEF InvCalls
<1>3. InvUnsent' /\ InvOnce'
      BY DEF InvCalls, InvUnsent, Unsent, InvOnce
<1>4. InvWire'
      BY DEF InvCalls, InvUnsent, Unsent, InvOnce, InvWire
<1>5. InvAnswer'
      BY DEF InvCalls, InvWire, InvAnswer
<1>6. InvPotserv'
      BY DEF InvCalls, InvUnsent, Unsent, InvOnce, InvWire, InvPotserv
<1>7. ErrorTextIsCurrent' /\ PotservKeepsPairs'
      BY DEF InvCalls, InvPotserv, ErrorTextIsCurrent, PotservKeepsPairs
<1> HIDE DEF IndInv, TypeOK
<1> QED BY <1>1, <1>2, <1>3, <1>4, <1>5, <1>6, <1>7 DEF IndInv

(* A call without a client takes a number that never sends anything. *)
LEMMA CalculateNullInv ==
  ASSUME IndInv, NEW t \in Callers, NEW i \in Inputs, CalculateNull(t, i)
  PROVE  IndInv'
<1> USE DEF IndInv, TypeOK, CalculateNull, BeginCall, cvars, nvars, svars
<1>1. TypeOK'
      BY DEF InvCalls, InvWire
<1>2. InvCalls'
      BY DEF InvCalls
<1>3. InvUnsent' /\ InvOnce'
      BY DEF InvCalls, InvUnsent, Unsent, InvOnce
<1>4. InvWire'
      BY DEF InvCalls, InvUnsent, Unsent, InvOnce, InvWire
<1>5. InvAnswer'
      BY DEF InvCalls, InvWire, InvAnswer
<1>6. InvPotserv'
      BY DEF InvCalls, InvUnsent, Unsent, InvOnce, InvWire, InvPotserv
<1>7. ErrorTextIsCurrent' /\ PotservKeepsPairs'
      BY DEF InvCalls, InvPotserv, ErrorTextIsCurrent, PotservKeepsPairs
<1> HIDE DEF IndInv, TypeOK
<1> QED BY <1>1, <1>2, <1>3, <1>4, <1>5, <1>6, <1>7 DEF IndInv

LEMMA CalculateInv ==
  ASSUME IndInv, NEW t \in Callers, NEW i \in Inputs, Calculate(t, i)
  PROVE  IndInv'
<1> USE DEF IndInv, TypeOK, Calculate, BeginCall, cvars, nvars, svars
<1>1. TypeOK'
      BY DEF InvCalls, InvWire
<1>2. InvCalls'
      BY DEF InvCalls
<1>3. InvUnsent' /\ InvOnce'
      BY DEF InvCalls, InvUnsent, Unsent, InvOnce
<1>4. InvWire'
      BY DEF InvCalls, InvUnsent, Unsent, InvOnce, InvWire
<1>5. InvAnswer'
      BY DEF InvCalls, InvWire, InvAnswer
<1>6. InvPotserv'
      BY DEF InvCalls, InvUnsent, Unsent, InvOnce, InvWire, InvPotserv
<1>7. ErrorTextIsCurrent' /\ PotservKeepsPairs'
      BY DEF InvCalls, InvPotserv, ErrorTextIsCurrent, PotservKeepsPairs
<1> HIDE DEF IndInv, TypeOK
<1> QED BY <1>1, <1>2, <1>3, <1>4, <1>5, <1>6, <1>7 DEF IndInv

(* The number of a call that sends is unused, so its request is new. *)
LEMMA SendInv ==
  ASSUME IndInv, NEW t \in Callers, Send(t)
  PROVE  IndInv'
<1> USE DEF IndInv, TypeOK, Send, cvars, nvars, svars
<1>1. TypeOK'
      BY DEF InvCalls, InvWire
<1>2. InvCalls'
      BY DEF InvCalls
<1>3. InvUnsent' /\ InvOnce'
      BY DEF InvCalls, InvUnsent, Unsent, InvOnce
<1>4. InvWire'
      BY DEF InvCalls, InvUnsent, Unsent, InvOnce, InvWire
<1>5. InvAnswer'
      BY DEF InvCalls, InvWire, InvAnswer
<1>6. InvPotserv'
      BY DEF InvCalls, InvUnsent, Unsent, InvOnce, InvWire, InvPotserv
<1>7. ErrorTextIsCurrent' /\ PotservKeepsPairs'
      BY DEF InvCalls, InvPotserv, ErrorTextIsCurrent, PotservKeepsPairs
<1> HIDE DEF IndInv, TypeOK
<1> QED BY <1>1, <1>2, <1>3, <1>4, <1>5, <1>6, <1>7 DEF IndInv

LEMMA CannotConnectInv ==
  ASSUME IndInv, NEW t \in Callers, CannotConnect(t)
  PROVE  IndInv'
<1> USE DEF IndInv, TypeOK, CannotConnect, cvars, nvars, svars
<1>1. TypeOK'
      BY DEF InvCalls, InvWire
<1>2. InvCalls'
      BY DEF InvCalls
<1>3. InvUnsent' /\ InvOnce'
      BY DEF InvCalls, InvUnsent, Unsent, InvOnce
<1>4. InvWire'
      BY DEF InvCalls, InvUnsent, Unsent, InvOnce, InvWire
<1>5. InvAnswer'
      BY DEF InvCalls, InvWire, InvAnswer
<1>6. InvPotserv'
      BY DEF InvCalls, InvUnsent, Unsent, InvOnce, InvWire, InvPotserv
<1>7. ErrorTextIsCurrent' /\ PotservKeepsPairs'
      BY DEF InvCalls, InvPotserv, ErrorTextIsCurrent, PotservKeepsPairs
<1> HIDE DEF IndInv, TypeOK
<1> QED BY <1>1, <1>2, <1>3, <1>4, <1>5, <1>6, <1>7 DEF IndInv

LEMMA DisconnectedInv ==
  ASSUME IndInv, NEW t \in Callers, Disconnected(t)
  PROVE  IndInv'
<1> USE DEF IndInv, TypeOK, Disconnected, Return, cvars, nvars, svars
<1>1. TypeOK'
      BY DEF InvCalls, InvWire
<1>2. InvCalls'
      BY DEF InvCalls
<1>3. InvUnsent' /\ InvOnce'
      BY DEF InvCalls, InvUnsent, Unsent, InvOnce
<1>4. InvWire'
      BY DEF InvCalls, InvUnsent, Unsent, InvOnce, InvWire
<1>5. InvAnswer'
      BY DEF InvCalls, InvWire, InvAnswer
<1>6. InvPotserv'
      BY DEF InvCalls, InvUnsent, Unsent, InvOnce, InvWire, InvPotserv
<1>7. ErrorTextIsCurrent' /\ PotservKeepsPairs'
      BY DEF InvCalls, InvPotserv, ErrorTextIsCurrent, PotservKeepsPairs
<1> HIDE DEF IndInv, TypeOK
<1> QED BY <1>1, <1>2, <1>3, <1>4, <1>5, <1>6, <1>7 DEF IndInv

(* A response is an exception, or a result of the input that was sent. *)
LEMMA ReceiveInv ==
  ASSUME IndInv, NEW t \in Callers, Receive(t)
  PROVE  IndInv'
<1> DEFINE c == Call(t)
           r == rep[c]
           n == arg[t].n
<1>1. /\ c \in Calls
      /\ pc[t] = "wait"
      /\ r.kind \in {"result", "exception"}
      /\ arg[t] \in Inputs
      /\ n \in Nat
      /\ sent[c] = Request(arg[t])
      /\ last_error[t] = "empty"
      /\ client[t] = "open"
      /\ conn[t] \in {"up", "cut", "broken"}
      BY DEF IndInv, TypeOK, InvCalls, Receive
<1>2. r.kind = "result" => r.inp = arg[t]
      BY <1>1 DEF IndInv, InvWire
<1>3. r.kind = "result" /\ met \subseteq {"potserv"} => r.len = 3 * n
      BY <1>1 DEF IndInv, InvPotserv
<1>4. /\ pc' = [pc EXCEPT ![t] = "idle"]
      /\ rep' = [rep EXCEPT ![c] = NoReply]
      /\ UNCHANGED <<client, sess, calls, arg, conn, inbox, sent, via, svars, evals>>
      BY DEF Receive, Return
<1>5. \/ /\ r.kind = "exception"
         /\ rc' = [rc EXCEPT ![t] = -1]
         /\ last_error' = [last_error EXCEPT ![t] = "exception"]
         /\ UNCHANGED <<out_energy, out_forces>>
      \/ /\ r.kind = "result"
         /\ r.len = 3 * n
         /\ rc' = [rc EXCEPT ![t] = 0]
         /\ last_error' = [last_error EXCEPT ![t] = "empty"]
         /\ out_energy' = [out_energy EXCEPT ![t] = arg[t]]
         /\ out_forces' = [out_forces EXCEPT ![t] = arg[t]]
      \/ /\ r.kind = "result"
         /\ r.len # 3 * n
         /\ rc' = [rc EXCEPT ![t] = -2]
         /\ last_error' = [last_error EXCEPT ![t] = "size"]
         /\ out_energy' = [out_energy EXCEPT ![t] = arg[t]]
         /\ UNCHANGED out_forces
      BY <1>1, <1>2 DEF Receive, Return, Fits
<1> HIDE DEF c, r, n
<1> USE <1>4 DEF IndInv, TypeOK, svars
<1>6. TypeOK'
  <2>1. rep' \in [Calls -> [kind : {"none", "result", "exception"},
                            inp : Inputs \cup {None}, len : Nat]]
        BY <1>1
  <2>2. rc' \in [Callers -> -2 .. 1]
    <3>1. -2 \in -2 .. 1 /\ -1 \in -2 .. 1 /\ 0 \in -2 .. 1
          OBVIOUS
    <3>2. \E k \in -2 .. 1 : rc' = [rc EXCEPT ![t] = k]
          BY <1>5, <3>1
    <3> QED BY <3>2
  <2>5. last_error' \in [Callers -> {"empty", "exception", "size"}]
        BY <1>5
  <2>3. /\ out_energy' \in [Callers -> Inputs \cup {None}]
        /\ out_forces' \in [Callers -> Inputs \cup {None}]
        BY <1>1, <1>5
  <2>4. pc' \in [Callers -> {"idle", "send", "wait"}]
        OBVIOUS
  <2> QED BY <2>1, <2>2, <2>3, <2>4, <2>5
<1>7. InvCalls'
      BY <1>1, <1>5 DEF InvCalls
<1>8. InvUnsent' /\ InvOnce'
      BY <1>1 DEF InvUnsent, Unsent, InvOnce
<1>9. InvWire' /\ InvPotserv'
      BY <1>1 DEF InvWire, InvPotserv
<1>10. InvAnswer'
  <2>1. arg[t] \in Inputs /\ arg' = arg
        BY <1>1 DEF InvCalls
  <2> QED BY <1>5, <2>1 DEF InvAnswer
<1>11. ErrorTextIsCurrent'
  <2>1. \A u \in Callers \ {t} : /\ pc'[u] = pc[u] /\ rc'[u] = rc[u]
                                 /\ last_error'[u] = last_error[u]
        BY <1>5
  <2>2. \/ rc'[t] = -1 /\ last_error'[t] = "exception"
        \/ rc'[t] = 0 /\ last_error'[t] = "empty"
        \/ rc'[t] = -2 /\ last_error'[t] = "size"
        BY <1>5
  <2> QED BY <1>1, <2>1, <2>2 DEF ErrorTextIsCurrent
<1>12. PotservKeepsPairs'
       BY <1>3, <1>5 DEF PotservKeepsPairs
<1> HIDE DEF IndInv, TypeOK
<1> QED BY <1>6, <1>7, <1>8, <1>9, <1>10, <1>11, <1>12 DEF IndInv

LEMMA LoseConnectionInv ==
  ASSUME IndInv, NEW t \in Callers, NEW how \in Ends, LoseConnection(t, how)
  PROVE  IndInv'
<1> USE DEF IndInv, TypeOK, LoseConnection, cvars, nvars, svars
<1>1. TypeOK'
      BY DEF InvCalls, InvWire
<1>2. InvCalls'
      BY DEF InvCalls
<1>3. InvUnsent' /\ InvOnce'
      BY DEF InvCalls, InvUnsent, Unsent, InvOnce
<1>4. InvWire'
  <2>1. \A c \in Calls : rep'[c] \in {rep[c], NoReply}
        OBVIOUS
  <2>2. \A c \in Calls : c \in inbox' => c \in inbox
        OBVIOUS
  <2> QED BY <2>1, <2>2 DEF InvWire
<1>5. InvAnswer'
      BY DEF InvCalls, InvWire, InvAnswer
<1>6. InvPotserv'
  <2>1. \A c \in Calls : rep'[c] \in {rep[c], NoReply}
        OBVIOUS
  <2>2. sent' = sent /\ srv' = srv /\ met' = met
        OBVIOUS
  <2> QED BY <2>1, <2>2 DEF InvPotserv
<1>7. ErrorTextIsCurrent' /\ PotservKeepsPairs'
      BY DEF InvCalls, InvPotserv, ErrorTextIsCurrent, PotservKeepsPairs
<1> HIDE DEF IndInv, TypeOK
<1> QED BY <1>1, <1>2, <1>3, <1>4, <1>5, <1>6, <1>7 DEF IndInv

LEMMA ServerStartInv ==
  ASSUME IndInv, NEW k \in Kinds, ServerStart(k)
  PROVE  IndInv'
<1> USE DEF IndInv, TypeOK, ServerStart, cvars, nvars, svars
<1>1. TypeOK'
      BY DEF InvCalls, InvWire
<1>2. InvCalls'
      BY DEF InvCalls
<1>3. InvUnsent' /\ InvOnce'
      BY DEF InvCalls, InvUnsent, Unsent, InvOnce
<1>4. InvWire'
      BY DEF InvCalls, InvUnsent, Unsent, InvOnce, InvWire
<1>5. InvAnswer'
      BY DEF InvCalls, InvWire, InvAnswer
<1>6. InvPotserv'
      BY DEF InvCalls, InvUnsent, Unsent, InvOnce, InvWire, InvPotserv
<1>7. ErrorTextIsCurrent' /\ PotservKeepsPairs'
      BY DEF InvCalls, InvPotserv, ErrorTextIsCurrent, PotservKeepsPairs
<1> HIDE DEF IndInv, TypeOK
<1> QED BY <1>1, <1>2, <1>3, <1>4, <1>5, <1>6, <1>7 DEF IndInv

(* The server evaluates a request it had not evaluated, for its own input. *)
LEMMA ServeInv ==
  ASSUME IndInv, NEW c \in Calls, NEW f \in BOOLEAN, Serve(c, f)
  PROVE  IndInv'
<1> USE DEF IndInv, TypeOK, Serve, Refused, Reply, PotservAtoms, cvars, nvars, svars
<1>1. TypeOK'
  <2>1. sent[c] \in [inp : Inputs \cup {None}, pos : Nat, atm : Nat]
        OBVIOUS
  <2>2. Reply(sent[c], f) \in [kind : {"none", "result", "exception"},
                               inp : Inputs \cup {None}, len : Nat]
        BY <2>1
  <2>3. evals' \in [Calls -> 0 .. 1]
        BY DEF InvOnce
  <2> HIDE DEF Reply
  <2>4. rep' \in [Calls -> [kind : {"none", "result", "exception"},
                            inp : Inputs \cup {None}, len : Nat]]
        BY <2>2
  <2>5. inbox' \subseteq Calls
        OBVIOUS
  <2> QED BY <2>3, <2>4, <2>5
<1>2. InvCalls'
      BY DEF InvCalls
<1>3. InvUnsent' /\ InvOnce'
      BY DEF InvCalls, InvUnsent, Unsent, InvOnce
<1>4. InvWire'
      BY DEF InvCalls, InvUnsent, Unsent, InvOnce, InvWire
<1>5. InvAnswer'
      BY DEF InvCalls, InvWire, InvAnswer
<1>6. InvPotserv'
      BY DEF InvCalls, InvUnsent, Unsent, InvOnce, InvWire, InvPotserv
<1>7. ErrorTextIsCurrent' /\ PotservKeepsPairs'
      BY DEF InvCalls, InvPotserv, ErrorTextIsCurrent, PotservKeepsPairs
<1> HIDE DEF IndInv, TypeOK
<1> QED BY <1>1, <1>2, <1>3, <1>4, <1>5, <1>6, <1>7 DEF IndInv

LEMMA ServerCrashInv ==
  ASSUME IndInv, NEW how \in Ends, ServerCrash(how)
  PROVE  IndInv'
<1> USE DEF IndInv, TypeOK, ServerCrash, cvars, nvars, svars
<1>1. TypeOK'
      BY DEF InvCalls, InvWire
<1>2. InvCalls'
      BY DEF InvCalls
<1>3. InvUnsent' /\ InvOnce'
      BY DEF InvCalls, InvUnsent, Unsent, InvOnce
<1>4. InvWire'
      BY DEF InvCalls, InvUnsent, Unsent, InvOnce, InvWire
<1>5. InvAnswer'
      BY DEF InvCalls, InvWire, InvAnswer
<1>6. InvPotserv'
      BY DEF InvCalls, InvUnsent, Unsent, InvOnce, InvWire, InvPotserv
<1>7. ErrorTextIsCurrent' /\ PotservKeepsPairs'
      BY DEF InvCalls, InvPotserv, ErrorTextIsCurrent, PotservKeepsPairs
<1> HIDE DEF IndInv, TypeOK
<1> QED BY <1>1, <1>2, <1>3, <1>4, <1>5, <1>6, <1>7 DEF IndInv

LEMMA NextInv == IndInv /\ [Next]_vars => IndInv'
<1> SUFFICES ASSUME IndInv, [Next]_vars PROVE IndInv'
    OBVIOUS
<1>1. ASSUME NEW t \in Callers, CallerNext(t) PROVE IndInv'
      BY <1>1, ClientInitInv, ClientFreeInv, CalculateNullInv, CalculateInv,
         SendInv, CannotConnectInv, DisconnectedInv, ReceiveInv DEF CallerNext
<1>2. CASE \/ \E t \in Callers, how \in Ends : LoseConnection(t, how)
           \/ \E k \in Kinds : ServerStart(k)
           \/ \E c \in Calls, f \in BOOLEAN : Serve(c, f)
           \/ \E how \in Ends : ServerCrash(how)
      BY <1>2, LoseConnectionInv, ServerStartInv, ServeInv, ServerCrashInv
<1>3. CASE UNCHANGED vars
  <2> USE <1>3 DEF IndInv, vars
  <2>1. TypeOK'
        BY DEF TypeOK
  <2>2. InvCalls' /\ InvUnsent' /\ InvOnce' /\ InvWire' /\ InvAnswer' /\ InvPotserv'
        BY DEF InvCalls, InvUnsent, Unsent, InvOnce, InvWire, InvAnswer, InvPotserv
  <2>3. ErrorTextIsCurrent' /\ PotservKeepsPairs'
        BY DEF ErrorTextIsCurrent, PotservKeepsPairs
  <2> QED BY <2>1, <2>2, <2>3
<1> QED BY <1>1, <1>2, <1>3 DEF Next

(* The inductive invariant holds throughout: what pot_calculate's position  *)
(* says of the client, the connection and the message (pot_bridge.cc:105-   *)
(* 173), and what a request or a response says of the call it is for.       *)
THEOREM Invariance == Spec => []IndInv
BY InitInv, NextInv, PTL DEF Spec

(* Every variable keeps its type: in particular no call is evaluated twice, *)
(* and a request or a response always belongs to a call that was made.      *)
THEOREM TypeCorrect == Spec => []TypeOK
<1>1. IndInv => TypeOK
      BY DEF IndInv
<1> QED BY <1>1, Invariance, PTL

(* pot_get_last_error speaks of the last call made through the client, over *)
(* any number of clients, failures and restarts (pot_bridge.cc:119, 173).   *)
THEOREM MessageIsCurrent == Spec => []ErrorTextIsCurrent
<1>1. IndInv => ErrorTextIsCurrent
      BY DEF IndInv
<1> QED BY <1>1, Invariance, PTL

(* With potserv alone at the other end, the energy and the forces in the    *)
(* caller's buffers always belong together (pot_bridge.cc:145-161).         *)
THEOREM PairsKept == Spec => []PotservKeepsPairs
<1>1. IndInv => PotservKeepsPairs
      BY DEF IndInv
<1> QED BY <1>1, Invariance, PTL

(* What pot_calculate does with a response: it fails and leaves the forces, *)
(* or it returns 0 with the energy and the forces of the call's own input.  *)
LEMMA ReceiveOutcome ==
  ASSUME IndInv, NEW t \in Callers, Receive(t)
  PROVE  \/ /\ rc' \in {[rc EXCEPT ![t] = -1], [rc EXCEPT ![t] = -2]}
            /\ UNCHANGED out_forces
         \/ /\ rep[Call(t)].kind = "result"
            /\ rc' = [rc EXCEPT ![t] = 0]
            /\ out_energy' = [out_energy EXCEPT ![t] = arg[t]]
            /\ out_forces' = [out_forces EXCEPT ![t] = arg[t]]
<1> DEFINE r == rep[Call(t)]
<1>1. Call(t) \in Calls /\ sent[Call(t)].inp = arg[t]
  <2>1. pc[t] = "wait"
        BY DEF Receive
  <2>2. calls[t] \in 1 .. MaxCalls /\ arg[t] \in Inputs /\ sent[Call(t)] = Request(arg[t])
        BY <2>1 DEF IndInv, InvCalls
  <2> QED BY <2>2
<1>2. r.kind = "result" => r.inp = arg[t]
      BY <1>1 DEF IndInv, InvWire
<1>3. \/ /\ rc' \in {[rc EXCEPT ![t] = -1], [rc EXCEPT ![t] = -2]}
         /\ UNCHANGED out_forces
      \/ /\ r.kind = "result"
         /\ rc' = [rc EXCEPT ![t] = 0]
         /\ out_energy' = [out_energy EXCEPT ![t] = r.inp]
         /\ out_forces' = [out_forces EXCEPT ![t] = r.inp]
      BY DEF Receive, Return, Fits
<1> QED BY <1>2, <1>3

(* Only a call that returns 0 changes the forces buffer, and it stores the  *)
(* forces of its own input, whichever server answers (pot_bridge.cc:154-    *)
(* 161).                                                                    *)
THEOREM ForcesKept == Spec => FailureKeepsForces
<1> DEFINE Kept == \A t \in Callers : out_forces'[t] # out_forces[t] =>
                      rc'[t] = 0 /\ out_forces'[t] = arg[t]
<1>1. ASSUME IndInv, [Next]_vars PROVE [Kept]_vars
  <2>1. ASSUME NEW t \in Callers, Receive(t) PROVE Kept
    <3>1. /\ rc \in [Callers -> -2 .. 1]
          /\ out_forces \in [Callers -> Inputs \cup {None}]
          BY <1>1 DEF IndInv, TypeOK
    <3>2. CASE UNCHANGED out_forces
          BY <3>2
    <3>3. CASE /\ rc' = [rc EXCEPT ![t] = 0]
               /\ out_forces' = [out_forces EXCEPT ![t] = arg[t]]
          BY <3>1, <3>3
    <3> QED BY <1>1, <2>1, <3>2, <3>3, ReceiveOutcome
  <2>2. CASE out_forces' = out_forces
        BY <2>2
  <2>3. (\E t \in Callers : Receive(t)) \/ out_forces' = out_forces
        BY <1>1 DEF Next, CallerNext, ClientInit, ClientFree, CalculateNull,
                    Calculate, Send, CannotConnect, Disconnected, LoseConnection,
                    ServerStart, Serve, ServerCrash, cvars, vars
  <2> QED BY <2>1, <2>2, <2>3
<1> QED BY <1>1, Invariance, PTL DEF Spec, FailureKeepsForces
-----------------------------------------------------------------------------
(***************************************************************************)
(* Refinement.  Pending and Answers name the two expressions that          *)
(* PotentialService's variables stand for.                                 *)
(***************************************************************************)
Pending == {t \in Callers : pc[t] # "idle"}
Answers == [t \in Callers |->
              IF pc[t] = "idle" /\ rc[t] = 0
              THEN [energy |-> out_energy[t], forces |-> out_forces[t]]
              ELSE [energy |-> None, forces |-> None]]

LEMMA InitRefines == Init => Service!Init
BY DEF Init, Service!Init, Service!Calls, Service!NoAnswer, Service!Answer

(* A call without a client is an invocation that fails at once. *)
LEMMA CalculateNullRefines ==
  ASSUME IndInv, NEW t \in Callers, NEW i \in Inputs, CalculateNull(t, i)
  PROVE  Service!InvokeAndFail(t, i)
<1> USE DEF CalculateNull, BeginCall
<1>1. Pending' = Pending
      BY DEF Pending
<1>2. Answers' = [Answers EXCEPT ![t] = [energy |-> None, forces |-> None]]
  <2>1. rc'[t] # 0 /\ \A u \in Callers \ {t} : rc'[u] = rc[u]
        BY DEF IndInv, TypeOK
  <2>2. UNCHANGED <<pc, out_energy, out_forces>>
        OBVIOUS
  <2> HIDE DEF CalculateNull, BeginCall
  <2> QED BY <2>1, <2>2 DEF Answers
<1> QED BY <1>1, <1>2 DEF Pending, Answers, Service!InvokeAndFail,
                          Service!NoAnswer, Service!Answer

(* The code of the call before stays in rc until this one returns, so the   *)
(* answer is taken back when the call begins and not when it ends.          *)
LEMMA CalculateRefines ==
  ASSUME IndInv, NEW t \in Callers, NEW i \in Inputs, Calculate(t, i)
  PROVE  Service!Invoke(t, i)
<1> USE DEF Calculate, BeginCall
<1>1. Pending' = Pending \cup {t}
      BY DEF IndInv, TypeOK, Pending
<1>2. Answers' = [Answers EXCEPT ![t] = [energy |-> None, forces |-> None]]
      BY DEF IndInv, TypeOK, Answers
<1> QED BY <1>1, <1>2 DEF Pending, Answers, Service!Invoke,
                          Service!NoAnswer, Service!Answer

LEMMA DisconnectedRefines ==
  ASSUME IndInv, NEW t \in Callers, Disconnected(t)
  PROVE  Service!Fail(t)
<1> USE DEF Disconnected, Return
<1>1. Pending' = Pending \ {t} /\ t \in Pending
      BY DEF IndInv, TypeOK, Pending
<1>2. Answers' = Answers
      BY DEF IndInv, TypeOK, Answers
<1> QED BY <1>1, <1>2 DEF Pending, Answers, Service!Fail

(* A response ends the call: with its own answer, evaluated once, if it has *)
(* the right number of forces, with an error otherwise.                     *)
LEMMA ReceiveRefines ==
  ASSUME IndInv, NEW t \in Callers, Receive(t)
  PROVE  Service!Succeed(t) \/ Service!Fail(t)
<1>1. Pending' = Pending \ {t} /\ t \in Pending
      BY DEF IndInv, TypeOK, Pending, Receive, Return
<1>2. UNCHANGED <<calls, arg, evals>> /\ pc' = [pc EXCEPT ![t] = "idle"]
      BY DEF Receive, Return
<1>3. pc[t] # "idle"
      BY DEF Receive
<1>4. CASE /\ rc' \in {[rc EXCEPT ![t] = -1], [rc EXCEPT ![t] = -2]}
           /\ UNCHANGED out_forces
  <2>1. rc'[t] # 0 /\ \A u \in Callers \ {t} : rc'[u] = rc[u]
        BY <1>4 DEF IndInv, TypeOK
  <2>2. \A u \in Callers \ {t} : pc'[u] = pc[u] /\ out_energy'[u] = out_energy[u]
        BY DEF IndInv, TypeOK, Receive, Return
  <2>3. Answers' = Answers
        BY <1>3, <1>4, <2>1, <2>2 DEF Answers
  <2> QED BY <1>1, <1>2, <2>3 DEF Pending, Answers, Service!Fail
<1>5. CASE /\ rep[Call(t)].kind = "result"
           /\ rc' = [rc EXCEPT ![t] = 0]
           /\ out_energy' = [out_energy EXCEPT ![t] = arg[t]]
           /\ out_forces' = [out_forces EXCEPT ![t] = arg[t]]
  <2>1. evals[Call(t)] = 1
        BY <1>3, <1>5 DEF IndInv, TypeOK, InvCalls, InvOnce
  <2>2. Answers' = [Answers EXCEPT ![t] = [energy |-> arg[t], forces |-> arg[t]]]
        BY <1>2, <1>5 DEF Answers, IndInv, TypeOK
  <2> QED BY <1>1, <1>2, <2>1, <2>2 DEF Pending, Answers, Service!Succeed,
                                        Service!Answer
<1> QED BY <1>4, <1>5, ReceiveOutcome

(* The server evaluates the potential for a call that is under way or was   *)
(* given up, for the first time; a refused request reaches no potential.    *)
LEMMA ServeRefines ==
  ASSUME IndInv, NEW c \in Calls, NEW f \in BOOLEAN, Serve(c, f)
  PROVE  Service!Evaluate(c) \/ UNCHANGED Service!vars
<1>1. evals[c] = 0 /\ c \in inbox
      BY DEF IndInv, Serve, InvOnce
<1>2. c[2] <= calls[c[1]]
      BY <1>1 DEF IndInv, TypeOK, InvUnsent, Unsent
<1>3. UNCHANGED <<pc, calls, arg, rc, out_energy, out_forces>>
      BY DEF Serve, cvars
<1>4. evals' = evals \/ evals' = [evals EXCEPT ![c] = 1]
  <2>1. evals' = [evals EXCEPT ![c] = IF Refused(sent[c]) THEN evals[c] ELSE evals[c] + 1]
        BY DEF Serve
  <2>2. evals \in [Calls -> 0 .. 1]
        BY DEF IndInv, TypeOK
  <2>3. CASE Refused(sent[c])
        BY <2>1, <2>2, <2>3
  <2>4. CASE ~Refused(sent[c])
    <3>1. evals[c] + 1 = 1
          BY <1>1
    <3> QED BY <2>1, <2>4, <3>1
  <2> QED BY <2>3, <2>4
<1> QED BY <1>1, <1>2, <1>3, <1>4 DEF Service!Evaluate, Service!vars

(* Everything else is invisible to the callers. *)
LEMMA StutterRefines ==
  ASSUME IndInv,
         \/ \E t \in Callers : \/ ClientInit(t) \/ ClientFree(t) \/ Send(t)
                               \/ CannotConnect(t)
         \/ \E t \in Callers, how \in Ends : LoseConnection(t, how)
         \/ \E k \in Kinds : ServerStart(k)
         \/ \E how \in Ends : ServerCrash(how)
         \/ UNCHANGED vars
  PROVE  UNCHANGED Service!vars
<1> USE DEF ClientInit, ClientFree, Send, CannotConnect, LoseConnection,
            ServerStart, ServerCrash, vars, cvars
<1>1. UNCHANGED <<calls, arg, evals, rc, out_energy, out_forces>>
      OBVIOUS
<1>2. \A t \in Callers : pc[t] = "idle" <=> pc'[t] = "idle"
  <2>1. ASSUME NEW u \in Callers, Send(u) PROVE pc[u] = "send" /\ pc' = [pc EXCEPT ![u] = "wait"]
        BY <2>1
  <2>2. (\E u \in Callers : Send(u)) \/ pc' = pc
        OBVIOUS
  <2> HIDE DEF Send
  <2>3. ASSUME NEW u \in Callers, Send(u), NEW t \in Callers
        PROVE  pc[t] = "idle" <=> pc'[t] = "idle"
        BY <2>1, <2>3 DEF IndInv, TypeOK
  <2> QED BY <2>2, <2>3
<1>3. Pending' = Pending /\ Answers' = Answers
      BY <1>1, <1>2 DEF Pending, Answers
<1> QED BY <1>1, <1>3 DEF Service!vars, Pending, Answers

LEMMA NextRefines ==
  IndInv /\ [Next]_vars => [Service!Next]_(Service!vars)
<1> SUFFICES ASSUME IndInv, [Next]_vars
             PROVE  Service!Next \/ UNCHANGED Service!vars
    OBVIOUS
<1>1. ASSUME NEW t \in Callers, NEW i \in Inputs, CalculateNull(t, i) \/ Calculate(t, i)
      PROVE  Service!Next
      BY <1>1, CalculateNullRefines, CalculateRefines DEF Service!Next
<1>2. ASSUME NEW t \in Callers, Disconnected(t) \/ Receive(t)
      PROVE  Service!Next
      BY <1>2, DisconnectedRefines, ReceiveRefines DEF Service!Next
<1>3. ASSUME NEW c \in Calls, NEW f \in BOOLEAN, Serve(c, f)
      PROVE  Service!Next \/ UNCHANGED Service!vars
      BY <1>3, ServeRefines DEF Service!Next, Service!Calls
<1>4. CASE \/ \E t \in Callers : \/ ClientInit(t) \/ ClientFree(t) \/ Send(t)
                                 \/ CannotConnect(t)
           \/ \E t \in Callers, how \in Ends : LoseConnection(t, how)
           \/ \E k \in Kinds : ServerStart(k)
           \/ \E how \in Ends : ServerCrash(how)
           \/ UNCHANGED vars
      BY <1>4, StutterRefines
<1> QED BY <1>1, <1>2, <1>3, <1>4 DEF Next, CallerNext

(* For any callers, inputs, servers and bounds, the bridge gives every call *)
(* one answer, its own input's energy and forces or an error, and has the   *)
(* potential evaluated at most once for it, across lost connections, new    *)
(* clients and server restarts.                                             *)
THEOREM Refinement == Spec => ImplementsService
<1> USE InitRefines, NextRefines, Invariance
<1> QED BY PTL DEF Spec, ImplementsService, Service!Spec
-----------------------------------------------------------------------------
(* The abstract service once more, with the theorems about it, to carry    *)
(* what it promises over to the variables of this module.                  *)
Promised == INSTANCE PotentialServiceProofs WITH
  pending <- Pending,
  answer  <- Answers

LEMMA PromiseTransfers == Spec => []Promised!IndInv
<1>1. MaxCalls \in Nat
  BY BridgeAssumption
<1>2. Promised!Spec => []Promised!IndInv
  BY <1>1, Promised!Invariance
<1>3. Service!Init => Promised!Init
  BY DEF Pending, Answers,
         Service!Init, Promised!Init, Service!Calls, Promised!Calls,
         Service!NoAnswer, Promised!NoAnswer, Service!Answer,
         Promised!Answer
<1>4. [Service!Next]_Service!vars => [Promised!Next]_Promised!vars
  BY DEF Pending, Answers,
         Service!Next, Promised!Next, Service!Invoke, Promised!Invoke,
         Service!InvokeAndFail, Promised!InvokeAndFail, Service!Evaluate,
         Promised!Evaluate, Service!Succeed, Promised!Succeed, Service!Fail,
         Promised!Fail, Service!Calls, Promised!Calls, Service!NoAnswer,
         Promised!NoAnswer, Service!Answer, Promised!Answer, Service!vars,
         Promised!vars
<1>. QED  BY <1>2, <1>3, <1>4, Refinement, PTL
          DEF ImplementsService, Service!Spec, Promised!Spec

\* What a caller of pot_calculate may conclude from a return value of 0.
SuccessIsOwnAnswer ==
  /\ \A t \in Callers : pc[t] = "idle" /\ rc[t] = 0 =>
       /\ out_energy[t] = arg[t] /\ out_forces[t] = arg[t]
       /\ evals[Call(t)] = 1
  /\ \A c \in Calls : evals[c] \in {0, 1}

(* A call that returns 0 left the energy and the forces of its own input   *)
(* and the potential ran exactly once for it; for no call, failed or given *)
(* up, does it run twice, although the connection outlives the call.       *)
THEOREM AnswersAreOwn == Spec => []SuccessIsOwnAnswer
<1>1. ASSUME IndInv, Promised!IndInv PROVE SuccessIsOwnAnswer
  <2>1. ASSUME NEW t \in Callers, pc[t] = "idle", rc[t] = 0
        PROVE  evals[Call(t)] = 1
    <3>1. arg[t] # None /\ Answers[t] = [energy |-> arg[t], forces |-> arg[t]]
      BY <1>1, <2>1 DEF IndInv, InvAnswer, Answers
    <3>2. Answers[t] # Promised!NoAnswer
      BY <3>1 DEF Promised!NoAnswer, Promised!Answer
    <3>. QED  BY <1>1, <3>2 DEF Promised!IndInv, Promised!Promise
  <2>2. \A c \in Calls : evals[c] \in {0, 1}
    BY <1>1 DEF Promised!IndInv, Promised!EvaluatedOnce, Promised!Calls
  <2>. QED  BY <1>1, <2>1, <2>2 DEF IndInv, InvAnswer, SuccessIsOwnAnswer
<1>. QED  BY <1>1, PromiseTransfers, Invariance, PTL
=============================================================================
