-------------------------- MODULE PotentialService --------------------------
(***************************************************************************)
(* What a remote potential promises its callers, with no network in it.    *)
(*                                                                         *)
(* A caller invokes the potential on an input and the call ends exactly    *)
(* once, either with the energy and the forces of THAT input or with an    *)
(* error.  The potential is evaluated at most once for a call and at least *)
(* once for a call that succeeds; the evaluation of a call that already    *)
(* ended with an error may still happen later.                             *)
(***************************************************************************)
EXTENDS Naturals

CONSTANTS Callers,    \* the threads that call the potential
          Inputs,     \* the configurations they can ask about
          MaxCalls,   \* bound on the calls one caller makes
          None        \* no value

VARIABLES pending,    \* the callers whose call has not ended
          calls,      \* how many calls each caller has made
          arg,        \* the input of the last call of each caller
          answer,     \* how it ended: an energy and forces, or NoAnswer
          evals       \* how often the potential ran for each call

vars == <<pending, calls, arg, answer, evals>>

Calls == Callers \X (1 .. MaxCalls)

\* An energy (a force array) is named by the input it is the energy (the
\* forces) of.
Answer(i) == [energy |-> i, forces |-> i]
NoAnswer == Answer(None)

Init ==
  /\ pending = {}
  /\ calls = [t \in Callers |-> 0]
  /\ arg = [t \in Callers |-> None]
  /\ answer = [t \in Callers |-> NoAnswer]
  /\ evals = [c \in Calls |-> 0]

Invoke(t, i) ==
  /\ t \notin pending
  /\ calls[t] < MaxCalls
  /\ pending' = pending \cup {t}
  /\ calls' = [calls EXCEPT ![t] = @ + 1]
  /\ arg' = [arg EXCEPT ![t] = i]
  /\ answer' = [answer EXCEPT ![t] = NoAnswer]
  /\ UNCHANGED evals

\* A call the service rejects without ever looking at the potential.
InvokeAndFail(t, i) ==
  /\ t \notin pending
  /\ calls[t] < MaxCalls
  /\ calls' = [calls EXCEPT ![t] = @ + 1]
  /\ arg' = [arg EXCEPT ![t] = i]
  /\ answer' = [answer EXCEPT ![t] = NoAnswer]
  /\ UNCHANGED <<pending, evals>>

Evaluate(c) ==
  /\ c[2] <= calls[c[1]]
  /\ evals[c] = 0
  /\ evals' = [evals EXCEPT ![c] = 1]
  /\ UNCHANGED <<pending, calls, arg, answer>>

Succeed(t) ==
  /\ t \in pending
  /\ evals[<<t, calls[t]>>] = 1
  /\ pending' = pending \ {t}
  /\ answer' = [answer EXCEPT ![t] = Answer(arg[t])]
  /\ UNCHANGED <<calls, arg, evals>>

Fail(t) ==
  /\ t \in pending
  /\ pending' = pending \ {t}
  /\ UNCHANGED <<calls, arg, answer, evals>>

Next ==
  \/ \E t \in Callers, i \in Inputs : Invoke(t, i) \/ InvokeAndFail(t, i)
  \/ \E c \in Calls : Evaluate(c)
  \/ \E t \in Callers : Succeed(t) \/ Fail(t)

Spec == Init /\ [][Next]_vars
-----------------------------------------------------------------------------
(* What a caller may rely on: a call that ended with an answer has ended,  *)
(* the answer is the energy and the forces of its own input, and the       *)
(* potential ran for it exactly once.                                      *)
Promise ==
  \A t \in Callers : answer[t] # NoAnswer =>
    /\ t \notin pending
    /\ answer[t] = Answer(arg[t])
    /\ evals[<<t, calls[t]>>] = 1

(* No potential runs twice for one call, or for a call nobody has made.    *)
EvaluatedOnce ==
  \A c \in Calls : evals[c] \in {0, 1} /\ (evals[c] = 1 => c[2] <= calls[c[1]])

(* An answer is final: only the end of the pending call or a new call of   *)
(* the same caller replaces it, and evaluations are never undone.          *)
AnswersFinal ==
  [][/\ \A t \in Callers : answer'[t] # answer[t] =>
          t \in pending \/ calls'[t] = calls[t] + 1
     /\ \A c \in Calls : evals[c] = 1 => evals'[c] = 1]_vars
=============================================================================
