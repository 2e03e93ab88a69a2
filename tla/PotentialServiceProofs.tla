----------------------- MODULE PotentialServiceProofs -----------------------
(***************************************************************************)
(* What follows from PotentialService alone, and so for everything that    *)
(* implements it: RpcServiceProofs and PotBridgeProofs carry Promise over  *)
(* to the two RPC stacks through their refinements.                        *)
(***************************************************************************)
EXTENDS PotentialService, TLAPS

\* The types of the variables.
InvType ==
  /\ pending \subseteq Callers
  /\ calls \in [Callers -> 0 .. MaxCalls]
  /\ DOMAIN arg = Callers
  /\ DOMAIN answer = Callers
  /\ evals \in [Calls -> {0, 1}]

\* A pending call has a number, which its evaluation is counted under.
InvPending == \A t \in pending : calls[t] >= 1

IndInv == InvType /\ InvPending /\ Promise /\ EvaluatedOnce
-----------------------------------------------------------------------------
LEMMA InitInv ==
  ASSUME MaxCalls \in Nat
  PROVE  Init => IndInv
BY DEF Init, IndInv, InvType, InvPending, Promise, EvaluatedOnce, Calls

(* A new call, accepted or refused: the caller's old answer is given up.   *)
LEMMA InvokeInv ==
  ASSUME MaxCalls \in Nat, IndInv, NEW t \in Callers, NEW i \in Inputs,
         Invoke(t, i) \/ InvokeAndFail(t, i)
  PROVE  IndInv'
<1>1. /\ calls[t] \in 0 .. MaxCalls /\ calls[t] < MaxCalls
      /\ calls' = [calls EXCEPT ![t] = calls[t] + 1]
      /\ arg' = [arg EXCEPT ![t] = i]
      /\ answer' = [answer EXCEPT ![t] = NoAnswer]
      /\ evals' = evals
      /\ t \notin pending
      /\ pending' = pending \cup {t} \/ pending' = pending
  BY DEF IndInv, InvType, Invoke, InvokeAndFail
<1>2. InvType'
  BY <1>1 DEF IndInv, InvType, Calls
<1>3. InvPending'
  BY <1>1 DEF IndInv, InvType, InvPending
<1>4. Promise'
  <2>1. ASSUME NEW s \in Callers, answer'[s] # NoAnswer'
        PROVE  /\ s # t /\ answer'[s] = answer[s] /\ arg'[s] = arg[s]
               /\ calls'[s] = calls[s] /\ answer[s] # NoAnswer
    BY <1>1, <2>1 DEF IndInv, InvType, NoAnswer, Answer
  <2>. QED  BY <1>1, <2>1 DEF IndInv, Promise, Answer
<1>5. EvaluatedOnce'
  <2>1. ASSUME NEW s \in Callers PROVE calls[s] \in Nat /\ calls'[s] >= calls[s]
    BY <1>1 DEF IndInv, InvType
  <2>. QED  BY <1>1, <1>2, <2>1 DEF IndInv, InvType, EvaluatedOnce, Calls
<1>. QED  BY <1>2, <1>3, <1>4, <1>5 DEF IndInv

(* An evaluation, of a pending call or of one that was given up.           *)
LEMMA EvaluateInv ==
  ASSUME MaxCalls \in Nat, IndInv, NEW c \in Calls, Evaluate(c)
  PROVE  IndInv'
<1>1. /\ evals' = [evals EXCEPT ![c] = 1]
      /\ UNCHANGED <<pending, calls, arg, answer>>
      /\ c[2] <= calls[c[1]] /\ evals \in [Calls -> {0, 1}]
  BY DEF Evaluate, IndInv, InvType
<1>2. InvType' /\ InvPending'
  BY <1>1 DEF IndInv, InvType, InvPending
<1>3. Promise'
  <2>1. ASSUME NEW t \in Callers, answer[t] # NoAnswer
        PROVE  evals'[<<t, calls[t]>>] = 1
    <3>1. evals[<<t, calls[t]>>] = 1
      BY <2>1 DEF IndInv, Promise
    <3>. QED  BY <1>1, <3>1
  <2>. QED  BY <1>1, <2>1 DEF IndInv, Promise, NoAnswer, Answer
<1>4. EvaluatedOnce'
  BY <1>1 DEF IndInv, EvaluatedOnce
<1>. QED  BY <1>2, <1>3, <1>4 DEF IndInv

(* The end of a call: with the answer of its input, once it was evaluated, *)
(* or with an error, which leaves no answer.                               *)
LEMMA EndInv ==
  ASSUME MaxCalls \in Nat, IndInv, NEW t \in Callers, Succeed(t) \/ Fail(t)
  PROVE  IndInv'
<1>1. /\ pending' = pending \ {t}
      /\ UNCHANGED <<calls, arg, evals>>
      /\ \/ answer' = answer
         \/ /\ evals[<<t, calls[t]>>] = 1
            /\ answer' = [answer EXCEPT ![t] = Answer(arg[t])]
  BY DEF Succeed, Fail
<1>2. InvType' /\ InvPending' /\ EvaluatedOnce'
  BY <1>1 DEF IndInv, InvType, InvPending, EvaluatedOnce
<1>3. Promise'
  BY <1>1 DEF IndInv, InvType, Promise, NoAnswer, Answer
<1>. QED  BY <1>2, <1>3 DEF IndInv

LEMMA NextInv ==
  ASSUME MaxCalls \in Nat
  PROVE  IndInv /\ [Next]_vars => IndInv'
<1>1. ASSUME IndInv, UNCHANGED vars PROVE IndInv'
  BY <1>1 DEF vars, IndInv, InvType, InvPending, Promise, EvaluatedOnce, NoAnswer, Answer
<1>. QED  BY <1>1, InvokeInv, EvaluateInv, EndInv DEF Next
-----------------------------------------------------------------------------
(* The strengthening the next theorems follow from: types, and that a      *)
(* pending call has a number of its own to be evaluated under.             *)
THEOREM Invariance ==
  ASSUME MaxCalls \in Nat
  PROVE  Spec => []IndInv
<1>1. IndInv /\ [Next]_vars => IndInv'
  BY NextInv
<1>. QED  BY <1>1, InitInv, PTL DEF Spec

(* An answer is the one of the caller's own input, and the potential ran   *)
(* exactly once for it.                                                    *)
THEOREM PromiseKept ==
  ASSUME MaxCalls \in Nat
  PROVE  Spec => []Promise
<1>1. IndInv => Promise
  BY DEF IndInv
<1>. QED  BY <1>1, Invariance, PTL

(* No call is evaluated twice, and none before it is made: also one that   *)
(* already failed and whose request is still on its way.                   *)
THEOREM AtMostOneEvaluation ==
  ASSUME MaxCalls \in Nat
  PROVE  Spec => []EvaluatedOnce
<1>1. IndInv => EvaluatedOnce
  BY DEF IndInv
<1>. QED  BY <1>1, Invariance, PTL

(* An answer stays until its caller calls again, and what was evaluated    *)
(* stays evaluated.                                                        *)
THEOREM AnswersStay ==
  ASSUME MaxCalls \in Nat
  PROVE  Spec => AnswersFinal
<1>. DEFINE Final ==
       /\ \A t \in Callers : answer'[t] # answer[t] =>
            t \in pending \/ calls'[t] = calls[t] + 1
       /\ \A c \in Calls : evals[c] = 1 => evals'[c] = 1
<1>1. ASSUME IndInv, [Next]_vars PROVE [Final]_vars
  <2>1. ASSUME NEW t \in Callers, NEW i \in Inputs,
               Invoke(t, i) \/ InvokeAndFail(t, i)
        PROVE  Final
    BY <1>1, <2>1 DEF IndInv, InvType, Invoke, InvokeAndFail
  <2>2. ASSUME NEW c \in Calls, Evaluate(c) PROVE Final
    BY <1>1, <2>2 DEF IndInv, InvType, Evaluate
  <2>3. ASSUME NEW t \in Callers, Succeed(t) \/ Fail(t) PROVE Final
    BY <1>1, <2>3 DEF IndInv, InvType, Succeed, Fail
  <2>. HIDE DEF Final
  <2>. QED  BY <1>1, <2>1, <2>2, <2>3 DEF Next
<1>2. IndInv /\ [Next]_vars => [Final]_vars
  BY <1>1
<1>. QED  BY <1>2, Invariance, PTL DEF Spec, AnswersFinal
=============================================================================
