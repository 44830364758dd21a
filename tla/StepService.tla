----------------------------- MODULE StepService -----------------------------
(***************************************************************************)
(* What the attention backend promises the engine: every forward step that *)
(* was submitted is answered once, in the order of submission, by kernels  *)
(* that used the metadata of that very step and of no other.               *)
(*                                                                         *)
(* answers[k] is the set of steps whose metadata the kernels of the k-th   *)
(* answered step read.                                                     *)
(***************************************************************************)
EXTENDS Naturals, Sequences

VARIABLES submitted, answers

Init == submitted = 0 /\ answers = << >>

Submit ==
  /\ submitted' = submitted + 1
  /\ UNCHANGED answers

Answer ==
  /\ Len(answers) < submitted
  /\ answers' = Append(answers, {Len(answers) + 1})
  /\ UNCHANGED submitted

Spec == Init /\ [][Submit \/ Answer]_<<submitted, answers>>
=============================================================================
