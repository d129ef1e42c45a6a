---------------------------- MODULE MCRefundFlow ----------------------------
(* Instances of RefundFlow for TLC. *)
EXTENDS RefundFlow, TLC

AllAnswers == {"succeeded", "failed", "pending"}
SucceedOnly == {"succeeded"}
SucceedOrFail == {"succeeded", "failed"}
Symmetry == Permutations(Calls) \cup Permutations(Keys) \cup Permutations(Refunds)
=============================================================================
