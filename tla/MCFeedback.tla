----------------------------- MODULE MCFeedback -----------------------------
(* Instances of Feedback small enough for TLC. *)
EXTENDS Feedback, TLC

\* Deliveries of one kind are interchangeable.
AnyDelivery == Permutations(Reviews) \union Permutations(Comments) \union Permutations(Asks)
=============================================================================
