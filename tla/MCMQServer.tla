----------------------------- MODULE MCMQServer -----------------------------
(* Model-checking instances of MQServer. *)
EXTENDS MQServer, TLC

\* Streams of one kind are interchangeable, and so are consumers.
SubSymmetry == Permutations(Subs)
SubConsumerSymmetry == Permutations(Subs) \cup Permutations(Consumers)

=============================================================================
