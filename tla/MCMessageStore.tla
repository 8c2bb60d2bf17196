--------------------------- MODULE MCMessageStore ---------------------------
(* Model-checking instances of MessageStore. *)
EXTENDS MessageStore, TLC

\* Subscriptions are interchangeable, and so are consumers.
SubSymmetry == Permutations(Subs)
ConsumerSymmetry == Permutations(Consumers)

=============================================================================
