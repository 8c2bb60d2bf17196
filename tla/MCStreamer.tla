----------------------------- MODULE MCStreamer -----------------------------
(* Model-checking instances of Streamer. *)
EXTENDS Streamer, TLC

\* One row cannot be encoded, in the middle of the second batch.
SomeUnencodable == {6}

=============================================================================
