------------------------------- MODULE MCFraming -------------------------------
(* Framing for TLC: every sequence of four frames with a body of one of three sizes. *)
EXTENDS Framing, FiniteSetsExt

BodySizes == {0, 1, 5}

AllStreams ==
  {[i \in 0 .. 4 |-> MapThenSumSet(LAMBDA j : 4 + b[j], 1 .. i)] : b \in [1 .. 4 -> BodySizes]}
================================================================================
