----------------------------- MODULE MCTouchInput ------------------------------
(* TouchInput for TLC: two touch points and the pointer, which shares id 0 with  *)
(* one of them, on two slots, with two guests and one change of the workspace. *)
EXTENDS TouchInput
================================================================================
