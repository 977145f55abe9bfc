------------------------------- MODULE MCAdbProxy -------------------------------
(* AdbProxy for TLC: the connection in use and the one adbd keeps standing by. *)
EXTENDS AdbProxy
================================================================================
