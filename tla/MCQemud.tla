------------------------------- MODULE MCQemud ---------------------------------
(* Qemud for TLC: two clients with four writes between them, and channel numbers *)
(* that wrap after three.                                                        *)
EXTENDS Qemud
================================================================================
