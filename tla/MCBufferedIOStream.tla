-------------------------- MODULE MCBufferedIOStream ---------------------------
(* BufferedIOStream for TLC. *)
EXTENDS BufferedIOStream
================================================================================
