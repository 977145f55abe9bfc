----------------------------- MODULE MCAudioPath --------------------------------
(* AudioPath for TLC: two connections, writes as long as and longer than what the *)
(* socket holds, reads that cut them anywhere, and a callback that takes from two  *)
(* chunks or leaves part of one.                                                   *)
EXTENDS AudioPath
================================================================================
