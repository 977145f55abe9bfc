----------------------------- MODULE MCBufferQueue -----------------------------
(* BufferQueue for TLC: one producer and one consumer, as BufferedIOStream has *)
(* on each of its two queues.                                              *)
EXTENDS BufferQueue
================================================================================
