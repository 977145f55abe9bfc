-------------------------- MODULE MCContainerLifecycle --------------------------
(* ContainerLifecycle for TLC: two sessions, at once or one after the other.    *)
EXTENDS ContainerLifecycle
================================================================================
