------------------------------ MODULE MCRenderer -------------------------------
EXTENDS Renderer, TLC

\* Render threads run the same code and no property tells them apart; sizes are
\* only compared.
Symmetry == Permutations(Thread) \cup Permutations(Sizes)

\* With the last object, when handles wrap around, the run goes on in two directions.
\* What threads bind and resize does not depend on who created or destroyed it, nor on
\* references, and a clean-up unbinds as MakeNoneCurrent does.
Bindings ==
  /\ \A t \in Thread : pc[t] = "run"
  /\ \A o \in DOMAIN creator : creator[o] = creator[1]
  /\ \A t \in Thread : /\ windowSet[t] \subseteq DOMAIN windows
                       /\ contextSet[t] \subseteq DOMAIN contexts
  /\ \A h \in Handle : held[h] <= 1

\* What is in the tables and in the sets of the threads does not depend on sizes, nor
\* on what is current.
Lifetimes ==
  /\ Cardinality({x.size : x \in Range(windows) \cup Range(buffers)}) <= 1
  /\ detached = {} /\ \A t \in Thread : cur[t] = Unbound

Focus == Len(creator) < MaxCreates \/ Bindings \/ Lifetimes
================================================================================
