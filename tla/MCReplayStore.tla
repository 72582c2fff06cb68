---------------------------- MODULE MCReplayStore ----------------------------
(***************************************************************************)
(* Instances of ReplayStore for TLC: two processes and two keys, or three  *)
(* processes and one key.  Processes and keys are interchangeable.         *)
(***************************************************************************)
EXTENDS ReplayStore, TLC

CONSTANTS procA, procB, procC, nonceA, nonceB

TwoProcs == {procA, procB}
ThreeProcs == {procA, procB, procC}
OneKey == {nonceA}
TwoKeys == {nonceA, nonceB}

Interchangeable == Permutations(Procs) \cup Permutations(Keys)

\* Bounds of the exploration: nothing is claimed of the store after an
\* accident, so what follows one is explored up to the third call, which is
\* where a lock is put back; and each key that expires is one call less.
Followed ==
    /\ Undisturbed \/ calls < MaxCalls
    /\ calls + Cardinality(expired) <= MaxCalls
=============================================================================
