--------------------------- MODULE MCResponseCache ---------------------------
\* Instances of ResponseCache for TLC.
EXTENDS ResponseCache, TLC

CONSTANTS long, challenge

\* A long body, and the short challenge page an earlier release has stored.
Lengths == [b \in Bodies |-> IF b = long THEN 2 ELSE 1]

Symmetry == Permutations(Requests)

\* The key an idle request last asked for, and what was removed, decide nothing
\* that follows.
View ==
    <<memory, memoryBytes, inflight, disk, at, held, evictVars, purging,
      [r \in Requests |-> IF at[r] = "idle" THEN NoKey ELSE want[r]]>>
=============================================================================
