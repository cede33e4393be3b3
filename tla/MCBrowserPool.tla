---------------------------- MODULE MCBrowserPool ----------------------------
\* Instances of BrowserPool for TLC.
EXTENDS BrowserPool, TLC

CONSTANTS plain, other, default, second

\* Two backends of one profile each, or one backend with one profile.
TwoBackends == (plain :> default) @@ (other :> second)
OneProfile == (plain :> default)

\* The events a worker may miss between its launch and its handlers.
NoneMissed == {{}}
AnyMissed == SUBSET {"close", "disconnected"}

\* Requests and workers are interchangeable in every safety property.
Symmetry == Permutations(Requests) \cup Permutations(Workers)
=============================================================================
