--------------------------- MODULE MCLiveSessions ---------------------------
\* Instances of LiveSessions for TLC.
EXTENDS LiveSessions, TLC

CONSTANTS s1, s2

\* What may use a session beside the handler that creates it: every handler, or
\* only DELETE, and that one of the two sessions.
OneDeleted == [s \in {s1, s2} |-> IF s = s1 THEN {Delete} ELSE {}]
AllHandlersOne == [s \in {s1} |-> OnSession]
Posted == [s \in {s1, s2} |-> {"post"}]
AnybodyOne == [s \in {s1} |-> {"post", "trace", "agent", "bql"}]

Symmetry == Permutations(Requests) \cup Permutations(Browsers)
=============================================================================
