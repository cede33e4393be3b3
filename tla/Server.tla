-------------------------------- MODULE Server --------------------------------
(***************************************************************************)
(* What the parts of the server share: the clock and the life of the       *)
(* process (index.ts, close() of server.ts).  Service says what a stop and *)
(* a start do to each part.                                                *)
(***************************************************************************)
EXTENDS Naturals

CONSTANTS
    LastTick,   \* bound: the clock stops there
    Starts      \* bound: starts of the process

ASSUME ServerAssumption == LastTick \in Nat /\ Starts \in Nat \ {0}

VARIABLES
    now,        \* Date.now(), in ticks
    server,     \* "up", "closing" (close() has begun) or "down"
    starts      \* starts made

serverVars == <<now, server, starts>>

Running == server # "down"

ServerInit == now = 0 /\ server = "up" /\ starts = 1

ServerTypeOK ==
    now \in 0..LastTick /\ server \in {"up", "closing", "down"} /\ starts \in 1..Starts

Tick == now < LastTick /\ now' = now + 1 /\ UNCHANGED <<server, starts>>

\* A signal; close() then refuses new requests.
Shutdown == server = "up" /\ server' = "closing" /\ UNCHANGED <<now, starts>>

\* The process ends: close() has finished, or it was killed or threw.
End == Running /\ server' = "down" /\ UNCHANGED <<now, starts>>

Start ==
    /\ server = "down" /\ starts < Starts
    /\ server' = "up" /\ starts' = starts + 1 /\ UNCHANGED now
=============================================================================
