-------------------------- MODULE MCAdmissionQueue --------------------------
\* Instances of AdmissionQueue for TLC.
EXTENDS AdmissionQueue, TLC

CONSTANTS j1, j2, j3, j4, light, heavy

\* Two light calls and two heavy ones; with one light call less for liveness.
FourJobs == (j1 :> light) @@ (j2 :> light) @@ (j3 :> heavy) @@ (j4 :> heavy)
ThreeJobs == (j1 :> light) @@ (j2 :> heavy) @@ (j3 :> heavy)

\* A heavy call takes half of the budget, a light one a quarter.
Estimates == (light :> 1) @@ (heavy :> 2)
=============================================================================
