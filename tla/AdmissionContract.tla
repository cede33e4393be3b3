-------------------------- MODULE AdmissionContract --------------------------
(***************************************************************************)
(* What the admission queue promises its callers, with no memory, no       *)
(* estimates and no drain loop: calls are accepted in some order, begin in *)
(* that order, at most MaxConcurrency of them are in flight at a time, and *)
(* at most QueueMax accepted calls wait.                                   *)
(***************************************************************************)
EXTENDS Integers, Sequences, FiniteSets

CONSTANTS Jobs, MaxConcurrency, QueueMax

VARIABLES
    accepted,   \* the accepted calls, in order of acceptance
    begun,      \* how many of them, from the front, have begun
    settled     \* those whose promise is resolved or rejected

contractVars == <<accepted, begun, settled>>

Begun == {accepted[i] : i \in 1..begun}
Accepted == {accepted[i] : i \in 1..Len(accepted)}

ContractInit ==
    /\ accepted = <<>>
    /\ begun = 0
    /\ settled = {}

(***************************************************************************)
(* Any number of waiting calls may begin in a step that accepts or settles *)
(* one, as long as both bounds hold afterwards.                            *)
(***************************************************************************)
BeginSome ==
    /\ begun' \in begun..Len(accepted')
    /\ begun' - Cardinality(settled') =< MaxConcurrency
    /\ Len(accepted') - begun' =< QueueMax

Accept(j) ==
    /\ j \notin Accepted
    /\ accepted' = Append(accepted, j)
    /\ settled' = settled
    /\ BeginSome

SettleOne(j) ==
    /\ j \in Begun \ settled
    /\ settled' = settled \cup {j}
    /\ accepted' = accepted
    /\ BeginSome

ContractNext == \E j \in Jobs : Accept(j) \/ SettleOne(j)

ContractSpec == ContractInit /\ [][ContractNext]_contractVars

=============================================================================
