-------------------------- MODULE MCTokenDistribution --------------------------
(* Small instances of TokenDistribution: two holders, and an unlock schedule *)
(* whose first item falls due after the second.                              *)
EXTENDS TokenDistribution

MCUnlocks == <<1, 0>>

(* Nobody is paid what the distribution model does not say: no allocation or *)
(* unlock item twice by one start of the timer, no unlock item before its    *)
(* time, no emission within a period of the last, and neither before the     *)
(* initial allocation (distribute_tokens_shared).                            *)
PaidByTheModel == OncePerStart /\ NothingUnlockedEarly /\ EmissionPaced /\ InitialFirst
=============================================================================
