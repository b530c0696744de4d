------------------------------- MODULE MCEvmNonce -------------------------------
(* A small instance of EvmNonce: two payments, of which one is tried twice,  *)
(* and two chain types of which the RPC service serves one.                  *)
EXTENDS EvmNonce

MCTries == [c \in Calls |-> IF c = CHOOSE d \in Calls : TRUE THEN 2 ELSE 1]

(* A payment answered with a hash was paid, and no payment was paid more     *)
(* often than it was tried (transfer_ethereum).                              *)
PaidAsAnswered == OkIsPaid /\ PaidPerTry
=============================================================================
