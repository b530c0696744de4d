----------------------------- MODULE MCHubPayment -----------------------------
(* HubPayment for TLC: names for the interchangeable users and calls.        *)
EXTENDS HubPayment, TLC

CONSTANTS u1, u2, c1, c2

MCUsers == {u1, u2}
MCOneCall == {c1}
MCTwoCalls == {c1, c2}

(* Users differ only in which orders they own, calls not at all.             *)
MCSymmetry == Permutations(MCUsers) \cup Permutations(MCTwoCalls)

(* An order is settled at most once and, when it is, the hub keeps the base  *)
(* fee of it (share_pay and refund_payment_order of one order).              *)
SettledFairly == SettledOnce /\ BaseFeeKept

(* Every call ends (confirm_payment_order, refund_payment_order), and money  *)
(* that left an order's account is stored with the order.                    *)
CallsSettle == CallsEnd /\ MovesAreRecorded
=============================================================================
