--------------------------- MODULE PaymentContract ---------------------------
(***************************************************************************)
(* What the payment part of the hub promises about an order, without the   *)
(* asynchronous calls it is built from: how the stored status of an order  *)
(* relates to the money that reached, and left, the order's subaccount.    *)
(*                                                                         *)
(* Two promises are stated.  Spec is what holds whatever calls overlap:    *)
(* "Paid" and "Refunded" are only ever written when the money is there to  *)
(* justify them, but a handler may overwrite the status another handler    *)
(* wrote (Reopen).  StrictSpec is the life cycle one expects of an order:  *)
(* each order is settled or paid back at most once, and never both.        *)
(***************************************************************************)
EXTENDS Naturals

CONSTANTS
  OrderIds,  \* the ids orders can get
  Price      \* what an order costs

VARIABLES
  status,    \* the stored status of each order
  received,  \* what was ever paid into the order's subaccount
  payouts    \* the refund transfers that left the order's subaccount

vars == <<status, received, payouts>>

Init ==
  /\ status = [o \in OrderIds |-> "Absent"]
  /\ received = [o \in OrderIds |-> 0]
  /\ payouts = [o \in OrderIds |-> 0]

Become(o, s) == status' = [status EXCEPT ![o] = s]

Open(o) ==
  /\ status[o] = "Absent"
  /\ Become(o, "Unpaid")
  /\ UNCHANGED <<received, payouts>>

Receive(o) ==
  /\ status[o] # "Absent"
  /\ received'[o] > received[o]
  /\ received' = [received EXCEPT ![o] = received'[o]]
  /\ UNCHANGED <<status, payouts>>

Settle(o) ==
  /\ status[o] # "Absent"
  /\ received[o] >= Price
  /\ Become(o, "Paid")
  /\ UNCHANGED <<received, payouts>>

Expire(o) ==
  /\ status[o] # "Absent"
  /\ Become(o, "TimedOut")
  /\ UNCHANGED <<received, payouts>>

PayOut(o) ==
  /\ status[o] # "Absent"
  /\ payouts' = [payouts EXCEPT ![o] = @ + 1]
  /\ UNCHANGED <<status, received>>

Return(o) ==
  /\ payouts[o] > 0
  /\ Become(o, "Refunded")
  /\ UNCHANGED <<received, payouts>>

(* A handler that read the order earlier puts an older status back. *)
Reopen(o) ==
  /\ status[o] # "Absent"
  /\ Become(o, "Unpaid")
  /\ UNCHANGED <<received, payouts>>

Next == \E o \in OrderIds :
  Open(o) \/ Receive(o) \/ Settle(o) \/ Expire(o) \/ PayOut(o) \/ Return(o) \/ Reopen(o)

Spec == Init /\ [][Next]_vars

-----------------------------------------------------------------------------
(* The life cycle without overlapping calls. *)

Pending(o) == status[o] \in {"Unpaid", "TimedOut"}

StrictNext == \E o \in OrderIds :
  \/ Open(o)
  \/ Receive(o)
  \/ status[o] = "Unpaid" /\ payouts[o] = 0 /\ Settle(o)
  \/ status[o] = "Unpaid" /\ payouts[o] = 0 /\ Expire(o)
  \/ Pending(o) /\ payouts[o] = 0 /\ PayOut(o)
  \/ Pending(o) /\ Return(o)

StrictSpec == Init /\ [][StrictNext]_vars
=============================================================================
