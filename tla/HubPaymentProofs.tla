--------------------------- MODULE HubPaymentProofs ---------------------------
(***************************************************************************)
(* What TLAPS proves of HubPayment for every set of users and calls and    *)
(* every price, fee and bound: IInv is inductive, so the stored orders     *)
(* never claim what the ledger does not back, and they follow the contract *)
(* of PaymentContract whatever calls overlap or get lost.                  *)
(*                                                                         *)
(* The handlers end each stretch of code in one of two ways, Finish and    *)
(* Await.  The lemmas FinishKeepsIInv and AwaitKeepsIInv say what a copy   *)
(* must satisfy for either to preserve IInv; each action then only has to  *)
(* show that of its copy.                                                  *)
(***************************************************************************)
EXTENDS HubPayment, TLAPS

USE PricesAssumption, BoundsAssumption
USE DEF OrderIds, NoReply, Rejected, Executed

(* The copy a handler may store: of a stored order, backed, and done.       *)
Storable(order) ==
  /\ order \in Order
  /\ CopyOfStored(order) /\ Backed(order) /\ order.status # "Verifying"

HubOnly == UNCHANGED <<now, next_order_id, ledger>>

(* What a stretch of handler code does to the store: nothing, or it writes   *)
(* a copy that is fit to be stored.                                         *)
SafeWrite ==
  /\ UNCHANGED <<next_order_id, ledger>>
  /\ \/ UNCHANGED orders
     \/ \E order \in Order : Storable(order) /\ Store(order)

(* A call that is not waiting for the ledger: the handler's code runs.      *)
Running(c) == c \in Calls /\ (c \in DOMAIN calls => calls[c].reply # NoReply)

LEMMA StoreTypes ==
  ASSUME TypeOK, NEW order \in Order, order.id \in DOMAIN orders, Store(order)
  PROVE  /\ DOMAIN orders' = DOMAIN orders
         /\ orders' = [orders EXCEPT ![order.id] = order]
  BY DEF TypeOK, Store, Put

LEMMA NotRequested ==
  ASSUME TypeOK, RequestsAwaited, NEW c, Running(c)
  PROVE  \A i \in 1 .. Len(inbox) : inbox[i] \in DOMAIN calls /\ inbox[i] # c
  BY DEF TypeOK, RequestsAwaited, Running

LEMMA FinishKeepsIInv ==
  ASSUME IInv, NEW c, Running(c), NEW order, Storable(order), Finish(c, order), HubOnly
  PROVE  IInv' /\ SafeWrite
PROOF
  <1> USE DEF HubOnly
  <1>0. TypeOK /\ RequestsAwaited /\ order \in Order /\ order.id \in DOMAIN orders
    BY DEF IInv, Storable, CopyOfStored
  <1>1. /\ DOMAIN orders' = DOMAIN orders
        /\ orders' = [orders EXCEPT ![order.id] = order]
    BY <1>0, StoreTypes DEF Finish
  <1>2. /\ DOMAIN calls' = DOMAIN calls \ {c}
        /\ \A d \in DOMAIN calls' : calls'[d] = calls[d]
        /\ inbox' = inbox
    BY DEF Finish, Drop
  <1>3. \A i \in 1 .. Len(inbox) : inbox[i] \in DOMAIN calls'
    BY <1>0, <1>2, NotRequested
  <1>4. TypeOK'
    <2>1. inbox' \in Seq(DOMAIN calls')
      <3>1. inbox \in Seq(DOMAIN calls)
        BY <1>0 DEF TypeOK
      <3> QED BY <1>2, <1>3, <3>1
    <2>2. calls' \in [DOMAIN calls' -> Call] /\ DOMAIN calls' \subseteq Calls
      BY <1>0, <1>2 DEF TypeOK, Finish, Drop
    <2>3. \A d \in DOMAIN calls' : calls'[d].order.id \in DOMAIN orders'
      BY <1>0, <1>1, <1>2 DEF TypeOK
    <2>4. /\ orders' \in [0 .. next_order_id' - 1 -> Order]
          /\ \A id \in DOMAIN orders' : orders'[id].id = id
      BY <1>0, <1>1 DEF TypeOK
    <2> QED BY <1>0, <2>1, <2>2, <2>3, <2>4 DEF TypeOK
  <1>5. RequestsAwaited'
    BY <1>0, <1>2, <1>3 DEF RequestsAwaited, TypeOK
  <1>6. \A id \in DOMAIN orders' : Backed(orders[id])' /\ orders'[id].status # "Verifying"
    BY <1>0, <1>1 DEF IInv, Storable, Backed, TypeOK
  <1>7. \A d \in DOMAIN calls' : PendingOK(calls[d])'
    <2> TAKE d \in DOMAIN calls'
    <2>1. PendingOK(calls[d]) /\ calls'[d] = calls[d]
      BY <1>2 DEF IInv
    <2>2. CopyOfStored(calls[d].order)'
      BY <1>0, <1>1, <2>1, SMTT(30) DEF PendingOK, CopyOfStored, Storable, TypeOK
    <2> QED BY <2>1, <2>2 DEF PendingOK, Backed
  <1>8. \A id \in OrderIds : (ledger[id].balance <= ledger[id].received)'
    BY DEF IInv
  <1>9. SafeWrite
    BY DEF SafeWrite, Finish, Storable
  <1> QED BY <1>4, <1>5, <1>6, <1>7, <1>8, <1>9 DEF IInv

LEMMA AwaitKeepsIInv ==
  ASSUME IInv, NEW c, Running(c), NEW op, NEW stage, NEW order \in Order,
         op \in {"confirm", "refund"}, stage \in {"balance", "transfer"},
         PendingOK([op |-> op, await |-> stage, order |-> order, reply |-> NoReply]),
         Await(c, op, stage, order), HubOnly
  PROVE  IInv' /\ SafeWrite
PROOF
  <1> USE DEF HubOnly
  <1> DEFINE call == [op |-> op, await |-> stage, order |-> order, reply |-> NoReply]
  <1>0. TypeOK /\ RequestsAwaited /\ call \in Call /\ order.id \in DOMAIN orders
    BY DEF IInv, PendingOK, CopyOfStored, Call
  <1>1. /\ DOMAIN calls' = DOMAIN calls \cup {c}
        /\ calls'[c] = call
        /\ \A d \in DOMAIN calls \ {c} : calls'[d] = calls[d]
        /\ inbox' = Append(inbox, c) /\ orders' = orders
    BY DEF Await, Put
  <1>2. \A i \in 1 .. Len(inbox) : inbox[i] \in DOMAIN calls /\ inbox[i] # c
    BY <1>0, NotRequested
  <1>3. TypeOK'
    <2>1. inbox' \in Seq(DOMAIN calls')
      BY <1>0, <1>1 DEF TypeOK
    <2>2. DOMAIN calls' \subseteq Calls
      BY <1>0, <1>1 DEF TypeOK, Running
    <2>3. calls' \in [DOMAIN calls' -> Call]
      BY <1>0, <1>1 DEF TypeOK, Await, Put
    <2>4. \A d \in DOMAIN calls' : calls'[d].order.id \in DOMAIN orders'
      BY <1>0, <1>1, SMTT(30) DEF TypeOK
    <2> HIDE DEF call
    <2> QED BY <1>0, <1>1, <2>1, <2>2, <2>3, <2>4 DEF TypeOK
  <1>4. RequestsAwaited'
    <2>1. /\ Len(inbox') = Len(inbox) + 1 /\ Len(inbox) \in Nat
          /\ inbox'[Len(inbox) + 1] = c
          /\ \A i \in 1 .. Len(inbox) : inbox'[i] = inbox[i]
      BY <1>0, <1>1, SMTT(30) DEF TypeOK
    <2>2. calls'[c].reply = NoReply
      BY <1>1
    <2> QED BY <1>0, <1>1, <1>2, <2>1, <2>2 DEF RequestsAwaited
  <1>5. \A d \in DOMAIN calls' : PendingOK(calls[d])'
    <2> TAKE d \in DOMAIN calls'
    <2>1. CASE d = c
      BY <1>1, <2>1 DEF PendingOK, CopyOfStored, Backed
    <2>2. CASE d # c
      <3>1. PendingOK(calls[d]) /\ calls'[d] = calls[d]
        BY <1>1, <2>2 DEF IInv
      <3> QED BY <1>1, <3>1, SMTT(30) DEF PendingOK, CopyOfStored, Backed
    <2> QED BY <2>1, <2>2
  <1>6. \A id \in DOMAIN orders' : Backed(orders[id])' /\ orders'[id].status # "Verifying"
    BY <1>1 DEF IInv, Backed
  <1>7. \A id \in OrderIds : (ledger[id].balance <= ledger[id].received)'
    BY DEF IInv
  <1>8. SafeWrite
    BY <1>1 DEF SafeWrite
  <1> QED BY <1>3, <1>4, <1>5, <1>6, <1>7, <1>8 DEF IInv

-----------------------------------------------------------------------------
(* SharePay, the tail of three handlers: its copy is stored or travels on.  *)
LEMMA SharePayKeepsIInv ==
  ASSUME IInv, NEW c, Running(c), NEW order \in Order,
         CopyOfStored(order), Backed(order), order.status = "Paid",
         SharePay(c, order), HubOnly
  PROVE  IInv' /\ SafeWrite
PROOF
  <1>1. order.amount_paid > BaseFee
    BY DEF Backed, Order
  <1>2. Await(c, "confirm", "transfer", order)
    BY <1>1 DEF SharePay, Order
  <1>3. PendingOK([op |-> "confirm", await |-> "transfer", order |-> order, reply |-> NoReply])
    BY DEF PendingOK, Backed, CopyOfStored
  <1> QED BY <1>2, <1>3, AwaitKeepsIInv

LEMMA ConfirmKeepsIInv ==
  ASSUME IInv, NEW c \in Calls,
         \/ \E id \in OrderIds : ConfirmStart(c, id)
         \/ ConfirmBalance(c) \/ ConfirmShare(c)
  PROVE  IInv' /\ SafeWrite
PROOF
  <1>0. TypeOK
    BY DEF IInv
  <1>1. ASSUME NEW id \in OrderIds, ConfirmStart(c, id) PROVE IInv' /\ SafeWrite
    <2> DEFINE order == orders[id]
    <2>1. /\ HubOnly /\ Running(c) /\ c \notin DOMAIN calls
          /\ order \in Order /\ order.id = id /\ id \in DOMAIN orders
      BY <1>0, <1>1 DEF ConfirmStart, HubOnly, Running, TypeOK
    <2>2. CopyOfStored(order) /\ Backed(order)
      BY <2>1 DEF IInv, CopyOfStored
    <2>3. CASE order.status = "Unpaid" /\ TimedOut(order)
      <3> DEFINE expired == [order EXCEPT !.status = "TimedOut"]
      <3>1. Storable(expired)
        BY <2>1, <2>2, <2>3 DEF Storable, Order, Status, CopyOfStored, Backed
      <3>2. Drop(calls, c) = calls
        BY <1>0, <2>1 DEF Drop, TypeOK
      <3>3. Finish(c, expired)
        BY <1>1, <2>3, <3>2 DEF ConfirmStart, Finish
      <3> QED BY <2>1, <3>1, <3>3, FinishKeepsIInv
    <2>4. CASE order.status = "Unpaid" /\ ~TimedOut(order)
      <3> DEFINE copy == [order EXCEPT !.status = "Verifying"]
      <3>1. copy \in Order
        BY <2>1 DEF Order, Status
      <3>2. Await(c, "confirm", "balance", copy)
        BY <1>1, <2>4 DEF ConfirmStart
      <3>3. PendingOK([op |-> "confirm", await |-> "balance", order |-> copy, reply |-> NoReply])
        <4>1. CopyOfStored(copy) /\ Backed(copy) /\ copy.id = id
          BY <2>1, <2>2 DEF Backed, CopyOfStored, Order
        <4>2. NoReply <= ledger[id].received
          BY <1>0, SMTT(30) DEF TypeOK, Subaccount
        <4> HIDE DEF copy
        <4> QED BY <4>1, <4>2 DEF PendingOK
      <3> QED BY <2>1, <3>1, <3>2, <3>3, AwaitKeepsIInv
    <2>5. CASE order.status = "Paid" /\ ~order.shared
      <3>1. SharePay(c, order)
        BY <1>1, <2>5 DEF ConfirmStart
      <3> QED BY <2>1, <2>2, <2>5, <3>1, SharePayKeepsIInv
    <2> QED BY <1>1, <2>3, <2>4, <2>5 DEF ConfirmStart
  <1>2. CASE ConfirmBalance(c)
    <2> DEFINE balance == calls[c].reply
               order == [calls[c].order EXCEPT !.amount_paid = balance]
    <2>1. /\ HubOnly /\ Running(c) /\ c \in DOMAIN calls
          /\ calls[c] \in Call /\ PendingOK(calls[c])
          /\ calls[c].op = "confirm" /\ calls[c].await = "balance" /\ balance # NoReply
      BY <1>0, <1>2 DEF ConfirmBalance, Answered, HubOnly, Running, TypeOK, IInv
    <2>2. balance \in Nat /\ order \in Order /\ CopyOfStored(order)
      BY <2>1 DEF Call, Order, PendingOK, CopyOfStored
    <2>3. /\ balance <= ledger[order.id].received
          /\ ledger[order.id].received \in Nat
      <3>1. calls[c].order.id \in OrderIds /\ order.id = calls[c].order.id
        BY <1>0, <2>1, SMTT(30) DEF TypeOK, Call, Order
      <3>2. ledger[order.id].received \in Nat
        BY <1>0, <3>1 DEF TypeOK, Subaccount
      <3> QED BY <2>1, <3>1, <3>2 DEF PendingOK
    <2>4. CASE Covers(balance)
      <3> DEFINE paid == [order EXCEPT !.status = "Paid", !.verified = TRUE]
      <3>1. paid \in Order /\ CopyOfStored(paid) /\ paid.status = "Paid"
        BY <2>2 DEF Order, Status, CopyOfStored
      <3>2. Backed(paid)
        BY <2>1, <2>2, <2>3, <2>4 DEF Backed, PendingOK, Covers, Order
      <3>3. SharePay(c, paid)
        BY <1>2, <2>4 DEF ConfirmBalance
      <3> HIDE DEF paid
      <3> QED BY <2>1, <3>1, <3>2, <3>3, SharePayKeepsIInv
    <2>5. CASE ~Covers(balance)
      <3> DEFINE unpaid == [order EXCEPT !.status = "Unpaid"]
      <3>1. Storable(unpaid)
        BY <2>1, <2>2 DEF Storable, Order, Status, CopyOfStored, Backed, PendingOK
      <3>2. Finish(c, unpaid)
        BY <1>2, <2>5 DEF ConfirmBalance
      <3> QED BY <2>1, <3>1, <3>2, FinishKeepsIInv
    <2> QED BY <2>4, <2>5
  <1>3. CASE ConfirmShare(c)
    <2> DEFINE order == calls[c].order
               stored == [order EXCEPT !.shared = SharedAfter(order, calls[c].reply)]
    <2>1. /\ HubOnly /\ Running(c) /\ c \in DOMAIN calls
          /\ calls[c] \in Call /\ PendingOK(calls[c])
          /\ calls[c].op = "confirm" /\ calls[c].await = "transfer"
      BY <1>0, <1>3 DEF ConfirmShare, Answered, HubOnly, Running, TypeOK, IInv
    <2>2. Storable(stored)
      <3>1. SharedAfter(order, calls[c].reply) \in BOOLEAN
        BY <2>1 DEF SharedAfter, Call, Order
      <3>2. stored \in Order
        BY <2>1, <3>1 DEF Call, Order
      <3>3. SharedAfter(order, calls[c].reply) => ledger[order.id].shares > 0
        BY <2>1 DEF SharedAfter, PendingOK, Backed
      <3> QED BY <2>1, <3>1, <3>2, <3>3 DEF Storable, Call, Order, CopyOfStored, Backed, PendingOK
    <2>3. Finish(c, stored)
      BY <1>3 DEF ConfirmShare
    <2> QED BY <2>1, <2>2, <2>3, FinishKeepsIInv
  <1> QED BY <1>1, <1>2, <1>3

LEMMA RefundKeepsIInv ==
  ASSUME IInv, NEW c \in Calls,
         \/ \E id \in OrderIds, caller \in Users : RefundStart(c, id, caller)
         \/ \E validTo \in BOOLEAN : RefundBalance(c, validTo)
         \/ RefundTransfer(c)
  PROVE  IInv' /\ SafeWrite
PROOF
  <1>0. TypeOK
    BY DEF IInv
  <1>1. ASSUME NEW id \in OrderIds, NEW caller \in Users, RefundStart(c, id, caller)
        PROVE  IInv' /\ SafeWrite
    <2> DEFINE order == orders[id]
    <2>1. /\ HubOnly /\ Running(c)
          /\ order \in Order /\ order.id = id /\ id \in DOMAIN orders
          /\ order.status \notin {"Paid", "Refunded"}
          /\ Await(c, "refund", "balance", order)
      BY <1>0, <1>1 DEF RefundStart, Refundable, HubOnly, Running, TypeOK
    <2>2. /\ CopyOfStored(order) /\ Backed(order)
          /\ order.status \notin {"Verifying", "Paid"}
      BY <2>1 DEF IInv, CopyOfStored
    <2>3. NoReply <= ledger[order.id].received
      BY <1>0, <2>1, SMTT(30) DEF TypeOK, Subaccount
    <2>4. PendingOK([op |-> "refund", await |-> "balance", order |-> order, reply |-> NoReply])
      <3> HIDE DEF order
      <3> QED BY <2>2, <2>3 DEF PendingOK
    <2> QED BY <2>1, <2>4, AwaitKeepsIInv
  <1>2. ASSUME NEW validTo \in BOOLEAN, RefundBalance(c, validTo)
        PROVE  IInv' /\ SafeWrite
    <2> DEFINE order == [calls[c].order EXCEPT !.amount_paid = calls[c].reply]
    <2>1. /\ HubOnly /\ Running(c) /\ c \in DOMAIN calls
          /\ calls[c] \in Call /\ PendingOK(calls[c])
          /\ calls[c].op = "refund" /\ calls[c].reply \in Nat
      BY <1>0, <1>2 DEF RefundBalance, Answered, HubOnly, Running, TypeOK, IInv, Call
    <2>2. order \in Order /\ order.status \notin {"Verifying", "Paid"}
      BY <2>1 DEF Call, Order, PendingOK
    <2>3. CopyOfStored(order) /\ Backed(order)
      BY <2>1, <2>2 DEF Call, Order, PendingOK, CopyOfStored, Backed
    <2>4. CASE order.amount_paid < Fee \/ ~validTo
      <3>1. Finish(c, order)
        BY <1>2, <2>4 DEF RefundBalance
      <3> HIDE DEF order
      <3>2. Storable(order)
        BY <2>2, <2>3 DEF Storable
      <3> QED BY <2>1, <3>1, <3>2, FinishKeepsIInv
    <2>5. CASE ~(order.amount_paid < Fee \/ ~validTo)
      <3>1. Await(c, "refund", "transfer", order)
        BY <1>2, <2>5 DEF RefundBalance
      <3> HIDE DEF order
      <3>2. order.amount_paid >= Fee
        BY <2>2, <2>5 DEF Order
      <3>3. PendingOK([op |-> "refund", await |-> "transfer", order |-> order, reply |-> NoReply])
        BY <2>2, <2>3, <3>2 DEF PendingOK
      <3> QED BY <2>1, <2>2, <3>1, <3>3, AwaitKeepsIInv
    <2> QED BY <2>4, <2>5
  <1>3. CASE RefundTransfer(c)
    <2> DEFINE order == calls[c].order
               stored == AfterRefund(order, calls[c].reply)
    <2>1. /\ HubOnly /\ Running(c) /\ c \in DOMAIN calls
          /\ calls[c] \in Call /\ PendingOK(calls[c])
          /\ calls[c].op = "refund" /\ calls[c].await = "transfer"
      BY <1>0, <1>3 DEF RefundTransfer, Answered, HubOnly, Running, TypeOK, IInv
    <2>2. stored \in Order /\ stored.id = order.id
      BY <2>1 DEF AfterRefund, Call, Order, Status
    <2>3. CopyOfStored(stored)
      BY <2>1, <2>2 DEF AfterRefund, PendingOK, CopyOfStored, Call, Order
    <2>4. /\ Backed(stored)
          /\ stored.status # "Verifying"
      <3>1. CASE calls[c].reply = Executed
        <4>1. /\ stored = [order EXCEPT !.status = "Refunded", !.verified = TRUE]
              /\ ledger[order.id].refunds > 0
          BY <2>1, <3>1 DEF AfterRefund, PendingOK
        <4> QED BY <2>1, <4>1 DEF Backed, PendingOK, Call, Order
      <3>2. CASE calls[c].reply # Executed
        BY <2>1, <3>2 DEF AfterRefund, PendingOK
      <3> QED BY <3>1, <3>2
    <2>5. Finish(c, stored)
      BY <1>3 DEF RefundTransfer
    <2> HIDE DEF stored
    <2>6. Storable(stored)
      BY <2>2, <2>3, <2>4 DEF Storable
    <2> QED BY <2>1, <2>5, <2>6, FinishKeepsIInv
  <1> QED BY <1>1, <1>2, <1>3

-----------------------------------------------------------------------------
(* A step of the ledger other than a deposit. *)
HistoryGrows ==
  /\ ledger' \in [OrderIds -> Subaccount]
  /\ \A id \in OrderIds :
       /\ ledger'[id].received = ledger[id].received
       /\ ledger'[id].balance <= ledger[id].received
       /\ ledger'[id].shares >= ledger[id].shares
       /\ ledger'[id].refunds >= ledger[id].refunds

LEMMA IdleLedger ==
  ASSUME IInv, UNCHANGED ledger
  PROVE  HistoryGrows
PROOF
  <1>1. ledger \in [OrderIds -> Subaccount]
    BY DEF IInv, TypeOK
  <1>2. ASSUME NEW id \in OrderIds
        PROVE  /\ ledger[id].received = ledger[id].received
               /\ ledger[id].balance <= ledger[id].received
               /\ ledger[id].shares >= ledger[id].shares
               /\ ledger[id].refunds >= ledger[id].refunds
    <2>1. ledger[id] \in Subaccount
      BY <1>1
    <2> QED BY <2>1 DEF Subaccount, IInv
  <1> QED BY <1>1, <1>2 DEF HistoryGrows

(* The ledger serves the oldest request: c's answer arrives, the accounts'  *)
(* history only grows, and every other call is left alone.                  *)
LEMMA ReplyKeepsIInv ==
  ASSUME IInv, NEW c, NEW stage, Asked(c, stage), NEW value \in Nat, Reply(c, value),
         UNCHANGED <<now, next_order_id, orders>>,
         HistoryGrows,
         PendingOK(calls[c])'
  PROVE  IInv'
PROOF
  <1>0. TypeOK /\ RequestsAwaited
    BY DEF IInv
  <1> USE DEF HistoryGrows
  <1>1. /\ Len(inbox) \in Nat /\ Len(inbox) > 0 /\ inbox[1] = c
        /\ c \in DOMAIN calls /\ calls[c] \in Call
        /\ \A i \in 1 .. Len(inbox) : inbox[i] \in DOMAIN calls
    BY <1>0, SMTT(30) DEF TypeOK, Asked
  <1>2. /\ calls' = [calls EXCEPT ![c].reply = value]
        /\ calls'[c] = [calls[c] EXCEPT !.reply = value]
        /\ DOMAIN calls' = DOMAIN calls
        /\ \A d \in DOMAIN calls \ {c} : calls'[d] = calls[d]
    BY <1>0, <1>1 DEF Reply
  <1>3. /\ inbox' \in Seq(DOMAIN calls)
        /\ Len(inbox') = Len(inbox) - 1
        /\ \A i \in 1 .. Len(inbox') : i + 1 \in 1 .. Len(inbox) /\ inbox'[i] = inbox[i + 1]
    <2>1. inbox \in Seq(DOMAIN calls) /\ inbox # <<>> /\ inbox' = Tail(inbox)
      BY <1>0 DEF TypeOK, Asked, Reply
    <2> QED BY <1>1, <2>1
  <1>4. RequestsAwaited'
    <2>1. \A i \in 1 .. Len(inbox') : inbox'[i] \in DOMAIN calls \ {c}
      <3> TAKE i \in 1 .. Len(inbox')
      <3>1. i + 1 \in 1 .. Len(inbox) /\ 1 \in 1 .. Len(inbox) /\ i + 1 # 1 /\ inbox'[i] = inbox[i + 1]
        BY <1>1, <1>3
      <3>2. inbox[i + 1] # inbox[1]
        BY <1>0, <3>1 DEF RequestsAwaited
      <3> QED BY <1>1, <3>1, <3>2
    <2>2. \A i \in 1 .. Len(inbox') : calls'[inbox'[i]].reply = NoReply
      <3> TAKE i \in 1 .. Len(inbox')
      <3>1. calls[inbox[i + 1]].reply = NoReply
        BY <1>0, <1>3 DEF RequestsAwaited
      <3> QED BY <1>2, <1>3, <2>1, <3>1
    <2>3. \A i, j \in 1 .. Len(inbox') : inbox'[i] = inbox'[j] => i = j
      BY <1>0, <1>1, <1>3 DEF RequestsAwaited
    <2> QED BY <2>2, <2>3 DEF RequestsAwaited
  <1>5. TypeOK'
    <2>1. calls' \in [DOMAIN calls' -> Call]
      BY <1>0, <1>1, <1>2 DEF TypeOK, Call
    <2>2. \A d \in DOMAIN calls' : calls'[d].order = calls[d].order
      BY <1>1, <1>2 DEF Call
    <2> QED BY <1>0, <1>2, <1>3, <2>1, <2>2 DEF TypeOK
  <1>6. \A id \in OrderIds :
          /\ ledger'[id].received = ledger[id].received
          /\ ledger[id].shares > 0 => ledger'[id].shares > 0
          /\ ledger[id].refunds > 0 => ledger'[id].refunds > 0
    <2> TAKE id \in OrderIds
    <2>1. ledger[id] \in Subaccount /\ ledger'[id] \in Subaccount
      BY <1>0 DEF TypeOK
    <2>2. /\ ledger[id].shares \in Nat /\ ledger'[id].shares \in Nat
          /\ ledger[id].refunds \in Nat /\ ledger'[id].refunds \in Nat
      BY <2>1 DEF Subaccount
    <2>3. /\ ledger'[id].received = ledger[id].received
          /\ ledger'[id].shares >= ledger[id].shares
          /\ ledger'[id].refunds >= ledger[id].refunds
      OBVIOUS
    <2> QED BY <2>2, <2>3
  <1>7. \A id \in DOMAIN orders' : Backed(orders[id])' /\ orders'[id].status # "Verifying"
    <2> TAKE id \in DOMAIN orders'
    <2>1. id \in OrderIds /\ orders[id].id = id /\ id \in DOMAIN orders
      BY <1>0 DEF TypeOK
    <2>2. Backed(orders[id]) /\ orders[id].status # "Verifying"
      BY <2>1 DEF IInv
    <2> QED BY <1>6, <2>1, <2>2 DEF Backed
  <1>8. \A d \in DOMAIN calls' : PendingOK(calls[d])'
    <2> TAKE d \in DOMAIN calls'
    <2>1. CASE d = c
      BY <1>2, <2>1 DEF PendingOK, CopyOfStored, Backed
    <2>2. CASE d # c
      <3>1. PendingOK(calls[d]) /\ calls'[d] = calls[d] /\ calls[d] \in Call
        BY <1>0, <1>2, <2>2 DEF IInv, TypeOK
      <3>2. calls[d].order.id \in OrderIds
        BY <1>0, <1>2 DEF TypeOK
      <3> QED BY <1>6, <3>1, <3>2, SMTT(30) DEF PendingOK, CopyOfStored, Backed
    <2> QED BY <2>1, <2>2
  <1>9. \A id \in OrderIds : (ledger[id].balance <= ledger[id].received)'
    OBVIOUS
  <1> QED BY <1>4, <1>5, <1>7, <1>8, <1>9 DEF IInv

LEMMA LedgerKeepsIInv ==
  ASSUME IInv, NEW c \in Calls, LedgerStep(c)
  PROVE  IInv'
PROOF
  <1> DEFINE id == calls[c].order.id
  <1>0. TypeOK
    BY DEF IInv
  <1>1. /\ \A i \in OrderIds : ledger[i] \in Subaccount /\ ledger[i].balance <= ledger[i].received
        /\ ledger \in [OrderIds -> Subaccount]
    BY <1>0 DEF IInv, TypeOK
  <1>2. c \in DOMAIN calls /\ calls[c] \in Call /\ PendingOK(calls[c]) /\ id \in OrderIds
    <2>1. c \in DOMAIN calls
      <3>1. inbox # <<>> /\ Head(inbox) = c
        BY DEF LedgerStep, LedgerBalance, LedgerTransfer, LedgerRejects, Asked
      <3>2. inbox \in Seq(DOMAIN calls)
        BY <1>0 DEF TypeOK
      <3> QED BY <3>1, <3>2
    <2> QED BY <1>0, <2>1 DEF TypeOK, IInv
  <1>3. CASE LedgerBalance(c)
    <2>1. PICK value \in {0, ledger[id].balance} : Reply(c, value)
      BY <1>3 DEF LedgerBalance
    <2>2. value \in Nat /\ value <= ledger[id].received
      BY <1>1, <1>2, <2>1 DEF Subaccount
    <2>3. /\ Asked(c, "balance") /\ UNCHANGED <<now, next_order_id, orders, ledger>>
          /\ calls[c].await = "balance"
      BY <1>3 DEF LedgerBalance, Asked
    <2>4. PendingOK(calls[c])'
      <3>1. calls'[c] = [calls[c] EXCEPT !.reply = value]
        BY <1>0, <1>2, <2>1 DEF Reply, TypeOK
      <3> QED BY <1>2, <2>2, <2>3, <3>1 DEF PendingOK, CopyOfStored, Backed, Call
    <2>5. HistoryGrows
      BY <2>3, IdleLedger
    <2> QED BY <2>1, <2>2, <2>3, <2>4, <2>5, ReplyKeepsIInv
  <1>4. CASE LedgerTransfer(c)
    <2> DEFINE isShare == calls[c].op = "confirm"
               cost == TransferAmount(calls[c]) + Fee
               account == ledger[id]
    <2>1. /\ Asked(c, "transfer") /\ UNCHANGED <<now, next_order_id, orders>>
          /\ calls[c].await = "transfer" /\ account.balance >= cost
          /\ ledger' = [ledger EXCEPT ![id].balance = @ - cost,
                                     ![id].shares  = IF isShare THEN @ + 1 ELSE @,
                                     ![id].refunds = IF isShare THEN @ ELSE @ + 1]
      BY <1>4 DEF LedgerTransfer, Asked
    <2>2. PICK value \in {0, 1} : Reply(c, value)
      BY <1>4 DEF LedgerTransfer
    <2>3. cost \in Nat
      BY <1>2, <2>1 DEF PendingOK, Backed, TransferAmount, Call, Order
    <2> HIDE DEF cost
    <2>4. /\ ledger'[id] = [account EXCEPT !.balance = @ - cost,
                                          !.shares  = IF isShare THEN @ + 1 ELSE @,
                                          !.refunds = IF isShare THEN @ ELSE @ + 1]
          /\ \A i \in OrderIds \ {id} : ledger'[i] = ledger[i]
          /\ DOMAIN ledger' = OrderIds
      BY <1>1, <1>2, <2>1
    <2>5. /\ account.balance \in Nat /\ account.received \in Nat /\ account.balance <= account.received
          /\ account.shares \in Nat /\ account.refunds \in Nat /\ account \in Subaccount
      BY <1>1, <1>2 DEF Subaccount
    <2>6. /\ ledger'[id] \in Subaccount
          /\ ledger'[id].received = account.received
          /\ ledger'[id].balance <= account.received
          /\ ledger'[id].shares = IF isShare THEN account.shares + 1 ELSE account.shares
          /\ ledger'[id].refunds = IF isShare THEN account.refunds ELSE account.refunds + 1
      <3>1. /\ ledger'[id].balance = account.balance - cost
            /\ ledger'[id].received = account.received
            /\ ledger'[id].shares = IF isShare THEN account.shares + 1 ELSE account.shares
            /\ ledger'[id].refunds = IF isShare THEN account.refunds ELSE account.refunds + 1
        BY <2>4, <2>5 DEF Subaccount
      <3>2. /\ account.balance - cost \in Nat /\ account.balance - cost <= account.received
            /\ ledger'[id].shares \in Nat /\ ledger'[id].refunds \in Nat
        <4>1. \A b, r \in Nat, k \in Nat : b >= k /\ b <= r => b - k \in Nat /\ b - k <= r
          OBVIOUS
        <4>2. account.balance - cost \in Nat /\ account.balance - cost <= account.received
          BY <2>1, <2>3, <2>5, <4>1
        <4> HIDE DEF account, isShare
        <4> QED BY <2>5, <3>1, <4>2
      <3>3. ledger'[id] \in Subaccount
        BY <2>4, <2>5, <3>1, <3>2 DEF Subaccount
      <3> QED BY <3>1, <3>2, <3>3
    <2>7. HistoryGrows
      <3>1. ledger' \in [OrderIds -> Subaccount]
        BY <1>1, <2>1, <2>4, <2>6
      <3>2. ASSUME NEW i \in OrderIds
            PROVE  /\ ledger'[i].received = ledger[i].received
                   /\ ledger'[i].balance <= ledger[i].received
                   /\ ledger'[i].shares >= ledger[i].shares
                   /\ ledger'[i].refunds >= ledger[i].refunds
        <4>1. CASE i = id
          BY <2>5, <2>6, <4>1
        <4>2. CASE i # id
          <5>1. ledger'[i] = ledger[i] /\ ledger[i] \in Subaccount /\ ledger[i].balance <= ledger[i].received
            BY <1>1, <2>4, <4>2
          <5> QED BY <5>1 DEF Subaccount
        <4> QED BY <4>1, <4>2
      <3> QED BY <3>1, <3>2 DEF HistoryGrows
    <2>8. PendingOK(calls[c])'
      <3>1. calls'[c] = [calls[c] EXCEPT !.reply = value]
        BY <1>0, <1>2, <2>2 DEF Reply, TypeOK
      <3>2. /\ ledger'[id].received = account.received
            /\ account.shares > 0 \/ isShare => ledger'[id].shares > 0
            /\ account.refunds > 0 \/ ~isShare => ledger'[id].refunds > 0
        BY <2>5, <2>6
      <3> QED BY <1>2, <2>1, <3>1, <3>2 DEF PendingOK, CopyOfStored, Backed, Call
    <2> QED BY <2>1, <2>2, <2>7, <2>8, ReplyKeepsIInv
  <1>5. CASE LedgerRejects(c)
    <2>1. /\ Asked(c, "transfer") /\ UNCHANGED <<now, next_order_id, orders, ledger>>
          /\ calls[c].await = "transfer" /\ Reply(c, 0)
      BY <1>5 DEF LedgerRejects, Asked
    <2>2. PendingOK(calls[c])'
      <3>1. calls'[c] = [calls[c] EXCEPT !.reply = 0]
        BY <1>0, <1>2, <2>1 DEF Reply, TypeOK
      <3> QED BY <1>2, <2>1, <3>1 DEF PendingOK, CopyOfStored, Backed, Call
    <2>3. HistoryGrows
      BY <2>1, IdleLedger
    <2> QED BY <2>1, <2>2, <2>3, ReplyKeepsIInv
  <1> QED BY <1>3, <1>4, <1>5 DEF LedgerStep

-----------------------------------------------------------------------------
LEMMA CreateKeepsIInv ==
  ASSUME IInv, NEW payer \in Users, CreateOrder(payer)
  PROVE  IInv'
PROOF
  <1> DEFINE id == next_order_id
             order == [id |-> id, payer |-> payer, amount_paid |-> 0, status |-> "Unpaid",
                       verified |-> FALSE, shared |-> FALSE, created |-> now]
  <1>0. TypeOK
    BY DEF IInv
  <1>1. /\ order \in Order /\ id \in OrderIds
        /\ id' = id + 1 /\ id \in Nat /\ MaxOrders \in Nat /\ id' \in 0 .. MaxOrders
    BY <1>0 DEF CreateOrder, TypeOK, Order, Status
  <1>2. /\ orders' = Put(orders, id, order)
        /\ UNCHANGED <<now, calls, inbox, ledger>>
    BY DEF CreateOrder, Store, FreshId
  <1>3. /\ DOMAIN orders = 0 .. id - 1 /\ DOMAIN orders' = 0 .. id' - 1
        /\ orders'[id] = order
        /\ \A o \in DOMAIN orders : orders'[o] = orders[o] /\ o # id
    BY <1>0, <1>1, <1>2, SMTT(30) DEF Put, TypeOK
  <1> HIDE DEF order
  <1>4. \A o \in DOMAIN orders' : o \in DOMAIN orders \/ o = id
    BY <1>1, <1>3
  <1>5. TypeOK'
    <2>1. orders' \in [0 .. id' - 1 -> Order]
      <3>1. \A o \in DOMAIN orders' : orders'[o] \in Order
        BY <1>0, <1>1, <1>3, <1>4, SMTT(30) DEF TypeOK
      <3> QED BY <1>2, <1>3, <3>1 DEF Put
    <2>2. \A o \in DOMAIN orders' : orders'[o].id = o
      BY <1>0, <1>3, <1>4 DEF TypeOK, order
    <2> QED BY <1>0, <1>1, <1>2, <1>3, <2>1, <2>2, SMTT(30) DEF TypeOK
  <1>6. RequestsAwaited'
    BY <1>2 DEF IInv, RequestsAwaited
  <1>7. \A o \in DOMAIN orders' : Backed(orders[o])' /\ orders'[o].status # "Verifying"
    <2> TAKE o \in DOMAIN orders'
    <2>1. CASE o = id
      BY <1>3, <2>1 DEF Backed, order
    <2>2. CASE o \in DOMAIN orders
      <3>1. Backed(orders[o]) /\ orders[o].status # "Verifying" /\ orders'[o] = orders[o]
        BY <1>3, <2>2 DEF IInv
      <3> QED BY <1>2, <3>1 DEF Backed
    <2> QED BY <1>4, <2>1, <2>2
  <1>8. \A c \in DOMAIN calls' : PendingOK(calls[c])'
    <2> TAKE c \in DOMAIN calls'
    <2>1. PendingOK(calls[c]) /\ calls'[c] = calls[c]
      BY <1>2 DEF IInv
    <2>2. CopyOfStored(calls[c].order)'
      <3>1. calls[c].order.id \in DOMAIN orders
        BY <2>1 DEF PendingOK, CopyOfStored
      <3>2. orders'[calls[c].order.id] = orders[calls[c].order.id] /\ calls[c].order.id \in DOMAIN orders'
        BY <1>1, <1>3, <3>1
      <3> QED BY <2>1, <3>2 DEF PendingOK, CopyOfStored
    <2> QED BY <1>2, <2>1, <2>2 DEF PendingOK, Backed
  <1>9. \A o \in OrderIds : (ledger[o].balance <= ledger[o].received)'
    BY <1>2 DEF IInv
  <1> QED BY <1>5, <1>6, <1>7, <1>8, <1>9 DEF IInv

LEMMA DepositKeepsIInv ==
  ASSUME IInv, NEW id \in OrderIds, NEW amount \in Amounts, Deposit(id, amount)
  PROVE  IInv'
PROOF
  <1>0. TypeOK
    BY DEF IInv
  <1>1. /\ amount \in Nat
        /\ UNCHANGED <<now, next_order_id, orders, calls, inbox>>
        /\ ledger' = [ledger EXCEPT ![id].balance = @ + amount, ![id].received = @ + amount]
    BY DEF Deposit
  <1>2. /\ ledger' \in [OrderIds -> Subaccount]
        /\ \A i \in OrderIds :
             /\ ledger[i].received \in Nat /\ ledger'[i].received \in Nat
             /\ ledger'[i].received >= ledger[i].received
             /\ ledger'[i].balance <= ledger'[i].received
             /\ ledger'[i].shares = ledger[i].shares
             /\ ledger'[i].refunds = ledger[i].refunds
    <2>1. ASSUME NEW i \in OrderIds
          PROVE  /\ ledger[i].received \in Nat /\ ledger'[i].received \in Nat
                 /\ ledger'[i].received >= ledger[i].received
                 /\ ledger'[i].balance <= ledger'[i].received
                 /\ ledger'[i].shares = ledger[i].shares
                 /\ ledger'[i].refunds = ledger[i].refunds
                 /\ ledger'[i] \in Subaccount
      <3>1. ledger[i] \in Subaccount /\ ledger[i].balance <= ledger[i].received
        BY <1>0 DEF TypeOK, IInv
      <3>2. CASE i = id
        <4>1. ledger'[i] = [ledger[i] EXCEPT !.balance = @ + amount, !.received = @ + amount]
          BY <1>0, <1>1, <3>2 DEF TypeOK
        <4>2. ledger[i].balance \in Nat /\ ledger[i].received \in Nat
          BY <3>1 DEF Subaccount
        <4>3. /\ ledger'[i].balance = ledger[i].balance + amount
              /\ ledger'[i].received = ledger[i].received + amount
              /\ ledger'[i].shares = ledger[i].shares /\ ledger'[i].refunds = ledger[i].refunds
          BY <3>1, <4>1 DEF Subaccount
        <4>4. ledger'[i] \in Subaccount
          <5>1. ledger[i].balance + amount \in Nat /\ ledger[i].received + amount \in Nat
            BY <1>1, <4>2
          <5> QED BY <3>1, <4>1, <5>1 DEF Subaccount
        <4> QED BY <1>1, <3>1, <4>2, <4>3, <4>4
      <3>3. CASE i # id
        <4>1. ledger'[i] = ledger[i]
          BY <1>0, <1>1, <3>3 DEF TypeOK
        <4> QED BY <3>1, <4>1 DEF Subaccount
      <3> QED BY <3>2, <3>3
    <2> QED BY <1>0, <1>1, <2>1 DEF TypeOK
  <1>3. \A order \in Order : order.id \in OrderIds /\ Backed(order) => Backed(order)'
    <2> TAKE order \in Order
    <2> HAVE order.id \in OrderIds /\ Backed(order)
    <2> QED BY <1>2 DEF Backed
  <1>4. TypeOK'
    BY <1>0, <1>1, <1>2 DEF TypeOK
  <1>5. RequestsAwaited'
    BY <1>1 DEF IInv, RequestsAwaited
  <1>6. \A o \in DOMAIN orders' : Backed(orders[o])' /\ orders'[o].status # "Verifying"
    <2> TAKE o \in DOMAIN orders'
    <2>1. orders'[o] = orders[o] /\ orders[o] \in Order /\ orders[o].id \in OrderIds
      BY <1>0, <1>1 DEF TypeOK
    <2>2. Backed(orders[o]) /\ orders[o].status # "Verifying"
      BY <1>1 DEF IInv
    <2> QED BY <1>2, <2>1, <2>2 DEF Backed
  <1>7. \A c \in DOMAIN calls' : PendingOK(calls[c])'
    <2> TAKE c \in DOMAIN calls'
    <2>1. PendingOK(calls[c]) /\ calls[c] \in Call /\ calls'[c] = calls[c]
      BY <1>0, <1>1 DEF IInv, TypeOK
    <2>2. calls[c].order.id \in OrderIds
      BY <1>0, <1>1, SMTT(30) DEF TypeOK
    <2>3. calls[c].await = "balance" => calls[c].reply <= ledger'[calls[c].order.id].received
      BY <1>2, <2>1, <2>2 DEF PendingOK, Call
    <2>4. Backed(calls[c].order)'
      BY <1>2, <2>1, <2>2, SMTT(30) DEF Backed, PendingOK
    <2> QED BY <1>1, <1>2, <2>1, <2>2, <2>3, <2>4 DEF PendingOK, CopyOfStored
  <1> QED BY <1>2, <1>4, <1>5, <1>6, <1>7 DEF IInv

LEMMA OthersKeepIInv ==
  ASSUME IInv, \/ \E c \in Calls : CallbackLost(c)
               \/ Tick
               \/ UNCHANGED vars
  PROVE  IInv'
PROOF
  <1>0. TypeOK /\ RequestsAwaited
    BY DEF IInv
  <1>1. ASSUME NEW c \in Calls, CallbackLost(c) PROVE IInv'
    <2>1. /\ DOMAIN calls' = DOMAIN calls \ {c}
          /\ \A d \in DOMAIN calls' : calls'[d] = calls[d]
          /\ Running(c) /\ UNCHANGED <<now, next_order_id, orders, inbox, ledger>>
      BY <1>1 DEF CallbackLost, Drop, Running
    <2>2. \A i \in 1 .. Len(inbox) : inbox[i] \in DOMAIN calls'
      BY <1>0, <2>1, NotRequested
    <2>3. TypeOK'
      <3>1. inbox' \in Seq(DOMAIN calls')
        <4>1. inbox \in Seq(DOMAIN calls)
          BY <1>0 DEF TypeOK
        <4> QED BY <2>1, <2>2, <4>1
      <3>2. calls' \in [DOMAIN calls' -> Call] /\ DOMAIN calls' \subseteq Calls
        BY <1>0, <1>1, <2>1 DEF TypeOK, CallbackLost, Drop
      <3> QED BY <1>0, <2>1, <3>1, <3>2 DEF TypeOK
    <2>4. RequestsAwaited'
      BY <1>0, <2>1, <2>2 DEF RequestsAwaited
    <2> QED BY <2>1, <2>3, <2>4 DEF IInv, PendingOK, CopyOfStored, Backed
  <1>2. CASE Tick
    <2>1. now' \in Nat /\ UNCHANGED <<next_order_id, orders, calls, inbox, ledger>>
      BY <1>0, <1>2 DEF Tick, TypeOK
    <2> QED BY <2>1 DEF IInv, TypeOK, RequestsAwaited, PendingOK, CopyOfStored, Backed
  <1>3. CASE UNCHANGED vars
    BY <1>3 DEF vars, IInv, TypeOK, RequestsAwaited, PendingOK, CopyOfStored, Backed
  <1> QED BY <1>1, <1>2, <1>3

-----------------------------------------------------------------------------
LEMMA InitIInv == Init => IInv
PROOF
  <1> SUFFICES ASSUME Init PROVE IInv
    OBVIOUS
  <1>1. \A id \in OrderIds : ledger[id] = EmptySubaccount
    BY DEF Init
  <1>2. TypeOK
    <2>1. ledger \in [OrderIds -> Subaccount]
      BY DEF Init, EmptySubaccount, Subaccount
    <2>2. orders \in [{} -> Order] /\ calls \in [{} -> Call]
      BY DEF Init, Nothing
    <2> QED BY <2>1, <2>2 DEF Init, Nothing, TypeOK
  <1> QED BY <1>1, <1>2 DEF Init, Nothing, IInv, RequestsAwaited, EmptySubaccount

(* IInv is inductive: every action, and every stutter, preserves it.        *)
LEMMA NextKeepsIInv == IInv /\ [Next]_vars => IInv'
PROOF
  <1> SUFFICES ASSUME IInv, [Next]_vars PROVE IInv'
    OBVIOUS
  <1>1. CASE \E payer \in Users : CreateOrder(payer)
    BY <1>1, CreateKeepsIInv
  <1>2. CASE \E c \in Calls, id \in OrderIds : ConfirmStart(c, id)
    BY <1>2, ConfirmKeepsIInv
  <1>3. CASE \E c \in Calls, id \in OrderIds : \E caller \in Users : RefundStart(c, id, caller)
    BY <1>3, RefundKeepsIInv
  <1>4. CASE \E c \in Calls : Resume(c)
    BY <1>4, ConfirmKeepsIInv, RefundKeepsIInv DEF Resume
  <1>5. CASE \E c \in Calls : LedgerStep(c)
    BY <1>5, LedgerKeepsIInv
  <1>6. CASE \E id \in OrderIds, amount \in Amounts : Deposit(id, amount)
    BY <1>6, DepositKeepsIInv
  <1>7. CASE (\E c \in Calls : CallbackLost(c)) \/ Tick \/ UNCHANGED vars
    BY <1>7, OthersKeepIInv
  <1> QED BY <1>1, <1>2, <1>3, <1>4, <1>5, <1>6, <1>7 DEF Next

(* The inductive invariant holds in every reachable state of HubPayment.    *)
THEOREM Inductive == Spec => []IInv
  <1> QED BY InitIInv, NextKeepsIInv, PTL DEF Spec

(* Every variable keeps its type, for every value of the constants.         *)
THEOREM TypeCorrect == Spec => []TypeOK
  <1>1. IInv => TypeOK
    BY DEF IInv
  <1> QED BY <1>1, Inductive, PTL

(* However confirm and refund calls overlap, and whatever gets lost, an     *)
(* order stored as Paid had its price paid in.                              *)
THEOREM PaidOrdersAreBacked == Spec => []PaidIsBacked
  <1>1. IInv => PaidIsBacked
    <2> SUFFICES ASSUME IInv, NEW id \in DOMAIN orders, orders[id].status = "Paid"
                 PROVE  ledger[id].received >= Price
      BY DEF PaidIsBacked
    <2>1. orders[id].id = id /\ Backed(orders[id])
      BY DEF IInv, TypeOK
    <2> QED BY <2>1 DEF Backed
  <1> QED BY <1>1, Inductive, PTL

(* A stored order never claims a refund or a share the ledger did not make. *)
THEOREM ClaimsAreAlwaysReal == Spec => []ClaimsAreReal
  <1>1. IInv => ClaimsAreReal
    <2> SUFFICES ASSUME IInv, NEW id \in DOMAIN orders
                 PROVE  /\ orders[id].status = "Refunded" => ledger[id].refunds > 0
                        /\ orders[id].shared => ledger[id].shares > 0
      BY DEF ClaimsAreReal
    <2>1. orders[id].id = id /\ Backed(orders[id])
      BY DEF IInv, TypeOK
    <2> QED BY <2>1 DEF Backed
  <1> QED BY <1>1, Inductive, PTL

-----------------------------------------------------------------------------
(* What a step can do to the stored orders. *)
LEMMA StoreEffect ==
  ASSUME IInv, [Next]_vars
  PROVE  \/ SafeWrite
         \/ \E payer \in Users : CreateOrder(payer)
         \/ /\ UNCHANGED <<next_order_id, orders>>
            /\ \/ \E c \in Calls : LedgerStep(c)
               \/ \E id \in OrderIds, amount \in Amounts : Deposit(id, amount)
PROOF
  <1>1. CASE \E c \in Calls, id \in OrderIds : ConfirmStart(c, id)
    BY <1>1, ConfirmKeepsIInv
  <1>2. CASE \E c \in Calls, id \in OrderIds : \E caller \in Users : RefundStart(c, id, caller)
    BY <1>2, RefundKeepsIInv
  <1>3. CASE \E c \in Calls : Resume(c)
    BY <1>3, ConfirmKeepsIInv, RefundKeepsIInv DEF Resume
  <1>4. CASE (\E c \in Calls : CallbackLost(c)) \/ Tick \/ UNCHANGED vars
    BY <1>4 DEF CallbackLost, Tick, vars, SafeWrite
  <1>5. CASE \E c \in Calls : LedgerStep(c)
    BY <1>5 DEF LedgerStep, LedgerBalance, LedgerTransfer, LedgerRejects
  <1>6. CASE \E id \in OrderIds, amount \in Amounts : Deposit(id, amount)
    BY <1>6 DEF Deposit
  <1> QED BY <1>1, <1>2, <1>3, <1>4, <1>5, <1>6 DEF Next

(* However stale the copy a handler writes back, an order stays the order   *)
(* of the user who created it, created when it was, under its own id.       *)
THEOREM OrdersKeepIdentity == Spec => IdentityKept
PROOF
  <1> DEFINE Kept == \A id \in DOMAIN orders :
                       /\ id \in DOMAIN orders'
                       /\ orders'[id].payer = orders[id].payer
                       /\ orders'[id].created = orders[id].created
  <1>1. ASSUME IInv, [Next]_vars PROVE Kept
    <2>0. TypeOK
      BY <1>1 DEF IInv
    <2>1. CASE SafeWrite
      <3>1. CASE UNCHANGED orders
        BY <3>1
      <3>2. ASSUME NEW order \in Order, Storable(order), Store(order) PROVE Kept
        <4>1. CopyOfStored(order) /\ orders' = [orders EXCEPT ![order.id] = order]
          BY <2>0, <3>2, StoreTypes DEF Storable, CopyOfStored
        <4> QED BY <2>0, <4>1 DEF CopyOfStored, TypeOK
      <3> QED BY <2>1, <3>1, <3>2 DEF SafeWrite
    <2>2. ASSUME NEW payer \in Users, CreateOrder(payer) PROVE Kept
      <3>1. \A id \in DOMAIN orders : id # next_order_id
        BY <2>0 DEF TypeOK
      <3> QED BY <2>2, <3>1 DEF CreateOrder, Store, Put, FreshId
    <2> QED BY <1>1, <2>1, <2>2, StoreEffect
  <1>2. IInv /\ [Next]_vars => [Kept]_vars
    BY <1>1
  <1> QED BY <1>2, Inductive, PTL DEF Spec, IdentityKept

-----------------------------------------------------------------------------
(* The contract, step by step. *)

statusMap == [id \in OrderIds |-> IF id \in DOMAIN orders THEN orders[id].status ELSE "Absent"]
receivedMap == [id \in OrderIds |-> ledger[id].received]
payoutsMap == [id \in OrderIds |-> ledger[id].refunds]

LEMMA WriteMaps ==
  ASSUME IInv, NEW order \in Order, Storable(order), Store(order),
         UNCHANGED <<next_order_id, ledger>>
  PROVE  Contract!Next
PROOF
  <1> DEFINE o == order.id
  <1>0. TypeOK
    BY DEF IInv
  <1>1. /\ orders' = [orders EXCEPT ![o] = order] /\ DOMAIN orders' = DOMAIN orders
        /\ o \in DOMAIN orders /\ o \in OrderIds
        /\ Backed(order)
        /\ order.status \in {"Unpaid", "Paid", "TimedOut", "Refunded"}
    <2>1. o \in DOMAIN orders /\ Backed(order) /\ order.status # "Verifying"
      BY DEF Storable, CopyOfStored
    <2>2. o \in OrderIds /\ order.status \in Status
      BY <1>0, <2>1, SMTT(30) DEF TypeOK, Order
    <2> QED BY <1>0, <2>1, <2>2, StoreTypes DEF Status
  <1>2. /\ statusMap' = [statusMap EXCEPT ![o] = order.status]
        /\ statusMap[o] # "Absent"
        /\ UNCHANGED <<receivedMap, payoutsMap>>
    <2>1. orders[o].status \in Status
      BY <1>0, <1>1 DEF TypeOK, Order
    <2> QED BY <1>0, <1>1, <2>1 DEF statusMap, receivedMap, payoutsMap, Status, TypeOK
  <1>3. CASE order.status = "Unpaid"
    <2>1. Contract!Reopen(o)
      BY <1>2, <1>3 DEF Contract!Reopen, Contract!Become, statusMap, receivedMap, payoutsMap
    <2> QED BY <1>1, <2>1 DEF Contract!Next
  <1>4. CASE order.status = "Paid"
    <2>1. receivedMap[o] >= Price
      BY <1>1, <1>4 DEF Backed, receivedMap
    <2>2. Contract!Settle(o)
      BY <1>2, <1>4, <2>1 DEF Contract!Settle, Contract!Become, statusMap, receivedMap, payoutsMap
    <2> QED BY <1>1, <2>2 DEF Contract!Next
  <1>5. CASE order.status = "TimedOut"
    <2>1. Contract!Expire(o)
      BY <1>2, <1>5 DEF Contract!Expire, Contract!Become, statusMap, receivedMap, payoutsMap
    <2> QED BY <1>1, <2>1 DEF Contract!Next
  <1>6. CASE order.status = "Refunded"
    <2>1. payoutsMap[o] > 0
      BY <1>1, <1>6 DEF Backed, payoutsMap
    <2>2. Contract!Return(o)
      BY <1>2, <1>6, <2>1 DEF Contract!Return, Contract!Become, statusMap, receivedMap, payoutsMap
    <2> QED BY <1>1, <2>2 DEF Contract!Next
  <1> QED BY <1>1, <1>3, <1>4, <1>5, <1>6

LEMMA CreateMaps ==
  ASSUME IInv, NEW payer \in Users, CreateOrder(payer)
  PROVE  Contract!Next
PROOF
  <1>0. TypeOK
    BY DEF IInv
  <1>1. PICK o \in OrderIds : o = next_order_id /\ o \notin DOMAIN orders
    BY <1>0 DEF CreateOrder, TypeOK
  <1>2. /\ statusMap' = [statusMap EXCEPT ![o] = "Unpaid"]
        /\ statusMap[o] = "Absent"
        /\ UNCHANGED <<receivedMap, payoutsMap>>
    <2>1. /\ DOMAIN orders' = DOMAIN orders \cup {o}
          /\ orders'[o].status = "Unpaid"
          /\ \A i \in DOMAIN orders : orders'[i] = orders[i]
          /\ ledger' = ledger
      BY <1>1 DEF CreateOrder, Store, Put, FreshId
    <2> QED BY <1>1, <2>1 DEF statusMap, receivedMap, payoutsMap
  <1>3. Contract!Open(o)
    BY <1>2 DEF Contract!Open, Contract!Become, statusMap, receivedMap, payoutsMap
  <1> QED BY <1>3 DEF Contract!Next

LEMMA LedgerMaps ==
  ASSUME IInv, UNCHANGED <<next_order_id, orders>>,
         \/ \E c \in Calls : LedgerStep(c)
         \/ \E id \in OrderIds, amount \in Amounts : Deposit(id, amount)
  PROVE  Contract!Next \/ UNCHANGED <<statusMap, receivedMap, payoutsMap>>
PROOF
  <1>0. TypeOK
    BY DEF IInv
  <1>1. UNCHANGED statusMap
    BY DEF statusMap
  <1>2. CASE UNCHANGED ledger
    BY <1>1, <1>2 DEF receivedMap, payoutsMap
  <1>3. ASSUME NEW c \in Calls, LedgerTransfer(c)
        PROVE  Contract!Next \/ UNCHANGED <<receivedMap, payoutsMap>>
    <2>1. c \in DOMAIN calls
      <3>1. inbox # <<>> /\ Head(inbox) = c /\ inbox \in Seq(DOMAIN calls)
        BY <1>0, <1>3 DEF LedgerTransfer, Asked, TypeOK
      <3> QED BY <3>1
    <2>2. PICK o \in OrderIds : o = calls[c].order.id /\ o \in DOMAIN orders
      BY <1>0, <2>1 DEF TypeOK
    <2>3. /\ ledger'[o].received = ledger[o].received
          /\ ledger'[o].refunds =
               IF calls[c].op = "confirm" THEN ledger[o].refunds ELSE ledger[o].refunds + 1
          /\ \A i \in OrderIds \ {o} : ledger'[i] = ledger[i]
      <3>1. ledger[o] \in Subaccount
        BY <1>0 DEF TypeOK
      <3>2. \E cost : ledger' = [ledger EXCEPT
              ![o].balance = @ - cost,
              ![o].shares  = IF calls[c].op = "confirm" THEN @ + 1 ELSE @,
              ![o].refunds = IF calls[c].op = "confirm" THEN @ ELSE @ + 1]
        BY <1>3, <2>2 DEF LedgerTransfer
      <3> QED BY <1>0, <3>1, <3>2 DEF TypeOK, Subaccount
    <2>4. CASE calls[c].op = "confirm"
      BY <2>3, <2>4 DEF receivedMap, payoutsMap
    <2>5. CASE calls[c].op # "confirm"
      <3>1. payoutsMap' = [payoutsMap EXCEPT ![o] = @ + 1] /\ UNCHANGED receivedMap
        BY <2>3, <2>5 DEF receivedMap, payoutsMap
      <3>2. statusMap[o] # "Absent"
        BY <1>0, <2>2 DEF statusMap, TypeOK, Order, Status
      <3>3. Contract!PayOut(o)
        BY <1>1, <3>1, <3>2 DEF Contract!PayOut, statusMap, receivedMap, payoutsMap
      <3> QED BY <3>3 DEF Contract!Next
    <2> QED BY <2>4, <2>5
  <1>4. ASSUME NEW o \in OrderIds, NEW amount \in Amounts, Deposit(o, amount)
        PROVE  Contract!Next
    <2>1. /\ ledger'[o].received = ledger[o].received + amount
          /\ ledger'[o].refunds = ledger[o].refunds
          /\ \A i \in OrderIds \ {o} : ledger'[i] = ledger[i]
          /\ ledger[o].received \in Nat /\ amount \in Nat \ {0}
      <3>1. ledger[o] \in Subaccount
        BY <1>0 DEF TypeOK
      <3> QED BY <1>0, <1>4, <3>1 DEF Deposit, TypeOK, Subaccount
    <2>2. /\ receivedMap' = [receivedMap EXCEPT ![o] = receivedMap'[o]]
          /\ receivedMap'[o] > receivedMap[o]
          /\ UNCHANGED payoutsMap
      <3>1. /\ receivedMap[o] = ledger[o].received
            /\ receivedMap'[o] = ledger[o].received + amount
        BY <2>1 DEF receivedMap
      <3>2. receivedMap' = [receivedMap EXCEPT ![o] = receivedMap'[o]]
        BY <2>1 DEF receivedMap
      <3>3. receivedMap'[o] > receivedMap[o]
        BY <2>1, <3>1
      <3>4. UNCHANGED payoutsMap
        BY <2>1 DEF payoutsMap
      <3> QED BY <3>2, <3>3, <3>4
    <2>3. statusMap[o] # "Absent"
      BY <1>0, <1>4 DEF statusMap, TypeOK, Order, Status, Deposit
    <2>4. Contract!Receive(o)
      BY <1>1, <2>2, <2>3 DEF Contract!Receive, statusMap, receivedMap, payoutsMap
    <2> QED BY <2>4 DEF Contract!Next
  <1>5. \/ UNCHANGED ledger
        \/ \E c \in Calls : LedgerTransfer(c)
        \/ \E o \in OrderIds, amount \in Amounts : Deposit(o, amount)
    BY DEF LedgerStep, LedgerBalance, LedgerRejects
  <1> QED BY <1>1, <1>2, <1>3, <1>4, <1>5

(* The payment orders of the hub, with their asynchronous calls, implement  *)
(* the contract: Paid only when paid for, Refunded only after a refund.     *)
THEOREM KeepsContract == Spec => ImplementsContract
PROOF
  <1>1. Init => Contract!Init
    <2> SUFFICES ASSUME Init PROVE Contract!Init
      OBVIOUS
    <2> QED BY DEF Init, Nothing, EmptySubaccount, Contract!Init
  <1>2. ASSUME IInv, [Next]_vars
        PROVE  [Contract!Next]_(Contract!vars)
    <2>1. CASE SafeWrite
      <3>1. CASE UNCHANGED orders
        BY <2>1, <3>1 DEF SafeWrite, Contract!vars
      <3>2. ASSUME NEW order \in Order, Storable(order), Store(order) PROVE Contract!Next
        BY <1>2, <2>1, <3>2, WriteMaps DEF SafeWrite
      <3> QED BY <2>1, <3>1, <3>2 DEF SafeWrite
    <2>2. CASE \E payer \in Users : CreateOrder(payer)
      BY <1>2, <2>2, CreateMaps
    <2>3. CASE /\ UNCHANGED <<next_order_id, orders>>
               /\ \/ \E c \in Calls : LedgerStep(c)
                  \/ \E id \in OrderIds, amount \in Amounts : Deposit(id, amount)
      <3>1. Contract!Next \/ UNCHANGED <<statusMap, receivedMap, payoutsMap>>
        BY <1>2, <2>3, LedgerMaps
      <3> QED BY <3>1 DEF Contract!vars, statusMap, receivedMap, payoutsMap
    <2> QED BY <1>2, <2>1, <2>2, <2>3, StoreEffect
  <1> QED BY <1>1, <1>2, Inductive, PTL DEF Spec, ImplementsContract, Contract!Spec
=============================================================================
