-------------------------- MODULE HubSettlementProofs --------------------------
(***************************************************************************)
(* What HubPayment promises when calls on the hub do not overlap and       *)
(* nothing is lost, proved for every number of users, orders and payments: *)
(* an order is settled at most once and never also paid back, and the      *)
(* stored orders follow the strict life cycle of PaymentContract.          *)
(*                                                                         *)
(* IInv alone does not say it: an executed share or refund is stored only  *)
(* when its call resumes.  Settling says that a stored order agrees with   *)
(* its account but for the transfer of the one call under way, and that    *)
(* this call still sees the order, and the money, that it found.           *)
(***************************************************************************)
EXTENDS HubPaymentProofs, MCHubPayment

USE PricesAssumption, BoundsAssumption
USE DEF OrderIds, NoReply, Rejected, Executed

(* Nothing overlaps and nothing is lost: what the strict promises need.     *)
OneAtATime == (\A c, d \in Calls : c = d) /\ ~Faulty

(* The transfer the call asked for was made, and the call does not know yet.*)
Moved(call) == call.await = "transfer" /\ call.reply = Executed

(* An order whose record is up to date.                                     *)
UpToDate(order, account) ==
  /\ account.shares = IF order.shared THEN 1 ELSE 0
  /\ account.refunds = IF order.status = "Refunded" THEN 1 ELSE 0
  /\ order.shared => order.status = "Paid" /\ account.balance >= BaseFee - Fee

(* A call under way: what it found stored is still there, and the money it  *)
(* saw is still in the account, until its own transfer moves it.            *)
OnItsWay(call) ==
  LET order == orders[call.order.id]  account == ledger[call.order.id] IN
    /\ ~order.shared /\ ~call.order.shared
    /\ call.op = "refund" =>
         /\ order.status \in {"Unpaid", "TimedOut"} /\ call.order.status = order.status
         /\ Moved(call) => account.shares = 0 /\ account.refunds = 1
    /\ call.op = "confirm" /\ call.await = "balance" =>
         order.status = "Unpaid" /\ call.reply <= account.balance
    /\ call.op = "confirm" /\ call.await = "transfer" =>
         /\ order.status \in {"Unpaid", "Paid"}
         /\ IF Moved(call)
              THEN account.shares = 1 /\ account.refunds = 0 /\ account.balance >= BaseFee - Fee
              ELSE account.balance >= call.order.amount_paid

(* Inductive together with IInv, for one call at a time.                    *)
Settling ==
  /\ \A id \in OrderIds \ DOMAIN orders : ledger[id].shares = 0 /\ ledger[id].refunds = 0
  /\ \A id \in DOMAIN orders :
       /\ orders[id].status = "Paid" /\ ~orders[id].shared /\ ledger[id].shares = 0 =>
            ledger[id].balance >= orders[id].amount_paid
       /\ \/ UpToDate(orders[id], ledger[id])
          \/ \E c \in DOMAIN calls : calls[c].order.id = id /\ Moved(calls[c])
  /\ \A c \in DOMAIN calls : OnItsWay(calls[c])

-----------------------------------------------------------------------------
(* The step of PaymentContract that a step is, or none.                     *)
StrictStep == Contract!StrictNext \/ UNCHANGED <<statusMap, receivedMap, payoutsMap>>

(* How the strict life cycle lets a stored order change.                    *)
LifeCycle(order) ==
  LET stored == orders[order.id]  account == ledger[order.id] IN
    \/ order.status = stored.status
    \/ /\ stored.status = "Unpaid" /\ account.refunds = 0
       /\ order.status \in {"TimedOut", "Paid"}
    \/ stored.status \in {"Unpaid", "TimedOut"} /\ order.status = "Refunded"

LEMMA OneCall ==
  ASSUME OneAtATime, TypeOK, NEW c \in Calls
  PROVE  DOMAIN calls \subseteq {c}
  BY DEF OneAtATime, TypeOK

LEMMA StoreIsStrict ==
  ASSUME IInv, NEW order \in Order, Storable(order), LifeCycle(order), Store(order),
         UNCHANGED <<next_order_id, ledger>>
  PROVE  StrictStep
  <1> DEFINE o == order.id
  <1>1. TypeOK /\ o \in DOMAIN orders /\ o \in OrderIds /\ Backed(order)
    <2>1. TypeOK /\ o \in DOMAIN orders /\ Backed(order)
      BY DEF IInv, Storable, CopyOfStored
    <2> QED BY <2>1 DEF TypeOK
  <1>2. orders' = [orders EXCEPT ![o] = order] /\ DOMAIN orders' = DOMAIN orders
    BY <1>1, StoreTypes
  <1>3. /\ statusMap' = [statusMap EXCEPT ![o] = order.status]
        /\ statusMap[o] = orders[o].status
        /\ UNCHANGED <<receivedMap, payoutsMap>>
    BY <1>1, <1>2 DEF statusMap, receivedMap, payoutsMap, TypeOK
  <1>4. receivedMap[o] = ledger[o].received /\ payoutsMap[o] = ledger[o].refunds
    BY <1>1 DEF receivedMap, payoutsMap
  <1>5. orders[o].status \in Status
    BY <1>1 DEF TypeOK, Order
  <1>6. CASE order.status = orders[o].status
    <2>1. statusMap' = statusMap
      BY <1>3, <1>6 DEF statusMap
    <2> QED BY <1>3, <2>1 DEF StrictStep
  <1>7. CASE orders[o].status = "Unpaid" /\ ledger[o].refunds = 0 /\ order.status = "TimedOut"
    <2>1. Contract!Expire(o)
      BY <1>3, <1>7 DEF Contract!Expire, Contract!Become, statusMap, receivedMap, payoutsMap
    <2>2. statusMap[o] = "Unpaid" /\ payoutsMap[o] = 0
      BY <1>3, <1>4, <1>7
    <2>3. Contract!StrictNext
      BY <1>1, <2>1, <2>2 DEF Contract!StrictNext, statusMap, payoutsMap
    <2> QED BY <2>3 DEF StrictStep
  <1>8. CASE orders[o].status = "Unpaid" /\ ledger[o].refunds = 0 /\ order.status = "Paid"
    <2>1. receivedMap[o] >= Price
      BY <1>1, <1>4, <1>8 DEF Backed
    <2>2. Contract!Settle(o)
      BY <1>3, <1>8, <2>1 DEF Contract!Settle, Contract!Become, statusMap, receivedMap, payoutsMap
    <2>3. statusMap[o] = "Unpaid" /\ payoutsMap[o] = 0
      BY <1>3, <1>4, <1>8
    <2>4. Contract!StrictNext
      BY <1>1, <2>2, <2>3 DEF Contract!StrictNext, statusMap, payoutsMap
    <2> QED BY <2>4 DEF StrictStep
  <1>9. CASE orders[o].status \in {"Unpaid", "TimedOut"} /\ order.status = "Refunded"
    <2>1. payoutsMap[o] > 0
      BY <1>1, <1>4, <1>9 DEF Backed
    <2>2. Contract!Return(o)
      BY <1>3, <1>9, <2>1 DEF Contract!Return, Contract!Become, statusMap, receivedMap, payoutsMap
    <2>3. statusMap[o] \in {"Unpaid", "TimedOut"}
      BY <1>3, <1>9
    <2>4. Contract!Pending(o)
      BY <2>3 DEF Contract!Pending, statusMap
    <2>5. Contract!StrictNext
      BY <1>1, <2>2, <2>4 DEF Contract!StrictNext
    <2> QED BY <2>5 DEF StrictStep
  <1> QED BY <1>6, <1>7, <1>8, <1>9 DEF LifeCycle

(* A handler ends: nothing is under way, and what it stores is up to date.  *)
LEMMA FinishSettles ==
  ASSUME IInv, Settling, OneAtATime, NEW c \in Calls, NEW order \in Order, Storable(order),
         Finish(c, order), HubOnly, LifeCycle(order),
         c \in DOMAIN calls => calls[c].order.id = order.id,
         UpToDate(order, ledger[order.id]),
         order.status = "Paid" /\ ~order.shared /\ ledger[order.id].shares = 0 =>
           ledger[order.id].balance >= order.amount_paid
  PROVE  Settling' /\ StrictStep
  <1> DEFINE o == order.id
  <1>1. TypeOK /\ o \in DOMAIN orders /\ Store(order) /\ UNCHANGED <<next_order_id, ledger>>
    BY DEF IInv, TypeOK, Storable, CopyOfStored, Finish, HubOnly
  <1>2. orders' = [orders EXCEPT ![o] = order] /\ DOMAIN orders' = DOMAIN orders
    BY <1>1, StoreTypes
  <1>3. DOMAIN calls \subseteq {c} /\ DOMAIN calls' = {}
    BY <1>1, OneCall DEF Finish, Drop
  <1>4. ASSUME NEW id \in DOMAIN orders'
        PROVE  /\ orders'[id].status = "Paid" /\ ~orders'[id].shared /\ ledger'[id].shares = 0 =>
                    ledger'[id].balance >= orders'[id].amount_paid
               /\ UpToDate(orders'[id], ledger'[id])
    <2>1. CASE id = o
      BY <1>1, <1>2, <2>1
    <2>2. CASE id # o
      <3>1. orders'[id] = orders[id] /\ id \in DOMAIN orders
        BY <1>1, <1>2, <2>2 DEF TypeOK
      <3>2. UpToDate(orders[id], ledger[id])
        BY <1>3, <2>2, <3>1 DEF Settling
      <3> QED BY <1>1, <3>1, <3>2 DEF Settling
    <2> QED BY <2>1, <2>2
  <1>5. \A id \in OrderIds \ DOMAIN orders' : ledger'[id].shares = 0 /\ ledger'[id].refunds = 0
    BY <1>1, <1>2 DEF Settling
  <1>6. Settling'
    BY <1>3, <1>4, <1>5 DEF Settling, UpToDate
  <1>7. StrictStep
    BY <1>1, StoreIsStrict
  <1> QED BY <1>6, <1>7

(* A handler awaits the ledger: its call is the one under way.              *)
LEMMA AwaitSettles ==
  ASSUME IInv, Settling, OneAtATime, NEW c \in Calls, NEW order \in Order,
         NEW op, NEW stage, order.id \in DOMAIN orders,
         Await(c, op, stage, order), HubOnly,
         c \in DOMAIN calls => calls[c].order.id = order.id,
         UpToDate(orders[order.id], ledger[order.id]),
         OnItsWay([op |-> op, await |-> stage, order |-> order, reply |-> NoReply])
  PROVE  Settling' /\ StrictStep
  <1> DEFINE call == [op |-> op, await |-> stage, order |-> order, reply |-> NoReply]
  <1>1. TypeOK /\ UNCHANGED <<orders, ledger>>
    BY DEF IInv, Await, HubOnly
  <1>2. DOMAIN calls \subseteq {c} /\ DOMAIN calls' = {c} /\ calls'[c] = call
    BY <1>1, OneCall DEF Await, Put
  <1>3. ASSUME NEW id \in DOMAIN orders PROVE UpToDate(orders[id], ledger[id])
    <2>1. CASE id = order.id
      BY <2>1
    <2>2. CASE id # order.id
      BY <1>2, <2>2 DEF Settling
    <2> QED BY <2>1, <2>2
  <1>4. OnItsWay(call)'
    <2>1. OnItsWay(call)
      OBVIOUS
    <2> HIDE DEF call
    <2> QED BY <1>1, <2>1 DEF OnItsWay, Moved
  <1>5. Settling'
    <2> HIDE DEF call
    <2>1. OnItsWay(calls[c])'
      BY <1>1, <1>2, <1>4 DEF OnItsWay, Moved
    <2> QED BY <1>1, <1>2, <1>3, <2>1 DEF Settling, UpToDate
  <1>6. StrictStep
    BY <1>1 DEF StrictStep, statusMap, receivedMap, payoutsMap
  <1> QED BY <1>5, <1>6

-----------------------------------------------------------------------------
(* Between calls, and before a transfer was made, every record is up to date.*)
LEMMA Quiet ==
  ASSUME TypeOK, Settling, OneAtATime, NEW c \in Calls,
         c \in DOMAIN calls => ~Moved(calls[c])
  PROVE  \A id \in DOMAIN orders : UpToDate(orders[id], ledger[id])
  <1>1. DOMAIN calls \subseteq {c}
    BY OneCall
  <1> QED BY <1>1 DEF Settling

LEMMA ConfirmStartSettles ==
  ASSUME IInv, Settling, OneAtATime, NEW c \in Calls, NEW id \in OrderIds, ConfirmStart(c, id)
  PROVE  Settling' /\ StrictStep
  <1> DEFINE order == orders[id]
             account == ledger[id]
  <1>1. /\ TypeOK /\ HubOnly /\ c \notin DOMAIN calls
        /\ id \in DOMAIN orders /\ order \in Order /\ order.id = id
        /\ account.balance \in Nat /\ account.shares \in Nat /\ account.refunds \in Nat
    BY DEF IInv, TypeOK, ConfirmStart, HubOnly, Subaccount
  <1>2. UpToDate(order, account) /\ CopyOfStored(order) /\ Backed(order)
    BY <1>1, Quiet DEF IInv, CopyOfStored
  <1>3. CASE order.status = "Unpaid" /\ TimedOut(order)
    <2> DEFINE expired == [order EXCEPT !.status = "TimedOut"]
    <2>1. /\ expired \in Order /\ expired.id = id /\ expired.status = "TimedOut"
          /\ expired.shared = order.shared
      BY <1>1 DEF Order, Status
    <2>2. Storable(expired)
      BY <1>1, <1>2, <1>3 DEF Storable, Order, Status, CopyOfStored, Backed
    <2>3. Drop(calls, c) = calls
      BY <1>1 DEF Drop, TypeOK
    <2>4. Finish(c, expired)
      BY <1>3, <2>3 DEF ConfirmStart, Finish
    <2> HIDE DEF expired
    <2>5. LifeCycle(expired) /\ UpToDate(expired, ledger[expired.id])
      BY <1>1, <1>2, <1>3, <2>1 DEF LifeCycle, UpToDate
    <2> QED BY <1>1, <2>1, <2>2, <2>4, <2>5, FinishSettles
  <1>4. CASE order.status = "Unpaid" /\ ~TimedOut(order)
    <2> DEFINE copy == [order EXCEPT !.status = "Verifying"]
    <2>1. copy \in Order /\ copy.id = id /\ copy.shared = order.shared
      BY <1>1 DEF Order, Status
    <2>2. Await(c, "confirm", "balance", copy)
      BY <1>4 DEF ConfirmStart
    <2> HIDE DEF copy
    <2>3. OnItsWay([op |-> "confirm", await |-> "balance", order |-> copy, reply |-> NoReply])
      BY <1>1, <1>2, <1>4, <2>1 DEF OnItsWay, UpToDate, Moved
    <2> QED BY <1>1, <1>2, <2>1, <2>2, <2>3, AwaitSettles
  <1>5. CASE order.status = "Paid" /\ ~order.shared
    <2>1. order.amount_paid > BaseFee /\ order.amount_paid \in Nat
      BY <1>1, <1>2, <1>5 DEF Backed, Order
    <2>2. Await(c, "confirm", "transfer", order)
      BY <1>5, <2>1 DEF ConfirmStart, SharePay
    <2>3. account.balance >= order.amount_paid
      BY <1>1, <1>2, <1>5 DEF UpToDate, Settling
    <2>4. OnItsWay([op |-> "confirm", await |-> "transfer", order |-> order, reply |-> NoReply])
      BY <1>1, <1>5, <2>3 DEF OnItsWay, Moved
    <2> QED BY <1>1, <1>2, <2>2, <2>4, AwaitSettles
  <1> QED BY <1>3, <1>4, <1>5 DEF ConfirmStart

(* What a handler that resumes finds. *)
LEMMA ResumeFinds ==
  ASSUME IInv, Settling, OneAtATime, NEW c \in DOMAIN calls
  PROVE  /\ TypeOK /\ c \in Calls /\ calls[c] \in Call /\ PendingOK(calls[c]) /\ OnItsWay(calls[c])
         /\ calls[c].order \in Order
         /\ calls[c].order.id \in DOMAIN orders /\ calls[c].order.id \in OrderIds
         /\ orders[calls[c].order.id] \in Order
         /\ ledger[calls[c].order.id] \in Subaccount
         /\ ~Moved(calls[c]) => \A id \in DOMAIN orders : UpToDate(orders[id], ledger[id])
  <1>1. TypeOK /\ c \in Calls
    BY DEF IInv, TypeOK
  <1>2. calls[c] \in Call /\ calls[c].order.id \in DOMAIN orders
    BY <1>1 DEF TypeOK
  <1>3. /\ calls[c].order \in Order
        /\ calls[c].order.id \in OrderIds
        /\ orders[calls[c].order.id] \in Order
        /\ ledger[calls[c].order.id] \in Subaccount
    BY <1>1, <1>2 DEF TypeOK, Call
  <1> QED BY <1>1, <1>2, <1>3, Quiet DEF IInv, Settling

LEMMA ConfirmBalanceSettles ==
  ASSUME IInv, Settling, OneAtATime, NEW c \in Calls, ConfirmBalance(c)
  PROVE  Settling' /\ StrictStep
  <1> DEFINE balance == calls[c].reply
             copy == calls[c].order
             o == copy.id
             order == [copy EXCEPT !.amount_paid = balance]
  <1>1. /\ c \in DOMAIN calls /\ HubOnly
        /\ calls[c].op = "confirm" /\ calls[c].await = "balance" /\ balance # NoReply
    BY DEF ConfirmBalance, Answered, HubOnly
  <1>2. /\ TypeOK /\ calls[c] \in Call /\ PendingOK(calls[c]) /\ OnItsWay(calls[c])
        /\ copy \in Order /\ o \in DOMAIN orders /\ o \in OrderIds /\ ledger[o] \in Subaccount
        /\ UpToDate(orders[o], ledger[o])
    BY <1>1, ResumeFinds DEF Moved
  <1>3. /\ balance \in Nat /\ order \in Order /\ order.id = o /\ order.amount_paid = balance
        /\ order.shared = copy.shared /\ order.status = copy.status
        /\ order.payer = copy.payer /\ order.created = copy.created
    BY <1>1, <1>2 DEF Call, Order
  <1>4. /\ orders[o].status = "Unpaid" /\ ~orders[o].shared /\ ~order.shared
        /\ balance <= ledger[o].balance
        /\ ledger[o].shares = 0 /\ ledger[o].refunds = 0
    BY <1>1, <1>2, <1>3 DEF OnItsWay, UpToDate
  <1>5. /\ (IF Covers(balance) THEN SharePay(c, [order EXCEPT !.status = "Paid", !.verified = TRUE])
                               ELSE Finish(c, [order EXCEPT !.status = "Unpaid"]))
        /\ ledger[o].balance \in Nat /\ ledger[o].received \in Nat
    BY <1>2 DEF ConfirmBalance, Subaccount
  <1> HIDE DEF order
  <1>6. CASE Covers(balance)
    <2> DEFINE paid == [order EXCEPT !.status = "Paid", !.verified = TRUE]
    <2>1. /\ paid \in Order /\ paid.id = o /\ paid.amount_paid = balance /\ ~paid.shared
      BY <1>3, <1>4 DEF Order, Status
    <2>2. SharePay(c, paid)
      BY <1>5, <1>6
    <2> HIDE DEF paid
    <2>3. Await(c, "confirm", "transfer", paid)
      BY <1>3, <1>6, <2>1, <2>2 DEF SharePay, Covers
    <2>4. OnItsWay([op |-> "confirm", await |-> "transfer", order |-> paid, reply |-> NoReply])
      BY <1>4, <2>1 DEF OnItsWay, Moved
    <2> QED BY <1>1, <1>2, <2>1, <2>3, <2>4, AwaitSettles
  <1>7. CASE ~Covers(balance)
    <2> DEFINE unpaid == [order EXCEPT !.status = "Unpaid"]
    <2>1. /\ unpaid \in Order /\ unpaid.id = o /\ unpaid.status = "Unpaid" /\ ~unpaid.shared
          /\ unpaid.payer = copy.payer /\ unpaid.created = copy.created
      BY <1>3, <1>4 DEF Order, Status
    <2>2. Finish(c, unpaid)
      BY <1>5, <1>7
    <2> HIDE DEF unpaid
    <2>3. Storable(unpaid)
      BY <1>2, <2>1 DEF Storable, CopyOfStored, Backed, PendingOK
    <2>4. LifeCycle(unpaid) /\ UpToDate(unpaid, ledger[unpaid.id])
      BY <1>4, <2>1 DEF LifeCycle, UpToDate
    <2> QED BY <1>1, <2>1, <2>2, <2>3, <2>4, FinishSettles
  <1> QED BY <1>6, <1>7

LEMMA ConfirmShareSettles ==
  ASSUME IInv, Settling, OneAtATime, NEW c \in Calls, ConfirmShare(c)
  PROVE  Settling' /\ StrictStep
  <1> DEFINE copy == calls[c].order
             o == copy.id
             shared == SharedAfter(copy, calls[c].reply)
             order == [copy EXCEPT !.shared = shared]
  <1>1. /\ c \in DOMAIN calls /\ HubOnly /\ Finish(c, order)
        /\ calls[c].op = "confirm" /\ calls[c].await = "transfer" /\ calls[c].reply # NoReply
    BY DEF ConfirmShare, Answered, HubOnly
  <1>2. /\ TypeOK /\ calls[c] \in Call /\ PendingOK(calls[c]) /\ OnItsWay(calls[c])
        /\ copy \in Order /\ o \in DOMAIN orders /\ o \in OrderIds /\ ledger[o] \in Subaccount
        /\ ~Moved(calls[c]) => UpToDate(orders[o], ledger[o])
    BY <1>1, ResumeFinds
  <1>3. /\ copy.status = "Paid" /\ ~copy.shared /\ shared \in BOOLEAN
        /\ shared <=> Moved(calls[c])
        /\ ~orders[o].shared /\ orders[o].status \in {"Unpaid", "Paid"}
    BY <1>1, <1>2 DEF SharedAfter, Moved, PendingOK, OnItsWay
  <1>4. /\ order \in Order /\ order.id = o /\ order.status = "Paid" /\ order.shared = shared
        /\ order.payer = copy.payer /\ order.created = copy.created
        /\ order.amount_paid = copy.amount_paid
    BY <1>2, <1>3 DEF Order
  <1>5. /\ ledger[o].refunds = 0
        /\ ledger[o].shares = IF shared THEN 1 ELSE 0
        /\ shared => ledger[o].balance >= BaseFee - Fee
        /\ ~shared => ledger[o].balance >= copy.amount_paid
    BY <1>1, <1>2, <1>3 DEF OnItsWay, UpToDate
  <1> HIDE DEF order, shared
  <1>6. Storable(order)
    <2>1. shared => ledger[o].shares > 0
      BY <1>5
    <2> QED BY <1>2, <1>3, <1>4, <2>1 DEF Storable, CopyOfStored, Backed, PendingOK
  <1>7. LifeCycle(order) /\ UpToDate(order, ledger[order.id])
    BY <1>3, <1>4, <1>5 DEF LifeCycle, UpToDate
  <1>8. order.status = "Paid" /\ ~order.shared /\ ledger[order.id].shares = 0 =>
          ledger[order.id].balance >= order.amount_paid
    BY <1>4, <1>5
  <1> QED BY <1>1, <1>4, <1>6, <1>7, <1>8, FinishSettles

LEMMA RefundSettles ==
  ASSUME IInv, Settling, OneAtATime, NEW c \in Calls,
         \/ \E id \in OrderIds, caller \in Users : RefundStart(c, id, caller)
         \/ \E validTo \in BOOLEAN : RefundBalance(c, validTo)
         \/ RefundTransfer(c)
  PROVE  Settling' /\ StrictStep
  <1>1. ASSUME NEW id \in OrderIds, NEW caller \in Users, RefundStart(c, id, caller)
        PROVE  Settling' /\ StrictStep
    <2> DEFINE order == orders[id]
    <2>1. /\ TypeOK /\ HubOnly /\ c \notin DOMAIN calls
          /\ id \in DOMAIN orders /\ order \in Order /\ order.id = id
          /\ order.status \notin {"Paid", "Refunded"}
          /\ Await(c, "refund", "balance", order)
      BY <1>1 DEF IInv, TypeOK, RefundStart, Refundable, HubOnly
    <2>2. UpToDate(order, ledger[id]) /\ order.status \in {"Unpaid", "TimedOut"} /\ ~order.shared
      <3>1. UpToDate(order, ledger[id]) /\ order.status # "Verifying"
        BY <2>1, Quiet DEF IInv
      <3> QED BY <2>1, <3>1 DEF UpToDate, Order, Status
    <2>3. OnItsWay([op |-> "refund", await |-> "balance", order |-> order, reply |-> NoReply])
      <3> HIDE DEF order
      <3>1. orders[order.id] = order
        BY <2>1 DEF order
      <3> QED BY <2>2, <3>1 DEF OnItsWay, Moved
    <2> QED BY <2>1, <2>2, <2>3, AwaitSettles
  <1>2. ASSUME NEW validTo \in BOOLEAN, RefundBalance(c, validTo)
        PROVE  Settling' /\ StrictStep
    <2> DEFINE copy == calls[c].order
               o == copy.id
               order == [copy EXCEPT !.amount_paid = calls[c].reply]
    <2>1. /\ c \in DOMAIN calls /\ HubOnly
          /\ calls[c].op = "refund" /\ calls[c].await = "balance" /\ calls[c].reply # NoReply
          /\ Finish(c, order) \/ Await(c, "refund", "transfer", order)
      BY <1>2 DEF RefundBalance, Answered, HubOnly
    <2>2. /\ TypeOK /\ calls[c] \in Call /\ PendingOK(calls[c]) /\ OnItsWay(calls[c])
          /\ copy \in Order /\ o \in DOMAIN orders /\ o \in OrderIds
          /\ UpToDate(orders[o], ledger[o])
      BY <2>1, ResumeFinds DEF Moved
    <2>3. /\ orders[o].status \in {"Unpaid", "TimedOut"} /\ copy.status = orders[o].status
          /\ ~orders[o].shared /\ ~copy.shared
      BY <2>1, <2>2 DEF OnItsWay
    <2>4. /\ order \in Order /\ order.id = o /\ order.status = copy.status
          /\ order.shared = copy.shared /\ order.payer = copy.payer /\ order.created = copy.created
      BY <2>1, <2>2 DEF Order, Call
    <2> HIDE DEF order
    <2>5. CASE Finish(c, order)
      <3>1. Storable(order)
        BY <2>2, <2>3, <2>4 DEF Storable, CopyOfStored, Backed, PendingOK
      <3>2. LifeCycle(order) /\ UpToDate(order, ledger[order.id])
        BY <2>2, <2>3, <2>4 DEF LifeCycle, UpToDate
      <3> QED BY <2>1, <2>3, <2>4, <2>5, <3>1, <3>2, FinishSettles
    <2>6. CASE Await(c, "refund", "transfer", order)
      <3>1. OnItsWay([op |-> "refund", await |-> "transfer", order |-> order, reply |-> NoReply])
        BY <2>3, <2>4 DEF OnItsWay, Moved
      <3> QED BY <2>1, <2>2, <2>4, <2>6, <3>1, AwaitSettles
    <2> QED BY <2>1, <2>5, <2>6
  <1>3. CASE RefundTransfer(c)
    <2> DEFINE copy == calls[c].order
               o == copy.id
               order == AfterRefund(copy, calls[c].reply)
    <2>1. /\ c \in DOMAIN calls /\ HubOnly /\ Finish(c, order)
          /\ calls[c].op = "refund" /\ calls[c].await = "transfer"
      BY <1>3 DEF RefundTransfer, Answered, HubOnly
    <2>2. /\ TypeOK /\ calls[c] \in Call /\ PendingOK(calls[c]) /\ OnItsWay(calls[c])
          /\ copy \in Order /\ o \in DOMAIN orders /\ o \in OrderIds
          /\ ~Moved(calls[c]) => UpToDate(orders[o], ledger[o])
      BY <2>1, ResumeFinds
    <2>3. /\ orders[o].status \in {"Unpaid", "TimedOut"} /\ copy.status = orders[o].status
          /\ ~orders[o].shared /\ ~copy.shared
          /\ Moved(calls[c]) => ledger[o].shares = 0 /\ ledger[o].refunds = 1
      BY <2>1, <2>2 DEF OnItsWay
    <2>4. /\ order \in Order /\ order.id = o /\ order.shared = copy.shared
          /\ order.payer = copy.payer /\ order.created = copy.created
          /\ order.status = IF Moved(calls[c]) THEN "Refunded" ELSE copy.status
      BY <2>1, <2>2 DEF AfterRefund, Moved, Order, Status
    <2> HIDE DEF order
    <2>5. LifeCycle(order) /\ UpToDate(order, ledger[order.id])
      BY <2>2, <2>3, <2>4 DEF LifeCycle, UpToDate
    <2>6. Storable(order)
      <3>1. order.status = "Refunded" => ledger[o].refunds > 0
        BY <2>3, <2>4
      <3> QED BY <2>2, <2>3, <2>4, <3>1 DEF Storable, CopyOfStored, Backed, PendingOK
    <2> QED BY <2>1, <2>3, <2>4, <2>5, <2>6, FinishSettles
  <1> QED BY <1>1, <1>2, <1>3

-----------------------------------------------------------------------------
(* The ledger and the world. *)

LEMMA ReplySettles ==
  ASSUME IInv, Settling, OneAtATime, NEW c \in Calls, LedgerBalance(c) \/ LedgerRejects(c)
  PROVE  Settling' /\ StrictStep
  <1> DEFINE o == calls[c].order.id
  <1>1. PICK value \in Nat :
          /\ calls' = [calls EXCEPT ![c].reply = value]
          /\ \/ calls[c].await = "balance" /\ (value = 0 \/ value = ledger[o].balance)
             \/ calls[c].await = "transfer" /\ value = Rejected
    <2>1. CASE LedgerRejects(c)
      BY <2>1 DEF LedgerRejects, Asked, Reply
    <2>2. CASE LedgerBalance(c)
      <3>1. PICK value \in {0, ledger[o].balance} : Reply(c, value)
        BY <2>2 DEF LedgerBalance
      <3>2. ledger[o].balance \in Nat
        <4>1. TypeOK /\ c \in DOMAIN calls
          <5>1. TypeOK /\ inbox # <<>> /\ Head(inbox) = c
            BY <2>2 DEF LedgerBalance, Asked, IInv
          <5>2. inbox \in Seq(DOMAIN calls)
            BY <5>1 DEF TypeOK
          <5> QED BY <5>1, <5>2
        <4>2. ledger[o] \in Subaccount
          BY <4>1 DEF TypeOK
        <4> QED BY <4>2 DEF Subaccount
      <3> QED BY <2>2, <3>1, <3>2 DEF LedgerBalance, Asked, Reply
    <2> QED BY <2>1, <2>2
  <1>2. /\ UNCHANGED <<orders, ledger>> /\ c \in DOMAIN calls /\ calls[c].reply = NoReply
    <2>1. /\ TypeOK /\ RequestsAwaited /\ inbox # <<>> /\ Head(inbox) = c
          /\ UNCHANGED <<orders, ledger>>
      BY DEF IInv, LedgerBalance, LedgerRejects, Asked
    <2>2. inbox \in Seq(DOMAIN calls)
      BY <2>1 DEF TypeOK
    <2>3. 1 \in 1 .. Len(inbox) /\ inbox[1] = c /\ c \in DOMAIN calls
      BY <2>1, <2>2
    <2> QED BY <2>1, <2>3 DEF RequestsAwaited
  <1>3. /\ TypeOK /\ calls[c] \in Call /\ OnItsWay(calls[c])
        /\ ledger[o] \in Subaccount
        /\ \A id \in DOMAIN orders : UpToDate(orders[id], ledger[id])
    BY <1>2, ResumeFinds DEF Moved
  <1>4. /\ DOMAIN calls = {c} /\ DOMAIN calls' = {c}
        /\ calls'[c] = [calls[c] EXCEPT !.reply = value]
    BY <1>1, <1>2, <1>3, OneCall DEF TypeOK
  <1>5. /\ calls'[c].op = calls[c].op /\ calls'[c].await = calls[c].await
        /\ calls'[c].order = calls[c].order /\ calls'[c].reply = value
    BY <1>3, <1>4 DEF Call
  <1>6. ledger[o].balance \in Nat /\ value <= ledger[o].balance
    BY <1>1, <1>3 DEF Subaccount
  <1>7. ~Moved(calls[c]) /\ ~Moved(calls'[c])
    BY <1>1, <1>2, <1>5 DEF Moved
  <1>8. OnItsWay(calls[c])'
    BY <1>2, <1>3, <1>5, <1>6, <1>7 DEF OnItsWay, Moved
  <1>9. Settling'
    BY <1>2, <1>3, <1>4, <1>8 DEF Settling, UpToDate
  <1>10. StrictStep
    BY <1>2 DEF StrictStep, statusMap, receivedMap, payoutsMap
  <1> QED BY <1>9, <1>10

LEMMA TransferSettles ==
  ASSUME IInv, Settling, OneAtATime, NEW c \in Calls, LedgerTransfer(c)
  PROVE  Settling' /\ StrictStep
  <1> DEFINE o == calls[c].order.id
             account == ledger[o]
             isShare == calls[c].op = "confirm"
             cost == TransferAmount(calls[c]) + Fee
  <1>1. /\ c \in DOMAIN calls /\ calls[c].reply = NoReply /\ calls[c].await = "transfer"
        /\ UNCHANGED orders
    <2>1. /\ TypeOK /\ RequestsAwaited /\ inbox # <<>> /\ Head(inbox) = c
          /\ UNCHANGED orders /\ calls[c].await = "transfer"
      BY DEF IInv, LedgerTransfer, Asked
    <2>2. inbox \in Seq(DOMAIN calls)
      BY <2>1 DEF TypeOK
    <2>3. 1 \in 1 .. Len(inbox) /\ inbox[1] = c /\ c \in DOMAIN calls
      BY <2>1, <2>2
    <2> QED BY <2>1, <2>3 DEF RequestsAwaited
  <1>2. /\ TypeOK /\ calls[c] \in Call /\ OnItsWay(calls[c]) /\ calls[c].order \in Order
        /\ o \in DOMAIN orders /\ o \in OrderIds /\ account \in Subaccount
        /\ \A id \in DOMAIN orders : UpToDate(orders[id], ledger[id])
    BY <1>1, ResumeFinds DEF Moved
  <1>3. /\ DOMAIN calls = {c} /\ DOMAIN calls' = {c}
        /\ calls'[c] = [calls[c] EXCEPT !.reply = Executed]
    <2>1. calls' = [calls EXCEPT ![c].reply = Executed]
      BY DEF LedgerTransfer, Reply, OneAtATime
    <2> QED BY <1>1, <1>2, <2>1, OneCall DEF TypeOK
  <1>4. /\ calls'[c].op = calls[c].op /\ calls'[c].await = "transfer"
        /\ calls'[c].order = calls[c].order /\ calls'[c].reply = Executed
        /\ calls[c].op \in {"confirm", "refund"}
    BY <1>1, <1>2, <1>3 DEF Call
  <1>5. /\ orders[o] \in Order /\ ~orders[o].shared /\ ~calls[c].order.shared
        /\ isShare => orders[o].status \in {"Unpaid", "Paid"}
        /\ isShare => account.balance >= calls[c].order.amount_paid
        /\ ~isShare => /\ orders[o].status \in {"Unpaid", "TimedOut"}
                       /\ calls[c].order.status = orders[o].status
    BY <1>1, <1>2, <1>4 DEF OnItsWay, Moved, TypeOK
  <1>6. /\ account.shares = 0 /\ account.refunds = 0
    BY <1>2, <1>5 DEF UpToDate
  <1>7. /\ account.balance \in Nat /\ calls[c].order.amount_paid \in Nat
        /\ isShare => cost = calls[c].order.amount_paid - BaseFee + Fee
    BY <1>2 DEF Subaccount, Order, TransferAmount
  <1>8. /\ ledger' = [ledger EXCEPT ![o].balance = @ - cost,
                                    ![o].shares  = IF isShare THEN @ + 1 ELSE @,
                                    ![o].refunds = IF isShare THEN @ ELSE @ + 1]
    BY DEF LedgerTransfer
  <1> HIDE DEF cost
  <1>9. /\ ledger'[o].received = account.received
        /\ ledger'[o].balance = account.balance - cost
        /\ ledger'[o].shares = IF isShare THEN 1 ELSE 0
        /\ ledger'[o].refunds = IF isShare THEN 0 ELSE 1
        /\ \A id \in OrderIds \ {o} : ledger'[id] = ledger[id]
    <2>1. /\ ledger'[o] = [account EXCEPT !.balance = @ - cost,
                                          !.shares  = IF isShare THEN @ + 1 ELSE @,
                                          !.refunds = IF isShare THEN @ ELSE @ + 1]
          /\ \A id \in OrderIds \ {o} : ledger'[id] = ledger[id]
      BY <1>2, <1>8 DEF TypeOK
    <2> QED BY <1>2, <1>6, <2>1 DEF Subaccount
  <1>10. isShare => ledger'[o].balance >= BaseFee - Fee
    <2>1. \A b, a, k : b \in Nat /\ a \in Nat /\ b >= a /\ k = a - BaseFee + Fee => b - k >= BaseFee - Fee
      OBVIOUS
    <2>2. ASSUME isShare PROVE account.balance - cost >= BaseFee - Fee
      BY <1>5, <1>7, <2>1, <2>2
    <2> QED BY <1>9, <2>2
  <1>11. Moved(calls'[c])
    BY <1>4 DEF Moved
  <1>12. OnItsWay(calls[c])'
    BY <1>1, <1>4, <1>5, <1>9, <1>10, <1>11 DEF OnItsWay, Moved
  <1>13. ASSUME NEW id \in DOMAIN orders'
         PROVE  /\ orders'[id].status = "Paid" /\ ~orders'[id].shared /\ ledger'[id].shares = 0 =>
                     ledger'[id].balance >= orders'[id].amount_paid
                /\ \/ UpToDate(orders'[id], ledger'[id])
                   \/ calls'[c].order.id = id
    <2>1. CASE id = o
      BY <1>1, <1>4, <1>5, <1>9, <2>1
    <2>2. CASE id # o
      <3>1. ledger'[id] = ledger[id]
        BY <1>1, <1>2, <1>9, <2>2, SMTT(30) DEF TypeOK
      <3> QED BY <1>1, <1>2, <3>1 DEF Settling
    <2> QED BY <2>1, <2>2
  <1>14. \A id \in OrderIds \ DOMAIN orders' : ledger'[id].shares = 0 /\ ledger'[id].refunds = 0
    BY <1>1, <1>2, <1>9 DEF Settling
  <1>15. Settling'
    BY <1>3, <1>11, <1>12, <1>13, <1>14 DEF Settling, UpToDate, Moved
  <1>16. StrictStep
    <2>1. UNCHANGED <<statusMap, receivedMap>>
      BY <1>1, <1>9 DEF statusMap, receivedMap
    <2>2. CASE isShare
      BY <1>6, <1>9, <2>1, <2>2 DEF StrictStep, payoutsMap
    <2>3. CASE ~isShare
      <3>1. PICK p \in OrderIds : p = o
        BY <1>2
      <3>2. ledger[p].refunds = 0 /\ ledger'[p].refunds = 0 + 1
        BY <1>6, <1>9, <2>3, <3>1
      <3>3. payoutsMap' = [payoutsMap EXCEPT ![p] = @ + 1] /\ payoutsMap[p] = 0
        <4>1. payoutsMap[p] = 0
          BY <3>2 DEF payoutsMap
        <4>2. \A id \in OrderIds \ {p} : ledger'[id] = ledger[id]
          BY <1>9, <3>1
        <4> QED BY <3>2, <4>1, <4>2 DEF payoutsMap
      <3>4. statusMap[p] \in {"Unpaid", "TimedOut"}
        BY <1>2, <1>5, <2>3, <3>1 DEF statusMap
      <3>5. Contract!PayOut(p) /\ Contract!Pending(p)
        BY <2>1, <3>3, <3>4 DEF Contract!PayOut, Contract!Pending, statusMap, receivedMap, payoutsMap
      <3>6. Contract!StrictNext
        BY <3>3, <3>5 DEF Contract!StrictNext, payoutsMap
      <3> QED BY <3>6 DEF StrictStep
    <2> QED BY <2>2, <2>3
  <1> QED BY <1>15, <1>16

LEMMA CreateSettles ==
  ASSUME IInv, Settling, OneAtATime, NEW payer \in Users, CreateOrder(payer)
  PROVE  Settling' /\ StrictStep
  <1>1. TypeOK
    BY DEF IInv
  <1>2. PICK o \in OrderIds : o = next_order_id /\ o \notin DOMAIN orders
    BY <1>1 DEF CreateOrder, TypeOK
  <1>3. /\ DOMAIN orders' = DOMAIN orders \cup {o}
        /\ orders'[o].status = "Unpaid" /\ orders'[o].shared = FALSE
        /\ \A id \in DOMAIN orders : orders'[id] = orders[id]
        /\ UNCHANGED <<calls, ledger>>
    BY <1>2 DEF CreateOrder, Store, Put, FreshId
  <1>4. UpToDate(orders'[o], ledger'[o])
    BY <1>2, <1>3 DEF Settling, UpToDate
  <1>5. ASSUME NEW c \in DOMAIN calls' PROVE OnItsWay(calls[c])'
    <2>1. calls'[c] = calls[c] /\ OnItsWay(calls[c]) /\ calls[c].order.id \in DOMAIN orders
      BY <1>1, <1>3 DEF Settling, TypeOK
    <2>2. orders'[calls[c].order.id] = orders[calls[c].order.id]
      BY <1>3, <2>1
    <2> QED BY <1>3, <2>1, <2>2 DEF OnItsWay, Moved
  <1>6. ASSUME NEW id \in DOMAIN orders'
        PROVE  /\ orders'[id].status = "Paid" /\ ~orders'[id].shared /\ ledger'[id].shares = 0 =>
                    ledger'[id].balance >= orders'[id].amount_paid
               /\ \/ UpToDate(orders'[id], ledger'[id])
                  \/ \E c \in DOMAIN calls' : calls'[c].order.id = id /\ Moved(calls'[c])
    <2>1. CASE id = o
      BY <1>3, <1>4, <2>1
    <2>2. CASE id \in DOMAIN orders
      BY <1>3, <2>2 DEF Settling
    <2> QED BY <1>3, <2>1, <2>2
  <1>7. Settling'
    BY <1>3, <1>5, <1>6 DEF Settling, UpToDate, Moved
  <1>8. /\ statusMap' = [statusMap EXCEPT ![o] = "Unpaid"]
        /\ statusMap[o] = "Absent"
        /\ UNCHANGED <<receivedMap, payoutsMap>>
    BY <1>2, <1>3 DEF statusMap, receivedMap, payoutsMap
  <1>9. Contract!Open(o)
    BY <1>8 DEF Contract!Open, Contract!Become, statusMap, receivedMap, payoutsMap
  <1>10. StrictStep
    BY <1>9 DEF Contract!StrictNext, StrictStep
  <1> QED BY <1>7, <1>10

LEMMA DepositSettles ==
  ASSUME IInv, Settling, OneAtATime, NEW o \in OrderIds, NEW amount \in Amounts, Deposit(o, amount)
  PROVE  Settling' /\ StrictStep
  <1>1. /\ TypeOK /\ amount \in Nat \ {0} /\ o \in DOMAIN orders
        /\ UNCHANGED <<orders, calls>>
    BY DEF IInv, Deposit
  <1>2. /\ \A id \in OrderIds :
             /\ ledger[id].balance \in Nat /\ ledger'[id].balance \in Nat
             /\ ledger'[id].balance >= ledger[id].balance
             /\ ledger'[id].shares = ledger[id].shares
             /\ ledger'[id].refunds = ledger[id].refunds
        /\ \A id \in OrderIds \ {o} : ledger'[id].received = ledger[id].received
        /\ ledger[o].received \in Nat /\ ledger'[o].received = ledger[o].received + amount
    <2>1. /\ ledger[o] \in Subaccount
          /\ ledger'[o] = [ledger[o] EXCEPT !.balance = @ + amount, !.received = @ + amount]
          /\ \A id \in OrderIds \ {o} : ledger'[id] = ledger[id] /\ ledger[id] \in Subaccount
      BY <1>1 DEF Deposit, TypeOK
    <2>2. /\ ledger[o].balance \in Nat /\ ledger[o].received \in Nat
          /\ ledger'[o].balance = ledger[o].balance + amount
          /\ ledger'[o].received = ledger[o].received + amount
          /\ ledger'[o].shares = ledger[o].shares /\ ledger'[o].refunds = ledger[o].refunds
      BY <2>1 DEF Subaccount
    <2>3. ASSUME NEW id \in OrderIds
          PROVE  /\ ledger[id].balance \in Nat /\ ledger'[id].balance \in Nat
                 /\ ledger'[id].balance >= ledger[id].balance
                 /\ ledger'[id].shares = ledger[id].shares
                 /\ ledger'[id].refunds = ledger[id].refunds
      <3>1. CASE id = o
        BY <1>1, <2>2, <3>1
      <3>2. CASE id # o
        BY <2>1, <3>2 DEF Subaccount
      <3> QED BY <3>1, <3>2
    <2> QED BY <2>1, <2>2, <2>3
  <1>3. ASSUME NEW c \in DOMAIN calls' PROVE OnItsWay(calls[c])'
    <2> DEFINE id == calls[c].order.id
    <2>0. /\ calls'[c] = calls[c] /\ OnItsWay(calls[c]) /\ calls[c] \in Call
          /\ id \in DOMAIN orders
      BY <1>1 DEF Settling, TypeOK
    <2>1. /\ calls'[c] = calls[c] /\ OnItsWay(calls[c]) /\ id \in OrderIds
          /\ calls[c].reply \in Nat \cup {NoReply} /\ calls[c].order.amount_paid \in Nat
      <3>1. id \in OrderIds
        BY <1>1, <2>0 DEF TypeOK
      <3>2. calls[c].reply \in Nat \cup {NoReply} /\ calls[c].order \in Order
        BY <2>0 DEF Call
      <3>3. calls[c].order.amount_paid \in Nat
        BY <3>2 DEF Order
      <3> QED BY <2>0, <3>1, <3>2, <3>3
    <2>2. /\ calls[c].reply <= ledger[id].balance => calls[c].reply <= ledger'[id].balance
          /\ ledger[id].balance >= BaseFee - Fee => ledger'[id].balance >= BaseFee - Fee
          /\ ledger[id].balance >= calls[c].order.amount_paid =>
               ledger'[id].balance >= calls[c].order.amount_paid
      BY <1>2, <2>1
    <2> QED BY <1>1, <1>2, <2>1, <2>2 DEF OnItsWay, Moved
  <1>4. ASSUME NEW id \in DOMAIN orders'
        PROVE  /\ orders'[id].status = "Paid" /\ ~orders'[id].shared /\ ledger'[id].shares = 0 =>
                    ledger'[id].balance >= orders'[id].amount_paid
               /\ \/ UpToDate(orders'[id], ledger'[id])
                  \/ \E c \in DOMAIN calls' : calls'[c].order.id = id /\ Moved(calls'[c])
    <2>1. id \in OrderIds /\ orders'[id] = orders[id] /\ orders[id] \in Order
      BY <1>1 DEF TypeOK
    <2>2. orders[id].amount_paid \in Nat
      BY <2>1 DEF Order
    <2>3. /\ ledger[id].balance >= BaseFee - Fee => ledger'[id].balance >= BaseFee - Fee
          /\ ledger[id].balance >= orders[id].amount_paid => ledger'[id].balance >= orders[id].amount_paid
      BY <1>2, <2>1, <2>2
    <2>4. UpToDate(orders[id], ledger[id]) => UpToDate(orders'[id], ledger'[id])
      BY <1>2, <2>1, <2>3 DEF UpToDate
    <2> QED BY <1>1, <1>2, <2>1, <2>3, <2>4 DEF Settling
  <1>5. Settling'
    BY <1>1, <1>2, <1>3, <1>4 DEF Settling, UpToDate, Moved
  <1>6. /\ UNCHANGED <<statusMap, payoutsMap>>
        /\ receivedMap' = [receivedMap EXCEPT ![o] = receivedMap'[o]]
    BY <1>1, <1>2 DEF statusMap, receivedMap, payoutsMap
  <1>7. receivedMap[o] = ledger[o].received /\ receivedMap'[o] = ledger[o].received + amount
    BY <1>2 DEF receivedMap
  <1>8. receivedMap'[o] > receivedMap[o]
    BY <1>1, <1>2, <1>7
  <1>9. statusMap[o] # "Absent"
    BY <1>1 DEF statusMap, TypeOK, Order, Status
  <1>10. Contract!Receive(o)
    BY <1>6, <1>8, <1>9 DEF Contract!Receive, statusMap, receivedMap, payoutsMap
  <1>11. StrictStep
    BY <1>10 DEF Contract!StrictNext, StrictStep
  <1> QED BY <1>5, <1>11

-----------------------------------------------------------------------------
LEMMA NextSettles ==
  ASSUME IInv, Settling, OneAtATime, [Next]_vars
  PROVE  Settling' /\ StrictStep
  <1>1. CASE \E payer \in Users : CreateOrder(payer)
    BY <1>1, CreateSettles
  <1>2. CASE \E c \in Calls, id \in OrderIds : ConfirmStart(c, id)
    BY <1>2, ConfirmStartSettles
  <1>3. CASE \E c \in Calls, id \in OrderIds : \E caller \in Users : RefundStart(c, id, caller)
    BY <1>3, RefundSettles
  <1>4. CASE \E c \in Calls : Resume(c)
    BY <1>4, ConfirmBalanceSettles, ConfirmShareSettles, RefundSettles DEF Resume
  <1>5. CASE \E c \in Calls : LedgerStep(c)
    BY <1>5, ReplySettles, TransferSettles DEF LedgerStep
  <1>6. CASE \E id \in OrderIds, amount \in Amounts : Deposit(id, amount)
    BY <1>6, DepositSettles
  <1>7. CASE (\E c \in Calls : CallbackLost(c)) \/ Tick \/ UNCHANGED vars
    <2>1. UNCHANGED <<orders, calls, ledger>>
      BY <1>7 DEF CallbackLost, Tick, vars, OneAtATime
    <2>2. Settling'
      BY <2>1 DEF Settling, UpToDate, OnItsWay, Moved
    <2>3. StrictStep
      BY <2>1 DEF StrictStep, statusMap, receivedMap, payoutsMap
    <2> QED BY <2>2, <2>3
  <1> QED BY <1>1, <1>2, <1>3, <1>4, <1>5, <1>6, <1>7 DEF Next

LEMMA InitSettles == Init => Settling
  BY DEF Init, Nothing, EmptySubaccount, Settling

LEMMA SettlingIsFair ==
  ASSUME IInv, Settling
  PROVE  SettledFairly
  <1>1. TypeOK
    BY DEF IInv
  <1>2. ASSUME NEW id \in OrderIds
        PROVE  /\ ledger[id].refunds + ledger[id].shares <= 1
               /\ ledger[id].refunds > 0 /\ id \in DOMAIN orders => orders[id].status # "Paid"
               /\ ledger[id].shares > 0 /\ ledger[id].refunds = 0 => ledger[id].balance >= BaseFee - Fee
    <2>1. CASE id \notin DOMAIN orders
      BY <2>1 DEF Settling
    <2>2. CASE id \in DOMAIN orders /\ UpToDate(orders[id], ledger[id])
      BY <2>2 DEF UpToDate
    <2>3. ASSUME NEW c \in DOMAIN calls, calls[c].order.id = id, Moved(calls[c]), id \in DOMAIN orders
          PROVE  /\ ledger[id].refunds + ledger[id].shares <= 1
                 /\ ledger[id].refunds > 0 => orders[id].status # "Paid"
                 /\ ledger[id].shares > 0 => ledger[id].balance >= BaseFee - Fee
      <3>1. OnItsWay(calls[c]) /\ calls[c].op \in {"confirm", "refund"} /\ calls[c].await = "transfer"
        BY <1>1, <2>3 DEF Settling, TypeOK, Call, Moved
      <3> QED BY <2>3, <3>1 DEF OnItsWay
    <2> QED BY <2>1, <2>2, <2>3 DEF Settling
  <1> QED BY <1>2 DEF SettledFairly, SettledOnce, BaseFeeKept

(* When calls do not overlap and nothing is lost, the money of an order     *)
(* leaves its account at most once, never for an order that stays Paid      *)
(* after a refund, and a share leaves the base fee behind.                  *)
THEOREM SettlesFairly == ASSUME OneAtATime PROVE Spec => []SettledFairly
  <1>1. IInv /\ Settling /\ [Next]_vars => IInv' /\ Settling'
    BY NextKeepsIInv, NextSettles
  <1>2. IInv /\ Settling => SettledFairly
    BY SettlingIsFair
  <1> QED BY <1>1, <1>2, InitIInv, InitSettles, PTL DEF Spec

(* Then the stored orders also follow the strict life cycle: every order is *)
(* settled or paid back once, and no handler undoes what another stored.    *)
THEOREM KeepsStrictContract == ASSUME OneAtATime PROVE Spec => ImplementsStrictContract
  <1>1. Init => Contract!Init
    <2> SUFFICES ASSUME Init PROVE Contract!Init
      OBVIOUS
    <2> QED BY DEF Init, Nothing, EmptySubaccount, Contract!Init
  <1>2. IInv /\ Settling /\ [Next]_vars => IInv' /\ Settling' /\ [Contract!StrictNext]_(Contract!vars)
    <2> SUFFICES ASSUME IInv, Settling, [Next]_vars
                 PROVE  IInv' /\ Settling' /\ [Contract!StrictNext]_(Contract!vars)
      OBVIOUS
    <2>1. IInv' /\ Settling' /\ StrictStep
      BY NextKeepsIInv, NextSettles
    <2> QED BY <2>1 DEF StrictStep, Contract!vars, statusMap, receivedMap, payoutsMap
  <1> QED BY <1>1, <1>2, InitIInv, InitSettles, PTL
      DEF Spec, ImplementsStrictContract, Contract!StrictSpec
=============================================================================
