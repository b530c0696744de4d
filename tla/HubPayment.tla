------------------------------ MODULE HubPayment ------------------------------
(***************************************************************************)
(* The payment orders of the hub canister (src/src/ic_govmind_hub).        *)
(*                                                                         *)
(* An update call runs without interruption up to its next `await`, where  *)
(* it hands a request to the ICP ledger and every other call may run.      *)
(* confirm_payment_order and refund_payment_order take a COPY of the       *)
(* stored order before their first await and write that copy back after    *)
(* their last one; the copy travels in the record of the pending call.     *)
(* The ledger is external: it keeps one balance per order subaccount, it   *)
(* gets the hub's requests in the order they were sent (the Internet       *)
(* Computer orders requests between two canisters), its answers arrive in  *)
(* any order, and a call to it can fail.                                   *)
(***************************************************************************)
EXTENDS Integers, Sequences

CONSTANTS
  Users,     \* principals that call the hub (the anonymous one is refused)
  Calls,     \* confirm and refund calls that can be pending at once
  MaxOrders, \* bound on the orders created
  Price,     \* DAO_CREATION_PRICE_ICP
  BaseFee,   \* DAO_BASE_FEE, what share_pay leaves in the subaccount
  Fee,       \* token_fee("ICP"), the ledger's fee, charged on top
  Window,    \* the fifteen minutes an order can be paid in
  MaxTime,   \* bound on the clock
  Amounts,   \* what one payment into a subaccount can be
  MaxFunds,  \* bound on what is ever paid into one subaccount
  Faulty     \* TRUE: a reply may be lost and a callback may trap

ASSUME PricesAssumption ==
  /\ Price \in Nat /\ BaseFee \in Nat /\ Fee \in Nat
  /\ Fee <= BaseFee /\ BaseFee < Price
ASSUME BoundsAssumption ==
  /\ MaxOrders \in Nat /\ Window \in Nat /\ MaxTime \in Nat /\ MaxFunds \in Nat
  /\ Amounts \subseteq Nat \ {0}
  /\ Faulty \in BOOLEAN

VARIABLES
  now,           \* the clock of the subnet
  next_order_id, \* State.next_order_id
  orders,        \* PAYMENT_STORE: order id -> PaymentOrder
  calls,         \* pending calls: the await each one is at and its copy
  inbox,         \* the calls whose requests the ledger has yet to serve
  ledger         \* external: what the ledger knows of each subaccount

vars == <<now, next_order_id, orders, calls, inbox, ledger>>

OrderIds == 0 .. MaxOrders - 1

(* PaymentStatus.  Verifying is set on copies only; Cancelled is never used. *)
Status == {"Unpaid", "Paid", "TimedOut", "Refunded", "Verifying"}

(* PaymentOrder; of the optional times only whether they are set.  Every    *)
(* order is for Price ICP, so its amount and token are not kept.            *)
Order == [id : Nat, payer : Users, amount_paid : Nat, status : Status,
          verified : BOOLEAN, shared : BOOLEAN, created : Nat]

NoReply  == -1  \* the ledger has not answered yet
Rejected == 0   \* a transfer came back as an error
Executed == 1   \* a transfer came back with its block height

Call == [op : {"confirm", "refund"}, await : {"balance", "transfer"},
         order : Order, reply : Nat \cup {NoReply}]

(* The ledger's view of a subaccount: its balance, what it ever received,   *)
(* and how many share_pay and refund transfers left it.                     *)
Subaccount == [balance : Nat, received : Nat, shares : Nat, refunds : Nat]

EmptySubaccount == [balance |-> 0, received |-> 0, shares |-> 0, refunds |-> 0]

Nothing == [x \in {} |-> 0]

Init ==
  /\ now = 0
  /\ next_order_id = 0
  /\ orders = Nothing
  /\ calls = Nothing
  /\ inbox = <<>>
  /\ ledger = [id \in OrderIds |-> EmptySubaccount]

Put(f, k, v) == [x \in DOMAIN f \cup {k} |-> IF x = k THEN v ELSE f[x]]
Drop(f, k) == [x \in DOMAIN f \ {k} |-> f[x]]

-----------------------------------------------------------------------------
(* Endings of a stretch of handler code: store the copy and answer, or      *)
(* await the ledger with it.                                                *)

Store(order) == orders' = Put(orders, order.id, order)

Finish(c, order) ==
  /\ Store(order)
  /\ calls' = Drop(calls, c)
  /\ UNCHANGED inbox

Await(c, op, stage, order) ==
  /\ calls' = Put(calls, c, [op |-> op, await |-> stage, order |-> order, reply |-> NoReply])
  /\ inbox' = Append(inbox, c)
  /\ UNCHANGED orders

Answered(c, op, stage) ==
  /\ c \in DOMAIN calls
  /\ calls[c].op = op /\ calls[c].await = stage
  /\ calls[c].reply # NoReply

-----------------------------------------------------------------------------
(* create_payment_order: runs in one piece; the id is the saved counter.    *)

FreshIdByClock == now
FreshId == next_order_id

CreateOrder(payer) ==
  /\ next_order_id < MaxOrders
  /\ Store([id |-> FreshId, payer |-> payer, amount_paid |-> 0, status |-> "Unpaid",
            verified |-> FALSE, shared |-> FALSE, created |-> now])
  /\ next_order_id' = next_order_id + 1
  /\ UNCHANGED <<now, calls, inbox, ledger>>

(* share_pay on a copy that is Paid and not shared yet.                     *)
SharePay(c, order) ==
  IF order.amount_paid <= BaseFee
    THEN Finish(c, [order EXCEPT !.shared = TRUE])
    ELSE Await(c, "confirm", "transfer", order)

TimedOut(order) == order.created + Window < now

(* confirm_payment_order up to its first await.  Called again on an order   *)
(* that is Paid and shared, TimedOut or Refunded it stores what it read:    *)
(* such a call is a stuttering step.                                        *)
ConfirmStart(c, id) ==
  /\ c \notin DOMAIN calls /\ id \in DOMAIN orders
  /\ LET order == orders[id] IN
       \/ /\ order.status = "Unpaid" /\ TimedOut(order)
          /\ Store([order EXCEPT !.status = "TimedOut"])
          /\ UNCHANGED <<calls, inbox>>
       \/ /\ order.status = "Unpaid" /\ ~TimedOut(order)
          /\ Await(c, "confirm", "balance", [order EXCEPT !.status = "Verifying"])
       \/ /\ order.status = "Paid" /\ ~order.shared
          /\ SharePay(c, order)
  /\ UNCHANGED <<now, next_order_id, ledger>>

CoversAnything(amount) == amount # 0
Covers(amount) == amount # 0 /\ amount >= Price

(* verify_payment_order resumes with the balance, then share_pay.           *)
ConfirmBalance(c) ==
  /\ Answered(c, "confirm", "balance")
  /\ LET balance == calls[c].reply
         order == [calls[c].order EXCEPT !.amount_paid = balance] IN
       IF Covers(balance)
         THEN SharePay(c, [order EXCEPT !.status = "Paid", !.verified = TRUE])
         ELSE Finish(c, [order EXCEPT !.status = "Unpaid"])
  /\ UNCHANGED <<now, next_order_id, ledger>>

SharedAnyway(order, reply) == TRUE
SharedNever(order, reply) == order.shared
SharedAfter(order, reply) == order.shared \/ reply = Executed

(* share_pay resumes with the transfer's result; the copy is stored.        *)
ConfirmShare(c) ==
  /\ Answered(c, "confirm", "transfer")
  /\ LET order == calls[c].order IN
       Finish(c, [order EXCEPT !.shared = SharedAfter(order, calls[c].reply)])
  /\ UNCHANGED <<now, next_order_id, ledger>>

RefundableUnlessPaid(order) == order.status # "Paid"
RefundableUnlessRefunded(order) == order.status # "Refunded"
Refundable(order) == order.status \notin {"Paid", "Refunded"}

(* refund_payment_order up to its first await: only for the order's payer.  *)
RefundStart(c, id, caller) ==
  /\ c \notin DOMAIN calls /\ id \in DOMAIN orders
  /\ orders[id].payer = caller
  /\ Refundable(orders[id])
  /\ Await(c, "refund", "balance", orders[id])
  /\ UNCHANGED <<now, next_order_id, ledger>>

(* process_refund_payment_order resumes with the balance.  The transfer is  *)
(* not even sent when `to` is no account identifier.                        *)
RefundBalance(c, validTo) ==
  /\ Answered(c, "refund", "balance")
  /\ LET order == [calls[c].order EXCEPT !.amount_paid = calls[c].reply] IN
       IF order.amount_paid < Fee \/ ~validTo
         THEN Finish(c, order)
         ELSE Await(c, "refund", "transfer", order)
  /\ UNCHANGED <<now, next_order_id, ledger>>

AfterRefundAnyway(order, reply) == [order EXCEPT !.status = "Refunded", !.verified = TRUE]
AfterRefund(order, reply) ==
  IF reply = Executed THEN [order EXCEPT !.status = "Refunded", !.verified = TRUE] ELSE order

RefundTransfer(c) ==
  /\ Answered(c, "refund", "transfer")
  /\ Finish(c, AfterRefund(calls[c].order, calls[c].reply))
  /\ UNCHANGED <<now, next_order_id, ledger>>

(* The code after an await does not run: it trapped, or the canister was    *)
(* upgraded under the call.  What the stable map holds stays.               *)
CallbackLost(c) ==
  /\ Faulty
  /\ c \in DOMAIN calls /\ calls[c].reply # NoReply
  /\ calls' = Drop(calls, c)
  /\ UNCHANGED <<now, next_order_id, orders, inbox, ledger>>

-----------------------------------------------------------------------------
(* The ledger (external) and the world. *)

(* The oldest request is c's, made at this await. *)
Asked(c, stage) ==
  /\ inbox # <<>> /\ Head(inbox) = c
  /\ calls[c].await = stage

Reply(c, value) ==
  /\ calls' = [calls EXCEPT ![c].reply = value]
  /\ inbox' = Tail(inbox)

(* icrc1_balance_of; token_balance turns a failed call into 0. *)
LedgerBalance(c) ==
  /\ Asked(c, "balance")
  /\ \E value \in {0, ledger[calls[c].order.id].balance} : Reply(c, value)
  /\ UNCHANGED <<now, next_order_id, orders, ledger>>

(* What the pending transfer moves: share_pay keeps BaseFee back, a refund  *)
(* sends everything but the fee.                                            *)
TransferAmount(call) ==
  call.order.amount_paid - (IF call.op = "confirm" THEN BaseFee ELSE Fee)

LedgerTransfer(c) ==
  /\ Asked(c, "transfer")
  /\ LET id == calls[c].order.id
         cost == TransferAmount(calls[c]) + Fee
         isShare == calls[c].op = "confirm" IN
       /\ ledger[id].balance >= cost
       /\ ledger' = [ledger EXCEPT
            ![id].balance = @ - cost,
            ![id].shares  = IF isShare THEN @ + 1 ELSE @,
            ![id].refunds = IF isShare THEN @ ELSE @ + 1]
  /\ \E result \in {Executed} \cup (IF Faulty THEN {Rejected} ELSE {}) : Reply(c, result)
  /\ UNCHANGED <<now, next_order_id, orders>>

(* Too little money, or the ledger is unavailable. *)
LedgerRejects(c) ==
  /\ Asked(c, "transfer")
  /\ Reply(c, Rejected)
  /\ UNCHANGED <<now, next_order_id, orders, ledger>>

Deposit(id, amount) ==
  /\ id \in DOMAIN orders
  /\ ledger[id].received + amount <= MaxFunds
  /\ ledger' = [ledger EXCEPT ![id].balance = @ + amount, ![id].received = @ + amount]
  /\ UNCHANGED <<now, next_order_id, orders, calls, inbox>>

Tick ==
  /\ now < MaxTime
  /\ now' = now + 1
  /\ UNCHANGED <<next_order_id, orders, calls, inbox, ledger>>

-----------------------------------------------------------------------------
LedgerStep(c) == LedgerBalance(c) \/ LedgerTransfer(c) \/ LedgerRejects(c)

Resume(c) ==
  \/ ConfirmBalance(c) \/ ConfirmShare(c)
  \/ \E validTo \in BOOLEAN : RefundBalance(c, validTo)
  \/ RefundTransfer(c)

Next ==
  \/ \E payer \in Users : CreateOrder(payer)
  \/ \E c \in Calls, id \in OrderIds :
       \/ ConfirmStart(c, id)
       \/ \E caller \in Users : RefundStart(c, id, caller)
  \/ \E c \in Calls : Resume(c) \/ LedgerStep(c) \/ CallbackLost(c)
  \/ \E id \in OrderIds, amount \in Amounts : Deposit(id, amount)
  \/ Tick

Spec == Init /\ [][Next]_vars

(* The ledger answers every request and the subnet delivers every answer. *)
Fairness == \A c \in Calls : WF_vars(LedgerStep(c)) /\ WF_vars(Resume(c))

FairSpec == Spec /\ Fairness

-----------------------------------------------------------------------------
TypeOK ==
  /\ now \in Nat
  /\ next_order_id \in 0 .. MaxOrders
  /\ orders \in [0 .. next_order_id - 1 -> Order]
  /\ \A id \in DOMAIN orders : orders[id].id = id
  /\ calls \in [DOMAIN calls -> Call] /\ DOMAIN calls \subseteq Calls
  /\ \A c \in DOMAIN calls : calls[c].order.id \in DOMAIN orders
  /\ inbox \in Seq(DOMAIN calls)
  /\ ledger \in [OrderIds -> Subaccount]

(* An order the hub calls Paid, which is what check_payment_order tells     *)
(* other code, had at least its price paid into its subaccount, however     *)
(* stale the balance a confirm call worked with.                            *)
PaidIsBacked ==
  \A id \in DOMAIN orders :
    orders[id].status = "Paid" => ledger[id].received >= Price

(* The record never claims money moved that did not: Refunded means a       *)
(* refund left the subaccount, shared_time means share_pay's transfer did.  *)
ClaimsAreReal ==
  \A id \in DOMAIN orders :
    /\ orders[id].status = "Refunded" => ledger[id].refunds > 0
    /\ orders[id].shared => ledger[id].shares > 0

(* The stale copies confirm and refund write back never change whose order  *)
(* it is or when it was created, and no order id is ever used twice.        *)
IdentityKept ==
  [][\A id \in DOMAIN orders :
       /\ id \in DOMAIN orders'
       /\ orders'[id].payer = orders[id].payer
       /\ orders'[id].created = orders[id].created]_vars

(* When calls on the hub do not overlap and no reply is lost, an order is   *)
(* never both handed its money back and counted as Paid or shared, and its  *)
(* money is never taken, or given back, twice.                              *)
SettledOnce ==
  \A id \in OrderIds :
    /\ ledger[id].refunds + ledger[id].shares <= 1
    /\ ledger[id].refunds > 0 /\ id \in DOMAIN orders => orders[id].status # "Paid"

(* share_pay leaves the base fee, less the ledger fee of its own transfer,  *)
(* in the subaccount, for the DAO's costs.                                  *)
BaseFeeKept ==
  \A id \in OrderIds :
    ledger[id].shares > 0 /\ ledger[id].refunds = 0 => ledger[id].balance >= BaseFee - Fee

(* process_refund_payment_order says "If the order is already paid or       *)
(* refunded, return false" (store.rs:597): an order that is stored as Paid  *)
(* has not been given its money back.                                       *)
PaidIsNotRefunded ==
  \A id \in DOMAIN orders : orders[id].status = "Paid" => ledger[id].refunds = 0

(* Every confirm and every refund call comes to an end.                     *)
CallsEnd == \A c \in Calls : c \in DOMAIN calls ~> c \notin DOMAIN calls

(* Money that moved gets recorded: when calls do not overlap and nothing is *)
(* lost, an executed share or refund shows in the stored order.             *)
MovesAreRecorded ==
  \A id \in OrderIds :
    /\ ledger[id].refunds > 0 ~> (id \in DOMAIN orders /\ orders[id].status = "Refunded")
    /\ ledger[id].shares > 0 ~> (id \in DOMAIN orders /\ orders[id].shared)

-----------------------------------------------------------------------------
(* Why it holds: the inductive invariant of HubPaymentProofs.               *)

(* What a stored order claims is backed by the ledger's history.            *)
Backed(order) ==
  LET account == ledger[order.id] IN
    /\ order.status = "Paid" => account.received >= Price /\ order.amount_paid >= Price
    /\ order.status = "Refunded" => account.refunds > 0
    /\ order.shared => account.shares > 0

(* A copy in flight is of the order that is stored under its id.            *)
CopyOfStored(order) ==
  /\ order.id \in DOMAIN orders
  /\ orders[order.id].payer = order.payer
  /\ orders[order.id].created = order.created

(* ... claims nothing unbacked itself, and what the ledger answered the     *)
(* call is no more than the ledger's history allows.                        *)
PendingOK(call) ==
  LET account == ledger[call.order.id] IN
    /\ CopyOfStored(call.order) /\ Backed(call.order)
    /\ call.await = "balance" => call.reply <= account.received
    /\ call.op = "confirm" /\ call.await = "transfer" =>
         /\ call.order.status = "Paid"
         /\ call.reply = Executed => account.shares > 0
    /\ call.op = "refund" => call.order.status \notin {"Verifying", "Paid"}
    /\ call.op = "refund" /\ call.await = "transfer" =>
         /\ call.order.amount_paid >= Fee
         /\ call.reply = Executed => account.refunds > 0

(* A request in the inbox belongs to one call, which awaits its answer.     *)
RequestsAwaited ==
  /\ \A i, j \in 1 .. Len(inbox) : inbox[i] = inbox[j] => i = j
  /\ \A i \in 1 .. Len(inbox) : calls[inbox[i]].reply = NoReply

IInv ==
  /\ TypeOK
  /\ RequestsAwaited
  /\ \A id \in DOMAIN orders : Backed(orders[id]) /\ orders[id].status # "Verifying"
  /\ \A c \in DOMAIN calls : PendingOK(calls[c])
  /\ \A id \in OrderIds : ledger[id].balance <= ledger[id].received

-----------------------------------------------------------------------------
(* The contract the order life cycle implements. *)

Contract == INSTANCE PaymentContract WITH
  status   <- [id \in OrderIds |-> IF id \in DOMAIN orders THEN orders[id].status ELSE "Absent"],
  received <- [id \in OrderIds |-> ledger[id].received],
  payouts  <- [id \in OrderIds |-> ledger[id].refunds]

(* Whatever overlaps or gets lost, the stored orders keep the contract.     *)
ImplementsContract == Contract!Spec

(* Without overlap and loss they follow the strict life cycle.              *)
ImplementsStrictContract == Contract!StrictSpec
=============================================================================
