----------------------------- MODULE TreasuryTab -----------------------------
(***************************************************************************)
(* The treasury tab of a DAO's page (components/tabs/TreasuryTab.jsx): the *)
(* balances the DAO canister reported (hooks/daoHooks.js), a dialog that   *)
(* sends from one of them and a dialog that shows where to receive.        *)
(* submitTransfer awaits the canister; the dialog can be dismissed         *)
(* meanwhile, and opened again.  Amounts are base units.                   *)
(***************************************************************************)
EXTENDS Integers, FiniteSets

CONSTANTS
  Assets,       \* keys of tokenDefs
  Recipients,   \* recipient addresses
  MaxAmount,    \* bound on balances and amounts
  Calls,        \* transfers under way at a time
  MaxAbandoned  \* bound on the dismissals counted

TokenDefs ==
  [icp |-> "Internet Computer", dao |-> "Internet Computer", btc |-> "Bitcoin",
   eth |-> "Ethereum", usdt |-> "Ethereum"]

ASSUME TreasuryAssumption ==
  /\ Assets \subseteq DOMAIN TokenDefs
  /\ MaxAmount \in Nat /\ MaxAbandoned \in Nat /\ IsFiniteSet(Calls)

VARIABLES
  dialog,    \* isTransferOpen, selectedAsset, recipient, transferAmount, transferLoading, messages
  receive,   \* receiveAsset, and copied
  shown,     \* tokenBalances: the balances as last fetched
  reachable, \* whether daoWalletAddresses has been fetched
  call,      \* the transfers under way
  balance,   \* external: what the DAO canister's wallets hold
  abandoned  \* history: how often a dialog was dismissed while it said Sending

vars == <<dialog, receive, shown, reachable, call, balance, abandoned>>

NoAsset == "none"
NotAnAmount == -1  \* what toUnits does not convert
Idle == [phase |-> "idle"]

Amounts == 0 .. MaxAmount
(* Who the money goes to, with the asset whose dialog it was typed in.      *)
Typed == [to : Recipients, for : Assets]
NoOne == [to |-> "", for |-> NoAsset]

Dialogs ==
  [asset : Assets \cup {NoAsset}, funds : Amounts, recipient : Typed \cup {NoOne},
   amount : Amounts \cup {NotAnAmount}, loading : BOOLEAN, notice : {"none", "error", "success"}]
Transfer == [asset : Assets, recipient : Typed, amount : Amounts \ {0}]
CallStates == {Idle} \cup [phase : {"sent", "paid", "refused"}, arg : Transfer, mounted : BOOLEAN]

Closed ==
  [asset |-> NoAsset, funds |-> 0, recipient |-> NoOne, amount |-> NotAnAmount,
   loading |-> FALSE, notice |-> "none"]
NothingReceived == [asset |-> NoAsset, copied |-> FALSE]

Init ==
  /\ dialog = Closed
  /\ receive = NothingReceived
  /\ shown = [a \in Assets |-> 0]
  /\ reachable = FALSE
  /\ call = [c \in Calls |-> Idle]
  /\ balance = [a \in Assets |-> MaxAmount]
  /\ abandoned = 0

Busy(c) == call[c] # Idle
UnderWay == {c \in Calls : call[c].phase # "idle"}
DialogOpen == dialog.asset # NoAsset

-----------------------------------------------------------------------------
(* The queries of the page: the addresses of the wallets, once, and every   *)
(* balance again and again; a balance that could not be read is shown as 0. *)
FetchAddresses ==
  /\ reachable' = TRUE
  /\ UNCHANGED <<dialog, receive, shown, call, balance, abandoned>>

FetchBalances ==
  /\ reachable
  /\ shown' \in [Assets -> Amounts]
  /\ \A a \in Assets : shown'[a] \in {0, balance[a]}
  /\ UNCHANGED <<dialog, receive, reachable, call, balance, abandoned>>

-----------------------------------------------------------------------------
(* openTransfer, from the list of balances that an open dialog covers.  It  *)
(* keeps transferLoading as it is, and the balance as it is now shown.      *)
Remembered == dialog.recipient
Emptied == NoOne
Opened(a) ==
  [Closed EXCEPT !.asset = a, !.funds = shown[a], !.recipient = Emptied, !.loading = dialog.loading]
OpenTransfer(a) ==
  /\ reachable /\ ~DialogOpen /\ receive.asset = NoAsset
  /\ dialog' = Opened(a)
  /\ UNCHANGED <<receive, shown, reachable, call, balance, abandoned>>

TypeRecipient(r) ==
  /\ DialogOpen
  /\ dialog' = [dialog EXCEPT !.recipient = [to |-> r, for |-> dialog.asset]]
  /\ UNCHANGED <<receive, shown, reachable, call, balance, abandoned>>

TypeAmount(n) ==
  /\ DialogOpen
  /\ dialog' = [dialog EXCEPT !.amount = n]
  /\ UNCHANGED <<receive, shown, reachable, call, balance, abandoned>>

(* closeTransfer, and the tab left for another: the same, for the dialog.   *)
Abandoning == IF dialog.loading THEN abandoned + 1 ELSE abandoned
CloseTransfer ==
  /\ DialogOpen
  /\ Abandoning <= MaxAbandoned
  /\ dialog' = [Closed EXCEPT !.recipient = Emptied]
  /\ abandoned' = Abandoning
  /\ UNCHANGED <<receive, shown, reachable, call, balance>>

LeaveTab ==
  /\ Abandoning <= MaxAbandoned
  /\ dialog' = Closed
  /\ receive' = NothingReceived
  /\ call' = [c \in Calls |-> IF Busy(c) THEN [call[c] EXCEPT !.mounted = FALSE] ELSE Idle]
  /\ abandoned' = Abandoning
  /\ UNCHANGED <<shown, reachable, balance>>

-----------------------------------------------------------------------------
(* submitTransfer: a refusal of its own checks, or a call.  The wallet it   *)
(* names is the DAO's on the asset's chain; reachable says there is one.    *)
Accepted ==
  /\ dialog.recipient # NoOne
  /\ dialog.amount # NotAnAmount /\ dialog.amount > 0 /\ dialog.amount <= dialog.funds

Enabled == TRUE
CanSend == ~dialog.loading

SubmitRefused ==
  /\ DialogOpen /\ CanSend /\ ~Accepted
  /\ dialog' = [dialog EXCEPT !.notice = "error"]
  /\ UNCHANGED <<receive, shown, reachable, call, balance, abandoned>>

SubmitTransfer(c) ==
  /\ DialogOpen /\ CanSend /\ Accepted /\ ~Busy(c)
  /\ dialog' = [dialog EXCEPT !.notice = "none", !.loading = TRUE]
  /\ call' = [call EXCEPT ![c] =
                [phase |-> "sent", mounted |-> TRUE,
                 arg |-> [asset |-> dialog.asset, recipient |-> dialog.recipient,
                          amount |-> dialog.amount]]]
  /\ UNCHANGED <<receive, shown, reachable, balance, abandoned>>

(* wallet_token_transfer in the DAO canister: done, or an Err.              *)
Pays(c) ==
  LET arg == call[c].arg IN
  /\ call[c].phase = "sent" /\ arg.amount <= balance[arg.asset]
  /\ balance' = [balance EXCEPT ![arg.asset] = @ - arg.amount]
  /\ call' = [call EXCEPT ![c].phase = "paid"]
  /\ UNCHANGED <<dialog, receive, shown, reachable, abandoned>>

Refuses(c) ==
  /\ call[c].phase = "sent"
  /\ call' = [call EXCEPT ![c].phase = "refused"]
  /\ UNCHANGED <<dialog, receive, shown, reachable, balance, abandoned>>

(* What the tab is told, or an exception, whatever was done: it goes to     *)
(* whichever dialog is open by then, if any.                                *)
ReleasedByOkOnly(notice) ==
  [dialog EXCEPT !.loading = @ /\ notice = "error", !.notice = notice]
Released(notice) == [dialog EXCEPT !.loading = FALSE, !.notice = notice]

Answered(c, notice) ==
  /\ call[c].phase \in (IF notice = "success" THEN {"paid"} ELSE {"paid", "refused"})
  /\ dialog' = IF call[c].mounted THEN Released(notice) ELSE dialog
  /\ call' = [call EXCEPT ![c] = Idle]
  /\ UNCHANGED <<receive, shown, reachable, balance, abandoned>>

-----------------------------------------------------------------------------
(* The dialog that shows an address, and its copy button: the tick goes     *)
(* when a timer of an earlier copy runs out, whatever is shown by then.     *)
(* The await on the clipboard is left out: a copy is a step, and the tick   *)
(* comes with it; a copy that the clipboard refuses changes nothing.        *)
OpenReceive(a) ==
  /\ reachable /\ ~DialogOpen /\ receive.asset = NoAsset
  /\ receive' = [receive EXCEPT !.asset = a]
  /\ UNCHANGED <<dialog, shown, reachable, call, balance, abandoned>>

CloseReceive ==
  /\ receive.asset # NoAsset
  /\ receive' = [receive EXCEPT !.asset = NoAsset]
  /\ UNCHANGED <<dialog, shown, reachable, call, balance, abandoned>>

CopyAddress ==
  /\ receive.asset # NoAsset
  /\ receive' = [receive EXCEPT !.copied = TRUE]
  /\ UNCHANGED <<dialog, shown, reachable, call, balance, abandoned>>

CopiedExpires ==
  /\ receive.copied
  /\ receive' = [receive EXCEPT !.copied = FALSE]
  /\ UNCHANGED <<dialog, shown, reachable, call, balance, abandoned>>

-----------------------------------------------------------------------------
User ==
  \/ \E a \in Assets : OpenTransfer(a) \/ OpenReceive(a)
  \/ \E r \in Recipients : TypeRecipient(r)
  \/ \E n \in Amounts \cup {NotAnAmount} : TypeAmount(n)
  \/ CloseTransfer \/ LeaveTab \/ CloseReceive \/ CopyAddress \/ SubmitRefused
  \/ \E c \in Calls : SubmitTransfer(c)

Continue(c) ==
  \/ Pays(c) \/ Refuses(c)
  \/ \E notice \in {"success", "error"} : Answered(c, notice)

Next == User \/ FetchAddresses \/ FetchBalances \/ CopiedExpires \/ \E c \in Calls : Continue(c)

Spec == Init /\ [][Next]_vars

(* A call to a canister ends, with an answer or an exception.               *)
Fairness == \A c \in Calls : WF_vars(Continue(c))
FairSpec == Spec /\ Fairness

-----------------------------------------------------------------------------
TypeOK ==
  /\ dialog \in Dialogs
  /\ receive \in [asset : Assets \cup {NoAsset}, copied : BOOLEAN]
  /\ shown \in [Assets -> Amounts] /\ balance \in [Assets -> Amounts]
  /\ reachable \in BOOLEAN
  /\ call \in [Calls -> CallStates]
  /\ abandoned \in 0 .. MaxAbandoned

(* The Send button is disabled only while a transfer of this tab is under   *)
(* way; and, although a late answer enables it for a dialog that is still   *)
(* sending, no two transfers overlap unless a dialog was dismissed while it *)
(* said Sending: there are never more of them than such dismissals, and one *)
(* (submitTransfer, closeTransfer).                                         *)
SendingIsTrue ==
  /\ dialog.loading => \E c \in Calls : call[c].phase # "idle" /\ call[c].mounted
  /\ Cardinality(UnderWay) <= abandoned + (IF dialog.loading THEN 1 ELSE 0)

(* An address typed for one asset is never sent another, whatever is        *)
(* dismissed, reopened and answered in between (openTransfer and            *)
(* closeTransfer both forget it).                                           *)
RecipientIsOfTheAsset ==
  \A c \in UnderWay : call[c].arg.recipient.for = call[c].arg.asset

(* The dialog does not stay disabled.                                       *)
SendingEnds == dialog.loading ~> ~dialog.loading
=============================================================================
