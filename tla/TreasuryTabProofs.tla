--------------------------- MODULE TreasuryTabProofs ---------------------------
(***************************************************************************)
(* Proofs about the treasury tab, for any assets, recipients, amounts and  *)
(* number of overlapping transfers.  The recipient that a transfer carries *)
(* was typed for its asset because the dialog never holds one typed for    *)
(* another: that, and the counts of transfers and dismissals, is Inv.      *)
(***************************************************************************)
EXTENDS TreasuryTab, FiniteSetTheorems, TLAPS

(* What is typed in the dialog was typed for the asset it shows.            *)
TypedHere == dialog.recipient # NoOne => dialog.recipient.for = dialog.asset

Inv == TypeOK /\ TypedHere /\ SendingIsTrue /\ RecipientIsOfTheAsset

(* The actions by what they do to the dialog and the calls.                 *)
Typing ==
  \/ \E r \in Recipients : TypeRecipient(r)
  \/ \E n \in Amounts \cup {NotAnAmount} : TypeAmount(n)
  \/ SubmitRefused
Fetching == FetchAddresses \/ FetchBalances
Receiving ==
  \/ \E a \in Assets : OpenReceive(a)
  \/ CloseReceive \/ CopyAddress \/ CopiedExpires

-----------------------------------------------------------------------------
(* A call is idle exactly when it is not Busy.                              *)
LEMMA BusyIsUnderWay ==
  ASSUME TypeOK, NEW c \in Calls
  PROVE  /\ Busy(c) <=> call[c].phase # "idle"
         /\ Busy(c) <=> c \in UnderWay
         /\ Busy(c) => call[c] \in [phase : {"sent", "paid", "refused"}, arg : Transfer, mounted : BOOLEAN]
  BY DEF TypeOK, CallStates, Busy, Idle, UnderWay

(* UnderWay is finite.                                                      *)
LEMMA FewUnderWay == IsFiniteSet(UnderWay) /\ Cardinality(UnderWay) \in Nat
  <1>1. UnderWay \subseteq Calls  BY DEF UnderWay
  <1>2. IsFiniteSet(UnderWay)  BY <1>1, FS_Subset, TreasuryAssumption
  <1> QED  BY <1>2, FS_CardinalityType

(* The empty dialog has the type of a dialog.                               *)
LEMMA ClosedIsADialog == Closed \in Dialogs
  BY TreasuryAssumption DEF Closed, Dialogs, Amounts, NotAnAmount

-----------------------------------------------------------------------------
(* Types, action by action.                                                 *)
LEMMA TypeInit == Init => TypeOK
  <1> SUFFICES ASSUME Init  PROVE TypeOK
    OBVIOUS
  <1>1. shown \in [Assets -> Amounts] /\ balance \in [Assets -> Amounts]
    BY TreasuryAssumption DEF Init, Amounts
  <1>2. call \in [Calls -> CallStates]  BY DEF Init, CallStates
  <1>3. receive \in [asset : Assets \cup {NoAsset}, copied : BOOLEAN]
    BY DEF Init, NothingReceived
  <1>4. abandoned \in 0 .. MaxAbandoned  BY TreasuryAssumption DEF Init
  <1>5. dialog \in Dialogs /\ reachable \in BOOLEAN  BY ClosedIsADialog DEF Init
  <1> QED  BY <1>1, <1>2, <1>3, <1>4, <1>5 DEF TypeOK

LEMMA TypeOpened ==
  ASSUME TypeOK, NEW a \in Assets, OpenTransfer(a)
  PROVE  TypeOK'
  <1>1. Opened(a) \in Dialogs
    BY ClosedIsADialog DEF Opened, Closed, Emptied, Dialogs, TypeOK, NoOne
  <1> QED  BY <1>1 DEF OpenTransfer, TypeOK

LEMMA TypeTyping == TypeOK /\ Typing => TypeOK'
  <1> SUFFICES ASSUME TypeOK, Typing  PROVE TypeOK'
    OBVIOUS
  <1>1. ASSUME NEW r \in Recipients, TypeRecipient(r)  PROVE dialog' \in Dialogs
    <2>1. dialog.asset \in Assets  BY <1>1 DEF TypeRecipient, DialogOpen, TypeOK, Dialogs
    <2>2. [to |-> r, for |-> dialog.asset] \in Typed  BY <2>1 DEF Typed
    <2> QED  BY <1>1, <2>2 DEF TypeRecipient, TypeOK, Dialogs
  <1>2. ASSUME NEW n \in Amounts \cup {NotAnAmount}, TypeAmount(n)  PROVE dialog' \in Dialogs
    BY <1>2 DEF TypeAmount, TypeOK, Dialogs
  <1>3. ASSUME SubmitRefused  PROVE dialog' \in Dialogs
    BY <1>3 DEF SubmitRefused, TypeOK, Dialogs
  <1>4. dialog' \in Dialogs  BY <1>1, <1>2, <1>3 DEF Typing
  <1>5. UNCHANGED <<receive, shown, reachable, call, balance, abandoned>>
    BY DEF Typing, TypeRecipient, TypeAmount, SubmitRefused
  <1> QED  BY <1>4, <1>5 DEF TypeOK

LEMMA TypeFetching == TypeOK /\ Fetching => TypeOK'
  BY DEF TypeOK, Fetching, FetchAddresses, FetchBalances

LEMMA TypeReceiving == TypeOK /\ Receiving => TypeOK'
  BY DEF TypeOK, Receiving, OpenReceive, CloseReceive, CopyAddress, CopiedExpires

(* A dismissal that is counted stays within the bound.                      *)
LEMMA AbandoningCounts ==
  ASSUME TypeOK, Abandoning <= MaxAbandoned
  PROVE  Abandoning \in 0 .. MaxAbandoned
  BY TreasuryAssumption DEF TypeOK, Abandoning

LEMMA TypeClosing == TypeOK /\ (CloseTransfer \/ LeaveTab) => TypeOK'
  <1> SUFFICES ASSUME TypeOK, CloseTransfer \/ LeaveTab  PROVE TypeOK'
    OBVIOUS
  <1>1. abandoned' \in 0 .. MaxAbandoned
    BY AbandoningCounts DEF CloseTransfer, LeaveTab
  <1>2. [Closed EXCEPT !.recipient = Emptied] \in Dialogs
    BY ClosedIsADialog DEF Closed, Emptied, Dialogs
  <1>3. CASE CloseTransfer
    BY <1>1, <1>2, <1>3 DEF CloseTransfer, TypeOK
  <1>4. CASE LeaveTab
    <2>1. ASSUME NEW c \in Calls
          PROVE  (IF Busy(c) THEN [call[c] EXCEPT !.mounted = FALSE] ELSE Idle) \in CallStates
      BY BusyIsUnderWay DEF CallStates
    <2>2. call' \in [Calls -> CallStates]  BY <1>4, <2>1 DEF LeaveTab
    <2> QED  BY <1>1, <1>4, <2>2, ClosedIsADialog DEF LeaveTab, TypeOK, NothingReceived
  <1> QED  BY <1>3, <1>4

(* What submitTransfer sends is a transfer of the dialog's asset.           *)
LEMMA SentIsATransfer ==
  ASSUME TypeOK, DialogOpen, Accepted
  PROVE  [asset |-> dialog.asset, recipient |-> dialog.recipient, amount |-> dialog.amount] \in Transfer
  BY DEF TypeOK, Dialogs, DialogOpen, Accepted, Transfer, NotAnAmount

LEMMA TypeSubmit ==
  ASSUME TypeOK, NEW c \in Calls, SubmitTransfer(c)
  PROVE  TypeOK'
  <1>1. dialog' \in Dialogs  BY DEF SubmitTransfer, TypeOK, Dialogs
  <1>2. call' \in [Calls -> CallStates]
    BY SentIsATransfer DEF SubmitTransfer, TypeOK, CallStates
  <1> QED  BY <1>1, <1>2 DEF SubmitTransfer, TypeOK

LEMMA TypeContinue ==
  ASSUME TypeOK, NEW c \in Calls, Continue(c)
  PROVE  TypeOK'
  <1>1. CASE Pays(c)
    <2>1. Busy(c)  BY <1>1, BusyIsUnderWay DEF Pays
    <2>2. call[c].arg \in Transfer  BY <2>1, BusyIsUnderWay
    <2>3. balance' \in [Assets -> Amounts]
      BY <1>1, <2>2, TreasuryAssumption DEF Pays, Transfer, TypeOK, Amounts
    <2>4. call' \in [Calls -> CallStates]
      BY <1>1, <2>1, BusyIsUnderWay DEF Pays, TypeOK, CallStates
    <2> QED  BY <1>1, <2>3, <2>4 DEF Pays, TypeOK
  <1>2. CASE Refuses(c)
    <2>1. Busy(c)  BY <1>2, BusyIsUnderWay DEF Refuses
    <2>2. call' \in [Calls -> CallStates]
      BY <1>2, <2>1, BusyIsUnderWay DEF Refuses, TypeOK, CallStates
    <2> QED  BY <1>2, <2>2 DEF Refuses, TypeOK
  <1>3. ASSUME NEW notice \in {"success", "error"}, Answered(c, notice)  PROVE TypeOK'
    <2>1. dialog' \in Dialogs  BY <1>3 DEF Answered, Released, TypeOK, Dialogs
    <2>2. call' \in [Calls -> CallStates]  BY <1>3 DEF Answered, TypeOK, CallStates
    <2> QED  BY <1>3, <2>1, <2>2 DEF Answered, TypeOK
  <1> QED  BY <1>1, <1>2, <1>3 DEF Continue

(* Next, sorted by what the actions do.                                     *)
LEMMA NextCases ==
  ASSUME Next
  PROVE  \/ \E a \in Assets : OpenTransfer(a)
         \/ Typing \/ Fetching \/ Receiving
         \/ CloseTransfer \/ LeaveTab
         \/ \E c \in Calls : SubmitTransfer(c) \/ Continue(c)
  BY DEF Next, User, Typing, Fetching, Receiving

LEMMA TypeStep == TypeOK /\ [Next]_vars => TypeOK'
  <1> SUFFICES ASSUME TypeOK, [Next]_vars  PROVE TypeOK'
    OBVIOUS
  <1>1. CASE Next
    BY <1>1, NextCases, TypeOpened, TypeTyping, TypeFetching, TypeReceiving, TypeClosing,
       TypeSubmit, TypeContinue
  <1>2. CASE UNCHANGED vars
    BY <1>2 DEF vars, TypeOK
  <1> QED  BY <1>1, <1>2

(* Every variable of the tab keeps its type.                                *)
THEOREM TypeCorrect == Spec => []TypeOK
  BY TypeInit, TypeStep, PTL DEF Spec

-----------------------------------------------------------------------------
(* One more call under way, or one fewer, when call changes at c alone.      *)
LEMMA OneMore ==
  ASSUME NEW c \in Calls, call[c].phase = "idle", call'[c].phase # "idle",
         \A d \in Calls \ {c} : call'[d] = call[d]
  PROVE  Cardinality(UnderWay)' = Cardinality(UnderWay) + 1
  <1>1. UnderWay' = UnderWay \cup {c} /\ c \notin UnderWay
    BY DEF UnderWay
  <1> QED  BY <1>1, FewUnderWay, FS_AddElement

LEMMA OneFewer ==
  ASSUME NEW c \in Calls, call[c].phase # "idle", call'[c].phase = "idle",
         \A d \in Calls \ {c} : call'[d] = call[d]
  PROVE  Cardinality(UnderWay)' = Cardinality(UnderWay) - 1
  <1>1. UnderWay' = UnderWay \ {c} /\ c \in UnderWay
    BY DEF UnderWay
  <1> QED  BY <1>1, FewUnderWay, FS_RemoveElement

-----------------------------------------------------------------------------
(* The invariant, by kinds of steps.                                        *)
LEMMA InvInit == Init => Inv
  <1> SUFFICES ASSUME Init  PROVE Inv
    OBVIOUS
  <1>1. UnderWay = {}  BY DEF Init, UnderWay, Idle
  <1>2. Cardinality(UnderWay) = 0  BY <1>1, FS_EmptySet
  <1> QED  BY <1>1, <1>2, TypeInit
         DEF Init, Inv, TypedHere, SendingIsTrue, RecipientIsOfTheAsset, Closed

(* Steps that leave the calls, and loading, and the dismissals alone.       *)
LEMMA InvQuiet ==
  ASSUME Inv, TypeOK', TypedHere',
         UNCHANGED <<call, abandoned>>, dialog'.loading = dialog.loading
  PROVE  Inv'
  <1>1. UnderWay' = UnderWay  BY DEF UnderWay
  <1>2. Cardinality(UnderWay)' = Cardinality(UnderWay)  BY <1>1
  <1>3. SendingIsTrue'  BY <1>2 DEF Inv, SendingIsTrue
  <1>4. RecipientIsOfTheAsset'  BY <1>1 DEF Inv, RecipientIsOfTheAsset
  <1> QED  BY <1>3, <1>4 DEF Inv

LEMMA InvOpened ==
  ASSUME Inv, TypeOK', NEW a \in Assets, OpenTransfer(a)
  PROVE  Inv'
  <1>1. dialog' = Opened(a) /\ UNCHANGED <<call, abandoned>>  BY DEF OpenTransfer
  <1>2. dialog'.recipient = NoOne /\ dialog'.loading = dialog.loading
    BY <1>1 DEF Opened, Closed, Emptied
  <1> QED  BY <1>1, <1>2, InvQuiet DEF TypedHere

LEMMA InvTyping ==
  ASSUME Inv, TypeOK', Typing
  PROVE  Inv'
  <1>1. UNCHANGED <<call, abandoned>>
    BY DEF Typing, TypeRecipient, TypeAmount, SubmitRefused
  <1>2. dialog'.loading = dialog.loading /\ dialog'.asset = dialog.asset
    BY DEF Typing, TypeRecipient, TypeAmount, SubmitRefused, Inv, TypeOK, Dialogs
  <1>3. dialog'.recipient = dialog.recipient \/ dialog'.recipient.for = dialog.asset
    BY DEF Typing, TypeRecipient, TypeAmount, SubmitRefused, Inv, TypeOK, Dialogs
  <1>4. TypedHere'  BY <1>2, <1>3 DEF TypedHere, Inv
  <1> QED  BY <1>1, <1>2, <1>4, InvQuiet

LEMMA InvUntouched ==
  ASSUME Inv, TypeOK', Fetching \/ Receiving
  PROVE  Inv'
  <1>1. UNCHANGED <<dialog, call, abandoned>>
    BY DEF Fetching, FetchAddresses, FetchBalances,
           Receiving, OpenReceive, CloseReceive, CopyAddress, CopiedExpires
  <1>2. TypedHere'  BY <1>1 DEF Inv, TypedHere
  <1> QED  BY <1>1, <1>2, InvQuiet

(* A dismissal of a dialog that said Sending is counted instead of it.      *)
LEMMA InvClosing ==
  ASSUME Inv, TypeOK', CloseTransfer \/ LeaveTab
  PROVE  Inv'
  <1>1. dialog'.recipient = NoOne /\ dialog'.loading = FALSE
    BY DEF CloseTransfer, LeaveTab, Closed, Emptied
  <1>2. abandoned' = Abandoning  BY DEF CloseTransfer, LeaveTab
  <1>3. UnderWay' = UnderWay /\ \A c \in UnderWay : call'[c].arg = call[c].arg
    <2>1. CASE CloseTransfer  BY <2>1 DEF CloseTransfer, UnderWay
    <2>2. CASE LeaveTab
      <3>1. ASSUME NEW c \in Calls
            PROVE  /\ (c \in UnderWay)' <=> c \in UnderWay
                   /\ c \in UnderWay => call'[c].arg = call[c].arg
        <4>1. CASE Busy(c)
          <5>1. call'[c] = [call[c] EXCEPT !.mounted = FALSE]  BY <2>2, <4>1 DEF LeaveTab
          <5> QED  BY <4>1, <5>1, BusyIsUnderWay DEF Inv, UnderWay
        <4>2. CASE ~Busy(c)
          <5>1. call'[c] = Idle  BY <2>2, <4>2 DEF LeaveTab
          <5> QED  BY <4>2, <5>1, BusyIsUnderWay DEF Inv, UnderWay, Idle
        <4> QED  BY <4>1, <4>2
      <3> QED  BY <3>1 DEF UnderWay
    <2> QED  BY <2>1, <2>2
  <1>4. Cardinality(UnderWay)' = Cardinality(UnderWay)  BY <1>3
  <1>5. SendingIsTrue'
    BY <1>1, <1>2, <1>4, FewUnderWay DEF Inv, SendingIsTrue, Abandoning, TypeOK, Dialogs
  <1>6. RecipientIsOfTheAsset'  BY <1>3 DEF Inv, RecipientIsOfTheAsset
  <1>7. TypedHere'  BY <1>1 DEF TypedHere
  <1> QED  BY <1>5, <1>6, <1>7 DEF Inv

(* A submission makes one more call, and the dialog say Sending.            *)
LEMMA InvSubmit ==
  ASSUME Inv, TypeOK', NEW c \in Calls, SubmitTransfer(c)
  PROVE  Inv'
  <1>1. /\ dialog'.loading = TRUE /\ ~dialog.loading
        /\ dialog'.asset = dialog.asset /\ dialog'.recipient = dialog.recipient
        /\ abandoned' = abandoned
    BY DEF SubmitTransfer, CanSend, Inv, TypeOK, Dialogs
  <1>2. /\ call'[c].phase = "sent" /\ call'[c].mounted = TRUE
        /\ call'[c].arg.asset = dialog.asset /\ call'[c].arg.recipient = dialog.recipient
        /\ \A d \in Calls \ {c} : call'[d] = call[d]
    BY DEF SubmitTransfer, Inv, TypeOK
  <1>3. call[c].phase = "idle"
    BY BusyIsUnderWay DEF SubmitTransfer, Inv
  <1>4. Cardinality(UnderWay)' = Cardinality(UnderWay) + 1
    BY <1>2, <1>3, OneMore
  <1>5. SendingIsTrue'
    BY <1>1, <1>2, <1>4, FewUnderWay DEF Inv, SendingIsTrue, TypeOK
  <1>6. dialog.recipient.for = dialog.asset
    BY DEF SubmitTransfer, Accepted, Inv, TypedHere
  <1>7. RecipientIsOfTheAsset'
    BY <1>2, <1>6 DEF Inv, RecipientIsOfTheAsset, UnderWay
  <1>8. TypedHere'  BY <1>1, <1>6 DEF TypedHere
  <1> QED  BY <1>5, <1>7, <1>8 DEF Inv

(* The canister's part of a call changes nothing the tab knows of it.       *)
LEMMA InvServed ==
  ASSUME Inv, TypeOK', NEW c \in Calls, Pays(c) \/ Refuses(c)
  PROVE  Inv'
  <1>1. UNCHANGED <<dialog, abandoned>>  BY DEF Pays, Refuses
  <1>2. call[c].phase = "sent"  BY DEF Pays, Refuses
  <1>3. call[c] \in [phase : {"sent", "paid", "refused"}, arg : Transfer, mounted : BOOLEAN]
    BY <1>2, BusyIsUnderWay DEF Inv
  <1>4. /\ call'[c].phase \in {"paid", "refused"}
        /\ call'[c].arg = call[c].arg /\ call'[c].mounted = call[c].mounted
        /\ \A d \in Calls \ {c} : call'[d] = call[d]
    BY <1>3 DEF Pays, Refuses, Inv, TypeOK
  <1>5. UnderWay' = UnderWay  BY <1>2, <1>4 DEF UnderWay
  <1>6. Cardinality(UnderWay)' = Cardinality(UnderWay)  BY <1>5
  <1>7. (\E d \in Calls : call[d].phase # "idle" /\ call[d].mounted)
          => \E d \in Calls : call'[d].phase # "idle" /\ call'[d].mounted
    BY <1>4
  <1>8. SendingIsTrue'  BY <1>1, <1>6, <1>7 DEF Inv, SendingIsTrue
  <1>9. RecipientIsOfTheAsset'
    <2>1. \A d \in UnderWay : call'[d].arg = call[d].arg  BY <1>4 DEF UnderWay
    <2> QED  BY <1>5, <2>1 DEF Inv, RecipientIsOfTheAsset
  <1>10. TypedHere'  BY <1>1 DEF Inv, TypedHere
  <1> QED  BY <1>8, <1>9, <1>10 DEF Inv

(* An answer releases the dialog if its tab is still there.                 *)
LEMMA InvAnswered ==
  ASSUME Inv, TypeOK', NEW c \in Calls, NEW notice \in {"success", "error"}, Answered(c, notice)
  PROVE  Inv'
  <1>1. abandoned' = abandoned /\ call' = [call EXCEPT ![c] = Idle]  BY DEF Answered
  <1>2. call'[c] = Idle /\ \A d \in Calls \ {c} : call'[d] = call[d]
    BY <1>1 DEF Inv, TypeOK
  <1>3. call[c].phase # "idle" /\ call'[c].phase = "idle"
    BY <1>2 DEF Answered, Idle
  <1>4. Cardinality(UnderWay)' = Cardinality(UnderWay) - 1
    BY <1>2, <1>3, OneFewer
  <1>5. dialog'.asset = dialog.asset /\ dialog'.recipient = dialog.recipient
    BY DEF Answered, Released, Inv, TypeOK, Dialogs
  <1>6. SendingIsTrue'
    <2>1. CASE call[c].mounted
      <3>1. dialog'.loading = FALSE  BY <2>1 DEF Answered, Released, Inv, TypeOK, Dialogs
      <3> QED  BY <1>1, <1>4, <3>1, FewUnderWay DEF Inv, SendingIsTrue, TypeOK
    <2>2. CASE ~call[c].mounted
      <3>1. dialog' = dialog  BY <2>2 DEF Answered
      <3>2. dialog.loading => \E d \in Calls : call'[d].phase # "idle" /\ call'[d].mounted
        BY <1>2, <2>2 DEF Inv, SendingIsTrue
      <3> QED  BY <1>1, <1>4, <3>1, <3>2, FewUnderWay DEF Inv, SendingIsTrue, TypeOK
    <2> QED  BY <2>1, <2>2
  <1>7. RecipientIsOfTheAsset'
    BY <1>2 DEF Inv, RecipientIsOfTheAsset, UnderWay, Idle
  <1>8. TypedHere'  BY <1>5 DEF Inv, TypedHere
  <1> QED  BY <1>6, <1>7, <1>8 DEF Inv

LEMMA InvStep == Inv /\ [Next]_vars => Inv'
  <1> SUFFICES ASSUME Inv, [Next]_vars  PROVE Inv'
    OBVIOUS
  <1>1. TypeOK'  BY TypeStep DEF Inv
  <1>2. CASE Next
    <2>1. ASSUME NEW c \in Calls, Continue(c)  PROVE Inv'
      BY <1>1, <2>1, InvServed, InvAnswered DEF Continue
    <2> QED  BY <1>1, <1>2, <2>1, NextCases, InvOpened, InvTyping, InvUntouched, InvClosing, InvSubmit
  <1>3. CASE UNCHANGED vars
    <2>1. UNCHANGED <<call, abandoned>> /\ dialog' = dialog  BY <1>3 DEF vars
    <2>2. TypedHere'  BY <2>1 DEF Inv, TypedHere
    <2> QED  BY <1>1, <2>1, <2>2, InvQuiet
  <1> QED  BY <1>2, <1>3

-----------------------------------------------------------------------------
(* The inductive invariant of the tab holds throughout.                     *)
THEOREM Inductive == Spec => []Inv
  BY InvInit, InvStep, PTL DEF Spec

(* Any number of transfers and dismissals: the Send button is disabled only *)
(* while a transfer of the tab is under way, and more than one is under way *)
(* only when dialogs that were sending were dismissed (TreasuryTab.jsx,     *)
(* submitTransfer and closeTransfer).                                       *)
THEOREM SendingIsAlwaysTrue == Spec => []SendingIsTrue
  <1>1. Inv => SendingIsTrue  BY DEF Inv
  <1> QED  BY Inductive, <1>1, PTL

(* Whatever is dismissed, reopened and answered, a transfer goes to who was *)
(* typed in for its asset (TreasuryTab.jsx, openTransfer, closeTransfer).   *)
THEOREM RecipientsAreOfTheirAssets == Spec => []RecipientIsOfTheAsset
  <1>1. Inv => RecipientIsOfTheAsset  BY DEF Inv
  <1> QED  BY Inductive, <1>1, PTL
=============================================================================
