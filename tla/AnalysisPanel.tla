---------------------------- MODULE AnalysisPanel ----------------------------
(***************************************************************************)
(* The two screens that have a proposal of an SNS or of a DAO analyzed:    *)
(* the SNS page (pages/ProposalListPage.jsx) and the proposals tab of a    *)
(* DAO (components/ProposalAnalysisPanel.jsx).  Both select a proposal,    *)
(* ask the analyzer canister whether it has it, and show what the two      *)
(* queries of hooks/useProposals.js and the handlers under way make of it. *)
(* handleAnalyzeProposal awaits a submission and then an analysis; the     *)
(* user may select another proposal at each await.  This is one visit of a *)
(* screen: what was left under way by an earlier one is another user's.    *)
(***************************************************************************)
EXTENDS Integers

CONSTANTS
  Proposals, \* the proposals listed
  Popular,   \* those that other users may submit
  MaxCalls   \* bound on the handlers of the screen under way

VARIABLES
  screen,     \* which of the two screens this is
  selected,   \* selectedProposalId
  analyzedId, \* analyzedProposalId
  exists,     \* cache of useProposalExists, by proposal
  fetched,    \* cache of useProposal, by proposal
  call,       \* the handlers under way, each awaiting one of the two mutations
  canister,   \* external: the status of the proposal in the analyzer
  switched    \* history: another proposal was selected while a handler was under way

vars == <<screen, selected, analyzedId, exists, fetched, call, canister, switched>>

Calls == 1 .. MaxCalls
Nothing == "none"

(* No proposal is the empty selection.                                      *)
PanelAssumption == Nothing \notin Proposals

Unread == "unread"
Absent == "absent"
Idle == [kind |-> "idle"]
Statuses == {"Analyzing", "Analyzed", "Failed"}
CallStates == {Idle} \cup [kind : {"submit", "analyze"}, proposal : Proposals]

Init ==
  /\ screen \in {"sns_page", "dao_tab"}
  /\ selected = Nothing /\ analyzedId = Nothing
  /\ exists = [p \in Proposals |-> Unread]
  /\ fetched = [p \in Proposals |-> Unread]
  /\ call = [c \in Calls |-> Idle]
  /\ canister = [p \in Proposals |-> Absent]
  /\ switched = FALSE

Busy(c) == call[c] # Idle
UnderWay == {c \in Calls : Busy(c)}
Unused(c) == c \in Calls \ UnderWay /\ \A d \in 1 .. c - 1 : Busy(d)

-----------------------------------------------------------------------------
(* The proposal that useProposal reads: the selected one when the analyzer  *)
(* is known to have it, else the one last analyzed here.                    *)
Existing == selected # Nothing /\ exists[selected] \in Statuses
Key == IF Existing THEN selected ELSE analyzedId
Loaded == Key # Nothing /\ fetched[Key] # Unread
Status ==
  IF Loaded THEN fetched[Key] ELSE IF Existing THEN exists[selected] ELSE Nothing

(* isPending of the mutations; isLoading is not a field of theirs.          *)
SubmissionPending == \E c \in UnderWay : call[c].kind = "submit"
PendingByIsLoading == SubmissionPending
Pending == UnderWay # {}
IsAnalyzing ==
  \/ Pending
  \/ analyzedId # Nothing /\ ~Loaded
  \/ selected # Nothing /\ exists[selected] = Unread

(* What the panel of the selected proposal shows.                           *)
View ==
  CASE selected = Nothing -> "closed"
    [] selected # Nothing /\ (IsAnalyzing \/ Status = "Analyzing") -> "spinner"
    [] selected # Nothing /\ ~IsAnalyzing /\ Status = "Failed" -> "failed"
    [] selected # Nothing /\ ~IsAnalyzing /\ Status = "Analyzed" /\ Loaded -> "results"
    [] OTHER -> "analyze"

-----------------------------------------------------------------------------
(* Selecting: handleProposalSelect on the SNS page, a setter in the tab.    *)
IdKept == analyzedId
IdAfterSelect == IF screen = "sns_page" THEN Nothing ELSE analyzedId

Select(p) ==
  /\ selected' = p
  /\ analyzedId' = IdAfterSelect
  /\ switched' = (switched \/ UnderWay # {})
  /\ UNCHANGED <<screen, exists, fetched, call, canister>>

ClosePanel ==
  /\ screen = "sns_page" /\ selected # Nothing
  /\ selected' = Nothing
  /\ UNCHANGED <<screen, analyzedId, exists, fetched, call, canister, switched>>

(* The queries of what is selected, repeated now and then.  An exception is *)
(* read as no proposal.                                                     *)
FetchExists(p) ==
  /\ selected = p
  /\ \E answer \in {canister[p], Absent} : exists' = [exists EXCEPT ![p] = answer]
  /\ UNCHANGED <<screen, selected, analyzedId, fetched, call, canister, switched>>

(* refetchInterval: what was fetched once is fetched again.                 *)
WantedOnce(p) == Key = p /\ fetched[p] = Unread
Wanted(p) == Key = p
Fetched(p, answer) ==
  /\ Wanted(p)
  /\ fetched' = [fetched EXCEPT ![p] = answer]
  /\ UNCHANGED <<screen, selected, analyzedId, exists, call, canister, switched>>

FetchProposal(p) == Fetched(p, canister[p])
FetchFails(p) == Fetched(p, Unread)

-----------------------------------------------------------------------------
Send(c, kind, p) ==
  call' = [call EXCEPT ![c] = [kind |-> kind, proposal |-> p]]

(* handleAnalyzeProposal up to its first await, and handleRetryAnalysis,    *)
(* which retries the proposal it shows the failure of.                      *)
HandleAnalyze(c) ==
  /\ View = "analyze" /\ ~SubmissionPending /\ Unused(c)
  /\ analyzedId' = Nothing
  /\ Send(c, "submit", selected)
  /\ UNCHANGED <<screen, selected, exists, fetched, canister, switched>>

HandleRetry(c) ==
  /\ View = "failed" /\ Loaded /\ Unused(c)
  /\ Send(c, "analyze", Key)
  /\ UNCHANGED <<screen, selected, analyzedId, exists, fetched, canister, switched>>

(* The analyzer runs a call: submit_proposal_and_analyze puts the proposal  *)
(* there, and both end with its status Analyzed or Failed.                  *)
Runs(c) ==
  /\ Busy(c)
  /\ canister' = [canister EXCEPT ![call[c].proposal] = "Analyzing"]
  /\ UNCHANGED <<screen, selected, analyzedId, exists, fetched, call, switched>>

Ends(c) ==
  /\ Busy(c)
  /\ \E outcome \in {"Analyzed", "Failed"} :
       canister' = [canister EXCEPT ![call[c].proposal] = outcome]
  /\ UNCHANGED <<screen, selected, exists, fetched, switched>>

(* A submission answered Ok: the id is set, whichever proposal is selected  *)
(* by now, and the analysis asked for.                                      *)
Submitted(c) ==
  /\ Ends(c) /\ call[c].kind = "submit"
  /\ analyzedId' = call[c].proposal
  /\ Send(c, "analyze", call[c].proposal)

(* An analysis answered, Ok or Err, or an exception instead of an answer.   *)
HandlerEnds(c) ==
  /\ Ends(c)
  /\ call' = [call EXCEPT ![c] = Idle]
  /\ UNCHANGED analyzedId

(* A call that did not get to the analyzer, or whose answer was lost.       *)
Rejected(c) ==
  /\ Busy(c) /\ canister[call[c].proposal] # "Analyzing"
  /\ call' = [call EXCEPT ![c] = Idle]
  /\ UNCHANGED <<screen, selected, analyzedId, exists, fetched, canister, switched>>

(* Other users of the analyzer, or an earlier visit: they submit what it    *)
(* does not have.                                                           *)
OthersSubmit(p) ==
  /\ p \in Popular /\ canister[p] = Absent
  /\ canister' = [canister EXCEPT ![p] = "Analyzing"]
  /\ UNCHANGED <<screen, selected, analyzedId, exists, fetched, call, switched>>

OthersEnd(p) ==
  /\ canister[p] = "Analyzing"
  /\ \E outcome \in {"Analyzed", "Failed"} : canister' = [canister EXCEPT ![p] = outcome]
  /\ UNCHANGED <<screen, selected, analyzedId, exists, fetched, call, switched>>

-----------------------------------------------------------------------------
User ==
  \/ ClosePanel
  \/ \E p \in Proposals : Select(p)
  \/ \E c \in Calls : HandleAnalyze(c) \/ HandleRetry(c)

Answered(c) == Submitted(c) \/ HandlerEnds(c) \/ Rejected(c)

Next ==
  \/ User
  \/ \E c \in Calls : Runs(c) \/ Answered(c)
  \/ \E p \in Proposals :
       FetchExists(p) \/ FetchProposal(p) \/ FetchFails(p) \/ OthersSubmit(p) \/ OthersEnd(p)

(* Calls end; a query is repeated, and answered in the end, even when the   *)
(* selection moves back and forth.                                          *)
Fairness ==
  /\ \A p \in Proposals : SF_vars(FetchExists(p)) /\ SF_vars(FetchProposal(p)) /\ WF_vars(OthersEnd(p))
  /\ \A c \in Calls : WF_vars(Answered(c))
Spec == Init /\ [][Next]_vars /\ Fairness

-----------------------------------------------------------------------------
TypeOK ==
  /\ screen \in {"sns_page", "dao_tab"}
  /\ {selected, analyzedId} \subseteq Proposals \cup {Nothing}
  /\ exists \in [Proposals -> Statuses \cup {Unread, Absent}]
  /\ fetched \in [Proposals -> Statuses \cup {Unread}]
  /\ call \in [Calls -> CallStates]
  /\ canister \in [Proposals -> Statuses \cup {Absent}]
  /\ switched \in BOOLEAN

(* One handler of a screen is under way at a time, although neither button  *)
(* is ever disabled by an analysis under way (mutation.isLoading): what     *)
(* hides them is the spinner, whatever is selected meanwhile.               *)
OneHandler == \A c, d \in UnderWay : c = d

(* A failure and results that are shown are the selected proposal's         *)
(* (ProposalListPage.jsx resets analyzedProposalId when another proposal is *)
(* selected; the tab never does).                                           *)
ShownIsOfSelected == View \in {"failed", "results"} => Key = selected

(* On the SNS page that reset is enough as long as nothing is selected      *)
(* between a click on Analyze and its answer.                               *)
ShownIsOfSelectedOnSnsPage == screen = "sns_page" /\ ~switched => ShownIsOfSelected

(* The spinner ends, whatever failed: the submission, the analysis, or the  *)
(* queries that were to show it.                                            *)
SpinnerEnds == View = "spinner" ~> View # "spinner"
=============================================================================
