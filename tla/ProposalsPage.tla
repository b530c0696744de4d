---------------------------- MODULE ProposalsPage ----------------------------
(***************************************************************************)
(* The page of all proposals of the analyzer (pages/ProposalsPage.jsx): a  *)
(* polled list, whose failed proposals have a retry button, a panel for    *)
(* the selected one, and the modal that submits a new one                  *)
(* (ProposalSubmissionModal), which covers the rest while it is open.      *)
(***************************************************************************)
EXTENDS Integers, FiniteSets

CONSTANTS
  Texts,        \* titles and descriptions
  MaxProposals, \* bound on the proposals of the analyzer
  Calls         \* handlers under way at a time

VARIABLES
  modal,    \* isModalOpen, proposalTitle and proposalDescription, isError
  selected, \* selectedProposalId; the panel is shown exactly when there is one
  listed,   \* useProposals: the list as last polled
  fetched,  \* useProposal: the answer for each id
  call,     \* the handlers under way
  canister  \* external: the statuses in the analyzer, by id

vars == <<modal, selected, listed, fetched, call, canister>>

Blank == "blank"
Nothing == 0
Absent == "absent"
Idle == [kind |-> "idle"]
Ids == 1 .. MaxProposals
Statuses == {"Analyzing", "Analyzed", "Failed"}

(* What get_proposal answers, an opt: an array of at most one proposal.     *)
Unread == [array |-> FALSE, status |-> "unread"]
NotFound == [array |-> FALSE, status |-> "null"]
Opt(status) == [array |-> TRUE, status |-> status]
Answers == {Unread, NotFound} \cup [array : {TRUE}, status : Statuses \cup {Absent}]

CallStates ==
  {Idle} \cup [kind : {"submit"}, text : Texts, mounted : BOOLEAN]
         \cup [kind : {"analyze"}, id : Ids, mounted : BOOLEAN]
Closed == [open |-> FALSE, text |-> Blank, failed |-> FALSE]

Init ==
  /\ modal = Closed
  /\ selected = Nothing
  /\ listed = [i \in Ids |-> Absent]
  /\ fetched = [i \in Ids |-> Unread]
  /\ call = [c \in Calls |-> Idle]
  /\ canister = [i \in Ids |-> Absent]

Busy(c) == call[c] # Idle
IsPending == \E c \in Calls : call[c].kind = "submit" /\ call[c].mounted

-----------------------------------------------------------------------------
(* The modal.  What is typed stays when it is closed; nothing can be typed, *)
(* and it cannot be closed, while a submission is pending.                  *)
Disabled == IsPending
NeverDisabled == FALSE

OpenModal ==
  /\ ~modal.open
  /\ modal' = [modal EXCEPT !.open = TRUE]
  /\ UNCHANGED <<selected, listed, fetched, call, canister>>

HandleClose ==
  /\ modal.open /\ ~IsPending
  /\ modal' = [modal EXCEPT !.open = FALSE]
  /\ UNCHANGED <<selected, listed, fetched, call, canister>>

TypeText(t) ==
  /\ modal.open /\ ~Disabled
  /\ modal' = [modal EXCEPT !.text = t]
  /\ UNCHANGED <<selected, listed, fetched, call, canister>>

HandleSubmit(c) ==
  /\ modal.open /\ modal.text # Blank /\ ~IsPending /\ ~Busy(c)
  /\ modal' = [modal EXCEPT !.failed = FALSE]
  /\ call' = [call EXCEPT ![c] = [kind |-> "submit", text |-> modal.text, mounted |-> TRUE]]
  /\ UNCHANGED <<selected, listed, fetched, canister>>

(* The analyzer has made and analyzed the proposal, and the page selects    *)
(* it; or the call ended in an Err or an exception, and the text stays.     *)
New == 1 + Cardinality({i \in Ids : canister[i] # Absent})

Submitted(c) ==
  /\ call[c].kind = "submit" /\ New \in Ids
  /\ \E outcome \in {"Analyzed", "Failed"} : canister' = [canister EXCEPT ![New] = outcome]
  /\ modal' = IF call[c].mounted THEN Closed ELSE modal
  /\ selected' = IF call[c].mounted THEN New ELSE selected
  /\ call' = [call EXCEPT ![c] = Idle]
  /\ UNCHANGED <<listed, fetched>>

SubmissionFails(c) ==
  /\ call[c].kind = "submit"
  /\ modal' = IF call[c].mounted THEN [modal EXCEPT !.failed = TRUE] ELSE modal
  /\ call' = [call EXCEPT ![c] = Idle]
  /\ UNCHANGED <<selected, listed, fetched, canister>>

-----------------------------------------------------------------------------
(* The list and the panel, when the modal does not cover them.              *)
HandleProposalSelect(i) ==
  /\ ~modal.open /\ listed[i] # Absent
  /\ selected' = i
  /\ UNCHANGED <<modal, listed, fetched, call, canister>>

ClosePanel ==
  /\ ~modal.open /\ selected # Nothing
  /\ selected' = Nothing
  /\ UNCHANGED <<modal, listed, fetched, call, canister>>

PollList ==
  /\ listed' = canister
  /\ UNCHANGED <<modal, selected, fetched, call, canister>>

PollProposal(answer) ==
  /\ selected # Nothing
  /\ fetched' = [fetched EXCEPT ![selected] = answer]
  /\ UNCHANGED <<modal, selected, listed, call, canister>>

(* What the panel shows: it reads .status and .analysis of the answer.      *)
StatusRead(answer) == IF answer.array THEN Absent ELSE answer.status
View(i) ==
  CASE fetched[i] = Unread -> "loading"
    [] fetched[i] = NotFound -> "not_found"
    [] StatusRead(fetched[i]) = "Analyzed" -> "results"
    [] StatusRead(fetched[i]) = "Analyzing" -> "analyzing"
    [] StatusRead(fetched[i]) = "Failed" -> "failed"
    [] OTHER -> "waiting"

(* handleRetryAnalysis, from the list or the panel: isRetrying reads a      *)
(* field that the mutation does not have, so the button is never disabled.  *)
RetryShown(i) == listed[i] = "Failed" \/ (selected = i /\ View(i) = "failed")

HandleRetry(c, i) ==
  /\ ~modal.open /\ RetryShown(i) /\ ~Busy(c)
  /\ call' = [call EXCEPT ![c] = [kind |-> "analyze", id |-> i, mounted |-> TRUE]]
  /\ UNCHANGED <<modal, selected, listed, fetched, canister>>

RetryRuns(c) ==
  /\ call[c].kind = "analyze"
  /\ canister' = [canister EXCEPT ![call[c].id] = "Analyzing"]
  /\ UNCHANGED <<modal, selected, listed, fetched, call>>

RetryEnds(c) ==
  /\ call[c].kind = "analyze"
  /\ \E outcome \in {"Analyzed", "Failed"} : canister' = [canister EXCEPT ![call[c].id] = outcome]
  /\ call' = [call EXCEPT ![c] = Idle]
  /\ UNCHANGED <<modal, selected, listed, fetched>>

(* The page is left and opened again: its state and its modal's are lost.   *)
LeavePage ==
  /\ modal' = Closed /\ selected' = Nothing
  /\ call' = [c \in Calls |-> IF Busy(c) THEN [call[c] EXCEPT !.mounted = FALSE] ELSE Idle]
  /\ UNCHANGED <<listed, fetched, canister>>

-----------------------------------------------------------------------------
User ==
  \/ OpenModal \/ HandleClose \/ ClosePanel \/ LeavePage
  \/ \E t \in Texts \cup {Blank} : TypeText(t)
  \/ \E i \in Ids : HandleProposalSelect(i)
  \/ \E c \in Calls : HandleSubmit(c) \/ \E i \in Ids : HandleRetry(c, i)

Poll ==
  \/ PollList
  \/ PollProposal(NotFound)
  \/ selected # Nothing /\ PollProposal(Opt(canister[selected]))

HandlerEnds(c) == Submitted(c) \/ SubmissionFails(c) \/ RetryEnds(c)
Next == User \/ Poll \/ \E c \in Calls : RetryRuns(c) \/ HandlerEnds(c)

Spec == Init /\ [][Next]_vars

-----------------------------------------------------------------------------
TypeOK ==
  /\ modal \in [open : BOOLEAN, text : Texts \cup {Blank}, failed : BOOLEAN]
  /\ selected \in Ids \cup {Nothing}
  /\ listed \in [Ids -> Statuses \cup {Absent}] /\ canister \in [Ids -> Statuses \cup {Absent}]
  /\ fetched \in [Ids -> Answers]
  /\ call \in [Calls -> CallStates]

(* What is in the modal while a submission of it is pending is what was     *)
(* submitted: the answer, which empties the form and closes the modal,      *)
(* throws away nothing else that was typed (handleSubmit, handleClose).     *)
SubmissionIsInTheModal ==
  \A c \in Calls :
    call[c].kind = "submit" /\ call[c].mounted => modal.open /\ modal.text = call[c].text

(* The results of an analyzed proposal that is selected and loaded are      *)
(* shown.                                                                   *)
ResultsAreShown ==
  selected # Nothing /\ fetched[selected].status = "Analyzed" => View(selected) = "results"
=============================================================================
