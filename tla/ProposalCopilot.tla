--------------------------- MODULE ProposalCopilot ---------------------------
(***************************************************************************)
(* The page that drafts a proposal (pages/ProposalCopilotPage.jsx) in      *)
(* three steps: an idea, the draft the analyzer wrote of it, perhaps with  *)
(* a committee, and the form filled from the draft.  A draft, a debate and *)
(* a submission are awaited while the rest of the page can be used, and    *)
(* the stepper goes back at any time.  A text is the draft it came from.   *)
(***************************************************************************)
EXTENDS Integers

CONSTANTS
  Drafts,      \* drafts the analyzer may write
  Committees,  \* committee ids it may suggest
  MaxPersonas, \* bound on the personas of a debate
  Calls        \* submissions under way at a time

VARIABLES
  step,       \* currentStep
  idea,       \* whether copilotIdea has text
  suggesting, \* useCommitteeSuggestion, with committees fetched
  draft,      \* generatedDraft, generatedCommitteeSuggestion, isGeneratingDraft
  form,       \* proposalTitle and proposalContent, selectedCommitteeId
  debate,     \* debateResults, selectedPersonaIndex, isRunningDebate, isDebateSimulationOpen
  failed,     \* submitError
  call        \* the submissions under way; isSubmitting is that one is of this page

vars == <<step, idea, suggesting, draft, form, debate, failed, call>>

NoDraft == "none"

(* A draft is never the empty one; a debate has some personas at most.      *)
CopilotAssumption == NoDraft \notin Drafts /\ MaxPersonas \in Nat \ {0}

NoCommittee == [id |-> "none", of |-> NoDraft]
ByUser == "user"
Idle == [phase |-> "idle"]

(* A committee, and the draft it was suggested with or the user.            *)
Choice == [id : Committees, of : Drafts \cup {ByUser}] \cup {NoCommittee}
Forms == [text : Drafts \cup {NoDraft}, blank : BOOLEAN, committee : Choice]
DraftStates ==
  [text : Drafts \cup {NoDraft}, suggestion : Choice,
   generating : {"no", "plain", "with_committee"}]
DebateStates ==
  [personas : 0 .. MaxPersonas, index : 0 .. MaxPersonas - 1, running : BOOLEAN, open : BOOLEAN]
CallStates == {Idle} \cup [phase : {"submitted"}, form : Forms, mounted : BOOLEAN]

EmptyForm == [text |-> NoDraft, blank |-> TRUE, committee |-> NoCommittee]
NothingGenerated == [text |-> NoDraft, suggestion |-> NoCommittee, generating |-> "no"]
NoDebate == [personas |-> 0, index |-> 0, running |-> FALSE, open |-> FALSE]

Init ==
  /\ step = 1 /\ idea = FALSE /\ suggesting = FALSE /\ failed = FALSE
  /\ draft = NothingGenerated /\ form = EmptyForm /\ debate = NoDebate
  /\ call = [c \in Calls |-> Idle]

Busy(c) == call[c] # Idle
IsSubmitting == \E c \in Calls : Busy(c) /\ call[c].mounted

-----------------------------------------------------------------------------
(* Step 1: the idea, the toggle (and the committees as they are polled),    *)
(* which a draft under way leaves disabled.                                 *)
TypeIdea ==
  /\ step = 1 /\ draft.generating = "no"
  /\ idea' = ~idea
  /\ UNCHANGED <<step, suggesting, draft, form, debate, failed, call>>

ToggleSuggestion ==
  /\ suggesting' = ~suggesting
  /\ UNCHANGED <<step, idea, draft, form, debate, failed, call>>

(* handleGenerateAIDraft forgets the draft and its committee before it      *)
(* asks for another.                                                        *)
Forgotten == NothingGenerated

GenerateAIDraft ==
  /\ step = 1 /\ idea /\ draft.generating = "no"
  /\ draft' = [Forgotten EXCEPT !.generating = IF suggesting THEN "with_committee" ELSE "plain"]
  /\ UNCHANGED <<step, idea, suggesting, form, debate, failed, call>>

Suggested(d) == {NoCommittee} \cup [id : Committees, of : {d}]
DraftAnswered(d) ==
  /\ draft.generating # "no"
  /\ \E s \in Suggested(d) :
       /\ draft.generating = "plain" => s = NoCommittee
       /\ draft' = [text |-> d, generating |-> "no",
                    suggestion |-> IF draft.generating = "plain" THEN draft.suggestion ELSE s]
  /\ step' = 2
  /\ UNCHANGED <<idea, suggesting, form, debate, failed, call>>

DraftFails ==
  /\ draft.generating # "no"
  /\ draft' = [draft EXCEPT !.generating = "no"]
  /\ UNCHANGED <<step, idea, suggesting, form, debate, failed, call>>

-----------------------------------------------------------------------------
(* handleUseDraft, on the review: title, content and committee are all      *)
(* those of the draft; what was chosen for an earlier one is overwritten.   *)
CommitteeKept ==
  IF draft.suggestion = NoCommittee THEN form.committee ELSE draft.suggestion
CommitteeOfTheDraft == draft.suggestion

UseDraft ==
  /\ step = 2 /\ draft.text # NoDraft
  /\ form' = [text |-> draft.text, blank |-> FALSE, committee |-> CommitteeOfTheDraft]
  /\ step' = 3
  /\ UNCHANGED <<idea, suggesting, draft, debate, failed, call>>

(* The stepper goes back only; Cancel of step 3 goes back to the review.    *)
StepBack(s) == s < step
NavigateTo(s) ==
  /\ StepBack(s)
  /\ step' = s
  /\ UNCHANGED <<idea, suggesting, draft, form, debate, failed, call>>

(* Step 3: the form, which a submission under way leaves disabled.          *)
EditForm(f) ==
  /\ step = 3 /\ ~IsSubmitting
  /\ form' = f
  /\ UNCHANGED <<step, idea, suggesting, draft, debate, failed, call>>

EditText(blank) == EditForm([form EXCEPT !.blank = blank])
SelectCommittee(c) == EditForm([form EXCEPT !.committee = c])

-----------------------------------------------------------------------------
(* handleSubmitProposal awaits the DAO canister; leaving for the proposals  *)
(* tab takes the user from wherever he is by then.                          *)
SubmitProposal(c) ==
  /\ step = 3 /\ ~IsSubmitting /\ ~form.blank /\ ~Busy(c)
  /\ call' = [call EXCEPT ![c] = [phase |-> "submitted", form |-> form, mounted |-> TRUE]]
  /\ failed' = FALSE
  /\ UNCHANGED <<step, idea, suggesting, draft, form, debate>>

(* The actor or the DAO is missing: their queries are not answered yet.     *)
SubmitRefused ==
  /\ step = 3 /\ ~IsSubmitting /\ ~form.blank
  /\ failed' = TRUE
  /\ UNCHANGED <<step, idea, suggesting, draft, form, debate, call>>

LeftBehind == [c \in Calls |-> IF Busy(c) THEN [call[c] EXCEPT !.mounted = FALSE] ELSE Idle]
Reset ==
  /\ step' = 1 /\ idea' = FALSE /\ suggesting' = FALSE /\ failed' = FALSE
  /\ draft' = NothingGenerated /\ form' = EmptyForm /\ debate' = NoDebate

ProposalCreated(c) ==
  /\ Busy(c)
  /\ Reset
  /\ call' = [LeftBehind EXCEPT ![c] = Idle]

SubmissionFails(c) ==
  /\ Busy(c)
  /\ failed' = (failed \/ call[c].mounted)
  /\ call' = [call EXCEPT ![c] = Idle]
  /\ UNCHANGED <<step, idea, suggesting, draft, form, debate>>

LeavePage == Reset /\ call' = LeftBehind

-----------------------------------------------------------------------------
(* handleRunDebateSimulation, from step 3 or again from the sidebar, which  *)
(* stays open in every step.                                                *)
Restarted == [debate EXCEPT !.personas = 0, !.running = TRUE, !.index = 0]

RunDebate ==
  /\ ~debate.running /\ ~form.blank
  /\ (step = 3 /\ ~IsSubmitting) \/ (debate.open /\ debate.personas > 0)
  /\ debate' = Restarted
  /\ UNCHANGED <<step, idea, suggesting, draft, form, failed, call>>

(* Both of the sidebar's ways to another persona, and its close button.     *)
Persona(i) == debate.open /\ debate.personas > 0 /\ i \in 0 .. debate.personas - 1
SelectPersona(i) ==
  /\ Persona(i)
  /\ debate' = [debate EXCEPT !.index = i]
  /\ UNCHANGED <<step, idea, suggesting, draft, form, failed, call>>

CloseDebate ==
  /\ debate.open
  /\ debate' = [debate EXCEPT !.open = FALSE]
  /\ UNCHANGED <<step, idea, suggesting, draft, form, failed, call>>

DebateShown(n) == [personas |-> n, index |-> 0, running |-> FALSE, open |-> TRUE]

DebateAnswered ==
  /\ debate.running
  /\ \/ \E n \in 1 .. MaxPersonas : debate' = DebateShown(n)
     \/ debate' = [debate EXCEPT !.running = FALSE]
  /\ UNCHANGED <<step, idea, suggesting, draft, form, failed, call>>

-----------------------------------------------------------------------------
User ==
  \/ TypeIdea \/ ToggleSuggestion \/ GenerateAIDraft \/ UseDraft \/ LeavePage
  \/ \E s \in 1 .. 3 : NavigateTo(s)
  \/ \E b \in BOOLEAN : EditText(b)
  \/ \E c \in [id : Committees, of : {ByUser}] \cup {NoCommittee} : SelectCommittee(c)
  \/ SubmitRefused \/ \E c \in Calls : SubmitProposal(c)
  \/ RunDebate \/ CloseDebate \/ \E i \in 0 .. MaxPersonas - 1 : SelectPersona(i)

DraftEnds == DraftFails \/ \E d \in Drafts : DraftAnswered(d)
SubmissionEnds(c) == ProposalCreated(c) \/ SubmissionFails(c)

Next == User \/ DraftEnds \/ DebateAnswered \/ \E c \in Calls : SubmissionEnds(c)

(* Calls to canisters are answered, or end in an exception.                 *)
Fairness == WF_vars(DraftEnds)
Spec == Init /\ [][Next]_vars /\ Fairness

-----------------------------------------------------------------------------
TypeOK ==
  /\ step \in 1 .. 3 /\ idea \in BOOLEAN /\ suggesting \in BOOLEAN /\ failed \in BOOLEAN
  /\ draft \in DraftStates /\ form \in Forms /\ debate \in DebateStates
  /\ call \in [Calls -> CallStates]

(* The steps after the first never show an empty review or form, nor one    *)
(* next to a draft that is being replaced; and the committee recommended on *)
(* the review was suggested with the very draft on it.                      *)
ReviewIsWhole ==
  /\ step > 1 => draft.text # NoDraft /\ draft.generating = "no"
  /\ draft.suggestion # NoCommittee => draft.suggestion.of = draft.text

(* A proposal under way to the DAO names a committee that was suggested     *)
(* with its own text or that the user chose: none is left over from a draft *)
(* that was reviewed before (handleUseDraft).                               *)
CommitteeIsOfTheProposal ==
  \A c \in Calls : Busy(c) => call[c].form.committee.of \in {call[c].form.text, ByUser, NoDraft}

(* The sidebar renders personas[selectedPersonaIndex] without a check: the  *)
(* index is of a persona of the debate it shows, however the two runs of a  *)
(* debate and the buttons interleave.                                       *)
PersonaExists == debate.personas > 0 => debate.index < debate.personas

(* Step 1, whose inputs a draft under way disables, can be used again,      *)
(* wherever the stepper and the other calls have led meanwhile.             *)
DraftingEnds == draft.generating # "no" ~> draft.generating = "no"
=============================================================================
