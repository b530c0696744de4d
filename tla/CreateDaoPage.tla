---------------------------- MODULE CreateDaoPage ----------------------------
(***************************************************************************)
(* The page that creates a DAO (pages/CreateDaoPage.jsx): a form in three  *)
(* steps, a review, and handleCreateDao, which awaits the factory, then    *)
(* the DAO canister that makes the token, and leaves for the DAO's page    *)
(* three seconds later.  The user may go on using the page at every await, *)
(* and may leave it: a handler under way then goes on, and only what it    *)
(* would show is lost.  The fields of a step are one value, told apart by  *)
(* what validateStep and toUnits make of them.                             *)
(***************************************************************************)
EXTENDS Integers, Sequences, Functions

CONSTANTS
  Names,      \* step 1 filled in, with amounts that convert
  Chains,     \* chains to choose from
  MaxMembers, \* bound on the members
  Calls,      \* handlers under way at a time
  MaxDaos     \* bound on the DAOs created

(* chainOptions is a list that is not empty.                                *)
PageAssumption ==
  Chains # {} /\ MaxMembers \in Nat \ {0} /\ MaxDaos \in Nat

VARIABLES
  page, \* form, step, errors shown, isCreating and showSuccessMessage
  call, \* the handlers of handleCreateDao that await something
  made  \* external: the DAOs made, each with its token, if it was given one

vars == <<page, call, made>>

(* Step 1 with something missing, and with an amount that parseInt accepts  *)
(* and toUnits does not ("1e9", or no decimals).                            *)
Blank == "blank"
Unconvertible == "unconvertible"
Idle == [phase |-> "idle"]

Forms ==
  [basics : Names \cup {Blank, Unconvertible}, members : 1 .. MaxMembers, chains : SUBSET Chains]
Steps == 1 .. 4
Pages ==
  [form : Forms, step : Steps, errors : {"none", "fields", "submit"},
   creating : BOOLEAN, toast : BOOLEAN]
(* mounted: the page the handler was started on is still there.             *)
CallStates ==
  {Idle} \cup [phase : {"factory"}, form : Forms, mounted : BOOLEAN]
         \cup [phase : {"token", "timer"}, form : Forms, mounted : BOOLEAN, dao : 1 .. MaxDaos]

FirstChain == CHOOSE ch \in Chains : TRUE
Fresh ==
  [form |-> [basics |-> Blank, members |-> 1, chains |-> {FirstChain}],
   step |-> 1, errors |-> "none", creating |-> FALSE, toast |-> FALSE]

Init ==
  /\ page = Fresh
  /\ call = [c \in Calls |-> Idle]
  /\ made = << >>

Busy(c) == call[c] # Idle

-----------------------------------------------------------------------------
(* validateStep                                                             *)
Passes(step, form) ==
  /\ step = 1 => form.basics # Blank
  /\ step = 2 => form.members > 0
  /\ step = 3 => form.chains # {}

HandleNext ==
  /\ page.step < 4
  /\ page' = IF Passes(page.step, page.form)
               THEN [page EXCEPT !.step = @ + 1, !.errors = "none"]
               ELSE [page EXCEPT !.errors = "fields"]
  /\ UNCHANGED <<call, made>>

BackFromAny(step) == step - 1
Back(step) == IF step = 1 THEN 1 ELSE step - 1
HandleBack ==
  /\ page' = [page EXCEPT !.step = Back(@)]
  /\ UNCHANGED <<call, made>>

(* The inputs of the three steps.                                           *)
Edit(step, form) ==
  /\ page.step = step
  /\ page' = [page EXCEPT !.form = form]
  /\ UNCHANGED <<call, made>>

EditBasics(b) == Edit(1, [page.form EXCEPT !.basics = b])
AddMember == page.form.members < MaxMembers /\ Edit(2, [page.form EXCEPT !.members = @ + 1])
RemoveMember == page.form.members > 1 /\ Edit(2, [page.form EXCEPT !.members = @ - 1])
HandleChainToggle(ch) ==
  Edit(3, [page.form EXCEPT !.chains = IF ch \in @ THEN @ \ {ch} ELSE @ \cup {ch}])

-----------------------------------------------------------------------------
(* handleCreateDao, from the review: validateStep says nothing of step 4.   *)
(* What it sends, then and later, is the form of the click.  A number of    *)
(* any step may not convert; only those of step 1 are told apart by the     *)
(* form, so the members' and the governance numbers may always fail.        *)
Reviewed == page.form

CreateDao(c) ==
  /\ page.step = 4 /\ ~page.creating /\ ~Busy(c)
  /\ \/ /\ page' = [page EXCEPT !.errors = "submit"]
        /\ UNCHANGED call
     \/ /\ Reviewed.basics # Unconvertible
        /\ page' = [page EXCEPT !.errors = "none", !.creating = TRUE]
        /\ call' = [call EXCEPT ![c] = [phase |-> "factory", form |-> Reviewed, mounted |-> TRUE]]
  /\ UNCHANGED made

(* What a handler shows when it ends, on the page it was started on.        *)
Show(c, p) == IF call[c].mounted THEN p ELSE page
ErrorShown == [page EXCEPT !.creating = FALSE, !.errors = "submit"]

(* An answer Err, or none at all.                                           *)
FactoryRefuses(c) ==
  /\ call[c].phase = "factory"
  /\ page' = Show(c, ErrorShown)
  /\ call' = [call EXCEPT ![c] = Idle]
  /\ UNCHANGED made

FactoryCreates(c) ==
  /\ call[c].phase = "factory" /\ Len(made) < MaxDaos
  /\ made' = Append(made, [form |-> call[c].form, token |-> << >>])
  /\ call' = [call EXCEPT ![c] = [phase |-> "token", form |-> call[c].form,
                                  mounted |-> call[c].mounted, dao |-> Len(made) + 1]]
  /\ UNCHANGED page

(* create_dao_base_token makes the token or not, and is answered or not:    *)
(* the page says the same of all of these.                                  *)
TokenOfThePage(c) == page.form
TokenOf(c) == call[c].form
SuccessKept == [page EXCEPT !.toast = TRUE]
SuccessShown == [page EXCEPT !.toast = TRUE, !.creating = FALSE]

TokenAnswered(c) ==
  /\ call[c].phase = "token"
  /\ \E token \in {<< >>, <<TokenOf(c)>>} : made' = [made EXCEPT ![call[c].dao].token = token]
  /\ page' = Show(c, SuccessShown)
  /\ call' = [call EXCEPT ![c].phase = "timer"]

(* The page is left: its state is lost, and the handlers outlive it.        *)
Outliving == [c \in Calls |-> IF Busy(c) THEN [call[c] EXCEPT !.mounted = FALSE] ELSE Idle]

(* The timer leaves for the page of the DAO, from whichever page is shown.  *)
Redirect(c) ==
  /\ call[c].phase = "timer"
  /\ page' = Fresh
  /\ call' = [Outliving EXCEPT ![c] = Idle]
  /\ UNCHANGED made

Leave ==
  /\ page' = Fresh
  /\ call' = Outliving
  /\ UNCHANGED made

-----------------------------------------------------------------------------
User ==
  \/ HandleNext \/ HandleBack \/ AddMember \/ RemoveMember \/ Leave
  \/ \E b \in Names \cup {Blank, Unconvertible} : EditBasics(b)
  \/ \E ch \in Chains : HandleChainToggle(ch)
  \/ \E c \in Calls : CreateDao(c)

Continue(c) == FactoryRefuses(c) \/ FactoryCreates(c) \/ TokenAnswered(c) \/ Redirect(c)

Next == User \/ \E c \in Calls : Continue(c)

(* Calls are answered, and timers of a browser tab that is open run.        *)
Fairness == \A c \in Calls : WF_vars(Continue(c))
Spec == Init /\ [][Next]_vars /\ Fairness

-----------------------------------------------------------------------------
TypeOK ==
  /\ page \in Pages
  /\ call \in [Calls -> CallStates]
  /\ Len(made) <= MaxDaos
  /\ \A d \in 1 .. Len(made) : {made[d].form} \cup Range(made[d].token) \subseteq Forms

(* A DAO is made of a form with nothing missing, although only              *)
(* the last step is checked when it is sent, fields can be edited in any    *)
(* order and while the answer is awaited; and its token, asked for after    *)
(* the await, is made of the same form (handleCreateDao reads the formData  *)
(* of the click).                                                           *)
DaosAreOfCheckedForms ==
  \A d \in 1 .. Len(made) :
    /\ made[d].form.basics # Blank /\ made[d].form.chains # {}
    /\ Range(made[d].token) \subseteq {made[d].form}

(* The page says that it is creating exactly while one of its own handlers  *)
(* awaits an answer, and there is never more than one: the button, its      *)
(* isCreating and the finally agree, whatever was left under way elsewhere. *)
Awaiting == {c \in Calls : call[c].phase \in {"factory", "token"} /\ call[c].mounted}
CreatingIsTrue ==
  /\ page.creating <=> Awaiting # {}
  /\ \A c, d \in Awaiting : c = d

(* Whoever asks for a DAO and stays is shown an error or taken elsewhere,   *)
(* even when the token could not be made.                                   *)
CreationsEnd ==
  (\E c \in Calls : Busy(c) /\ call[c].mounted) ~> (page.errors = "submit" \/ page = Fresh)
=============================================================================
