---------------------------- MODULE CommitteesTab ----------------------------
(***************************************************************************)
(* The committees tab of a DAO's page (components/tabs/CommitteesTab.jsx): *)
(* a form that creates a committee, the list of those the DAO canister     *)
(* has, and an editor in the list.  A save awaits the canister and then    *)
(* the list; isSubmittingCommittee, which both forms share, disables their *)
(* inputs meanwhile, but not Manage and Cancel.  Of a committee this keeps *)
(* whether it is active; its other fields matter as typed or as loaded.    *)
(***************************************************************************)
EXTENDS Integers

CONSTANTS
  Texts,        \* what may be typed over term, members and responsibilities
  MaxCommittees \* bound on the committees

VARIABLES
  form,    \* newCommittee..., the form that creates
  editor,  \* updatingCommitteeId and updateCommittee..., the editor
  listed,  \* backendDao.committees, as last fetched, or that this failed
  call,    \* the save under way: isSubmittingCommittee is that there is one
  canister \* external: the committees of the DAO canister

vars == <<form, editor, listed, call, canister>>

Ids == 1 .. MaxCommittees
NoId == 0
Absent == "absent"
Unavailable == [i \in Ids |-> "unavailable"]
Untyped == "untyped"
Activity == {"active", "inactive"}
Flag(active) == IF active THEN "active" ELSE "inactive"

Forms == [text : Texts \cup {Untyped}, active : BOOLEAN]
Editors ==
  [id : Ids \cup {NoId}, text : Texts \cup {Untyped}, active : BOOLEAN, toggled : BOOLEAN]
Saving == {"sent", "listing"}
CallStates ==
  {[phase |-> "idle"]} \cup [phase : Saving, new : {TRUE}, arg : Forms]
                       \cup [phase : Saving, new : {FALSE}, arg : Editors]

Idle == [phase |-> "idle"]
FreshForm == [text |-> Untyped, active |-> TRUE]
NoEditor == [id |-> NoId, text |-> Untyped, active |-> TRUE, toggled |-> FALSE]

Init ==
  /\ form = FreshForm /\ editor = NoEditor /\ call = Idle
  /\ listed = [i \in Ids |-> Absent]
  /\ canister = [i \in Ids |-> Absent]

Submitting == call # Idle
EditorShown == editor.id # NoId /\ listed[editor.id] \in Activity
NeverDisabled == FALSE
Disabled == Submitting

-----------------------------------------------------------------------------
(* The inputs of both forms.                                                *)
TypeForm(f) ==
  /\ ~Disabled
  /\ form' = f
  /\ UNCHANGED <<editor, listed, call, canister>>

TypeEditor(text) ==
  /\ EditorShown /\ ~Disabled
  /\ editor' = [editor EXCEPT !.text = text]
  /\ UNCHANGED <<form, listed, call, canister>>

ToggleActive ==
  /\ EditorShown /\ ~Disabled
  /\ editor' = [editor EXCEPT !.active = ~@, !.toggled = TRUE]
  /\ UNCHANGED <<form, listed, call, canister>>

(* Manage and Cancel.  active is an opt, which is decoded as an array, and  *)
(* Boolean of an array is true.                                             *)
LoadedActive(i) == TRUE
HandleStartUpdate(i) ==
  /\ listed[i] \in Activity /\ editor.id # i
  /\ editor' = [id |-> i, text |-> Untyped, active |-> LoadedActive(i), toggled |-> FALSE]
  /\ UNCHANGED <<form, listed, call, canister>>

HandleCancelUpdate ==
  /\ EditorShown
  /\ editor' = NoEditor
  /\ UNCHANGED <<form, listed, call, canister>>

-----------------------------------------------------------------------------
(* handleAddCommittee and handleUpdateCommittee up to their first await:    *)
(* they return when the DAO was not fetched.                                *)
Save(new, arg) ==
  /\ ~Submitting /\ listed # Unavailable
  /\ call' = [phase |-> "sent", new |-> new, arg |-> arg]
  /\ UNCHANGED <<form, editor, listed, canister>>

HandleAddCommittee == Save(TRUE, form)
HandleUpdateCommittee == EditorShown /\ Save(FALSE, editor)

(* The canister gives a new committee the next id, or overwrites one.       *)
Put(i, active) ==
  /\ i \in Ids
  /\ \A j \in 1 .. i - 1 : canister[j] # Absent
  /\ canister' = [canister EXCEPT ![i] = Flag(active)]

Saved ==
  /\ call.phase = "sent"
  /\ IF call.new THEN \E i \in Ids : canister[i] = Absent /\ Put(i, call.arg.active)
                 ELSE Put(call.arg.id, call.arg.active)
  /\ call' = [call EXCEPT !.phase = "listing"]
  /\ UNCHANGED <<form, editor, listed>>

(* An Err, or an exception: what was typed stays.                           *)
SaveFails ==
  /\ call.phase = "sent"
  /\ call' = Idle
  /\ UNCHANGED <<form, editor, listed, canister>>

(* The list was fetched again, or could not be: the form is emptied, or     *)
(* whichever editor is open by now closed.                                  *)
Fetched == listed' \in {canister, Unavailable}
SaveEnds ==
  /\ call.phase = "listing"
  /\ Fetched
  /\ IF call.new THEN form' = FreshForm /\ UNCHANGED editor
                 ELSE editor' = NoEditor /\ UNCHANGED form
  /\ call' = Idle
  /\ UNCHANGED canister

-----------------------------------------------------------------------------
(* The list is fetched anew when it is stale; the tab is left, and a save   *)
(* of it goes on as one of another client.                                  *)
FetchList ==
  /\ Fetched
  /\ UNCHANGED <<form, editor, call, canister>>

LeaveTab ==
  /\ form' = FreshForm /\ editor' = NoEditor /\ call' = Idle
  /\ UNCHANGED <<listed, canister>>

OtherClient(i, active) ==
  /\ Put(i, active)
  /\ UNCHANGED <<form, editor, listed, call>>

User ==
  \/ \E f \in Forms : TypeForm(f)
  \/ \E t \in Texts : TypeEditor(t)
  \/ \E i \in Ids : HandleStartUpdate(i)
  \/ ToggleActive \/ HandleCancelUpdate \/ HandleAddCommittee \/ HandleUpdateCommittee \/ LeaveTab

Continue == Saved \/ SaveFails \/ SaveEnds
Next == User \/ Continue \/ FetchList \/ \E i \in Ids, a \in BOOLEAN : OtherClient(i, a)

Spec == Init /\ [][Next]_vars

-----------------------------------------------------------------------------
TypeOK ==
  /\ form \in Forms /\ editor \in Editors /\ call \in CallStates
  /\ canister \in [Ids -> Activity \cup {Absent}]
  /\ listed = Unavailable \/ listed \in [Ids -> Activity \cup {Absent}]

(* A save that ends throws away nothing that was typed but is not in it:    *)
(* while one is under way, the form that it empties, and the editor that it *)
(* closes, which may be another committee's by then, hold what it saves or  *)
(* what was loaded (handleUpdateCommittee, handleStartUpdateCommittee).     *)
Touched(e) == e.text # Untyped \/ e.toggled
NoEditIsLost ==
  Submitting =>
    IF call.new THEN form = call.arg ELSE Touched(editor) => editor = call.arg
=============================================================================
