------------------------------ MODULE DaoGovernance ------------------------------
(***************************************************************************)
(* Admins, committees and proposals of a DAO canister (update_api.rs and   *)
(* store.rs of src/src/ic_govmind_backend/src).  The state (admins,        *)
(* committees, next ids) is on the heap and reaches stable memory when it  *)
(* is saved: before an upgrade, and by create_proposal; the proposals are  *)
(* stable memory.  An upgrade that skips pre_upgrade, as a controller may  *)
(* ask for, brings back the state last saved.                              *)
(***************************************************************************)
EXTENDS Integers, FiniteSets, SequencesExt

CONSTANTS
  Principals, Controllers, \* users, and the controllers of the canister
  Types,                   \* CommitteeType
  IdModulus,               \* committee ids are so wide: 2^16
  MaxCalls,                \* bound on next_ids
  Skips                    \* TRUE: an upgrade may skip pre_upgrade

GovernanceAssumption ==
  /\ Controllers \subseteq Principals
  /\ IdModulus \in Nat \ {0} /\ MaxCalls \in Nat \ {0} /\ Skips \in BOOLEAN

VARIABLES
  state,     \* STATE: admins, committees and next_ids
  saved,     \* STATE_STORE: the state last saved
  proposals  \* PROPOSALS_STORE: the status of each proposal

vars == <<state, saved, proposals>>

Statuses == {"Draft", "Active", "Passed", "Rejected", "Executed", "Expired"}
Committee == [id : 0 .. IdModulus - 1, type : Types, active : BOOLEAN]
NextIds == [proposal : 1 .. MaxCalls, committee : 1 .. MaxCalls]

(* The root is the first admin; next_ids start at 1.  The DAO comes without *)
(* committees, as the web application and the scripts ask for it.           *)
Init ==
  /\ \E root \in Principals :
       state = [admins |-> {root}, committees |-> <<>>, next |-> [proposal |-> 1, committee |-> 1]]
  /\ saved = state
  /\ proposals = [id \in {} |-> "Active"]

-----------------------------------------------------------------------------
(* add_admin and remove_admin, of a controller.                             *)
SetAdmins(caller, admins) ==
  /\ caller \in Controllers
  /\ state' = [state EXCEPT !.admins = admins]
  /\ UNCHANGED <<saved, proposals>>

AddAdmin(caller, p) == p \notin state.admins /\ SetAdmins(caller, state.admins \cup {p})
RemoveAdmin(caller, p) == p \in state.admins /\ SetAdmins(caller, state.admins \ {p})

-----------------------------------------------------------------------------
(* state::save.  Other calls save too; an upgrade that skips nothing        *)
(* leaves the same.                                                         *)
Unsaved == saved
Saved == state'

(* create_proposal, of anybody but the anonymous caller: get_next_id steps  *)
(* the counter, and the state is saved after the insert.                    *)
NextProposalId == state.next.proposal

CreateProposal ==
  /\ NextProposalId < MaxCalls
  /\ state' = [state EXCEPT !.next.proposal = @ + 1]
  /\ proposals' = [id \in DOMAIN proposals \cup {NextProposalId} |->
                     IF id = NextProposalId THEN "Active" ELSE proposals[id]]
  /\ saved' = Saved

(* update_proposal_status: any stored proposal to any status.               *)
MaySetStatus(caller) == caller \in Controllers

UpdateProposalStatus(caller, id, status) ==
  /\ MaySetStatus(caller) /\ id \in DOMAIN proposals
  /\ proposals' = [proposals EXCEPT ![id] = status]
  /\ UNCHANGED <<state, saved>>

-----------------------------------------------------------------------------
(* add_committee, of anybody: the id is taken before the type is looked at, *)
(* cut to 16 bits for the committee, and told in full.                      *)
TypeIsFree(type) == \A i \in DOMAIN state.committees : state.committees[i].type # type
CommitteeId == state.next.committee % IdModulus

AddCommittee(type, active) ==
  /\ state.next.committee < MaxCalls
  /\ state' = [state EXCEPT
       !.next.committee = @ + 1,
       !.committees = IF TypeIsFree(type)
                        THEN Append(@, [id |-> CommitteeId, type |-> type, active |-> active])
                        ELSE @]
  /\ UNCHANGED <<saved, proposals>>

(* update_committee_update: the first committee with the id.                *)
IndexOf(id) == SelectInSeq(state.committees, LAMBDA c : c.id = id)

UpdateCommittee(id, active) ==
  /\ IndexOf(id) # 0
  /\ state' = [state EXCEPT !.committees[IndexOf(id)].active = active]
  /\ UNCHANGED <<saved, proposals>>

-----------------------------------------------------------------------------
(* An upgrade: post_upgrade loads what pre_upgrade saved, if it ran.        *)
Upgrade ==
  /\ \/ saved' = state
     \/ Skips /\ saved' = saved
  /\ state' = saved'
  /\ UNCHANGED proposals

Next ==
  \/ \E c, p \in Principals : AddAdmin(c, p) \/ RemoveAdmin(c, p)
  \/ CreateProposal
  \/ \E c \in Principals, id \in DOMAIN proposals, s \in Statuses : UpdateProposalStatus(c, id, s)
  \/ \E t \in Types, a \in BOOLEAN : AddCommittee(t, a)
  \/ \E id \in 0 .. IdModulus - 1, a \in BOOLEAN : UpdateCommittee(id, a)
  \/ Upgrade

Spec == Init /\ [][Next]_vars

-----------------------------------------------------------------------------
(* The state, what is saved of it and the proposals have their types, and   *)
(* ids start at 1.                                                          *)
StateOK(s) ==
  /\ s.admins \subseteq Principals
  /\ s.committees \in Seq(Committee)
  /\ s.next \in NextIds

TypeOK ==
  /\ StateOK(state) /\ StateOK(saved)
  /\ proposals \in [DOMAIN proposals -> Statuses] /\ DOMAIN proposals \subseteq 1 .. MaxCalls

(* create_proposal replaces no proposal, even when an upgrade brings back   *)
(* an older state: the id it takes is saved with it.                        *)
ProposalIdsAreNew == [][CreateProposal => NextProposalId \notin DOMAIN proposals]_vars

(* No two committees have one type or one id, whatever calls fail, as long  *)
(* as fewer than IdModulus calls of add_committee are made.                 *)
CommitteesAreDistinct ==
  \A i, k \in DOMAIN state.committees :
    state.committees[i].id = state.committees[k].id
      \/ state.committees[i].type = state.committees[k].type => i = k
=============================================================================
