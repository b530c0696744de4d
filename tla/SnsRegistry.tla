------------------------------ MODULE SnsRegistry ------------------------------
(***************************************************************************)
(* The registry of SNS governance canisters (src/src/ic_govmind_sns/src/   *)
(* lib.rs): two stable maps, SNS_CANISTERS with counts per SNS, and        *)
(* SNS_PROPOSALS by (canister, proposal).  fetch_sns_proposals and         *)
(* refresh_sns_canisters await other canisters between reading and writing *)
(* the maps, and anybody may add, remove or import meanwhile.              *)
(***************************************************************************)
EXTENDS Integers, FiniteSets, Functions

CONSTANTS
  Sns,          \* governance canisters
  Jobs,         \* fetches and refreshes under way at a time
  Limit,        \* list_proposals answers the latest so many (10)
  MaxProposals  \* bound on the proposals of an SNS

SnsAssumption ==
  Limit \in Nat \ {0} /\ MaxProposals \in Nat \ {0}

VARIABLES
  listed, \* SNS_CANISTERS: the counts of each listed SNS, and who gave them
  stored, \* SNS_PROPOSALS: the status of each (SNS, proposal id)
  gov,    \* external: the status of each proposal of each SNS
  job     \* the fetches and refreshes that await an answer

vars == <<listed, stored, gov, job>>

Statuses == {"Open", "Decided"}
Ids == 1 .. MaxProposals

Idle == [kind |-> "idle"]

Init ==
  /\ listed = [s \in {} |-> Idle]
  /\ stored = [k \in {} |-> "Open"]
  /\ gov = [s \in Sns |-> [id \in {} |-> "Open"]]
  /\ job = [j \in Jobs |-> Idle]

(* f with the entries of g, as insert into a stable map does.               *)
Insert(f, g) == [x \in DOMAIN f \cup DOMAIN g |-> IF x \in DOMAIN g THEN g[x] ELSE f[x]]

-----------------------------------------------------------------------------
(* The governance canisters (external): a proposal opens, then is decided.  *)
Propose(s) ==
  /\ Cardinality(DOMAIN gov[s]) < MaxProposals
  /\ gov' = [gov EXCEPT ![s] = Insert(@, [id \in {Cardinality(DOMAIN @) + 1} |-> "Open"])]
  /\ UNCHANGED <<listed, stored, job>>

Decide(s) ==
  /\ \E id \in DOMAIN gov[s] : gov[s][id] = "Open" /\ gov' = [gov EXCEPT ![s][id] = "Decided"]
  /\ UNCHANGED <<listed, stored, job>>

Latest(s) == Restrict(gov[s], {id \in DOMAIN gov[s] : id > Cardinality(DOMAIN gov[s]) - Limit})

-----------------------------------------------------------------------------
(* get_proposal_count_for_canister, get_active_proposal_count_for_canister. *)
ProposalsOf(s, map) == {k \in DOMAIN map : k[1] = s}
Counts(s, map) ==
  [total |-> Cardinality(ProposalsOf(s, map)),
   active |-> Cardinality({k \in ProposalsOf(s, map) : map[k] = "Open"}),
   given |-> FALSE]

(* fetch_sns_proposals: the SNS must be listed when the call is made.       *)
Fetch(j, s) ==
  /\ job[j] = Idle /\ s \in DOMAIN listed
  /\ job' = [job EXCEPT ![j] = [kind |-> "fetch", sns |-> s, answered |-> FALSE, answer |-> <<>>]]
  /\ UNCHANGED <<listed, stored, gov>>

GovernanceAnswers(j) ==
  /\ job[j].kind = "fetch" /\ ~job[j].answered
  /\ job' = [job EXCEPT ![j].answered = TRUE, ![j].answer = Latest(job[j].sns)]
  /\ UNCHANGED <<listed, stored, gov>>

(* The proposals are stored whether or not the SNS is still listed; the     *)
(* counts are updated if it is, from all that is stored of it.              *)
CountTwice(s, map, fetched) ==
  [total |-> listed[s].total + Cardinality(DOMAIN fetched),
   active |-> listed[s].active + Cardinality({id \in DOMAIN fetched : fetched[id] = "Open"}),
   given |-> FALSE]
NewCounts(s, map, fetched) == Counts(s, map)

ToStore(s, fetched) == [k \in {s} \X DOMAIN fetched |-> fetched[k[2]]]

FetchDone(j) ==
  LET s == job[j].sns  fetched == job[j].answer IN
  /\ job[j].kind = "fetch" /\ job[j].answered
  /\ stored' = Insert(stored, ToStore(s, fetched))
  /\ listed' = IF s \in DOMAIN listed
                 THEN [listed EXCEPT ![s] = NewCounts(s, stored', fetched)] ELSE listed
  /\ job' = [job EXCEPT ![j] = Idle]
  /\ UNCHANGED gov

(* A call of another canister fails: the handler returns an error.          *)
CallFails(j) ==
  /\ \/ job[j].kind = "fetch" /\ ~job[j].answered
     \/ job[j].kind = "refresh" /\ job[j].awaits = "root"
  /\ job' = [job EXCEPT ![j] = Idle]
  /\ UNCHANGED <<listed, stored, gov>>

-----------------------------------------------------------------------------
(* refresh_sns_canisters: the SNS root lists every deployed SNS; a full     *)
(* refresh clears both maps at that moment, before the metadata arrives.    *)
Refresh(j, full) ==
  /\ job[j] = Idle
  /\ job' = [job EXCEPT ![j] = [kind |-> "refresh", full |-> full, awaits |-> "root"]]
  /\ UNCHANGED <<listed, stored, gov>>

ListedAfterRoot(full) == IF full THEN [s \in {} |-> Idle] ELSE listed

RootAnswers(j) ==
  /\ job[j].kind = "refresh" /\ job[j].awaits = "root"
  /\ listed' = ListedAfterRoot(job[j].full)
  /\ stored' = IF job[j].full THEN [k \in {} |-> "Open"] ELSE stored
  /\ job' = [job EXCEPT ![j].awaits = "metadata"]
  /\ UNCHANGED gov

(* join_all: those that answered with metadata are inserted, all at once,   *)
(* with counts of zero.                                                     *)
MetadataAnswers(j) ==
  /\ job[j].kind = "refresh" /\ job[j].awaits = "metadata"
  /\ \E ok \in SUBSET Sns :
       listed' = Insert(listed, [s \in ok |-> [total |-> 0, active |-> 0, given |-> FALSE]])
  /\ job' = [job EXCEPT ![j] = Idle]
  /\ UNCHANGED <<stored, gov>>

-----------------------------------------------------------------------------
(* add_sns_canister takes the counts of its caller, for an unlisted SNS;    *)
(* import_canisters and import_proposals overwrite what there is.           *)
CallersCounts == [total : 0 .. 1, active : 0 .. 1, given : {TRUE}]

AddSnsCanister(s, counts) ==
  /\ s \notin DOMAIN listed
  /\ listed' = Insert(listed, [x \in {s} |-> counts])
  /\ UNCHANGED <<stored, gov, job>>

ImportCanister(s, counts) ==
  /\ listed' = Insert(listed, [x \in {s} |-> counts])
  /\ UNCHANGED <<stored, gov, job>>

ImportProposal(s, id, status) ==
  /\ stored' = Insert(stored, [k \in {<<s, id>>} |-> status])
  /\ UNCHANGED <<listed, gov, job>>

(* remove_sns_canister: the SNS and the proposals stored of it.             *)
WithoutProposalsOf(s) == Restrict(stored, DOMAIN stored \ ProposalsOf(s, stored))

RemoveSnsCanister(s) ==
  /\ s \in DOMAIN listed
  /\ listed' = Restrict(listed, DOMAIN listed \ {s})
  /\ stored' = WithoutProposalsOf(s)
  /\ UNCHANGED <<gov, job>>

Next ==
  \/ \E s \in Sns :
       \/ Propose(s) \/ Decide(s) \/ RemoveSnsCanister(s)
       \/ \E counts \in CallersCounts : AddSnsCanister(s, counts) \/ ImportCanister(s, counts)
       \/ \E id \in Ids, status \in Statuses : ImportProposal(s, id, status)
  \/ \E j \in Jobs :
       \/ \E s \in Sns : Fetch(j, s)
       \/ \E full \in BOOLEAN : Refresh(j, full)
       \/ GovernanceAnswers(j) \/ FetchDone(j) \/ CallFails(j)
       \/ RootAnswers(j) \/ MetadataAnswers(j)

Spec == Init /\ [][Next]_vars

-----------------------------------------------------------------------------
(* The types of the state.                                                  *)
TypeOK ==
  /\ DOMAIN listed \subseteq Sns
  /\ \A s \in DOMAIN listed :
       listed[s] \in [total : 0 .. MaxProposals, active : 0 .. MaxProposals, given : BOOLEAN]
  /\ DOMAIN stored \subseteq Sns \X Ids
  /\ \A k \in DOMAIN stored : stored[k] \in Statuses
  /\ \A s \in Sns : DOMAIN gov[s] \subseteq Ids
  /\ \A j \in Jobs : job[j].kind \in {"idle", "fetch", "refresh"}

(* The counts the registry made itself never exceed what it stores: no list *)
(* promises proposals that get_sns_proposals does not have, whatever is     *)
(* removed, cleared and fetched meanwhile.                                  *)
CountsAreBacked ==
  \A s \in DOMAIN listed :
    ~listed[s].given =>
      /\ listed[s].total <= Cardinality(ProposalsOf(s, stored))
      /\ listed[s].active <= listed[s].total

(* The counts of an SNS are those of what is stored of it, or zero since a  *)
(* refresh, and no step but a caller's own import of them makes it          *)
(* otherwise: fetches, removals and refreshes that overlap never leave a    *)
(* count in between.                                                        *)
ExactOrReset(s) ==
  s \in DOMAIN listed =>
    listed[s] \in {Counts(s, stored), [total |-> 0, active |-> 0, given |-> FALSE]}

ImportFor(s) ==
  \/ \E counts \in CallersCounts : AddSnsCanister(s, counts) \/ ImportCanister(s, counts)
  \/ \E id \in Ids, status \in Statuses : ImportProposal(s, id, status)

CountsStayExact ==
  [][\A s \in Sns : ExactOrReset(s) => ExactOrReset(s)' \/ ImportFor(s)]_vars
=============================================================================
