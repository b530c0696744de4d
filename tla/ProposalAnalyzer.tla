---------------------------- MODULE ProposalAnalyzer ----------------------------
(***************************************************************************)
(* The AI analysis of proposals (src/src/ic_govmind_proposal_analyzer/src/ *)
(* lib.rs): a stable map of proposals and a stable counter.  A call that   *)
(* submits or analyzes a proposal marks it Analyzing, awaits up to         *)
(* MaxRetries HTTP outcalls, and then looks the proposal up again to store *)
(* the outcome; other calls run meanwhile.  Title and description are one  *)
(* Text, an analysis is the Text it was made from.  Drafting and the       *)
(* debate simulation only call out: they change none of this state.        *)
(***************************************************************************)
EXTENDS Integers, FiniteSets

CONSTANTS
  Texts,      \* titles and descriptions
  Chosen,     \* ids callers pick themselves; n stands for "proposal_n"
  Jobs,       \* calls under way at a time
  MaxRetries, \* MAX_RETRIES
  MaxCounter, \* bound on PROPOSAL_COUNTER
  Upgrades    \* TRUE: the canister may be upgraded

NoAnalysis == "none"

ASSUME AnalyzerAssumption ==
  /\ MaxRetries \in Nat \ {0} /\ MaxCounter \in Nat /\ Upgrades \in BOOLEAN
  /\ NoAnalysis \notin Texts

VARIABLES
  proposals, \* PROPOSALS
  counter,   \* PROPOSAL_COUNTER
  job        \* the calls that await an outcall, and what they read before it

vars == <<proposals, counter, job>>

Idle == [phase |-> "idle"]
Busy(j) == job[j] # Idle

Ids == Chosen \cup 1 .. MaxCounter
Proposal ==
  [text : Texts, status : {"Analyzing", "Analyzed", "Failed"}, analysis : Texts \cup {NoAnalysis}]
Outcall == [id : Ids, text : Texts, attempt : 1 .. MaxRetries]

Init ==
  /\ proposals = [id \in {} |-> NoAnalysis]
  /\ counter = 0
  /\ job = [j \in Jobs |-> Idle]

Put(map, id, p) == [x \in DOMAIN map \cup {id} |-> IF x = id THEN p ELSE map[x]]

-----------------------------------------------------------------------------
(* generate_proposal_id takes the next number of the counter and saves it;  *)
(* submit_proposal_and_analyze then counts the proposal once more.          *)
GeneratedId == counter + 1

(* The first outcall of an analysis, with the text read just before it.     *)
Await(j, id, text) ==
  job' = [job EXCEPT ![j] = [id |-> id, text |-> text, attempt |-> 1]]

(* submit_proposal_and_analyze: the insert replaces whatever has the id.    *)
(* No message boundary lies between it and the status Analyzing, so no      *)
(* other call ever sees Pending.                                            *)
Store(j, id, text, count) ==
  /\ ~Busy(j) /\ count <= MaxCounter
  /\ proposals' = Put(proposals, id, [text |-> text, status |-> "Analyzing", analysis |-> NoAnalysis])
  /\ counter' = count
  /\ Await(j, id, text)

SubmitChosen(j, id, text) == id \in Chosen /\ Store(j, id, text, counter + 1)
SubmitGenerated(j, text) == Store(j, GeneratedId, text, GeneratedId + 1)

(* analyze_proposal, on a proposal that is stored.                          *)
Analyze(j, id) ==
  /\ ~Busy(j) /\ id \in DOMAIN proposals
  /\ proposals' = Put(proposals, id, [proposals[id] EXCEPT !.status = "Analyzing"])
  /\ Await(j, id, proposals[id].text)
  /\ UNCHANGED counter

-----------------------------------------------------------------------------
(* What call_ai_api returned is stored with whatever then has the id.       *)
Stored(id, p) == IF id \in DOMAIN proposals THEN Put(proposals, id, p) ELSE proposals

WithoutAnalysis(p, text) == [p EXCEPT !.status = "Analyzed"]
Analyzed(p, text) == [p EXCEPT !.status = "Analyzed", !.analysis = text]

StillAnalyzing(p) == p
Failed(p) == [p EXCEPT !.status = "Failed"]

(* The outcall is answered with an analysis.                                *)
AttemptSucceeds(j) ==
  /\ Busy(j)
  /\ proposals' = Stored(job[j].id, Analyzed(proposals[job[j].id], job[j].text))
  /\ job' = [job EXCEPT ![j] = Idle]
  /\ UNCHANGED counter

(* retry_with_backoff: after a retryable error the next attempt starts at   *)
(* once; the timer set for the delay has an empty handler nobody awaits.    *)
NextAttempt(k) == k + 1

AttemptRetried(j) ==
  /\ Busy(j) /\ job[j].attempt < MaxRetries
  /\ job' = [job EXCEPT ![j].attempt = NextAttempt(@)]
  /\ UNCHANGED <<proposals, counter>>

(* An error that is not retryable, or a retryable one of the last attempt.  *)
AttemptFails(j) ==
  /\ Busy(j)
  /\ proposals' = Stored(job[j].id, Failed(proposals[job[j].id]))
  /\ job' = [job EXCEPT ![j] = Idle]
  /\ UNCHANGED counter

(* An upgrade: calls under way end without an answer, and the first use of  *)
(* the map and of the counter makes new ones over the old.                  *)
KeptByInit == proposals
AfterUpgrade == [id \in {} |-> NoAnalysis]

Upgrade ==
  /\ Upgrades
  /\ proposals' = AfterUpgrade
  /\ counter' = 0
  /\ job' = [j \in Jobs |-> Idle]

-----------------------------------------------------------------------------
Serve(j) ==
  \/ \E text \in Texts : SubmitGenerated(j, text)
  \/ \E id \in Chosen, text \in Texts : SubmitChosen(j, id, text)
  \/ \E id \in Ids : Analyze(j, id)

Answer(j) == AttemptSucceeds(j) \/ AttemptRetried(j) \/ AttemptFails(j)

Next ==
  \/ \E j \in Jobs : Serve(j) \/ Answer(j)
  \/ Upgrade

Spec == Init /\ [][Next]_vars

(* The Internet Computer answers every outcall, if only with a timeout.     *)
FairSpec == Spec /\ \A j \in Jobs : WF_vars(Answer(j))

-----------------------------------------------------------------------------
(* The calls under way and what is stored have their types; no more is      *)
(* stored than the counter counts.                                          *)
TypeOK ==
  /\ DOMAIN proposals \subseteq Ids /\ \A id \in DOMAIN proposals : proposals[id] \in Proposal
  /\ counter \in Cardinality(DOMAIN proposals) .. MaxCounter
  /\ job \in [Jobs -> Outcall \cup {Idle}]

(* A proposal says Analyzing only while a call that will change that is     *)
(* under way for it: whatever calls overlap, and across upgrades, none is   *)
(* left saying so for ever (analyze_proposal sets the status before its     *)
(* await and on both of its outcomes).                                      *)
AnalyzingHasACall ==
  \A id \in DOMAIN proposals :
    proposals[id].status = "Analyzing" => \E j \in Jobs : Busy(j) /\ job[j].id = id

(* The analysis stored with a proposal was made from its title and          *)
(* description, although the text is read before the await and the proposal *)
(* looked up again after it; a proposal that says Analyzed has one.  A      *)
(* caller may submit an id of his own choice twice, with two texts: of such *)
(* ids nothing is said.                                                     *)
AnalysisIsOfTheText ==
  \A id \in DOMAIN proposals \ Chosen :
    /\ proposals[id].analysis \in {NoAnalysis, proposals[id].text}
    /\ proposals[id].status = "Analyzed" => proposals[id].analysis # NoAnalysis

(* A generated id replaces no stored proposal but one a caller put under    *)
(* it, across upgrades too: the map and the counter start anew together.    *)
GeneratedIdsAreNew ==
  [][\A j \in Jobs, text \in Texts :
       SubmitGenerated(j, text) => GeneratedId \notin DOMAIN proposals \ Chosen]_vars

(* An analysis ends, whatever the outcalls answer: the attempts are finite. *)
EveryAnalysisEnds == \A j \in Jobs : Busy(j) ~> ~Busy(j)
=============================================================================
