------------------------- MODULE ProposalAnalyzerProofs -------------------------
(***************************************************************************)
(* Proofs about ProposalAnalyzer, for any number of calls, texts and       *)
(* retries, and about the screens that ask it, for any number of proposals *)
(* and handlers.                                                           *)
(*                                                                         *)
(* That an Analyzing proposal has a call is inductive with the types.      *)
(* What generated ids guarantee needs more: a stored id that no caller     *)
(* picks is a number the counter has passed, and a call under way finds    *)
(* under it the text it read before its outcall.                           *)
(***************************************************************************)
EXTENDS MCAnalysis, FiniteSetTheorems, TLAPS

(* TypeOK with the finiteness that makes the count of proposals a number.   *)
IInv == TypeOK /\ IsFiniteSet(DOMAIN proposals)

LEMMA OutcallIsNotIdle ==
  ASSUME NEW r \in Outcall
  PROVE  r # Idle
  BY DEF Outcall, Idle

(* A busy call is an outcall.                                               *)
LEMMA BusyCall ==
  ASSUME TypeOK, NEW j \in Jobs, Busy(j)
  PROVE  job[j] \in Outcall
  BY DEF TypeOK, Busy

(* A change of one call leaves the others.                                  *)
LEMMA OneJobChanges ==
  ASSUME TypeOK, NEW j \in Jobs, NEW r \in Outcall \cup {Idle}, job' = [job EXCEPT ![j] = r]
  PROVE  /\ job' \in [Jobs -> Outcall \cup {Idle}]
         /\ job'[j] = r
         /\ \A k \in Jobs : k # j => job'[k] = job[k]
  BY DEF TypeOK

(* Storing a proposal counts for one at most.                               *)
LEMMA PutKeeps ==
  ASSUME IInv, NEW id \in Ids, NEW p \in Proposal, proposals' = Put(proposals, id, p)
  PROVE  /\ DOMAIN proposals' \subseteq Ids
         /\ \A x \in DOMAIN proposals' : proposals'[x] \in Proposal
         /\ IsFiniteSet(DOMAIN proposals')
         /\ Cardinality(DOMAIN proposals') \in Nat
         /\ Cardinality(DOMAIN proposals') <= Cardinality(DOMAIN proposals) + 1
         /\ id \in DOMAIN proposals =>
              Cardinality(DOMAIN proposals') = Cardinality(DOMAIN proposals)
  <1>1. /\ DOMAIN proposals' = DOMAIN proposals \cup {id}
        /\ proposals'[id] = p
        /\ \A x \in DOMAIN proposals : x # id => proposals'[x] = proposals[x]
    BY DEF Put
  <1>2. /\ IsFiniteSet(DOMAIN proposals')
        /\ Cardinality(DOMAIN proposals') = IF id \in DOMAIN proposals
                                              THEN Cardinality(DOMAIN proposals)
                                              ELSE Cardinality(DOMAIN proposals) + 1
    BY <1>1, FS_AddElement DEF IInv
  <1>3. Cardinality(DOMAIN proposals) \in Nat
    BY FS_CardinalityType DEF IInv
  <1> QED BY <1>1, <1>2, <1>3 DEF IInv, TypeOK

-----------------------------------------------------------------------------
(* Every step, by what it does to the stored proposals and the calls.       *)
NewCall(j, id, text) ==
  [id |-> id, text |-> text, attempt |-> 1]

LEMMA NewCallType ==
  ASSUME NEW j \in Jobs, NEW id \in Ids, NEW text \in Texts
  PROVE  /\ NewCall(j, id, text) \in Outcall
         /\ NewCall(j, id, text).id = id
         /\ NewCall(j, id, text).text = text
  BY AnalyzerAssumption DEF NewCall, Outcall

(* A call starts on the proposal it leaves Analyzing.                       *)
LEMMA StartKeeps ==
  ASSUME IInv, AnalyzingHasACall, NEW j \in Jobs, ~Busy(j),
         NEW id \in Ids, NEW text \in Texts, NEW p \in Proposal,
         proposals' = Put(proposals, id, p), Await(j, id, text),
         counter' \in Nat, counter' <= MaxCounter,
         \/ counter' = counter /\ id \in DOMAIN proposals
         \/ counter' >= counter + 1
  PROVE  IInv' /\ AnalyzingHasACall'
  <1> DEFINE r == NewCall(j, id, text)
  <1>1. r \in Outcall /\ r.id = id
    BY NewCallType
  <1>2. job' = [job EXCEPT ![j] = r]
    BY DEF Await, NewCall
  <1>3. r # Idle
    BY <1>1, OutcallIsNotIdle
  <1> HIDE DEF r
  <1>4. /\ job' \in [Jobs -> Outcall \cup {Idle}]
        /\ job'[j] = r
        /\ \A k \in Jobs : k # j => job'[k] = job[k]
    BY <1>1, <1>2, OneJobChanges DEF IInv
  <1>5. /\ DOMAIN proposals' = DOMAIN proposals \cup {id}
        /\ \A x \in DOMAIN proposals : x # id => proposals'[x] = proposals[x]
    BY DEF Put
  <1>6. IInv'
    <2>1. Cardinality(DOMAIN proposals') \in Nat /\ IsFiniteSet(DOMAIN proposals')
      BY PutKeeps
    <2>2. counter \in Nat /\ Cardinality(DOMAIN proposals) \in Nat
          /\ Cardinality(DOMAIN proposals) <= counter
      BY FS_CardinalityType, AnalyzerAssumption DEF IInv, TypeOK
    <2>3. Cardinality(DOMAIN proposals') <= counter'
      BY <2>1, <2>2, PutKeeps
    <2>4. /\ DOMAIN proposals' \subseteq Ids
          /\ \A x \in DOMAIN proposals' : proposals'[x] \in Proposal
      BY PutKeeps
    <2> QED BY <1>4, <2>1, <2>3, <2>4, AnalyzerAssumption DEF IInv, TypeOK, Ids
  <1>7. AnalyzingHasACall'
    <2> SUFFICES ASSUME NEW x \in DOMAIN proposals', proposals'[x].status = "Analyzing"
                 PROVE  \E k \in Jobs : Busy(k)' /\ job'[k].id = x
      BY DEF AnalyzingHasACall
    <2>1. CASE x = id
      BY <2>1, <1>1, <1>3, <1>4 DEF Busy
    <2>2. CASE x # id
      BY <2>2, <1>4, <1>5 DEF AnalyzingHasACall, Busy
    <2> QED BY <2>1, <2>2
  <1> QED BY <1>6, <1>7

(* A call ends and leaves its proposal, if stored, in another status.       *)
LEMMA EndKeeps ==
  ASSUME IInv, AnalyzingHasACall, NEW j \in Jobs, Busy(j),
         NEW p, p \in Proposal \/ job[j].id \notin DOMAIN proposals,
         p.status # "Analyzing",
         proposals' = Stored(job[j].id, p),
         job' = [job EXCEPT ![j] = Idle], UNCHANGED counter
  PROVE  IInv' /\ AnalyzingHasACall'
  <1> DEFINE id == job[j].id
  <1>1. id \in Ids
    BY BusyCall DEF IInv, Outcall
  <1>2. /\ job' \in [Jobs -> Outcall \cup {Idle}]
        /\ job'[j] = Idle
        /\ \A k \in Jobs : k # j => job'[k] = job[k]
    BY OneJobChanges DEF IInv
  <1>3. CASE id \notin DOMAIN proposals
    <2>1. proposals' = proposals
      BY <1>3 DEF Stored
    <2>2. IInv'
      BY <1>2, <2>1 DEF IInv, TypeOK
    <2>3. AnalyzingHasACall'
      BY <1>2, <1>3, <2>1 DEF AnalyzingHasACall, Busy
    <2> QED BY <2>2, <2>3
  <1>4. CASE id \in DOMAIN proposals
    <2>1. proposals' = Put(proposals, id, p) /\ p \in Proposal
      BY <1>4 DEF Stored
    <2> HIDE DEF id
    <2>2. /\ DOMAIN proposals' = DOMAIN proposals \cup {id}
          /\ proposals'[id] = p
          /\ \A x \in DOMAIN proposals : x # id => proposals'[x] = proposals[x]
      BY <2>1 DEF Put
    <2>3. IInv'
      BY <1>1, <1>2, <1>4, <2>1, PutKeeps DEF IInv, TypeOK
    <2>4. AnalyzingHasACall'
      BY <1>2, <2>2 DEF AnalyzingHasACall, Busy, id
    <2> QED BY <2>3, <2>4
  <1> QED BY <1>3, <1>4

(* A call moves on to another attempt, for the same proposal.               *)
LEMMA OnwardKeeps ==
  ASSUME IInv, AnalyzingHasACall, NEW j \in Jobs, Busy(j),
         NEW r \in Outcall, r.id = job[j].id,
         job' = [job EXCEPT ![j] = r], UNCHANGED <<proposals, counter>>
  PROVE  IInv' /\ AnalyzingHasACall'
  <1>1. /\ job' \in [Jobs -> Outcall \cup {Idle}]
        /\ job'[j] = r
        /\ \A k \in Jobs : k # j => job'[k] = job[k]
    BY OneJobChanges DEF IInv
  <1>2. r # Idle
    BY OutcallIsNotIdle
  <1>3. IInv'
    BY <1>1 DEF IInv, TypeOK
  <1>4. AnalyzingHasACall'
    BY <1>1, <1>2 DEF AnalyzingHasACall, Busy
  <1> QED BY <1>3, <1>4
-----------------------------------------------------------------------------
LEMMA InitInvariant == Init => IInv /\ AnalyzingHasACall
  BY FS_EmptySet, AnalyzerAssumption DEF Init, IInv, TypeOK, AnalyzingHasACall

LEMMA StoreKeeps ==
  ASSUME IInv, AnalyzingHasACall, NEW j \in Jobs, NEW id \in Ids, NEW text \in Texts,
         NEW count \in Nat, count >= counter + 1, Store(j, id, text, count)
  PROVE  IInv' /\ AnalyzingHasACall'
  <1> DEFINE p == [text |-> text, status |-> "Analyzing", analysis |-> NoAnalysis]
  <1>1. p \in Proposal
    BY DEF Proposal
  <1>2. proposals' = Put(proposals, id, p)
    BY DEF Store
  <1> HIDE DEF p
  <1> QED BY <1>1, <1>2, StartKeeps DEF Store

LEMMA ServeKeeps ==
  ASSUME IInv, AnalyzingHasACall, NEW j \in Jobs, Serve(j)
  PROVE  IInv' /\ AnalyzingHasACall'
  <1>1. counter \in Nat
    BY FS_CardinalityType, AnalyzerAssumption DEF IInv, TypeOK
  <1>2. CASE \E text \in Texts : SubmitGenerated(j, text)
    <2>1. PICK text \in Texts : Store(j, GeneratedId, text, GeneratedId + 1)
      BY <1>2 DEF SubmitGenerated
    <2>2. GeneratedId \in Ids
      BY <1>1, <2>1, AnalyzerAssumption DEF Store, GeneratedId, Ids
    <2>3. GeneratedId + 1 \in Nat /\ GeneratedId + 1 >= counter + 1
      BY <1>1 DEF GeneratedId
    <2> QED BY <2>1, <2>2, <2>3, StoreKeeps
  <1>3. CASE \E id \in Chosen, text \in Texts : SubmitChosen(j, id, text)
    <2>1. PICK id \in Chosen, text \in Texts : Store(j, id, text, counter + 1)
      BY <1>3 DEF SubmitChosen
    <2>2. id \in Ids
      BY DEF Ids
    <2> QED BY <1>1, <2>1, <2>2, StoreKeeps
  <1>4. CASE \E id \in Ids : Analyze(j, id)
    <2>1. PICK id \in Ids : Analyze(j, id)
      BY <1>4
    <2> DEFINE p == [proposals[id] EXCEPT !.status = "Analyzing"]
    <2>2. proposals[id] \in Proposal
      BY <2>1 DEF Analyze, IInv, TypeOK
    <2>3. p \in Proposal /\ proposals[id].text \in Texts
      BY <2>2 DEF Proposal
    <2>4. proposals' = Put(proposals, id, p)
      BY <2>1 DEF Analyze
    <2> HIDE DEF p
    <2>5. counter' = counter /\ counter <= MaxCounter
      BY <2>1, FS_CardinalityType, AnalyzerAssumption DEF Analyze, IInv, TypeOK
    <2> QED BY <1>1, <2>1, <2>3, <2>4, <2>5, StartKeeps DEF Analyze
  <1> QED BY <1>2, <1>3, <1>4 DEF Serve

(* What a call stores of an outcome.                                        *)
LEMMA OutcomeTypes ==
  ASSUME IInv, NEW j \in Jobs, Busy(j)
  PROVE  /\ job[j] \in Outcall /\ job[j].text \in Texts
         /\ job[j].id \in DOMAIN proposals =>
              /\ Analyzed(proposals[job[j].id], job[j].text) \in Proposal
              /\ Analyzed(proposals[job[j].id], job[j].text).status = "Analyzed"
              /\ Failed(proposals[job[j].id]) \in Proposal
              /\ Failed(proposals[job[j].id]).status = "Failed"
  <1>1. job[j] \in Outcall
    BY BusyCall DEF IInv
  <1>2. job[j].text \in Texts
    BY <1>1 DEF Outcall
  <1>3. job[j].id \in DOMAIN proposals => proposals[job[j].id] \in Proposal
    BY DEF IInv, TypeOK
  <1> QED BY <1>1, <1>2, <1>3 DEF Analyzed, Failed, Proposal

LEMMA AnswerKeeps ==
  ASSUME IInv, AnalyzingHasACall, NEW j \in Jobs, Answer(j)
  PROVE  IInv' /\ AnalyzingHasACall'
  <1> DEFINE id == job[j].id
  <1>0. Busy(j)
    BY DEF Answer, AttemptSucceeds, AttemptRetried, AttemptFails
  <1>1. CASE AttemptSucceeds(j)
    <2>1. CASE id \in DOMAIN proposals
      BY <1>0, <1>1, <2>1, OutcomeTypes, EndKeeps DEF AttemptSucceeds
    <2>2. CASE id \notin DOMAIN proposals
      <3>1. proposals' = proposals
        BY <1>1, <2>2 DEF AttemptSucceeds, Stored
      <3> DEFINE q == [status |-> "Analyzed"]
      <3>2. q.status # "Analyzing" /\ proposals' = Stored(id, q)
        BY <2>2, <3>1 DEF Stored
      <3> HIDE DEF q
      <3> QED BY <1>0, <1>1, <2>2, <3>2, EndKeeps DEF AttemptSucceeds
    <2> QED BY <2>1, <2>2
  <1>2. CASE AttemptFails(j)
    <2>1. CASE id \in DOMAIN proposals
      BY <1>0, <1>2, <2>1, OutcomeTypes, EndKeeps DEF AttemptFails
    <2>2. CASE id \notin DOMAIN proposals
      <3>1. proposals' = proposals
        BY <1>2, <2>2 DEF AttemptFails, Stored
      <3> DEFINE q == [status |-> "Failed"]
      <3>2. q.status # "Analyzing" /\ proposals' = Stored(id, q)
        BY <2>2, <3>1 DEF Stored
      <3> HIDE DEF q
      <3> QED BY <1>0, <1>2, <2>2, <3>2, EndKeeps DEF AttemptFails
    <2> QED BY <2>1, <2>2
  <1>3. CASE AttemptRetried(j)
    <2> DEFINE r == [job[j] EXCEPT !.attempt = job[j].attempt + 1]
    <2>1. job[j] \in Outcall /\ job[j].attempt < MaxRetries
      BY <1>0, <1>3, OutcomeTypes DEF AttemptRetried
    <2>2. r \in Outcall /\ r.id = job[j].id
      <3>1. job[j].attempt \in 1 .. MaxRetries
        BY <2>1 DEF Outcall
      <3>2. job[j].attempt + 1 \in 1 .. MaxRetries
        BY <2>1, <3>1, AnalyzerAssumption
      <3> QED BY <2>1, <3>2 DEF Outcall
    <2>3. job' = [job EXCEPT ![j] = r]
      BY <1>3 DEF AttemptRetried, NextAttempt
    <2> HIDE DEF r
    <2> QED BY <1>0, <1>3, <2>2, <2>3, OnwardKeeps DEF AttemptRetried
  <1> QED BY <1>1, <1>2, <1>3 DEF Answer

LEMMA UpgradeKeeps ==
  ASSUME Upgrade
  PROVE  IInv' /\ AnalyzingHasACall'
  <1>1. DOMAIN proposals' = {} /\ counter' = 0 /\ job' \in [Jobs -> {Idle}]
    BY DEF Upgrade, AfterUpgrade
  <1> QED BY <1>1, FS_EmptySet, AnalyzerAssumption DEF IInv, TypeOK, AnalyzingHasACall

LEMMA NextKeeps == IInv /\ AnalyzingHasACall /\ [Next]_vars => IInv' /\ AnalyzingHasACall'
  <1> SUFFICES ASSUME IInv, AnalyzingHasACall, [Next]_vars
               PROVE  IInv' /\ AnalyzingHasACall'
    OBVIOUS
  <1>1. CASE Next
    BY <1>1, ServeKeeps, AnswerKeeps, UpgradeKeeps DEF Next
  <1>2. CASE UNCHANGED vars
    BY <1>2 DEF vars, IInv, TypeOK, AnalyzingHasACall, Busy
  <1> QED BY <1>1, <1>2

LEMMA Inductive == Spec => [](IInv /\ AnalyzingHasACall)
  BY InitInvariant, NextKeeps, PTL DEF Spec

(* Types, and no more proposals stored than PROPOSAL_COUNTER counts.        *)
THEOREM TypeCorrect == Spec => []TypeOK
  BY Inductive, PTL DEF IInv

(* No proposal is left Analyzing without a call under way that will end it, *)
(* however the calls of analyze_proposal overlap.                           *)
THEOREM NoneLeftAnalyzing == Spec => []AnalyzingHasACall
  BY Inductive, PTL

-----------------------------------------------------------------------------
(* A stored id that no caller picks was generated by the counter.           *)
NumbersArePassed == \A id \in DOMAIN proposals \ Chosen : id \in Nat /\ id <= counter

LEMMA NumbersStep ==
  ASSUME IInv, NumbersArePassed, [Next]_vars
  PROVE  NumbersArePassed'
  <1> USE DEF NumbersArePassed
  <1>0. counter \in Nat
    BY FS_CardinalityType, AnalyzerAssumption DEF IInv, TypeOK
  <1>1. ASSUME NEW j \in Jobs, NEW text \in Texts, SubmitGenerated(j, text)
        PROVE  NumbersArePassed'
    BY <1>0, <1>1 DEF SubmitGenerated, Store, Put, GeneratedId
  <1>2. ASSUME NEW j \in Jobs, NEW id \in Chosen, NEW text \in Texts, SubmitChosen(j, id, text)
        PROVE  NumbersArePassed'
    BY <1>0, <1>2 DEF SubmitChosen, Store, Put
  <1>3. ASSUME NEW j \in Jobs, NEW id \in Ids, Analyze(j, id)
        PROVE  NumbersArePassed'
    BY <1>3 DEF Analyze, Put
  <1>4. ASSUME NEW j \in Jobs, Answer(j)
        PROVE  NumbersArePassed'
    BY <1>4 DEF Answer, AttemptSucceeds, AttemptRetried, AttemptFails, Stored, Put
  <1>6. CASE Upgrade
    BY <1>6 DEF Upgrade, AfterUpgrade
  <1>7. CASE UNCHANGED vars
    BY <1>7 DEF vars
  <1> QED BY <1>1, <1>2, <1>3, <1>4, <1>6, <1>7 DEF Next, Serve

(* A generated id replaces no proposal but one whose id a caller picked     *)
(* (lib.rs:310).                                                            *)
THEOREM GeneratedNew == Spec => GeneratedIdsAreNew
  <1>1. Init => NumbersArePassed
    BY DEF Init, NumbersArePassed
  <1>2. IInv /\ NumbersArePassed /\ [Next]_vars => NumbersArePassed'
    BY NumbersStep
  <1>3. IInv /\ NumbersArePassed =>
          [\A j \in Jobs, text \in Texts :
             SubmitGenerated(j, text) => GeneratedId \notin DOMAIN proposals \ Chosen]_vars
    <2>1. IInv => counter \in Nat
      BY FS_CardinalityType, AnalyzerAssumption DEF IInv, TypeOK
    <2> QED BY <2>1 DEF NumbersArePassed, GeneratedId
  <1> QED BY <1>1, <1>2, <1>3, Inductive, PTL DEF Spec, GeneratedIdsAreNew

-----------------------------------------------------------------------------
(* A call under way still finds the text it read, under an id that only the *)
(* counter gives.                                                           *)
TextsStay ==
  \A j \in Jobs : Busy(j) /\ job[j].id \notin Chosen =>
    job[j].id \in DOMAIN proposals /\ proposals[job[j].id].text = job[j].text

TextInv == NumbersArePassed /\ TextsStay /\ AnalysisIsOfTheText

LEMMA TextStep ==
  ASSUME IInv, IInv', NumbersArePassed, TextsStay, AnalysisIsOfTheText, [Next]_vars
  PROVE  TextsStay' /\ AnalysisIsOfTheText'
  <1> USE DEF TextsStay, AnalysisIsOfTheText
  <1>0. counter \in Nat
    BY FS_CardinalityType, AnalyzerAssumption DEF IInv, TypeOK
  <1>1. ASSUME NEW j \in Jobs, NEW text \in Texts, SubmitGenerated(j, text)
        PROVE  TextsStay' /\ AnalysisIsOfTheText'
    <2>1. GeneratedId \notin DOMAIN proposals \ Chosen
      BY <1>0 DEF NumbersArePassed, GeneratedId
    <2>2. \A k \in Jobs : k # j => job'[k] = job[k]
      BY <1>1 DEF SubmitGenerated, Store, Await, IInv, TypeOK
    <2>3. job'[j].id = GeneratedId /\ job'[j].text = text
      BY <1>1 DEF SubmitGenerated, Store, Await, IInv, TypeOK
    <2> DEFINE p == [text |-> text, status |-> "Analyzing", analysis |-> NoAnalysis]
    <2>4. proposals' = Put(proposals, GeneratedId, p)
      BY <1>1 DEF SubmitGenerated, Store
    <2>5. p.text = text /\ p.status = "Analyzing" /\ p.analysis = NoAnalysis
      OBVIOUS
    <2> HIDE DEF p
    <2> QED BY <2>1, <2>2, <2>3, <2>4, <2>5 DEF Put, Busy
  <1>2. ASSUME NEW j \in Jobs, NEW id \in Ids, Analyze(j, id)
        PROVE  TextsStay' /\ AnalysisIsOfTheText'
    <2>1. \A k \in Jobs : k # j => job'[k] = job[k]
      BY <1>2 DEF Analyze, Await, IInv, TypeOK
    <2>2. job'[j].id = id /\ job'[j].text = proposals[id].text
      BY <1>2 DEF Analyze, Await, IInv, TypeOK
    <2> DEFINE p == [proposals[id] EXCEPT !.status = "Analyzing"]
    <2>3. proposals' = Put(proposals, id, p) /\ id \in DOMAIN proposals
      BY <1>2 DEF Analyze
    <2>4. proposals[id] \in Proposal
      BY <2>3 DEF IInv, TypeOK
    <2>5. /\ p.text = proposals[id].text /\ p.analysis = proposals[id].analysis
          /\ p.status = "Analyzing"
      BY <2>4 DEF Proposal
    <2> HIDE DEF p
    <2> QED BY <2>1, <2>2, <2>3, <2>5 DEF Put, Busy
  <1>3. ASSUME NEW j \in Jobs, NEW id \in Chosen, NEW text \in Texts, SubmitChosen(j, id, text)
        PROVE  TextsStay' /\ AnalysisIsOfTheText'
    <2>1. \A k \in Jobs : k # j => job'[k] = job[k]
      BY <1>3 DEF SubmitChosen, Store, Await, IInv, TypeOK
    <2>2. job'[j].id = id
      BY <1>3 DEF SubmitChosen, Store, Await, IInv, TypeOK
    <2>3. PICK p : proposals' = Put(proposals, id, p)
      BY <1>3 DEF SubmitChosen, Store
    <2> QED BY <2>1, <2>2, <2>3 DEF Put, Busy
  <1>4. ASSUME NEW j \in Jobs, Busy(j), NEW p,
               job[j].id \notin Chosen =>
                 /\ p.text = proposals[job[j].id].text
                 /\ p.analysis \in {NoAnalysis, p.text}
                 /\ p.status = "Analyzed" => p.analysis # NoAnalysis,
               proposals' = Stored(job[j].id, p), job' = [job EXCEPT ![j] = Idle]
        PROVE  TextsStay' /\ AnalysisIsOfTheText'
    BY <1>4 DEF Stored, Put, Busy, IInv, TypeOK
  <1>5. ASSUME NEW j \in Jobs, AttemptSucceeds(j) \/ AttemptFails(j)
        PROVE  TextsStay' /\ AnalysisIsOfTheText'
    <2> DEFINE old == proposals[job[j].id]
    <2>1. Busy(j) /\ job' = [job EXCEPT ![j] = Idle]
      BY <1>5 DEF AttemptSucceeds, AttemptFails
    <2>2. ASSUME job[j].id \notin Chosen
          PROVE  /\ job[j].text = old.text /\ old \in Proposal
                 /\ job[j].text # NoAnalysis /\ old.analysis \in {NoAnalysis, old.text}
      <3>1. job[j].id \in DOMAIN proposals \ Chosen /\ job[j].text = old.text
        BY <2>1, <2>2
      <3>2. old \in Proposal
        BY <3>1 DEF IInv, TypeOK
      <3> QED BY <3>1, <3>2, AnalyzerAssumption DEF Proposal
    <2>3. CASE AttemptSucceeds(j)
      <3> DEFINE p == Analyzed(old, job[j].text)
      <3>1. proposals' = Stored(job[j].id, p)
        BY <2>3 DEF AttemptSucceeds
      <3>2. job[j].id \notin Chosen =>
              p.text = old.text /\ p.analysis = job[j].text /\ p.status = "Analyzed"
        BY <2>2 DEF Analyzed, Proposal
      <3> HIDE DEF p
      <3> QED BY <2>1, <2>2, <3>1, <3>2, <1>4
    <2>4. CASE AttemptFails(j)
      <3> DEFINE p == Failed(old)
      <3>1. proposals' = Stored(job[j].id, p)
        BY <2>4 DEF AttemptFails
      <3>2. job[j].id \notin Chosen =>
              p.text = old.text /\ p.analysis = old.analysis /\ p.status = "Failed"
        BY <2>2 DEF Failed, Proposal
      <3> HIDE DEF p
      <3> QED BY <2>1, <2>2, <3>1, <3>2, <1>4
    <2> QED BY <1>5, <2>3, <2>4
  <1>6. ASSUME NEW j \in Jobs, AttemptRetried(j)
        PROVE  TextsStay' /\ AnalysisIsOfTheText'
    <2>1. Busy(j) /\ proposals' = proposals
      BY <1>6 DEF AttemptRetried
    <2>2. job[j] \in Outcall
      BY <2>1, BusyCall DEF IInv
    <2>3. job'[j].id = job[j].id /\ job'[j].text = job[j].text
      BY <1>6, <2>2 DEF AttemptRetried, Outcall, IInv, TypeOK
    <2>4. \A k \in Jobs : k # j => job'[k] = job[k]
      BY <1>6 DEF AttemptRetried, IInv, TypeOK
    <2> QED BY <2>1, <2>3, <2>4 DEF Busy
  <1>7. CASE Upgrade
    BY <1>7 DEF Upgrade, AfterUpgrade, Busy
  <1>8. CASE UNCHANGED vars
    BY <1>8 DEF vars, Busy
  <1> QED BY <1>1, <1>2, <1>3, <1>5, <1>6, <1>7, <1>8 DEF Next, Serve, Answer

(* Under an id that only the counter gives, a stored analysis was made from *)
(* the title and description stored with it, although analyze_proposal      *)
(* reads the text before its await and looks the proposal up again after.   *)
THEOREM AnalysesAreOfTheirTexts == Spec => []AnalysisIsOfTheText
  <1>1. Init => TextInv
    BY DEF Init, TextInv, NumbersArePassed, TextsStay, AnalysisIsOfTheText, Busy
  <1>2. IInv /\ AnalyzingHasACall /\ TextInv /\ [Next]_vars => TextInv'
    BY NumbersStep, TextStep, NextKeeps DEF TextInv
  <1> QED BY <1>1, <1>2, Inductive, PTL DEF Spec, TextInv

-----------------------------------------------------------------------------
(* The screens.  The analyzer has what they know it to have, since it never *)
(* drops a proposal; and on the SNS page what is under way or analyzed last *)
(* is the selected proposal's, until another is selected during a handler.  *)
KnownIsThere ==
  /\ \A p \in Proposals : exists[p] \in P!Statuses => canister[p] # P!Absent
  /\ analyzedId # P!Nothing => canister[analyzedId] # P!Absent

OfSelected ==
  screen = "sns_page" /\ ~switched /\ selected # P!Nothing =>
    /\ analyzedId \in {P!Nothing, selected}
    /\ \A c \in P!Calls : P!Busy(c) => call[c].proposal = selected

PanelInv == P!TypeOK /\ P!OneHandler /\ KnownIsThere /\ OfSelected

USE AnalysisAssumption DEF P!PanelAssumption

LEMMA PanelTypes ==
  ASSUME PanelInv
  PROVE  /\ screen \in {"sns_page", "dao_tab"} /\ switched \in BOOLEAN
         /\ selected \in Proposals \cup {P!Nothing} /\ analyzedId \in Proposals \cup {P!Nothing}
         /\ exists \in [Proposals -> P!Statuses \cup {P!Unread, P!Absent}]
         /\ fetched \in [Proposals -> P!Statuses \cup {P!Unread}]
         /\ call \in [P!Calls -> P!CallStates]
         /\ canister \in [Proposals -> P!Statuses \cup {P!Absent}]
  BY DEF PanelInv, P!TypeOK

LEMMA BusyHandler ==
  ASSUME PanelInv, NEW c \in P!Calls, P!Busy(c)
  PROVE  call[c] \in [kind : {"submit", "analyze"}, proposal : Proposals]
  BY PanelTypes DEF P!Busy, P!CallStates

(* A button starts a handler when none is under way: the spinner would hide *)
(* it.                                                                      *)
LEMMA ButtonsAreHidden ==
  ASSUME PanelInv, P!View \in {"analyze", "failed", "results"}
  PROVE  /\ selected \in Proposals /\ \A c \in P!Calls : ~P!Busy(c)
         /\ P!View \in {"failed", "results"} => P!Status \in {"Failed", "Analyzed"}
  <1>1. selected # P!Nothing
    BY DEF P!View
  <1>2. ~P!IsAnalyzing
    BY <1>1 DEF P!View
  <1>3. P!UnderWay = {}
    BY <1>2 DEF P!IsAnalyzing, P!Pending
  <1>4. P!View \in {"failed", "results"} => P!Status \in {"Failed", "Analyzed"}
    BY <1>1, <1>2 DEF P!View
  <1> QED BY <1>1, <1>3, <1>4, PanelTypes DEF P!UnderWay

(* The proposal that is read is in the analyzer.                            *)
LEMMA KeyIsThere ==
  ASSUME PanelInv, P!Key # P!Nothing
  PROVE  P!Key \in Proposals /\ canister[P!Key] \in P!Statuses
  <1>1. CASE P!Existing
    <2>1. P!Key = selected /\ selected \in Proposals /\ exists[selected] \in P!Statuses
      BY <1>1, PanelTypes DEF P!Key, P!Existing
    <2>2. canister[selected] # P!Absent
      BY <2>1 DEF PanelInv, KnownIsThere
    <2> QED BY <2>1, <2>2, PanelTypes
  <1>2. CASE ~P!Existing
    <2>1. P!Key = analyzedId /\ analyzedId \in Proposals
      BY <1>2, PanelTypes DEF P!Key
    <2>2. canister[analyzedId] # P!Absent
      BY <2>1 DEF PanelInv, KnownIsThere
    <2> QED BY <2>1, <2>2, PanelTypes
  <1> QED BY <1>1, <1>2

LEMMA PanelBegins == P!Init => PanelInv
  <1> SUFFICES ASSUME P!Init PROVE PanelInv
    OBVIOUS
  <1>1. \A c \in P!Calls : ~P!Busy(c)
    BY DEF P!Init, P!Busy
  <1>2. P!TypeOK
    BY DEF P!Init, P!TypeOK, P!CallStates
  <1>3. KnownIsThere
    BY DEF P!Init, KnownIsThere, P!Statuses, P!Unread
  <1> QED BY <1>1, <1>2, <1>3
      DEF P!Init, PanelInv, OfSelected, P!OneHandler, P!UnderWay

(* The queries, and other users: nothing leaves the analyzer.               *)
LEMMA NoneLeaves ==
  ASSUME PanelInv, canister' \in [Proposals -> P!Statuses \cup {P!Absent}],
         \A p \in Proposals : canister[p] # P!Absent => canister'[p] # P!Absent,
         exists' \in [Proposals -> P!Statuses \cup {P!Unread, P!Absent}],
         \A p \in Proposals :
           exists'[p] \in P!Statuses => exists[p] \in P!Statuses \/ canister[p] # P!Absent,
         fetched' \in [Proposals -> P!Statuses \cup {P!Unread}],
         UNCHANGED <<screen, selected, analyzedId, call, switched>>
  PROVE  PanelInv'
  <1>1. KnownIsThere'
    BY PanelTypes DEF PanelInv, KnownIsThere
  <1>2. P!TypeOK' /\ P!OneHandler' /\ OfSelected'
    BY PanelTypes DEF PanelInv, P!TypeOK, P!OneHandler, P!UnderWay, P!Busy, OfSelected
  <1> QED BY <1>1, <1>2 DEF PanelInv

LEMMA QueriesStep ==
  ASSUME PanelInv, NEW p \in Proposals,
         \/ P!FetchExists(p) \/ P!FetchProposal(p) \/ P!FetchFails(p)
         \/ P!OthersSubmit(p) \/ P!OthersEnd(p)
  PROVE  PanelInv'
  <1>1. CASE P!FetchExists(p)
    <2>1. PICK answer \in {canister[p], P!Absent} : exists' = [exists EXCEPT ![p] = answer]
      BY <1>1 DEF P!FetchExists
    <2>2. /\ exists' \in [Proposals -> P!Statuses \cup {P!Unread, P!Absent}]
          /\ exists'[p] = answer /\ \A q \in Proposals \ {p} : exists'[q] = exists[q]
      BY <2>1, PanelTypes
    <2>3. answer \in P!Statuses => canister[p] # P!Absent
      BY DEF P!Statuses, P!Absent
    <2> QED BY <1>1, <2>2, <2>3, PanelTypes, NoneLeaves DEF P!FetchExists
  <1>2. CASE P!FetchProposal(p) \/ P!FetchFails(p)
    <2>1. PICK answer \in P!Statuses \cup {P!Unread} : fetched' = [fetched EXCEPT ![p] = answer]
      <3>1. CASE P!FetchProposal(p)
        <4>1. P!Key = p /\ fetched' = [fetched EXCEPT ![p] = canister[p]]
          BY <3>1 DEF P!FetchProposal, P!Fetched, P!Wanted
        <4>2. canister[p] \in P!Statuses
          BY <4>1, KeyIsThere
        <4> QED BY <4>1, <4>2
      <3>2. CASE P!FetchFails(p)
        BY <3>2 DEF P!FetchFails, P!Fetched
      <3> QED BY <1>2, <3>1, <3>2
    <2>2. fetched' \in [Proposals -> P!Statuses \cup {P!Unread}]
      BY <2>1, PanelTypes
    <2> QED BY <1>2, <2>2, PanelTypes, NoneLeaves DEF P!FetchProposal, P!FetchFails, P!Fetched
  <1>3. CASE P!OthersSubmit(p) \/ P!OthersEnd(p)
    <2>1. PICK s \in P!Statuses : canister' = [canister EXCEPT ![p] = s]
      BY <1>3 DEF P!OthersSubmit, P!OthersEnd, P!Statuses
    <2>2. /\ canister' \in [Proposals -> P!Statuses \cup {P!Absent}]
          /\ \A q \in Proposals : canister[q] # P!Absent => canister'[q] # P!Absent
      BY <2>1, PanelTypes DEF P!Statuses, P!Absent
    <2> QED BY <1>3, <2>2, PanelTypes, NoneLeaves DEF P!OthersSubmit, P!OthersEnd
  <1> QED BY <1>1, <1>2, <1>3

(* What is selected.                                                        *)
LEMMA SelectionStep ==
  ASSUME PanelInv, P!ClosePanel \/ \E p \in Proposals : P!Select(p)
  PROVE  PanelInv'
  <1>1. UNCHANGED <<screen, exists, fetched, call, canister>>
    BY DEF P!ClosePanel, P!Select
  <1>2. /\ selected' \in Proposals \cup {P!Nothing} /\ analyzedId' \in {analyzedId, P!Nothing}
        /\ switched' \in BOOLEAN
    BY PanelTypes DEF P!ClosePanel, P!Select, P!IdAfterSelect
  <1>3. P!TypeOK' /\ P!OneHandler'
    BY <1>1, <1>2, PanelTypes DEF PanelInv, P!TypeOK, P!OneHandler, P!UnderWay, P!Busy
  <1>4. KnownIsThere'
    BY <1>1, <1>2, PanelTypes DEF PanelInv, KnownIsThere
  <1>5. OfSelected'
    <2>1. CASE P!ClosePanel
      BY <2>1 DEF P!ClosePanel, OfSelected
    <2>2. CASE \E p \in Proposals : P!Select(p)
      <3> SUFFICES ASSUME screen' = "sns_page", ~switched' PROVE OfSelected'
        BY DEF OfSelected
      <3>1. analyzedId' = P!Nothing /\ P!UnderWay = {}
        BY <1>1, <2>2 DEF P!Select, P!IdAfterSelect
      <3>2. \A c \in P!Calls : ~P!Busy(c)'
        BY <1>1, <3>1 DEF P!UnderWay, P!Busy
      <3> QED BY <3>1, <3>2 DEF OfSelected
    <2> QED BY <2>1, <2>2
  <1> QED BY <1>3, <1>4, <1>5 DEF PanelInv

(* A handler of the selected proposal starts, being the only one.           *)
LEMMA HandlerStarts ==
  ASSUME PanelInv, NEW c \in P!Calls, P!HandleAnalyze(c) \/ P!HandleRetry(c)
  PROVE  PanelInv'
  <1>1. UNCHANGED <<screen, selected, exists, fetched, canister, switched>>
    BY DEF P!HandleAnalyze, P!HandleRetry
  <1>2. selected \in Proposals /\ \A d \in P!Calls : ~P!Busy(d)
    BY ButtonsAreHidden DEF P!HandleAnalyze, P!HandleRetry
  <1>3. analyzedId' \in {analyzedId, P!Nothing}
    BY DEF P!HandleAnalyze, P!HandleRetry
  <1>4. PICK x \in [kind : {"submit", "analyze"}, proposal : Proposals] :
          /\ call' = [call EXCEPT ![c] = x]
          /\ screen = "sns_page" /\ ~switched => x.proposal = selected
    <2>1. CASE P!HandleAnalyze(c)
      <3>1. PICK x : x = [kind |-> "submit", proposal |-> selected]
        OBVIOUS
      <3>2. call' = [call EXCEPT ![c] = x]
        BY <2>1, <3>1 DEF P!HandleAnalyze, P!Send
      <3>3. x \in [kind : {"submit", "analyze"}, proposal : Proposals] /\ x.proposal = selected
        BY <1>2, <3>1
      <3> QED BY <3>2, <3>3
    <2>2. CASE P!HandleRetry(c)
      <3>1. PICK k : k = P!Key
        OBVIOUS
      <3>2. PICK x : x = [kind |-> "analyze", proposal |-> k]
        OBVIOUS
      <3>3. call' = [call EXCEPT ![c] = x]
        BY <2>2, <3>1, <3>2 DEF P!HandleRetry, P!Send
      <3>4. k \in Proposals
        BY <2>2, <3>1, KeyIsThere DEF P!HandleRetry, P!Loaded
      <3>5. screen = "sns_page" /\ ~switched => k = selected
        BY <1>2, <3>1, <3>4 DEF PanelInv, OfSelected, P!Key
      <3>6. x \in [kind : {"submit", "analyze"}, proposal : Proposals] /\ x.proposal = k
        BY <3>2, <3>4
      <3> QED BY <3>3, <3>5, <3>6
    <2> QED BY <2>1, <2>2
  <1>5. /\ call' \in [P!Calls -> P!CallStates] /\ call'[c] = x
        /\ \A d \in P!Calls \ {c} : ~P!Busy(d)'
    BY <1>2, <1>4, PanelTypes DEF P!CallStates, P!Busy
  <1>6. P!TypeOK' /\ P!OneHandler'
    BY <1>1, <1>3, <1>5, PanelTypes DEF P!TypeOK, P!OneHandler, P!UnderWay
  <1>7. KnownIsThere'
    BY <1>1, <1>3 DEF PanelInv, KnownIsThere
  <1>8. OfSelected'
    BY <1>1, <1>2, <1>3, <1>4, <1>5 DEF PanelInv, OfSelected
  <1> QED BY <1>6, <1>7, <1>8 DEF PanelInv

(* The analyzer works on what was asked, and answers.                       *)
LEMMA HandlerMoves ==
  ASSUME PanelInv, NEW c \in P!Calls, P!Runs(c) \/ P!Answered(c)
  PROVE  PanelInv'
  <1>1. P!Busy(c) /\ UNCHANGED <<screen, selected, exists, fetched, switched>>
    BY DEF P!Runs, P!Answered, P!Submitted, P!HandlerEnds, P!Rejected, P!Ends
  <1>2. call[c] \in [kind : {"submit", "analyze"}, proposal : Proposals]
    BY <1>1, BusyHandler
  <1>3. PICK p \in Proposals : p = call[c].proposal
    BY <1>2
  <1>4. /\ canister' \in [Proposals -> P!Statuses \cup {P!Absent}]
        /\ \A q \in Proposals : canister[q] # P!Absent => canister'[q] # P!Absent
        /\ P!Submitted(c) => canister'[p] # P!Absent
    <2>1. CASE P!Runs(c) \/ P!Submitted(c) \/ P!HandlerEnds(c)
      <3>1. PICK s \in P!Statuses : canister' = [canister EXCEPT ![p] = s]
        BY <1>3, <2>1 DEF P!Runs, P!Submitted, P!HandlerEnds, P!Ends, P!Statuses
      <3> QED BY <3>1, PanelTypes DEF P!Statuses, P!Absent
    <2>2. CASE P!Rejected(c)
      <3>1. canister' = canister
        BY <2>2 DEF P!Rejected
      <3>2. ~P!Submitted(c)
        <4>1. ASSUME P!Submitted(c) PROVE FALSE
          <5>1. PICK x : x = [kind |-> "analyze", proposal |-> p]
            OBVIOUS
          <5>2. call' = [call EXCEPT ![c] = x]
            BY <1>3, <4>1, <5>1 DEF P!Submitted, P!Send
          <5>3. call'[c] = x /\ call'[c] = P!Idle
            BY <2>2, <5>2, PanelTypes DEF P!Rejected
          <5>4. x # P!Idle
            BY <5>1 DEF P!Idle
          <5> QED BY <5>3, <5>4
        <4> QED BY <4>1
      <3> QED BY <3>1, <3>2, PanelTypes
    <2> QED BY <2>1, <2>2 DEF P!Answered
  <1>5. analyzedId' \in {analyzedId, p} /\ (analyzedId' = analyzedId \/ P!Submitted(c))
    BY <1>3 DEF P!Runs, P!Answered, P!Submitted, P!HandlerEnds, P!Rejected
  <1>6. PICK x \in P!CallStates :
          /\ call' = [call EXCEPT ![c] = x]
          /\ x # P!Idle => x.proposal = p
    <2>1. CASE P!Submitted(c)
      <3>1. PICK x : x = [kind |-> "analyze", proposal |-> p]
        OBVIOUS
      <3>2. call' = [call EXCEPT ![c] = x] /\ x \in P!CallStates /\ x.proposal = p
        BY <1>3, <2>1, <3>1 DEF P!Submitted, P!Send, P!CallStates
      <3> QED BY <3>2
    <2>2. CASE P!HandlerEnds(c) \/ P!Rejected(c)
      BY <2>2 DEF P!HandlerEnds, P!Rejected, P!CallStates
    <2>3. CASE P!Runs(c)
      <3>1. call' = [call EXCEPT ![c] = call[c]] /\ call[c] \in P!CallStates
        BY <2>3, PanelTypes DEF P!Runs
      <3> QED BY <1>3, <3>1
    <2> QED BY <2>1, <2>2, <2>3 DEF P!Answered
  <1>7. /\ call' \in [P!Calls -> P!CallStates] /\ call'[c] = x
        /\ \A d \in P!Calls \ {c} : call'[d] = call[d]
    BY <1>6, PanelTypes
  <1>8. \A d \in P!Calls \ {c} : ~P!Busy(d)'
    BY <1>1, <1>7 DEF PanelInv, P!OneHandler, P!UnderWay, P!Busy
  <1>9. P!TypeOK' /\ P!OneHandler'
    BY <1>1, <1>4, <1>5, <1>7, <1>8, PanelTypes DEF P!TypeOK, P!OneHandler, P!UnderWay
  <1>10. KnownIsThere'
    BY <1>1, <1>4, <1>5, PanelTypes DEF PanelInv, KnownIsThere
  <1>11. OfSelected'
    <2>1. OfSelected /\ P!Busy(c)
      BY <1>1 DEF PanelInv
    <2>2. P!Busy(c)' => call'[c].proposal = p
      BY <1>6, <1>7 DEF P!Busy
    <2> QED BY <1>1, <1>3, <1>5, <1>8, <2>1, <2>2 DEF OfSelected
  <1> QED BY <1>9, <1>10, <1>11 DEF PanelInv

LEMMA PanelStep == PanelInv /\ [P!Next]_(P!vars) => PanelInv'
  <1>1. PanelInv /\ P!Next => PanelInv'
    BY QueriesStep, SelectionStep, HandlerStarts, HandlerMoves DEF P!Next, P!User
  <1>2. PanelInv /\ UNCHANGED P!vars => PanelInv'
    BY PanelTypes, NoneLeaves DEF P!vars
  <1> QED BY <1>1, <1>2

LEMMA PanelInductive == MCSpec => []PanelInv
  <1>1. MCInit => PanelInv
    BY PanelBegins DEF MCInit
  <1>2. PanelInv /\ [MCNext]_MCVars => PanelInv'
    <2>1. [MCNext]_MCVars => [P!Next]_(P!vars)
      BY DEF MCNext, MCVars, panelVars, P!vars
    <2> QED BY <2>1, PanelStep
  <1> QED BY <1>1, <1>2, PTL DEF MCSpec

(* The state of both screens has its types, and one handler of a screen is  *)
(* under way at a time although no button is ever disabled by one           *)
(* (ProposalListPage.jsx, ProposalAnalysisPanel.jsx): the spinner hides     *)
(* them, whatever is selected meanwhile.                                    *)
THEOREM OneHandlerAtATime == MCSpec => []OneHandler
  <1>1. PanelInv => OneHandler
    BY DEF PanelInv, OneHandler
  <1> QED BY <1>1, PanelInductive, PTL

(* On the SNS page a failure and results that are shown are the selected    *)
(* proposal's, unless another was selected while a handler was under way    *)
(* (handleProposalSelect resets analyzedProposalId).                        *)
THEOREM ResultsAreOfSelected == MCSpec => []ShownIsOfSelectedOnSnsPage
  <1>1. ASSUME PanelInv PROVE ShownIsOfSelectedOnSnsPage
    <2> SUFFICES ASSUME screen = "sns_page", ~switched, P!View \in {"failed", "results"}
                 PROVE  P!Key = selected
      BY DEF ShownIsOfSelectedOnSnsPage, P!ShownIsOfSelectedOnSnsPage, P!ShownIsOfSelected
    <2>1. selected \in Proposals /\ P!Status \in {"Failed", "Analyzed"}
      BY <1>1, ButtonsAreHidden
    <2>2. CASE P!Existing
      BY <2>2 DEF P!Key
    <2>3. CASE ~P!Existing
      <3>1. P!Loaded
        BY <2>1, <2>3 DEF P!Status, P!Nothing
      <3>2. P!Key = analyzedId /\ analyzedId # P!Nothing
        BY <2>3, <3>1 DEF P!Key, P!Loaded
      <3> QED BY <1>1, <2>1, <3>2 DEF PanelInv, OfSelected
    <2> QED BY <2>2, <2>3
  <1> QED BY <1>1, PanelInductive, PTL
=============================================================================
