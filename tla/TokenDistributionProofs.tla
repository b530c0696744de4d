------------------------ MODULE TokenDistributionProofs ------------------------
(***************************************************************************)
(* Proofs about TokenDistribution, for any number of tokens, holders,      *)
(* unlock items and upgrades.                                              *)
(*                                                                         *)
(* None of the properties is inductive: what was paid is in `sent`, what   *)
(* the canister knows of it in `model` and in the run that awaits a ledger.*)
(* The invariant says what a run has still ahead, that a run only pays     *)
(* what its model does not mark yet (the batch of a run is the next batch  *)
(* of the model until it is through), and counts what was paid by what is  *)
(* marked or behind.                                                       *)
(***************************************************************************)
EXTENDS MCTokenDistribution, TLAPS, WellFoundedInduction

(* A token that has a timer, a run, an emission or a payment was created.   *)
CreatedFirst(t) ==
  /\ created[t] <= now
  /\ t = base \/ timer[t] # "none" \/ Busy(t) => created[t] # Never
  /\ model[t].emitted # Never =>
       created[t] # Never /\ created[t] <= model[t].emitted /\ model[t].emitted <= now
  /\ \A p \in Payments : sent[t][p] > 0 => created[t] # Never

(* A run pays the next batch of its model, as of the time it began at.      *)
RunOK(t) ==
  Busy(t) =>
    /\ created[t] <= task[t].at /\ task[t].at <= now
    /\ task[t].paying \in Batch(t)
    /\ task[t].left \subseteq Batch(t) \ {task[t].paying}

(* What neither the model marks nor the run has behind was not paid since   *)
(* the timer's last start.                                                  *)
OnceOK(t) ==
  \A p \in Payments : p[1] # "Emission" =>
    /\ sent[t][p] <= 1 + upgrades
    /\ ~Marked(t, p) /\ ~Behind(t, p) => sent[t][p] <= upgrades

(* Emissions: one for every period started up to `until`.                   *)
Periods(t, until) == IF until = Never THEN 0 ELSE 1 + (until - created[t]) \div Period

PacedOK(t) ==
  created[t] # Never =>
    \A a \in Addrs :
      sent[t][<<"Emission", a>>]
        <= upgrades * Periods(t, now) + Periods(t, LastEmission(t, <<"Emission", a>>))

NotEarly(t) ==
  \A u \in Unlocks : sent[t][<<"Scheduled", u>>] > 0 => UnlockTimes[u] <= now

(* What is recorded, or about to be.                                        *)
Due(t, p, reply) == IF task[t].paying = p /\ task[t].reply = reply THEN 1 ELSE 0
RecordsOK(t) ==
  \A p \in Payments :
    /\ history[t][p].success + Due(t, p, "success") <= sent[t][p]
    /\ upgrades = 0 =>
         sent[t][p] <= history[t][p].success + history[t][p].error
                       + Due(t, p, "success") + Due(t, p, "error")

(* The initial allocation comes first, also within the run that pays it.    *)
InitialOK(t) ==
  /\ \A p, q \in Payments : p[1] # "Initial" /\ q[1] = "Initial" /\ Tried(t, p) => Tried(t, q)
  /\ \A q \in Payments : q[1] = "Initial" =>
       (model[t].initial \/ (Behind(t, q) /\ q # task[t].paying) => Tried(t, q))

TokenOK(t) ==
  /\ CreatedFirst(t) /\ RunOK(t) /\ OnceOK(t) /\ PacedOK(t)
  /\ NotEarly(t) /\ RecordsOK(t) /\ InitialOK(t)

(* The inductive invariant.                                                 *)
IInv == TypeOK /\ \A t \in Tokens : TokenOK(t)
-----------------------------------------------------------------------------
(* Whole periods.                                                           *)
LEMMA WholePeriods ==
  ASSUME NEW x \in Nat, NEW P \in Nat \ {0}
  PROVE  x \div P \in Nat /\ P * (x \div P) <= x /\ x < P * (x \div P) + P
  OBVIOUS

LEMMA ProductsGrow ==
  ASSUME NEW a \in Nat, NEW b \in Nat, NEW c \in Nat, a <= b
  PROVE  c * a <= c * b /\ c * a \in Nat /\ c * b \in Nat
  OBVIOUS

(* A period later there is one period more, and never one less.             *)
LEMMA OnePeriodMore ==
  ASSUME NEW x \in Nat, NEW y \in Nat, NEW P \in Nat \ {0}, x + P <= y
  PROVE  1 + x \div P <= y \div P
  <1> DEFINE q == x \div P
             r == y \div P
  <1>1. q \in Nat /\ r \in Nat /\ P * q <= x /\ y < P * r + P
    BY WholePeriods
  <1> HIDE DEF q, r
  <1>2. ASSUME r <= q PROVE FALSE
    <2>1. P * r <= P * q /\ P * r \in Nat /\ P * q \in Nat
      BY <1>1, <1>2, ProductsGrow
    <2> QED BY <1>1, <2>1
  <1>3. q + 1 <= r
    BY <1>1, <1>2
  <1> QED BY <1>3 DEF q, r

LEMMA NoPeriodLess ==
  ASSUME NEW x \in Nat, NEW y \in Nat, NEW P \in Nat \ {0}, x <= y
  PROVE  x \div P <= y \div P
  <1> DEFINE q == x \div P
             r == y \div P
  <1>1. q \in Nat /\ r \in Nat /\ P * q <= x /\ y < P * r + P
    BY WholePeriods
  <1> HIDE DEF q, r
  <1>2. ASSUME r + 1 <= q PROVE FALSE
    <2>1. P * (r + 1) <= P * q /\ P * (r + 1) \in Nat /\ P * q \in Nat
      BY <1>1, <1>2, ProductsGrow
    <2>2. P * (r + 1) = P * r + P
      BY <1>1
    <2> QED BY <1>1, <2>1, <2>2
  <1>3. q <= r
    BY <1>1, <1>2
  <1> QED BY <1>3 DEF q, r

(* First is the least item due.                                             *)
LEMMA LeastOfNaturals ==
  ASSUME NEW S, S \subseteq Nat, S # {}
  PROVE  \E x \in S : \A y \in S : x <= y
  <1> DEFINE R == OpToRel(<, Nat)
  <1>1. IsWellFoundedOn(R, Nat)
    BY NatLessThanWellFounded
  <1>2. \A x, y \in Nat : <<y, x>> \in R <=> y < x
    BY DEF OpToRel
  <1> HIDE DEF R
  <1>3. PICK x \in S : \A y \in S : ~ (<<y, x>> \in R)
    BY <1>1, WFMin
  <1>4. \A y \in S : x <= y
    <2> TAKE y \in S
    <2>1. x \in Nat /\ y \in Nat /\ ~ (<<y, x>> \in R)
      BY <1>3
    <2>2. ~ (y < x)
      BY <1>2, <2>1
    <2> QED BY <2>1, <2>2
  <1> QED BY <1>3, <1>4

LEMMA FirstIsAnItem ==
  ASSUME NEW items, items \subseteq Unlocks, items # {}
  PROVE  First(items) \in items
  <1>1. Unlocks \subseteq Nat
    BY ModelAssumption DEF Unlocks
  <1>2. \E u \in items : \A v \in items : u <= v
    BY <1>1, LeastOfNaturals
  <1> QED BY <1>2 DEF First

-----------------------------------------------------------------------------
(* A payment is of one of three kinds, and a batch of one kind only.        *)
LEMMA PaymentKinds ==
  /\ \A p \in Payments :
       \/ p[1] = "Initial" /\ p \in {"Initial"} \X Addrs
       \/ p[1] = "Emission" /\ p[2] \in Addrs /\ p = <<"Emission", p[2]>>
       \/ p[1] = "Scheduled" /\ p[2] \in Unlocks /\ p = <<"Scheduled", p[2]>>
  /\ \A a \in Addrs : <<"Emission", a>> \in Payments
  /\ \A u \in Unlocks : <<"Scheduled", u>> \in Payments
  BY DEF Payments

LEMMA BatchOfOneKind ==
  ASSUME NEW m \in Progress, NEW at
  PROVE  /\ NextBatch(m, at) \subseteq Payments
         /\ \/ ~m.initial /\ NextBatch(m, at) = {"Initial"} \X Addrs
            \/ /\ m.initial /\ EmissionDue(m, at)
               /\ NextBatch(m, at) = {"Emission"} \X Addrs
            \/ /\ m.initial
               /\ \E u \in UnlockDue(m, at) : NextBatch(m, at) = {<<"Scheduled", u>>}
            \/ m.initial /\ NextBatch(m, at) = {}
  <1>1. m.initial \in BOOLEAN
    BY DEF Progress
  <1>2. CASE ~m.initial
    BY <1>2 DEF NextBatch, Payments
  <1>3. CASE m.initial /\ EmissionDue(m, at)
    BY <1>3 DEF NextBatch, Payments
  <1>4. CASE m.initial /\ ~EmissionDue(m, at) /\ UnlockDue(m, at) = {}
    BY <1>4 DEF NextBatch
  <1>5. CASE m.initial /\ ~EmissionDue(m, at) /\ UnlockDue(m, at) # {}
    <2>1. UnlockDue(m, at) \subseteq Unlocks
      BY DEF UnlockDue
    <2>2. First(UnlockDue(m, at)) \in UnlockDue(m, at)
      BY <1>5, <2>1, FirstIsAnItem
    <2>3. NextBatch(m, at) = {<<"Scheduled", First(UnlockDue(m, at))>>}
      BY <1>5 DEF NextBatch
    <2> QED BY <1>5, <2>1, <2>2, <2>3 DEF Payments
  <1> QED BY <1>1, <1>2, <1>3, <1>4, <1>5

(* Where Send leads: to the end of the run, or to its next transfer.        *)
LEMMA SendLeads ==
  ASSUME TypeOK, NEW t \in Tokens, NEW batch \in SUBSET Payments, NEW at \in 0 .. MaxTime,
         Send(t, batch, at)
  PROVE  /\ task' \in [Tokens -> Runs \cup {NoTask}]
         /\ \A s \in Tokens \ {t} : task'[s] = task[s]
         /\ \/ batch = {} /\ task'[t] = NoTask
            \/ \E p \in batch :
                 task'[t] = [at |-> at, paying |-> p, left |-> batch \ {p}, reply |-> "none"]
  <1>1. task \in [Tokens -> Runs \cup {NoTask}]
    BY DEF TypeOK
  <1>2. CASE batch = {}
    BY <1>1, <1>2 DEF Send
  <1>3. CASE batch # {}
    <2>1. PICK p \in batch :
            task' = [task EXCEPT ![t] = [at |-> at, paying |-> p, left |-> batch \ {p},
                                         reply |-> "none"]]
      BY <1>3 DEF Send
    <2>2. [at |-> at, paying |-> p, left |-> batch \ {p}, reply |-> "none"] \in Runs
      BY DEF Runs
    <2> QED BY <1>1, <2>1, <2>2
  <1> QED BY <1>2, <1>3

(* A run that awaits something has the fields of one.                       *)
LEMMA RunFields ==
  ASSUME TypeOK, NEW t \in Tokens
  PROVE  /\ Busy(t) => task[t] \in Runs
         /\ task[t].reply # "none" => Busy(t)
         /\ ~Busy(t) => task[t].reply = "none" /\ task[t].paying \notin Payments
  <1>1. task[t] \in Runs \cup {NoTask}
    BY DEF TypeOK
  <1>2. NoTask.reply = "none" /\ NoTask.paying = <<"None", "None">>
    BY DEF NoTask
  <1>3. <<"None", "None">> \notin Payments
    <2> DEFINE p == <<"None", "None">>
    <2>1. p[1] = "None"
      OBVIOUS
    <2> HIDE DEF p
    <2>2. p \notin Payments
      BY <2>1, PaymentKinds
    <2> QED BY <2>2 DEF p
  <1> QED BY <1>1, <1>2, <1>3 DEF Busy

(* A run at the start of its model's next batch has nothing behind.         *)
LEMMA FreshHasNothingBehind ==
  ASSUME NEW t \in Tokens, NEW at \in 0 .. MaxTime,
         \/ task[t] = NoTask
         \/ \E p \in NextBatch(model[t], at) :
              task[t] = [at |-> at, paying |-> p, left |-> NextBatch(model[t], at) \ {p},
                         reply |-> "none"]
  PROVE  \A p \in Payments : ~Behind(t, p)
  <1>1. CASE task[t] = NoTask
    BY <1>1 DEF Behind, Busy
  <1>2. ASSUME NEW p \in NextBatch(model[t], at),
               task[t] = [at |-> at, paying |-> p, left |-> NextBatch(model[t], at) \ {p},
                          reply |-> "none"]
        PROVE  \A q \in Payments : ~Behind(t, q)
    <2>1. /\ task[t].at = at /\ task[t].paying = p /\ task[t].reply = "none"
          /\ task[t].left = NextBatch(model[t], at) \ {p}
      BY <1>2
    <2> QED BY <2>1 DEF Behind, Batch, Ahead
  <1> QED BY <1>1, <1>2

(* What a step that leaves a token's model and run alone leaves as it was.  *)
LEMMA SameRun ==
  ASSUME NEW t \in Tokens, UNCHANGED <<model[t], task[t]>>
  PROVE  /\ Busy(t)' = Busy(t) /\ Batch(t)' = Batch(t)
         /\ \A p : Ahead(t, p)' = Ahead(t, p) /\ Marked(t, p)' = Marked(t, p)
         /\ \A p : Behind(t, p)' = Behind(t, p)
         /\ \A p : LastEmission(t, p)' = LastEmission(t, p)
         /\ \A p, reply : Due(t, p, reply)' = Due(t, p, reply)
  <1>1. Busy(t)' = Busy(t) /\ Batch(t)' = Batch(t)
    BY DEF Busy, Batch
  <1>2. \A p : Ahead(t, p)' = Ahead(t, p) /\ Marked(t, p)' = Marked(t, p)
    BY DEF Ahead, Marked
  <1>3. \A p : Behind(t, p)' = Behind(t, p)
    BY <1>1, <1>2 DEF Behind
  <1>4. \A p : LastEmission(t, p)' = LastEmission(t, p)
    BY <1>3 DEF LastEmission
  <1>5. \A p, reply : Due(t, p, reply)' = Due(t, p, reply)
    BY DEF Due
  <1> QED BY <1>1, <1>2, <1>3, <1>4, <1>5

(* A step that leaves all of a token and the clock alone keeps what the     *)
(* invariant says of it; so do the steps of other tokens.                   *)
LEMMA UntouchedStaysOK ==
  ASSUME NEW t \in Tokens, TokenOK(t),
         UNCHANGED <<now, upgrades, created[t], timer[t], model[t], task[t], sent[t],
                     history[t]>>,
         base' # t \/ base' = base
  PROVE  TokenOK(t)'
  <1>1. /\ CreatedFirst(t)' /\ RunOK(t)'
    BY SameRun DEF TokenOK, CreatedFirst, RunOK
  <1>2. OnceOK(t)'
    BY SameRun DEF TokenOK, OnceOK
  <1>3. PacedOK(t)'
    BY SameRun DEF TokenOK, PacedOK, Periods
  <1>4. NotEarly(t)' /\ RecordsOK(t)'
    BY SameRun DEF TokenOK, NotEarly, RecordsOK
  <1>5. InitialOK(t)'
    BY SameRun DEF TokenOK, InitialOK, Tried
  <1> QED BY <1>1, <1>2, <1>3, <1>4, <1>5 DEF TokenOK

-----------------------------------------------------------------------------
LEMMA InitIInv == Init => IInv
  <1> SUFFICES ASSUME Init PROVE IInv
    OBVIOUS
  <1> USE DEF Init
  <1>1. TypeOK
    BY ModelAssumption DEF TypeOK, Progress, Untouched, NoRecords, Never
  <1>2. ASSUME NEW t \in Tokens PROVE TokenOK(t)
    <2>1. /\ model[t] = Untouched /\ task[t] = NoTask /\ created[t] = Never
          /\ timer[t] = "none" /\ base # t
          /\ \A p \in Payments : sent[t][p] = 0 /\ history[t][p] = NoRecords
      BY ModelAssumption
    <2>2. ~Busy(t) /\ \A p \in Payments : ~Behind(t, p) /\ ~Marked(t, p)
      BY <2>1 DEF Busy, Behind, Marked, Untouched
    <2>3. CreatedFirst(t) /\ RunOK(t)
      BY <2>1, <2>2 DEF CreatedFirst, RunOK, Untouched, Never
    <2>4. OnceOK(t) /\ PacedOK(t) /\ NotEarly(t)
      BY <2>1, PaymentKinds DEF OnceOK, PacedOK, NotEarly
    <2>5. RecordsOK(t)
      BY <2>1 DEF RecordsOK, Due, NoRecords, NoTask
    <2>6. InitialOK(t)
      BY <2>1, <2>2 DEF InitialOK, Tried, NoRecords, Untouched
    <2> QED BY <2>3, <2>4, <2>5, <2>6 DEF TokenOK
  <1> QED BY <1>1, <1>2 DEF IInv

(* Time passes: no payment becomes early, and the periods do not get fewer. *)
LEMMA PeriodsGrow ==
  ASSUME NEW t \in Tokens, created[t] \in Nat, NEW x \in Nat, NEW y \in Nat,
         created[t] <= x, x <= y
  PROVE  /\ Periods(t, x) \in Nat \ {0} /\ Periods(t, y) \in Nat \ {0}
         /\ Periods(t, x) <= Periods(t, y)
  <1>1. x - created[t] \in Nat /\ y - created[t] \in Nat /\ x - created[t] <= y - created[t]
    OBVIOUS
  <1>2. Period \in Nat \ {0}
    BY ModelAssumption
  <1>3. /\ (x - created[t]) \div Period \in Nat /\ (y - created[t]) \div Period \in Nat
        /\ (x - created[t]) \div Period <= (y - created[t]) \div Period
    BY <1>1, <1>2, WholePeriods, NoPeriodLess
  <1>4. Periods(t, x) = 1 + (x - created[t]) \div Period
    BY DEF Periods, Never
  <1>5. Periods(t, y) = 1 + (y - created[t]) \div Period
    BY DEF Periods, Never
  <1> QED BY <1>3, <1>4, <1>5

LEMMA PeriodsOfNow ==
  ASSUME NEW t \in Tokens, created'[t] = now, now' = now, now \in Nat
  PROVE  Periods(t, now)' \in Nat
  <1>1. Period \in Nat \ {0}
    BY ModelAssumption
  <1>2. (now - now) \div Period \in Nat
    BY <1>1, WholePeriods
  <1>3. Periods(t, now)' = 1 + (now - now) \div Period
    BY DEF Periods, Never
  <1> QED BY <1>2, <1>3

LEMMA ClockKeeps ==
  ASSUME IInv, Clock
  PROVE  IInv'
  <1> USE DEF IInv
  <1>1. now \in Nat /\ now' = now + 1 /\ now' \in 0 .. MaxTime
    BY ModelAssumption DEF Clock, TypeOK
  <1>2. TypeOK'
    BY <1>1 DEF Clock, TypeOK
  <1>3. ASSUME NEW t \in Tokens PROVE TokenOK(t)'
    <2>1. UNCHANGED <<base, created[t], timer[t], model[t], task[t], sent[t], history[t], upgrades>>
      BY DEF Clock
    <2>2. /\ created[t] \in {Never} \cup 0 .. MaxTime /\ upgrades \in Nat
          /\ model[t].emitted \in {Never} \cup 0 .. MaxTime
          /\ Busy(t) => task[t].at \in 0 .. MaxTime
      BY RunFields, ModelAssumption DEF TypeOK, Progress, Runs
    <2>3. CreatedFirst(t)' /\ RunOK(t)'
      BY <1>1, <2>1, <2>2, SameRun DEF TokenOK, CreatedFirst, RunOK, Never
    <2>4. OnceOK(t)' /\ RecordsOK(t)' /\ InitialOK(t)'
      BY <2>1, SameRun DEF TokenOK, OnceOK, RecordsOK, InitialOK, Tried
    <2>5. NotEarly(t)'
      <3>1. \A u \in Unlocks : UnlockTimes[u] \in Nat
        BY ModelAssumption DEF Unlocks
      <3> QED BY <1>1, <2>1, <3>1 DEF TokenOK, NotEarly
    <2>6. PacedOK(t)'
      <3> SUFFICES ASSUME created[t] # Never, NEW a \in Addrs
                   PROVE  sent'[t][<<"Emission", a>>]
                            <= upgrades' * Periods(t, now)'
                               + Periods(t, LastEmission(t, <<"Emission", a>>))'
        BY <2>1 DEF PacedOK
      <3> DEFINE p == <<"Emission", a>>
                 e == Periods(t, LastEmission(t, p))
      <3>1. created[t] \in Nat /\ created[t] <= now
        BY <2>2 DEF TokenOK, CreatedFirst, Never
      <3>2. Periods(t, now) \in Nat /\ Periods(t, now') \in Nat /\ Periods(t, now) <= Periods(t, now')
        BY <1>1, <3>1, PeriodsGrow
      <3>3. Periods(t, now)' = Periods(t, now') /\ Periods(t, LastEmission(t, p))' = e
        BY <2>1, SameRun DEF Periods
      <3>4. sent'[t][p] = sent[t][p] /\ sent[t][p] <= upgrades * Periods(t, now) + e
        BY <2>1 DEF TokenOK, PacedOK
      <3>5. /\ upgrades * Periods(t, now) <= upgrades * Periods(t, now')
            /\ upgrades * Periods(t, now) \in Nat /\ upgrades * Periods(t, now') \in Nat
        BY <2>2, <3>2, ProductsGrow
      <3>6. sent[t][p] \in Nat
        BY PaymentKinds DEF TypeOK
      <3>7. e \in Int
        BY <2>2, ModelAssumption, <3>1 DEF Periods, LastEmission, Behind, Never
      <3> HIDE DEF e
      <3> QED BY <2>1, <3>3, <3>4, <3>5, <3>6, <3>7
    <2> QED BY <2>3, <2>4, <2>5, <2>6 DEF TokenOK
  <1> QED BY <1>2, <1>3

(* The values the arithmetic of a step needs.                               *)
LEMMA Values ==
  ASSUME TypeOK, NEW t \in Tokens
  PROVE  /\ now \in Nat /\ upgrades \in Nat /\ created[t] \in {Never} \cup Nat
         /\ model[t] \in Progress /\ model[t].initial \in BOOLEAN
         /\ model[t].emitted \in {Never} \cup Nat
         /\ model[t].unlocked \subseteq Unlocks
         /\ Busy(t) => /\ task[t].at \in 0 .. MaxTime /\ task[t].paying \in Payments
                       /\ task[t].left \subseteq Payments
                       /\ task[t].reply \in {"none", "success", "error"}
         /\ \A p \in Payments : /\ sent[t][p] \in Nat
                                /\ history[t][p].success \in Nat
                                /\ history[t][p].error \in Nat
  <1>1. /\ now \in Nat /\ upgrades \in Nat /\ created[t] \in {Never} \cup Nat
        /\ model[t] \in Progress
    BY ModelAssumption DEF TypeOK
  <1>2. /\ model[t].initial \in BOOLEAN /\ model[t].emitted \in {Never} \cup Nat
        /\ model[t].unlocked \subseteq Unlocks
    BY <1>1, ModelAssumption DEF Progress
  <1>3. Busy(t) => /\ task[t].at \in 0 .. MaxTime /\ task[t].paying \in Payments
                   /\ task[t].left \subseteq Payments
                   /\ task[t].reply \in {"none", "success", "error"}
    BY RunFields DEF Runs
  <1>4. \A p \in Payments : /\ sent[t][p] \in Nat
                            /\ history[t][p].success \in Nat
                            /\ history[t][p].error \in Nat
    BY DEF TypeOK
  <1> QED BY <1>1, <1>2, <1>3, <1>4

LEMMA CreateKeeps ==
  ASSUME IInv, NEW t \in Tokens, CreateBaseToken(t)
  PROVE  IInv'
  <1> USE DEF IInv
  <1>1. /\ created[t] = Never /\ created'[t] = now /\ base' = t /\ now \in 0 .. MaxTime
        /\ UNCHANGED <<now, model, task, sent, history, upgrades>>
        /\ timer'[t] \in {"none", "restoring", "running"}
    BY DEF CreateBaseToken, TypeOK
  <1>2. \A s \in Tokens \ {t} : created'[s] = created[s] /\ timer'[s] = timer[s]
    BY DEF CreateBaseToken, TypeOK
  <1>3. TypeOK'
    BY <1>1 DEF CreateBaseToken, TypeOK
  <1>4. ASSUME NEW s \in Tokens \ {t} PROVE TokenOK(s)'
    BY <1>1, <1>2, UntouchedStaysOK
  <1>5. /\ \A p \in Payments : sent[t][p] = 0
        /\ ~Busy(t) /\ model[t].emitted = Never
    <2>1. \A p \in Payments : ~(sent[t][p] > 0) /\ sent[t][p] \in Nat
      BY <1>1, Values DEF TokenOK, CreatedFirst
    <2> QED BY <1>1, <2>1 DEF TokenOK, CreatedFirst
  <1>6. CreatedFirst(t)' /\ RunOK(t)'
    BY <1>1, <1>5, SameRun DEF CreatedFirst, RunOK, Never
  <1>7. OnceOK(t)' /\ NotEarly(t)' /\ RecordsOK(t)' /\ InitialOK(t)'
    BY <1>1, SameRun DEF TokenOK, OnceOK, NotEarly, RecordsOK, InitialOK, Tried
  <1>8. PacedOK(t)'
    <2>1. \A a \in Addrs : LastEmission(t, <<"Emission", a>>)' = Never
      BY <1>1, <1>5, SameRun DEF LastEmission, Behind
    <2>2. Periods(t, now)' \in Nat
      BY <1>1, PeriodsOfNow DEF Never
    <2>3. upgrades' \in Nat /\ upgrades' * Periods(t, now)' \in Nat
      BY <1>1, <2>2, Values, ProductsGrow
    <2>4. ASSUME NEW a \in Addrs
          PROVE  sent'[t][<<"Emission", a>>]
                   <= upgrades' * Periods(t, now)' + Periods(t, LastEmission(t, <<"Emission", a>>))'
      <3>1. Periods(t, LastEmission(t, <<"Emission", a>>))' = 0
        BY <2>1 DEF Periods
      <3>2. sent'[t][<<"Emission", a>>] = 0
        BY <1>1, <1>5, PaymentKinds
      <3> QED BY <2>3, <3>1, <3>2
    <2> QED BY <2>4 DEF PacedOK
  <1>9. TokenOK(t)'
    BY <1>6, <1>7, <1>8 DEF TokenOK
  <1> QED BY <1>3, <1>4, <1>9

LEMMA RestoreKeeps ==
  ASSUME IInv, NEW t \in Tokens, RestoreTimer(t)
  PROVE  IInv'
  <1> USE DEF IInv
  <1>1. /\ timer[t] = "restoring" /\ timer' = [timer EXCEPT ![t] = "running"]
        /\ UNCHANGED <<now, created, base, model, task, sent, history, upgrades>>
    BY DEF RestoreTimer
  <1>2. TypeOK'
    BY <1>1 DEF TypeOK
  <1>3. ASSUME NEW s \in Tokens, s # t PROVE TokenOK(s)'
    BY <1>1, <1>3, UntouchedStaysOK DEF TypeOK
  <1>4. CreatedFirst(t)' /\ RunOK(t)'
    BY <1>1, SameRun DEF TokenOK, CreatedFirst, RunOK
  <1>5. OnceOK(t)' /\ PacedOK(t)' /\ NotEarly(t)' /\ RecordsOK(t)' /\ InitialOK(t)'
    BY <1>1, SameRun DEF TokenOK, OnceOK, PacedOK, Periods, NotEarly, RecordsOK, InitialOK, Tried
  <1> QED BY <1>2, <1>3, <1>4, <1>5 DEF TokenOK

-----------------------------------------------------------------------------
(* What is in a batch is not marked, is due, and is not early.              *)
LEMMA BatchIsDue ==
  ASSUME TypeOK, NEW t \in Tokens, Busy(t), NEW p \in Batch(t)
  PROVE  /\ p \in Payments /\ ~Marked(t, p)
         /\ p[1] = "Initial" => ~model[t].initial /\ Batch(t) = {"Initial"} \X Addrs
         /\ p[1] = "Emission" => /\ model[t].initial /\ EmissionDue(model[t], task[t].at)
                                 /\ Batch(t) = {"Emission"} \X Addrs
         /\ p[1] = "Scheduled" => /\ model[t].initial /\ Batch(t) = {p}
                                  /\ p[2] \in UnlockDue(model[t], task[t].at)
  <1>1. model[t] \in Progress
    BY Values
  <1>2. /\ Batch(t) \subseteq Payments
        /\ \/ ~model[t].initial /\ Batch(t) = {"Initial"} \X Addrs
           \/ /\ model[t].initial /\ EmissionDue(model[t], task[t].at)
              /\ Batch(t) = {"Emission"} \X Addrs
           \/ /\ model[t].initial
              /\ \E u \in UnlockDue(model[t], task[t].at) : Batch(t) = {<<"Scheduled", u>>}
           \/ model[t].initial /\ Batch(t) = {}
    BY <1>1, BatchOfOneKind DEF Batch
  <1>3. CASE ~model[t].initial /\ Batch(t) = {"Initial"} \X Addrs
    <2>1. p[1] = "Initial"
      BY <1>3
    <2> QED BY <1>2, <1>3, <2>1 DEF Marked
  <1>4. CASE /\ model[t].initial /\ EmissionDue(model[t], task[t].at)
             /\ Batch(t) = {"Emission"} \X Addrs
    <2>1. p[1] = "Emission"
      BY <1>4
    <2> QED BY <1>2, <1>4, <2>1 DEF Marked
  <1>5. ASSUME model[t].initial,
               NEW u \in UnlockDue(model[t], task[t].at), Batch(t) = {<<"Scheduled", u>>}
        PROVE  /\ p[1] = "Scheduled" /\ p[2] = u /\ ~Marked(t, p) /\ Batch(t) = {p}
    <2>1. p = <<"Scheduled", u>>
      BY <1>5
    <2>2. u \notin model[t].unlocked
      BY DEF UnlockDue
    <2> QED BY <1>5, <2>1, <2>2 DEF Marked
  <1> QED BY <1>2, <1>3, <1>4, <1>5

(* An emission that is due adds no more than the periods since the last.    *)
LEMMA EmissionAdds ==
  ASSUME NEW t \in Tokens, created[t] \in Nat, NEW at \in Nat, created[t] <= at,
         model[t].emitted \in {Never} \cup Nat,
         model[t].emitted # Never => created[t] <= model[t].emitted,
         EmissionDue(model[t], at)
  PROVE  /\ Periods(t, model[t].emitted) \in Nat /\ Periods(t, at) \in Nat
         /\ Periods(t, model[t].emitted) + 1 <= Periods(t, at)
  <1> DEFINE e == model[t].emitted
  <1>1. Period \in Nat \ {0}
    BY ModelAssumption
  <1>2. at - created[t] \in Nat /\ (at - created[t]) \div Period \in Nat
    BY <1>1, WholePeriods
  <1>3. Periods(t, at) = 1 + (at - created[t]) \div Period
    BY DEF Periods, Never
  <1>4. CASE e = Never
    <2>1. Periods(t, e) = 0
      BY <1>4 DEF Periods
    <2> QED BY <1>2, <1>3, <2>1
  <1>5. CASE e # Never
    <2>1. e \in Nat /\ e - created[t] \in Nat
      BY <1>5
    <2>2. at - e >= Period
      BY <1>5 DEF EmissionDue
    <2>3. (e - created[t]) + Period <= at - created[t]
      BY <1>1, <2>1, <2>2
    <2>4. 1 + (e - created[t]) \div Period <= (at - created[t]) \div Period
      BY <1>1, <1>2, <2>1, <2>3, OnePeriodMore
    <2>5. Periods(t, e) = 1 + (e - created[t]) \div Period
      BY <1>5 DEF Periods
    <2>6. (e - created[t]) \div Period \in Nat
      BY <1>1, <2>1, WholePeriods
    <2> QED BY <1>2, <1>3, <2>4, <2>5, <2>6
  <1> QED BY <1>4, <1>5

(* The ledger executes a transfer (n = 1) or not (n = 0), and answers.      *)
LEMMA AnswerKeeps ==
  ASSUME IInv, NEW t \in Tokens, Waiting(t), NEW n \in {0, 1},
         NEW reply \in {"success", "error"}, reply = "success" => n = 1,
         task' = [task EXCEPT ![t].reply = reply],
         sent' \in [Tokens -> [Payments -> Nat]],
         sent'[t][task[t].paying] = sent[t][task[t].paying] + n,
         \A p \in Payments : p # task[t].paying => sent'[t][p] = sent[t][p],
         \A s \in Tokens : s # t => sent'[s] = sent[s],
         UNCHANGED <<now, created, base, timer, model, history, upgrades>>
  PROVE  IInv'
  <1> USE DEF IInv
  <1> DEFINE p0 == task[t].paying
  <1>1. Busy(t) /\ task[t] \in Runs /\ task[t].reply = "none"
    BY RunFields DEF Waiting, Busy
  <1>2. /\ task'[t] \in Runs /\ task'[t].at = task[t].at /\ task'[t].paying = p0
        /\ task'[t].left = task[t].left /\ task'[t].reply = reply
    BY <1>1 DEF TypeOK, Runs
  <1>3. /\ \A s \in Tokens : s # t => task'[s] = task[s]
        /\ task' \in [Tokens -> Runs \cup {NoTask}]
    BY <1>2 DEF TypeOK
  <1>4. TypeOK'
    BY <1>3 DEF TypeOK
  <1>5. ASSUME NEW s \in Tokens, s # t PROVE TokenOK(s)'
    BY <1>3, <1>5, UntouchedStaysOK
  <1>6. p0 \in Batch(t) /\ p0 \in Payments /\ p0 \notin task[t].left
    BY <1>1, BatchIsDue DEF TokenOK, RunOK
  <1>7. Busy(t)' /\ Batch(t)' = Batch(t) /\ \A p : Marked(t, p)' = Marked(t, p)
    <2>1. task'[t] # NoTask
      BY <1>1, <1>2 DEF Runs, NoTask, Never
    <2> QED BY <1>2, <2>1 DEF Busy, Batch, Marked
  <1>8. /\ ~Behind(t, p0) /\ Behind(t, p0)'
        /\ \A p : p # p0 => Behind(t, p)' = Behind(t, p)
    BY <1>1, <1>2, <1>6, <1>7 DEF Behind, Ahead
  <1>9. /\ created[t] \in Nat /\ created[t] <= task[t].at /\ task[t].at <= now
        /\ task[t].at \in Nat /\ now \in Nat
    BY <1>1, Values, ModelAssumption DEF TokenOK, CreatedFirst, RunOK, Never
  <1>10. CreatedFirst(t)' /\ RunOK(t)'
    BY <1>1, <1>2, <1>7, <1>9 DEF TokenOK, CreatedFirst, RunOK, Never
  <1>11. OnceOK(t)'
    <2> SUFFICES ASSUME NEW p \in Payments, p[1] # "Emission"
                 PROVE  /\ sent'[t][p] <= 1 + upgrades
                        /\ ~Marked(t, p)' /\ ~Behind(t, p)' => sent'[t][p] <= upgrades
      BY DEF OnceOK
    <2>1. /\ sent[t][p] \in Nat /\ upgrades \in Nat /\ sent[t][p] <= 1 + upgrades
          /\ ~Marked(t, p) /\ ~Behind(t, p) => sent[t][p] <= upgrades
      BY Values DEF TokenOK, OnceOK
    <2>2. CASE p = p0
      <3>1. ~Marked(t, p)
        BY <1>1, <1>6, <2>2, BatchIsDue
      <3> QED BY <1>8, <2>1, <2>2, <3>1
    <2>3. CASE p # p0
      BY <1>7, <1>8, <2>1, <2>3
    <2> QED BY <2>2, <2>3
  <1>12. PacedOK(t)'
    <2> SUFFICES ASSUME NEW a \in Addrs
                 PROVE  sent'[t][<<"Emission", a>>]
                          <= upgrades' * Periods(t, now)'
                             + Periods(t, LastEmission(t, <<"Emission", a>>))'
      BY DEF PacedOK
    <2> DEFINE p == <<"Emission", a>>
    <2>1. p \in Payments /\ p[1] = "Emission"
      BY PaymentKinds
    <2>2. sent[t][p] <= upgrades * Periods(t, now) + Periods(t, LastEmission(t, p))
      BY <1>9 DEF TokenOK, PacedOK, Never
    <2>3. upgrades' * Periods(t, now)' = upgrades * Periods(t, now)
      BY DEF Periods
    <2>4. CASE p = p0
      <3>1. EmissionDue(model[t], task[t].at)
        BY <1>1, <1>6, <2>1, <2>4, BatchIsDue
      <3>2. /\ Periods(t, model[t].emitted) \in Nat /\ Periods(t, task[t].at) \in Nat
            /\ Periods(t, model[t].emitted) + 1 <= Periods(t, task[t].at)
        BY <1>9, <3>1, Values, EmissionAdds DEF TokenOK, CreatedFirst
      <3>3. LastEmission(t, p) = model[t].emitted
        BY <1>8, <2>4 DEF LastEmission
      <3>4. LastEmission(t, p)' = task[t].at
        BY <1>2, <1>8, <2>4 DEF LastEmission
      <3>5. Periods(t, LastEmission(t, p))' = Periods(t, task[t].at)
        BY <3>4 DEF Periods
      <3>6. /\ upgrades \in Nat /\ sent[t][p] \in Nat /\ Periods(t, now) \in Nat
            /\ sent'[t][p] = sent[t][p] + n
        BY <1>9, <2>1, <2>4, Values, PeriodsGrow
      <3>7. upgrades * Periods(t, now) \in Nat
        BY <3>6, ProductsGrow
      <3> QED BY <2>2, <2>3, <3>2, <3>3, <3>5, <3>6, <3>7
    <2>5. CASE p # p0
      <3>1. LastEmission(t, p)' = LastEmission(t, p)
        BY <1>2, <1>8, <2>5 DEF LastEmission
      <3>2. Periods(t, LastEmission(t, p))' = Periods(t, LastEmission(t, p))
        BY <3>1 DEF Periods
      <3> QED BY <2>1, <2>2, <2>3, <2>5, <3>2
    <2> QED BY <2>4, <2>5
  <1>13. NotEarly(t)'
    <2> SUFFICES ASSUME NEW u \in Unlocks, sent'[t][<<"Scheduled", u>>] > 0
                 PROVE  UnlockTimes[u] <= now
      BY DEF NotEarly
    <2>1. <<"Scheduled", u>> \in Payments /\ UnlockTimes[u] \in Nat
      BY PaymentKinds, ModelAssumption DEF Unlocks
    <2>2. CASE p0 = <<"Scheduled", u>>
      <3>1. u \in UnlockDue(model[t], task[t].at)
        BY <1>1, <1>6, <2>2, BatchIsDue
      <3> QED BY <1>9, <2>1, <3>1 DEF UnlockDue
    <2>3. CASE p0 # <<"Scheduled", u>>
      BY <2>1, <2>3 DEF TokenOK, NotEarly
    <2> QED BY <2>2, <2>3
  <1>14. RecordsOK(t)'
    <2> SUFFICES ASSUME NEW p \in Payments
                 PROVE  /\ history[t][p].success + Due(t, p, "success")' <= sent'[t][p]
                        /\ upgrades = 0 =>
                             sent'[t][p] <= history[t][p].success + history[t][p].error
                                            + Due(t, p, "success")' + Due(t, p, "error")'
      BY DEF RecordsOK
    <2>1. /\ history[t][p].success \in Nat /\ history[t][p].error \in Nat
          /\ sent[t][p] \in Nat
      BY Values
    <2>2. Due(t, p, "success") = 0 /\ Due(t, p, "error") = 0
      BY <1>1 DEF Due
    <2>3. /\ history[t][p].success <= sent[t][p]
          /\ upgrades = 0 => sent[t][p] <= history[t][p].success + history[t][p].error
      BY <2>1, <2>2 DEF TokenOK, RecordsOK
    <2>4. /\ Due(t, p, "success")' = IF p = p0 /\ reply = "success" THEN 1 ELSE 0
          /\ Due(t, p, "error")' = IF p = p0 /\ reply = "error" THEN 1 ELSE 0
      BY <1>2 DEF Due
    <2>5. sent'[t][p] = IF p = p0 THEN sent[t][p] + n ELSE sent[t][p]
      OBVIOUS
    <2> QED BY <2>1, <2>3, <2>4, <2>5
  <1>15. InitialOK(t)'
    BY <1>2, <1>8 DEF TokenOK, InitialOK, Tried
  <1>16. TokenOK(t)'
    BY <1>10, <1>11, <1>12, <1>13, <1>14, <1>15 DEF TokenOK
  <1> QED BY <1>4, <1>5, <1>16

LEMMA LedgerKeeps ==
  ASSUME IInv, NEW t \in Tokens, LedgerExecutes(t) \/ LedgerRefuses(t)
  PROVE  IInv'
  <1>1. TypeOK /\ Waiting(t)
    BY DEF IInv, LedgerExecutes, LedgerRefuses
  <1>2. task[t].paying \in Payments /\ sent \in [Tokens -> [Payments -> Nat]]
    BY <1>1, Values DEF TypeOK, Waiting, Busy
  <1>3. CASE LedgerExecutes(t)
    <2>1. PICK reply \in {"success", "error"} : task' = [task EXCEPT ![t].reply = reply]
      BY <1>3 DEF LedgerExecutes
    <2>2. /\ sent' \in [Tokens -> [Payments -> Nat]]
          /\ sent'[t][task[t].paying] = sent[t][task[t].paying] + 1
          /\ \A p \in Payments : p # task[t].paying => sent'[t][p] = sent[t][p]
          /\ \A s \in Tokens : s # t => sent'[s] = sent[s]
      BY <1>2, <1>3 DEF LedgerExecutes
    <2>3. UNCHANGED <<now, created, base, timer, model, history, upgrades>>
      BY <1>3 DEF LedgerExecutes
    <2> QED BY <1>1, <2>1, <2>2, <2>3, AnswerKeeps
  <1>4. CASE LedgerRefuses(t)
    <2>1. /\ task' = [task EXCEPT ![t].reply = "error"]
          /\ UNCHANGED <<now, created, base, timer, model, sent, history, upgrades>>
      BY <1>4 DEF LedgerRefuses
    <2>2. sent[t][task[t].paying] = sent[t][task[t].paying] + 0
      BY <1>2
    <2> QED BY <1>1, <1>2, <2>1, <2>2, AnswerKeeps
  <1> QED BY <1>3, <1>4

(* A run of t at the start of a batch: what the step that sends its first   *)
(* transfer has to show of the run.                                         *)
LEMMA FreshRun ==
  ASSUME TypeOK, NEW t \in Tokens, NEW at \in 0 .. MaxTime, model'[t] \in Progress,
         Send(t, NextBatch(model'[t], at), at)
  PROVE  /\ task' \in [Tokens -> Runs \cup {NoTask}]
         /\ \A s \in Tokens : s # t => task'[s] = task[s]
         /\ task'[t].reply = "none" /\ \A p \in Payments : ~Behind(t, p)'
         /\ Busy(t)' => /\ task'[t].at = at /\ task'[t].paying \in Batch(t)'
                        /\ task'[t].left \subseteq Batch(t)' \ {task'[t].paying}
  <1>1. PICK batch \in SUBSET Payments : batch = NextBatch(model'[t], at)
    BY BatchOfOneKind
  <1>2. Send(t, batch, at)
    BY <1>1 DEF Send
  <1>3. /\ task' \in [Tokens -> Runs \cup {NoTask}]
        /\ \A s \in Tokens \ {t} : task'[s] = task[s]
        /\ \/ batch = {} /\ task'[t] = NoTask
           \/ \E p \in batch :
                task'[t] = [at |-> at, paying |-> p, left |-> batch \ {p}, reply |-> "none"]
    BY <1>2, SendLeads
  <1>4. CASE task'[t] = NoTask
    BY <1>3, <1>4 DEF Behind, Busy, NoTask
  <1>5. ASSUME NEW p \in batch,
               task'[t] = [at |-> at, paying |-> p, left |-> batch \ {p}, reply |-> "none"]
        PROVE  /\ task'[t].at = at /\ task'[t].paying = p /\ task'[t].left = batch \ {p}
               /\ task'[t].reply = "none" /\ Batch(t)' = batch
               /\ \A q \in Payments : ~Behind(t, q)'
    <2>1. /\ task'[t].at = at /\ task'[t].paying = p /\ task'[t].left = batch \ {p}
          /\ task'[t].reply = "none"
      BY <1>5
    <2>2. Batch(t)' = batch
      BY <1>1, <2>1 DEF Batch
    <2>3. \A q \in Payments : ~Behind(t, q)'
      BY <2>1, <2>2 DEF Behind, Ahead
    <2> QED BY <2>1, <2>2, <2>3
  <1> QED BY <1>3, <1>4, <1>5

LEMMA TickKeeps ==
  ASSUME IInv, NEW t \in Tokens, TimerTick(t)
  PROVE  IInv'
  <1> USE DEF IInv
  <1>1. /\ timer[t] = "running" /\ task[t] = NoTask
        /\ Send(t, NextBatch(model[t], now), now)
        /\ UNCHANGED <<now, created, base, timer, model, sent, history, upgrades>>
    BY DEF TimerTick, Borrowable
  <1>2. now \in 0 .. MaxTime /\ model'[t] \in Progress /\ Send(t, NextBatch(model'[t], now), now)
    BY <1>1, Values DEF TypeOK
  <1>3. /\ task' \in [Tokens -> Runs \cup {NoTask}]
        /\ \A s \in Tokens : s # t => task'[s] = task[s]
        /\ task'[t].reply = "none" /\ \A p \in Payments : ~Behind(t, p)'
        /\ Busy(t)' => /\ task'[t].at = now /\ task'[t].paying \in Batch(t)'
                       /\ task'[t].left \subseteq Batch(t)' \ {task'[t].paying}
    BY <1>2, FreshRun
  <1>4. TypeOK'
    BY <1>1, <1>3 DEF TypeOK
  <1>5. ASSUME NEW s \in Tokens, s # t PROVE TokenOK(s)'
    BY <1>1, <1>3, <1>5, UntouchedStaysOK
  <1>6. ~Busy(t) /\ (\A p \in Payments : ~Behind(t, p)) /\ task[t].reply = "none"
    BY <1>1 DEF Busy, Behind, NoTask
  <1>7. CreatedFirst(t)' /\ RunOK(t)'
    BY <1>1, <1>3, Values DEF TokenOK, CreatedFirst, RunOK
  <1>8. OnceOK(t)'
    BY <1>1, <1>3, <1>6 DEF TokenOK, OnceOK, Marked
  <1>9. PacedOK(t)'
    <2>1. \A a \in Addrs : /\ LastEmission(t, <<"Emission", a>>)' = model[t].emitted
                           /\ LastEmission(t, <<"Emission", a>>) = model[t].emitted
      BY <1>1, <1>3, <1>6, PaymentKinds DEF LastEmission
    <2>2. \A x : Periods(t, x)' = Periods(t, x)
      BY <1>1 DEF Periods
    <2>3. \A a \in Addrs : /\ Periods(t, LastEmission(t, <<"Emission", a>>))'
                                = Periods(t, model[t].emitted)
                           /\ Periods(t, LastEmission(t, <<"Emission", a>>))
                                = Periods(t, model[t].emitted)
                           /\ Periods(t, now)' = Periods(t, now)
      BY <1>1, <2>1, <2>2 DEF Periods
    <2> QED BY <1>1, <2>3 DEF TokenOK, PacedOK
  <1>10. NotEarly(t)'
    BY <1>1 DEF TokenOK, NotEarly
  <1>11. RecordsOK(t)'
    <2>1. \A p \in Payments, reply \in {"success", "error"} :
            Due(t, p, reply) = 0 /\ Due(t, p, reply)' = 0
      BY <1>3, <1>6 DEF Due
    <2> QED BY <1>1, <2>1 DEF TokenOK, RecordsOK
  <1>12. InitialOK(t)'
    BY <1>1, <1>3, <1>6 DEF TokenOK, InitialOK, Tried
  <1>13. TokenOK(t)'
    BY <1>7, <1>8, <1>9, <1>10, <1>11, <1>12 DEF TokenOK
  <1> QED BY <1>4, <1>5, <1>13

-----------------------------------------------------------------------------
(* The record of a transfer's result.                                       *)
LEMMA RecordAdds ==
  ASSUME TypeOK, NEW t \in Tokens, task[t].reply # "none",
         history' = [history EXCEPT ![t][task[t].paying][RecordOf(task[t].reply)] = @ + 1]
  PROVE  /\ history' \in [Tokens -> [Payments -> [success : Nat, error : Nat]]]
         /\ \A s \in Tokens : s # t => history'[s] = history[s]
         /\ \A p \in Payments :
              /\ history'[t][p].success = history[t][p].success + Due(t, p, "success")
              /\ history'[t][p].error = history[t][p].error + Due(t, p, "error")
  <1> DEFINE p0 == task[t].paying
  <1>1. p0 \in Payments /\ task[t].reply \in {"success", "error"}
    BY RunFields DEF Runs
  <1>2. PICK field \in {"success", "error"} :
          /\ field = task[t].reply
          /\ history' = [history EXCEPT ![t][p0][field] = @ + 1]
    BY <1>1 DEF RecordOf
  <1>3. /\ history \in [Tokens -> [Payments -> [success : Nat, error : Nat]]]
        /\ history[t][p0] \in [success : Nat, error : Nat]
    BY <1>1 DEF TypeOK
  <1>4. CASE field = "success"
    <2>1. history' = [history EXCEPT ![t][p0].success = @ + 1]
      BY <1>2, <1>4
    <2>2. /\ history' \in [Tokens -> [Payments -> [success : Nat, error : Nat]]]
          /\ \A s \in Tokens : s # t => history'[s] = history[s]
          /\ \A p \in Payments : p # p0 => history'[t][p] = history[t][p]
          /\ history'[t][p0].success = history[t][p0].success + 1
          /\ history'[t][p0].error = history[t][p0].error
      BY <1>1, <1>3, <2>1, SMTT(30)
    <2>3. \A p \in Payments : /\ Due(t, p, "success") = IF p = p0 THEN 1 ELSE 0
                              /\ Due(t, p, "error") = 0
      BY <1>2, <1>4 DEF Due
    <2>4. ASSUME NEW p \in Payments
          PROVE  /\ history'[t][p].success = history[t][p].success + Due(t, p, "success")
                 /\ history'[t][p].error = history[t][p].error + Due(t, p, "error")
      <3>1. history[t][p].success \in Nat /\ history[t][p].error \in Nat
        BY Values
      <3>2. CASE p = p0
        BY <2>2, <2>3, <3>1, <3>2, SMTT(30)
      <3>3. CASE p # p0
        BY <2>2, <2>3, <3>1, <3>3, SMTT(30)
      <3> QED BY <3>2, <3>3
    <2> QED BY <2>2, <2>4
  <1>5. CASE field = "error"
    <2>1. history' = [history EXCEPT ![t][p0].error = @ + 1]
      BY <1>2, <1>5
    <2>2. /\ history' \in [Tokens -> [Payments -> [success : Nat, error : Nat]]]
          /\ \A s \in Tokens : s # t => history'[s] = history[s]
          /\ \A p \in Payments : p # p0 => history'[t][p] = history[t][p]
          /\ history'[t][p0].error = history[t][p0].error + 1
          /\ history'[t][p0].success = history[t][p0].success
      BY <1>1, <1>3, <2>1
    <2>3. \A p \in Payments : /\ Due(t, p, "error") = IF p = p0 THEN 1 ELSE 0
                              /\ Due(t, p, "success") = 0
      BY <1>2, <1>5 DEF Due
    <2>4. ASSUME NEW p \in Payments
          PROVE  /\ history'[t][p].success = history[t][p].success + Due(t, p, "success")
                 /\ history'[t][p].error = history[t][p].error + Due(t, p, "error")
      <3>1. history[t][p].success \in Nat /\ history[t][p].error \in Nat
        BY Values
      <3>2. CASE p = p0
        BY <2>2, <2>3, <3>1, <3>2, SMTT(30)
      <3>3. CASE p # p0
        BY <2>2, <2>3, <3>1, <3>3, SMTT(30)
      <3> QED BY <3>2, <3>3
    <2> QED BY <2>2, <2>4
  <1> QED BY <1>4, <1>5

(* Once it is recorded the result is nothing to come, and was tried.        *)
LEMMA RecordsKeep ==
  ASSUME IInv, NEW t \in Tokens, task[t].reply # "none", task'[t].reply = "none",
         history' = [history EXCEPT ![t][task[t].paying][RecordOf(task[t].reply)] = @ + 1],
         UNCHANGED <<sent, upgrades>>
  PROVE  /\ RecordsOK(t)'
         /\ \A p \in Payments : Tried(t, p)' <=> Tried(t, p) \/ p = task[t].paying
  <1> USE DEF IInv
  <1>1. task[t].reply \in {"success", "error"}
    BY RunFields DEF Runs
  <1>2. ASSUME NEW p \in Payments
        PROVE  /\ history'[t][p].success = history[t][p].success + Due(t, p, "success")
               /\ history'[t][p].error = history[t][p].error + Due(t, p, "error")
               /\ Due(t, p, "success")' = 0 /\ Due(t, p, "error")' = 0
               /\ history[t][p].success \in Nat /\ history[t][p].error \in Nat
               /\ sent[t][p] \in Nat
    <2>1. Due(t, p, "success")' = 0 /\ Due(t, p, "error")' = 0
      BY DEF Due
    <2> QED BY <2>1, RecordAdds, Values
  <1>3. RecordsOK(t)'
    <2> SUFFICES ASSUME NEW p \in Payments
                 PROVE  /\ history'[t][p].success + Due(t, p, "success")' <= sent'[t][p]
                        /\ upgrades' = 0 =>
                             sent'[t][p] <= history'[t][p].success + history'[t][p].error
                                            + Due(t, p, "success")' + Due(t, p, "error")'
      BY DEF RecordsOK
    <2>1. /\ history[t][p].success + Due(t, p, "success") <= sent[t][p]
          /\ upgrades = 0 =>
               sent[t][p] <= history[t][p].success + history[t][p].error
                             + Due(t, p, "success") + Due(t, p, "error")
      BY DEF TokenOK, RecordsOK
    <2>2. Due(t, p, "success") \in Nat /\ Due(t, p, "error") \in Nat
      BY DEF Due
    <2> QED BY <1>2, <2>1, <2>2, SMTT(30)
  <1>4. ASSUME NEW p \in Payments PROVE Tried(t, p)' <=> Tried(t, p) \/ p = task[t].paying
    <2>1. Due(t, p, "success") + Due(t, p, "error") = IF p = task[t].paying THEN 1 ELSE 0
      BY <1>1 DEF Due
    <2>2. Due(t, p, "success") \in Nat /\ Due(t, p, "error") \in Nat
      BY DEF Due
    <2> QED BY <1>2, <2>1, <2>2, SMTT(30) DEF Tried
  <1> QED BY <1>3, <1>4

(* The next transfer of the same batch.                                     *)
LEMMA NextTransferKeeps ==
  ASSUME IInv, NEW t \in Tokens, TransferDone(t), task[t].left # {}
  PROVE  IInv'
  <1> USE DEF IInv
  <1> DEFINE p0 == task[t].paying
  <1>1. /\ task[t].reply # "none" /\ Busy(t) /\ task[t] \in Runs
        /\ history' = [history EXCEPT ![t][p0][RecordOf(task[t].reply)] = @ + 1]
        /\ Send(t, task[t].left, task[t].at)
        /\ UNCHANGED <<now, created, base, timer, model, sent, upgrades>>
    BY RunFields DEF TransferDone
  <1>2. task[t].left \in SUBSET Payments /\ task[t].at \in 0 .. MaxTime
    BY <1>1 DEF Runs
  <1>3. /\ task' \in [Tokens -> Runs \cup {NoTask}]
        /\ \A s \in Tokens \ {t} : task'[s] = task[s]
        /\ \E q \in task[t].left :
             task'[t] = [at |-> task[t].at, paying |-> q, left |-> task[t].left \ {q},
                         reply |-> "none"]
    BY <1>1, <1>2, SendLeads
  <1>4. PICK q \in task[t].left : /\ task'[t].at = task[t].at /\ task'[t].paying = q
                                  /\ task'[t].left = task[t].left \ {q}
                                  /\ task'[t].reply = "none"
    BY <1>3
  <1>5. p0 \in Batch(t) /\ task[t].left \subseteq Batch(t) \ {p0} /\ p0 \in Payments
    BY <1>1, BatchIsDue DEF TokenOK, RunOK
  <1>6. /\ history' \in [Tokens -> [Payments -> [success : Nat, error : Nat]]]
        /\ \A s \in Tokens : s # t => history'[s] = history[s]
    BY <1>1, RecordAdds
  <1>7. TypeOK'
    BY <1>1, <1>3, <1>6 DEF TypeOK
  <1>8. ASSUME NEW s \in Tokens, s # t PROVE TokenOK(s)'
    BY <1>1, <1>3, <1>6, <1>8, UntouchedStaysOK
  <1>9. Busy(t)' /\ Batch(t)' = Batch(t) /\ \A p : Marked(t, p)' = Marked(t, p)
    <2>1. task'[t] # NoTask
      BY <1>2, <1>4 DEF NoTask, Never
    <2> QED BY <1>1, <1>4, <2>1 DEF Busy, Batch, Marked
  <1>10. \A p : Behind(t, p)' = Behind(t, p)
    BY <1>1, <1>4, <1>9 DEF Behind, Ahead
  <1>11. CreatedFirst(t)' /\ RunOK(t)'
    BY <1>1, <1>4, <1>5, <1>9 DEF TokenOK, CreatedFirst, RunOK
  <1>12. OnceOK(t)' /\ NotEarly(t)'
    BY <1>1, <1>9, <1>10 DEF TokenOK, OnceOK, NotEarly
  <1>13. PacedOK(t)'
    <2>1. \A p : LastEmission(t, p)' = LastEmission(t, p)
      BY <1>1, <1>4, <1>10 DEF LastEmission
    <2>2. \A a \in Addrs : /\ Periods(t, LastEmission(t, <<"Emission", a>>))'
                                = Periods(t, LastEmission(t, <<"Emission", a>>))
                           /\ Periods(t, now)' = Periods(t, now)
      BY <1>1, <2>1 DEF Periods
    <2> QED BY <1>1, <2>2 DEF TokenOK, PacedOK
  <1>14. RecordsOK(t)' /\ \A p \in Payments : Tried(t, p)' <=> Tried(t, p) \/ p = p0
    BY <1>1, <1>4, RecordsKeep
  <1>15. InitialOK(t)'
    <2>1. p0[1] # "Initial" => model[t].initial
      BY <1>1, <1>5, BatchIsDue, PaymentKinds
    <2> QED BY <1>1, <1>4, <1>10, <1>14, <2>1 DEF TokenOK, InitialOK
  <1>16. TokenOK(t)'
    BY <1>11, <1>12, <1>13, <1>14, <1>15 DEF TokenOK
  <1> QED BY <1>7, <1>8, <1>16

(* What the mark of a batch that is through covers: the batch, and nothing  *)
(* of the other payments.                                                   *)
LEMMA MarkCovers ==
  ASSUME TypeOK, NEW t \in Tokens, Busy(t), task[t].paying \in Batch(t),
         model' = [model EXCEPT ![t] = Mark(@, task[t].paying, task[t].at)]
  PROVE  /\ model' \in [Tokens -> Progress]
         /\ \A s \in Tokens : s # t => model'[s] = model[s]
         /\ \A p \in Payments : Marked(t, p) \/ (p \in Batch(t) /\ p[1] # "Emission")
                                  <=> Marked(t, p)'
         /\ model'[t].initial <=> model[t].initial \/ task[t].paying[1] = "Initial"
         /\ model'[t].emitted = IF task[t].paying[1] = "Emission" THEN task[t].at
                                ELSE model[t].emitted
  <1> DEFINE p0 == task[t].paying
             m == model[t]
  <1>1. /\ m \in Progress /\ p0 \in Payments /\ task[t].at \in 0 .. MaxTime
        /\ model \in [Tokens -> Progress]
    BY Values, RunFields DEF Runs, TypeOK
  <1>2. model'[t] = Mark(m, p0, task[t].at)
    BY <1>1
  <1>3. \A s \in Tokens : s # t => model'[s] = model[s]
    BY <1>1
  <1>4. m.initial \in BOOLEAN
    BY <1>1 DEF Progress
  <1>5. CASE p0[1] = "Initial"
    <2>1. model'[t] = [m EXCEPT !.initial = TRUE]
      BY <1>2, <1>5 DEF Mark
    <2>2. /\ model'[t] \in Progress /\ model'[t].initial = TRUE
          /\ model'[t].emitted = m.emitted /\ model'[t].unlocked = m.unlocked
      BY <1>1, <2>1 DEF Progress
    <2>3. Batch(t) = {"Initial"} \X Addrs
      BY <1>5, BatchIsDue
    <2>4. \A p \in Payments : Marked(t, p) \/ (p \in Batch(t) /\ p[1] # "Emission")
                                <=> Marked(t, p)'
      BY <2>2, <2>3, PaymentKinds DEF Marked
    <2> QED BY <1>1, <1>3, <1>5, <2>2, <2>4
  <1>6. CASE p0[1] = "Emission"
    <2>1. model'[t] = [m EXCEPT !.emitted = task[t].at]
      BY <1>2, <1>6 DEF Mark
    <2>2. /\ model'[t] \in Progress /\ model'[t].initial = m.initial
          /\ model'[t].emitted = task[t].at /\ model'[t].unlocked = m.unlocked
      BY <1>1, <2>1 DEF Progress
    <2>3. Batch(t) = {"Emission"} \X Addrs
      BY <1>6, BatchIsDue
    <2>4. \A p \in Payments : Marked(t, p) \/ (p \in Batch(t) /\ p[1] # "Emission")
                                <=> Marked(t, p)'
      BY <2>2, <2>3 DEF Marked
    <2> QED BY <1>1, <1>3, <1>6, <2>2, <2>4
  <1>7. CASE p0[1] = "Scheduled"
    <2>1. model'[t] = [m EXCEPT !.unlocked = @ \cup {p0[2]}]
      BY <1>2, <1>7 DEF Mark
    <2>2. p0[2] \in Unlocks
      BY <1>1, <1>7, PaymentKinds
    <2>3. /\ model'[t] \in Progress /\ model'[t].initial = m.initial
          /\ model'[t].emitted = m.emitted /\ model'[t].unlocked = m.unlocked \cup {p0[2]}
      BY <1>1, <2>1, <2>2 DEF Progress
    <2>4. Batch(t) = {p0}
      BY <1>7, BatchIsDue
    <2>5. \A p \in Payments : Marked(t, p) \/ (p \in Batch(t) /\ p[1] # "Emission")
                                <=> Marked(t, p)'
      BY <1>1, <1>7, <2>3, <2>4, PaymentKinds DEF Marked
    <2> QED BY <1>1, <1>3, <1>7, <2>3, <2>5
  <1> QED BY <1>1, <1>5, <1>6, <1>7, PaymentKinds

(* The batch is through: it is marked, and the next one begins.             *)
LEMMA BatchDoneKeeps ==
  ASSUME IInv, NEW t \in Tokens, TransferDone(t), task[t].left = {}
  PROVE  IInv'
  <1> USE DEF IInv
  <1> DEFINE p0 == task[t].paying
             at == task[t].at
  <1>1. /\ task[t].reply # "none" /\ Busy(t) /\ task[t] \in Runs
        /\ history' = [history EXCEPT ![t][p0][RecordOf(task[t].reply)] = @ + 1]
        /\ model' = [model EXCEPT ![t] = Mark(@, p0, at)]
        /\ Send(t, NextBatch(model'[t], at), at)
        /\ UNCHANGED <<now, created, base, timer, sent, upgrades>>
    BY RunFields DEF TransferDone
  <1>2. p0 \in Batch(t) /\ p0 \in Payments /\ at \in 0 .. MaxTime
    BY <1>1, BatchIsDue DEF TokenOK, RunOK, Runs
  <1>3. /\ model' \in [Tokens -> Progress]
        /\ \A s \in Tokens : s # t => model'[s] = model[s]
        /\ \A p \in Payments : Marked(t, p) \/ (p \in Batch(t) /\ p[1] # "Emission")
                                 => Marked(t, p)'
        /\ model'[t].initial <=> model[t].initial \/ p0[1] = "Initial"
        /\ model'[t].emitted = IF p0[1] = "Emission" THEN at ELSE model[t].emitted
    BY <1>1, <1>2, MarkCovers
  <1>4. /\ task' \in [Tokens -> Runs \cup {NoTask}]
        /\ \A s \in Tokens : s # t => task'[s] = task[s]
        /\ task'[t].reply = "none" /\ \A p \in Payments : ~Behind(t, p)'
        /\ Busy(t)' => /\ task'[t].at = at /\ task'[t].paying \in Batch(t)'
                       /\ task'[t].left \subseteq Batch(t)' \ {task'[t].paying}
    BY <1>1, <1>2, <1>3, FreshRun
  <1>5. /\ history' \in [Tokens -> [Payments -> [success : Nat, error : Nat]]]
        /\ \A s \in Tokens : s # t => history'[s] = history[s]
    BY <1>1, RecordAdds
  <1>6. TypeOK'
    BY <1>1, <1>3, <1>4, <1>5 DEF TypeOK
  <1>7. ASSUME NEW s \in Tokens, s # t PROVE TokenOK(s)'
    BY <1>1, <1>3, <1>4, <1>5, <1>7, UntouchedStaysOK
  <1>8. \A p \in Payments : Behind(t, p) <=> p \in Batch(t)
    BY <1>1 DEF Behind, Ahead
  <1>9. /\ created[t] # Never /\ created[t] \in Nat /\ created[t] <= at /\ at <= now
        /\ at \in Nat /\ now \in Nat
    BY <1>1, Values, ModelAssumption DEF TokenOK, CreatedFirst, RunOK, Never
  <1>10. CreatedFirst(t)' /\ RunOK(t)'
    BY <1>1, <1>3, <1>4, <1>9 DEF TokenOK, CreatedFirst, RunOK
  <1>11. OnceOK(t)' /\ NotEarly(t)'
    BY <1>1, <1>3, <1>8 DEF TokenOK, OnceOK, NotEarly
  <1>12. PacedOK(t)'
    <2> SUFFICES ASSUME NEW a \in Addrs
                 PROVE  sent'[t][<<"Emission", a>>]
                          <= upgrades' * Periods(t, now)'
                             + Periods(t, LastEmission(t, <<"Emission", a>>))'
      BY DEF PacedOK
    <2> DEFINE p == <<"Emission", a>>
    <2>1. p \in Payments /\ p[1] = "Emission"
      BY PaymentKinds
    <2>2. p \in Batch(t) <=> p0[1] = "Emission"
      <3>1. CASE p \in Batch(t)
        <4>1. Batch(t) = {"Emission"} \X Addrs
          BY <1>1, <2>1, <3>1, BatchIsDue
        <4> QED BY <1>2, <3>1, <4>1
      <3>2. CASE p0[1] = "Emission"
        <4>1. Batch(t) = {"Emission"} \X Addrs
          BY <1>1, <1>2, <3>2, BatchIsDue
        <4> QED BY <3>2, <4>1
      <3> QED BY <3>1, <3>2
    <2>3. LastEmission(t, p) = model'[t].emitted
      BY <1>3, <1>8, <2>1, <2>2 DEF LastEmission
    <2>4. LastEmission(t, p)' = model'[t].emitted
      BY <1>4, <2>1 DEF LastEmission
    <2>5. /\ Periods(t, LastEmission(t, p))' = Periods(t, LastEmission(t, p))
          /\ Periods(t, now)' = Periods(t, now)
      BY <1>1, <2>3, <2>4 DEF Periods
    <2> QED BY <1>1, <1>9, <2>5 DEF TokenOK, PacedOK
  <1>13. RecordsOK(t)' /\ \A p \in Payments : Tried(t, p)' <=> Tried(t, p) \/ p = p0
    BY <1>1, <1>4, RecordsKeep
  <1>14. InitialOK(t)'
    <2>1. p0[1] # "Initial" => model[t].initial
      BY <1>1, <1>2, BatchIsDue, PaymentKinds
    <2>2. p0[1] = "Initial" => \A q \in Payments : q[1] = "Initial" => q \in Batch(t)
      BY <1>1, <1>2, BatchIsDue, PaymentKinds
    <2> QED BY <1>3, <1>4, <1>8, <1>13, <2>1, <2>2 DEF TokenOK, InitialOK
  <1>15. TokenOK(t)'
    BY <1>10, <1>11, <1>12, <1>13, <1>14 DEF TokenOK
  <1> QED BY <1>6, <1>7, <1>15

-----------------------------------------------------------------------------
(* The emissions so far are no more than one for each period started.       *)
LEMMA PacedByNow ==
  ASSUME IInv, NEW t \in Tokens, created[t] # Never, NEW p \in Payments
  PROVE  /\ Periods(t, LastEmission(t, p)) \in Nat /\ Periods(t, now) \in Nat
         /\ Periods(t, LastEmission(t, p)) <= Periods(t, now)
         /\ Waiting(t) /\ p = task[t].paying /\ p[1] = "Emission" =>
              Periods(t, LastEmission(t, p)) + 1 <= Periods(t, now)
  <1> USE DEF IInv
  <1>1. created[t] \in Nat /\ now \in Nat /\ created[t] <= now
    BY Values, ModelAssumption DEF TokenOK, CreatedFirst, Never
  <1>2. Periods(t, now) \in Nat
    BY <1>1, PeriodsGrow
  <1>3. LastEmission(t, p) \in {Never} \cup Nat
        /\ (LastEmission(t, p) # Never =>
              created[t] <= LastEmission(t, p) /\ LastEmission(t, p) <= now)
    <2>1. CASE Behind(t, p)
      BY <2>1, Values DEF TokenOK, RunOK, LastEmission, Behind
    <2>2. CASE ~Behind(t, p)
      BY <2>2, Values DEF TokenOK, CreatedFirst, LastEmission
    <2> QED BY <2>1, <2>2
  <1>4. /\ Periods(t, LastEmission(t, p)) \in Nat
        /\ Periods(t, LastEmission(t, p)) <= Periods(t, now)
    <2>1. CASE LastEmission(t, p) = Never
      <3>1. Periods(t, LastEmission(t, p)) = 0
        BY <2>1 DEF Periods
      <3> QED BY <1>2, <3>1
    <2>2. CASE LastEmission(t, p) # Never
      <3>1. PICK last \in Nat : last = LastEmission(t, p)
        BY <1>3, <2>2
      <3>2. created[t] <= last /\ last <= now
        BY <1>3, <2>2, <3>1
      <3>3. Periods(t, last) \in Nat /\ Periods(t, last) <= Periods(t, now)
        BY <1>1, <3>2, PeriodsGrow
      <3> QED BY <3>1, <3>3
    <2> QED BY <2>1, <2>2
  <1>5. ASSUME Waiting(t), p = task[t].paying, p[1] = "Emission"
        PROVE  Periods(t, LastEmission(t, p)) + 1 <= Periods(t, now)
    <2>1. Busy(t) /\ p \in Batch(t) /\ ~Behind(t, p)
      BY <1>5 DEF TokenOK, RunOK, Waiting, Busy, Behind, Ahead
    <2>2. EmissionDue(model[t], task[t].at) /\ LastEmission(t, p) = model[t].emitted
      BY <1>5, <2>1, BatchIsDue DEF LastEmission
    <2>3. /\ task[t].at \in Nat /\ created[t] <= task[t].at /\ task[t].at <= now
      BY <1>5, <2>1, Values, ModelAssumption DEF TokenOK, RunOK
    <2>4. /\ model[t].emitted \in {Never} \cup Nat
          /\ model[t].emitted # Never => created[t] <= model[t].emitted
      BY Values DEF TokenOK, CreatedFirst
    <2>5. /\ Periods(t, model[t].emitted) \in Nat /\ Periods(t, task[t].at) \in Nat
          /\ Periods(t, model[t].emitted) + 1 <= Periods(t, task[t].at)
      BY <1>1, <2>2, <2>3, <2>4, EmissionAdds
    <2>6. Periods(t, task[t].at) <= Periods(t, now)
      BY <1>1, <2>3, PeriodsGrow
    <2> QED BY <1>2, <2>2, <2>5, <2>6
  <1> QED BY <1>2, <1>4, <1>5

(* An upgrade: a transfer under way may still be executed, and pays what    *)
(* its run did not have behind.                                             *)
LEMMA UpgradeKeeps ==
  ASSUME IInv, NEW withArgs \in BOOLEAN, Upgrade(withArgs)
  PROVE  IInv'
  <1> USE DEF IInv
  <1>1. /\ upgrades' = upgrades + 1 /\ upgrades' \in 0 .. MaxUpgrades /\ upgrades \in Nat
        /\ timer' = [t \in Tokens |-> IF withArgs /\ t = base THEN "restoring" ELSE "none"]
        /\ model' = [t \in Tokens |-> Untouched] /\ task' = [t \in Tokens |-> NoTask]
        /\ UNCHANGED <<now, created, base, history>>
    BY ModelAssumption DEF Upgrade, TypeOK
  <1>2. PICK late \in SUBSET {t \in Tokens : Waiting(t)} :
          sent' = [t \in Tokens |->
                     IF t \in late THEN [sent[t] EXCEPT ![task[t].paying] = @ + 1]
                     ELSE sent[t]]
    BY DEF Upgrade
  <1>3. ASSUME NEW t \in Tokens
        PROVE  /\ sent'[t] \in [Payments -> Nat]
               /\ \A p \in Payments :
                    \/ sent'[t][p] = sent[t][p]
                    \/ /\ sent'[t][p] = sent[t][p] + 1
                       /\ Waiting(t) /\ p = task[t].paying
    <2>1. sent[t] \in [Payments -> Nat]
      BY DEF TypeOK
    <2>2. CASE t \in late
      <3>1. Waiting(t) /\ task[t].paying \in Payments
        BY <2>2, Values DEF Waiting, Busy
      <3>2. sent'[t] = [sent[t] EXCEPT ![task[t].paying] = @ + 1]
        BY <1>2, <2>2
      <3> QED BY <2>1, <3>1, <3>2
    <2>3. CASE t \notin late
      BY <1>2, <2>1, <2>3
    <2> QED BY <2>2, <2>3
  <1>4. TypeOK'
    <2>1. sent' \in [Tokens -> [Payments -> Nat]]
      <3>1. DOMAIN sent' = Tokens /\ sent' = [t \in Tokens |-> sent'[t]]
        BY <1>2
      <3> QED BY <1>3, <3>1
    <2>2. Untouched \in Progress
      BY DEF Untouched, Progress
    <2> QED BY <1>1, <2>1, <2>2 DEF TypeOK
  <1>5. ASSUME NEW t \in Tokens PROVE TokenOK(t)'
    <2>1. /\ model'[t] = Untouched /\ task'[t] = NoTask /\ created'[t] = created[t]
          /\ timer'[t] # "none" => t = base
      BY <1>1
    <2>2. ~Busy(t)' /\ \A p \in Payments : ~Behind(t, p)' /\ ~Marked(t, p)'
      BY <2>1 DEF Busy, Behind, Marked, Untouched
    <2>3. ASSUME NEW p \in Payments, Waiting(t), p = task[t].paying
          PROVE  created[t] # Never /\ Busy(t) /\ p \in Batch(t) /\ ~Marked(t, p) /\ ~Behind(t, p)
      <3>1. Busy(t) /\ p \in Batch(t) /\ ~Behind(t, p)
        BY <2>3 DEF TokenOK, RunOK, Waiting, Busy, Behind, Ahead
      <3> QED BY <3>1, BatchIsDue DEF TokenOK, CreatedFirst
    <2>4. \A p \in Payments : /\ sent[t][p] \in Nat /\ sent'[t][p] \in Nat
                              /\ sent[t][p] <= sent'[t][p]
      BY <1>3, Values
    <2>5. CreatedFirst(t)' /\ RunOK(t)'
      <3>1. \A p \in Payments : sent'[t][p] > 0 => created[t] # Never
        BY <1>3, <2>3, Values DEF TokenOK, CreatedFirst
      <3>2. model'[t].emitted = Never
        BY <2>1 DEF Untouched
      <3> QED BY <1>1, <2>1, <2>2, <3>1, <3>2 DEF TokenOK, CreatedFirst, RunOK
    <2>6. OnceOK(t)'
      <3> SUFFICES ASSUME NEW p \in Payments, p[1] # "Emission"
                   PROVE  sent'[t][p] <= upgrades + 1 /\ sent'[t][p] <= 1 + (upgrades + 1)
        BY <1>1, <2>2 DEF OnceOK
      <3>1. /\ sent[t][p] \in Nat /\ sent[t][p] <= 1 + upgrades
            /\ ~Marked(t, p) /\ ~Behind(t, p) => sent[t][p] <= upgrades
        BY Values DEF TokenOK, OnceOK
      <3>2. CASE sent'[t][p] = sent[t][p]
        BY <1>1, <3>1, <3>2
      <3>3. CASE sent'[t][p] = sent[t][p] + 1 /\ Waiting(t) /\ p = task[t].paying
        BY <1>1, <2>3, <3>1, <3>3
      <3> QED BY <1>3, <3>2, <3>3
    <2>7. PacedOK(t)'
      <3> SUFFICES ASSUME created[t] # Never, NEW a \in Addrs
                   PROVE  sent'[t][<<"Emission", a>>]
                            <= upgrades' * Periods(t, now)'
                               + Periods(t, LastEmission(t, <<"Emission", a>>))'
        BY <2>1 DEF PacedOK
      <3> DEFINE p == <<"Emission", a>>
      <3>1. p \in Payments /\ p[1] = "Emission"
        BY PaymentKinds
      <3>2. LastEmission(t, p)' = Never
        BY <2>1, <2>2, <3>1 DEF LastEmission, Untouched
      <3>3. Periods(t, LastEmission(t, p))' = 0 /\ Periods(t, now)' = Periods(t, now)
        BY <1>1, <3>2 DEF Periods
      <3>4. sent[t][p] <= upgrades * Periods(t, now) + Periods(t, LastEmission(t, p))
        BY DEF TokenOK, PacedOK
      <3>5. /\ Periods(t, LastEmission(t, p)) \in Nat /\ Periods(t, now) \in Nat
            /\ Periods(t, LastEmission(t, p)) <= Periods(t, now)
            /\ Waiting(t) /\ p = task[t].paying =>
                 Periods(t, LastEmission(t, p)) + 1 <= Periods(t, now)
        BY <3>1, PacedByNow
      <3>6. /\ upgrades * Periods(t, now) \in Nat
            /\ (upgrades + 1) * Periods(t, now) = upgrades * Periods(t, now) + Periods(t, now)
        BY <1>1, <3>5
      <3>7. sent'[t][p] <= upgrades * Periods(t, now) + Periods(t, now)
        BY <1>3, <3>1, <3>4, <3>5, <3>6, Values
      <3>8. upgrades' * Periods(t, now)' = upgrades * Periods(t, now) + Periods(t, now)
        BY <1>1, <3>3, <3>6
      <3>9. upgrades' * Periods(t, now)' + Periods(t, LastEmission(t, p))'
              = upgrades * Periods(t, now) + Periods(t, now)
        BY <3>3, <3>5, <3>6, <3>8
      <3> QED BY <3>7, <3>9
    <2>8. NotEarly(t)'
      <3> SUFFICES ASSUME NEW u \in Unlocks, sent'[t][<<"Scheduled", u>>] > 0
                   PROVE  UnlockTimes[u] <= now
        BY <1>1 DEF NotEarly
      <3> DEFINE p == <<"Scheduled", u>>
      <3>1. p \in Payments /\ p[1] = "Scheduled" /\ p[2] = u /\ UnlockTimes[u] \in Nat
        BY PaymentKinds, ModelAssumption DEF Unlocks
      <3>2. CASE sent'[t][p] = sent[t][p]
        BY <3>2 DEF TokenOK, NotEarly
      <3>3. CASE Waiting(t) /\ p = task[t].paying
        <4>1. u \in UnlockDue(model[t], task[t].at)
          BY <2>3, <3>1, <3>3, BatchIsDue
        <4>2. task[t].at \in Nat /\ task[t].at <= now /\ now \in Nat
          BY <3>3, Values, ModelAssumption DEF TokenOK, RunOK, Waiting, Busy
        <4> QED BY <3>1, <4>1, <4>2 DEF UnlockDue
      <3> QED BY <1>3, <3>1, <3>2, <3>3
    <2>9. RecordsOK(t)'
      <3> SUFFICES ASSUME NEW p \in Payments
                   PROVE  history[t][p].success + Due(t, p, "success")' <= sent'[t][p]
        BY <1>1 DEF RecordsOK
      <3>1. Due(t, p, "success")' = 0
        BY <2>1 DEF Due, NoTask
      <3>2. history[t][p].success <= sent[t][p] /\ history[t][p].success \in Nat
        <4>1. history[t][p].success + Due(t, p, "success") <= sent[t][p]
          BY DEF TokenOK, RecordsOK
        <4>2. Due(t, p, "success") \in Nat
          BY DEF Due
        <4> QED BY <4>1, <4>2, Values
      <3> QED BY <2>4, <3>1, <3>2
    <2>10. InitialOK(t)'
      BY <1>1, <2>1, <2>2 DEF TokenOK, InitialOK, Tried, Untouched
    <2> QED BY <2>5, <2>6, <2>7, <2>8, <2>9, <2>10 DEF TokenOK
  <1> QED BY <1>4, <1>5

-----------------------------------------------------------------------------
LEMMA NextKeeps ==
  ASSUME IInv, [Next]_vars
  PROVE  IInv'
  <1>1. CASE UNCHANGED vars
    <2>1. UNCHANGED <<now, upgrades, base, created, timer, model, task, sent, history>>
      BY <1>1 DEF vars
    <2>2. TypeOK'
      BY <2>1 DEF IInv, TypeOK
    <2>3. ASSUME NEW t \in Tokens PROVE TokenOK(t)'
      BY <2>1, UntouchedStaysOK DEF IInv
    <2> QED BY <2>2, <2>3 DEF IInv
  <1>2. CASE Clock
    BY <1>2, ClockKeeps
  <1>3. ASSUME NEW withArgs \in BOOLEAN, Upgrade(withArgs) PROVE IInv'
    BY <1>3, UpgradeKeeps
  <1>4. ASSUME NEW t \in Tokens, TimerTick(t) PROVE IInv'
    BY <1>4, TickKeeps
  <1>5. ASSUME NEW t \in Tokens, TransferDone(t) PROVE IInv'
    BY <1>5, NextTransferKeeps, BatchDoneKeeps
  <1>6. ASSUME NEW t \in Tokens, LedgerExecutes(t) \/ LedgerRefuses(t) PROVE IInv'
    BY <1>6, LedgerKeeps
  <1>7. ASSUME NEW t \in Tokens, CreateBaseToken(t) PROVE IInv'
    BY <1>7, CreateKeeps
  <1>8. ASSUME NEW t \in Tokens, RestoreTimer(t) PROVE IInv'
    BY <1>8, RestoreKeeps
  <1> QED BY <1>1, <1>2, <1>3, <1>4, <1>5, <1>6, <1>7, <1>8 DEF Next

(* The invariant holds of every behaviour, however many tokens, holders,    *)
(* unlock items, periods and upgrades there are.                            *)
THEOREM Inductive == Spec => []IInv
  <1>1. Init => IInv
    BY InitIInv
  <1>2. IInv /\ [Next]_vars => IInv'
    BY NextKeeps
  <1> QED BY <1>1, <1>2, PTL DEF Spec

(* The state of the timers (timer.rs) keeps its types: the progress of a    *)
(* token, its run and its records are what the code's structs hold.         *)
THEOREM TypeCorrect == Spec => []TypeOK
  <1>1. IInv => TypeOK
    BY DEF IInv
  <1> QED BY <1>1, Inductive, PTL

(* distribute_tokens_shared (timer.rs) pays what the distribution model     *)
(* says: allocations and unlock items once per start of the timer, although *)
(* a transfer that failed may have been executed, unlock items not before   *)
(* their time, emissions one per started period, and neither before the     *)
(* initial allocation was tried for all.                                    *)
THEOREM PaysByTheModel == Spec => []PaidByTheModel
  <1>1. ASSUME IInv, NEW t \in Tokens, NEW a \in Addrs, sent[t][<<"Emission", a>>] > 0
        PROVE  /\ created[t] # Never
               /\ sent[t][<<"Emission", a>>]
                    <= (1 + upgrades) * (1 + (now - created[t]) \div Period)
    <2> DEFINE p == <<"Emission", a>>
    <2>1. TypeOK /\ TokenOK(t) /\ p \in Payments
      BY <1>1, PaymentKinds DEF IInv
    <2>2. created[t] # Never
      BY <1>1, <2>1 DEF TokenOK, CreatedFirst
    <2>3. sent[t][p] <= upgrades * Periods(t, now) + Periods(t, LastEmission(t, p))
      BY <2>1, <2>2 DEF TokenOK, PacedOK
    <2>4. /\ Periods(t, LastEmission(t, p)) \in Nat /\ Periods(t, now) \in Nat
          /\ Periods(t, LastEmission(t, p)) <= Periods(t, now)
      BY <1>1, <2>1, <2>2, PacedByNow
    <2>5. upgrades \in Nat /\ sent[t][p] \in Nat /\ now \in Nat
      BY <2>1, Values
    <2>6. /\ upgrades * Periods(t, now) \in Nat
          /\ (1 + upgrades) * Periods(t, now) = upgrades * Periods(t, now) + Periods(t, now)
      BY <2>4, <2>5
    <2>7. sent[t][p] <= (1 + upgrades) * Periods(t, now)
      BY <2>3, <2>4, <2>5, <2>6
    <2>8. Periods(t, now) = 1 + (now - created[t]) \div Period
      BY <2>5 DEF Periods, Never
    <2> QED BY <2>2, <2>7, <2>8
  <1>2. IInv => EmissionPaced
    BY <1>1 DEF EmissionPaced
  <1>3. IInv => NothingUnlockedEarly /\ InitialFirst
    BY DEF IInv, TokenOK, NotEarly, NothingUnlockedEarly, InitialOK, InitialFirst
  <1>4. IInv => OncePerStart
    BY DEF IInv, TokenOK, OnceOK, OncePerStart
  <1>5. IInv => PaidByTheModel
    BY <1>2, <1>3, <1>4 DEF PaidByTheModel
  <1> QED BY <1>5, Inductive, PTL

(* add_distribution_record (timer.rs): a record of success stands for an    *)
(* executed transfer, and before the first upgrade no executed transfer is  *)
(* without a record or an answer on its way.                                *)
THEOREM HistoryTold == Spec => []HistoryIsTrue
  <1>1. ASSUME IInv, NEW t \in Tokens, NEW p \in Payments
        PROVE  /\ history[t][p].success <= sent[t][p]
               /\ upgrades = 0 =>
                    sent[t][p] <= history[t][p].success + history[t][p].error
                                  + (IF task[t].paying = p /\ task[t].reply # "none" THEN 1 ELSE 0)
    <2>1. TypeOK /\ RecordsOK(t)
      BY <1>1 DEF IInv, TokenOK
    <2>2. /\ history[t][p].success \in Nat /\ history[t][p].error \in Nat /\ sent[t][p] \in Nat
          /\ task[t].reply \in {"none", "success", "error"}
      BY <2>1, Values, RunFields DEF Runs
    <2>3. /\ Due(t, p, "success") = IF task[t].paying = p /\ task[t].reply = "success" THEN 1 ELSE 0
          /\ Due(t, p, "error") = IF task[t].paying = p /\ task[t].reply = "error" THEN 1 ELSE 0
      BY DEF Due
    <2> QED BY <2>1, <2>2, <2>3 DEF RecordsOK
  <1>2. IInv => HistoryIsTrue
    BY <1>1 DEF HistoryIsTrue
  <1> QED BY <1>2, Inductive, PTL

-----------------------------------------------------------------------------
(* The refinement of DistributionContract.                                  *)

Open(t) == {p \in Payments : p[1] # "Emission" /\ ~Marked(t, p) /\ ~Behind(t, p)}
OpenMap == [t \in Tokens |-> Open(t)]
LastMap == [t \in Tokens |-> [a \in Addrs |-> LastEmission(t, <<"Emission", a>>)]]

(* A step that moves no token's progress is none of the contract's, but for *)
(* the clock and the creation of tokens.                                    *)
LEMMA SameProgress ==
  ASSUME \A t \in Tokens, p \in Payments :
           /\ p[1] # "Emission" => (Marked(t, p)' \/ Behind(t, p)' <=> Marked(t, p) \/ Behind(t, p))
           /\ p[1] = "Emission" => LastEmission(t, p)' = LastEmission(t, p)
  PROVE  OpenMap' = OpenMap /\ LastMap' = LastMap
  <1>1. ASSUME NEW t \in Tokens PROVE Open(t)' = Open(t)
    BY DEF Open
  <1>2. ASSUME NEW t \in Tokens, NEW a \in Addrs
        PROVE  LastEmission(t, <<"Emission", a>>)' = LastEmission(t, <<"Emission", a>>)
    <2> DEFINE p == <<"Emission", a>>
    <2>1. p \in Payments /\ p[1] = "Emission"
      BY PaymentKinds
    <2> HIDE DEF p
    <2>2. LastEmission(t, p)' = LastEmission(t, p)
      BY <2>1
    <2> QED BY <2>2 DEF p
  <1> QED BY <1>1, <1>2 DEF OpenMap, LastMap

(* What a run awaits is owed.                                               *)
LEMMA AwaitedIsOwed ==
  ASSUME IInv, NEW t \in Tokens, Waiting(t)
  PROVE  /\ task[t].paying \in Payments /\ task[t].at \in 0 .. now
         /\ Contract!Owed(t, task[t].paying, task[t].at)
  <1> DEFINE p == task[t].paying
             at == task[t].at
  <1>1. TypeOK /\ TokenOK(t) /\ Busy(t)
    BY DEF IInv, Waiting, Busy
  <1>2. p \in Batch(t) /\ ~Behind(t, p)
    BY <1>1 DEF TokenOK, RunOK, Waiting, Behind, Ahead
  <1>3. /\ p \in Payments /\ ~Marked(t, p)
        /\ p[1] # "Initial" => model[t].initial
        /\ p[1] = "Emission" => EmissionDue(model[t], at)
        /\ p[1] = "Scheduled" => p[2] \in UnlockDue(model[t], at)
    BY <1>1, <1>2, BatchIsDue, PaymentKinds
  <1>4. created[t] # Never /\ created[t] <= at /\ at <= now /\ at \in 0 .. now
    BY <1>1, Values, ModelAssumption DEF TokenOK, CreatedFirst, RunOK
  <1>5. p[1] # "Emission" => p \in OpenMap[t]
    BY <1>2, <1>3 DEF OpenMap, Open
  <1>6. p[1] # "Initial" => \A q \in OpenMap[t] : q[1] # "Initial"
    BY <1>3 DEF OpenMap, Open, Marked
  <1>7. p[1] = "Emission" => LastMap[t][p[2]] = Never \/ at - LastMap[t][p[2]] >= Period
    <2> SUFFICES ASSUME p[1] = "Emission"
                 PROVE  LastMap[t][p[2]] = Never \/ at - LastMap[t][p[2]] >= Period
      OBVIOUS
    <2>1. p[2] \in Addrs /\ p = <<"Emission", p[2]>>
      BY <1>3, PaymentKinds
    <2>2. LastMap[t][p[2]] = LastEmission(t, p)
      BY <2>1 DEF LastMap
    <2>3. LastEmission(t, p) = model[t].emitted
      BY <1>2 DEF LastEmission
    <2> QED BY <1>3, <2>2, <2>3 DEF EmissionDue
  <1>8. p[1] = "Scheduled" => UnlockTimes[p[2]] <= at
    BY <1>3 DEF UnlockDue
  <1> HIDE DEF p, at
  <1>9. Contract!Owed(t, p, at)
    BY <1>4, <1>5, <1>6, <1>7, <1>8
       DEF Contract!Owed, Contract!InitialOver, Contract!Paced, OpenMap, Open, LastMap
  <1> QED BY <1>3, <1>4, <1>9 DEF p, at

(* Whatever the ledger answers, what was awaited is tried.                  *)
LEMMA AnswerTries ==
  ASSUME IInv, NEW t \in Tokens, Waiting(t), NEW reply \in {"success", "error"},
         task' = [task EXCEPT ![t].reply = reply],
         UNCHANGED <<now, created, model>>
  PROVE  Contract!Try(t, task[t].paying, task[t].at)
  <1> DEFINE p0 == task[t].paying
             at == task[t].at
  <1>1. /\ TypeOK /\ TokenOK(t) /\ Busy(t) /\ task[t] \in Runs /\ task[t].reply = "none"
        /\ task \in [Tokens -> Runs \cup {NoTask}]
    BY RunFields DEF IInv, TypeOK, Waiting, Busy
  <1>2. /\ p0 \in Batch(t) /\ p0 \in Payments /\ p0 \notin task[t].left
    BY <1>1, BatchIsDue DEF TokenOK, RunOK
  <1>3. /\ task'[t].at = at /\ task'[t].paying = p0 /\ task'[t].left = task[t].left
        /\ task'[t].reply = reply /\ task'[t] \in Runs
    BY <1>1 DEF Runs
  <1>4. Busy(t)' /\ Batch(t)' = Batch(t)
    BY <1>3 DEF Busy, Batch, Runs, NoTask, Never
  <1>5. /\ ~Behind(t, p0) /\ Behind(t, p0)'
        /\ \A p : p # p0 => Behind(t, p)' = Behind(t, p)
    BY <1>1, <1>2, <1>3, <1>4 DEF Behind, Ahead
  <1>6. \A p : Marked(t, p)' = Marked(t, p)
    BY DEF Marked
  <1>7. ASSUME NEW s \in Tokens, s # t
        PROVE  Open(s)' = Open(s) /\ \A a \in Addrs : LastEmission(s, <<"Emission", a>>)'
                                                        = LastEmission(s, <<"Emission", a>>)
    <2>1. UNCHANGED <<model[s], task[s]>>
      BY <1>1, <1>7
    <2> QED BY <2>1, SameRun DEF Open
  <1>8. CASE p0[1] = "Emission"
    <2>1. p0[2] \in Addrs /\ p0 = <<"Emission", p0[2]>>
      BY <1>2, <1>8, PaymentKinds
    <2>2. Open(t)' = Open(t)
      BY <1>5, <1>6, <1>8 DEF Open
    <2>3. OpenMap' = OpenMap
      BY <1>7, <2>2 DEF OpenMap
    <2>4. ASSUME NEW a \in Addrs
          PROVE  LastEmission(t, <<"Emission", a>>)'
                   = IF a = p0[2] THEN at ELSE LastEmission(t, <<"Emission", a>>)
      <3>1. CASE a = p0[2]
        BY <1>3, <1>5, <2>1, <3>1 DEF LastEmission
      <3>2. CASE a # p0[2]
        <4>1. <<"Emission", a>> # p0
          BY <2>1, <3>2
        <4>2. Behind(t, <<"Emission", a>>)' = Behind(t, <<"Emission", a>>)
          BY <1>5, <4>1
        <4> QED BY <1>3, <3>2, <4>2 DEF LastEmission
      <3> QED BY <3>1, <3>2
    <2>5. LastMap' = [LastMap EXCEPT ![t][p0[2]] = at]
      BY <1>7, <2>1, <2>4 DEF LastMap
    <2> HIDE DEF p0, at
    <2>6. Contract!Owed(t, p0, at)
      BY AwaitedIsOwed DEF p0, at
    <2> QED BY <1>8, <2>3, <2>5, <2>6 DEF Contract!Try, OpenMap, Open, LastMap, p0, at
  <1>9. CASE p0[1] # "Emission"
    <2>1. Open(t)' = Open(t) \ {p0}
      BY <1>5, <1>6, <1>9 DEF Open
    <2>2. OpenMap' = [OpenMap EXCEPT ![t] = @ \ {p0}]
      BY <1>7, <2>1 DEF OpenMap
    <2>3. ASSUME NEW a \in Addrs
          PROVE  LastEmission(t, <<"Emission", a>>)' = LastEmission(t, <<"Emission", a>>)
      <3>1. <<"Emission", a>> # p0
        BY <1>9
      <3>2. Behind(t, <<"Emission", a>>)' = Behind(t, <<"Emission", a>>)
        BY <1>5, <3>1
      <3> QED BY <1>3, <3>2 DEF LastEmission
    <2>4. LastMap' = LastMap
      BY <1>7, <2>3 DEF LastMap
    <2> HIDE DEF p0, at
    <2>5. Contract!Owed(t, p0, at)
      BY AwaitedIsOwed DEF p0, at
    <2> QED BY <1>9, <2>2, <2>4, <2>5 DEF Contract!Try, OpenMap, Open, LastMap, p0, at
  <1> QED BY <1>8, <1>9

-----------------------------------------------------------------------------
(* Steps within the canister move no progress of the contract's: a tick ... *)
LEMMA TickMoves ==
  ASSUME IInv, NEW t \in Tokens, TimerTick(t)
  PROVE  OpenMap' = OpenMap /\ LastMap' = LastMap
  <1>1. /\ TypeOK /\ task[t] = NoTask /\ Send(t, NextBatch(model[t], now), now)
        /\ UNCHANGED model
    BY DEF IInv, TimerTick, Borrowable
  <1>2. now \in 0 .. MaxTime /\ model'[t] \in Progress /\ Send(t, NextBatch(model'[t], now), now)
    BY <1>1, Values DEF TypeOK
  <1>3. /\ \A s \in Tokens : s # t => task'[s] = task[s]
        /\ \A p \in Payments : ~Behind(t, p)'
    BY <1>1, <1>2, FreshRun
  <1>4. \A p \in Payments : ~Behind(t, p)
    BY <1>1 DEF Behind, Busy
  <1>5. \A p : Marked(t, p)' = Marked(t, p)
    BY <1>1 DEF Marked
  <1>6. \A p \in Payments : LastEmission(t, p)' = LastEmission(t, p)
    BY <1>1, <1>3, <1>4 DEF LastEmission
  <1>7. ASSUME NEW s \in Tokens, s # t
        PROVE  \A p \in Payments : /\ Marked(s, p)' = Marked(s, p) /\ Behind(s, p)' = Behind(s, p)
                                   /\ LastEmission(s, p)' = LastEmission(s, p)
    BY <1>1, <1>3, <1>7, SameRun
  <1> QED BY <1>3, <1>4, <1>5, <1>6, <1>7, SameProgress

(* ... the next transfer of a batch ...                                     *)
LEMMA NextTransferMoves ==
  ASSUME IInv, NEW t \in Tokens, TransferDone(t), task[t].left # {}
  PROVE  OpenMap' = OpenMap /\ LastMap' = LastMap
  <1>1. /\ TypeOK /\ TokenOK(t) /\ task[t].reply # "none" /\ Busy(t) /\ task[t] \in Runs
        /\ Send(t, task[t].left, task[t].at) /\ UNCHANGED model
    BY RunFields DEF IInv, TransferDone
  <1>2. task[t].left \in SUBSET Payments /\ task[t].at \in 0 .. MaxTime
    BY <1>1 DEF Runs
  <1>3. /\ \A s \in Tokens \ {t} : task'[s] = task[s]
        /\ \E q \in task[t].left :
             task'[t] = [at |-> task[t].at, paying |-> q, left |-> task[t].left \ {q},
                         reply |-> "none"]
    BY <1>1, <1>2, SendLeads
  <1>4. PICK q \in task[t].left : /\ task'[t].at = task[t].at /\ task'[t].paying = q
                                  /\ task'[t].left = task[t].left \ {q}
                                  /\ task'[t].reply = "none"
    BY <1>3
  <1>5. Busy(t)' /\ Batch(t)' = Batch(t) /\ \A p : Marked(t, p)' = Marked(t, p)
    <2>1. task'[t] # NoTask
      BY <1>2, <1>4 DEF NoTask, Never
    <2> QED BY <1>1, <1>4, <2>1 DEF Busy, Batch, Marked
  <1>6. \A p : Behind(t, p)' = Behind(t, p)
    BY <1>1, <1>4, <1>5 DEF Behind, Ahead
  <1>7. \A p : LastEmission(t, p)' = LastEmission(t, p)
    BY <1>1, <1>4, <1>6 DEF LastEmission
  <1>8. ASSUME NEW s \in Tokens, s # t
        PROVE  \A p \in Payments : /\ Marked(s, p)' = Marked(s, p) /\ Behind(s, p)' = Behind(s, p)
                                   /\ LastEmission(s, p)' = LastEmission(s, p)
    BY <1>1, <1>3, <1>8, SameRun
  <1> QED BY <1>5, <1>6, <1>7, <1>8, SameProgress

(* ... and the mark of a batch, all of which is behind by then.             *)
LEMMA BatchDoneMoves ==
  ASSUME IInv, NEW t \in Tokens, TransferDone(t), task[t].left = {}
  PROVE  OpenMap' = OpenMap /\ LastMap' = LastMap
  <1> DEFINE p0 == task[t].paying
             at == task[t].at
  <1>1. /\ TypeOK /\ TokenOK(t) /\ task[t].reply # "none" /\ Busy(t) /\ task[t] \in Runs
        /\ model' = [model EXCEPT ![t] = Mark(@, p0, at)]
        /\ Send(t, NextBatch(model'[t], at), at)
    BY RunFields DEF IInv, TransferDone
  <1>2. p0 \in Batch(t) /\ p0 \in Payments /\ at \in 0 .. MaxTime
    BY <1>1, BatchIsDue DEF TokenOK, RunOK, Runs
  <1>3. /\ model' \in [Tokens -> Progress]
        /\ \A s \in Tokens : s # t => model'[s] = model[s]
        /\ \A p \in Payments : Marked(t, p) \/ (p \in Batch(t) /\ p[1] # "Emission")
                                 <=> Marked(t, p)'
        /\ model'[t].emitted = IF p0[1] = "Emission" THEN at ELSE model[t].emitted
    BY <1>1, <1>2, MarkCovers
  <1>4. /\ \A s \in Tokens : s # t => task'[s] = task[s]
        /\ \A p \in Payments : ~Behind(t, p)'
    BY <1>1, <1>2, <1>3, FreshRun
  <1>5. \A p \in Payments : Behind(t, p) <=> p \in Batch(t)
    BY <1>1 DEF Behind, Ahead
  <1>6. ASSUME NEW p \in Payments, p[1] = "Emission"
        PROVE  LastEmission(t, p)' = LastEmission(t, p)
    <2>1. p \in Batch(t) <=> p0[1] = "Emission"
      <3>1. CASE p \in Batch(t)
        <4>1. Batch(t) = {"Emission"} \X Addrs
          BY <1>1, <1>6, <3>1, BatchIsDue
        <4> QED BY <1>2, <3>1, <4>1
      <3>2. CASE p0[1] = "Emission"
        <4>1. Batch(t) = {"Emission"} \X Addrs
          BY <1>1, <1>2, <3>2, BatchIsDue
        <4>2. p[2] \in Addrs /\ p = <<"Emission", p[2]>>
          BY <1>6, PaymentKinds
        <4> QED BY <3>2, <4>1, <4>2
      <3> QED BY <3>1, <3>2
    <2>2. LastEmission(t, p) = model'[t].emitted
      BY <1>3, <1>5, <2>1 DEF LastEmission
    <2>3. LastEmission(t, p)' = model'[t].emitted
      BY <1>4 DEF LastEmission
    <2> QED BY <2>2, <2>3
  <1>7. ASSUME NEW s \in Tokens, s # t
        PROVE  \A p \in Payments : /\ Marked(s, p)' = Marked(s, p) /\ Behind(s, p)' = Behind(s, p)
                                   /\ LastEmission(s, p)' = LastEmission(s, p)
    BY <1>3, <1>4, <1>7, SameRun
  <1>8. ASSUME NEW p \in Payments, p[1] # "Emission"
        PROVE  Marked(t, p)' \/ Behind(t, p)' <=> Marked(t, p) \/ Behind(t, p)
    BY <1>3, <1>4, <1>5, <1>8
  <1> QED BY <1>6, <1>7, <1>8, SameProgress

(* An upgrade is a restart: what was on its way to a ledger was owed.       *)
LEMMA UpgradeRestarts ==
  ASSUME IInv, NEW withArgs \in BOOLEAN, Upgrade(withArgs)
  PROVE  Contract!Restart
  <1>1. /\ model' = [t \in Tokens |-> Untouched] /\ task' = [t \in Tokens |-> NoTask]
        /\ UNCHANGED <<now, created>> /\ TypeOK
    BY DEF IInv, Upgrade
  <1>2. PICK late \in SUBSET {t \in Tokens : Waiting(t)} :
          sent' = [t \in Tokens |->
                     IF t \in late THEN [sent[t] EXCEPT ![task[t].paying] = @ + 1]
                     ELSE sent[t]]
    BY DEF Upgrade
  <1>3. ASSUME NEW t \in Tokens, NEW p \in Payments
        PROVE  ~Behind(t, p)' /\ ~Marked(t, p)' /\ LastEmission(t, p)' = Never
    BY <1>1 DEF Behind, Busy, Marked, LastEmission, Untouched
  <1>4. OpenMap' = [t \in Tokens |-> {p \in Payments : p[1] # "Emission"}]
    BY <1>3 DEF OpenMap, Open
  <1>5. LastMap' = [t \in Tokens |-> [a \in Addrs |-> Never]]
    BY <1>3, PaymentKinds DEF LastMap
  <1>6. sent' = [t \in Tokens |-> sent'[t]]
    BY <1>2
  <1>7. ASSUME NEW t \in Tokens
        PROVE  sent'[t] = sent[t] \/ Contract!PaidLate(t)
    <2>1. CASE t \in late
      <3>1. Waiting(t) /\ sent'[t] = [sent[t] EXCEPT ![task[t].paying] = @ + 1]
        BY <1>2, <2>1
      <3> QED BY <3>1, AwaitedIsOwed DEF Contract!PaidLate
    <2>2. CASE t \notin late
      BY <1>2, <2>2
    <2> QED BY <2>1, <2>2
  <1> QED BY <1>1, <1>4, <1>5, <1>6, <1>7
          DEF Contract!Restart, Contract!OneTime, OpenMap, Open, LastMap

(* The timers of timer.rs keep DistributionContract: each start of a timer  *)
(* tries what is owed at most once and in order, and nothing else is paid,  *)
(* for any number of tokens, holders, unlock items and upgrades.            *)
THEOREM KeepsContract == Spec => ImplementsContract
  <1>1. Init => Contract!Init
    <2> SUFFICES ASSUME Init PROVE Contract!Init
      OBVIOUS
    <2>1. ASSUME NEW t \in Tokens, NEW p \in Payments
          PROVE  ~Behind(t, p) /\ ~Marked(t, p) /\ LastEmission(t, p) = Never
      BY DEF Init, Behind, Busy, Marked, LastEmission, Untouched
    <2>2. OpenMap = [t \in Tokens |-> {p \in Payments : p[1] # "Emission"}]
      BY <2>1 DEF OpenMap, Open
    <2>3. LastMap = [t \in Tokens |-> [a \in Addrs |-> Never]]
      BY <2>1, PaymentKinds DEF LastMap
    <2> QED BY <2>2, <2>3 DEF Init, Contract!Init, Contract!OneTime, OpenMap, Open, LastMap
  <1>2. ASSUME IInv, [Next]_vars
        PROVE  [Contract!Next]_(Contract!vars)
    <2>1. ASSUME OpenMap' = OpenMap, LastMap' = LastMap, UNCHANGED <<now, created, sent>>
          PROVE  UNCHANGED Contract!vars
      BY <2>1 DEF Contract!vars, OpenMap, Open, LastMap
    <2>2. ASSUME UNCHANGED <<model, task>>
          PROVE  OpenMap' = OpenMap /\ LastMap' = LastMap
      <3>1. \A t \in Tokens, p \in Payments :
              /\ Marked(t, p)' = Marked(t, p) /\ Behind(t, p)' = Behind(t, p)
              /\ LastEmission(t, p)' = LastEmission(t, p)
        BY <2>2, SameRun
      <3> QED BY <3>1, SameProgress
    <2>3. CASE UNCHANGED vars
      BY <2>1, <2>2, <2>3 DEF vars
    <2>4. CASE Clock
      <3>1. Contract!Pass
        BY <2>2, <2>4 DEF Clock, Contract!Pass, OpenMap, Open, LastMap
      <3> QED BY <3>1 DEF Contract!Next
    <2>5. ASSUME NEW withArgs \in BOOLEAN, Upgrade(withArgs) PROVE Contract!Next
      BY <1>2, <2>5, UpgradeRestarts DEF Contract!Next
    <2>6. ASSUME NEW t \in Tokens, TimerTick(t) PROVE UNCHANGED Contract!vars
      BY <1>2, <2>1, <2>6, TickMoves DEF TimerTick
    <2>7. ASSUME NEW t \in Tokens, TransferDone(t) PROVE UNCHANGED Contract!vars
      BY <1>2, <2>1, <2>7, NextTransferMoves, BatchDoneMoves DEF TransferDone
    <2>8. ASSUME NEW t \in Tokens, LedgerExecutes(t) PROVE Contract!Next
      <3>1. PICK reply \in {"success", "error"} : task' = [task EXCEPT ![t].reply = reply]
        BY <2>8 DEF LedgerExecutes
      <3>2. Contract!Try(t, task[t].paying, task[t].at)
        BY <1>2, <2>8, <3>1, AnswerTries DEF LedgerExecutes
      <3>3. Contract!Pay(t, task[t].paying, task[t].at)
        BY <2>8, <3>2 DEF LedgerExecutes, Contract!Pay
      <3> QED BY <1>2, <2>8, <3>3, AwaitedIsOwed DEF LedgerExecutes, Contract!Next
    <2>9. ASSUME NEW t \in Tokens, LedgerRefuses(t) PROVE Contract!Next
      <3>1. Contract!Try(t, task[t].paying, task[t].at)
        BY <1>2, <2>9, AnswerTries DEF LedgerRefuses
      <3>2. Contract!Fail(t, task[t].paying, task[t].at)
        BY <2>9, <3>1 DEF LedgerRefuses, Contract!Fail
      <3> QED BY <1>2, <2>9, <3>2, AwaitedIsOwed DEF LedgerRefuses, Contract!Next
    <2>10. ASSUME NEW t \in Tokens, CreateBaseToken(t) PROVE Contract!Next
      <3>1. Contract!Create(t)
        BY <2>2, <2>10 DEF CreateBaseToken, Contract!Create, OpenMap, Open, LastMap
      <3> QED BY <3>1 DEF Contract!Next
    <2>11. ASSUME NEW t \in Tokens, RestoreTimer(t) PROVE UNCHANGED Contract!vars
      BY <2>1, <2>2, <2>11 DEF RestoreTimer
    <2> QED BY <1>2, <2>3, <2>4, <2>5, <2>6, <2>7, <2>8, <2>9, <2>10, <2>11 DEF Next
  <1> QED BY <1>1, <1>2, Inductive, PTL DEF Spec, ImplementsContract, Contract!Spec
=============================================================================
