--------------------------- MODULE TokenDistribution ---------------------------
(***************************************************************************)
(* The distribution of a DAO's base token (src/src/ic_govmind_backend/src/ *)
(* timer.rs): an interval timer pays out the initial allocation, then, per *)
(* period, the emission, and the unlock schedule, one transfer at a time.  *)
(*                                                                         *)
(* distribute_tokens_shared holds a mutable borrow of the model over all   *)
(* its awaits, so a tick that fires meanwhile traps: such a tick changes   *)
(* nothing and is a stuttering step.  The progress (initial_executed_at,   *)
(* last_emission_time, executed) is in that model, on the heap only; an    *)
(* upgrade starts again from the model stored when the token was created.  *)
(* create_dao_base_token may be called again: the first token's timer runs  *)
(* on, but the DAO's base token is the new one.  Ledgers are external.      *)
(***************************************************************************)
EXTENDS Integers, Sequences

CONSTANTS
  Tokens,      \* the canisters create_icrc1_canister makes
  Addrs,       \* keys of initial_distribution
  UnlockTimes, \* unlock_schedule: a sequence of timestamps
  Emits,       \* emission_rate is set
  Period,      \* emission_period
  MaxTime,     \* bound on the clock
  MaxUpgrades, \* bound on the upgrades
  Unsure       \* kinds of payments whose bounded-wait call can fail although
               \* it was executed: all of them in the code, few to bound a run

NoToken == "NoToken"

ASSUME ModelAssumption ==
  /\ Addrs # {} /\ NoToken \notin Tokens
  /\ UnlockTimes \in Seq(Nat)
  /\ Emits \in BOOLEAN /\ Unsure \subseteq {"Initial", "Emission", "Scheduled"}
  /\ Period \in Nat \ {0} /\ MaxTime \in Nat /\ MaxUpgrades \in Nat

Unlocks == DOMAIN UnlockTimes

(* What can be paid out: DistributionType and the recipient or item.        *)
Payments == ({"Initial", "Emission"} \X Addrs) \cup ({"Scheduled"} \X Unlocks)

VARIABLES
  now,      \* the clock, in periods of the timer
  created,  \* when each token was created, or Never
  base,     \* org_info.base_token: the newest token, or NoToken
  timer,    \* a token's interval timer: none, restoring (set_timer 2s), running
  model,    \* the progress kept in the heap's copy of a token's model
  task,     \* the run of distribute_tokens_shared that awaits the ledger
  sent,     \* external: how often a ledger executed each payment
  history,  \* DISTRIBUTION_HISTORY: how many records each payment has
  upgrades  \* how often the canister was upgraded

vars == <<now, created, base, timer, model, task, sent, history, upgrades>>

Never == -1
NoTask == [at |-> Never, paying |-> <<"None", "None">>, left |-> {}, reply |-> "none"]

Untouched == [initial |-> FALSE, emitted |-> Never, unlocked |-> {}]
NoRecords == [success |-> 0, error |-> 0]

Init ==
  /\ now = 0 /\ upgrades = 0 /\ base = NoToken
  /\ created = [t \in Tokens |-> Never]
  /\ timer = [t \in Tokens |-> "none"]
  /\ model = [t \in Tokens |-> Untouched]
  /\ task = [t \in Tokens |-> NoTask]
  /\ sent = [t \in Tokens |-> [p \in Payments |-> 0]]
  /\ history = [t \in Tokens |-> [p \in Payments |-> NoRecords]]

-----------------------------------------------------------------------------
(* distribute_tokens_shared.  `at` is the time read when the run began.     *)

EmissionDue(m, at) == Emits /\ (m.emitted = Never \/ at - m.emitted >= Period)

UnlockNow(m, at) == {u \in Unlocks : u \notin m.unlocked}
UnlockOnTheDot(m, at) == {u \in Unlocks : u \notin m.unlocked /\ UnlockTimes[u] = at}
UnlockDue(m, at) == {u \in Unlocks : u \notin m.unlocked /\ UnlockTimes[u] <= at}

First(items) == CHOOSE u \in items : \A v \in items : u <= v

(* The next batch of the run: the initial allocation, the emission, then    *)
(* the due items of the schedule one by one.                                *)
NextBatch(m, at) ==
  IF ~m.initial THEN {"Initial"} \X Addrs
  ELSE IF EmissionDue(m, at) THEN {"Emission"} \X Addrs
  ELSE IF UnlockDue(m, at) # {} THEN {<<"Scheduled", First(UnlockDue(m, at))>>}
  ELSE {}

(* What the run marks when a batch is through, failed transfers included.   *)
MarkNextDue(m, payment, at) == [m EXCEPT !.initial = TRUE, !.emitted = at + Period]
Mark(m, payment, at) ==
  CASE payment[1] = "Initial"   -> [m EXCEPT !.initial = TRUE]
    [] payment[1] = "Emission"  -> [m EXCEPT !.emitted = at]
    [] payment[1] = "Scheduled" -> [m EXCEPT !.unlocked = @ \cup {payment[2]}]

(* Send one transfer of the batch and await it; an empty batch ends the run.*)
Send(t, batch, at) ==
  IF batch = {} THEN task' = [task EXCEPT ![t] = NoTask]
  ELSE \E p \in batch :
         task' = [task EXCEPT ![t] = [at |-> at, paying |-> p, left |-> batch \ {p},
                                      reply |-> "none"]]

BorrowIgnored(t) == TRUE
Borrowable(t) == task[t] = NoTask

TimerTick(t) ==
  /\ timer[t] = "running" /\ Borrowable(t)
  /\ NextBatch(model[t], now) # {}
  /\ Send(t, NextBatch(model[t], now), now)
  /\ UNCHANGED <<now, created, base, timer, model, sent, history, upgrades>>

RecordSuccess(reply) == "success"
RecordOf(reply) == reply

(* The transfer's result arrives: add_distribution_record, then the next    *)
(* transfer of the batch, or the batch's mark and the next batch.           *)
TransferDone(t) ==
  LET run == task[t] IN
  /\ run.reply # "none"
  /\ history' = [history EXCEPT ![t][run.paying][RecordOf(run.reply)] = @ + 1]
  /\ IF run.left # {}
       THEN Send(t, run.left, run.at) /\ UNCHANGED model
       ELSE /\ model' = [model EXCEPT ![t] = Mark(@, run.paying, run.at)]
            /\ Send(t, NextBatch(model'[t], run.at), run.at)
  /\ UNCHANGED <<now, created, base, timer, sent, upgrades>>

(* The ledger of a token (external).  A transfer executed after its call    *)
(* timed out counts as executed when the unsure answer is given.            *)
Waiting(t) == task[t] # NoTask /\ task[t].reply = "none"

LedgerExecutes(t) ==
  /\ Waiting(t)
  /\ sent' = [sent EXCEPT ![t][task[t].paying] = @ + 1]
  /\ \E reply \in {"success"} \cup (IF task[t].paying[1] \in Unsure THEN {"error"} ELSE {}) :
       task' = [task EXCEPT ![t].reply = reply]
  /\ UNCHANGED <<now, created, base, timer, model, history, upgrades>>

LedgerRefuses(t) ==
  /\ Waiting(t)
  /\ task' = [task EXCEPT ![t].reply = "error"]
  /\ UNCHANGED <<now, created, base, timer, model, sent, history, upgrades>>

-----------------------------------------------------------------------------
(* create_dao_base_token, once create_icrc1_canister answered: the token    *)
(* becomes the base token and its timer is set up; with an initial          *)
(* allocation alone it is not.                                              *)
CreateBaseToken(t) ==
  /\ created[t] = Never
  /\ created' = [created EXCEPT ![t] = now]
  /\ base' = t
  /\ timer' = [timer EXCEPT ![t] = IF Emits \/ Unlocks # {} THEN "running" ELSE "none"]
  /\ UNCHANGED <<now, model, task, sent, history, upgrades>>

(* The heap, its timers and the pending runs are gone; a transfer under way *)
(* may still be executed.  Only Upgrade arguments restore a timer, the base *)
(* token's, with the model as it was when the token was created.            *)
Upgrade(withArgs) ==
  /\ upgrades < MaxUpgrades
  /\ upgrades' = upgrades + 1
  /\ timer' = [t \in Tokens |-> IF withArgs /\ t = base THEN "restoring" ELSE "none"]
  /\ model' = [t \in Tokens |-> Untouched]
  /\ task' = [t \in Tokens |-> NoTask]
  /\ \E late \in SUBSET {t \in Tokens : Waiting(t)} :
       sent' = [t \in Tokens |->
                 IF t \in late THEN [sent[t] EXCEPT ![task[t].paying] = @ + 1] ELSE sent[t]]
  /\ UNCHANGED <<now, created, base, history>>

RestoreTimer(t) ==
  /\ timer[t] = "restoring"
  /\ timer' = [timer EXCEPT ![t] = "running"]
  /\ UNCHANGED <<now, created, base, model, task, sent, history, upgrades>>

Clock ==
  /\ now < MaxTime
  /\ now' = now + 1
  /\ UNCHANGED <<created, base, timer, model, task, sent, history, upgrades>>

Next ==
  \/ \E t \in Tokens :
       \/ TimerTick(t) \/ TransferDone(t) \/ LedgerExecutes(t) \/ LedgerRefuses(t)
       \/ CreateBaseToken(t) \/ RestoreTimer(t)
  \/ \E withArgs \in BOOLEAN : Upgrade(withArgs)
  \/ Clock

Spec == Init /\ [][Next]_vars

(* Timers fire, bounded-wait calls answer, answers are delivered, time goes *)
(* on.  Nothing makes anybody create a token, or upgrade.                   *)
FairSpec ==
  /\ Spec /\ WF_vars(Clock)
  /\ \A t \in Tokens :
       /\ WF_vars(TimerTick(t)) /\ WF_vars(RestoreTimer(t)) /\ WF_vars(TransferDone(t))
       /\ WF_vars(LedgerExecutes(t) \/ LedgerRefuses(t))

-----------------------------------------------------------------------------
Progress == [initial : BOOLEAN, emitted : {Never} \cup 0 .. MaxTime, unlocked : SUBSET Unlocks]
Runs == [at : 0 .. MaxTime, paying : Payments, left : SUBSET Payments,
         reply : {"none", "success", "error"}]

(* The types of the state.                                                  *)
TypeOK ==
  /\ now \in 0 .. MaxTime
  /\ created \in [Tokens -> {Never} \cup 0 .. MaxTime]
  /\ base \in {NoToken} \cup Tokens
  /\ timer \in [Tokens -> {"none", "restoring", "running"}]
  /\ model \in [Tokens -> Progress]
  /\ task \in [Tokens -> Runs \cup {NoTask}]
  /\ sent \in [Tokens -> [Payments -> Nat]]
  /\ history \in [Tokens -> [Payments -> [success : Nat, error : Nat]]]
  /\ upgrades \in 0 .. MaxUpgrades

(* Each start of a token's timer (its creation and every upgrade) pays an   *)
(* allocation or an unlock item at most once, however often a transfer      *)
(* fails, an answer is unsure or a tick overlaps a run.                     *)
OncePerStart ==
  \A t \in Tokens, p \in Payments : p[1] # "Emission" => sent[t][p] <= 1 + upgrades

(* An unlock item is never paid before its timestamp.                       *)
NothingUnlockedEarly ==
  \A t \in Tokens, u \in Unlocks :
    sent[t][<<"Scheduled", u>>] > 0 => UnlockTimes[u] <= now

(* No more is emitted than one amount per started period of each start.     *)
EmissionPaced ==
  \A t \in Tokens, a \in Addrs :
    sent[t][<<"Emission", a>>] > 0 =>
      /\ created[t] # Never
      /\ sent[t][<<"Emission", a>>] <= (1 + upgrades) * (1 + (now - created[t]) \div Period)

(* A record of success stands for an executed transfer, and until the first *)
(* upgrade every executed transfer has a record, if only of an error, or its *)
(* answer is on the way.                                                    *)
HistoryIsTrue ==
  \A t \in Tokens, p \in Payments :
    /\ history[t][p].success <= sent[t][p]
    /\ upgrades = 0 =>
         sent[t][p] <= history[t][p].success + history[t][p].error
                       + (IF task[t].paying = p /\ task[t].reply # "none" THEN 1 ELSE 0)

Tried(t, p) == history[t][p].success + history[t][p].error > 0

(* The initial allocation is tried for everyone before an unlock or an      *)
(* emission is tried for anybody.                                           *)
InitialFirst ==
  \A t \in Tokens, p, q \in Payments :
    p[1] # "Initial" /\ q[1] = "Initial" /\ Tried(t, p) => Tried(t, q)

(* As long as a token has its timer, every item of its schedule is paid, or *)
(* fails and is recorded as failed, in the end: also when the item falls    *)
(* due during a run, and after an upgrade that restores the timer.          *)
ScheduleServed ==
  \A t \in Tokens, u \in Unlocks :
    created[t] # Never /\ UnlockTimes[u] <= MaxTime
      ~> Tried(t, <<"Scheduled", u>>) \/ timer[t] = "none"

(* Whoever was promised an initial allocation gets it once: "Initial        *)
(* allocation: address -> token amount" (dao.rs:63).                        *)
InitialAllocationOnce ==
  \A t \in Tokens, a \in Addrs : sent[t][<<"Initial", a>>] <= 1

-----------------------------------------------------------------------------
(* The contract the timers implement.                                       *)

Busy(t) == task[t] # NoTask
Batch(t) == NextBatch(model[t], task[t].at)

(* What a run has still to try of its batch, and what is behind it.         *)
Ahead(t, p) == p \in task[t].left \/ (p = task[t].paying /\ task[t].reply = "none")
Behind(t, p) == Busy(t) /\ p \in Batch(t) /\ ~Ahead(t, p)

Marked(t, p) ==
  \/ p[1] = "Initial" /\ model[t].initial
  \/ p[1] = "Scheduled" /\ p[2] \in model[t].unlocked

LastEmission(t, p) == IF Behind(t, p) THEN task[t].at ELSE model[t].emitted

(* The batch is marked when it is through, but what it tried is behind.     *)
Contract == INSTANCE DistributionContract WITH
  open <- [t \in Tokens |-> {p \in Payments : p[1] # "Emission" /\ ~Marked(t, p) /\ ~Behind(t, p)}],
  last <- [t \in Tokens |-> [a \in Addrs |-> LastEmission(t, <<"Emission", a>>)]],
  paid <- sent

(* However long a run takes, whatever ticks meanwhile, fails or is answered *)
(* unsurely, the timers pay what is owed, at most once and in order: the    *)
(* initial allocation first, an emission a period, unlock items when due.   *)
ImplementsContract == Contract!Spec
=============================================================================
