------------------------- MODULE DistributionContract -------------------------
(***************************************************************************)
(* What the distribution of a DAO's base token promises, without the       *)
(* timers, runs, ledger calls and answers it is made of: which payments    *)
(* are still owed, and that nothing else is paid.                          *)
(*                                                                         *)
(* An allocation or an unlock item is owed once, an emission once a period,*)
(* and a try that fails is not made up for.  A restart (an upgrade of the  *)
(* canister) forgets all that: everything is owed again.                   *)
(***************************************************************************)
EXTENDS Integers

CONSTANTS
  Tokens, Addrs, \* the tokens, and the holders of each
  Payments,      \* pairs of a kind and a holder or an unlock item
  UnlockTimes,   \* when each unlock item falls due
  Period,        \* the time between two emissions
  Never          \* no time

VARIABLES
  now,     \* the clock
  created, \* when each token was created, or Never
  open,    \* the allocations and unlock items not tried since the last restart
  last,    \* when each holder was last emitted to, since the last restart
  paid     \* how often each payment was made

vars == <<now, created, open, last, paid>>

OneTime == {p \in Payments : p[1] # "Emission"}

Init ==
  /\ now = 0
  /\ created = [t \in Tokens |-> Never]
  /\ open = [t \in Tokens |-> OneTime]
  /\ last = [t \in Tokens |-> [a \in Addrs |-> Never]]
  /\ paid = [t \in Tokens |-> [p \in Payments |-> 0]]

InitialOver(t) == \A p \in open[t] : p[1] # "Initial"

Paced(t, a, at) == last[t][a] = Never \/ at - last[t][a] >= Period

(* What may be tried by a run that began at the time `at`.                  *)
Owed(t, p, at) ==
  /\ created[t] # Never /\ created[t] <= at /\ at <= now
  /\ p[1] # "Emission" => p \in open[t]
  /\ p[1] # "Initial" => InitialOver(t)
  /\ p[1] = "Emission" => Paced(t, p[2], at)
  /\ p[1] = "Scheduled" => UnlockTimes[p[2]] <= at

Try(t, p, at) ==
  /\ UNCHANGED <<now, created>>
  /\ Owed(t, p, at)
  /\ IF p[1] = "Emission"
       THEN last' = [last EXCEPT ![t][p[2]] = at] /\ UNCHANGED open
       ELSE open' = [open EXCEPT ![t] = @ \ {p}] /\ UNCHANGED last

Pay(t, p, at) == paid' = [paid EXCEPT ![t][p] = @ + 1] /\ Try(t, p, at)

Fail(t, p, at) == UNCHANGED paid /\ Try(t, p, at)

Create(t) ==
  /\ created[t] = Never
  /\ created' = [created EXCEPT ![t] = now]
  /\ UNCHANGED <<now, open, last, paid>>

(* A restart cuts off at most one payment of each token, which may yet be   *)
(* made.                                                                    *)
PaidLate(t) ==
  \E p \in Payments, at \in 0 .. now :
    Owed(t, p, at) /\ paid'[t] = [paid[t] EXCEPT ![p] = @ + 1]

Restart ==
  /\ UNCHANGED <<now, created>>
  /\ open' = [t \in Tokens |-> OneTime]
  /\ last' = [t \in Tokens |-> [a \in Addrs |-> Never]]
  /\ paid' = [t \in Tokens |-> paid'[t]]
  /\ \A t \in Tokens : paid'[t] = paid[t] \/ PaidLate(t)

Pass == now' = now + 1 /\ UNCHANGED <<created, open, last, paid>>

Next ==
  \/ \E t \in Tokens :
       \/ Create(t)
       \/ \E p \in Payments, at \in 0 .. now : Pay(t, p, at) \/ Fail(t, p, at)
  \/ Restart
  \/ Pass

Spec == Init /\ [][Next]_vars
=============================================================================
