# Formal models of GovMind

TLA+ models of the canisters, the API proxy and the web application of this repository, the
TLC runs that check them on small instances, and TLAPS proofs of what matters most for every
instance. Paths are relative to the directory that holds this repository as `src/`; a bare
`store.rs:465` is a line of the canister the paragraph is about.

## 1. The system

GovMind is a set of Internet Computer canisters, a proxy for AI services and a web
application. A canister runs one message at a time. An update method is interrupted
only at an `await`, where any other message may run; an error it returns undoes
nothing, a trap undoes what happened since the last `await`. Heap data is lost at an
upgrade unless `pre_upgrade` put it in stable memory, and the calls that wait at an
`await` are never resumed. Nearly all that is hard in the canisters comes from these rules.

The proxy and the web application are JavaScript: a handler runs undisturbed to its next
`await`, and other handlers, the user's clicks and timers run while it waits. Of React the
models use four facts. What a click sets is rendered before the next click, and so is a
mutation's `isPending`. A handler keeps the values of the render it was made in. A page or
tab that is left loses its state, while its handlers that wait go on: what they would show
is lost, what they send and where they navigate is not. A modal covers the rest of its
page. A query of react-query is cached under its key until the browser reloads.

| Part | State | Operations | Interacts with | What is hard | Correct when |
| --- | --- | --- | --- | --- | --- |
| Hub, payments (`ic_govmind_hub/src/store.rs` `pay.rs`) | orders in a stable map; balances at the ICP ledger | create, confirm (verify, share), refund | ICP ledger | a copy of the order is carried over awaits and written back; lost answers; a time window | what an order claims is backed by the ledger; one settlement per order |
| Hub, record and users (`api_init.rs`, `api_update.rs`, `store.rs`) | a record on the heap and in a stable cell, users | init, upgrade, login, links, invite codes | orders take their ids here | heap and cell drift apart | ids are given once, nothing saved is taken back |
| Factory (`ic_govmind_factory`) | DAO of each caller, list of canisters, default environment | create, upgrade, set environment | management canister, DAO canisters | a check before three awaits is used after them; partial failure | what is registered is installed and listed; nothing created is lost |
| DAO, governance (`ic_govmind_backend`: `update_api.rs`, `store.rs`) | admins, committees, next ids on the heap; proposals in a stable map | admins, committees, proposals | analyzer reads committees | what is saved when | ids are new |
| DAO, token distribution (`timer.rs`) | progress on the heap, records in a stable map, timers | tick, upgrade, create token | a token ledger | a long run of transfers under a 60 s timer; progress is not persisted | nobody is paid twice, early, or never |
| DAO, EVM wallet (`wallet.rs`) | a cached nonce per chain | transfer, `set_chain_nonce` | EVM RPC canister, threshold signatures | nonces read before awaits, of whichever address the caller gives | a payment on the wallet's own count leaves no gap; no success without a transaction |
| SNS registry (`ic_govmind_sns`) | listed SNSes with counts, proposals, both in stable maps | fetch, refresh, add, remove, import, export | SNS governance canisters, SNS root | maps and counts change around awaits | counts are those of what is stored |
| Proposal analyzer (`ic_govmind_proposal_analyzer`) | proposals and a counter | submit, analyse, retry, draft, debate | API proxy over HTTP outcalls | overlapping analyses | no proposal is left Analyzing, analyses are of their texts |
| API proxy (`ic_govmind_api_proxy/server.js`) | the window of a rate limiter, requests under way | four AI routes, health, signals | AI service, process manager | the order of middlewares and checks; a shutdown while requests wait and connections are open | one answer per request, calls of the paid service within the limit |
| Web, session (`useAuthClient.jsx`, `App.jsx`, `daoHooks.js`) | client, identity, route, query cache | login, logout, navigation, queries | Internet Identity, factory, DAO | the cache outlives a logout; late answers | a call is the user's own, to his own DAO |
| Web, DAO creation (`CreateDaoPage.jsx`) | form, step, creating | edit, next, back, create | factory, then the new DAO | checks per step, two awaits and a timer, page left | DAO and token are of one checked form |
| Web, treasury (`TreasuryTab.jsx`) | dialog, balances shown | open, type, send, dismiss | DAO canister | dismissed and reopened while sending | a recipient is of the asset; few overlaps |
| Web, copilot (`ProposalCopilotPage.jsx`) | step, draft, form, debate | draft, use, debate, submit | analyzer, DAO canister | three awaits and a stepper that goes back | a committee is of its draft |
| Web, analysis (`ProposalListPage.jsx`, `ProposalAnalysisPanel.jsx`), proposals (`ProposalsPage.jsx`) | selection, ids, caches, modal | select, analyze, retry, submit | analyzer | answers after another selection, queries that fail | what is shown is the selected proposal's; spinners end |
| Web, committees (`CommitteesTab.jsx`) | form, editor | add, edit, save | DAO canister | one flag for two forms, an editor changed during a save | an answer throws no edit away |
| Web, other pages; scripts, Solidity contracts, `evm_rpc_types`, `icrc1_ledger` | - | - | read what the canisters answer | - | - |

Each canister is a system of its own: none calls an update method of another, except
the factory, which creates, installs and upgrades DAO canisters. So there is one module
per part, and the composition the code has (factory and the `init` and `post_upgrade`
of a DAO canister) is inside `DaoFactory`. A page of the web application meets a canister
only through calls that may be answered, refused or lost, and of which other clients make
as many: the page's module has the canister's part of such a call as an external action.

## 2. The modules

In each module the variables are the state of the part, each action is a stretch of
handler code from one `await` to the next (so every interleaving the canister allows
is one of the model), and the other side of a call is an external action. An action
with the name of a handler is that handler up to its first `await`.

### HubPayment, PaymentContract

`orders` is `PAYMENT_STORE`, `next_order_id` the saved counter, `ledger` the external
ledger's view of each order's subaccount. `calls` holds the calls at an `await`, each
with the **copy** of the order it took before (`confirm_payment_order`, store.rs:459, and
`refund_payment_order`, :620) and writes back at its end. The ledger serves requests in
order (`inbox`; the Internet Computer orders requests between two canisters), its answers
arrive in any order. `LedgerBalance` may answer 0, as `token_balance` makes of a failed
call; `LedgerRejects` is an error; with `Faulty` an executed transfer is answered with an
error or the code after an `await` never runs (`CallbackLost`: a trap or an upgrade).
Confirming an order that is settled already writes back what was read, a stutter.
`Status` leaves out `Cancelled`, which no code sets.

`PaymentContract` is what an order's life promises, without calls or copies: `Spec` allows
a handler to put an older status back (`Reopen`), `StrictSpec` does not. `HubPayment`
implements the first always and the second when calls do not overlap and nothing is lost.

### TokenDistribution, DistributionContract

`model` is the heap's copy of the distribution model with its progress, `task` the run of
`distribute_tokens_shared` that awaits the ledger, `sent` what the ledger executed,
`history` the records. The run holds a mutable borrow over its awaits, so a tick during a
run traps and changes nothing: `TimerTick` needs `Borrowable`. `NextBatch` gives the order
of timer.rs:76-135; `Mark` marks a batch when it is through, failed transfers included.
`Upgrade` drops timers, runs and progress; with upgrade arguments it restores the base
token's timer from the model kept at creation. `CreateBaseToken` may happen for several
tokens, as `create_dao_base_token` has no guard; each has its timer.

`DistributionContract` is what the timers promise without ticks, runs and answers: which
allocations and unlock items are still open, when each holder was last emitted to, and that
only what is `Owed` by these is tried, whether the try pays or fails. `Restart` is an
upgrade: everything is open again, and one payment of each token may still be made late.
The code marks a batch when it is through; in the contract each try counts at once, so the
mapping takes what is behind a run as tried (`Behind`).

### EvmNonce

A transfer on an EVM chain: `Transfer` reads the cached nonce, `NodeCounts` is the node's
count, `Resolved` compares and caches it and asks for a signature, `Signed` sends, `Sent`
ends with the answer and increments the cache. `local` is the cache, `mined` and `pool` the
chain. The node refuses nonces below its count and a second transaction with a pending
nonce (all transactions offer the same gas price). `Served` is the one chain that
`key_env`'s RPC service serves, whatever chain type the transfer names. `Upgrade` drops
transfers; what was sent may still arrive. Callers retry what failed.

`own` says whether the caller of `wallet_token_transfer` gave the wallet's own address. The
count the node is asked for is that of the address given (`CountsOf`), while the wallet's key
signs in any case; another account's count is any number, and the cache keeps it. Such a
payment can leave a gap of nonces, behind which it waits, and the instance contains it; the
properties say what holds of the payments that gave the wallet's own address, and of all of
them that answers are true and none is paid more often than tried.

### HubState

`heap` and `stable` are the two copies of the record. `Loaded` and `Commit` are the
`load()` and `save()` around a handler; a handler that refuses after its `load()` changes
the heap alone. `Upgrade` saves, loads and sets what the arguments give on the heap.
`users` keeps the DAO roles; the profile setters overwrite other fields and are left out.

### DaoFactory

`call` is the stage of each creation or upgrade: `CyclesSuffice`, `CanisterCreated` (at
the management canister), `CanisterAnswered` (the factory lists it and asks for the
installation), `DaoInit` (the DAO canister runs its `init`), `DaoCreated` (the factory
registers). `Refused` is an error at any of them. `FactoryUpgrade` cuts off every call.
`create_dao_canister` and `upgrade_dao_canister`, which the owner may call, take arguments
of his choice. `installed` keeps the root, `key_env` and key ids of each DAO canister: an
upgrade sets root and key ids, not `key_env` (`ic_govmind_backend/src/init.rs:97`).

### DaoGovernance

`state` (heap), `saved` (stable cell) and `proposals` (stable map). `create_proposal`
saves the state, other calls leave that to `pre_upgrade`, which a controller may skip:
`Upgrade` then brings back the state saved last. Committee ids are cut to 16 bits,
`% IdModulus`. DAOs start without committees, as the web application and the scripts make
them. Votes, quorums and expiry are fields that no call changes. `proposal`, `committee`
are the counters of `next_ids`; `MaxCalls` bounds them.

### SnsRegistry

`listed` is `SNS_CANISTERS` reduced to the counts, with a mark `given` on counts a caller
made up; `stored` is `SNS_PROPOSALS`, a proposal reduced to open or decided. A fetch is
`Fetch`, `GovernanceAnswers`, `FetchDone`; a refresh `Refresh`, `RootAnswers` (a full one
clears both maps there), `MetadataAnswers` (those that answered, with counts of zero).

### ProposalAnalyzer

`proposals` and `counter` are the stable structures, `job` the calls at an outcall with
the text they read before it. No `await` lies between the insert of a submission and the
status Analyzing, so Pending is never seen by another call. A proposal's title and
description are one `Text`, and an analysis is the `Text` it was made from. `AttemptRetried`
is a retryable error: the next attempt starts at once, the timer set for the delay having
an empty handler that nobody awaits (lib.rs:775). `Upgrade` empties both structures, as
`StableBTreeMap::new` and `StableCell::new` do on their first use (lib.rs:218, 219).

### ApiProxy

`request` is where each request is and which answers it was sent. `Receive` is all that
happens before the await: `express.json`, the limiter (counted under `/api/`, after the
body is parsed), the checks of the route. `ServiceReplies` is the rest of the handler, by
kind of reply; what fails there is caught once. All four AI routes have this shape. There is
one window, since all outcalls reach the server from one address. A request is on a
connection of its own; after its answer (`Delivered`) the connection is kept open or not, and
a kept one brings another request or closes (`ConnectionCloses`). `Signal` refuses new
connections and leaves the open ones, whose further requests are marked `late`; `Exit` comes
when no connection is open, `Kill` is the process manager's.

### Session

`auth` is the state of `AuthProvider`, with the login window; `daoInfo` and `backend` are
the caches of `useDaoInfo` and `useBackendDaoInfo` with their fetches under way, `signed`
the last call of the DAO page. A user has at most one DAO, so a DAO is named by its owner.
A logout, a login of another user and a late answer interleave as they like; only `Reload`
empties the caches. The remaining caches of `daoHooks.js` are keyed by the DAO as `backend` is.

### CreateDaoPage, TreasuryTab, ProposalCopilot, ProposalsPage, CommitteesTab

One page or tab each: its `useState`s as one or two records, `call` the handlers under way
with the values of their click and whether their page is still there (`mounted`), and the
canister's side as far as the properties tell it apart. A form is one value per step or
per origin: in `CreateDaoPage` a step is filled in, blank, or filled in with an amount
that `toUnits` refuses (the numbers of members and chains may always fail to convert); in `ProposalCopilot` a text is the draft it came from and a
committee carries the draft it was suggested with; in `TreasuryTab` a recipient carries the
asset it was typed for. `LeavePage`, `LeaveTab` and `Leave` may happen at any time.

### AnalysisPanel

The two screens that have a proposal analyzed; `screen` says which. They differ in whether a
selection forgets `analyzedId`. `exists` and `fetched` are the caches of `useProposalExists`
and `useProposal`, refetched at an interval, `View` what the panel shows of them.

## 3. The runs

| Run | Instance | What it shows |
| --- | --- | --- |
| `payment_overlap` | one order, two calls at once, faults | types; an order stored as Paid was paid (`PaidIsBacked`); Refunded and shared are never claimed of money that did not move (`ClaimsAreReal`); the contract |
| `payment_serial` | two orders, one call at a time, no faults, fair | one settlement per order, the base fee stays, ids and payers stay, every call ends, money that moved is recorded, the strict life cycle |
| `payment_race` | two calls at once, no faults | **violation** of `PaidIsNotRefunded`, see 6 |
| `distribution` | one token, two holders, two unlock items out of order, one upgrade, fair | `DistributionContract` implemented; payments bounded per start of the timer, nothing early, emission paced, initial allocation first; history true, every item served while the timer lives |
| `distribution_restart` | two tokens, one upgrade | **violation** of `InitialAllocationOnce` |
| `evm` | two payments, one tried twice, two chain types, either address, nonces set by hand, fair | no payment that gave the wallet's address waits behind a gap (`NoGapOfOwnCount`), and those pending are mined (`OwnPaymentsMined`); Ok means a transaction, no payment more often than tried (`PaidAsAnswered`) |
| `canisters` | hub: two principals, three codes for a limit of two, two orders, two upgrades. SNS: one SNS with up to two proposals, two calls under way, imports. Factory: two callers, two calls, two canisters, upgrades. Governance: two principals, two types, three ids, upgrades that skip `pre_upgrade` | order ids fresh, only an upgrade's settings are unsaved, one role per DAO; SNS counts backed by what is stored, only imports make them differ; what is registered is installed, listed and one caller's, only an upgrade loses a canister; proposal ids new, committees distinct |
| `factory_race` | one caller, two calls at once | **violation** of `DaosAreNotReplaced` |
| `analysis` | canister: two calls, two texts, a picked id of the generated form, upgrades. Screens: two proposals, two handlers, other users. Fair | nothing left Analyzing, analyses of their texts, generated ids new; one handler of a screen at a time, results of the selected proposal unless another was selected during a handler; analyses and spinners end |
| `web` | two handlers at a time on each page; two assets, two drafts, two members, two committees, two users; two requests at the proxy with a limit of two. Fair | see below |
| `panel_stale` | the screens alone | **violation** of `ShownIsOfSelected` |
| `results_hidden` | the proposals page alone | **violation** of `ResultsAreShown` |

`web` checks: the Send button is disabled only while a transfer is under way, and more than
one is under way only when sending dialogs were dismissed (`SendingIsTrue`); a transfer goes
to a recipient typed for its asset (`RecipientIsOfTheAsset`); DAO and token are made of one
form with nothing missing (`DaosAreOfCheckedForms`); the page says creating
exactly while one handler of its own waits (`CreatingIsTrue`); a submitted proposal names no
committee of another draft, and the sidebar's persona exists (`CommitteeIsOfTheProposal`);
an answer throws no edit away (`NoEditIsLost`, of two pages); a request is answered once,
and the calls of the AI service stay within the limit (`AnsweredOnceWithinLimit`); calls to
a DAO are its logged-in owner's (`CallsAreTheUsers`); the treasury's dialog, a creation and
a draft end, and a shutdown ends unless a connection that was open brings further requests
(`WaitsEnd`).

`canisters`, `analysis` and `web` are sums: `part` picks the one component that runs, and
the others rest in their initial state. Their states add up instead of multiplying, and
nothing is lost, as the parts share no variable: what one does to another is an external
action of the other.

**Bounds.** Two concurrent calls suffice for a race on one copy, check or cache: each
property relates one call to what any other did while it waited, and a third call adds only
a longer sequence of the same interference. `payment`: prices 4, base fee 2 and ledger fee 1
keep the order of the real ones; deposits of 2 and 4 up to 6 give too little, exactly and
too much; `Window` 0 and `MaxTime` 1 have an order within and past its window.
`distribution`: times 0..1, period 1 and items at 1 and 0 let an item fall due before,
during and after a run, and an emission period end; `Unsure` restricts the unsure answers to
unlock transfers, the others failing or succeeding truly. `evm`: nonces up to 1 set by hand
put the cache behind, at and ahead of the chain, and other accounts' counts up to 1 leave a
gap that the other payment fills; of two payments one is retried (`MCTries`), which has a
first attempt accepted but reported as failed, then a second. `canisters`: `Limit` 1 with two proposals leaves
one that is stored but no longer listed by the answer. `analysis`: the picked id 3 is
reached by the counter within its bound 4; the three attempts are the code's. `canisters`:
`IdModulus` 8 is above `MaxCalls`, as 65536 is above any number of calls expected. `web`:
two amounts (0 and 1) with a balance of 1 give a payment that is covered and one that no
longer is; `MaxAbandoned` 1 allows one dismissal while sending, which the proof lifts; one
valid form beside a blank and an unconvertible one are all that the checks tell apart; two
drafts, of which the second replaces the first; two users, one after the other in one
browser; `RateLimit` 2 with two requests at a time has a window filled while both wait.
`analysis`: `Popular` lets others submit one of the two proposals. Symmetry is used only in
runs without liveness. `CHECK_DEADLOCK FALSE` where the bounds (orders, attempts, ids, the
clock) let the instance come to rest. The theorems of section 4 hold for every value of these
constants that their assumptions allow.

**Fairness.** Messages to other canisters are answered by the Internet Computer, if only
with an error, and answers are delivered. So: in `HubPayment` the ledger serves requests and
resumed calls run; in `TokenDistribution` the clock goes on, timers fire, transfers are
answered (they are bounded-wait calls); in `EvmNonce` calls are answered and blocks take
what can be mined; in `ProposalAnalyzer` every outcall is answered, if by a timeout. In the
web application a call that awaits a canister ends, with an answer or an exception, and the
timer of `CreateDaoPage` runs (`WF` on what continues a handler); in `AnalysisPanel` a
query, which is repeated every 3 s and goes on when the selection moves, is answered truly
again and again (`SF` on `FetchExists` and `FetchProposal`); in `ApiProxy` the AI service
replies or the request fails, answers arrive, and node closes a kept connection on which no
request comes (its keep-alive timeout; external). Nothing makes a user, an owner or a controller do anything, or
an upgrade happen.

## 4. What is proved

Every invariant, action property and refinement that a passing run checks is also a theorem:
the runs show it on a small instance, the theorem for every value of the constants that the
named assumptions allow. Each theorem is of the specification its run checks, or of the
component's own `Spec`, of which that run is an instance. An invariant is first checked by
TLC together with the strengthening below, then proved by steps of its actions.

The assumptions are `PricesAssumption` and `BoundsAssumption` (prices, fees and bounds are
numbers, the base fee between the ledger's fee and the price), `ChainAssumption`,
`ModelAssumption` (there is a holder, unlock times are numbers, the period is not 0, and
`NoToken` is no token), `AnalyzerAssumption`, `HubAssumption`, `CanistersAssumption` (of the
registry: `Limit` and `MaxProposals` are not 0, as counts of one that callers import must
fit the type; of the factory: the production environment is one; of the governance:
controllers are principals), `TreasuryAssumption`, `AnalysisAssumption` and `WebAssumption`
(the page has a chain and a member at least; what stands for "nothing" is no value). TLC
evaluates all of them in the runs. Two theorems of `HubSettlementProofs` and one of
`CanistersProofs` have a hypothesis more, named there.

- **HubPaymentProofs.** `IInv` is inductive (`Inductive`). `PaidIsBacked` is not by itself:
  a confirm writes back a copy, so the invariant also says of every copy in flight that it
  is of a stored order, claims nothing unbacked (`Backed`) and that the answer it got is
  no more than the ledger's history allows (`PendingOK`), and that a request in the inbox
  belongs to one waiting call (`RequestsAwaited`). Every handler ends a stretch in one of
  two ways, so two lemmas (`FinishKeepsIInv`, `AwaitKeepsIInv`) carry the proof. From it:
  `TypeCorrect`, `PaidOrdersAreBacked`, `ClaimsAreAlwaysReal`, `OrdersKeepIdentity`, and
  the refinement `KeepsContract`: every step is a step or a stutter of `PaymentContract`.
- **HubSettlementProofs.** `SettlesFairly` and `KeepsStrictContract`, for one call at a time
  and no faults (`OneAtATime`; `payment_race` shows what overlapping calls do instead), and
  any number of users, orders and deposits. `IInv` does not say it, as an executed transfer is stored only
  when its call resumes. `Settling` adds that a stored order agrees with its account, but
  for the transfer of the one call under way (`UpToDate`, `Moved`), and that this call still
  finds the order and the money that it read (`OnItsWay`).
- **TokenDistributionProofs.** What was paid is in `sent`, what the canister knows of it in
  `model` and in the run that awaits the ledger. The invariant `TokenOK` says what a run has
  ahead and behind, and that it pays the next batch of a model that does not mark it yet
  (`RunOK`); then it counts: what is neither marked nor behind was paid at most once per
  upgrade (`OnceOK`), emissions once per period up to the last one made (`PacedOK`), and
  records with what is about to be recorded are no more than payments (`RecordsOK`). From it
  `PaysByTheModel`, `HistoryTold` and `TypeCorrect`. For the refinement
  `KeepsContract` it gives that what a run awaits is owed (`AwaitedIsOwed`): an answer is a
  try, a tick, the next transfer and the mark of a batch are stutters, an upgrade a restart.
- **EvmNonceProofs.** A transaction enters the pool with the nonce its transfer carried, so
  `NoGapOfOwnCount` needs: what a transfer that gave the wallet's address carries is at most
  the chain's count (`CarriedOK`). A block keeps it because the pool has a nonce once
  (`PoolOK`): no other transaction waits with the nonce that was mined. From this (`Inductive`)
  `OwnCountLeavesNoGap` and `TypeCorrect`, whatever the other transfers' counts put into the
  cache. `PaidWhenAnswered` counts tries, over a pool that may have gaps: what was paid, is
  pending or is being asked for is no more than what was tried (`Counted`), and an answer on
  its way is true (`ToldTrue`).
- **CanistersProofs.** Four parts, one invariant each; `StepOfEach` says that a step of one
  leaves the others alone. Factory: a canister between its creation and its registration
  belongs to one call and to no caller (`HoldsItsOwn`), hence `LosesNothing`. Governance:
  heap and saved state agree on the next proposal id, which every stored id is below; and
  committee ids are distinct and below the next one in the heap and in what is saved
  (`CommitteesInv`), hence `IdsAreNew`, its part on committees while no more calls are made
  than there are ids, 65536 in the code (`MaxCalls <= IdModulus`). Hub: heap and cell agree
  but for what upgrades set (`OrderIdsNew`, `NothingElseUnsaved`). SNS registry: what a call
  carries over an await is of a known SNS (`JobFits`), and each stretch keeps the counts
  backed and exact or reset (`CountsTrue`); that needs the cardinalities of the stored maps.
- **ProposalAnalyzerProofs.** `AnalyzingHasACall` is inductive with the types
  (`NoneLeftAnalyzing`, `TypeCorrect`). For ids nobody picks: a stored one is a number the
  counter has passed (`GeneratedNew`), so it is stored once, so a call under way still finds
  the text it read (`TextsStay`), so analyses are of their texts
  (`AnalysesAreOfTheirTexts`). Of the two screens: a button is shown only when no handler is
  under way (`ButtonsAreHidden`), hence `OneHandlerAtATime`. The types alone are not
  inductive there: that a query is answered with a status needs that what the screen knows
  of is in the analyzer (`KnownIsThere`). `ResultsAreOfSelected` needs that handlers and the
  id analyzed last are the selected proposal's (`OfSelected`).
- **TreasuryTabProofs.** `RecipientIsOfTheAsset` is about calls, so the invariant `Inv` also
  says it of the open dialog (`TypedHere`): what is typed there was typed for its asset.
  `SendingIsTrue` counts: the calls under way are at most the dismissals of sending
  dialogs, and one for a dialog that is sending. A submission adds one to both sides
  (`OneMore`), a dismissal moves one from the dialog to the dismissals, an answer takes
  one call away (`OneFewer`). So it holds for any number of transfers and dismissals,
  which the run bounds by two and one.
- **WebProofs.** The other pages, the session and the proxy, again one invariant each, summed
  up in `WebInv` (`StepOfEachPart`). Session: what the caches hold and fetch under a user's
  key is that user's, whoever is logged in by then (`CallsGoToOwnDao`). Creation page: the
  step shown tells which part of the form was checked, and a call carries a form that was
  checked as a whole and the DAO made of it (`DaosOfCheckedForms`, `CreatingShown`).
  Copilot: while a draft is awaited there is no committee, and the form's committee is of its
  text (`CommitteesOfTheirProposals`). Proposals page: one submission of the modal is pending
  at a time, as its inputs are disabled (`PendingSubmit`); committees tab: `T!NoEditIsLost`
  is inductive with the types (`EditsKept`). Proxy: what was bought was counted, and within
  the limit (`ProxyAnswersWithinLimit`).

## 5. What is only model-checked

The temporal properties `CallsSettle`, `ScheduleServed`, `OwnPaymentsMined`, `AnalysesEnd` and
`WaitsEnd`: liveness under fairness involves ENABLED, which is outside the prover. The five
runs that end in a violation show one counterexample each, and there is nothing to prove.
That each run's instance reaches the interesting cases is TLC's to show.

## 6. Where code and text disagree

Five disagreements are shown by runs:

- `payment_race`: the refund tests the status of a copy and sends the money two awaits
  later, so an order a concurrent confirm has stored as Paid is refunded (store.rs:597).
- `distribution_restart`: progress lives in the timer's own copy of the model, so after an
  upgrade with arguments every allocation is paid again (timer.rs:88, dao.rs:63).
- `factory_race`: two overlapping creations of one caller both pass the check of
  api_update.rs:57, and the second replaces the first in the registry.
- `panel_stale`: a submission that is answered after another proposal was selected sets
  `analyzedProposalId`, which the panel falls back on: it shows the results of the proposal
  selected before (ProposalListPage.jsx:153, against :131). `ShownIsOfSelectedOnSnsPage`
  holds when nothing is selected meanwhile; the proposals tab never resets the id.
- `results_hidden`: `get_proposal` answers an opt, which agent-js decodes as an array of at
  most one element; ProposalsPage.jsx:568 reads `.analysis` of the array, so it never shows
  results (useProposals.js:33 expects the proposal itself).

Others were read off while modelling; the models contain the behaviour, no run is spent
on it:

- Hub: an owner given by upgrade arguments is set on the heap only; the next `load()`
  puts the previous owner back (api_init.rs:71, api_update.rs:182). `OnlyUpgradesUnsaved`
  says that nothing else is ever at stake.
- SNS: an incremental refresh resets the counts of SNSes it keeps (lib.rs:693, "keeping
  existing data", :646); a fetch under way when its SNS is removed stores proposals of an
  unlisted SNS (lib.rs:588, "Also remove associated proposals", :817).
- EVM wallet: anybody may give another account's address to `wallet_token_transfer`
  (update_api.rs:188); its count is cached and signed by the wallet (wallet.rs:654-684), and a
  count above the wallet's leaves the payment waiting until later ones fill the gap.
- Analyzer: an upgrade forgets all proposals ("Persistent proposal data", README.md:115);
  a submission under an id that is taken replaces the stored proposal (lib.rs:260); a retry
  does not wait for its delay (lib.rs:775).
- Governance: an admin who is no controller cannot set a status (update_api.rs:151-154);
  past 65535 calls of `add_committee` the id a caller is told is no committee's
  (update_api.rs:206).
- Committees tab: `active` is decoded as an array and `Boolean` of an array is true, so
  editing a disabled committee enables it unless its box is cleared again
  (CommitteesTab.jsx:166, dao.rs:288); an edit sends no election times, which the canister
  stores (update_api.rs:219), although "Elections timestamps are managed automatically by
  backend." (CommitteesTab.jsx:372).
- DAO page: it shows the user's own DAO whatever id the URL has (DaoInfoPage.jsx:206);
  `handleRetryTokenCreation` has no button, and `create_dao_base_token` would make a second
  ledger and timer if it had. Dashboard of a committee: `data` is destructured while it is
  undefined (CommitteeDashboardPage.jsx:11).
- Buttons: the Retry of ProposalsPage is never disabled, `isLoading` being no field of a
  mutation (ProposalsPage.jsx:362); AppEntryPage reads `loading`, which `useAuthClient`
  does not provide.
- Proxy: all clients share one window ("limit each IP to 100 requests per windowMs",
  server.js:44); a request with broken JSON is not counted; a score that is no number
  becomes NaN, then null in JSON, which the analyzer cannot read as a number
  (server.js:540); the kill timeout of the process manager cuts requests off although a
  signal says "shutting down gracefully" (server.js:798), and closing goes on as long as
  open connections bring requests (server.js:799).

## 7. What is not modelled, and why

- ABI encoding, candid, serialization, JSON of the AI answers: stateless data conversion.
- Key setup and signatures: cryptography and one call of the system each. `key_env` and
  the key ids are in `DaoFactory`.
- ICP and ICRC wallet calls, hub owner transfers, cycles, ledger creation: single calls
  without state of their own.
- Queries and their pages; `convert_proposal` and the debate and drafting calls of the
  analyzer, which change no state.
- Of the web application: the pages and tabs that only render what queries return (home,
  dashboards, overview, members, distribution, governance, canister), charts and fixed
  data of the treasury, filters and pages of lists, formatting. The await on the clipboard
  when an address is copied. The debate dialog of the proposals tab is that of
  `ProposalCopilot` without its draft.
- Of the proxy: CORS, compression, the wording of prompts and the text of answers.
- Solidity contracts (OpenZeppelin's ERC20 and a factory that
  deploys and appends in one transaction), scripts, the vendored EVM RPC types and the
  prebuilt ledger, which is external in `HubPayment` and `TokenDistribution`.

## 8. Plan

The order of the modules was by what is at stake: money (`HubPayment`,
`TokenDistribution`, `EvmNonce`), then what must survive upgrades and races (`HubState`,
`DaoFactory`, `DaoGovernance`), then bookkeeping (`SnsRegistry`, `ProposalAnalyzer`). These
are written; then the clients (`ApiProxy`, `Session` and the pages), which decide what the
canisters are asked. Left:

1. The pages of the queries as operators with a proof (hub `limit_orders` store.rs:407 and
   `check_page_size` utils.rs:42; SNS lib.rs:449-505 and the export chunks :870-934; factory
   store.rs:207): adjacent pages neither overlap nor leave a gap, in u32.
2. `job_ecdsa_setup` (backend init.rs:128) as part of `DaoFactory`: keys after an upgrade
   with another environment, and the key call that fails.
3. A composition of the hub's orders with the factory: what a Paid order lets its payer do.
4. An abstract specification of the SNS counts, with refinement.
5. With each of these the same proofs as in section 4; liveness stays with TLC.
