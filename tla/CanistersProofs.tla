---------------------------- MODULE CanistersProofs ----------------------------
(***************************************************************************)
(* Proofs about HubState, SnsRegistry, DaoFactory and DaoGovernance, for   *)
(* any number of users, canisters, calls under way and upgrades.  Each     *)
(* part has an inductive invariant of its own; a step of one part leaves   *)
(* the others' alone, so the conjunction is inductive for MCCanisters.     *)
(***************************************************************************)
EXTENDS MCCanisters, FiniteSetTheorems, SequenceTheorems, WellFoundedInduction, TLAPS

USE HubAssumption, CanistersAssumption
USE DEF S!SnsAssumption, F!FactoryAssumption, G!GovernanceAssumption

-----------------------------------------------------------------------------
(* The factory.  What a call holds between the creation of its canister and *)
(* the registration of its DAO belongs to no other call and to no caller.   *)
InFlight(j) == call[j].phase \in {"created", "installing", "installed"}

HoldsItsOwn(j) ==
  /\ call[j].canister <= created
  /\ \A u \in DOMAIN daos : daos[u] # call[j].canister
  /\ \A k \in Jobs : InFlight(k) /\ call[k].canister = call[j].canister => k = j
  /\ call[j].phase # "created" => call[j].canister \in state.listed
  /\ call[j].phase = "installed" => call[j].canister \in DOMAIN installed

FactoryInv ==
  /\ F!TypeOK
  /\ F!RegisteredDaosAreDeployed
  /\ \A u \in DOMAIN daos : daos[u] <= created
  /\ \A j \in Jobs : InFlight(j) => HoldsItsOwn(j)

-----------------------------------------------------------------------------
(* The governance of a DAO.  The state and what is saved of it agree on the *)
(* proposals, and every id that was given out is below the next one.        *)
GovernanceRecord ==
  [admins : SUBSET Principals, committees : Seq(G!Committee), next : G!NextIds]

GovernanceInv ==
  /\ G!TypeOK
  /\ govState \in GovernanceRecord /\ govSaved \in GovernanceRecord
  /\ govState.next.proposal = govSaved.next.proposal
  /\ \A id \in DOMAIN proposals : id < govState.next.proposal

(* As long as no more calls are made than there are committee ids.          *)
DistinctBelowNext(s) ==
  \A i \in DOMAIN s.committees :
    /\ s.committees[i].id < s.next.committee
    /\ \A k \in DOMAIN s.committees :
         s.committees[i].id = s.committees[k].id \/ s.committees[i].type = s.committees[k].type
           => i = k

CommitteesInv == DistinctBelowNext(govState) /\ DistinctBelowNext(govSaved)

-----------------------------------------------------------------------------
(* The hub.  The heap and the stable cell agree on all but what an upgrade  *)
(* sets, so an id that is loaded is the one the heap would give out.        *)
DaoRoles == [dao : Daos, role : Roles]

HubInv ==
  /\ TypeOK
  /\ orders \in [DOMAIN orders -> Nat]
  /\ users \in [DOMAIN users -> Seq(DaoRoles)]
  /\ OrderIdsFresh /\ OnlyUpgradesUnsaved /\ OneRolePerDao

-----------------------------------------------------------------------------
(* The SNS registry.  What a call carries over its awaits is of a known SNS *)
(* and within the ids, and counts the registry made are backed.             *)
KnownProposals(answer) ==
  /\ answer \in [DOMAIN answer -> S!Statuses]
  /\ DOMAIN answer \subseteq S!Ids

JobFits(x) ==
  \/ x = S!Idle
  \/ /\ x.kind = "fetch"
     /\ x = [kind |-> "fetch", sns |-> x.sns, answered |-> x.answered, answer |-> x.answer]
     /\ x.sns \in Sns /\ x.answered \in BOOLEAN
     /\ x.answered => KnownProposals(x.answer)
  \/ x \in [kind : {"refresh"}, full : BOOLEAN, awaits : {"root", "metadata"}]

CountsOfSns == [total : 0 .. MaxProposals, active : 0 .. MaxProposals, given : BOOLEAN]

SnsInv ==
  /\ listed \in [DOMAIN listed -> CountsOfSns] /\ DOMAIN listed \subseteq Sns
  /\ stored \in [DOMAIN stored -> S!Statuses] /\ DOMAIN stored \subseteq Sns \X S!Ids
  /\ gov = [s \in Sns |-> gov[s]]
  /\ \A s \in Sns : KnownProposals(gov[s])
  /\ job = [j \in Jobs |-> job[j]] /\ \A j \in Jobs : JobFits(job[j])
  /\ S!CountsAreBacked

CanistersInv == FactoryInv /\ GovernanceInv /\ HubInv /\ SnsInv

-----------------------------------------------------------------------------
(* The factory. *)
InFlightPhases == {"created", "installing", "installed"}

LEMMA CallTypes ==
  ASSUME FactoryInv, NEW j \in Jobs
  PROVE  /\ F!TypeOK /\ call[j] \in F!CallStates
         /\ call[j].phase \in {"status", "creating"} =>
              call[j] \in [phase : {"status", "creating"}, registers : BOOLEAN, root : Callers, env : Envs]
         /\ InFlight(j) =>
              call[j] \in [phase : InFlightPhases, registers : BOOLEAN, root : Callers, env : Envs,
                           canister : F!Canisters]
         /\ call[j].phase = "upgrading" =>
              call[j] \in [phase : {"upgrading"}, root : Callers, env : Envs, canister : F!Canisters]
  <1>1. F!TypeOK /\ call[j] \in F!CallStates
    BY DEF FactoryInv, F!TypeOK
  <1> QED BY <1>1 DEF F!CallStates, F!Idle, InFlight, InFlightPhases

(* A call that goes on, or ends, and holds no more than it did.             *)
LEMMA OneCallStep ==
  ASSUME FactoryInv, NEW j \in Jobs, NEW s \in F!CallStates, call' = [call EXCEPT ![j] = s],
         UNCHANGED <<daos, state, saved, created>>,
         \A c \in DOMAIN installed : c \in DOMAIN installed',
         DOMAIN installed' \subseteq F!Canisters,
         \A c \in DOMAIN installed' : installed'[c] \in F!DaoCanister,
         s.phase \in InFlightPhases =>
           /\ InFlight(j) /\ s.canister = call[j].canister
           /\ s.phase # "created" => s.canister \in state.listed
           /\ s.phase = "installed" => s.canister \in DOMAIN installed'
  PROVE  FactoryInv'
  <1>1. F!TypeOK
    BY DEF FactoryInv
  <1>2. call'[j] = s /\ \A k \in Jobs \ {j} : call'[k] = call[k]
    BY <1>1 DEF F!TypeOK
  <1>3. F!TypeOK'
    BY <1>1 DEF F!TypeOK
  <1>4. F!RegisteredDaosAreDeployed'
    BY DEF FactoryInv, F!RegisteredDaosAreDeployed
  <1>5. ASSUME NEW k \in Jobs, InFlight(k)' PROVE InFlight(k) /\ call'[k].canister = call[k].canister
    BY <1>2, <1>5 DEF InFlight, InFlightPhases
  <1>6. ASSUME NEW k \in Jobs, InFlight(k)' PROVE HoldsItsOwn(k)'
    <2>1. HoldsItsOwn(k) /\ InFlight(k) /\ call'[k].canister = call[k].canister
      BY <1>5, <1>6 DEF FactoryInv
    <2>2. /\ call'[k].phase # "created" => call'[k].canister \in state.listed
          /\ call'[k].phase = "installed" => call'[k].canister \in DOMAIN installed'
      <3>1. CASE k = j
        BY <1>2, <1>6, <3>1 DEF InFlight, InFlightPhases
      <3>2. CASE k # j
        BY <1>2, <2>1, <3>2 DEF HoldsItsOwn
      <3> QED BY <3>1, <3>2
    <2> QED BY <1>5, <2>1, <2>2 DEF HoldsItsOwn
  <1> QED BY <1>3, <1>4, <1>6 DEF FactoryInv

LEMMA FactoryQuiet ==
  ASSUME FactoryInv, NEW j \in Jobs,
         F!Ask(j) \/ F!CyclesSuffice(j) \/ F!Refused(j) \/ F!DaoInit(j) \/ F!DaoPostUpgrade(j)
  PROVE  FactoryInv' /\ F!Lost' \subseteq F!Lost
  <1>1. /\ F!TypeOK /\ UNCHANGED <<daos, state, saved, created>>
        /\ call[j].phase # "created"
    BY DEF FactoryInv, F!Ask, F!CreateGovDao, F!CreateDaoCanister, F!Creating, F!UpgradeGovDao,
           F!UpgradeDaoCanister, F!Upgrading, F!CyclesSuffice, F!Refused, F!DaoInit, F!DaoPostUpgrade, F!In
  <1>2. PICK s \in F!CallStates :
          /\ call' = [call EXCEPT ![j] = s]
          /\ s.phase \in InFlightPhases =>
               /\ F!DaoInit(j) /\ s.phase = "installed" /\ s.canister = call[j].canister
    <2>1. CASE F!Ask(j)
      <3>1. ASSUME NEW u \in Callers, F!CreateGovDao(j, u) \/ \E e \in Envs : F!CreateDaoCanister(j, u, e)
            PROVE  \E s \in F!CallStates : call' = [call EXCEPT ![j] = s] /\ s.phase = "status"
        <4>1. PICK registers \in BOOLEAN, e \in Envs : F!Creating(j, registers, u, e)
          <5>1. state.env \in Envs
            BY <1>1 DEF F!TypeOK, F!States
          <5> QED BY <3>1, <5>1 DEF F!CreateGovDao, F!CreateDaoCanister
        <4> DEFINE s == [phase |-> "status", registers |-> registers, root |-> u, env |-> e]
        <4>2. s \in F!CallStates
          BY DEF F!CallStates
        <4> QED BY <4>1, <4>2 DEF F!Creating, F!Becomes
      <3>2. ASSUME NEW u \in Callers,
                   \/ F!UpgradeGovDao(j, u)
                   \/ \E e \in Envs, c \in F!Canisters : F!UpgradeDaoCanister(j, u, e, c)
            PROVE  \E s \in F!CallStates : call' = [call EXCEPT ![j] = s] /\ s.phase = "upgrading"
        <4>1. PICK e \in Envs, c \in F!Canisters : F!Upgrading(j, u, e, c)
          <5>1. state.env \in Envs /\ \A v \in DOMAIN daos : daos[v] \in F!Canisters
            BY <1>1 DEF F!TypeOK, F!States
          <5> QED BY <3>2, <5>1 DEF F!UpgradeGovDao, F!UpgradeDaoCanister
        <4> DEFINE s == [phase |-> "upgrading", root |-> u, env |-> e, canister |-> c]
        <4>2. s \in F!CallStates
          BY DEF F!CallStates
        <4> QED BY <4>1, <4>2 DEF F!Upgrading, F!Becomes
      <3> QED BY <2>1, <3>1, <3>2 DEF F!Ask, InFlightPhases
    <2>2. CASE F!CyclesSuffice(j)
      <3>1. [call[j] EXCEPT !.phase = "creating"] \in F!CallStates
        BY <2>2, CallTypes DEF F!CyclesSuffice, F!In, F!CallStates
      <3>2. [call[j] EXCEPT !.phase = "creating"].phase = "creating"
        BY <2>2, CallTypes DEF F!CyclesSuffice, F!In
      <3> QED BY <2>2, <3>1, <3>2 DEF F!CyclesSuffice, F!Becomes, InFlightPhases
    <2>3. CASE F!Refused(j) \/ F!DaoPostUpgrade(j)
      <3>1. F!Idle \in F!CallStates /\ F!Idle.phase \notin InFlightPhases
        BY DEF F!CallStates, F!Idle, InFlightPhases
      <3>2. call' = [call EXCEPT ![j] = F!Idle]
        BY <2>3 DEF F!Refused, F!DaoPostUpgrade, F!Becomes
      <3> QED BY <3>1, <3>2
    <2>4. CASE F!DaoInit(j)
      <3> DEFINE s == [call[j] EXCEPT !.phase = "installed"]
      <3>1. InFlight(j)
        BY <2>4 DEF F!DaoInit, F!In, InFlight
      <3>2. s \in F!CallStates /\ s.canister = call[j].canister /\ s.phase = "installed"
        BY <3>1, CallTypes DEF F!CallStates, InFlightPhases
      <3> QED BY <2>4, <3>2 DEF F!DaoInit, F!Becomes
    <2> QED BY <2>1, <2>2, <2>3, <2>4
  <1>3. /\ \A c \in DOMAIN installed : c \in DOMAIN installed'
        /\ DOMAIN installed' \subseteq F!Canisters
        /\ \A c \in DOMAIN installed' : installed'[c] \in F!DaoCanister
        /\ F!DaoInit(j) => call[j].canister \in DOMAIN installed'
    <2>1. /\ DOMAIN installed \subseteq F!Canisters
          /\ \A c \in DOMAIN installed : installed[c] \in F!DaoCanister
      BY <1>1 DEF F!TypeOK
    <2>2. CASE F!DaoInit(j)
      <3>1. InFlight(j)
        BY <2>2 DEF F!DaoInit, F!In, InFlight
      <3>2. call[j].canister \in F!Canisters /\ call[j].root \in Callers /\ call[j].env \in Envs
        BY <3>1, CallTypes
      <3>3. [root |-> call[j].root, keyEnv |-> call[j].env, keys |-> call[j].env] \in F!DaoCanister
        BY <3>2 DEF F!DaoCanister
      <3> QED BY <2>1, <2>2, <3>2, <3>3 DEF F!DaoInit, F!Insert
    <2>3. CASE F!DaoPostUpgrade(j)
      <3>1. call[j].root \in Callers /\ call[j].env \in Envs
        BY <2>3, CallTypes DEF F!DaoPostUpgrade, F!In
      <3>2. /\ installed' = [installed EXCEPT ![call[j].canister].root = call[j].root,
                                              ![call[j].canister].keys = call[j].env]
            /\ ~F!DaoInit(j)
        BY <2>3 DEF F!DaoPostUpgrade, F!DaoInit, F!In
      <3> QED BY <2>1, <3>1, <3>2 DEF F!DaoCanister
    <2>4. CASE UNCHANGED installed /\ ~F!DaoInit(j)
      BY <2>1, <2>4
    <2> QED BY <2>2, <2>3, <2>4
        DEF F!Ask, F!CreateGovDao, F!CreateDaoCanister, F!Creating, F!UpgradeGovDao,
            F!UpgradeDaoCanister, F!Upgrading, F!CyclesSuffice, F!Refused, F!DaoInit, F!DaoPostUpgrade, F!In
  <1>4. F!DaoInit(j) => InFlight(j) /\ call[j].canister \in state.listed
    <2>1. F!DaoInit(j) => InFlight(j) /\ call[j].phase # "created"
      BY DEF F!DaoInit, F!In, InFlight
    <2> QED BY <2>1 DEF FactoryInv, HoldsItsOwn
  <1>5. FactoryInv'
    BY <1>1, <1>2, <1>3, <1>4, OneCallStep
  <1>6. ASSUME NEW k \in Jobs, NEW c, F!In(k, "created"), call[k].canister = c
        PROVE  F!In(k, "created")' /\ call'[k].canister = c
    BY <1>1, <1>2, <1>6 DEF F!In, F!TypeOK
  <1> QED BY <1>1, <1>5, <1>6 DEF F!Lost

LEMMA CreatedStep ==
  ASSUME FactoryInv, NEW j \in Jobs, F!CanisterCreated(j)
  PROVE  FactoryInv' /\ F!Lost' \subseteq F!Lost
  <1> DEFINE s == [phase |-> "created", registers |-> call[j].registers, root |-> call[j].root,
                   env |-> call[j].env, canister |-> created + 1]
  <1>1. /\ F!TypeOK /\ call[j].phase = "creating" /\ created < MaxCanisters
        /\ created' = created + 1 /\ call' = [call EXCEPT ![j] = s]
        /\ UNCHANGED <<daos, state, saved, installed>>
    BY DEF FactoryInv, F!CanisterCreated, F!In, F!Becomes
  <1>2. created \in Nat /\ created' \in 0 .. MaxCanisters /\ created' \in F!Canisters
    BY <1>1 DEF F!TypeOK, F!Canisters
  <1>3. s \in F!CallStates /\ s.phase = "created" /\ s.canister = created'
    BY <1>1, <1>2, CallTypes DEF F!CallStates
  <1> HIDE DEF s
  <1>4. call'[j] = s /\ \A k \in Jobs \ {j} : call'[k] = call[k]
    BY <1>1 DEF F!TypeOK
  <1>5. F!TypeOK'
    BY <1>1, <1>2, <1>3 DEF F!TypeOK
  <1>6. F!RegisteredDaosAreDeployed'
    BY <1>1 DEF FactoryInv, F!RegisteredDaosAreDeployed
  <1>7. \A u \in DOMAIN daos' : daos'[u] <= created /\ daos'[u] \in Nat
    BY <1>1 DEF FactoryInv, F!TypeOK, F!Canisters
  <1>8. ASSUME NEW k \in Jobs \ {j}, InFlight(k)'
        PROVE  InFlight(k) /\ HoldsItsOwn(k) /\ call[k].canister <= created /\ call[k].canister \in Nat
    <2>1. InFlight(k)
      BY <1>4, <1>8 DEF InFlight
    <2> QED BY <2>1, CallTypes DEF FactoryInv, HoldsItsOwn, F!Canisters
  <1>9. ASSUME NEW k \in Jobs, InFlight(k)' PROVE HoldsItsOwn(k)'
    <2>1. CASE k = j
      BY <1>1, <1>2, <1>3, <1>4, <1>7, <1>8, <2>1 DEF HoldsItsOwn
    <2>2. CASE k # j
      <3>1. /\ HoldsItsOwn(k) /\ call'[k] = call[k] /\ InFlight(k)
            /\ call[k].canister <= created /\ call[k].canister \in Nat
        BY <1>4, <1>8, <1>9, <2>2
      <3>2. ASSUME NEW i \in Jobs, InFlight(i)', call'[i].canister = call[k].canister PROVE i = k
        <4>1. i # j
          BY <1>1, <1>2, <1>3, <1>4, <3>1, <3>2
        <4> QED BY <1>4, <1>8, <3>1, <3>2, <4>1 DEF HoldsItsOwn
      <3> QED BY <1>1, <1>2, <3>1, <3>2 DEF HoldsItsOwn
    <2> QED BY <2>1, <2>2
  <1>10. \A u \in DOMAIN daos' : daos'[u] <= created'
    BY <1>1, <1>2, <1>7
  <1>11. F!Lost' \subseteq F!Lost
    <2> SUFFICES ASSUME NEW c \in F!Lost' PROVE c \in F!Lost
      OBVIOUS
    <2>1. c \in 1 .. created' /\ c \notin state.listed
          /\ ~ \E k \in Jobs : call'[k].phase = "created" /\ call'[k].canister = c
      BY <1>1 DEF F!Lost, F!In
    <2>2. c # created'
      BY <1>3, <1>4, <2>1
    <2>3. c \in 1 .. created
      BY <1>1, <1>2, <2>1, <2>2
    <2>4. ~ \E k \in Jobs : call[k].phase = "created" /\ call[k].canister = c
      BY <1>1, <1>4, <2>1
    <2> QED BY <2>1, <2>3, <2>4 DEF F!Lost, F!In
  <1> QED BY <1>5, <1>6, <1>9, <1>10, <1>11 DEF FactoryInv

LEMMA AnsweredStep ==
  ASSUME FactoryInv, NEW j \in Jobs, F!CanisterAnswered(j)
  PROVE  FactoryInv' /\ F!Lost' \subseteq F!Lost
  <1> DEFINE s == [call[j] EXCEPT !.phase = "installing"]
  <1>1. /\ F!TypeOK /\ call[j].phase = "created" /\ InFlight(j)
        /\ call' = [call EXCEPT ![j] = s]
        /\ state' = [state EXCEPT !.listed = @ \cup {call[j].canister}]
        /\ UNCHANGED <<daos, saved, created, installed>>
    BY DEF FactoryInv, F!CanisterAnswered, F!In, F!Becomes, F!Listed, InFlight
  <1>2. /\ s \in F!CallStates /\ s.phase = "installing" /\ s.canister = call[j].canister
        /\ call[j].canister \in F!Canisters
    BY <1>1, CallTypes DEF F!CallStates, InFlightPhases
  <1> HIDE DEF s
  <1>3. call'[j] = s /\ \A k \in Jobs \ {j} : call'[k] = call[k]
    BY <1>1 DEF F!TypeOK
  <1>4. state' \in F!States /\ state'.listed = state.listed \cup {call[j].canister}
    BY <1>1, <1>2 DEF F!TypeOK, F!States
  <1>5. F!TypeOK'
    BY <1>1, <1>2, <1>4 DEF F!TypeOK
  <1>6. F!RegisteredDaosAreDeployed'
    BY <1>1, <1>4 DEF FactoryInv, F!RegisteredDaosAreDeployed
  <1>7. ASSUME NEW k \in Jobs PROVE call'[k].canister = call[k].canister /\ (InFlight(k)' => InFlight(k))
    BY <1>1, <1>2, <1>3 DEF InFlight
  <1>8. ASSUME NEW k \in Jobs, InFlight(k)' PROVE HoldsItsOwn(k)'
    <2>1. HoldsItsOwn(k)
      BY <1>7, <1>8 DEF FactoryInv
    <2>2. CASE k = j
      BY <1>1, <1>2, <1>3, <1>4, <1>7, <2>1, <2>2 DEF HoldsItsOwn
    <2>3. CASE k # j
      BY <1>1, <1>3, <1>4, <1>7, <2>1, <2>3 DEF HoldsItsOwn
    <2> QED BY <2>2, <2>3
  <1>9. F!Lost' \subseteq F!Lost
    BY <1>1, <1>3, <1>4 DEF F!Lost, F!In
  <1> QED BY <1>1, <1>5, <1>6, <1>8, <1>9 DEF FactoryInv

LEMMA DaoCreatedStep ==
  ASSUME FactoryInv, NEW j \in Jobs, F!DaoCreated(j)
  PROVE  FactoryInv' /\ F!Lost' \subseteq F!Lost
  <1> DEFINE own == call[j].canister
  <1>1. /\ F!TypeOK /\ call[j].phase = "installed" /\ InFlight(j)
        /\ call' = [call EXCEPT ![j] = F!Idle]
        /\ UNCHANGED <<state, saved, created, installed>>
        /\ daos' = daos \/ daos' = F!Insert(daos, call[j].root, own)
    BY DEF FactoryInv, F!DaoCreated, F!In, F!Becomes, F!Registered, InFlight
  <1>2. /\ call[j].root \in Callers /\ own \in F!Canisters
        /\ HoldsItsOwn(j) /\ own \in state.listed /\ own \in DOMAIN installed /\ own <= created
    BY <1>1, CallTypes DEF FactoryInv, HoldsItsOwn
  <1>3. /\ F!Idle \in F!CallStates /\ F!Idle.phase = "idle"
        /\ call'[j] = F!Idle /\ \A k \in Jobs \ {j} : call'[k] = call[k]
    BY <1>1 DEF F!TypeOK, F!CallStates, F!Idle
  <1>4. /\ DOMAIN daos' \subseteq DOMAIN daos \cup {call[j].root}
        /\ \A u \in DOMAIN daos' :
             \/ u \in DOMAIN daos /\ daos'[u] = daos[u]
             \/ u = call[j].root /\ daos'[u] = own
    BY <1>1 DEF F!Insert
  <1>5. F!TypeOK'
    BY <1>1, <1>2, <1>3, <1>4 DEF F!TypeOK
  <1>6. F!RegisteredDaosAreDeployed'
    <2>1. \A u \in DOMAIN daos' : daos'[u] \in DOMAIN installed /\ daos'[u] \in state.listed
      BY <1>2, <1>4 DEF FactoryInv, F!RegisteredDaosAreDeployed
    <2>2. \A u, v \in DOMAIN daos' : daos'[u] = daos'[v] => u = v
      BY <1>2, <1>4 DEF FactoryInv, F!RegisteredDaosAreDeployed, HoldsItsOwn
    <2> QED BY <1>1, <2>1, <2>2 DEF F!RegisteredDaosAreDeployed
  <1>7. \A u \in DOMAIN daos' : daos'[u] <= created
    BY <1>2, <1>4 DEF FactoryInv
  <1>8. ASSUME NEW k \in Jobs, InFlight(k)' PROVE HoldsItsOwn(k)'
    <2>1. k # j /\ InFlight(k) /\ HoldsItsOwn(k) /\ call'[k] = call[k]
      BY <1>3, <1>8 DEF InFlight, FactoryInv
    <2>2. own # call[k].canister
      BY <1>1, <1>2, <2>1 DEF HoldsItsOwn
    <2>3. \A u \in DOMAIN daos' : daos'[u] # call[k].canister
      BY <1>4, <2>1, <2>2 DEF HoldsItsOwn
    <2>4. \A i \in Jobs : InFlight(i)' => InFlight(i) /\ call'[i] = call[i]
      BY <1>3 DEF InFlight
    <2> QED BY <1>1, <2>1, <2>3, <2>4 DEF HoldsItsOwn
  <1>9. F!Lost' \subseteq F!Lost
    BY <1>1, <1>3 DEF F!Lost, F!In
  <1> QED BY <1>1, <1>5, <1>6, <1>7, <1>8, <1>9 DEF FactoryInv

LEMMA FactoryOthers ==
  ASSUME FactoryInv,
         (\E e \in Envs : F!SetDefaultEnv(e)) \/ F!FactoryUpgrade \/ UNCHANGED F!vars
  PROVE  FactoryInv' /\ (F!FactoryUpgrade \/ F!Lost' \subseteq F!Lost)
  <1>1. F!TypeOK
    BY DEF FactoryInv
  <1>2. CASE UNCHANGED F!vars
    BY <1>2 DEF F!vars, FactoryInv, F!TypeOK, F!RegisteredDaosAreDeployed, InFlight, HoldsItsOwn,
                F!Lost, F!In
  <1>3. ASSUME NEW e \in Envs, F!SetDefaultEnv(e) PROVE FactoryInv' /\ F!Lost' \subseteq F!Lost
    <2>1. /\ state' \in F!States /\ saved' \in F!States /\ state'.listed = state.listed
          /\ UNCHANGED <<daos, created, installed, call>>
      BY <1>1, <1>3 DEF F!SetDefaultEnv, F!TypeOK, F!States
    <2>2. F!TypeOK'
      BY <1>1, <2>1 DEF F!TypeOK
    <2> QED BY <2>1, <2>2 DEF FactoryInv, F!RegisteredDaosAreDeployed, InFlight, HoldsItsOwn,
                              F!Lost, F!In
  <1>4. CASE F!FactoryUpgrade
    <2>1. /\ state' = state /\ saved' = state /\ call' = [j \in Jobs |-> F!Idle]
          /\ UNCHANGED <<daos, created, installed>>
      BY <1>4 DEF F!FactoryUpgrade, F!PreUpgrade
    <2>2. F!Idle \in F!CallStates /\ F!Idle.phase = "idle"
      BY DEF F!CallStates, F!Idle
    <2>3. F!TypeOK'
      BY <1>1, <2>1, <2>2 DEF F!TypeOK
    <2>4. \A j \in Jobs : ~InFlight(j)'
      BY <2>1, <2>2 DEF InFlight
    <2> QED BY <1>4, <2>1, <2>3, <2>4 DEF FactoryInv, F!RegisteredDaosAreDeployed
  <1> QED BY <1>2, <1>3, <1>4

LEMMA FactoryStep ==
  ASSUME FactoryInv, [F!Next]_(F!vars)
  PROVE  FactoryInv' /\ (F!FactoryUpgrade \/ F!Lost' \subseteq F!Lost)
  BY FactoryQuiet, CreatedStep, AnsweredStep, DaoCreatedStep, FactoryOthers
     DEF F!Next, F!Continue

LEMMA FactoryBegins == F!Init => FactoryInv
  <1> SUFFICES ASSUME F!Init PROVE FactoryInv
    OBVIOUS
  <1>1. F!Idle \in F!CallStates /\ F!Idle.phase = "idle" /\ \A j \in Jobs : call[j] = F!Idle
    BY DEF F!Init, F!CallStates, F!Idle
  <1>2. F!TypeOK
    BY <1>1 DEF F!Init, F!TypeOK, F!States
  <1>3. DOMAIN daos = {}
    BY DEF F!Init
  <1> QED BY <1>1, <1>2, <1>3 DEF FactoryInv, F!RegisteredDaosAreDeployed, InFlight

-----------------------------------------------------------------------------
(* The governance. *)
LEMMA GovernanceBegins == G!Init => GovernanceInv /\ CommitteesInv
  <1> SUFFICES ASSUME G!Init PROVE GovernanceInv /\ CommitteesInv
    OBVIOUS
  <1>1. PICK root \in Principals :
          govState = [admins |-> {root}, committees |-> <<>>, next |-> [proposal |-> 1, committee |-> 1]]
    BY DEF G!Init
  <1>2. /\ govState \in GovernanceRecord /\ govSaved = govState
        /\ DOMAIN govState.committees = {} /\ proposals = [id \in {} |-> "Active"]
    <2>1. [proposal |-> 1, committee |-> 1] \in G!NextIds
      BY DEF G!NextIds
    <2>2. <<>> \in Seq(G!Committee) /\ DOMAIN <<>> = {}
      OBVIOUS
    <2> QED BY <1>1, <2>1, <2>2 DEF G!Init, GovernanceRecord
  <1>3. G!TypeOK
    BY <1>2 DEF G!TypeOK, G!StateOK, GovernanceRecord
  <1> QED BY <1>2, <1>3 DEF GovernanceInv, CommitteesInv, DistinctBelowNext

(* What a step may make of the state and of the committees in it.           *)
LEMMA GovernanceTypes ==
  ASSUME GovernanceInv,
         govState' \in GovernanceRecord, govSaved' \in GovernanceRecord,
         govState'.next.proposal = govSaved'.next.proposal,
         proposals' \in [DOMAIN proposals' -> G!Statuses],
         \A id \in DOMAIN proposals' : id \in Nat /\ 1 <= id /\ id < govState'.next.proposal
  PROVE  GovernanceInv'
  <1>1. govState'.next.proposal \in 1 .. MaxCalls
    BY DEF GovernanceRecord, G!NextIds
  <1>2. DOMAIN proposals' \subseteq 1 .. MaxCalls
    BY <1>1
  <1> QED BY <1>2 DEF GovernanceInv, G!TypeOK, G!StateOK, GovernanceRecord

LEMMA SetAdminsStep ==
  ASSUME GovernanceInv, NEW c \in Principals, NEW admins \in SUBSET Principals, G!SetAdmins(c, admins)
  PROVE  /\ GovernanceInv' /\ (CommitteesInv => CommitteesInv')
         /\ govState'.next = govState.next /\ UNCHANGED proposals
  <1>1. /\ govState \in GovernanceRecord /\ govSaved \in GovernanceRecord
        /\ govState' = [govState EXCEPT !.admins = admins] /\ UNCHANGED <<govSaved, proposals>>
    BY DEF GovernanceInv, G!SetAdmins
  <1>2. /\ govState' \in GovernanceRecord
        /\ govState'.committees = govState.committees /\ govState'.next = govState.next
    BY <1>1 DEF GovernanceRecord
  <1>3. GovernanceInv'
    BY <1>1, <1>2 DEF GovernanceInv, G!TypeOK, G!StateOK, GovernanceRecord
  <1> QED BY <1>1, <1>2, <1>3 DEF CommitteesInv, DistinctBelowNext

LEMMA CreateProposalStep ==
  ASSUME GovernanceInv, G!CreateProposal
  PROVE  /\ GovernanceInv' /\ (CommitteesInv => CommitteesInv')
         /\ G!NextProposalId \notin DOMAIN proposals
  <1> DEFINE id == govState.next.proposal
  <1>1. /\ govState \in GovernanceRecord /\ id < MaxCalls /\ id \in 1 .. MaxCalls
        /\ govState.next.committee \in 1 .. MaxCalls /\ govState.next \in G!NextIds
    BY DEF GovernanceInv, G!CreateProposal, G!NextProposalId, GovernanceRecord, G!NextIds
  <1>2. /\ govState' = [govState EXCEPT !.next.proposal = @ + 1] /\ govSaved' = govState'
        /\ proposals' = [i \in DOMAIN proposals \cup {id} |-> IF i = id THEN "Active" ELSE proposals[i]]
    BY DEF G!CreateProposal, G!Saved, G!NextProposalId
  <1>3. /\ govState' \in GovernanceRecord /\ govState'.committees = govState.committees
        /\ govState'.next.proposal = id + 1 /\ govState'.next.committee = govState.next.committee
    <2>1. /\ govState'.next = [govState.next EXCEPT !.proposal = @ + 1]
          /\ govState' = [govState EXCEPT !.next = [govState.next EXCEPT !.proposal = @ + 1]]
      BY <1>1, <1>2 DEF GovernanceRecord
    <2>2. /\ govState'.next \in G!NextIds /\ govState'.next.proposal = id + 1
          /\ govState'.next.committee = govState.next.committee
      BY <1>1, <2>1 DEF G!NextIds
    <2> QED BY <1>1, <2>1, <2>2 DEF GovernanceRecord
  <1>4. \A i \in DOMAIN proposals : i \in Nat /\ 1 <= i /\ i < id
    BY DEF GovernanceInv, G!TypeOK
  <1>5. \A i \in DOMAIN proposals' : i \in Nat /\ 1 <= i /\ i < id + 1
    <2>1. id \in Nat /\ 1 <= id
      BY <1>1
    <2> HIDE DEF id
    <2> QED BY <1>2, <1>4, <2>1
  <1>6. proposals' \in [DOMAIN proposals' -> G!Statuses]
    <2>1. "Active" \in G!Statuses /\ \A i \in DOMAIN proposals : proposals[i] \in G!Statuses
      BY DEF GovernanceInv, G!TypeOK, G!Statuses
    <2> QED BY <1>2, <2>1
  <1>7. GovernanceInv'
    BY <1>2, <1>3, <1>5, <1>6, GovernanceTypes
  <1>8. G!NextProposalId \notin DOMAIN proposals
    BY <1>1, <1>4 DEF G!NextProposalId
  <1> QED BY <1>2, <1>3, <1>7, <1>8 DEF CommitteesInv, DistinctBelowNext

LEMMA AddCommitteeStep ==
  ASSUME GovernanceInv, NEW t \in Types, NEW a \in BOOLEAN, G!AddCommittee(t, a)
  PROVE  /\ GovernanceInv'
         /\ MaxCalls <= IdModulus /\ CommitteesInv => CommitteesInv'
  <1> DEFINE n == govState.next.committee
             old == govState.committees
             entry == [id |-> n % IdModulus, type |-> t, active |-> a]
  <1>1. /\ govState \in GovernanceRecord /\ govSaved \in GovernanceRecord
        /\ govState.next \in G!NextIds /\ old \in Seq(G!Committee)
        /\ n < MaxCalls /\ n \in 1 .. MaxCalls
    BY DEF GovernanceInv, G!AddCommittee, GovernanceRecord, G!NextIds
  <1>2. PICK new : /\ new = IF G!TypeIsFree(t) THEN Append(old, entry) ELSE old
                   /\ govState' = [govState EXCEPT !.next.committee = @ + 1, !.committees = new]
                   /\ UNCHANGED <<govSaved, proposals>>
    BY DEF G!AddCommittee, G!CommitteeId
  <1>3. entry \in G!Committee
    <2>1. IdModulus \in Nat \ {0} /\ n \in Nat
      BY <1>1
    <2>2. n % IdModulus \in 0 .. IdModulus - 1
      BY <2>1
    <2> HIDE DEF n
    <2> QED BY <2>2 DEF G!Committee
  <1> HIDE DEF entry
  <1>4. new \in Seq(G!Committee)
    BY <1>1, <1>2, <1>3, AppendProperties
  <1>5. /\ govState' \in GovernanceRecord /\ govState'.committees = new
        /\ govState'.next.proposal = govState.next.proposal /\ govState'.next.committee = n + 1
    <2>1. govState' = [govState EXCEPT !.next = [govState.next EXCEPT !.committee = @ + 1],
                                       !.committees = new]
      BY <1>1, <1>2 DEF GovernanceRecord
    <2>2. /\ [govState.next EXCEPT !.committee = @ + 1] \in G!NextIds
          /\ [govState.next EXCEPT !.committee = @ + 1].proposal = govState.next.proposal
          /\ [govState.next EXCEPT !.committee = @ + 1].committee = n + 1
      <3>1. n + 1 \in 1 .. MaxCalls
        BY <1>1
      <3> QED BY <1>1, <3>1 DEF G!NextIds
    <2> QED BY <1>1, <1>4, <2>1, <2>2 DEF GovernanceRecord
  <1>6. GovernanceInv'
    <2>1. /\ govState.next.proposal = govSaved.next.proposal
          /\ proposals \in [DOMAIN proposals -> G!Statuses]
          /\ \A id \in DOMAIN proposals : id \in 1 .. MaxCalls /\ id < govState.next.proposal
      BY DEF GovernanceInv, G!TypeOK
    <2>2. /\ govSaved' \in GovernanceRecord /\ govState'.next.proposal = govSaved'.next.proposal
          /\ proposals' \in [DOMAIN proposals' -> G!Statuses]
      BY <1>1, <1>2, <1>5, <2>1
    <2>3. \A id \in DOMAIN proposals' : id \in Nat /\ 1 <= id /\ id < govState'.next.proposal
      BY <1>2, <1>5, <2>1
    <2> QED BY <1>5, <2>2, <2>3, GovernanceTypes
  <1>7. ASSUME MaxCalls <= IdModulus, CommitteesInv PROVE CommitteesInv'
    <2>1. DistinctBelowNext(govState) /\ DistinctBelowNext(govSaved)
      BY <1>7 DEF CommitteesInv
    <2>2. DOMAIN old = 1 .. Len(old) /\ Len(old) \in Nat
      BY <1>1
    <2>3. \A i \in DOMAIN old : old[i].id \in Nat /\ old[i].id < n /\ n \in Nat
      <3>1. \A i \in DOMAIN old : old[i].id \in Nat
        <4>1. \A i \in DOMAIN old : old[i] \in G!Committee
          BY <1>1
        <4>2. \A c \in G!Committee : c.id \in Nat
          BY DEF G!Committee
        <4> QED BY <4>1, <4>2
      <3> QED BY <1>1, <2>1, <3>1 DEF DistinctBelowNext
    <2>4. CASE ~G!TypeIsFree(t)
      <3>1. govState'.committees = old /\ govState'.next.committee = n + 1
        BY <1>2, <1>5, <2>4
      <3>2. \A i \in DOMAIN old : old[i].id < n + 1
        <4> HIDE DEF n, old
        <4> QED BY <2>3
      <3>3. DistinctBelowNext(govState)'
        BY <2>1, <3>1, <3>2 DEF DistinctBelowNext
      <3> QED BY <1>2, <2>1, <3>3 DEF CommitteesInv, DistinctBelowNext
    <2>5. CASE G!TypeIsFree(t)
      <3> DEFINE l == Len(old)
      <3>1. /\ DOMAIN new = 1 .. l + 1 /\ new[l + 1] = entry
            /\ \A i \in 1 .. l : new[i] = old[i]
        BY <1>1, <1>2, <1>3, <2>2, <2>5
      <3>2. entry.type = t /\ entry.id = n
        <4>1. n % IdModulus = n
          <5>1. n \in Nat /\ n < IdModulus /\ IdModulus \in Nat \ {0}
            BY <1>1, <1>7
          <5> HIDE DEF n
          <5> QED BY <5>1
        <4> QED BY <4>1 DEF entry
      <3>3. \A i \in DOMAIN old : old[i].type # t
        BY <2>5 DEF G!TypeIsFree
      <3>4. ASSUME NEW i \in DOMAIN new
            PROVE  /\ new[i].id < n + 1
                   /\ \A k \in DOMAIN new : new[i].id = new[k].id \/ new[i].type = new[k].type => i = k
        <4>1. \A k \in DOMAIN new : k \in 1 .. l \/ k = l + 1
          BY <2>2, <3>1
        <4>2. n \in Nat
          BY <1>1
        <4>3. CASE i = l + 1
          <5>1. \A k \in DOMAIN new : k # i => new[k] = old[k] /\ k \in DOMAIN old
            BY <2>2, <3>1, <4>1, <4>3
          <5> HIDE DEF n, old, l
          <5> QED BY <2>3, <3>1, <3>2, <3>3, <4>2, <4>3, <5>1
        <4>4. CASE i \in 1 .. l
          <5>1. new[i] = old[i] /\ i \in DOMAIN old
            BY <2>2, <3>1, <4>4
          <5>2. ASSUME NEW k \in DOMAIN new, new[i].id = new[k].id \/ new[i].type = new[k].type
                PROVE  i = k
            <6>1. CASE k = l + 1
              <7> HIDE DEF n, old, l
              <7> QED BY <2>3, <3>1, <3>2, <3>3, <4>2, <5>1, <5>2, <6>1
            <6>2. CASE k \in 1 .. l
              BY <2>1, <2>2, <3>1, <5>1, <5>2, <6>2 DEF DistinctBelowNext
            <6> QED BY <4>1, <6>1, <6>2
          <5> QED BY <2>3, <5>1, <5>2
        <4> QED BY <4>1, <4>3, <4>4
      <3>5. DistinctBelowNext(govState)'
        BY <1>5, <3>4 DEF DistinctBelowNext
      <3> QED BY <1>2, <2>1, <3>5 DEF CommitteesInv, DistinctBelowNext
    <2> QED BY <2>4, <2>5
  <1> QED BY <1>6, <1>7

LEMMA UpdateCommitteeStep ==
  ASSUME GovernanceInv, NEW id, NEW a \in BOOLEAN, G!UpdateCommittee(id, a)
  PROVE  /\ GovernanceInv' /\ (CommitteesInv => CommitteesInv')
  <1> DEFINE old == govState.committees
  <1>1. /\ govState \in GovernanceRecord /\ govSaved \in GovernanceRecord /\ old \in Seq(G!Committee)
        /\ UNCHANGED <<govSaved, proposals>>
    BY DEF GovernanceInv, G!UpdateCommittee, GovernanceRecord
  <1>2. PICK n : govState' = [govState EXCEPT !.committees[n].active = a]
    BY DEF G!UpdateCommittee
  <1> DEFINE new == [old EXCEPT ![n].active = a]
  <1>3. govState' = [govState EXCEPT !.committees = new]
    BY <1>1, <1>2 DEF GovernanceRecord
  <1>4. /\ DOMAIN new = DOMAIN old
        /\ \A i \in DOMAIN old :
             new[i] \in G!Committee /\ new[i].id = old[i].id /\ new[i].type = old[i].type
    <2>1. \A i \in DOMAIN old : old[i] \in G!Committee
      BY <1>1
    <2>2. \A i \in DOMAIN old : new[i] = IF i = n THEN [old[i] EXCEPT !.active = a] ELSE old[i]
      BY <1>1
    <2>3. \A c \in G!Committee : /\ [c EXCEPT !.active = a] \in G!Committee
                                 /\ [c EXCEPT !.active = a].id = c.id
                                 /\ [c EXCEPT !.active = a].type = c.type
      BY DEF G!Committee
    <2>4. DOMAIN new = DOMAIN old
      BY <1>1
    <2> HIDE DEF new, old
    <2> QED BY <2>1, <2>2, <2>3, <2>4
  <1>5. new \in Seq(G!Committee)
    <2>1. DOMAIN old = 1 .. Len(old) /\ Len(old) \in Nat
      BY <1>1
    <2>2. new \in [1 .. Len(old) -> G!Committee]
      BY <1>1, <1>4, <2>1
    <2> HIDE DEF new, old
    <2> QED BY <2>1, <2>2, IsASeq
  <1> HIDE DEF new
  <1>6. /\ govState' \in GovernanceRecord
        /\ govState'.committees = new /\ govState'.next = govState.next
    BY <1>1, <1>3, <1>5 DEF GovernanceRecord
  <1>7. GovernanceInv'
    BY <1>1, <1>6, GovernanceTypes DEF GovernanceInv, G!TypeOK
  <1> QED BY <1>1, <1>4, <1>6, <1>7 DEF CommitteesInv, DistinctBelowNext

LEMMA GovernanceStep ==
  ASSUME GovernanceInv, [G!Next]_(G!vars)
  PROVE  /\ GovernanceInv'
         /\ MaxCalls <= IdModulus /\ CommitteesInv => CommitteesInv'
         /\ G!CreateProposal => G!NextProposalId \notin DOMAIN proposals
  <1>0. G!CreateProposal => G!NextProposalId \notin DOMAIN proposals
    BY CreateProposalStep
  <1>1. CASE \E c, p \in Principals : G!AddAdmin(c, p) \/ G!RemoveAdmin(c, p)
    <2>1. PICK c \in Principals, p \in Principals : G!AddAdmin(c, p) \/ G!RemoveAdmin(c, p)
      BY <1>1
    <2>2. govState.admins \subseteq Principals
      BY DEF GovernanceInv, GovernanceRecord
    <2>3. /\ govState.admins \cup {p} \in SUBSET Principals
          /\ govState.admins \ {p} \in SUBSET Principals
      BY <2>2
    <2>4. \E admins \in SUBSET Principals : G!SetAdmins(c, admins)
      BY <2>1, <2>3 DEF G!AddAdmin, G!RemoveAdmin
    <2> QED BY <1>0, <2>4, SetAdminsStep
  <1>2. CASE G!CreateProposal
    BY <1>2, CreateProposalStep
  <1>3. ASSUME NEW c \in Principals, NEW id \in DOMAIN proposals, NEW s \in G!Statuses,
               G!UpdateProposalStatus(c, id, s)
        PROVE  GovernanceInv' /\ (CommitteesInv => CommitteesInv')
    <2>1. /\ proposals' = [proposals EXCEPT ![id] = s] /\ UNCHANGED <<govState, govSaved>>
          /\ proposals' \in [DOMAIN proposals -> G!Statuses]
      BY <1>3 DEF G!UpdateProposalStatus, GovernanceInv, G!TypeOK
    <2> QED BY <2>1 DEF GovernanceInv, G!TypeOK, CommitteesInv
  <1>4. CASE \E t \in Types, a \in BOOLEAN : G!AddCommittee(t, a)
    BY <1>0, <1>4, AddCommitteeStep
  <1>5. CASE \E id \in 0 .. IdModulus - 1, a \in BOOLEAN : G!UpdateCommittee(id, a)
    BY <1>0, <1>5, UpdateCommitteeStep
  <1>6. CASE G!Upgrade
    <2>1. /\ govSaved' = govState \/ govSaved' = govSaved
          /\ govState' = govSaved' /\ UNCHANGED proposals
      BY <1>6 DEF G!Upgrade
    <2>2. GovernanceInv'
      BY <2>1 DEF GovernanceInv, G!TypeOK
    <2> QED BY <1>0, <2>1, <2>2 DEF CommitteesInv
  <1>7. CASE UNCHANGED G!vars
    BY <1>0, <1>7 DEF G!vars, GovernanceInv, G!TypeOK, CommitteesInv
  <1> QED BY <1>0, <1>1, <1>2, <1>3, <1>4, <1>5, <1>6, <1>7 DEF G!Next

-----------------------------------------------------------------------------
(* The hub. *)
LEMMA HubBegins == Init => HubInv
  <1> SUFFICES ASSUME Init PROVE HubInv
    OBVIOUS
  <1>1. heap \in Records /\ stable = heap /\ heap.next = 0 /\ heap.total = 0
    BY DEF Init, Records
  <1>2. DOMAIN orders = {} /\ DOMAIN users = {} /\ DOMAIN orders = 0 .. heap.next - 1
    BY <1>1 DEF Init
  <1>3. orders \in [DOMAIN orders -> Nat] /\ users \in [DOMAIN users -> Seq(DaoRoles)]
    BY DEF Init
  <1>4. TypeOK
    BY <1>1, <1>2 DEF Init, TypeOK
  <1>5. OnlyUpgradesUnsaved
    BY <1>1 DEF OnlyUpgradesUnsaved, Records
  <1> QED BY <1>1, <1>2, <1>3, <1>4, <1>5 DEF HubInv, OrderIdsFresh, OneRolePerDao

LEMMA SavedAgrees ==
  ASSUME HubInv
  PROVE  /\ heap \in Records /\ stable \in Records
         /\ stable.next = heap.next /\ stable.total = heap.total /\ stable.codes = heap.codes
  <1>1. heap \in Records /\ stable \in Records
    BY DEF HubInv, TypeOK
  <1>2. [heap EXCEPT !.owner = stable.owner, !.env = stable.env] = stable
    BY DEF HubInv, OnlyUpgradesUnsaved
  <1>3. /\ [heap EXCEPT !.owner = stable.owner, !.env = stable.env].next = heap.next
        /\ [heap EXCEPT !.owner = stable.owner, !.env = stable.env].total = heap.total
        /\ [heap EXCEPT !.owner = stable.owner, !.env = stable.env].codes = heap.codes
    BY <1>1 DEF Records
  <1> QED BY <1>1, <1>2, <1>3

(* A handler that takes no id: what it loaded, with other codes, is on the  *)
(* heap, and saved, or is what was saved.                                   *)
LEMMA CodesStep ==
  ASSUME HubInv, NEW codes \in SUBSET Codes,
         heap' = [stable EXCEPT !.codes = codes], stable' = heap',
         UNCHANGED <<orders, users, upgrades>>
  PROVE  HubInv'
  <1>1. /\ heap' \in Records /\ heap'.next = heap.next /\ heap'.total = heap.total
    BY SavedAgrees DEF Records
  <1>2. OnlyUpgradesUnsaved'
    BY <1>1 DEF OnlyUpgradesUnsaved, Records
  <1> QED BY <1>1, <1>2 DEF HubInv, TypeOK, OrderIdsFresh, OneRolePerDao

LEMMA InviteStep ==
  ASSUME HubInv,
         \E p \in Pids :
           \/ \E code \in Codes : AddInviteCode(p, code)
           \/ \E batch \in SUBSET Codes : AddInviteCodes(p, batch)
  PROVE  HubInv'
  <1>1. /\ UNCHANGED <<orders, users, upgrades>>
        /\ \E codes \in SUBSET Codes : heap' = [stable EXCEPT !.codes = codes] /\ stable' = heap'
    <2>1. stable \in Records
      BY SavedAgrees
    <2>2. stable.codes \in SUBSET Codes /\ stable = [stable EXCEPT !.codes = stable.codes]
      BY <2>1 DEF Records
    <2>3. ASSUME NEW p \in Pids, NEW code \in Codes, AddInviteCode(p, code)
          PROVE  /\ UNCHANGED <<orders, users, upgrades>>
                 /\ \/ heap' = stable /\ stable' = stable
                    \/ heap' = [stable EXCEPT !.codes = stable.codes \cup {code}] /\ stable' = heap'
      BY <2>1, <2>3 DEF AddInviteCode, Commit, Loaded, Records
    <2>4. ASSUME NEW p \in Pids, NEW batch \in SUBSET Codes, AddInviteCodes(p, batch)
          PROVE  /\ UNCHANGED <<orders, users, upgrades>>
                 /\ \/ heap' = stable /\ stable' = stable
                    \/ heap' = [stable EXCEPT !.codes = stable.codes \cup batch] /\ stable' = heap'
      BY <2>1, <2>4 DEF AddInviteCodes, Commit, Loaded, Records
    <2>5. \/ heap' = stable /\ stable' = stable
          \/ \E codes \in SUBSET Codes : heap' = [stable EXCEPT !.codes = codes] /\ stable' = heap'
      BY <2>2, <2>3, <2>4
    <2> QED BY <2>2, <2>3, <2>4, <2>5
  <1> QED BY <1>1, CodesStep

LEMMA CreateOrderStep ==
  ASSUME HubInv, CreateOrder
  PROVE  HubInv'
  <1> DEFINE id == stable.next
  <1>1. /\ TypeOK /\ stable \in Records /\ id = heap.next /\ stable.total = id /\ id < MaxOrders
        /\ id \in Nat /\ DOMAIN orders = 0 .. id - 1 /\ \A i \in DOMAIN orders : orders[i] = 1
    <2>1. TypeOK /\ stable \in Records /\ stable.next = heap.next /\ stable.total = heap.total
      BY SavedAgrees DEF HubInv
    <2>2. id \in Nat /\ heap.total = heap.next
      BY <2>1 DEF Records, HubInv, OrderIdsFresh
    <2> QED BY <2>1, <2>2 DEF CreateOrder, Loaded, HubInv, OrderIdsFresh
  <1>2. /\ orders' = [i \in DOMAIN orders \cup {id} |->
                       IF i = id THEN (IF id \in DOMAIN orders THEN orders[id] + 1 ELSE 1)
                       ELSE orders[i]]
        /\ heap' = [stable EXCEPT !.next = @ + 1, !.total = @ + 1] /\ stable' = heap'
        /\ UNCHANGED <<users, upgrades>>
    BY DEF CreateOrder, Commit, Loaded, Counted
  <1>3. /\ heap' \in Records /\ heap'.next = id + 1 /\ heap'.total = id + 1
    <2>1. id + 1 \in 0 .. MaxOrders
      BY <1>1
    <2> QED BY <1>1, <1>2, <2>1 DEF Records
  <1>4. /\ DOMAIN orders' = 0 .. id /\ \A i \in DOMAIN orders' : orders'[i] = 1
        /\ orders' \in [DOMAIN orders' -> Nat]
    <2>1. id \notin DOMAIN orders
      BY <1>1
    <2>2. DOMAIN orders' = DOMAIN orders \cup {id}
      BY <1>2
    <2>3. DOMAIN orders' = 0 .. id
      BY <1>1, <2>2
    <2>4. \A i \in DOMAIN orders' : orders'[i] = 1
      BY <1>1, <1>2, <2>1
    <2>5. orders' = [i \in DOMAIN orders' |-> orders'[i]]
      BY <1>2
    <2>6. orders' \in [DOMAIN orders' -> Nat]
      BY <2>4, <2>5
    <2> QED BY <2>3, <2>4, <2>6
  <1>5. OnlyUpgradesUnsaved'
    BY <1>2, <1>3 DEF OnlyUpgradesUnsaved, Records
  <1>6. DOMAIN orders' = 0 .. heap'.next - 1 /\ DOMAIN orders' \subseteq Nat
    <2>1. heap'.next - 1 = id
      BY <1>1, <1>3
    <2>2. DOMAIN orders' = 0 .. id
      BY <1>4
    <2> QED BY <1>1, <2>1, <2>2
  <1>7. OrderIdsFresh'
    BY <1>3, <1>4, <1>6 DEF OrderIdsFresh
  <1> QED BY <1>1, <1>2, <1>3, <1>4, <1>5, <1>6, <1>7, SMTT(30) DEF HubInv, TypeOK, OneRolePerDao

LEMMA UpgradeStep ==
  ASSUME HubInv, NEW owner \in Given(Pids), NEW env \in Given(Envs), Upgrade(owner, env)
  PROVE  HubInv'
  <1>1. TypeOK /\ heap \in Records
    BY DEF HubInv, TypeOK
  <1>2. /\ OrKeep(owner, heap.owner) \in Pids /\ OrKeep(env, heap.env) \in Envs
    <2>1. \A x : (CHOOSE y \in {x} : TRUE) = x
      OBVIOUS
    <2> QED BY <1>1, <2>1 DEF Given, OrKeep, Records
  <1>3. /\ stable' = heap /\ upgrades' = upgrades + 1 /\ upgrades < MaxUpgrades
        /\ heap' = [heap EXCEPT !.owner = OrKeep(owner, heap.owner), !.env = OrKeep(env, heap.env)]
        /\ UNCHANGED <<orders, users>>
    BY <1>1 DEF Upgrade, PreUpgrade, Records
  <1>4. /\ heap' \in Records /\ heap'.next = heap.next /\ heap'.total = heap.total
    BY <1>1, <1>2, <1>3 DEF Records
  <1>5. OnlyUpgradesUnsaved'
    BY <1>1, <1>2, <1>3 DEF OnlyUpgradesUnsaved, Records
  <1>6. upgrades' \in 0 .. MaxUpgrades
    BY <1>1, <1>3 DEF TypeOK
  <1> QED BY <1>1, <1>3, <1>4, <1>5, <1>6 DEF HubInv, TypeOK, OrderIdsFresh, OneRolePerDao

(* Users.                                                                   *)
OneRole(roles) == \A i, j \in DOMAIN roles : roles[i].dao = roles[j].dao => i = j

LEMMA LinkedKeepsOneRole ==
  ASSUME NEW roles \in Seq(DaoRoles), OneRole(roles), NEW dao \in Daos, NEW role \in Roles
  PROVE  Linked(roles, dao, role) \in Seq(DaoRoles) /\ OneRole(Linked(roles, dao, role))
  <1> DEFINE I == {i \in 1 .. Len(roles) : roles[i].dao = dao}
             found == SelectInSeq(roles, LAMBDA r : r.dao = dao)
  <1>1. Len(roles) \in Nat /\ DOMAIN roles = 1 .. Len(roles) /\ I \subseteq 1 .. Len(roles)
    OBVIOUS
  <1>2. found = IF I # {} THEN Min(I) ELSE 0
    BY DEF SelectInSeq
  <1>3. CASE I # {}
    <2>1. \E x \in I : \A y \in I : x <= y
      <3> DEFINE R == OpToRel(<, Nat)
      <3>1. IsWellFoundedOn(R, Nat)
        BY NatLessThanWellFounded
      <3>2. \A x, y \in Nat : <<y, x>> \in R <=> y < x
        BY DEF OpToRel
      <3>3. I \subseteq Nat
        BY <1>1
      <3> HIDE DEF R, I
      <3>4. PICK x \in I : \A y \in I : ~ (<<y, x>> \in R)
        BY <1>3, <3>1, <3>3, WFMin
      <3>5. \A y \in I : x <= y
        <4> TAKE y \in I
        <4>1. x \in Nat /\ y \in Nat /\ ~(y < x)
          BY <3>2, <3>3, <3>4
        <4> QED BY <4>1
      <3> QED BY <3>5
    <2>2. Min(I) \in I
      <3> HIDE DEF I
      <3> QED BY <2>1 DEF Min
    <2>3. found \in 1 .. Len(roles) /\ roles[found].dao = dao /\ found # 0
      BY <1>1, <1>2, <1>3, <2>2
    <2> HIDE DEF found, I
    <2>4. Linked(roles, dao, role) = [roles EXCEPT ![found].role = role]
      BY <2>3 DEF Linked, found
    <2>5. roles[found] \in DaoRoles
      BY <2>3
    <2> DEFINE new == [roles[found] EXCEPT !.role = role]
    <2>6. new \in DaoRoles /\ new.dao = dao
      BY <2>3, <2>5 DEF DaoRoles
    <2>7. [roles EXCEPT ![found].role = role] = [roles EXCEPT ![found] = new]
      OBVIOUS
    <2> HIDE DEF new
    <2>8. /\ [roles EXCEPT ![found] = new] \in Seq(DaoRoles)
          /\ DOMAIN [roles EXCEPT ![found] = new] = DOMAIN roles
          /\ \A j \in DOMAIN roles : [roles EXCEPT ![found] = new][j].dao = roles[j].dao
      BY <1>1, <2>3, <2>6
    <2>9. OneRole([roles EXCEPT ![found] = new])
      <3> DEFINE changed == [roles EXCEPT ![found] = new]
      <3>1. DOMAIN changed = DOMAIN roles /\ \A j \in DOMAIN roles : changed[j].dao = roles[j].dao
        BY <2>8
      <3> HIDE DEF changed
      <3>2. ASSUME NEW i \in DOMAIN changed, NEW j \in DOMAIN changed, changed[i].dao = changed[j].dao
            PROVE  i = j
        <4>1. i \in DOMAIN roles /\ j \in DOMAIN roles /\ roles[i].dao = roles[j].dao
          BY <3>1, <3>2
        <4> QED BY <4>1, Zenon DEF OneRole
      <3> QED BY <3>2 DEF OneRole, changed
    <2> QED BY <2>4, <2>7, <2>8, <2>9
  <1>4. CASE I = {}
    <2>1. found = 0
      BY <1>2, <1>4
    <2>2. \A i \in DOMAIN roles : roles[i].dao # dao
      BY <1>1, <1>4
    <2> HIDE DEF I
    <2> DEFINE new == [dao |-> dao, role |-> role]
    <2>3. Linked(roles, dao, role) = Append(roles, new)
      BY <2>1 DEF Linked
    <2>4. new \in DaoRoles /\ new.dao = dao
      BY DEF DaoRoles
    <2> HIDE DEF new, found
    <2>5. /\ Append(roles, new) \in Seq(DaoRoles)
          /\ DOMAIN Append(roles, new) = 1 .. Len(roles) + 1
          /\ \A i \in 1 .. Len(roles) : Append(roles, new)[i] = roles[i]
          /\ Append(roles, new)[Len(roles) + 1] = new
      BY <2>4
    <2>6. \A i \in 1 .. Len(roles) + 1 : i \in 1 .. Len(roles) \/ i = Len(roles) + 1
      BY <1>1
    <2>7. OneRole(Append(roles, new))
      BY <1>1, <2>2, <2>4, <2>5, <2>6 DEF OneRole
    <2> QED BY <2>3, <2>5, <2>7
  <1> QED BY <1>3, <1>4

LEMMA UsersStep ==
  ASSUME HubInv, UNCHANGED <<heap, stable, orders, upgrades>>,
         \/ \E u \in Pids : Registered(u)
         \/ \E u \in Pids, dao \in Daos, role \in Roles : LinkUserToDao(u, dao, role)
  PROVE  HubInv'
  <1>1. /\ TypeOK /\ users \in [DOMAIN users -> Seq(DaoRoles)] /\ DOMAIN users \subseteq Pids
        /\ \A u \in DOMAIN users : OneRole(users[u])
    BY DEF HubInv, TypeOK, OneRolePerDao, OneRole
  <1>2. /\ DOMAIN users' \subseteq Pids
        /\ users' = [u \in DOMAIN users' |-> users'[u]]
        /\ \A u \in DOMAIN users' : users'[u] \in Seq(DaoRoles) /\ OneRole(users'[u])
    <2>1. ASSUME NEW u \in Pids, Registered(u)
          PROVE  /\ DOMAIN users' \subseteq Pids
                 /\ users' = [v \in DOMAIN users' |-> users'[v]]
                 /\ \A v \in DOMAIN users' : users'[v] \in Seq(DaoRoles) /\ OneRole(users'[v])
      <3>1. <<>> \in Seq(DaoRoles) /\ OneRole(<<>>)
        BY DEF OneRole
      <3>2. CASE u \in DOMAIN users
        BY <1>1, <2>1, <3>2 DEF Registered, IsUnknown
      <3>3. CASE u \notin DOMAIN users
        <4>1. users' = [v \in DOMAIN users \cup {u} |-> IF v = u THEN <<>> ELSE users[v]]
          BY <2>1, <3>3 DEF Registered, IsUnknown
        <4> QED BY <1>1, <3>1, <4>1
      <3> QED BY <3>2, <3>3
    <2>2. ASSUME NEW u \in Pids, NEW dao \in Daos, NEW role \in Roles, LinkUserToDao(u, dao, role)
          PROVE  /\ DOMAIN users' \subseteq Pids
                 /\ users' = [v \in DOMAIN users' |-> users'[v]]
                 /\ \A v \in DOMAIN users' : users'[v] \in Seq(DaoRoles) /\ OneRole(users'[v])
      <3>1. u \in DOMAIN users /\ users' = [users EXCEPT ![u] = Linked(users[u], dao, role)]
        BY <2>2 DEF LinkUserToDao
      <3>2. /\ Linked(users[u], dao, role) \in Seq(DaoRoles) /\ OneRole(Linked(users[u], dao, role))
        BY <1>1, <3>1, LinkedKeepsOneRole
      <3> QED BY <1>1, <3>1, <3>2
    <2> QED BY <2>1, <2>2
  <1>3. users' \in [DOMAIN users' -> Seq(DaoRoles)] /\ OneRolePerDao'
    BY <1>2 DEF OneRolePerDao, OneRole
  <1>4. TypeOK' /\ OrderIdsFresh' /\ OnlyUpgradesUnsaved'
    BY <1>1, <1>2 DEF TypeOK, HubInv, OrderIdsFresh, OnlyUpgradesUnsaved
  <1> QED BY <1>3, <1>4 DEF HubInv

LEMMA HubStep ==
  ASSUME HubInv, [Next]_vars
  PROVE  HubInv'
  <1>1. CASE CreateOrder
    BY <1>1, CreateOrderStep
  <1>2. CASE \E p \in Pids :
               \/ \E code \in Codes : AddInviteCode(p, code)
               \/ \E batch \in SUBSET Codes : AddInviteCodes(p, batch)
    BY <1>2, InviteStep
  <1>3. CASE \E p \in Pids :
               \/ \E u \in Pids : AdminLogin(p, u)
               \/ UserLogin(p)
               \/ \E dao \in Daos, role \in Roles : LinkUserToDao(p, dao, role)
    BY <1>3, UsersStep DEF AdminLogin, UserLogin, LinkUserToDao
  <1>4. CASE \E owner \in Given(Pids), env \in Given(Envs) : Upgrade(owner, env)
    BY <1>4, UpgradeStep
  <1>5. CASE UNCHANGED vars
    BY <1>5 DEF vars, HubInv, TypeOK, OrderIdsFresh, OnlyUpgradesUnsaved, OneRolePerDao
  <1> QED BY <1>1, <1>2, <1>3, <1>4, <1>5 DEF Next

-----------------------------------------------------------------------------
(* The SNS registry. *)
Zero == [total |-> 0, active |-> 0, given |-> FALSE]

(* SnsRegistry counts as the theorems about finite sets do.                 *)
LEMMA SnsCardinality == \A set : S!Cardinality(set) = Cardinality(set)
  BY DEF S!Cardinality, Cardinality

LEMMA ProposalsAreFew ==
  ASSUME NEW map, DOMAIN map \subseteq Sns \X S!Ids, NEW s \in Sns
  PROVE  /\ IsFiniteSet(S!ProposalsOf(s, map))
         /\ Cardinality(S!ProposalsOf(s, map)) \in 0 .. MaxProposals
  <1>1. IsFiniteSet(S!Ids) /\ Cardinality(S!Ids) = MaxProposals /\ MaxProposals \in Nat
    <2>1. MaxProposals \in Nat
      OBVIOUS
    <2>2. /\ IsFiniteSet(1 .. MaxProposals)
          /\ Cardinality(1 .. MaxProposals) = IF 1 > MaxProposals THEN 0 ELSE MaxProposals - 1 + 1
      BY <2>1, FS_Interval
    <2>3. Cardinality(1 .. MaxProposals) = MaxProposals
      BY <2>1, <2>2
    <2> QED BY <2>1, <2>2, <2>3 DEF S!Ids
  <1>2. IsFiniteSet({s}) /\ Cardinality({s}) = 1
    BY FS_Singleton
  <1>3. /\ IsFiniteSet({s} \X S!Ids)
        /\ Cardinality({s} \X S!Ids) = MaxProposals
    <2>1. IsFiniteSet({s} \X S!Ids) /\ Cardinality({s} \X S!Ids) = 1 * MaxProposals
      BY <1>1, <1>2, FS_Product
    <2> QED BY <1>1, <2>1
  <1>4. S!ProposalsOf(s, map) \subseteq {s} \X S!Ids
    BY DEF S!ProposalsOf
  <1>5. /\ IsFiniteSet(S!ProposalsOf(s, map))
        /\ Cardinality(S!ProposalsOf(s, map)) <= MaxProposals
    BY <1>3, <1>4, FS_Subset
  <1> QED BY <1>1, <1>5, FS_CardinalityType

LEMMA CountsFit ==
  ASSUME NEW map, DOMAIN map \subseteq Sns \X S!Ids, NEW s \in Sns
  PROVE  /\ S!Counts(s, map) \in CountsOfSns /\ Zero \in CountsOfSns
         /\ ~S!Counts(s, map).given
         /\ S!Counts(s, map).total = Cardinality(S!ProposalsOf(s, map))
         /\ S!Counts(s, map).active <= S!Counts(s, map).total
  <1> DEFINE all == S!ProposalsOf(s, map)
             open == {k \in all : map[k] = "Open"}
  <1>1. IsFiniteSet(all) /\ Cardinality(all) \in 0 .. MaxProposals
    BY ProposalsAreFew
  <1>2. IsFiniteSet(open) /\ Cardinality(open) <= Cardinality(all)
    BY <1>1, FS_Subset
  <1>3. Cardinality(open) \in Nat /\ MaxProposals \in Nat
    BY <1>2, FS_CardinalityType
  <1>4. Cardinality(open) \in 0 .. MaxProposals
    BY <1>1, <1>2, <1>3
  <1>5. S!Counts(s, map) = [total |-> Cardinality(all), active |-> Cardinality(open), given |-> FALSE]
    BY SnsCardinality DEF S!Counts
  <1> HIDE DEF all, open
  <1>6. S!Counts(s, map) \in CountsOfSns /\ Zero \in CountsOfSns
    BY <1>1, <1>3, <1>4, <1>5 DEF CountsOfSns, Zero
  <1> QED BY <1>2, <1>5, <1>6 DEF all

(* What a step leaves of an SNS, or makes of it.                            *)
Untouched(s) ==
  /\ s \in DOMAIN listed /\ listed'[s] = listed[s]
  /\ S!ProposalsOf(s, stored') = S!ProposalsOf(s, stored)
  /\ \A k \in S!ProposalsOf(s, stored) : stored'[k] = stored[k]

Imported(s) ==
  /\ S!ImportFor(s)
  /\ \/ listed'[s].given
     \/ /\ s \in DOMAIN listed /\ listed'[s] = listed[s]
        /\ S!ProposalsOf(s, stored) \subseteq S!ProposalsOf(s, stored')

StaysExact(s) == S!ExactOrReset(s) => S!ExactOrReset(s)' \/ S!ImportFor(s)

LEMMA MapsStep ==
  ASSUME SnsInv,
         listed' \in [DOMAIN listed' -> CountsOfSns], DOMAIN listed' \subseteq Sns,
         stored' \in [DOMAIN stored' -> S!Statuses], DOMAIN stored' \subseteq Sns \X S!Ids,
         gov' = [s \in Sns |-> gov'[s]], \A s \in Sns : KnownProposals(gov'[s]),
         job' = [j \in Jobs |-> job'[j]], \A j \in Jobs : JobFits(job'[j]),
         \A s \in DOMAIN listed' :
           \/ Untouched(s) \/ listed'[s] = S!Counts(s, stored') \/ listed'[s] = Zero
           \/ Imported(s)
  PROVE  SnsInv' /\ \A s \in Sns : StaysExact(s)
  <1>1. ASSUME NEW s \in DOMAIN listed', ~listed'[s].given
        PROVE  /\ listed'[s].total <= Cardinality(S!ProposalsOf(s, stored'))
               /\ listed'[s].active <= listed'[s].total
    <2>0. s \in Sns
      OBVIOUS
    <2>1. /\ IsFiniteSet(S!ProposalsOf(s, stored')) /\ Cardinality(S!ProposalsOf(s, stored')) \in Nat
          /\ IsFiniteSet(S!ProposalsOf(s, stored)) /\ Cardinality(S!ProposalsOf(s, stored)) \in Nat
      BY <2>0, ProposalsAreFew DEF SnsInv
    <2>2. CASE listed'[s] = S!Counts(s, stored')
      <3>1. DOMAIN stored' \subseteq Sns \X S!Ids
        OBVIOUS
      <3>2. /\ S!Counts(s, stored').total = Cardinality(S!ProposalsOf(s, stored'))
            /\ S!Counts(s, stored').active <= S!Counts(s, stored').total
        BY <2>0, <3>1, CountsFit
      <3> QED BY <2>1, <2>2, <3>2
    <2>3. CASE listed'[s] = Zero
      BY <2>1, <2>3 DEF Zero
    <2>4. CASE Untouched(s) \/ Imported(s)
      <3>1. /\ s \in DOMAIN listed /\ listed'[s] = listed[s]
            /\ S!ProposalsOf(s, stored) \subseteq S!ProposalsOf(s, stored')
        BY <1>1, <2>4 DEF Untouched, Imported
      <3>2. /\ listed[s].total <= Cardinality(S!ProposalsOf(s, stored))
            /\ listed[s].active <= listed[s].total
        BY <1>1, <3>1, SnsCardinality DEF SnsInv, S!CountsAreBacked
      <3>3. Cardinality(S!ProposalsOf(s, stored)) <= Cardinality(S!ProposalsOf(s, stored'))
        BY <2>1, <3>1, FS_Subset
      <3>4. listed[s].total \in Nat
        BY <3>1 DEF SnsInv, CountsOfSns
      <3> QED BY <2>1, <3>1, <3>2, <3>3, <3>4
    <2> QED BY <2>2, <2>3, <2>4
  <1>2. S!CountsAreBacked'
    BY <1>1, SnsCardinality DEF S!CountsAreBacked
  <1>3. SnsInv'
    <2> QED BY <1>2 DEF SnsInv, JobFits, KnownProposals
  <1>4. ASSUME NEW s \in Sns, S!ExactOrReset(s), ~S!ImportFor(s), s \in DOMAIN listed'
        PROVE  S!ExactOrReset(s)'
    <2>1. CASE listed'[s] = S!Counts(s, stored') \/ listed'[s] = Zero
      BY <2>1 DEF S!ExactOrReset, Zero
    <2>2. CASE Untouched(s)
      <3>1. {k \in S!ProposalsOf(s, stored') : stored'[k] = "Open"}
              = {k \in S!ProposalsOf(s, stored) : stored[k] = "Open"}
        BY <2>2 DEF Untouched
      <3>2. S!Counts(s, stored') = S!Counts(s, stored)
        BY <2>2, <3>1 DEF Untouched, S!Counts
      <3> QED BY <1>4, <2>2, <3>2 DEF S!ExactOrReset, Untouched
    <2> QED BY <1>4, <2>1, <2>2 DEF Imported
  <1>5. \A s \in Sns : StaysExact(s)
    BY <1>4 DEF StaysExact, S!ExactOrReset
  <1> QED BY <1>3, <1>5

LEMMA SnsBegins == S!Init => SnsInv
  <1> SUFFICES ASSUME S!Init PROVE SnsInv
    OBVIOUS
  <1>1. DOMAIN listed = {} /\ DOMAIN stored = {}
    BY DEF S!Init
  <1>2. listed \in [DOMAIN listed -> CountsOfSns] /\ stored \in [DOMAIN stored -> S!Statuses]
    BY DEF S!Init
  <1>3. \A s \in Sns : KnownProposals(gov[s])
    BY DEF S!Init, KnownProposals
  <1>4. gov = [s \in Sns |-> gov[s]] /\ job = [j \in Jobs |-> job[j]]
    BY DEF S!Init
  <1>5. \A j \in Jobs : JobFits(job[j])
    BY DEF S!Init, JobFits
  <1> QED BY <1>1, <1>2, <1>3, <1>4, <1>5 DEF SnsInv, S!CountsAreBacked

(* What the maps are, what a governance canister holds, and what the calls  *)
(* carry, when a step leaves them or sets one of them.                      *)
LEMMA SnsTypes ==
  ASSUME SnsInv
  PROVE  /\ listed \in [DOMAIN listed -> CountsOfSns] /\ DOMAIN listed \subseteq Sns
         /\ stored \in [DOMAIN stored -> S!Statuses] /\ DOMAIN stored \subseteq Sns \X S!Ids
         /\ gov = [s \in Sns |-> gov[s]] /\ \A s \in Sns : KnownProposals(gov[s])
         /\ job = [j \in Jobs |-> job[j]] /\ \A j \in Jobs : JobFits(job[j])
  BY DEF SnsInv

LEMMA JobStep ==
  ASSUME SnsInv, NEW j \in Jobs, NEW x, JobFits(x), job' = [job EXCEPT ![j] = x]
  PROVE  job' = [k \in Jobs |-> job'[k]] /\ \A k \in Jobs : JobFits(job'[k])
  <1>1. job = [k \in Jobs |-> job[k]] /\ \A k \in Jobs : JobFits(job[k])
    BY SnsTypes
  <1>2. DOMAIN job = Jobs
    BY <1>1
  <1>3. job' = [k \in Jobs |-> IF k = j THEN x ELSE job[k]]
    BY <1>2
  <1>4. \A k \in Jobs : job'[k] = x \/ job'[k] = job[k]
    BY <1>3
  <1> QED BY <1>1, <1>3, <1>4

LEMMA MapsKept ==
  ASSUME SnsInv, UNCHANGED <<listed, stored>>,
         gov' = [s \in Sns |-> gov'[s]], \A s \in Sns : KnownProposals(gov'[s]),
         job' = [j \in Jobs |-> job'[j]], \A j \in Jobs : JobFits(job'[j])
  PROVE  SnsInv' /\ \A s \in Sns : StaysExact(s)
  <1>1. /\ listed' \in [DOMAIN listed' -> CountsOfSns] /\ DOMAIN listed' \subseteq Sns
        /\ stored' \in [DOMAIN stored' -> S!Statuses] /\ DOMAIN stored' \subseteq Sns \X S!Ids
    BY SnsTypes
  <1>2. \A s \in DOMAIN listed' : Untouched(s)
    BY DEF Untouched
  <1> QED BY <1>1, <1>2, MapsStep

LEMMA AnsweredRecord ==
  ASSUME NEW r, NEW s, NEW answered \in BOOLEAN, NEW old, NEW new, NEW x,
         r = [kind |-> "fetch", sns |-> s, answered |-> answered, answer |-> old],
         x = [r EXCEPT !.answered = TRUE, !.answer = new]
  PROVE  /\ x = [kind |-> x.kind, sns |-> x.sns, answered |-> x.answered, answer |-> x.answer]
         /\ x.kind = "fetch" /\ x.sns = s /\ x.answered \in BOOLEAN /\ x.answer = new
  OBVIOUS

(* A call moves on, and changes neither map.                                *)
LEMMA CallMoves ==
  ASSUME SnsInv, NEW j \in Jobs,
         \/ \E s \in Sns : S!Fetch(j, s)
         \/ \E full \in BOOLEAN : S!Refresh(j, full)
         \/ S!GovernanceAnswers(j) \/ S!CallFails(j)
  PROVE  SnsInv' /\ \A s \in Sns : StaysExact(s)
  <1>1. /\ UNCHANGED <<listed, stored, gov>>
        /\ DOMAIN job = Jobs /\ JobFits(job[j])
    BY SnsTypes DEF S!Fetch, S!Refresh, S!GovernanceAnswers, S!CallFails
  <1>2. \E x : JobFits(x) /\ job' = [job EXCEPT ![j] = x]
    <2>1. ASSUME NEW s \in Sns, S!Fetch(j, s) PROVE \E x : JobFits(x) /\ job' = [job EXCEPT ![j] = x]
      <3> DEFINE x == [kind |-> "fetch", sns |-> s, answered |-> FALSE, answer |-> <<>>]
      <3>1. JobFits(x)
        BY DEF JobFits
      <3> QED BY <2>1, <3>1 DEF S!Fetch
    <2>2. ASSUME NEW full \in BOOLEAN, S!Refresh(j, full)
          PROVE  \E x : JobFits(x) /\ job' = [job EXCEPT ![j] = x]
      <3> DEFINE x == [kind |-> "refresh", full |-> full, awaits |-> "root"]
      <3>1. JobFits(x)
        BY DEF JobFits
      <3> QED BY <2>2, <3>1 DEF S!Refresh
    <2>3. CASE S!GovernanceAnswers(j)
      <3>1. job[j].kind = "fetch"
        BY <2>3 DEF S!GovernanceAnswers
      <3>2. PICK s, a, b :
              /\ s \in Sns /\ a \in BOOLEAN
              /\ job[j] = [kind |-> "fetch", sns |-> s, answered |-> a, answer |-> b]
        BY <1>1, <3>1 DEF JobFits, S!Idle
      <3> DEFINE L == S!Latest(s)
      <3>3. KnownProposals(L)
        <4>1. gov[s] \in [DOMAIN gov[s] -> S!Statuses] /\ DOMAIN gov[s] \subseteq S!Ids
          BY <3>2, SnsTypes DEF KnownProposals
        <4> QED BY <4>1 DEF KnownProposals, S!Latest, S!Restrict
      <3>4. job' = [job EXCEPT ![j].answered = TRUE, ![j].answer = L]
        BY <2>3, <3>2 DEF S!GovernanceAnswers
      <3> HIDE DEF L
      <3>5. PICK x : x = [job[j] EXCEPT !.answered = TRUE, !.answer = L]
        OBVIOUS
      <3>6. /\ x = [kind |-> x.kind, sns |-> x.sns, answered |-> x.answered, answer |-> x.answer]
            /\ x.kind = "fetch" /\ x.sns = s /\ x.answered \in BOOLEAN /\ x.answer = L
        <4>1. PICK r, new : r = job[j] /\ new = L
          OBVIOUS
        <4>2. /\ r = [kind |-> "fetch", sns |-> s, answered |-> a, answer |-> b]
              /\ x = [r EXCEPT !.answered = TRUE, !.answer = new]
          BY <3>2, <3>5, <4>1
        <4>3. /\ x = [kind |-> x.kind, sns |-> x.sns, answered |-> x.answered, answer |-> x.answer]
              /\ x.kind = "fetch" /\ x.sns = s /\ x.answered \in BOOLEAN /\ x.answer = new
          BY <4>2, AnsweredRecord
        <4> QED BY <4>1, <4>3
      <3>7. JobFits(x)
        BY <3>2, <3>3, <3>6 DEF JobFits
      <3>8. job' = [job EXCEPT ![j] = x]
        BY <1>1, <3>5, <3>4
      <3> QED BY <3>7, <3>8
    <2>4. CASE S!CallFails(j)
      BY <2>4 DEF S!CallFails, JobFits
    <2> QED BY <2>1, <2>2, <2>3, <2>4
  <1>3. job' = [k \in Jobs |-> job'[k]] /\ \A k \in Jobs : JobFits(job'[k])
    BY <1>2, JobStep
  <1> QED BY <1>1, <1>3, MapsKept, SnsTypes

(* The proposals of a governance canister.                                  *)
LEMMA GovernanceMoves ==
  ASSUME SnsInv, NEW s \in Sns, S!Propose(s) \/ S!Decide(s)
  PROVE  SnsInv' /\ \A t \in Sns : StaysExact(t)
  <1>1. /\ UNCHANGED <<listed, stored, job>>
        /\ DOMAIN gov = Sns /\ gov[s] \in [DOMAIN gov[s] -> S!Statuses]
        /\ DOMAIN gov[s] \subseteq S!Ids
    <2>1. KnownProposals(gov[s])
      BY SnsTypes
    <2> QED BY <2>1, SnsTypes DEF S!Propose, S!Decide, KnownProposals
  <1>2. \E g : KnownProposals(g) /\ gov' = [gov EXCEPT ![s] = g]
    <2>1. CASE S!Propose(s)
      <3> DEFINE n == Cardinality(DOMAIN gov[s])
                 g == S!Insert(gov[s], [id \in {n + 1} |-> "Open"])
      <3>1. n < MaxProposals /\ gov' = [gov EXCEPT ![s] = g]
        BY <2>1, SnsCardinality DEF S!Propose
      <3>2. n \in Nat
        <4>1. IsFiniteSet(S!Ids)
          BY FS_Interval DEF S!Ids
        <4>2. IsFiniteSet(DOMAIN gov[s])
          BY <1>1, <4>1, FS_Subset
        <4> QED BY <4>2, FS_CardinalityType
      <3>3. n + 1 \in S!Ids
        BY <3>1, <3>2 DEF S!Ids
      <3> HIDE DEF n
      <3>4. KnownProposals(g)
        BY <1>1, <3>3 DEF KnownProposals, S!Insert, S!Statuses
      <3> QED BY <3>1, <3>4
    <2>2. CASE S!Decide(s)
      <3>1. PICK id \in DOMAIN gov[s] : gov' = [gov EXCEPT ![s][id] = "Decided"]
        BY <2>2 DEF S!Decide
      <3> DEFINE g == [gov[s] EXCEPT ![id] = "Decided"]
      <3>2. KnownProposals(g)
        BY <1>1 DEF KnownProposals, S!Statuses
      <3> QED BY <3>1, <3>2
    <2> QED BY <2>1, <2>2
  <1>3. gov' = [t \in Sns |-> gov'[t]] /\ \A t \in Sns : KnownProposals(gov'[t])
    <2>1. PICK g : KnownProposals(g) /\ gov' = [gov EXCEPT ![s] = g]
      BY <1>2
    <2>2. \A t \in Sns : gov'[t] = g \/ gov'[t] = gov[t]
      BY <1>1, <2>1
    <2> QED BY <1>1, <2>1, <2>2, SnsTypes, ZenonT(40)
  <1>4. job' = [j \in Jobs |-> job'[j]] /\ \A j \in Jobs : JobFits(job'[j])
    BY <1>1, SnsTypes
  <1> QED BY <1>1, <1>3, <1>4, MapsKept

(* An SNS is unlisted, and what is stored of it goes with it.               *)
LEMMA RemoveStep ==
  ASSUME SnsInv, NEW s \in Sns, S!RemoveSnsCanister(s)
  PROVE  SnsInv' /\ \A t \in Sns : StaysExact(t)
  <1>1. /\ listed' = [x \in DOMAIN listed \ {s} |-> listed[x]]
        /\ stored' = [k \in DOMAIN stored \ S!ProposalsOf(s, stored) |-> stored[k]]
        /\ UNCHANGED <<gov, job>>
    BY DEF S!RemoveSnsCanister, S!WithoutProposalsOf, S!Restrict
  <1>2. /\ listed' \in [DOMAIN listed' -> CountsOfSns] /\ DOMAIN listed' \subseteq Sns
        /\ stored' \in [DOMAIN stored' -> S!Statuses] /\ DOMAIN stored' \subseteq Sns \X S!Ids
    BY <1>1, SnsTypes
  <1>3. ASSUME NEW t \in DOMAIN listed' PROVE Untouched(t)
    <2>1. t # s /\ t \in DOMAIN listed /\ listed'[t] = listed[t]
      BY <1>1
    <2>2. S!ProposalsOf(t, stored') = S!ProposalsOf(t, stored)
      BY <1>1, <2>1 DEF S!ProposalsOf
    <2>3. \A k \in S!ProposalsOf(t, stored) : stored'[k] = stored[k]
      BY <1>1, <2>1 DEF S!ProposalsOf
    <2> QED BY <2>1, <2>2, <2>3 DEF Untouched
  <1>4. /\ gov' = [x \in Sns |-> gov'[x]] /\ \A x \in Sns : KnownProposals(gov'[x])
        /\ job' = [j \in Jobs |-> job'[j]] /\ \A j \in Jobs : JobFits(job'[j])
    BY <1>1, SnsTypes
  <1> QED BY <1>2, <1>3, <1>4, MapsStep

(* A caller brings counts, or a proposal.                                   *)
LEMMA ImportStep ==
  ASSUME SnsInv, NEW s \in Sns, S!ImportFor(s)
  PROVE  SnsInv' /\ \A t \in Sns : StaysExact(t)
  <1>1. UNCHANGED <<gov, job>>
    BY DEF S!ImportFor, S!AddSnsCanister, S!ImportCanister, S!ImportProposal
  <1>2. /\ gov' = [x \in Sns |-> gov'[x]] /\ \A x \in Sns : KnownProposals(gov'[x])
        /\ job' = [j \in Jobs |-> job'[j]] /\ \A j \in Jobs : JobFits(job'[j])
    BY <1>1, SnsTypes
  <1>3. ASSUME NEW counts \in S!CallersCounts, UNCHANGED stored,
               listed' = S!Insert(listed, [x \in {s} |-> counts])
        PROVE  SnsInv' /\ \A t \in Sns : StaysExact(t)
    <2>1. listed' = [x \in DOMAIN listed \cup {s} |-> IF x = s THEN counts ELSE listed[x]]
      BY <1>3 DEF S!Insert
    <2>2. counts.given /\ counts \in CountsOfSns
      <3>1. 0 .. 1 \subseteq 0 .. MaxProposals
        OBVIOUS
      <3> QED BY <3>1 DEF S!CallersCounts, CountsOfSns
    <2>3. /\ listed' \in [DOMAIN listed' -> CountsOfSns] /\ DOMAIN listed' \subseteq Sns
          /\ stored' \in [DOMAIN stored' -> S!Statuses] /\ DOMAIN stored' \subseteq Sns \X S!Ids
      BY <1>3, <2>1, <2>2, SnsTypes
    <2>4. ASSUME NEW t \in DOMAIN listed' PROVE Untouched(t) \/ Imported(t)
      <3>1. CASE t = s
        BY <2>1, <2>2, <3>1 DEF Imported
      <3>2. CASE t # s
        BY <1>3, <2>1, <3>2 DEF Untouched
      <3> QED BY <3>1, <3>2
    <2> QED BY <1>2, <2>3, <2>4, MapsStep
  <1>4. ASSUME NEW id \in S!Ids, NEW status \in S!Statuses, S!ImportProposal(s, id, status)
        PROVE  SnsInv' /\ \A t \in Sns : StaysExact(t)
    <2>1. /\ stored' = [k \in DOMAIN stored \cup {<<s, id>>} |->
                          IF k = <<s, id>> THEN status ELSE stored[k]]
          /\ UNCHANGED listed
      BY <1>4 DEF S!ImportProposal, S!Insert
    <2>2. /\ listed' \in [DOMAIN listed' -> CountsOfSns] /\ DOMAIN listed' \subseteq Sns
          /\ stored' \in [DOMAIN stored' -> S!Statuses] /\ DOMAIN stored' \subseteq Sns \X S!Ids
      BY <2>1, SnsTypes
    <2>3. ASSUME NEW t \in DOMAIN listed' PROVE Untouched(t) \/ Imported(t)
      <3>1. CASE t = s
        BY <2>1, <3>1 DEF Imported, S!ProposalsOf
      <3>2. CASE t # s
        BY <2>1, <3>2 DEF Untouched, S!ProposalsOf
      <3> QED BY <3>1, <3>2
    <2> QED BY <1>2, <2>2, <2>3, MapsStep
  <1> QED BY <1>3, <1>4 DEF S!ImportFor, S!AddSnsCanister, S!ImportCanister

(* A fetch stores what the governance canister answered, and counts all     *)
(* that is then stored of the SNS.                                          *)
LEMMA FetchDoneStep ==
  ASSUME SnsInv, NEW j \in Jobs, S!FetchDone(j)
  PROVE  SnsInv' /\ \A t \in Sns : StaysExact(t)
  <1>1. JobFits(job[j]) /\ job[j].kind = "fetch" /\ job[j].answered
    BY SnsTypes DEF S!FetchDone
  <1>2. PICK s, fetched :
          s \in Sns /\ s = job[j].sns /\ fetched = job[j].answer /\ KnownProposals(fetched)
    BY <1>1 DEF JobFits, S!Idle
  <1>3. /\ stored' = S!Insert(stored, S!ToStore(s, fetched))
        /\ listed' = IF s \in DOMAIN listed
                       THEN [listed EXCEPT ![s] = S!Counts(s, stored')] ELSE listed
        /\ job' = [job EXCEPT ![j] = S!Idle] /\ UNCHANGED gov
    BY <1>2 DEF S!FetchDone, S!NewCounts
  <1>4. /\ stored' \in [DOMAIN stored' -> S!Statuses] /\ DOMAIN stored' \subseteq Sns \X S!Ids
        /\ \A k \in DOMAIN stored' : k \in DOMAIN stored \/ k[1] = s
        /\ \A k \in DOMAIN stored : k \in DOMAIN stored' /\ (k[1] # s => stored'[k] = stored[k])
    BY <1>2, <1>3, SnsTypes DEF S!Insert, S!ToStore, KnownProposals
  <1>5. S!Counts(s, stored') \in CountsOfSns
    BY <1>2, <1>4, CountsFit
  <1>6. listed' \in [DOMAIN listed' -> CountsOfSns] /\ DOMAIN listed' \subseteq Sns
    BY <1>3, <1>5, SnsTypes
  <1>7. ASSUME NEW t \in DOMAIN listed' PROVE Untouched(t) \/ listed'[t] = S!Counts(t, stored')
    <2>1. CASE t = s
      BY <1>3, <2>1, SnsTypes
    <2>2. CASE t # s
      BY <1>3, <1>4, <2>2, SnsTypes DEF Untouched, S!ProposalsOf
    <2> QED BY <2>1, <2>2
  <1>8. job' = [k \in Jobs |-> job'[k]] /\ \A k \in Jobs : JobFits(job'[k])
    <2>1. JobFits(S!Idle)
      BY DEF JobFits
    <2> QED BY <1>3, <2>1, JobStep
  <1>9. gov' = [x \in Sns |-> gov'[x]] /\ \A x \in Sns : KnownProposals(gov'[x])
    BY <1>3, SnsTypes
  <1> QED BY <1>4, <1>6, <1>7, <1>8, <1>9, MapsStep

(* A refresh: the SNS root answers, and later the SNS do.                   *)
LEMMA RefreshStep ==
  ASSUME SnsInv, NEW j \in Jobs, S!RootAnswers(j) \/ S!MetadataAnswers(j)
  PROVE  SnsInv' /\ \A t \in Sns : StaysExact(t)
  <1>1. /\ JobFits(job[j]) /\ job[j].kind = "refresh" /\ UNCHANGED gov
    BY SnsTypes DEF S!RootAnswers, S!MetadataAnswers
  <1>3. gov' = [x \in Sns |-> gov'[x]] /\ \A x \in Sns : KnownProposals(gov'[x])
    BY <1>1, SnsTypes
  <1>4. CASE S!RootAnswers(j)
    <2>1. job' = [job EXCEPT ![j].awaits = "metadata"]
      BY <1>4 DEF S!RootAnswers
    <2>2. PICK x : x = [job[j] EXCEPT !.awaits = "metadata"]
      OBVIOUS
    <2>3. JobFits(x) /\ job' = [job EXCEPT ![j] = x]
      <3>1. job[j] \in [kind : {"refresh"}, full : BOOLEAN, awaits : {"root", "metadata"}]
        BY <1>1 DEF JobFits, S!Idle
      <3>2. x \in [kind : {"refresh"}, full : BOOLEAN, awaits : {"root", "metadata"}]
        BY <2>2, <3>1
      <3> QED BY <2>1, <2>2, <3>2 DEF JobFits
    <2>4. job' = [k \in Jobs |-> job'[k]] /\ \A k \in Jobs : JobFits(job'[k])
      BY <2>3, JobStep
    <2>5. \/ UNCHANGED <<listed, stored>>
          \/ listed' = [s \in {} |-> S!Idle] /\ stored' = [k \in {} |-> "Open"]
      BY <1>4 DEF S!RootAnswers, S!ListedAfterRoot
    <2>6. /\ listed' \in [DOMAIN listed' -> CountsOfSns] /\ DOMAIN listed' \subseteq Sns
          /\ stored' \in [DOMAIN stored' -> S!Statuses] /\ DOMAIN stored' \subseteq Sns \X S!Ids
      BY <2>5, SnsTypes
    <2>7. \A t \in DOMAIN listed' : Untouched(t)
      BY <2>5 DEF Untouched
    <2> QED BY <1>3, <2>4, <2>6, <2>7, MapsStep
  <1>5. CASE S!MetadataAnswers(j)
    <2>1. PICK ok \in SUBSET Sns :
            /\ listed' = [s \in DOMAIN listed \cup ok |-> IF s \in ok THEN Zero ELSE listed[s]]
            /\ UNCHANGED stored /\ job' = [job EXCEPT ![j] = S!Idle]
      BY <1>5 DEF S!MetadataAnswers, S!Insert, Zero
    <2>2. Zero \in CountsOfSns
      BY DEF Zero, CountsOfSns
    <2>3. /\ listed' \in [DOMAIN listed' -> CountsOfSns] /\ DOMAIN listed' \subseteq Sns
          /\ stored' \in [DOMAIN stored' -> S!Statuses] /\ DOMAIN stored' \subseteq Sns \X S!Ids
      BY <2>1, <2>2, SnsTypes
    <2>4. \A t \in DOMAIN listed' : Untouched(t) \/ listed'[t] = Zero
      BY <2>1 DEF Untouched
    <2>5. job' = [k \in Jobs |-> job'[k]] /\ \A k \in Jobs : JobFits(job'[k])
      <3>1. JobFits(S!Idle)
        BY DEF JobFits
      <3> QED BY <2>1, <3>1, JobStep
    <2> QED BY <1>3, <2>3, <2>4, <2>5, MapsStep
  <1> QED BY <1>4, <1>5

LEMMA SnsStep ==
  ASSUME SnsInv, [S!Next]_(S!vars)
  PROVE  SnsInv' /\ \A s \in Sns : StaysExact(s)
  <1>1. CASE \E s \in Sns : S!Propose(s) \/ S!Decide(s)
    BY <1>1, GovernanceMoves
  <1>2. CASE \E s \in Sns : S!RemoveSnsCanister(s)
    BY <1>2, RemoveStep
  <1>3. CASE \E s \in Sns : S!ImportFor(s)
    BY <1>3, ImportStep
  <1>4. CASE \E j \in Jobs :
               \/ \E s \in Sns : S!Fetch(j, s)
               \/ \E full \in BOOLEAN : S!Refresh(j, full)
               \/ S!GovernanceAnswers(j) \/ S!CallFails(j)
    BY <1>4, CallMoves
  <1>5. CASE \E j \in Jobs : S!FetchDone(j)
    BY <1>5, FetchDoneStep
  <1>6. CASE \E j \in Jobs : S!RootAnswers(j) \/ S!MetadataAnswers(j)
    BY <1>6, RefreshStep
  <1>7. CASE UNCHANGED S!vars
    BY <1>7, MapsKept, SnsTypes DEF S!vars
  <1> QED BY <1>1, <1>2, <1>3, <1>4, <1>5, <1>6, <1>7 DEF S!Next, S!ImportFor

LEMMA SnsTypeCorrect == SnsInv => S!TypeOK
  <1> SUFFICES ASSUME SnsInv PROVE S!TypeOK
    OBVIOUS
  <1>1. \A s \in DOMAIN listed : listed[s] \in CountsOfSns
    BY SnsTypes
  <1>2. \A k \in DOMAIN stored : stored[k] \in S!Statuses
    BY SnsTypes
  <1>3. \A s \in Sns : DOMAIN gov[s] \subseteq S!Ids
    BY SnsTypes DEF KnownProposals
  <1>4. \A j \in Jobs : job[j].kind \in {"idle", "fetch", "refresh"}
    BY SnsTypes DEF JobFits, S!Idle
  <1> QED BY <1>1, <1>2, <1>3, <1>4, SnsTypes DEF S!TypeOK, CountsOfSns

-----------------------------------------------------------------------------
(* The four of them.  A step of one is a step of each, or leaves it alone.  *)
LEMMA StepOfEach ==
  ASSUME [MCNext]_MCVars
  PROVE  [Next]_vars /\ [S!Next]_(S!vars) /\ [F!Next]_(F!vars) /\ [G!Next]_(G!vars)
  <1>1. CASE MCNext
    <2>1. CASE part = "hub" /\ Next /\ UNCHANGED <<snsVars, factoryVars, governanceVars>>
      BY <2>1 DEF snsVars, factoryVars, governanceVars, S!vars, F!vars, G!vars
    <2>2. CASE part = "sns" /\ S!Next /\ UNCHANGED <<vars, factoryVars, governanceVars>>
      BY <2>2 DEF factoryVars, governanceVars, F!vars, G!vars
    <2>3. CASE part = "factory" /\ F!Next /\ UNCHANGED <<vars, snsVars, governanceVars>>
      BY <2>3 DEF snsVars, governanceVars, S!vars, G!vars
    <2>4. CASE part = "governance" /\ G!Next /\ UNCHANGED <<vars, snsVars, factoryVars>>
      BY <2>4 DEF snsVars, factoryVars, S!vars, F!vars
    <2> QED BY <1>1, <2>1, <2>2, <2>3, <2>4 DEF MCNext
  <1>2. CASE UNCHANGED MCVars
    BY <1>2 DEF MCVars, snsVars, factoryVars, governanceVars, S!vars, F!vars, G!vars
  <1> QED BY <1>1, <1>2

LEMMA CanistersBegin == MCInit => CanistersInv /\ CommitteesInv
  BY HubBegins, SnsBegins, FactoryBegins, GovernanceBegins DEF MCInit, CanistersInv

LEMMA CanistersStep ==
  ASSUME CanistersInv, [MCNext]_MCVars
  PROVE  /\ CanistersInv'
         /\ MaxCalls <= IdModulus /\ CommitteesInv => CommitteesInv'
         /\ [\A s \in Sns : StaysExact(s)]_(S!vars)
         /\ [F!FactoryUpgrade \/ F!Lost' \subseteq F!Lost]_(F!vars)
         /\ [G!CreateProposal => G!NextProposalId \notin DOMAIN proposals]_(G!vars)
  <1>1. FactoryInv /\ GovernanceInv /\ HubInv /\ SnsInv
    BY DEF CanistersInv
  <1>2. [Next]_vars /\ [S!Next]_(S!vars) /\ [F!Next]_(F!vars) /\ [G!Next]_(G!vars)
    BY StepOfEach
  <1>3. HubInv'
    BY <1>1, <1>2, HubStep
  <1>4. SnsInv' /\ \A s \in Sns : StaysExact(s)
    BY <1>1, <1>2, SnsStep
  <1>5. FactoryInv' /\ (F!FactoryUpgrade \/ F!Lost' \subseteq F!Lost)
    BY <1>1, <1>2, FactoryStep
  <1>6. /\ GovernanceInv'
        /\ MaxCalls <= IdModulus /\ CommitteesInv => CommitteesInv'
        /\ G!CreateProposal => G!NextProposalId \notin DOMAIN proposals
    BY <1>1, <1>2, GovernanceStep
  <1> QED BY <1>3, <1>4, <1>5, <1>6 DEF CanistersInv

LEMMA CanistersInductive == MCSpec => []CanistersInv
  <1>1. MCInit => CanistersInv
    BY CanistersBegin
  <1>2. CanistersInv /\ [MCNext]_MCVars => CanistersInv'
    BY CanistersStep
  <1> QED BY <1>1, <1>2, PTL DEF MCSpec

(* The types of the hub, the SNS registry, the factory and the governance:  *)
(* and link_user_to_dao gives a user one role per DAO.                      *)
THEOREM CanistersTypeCorrect == MCSpec => []CanistersTypeOK
  <1>1. CanistersInv => CanistersTypeOK
    BY SnsTypeCorrect
       DEF CanistersInv, CanistersTypeOK, HubInv, FactoryInv, GovernanceInv
  <1> QED BY <1>1, CanistersInductive, PTL

(* create_order (hub): whatever upgrades come between, the id a payment     *)
(* order gets was given to none before, and none is skipped.                *)
THEOREM OrderIdsNew == MCSpec => []OrderIdsFresh
  <1>1. CanistersInv => OrderIdsFresh
    BY DEF CanistersInv, HubInv
  <1> QED BY <1>1, CanistersInductive, PTL

(* The hub's stable cell lags the heap by what post_upgrade set, never by   *)
(* an order or an invite code.                                              *)
THEOREM NothingElseUnsaved == MCSpec => []OnlyUpgradesUnsaved
  <1>1. CanistersInv => OnlyUpgradesUnsaved
    BY DEF CanistersInv, HubInv
  <1> QED BY <1>1, CanistersInductive, PTL

(* fetch_sns_proposals and refresh_sns_canisters: however they overlap with *)
(* each other, with removals and with imports, a count the registry made is *)
(* backed by what it stores, and stays exact, or zero since a refresh.      *)
THEOREM CountsTrue == MCSpec => CountsAreTrue
  <1>1. CanistersInv /\ [MCNext]_MCVars => [S!CountsAreBacked']_MCVars
    BY CanistersStep DEF CanistersInv, SnsInv
  <1>2. CanistersInv /\ [MCNext]_MCVars =>
          [\A s \in Sns : S!ExactOrReset(s) => S!ExactOrReset(s)' \/ S!ImportFor(s)]_(S!vars)
    BY CanistersStep DEF StaysExact
  <1> QED BY <1>1, <1>2, CanistersInductive, PTL DEF MCSpec, CountsAreTrue, S!CountsStayExact

(* create_gov_dao and create_dao_canister: a registered DAO is installed,   *)
(* listed and one caller's, and a canister that was created is lost to the  *)
(* factory's list by nothing but an upgrade of the factory.                 *)
THEOREM LosesNothing == MCSpec => FactoryLosesNothing
  <1>1. CanistersInv /\ [MCNext]_MCVars => [F!RegisteredDaosAreDeployed']_MCVars
    BY CanistersStep DEF CanistersInv, FactoryInv
  <1>2. CanistersInv /\ [MCNext]_MCVars =>
          [F!FactoryUpgrade \/ F!Lost' \subseteq F!Lost]_(F!vars)
    BY CanistersStep
  <1> QED BY <1>1, <1>2, CanistersInductive, PTL
          DEF MCSpec, FactoryLosesNothing, F!CreatedAreListed

(* create_proposal and add_committee: no proposal is replaced, and, while   *)
(* no more calls are made than a committee's id has values, no two          *)
(* committees have one id or one type, whichever calls fail half-way.       *)
THEOREM IdsAreNew ==
  ASSUME MaxCalls <= IdModulus
  PROVE  MCSpec => GovernanceIdsAreNew
  <1>1. MCInit => CommitteesInv
    BY CanistersBegin
  <1>2. CanistersInv /\ CommitteesInv /\ [MCNext]_MCVars => CommitteesInv'
    BY CanistersStep
  <1>3. CommitteesInv => G!CommitteesAreDistinct
    BY DEF CommitteesInv, DistinctBelowNext, G!CommitteesAreDistinct
  <1>4. CanistersInv /\ [MCNext]_MCVars =>
          [G!CreateProposal => G!NextProposalId \notin DOMAIN proposals]_(G!vars)
    BY CanistersStep
  <1>5. MCSpec => []CommitteesInv
    BY <1>1, <1>2, CanistersInductive, PTL DEF MCSpec
  <1>6. MCSpec => [][G!CommitteesAreDistinct']_MCVars
    BY <1>3, <1>5, PTL DEF MCSpec
  <1>7. MCSpec => G!ProposalIdsAreNew
    BY <1>4, CanistersInductive, PTL DEF MCSpec, G!ProposalIdsAreNew
  <1> QED BY <1>6, <1>7, PTL DEF GovernanceIdsAreNew
=============================================================================
