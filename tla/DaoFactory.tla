------------------------------- MODULE DaoFactory -------------------------------
(***************************************************************************)
(* The factory of DAO canisters (src/src/ic_govmind_factory/src) and what  *)
(* it installs (the init and post_upgrade of ic_govmind_backend).          *)
(* create_gov_dao looks whether the caller has a DAO, then awaits the      *)
(* status of the factory, the creation of a canister and its installation, *)
(* and only then registers the DAO; other calls run at every await.  The   *)
(* registry of DAOs is stable memory; the list of deployed canisters is on *)
(* the heap and reaches stable memory when the state is saved.             *)
(***************************************************************************)
EXTENDS Integers

CONSTANTS
  Callers,      \* users other than the anonymous one
  Envs,         \* key environments
  Production,   \* the default one
  Jobs,         \* calls under way at a time
  MaxCanisters  \* bound on the canisters created

FactoryAssumption == MaxCanisters \in Nat /\ Production \in Envs

VARIABLES
  daos,      \* DAO_STORE: the DAO canister of each caller that has one
  state,     \* STATE: canister_list and default_env
  saved,     \* STATE_STORE: the state last saved
  created,   \* external: how many canisters the management canister made
  installed, \* the root, key_env and keys of each DAO canister that has code
  call       \* the calls that await an answer

vars == <<daos, state, saved, created, installed, call>>

Canisters == 1 .. MaxCanisters
Idle == [phase |-> "idle"]

States == [listed : SUBSET Canisters, env : Envs]
DaoCanister == [root : Callers, keyEnv : Envs, keys : Envs]
CallStates ==
  {Idle}
    \cup [phase : {"status", "creating"}, registers : BOOLEAN, root : Callers, env : Envs]
    \cup [phase : {"created", "installing", "installed"}, registers : BOOLEAN,
          root : Callers, env : Envs, canister : Canisters]
    \cup [phase : {"upgrading"}, root : Callers, env : Envs, canister : Canisters]

Init ==
  /\ daos = [u \in {} |-> 0]
  /\ state = [listed |-> {}, env |-> Production]
  /\ saved = state
  /\ created = 0
  /\ installed = [c \in {} |-> 0]
  /\ call = [j \in Jobs |-> Idle]

Insert(map, k, v) == [x \in DOMAIN map \cup {k} |-> IF x = k THEN v ELSE map[x]]
Becomes(j, s) == call' = [call EXCEPT ![j] = s]
In(j, phase) == call[j].phase = phase

-----------------------------------------------------------------------------
(* create_gov_dao: only for a caller with no DAO; create_dao_canister, of   *)
(* the owner, registers none.  The environment is read before any await.    *)
Creating(j, registers, u, env) ==
  /\ In(j, "idle")
  /\ Becomes(j, [phase |-> "status", registers |-> registers, root |-> u, env |-> env])
  /\ UNCHANGED <<daos, state, saved, created, installed>>

CreateGovDao(j, u) == u \notin DOMAIN daos /\ Creating(j, TRUE, u, state.env)
CreateDaoCanister(j, u, env) == Creating(j, FALSE, u, env)

(* check_cycles found more than DEPLOY_THRESHOLD.                           *)
CyclesSuffice(j) ==
  /\ In(j, "status")
  /\ Becomes(j, [call[j] EXCEPT !.phase = "creating"])
  /\ UNCHANGED <<daos, state, saved, created, installed>>

(* The management canister creates a canister; its answer is on the way.    *)
CanisterCreated(j) ==
  /\ In(j, "creating") /\ created < MaxCanisters
  /\ created' = created + 1
  /\ Becomes(j, [phase |-> "created", registers |-> call[j].registers, root |-> call[j].root,
                 env |-> call[j].env, canister |-> created + 1])
  /\ UNCHANGED <<daos, state, saved, installed>>

(* The answer arrives: the canister is listed, on the heap, and its         *)
(* installation is asked for.                                               *)
Listed(c) == [state EXCEPT !.listed = @ \cup {c}]

CanisterAnswered(j) ==
  /\ In(j, "created")
  /\ state' = Listed(call[j].canister)
  /\ Becomes(j, [call[j] EXCEPT !.phase = "installing"])
  /\ UNCHANGED <<daos, saved, created, installed>>

(* The DAO canister runs its init with the arguments of the call.           *)
DaoInit(j) ==
  /\ In(j, "installing")
  /\ installed' = Insert(installed, call[j].canister,
                    [root |-> call[j].root, keyEnv |-> call[j].env, keys |-> call[j].env])
  /\ Becomes(j, [call[j] EXCEPT !.phase = "installed"])
  /\ UNCHANGED <<daos, state, saved, created>>

(* The installation is answered: create_gov_dao_core registers the DAO.     *)
Registered(j) ==
  IF call[j].registers THEN Insert(daos, call[j].root, call[j].canister) ELSE daos

DaoCreated(j) ==
  /\ In(j, "installed")
  /\ daos' = Registered(j)
  /\ Becomes(j, Idle)
  /\ UNCHANGED <<state, saved, created, installed>>

(* An error at any of the awaits ends the call; what was done stays done.   *)
Refused(j) ==
  /\ call[j].phase \in {"status", "creating", "installing", "upgrading"}
  /\ Becomes(j, Idle)
  /\ UNCHANGED <<daos, state, saved, created, installed>>

-----------------------------------------------------------------------------
(* upgrade_gov_dao, of a caller with a DAO, and upgrade_dao_canister of the *)
(* owner, for any canister: one without code refuses.  The arguments give   *)
(* both a root and an environment.                                          *)
Upgrading(j, u, env, c) ==
  /\ In(j, "idle")
  /\ Becomes(j, [phase |-> "upgrading", root |-> u, env |-> env, canister |-> c])
  /\ UNCHANGED <<daos, state, saved, created, installed>>

UpgradeGovDao(j, u) == u \in DOMAIN daos /\ Upgrading(j, u, state.env, daos[u])
UpgradeDaoCanister(j, u, env, c) == c \in DOMAIN installed /\ Upgrading(j, u, env, c)

(* post_upgrade of the DAO canister: root and keys follow the arguments,    *)
(* key_env does not.                                                        *)
DaoPostUpgrade(j) ==
  /\ In(j, "upgrading")
  /\ installed' = [installed EXCEPT ![call[j].canister].root = call[j].root,
                                    ![call[j].canister].keys = call[j].env]
  /\ Becomes(j, Idle)
  /\ UNCHANGED <<daos, state, saved, created>>

-----------------------------------------------------------------------------
(* set_default_env of the owner saves the whole state.                      *)
SetDefaultEnv(e) ==
  /\ state' = [state EXCEPT !.env = e]
  /\ saved' = state'
  /\ UNCHANGED <<daos, created, installed, call>>

(* An upgrade of the factory: pre_upgrade saves, post_upgrade loads, and    *)
(* the calls under way are never resumed.                                   *)
Unsaved == saved
PreUpgrade == state

FactoryUpgrade ==
  /\ saved' = PreUpgrade
  /\ state' = saved'
  /\ call' = [j \in Jobs |-> Idle]
  /\ UNCHANGED <<daos, created, installed>>

-----------------------------------------------------------------------------
Ask(j) ==
  \/ \E u \in Callers : CreateGovDao(j, u) \/ UpgradeGovDao(j, u)
  \/ \E u \in Callers, e \in Envs :
       CreateDaoCanister(j, u, e) \/ \E c \in Canisters : UpgradeDaoCanister(j, u, e, c)

Continue(j) ==
  \/ CyclesSuffice(j) \/ CanisterCreated(j) \/ CanisterAnswered(j)
  \/ DaoInit(j) \/ DaoCreated(j) \/ Refused(j) \/ DaoPostUpgrade(j)

Next ==
  \/ \E j \in Jobs : Ask(j) \/ Continue(j)
  \/ \E e \in Envs : SetDefaultEnv(e)
  \/ FactoryUpgrade

Spec == Init /\ [][Next]_vars

-----------------------------------------------------------------------------
(* The registry, the list and the calls have their types, and the canister  *)
(* ids in them are ids the management canister gave.                        *)
TypeOK ==
  /\ DOMAIN daos \subseteq Callers /\ \A u \in DOMAIN daos : daos[u] \in Canisters
  /\ state \in States /\ saved \in States
  /\ created \in 0 .. MaxCanisters
  /\ DOMAIN installed \subseteq Canisters /\ \A c \in DOMAIN installed : installed[c] \in DaoCanister
  /\ call \in [Jobs -> CallStates]

(* A registered DAO is a canister that has code and that the factory lists, *)
(* of one caller only: whatever fails, overlaps or is cut short by an       *)
(* upgrade (create_gov_dao_core registers after the installation,           *)
(* create_and_install_canister lists before it).                            *)
RegisteredDaosAreDeployed ==
  /\ \A u \in DOMAIN daos : daos[u] \in DOMAIN installed /\ daos[u] \in state.listed
  /\ \A u, v \in DOMAIN daos : daos[u] = daos[v] => u = v

(* No canister is paid for and lost, whatever fails: each one created is    *)
(* listed, or the answer that lets the factory list it is on the way.  Only *)
(* an upgrade that cuts that answer off loses one.                          *)
Lost ==
  {c \in 1 .. created :
     c \notin state.listed /\ ~ \E j \in Jobs : In(j, "created") /\ call[j].canister = c}
CreatedAreListed == [][FactoryUpgrade \/ Lost' \subseteq Lost]_vars

(* "User has already created a DAO" (api_update.rs:57): the DAO of a caller *)
(* is not replaced by another.                                              *)
DaosAreNotReplaced ==
  [][\A u \in DOMAIN daos : u \in DOMAIN daos' /\ daos'[u] = daos[u]]_vars
=============================================================================
