------------------------------- MODULE HubState --------------------------------
(***************************************************************************)
(* The hub canister's own record (src/src/ic_govmind_hub/src/store.rs,     *)
(* State), which lives twice: on the heap and in a stable cell.  The       *)
(* handlers that change it call load() first and save() last; an upgrade   *)
(* saves the heap, loads it back and then changes the heap alone.  Users   *)
(* and orders live in stable maps and survive as they are.                 *)
(***************************************************************************)
EXTENDS Integers, Sequences, SequencesExt, FiniteSets

CONSTANTS
  Pids,      \* principals that log in, own, are linked
  FirstOwner, \* the owner named by the init arguments
  Envs,      \* Environment
  FirstEnv,
  Codes,     \* invite codes
  CodeLimit, \* add_invite_code refuses at this many codes (500)
  BatchLimit, \* add_invite_codes refuses a longer batch (100)
  Daos, Roles,
  MaxOrders, \* bound on the orders
  MaxUpgrades \* bound on the upgrades

ASSUME HubAssumption ==
  /\ FirstOwner \in Pids /\ FirstEnv \in Envs
  /\ CodeLimit \in Nat /\ BatchLimit \in Nat /\ MaxOrders \in Nat /\ MaxUpgrades \in Nat

VARIABLES
  heap,   \* STATE
  stable, \* STATE_STORE
  orders, \* PAYMENT_STORE: how often each order id was inserted
  users,  \* USER_STORE: the dao_roles of every registered user
  upgrades

vars == <<heap, stable, orders, users, upgrades>>

Init ==
  /\ heap = [owner |-> FirstOwner, env |-> FirstEnv, next |-> 0, total |-> 0, codes |-> {}]
  /\ stable = heap
  /\ orders = [id \in {} |-> 0]
  /\ users = [u \in {} |-> <<>>]
  /\ upgrades = 0

-----------------------------------------------------------------------------
(* A handler that loads, changes and saves the record.                      *)
Loaded == stable

ForgetSave(record) == heap' = record /\ UNCHANGED stable
Commit(record) == heap' = record /\ stable' = record

Counted(record) == [record EXCEPT !.next = @ + 1, !.total = @ + 1]

(* create_payment_order of the hub; the order itself is HubPayment's.       *)
CreateOrder ==
  /\ Loaded.next < MaxOrders
  /\ LET id == Loaded.next IN
     orders' = [i \in DOMAIN orders \cup {id} |->
                 IF i = id THEN (IF id \in DOMAIN orders THEN orders[id] + 1 ELSE 1)
                 ELSE orders[i]]
  /\ Commit(Counted(Loaded))
  /\ UNCHANGED <<users, upgrades>>

(* owner_guard reads the owner before the handler loads anything.           *)
OwnerGuard(p) == p = heap.owner

(* add_invite_code: a known code is answered as if added, one too many is   *)
(* refused, after the load and before the save.                             *)
AddInviteCode(p, code) ==
  /\ OwnerGuard(p)
  /\ IF code \in Loaded.codes THEN Commit(Loaded)
     ELSE IF Cardinality(Loaded.codes) >= CodeLimit THEN heap' = Loaded /\ UNCHANGED stable
     ELSE Commit([Loaded EXCEPT !.codes = @ \cup {code}])
  /\ UNCHANGED <<orders, users, upgrades>>

(* add_invite_codes checks the length of the batch, not of what it becomes. *)
AddInviteCodes(p, batch) ==
  /\ OwnerGuard(p)
  /\ IF Cardinality(batch) > BatchLimit THEN heap' = Loaded /\ UNCHANGED stable
     ELSE Commit([Loaded EXCEPT !.codes = @ \cup batch])
  /\ UNCHANGED <<orders, users, upgrades>>

-----------------------------------------------------------------------------
(* user_login, admin_login: a user that is not known starts anew.           *)
IsUnknown(u) == u \notin DOMAIN users

Registered(u) ==
  users' = IF IsUnknown(u)
             THEN [v \in DOMAIN users \cup {u} |-> IF v = u THEN <<>> ELSE users[v]]
             ELSE users

UserLogin(u) ==
  /\ Registered(u)
  /\ UNCHANGED <<heap, stable, orders, upgrades>>

AdminLogin(p, u) ==
  /\ OwnerGuard(p)
  /\ Registered(u)
  /\ UNCHANGED <<heap, stable, orders, upgrades>>

(* link_user_to_dao: the role of a DAO the user has is replaced, else it is *)
(* pushed.                                                                  *)
AlwaysPush(roles, dao, role) == Append(roles, [dao |-> dao, role |-> role])
Linked(roles, dao, role) ==
  LET found == SelectInSeq(roles, LAMBDA r : r.dao = dao) IN
  IF found # 0 THEN [roles EXCEPT ![found].role = role]
  ELSE Append(roles, [dao |-> dao, role |-> role])

LinkUserToDao(u, dao, role) ==
  /\ u \in DOMAIN users
  /\ users' = [users EXCEPT ![u] = Linked(@, dao, role)]
  /\ UNCHANGED <<heap, stable, orders, upgrades>>

-----------------------------------------------------------------------------
(* pre_upgrade saves, post_upgrade loads and sets what Upgrade arguments    *)
(* give on the heap.                                                        *)
Given(options) == {{}} \cup {{x} : x \in options}
OrKeep(given, old) == IF given = {} THEN old ELSE CHOOSE x \in given : TRUE

PreUpgrade == heap

Upgrade(owner, env) ==
  /\ upgrades < MaxUpgrades
  /\ upgrades' = upgrades + 1
  /\ stable' = PreUpgrade
  /\ heap' = [PreUpgrade EXCEPT !.owner = OrKeep(owner, @), !.env = OrKeep(env, @)]
  /\ UNCHANGED <<orders, users>>

Next ==
  \/ CreateOrder
  \/ \E p \in Pids :
       \/ \E code \in Codes : AddInviteCode(p, code)
       \/ \E batch \in SUBSET Codes : AddInviteCodes(p, batch)
       \/ \E u \in Pids : AdminLogin(p, u)
       \/ UserLogin(p)
       \/ \E dao \in Daos, role \in Roles : LinkUserToDao(p, dao, role)
  \/ \E owner \in Given(Pids), env \in Given(Envs) : Upgrade(owner, env)

Spec == Init /\ [][Next]_vars

-----------------------------------------------------------------------------
Records == [owner : Pids, env : Envs, next : 0 .. MaxOrders, total : 0 .. MaxOrders, codes : SUBSET Codes]

(* The types of the state.                                                  *)
TypeOK ==
  /\ heap \in Records /\ stable \in Records
  /\ DOMAIN orders \subseteq Nat /\ DOMAIN users \subseteq Pids
  /\ upgrades \in 0 .. MaxUpgrades

(* An order id is given out once, whatever is loaded, saved or upgraded in  *)
(* between: no order of the stable map is overwritten by a later one.       *)
OrderIdsFresh ==
  /\ \A id \in DOMAIN orders : orders[id] = 1
  /\ DOMAIN orders = 0 .. heap.next - 1
  /\ heap.total = heap.next

(* The heap differs from the stable cell at most in what the last upgrade   *)
(* set: a load() never takes back an id or a code.                          *)
OnlyUpgradesUnsaved ==
  [heap EXCEPT !.owner = stable.owner, !.env = stable.env] = stable

(* However often a user logs in, is registered and is linked again, he has  *)
(* one role per DAO.                                                        *)
OneRolePerDao ==
  \A u \in DOMAIN users : \A i, j \in DOMAIN users[u] :
    users[u][i].dao = users[u][j].dao => i = j
=============================================================================
