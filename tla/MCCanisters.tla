------------------------------ MODULE MCCanisters ------------------------------
(* Small instances of four parts whose state no other part can change: the   *)
(* hub's record and users, the SNS registry, the factory and the governance  *)
(* of a DAO.  A behaviour is one of one of them, the others being at rest.   *)
EXTENDS HubState, TLC

CONSTANTS
  Sns, Jobs, Limit, MaxProposals,
  Callers, Production, MaxCanisters,
  Principals, Controllers, Types, IdModulus, MaxCalls, Skips

VARIABLES
  part, \* the part that runs
  listed, stored, gov, job,
  daos, state, saved, created, installed, call,
  govState, govSaved, proposals

S == INSTANCE SnsRegistry
F == INSTANCE DaoFactory
G == INSTANCE DaoGovernance WITH state <- govState, saved <- govSaved

ASSUME CanistersAssumption ==
  S!SnsAssumption /\ F!FactoryAssumption /\ G!GovernanceAssumption

snsVars == <<listed, stored, gov, job>>
factoryVars == <<daos, state, saved, created, installed, call>>
governanceVars == <<govState, govSaved, proposals>>
MCVars == <<part, vars, snsVars, factoryVars, governanceVars>>

MCInit ==
  /\ part \in {"hub", "sns", "factory", "governance"}
  /\ Init /\ S!Init /\ F!Init /\ G!Init
  /\ part # "governance" => govState.admins = {CHOOSE p \in Principals : TRUE}

MCNext ==
  /\ UNCHANGED part
  /\ \/ part = "hub" /\ Next /\ UNCHANGED <<snsVars, factoryVars, governanceVars>>
     \/ part = "sns" /\ S!Next /\ UNCHANGED <<vars, factoryVars, governanceVars>>
     \/ part = "factory" /\ F!Next /\ UNCHANGED <<vars, snsVars, governanceVars>>
     \/ part = "governance" /\ G!Next /\ UNCHANGED <<vars, snsVars, factoryVars>>

MCSpec == MCInit /\ [][MCNext]_MCVars

MCSymmetry == Permutations(Jobs) \cup Permutations(Callers)

(* The types of all of them, and one role per DAO of a user of the hub.      *)
CanistersTypeOK == TypeOK /\ OneRolePerDao /\ S!TypeOK /\ F!TypeOK /\ G!TypeOK

(* SnsRegistry: counts the registry made never exceed what it stores, and    *)
(* are exact, or zero since a refresh, but for what a caller imported.       *)
CountsAreTrue == [][S!CountsAreBacked']_MCVars /\ S!CountsStayExact

(* DaoFactory: what is registered is installed, listed and one caller's, and *)
(* no canister is lost but by an upgrade.                                    *)
FactoryLosesNothing == [][F!RegisteredDaosAreDeployed']_MCVars /\ F!CreatedAreListed

(* DaoGovernance: no proposal is replaced, and no two committees have one    *)
(* type or one id.                                                           *)
GovernanceIdsAreNew == [][G!CommitteesAreDistinct']_MCVars /\ G!ProposalIdsAreNew
=============================================================================
