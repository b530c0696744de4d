--------------------------------- MODULE MCWeb ---------------------------------
(* Small instances of the pages and tabs of the web application, its         *)
(* session, and the API proxy.  A behaviour is one of one of them, the       *)
(* others being at rest: a browser shows one page at a time, and what the    *)
(* pages share is in the modules of the canisters.                           *)
EXTENDS TreasuryTab

CONSTANTS
  Names, Chains, MaxMembers, MaxDaos,
  Drafts, Committees, MaxPersonas, Submissions,
  Texts, MaxProposals, MaxCommittees,
  RateLimit, Users

VARIABLES
  part, \* the part that runs
  createPage, createCall, made,
  step, idea, suggesting, draft, form, debate, failed, copilotCall,
  modal, selected, listed, fetched, pageCall, analyzer,
  committeeForm, editor, committees, save, dao,
  server, hasKey, count, request, bought,
  auth, page, hasDao, daoInfo, backend, signed

C == INSTANCE CreateDaoPage WITH page <- createPage, call <- createCall
P == INSTANCE ProposalCopilot WITH call <- copilotCall, Calls <- Submissions
L == INSTANCE ProposalsPage WITH call <- pageCall, canister <- analyzer
T == INSTANCE CommitteesTab
       WITH form <- committeeForm, listed <- committees, call <- save, canister <- dao
X == INSTANCE ApiProxy WITH Requests <- Calls
S == INSTANCE Session

ASSUME WebAssumption ==
  /\ C!PageAssumption /\ P!CopilotAssumption /\ X!ProxyAssumption /\ S!SessionAssumption

createVars == <<createPage, createCall, made>>
copilotVars == <<step, idea, suggesting, draft, form, debate, failed, copilotCall>>
listVars == <<modal, selected, listed, fetched, pageCall, analyzer>>
committeeVars == <<committeeForm, editor, committees, save, dao>>
proxyVars == <<server, hasKey, count, request, bought>>
sessionVars == <<auth, page, hasDao, daoInfo, backend, signed>>
MCVars ==
  <<part, vars, createVars, copilotVars, listVars, committeeVars, proxyVars, sessionVars>>

Parts == {"treasury", "create", "copilot", "list", "committees", "proxy", "session"}

MCInit ==
  /\ part \in Parts
  /\ Init /\ C!Init /\ P!Init /\ L!Init /\ T!Init /\ X!Init /\ S!Init
  /\ part # "proxy" => ~hasKey
  /\ part # "session" => hasDao = {}

Others(p) ==
  /\ part = p /\ UNCHANGED part
  /\ p # "treasury" => UNCHANGED vars
  /\ p # "create" => UNCHANGED createVars
  /\ p # "copilot" => UNCHANGED copilotVars
  /\ p # "list" => UNCHANGED listVars
  /\ p # "committees" => UNCHANGED committeeVars
  /\ p # "proxy" => UNCHANGED proxyVars
  /\ p # "session" => UNCHANGED sessionVars

MCNext ==
  \/ Others("treasury") /\ Next
  \/ Others("create") /\ C!Next
  \/ Others("copilot") /\ P!Next
  \/ Others("list") /\ L!Next
  \/ Others("committees") /\ T!Next
  \/ Others("proxy") /\ X!Next
  \/ Others("session") /\ S!Next

(* What is at rest has nothing that fairness could ask of it.                *)
MCSpec ==
  /\ MCInit /\ [][MCNext]_MCVars
  /\ Fairness /\ C!Fairness /\ P!Fairness /\ X!Fairness

(* The types of all of them.                                                 *)
WebTypeOK == TypeOK /\ C!TypeOK /\ P!TypeOK /\ L!TypeOK /\ T!TypeOK /\ X!TypeOK /\ S!TypeOK

(* CreateDaoPage: a DAO, and later its token, is made of one form in which   *)
(* nothing is missing.                                                       *)
DaosAreOfCheckedForms == C!DaosAreOfCheckedForms

(* CreateDaoPage: the page says that it is creating exactly while one, and   *)
(* never more than one, of its own handlers awaits an answer.                *)
CreatingIsTrue == C!CreatingIsTrue

(* ProposalCopilot: the review shows one draft with the committee suggested  *)
(* for it, and what is submitted names no committee of another draft.        *)
CommitteeIsOfTheProposal == P!ReviewIsWhole /\ P!PersonaExists /\ P!CommitteeIsOfTheProposal

(* ProposalsPage, CommitteesTab: a save that ends throws away nothing that   *)
(* was typed but is not in it.                                               *)
NoEditIsLost == L!SubmissionIsInTheModal /\ T!NoEditIsLost

(* ApiProxy: requests are answered once or cut off by a kill, and the calls  *)
(* of the paid service stay within the limit of a window.                    *)
AnsweredOnceWithinLimit == X!AnsweredOnce /\ X!BoughtWithinLimit

(* Session: what the DAO page sends goes to the DAO of the user who is       *)
(* logged in, signed by him.                                                 *)
CallsAreTheUsers == S!CallsAreTheUsers

(* TreasuryTab, CreateDaoPage, ProposalCopilot, ApiProxy: what awaits an     *)
(* answer ends, and the dialog, page, step or process that waits for it goes *)
(* on.                                                                       *)
WaitsEnd == SendingEnds /\ C!CreationsEnd /\ P!DraftingEnds /\ X!ShutdownEnds
=============================================================================
