-------------------------------- MODULE Session --------------------------------
(***************************************************************************)
(* Who is logged in (hooks/useAuthClient.jsx), which page that shows       *)
(* (App.jsx, pages/AppEntryPage.jsx), and what the query cache of the      *)
(* application still holds of an earlier user (hooks/daoHooks.js): the     *)
(* cache is emptied by a reload of the browser's page and by nothing else. *)
(* Every user has at most one DAO, so a DAO is named by its owner.         *)
(***************************************************************************)

CONSTANT Users \* principals

VARIABLES
  auth,    \* the state of AuthProvider, and whether a login window is open
  page,    \* the route
  hasDao,  \* external: the users whose DAO the factory knows
  daoInfo, \* cache of useDaoInfo, and its fetches under way, by key
  backend, \* cache of useBackendDaoInfo: whose agent the cached actor has
  signed   \* history: the last call of the DAO page to a DAO

vars == <<auth, page, hasDao, daoInfo, backend, signed>>

Nobody == "nobody"
NoDao == "no dao"
Unread == "unread"
AnyUser == Users \cup {Nobody}

(* A principal is none of the values that stand for there being none.       *)
SessionAssumption == Users \cap {Nobody, NoDao, Unread} = {}

NotLoaded == [client |-> FALSE, loading |-> TRUE, user |-> Nobody, window |-> FALSE, leaving |-> FALSE]
EmptyDaoInfo == [u \in Users |-> [data |-> Unread, fetch |-> Nobody]]
EmptyBackend == [d \in Users |-> [signer |-> Nobody, fetch |-> Nobody]]
NoCall == [by |-> Nobody, signer |-> Nobody, dao |-> NoDao]

Init ==
  /\ auth = NotLoaded /\ page = "home" /\ signed = NoCall
  /\ hasDao \in SUBSET Users
  /\ daoInfo = EmptyDaoInfo /\ backend = EmptyBackend

-----------------------------------------------------------------------------
(* initAuth: the client, with the identity stored in the browser, if there  *)
(* is one; or an exception, and no client.                                  *)
InitAuthEnds(u, client) ==
  /\ auth.loading /\ ~auth.leaving /\ (client \/ u = Nobody)
  /\ auth' = [auth EXCEPT !.client = client, !.loading = FALSE, !.user = u]
  /\ UNCHANGED <<page, hasDao, daoInfo, backend, signed>>

(* login does nothing before there is a client, which the button does not   *)
(* wait for (useAuthClient has no field "loading"); it returns when the     *)
(* window of the identity provider is open, which answers later, or never.  *)
Login ==
  /\ page = "app" /\ auth.client /\ auth.user = Nobody
  /\ auth' = [auth EXCEPT !.window = TRUE]
  /\ UNCHANGED <<page, hasDao, daoInfo, backend, signed>>

LoginSucceeds(u) ==
  /\ auth.window
  /\ auth' = [auth EXCEPT !.window = FALSE, !.user = u]
  /\ UNCHANGED <<page, hasDao, daoInfo, backend, signed>>

WindowClosed ==
  /\ auth.window
  /\ auth' = [auth EXCEPT !.window = FALSE]
  /\ UNCHANGED <<page, hasDao, daoInfo, backend, signed>>

(* logout, from the header of the pages that need a user.                   *)
RequireAuth == ~auth.loading /\ auth.user # Nobody
Logout ==
  /\ page = "dao" /\ RequireAuth
  /\ auth' = [auth EXCEPT !.loading = TRUE, !.leaving = TRUE]
  /\ UNCHANGED <<page, hasDao, daoInfo, backend, signed>>

UserKept == auth.user
LogoutEnds ==
  /\ auth.leaving
  /\ \E user \in {Nobody, UserKept} :
       auth' = [auth EXCEPT !.loading = FALSE, !.leaving = FALSE, !.user = user]
  /\ page' = "home"
  /\ UNCHANGED <<hasDao, daoInfo, backend, signed>>

-----------------------------------------------------------------------------
(* The links of the pages; a page that needs a user goes home without one,  *)
(* and the entry page on to the pages when there is one.                    *)
Navigate(to) ==
  /\ page' = IF to = "dao" /\ ~auth.loading /\ auth.user = Nobody THEN "home"
             ELSE IF to = "app" /\ auth.user # Nobody THEN "dao" ELSE to
  /\ UNCHANGED <<auth, hasDao, daoInfo, backend, signed>>

Redirect ==
  /\ \/ page = "app" /\ auth.user # Nobody /\ page' = "dao"
     \/ page = "dao" /\ ~auth.loading /\ auth.user = Nobody /\ page' = "home"
  /\ UNCHANGED <<auth, hasDao, daoInfo, backend, signed>>

(* The browser loads the page anew, as AuthClient also does after a time    *)
(* without input.                                                           *)
Reload ==
  /\ auth' = NotLoaded
  /\ daoInfo' = EmptyDaoInfo /\ backend' = EmptyBackend
  /\ UNCHANGED <<page, hasDao, signed>>

(* The user is given a DAO (CreateDaoPage, DaoFactory).                     *)
CreateDao ==
  /\ page = "dao" /\ RequireAuth
  /\ hasDao' = hasDao \cup {auth.user}
  /\ UNCHANGED <<auth, page, daoInfo, backend, signed>>

-----------------------------------------------------------------------------
(* useDaoInfo asks for the DAO of the principal, under a key made of it;    *)
(* useBackendDaoInfo keeps an actor with the agent of the time, under the   *)
(* DAO's id.  A fetch goes on when the page is left, and ends in an answer  *)
(* that is cached or an exception that leaves what was.                     *)
OneKey(user) == CHOOSE u \in Users : TRUE
DaoKey(user) == user
DaoShown == daoInfo[DaoKey(auth.user)].data
OnDaoPage == page = "dao" /\ RequireAuth

FetchDaoInfo ==
  /\ OnDaoPage /\ daoInfo[DaoKey(auth.user)].fetch = Nobody
  /\ daoInfo' = [daoInfo EXCEPT ![DaoKey(auth.user)].fetch = auth.user]
  /\ UNCHANGED <<auth, page, hasDao, backend, signed>>

DaoInfoAnswered(key) ==
  LET user == daoInfo[key].fetch IN
  /\ user # Nobody
  /\ \E data \in {daoInfo[key].data, IF user \in hasDao THEN user ELSE NoDao} :
       daoInfo' = [daoInfo EXCEPT ![key] = [data |-> data, fetch |-> Nobody]]
  /\ UNCHANGED <<auth, page, hasDao, backend, signed>>

FetchBackend ==
  /\ OnDaoPage /\ DaoShown \in Users /\ backend[DaoShown].fetch = Nobody
  /\ backend' = [backend EXCEPT ![DaoShown].fetch = auth.user]
  /\ UNCHANGED <<auth, page, hasDao, daoInfo, signed>>

BackendAnswered(d) ==
  /\ backend[d].fetch # Nobody
  /\ \E signer \in {Nobody, backend[d].fetch} :
       backend' = [backend EXCEPT ![d] = [signer |-> signer, fetch |-> Nobody]]
  /\ UNCHANGED <<auth, page, hasDao, daoInfo, signed>>

(* A tab calls the DAO: the treasury with an actor of its own, made with    *)
(* the agent, the others with the cached one.                               *)
CallDao(signer) ==
  /\ OnDaoPage /\ DaoShown \in Users
  /\ signer # Nobody /\ signer \in {auth.user, backend[DaoShown].signer}
  /\ signed' = [by |-> auth.user, signer |-> signer, dao |-> DaoShown]
  /\ UNCHANGED <<auth, page, hasDao, daoInfo, backend>>

-----------------------------------------------------------------------------
AuthEnds == LogoutEnds \/ \E u \in AnyUser, client \in BOOLEAN : InitAuthEnds(u, client)

Next ==
  \/ Login \/ WindowClosed \/ Logout \/ AuthEnds
  \/ Redirect \/ Reload \/ CreateDao \/ FetchDaoInfo \/ FetchBackend
  \/ \E to \in {"home", "app", "dao"} : Navigate(to)
  \/ \E u \in Users : LoginSucceeds(u) \/ DaoInfoAnswered(u) \/ BackendAnswered(u) \/ CallDao(u)

Spec == Init /\ [][Next]_vars

-----------------------------------------------------------------------------
TypeOK ==
  /\ auth \in [client : BOOLEAN, loading : BOOLEAN, user : AnyUser, window : BOOLEAN, leaving : BOOLEAN]
  /\ page \in {"home", "app", "dao"} /\ hasDao \subseteq Users
  /\ daoInfo \in [Users -> [data : Users \cup {NoDao, Unread}, fetch : AnyUser]]
  /\ backend \in [Users -> [signer : AnyUser, fetch : AnyUser]]
  /\ signed \in [by : AnyUser, signer : AnyUser, dao : Users \cup {NoDao}]

(* What the DAO page sends goes to the DAO of the user who is logged in and *)
(* is signed by him: neither the DAO nor the actor is one that the cache or *)
(* a late answer kept of the user before (the keys of daoHooks.js).         *)
CallsAreTheUsers == signed.by = signed.signer /\ (signed.by # Nobody => signed.dao = signed.by)
=============================================================================
