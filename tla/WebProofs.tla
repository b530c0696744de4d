------------------------------- MODULE WebProofs -------------------------------
(***************************************************************************)
(* Proofs about the pages and tabs of the web application, its session,    *)
(* and the API proxy, for any number of handlers, requests and users at a  *)
(* time.  Each part has an inductive invariant of its own; a step of one   *)
(* part leaves the others' alone, so their conjunction is inductive for    *)
(* MCWeb.                                                                  *)
(***************************************************************************)
EXTENDS MCWeb, TreasuryTabProofs, SequenceTheorems

USE TreasuryAssumption, WebAssumption
USE DEF C!PageAssumption, P!CopilotAssumption, X!ProxyAssumption, S!SessionAssumption

-----------------------------------------------------------------------------
(* The session.  What the cache and its fetches hold under a user's key, or *)
(* under a DAO's, is that user's.                                           *)
SessionInv ==
  /\ S!TypeOK
  /\ \A u \in Users :
       /\ daoInfo[u].data \in {S!Unread, S!NoDao, u}
       /\ daoInfo[u].fetch \in {S!Nobody, u}
       /\ backend[u].signer \in {S!Nobody, u}
       /\ backend[u].fetch \in {S!Nobody, u}
  /\ S!CallsAreTheUsers

-----------------------------------------------------------------------------
(* The page that creates a DAO.  The step it is at tells which of the form  *)
(* was checked, since a step's fields are only edited at that step.         *)
Checked(f) == f.basics # C!Blank /\ f.chains # {}

CreateInv ==
  /\ C!TypeOK
  /\ made \in Seq([form : C!Forms, token : Seq(C!Forms)])
  /\ createPage.step > 1 => createPage.form.basics # C!Blank
  /\ createPage.step > 3 => createPage.form.chains # {}
  /\ \A c \in Calls : C!Busy(c) =>
       /\ Checked(createCall[c].form)
       /\ createCall[c].phase # "factory" =>
            /\ createCall[c].dao \in 1 .. Len(made)
            /\ made[createCall[c].dao].form = createCall[c].form
  /\ C!DaosAreOfCheckedForms
  /\ C!CreatingIsTrue

-----------------------------------------------------------------------------
(* The copilot.  While a draft is awaited there is none, nor a committee,   *)
(* and step 1 is shown.                                                     *)
OfTheText(f) == f.committee.of \in {f.text, P!ByUser, P!NoDraft}

DraftInv ==
  /\ step \in 1 .. 3 /\ draft \in P!DraftStates
  /\ P!ReviewIsWhole
  /\ draft.generating # "no" => draft.suggestion = P!NoCommittee

FormInv ==
  /\ form \in P!Forms /\ OfTheText(form)
  /\ copilotCall \in [Submissions -> P!CallStates] /\ P!CommitteeIsOfTheProposal

DebateInv == debate \in P!DebateStates /\ P!PersonaExists

CopilotInv ==
  DraftInv /\ FormInv /\ DebateInv /\ {idea, suggesting, failed} \subseteq BOOLEAN

-----------------------------------------------------------------------------
(* The proposals page.  One submission of the modal is pending at a time.   *)
PendingSubmit(c) == pageCall[c].kind = "submit" /\ pageCall[c].mounted

ListInv ==
  /\ L!TypeOK
  /\ L!SubmissionIsInTheModal
  /\ \A c, d \in Calls : PendingSubmit(c) /\ PendingSubmit(d) => c = d

(* The committees tab. *)
CommitteesInv == T!TypeOK /\ T!NoEditIsLost

-----------------------------------------------------------------------------
(* The proxy.  What was bought was counted, and within the limit.           *)
ProxyInv ==
  /\ X!TypeOK
  /\ bought \in Nat /\ bought <= count
  /\ X!AnsweredOnce /\ X!BoughtWithinLimit

WebInv ==
  TypeOK /\ SessionInv /\ CreateInv /\ CopilotInv /\ ListInv /\ CommitteesInv /\ ProxyInv

-----------------------------------------------------------------------------
(* The session. *)
LEMMA SessionTypes ==
  ASSUME SessionInv
  PROVE  /\ auth \in [client : BOOLEAN, loading : BOOLEAN, user : S!AnyUser,
                      window : BOOLEAN, leaving : BOOLEAN]
         /\ page \in {"home", "app", "dao"} /\ hasDao \subseteq Users
         /\ daoInfo \in [Users -> [data : Users \cup {S!NoDao, S!Unread}, fetch : S!AnyUser]]
         /\ backend \in [Users -> [signer : S!AnyUser, fetch : S!AnyUser]]
         /\ signed \in [by : S!AnyUser, signer : S!AnyUser, dao : Users \cup {S!NoDao}]
         /\ S!Nobody \notin Users /\ S!NoDao \notin Users /\ S!Unread \notin Users
  BY DEF SessionInv, S!TypeOK

LEMMA SessionBegins == S!Init => SessionInv
  <1> SUFFICES ASSUME S!Init PROVE SessionInv
    OBVIOUS
  <1>1. \A u \in Users : daoInfo[u] = [data |-> S!Unread, fetch |-> S!Nobody]
                         /\ backend[u] = [signer |-> S!Nobody, fetch |-> S!Nobody]
    BY DEF S!Init, S!EmptyDaoInfo, S!EmptyBackend
  <1>2. S!TypeOK
    BY DEF S!Init, S!TypeOK, S!NotLoaded, S!EmptyDaoInfo, S!EmptyBackend, S!NoCall, S!AnyUser
  <1>3. S!CallsAreTheUsers
    BY DEF S!Init, S!NoCall, S!CallsAreTheUsers
  <1> QED BY <1>1, <1>2, <1>3 DEF SessionInv

(* Who is logged in and which page that shows: the cache stays.             *)
LEMMA LoginsKeep ==
  ASSUME SessionInv, UNCHANGED <<daoInfo, backend, signed>>,
         \/ S!Login \/ S!WindowClosed \/ S!Logout \/ S!AuthEnds
         \/ S!Redirect \/ S!CreateDao
         \/ \E to \in {"home", "app", "dao"} : S!Navigate(to)
         \/ \E u \in Users : S!LoginSucceeds(u)
         \/ UNCHANGED S!vars
  PROVE  SessionInv'
  <1>1. auth' \in [client : BOOLEAN, loading : BOOLEAN, user : S!AnyUser,
                   window : BOOLEAN, leaving : BOOLEAN]
    BY SessionTypes, ZenonT(40)
       DEF S!Login, S!WindowClosed, S!Logout, S!AuthEnds, S!LogoutEnds, S!InitAuthEnds, S!UserKept,
           S!Redirect, S!CreateDao, S!Navigate, S!LoginSucceeds, S!AnyUser, S!vars
  <1>2. page' \in {"home", "app", "dao"}
    BY SessionTypes
       DEF S!Login, S!WindowClosed, S!Logout, S!AuthEnds, S!LogoutEnds, S!InitAuthEnds,
           S!Redirect, S!CreateDao, S!Navigate, S!LoginSucceeds, S!vars
  <1>3. hasDao' \subseteq Users
    <2>1. CASE S!CreateDao
      <3>1. auth.user \in Users
        BY <2>1, SessionTypes DEF S!CreateDao, S!RequireAuth, S!AnyUser
      <3> QED BY <2>1, <3>1, SessionTypes DEF S!CreateDao
    <2>2. CASE UNCHANGED hasDao
      BY <2>2, SessionTypes
    <2> QED BY <2>1, <2>2
        DEF S!Login, S!WindowClosed, S!Logout, S!AuthEnds, S!LogoutEnds, S!InitAuthEnds,
            S!Redirect, S!Navigate, S!LoginSucceeds, S!vars
  <1>4. S!TypeOK'
    BY <1>1, <1>2, <1>3, SessionTypes DEF S!TypeOK, S!AnyUser
  <1> QED BY <1>4 DEF SessionInv, S!CallsAreTheUsers

(* The cache is emptied, or an entry of it is asked for or answered: what   *)
(* it holds under a key stays of that key.                                  *)
LEMMA CacheStep ==
  ASSUME SessionInv, UNCHANGED <<page, hasDao, signed>>,
         \/ S!Reload \/ S!FetchDaoInfo \/ S!FetchBackend
         \/ \E u \in Users : S!DaoInfoAnswered(u) \/ S!BackendAnswered(u)
  PROVE  SessionInv'
  <1>1. auth' = auth \/ auth' = S!NotLoaded
    BY DEF S!Reload, S!FetchDaoInfo, S!FetchBackend, S!DaoInfoAnswered, S!BackendAnswered
  <1>2. /\ daoInfo' = [u \in Users |-> daoInfo'[u]]
        /\ \A u \in Users : daoInfo'[u] \in [data : {S!Unread, S!NoDao, u}, fetch : {S!Nobody, u}]
    <2>0. \A u \in Users : daoInfo[u] \in [data : {S!Unread, S!NoDao, u}, fetch : {S!Nobody, u}]
      BY SessionTypes DEF SessionInv
    <2>1. CASE S!Reload
      BY <2>1 DEF S!Reload, S!EmptyDaoInfo
    <2>2. CASE S!FetchDaoInfo
      <3>1. PICK u \in Users : daoInfo' = [daoInfo EXCEPT ![u].fetch = u]
        BY <2>2, SessionTypes
           DEF S!FetchDaoInfo, S!OnDaoPage, S!RequireAuth, S!AnyUser, S!DaoKey
      <3> QED BY <2>0, <3>1, SessionTypes, ZenonT(40)
    <2>3. CASE \E u \in Users : S!DaoInfoAnswered(u)
      <3>1. PICK u \in Users : S!DaoInfoAnswered(u)
        BY <2>3
      <3>2. PICK data \in {S!Unread, S!NoDao, u} :
              daoInfo' = [daoInfo EXCEPT ![u] = [data |-> data, fetch |-> S!Nobody]]
        <4>1. daoInfo[u].fetch = u /\ daoInfo[u].data \in {S!Unread, S!NoDao, u}
          BY <3>1 DEF SessionInv, S!DaoInfoAnswered
        <4> QED BY <3>1, <4>1 DEF S!DaoInfoAnswered
      <3> QED BY <2>0, <3>2, SessionTypes
    <2>4. CASE UNCHANGED daoInfo
      BY <2>0, <2>4, SessionTypes
    <2> QED BY <2>1, <2>2, <2>3, <2>4 DEF S!FetchBackend, S!BackendAnswered
  <1>3. /\ backend' = [u \in Users |-> backend'[u]]
        /\ \A u \in Users : backend'[u] \in [signer : {S!Nobody, u}, fetch : {S!Nobody, u}]
    <2>0. \A u \in Users : backend[u] \in [signer : {S!Nobody, u}, fetch : {S!Nobody, u}]
      BY SessionTypes DEF SessionInv
    <2>1. CASE S!Reload
      BY <2>1 DEF S!Reload, S!EmptyBackend
    <2>2. CASE S!FetchBackend
      <3>1. PICK u \in Users : u = auth.user
        BY <2>2, SessionTypes DEF S!FetchBackend, S!OnDaoPage, S!RequireAuth, S!AnyUser
      <3>2. S!DaoShown = u
        BY <2>2, <3>1, SessionTypes DEF SessionInv, S!FetchBackend, S!DaoShown, S!DaoKey
      <3>3. backend' = [backend EXCEPT ![u].fetch = u]
        BY <2>2, <3>1, <3>2 DEF S!FetchBackend
      <3> QED BY <2>0, <3>3, SessionTypes, ZenonT(40)
    <2>3. CASE \E u \in Users : S!BackendAnswered(u)
      <3>1. PICK u \in Users : S!BackendAnswered(u)
        BY <2>3
      <3>2. PICK signer \in {S!Nobody, u} :
              backend' = [backend EXCEPT ![u] = [signer |-> signer, fetch |-> S!Nobody]]
        BY <3>1 DEF SessionInv, S!BackendAnswered
      <3> QED BY <2>0, <3>2, SessionTypes
    <2>4. CASE UNCHANGED backend
      BY <2>0, <2>4, SessionTypes
    <2> QED BY <2>1, <2>2, <2>3, <2>4 DEF S!FetchDaoInfo, S!DaoInfoAnswered
  <1>4. /\ daoInfo' \in [Users -> [data : Users \cup {S!NoDao, S!Unread}, fetch : S!AnyUser]]
        /\ backend' \in [Users -> [signer : S!AnyUser, fetch : S!AnyUser]]
    BY <1>2, <1>3 DEF S!AnyUser
  <1>5. S!TypeOK'
    <2>1. auth' \in [client : BOOLEAN, loading : BOOLEAN, user : S!AnyUser,
                     window : BOOLEAN, leaving : BOOLEAN]
      <3>1. S!NotLoaded \in [client : BOOLEAN, loading : BOOLEAN, user : S!AnyUser,
                             window : BOOLEAN, leaving : BOOLEAN]
        BY DEF S!NotLoaded, S!AnyUser
      <3> QED BY <1>1, <3>1, SessionTypes
    <2> QED BY <1>4, <2>1, SessionTypes DEF S!TypeOK, S!AnyUser
  <1> QED BY <1>2, <1>3, <1>5 DEF SessionInv, S!CallsAreTheUsers

LEMMA CallDaoStep ==
  ASSUME SessionInv, NEW signer \in Users, S!CallDao(signer)
  PROVE  SessionInv'
  <1>1. PICK u \in Users : u = auth.user
    BY SessionTypes DEF S!CallDao, S!OnDaoPage, S!RequireAuth, S!AnyUser
  <1>2. S!DaoShown = u /\ signer = u
    BY <1>1, SessionTypes DEF SessionInv, S!CallDao, S!DaoShown, S!DaoKey
  <1>3. signed' = [by |-> u, signer |-> u, dao |-> u] /\ UNCHANGED <<auth, page, hasDao, daoInfo, backend>>
    BY <1>1, <1>2 DEF S!CallDao
  <1>4. S!TypeOK'
    BY <1>3, SessionTypes DEF S!TypeOK, S!AnyUser
  <1> QED BY <1>3, <1>4 DEF SessionInv, S!CallsAreTheUsers

LEMMA SessionStep ==
  ASSUME SessionInv, [S!Next]_(S!vars)
  PROVE  SessionInv'
  <1>1. CASE \/ S!Login \/ S!WindowClosed \/ S!Logout \/ S!AuthEnds
             \/ S!Redirect \/ S!CreateDao
             \/ \E to \in {"home", "app", "dao"} : S!Navigate(to)
             \/ \E u \in Users : S!LoginSucceeds(u)
             \/ UNCHANGED S!vars
    <2>1. UNCHANGED <<daoInfo, backend, signed>>
      BY <1>1
         DEF S!Login, S!WindowClosed, S!Logout, S!AuthEnds, S!LogoutEnds, S!InitAuthEnds,
             S!Redirect, S!CreateDao, S!Navigate, S!LoginSucceeds, S!vars
    <2> QED BY <1>1, <2>1, LoginsKeep
  <1>2. CASE \/ S!Reload \/ S!FetchDaoInfo \/ S!FetchBackend
             \/ \E u \in Users : S!DaoInfoAnswered(u) \/ S!BackendAnswered(u)
    <2>1. UNCHANGED <<page, hasDao, signed>>
      BY <1>2 DEF S!Reload, S!FetchDaoInfo, S!FetchBackend, S!DaoInfoAnswered, S!BackendAnswered
    <2> QED BY <1>2, <2>1, CacheStep
  <1>3. CASE \E u \in Users : S!CallDao(u)
    BY <1>3, CallDaoStep
  <1> QED BY <1>1, <1>2, <1>3 DEF S!Next

-----------------------------------------------------------------------------
(* The page that creates a DAO. *)
MadeDaos == [form : C!Forms, token : Seq(C!Forms)]

(* A call carries the form of its click, and of the DAO that was made of it.*)
CarriesItsForm(x) ==
  /\ Checked(x.form)
  /\ x.phase # "factory" => x.dao \in 1 .. Len(made) /\ made[x.dao].form = x.form

LEMMA CreateTypes ==
  ASSUME CreateInv
  PROVE  /\ createPage \in C!Pages /\ createPage.form \in C!Forms
         /\ createCall \in [Calls -> C!CallStates]
         /\ made \in Seq(MadeDaos) /\ Len(made) \in Nat /\ Len(made) <= MaxDaos
         /\ DOMAIN made = 1 .. Len(made)
         /\ \A c \in Calls : C!Busy(c) => CarriesItsForm(createCall[c])
  <1>1. createPage \in C!Pages /\ createCall \in [Calls -> C!CallStates] /\ Len(made) <= MaxDaos
    BY DEF CreateInv, C!TypeOK
  <1>2. createPage.form \in C!Forms
    BY <1>1 DEF C!Pages
  <1>3. made \in Seq(MadeDaos)
    BY DEF CreateInv, MadeDaos
  <1>4. Len(made) \in Nat /\ DOMAIN made = 1 .. Len(made)
    BY <1>3
  <1> QED BY <1>1, <1>2, <1>3, <1>4 DEF CreateInv, CarriesItsForm

LEMMA CreateCallTypes ==
  ASSUME CreateInv, NEW c \in Calls
  PROVE  /\ createCall[c] = C!Idle \/ createCall[c].phase \in {"factory", "token", "timer"}
         /\ createCall[c].phase = "factory" =>
              createCall[c] \in [phase : {"factory"}, form : C!Forms, mounted : BOOLEAN]
         /\ createCall[c].phase \in {"token", "timer"} =>
              createCall[c] \in [phase : {"token", "timer"}, form : C!Forms, mounted : BOOLEAN,
                                 dao : 1 .. MaxDaos]
  <1>1. createCall[c] \in C!CallStates
    BY CreateTypes
  <1> QED BY <1>1 DEF C!CallStates, C!Idle

LEMMA CreateBegins == C!Init => CreateInv
  <1> SUFFICES ASSUME C!Init PROVE CreateInv
    OBVIOUS
  <1>1. C!FirstChain \in Chains
    BY DEF C!FirstChain
  <1>2. C!Fresh \in C!Pages
    BY <1>1 DEF C!Fresh, C!Pages, C!Forms, C!Steps
  <1>3. made = << >> /\ createPage = C!Fresh /\ createCall = [c \in Calls |-> C!Idle]
    BY DEF C!Init
  <1>4. /\ createPage.step = 1 /\ ~createPage.creating
        /\ \A c \in Calls : createCall[c] = C!Idle /\ createCall[c].phase = "idle"
    BY <1>3 DEF C!Fresh, C!Idle
  <1>5. C!TypeOK
    <2>1. C!Idle \in C!CallStates
      BY DEF C!CallStates
    <2>2. Len(made) = 0
      BY <1>3
    <2> QED BY <1>2, <1>3, <2>1, <2>2 DEF C!TypeOK
  <1>6. C!DaosAreOfCheckedForms /\ C!CreatingIsTrue
    BY <1>3, <1>4 DEF C!DaosAreOfCheckedForms, C!CreatingIsTrue, C!Awaiting
  <1>7. made \in Seq([form : C!Forms, token : Seq(C!Forms)])
    BY <1>3
  <1> QED BY <1>4, <1>5, <1>6, <1>7 DEF CreateInv, C!Busy

(* The state of the page that a step leaves, which the step it is at tells  *)
(* was checked.                                                             *)
PageFits(p) ==
  /\ p \in C!Pages
  /\ p.step > 1 => p.form.basics # C!Blank
  /\ p.step > 3 => p.form.chains # {}

LEMMA FreshFits == PageFits(C!Fresh) /\ ~C!Fresh.creating
  <1>1. C!FirstChain \in Chains
    BY DEF C!FirstChain
  <1>2. C!Fresh \in C!Pages
    BY <1>1 DEF C!Fresh, C!Pages, C!Forms, C!Steps
  <1> QED BY <1>2 DEF PageFits, C!Fresh

LEMMA PageIsFit == CreateInv => PageFits(createPage)
  BY CreateTypes DEF CreateInv, PageFits

(* The inputs and buttons of the form.                                      *)
LEMMA FormMoves ==
  ASSUME CreateInv,
         \/ C!HandleNext \/ C!HandleBack \/ C!AddMember \/ C!RemoveMember
         \/ \E b \in Names \cup {C!Blank, C!Unconvertible} : C!EditBasics(b)
         \/ \E ch \in Chains : C!HandleChainToggle(ch)
  PROVE  /\ PageFits(createPage') /\ createPage'.creating = createPage.creating
         /\ UNCHANGED <<createCall, made>>
  <1>1. /\ PageFits(createPage) /\ createPage \in C!Pages /\ createPage.form \in C!Forms
        /\ createPage.step \in 1 .. 4
    BY CreateTypes, PageIsFit DEF C!Pages, C!Steps
  <1>2. CASE C!HandleNext
    <2>1. UNCHANGED <<createCall, made>> /\ createPage.step < 4
      BY <1>2 DEF C!HandleNext
    <2>2. CASE C!Passes(createPage.step, createPage.form)
      <3>1. createPage' = [createPage EXCEPT !.step = createPage.step + 1, !.errors = "none"]
        BY <1>1, <1>2, <2>2 DEF C!HandleNext, C!Pages
      <3>2. createPage.step + 1 \in 1 .. 4
        BY <1>1, <2>1
      <3>3. /\ createPage' \in C!Pages /\ createPage'.step = createPage.step + 1
            /\ createPage'.form = createPage.form /\ createPage'.creating = createPage.creating
        BY <1>1, <3>1, <3>2 DEF C!Pages, C!Steps
      <3> QED BY <1>1, <2>1, <2>2, <3>3 DEF PageFits, C!Passes
    <2>3. CASE ~C!Passes(createPage.step, createPage.form)
      <3>1. createPage' = [createPage EXCEPT !.errors = "fields"]
        BY <1>2, <2>3 DEF C!HandleNext
      <3> QED BY <1>1, <2>1, <3>1 DEF PageFits, C!Pages
    <2> QED BY <2>2, <2>3
  <1>3. CASE C!HandleBack
    <2>1. createPage' = [createPage EXCEPT !.step = C!Back(createPage.step)]
      BY <1>1, <1>3 DEF C!HandleBack, C!Pages
    <2>2. C!Back(createPage.step) \in 1 .. 4 /\ C!Back(createPage.step) <= createPage.step
      BY <1>1 DEF C!Back
    <2>3. /\ createPage' \in C!Pages /\ createPage'.step = C!Back(createPage.step)
          /\ createPage'.form = createPage.form /\ createPage'.creating = createPage.creating
      BY <1>1, <2>1, <2>2 DEF C!Pages, C!Steps
    <2>4. createPage'.step > 1 => createPage.step > 1
      BY <1>1, <2>2, <2>3
    <2>5. createPage'.step > 3 => createPage.step > 3
      BY <1>1, <2>2, <2>3
    <2> QED BY <1>1, <1>3, <2>3, <2>4, <2>5 DEF PageFits, C!HandleBack
  <1>4. ASSUME NEW f \in C!Forms, NEW s \in 1 .. 3, C!Edit(s, f),
               s # 1 => f.basics = createPage.form.basics
        PROVE  /\ PageFits(createPage') /\ createPage'.creating = createPage.creating
               /\ UNCHANGED <<createCall, made>>
    <2>1. /\ createPage.step = s /\ createPage' = [createPage EXCEPT !.form = f]
          /\ UNCHANGED <<createCall, made>>
      BY <1>4 DEF C!Edit
    <2>2. /\ createPage' \in C!Pages /\ createPage'.step = s /\ createPage'.form = f
          /\ createPage'.creating = createPage.creating
      BY <1>1, <2>1 DEF C!Pages
    <2> QED BY <1>1, <1>4, <2>1, <2>2 DEF PageFits
  <1>5. /\ createPage.form.basics \in Names \cup {C!Blank, C!Unconvertible}
        /\ createPage.form.members \in 1 .. MaxMembers /\ createPage.form.chains \in SUBSET Chains
    BY <1>1 DEF C!Forms
  <1>6. CASE \E b \in Names \cup {C!Blank, C!Unconvertible} : C!EditBasics(b)
    <2>1. PICK b \in Names \cup {C!Blank, C!Unconvertible} : C!EditBasics(b)
      BY <1>6
    <2>2. [createPage.form EXCEPT !.basics = b] \in C!Forms
      BY <1>1 DEF C!Forms
    <2> QED BY <1>4, <2>1, <2>2 DEF C!EditBasics
  <1>7. CASE C!AddMember \/ C!RemoveMember
    <2>1. PICK n \in 1 .. MaxMembers : C!Edit(2, [createPage.form EXCEPT !.members = n])
      <3>1. CASE C!AddMember
        <4>1. createPage.form.members + 1 \in 1 .. MaxMembers
          BY <1>5, <3>1 DEF C!AddMember
        <4> QED BY <1>1, <3>1, <4>1 DEF C!AddMember, C!Forms
      <3>2. CASE C!RemoveMember
        <4>1. createPage.form.members - 1 \in 1 .. MaxMembers
          BY <1>5, <3>2 DEF C!RemoveMember
        <4> QED BY <1>1, <3>2, <4>1 DEF C!RemoveMember, C!Forms
      <3> QED BY <1>7, <3>1, <3>2
    <2>2. PICK f : f = [createPage.form EXCEPT !.members = n]
      OBVIOUS
    <2>3. f \in C!Forms /\ f.basics = createPage.form.basics
      BY <1>1, <2>2 DEF C!Forms
    <2>4. C!Edit(2, f)
      BY <2>1, <2>2
    <2> QED BY <1>4, <2>3, <2>4
  <1>8. CASE \E ch \in Chains : C!HandleChainToggle(ch)
    <2>1. PICK chains \in SUBSET Chains : C!Edit(3, [createPage.form EXCEPT !.chains = chains])
      <3>1. PICK ch \in Chains : C!HandleChainToggle(ch)
        BY <1>8
      <3> DEFINE old == createPage.form.chains
                 chains == IF ch \in old THEN old \ {ch} ELSE old \cup {ch}
      <3>2. chains \in SUBSET Chains
        BY <1>5
      <3>3. C!Edit(3, [createPage.form EXCEPT !.chains = chains])
        BY <1>1, <3>1 DEF C!HandleChainToggle, C!Forms
      <3> QED BY <3>2, <3>3
    <2>2. PICK f : f = [createPage.form EXCEPT !.chains = chains]
      OBVIOUS
    <2>3. f \in C!Forms /\ f.basics = createPage.form.basics
      BY <1>1, <2>2 DEF C!Forms
    <2>4. C!Edit(3, f)
      BY <2>1, <2>2
    <2> QED BY <1>4, <2>3, <2>4
  <1> QED BY <1>2, <1>3, <1>6, <1>7, <1>8

(* A DAO that was made, of a form with nothing missing, as its token.       *)
MadeOfOneForm(m) == Checked(m.form) /\ C!Range(m.token) \subseteq {m.form}

LEMMA CreateParts ==
  ASSUME PageFits(createPage'), createCall' \in [Calls -> C!CallStates],
         made' \in Seq(MadeDaos), Len(made') <= MaxDaos,
         \A d \in 1 .. Len(made') : MadeOfOneForm(made'[d]),
         \A c \in Calls : C!Busy(c)' => CarriesItsForm(createCall[c])',
         C!CreatingIsTrue'
  PROVE  CreateInv'
  <1>1. \A d \in 1 .. Len(made') : made'[d] \in MadeDaos
    OBVIOUS
  <1>2. \A d \in 1 .. Len(made') :
          {made'[d].form} \cup C!Range(made'[d].token) \subseteq C!Forms
    BY <1>1 DEF MadeDaos, MadeOfOneForm
  <1>3. C!TypeOK'
    BY <1>2 DEF C!TypeOK, PageFits
  <1>4. C!DaosAreOfCheckedForms'
    BY DEF C!DaosAreOfCheckedForms, MadeOfOneForm, Checked
  <1> QED BY <1>3, <1>4 DEF CreateInv, PageFits, CarriesItsForm, MadeDaos

LEMMA MadeSoFar == CreateInv => \A d \in 1 .. Len(made) : made[d] \in MadeDaos /\ MadeOfOneForm(made[d])
  <1> SUFFICES ASSUME CreateInv, NEW d \in 1 .. Len(made)
               PROVE  made[d] \in MadeDaos /\ MadeOfOneForm(made[d])
    OBVIOUS
  <1>1. made[d] \in MadeDaos
    BY CreateTypes
  <1> QED BY <1>1 DEF CreateInv, C!DaosAreOfCheckedForms, MadeOfOneForm, Checked

LEMMA FormStep ==
  ASSUME CreateInv, PageFits(createPage'), createPage'.creating = createPage.creating,
         UNCHANGED <<createCall, made>>
  PROVE  CreateInv'
  <1>1. C!CreatingIsTrue'
    BY DEF CreateInv, C!CreatingIsTrue, C!Awaiting
  <1>2. \A c \in Calls : C!Busy(c)' => CarriesItsForm(createCall[c])'
    BY CreateTypes DEF C!Busy, CarriesItsForm
  <1>3. /\ createCall' \in [Calls -> C!CallStates] /\ made' \in Seq(MadeDaos) /\ Len(made') <= MaxDaos
        /\ \A d \in 1 .. Len(made') : MadeOfOneForm(made'[d])
    BY CreateTypes, MadeSoFar
  <1> QED BY <1>1, <1>2, <1>3, CreateParts

(* One handler moves on, begins or ends.  The page says that it creates     *)
(* from when one of its own begins to wait until that one waits no more.    *)
Waits(x) == x.phase \in {"factory", "token"} /\ x.mounted

LEMMA HandlerStep ==
  ASSUME CreateInv, NEW c \in Calls, NEW x \in C!CallStates, createCall' = [createCall EXCEPT ![c] = x],
         PageFits(createPage'),
         made' \in Seq(MadeDaos), Len(made') <= MaxDaos, Len(made) <= Len(made'),
         \A d \in 1 .. Len(made') : MadeOfOneForm(made'[d]),
         \A d \in 1 .. Len(made) : made'[d].form = made[d].form,
         x # C!Idle => /\ Checked(x.form)
                       /\ x.phase # "factory" =>
                            x.dao \in 1 .. Len(made') /\ made'[x.dao].form = x.form,
         \/ (Waits(x) <=> Waits(createCall[c])) /\ createPage'.creating = createPage.creating
         \/ Waits(x) /\ ~createPage.creating /\ createPage'.creating
         \/ Waits(createCall[c]) /\ ~Waits(x) /\ ~createPage'.creating
  PROVE  CreateInv'
  <1>1. /\ createCall' \in [Calls -> C!CallStates]
        /\ createCall'[c] = x /\ \A k \in Calls \ {c} : createCall'[k] = createCall[k]
    BY CreateTypes
  <1>2. Len(made) \in Nat /\ Len(made') \in Nat
    BY CreateTypes
  <1>3. ASSUME NEW k \in Calls, C!Busy(k)' PROVE CarriesItsForm(createCall[k])'
    <2>1. CASE k = c
      BY <1>1, <1>3, <2>1 DEF C!Busy, CarriesItsForm
    <2>2. CASE k # c
      <3>1. CarriesItsForm(createCall[k]) /\ createCall'[k] = createCall[k]
        BY <1>1, <1>3, <2>2, CreateTypes DEF C!Busy
      <3>2. createCall[k].phase # "factory" =>
              createCall[k].dao \in 1 .. Len(made') /\ made'[createCall[k].dao].form = createCall[k].form
        BY <1>2, <3>1 DEF CarriesItsForm
      <3> QED BY <3>1, <3>2 DEF CarriesItsForm
    <2> QED BY <2>1, <2>2
  <1>4. /\ C!Awaiting = {k \in Calls : Waits(createCall[k])}
        /\ C!Awaiting' = {k \in Calls : Waits(createCall'[k])}
    BY DEF C!Awaiting, Waits
  <1>5. /\ createPage.creating <=> C!Awaiting # {}
        /\ \A k, d \in C!Awaiting : k = d
    BY DEF CreateInv, C!CreatingIsTrue
  <1>6. \A k \in Calls : k \in C!Awaiting' <=> IF k = c THEN Waits(x) ELSE k \in C!Awaiting
    BY <1>1, <1>4
  <1>7. C!Awaiting' \subseteq Calls /\ C!Awaiting \subseteq Calls /\ (c \in C!Awaiting <=> Waits(createCall[c]))
    BY <1>4
  <1>8. /\ createPage'.creating <=> C!Awaiting' # {}
        /\ \A k, d \in C!Awaiting' : k = d
    <2>1. CASE (Waits(x) <=> Waits(createCall[c])) /\ createPage'.creating = createPage.creating
      <3>1. C!Awaiting' = C!Awaiting
        BY <1>6, <1>7, <2>1
      <3> QED BY <1>5, <2>1, <3>1
    <2>2. CASE Waits(x) /\ ~createPage.creating /\ createPage'.creating
      <3>1. C!Awaiting = {}
        BY <1>5, <2>2
      <3>2. C!Awaiting' = {c}
        BY <1>6, <1>7, <2>2, <3>1
      <3> QED BY <2>2, <3>2
    <2>3. CASE Waits(createCall[c]) /\ ~Waits(x) /\ ~createPage'.creating
      <3>1. C!Awaiting = {c}
        BY <1>5, <1>7, <2>3
      <3>2. C!Awaiting' = {}
        BY <1>6, <1>7, <2>3, <3>1
      <3> QED BY <2>3, <3>2
    <2> QED BY <2>1, <2>2, <2>3
  <1>9. C!CreatingIsTrue'
    BY <1>8 DEF C!CreatingIsTrue
  <1> QED BY <1>1, <1>3, <1>9, CreateParts

LEMMA IdleWaitsForNothing == C!Idle \in C!CallStates /\ ~Waits(C!Idle)
  BY DEF C!CallStates, C!Idle, Waits

LEMMA CreateDaoStep ==
  ASSUME CreateInv, NEW c \in Calls, C!CreateDao(c)
  PROVE  CreateInv'
  <1>1. /\ createPage \in C!Pages /\ createPage.form \in C!Forms /\ PageFits(createPage)
        /\ createPage.step = 4 /\ ~createPage.creating /\ UNCHANGED made
    BY CreateTypes, PageIsFit DEF C!CreateDao
  <1>2. CASE UNCHANGED createCall /\ createPage' = [createPage EXCEPT !.errors = "submit"]
    <2>1. /\ createPage' = [createPage EXCEPT !.errors = "submit"] /\ UNCHANGED createCall
      BY <1>2
    <2>2. PageFits(createPage') /\ createPage'.creating = createPage.creating
      BY <1>1, <2>1 DEF PageFits, C!Pages
    <2> QED BY <1>1, <2>1, <2>2, FormStep
  <1>3. CASE ~(UNCHANGED createCall /\ createPage' = [createPage EXCEPT !.errors = "submit"])
    <2>1. PICK x : x = [phase |-> "factory", form |-> createPage.form, mounted |-> TRUE]
      OBVIOUS
    <2>2. /\ createPage' = [createPage EXCEPT !.errors = "none", !.creating = TRUE]
          /\ createCall' = [createCall EXCEPT ![c] = x]
      BY <1>3, <2>1 DEF C!CreateDao, C!Reviewed
    <2>3. PageFits(createPage') /\ createPage'.creating
      BY <1>1, <2>2 DEF PageFits, C!Pages
    <2>4. x \in C!CallStates /\ Waits(x) /\ x.phase = "factory" /\ Checked(x.form)
      BY <1>1, <2>1 DEF C!CallStates, Waits, Checked, PageFits
    <2>5. /\ made' \in Seq(MadeDaos) /\ Len(made') <= MaxDaos /\ Len(made) <= Len(made')
          /\ \A d \in 1 .. Len(made') : MadeOfOneForm(made'[d])
          /\ \A d \in 1 .. Len(made) : made'[d].form = made[d].form
      BY <1>1, CreateTypes, MadeSoFar
    <2> QED BY <1>1, <2>2, <2>3, <2>4, <2>5, HandlerStep
  <1> QED BY <1>2, <1>3

LEMMA FactoryAnswers ==
  ASSUME CreateInv, NEW c \in Calls, C!FactoryRefuses(c) \/ C!FactoryCreates(c)
  PROVE  CreateInv'
  <1>1. /\ createCall[c].phase = "factory" /\ C!Busy(c)
        /\ createCall[c] \in [phase : {"factory"}, form : C!Forms, mounted : BOOLEAN]
        /\ createPage \in C!Pages /\ PageFits(createPage)
        /\ Waits(createCall[c]) <=> createCall[c].mounted
    BY CreateTypes, CreateCallTypes, PageIsFit
       DEF C!FactoryRefuses, C!FactoryCreates, C!Busy, C!Idle, Waits
  <1>2. CarriesItsForm(createCall[c]) /\ createCall[c].form \in C!Forms
    BY <1>1, CreateTypes
  <1>3. CASE C!FactoryRefuses(c)
    <2>1. /\ createCall' = [createCall EXCEPT ![c] = C!Idle] /\ UNCHANGED made
          /\ createPage' = IF createCall[c].mounted
                             THEN [createPage EXCEPT !.creating = FALSE, !.errors = "submit"]
                             ELSE createPage
      BY <1>3 DEF C!FactoryRefuses, C!Show, C!ErrorShown
    <2>2. /\ PageFits(createPage')
          /\ createCall[c].mounted => ~createPage'.creating
          /\ ~createCall[c].mounted => createPage'.creating = createPage.creating
      BY <1>1, <2>1 DEF PageFits, C!Pages
    <2>3. /\ made' \in Seq(MadeDaos) /\ Len(made') <= MaxDaos /\ Len(made) <= Len(made')
          /\ \A d \in 1 .. Len(made') : MadeOfOneForm(made'[d])
          /\ \A d \in 1 .. Len(made) : made'[d].form = made[d].form
      BY <2>1, CreateTypes, MadeSoFar
    <2> QED BY <1>1, <2>1, <2>2, <2>3, IdleWaitsForNothing, HandlerStep
  <1>4. CASE C!FactoryCreates(c)
    <2>1. PICK m : m = [form |-> createCall[c].form, token |-> << >>]
      OBVIOUS
    <2>2. PICK x : x = [phase |-> "token", form |-> createCall[c].form,
                        mounted |-> createCall[c].mounted, dao |-> Len(made) + 1]
      OBVIOUS
    <2>3. /\ createCall' = [createCall EXCEPT ![c] = x] /\ UNCHANGED createPage
          /\ made' = Append(made, m) /\ Len(made) < MaxDaos
      BY <1>4, <2>1, <2>2 DEF C!FactoryCreates
    <2>4. m \in MadeDaos /\ MadeOfOneForm(m)
      BY <1>2, <2>1 DEF MadeDaos, MadeOfOneForm, CarriesItsForm, C!Range
    <2>5. /\ made \in Seq(MadeDaos) /\ Len(made) \in Nat
          /\ \A d \in 1 .. Len(made) : MadeOfOneForm(made[d])
      BY CreateTypes, MadeSoFar
    <2>6. /\ made' \in Seq(MadeDaos) /\ Len(made') = Len(made) + 1
          /\ \A d \in 1 .. Len(made) : made'[d] = made[d]
          /\ made'[Len(made) + 1] = m
      BY <2>3, <2>4, <2>5
    <2>7. \A d \in 1 .. Len(made') : d \in 1 .. Len(made) \/ d = Len(made) + 1
      BY <2>5, <2>6
    <2>8. \A d \in 1 .. Len(made') : MadeOfOneForm(made'[d])
      BY <2>4, <2>5, <2>6, <2>7
    <2>9. Len(made') <= MaxDaos /\ Len(made) <= Len(made') /\ Len(made) + 1 \in 1 .. MaxDaos
          /\ Len(made) + 1 \in 1 .. Len(made')
      BY <2>3, <2>5, <2>6
    <2>10. /\ x \in C!CallStates /\ (Waits(x) <=> Waits(createCall[c]))
           /\ Checked(x.form) /\ x.dao \in 1 .. Len(made') /\ made'[x.dao].form = x.form
      <3>1. x \in [phase : {"token", "timer"}, form : C!Forms, mounted : BOOLEAN, dao : 1 .. MaxDaos]
        BY <1>1, <2>2, <2>9
      <3>2. x.phase = "token" /\ x.mounted = createCall[c].mounted /\ x.dao = Len(made) + 1
            /\ x.form = createCall[c].form /\ m.form = createCall[c].form
        BY <2>1, <2>2
      <3> QED BY <1>1, <1>2, <2>6, <2>9, <3>1, <3>2 DEF C!CallStates, Waits, CarriesItsForm
    <2>11. PageFits(createPage') /\ createPage'.creating = createPage.creating
      BY <1>1, <2>3
    <2>12. \A d \in 1 .. Len(made) : made'[d].form = made[d].form
      BY <2>6
    <2> QED BY <2>3, <2>6, <2>8, <2>9, <2>10, <2>11, <2>12, HandlerStep
  <1> QED BY <1>3, <1>4

LEMMA TokenAnsweredStep ==
  ASSUME CreateInv, NEW c \in Calls, C!TokenAnswered(c)
  PROVE  CreateInv'
  <1>1. /\ createCall[c].phase = "token" /\ C!Busy(c)
        /\ createCall[c] \in [phase : {"token", "timer"}, form : C!Forms, mounted : BOOLEAN,
                              dao : 1 .. MaxDaos]
        /\ createPage \in C!Pages /\ PageFits(createPage)
        /\ Waits(createCall[c]) <=> createCall[c].mounted
    BY CreateTypes, CreateCallTypes, PageIsFit DEF C!TokenAnswered, C!Busy, C!Idle, Waits
  <1>2. CarriesItsForm(createCall[c]) /\ createCall[c].form \in C!Forms
    BY <1>1, CreateTypes
  <1>3. PICK d, f : d = createCall[c].dao /\ f = createCall[c].form
    OBVIOUS
  <1>4. d \in 1 .. Len(made) /\ f \in C!Forms /\ made[d].form = f /\ Checked(f)
    BY <1>1, <1>2, <1>3 DEF CarriesItsForm
  <1>5. PICK token \in {<< >>, <<f>>} : made' = [made EXCEPT ![d].token = token]
    BY <1>3 DEF C!TokenAnswered, C!TokenOf
  <1>6. token \in Seq(C!Forms) /\ C!Range(token) \subseteq {f}
    <2>1. CASE token = << >>
      BY <2>1 DEF C!Range
    <2>2. CASE token = <<f>>
      <3>1. \A i \in DOMAIN token : token[i] = f
        BY <2>2
      <3> QED BY <1>4, <2>2, <3>1 DEF C!Range
    <2> QED BY <1>5, <2>1, <2>2
  <1>7. PICK m : m = [made[d] EXCEPT !.token = token]
    OBVIOUS
  <1>8. /\ made \in Seq(MadeDaos) /\ Len(made) \in Nat /\ Len(made) <= MaxDaos
        /\ \A i \in 1 .. Len(made) : made[i] \in MadeDaos /\ MadeOfOneForm(made[i])
    BY CreateTypes, MadeSoFar
  <1>9. m \in MadeDaos /\ m.form = f /\ m.token = token
    BY <1>4, <1>6, <1>7, <1>8 DEF MadeDaos
  <1>10. MadeOfOneForm(m)
    BY <1>4, <1>6, <1>9 DEF MadeOfOneForm
  <1>11. made' = [made EXCEPT ![d] = m]
    BY <1>5, <1>7
  <1>12. /\ made' \in Seq(MadeDaos) /\ Len(made') = Len(made)
         /\ \A i \in 1 .. Len(made) : made'[i] = IF i = d THEN m ELSE made[i]
    BY <1>4, <1>8, <1>9, <1>11
  <1>13. /\ \A i \in 1 .. Len(made') : MadeOfOneForm(made'[i])
         /\ \A i \in 1 .. Len(made) : made'[i].form = made[i].form
    BY <1>4, <1>8, <1>9, <1>10, <1>12
  <1>14. PICK x : x = [createCall[c] EXCEPT !.phase = "timer"]
    OBVIOUS
  <1>15. createCall' = [createCall EXCEPT ![c] = x]
    BY <1>14, CreateTypes DEF C!TokenAnswered
  <1>16. /\ x \in [phase : {"token", "timer"}, form : C!Forms, mounted : BOOLEAN, dao : 1 .. MaxDaos]
         /\ x.phase = "timer" /\ x.dao = d /\ x.form = f
    BY <1>1, <1>3, <1>14
  <1>17. /\ x \in C!CallStates /\ ~Waits(x) /\ Checked(x.form)
         /\ x.dao \in 1 .. Len(made') /\ made'[x.dao].form = x.form
    BY <1>4, <1>9, <1>12, <1>16 DEF C!CallStates, Waits
  <1>18. createPage' = IF createCall[c].mounted
                         THEN [createPage EXCEPT !.toast = TRUE, !.creating = FALSE] ELSE createPage
    BY DEF C!TokenAnswered, C!Show, C!SuccessShown
  <1>19. /\ PageFits(createPage')
         /\ createCall[c].mounted => ~createPage'.creating
         /\ ~createCall[c].mounted => createPage'.creating = createPage.creating
    BY <1>1, <1>18 DEF PageFits, C!Pages
  <1>20. \/ (Waits(x) <=> Waits(createCall[c])) /\ createPage'.creating = createPage.creating
         \/ Waits(createCall[c]) /\ ~Waits(x) /\ ~createPage'.creating
    BY <1>1, <1>17, <1>19
  <1>21. Len(made') <= MaxDaos /\ Len(made) <= Len(made')
    BY <1>8, <1>12
  <1> QED BY <1>12, <1>13, <1>15, <1>17, <1>19, <1>20, <1>21, HandlerStep

(* The page is left, by the user or by the timer of a handler: what goes on *)
(* is no longer of a page that is shown.                                    *)
LEMMA LeavingStep ==
  ASSUME CreateInv, C!Leave \/ \E c \in Calls : C!Redirect(c)
  PROVE  CreateInv'
  <1>1. createPage' = C!Fresh /\ UNCHANGED made
    BY DEF C!Leave, C!Redirect
  <1>2. \A k \in Calls : C!Busy(k) => createCall[k].mounted \in BOOLEAN
    BY CreateCallTypes DEF C!Busy
  <1>3. \A k \in Calls : C!Outliving[k] =
          IF C!Busy(k) THEN [createCall[k] EXCEPT !.mounted = FALSE] ELSE C!Idle
    BY DEF C!Outliving
  <1>4. /\ createCall' = [k \in Calls |-> createCall'[k]]
        /\ \A k \in Calls : \/ createCall'[k] = C!Idle
                            \/ C!Busy(k) /\ createCall'[k] = [createCall[k] EXCEPT !.mounted = FALSE]
    <2>1. C!Outliving = [k \in Calls |-> C!Outliving[k]]
      BY DEF C!Outliving
    <2>2. createCall' = C!Outliving \/ \E c \in Calls : createCall' = [C!Outliving EXCEPT ![c] = C!Idle]
      BY DEF C!Leave, C!Redirect
    <2> HIDE DEF C!Outliving
    <2> QED BY <1>3, <2>1, <2>2
  <1>5. ASSUME NEW k \in Calls
        PROVE  /\ createCall'[k] \in C!CallStates /\ ~Waits(createCall'[k])
               /\ createCall'[k] # C!Idle => CarriesItsForm(createCall'[k])
    <2>1. CASE createCall'[k] = C!Idle
      BY <2>1, IdleWaitsForNothing
    <2>2. CASE C!Busy(k) /\ createCall'[k] = [createCall[k] EXCEPT !.mounted = FALSE]
      <3>1. CarriesItsForm(createCall[k])
        BY <2>2, CreateTypes
      <3>2. CASE createCall[k].phase = "factory"
        <4>1. createCall[k] \in [phase : {"factory"}, form : C!Forms, mounted : BOOLEAN]
          BY <3>2, CreateCallTypes
        <4>2. /\ createCall'[k] \in [phase : {"factory"}, form : C!Forms, mounted : BOOLEAN]
              /\ ~createCall'[k].mounted /\ createCall'[k].form = createCall[k].form
              /\ createCall'[k].phase = "factory"
          BY <2>2, <4>1
        <4> QED BY <3>1, <4>2 DEF C!CallStates, Waits, CarriesItsForm
      <3>3. CASE createCall[k].phase \in {"token", "timer"}
        <4>1. createCall[k] \in [phase : {"token", "timer"}, form : C!Forms, mounted : BOOLEAN,
                                 dao : 1 .. MaxDaos]
          BY <3>3, CreateCallTypes
        <4>2. /\ createCall'[k] \in [phase : {"token", "timer"}, form : C!Forms, mounted : BOOLEAN,
                                     dao : 1 .. MaxDaos]
              /\ ~createCall'[k].mounted /\ createCall'[k].form = createCall[k].form
              /\ createCall'[k].phase = createCall[k].phase /\ createCall'[k].dao = createCall[k].dao
          BY <2>2, <4>1
        <4> QED BY <3>1, <3>3, <4>2 DEF C!CallStates, Waits, CarriesItsForm
      <3> QED BY <2>2, <3>2, <3>3, CreateCallTypes DEF C!Busy
    <2> QED BY <1>4, <2>1, <2>2
  <1>6. createCall' \in [Calls -> C!CallStates]
    BY <1>4, <1>5
  <1>7. \A k \in Calls : C!Busy(k)' => CarriesItsForm(createCall[k])'
    BY <1>1, <1>5 DEF C!Busy, CarriesItsForm
  <1>8. C!CreatingIsTrue'
    <2>1. C!Awaiting' = {}
      BY <1>5 DEF C!Awaiting, Waits
    <2> QED BY <1>1, <2>1, FreshFits DEF C!CreatingIsTrue
  <1>9. /\ made' \in Seq(MadeDaos) /\ Len(made') <= MaxDaos
        /\ \A d \in 1 .. Len(made') : MadeOfOneForm(made'[d])
    BY <1>1, CreateTypes, MadeSoFar
  <1> QED BY <1>1, <1>6, <1>7, <1>8, <1>9, FreshFits, CreateParts

LEMMA CreateStep ==
  ASSUME CreateInv, [C!Next]_(C!vars)
  PROVE  CreateInv'
  <1>1. CASE \/ C!HandleNext \/ C!HandleBack \/ C!AddMember \/ C!RemoveMember
             \/ \E b \in Names \cup {C!Blank, C!Unconvertible} : C!EditBasics(b)
             \/ \E ch \in Chains : C!HandleChainToggle(ch)
    BY <1>1, FormMoves, FormStep
  <1>2. CASE C!Leave \/ \E c \in Calls : C!Redirect(c)
    BY <1>2, LeavingStep
  <1>3. CASE \E c \in Calls : C!CreateDao(c)
    BY <1>3, CreateDaoStep
  <1>4. CASE \E c \in Calls : C!FactoryRefuses(c) \/ C!FactoryCreates(c)
    BY <1>4, FactoryAnswers
  <1>5. CASE \E c \in Calls : C!TokenAnswered(c)
    BY <1>5, TokenAnsweredStep
  <1>6. CASE UNCHANGED C!vars
    BY <1>6, PageIsFit, FormStep DEF C!vars
  <1> QED BY <1>1, <1>2, <1>3, <1>4, <1>5, <1>6 DEF C!Next, C!User, C!Continue

-----------------------------------------------------------------------------
(* The copilot.  Which part of its state each step can change.              *)
LEMMA CopilotBegins == P!Init => CopilotInv
  <1> SUFFICES ASSUME P!Init PROVE CopilotInv
    OBVIOUS
  <1>1. DraftInv
    BY DEF P!Init, DraftInv, P!DraftStates, P!NothingGenerated, P!ReviewIsWhole, P!Choice
  <1>2. FormInv
    <2>1. form = P!EmptyForm /\ P!EmptyForm \in P!Forms /\ OfTheText(P!EmptyForm)
      BY DEF P!Init, P!EmptyForm, P!Forms, P!Choice, OfTheText, P!NoCommittee
    <2>2. copilotCall \in [Submissions -> P!CallStates] /\ \A c \in Submissions : copilotCall[c] = P!Idle
      BY DEF P!Init, P!CallStates
    <2> QED BY <2>1, <2>2 DEF FormInv, P!CommitteeIsOfTheProposal, P!Busy
  <1>3. DebateInv
    BY DEF P!Init, DebateInv, P!DebateStates, P!NoDebate, P!PersonaExists
  <1> QED BY <1>1, <1>2, <1>3 DEF CopilotInv, P!Init

(* The drafts.  There is none at first, nor while one is generated.         *)
LEMMA NoDraftYet ==
  ASSUME NEW g \in {"plain", "with_committee"}, step' = 1,
         draft' = [text |-> P!NoDraft, suggestion |-> P!NoCommittee, generating |-> g]
  PROVE  DraftInv'
  <1>1. draft' \in P!DraftStates
    BY DEF P!DraftStates, P!Choice
  <1>2. P!ReviewIsWhole'
    BY DEF P!ReviewIsWhole
  <1> QED BY <1>1, <1>2 DEF DraftInv

LEMMA DraftStep ==
  ASSUME CopilotInv,
         \/ P!GenerateAIDraft \/ P!DraftEnds \/ P!UseDraft
         \/ \E s \in 1 .. 3 : P!NavigateTo(s)
         \/ P!Reset
         \/ UNCHANGED <<step, draft>>
  PROVE  DraftInv'
  <1>1. /\ step \in 1 .. 3 /\ draft \in P!DraftStates
        /\ step > 1 => draft.text # P!NoDraft /\ draft.generating = "no"
        /\ draft.suggestion # P!NoCommittee => draft.suggestion.of = draft.text
        /\ draft.generating # "no" => draft.suggestion = P!NoCommittee
    BY DEF CopilotInv, DraftInv, P!ReviewIsWhole
  <1>2. CASE P!GenerateAIDraft
    <2>1. PICK g \in {"plain", "with_committee"} :
            draft' = [P!NothingGenerated EXCEPT !.generating = g]
      BY <1>2 DEF P!GenerateAIDraft, P!Forgotten
    <2>2. draft' = [text |-> P!NoDraft, suggestion |-> P!NoCommittee, generating |-> g]
      BY <2>1 DEF P!NothingGenerated
    <2>3. step' = 1
      BY <1>2 DEF P!GenerateAIDraft
    <2> QED BY <2>2, <2>3, NoDraftYet
  <1>3. ASSUME NEW d \in Drafts, P!DraftAnswered(d) PROVE DraftInv'
    <2>1. PICK s \in P!Suggested(d) :
            draft' = [text |-> d, generating |-> "no",
                      suggestion |-> IF draft.generating = "plain" THEN draft.suggestion ELSE s]
      BY <1>3 DEF P!DraftAnswered
    <2>2. PICK t \in P!Suggested(d) : draft' = [text |-> d, generating |-> "no", suggestion |-> t]
      <3>1. CASE draft.generating = "plain"
        <4>1. draft.suggestion = P!NoCommittee /\ P!NoCommittee \in P!Suggested(d)
          BY <1>1, <3>1 DEF P!Suggested
        <4> QED BY <2>1, <3>1, <4>1
      <3>2. CASE draft.generating # "plain"
        BY <2>1, <3>2
      <3> QED BY <3>1, <3>2
    <2>3. t \in P!Choice /\ (t # P!NoCommittee => t.of = d)
      BY DEF P!Suggested, P!Choice
    <2>4. draft' \in P!DraftStates /\ draft'.text = d /\ draft'.generating = "no" /\ draft'.suggestion = t
      BY <2>2, <2>3 DEF P!DraftStates
    <2> QED BY <1>3, <2>3, <2>4 DEF P!DraftAnswered, DraftInv, P!ReviewIsWhole
  <1>4. CASE P!DraftFails
    <2>1. /\ draft' = [draft EXCEPT !.generating = "no"] /\ UNCHANGED step /\ draft.generating # "no"
      BY <1>4 DEF P!DraftFails
    <2>2. /\ draft' \in P!DraftStates /\ draft'.generating = "no" /\ draft'.text = draft.text
          /\ draft'.suggestion = draft.suggestion
      BY <1>1, <2>1 DEF P!DraftStates
    <2> QED BY <1>1, <2>1, <2>2 DEF DraftInv, P!ReviewIsWhole
  <1>5. CASE P!UseDraft
    BY <1>1, <1>5 DEF P!UseDraft, DraftInv, P!ReviewIsWhole
  <1>6. CASE \E s \in 1 .. 3 : P!NavigateTo(s)
    BY <1>1, <1>6 DEF P!NavigateTo, P!StepBack, DraftInv, P!ReviewIsWhole
  <1>7. CASE P!Reset
    BY <1>7 DEF P!Reset, DraftInv, P!DraftStates, P!NothingGenerated, P!ReviewIsWhole, P!Choice
  <1>8. CASE UNCHANGED <<step, draft>>
    BY <1>1, <1>8 DEF DraftInv, P!ReviewIsWhole
  <1> QED BY <1>2, <1>3, <1>4, <1>5, <1>6, <1>7, <1>8 DEF P!DraftEnds

(* The form, and the submissions made of it.                                *)
LEMMA SubmissionTypes ==
  ASSUME CopilotInv, NEW c \in Submissions, P!Busy(c)
  PROVE  /\ copilotCall[c] \in [phase : {"submitted"}, form : P!Forms, mounted : BOOLEAN]
         /\ OfTheText(copilotCall[c].form)
  BY DEF CopilotInv, FormInv, P!CallStates, P!Busy, P!CommitteeIsOfTheProposal, OfTheText

LEMMA FormOf ==
  ASSUME form' \in P!Forms, OfTheText(form'),
         copilotCall' = [c \in Submissions |-> copilotCall'[c]],
         \A c \in Submissions :
           \/ copilotCall'[c] = P!Idle
           \/ /\ copilotCall'[c] \in [phase : {"submitted"}, form : P!Forms, mounted : BOOLEAN]
              /\ OfTheText(copilotCall'[c].form)
  PROVE  FormInv'
  <1>1. copilotCall' \in [Submissions -> P!CallStates]
    BY DEF P!CallStates
  <1>2. P!CommitteeIsOfTheProposal'
    BY DEF P!CommitteeIsOfTheProposal, P!Busy, OfTheText
  <1> QED BY <1>1, <1>2 DEF FormInv, OfTheText

LEMMA CallsKept ==
  ASSUME CopilotInv, NEW calls, calls = copilotCall \/ calls = P!LeftBehind
  PROVE  /\ calls = [c \in Submissions |-> calls[c]]
         /\ \A c \in Submissions :
              \/ calls[c] = P!Idle
              \/ /\ calls[c] \in [phase : {"submitted"}, form : P!Forms, mounted : BOOLEAN]
                 /\ OfTheText(calls[c].form)
  <1>1. copilotCall = [c \in Submissions |-> copilotCall[c]]
    BY DEF CopilotInv, FormInv
  <1>2. CASE calls = copilotCall
    BY <1>1, <1>2, SubmissionTypes DEF P!Busy
  <1>3. CASE calls = P!LeftBehind
    <2>1. calls = [c \in Submissions |->
                     IF P!Busy(c) THEN [copilotCall[c] EXCEPT !.mounted = FALSE] ELSE P!Idle]
      BY <1>3 DEF P!LeftBehind
    <2>2. ASSUME NEW c \in Submissions, P!Busy(c)
          PROVE  /\ calls[c] \in [phase : {"submitted"}, form : P!Forms, mounted : BOOLEAN]
                 /\ OfTheText(calls[c].form)
      <3>1. calls[c] = [copilotCall[c] EXCEPT !.mounted = FALSE]
        BY <2>1, <2>2
      <3>2. copilotCall[c] \in [phase : {"submitted"}, form : P!Forms, mounted : BOOLEAN]
        BY <2>2, SubmissionTypes
      <3>3. /\ calls[c] \in [phase : {"submitted"}, form : P!Forms, mounted : BOOLEAN]
            /\ calls[c].form = copilotCall[c].form
        BY <3>1, <3>2
      <3> QED BY <2>2, <3>3, SubmissionTypes
    <2> QED BY <2>1, <2>2
  <1> QED BY <1>2, <1>3

LEMMA EmptyFormFits == P!EmptyForm \in P!Forms /\ OfTheText(P!EmptyForm)
  BY DEF P!EmptyForm, P!Forms, P!Choice, OfTheText, P!NoCommittee

LEMMA CopilotFormStep ==
  ASSUME CopilotInv,
         \/ P!UseDraft
         \/ \E b \in BOOLEAN : P!EditText(b)
         \/ \E c \in [id : Committees, of : {P!ByUser}] \cup {P!NoCommittee} : P!SelectCommittee(c)
         \/ \E c \in Submissions : P!SubmitProposal(c) \/ P!SubmissionEnds(c)
         \/ P!LeavePage
         \/ UNCHANGED <<form, copilotCall>>
  PROVE  FormInv'
  <1>1. form \in P!Forms /\ OfTheText(form) /\ draft \in P!DraftStates
    BY DEF CopilotInv, FormInv, DraftInv
  <1>2. CASE P!UseDraft
    <2>1. PICK f : f = [text |-> draft.text, blank |-> FALSE, committee |-> draft.suggestion]
      OBVIOUS
    <2>2. f \in P!Forms
      BY <1>1, <2>1 DEF P!Forms, P!DraftStates
    <2>3. OfTheText(f)
      BY <2>1 DEF CopilotInv, DraftInv, P!ReviewIsWhole, OfTheText, P!NoCommittee
    <2>4. form' = f /\ copilotCall' = copilotCall
      BY <1>2, <2>1 DEF P!UseDraft, P!CommitteeOfTheDraft
    <2> QED BY <2>2, <2>3, <2>4, CallsKept, FormOf
  <1>3. CASE \E b \in BOOLEAN : P!EditText(b)
    <2>1. PICK b \in BOOLEAN : P!EditText(b)
      BY <1>3
    <2>2. form' = [form EXCEPT !.blank = b] /\ copilotCall' = copilotCall
      BY <2>1 DEF P!EditText, P!EditForm
    <2>3. form' \in P!Forms /\ form'.text = form.text /\ form'.committee = form.committee
      BY <1>1, <2>2 DEF P!Forms
    <2>4. OfTheText(form')
      BY <1>1, <2>3 DEF OfTheText
    <2> QED BY <2>2, <2>3, <2>4, CallsKept, FormOf
  <1>4. CASE \E c \in [id : Committees, of : {P!ByUser}] \cup {P!NoCommittee} : P!SelectCommittee(c)
    <2>1. PICK c \in [id : Committees, of : {P!ByUser}] \cup {P!NoCommittee} : P!SelectCommittee(c)
      BY <1>4
    <2>2. form' = [form EXCEPT !.committee = c] /\ copilotCall' = copilotCall
      BY <2>1 DEF P!SelectCommittee, P!EditForm
    <2>3. c \in P!Choice /\ c.of \in {P!ByUser, P!NoDraft}
      BY DEF P!Choice, P!NoCommittee
    <2>4. form' \in P!Forms /\ form'.committee = c
      BY <1>1, <2>2, <2>3 DEF P!Forms
    <2>5. OfTheText(form')
      BY <2>3, <2>4 DEF OfTheText
    <2> QED BY <2>2, <2>4, <2>5, CallsKept, FormOf
  <1>5. CASE \E c \in Submissions : P!SubmitProposal(c)
    <2>1. PICK c \in Submissions : P!SubmitProposal(c)
      BY <1>5
    <2>2. PICK x : x = [phase |-> "submitted", form |-> form, mounted |-> TRUE]
      OBVIOUS
    <2>3. copilotCall' = [copilotCall EXCEPT ![c] = x] /\ UNCHANGED form
      BY <2>1, <2>2 DEF P!SubmitProposal
    <2>4. /\ x \in [phase : {"submitted"}, form : P!Forms, mounted : BOOLEAN]
          /\ OfTheText(x.form)
      BY <1>1, <2>2
    <2>5. /\ copilotCall = [k \in Submissions |-> copilotCall[k]]
          /\ \A k \in Submissions :
               \/ copilotCall[k] = P!Idle
               \/ /\ copilotCall[k] \in [phase : {"submitted"}, form : P!Forms, mounted : BOOLEAN]
                  /\ OfTheText(copilotCall[k].form)
      BY CallsKept
    <2>6. copilotCall' = [k \in Submissions |-> IF k = c THEN x ELSE copilotCall[k]]
      BY <2>3, <2>5
    <2> QED BY <1>1, <2>3, <2>4, <2>5, <2>6, FormOf
  <1>6. CASE P!LeavePage
    <2>1. form' = P!EmptyForm /\ copilotCall' = P!LeftBehind
      BY <1>6 DEF P!LeavePage, P!Reset
    <2> QED BY <2>1, CallsKept, EmptyFormFits, FormOf
  <1>7. CASE \E c \in Submissions : P!SubmissionEnds(c)
    <2>1. PICK c \in Submissions : P!ProposalCreated(c) \/ P!SubmissionFails(c)
      BY <1>7 DEF P!SubmissionEnds
    <2>2. PICK calls : /\ copilotCall' = [calls EXCEPT ![c] = P!Idle]
                       /\ calls = copilotCall \/ calls = P!LeftBehind
                       /\ form' = form \/ form' = P!EmptyForm
      BY <2>1 DEF P!ProposalCreated, P!SubmissionFails, P!Reset
    <2>3. form' \in P!Forms /\ OfTheText(form')
      BY <1>1, <2>2, EmptyFormFits
    <2>4. /\ calls = [k \in Submissions |-> calls[k]]
          /\ \A k \in Submissions :
               \/ calls[k] = P!Idle
               \/ /\ calls[k] \in [phase : {"submitted"}, form : P!Forms, mounted : BOOLEAN]
                  /\ OfTheText(calls[k].form)
      BY <2>2, CallsKept
    <2>5. copilotCall' = [k \in Submissions |-> IF k = c THEN P!Idle ELSE calls[k]]
      BY <2>2, <2>4
    <2> QED BY <2>3, <2>4, <2>5, FormOf
  <1>8. CASE UNCHANGED <<form, copilotCall>>
    BY <1>1, <1>8, CallsKept, FormOf
  <1> QED BY <1>2, <1>3, <1>4, <1>5, <1>6, <1>7, <1>8

(* The debate.                                                              *)
LEMMA DebateStep ==
  ASSUME CopilotInv,
         \/ P!RunDebate \/ P!CloseDebate \/ P!DebateAnswered
         \/ \E i \in 0 .. MaxPersonas - 1 : P!SelectPersona(i)
         \/ P!Reset
         \/ UNCHANGED debate
  PROVE  DebateInv'
  <1>1. /\ debate \in P!DebateStates /\ (debate.personas > 0 => debate.index < debate.personas)
        /\ debate.personas \in 0 .. MaxPersonas /\ debate.index \in 0 .. MaxPersonas - 1
        /\ 0 \in 0 .. MaxPersonas /\ 0 \in 0 .. MaxPersonas - 1
    BY DEF CopilotInv, DebateInv, P!DebateStates, P!PersonaExists
  <1>2. CASE P!RunDebate
    <2>1. debate' = [debate EXCEPT !.personas = 0, !.running = TRUE, !.index = 0]
      BY <1>2 DEF P!RunDebate, P!Restarted
    <2>2. debate' \in P!DebateStates /\ debate'.personas = 0
      BY <1>1, <2>1 DEF P!DebateStates
    <2> QED BY <2>2 DEF DebateInv, P!PersonaExists
  <1>3. CASE P!CloseDebate
    <2>1. debate' = [debate EXCEPT !.open = FALSE]
      BY <1>3 DEF P!CloseDebate
    <2>2. /\ debate' \in P!DebateStates /\ debate'.personas = debate.personas
          /\ debate'.index = debate.index
      BY <1>1, <2>1 DEF P!DebateStates
    <2> QED BY <1>1, <2>2 DEF DebateInv, P!PersonaExists
  <1>4. CASE P!DebateAnswered
    <2>1. ASSUME NEW n \in 1 .. MaxPersonas, debate' = P!DebateShown(n)
          PROVE  DebateInv'
      <3>1. debate' \in P!DebateStates /\ debate'.personas = n /\ debate'.index = 0
        BY <1>1, <2>1 DEF P!DebateShown, P!DebateStates
      <3> QED BY <3>1 DEF DebateInv, P!PersonaExists
    <2>2. CASE debate' = [debate EXCEPT !.running = FALSE]
      <3>1. /\ debate' \in P!DebateStates /\ debate'.personas = debate.personas
            /\ debate'.index = debate.index
        BY <1>1, <2>2 DEF P!DebateStates
      <3> QED BY <1>1, <3>1 DEF DebateInv, P!PersonaExists
    <2> QED BY <1>4, <2>1, <2>2 DEF P!DebateAnswered
  <1>5. CASE \E i \in 0 .. MaxPersonas - 1 : P!SelectPersona(i)
    <2>1. PICK i \in 0 .. MaxPersonas - 1 : P!SelectPersona(i)
      BY <1>5
    <2>2. debate' = [debate EXCEPT !.index = i] /\ i \in 0 .. debate.personas - 1
      BY <2>1 DEF P!SelectPersona, P!Persona
    <2>3. debate' \in P!DebateStates /\ debate'.personas = debate.personas /\ debate'.index = i
      BY <1>1, <2>2 DEF P!DebateStates
    <2> QED BY <1>1, <2>2, <2>3 DEF DebateInv, P!PersonaExists
  <1>6. CASE P!Reset
    BY <1>1, <1>6 DEF P!Reset, P!NoDebate, DebateInv, P!DebateStates, P!PersonaExists
  <1>7. CASE UNCHANGED debate
    BY <1>1, <1>7 DEF DebateInv, P!PersonaExists
  <1> QED BY <1>2, <1>3, <1>4, <1>5, <1>6, <1>7

LEMMA CopilotStep ==
  ASSUME CopilotInv, [P!Next]_(P!vars)
  PROVE  CopilotInv'
  <1>1. DraftInv'
    <2>1. \/ P!GenerateAIDraft \/ P!DraftEnds \/ P!UseDraft
          \/ \E s \in 1 .. 3 : P!NavigateTo(s)
          \/ P!Reset
          \/ UNCHANGED <<step, draft>>
      BY DEF P!Next, P!vars, P!User, P!TypeIdea, P!ToggleSuggestion, P!LeavePage, P!EditText,
             P!SelectCommittee, P!EditForm, P!SubmitProposal, P!SubmitRefused, P!SubmissionEnds, P!ProposalCreated,
             P!SubmissionFails, P!RunDebate, P!CloseDebate, P!SelectPersona, P!DebateAnswered
    <2> QED BY <2>1, DraftStep
  <1>2. FormInv'
    <2>1. \/ P!UseDraft
          \/ \E b \in BOOLEAN : P!EditText(b)
          \/ \E c \in [id : Committees, of : {P!ByUser}] \cup {P!NoCommittee} : P!SelectCommittee(c)
          \/ \E c \in Submissions : P!SubmitProposal(c) \/ P!SubmissionEnds(c)
          \/ P!LeavePage
          \/ UNCHANGED <<form, copilotCall>>
      BY DEF P!Next, P!vars, P!User, P!TypeIdea, P!ToggleSuggestion, P!GenerateAIDraft,
             P!DraftEnds, P!DraftAnswered, P!DraftFails, P!NavigateTo, P!SubmitRefused,
             P!RunDebate, P!CloseDebate, P!SelectPersona, P!DebateAnswered
    <2> QED BY <2>1, CopilotFormStep
  <1>3. DebateInv'
    <2>1. \/ P!RunDebate \/ P!CloseDebate \/ P!DebateAnswered
          \/ \E i \in 0 .. MaxPersonas - 1 : P!SelectPersona(i)
          \/ P!Reset
          \/ UNCHANGED debate
      BY DEF P!Next, P!vars, P!User, P!TypeIdea, P!ToggleSuggestion, P!GenerateAIDraft, P!UseDraft,
             P!DraftEnds, P!DraftAnswered, P!DraftFails, P!NavigateTo, P!LeavePage, P!EditText,
             P!SelectCommittee, P!EditForm, P!SubmitProposal, P!SubmitRefused, P!SubmissionEnds, P!ProposalCreated,
             P!SubmissionFails
    <2> QED BY <2>1, DebateStep
  <1>4. {idea, suggesting, failed}' \subseteq BOOLEAN
    <2>1. {idea, suggesting, failed} \subseteq BOOLEAN
      BY DEF CopilotInv
    <2>2. ASSUME NEW c \in Submissions, P!SubmissionFails(c) PROVE failed' \in BOOLEAN
      BY <2>1, <2>2, Zenon DEF P!SubmissionFails
    <2>3. idea' \in BOOLEAN /\ suggesting' \in BOOLEAN
      BY <2>1
         DEF P!Next, P!vars, P!User, P!TypeIdea, P!ToggleSuggestion, P!GenerateAIDraft, P!UseDraft,
             P!DraftEnds, P!DraftAnswered, P!DraftFails, P!NavigateTo, P!LeavePage, P!EditText,
             P!SelectCommittee, P!EditForm, P!SubmitProposal, P!SubmitRefused, P!SubmissionEnds, P!ProposalCreated,
             P!SubmissionFails, P!RunDebate, P!CloseDebate, P!SelectPersona, P!DebateAnswered, P!Reset
    <2>4. failed' \in BOOLEAN
      BY <2>1, <2>2
         DEF P!Next, P!vars, P!User, P!TypeIdea, P!ToggleSuggestion, P!GenerateAIDraft, P!UseDraft,
             P!DraftEnds, P!DraftAnswered, P!DraftFails, P!NavigateTo, P!LeavePage, P!EditText,
             P!SelectCommittee, P!EditForm, P!SubmitProposal, P!SubmitRefused, P!SubmissionEnds, P!ProposalCreated,
             P!RunDebate, P!CloseDebate, P!SelectPersona, P!DebateAnswered, P!Reset
    <2> QED BY <2>3, <2>4
  <1> QED BY <1>1, <1>2, <1>3, <1>4 DEF CopilotInv

-----------------------------------------------------------------------------
(* The proposals page. *)
LEMMA ListTypes ==
  ASSUME ListInv
  PROVE  /\ modal \in [open : BOOLEAN, text : Texts \cup {L!Blank}, failed : BOOLEAN]
         /\ selected \in L!Ids \cup {L!Nothing}
         /\ listed \in [L!Ids -> L!Statuses \cup {L!Absent}]
         /\ analyzer \in [L!Ids -> L!Statuses \cup {L!Absent}]
         /\ fetched \in [L!Ids -> L!Answers]
         /\ pageCall \in [Calls -> L!CallStates]
  BY DEF ListInv, L!TypeOK

LEMMA ListBegins == L!Init => ListInv
  <1> SUFFICES ASSUME L!Init PROVE ListInv
    OBVIOUS
  <1>1. \A c \in Calls : pageCall[c] = L!Idle /\ pageCall[c].kind # "submit"
    BY DEF L!Init, L!Idle
  <1>2. L!TypeOK
    BY DEF L!Init, L!TypeOK, L!Closed, L!Answers, L!CallStates
  <1> QED BY <1>1, <1>2 DEF ListInv, L!SubmissionIsInTheModal, PendingSubmit

(* The modal and the calls as a step leaves them.                           *)
LEMMA ModalStep ==
  ASSUME ListInv,
         modal' \in [open : BOOLEAN, text : Texts \cup {L!Blank}, failed : BOOLEAN],
         selected' \in L!Ids \cup {L!Nothing},
         listed' \in [L!Ids -> L!Statuses \cup {L!Absent}],
         analyzer' \in [L!Ids -> L!Statuses \cup {L!Absent}],
         fetched' \in [L!Ids -> L!Answers],
         pageCall' \in [Calls -> L!CallStates],
         \A c \in Calls : PendingSubmit(c)' => modal'.open /\ modal'.text = pageCall'[c].text,
         \A c, d \in Calls : PendingSubmit(c)' /\ PendingSubmit(d)' => c = d
  PROVE  ListInv'
  BY DEF ListInv, L!TypeOK, L!SubmissionIsInTheModal, PendingSubmit

(* What is pending stays pending, and the modal as it is: the rest of the   *)
(* page, its polls, and the calls of others.                                *)
LEMMA ListOthers ==
  ASSUME ListInv,
         selected' \in L!Ids \cup {L!Nothing},
         listed' \in [L!Ids -> L!Statuses \cup {L!Absent}],
         analyzer' \in [L!Ids -> L!Statuses \cup {L!Absent}],
         fetched' \in [L!Ids -> L!Answers],
         pageCall' \in [Calls -> L!CallStates],
         \A c \in Calls : PendingSubmit(c)' => PendingSubmit(c) /\ pageCall'[c] = pageCall[c],
         modal' \in [open : BOOLEAN, text : Texts \cup {L!Blank}, failed : BOOLEAN],
         \/ modal' = modal
         \/ modal'.open /\ modal'.text = modal.text
         \/ \A c \in Calls : ~PendingSubmit(c)'
  PROVE  ListInv'
  <1>1. \A c \in Calls : PendingSubmit(c) => modal.open /\ modal.text = pageCall[c].text
    BY DEF ListInv, L!SubmissionIsInTheModal, PendingSubmit
  <1>2. \A c \in Calls : PendingSubmit(c)' => modal'.open /\ modal'.text = pageCall'[c].text
    BY <1>1
  <1>3. \A c, d \in Calls : PendingSubmit(c)' /\ PendingSubmit(d)' => c = d
    BY DEF ListInv
  <1> QED BY <1>2, <1>3, ModalStep

LEMMA NoneIsPending == ~L!IsPending => \A c \in Calls : ~PendingSubmit(c)
  BY DEF L!IsPending, PendingSubmit

(* The modal, whose inputs a pending submission disables.                   *)
LEMMA ModalMoves ==
  ASSUME ListInv,
         L!OpenModal \/ L!HandleClose \/ \E t \in Texts \cup {L!Blank} : L!TypeText(t)
  PROVE  ListInv'
  <1>1. UNCHANGED <<selected, listed, fetched, pageCall, analyzer>>
    BY DEF L!OpenModal, L!HandleClose, L!TypeText
  <1>2. modal' \in [open : BOOLEAN, text : Texts \cup {L!Blank}, failed : BOOLEAN]
    BY ListTypes DEF L!OpenModal, L!HandleClose, L!TypeText
  <1>3. \/ modal'.open /\ modal'.text = modal.text
        \/ \A c \in Calls : ~PendingSubmit(c)
    BY ListTypes, NoneIsPending DEF L!OpenModal, L!HandleClose, L!TypeText, L!Disabled
  <1> QED BY <1>1, <1>2, <1>3, ListTypes, ListOthers DEF PendingSubmit

LEMMA SubmitStep ==
  ASSUME ListInv, NEW c \in Calls, L!HandleSubmit(c)
  PROVE  ListInv'
  <1>1. PICK x : x = [kind |-> "submit", text |-> modal.text, mounted |-> TRUE]
    OBVIOUS
  <1>2. /\ modal.open /\ modal.text # L!Blank /\ \A d \in Calls : ~PendingSubmit(d)
        /\ modal' = [modal EXCEPT !.failed = FALSE]
        /\ pageCall' = [pageCall EXCEPT ![c] = x]
        /\ UNCHANGED <<selected, listed, fetched, analyzer>>
    BY <1>1, NoneIsPending DEF L!HandleSubmit
  <1>3. x \in L!CallStates /\ x.text = modal.text
    BY <1>1, <1>2, ListTypes DEF L!CallStates
  <1>4. /\ pageCall' \in [Calls -> L!CallStates] /\ pageCall'[c] = x
        /\ \A d \in Calls \ {c} : pageCall'[d] = pageCall[d]
    BY <1>2, <1>3, ListTypes
  <1>5. \A d \in Calls : PendingSubmit(d)' => d = c
    BY <1>2, <1>4 DEF PendingSubmit
  <1>6. /\ modal' \in [open : BOOLEAN, text : Texts \cup {L!Blank}, failed : BOOLEAN]
        /\ modal'.open /\ modal'.text = modal.text
    BY <1>2, ListTypes
  <1> QED BY <1>2, <1>3, <1>4, <1>5, <1>6, ListTypes, ModalStep

(* A call of a proposal that ends is no longer pending.                     *)
LEMMA EndedCall ==
  ASSUME ListInv, NEW c \in Calls, pageCall' = [pageCall EXCEPT ![c] = L!Idle]
  PROVE  /\ pageCall' \in [Calls -> L!CallStates]
         /\ \A d \in Calls : PendingSubmit(d)' =>
              d # c /\ PendingSubmit(d) /\ pageCall'[d] = pageCall[d]
         /\ PendingSubmit(c) => \A d \in Calls : ~PendingSubmit(d)'
  <1>1. /\ pageCall' \in [Calls -> L!CallStates] /\ pageCall'[c] = L!Idle
        /\ \A d \in Calls \ {c} : pageCall'[d] = pageCall[d]
    BY ListTypes DEF L!CallStates
  <1>2. ASSUME NEW d \in Calls, PendingSubmit(d)'
        PROVE  d # c /\ PendingSubmit(d) /\ pageCall'[d] = pageCall[d]
    BY <1>1, <1>2 DEF PendingSubmit, L!Idle
  <1>3. PendingSubmit(c) => \A d \in Calls : ~PendingSubmit(d)'
    BY <1>2 DEF ListInv
  <1> QED BY <1>1, <1>2, <1>3

LEMMA SubmittedStep ==
  ASSUME ListInv, NEW c \in Calls, L!Submitted(c) \/ L!SubmissionFails(c)
  PROVE  ListInv'
  <1>1. pageCall' = [pageCall EXCEPT ![c] = L!Idle] /\ UNCHANGED <<listed, fetched>>
    BY DEF L!Submitted, L!SubmissionFails
  <1>2. analyzer' \in [L!Ids -> L!Statuses \cup {L!Absent}]
    <2>1. CASE L!Submitted(c)
      <3>1. PICK n : n = L!New
        OBVIOUS
      <3>2. PICK o \in {"Analyzed", "Failed"} : analyzer' = [analyzer EXCEPT ![n] = o]
        BY <2>1, <3>1 DEF L!Submitted
      <3> QED BY <3>2, ListTypes DEF L!Statuses
    <2>2. CASE L!SubmissionFails(c)
      BY <2>2, ListTypes DEF L!SubmissionFails
    <2> QED BY <2>1, <2>2
  <1>3. selected' \in L!Ids \cup {L!Nothing}
    BY ListTypes DEF L!Submitted, L!SubmissionFails
  <1>4. CASE pageCall[c].mounted
    <2>1. PendingSubmit(c)
      BY <1>4 DEF PendingSubmit, L!Submitted, L!SubmissionFails
    <2>2. modal' = L!Closed \/ modal' = [modal EXCEPT !.failed = TRUE]
      BY <1>4 DEF L!Submitted, L!SubmissionFails
    <2>3. modal' \in [open : BOOLEAN, text : Texts \cup {L!Blank}, failed : BOOLEAN]
      <3>1. CASE modal' = L!Closed
        BY <3>1 DEF L!Closed
      <3>2. CASE modal' = [modal EXCEPT !.failed = TRUE]
        <4>1. TRUE \in BOOLEAN
          OBVIOUS
        <4> QED BY <3>2, <4>1, ListTypes
      <3> QED BY <2>2, <3>1, <3>2
    <2> QED BY <1>1, <1>2, <1>3, <2>1, <2>3, EndedCall, ListTypes, ListOthers
  <1>5. CASE ~pageCall[c].mounted
    <2>1. modal' = modal
      BY <1>5 DEF L!Submitted, L!SubmissionFails
    <2> QED BY <1>1, <1>2, <1>3, <2>1, EndedCall, ListTypes, ListOthers
  <1> QED BY <1>4, <1>5

(* The list and the panel, and the polls of both.                           *)
LEMMA PanelStep ==
  ASSUME ListInv,
         \/ \E i \in L!Ids : L!HandleProposalSelect(i)
         \/ L!ClosePanel \/ L!Poll \/ UNCHANGED L!vars
  PROVE  ListInv'
  <1>1. UNCHANGED <<modal, pageCall, analyzer>>
    BY DEF L!HandleProposalSelect, L!ClosePanel, L!Poll, L!PollList, L!PollProposal, L!vars
  <1>2. selected' \in L!Ids \cup {L!Nothing}
    BY ListTypes
       DEF L!HandleProposalSelect, L!ClosePanel, L!Poll, L!PollList, L!PollProposal, L!vars
  <1>3. listed' \in [L!Ids -> L!Statuses \cup {L!Absent}]
    BY ListTypes
       DEF L!HandleProposalSelect, L!ClosePanel, L!Poll, L!PollList, L!PollProposal, L!vars
  <1>4. fetched' \in [L!Ids -> L!Answers]
    <2>1. ASSUME NEW a \in L!Answers, L!PollProposal(a)
          PROVE  fetched' \in [L!Ids -> L!Answers]
      <3>1. selected \in L!Ids /\ fetched' = [fetched EXCEPT ![selected] = a]
        BY <2>1, ListTypes DEF L!PollProposal
      <3> QED BY <3>1, ListTypes
    <2>2. L!NotFound \in L!Answers
      BY DEF L!Answers
    <2>3. ASSUME selected # L!Nothing PROVE L!Opt(analyzer[selected]) \in L!Answers
      <3>1. PICK s \in L!Statuses \cup {L!Absent} : s = analyzer[selected]
        BY <2>3, ListTypes
      <3>2. L!Opt(s) \in L!Answers
        BY DEF L!Opt, L!Answers
      <3> QED BY <3>1, <3>2
    <2>4. CASE L!PollProposal(L!NotFound)
      BY <2>1, <2>2, <2>4
    <2>5. CASE selected # L!Nothing /\ L!PollProposal(L!Opt(analyzer[selected]))
      <3>1. PICK a \in L!Answers : a = L!Opt(analyzer[selected])
        BY <2>3, <2>5
      <3>2. L!PollProposal(a)
        BY <2>5, <3>1
      <3> QED BY <2>1, <3>2
    <2>6. CASE UNCHANGED fetched
      BY <2>6, ListTypes
    <2> QED BY <2>4, <2>5, <2>6
        DEF L!HandleProposalSelect, L!ClosePanel, L!Poll, L!PollList, L!vars
  <1> QED BY <1>1, <1>2, <1>3, <1>4, ListTypes, ListOthers DEF PendingSubmit

LEMMA RetryStep ==
  ASSUME ListInv, NEW c \in Calls,
         (\E i \in L!Ids : L!HandleRetry(c, i)) \/ L!RetryRuns(c) \/ L!RetryEnds(c)
  PROVE  ListInv'
  <1>1. UNCHANGED <<modal, selected, listed, fetched>>
    BY DEF L!HandleRetry, L!RetryRuns, L!RetryEnds
  <1>2. CASE \E i \in L!Ids : L!HandleRetry(c, i)
    <2>1. PICK i \in L!Ids : L!HandleRetry(c, i)
      BY <1>2
    <2>2. PICK x : x = [kind |-> "analyze", id |-> i, mounted |-> TRUE]
      OBVIOUS
    <2>3. x \in L!CallStates /\ x.kind # "submit"
      BY <2>2 DEF L!CallStates
    <2>4. pageCall' = [pageCall EXCEPT ![c] = x] /\ UNCHANGED analyzer
      BY <2>1, <2>2 DEF L!HandleRetry
    <2>5. /\ pageCall' \in [Calls -> L!CallStates] /\ pageCall'[c] = x
          /\ \A d \in Calls \ {c} : pageCall'[d] = pageCall[d]
      BY <2>3, <2>4, ListTypes
    <2>6. \A d \in Calls : PendingSubmit(d)' => PendingSubmit(d) /\ pageCall'[d] = pageCall[d]
      BY <2>3, <2>5 DEF PendingSubmit
    <2> QED BY <1>1, <2>4, <2>5, <2>6, ListTypes, ListOthers
  <1>3. ASSUME pageCall[c].kind = "analyze" PROVE pageCall[c].id \in L!Ids
    BY <1>3, ListTypes DEF L!CallStates, L!Idle
  <1>4. CASE L!RetryRuns(c)
    <2>1. pageCall[c].id \in L!Ids
      BY <1>3, <1>4 DEF L!RetryRuns
    <2>2. analyzer' \in [L!Ids -> L!Statuses \cup {L!Absent}] /\ UNCHANGED pageCall
      BY <1>4, <2>1, ListTypes DEF L!RetryRuns, L!Statuses
    <2> QED BY <1>1, <2>2, ListTypes, ListOthers DEF PendingSubmit
  <1>5. CASE L!RetryEnds(c)
    <2>1. pageCall[c].id \in L!Ids /\ pageCall' = [pageCall EXCEPT ![c] = L!Idle]
      BY <1>3, <1>5 DEF L!RetryEnds
    <2>2. PICK o \in {"Analyzed", "Failed"} : analyzer' = [analyzer EXCEPT ![pageCall[c].id] = o]
      BY <1>5 DEF L!RetryEnds
    <2>3. analyzer' \in [L!Ids -> L!Statuses \cup {L!Absent}]
      BY <2>1, <2>2, ListTypes DEF L!Statuses
    <2> QED BY <1>1, <2>1, <2>3, EndedCall, ListTypes, ListOthers
  <1> QED BY <1>2, <1>4, <1>5

LEMMA LeaveListStep ==
  ASSUME ListInv, L!LeavePage
  PROVE  ListInv'
  <1>1. /\ modal' = L!Closed /\ selected' = L!Nothing /\ UNCHANGED <<listed, fetched, analyzer>>
        /\ pageCall' = [c \in Calls |->
             IF L!Busy(c) THEN [pageCall[c] EXCEPT !.mounted = FALSE] ELSE L!Idle]
    BY DEF L!LeavePage
  <1>2. ASSUME NEW c \in Calls
        PROVE  pageCall'[c] \in L!CallStates /\ ~PendingSubmit(c)'
    <2>1. CASE L!Busy(c)
      <3>1. pageCall'[c] = [pageCall[c] EXCEPT !.mounted = FALSE]
        BY <1>1, <2>1
      <3>2. \/ pageCall[c] \in [kind : {"submit"}, text : Texts, mounted : BOOLEAN]
            \/ pageCall[c] \in [kind : {"analyze"}, id : L!Ids, mounted : BOOLEAN]
        BY <2>1, ListTypes DEF L!CallStates, L!Busy
      <3>3. /\ \/ pageCall'[c] \in [kind : {"submit"}, text : Texts, mounted : BOOLEAN]
               \/ pageCall'[c] \in [kind : {"analyze"}, id : L!Ids, mounted : BOOLEAN]
            /\ pageCall'[c].mounted = FALSE
        BY <3>1, <3>2
      <3> QED BY <3>3 DEF L!CallStates, PendingSubmit
    <2>2. CASE ~L!Busy(c)
      <3>1. pageCall'[c] = L!Idle
        BY <1>1, <2>2
      <3> QED BY <3>1 DEF L!CallStates, L!Idle, PendingSubmit
    <2> QED BY <2>1, <2>2
  <1>3. pageCall' \in [Calls -> L!CallStates]
    <2>1. pageCall' = [c \in Calls |-> pageCall'[c]]
      BY <1>1
    <2> QED BY <1>2, <2>1
  <1>4. modal' \in [open : BOOLEAN, text : Texts \cup {L!Blank}, failed : BOOLEAN]
    BY <1>1 DEF L!Closed
  <1> QED BY <1>1, <1>2, <1>3, <1>4, ListTypes, ListOthers

LEMMA ListStep ==
  ASSUME ListInv, [L!Next]_(L!vars)
  PROVE  ListInv'
  <1>1. CASE L!OpenModal \/ L!HandleClose \/ \E t \in Texts \cup {L!Blank} : L!TypeText(t)
    BY <1>1, ModalMoves
  <1>2. CASE \/ \E i \in L!Ids : L!HandleProposalSelect(i)
             \/ L!ClosePanel \/ L!Poll \/ UNCHANGED L!vars
    BY <1>2, PanelStep
  <1>3. CASE L!LeavePage
    BY <1>3, LeaveListStep
  <1>4. ASSUME NEW c \in Calls, L!HandleSubmit(c) PROVE ListInv'
    BY <1>4, SubmitStep
  <1>5. ASSUME NEW c \in Calls,
               (\E i \in L!Ids : L!HandleRetry(c, i)) \/ L!RetryRuns(c) \/ L!RetryEnds(c)
        PROVE  ListInv'
    BY <1>5, RetryStep
  <1>6. ASSUME NEW c \in Calls, L!Submitted(c) \/ L!SubmissionFails(c) PROVE ListInv'
    BY <1>6, SubmittedStep
  <1> QED BY <1>1, <1>2, <1>3, <1>4, <1>5, <1>6 DEF L!Next, L!User, L!HandlerEnds

-----------------------------------------------------------------------------
(* The committees tab.                                                      *)
LEMMA CommitteesTypes ==
  ASSUME CommitteesInv
  PROVE  /\ committeeForm \in T!Forms /\ editor \in T!Editors /\ save \in T!CallStates
         /\ dao \in [T!Ids -> T!Activity \cup {T!Absent}]
         /\ committees = T!Unavailable \/ committees \in [T!Ids -> T!Activity \cup {T!Absent}]
         /\ save # T!Idle =>
              IF save.new THEN committeeForm = save.arg
                          ELSE T!Touched(editor) => editor = save.arg
  BY DEF CommitteesInv, T!TypeOK, T!NoEditIsLost, T!Submitting

LEMMA CommitteesBegins == T!Init => CommitteesInv
  BY DEF T!Init, CommitteesInv, T!TypeOK, T!NoEditIsLost, T!Submitting, T!Forms, T!Editors,
         T!CallStates, T!Idle, T!FreshForm, T!NoEditor

(* Nothing that is typed is touched while a save is under way.              *)
LEMMA InputsStep ==
  ASSUME CommitteesInv,
         \/ \E f \in T!Forms : T!TypeForm(f)
         \/ \E t \in Texts : T!TypeEditor(t)
         \/ T!ToggleActive
  PROVE  CommitteesInv'
  <1>1. save = T!Idle /\ UNCHANGED <<save, committees, dao>>
    BY DEF T!TypeForm, T!TypeEditor, T!ToggleActive, T!Disabled, T!Submitting
  <1>2. committeeForm' \in T!Forms
    BY CommitteesTypes DEF T!TypeForm, T!TypeEditor, T!ToggleActive
  <1>3. editor' \in T!Editors
    <2>1. CASE \E t \in Texts : T!TypeEditor(t)
      BY <2>1, CommitteesTypes DEF T!TypeEditor, T!Editors
    <2>2. CASE T!ToggleActive
      <3>1. PICK a \in BOOLEAN : a = ~editor.active
        BY CommitteesTypes DEF T!Editors
      <3>2. PICK b \in BOOLEAN : b = TRUE
        OBVIOUS
      <3>3. editor' = [editor EXCEPT !.active = a, !.toggled = b]
        BY <2>2, <3>1, <3>2 DEF T!ToggleActive
      <3> QED BY <3>3, CommitteesTypes DEF T!Editors
    <2>3. CASE UNCHANGED editor
      BY <2>3, CommitteesTypes
    <2> QED BY <2>1, <2>2, <2>3 DEF T!TypeForm
  <1> QED BY <1>1, <1>2, <1>3, CommitteesTypes
      DEF CommitteesInv, T!TypeOK, T!NoEditIsLost, T!Submitting

(* Manage and Cancel, which a save does not disable: they load an editor    *)
(* in which nothing is typed yet.                                           *)
LEMMA ManageStep ==
  ASSUME CommitteesInv,
         (\E i \in T!Ids : T!HandleStartUpdate(i)) \/ T!HandleCancelUpdate
  PROVE  CommitteesInv'
  <1>1. UNCHANGED <<committeeForm, save, committees, dao>>
    BY DEF T!HandleStartUpdate, T!HandleCancelUpdate
  <1>2. \E i \in T!Ids \cup {T!NoId} :
          editor' = [id |-> i, text |-> T!Untyped, active |-> TRUE, toggled |-> FALSE]
    BY DEF T!HandleStartUpdate, T!HandleCancelUpdate, T!LoadedActive, T!NoEditor
  <1>3. TRUE \in BOOLEAN /\ FALSE \in BOOLEAN
    OBVIOUS
  <1>4. editor' \in T!Editors /\ editor'.text = T!Untyped /\ editor'.toggled = FALSE
    BY <1>2, <1>3 DEF T!Editors
  <1>5. ~T!Touched(editor')
    BY <1>4 DEF T!Touched
  <1> QED BY <1>1, <1>4, <1>5, CommitteesTypes
      DEF CommitteesInv, T!TypeOK, T!NoEditIsLost, T!Submitting

LEMMA SaveStep ==
  ASSUME CommitteesInv, T!HandleAddCommittee \/ T!HandleUpdateCommittee
  PROVE  CommitteesInv'
  <1>1. UNCHANGED <<committeeForm, editor, committees, dao>>
    BY DEF T!HandleAddCommittee, T!HandleUpdateCommittee, T!Save
  <1>2. CASE T!HandleAddCommittee
    <2>1. save' = [phase |-> "sent", new |-> TRUE, arg |-> committeeForm]
      BY <1>2 DEF T!HandleAddCommittee, T!Save
    <2>2. save' \in T!CallStates /\ save'.new /\ save'.arg = committeeForm
      BY <2>1, CommitteesTypes DEF T!CallStates, T!Saving
    <2> QED BY <1>1, <2>2, CommitteesTypes
        DEF CommitteesInv, T!TypeOK, T!NoEditIsLost, T!Submitting
  <1>3. CASE T!HandleUpdateCommittee
    <2>1. save' = [phase |-> "sent", new |-> FALSE, arg |-> editor]
      BY <1>3 DEF T!HandleUpdateCommittee, T!Save
    <2>2. save' \in T!CallStates /\ ~save'.new /\ save'.arg = editor
      BY <2>1, CommitteesTypes DEF T!CallStates, T!Saving
    <2> QED BY <1>1, <2>2, CommitteesTypes
        DEF CommitteesInv, T!TypeOK, T!NoEditIsLost, T!Submitting
  <1> QED BY <1>2, <1>3

(* What the canister has after a committee is put there.                    *)
LEMMA PutTypes ==
  ASSUME CommitteesInv, NEW i, NEW a, T!Put(i, a)
  PROVE  dao' \in [T!Ids -> T!Activity \cup {T!Absent}]
  <1>1. PICK f \in T!Activity : f = T!Flag(a)
    BY DEF T!Flag, T!Activity
  <1>2. i \in T!Ids /\ dao' = [dao EXCEPT ![i] = f]
    BY <1>1 DEF T!Put
  <1> QED BY <1>2, CommitteesTypes

LEMMA SavedStep ==
  ASSUME CommitteesInv, T!Saved
  PROVE  CommitteesInv'
  <1>1. /\ save.phase = "sent" /\ save' = [save EXCEPT !.phase = "listing"]
        /\ UNCHANGED <<committeeForm, editor, committees>>
    BY DEF T!Saved
  <1>2. save \in [phase : T!Saving, new : {TRUE}, arg : T!Forms]
        \/ save \in [phase : T!Saving, new : {FALSE}, arg : T!Editors]
    <2>1. save # [phase |-> "idle"]
      BY <1>1
    <2> QED BY <2>1, CommitteesTypes DEF T!CallStates
  <1>3. save' \in T!CallStates /\ save'.new = save.new /\ save'.arg = save.arg
    BY <1>1, <1>2 DEF T!CallStates, T!Saving
  <1>4. dao' \in [T!Ids -> T!Activity \cup {T!Absent}]
    BY PutTypes DEF T!Saved
  <1>5. save # T!Idle
    BY <1>1 DEF T!Idle
  <1> QED BY <1>1, <1>3, <1>4, <1>5, CommitteesTypes
      DEF CommitteesInv, T!TypeOK, T!NoEditIsLost, T!Submitting

LEMMA ListFetched ==
  ASSUME CommitteesInv, T!Fetched
  PROVE  committees' = T!Unavailable \/ committees' \in [T!Ids -> T!Activity \cup {T!Absent}]
  BY CommitteesTypes DEF T!Fetched

(* No save is under way any more: what is typed is nobody else's.           *)
LEMMA SaveOver ==
  ASSUME CommitteesInv,
         \/ T!SaveFails \/ T!SaveEnds \/ T!LeaveTab
  PROVE  CommitteesInv'
  <1>1. save' = T!Idle /\ UNCHANGED dao
    BY DEF T!SaveFails, T!SaveEnds, T!LeaveTab
  <1>2. committeeForm' \in T!Forms /\ editor' \in T!Editors
    <2>1. T!FreshForm \in T!Forms /\ T!NoEditor \in T!Editors
      BY DEF T!FreshForm, T!NoEditor, T!Forms, T!Editors
    <2>2. CASE T!SaveEnds
      BY <2>1, <2>2, CommitteesTypes DEF T!SaveEnds
    <2> QED BY <2>1, <2>2, CommitteesTypes DEF T!SaveFails, T!LeaveTab
  <1>3. committees' = T!Unavailable \/ committees' \in [T!Ids -> T!Activity \cup {T!Absent}]
    BY CommitteesTypes, ListFetched DEF T!SaveFails, T!SaveEnds, T!LeaveTab
  <1> QED BY <1>1, <1>2, <1>3, CommitteesTypes
      DEF CommitteesInv, T!TypeOK, T!NoEditIsLost, T!Submitting, T!CallStates, T!Idle

LEMMA CommitteesTabStep ==
  ASSUME CommitteesInv, [T!Next]_(T!vars)
  PROVE  CommitteesInv'
  <1>1. CASE \/ \E f \in T!Forms : T!TypeForm(f)
             \/ \E t \in Texts : T!TypeEditor(t)
             \/ T!ToggleActive
    BY <1>1, InputsStep
  <1>2. CASE (\E i \in T!Ids : T!HandleStartUpdate(i)) \/ T!HandleCancelUpdate
    BY <1>2, ManageStep
  <1>3. CASE T!HandleAddCommittee \/ T!HandleUpdateCommittee
    BY <1>3, SaveStep
  <1>4. CASE T!Saved
    BY <1>4, SavedStep
  <1>5. CASE T!SaveFails \/ T!SaveEnds \/ T!LeaveTab
    BY <1>5, SaveOver
  <1>6. CASE T!FetchList
    BY <1>6, ListFetched, CommitteesTypes
       DEF T!FetchList, CommitteesInv, T!TypeOK, T!NoEditIsLost, T!Submitting
  <1>7. ASSUME NEW i \in T!Ids, NEW a \in BOOLEAN, T!OtherClient(i, a) PROVE CommitteesInv'
    <2>1. dao' \in [T!Ids -> T!Activity \cup {T!Absent}]
      BY <1>7, PutTypes DEF T!OtherClient
    <2> QED BY <1>7, <2>1, CommitteesTypes
        DEF T!OtherClient, CommitteesInv, T!TypeOK, T!NoEditIsLost, T!Submitting
  <1>8. CASE UNCHANGED T!vars
    BY <1>8, CommitteesTypes DEF T!vars, CommitteesInv, T!TypeOK, T!NoEditIsLost, T!Submitting
  <1> QED BY <1>1, <1>2, <1>3, <1>4, <1>5, <1>6, <1>7, <1>8 DEF T!Next, T!User, T!Continue

-----------------------------------------------------------------------------
(* The proxy.                                                               *)
LEMMA ProxyTypes ==
  ASSUME ProxyInv
  PROVE  /\ server \in {"up", "closing", "down"} /\ hasKey \in BOOLEAN
         /\ count \in 0 .. RateLimit + 1 /\ count \in Nat /\ RateLimit \in Nat
         /\ bought \in Nat /\ bought <= count /\ bought <= RateLimit
         /\ request \in [Calls -> X!RequestStates]
         /\ \A r \in Calls : request[r].phase = "answered" => Len(request[r].answers) = 1
         /\ server = "down" => \A r \in Calls : request[r].phase \in {"free", "cut"}
  BY DEF ProxyInv, X!TypeOK, X!AnsweredOnce, X!BoughtWithinLimit

LEMMA ProxyBegins == X!Init => ProxyInv
  <1> SUFFICES ASSUME X!Init PROVE ProxyInv
    OBVIOUS
  <1>1. \A r \in Calls : request[r].phase = "free"
    BY DEF X!Init, X!Free
  <1>2. X!TypeOK /\ bought = 0 /\ count = 0
    BY DEF X!Init, X!TypeOK, X!RequestStates
  <1> QED BY <1>1, <1>2 DEF ProxyInv, X!AnsweredOnce, X!BoughtWithinLimit

(* The requests as a step leaves them.                                      *)
LEMMA OneRequest ==
  ASSUME ProxyInv, NEW r \in Calls, NEW x \in X!RequestStates,
         request' = [request EXCEPT ![r] = x],
         x.phase = "answered" => Len(x.answers) = 1,
         server' = server, server = "down" => x.phase \in {"free", "cut"}
  PROVE  request' \in [Calls -> X!RequestStates] /\ X!AnsweredOnce'
  <1>1. /\ request' \in [Calls -> X!RequestStates] /\ request'[r] = x
        /\ \A q \in Calls \ {r} : request'[q] = request[q]
    BY ProxyTypes
  <1> QED BY <1>1, ProxyTypes DEF X!AnsweredOnce

(* What is sent at once; a request that asks the service was counted.       *)
LEMMA AnswersAtOnce ==
  ASSUME NEW route \in X!Routes, NEW body \in X!Bodies, NEW n
  PROVE  /\ \/ X!AtOnce(route, body, n) = << >>
            \/ \E code \in {200, 400, 404, 429, 500} : X!AtOnce(route, body, n) = <<code>>
         /\ X!AtOnce(route, body, n) = << >> =>
              route \in X!AiRoutes /\ body # "broken" /\ ~X!Limited(n)
  <1>1. CASE body = "broken"
    BY <1>1 DEF X!AtOnce
  <1>2. CASE body # "broken" /\ X!Counted(route) /\ X!Limited(n)
    BY <1>2 DEF X!AtOnce
  <1>3. CASE body # "broken" /\ ~(X!Counted(route) /\ X!Limited(n))
    <2>1. X!AtOnce(route, body, n) =
            CASE route \in {"health", "root"} -> <<200>>
              [] route = "unknown" -> <<404>>
              [] route \in X!AiRoutes -> X!Checked(body)
      BY <1>3 DEF X!AtOnce
    <2>2. CASE route \in {"health", "root"}
      BY <2>1, <2>2 DEF X!AiRoutes
    <2>3. CASE route = "unknown"
      BY <2>1, <2>3 DEF X!AiRoutes
    <2>4. CASE route \in X!AiRoutes
      <3>1. X!AtOnce(route, body, n) = X!Checked(body)
        BY <2>1, <2>4 DEF X!AiRoutes
      <3>2. route # "root"
        BY <2>4 DEF X!AiRoutes
      <3>3. \/ X!Checked(body) = << >>
            \/ \E code \in {200, 400, 404, 429, 500} : X!Checked(body) = <<code>>
        BY DEF X!Checked
      <3> QED BY <1>3, <2>4, <3>1, <3>2, <3>3 DEF X!Counted
    <2> QED BY <2>2, <2>3, <2>4 DEF X!Routes
  <1> QED BY <1>1, <1>2, <1>3

LEMMA ReceiveStep ==
  ASSUME ProxyInv, NEW r \in Calls, NEW route \in X!Routes, NEW body \in X!Bodies,
         X!Receive(r, route, body)
  PROVE  ProxyInv'
  <1>1. PICK n : n = X!CountAfter(route, body)
    OBVIOUS
  <1>2. PICK a : a = X!AtOnce(route, body, n)
    OBVIOUS
  <1>3. PICK x : x = [phase |-> IF a = << >> THEN "awaiting" ELSE "answered",
                      route |-> route, late |-> server = "closing", answers |-> a]
    OBVIOUS
  <1>4. /\ server # "down" /\ UNCHANGED <<server, hasKey>> /\ count' = n
        /\ request' = [request EXCEPT ![r] = x]
        /\ bought' = IF a = << >> THEN bought + 1 ELSE bought
    BY <1>1, <1>2, <1>3 DEF X!Receive
  <1>5. n \in 0 .. RateLimit + 1 /\ n >= count
    BY <1>1, ProxyTypes DEF X!CountAfter
  <1>6. /\ \/ a = << >> \/ \E code \in {200, 400, 404, 429, 500} : a = <<code>>
        /\ a = << >> => route \in X!AiRoutes /\ body # "broken" /\ ~X!Limited(n)
    BY <1>2, AnswersAtOnce
  <1>7. CASE a = << >>
    <2>1. route # "root" /\ X!Counted(route)
      BY <1>6, <1>7 DEF X!AiRoutes, X!Counted
    <2>2. n <= RateLimit
      BY <1>5, <1>6, <1>7, ProxyTypes DEF X!Limited
    <2>3. n = count + 1
      BY <1>1, <1>5, <1>6, <1>7, <2>1, <2>2, ProxyTypes DEF X!CountAfter
    <2>4. bought' \in Nat /\ bought' <= count' /\ bought' <= RateLimit
      BY <1>4, <1>7, <2>2, <2>3, ProxyTypes
    <2>5. x = [phase |-> "awaiting", route |-> route, late |-> server = "closing",
               answers |-> << >>]
      BY <1>3, <1>7
    <2>6. x \in X!RequestStates /\ x.phase # "answered"
      BY <1>6, <1>7, <2>5 DEF X!RequestStates
    <2>7. request' \in [Calls -> X!RequestStates] /\ X!AnsweredOnce'
      BY <1>4, <2>6, OneRequest
    <2> QED BY <1>4, <1>5, <2>4, <2>7, ProxyTypes DEF ProxyInv, X!TypeOK, X!BoughtWithinLimit
  <1>8. CASE a # << >>
    <2>1. PICK code \in {200, 400, 404, 429, 500} : a = <<code>>
      BY <1>6, <1>8
    <2>2. x = [phase |-> "answered", route |-> route, late |-> server = "closing",
               answers |-> <<code>>]
      BY <1>3, <1>8, <2>1
    <2>3. x \in X!RequestStates
      BY <2>2 DEF X!RequestStates
    <2>4. Len(x.answers) = 1
      BY <2>2
    <2>5. request' \in [Calls -> X!RequestStates] /\ X!AnsweredOnce'
      BY <1>4, <2>3, <2>4, OneRequest, ZenonT(40)
    <2>6. bought' = bought /\ bought' <= count'
      BY <1>4, <1>5, <1>8, ProxyTypes
    <2> QED BY <1>4, <1>5, <2>5, <2>6, ProxyTypes DEF ProxyInv, X!TypeOK, X!BoughtWithinLimit
  <1> QED BY <1>7, <1>8

LEMMA FirstAnswer == \A code : << >> \o <<code>> = <<code>>
  OBVIOUS

LEMMA RepliedStep ==
  ASSUME ProxyInv, NEW r \in Calls, NEW reply \in X!Replies, X!ServiceReplies(r, reply)
  PROVE  ProxyInv'
  <1>1. /\ request[r].phase = "awaiting" /\ server # "down"
        /\ UNCHANGED <<server, hasKey, count, bought>>
    BY ProxyTypes DEF X!ServiceReplies
  <1>2. request[r] \in [phase : {"awaiting"}, route : X!AiRoutes, late : BOOLEAN, answers : {<< >>}]
    BY <1>1, ProxyTypes DEF X!RequestStates, X!Free, X!Kept, X!Cut
  <1>3. PICK route \in X!AiRoutes, late \in BOOLEAN :
          request[r] = [phase |-> "awaiting", route |-> route, late |-> late, answers |-> << >>]
    BY <1>2
  <1>4. PICK a : a = X!AnswerTo(reply)
    OBVIOUS
  <1>5. PICK x : x = [phase |-> "answered", route |-> route, late |-> late, answers |-> a]
    OBVIOUS
  <1>6. PICK code \in {200, 500} : a = <<code>>
    BY <1>4 DEF X!AnswerTo
  <1>7. request[r].answers \o X!AnswerTo(reply) = a
    BY <1>3, <1>4, <1>6, FirstAnswer
  <1>8. request' = [request EXCEPT ![r] = x]
    <2>1. request' = [request EXCEPT ![r].phase = "answered", ![r].answers = a]
      BY <1>7 DEF X!ServiceReplies
    <2>2. PICK f : f = [request EXCEPT ![r].phase = "answered"]
      OBVIOUS
    <2>3. /\ request' = [f EXCEPT ![r].answers = a] /\ DOMAIN f = Calls
          /\ f[r] = [phase |-> "answered", route |-> route, late |-> late, answers |-> << >>]
          /\ \A q \in Calls \ {r} : f[q] = request[q]
      BY <1>3, <2>1, <2>2, ProxyTypes
    <2>4. request'[r] = x
      BY <1>5, <2>3
    <2>5. /\ request' = [q \in Calls |-> request'[q]]
          /\ \A q \in Calls \ {r} : request'[q] = request[q]
      BY <2>3, ZenonT(40)
    <2> QED BY <2>4, <2>5, ProxyTypes
  <1>9. x \in X!RequestStates /\ x.phase = "answered"
    BY <1>5, <1>6 DEF X!RequestStates, X!Routes
  <1>10. Len(x.answers) = 1
    BY <1>5, <1>6
  <1>11. request' \in [Calls -> X!RequestStates] /\ X!AnsweredOnce'
    BY <1>1, <1>8, <1>9, <1>10, OneRequest, ZenonT(40)
  <1> QED BY <1>1, <1>11, ProxyTypes DEF ProxyInv, X!TypeOK, X!BoughtWithinLimit

LEMMA HandleStep ==
  ASSUME ProxyInv, NEW r \in Calls, X!Handle(r)
  PROVE  ProxyInv'
  <1>1. UNCHANGED <<server, hasKey, count, bought>>
    BY DEF X!Handle, X!Delivered, X!ConnectionCloses, X!ServiceReplies
  <1>2. CASE X!Delivered(r) \/ X!ConnectionCloses(r)
    <2>1. PICK x \in {X!Free, X!Kept} :
            request' = [request EXCEPT ![r] = x] /\ (x = X!Kept => request[r].phase = "answered")
      <3>1. CASE request' = [request EXCEPT ![r] = X!Free]
        <4>1. X!Free # X!Kept
          BY DEF X!Free, X!Kept
        <4> QED BY <3>1, <4>1
      <3>2. CASE request' # [request EXCEPT ![r] = X!Free]
        <4>1. /\ request[r].phase = "answered"
              /\ \E connection \in {X!Free, X!Kept} : request' = [request EXCEPT ![r] = connection]
          BY <1>2, <3>2 DEF X!Delivered, X!ConnectionCloses
        <4> QED BY <4>1
      <3> QED BY <3>1, <3>2
    <2>2. /\ x \in X!RequestStates /\ x.phase # "answered"
          /\ server = "down" => x.phase \in {"free", "cut"}
      BY <2>1, ProxyTypes DEF X!RequestStates, X!Free, X!Kept
    <2>3. request' \in [Calls -> X!RequestStates] /\ X!AnsweredOnce'
      BY <1>1, <2>1, <2>2, OneRequest
    <2> QED BY <1>1, <2>3, ProxyTypes DEF ProxyInv, X!TypeOK, X!BoughtWithinLimit
  <1>3. ASSUME NEW reply \in X!Replies, X!ServiceReplies(r, reply) PROVE ProxyInv'
    BY <1>3, RepliedStep
  <1> QED BY <1>2, <1>3 DEF X!Handle

(* The window, and the life of the process.                                 *)
LEMMA ProcessStep ==
  ASSUME ProxyInv, X!WindowEnds \/ X!Signal \/ X!Exit \/ X!Kill \/ X!Start \/ UNCHANGED X!vars
  PROVE  ProxyInv'
  <1>1. /\ server' \in {"up", "closing", "down"} /\ hasKey' \in BOOLEAN
        /\ count' \in 0 .. RateLimit + 1 /\ bought' \in Nat /\ bought' <= count'
        /\ bought' <= RateLimit
    BY ProxyTypes DEF X!WindowEnds, X!Signal, X!Exit, X!Kill, X!Start, X!vars
  <1>2. CASE X!Kill
    <2>1. /\ request' = [r \in Calls |-> IF request[r] \in {X!Free, X!Kept} THEN X!Free ELSE X!Cut]
          /\ X!Free \in X!RequestStates /\ X!Free.phase = "free"
          /\ X!Cut \in X!RequestStates /\ X!Cut.phase = "cut"
      BY <1>2 DEF X!Kill, X!RequestStates, X!Free, X!Cut
    <2>2. request' \in [Calls -> X!RequestStates]
      BY <2>1
    <2>3. \A r \in Calls : request'[r].phase \in {"free", "cut"}
      BY <2>1
    <2> QED BY <1>1, <2>2, <2>3
        DEF ProxyInv, X!TypeOK, X!AnsweredOnce, X!BoughtWithinLimit
  <1>3. CASE UNCHANGED request
    <2>1. CASE X!Exit
      <3>1. \A r \in Calls : request[r].phase = "free"
        BY <2>1 DEF X!Exit, X!Drained, X!Free
      <3> QED BY <1>1, <1>3, <3>1, ProxyTypes
          DEF ProxyInv, X!TypeOK, X!AnsweredOnce, X!BoughtWithinLimit
    <2>2. CASE server' = "down" => server = "down"
      BY <1>1, <1>3, <2>2, ProxyTypes
         DEF ProxyInv, X!TypeOK, X!AnsweredOnce, X!BoughtWithinLimit
    <2>3. CASE X!Kill
      BY <1>2, <2>3
    <2> QED BY <2>1, <2>2, <2>3 DEF X!WindowEnds, X!Signal, X!Start, X!vars
  <1> QED BY <1>2, <1>3 DEF X!WindowEnds, X!Signal, X!Exit, X!Start, X!vars

LEMMA ProxyStep ==
  ASSUME ProxyInv, [X!Next]_(X!vars)
  PROVE  ProxyInv'
  BY ReceiveStep, HandleStep, ProcessStep DEF X!Next

-----------------------------------------------------------------------------
(* All of them.  A step of one is a step of each, or leaves it alone.       *)
LEMMA StepOfEachPart ==
  ASSUME [MCNext]_MCVars
  PROVE  /\ [Next]_vars /\ [C!Next]_(C!vars) /\ [P!Next]_(P!vars) /\ [L!Next]_(L!vars)
         /\ [T!Next]_(T!vars) /\ [X!Next]_(X!vars) /\ [S!Next]_(S!vars)
  <1>1. UNCHANGED MCVars =>
          UNCHANGED <<vars, createVars, copilotVars, listVars, committeeVars, proxyVars, sessionVars>>
    BY DEF MCVars
  <1>2. [Next]_vars
    BY <1>1 DEF MCNext, Others
  <1>3. [C!Next]_createVars
    BY <1>1 DEF MCNext, Others
  <1>4. [P!Next]_copilotVars
    BY <1>1 DEF MCNext, Others
  <1>5. [L!Next]_listVars
    BY <1>1 DEF MCNext, Others
  <1>6. [T!Next]_committeeVars
    BY <1>1 DEF MCNext, Others
  <1>7. [X!Next]_proxyVars
    BY <1>1 DEF MCNext, Others
  <1>8. [S!Next]_sessionVars
    BY <1>1 DEF MCNext, Others
  <1> QED BY <1>2, <1>3, <1>4, <1>5, <1>6, <1>7, <1>8
      DEF createVars, copilotVars, listVars, committeeVars, proxyVars, sessionVars,
          C!vars, P!vars, L!vars, T!vars, X!vars, S!vars

LEMMA WebBegins == MCInit => WebInv
  BY TypeInit, SessionBegins, CreateBegins, CopilotBegins, ListBegins, CommitteesBegins,
     ProxyBegins
  DEF MCInit, WebInv

LEMMA WebStep == WebInv /\ [MCNext]_MCVars => WebInv'
  BY StepOfEachPart, TypeStep, SessionStep, CreateStep, CopilotStep, ListStep,
     CommitteesTabStep, ProxyStep
  DEF WebInv

LEMMA WebInductive == MCSpec => []WebInv
  BY WebBegins, WebStep, PTL DEF MCSpec

(* The types of the pages, the tabs, the session and the proxy.             *)
THEOREM WebTypeCorrect == MCSpec => []WebTypeOK
  <1>1. WebInv => WebTypeOK
    <2>1. CopilotInv => P!TypeOK
      BY DEF CopilotInv, DraftInv, FormInv, DebateInv, P!TypeOK
    <2> QED BY <2>1
        DEF WebInv, WebTypeOK, SessionInv, CreateInv, ListInv, CommitteesInv, ProxyInv
  <1> QED BY <1>1, WebInductive, PTL

(* What the DAO page sends goes to the DAO of the user who is logged in,    *)
(* signed by him, however his logins and the fetches that his pages await   *)
(* interleave (App.jsx, the query keys of the backend and the DAO).         *)
THEOREM CallsGoToOwnDao == MCSpec => []CallsAreTheUsers
  <1>1. WebInv => CallsAreTheUsers
    BY DEF WebInv, SessionInv, CallsAreTheUsers
  <1> QED BY <1>1, WebInductive, PTL

(* A DAO, and later its token, is made of one form that handleNext checked  *)
(* step by step, even if the page was left or edited meanwhile              *)
(* (CreateDaoPage.jsx).                                                     *)
THEOREM DaosOfCheckedForms == MCSpec => []DaosAreOfCheckedForms
  <1>1. WebInv => DaosAreOfCheckedForms
    BY DEF WebInv, CreateInv, DaosAreOfCheckedForms
  <1> QED BY <1>1, WebInductive, PTL

(* The page that creates a DAO says so exactly while one of its own         *)
(* handlers awaits an answer, and never two do (isCreating).                *)
THEOREM CreatingShown == MCSpec => []CreatingIsTrue
  <1>1. WebInv => CreatingIsTrue
    BY DEF WebInv, CreateInv, CreatingIsTrue
  <1> QED BY <1>1, WebInductive, PTL

(* The review of the copilot shows one draft with the committee suggested   *)
(* for it, what is submitted names no committee of another draft, and the   *)
(* sidebar's persona is one of the debate it shows (handleUseDraft,         *)
(* handleRunDebateSimulation).                                              *)
THEOREM CommitteesOfTheirProposals == MCSpec => []CommitteeIsOfTheProposal
  <1>1. WebInv => CommitteeIsOfTheProposal
    BY DEF WebInv, CopilotInv, DraftInv, FormInv, DebateInv, CommitteeIsOfTheProposal
  <1> QED BY <1>1, WebInductive, PTL

(* A save or a submission that ends throws away nothing that was typed but  *)
(* is not in it (ProposalSubmissionModal, CommitteesTab.jsx).               *)
THEOREM EditsKept == MCSpec => []NoEditIsLost
  <1>1. WebInv => NoEditIsLost
    BY DEF WebInv, ListInv, CommitteesInv, NoEditIsLost
  <1> QED BY <1>1, WebInductive, PTL

(* The proxy answers a request once, unless a kill cuts it off, and asks    *)
(* the paid service no more often in a window than the limit allows         *)
(* (server.js).                                                             *)
THEOREM ProxyAnswersWithinLimit == MCSpec => []AnsweredOnceWithinLimit
  <1>1. WebInv => AnsweredOnceWithinLimit
    BY DEF WebInv, ProxyInv, AnsweredOnceWithinLimit
  <1> QED BY <1>1, WebInductive, PTL
=============================================================================
