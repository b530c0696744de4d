\* Each of seven parts by itself: two handlers at a time where its module has them.
SPECIFICATION MCSpec
CONSTANTS
  Assets = {"icp", "btc"}
  Recipients = {r1}
  MaxAmount = 1
  Calls = {k1, k2}
  MaxAbandoned = 1
  Names = {n1}
  Chains = {c1}
  MaxMembers = 2
  MaxDaos = 1
  Drafts = {d1, d2}
  Committees = {m1}
  MaxPersonas = 2
  Submissions = {k1}
  Texts = {t1}
  MaxProposals = 1
  MaxCommittees = 2
  RateLimit = 2
  Users = {u1, u2}
INVARIANTS WebTypeOK SendingIsTrue RecipientIsOfTheAsset DaosAreOfCheckedForms CreatingIsTrue
INVARIANTS CommitteeIsOfTheProposal NoEditIsLost AnsweredOnceWithinLimit CallsAreTheUsers
PROPERTY WaitsEnd
CHECK_DEADLOCK FALSE
