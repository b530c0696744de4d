\* The canister: two calls under way, an id of the generated form that callers
\* pick, upgrades.  The screens: two proposals, two handlers, other users.
SPECIFICATION MCSpec
CONSTANTS
  Texts = {t1, t2}
  Chosen <- MCChosen
  Jobs = {j1, j2}
  MaxRetries = 3
  MaxCounter = 4
  Upgrades = TRUE
  Proposals = {p1, p2}
  Popular = {p1}
  MaxCalls = 2
INVARIANTS TypeOK AnalyzingHasACall AnalysisIsOfTheText OneHandler ShownIsOfSelectedOnSnsPage
PROPERTIES GeneratedIdsAreNew AnalysesEnd
CHECK_DEADLOCK FALSE
