------------------------------ MODULE MCAnalysis ------------------------------
(* Small instances of the two ends of an analysis: the analyzer canister,    *)
(* and the screens of the web application that ask it.  A behaviour is one   *)
(* of one of them, the other being at rest.                                  *)
EXTENDS ProposalAnalyzer

CONSTANTS Proposals, Popular, MaxCalls

VARIABLES
  part, \* the part that runs
  screen, selected, analyzedId, exists, fetched, call, canister, switched

P == INSTANCE AnalysisPanel

ASSUME AnalysisAssumption == P!PanelAssumption

panelVars == <<screen, selected, analyzedId, exists, fetched, call, canister, switched>>
MCVars == <<part, vars, panelVars>>

MCChosen == {3}

MCInit ==
  /\ part \in {"analyzer", "panel"}
  /\ Init /\ P!Init
  /\ part = "analyzer" => screen = "sns_page"

MCNext ==
  /\ UNCHANGED part
  /\ \/ part = "analyzer" /\ Next /\ UNCHANGED panelVars
     \/ part = "panel" /\ P!Next /\ UNCHANGED vars

(* What is at rest has nothing that fairness could ask of it.                *)
MCSpec == MCInit /\ [][MCNext]_MCVars /\ P!Fairness /\ \A j \in Jobs : WF_vars(Answer(j))

(* AnalysisPanel: types, and one handler of a screen under way at a time.    *)
OneHandler == P!TypeOK /\ P!OneHandler

(* AnalysisPanel: a failure and results that the SNS page shows are the      *)
(* selected proposal's, unless another was selected during a handler.        *)
ShownIsOfSelectedOnSnsPage == P!ShownIsOfSelectedOnSnsPage

(* Both: every analysis ends, and so does the spinner that waits for it,     *)
(* whatever fails.                                                           *)
AnalysesEnd == EveryAnalysisEnds /\ P!SpinnerEnds
=============================================================================
