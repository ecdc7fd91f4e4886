------------------------------- MODULE ToolPanes -------------------------------
(***************************************************************************)
(* The panes that run one tool: BomComparePane, NetlistComparePane,        *)
(* SingleNetworkCheckPane, BomRiskPane, LegacyToolPane and SmtViewPane of  *)
(* src/frontend/src/tools.  Sources are chosen, uploaded and sent; the     *)
(* answer is shown and stored; meanwhile the sources can be changed,       *)
(* swapped or cleared and the page reloaded.  One pane is on the screen;   *)
(* what is stored is what is shown (ToolWorkspace has the delay).          *)
(*                                                                         *)
(* A path stands for the file or the history entry it was made from.  The  *)
(* upload and the run of a pane are one request, except for the            *)
(* comparison, which keeps the paths between the two.                      *)
(***************************************************************************)
EXTENDS Naturals, Sequences, FiniteSets

CONSTANTS
  BomFiles, DatFiles,
  NeededDat,      \* pstxnet.dat, for the board view pstxprt.dat
  Histories, NoPath,
  ItemOrder,      \* the findings a review can have, in their order
  FocusItems,     \* those in the focus list
  MaxRuns         \* bound: requests of one pane

VARIABLES
  pane,           \* the pane on the screen
  sources,        \* for each slot the files and the history entry chosen
  outcome,        \* the result on the screen
  spinning,       \* running, loading
  requests,       \* in flight
  lastPaths,      \* of the comparison
  board,          \* workspace.boardId: the run whose board is stored; 0 is none
  view,           \* filter and selected finding of a review
  sentRuns,       \* requests so far: the number of the next
  newest          \* the latest answered since the page loaded (history variable)

paneVars == <<pane, sources, outcome, spinning, requests, lastPaths, board, view,
              sentRuns, newest>>

PaneSlots == [compare |-> {"old", "new"}, netlist |-> {"old", "new"}, single |-> {"one"},
              risk |-> {"one"}, legacy |-> {"bom"}, smt |-> {"folder", "bom", "net"}]
ReviewPanes == {"netlist", "single"}

Items == {ItemOrder[i] : i \in 1..Len(ItemOrder)}
PaneFiles == BomFiles \cup DatFiles
Nothing == [files |-> {}, past |-> NoPath]
NoSources == [s \in PaneSlots[pane] |-> Nothing]
NoPaths == [s \in PaneSlots[pane] |-> {}]
PathSets == [PaneSlots[pane] -> SUBSET (PaneFiles \cup Histories)]

\* The history entry wins over the files.
PathsOf(chosen) ==
  [s \in DOMAIN chosen |-> IF chosen[s].past # NoPath THEN {chosen[s].past} ELSE chosen[s].files]

\* asks: the comparison wants its scope confirmed, and has a pair to suggest
NoOutcome == [status |-> "none", run |-> 0, of |-> NoPaths, asks |-> "no", items |-> {}]
Refused == [NoOutcome EXCEPT !.status = "error"]
Failed(r) == [NoOutcome EXCEPT !.status = "error", !.run = r.run, !.of = r.of]
Answers(r) ==
  {[status |-> "ok", run |-> r.run, of |-> r.of, asks |-> a, items |-> i] :
     a \in IF pane = "compare" /\ ~r.confirmed THEN {"no", "pair", "nopair"} ELSE {"no"},
     i \in IF pane \in ReviewPanes THEN SUBSET Items ELSE {{}}}

AnyView == [filter |-> "focus", chosen |-> ""]
Filters3 == {"focus", "critical", "all"}

PaneInit ==
  /\ pane \in DOMAIN PaneSlots
  /\ sources = NoSources /\ outcome = NoOutcome
  /\ spinning = FALSE /\ requests = {} /\ lastPaths = NoPaths
  /\ board = 0 /\ view = AnyView
  /\ sentRuns = 0 /\ newest = 0

-----------------------------------------------------------------------------
(* What every pane does with a request *)

\* The run button spins while a request is out and cannot be clicked.
Send(step, paths, confirmed) ==
  /\ ~spinning /\ sentRuns < MaxRuns
  /\ sentRuns' = sentRuns + 1 /\ spinning' = TRUE
  /\ requests' = requests \cup
       {[run |-> sentRuns + 1, step |-> step, of |-> paths, confirmed |-> confirmed]}
  /\ UNCHANGED <<pane, sources, board, view, newest>>

Refuse ==
  /\ ~spinning /\ outcome' = Refused
  /\ UNCHANGED <<pane, sources, spinning, requests, lastPaths, board, view, sentRuns, newest>>

\* The answer is shown whatever happened to the sources since.
Answered(r, result) ==
  /\ requests' = requests \ {r} /\ spinning' = FALSE
  /\ outcome' = result
  /\ newest' = IF r.run > newest THEN r.run ELSE newest
  /\ UNCHANGED <<pane, sources, lastPaths, sentRuns>>

\* Clearing neither calls a request back nor stops the spinner.
Cleared(v) ==
  /\ sources' = NoSources /\ outcome' = NoOutcome
  /\ lastPaths' = NoPaths /\ board' = 0 /\ view' = v
  /\ UNCHANGED <<pane, spinning, requests, sentRuns, newest>>

\* The effect of a review: the selected finding stays if the new result has it.
FirstOf(set) == LET i == CHOOSE i \in 1..Len(ItemOrder) :
                           /\ ItemOrder[i] \in set
                           /\ \A j \in 1..(i - 1) : ItemOrder[j] \notin set
                IN  ItemOrder[i]
ChosenIn(items, prev) ==
  IF prev \in items THEN prev
  ELSE IF items \cap FocusItems # {} THEN FirstOf(items \cap FocusItems)
  ELSE IF items # {} THEN FirstOf(items) ELSE ""

Choice(slot, files, past) ==
  /\ sources' = [sources EXCEPT ![slot] = [files |-> files, past |-> past]]
  /\ UNCHANGED <<pane, outcome, spinning, requests, lastPaths, board, view, sentRuns, newest>>

\* HistoryBomPicker: confirming another entry than the one before, or clearing it.
confirmSelection(slot, past) == past # sources[slot].past

-----------------------------------------------------------------------------
(* BomComparePane *)

\* SourceSelector: the file and the history entry of a slot exclude each other.
SourceSelector ==
  \E s \in PaneSlots.compare :
    \/ \E p \in Histories \cup {NoPath} :
         /\ confirmSelection(s, p)
         /\ Choice(s, IF p # NoPath THEN {} ELSE sources[s].files, p)
    \/ \E f \in BomFiles : Choice(s, {f}, NoPath)
    \/ Choice(s, {}, sources[s].past)

sourcePaths == PathsOf(sources)

\* Slip: a confirmed comparison uploads the sources chosen now.
handleCompareAnew(confirmed) ==
  IF \E s \in PaneSlots.compare : sourcePaths[s] = {} THEN Refuse
  ELSE /\ Send("upload", sourcePaths, confirmed) /\ UNCHANGED <<outcome, lastPaths>>

\* handleRun: a confirmed comparison uses the paths of the last run, or those the
\* result on the screen was made of.
handleCompare(confirmed) ==
  LET reused == IF lastPaths # NoPaths THEN lastPaths ELSE outcome.of
      reuse == confirmed /\ outcome.status = "ok"
  IN  IF ~reuse /\ \E s \in PaneSlots.compare : sourcePaths[s] = {} THEN Refuse
      ELSE /\ IF reuse THEN Send("run", reused, TRUE) /\ lastPaths' = reused
              ELSE Send("upload", sourcePaths, confirmed) /\ UNCHANGED lastPaths
           /\ UNCHANGED outcome

CompareUploaded(r) ==
  /\ r.step = "upload"
  /\ requests' = (requests \ {r}) \cup {[r EXCEPT !.step = "run"]}
  /\ lastPaths' = r.of
  /\ UNCHANGED <<pane, sources, outcome, spinning, board, view, sentRuns, newest>>

CompareAnswer(r) ==
  /\ r.step = "run" /\ (\E o \in Answers(r) : Answered(r, o))
  /\ UNCHANGED <<board, view>>

\* Slip: clearing also stops the spinner.
clearAllStops ==
  /\ sources' = NoSources /\ outcome' = NoOutcome /\ spinning' = FALSE
  /\ lastPaths' = NoPaths /\ board' = 0 /\ view' = AnyView
  /\ UNCHANGED <<pane, requests, sentRuns, newest>>

clearAll == Cleared(AnyView)

swapSources ==
  /\ sources' = [old |-> sources.new, new |-> sources.old]
  /\ outcome' = NoOutcome /\ lastPaths' = NoPaths
  /\ UNCHANGED <<pane, spinning, requests, board, view, sentRuns, newest>>

\* The confirmation is shown for a result that asks and has a pair; else the way back.
ScopeConfirmation ==
  \/ outcome.asks = "pair" /\ handleCompare(TRUE)
  \/ outcome.asks # "no" /\ clearAll

ComparePane ==
  /\ pane = "compare"
  /\ \/ SourceSelector \/ handleCompare(FALSE) \/ ScopeConfirmation \/ clearAll \/ swapSources
     \/ \E r \in requests : CompareUploaded(r) \/ CompareAnswer(r)

-----------------------------------------------------------------------------
(* NetlistComparePane and SingleNetworkCheckPane *)

\* A file of the same name and size as one in the slot is dropped.
NetlistUploadSlot ==
  \E s \in PaneSlots.netlist :
    \/ \E d \in SUBSET DatFiles : Choice(s, sources[s].files \cup d, NoPath)
    \/ \E f \in sources[s].files : Choice(s, sources[s].files \ {f}, NoPath)

SingleUploadSlot ==
  \/ \E d \in SUBSET DatFiles : Choice("one", sources["one"].files \cup d, NoPath)
  \/ \E f \in sources["one"].files : Choice("one", sources["one"].files \ {f}, NoPath)

\* The findings that are critical are here those of the focus list.
visibleItems == IF view.filter = "all" THEN outcome.items ELSE outcome.items \cap FocusItems

NetlistRun ==
  IF \E s \in PaneSlots.netlist : NeededDat \notin sources[s].files THEN Refuse
  ELSE Send("run", PathsOf(sources), FALSE) /\ UNCHANGED <<outcome, lastPaths>>

SingleRun ==
  IF NeededDat \notin sources["one"].files THEN Refuse
  ELSE Send("run", PathsOf(sources), FALSE) /\ UNCHANGED <<outcome, lastPaths>>

\* The effect of the new review follows the answer.
NetlistAnswer(r) ==
  /\ \E o \in Answers(r) :
       /\ Answered(r, o)
       /\ view' = [filter |-> "focus", chosen |-> ChosenIn(o.items, view.chosen)]
  /\ UNCHANGED board

SingleAnswer(r) ==
  /\ \E o \in Answers(r) :
       /\ Answered(r, o)
       /\ view' = [filter |-> "focus", chosen |-> ChosenIn(o.items, view.chosen)]
  /\ UNCHANGED board

Look(v) == /\ outcome.status = "ok" /\ view' = v
           /\ UNCHANGED <<pane, sources, outcome, spinning, requests, lastPaths, board,
                          sentRuns, newest>>

\* The rail and the table of the findings that pass the filter.
NetlistReview ==
  \/ \E f \in Filters3 : Look([view EXCEPT !.filter = f])
  \/ \E i \in visibleItems : Look([view EXCEPT !.chosen = i])

SingleReview ==
  \/ \E f \in Filters3 : Look([view EXCEPT !.filter = f])
  \/ \E i \in visibleItems : Look([view EXCEPT !.chosen = i])

NetlistClear == Cleared(AnyView)

\* The filter and the selected finding stay.
SingleClear == Cleared(view)

NetlistPane == /\ pane = "netlist"
               /\ \/ NetlistUploadSlot \/ NetlistRun \/ NetlistReview \/ NetlistClear
                  \/ \E r \in requests : NetlistAnswer(r)
SinglePane == /\ pane = "single"
              /\ \/ SingleUploadSlot \/ SingleRun \/ SingleReview \/ SingleClear
                 \/ \E r \in requests : SingleAnswer(r)

-----------------------------------------------------------------------------
(* BomRiskPane and LegacyToolPane *)

\* The file wins; choosing in the picker, also nothing, drops it.
RiskInspect ==
  LET one == sources["one"]
      paths == IF one.files # {} THEN one.files ELSE {one.past} \ {NoPath}
  IN  /\ paths # {} /\ Send("run", [s \in {"one"} |-> paths], FALSE)
      /\ UNCHANGED <<outcome, lastPaths>>

RiskSource ==
  \/ \E p \in Histories \cup {NoPath} : confirmSelection("one", p) /\ Choice("one", {}, p)
  \/ \E f \in BomFiles : Choice("one", {f}, NoPath)
  \/ Choice("one", {}, sources["one"].past)

RiskClear == Cleared(AnyView)

\* handleRun: no input is required.
LegacyRun == Send("run", PathsOf(sources), FALSE) /\ UNCHANGED <<outcome, lastPaths>>

\* Files and the history entry of an input are kept side by side.
LegacyInputs ==
  \/ \E p \in Histories \cup {NoPath} :
       confirmSelection("bom", p) /\ Choice("bom", sources["bom"].files, p)
  \/ \E f \in BomFiles : Choice("bom", sources["bom"].files \cup {f}, sources["bom"].past)
  \/ \E f \in sources["bom"].files :
       Choice("bom", sources["bom"].files \ {f}, sources["bom"].past)

LegacyClear == Cleared(AnyView)

OneAnswer(r) == (\E o \in Answers(r) : Answered(r, o)) /\ UNCHANGED <<board, view>>

RiskPane == /\ pane = "risk"
            /\ \/ RiskSource \/ RiskInspect \/ RiskClear
               \/ \E r \in requests : OneAnswer(r)
LegacyPane == /\ pane = "legacy"
              /\ \/ LegacyInputs \/ LegacyRun \/ LegacyClear
                 \/ \E r \in requests : OneAnswer(r)

-----------------------------------------------------------------------------
(* SmtViewPane *)

\* The source panel is there as long as no board is.
SmtSources ==
  /\ outcome.status # "ok"
  /\ \/ \E d \in {{}, DatFiles} : Choice("folder", d, NoPath)
     \/ \E d \in SUBSET DatFiles : Choice("net", d, NoPath)
     \/ \E p \in Histories \cup {NoPath} :
          /\ confirmSelection("bom", p)
          /\ Choice("bom", IF p # NoPath THEN {} ELSE sources["bom"].files, p)
     \/ \E f \in BomFiles : Choice("bom", {f}, NoPath)

\* run: what is missing is only announced.
SmtRun ==
  /\ outcome.status # "ok"
  /\ sources["folder"].files # {} /\ PathsOf(sources)["bom"] # {}
  /\ sources["net"].files # {} => NeededDat \in sources["net"].files
  /\ Send("run", PathsOf(sources), FALSE)
  /\ outcome' = NoOutcome /\ UNCHANGED lastPaths

SmtAnswer(r) ==
  /\ r.step = "run" /\ (\E o \in Answers(r) : Answered(r, o))
  /\ board' = r.run /\ UNCHANGED view

\* The effect that fetches the stored board again; without it the workspace is reset.
SmtRestored(r) ==
  /\ r.step = "restore"
  /\ \/ (\E o \in Answers(r) : Answered(r, o)) /\ UNCHANGED board
     \/ Answered(r, outcome) /\ board' = 0
  /\ UNCHANGED view

SmtClear == Cleared(AnyView)

SmtPane == /\ pane = "smt"
           /\ \/ SmtSources \/ SmtRun \/ SmtClear
              \/ \E r \in requests : SmtAnswer(r) \/ SmtRestored(r)

-----------------------------------------------------------------------------
\* A request that fails, at either step; the board view keeps its workspace.
PaneFailure ==
  \E r \in requests :
    r.step # "restore" /\ Answered(r, Failed(r)) /\ UNCHANGED <<board, view>>

\* A reload: history entries and the result come back, the result unless it was too
\* large to be kept; files do not.  The board view asks for its board again.
PaneReload ==
  /\ sources' = IF pane = "smt" THEN NoSources
                ELSE [s \in DOMAIN sources |-> [files |-> {}, past |-> sources[s].past]]
  /\ outcome' \in IF pane = "smt" THEN {NoOutcome} ELSE {outcome, NoOutcome}
  /\ view' = IF outcome'.status = "ok"
             THEN [view EXCEPT !.chosen = ChosenIn(outcome'.items, @)] ELSE view
  /\ requests' = IF board # 0 THEN {[run |-> board, step |-> "restore", of |-> NoPaths,
                                     confirmed |-> FALSE]} ELSE {}
  /\ spinning' = (board # 0) /\ newest' = 0 /\ lastPaths' = NoPaths
  /\ UNCHANGED <<pane, board, sentRuns>>

PaneNext == \/ ComparePane \/ NetlistPane \/ SinglePane \/ RiskPane \/ LegacyPane \/ SmtPane
            \/ PaneFailure \/ PaneReload

PaneSpec == PaneInit /\ [][PaneNext]_paneVars

-----------------------------------------------------------------------------
(* Properties *)

Requests == [run : 1..MaxRuns, step : {"upload", "run", "restore"}, of : PathSets,
             confirmed : BOOLEAN]

PaneTypeOK ==
  /\ pane \in DOMAIN PaneSlots
  /\ sources \in [PaneSlots[pane] -> [files : SUBSET PaneFiles, past : Histories \cup {NoPath}]]
  /\ outcome \in [status : {"none", "error", "ok"}, run : 0..MaxRuns, of : PathSets,
                  asks : {"no", "pair", "nopair"}, items : SUBSET Items]
  /\ spinning \in BOOLEAN
  /\ requests \subseteq Requests
  /\ lastPaths \in PathSets
  /\ board \in 0..MaxRuns
  /\ view \in [filter : Filters3, chosen : Items \cup {""}]
  /\ sentRuns \in 0..MaxRuns /\ newest \in 0..MaxRuns

\* An answer never replaces that of a later request: clearing, swapping and changing the
\* sources leave the spinner of the one in flight (BomComparePane.tsx:502, :514,
\* NetlistComparePane.tsx:243, BomRiskPane.tsx:46, SmtViewPane.tsx:103).
AnswersInOrder == outcome.run # 0 => outcome.run >= newest

\* A comparison sent as confirmed is of the files whose parents the user was shown,
\* whatever was chosen, swapped or reloaded since (BomComparePane.tsx:480).
ConfirmsWhatIsShown ==
  [][\A r \in requests' \ requests : r.confirmed => r.of = outcome.of]_paneVars
=============================================================================
