---------------------------- MODULE ToolPanesProofs ----------------------------
(***************************************************************************)
(* The answers of a pane are shown in the order its requests were sent,    *)
(* and a confirmed comparison is of what is shown, for any files, findings *)
(* and number of requests.                                                 *)
(***************************************************************************)
EXTENDS ToolPanes, TLAPS

\* A pane has one request in flight at most, and spins as long as it has one.
OneRequest ==
  /\ requests # {} => spinning
  /\ \A r, q \in requests : r = q

\* Requests are numbered as they are sent; the one in flight is the latest, or the board
\* asked for again after a reload.
Numbered ==
  /\ sentRuns \in Nat /\ newest \in 0..sentRuns /\ board \in 0..sentRuns
  /\ outcome.run \in 0..sentRuns
  /\ \A r \in requests :
       /\ r = [run |-> r.run, step |-> r.step, of |-> r.of, confirmed |-> r.confirmed]
       /\ r.run \in newest..sentRuns
       /\ r.step = "restore" => outcome.run = 0 /\ ~r.confirmed

\* Only the board view asks for a board again, only the comparison for a confirmation.
\* Its last paths are those of its run in flight, or of the result on the screen.
PathsKept ==
  /\ board # 0 => pane = "smt"
  /\ outcome.asks # "no" => outcome.status = "ok"
  /\ \A r \in requests :
       /\ r.step = "restore" => pane = "smt"
       /\ r.confirmed => r.step = "run"
       /\ r.step = "run" /\ pane = "compare" => lastPaths \in {NoPaths, r.of}
  /\ pane = "compare" /\ requests = {} /\ outcome.status = "ok" =>
       lastPaths \in {NoPaths, outcome.of}

PaneInv == OneRequest /\ Numbered /\ PathsKept /\ AnswersInOrder

-----------------------------------------------------------------------------
(* What the steps of the six panes have in common *)

Quiet == UNCHANGED <<pane, outcome, spinning, requests, lastPaths, board, sentRuns, newest>>

Sent ==
  \E step, confirmed, paths :
    /\ step \in {"upload", "run"} /\ confirmed \in BOOLEAN
    /\ Send(step, paths, confirmed)
    /\ outcome' = outcome \/ (outcome' = NoOutcome /\ ~confirmed)
    /\ IF pane = "compare" /\ step = "run" THEN lastPaths' = paths ELSE lastPaths' = lastPaths
    /\ confirmed => step = "run" /\ paths = outcome.of

Emptied ==
  /\ outcome' = NoOutcome /\ lastPaths' = NoPaths /\ board' \in {board, 0}
  /\ UNCHANGED <<pane, spinning, requests, sentRuns, newest>>

\* An answer, or what stands for one when the request fails.
Shown(r) ==
  /\ r \in requests
  /\ \E o \in Answers(r) \cup {Failed(r)} \cup (IF r.step = "restore" THEN {outcome} ELSE {}) :
       /\ Answered(r, o)
       /\ pane = "compare" => r.step = "run" \/ o = Failed(r)
  /\ board' \in {board, 0} \/ (board' = r.run /\ pane = "smt")

\* The outcomes that are of no request say so.
LEMMA Outcomes ==
  /\ NoOutcome.run = 0 /\ NoOutcome.status = "none" /\ NoOutcome.asks = "no" /\ NoOutcome.of = NoPaths
  /\ Refused.run = 0 /\ Refused.status = "error" /\ Refused.asks = "no"
BY DEF NoOutcome, Refused

\* An answer, or a failure, is of the request it answers.
LEMMA AnswerFields ==
  ASSUME NEW r, NEW o \in Answers(r) \cup {Failed(r)}
  PROVE  /\ o.run = r.run /\ o.of = r.of /\ o.status \in {"ok", "error"}
         /\ o.asks # "no" => o.status = "ok"
<1>1. CASE o \in Answers(r)
  BY <1>1 DEF Answers
<1>2. CASE o = Failed(r)
  BY <1>2 DEF Failed, NoOutcome
<1> QED BY <1>1, <1>2

-----------------------------------------------------------------------------
(* Each of them keeps the invariant *)

\* A step that touches neither requests nor results keeps the invariant.
LEMMA QuietKeeps == PaneInv /\ Quiet => PaneInv'
BY DEF PaneInv, OneRequest, Numbered, PathsKept, AnswersInOrder, Quiet, NoPaths

\* A refusal on the page keeps the invariant.
LEMMA RefuseKeeps == PaneInv /\ Refuse => PaneInv'
<1> SUFFICES ASSUME PaneInv, Refuse PROVE PaneInv'
  OBVIOUS
<1>1. outcome' = Refused /\ UNCHANGED <<pane, spinning, requests, lastPaths, board, sentRuns, newest>>
  BY DEF Refuse
<1>2. outcome'.run = 0 /\ outcome'.status = "error" /\ outcome'.asks = "no"
  BY <1>1, Outcomes
<1>3. requests = {}
  BY DEF PaneInv, OneRequest, Refuse
<1> QED BY <1>1, <1>2, <1>3 DEF PaneInv, OneRequest, Numbered, PathsKept, AnswersInOrder

\* A request that is sent keeps the invariant.
LEMMA SentKeeps == PaneInv /\ Sent => PaneInv'
<1> SUFFICES ASSUME PaneInv, Sent PROVE PaneInv'
  OBVIOUS
<1>1. PICK step, confirmed, paths :
        /\ step \in {"upload", "run"} /\ confirmed \in BOOLEAN
        /\ Send(step, paths, confirmed)
        /\ outcome' = outcome \/ (outcome' = NoOutcome /\ ~confirmed)
        /\ IF pane = "compare" /\ step = "run" THEN lastPaths' = paths ELSE lastPaths' = lastPaths
        /\ confirmed => step = "run" /\ paths = outcome.of
  BY DEF Sent
<1> DEFINE new == [run |-> sentRuns + 1, step |-> step, of |-> paths, confirmed |-> confirmed]
<1>2. requests = {} /\ requests' = {new} /\ spinning' = TRUE /\ sentRuns' = sentRuns + 1
  BY <1>1 DEF Send, PaneInv, OneRequest
<1>3. UNCHANGED <<pane, board, newest>>
  BY <1>1 DEF Send
<1>4. /\ outcome'.run \in 0..sentRuns /\ outcome'.run \in {outcome.run, 0}
      /\ outcome'.asks # "no" => outcome'.status = "ok"
  BY <1>1, Outcomes DEF PaneInv, Numbered, PathsKept
<1>5. new.run = sentRuns + 1 /\ new.step = step /\ new.of = paths /\ new.confirmed = confirmed
  OBVIOUS
<1>6. OneRequest'
  BY <1>2 DEF OneRequest
<1>7. Numbered'
  <2>1. /\ new = [run |-> new.run, step |-> new.step, of |-> new.of, confirmed |-> new.confirmed]
        /\ new.step # "restore"
    BY <1>1
  <2>2. sentRuns \in Nat /\ newest \in 0..sentRuns /\ board \in 0..sentRuns
    BY DEF PaneInv, Numbered
  <2>3. new.run \in newest'..sentRuns' /\ newest' \in 0..sentRuns' /\ board' \in 0..sentRuns'
    BY <1>2, <1>3, <1>5, <2>2
  <2> HIDE DEF new
  <2>4. sentRuns' \in Nat /\ outcome'.run \in 0..sentRuns'
    BY <1>2, <1>4, <2>2
  <2> QED BY <1>2, <2>1, <2>3, <2>4 DEF Numbered
<1>8. PathsKept'
  <2>1. step = "run" /\ pane = "compare" => lastPaths' = new.of
    BY <1>1, <1>5
  <2>2. requests' # {}
    BY <1>2
  <2> QED BY <1>1, <1>2, <1>3, <1>4, <1>5, <2>1, <2>2 DEF PathsKept, PaneInv
<1>9. AnswersInOrder'
  BY <1>3, <1>4 DEF PaneInv, AnswersInOrder, Numbered
<1> QED BY <1>6, <1>7, <1>8, <1>9 DEF PaneInv

\* The upload before a comparison keeps the invariant.
LEMMA UploadedKeeps ==
  ASSUME PaneInv, NEW r \in requests, CompareUploaded(r), pane = "compare" PROVE PaneInv'
<1> DEFINE next == [r EXCEPT !.step = "run"]
<1>1. requests' = {next} /\ spinning
  BY DEF CompareUploaded, PaneInv, OneRequest
<1>2. lastPaths' = r.of /\ UNCHANGED <<pane, outcome, spinning, board, sentRuns, newest>>
  BY DEF CompareUploaded
<1>3. r = [run |-> r.run, step |-> r.step, of |-> r.of, confirmed |-> r.confirmed]
  BY DEF PaneInv, Numbered
<1>4. /\ next.run = r.run /\ next.step = "run" /\ next.of = r.of /\ next.confirmed = r.confirmed
      /\ next = [run |-> r.run, step |-> "run", of |-> r.of, confirmed |-> r.confirmed]
  BY <1>3
<1> HIDE DEF next
<1>5. OneRequest'
  BY <1>1, <1>2 DEF OneRequest
<1>6. Numbered'
  <2>1. r.run \in newest..sentRuns
    BY DEF PaneInv, Numbered
  <2> QED BY <1>1, <1>2, <1>4, <2>1 DEF Numbered, PaneInv
<1>7. PathsKept'
  BY <1>1, <1>2, <1>4 DEF PathsKept, PaneInv
<1>8. AnswersInOrder'
  BY <1>2 DEF PaneInv, AnswersInOrder
<1> QED BY <1>5, <1>6, <1>7, <1>8 DEF PaneInv

\* An answer that is shown keeps the invariant.
LEMMA ShownKeeps == ASSUME PaneInv, NEW r, Shown(r) PROVE PaneInv'
<1>1. PICK o \in Answers(r) \cup {Failed(r)} \cup (IF r.step = "restore" THEN {outcome} ELSE {}) :
        /\ Answered(r, o)
        /\ pane = "compare" => r.step = "run" \/ o = Failed(r)
  BY DEF Shown
<1>2. /\ r \in requests /\ r.run \in newest..sentRuns /\ sentRuns \in Nat /\ newest \in 0..sentRuns
      /\ r.step = "restore" => outcome.run = 0 /\ pane = "smt"
  BY DEF Shown, PaneInv, Numbered, PathsKept
<1>3. requests' = {}
  BY <1>1, <1>2 DEF Answered, PaneInv, OneRequest
<1>4. outcome' = o /\ UNCHANGED <<pane, lastPaths, sentRuns>>
  BY <1>1 DEF Answered
<1>5. newest' = IF r.run > newest THEN r.run ELSE newest
  BY <1>1 DEF Answered
<1>6. newest' = r.run
  BY <1>2, <1>5
<1>7. o.run = r.run \/ o.run = 0
  BY <1>1, <1>2, AnswerFields
<1>8. board' \in 0..sentRuns /\ (board' # 0 => pane = "smt")
  BY <1>2 DEF Shown, PaneInv, Numbered, PathsKept
<1>9. o.asks # "no" => o.status = "ok"
  BY <1>1, AnswerFields DEF PaneInv, PathsKept
<1>10. OneRequest'
  BY <1>3 DEF OneRequest
<1>11. Numbered'
  BY <1>2, <1>3, <1>4, <1>6, <1>7, <1>8 DEF Numbered
<1>12. PathsKept'
  <2>1. CASE pane # "compare"
    BY <1>3, <1>4, <1>8, <1>9, <2>1 DEF PathsKept
  <2>2. CASE pane = "compare"
    <3>1. o.status = "ok" => o.of = r.of /\ r.step = "run"
      <4>1. o = Failed(r) => o.status = "error"
        BY DEF Failed, NoOutcome
      <4>2. o \in Answers(r) \cup {Failed(r)}
        BY <1>1, <1>2, <2>2
      <4> QED BY <1>1, <1>2, <2>2, <4>1, <4>2, AnswerFields
    <3>2. r.step = "run" => lastPaths \in {NoPaths, r.of}
      BY <1>2, <2>2 DEF PaneInv, PathsKept
    <3>3. NoPaths' = NoPaths
      BY <1>4 DEF NoPaths
    <3> QED BY <1>3, <1>4, <1>8, <1>9, <2>2, <3>1, <3>2, <3>3 DEF PathsKept
  <2> QED BY <2>1, <2>2
<1>13. AnswersInOrder'
  BY <1>4, <1>6, <1>7, <1>2 DEF AnswersInOrder
<1> QED BY <1>10, <1>11, <1>12, <1>13 DEF PaneInv

\* A pane that is emptied keeps the invariant.
LEMMA EmptiedKeeps == PaneInv /\ Emptied => PaneInv'
<1> SUFFICES ASSUME PaneInv, Emptied PROVE PaneInv'
  OBVIOUS
<1>1. /\ outcome'.run = 0 /\ outcome'.status = "none" /\ outcome'.asks = "no"
      /\ lastPaths' = NoPaths /\ board' \in {board, 0}
      /\ UNCHANGED <<pane, spinning, requests, sentRuns, newest>>
  BY Outcomes DEF Emptied
<1>2. NoPaths' = NoPaths
  BY <1>1 DEF NoPaths
<1> QED BY <1>1, <1>2 DEF PaneInv, OneRequest, Numbered, PathsKept, AnswersInOrder

\* A reload keeps the invariant.
LEMMA ReloadKeeps == PaneInv /\ PaneReload => PaneInv'
<1> SUFFICES ASSUME PaneInv, PaneReload PROVE PaneInv'
  OBVIOUS
<1> DEFINE again == [run |-> board, step |-> "restore", of |-> NoPaths, confirmed |-> FALSE]
<1>1. /\ spinning' = (board # 0) /\ newest' = 0 /\ lastPaths' = NoPaths
      /\ UNCHANGED <<pane, board, sentRuns>>
      /\ requests' = IF board # 0 THEN {again} ELSE {}
      /\ outcome' \in IF pane = "smt" THEN {NoOutcome} ELSE {outcome, NoOutcome}
  BY DEF PaneReload
<1>2. /\ outcome'.run \in 0..sentRuns /\ (outcome'.asks # "no" => outcome'.status = "ok")
      /\ pane = "smt" => outcome'.run = 0
  BY <1>1, Outcomes DEF PaneInv, Numbered, PathsKept
<1>3. again.run = board /\ again.step = "restore" /\ again.confirmed = FALSE /\ again.of = NoPaths
  OBVIOUS
<1>4. board # 0 => pane = "smt"
  BY DEF PaneInv, PathsKept
<1>5. NoPaths' = NoPaths
  BY <1>1 DEF NoPaths
<1> HIDE DEF again
<1>6. OneRequest'
  BY <1>1 DEF OneRequest
<1>7. Numbered'
  <2>1. sentRuns \in Nat /\ board \in 0..sentRuns
    BY DEF PaneInv, Numbered
  <2>2. CASE board # 0
    <3>1. again = [run |-> again.run, step |-> again.step, of |-> again.of, confirmed |-> again.confirmed]
      BY DEF again
    <3> QED BY <1>1, <1>2, <1>3, <1>4, <2>1, <2>2, <3>1 DEF Numbered
  <2>3. CASE board = 0
    BY <1>1, <1>2, <2>1, <2>3 DEF Numbered
  <2> QED BY <2>2, <2>3
<1>8. PathsKept'
  BY <1>1, <1>2, <1>3, <1>4, <1>5 DEF PathsKept
<1>9. AnswersInOrder'
  BY <1>1, <1>2 DEF AnswersInOrder, PaneInv, Numbered
<1> QED BY <1>6, <1>7, <1>8, <1>9 DEF PaneInv

-----------------------------------------------------------------------------
(* Every step is one of them *)

\* Choosing files touches neither requests nor results.
LEMMA Choices ==
  ASSUME NEW slot, NEW files, NEW past, Choice(slot, files, past) PROVE Quiet
BY DEF Choice, Quiet

\* Neither does looking at a result.
LEMMA Looks == ASSUME NEW v, Look(v) PROVE Quiet
BY DEF Look, Quiet

\* Clearing empties the pane.
LEMMA Clears == ASSUME NEW v, Cleared(v) PROVE Emptied
BY DEF Cleared, Emptied

\* A request that is sent at once, without a confirmation.
LEMMA SentAtOnce ==
  ASSUME PaneInv, pane # "compare", NEW paths, Send("run", paths, FALSE),
         outcome' \in {outcome, NoOutcome}, lastPaths' = lastPaths
  PROVE  Sent
BY DEF Sent

\* An answer that sets the outcome and nothing else is shown.
LEMMA AnswerIsShown ==
  ASSUME PaneInv, NEW r \in requests, NEW o \in Answers(r), Answered(r, o),
         pane # "compare" \/ r.step = "run", UNCHANGED board
  PROVE  Shown(r)
BY DEF Shown

\* The kinds of the steps of the comparison.
LEMMA CompareSteps ==
  ASSUME PaneInv, ComparePane
  PROVE  \/ Quiet \/ Refuse \/ Sent \/ Emptied
         \/ \E r \in requests : CompareUploaded(r) \/ Shown(r)
<1> USE DEF ComparePane
<1>1. CASE SourceSelector
  BY <1>1, Choices DEF SourceSelector
<1>2. ASSUME NEW confirmed \in BOOLEAN, handleCompare(confirmed),
             confirmed => outcome.status = "ok"
      PROVE  Refuse \/ Sent
  <2>1. CASE confirmed
    <3> DEFINE reused == IF lastPaths # NoPaths THEN lastPaths ELSE outcome.of
    <3>1. Send("run", reused, TRUE) /\ lastPaths' = reused /\ outcome' = outcome
      BY <1>2, <2>1 DEF handleCompare
    <3>2. requests = {}
      BY <3>1 DEF Send, PaneInv, OneRequest
    <3>3. reused = outcome.of
      BY <1>2, <2>1, <3>2 DEF PaneInv, PathsKept
    <3> QED BY <3>1, <3>3 DEF Sent
  <2>2. CASE ~confirmed /\ ~Refuse
    <3>1. Send("upload", sourcePaths, FALSE) /\ UNCHANGED <<lastPaths, outcome>>
      BY <1>2, <2>2 DEF handleCompare
    <3> QED BY <3>1 DEF Sent, sourcePaths
  <2> QED BY <2>1, <2>2
<1>3. CASE ScopeConfirmation
  <2>1. CASE outcome.asks = "pair" /\ handleCompare(TRUE)
    BY <1>2, <2>1 DEF PaneInv, PathsKept
  <2>2. CASE clearAll
    BY <2>2, Clears DEF clearAll
  <2> QED BY <1>3, <2>1, <2>2 DEF ScopeConfirmation
<1>4. CASE clearAll
  BY <1>4, Clears DEF clearAll
<1>5. CASE swapSources
  BY <1>5 DEF swapSources, Emptied
<1>6. ASSUME NEW r \in requests, CompareAnswer(r) PROVE Shown(r)
  <2>1. PICK o \in Answers(r) : Answered(r, o)
    BY <1>6 DEF CompareAnswer
  <2> QED BY <1>6, <2>1, AnswerIsShown DEF CompareAnswer
<1>7. handleCompare(FALSE) => Refuse \/ Sent
  BY <1>2
<1> QED BY <1>1, <1>3, <1>4, <1>5, <1>6, <1>7

\* The kinds of the steps of the two netlist panes.
LEMMA ReviewSteps ==
  ASSUME PaneInv, NetlistPane \/ SinglePane
  PROVE  \/ Quiet \/ Refuse \/ Sent \/ Emptied \/ \E r \in requests : Shown(r)
<1>1. CASE NetlistUploadSlot \/ SingleUploadSlot
  BY <1>1, Choices DEF NetlistUploadSlot, SingleUploadSlot
<1>2. CASE pane # "compare" /\ (NetlistRun \/ SingleRun)
  BY <1>2, SentAtOnce DEF NetlistRun, SingleRun
<1>3. CASE NetlistReview \/ SingleReview
  BY <1>3, Looks DEF NetlistReview, SingleReview
<1>4. CASE NetlistClear \/ SingleClear
  BY <1>4, Clears DEF NetlistClear, SingleClear
<1>5. ASSUME NEW r \in requests, NetlistAnswer(r) \/ SingleAnswer(r), pane # "compare"
      PROVE  Shown(r)
  <2>1. (\E o \in Answers(r) : Answered(r, o)) /\ UNCHANGED board
    BY <1>5 DEF NetlistAnswer, SingleAnswer
  <2>2. PICK o \in Answers(r) : Answered(r, o)
    BY <2>1
  <2> QED BY <1>5, <2>1, <2>2, AnswerIsShown
<1> QED BY <1>1, <1>2, <1>3, <1>4, <1>5 DEF NetlistPane, SinglePane

\* The kinds of the steps of the remaining panes.
LEMMA OtherSteps ==
  ASSUME PaneInv, RiskPane \/ LegacyPane \/ SmtPane
  PROVE  \/ Quiet \/ Sent \/ Emptied \/ \E r \in requests : Shown(r)
<1>1. CASE RiskSource \/ LegacyInputs \/ SmtSources
  BY <1>1, Choices DEF RiskSource, LegacyInputs, SmtSources
<1>2. CASE pane # "compare" /\ (RiskInspect \/ LegacyRun \/ SmtRun)
  <2>1. \E paths : Send("run", paths, FALSE)
    BY <1>2 DEF RiskInspect, LegacyRun, SmtRun
  <2>2. outcome' \in {outcome, NoOutcome} /\ lastPaths' = lastPaths
    BY <1>2 DEF RiskInspect, LegacyRun, SmtRun
  <2> QED BY <1>2, <2>1, <2>2, SentAtOnce
<1>3. CASE RiskClear \/ LegacyClear \/ SmtClear
  BY <1>3, Clears DEF RiskClear, LegacyClear, SmtClear
<1>4. ASSUME NEW r \in requests, OneAnswer(r), pane # "compare" PROVE Shown(r)
  <2>1. PICK o \in Answers(r) : Answered(r, o)
    BY <1>4 DEF OneAnswer
  <2> QED BY <1>4, <2>1, AnswerIsShown DEF OneAnswer
<1>5. ASSUME NEW r \in requests, SmtAnswer(r), pane = "smt" PROVE Shown(r)
  <2>1. PICK o \in Answers(r) : Answered(r, o)
    BY <1>5 DEF SmtAnswer
  <2> QED BY <1>5, <2>1 DEF SmtAnswer, Shown
<1>6. ASSUME NEW r \in requests, SmtRestored(r), pane = "smt" PROVE Shown(r)
  <2>1. PICK o \in Answers(r) \cup {outcome} : Answered(r, o)
    BY <1>6 DEF SmtRestored
  <2> QED BY <1>6, <2>1 DEF SmtRestored, Shown
<1> QED
  BY <1>1, <1>2, <1>3, <1>4, <1>5, <1>6 DEF RiskPane, LegacyPane, SmtPane

\* A pane opens empty, with no request in flight.
LEMMA PaneInitial == PaneInit => PaneInv
<1> SUFFICES ASSUME PaneInit PROVE PaneInv
  OBVIOUS
<1>1. outcome.run = 0 /\ outcome.asks = "no" /\ outcome.status = "none"
  BY Outcomes DEF PaneInit
<1> QED
  BY <1>1 DEF PaneInit, PaneInv, OneRequest, Numbered, PathsKept, AnswersInOrder

\* The invariant is inductive.
LEMMA PaneInductive == PaneInv /\ [PaneNext]_paneVars => PaneInv'
<1> SUFFICES ASSUME PaneInv, [PaneNext]_paneVars PROVE PaneInv'
  OBVIOUS
<1>1. CASE ComparePane
  <2>1. ASSUME NEW r \in requests, CompareUploaded(r) PROVE PaneInv'
    BY <1>1, <2>1, UploadedKeeps DEF ComparePane
  <2> QED
    BY <1>1, <2>1, CompareSteps, QuietKeeps, RefuseKeeps, SentKeeps, EmptiedKeeps, ShownKeeps
<1>2. CASE NetlistPane \/ SinglePane
  BY <1>2, ReviewSteps, QuietKeeps, RefuseKeeps, SentKeeps, EmptiedKeeps, ShownKeeps
<1>3. CASE RiskPane \/ LegacyPane \/ SmtPane
  BY <1>3, OtherSteps, QuietKeeps, SentKeeps, EmptiedKeeps, ShownKeeps
<1>4. CASE PaneFailure
  <2>1. PICK r \in requests : r.step # "restore" /\ Answered(r, Failed(r)) /\ UNCHANGED board
    BY <1>4 DEF PaneFailure
  <2>2. Shown(r)
    BY <2>1 DEF Shown
  <2> QED BY <2>2, ShownKeeps
<1>5. CASE PaneReload
  BY <1>5, ReloadKeeps
<1>6. CASE UNCHANGED paneVars
  <2>1. Quiet
    BY <1>6 DEF paneVars, Quiet
  <2> QED BY <2>1, QuietKeeps
<1> QED BY <1>1, <1>2, <1>3, <1>4, <1>5, <1>6 DEF PaneNext

\* The invariant holds in every reachable state.
LEMMA PaneInvariance == PaneSpec => []PaneInv
BY PaneInitial, PaneInductive, PTL DEF PaneSpec

\* An answer never replaces that of a later request, whatever is cleared, swapped, chosen or
\* reloaded meanwhile (BomComparePane.tsx:502, SmtViewPane.tsx:103).
THEOREM InOrder == PaneSpec => []AnswersInOrder
<1>1. PaneInv => AnswersInOrder
  BY DEF PaneInv
<1> QED BY <1>1, PaneInvariance, PTL

\* A request that is new and confirmed is of the files the result on the screen was made of.
LEMMA ConfirmedStep ==
  PaneInv /\ [PaneNext]_paneVars =>
    \A r \in requests' \ requests : r.confirmed => r.of = outcome.of
<1> SUFFICES ASSUME PaneInv, [PaneNext]_paneVars, NEW r \in requests' \ requests, r.confirmed
             PROVE  r.of = outcome.of
  OBVIOUS
<1>1. CASE Quiet \/ Refuse \/ Emptied
  BY <1>1 DEF Quiet, Refuse, Emptied
<1>2. CASE Sent
  <2>1. PICK step, confirmed, paths :
          Send(step, paths, confirmed) /\ (confirmed => paths = outcome.of)
    BY <1>2 DEF Sent
  <2>2. r = [run |-> sentRuns + 1, step |-> step, of |-> paths, confirmed |-> confirmed]
    BY <2>1 DEF Send
  <2> QED BY <2>1, <2>2
<1>3. ASSUME NEW q \in requests, Shown(q) PROVE FALSE
  BY <1>3 DEF Shown, Answered
<1>4. ASSUME NEW q \in requests, CompareUploaded(q) PROVE FALSE
  <2>1. r = [q EXCEPT !.step = "run"] /\ q.step = "upload"
    BY <1>4 DEF CompareUploaded
  <2>2. q = [run |-> q.run, step |-> q.step, of |-> q.of, confirmed |-> q.confirmed]
    BY DEF PaneInv, Numbered
  <2>3. r.confirmed = q.confirmed
    BY <2>1, <2>2
  <2> QED BY <2>1, <2>3 DEF PaneInv, PathsKept
<1>5. CASE PaneReload
  <2>1. r = [run |-> board, step |-> "restore", of |-> NoPaths, confirmed |-> FALSE]
    BY <1>5 DEF PaneReload
  <2> QED BY <2>1
<1>6. CASE PaneFailure
  BY <1>6 DEF PaneFailure, Answered
<1>7. CASE UNCHANGED paneVars
  BY <1>7 DEF paneVars
<1> QED
  BY <1>1, <1>2, <1>3, <1>4, <1>5, <1>6, <1>7, CompareSteps, ReviewSteps, OtherSteps DEF PaneNext

\* A comparison sent as confirmed is of the files whose parents the user was shown
\* (BomComparePane.tsx:480).
THEOREM ConfirmedIsShown == PaneSpec => ConfirmsWhatIsShown
<1>1. PaneInv /\ [PaneNext]_paneVars =>
        [\A r \in requests' \ requests : r.confirmed => r.of = outcome.of]_paneVars
  BY ConfirmedStep
<1> QED BY <1>1, PaneInvariance, PTL DEF PaneSpec, ConfirmsWhatIsShown
=============================================================================
