------------------------------ MODULE BomWizard ------------------------------
(***************************************************************************)
(* The wizard that turns a Capture export into a BOM                       *)
(* (src/frontend/src/tools/BomProcessWizard.tsx): choose a file, review    *)
(* it, process it, review the risks, deliver.                              *)
(*                                                                         *)
(* Every request is a record in a set until it is answered: the handler    *)
(* that sent it goes on with the variables it closed over, whatever the    *)
(* user did meanwhile.  A React effect runs with the state change that     *)
(* triggers it, before the next event, so it is part of the same action    *)
(* (Show).  The backend is external: it gives any answer of the kinds the  *)
(* wizard distinguishes.                                                   *)
(***************************************************************************)
EXTENDS Naturals, FiniteSets

CONSTANTS
  Files,          \* Capture exports
  NoFile,
  MaxMade         \* bound: BOM runs sent, and uploads begun next to another

VARIABLES
  stage,          \* "source", "review", "process", "risk", "deliver"
  sp,             \* path of the export on screen
  extras,         \* the export whose extra materials are entered
  choices, placed,\* the export whose conflicts, whose placements were decided
  pres, rres,     \* result of the processing, of the risk review
  running, rrun,  \* their spinners
  modal,          \* the arguments a confirmation dialog closed over
  uploads, calls, \* requests in flight
  url,            \* source= in the address bar
  saved,          \* the workspace in localStorage
  made,           \* what of MaxMade is used; a run's number is that of its file
  overlapped      \* two uploads were in flight at once (history variable)

wizardVars == <<stage, sp, extras, choices, placed, pres, rres, running,
                rrun, modal, uploads, calls, url, saved, made, overlapped>>

Owner == Files \cup {NoFile}
Stages == {"source", "review", "process", "risk", "deliver"}

\* No result: the React state is null.
NoResult == [status |-> "none", of |-> NoFile, file |-> 0]
NoReport == [status |-> "none", file |-> 0]
NoDraft  == [stage |-> "none"]
NoModal  == [of |-> NoFile]

ResultIds == [status : {"none", "ok", "error", "placement", "conflicts"},
            of : Owner, file : 0..MaxMade]
Reports == [status : {"none", "ok", "error"}, file : 0..MaxMade]

WizardInit ==
  /\ stage = "source" /\ sp = NoFile /\ extras = NoFile
  /\ choices = NoFile /\ placed = NoFile
  /\ pres = NoResult /\ rres = NoReport /\ running = FALSE /\ rrun = FALSE
  /\ modal = NoModal /\ uploads = {} /\ calls = {}
  /\ url = NoFile /\ saved = NoDraft /\ made = 0 /\ overlapped = FALSE

\* A bom_process request: what the body carries.
ProcessCall(f, chosen, decided, added, id) ==
  [kind |-> "process", of |-> f, choices |-> chosen, placed |-> decided,
   extras |-> added, file |-> id]
RiskCall(id) ==
  [kind |-> "risk", of |-> NoFile, choices |-> NoFile, placed |-> NoFile,
   extras |-> NoFile, file |-> id]

(***************************************************************************)
(* The two effects that send requests.  The first runs when the stage      *)
(* becomes "process" without a result; the second whenever the stage, the  *)
(* file to review, the report's file or its spinner changes.               *)
(***************************************************************************)
ProcessEffect(entered, st, pr) == entered /\ st = "process" /\ pr = NoResult

RiskEffect(st, pr, rr, rn) ==
  st = "risk" /\ ~rn /\ pr.file # 0 /\ rr.file # pr.file

\* The state the effects leave: st, pr, rr, rn and rng are what the handler set,
\* cs the requests still in flight, f the export a new run reads.
Show(entered, st, pr, rr, rn, rng, cs, f) ==
  LET process == ProcessEffect(entered, st, pr)
      risk    == RiskEffect(st, pr, rr, rn)
      missing == st = "risk" /\ ~rn /\ pr.file = 0
  IN  /\ process => made < MaxMade
      /\ stage' = st /\ pres' = pr
      /\ rres' = IF process \/ risk THEN NoReport
                 ELSE IF missing THEN [status |-> "error", file |-> 0] ELSE rr
      /\ rrun' = (risk \/ (rn /\ ~process))
      /\ running' = (process \/ rng)
      /\ made' = IF process THEN made + 1 ELSE made
      /\ calls' = cs
           \cup (IF process
                 THEN {ProcessCall(f, NoFile, placed', extras', made + 1)} ELSE {})
           \cup (IF risk THEN {RiskCall(pr.file)} ELSE {})

\* A dialog that is open takes every click.
Free == modal = NoModal

-----------------------------------------------------------------------------
(* Source and review *)

\* beforeUpload=onFile: the drop zone takes another file while one is on its way.
Upload(f) ==
  /\ Free /\ stage = "source" /\ ~running
  /\ f \notin uploads /\ uploads' = uploads \cup {f}
  /\ IF uploads = {} THEN UNCHANGED <<made, overlapped>>
     ELSE made < MaxMade /\ made' = made + 1 /\ overlapped' = TRUE
  /\ UNCHANGED <<stage, sp, extras, choices, placed, pres, rres, running,
                 rrun, modal, calls, url, saved>>

\* onFile goes on after the upload, in whatever stage the wizard is by now.
Uploaded(f) ==
  /\ f \in uploads /\ uploads' = uploads \ {f}
  /\ sp' = f
  /\ choices' = NoFile /\ placed' = NoFile
  /\ Show(FALSE, "review", NoResult, NoReport, rrun, running, calls, f)
  /\ UNCHANGED <<extras, modal, url, saved, overlapped>>

UploadFailed(f) ==
  /\ f \in uploads /\ uploads' = uploads \ {f}
  /\ UNCHANGED <<stage, sp, extras, choices, placed, pres, rres, running,
                 rrun, modal, calls, url, saved, made, overlapped>>

\* ReviewView: the extra materials of XSection stand for every field entered there.
EditExtras ==
  /\ Free /\ stage = "review"
  /\ extras' \in {sp, NoFile}
  /\ UNCHANGED <<stage, sp, choices, placed, pres, rres, running, rrun,
                 modal, uploads, calls, url, saved, made, overlapped>>

\* "confirmed, start processing"
StartProcessing ==
  /\ Free /\ stage = "review"
  /\ UNCHANGED <<sp, extras, choices, placed, modal, uploads, url, saved,
                 overlapped>>
  /\ Show(TRUE, "process", pres, rres, rrun, running, calls, sp)

-----------------------------------------------------------------------------
(* Processing *)

\* Slip: the spinner is not stopped (no finally).
ProcessAnswerSpins(c, status) ==
  /\ c \in calls /\ c.kind = "process"
  /\ placed' \in IF status = "placement" THEN {placed, c.of} ELSE {placed}
  /\ UNCHANGED <<sp, extras, choices, modal, uploads, url, saved, overlapped>>
  /\ Show(FALSE, IF status = "ok" THEN "risk" ELSE stage,
          [status |-> status, of |-> c.of, file |-> IF status = "ok" THEN c.file ELSE 0],
          rres, rrun, running, calls \ {c}, sp)

\* The answer to bom_process, to whichever of the four senders: the result is
\* shown, an ok one moves on to the risk review, the spinner stops.  A result that
\* asks about placements seeds the decisions, from the saved ones or from history.
ProcessAnswer(c, status) ==
  /\ c \in calls /\ c.kind = "process"
  /\ placed' \in IF status = "placement" THEN {placed, c.of} ELSE {placed}
  /\ UNCHANGED <<sp, extras, choices, modal, uploads, url, saved, overlapped>>
  /\ Show(FALSE, IF status = "ok" THEN "risk" ELSE stage,
          [status |-> status, of |-> c.of, file |-> IF status = "ok" THEN c.file ELSE 0],
          rres, rrun, FALSE, calls \ {c}, sp)

\* The views of the process stage take input only while nothing runs.
AtDecisions(status) ==
  Free /\ stage = "process" /\ ~running /\ pres.status = status

\* PlacementReview and CConflict write the decisions about the result on screen.
DecidePlacement ==
  /\ AtDecisions("placement") /\ placed' = pres.of
  /\ UNCHANGED <<stage, sp, extras, choices, pres, rres, running, rrun,
                 modal, uploads, calls, url, saved, made, overlapped>>
DecideConflict ==
  /\ AtDecisions("conflicts") /\ choices' = pres.of
  /\ UNCHANGED <<stage, sp, extras, placed, pres, rres, running, rrun,
                 modal, uploads, calls, url, saved, made, overlapped>>

\* What every further run does first: the report goes, the spinner starts.  Uploads that
\* overlapped can have moved the wizard on to the risk review behind an open dialog, where
\* the effect then begins the review anew.
SendProcess(c) ==
  LET risk    == RiskEffect(stage, pres, NoReport, FALSE)
      missing == stage = "risk" /\ pres.file = 0
  IN  /\ made < MaxMade /\ made' = made + 1
      /\ rres' = IF missing THEN [status |-> "error", file |-> 0] ELSE NoReport
      /\ rrun' = risk /\ running' = TRUE
      /\ calls' = calls \cup {c} \cup (IF risk THEN {RiskCall(pres.file)} ELSE {})

ApplyPlacementReview ==
  /\ AtDecisions("placement") /\ placed # NoFile
  /\ SendProcess(ProcessCall(sp, NoFile, placed, extras, made + 1))
  /\ UNCHANGED <<stage, sp, extras, choices, placed, pres, modal, uploads,
                 url, saved, overlapped>>

\* submitConflictChoices from applyMerge (every conflict decided) and from
\* applyRecommendedMerge when the recommendations decide the rest.
SubmitConflictChoices(chosen) ==
  /\ AtDecisions("conflicts") /\ chosen # NoFile
  /\ choices' = chosen
  /\ SendProcess(ProcessCall(sp, chosen, placed, extras, made + 1))
  /\ UNCHANGED <<stage, sp, extras, placed, pres, modal, uploads, url,
                 saved, overlapped>>

\* applyFirstVariantMerge builds the choices and asks; the dialog's onOk keeps the
\* variables of that render.
AskFirstVariant ==
  /\ AtDecisions("conflicts")
  /\ modal' = [of |-> sp, choices |-> pres.of, placed |-> placed, extras |-> extras]
  /\ UNCHANGED <<stage, sp, extras, choices, placed, pres, rres, running,
                 rrun, uploads, calls, url, saved, made, overlapped>>
FirstVariantOk ==
  /\ ~Free /\ modal' = NoModal
  /\ choices' = modal.choices
  /\ SendProcess(ProcessCall(modal.of, modal.choices, modal.placed, modal.extras, made + 1))
  /\ UNCHANGED <<stage, sp, extras, placed, pres, uploads, url, saved, overlapped>>
FirstVariantCancel ==
  /\ ~Free /\ modal' = NoModal
  /\ UNCHANGED <<stage, sp, extras, choices, placed, pres, rres, running,
                 rrun, uploads, calls, url, saved, made, overlapped>>

\* onBack of the process stage: the decisions stay.
BackToReview ==
  /\ Free /\ stage = "process" /\ ~running /\ pres # NoResult
  /\ UNCHANGED <<sp, extras, choices, placed, modal, uploads, url, saved, overlapped>>
  /\ Show(FALSE, "review", NoResult, NoReport, FALSE, running, calls, sp)

\* onNext of the process stage, offered for a result without conflicts.
EnterRisk ==
  /\ AtDecisions("ok")
  /\ UNCHANGED <<sp, extras, choices, placed, modal, uploads, url, saved, overlapped>>
  /\ Show(FALSE, "risk", pres, rres, rrun, running, calls, sp)

-----------------------------------------------------------------------------
(* Risk review and delivery *)

RiskAnswer(c, status) ==
  /\ c \in calls /\ c.kind = "risk"
  /\ UNCHANGED <<sp, extras, choices, placed, modal, uploads, url, saved, overlapped>>
  /\ Show(FALSE, stage, pres, [status |-> status, file |-> c.file], FALSE, running,
          calls \ {c}, sp)

\* "go on to delivery", or "skip" after an error.
EnterDelivery ==
  /\ Free /\ stage = "risk" /\ ~rrun /\ rres # NoReport
  /\ stage' = "deliver"
  /\ UNCHANGED <<sp, extras, choices, placed, pres, rres, running, rrun,
                 modal, uploads, calls, url, saved, made, overlapped>>

BackToProcess ==
  /\ Free /\ stage = "risk" /\ ~rrun /\ rres.status = "ok"
  /\ UNCHANGED <<sp, extras, choices, placed, modal, uploads, url, saved, overlapped>>
  /\ Show(TRUE, "process", pres, rres, rrun, running, calls, sp)

\* clearBomWorkflow, from the review and, after a history notice, from delivery.
ClearWorkflow ==
  /\ Free /\ stage \in {"review", "deliver"}
  /\ stage' = "source" /\ sp' = NoFile /\ extras' = NoFile
  /\ choices' = NoFile /\ placed' = NoFile
  /\ pres' = NoResult /\ rres' = NoReport /\ running' = FALSE /\ rrun' = FALSE
  /\ url' = NoFile /\ saved' = NoDraft
  /\ UNCHANGED <<modal, uploads, calls, made, overlapped>>

\* "back to change and process again"
ResetFromDelivery ==
  /\ Free /\ stage = "deliver"
  /\ stage' = "review" /\ pres' = NoResult /\ rres' = NoReport
  /\ choices' = NoFile /\ placed' = NoFile /\ saved' = NoDraft
  /\ UNCHANGED <<sp, extras, running, rrun, modal, uploads, calls, url,
                 made, overlapped>>

-----------------------------------------------------------------------------
(* The page: what is saved, reloads and launches from Capture *)

\* Slip: the report is not declared heavy and stays when the result is dropped.
PersistReport ==
  /\ saved' \in {[stage |-> stage, sp |-> sp, extras |-> extras,
                  choices |-> choices, placed |-> placed, pres |-> p.pres, rres |-> p.rres] :
                 p \in {[pres |-> pres, rres |-> rres],
                        [pres |-> NoResult, rres |-> rres]}}
  /\ UNCHANGED <<stage, sp, extras, choices, placed, pres, rres, running,
                 rrun, modal, uploads, calls, url, made, overlapped>>

\* The debounced write of useToolWorkspace: all of the fields, or, when that is too
\* large, all but the two results.
Persist ==
  /\ saved' \in {[stage |-> stage, sp |-> sp, extras |-> extras,
                  choices |-> choices, placed |-> placed, pres |-> p.pres, rres |-> p.rres] :
                 p \in {[pres |-> pres, rres |-> rres],
                        [pres |-> NoResult, rres |-> NoReport]}}
  /\ UNCHANGED <<stage, sp, extras, choices, placed, pres, rres, running,
                 rrun, modal, uploads, calls, url, made, overlapped>>

\* Slip: a launch keeps the result of the workspace.
MountKeepsResult(launched) ==
  LET kept == IF saved = NoDraft
              THEN [stage |-> "source", sp |-> NoFile, extras |-> NoFile,
                    choices |-> NoFile, placed |-> NoFile, pres |-> NoResult, rres |-> NoReport]
              ELSE saved
      new  == launched # NoFile
  IN  /\ url' = launched /\ modal' = NoModal /\ uploads' = {}
      /\ sp' = IF new THEN launched ELSE kept.sp
      /\ extras' = IF new THEN NoFile ELSE kept.extras
      /\ choices' = IF new THEN NoFile ELSE kept.choices
      /\ placed' = IF new THEN NoFile ELSE kept.placed
      /\ Show(TRUE, IF new THEN "review" ELSE kept.stage,
              kept.pres, IF new THEN NoReport ELSE kept.rres,
              FALSE, FALSE, {}, sp')
      /\ UNCHANGED <<saved, overlapped>>

\* Slip: a launch keeps the placements decided before it.
MountKeepsDecisions(launched) ==
  LET kept == IF saved = NoDraft
              THEN [stage |-> "source", sp |-> NoFile, extras |-> NoFile,
                    choices |-> NoFile, placed |-> NoFile, pres |-> NoResult, rres |-> NoReport]
              ELSE saved
      new  == launched # NoFile
  IN  /\ url' = launched /\ modal' = NoModal /\ uploads' = {}
      /\ sp' = IF new THEN launched ELSE kept.sp
      /\ extras' = IF new THEN NoFile ELSE kept.extras
      /\ choices' = IF new THEN NoFile ELSE kept.choices
      /\ placed' = kept.placed
      /\ Show(TRUE, IF new THEN "review" ELSE kept.stage,
              IF new THEN NoResult ELSE kept.pres, IF new THEN NoReport ELSE kept.rres,
              FALSE, FALSE, {}, sp')
      /\ UNCHANGED <<saved, overlapped>>

\* The first render restores the workspace, or starts anew on a source= launch.
\* Requests of the page before it are answered to nobody.
Mount(launched) ==
  LET kept == IF saved = NoDraft
              THEN [stage |-> "source", sp |-> NoFile, extras |-> NoFile,
                    choices |-> NoFile, placed |-> NoFile, pres |-> NoResult, rres |-> NoReport]
              ELSE saved
      new  == launched # NoFile
  IN  /\ url' = launched /\ modal' = NoModal /\ uploads' = {}
      /\ sp' = IF new THEN launched ELSE kept.sp
      /\ extras' = IF new THEN NoFile ELSE kept.extras
      /\ choices' = IF new THEN NoFile ELSE kept.choices
      /\ placed' = IF new THEN NoFile ELSE kept.placed
      /\ Show(TRUE, IF new THEN "review" ELSE kept.stage,
              IF new THEN NoResult ELSE kept.pres, IF new THEN NoReport ELSE kept.rres,
              FALSE, FALSE, {}, sp')
      /\ UNCHANGED <<saved, overlapped>>

Reload == Mount(url)
Launch(f) == Mount(f)

WizardNext ==
  \/ \E f \in Files : Upload(f) \/ Uploaded(f) \/ UploadFailed(f) \/ Launch(f)
  \/ EditExtras \/ StartProcessing
  \/ \E c \in calls : \/ \E status \in {"ok", "error", "placement", "conflicts"} :
                            ProcessAnswer(c, status)
                      \/ \E status \in {"ok", "error"} : RiskAnswer(c, status)
  \/ DecidePlacement \/ DecideConflict \/ ApplyPlacementReview
  \/ \E chosen \in {choices, pres.of} : SubmitConflictChoices(chosen)
  \/ AskFirstVariant \/ FirstVariantOk \/ FirstVariantCancel
  \/ BackToReview \/ EnterRisk \/ EnterDelivery \/ BackToProcess
  \/ ClearWorkflow \/ ResetFromDelivery
  \/ Persist \/ Reload

WizardSpec == WizardInit /\ [][WizardNext]_wizardVars

-----------------------------------------------------------------------------
(* Properties *)

WizardTypeOK ==
  /\ stage \in Stages /\ {sp, extras, choices, placed, url} \subseteq Owner
  /\ pres \in ResultIds /\ rres \in Reports /\ {running, rrun, overlapped} \subseteq BOOLEAN
  /\ uploads \subseteq Files /\ made \in 0..MaxMade
  /\ \A c \in calls : c.kind \in {"process", "risk"} /\ c.of \in Owner /\ c.file \in 1..MaxMade
  /\ saved # NoDraft => saved.stage \in Stages /\ saved.pres \in ResultIds

\* The result on screen was made from the export on screen, through reloads, launches
\* and second runs, as long as no two uploads were in flight at once
\* (BomProcessWizard.tsx:161 lets them, and their continuations then mix two exports).
ResultOfSource == ~overlapped /\ pres # NoResult => pres.of = sp

\* A risk report is only ever shown, or restored, next to the file it reviewed, again as
\* long as no two uploads overlapped (BomProcessWizard.tsx:214, heavyKeys at :111).
ReportOfResult == ~overlapped /\ rres.status = "ok" => rres.file = pres.file

\* A run carries decisions and materials entered for the export it reads, never those
\* left from another one: an explicit launch is a new session (BomProcessWizard.tsx:115).
DecisionsOfSource ==
  ~overlapped => \A c \in calls : c.kind = "process" =>
                   {c.choices, c.placed, c.extras} \subseteq {NoFile, c.of}

\* The wizard never shows an empty page or a spinner nobody will stop: whoever waits
\* has a request in flight, and without one there is a result to act on.  ProcessView
\* and RiskView (BomProcessWizard.tsx:582, :722) render nothing without a result.
NoDeadEnd ==
  /\ running => \E c \in calls : c.kind = "process"
  /\ rrun => \E c \in calls : c.kind = "risk"
  /\ stage = "process" => running \/ pres # NoResult
  /\ stage = "risk" => rrun \/ rres # NoReport
=============================================================================
