---------------------------- MODULE BomWizardProofs ----------------------------
(***************************************************************************)
(* The wizard never waits for nobody, and never mixes two exports, for any *)
(* exports and any number of runs.                                         *)
(***************************************************************************)
EXTENDS BomWizard, TLAPS

\* A stage, the export of it, the exports its entries were made for, and its results fit.
Fits(st, f, entries, pr, rr) ==
  /\ entries.extras \in {NoFile, f} /\ entries.choices \in {NoFile, f}
  /\ entries.placed \in {NoFile, f}
  /\ pr # NoResult => pr.of = f
  /\ rr.status = "ok" => rr.file = pr.file
  /\ st = "source" => entries.extras = NoFile

Entries == [extras |-> extras, choices |-> choices, placed |-> placed]

\* What is on the screen fits, and what is saved does.
DraftsFit ==
  /\ Fits(stage, sp, Entries, pres, rres)
  /\ saved # NoDraft => Fits(saved.stage, saved.sp, saved, saved.pres, saved.rres)

\* One request of each kind, sent from the stage on the screen for the export on it; an
\* upload only while there is none.
InFlight ==
  /\ \A f, g \in uploads : f = g
  /\ uploads # {} => stage = "source"
  /\ running \in BOOLEAN /\ (running => stage = "process")
  /\ rrun \in BOOLEAN /\ (rrun => stage = "risk")
  /\ \A c, d \in calls : c.kind = d.kind => c = d
  /\ \A c \in calls :
       /\ c.kind \in {"process", "risk"}
       /\ c.kind = "process" => running /\ rres = NoReport /\ c.of = sp
                                /\ {c.choices, c.placed, c.extras} \subseteq {NoFile, sp}
       /\ c.kind = "risk" => rrun /\ c.file = pres.file

\* A dialog closed over what is still on the screen.
DialogFits ==
  ~Free => /\ stage = "process" /\ ~running /\ modal.of = sp
           /\ {modal.choices, modal.placed, modal.extras} \subseteq {NoFile, sp}

OneExport == ~overlapped => DraftsFit /\ InFlight /\ DialogFits

-----------------------------------------------------------------------------
\* The records that stand for nothing say so.
LEMMA Statuses ==
  /\ NoResult.status = "none" /\ NoReport.status = "none" /\ NoReport.file = 0
  /\ NoDraft.stage = "none"
BY DEF NoResult, NoReport, NoDraft

\* A request to process carries what it was made from.
LEMMA ProcessCallFields ==
  ASSUME NEW f, NEW chosen, NEW decided, NEW added, NEW id, NEW c,
         c = ProcessCall(f, chosen, decided, added, id)
  PROVE  /\ c.kind = "process" /\ c.of = f /\ c.choices = chosen /\ c.placed = decided
         /\ c.extras = added
BY DEF ProcessCall

\* A request to review carries the file it reviews.
LEMMA RiskCallFields == ASSUME NEW id, NEW c, c = RiskCall(id)
                        PROVE  c.kind = "risk" /\ c.file = id
BY DEF RiskCall

\* What the two effects leave: a run begun, a review begun, a review of nothing refused, or
\* everything as the handler set it.
LEMMA Shows ==
  ASSUME NEW entered \in BOOLEAN, NEW st, NEW pr, NEW rr, NEW rn, NEW rng, NEW cs, NEW f,
         Show(entered, st, pr, rr, rn, rng, cs, f)
  PROVE  /\ stage' = st /\ pres' = pr /\ running' \in BOOLEAN /\ rrun' \in BOOLEAN
         /\ \/ /\ entered /\ st = "process" /\ pr = NoResult
               /\ rres' = NoReport /\ ~rrun' /\ running'
               /\ calls' = cs \cup {ProcessCall(f, NoFile, placed', extras', made + 1)}
            \/ /\ st = "risk" /\ ~rn /\ rres' = NoReport /\ rrun' /\ (running' <=> rng)
               /\ calls' = cs \cup {RiskCall(pr.file)}
            \/ /\ st = "risk" /\ ~rn /\ rres' = [status |-> "error", file |-> 0]
               /\ ~rrun' /\ (running' <=> rng) /\ calls' = cs
            \/ /\ ~(entered /\ st = "process" /\ pr = NoResult)
               /\ st = "risk" /\ ~rn => pr.file # 0 /\ rr.file = pr.file
               /\ rres' = rr /\ (rrun' <=> rn) /\ (running' <=> rng) /\ calls' = cs
<1> DEFINE process == entered /\ st = "process" /\ pr = NoResult
           risk == st = "risk" /\ ~rn /\ pr.file # 0 /\ rr.file # pr.file
           missing == st = "risk" /\ ~rn /\ pr.file = 0
<1>1. /\ stage' = st /\ pres' = pr
      /\ rres' = IF process \/ risk THEN NoReport
                 ELSE IF missing THEN [status |-> "error", file |-> 0] ELSE rr
      /\ rrun' <=> (risk \/ (rn /\ ~process))
      /\ running' <=> (process \/ rng)
      /\ calls' = cs \cup (IF process
                           THEN {ProcessCall(f, NoFile, placed', extras', made + 1)} ELSE {})
                     \cup (IF risk THEN {RiskCall(pr.file)} ELSE {})
  BY DEF Show, ProcessEffect, RiskEffect
<1>2. running' \in BOOLEAN /\ rrun' \in BOOLEAN
  BY Zenon DEF Show
<1>3. CASE process
  BY <1>1, <1>2, <1>3
<1>4. CASE ~process /\ risk
  BY <1>1, <1>2, <1>4
<1>5. CASE ~process /\ ~risk /\ missing
  BY <1>1, <1>2, <1>5
<1>6. CASE ~process /\ ~risk /\ ~missing
  BY <1>1, <1>2, <1>6
<1> QED BY <1>3, <1>4, <1>5, <1>6

\* What sending a process request leaves behind, the review it may start included.
LEMMA Sends ==
  ASSUME NEW c, SendProcess(c)
  PROVE  /\ running' /\ running' \in BOOLEAN /\ rrun' \in BOOLEAN /\ c \in calls'
         /\ stage # "risk" => rres' = NoReport /\ ~rrun' /\ calls' = calls \cup {c}
         /\ rrun' => RiskCall(pres.file) \in calls'
         /\ stage = "risk" => rrun' \/ rres' = [status |-> "error", file |-> 0]
BY Statuses DEF SendProcess, RiskEffect

-----------------------------------------------------------------------------
(* Nobody waits for nothing *)

\* The wizard opens where a file is chosen, with no spinner.
LEMMA DeadEndInit == WizardInit => NoDeadEnd
BY DEF WizardInit, NoDeadEnd

\* Whatever a handler sets, the effects end no wait: this is what its arguments must be.
LEMMA ShowsNoDeadEnd ==
  ASSUME NEW entered \in BOOLEAN, NEW st, NEW pr, NEW rr, NEW rn, NEW rng, NEW cs, NEW f,
         Show(entered, st, pr, rr, rn, rng, cs, f),
         rng => \E c \in cs : c.kind = "process",
         rn => \E c \in cs : c.kind = "risk",
         st = "process" => entered \/ rng \/ pr # NoResult
  PROVE  NoDeadEnd'
<1>1. [status |-> "error", file |-> 0] # NoReport
  BY DEF NoReport
<1>2. ProcessCall(f, NoFile, placed', extras', made + 1).kind = "process"
  BY DEF ProcessCall
<1>3. RiskCall(pr.file).kind = "risk"
  BY DEF RiskCall
<1>4. stage' = st /\ pres' = pr
  BY Shows
<1>5. CASE /\ entered /\ st = "process" /\ pr = NoResult
           /\ rres' = NoReport /\ ~rrun' /\ running'
           /\ calls' = cs \cup {ProcessCall(f, NoFile, placed', extras', made + 1)}
  BY <1>2, <1>4, <1>5 DEF NoDeadEnd
<1>6. CASE /\ st = "risk" /\ ~rn /\ rres' = NoReport /\ rrun' /\ (running' <=> rng)
           /\ calls' = cs \cup {RiskCall(pr.file)}
  BY <1>3, <1>4, <1>6 DEF NoDeadEnd
<1>7. CASE /\ st = "risk" /\ ~rn /\ rres' = [status |-> "error", file |-> 0]
           /\ ~rrun' /\ (running' <=> rng) /\ calls' = cs
  BY <1>1, <1>4, <1>7 DEF NoDeadEnd
<1>8. CASE /\ ~(entered /\ st = "process" /\ pr = NoResult)
           /\ st = "risk" /\ ~rn => pr.file # 0 /\ rr.file = pr.file
           /\ rres' = rr /\ (rrun' <=> rn) /\ (running' <=> rng) /\ calls' = cs
  BY <1>4, <1>8, Statuses DEF NoDeadEnd
<1> QED BY <1>5, <1>6, <1>7, <1>8, Shows

\* A request that is sent is one the spinner waits for.
LEMMA SendsNoDeadEnd ==
  ASSUME NoDeadEnd, NEW c, SendProcess(c), c.kind = "process", stage' = stage PROVE NoDeadEnd'
<1>1. [status |-> "error", file |-> 0] # NoReport
  BY DEF NoReport
<1>2. RiskCall(pres.file).kind = "risk"
  BY DEF RiskCall
<1> QED BY <1>1, <1>2, Sends DEF NoDeadEnd

\* No step leaves a spinner without a request or a page without content.
LEMMA DeadEndStep == NoDeadEnd /\ [WizardNext]_wizardVars => NoDeadEnd'
<1> SUFFICES ASSUME NoDeadEnd, [WizardNext]_wizardVars PROVE NoDeadEnd'
  OBVIOUS
<1>1. ASSUME NEW f \in Files, Uploaded(f) PROVE NoDeadEnd'
  <2>1. Show(FALSE, "review", NoResult, NoReport, rrun, running, calls, f)
    BY <1>1 DEF Uploaded
  <2> QED BY <2>1, ShowsNoDeadEnd DEF NoDeadEnd
<1>2. CASE StartProcessing
  <2>1. Show(TRUE, "process", pres, rres, rrun, running, calls, sp)
    BY <1>2 DEF StartProcessing
  <2> QED BY <2>1, ShowsNoDeadEnd DEF NoDeadEnd
<1>3. ASSUME NEW c \in calls, NEW status \in {"ok", "error", "placement", "conflicts"},
             ProcessAnswer(c, status)
      PROVE  NoDeadEnd'
  <2> DEFINE pr == [status |-> status, of |-> c.of, file |-> IF status = "ok" THEN c.file ELSE 0]
             st == IF status = "ok" THEN "risk" ELSE stage
  <2>1. Show(FALSE, st, pr, rres, rrun, FALSE, calls \ {c}, sp) /\ c.kind = "process"
    BY <1>3 DEF ProcessAnswer
  <2>2. pr # NoResult
    BY Statuses
  <2>3. rrun => \E d \in calls \ {c} : d.kind = "risk"
    BY <2>1 DEF NoDeadEnd
  <2> HIDE DEF pr, st
  <2> QED BY <2>1, <2>2, <2>3, ShowsNoDeadEnd
<1>4. ASSUME NEW c \in calls, NEW status \in {"ok", "error"}, RiskAnswer(c, status)
      PROVE  NoDeadEnd'
  <2> DEFINE rr == [status |-> status, file |-> c.file]
  <2>1. Show(FALSE, stage, pres, rr, FALSE, running, calls \ {c}, sp) /\ c.kind = "risk"
    BY <1>4 DEF RiskAnswer
  <2>2. running => \E d \in calls \ {c} : d.kind = "process"
    BY <2>1 DEF NoDeadEnd
  <2> HIDE DEF rr
  <2> QED BY <2>1, <2>2, ShowsNoDeadEnd DEF NoDeadEnd
<1>5. CASE ApplyPlacementReview
  <2>1. PICK c : SendProcess(c) /\ c = ProcessCall(sp, NoFile, placed, extras, made + 1)
    BY <1>5 DEF ApplyPlacementReview
  <2>2. stage' = stage
    BY <1>5 DEF ApplyPlacementReview
  <2> QED BY <2>1, <2>2, ProcessCallFields, SendsNoDeadEnd
<1>6. ASSUME NEW chosen, SubmitConflictChoices(chosen) PROVE NoDeadEnd'
  <2>1. PICK c : SendProcess(c) /\ c = ProcessCall(sp, chosen, placed, extras, made + 1)
    BY <1>6 DEF SubmitConflictChoices
  <2>2. stage' = stage
    BY <1>6 DEF SubmitConflictChoices
  <2> QED BY <2>1, <2>2, ProcessCallFields, SendsNoDeadEnd
<1>7. CASE FirstVariantOk
  <2>1. PICK c : /\ SendProcess(c)
                 /\ c = ProcessCall(modal.of, modal.choices, modal.placed, modal.extras, made + 1)
    BY <1>7 DEF FirstVariantOk
  <2>2. stage' = stage
    BY <1>7 DEF FirstVariantOk
  <2> QED BY <2>1, <2>2, ProcessCallFields, SendsNoDeadEnd
<1>8. CASE BackToReview
  <2>1. Show(FALSE, "review", NoResult, NoReport, FALSE, running, calls, sp)
    BY <1>8 DEF BackToReview
  <2> QED BY <2>1, ShowsNoDeadEnd DEF NoDeadEnd
<1>9. CASE EnterRisk
  <2>1. Show(FALSE, "risk", pres, rres, rrun, running, calls, sp)
    BY <1>9 DEF EnterRisk
  <2> QED BY <2>1, ShowsNoDeadEnd DEF NoDeadEnd
<1>10. CASE BackToProcess
  <2>1. Show(TRUE, "process", pres, rres, rrun, running, calls, sp)
    BY <1>10 DEF BackToProcess
  <2> QED BY <2>1, ShowsNoDeadEnd DEF NoDeadEnd
<1>11. ASSUME NEW f, Mount(f) PROVE NoDeadEnd'
  <2>1. PICK st, pr, rr, g : Show(TRUE, st, pr, rr, FALSE, FALSE, {}, g)
    BY <1>11 DEF Mount
  <2> QED BY <2>1, ShowsNoDeadEnd
<1>12. CASE \/ \E f \in Files : Upload(f) \/ UploadFailed(f)
            \/ EditExtras \/ DecidePlacement \/ DecideConflict \/ AskFirstVariant
            \/ FirstVariantCancel \/ Persist
  <2>1. UNCHANGED <<stage, pres, rres, running, rrun, calls>>
    BY <1>12 DEF Upload, UploadFailed, EditExtras, DecidePlacement, DecideConflict,
                 AskFirstVariant, FirstVariantCancel, Persist
  <2> QED BY <2>1 DEF NoDeadEnd
<1>13. CASE EnterDelivery \/ ClearWorkflow \/ ResetFromDelivery
  BY <1>13 DEF EnterDelivery, ClearWorkflow, ResetFromDelivery, NoDeadEnd
<1>14. CASE UNCHANGED wizardVars
  BY <1>14 DEF wizardVars, NoDeadEnd
<1> QED
  BY <1>1, <1>2, <1>3, <1>4, <1>5, <1>6, <1>7, <1>8, <1>9, <1>10, <1>11, <1>12, <1>13, <1>14
  DEF WizardNext, Reload, Launch

\* The wizard never shows an empty page or a spinner nobody will stop
\* (BomProcessWizard.tsx:582, :722).
THEOREM SomebodyAnswers == WizardSpec => []NoDeadEnd
BY DeadEndInit, DeadEndStep, PTL DEF WizardSpec

-----------------------------------------------------------------------------
(* One export at a time *)

\* What a handler must have set for the effects to leave a wizard that fits.
LEMMA ShowsFit ==
  ASSUME NEW entered \in BOOLEAN, NEW st, NEW pr, NEW rr, NEW rn, NEW rng, NEW cs,
         Show(entered, st, pr, rr, rn, rng, cs, sp'),
         Fits(st, sp', Entries', pr, rr),
         uploads' = {}, Free', rng = FALSE, rn = FALSE, cs = {}
  PROVE  Fits(stage', sp', Entries', pres', rres') /\ InFlight' /\ DialogFits'
<1>1. stage' = st /\ pres' = pr /\ running' \in BOOLEAN /\ rrun' \in BOOLEAN
  BY Shows
<1>2. /\ Entries'.extras = extras' /\ Entries'.choices = choices' /\ Entries'.placed = placed'
  BY DEF Entries
<1>3. DialogFits'
  BY DEF DialogFits
<1>4. CASE /\ entered /\ st = "process" /\ pr = NoResult
           /\ rres' = NoReport /\ ~rrun' /\ running'
           /\ calls' = cs \cup {ProcessCall(sp', NoFile, placed', extras', made + 1)}
  <2>1. PICK c : c = ProcessCall(sp', NoFile, placed', extras', made + 1)
    OBVIOUS
  <2>3. calls' = {c} /\ c.kind = "process" /\ c.of = sp' /\ c.choices = NoFile
        /\ c.placed = placed' /\ c.extras = extras'
    BY <1>4, <2>1, ProcessCallFields
  <2>4. InFlight'
    BY <1>1, <1>2, <1>4, <2>3 DEF InFlight, Fits
  <2> QED BY <1>1, <1>3, <1>4, <2>4, Statuses DEF Fits
<1>5. CASE /\ st = "risk" /\ ~rn /\ rres' = NoReport /\ rrun' /\ (running' <=> rng)
           /\ calls' = cs \cup {RiskCall(pr.file)}
  <2>1. PICK c : c = RiskCall(pr.file)
    OBVIOUS
  <2>2. calls' = {c} /\ c.kind = "risk" /\ c.file = pr.file
    BY <1>5, <2>1, RiskCallFields
  <2>3. InFlight'
    BY <1>1, <1>5, <2>2 DEF InFlight
  <2> QED BY <1>1, <1>3, <1>5, <2>3, Statuses DEF Fits
<1>6. CASE /\ st = "risk" /\ ~rn /\ rres' = [status |-> "error", file |-> 0]
           /\ ~rrun' /\ (running' <=> rng) /\ calls' = cs
  <2>1. InFlight'
    BY <1>1, <1>6 DEF InFlight
  <2> QED BY <1>1, <1>3, <1>6, <2>1 DEF Fits
<1>7. CASE rres' = rr /\ (rrun' <=> rn) /\ (running' <=> rng) /\ calls' = cs
  <2>1. InFlight'
    BY <1>1, <1>7 DEF InFlight
  <2> QED BY <1>1, <1>3, <1>7, <2>1
<1> QED BY <1>4, <1>5, <1>6, <1>7, Shows

\* A run sent from the process stage for the export on the screen.
LEMMA SendsFit ==
  ASSUME DraftsFit, InFlight, stage = "process", ~running,
         NEW c, SendProcess(c), c.kind = "process", c.of = sp,
         {c.choices, c.placed, c.extras} \subseteq {NoFile, sp},
         choices' \in {NoFile, sp}, UNCHANGED <<stage, sp, extras, placed, pres, uploads, saved>>,
         Free'
  PROVE  DraftsFit' /\ InFlight' /\ DialogFits'
<1>1. calls = {}
  BY DEF InFlight
<1>2. /\ rres' = NoReport /\ ~rrun' /\ running' /\ calls' = {c}
      /\ running' \in BOOLEAN /\ rrun' \in BOOLEAN
  BY <1>1, Sends
<1>3. InFlight'
  BY <1>2 DEF InFlight
<1>4. Fits(stage', sp', Entries', pres', rres')
  BY <1>2, Statuses DEF Fits, DraftsFit, Entries
<1> QED BY <1>3, <1>4 DEF DraftsFit, DialogFits

\* The steps that send nothing and change nothing of what is in flight.
LEMMA QuietFits ==
  ASSUME DraftsFit, InFlight, saved' = saved, UNCHANGED <<stage, sp, pres, rres, running, rrun, calls>>,
         extras' \in {extras, NoFile} \/ (extras' = sp /\ stage # "source"),
         choices' \in {choices, NoFile, sp}, placed' \in {placed, NoFile, sp}
  PROVE  DraftsFit' /\ (uploads' = uploads => InFlight')
<1>1. Fits(stage', sp', Entries', pres', rres')
  BY DEF Fits, DraftsFit, Entries
<1> QED BY <1>1 DEF DraftsFit, InFlight

\* At the start there is no export.
LEMMA OneExportInit == WizardInit => OneExport
<1> SUFFICES ASSUME WizardInit PROVE DraftsFit /\ InFlight /\ DialogFits
  BY DEF OneExport
<1>1. Fits(stage, sp, Entries, pres, rres)
  BY Statuses DEF WizardInit, Fits, Entries
<1> QED BY <1>1 DEF WizardInit, DraftsFit, InFlight, DialogFits, Free

\* A reload takes what is saved, a launch starts anew.
LEMMA MountFits ==
  ASSUME DraftsFit, NEW f, Mount(f) PROVE DraftsFit' /\ InFlight' /\ DialogFits'
<1> DEFINE first == [stage |-> "source", sp |-> NoFile, extras |-> NoFile,
                     choices |-> NoFile, placed |-> NoFile, pres |-> NoResult, rres |-> NoReport]
           d == IF saved = NoDraft THEN first ELSE saved
           new == f # NoFile
           st == IF new THEN "review" ELSE d.stage
           pr == IF new THEN NoResult ELSE d.pres
           rr == IF new THEN NoReport ELSE d.rres
<1>1. /\ uploads' = {} /\ modal' = NoModal /\ saved' = saved
      /\ sp' = IF new THEN f ELSE d.sp
      /\ extras' = IF new THEN NoFile ELSE d.extras
      /\ choices' = IF new THEN NoFile ELSE d.choices
      /\ placed' = IF new THEN NoFile ELSE d.placed
      /\ Show(TRUE, st, pr, rr, FALSE, FALSE, {}, sp')
  BY DEF Mount
<1>2. Fits(d.stage, d.sp, d, d.pres, d.rres)
  <2>1. CASE saved = NoDraft
    <3>1. /\ d.extras = NoFile /\ d.choices = NoFile /\ d.placed = NoFile
          /\ d.pres = NoResult /\ d.rres = NoReport
      BY <2>1
    <3> QED BY <3>1, Statuses DEF Fits
  <2>2. CASE saved # NoDraft
    BY <2>2 DEF DraftsFit
  <2> QED BY <2>1, <2>2
<1>3. Fits(st, sp', Entries', pr, rr)
  <2>1. /\ Entries'.extras = extras' /\ Entries'.choices = choices' /\ Entries'.placed = placed'
    BY DEF Entries
  <2> HIDE DEF d
  <2> QED BY <1>1, <1>2, <2>1, Statuses DEF Fits
<1>4. Free'
  BY <1>1 DEF Free
<1>5. PICK stx, prx, rrx : stx = st /\ prx = pr /\ rrx = rr
  OBVIOUS
<1>6. /\ Show(TRUE, stx, prx, rrx, FALSE, FALSE, {}, sp') /\ uploads' = {}
      /\ Fits(stx, sp', Entries', prx, rrx)
  BY <1>1, <1>3, <1>5
<1> HIDE DEF st, pr, rr
<1>7. Fits(stage', sp', Entries', pres', rres') /\ InFlight' /\ DialogFits'
  <2>1. ASSUME NEW rn, NEW cs, rn = FALSE, cs = {}, Show(TRUE, stx, prx, rrx, rn, rn, cs, sp')
        PROVE  Fits(stage', sp', Entries', pres', rres') /\ InFlight' /\ DialogFits'
    BY <2>1, <1>4, <1>6, ShowsFit
  <2> QED BY <1>6, <2>1
<1> QED BY <1>1, <1>7 DEF DraftsFit

\* Uploads that have once overlapped have overlapped.
LEMMA OverlappedStays ==
  ASSUME [WizardNext]_wizardVars, ~overlapped' PROVE ~overlapped
BY DEF WizardNext, wizardVars, Upload, Uploaded, UploadFailed, Launch, Reload, Mount,
       EditExtras, StartProcessing, ProcessAnswer, RiskAnswer, DecidePlacement,
       DecideConflict, ApplyPlacementReview, SubmitConflictChoices, AskFirstVariant,
       FirstVariantOk, FirstVariantCancel, BackToReview, EnterRisk, EnterDelivery,
       BackToProcess, ClearWorkflow, ResetFromDelivery, Persist

\* No step mixes two exports unless uploads overlap.
LEMMA OneExportStep == OneExport /\ [WizardNext]_wizardVars => OneExport'
<1> SUFFICES ASSUME OneExport, [WizardNext]_wizardVars, ~overlapped'
             PROVE  DraftsFit' /\ InFlight' /\ DialogFits'
  BY DEF OneExport
<1>1. DraftsFit /\ InFlight /\ DialogFits
  BY OverlappedStays DEF OneExport
<1>2. /\ Entries.extras = extras /\ Entries.choices = choices /\ Entries.placed = placed
      /\ Entries'.extras = extras' /\ Entries'.choices = choices' /\ Entries'.placed = placed'
  BY DEF Entries
<1>3. ASSUME NEW f \in Files, Upload(f) PROVE DraftsFit' /\ InFlight' /\ DialogFits'
  <2>1. uploads = {} /\ uploads' = {f} /\ stage = "source"
    BY <1>3 DEF Upload
  <2>2. UNCHANGED <<stage, sp, extras, choices, placed, pres, rres, running, rrun, modal, calls,
                    saved>>
    BY <1>3 DEF Upload
  <2>3. DraftsFit'
    BY <1>1, <2>2 DEF DraftsFit, Entries
  <2> QED BY <1>1, <2>1, <2>2, <2>3 DEF InFlight, DialogFits, Free
<1>4. ASSUME NEW f \in Files, Uploaded(f) PROVE DraftsFit' /\ InFlight' /\ DialogFits'
  <2>1. /\ uploads' = {} /\ stage = "source" /\ running = FALSE /\ rrun = FALSE /\ calls = {} /\ Free
        /\ extras = NoFile
    BY <1>4, <1>1, <1>2 DEF Uploaded, InFlight, DialogFits, DraftsFit, Fits
  <2>2. /\ Show(FALSE, "review", NoResult, NoReport, rrun, running, calls, sp')
        /\ choices' = NoFile /\ placed' = NoFile /\ extras' = extras
        /\ modal' = modal /\ saved' = saved
    BY <1>4 DEF Uploaded
  <2>3. Fits("review", sp', Entries', NoResult, NoReport)
    BY <1>2, <2>1, <2>2, Statuses DEF Fits
  <2>4. Free'
    BY <2>1, <2>2 DEF Free
  <2>5. Fits(stage', sp', Entries', pres', rres') /\ InFlight' /\ DialogFits'
    BY <2>1, <2>2, <2>3, <2>4, ShowsFit
  <2> QED BY <1>1, <2>2, <2>5 DEF DraftsFit
<1>5. CASE StartProcessing
  <2>1. /\ uploads = {} /\ stage = "review" /\ running = FALSE /\ rrun = FALSE /\ calls = {} /\ Free
    BY <1>5, <1>1 DEF StartProcessing, InFlight
  <2>2. /\ Show(TRUE, "process", pres, rres, rrun, running, calls, sp')
        /\ UNCHANGED <<sp, extras, choices, placed, modal, uploads, saved>>
    BY <1>5 DEF StartProcessing
  <2>3. Fits("process", sp', Entries', pres, rres)
    BY <1>1, <1>2, <2>2 DEF Fits, DraftsFit
  <2>4. Free'
    BY <2>1, <2>2 DEF Free
  <2>5. Fits(stage', sp', Entries', pres', rres') /\ InFlight' /\ DialogFits'
    BY <2>1, <2>2, <2>3, <2>4, ShowsFit
  <2> QED BY <1>1, <2>2, <2>5 DEF DraftsFit
<1>6. ASSUME NEW c \in calls, NEW status \in {"ok", "error", "placement", "conflicts"},
             ProcessAnswer(c, status)
      PROVE  DraftsFit' /\ InFlight' /\ DialogFits'
  <2> DEFINE pr == [status |-> status, of |-> c.of, file |-> IF status = "ok" THEN c.file ELSE 0]
             st == IF status = "ok" THEN "risk" ELSE stage
  <2>1. /\ Show(FALSE, st, pr, rres, rrun, FALSE, calls \ {c}, sp') /\ c.kind = "process"
        /\ placed' \in {placed, c.of} /\ UNCHANGED <<sp, extras, choices, modal, uploads, saved>>
    BY <1>6 DEF ProcessAnswer
  <2>2. /\ running /\ stage = "process" /\ uploads = {} /\ rrun = FALSE /\ rres = NoReport /\ Free
        /\ c.of = sp
    BY <1>1, <2>1 DEF InFlight, DialogFits
  <2>3. calls \ {c} = {}
    BY <1>1, <2>1, <2>2 DEF InFlight
  <2>4. Fits(st, sp', Entries', pr, rres)
    BY <1>1, <1>2, <2>1, <2>2, Statuses DEF Fits, DraftsFit
  <2>5. Free'
    BY <2>1, <2>2 DEF Free
  <2> HIDE DEF pr, st
  <2>6. Fits(stage', sp', Entries', pres', rres') /\ InFlight' /\ DialogFits'
    BY <2>1, <2>2, <2>3, <2>4, <2>5, ShowsFit
  <2> QED BY <1>1, <2>1, <2>6 DEF DraftsFit
<1>7. ASSUME NEW c \in calls, NEW status \in {"ok", "error"}, RiskAnswer(c, status)
      PROVE  DraftsFit' /\ InFlight' /\ DialogFits'
  <2> DEFINE rr == [status |-> status, file |-> c.file]
  <2>1. /\ Show(FALSE, stage, pres, rr, FALSE, running, calls \ {c}, sp') /\ c.kind = "risk"
        /\ UNCHANGED <<sp, extras, choices, placed, modal, uploads, saved>>
    BY <1>7 DEF RiskAnswer
  <2>2. /\ rrun /\ stage = "risk" /\ uploads = {} /\ running = FALSE /\ Free /\ c.file = pres.file
    BY <1>1, <2>1 DEF InFlight, DialogFits
  <2>3. calls \ {c} = {}
    BY <1>1, <2>1, <2>2 DEF InFlight
  <2>4. Fits(stage, sp', Entries', pres, rr)
    BY <1>1, <1>2, <2>1, <2>2 DEF Fits, DraftsFit
  <2>5. Free'
    BY <2>1, <2>2 DEF Free
  <2> HIDE DEF rr
  <2>6. Fits(stage', sp', Entries', pres', rres') /\ InFlight' /\ DialogFits'
    BY <2>1, <2>2, <2>3, <2>4, <2>5, ShowsFit
  <2> QED BY <1>1, <2>1, <2>6 DEF DraftsFit
<1>8. CASE ApplyPlacementReview
  <2>1. PICK c : SendProcess(c) /\ c = ProcessCall(sp, NoFile, placed, extras, made + 1)
    BY <1>8 DEF ApplyPlacementReview
  <2>2. /\ stage = "process" /\ ~running /\ Free
        /\ UNCHANGED <<stage, sp, extras, choices, placed, pres, modal, uploads, saved>>
    BY <1>8 DEF ApplyPlacementReview, AtDecisions
  <2>3. /\ c.kind = "process" /\ c.of = sp /\ choices' \in {NoFile, sp}
        /\ {c.choices, c.placed, c.extras} \subseteq {NoFile, sp}
    BY <1>1, <1>2, <2>1, <2>2, ProcessCallFields DEF DraftsFit, Fits
  <2> QED BY <1>1, <2>1, <2>2, <2>3, SendsFit DEF Free
<1>9. ASSUME NEW chosen \in {choices, pres.of}, SubmitConflictChoices(chosen)
      PROVE  DraftsFit' /\ InFlight' /\ DialogFits'
  <2>1. PICK c : SendProcess(c) /\ c = ProcessCall(sp, chosen, placed, extras, made + 1)
    BY <1>9 DEF SubmitConflictChoices
  <2>2. /\ stage = "process" /\ ~running /\ Free /\ pres.status = "conflicts" /\ choices' = chosen
        /\ UNCHANGED <<stage, sp, extras, placed, pres, modal, uploads, saved>>
    BY <1>9 DEF SubmitConflictChoices, AtDecisions
  <2>3. chosen \in {NoFile, sp}
    BY <1>1, <1>2, <1>9, <2>2, Statuses DEF DraftsFit, Fits
  <2>4. /\ c.kind = "process" /\ c.of = sp
        /\ {c.choices, c.placed, c.extras} \subseteq {NoFile, sp}
    BY <1>1, <1>2, <2>1, <2>3, ProcessCallFields DEF DraftsFit, Fits
  <2> QED BY <1>1, <2>1, <2>2, <2>3, <2>4, SendsFit DEF Free
<1>10. CASE AskFirstVariant
  <2>1. /\ stage = "process" /\ ~running /\ pres.status = "conflicts"
        /\ modal' = [of |-> sp, choices |-> pres.of, placed |-> placed, extras |-> extras]
        /\ UNCHANGED <<stage, sp, extras, choices, placed, pres, rres, running, rrun, uploads,
                       calls, saved>>
    BY <1>10 DEF AskFirstVariant, AtDecisions
  <2>2. pres.of = sp /\ placed \in {NoFile, sp} /\ extras \in {NoFile, sp}
    BY <1>1, <1>2, <2>1, Statuses DEF DraftsFit, Fits
  <2>3. DialogFits'
    BY <2>1, <2>2 DEF DialogFits
  <2>4. DraftsFit' /\ InFlight'
    BY <1>1, <2>1 DEF DraftsFit, InFlight, Entries
  <2> QED BY <2>3, <2>4
<1>11. CASE FirstVariantOk
  <2>1. PICK c : /\ SendProcess(c)
                 /\ c = ProcessCall(modal.of, modal.choices, modal.placed, modal.extras, made + 1)
    BY <1>11 DEF FirstVariantOk
  <2>2. /\ modal' = NoModal /\ choices' = modal.choices /\ ~Free
        /\ UNCHANGED <<stage, sp, extras, placed, pres, uploads, saved>>
    BY <1>11 DEF FirstVariantOk
  <2>3. /\ stage = "process" /\ ~running /\ modal.of = sp
        /\ {modal.choices, modal.placed, modal.extras} \subseteq {NoFile, sp}
    BY <1>1, <2>2 DEF DialogFits
  <2>4. /\ c.kind = "process" /\ c.of = sp /\ choices' \in {NoFile, sp}
        /\ {c.choices, c.placed, c.extras} \subseteq {NoFile, sp}
    BY <2>1, <2>2, <2>3, ProcessCallFields
  <2> QED BY <1>1, <2>1, <2>2, <2>3, <2>4, SendsFit DEF Free
<1>12. CASE BackToReview
  <2>1. /\ uploads = {} /\ stage = "process" /\ running = FALSE /\ rrun = FALSE /\ calls = {} /\ Free
    BY <1>12, <1>1 DEF BackToReview, InFlight
  <2>2. /\ Show(FALSE, "review", NoResult, NoReport, FALSE, running, calls, sp')
        /\ UNCHANGED <<sp, extras, choices, placed, modal, uploads, saved>>
    BY <1>12 DEF BackToReview
  <2>3. Fits("review", sp', Entries', NoResult, NoReport)
    BY <1>1, <1>2, <2>2, Statuses DEF Fits, DraftsFit
  <2>4. Free'
    BY <2>1, <2>2 DEF Free
  <2>5. PICK rn : rn = FALSE
    OBVIOUS
  <2>6. Fits(stage', sp', Entries', pres', rres') /\ InFlight' /\ DialogFits'
    BY <2>1, <2>2, <2>3, <2>4, <2>5, ShowsFit
  <2> QED BY <1>1, <2>2, <2>6 DEF DraftsFit
<1>13. CASE EnterRisk
  <2>1. /\ uploads = {} /\ stage = "process" /\ running = FALSE /\ rrun = FALSE /\ calls = {} /\ Free
    BY <1>13, <1>1 DEF EnterRisk, AtDecisions, InFlight
  <2>2. /\ Show(FALSE, "risk", pres, rres, rrun, running, calls, sp')
        /\ UNCHANGED <<sp, extras, choices, placed, modal, uploads, saved>>
    BY <1>13 DEF EnterRisk
  <2>3. Fits("risk", sp', Entries', pres, rres)
    BY <1>1, <1>2, <2>2 DEF Fits, DraftsFit
  <2>4. Free'
    BY <2>1, <2>2 DEF Free
  <2>5. Fits(stage', sp', Entries', pres', rres') /\ InFlight' /\ DialogFits'
    BY <2>1, <2>2, <2>3, <2>4, ShowsFit
  <2> QED BY <1>1, <2>2, <2>5 DEF DraftsFit
<1>14. CASE BackToProcess
  <2>1. /\ uploads = {} /\ stage = "risk" /\ running = FALSE /\ rrun = FALSE /\ calls = {} /\ Free
    BY <1>14, <1>1 DEF BackToProcess, InFlight
  <2>2. /\ Show(TRUE, "process", pres, rres, rrun, running, calls, sp')
        /\ UNCHANGED <<sp, extras, choices, placed, modal, uploads, saved>>
    BY <1>14 DEF BackToProcess
  <2>3. Fits("process", sp', Entries', pres, rres)
    BY <1>1, <1>2, <2>2 DEF Fits, DraftsFit
  <2>4. Free'
    BY <2>1, <2>2 DEF Free
  <2>5. Fits(stage', sp', Entries', pres', rres') /\ InFlight' /\ DialogFits'
    BY <2>1, <2>2, <2>3, <2>4, ShowsFit
  <2> QED BY <1>1, <2>2, <2>5 DEF DraftsFit
<1>15. CASE EnterDelivery
  <2>1. /\ stage = "risk" /\ ~rrun /\ ~running /\ calls = {} /\ Free /\ uploads = {}
    BY <1>15, <1>1 DEF EnterDelivery, InFlight
  <2>2. stage' = "deliver" /\ UNCHANGED <<sp, extras, choices, placed, pres, rres, running, rrun,
                                          modal, uploads, calls, saved>>
    BY <1>15 DEF EnterDelivery
  <2>3. DraftsFit'
    BY <1>1, <1>2, <2>2 DEF DraftsFit, Fits
  <2> QED BY <1>1, <2>1, <2>2, <2>3 DEF InFlight, DialogFits, Free
<1>16. CASE ClearWorkflow
  <2>1. /\ ~rrun /\ ~running /\ calls = {} /\ Free /\ uploads = {}
    BY <1>16, <1>1 DEF ClearWorkflow, InFlight
  <2>2. /\ stage' = "source" /\ sp' = NoFile /\ extras' = NoFile /\ choices' = NoFile
        /\ placed' = NoFile /\ pres' = NoResult /\ rres' = NoReport /\ running' = FALSE /\ rrun' = FALSE
        /\ saved' = NoDraft /\ UNCHANGED <<modal, uploads, calls>>
    BY <1>16 DEF ClearWorkflow
  <2>3. DraftsFit'
    BY <1>2, <2>2, Statuses DEF DraftsFit, Fits
  <2> QED BY <1>1, <2>1, <2>2, <2>3 DEF InFlight, DialogFits, Free
<1>17. CASE ResetFromDelivery
  <2>1. /\ ~rrun /\ ~running /\ calls = {} /\ Free /\ uploads = {}
    BY <1>17, <1>1 DEF ResetFromDelivery, InFlight
  <2>2. /\ stage' = "review" /\ choices' = NoFile /\ placed' = NoFile
        /\ pres' = NoResult /\ rres' = NoReport /\ saved' = NoDraft
        /\ UNCHANGED <<sp, extras, running, rrun, modal, uploads, calls>>
    BY <1>17 DEF ResetFromDelivery
  <2>3. DraftsFit'
    BY <1>1, <1>2, <2>2, Statuses DEF DraftsFit, Fits
  <2> QED BY <1>1, <2>1, <2>2, <2>3 DEF InFlight, DialogFits, Free
<1>18. CASE Persist
  <2>1. PICK p \in {[pres |-> pres, rres |-> rres], [pres |-> NoResult, rres |-> NoReport]} :
          saved' = [stage |-> stage, sp |-> sp, extras |-> extras, choices |-> choices,
                    placed |-> placed, pres |-> p.pres, rres |-> p.rres]
    BY <1>18 DEF Persist
  <2>2. /\ UNCHANGED <<stage, sp, extras, choices, placed, pres, rres, running, rrun,
                       modal, uploads, calls>>
    BY <1>18 DEF Persist
  <2>3. Fits(saved'.stage, saved'.sp, saved', saved'.pres, saved'.rres)
    BY <1>1, <1>2, <2>1, Statuses DEF Fits, DraftsFit
  <2>4. Fits(stage', sp', Entries', pres', rres')
    BY <1>1, <2>2 DEF DraftsFit, Entries
  <2> QED BY <1>1, <2>2, <2>3, <2>4 DEF DraftsFit, InFlight, DialogFits, Free
<1>19. ASSUME NEW f, Mount(f) PROVE DraftsFit' /\ InFlight' /\ DialogFits'
  BY <1>1, <1>19, MountFits
<1>20. CASE EditExtras \/ DecidePlacement \/ DecideConflict
  <2>1. /\ Free /\ stage # "source" /\ extras' \in {extras, sp, NoFile}
        /\ placed' \in {placed, pres.of} /\ choices' \in {choices, pres.of}
        /\ placed' = pres.of \/ choices' = pres.of => pres.status # "none" \/ UNCHANGED <<placed, choices>>
        /\ UNCHANGED <<stage, sp, pres, rres, running, rrun, modal, uploads, calls, saved>>
    BY <1>20 DEF EditExtras, DecidePlacement, DecideConflict, AtDecisions
  <2>2. placed' \in {placed, NoFile, sp} /\ choices' \in {choices, NoFile, sp}
    BY <1>1, <2>1, Statuses DEF DraftsFit, Fits
  <2>3. calls = {} \/ (running' = running /\ calls' = calls /\ sp' = sp)
    BY <2>1
  <2>4. DraftsFit' /\ InFlight'
    BY <1>1, <2>1, <2>2, QuietFits
  <2> QED BY <2>1, <2>4 DEF DialogFits, Free
<1>21. CASE (\E f \in Files : UploadFailed(f)) \/ FirstVariantCancel \/ UNCHANGED wizardVars
  <2>1. /\ uploads' \subseteq uploads /\ modal' \in {modal, NoModal}
        /\ UNCHANGED <<stage, sp, extras, choices, placed, pres, rres, running, rrun, calls, saved>>
    BY <1>21 DEF UploadFailed, FirstVariantCancel, wizardVars
  <2>2. DraftsFit' /\ InFlight'
    BY <1>1, <2>1 DEF DraftsFit, InFlight, Entries
  <2> QED BY <1>1, <2>1, <2>2 DEF DialogFits, Free
<1> QED
  BY <1>3, <1>4, <1>5, <1>6, <1>7, <1>8, <1>9, <1>10, <1>11, <1>12, <1>13, <1>14, <1>15, <1>16,
     <1>17, <1>18, <1>19, <1>20, <1>21 DEF WizardNext, Reload, Launch

\* The invariant holds in every reachable state.
LEMMA OneExportInvariance == WizardSpec => []OneExport
BY OneExportInit, OneExportStep, PTL DEF WizardSpec

\* The result on screen was made from the export on screen (BomProcessWizard.tsx:161, :193).
THEOREM ResultFits == WizardSpec => []ResultOfSource
<1>1. OneExport => ResultOfSource
  BY DEF OneExport, DraftsFit, Fits, ResultOfSource
<1> QED BY <1>1, OneExportInvariance, PTL

\* A risk report is only ever shown next to the file it reviewed (BomProcessWizard.tsx:214).
THEOREM ReportFits == WizardSpec => []ReportOfResult
<1>1. OneExport => ReportOfResult
  BY DEF OneExport, DraftsFit, Fits, ReportOfResult
<1> QED BY <1>1, OneExportInvariance, PTL

\* A run carries decisions and materials entered for the export it reads
\* (BomProcessWizard.tsx:115).
THEOREM DecisionsFit == WizardSpec => []DecisionsOfSource
<1>1. OneExport => DecisionsOfSource
  BY DEF OneExport, InFlight, DecisionsOfSource
<1> QED BY <1>1, OneExportInvariance, PTL
=============================================================================
