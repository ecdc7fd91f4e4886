---------------------------- MODULE ConflictReview ----------------------------
(***************************************************************************)
(* The review of a code that stands for different parts                    *)
(* (src/frontend/src/tools/bomConflictChoices.ts and the process step of   *)
(* BomProcessWizard.tsx): every variant of a conflict is merged into one,  *)
(* given a code of its own or moved out, and the choices are submitted.    *)
(*                                                                         *)
(* The backend first names the first Limit conflicts (conflict_summary),   *)
(* afterwards every one that is not high confidence and not resolved       *)
(* (unresolved_part_conflicts).  Going back and processing again, after    *)
(* other placement decisions, can leave a code other variants, fewer of    *)
(* them, and another recommendation, sure or not: the choices stay.        *)
(*                                                                         *)
(* A variant is a number from 1; a part number that is entered is "none"   *)
(* (nothing or spaces, which are trimmed) or one of the codes in NewCodes. *)
(***************************************************************************)
EXTENDS Naturals, Sequences, FiniteSets

CONSTANTS
  ConflictOrder,  \* the codes in conflict, in the backend's order
  MaxVariants,    \* how many variants each has at first
  Recommendable,  \* the variants a run may recommend with high confidence: a bound
  NewCodes,
  Limit,          \* the limit of conflict_summary
  MaxReruns       \* bound: processing again

VARIABLES
  variants,       \* the number of variants each code has in the last run
  recommended,    \* the variant that run recommends with high confidence, or 0
  asked,          \* the conflicts on screen; none when the BOM is made
  chosen,         \* conflictChoices
  opened,         \* activeConflictCode
  bulk,           \* the dialog of "merge into the first candidate"
  sent,           \* the choices of the request in flight
  settled,        \* complete on screen in a request of this run (history variable)
  touched,        \* codes whose choice the user made (history variable)
  leftOver,       \* codes whose choice is a recommendation of an earlier run (history variable)
  reruns

choosers == <<touched, leftOver>>
conflictVars == <<variants, recommended, asked, chosen, opened, bulk, sent, settled, choosers,
                  reruns>>

Codes == {ConflictOrder[i] : i \in 1..Len(ConflictOrder)}
Indices == UNION {1..MaxVariants[c] : c \in Codes}
PartNumbers == {"none"} \cup NewCodes

ASSUME ConflictAssumption == /\ MaxVariants \in [Codes -> Nat \ {0}]
                             /\ Recommendable \subseteq Nat \ {0}

\* A number is the choice of an older version; a split assigns a code to some variants.
NoChoice == [action |-> "none"]
ReturnToCapture == [action |-> "return_to_capture"]
Select(i) == [action |-> "select_variant", index |-> i]
LegacyIndex(i) == [action |-> "number", index |-> i]
Split(codes) == [action |-> "split_refs", codes |-> codes]
Move(out, kind) == [action |-> "move_non_smt", out |-> out, kind |-> kind]
MoveKinds == {"scope_excluded", "user_excluded"}
Choices == {NoChoice, ReturnToCapture} \cup {Select(i) : i \in Indices}
           \cup {LegacyIndex(i) : i \in Indices}
           \cup {Split(m) : m \in UNION {[D -> PartNumbers] : D \in SUBSET Indices}}
           \cup {Move(o, k) : o \in SUBSET Indices, k \in MoveKinds}

Shown(c) == 1..variants[c]

\* high_confidence of the conflict.
Confident == {c \in Codes : recommended[c] # 0}

-----------------------------------------------------------------------------
(* bomConflictChoices.ts *)

normalizeConflictChoice(c, raw) ==
  CASE raw.action \in {"number", "select_variant"} ->
         IF raw.index \in Shown(c) THEN Select(raw.index) ELSE NoChoice
    [] raw.action = "split_refs" ->
         Split([i \in DOMAIN raw.codes \cap Shown(c) |-> raw.codes[i]])
    [] raw.action = "move_non_smt" -> Move(raw.out \cap Shown(c), raw.kind)
    [] OTHER -> raw

Distinct(codes) == \A i, j \in DOMAIN codes : codes[i] = codes[j] => i = j

conflictChoiceComplete(c, raw) ==
  LET choice == normalizeConflictChoice(c, raw)
  IN  CASE choice.action = "select_variant" -> TRUE
        [] choice.action = "move_non_smt" ->
             choice.out # {} /\ Cardinality(choice.out) + 1 >= variants[c]
        [] choice.action = "split_refs" ->
             /\ DOMAIN choice.codes = Shown(c) /\ Distinct(choice.codes)
             /\ \A i \in Shown(c) : choice.codes[i] \in NewCodes
        [] OTHER -> FALSE

Recommendation(c) == IF c \in Confident THEN Select(recommended[c]) ELSE NoChoice

\* Slip: any recommendation is adopted.
buildRecommendedAnyhow ==
  [c \in Codes |-> IF c \notin asked THEN NoChoice
                   ELSE LET now == normalizeConflictChoice(c, chosen[c])
                        IN  IF now # NoChoice THEN now ELSE Select(1)]

\* The record is made anew: it holds the conflicts on screen only.
buildRecommendedConflictChoices ==
  [c \in Codes |-> IF c \notin asked THEN NoChoice
                   ELSE LET now == normalizeConflictChoice(c, chosen[c])
                        IN  IF now # NoChoice THEN now ELSE Recommendation(c)]

buildFirstVariantConflictChoices ==
  [c \in Codes |-> IF c \in asked THEN Select(1) ELSE NoChoice]

-----------------------------------------------------------------------------
(* The backend *)

\* _conflict_choice_is_complete, of the choice as it was sent.
backendComplete(c, raw) ==
  CASE raw.action \in {"number", "select_variant"} -> raw.index \in Shown(c)
    [] raw.action = "move_non_smt" ->
         raw.out # {} /\ raw.out \subseteq Shown(c) /\ Cardinality(raw.out) + 1 >= variants[c]
    [] raw.action = "split_refs" ->
         LET given == {i \in DOMAIN raw.codes : raw.codes[i] \in NewCodes}
         IN  given = Shown(c) /\ Distinct([i \in given |-> raw.codes[i]])
    [] OTHER -> FALSE

\* _conflict_recommendation, of variants that are left out: equal but for their look, one that
\* completes the others, one that the others truncate, or none that is sure.
_conflict_recommendation(shape) ==
  {r \in [Codes -> {0} \cup Recommendable] :
     \A c \in Codes : r[c] # 0 => shape[c] > 1 /\ r[c] <= shape[c]}

conflict_summary(shape) ==
  LET inConflict == {i \in 1..Len(ConflictOrder) : shape[ConflictOrder[i]] > 1}
      first == {i \in inConflict : Cardinality({j \in inConflict : j < i}) < Limit}
  IN  {ConflictOrder[i] : i \in first}

unresolved_part_conflicts(choices) ==
  {c \in Codes \ Confident : variants[c] > 1 /\ ~backendComplete(c, choices[c])}

-----------------------------------------------------------------------------
(* Actions *)

NoChoices == [c \in Codes |-> NoChoice]

ConflictInit ==
  /\ variants = MaxVariants /\ recommended \in _conflict_recommendation(MaxVariants)
  /\ asked = conflict_summary(MaxVariants)
  /\ \/ chosen = NoChoices
     \/ \E c \in Codes, i \in Indices : chosen = [NoChoices EXCEPT ![c] = LegacyIndex(i)]
  /\ opened = "" /\ bulk = FALSE /\ sent = <<>> /\ settled = {}
  /\ touched = {c \in Codes : chosen[c] # NoChoice} /\ leftOver = {} /\ reruns = 0

Deciding == asked # {} /\ ~bulk /\ sent = <<>>

Active == IF opened \in asked THEN opened
          ELSE ConflictOrder[CHOOSE i \in 1..Len(ConflictOrder) :
                 /\ ConflictOrder[i] \in asked
                 /\ \A j \in 1..(i - 1) : ConflictOrder[j] \notin asked]

OpenConflict(c) ==
  /\ Deciding /\ c \in asked /\ c # Active /\ opened' = c
  /\ UNCHANGED <<variants, recommended, asked, chosen, bulk, sent, settled, choosers, reruns>>

\* What CConflict offers for the conflict on screen: what it shows of a choice is the
\* choice normalized.
Offered(c) ==
  LET choice == normalizeConflictChoice(c, chosen[c])
      codes  == IF choice.action = "split_refs" THEN choice.codes ELSE <<>>
      filled == [i \in Shown(c) |-> IF i \in DOMAIN codes THEN codes[i] ELSE "none"]
  IN  {Select(i) : i \in Shown(c)}
      \cup {ReturnToCapture, Split(filled), Move({}, "scope_excluded")}
      \cup (IF choice.action = "split_refs"
            THEN {Split([filled EXCEPT ![i] = p]) : i \in Shown(c), p \in PartNumbers} ELSE {})
      \cup (IF choice.action = "move_non_smt"
            THEN {Move(choice.out, k) : k \in MoveKinds}
                 \cup {Move(choice.out \cup {i}, choice.kind) : i \in Shown(c)}
                 \cup {Move(choice.out \ {i}, choice.kind) : i \in Shown(c)} ELSE {})

Choose(choice) ==
  /\ Deciding /\ choice \in Offered(Active) /\ choice # chosen[Active]
  /\ chosen' = [chosen EXCEPT ![Active] = choice]
  /\ touched' = touched \cup {Active} /\ leftOver' = leftOver \ {Active}
  /\ UNCHANGED <<variants, recommended, asked, opened, bulk, sent, settled, reruns>>

AllDone(choices) == \A c \in asked : conflictChoiceComplete(c, choices[c])

\* The choices that are still there when the recommendations are adopted.
StillChosen == {c \in asked : normalizeConflictChoice(c, chosen[c]) # NoChoice}

\* submitConflictChoices: the spinner takes the place of the list until the answer.
Submit(choices) ==
  /\ chosen' = choices /\ sent' = <<choices>>
  /\ settled' = settled \cup {c \in asked : conflictChoiceComplete(c, choices[c])}

ApplyMerge ==
  /\ Deciding /\ AllDone(chosen) /\ Submit(chosen)
  /\ UNCHANGED <<variants, recommended, asked, opened, bulk, choosers, reruns>>

\* Slip: adopting the recommendations submits what there is.
ApplyRecommendedAtOnce ==
  /\ Deciding /\ asked \cap Confident # {}
  /\ Submit(buildRecommendedConflictChoices)
  /\ touched' = touched \cap StillChosen /\ leftOver' = leftOver \cap StillChosen
  /\ UNCHANGED <<variants, recommended, asked, opened, bulk, reruns>>

\* applyRecommendedMerge: submits only when nothing is left to the user.
ApplyRecommendedMerge ==
  LET choices == buildRecommendedConflictChoices
  IN  /\ Deciding /\ asked \cap Confident # {}
      /\ \/ AllDone(choices) /\ Submit(choices)
         \/ ~AllDone(choices) /\ chosen' = choices /\ UNCHANGED <<sent, settled>>
      /\ touched' = touched \cap StillChosen /\ leftOver' = leftOver \cap StillChosen
      /\ UNCHANGED <<variants, recommended, asked, opened, bulk, reruns>>

AskFirstCandidate ==
  /\ Deciding /\ bulk' = TRUE
  /\ UNCHANGED <<variants, recommended, asked, chosen, opened, sent, settled, choosers, reruns>>

AnswerFirstCandidate(ok) ==
  /\ bulk /\ bulk' = FALSE
  /\ IF ok THEN /\ Submit(buildFirstVariantConflictChoices)
                /\ touched' = asked /\ leftOver' = {}
     ELSE UNCHANGED <<chosen, sent, settled, choosers>>
  /\ UNCHANGED <<variants, recommended, asked, opened, reruns>>

\* The answer: the conflicts left, the BOM, or an error, after which the user goes back.
ConflictsAnswered ==
  /\ sent # <<>> /\ sent' = <<>>
  /\ asked' \in {unresolved_part_conflicts(sent[1]), {}}
  /\ UNCHANGED <<variants, recommended, chosen, opened, bulk, settled, choosers, reruns>>

\* Back, other placement decisions, and the BOM is processed again: the choices stay.
ProcessAgain ==
  /\ ~bulk /\ sent = <<>> /\ reruns < MaxReruns /\ reruns' = reruns + 1
  /\ \E shape \in [Codes -> Indices] :
       /\ \A c \in Codes : shape[c] <= MaxVariants[c]
       /\ variants' = shape /\ recommended' \in _conflict_recommendation(shape)
       /\ asked' = conflict_summary(shape)
  /\ opened' = "" /\ settled' = {}
  /\ leftOver' = {c \in Codes \ touched : chosen[c] # NoChoice}
  /\ UNCHANGED <<chosen, bulk, sent, touched>>

ConflictNext ==
  \/ \E c \in Codes : OpenConflict(c)
  \/ Deciding /\ \E choice \in Offered(Active) : Choose(choice)
  \/ ApplyMerge \/ ApplyRecommendedMerge \/ AskFirstCandidate
  \/ \E ok \in BOOLEAN : AnswerFirstCandidate(ok)
  \/ ConflictsAnswered \/ ProcessAgain

ConflictSpec == ConflictInit /\ [][ConflictNext]_conflictVars

-----------------------------------------------------------------------------
(* Properties *)

ConflictTypeOK ==
  /\ variants \in [Codes -> Indices] /\ recommended \in _conflict_recommendation(variants)
  /\ asked \subseteq Codes /\ settled \subseteq Codes
  /\ touched \subseteq Codes /\ leftOver \subseteq Codes \ touched
  /\ \A c \in Codes : chosen[c] \in Choices
  /\ opened \in Codes \cup {""} /\ bulk \in BOOLEAN
  /\ Len(sent) <= 1 /\ reruns \in 0..MaxReruns

\* Whatever button submits, the request decides every conflict on screen: no conflict
\* is merged that the user left open (BomProcessWizard.tsx:256, :267, :643).
SentCoversAsked ==
  sent # <<>> => \A c \in asked : conflictChoiceComplete(c, sent[1][c])

\* A conflict that is not high confidence is decided by the user, one by one or in the
\* confirmed bulk merge, never by adopting recommendations, unless they were those of an earlier
\* run in which it was: confidence is computed anew from the variants
\* (bom_process.py:975), and the choice is kept
\* (docs/superpowers/specs/2026-07-14-v0.4.0-platform-overhaul-design.md:139).
LowConfidenceIsManual ==
  \A c \in Codes \ Confident : chosen[c] # NoChoice => c \in touched \cup leftOver

\* A conflict that was complete when it was submitted is not asked again in that run:
\* a bulk merge decides "every conflict after one explicit confirmation"
\* (src/frontend/src/test/bom-conflict-ui.test.tsx:94).
DecidedIsNotAskedAgain == sent = <<>> => asked \cap settled = {}
==============================================================================
