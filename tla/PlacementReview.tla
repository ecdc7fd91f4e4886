--------------------------- MODULE PlacementReview ---------------------------
(***************************************************************************)
(* The review of what is placed on the board                               *)
(* (src/frontend/src/tools/PlacementReview.tsx): every group of positions  *)
(* is put in the SMT zone or out of it before the BOM is made.             *)
(*                                                                         *)
(* A text is one of "none" (empty), "blank" (spaces), "ok" and "bad" (a    *)
(* placeholder or mojibake, invalidText; the backend's _valid_value says   *)
(* the same of all but a full-width brace).  One descriptive field, name,    *)
(* stands for name, model and desc, any of which will do; the fields that  *)
(* decide nothing are left out.  "none" is also the empty destination,     *)
(* exclusion and subtype.                                                  *)
(***************************************************************************)
EXTENDS Naturals, Sequences

CONSTANTS
  GroupOrder,     \* the groups of the backend, in its order
  GroupFacts,     \* what the backend says of each
  PageSize,       \* PAGE_SIZE
  OfferedRoles, OfferedKinds, OfferedTexts, OfferedFilters,  \* what the user tries: a bound
  NoResolution, LegacyResolution

VARIABLES
  arrived,        \* the groups have been received and seeded
  decided,        \* the resolution of each group
  filter, pages,  \* the filter and the page of each zone
  active,         \* the group in the detail pane
  offer           \* the resolutions the dialog of "adopt all" closed over

placementVars == <<arrived, decided, filter, pages, active, offer>>

GroupKeys == {GroupOrder[i] : i \in 1..Len(GroupOrder)}
Zones == {"smt", "non_smt"}
Filters == {"pending", "all", "electronic", "mechanical", "shield", "process", "nc", "insufficient"}
Kinds == {"none", "nc", "process_only", "scope_excluded", "user_excluded"}
Roles == {"electronic", "smt_mechanical", "shield", "test_point", "short_symbol",
          "mounting_hole", "fiducial", "unknown"}
Subtypes == {"bracket", "cover", "other"}
Texts == {"none", "blank", "ok", "bad"}
Resolutions == [destination : Zones \cup {"none"}, exclusion : Kinds, role : Roles,
                subtype : Subtypes \cup {"none"}, code : Texts, name : Texts,
                source : {"rule", "history_exact", "user"}]

usableText(text) == IF text = "bad" THEN "none" ELSE text
OrElse(text, other) == IF text # "none" THEN text ELSE other

\* inferred_fields, as the backend fills them in: a suggested code replaces the one of the
\* row; a suggested part number of the manufacturer stands in for a name the row lacks.
inferredCode(k) ==
  LET g == GroupFacts[k]
  IN  OrElse(g.suggestedCode, IF g.givenCode = "ok" THEN "ok" ELSE "none")

inferredName(k) ==
  LET g == GroupFacts[k]
  IN  IF g.givenName = "ok" /\ ~g.residue THEN "ok" ELSE g.mpn

-----------------------------------------------------------------------------
(* Resolutions *)

blankResolution(k) ==
  LET g == GroupFacts[k]
  IN  [destination |-> "none", exclusion |-> "none", role |-> g.role,
       subtype |-> IF g.role = "shield" THEN g.subtype ELSE "none",
       code |-> OrElse(usableText(inferredCode(k)), usableText(g.suggestedCode)),
       name |-> usableText(inferredName(k)), source |-> "user"]

\* Slip: a saved subtype "other" is not known.
normalizeKnowsTwo(k, raw) ==
  LET blank == blankResolution(k)
  IN  IF raw \in {NoResolution, LegacyResolution} THEN blank
      ELSE [raw EXCEPT
              !.exclusion = IF raw.destination = "smt" THEN "none" ELSE @,
              !.subtype = IF raw.role # "shield" THEN "none"
                          ELSE IF @ \in {"bracket", "cover"} THEN @ ELSE blank.subtype,
              !.code = IF @ = "bad" THEN blank.code ELSE @,
              !.name = IF @ = "bad" THEN blank.name ELSE @]

\* A resolution of an older version, with an action and no destination, is dropped.
normalizeResolution(k, raw) ==
  LET blank == blankResolution(k)
  IN  IF raw \in {NoResolution, LegacyResolution} THEN blank
      ELSE [raw EXCEPT
              !.exclusion = IF raw.destination = "smt" THEN "none" ELSE @,
              !.subtype = IF raw.role # "shield" THEN "none"
                          ELSE IF @ \in Subtypes THEN @ ELSE blank.subtype,
              !.code = IF @ = "bad" THEN blank.code ELSE @,
              !.name = IF @ = "bad" THEN blank.name ELSE @]

\* Slip: what was decided before is taken as it was stored.
seedKeepsStored(current) ==
  [k \in GroupKeys |->
     LET past == GroupFacts[k].past
     IN  IF current[k] # NoResolution THEN current[k]
         ELSE normalizeResolution(k, IF past = NoResolution THEN NoResolution
                                     ELSE [past EXCEPT !.source = "history_exact"])]

\* What was decided before, else what an exact match of the history decided.
seedPlacementResolutions(current) ==
  [k \in GroupKeys |->
     LET past == GroupFacts[k].past
     IN  normalizeResolution(k,
           IF current[k] # NoResolution THEN current[k]
           ELSE IF past # NoResolution THEN [past EXCEPT !.source = "history_exact"]
           ELSE NoResolution)]

effectiveName(k, r) ==
  LET g == GroupFacts[k]
  IN  OrElse(usableText(r.name), OrElse(usableText(inferredName(k)),
        IF g.residue THEN "none" ELSE usableText(g.givenName)))

effectiveCode(k, r) ==
  LET g == GroupFacts[k]
  IN  OrElse(usableText(r.code), OrElse(usableText(inferredCode(k)), usableText(g.givenCode)))

\* placementResolutionIssue gives the text for the same three conditions.
placementResolutionComplete(k, r) ==
  \/ r.destination = "non_smt"
  \/ r.destination = "smt" /\ effectiveCode(k, r) = "ok" /\ effectiveName(k, r) = "ok"

placementResolutionsComplete ==
  \A k \in GroupKeys : placementResolutionComplete(k, decided[k])

defaultExclusion(k, role) ==
  IF GroupFacts[k].exclusion # "none" THEN GroupFacts[k].exclusion
  ELSE IF role \in {"test_point", "short_symbol", "mounting_hole", "fiducial"} THEN "process_only"
  ELSE "user_excluded"

\* Slip: a shield keeps its subtype when it is moved.
moveKeepsSubtype(k, r, zone, source) ==
  [r EXCEPT !.destination = zone, !.source = source,
            !.exclusion = IF zone = "smt" THEN "none"
                          ELSE IF r.subtype = "cover" THEN "scope_excluded"
                          ELSE defaultExclusion(k, r.role)]

placementResolutionForDestination(k, r, zone, source) ==
  LET subtype == IF r.role = "shield" /\ r.subtype # "other"
                 THEN IF zone = "smt" THEN "bracket" ELSE "cover" ELSE r.subtype
  IN  [r EXCEPT !.destination = zone, !.source = source, !.subtype = subtype,
                !.exclusion = IF zone = "smt" THEN "none"
                              ELSE IF subtype = "cover" THEN "scope_excluded"
                              ELSE defaultExclusion(k, r.role)]

pendingRecommendations ==
  {k \in GroupKeys : decided[k].destination = "none" /\ GroupFacts[k].suggested # "none"}

\* Slip: a group that is decided is taken along.
recommendEverything ==
  [k \in GroupKeys |->
     IF GroupFacts[k].suggested # "none"
     THEN placementResolutionForDestination(k, decided[k], GroupFacts[k].suggested, "rule")
     ELSE decided[k]]

buildRecommendedPlacementResolutions ==
  [k \in GroupKeys |->
     IF k \in pendingRecommendations
     THEN placementResolutionForDestination(k, decided[k], GroupFacts[k].suggested, "rule")
     ELSE decided[k]]

-----------------------------------------------------------------------------
(* The two lists *)

roleBucket(k) ==
  LET g == GroupFacts[k]
  IN  IF g.role = "shield" THEN "shield"
      ELSE IF g.role \in {"smt_mechanical", "mounting_hole"} THEN "mechanical"
      ELSE IF g.role \in {"test_point", "short_symbol", "fiducial"} THEN "process"
      ELSE IF g.state = "confirmed_nc" THEN "nc"
      ELSE IF g.state = "insufficient_data" THEN "insufficient"
      ELSE "electronic"

displayDestination(k) ==
  IF decided[k].destination # "none" THEN decided[k].destination
  ELSE IF GroupFacts[k].suggested # "none" THEN GroupFacts[k].suggested
  ELSE IF GroupFacts[k].state = "suspected_process" THEN "non_smt"
  ELSE "smt"

Listed(k) == \/ filter = "all"
             \/ filter = "pending" /\ ~placementResolutionComplete(k, decided[k])
             \/ filter = roleBucket(k)

Zone(zone) == SelectSeq(GroupOrder, LAMBDA k : Listed(k) /\ displayDestination(k) = zone)

LastPage(zone) == IF Zone(zone) = <<>> THEN 1
                  ELSE (Len(Zone(zone)) + PageSize - 1) \div PageSize

\* The slice of the page that was chosen.  The pager shows that page clamped to the
\* last one, the slice does not.
OnPage(zone) ==
  {Zone(zone)[i] : i \in {n \in 1..Len(Zone(zone)) :
     (pages[zone] - 1) * PageSize < n /\ n <= pages[zone] * PageSize}}

-----------------------------------------------------------------------------
(* Actions *)

PlacementInit ==
  /\ arrived = FALSE
  /\ decided \in [GroupKeys -> {NoResolution, LegacyResolution}]
  /\ filter = "pending" /\ pages = [z \in Zones |-> 1]
  /\ active = GroupOrder[1] /\ offer = NoResolution

Reviewing == arrived /\ offer = NoResolution

\* The groups arrive, for the first time, again after "back" or after a reload: the
\* effect of the wizard seeds the resolutions and the pane starts anew.
Arrive ==
  /\ offer = NoResolution
  /\ arrived' = TRUE /\ decided' = seedPlacementResolutions(decided)
  /\ filter' = "pending" /\ pages' = [z \in Zones |-> 1]
  /\ active' = GroupOrder[1] /\ UNCHANGED offer

\* selectGroup, from a row.
SelectGroup(k) ==
  /\ Reviewing /\ \E z \in Zones : k \in OnPage(z)
  /\ active' = k /\ UNCHANGED <<arrived, decided, filter, pages, offer>>

\* moveGroup, from the arrows, the tick or the arrow keys of a row.
MoveGroup(k, zone) ==
  /\ Reviewing /\ \E z \in Zones : k \in OnPage(z)
  /\ decided' = [decided EXCEPT
                   ![k] = placementResolutionForDestination(k, @, zone, "user")]
  /\ active' = k /\ UNCHANGED <<arrived, filter, pages, offer>>

Update(r) ==
  /\ Reviewing /\ r # decided[active]
  /\ decided' = [decided EXCEPT ![active] = [r EXCEPT !.source = "user"]]
  /\ UNCHANGED <<arrived, filter, pages, active, offer>>

ChooseRole(role) ==
  /\ ~GroupFacts[active].review
  /\ Update([decided[active] EXCEPT !.role = role,
               !.subtype = IF role = "shield" THEN @ ELSE "none"])

ChooseExclusion(kind) ==
  /\ decided[active].destination = "non_smt"
  /\ Update([decided[active] EXCEPT !.exclusion = kind])

ShieldChoiceShown == decided[active].role = "shield" \/ GroupFacts[active].review

ChooseShieldSubtype(subtype) ==
  /\ ShieldChoiceShown
  /\ Update([decided[active] EXCEPT !.subtype = subtype, !.role = "shield",
               !.destination = CASE subtype = "bracket" -> "smt"
                                 [] subtype = "cover" -> "non_smt" [] OTHER -> @,
               !.exclusion = CASE subtype = "bracket" -> "none"
                               [] subtype = "cover" -> "scope_excluded" [] OTHER -> @])

EditCode(text) == Update([decided[active] EXCEPT !.code = text])
EditName(text) == Update([decided[active] EXCEPT !.name = text])

\* applyAllRecommendations: what will be set is computed before the user confirms.
AskRecommendations ==
  /\ Reviewing /\ pendingRecommendations # {}
  /\ offer' = buildRecommendedPlacementResolutions
  /\ UNCHANGED <<arrived, decided, filter, pages, active>>

AnswerRecommendations(ok) ==
  /\ offer # NoResolution /\ offer' = NoResolution
  /\ decided' = IF ok THEN offer ELSE decided
  /\ UNCHANGED <<arrived, filter, pages, active>>

SetFilter(f) ==
  /\ Reviewing /\ f # filter
  /\ filter' = f /\ pages' = [z \in Zones |-> 1]
  /\ UNCHANGED <<arrived, decided, active, offer>>

SetPage(zone, page) ==
  /\ Reviewing /\ page # pages[zone]
  /\ pages' = [pages EXCEPT ![zone] = page]
  /\ UNCHANGED <<arrived, decided, filter, active, offer>>

PlacementNext ==
  \/ Arrive \/ AskRecommendations
  \/ \E k \in GroupKeys : SelectGroup(k) \/ \E z \in Zones : MoveGroup(k, z)
  \/ \E role \in OfferedRoles : Reviewing /\ ChooseRole(role)
  \/ \E kind \in OfferedKinds : Reviewing /\ ChooseExclusion(kind)
  \/ \E s \in Subtypes : Reviewing /\ ChooseShieldSubtype(s)
  \/ \E t \in OfferedTexts : Reviewing /\ (EditCode(t) \/ EditName(t))
  \/ \E ok \in BOOLEAN : AnswerRecommendations(ok)
  \/ \E f \in OfferedFilters : SetFilter(f)
  \/ Reviewing /\ \E z \in Zones : \E p \in 1..LastPage(z) : SetPage(z, p)

PlacementSpec == PlacementInit /\ [][PlacementNext]_placementVars

-----------------------------------------------------------------------------
(* The backend *)

\* _normalize_resolution: what the backend adds to a resolution it receives.
backendResolution(k, r) ==
  LET g == GroupFacts[k]
      kind == IF r.destination = "non_smt" /\ r.exclusion = "none"
              THEN IF g.exclusion # "none" THEN g.exclusion
                   ELSE IF g.state = "suspected_process" THEN "process_only"
                   ELSE "user_excluded"
              ELSE r.exclusion
      subtype == IF r.role = "shield" /\ kind # "nc" /\ r.subtype = "none"
                 THEN IF r.destination = "smt" THEN "bracket" ELSE OrElse(g.subtype, "cover")
                 ELSE r.subtype
  IN  [r EXCEPT !.subtype = subtype,
                !.exclusion = IF r.role = "shield" /\ subtype = "cover"
                              THEN "scope_excluded" ELSE kind]

\* PlacementResolution.validate.
validate(r) ==
  /\ r.destination \in Zones
  /\ r.destination = "smt" <=> r.exclusion = "none"
  /\ r.role = "shield" /\ r.exclusion # "nc" => r.subtype \in Subtypes
  /\ r.role = "shield" /\ r.subtype = "bracket" => r.destination = "smt"
  /\ r.role = "shield" /\ r.subtype = "cover" =>
       r.destination = "non_smt" /\ r.exclusion = "scope_excluded"

\* What row.value gives of a text: cleaned, and not looked at any further.
Cleaned(text) == IF text = "blank" THEN "none" ELSE text

\* It, and the two checks of apply_resolutions: of the resolution what is valid, of the row
\* whatever it holds, and the suggested code.  The inferred name is not looked at.
backendAccepts(k, raw) ==
  LET r == backendResolution(k, raw)
      g == GroupFacts[k]
      row(text) == Cleaned(text) # "none"
  IN  /\ validate(r)
      /\ r.destination = "smt" =>
           /\ r.code = "ok" \/ row(g.givenCode) \/ g.suggestedCode # "none"
           /\ r.name = "ok" \/ row(g.givenName)

\* What the backend sends.  Only a forced review makes a shield (bom_classify.py:976), which is
\* a cover where its type is known (:1174); a suggested code is not spaces; and what was decided
\* before comes from a record that was validated when it was written (bom_domain.py:220).
\* Nothing saved, a saved resolution of an older version and no dialog are values of their own.
ASSUME PlacementAssumption ==
  /\ Len(GroupOrder) \in Nat \ {0}
  /\ OfferedRoles \subseteq Roles /\ OfferedKinds \subseteq Kinds
  /\ OfferedTexts \subseteq Texts /\ OfferedFilters \subseteq Filters
  /\ {NoResolution, LegacyResolution} \cap Resolutions = {}
  /\ NoResolution \notin [GroupKeys -> Resolutions]
  /\ \A k \in GroupKeys :
       LET g == GroupFacts[k]
       IN  /\ g.role \in Roles /\ (g.role = "shield" => g.review)
           /\ g.subtype \in {"none", "cover"}
           /\ g.suggested \in Zones \cup {"none"} /\ g.exclusion \in Kinds
           /\ {g.givenCode, g.givenName, g.suggestedCode} \subseteq Texts
           /\ g.suggestedCode # "blank" /\ g.mpn \in {"none", "ok"} /\ g.residue \in BOOLEAN
           /\ g.past = NoResolution \/ (g.past \in Resolutions /\ validate(g.past))

-----------------------------------------------------------------------------
(* Properties *)

PlacementTypeOK ==
  /\ arrived \in BOOLEAN
  /\ decided \in [GroupKeys -> Resolutions \cup {NoResolution, LegacyResolution}]
  /\ filter \in Filters
  /\ pages \in [Zones -> Nat \ {0}]
  /\ active \in GroupKeys
  /\ offer = NoResolution \/ offer \in [GroupKeys -> Resolutions]
  /\ arrived => decided \in [GroupKeys -> Resolutions]

\* The user has cleared the name the backend suggested for a row that has none of its own:
\* the pane still counts the suggestion (PlacementReview.tsx:278), apply_resolutions does not.
SuggestionCleared(k, r) ==
  /\ r.destination = "smt" /\ GroupFacts[k].mpn = "ok"
  /\ usableText(r.name) = "none" /\ Cleaned(GroupFacts[k].givenName) = "none"

\* What the pane counts as complete, the backend accepts, but for a suggestion that was
\* cleared: no order of choosing roles, subtypes and zones, editing, adopting recommendations
\* and coming back ends in another resolution that bom_domain.py:197 or apply_resolutions
\* refuses with the button enabled (PlacementReview.tsx:897).
CompleteIsAccepted ==
  arrived => \A k \in GroupKeys : placementResolutionComplete(k, decided[k]) =>
    (backendAccepts(k, decided[k]) <=> ~SuggestionCleared(k, decided[k]))

\* Coming back to the review, or reloading it, changes no zone, exclusion, role or
\* subtype the user decided and makes nothing complete incomplete
\* (PlacementReview.tsx:232-273).
ReloadKeepsDecisions ==
  arrived => \A k \in GroupKeys :
    LET again == normalizeResolution(k, decided[k])
    IN  /\ [again EXCEPT !.code = "none", !.name = "none"]
             = [decided[k] EXCEPT !.code = "none", !.name = "none"]
        /\ placementResolutionComplete(k, decided[k]) => placementResolutionComplete(k, again)

\* A group that has a zone leaves it only when the user acts on that group: neither
\* adopting all recommendations nor seeding again moves it (PlacementReview.tsx:392).
DecidedStays ==
  [][\A k \in GroupKeys :
       arrived /\ decided[k].destination # "none" /\ k # active' =>
         decided'[k].destination = decided[k].destination]_placementVars
==============================================================================
