----------------------------- MODULE ReviewProofs -----------------------------
(***************************************************************************)
(* Theorems about the placement review, the conflict review and the lists  *)
(* of the platform.  Each has an inductive invariant: PlacementInv,        *)
(* ConflictInv and ListsInv.                                               *)
(***************************************************************************)
EXTENDS PlacementReview, ConflictReview, PlatformLists, TLAPS

-----------------------------------------------------------------------------
(* The placement review *)

\* What the pane and the backend agree on of a resolution.
Fits(k, r) ==
  /\ r \in Resolutions
  /\ r.destination = "smt" => r.exclusion = "none"
  /\ r.role # "shield" => r.subtype = "none"
  /\ r.role = "shield" =>
       /\ r.subtype = "bracket" => r.destination # "non_smt"
       /\ r.subtype = "cover" => r.destination # "smt"
       /\ r.subtype = "none" => blankResolution(k).subtype = "none"

\* Every group fits once the groups are there, and the dialog of "adopt all" still offers what
\* it was computed from.
PlacementInv ==
  /\ arrived \in BOOLEAN /\ active \in GroupKeys
  /\ DOMAIN decided = GroupKeys
  /\ IF arrived THEN \A k \in GroupKeys : Fits(k, decided[k])
     ELSE \A k \in GroupKeys : decided[k] \in {NoResolution, LegacyResolution}
  /\ offer # NoResolution => arrived /\ offer = buildRecommendedPlacementResolutions

-----------------------------------------------------------------------------
\* What is set without a decision.
LEMMA BlankFields ==
  ASSUME NEW k \in GroupKeys
  PROVE  LET b == blankResolution(k)
             g == GroupFacts[k]
         IN /\ b \in Resolutions /\ b.destination = "none" /\ b.exclusion = "none" /\ b.role = g.role
            /\ b.subtype = (IF g.role = "shield" THEN g.subtype ELSE "none")
            /\ b.code = OrElse(usableText(inferredCode(k)), usableText(g.suggestedCode))
            /\ b.name = usableText(inferredName(k))
            /\ Fits(k, b)
<1> DEFINE g == GroupFacts[k]
<1>1. /\ g.role \in Roles /\ g.subtype \in {"none", "cover"}
      /\ g.suggestedCode \in Texts /\ g.mpn \in {"none", "ok"}
  BY PlacementAssumption
<1>2. /\ OrElse(usableText(inferredCode(k)), usableText(g.suggestedCode)) \in Texts
      /\ usableText(inferredName(k)) \in Texts
  BY <1>1 DEF OrElse, usableText, Texts, inferredCode, inferredName
<1>3. blankResolution(k) \in Resolutions
  BY <1>1, <1>2 DEF blankResolution, Resolutions, Kinds, Subtypes
<1> QED BY <1>1, <1>3 DEF blankResolution, Fits

\* Normalizing a resolution changes these fields only.
LEMMA NormalizedFields ==
  ASSUME NEW k \in GroupKeys, NEW r \in Resolutions
  PROVE  LET n == normalizeResolution(k, r)
             b == blankResolution(k)
         IN /\ n \in Resolutions /\ n.destination = r.destination /\ n.role = r.role
            /\ n.exclusion = (IF r.destination = "smt" THEN "none" ELSE r.exclusion)
            /\ n.subtype = (IF r.role # "shield" THEN "none"
                            ELSE IF r.subtype \in Subtypes THEN r.subtype ELSE b.subtype)
            /\ n.code = (IF r.code = "bad" THEN b.code ELSE r.code)
            /\ n.name = (IF r.name = "bad" THEN b.name ELSE r.name)
            /\ n.source = r.source
<1> DEFINE b == blankResolution(k)
           n == normalizeResolution(k, r)
<1>1. r \notin {NoResolution, LegacyResolution}
  BY PlacementAssumption
<1>2. b \in Resolutions
  BY BlankFields
<1> HIDE DEF b
<1>3. n = [r EXCEPT !.exclusion = IF r.destination = "smt" THEN "none" ELSE @,
                    !.subtype = IF r.role # "shield" THEN "none"
                                ELSE IF @ \in Subtypes THEN @ ELSE b.subtype,
                    !.code = IF @ = "bad" THEN b.code ELSE @,
                    !.name = IF @ = "bad" THEN b.name ELSE @]
  BY <1>1 DEF normalizeResolution, b
<1> HIDE DEF n
<1>4. b.subtype \in Subtypes \cup {"none"} /\ b.code \in Texts /\ b.name \in Texts
  BY <1>2 DEF Resolutions
<1> QED BY <1>3, <1>4 DEF Resolutions, Kinds, n, b

\* Normalizing what fits, or what was decided before, fits.
LEMMA NormalizedFits ==
  ASSUME NEW k \in GroupKeys, NEW r \in Resolutions, Fits(k, r) \/ validate(r)
  PROVE  Fits(k, normalizeResolution(k, r)) /\ (r.destination = "smt" => r.exclusion = "none")
<1> DEFINE b == blankResolution(k)
           n == normalizeResolution(k, r)
<1>1. b.subtype \in {"none", "cover"}
  BY BlankFields, PlacementAssumption
<1>2. r.destination = "smt" => r.exclusion = "none"
  BY DEF Fits, validate
<1>3. CASE Fits(k, r)
  <2>1. /\ n \in Resolutions /\ n.destination = r.destination /\ n.role = r.role
        /\ n.exclusion = (IF r.destination = "smt" THEN "none" ELSE r.exclusion)
        /\ n.subtype = (IF r.role # "shield" THEN "none"
                        ELSE IF r.subtype \in Subtypes THEN r.subtype ELSE b.subtype)
    BY NormalizedFields
  <2> HIDE DEF n
  <2>2. r.role = "shield" => r.subtype \in Subtypes \cup {"none"}
    BY DEF Resolutions
  <2>3. r.role = "shield" /\ r.subtype = "none" => b.subtype = "none"
    BY <1>3 DEF Fits
  <2> QED BY <1>2, <1>3, <2>1, <2>2, <2>3 DEF Fits, Subtypes, n
<1>4. CASE validate(r)
  <2>1. /\ n \in Resolutions /\ n.destination = r.destination /\ n.role = r.role
        /\ n.exclusion = (IF r.destination = "smt" THEN "none" ELSE r.exclusion)
        /\ n.subtype = (IF r.role # "shield" THEN "none"
                        ELSE IF r.subtype \in Subtypes THEN r.subtype ELSE b.subtype)
    BY NormalizedFields
  <2> HIDE DEF n, b
  <2>2. r.role = "shield" /\ r.subtype \notin Subtypes => r.destination # "smt"
    BY <1>4 DEF validate
  <2> QED BY <1>1, <1>4, <2>1, <2>2 DEF Fits, validate, Subtypes, Zones, n, b
<1> QED BY <1>2, <1>3, <1>4

\* Every resolution fits that the groups are seeded with.
LEMMA SeedFits ==
  ASSUME PlacementInv, NEW k \in GroupKeys
  PROVE  /\ Fits(k, seedPlacementResolutions(decided)[k])
         /\ arrived => seedPlacementResolutions(decided)[k].destination = decided[k].destination
<1> DEFINE past == GroupFacts[k].past
           seed == seedPlacementResolutions(decided)[k]
<1>0. seed = normalizeResolution(k, IF decided[k] # NoResolution THEN decided[k]
                                    ELSE IF past # NoResolution THEN [past EXCEPT !.source = "history_exact"]
                                    ELSE NoResolution)
  BY DEF seedPlacementResolutions
<1>1. CASE arrived
  <2>1. decided[k] \in Resolutions /\ Fits(k, decided[k]) /\ decided[k] # NoResolution
    BY <1>1, PlacementAssumption DEF PlacementInv, Fits
  <2>2. seed = normalizeResolution(k, decided[k])
    BY <1>0, <2>1
  <2> QED BY <2>1, <2>2, NormalizedFits, NormalizedFields
<1>2. CASE ~arrived /\ (decided[k] # NoResolution \/ past = NoResolution)
  <2>1. \A raw \in {NoResolution, LegacyResolution} : normalizeResolution(k, raw) = blankResolution(k)
    BY DEF normalizeResolution
  <2>2. decided[k] \in {NoResolution, LegacyResolution}
    BY <1>2 DEF PlacementInv
  <2>3. seed = normalizeResolution(k, LegacyResolution) \/ seed = normalizeResolution(k, NoResolution)
    <3>1. CASE decided[k] # NoResolution
      BY <1>0, <2>2, <3>1
    <3>2. CASE decided[k] = NoResolution
      BY <1>0, <1>2, <3>2
    <3> QED BY <3>1, <3>2
  <2>4. seed = blankResolution(k)
    BY <2>1, <2>3
  <2> QED BY <1>2, <2>4, BlankFields
<1>3. CASE ~arrived /\ decided[k] = NoResolution /\ past # NoResolution
  <2>1. past \in Resolutions /\ validate(past)
    BY <1>3, PlacementAssumption
  <2> DEFINE r == [past EXCEPT !.source = "history_exact"]
  <2>2. r \in Resolutions /\ validate(r)
    BY <2>1 DEF Resolutions, validate
  <2>3. seed = normalizeResolution(k, r)
    BY <1>0, <1>3
  <2> HIDE DEF r
  <2> QED BY <1>3, <2>2, <2>3, NormalizedFits
<1> QED BY <1>1, <1>2, <1>3 DEF PlacementInv

\* A resolution that fits is one that fits when its group is moved.
LEMMA MovedFits ==
  ASSUME NEW k \in GroupKeys, NEW r, Fits(k, r), NEW zone \in Zones, NEW source \in {"rule", "user"}
  PROVE  LET m == placementResolutionForDestination(k, r, zone, source)
         IN Fits(k, m) /\ m.destination = zone
<1>1. GroupFacts[k].exclusion \in Kinds
  BY PlacementAssumption
<1>2. defaultExclusion(k, r.role) \in Kinds
  BY <1>1 DEF defaultExclusion, Kinds
<1> DEFINE m == placementResolutionForDestination(k, r, zone, source)
           subtype == IF r.role = "shield" /\ r.subtype # "other"
                      THEN IF zone = "smt" THEN "bracket" ELSE "cover" ELSE r.subtype
           kind == IF zone = "smt" THEN "none" ELSE IF subtype = "cover" THEN "scope_excluded"
                   ELSE defaultExclusion(k, r.role)
<1>3. subtype \in Subtypes \cup {"none"} /\ kind \in Kinds
  BY <1>2 DEF Fits, Resolutions, Subtypes, Kinds
<1>4. m = [r EXCEPT !.destination = zone, !.source = source, !.subtype = subtype, !.exclusion = kind]
  BY DEF placementResolutionForDestination
<1>5. /\ m \in Resolutions /\ m.destination = zone /\ m.subtype = subtype /\ m.exclusion = kind
      /\ m.role = r.role
  <2> HIDE DEF subtype, kind, m
  <2> QED BY <1>3, <1>4 DEF Fits, Resolutions
<1> QED BY <1>5 DEF Fits, Zones

\* The backend accepts what fits and is counted as complete, but for a suggestion that was cleared.
LEMMA FitsAccepted ==
  ASSUME NEW k \in GroupKeys, NEW r, Fits(k, r), placementResolutionComplete(k, r)
  PROVE  backendAccepts(k, r) <=> ~SuggestionCleared(k, r)
<1> DEFINE g == GroupFacts[k]
           kind == IF r.destination = "non_smt" /\ r.exclusion = "none"
                   THEN IF g.exclusion # "none" THEN g.exclusion
                        ELSE IF g.state = "suspected_process" THEN "process_only"
                        ELSE "user_excluded"
                   ELSE r.exclusion
           subtype == IF r.role = "shield" /\ kind # "nc" /\ r.subtype = "none"
                      THEN IF r.destination = "smt" THEN "bracket" ELSE OrElse(g.subtype, "cover")
                      ELSE r.subtype
           a == backendResolution(k, r)
<1>1. /\ g.subtype \in {"none", "cover"} /\ g.exclusion \in Kinds
      /\ r \in Resolutions /\ r.destination \in Zones
  BY PlacementAssumption DEF placementResolutionComplete, Zones, Fits
<1>2. /\ a.destination = r.destination /\ a.role = r.role /\ a.subtype = subtype
      /\ a.exclusion = (IF r.role = "shield" /\ subtype = "cover" THEN "scope_excluded" ELSE kind)
      /\ a.code = r.code /\ a.name = r.name
  <2>1. a = [r EXCEPT !.subtype = subtype,
                      !.exclusion = IF r.role = "shield" /\ subtype = "cover" THEN "scope_excluded" ELSE kind]
    BY DEF backendResolution
  <2> HIDE DEF a, subtype, kind
  <2> QED BY <1>1, <2>1 DEF Resolutions
<1>3. validate(a)
  <2>1. OrElse(g.subtype, "cover") = "cover"
    BY <1>1 DEF OrElse
  <2>2. kind # "none" <=> r.destination = "non_smt"
    BY <1>1 DEF Fits, Zones
  <2> HIDE DEF a
  <2>3. subtype \in Subtypes \/ r.role # "shield" \/ kind = "nc"
    BY <1>1, <2>1 DEF Resolutions, Subtypes
  <2>4. CASE r.role = "shield" /\ subtype = "cover"
    <3>1. r.destination = "non_smt"
      BY <1>1, <2>4 DEF Fits, Zones
    <3> QED BY <1>1, <1>2, <2>4, <3>1 DEF validate, Subtypes
  <2>5. CASE ~(r.role = "shield" /\ subtype = "cover")
    <3>1. r.role = "shield" /\ subtype = "bracket" => r.destination = "smt"
      BY <1>1, <2>1 DEF Fits, Zones
    <3> HIDE DEF subtype, kind
    <3> QED BY <1>1, <1>2, <2>2, <2>3, <2>5, <3>1 DEF validate, Zones
  <2> QED BY <2>4, <2>5
<1>4. CASE r.destination = "non_smt"
  BY <1>2, <1>3, <1>4 DEF backendAccepts, SuggestionCleared
<1>5. CASE r.destination = "smt"
  <2>1. effectiveCode(k, r) = "ok" /\ effectiveName(k, r) = "ok"
    BY <1>5 DEF placementResolutionComplete
  <2>2. /\ g.suggestedCode \in Texts /\ g.givenCode \in Texts /\ g.givenName \in Texts
        /\ g.mpn \in {"none", "ok"} /\ r.code \in Texts /\ r.name \in Texts
    BY <1>1, PlacementAssumption DEF Resolutions
  <2>3. r.code = "ok" \/ Cleaned(g.givenCode) # "none" \/ g.suggestedCode # "none"
    BY <2>1 DEF effectiveCode, inferredCode, OrElse, usableText, Cleaned
  <2>4. (r.name = "ok" \/ Cleaned(g.givenName) # "none") <=> ~SuggestionCleared(k, r)
    <3>1. CASE r.name \in {"ok", "blank"}
      BY <2>1, <3>1 DEF effectiveName, OrElse, usableText, SuggestionCleared
    <3>2. CASE r.name \in {"none", "bad"}
      <4>1. inferredName(k) = "ok" \/ g.givenName = "ok"
        BY <2>1, <3>2 DEF effectiveName, OrElse, usableText
      <4>2. g.mpn = "ok" \/ Cleaned(g.givenName) # "none"
        BY <4>1 DEF inferredName, Cleaned
      <4> QED BY <1>5, <3>2, <4>2 DEF usableText, SuggestionCleared
    <3> QED BY <2>2, <3>1, <3>2 DEF Texts
  <2> QED BY <1>2, <1>3, <1>5, <2>3, <2>4 DEF backendAccepts
<1> QED BY <1>1, <1>4, <1>5 DEF Zones

\* Reloading what fits loses nothing of it.
LEMMA FitsReloads ==
  ASSUME NEW k \in GroupKeys, NEW r, Fits(k, r)
  PROVE  LET again == normalizeResolution(k, r)
         IN /\ [again EXCEPT !.code = "none", !.name = "none"] = [r EXCEPT !.code = "none", !.name = "none"]
            /\ placementResolutionComplete(k, r) => placementResolutionComplete(k, again)
<1> DEFINE again == normalizeResolution(k, r)
           g == GroupFacts[k]
           b == blankResolution(k)
<1>0. r \in Resolutions
  BY DEF Fits
<1>1. /\ again \in Resolutions /\ again.destination = r.destination /\ again.role = r.role
      /\ again.exclusion = (IF r.destination = "smt" THEN "none" ELSE r.exclusion)
      /\ again.subtype = (IF r.role # "shield" THEN "none"
                          ELSE IF r.subtype \in Subtypes THEN r.subtype ELSE b.subtype)
      /\ again.code = (IF r.code = "bad" THEN b.code ELSE r.code)
      /\ again.name = (IF r.name = "bad" THEN b.name ELSE r.name)
      /\ again.source = r.source
  BY <1>0, NormalizedFields
<1>2. /\ b.code = OrElse(usableText(inferredCode(k)), usableText(g.suggestedCode))
      /\ b.name = usableText(inferredName(k))
  BY BlankFields
<1>3. /\ g.suggestedCode \in Texts /\ g.suggestedCode # "blank" /\ g.mpn \in {"none", "ok"}
      /\ inferredCode(k) \in Texts \ {"blank"} /\ inferredName(k) \in Texts
      /\ g.givenCode \in Texts /\ g.givenName \in Texts
  BY PlacementAssumption DEF inferredCode, inferredName, OrElse, Texts
<1> HIDE DEF again, b
<1>4. again.exclusion = r.exclusion /\ again.subtype = r.subtype
  BY <1>0, <1>1 DEF Fits, Resolutions, b
<1>5. effectiveCode(k, r) = "ok" => effectiveCode(k, again) = "ok"
  BY <1>1, <1>2, <1>3 DEF effectiveCode, OrElse, usableText, Texts
<1>6. effectiveName(k, r) = "ok" => effectiveName(k, again) = "ok"
  BY <1>1, <1>2, <1>3 DEF effectiveName, OrElse, usableText, Texts
<1>7. [again EXCEPT !.code = "none", !.name = "none"] = [r EXCEPT !.code = "none", !.name = "none"]
  BY <1>0, <1>1, <1>4 DEF Resolutions
<1>8. placementResolutionComplete(k, r) => placementResolutionComplete(k, again)
  BY <1>1, <1>5, <1>6 DEF placementResolutionComplete
<1> QED BY <1>7, <1>8 DEF again

\* What the form writes is the decision of the group in the detail pane.
LEMMA UpdateFits ==
  ASSUME PlacementInv, NEW r, Update(r), Fits(active, r)
  PROVE  PlacementInv'
<1> DEFINE u == [r EXCEPT !.source = "user"]
<1>1. /\ arrived /\ offer = NoResolution /\ decided' = [decided EXCEPT ![active] = u]
      /\ UNCHANGED <<arrived, active, offer>>
  BY DEF Update, Reviewing
<1>2. Fits(active, u)
  BY DEF Fits, Resolutions
<1> HIDE DEF u
<1>3. \A k \in GroupKeys : Fits(k, decided'[k])
  BY <1>1, <1>2 DEF PlacementInv
<1> QED BY <1>1, <1>3 DEF PlacementInv

\* Everything the form offers fits.
LEMMA FormFits ==
  ASSUME PlacementInv,
         \/ \E role \in OfferedRoles : Reviewing /\ ChooseRole(role)
         \/ \E kind \in OfferedKinds : Reviewing /\ ChooseExclusion(kind)
         \/ \E s \in Subtypes : Reviewing /\ ChooseShieldSubtype(s)
         \/ \E t \in OfferedTexts : Reviewing /\ (EditCode(t) \/ EditName(t))
  PROVE  /\ PlacementInv' /\ active' = active
         /\ \A k \in GroupKeys : k # active => decided'[k] = decided[k]
<1> DEFINE r == decided[active]
<1>0. /\ active \in GroupKeys /\ Fits(active, r) /\ r \in Resolutions
      /\ (GroupFacts[active].role = "shield" => GroupFacts[active].review)
  BY PlacementAssumption DEF PlacementInv, Reviewing, Fits
<1>1. \A q : Update(q) => active' = active /\ \A k \in GroupKeys : k # active => decided'[k] = decided[k]
  BY DEF Update, PlacementInv
<1>2. ASSUME NEW role \in OfferedRoles, ChooseRole(role) PROVE \E q : Update(q) /\ Fits(active, q)
  <2> DEFINE q == [r EXCEPT !.role = role, !.subtype = IF role = "shield" THEN @ ELSE "none"]
  <2>1. Update(q) /\ ~GroupFacts[active].review /\ role \in Roles
    BY <1>2, PlacementAssumption DEF ChooseRole
  <2>2. blankResolution(active).subtype = "none"
    BY <1>0, <2>1, BlankFields
  <2>3. Fits(active, q)
    BY <1>0, <2>1, <2>2 DEF Fits, Resolutions
  <2> QED BY <2>1, <2>3
<1>3. ASSUME NEW kind \in OfferedKinds, ChooseExclusion(kind) PROVE \E q : Update(q) /\ Fits(active, q)
  <2> DEFINE q == [r EXCEPT !.exclusion = kind]
  <2>1. Update(q) /\ r.destination = "non_smt" /\ kind \in Kinds
    BY <1>3, PlacementAssumption DEF ChooseExclusion
  <2>2. Fits(active, q)
    BY <1>0, <2>1 DEF Fits, Resolutions
  <2> QED BY <2>1, <2>2
<1>4. ASSUME NEW s \in Subtypes, ChooseShieldSubtype(s) PROVE \E q : Update(q) /\ Fits(active, q)
  <2> DEFINE q == [r EXCEPT !.subtype = s, !.role = "shield",
                      !.destination = CASE s = "bracket" -> "smt" [] s = "cover" -> "non_smt" [] OTHER -> @,
                      !.exclusion = CASE s = "bracket" -> "none" [] s = "cover" -> "scope_excluded" [] OTHER -> @]
  <2>1. Update(q)
    BY <1>4 DEF ChooseShieldSubtype
  <2>2. /\ q.subtype = s /\ q.role = "shield"
        /\ q.destination = (CASE s = "bracket" -> "smt" [] s = "cover" -> "non_smt" [] OTHER -> r.destination)
        /\ q.exclusion = (CASE s = "bracket" -> "none" [] s = "cover" -> "scope_excluded" [] OTHER -> r.exclusion)
        /\ q.destination \in Zones \cup {"none"} /\ q.exclusion \in Kinds
    BY <1>0 DEF Resolutions, Subtypes, Zones, Kinds
  <2>3. q \in Resolutions
    BY <1>0, <2>2 DEF Resolutions, Roles
  <2> HIDE DEF q
  <2>4. Fits(active, q)
    BY <1>0, <2>2, <2>3 DEF Fits, Subtypes
  <2> QED BY <2>1, <2>4
<1>5. ASSUME NEW t \in OfferedTexts, EditCode(t) \/ EditName(t) PROVE \E q : Update(q) /\ Fits(active, q)
  <2>1. CASE EditCode(t)
    <3>1. Fits(active, [r EXCEPT !.code = t])
      BY <1>0, PlacementAssumption DEF Fits, Resolutions
    <3> QED BY <2>1, <3>1 DEF EditCode
  <2>2. CASE EditName(t)
    <3>1. Fits(active, [r EXCEPT !.name = t])
      BY <1>0, PlacementAssumption DEF Fits, Resolutions
    <3> QED BY <2>2, <3>1 DEF EditName
  <2> QED BY <1>5, <2>1, <2>2
<1>6. \E q : Update(q) /\ Fits(active, q)
  BY <1>2, <1>3, <1>4, <1>5
<1> QED BY <1>1, <1>6, UpdateFits

\* No step of the review puts a group where it does not fit, and none moves one that has a zone
\* but that of the group it is about.
LEMMA PlacementStep ==
  ASSUME PlacementInv, [PlacementNext]_placementVars
  PROVE  /\ PlacementInv'
         /\ \A k \in GroupKeys : arrived /\ decided[k].destination # "none" /\ k # active' =>
              decided'[k].destination = decided[k].destination
<1> USE DEF placementVars
<1>1. CASE Arrive
  <2>1. /\ arrived' = TRUE /\ decided' = seedPlacementResolutions(decided)
        /\ active' = GroupOrder[1] /\ offer' = NoResolution
    BY <1>1 DEF Arrive
  <2>2. GroupOrder[1] \in GroupKeys
    BY PlacementAssumption DEF GroupKeys
  <2>3. DOMAIN decided' = GroupKeys
    BY <2>1 DEF seedPlacementResolutions
  <2>4. \A k \in GroupKeys : /\ Fits(k, decided'[k])
                             /\ arrived => decided'[k].destination = decided[k].destination
    BY <2>1, SeedFits
  <2> QED BY <2>1, <2>2, <2>3, <2>4 DEF PlacementInv
<1>2. CASE AskRecommendations
  <2>1. /\ arrived /\ offer' = buildRecommendedPlacementResolutions
        /\ UNCHANGED <<arrived, decided, active>>
    BY <1>2 DEF AskRecommendations, Reviewing
  <2>2. (buildRecommendedPlacementResolutions)' = buildRecommendedPlacementResolutions
    BY <2>1 DEF buildRecommendedPlacementResolutions, pendingRecommendations
  <2> QED BY <2>1, <2>2 DEF PlacementInv
<1>3. CASE \E ok \in BOOLEAN : AnswerRecommendations(ok)
  <2>1. PICK ok \in BOOLEAN : AnswerRecommendations(ok)
    BY <1>3
  <2>2. /\ arrived /\ offer = buildRecommendedPlacementResolutions /\ offer' = NoResolution
        /\ decided' = (IF ok THEN offer ELSE decided) /\ UNCHANGED <<arrived, active>>
    BY <2>1 DEF AnswerRecommendations, PlacementInv
  <2>3. ASSUME NEW k \in GroupKeys
        PROVE  /\ Fits(k, buildRecommendedPlacementResolutions[k])
               /\ decided[k].destination # "none" =>
                    buildRecommendedPlacementResolutions[k].destination = decided[k].destination
    <3>1. Fits(k, decided[k]) /\ GroupFacts[k].suggested \in Zones \cup {"none"}
      BY <2>2, PlacementAssumption DEF PlacementInv
    <3>2. CASE k \in pendingRecommendations
      <4>1. decided[k].destination = "none" /\ GroupFacts[k].suggested \in Zones
        BY <3>1, <3>2 DEF pendingRecommendations
      <4> QED BY <3>1, <3>2, <4>1, MovedFits DEF buildRecommendedPlacementResolutions
    <3>3. CASE k \notin pendingRecommendations
      BY <3>1, <3>3 DEF buildRecommendedPlacementResolutions
    <3> QED BY <3>2, <3>3
  <2>4. DOMAIN buildRecommendedPlacementResolutions = GroupKeys
    BY DEF buildRecommendedPlacementResolutions
  <2>5. CASE ok
    BY <2>2, <2>3, <2>4, <2>5 DEF PlacementInv
  <2>6. CASE ~ok
    BY <2>2, <2>6 DEF PlacementInv
  <2> QED BY <2>5, <2>6
<1>4. CASE \E k \in GroupKeys, z \in Zones : MoveGroup(k, z)
  <2>1. PICK k \in GroupKeys, z \in Zones : MoveGroup(k, z)
    BY <1>4
  <2> DEFINE m == placementResolutionForDestination(k, decided[k], z, "user")
  <2>2. /\ arrived /\ offer = NoResolution /\ decided' = [decided EXCEPT ![k] = m]
        /\ active' = k /\ UNCHANGED <<arrived, offer>>
    BY <2>1 DEF MoveGroup, Reviewing
  <2>3. Fits(k, m)
    BY <2>2, MovedFits DEF PlacementInv
  <2> HIDE DEF m
  <2>4. \A j \in GroupKeys : Fits(j, decided'[j]) /\ (j # k => decided'[j] = decided[j])
    BY <2>2, <2>3 DEF PlacementInv
  <2>5. DOMAIN decided' = GroupKeys
    BY <2>2 DEF PlacementInv
  <2> QED BY <2>2, <2>4, <2>5 DEF PlacementInv
<1>5. CASE \/ \E role \in OfferedRoles : Reviewing /\ ChooseRole(role)
           \/ \E kind \in OfferedKinds : Reviewing /\ ChooseExclusion(kind)
           \/ \E s \in Subtypes : Reviewing /\ ChooseShieldSubtype(s)
           \/ \E t \in OfferedTexts : Reviewing /\ (EditCode(t) \/ EditName(t))
  BY <1>5, FormFits
<1>6. CASE \/ \E k \in GroupKeys : SelectGroup(k)
           \/ \E f \in OfferedFilters : SetFilter(f)
           \/ Reviewing /\ \E z \in Zones : \E p \in 1..LastPage(z) : SetPage(z, p)
           \/ UNCHANGED placementVars
  <2>1. UNCHANGED <<arrived, decided, offer>> /\ active' \in GroupKeys
    BY <1>6 DEF SelectGroup, SetFilter, SetPage, PlacementInv
  <2>2. (buildRecommendedPlacementResolutions)' = buildRecommendedPlacementResolutions
    BY <2>1 DEF buildRecommendedPlacementResolutions, pendingRecommendations
  <2> QED BY <2>1, <2>2 DEF PlacementInv
<1> QED BY <1>1, <1>2, <1>3, <1>4, <1>5, <1>6 DEF PlacementNext

\* Before the groups are there nothing is decided.
LEMMA PlacementStart == PlacementInit => PlacementInv
<1>1. GroupOrder[1] \in GroupKeys
  BY PlacementAssumption DEF GroupKeys
<1> QED BY <1>1 DEF PlacementInit, PlacementInv

\* So it is in every state of the review.
LEMMA PlacementInvariance == PlacementSpec => []PlacementInv
<1>1. PlacementInv /\ [PlacementNext]_placementVars => PlacementInv'
  BY PlacementStep
<1> QED BY <1>1, PlacementStart, PTL DEF PlacementSpec

\* What the pane counts as complete the backend accepts, for any groups and whatever the order
\* of roles, subtypes, zones, edits, recommendations and returns to the review, unless it is a
\* suggested model the user has cleared, which it refuses (PlacementReview.tsx:897,
\* bom_domain.py:197, bom_classify.py:1518).
THEOREM CompleteAccepted == PlacementSpec => []CompleteIsAccepted
<1>1. PlacementInv => CompleteIsAccepted
  BY FitsAccepted DEF PlacementInv, CompleteIsAccepted
<1> QED BY <1>1, PlacementInvariance, PTL

\* Coming back to the review, or reloading it, loses no decision (PlacementReview.tsx:232).
THEOREM ReloadKept == PlacementSpec => []ReloadKeepsDecisions
<1>1. PlacementInv => ReloadKeepsDecisions
  BY FitsReloads DEF PlacementInv, ReloadKeepsDecisions
<1> QED BY <1>1, PlacementInvariance, PTL

\* A group that has a zone is moved by nothing but an action on that group: not by adopting all
\* recommendations, computed before the user confirmed them (PlacementReview.tsx:392).
THEOREM DecidedKept == PlacementSpec => DecidedStays
<1> DEFINE Kept == \A k \in GroupKeys : arrived /\ decided[k].destination # "none" /\ k # active' =>
                      decided'[k].destination = decided[k].destination
<1>1. PlacementInv /\ [PlacementNext]_placementVars => [Kept]_placementVars
  BY PlacementStep
<1>2. PlacementSpec => [][Kept]_placementVars
  BY <1>1, PlacementInvariance, PTL DEF PlacementSpec
<1> QED BY <1>2 DEF DecidedStays

-----------------------------------------------------------------------------
(* The conflict review *)

\* Every choice in flight decides what was asked, and a choice for a code whose recommendation
\* is not sure was made by the user, or is left of a run in which it was sure.
ConflictInv ==
  /\ DOMAIN variants = Codes /\ \A c \in Codes : variants[c] \in Nat \ {0}
  /\ asked \subseteq Codes
  /\ DOMAIN chosen = Codes
  /\ SentCoversAsked /\ LowConfidenceIsManual

\* The backend asks about codes in conflict only.
LEMMA SummaryOfCodes ==
  ASSUME NEW shape
  PROVE  conflict_summary(shape) \subseteq Codes
BY DEF conflict_summary, Codes

\* A code that has a choice after the recommendations are adopted, and none that is sure,
\* had it before, and it stood for something.
LEMMA RecommendedIsChosen ==
  ASSUME NEW c \in Codes \ Confident, buildRecommendedConflictChoices[c] # NoChoice
  PROVE  c \in StillChosen /\ chosen[c] # NoChoice
<1>1. normalizeConflictChoice(c, NoChoice) = NoChoice
  BY DEF normalizeConflictChoice, NoChoice
<1>2. Recommendation(c) = NoChoice
  BY DEF Recommendation
<1> QED BY <1>1, <1>2 DEF buildRecommendedConflictChoices, StillChosen

\* Merging into the first candidate decides every conflict.
LEMMA FirstVariantDecides ==
  ASSUME ConflictInv, NEW c \in asked
  PROVE  conflictChoiceComplete(c, buildFirstVariantConflictChoices[c])
<1>1. c \in Codes /\ 1 \in Shown(c)
  BY DEF ConflictInv, Shown
<1>2. buildFirstVariantConflictChoices[c] = Select(1)
  BY <1>1 DEF buildFirstVariantConflictChoices
<1>3. normalizeConflictChoice(c, Select(1)) = Select(1)
  BY <1>1 DEF normalizeConflictChoice, Select
<1> QED BY <1>2, <1>3 DEF conflictChoiceComplete, Select

\* Whether a choice decides its conflict hangs on the number of variants alone.
LEMMA CompleteKept ==
  ASSUME UNCHANGED variants, NEW c, NEW choice
  PROVE  conflictChoiceComplete(c, choice)' = conflictChoiceComplete(c, choice)
BY DEF conflictChoiceComplete, normalizeConflictChoice, Shown, Select, Split, Move, NoChoice, Distinct

\* A request in flight keeps deciding what was asked while the variants are the same.
LEMMA SentKept ==
  ASSUME SentCoversAsked, UNCHANGED <<variants, asked, sent>>
  PROVE  SentCoversAsked'
<1>1. \A c, choice : conflictChoiceComplete(c, choice)' = conflictChoiceComplete(c, choice)
  BY CompleteKept
<1> QED BY <1>1 DEF SentCoversAsked

\* So does a request that is made of choices that decide all.
LEMMA SentMade ==
  ASSUME NEW STATE choices, AllDone(choices), sent' = <<choices>>, UNCHANGED <<variants, asked>>
  PROVE  SentCoversAsked'
<1>1. \A c, choice : conflictChoiceComplete(c, choice)' = conflictChoiceComplete(c, choice)
  BY CompleteKept
<1> QED BY <1>1 DEF SentCoversAsked, AllDone

\* No step submits an open conflict or chooses for the user.
LEMMA ConflictStep ==
  ASSUME ConflictInv, [ConflictNext]_conflictVars
  PROVE  ConflictInv'
<1> USE DEF Deciding, Submit
<1>1. CASE \/ \E c \in Codes : OpenConflict(c)
           \/ AskFirstCandidate
           \/ UNCHANGED conflictVars
  <2>1. UNCHANGED <<variants, recommended, asked, chosen, sent, touched, leftOver>>
    BY <1>1 DEF OpenConflict, AskFirstCandidate, conflictVars, choosers
  <2>2. SentCoversAsked'
    BY <2>1, SentKept DEF ConflictInv
  <2> QED BY <2>1, <2>2 DEF ConflictInv, LowConfidenceIsManual, Confident
<1>2. CASE \E choice \in Offered(Active) : Choose(choice)
  <2>1. PICK choice : /\ chosen' = [chosen EXCEPT ![Active] = choice] /\ sent = <<>>
                      /\ touched' = touched \cup {Active} /\ leftOver' = leftOver \ {Active}
                      /\ UNCHANGED <<variants, recommended, asked, sent>>
    BY <1>2 DEF Choose
  <2> QED BY <2>1 DEF ConflictInv, SentCoversAsked, LowConfidenceIsManual, Confident
<1>3. CASE ApplyMerge
  <2>1. /\ chosen' = chosen /\ sent' = <<chosen>> /\ AllDone(chosen)
        /\ UNCHANGED <<variants, recommended, asked, touched, leftOver>>
    BY <1>3 DEF ApplyMerge, choosers
  <2>2. SentCoversAsked'
    BY <2>1, SentMade
  <2> QED BY <2>1, <2>2 DEF ConflictInv, LowConfidenceIsManual, Confident
<1>4. CASE ApplyRecommendedMerge
  <2> DEFINE choices == buildRecommendedConflictChoices
  <2>1. /\ chosen' = choices /\ sent = <<>> /\ UNCHANGED <<variants, recommended, asked>>
        /\ touched' = touched \cap StillChosen /\ leftOver' = leftOver \cap StillChosen
        /\ \/ AllDone(choices) /\ sent' = <<choices>>
           \/ sent' = sent
    BY <1>4 DEF ApplyRecommendedMerge
  <2>2. DOMAIN choices = Codes
    BY DEF buildRecommendedConflictChoices
  <2>3. \A c \in Codes \ Confident : choices[c] # NoChoice =>
           c \in (touched \cup leftOver) \cap StillChosen
    BY RecommendedIsChosen DEF ConflictInv, LowConfidenceIsManual
  <2>4. SentCoversAsked'
    <3>1. CASE AllDone(choices) /\ sent' = <<choices>>
      BY <2>1, <3>1, SentMade
    <3>2. CASE sent' = sent
      BY <2>1, <3>2, SentKept DEF ConflictInv
    <3> QED BY <2>1, <3>1, <3>2
  <2> HIDE DEF choices
  <2> QED BY <2>1, <2>2, <2>3, <2>4 DEF ConflictInv, LowConfidenceIsManual, Confident
<1>5. CASE \E ok \in BOOLEAN : AnswerFirstCandidate(ok)
  <2> DEFINE choices == buildFirstVariantConflictChoices
  <2>1. /\ UNCHANGED <<variants, recommended, asked>>
        /\ \/ chosen' = choices /\ sent' = <<choices>> /\ touched' = asked /\ leftOver' = {}
           \/ UNCHANGED <<chosen, sent, touched, leftOver>>
    BY <1>5 DEF AnswerFirstCandidate, choosers
  <2>2. CASE UNCHANGED <<chosen, sent, touched, leftOver>>
    <3>1. SentCoversAsked'
      BY <2>1, <2>2, SentKept DEF ConflictInv
    <3> QED BY <2>1, <2>2, <3>1 DEF ConflictInv, LowConfidenceIsManual, Confident
  <2>3. CASE chosen' = choices /\ sent' = <<choices>> /\ touched' = asked /\ leftOver' = {}
    <3>1. /\ DOMAIN choices = Codes
          /\ \A c \in Codes : choices[c] # NoChoice => c \in asked
      BY DEF buildFirstVariantConflictChoices
    <3>2. AllDone(choices)
      BY FirstVariantDecides DEF AllDone
    <3>3. SentCoversAsked'
      BY <2>1, <2>3, <3>2, SentMade
    <3> HIDE DEF choices
    <3> QED BY <2>1, <2>3, <3>1, <3>3 DEF ConflictInv, LowConfidenceIsManual, Confident
  <2> QED BY <2>1, <2>2, <2>3
<1>6. CASE ConflictsAnswered
  <2>1. /\ sent' = <<>> /\ asked' \subseteq Codes
        /\ UNCHANGED <<variants, recommended, chosen, touched, leftOver>>
    BY <1>6 DEF ConflictsAnswered, unresolved_part_conflicts, choosers
  <2> QED BY <2>1 DEF ConflictInv, SentCoversAsked, LowConfidenceIsManual, Confident
<1>7. CASE ProcessAgain
  <2>1. PICK shape \in [Codes -> Indices] : variants' = shape /\ asked' = conflict_summary(shape)
    BY <1>7 DEF ProcessAgain
  <2>2. /\ sent' = <<>> /\ UNCHANGED <<chosen, touched>>
        /\ leftOver' = {c \in Codes \ touched : chosen[c] # NoChoice}
    BY <1>7 DEF ProcessAgain
  <2>3. Indices \subseteq Nat \ {0}
    BY DEF Indices
  <2> QED BY <2>1, <2>2, <2>3, SummaryOfCodes
          DEF ConflictInv, SentCoversAsked, LowConfidenceIsManual, Confident
<1> QED BY <1>1, <1>2, <1>3, <1>4, <1>5, <1>6, <1>7 DEF ConflictNext

\* When the wizard opens nothing is in flight, and what is chosen is older than it.
LEMMA ConflictStart == ConflictInit => ConflictInv
BY ConflictAssumption, SummaryOfCodes
   DEF ConflictInit, ConflictInv, SentCoversAsked, LowConfidenceIsManual, NoChoices, Codes, Indices

\* So it is in every state of the review.
LEMMA ConflictInvariance == ConflictSpec => []ConflictInv
<1>1. ConflictInv /\ [ConflictNext]_conflictVars => ConflictInv'
  BY ConflictStep
<1> QED BY <1>1, ConflictStart, PTL DEF ConflictSpec

\* Whatever button submits, the request decides every conflict on screen, for any codes, any
\* variants and any limit of the backend (BomProcessWizard.tsx:256).
THEOREM SentCovers == ConflictSpec => []SentCoversAsked
<1>1. ConflictInv => SentCoversAsked
  BY DEF ConflictInv
<1> QED BY <1>1, ConflictInvariance, PTL

\* Adopting the recommendations chooses for no code whose recommendation is not sure in the run
\* on screen, whatever each run recommends: such a choice is the user's, or is left of an earlier
\* run (bomConflictChoices.ts, buildRecommendedConflictChoices; bom_process.py:975).
THEOREM LowConfidenceLeft == ConflictSpec => []LowConfidenceIsManual
<1>1. ConflictInv => LowConfidenceIsManual
  BY DEF ConflictInv
<1> QED BY <1>1, ConflictInvariance, PTL

-----------------------------------------------------------------------------
(* The lists of the platform *)

\* What the backend has of a list, and whether the page shows it.
There(L) == IF L = "history" THEN stored ELSE mounted
UpToDate(L) == IF L = "history" THEN historyRuns = stored ELSE plugins = ListedAs(mounted)
Current(L) == \/ L \in doubtful \cup catalogError \/ UpToDate(L)
              \/ \E q \in traffic : L \in ListOf[q.kind]

States == {"out", "read", "cut", "failed", "fallback", "bare"}

IsRequest(q) ==
  /\ DOMAIN q = {"kind", "of", "more", "no", "got"}
  /\ q.kind \in DOMAIN ListOf /\ DOMAIN q.got = ListOf[q.kind]
  /\ \A L \in ListOf[q.kind] :
       /\ q.got[L].state \in States
       /\ q.got[L].state \in {"fallback", "bare"} => q.kind = "catalog"
       /\ q.got[L].state = "cut" => q.kind \in Fetches
  /\ q.kind = "clear" => q.more = {}

\* What a request brings is what there is, unless another one of its list was out with it; a
\* run is deleted from what the backend has; and an answer is lost of the catalog or leaves
\* doubt.
Holds(q) ==
  /\ \A L \in ListOf[q.kind] :
       /\ q.got[L].state = "read" /\ L \notin mixed => q.got[L].value = There(L)
       /\ q.got[L].state = "failed" /\ L \notin doubtful => q.kind = "catalog"
  /\ q.kind = "delete" /\ "history" \notin doubtful \cup catalogError =>
       /\ q.got["history"].state = "out" => q.more = stored
       /\ q.got["history"].state = "read" => q.more \ {q.of} = stored
  /\ q.kind = "clear" /\ "history" \notin doubtful =>
       (q.got["history"].state = "read" => stored = {})

Alone ==
  /\ \A q, r \in traffic : \A L \in (ListOf[q.kind] \cap ListOf[r.kind]) \ mixed : q = r
  /\ \A q \in givenUp : q.kind \in DOMAIN ListOf /\ ListOf[q.kind] \subseteq mixed

ListsInv ==
  /\ \A q \in traffic : IsRequest(q) /\ Holds(q)
  /\ Alone /\ mixed \subseteq doubtful
  /\ \A L \in Parts : Current(L)

\* A request as it is sent.
LEMMA AskIs ==
  ASSUME NEW kind \in DOMAIN ListOf, NEW of, NEW STATE more, NEW STATE no, kind = "clear" => more = {}
  PROVE  LET a == Ask(kind, of, more, no)
         IN  /\ IsRequest(a) /\ a.kind = kind /\ a.of = of /\ a.more = more
             /\ \A L \in ListOf[kind] : a.got[L].state = "out"
<1>1. /\ DOMAIN Ask(kind, of, more, no).got = ListOf[kind]
      /\ \A L \in ListOf[kind] : Ask(kind, of, more, no).got[L].state = "out"
  BY DEF Ask, Out
<1>2. /\ DOMAIN Ask(kind, of, more, no) = {"kind", "of", "more", "no", "got"}
      /\ Ask(kind, of, more, no).kind = kind /\ Ask(kind, of, more, no).of = of
      /\ Ask(kind, of, more, no).more = more
  BY DEF Ask
<1> QED BY <1>1, <1>2 DEF IsRequest, States

\* A request with one more answer.
LEMMA AnswerIs ==
  ASSUME NEW q, IsRequest(q), NEW part \in DOMAIN q.got, NEW answer,
         answer.state \in States,
         answer.state \in {"fallback", "bare"} => q.kind = "catalog",
         answer.state = "cut" => q.kind \in Fetches
  PROVE  LET a == [q EXCEPT !.got[part] = answer]
         IN  /\ IsRequest(a) /\ a.kind = q.kind /\ a.of = q.of /\ a.more = q.more
             /\ a.got[part] = answer
             /\ \A L \in ListOf[q.kind] : L # part => a.got[L] = q.got[L]
<1> DEFINE a == [q EXCEPT !.got[part] = answer]
<1>1. /\ DOMAIN a = DOMAIN q /\ a.kind = q.kind /\ a.of = q.of /\ a.more = q.more
      /\ a.got = [q.got EXCEPT ![part] = answer]
  BY DEF IsRequest
<1>2. /\ DOMAIN a.got = ListOf[q.kind] /\ a.got[part] = answer
      /\ \A L \in ListOf[q.kind] : L # part => a.got[L] = q.got[L]
  BY <1>1 DEF IsRequest
<1> HIDE DEF a
<1>3. IsRequest(a)
  BY <1>1, <1>2 DEF IsRequest
<1> QED BY <1>1, <1>2, <1>3 DEF a

\* What holds of a request goes on while the backend and the warning are the same, and its
\* lists stay in the doubt they are in.
LEMMA HoldsStill ==
  ASSUME UNCHANGED <<mounted, stored, catalogError>>, NEW q, Holds(q), q.kind \in DOMAIN ListOf,
         \A L \in ListOf[q.kind] : (L \in mixed => L \in mixed') /\ (L \in doubtful => L \in doubtful')
  PROVE  Holds(q)'
<1>1. q.kind \in {"delete", "clear"} => "history" \in ListOf[q.kind]
  BY DEF ListOf
<1> QED BY <1>1 DEF Holds, There

\* A request that is sent, alone or after the answer of another one.
LEMMA Opened ==
  ASSUME ListsInv, NEW a, IsRequest(a), \A L \in ListOf[a.kind] : a.got[L].state = "out",
         NEW STATE T, T \subseteq traffic, \A q \in traffic \ T : ListOf[q.kind] \subseteq ListOf[a.kind],
         traffic' = T \cup {a},
         StillMixed(T \cup givenUp) \cup Crossing(a.kind, T) \subseteq mixed', mixed' \subseteq doubtful',
         doubtful \subseteq doubtful', UNCHANGED <<mounted, stored, catalogError, givenUp>>,
         \A L \in Parts \ ListOf[a.kind] : UpToDate(L) => UpToDate(L)',
         a.kind = "delete" /\ "history" \notin doubtful' \cup catalogError' => a.more = stored
  PROVE  ListsInv'
<1>1. \A q \in T \cup givenUp : \A L \in ListOf[q.kind] \cap mixed : L \in mixed'
  BY DEF StillMixed
<1>2. \A q \in T : \A L \in ListOf[q.kind] \cap ListOf[a.kind] : L \in mixed'
  BY DEF Crossing
<1>3. ASSUME NEW q \in T PROVE IsRequest(q) /\ Holds(q)'
  <2>1. IsRequest(q) /\ Holds(q)
    BY DEF ListsInv
  <2>2. q.kind \in DOMAIN ListOf
    BY <2>1 DEF IsRequest
  <2> QED BY <1>1, <2>1, <2>2, HoldsStill
<1>4. Holds(a)'
  <2>1. a.kind \in {"delete", "clear"} => "history" \in ListOf[a.kind]
    BY DEF ListOf
  <2> QED BY <2>1 DEF Holds
<1>5. Alone'
  <2>1. \A q \in givenUp' : q.kind \in DOMAIN ListOf /\ ListOf[q.kind] \subseteq mixed'
    BY <1>1 DEF ListsInv, Alone
  <2>2. ASSUME NEW q \in traffic', NEW r \in traffic', NEW L \in (ListOf[q.kind] \cap ListOf[r.kind]) \ mixed'
        PROVE  q = r
    BY <1>1, <1>2, <2>2 DEF ListsInv, Alone
  <2> QED BY <2>1, <2>2 DEF Alone
<1>6. ASSUME NEW L \in Parts PROVE Current(L)'
  <2>1. CASE L \in ListOf[a.kind]
    BY <2>1 DEF Current
  <2>2. CASE L \notin ListOf[a.kind]
    BY <2>2 DEF ListsInv, Current
  <2> QED BY <2>1, <2>2
<1> QED BY <1>3, <1>4, <1>5, <1>6 DEF ListsInv

\* A request that is over: what it has not brought alone stays in doubt.
LEMMA Closed ==
  ASSUME ListsInv, NEW q \in traffic, Done(q), UNCHANGED <<mounted, stored>>,
         catalogError' = catalogError \/ q.kind = "catalog",
         \A L \in Parts \ ListOf[q.kind] : UpToDate(L) => UpToDate(L)',
         \A L \in ListOf[q.kind] \ (doubtful' \cup catalogError') : UpToDate(L)'
  PROVE  ListsInv'
<1>1. /\ traffic' = traffic \ {q} /\ givenUp' = givenUp
      /\ mixed' = StillMixed(traffic' \cup givenUp) /\ doubtful' = (doubtful \ Brought(q)) \cup Emptied(q)
  BY DEF Done
<1>2. \A r \in traffic' \cup givenUp : \A L \in ListOf[r.kind] \cap mixed : L \in mixed'
  BY <1>1 DEF StillMixed
<1>3. Brought(q) \subseteq ListOf[q.kind] \ mixed
  BY DEF Brought
<1>4. \A r \in traffic' : \A L \in ListOf[r.kind] \cap doubtful : L \in doubtful'
  BY <1>1, <1>3 DEF ListsInv, Alone
<1>5. mixed' \subseteq mixed /\ mixed' \subseteq doubtful'
  BY <1>1, <1>3 DEF StillMixed, ListsInv
<1>6. ASSUME NEW r \in traffic' PROVE IsRequest(r) /\ Holds(r)'
  <2>1. IsRequest(r) /\ Holds(r) /\ r # q
    BY <1>1 DEF ListsInv
  <2>2. r.kind \in DOMAIN ListOf
    BY <2>1 DEF IsRequest
  <2>3. CASE catalogError' = catalogError
    BY <1>2, <1>4, <2>1, <2>2, <2>3, HoldsStill
  <2>4. CASE q.kind = "catalog" /\ r.kind \in {"delete", "clear"}
    <3>1. "history" \in mixed /\ "history" \in ListOf[r.kind]
      BY <1>1, <2>1, <2>4 DEF ListsInv, Alone, ListOf
    <3>2. "history" \in doubtful'
      BY <1>2, <1>5, <3>1
    <3> QED BY <1>2, <1>4, <2>1, <2>4, <3>2 DEF Holds, There
  <2>5. CASE q.kind = "catalog" /\ r.kind \notin {"delete", "clear"}
    BY <1>2, <1>4, <2>1, <2>5 DEF Holds, There
  <2> QED BY <2>3, <2>4, <2>5
<1>7. Alone'
  <2>1. \A r \in givenUp' : r.kind \in DOMAIN ListOf /\ ListOf[r.kind] \subseteq mixed'
    BY <1>1, <1>2 DEF ListsInv, Alone
  <2> QED BY <1>1, <1>2, <2>1 DEF ListsInv, Alone
<1>8. ASSUME NEW L \in Parts PROVE Current(L)'
  <2>1. CASE L \in ListOf[q.kind]
    BY <2>1 DEF Current
  <2>2. CASE L \notin ListOf[q.kind]
    <3>1. q.kind # "catalog"
      BY <2>2 DEF Parts, ListOf
    <3>2. L \in doubtful => L \in doubtful'
      BY <1>1, <1>3, <2>2
    <3> QED BY <1>1, <2>2, <3>1, <3>2 DEF ListsInv, Current
  <2> QED BY <2>1, <2>2
<1> QED BY <1>5, <1>6, <1>7, <1>8 DEF ListsInv

\* What the backend does to a list is the work of a request of that list.
LEMMA BackendChanges ==
  ASSUME NEW q, BackendDoes(q)
  PROVE  /\ mounted' = mounted \/ (q.kind = "mount" /\ "plugins" \in ListOf[q.kind])
         /\ stored' = stored \/ (q.kind \in {"tool", "delete", "clear"} /\ "history" \in ListOf[q.kind])
         /\ q.kind = "delete" => stored' = stored \ {q.of}
         /\ q.kind = "clear" => stored' = {}
<1>1. mounted' = mounted \/ q.kind = "mount"
  BY DEF BackendDoes
<1>2. stored' = stored \/ q.kind \in {"tool", "delete", "clear"}
  BY DEF BackendDoes
<1>3. /\ q.kind = "delete" => stored' = stored \ {q.of}
      /\ q.kind = "clear" => stored' = {}
  BY DEF BackendDoes
<1>4. /\ q.kind = "mount" => "plugins" \in ListOf[q.kind]
      /\ q.kind \in {"tool", "delete", "clear"} => "history" \in ListOf[q.kind]
  BY DEF ListOf
<1> QED BY <1>1, <1>2, <1>3, <1>4

\* An answer on its way back, or the end of the wait for it.
LEMMA Answered ==
  ASSUME ListsInv, NEW q \in traffic, NEW part \in DOMAIN q.got,
         NEW answer, q.got[part].state = "out", answer.state \in States \ {"out"},
         answer.state \in {"fallback", "bare"} => q.kind = "catalog",
         answer.state = "cut" => q.kind \in Fetches,
         Got(q, part, answer), UNCHANGED shownVars,
         BackendDoes(q) \/ UNCHANGED <<mounted, stored>>,
         mixed \subseteq mixed', doubtful \subseteq doubtful', mixed' \subseteq doubtful',
         \A r \in givenUp' : r \in givenUp \/ (r = q /\ ListOf[q.kind] \subseteq mixed'),
         answer.state = "read" => BackendDoes(q) /\ answer.value = There(part)',
         answer.state = "failed" /\ q.kind # "catalog" => ListOf[q.kind] \subseteq doubtful'
  PROVE  ListsInv'
<1>0. PICK a : a = [q EXCEPT !.got[part] = answer]
  OBVIOUS
<1>1. IsRequest(q) /\ Holds(q)
  BY DEF ListsInv
<1>2. /\ IsRequest(a) /\ a.kind = q.kind /\ a.of = q.of /\ a.more = q.more
      /\ a.got[part] = answer
      /\ \A L \in ListOf[q.kind] : L # part => a.got[L] = q.got[L]
  BY <1>0, <1>1, AnswerIs
<1>3. traffic' = (traffic \ {q}) \cup {a}
  BY <1>0 DEF Got
<1>4. /\ mounted' = mounted \/ (q.kind = "mount" /\ "plugins" \in ListOf[q.kind])
      /\ stored' = stored \/ (q.kind \in {"tool", "delete", "clear"} /\ "history" \in ListOf[q.kind])
      /\ BackendDoes(q) => /\ q.kind = "delete" => stored' = stored \ {q.of}
                           /\ q.kind = "clear" => stored' = {}
  BY BackendChanges
<1>5. ASSUME NEW r \in traffic \ {q} PROVE IsRequest(r) /\ Holds(r)'
  <2>1. IsRequest(r) /\ Holds(r)
    BY DEF ListsInv
  <2>2. \A L \in ListOf[q.kind] \cap ListOf[r.kind] : L \in mixed
    BY DEF ListsInv, Alone
  <2>3. \A L \in ListOf[r.kind] : L \in Parts
    BY <2>1 DEF IsRequest, ListOf, Parts
  <2>4. \A L \in ListOf[r.kind] \ mixed' : There(L)' = There(L)
    BY <1>4, <2>2, <2>3 DEF There, Parts
  <2>5. r.kind \in {"delete", "clear"} => "history" \in ListOf[r.kind]
    BY DEF ListOf
  <2>6. r.kind \in {"delete", "clear"} /\ "history" \notin doubtful' => stored' = stored
    BY <1>4, <2>2, <2>5
  <2>7. catalogError' = catalogError
    BY DEF shownVars
  <2>8. \A L \in ListOf[r.kind] :
          /\ r.got[L].state = "read" /\ L \notin mixed' => r.got[L].value = There(L)'
          /\ r.got[L].state = "failed" /\ L \notin doubtful' => r.kind = "catalog"
    BY <2>1, <2>4 DEF Holds
  <2> QED BY <2>1, <2>6, <2>7, <2>8 DEF Holds
<1>6. Holds(a)'
  <2>1. \A L \in ListOf[q.kind] : L # part => q.kind = "catalog"
    BY <1>1 DEF IsRequest, ListOf
  <2>2. ASSUME NEW L \in ListOf[q.kind]
        PROVE  /\ a.got[L].state = "read" /\ L \notin mixed' => a.got[L].value = There(L)'
               /\ a.got[L].state = "failed" /\ L \notin doubtful' => q.kind = "catalog"
    <3>1. CASE L = part
      BY <1>2, <3>1
    <3>2. CASE L # part
      <4>1. q.kind = "catalog" /\ UNCHANGED <<mounted, stored>>
        BY <1>4, <2>1, <3>2
      <4>2. a.got[L] = q.got[L]
        BY <1>2, <3>2
      <4> QED BY <1>1, <4>1, <4>2 DEF Holds, There
    <3> QED BY <3>1, <3>2
  <2>3. ASSUME q.kind \in {"delete", "clear"}, "history" \notin doubtful'
        PROVE  BackendDoes(q) /\ part = "history" /\ answer.state = "read"
    BY <1>1, <2>3 DEF IsRequest, ListOf, States, Fetches
  <2>4. catalogError' = catalogError
    BY DEF shownVars
  <2>5. q.kind = "delete" /\ "history" \notin doubtful' \cup catalogError' => q.more \ {q.of} = stored'
    BY <1>1, <1>4, <2>3, <2>4 DEF Holds
  <2>6. q.kind = "clear" /\ "history" \notin doubtful' => stored' = {}
    BY <1>4, <2>3
  <2>7. q.kind = "delete" /\ "history" \notin doubtful' => a.got["history"].state = "read"
    BY <1>2, <2>3
  <2> QED BY <1>2, <2>2, <2>5, <2>6, <2>7 DEF Holds
<1>7. Alone'
  <2>1. \A r \in givenUp' : r.kind \in DOMAIN ListOf /\ ListOf[r.kind] \subseteq mixed'
    BY <1>1 DEF ListsInv, Alone, IsRequest
  <2>2. ASSUME NEW r \in traffic', NEW s \in traffic', NEW L \in (ListOf[r.kind] \cap ListOf[s.kind]) \ mixed'
        PROVE  r = s
    BY <1>2, <1>3, <2>2 DEF ListsInv, Alone
  <2> QED BY <2>1, <2>2 DEF Alone
<1>8. ASSUME NEW L \in Parts PROVE Current(L)'
  <2>1. CASE L \in ListOf[q.kind]
    BY <1>2, <1>3, <2>1 DEF Current
  <2>2. CASE L \notin ListOf[q.kind]
    <3>1. UpToDate(L) => UpToDate(L)'
      BY <1>4, <2>2 DEF UpToDate, Parts, shownVars, ListedAs
    <3> QED BY <1>2, <1>3, <2>2, <3>1 DEF ListsInv, Current, shownVars
  <2> QED BY <2>1, <2>2
<1> QED BY <1>2, <1>3, <1>5, <1>6, <1>7, <1>8 DEF ListsInv

\* What is done late is of a list in doubt.
LEMMA DoneLate ==
  ASSUME ListsInv, NEW q \in givenUp, HandledLate(q)
  PROVE  ListsInv'
<1>1. /\ givenUp' = givenUp \ {q} /\ mixed' = StillMixed(traffic \cup givenUp')
      /\ UNCHANGED <<traffic, doubtful, shownVars>>
  BY DEF HandledLate
<1>2. ListOf[q.kind] \subseteq mixed /\ mixed' \subseteq mixed /\ mixed \subseteq doubtful
  BY <1>1 DEF ListsInv, Alone, StillMixed
<1>3. \A r \in traffic \cup givenUp' : \A L \in ListOf[r.kind] \cap mixed : L \in mixed'
  BY <1>1 DEF StillMixed
<1>4. \A L \in Parts \ mixed : There(L)' = There(L) /\ (UpToDate(L) => UpToDate(L)')
  <2>1. /\ mounted' = mounted \/ "plugins" \in ListOf[q.kind]
        /\ stored' = stored \/ "history" \in ListOf[q.kind]
    BY BackendChanges DEF HandledLate
  <2> QED BY <1>1, <1>2, <2>1 DEF There, UpToDate, Parts, shownVars, ListedAs
<1>5. ASSUME NEW r \in traffic PROVE IsRequest(r) /\ Holds(r)'
  <2>1. IsRequest(r) /\ Holds(r) /\ ListOf[r.kind] \subseteq Parts
    BY DEF ListsInv, IsRequest, ListOf, Parts
  <2>2. \A L \in ListOf[r.kind] :
          /\ r.got[L].state = "read" /\ L \notin mixed' => r.got[L].value = There(L)'
          /\ r.got[L].state = "failed" /\ L \notin doubtful' => r.kind = "catalog"
    BY <1>1, <1>3, <1>4, <2>1 DEF Holds
  <2>3. "history" \notin doubtful => stored' = stored
    BY <1>2, <1>4 DEF There, Parts
  <2> QED BY <1>1, <2>1, <2>2, <2>3 DEF Holds, shownVars
<1>6. Alone'
  <2>1. \A r \in givenUp' : r.kind \in DOMAIN ListOf /\ ListOf[r.kind] \subseteq mixed'
    BY <1>1, <1>3 DEF ListsInv, Alone
  <2> QED BY <1>1, <1>3, <2>1 DEF ListsInv, Alone
<1>7. \A L \in Parts : Current(L)'
  BY <1>1, <1>2, <1>4 DEF ListsInv, Current, shownVars
<1> QED BY <1>1, <1>2, <1>5, <1>6, <1>7 DEF ListsInv

\* What the user starts; a run is deleted from the runs on the page.
LEMMA Started ==
  ASSUME ListsInv, NEW kind \in DOMAIN ListOf, NEW of, NEW STATE more, Sent(kind, of, more),
         UNCHANGED <<mounted, stored, catalogError>>,
         \A L \in Parts \ ListOf[kind] : UpToDate(L) => UpToDate(L)',
         kind = "clear" => more = {}, kind = "delete" => more = historyRuns
  PROVE  ListsInv'
<1>1. PICK a : a = Ask(kind, of, more, clicks + 1)
  OBVIOUS
<1>2. /\ IsRequest(a) /\ a.kind = kind /\ a.more = more
      /\ \A L \in ListOf[kind] : a.got[L].state = "out"
  BY <1>1, AskIs
<1>3. /\ traffic' = traffic \cup {a} /\ UNCHANGED givenUp
      /\ mixed' = mixed \cup Crossing(kind, traffic) /\ doubtful' = doubtful \cup Crossing(kind, traffic)
  BY <1>1 DEF Sent
<1>4. ASSUME kind = "delete", "history" \notin doubtful' \cup catalogError'
      PROVE  more = stored
  <2>1. \A q \in traffic : "history" \notin ListOf[q.kind]
    BY <1>3, <1>4 DEF Crossing, ListOf
  <2>2. UpToDate("history")
    BY <1>3, <1>4, <2>1 DEF ListsInv, Current, Parts
  <2> QED BY <1>4, <2>2 DEF UpToDate
<1>5. \A q \in traffic \ traffic : ListOf[q.kind] \subseteq ListOf[a.kind]
  OBVIOUS
<1>6. /\ StillMixed(traffic \cup givenUp) \cup Crossing(a.kind, traffic) \subseteq mixed'
      /\ mixed' \subseteq doubtful' /\ doubtful \subseteq doubtful'
  BY <1>2, <1>3 DEF StillMixed, ListsInv
<1> QED BY <1>2, <1>3, <1>4, <1>5, <1>6, Opened

\* What is sent after an answer.
LEMMA Continued ==
  ASSUME ListsInv, NEW q \in traffic, NEW kind \in {"plugins", "history"}, NEW of,
         Followed(q, kind, of), ListOf[q.kind] = {kind},
         UNCHANGED <<mounted, stored, catalogError>>,
         \A L \in Parts \ {kind} : UpToDate(L) => UpToDate(L)'
  PROVE  ListsInv'
<1>1. PICK a : a = Ask(kind, of, {}, q.no)
  OBVIOUS
<1>2. kind \in DOMAIN ListOf /\ ListOf[kind] = {kind}
  BY DEF ListOf
<1>3. /\ IsRequest(a) /\ a.kind = kind
      /\ \A L \in ListOf[kind] : a.got[L].state = "out"
  BY <1>1, <1>2, AskIs
<1>4. /\ traffic' = (traffic \ {q}) \cup {a} /\ UNCHANGED givenUp
      /\ mixed' = StillMixed((traffic \ {q}) \cup givenUp) \cup Crossing(kind, traffic \ {q})
      /\ doubtful' = doubtful \cup Crossing(kind, traffic \ {q})
  BY <1>1 DEF Followed
<1>5. \A r \in traffic \ (traffic \ {q}) : ListOf[r.kind] \subseteq ListOf[a.kind]
  BY <1>2, <1>3
<1>6. /\ StillMixed((traffic \ {q}) \cup givenUp) \cup Crossing(a.kind, traffic \ {q}) \subseteq mixed'
      /\ mixed' \subseteq doubtful' /\ doubtful \subseteq doubtful'
  BY <1>2, <1>3, <1>4 DEF StillMixed, ListsInv
<1>7. \A L \in Parts \ ListOf[a.kind] : UpToDate(L) => UpToDate(L)'
  BY <1>2, <1>3
<1>8. a.kind # "delete"
  BY <1>3
<1> DEFINE rest == traffic \ {q}
<1>9. rest \subseteq traffic /\ traffic' = rest \cup {a} /\ (\A r \in traffic \ rest : ListOf[r.kind] \subseteq ListOf[a.kind])
  BY <1>4, <1>5
<1>10. /\ StillMixed(rest \cup givenUp) \cup Crossing(a.kind, rest) \subseteq mixed'
       /\ \A L \in ListOf[a.kind] : a.got[L].state = "out"
  BY <1>2, <1>3, <1>6
<1> HIDE DEF rest
<1> QED BY <1>3, <1>4, <1>6, <1>7, <1>8, <1>9, <1>10, Opened

\* A list that is in no doubt when a request of it is over: what the request has, it has brought
\* alone, or there was no doubt before.
LEMMA Undoubted ==
  ASSUME ListsInv, NEW q \in traffic, Done(q), NEW L \in ListOf[q.kind] \ doubtful'
  PROVE  /\ q.got[L].state # "cut"
         /\ q.got[L].state = "read" => q.got[L].value = There(L)
         /\ q.got[L].state = "failed" => q.kind = "catalog"
         /\ q.kind \notin Fetches => L \notin doubtful
<1>1. Holds(q) /\ mixed \subseteq doubtful
  BY DEF ListsInv
<1>2. L \notin Emptied(q) /\ (L \notin doubtful \/ L \in Brought(q))
  BY DEF Done
<1>3. q.got[L].state # "cut"
  BY <1>2 DEF Emptied
<1>4. L \in Brought(q) => L \notin mixed /\ q.kind \in Fetches /\ q.got[L].state = "read"
  BY DEF Brought
<1> QED BY <1>1, <1>2, <1>3, <1>4 DEF Holds

\* A step of the page or of the backend leaves what the lists promise.
LEMMA ListsStep ==
  ASSUME ListsInv, [ListsNext]_listsVars
  PROVE  ListsInv'
<1>1. CASE refreshPlatformCatalog
  <2>1. "catalog" \in DOMAIN ListOf /\ ListOf["catalog"] = Parts
    BY DEF ListOf, Parts
  <2> QED BY <1>1, <2>1, Started DEF refreshPlatformCatalog, shownVars
<1>2. CASE RefreshClicked
  <2>1. "plugins" \in DOMAIN ListOf /\ ListOf["plugins"] = {"plugins"}
    BY DEF ListOf
  <2>2. \A L \in Parts \ {"plugins"} : UpToDate(L) => UpToDate(L)'
    BY <1>2 DEF RefreshClicked, UpToDate, Parts
  <2> QED BY <1>2, <2>1, <2>2, Started DEF RefreshClicked
<1>3. CASE removeAll
  <2>1. "clear" \in DOMAIN ListOf /\ ListOf["clear"] = {"history"}
    BY DEF ListOf
  <2>2. \A L \in Parts \ {"history"} : UpToDate(L) => UpToDate(L)'
    BY <1>3 DEF removeAll, UpToDate, Parts, shownVars
  <2> QED BY <1>3, <2>1, <2>2, Started DEF removeAll, shownVars
<1>4. CASE \E p \in Plugins : updatePluginMenu(p)
  <2>1. "mount" \in DOMAIN ListOf /\ ListOf["mount"] = {"plugins"}
    BY DEF ListOf
  <2>2. PICK p \in Plugins : updatePluginMenu(p)
    BY <1>4
  <2>3. \A L \in Parts \ {"plugins"} : UpToDate(L) => UpToDate(L)'
    BY <2>2 DEF updatePluginMenu, UpToDate, Parts
  <2>4. UNCHANGED <<mounted, stored, catalogError>>
    BY <2>2 DEF updatePluginMenu
  <2>5. CASE Sent("mount", p, IF plugins[p] = "off" THEN {"on"} ELSE {})
    BY <2>1, <2>3, <2>4, <2>5, Started
  <2>6. CASE Sent("mount", p, {"on"})
    BY <2>1, <2>3, <2>4, <2>6, Started
  <2> QED BY <2>2, <2>5, <2>6 DEF updatePluginMenu
<1>5. CASE \/ \E p \in Plugins : CancelConfirmation(p)
           \/ UNCHANGED listsVars
  <2>1. UNCHANGED <<mounted, stored, plugins, historyRuns, catalogError, traffic, givenUp, mixed, doubtful>>
    BY <1>5 DEF CancelConfirmation, listsVars, doubtVars
  <2> QED BY <2>1 DEF ListsInv, IsRequest, Holds, There, Alone, Current, UpToDate, ListedAs
<1>6. CASE \E r \in Runs : runTool(r)
  <2>1. "tool" \in DOMAIN ListOf /\ ListOf["tool"] = {"history"}
    BY DEF ListOf
  <2>2. PICK r \in Runs : runTool(r)
    BY <1>6
  <2>3. \A L \in Parts \ {"history"} : UpToDate(L) => UpToDate(L)'
    BY <2>2 DEF runTool, UpToDate, Parts, shownVars
  <2> QED BY <2>1, <2>2, <2>3, Started DEF runTool, shownVars
<1>7. CASE \E r \in Runs : removeRun(r)
  <2>1. "delete" \in DOMAIN ListOf /\ ListOf["delete"] = {"history"}
    BY DEF ListOf
  <2>2. PICK r \in Runs : removeRun(r)
    BY <1>7
  <2>3. \A L \in Parts \ {"history"} : UpToDate(L) => UpToDate(L)'
    BY <2>2 DEF removeRun, UpToDate, Parts, shownVars
  <2> QED BY <2>1, <2>2, <2>3, Started DEF removeRun, shownVars
<1>8. ASSUME NEW q \in traffic,
             \/ \E part \in DOMAIN q.got : Handled(q, part) \/ Cut(q, part) \/ Lost(q, part)
             \/ CatalogSettles(q) \/ onHistoryUpdated(q) \/ refreshHistory(q)
             \/ PluginUpdated(q) \/ PluginRefused(q) \/ refreshList(q) \/ Removed(q)
      PROVE  ListsInv'
  <2>1. IsRequest(q) /\ Holds(q)
    BY DEF ListsInv
  <2>2. CASE \E part \in DOMAIN q.got : Handled(q, part)
    <3>1. PICK part \in DOMAIN q.got : Handled(q, part)
      BY <2>2
    <3>2. PICK answer : answer = [state |-> "read",
                                  value |-> IF part = "history" THEN stored' ELSE mounted']
      OBVIOUS
    <3>3. answer.state = "read" /\ answer.value = There(part)'
      BY <3>2 DEF There
    <3>4. /\ q.got[part].state = "out" /\ BackendDoes(q) /\ Got(q, part, answer)
          /\ UNCHANGED <<shownVars, givenUp, mixed, doubtful>>
      BY <3>1, <3>2 DEF Handled, doubtVars
    <3>5. mixed \subseteq doubtful
      BY DEF ListsInv
    <3>6. answer.state \in States \ {"out"}
      BY <3>3 DEF States
    <3> QED BY <3>3, <3>4, <3>5, <3>6, Answered
  <2>3. CASE \E part \in DOMAIN q.got : Lost(q, part)
    <3>1. PICK part \in DOMAIN q.got : Lost(q, part)
      BY <2>3
    <3>2. /\ q.got[part].state = "out" /\ UNCHANGED shownVars
          /\ BackendDoes(q) \/ UNCHANGED <<mounted, stored>>
          /\ mixed' = IF q \in givenUp' THEN mixed \cup ListOf[q.kind] ELSE mixed
          /\ doubtful' = IF q.kind = "catalog" THEN doubtful ELSE doubtful \cup ListOf[q.kind]
          /\ givenUp' = givenUp \/ (q.kind \notin Fetches /\ givenUp' = givenUp \cup {q})
      BY <3>1 DEF Lost
    <3>3. PICK answer : /\ answer.state \in {"failed", "fallback", "bare"} /\ Got(q, part, answer)
                        /\ answer.state # "failed" => q.kind = "catalog"
      <4>1. CASE Got(q, part, [state |-> "failed", value |-> {}])
        <5>1. PICK answer : answer = [state |-> "failed", value |-> {}]
          OBVIOUS
        <5> QED BY <4>1, <5>1
      <4>2. CASE q.kind = "catalog" /\ Got(q, part, [state |-> "fallback", value |-> mounted])
        <5>1. PICK answer : answer = [state |-> "fallback", value |-> mounted]
          OBVIOUS
        <5> QED BY <4>2, <5>1
      <4>3. CASE q.kind = "catalog" /\ Got(q, part, [state |-> "bare", value |-> {}])
        <5>1. PICK answer : answer = [state |-> "bare", value |-> {}]
          OBVIOUS
        <5> QED BY <4>3, <5>1
      <4> QED BY <3>1, <4>1, <4>2, <4>3 DEF Lost
    <3>4. answer.state \in States \ {"out"} /\ answer.state # "cut" /\ answer.state # "read"
      BY <3>3 DEF States
    <3>5. mixed \subseteq doubtful /\ \A r \in givenUp : ListOf[r.kind] \subseteq mixed
      BY DEF ListsInv, Alone
    <3>6. q \in givenUp' => q.kind # "catalog" \/ q \in givenUp
      BY <3>2 DEF Fetches
    <3>7. mixed \subseteq mixed' /\ doubtful \subseteq doubtful' /\ mixed' \subseteq doubtful'
      BY <3>2, <3>5, <3>6
    <3>8. \A r \in givenUp' : r \in givenUp \/ (r = q /\ ListOf[q.kind] \subseteq mixed')
      BY <3>2
    <3> QED BY <3>2, <3>3, <3>4, <3>7, <3>8, Answered
  <2>31. CASE \E part \in DOMAIN q.got : Cut(q, part)
    <3>1. PICK part \in DOMAIN q.got : Cut(q, part)
      BY <2>31
    <3>2. PICK answer : answer = [state |-> "cut", value |-> {}]
      OBVIOUS
    <3>3. /\ q.kind \in Fetches /\ q.got[part].state = "out" /\ Got(q, part, answer)
          /\ UNCHANGED <<mounted, stored, shownVars, givenUp, mixed, doubtful>>
      BY <3>1, <3>2 DEF Cut, doubtVars
    <3>4. answer.state = "cut" /\ answer.state \in States \ {"out"}
      BY <3>2 DEF States
    <3>5. mixed \subseteq doubtful
      BY DEF ListsInv
    <3> QED BY <3>3, <3>4, <3>5, Answered
  <2>4. CASE CatalogSettles(q)
    <3>1. q.kind = "catalog" /\ Done(q) /\ UNCHANGED <<mounted, stored>>
      BY <2>4 DEF CatalogSettles
    <3>2. ListOf[q.kind] = Parts
      BY <3>1 DEF ListOf, Parts
    <3>3. ASSUME NEW L \in Parts \ (doubtful' \cup catalogError') PROVE UpToDate(L)'
      <4>1. q.got[L].state = "read"
        BY <2>4, <3>1, <3>2, <3>3, Undoubted DEF CatalogSettles
      <4>2. q.got[L].value = There(L)
        BY <3>1, <3>2, <3>3, <4>1, Undoubted
      <4>3. CASE L = "history"
        <5>1. historyRuns' = q.got["history"].value
          BY <2>4, <4>1, <4>3 DEF CatalogSettles
        <5> QED BY <3>1, <4>2, <4>3, <5>1 DEF UpToDate, There
      <4>4. CASE L = "plugins"
        <5>1. plugins' = ListedAs(q.got["plugins"].value)
          BY <2>4, <4>1, <4>4 DEF CatalogSettles, Listing
        <5> QED BY <3>1, <4>2, <4>4, <5>1 DEF UpToDate, There, ListedAs
      <4> QED BY <4>3, <4>4 DEF Parts
    <3> QED BY <3>1, <3>2, <3>3, Closed
  <2>5. CASE onHistoryUpdated(q)
    <3>1. q.kind = "tool" /\ ListOf[q.kind] = {"history"}
      <4>1. q.kind = "tool"
        BY <2>5 DEF onHistoryUpdated
      <4> QED BY <4>1 DEF ListOf
    <3>2. UNCHANGED <<mounted, stored, shownVars>>
      BY <2>5 DEF onHistoryUpdated
    <3>3. \A L \in Parts \ {"history"} : UpToDate(L) => UpToDate(L)'
      BY <3>2 DEF UpToDate, Parts, shownVars, ListedAs
    <3>4. CASE Followed(q, "history", "")
      BY <3>1, <3>2, <3>3, <3>4, Continued DEF shownVars
    <3>5. CASE q.got["history"].state = "failed" /\ Done(q)
      <4>1. "history" \in doubtful'
        BY <3>1, <3>5, Undoubted
      <4> QED BY <3>1, <3>2, <3>3, <3>5, <4>1, Closed DEF shownVars
    <3> QED BY <2>5, <3>4, <3>5 DEF onHistoryUpdated
  <2>6. CASE refreshHistory(q)
    <3>1. q.kind = "history" /\ ListOf[q.kind] = {"history"}
      BY <2>6 DEF refreshHistory, ListOf
    <3>2. Done(q) /\ UNCHANGED <<mounted, stored, catalogError, plugins>>
      BY <2>6 DEF refreshHistory
    <3>3. \A L \in Parts \ {"history"} : UpToDate(L) => UpToDate(L)'
      BY <3>2 DEF UpToDate, Parts, ListedAs
    <3>4. ASSUME "history" \notin doubtful' PROVE UpToDate("history")'
      <4>1. q.got["history"].state = "read"
        BY <2>1, <2>6, <3>1, <3>2, <3>4, Undoubted DEF IsRequest, States, refreshHistory
      <4>2. q.got["history"].value = stored
        BY <3>1, <3>2, <3>4, <4>1, Undoubted DEF There
      <4> QED BY <2>6, <3>2, <4>1, <4>2 DEF refreshHistory, UpToDate
    <3> QED BY <3>1, <3>2, <3>3, <3>4, Closed
  <2>7. CASE PluginUpdated(q)
    <3>1. q.kind = "mount" /\ ListOf[q.kind] = {"plugins"}
      BY <2>7 DEF PluginUpdated, ListOf
    <3>2. /\ Followed(q, "plugins", q.of)
          /\ UNCHANGED <<mounted, stored, catalogError, historyRuns>>
      BY <2>7 DEF PluginUpdated
    <3>3. \A L \in Parts \ {"plugins"} : UpToDate(L) => UpToDate(L)'
      BY <3>2 DEF UpToDate, Parts
    <3> QED BY <3>1, <3>2, <3>3, Continued
  <2>8. CASE PluginRefused(q)
    <3>1. q.kind = "mount" /\ ListOf[q.kind] = {"plugins"}
      BY <2>8 DEF PluginRefused, ListOf
    <3>2. Done(q) /\ UNCHANGED <<mounted, stored, catalogError, historyRuns>>
      BY <2>8 DEF PluginRefused
    <3>3. \A L \in Parts \ {"plugins"} : UpToDate(L) => UpToDate(L)'
      BY <3>2 DEF UpToDate, Parts
    <3>4. "plugins" \in doubtful'
      BY <2>8, <3>1, <3>2, Undoubted DEF PluginRefused
    <3> QED BY <3>1, <3>2, <3>3, <3>4, Closed
  <2>9. CASE refreshList(q)
    <3>1. q.kind = "plugins" /\ ListOf[q.kind] = {"plugins"}
      BY <2>9 DEF refreshList, ListOf
    <3>2. Done(q) /\ UNCHANGED <<mounted, stored, catalogError, historyRuns>>
      BY <2>9 DEF refreshList
    <3>3. \A L \in Parts \ {"plugins"} : UpToDate(L) => UpToDate(L)'
      BY <3>2 DEF UpToDate, Parts
    <3>4. ASSUME "plugins" \notin doubtful' PROVE UpToDate("plugins")'
      <4>1. q.got["plugins"].state = "read"
        BY <2>1, <2>9, <3>1, <3>2, <3>4, Undoubted DEF IsRequest, States, refreshList
      <4>2. q.got["plugins"].value = mounted
        BY <3>1, <3>2, <3>4, <4>1, Undoubted DEF There
      <4>3. plugins' = ListedAs(mounted)
        BY <2>9, <4>1, <4>2 DEF refreshList, Listing
      <4> QED BY <3>2, <4>3 DEF UpToDate, ListedAs
    <3> QED BY <3>1, <3>2, <3>3, <3>4, Closed
  <2>10. CASE Removed(q)
    <3>1. q.kind \in {"delete", "clear"} /\ ListOf[q.kind] = {"history"}
      BY <2>10 DEF Removed, ListOf
    <3>2. Done(q) /\ UNCHANGED <<mounted, stored, catalogError, plugins>>
      BY <2>10 DEF Removed
    <3>3. \A L \in Parts \ {"history"} : UpToDate(L) => UpToDate(L)'
      BY <3>2 DEF UpToDate, Parts, ListedAs
    <3>4. ASSUME "history" \notin doubtful' \cup catalogError PROVE UpToDate("history")'
      <4>0. "history" \notin doubtful
        BY <3>1, <3>2, <3>4, Undoubted DEF Fetches
      <4>1. q.got["history"].state = "read"
        BY <2>1, <2>10, <3>1, <3>2, <3>4, Undoubted DEF IsRequest, States, Removed
      <4>2. q.more \ {q.of} = stored
        BY <2>1, <3>1, <3>4, <4>0, <4>1 DEF Holds, IsRequest
      <4> QED BY <2>10, <3>2, <4>1, <4>2 DEF Removed, UpToDate
    <3> QED BY <3>1, <3>2, <3>3, <3>4, Closed
  <2> QED BY <1>8, <2>2, <2>3, <2>31, <2>4, <2>5, <2>6, <2>7, <2>8, <2>9, <2>10
<1>9. CASE \E q \in givenUp : HandledLate(q)
  BY <1>9, DoneLate
<1> QED BY <1>1, <1>2, <1>3, <1>4, <1>5, <1>6, <1>7, <1>8, <1>9 DEF ListsNext

\* The page opens with nothing on it and the catalog out.
LEMMA ListsStart == ListsInit => ListsInv
<1> SUFFICES ASSUME ListsInit PROVE ListsInv
  OBVIOUS
<1>1. PICK kind, of, no, a : kind = "catalog" /\ of = "" /\ no = 0 /\ a = Ask(kind, of, {}, no)
  OBVIOUS
<1>2. kind \in DOMAIN ListOf /\ ListOf[kind] = Parts
  BY <1>1 DEF ListOf, Parts
<1>3. /\ IsRequest(a) /\ a.kind = kind
      /\ \A L \in ListOf[kind] : a.got[L].state = "out"
  <2>1. a = Ask(kind, of, {}, no)
    BY <1>1
  <2> QED BY <1>2, <2>1, AskIs
<1>4. traffic = {a}
  BY <1>1 DEF ListsInit
<1>5. Holds(a) /\ givenUp = {} /\ mixed \subseteq doubtful
  BY <1>1, <1>2, <1>3 DEF Holds, ListsInit
<1> QED BY <1>2, <1>3, <1>4, <1>5 DEF ListsInv, Alone, Current

\* So it is in every state of the page.
LEMMA ListsInvariance == ListsSpec => []ListsInv
<1>1. ListsInv /\ [ListsNext]_listsVars => ListsInv'
  BY ListsStep
<1> QED BY <1>1, ListsStart, PTL DEF ListsSpec

\* For any plugins and any runs, a list on the page that no request is out for is the one the
\* backend has, or the warning names it, unless two requests of it were out together, an answer
\* was lost or its body was cut, and the list was not fetched alone since
\* (App.tsx:175, ScriptManager.tsx:69, HistoryView.tsx:41).
THEOREM ListsCurrent == ListsSpec => []ListsAreCurrent
<1>1. ListsInv => ListsAreCurrent
  <2> SUFFICES ASSUME ListsInv PROVE ListsAreCurrent
    OBVIOUS
  <2>1. Current("plugins") /\ Current("history")
    BY DEF ListsInv, Parts
  <2> QED BY <2>1 DEF Current, UpToDate, ListsAreCurrent
<1> QED BY <1>1, ListsInvariance, PTL

===============================================================================
