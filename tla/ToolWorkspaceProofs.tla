-------------------------- MODULE ToolWorkspaceProofs --------------------------
(***************************************************************************)
(* The workspace of a tool pane keeps its promises for any number of tabs  *)
(* and any drafts, and implements DraftStore.                              *)
(***************************************************************************)
EXTENDS ToolWorkspace, TLAPS

\* What a reset leaves: no entry, no pending write, and an effect that writes none.
ResetIsClean ==
  \A t \in emptied : storage = Nowhere /\ timer[t] = NoWrite /\ (due[t] => suppress[t])

\* The flag of a reset is only up until its effect has run, and its tab did not write since.
FlagIsDue == \A t \in Tabs : suppress[t] => due[t] /\ writer # t

WorkspaceInv ==
  WorkspaceTypeOK /\ PendingIsCurrent /\ ResetIsClean /\ FlagIsDue /\ QuietTabIsStored

-----------------------------------------------------------------------------
USE WorkspaceAssumption

\* A new workspace is a draft.
LEMMA InitialDraft == Initial \in Draft
BY DEF Initial, Draft

\* So is one that has been made light.
LEMMA LightDraftTyped == ASSUME NEW d \in Draft PROVE LightDraft(d) \in Draft
BY DEF LightDraft, Draft

\* The entry of a draft holds that draft.
LEMMA EntryFields ==
  ASSUME NEW d \in Draft
  PROVE  Entry(d) \in [form : Forms, draft : Draft] /\ Entry(d).draft = d
BY DEF Entry, Forms

\* No entry is an entry too.
LEMMA NowhereTyped == Nowhere \in [form : Forms, draft : Draft]
BY InitialDraft DEF Nowhere, Forms

\* A draft is not the mark for no write.
LEMMA NotAWrite == ASSUME NEW d \in Draft PROVE d # NoWrite
BY DEF Draft

\* What a tab opens on, and what its migration leaves in the storage.
LEMMA MountTabOpens ==
  ASSUME WorkspaceTypeOK, NEW t \in Tabs, MountTab(t)
  PROVE  \E d \in Draft :
           /\ workspace' = [workspace EXCEPT ![t] = d]
           /\ \/ storage' = storage
              \/ storage' = Entry(LightDraft(storage.draft)) /\ storage.form = "legacy"
           /\ d = Initial \/ Entry(d) = storage'
           /\ storage' \in [form : Forms, draft : Draft]
<1>1. PICK wrote \in BOOLEAN :
        LET migrates == storage.form = "legacy" /\ wrote
        IN  /\ workspace' = [workspace EXCEPT ![t] =
                               CASE storage.form = "v2" -> storage.draft
                                 [] migrates -> LightDraft(storage.draft)
                                 [] OTHER -> Initial]
            /\ storage' = IF migrates THEN Entry(LightDraft(storage.draft)) ELSE storage
  BY Zenon DEF MountTab
<1>2. storage \in [form : Forms, draft : Draft]
  BY DEF WorkspaceTypeOK
<1>3. storage.draft \in Draft /\ storage = [form |-> storage.form, draft |-> storage.draft]
  BY <1>2
<1>4. CASE storage.form = "v2"
  <2>1. workspace' = [workspace EXCEPT ![t] = storage.draft] /\ storage' = storage
    BY <1>1, <1>4
  <2>2. Entry(storage.draft) = storage
    BY <1>3, <1>4 DEF Entry
  <2> QED BY <1>2, <1>3, <2>1, <2>2
<1>5. CASE storage.form = "legacy" /\ wrote
  <2>1. workspace' = [workspace EXCEPT ![t] = LightDraft(storage.draft)]
    BY <1>1, <1>5
  <2>2. storage' = Entry(LightDraft(storage.draft))
    BY <1>1, <1>5
  <2> QED BY <1>3, <1>5, <2>1, <2>2, LightDraftTyped, EntryFields
<1>6. CASE storage.form # "v2" /\ ~(storage.form = "legacy" /\ wrote)
  <2>1. workspace' = [workspace EXCEPT ![t] = Initial] /\ storage' = storage
    BY <1>1, <1>6
  <2> QED BY <1>2, <2>1, InitialDraft
<1> QED BY <1>4, <1>5, <1>6

\* What a write that comes due stores: the draft, its light half, or nothing new.
LEMMA FireStores ==
  ASSUME WorkspaceTypeOK, PendingIsCurrent, NEW t \in Tabs, Fire(t)
  PROVE  /\ timer[t] = workspace[t] /\ workspace[t] \in Draft
         /\ storage' \in {storage, Entry(workspace[t]), Entry(LightDraft(workspace[t]))}
         /\ storage' \in [form : Forms, draft : Draft]
         /\ \/ writer' = NoWriter
            \/ writer' = t /\ storage' \in {Entry(workspace[t]), Entry(LightDraft(workspace[t]))}
<1>1. PICK full \in BOOLEAN, light \in BOOLEAN :
        /\ storage' = Written(timer[t], full, light)
        /\ writer' = IF full /\ light THEN t ELSE NoWriter
  BY Zenon DEF Fire
<1>2. timer[t] = workspace[t] /\ workspace[t] \in Draft
  BY DEF Fire, PendingIsCurrent, WorkspaceTypeOK
<1>3. /\ storage' \in {storage, Entry(workspace[t]), Entry(LightDraft(workspace[t]))}
      /\ full /\ light => storage' \in {Entry(workspace[t]), Entry(LightDraft(workspace[t]))}
  <2>1. CASE ~(workspace[t].result \in Huge) /\ full
    BY <1>1, <1>2, <2>1 DEF Written
  <2>2. CASE /\ ~(~(workspace[t].result \in Huge) /\ full)
             /\ light /\ (workspace[t].result \in Huge \/ HeavyDeclared)
    BY <1>1, <1>2, <2>2 DEF Written
  <2>3. CASE /\ ~(~(workspace[t].result \in Huge) /\ full)
             /\ ~(light /\ (workspace[t].result \in Huge \/ HeavyDeclared))
    BY <1>1, <1>2, <2>3 DEF Written
  <2> QED BY <2>1, <2>2, <2>3
<1>4. storage' \in [form : Forms, draft : Draft]
  BY <1>2, <1>3, EntryFields, LightDraftTyped DEF WorkspaceTypeOK
<1> QED BY <1>1, <1>2, <1>3, <1>4

\* Every step keeps the types.
LEMMA WorkspaceTypeStep == WorkspaceInv /\ [WorkspaceNext]_workspaceVars => WorkspaceTypeOK'
<1> SUFFICES ASSUME WorkspaceInv, [WorkspaceNext]_workspaceVars PROVE WorkspaceTypeOK'
  OBVIOUS
<1> USE DEF WorkspaceInv, WorkspaceTypeOK
<1>1. ASSUME NEW t \in Tabs, MountTab(t) PROVE WorkspaceTypeOK'
  <2>1. PICK d \in Draft : /\ workspace' = [workspace EXCEPT ![t] = d]
                           /\ storage' \in [form : Forms, draft : Draft]
    BY <1>1, MountTabOpens
  <2> QED BY <1>1, <2>1 DEF MountTab
<1>2. ASSUME NEW t \in Tabs, NEW d \in Draft, SetWorkspace(t, d) PROVE WorkspaceTypeOK'
  BY <1>2 DEF SetWorkspace
<1>3. ASSUME NEW t \in Tabs, Effect(t) PROVE WorkspaceTypeOK'
  <2>1. timer' \in [Tabs -> Draft \cup {NoWrite}]
    BY <1>3 DEF Effect
  <2> QED BY <1>3, <2>1 DEF Effect
<1>4. ASSUME NEW t \in Tabs, Fire(t) PROVE WorkspaceTypeOK'
  <2>1. storage' \in [form : Forms, draft : Draft] /\ writer' \in Tabs \cup {NoWriter}
    BY <1>4, FireStores
  <2> QED BY <1>4, <2>1 DEF Fire
<1>5. ASSUME NEW t \in Tabs, Reset(t) PROVE WorkspaceTypeOK'
  BY <1>5, InitialDraft, NowhereTyped DEF Reset
<1>6. CASE UNCHANGED workspaceVars
  BY <1>6 DEF workspaceVars
<1> QED BY <1>1, <1>2, <1>3, <1>4, <1>5, <1>6 DEF WorkspaceNext

\* A pending write stays the write of what its tab shows.
LEMMA PendingStep == WorkspaceInv /\ [WorkspaceNext]_workspaceVars => PendingIsCurrent'
<1> SUFFICES ASSUME WorkspaceInv, [WorkspaceNext]_workspaceVars PROVE PendingIsCurrent'
  OBVIOUS
<1> USE DEF WorkspaceInv, WorkspaceTypeOK, PendingIsCurrent
<1>1. ASSUME NEW t \in Tabs, MountTab(t) PROVE PendingIsCurrent'
  <2>1. PICK d \in Draft : workspace' = [workspace EXCEPT ![t] = d]
    BY <1>1, MountTabOpens
  <2> QED BY <1>1, <2>1 DEF MountTab
<1>2. ASSUME NEW t \in Tabs, NEW d \in Draft, SetWorkspace(t, d) PROVE PendingIsCurrent'
  BY <1>2 DEF SetWorkspace
<1>3. ASSUME NEW t \in Tabs, Effect(t) PROVE PendingIsCurrent'
  BY <1>3 DEF Effect
<1>4. ASSUME NEW t \in Tabs, Fire(t) PROVE PendingIsCurrent'
  BY <1>4 DEF Fire
<1>5. ASSUME NEW t \in Tabs, Reset(t) PROVE PendingIsCurrent'
  BY <1>5 DEF Reset
<1>6. CASE UNCHANGED workspaceVars
  BY <1>6 DEF workspaceVars
<1> QED BY <1>1, <1>2, <1>3, <1>4, <1>5, <1>6 DEF WorkspaceNext

\* A reset stays clean until a tab writes.
LEMMA ResetStep == WorkspaceInv /\ [WorkspaceNext]_workspaceVars => ResetIsClean'
<1> SUFFICES ASSUME WorkspaceInv, [WorkspaceNext]_workspaceVars PROVE ResetIsClean'
  OBVIOUS
<1> USE DEF WorkspaceInv, WorkspaceTypeOK, ResetIsClean
<1>1. ASSUME NEW t \in Tabs, MountTab(t) PROVE ResetIsClean'
  <2>1. storage = Nowhere => storage' = Nowhere
    BY <1>1, MountTabOpens DEF Nowhere
  <2> QED BY <1>1, <2>1 DEF MountTab
<1>2. ASSUME NEW t \in Tabs, NEW d \in Draft, SetWorkspace(t, d) PROVE ResetIsClean'
  BY <1>2 DEF SetWorkspace
<1>3. ASSUME NEW t \in Tabs, Effect(t) PROVE ResetIsClean'
  BY <1>3 DEF Effect
<1>4. ASSUME NEW t \in Tabs, Fire(t) PROVE ResetIsClean'
  BY <1>4 DEF Fire
<1>5. ASSUME NEW t \in Tabs, Reset(t) PROVE ResetIsClean'
  BY <1>5 DEF Reset
<1>6. CASE UNCHANGED workspaceVars
  BY <1>6 DEF workspaceVars
<1> QED BY <1>1, <1>2, <1>3, <1>4, <1>5, <1>6 DEF WorkspaceNext

\* The flag of a reset goes with its effect.
LEMMA FlagStep == WorkspaceInv /\ [WorkspaceNext]_workspaceVars => FlagIsDue'
<1> SUFFICES ASSUME WorkspaceInv, [WorkspaceNext]_workspaceVars PROVE FlagIsDue'
  OBVIOUS
<1> USE DEF WorkspaceInv, WorkspaceTypeOK, FlagIsDue
<1>1. ASSUME NEW t \in Tabs, MountTab(t) PROVE FlagIsDue'
  BY <1>1 DEF MountTab
<1>2. ASSUME NEW t \in Tabs, NEW d \in Draft, SetWorkspace(t, d) PROVE FlagIsDue'
  BY <1>2 DEF SetWorkspace
<1>3. ASSUME NEW t \in Tabs, Effect(t) PROVE FlagIsDue'
  BY <1>3 DEF Effect
<1>4. ASSUME NEW t \in Tabs, Fire(t) PROVE FlagIsDue'
  <2>1. writer' = t \/ writer' = NoWriter
    BY <1>4, FireStores
  <2> QED BY <1>4, <2>1 DEF Fire
<1>5. ASSUME NEW t \in Tabs, Reset(t) PROVE FlagIsDue'
  BY <1>5 DEF Reset
<1>6. CASE UNCHANGED workspaceVars
  BY <1>6 DEF workspaceVars
<1> QED BY <1>1, <1>2, <1>3, <1>4, <1>5, <1>6 DEF WorkspaceNext

\* No step leaves a quiet tab unstored.
LEMMA QuietStep == WorkspaceInv /\ [WorkspaceNext]_workspaceVars => QuietTabIsStored'
<1> SUFFICES ASSUME WorkspaceInv, [WorkspaceNext]_workspaceVars PROVE QuietTabIsStored'
  OBVIOUS
<1> USE DEF WorkspaceInv, WorkspaceTypeOK, QuietTabIsStored
<1>1. ASSUME NEW t \in Tabs, MountTab(t) PROVE QuietTabIsStored'
  BY <1>1 DEF MountTab
<1>2. ASSUME NEW t \in Tabs, NEW d \in Draft, SetWorkspace(t, d) PROVE QuietTabIsStored'
  BY <1>2 DEF SetWorkspace
<1>3. ASSUME NEW t \in Tabs, Effect(t) PROVE QuietTabIsStored'
  <2>1. writer = t => timer'[t] # NoWrite
    BY <1>3, NotAWrite DEF Effect, FlagIsDue
  <2> QED BY <1>3, <2>1 DEF Effect
<1>4. ASSUME NEW t \in Tabs, Fire(t) PROVE QuietTabIsStored'
  <2>1. workspace' = workspace
    BY <1>4 DEF Fire
  <2> QED BY <1>4, <2>1, FireStores
<1>5. ASSUME NEW t \in Tabs, Reset(t) PROVE QuietTabIsStored'
  BY <1>5 DEF Reset
<1>6. CASE UNCHANGED workspaceVars
  BY <1>6 DEF workspaceVars
<1> QED BY <1>1, <1>2, <1>3, <1>4, <1>5, <1>6 DEF WorkspaceNext

\* At the start nothing is pending.
LEMMA WorkspaceInitial == WorkspaceInit => WorkspaceInv
<1> SUFFICES ASSUME WorkspaceInit PROVE WorkspaceInv
  OBVIOUS
<1>1. storage \in [form : Forms, draft : Draft]
  <2>1. ASSUME NEW d \in [input : Inputs, result : Results]
        PROVE  Entry(d) \in [form : Forms, draft : Draft]
    <3>1. d \in Draft
      BY DEF Draft
    <3> QED BY <3>1, EntryFields
  <2> QED BY <2>1, NowhereTyped DEF WorkspaceInit, Forms
<1>2. WorkspaceTypeOK
  BY <1>1, InitialDraft DEF WorkspaceInit, WorkspaceTypeOK
<1> QED
  BY <1>2 DEF WorkspaceInit, WorkspaceInv, PendingIsCurrent, ResetIsClean, FlagIsDue, QuietTabIsStored

\* The invariant is inductive.
LEMMA WorkspaceInductive == WorkspaceInv /\ [WorkspaceNext]_workspaceVars => WorkspaceInv'
BY WorkspaceTypeStep, PendingStep, ResetStep, FlagStep, QuietStep DEF WorkspaceInv

\* The invariant holds in every reachable state.
LEMMA WorkspaceInvariance == WorkspaceSpec => []WorkspaceInv
BY WorkspaceInitial, WorkspaceInductive, PTL DEF WorkspaceSpec

\* A tab that reset its workspace, with no other tab writing since, leaves nothing in the
\* storage (toolWorkspace.ts:150, :170).
THEOREM ResetLeavesNothing == WorkspaceSpec => []ResetSticks
<1>1. WorkspaceInv => ResetSticks
  BY DEF WorkspaceInv, ResetIsClean, ResetSticks
<1> QED BY <1>1, WorkspaceInvariance, PTL

\* When the last tab that changed has nothing left to write, what it shows is stored
\* (toolWorkspace.ts:150, :155).
THEOREM QuietIsStored == WorkspaceSpec => []QuietTabIsStored
<1>1. WorkspaceInv => QuietTabIsStored
  BY DEF WorkspaceInv
<1> QED BY <1>1, WorkspaceInvariance, PTL

-----------------------------------------------------------------------------
(* The refinement *)

screen == [t \in Tabs |-> Entry(workspace[t])]

\* A tab that shows another draft is another screen of DraftStore.
LEMMA ScreenStep ==
  ASSUME WorkspaceTypeOK, NEW t \in Tabs, NEW d \in Draft,
         workspace' = [workspace EXCEPT ![t] = d]
  PROVE  screen' = [screen EXCEPT ![t] = Entry(d)]
BY DEF screen, WorkspaceTypeOK

\* Every step of the workspace is one of the store, or changes neither what the tabs show
\* nor what is kept.
LEMMA StepRefines ==
  WorkspaceInv /\ [WorkspaceNext]_workspaceVars => [Store!StoreNext]_<<screen, storage>>
<1> SUFFICES ASSUME WorkspaceInv, [WorkspaceNext]_workspaceVars
             PROVE  [Store!StoreNext]_<<screen, storage>>
  OBVIOUS
<1> USE DEF WorkspaceInv, WorkspaceTypeOK
<1>1. ASSUME NEW t \in Tabs, MountTab(t) PROVE Store!Open(t)
  <2>1. PICK d \in Draft :
          /\ workspace' = [workspace EXCEPT ![t] = d]
          /\ storage' = storage \/ storage' = Entry(LightDraft(storage.draft))
          /\ d = Initial \/ Entry(d) = storage'
    BY <1>1, MountTabOpens
  <2>2. screen' = [screen EXCEPT ![t] = Entry(d)]
    BY <2>1, ScreenStep
  <2>3. Entry(d) \in {storage', Entry(Initial)}
    BY <2>1
  <2>4. storage' \in {storage, LightEntry(storage)}
    BY <2>1 DEF LightEntry
  <2> QED BY <2>2, <2>3, <2>4 DEF Store!Open, screen
<1>2. ASSUME NEW t \in Tabs, NEW d \in Draft, SetWorkspace(t, d) PROVE Store!Change(t)
  <2>1. screen' = [screen EXCEPT ![t] = Entry(d)] /\ storage' = storage
    BY <1>2, ScreenStep DEF SetWorkspace
  <2> QED BY <2>1 DEF Store!Change, screen
<1>3. ASSUME NEW t \in Tabs, Effect(t) PROVE UNCHANGED <<screen, storage>>
  BY <1>3 DEF Effect, screen
<1>4. ASSUME NEW t \in Tabs, Fire(t)
      PROVE  Store!Keep(t) \/ UNCHANGED <<screen, storage>>
  <2>1. screen' = screen
    BY <1>4 DEF Fire, screen
  <2>2. storage' \in {storage, Entry(workspace[t]), Entry(LightDraft(workspace[t]))}
    BY <1>4, FireStores
  <2>3. screen[t] = Entry(workspace[t])
    BY DEF screen
  <2>4. LightEntry(screen[t]) = Entry(LightDraft(workspace[t]))
    BY <2>3, EntryFields DEF LightEntry
  <2> QED BY <2>1, <2>2, <2>3, <2>4 DEF Store!Keep, screen
<1>5. ASSUME NEW t \in Tabs, Reset(t) PROVE Store!Forget(t)
  <2>1. screen' = [screen EXCEPT ![t] = Entry(Initial)] /\ storage' = Nowhere
    BY <1>5, ScreenStep, InitialDraft DEF Reset
  <2> QED BY <2>1 DEF Store!Forget, screen
<1>6. CASE UNCHANGED workspaceVars
  BY <1>6 DEF workspaceVars, screen
<1> QED BY <1>1, <1>2, <1>3, <1>4, <1>5, <1>6 DEF WorkspaceNext, Store!StoreNext

\* The workspace of the panes implements DraftStore: the debounce never writes an older
\* draft, an older version's entry never gives its result, and a write that fails changes
\* nothing (toolWorkspace.ts:54, :111, :155).
THEOREM StoreImplemented == WorkspaceSpec => StorageKeepsDrafts
<1>1. WorkspaceInv /\ [WorkspaceNext]_workspaceVars => [Store!StoreNext]_<<screen, storage>>
  BY StepRefines
<1> QED
  BY <1>1, WorkspaceInvariance, PTL DEF WorkspaceSpec, StorageKeepsDrafts, Store!StoreSpec, screen
=============================================================================
