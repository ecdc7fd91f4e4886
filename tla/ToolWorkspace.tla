---------------------------- MODULE ToolWorkspace ----------------------------
(***************************************************************************)
(* The workspace of a tool pane in localStorage                            *)
(* (src/frontend/src/state/toolWorkspace.ts), for one key and the tabs     *)
(* that have it open: every launch from Capture opens another tab.         *)
(*                                                                         *)
(* A draft is a pair of an input and a result, the result being the heavy  *)
(* key.  The effect of the hook runs after the render a change causes and  *)
(* before the next event of that tab (due).                                *)
(***************************************************************************)
EXTENDS Naturals

CONSTANTS
  Tabs,
  Inputs,         \* what the user enters; 0 is the initial input
  Results,        \* results that fit; 0 is none
  Huge,           \* results larger than maxBytes, or not serializable
  HeavyDeclared,  \* the pane declares its result in heavyKeys
  NoWrite,        \* no pending write
  NoWriter

ASSUME WorkspaceAssumption ==
  /\ Inputs \subseteq Nat /\ Results \subseteq Nat /\ Huge \subseteq Nat
  /\ 0 \in Inputs /\ 0 \in Results \ Huge /\ HeavyDeclared \in BOOLEAN
  /\ NoWrite \notin [input : Inputs, result : Results \cup Huge]
  /\ NoWriter \notin Tabs

VARIABLES
  workspace,      \* the draft each tab shows
  due,            \* its effect has yet to run
  timer,          \* the draft its pending write closed over, or NoWrite
  suppress,       \* suppressNextWriteRef
  storage,        \* the entry in localStorage: a form and a draft
  emptied,        \* tabs that reset and were left alone since (history variable)
  writer          \* the last tab that changed or wrote (history variable)

workspaceVars == <<workspace, due, timer, suppress, storage, emptied, writer>>

Draft == [input : Inputs, result : Results \cup Huge]
Initial == [input |-> 0, result |-> 0]

\* withoutHeavyKeys, and pickLightFields for an entry of an older version
LightDraft(d) == IF HeavyDeclared THEN [d EXCEPT !.result = 0] ELSE d

\* What localStorage can hold: no entry, one written by this version, one written by an
\* older one (no version or 1), or something that is not an envelope of ours.
Forms == {"none", "v2", "legacy", "foreign"}
Nowhere == [form |-> "none", draft |-> Initial]
Entry(d) == [form |-> "v2", draft |-> d]

WorkspaceInit ==
  /\ workspace = [t \in Tabs |-> Initial]
  /\ due = [t \in Tabs |-> FALSE]
  /\ timer = [t \in Tabs |-> NoWrite]
  /\ suppress = [t \in Tabs |-> FALSE]
  /\ storage \in {Nowhere} \cup {Entry(d) : d \in [input : Inputs, result : Results]}
                 \cup [form : {"legacy", "foreign"}, draft : Draft]
  /\ emptied = {}
  /\ writer = NoWriter

\* Slip: an older entry is taken over with its result.
MountTabWhole(t) ==
  /\ \E wrote \in BOOLEAN :
       LET migrates == storage.form = "legacy" /\ wrote
       IN  /\ workspace' = [workspace EXCEPT ![t] =
                              IF storage.form = "v2" \/ migrates THEN storage.draft ELSE Initial]
           /\ storage' = IF migrates THEN Entry(storage.draft) ELSE storage
  /\ due' = [due EXCEPT ![t] = TRUE]
  /\ timer' = [timer EXCEPT ![t] = NoWrite]
  /\ suppress' = [suppress EXCEPT ![t] = FALSE]
  /\ emptied' = emptied \ {t} /\ writer' = t

(***************************************************************************)
(* readWorkspace, in the first render of a tab.  An older entry is         *)
(* rewritten without its heavy fields; when that write throws, the tab     *)
(* starts from the initial draft.  The first effect is due.                *)
(***************************************************************************)
MountTab(t) ==
  /\ \E wrote \in BOOLEAN :
       LET migrates == storage.form = "legacy" /\ wrote
       IN  /\ workspace' = [workspace EXCEPT ![t] =
                              CASE storage.form = "v2" -> storage.draft
                                [] migrates -> LightDraft(storage.draft)
                                [] OTHER -> Initial]
           /\ storage' = IF migrates THEN Entry(LightDraft(storage.draft)) ELSE storage
  /\ due' = [due EXCEPT ![t] = TRUE]
  /\ timer' = [timer EXCEPT ![t] = NoWrite]
  /\ suppress' = [suppress EXCEPT ![t] = FALSE]
  /\ emptied' = emptied \ {t} /\ writer' = t

\* setWorkspace, from the pane's own effect.
SetWorkspace(t, d) ==
  /\ ~due[t]
  /\ workspace' = [workspace EXCEPT ![t] = d]
  /\ due' = [due EXCEPT ![t] = TRUE]
  /\ emptied' = emptied \ {t} /\ writer' = t
  /\ UNCHANGED <<timer, suppress, storage>>

\* Slip: the flag of a reset is never taken down.
EffectSticks(t) ==
  /\ due[t] /\ due' = [due EXCEPT ![t] = FALSE]
  /\ timer' = [timer EXCEPT ![t] = IF suppress[t] THEN NoWrite ELSE workspace[t]]
  /\ UNCHANGED <<workspace, suppress, storage, emptied, writer>>

\* Slip: the effect does not look at the flag of a reset.
EffectWrites(t) ==
  /\ due[t] /\ due' = [due EXCEPT ![t] = FALSE]
  /\ suppress' = [suppress EXCEPT ![t] = FALSE]
  /\ timer' = [timer EXCEPT ![t] = workspace[t]]
  /\ UNCHANGED <<workspace, storage, emptied, writer>>

\* The effect: the cleanup of the one before it cancels the pending write, a reset
\* swallows this one, and any other change starts the 500 ms anew.
Effect(t) ==
  /\ due[t] /\ due' = [due EXCEPT ![t] = FALSE]
  /\ suppress' = [suppress EXCEPT ![t] = FALSE]
  /\ timer' = [timer EXCEPT ![t] = IF suppress[t] THEN NoWrite ELSE workspace[t]]
  /\ UNCHANGED <<workspace, storage, emptied, writer>>

(***************************************************************************)
(* persistWorkspace: the whole draft, or its input half when the whole is  *)
(* too large, cannot be serialized or does not fit in the quota.  full and *)
(* light say whether setItem succeeds.  When neither is written the older  *)
(* entry stays.                                                            *)
(***************************************************************************)
Written(d, full, light) ==
  LET fallback == d.result \in Huge
  IN  IF ~fallback /\ full THEN Entry(d)
      ELSE IF light /\ (fallback \/ HeavyDeclared) THEN Entry(LightDraft(d))
      ELSE storage

Fire(t) ==
  /\ ~due[t] /\ timer[t] # NoWrite
  /\ timer' = [timer EXCEPT ![t] = NoWrite]
  /\ \E full, light \in BOOLEAN :
       /\ storage' = Written(timer[t], full, light)
       /\ writer' = IF full /\ light THEN t ELSE NoWriter
  /\ emptied' = emptied \cap {t}
  /\ UNCHANGED <<workspace, due, suppress>>

\* reset: no pending write, no entry, and the render it causes writes nothing.
Reset(t) ==
  /\ ~due[t]
  /\ timer' = [timer EXCEPT ![t] = NoWrite]
  /\ storage' = Nowhere
  /\ suppress' = [suppress EXCEPT ![t] = TRUE]
  /\ workspace' = [workspace EXCEPT ![t] = Initial]
  /\ due' = [due EXCEPT ![t] = TRUE]
  /\ emptied' = {t} /\ writer' = NoWriter

WorkspaceNext ==
  \E t \in Tabs : \/ MountTab(t) \/ Effect(t) \/ Fire(t) \/ Reset(t)
                   \/ \E d \in Draft : SetWorkspace(t, d)

WorkspaceSpec == WorkspaceInit /\ [][WorkspaceNext]_workspaceVars

-----------------------------------------------------------------------------
(* Properties *)

WorkspaceTypeOK ==
  /\ workspace \in [Tabs -> Draft]
  /\ due \in [Tabs -> BOOLEAN]
  /\ timer \in [Tabs -> Draft \cup {NoWrite}]
  /\ suppress \in [Tabs -> BOOLEAN]
  /\ storage \in [form : Forms, draft : Draft]
  /\ emptied \subseteq Tabs
  /\ writer \in Tabs \cup {NoWriter}

\* A pending write is of what its tab shows: a change cancels the one before it
\* (toolWorkspace.ts:154, :159).  What the refinement rests on.
PendingIsCurrent ==
  \A t \in Tabs : ~due[t] /\ timer[t] # NoWrite => timer[t] = workspace[t]

LightEntry(e) == Entry(LightDraft(e.draft))

Store == INSTANCE DraftStore WITH
  Drafts <- {Entry(d) : d \in Draft}, Light <- LightEntry, First <- Entry(Initial),
  Nothing <- Nowhere, screen <- [t \in Tabs |-> Entry(workspace[t])], kept <- storage

\* The workspace implements DraftStore: the debounce never writes an older draft, an
\* older version's entry never gives its result, a failed write changes nothing
\* (toolWorkspace.ts:54, :111, :155).
StorageKeepsDrafts == Store!StoreSpec

\* A tab that reset its workspace, with no other tab writing since, leaves nothing in
\* the storage: the write that was pending and the write of the cleared draft are both
\* dropped (toolWorkspace.ts:150, :170).
ResetSticks == \A t \in emptied : storage = Nowhere

\* When the last tab that changed has nothing left to write, what it shows is stored,
\* in full or without a result too large: no change is lost between a reset, the
\* debounce and another tab (toolWorkspace.ts:150, :155).
QuietTabIsStored ==
  \A t \in Tabs :
    writer = t /\ ~due[t] /\ timer[t] = NoWrite =>
      storage \in {Entry(workspace[t]), Entry(LightDraft(workspace[t]))}
=============================================================================
