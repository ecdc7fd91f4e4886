------------------------------ MODULE MCFrontend ------------------------------
(***************************************************************************)
(* The parts of the page, in one run.  They share nothing: each tool has   *)
(* its own entry of localStorage and a response reaches only the component *)
(* that sent the request.  So a behaviour is one of one part, chosen at    *)
(* the start, and the others stay in one of their initial states.          *)
(***************************************************************************)
EXTENDS BomWizard, ToolWorkspace, PlacementReview, MCConflictReview, ToolPanes,
        ApiClient, UpdateDialog, AppShell, PlatformLists, FrontendKernels

VARIABLE unit

MCItemOrder == <<"n1", "n2">>
MCGroupOrder == <<"shield", "part">>

\* A shield that needs a review and was decided in an earlier run, and a part that
\* needs none, with a code and a model the backend suggests and nothing usable of its own.
MCGroupFacts ==
  [k \in {"shield", "part"} |->
     IF k = "shield"
     THEN [role |-> "shield", subtype |-> "cover", review |-> TRUE, suggested |-> "non_smt",
           exclusion |-> "scope_excluded", state |-> "suspected_material", mpn |-> "none",
           suggestedCode |-> "none", givenCode |-> "ok", givenName |-> "ok",
           residue |-> FALSE,
           past |-> [destination |-> "non_smt", exclusion |-> "scope_excluded",
                     role |-> "shield", subtype |-> "cover", code |-> "ok", name |-> "ok",
                     source |-> "user"]]
     ELSE [role |-> "electronic", subtype |-> "none", review |-> FALSE, suggested |-> "smt",
           exclusion |-> "none", state |-> "suspected_material", mpn |-> "ok",
           suggestedCode |-> "ok", givenCode |-> "bad", givenName |-> "none",
           residue |-> FALSE, past |-> NoResolution]]

frontendVars == <<unit, wizardVars, workspaceVars, placementVars, conflictVars, paneVars,
                  apiVars, dialogVars, shellVars, listsVars, kernelVars>>

FrontendInit ==
  /\ unit \in {"wizard", "workspace", "placement", "conflict", "pane", "api", "dialog",
               "shell", "lists", "kernel"}
  /\ WizardInit /\ WorkspaceInit /\ PlacementInit /\ ConflictInit /\ PaneInit
  /\ ApiInit /\ DialogInit /\ ShellInit /\ ListsInit /\ KernelInit
  /\ unit # "workspace" => storage = Nowhere
  /\ unit # "placement" => decided = [k \in GroupKeys |-> NoResolution]
  /\ unit # "conflict" => chosen = NoChoices /\ Confident = {}
  /\ unit # "pane" => pane = "smt"
  /\ unit # "dialog" => job.phase = "idle"
  /\ unit # "shell" => alive
  /\ mounted = {} /\ (unit # "lists" => stored = {})

WizardStep ==
  /\ unit = "wizard" /\ WizardNext
  /\ UNCHANGED <<unit, workspaceVars, placementVars, conflictVars, paneVars, apiVars,
               dialogVars, shellVars, listsVars, kernelVars>>

WorkspaceStep ==
  /\ unit = "workspace" /\ WorkspaceNext
  /\ UNCHANGED <<unit, wizardVars, placementVars, conflictVars, paneVars, apiVars,
               dialogVars, shellVars, listsVars, kernelVars>>

PlacementStep ==
  /\ unit = "placement" /\ PlacementNext
  /\ UNCHANGED <<unit, wizardVars, workspaceVars, conflictVars, paneVars, apiVars,
               dialogVars, shellVars, listsVars, kernelVars>>

ConflictStep ==
  /\ unit = "conflict" /\ ConflictNext
  /\ UNCHANGED <<unit, wizardVars, workspaceVars, placementVars, paneVars, apiVars,
               dialogVars, shellVars, listsVars, kernelVars>>

PaneStep ==
  /\ unit = "pane" /\ PaneNext
  /\ UNCHANGED <<unit, wizardVars, workspaceVars, placementVars, conflictVars, apiVars,
               dialogVars, shellVars, listsVars, kernelVars>>

ApiStep ==
  /\ unit = "api" /\ ApiNext
  /\ UNCHANGED <<unit, wizardVars, workspaceVars, placementVars, conflictVars, paneVars,
               dialogVars, shellVars, listsVars, kernelVars>>

DialogStep ==
  /\ unit = "dialog" /\ DialogNext
  /\ UNCHANGED <<unit, wizardVars, workspaceVars, placementVars, conflictVars, paneVars,
               apiVars, shellVars, listsVars, kernelVars>>

ShellStep ==
  /\ unit = "shell" /\ ShellNext
  /\ UNCHANGED <<unit, wizardVars, workspaceVars, placementVars, conflictVars, paneVars,
               apiVars, dialogVars, listsVars, kernelVars>>

ListsStep ==
  /\ unit = "lists" /\ ListsNext
  /\ UNCHANGED <<unit, wizardVars, workspaceVars, placementVars, conflictVars, paneVars,
               apiVars, dialogVars, shellVars, kernelVars>>

KernelStep ==
  /\ unit = "kernel" /\ KernelNext
  /\ UNCHANGED <<unit, wizardVars, workspaceVars, placementVars, conflictVars, paneVars,
               apiVars, dialogVars, shellVars, listsVars>>

FrontendNext ==
  \/ WizardStep \/ WorkspaceStep \/ PlacementStep \/ ConflictStep \/ PaneStep
  \/ ApiStep \/ DialogStep \/ ShellStep \/ ListsStep \/ KernelStep

\* The fairness of the one part that has a liveness property.
FrontendSpec ==
  /\ FrontendInit /\ [][FrontendNext]_frontendVars
  /\ unit = "shell" => ShellFairness

\* The part that runs is well typed.
FrontendTypeOK ==
  CASE unit = "wizard" -> WizardTypeOK
    [] unit = "workspace" -> WorkspaceTypeOK
    [] unit = "placement" -> PlacementTypeOK
    [] unit = "conflict" -> ConflictTypeOK
    [] unit = "pane" -> PaneTypeOK
    [] unit = "api" -> ApiTypeOK
    [] unit = "dialog" -> DialogTypeOK
    [] unit = "shell" -> ShellTypeOK
    [] unit = "lists" -> ListsTypeOK
    [] unit = "kernel" -> KernelTypeOK
=============================================================================
