---------------------------- MODULE FrontendKernels ----------------------------
(***************************************************************************)
(* The pure functions behind the tables and the board of the page, next to *)
(* what they promise: findings grouped by the record they speak of and     *)
(* counted by the backend (tools/bomCompare/summary.ts,                    *)
(* bom_semantics/diff.py), rows grouped by their outcome                   *)
(* (utils/businessResultGroups.ts, tools/smtPackage/grouping.ts) and the   *)
(* grid that finds the placements in view (components/spatialIndex.ts).    *)
(* The state is the input, grown one row at a time.                        *)
(***************************************************************************)
EXTENDS Integers, Sequences, FiniteSets
LOCAL INSTANCE SequencesExt

CONSTANTS
  Sources,        \* ids of source records
  Refs,           \* reference designators
  Materials,      \* material codes of findings; outcomes of rows
  Messages,       \* codes of findings: what they say
  MaxFindings,    \* bound: findings of one comparison
  MaxRows,        \* bound: rows of one table
  Span,           \* bound: coordinates of the board, -Span..Span
  CellSize,
  MaxPoints       \* bound: placements on the board

ASSUME KernelAssumption == CellSize \in Nat \ {0} /\ Span \in Nat

VARIABLES
  findings,       \* of both sources, as the backend has raised them
  rows,           \* placement_diff, or the items of the SMT review
  points          \* placements of one side

kernelVars == <<findings, rows, points>>

-----------------------------------------------------------------------------
(* summary.ts *)

\* A finding: its records, and the parent and material codes it speaks of as one target;
\* "" when it names none.  Those without a record are raised of a whole source, and name nothing
\* else either: no sheet is known, or a column is missing (normalization.py:147).
Findings ==
  {f \in [severity : {"blocker", "warning", "info"}, target : Materials \cup {""},
          references : SUBSET Refs, code : Messages,
          sources : {<<>>} \cup {<<s>> : s \in Sources} \cup (Sources \X Sources)] :
     f.sources = <<>> => f.severity = "blocker" /\ f.target = "" /\ f.references = {}}

fallbackFindingKey(f) == <<"target", f.target, f.references>>

keyOf(f, s) == IF s # "" THEN <<"source", s>> ELSE fallbackFindingKey(f)

\* A finding without source ids has one that is empty.
sourceIds(f) == IF f.sources = <<>> THEN <<"">> ELSE f.sources

\* Slip: the last finding decides.
lastSeverity(current, severity) == severity

raised(current, severity) ==
  CASE severity = "blocker" -> "blocker"
    [] severity = "warning" /\ current # "blocker" -> "warning"
    [] OTHER -> current

\* The group a finding enters, as it is and after it.
startedGroup(f, s) ==
  [key |-> keyOf(f, s), severity |-> f.severity, target |-> f.target,
   references |-> {}, codes |-> {}]

entered(g, f) ==
  [g EXCEPT !.severity = raised(g.severity, f.severity),
            !.target = IF g.target = "" THEN f.target ELSE g.target,
            !.references = @ \cup f.references,
            !.codes = @ \cup {f.code}]

\* The Map keeps the order in which its keys came.
intoGroup(groups, f, s) ==
  IF \E i \in DOMAIN groups : groups[i].key = keyOf(f, s)
  THEN [i \in DOMAIN groups |->
          IF groups[i].key = keyOf(f, s) THEN entered(groups[i], f) ELSE groups[i]]
  ELSE Append(groups, entered(startedGroup(f, s), f))

groupFindingsByRecord(fs) ==
  FoldLeft(LAMBDA groups, f :
             FoldLeft(LAMBDA gs, s : intoGroup(gs, f, s), groups, sourceIds(f)),
           <<>>, fs)

\* What the answer holds: the findings that only inform are not sent.
blockers(fs) == SelectSeq(fs, LAMBDA f : f.severity = "blocker")
warnings(fs) == SelectSeq(fs, LAMBDA f : f.severity = "warning")

\* _blocking_record_count: of findings that name nothing, one for each code.
blockingRecords(fs) ==
  UNION {IF f.sources # <<>> THEN {<<"source", s>> : s \in Range(f.sources)}
         ELSE {<<"finding", f.code>>} : f \in Range(fs)}
blocking_record_count(fs) == Cardinality(blockingRecords(fs))

\* What summarizeCompare counts and lists: the count of the backend, which is always sent.
findingGroups(fs) == groupFindingsByRecord(blockers(fs) \o warnings(fs))
blockingRecordCount(fs) == blocking_record_count(blockers(fs))

-----------------------------------------------------------------------------
(* businessResultGroups.ts *)

\* A row with its outcome and the designators it names; "" is dropped.
Rows == [outcome : Materials,
         references : {<<r>> : r \in Refs} \cup (Refs \X (Refs \cup {""}))]

\* Each name once; their order on the page is left out.
naturalReferenceSort(names) == Range(names) \ {""}

intoOutcome(groups, row) ==
  IF \E i \in DOMAIN groups : groups[i].groupKey = row.outcome
  THEN [i \in DOMAIN groups |->
          IF groups[i].groupKey = row.outcome
          THEN [groups[i] EXCEPT !.items = Append(@, row), !.references = @ \o row.references]
          ELSE groups[i]]
  ELSE Append(groups, [groupKey |-> row.outcome, items |-> <<row>>,
                       references |-> row.references])

groupByBusinessOutcome(rs) ==
  LET groups == FoldLeft(LAMBDA gs, row : intoOutcome(gs, row), <<>>, rs)
  IN  [i \in DOMAIN groups |->
         [groups[i] EXCEPT !.references = naturalReferenceSort(groups[i].references)]]

\* Its users: the placements of a comparison, each with one designator, by parent, status and
\* codes; the items of the SMT review, by all that is shown of them, with the designators they
\* share.
placement_diff(rs) == SelectSeq(rs, LAMBDA row : Len(row.references) = 1)

placementGroup(outcome, references) ==
  [group_id |-> outcome, status |-> outcome, references |-> references,
   reference_count |-> Cardinality(references)]

\* The backend's groups; their order is left out.
group_placement_differences(diff) ==
  {placementGroup(o, {diff[i].references[1] : i \in {j \in DOMAIN diff : diff[j].outcome = o}}) :
     o \in {diff[i].outcome : i \in DOMAIN diff}}

ownPlacementGroups(diff) ==
  {placementGroup(g.items[1].outcome, g.references) : g \in Range(groupByBusinessOutcome(diff))}

\* The page's own, when an older backend has sent none.
placementGroupsFor(diff, placement_groups) ==
  IF placement_groups # {} THEN placement_groups ELSE ownPlacementGroups(diff)

groupSmtItems(rs) ==
  groupByBusinessOutcome([i \in DOMAIN rs |->
    [rs[i] EXCEPT !.references = SelectSeq(rs[i].references, LAMBDA r : r # "")]])

-----------------------------------------------------------------------------
(* spatialIndex.ts *)

Coordinates == -Span .. Span
Points == Coordinates \X Coordinates

cellKey(p) == <<p[1] \div CellSize, p[2] \div CellSize>>

\* The constructor: a bucket for every cell with a point.
cells(ps) == [k \in {cellKey(p) : p \in ps} |-> {p \in ps : cellKey(p) = k}]

Inside(p, b) == b.minX <= p[1] /\ p[1] <= b.maxX /\ b.minY <= p[2] /\ p[2] <= b.maxY

query(ps, b) ==
  LET index == cells(ps)
      columns == (b.minX \div CellSize) .. (b.maxX \div CellSize)
      lines == (b.minY \div CellSize) .. (b.maxY \div CellSize)
  IN  UNION {{p \in index[k] : Inside(p, b)} : k \in (columns \X lines) \cap DOMAIN index}

Bounds == {b \in [minX : Coordinates, maxX : Coordinates, minY : Coordinates, maxY : Coordinates] :
             b.minX <= b.maxX /\ b.minY <= b.maxY}

-----------------------------------------------------------------------------
KernelInit == findings = <<>> /\ rows = <<>> /\ points = {}

Finding ==
  /\ rows = <<>> /\ points = {} /\ Len(findings) < MaxFindings
  /\ \E f \in Findings : findings' = Append(findings, f)
  /\ UNCHANGED <<rows, points>>

Row ==
  /\ findings = <<>> /\ points = {} /\ Len(rows) < MaxRows
  /\ \E row \in Rows : rows' = Append(rows, row)
  /\ UNCHANGED <<findings, points>>

Point ==
  /\ findings = <<>> /\ rows = <<>> /\ Cardinality(points) < MaxPoints
  /\ \E p \in Points \ points : points' = points \cup {p}
  /\ UNCHANGED <<findings, rows>>

KernelNext == Finding \/ Row \/ Point

KernelSpec == KernelInit /\ [][KernelNext]_kernelVars

-----------------------------------------------------------------------------
(* Properties *)

KernelTypeOK ==
  /\ Range(findings) \subseteq Findings
  /\ Range(rows) \subseteq Rows
  /\ points \subseteq Points

\* One group for every record; a group holds what all of its findings say and is as severe as
\* the worst of them whatever their order (summary.ts:70).  The number the header shows for
\* records that block, which the backend counts by a key of its own (diff.py:911), is the number
\* of groups marked so, but for findings that name no record: they are one group, and one
\* for each code in the header.
GroupsOfFindings ==
  LET groups == findingGroups(findings)
      shown == Range(blockers(findings) \o warnings(findings))
      Of(k) == {f \in shown : k \in {keyOf(f, s) : s \in Range(sourceIds(f))}}
      nameless == {f.code : f \in {g \in shown : g.sources = <<>>}}
  IN  /\ {g.key : g \in Range(groups)} = UNION {{keyOf(f, s) : s \in Range(sourceIds(f))} : f \in shown}
      /\ \A i, j \in DOMAIN groups : groups[i].key = groups[j].key => i = j
      /\ \A g \in Range(groups) :
           /\ g.severity = IF \E f \in Of(g.key) : f.severity = "blocker" THEN "blocker" ELSE "warning"
           /\ g.codes = {f.code : f \in Of(g.key)}
           /\ g.references = UNION {f.references : f \in Of(g.key)}
           /\ g.target = "" <=> \A f \in Of(g.key) : f.target = ""
      /\ blockingRecordCount(findings) + (IF nameless = {} THEN 0 ELSE 1)
           = Cardinality({g \in Range(groups) : g.severity = "blocker"}) + Cardinality(nameless)

\* Rows are shared out: each is in the group of its outcome and in no other, in order, and
\* no designator is lost (businessResultGroups.ts:18); the groups of placements the backend
\* sends are those the page would make (diff.py:382).
GroupsOfRows ==
  LET groups == groupByBusinessOutcome(rows)
      diff == placement_diff(rows)
  IN  /\ \A o \in {rows[i].outcome : i \in DOMAIN rows} :
           \E g \in Range(groups) :
             /\ g.groupKey = o
             /\ g.items = SelectSeq(rows, LAMBDA row : row.outcome = o)
             /\ g.references = UNION {naturalReferenceSort(rows[i].references) :
                                        i \in {j \in DOMAIN rows : rows[j].outcome = o}}
      /\ Len(groups) = Cardinality({rows[i].outcome : i \in DOMAIN rows})
      /\ groupSmtItems(rows) = [i \in DOMAIN groups |->
           [groups[i] EXCEPT !.items = [n \in DOMAIN groups[i].items |->
              [groups[i].items[n] EXCEPT !.references = SelectSeq(@, LAMBDA r : r # "")]]]]
      /\ placementGroupsFor(diff, group_placement_differences(diff)) = placementGroupsFor(diff, {})

\* The grid finds what a look at every point would find, on either side of zero and on the
\* border of a cell (spatialIndex.ts:36).
IndexFindsAll == points # {} => \A b \in Bounds : query(points, b) = {p \in points : Inside(p, b)}

\* The kernels do what they promise.
KernelsMatch == GroupsOfFindings /\ GroupsOfRows /\ IndexFindsAll
=============================================================================
