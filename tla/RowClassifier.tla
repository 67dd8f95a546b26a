---------------------------- MODULE RowClassifier ----------------------------
(***************************************************************************)
(* The row scan of app/services/planner/row_classifier.py: classify_rows   *)
(* walks a sheet from row 1 to max_row and gives every row a RowRole by a  *)
(* priority list of rules, carrying state from one row to the next: the    *)
(* first data row, the last ANCHOR and its group, the next group id and    *)
(* the quantities seen so far.  One action stands for one rule firing.     *)
(*                                                                         *)
(* Cell contents are abstracted to what the rules tell apart.  Quantities  *)
(* are integers in quarters of a unit, so that the code's tolerance of 0.5 *)
(* is the constant Tolerance == 2.                                         *)
(***************************************************************************)
EXTENDS Integers, Sequences, FiniteSetsExt

CONSTANTS
  MaxRow,     \* signals.max_row: the number of rows of the sheet
  RowKinds,   \* the kinds of row a sheet is made of
  None        \* Python's None

(***************************************************************************)
(* A row as the classifier reads it:                                       *)
(*   id    - the identity-column cell: empty, a header term, other text    *)
(*   qty   - the quantity-column cell when it holds a number, else None    *)
(*   other - some further cell of the row is not empty                     *)
(*   merge - how a merged region covers the identity column in this row:   *)
(*           "top"  the region's top-left cell is the identity cell        *)
(*           "wide" the region's top row, starting left of that column     *)
(*           "in"   a lower row of the region of the row above             *)
(* A region whose top-left cell is empty never changes a role, so only     *)
(* regions with a value are kept.                                          *)
(***************************************************************************)
RowKind == [id: {"none", "term", "text"}, qty: Int \cup {None}, other: BOOLEAN,
            merge: {"no", "top", "wide", "in"}]

ASSUME ConstantsAssumption ==
  /\ MaxRow \in Nat
  /\ RowKinds \subseteq RowKind
  /\ None \notin Int

Tolerance == 2
Rows == 1 .. MaxRow

\* openpyxl keeps a value only in the top-left cell of a merged region.
ValidSheet(s) ==
  \A i \in Rows :
    /\ s[i].merge \in {"in", "wide"} => s[i].id = "none"
    /\ s[i].merge = "top" => s[i].id # "none"
    /\ s[i].merge = "wide" => s[i].other
    /\ s[i].merge = "in" => i > 1 /\ s[i - 1].merge # "no"

\* survey_sheet offers an identity column only when a header term sits in its first rows.
HeaderScanRows == 15
HasIdentityColumn(s) == \E i \in Rows : i <= HeaderScanRows /\ s[i].id = "term"

VARIABLES
  sheet,         \* the rows being read; never changes
  rows,          \* the RowSpecs emitted so far, in row order
  firstDataRow,  \* first_data_row
  lastAnchor,    \* last_known_anchor
  lastGroup,     \* last_known_anchor_group
  nextGroup,     \* next_group_id
  recentQtys     \* recent_qtys: (group, quantity) pairs of the data rows so far

scanVars == <<sheet, rows, firstDataRow, lastAnchor, lastGroup, nextGroup, recentQtys>>

Roles == {"header", "repeat_header", "anchor", "child", "total", "grand_total", "blank"}
DataRoles == {"anchor", "child"}

RowSpec == [idx: Nat, role: Roles, anchor: Nat \cup {None}, group: Nat \cup {None}]

ScanInit ==
  /\ sheet \in {s \in [Rows -> RowKinds] : ValidSheet(s)}
  /\ rows = <<>>
  /\ firstDataRow = None
  /\ lastAnchor = None
  /\ lastGroup = None
  /\ nextGroup = 0
  /\ recentQtys = <<>>

-----------------------------------------------------------------------------
Cur == Len(rows) + 1
Row == sheet[Cur]
Scanning == Cur \in Rows /\ HasIdentityColumn(sheet)

IsBlankRow(k) == k.id = "none" /\ k.qty = None /\ ~k.other
UnderMerge(k) == k.id = "none" /\ k.merge # "no"
IsChildRow == UnderMerge(Row) /\ lastAnchor # None

Emit(role, anchor, group) ==
  rows' = Append(rows, [idx |-> Cur, role |-> role, anchor |-> anchor, group |-> group])

\* The quantity of a data row is remembered under its group.
CountNothing(group) ==         \* mutant: the append is missing
  group \in Nat /\ UNCHANGED recentQtys
CountQty(group) ==
  recentQtys' = IF Row.qty = None THEN recentQtys
                ELSE Append(recentQtys, [group |-> group, qty |-> Row.qty])

\* sum(...) over a list of numbers.
Total(q) ==
  LET upTo[n \in 0 .. Len(q)] == IF n = 0 THEN 0 ELSE upTo[n - 1] + q[n]
  IN  upTo[Len(q)]
GroupSum ==
  Total([k \in DOMAIN recentQtys |->
           IF recentQtys[k].group = lastGroup THEN recentQtys[k].qty ELSE 0])
GrandSum == Total([k \in DOMAIN recentQtys |-> recentQtys[k].qty])
Near(a, b) == a - b < Tolerance /\ b - a < Tolerance

\* The role of a row with a header term: the header band ends at the first data row.
AlwaysHeader == "header"       \* mutant: first_data_row is not consulted
BandRole == IF firstDataRow = None THEN "header" ELSE "repeat_header"

\* Any other identity value opens a new group.
OpenSameGroup ==               \* mutant: next_group_id += 1 is missing
  /\ firstDataRow' = IF firstDataRow = None THEN Cur ELSE firstDataRow
  /\ lastAnchor' = Cur /\ lastGroup' = nextGroup /\ UNCHANGED nextGroup
OpenGroupUnderFirstAnchor ==   \* mutant: last_known_anchor is set for the first data row only
  /\ firstDataRow' = IF firstDataRow = None THEN Cur ELSE firstDataRow
  /\ lastAnchor' = firstDataRow' /\ lastGroup' = nextGroup /\ nextGroup' = nextGroup + 1
OpenGroup ==
  /\ firstDataRow' = IF firstDataRow = None THEN Cur ELSE firstDataRow
  /\ lastAnchor' = Cur /\ lastGroup' = nextGroup /\ nextGroup' = nextGroup + 1

MatchesGroup == lastGroup # None /\ Near(GroupSum, Row.qty)
MatchesGrand == Near(GrandSum, Row.qty)

-----------------------------------------------------------------------------
\* Without an identity column every row of the sheet is BLANK.
NoIdentityColumn ==
  /\ ~HasIdentityColumn(sheet)
  /\ rows = <<>> /\ MaxRow > 0
  /\ rows' = [i \in Rows |-> [idx |-> i, role |-> "blank", anchor |-> None, group |-> None]]
  /\ UNCHANGED <<sheet, firstDataRow, lastAnchor, lastGroup, nextGroup, recentQtys>>

EmptyRow ==
  /\ Scanning /\ IsBlankRow(Row)
  /\ Emit("blank", None, None)
  /\ UNCHANGED <<sheet, firstDataRow, lastAnchor, lastGroup, nextGroup, recentQtys>>

\* A header term in the identity column: part of the header band until the
\* first data row has been seen, a repeated header afterwards.
HeaderTermRow ==
  /\ Scanning /\ Row.id = "term"
  /\ Emit(BandRole, None, None)
  /\ UNCHANGED <<sheet, firstDataRow, lastAnchor, lastGroup, nextGroup, recentQtys>>

IdentityRow ==
  /\ Scanning /\ Row.id = "text"
  /\ OpenGroup
  /\ CountQty(nextGroup)
  /\ Emit("anchor", None, nextGroup)
  /\ UNCHANGED sheet

\* No identity, but inside a merged region: a further row of the last group.
MergedRow ==
  /\ Scanning /\ ~IsBlankRow(Row) /\ IsChildRow
  /\ CountQty(lastGroup)
  /\ Emit("child", lastAnchor, lastGroup)
  /\ UNCHANGED <<sheet, firstDataRow, lastAnchor, lastGroup, nextGroup>>

\* A quantity without identity: a total of the last group, a grand total, or neither.
QuantityRow ==
  /\ Scanning /\ Row.id = "none" /\ ~IsChildRow /\ Row.qty # None
  /\ Emit(CASE MatchesGroup -> "total"
            [] ~MatchesGroup /\ MatchesGrand -> "grand_total"
            [] OTHER -> "blank", None, None)
  /\ UNCHANGED <<sheet, firstDataRow, lastAnchor, lastGroup, nextGroup, recentQtys>>

\* Neither identity nor quantity: no rule fires.
FillerRow ==
  /\ Scanning /\ ~IsBlankRow(Row)
  /\ Row.id = "none" /\ ~IsChildRow /\ Row.qty = None
  /\ Emit("blank", None, None)
  /\ UNCHANGED <<sheet, firstDataRow, lastAnchor, lastGroup, nextGroup, recentQtys>>

ScanNext ==
  \/ NoIdentityColumn
  \/ EmptyRow
  \/ HeaderTermRow
  \/ IdentityRow
  \/ MergedRow
  \/ QuantityRow
  \/ FillerRow

ScanSpec == ScanInit /\ [][ScanNext]_scanVars

\* Every row has its role: classify_rows returns.
Classified == Len(rows) = MaxRow

-----------------------------------------------------------------------------
ScanTypeOK ==
  /\ sheet \in [Rows -> RowKinds]
  /\ rows \in Seq(RowSpec) /\ Len(rows) <= MaxRow
  /\ firstDataRow \in Nat \cup {None}
  /\ lastAnchor \in Nat \cup {None}
  /\ lastGroup \in Nat \cup {None}
  /\ nextGroup \in Nat
  /\ recentQtys \in Seq([group: Nat, qty: Int])

IsRole(i, role) == rows[i].role = role
Anchors == {i \in DOMAIN rows : IsRole(i, "anchor")}

\* A CHILD row points back at the nearest ANCHOR above it and shares its group,
\* so apply_plan never mixes the rows of two products (classify_rows, lines 99-124).
ChildrenBelongToNearestAnchor ==
  \A i \in DOMAIN rows : IsRole(i, "child") =>
    /\ rows[i].anchor \in Anchors /\ rows[i].anchor < i
    /\ rows[i].group = rows[rows[i].anchor].group
    /\ \A j \in Anchors : j < i => j <= rows[i].anchor

\* Group ids grow with the row index: no two ANCHOR rows share a group, even
\* across header bands and totals (next_group_id, lines 102-104).
GroupsAreDistinct ==
  \A i, j \in Anchors : i < j => rows[i].group < rows[j].group

\* A HEADER row never follows data and a REPEAT_HEADER row always does: the
\* band the planner reads labels from is above every product (lines 85-97).
HeaderBandPrecedesData ==
  \A i \in DOMAIN rows :
    /\ IsRole(i, "header") => \A j \in Anchors : i < j
    /\ IsRole(i, "repeat_header") => \E j \in Anchors : j < i

\* A TOTAL row's number is the sum over the data rows of the group just above
\* it, a GRAND_TOTAL row's the sum over all data rows above it, up to the
\* tolerance: recent_qtys counts each data row once (lines 126-145).
DataQty(i) == IF sheet[i].qty = None THEN 0 ELSE sheet[i].qty
DataRowsBefore(i) == {j \in 1 .. i - 1 : rows[j].role \in DataRoles}
NearestGroup(i) ==
  {j \in DataRowsBefore(i) : \A k \in DataRowsBefore(i) : rows[k].group <= rows[j].group}

SumAbove(i, S) == Total([j \in 1 .. i - 1 |-> IF j \in S THEN DataQty(j) ELSE 0])

TotalsAddUp ==
  \A i \in DOMAIN rows :
    /\ IsRole(i, "total") => Near(SumAbove(i, NearestGroup(i)), sheet[i].qty)
    /\ IsRole(i, "grand_total") => Near(SumAbove(i, DataRowsBefore(i)), sheet[i].qty)
=============================================================================
