------------------------------ MODULE SheetPlan ------------------------------
(***************************************************************************)
(* The life of one sheet's plan, from the row scan to the products emitted *)
(* from it:                                                                *)
(*   SheetRowPlanner.run    assembles the plan for the sheet's mode: with  *)
(*                          the title-row correction (ROW_PER_PLI), with   *)
(*                          the blocks segment_blocks cuts out of the      *)
(*                          sheet (SECTION_PER_PLI), or with key/value     *)
(*                          anchors only (SHEET_IS_PLI)                    *)
(*   PlanReviewer verdicts  overwrite single rows of the plan              *)
(*                          (_apply_plan_review_if_needed)                 *)
(*   apply_plan             groups the data rows in a dictionary and emits *)
(*                          a PLI for each of them, group by group, or for *)
(*                          each block, or for the sheet                   *)
(* The cells that decide the mode, and whether the labels cover less than  *)
(* half of the populated columns, are not modelled: where such cells can   *)
(* exist the mode may be chosen, and the title row detected, or not. A     *)
(* key/value anchor is represented by the row of its label. Stage bands    *)
(* are attached to blocks in the same way and are left out.                *)
(***************************************************************************)
EXTENDS RowClassifier

INSTANCE PlanInvariants

CONSTANTS
  Modes,             \* the modes considered, among those the planner chooses from
  MaxCorrections,    \* bound on the row corrections of one verdict
  CorrectionRoles,   \* the roles a correction may suggest
  CorrectionAnchors  \* the anchor_idx values a correction may suggest

VARIABLES
  mode,         \* plan.pli_mode; never changes
  phase,        \* where the sheet is in _plan_for_sheet / apply_plan
  kvRows,       \* the rows with the label of a key/value anchor
  blocks,       \* plan.pli_blocks: bbox and identity
  planRows,     \* plan.rows
  headerRows,   \* plan.header_rows (kept sorted by the code)
  labelRow,     \* the extra header row labels are read from, if detected
  corrections,  \* row corrections applied so far
  grouped,      \* the plan rows the loop that fills rows_by_group has seen
  groups,       \* rows_by_group: its keys and lists of rows, in insertion order
  cursor,       \* the position in groups of the next row to emit
  plis          \* the source rows and labels of the PLIs, in emission order

applyVars == <<grouped, groups, cursor, plis>>
planVars == <<mode, phase, kvRows, blocks, planRows, headerRows, labelRow, corrections, applyVars>>
vars == <<scanVars, planVars>>

\* The reviewer may name any RowRole, also those the scan never gives.
AllRoles == Roles \cup {"title", "separator"}

\* The rows and labels a product is read from: of a block, and of its PLI.
Block == [first: Nat, last: Nat, labels: SUBSET Rows]

\* An entry of rows_by_group.
Entry == [key: Nat, rows: Seq(Nat)]

ASSUME PlanAssumption ==
  /\ Modes \subseteq PliModes
  /\ MaxCorrections \in Nat
  /\ CorrectionAnchors \subseteq Nat \cup {None}

-----------------------------------------------------------------------------
\* The first rows of the runs of empty rows (_collect_blank_run_gaps).
Blank(i) == IsBlankRow(sheet[i])
GapStarts == {i \in Rows : Blank(i) /\ (i > 1 => ~Blank(i - 1))}

\* Labels are texts in the first rows of the sheet (_collect_header_signals).
LabelRows ==
  {i \in Rows : i <= HeaderScanRows /\ (sheet[i].id # "none" \/ sheet[i].other)}

\* _decide_pli_mode.  A section sheet has an identity column, two gaps and labels
\* in two rows; a sheet that is one product has two labels.
HasTwo(S) == \E i, j \in S : i # j
CanBe(m) ==
  CASE m = "SECTION_PER_PLI" ->
         HasIdentityColumn(sheet) /\ HasTwo(GapStarts) /\ HasTwo(LabelRows)
    [] m = "SHEET_IS_PLI" -> HasTwo(LabelRows) \/ \E i \in LabelRows : sheet[i].other
    [] m = "ROW_PER_PLI" -> TRUE

Init ==
  /\ ScanInit
  /\ mode \in {m \in Modes : CanBe(m)}
  /\ phase = "scan"
  /\ kvRows = {} /\ blocks = <<>>
  /\ planRows = <<>> /\ headerRows = {} /\ labelRow = None
  /\ corrections = 0
  /\ grouped = 0 /\ groups = <<>> /\ cursor = [group |-> 1, row |-> 1]
  /\ plis = <<>>

\* The rows of a sheet that is one product are not classified.
Scan == phase = "scan" /\ mode # "SHEET_IS_PLI" /\ ScanNext /\ UNCHANGED planVars
RowsReady == IF mode = "SHEET_IS_PLI" THEN rows = <<>> ELSE Classified

-----------------------------------------------------------------------------
RowsWith(rs, roles) == {i \in DOMAIN rs : rs[i].role \in roles}

\* _detect_title_row_extra_header needs header rows, and data rows whose cells
\* outnumber twice the header's own cell: cells beyond identity and quantity.
TitleRowPossible ==
  /\ RowsWith(rows, {"header"}) # {}
  /\ \E i \in RowsWith(rows, DataRoles) : sheet[i].other
ExtraHeaderRow == Max(RowsWith(rows, {"header"})) + 1

\* _apply_extra_header_row: the extra row and its children become HEADER.
OnlyTheRowBecomesHeader(spec, extra) ==      \* mutant: its children are forgotten
  spec.idx = extra /\ spec.role \in DataRoles \cup {"blank"}
AnchorStaysData(spec, extra) ==              \* mutant: ANCHOR is missing from the roles
  \/ spec.idx = extra /\ spec.role \in {"child", "blank"}
  \/ spec.role = "child" /\ spec.anchor = extra
BecomesHeader(spec, extra) ==
  \/ spec.idx = extra /\ spec.role \in DataRoles \cup {"blank"}
  \/ spec.role = "child" /\ spec.anchor = extra
WithExtraHeader(rs, extra) ==
  [i \in DOMAIN rs |->
     IF BecomesHeader(rs[i], extra)
     THEN [rs[i] EXCEPT !.role = "header", !.anchor = None, !.group = None]
     ELSE rs[i]]

\* What is left of SheetRowPlanner.run once the detectors are through.
KeepHeaders ==
  /\ planRows' = rows
  /\ labelRow' = None
AddExtraHeader ==
  /\ mode = "ROW_PER_PLI" /\ TitleRowPossible
  /\ planRows' = WithExtraHeader(rows, ExtraHeaderRow)
  /\ labelRow' = ExtraHeaderRow
FinishPlan ==
  /\ KeepHeaders \/ AddExtraHeader
  /\ headerRows' = RowsWith(planRows', {"header"})
  /\ phase' = "planned"
  /\ UNCHANGED <<scanVars, mode, corrections, applyVars>>

AssemblePlan ==
  /\ phase = "scan" /\ mode = "ROW_PER_PLI" /\ RowsReady
  /\ FinishPlan
  /\ UNCHANGED <<kvRows, blocks>>

\* detect_kv_anchors finds a value cell beside or below some of the labels.
DetectKvAnchors ==
  /\ phase = "scan" /\ mode # "ROW_PER_PLI" /\ RowsReady
  /\ kvRows' \in SUBSET LabelRows
  /\ phase' = "segment"
  /\ UNCHANGED <<scanVars, mode, blocks, planRows, headerRows, labelRow, corrections, applyVars>>

\* The loop over the ANCHOR rows in sheet order.
Remaining == {a \in Anchors : \A k \in DOMAIN blocks : blocks[k].first < a}
Start == Min(Remaining)
Later == Remaining \ {Start}

\* The row before the next ANCHOR, if there is one.
NextAnchorItself == IF Later = {} THEN None ELSE Min(Later)   \* mutant: no "- 1"
Bound == IF Later = {} THEN None ELSE Min(Later) - 1

\* The gaps that clip the block; the first of them ends it. A last block that
\* no gap clips is its ANCHOR row alone.
ClippingGaps == {g \in GapStarts : g >= Start /\ (Bound # None => g <= Bound)}
LastGapBefore(gaps) == Max(gaps) - 1     \* mutant: no break at the first gap
EndBefore(gaps) == Min(gaps) - 1
End ==
  IF ClippingGaps # {} THEN EndBefore(ClippingGaps)
  ELSE IF Bound # None THEN Bound ELSE Start

LabelsFrom(first, last) == {r \in kvRows : first <= r}      \* mutant: no upper bound
LabelsWithin(first, last) == {r \in kvRows : first <= r /\ r <= last}

AddBlock ==
  /\ phase = "segment" /\ Remaining # {}
  /\ blocks' = Append(blocks, [first |-> Start, last |-> End, labels |-> LabelsWithin(Start, End)])
  /\ UNCHANGED <<scanVars, mode, phase, kvRows, planRows, headerRows, labelRow, corrections, applyVars>>

BlocksDone ==
  /\ phase = "segment" /\ Remaining = {}
  /\ FinishPlan
  /\ UNCHANGED <<kvRows, blocks>>

-----------------------------------------------------------------------------
\* One entry of verdict.row_corrections that names a row of the plan: the role
\* and anchor_idx it suggests, if any, replace the row's; group_id is kept, and
\* so are header rows and blocks.  A text that is no RowRole leaves the row's own;
\* a role that is not even a text is stored, and what it breaks is the name prompt
\* (Extraction!NamerPromptRaises), so that such a plan does not get further.
CoercedRole(i, role) == IF role \in AllRoles THEN role ELSE planRows[i].role
CorrectRow(i, role, anchor) ==
  /\ phase = "planned"
  /\ corrections < MaxCorrections
  /\ planRows' = [planRows EXCEPT ![i].role = CoercedRole(i, role), ![i].anchor = anchor]
  /\ corrections' = corrections + 1
  /\ UNCHANGED <<scanVars, mode, phase, kvRows, blocks, headerRows, labelRow, applyVars>>

Correct ==
  \E i \in DOMAIN planRows :
    \E role \in CorrectionRoles \cup {planRows[i].role},
       anchor \in CorrectionAnchors \cup {planRows[i].anchor} : CorrectRow(i, role, anchor)

-----------------------------------------------------------------------------
planOnly == <<scanVars, mode, kvRows, blocks, planRows, headerRows, labelRow, corrections>>

StartApply == phase = "planned" /\ phase' = "apply" /\ UNCHANGED <<planOnly, applyVars>>

\* rows_by_group: rows without a group are keyed by their own index, in the
\* dictionary that holds the groups.
Data == RowsWith(planRows, DataRoles)
GroupKey(i) == IF planRows[i].group # None THEN planRows[i].group ELSE planRows[i].idx
KnownKey(key) == \E k \in DOMAIN groups : groups[k].key = key

\* setdefault(key, []).append(r)
Opened(i) == Append(groups, [key |-> GroupKey(i), rows |-> <<i>>])
Joined(i) ==
  [k \in DOMAIN groups |->
     IF groups[k].key = GroupKey(i) THEN [groups[k] EXCEPT !.rows = Append(@, i)] ELSE groups[k]]
AnchorOpensGroup(i) ==       \* mutant: an ANCHOR row starts the list of its key anew
  IF ~KnownKey(GroupKey(i)) THEN Opened(i)
  ELSE IF planRows[i].role # "anchor" THEN Joined(i)
  ELSE [k \in DOMAIN groups |->
          IF groups[k].key = GroupKey(i) THEN [groups[k] EXCEPT !.rows = <<i>>] ELSE groups[k]]
GroupedWith(i) == IF KnownKey(GroupKey(i)) THEN Joined(i) ELSE Opened(i)

\* _apply_row_per_pli, its first loop: one row of the plan.
GroupRow ==
  /\ phase = "apply" /\ mode = "ROW_PER_PLI" /\ grouped < Len(planRows)
  /\ groups' = IF grouped + 1 \in Data THEN GroupedWith(grouped + 1) ELSE groups
  /\ grouped' = grouped + 1
  /\ UNCHANGED <<planOnly, phase, cursor, plis>>

\* Its second loop: one row of one entry.  The planner never sets sub_row_role, so
\* every row of an entry emits a PLI of its own.
RowsLeft == cursor.group \in DOMAIN groups
RowAtCursor == groups[cursor.group].rows[cursor.row]
NextCursor ==
  IF cursor.row < Len(groups[cursor.group].rows)
  THEN [cursor EXCEPT !.row = @ + 1]
  ELSE [group |-> cursor.group + 1, row |-> 1]
RowPli(i) == [first |-> planRows[i].idx, last |-> planRows[i].idx, labels |-> {}]
EmitRow ==
  /\ phase = "apply" /\ mode = "ROW_PER_PLI" /\ grouped = Len(planRows) /\ RowsLeft
  /\ plis' = Append(plis, RowPli(RowAtCursor))
  /\ cursor' = NextCursor
  /\ UNCHANGED <<planOnly, phase, grouped, groups>>

\* _apply_section_per_pli: one PLI for each block, in order, also for a block
\* without labels, whose PLI is empty.
EmitLabelledBlock ==                     \* mutant: a block without identity has no PLI
  /\ phase = "apply" /\ mode = "SECTION_PER_PLI" /\ Len(plis) < Len(blocks)
  /\ blocks[Len(plis) + 1].labels # {}
  /\ plis' = Append(plis, blocks[Len(plis) + 1])
  /\ UNCHANGED <<planOnly, phase, grouped, groups, cursor>>
EmitBlock ==
  /\ phase = "apply" /\ mode = "SECTION_PER_PLI" /\ Len(plis) < Len(blocks)
  /\ plis' = Append(plis, blocks[Len(plis) + 1])
  /\ UNCHANGED <<planOnly, phase, grouped, groups, cursor>>

\* _apply_sheet_is_pli: one PLI with all labels and without source rows.
EmitSheet ==
  /\ phase = "apply" /\ mode = "SHEET_IS_PLI" /\ plis = <<>>
  /\ plis' = <<[first |-> 1, last |-> 0, labels |-> kvRows]>>
  /\ UNCHANGED <<planOnly, phase, grouped, groups, cursor>>

AllEmitted ==
  /\ phase = "apply"
  /\ CASE mode = "ROW_PER_PLI" -> grouped = Len(planRows) /\ ~RowsLeft
       [] mode = "SECTION_PER_PLI" -> Len(plis) = Len(blocks)
       [] mode = "SHEET_IS_PLI" -> Len(plis) = 1
  /\ phase' = "applied"
  /\ UNCHANGED <<planOnly, applyVars>>

Next ==
  \/ Scan \/ AssemblePlan
  \/ DetectKvAnchors \/ AddBlock \/ BlocksDone
  \/ Correct
  \/ StartApply \/ GroupRow \/ EmitRow \/ EmitBlock \/ EmitSheet \/ AllEmitted

Spec == Init /\ [][Next]_vars /\ WF_vars(Next)

-----------------------------------------------------------------------------
(***************************************************************************)
(* Properties                                                              *)
(***************************************************************************)
PlanRowSpec == [idx: Nat, role: AllRoles, anchor: Nat \cup {None}, group: Nat \cup {None}]

\* Types of all variables.
TypeOK ==
  /\ ScanTypeOK
  /\ mode \in PliModes
  /\ phase \in {"scan", "segment", "planned", "apply", "applied"}
  /\ kvRows \subseteq Rows
  /\ blocks \in Seq(Block) /\ plis \in Seq(Block)
  /\ planRows \in Seq(PlanRowSpec)
  /\ headerRows \subseteq Nat
  /\ labelRow \in Nat \cup {None}
  /\ corrections \in 0 .. MaxCorrections
  /\ grouped \in 0 .. Len(planRows)
  /\ groups \in Seq(Entry) /\ cursor \in [group: Nat, row: Nat]

\* Until a correction changes it, the plan has no finding of severity ERROR in any
\* mode, with the title-row correction and without, so that plan_invariants.py never
\* sends the planner's own plan to the hinter. It may get one warning: header rows
\* that are not contiguous; the rows left out are then no products, and no product
\* is above the band. Whether a row sheet has labels beside the stage columns is not
\* modelled.
PlanWith(labels) ==
  [rows |-> planRows, blocks |-> blocks, mode |-> mode,
   labels |-> labels /\ mode = "ROW_PER_PLI",
   kvs |-> kvRows # {} /\ mode = "SHEET_IS_PLI"]
GapInBand ==
  \E i \in DOMAIN planRows \ Data :
    planRows[i].role # "header" /\ \E h, k \in headerRows : h < i /\ i < k
PlanPasses ==
  corrections = 0 /\ phase \in {"planned", "apply", "applied"} =>
    /\ \A labels \in BOOLEAN : IsSound(PlanWith(labels))
    /\ NoDataAbove(headerRows, planRows)
    /\ ~HeadersContiguous(headerRows) => GapInBand

\* Whatever the reviewer changed, each data row of the plan becomes exactly one
\* PLI and nothing else does, also when a row without a group is keyed by an
\* index that is another row's group id, so that both fill one entry of
\* rows_by_group, and when the first row of a group is no ANCHOR any more.
Emitted == {plis[k].first : k \in DOMAIN plis}
EachDataRowOnePli ==
  phase = "applied" /\ mode = "ROW_PER_PLI" =>
    /\ \A i, j \in DOMAIN plis : plis[i].first = plis[j].first => i = j
    /\ Emitted = {planRows[i].idx : i \in Data}

\* Without corrections the PLIs come out in sheet order, all of them from below
\* the header band: the row the labels are read from is never a product.
PlisFollowHeaders ==
  corrections = 0 /\ mode = "ROW_PER_PLI" =>
    /\ \A i, j \in DOMAIN plis : i < j => plis[i].first < plis[j].first
    /\ \A k \in DOMAIN plis : \A h \in headerRows \cup ({labelRow} \ {None}) : h < plis[k].first

\* A block is what its ANCHOR row heads: no other ANCHOR and no empty row lies
\* in it, and it goes on to the next of these. The exception is the last block
\* of a sheet without a gap below it, which is one row.
EndsSection(i) == i > MaxRow \/ i \in Anchors \/ Blank(i)
IsSection(first, last) ==
  /\ first \in Anchors /\ first <= last /\ last <= MaxRow
  /\ \A i \in first + 1 .. last : ~EndsSection(i)
  /\ \/ EndsSection(last + 1)
     \/ last = first /\ \A i \in Rows : i > first => ~EndsSection(i)
BlocksAreSections ==
  \A k \in DOMAIN blocks : IsSection(blocks[k].first, blocks[k].last)

\* A PLI is read only from labels under its own ANCHOR row, with no other
\* product's ANCHOR between them, so that no value reaches two products.
LabelsBelongToNearestAnchor ==
  \A k \in DOMAIN plis : \A r \in plis[k].labels :
    /\ r \in kvRows /\ plis[k].first <= r
    /\ \A a \in Anchors : a <= r => a <= plis[k].first

\* A section sheet ends with one PLI for each of its ANCHOR rows, in sheet order,
\* whatever its blocks hold and whatever the reviewer made of the rows; a sheet
\* that is one product with that one.
OnePliPerProduct ==
  /\ mode = "SECTION_PER_PLI" =>
       /\ Emitted = Anchors
       /\ \A i, j \in DOMAIN plis : i < j => plis[i].first < plis[j].first
  /\ mode = "SHEET_IS_PLI" => Len(plis) = 1
EveryAnchorEmitted == <>[](phase = "applied" /\ OnePliPerProduct)
=============================================================================
