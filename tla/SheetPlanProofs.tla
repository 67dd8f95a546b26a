---------------------------- MODULE SheetPlanProofs ----------------------------
(***************************************************************************)
(* Proofs about one sheet's plan, for every sheet, every verdict and every *)
(* mode: what the planner hands over has no tier-1 error, every data       *)
(* row of the plan becomes one product, in sheet order below the header    *)
(* band when nothing was corrected, and the blocks of a section sheet are  *)
(* the sections of its ANCHOR rows, read apart from each other.            *)
(***************************************************************************)
EXTENDS SheetPlan, RowClassifierProofs

\* An ANCHOR row has an identity text, so it is never an empty row.
AnchorsHaveText == \A i \in Anchors : i \in Rows /\ sheet[i].id = "text"

\* What a phase has not reached yet is empty, and each mode keeps to its own part.
NothingYet ==
  /\ phase \in {"scan", "segment"} =>
       planRows = <<>> /\ headerRows = {} /\ labelRow = None /\ corrections = 0
  /\ phase \in {"scan", "segment", "planned"} =>
       plis = <<>> /\ grouped = 0 /\ groups = <<>> /\ cursor = [group |-> 1, row |-> 1]
  /\ phase = "scan" => blocks = <<>>
  /\ phase \notin {"scan", "segment"} /\ mode = "SECTION_PER_PLI" => Remaining = {}
ModesApart ==
  /\ mode = "ROW_PER_PLI" => phase # "segment" /\ blocks = <<>>
  /\ mode = "SHEET_IS_PLI" => rows = <<>> /\ blocks = <<>>

\* The rows of the plan, as the planner numbers them and until a correction.
RowsNumbered ==
  /\ DOMAIN planRows \subseteq Rows /\ headerRows \subseteq Rows
  /\ \A i \in DOMAIN planRows : planRows[i].idx = i
ReferencesSound ==
  corrections = 0 =>
    \A i \in DOMAIN planRows :
      /\ planRows[i].role = "child" => planRows[i].anchor \in RowsWith(planRows, {"anchor"})
      /\ planRows[i].role = "anchor" => planRows[i].anchor = None
NoDataAboveHeaders ==
  corrections = 0 => \A i \in Data, h \in headerRows \cup ({labelRow} \ {None}) : h < i
GroupsGrow ==
  corrections = 0 =>
    \A i \in Data : /\ planRows[i].group \in Nat
                     /\ \A j \in Data : i < j => planRows[i].group <= planRows[j].group
HeadersMarked == corrections = 0 => headerRows = RowsWith(planRows, {"header"})
RowsInv == RowsNumbered /\ HeadersMarked /\ ReferencesSound /\ NoDataAboveHeaders /\ GroupsGrow

\* The blocks in the order they were cut, each above the next.
BlocksHoldTheirLabels ==
  \A k \in DOMAIN blocks :
    blocks[k].labels = LabelsWithin(blocks[k].first, blocks[k].last)
BlocksDisjoint ==
  \A i, j \in DOMAIN blocks : i < j => blocks[i].last < blocks[j].first
NoAnchorSkipped == \A a \in Anchors : a \in Remaining \/ \E k \in DOMAIN blocks : blocks[k].first = a
BlocksInv == BlocksHoldTheirLabels /\ BlocksAreSections /\ BlocksDisjoint /\ NoAnchorSkipped

\* What rows_by_group holds: each data row the first loop has seen in one place, and
\* each key in one entry.  Places are ordered as the second loop visits them.
GroupsHoldData ==
  /\ \A a, c \in DOMAIN groups : groups[a].key = groups[c].key => a = c
  /\ \A a \in DOMAIN groups : 1 \in DOMAIN groups[a].rows
  /\ \A a \in DOMAIN groups : \A b \in DOMAIN groups[a].rows :
       groups[a].rows[b] \in Data /\ groups[a].rows[b] <= grouped
  /\ \A i \in Data : i <= grouped =>
       \E a \in DOMAIN groups : \E b \in DOMAIN groups[a].rows : groups[a].rows[b] = i
  /\ \A a, c \in DOMAIN groups :
       \A b \in DOMAIN groups[a].rows, d \in DOMAIN groups[c].rows :
         groups[a].rows[b] = groups[c].rows[d] => a = c /\ b = d
Earlier(a, b, c, d) == a < c \/ (a = c /\ b < d)
GroupsInOrder ==
  corrections = 0 =>
    /\ \A a \in DOMAIN groups : \A b \in DOMAIN groups[a].rows :
         planRows[groups[a].rows[b]].group = groups[a].key
    /\ \A a, c \in DOMAIN groups : a < c => groups[a].key < groups[c].key
    /\ \A a, c \in DOMAIN groups :
         \A b \in DOMAIN groups[a].rows, d \in DOMAIN groups[c].rows :
           Earlier(a, b, c, d) => groups[a].rows[b] < groups[c].rows[d]
GroupsInv == GroupsHoldData /\ GroupsInOrder

\* What has been emitted: the rows at the places before the cursor, once each and in
\* order, or the first blocks, or the sheet.
CursorInPlace ==
  /\ cursor.group \in 1 .. Len(groups) + 1
  /\ RowsLeft => cursor.row \in DOMAIN groups[cursor.group].rows
  /\ ~RowsLeft => cursor.row = 1
  /\ mode = "ROW_PER_PLI" /\ grouped < Len(planRows) =>
       plis = <<>> /\ cursor = [group |-> 1, row |-> 1]
BeforeCursor(a, b) == Earlier(a, b, cursor.group, cursor.row)
RowsEmitted ==
  mode = "ROW_PER_PLI" =>
    /\ \A k \in DOMAIN plis :
         /\ plis[k].labels = {}
         /\ \E a \in DOMAIN groups : \E b \in DOMAIN groups[a].rows :
              BeforeCursor(a, b) /\ plis[k].first = groups[a].rows[b]
    /\ \A a \in DOMAIN groups : \A b \in DOMAIN groups[a].rows :
         BeforeCursor(a, b) => groups[a].rows[b] \in Emitted
    /\ \A k, l \in DOMAIN plis : plis[k].first = plis[l].first => k = l
    /\ phase = "applied" => grouped = Len(planRows) /\ ~RowsLeft
RowsInOrder ==
  mode = "ROW_PER_PLI" /\ corrections = 0 =>
    \A k, l \in DOMAIN plis : k < l => plis[k].first < plis[l].first
BlocksEmitted ==
  mode = "SECTION_PER_PLI" =>
    /\ Len(plis) <= Len(blocks)
    /\ \A k \in DOMAIN plis : plis[k] = blocks[k]
    /\ phase = "applied" => Len(plis) = Len(blocks)
SheetEmitted ==
  mode = "SHEET_IS_PLI" =>
    /\ \A k \in DOMAIN plis : plis[k].first = 1 /\ plis[k].labels = kvRows
    /\ Len(plis) <= 1 /\ (phase = "applied" => Len(plis) = 1)
EmittedInv == CursorInPlace /\ RowsEmitted /\ RowsInOrder /\ BlocksEmitted /\ SheetEmitted

SheetInv ==
  /\ TypeOK
  /\ ScanInv
  /\ AnchorsHaveText
  /\ NothingYet
  /\ ModesApart
  /\ RowsInv
  /\ BlocksInv
  /\ GroupsInv
  /\ EmittedInv

-----------------------------------------------------------------------------
\* A non-empty set of rows has a last one.
LEMMA LastRow ==
  ASSUME NEW H, H \subseteq Rows, H # {}
  PROVE  Max(H) \in H /\ \A h \in H : h <= Max(H)
<1> DEFINE T == {MaxRow - h : h \in H}
<1>1. MaxRow \in Nat
  BY ConstantsAssumption
<1>2. T \subseteq Nat /\ T # {}
  <2>1. \A h \in H : MaxRow - h \in Nat
    BY <1>1 DEF Rows
  <2>2. QED
    BY <2>1
<1>3. PICK t \in T : \A u \in T : t <= u
  <2> HIDE DEF T
  <2>1. QED
    BY <1>2, LowestOfNat
<1>4. PICK m \in H : t = MaxRow - m
  OBVIOUS
<1>5. \A h \in H : m >= h
  <2>1. TAKE h \in H
  <2>2. MaxRow - h \in T /\ m \in Int /\ h \in Int
    BY <1>1 DEF Rows
  <2>3. MaxRow - m <= MaxRow - h
    BY <1>3, <1>4, <2>2
  <2>4. QED
    BY <1>1, <2>2, <2>3
<1>6. \E x \in H : \A y \in H : x >= y
  BY <1>5
<1>7. Max(H) \in H /\ \A y \in H : Max(H) >= y
  BY <1>6 DEF Max
<1>8. \A h \in H : h \in Int
  BY DEF Rows
<1>9. \A h \in H : h <= Max(H)
  <2>1. TAKE h \in H
  <2>2. h \in Int /\ Max(H) \in Int /\ Max(H) >= h
    BY <1>7, <1>8
  <2>3. QED
    BY <2>2
<1>10. QED
  BY <1>7, <1>9

\* A non-empty set of natural numbers has a least one.
LEMMA LeastOfNat ==
  ASSUME NEW S, S \subseteq Nat, S # {}
  PROVE  Min(S) \in S /\ \A x \in S : Min(S) <= x
<1>1. PICK x \in S : \A y \in S : x <= y
  BY LowestOfNat
<1>2. QED
  BY <1>1 DEF Min

\* Above an empty row, below a row that is not, a gap starts.
LEMMA GapAboveBlank ==
  ASSUME NEW a \in Rows, ~Blank(a), NEW i \in Rows, a < i, Blank(i)
  PROVE  \E g \in GapStarts : a < g /\ g <= i
<1> DEFINE Run == {x \in a + 1 .. i : \A y \in x .. i : Blank(y)}
<1>1. MaxRow \in Nat
  BY ConstantsAssumption
<1>2. Run \subseteq Nat /\ i \in Run
  <2>1. i .. i = {i}
    BY DEF Rows
  <2>2. QED
    BY <2>1 DEF Rows
<1>3. Min(Run) \in Run /\ \A x \in Run : Min(Run) <= x
  <2> HIDE DEF Run
  <2>1. QED
    BY <1>2, LeastOfNat
<1>4. PICK g \in Run : \A x \in Run : g <= x
  BY <1>3
<1>5. g \in Nat /\ a + 1 <= g /\ g <= i /\ \A y \in g .. i : Blank(y)
  BY DEF Rows
<1>6. ~Blank(g - 1)
  <2>1. CASE g - 1 = a
    BY <2>1
  <2>2. CASE g - 1 # a
    <3>1. g - 1 \in a + 1 .. i
      BY <1>5, <2>2 DEF Rows
    <3>2. g - 1 \notin Run
      BY <1>4, <1>5
    <3>3. PICK y \in g - 1 .. i : ~Blank(y)
      BY <3>1, <3>2
    <3>4. y = g - 1
      BY <1>5, <3>3 DEF Rows
    <3>5. QED
      BY <3>3, <3>4
  <2>3. QED
    BY <2>1, <2>2
<1>7. g \in Rows /\ Blank(g)
  BY <1>1, <1>5 DEF Rows
<1>8. QED
  BY <1>5, <1>6, <1>7 DEF GapStarts, Rows

-----------------------------------------------------------------------------
\* The ANCHOR row a block is cut for, and the first of those below it.
LEMMA StartTyped ==
  ASSUME SheetInv, Remaining # {}
  PROVE  /\ Start \in Anchors /\ Start \in Rows /\ Start \in Remaining
         /\ \A a \in Remaining : Start <= a
         /\ Later # {} => Min(Later) \in Later /\ \A a \in Later : Min(Later) <= a
         /\ \A a \in Anchors : a > Start => a \in Later
<1>1. Rows \subseteq Nat /\ Remaining \subseteq Rows /\ Remaining \subseteq Anchors
  BY DEF Rows, Remaining, SheetInv, AnchorsHaveText
<1>2. Start \in Remaining /\ \A a \in Remaining : Start <= a
  BY <1>1, LeastOfNat DEF Start
<1>3. Later \subseteq Nat
  BY <1>1 DEF Later
<1>4. Later # {} => Min(Later) \in Later /\ \A a \in Later : Min(Later) <= a
  BY <1>3, LeastOfNat
<1>5. ASSUME NEW a \in Anchors, a > Start
      PROVE  a \in Later
  <2>1. a \in Nat /\ Start \in Nat
    BY <1>1, <1>2 DEF SheetInv, AnchorsHaveText
  <2>2. \A k \in DOMAIN blocks : blocks[k].first \in Nat /\ blocks[k].first < Start
    <3>1. blocks \in Seq(Block)
      BY DEF SheetInv, TypeOK
    <3>2. \A k \in DOMAIN blocks : blocks[k] \in Block
      BY <3>1
    <3>3. QED
      BY <1>2, <3>2 DEF Remaining, Block
  <2>3. QED
    BY <1>5, <2>1, <2>2 DEF Remaining, Later
<1>6. QED
  BY <1>1, <1>2, <1>4, <1>5

\* The block cut for Start is the section of that ANCHOR row.
LEMMA BlockIsSection ==
  ASSUME SheetInv, Remaining # {}
  PROVE  End \in Nat /\ IsSection(Start, End)
<1> USE DEF IsSection
<1>1. /\ MaxRow \in Nat /\ None \notin Int
      /\ Rows = 1 .. MaxRow
  BY ConstantsAssumption DEF Rows
<1>2. /\ Start \in Anchors /\ Start \in Rows
      /\ Later # {} => Min(Later) \in Later /\ \A a \in Later : Min(Later) <= a
      /\ \A a \in Anchors : a > Start => a \in Later
  BY StartTyped
<1>3. ~Blank(Start)
  BY <1>2 DEF SheetInv, AnchorsHaveText, Blank, IsBlankRow
<1>4. ASSUME NEW a \in Later
      PROVE  a \in Anchors /\ a \in Rows /\ a > Start
  BY <1>2, StartTyped DEF Later, Remaining, SheetInv, AnchorsHaveText, Rows
<1>5. Later # {} => Bound = Min(Later) - 1 /\ Bound \in Nat /\ Bound # None /\ Start <= Bound
  BY <1>1, <1>2, <1>4 DEF Bound
<1>6. Later = {} => Bound = None
  BY DEF Bound
<1>7. ASSUME NEW i \in Rows, i > Start, Blank(i)
      PROVE  \E g \in GapStarts : Start < g /\ g <= i
  BY <1>2, <1>3, <1>7, GapAboveBlank DEF Rows
<1>8. CASE ClippingGaps # {}
  <2>1. ClippingGaps \subseteq Nat
    BY DEF ClippingGaps, GapStarts, Rows
  <2>2. Min(ClippingGaps) \in ClippingGaps /\ \A g \in ClippingGaps : Min(ClippingGaps) <= g
    BY <1>8, <2>1, LeastOfNat
  <2>3. PICK g \in ClippingGaps : g = Min(ClippingGaps) /\ \A h \in ClippingGaps : g <= h
    BY <2>2
  <2>4. End = g - 1
    BY <1>8, <2>3 DEF End, EndBefore
  <2>5. g \in Rows /\ Blank(g) /\ g >= Start /\ (Bound # None => g <= Bound)
    BY DEF ClippingGaps, GapStarts
  <2>6. g > Start
    BY <1>2, <1>3, <2>5, <1>1
  <2>7. EndsSection(End + 1)
    BY <2>4, <2>5, <1>1 DEF EndsSection
  <2>8. ASSUME NEW i \in Start + 1 .. End
        PROVE  ~EndsSection(i)
    <3>1. i \in Rows /\ i > Start /\ i < g
      BY <1>1, <1>2, <2>4, <2>5
    <3>2. i \notin Anchors
      <4> SUFFICES ASSUME i \in Anchors PROVE FALSE
        OBVIOUS
      <4>1. i \in Later /\ Min(Later) <= i
        BY <1>2, <3>1
      <4>2. g <= Min(Later) - 1 /\ Min(Later) \in Int
        <5>1. Later # {} /\ Min(Later) \in Later
          BY <1>2, <4>1
        <5>2. Min(Later) \in Rows
          BY <1>4, <5>1
        <5>3. QED
          BY <1>5, <2>5, <5>1, <5>2 DEF Rows
      <4>3. QED
        BY <1>1, <2>5, <3>1, <4>1, <4>2
    <3>3. ~Blank(i)
      <4> SUFFICES ASSUME Blank(i) PROVE FALSE
        OBVIOUS
      <4>1. PICK h \in GapStarts : Start < h /\ h <= i
        BY <1>7, <3>1
      <4>2. h \in Rows
        BY DEF GapStarts
      <4>3. Bound # None => Bound \in Int
        BY <1>5, <1>6
      <4>4. h \in ClippingGaps
        BY <1>1, <1>2, <2>5, <3>1, <4>1, <4>2, <4>3 DEF ClippingGaps
      <4>5. QED
        BY <1>1, <2>3, <2>5, <3>1, <4>1, <4>2, <4>4
    <3>4. QED
      BY <1>1, <3>1, <3>2, <3>3 DEF EndsSection
  <2>9. QED
    BY <1>1, <1>2, <2>4, <2>5, <2>6, <2>7, <2>8
<1>9. CASE ClippingGaps = {} /\ Later # {}
  <2>1. End = Bound
    BY <1>5, <1>9 DEF End
  <2>2. EndsSection(End + 1) /\ End + 1 = Min(Later) /\ Min(Later) \in Rows
    BY <1>1, <1>2, <1>4, <1>5, <1>9, <2>1 DEF EndsSection
  <2>3. ASSUME NEW i \in Start + 1 .. End
        PROVE  ~EndsSection(i)
    <3>1. i \in Rows /\ i > Start /\ i < Min(Later) /\ i <= Bound
      BY <1>1, <1>2, <1>5, <1>9, <2>1, <2>2
    <3>2. i \notin Anchors
      BY <1>1, <1>2, <2>2, <3>1
    <3>3. ~Blank(i)
      <4> SUFFICES ASSUME Blank(i) PROVE FALSE
        OBVIOUS
      <4>1. PICK h \in GapStarts : Start < h /\ h <= i
        BY <1>7, <3>1
      <4>2. h \in Rows
        BY DEF GapStarts
      <4>3. h \in ClippingGaps
        BY <1>1, <1>2, <1>5, <1>9, <3>1, <4>1, <4>2 DEF ClippingGaps
      <4>4. QED
        BY <1>9, <4>3
    <3>4. QED
      BY <1>1, <3>1, <3>2, <3>3 DEF EndsSection
  <2>4. QED
    BY <1>1, <1>2, <1>5, <1>9, <2>1, <2>2, <2>3
<1>10. CASE ClippingGaps = {} /\ Later = {}
  <2>1. End = Start
    BY <1>6, <1>10 DEF End
  <2>2. ASSUME NEW i \in Rows, i > Start
        PROVE  ~EndsSection(i)
    <3>1. i \notin Anchors
      BY <1>2, <1>10, <2>2
    <3>2. ~Blank(i)
      <4> SUFFICES ASSUME Blank(i) PROVE FALSE
        OBVIOUS
      <4>1. PICK h \in GapStarts : Start < h /\ h <= i
        BY <1>7, <2>2
      <4>2. h \in ClippingGaps
        BY <1>1, <1>2, <1>6, <1>10, <4>1 DEF ClippingGaps, GapStarts
      <4>3. QED
        BY <1>10, <4>2
    <3>3. QED
      BY <1>1, <3>1, <3>2 DEF EndsSection
  <2>3. Start + 1 .. End = {}
    BY <1>1, <1>2, <2>1
  <2>4. QED
    BY <1>1, <1>2, <2>1, <2>2, <2>3
<1>11. QED
  BY <1>8, <1>9, <1>10

-----------------------------------------------------------------------------
\* The parts of the invariant that a step leaves alone.
LEMMA RowsStay ==
  ASSUME RowsInv, UNCHANGED <<planRows, headerRows, labelRow, corrections>>
  PROVE  RowsInv'
BY DEF RowsInv, RowsNumbered, HeadersMarked, ReferencesSound, NoDataAboveHeaders, GroupsGrow, Data,
       RowsWith

LEMMA RemainingStays ==
  ASSUME UNCHANGED <<rows, blocks>>
  PROVE  Anchors' = Anchors /\ Remaining' = Remaining
BY DEF Anchors, IsRole, Remaining

LEMMA BlocksStay ==
  ASSUME BlocksInv, UNCHANGED <<sheet, rows, blocks>>, kvRows' = kvRows \/ blocks = <<>>
  PROVE  BlocksInv'
BY RemainingStays DEF BlocksInv, NoAnchorSkipped, BlocksHoldTheirLabels, LabelsWithin, BlocksDisjoint, BlocksAreSections,
       IsSection, EndsSection, Blank, Anchors, IsRole

LEMMA GroupsStay ==
  ASSUME GroupsInv, UNCHANGED <<planRows, corrections, grouped, groups>>
  PROVE  GroupsInv'
BY DEF GroupsInv, GroupsHoldData, GroupsInOrder, Data, RowsWith

\* Before apply_plan begins.
LEMMA NothingEmitted ==
  ASSUME plis = <<>>, grouped = 0, groups = <<>>, cursor = [group |-> 1, row |-> 1],
         phase # "applied", DOMAIN planRows \subseteq Nat \ {0}
  PROVE  GroupsInv /\ EmittedInv
<1>1. Data \subseteq Nat \ {0} /\ DOMAIN groups = {} /\ DOMAIN plis = {} /\ Len(groups) = 0
  BY DEF Data, RowsWith
<1>2. GroupsInv
  BY <1>1 DEF GroupsInv, GroupsHoldData, GroupsInOrder
<1>3. CursorInPlace
  BY <1>1 DEF CursorInPlace, RowsLeft
<1>4. EmittedInv
  BY <1>1, <1>3 DEF EmittedInv, RowsEmitted, RowsInOrder, BlocksEmitted, SheetEmitted
<1>5. QED
  BY <1>2, <1>4

LEMMA NothingEmittedNext ==
  ASSUME SheetInv, phase \in {"scan", "segment", "planned"}, UNCHANGED applyVars,
         phase' # "applied", RowsInv'
  PROVE  GroupsInv' /\ EmittedInv'
<1>1. /\ plis' = <<>> /\ grouped' = 0 /\ groups' = <<>> /\ cursor' = [group |-> 1, row |-> 1]
      /\ Data' \subseteq Nat \ {0}
  BY DEF SheetInv, NothingYet, applyVars, RowsInv, RowsNumbered, Rows, Data, RowsWith
<1>2. DOMAIN groups' = {} /\ DOMAIN plis' = {} /\ Len(groups') = 0 /\ Len(plis') = 0
  BY <1>1
<1>3. GroupsInv'
  BY <1>1, <1>2 DEF GroupsInv, GroupsHoldData, GroupsInOrder
<1>4. CursorInPlace'
  BY <1>1, <1>2 DEF CursorInPlace, RowsLeft
<1>5. QED
  BY <1>1, <1>2, <1>3, <1>4 DEF EmittedInv, RowsEmitted, RowsInOrder, BlocksEmitted, SheetEmitted,
                               SheetInv, TypeOK

\* The scan's part of the invariant, when the scan is over.
LEMMA ScanStays ==
  ASSUME SheetInv, UNCHANGED scanVars
  PROVE  ScanInv' /\ ScanTypeOK' /\ AnchorsHaveText'
BY ScanStepInv DEF SheetInv, AnchorsHaveText, scanVars, Anchors, IsRole, ScanInv

-----------------------------------------------------------------------------
\* Facts about the classified rows that the correction relies on.
LEMMA ClassifiedFacts ==
  ASSUME ScanInv
  PROVE  /\ DOMAIN rows \subseteq Rows
         /\ \A i \in DOMAIN rows : rows[i].idx = i /\ rows[i] \in RowSpec
         /\ \A i \in DOMAIN rows : rows[i].role = "child" =>
              /\ rows[i].anchor \in DOMAIN rows /\ rows[rows[i].anchor].role = "anchor"
              /\ rows[i].anchor < i
              /\ \A j \in DOMAIN rows : rows[j].role = "anchor" /\ j < i => j <= rows[i].anchor
         /\ \A i, j \in DOMAIN rows : rows[i].role = "header" /\ rows[j].role = "anchor" => i < j
         /\ \A i \in DOMAIN rows : rows[i].role = "anchor" => rows[i].anchor = None
<1>1. ScanTypeOK /\ RowsWellFormed /\ ChildrenBelongToNearestAnchor /\ HeaderBandPrecedesData
  BY DEF ScanInv
<1>2. DOMAIN rows = 1 .. Len(rows) /\ Len(rows) \in Nat /\ Len(rows) <= MaxRow
  BY <1>1 DEF ScanTypeOK
<1>3. DOMAIN rows \subseteq Rows
  BY <1>2, ConstantsAssumption DEF Rows
<1>4. QED
  BY <1>1, <1>2, <1>3 DEF ScanTypeOK, RowsWellFormed, ChildrenBelongToNearestAnchor,
                          HeaderBandPrecedesData, Anchors, IsRole


\* Among the data rows of the scan, groups never fall from one row to a later one.
LEMMA GroupsGrowWithRows ==
  ASSUME ScanInv
  PROVE  \A i \in RowsWith(rows, DataRoles) :
           /\ rows[i].group \in Nat
           /\ \A j \in RowsWith(rows, DataRoles) : i < j => rows[i].group <= rows[j].group
<1> DEFINE head(i) == IF rows[i].role = "anchor" THEN i ELSE rows[i].anchor
<1>1. DOMAIN rows \subseteq Nat
  BY ClassifiedFacts DEF Rows
<1>2. /\ \A a \in Anchors : a \in DOMAIN rows /\ rows[a].role = "anchor" /\ rows[a].group \in Nat
      /\ \A a, b \in Anchors : a < b => rows[a].group < rows[b].group
  BY DEF ScanInv, GroupsAreOld, GroupsAreDistinct, Anchors, IsRole
<1>3. ASSUME NEW i \in RowsWith(rows, DataRoles)
      PROVE  /\ i \in DOMAIN rows /\ head(i) \in Anchors /\ head(i) <= i
             /\ rows[i].group = rows[head(i)].group
             /\ \A a \in Anchors : a < i => a <= head(i)
  <2>1. i \in DOMAIN rows /\ i \in Nat /\ rows[i].role \in {"anchor", "child"}
    BY <1>1 DEF RowsWith, DataRoles
  <2>2. CASE rows[i].role = "anchor"
    BY <1>1, <1>2, <2>1, <2>2 DEF Anchors, IsRole
  <2>3. CASE rows[i].role = "child"
    <3>1. /\ rows[i].anchor \in Anchors /\ rows[i].anchor < i
          /\ rows[i].group = rows[rows[i].anchor].group
          /\ \A j \in Anchors : j < i => j <= rows[i].anchor
      BY <2>1, <2>3 DEF ScanInv, ChildrenBelongToNearestAnchor, IsRole
    <3>2. rows[i].anchor \in Nat
      BY <1>1, <1>2, <3>1
    <3>3. QED
      BY <2>1, <2>3, <3>1, <3>2
  <2>4. QED
    BY <2>1, <2>2, <2>3
<1> HIDE DEF head
<1>4. ASSUME NEW i \in RowsWith(rows, DataRoles), NEW j \in RowsWith(rows, DataRoles), i < j
      PROVE  rows[i].group <= rows[j].group
  <2>1. /\ head(i) \in Anchors /\ head(j) \in Anchors
        /\ head(i) \in Nat /\ head(j) \in Nat /\ i \in Nat /\ j \in Nat
    BY <1>1, <1>2, <1>3
  <2>2. head(i) < j
    BY <1>3, <1>4, <2>1
  <2>3. head(i) <= head(j)
    BY <1>3, <2>1, <2>2
  <2>4. rows[head(i)].group \in Nat /\ rows[head(j)].group \in Nat
    BY <1>2, <2>1
  <2>5. CASE head(i) < head(j)
    BY <1>2, <1>3, <2>1, <2>4, <2>5
  <2>6. CASE head(i) = head(j)
    BY <1>3, <2>4, <2>6
  <2>7. QED
    BY <2>1, <2>3, <2>5, <2>6
<1>5. QED
  BY <1>2, <1>3, <1>4

-----------------------------------------------------------------------------
\* The planner's rows when no title row was detected: those of the scan.
LEMMA KeptRowsSound ==
  ASSUME ScanInv, KeepHeaders, headerRows' = RowsWith(planRows', {"header"})
  PROVE  RowsInv'
<1> DEFINE D == DOMAIN rows
           A == {i \in D : rows[i].role = "anchor"}
           H == {i \in D : rows[i].role = "header"}
<1>1. /\ planRows' = rows /\ labelRow' = None /\ headerRows' = H
  BY DEF KeepHeaders, RowsWith
<1>2. /\ D \subseteq Rows
      /\ \A i \in D : rows[i].idx = i /\ rows[i] \in RowSpec
      /\ \A i \in D : rows[i].role = "child" =>
           rows[i].anchor \in A /\ rows[i].anchor < i /\ \A j \in A : j < i => j <= rows[i].anchor
      /\ \A h \in H, a \in A : h < a
      /\ \A i \in A : rows[i].anchor = None
  BY ClassifiedFacts
<1>3. \A i \in D : i \in Int
  BY <1>2 DEF Rows
<1>4. RowsNumbered'
  BY <1>1, <1>2 DEF RowsNumbered, Rows
<1>5. ReferencesSound'
  BY <1>1, <1>2 DEF ReferencesSound, RowsWith
<1>6. NoDataAboveHeaders'
  <2>1. SUFFICES ASSUME NEW i \in D, rows[i].role \in DataRoles, NEW h \in H PROVE h < i
    BY <1>1 DEF NoDataAboveHeaders, Data, RowsWith
  <2>2. CASE rows[i].role = "anchor"
    BY <1>2, <2>2
  <2>3. CASE rows[i].role = "child"
    <3>1. rows[i].anchor \in A /\ rows[i].anchor < i /\ h < rows[i].anchor
      BY <1>2, <2>3
    <3>2. QED
      BY <1>3, <3>1
  <2>4. QED
    BY <2>1, <2>2, <2>3 DEF DataRoles
<1>7. GroupsGrow'
  BY <1>1, GroupsGrowWithRows DEF GroupsGrow, Data, RowsWith
<1>8. QED
  BY <1>4, <1>5, <1>6, <1>7 DEF RowsInv, HeadersMarked, RowsWith

\* The planner's rows when a title row was detected: the row after the last
\* header and the rows parented to it are headers, all data is below it.
LEMMA CorrectedRowsSound ==
  ASSUME ScanInv, AddExtraHeader, headerRows' = RowsWith(planRows', {"header"})
  PROVE  RowsInv' /\ labelRow' \in Nat
<1> DEFINE D == DOMAIN rows
           A == {i \in D : rows[i].role = "anchor"}
           H == {i \in D : rows[i].role = "header"}
           e == ExtraHeaderRow
           Demoted(i) == BecomesHeader(rows[i], e)
<1>1. /\ D \subseteq Rows
      /\ \A i \in D : rows[i].idx = i /\ rows[i] \in RowSpec
      /\ \A i \in D : rows[i].role = "child" =>
           rows[i].anchor \in A /\ rows[i].anchor < i /\ \A j \in A : j < i => j <= rows[i].anchor
      /\ \A h \in H, a \in A : h < a
      /\ \A i \in A : rows[i].anchor = None
  BY ClassifiedFacts
<1>2. \A i \in D : i \in Int
  BY <1>1 DEF Rows
<1>3. RowsWith(rows, {"header"}) = H /\ H # {} /\ H \subseteq Rows
  BY <1>1 DEF AddExtraHeader, TitleRowPossible, RowsWith
<1>4. Max(H) \in H /\ e = Max(H) + 1
  BY <1>3, LastRow DEF ExtraHeaderRow
<1>5. e \in Nat /\ \A h \in H : h < e
  <2>1. \A h \in H : h <= Max(H)
    BY <1>3, LastRow
  <2>2. Max(H) \in Nat /\ \A h \in H : h \in Int
    BY <1>1, <1>4 DEF Rows
  <2> HIDE DEF e, H
  <2>3. QED
    BY <1>4, <2>1, <2>2
<1>6. \A a \in A : e <= a
  BY <1>1, <1>2, <1>4
<1>7. /\ DOMAIN planRows' = D /\ labelRow' = e
      /\ \A i \in D : planRows'[i].idx = rows[i].idx
      /\ \A i \in D : ~Demoted(i) => planRows'[i] = rows[i]
      /\ \A i \in D : Demoted(i) => planRows'[i].role = "header"
  BY <1>1 DEF AddExtraHeader, WithExtraHeader, RowSpec
<1> HIDE DEF e
<1>8. \A i \in D : Demoted(i) <=>
        \/ i = e /\ rows[i].role \in {"anchor", "child", "blank"}
        \/ rows[i].role = "child" /\ rows[i].anchor = e
  BY <1>1 DEF BecomesHeader, DataRoles
<1>9. \A a \in A : a # e => ~Demoted(a) /\ e < a
  BY <1>2, <1>5, <1>6, <1>8
<1>10. \A i \in D : rows[i].role = "child" /\ ~Demoted(i) =>
         rows[i].anchor # e /\ e < rows[i].anchor /\ ~Demoted(rows[i].anchor)
  BY <1>1, <1>8, <1>9
\* A row left as data has its nearest ANCHOR below the extra row.
<1>11. ASSUME NEW i \in D, planRows'[i].role \in DataRoles
       PROVE  /\ ~Demoted(i) /\ rows[i].role \in DataRoles
              /\ \E a \in A : a <= i /\ e < a /\ \A j \in A : j <= i => j <= a
  <2>1. ~Demoted(i) /\ rows[i].role \in DataRoles
    BY <1>7, <1>11 DEF DataRoles
  <2>2. CASE rows[i].role = "anchor"
    BY <1>2, <1>8, <1>9, <2>1, <2>2
  <2>3. CASE rows[i].role = "child"
    <3>1. rows[i].anchor \in A /\ rows[i].anchor < i /\ e < rows[i].anchor
      BY <1>1, <1>10, <2>1, <2>3
    <3>2. i \notin A
      BY <2>3
    <3>3. \A j \in A : j <= i => j <= rows[i].anchor
      BY <1>1, <1>2, <2>3, <3>2
    <3>4. QED
      BY <1>2, <2>1, <3>1, <3>3
  <2>4. QED
    BY <2>1, <2>2, <2>3 DEF DataRoles
<1>12. RowsNumbered'
  BY <1>1, <1>7 DEF RowsNumbered, RowsWith
<1>13. ReferencesSound'
  <2>1. SUFFICES ASSUME NEW i \in D
                 PROVE  /\ planRows'[i].role = "child" =>
                             planRows'[i].anchor \in {j \in D : planRows'[j].role = "anchor"}
                        /\ planRows'[i].role = "anchor" => planRows'[i].anchor = None
    BY <1>7 DEF ReferencesSound, RowsWith
  <2>2. CASE Demoted(i)
    BY <1>7, <2>2
  <2>3. CASE ~Demoted(i)
    BY <1>1, <1>7, <1>10, <2>3
  <2>4. QED
    BY <2>2, <2>3
<1>14. NoDataAboveHeaders'
  <2>1. SUFFICES ASSUME NEW i \in D, planRows'[i].role \in DataRoles,
                        NEW h, h = e \/ (h \in D /\ planRows'[h].role = "header")
                 PROVE  h < i
    BY <1>7 DEF NoDataAboveHeaders, Data, RowsWith
  <2>2. PICK a \in A : a <= i /\ e < a /\ \A j \in A : j <= i => j <= a
    BY <1>11, <2>1
  <2>3. CASE h = e
    BY <1>2, <1>5, <2>2, <2>3
  <2>4. CASE h \in H
    BY <1>2, <1>5, <2>2, <2>4
  <2>5. CASE h \in D /\ rows[h].role = "child" /\ rows[h].anchor = e
    <3>1. ~(a < h)
      BY <1>1, <1>2, <1>5, <2>2, <2>5
    <3>2. a # h
      BY <2>5
    <3>3. QED
      BY <1>2, <2>2, <2>5, <3>1, <3>2
  <2>6. QED
    BY <1>7, <1>8, <2>1, <2>3, <2>4, <2>5
<1>15. GroupsGrow'
  <2>1. \A i \in D : planRows'[i].role \in DataRoles =>
          planRows'[i] = rows[i] /\ i \in RowsWith(rows, DataRoles)
    BY <1>7, <1>11 DEF RowsWith
  <2>2. QED
    BY <1>7, <2>1, GroupsGrowWithRows DEF GroupsGrow, Data, RowsWith
<1>16. QED
  BY <1>5, <1>7, <1>12, <1>13, <1>14, <1>15 DEF RowsInv, HeadersMarked, RowsWith

\* The rows of a plan stay rows: the correction keeps to the types of RowSpec.
LEMMA PlanTyped ==
  ASSUME ScanInv, FinishPlan
  PROVE  /\ planRows' \in Seq(PlanRowSpec) /\ RowsInv'
         /\ headerRows' \subseteq Nat /\ labelRow' \in Nat \cup {None}
<1>1. rows \in Seq(PlanRowSpec)
  <2>1. RowSpec \subseteq PlanRowSpec
    BY DEF RowSpec, PlanRowSpec, AllRoles, Roles
  <2>2. QED
    BY <2>1 DEF ScanInv, ScanTypeOK
<1>2. RowsInv' /\ labelRow' \in Nat \cup {None}
  BY KeptRowsSound, CorrectedRowsSound DEF FinishPlan, KeepHeaders
<1>3. headerRows' \subseteq Nat
  BY <1>2 DEF RowsInv, RowsNumbered, Rows
<1>4. CASE KeepHeaders
  BY <1>1, <1>2, <1>3, <1>4 DEF KeepHeaders
<1>5. CASE AddExtraHeader
  <2> DEFINE new == WithExtraHeader(rows, ExtraHeaderRow)
  <2>1. ASSUME NEW i \in DOMAIN rows
        PROVE  [rows[i] EXCEPT !.role = "header", !.anchor = None, !.group = None] \in PlanRowSpec
    <3>1. rows[i] \in PlanRowSpec
      BY <1>1
    <3>2. QED
      BY <3>1 DEF PlanRowSpec, AllRoles, Roles
  <2>2. /\ DOMAIN rows = 1 .. Len(rows) /\ Len(rows) \in Nat
        /\ \A i \in DOMAIN rows : rows[i] \in PlanRowSpec
    BY <1>1
  <2>3. new \in [1 .. Len(rows) -> PlanRowSpec]
    BY <2>1, <2>2 DEF WithExtraHeader
  <2>4. new \in Seq(PlanRowSpec)
    BY <2>2, <2>3
  <2>5. QED
    BY <1>2, <1>3, <1>5, <2>4 DEF AddExtraHeader
<1>6. QED
  BY <1>4, <1>5 DEF FinishPlan

-----------------------------------------------------------------------------
LEMMA SheetInit == Init => SheetInv
<1> SUFFICES ASSUME Init PROVE SheetInv
  OBVIOUS
<1>1. ScanInv
  BY ScanInitInv DEF Init
<1>2. /\ rows = <<>> /\ blocks = <<>> /\ plis = <<>> /\ planRows = <<>> /\ kvRows = {}
      /\ grouped = 0 /\ groups = <<>> /\ cursor = [group |-> 1, row |-> 1]
      /\ headerRows = {} /\ labelRow = None /\ corrections = 0 /\ phase = "scan"
      /\ mode \in PliModes
  BY PlanAssumption DEF Init, ScanInit
<1>3. TypeOK
  BY <1>1, <1>2, PlanAssumption DEF TypeOK, ScanInv
<1>4. AnchorsHaveText
  BY <1>2 DEF AnchorsHaveText, Anchors
<1>5. RowsInv
  BY <1>2 DEF RowsInv, RowsNumbered, HeadersMarked, ReferencesSound, NoDataAboveHeaders, GroupsGrow, Data, RowsWith
<1>6. BlocksInv
  BY <1>2 DEF BlocksInv, BlocksHoldTheirLabels, BlocksAreSections, BlocksDisjoint, NoAnchorSkipped, Remaining
<1>7. GroupsInv /\ EmittedInv
  BY <1>2, NothingEmitted
<1>8. QED
  BY <1>1, <1>2, <1>3, <1>4, <1>5, <1>6, <1>7 DEF SheetInv, NothingYet, ModesApart

LEMMA ScanKeepsInv ==
  ASSUME SheetInv, Scan
  PROVE  SheetInv'
<1>1. /\ ScanNext /\ UNCHANGED planVars /\ phase = "scan" /\ blocks = <<>> /\ plis = <<>>
      /\ mode # "SHEET_IS_PLI"
  BY DEF Scan, SheetInv, NothingYet
<1>2. ScanInv' /\ ScanTypeOK
  BY <1>1, ScanStepInv DEF SheetInv, ScanInv
<1>3. sheet' = sheet
  BY <1>1 DEF ScanNext, NoIdentityColumn, EmptyRow, HeaderTermRow, IdentityRow, MergedRow,
              QuantityRow, FillerRow
<1>4. AnchorsHaveText'
  <2>1. CASE NoIdentityColumn
    <3>1. Anchors' = {}
      BY <2>1 DEF NoIdentityColumn, Anchors, IsRole
    <3>2. QED
      BY <3>1 DEF AnchorsHaveText
  <2>2. ASSUME Scanning, NEW role \in Roles, NEW anchor \in Nat \cup {None},
               NEW group \in Nat \cup {None}, Emit(role, anchor, group),
               role = "anchor" => Row.id = "text"
        PROVE  AnchorsHaveText'
    <3>1. /\ DOMAIN rows' = DOMAIN rows \cup {Cur}
          /\ \A i \in DOMAIN rows : rows'[i] = rows[i]
          /\ rows'[Cur].role = role
      BY <1>2, <2>2, EmitAppends
    <3>2. Cur \in Rows /\ Row = sheet[Cur]
      BY <2>2 DEF Scanning, Row
    <3>3. QED
      BY <1>3, <2>2, <3>1, <3>2 DEF SheetInv, AnchorsHaveText, Anchors, IsRole
  <2>3. CASE EmptyRow \/ FillerRow
    BY <2>2, <2>3 DEF EmptyRow, FillerRow, Roles
  <2>4. CASE HeaderTermRow
    BY <2>2, <2>4 DEF HeaderTermRow, BandRole, Roles
  <2>5. CASE IdentityRow
    BY <1>2, <2>2, <2>5 DEF IdentityRow, Roles, ScanTypeOK
  <2>6. CASE MergedRow
    BY <1>2, <2>2, <2>6 DEF MergedRow, Roles, ScanTypeOK
  <2>7. CASE QuantityRow
    BY <2>2, <2>7 DEF QuantityRow, Roles
  <2>8. QED
    BY <1>1, <2>1, <2>3, <2>4, <2>5, <2>6, <2>7 DEF ScanNext
<1>5. /\ phase' = "scan" /\ blocks' = <<>> /\ plis' = <<>> /\ mode' # "SHEET_IS_PLI"
      /\ UNCHANGED planVars
  BY <1>1 DEF planVars, applyVars
<1>6. TypeOK'
  <2>1. UNCHANGED <<mode, phase, kvRows, blocks, planRows, headerRows, labelRow, corrections,
                    grouped, groups, cursor, plis>>
    BY <1>5 DEF planVars, applyVars
  <2>2. ScanTypeOK' /\ TypeOK
    BY <1>2 DEF ScanInv, SheetInv
  <2>3. QED
    BY <2>1, <2>2 DEF TypeOK
<1>7. RowsInv'
  BY <1>5, RowsStay DEF SheetInv, planVars
<1>8. BlocksInv'
  BY <1>5 DEF BlocksInv, BlocksHoldTheirLabels, BlocksAreSections, BlocksDisjoint,
                   NoAnchorSkipped, Remaining
<1>9. GroupsInv' /\ EmittedInv'
  BY <1>1, <1>5, <1>7, NothingEmittedNext DEF planVars
<1>10. NothingYet' /\ ModesApart'
  BY <1>5 DEF SheetInv, NothingYet, ModesApart, planVars, applyVars
<1>11. QED
  BY <1>2, <1>4, <1>6, <1>7, <1>8, <1>9, <1>10 DEF SheetInv

\* The end of SheetRowPlanner.run, from the row scan or from the blocks.
LEMMA FinishKeepsInv ==
  ASSUME SheetInv, FinishPlan, phase \in {"scan", "segment"}, UNCHANGED <<kvRows, blocks>>,
         mode = "SECTION_PER_PLI" => Remaining = {}
  PROVE  SheetInv'
<1>1. /\ UNCHANGED <<scanVars, mode, corrections, applyVars>> /\ phase' = "planned"
      /\ plis = <<>> /\ grouped = 0
  BY DEF FinishPlan, SheetInv, NothingYet
<1>2. ScanInv' /\ ScanTypeOK' /\ AnchorsHaveText'
  BY <1>1, ScanStays
<1>3. /\ planRows' \in Seq(PlanRowSpec) /\ RowsInv'
      /\ headerRows' \subseteq Nat /\ labelRow' \in Nat \cup {None}
  BY PlanTyped DEF SheetInv
<1>4. TypeOK'
  BY <1>1, <1>2, <1>3 DEF SheetInv, TypeOK, applyVars
<1>5. BlocksInv'
  BY <1>1, BlocksStay DEF SheetInv, scanVars
<1>6. GroupsInv' /\ EmittedInv'
  BY <1>1, <1>3, NothingEmittedNext
<1>7. NothingYet' /\ ModesApart'
  BY <1>1, RemainingStays DEF SheetInv, NothingYet, ModesApart, scanVars, applyVars
<1>8. QED
  BY <1>2, <1>3, <1>4, <1>5, <1>6, <1>7 DEF SheetInv

LEMMA DetectKeepsInv ==
  ASSUME SheetInv, DetectKvAnchors
  PROVE  SheetInv'
<1>1. /\ UNCHANGED <<scanVars, mode, blocks, planRows, headerRows, labelRow, corrections, applyVars>>
      /\ phase = "scan" /\ phase' = "segment" /\ mode # "ROW_PER_PLI"
      /\ blocks = <<>> /\ plis = <<>> /\ kvRows' \subseteq Rows
  BY DEF DetectKvAnchors, SheetInv, NothingYet, LabelRows
<1>2. ScanInv' /\ ScanTypeOK' /\ AnchorsHaveText'
  BY <1>1, ScanStays
<1>3. TypeOK'
  BY <1>1, <1>2 DEF SheetInv, TypeOK, applyVars
<1>4. RowsInv'
  BY <1>1, RowsStay DEF SheetInv
<1>5. BlocksInv'
  BY <1>1, BlocksStay DEF SheetInv, scanVars
<1>6. GroupsInv' /\ EmittedInv'
  BY <1>1, <1>4, NothingEmittedNext
<1>7. NothingYet' /\ ModesApart'
  BY <1>1 DEF SheetInv, NothingYet, ModesApart, scanVars, applyVars
<1>8. QED
  BY <1>2, <1>3, <1>4, <1>5, <1>6, <1>7 DEF SheetInv

LEMMA AddBlockKeepsInv ==
  ASSUME SheetInv, AddBlock
  PROVE  SheetInv'
<1> DEFINE new == [first |-> Start, last |-> End, labels |-> LabelsWithin(Start, End)]
           n == Len(blocks) + 1
<1>1. /\ Remaining # {} /\ phase = "segment" /\ plis = <<>>
      /\ blocks' = Append(blocks, new)
      /\ UNCHANGED <<scanVars, mode, phase, kvRows, planRows, headerRows, labelRow, corrections, applyVars>>
  BY DEF AddBlock, SheetInv, NothingYet
<1>2. Start \in Anchors /\ Start \in Rows /\ Start \in Remaining
  BY <1>1, StartTyped
<1>3. End \in Nat /\ IsSection(Start, End)
  BY <1>1, BlockIsSection
<1>4. blocks \in Seq(Block) /\ kvRows \subseteq Rows /\ MaxRow \in Nat
  BY ConstantsAssumption DEF SheetInv, TypeOK
<1>5. new \in Block
  <2>1. Start \in Nat
    BY <1>2 DEF Rows
  <2>2. LabelsWithin(Start, End) \subseteq Rows
    BY <1>4 DEF LabelsWithin
  <2>3. QED
    BY <1>3, <2>1, <2>2 DEF Block
<1>6. ScanInv' /\ ScanTypeOK' /\ AnchorsHaveText'
  BY <1>1, ScanStays
<1>7. /\ blocks' \in Seq(Block) /\ DOMAIN blocks' = DOMAIN blocks \cup {n}
      /\ DOMAIN blocks = 1 .. n - 1 /\ n \in Nat
      /\ \A k \in DOMAIN blocks : blocks'[k] = blocks[k] /\ blocks[k] \in Block
      /\ blocks'[n] = new
  <2> HIDE DEF new
  <2>1. QED
    BY <1>1, <1>4, <1>5
<1>8. TypeOK'
  BY <1>1, <1>4, <1>6, <1>7 DEF SheetInv, TypeOK, applyVars
<1>9. BlocksHoldTheirLabels'
  BY <1>1, <1>7 DEF SheetInv, BlocksInv, BlocksHoldTheirLabels, LabelsWithin
<1>10. BlocksAreSections'
  <2>1. \A k \in DOMAIN blocks' : IsSection(blocks'[k].first, blocks'[k].last)
    BY <1>3, <1>7 DEF SheetInv, BlocksInv, BlocksAreSections
  <2>2. QED
    BY <1>1, <2>1 DEF BlocksAreSections, IsSection, EndsSection, Blank, Anchors, IsRole, scanVars
<1>11. ASSUME NEW k \in DOMAIN blocks
       PROVE  blocks[k].last < Start
  <2>1. /\ blocks[k].first \in Nat /\ blocks[k].last \in Nat
        /\ \A i \in blocks[k].first + 1 .. blocks[k].last : ~EndsSection(i)
    BY <1>7 DEF SheetInv, BlocksInv, BlocksAreSections, IsSection, Block
  <2>2. blocks[k].first < Start /\ EndsSection(Start)
    BY <1>2 DEF Remaining, EndsSection
  <2>3. QED
    BY <1>2, <2>1, <2>2 DEF Rows
<1>12. BlocksDisjoint'
  <2> SUFFICES ASSUME NEW i \in DOMAIN blocks', NEW j \in DOMAIN blocks', i < j
               PROVE  blocks'[i].last < blocks'[j].first
    BY DEF BlocksDisjoint
  <2>1. i \in DOMAIN blocks
    BY <1>7
  <2>2. CASE j = n
    BY <1>7, <1>11, <2>1, <2>2
  <2>3. CASE j \in DOMAIN blocks
    BY <1>7, <2>1, <2>3 DEF SheetInv, BlocksInv, BlocksDisjoint
  <2>4. QED
    BY <1>7, <2>2, <2>3
<1>13. RowsInv'
  BY <1>1, RowsStay DEF SheetInv
<1>14. GroupsInv' /\ EmittedInv'
  BY <1>1, <1>13, NothingEmittedNext
<1>15. NothingYet' /\ ModesApart'
  <2>1. mode # "ROW_PER_PLI" /\ mode # "SHEET_IS_PLI"
    BY <1>1, <1>2 DEF SheetInv, ModesApart, Anchors
  <2>2. QED
    BY <1>1, <2>1 DEF SheetInv, NothingYet, ModesApart, applyVars
<1>16. NoAnchorSkipped'
  <2>1. Anchors' = Anchors
    BY <1>1 DEF Anchors, IsRole, scanVars
  <2>2. SUFFICES ASSUME NEW a \in Anchors
                 PROVE  a \in Remaining' \/ \E k \in DOMAIN blocks' : blocks'[k].first = a
    BY <2>1 DEF NoAnchorSkipped
  <2>3. CASE \E k \in DOMAIN blocks : blocks[k].first = a
    BY <1>7, <2>3
  <2>4. CASE a \in Remaining /\ a # Start
    <3>1. a \in Rows /\ Start <= a
      BY <1>1, <2>4, StartTyped DEF SheetInv, AnchorsHaveText
    <3>2. \A k \in DOMAIN blocks : blocks[k].first < a
      BY <2>4 DEF Remaining
    <3>3. \A k \in DOMAIN blocks' : blocks'[k].first < a
      BY <1>2, <1>7, <2>4, <3>1, <3>2 DEF Rows
    <3>4. QED
      BY <2>1, <3>3 DEF Remaining
  <2>5. CASE a = Start
    BY <1>7, <2>5
  <2>6. QED
    BY <2>3, <2>4, <2>5 DEF SheetInv, BlocksInv, NoAnchorSkipped
<1>17. QED
  BY <1>6, <1>8, <1>9, <1>10, <1>12, <1>13, <1>14, <1>15, <1>16 DEF SheetInv, BlocksInv

LEMMA CorrectKeepsInv ==
  ASSUME SheetInv, NEW i \in DOMAIN planRows,
         NEW role, NEW anchor \in CorrectionAnchors \cup {planRows[i].anchor},
         CorrectRow(i, role, anchor)
  PROVE  SheetInv'
<1>1. /\ phase = "planned" /\ corrections' = corrections + 1 /\ corrections < MaxCorrections
      /\ UNCHANGED <<scanVars, mode, phase, kvRows, blocks, headerRows, labelRow, applyVars>>
      /\ plis = <<>> /\ grouped = 0
  BY DEF CorrectRow, SheetInv, NothingYet
<1>2. ScanInv' /\ ScanTypeOK' /\ AnchorsHaveText'
  BY <1>1, ScanStays
<1>3. /\ planRows \in Seq(PlanRowSpec) /\ planRows[i] \in PlanRowSpec
      /\ planRows \in [1 .. Len(planRows) -> PlanRowSpec] /\ Len(planRows) \in Nat
      /\ DOMAIN planRows = 1 .. Len(planRows)
  BY DEF SheetInv, TypeOK
<1>4. CoercedRole(i, role) \in AllRoles /\ anchor \in Nat \cup {None}
  BY <1>3, PlanAssumption DEF CoercedRole, PlanRowSpec
<1> DEFINE spec == [planRows[i] EXCEPT !.role = CoercedRole(i, role), !.anchor = anchor]
<1>5. spec \in PlanRowSpec /\ spec.idx = planRows[i].idx
  BY <1>3, <1>4 DEF PlanRowSpec
<1>6. planRows' = [planRows EXCEPT ![i] = spec]
  BY <1>3 DEF CorrectRow, PlanRowSpec
<1> HIDE DEF spec
<1>7. /\ planRows' \in Seq(PlanRowSpec) /\ DOMAIN planRows' = DOMAIN planRows
      /\ \A j \in DOMAIN planRows : planRows'[j].idx = planRows[j].idx
  <2>1. planRows' \in [1 .. Len(planRows) -> PlanRowSpec]
    BY <1>3, <1>5, <1>6
  <2>2. QED
    BY <1>3, <1>5, <1>6, <2>1
<1>8. corrections' \in 0 .. MaxCorrections /\ corrections' # 0
  BY <1>1, PlanAssumption DEF SheetInv, TypeOK
<1>9. TypeOK'
  BY <1>1, <1>2, <1>7, <1>8 DEF SheetInv, TypeOK, applyVars
<1>10. RowsInv'
  BY <1>1, <1>7, <1>8 DEF SheetInv, RowsInv, RowsNumbered, HeadersMarked, ReferencesSound, NoDataAboveHeaders,
                          GroupsGrow
<1>11. BlocksInv'
  BY <1>1, BlocksStay DEF SheetInv, scanVars
<1>12. GroupsInv' /\ EmittedInv'
  BY <1>1, <1>10, NothingEmittedNext
<1>13. NothingYet' /\ ModesApart'
  BY <1>1, RemainingStays DEF SheetInv, NothingYet, ModesApart, scanVars, applyVars
<1>14. QED
  BY <1>2, <1>9, <1>10, <1>11, <1>12, <1>13 DEF SheetInv

-----------------------------------------------------------------------------
\* A step of apply_plan reads the plan and changes what has been emitted only.
LEMMA ApplyKeepsInv ==
  ASSUME SheetInv, UNCHANGED planOnly, phase \in {"planned", "apply", "applied"},
         phase' \in {"apply", "applied"},
         plis' \in Seq(Block), grouped' \in 0 .. Len(planRows), groups' \in Seq(Entry),
         cursor' \in [group: Nat, row: Nat], GroupsInv', EmittedInv'
  PROVE  SheetInv'
<1>1. UNCHANGED <<scanVars, mode, kvRows, blocks, planRows, headerRows, labelRow, corrections>>
  BY DEF planOnly
<1>2. ScanInv' /\ ScanTypeOK' /\ AnchorsHaveText'
  BY <1>1, ScanStays
<1>3. TypeOK'
  BY <1>1, <1>2 DEF SheetInv, TypeOK
<1>4. RowsInv'
  BY <1>1, RowsStay DEF SheetInv
<1>5. BlocksInv'
  BY <1>1, BlocksStay DEF SheetInv, scanVars
<1>6. NothingYet' /\ ModesApart'
  BY <1>1, RemainingStays DEF SheetInv, NothingYet, ModesApart, scanVars
<1>7. QED
  BY <1>2, <1>3, <1>4, <1>5, <1>6 DEF SheetInv

\* setdefault(key, []).append(r): row i comes to one new place, at the end of the entry
\* with its key, and every other place stays.
LEMMA RowIsAppended ==
  ASSUME SheetInv, NEW i \in Data, groups' = GroupedWith(i)
  PROVE  /\ groups' \in Seq(Entry)
         /\ \E g \in DOMAIN groups' : \E n \in DOMAIN groups'[g].rows :
              /\ groups'[g].rows[n] = i /\ groups'[g].key = GroupKey(i)
              /\ DOMAIN groups'[g].rows = 1 .. n
              /\ DOMAIN groups' = DOMAIN groups \cup {g}
              /\ g \in DOMAIN groups \/ (g = Len(groups) + 1 /\ ~KnownKey(GroupKey(i)))
              /\ \A a \in DOMAIN groups :
                   /\ groups'[a].key = groups[a].key
                   /\ \A b \in DOMAIN groups[a].rows :
                        b \in DOMAIN groups'[a].rows /\ groups'[a].rows[b] = groups[a].rows[b]
              /\ \A a \in DOMAIN groups' : \A b \in DOMAIN groups'[a].rows :
                   \/ a = g /\ b = n
                   \/ a \in DOMAIN groups /\ b \in DOMAIN groups[a].rows
<1> DEFINE key == GroupKey(i)
<1>1. /\ groups \in Seq(Entry) /\ DOMAIN groups = 1 .. Len(groups) /\ Len(groups) \in Nat
      /\ \A a \in DOMAIN groups : groups[a] \in Entry
      /\ \A a, c \in DOMAIN groups : groups[a].key = groups[c].key => a = c
  BY DEF SheetInv, TypeOK, GroupsInv, GroupsHoldData
<1>2. i \in Nat /\ key \in Nat
  <2>1. i \in DOMAIN planRows /\ planRows[i].idx = i /\ i \in Rows
    BY DEF SheetInv, RowsInv, RowsNumbered, Data, RowsWith
  <2>2. planRows[i] \in PlanRowSpec
    BY <2>1 DEF SheetInv, TypeOK
  <2>3. QED
    BY <2>1, <2>2 DEF PlanRowSpec, GroupKey, Rows
<1> HIDE DEF key
<1>3. CASE ~KnownKey(key)
  <2> DEFINE new == [key |-> key, rows |-> <<i>>]
             g == Len(groups) + 1
  <2>1. new \in Entry /\ new.key = key /\ new.rows = <<i>> /\ DOMAIN new.rows = 1 .. 1 /\ new.rows[1] = i
    BY <1>2 DEF Entry
  <2>2. groups' = Append(groups, new)
    BY <1>3 DEF GroupedWith, Opened, key
  <2> HIDE DEF new
  <2>3. /\ groups' \in Seq(Entry) /\ DOMAIN groups' = DOMAIN groups \cup {g} /\ g \in DOMAIN groups'
        /\ g \notin DOMAIN groups
        /\ groups'[g] = new /\ \A a \in DOMAIN groups : groups'[a] = groups[a]
    BY <1>1, <2>1, <2>2
  <2>4. /\ \A a \in DOMAIN groups' : \A b \in DOMAIN groups'[a].rows :
             \/ a = g /\ b = 1
             \/ a \in DOMAIN groups /\ b \in DOMAIN groups[a].rows
    BY <2>1, <2>3
  <2>5. /\ groups'[g].rows[1] = i /\ groups'[g].key = GroupKey(i)
        /\ DOMAIN groups'[g].rows = 1 .. 1 /\ 1 \in DOMAIN groups'[g].rows
        /\ g = Len(groups) + 1 /\ ~KnownKey(GroupKey(i))
    BY <1>3, <2>1, <2>3 DEF key
  <2>6. \A a \in DOMAIN groups :
           /\ groups'[a].key = groups[a].key
           /\ \A b \in DOMAIN groups[a].rows :
                b \in DOMAIN groups'[a].rows /\ groups'[a].rows[b] = groups[a].rows[b]
    BY <2>3
  <2> HIDE DEF g
  <2>7. g \in DOMAIN groups' /\ DOMAIN groups' = DOMAIN groups \cup {g}
    BY <2>3
  <2>8. \E n \in DOMAIN groups'[g].rows :
              /\ groups'[g].rows[n] = i /\ groups'[g].key = GroupKey(i)
              /\ DOMAIN groups'[g].rows = 1 .. n
              /\ DOMAIN groups' = DOMAIN groups \cup {g}
              /\ g \in DOMAIN groups \/ (g = Len(groups) + 1 /\ ~KnownKey(GroupKey(i)))
              /\ \A a \in DOMAIN groups :
                   /\ groups'[a].key = groups[a].key
                   /\ \A b \in DOMAIN groups[a].rows :
                        b \in DOMAIN groups'[a].rows /\ groups'[a].rows[b] = groups[a].rows[b]
              /\ \A a \in DOMAIN groups' : \A b \in DOMAIN groups'[a].rows :
                   \/ a = g /\ b = n
                   \/ a \in DOMAIN groups /\ b \in DOMAIN groups[a].rows
    <3>1. WITNESS 1 \in DOMAIN groups'[g].rows
    <3>2. QED
      BY <2>4, <2>5, <2>6, <2>7
  <2>9. QED
    BY <2>3, <2>7, <2>8
<1>4. CASE KnownKey(key)
  <2>1. PICK g \in DOMAIN groups : groups[g].key = key
    BY <1>4 DEF KnownKey
  <2> DEFINE old == groups[g].rows
             n == Len(old) + 1
             new == [groups[g] EXCEPT !.rows = Append(@, i)]
  <2>2. /\ groups[g] \in Entry /\ old \in Seq(Nat) /\ Len(old) \in Nat
        /\ DOMAIN old = 1 .. Len(old)
    BY <1>1, <2>1 DEF Entry
  <2>3. /\ new \in Entry /\ new.key = key /\ new.rows = Append(old, i)
    <3>1. Append(old, i) \in Seq(Nat)
      <4> HIDE DEF old
      <4>1. QED
        BY <1>2, <2>2
    <3>2. new = [groups[g] EXCEPT !.rows = Append(old, i)]
      OBVIOUS
    <3> HIDE DEF new, old
    <3>3. QED
      BY <2>1, <2>2, <3>1, <3>2 DEF Entry
  <2>4. /\ new.rows \in Seq(Nat) /\ DOMAIN new.rows = 1 .. n /\ n \in 1 .. n /\ new.rows[n] = i
        /\ \A b \in DOMAIN old : b \in DOMAIN new.rows /\ new.rows[b] = old[b]
        /\ \A b \in DOMAIN new.rows : b = n \/ b \in DOMAIN old
    <3> HIDE DEF old, new
    <3>1. QED
      BY <1>2, <2>2, <2>3
  <2>5. groups' = [a \in DOMAIN groups |-> IF a = g THEN new ELSE groups[a]]
    <3>1. groups' = Joined(i)
      BY <1>4 DEF GroupedWith, key
    <3>2. \A a \in DOMAIN groups : groups[a].key = GroupKey(i) <=> a = g
      BY <1>1, <2>1 DEF key
    <3>3. QED
      BY <3>1, <3>2 DEF Joined
  <2> HIDE DEF new
  <2>6. /\ DOMAIN groups' = DOMAIN groups /\ groups'[g] = new
        /\ \A a \in DOMAIN groups : a # g => groups'[a] = groups[a]
    BY <2>1, <2>5
  <2>7. groups' \in Seq(Entry)
    <3>1. groups' \in [1 .. Len(groups) -> Entry]
      BY <1>1, <2>3, <2>5
    <3>2. QED
      BY <1>1, <3>1
  <2>8. /\ groups'[g].rows[n] = i /\ groups'[g].key = GroupKey(i)
        /\ DOMAIN groups'[g].rows = 1 .. n /\ n \in DOMAIN groups'[g].rows
        /\ DOMAIN groups' = DOMAIN groups \cup {g}
    BY <2>1, <2>3, <2>4, <2>6 DEF key
  <2>9. \A a \in DOMAIN groups :
           /\ groups'[a].key = groups[a].key
           /\ \A b \in DOMAIN groups[a].rows :
                b \in DOMAIN groups'[a].rows /\ groups'[a].rows[b] = groups[a].rows[b]
    BY <2>1, <2>3, <2>4, <2>6
  <2>10. \A a \in DOMAIN groups' : \A b \in DOMAIN groups'[a].rows :
           \/ a = g /\ b = n
           \/ a \in DOMAIN groups /\ b \in DOMAIN groups[a].rows
    BY <2>1, <2>4, <2>6
  <2> HIDE DEF n
  <2>11. QED
    BY <2>1, <2>6, <2>7, <2>8, <2>9, <2>10
<1>5. QED
  BY <1>3, <1>4 DEF key

\* The first loop of _apply_row_per_pli: places stay unique, and in order as long as
\* no row was corrected.
LEMMA GroupRowKeepsInv ==
  ASSUME SheetInv, GroupRow
  PROVE  SheetInv'
<1> DEFINE i == grouped + 1
<1>1. /\ phase = "apply" /\ mode = "ROW_PER_PLI" /\ grouped < Len(planRows)
      /\ UNCHANGED <<planOnly, phase, cursor, plis>> /\ grouped' = i
      /\ groups' = IF i \in Data THEN GroupedWith(i) ELSE groups
      /\ plis = <<>> /\ cursor = [group |-> 1, row |-> 1]
      /\ grouped \in Nat /\ Len(planRows) \in Nat
      /\ plis \in Seq(Block) /\ groups \in Seq(Entry) /\ cursor \in [group: Nat, row: Nat]
  BY DEF GroupRow, SheetInv, EmittedInv, CursorInPlace, TypeOK
<1>2. UNCHANGED <<mode, planRows, corrections>> /\ Data' = Data
  BY <1>1 DEF planOnly, Data, RowsWith
<1>3. Data \subseteq Nat
  BY DEF SheetInv, RowsInv, RowsNumbered, Data, RowsWith, Rows
<1>4. GroupsHoldData /\ GroupsInOrder
  BY DEF SheetInv, GroupsInv
<1>5. ASSUME i \in Data
      PROVE  groups' \in Seq(Entry) /\ GroupsInv'
  <2>1. groups' \in Seq(Entry) /\ groups' = GroupedWith(i)
    BY <1>1, <1>5, RowIsAppended
  <2>2. PICK g \in DOMAIN groups' : \E n \in DOMAIN groups'[g].rows :
              /\ groups'[g].rows[n] = i /\ groups'[g].key = GroupKey(i)
              /\ DOMAIN groups'[g].rows = 1 .. n
              /\ DOMAIN groups' = DOMAIN groups \cup {g}
              /\ g \in DOMAIN groups \/ (g = Len(groups) + 1 /\ ~KnownKey(GroupKey(i)))
              /\ \A a \in DOMAIN groups :
                   /\ groups'[a].key = groups[a].key
                   /\ \A b \in DOMAIN groups[a].rows :
                        b \in DOMAIN groups'[a].rows /\ groups'[a].rows[b] = groups[a].rows[b]
              /\ \A a \in DOMAIN groups' : \A b \in DOMAIN groups'[a].rows :
                   \/ a = g /\ b = n
                   \/ a \in DOMAIN groups /\ b \in DOMAIN groups[a].rows
    BY <1>5, <2>1, RowIsAppended
  <2>3. PICK n \in DOMAIN groups'[g].rows :
              /\ groups'[g].rows[n] = i /\ groups'[g].key = GroupKey(i)
              /\ DOMAIN groups'[g].rows = 1 .. n
              /\ DOMAIN groups' = DOMAIN groups \cup {g}
              /\ g \in DOMAIN groups \/ (g = Len(groups) + 1 /\ ~KnownKey(GroupKey(i)))
              /\ \A a \in DOMAIN groups :
                   /\ groups'[a].key = groups[a].key
                   /\ \A b \in DOMAIN groups[a].rows :
                        b \in DOMAIN groups'[a].rows /\ groups'[a].rows[b] = groups[a].rows[b]
              /\ \A a \in DOMAIN groups' : \A b \in DOMAIN groups'[a].rows :
                   \/ a = g /\ b = n
                   \/ a \in DOMAIN groups /\ b \in DOMAIN groups[a].rows
    BY <2>2
  <2>4. /\ \A a \in DOMAIN groups : a \in Nat /\ a <= Len(groups)
        /\ \A a \in DOMAIN groups' : \A b \in DOMAIN groups'[a].rows : a \in Nat /\ b \in Nat
        /\ g \in Nat /\ n \in Nat /\ n >= 1 /\ Len(groups) \in Nat
        /\ \A a \in DOMAIN groups' : groups'[a] \in Entry
    <3>1. \A a \in DOMAIN groups' : groups'[a] \in Entry /\ a \in Nat
      BY <2>1
    <3>2. \A a \in DOMAIN groups' : groups'[a].rows \in Seq(Nat)
      BY <3>1 DEF Entry
    <3>3. \A a \in DOMAIN groups' : \A b \in DOMAIN groups'[a].rows : b \in Nat /\ b >= 1
      BY <3>2
    <3>4. \A a \in DOMAIN groups : a \in Nat /\ a <= Len(groups)
      BY <1>1
    <3>5. QED
      BY <1>1, <2>3, <3>1, <3>3, <3>4
  \* The places before the step hold earlier rows.
  <2>5. \A a \in DOMAIN groups : \A b \in DOMAIN groups[a].rows :
          groups[a].rows[b] \in Data /\ groups[a].rows[b] \in Nat /\ groups[a].rows[b] < i
    <3> TAKE a \in DOMAIN groups
    <3> TAKE b \in DOMAIN groups[a].rows
    <3> DEFINE x == groups[a].rows[b]
    <3>1. x \in Data /\ x <= grouped
      BY <1>4 DEF GroupsHoldData
    <3>2. x \in Nat
      BY <1>3, <3>1
    <3> HIDE DEF x
    <3>3. x < i
      BY <1>1, <3>1, <3>2
    <3>4. QED
      BY <3>1, <3>2, <3>3 DEF x
  <2>6. \A a, c \in DOMAIN groups' : groups'[a].key = groups'[c].key => a = c
    BY <1>4, <2>3 DEF GroupsHoldData, KnownKey
  <2>7. \A a \in DOMAIN groups' : 1 \in DOMAIN groups'[a].rows
    BY <1>4, <2>3, <2>4 DEF GroupsHoldData
  <2>8. \A a \in DOMAIN groups' : \A b \in DOMAIN groups'[a].rows :
          groups'[a].rows[b] \in Data /\ groups'[a].rows[b] <= i
    <3> TAKE a \in DOMAIN groups'
    <3> TAKE b \in DOMAIN groups'[a].rows
    <3>1. CASE a = g /\ b = n
      <4>1. groups'[a].rows[b] = i
        BY <2>3, <3>1
      <4>2. i \in Nat
        BY <1>1
      <4> HIDE DEF i
      <4>3. i \in Data /\ i <= i
        BY <1>5, <4>2
      <4>4. QED
        BY <4>1, <4>3
    <3>2. CASE a \in DOMAIN groups /\ b \in DOMAIN groups[a].rows
      <4> DEFINE x == groups[a].rows[b]
      <4>1. groups'[a].rows[b] = x
        BY <2>3, <3>2
      <4>2. x \in Data /\ x \in Nat /\ x < i
        BY <2>5, <3>2
      <4>3. i \in Nat
        BY <1>1
      <4> HIDE DEF x, i
      <4>4. x <= i
        BY <4>2, <4>3
      <4>5. QED
        BY <4>1, <4>2, <4>4
    <3>3. QED
      BY <2>3, <3>1, <3>2
  <2>9. \A j \in Data : j <= i =>
          \E a \in DOMAIN groups' : \E b \in DOMAIN groups'[a].rows : groups'[a].rows[b] = j
    <3> TAKE j \in Data
    <3> HAVE j <= i
    <3>1. CASE j = i
      BY <2>3, <3>1
    <3>2. CASE j <= grouped
      <4>1. PICK a \in DOMAIN groups : \E b \in DOMAIN groups[a].rows : groups[a].rows[b] = j
        BY <1>4, <3>2 DEF GroupsHoldData
      <4>2. QED
        BY <2>3, <4>1
    <3>3. QED
      BY <1>1, <1>3, <3>1, <3>2
  <2>10. \A a, c \in DOMAIN groups' :
          \A b \in DOMAIN groups'[a].rows, d \in DOMAIN groups'[c].rows :
            groups'[a].rows[b] = groups'[c].rows[d] => a = c /\ b = d
    <3> SUFFICES ASSUME NEW a \in DOMAIN groups', NEW c \in DOMAIN groups',
                        NEW b \in DOMAIN groups'[a].rows, NEW d \in DOMAIN groups'[c].rows,
                        groups'[a].rows[b] = groups'[c].rows[d]
                 PROVE  a = c /\ b = d
      OBVIOUS
    <3>1. \/ a = g /\ b = n
          \/ a \in DOMAIN groups /\ b \in DOMAIN groups[a].rows
      BY <2>3
    <3>2. \/ c = g /\ d = n
          \/ c \in DOMAIN groups /\ d \in DOMAIN groups[c].rows
      BY <2>3
    <3>3. /\ a \in DOMAIN groups /\ b \in DOMAIN groups[a].rows =>
               groups'[a].rows[b] = groups[a].rows[b] /\ groups[a].rows[b] < i
          /\ c \in DOMAIN groups /\ d \in DOMAIN groups[c].rows =>
               groups'[c].rows[d] = groups[c].rows[d] /\ groups[c].rows[d] < i
      BY <2>3, <2>5
    <3>4. groups'[g].rows[n] = i /\ ~(i < i)
      BY <1>1, <2>3
    <3>5. QED
      BY <1>4, <3>1, <3>2, <3>3, <3>4 DEF GroupsHoldData
  <2>11. GroupsHoldData'
    BY <1>1, <1>2, <2>6, <2>7, <2>8, <2>9, <2>10 DEF GroupsHoldData
  <2>12. GroupsInOrder'
    <3> SUFFICES ASSUME corrections = 0
                 PROVE  /\ \A a \in DOMAIN groups' : \A b \in DOMAIN groups'[a].rows :
                             planRows[groups'[a].rows[b]].group = groups'[a].key
                        /\ \A a, c \in DOMAIN groups' : a < c => groups'[a].key < groups'[c].key
                        /\ \A a, c \in DOMAIN groups' :
                             \A b \in DOMAIN groups'[a].rows, d \in DOMAIN groups'[c].rows :
                               Earlier(a, b, c, d) => groups'[a].rows[b] < groups'[c].rows[d]
      BY <1>2 DEF GroupsInOrder
    <3>1. /\ \A j \in Data : planRows[j].group \in Nat
          /\ \A j, k \in Data : j < k => planRows[j].group <= planRows[k].group
          /\ GroupKey(i) = planRows[i].group
      BY <1>5, ConstantsAssumption DEF SheetInv, RowsInv, GroupsGrow, GroupKey
    <3>2. /\ \A a \in DOMAIN groups : \A b \in DOMAIN groups[a].rows :
               planRows[groups[a].rows[b]].group = groups[a].key
          /\ \A a, c \in DOMAIN groups : a < c => groups[a].key < groups[c].key
          /\ \A a, c \in DOMAIN groups :
               \A b \in DOMAIN groups[a].rows, d \in DOMAIN groups[c].rows :
                 Earlier(a, b, c, d) => groups[a].rows[b] < groups[c].rows[d]
      BY <1>4 DEF GroupsInOrder
    <3>3. \A a \in DOMAIN groups' : \A b \in DOMAIN groups'[a].rows :
            planRows[groups'[a].rows[b]].group = groups'[a].key
      BY <2>3, <3>1, <3>2
    \* No entry has a key beyond that of the row just met.
    <3>4. \A a \in DOMAIN groups : groups[a].key \in Nat /\ groups[a].key <= GroupKey(i)
      <4> TAKE a \in DOMAIN groups
      <4>1. 1 \in DOMAIN groups[a].rows
        BY <1>4 DEF GroupsHoldData
      <4>2. /\ groups[a].rows[1] \in Data /\ groups[a].rows[1] < i
            /\ planRows[groups[a].rows[1]].group = groups[a].key
        BY <2>5, <3>2, <4>1
      <4>3. QED
        BY <1>5, <3>1, <4>2
    <3>5. \A a, c \in DOMAIN groups' : a < c => groups'[a].key < groups'[c].key
      <4> SUFFICES ASSUME NEW a \in DOMAIN groups', NEW c \in DOMAIN groups', a < c
                   PROVE  groups'[a].key < groups'[c].key
        OBVIOUS
      <4>1. CASE g \in DOMAIN groups
        BY <2>3, <3>2, <4>1
      <4>2. CASE g = Len(groups) + 1 /\ ~KnownKey(GroupKey(i))
        <5>1. a \in DOMAIN groups
          BY <2>3, <2>4, <4>2
        <5>2. CASE c \in DOMAIN groups
          BY <2>3, <3>2, <5>1, <5>2
        <5>3. CASE c = g
          <6>1. groups[a].key # GroupKey(i)
            BY <4>2, <5>1 DEF KnownKey
          <6>2. GroupKey(i) \in Nat /\ groups[a].key \in Nat /\ groups[a].key <= GroupKey(i)
            BY <1>5, <3>1, <3>4, <5>1
          <6>3. QED
            BY <2>3, <5>1, <5>3, <6>1, <6>2
        <5>4. QED
          BY <2>3, <5>2, <5>3
      <4>3. QED
        BY <2>3, <4>1, <4>2
    <3>6. \A a, c \in DOMAIN groups' :
            \A b \in DOMAIN groups'[a].rows, d \in DOMAIN groups'[c].rows :
              Earlier(a, b, c, d) => groups'[a].rows[b] < groups'[c].rows[d]
      <4> SUFFICES ASSUME NEW a \in DOMAIN groups', NEW c \in DOMAIN groups',
                          NEW b \in DOMAIN groups'[a].rows, NEW d \in DOMAIN groups'[c].rows,
                          Earlier(a, b, c, d)
                   PROVE  groups'[a].rows[b] < groups'[c].rows[d]
        OBVIOUS
      <4>1. /\ (a = g /\ b = n) \/ (a \in DOMAIN groups /\ b \in DOMAIN groups[a].rows)
            /\ (c = g /\ d = n) \/ (c \in DOMAIN groups /\ d \in DOMAIN groups[c].rows)
            /\ a \in Nat /\ b \in Nat /\ c \in Nat /\ d \in Nat
        BY <2>3, <2>4
      <4>2. CASE a \in DOMAIN groups /\ b \in DOMAIN groups[a].rows
        <5>1. groups'[a].rows[b] = groups[a].rows[b] /\ groups[a].rows[b] < i
          BY <2>3, <2>5, <4>2
        <5>2. CASE c = g /\ d = n
          BY <2>3, <5>1, <5>2
        <5>3. CASE c \in DOMAIN groups /\ d \in DOMAIN groups[c].rows
          BY <2>3, <3>2, <4>2, <5>1, <5>3
        <5>4. QED
          BY <4>1, <5>2, <5>3
      <4>3. CASE a = g /\ b = n
        <5>1. ~(c = g /\ n < d)
          BY <2>3, <2>4, <4>1
        <5>2. g < c /\ c \in DOMAIN groups
          BY <2>3, <2>4, <4>1, <4>3, <5>1 DEF Earlier
        <5>3. g \in DOMAIN groups
          BY <2>3, <2>4, <5>2
        <5>4. groups[g].key = GroupKey(i) /\ groups[g].key < groups[c].key
          BY <2>3, <3>2, <5>2, <5>3
        <5>5. groups[c].key \in Nat /\ groups[c].key <= GroupKey(i) /\ GroupKey(i) \in Nat
          BY <1>5, <3>1, <3>4, <5>2
        <5>6. QED
          BY <5>4, <5>5
      <4>4. QED
        BY <4>1, <4>2, <4>3
    <3>7. QED
      BY <3>3, <3>5, <3>6
  <2>13. QED
    BY <2>1, <2>11, <2>12 DEF GroupsInv
<1>6. ASSUME i \notin Data
      PROVE  groups' \in Seq(Entry) /\ GroupsInv'
  <2>1. groups' = groups
    BY <1>1, <1>6
  <2>2. \A j \in Data : j <= i => j <= grouped
    BY <1>1, <1>3, <1>6
  <2>3. \A j \in Data : j <= grouped => j <= i
    BY <1>1, <1>3
  <2>4. GroupsHoldData'
    BY <1>1, <1>2, <1>4, <2>1, <2>2, <2>3 DEF GroupsHoldData
  <2>5. QED
    BY <1>1, <1>2, <1>4, <2>1, <2>4 DEF GroupsInv, GroupsInOrder
<1>7. groups' \in Seq(Entry) /\ GroupsInv'
  BY <1>5, <1>6
<1>8. EmittedInv'
  <2>1. /\ \A a \in DOMAIN groups' : 1 \in DOMAIN groups'[a].rows
        /\ DOMAIN groups' = 1 .. Len(groups') /\ Len(groups') \in Nat
    BY <1>7 DEF GroupsInv, GroupsHoldData
  <2>2. CursorInPlace'
    BY <1>1, <2>1 DEF CursorInPlace, RowsLeft
  <2>3. \A a \in DOMAIN groups' : \A b \in DOMAIN groups'[a].rows : ~BeforeCursor(a, b)'
    <3>1. \A a \in DOMAIN groups' : groups'[a].rows \in Seq(Nat)
      <4>1. \A a \in DOMAIN groups' : groups'[a] \in Entry
        BY <1>7
      <4>2. QED
        BY <4>1 DEF Entry
    <3>2. \A a \in DOMAIN groups' : \A b \in DOMAIN groups'[a].rows :
            a \in Nat /\ b \in Nat /\ ~(a < 1) /\ ~(b < 1)
      BY <2>1, <3>1
    <3>3. QED
      BY <1>1, <3>2 DEF BeforeCursor, Earlier
  <2>4. QED
    BY <1>1, <1>2, <2>2, <2>3 DEF EmittedInv, RowsEmitted, RowsInOrder, BlocksEmitted, SheetEmitted
<1>9. QED
  BY <1>1, <1>7, <1>8, ApplyKeepsInv

\* The second loop: the row at the cursor has not been emitted, and comes after all
\* rows that have.
LEMMA EmitRowKeepsInv ==
  ASSUME SheetInv, EmitRow
  PROVE  SheetInv'
<1> DEFINE g == cursor.group
           r == cursor.row
           i == groups[g].rows[r]
           pli == RowPli(i)
           n == Len(plis) + 1
<1>1. /\ phase = "apply" /\ mode = "ROW_PER_PLI" /\ grouped = Len(planRows)
      /\ g \in DOMAIN groups
      /\ UNCHANGED <<planOnly, phase, grouped, groups>>
      /\ plis' = Append(plis, pli) /\ cursor' = NextCursor
      /\ plis \in Seq(Block) /\ groups \in Seq(Entry) /\ grouped \in 0 .. Len(planRows)
      /\ cursor \in [group: Nat, row: Nat]
  BY DEF EmitRow, RowsLeft, RowAtCursor, SheetInv, TypeOK
<1>2. UNCHANGED <<mode, planRows, corrections>> /\ Data' = Data
  BY <1>1 DEF planOnly, Data, RowsWith
<1>3. /\ GroupsHoldData /\ GroupsInOrder /\ CursorInPlace /\ RowsEmitted /\ RowsInOrder
  BY DEF SheetInv, GroupsInv, EmittedInv
<1>4. /\ r \in DOMAIN groups[g].rows /\ DOMAIN groups = 1 .. Len(groups) /\ Len(groups) \in Nat
      /\ \A a \in DOMAIN groups : /\ DOMAIN groups[a].rows = 1 .. Len(groups[a].rows)
                                   /\ Len(groups[a].rows) \in Nat
                                   /\ 1 \in DOMAIN groups[a].rows
  <2>1. \A a \in DOMAIN groups : groups[a].rows \in Seq(Nat)
    <3>1. \A a \in DOMAIN groups : groups[a] \in Entry
      BY <1>1
    <3>2. QED
      BY <3>1 DEF Entry
  <2>2. r \in DOMAIN groups[g].rows
    BY <1>1, <1>3 DEF CursorInPlace, RowsLeft
  <2>3. QED
    BY <1>1, <1>3, <2>1, <2>2 DEF GroupsHoldData
<1>5. i \in Data /\ i \in Nat /\ pli \in Block /\ pli.first = i /\ pli.labels = {}
  <2>1. i \in Data
    BY <1>1, <1>3, <1>4 DEF GroupsHoldData
  <2>2. \A j \in Data : planRows[j].idx = j /\ j \in Nat
    BY DEF SheetInv, RowsInv, RowsNumbered, Data, RowsWith, Rows
  <2>3. QED
    BY <2>1, <2>2 DEF RowPli, Block
<1> HIDE DEF pli, i
<1>6. /\ plis' \in Seq(Block) /\ DOMAIN plis' = DOMAIN plis \cup {n}
      /\ DOMAIN plis = 1 .. n - 1 /\ n \in Nat /\ plis'[n] = pli
      /\ \A k \in DOMAIN plis : plis'[k] = plis[k]
  BY <1>1, <1>5
<1>7. Emitted' = Emitted \cup {i}
  BY <1>5, <1>6 DEF Emitted
<1>8. /\ cursor' \in [group: Nat, row: Nat] /\ cursor'.group \in 1 .. Len(groups) + 1
      /\ cursor'.group \in DOMAIN groups => cursor'.row \in DOMAIN groups[cursor'.group].rows
      /\ cursor'.group \notin DOMAIN groups => cursor'.row = 1
      /\ \A a \in DOMAIN groups : \A b \in DOMAIN groups[a].rows :
           Earlier(a, b, cursor'.group, cursor'.row) <=> BeforeCursor(a, b) \/ (a = g /\ b = r)
  <2>1. CASE r < Len(groups[g].rows)
    <3>1. cursor' = [cursor EXCEPT !.row = r + 1]
      BY <1>1, <2>1 DEF NextCursor
    <3>2. cursor' \in [group: Nat, row: Nat] /\ cursor'.group = g /\ cursor'.row = r + 1
      <4>1. cursor \in [group: Nat, row: Nat] /\ r + 1 \in Nat
        BY <1>1
      <4>2. QED
        BY <3>1, <4>1
    <3>3. g \in DOMAIN groups /\ g \in Nat /\ r \in Nat /\ r + 1 \in DOMAIN groups[g].rows
      BY <1>1, <1>4, <2>1
    <3>4. \A a \in DOMAIN groups : \A b \in DOMAIN groups[a].rows : a \in Nat /\ b \in Nat
      BY <1>4
    <3>5. \A a \in DOMAIN groups : \A b \in DOMAIN groups[a].rows :
            Earlier(a, b, cursor'.group, cursor'.row) <=> BeforeCursor(a, b) \/ (a = g /\ b = r)
      BY <3>2, <3>3, <3>4 DEF BeforeCursor, Earlier
    <3>6. QED
      BY <1>4, <3>2, <3>3, <3>5
  <2>2. CASE ~(r < Len(groups[g].rows))
    <3>1. cursor' = [group |-> g + 1, row |-> 1]
      BY <1>1, <2>2 DEF NextCursor
    <3>2. cursor' \in [group: Nat, row: Nat] /\ cursor'.group = g + 1 /\ cursor'.row = 1
      BY <1>1, <3>1
    <3>3. g \in Nat /\ r \in Nat /\ r = Len(groups[g].rows)
      BY <1>1, <1>4, <2>2
    <3>4. \A a \in DOMAIN groups : \A b \in DOMAIN groups[a].rows :
            /\ a \in Nat /\ b \in Nat /\ b >= 1
            /\ a = g => b <= r
      BY <1>4, <3>3
    <3>5. QED
      BY <1>1, <1>4, <3>2, <3>3, <3>4 DEF BeforeCursor, Earlier
  <2>3. QED
    BY <2>1, <2>2
<1>9. GroupsInv'
  BY <1>1, <1>2, GroupsStay DEF SheetInv
<1>10. CursorInPlace'
  BY <1>1, <1>2, <1>8 DEF CursorInPlace, RowsLeft
<1>11. /\ \A k \in DOMAIN plis :
            /\ plis[k].labels = {}
            /\ \E a \in DOMAIN groups : \E b \in DOMAIN groups[a].rows :
                 BeforeCursor(a, b) /\ plis[k].first = groups[a].rows[b]
       /\ \A a \in DOMAIN groups : \A b \in DOMAIN groups[a].rows :
            BeforeCursor(a, b) => groups[a].rows[b] \in Emitted
       /\ \A k, l \in DOMAIN plis : plis[k].first = plis[l].first => k = l
  BY <1>1, <1>3 DEF RowsEmitted
<1>12. \A k \in DOMAIN plis : plis[k].first # i
  <2> TAKE k \in DOMAIN plis
  <2>1. PICK a \in DOMAIN groups : \E b \in DOMAIN groups[a].rows :
          BeforeCursor(a, b) /\ plis[k].first = groups[a].rows[b]
    BY <1>11
  <2>2. PICK b \in DOMAIN groups[a].rows : BeforeCursor(a, b) /\ plis[k].first = groups[a].rows[b]
    BY <2>1
  <2>3. ~(a = g /\ b = r)
    BY <1>1, <1>4, <2>2 DEF BeforeCursor, Earlier
  <2>4. QED
    BY <1>1, <1>3, <1>4, <2>2, <2>3 DEF GroupsHoldData, i
<1>13. RowsEmitted'
  <2>1. \A k \in DOMAIN plis' :
          /\ plis'[k].labels = {}
          /\ \E a \in DOMAIN groups : \E b \in DOMAIN groups[a].rows :
               /\ Earlier(a, b, cursor'.group, cursor'.row)
               /\ plis'[k].first = groups[a].rows[b]
    <3> TAKE k \in DOMAIN plis'
    <3>1. CASE k = n
      BY <1>1, <1>4, <1>5, <1>6, <1>8, <3>1 DEF i
    <3>2. CASE k \in DOMAIN plis
      BY <1>6, <1>8, <1>11, <3>2
    <3>3. QED
      BY <1>6, <3>1, <3>2
  <2>2. \A a \in DOMAIN groups : \A b \in DOMAIN groups[a].rows :
          Earlier(a, b, cursor'.group, cursor'.row) => groups[a].rows[b] \in Emitted'
    BY <1>7, <1>8, <1>11 DEF i
  <2>3. \A k, l \in DOMAIN plis' : plis'[k].first = plis'[l].first => k = l
    BY <1>5, <1>6, <1>11, <1>12
  <2>4. groups' = groups /\ phase' = "apply" /\ \A a, b : BeforeCursor(a, b)' <=> Earlier(a, b, cursor'.group, cursor'.row)
    BY <1>1 DEF BeforeCursor, Earlier
  <2>5. QED
    BY <2>1, <2>2, <2>3, <2>4 DEF RowsEmitted
<1>14. RowsInOrder'
  <2> SUFFICES ASSUME corrections = 0
               PROVE  \A k, l \in DOMAIN plis' : k < l => plis'[k].first < plis'[l].first
    BY <1>2 DEF RowsInOrder
  <2>1. \A k \in DOMAIN plis : plis[k].first < i
    <3> TAKE k \in DOMAIN plis
    <3>1. PICK a \in DOMAIN groups : \E b \in DOMAIN groups[a].rows :
            BeforeCursor(a, b) /\ plis[k].first = groups[a].rows[b]
      BY <1>11
    <3>2. QED
      BY <1>1, <1>3, <1>4, <3>1 DEF GroupsInOrder, BeforeCursor, i
  <2>2. \A k, l \in DOMAIN plis : k < l => plis[k].first < plis[l].first
    BY <1>1, <1>3 DEF RowsInOrder
  <2>3. QED
    BY <1>5, <1>6, <2>1, <2>2
<1>15. EmittedInv'
  BY <1>1, <1>2, <1>10, <1>13, <1>14 DEF EmittedInv, BlocksEmitted, SheetEmitted
<1>16. QED
  BY <1>1, <1>6, <1>8, <1>9, <1>15, ApplyKeepsInv

LEMMA EmitBlockKeepsInv ==
  ASSUME SheetInv, EmitBlock
  PROVE  SheetInv'
<1>1. /\ phase = "apply" /\ mode = "SECTION_PER_PLI"
      /\ UNCHANGED <<planOnly, phase, grouped, groups, cursor>>
      /\ Len(plis) < Len(blocks) /\ plis' = Append(plis, blocks[Len(plis) + 1])
      /\ plis \in Seq(Block) /\ blocks \in Seq(Block)
      /\ \A k \in DOMAIN plis : plis[k] = blocks[k]
  BY DEF EmitBlock, SheetInv, TypeOK, EmittedInv, BlocksEmitted
<1>2. UNCHANGED <<mode, blocks, planRows, corrections>>
  BY <1>1 DEF planOnly
<1>3. blocks[Len(plis) + 1] \in Block
  BY <1>1
<1>4. /\ plis' \in Seq(Block) /\ Len(plis') <= Len(blocks)
      /\ \A k \in DOMAIN plis' : plis'[k] = blocks[k]
  BY <1>1, <1>3
<1>5. GroupsInv' /\ CursorInPlace'
  BY <1>1, <1>2, GroupsStay DEF SheetInv, EmittedInv, CursorInPlace, RowsLeft
<1>6. EmittedInv'
  BY <1>1, <1>2, <1>4, <1>5 DEF EmittedInv, RowsEmitted, RowsInOrder, BlocksEmitted, SheetEmitted
<1>7. QED
  BY <1>1, <1>2, <1>4, <1>5, <1>6, ApplyKeepsInv DEF SheetInv, TypeOK

LEMMA EmitSheetKeepsInv ==
  ASSUME SheetInv, EmitSheet
  PROVE  SheetInv'
<1> DEFINE pli == [first |-> 1, last |-> 0, labels |-> kvRows]
<1>1. /\ phase = "apply" /\ mode = "SHEET_IS_PLI"
      /\ UNCHANGED <<planOnly, phase, grouped, groups, cursor>>
      /\ plis' = <<pli>>
  BY DEF EmitSheet
<1>2. UNCHANGED <<mode, kvRows, planRows, corrections>>
  BY <1>1 DEF planOnly
<1>3. pli \in Block /\ pli.first = 1 /\ pli.labels = kvRows
  BY DEF Block, SheetInv, TypeOK
<1> HIDE DEF pli
<1>4. plis' \in Seq(Block) /\ \A k \in DOMAIN plis' : plis'[k] = pli
  BY <1>1, <1>3
<1>5. GroupsInv' /\ CursorInPlace'
  BY <1>1, <1>2, GroupsStay DEF SheetInv, EmittedInv, CursorInPlace, RowsLeft
<1>6. EmittedInv'
  BY <1>1, <1>2, <1>3, <1>4, <1>5 DEF EmittedInv, RowsEmitted, RowsInOrder, BlocksEmitted, SheetEmitted
<1>7. QED
  BY <1>1, <1>2, <1>4, <1>5, <1>6, ApplyKeepsInv DEF SheetInv, TypeOK

\* The first and the last step of apply_plan emit nothing.
LEMMA BoundaryKeepsInv ==
  ASSUME SheetInv, StartApply \/ AllEmitted
  PROVE  SheetInv'
<1>1. /\ UNCHANGED <<planOnly, applyVars>> /\ phase \in {"planned", "apply"}
      /\ phase' \in {"apply", "applied"}
      /\ phase' = "applied" =>
           CASE mode = "ROW_PER_PLI" -> grouped = Len(planRows) /\ ~RowsLeft
             [] mode = "SECTION_PER_PLI" -> Len(plis) = Len(blocks)
             [] mode = "SHEET_IS_PLI" -> Len(plis) = 1
  BY DEF StartApply, AllEmitted
<1>2. UNCHANGED <<mode, kvRows, blocks, planRows, corrections, grouped, groups, cursor, plis>>
  BY <1>1 DEF planOnly, applyVars
<1>3. GroupsInv'
  BY <1>2, GroupsStay DEF SheetInv
<1>4. Emitted' = Emitted /\ RowsLeft' = RowsLeft
  BY <1>2 DEF Emitted, RowsLeft
<1>5. /\ phase' = "applied" /\ mode = "ROW_PER_PLI" => grouped = Len(planRows) /\ ~RowsLeft
      /\ phase' = "applied" /\ mode = "SECTION_PER_PLI" => Len(plis) = Len(blocks)
      /\ phase' = "applied" /\ mode = "SHEET_IS_PLI" => Len(plis) = 1
  BY <1>1
<1>6. CursorInPlace' /\ RowsEmitted' /\ RowsInOrder'
  BY <1>2, <1>4, <1>5 DEF SheetInv, EmittedInv, CursorInPlace, RowsEmitted, RowsInOrder, BeforeCursor
<1>7. BlocksEmitted' /\ SheetEmitted'
  BY <1>2, <1>5 DEF SheetInv, EmittedInv, BlocksEmitted, SheetEmitted
<1>8. QED
  BY <1>1, <1>2, <1>3, <1>6, <1>7, ApplyKeepsInv DEF EmittedInv, SheetInv, TypeOK

LEMMA StutterKeepsInv ==
  ASSUME SheetInv, UNCHANGED vars
  PROVE  SheetInv'
<1>1. UNCHANGED <<scanVars, mode, phase, kvRows, blocks, planRows, headerRows, labelRow,
                  corrections, grouped, groups, cursor, plis>>
  BY DEF vars, planVars, applyVars
<1>2. ScanInv' /\ ScanTypeOK' /\ AnchorsHaveText'
  BY <1>1, ScanStays
<1>3. TypeOK'
  BY <1>1, <1>2 DEF SheetInv, TypeOK
<1>4. RowsInv' /\ BlocksInv' /\ GroupsInv'
  BY <1>1, RowsStay, BlocksStay, GroupsStay DEF SheetInv, scanVars
<1>5. Emitted' = Emitted /\ RowsLeft' = RowsLeft
  BY <1>1 DEF Emitted, RowsLeft
<1>6. CursorInPlace' /\ RowsEmitted' /\ RowsInOrder'
  BY <1>1, <1>5 DEF SheetInv, EmittedInv, CursorInPlace, RowsEmitted, RowsInOrder, BeforeCursor
<1>7. EmittedInv'
  BY <1>1, <1>6 DEF SheetInv, EmittedInv, BlocksEmitted, SheetEmitted
<1>8. NothingYet' /\ ModesApart'
  BY <1>1, RemainingStays DEF SheetInv, NothingYet, ModesApart, scanVars
<1>9. QED
  BY <1>2, <1>3, <1>4, <1>7, <1>8 DEF SheetInv

LEMMA SheetStep == SheetInv /\ [Next]_vars => SheetInv'
<1> SUFFICES ASSUME SheetInv, [Next]_vars PROVE SheetInv'
  OBVIOUS
<1>1. CASE Scan
  BY <1>1, ScanKeepsInv
<1>2. CASE AssemblePlan \/ BlocksDone
  BY <1>2, FinishKeepsInv DEF AssemblePlan, BlocksDone
<1>3. CASE DetectKvAnchors
  BY <1>3, DetectKeepsInv
<1>4. CASE AddBlock
  BY <1>4, AddBlockKeepsInv
<1>5. CASE Correct
  BY <1>5, CorrectKeepsInv DEF Correct
<1>6. CASE GroupRow \/ EmitRow \/ EmitBlock \/ EmitSheet
  BY <1>6, GroupRowKeepsInv, EmitRowKeepsInv, EmitBlockKeepsInv, EmitSheetKeepsInv
<1>7. CASE StartApply \/ AllEmitted
  BY <1>7, BoundaryKeepsInv
<1>8. CASE UNCHANGED vars
  BY <1>8, StutterKeepsInv
<1>9. QED
  BY <1>1, <1>2, <1>3, <1>4, <1>5, <1>6, <1>7, <1>8 DEF Next

LEMMA SheetInvariant == Spec => []SheetInv
BY SheetInit, SheetStep, PTL DEF Spec

-----------------------------------------------------------------------------
\* Every state from the scan to the emitted PLIs is well formed, for sheets and
\* verdicts of any size.
THEOREM SheetTypes == Spec => []TypeOK
<1>1. SheetInv => TypeOK
  BY DEF SheetInv
<1>2. QED
  BY <1>1, SheetInvariant, PTL

\* Any two blocks are apart in the order the tier-1 check compares them.
LEMMA BlocksAreApart ==
  ASSUME SheetInv
  PROVE  BlocksApart(blocks)
<1> SUFFICES ASSUME NEW i \in DOMAIN blocks, NEW j \in DOMAIN blocks, SortedBefore(blocks, i, j)
             PROVE  blocks[i].last < blocks[j].first
  BY DEF BlocksApart, Adjacent
<1>1. /\ i \in Nat /\ j \in Nat
      /\ \A k \in DOMAIN blocks : blocks[k] \in Block
  BY DEF SheetInv, TypeOK
<1>2. /\ blocks[j].first \in Nat /\ blocks[j].last \in Nat /\ blocks[j].first <= blocks[j].last
      /\ blocks[i].first \in Nat
  BY <1>1 DEF Block, SheetInv, BlocksInv, BlocksAreSections, IsSection
<1>3. CASE i < j
  BY <1>3 DEF SheetInv, BlocksInv, BlocksDisjoint
<1>4. CASE j < i
  <2>1. blocks[j].last < blocks[i].first
    BY <1>4 DEF SheetInv, BlocksInv, BlocksDisjoint
  <2>2. QED
    BY <1>1, <1>2, <1>4, <2>1 DEF SortedBefore
<1>5. CASE i = j
  BY <1>1, <1>2, <1>5 DEF SortedBefore
<1>6. QED
  BY <1>1, <1>3, <1>4, <1>5

\* A plan is read through no other channel than its mode's: blocks are made for
\* section sheets only, and labels and key/value anchors kept for the other two.
LEMMA PlanHasItsChannel ==
  ASSUME SheetInv, NEW labels \in BOOLEAN
  PROVE  OneIdentityChannel(PlanWith(labels)) /\ ModeHasChannel(PlanWith(labels))
<1> DEFINE p == PlanWith(labels)
<1>1. /\ p.labels = (labels /\ mode = "ROW_PER_PLI") /\ p.blocks = blocks /\ p.mode = mode
      /\ p.kvs = (kvRows # {} /\ mode = "SHEET_IS_PLI")
  BY DEF PlanWith
<1>2. mode \in PliModes /\ (mode # "SECTION_PER_PLI" => DOMAIN blocks = {})
  BY DEF SheetInv, TypeOK, ModesApart, PliModes
<1> HIDE DEF p
<1>3. Channels(p) \subseteq {mode}
  BY <1>1, <1>2 DEF Channels, PliModes
<1>4. OneIdentityChannel(p) /\ ModeHasChannel(p)
  BY <1>1, <1>3 DEF OneIdentityChannel, ModeHasChannel
<1>5. QED
  BY <1>4 DEF p

\* The planner never hands over a plan with a tier-1 ERROR, on any sheet and in any
\* mode: references hold, no row comes twice, blocks are apart and the plan has no
\* other channel than its mode's.  Of the two warnings about the header band, data
\* above it never occurs, and a gap in it only over rows that are no products.
THEOREM PlanAlwaysPasses == Spec => []PlanPasses
<1>1. SheetInv => PlanPasses
  <2> SUFFICES ASSUME SheetInv, corrections = 0, NEW labels \in BOOLEAN
               PROVE  /\ IsSound(PlanWith(labels)) /\ NoDataAbove(headerRows, planRows)
                      /\ ~HeadersContiguous(headerRows) => GapInBand
    BY DEF PlanPasses
  <2>1. /\ DOMAIN planRows \subseteq Rows /\ headerRows \subseteq Rows
        /\ \A i \in DOMAIN planRows : planRows[i].idx = i
    BY DEF SheetInv, RowsInv, RowsNumbered
  <2>2. NoDataAbove(headerRows, planRows)
    <3>1. \A i \in Data, h \in headerRows : h < i
      BY <2>1, ConstantsAssumption DEF SheetInv, RowsInv, NoDataAboveHeaders, Rows
    <3>2. QED
      BY <2>1, <3>1 DEF NoDataAbove, Data, RowsWith, DataRoles, Rows
  <2>3. ReferenceIntegrity(planRows)
    BY <2>1 DEF SheetInv, RowsInv, ReferencesSound, ReferenceIntegrity, AnchorIdxs, RowsWith
  <2>4. RowUniqueness(planRows)
    BY <2>1 DEF RowUniqueness
  <2>5. ASSUME NEW h \in headerRows, NEW k \in headerRows, NEW i \in h .. k, i \notin headerRows
        PROVE  GapInBand
    <3>1. /\ headerRows = RowsWith(planRows, {"header"}) /\ h \in Nat /\ k \in Nat
          /\ DOMAIN planRows = 1 .. Len(planRows) /\ Len(planRows) \in Nat
      BY <2>1 DEF SheetInv, TypeOK, RowsInv, HeadersMarked, Rows
    <3>2. /\ i \in DOMAIN planRows /\ h < i /\ i < k /\ planRows[i].role # "header"
      BY <2>5, <3>1 DEF RowsWith
    <3>3. i \notin Data
      BY <2>1, <3>1, <3>2, ConstantsAssumption DEF SheetInv, RowsInv, NoDataAboveHeaders, Rows
    <3>4. QED
      BY <3>2, <3>3 DEF GapInBand
  <2>6. ~HeadersContiguous(headerRows) => GapInBand
    BY <2>5 DEF HeadersContiguous
  <2>7. QED
    BY <2>2, <2>3, <2>4, <2>6, BlocksAreApart, PlanHasItsChannel DEF IsSound, PlanWith
<1>2. QED
  BY <1>1, SheetInvariant, PTL

\* Each data row of a plan becomes exactly one PLI, whatever roles and anchors the
\* reviewer gave its rows and whatever keys collide (_apply_row_per_pli).
THEOREM DataRowsBecomePlis == Spec => []EachDataRowOnePli
<1>1. SheetInv => EachDataRowOnePli
  <2> SUFFICES ASSUME SheetInv, phase = "applied", mode = "ROW_PER_PLI"
               PROVE  /\ \A k, l \in DOMAIN plis : plis[k].first = plis[l].first => k = l
                      /\ Emitted = {planRows[i].idx : i \in Data}
    BY DEF EachDataRowOnePli
  <2>1. /\ \A k \in DOMAIN plis :
             \E a \in DOMAIN groups : \E b \in DOMAIN groups[a].rows : plis[k].first = groups[a].rows[b]
        /\ \A a \in DOMAIN groups : \A b \in DOMAIN groups[a].rows :
             BeforeCursor(a, b) => groups[a].rows[b] \in Emitted
        /\ \A k, l \in DOMAIN plis : plis[k].first = plis[l].first => k = l
        /\ grouped = Len(planRows) /\ ~RowsLeft
    BY DEF SheetInv, EmittedInv, RowsEmitted
  <2>2. \A i \in Data : planRows[i].idx = i /\ i <= Len(planRows)
    BY DEF SheetInv, TypeOK, RowsInv, RowsNumbered, Data, RowsWith
  <2>3. cursor.group = Len(groups) + 1
    <3>1. cursor.group \in 1 .. Len(groups) + 1 /\ groups \in Seq(Entry)
      BY DEF SheetInv, TypeOK, EmittedInv, CursorInPlace
    <3>2. cursor.group \notin 1 .. Len(groups)
      BY <2>1, <3>1 DEF RowsLeft
    <3>3. QED
      BY <3>1, <3>2
  <2>4. \A a \in DOMAIN groups : \A b \in DOMAIN groups[a].rows :
          groups[a].rows[b] \in Emitted /\ groups[a].rows[b] \in Data
    <3>1. \A a \in DOMAIN groups : a < cursor.group
      BY <2>3 DEF SheetInv, TypeOK
    <3>2. QED
      BY <2>1, <3>1 DEF BeforeCursor, Earlier, SheetInv, GroupsInv, GroupsHoldData
  <2>5. \A i \in Data : i \in Emitted
    BY <2>1, <2>2, <2>4 DEF SheetInv, GroupsInv, GroupsHoldData
  <2>6. \A k \in DOMAIN plis : plis[k].first \in Data
    BY <2>1, <2>4
  <2>7. QED
    BY <2>1, <2>2, <2>5, <2>6 DEF Emitted
<1>2. QED
  BY <1>1, SheetInvariant, PTL

\* Products come out in sheet order and from below the header band, the row that
\* gives the labels included, as long as no row was corrected.
THEOREM PlisBelowHeaders == Spec => []PlisFollowHeaders
<1>1. SheetInv => PlisFollowHeaders
  <2> SUFFICES ASSUME SheetInv, corrections = 0, mode = "ROW_PER_PLI"
               PROVE  /\ \A i, j \in DOMAIN plis : i < j => plis[i].first < plis[j].first
                      /\ \A k \in DOMAIN plis :
                           \A h \in headerRows \cup ({labelRow} \ {None}) : h < plis[k].first
    BY DEF PlisFollowHeaders
  <2>1. \A k \in DOMAIN plis : plis[k].first \in Data
    BY DEF SheetInv, EmittedInv, RowsEmitted, GroupsInv, GroupsHoldData
  <2>2. QED
    BY <2>1 DEF SheetInv, EmittedInv, RowsInOrder, RowsInv, NoDataAboveHeaders
<1>2. QED
  BY <1>1, SheetInvariant, PTL

\* A block goes from its ANCHOR row to the next ANCHOR, gap or end of the sheet,
\* except for a last block that no gap follows (segment_blocks, lines 43-50).
THEOREM BlocksFollowAnchors == Spec => []BlocksAreSections
<1>1. SheetInv => BlocksAreSections
  BY DEF SheetInv, BlocksInv
<1>2. QED
  BY <1>1, SheetInvariant, PTL

\* No PLI is read from a label that lies under the ANCHOR row of another.
THEOREM LabelsStayWithTheirProduct == Spec => []LabelsBelongToNearestAnchor
<1>1. SheetInv => LabelsBelongToNearestAnchor
  <2> SUFFICES ASSUME SheetInv, NEW k \in DOMAIN plis, NEW r \in plis[k].labels
               PROVE  /\ r \in kvRows /\ plis[k].first <= r
                      /\ \A a \in Anchors : a <= r => a <= plis[k].first
    BY DEF LabelsBelongToNearestAnchor
  <2>1. mode \in PliModes /\ kvRows \subseteq Rows /\ blocks \in Seq(Block)
    BY DEF SheetInv, TypeOK
  <2>2. CASE mode = "ROW_PER_PLI"
    BY <2>2 DEF SheetInv, EmittedInv, RowsEmitted
  <2>3. CASE mode = "SHEET_IS_PLI"
    <3>1. plis[k].first = 1 /\ plis[k].labels = kvRows
      BY <2>3 DEF SheetInv, EmittedInv, SheetEmitted
    <3>2. Anchors = {}
      BY <2>3 DEF SheetInv, ModesApart, Anchors
    <3>3. r \in kvRows
      BY <3>1
    <3>4. 1 <= r
      BY <2>1, <3>3, ConstantsAssumption DEF Rows
    <3>5. QED
      BY <3>1, <3>2, <3>3, <3>4
  <2>4. CASE mode = "SECTION_PER_PLI"
    <3>1. k \in DOMAIN blocks /\ plis[k] = blocks[k]
      BY <2>1, <2>4 DEF SheetInv, TypeOK, EmittedInv, BlocksEmitted
    <3>2. blocks[k] \in Block
      BY <2>1, <3>1
    <3>3. r \in kvRows /\ plis[k].first <= r /\ r <= plis[k].last /\ r \in Rows
      BY <2>1, <3>1 DEF SheetInv, BlocksInv, BlocksHoldTheirLabels, LabelsWithin
    <3>4. ASSUME NEW a \in Anchors, a <= r, a > plis[k].first
          PROVE  FALSE
      <4>1. a \in plis[k].first + 1 .. plis[k].last
        BY <3>1, <3>2, <3>3, <3>4 DEF Block, Rows, SheetInv, AnchorsHaveText
      <4>2. ~EndsSection(a)
        BY <3>1, <4>1 DEF SheetInv, BlocksInv, BlocksAreSections, IsSection
      <4>3. QED
        BY <4>2 DEF EndsSection
    <3>5. QED
      BY <3>1, <3>2, <3>3, <3>4 DEF Block, SheetInv, AnchorsHaveText, Rows
  <2>5. QED
    BY <2>1, <2>2, <2>3, <2>4 DEF PliModes
<1>2. QED
  BY <1>1, SheetInvariant, PTL

\* A section sheet that has been applied has one PLI for each ANCHOR row, in sheet
\* order, and a sheet that is one product has one: the safety half of
\* EveryAnchorEmitted.
THEOREM AppliedSheetsAreComplete == Spec => [](phase = "applied" => OnePliPerProduct)
<1>1. SheetInv => (phase = "applied" => OnePliPerProduct)
  <2> SUFFICES ASSUME SheetInv, phase = "applied" PROVE OnePliPerProduct
    OBVIOUS
  <2>1. ASSUME mode = "SECTION_PER_PLI"
        PROVE  /\ Emitted = Anchors
               /\ \A i, j \in DOMAIN plis : i < j => plis[i].first < plis[j].first
    <3>1. /\ blocks \in Seq(Block) /\ plis \in Seq(Block) /\ Len(plis) = Len(blocks)
          /\ \A k \in DOMAIN plis : plis[k] = blocks[k]
      BY <2>1 DEF SheetInv, TypeOK, EmittedInv, BlocksEmitted
    <3>2. DOMAIN plis = DOMAIN blocks /\ \A k \in DOMAIN blocks : blocks[k] \in Block
      BY <3>1
    <3>3. Remaining = {}
      BY <2>1 DEF SheetInv, NothingYet
    <3>4. Emitted = Anchors
      BY <3>1, <3>2, <3>3 DEF Emitted, SheetInv, BlocksInv, NoAnchorSkipped, BlocksAreSections, IsSection
    <3>5. ASSUME NEW i \in DOMAIN blocks, NEW j \in DOMAIN blocks, i < j
          PROVE  blocks[i].first < blocks[j].first
      <4>1. blocks[i].first <= blocks[i].last /\ blocks[i].last < blocks[j].first
        BY <3>5 DEF SheetInv, BlocksInv, BlocksAreSections, IsSection, BlocksDisjoint
      <4>2. QED
        BY <3>2, <4>1 DEF Block
    <3>6. QED
      BY <3>1, <3>2, <3>4, <3>5
  <2>2. mode = "SHEET_IS_PLI" => Len(plis) = 1
    BY DEF SheetInv, EmittedInv, SheetEmitted
  <2>3. QED
    BY <2>1, <2>2 DEF OnePliPerProduct
<1>2. QED
  BY <1>1, SheetInvariant, PTL

\* Whatever is done with a sheet, its rows change by the scan alone: every theorem
\* about the scan holds of the sheets that are planned, corrected and applied.
THEOREM PlannerKeepsScan == Spec => ScanSpec
<1>1. Init => ScanInit
  BY DEF Init
<1>2. [Next]_vars => [ScanNext]_scanVars
  <2> SUFFICES ASSUME [Next]_vars PROVE ScanNext \/ UNCHANGED scanVars
    OBVIOUS
  <2>1. CASE Scan
    BY <2>1 DEF Scan
  <2>2. CASE AssemblePlan \/ BlocksDone
    BY <2>2 DEF AssemblePlan, BlocksDone, FinishPlan
  <2>3. CASE DetectKvAnchors \/ AddBlock
    BY <2>3 DEF DetectKvAnchors, AddBlock
  <2>4. CASE Correct
    BY <2>4 DEF Correct, CorrectRow
  <2>5. CASE StartApply \/ GroupRow \/ EmitRow \/ EmitBlock \/ EmitSheet \/ AllEmitted
    BY <2>5 DEF StartApply, GroupRow, EmitRow, EmitBlock, EmitSheet, AllEmitted, planOnly
  <2>6. CASE UNCHANGED vars
    BY <2>6 DEF vars
  <2>7. QED
    BY <2>1, <2>2, <2>3, <2>4, <2>5, <2>6 DEF Next
<1>3. QED
  BY <1>1, <1>2, PTL DEF Spec, ScanSpec
=============================================================================
