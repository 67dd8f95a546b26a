------------------------------ MODULE StageBands ------------------------------
(***************************************************************************)
(* Stage bands: the columns that hold the dates of production stages.      *)
(*   detect_stage_bands   walks the rows of a sheet; a row with two dates  *)
(*                        or more seeds a band, named from the rows above  *)
(*                        (planner/stage_band_detector.py)                 *)
(*   _read_stages         reads the stages of each PLI from the bands,     *)
(*                        under the names the field namer gave             *)
(*                        (applier/apply_plan.py)                          *)
(* One action stands for one outcome of the loop body for a row.  A cell   *)
(* is abstracted to its kind, or to its text where texts are compared; a   *)
(* stage is what was read from where, not the values.                      *)
(***************************************************************************)
EXTENDS Integers, Sequences, FiniteSetsExt

CONSTANTS
  MaxRow, MaxCol,  \* signals.max_row and signals.max_col
  Sheets,          \* the cells of the sheets looked at, by row and column
  MergeSets,       \* sets of merged regions <<min_row, min_col, max_row, max_col>>
  Products,        \* the texts of column 1 that make a row a product
  Names,           \* the other texts of the sheet
  NameMaps,        \* the CanonicalNameMaps the field namer may answer with
  None             \* Python's None

Rows == 1 .. MaxRow
Cols == 1 .. MaxCol

Empty == "empty"       \* a cell without value
Blanks == "blanks"     \* a string of blanks
SubRowLabels ==        \* _SUB_ROW_LABELS: the texts that name a sub-row or sub-column
  [plan |-> "plan", planned |-> "plan", action |-> "action",
   actual |-> "actual", actl |-> "actual", deviation |-> "deviation", dev |-> "deviation"]
SubLabels == DOMAIN SubRowLabels
Texts == Products \cup Names
Cell == {Empty, "date", "number", "date string", Blanks} \cup SubLabels \cup Texts

\* The sub-field names the field namer's prompt offers; a label may also keep its text.
SubFields == {"planned_date", "actual_date", "quantity", "remarks", "deviation_days", "ignore"}
             \cup SubLabels
\* The stage headers mapped to "ignore", and the name of each sub-label.
NameMap == [ignored: SUBSET Cell, sub: [SubLabels -> SubFields]]

ASSUME SheetAssumption ==
  /\ MaxRow \in Nat /\ MaxCol \in Nat
  /\ Sheets \subseteq [Rows -> [Cols -> Cell]]
  /\ \A ms \in MergeSets : ms \subseteq Rows \X Cols \X Rows \X Cols
  /\ NameMaps \subseteq NameMap
  /\ Texts \cap ({Empty, "date", "number", "date string", Blanks} \cup SubLabels) = {}
  /\ None \notin NameMap /\ None \notin Rows /\ None \notin SubLabels

VARIABLES
  sheet,    \* the cells; never changes
  merges,   \* signals.merges; never changes
  row,      \* the row the detector looks at next
  bands,    \* the StageBandSpecs found so far
  phase,    \* "scan", "read" or, when a Stage could not be built, "raised"
  nameMap,  \* the CanonicalNameMap, once named
  stages    \* the stages read, for each PLI emitted so far

scanVars == <<sheet, merges, row, bands>>
vars == <<scanVars, phase, nameMap, stages>>

Covers(m, r, c) == m[1] <= r /\ r <= m[3] /\ m[2] <= c /\ c <= m[4]

\* Only the top-left cell of a merged region has a value; regions are disjoint.
ValidMerges(s, ms) ==
  /\ \A m \in ms : \A r \in Rows, c \in Cols :
       Covers(m, r, c) /\ <<r, c>> # <<m[1], m[2]>> => s[r][c] = Empty
  /\ \A m, n \in ms : m # n => ~\E r \in Rows, c \in Cols : Covers(m, r, c) /\ Covers(n, r, c)

Init ==
  /\ sheet \in Sheets
  /\ merges \in {ms \in MergeSets : ValidMerges(sheet, ms)}
  /\ row = 1
  /\ bands = <<>>
  /\ phase = "scan"
  /\ nameMap = None
  /\ stages = <<>>

-----------------------------------------------------------------------------
(* Dictionaries: d[k] = v and d.setdefault(k, v) *)

With(d, k, v) == [x \in DOMAIN d \cup {k} |-> IF x = k THEN v ELSE d[x]]
WithDefault(d, k, v) == IF k \in DOMAIN d THEN d ELSE With(d, k, v)

(* Reading a row *)

IsString(v) == v \notin {Empty, "date", "number"}
IsDate(v) == v \in {"date", "date string"}
IsText(v) == IsString(v) /\ v # Blanks        \* isinstance(v, str) and v.strip()
IsSubLabel(v) == v \in SubLabels

DateCols(r) == {c \in Cols : IsDate(sheet[r][c])}
SubLabelsOnly(r, cols) ==
  LET strings == {c \in cols : IsString(sheet[r][c])}
  IN  strings # {} /\ \A c \in strings : IsSubLabel(sheet[r][c])

NonDateStrCount(r, cols) ==
  Cardinality({c \in cols : IsString(sheet[r][c]) /\ ~IsDate(sheet[r][c])})

Threshold(cols) == Max({2, Cardinality(cols) \div 2})
HasStrings(r, cols, n) == r >= 1 /\ NonDateStrCount(r, cols) >= n

\* The row above that names the columns: the nearest of the two with enough
\* strings, or the second when the first holds nothing but sub-labels.
NearestHeaderRow(r, cols) ==    \* mutant: a row of sub-labels is not skipped
  CASE HasStrings(r - 1, cols, Threshold(cols)) -> r - 1
    [] ~HasStrings(r - 1, cols, Threshold(cols)) /\ HasStrings(r - 2, cols, Threshold(cols)) -> r - 2
    [] OTHER -> None
SubHeaderRow(r, cols) ==
  IF HasStrings(r - 1, cols, Threshold(cols))
  THEN IF SubLabelsOnly(r - 1, cols) /\ HasStrings(r - 2, cols, 1) THEN r - 2 ELSE r - 1
  ELSE IF HasStrings(r - 2, cols, Threshold(cols)) THEN r - 2 ELSE None

\* stage_cols: of two columns with one name the later replaces the earlier.
StageCols(h, cols) ==
  LET named == {c \in cols : IsText(sheet[h][c])}
  IN  [n \in {sheet[h][c] : c \in named} |-> Max({c \in named : sheet[h][c] = n})]

\* The section title: a text of the header row beside the dates, else one of the row above.
TitleAbove(h, cols) == <<h - 1, Min(Cols \ cols)>>   \* mutant: always the row above
TitleCell(h, cols) ==
  LET beside == {c \in Cols \ cols : IsText(sheet[h][c])}
      above == {c \in Cols : h > 1 /\ IsText(sheet[h - 1][c])}
  IN  CASE beside # {} -> <<h, Min(beside)>>
        [] beside = {} /\ above # {} -> <<h - 1, Min(above)>>
        [] OTHER -> <<h, 1>>

\* sub_rows: the first row of each role among the six from r on, by the label
\* in column 2, or column 1 when column 2 holds no string.
SubRowRole(r) ==
  LET label == IF MaxCol >= 2 /\ IsString(sheet[r][2]) THEN sheet[r][2] ELSE sheet[r][1]
  IN  IF IsSubLabel(label) THEN SubRowLabels[label] ELSE None
LastSubRows(r) ==      \* mutant: a label met again replaces the row of its role
  LET labelled == {p \in r .. Min({MaxRow, r + 5}) : SubRowRole(p) # None}
  IN  [k \in {SubRowRole(p) : p \in labelled} |-> Max({p \in labelled : SubRowRole(p) = k})]
SubRows(r) ==
  LET labelled == {p \in r .. Min({MaxRow, r + 5}) : SubRowRole(p) # None}
  IN  [k \in {SubRowRole(p) : p \in labelled} |-> Min({p \in labelled : SubRowRole(p) = k})]

\* The sub-columns of a stage: the recognised labels of the row below the header,
\* each owned by the nearest stage column to its left.
Primaries(cols) == {cols[n] : n \in DOMAIN cols}
AnySubColumn(h, cols, c) ==     \* mutant: a stage's own column is not skipped
  IsSubLabel(sheet[h + 1][c]) /\ \E p \in Primaries(cols) : p <= c
IsSubColumn(h, cols, c) ==
  /\ c \notin Primaries(cols) /\ IsSubLabel(sheet[h + 1][c])
  /\ \E p \in Primaries(cols) : p < c
Owner(cols, c) == Max({p \in Primaries(cols) : p <= c})
SubColumns(h, cols) ==
  [n \in DOMAIN cols |->
     LET mine == {c \in Cols : h < MaxRow /\ IsSubColumn(h, cols, c) /\ Owner(cols, c) = cols[n]}
     IN  [l \in {sheet[h + 1][c] : c \in mine} |-> Max({c \in mine : sheet[h + 1][c] = l})]]

MergeAnchors(h) == {m[2] : m \in {m \in merges : m[1] = h /\ m[3] = h /\ m[4] > m[2]}}

\* Once some stage has sub-columns, one with neither sub-columns nor a merged
\* header is an identity date, not a stage.
Kept(h, cols, subs) ==
  IF \A n \in DOMAIN cols : subs[n] = <<>> THEN DOMAIN cols
  ELSE {n \in DOMAIN cols : subs[n] # <<>> \/ cols[n] \in MergeAnchors(h)}

-----------------------------------------------------------------------------
(* Detection: one pass over the rows *)

Dates == DateCols(row)
Header == SubHeaderRow(row, Dates)
Found == StageCols(Header, Dates)
SeenNameCells == {bands[k].nameCell : k \in DOMAIN bands}

Scanning == phase = "scan" /\ row <= MaxRow
SeedsBand == Cardinality(Dates) >= 2 /\ Header # None /\ DOMAIN Found # {}
NextRow == row' = row + 1 /\ UNCHANGED <<sheet, merges, phase, nameMap, stages>>

AddBand(mode, subRows, kept, subs) ==
  bands' = Append(bands,
    [nameCell |-> TitleCell(Header, Dates), header |-> Header, mode |-> mode, subRows |-> subRows,
     cols |-> [n \in kept |-> Found[n]], subCols |-> [n \in kept |-> subs[n]]])

FewDates ==
  /\ Scanning /\ Cardinality(Dates) < 2
  /\ NextRow /\ UNCHANGED bands

NoHeaderRow ==
  /\ Scanning /\ Cardinality(Dates) >= 2 /\ Header = None
  /\ NextRow /\ UNCHANGED bands

NoStageColumns ==    \* the header row holds only blanks over the dates
  /\ Scanning /\ Cardinality(Dates) >= 2 /\ Header # None /\ DOMAIN Found = {}
  /\ NextRow /\ UNCHANGED bands

BandSeen ==
  /\ Scanning /\ SeedsBand /\ TitleCell(Header, Dates) \in SeenNameCells
  /\ NextRow /\ UNCHANGED bands

\* Labelled sub-rows below the header: the dates of all products in one plan row.
TallBand ==
  /\ Scanning /\ SeedsBand /\ TitleCell(Header, Dates) \notin SeenNameCells
  /\ SubRows(row) # <<>>
  /\ AddBand("tall_sub_rows", WithDefault(SubRows(row), "plan", row), DOMAIN Found,
             [n \in DOMAIN Found |-> <<>>])
  /\ NextRow

\* Otherwise every data row holds the dates of its own product.
WideBand ==
  /\ Scanning /\ SeedsBand /\ TitleCell(Header, Dates) \notin SeenNameCells
  /\ SubRows(row) = <<>>
  /\ LET subs == SubColumns(Header, Found)
     IN  AddBand("wide_sub_columns", [plan |-> row], Kept(Header, Found, subs), subs)
  /\ NextRow

-----------------------------------------------------------------------------
(* Reading the stages of the PLIs *)

\* The field namer answers; apply_plan starts.
NameFields ==
  /\ phase = "scan" /\ row > MaxRow
  /\ phase' = "read"
  /\ nameMap' \in NameMaps
  /\ UNCHANGED <<scanVars, stages>>

\* A cell, or the top-left cell of the region that covers it.
CellRead(r, c) ==
  IF sheet[r][c] = Empty /\ \E m \in merges : Covers(m, r, c)
  THEN LET m == CHOOSE m \in merges : Covers(m, r, c) IN <<m[1], m[2]>>
  ELSE <<r, c>>
ValueAt(cell) == sheet[cell[1]][cell[2]]
HasValue(cell) == ValueAt(cell) # Empty

\* The sub-columns read for a stage in row r, under their canonical names.  (Of
\* two labels with one canonical name the code keeps the later of its dictionary.)
SubLabelsRead(subs, r) ==
  {l \in DOMAIN subs : nameMap.sub[l] # "ignore" /\ HasValue(CellRead(r, subs[l]))}
SubCells(subs, r) ==
  [f \in {nameMap.sub[l] : l \in SubLabelsRead(subs, r)} |->
     CellRead(r, Max({subs[l] : l \in {l \in SubLabelsRead(subs, r) : nameMap.sub[l] = f}}))]

\* Stage(...) raises when planned_date is given twice or quantity is no number.
StageRaises(cells) ==
  \/ "planned_date" \in DOMAIN cells
  \/ "quantity" \in DOMAIN cells /\ ValueAt(cells["quantity"]) # "number"

\* planned_date is set from a native date only.
IsNativeDate(v) == v = "date"

FirstRow(b, r) == b.subRows["plan"]   \* mutant: also a wide band is read at its first row
PlanRow(b, r) == IF b.mode = "tall_sub_rows" THEN b.subRows["plan"] ELSE r
NamedIn(b) == DOMAIN b.cols \ nameMap.ignored
PlannedCell(b, n, r) == CellRead(PlanRow(b, r), b.cols[n])
ReadIn(b, r) == {n \in NamedIn(b) : HasValue(PlannedCell(b, n, r))}

\* What else is read of a stage: the other sub-rows, or its sub-columns in row r.
OtherCells(b, n, r) ==
  IF b.mode = "tall_sub_rows"
  THEN [k \in {k \in DOMAIN b.subRows \ {"plan"} : HasValue(<<b.subRows[k], b.cols[n]>>)} |->
          <<b.subRows[k], b.cols[n]>>]
  ELSE SubCells(b.subCols[n], r)

StagesOf(k, r) ==
  LET b == bands[k]
  IN  {[band |-> k, name |-> n, planned |-> IsNativeDate(ValueAt(PlannedCell(b, n, r))),
        cells |-> With(OtherCells(b, n, r), "planned_date", PlannedCell(b, n, r))] :
       n \in ReadIn(b, r)}
Raises(k, r) ==
  /\ bands[k].mode = "wide_sub_columns"
  /\ \E n \in ReadIn(bands[k], r) : StageRaises(SubCells(bands[k].subCols[n], r))

\* ROW_PER_PLI: one PLI per product row, read from every band of the sheet.
ProductRows == {r \in Rows : sheet[r][1] \in Products}
ReadProduct ==
  /\ phase = "read" /\ 0 \notin DOMAIN stages
  /\ ProductRows \ DOMAIN stages # {}
  /\ LET r == Min(ProductRows \ DOMAIN stages)
     IN  IF \E k \in DOMAIN bands : Raises(k, r)
         THEN phase' = "raised" /\ UNCHANGED stages
         ELSE /\ stages' = With(stages, r, UNION {StagesOf(k, r) : k \in DOMAIN bands})
              /\ UNCHANGED phase
  /\ UNCHANGED <<scanVars, nameMap>>

\* SECTION_PER_PLI and SHEET_IS_PLI: each band is read at its own plan row, here
\* for one PLI, the sheet, numbered 0.
ReadSheet ==
  /\ phase = "read" /\ stages = <<>>
  /\ IF \E k \in DOMAIN bands : Raises(k, bands[k].subRows["plan"])
     THEN phase' = "raised" /\ UNCHANGED stages
     ELSE /\ stages' = With(<<>>, 0, UNION {StagesOf(k, bands[k].subRows["plan"]) : k \in DOMAIN bands})
          /\ UNCHANGED phase
  /\ UNCHANGED <<scanVars, nameMap>>

Next ==
  \/ FewDates \/ NoHeaderRow \/ NoStageColumns \/ BandSeen \/ TallBand \/ WideBand
  \/ NameFields \/ ReadProduct \/ ReadSheet

Spec == Init /\ [][Next]_vars

-----------------------------------------------------------------------------
(* Properties *)

BandType == [nameCell: Rows \X Cols, header: Rows, mode: {"wide_sub_columns", "tall_sub_rows"}]

TypeOK ==
  /\ sheet \in [Rows -> [Cols -> Cell]] /\ merges \in MergeSets
  /\ row \in 1 .. MaxRow + 1
  /\ phase \in {"scan", "read", "raised"}
  /\ nameMap \in NameMaps \cup {None}
  /\ \A k \in DOMAIN bands :
       /\ [nameCell |-> bands[k].nameCell, header |-> bands[k].header,
           mode |-> bands[k].mode] \in BandType
       /\ \A n \in DOMAIN bands[k].cols : n \in Cell /\ bands[k].cols[n] \in Cols
       /\ "plan" \in DOMAIN bands[k].subRows
  /\ DOMAIN stages \subseteq {0} \cup Rows

\* No column is read for two stages of a band: the stages have columns of their
\* own, and a sub-column lies right of its stage, before the next one, and is
\* no stage's own column (_collect_sub_columns).
EachColumnOneStage ==
  \A k \in DOMAIN bands :
    LET b == bands[k]
    IN  \A n \in DOMAIN b.cols :
          /\ \A m \in DOMAIN b.cols \ {n} : b.cols[m] # b.cols[n]
          /\ \A l \in DOMAIN b.subCols[n] :
               /\ b.cols[n] < b.subCols[n][l]
               /\ \A m \in DOMAIN b.cols : b.cols[m] \notin b.cols[n] + 1 .. b.subCols[n][l]

\* The layouts the detector documents, lines 4-8.  A header row h names the
\* stages over the columns cols and has a label beside them; no dates above it.
HeaderRow(h, cols) ==
  /\ h < MaxRow /\ IsText(sheet[h][1]) /\ 1 \notin cols /\ cols # {}
  /\ \A c \in cols : sheet[h][c] \in Names
  /\ \A c, d \in cols : sheet[h][c] = sheet[h][d] => c = d
  /\ \A r \in 1 .. h : DateCols(r) = {}
\* Below the header: dates, as many or as few in a row as there are, and in the
\* columns of dates no other text; column 1 holds none.
BelowDates(h) == UNION {DateCols(r) : r \in h + 1 .. MaxRow}
DatesBelow(h) ==
  /\ Cardinality(DateCols(h + 1)) >= 2 /\ 1 \notin BelowDates(h)
  /\ \A r \in h + 1 .. MaxRow : \A c \in BelowDates(h) :
       IsString(sheet[r][c]) => IsDate(sheet[r][c])

\* Wide: no row below the header is labelled as a sub-row.
WideSheet(h) ==
  /\ HeaderRow(h, DateCols(h + 1)) /\ DatesBelow(h)
  /\ \A r \in h + 1 .. MaxRow : SubRowRole(r) = None
  /\ \A c \in Cols : ~IsSubLabel(sheet[h + 1][c])

\* Wide with sub-columns: every row of products has the same dates, below one row of
\* sub-labels.  The sub-labels stand under a stage's own column and at least one more, none twice
\* for a stage; a column with a name and no sub-label, such as an order's due date,
\* is no stage.
LastDates == DateCols(MaxRow)
DataBelow(r, cols) ==
  \A p \in r .. MaxRow : DateCols(p) = cols /\ SubRowRole(p) = None
Primary(h) == {c \in LastDates : sheet[h][c] # Empty}
StageHeads(h) == {c \in Primary(h) : c + 1 \in LastDates \ Primary(h)}
SubLabelled(h) == (LastDates \ Primary(h)) \cup StageHeads(h)
SubLabelledSheet(h) ==
  /\ HeaderRow(h, Primary(h)) /\ h + 1 < MaxRow
  /\ DataBelow(h + 2, LastDates)
  /\ StageHeads(h) # {} /\ 2 * Cardinality(SubLabelled(h)) >= Cardinality(LastDates)
  /\ \A c \in Cols : IF c \in SubLabelled(h) THEN IsSubLabel(sheet[h + 1][c])
                     ELSE sheet[h + 1][c] = Empty
  /\ \A c \in LastDates \ Primary(h) : c - 1 \in SubLabelled(h)
  /\ \A c, d \in LastDates \ Primary(h) :
       c < d /\ sheet[h + 1][c] = sheet[h + 1][d] => \E p \in Primary(h) : c < p /\ p < d
  /\ \A c \in MergeAnchors(h) : c \notin Primary(h) \ StageHeads(h)

\* Tall: the plan row first; below it rows with any label, or none.
TallSheet(h) ==
  /\ HeaderRow(h, DateCols(h + 1)) /\ DatesBelow(h)
  /\ SubRowRole(h + 1) = "plan"
\* The first row of each role below the header.
FirstOfRoles(h) ==
  {r \in h + 1 .. MaxRow :
     SubRowRole(r) # None /\ \A p \in h + 1 .. r - 1 : SubRowRole(p) # SubRowRole(r)}

OneBand(h, cols, mode) ==
  /\ Len(bands) = 1 /\ bands[1].header = h /\ bands[1].mode = mode
  /\ {<<n, bands[1].cols[n]>> : n \in DOMAIN bands[1].cols} = {<<sheet[h][c], c>> : c \in cols}
Detected == phase = "scan" /\ row > MaxRow

\* On a sheet of the documented wide layout the detector finds one band with
\* exactly the stages named, however many rows of more or fewer dates follow, and
\* gives every column with a sub-label to a stage (detect_stage_bands, lines 255-331).
WideLayoutFound ==
  Detected => \A h \in Rows :
    /\ WideSheet(h) => OneBand(h, DateCols(h + 1), "wide_sub_columns")
    /\ SubLabelledSheet(h) =>
         /\ OneBand(h, StageHeads(h), "wide_sub_columns")
         /\ \A c \in LastDates \ Primary(h) :
              \E n \in DOMAIN bands[1].cols, l \in SubLabels :
                l \in DOMAIN bands[1].subCols[n] /\ bands[1].subCols[n][l] = c

\* On a sheet of the documented tall layout the detector finds one band, whatever
\* dates the rows below hold; its sub-rows are the first row of each role, and of a
\* role met only below the sixth row there is none (detect_stage_bands, _collect_sub_rows).
TallLayoutFound ==
  Detected => \A h \in Rows : TallSheet(h) =>
    /\ OneBand(h, DateCols(h + 1), "tall_sub_rows")
    /\ {<<k, bands[1].subRows[k]>> : k \in DOMAIN bands[1].subRows} =
         {<<SubRowRole(r), r>> : r \in {r \in FirstOfRoles(h) : r <= h + 6}}

\* On a sheet of the documented wide layout every product below the header is read one
\* stage for each column that holds something in its row, with the name above it and
\* the address of that cell, and nothing of another row; an empty cell inside a merged
\* region stands for the region's first (_read_stages over what detect_stage_bands found).
ProductsReadTheirDates ==
  \A r \in DOMAIN stages \ {0} : \A h \in 1 .. r - 1 :
    WideSheet(h) \/ SubLabelledSheet(h) =>
      LET heads == IF WideSheet(h) THEN DateCols(h + 1) ELSE StageHeads(h)
          named == {c \in heads : sheet[h][c] \notin nameMap.ignored /\ HasValue(CellRead(r, c))}
      IN  /\ Cardinality(stages[r]) = Cardinality(named)
          /\ {<<s.name, s.cells["planned_date"]>> : s \in stages[r]} =
               {<<sheet[h][c], CellRead(r, c)>> : c \in named}

\* What the detector's and the models' docs say of dates written as text: a
\* stage read from a cell that holds a date has that date as its planned date.
\* The code keeps native dates only: violated (_read_wide_stage_column, line 206).
EveryDateIsPlanned ==
  \A p \in DOMAIN stages : \A s \in stages[p] :
    IsDate(ValueAt(s.cells["planned_date"])) => s.planned
=============================================================================
