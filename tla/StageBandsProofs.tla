-------------------------- MODULE StageBandsProofs --------------------------
(***************************************************************************)
(* Proofs about the stage bands, for sheets of any size and any merged     *)
(* regions: types, that the columns of a band are told apart, and that on  *)
(* a sheet of a documented layout the detector finds the band that is      *)
(* there and every product reads its own dates from it.                    *)
(***************************************************************************)
EXTENDS StageBands, FiniteSetTheorems, WellFoundedInduction, TLAPS

-----------------------------------------------------------------------------
(* Sets of columns and rows *)

LEMMA SheetSize == MaxRow \in Nat /\ MaxCol \in Nat
BY SheetAssumption

\* A non-empty set of natural numbers has a least one.
LEMMA LeastOf ==
  ASSUME NEW S, S \subseteq Nat, S # {}
  PROVE  Min(S) \in S /\ \A x \in S : Min(S) <= x
<1>1. PICK x \in S : \A y \in S : ~ (<<y, x>> \in OpToRel(<, Nat))
  BY WFMin, NatLessThanWellFounded
<1>2. \A y \in S : x <= y
  <2>1. TAKE y \in S
  <2>2. <<y, x>> \in Nat \X Nat
    OBVIOUS
  <2>3. ~(y < x)
    BY <1>1, <2>2 DEF OpToRel
  <2>4. QED
    BY <2>3
<1>3. QED
  BY <1>2 DEF Min

\* One bounded from above has a greatest one.
LEMMA GreatestOf ==
  ASSUME NEW n \in Nat, NEW S, S \subseteq 0 .. n, S # {}
  PROVE  Max(S) \in S /\ \A x \in S : x <= Max(S)
<1> DEFINE T == {n - x : x \in S}
<1>1. T \subseteq Nat /\ T # {}
  <2>1. \A x \in S : n - x \in Nat
    OBVIOUS
  <2>2. QED
    BY <2>1
<1>2. Min(T) \in T /\ \A t \in T : Min(T) <= t
  <2> HIDE DEF T
  <2>1. QED
    BY <1>1, LeastOf
<1>3. PICK m \in S : Min(T) = n - m
  BY <1>2
<1>4. \A x \in S : x <= m
  <2>1. TAKE x \in S
  <2>2. n - x \in T
    OBVIOUS
  <2>3. n - m <= n - x
    BY <1>2, <1>3, <2>2
  <2>4. QED
    BY <2>3
<1>5. \E x \in S : \A y \in S : x >= y
  BY <1>4
<1>6. Max(S) \in S /\ \A y \in S : Max(S) >= y
  BY <1>5 DEF Max
<1>7. QED
  BY <1>6

\* Every set of columns is finite, and of two sets of columns the larger has more.
LEMMA ColumnsCounted ==
  ASSUME NEW S, S \subseteq Cols
  PROVE  /\ IsFiniteSet(S) /\ Cardinality(S) \in Nat
         /\ Cardinality(S) = 0 <=> S = {}
         /\ \A T : T \subseteq S => Cardinality(T) <= Cardinality(S)
<1>1. IsFiniteSet(Cols)
  <2>1. 1 \in Int /\ MaxCol \in Int
    BY SheetSize
  <2>2. IsFiniteSet(1 .. MaxCol)
    BY <2>1, FS_Interval
  <2>3. QED
    BY <2>2 DEF Cols
<1>2. IsFiniteSet(S) /\ Cardinality(S) \in Nat
  BY <1>1, FS_Subset, FS_CardinalityType
<1>3. QED
  BY <1>2, FS_Subset, FS_EmptySet

\* Two columns or more are at least two.
LEMMA TwoColumns ==
  ASSUME NEW S, S \subseteq Cols, NEW c \in S, NEW d \in S, c # d
  PROVE  Cardinality(S) >= 2
<1>1. IsFiniteSet({c}) /\ Cardinality({c}) = 1
  BY FS_Singleton
<1>2. Cardinality({c} \cup {d}) = 2
  BY <1>1, FS_AddElement
<1>3. {c} \cup {d} \subseteq S
  OBVIOUS
<1>4. QED
  BY <1>2, <1>3, ColumnsCounted

\* The least and the greatest of a set of columns.
LEMMA LastColumn ==
  ASSUME NEW S, S \subseteq Cols, S # {}
  PROVE  Max(S) \in S /\ \A c \in S : c <= Max(S)
<1>1. MaxCol \in Nat
  BY SheetSize
<1>2. S \subseteq 0 .. MaxCol
  BY <1>1 DEF Cols
<1>3. QED
  BY <1>1, <1>2, GreatestOf

LEMMA FirstColumn ==
  ASSUME NEW S, S \subseteq Cols, S # {}
  PROVE  Min(S) \in S /\ \A c \in S : Min(S) <= c
<1>1. MaxCol \in Nat
  BY SheetSize
<1>2. S \subseteq Nat
  BY <1>1 DEF Cols
<1>3. QED
  BY <1>2, LeastOf

\* A header row needs two strings, and no more than half of the date columns.
LEMMA ThresholdBounds ==
  ASSUME NEW S, S \subseteq Cols
  PROVE  /\ Threshold(S) \in Nat /\ Threshold(S) >= 2
         /\ Cardinality(S) >= 2 => Threshold(S) <= Cardinality(S)
         /\ \A n \in Nat : n >= 2 /\ 2 * n >= Cardinality(S) => Threshold(S) <= n
<1>1. PICK k \in Nat : k = Cardinality(S)
  BY ColumnsCounted
<1>2. /\ k \div 2 \in Nat
      /\ k >= 2 => k \div 2 <= k
      /\ \A n \in Nat : 2 * n >= k => k \div 2 <= n
  OBVIOUS
<1>3. PICK half \in Nat : half = k \div 2
  BY <1>2
<1>4. \E x \in {2, half} : \A y \in {2, half} : x >= y
  OBVIOUS
<1>5. Max({2, half}) \in {2, half} /\ \A y \in {2, half} : Max({2, half}) >= y
  BY <1>4 DEF Max
<1>6. Threshold(S) = Max({2, half})
  BY <1>1, <1>3 DEF Threshold
<1>7. QED
  BY <1>1, <1>2, <1>3, <1>5, <1>6

-----------------------------------------------------------------------------
(* What the detector reads of a sheet *)

LEMMA CellTyped ==
  ASSUME sheet \in [Rows -> [Cols -> Cell]], NEW r \in Rows, NEW c \in Cols
  PROVE  sheet[r][c] \in Cell
OBVIOUS

\* The header row lies above the dates.
LEMMA HeaderAbove ==
  ASSUME NEW r \in Rows, NEW cols, SubHeaderRow(r, cols) # None
  PROVE  SubHeaderRow(r, cols) \in Rows /\ SubHeaderRow(r, cols) < r
<1>1. r \in Int /\ 1 <= r /\ r <= MaxRow /\ MaxRow \in Nat
  BY SheetSize DEF Rows
<1>2. \A x, n : HasStrings(x, cols, n) => x >= 1
  BY DEF HasStrings
<1>3. \/ SubHeaderRow(r, cols) = r - 1 /\ r - 1 >= 1
      \/ SubHeaderRow(r, cols) = r - 2 /\ r - 2 >= 1
  BY <1>2 DEF SubHeaderRow
<1>4. QED
  BY <1>1, <1>3 DEF Rows

\* A stage is named by the header cell of its own column.
LEMMA StageColumn ==
  ASSUME NEW h, NEW cols, cols \subseteq Cols, NEW n \in DOMAIN StageCols(h, cols)
  PROVE  /\ StageCols(h, cols)[n] \in cols
         /\ sheet[h][StageCols(h, cols)[n]] = n
         /\ IsText(n)
<1> DEFINE named == {c \in cols : IsText(sheet[h][c])}
           mine == {c \in named : sheet[h][c] = n}
<1>1. mine # {} /\ StageCols(h, cols)[n] = Max(mine)
  BY DEF StageCols
<1>2. mine \subseteq Cols
  OBVIOUS
<1>3. Max(mine) \in mine
  <2> HIDE DEF mine
  <2>1. QED
    BY <1>1, <1>2, LastColumn
<1>4. QED
  BY <1>1, <1>3

LEMMA TitleTyped ==
  ASSUME NEW h \in Rows, NEW cols, cols \subseteq Cols, cols # {}
  PROVE  TitleCell(h, cols) \in Rows \X Cols
<1> DEFINE beside == {c \in Cols \ cols : IsText(sheet[h][c])}
           above == {c \in Cols : h > 1 /\ IsText(sheet[h - 1][c])}
<1>1. MaxCol \in Nat /\ MaxRow \in Nat
  BY SheetSize
<1>2. 1 \in Cols
  <2>1. PICK c \in Cols : TRUE
    OBVIOUS
  <2>2. QED
    BY <1>1, <2>1 DEF Cols
<1>3. CASE beside # {}
  <2>1. Min(beside) \in beside
    <3>1. beside \subseteq Cols
      OBVIOUS
    <3> HIDE DEF beside
    <3>2. QED
      BY <1>3, <3>1, FirstColumn
  <2>2. TitleCell(h, cols) = <<h, Min(beside)>>
    BY <1>3 DEF TitleCell
  <2>3. QED
    BY <2>1, <2>2
<1>4. CASE beside = {} /\ above # {}
  <2>1. Min(above) \in above
    <3>1. above \subseteq Cols
      OBVIOUS
    <3> HIDE DEF above
    <3>2. QED
      BY <1>4, <3>1, FirstColumn
  <2>2. TitleCell(h, cols) = <<h - 1, Min(above)>>
    BY <1>4 DEF TitleCell
  <2>3. h - 1 \in Rows
    BY <1>1, <2>1 DEF Rows
  <2>4. QED
    BY <2>1, <2>2, <2>3
<1>5. CASE beside = {} /\ above = {}
  <2>1. TitleCell(h, cols) = <<h, 1>>
    BY <1>5 DEF TitleCell
  <2>2. QED
    BY <1>2, <2>1
<1>6. QED
  BY <1>3, <1>4, <1>5

\* A sub-column lies right of the stage that owns it, with no stage between them.
LEMMA SubColumnOwned ==
  ASSUME NEW h, NEW cols, \A n \in DOMAIN cols : cols[n] \in Cols,
         NEW n \in DOMAIN cols, NEW l \in DOMAIN SubColumns(h, cols)[n]
  PROVE  LET c == SubColumns(h, cols)[n][l]
         IN  /\ c \in Cols /\ IsSubColumn(h, cols, c) /\ sheet[h + 1][c] = l /\ h < MaxRow
             /\ cols[n] < c
             /\ \A m \in DOMAIN cols : cols[m] \notin cols[n] + 1 .. c
<1> DEFINE mine == {c \in Cols : h < MaxRow /\ IsSubColumn(h, cols, c) /\ Owner(cols, c) = cols[n]}
           labelled == {c \in mine : sheet[h + 1][c] = l}
           c == SubColumns(h, cols)[n][l]
<1>1. labelled # {} /\ c = Max(labelled)
  BY DEF SubColumns
<1>2. c \in labelled
  <2>1. labelled \subseteq Cols
    OBVIOUS
  <2> HIDE DEF labelled
  <2>2. QED
    BY <1>1, <2>1, LastColumn
<1>3. c \in Cols /\ h < MaxRow /\ IsSubColumn(h, cols, c) /\ Owner(cols, c) = cols[n] /\ sheet[h + 1][c] = l
  BY <1>2
<1> HIDE DEF c
<1> DEFINE left == {p \in Primaries(cols) : p <= c}
<1>4. left \subseteq Cols /\ left # {}
  BY <1>3 DEF Primaries, IsSubColumn, Cols
<1>5. Max(left) \in left /\ \A p \in left : p <= Max(left)
  <2> HIDE DEF left
  <2>1. QED
    BY <1>4, LastColumn
<1>6. Max(left) = cols[n]
  BY <1>3 DEF Owner
<1>7. c \in Int /\ \A m \in DOMAIN cols : cols[m] \in Int /\ cols[m] \in Primaries(cols)
  BY <1>3, SheetSize DEF Primaries, Cols
<1>8. cols[n] < c
  BY <1>3, <1>5, <1>6, <1>7 DEF IsSubColumn
<1>9. \A m \in DOMAIN cols : cols[m] <= c => cols[m] <= cols[n]
  BY <1>5, <1>6, <1>7
<1>10. \A m \in DOMAIN cols : cols[m] \notin cols[n] + 1 .. c
  BY <1>7, <1>9
<1>11. QED
  BY <1>3, <1>8, <1>10 DEF c

-----------------------------------------------------------------------------
(* Types, and the columns of each band *)

\* One band as the detector leaves it.
BandTyped(b) ==
  /\ b.nameCell \in Rows \X Cols /\ b.header \in Rows
  /\ b.mode \in {"wide_sub_columns", "tall_sub_rows"}
  /\ \A n \in DOMAIN b.cols : n \in Cell /\ b.cols[n] \in Cols
  /\ "plan" \in DOMAIN b.subRows
ColumnsApart(b) ==
  \A n \in DOMAIN b.cols :
    /\ \A m \in DOMAIN b.cols \ {n} : b.cols[m] # b.cols[n]
    /\ \A l \in DOMAIN b.subCols[n] :
         /\ b.cols[n] < b.subCols[n][l]
         /\ \A m \in DOMAIN b.cols : b.cols[m] \notin b.cols[n] + 1 .. b.subCols[n][l]

BandsInv ==
  /\ TypeOK
  /\ Len(bands) \in Nat /\ DOMAIN bands = 1 .. Len(bands)
  /\ \A k \in DOMAIN bands : BandTyped(bands[k]) /\ ColumnsApart(bands[k])

\* What one more band does to the list of bands.
LEMMA BandAppended ==
  ASSUME NEW s, NEW n \in Nat, DOMAIN s = 1 .. n, NEW b
  PROVE  /\ DOMAIN Append(s, b) = 1 .. n + 1 /\ Len(Append(s, b)) = n + 1
         /\ Append(s, b)[n + 1] = b
         /\ \A k \in 1 .. n : Append(s, b)[k] = s[k]
OBVIOUS

\* What seeds a band: dates with a header row above them that names stages.
LEMMA SeedTyped ==
  ASSUME TypeOK, Scanning, SeedsBand
  PROVE  /\ row \in Rows /\ Dates \subseteq Cols /\ Dates # {}
         /\ Header \in Rows /\ Header < row
         /\ \A n \in DOMAIN Found : n \in Cell /\ Found[n] \in Cols /\ sheet[Header][Found[n]] = n
         /\ TitleCell(Header, Dates) \in Rows \X Cols
<1>1. row \in Rows
  BY SheetSize DEF TypeOK, Scanning, Rows
<1>2. Dates \subseteq Cols
  BY DEF Dates, DateCols
<1>3. Header \in Rows /\ Header < row
  BY <1>1, HeaderAbove DEF SeedsBand, Header
<1>4. \A n \in DOMAIN Found : Found[n] \in Dates /\ sheet[Header][Found[n]] = n
  BY <1>2, StageColumn DEF Found
<1>5. sheet \in [Rows -> [Cols -> Cell]]
  BY DEF TypeOK
<1>6. \A n \in DOMAIN Found : n \in Cell /\ Found[n] \in Cols
  BY <1>2, <1>3, <1>4, <1>5, CellTyped
<1>7. Dates # {}
  BY <1>4 DEF SeedsBand
<1>8. QED
  BY <1>1, <1>2, <1>3, <1>4, <1>6, <1>7, TitleTyped

\* A band added to well-formed bands leaves them well formed.
LEMMA AddBandKeepsInv ==
  ASSUME BandsInv, NextRow, Scanning, NEW b, bands' = Append(bands, b), BandTyped(b), ColumnsApart(b)
  PROVE  BandsInv'
<1>1. PICK n \in Nat : n = Len(bands) /\ DOMAIN bands = 1 .. n
  BY DEF BandsInv
<1>2. /\ DOMAIN bands' = 1 .. n + 1 /\ Len(bands') = n + 1
      /\ bands'[n + 1] = b /\ \A k \in 1 .. n : bands'[k] = bands[k]
  BY <1>1, BandAppended
<1>3. \A k \in DOMAIN bands' : BandTyped(bands'[k]) /\ ColumnsApart(bands'[k])
  <2>1. TAKE k \in DOMAIN bands'
  <2>2. CASE k = n + 1
    BY <1>2, <2>2
  <2>3. CASE k # n + 1
    <3>1. k \in DOMAIN bands /\ bands'[k] = bands[k]
      BY <1>1, <1>2, <2>3
    <3>2. QED
      BY <3>1 DEF BandsInv
  <2>4. QED
    BY <2>2, <2>3
<1>4. row' \in 1 .. MaxRow + 1
  BY SheetSize DEF BandsInv, TypeOK, NextRow, Scanning
<1>5. TypeOK'
  <2>1. \A k \in DOMAIN bands' :
          /\ [nameCell |-> bands'[k].nameCell, header |-> bands'[k].header,
              mode |-> bands'[k].mode] \in BandType
          /\ \A m \in DOMAIN bands'[k].cols : m \in Cell /\ bands'[k].cols[m] \in Cols
          /\ "plan" \in DOMAIN bands'[k].subRows
    BY <1>3 DEF BandTyped, BandType
  <2>2. QED
    BY <1>4, <2>1 DEF BandsInv, TypeOK, NextRow
<1>6. QED
  BY <1>2, <1>3, <1>5 DEF BandsInv

LEMMA TallBandKeepsInv ==
  ASSUME BandsInv, TallBand
  PROVE  BandsInv'
<1>1. TypeOK /\ Scanning /\ SeedsBand /\ NextRow
  BY DEF BandsInv, TallBand
<1> DEFINE b == [nameCell |-> TitleCell(Header, Dates), header |-> Header, mode |-> "tall_sub_rows",
                 subRows |-> WithDefault(SubRows(row), "plan", row),
                 cols |-> [n \in DOMAIN Found |-> Found[n]],
                 subCols |-> [n \in DOMAIN Found |-> [m \in DOMAIN Found |-> <<>>][n]]]
<1>2. bands' = Append(bands, b)
  BY DEF TallBand, AddBand
<1>3. "plan" \in DOMAIN WithDefault(SubRows(row), "plan", row)
  BY DEF WithDefault, With
<1>4. BandTyped(b)
  BY <1>1, <1>3, SeedTyped DEF BandTyped
<1>5. ColumnsApart(b)
  BY <1>1, SeedTyped DEF ColumnsApart
<1> HIDE DEF b
<1>6. QED
  BY <1>1, <1>2, <1>4, <1>5, AddBandKeepsInv

LEMMA WideBandKeepsInv ==
  ASSUME BandsInv, WideBand
  PROVE  BandsInv'
<1>1. TypeOK /\ Scanning /\ SeedsBand /\ NextRow
  BY DEF BandsInv, WideBand
<1> DEFINE subs == SubColumns(Header, Found)
           kept == Kept(Header, Found, subs)
           b == [nameCell |-> TitleCell(Header, Dates), header |-> Header, mode |-> "wide_sub_columns",
                 subRows |-> [plan |-> row],
                 cols |-> [n \in kept |-> Found[n]], subCols |-> [n \in kept |-> subs[n]]]
<1>2. bands' = Append(bands, b)
  BY DEF WideBand, AddBand
<1>3. kept \subseteq DOMAIN Found
  BY DEF Kept
<1>4. \A n \in DOMAIN Found : \A l \in DOMAIN subs[n] :
        /\ Found[n] < subs[n][l]
        /\ \A m \in DOMAIN Found : Found[m] \notin Found[n] + 1 .. subs[n][l]
  BY <1>1, SeedTyped, SubColumnOwned
<1> HIDE DEF kept, subs
<1>5. BandTyped(b)
  BY <1>1, <1>3, SeedTyped DEF BandTyped
<1>6. ColumnsApart(b)
  <2>1. \A n, m \in kept : n # m => Found[n] # Found[m]
    BY <1>1, <1>3, SeedTyped
  <2>2. QED
    BY <1>3, <1>4, <2>1 DEF ColumnsApart
<1> HIDE DEF b
<1>7. QED
  BY <1>1, <1>2, <1>5, <1>6, AddBandKeepsInv

LEMMA ReadProductTyped ==
  ASSUME BandsInv, ReadProduct
  PROVE  BandsInv'
<1> DEFINE left == ProductRows \ DOMAIN stages
<1>1. left \subseteq Rows /\ left # {}
  BY DEF ReadProduct, ProductRows
<1>2. Min(left) \in Rows
  <2>1. left \subseteq Nat
    BY <1>1, SheetSize DEF Rows
  <2> HIDE DEF left
  <2>2. QED
    BY <1>1, <2>1, LeastOf
<1>3. DOMAIN stages' \subseteq {0} \cup Rows /\ phase' \in {"scan", "read", "raised"}
  BY <1>2 DEF ReadProduct, With, BandsInv, TypeOK
<1>4. UNCHANGED <<sheet, merges, row, bands, nameMap>>
  BY DEF ReadProduct, scanVars
<1>5. QED
  BY <1>3, <1>4 DEF BandsInv, TypeOK

LEMMA BandsInitInv == Init => BandsInv
<1> SUFFICES ASSUME Init PROVE BandsInv
  OBVIOUS
<1>1. bands = <<>> /\ DOMAIN bands = 1 .. 0 /\ Len(bands) = 0 /\ stages = <<>> /\ DOMAIN stages = {}
  BY DEF Init
<1>2. 1 \in 1 .. MaxRow + 1
  BY SheetSize
<1>3. sheet \in [Rows -> [Cols -> Cell]]
  BY SheetAssumption DEF Init
<1>4. QED
  BY <1>1, <1>2, <1>3 DEF Init, BandsInv, TypeOK

LEMMA BandsStepInv == BandsInv /\ [Next]_vars => BandsInv'
<1> SUFFICES ASSUME BandsInv, [Next]_vars PROVE BandsInv'
  OBVIOUS
<1>1. CASE FewDates \/ NoHeaderRow \/ NoStageColumns \/ BandSeen
  <2>1. UNCHANGED <<sheet, merges, bands, phase, nameMap, stages>> /\ row' = row + 1 /\ row <= MaxRow
    BY <1>1 DEF FewDates, NoHeaderRow, NoStageColumns, BandSeen, NextRow, Scanning
  <2>2. row' \in 1 .. MaxRow + 1
    BY <2>1, SheetSize DEF BandsInv, TypeOK
  <2>3. QED
    BY <2>1, <2>2 DEF BandsInv, TypeOK
<1>2. CASE TallBand
  BY <1>2, TallBandKeepsInv
<1>3. CASE WideBand
  BY <1>3, WideBandKeepsInv
<1>4. CASE NameFields
  BY <1>4 DEF NameFields, scanVars, BandsInv, TypeOK
<1>5. CASE ReadProduct
  BY <1>5, ReadProductTyped
<1>6. CASE ReadSheet
  <2>1. DOMAIN stages' \subseteq {0} \cup Rows /\ phase' \in {"scan", "read", "raised"}
    BY <1>6 DEF ReadSheet, With, BandsInv, TypeOK
  <2>2. UNCHANGED <<sheet, merges, row, bands, nameMap>>
    BY <1>6 DEF ReadSheet, scanVars
  <2>3. QED
    BY <2>1, <2>2 DEF BandsInv, TypeOK
<1>7. CASE UNCHANGED vars
  BY <1>7 DEF vars, scanVars, BandsInv, TypeOK
<1>8. QED
  BY <1>1, <1>2, <1>3, <1>4, <1>5, <1>6, <1>7 DEF Next

LEMMA BandsInvariant == Spec => []BandsInv
BY BandsInitInv, BandsStepInv, PTL DEF Spec

\* Every state of the detector and of the reading of stages is well typed.
THEOREM StageBandTypes == Spec => []TypeOK
<1>1. BandsInv => TypeOK
  BY DEF BandsInv
<1>2. QED
  BY <1>1, BandsInvariant, PTL

\* No column of a band is read for two of its stages, on any sheet
\* (_collect_stage_cols and _collect_sub_columns).
THEOREM ColumnsBelongToOneStage == Spec => []EachColumnOneStage
<1>1. BandsInv => EachColumnOneStage
  BY DEF BandsInv, ColumnsApart, EachColumnOneStage
<1>2. QED
  BY <1>1, BandsInvariant, PTL

-----------------------------------------------------------------------------
(* The texts of a header row and the cells below it *)

LEMMA NameCell ==
  ASSUME NEW v \in Texts
  PROVE  IsString(v) /\ IsText(v) /\ ~IsDate(v) /\ ~IsSubLabel(v) /\ v # Empty
BY SheetAssumption DEF IsString, IsText, IsDate, IsSubLabel, Empty, Blanks

LEMMA SubLabelCell ==
  ASSUME NEW v \in SubLabels
  PROVE  /\ IsString(v) /\ IsText(v) /\ ~IsDate(v) /\ v # Empty
         /\ SubRowLabels[v] \in SubLabels /\ SubRowLabels[v] # None
<1>1. SubLabels = {"plan", "planned", "action", "actual", "actl", "deviation", "dev"}
  BY DEF SubLabels, SubRowLabels
<1>2. SubRowLabels[v] \in SubLabels
  BY <1>1 DEF SubRowLabels
<1>3. None \notin SubLabels
  BY SheetAssumption
<1>4. QED
  BY <1>1, <1>2, <1>3 DEF IsString, IsText, IsDate, Empty, Blanks

LEMMA DateCell ==
  ASSUME NEW v, IsDate(v)
  PROVE  v # Empty /\ ~IsSubLabel(v) /\ v \notin Texts
<1>1. v \notin SubLabels
  BY SubLabelCell
<1>2. v \notin Texts
  BY NameCell
<1>3. QED
  BY <1>1, <1>2 DEF IsDate, IsSubLabel, Empty

\* Strings over the columns that are no dates: none, or at least a given set of them.
Quiet(r, cols) == \A c \in cols : IsString(sheet[r][c]) => IsDate(sheet[r][c])

LEMMA QuietRow ==
  ASSUME NEW r, NEW cols, cols \subseteq Cols, Quiet(r, cols), NEW n \in Nat, n >= 1
  PROVE  ~HasStrings(r, cols, n)
<1>1. {c \in cols : IsString(sheet[r][c]) /\ ~IsDate(sheet[r][c])} = {}
  BY DEF Quiet
<1>2. NonDateStrCount(r, cols) = 0
  BY <1>1, FS_EmptySet DEF NonDateStrCount
<1>3. QED
  BY <1>2 DEF HasStrings

LEMMA StringsCounted ==
  ASSUME NEW r \in Rows, NEW cols, cols \subseteq Cols, NEW some, some \subseteq cols,
         \A c \in some : IsString(sheet[r][c]) /\ ~IsDate(sheet[r][c]),
         NEW n \in Nat, n <= Cardinality(some)
  PROVE  HasStrings(r, cols, n)
<1> DEFINE all == {c \in cols : IsString(sheet[r][c]) /\ ~IsDate(sheet[r][c])}
<1>1. some \subseteq all /\ all \subseteq Cols
  OBVIOUS
<1>2. /\ Cardinality(some) <= Cardinality(all)
      /\ Cardinality(some) \in Nat /\ Cardinality(all) \in Nat
  <2> HIDE DEF all
  <2>1. some \subseteq Cols
    BY <1>1
  <2>2. QED
    BY <1>1, <2>1, ColumnsCounted
<1>3. NonDateStrCount(r, cols) = Cardinality(all)
  BY DEF NonDateStrCount
<1>4. r >= 1
  BY SheetSize DEF Rows
<1> HIDE DEF all
<1>5. QED
  BY <1>2, <1>3, <1>4 DEF HasStrings

\* The texts of a header row are strings enough.
LEMMA NamesCounted ==
  ASSUME NEW h \in Rows, NEW cols, cols \subseteq Cols, Cardinality(cols) >= 2,
         \A c \in cols : sheet[h][c] \in Names
  PROVE  HasStrings(h, cols, Threshold(cols)) /\ ~SubLabelsOnly(h, cols)
<1>1. \A c \in cols : /\ IsString(sheet[h][c]) /\ ~IsDate(sheet[h][c])
                      /\ ~IsSubLabel(sheet[h][c])
  BY NameCell DEF Texts
<1>2. Threshold(cols) \in Nat /\ Threshold(cols) <= Cardinality(cols)
  BY ThresholdBounds
<1>3. HasStrings(h, cols, Threshold(cols))
  BY <1>1, <1>2, StringsCounted
<1>4. ~SubLabelsOnly(h, cols)
  BY <1>1 DEF SubLabelsOnly
<1>5. QED
  BY <1>3, <1>4

\* The header row above a row of dates, of the two rows there: the first when it
\* names the columns, at most the second when the first holds nothing to name them.
LEMMA NamesAbove ==
  ASSUME NEW h \in Rows, NEW cols, cols \subseteq Cols, Cardinality(cols) >= 2,
         \A c \in cols : sheet[h][c] \in Names
  PROVE  SubHeaderRow(h + 1, cols) = h
<1>1. h \in Nat /\ h + 1 - 1 = h
  BY SheetSize DEF Rows
<1>2. HasStrings(h, cols, Threshold(cols)) /\ ~SubLabelsOnly(h, cols)
  BY NamesCounted
<1>3. QED
  BY <1>1, <1>2 DEF SubHeaderRow

LEMMA QuietAbove ==
  ASSUME NEW r \in Int, NEW cols, cols \subseteq Cols, Quiet(r - 1, cols)
  PROVE  SubHeaderRow(r, cols) \in {r - 2, None}
<1>1. Threshold(cols) \in Nat /\ Threshold(cols) >= 1
  BY ThresholdBounds
<1>2. ~HasStrings(r - 1, cols, Threshold(cols))
  BY <1>1, QuietRow
<1>3. QED
  BY <1>2 DEF SubHeaderRow

LEMMA NoNamesAbove ==
  ASSUME NEW r \in Int, NEW cols, cols \subseteq Cols, Quiet(r - 1, cols), Quiet(r - 2, cols)
  PROVE  SubHeaderRow(r, cols) = None
<1>1. Threshold(cols) \in Nat /\ Threshold(cols) >= 1
  BY ThresholdBounds
<1>2. ~HasStrings(r - 1, cols, Threshold(cols)) /\ ~HasStrings(r - 2, cols, Threshold(cols))
  BY <1>1, QuietRow
<1>3. QED
  BY <1>2 DEF SubHeaderRow

\* The leftmost text beside the dates, or above the header, is the label in column 1.
LEMMA TitleBeside ==
  ASSUME NEW h \in Rows, NEW cols, 1 \in Cols \ cols, IsText(sheet[h][1])
  PROVE  TitleCell(h, cols) = <<h, 1>>
<1> DEFINE beside == {c \in Cols \ cols : IsText(sheet[h][c])}
<1>1. 1 \in beside /\ beside \subseteq Cols
  OBVIOUS
<1>2. Min(beside) = 1
  <2> HIDE DEF beside
  <2>1. Min(beside) \in beside /\ Min(beside) <= 1
    BY <1>1, FirstColumn
  <2>2. Min(beside) \in Cols
    BY <1>1, <2>1
  <2>3. QED
    BY <2>1, <2>2, SheetSize DEF Cols
<1>3. TitleCell(h, cols) = <<h, Min(beside)>>
  BY <1>1 DEF TitleCell
<1>4. QED
  BY <1>2, <1>3

LEMMA TitleOver ==
  ASSUME NEW g, g > 1, NEW cols, 1 \in Cols, IsText(sheet[g - 1][1]),
         \A c \in Cols \ cols : ~IsText(sheet[g][c])
  PROVE  TitleCell(g, cols) = <<g - 1, 1>>
<1> DEFINE beside == {c \in Cols \ cols : IsText(sheet[g][c])}
           above == {c \in Cols : g > 1 /\ IsText(sheet[g - 1][c])}
<1>1. 1 \in above /\ above \subseteq Cols
  OBVIOUS
<1>2. Min(above) = 1
  <2> HIDE DEF above
  <2>1. Min(above) \in above /\ \A c \in above : Min(above) <= c
    BY <1>1, FirstColumn
  <2>2. Min(above) \in Cols
    BY <1>1, <2>1
  <2>3. QED
    BY <1>1, <2>1, <2>2, SheetSize DEF Cols
<1>3. beside = {} /\ above # {}
  BY <1>1
<1>4. TitleCell(g, cols) = <<g - 1, Min(above)>>
  BY <1>3 DEF TitleCell
<1>5. QED
  BY <1>2, <1>4

-----------------------------------------------------------------------------
(* The stages of a header row *)

\* The dictionary d holds each of the columns under its name in row h.
NamesColumns(d, h, cols) ==
  /\ DOMAIN d = {sheet[h][c] : c \in cols}
  /\ \A c \in cols : d[sheet[h][c]] = c

LEMMA StagesNamed ==
  ASSUME NEW h, NEW cols, cols \subseteq Cols, NEW some, some \subseteq cols,
         \A c \in some : sheet[h][c] \in Names,
         \A c, d \in some : sheet[h][c] = sheet[h][d] => c = d,
         \A c \in cols \ some : ~IsText(sheet[h][c])
  PROVE  NamesColumns(StageCols(h, cols), h, some)
<1>1. \A c \in some : IsText(sheet[h][c])
  BY NameCell DEF Texts
<1>2. {c \in cols : IsText(sheet[h][c])} = some
  BY <1>1
<1>3. StageCols(h, cols) = [n \in {sheet[h][c] : c \in some} |-> Max({c \in some : sheet[h][c] = n})]
  BY <1>2 DEF StageCols
<1>4. ASSUME NEW c \in some PROVE Max({d \in some : sheet[h][d] = sheet[h][c]}) = c
  <2>1. {d \in some : sheet[h][d] = sheet[h][c]} = {c}
    OBVIOUS
  <2>2. Max({c}) \in {c}
    <3>1. {c} \subseteq Cols
      OBVIOUS
    <3>2. QED
      BY <3>1, LastColumn
  <2>3. QED
    BY <2>1, <2>2
<1>5. QED
  BY <1>3, <1>4 DEF NamesColumns

\* Without labelled rows there are no sub-rows.
LEMMA SixRows ==
  ASSUME NEW r \in Rows
  PROVE  /\ Min({MaxRow, r + 5}) \in Nat
         /\ Min({MaxRow, r + 5}) <= MaxRow /\ Min({MaxRow, r + 5}) <= r + 5
         /\ \A p \in r .. MaxRow : p <= r + 5 => p <= Min({MaxRow, r + 5})
<1>1. r \in Nat /\ MaxRow \in Nat
  BY SheetSize DEF Rows
<1>2. {MaxRow, r + 5} \subseteq Nat /\ {MaxRow, r + 5} # {}
  BY <1>1
<1>3. Min({MaxRow, r + 5}) \in {MaxRow, r + 5} /\ \A x \in {MaxRow, r + 5} : Min({MaxRow, r + 5}) <= x
  BY <1>2, LeastOf
<1>4. QED
  BY <1>1, <1>3

LEMMA NoSubRows ==
  ASSUME NEW r \in Rows, \A p \in r .. MaxRow : SubRowRole(p) = None
  PROVE  SubRows(r) = <<>>
<1> DEFINE last == Min({MaxRow, r + 5})
           labelled == {p \in r .. last : SubRowRole(p) # None}
<1>1. last \in Nat /\ last <= MaxRow /\ r \in Nat /\ MaxRow \in Nat
  <2>1. last \in Nat /\ last <= MaxRow
    BY SixRows
  <2>2. QED
    BY <2>1, SheetSize DEF Rows
<1>2. SubRows(r) = [k \in {SubRowRole(p) : p \in labelled} |-> Min({p \in labelled : SubRowRole(p) = k})]
  BY DEF SubRows
<1> HIDE DEF last
<1>3. labelled = {}
  BY <1>1
<1>4. {SubRowRole(p) : p \in labelled} = {}
  BY <1>3
<1>5. QED
  BY <1>2, <1>4

LEMMA FirstIsColumn ==
  ASSUME NEW S, S \subseteq Cols, S # {}
  PROVE  1 \in Cols
<1>1. PICK c \in Cols : TRUE
  OBVIOUS
<1>2. QED
  BY <1>1, SheetSize DEF Cols

-----------------------------------------------------------------------------
(* The detector's step at a row *)

Detection == FewDates \/ NoHeaderRow \/ NoStageColumns \/ BandSeen \/ TallBand \/ WideBand
NewBand == SeedsBand /\ TitleCell(Header, Dates) \notin SeenNameCells

LEMMA DetectionStep ==
  ASSUME Detection
  PROVE  /\ Scanning /\ NextRow
         /\ ~NewBand => UNCHANGED bands
         /\ NewBand /\ SubRows(row) = <<>> => WideBand
         /\ NewBand /\ SubRows(row) # <<>> => TallBand
<1>1. CASE FewDates
  <2>1. Cardinality(Dates) \in Nat
    BY ColumnsCounted DEF Dates, DateCols
  <2>2. QED
    BY <1>1, <2>1 DEF FewDates, NewBand, SeedsBand
<1>2. CASE NoHeaderRow \/ NoStageColumns \/ BandSeen
  BY <1>2 DEF NoHeaderRow, NoStageColumns, BandSeen, NewBand, SeedsBand
<1>3. CASE TallBand
  BY <1>3 DEF TallBand, NewBand
<1>4. CASE WideBand
  BY <1>4 DEF WideBand, NewBand
<1>5. QED
  BY <1>1, <1>2, <1>3, <1>4 DEF Detection

\* The only band there is, found under the header row h.
BandIs(h, cols, mode) ==
  /\ DOMAIN bands = 1 .. 1
  /\ bands[1].nameCell = <<h, 1>> /\ bands[1].header = h /\ bands[1].mode = mode
  /\ NamesColumns(bands[1].cols, h, cols)

LEMMA NoBandYet ==
  ASSUME bands = <<>>
  PROVE  SeenNameCells = {} /\ \A b : DOMAIN Append(bands, b) = 1 .. 1 /\ Append(bands, b)[1] = b
<1>1. DOMAIN bands = 1 .. 0 /\ 0 \in Nat /\ 0 + 1 = 1
  OBVIOUS
<1>2. \A b : DOMAIN Append(bands, b) = 1 .. 1 /\ Append(bands, b)[1] = b
  BY <1>1, BandAppended
<1>3. QED
  BY <1>1, <1>2 DEF SeenNameCells

LEMMA BandSeenAgain ==
  ASSUME NEW h, NEW cols, NEW mode, BandIs(h, cols, mode),
         \/ Cardinality(Dates) < 2
         \/ Header = None
         \/ TitleCell(Header, Dates) = <<h, 1>>
  PROVE  ~NewBand
<1>1. <<h, 1>> \in SeenNameCells
  BY DEF BandIs, SeenNameCells
<1>2. Cardinality(Dates) \in Nat
  BY ColumnsCounted DEF Dates, DateCols
<1>3. QED
  BY <1>1, <1>2 DEF NewBand, SeedsBand

\* A stage that owns no sub-column gets none.
LEMMA NoSubColumns ==
  ASSUME NEW h, NEW cols, NEW n \in DOMAIN cols,
         \A c \in Cols : IsSubColumn(h, cols, c) => Owner(cols, c) # cols[n]
  PROVE  SubColumns(h, cols)[n] = <<>>
<1> DEFINE mine == {c \in Cols : h < MaxRow /\ IsSubColumn(h, cols, c) /\ Owner(cols, c) = cols[n]}
<1>1. mine = {}
  OBVIOUS
<1> DEFINE labels == {sheet[h + 1][c] : c \in mine}
           column(l) == Max({c \in mine : sheet[h + 1][c] = l})
<1>2. SubColumns(h, cols)[n] = [l \in labels |-> column(l)]
  BY DEF SubColumns
<1> HIDE DEF mine
<1>3. labels = {}
  BY <1>1
<1> HIDE DEF labels, column
<1>4. [l \in labels |-> column(l)] = <<>>
  BY <1>3
<1>5. QED
  BY <1>2, <1>4

-----------------------------------------------------------------------------
(* The dates below a header *)

LEMMA BelowFacts ==
  ASSUME NEW h \in Rows, HeaderRow(h, DateCols(h + 1)), DatesBelow(h)
  PROVE  LET cols == DateCols(h + 1)
         IN  /\ cols \subseteq Cols /\ Cardinality(cols) >= 2 /\ cols # {}
             /\ h \in Nat /\ h + 1 \in Rows /\ h >= 1 /\ MaxRow \in Nat
             /\ 1 \in Cols /\ IsText(sheet[h][1])
             /\ \A c \in cols : sheet[h][c] \in Names
             /\ \A c, d \in cols : sheet[h][c] = sheet[h][d] => c = d
             /\ \A r \in 1 .. h : DateCols(r) = {}
             /\ \A r \in h + 1 .. MaxRow :
                  /\ DateCols(r) \subseteq Cols \ {1}
                  /\ \A p \in h + 1 .. MaxRow : Quiet(p, DateCols(r))
<1> DEFINE cols == DateCols(h + 1)
<1>1. \A r : DateCols(r) \subseteq Cols
  BY DEF DateCols
<1>2. /\ cols # {} /\ h < MaxRow /\ IsText(sheet[h][1])
      /\ \A c \in cols : sheet[h][c] \in Names
      /\ \A c, d \in cols : sheet[h][c] = sheet[h][d] => c = d
      /\ \A r \in 1 .. h : DateCols(r) = {}
  BY DEF HeaderRow
<1>3. /\ Cardinality(cols) >= 2 /\ 1 \notin BelowDates(h)
      /\ \A p \in h + 1 .. MaxRow : \A c \in BelowDates(h) : IsString(sheet[p][c]) => IsDate(sheet[p][c])
  BY DEF DatesBelow
<1>4. \A r \in h + 1 .. MaxRow : DateCols(r) \subseteq BelowDates(h)
  BY DEF BelowDates
<1>5. 1 \in Cols
  BY <1>1, <1>2, FirstIsColumn
<1>6. h \in Nat /\ h + 1 \in Rows /\ h >= 1 /\ MaxRow \in Nat
  BY <1>2, SheetSize DEF Rows
<1>7. \A r \in h + 1 .. MaxRow : \A p \in h + 1 .. MaxRow : Quiet(p, DateCols(r))
  BY <1>3, <1>4 DEF Quiet
<1> HIDE DEF cols
<1>8. \A r \in h + 1 .. MaxRow : DateCols(r) \subseteq Cols \ {1}
  BY <1>1, <1>3, <1>4
<1> USE DEF cols
<1>9. QED
  BY <1>1, <1>2, <1>3, <1>5, <1>6, <1>7, <1>8

\* What the detector reads of the rows of such a sheet: nothing down to the header,
\* the band in the row below it, and further down the same band or none.
LEMMA RowsBelow ==
  ASSUME NEW h \in Rows, HeaderRow(h, DateCols(h + 1)), DatesBelow(h), row \in Rows
  PROVE  /\ row <= h => Cardinality(Dates) < 2
         /\ row = h + 1 => /\ Dates = DateCols(h + 1) /\ Header = h
                           /\ TitleCell(Header, Dates) = <<h, 1>>
         /\ row > h + 1 => Header = None \/ TitleCell(Header, Dates) = <<h, 1>>
<1>1. row \in Nat /\ row >= 1 /\ row <= MaxRow /\ h \in Nat /\ MaxRow \in Nat
  BY SheetSize DEF Rows
<1>2. ASSUME row > h
      PROVE  /\ Dates \subseteq Cols /\ \A p \in h + 1 .. MaxRow : Quiet(p, Dates)
             /\ TitleCell(h, Dates) = <<h, 1>>
  <2>1. row \in h + 1 .. MaxRow
    BY <1>1, <1>2
  <2>2. Dates \subseteq Cols \ {1} /\ \A p \in h + 1 .. MaxRow : Quiet(p, Dates)
    BY <2>1, BelowFacts DEF Dates
  <2>3. 1 \in Cols \ Dates /\ IsText(sheet[h][1])
    BY <2>2, BelowFacts
  <2>4. QED
    BY <2>2, <2>3, TitleBeside
<1>3. ASSUME row <= h PROVE Cardinality(Dates) < 2
  <2>1. row \in 1 .. h
    BY <1>1, <1>3
  <2>2. Dates = {}
    BY <2>1, BelowFacts DEF Dates
  <2>3. QED
    BY <2>2, FS_EmptySet
<1>4. CASE row = h + 1
  <2>1. Dates = DateCols(h + 1)
    BY <1>4 DEF Dates
  <2>2. SubHeaderRow(h + 1, DateCols(h + 1)) = h
    BY BelowFacts, NamesAbove
  <2>3. Header = h
    BY <1>4, <2>1, <2>2 DEF Header
  <2>4. QED
    BY <1>1, <1>2, <1>4, <2>1, <2>3
<1>5. CASE row = h + 2
  <2>1. h + 1 \in h + 1 .. MaxRow /\ row - 1 = h + 1 /\ row - 2 = h /\ row \in Int
    BY <1>1, <1>5
  <2>2. Quiet(row - 1, Dates) /\ Dates \subseteq Cols
    BY <1>1, <1>2, <1>5, <2>1
  <2>3. Header \in {h, None}
    BY <2>1, <2>2, QuietAbove DEF Header
  <2>4. QED
    BY <1>1, <1>2, <1>5, <2>3
<1>6. CASE row > h + 2
  <2>1. row - 1 \in h + 1 .. MaxRow /\ row - 2 \in h + 1 .. MaxRow /\ row \in Int
    BY <1>1, <1>6
  <2>2. Quiet(row - 1, Dates) /\ Quiet(row - 2, Dates) /\ Dates \subseteq Cols
    BY <1>1, <1>2, <1>6, <2>1
  <2>3. SubHeaderRow(row, Dates) = None
    BY <2>1, <2>2, NoNamesAbove
  <2>4. QED
    BY <1>1, <1>6, <2>3 DEF Header
<1>7. QED
  BY <1>1, <1>3, <1>4, <1>5, <1>6

LEMMA BelowSeeds ==
  ASSUME NEW h \in Rows, HeaderRow(h, DateCols(h + 1)), DatesBelow(h), row = h + 1, bands = <<>>
  PROVE  NewBand /\ NamesColumns(Found, h, DateCols(h + 1))
<1>1. Dates = DateCols(h + 1) /\ Header = h
  BY BelowFacts, RowsBelow
<1>2. NamesColumns(Found, h, DateCols(h + 1))
  BY <1>1, BelowFacts, StagesNamed DEF Found
<1>3. PICK c \in DateCols(h + 1) : TRUE
  BY BelowFacts
<1>4. sheet[h][c] \in DOMAIN Found
  BY <1>2, <1>3 DEF NamesColumns
<1>5. Cardinality(Dates) >= 2 /\ Header # None
  BY <1>1, BelowFacts, SheetAssumption
<1>6. SeenNameCells = {}
  BY NoBandYet
<1>7. QED
  BY <1>2, <1>4, <1>5, <1>6 DEF NewBand, SeedsBand

LEMMA BelowStays ==
  ASSUME sheet' = sheet, NEW h
  PROVE  /\ DateCols(h + 1)' = DateCols(h + 1) /\ DatesBelow(h)' = DatesBelow(h)
         /\ HeaderRow(h, DateCols(h + 1))' = HeaderRow(h, DateCols(h + 1))
BY DEF DatesBelow, BelowDates, HeaderRow, DateCols

-----------------------------------------------------------------------------
(* The wide layout without sub-labels *)

WideFound(h) ==
  WideSheet(h) =>
    IF row <= h + 1 THEN bands = <<>> ELSE BandIs(h, DateCols(h + 1), "wide_sub_columns")

LEMMA WideBandFound ==
  ASSUME BandsInv, NEW h \in Rows, WideSheet(h), bands = <<>>, WideBand, row = h + 1
  PROVE  BandIs(h, DateCols(h + 1), "wide_sub_columns")'
<1> DEFINE subs == SubColumns(Header, Found)
           kept == Kept(Header, Found, subs)
           b == [nameCell |-> TitleCell(Header, Dates), header |-> Header, mode |-> "wide_sub_columns",
                 subRows |-> [plan |-> row],
                 cols |-> [n \in kept |-> Found[n]], subCols |-> [n \in kept |-> subs[n]]]
<1>0. HeaderRow(h, DateCols(h + 1)) /\ DatesBelow(h)
  BY DEF WideSheet
<1>1. bands' = Append(bands, b)
  BY DEF WideBand, AddBand
<1>2. DOMAIN bands' = 1 .. 1 /\ bands'[1] = b
  BY <1>1, NoBandYet
<1>3. sheet' = sheet /\ DateCols(h + 1)' = DateCols(h + 1)
  <2>1. sheet' = sheet
    BY DEF WideBand, NextRow
  <2>2. QED
    BY <2>1, BelowStays
<1>4. /\ Header = h /\ TitleCell(Header, Dates) = <<h, 1>>
      /\ NamesColumns(Found, h, DateCols(h + 1))
  BY <1>0, BelowFacts, RowsBelow, BelowSeeds
<1>5. \A n \in DOMAIN Found : subs[n] = <<>>
  <2>1. \A c \in Cols : ~IsSubLabel(sheet[h + 1][c])
    BY DEF WideSheet
  <2>2. \A c \in Cols : ~IsSubColumn(Header, Found, c)
    BY <1>4, <2>1 DEF IsSubColumn
  <2>3. QED
    BY <2>2, NoSubColumns
<1>6. kept = DOMAIN Found
  <2> HIDE DEF subs
  <2>1. QED
    BY <1>5 DEF Kept
<1>7. /\ b.nameCell = <<h, 1>> /\ b.header = h /\ b.mode = "wide_sub_columns"
      /\ NamesColumns(b.cols, h, DateCols(h + 1))
  <2> HIDE DEF kept, subs
  <2>1. b.cols = [n \in kept |-> Found[n]]
    OBVIOUS
  <2>2. NamesColumns([n \in kept |-> Found[n]], h, DateCols(h + 1))
    BY <1>4, <1>6 DEF NamesColumns
  <2>3. QED
    BY <1>4, <2>1, <2>2
<1> HIDE DEF b
<1>8. QED
  BY <1>2, <1>3, <1>7 DEF BandIs, NamesColumns

LEMMA WideStays ==
  ASSUME sheet' = sheet, NEW h
  PROVE  (WideSheet(h))' = WideSheet(h) /\ DateCols(h + 1)' = DateCols(h + 1)
<1>1. /\ DateCols(h + 1)' = DateCols(h + 1) /\ DatesBelow(h)' = DatesBelow(h)
      /\ HeaderRow(h, DateCols(h + 1))' = HeaderRow(h, DateCols(h + 1))
  BY BelowStays
<1>2. \A r : SubRowRole(r)' = SubRowRole(r)
  BY DEF SubRowRole
<1>3. QED
  BY <1>1, <1>2 DEF WideSheet

LEMMA WideStep ==
  ASSUME BandsInv, NEW h \in Rows, WideFound(h), Detection
  PROVE  WideFound(h)'
<1>1. Scanning /\ NextRow /\ sheet' = sheet /\ row' = row + 1 /\ row \in Rows /\ row \in Nat /\ h \in Nat
  BY DetectionStep, SheetSize DEF NextRow, BandsInv, TypeOK, Scanning, Rows
<1>2. SUFFICES ASSUME WideSheet(h)
               PROVE  IF row' <= h + 1 THEN bands' = <<>>
                      ELSE BandIs(h, DateCols(h + 1), "wide_sub_columns")'
  BY <1>1, WideStays DEF WideFound
<1>3. HeaderRow(h, DateCols(h + 1)) /\ DatesBelow(h)
  BY <1>2 DEF WideSheet
<1>4. CASE row <= h
  <2>1. bands = <<>> /\ Cardinality(Dates) < 2 /\ Cardinality(Dates) \in Nat
    BY <1>1, <1>2, <1>3, <1>4, RowsBelow, ColumnsCounted DEF WideFound, Dates, DateCols
  <2>2. bands' = <<>>
    BY <2>1, DetectionStep DEF NewBand, SeedsBand
  <2>3. QED
    BY <1>1, <1>4, <2>2
<1>5. CASE row = h + 1
  <2>1. bands = <<>>
    BY <1>1, <1>2, <1>5 DEF WideFound
  <2>2. NewBand
    BY <1>3, <1>5, <2>1, BelowSeeds
  <2>3. SubRows(row) = <<>>
    BY <1>1, <1>2, <1>5, NoSubRows DEF WideSheet
  <2>4. WideBand
    BY <2>2, <2>3, DetectionStep
  <2>5. BandIs(h, DateCols(h + 1), "wide_sub_columns")'
    BY <1>2, <1>5, <2>1, <2>4, WideBandFound
  <2>6. QED
    BY <1>1, <1>5, <2>5
<1>6. CASE row > h + 1
  <2>1. BandIs(h, DateCols(h + 1), "wide_sub_columns")
    BY <1>1, <1>2, <1>6 DEF WideFound
  <2>2. ~NewBand
    BY <1>1, <1>3, <1>6, <2>1, RowsBelow, BandSeenAgain
  <2>3. bands' = bands
    BY <2>2, DetectionStep
  <2>4. BandIs(h, DateCols(h + 1), "wide_sub_columns")'
    BY <1>1, <2>1, <2>3, WideStays DEF BandIs, NamesColumns
  <2>5. QED
    BY <1>1, <1>6, <2>4
<1>7. QED
  BY <1>1, <1>4, <1>5, <1>6

-----------------------------------------------------------------------------
(* The tall layout *)

Graph(f) == {<<k, f[k]>> : k \in DOMAIN f}
NearRoles(h) == {<<SubRowRole(r), r>> : r \in {r \in FirstOfRoles(h) : r <= h + 6}}
SubRowsFound(h) == Graph(bands[1].subRows) = NearRoles(h)
TallFound(h) ==
  TallSheet(h) =>
    IF row <= h + 1 THEN bands = <<>>
    ELSE BandIs(h, DateCols(h + 1), "tall_sub_rows") /\ SubRowsFound(h)

\* The first row of each role, and none beyond the sixth.
LEMMA SubRowsAre ==
  ASSUME NEW h \in Rows, h + 1 \in Rows
  PROVE  Graph(SubRows(h + 1)) = NearRoles(h)
<1> DEFINE last == Min({MaxRow, h + 1 + 5})
           labelled == {p \in h + 1 .. last : SubRowRole(p) # None}
           roles == {SubRowRole(p) : p \in labelled}
           mine(k) == {p \in labelled : SubRowRole(p) = k}
           first(k) == Min(mine(k))
<1>1. /\ last \in Nat /\ last <= MaxRow /\ last <= h + 6 /\ h \in Nat /\ MaxRow \in Nat
      /\ \A p \in h + 1 .. MaxRow : p <= h + 6 => p <= last
  <2>1. /\ last \in Nat /\ last <= MaxRow /\ last <= h + 1 + 5
        /\ \A p \in h + 1 .. MaxRow : p <= h + 1 + 5 => p <= last
    BY SixRows
  <2>2. h \in Nat /\ MaxRow \in Nat
    BY SheetSize DEF Rows
  <2> HIDE DEF last
  <2>3. QED
    BY <2>1, <2>2
<1>2. SubRows(h + 1) = [k \in roles |-> first(k)]
  BY DEF SubRows
<1> HIDE DEF last
<1>3. labelled \subseteq Nat
  BY <1>1
<1>4. ASSUME NEW k \in roles
      PROVE  /\ first(k) \in FirstOfRoles(h) /\ first(k) <= h + 6 /\ SubRowRole(first(k)) = k
  <2>1. mine(k) \subseteq Nat /\ mine(k) # {}
    BY <1>3, <1>4
  <2> HIDE DEF mine
  <2>2. first(k) \in mine(k) /\ \A x \in mine(k) : first(k) <= x
    BY <2>1, LeastOf
  <2> HIDE DEF first
  <2> USE DEF mine
  <2>3. first(k) \in h + 1 .. last /\ SubRowRole(first(k)) # None /\ SubRowRole(first(k)) = k
    BY <2>2
  <2>4. ASSUME NEW p \in h + 1 .. first(k) - 1 PROVE SubRowRole(p) # k
    <3>1. p \in h + 1 .. last /\ ~(first(k) <= p)
      BY <1>1, <2>3
    <3>2. p \notin mine(k)
      BY <2>2, <3>1
    <3>3. QED
      BY <2>3, <3>1, <3>2
  <2>5. first(k) \in h + 1 .. MaxRow /\ first(k) <= h + 6
    BY <1>1, <2>3
  <2>6. QED
    BY <2>3, <2>4, <2>5 DEF FirstOfRoles
<1>5. ASSUME NEW r \in FirstOfRoles(h), r <= h + 6
      PROVE  SubRowRole(r) \in roles /\ first(SubRowRole(r)) = r
  <2>1. /\ r \in h + 1 .. MaxRow /\ SubRowRole(r) # None
        /\ \A p \in h + 1 .. r - 1 : SubRowRole(p) # SubRowRole(r)
    BY <1>5 DEF FirstOfRoles
  <2>2. r \in labelled
    BY <1>1, <1>5, <2>1
  <2> DEFINE k == SubRowRole(r)
  <2>3. k \in roles
    BY <2>2
  <2>4. r \in mine(k) /\ mine(k) \subseteq Nat
    BY <1>3, <2>2
  <2> HIDE DEF mine
  <2>5. first(k) \in mine(k) /\ first(k) <= r
    BY <2>4, LeastOf
  <2> HIDE DEF first
  <2> USE DEF mine
  <2>6. first(k) \in h + 1 .. last /\ SubRowRole(first(k)) = k
    BY <2>5
  <2>7. first(k) \notin h + 1 .. r - 1
    BY <2>1, <2>6
  <2>8. first(k) = r
    BY <1>1, <2>1, <2>5, <2>6, <2>7
  <2>9. QED
    BY <2>3, <2>8
<1> HIDE DEF first, roles
<1>6. Graph(SubRows(h + 1)) = {<<k, first(k)>> : k \in roles}
  BY <1>2 DEF Graph
<1>7. QED
  BY <1>4, <1>5, <1>6 DEF NearRoles

LEMMA PlanRowFound ==
  ASSUME NEW h \in Rows, h + 1 \in Rows, SubRowRole(h + 1) = "plan"
  PROVE  "plan" \in DOMAIN SubRows(h + 1)
<1>1. h \in Nat /\ MaxRow \in Nat /\ h + 1 \in h + 1 .. MaxRow /\ h + 1 <= h + 6 /\ h + 1 .. h + 1 - 1 = {}
  BY SheetSize DEF Rows
<1>2. "plan" # None
  <2>1. "plan" \in SubLabels
    BY DEF SubLabels, SubRowLabels
  <2>2. QED
    BY <2>1, SheetAssumption
<1>3. h + 1 \in FirstOfRoles(h)
  BY <1>1, <1>2 DEF FirstOfRoles
<1>4. <<"plan", h + 1>> \in NearRoles(h)
  BY <1>1, <1>3 DEF NearRoles
<1>5. PICK k \in DOMAIN SubRows(h + 1) : <<"plan", h + 1>> = <<k, SubRows(h + 1)[k]>>
  BY <1>4, SubRowsAre DEF Graph
<1>6. QED
  BY <1>5

LEMMA TallBandFound ==
  ASSUME BandsInv, NEW h \in Rows, TallSheet(h), bands = <<>>, TallBand, row = h + 1
  PROVE  BandIs(h, DateCols(h + 1), "tall_sub_rows")' /\ SubRowsFound(h)'
<1> DEFINE b == [nameCell |-> TitleCell(Header, Dates), header |-> Header, mode |-> "tall_sub_rows",
                 subRows |-> WithDefault(SubRows(row), "plan", row),
                 cols |-> [n \in DOMAIN Found |-> Found[n]],
                 subCols |-> [n \in DOMAIN Found |-> [m \in DOMAIN Found |-> <<>>][n]]]
<1>0. HeaderRow(h, DateCols(h + 1)) /\ DatesBelow(h) /\ SubRowRole(h + 1) = "plan"
  BY DEF TallSheet
<1>1. bands' = Append(bands, b)
  BY DEF TallBand, AddBand
<1>2. DOMAIN bands' = 1 .. 1 /\ bands'[1] = b
  BY <1>1, NoBandYet
<1>3. sheet' = sheet /\ DateCols(h + 1)' = DateCols(h + 1)
  <2>1. sheet' = sheet
    BY DEF TallBand, NextRow
  <2>2. QED
    BY <2>1, BelowStays
<1>4. /\ Header = h /\ TitleCell(Header, Dates) = <<h, 1>>
      /\ NamesColumns(Found, h, DateCols(h + 1))
  BY <1>0, BelowFacts, RowsBelow, BelowSeeds
<1>5. b.subRows = SubRows(h + 1) /\ Graph(SubRows(h + 1)) = NearRoles(h)
  BY <1>0, BelowFacts, PlanRowFound, SubRowsAre DEF WithDefault
<1>6. NamesColumns(b.cols, h, DateCols(h + 1))
  <2>1. b.cols = [n \in DOMAIN Found |-> Found[n]]
    OBVIOUS
  <2>2. NamesColumns([n \in DOMAIN Found |-> Found[n]], h, DateCols(h + 1))
    BY <1>4 DEF NamesColumns
  <2>3. QED
    BY <2>1, <2>2
<1>7. b.nameCell = <<h, 1>> /\ b.header = h /\ b.mode = "tall_sub_rows"
  BY <1>4
<1> HIDE DEF b
<1>8. BandIs(h, DateCols(h + 1), "tall_sub_rows")'
  BY <1>2, <1>3, <1>6, <1>7 DEF BandIs, NamesColumns
<1>9. NearRoles(h)' = NearRoles(h)
  BY <1>3 DEF NearRoles, FirstOfRoles, SubRowRole
<1>10. SubRowsFound(h)'
  BY <1>2, <1>5, <1>9 DEF SubRowsFound, Graph
<1>11. QED
  BY <1>8, <1>10

LEMMA TallStays ==
  ASSUME sheet' = sheet, NEW h
  PROVE  /\ TallSheet(h)' = TallSheet(h) /\ DateCols(h + 1)' = DateCols(h + 1)
         /\ NearRoles(h)' = NearRoles(h)
<1>1. /\ DateCols(h + 1)' = DateCols(h + 1) /\ DatesBelow(h)' = DatesBelow(h)
      /\ HeaderRow(h, DateCols(h + 1))' = HeaderRow(h, DateCols(h + 1))
  BY BelowStays
<1>2. \A r : SubRowRole(r)' = SubRowRole(r)
  BY DEF SubRowRole
<1>3. QED
  BY <1>1, <1>2 DEF TallSheet, NearRoles, FirstOfRoles

LEMMA TallStep ==
  ASSUME BandsInv, NEW h \in Rows, TallFound(h), Detection
  PROVE  TallFound(h)'
<1>1. Scanning /\ NextRow /\ sheet' = sheet /\ row' = row + 1 /\ row \in Rows /\ row \in Nat /\ h \in Nat
  BY DetectionStep, SheetSize DEF NextRow, BandsInv, TypeOK, Scanning, Rows
<1>2. SUFFICES ASSUME TallSheet(h)
               PROVE  IF row' <= h + 1 THEN bands' = <<>>
                      ELSE BandIs(h, DateCols(h + 1), "tall_sub_rows")' /\ SubRowsFound(h)'
  BY <1>1, TallStays DEF TallFound
<1>3. HeaderRow(h, DateCols(h + 1)) /\ DatesBelow(h) /\ SubRowRole(h + 1) = "plan"
  BY <1>2 DEF TallSheet
<1>4. CASE row <= h
  <2>1. bands = <<>> /\ Cardinality(Dates) < 2 /\ Cardinality(Dates) \in Nat
    BY <1>1, <1>2, <1>3, <1>4, RowsBelow, ColumnsCounted DEF TallFound, Dates, DateCols
  <2>2. bands' = <<>>
    BY <2>1, DetectionStep DEF NewBand, SeedsBand
  <2>3. QED
    BY <1>1, <1>4, <2>2
<1>5. CASE row = h + 1
  <2>1. bands = <<>>
    BY <1>1, <1>2, <1>5 DEF TallFound
  <2>2. NewBand
    BY <1>3, <1>5, <2>1, BelowSeeds
  <2>3. SubRows(row) # <<>>
    BY <1>1, <1>3, <1>5, PlanRowFound
  <2>4. TallBand
    BY <2>2, <2>3, DetectionStep
  <2>5. BandIs(h, DateCols(h + 1), "tall_sub_rows")' /\ SubRowsFound(h)'
    BY <1>2, <1>5, <2>1, <2>4, TallBandFound
  <2>6. QED
    BY <1>1, <1>5, <2>5
<1>6. CASE row > h + 1
  <2>1. BandIs(h, DateCols(h + 1), "tall_sub_rows") /\ SubRowsFound(h)
    BY <1>1, <1>2, <1>6 DEF TallFound
  <2>2. ~NewBand
    BY <1>1, <1>3, <1>6, <2>1, RowsBelow, BandSeenAgain
  <2>3. bands' = bands
    BY <2>2, DetectionStep
  <2>4. BandIs(h, DateCols(h + 1), "tall_sub_rows")'
    BY <1>1, <2>1, <2>3, TallStays DEF BandIs, NamesColumns
  <2>5. SubRowsFound(h)'
    BY <1>1, <2>1, <2>3, TallStays DEF SubRowsFound, Graph
  <2>6. QED
    BY <1>1, <1>6, <2>4, <2>5
<1>7. QED
  BY <1>1, <1>4, <1>5, <1>6

-----------------------------------------------------------------------------
(* The wide layout with sub-labels *)

SubColumnsFound(h) ==
  \A c \in LastDates \ Primary(h) :
    \E n \in DOMAIN bands[1].cols, l \in SubLabels :
      l \in DOMAIN bands[1].subCols[n] /\ bands[1].subCols[n][l] = c
SubLabelledFound(h) ==
  SubLabelledSheet(h) =>
    IF row <= h + 2 THEN bands = <<>>
    ELSE BandIs(h, StageHeads(h), "wide_sub_columns") /\ SubColumnsFound(h)

LEMMA SubLabelledFacts ==
  ASSUME NEW h \in Rows, SubLabelledSheet(h)
  PROVE  /\ LastDates \subseteq Cols /\ 1 \in Cols \ LastDates /\ IsText(sheet[h][1])
         /\ Primary(h) \subseteq LastDates
         /\ StageHeads(h) # {} /\ StageHeads(h) \subseteq Primary(h)
         /\ \A s \in StageHeads(h) : s + 1 \in LastDates \ Primary(h)
         /\ SubLabelled(h) = (LastDates \ Primary(h)) \cup StageHeads(h)
         /\ 2 * Cardinality(SubLabelled(h)) >= Cardinality(LastDates)
         /\ h \in Nat /\ h >= 1 /\ h + 1 \in Rows /\ h + 2 \in Rows /\ MaxRow \in Nat
<1>1. HeaderRow(h, Primary(h)) /\ h + 1 < MaxRow /\ StageHeads(h) # {}
      /\ 2 * Cardinality(SubLabelled(h)) >= Cardinality(LastDates)
  BY DEF SubLabelledSheet
<1>2. LastDates \subseteq Cols /\ Primary(h) \subseteq LastDates
  BY DEF LastDates, DateCols, Primary
<1>3. StageHeads(h) \subseteq Primary(h) /\ \A s \in StageHeads(h) : s + 1 \in LastDates \ Primary(h)
  BY DEF StageHeads
<1>4. 1 \in Cols
  BY <1>1, <1>2, <1>3, FirstIsColumn
<1>5. 1 \notin LastDates /\ IsText(sheet[h][1])
  <2>1. IsText(sheet[h][1]) /\ 1 \notin Primary(h)
    BY <1>1 DEF HeaderRow
  <2>2. sheet[h][1] # Empty
    BY <2>1 DEF IsText, IsString
  <2>3. QED
    BY <2>1, <2>2 DEF Primary
<1>6. h \in Nat /\ h >= 1 /\ h + 1 \in Rows /\ h + 2 \in Rows /\ MaxRow \in Nat
  BY <1>1, SheetSize DEF Rows
<1>7. QED
  BY <1>1, <1>2, <1>3, <1>4, <1>5, <1>6 DEF SubLabelled

LEMMA SubLabelledCells ==
  ASSUME NEW h \in Rows, SubLabelledSheet(h)
  PROVE  /\ \A c \in Primary(h) : sheet[h][c] \in Names
         /\ \A c, d \in Primary(h) : sheet[h][c] = sheet[h][d] => c = d
         /\ \A c \in LastDates \ Primary(h) : ~IsText(sheet[h][c])
         /\ \A r \in 1 .. h + 1 : DateCols(r) = {}
         /\ \A p \in h + 2 .. MaxRow : DateCols(p) = LastDates /\ SubRowRole(p) = None
         /\ \A c \in SubLabelled(h) : sheet[h + 1][c] \in SubLabels
         /\ \A c \in Cols \ SubLabelled(h) : sheet[h + 1][c] = Empty
         /\ \A c \in LastDates \ Primary(h) : c - 1 \in SubLabelled(h)
         /\ \A c, d \in LastDates \ Primary(h) :
              c < d /\ sheet[h + 1][c] = sheet[h + 1][d] => \E p \in Primary(h) : c < p /\ p < d
         /\ \A c \in MergeAnchors(h) : c \notin Primary(h) \ StageHeads(h)
<1>1. /\ HeaderRow(h, Primary(h)) /\ h + 1 < MaxRow /\ DataBelow(h + 2, LastDates)
      /\ \A c \in Cols : IF c \in SubLabelled(h) THEN IsSubLabel(sheet[h + 1][c])
                         ELSE sheet[h + 1][c] = Empty
      /\ \A c \in LastDates \ Primary(h) : c - 1 \in SubLabelled(h)
      /\ \A c, d \in LastDates \ Primary(h) :
           c < d /\ sheet[h + 1][c] = sheet[h + 1][d] => \E p \in Primary(h) : c < p /\ p < d
      /\ \A c \in MergeAnchors(h) : c \notin Primary(h) \ StageHeads(h)
  BY DEF SubLabelledSheet
<1>2. SubLabelled(h) \subseteq Cols
  BY SubLabelledFacts
<1>3. \A c \in SubLabelled(h) : sheet[h + 1][c] \in SubLabels
  BY <1>1, <1>2 DEF IsSubLabel
<1>4. \A c \in Cols \ SubLabelled(h) : sheet[h + 1][c] = Empty
  BY <1>1
<1>5. /\ \A c \in Primary(h) : sheet[h][c] \in Names
      /\ \A c, d \in Primary(h) : sheet[h][c] = sheet[h][d] => c = d
      /\ \A r \in 1 .. h : DateCols(r) = {}
  BY <1>1 DEF HeaderRow
<1>6. \A c \in LastDates \ Primary(h) : ~IsText(sheet[h][c])
  BY DEF Primary, IsText, IsString
<1>7. DateCols(h + 1) = {}
  <2>1. \A c \in Cols : ~IsDate(sheet[h + 1][c])
    BY <1>3, <1>4, SubLabelCell DEF IsDate, Empty
  <2>2. QED
    BY <2>1 DEF DateCols
<1>8. \A r \in 1 .. h + 1 : DateCols(r) = {}
  <2>1. \A r \in 1 .. h + 1 : r \in 1 .. h \/ r = h + 1
    BY SubLabelledFacts
  <2>2. QED
    BY <1>5, <1>7, <2>1
<1>9. \A p \in h + 2 .. MaxRow : DateCols(p) = LastDates /\ SubRowRole(p) = None
  BY <1>1 DEF DataBelow
<1>10. QED
  BY <1>1, <1>3, <1>4, <1>5, <1>6, <1>8, <1>9

\* The sub-labels are strings enough to be taken for a header row.
LEMMA SubLabelsCounted ==
  ASSUME NEW h \in Rows, SubLabelledSheet(h)
  PROVE  /\ Cardinality(LastDates) >= 2
         /\ HasStrings(h + 1, LastDates, Threshold(LastDates)) /\ SubLabelsOnly(h + 1, LastDates)
         /\ HasStrings(h, LastDates, 1)
<1> DEFINE labels == SubLabelled(h)
<1>1. PICK s \in StageHeads(h) : TRUE
  BY SubLabelledFacts
<1>2. s \in labels /\ s + 1 \in labels /\ labels \subseteq LastDates /\ labels \subseteq Cols /\ s # s + 1
  <2>1. s \in labels /\ s + 1 \in labels /\ labels \subseteq LastDates /\ labels \subseteq Cols
    BY SubLabelledFacts
  <2>2. s \in Nat
    BY <2>1, SheetSize DEF Cols
  <2>3. QED
    BY <2>1, <2>2
<1>3. /\ Cardinality(labels) >= 2 /\ Cardinality(labels) \in Nat
      /\ Cardinality(labels) <= Cardinality(LastDates) /\ Cardinality(LastDates) \in Nat
  <2> HIDE DEF labels
  <2>1. Cardinality(labels) >= 2
    BY <1>2, TwoColumns
  <2>2. LastDates \subseteq Cols
    BY SubLabelledFacts
  <2>3. QED
    BY <1>2, <2>1, <2>2, ColumnsCounted
<1>4. Threshold(LastDates) \in Nat /\ Threshold(LastDates) <= Cardinality(labels)
  BY <1>3, SubLabelledFacts, ThresholdBounds
<1>5. \A c \in labels : /\ sheet[h + 1][c] \in SubLabels
                        /\ IsString(sheet[h + 1][c]) /\ ~IsDate(sheet[h + 1][c])
  BY SubLabelledCells, SubLabelCell
<1>6. HasStrings(h + 1, LastDates, Threshold(LastDates))
  <2> HIDE DEF labels
  <2>1. h + 1 \in Rows /\ LastDates \subseteq Cols
    BY SubLabelledFacts
  <2>2. QED
    BY <1>2, <1>4, <1>5, <2>1, StringsCounted
<1>7. SubLabelsOnly(h + 1, LastDates)
  <2>1. \A c \in LastDates : IsString(sheet[h + 1][c]) => c \in labels
    BY SubLabelledFacts, SubLabelledCells DEF IsString
  <2> HIDE DEF labels
  <2>2. QED
    BY <1>2, <1>5, <2>1 DEF SubLabelsOnly, IsSubLabel
<1>8. HasStrings(h, LastDates, 1)
  <2>1. {s} \subseteq LastDates /\ LastDates \subseteq Cols /\ sheet[h][s] \in Names
    BY SubLabelledFacts, SubLabelledCells
  <2>2. IsString(sheet[h][s]) /\ ~IsDate(sheet[h][s])
    BY <2>1, NameCell DEF Texts
  <2>3. Cardinality({s}) = 1
    BY FS_Singleton
  <2>4. \A c \in {s} : IsString(sheet[h][c]) /\ ~IsDate(sheet[h][c])
    BY <2>2
  <2>5. QED
    BY <2>1, <2>3, <2>4, StringsCounted
<1>9. QED
  BY <1>3, <1>6, <1>7, <1>8

\* The row two above names the columns when the row above holds sub-labels only,
\* or too few strings.
LEMMA SecondHeader ==
  ASSUME NEW r, NEW cols
  PROVE  /\ /\ HasStrings(r - 1, cols, Threshold(cols)) /\ SubLabelsOnly(r - 1, cols)
            /\ HasStrings(r - 2, cols, 1)
            => SubHeaderRow(r, cols) = r - 2
         /\ ~HasStrings(r - 1, cols, Threshold(cols)) /\ HasStrings(r - 2, cols, Threshold(cols))
            => SubHeaderRow(r, cols) = r - 2
BY DEF SubHeaderRow

\* What the detector reads of the rows: nothing down to the sub-labels, the band in
\* the row below them; below that the sub-labels under the same title, then nothing.
LEMMA SubLabelledRows ==
  ASSUME NEW h \in Rows, SubLabelledSheet(h), row \in Rows
  PROVE  /\ row <= h + 1 => Cardinality(Dates) < 2
         /\ row = h + 2 => /\ Dates = LastDates /\ Header = h
                           /\ TitleCell(Header, Dates) = <<h, 1>>
                           /\ SubRows(row) = <<>>
         /\ row > h + 2 => Header = None \/ TitleCell(Header, Dates) = <<h, 1>>
<1>1. row \in Nat /\ row >= 1 /\ row <= MaxRow /\ h \in Nat /\ h >= 1 /\ MaxRow \in Nat
  BY SheetSize DEF Rows
<1>2. row > h + 1 => Dates = LastDates
  <2>1. row > h + 1 => row \in h + 2 .. MaxRow
    BY <1>1
  <2>2. QED
    BY <2>1, SubLabelledCells DEF Dates
<1>3. \A p \in h + 2 .. MaxRow : Quiet(p, LastDates)
  BY SubLabelledCells DEF Quiet, DateCols
<1>4. ASSUME row <= h + 1 PROVE Cardinality(Dates) < 2
  <2>1. row \in 1 .. h + 1
    BY <1>1, <1>4
  <2>2. Dates = {}
    BY <2>1, SubLabelledCells DEF Dates
  <2>3. QED
    BY <2>2, FS_EmptySet
<1>5. /\ HasStrings(h + 1, LastDates, Threshold(LastDates)) /\ SubLabelsOnly(h + 1, LastDates)
      /\ HasStrings(h, LastDates, 1)
  BY SubLabelsCounted
<1>6. CASE row = h + 2
  <2>1. SubRows(row) = <<>>
    BY <1>6, SubLabelledCells, NoSubRows
  <2>2. row - 1 = h + 1 /\ row - 2 = h
    BY <1>1, <1>6
  <2>3. SubHeaderRow(row, LastDates) = h
    BY <1>5, <2>2, SecondHeader
  <2>4. TitleCell(h, LastDates) = <<h, 1>>
    BY SubLabelledFacts, TitleBeside
  <2>5. QED
    BY <1>1, <1>2, <1>6, <2>1, <2>3, <2>4 DEF Header
<1>7. CASE row = h + 3
  <2>1. row - 1 = h + 2 /\ row - 2 = h + 1 /\ h + 2 \in h + 2 .. MaxRow
        /\ h + 1 > 1 /\ h + 1 - 1 = h
    BY <1>1, <1>7
  <2>2. ~HasStrings(h + 2, LastDates, Threshold(LastDates))
    <3>1. Quiet(h + 2, LastDates) /\ LastDates \subseteq Cols
      BY <1>3, <2>1, SubLabelledFacts
    <3>2. Threshold(LastDates) \in Nat /\ Threshold(LastDates) >= 1
      BY <3>1, ThresholdBounds
    <3>3. QED
      BY <3>1, <3>2, QuietRow
  <2>3. SubHeaderRow(row, LastDates) = h + 1
    BY <1>5, <2>1, <2>2, SecondHeader
  <2>4. \A c \in Cols \ LastDates : ~IsText(sheet[h + 1][c])
    <3>1. \A c \in Cols \ LastDates : sheet[h + 1][c] = Empty
      BY SubLabelledFacts, SubLabelledCells
    <3>2. QED
      BY <3>1 DEF IsText, IsString
  <2>5. TitleCell(h + 1, LastDates) = <<h + 1 - 1, 1>>
    BY <2>1, <2>4, SubLabelledFacts, TitleOver
  <2>6. QED
    BY <1>1, <1>2, <1>7, <2>1, <2>3, <2>5 DEF Header
<1>8. CASE row > h + 3
  <2>1. row - 1 \in h + 2 .. MaxRow /\ row - 2 \in h + 2 .. MaxRow /\ row \in Int
    BY <1>1, <1>8
  <2>2. Quiet(row - 1, LastDates) /\ Quiet(row - 2, LastDates) /\ LastDates \subseteq Cols
    BY <1>3, <2>1, SubLabelledFacts
  <2>3. SubHeaderRow(row, LastDates) = None
    BY <2>1, <2>2, NoNamesAbove
  <2>4. QED
    BY <1>1, <1>2, <1>8, <2>3 DEF Header
<1>9. QED
  BY <1>1, <1>4, <1>6, <1>7, <1>8

\* Left of a sub-column, with no other named column between, is a stage.
LEMMA StageLeft ==
  ASSUME NEW h \in Rows, SubLabelledSheet(h), NEW d \in LastDates \ Primary(h)
  PROVE  \E s \in StageHeads(h) : s < d /\ \A p \in Primary(h) : p <= d => p <= s
<1> DEFINE within == {e \in LastDates \ Primary(h) : e <= d /\ \A p \in Primary(h) : p <= d => p < e}
<1>1. /\ LastDates \subseteq Cols /\ Primary(h) \subseteq LastDates
      /\ \A c \in Cols : c \in Nat /\ c >= 1
  BY SubLabelledFacts, SheetSize DEF Cols
<1>2. \A p \in Primary(h) : p # d
  OBVIOUS
<1>3. d \in within
  BY <1>1, <1>2
<1>4. within \subseteq Nat
  BY <1>1
<1>5. PICK e \in within : \A x \in within : e <= x
  <2> HIDE DEF within
  <2>1. QED
    BY <1>3, <1>4, LeastOf
<1>6. e \in LastDates \ Primary(h) /\ e <= d /\ e \in Nat /\ \A p \in Primary(h) : p <= d => p < e
  BY <1>4, <1>5
<1>7. e - 1 \in (LastDates \ Primary(h)) \cup StageHeads(h)
  BY <1>6, SubLabelledFacts, SubLabelledCells
<1>8. e - 1 \notin LastDates \ Primary(h)
  <2>1. SUFFICES ASSUME e - 1 \in LastDates \ Primary(h) PROVE FALSE
    OBVIOUS
  <2>2. e - 1 \in Nat /\ d \in Nat
    BY <1>1, <2>1
  <2>3. ASSUME NEW p \in Primary(h), p <= d PROVE p < e - 1
    <3>1. p < e /\ p # e - 1 /\ p \in Nat
      BY <1>1, <1>6, <2>1, <2>3
    <3>2. QED
      BY <1>6, <2>2, <3>1
  <2>4. e - 1 \in within
    BY <1>6, <2>1, <2>2, <2>3
  <2>5. e <= e - 1
    BY <1>5, <2>4
  <2>6. QED
    BY <1>6, <2>5
<1>9. e - 1 \in StageHeads(h)
  BY <1>7, <1>8
<1>10. ASSUME NEW p \in Primary(h), p <= d PROVE p <= e - 1
  <2>1. p \in Nat /\ p < e
    BY <1>1, <1>6, <1>10
  <2>2. QED
    BY <1>6, <2>1
<1>11. e - 1 < d
  <2>1. d \in Nat
    BY <1>1
  <2>2. QED
    BY <1>6, <2>1
<1>12. QED
  BY <1>9, <1>10, <1>11

\* The sub-columns are the columns with a sub-label and no name, each owned by the
\* stage left of it.
LEMMA SubColumnsAre ==
  ASSUME NEW h \in Rows, SubLabelledSheet(h), NEW found, NamesColumns(found, h, Primary(h)),
         NEW d \in Cols
  PROVE  /\ IsSubColumn(h, found, d) <=> d \in LastDates \ Primary(h)
         /\ d \in LastDates \ Primary(h) =>
              /\ Owner(found, d) \in StageHeads(h) /\ Owner(found, d) < d
              /\ \A p \in Primary(h) : p <= d => p <= Owner(found, d)
<1>1. Primaries(found) = Primary(h)
  BY DEF Primaries, NamesColumns
<1>2. StageHeads(h) \subseteq Primary(h) /\ Primary(h) \subseteq Cols /\ \A c \in Cols : c \in Nat
  BY SubLabelledFacts, SheetSize DEF Cols
<1>3. ASSUME d \in LastDates \ Primary(h)
      PROVE  /\ IsSubColumn(h, found, d)
             /\ Owner(found, d) \in StageHeads(h) /\ Owner(found, d) < d
             /\ \A p \in Primary(h) : p <= d => p <= Owner(found, d)
  <2>1. PICK s \in StageHeads(h) : s < d /\ \A p \in Primary(h) : p <= d => p <= s
    BY <1>3, StageLeft
  <2> DEFINE left == {p \in Primary(h) : p <= d}
  <2>2. s \in left /\ left \subseteq Cols /\ \A p \in left : p <= s
    BY <1>2, <2>1
  <2>3. Max(left) \in left /\ s <= Max(left)
    <3> HIDE DEF left
    <3>1. QED
      BY <2>2, LastColumn
  <2>4. Max(left) = s
    <3> HIDE DEF left
    <3>1. Max(left) \in Nat /\ s \in Nat /\ Max(left) <= s
      BY <1>2, <2>2, <2>3
    <3>2. QED
      BY <2>3, <3>1
  <2>5. Owner(found, d) = s
    BY <1>1, <2>4 DEF Owner
  <2>6. d \in SubLabelled(h)
    BY <1>3, SubLabelledFacts
  <2>7. IsSubColumn(h, found, d)
    BY <1>1, <1>2, <1>3, <2>1, <2>6, SubLabelledCells DEF IsSubColumn, IsSubLabel
  <2>8. QED
    BY <2>1, <2>5, <2>7
<1>4. ASSUME IsSubColumn(h, found, d) PROVE d \in LastDates \ Primary(h)
  <2>1. d \notin Primary(h) /\ sheet[h + 1][d] \in SubLabels
    BY <1>1, <1>4 DEF IsSubColumn, IsSubLabel
  <2>2. sheet[h + 1][d] # Empty
    BY <2>1, SubLabelCell
  <2>3. d \in SubLabelled(h)
    BY <2>2, SubLabelledCells
  <2>4. QED
    BY <1>2, <2>1, <2>3, SubLabelledFacts
<1>5. QED
  BY <1>3, <1>4

\* Each column with a sub-label is a sub-column of its owner, under that label.
LEMMA SubColumnKept ==
  ASSUME NEW h \in Rows, SubLabelledSheet(h), NEW found, NamesColumns(found, h, Primary(h)),
         NEW d \in LastDates \ Primary(h)
  PROVE  LET subs == SubColumns(h, found)[sheet[h][Owner(found, d)]]
         IN  sheet[h + 1][d] \in DOMAIN subs /\ subs[sheet[h + 1][d]] = d
<1> DEFINE o == Owner(found, d)
           n == sheet[h][o]
           l == sheet[h + 1][d]
           mine == {c \in Cols : h < MaxRow /\ IsSubColumn(h, found, c) /\ Owner(found, c) = found[n]}
           labels == {sheet[h + 1][c] : c \in mine}
           column(k) == Max({c \in mine : sheet[h + 1][c] = k})
<1>1. /\ LastDates \subseteq Cols /\ StageHeads(h) \subseteq Primary(h) /\ Primary(h) \subseteq Cols
      /\ \A c \in Cols : c \in Nat
      /\ h < MaxRow
  BY SubLabelledFacts, SheetSize DEF Cols, Rows
<1>2. d \in Cols /\ IsSubColumn(h, found, d) /\ o \in StageHeads(h) /\ o < d
  BY <1>1, SubColumnsAre
<1>3. n \in DOMAIN found /\ found[n] = o
  BY <1>1, <1>2 DEF NamesColumns
<1>4. SubColumns(h, found)[n] = [k \in labels |-> column(k)]
  BY <1>3 DEF SubColumns
<1>5. d \in mine
  BY <1>1, <1>2, <1>3
<1>6. ASSUME NEW c \in mine, sheet[h + 1][c] = l PROVE c = d
  <2>1. /\ c \in LastDates \ Primary(h) /\ Owner(found, c) = o
        /\ \A p \in Primary(h) : p <= c => p <= o
    BY <1>3, <1>6, SubColumnsAre
  <2>2. \A p \in Primary(h) : p <= d => p <= o
    BY <1>1, SubColumnsAre
  <2>3. o < c
    BY <1>1, <2>1, SubColumnsAre
  <2>4. c \in Nat /\ d \in Nat /\ o \in Nat /\ \A p \in Primary(h) : p \in Nat
    BY <1>1, <1>2, <2>1
  <2>5. CASE c < d
    <3>1. PICK p \in Primary(h) : c < p /\ p < d
      BY <1>6, <2>1, <2>5, SubLabelledCells
    <3>2. QED
      BY <2>2, <2>3, <2>4, <3>1
  <2>6. CASE d < c
    <3>1. PICK p \in Primary(h) : d < p /\ p < c
      BY <1>6, <2>1, <2>6, SubLabelledCells
    <3>2. QED
      BY <1>2, <2>1, <2>4, <3>1
  <2>7. QED
    BY <2>4, <2>5, <2>6
<1>7. {c \in mine : sheet[h + 1][c] = l} = {d}
  BY <1>5, <1>6
<1>8. Max({d}) \in {d}
  <2>1. {d} \subseteq Cols /\ {d} # {}
    BY <1>2
  <2>2. QED
    BY <2>1, LastColumn
<1>9. l \in labels /\ column(l) = d
  BY <1>5, <1>7, <1>8
<1> HIDE DEF n, l, labels, column
<1>10. l \in DOMAIN SubColumns(h, found)[n] /\ SubColumns(h, found)[n][l] = d
  BY <1>4, <1>9
<1>11. QED
  BY <1>10 DEF n, l

LEMMA SubLabelledBandFound ==
  ASSUME BandsInv, NEW h \in Rows, SubLabelledSheet(h), bands = <<>>, WideBand,
         Dates = LastDates, Header = h, TitleCell(Header, Dates) = <<h, 1>>,
         NamesColumns(Found, h, Primary(h))
  PROVE  BandIs(h, StageHeads(h), "wide_sub_columns")' /\ SubColumnsFound(h)'
<1> DEFINE subs == SubColumns(Header, Found)
           kept == Kept(Header, Found, subs)
           b == [nameCell |-> TitleCell(Header, Dates), header |-> Header, mode |-> "wide_sub_columns",
                 subRows |-> [plan |-> row],
                 cols |-> [n \in kept |-> Found[n]], subCols |-> [n \in kept |-> subs[n]]]
<1>1. bands' = Append(bands, b)
  BY DEF WideBand, AddBand
<1>2. DOMAIN bands' = 1 .. 1 /\ bands'[1] = b
  BY <1>1, NoBandYet
<1>3. /\ sheet' = sheet /\ LastDates' = LastDates
      /\ Primary(h)' = Primary(h) /\ StageHeads(h)' = StageHeads(h)
  <2>1. sheet' = sheet
    BY DEF WideBand, NextRow
  <2>2. QED
    BY <2>1 DEF LastDates, DateCols, StageHeads, Primary
<1>4. /\ StageHeads(h) \subseteq Primary(h) /\ Primary(h) \subseteq LastDates /\ LastDates \subseteq Cols
      /\ \A s \in StageHeads(h) : s + 1 \in LastDates \ Primary(h)
      /\ \A c \in Cols : c \in Nat
  BY SubLabelledFacts, SheetSize DEF Cols
<1>5. /\ DOMAIN Found = {sheet[h][c] : c \in Primary(h)}
      /\ \A c \in Primary(h) : sheet[h][c] \in DOMAIN Found /\ Found[sheet[h][c]] = c
  BY DEF NamesColumns
<1>6. \A d \in LastDates \ Primary(h) :
        /\ Owner(Found, d) \in StageHeads(h)
        /\ sheet[h + 1][d] \in DOMAIN subs[sheet[h][Owner(Found, d)]]
        /\ subs[sheet[h][Owner(Found, d)]][sheet[h + 1][d]] = d
  BY <1>4, SubColumnsAre, SubColumnKept
<1>7. \A s \in StageHeads(h) : subs[sheet[h][s]] # <<>>
  <2>1. TAKE s \in StageHeads(h)
  <2>2. s + 1 \in LastDates \ Primary(h) /\ s \in Nat /\ s \in Primary(h)
    BY <1>4
  <2>3. /\ \A p \in Primary(h) : p <= s + 1 => p <= Owner(Found, s + 1)
        /\ Owner(Found, s + 1) \in Primary(h) /\ Owner(Found, s + 1) < s + 1
    BY <1>4, <2>2, SubColumnsAre
  <2>4. Owner(Found, s + 1) \in Nat /\ s <= Owner(Found, s + 1)
    BY <1>4, <2>2, <2>3
  <2>5. Owner(Found, s + 1) = s
    BY <2>2, <2>3, <2>4
  <2>6. sheet[h + 1][s + 1] \in DOMAIN subs[sheet[h][s]]
    BY <1>6, <2>2, <2>5
  <2> HIDE DEF subs
  <2>7. QED
    BY <2>6
<1>8. \A c \in Primary(h) \ StageHeads(h) : subs[sheet[h][c]] = <<>>
  <2>1. TAKE c \in Primary(h) \ StageHeads(h)
  <2>2. sheet[h][c] \in DOMAIN Found /\ Found[sheet[h][c]] = c
    BY <1>5
  <2>3. \A d \in Cols : IsSubColumn(h, Found, d) => Owner(Found, d) # c
    BY SubColumnsAre
  <2>4. QED
    BY <2>2, <2>3, NoSubColumns
<1>9. kept = {sheet[h][s] : s \in StageHeads(h)}
  <2>1. PICK first \in StageHeads(h) : TRUE
    BY SubLabelledFacts
  <2>2. sheet[h][first] \in DOMAIN Found /\ subs[sheet[h][first]] # <<>>
    BY <1>4, <1>5, <1>7
  <2>3. \A c \in Primary(h) \ StageHeads(h) : c \notin MergeAnchors(h)
    BY SubLabelledCells
  <2> HIDE DEF subs
  <2>4. kept = {n \in DOMAIN Found : subs[n] # <<>> \/ Found[n] \in MergeAnchors(Header)}
    BY <2>2 DEF Kept
  <2> HIDE DEF kept
  <2>5. ASSUME NEW n \in kept
        PROVE  n \in {sheet[h][s] : s \in StageHeads(h)}
    <3>1. n \in DOMAIN Found /\ (subs[n] # <<>> \/ Found[n] \in MergeAnchors(h))
      BY <2>4, <2>5
    <3>2. PICK c \in Primary(h) : n = sheet[h][c]
      BY <1>5, <3>1
    <3>3. Found[n] = c
      BY <1>5, <3>2
    <3>4. c \in StageHeads(h)
      BY <1>8, <2>3, <3>1, <3>2, <3>3
    <3>5. QED
      BY <3>2, <3>4
  <2>6. ASSUME NEW s \in StageHeads(h)
        PROVE  sheet[h][s] \in kept
    <3>1. sheet[h][s] \in DOMAIN Found
      BY <1>4, <1>5
    <3>2. QED
      BY <1>7, <2>4, <3>1
  <2>7. QED
    BY <2>5, <2>6
<1>10. \A s \in StageHeads(h) : sheet[h][s] \in kept
  <2> HIDE DEF kept, subs
  <2>1. QED
    BY <1>9
<1>11. /\ b.nameCell = <<h, 1>> /\ b.header = h /\ b.mode = "wide_sub_columns"
       /\ NamesColumns(b.cols, h, StageHeads(h))
       /\ b.subCols = [n \in kept |-> subs[n]] /\ DOMAIN b.cols = kept
  <2> HIDE DEF kept, subs
  <2>1. b.cols = [n \in kept |-> Found[n]] /\ b.subCols = [n \in kept |-> subs[n]]
    OBVIOUS
  <2>2. NamesColumns([n \in kept |-> Found[n]], h, StageHeads(h))
    BY <1>4, <1>5, <1>9, <1>10 DEF NamesColumns
  <2>3. QED
    BY <2>1, <2>2
<1>12. \A d \in LastDates \ Primary(h) :
         \E n \in DOMAIN b.cols, l \in SubLabels :
           l \in DOMAIN b.subCols[n] /\ b.subCols[n][l] = d
  <2> HIDE DEF kept, subs, b
  <2> TAKE d \in LastDates \ Primary(h)
  <2>1. sheet[h + 1][d] \in SubLabels
    BY SubLabelledFacts, SubLabelledCells
  <2>2. sheet[h][Owner(Found, d)] \in kept
    BY <1>6, <1>10
  <2>3. QED
    BY <1>6, <1>11, <2>1, <2>2
<1> HIDE DEF b
<1>13. BandIs(h, StageHeads(h), "wide_sub_columns")'
  BY <1>2, <1>3, <1>11 DEF BandIs, NamesColumns
<1>14. SubColumnsFound(h)'
  BY <1>2, <1>3, <1>12 DEF SubColumnsFound
<1>15. QED
  BY <1>13, <1>14

LEMMA SubLabelledStays ==
  ASSUME sheet' = sheet, merges' = merges, NEW h
  PROVE  /\ SubLabelledSheet(h)' = SubLabelledSheet(h)
         /\ LastDates' = LastDates /\ Primary(h)' = Primary(h) /\ StageHeads(h)' = StageHeads(h)
<1>1. /\ LastDates' = LastDates /\ Primary(h)' = Primary(h) /\ StageHeads(h)' = StageHeads(h)
      /\ SubLabelled(h)' = SubLabelled(h) /\ MergeAnchors(h)' = MergeAnchors(h)
  BY DEF LastDates, DateCols, Primary, StageHeads, SubLabelled, MergeAnchors
<1>2. HeaderRow(h, Primary(h))' = HeaderRow(h, Primary(h))
  BY <1>1 DEF HeaderRow, DateCols
<1>3. DataBelow(h + 2, LastDates)' = DataBelow(h + 2, LastDates)
  BY <1>1 DEF DataBelow, DateCols, SubRowRole
<1>4. QED
  BY <1>1, <1>2, <1>3 DEF SubLabelledSheet

LEMMA SubLabelledStep ==
  ASSUME BandsInv, NEW h \in Rows, SubLabelledFound(h), Detection
  PROVE  SubLabelledFound(h)'
<1>1. /\ Scanning /\ NextRow /\ sheet' = sheet /\ merges' = merges /\ row' = row + 1
      /\ row \in Rows /\ row \in Nat /\ h \in Nat
  BY DetectionStep, SheetSize DEF NextRow, BandsInv, TypeOK, Scanning, Rows
<1>2. SUFFICES ASSUME SubLabelledSheet(h)
               PROVE  IF row' <= h + 2 THEN bands' = <<>>
                      ELSE BandIs(h, StageHeads(h), "wide_sub_columns")' /\ SubColumnsFound(h)'
  BY <1>1, SubLabelledStays DEF SubLabelledFound
<1>3. CASE row <= h + 1
  <2>1. bands = <<>> /\ Cardinality(Dates) < 2 /\ Cardinality(Dates) \in Nat
    BY <1>1, <1>2, <1>3, SubLabelledRows, ColumnsCounted DEF SubLabelledFound, Dates, DateCols
  <2>2. bands' = <<>>
    BY <2>1, DetectionStep DEF NewBand, SeedsBand
  <2>3. QED
    BY <1>1, <1>3, <2>2
<1>4. CASE row = h + 2
  <2>1. bands = <<>>
    BY <1>1, <1>2, <1>4 DEF SubLabelledFound
  <2>2. /\ Dates = LastDates /\ Header = h /\ TitleCell(Header, Dates) = <<h, 1>>
        /\ SubRows(row) = <<>>
    BY <1>1, <1>2, <1>4, SubLabelledRows
  <2>3. NamesColumns(Found, h, Primary(h))
    BY <1>2, <2>2, SubLabelledFacts, SubLabelledCells, StagesNamed DEF Found
  <2>4. DOMAIN Found # {}
    <3>1. PICK c \in Primary(h) : TRUE
      BY <1>2, SubLabelledFacts
    <3>2. sheet[h][c] \in DOMAIN Found
      BY <2>3, <3>1 DEF NamesColumns
    <3>3. QED
      BY <3>2
  <2>5. NewBand
    BY <1>2, <2>1, <2>2, <2>4, SubLabelsCounted, NoBandYet, SheetAssumption DEF NewBand, SeedsBand
  <2>6. WideBand
    BY <2>2, <2>5, DetectionStep
  <2>7. BandIs(h, StageHeads(h), "wide_sub_columns")' /\ SubColumnsFound(h)'
    BY <1>2, <2>1, <2>2, <2>3, <2>6, SubLabelledBandFound
  <2>8. QED
    BY <1>1, <1>4, <2>7
<1>5. CASE row > h + 2
  <2>1. BandIs(h, StageHeads(h), "wide_sub_columns") /\ SubColumnsFound(h)
    BY <1>1, <1>2, <1>5 DEF SubLabelledFound
  <2>2. ~NewBand
    BY <1>1, <1>2, <1>5, <2>1, SubLabelledRows, BandSeenAgain
  <2>3. bands' = bands
    BY <2>2, DetectionStep
  <2>4. BandIs(h, StageHeads(h), "wide_sub_columns")' /\ SubColumnsFound(h)'
    BY <1>1, <2>1, <2>3, SubLabelledStays DEF BandIs, NamesColumns, SubColumnsFound
  <2>5. QED
    BY <1>1, <1>5, <2>4
<1>6. QED
  BY <1>1, <1>3, <1>4, <1>5

-----------------------------------------------------------------------------
(* Detection and reading together *)

LayoutInv == \A h \in Rows : WideFound(h) /\ SubLabelledFound(h) /\ TallFound(h)

\* The stages of each product are read from every band, once all rows were seen.
ReadInv ==
  /\ phase # "scan" => row = MaxRow + 1 /\ nameMap \in NameMaps
  /\ phase = "scan" => stages = <<>>
  /\ \A r \in DOMAIN stages \ {0} :
       r \in ProductRows /\ stages[r] = UNION {StagesOf(k, r) : k \in DOMAIN bands}
StagesInv == BandsInv /\ LayoutInv /\ ReadInv

LEMMA LayoutStays ==
  ASSUME LayoutInv, UNCHANGED scanVars
  PROVE  LayoutInv'
<1>1. sheet' = sheet /\ merges' = merges /\ row' = row /\ bands' = bands
  BY DEF scanVars
<1>2. SUFFICES ASSUME NEW h \in Rows PROVE WideFound(h)' /\ SubLabelledFound(h)' /\ TallFound(h)'
  BY DEF LayoutInv
<1>3. WideFound(h) /\ SubLabelledFound(h) /\ TallFound(h)
  BY DEF LayoutInv
<1>4. WideFound(h)'
  BY <1>1, <1>3, WideStays DEF WideFound, BandIs, NamesColumns
<1>5. SubLabelledFound(h)'
  BY <1>1, <1>3, SubLabelledStays DEF SubLabelledFound, BandIs, NamesColumns, SubColumnsFound
<1>6. TallFound(h)'
  BY <1>1, <1>3, TallStays DEF TallFound, BandIs, NamesColumns, SubRowsFound, Graph
<1>7. QED
  BY <1>4, <1>5, <1>6

LEMMA CellsStay ==
  ASSUME sheet' = sheet, merges' = merges, NEW r, NEW c
  PROVE  CellRead(r, c)' = CellRead(r, c)
BY DEF CellRead, Covers

LEMMA SubCellsStay ==
  ASSUME sheet' = sheet, merges' = merges, nameMap' = nameMap, NEW subs, NEW r
  PROVE  SubCells(subs, r)' = SubCells(subs, r)
<1>1. \A c : CellRead(r, c)' = CellRead(r, c)
  BY CellsStay
<1>2. SubLabelsRead(subs, r)' = SubLabelsRead(subs, r)
  BY <1>1 DEF SubLabelsRead, HasValue, ValueAt
<1>3. QED
  BY <1>1, <1>2 DEF SubCells

LEMMA StagesStay ==
  ASSUME UNCHANGED <<sheet, merges, bands, nameMap>>, NEW k, NEW r
  PROVE  StagesOf(k, r)' = StagesOf(k, r)
<1>1. sheet' = sheet /\ merges' = merges /\ bands' = bands /\ nameMap' = nameMap
  OBVIOUS
<1>2. \A p, c : CellRead(p, c)' = CellRead(p, c)
  BY <1>1, CellsStay
<1>3. \A b, n : PlannedCell(b, n, r)' = PlannedCell(b, n, r)
  BY <1>2 DEF PlannedCell, PlanRow
<1>4. \A b : ReadIn(b, r)' = ReadIn(b, r)
  BY <1>1, <1>3 DEF ReadIn, NamedIn, HasValue, ValueAt
<1>5. \A subs : SubCells(subs, r)' = SubCells(subs, r)
  BY <1>1, SubCellsStay
<1>6. \A b, n : OtherCells(b, n, r)' = OtherCells(b, n, r)
  BY <1>1, <1>5 DEF OtherCells, HasValue, ValueAt
<1>7. QED
  BY <1>1, <1>3, <1>4, <1>6 DEF StagesOf, IsNativeDate, ValueAt

LEMMA ReadProductStep ==
  ASSUME StagesInv, ReadProduct
  PROVE  ReadInv'
<1> DEFINE left == ProductRows \ DOMAIN stages
           r == Min(left)
           all(p) == UNION {StagesOf(k, p) : k \in DOMAIN bands}
<1>1. left \subseteq Rows /\ left # {}
  BY DEF ReadProduct, ProductRows
<1>2. r \in left
  <2>1. left \subseteq Nat
    BY <1>1, SheetSize DEF Rows
  <2> HIDE DEF left
  <2>2. QED
    BY <1>1, <2>1, LeastOf
<1>3. UNCHANGED <<sheet, merges, row, bands, nameMap>> /\ phase = "read" /\ phase' \in {"read", "raised"}
  BY DEF ReadProduct, scanVars
<1>4. ProductRows' = ProductRows
  BY <1>3 DEF ProductRows
<1>5. \A p : UNION {StagesOf(k, p)' : k \in DOMAIN bands'} = all(p)
  BY <1>3, StagesStay
<1>6. stages' = stages \/ stages' = With(stages, r, all(r))
  BY DEF ReadProduct
<1>7. \A p \in DOMAIN stages' \ {0} : p \in ProductRows /\ stages'[p] = all(p)
  <2>1. \A p \in DOMAIN stages \ {0} : p \in ProductRows /\ stages[p] = all(p)
    BY DEF StagesInv, ReadInv
  <2> HIDE DEF r, all, left
  <2>2. CASE stages' = stages
    BY <2>1, <2>2
  <2>3. CASE stages' = With(stages, r, all(r))
    <3>1. r \in ProductRows
      BY <1>2 DEF left
    <3>2. DOMAIN stages' = DOMAIN stages \cup {r}
      BY <2>3 DEF With
    <3>3. \A p \in DOMAIN stages' : stages'[p] = IF p = r THEN all(r) ELSE stages[p]
      BY <2>3 DEF With
    <3>4. QED
      BY <2>1, <3>1, <3>2, <3>3
  <2>4. QED
    BY <1>6, <2>2, <2>3
<1> HIDE DEF all
<1>8. \A p \in DOMAIN stages' \ {0} :
        p \in ProductRows' /\ stages'[p] = UNION {StagesOf(k, p)' : k \in DOMAIN bands'}
  BY <1>4, <1>5, <1>7
<1>9. QED
  BY <1>3, <1>8 DEF ReadInv, StagesInv

LEMMA StagesInitInv == Init => StagesInv
<1> SUFFICES ASSUME Init PROVE StagesInv
  OBVIOUS
<1>1. BandsInv
  BY BandsInitInv
<1>2. row = 1 /\ bands = <<>> /\ phase = "scan" /\ stages = <<>> /\ DOMAIN stages = {}
  BY DEF Init
<1>3. \A h \in Rows : row <= h + 1 /\ row <= h + 2
  BY <1>2, SheetSize DEF Rows
<1>4. LayoutInv
  BY <1>2, <1>3 DEF LayoutInv, WideFound, SubLabelledFound, TallFound
<1>5. QED
  BY <1>1, <1>2, <1>4 DEF StagesInv, ReadInv

LEMMA StagesStepInv == StagesInv /\ [Next]_vars => StagesInv'
<1> SUFFICES ASSUME StagesInv, [Next]_vars PROVE StagesInv'
  OBVIOUS
<1>1. BandsInv'
  BY BandsStepInv DEF StagesInv
<1>2. CASE Detection
  <2>1. LayoutInv'
    BY <1>2, WideStep, SubLabelledStep, TallStep DEF StagesInv, LayoutInv
  <2>2. phase' = "scan" /\ stages' = stages /\ stages = <<>> /\ DOMAIN stages = {}
    BY <1>2, DetectionStep DEF NextRow, Scanning, StagesInv, ReadInv
  <2>3. ReadInv'
    BY <2>2 DEF ReadInv
  <2>4. QED
    BY <1>1, <2>1, <2>3 DEF StagesInv
<1>3. CASE NameFields
  <2>1. LayoutInv'
    BY <1>3, LayoutStays DEF NameFields, StagesInv
  <2>2. /\ phase' = "read" /\ nameMap' \in NameMaps /\ stages' = stages /\ row' = row
        /\ stages = <<>> /\ DOMAIN stages = {} /\ row > MaxRow /\ row \in 1 .. MaxRow + 1
    BY <1>3 DEF NameFields, scanVars, StagesInv, ReadInv, BandsInv, TypeOK
  <2>3. row' = MaxRow + 1
    BY <2>2, SheetSize
  <2>4. ReadInv'
    BY <2>2, <2>3 DEF ReadInv
  <2>5. QED
    BY <1>1, <2>1, <2>4 DEF StagesInv
<1>4. CASE ReadProduct
  <2>1. LayoutInv'
    BY <1>4, LayoutStays DEF ReadProduct, StagesInv
  <2>2. QED
    BY <1>1, <1>4, <2>1, ReadProductStep DEF StagesInv
<1>5. CASE ReadSheet
  <2>1. LayoutInv'
    BY <1>5, LayoutStays DEF ReadSheet, StagesInv
  <2>2. /\ phase = "read" /\ phase' \in {"read", "raised"} /\ stages = <<>> /\ DOMAIN stages = {}
        /\ UNCHANGED <<row, nameMap>>
    BY <1>5 DEF ReadSheet, scanVars
  <2>3. DOMAIN stages' \subseteq {0}
    BY <1>5, <2>2 DEF ReadSheet, With
  <2>4. ReadInv'
    BY <2>2, <2>3 DEF ReadInv, StagesInv
  <2>5. QED
    BY <1>1, <2>1, <2>4 DEF StagesInv
<1>6. CASE UNCHANGED vars
  <2>1. UNCHANGED scanVars /\ UNCHANGED <<sheet, merges, row, bands, phase, nameMap, stages>>
    BY <1>6 DEF vars, scanVars
  <2>2. LayoutInv'
    BY <2>1, LayoutStays DEF StagesInv
  <2>3. ProductRows' = ProductRows
    BY <2>1 DEF ProductRows
  <2>4. \A p : UNION {StagesOf(k, p)' : k \in DOMAIN bands'} = UNION {StagesOf(k, p) : k \in DOMAIN bands}
    BY <2>1, StagesStay
  <2>5. ReadInv'
    BY <2>1, <2>3, <2>4 DEF ReadInv, StagesInv
  <2>6. QED
    BY <1>1, <2>2, <2>5 DEF StagesInv
<1>7. QED
  BY <1>2, <1>3, <1>4, <1>5, <1>6 DEF Next, Detection

LEMMA StagesInvariant == Spec => []StagesInv
BY StagesInitInv, StagesStepInv, PTL DEF Spec

LEMMA OneBandThere ==
  ASSUME BandsInv, NEW h, NEW cols, NEW mode, BandIs(h, cols, mode)
  PROVE  OneBand(h, cols, mode)
<1>1. PICK n \in Nat : n = Len(bands) /\ DOMAIN bands = 1 .. n
  BY DEF BandsInv
<1>2. 1 .. n = 1 .. 1
  BY <1>1 DEF BandIs
<1>3. n = 1
  BY <1>2
<1>4. {<<n1, bands[1].cols[n1]>> : n1 \in DOMAIN bands[1].cols} = {<<sheet[h][c], c>> : c \in cols}
  BY DEF BandIs, NamesColumns
<1>5. QED
  BY <1>1, <1>3, <1>4 DEF OneBand, BandIs

\* On every sheet of the documented wide layout the detector finds one band with
\* exactly the stages named, however many rows of more or fewer dates follow, and
\* gives every column with a sub-label to a stage (detect_stage_bands).
THEOREM WideSheetsAreRead == Spec => []WideLayoutFound
<1>1. StagesInv => WideLayoutFound
  <2> SUFFICES ASSUME StagesInv, Detected, NEW h \in Rows
               PROVE  /\ WideSheet(h) => OneBand(h, DateCols(h + 1), "wide_sub_columns")
                      /\ SubLabelledSheet(h) =>
                           OneBand(h, StageHeads(h), "wide_sub_columns") /\ SubColumnsFound(h)
    BY DEF WideLayoutFound, SubColumnsFound
  <2>1. row \in Nat /\ row > MaxRow /\ h \in Nat /\ MaxRow \in Nat
    BY SheetSize DEF StagesInv, BandsInv, TypeOK, Detected, Rows
  <2>2. ASSUME WideSheet(h) PROVE OneBand(h, DateCols(h + 1), "wide_sub_columns")
    <3>1. h + 1 \in Rows
      BY <2>2, BelowFacts DEF WideSheet
    <3>2. row > h + 1
      BY <2>1, <3>1 DEF Rows
    <3>3. BandIs(h, DateCols(h + 1), "wide_sub_columns")
      BY <2>1, <2>2, <3>2 DEF StagesInv, LayoutInv, WideFound
    <3>4. QED
      BY <3>3, OneBandThere DEF StagesInv
  <2>3. ASSUME SubLabelledSheet(h)
        PROVE  OneBand(h, StageHeads(h), "wide_sub_columns") /\ SubColumnsFound(h)
    <3>1. h + 2 \in Rows
      BY <2>3, SubLabelledFacts
    <3>2. row > h + 2
      BY <2>1, <3>1 DEF Rows
    <3>3. BandIs(h, StageHeads(h), "wide_sub_columns") /\ SubColumnsFound(h)
      BY <2>1, <2>3, <3>2 DEF StagesInv, LayoutInv, SubLabelledFound
    <3>4. QED
      BY <3>3, OneBandThere DEF StagesInv
  <2>4. QED
    BY <2>2, <2>3
<1>2. QED
  BY <1>1, StagesInvariant, PTL

\* On every sheet of the documented tall layout the detector finds one band, whatever
\* dates the rows below hold; its sub-rows are the first row of each role, and of a
\* role met only below the sixth row there is none (detect_stage_bands, _collect_sub_rows).
THEOREM TallSheetsAreRead == Spec => []TallLayoutFound
<1>1. StagesInv => TallLayoutFound
  <2> SUFFICES ASSUME StagesInv, Detected, NEW h \in Rows, TallSheet(h)
               PROVE  OneBand(h, DateCols(h + 1), "tall_sub_rows") /\ SubRowsFound(h)
    BY DEF TallLayoutFound, SubRowsFound, Graph, NearRoles
  <2>1. row \in Nat /\ row > MaxRow /\ h \in Nat /\ MaxRow \in Nat
    BY SheetSize DEF StagesInv, BandsInv, TypeOK, Detected, Rows
  <2>2. h + 1 \in Rows
    BY BelowFacts DEF TallSheet
  <2>3. row > h + 1
    BY <2>1, <2>2 DEF Rows
  <2>4. BandIs(h, DateCols(h + 1), "tall_sub_rows") /\ SubRowsFound(h)
    BY <2>1, <2>3 DEF StagesInv, LayoutInv, TallFound
  <2>5. QED
    BY <2>4, OneBandThere DEF StagesInv
<1>2. QED
  BY <1>1, StagesInvariant, PTL

\* The stages of a product: one for each column of the one band with a value in its row.
LEMMA ProductOfOneBand ==
  ASSUME StagesInv, NEW r \in DOMAIN stages \ {0}, NEW h, NEW heads, heads \subseteq Cols,
         BandIs(h, heads, "wide_sub_columns"),
         \A c, d \in heads : sheet[h][c] = sheet[h][d] => c = d
  PROVE  LET named == {c \in heads : sheet[h][c] \notin nameMap.ignored /\ HasValue(CellRead(r, c))}
         IN  /\ Cardinality(stages[r]) = Cardinality(named)
             /\ {<<s.name, s.cells["planned_date"]>> : s \in stages[r]} =
                  {<<sheet[h][c], CellRead(r, c)>> : c \in named}
<1> DEFINE b == bands[1]
           named == {c \in heads : sheet[h][c] \notin nameMap.ignored /\ HasValue(CellRead(r, c))}
           stage(n) == [band |-> 1, name |-> n,
                        planned |-> IsNativeDate(ValueAt(PlannedCell(b, n, r))),
                        cells |-> With(OtherCells(b, n, r), "planned_date", PlannedCell(b, n, r))]
<1>1. b.mode = "wide_sub_columns" /\ NamesColumns(b.cols, h, heads) /\ DOMAIN bands = 1 .. 1
  BY DEF BandIs
<1> HIDE DEF b
<1>2. stages[r] = StagesOf(1, r)
  <2>1. stages[r] = UNION {StagesOf(k, r) : k \in 1 .. 1}
    BY <1>1 DEF StagesInv, ReadInv
  <2>2. 1 .. 1 = {1}
    OBVIOUS
  <2>3. {StagesOf(k, r) : k \in {1}} = {StagesOf(1, r)}
    OBVIOUS
  <2>4. QED
    BY <2>1, <2>2, <2>3
<1>3. ASSUME NEW c \in heads
      PROVE  /\ sheet[h][c] \in DOMAIN b.cols /\ b.cols[sheet[h][c]] = c
             /\ PlannedCell(b, sheet[h][c], r) = CellRead(r, c)
  <2>1. sheet[h][c] \in DOMAIN b.cols /\ b.cols[sheet[h][c]] = c
    BY <1>1 DEF NamesColumns
  <2>2. PlanRow(b, r) = r
    BY <1>1 DEF PlanRow
  <2>3. QED
    BY <2>1, <2>2 DEF PlannedCell
<1>4. ReadIn(b, r) = {sheet[h][c] : c \in named}
  <2>1. DOMAIN b.cols = {sheet[h][c] : c \in heads}
    BY <1>1 DEF NamesColumns
  <2>2. ReadIn(b, r) = {n \in DOMAIN b.cols : n \notin nameMap.ignored /\ HasValue(PlannedCell(b, n, r))}
    BY DEF ReadIn, NamedIn
  <2>3. QED
    BY <1>3, <2>1, <2>2
<1>5. StagesOf(1, r) = {stage(n) : n \in ReadIn(b, r)}
  BY DEF StagesOf, b
<1>6. \A n : stage(n).name = n /\ stage(n).cells["planned_date"] = PlannedCell(b, n, r)
  BY DEF With
<1> HIDE DEF stage
<1>7. stages[r] = {stage(sheet[h][c]) : c \in named}
  BY <1>2, <1>4, <1>5
<1>8. {<<s.name, s.cells["planned_date"]>> : s \in stages[r]} = {<<sheet[h][c], CellRead(r, c)>> : c \in named}
  <2> DEFINE pair(s) == <<s.name, s.cells["planned_date"]>>
  <2>1. \A c \in named : pair(stage(sheet[h][c])) = <<sheet[h][c], CellRead(r, c)>>
    BY <1>3, <1>6
  <2> HIDE DEF named, pair
  <2>2. {pair(s) : s \in stages[r]} = {<<sheet[h][c], CellRead(r, c)>> : c \in named}
    BY <1>7, <2>1
  <2> USE DEF pair
  <2>3. QED
    BY <2>2
<1>9. Cardinality(stages[r]) = Cardinality(named)
  <2> DEFINE f == [c \in named |-> stage(sheet[h][c])]
  <2>1. \A c, d \in named : stage(sheet[h][c]) = stage(sheet[h][d]) => c = d
    <3>1. \A c, d \in named : stage(sheet[h][c]) = stage(sheet[h][d]) => sheet[h][c] = sheet[h][d]
      BY <1>6
    <3>2. QED
      BY <3>1
  <2>2. f \in Bijection(named, stages[r])
    <3> HIDE DEF named
    <3>1. f \in [named -> stages[r]]
      BY <1>7
    <3>2. \A t \in stages[r] : \E c \in named : f[c] = t
      BY <1>7
    <3>3. \A c, d \in named : f[c] = f[d] => c = d
      BY <2>1
    <3>4. QED
      BY <3>1, <3>2, <3>3 DEF Bijection, Injection, IsInjective, Surjection
  <2>3. IsFiniteSet(named)
    BY ColumnsCounted
  <2> HIDE DEF f, named
  <2>4. QED
    BY <2>2, <2>3, FS_Bijection DEF ExistsBijection
<1>10. QED
  BY <1>8, <1>9

\* On every sheet of the documented wide layout every product below the header is read
\* one stage for each column that holds something in its row, with the name above it and
\* the address of that cell, and nothing of another row; an empty cell inside a merged
\* region stands for the region's first (_read_stages over what detect_stage_bands found).
THEOREM ProductsReadOwnDates == Spec => []ProductsReadTheirDates
<1>1. StagesInv => ProductsReadTheirDates
  <2> SUFFICES ASSUME StagesInv, NEW r \in DOMAIN stages \ {0}, NEW h \in 1 .. r - 1,
                      WideSheet(h) \/ SubLabelledSheet(h)
               PROVE  LET heads == IF WideSheet(h) THEN DateCols(h + 1) ELSE StageHeads(h)
                          named == {c \in heads : sheet[h][c] \notin nameMap.ignored
                                                  /\ HasValue(CellRead(r, c))}
                      IN  /\ Cardinality(stages[r]) = Cardinality(named)
                          /\ {<<s.name, s.cells["planned_date"]>> : s \in stages[r]} =
                               {<<sheet[h][c], CellRead(r, c)>> : c \in named}
    BY DEF ProductsReadTheirDates
  <2>1. r \in ProductRows /\ row = MaxRow + 1 /\ sheet[r][1] \in Products
    <3>1. phase # "scan"
      BY DEF StagesInv, ReadInv
    <3>2. QED
      BY <3>1 DEF StagesInv, ReadInv, ProductRows
  <2>2. r \in Nat /\ r <= MaxRow /\ MaxRow \in Nat /\ h \in Rows /\ h \in Nat /\ h + 1 <= r /\ row \in Nat
    BY <2>1, SheetSize DEF ProductRows, Rows
  <2>3. CASE WideSheet(h)
    <3>1. BandIs(h, DateCols(h + 1), "wide_sub_columns")
      BY <2>1, <2>2, <2>3 DEF StagesInv, LayoutInv, WideFound
    <3>2. /\ DateCols(h + 1) \subseteq Cols
          /\ \A c, d \in DateCols(h + 1) : sheet[h][c] = sheet[h][d] => c = d
      BY <2>2, <2>3, BelowFacts DEF WideSheet
    <3>3. QED
      BY <2>3, <3>1, <3>2, ProductOfOneBand
  <2>4. CASE ~WideSheet(h) /\ SubLabelledSheet(h)
    <3>1. r # h + 1
      <4>1. SUFFICES ASSUME r = h + 1 PROVE FALSE
        OBVIOUS
      <4>2. sheet[h + 1][1] \in Texts
        BY <2>1, <4>1 DEF Texts
      <4>3. 1 \in Cols \ SubLabelled(h)
        BY <2>2, <2>4, SubLabelledFacts
      <4>4. sheet[h + 1][1] = Empty
        BY <2>2, <2>4, <4>3, SubLabelledCells
      <4>5. QED
        BY <4>2, <4>4, NameCell
    <3>2. row > h + 2
      BY <2>1, <2>2, <3>1
    <3>3. BandIs(h, StageHeads(h), "wide_sub_columns")
      BY <2>2, <2>4, <3>2 DEF StagesInv, LayoutInv, SubLabelledFound
    <3>4. StageHeads(h) \subseteq Cols
      BY <2>2, <2>4, SubLabelledFacts
    <3>5. \A c, d \in StageHeads(h) : sheet[h][c] = sheet[h][d] => c = d
      BY <2>2, <2>4, SubLabelledFacts, SubLabelledCells
    <3>6. QED
      BY <2>4, <3>3, <3>4, <3>5, ProductOfOneBand
  <2>5. QED
    BY <2>3, <2>4
<1>2. QED
  BY <1>1, StagesInvariant, PTL
=============================================================================
