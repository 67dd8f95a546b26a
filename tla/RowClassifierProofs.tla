------------------------ MODULE RowClassifierProofs ------------------------
(***************************************************************************)
(* Proofs about the row scan, for every sheet of every size: its type      *)
(* invariant, that the roles and groups it gives fit together, and that    *)
(* the rows it takes for totals are the sums of the rows above them.       *)
(***************************************************************************)
EXTENDS RowClassifier, TLAPS, WellFoundedInduction

\* What the scan remembers agrees with the roles it has given.
MemoryOfAnchors ==
  /\ firstDataRow = None <=> lastAnchor = None
  /\ lastAnchor = None <=> lastGroup = None
  /\ lastAnchor = None => Anchors = {}
  /\ lastAnchor # None =>
       /\ lastAnchor \in Anchors
       /\ rows[lastAnchor].group = lastGroup
       /\ \A j \in Anchors : j <= lastAnchor

GroupsAreOld == \A i \in Anchors : rows[i].group \in Nat /\ rows[i].group < nextGroup

\* classify_rows appends exactly one RowSpec per row, in order; an ANCHOR has no anchor_idx.
RowsWellFormed ==
  \A i \in DOMAIN rows : rows[i].idx = i /\ (rows[i].role = "anchor" => rows[i].anchor = None)

ScanInv ==
  /\ ScanTypeOK
  /\ RowsWellFormed
  /\ MemoryOfAnchors
  /\ GroupsAreOld
  /\ ChildrenBelongToNearestAnchor
  /\ GroupsAreDistinct
  /\ HeaderBandPrecedesData

-----------------------------------------------------------------------------
\* The current row is one of the sheet's.
LEMMA RowTyped ==
  ASSUME ScanTypeOK, Scanning
  PROVE  /\ Cur \in Nat \ {0} /\ Cur = Len(rows) + 1 /\ Cur <= MaxRow
         /\ Row \in RowKind
BY ConstantsAssumption DEF ScanTypeOK, Scanning, Cur, Row, Rows, RowKind

\* What emitting one RowSpec does to the list of rows.
LEMMA EmitAppends ==
  ASSUME ScanTypeOK, Scanning,
         NEW role \in Roles, NEW anchor \in Nat \cup {None}, NEW group \in Nat \cup {None},
         Emit(role, anchor, group)
  PROVE  /\ rows' \in Seq(RowSpec) /\ Len(rows') = Cur
         /\ DOMAIN rows' = DOMAIN rows \cup {Cur} /\ DOMAIN rows = 1 .. Cur - 1
         /\ \A i \in DOMAIN rows : rows'[i] = rows[i]
         /\ rows'[Cur].role = role /\ rows'[Cur].anchor = anchor /\ rows'[Cur].group = group
         /\ RowsWellFormed /\ (role = "anchor" => anchor = None) => RowsWellFormed'
<1>1. [idx |-> Cur, role |-> role, anchor |-> anchor, group |-> group] \in RowSpec
  BY RowTyped DEF RowSpec
<1>2. QED
  BY <1>1, RowTyped DEF Emit, ScanTypeOK, RowsWellFormed

\* Remembering a quantity keeps recent_qtys well typed.
LEMMA CountQtyTyped ==
  ASSUME ScanTypeOK, Scanning, NEW group \in Nat, CountQty(group)
  PROVE  recentQtys' \in Seq([group: Nat, qty: Int])
<1>1. Row.qty \in Int \cup {None}
  BY RowTyped DEF RowKind
<1>2. recentQtys \in Seq([group: Nat, qty: Int])
  BY DEF ScanTypeOK
<1>3. CASE Row.qty = None
  BY <1>2, <1>3 DEF CountQty
<1>4. CASE Row.qty # None
  <2>1. [group |-> group, qty |-> Row.qty] \in [group: Nat, qty: Int]
    BY <1>1, <1>4
  <2>2. QED
    BY <1>2, <1>4, <2>1 DEF CountQty
<1>5. QED
  BY <1>3, <1>4

\* A row that is neither ANCHOR nor CHILD leaves the memory and the groups alone.
LEMMA PlainRowKeepsInv ==
  ASSUME ScanInv, Scanning, NEW role \in Roles \ DataRoles,
         Emit(role, None, None),
         role = "header" => firstDataRow = None,
         role = "repeat_header" => firstDataRow # None,
         UNCHANGED <<sheet, firstDataRow, lastAnchor, lastGroup, nextGroup, recentQtys>>
  PROVE  ScanInv'
<1>1. ScanTypeOK /\ role \in Roles
  BY DEF ScanInv
<1>2. /\ rows' \in Seq(RowSpec) /\ Len(rows') = Cur
      /\ DOMAIN rows' = DOMAIN rows \cup {Cur} /\ DOMAIN rows = 1 .. Cur - 1
      /\ \A i \in DOMAIN rows : rows'[i] = rows[i]
      /\ rows'[Cur].role = role
      /\ RowsWellFormed'
  BY <1>1, EmitAppends DEF ScanInv
<1>3. Cur \in Nat \ {0} /\ Cur <= MaxRow
  BY <1>1, RowTyped
<1>4. Anchors' = Anchors
  BY <1>2 DEF Anchors, IsRole, DataRoles
<1>5. \A i \in Anchors : i \in DOMAIN rows
  BY DEF Anchors
<1>6. ScanTypeOK'
  BY <1>1, <1>2, <1>3 DEF ScanTypeOK, Rows
<1>7. MemoryOfAnchors'
  BY <1>2, <1>4, <1>5 DEF ScanInv, MemoryOfAnchors
<1>8. GroupsAreOld' /\ GroupsAreDistinct'
  BY <1>2, <1>4, <1>5 DEF ScanInv, GroupsAreOld, GroupsAreDistinct
<1>9. ChildrenBelongToNearestAnchor'
  BY <1>2, <1>4, <1>5 DEF ScanInv, ChildrenBelongToNearestAnchor, IsRole, DataRoles
<1>10. HeaderBandPrecedesData'
  <2>1. role = "header" => Anchors = {}
    BY DEF ScanInv, MemoryOfAnchors
  <2>2. role = "repeat_header" => \E j \in Anchors : j < Cur
    BY <1>2, <1>3, <1>5 DEF ScanInv, MemoryOfAnchors
  <2>3. QED
    BY <1>2, <1>4, <1>5, <2>1, <2>2 DEF ScanInv, HeaderBandPrecedesData, IsRole
<1>11. QED
  BY <1>2, <1>6, <1>7, <1>8, <1>9, <1>10 DEF ScanInv

LEMMA IdentityRowKeepsInv ==
  ASSUME ScanInv, IdentityRow
  PROVE  ScanInv'
<1>1. ScanTypeOK /\ Scanning /\ nextGroup \in Nat /\ "anchor" \in Roles
  BY DEF ScanInv, IdentityRow, ScanTypeOK, Roles
<1>2. /\ rows' \in Seq(RowSpec) /\ Len(rows') = Cur
      /\ DOMAIN rows' = DOMAIN rows \cup {Cur} /\ DOMAIN rows = 1 .. Cur - 1
      /\ \A i \in DOMAIN rows : rows'[i] = rows[i]
      /\ rows'[Cur].role = "anchor" /\ rows'[Cur].group = nextGroup
      /\ RowsWellFormed'
  BY <1>1, EmitAppends DEF IdentityRow, ScanInv
<1>3. Cur \in Nat \ {0} /\ Cur <= MaxRow
  BY <1>1, RowTyped
<1>4. Anchors' = Anchors \cup {Cur}
  BY <1>2 DEF Anchors, IsRole
<1>5. \A i \in Anchors : i \in DOMAIN rows /\ i < Cur
  BY <1>2, <1>3 DEF Anchors
<1>6. ScanTypeOK'
  <2>1. recentQtys' \in Seq([group: Nat, qty: Int])
    BY <1>1, CountQtyTyped DEF IdentityRow
  <2>2. QED
    BY <1>1, <1>2, <1>3, <2>1 DEF ScanTypeOK, IdentityRow, OpenGroup, Rows
<1>7. MemoryOfAnchors'
  <2>1. lastAnchor' = Cur /\ lastGroup' = nextGroup /\ firstDataRow' # None
    BY <1>3, ConstantsAssumption DEF IdentityRow, OpenGroup
  <2>2. lastAnchor' # None /\ lastGroup' # None
    BY <1>1, <1>3, <2>1, ConstantsAssumption
  <2>3. QED
    BY <1>2, <1>3, <1>4, <1>5, <2>1, <2>2 DEF MemoryOfAnchors
<1>8. GroupsAreOld' /\ GroupsAreDistinct'
  <2>1. nextGroup' = nextGroup + 1
    BY DEF IdentityRow, OpenGroup
  <2>2. QED
    BY <1>1, <1>2, <1>3, <1>4, <1>5, <2>1 DEF ScanInv, GroupsAreOld, GroupsAreDistinct
<1>9. ChildrenBelongToNearestAnchor'
  BY <1>2, <1>3, <1>4, <1>5 DEF ScanInv, ChildrenBelongToNearestAnchor, IsRole
<1>10. HeaderBandPrecedesData'
  BY <1>2, <1>3, <1>4, <1>5 DEF ScanInv, HeaderBandPrecedesData, IsRole
<1>11. QED
  BY <1>2, <1>6, <1>7, <1>8, <1>9, <1>10 DEF ScanInv

LEMMA MergedRowKeepsInv ==
  ASSUME ScanInv, MergedRow
  PROVE  ScanInv'
<1>1. ScanTypeOK /\ Scanning /\ "child" \in Roles /\ lastAnchor # None /\ lastGroup # None
  BY DEF ScanInv, MergedRow, Roles, IsChildRow, MemoryOfAnchors
<1>2. lastAnchor \in Nat /\ lastGroup \in Nat
  BY <1>1 DEF ScanTypeOK
<1>3. /\ rows' \in Seq(RowSpec) /\ Len(rows') = Cur
      /\ DOMAIN rows' = DOMAIN rows \cup {Cur} /\ DOMAIN rows = 1 .. Cur - 1
      /\ \A i \in DOMAIN rows : rows'[i] = rows[i]
      /\ rows'[Cur].role = "child" /\ rows'[Cur].anchor = lastAnchor
      /\ rows'[Cur].group = lastGroup
      /\ RowsWellFormed'
  BY <1>1, <1>2, EmitAppends DEF MergedRow, ScanInv
<1>4. Cur \in Nat \ {0} /\ Cur <= MaxRow
  BY <1>1, RowTyped
<1>5. Anchors' = Anchors
  BY <1>3 DEF Anchors, IsRole
<1>6. \A i \in Anchors : i \in DOMAIN rows /\ i < Cur
  BY <1>3, <1>4 DEF Anchors
<1>7. ScanTypeOK'
  <2>1. recentQtys' \in Seq([group: Nat, qty: Int])
    BY <1>1, <1>2, CountQtyTyped DEF MergedRow
  <2>2. QED
    BY <1>1, <1>3, <1>4, <2>1 DEF ScanTypeOK, MergedRow, Rows
<1>8. MemoryOfAnchors' /\ GroupsAreOld' /\ GroupsAreDistinct'
  BY <1>3, <1>5, <1>6 DEF ScanInv, MergedRow, MemoryOfAnchors, GroupsAreOld, GroupsAreDistinct
<1>9. ChildrenBelongToNearestAnchor'
  <2>1. /\ lastAnchor \in Anchors /\ rows[lastAnchor].group = lastGroup
        /\ \A j \in Anchors : j <= lastAnchor
    BY <1>1 DEF ScanInv, MemoryOfAnchors
  <2>2. QED
    BY <1>3, <1>4, <1>5, <1>6, <2>1 DEF ScanInv, ChildrenBelongToNearestAnchor, IsRole
<1>10. HeaderBandPrecedesData'
  BY <1>3, <1>5, <1>6 DEF ScanInv, HeaderBandPrecedesData, IsRole
<1>11. QED
  BY <1>3, <1>7, <1>8, <1>9, <1>10 DEF ScanInv

LEMMA NoIdentityColumnKeepsInv ==
  ASSUME ScanInv, NoIdentityColumn
  PROVE  ScanInv'
<1>1. MaxRow \in Nat /\ rows = <<>>
  BY ConstantsAssumption DEF NoIdentityColumn
<1>2. \A i \in Rows : [idx |-> i, role |-> "blank", anchor |-> None, group |-> None] \in RowSpec
  BY <1>1 DEF Rows, RowSpec, Roles
<1>3. rows' \in Seq(RowSpec) /\ Len(rows') = MaxRow /\ DOMAIN rows' = Rows
  BY <1>1, <1>2 DEF NoIdentityColumn, Rows
<1>4. \A i \in DOMAIN rows' : rows'[i].role = "blank"
  BY <1>3 DEF NoIdentityColumn
<1>5. Anchors' = {} /\ Anchors = {}
  BY <1>1, <1>4 DEF Anchors, IsRole
<1>6. ScanTypeOK'
  BY <1>1, <1>3 DEF ScanInv, ScanTypeOK, NoIdentityColumn
<1>7. MemoryOfAnchors'
  BY <1>5 DEF ScanInv, MemoryOfAnchors, NoIdentityColumn
<1>8. GroupsAreOld' /\ GroupsAreDistinct' /\ ChildrenBelongToNearestAnchor' /\ HeaderBandPrecedesData'
  BY <1>4, <1>5 DEF GroupsAreOld, GroupsAreDistinct, ChildrenBelongToNearestAnchor,
                    HeaderBandPrecedesData, IsRole
<1>9. RowsWellFormed'
  BY <1>3 DEF RowsWellFormed, NoIdentityColumn
<1>10. QED
  BY <1>6, <1>7, <1>8, <1>9 DEF ScanInv

LEMMA ScanInitInv == ScanInit => ScanInv
<1> SUFFICES ASSUME ScanInit PROVE ScanInv
  OBVIOUS
<1>1. rows = <<>> /\ Anchors = {} /\ DOMAIN rows = {}
  BY DEF ScanInit, Anchors
<1>2. ScanTypeOK
  BY <1>1, ConstantsAssumption DEF ScanInit, ScanTypeOK
<1>3. QED
  BY <1>1, <1>2 DEF ScanInit, ScanInv, RowsWellFormed, MemoryOfAnchors, GroupsAreOld, GroupsAreDistinct,
                    ChildrenBelongToNearestAnchor, HeaderBandPrecedesData

LEMMA ScanStepInv == ScanInv /\ [ScanNext]_scanVars => ScanInv'
<1> SUFFICES ASSUME ScanInv, [ScanNext]_scanVars PROVE ScanInv'
  OBVIOUS
<1>1. CASE NoIdentityColumn
  BY <1>1, NoIdentityColumnKeepsInv
<1>2. CASE EmptyRow \/ FillerRow
  BY <1>2, PlainRowKeepsInv DEF EmptyRow, FillerRow, Roles, DataRoles
<1>3. CASE HeaderTermRow
  BY <1>3, PlainRowKeepsInv DEF HeaderTermRow, BandRole, Roles, DataRoles
<1>4. CASE IdentityRow
  BY <1>4, IdentityRowKeepsInv
<1>5. CASE MergedRow
  BY <1>5, MergedRowKeepsInv
<1>6. CASE QuantityRow
  BY <1>6, PlainRowKeepsInv DEF QuantityRow, Roles, DataRoles
<1>7. CASE UNCHANGED scanVars
  BY <1>7 DEF scanVars, ScanInv, ScanTypeOK, RowsWellFormed, MemoryOfAnchors, GroupsAreOld, GroupsAreDistinct,
              ChildrenBelongToNearestAnchor, HeaderBandPrecedesData, Anchors, IsRole
<1>8. QED
  BY <1>1, <1>2, <1>3, <1>4, <1>5, <1>6, <1>7 DEF ScanNext

LEMMA ScanInvariant == ScanSpec => []ScanInv
BY ScanInitInv, ScanStepInv, PTL DEF ScanSpec

-----------------------------------------------------------------------------
\* The state of the scan is well typed for every sheet (classify_rows).
THEOREM ScanTyping == ScanSpec => []ScanTypeOK
<1>1. ScanInv => ScanTypeOK
  BY DEF ScanInv
<1>2. QED
  BY <1>1, ScanInvariant, PTL

\* A CHILD row always points back at the nearest ANCHOR above it, in its group.
THEOREM ChildrenSafe == ScanSpec => []ChildrenBelongToNearestAnchor
<1>1. ScanInv => ChildrenBelongToNearestAnchor
  BY DEF ScanInv
<1>2. QED
  BY <1>1, ScanInvariant, PTL

\* No two ANCHOR rows ever share a group id.
THEOREM GroupsSafe == ScanSpec => []GroupsAreDistinct
<1>1. ScanInv => GroupsAreDistinct
  BY DEF ScanInv
<1>2. QED
  BY <1>1, ScanInvariant, PTL

\* The header band lies above all data and repeated headers lie below some.
THEOREM HeaderBandSafe == ScanSpec => []HeaderBandPrecedesData
<1>1. ScanInv => HeaderBandPrecedesData
  BY DEF ScanInv
<1>2. QED
  BY <1>1, ScanInvariant, PTL

-----------------------------------------------------------------------------
\* f holds the sums of the prefixes of q, up to its first n elements.
AreSums(f, q, n) == f = [k \in 0 .. n |-> IF k = 0 THEN 0 ELSE f[k - 1] + q[k]]
PartialSums(q, n) == CHOOSE f : AreSums(f, q, n)

\* In a non-empty set of natural numbers one is not above any other.
LEMMA LowestOfNat ==
  ASSUME NEW S, S \subseteq Nat, S # {}
  PROVE  \E x \in S : \A y \in S : x <= y
<1>1. PICK x \in S : \A y \in S : ~ (<<y, x>> \in OpToRel(<, Nat))
  BY WFMin, NatLessThanWellFounded
<1>2. \A y \in S : x <= y
  <2>1. TAKE y \in S
  <2>2. <<y, x>> \in Nat \X Nat
    OBVIOUS
  <2>3. ~(y < x)
    BY <1>1, <2>2 DEF OpToRel
  <2>4. QED
    BY <2>3
<1>3. QED
  BY <1>2

\* Every sequence has its prefix sums: the recursion of Total defines a function.
LEMMA SumsExist ==
  ASSUME NEW q, NEW n \in Nat
  PROVE  AreSums(PartialSums(q, n), q, n)
<1> DEFINE Bad == {m \in Nat : ~\E f : AreSums(f, q, m)}
<1>1. SUFFICES Bad = {}
  BY DEF PartialSums
<1>2. SUFFICES ASSUME Bad # {} PROVE FALSE
  OBVIOUS
<1>3. PICK m \in Bad : \A k \in Bad : m <= k
  <2>1. Bad \subseteq Nat
    OBVIOUS
  <2> HIDE DEF Bad
  <2>2. QED
    BY <1>2, <2>1, LowestOfNat
<1>4. m \in Nat
  OBVIOUS
<1>5. CASE m = 0
  <2>1. AreSums([k \in 0 .. 0 |-> 0], q, 0)
    BY DEF AreSums
  <2>2. QED
    BY <1>5, <2>1
<1>6. CASE m # 0
  <2>1. m - 1 \in Nat /\ ~(m <= m - 1)
    BY <1>4, <1>6
  <2>2. m - 1 \notin Bad
    BY <1>3, <2>1
  <2>3. PICK f : AreSums(f, q, m - 1)
    BY <2>1, <2>2
  <2> DEFINE g == [k \in 0 .. m |-> IF k = m THEN f[m - 1] + q[m] ELSE f[k]]
  <2>4. \A k \in 0 .. m : g[k] = IF k = 0 THEN 0 ELSE g[k - 1] + q[k]
    <3>1. TAKE k \in 0 .. m
    <3>2. CASE k = m
      BY <1>4, <1>6, <3>2
    <3>3. CASE k # m
      <4>1. k \in 0 .. m - 1 /\ (k # 0 => k - 1 \in 0 .. m - 1)
        BY <1>4, <3>3
      <4>2. f[k] = IF k = 0 THEN 0 ELSE f[k - 1] + q[k]
        BY <2>3, <4>1 DEF AreSums
      <4>3. g[k] = f[k] /\ (k # 0 => g[k - 1] = f[k - 1])
        BY <1>4, <3>3, <4>1
      <4>4. QED
        BY <4>2, <4>3
    <3>4. QED
      BY <3>2, <3>3
  <2>5. AreSums(g, q, m)
    <3>1. g = [k \in 0 .. m |-> g[k]]
      OBVIOUS
    <3> HIDE DEF g
    <3>2. QED
      BY <2>4, <3>1 DEF AreSums
  <2>6. QED
    BY <2>5
<1>7. QED
  BY <1>5, <1>6

\* The sums of two sequences agree as far as the sequences do.
LEMMA SumsAgree ==
  ASSUME NEW q, NEW r, NEW m \in Nat, NEW n \in Nat, NEW l \in Nat, l <= m, l <= n,
         \A k \in 1 .. l : q[k] = r[k]
  PROVE  PartialSums(q, m)[l] = PartialSums(r, n)[l]
<1> DEFINE f == PartialSums(q, m)
           g == PartialSums(r, n)
           Bad == {k \in 0 .. l : f[k] # g[k]}
<1>1. /\ \A k \in 0 .. l : f[k] = IF k = 0 THEN 0 ELSE f[k - 1] + q[k]
      /\ \A k \in 0 .. l : g[k] = IF k = 0 THEN 0 ELSE g[k - 1] + r[k]
  <2>1. AreSums(f, q, m) /\ AreSums(g, r, n)
    BY SumsExist
  <2> HIDE DEF f, g
  <2>2. QED
    BY <2>1 DEF AreSums
<1> HIDE DEF f, g
<1>2. SUFFICES ASSUME Bad # {} PROVE FALSE
  BY DEF f, g
<1>3. PICK k \in Bad : \A j \in Bad : k <= j
  <2>1. Bad \subseteq Nat
    OBVIOUS
  <2> HIDE DEF Bad
  <2>2. QED
    BY <1>2, <2>1, LowestOfNat
<1>4. k \in 0 .. l /\ f[k] # g[k]
  OBVIOUS
<1>5. k # 0
  BY <1>1, <1>4
<1>6. k - 1 \in 0 .. l /\ ~(k <= k - 1) /\ k \in 1 .. l
  BY <1>4, <1>5
<1>7. f[k - 1] = g[k - 1]
  BY <1>3, <1>6
<1>8. QED
  BY <1>1, <1>4, <1>5, <1>6, <1>7

\* Total is the last of the prefix sums.
LEMMA TotalIsPartial ==
  ASSUME NEW q
  PROVE  Total(q) = PartialSums(q, Len(q))[Len(q)]
BY DEF Total, PartialSums, AreSums

\* A function on 1 .. n is a sequence of length n.
LEMMA LengthOf ==
  ASSUME NEW n \in Nat, NEW f, f = [k \in 1 .. n |-> f[k]]
  PROVE  Len(f) = n
OBVIOUS

\* One more number adds itself to the total.
LEMMA TotalNext ==
  ASSUME NEW n \in Nat, NEW f, NEW g,
         f = [k \in 1 .. n |-> f[k]], g = [k \in 1 .. n + 1 |-> g[k]],
         \A k \in 1 .. n : f[k] = g[k]
  PROVE  Total(g) = Total(f) + g[n + 1]
<1>1. PICK m \in Nat : m = n + 1
  OBVIOUS
<1>2. Len(f) = n /\ Len(g) = m
  BY <1>1, LengthOf
<1>3. /\ Total(f) = PartialSums(f, n)[n]
      /\ Total(g) = PartialSums(g, m)[m]
  BY <1>2, TotalIsPartial, Zenon
<1> DEFINE h == PartialSums(g, m)
<1>4. \A k \in 0 .. m : h[k] = IF k = 0 THEN 0 ELSE h[k - 1] + g[k]
  <2>1. AreSums(h, g, m)
    BY SumsExist
  <2> HIDE DEF h
  <2>2. QED
    BY <2>1 DEF AreSums
<1>5. PartialSums(f, n)[n] = h[n]
  <2>1. n <= n /\ n <= m
    BY <1>1
  <2>2. QED
    BY ONLY <2>1, n \in Nat, m \in Nat, \A k \in 1 .. n : f[k] = g[k], SumsAgree
<1> HIDE DEF h
<1>6. h[m] = h[n] + g[m]
  <2>1. m \in 0 .. m /\ m # 0 /\ m - 1 = n
    BY <1>1
  <2>2. QED
    BY <1>4, <2>1
<1>7. QED
  BY <1>1, <1>3, <1>5, <1>6 DEF h

\* Numbers add up to a number, zeros to zero.
LEMMA TotalOfInts ==
  ASSUME NEW n \in Nat, NEW f, f = [k \in 1 .. n |-> f[k]], \A k \in 1 .. n : f[k] \in Int
  PROVE  /\ Total(f) \in Int
         /\ (\A k \in 1 .. n : f[k] = 0) => Total(f) = 0
<1>1. Len(f) = n
  BY LengthOf
<1>2. Total(f) = PartialSums(f, n)[n]
  BY <1>1, TotalIsPartial, Zenon
<1> DEFINE h == PartialSums(f, n)
           Good(k) == h[k] \in Int /\ ((\A j \in 1 .. n : f[j] = 0) => h[k] = 0)
           Bad == {k \in 0 .. n : ~Good(k)}
<1>3. \A k \in 0 .. n : h[k] = IF k = 0 THEN 0 ELSE h[k - 1] + f[k]
  <2>1. AreSums(h, f, n)
    BY SumsExist
  <2> HIDE DEF h
  <2>2. QED
    BY <2>1 DEF AreSums
<1> HIDE DEF h
<1>4. Bad = {}
  <2>1. SUFFICES ASSUME Bad # {} PROVE FALSE
    OBVIOUS
  <2>2. PICK k \in Bad : \A j \in Bad : k <= j
    <3>1. Bad \subseteq Nat
      OBVIOUS
    <3> HIDE DEF Bad
    <3>2. QED
      BY <2>1, <3>1, LowestOfNat
  <2>3. k \in 0 .. n /\ ~Good(k)
    OBVIOUS
  <2>4. k # 0
    BY <1>3, <2>3
  <2>5. k - 1 \in 0 .. n /\ ~(k <= k - 1) /\ k \in 1 .. n
    BY <2>3, <2>4
  <2>6. Good(k - 1)
    BY <2>2, <2>5
  <2>7. h[k] = h[k - 1] + f[k] /\ f[k] \in Int
    BY <1>3, <2>3, <2>4, <2>5
  <2>8. QED
    BY <2>3, <2>5, <2>6, <2>7
<1>5. n \in 0 .. n
  OBVIOUS
<1>6. Good(n)
  BY <1>4, <1>5
<1>7. QED
  BY <1>2, <1>6 DEF h

-----------------------------------------------------------------------------
RowsOfGroup(g) == {j \in DataRowsBefore(Cur) : rows[j].group = g}

\* What classify_rows has added up of the rows above the current one.
SumsKept ==
  /\ GrandSum = SumAbove(Cur, DataRowsBefore(Cur))
  /\ lastGroup # None => GroupSum = SumAbove(Cur, RowsOfGroup(lastGroup))

\* The groups of the data rows grow to the last one, and recent_qtys holds no later one.
GroupsKept ==
  /\ \A j \in DOMAIN rows : rows[j].role \in DataRoles =>
       lastGroup # None /\ rows[j].group \in Nat /\ rows[j].group <= lastGroup
  /\ \A k \in DOMAIN recentQtys : recentQtys[k].group < nextGroup

TotalsInv == GroupsKept /\ (HasIdentityColumn(sheet) => SumsKept) /\ TotalsAddUp

\* The sum over the rows above a row, one row further down.
LEMMA SumAboveNext ==
  ASSUME sheet \in [Rows -> RowKind], NEW i \in Rows, NEW S, NEW T,
         \A j \in 1 .. i - 1 : j \in S <=> j \in T
  PROVE  /\ SumAbove(i + 1, T) = SumAbove(i, S) + (IF i \in T THEN DataQty(i) ELSE 0)
         /\ SumAbove(i, S) \in Int /\ DataQty(i) \in Int
<1>1. MaxRow \in Nat /\ i \in 1 .. MaxRow
  BY ConstantsAssumption DEF Rows
<1>2. \A j \in Rows : DataQty(j) \in Int
  BY DEF DataQty, RowKind
<1> DEFINE f == [j \in 1 .. i - 1 |-> IF j \in S THEN DataQty(j) ELSE 0]
           g == [j \in 1 .. i |-> IF j \in T THEN DataQty(j) ELSE 0]
<1>3. PICK n \in Nat : n = i - 1
  BY <1>1
<1>4. n + 1 = i /\ (i + 1) - 1 = i
  BY <1>1, <1>3
<1>5. f = [j \in 1 .. n |-> f[j]] /\ g = [j \in 1 .. n + 1 |-> g[j]]
  BY <1>3, <1>4
<1>6. /\ \A j \in 1 .. n : f[j] \in Int /\ f[j] = g[j]
      /\ g[n + 1] = IF i \in T THEN DataQty(i) ELSE 0
  BY <1>1, <1>2, <1>3, <1>4 DEF Rows
<1>7. SumAbove(i, S) = Total(f) /\ SumAbove(i + 1, T) = Total(g)
  BY <1>4 DEF SumAbove
<1> HIDE DEF f, g
<1>8. Total(g) = Total(f) + g[n + 1]
  BY <1>5, <1>6, TotalNext
<1>9. Total(f) \in Int
  BY <1>5, <1>6, TotalOfInts
<1>10. QED
  BY <1>2, <1>6, <1>7, <1>8, <1>9


\* The sum of the quantities remembered under a group.
GroupTotal(group) ==
  Total([k \in DOMAIN recentQtys |->
           IF recentQtys[k].group = group THEN recentQtys[k].qty ELSE 0])

\* What recent_qtys holds.
LEMMA QtysTyped ==
  ASSUME ScanTypeOK, NEW k \in DOMAIN recentQtys
  PROVE  recentQtys[k].group \in Nat /\ recentQtys[k].qty \in Int
<1> DEFINE Pair == [group: Nat, qty: Int]
<1>1. recentQtys \in Seq(Pair)
  BY DEF ScanTypeOK
<1> HIDE DEF Pair
<1>2. recentQtys[k] \in Pair
  BY <1>1
<1>3. QED
  BY <1>2 DEF Pair

\* Remembering a quantity of one more old group leaves only old groups.
LEMMA CountQtyKeepsGroups ==
  ASSUME ScanTypeOK, NEW group \in Nat, CountQty(group), NEW limit \in Nat, group < limit,
         \A k \in DOMAIN recentQtys : recentQtys[k].group < limit
  PROVE  \A k \in DOMAIN recentQtys' : recentQtys'[k].group < limit
<1>1. CASE Row.qty = None
  BY <1>1 DEF CountQty
<1>2. CASE Row.qty # None
  <2>1. PICK n \in Nat : DOMAIN recentQtys = 1 .. n /\ n = Len(recentQtys)
    BY DEF ScanTypeOK
  <2>2. /\ DOMAIN recentQtys' = 1 .. n + 1
        /\ \A k \in 1 .. n : recentQtys'[k] = recentQtys[k]
        /\ recentQtys'[n + 1] = [group |-> group, qty |-> Row.qty]
    BY <1>2, <2>1 DEF CountQty, ScanTypeOK
  <2>3. QED
    BY <2>1, <2>2
<1>3. QED
  BY <1>1, <1>2

\* Remembering the current row's quantity adds it to the sums it belongs to.
LEMMA CountQtyAdds ==
  ASSUME ScanTypeOK, Scanning, NEW group \in Nat, CountQty(group), NEW g \in Nat
  PROVE  /\ GrandSum' = GrandSum + DataQty(Cur)
         /\ GroupTotal(g)' = GroupTotal(g) + (IF g = group THEN DataQty(Cur) ELSE 0)
         /\ (\A k \in DOMAIN recentQtys : recentQtys[k].group # g) => GroupTotal(g) = 0
<1>1. Row = sheet[Cur] /\ Row.qty \in Int \cup {None} /\ None \notin Int
  BY RowTyped, ConstantsAssumption DEF RowKind, Row
<1>2. PICK n \in Nat : n = Len(recentQtys)
  BY DEF ScanTypeOK
<1>3. DOMAIN recentQtys = 1 .. n /\ \A k \in 1 .. n : recentQtys[k].qty \in Int
  <2>1. DOMAIN recentQtys = 1 .. n
    BY <1>2 DEF ScanTypeOK
  <2>2. QED
    BY <2>1, QtysTyped
<1> DEFINE all == [k \in DOMAIN recentQtys |-> recentQtys[k].qty]
           own == [k \in DOMAIN recentQtys |-> IF recentQtys[k].group = g THEN recentQtys[k].qty ELSE 0]
<1>4. GrandSum = Total(all) /\ GroupTotal(g) = Total(own)
  BY DEF GrandSum, GroupTotal
<1>5. /\ all = [k \in 1 .. n |-> all[k]] /\ \A k \in 1 .. n : all[k] \in Int
      /\ own = [k \in 1 .. n |-> own[k]] /\ \A k \in 1 .. n : own[k] \in Int
      /\ (\A k \in DOMAIN recentQtys : recentQtys[k].group # g) => \A k \in 1 .. n : own[k] = 0
  BY <1>3
<1>6. GrandSum' = Total(all') /\ GroupTotal(g)' = Total(own')
  BY DEF GrandSum, GroupTotal
<1>7. CASE Row.qty = None
  <2>1. recentQtys' = recentQtys /\ DataQty(Cur) = 0
    BY <1>1, <1>7 DEF CountQty, DataQty
  <2>2. all' = all /\ own' = own
    BY <2>1
  <2> HIDE DEF all, own
  <2>3. Total(all) \in Int /\ Total(own) \in Int
    BY <1>5, TotalOfInts
  <2>4. (\A k \in DOMAIN recentQtys : recentQtys[k].group # g) => Total(own) = 0
    BY <1>5, TotalOfInts
  <2>5. QED
    BY <1>4, <1>6, <2>1, <2>2, <2>3, <2>4
<1>8. CASE Row.qty # None
  <2>1. DataQty(Cur) = Row.qty /\ Row.qty \in Int
    BY <1>1, <1>8 DEF DataQty
  <2>2. recentQtys' = Append(recentQtys, [group |-> group, qty |-> Row.qty])
    BY <1>8 DEF CountQty
  <2>3. /\ DOMAIN recentQtys' = 1 .. n + 1
        /\ \A k \in 1 .. n : recentQtys'[k] = recentQtys[k]
        /\ recentQtys'[n + 1] = [group |-> group, qty |-> Row.qty]
    BY <1>2, <2>2 DEF ScanTypeOK
  <2>4. /\ all' = [k \in 1 .. n + 1 |-> all'[k]]
        /\ \A k \in 1 .. n : all[k] = all'[k]
        /\ all'[n + 1] = Row.qty
    BY <1>3, <2>3
  <2>5. /\ own' = [k \in 1 .. n + 1 |-> own'[k]]
        /\ \A k \in 1 .. n : own[k] = own'[k]
        /\ own'[n + 1] = IF g = group THEN Row.qty ELSE 0
    <3>1. n + 1 \in 1 .. n + 1 /\ \A k \in 1 .. n : k \in 1 .. n + 1
      BY <1>2
    <3>2. own' = [k \in 1 .. n + 1 |-> IF recentQtys'[k].group = g THEN recentQtys'[k].qty ELSE 0]
      BY <2>3
    <3>3. own' = [k \in 1 .. n + 1 |-> own'[k]]
      BY <3>2
    <3>4. \A k \in 1 .. n : own[k] = own'[k]
      <4>1. TAKE k \in 1 .. n
      <4>2. own'[k] = IF recentQtys'[k].group = g THEN recentQtys'[k].qty ELSE 0
        BY <3>1, <3>2
      <4>3. own[k] = IF recentQtys[k].group = g THEN recentQtys[k].qty ELSE 0
        BY <1>3
      <4>4. QED
        BY <2>3, <4>2, <4>3
    <3>5. own'[n + 1] = IF g = group THEN Row.qty ELSE 0
      BY <2>3, <3>1, <3>2
    <3>6. QED
      BY <3>3, <3>4, <3>5
  <2> HIDE DEF all, own
  <2>6. Total(all') = Total(all) + Row.qty
    <3>1. all = [k \in 1 .. n |-> all[k]]
      BY <1>5
    <3>2. QED
      BY <2>4, <3>1, TotalNext, SMTT(30)
  <2>7. Total(own') = Total(own) + (IF g = group THEN Row.qty ELSE 0)
    <3>1. PICK v \in Int : v = IF g = group THEN Row.qty ELSE 0
      BY <2>1
    <3>2. own'[n + 1] = v
      BY <2>5, <3>1
    <3>3. Total(own') = Total(own) + v
      <4>1. own = [k \in 1 .. n |-> own[k]]
        BY <1>5
      <4>2. QED
        BY <2>5, <3>2, <4>1, TotalNext, SMTT(30)
    <3>4. QED
      BY <3>1, <3>3
  <2>8. (\A k \in DOMAIN recentQtys : recentQtys[k].group # g) => Total(own) = 0
    BY <1>5, TotalOfInts
  <2>9. GrandSum' = GrandSum + DataQty(Cur)
    BY <1>4, <1>6, <2>1, <2>6
  <2>10. GroupTotal(g)' = GroupTotal(g) + (IF g = group THEN DataQty(Cur) ELSE 0)
    BY <1>4, <1>6, <2>1, <2>7
  <2>11. QED
    BY <1>4, <2>8, <2>9, <2>10
<1>9. QED
  BY <1>7, <1>8


\* The step has classified the current row: its role and its group.
Classifies(role, group) ==
  /\ Cur \in Nat \ {0} /\ Cur <= MaxRow /\ Cur' = Cur + 1
  /\ DOMAIN rows = 1 .. Cur - 1 /\ DOMAIN rows' = 1 .. Cur
  /\ \A i \in 1 .. Cur - 1 : rows'[i] = rows[i]
  /\ rows'[Cur].role = role /\ rows'[Cur].group = group
  /\ sheet' = sheet

LEMMA EmitClassifies ==
  ASSUME ScanTypeOK, Scanning, sheet' = sheet,
         NEW role \in Roles, NEW anchor \in Nat \cup {None}, NEW group \in Nat \cup {None},
         Emit(role, anchor, group)
  PROVE  Classifies(role, group)
<1>1. /\ rows' \in Seq(RowSpec) /\ Len(rows') = Cur
      /\ DOMAIN rows' = DOMAIN rows \cup {Cur} /\ DOMAIN rows = 1 .. Cur - 1
      /\ \A i \in DOMAIN rows : rows'[i] = rows[i]
      /\ rows'[Cur].role = role /\ rows'[Cur].group = group
  BY EmitAppends
<1>2. Cur \in Nat \ {0} /\ Cur <= MaxRow
  BY RowTyped
<1>3. Cur' = Cur + 1
  BY <1>1 DEF Cur
<1>4. QED
  BY <1>1, <1>2, <1>3 DEF Classifies

\* The sums over the rows above, when one more row has been classified.
LEMMA SumsGrow ==
  ASSUME ScanTypeOK, NEW role, NEW group, Classifies(role, group), NEW g
  PROVE  /\ SumAbove(Cur, DataRowsBefore(Cur))'
            = SumAbove(Cur, DataRowsBefore(Cur)) + (IF role \in DataRoles THEN DataQty(Cur) ELSE 0)
         /\ SumAbove(Cur, RowsOfGroup(g))'
            = SumAbove(Cur, RowsOfGroup(g))
              + (IF role \in DataRoles /\ group = g THEN DataQty(Cur) ELSE 0)
         /\ SumAbove(Cur, DataRowsBefore(Cur)) \in Int
         /\ SumAbove(Cur, RowsOfGroup(g)) \in Int
<1>1. sheet \in [Rows -> RowKind] /\ Cur \in Rows
  BY ConstantsAssumption DEF ScanTypeOK, Classifies, Rows
<1>2. PICK c \in Rows : c = Cur
  BY <1>1
<1>3. Cur' = c + 1 /\ sheet' = sheet /\ c \in Nat \ {0}
  BY <1>2 DEF Classifies
<1> DEFINE D == DataRowsBefore(Cur)
           E == {j \in 1 .. c : rows'[j].role \in DataRoles}
           G == RowsOfGroup(g)
           H == {j \in E : rows'[j].group = g}
<1>4. DataRowsBefore(Cur)' = E /\ RowsOfGroup(g)' = H
  <2>1. Cur' - 1 = c
    BY <1>3
  <2>2. QED
    BY <2>1 DEF DataRowsBefore, RowsOfGroup
<1>5. /\ \A j \in 1 .. c - 1 : j \in D <=> j \in E
      /\ \A j \in 1 .. c - 1 : j \in G <=> j \in H
      /\ c \in E <=> role \in DataRoles
      /\ c \in H <=> role \in DataRoles /\ group = g
  BY <1>2, <1>3 DEF Classifies, DataRowsBefore, RowsOfGroup
<1>6. /\ SumAbove(Cur, DataRowsBefore(Cur))' = SumAbove(c + 1, E)
      /\ SumAbove(Cur, RowsOfGroup(g))' = SumAbove(c + 1, H)
  <2>1. \A S : SumAbove(c + 1, S)' = SumAbove(c + 1, S)
    BY <1>3 DEF SumAbove, DataQty
  <2>2. QED
    BY <1>3, <1>4, <2>1 DEF SumAbove, DataQty
<1> HIDE DEF D, E, G, H
<1>7. /\ SumAbove(c + 1, E) = SumAbove(c, D) + (IF c \in E THEN DataQty(c) ELSE 0)
      /\ SumAbove(c, D) \in Int
  BY <1>1, <1>5, SumAboveNext
<1>8. /\ SumAbove(c + 1, H) = SumAbove(c, G) + (IF c \in H THEN DataQty(c) ELSE 0)
      /\ SumAbove(c, G) \in Int
  BY <1>1, <1>5, SumAboveNext
<1>9. QED
  BY <1>2, <1>5, <1>6, <1>7, <1>8 DEF D, G

\* What is said of a total row depends on the rows above it only.
LEMMA TotalsAddUpKept ==
  ASSUME ScanTypeOK, TotalsAddUp, NEW role, NEW group, Classifies(role, group),
         role = "total" => Near(SumAbove(Cur, NearestGroup(Cur)), sheet[Cur].qty),
         role = "grand_total" => Near(SumAbove(Cur, DataRowsBefore(Cur)), sheet[Cur].qty)
  PROVE  TotalsAddUp'
<1>1. PICK c : c = Cur
  OBVIOUS
<1>2. /\ c \in Nat \ {0} /\ DOMAIN rows = 1 .. c - 1 /\ DOMAIN rows' = 1 .. c
      /\ \A i \in 1 .. c - 1 : rows'[i] = rows[i]
      /\ rows'[c].role = role /\ sheet' = sheet
  BY <1>1 DEF Classifies
<1>3. SUFFICES ASSUME NEW i \in 1 .. c
               PROVE  /\ rows'[i].role = "total" => Near(SumAbove(i, NearestGroup(i)), sheet[i].qty)'
                      /\ rows'[i].role = "grand_total" => Near(SumAbove(i, DataRowsBefore(i)), sheet[i].qty)'
  BY <1>2 DEF TotalsAddUp, IsRole
<1>4. DataRowsBefore(i)' = DataRowsBefore(i)
  BY <1>2 DEF DataRowsBefore
<1>5. NearestGroup(i)' = NearestGroup(i)
  <2>1. \A j \in DataRowsBefore(i) : rows'[j] = rows[j]
    BY <1>2 DEF DataRowsBefore
  <2>2. QED
    BY <1>4, <2>1 DEF NearestGroup
<1>6. /\ SumAbove(i, NearestGroup(i))' = SumAbove(i, NearestGroup(i))
      /\ SumAbove(i, DataRowsBefore(i))' = SumAbove(i, DataRowsBefore(i))
  BY <1>2, <1>4, <1>5 DEF SumAbove, DataQty
<1>7. CASE i = c
  BY <1>1, <1>2, <1>6, <1>7 DEF Near
<1>8. CASE i # c
  <2>1. i \in DOMAIN rows /\ rows'[i] = rows[i]
    BY <1>2, <1>8
  <2>2. QED
    BY <1>2, <1>6, <2>1 DEF TotalsAddUp, IsRole, Near
<1>9. QED
  BY <1>7, <1>8


\* The rows of the group just above the current row are those of the last group.
LEMMA NearestIsLast ==
  ASSUME ScanInv, GroupsKept, Scanning, lastGroup # None
  PROVE  NearestGroup(Cur) = RowsOfGroup(lastGroup)
<1>1. PICK c : c = Cur
  OBVIOUS
<1>2. DOMAIN rows = 1 .. c - 1 /\ c \in Nat
  BY <1>1, RowTyped DEF ScanInv, ScanTypeOK
<1>3. /\ lastAnchor \in DOMAIN rows /\ rows[lastAnchor].role = "anchor"
      /\ rows[lastAnchor].group = lastGroup
  BY DEF ScanInv, MemoryOfAnchors, Anchors, IsRole
<1>4. lastAnchor \in DataRowsBefore(Cur)
  BY <1>1, <1>2, <1>3 DEF DataRowsBefore, DataRoles
<1>5. lastGroup \in Nat
  BY DEF ScanInv, ScanTypeOK
<1>6. \A j \in DataRowsBefore(Cur) : rows[j].group \in Nat /\ rows[j].group <= lastGroup
  BY <1>1, <1>2 DEF DataRowsBefore, GroupsKept
<1>7. \A j \in DataRowsBefore(Cur) :
        (\A k \in DataRowsBefore(Cur) : rows[k].group <= rows[j].group) <=> rows[j].group = lastGroup
  BY <1>3, <1>4, <1>5, <1>6
<1>8. QED
  BY <1>7 DEF NearestGroup, RowsOfGroup

\* A row that is neither ANCHOR nor CHILD adds nothing to the sums.
LEMMA PlainRowKeepsTotals ==
  ASSUME ScanInv, TotalsInv, Scanning, NEW role \in Roles \ DataRoles,
         Emit(role, None, None),
         role = "total" => lastGroup # None /\ Near(GroupSum, Row.qty),
         role = "grand_total" => Near(GrandSum, Row.qty),
         UNCHANGED <<sheet, firstDataRow, lastAnchor, lastGroup, nextGroup, recentQtys>>
  PROVE  TotalsInv'
<1>1. ScanTypeOK /\ Classifies(role, None)
  BY EmitClassifies DEF ScanInv
<1>2. HasIdentityColumn(sheet) /\ SumsKept /\ Row = sheet[Cur]
  BY DEF Scanning, TotalsInv, Row
<1>3. TotalsAddUp'
  <2>1. role = "total" => Near(SumAbove(Cur, NearestGroup(Cur)), sheet[Cur].qty)
    BY <1>2, NearestIsLast DEF SumsKept, TotalsInv
  <2>2. role = "grand_total" => Near(SumAbove(Cur, DataRowsBefore(Cur)), sheet[Cur].qty)
    BY <1>2 DEF SumsKept
  <2>3. QED
    BY <1>1, <2>1, <2>2, TotalsAddUpKept DEF TotalsInv
<1>4. GroupsKept'
  BY <1>1 DEF TotalsInv, GroupsKept, Classifies
<1>5. SumsKept'
  <2>1. GrandSum' = GrandSum /\ GroupSum' = GroupSum
    BY DEF GrandSum, GroupSum
  <2>2. SumAbove(Cur, DataRowsBefore(Cur))' = SumAbove(Cur, DataRowsBefore(Cur))
    BY <1>1, SumsGrow
  <2>3. PICK g : g = lastGroup
    OBVIOUS
  <2>4. SumAbove(Cur, RowsOfGroup(g))' = SumAbove(Cur, RowsOfGroup(g))
    BY <1>1, SumsGrow
  <2>5. SumAbove(Cur, RowsOfGroup(lastGroup))' = SumAbove(Cur, RowsOfGroup(g))'
    BY <2>3 DEF RowsOfGroup
  <2>6. QED
    BY <1>2, <2>1, <2>2, <2>3, <2>4, <2>5 DEF SumsKept
<1>6. QED
  BY <1>3, <1>4, <1>5 DEF TotalsInv

LEMMA IdentityRowKeepsTotals ==
  ASSUME ScanInv, TotalsInv, IdentityRow
  PROVE  TotalsInv'
<1>1. ScanTypeOK /\ Scanning /\ nextGroup \in Nat /\ "anchor" \in Roles /\ sheet' = sheet
  BY DEF ScanInv, ScanTypeOK, IdentityRow, Roles
<1>2. Classifies("anchor", nextGroup)
  BY <1>1, EmitClassifies DEF IdentityRow
<1>3. PICK g \in Nat : g = nextGroup
  BY <1>1
<1>4. lastGroup' = g /\ nextGroup' = g + 1
  BY <1>3 DEF IdentityRow, OpenGroup
<1>5. \A j \in DOMAIN rows : rows[j].role \in DataRoles => rows[j].group \in Nat /\ rows[j].group < g
  <2>1. lastGroup # None => lastGroup \in Nat /\ lastGroup < g
    BY <1>3 DEF ScanInv, ScanTypeOK, MemoryOfAnchors, GroupsAreOld
  <2>2. QED
    BY <1>3, <2>1 DEF TotalsInv, GroupsKept
<1>6. \A k \in DOMAIN recentQtys : recentQtys[k].group < g /\ recentQtys[k].group \in Nat
  BY <1>1, <1>3, QtysTyped DEF TotalsInv, GroupsKept
<1>7. TotalsAddUp'
  BY <1>1, <1>2, TotalsAddUpKept DEF TotalsInv
<1>8. GroupsKept'
  <2>1. \A j \in DOMAIN rows' : rows'[j].role \in DataRoles =>
          lastGroup' # None /\ rows'[j].group \in Nat /\ rows'[j].group <= lastGroup'
    BY <1>2, <1>3, <1>4, <1>5, ConstantsAssumption DEF Classifies
  <2>2. \A k \in DOMAIN recentQtys' : recentQtys'[k].group < nextGroup'
    <3>1. CountQty(g) /\ g < g + 1 /\ g + 1 \in Nat
      BY <1>3 DEF IdentityRow
    <3>2. \A k \in DOMAIN recentQtys : recentQtys[k].group < g + 1
      BY <1>3, <1>6
    <3>3. QED
      BY <1>1, <1>4, <3>1, <3>2, CountQtyKeepsGroups
  <2>3. QED
    BY <2>1, <2>2 DEF GroupsKept
<1>9. SumsKept'
  <2>1. /\ GrandSum' = GrandSum + DataQty(Cur)
        /\ GroupTotal(g)' = GroupTotal(g) + DataQty(Cur)
        /\ GroupTotal(g) = 0
    BY <1>1, <1>3, <1>6, CountQtyAdds DEF IdentityRow
  <2>2. /\ SumAbove(Cur, DataRowsBefore(Cur))' = SumAbove(Cur, DataRowsBefore(Cur)) + DataQty(Cur)
        /\ SumAbove(Cur, RowsOfGroup(g))' = SumAbove(Cur, RowsOfGroup(g)) + DataQty(Cur)
    BY <1>1, <1>2, <1>3, SumsGrow DEF DataRoles
  <2>3. SumAbove(Cur, RowsOfGroup(g)) = 0
    <3>1. PICK n \in Nat : n = Cur - 1
      BY <1>2 DEF Classifies
    <3>2. RowsOfGroup(g) = {}
      BY <1>2, <1>5 DEF RowsOfGroup, DataRowsBefore, Classifies
    <3> DEFINE f == [j \in 1 .. n |-> 0]
    <3>3. SumAbove(Cur, RowsOfGroup(g)) = Total(f)
      BY <3>1, <3>2 DEF SumAbove
    <3>4. f = [j \in 1 .. n |-> f[j]] /\ \A j \in 1 .. n : f[j] = 0
      OBVIOUS
    <3> HIDE DEF f
    <3>5. QED
      BY <3>3, <3>4, TotalOfInts
  <2>4. GroupSum' = GroupTotal(g)'
    BY <1>4 DEF GroupSum, GroupTotal
  <2>5. SumAbove(Cur, RowsOfGroup(lastGroup))' = SumAbove(Cur, RowsOfGroup(g))'
    BY <1>4 DEF RowsOfGroup
  <2>6. GrandSum = SumAbove(Cur, DataRowsBefore(Cur))
    BY <1>1 DEF TotalsInv, SumsKept, Scanning
  <2>7. QED
    BY <2>1, <2>2, <2>3, <2>4, <2>5, <2>6 DEF SumsKept
<1>10. QED
  BY <1>7, <1>8, <1>9 DEF TotalsInv

LEMMA MergedRowKeepsTotals ==
  ASSUME ScanInv, TotalsInv, MergedRow
  PROVE  TotalsInv'
<1>1. ScanTypeOK /\ Scanning /\ "child" \in Roles /\ sheet' = sheet /\ lastAnchor # None /\ lastGroup # None
  BY DEF ScanInv, MergedRow, Roles, IsChildRow, MemoryOfAnchors
<1>2. lastAnchor \in Nat /\ lastGroup \in Nat
  BY <1>1 DEF ScanTypeOK
<1>3. Classifies("child", lastGroup)
  BY <1>1, <1>2, EmitClassifies DEF MergedRow
<1>4. PICK g \in Nat : g = lastGroup
  BY <1>2
<1>5. lastGroup' = g /\ nextGroup' = nextGroup
  BY <1>4 DEF MergedRow
<1>6. lastGroup < nextGroup
  BY <1>1 DEF ScanInv, MemoryOfAnchors, GroupsAreOld
<1>7. TotalsAddUp'
  BY <1>1, <1>3, TotalsAddUpKept DEF TotalsInv
<1>8. GroupsKept'
  <2>1. \A j \in DOMAIN rows' : rows'[j].role \in DataRoles =>
          lastGroup' # None /\ rows'[j].group \in Nat /\ rows'[j].group <= lastGroup'
    BY <1>1, <1>2, <1>3, <1>4, <1>5 DEF Classifies, TotalsInv, GroupsKept
  <2>2. \A k \in DOMAIN recentQtys' : recentQtys'[k].group < nextGroup'
    <3>1. CountQty(lastGroup) /\ nextGroup \in Nat
      BY <1>1 DEF MergedRow, ScanTypeOK
    <3>2. QED
      BY <1>1, <1>2, <1>5, <1>6, <3>1, CountQtyKeepsGroups DEF TotalsInv, GroupsKept
  <2>3. QED
    BY <2>1, <2>2 DEF GroupsKept
<1>9. SumsKept'
  <2>1. /\ GrandSum' = GrandSum + DataQty(Cur)
        /\ GroupTotal(g)' = GroupTotal(g) + DataQty(Cur)
    BY <1>1, <1>2, <1>4, CountQtyAdds DEF MergedRow
  <2>2. /\ SumAbove(Cur, DataRowsBefore(Cur))' = SumAbove(Cur, DataRowsBefore(Cur)) + DataQty(Cur)
        /\ SumAbove(Cur, RowsOfGroup(g))' = SumAbove(Cur, RowsOfGroup(g)) + DataQty(Cur)
    BY <1>1, <1>3, <1>4, SumsGrow DEF DataRoles
  <2>3. GroupSum' = GroupTotal(g)' /\ GroupSum = GroupTotal(g)
    BY <1>4, <1>5 DEF GroupSum, GroupTotal
  <2>4. SumAbove(Cur, RowsOfGroup(lastGroup))' = SumAbove(Cur, RowsOfGroup(g))'
    BY <1>5 DEF RowsOfGroup
  <2>5. GrandSum = SumAbove(Cur, DataRowsBefore(Cur)) /\ GroupSum = SumAbove(Cur, RowsOfGroup(g))
    BY <1>1, <1>4 DEF TotalsInv, SumsKept, Scanning
  <2>6. QED
    BY <2>1, <2>2, <2>3, <2>4, <2>5 DEF SumsKept
<1>10. QED
  BY <1>7, <1>8, <1>9 DEF TotalsInv

LEMMA TotalsInitInv == ScanInit => TotalsInv
<1> SUFFICES ASSUME ScanInit PROVE TotalsInv
  OBVIOUS
<1>1. rows = <<>> /\ recentQtys = <<>> /\ lastGroup = None /\ Cur = 1
  BY DEF ScanInit, Cur
<1>2. GroupsKept /\ TotalsAddUp
  <2>1. DOMAIN rows = {} /\ DOMAIN recentQtys = {}
    BY <1>1
  <2>2. QED
    BY <2>1 DEF GroupsKept, TotalsAddUp
<1>3. SumsKept
  <2> DEFINE f == [j \in 1 .. 0 |-> 0]
  <2>1. f = [j \in 1 .. 0 |-> f[j]] /\ f = <<>>
    OBVIOUS
  <2>2. GrandSum = Total(f)
    BY <1>1, <2>1 DEF GrandSum
  <2>3. SumAbove(Cur, DataRowsBefore(Cur)) = Total(f)
    BY <1>1, <2>1 DEF SumAbove
  <2>4. QED
    BY <1>1, <2>2, <2>3 DEF SumsKept
<1>4. QED
  BY <1>2, <1>3 DEF TotalsInv

LEMMA TotalsStepInv == ScanInv /\ TotalsInv /\ [ScanNext]_scanVars => TotalsInv'
<1> SUFFICES ASSUME ScanInv, TotalsInv, [ScanNext]_scanVars PROVE TotalsInv'
  OBVIOUS
<1>1. CASE NoIdentityColumn
  <2>1. /\ \A i \in DOMAIN rows' : rows'[i].role = "blank"
        /\ UNCHANGED <<sheet, nextGroup, recentQtys>> /\ ~HasIdentityColumn(sheet)
    BY <1>1 DEF NoIdentityColumn
  <2>2. ~HasIdentityColumn(sheet)'
    BY <2>1 DEF HasIdentityColumn
  <2>3. QED
    BY <2>1, <2>2 DEF TotalsInv, GroupsKept, TotalsAddUp, IsRole, DataRoles
<1>2. CASE EmptyRow \/ FillerRow
  BY <1>2, PlainRowKeepsTotals DEF EmptyRow, FillerRow, Roles, DataRoles
<1>3. CASE HeaderTermRow
  BY <1>3, PlainRowKeepsTotals DEF HeaderTermRow, BandRole, Roles, DataRoles
<1>4. CASE IdentityRow
  BY <1>4, IdentityRowKeepsTotals
<1>5. CASE MergedRow
  BY <1>5, MergedRowKeepsTotals
<1>6. CASE QuantityRow
  BY <1>6, PlainRowKeepsTotals DEF QuantityRow, MatchesGroup, MatchesGrand, Roles, DataRoles
<1>7. CASE UNCHANGED scanVars
  BY <1>7 DEF scanVars, TotalsInv, GroupsKept, SumsKept, TotalsAddUp, GrandSum, GroupSum, SumAbove, DataQty,
              DataRowsBefore, RowsOfGroup, NearestGroup, IsRole, Cur, HasIdentityColumn
<1>8. QED
  BY <1>1, <1>2, <1>3, <1>4, <1>5, <1>6, <1>7 DEF ScanNext

\* A TOTAL row's number is the sum over its group, a GRAND_TOTAL row's the sum over all data above it.
THEOREM TotalsSafe == ScanSpec => []TotalsAddUp
<1>1. TotalsInv => TotalsAddUp
  BY DEF TotalsInv
<1>2. QED
  BY <1>1, ScanInvariant, TotalsInitInv, TotalsStepInv, PTL DEF ScanSpec
=============================================================================
