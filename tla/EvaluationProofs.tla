--------------------------- MODULE EvaluationProofs ---------------------------
(***************************************************************************)
(* Proofs about the evaluation: for any files, labels and results, and     *)
(* wherever a run is interrupted, the pairing is one-to-one, complete and  *)
(* strongest first, failures stay in their file, and a replay repeats the  *)
(* scores of the live run.                                                 *)
(***************************************************************************)
EXTENDS Evaluation, WellFoundedInduction, TLAPS

\* A set of naturals has a least element, which Min names.
LEMMA MinIsLeast ==
  ASSUME NEW S \in SUBSET Nat, S # {}
  PROVE  Min(S) \in S /\ \A x \in S : Min(S) <= x
<1>1. PICK m \in S : \A y \in S : ~ (<<y, m>> \in OpToRel(<, Nat))
  BY WFMin, NatLessThanWellFounded
<1>2. \A y \in S : m <= y
  <2>1. TAKE y \in S
  <2>2. ~(y < m)
    BY <1>1 DEF OpToRel
  <2>3. QED
    BY <2>2
<1>3. QED
  BY <1>2 DEF Min

-----------------------------------------------------------------------------
(* Pairing *)

LEMMA LevelBounds ==
  ASSUME NEW e, NEW p
  PROVE  Level(e, p) \in 0 .. 3 /\ (SameIo(e, p) <=> Level(e, p) # 0)
BY DEF Level, SameColor, SameStyle

\* Among some candidates there is one that none beats.
LEMMA StrongestExists ==
  ASSUME NEW plis, NEW e, NEW C \in SUBSET Nat, C # {}
  PROVE  \E i \in C : \A j \in C : NotBetter(e, plis[j], plis[i])
<1> DEFINE lv == [i \in C |-> Level(e, plis[i])]
<1>1. \A i \in C : lv[i] = Level(e, plis[i]) /\ lv[i] \in 0 .. 3
  BY LevelBounds
<1> HIDE DEF lv
<1>2. \E i \in C : \A j \in C : lv[j] <= lv[i]
  <2> DEFINE short == {3 - lv[i] : i \in C}
  <2>1. short \in SUBSET Nat /\ short # {}
    <3>1. \A i \in C : 3 - lv[i] \in Nat
      BY <1>1
    <3>2. short \in SUBSET Nat
      BY <3>1
    <3>3. short # {}
      OBVIOUS
    <3>4. QED
      BY <3>2, <3>3
  <2>2. PICK m \in short : \A x \in short : m <= x
    BY <2>1, MinIsLeast
  <2>3. PICK i \in C : m = 3 - lv[i]
    BY <2>2
  <2>4. \A j \in C : lv[j] <= lv[i]
    <3>1. TAKE j \in C
    <3>2. 3 - lv[i] <= 3 - lv[j]
      BY <2>2, <2>3
    <3>3. lv[i] \in Int /\ lv[j] \in Int
      BY <1>1
    <3>4. QED
      BY <3>2, <3>3
  <2>5. QED
    BY <2>4
<1>3. QED
  BY <1>1, <1>2 DEF NotBetter

\* What _match returns: a free candidate of the order that none beats, or None.
LEMMA MatchedIsStrongest ==
  ASSUME NEW plis \in Seq(Key), NEW e, NEW ps,
         NEW C, C = {i \in DOMAIN plis \ Consumed(ps) : SameIo(e, plis[i])}
  PROVE  /\ C = {} => Matched(plis, e, ps) = None
         /\ C # {} => /\ Matched(plis, e, ps) \in C
                      /\ Matched(plis, e, ps) # None
                      /\ \A j \in C : Level(e, plis[j]) <= Level(e, plis[Matched(plis, e, ps)])
<1>1. C \in SUBSET Nat
  OBVIOUS
<1>2. CASE C = {}
  BY <1>2 DEF Matched
<1>3. CASE C # {}
  <2> DEFINE B == {i \in C : \A j \in C : NotBetter(e, plis[j], plis[i])}
  <2>1. B # {} /\ B \in SUBSET Nat
    BY <1>1, <1>3, StrongestExists
  <2>2. Matched(plis, e, ps) = Min(B)
    BY <1>3 DEF Matched
  <2>3. Min(B) \in B
    BY <2>1, MinIsLeast
  <2>4. Min(B) # None
    BY <1>1, <2>3, EvaluationAssumption
  <2>5. QED
    BY <1>3, <2>2, <2>3, <2>4 DEF NotBetter
<1>4. QED
  BY <1>2, <1>3

\* The values of a pairing are those consumed.
LEMMA AppendPair ==
  ASSUME NEW ps \in Seq(Nat \cup {None}), NEW m \in Nat \cup {None}
  PROVE  /\ Len(ps) \in Nat /\ DOMAIN ps = 1 .. Len(ps)
         /\ Append(ps, m) \in Seq(Nat \cup {None})
         /\ Len(Append(ps, m)) = Len(ps) + 1
         /\ DOMAIN Append(ps, m) = 1 .. Len(ps) + 1
         /\ Append(ps, m)[Len(ps) + 1] = m
         /\ \A k \in 1 .. Len(ps) : Append(ps, m)[k] = ps[k]
         /\ Consumed(Append(ps, m)) = Consumed(ps) \cup ({m} \ {None})
<1> DEFINE n == Len(ps) + 1
           qs == Append(ps, m)
<1>1. /\ n \in Nat /\ qs \in Seq(Nat \cup {None}) /\ Len(qs) = n
      /\ DOMAIN ps = 1 .. n - 1 /\ DOMAIN qs = 1 .. n
      /\ qs[n] = m /\ \A k \in 1 .. n - 1 : qs[k] = ps[k]
  OBVIOUS
<1>2. Consumed(qs) = Consumed(ps) \cup ({m} \ {None})
  <2>1. \A k \in DOMAIN qs : k = n \/ k \in DOMAIN ps
    BY <1>1
  <2>2. n \in DOMAIN qs /\ \A k \in DOMAIN ps : k \in DOMAIN qs /\ qs[k] = ps[k]
    BY <1>1
  <2> HIDE DEF n, qs
  <2>3. QED
    BY <1>1, <2>1, <2>2 DEF Consumed
<1>3. QED
  BY <1>1, <1>2

\* A pairing as ScoreFile computes it: each pair matched after those before it.
Paired(ps, plis, label) ==
  \A k \in DOMAIN ps : ps[k] = Matched(plis, label[k], [j \in 1 .. k - 1 |-> ps[j]])

\* The same PLIs and label are always paired alike.
LEMMA PairedAlike ==
  ASSUME NEW plis, NEW label,
         NEW ps \in Seq(Nat \cup {None}), NEW qs \in Seq(Nat \cup {None}),
         Len(ps) = Len(qs), Paired(ps, plis, label), Paired(qs, plis, label)
  PROVE  ps = qs
<1> DEFINE D == {k \in DOMAIN ps : ps[k] # qs[k]}
<1>1. DOMAIN ps = 1 .. Len(ps) /\ DOMAIN qs = DOMAIN ps /\ Len(ps) \in Nat
  OBVIOUS
<1>2. CASE D = {}
  BY <1>1, <1>2
<1>3. CASE D # {}
  <2>1. D \in SUBSET Nat
    BY <1>1
  <2>2. Min(D) \in D /\ \A x \in D : Min(D) <= x
    BY <1>3, <2>1, MinIsLeast
  <2>3. PICK m \in D : \A x \in D : m <= x
    BY <2>2
  <2>4. \A j \in 1 .. m - 1 : ps[j] = qs[j]
    BY <1>1, <2>3
  <2>5. [j \in 1 .. m - 1 |-> ps[j]] = [j \in 1 .. m - 1 |-> qs[j]]
    BY <2>4, SMTT(30)
  <2>6. ps[m] = qs[m]
    <3>1. m \in DOMAIN ps /\ m \in DOMAIN qs
      BY <1>1, <2>3
    <3>2. /\ ps[m] = Matched(plis, label[m], [j \in 1 .. m - 1 |-> ps[j]])
          /\ qs[m] = Matched(plis, label[m], [j \in 1 .. m - 1 |-> qs[j]])
      BY <3>1 DEF Paired
    <3>3. QED
      BY <2>5, <3>2
  <2>7. QED
    BY <2>3, <2>6
<1>4. QED
  BY <1>2, <1>3

LEMMA PairedLonger ==
  ASSUME NEW plis, NEW label, NEW ps \in Seq(Nat \cup {None}), Paired(ps, plis, label),
         NEW m \in Nat \cup {None}, m = Matched(plis, label[Len(ps) + 1], ps)
  PROVE  Paired(Append(ps, m), plis, label)
<1> DEFINE n == Len(ps) + 1
           qs == Append(ps, m)
<1>1. /\ n \in Nat /\ DOMAIN ps = 1 .. n - 1 /\ DOMAIN qs = 1 .. n
      /\ qs[n] = m /\ \A k \in 1 .. n - 1 : qs[k] = ps[k]
  BY AppendPair
<1> HIDE DEF qs, n
<1> SUFFICES ASSUME NEW k \in DOMAIN qs
             PROVE  qs[k] = Matched(plis, label[k], [j \in 1 .. k - 1 |-> qs[j]])
  BY DEF Paired, qs
<1>2. k \in 1 .. n
  BY <1>1
<1>3. [j \in 1 .. k - 1 |-> qs[j]] = [j \in 1 .. k - 1 |-> ps[j]]
  BY <1>1, <1>2
<1>4. CASE k = n
  <2>1. [j \in 1 .. k - 1 |-> ps[j]] = ps
    BY <1>1, <1>4
  <2>2. QED
    BY <1>1, <1>3, <1>4, <2>1 DEF n
<1>5. CASE k # n
  <2>1. k \in DOMAIN ps /\ qs[k] = ps[k]
    BY <1>1, <1>2, <1>5
  <2>2. QED
    BY <1>3, <2>1 DEF Paired
<1>6. QED
  BY <1>4, <1>5

-----------------------------------------------------------------------------
(* The inductive invariant *)

\* The entries whose value is that of their cell, wherever the workbook is.
EqualCells(result) ==
  {i \in DOMAIN result.cells :
     Normalize(result.cells[i].cell) = Normalize(result.cells[i].value)}

\* What stays of a result in the archive.
SameScores(result, output) ==
  /\ output.plis = result.plis
  /\ NoSuchCell(output) <=> NoSuchCell(result)
  /\ ~Fragile(output) => EqualCells(output) = EqualCells(result)

\* The loop's locals, and what is not archived yet.
LoopInv ==
  /\ actual = None => pairs = <<>>
  /\ phase \in {"idle", "done"} => actual = None
  /\ actual # None =>
       /\ at \in Files
       /\ labels[at] = Broken => pairs = <<>>
       /\ labels[at] # Broken =>
            /\ Len(pairs) <= Len(labels[at])
            /\ Paired(pairs, actual.plis, labels[at])
  /\ phase = "live" =>
       /\ \A f \in Files : f > at => outputs[f] = None
       /\ at \in Files /\ actual = None => outputs[at] = None
       /\ actual # None =>
            /\ Wanted(at) /\ books[at] = "ok" /\ outputs[at] \in Result
            /\ SameScores(actual, outputs[at])
  /\ phase = "replay" /\ actual # None => at \in selected /\ outputs[at] = actual
  /\ phase \in {"live", "idle"} => replayRows = <<>>

\* A row holds the scores of an archived result, or says why it has none.
Scored(row, output) ==
  /\ labels[row.file] = Broken =>
       row.error = "label" /\ row.pairs = <<>> /\ row.cells = {}
  /\ labels[row.file] # Broken =>
       \/ row.error = "score" /\ row.pairs = <<>> /\ row.cells = {}
       \/ /\ row.error = None /\ Len(row.pairs) = Len(labels[row.file])
          /\ Paired(row.pairs, output.plis, labels[row.file])

\* The source cells were compared, unless one of them does not exist.
CellsScored(row, output) ==
  /\ row.error = "score" <=> NoSuchCell(output)
  /\ row.error = None => row.cells = EqualCells(output)

RowsInv ==
  /\ \A k \in DOMAIN rows :
       LET f == rows[k].file
       IN  /\ phase = "live" => f < at
           /\ rows[k].error # "extraction" =>
                /\ outputs[f] \in Result /\ Scored(rows[k], outputs[f])
                /\ labels[f] # Broken /\ ~Fragile(outputs[f]) => CellsScored(rows[k], outputs[f])
  /\ \A k \in DOMAIN replayRows :
       LET f == replayRows[k].file
       IN  /\ outputs[f] # None
           /\ books[f] = "ok" /\ outputs[f] # Torn =>
                /\ Scored(replayRows[k], outputs[f])
                /\ labels[f] # Broken => CellsScored(replayRows[k], outputs[f])

EvaluationInv ==
  /\ TypeOK
  /\ LoopInv
  /\ PairingIsComplete
  /\ StrongestFirst
  /\ FailuresStayInTheirFile
  /\ RowsInv

-----------------------------------------------------------------------------
(* The archive and the rows *)

LEMMA JsonKinded ==
  ASSUME NEW kind \in NativeKinds
  PROVE  /\ JsonKind[kind] \in NativeKinds \cup JsonKinds
         /\ \/ JsonKind[kind] = "iso text" /\ kind \in {"date", "datetime"}
            \/ JsonKind[kind] = "text" /\ kind = "text"
            \/ JsonKind[kind] \in {"time text", "fraction text"}
<1>1. /\ JsonKind["date"] = "iso text" /\ JsonKind["datetime"] = "iso text"
      /\ JsonKind["fraction"] = "fraction text" /\ JsonKind["time"] = "time text"
      /\ JsonKind["text"] = "text"
  BY DEF JsonKind
<1>2. QED
  BY <1>1 DEF NativeKinds, JsonKinds

\* A result read back from the archive is one, with the same scores.
LEMMA ArchiveKeepsScores ==
  ASSUME NEW f \in Files, NEW result \in Results[f]
  PROVE  Reloaded(result) \in Result /\ SameScores(result, Reloaded(result))
<1> DEFINE out == Reloaded(result)
<1>1. result \in Result /\ \A i \in DOMAIN result.cells : result.cells[i].value.kind \in NativeKinds
  BY EvaluationAssumption
<1>2. result.cells \in Seq(Entry)
  BY <1>1 DEF Result
<1> DEFINE read == [i \in DOMAIN result.cells |->
                       IF result.cells[i].typed THEN result.cells[i]
                       ELSE [result.cells[i] EXCEPT !.value.kind = JsonKind[result.cells[i].value.kind]]]
<1>3. out = [plis |-> result.plis, cells |-> out.cells] /\ out.cells = read
  <2>1. out = [result EXCEPT !.cells = read]
    BY DEF Reloaded
  <2> HIDE DEF read, out
  <2>2. QED
    BY <1>1, <2>1 DEF Result
<1> HIDE DEF out
<1>4. ASSUME NEW i \in DOMAIN result.cells
      PROVE  /\ out.cells[i] \in Entry
             /\ out.cells[i].cell = result.cells[i].cell
             /\ out.cells[i].value.kind \notin {"time text", "fraction text"} =>
                  Normalize(out.cells[i].value) = Normalize(result.cells[i].value)
  <2>1. result.cells[i] \in Entry /\ result.cells[i].value.kind \in NativeKinds
    BY <1>1, <1>2
  <2>2. CASE result.cells[i].typed
    BY <1>3, <2>1, <2>2
  <2>3. CASE ~result.cells[i].typed
    <3>1. out.cells[i] = [result.cells[i] EXCEPT !.value.kind = JsonKind[result.cells[i].value.kind]]
      BY <1>3, <2>3
    <3>2. /\ out.cells[i].cell = result.cells[i].cell
          /\ out.cells[i].typed = result.cells[i].typed
          /\ out.cells[i].value = [kind |-> JsonKind[result.cells[i].value.kind],
                                   of |-> result.cells[i].value.of]
          /\ out.cells[i] = [cell |-> result.cells[i].cell, value |-> out.cells[i].value,
                             typed |-> result.cells[i].typed]
      BY <2>1, <3>1 DEF Entry, Value
    <3> DEFINE kind == result.cells[i].value.kind
    <3>3. JsonKind[kind] \in NativeKinds \cup JsonKinds
      BY <2>1, JsonKinded
    <3>4. out.cells[i].value \in Value
      BY <2>1, <3>2, <3>3 DEF Entry, Value
    <3>5. out.cells[i] \in Entry
      BY <2>1, <3>2, <3>4 DEF Entry
    <3>6. out.cells[i].value.kind \notin {"time text", "fraction text"} =>
            Normalize(out.cells[i].value) = Normalize(result.cells[i].value)
      <4>1. \/ JsonKind[kind] = "iso text" /\ kind \in {"date", "datetime"}
            \/ JsonKind[kind] = "text" /\ kind = "text"
            \/ JsonKind[kind] \in {"time text", "fraction text"}
        BY <2>1, JsonKinded
      <4>2. out.cells[i].value.kind = JsonKind[kind] /\ out.cells[i].value.of = result.cells[i].value.of
        BY <3>2
      <4> HIDE DEF kind
      <4>3. CASE JsonKind[kind] = "iso text" /\ kind \in {"date", "datetime"}
        BY <4>2, <4>3 DEF Normalize, kind
      <4>4. CASE JsonKind[kind] = "text" /\ kind = "text"
        BY <4>2, <4>4 DEF Normalize, kind
      <4>5. QED
        BY <4>1, <4>2, <4>3, <4>4
    <3>7. QED
      BY <3>2, <3>5, <3>6
  <2>4. QED
    BY <2>2, <2>3
<1>5. DOMAIN out.cells = DOMAIN result.cells
  BY <1>3
<1>6. out.cells \in Seq(Entry)
  <2>1. DOMAIN result.cells = 1 .. Len(result.cells) /\ Len(result.cells) \in Nat
    BY <1>2
  <2>2. out.cells \in [1 .. Len(result.cells) -> Entry]
    BY <1>3, <1>4, <2>1
  <2>3. QED
    BY <2>1, <2>2
<1>7. out \in Result
  <2>1. PICK c \in Seq(Entry) : out = [plis |-> result.plis, cells |-> c]
    BY <1>3, <1>6
  <2>2. result.plis \in Seq(Key)
    BY <1>1 DEF Result
  <2>3. QED
    BY <2>1, <2>2 DEF Result
<1>8. ~Fragile(out) => EqualCells(out) = EqualCells(result)
  BY <1>4, <1>5 DEF Fragile, EqualCells
<1>9. NoSuchCell(out) <=> NoSuchCell(result)
  BY <1>4, <1>5 DEF NoSuchCell
<1>10. QED
  BY <1>3, <1>7, <1>8, <1>9 DEF SameScores, out

\* A row that is appended comes last, and the others stay.
LEMMA LastRowAdded ==
  ASSUME NEW rs \in Seq(Row), NEW row \in Row, NEW n, n = Len(rs) + 1
  PROVE  /\ n \in Nat /\ n >= 1 /\ DOMAIN rs = 1 .. n - 1 /\ DOMAIN Append(rs, row) = 1 .. n
         /\ Append(rs, row) \in Seq(Row) /\ Append(rs, row)[n] = row
         /\ \A k \in 1 .. n - 1 : Append(rs, row)[k] = rs[k]
OBVIOUS

LEMMA RowsGrow ==
  ASSUME NEW rs \in Seq(Row), NEW F, RowsInOrder(rs, F),
         NEW row \in Row, \A f \in F : f < row.file
  PROVE  /\ Append(rs, row) \in Seq(Row)
         /\ RowsInOrder(Append(rs, row), F \cup {row.file})
<1> DEFINE qs == Append(rs, row)
           n == Len(rs) + 1
<1>1. /\ n \in Nat /\ n >= 1 /\ qs \in Seq(Row) /\ DOMAIN rs = 1 .. n - 1 /\ DOMAIN qs = 1 .. n
      /\ qs[n] = row /\ \A k \in 1 .. n - 1 : qs[k] = rs[k]
  BY LastRowAdded
<1> HIDE DEF qs, n
<1>2. {qs[k].file : k \in DOMAIN qs} = F \cup {row.file}
  <2>1. {rs[k].file : k \in DOMAIN rs} = F
    BY DEF RowsInOrder
  <2>2. \A k \in DOMAIN qs : k = n \/ k \in DOMAIN rs
    BY <1>1
  <2>3. n \in DOMAIN qs /\ \A k \in DOMAIN rs : k \in DOMAIN qs /\ qs[k] = rs[k]
    BY <1>1
  <2>4. QED
    BY <1>1, <2>1, <2>2, <2>3
<1>3. ASSUME NEW k \in DOMAIN qs, NEW l \in DOMAIN qs, k < l
      PROVE  qs[k].file < qs[l].file
  <2>1. k \in DOMAIN rs /\ qs[k] = rs[k]
    BY <1>1, <1>3
  <2>2. CASE l = n
    BY <1>1, <2>1, <2>2 DEF RowsInOrder
  <2>3. CASE l # n
    <3>1. l \in DOMAIN rs /\ qs[l] = rs[l]
      BY <1>1, <2>3
    <3>2. QED
      BY <1>3, <2>1, <3>1 DEF RowsInOrder
  <2>4. QED
    BY <2>2, <2>3
<1>4. QED
  BY <1>1, <1>2, <1>3 DEF RowsInOrder, qs

-----------------------------------------------------------------------------
(* Every step keeps the invariant *)

LEMMA PairingKept ==
  ASSUME EvaluationInv, PairNext
  PROVE  PairingIsComplete' /\ StrongestFirst'
<1> DEFINE label == labels[at]
           n == Len(pairs) + 1
           e == label[n]
           m == Matched(actual.plis, e, pairs)
           C == {i \in DOMAIN actual.plis \ Consumed(pairs) : SameIo(e, actual.plis[i])}
<1>1. /\ actual # None /\ label # Broken /\ Len(pairs) < Len(label)
      /\ pairs' = Append(pairs, m) /\ labels' = labels /\ at' = at /\ actual' = actual
  BY DEF PairNext, world
<1>2. actual \in Result /\ pairs \in Seq(Nat \cup {None})
  BY <1>1 DEF EvaluationInv, TypeOK
<1>3. actual.plis \in Seq(Key)
  BY <1>2 DEF Result
<1>4. /\ C = {} => m = None
      /\ C # {} => /\ m \in C /\ m # None
                   /\ \A j \in C : Level(e, actual.plis[j]) <= Level(e, actual.plis[m])
  BY <1>3, MatchedIsStrongest
<1>5. m \in Nat \cup {None} /\ DOMAIN actual.plis \subseteq Nat
  BY <1>3, <1>4
<1> HIDE DEF m, C
<1>6. /\ n \in Nat
      /\ DOMAIN pairs = 1 .. n - 1 /\ DOMAIN pairs' = 1 .. n
      /\ pairs'[n] = m /\ \A k \in 1 .. n - 1 : pairs'[k] = pairs[k]
      /\ Consumed(pairs') = Consumed(pairs) \cup ({m} \ {None})
  BY <1>1, <1>2, <1>5, AppendPair
<1> HIDE DEF n
<1>7. \A k \in DOMAIN pairs : pairs[k] # None => pairs[k] \in Consumed(pairs)
  BY DEF Consumed
<1>8. /\ m # None => /\ SameIo(e, actual.plis[m]) /\ m \notin Consumed(pairs)
      /\ m = None => \A i \in DOMAIN actual.plis : SameIo(e, actual.plis[i]) => i \in Consumed(pairs)
  BY <1>4 DEF C
<1>9. PairingIsComplete'
  <2>1. ASSUME NEW k \in 1 .. n, NEW l \in 1 .. n
        PROVE  /\ pairs'[k] # None =>
                    /\ SameIo(label[k], actual.plis[pairs'[k]])
                    /\ k # l => pairs'[k] # pairs'[l]
               /\ pairs'[k] = None =>
                    \A i \in DOMAIN actual.plis : SameIo(label[k], actual.plis[i]) => i \in Consumed(pairs')
    <3>1. CASE k = n /\ l = n
      BY <1>6, <1>8, <3>1
    <3>2. CASE k = n /\ l # n
      <4>1. l \in DOMAIN pairs /\ pairs'[l] = pairs[l]
        BY <1>6, <2>1, <3>2
      <4>2. QED
        BY <1>6, <1>7, <1>8, <3>2, <4>1
    <3>3. CASE k # n
      <4>1. k \in DOMAIN pairs /\ pairs'[k] = pairs[k]
        BY <1>6, <2>1, <3>3
      <4>2. /\ pairs[k] # None => SameIo(label[k], actual.plis[pairs[k]])
            /\ pairs[k] = None =>
                 \A i \in DOMAIN actual.plis : SameIo(label[k], actual.plis[i]) => i \in Consumed(pairs')
        BY <1>6, <4>1 DEF EvaluationInv, PairingIsComplete
      <4>3. CASE l = n
        BY <1>6, <1>7, <1>8, <4>1, <4>2, <4>3
      <4>4. CASE l # n
        <5>1. l \in DOMAIN pairs /\ pairs'[l] = pairs[l]
          BY <1>6, <2>1, <4>4
        <5>2. QED
          BY <4>1, <4>2, <5>1 DEF EvaluationInv, PairingIsComplete
      <4>5. QED
        BY <4>3, <4>4
    <3>4. QED
      BY <3>1, <3>2, <3>3
  <2>2. QED
    BY <1>1, <1>6, <2>1 DEF PairingIsComplete
<1>10. StrongestFirst'
  <2>1. ASSUME NEW k \in 1 .. n, NEW i \in DOMAIN actual.plis, pairs'[k] # None,
               Level(label[k], actual.plis[i]) > Level(label[k], actual.plis[pairs'[k]])
        PROVE  \E l \in 1 .. k - 1 : pairs'[l] = i
    <3>1. CASE k = n
      <4>1. pairs'[k] = m /\ C # {} /\ m \in C
        BY <1>4, <1>6, <2>1, <3>1
      <4>2. SameIo(e, actual.plis[i])
        BY <2>1, <3>1, <4>1, LevelBounds
      <4>3. i \notin C
        BY <1>4, <2>1, <3>1, <4>1, LevelBounds
      <4>4. i \in Consumed(pairs)
        BY <4>2, <4>3 DEF C
      <4>5. PICK l \in DOMAIN pairs : pairs[l] = i
        BY <4>4 DEF Consumed
      <4>6. QED
        BY <1>6, <3>1, <4>5
    <3>2. CASE k # n
      <4>1. k \in DOMAIN pairs /\ pairs'[k] = pairs[k]
        BY <1>6, <2>1, <3>2
      <4>2. PICK l \in 1 .. k - 1 : pairs[l] = i
        BY <2>1, <4>1 DEF EvaluationInv, StrongestFirst
      <4>3. l \in 1 .. n - 1
        BY <1>6, <4>1, <4>2
      <4>4. QED
        BY <1>6, <4>2, <4>3
    <3>3. QED
      BY <3>1, <3>2
  <2>2. QED
    BY <1>1, <1>6, <2>1 DEF StrongestFirst
<1>11. QED
  BY <1>9, <1>10

LEMMA PairNextKeepsInv ==
  ASSUME EvaluationInv, PairNext
  PROVE  EvaluationInv'
<1> DEFINE m == Matched(actual.plis, labels[at][Len(pairs) + 1], pairs)
<1>1. /\ actual # None /\ labels[at] # Broken /\ Len(pairs) < Len(labels[at])
      /\ pairs' = Append(pairs, m)
      /\ UNCHANGED <<selected, labels, books, phase, at, actual, outputs, rows, replayRows>>
  BY DEF PairNext, world
<1>2. /\ pairs \in Seq(Nat \cup {None}) /\ actual.plis \in Seq(Key) /\ at \in Files
      /\ labels[at] \in Seq(Key)
  BY <1>1 DEF EvaluationInv, TypeOK, LoopInv, Result
<1>3. m \in Nat \cup {None}
  <2> DEFINE C == {i \in DOMAIN actual.plis \ Consumed(pairs) :
                     SameIo(labels[at][Len(pairs) + 1], actual.plis[i])}
  <2>1. C \subseteq Nat
    BY <1>2
  <2>2. (C = {} => m = None) /\ (C # {} => m \in C)
    BY <1>2, MatchedIsStrongest
  <2> HIDE DEF C, m
  <2>3. QED
    BY <2>1, <2>2
<1> HIDE DEF m
<1>4. pairs' \in Seq(Nat \cup {None}) /\ Len(pairs') = Len(pairs) + 1 /\ Len(pairs) \in Nat
  BY <1>1, <1>2, <1>3
<1>5. Paired(pairs', actual.plis, labels[at])
  <2>1. Paired(pairs, actual.plis, labels[at])
    BY <1>1 DEF EvaluationInv, LoopInv
  <2>2. QED
    BY <1>1, <1>2, <1>3, <2>1, PairedLonger DEF m
<1>6. TypeOK'
  BY <1>1, <1>4 DEF EvaluationInv, TypeOK
<1>7. LoopInv'
  BY <1>1, <1>2, <1>4, <1>5 DEF EvaluationInv, LoopInv, Wanted
<1>8. FailuresStayInTheirFile'
  BY <1>1 DEF EvaluationInv, FailuresStayInTheirFile, Wanted
<1>9. RowsInv'
  BY <1>1 DEF EvaluationInv, RowsInv, Scored
<1>10. QED
  BY <1>6, <1>7, <1>8, <1>9, PairingKept DEF EvaluationInv

\* Without a pairing under way its properties hold.
LEMMA NothingPaired == pairs = <<>> => PairingIsComplete /\ StrongestFirst
BY DEF PairingIsComplete, StrongestFirst

\* A row whose scores are those of the archived result joins the others.
LEMMA AddRowKeepsInv ==
  ASSUME EvaluationInv, phase \in {"live", "replay"}, at \in Files,
         NEW row \in Row, row.file = at, AddRow(row), UNCHANGED <<world, phase, outputs>>,
         row.error # "extraction" =>
           /\ outputs[at] \in Result /\ Scored(row, outputs[at])
           /\ phase = "live" /\ labels[at] # Broken /\ ~Fragile(outputs[at]) =>
                CellsScored(row, outputs[at]),
         phase = "live" => Wanted(at) /\ (row.error = "extraction" <=> outputs[at] = None),
         phase = "replay" =>
           /\ at \in selected /\ outputs[at] # None
           /\ books[at] = "ok" /\ outputs[at] # Torn =>
                /\ row.error # "extraction"
                /\ labels[at] # Broken => CellsScored(row, outputs[at])
  PROVE  EvaluationInv'
<1>1. /\ at' = at + 1 /\ actual' = None /\ pairs' = <<>>
      /\ UNCHANGED <<selected, labels, books, phase, outputs>>
      /\ phase = "live" => rows' = Append(rows, row) /\ replayRows' = replayRows
      /\ phase # "live" => replayRows' = Append(replayRows, row) /\ rows' = rows
  BY DEF AddRow, world
<1>2. /\ rows \in Seq(Row) /\ replayRows \in Seq(Row) /\ NFiles \in Nat /\ at \in 1 .. NFiles
  BY EvaluationAssumption DEF EvaluationInv, TypeOK, Files
<1>3. PairingIsComplete' /\ StrongestFirst'
  BY <1>1, NothingPaired DEF PairingIsComplete, StrongestFirst
<1>4. LoopInv'
  <2>1. phase = "live" =>
          /\ \A f \in Files : f > at' => outputs[f] = None
          /\ at' \in Files => outputs[at'] = None
          /\ replayRows' = <<>>
    BY <1>1, <1>2 DEF EvaluationInv, LoopInv, Files
  <2>2. QED
    BY <1>1, <2>1 DEF LoopInv
<1> DEFINE Typed(rs, qs) == rs \in Seq(Row) /\ qs \in Seq(Row)
<1>typed. Typed(rows', replayRows') => TypeOK'
  <2>1. at' \in 1 .. NFiles + 1 /\ pairs' \in Seq(Nat \cup {None}) /\ actual' \in Result \cup {None}
    BY <1>1, <1>2
  <2>2. QED
    BY <1>1, <2>1 DEF EvaluationInv, TypeOK
<1>5. CASE phase = "live"
  <2> DEFINE n == Len(rows) + 1
             F == {f \in 1 .. at - 1 : Wanted(f)}
  <2>1. /\ n \in Nat /\ n >= 1 /\ DOMAIN rows = 1 .. n - 1 /\ DOMAIN rows' = 1 .. n
        /\ rows'[n] = row /\ \A k \in 1 .. n - 1 : rows'[k] = rows[k]
    <3>1. rows' = Append(rows, row)
      BY <1>1, <1>5
    <3>2. QED
      BY <1>2, <3>1, LastRowAdded
  <2>2. RowsInOrder(rows, F)
    BY <1>5 DEF EvaluationInv, FailuresStayInTheirFile
  <2>3. F \cup {at} = {f \in 1 .. at' - 1 : Wanted(f)}
    BY <1>1, <1>2, <1>5
  <2>4. \A f \in F : f < row.file
    BY <1>2
  <2> HIDE DEF F, n
  <2>5. Append(rows, row) \in Seq(Row) /\ RowsInOrder(Append(rows, row), F \cup {row.file})
    BY <1>2, <2>2, <2>4, RowsGrow
  <2>6. TypeOK'
    BY <1>1, <1>2, <1>5, <1>typed, <2>5
  <2>7. {f \in 1 .. at' - 1 : Wanted(f)} = {f \in 1 .. at' - 1 : Wanted(f)'}
    BY <1>1 DEF Wanted
  <2>8. FailuresStayInTheirFile'
    <3>1. RowsInOrder(rows', {f \in 1 .. at' - 1 : Wanted(f)'})
      BY <1>1, <1>5, <2>3, <2>5, <2>7
    <3>2. \A k \in DOMAIN rows' : rows'[k].error = "extraction" <=> outputs'[rows'[k].file] = None
      <4>1. TAKE k \in DOMAIN rows'
      <4>2. CASE k = n
        BY <1>1, <1>5, <2>1, <4>2
      <4>3. CASE k # n
        <5>1. k \in DOMAIN rows /\ rows'[k] = rows[k]
          BY <2>1, <4>3
        <5>2. QED
          BY <1>1, <5>1 DEF EvaluationInv, FailuresStayInTheirFile
      <4>4. QED
        BY <4>2, <4>3
    <3>3. QED
      BY <1>1, <1>5, <3>1, <3>2 DEF FailuresStayInTheirFile
  <2>9. RowsInv'
    <3>1. ASSUME NEW k \in DOMAIN rows'
          PROVE  LET f == rows'[k].file
                 IN  /\ phase' = "live" => f < at'
                     /\ rows'[k].error # "extraction" =>
                          /\ outputs'[f] \in Result /\ Scored(rows'[k], outputs'[f])
                          /\ labels'[f] # Broken /\ ~Fragile(outputs'[f]) => CellsScored(rows'[k], outputs'[f])
      <4>1. CASE k = n
        BY <1>1, <1>2, <1>5, <2>1, <4>1
      <4>2. CASE k # n
        <5>1. k \in DOMAIN rows /\ rows'[k] = rows[k]
          BY <2>1, <4>2
        <5>2. rows[k].file \in Files
          <6>1. rows[k] \in Row
            BY <1>2, <5>1
          <6>2. QED
            BY <6>1 DEF Row
        <5>3. QED
          BY <1>1, <1>2, <1>5, <5>1, <5>2 DEF EvaluationInv, RowsInv, Files
      <4>3. QED
        BY <4>1, <4>2
    <3>2. replayRows' = <<>>
      BY <1>1, <1>5 DEF EvaluationInv, LoopInv
    <3>3. QED
      BY <1>1, <3>1, <3>2 DEF RowsInv, Scored
  <2>10. QED
    BY <1>3, <1>4, <2>6, <2>8, <2>9 DEF EvaluationInv
<1>6. CASE phase = "replay"
  <2> DEFINE n == Len(replayRows) + 1
             F == {f \in 1 .. at - 1 : f \in selected /\ outputs[f] # None}
  <2>1. /\ n \in Nat /\ n >= 1 /\ DOMAIN replayRows = 1 .. n - 1 /\ DOMAIN replayRows' = 1 .. n
        /\ replayRows'[n] = row /\ \A k \in 1 .. n - 1 : replayRows'[k] = replayRows[k]
    <3>1. replayRows' = Append(replayRows, row)
      BY <1>1, <1>6
    <3>2. QED
      BY <1>2, <3>1, LastRowAdded
  <2>2. RowsInOrder(replayRows, F)
    BY <1>6 DEF EvaluationInv, FailuresStayInTheirFile
  <2>3. F \cup {at} = {f \in 1 .. at' - 1 : f \in selected /\ outputs[f] # None}
    BY <1>1, <1>2, <1>6
  <2>4. \A f \in F : f < row.file
    BY <1>2
  <2> HIDE DEF F, n
  <2>5. Append(replayRows, row) \in Seq(Row) /\ RowsInOrder(Append(replayRows, row), F \cup {row.file})
    BY <1>2, <2>2, <2>4, RowsGrow
  <2>6. TypeOK'
    BY <1>1, <1>2, <1>6, <1>typed, <2>5
  <2>7. FailuresStayInTheirFile'
    <3>1. RowsInOrder(replayRows', {f \in 1 .. at' - 1 : f \in selected' /\ outputs'[f] # None})
      BY <1>1, <1>6, <2>3, <2>5
    <3>2. QED
      BY <1>1, <1>6, <3>1 DEF EvaluationInv, FailuresStayInTheirFile
  <2>8. RowsInv'
    <3>1. ASSUME NEW k \in DOMAIN replayRows'
          PROVE  LET f == replayRows'[k].file
                 IN  /\ outputs'[f] # None
                     /\ books'[f] = "ok" /\ outputs'[f] # Torn =>
                          /\ Scored(replayRows'[k], outputs'[f])
                          /\ labels'[f] # Broken => CellsScored(replayRows'[k], outputs'[f])
      <4>1. CASE k = n
        BY <1>1, <1>2, <1>6, <2>1, <4>1
      <4>2. CASE k # n
        <5>1. k \in DOMAIN replayRows /\ replayRows'[k] = replayRows[k]
          BY <2>1, <4>2
        <5>2. QED
          BY <1>1, <1>6, <5>1 DEF EvaluationInv, RowsInv
      <4>3. QED
        BY <4>1, <4>2
    <3>2. QED
      BY <1>1, <1>6, <3>1 DEF EvaluationInv, RowsInv, Scored
  <2>9. QED
    BY <1>3, <1>4, <2>6, <2>7, <2>8 DEF EvaluationInv
<1>7. QED
  BY <1>5, <1>6

LEMMA ExtractionFailsKeepsInv ==
  ASSUME EvaluationInv, ExtractionFails
  PROVE  EvaluationInv'
<1> DEFINE row == FailedRow("extraction")
<1>1. /\ phase = "live" /\ actual = None /\ at \in Files /\ Wanted(at)
      /\ AddRow(row) /\ UNCHANGED <<world, phase, outputs>>
  BY DEF ExtractionFails, LiveFile
<1>2. outputs[at] = None
  BY <1>1 DEF EvaluationInv, LoopInv
<1>3. row \in Row /\ row.file = at /\ row.error = "extraction"
  BY <1>1 DEF FailedRow, Row
<1> HIDE DEF row
<1>4. QED
  BY <1>1, <1>2, <1>3, AddRowKeepsInv

LEMMA ReplayFailsKeepsInv ==
  ASSUME EvaluationInv, ReplayFails
  PROVE  EvaluationInv'
<1> DEFINE row == FailedRow("extraction")
<1>1. /\ phase = "replay" /\ at \in Files /\ at \in selected /\ outputs[at] # None
      /\ books[at] = "broken" \/ outputs[at] = Torn
      /\ AddRow(row) /\ UNCHANGED <<world, phase, outputs>>
  BY DEF ReplayFails, ReplayFile
<1>2. row \in Row /\ row.file = at /\ row.error = "extraction"
  BY <1>1 DEF FailedRow, Row
<1> HIDE DEF row
<1>3. QED
  BY <1>1, <1>2, AddRowKeepsInv

\* What is being scored is the archived result, as far as its scores go.
LEMMA ScoredIsArchived ==
  ASSUME EvaluationInv, actual # None
  PROVE  /\ phase \in {"live", "replay"} /\ at \in Files /\ actual \in Result
         /\ outputs[at] \in Result /\ outputs[at] # None /\ outputs[at] # Torn
         /\ SameScores(actual, outputs[at])
         /\ phase = "live" => Wanted(at) /\ books[at] = "ok"
         /\ phase = "replay" => at \in selected /\ outputs[at] = actual
<1>1. phase \in {"live", "replay"} /\ at \in Files /\ actual \in Result
  BY DEF EvaluationInv, TypeOK, LoopInv
<1>2. CASE phase = "live"
  BY <1>1, <1>2, EvaluationAssumption DEF EvaluationInv, LoopInv
<1>3. CASE phase = "replay"
  BY <1>1, <1>3, EvaluationAssumption DEF EvaluationInv, LoopInv, SameScores
<1>4. QED
  BY <1>1, <1>2, <1>3

LEMMA LabelFailsKeepsInv ==
  ASSUME EvaluationInv, LabelFails
  PROVE  EvaluationInv'
<1> DEFINE row == FailedRow("label")
<1>1. /\ actual # None /\ labels[at] = Broken
      /\ AddRow(row) /\ UNCHANGED <<world, phase, outputs>>
  BY DEF LabelFails
<1>2. row \in Row /\ row.file = at /\ row.error = "label" /\ row.pairs = <<>> /\ row.cells = {}
  BY <1>1, ScoredIsArchived DEF FailedRow, Row
<1> HIDE DEF row
<1>3. Scored(row, outputs[at])
  BY <1>1, <1>2 DEF Scored
<1>4. QED
  BY <1>1, <1>2, <1>3, ScoredIsArchived, AddRowKeepsInv

LEMMA ScoringFailsKeepsInv ==
  ASSUME EvaluationInv, ScoringFails
  PROVE  EvaluationInv'
<1> DEFINE row == FailedRow("score")
<1>1. /\ actual # None /\ labels[at] # Broken /\ books[at] = "ok" /\ NoSuchCell(actual)
      /\ AddRow(row) /\ UNCHANGED <<world, phase, outputs>>
  BY DEF ScoringFails, ScorersRaise
<1>2. row \in Row /\ row.file = at /\ row.error = "score" /\ row.pairs = <<>> /\ row.cells = {}
  BY <1>1, ScoredIsArchived DEF FailedRow, Row
<1> HIDE DEF row
<1>3. Scored(row, outputs[at])
  BY <1>1, <1>2 DEF Scored
<1>4. CellsScored(row, outputs[at])
  BY <1>1, <1>2, ScoredIsArchived, EvaluationAssumption DEF CellsScored, SameScores
<1>5. QED
  BY <1>1, <1>2, <1>3, <1>4, ScoredIsArchived, AddRowKeepsInv

LEMMA ScoreFileKeepsInv ==
  ASSUME EvaluationInv, ScoreFile
  PROVE  EvaluationInv'
<1> DEFINE row == [file |-> at, error |-> None, pairs |-> pairs, cells |-> MatchingCells(actual, at)]
<1>1. /\ actual # None /\ labels[at] # Broken /\ Len(pairs) = Len(labels[at])
      /\ ~ScorersRaise(actual, at)
      /\ AddRow(row) /\ UNCHANGED <<world, phase, outputs>>
  BY DEF ScoreFile
<1>2. MatchingCells(actual, at) \in SUBSET Nat
  <2>1. DOMAIN actual.cells \subseteq Nat
    BY <1>1, ScoredIsArchived DEF Result
  <2>2. QED
    BY <2>1 DEF MatchingCells
<1>3. row \in Row /\ row.file = at /\ row.error # "extraction"
  BY <1>1, <1>2, ScoredIsArchived, EvaluationAssumption DEF EvaluationInv, TypeOK, Row
<1>4. row.pairs = pairs /\ row.error = None /\ row.cells = MatchingCells(actual, at)
  OBVIOUS
<1> HIDE DEF row
<1>5. Paired(pairs, outputs[at].plis, labels[at])
  BY <1>1, ScoredIsArchived DEF EvaluationInv, LoopInv, SameScores
<1>6. Scored(row, outputs[at])
  BY <1>1, <1>3, <1>4, <1>5 DEF Scored
<1>7. books[at] = "ok" => CellsScored(row, actual)
  BY <1>1, <1>4, EvaluationAssumption DEF MatchingCells, EqualCells, CellsScored, ScorersRaise
<1>8. CASE phase = "live"
  BY <1>1, <1>3, <1>6, <1>7, <1>8, ScoredIsArchived, AddRowKeepsInv DEF SameScores, CellsScored
<1>9. CASE phase = "replay"
  BY <1>1, <1>3, <1>6, <1>7, <1>9, ScoredIsArchived, AddRowKeepsInv
<1>10. QED
  BY <1>1, <1>8, <1>9, ScoredIsArchived

\* A file without a row: the loop goes on.
LEMMA SkipKeepsInv ==
  ASSUME EvaluationInv, SkipFile \/ SkipOutput
  PROVE  EvaluationInv'
<1>1. /\ actual = None /\ at \in Files /\ at' = at + 1
      /\ UNCHANGED <<selected, labels, books, phase, actual, pairs, outputs, rows, replayRows>>
      /\ \/ phase = "live" /\ ~Wanted(at)
         \/ phase = "replay" /\ (at \notin selected \/ outputs[at] = None)
  BY DEF SkipFile, SkipOutput, LiveFile, ReplayFile, world
<1>2. NFiles \in Nat /\ at \in 1 .. NFiles
  BY <1>1, EvaluationAssumption DEF Files
<1>3. pairs = <<>>
  BY <1>1 DEF EvaluationInv, LoopInv
<1>4. PairingIsComplete' /\ StrongestFirst'
  BY <1>1, <1>3 DEF PairingIsComplete, StrongestFirst
<1>5. TypeOK'
  BY <1>1, <1>2 DEF EvaluationInv, TypeOK
<1>6. LoopInv'
  BY <1>1, <1>2 DEF EvaluationInv, LoopInv, Files
<1>7. RowsInv'
  <2>1. \A k \in DOMAIN rows : rows[k].file < at => rows[k].file < at'
    <3>1. TAKE k \in DOMAIN rows
    <3>2. rows[k] \in Row
      BY DEF EvaluationInv, TypeOK
    <3>3. rows[k].file \in Nat
      BY <3>2 DEF Row, Files
    <3>4. QED
      BY <1>1, <1>2, <3>3
  <2>2. QED
    BY <1>1, <2>1 DEF EvaluationInv, RowsInv, Scored
<1>8. FailuresStayInTheirFile'
  <2>1. CASE phase = "live"
    <3>1. {f \in 1 .. at' - 1 : Wanted(f)'} = {f \in 1 .. at - 1 : Wanted(f)}
      BY <1>1, <1>2, <2>1 DEF Wanted
    <3>2. QED
      BY <1>1, <2>1, <3>1 DEF EvaluationInv, FailuresStayInTheirFile
  <2>2. CASE phase = "replay"
    <3>1. {f \in 1 .. at' - 1 : f \in selected /\ outputs[f] # None}
            = {f \in 1 .. at - 1 : f \in selected /\ outputs[f] # None}
      BY <1>1, <1>2, <2>2
    <3>2. QED
      BY <1>1, <2>2, <3>1 DEF EvaluationInv, FailuresStayInTheirFile
  <2>3. QED
    BY <1>1, <2>1, <2>2
<1>9. QED
  BY <1>4, <1>5, <1>6, <1>7, <1>8 DEF EvaluationInv

LEMMA ExtractFileKeepsInv ==
  ASSUME EvaluationInv, ExtractFile
  PROVE  EvaluationInv'
<1>1. PICK result \in Results[at] :
        actual' = result /\ outputs' = [outputs EXCEPT ![at] = Reloaded(result)]
  BY DEF ExtractFile, Archived
<1>2. /\ phase = "live" /\ actual = None /\ at \in Files /\ Wanted(at) /\ books[at] = "ok"
      /\ UNCHANGED <<selected, labels, books, phase, at, pairs, rows, replayRows>>
  BY DEF ExtractFile, LiveFile, world
<1>3. result \in Result /\ Reloaded(result) \in Result /\ SameScores(result, Reloaded(result))
  BY <1>1, <1>2, ArchiveKeepsScores, EvaluationAssumption
<1>4. /\ outputs'[at] = Reloaded(result) /\ outputs' \in [Files -> Result \cup {None, Torn}]
      /\ \A f \in Files : f # at => outputs'[f] = outputs[f]
  BY <1>1, <1>2, <1>3 DEF EvaluationInv, TypeOK
<1>5. pairs = <<>> /\ pairs \in Seq(Nat \cup {None})
  BY <1>2 DEF EvaluationInv, LoopInv, TypeOK
<1>6. PairingIsComplete' /\ StrongestFirst'
  BY <1>2, <1>5 DEF PairingIsComplete, StrongestFirst
<1>7. TypeOK'
  BY <1>1, <1>2, <1>3, <1>4 DEF EvaluationInv, TypeOK
<1>8. LoopInv'
  <2>1. labels[at] # Broken => labels[at] \in Seq(Key)
    BY <1>2 DEF EvaluationInv, TypeOK
  <2>2. Paired(pairs, result.plis, labels[at]) /\ Len(pairs) = 0
    BY <1>5 DEF Paired
  <2>3. labels[at] # Broken => Len(labels[at]) \in Nat
    BY <2>1
  <2>4. at \in Nat
    BY <1>2 DEF Files
  <2>5. \A f \in Files : f > at => outputs'[f] = None
    BY <1>2, <1>4, <2>4 DEF EvaluationInv, LoopInv, Files
  <2>6. QED
    BY <1>1, <1>2, <1>3, <1>4, <1>5, <2>2, <2>3, <2>5, EvaluationAssumption
       DEF EvaluationInv, LoopInv, Wanted
<1>9. \A k \in DOMAIN rows : rows[k].file < at /\ outputs'[rows[k].file] = outputs[rows[k].file]
  <2>1. TAKE k \in DOMAIN rows
  <2>2. rows[k] \in Row
    BY DEF EvaluationInv, TypeOK
  <2>3. rows[k].file \in Files /\ rows[k].file < at
    BY <1>2, <2>2 DEF Row, EvaluationInv, RowsInv
  <2>4. QED
    BY <1>2, <1>4, <2>3 DEF Files
<1>10. replayRows = <<>>
  BY <1>2 DEF EvaluationInv, LoopInv
<1>11. RowsInv'
  BY <1>2, <1>9, <1>10 DEF EvaluationInv, RowsInv, Scored
<1>12. FailuresStayInTheirFile'
  BY <1>2, <1>9 DEF EvaluationInv, FailuresStayInTheirFile, Wanted
<1>13. QED
  BY <1>6, <1>7, <1>8, <1>11, <1>12 DEF EvaluationInv

LEMMA InterruptKeepsInv ==
  ASSUME EvaluationInv, Interrupt
  PROVE  EvaluationInv'
<1>1. /\ phase = "live" /\ phase' = "idle" /\ at \in Files /\ actual' = None /\ pairs' = <<>>
      /\ UNCHANGED <<selected, labels, books, at, rows, replayRows>>
      /\ \/ outputs' = outputs
         \/ outputs' = [outputs EXCEPT ![at] = Torn]
  BY DEF Interrupt, world
<1>2. /\ outputs' \in [Files -> Result \cup {None, Torn}]
      /\ \A f \in Files : f # at => outputs'[f] = outputs[f]
  BY <1>1 DEF EvaluationInv, TypeOK
<1>3. PairingIsComplete' /\ StrongestFirst'
  BY <1>1 DEF PairingIsComplete, StrongestFirst
<1>4. TypeOK'
  BY <1>1, <1>2 DEF EvaluationInv, TypeOK
<1>5. replayRows' = <<>>
  BY <1>1 DEF EvaluationInv, LoopInv
<1>6. LoopInv'
  BY <1>1, <1>5 DEF LoopInv
<1>7. \A k \in DOMAIN rows : outputs'[rows[k].file] = outputs[rows[k].file]
  <2>1. TAKE k \in DOMAIN rows
  <2>2. rows[k] \in Row
    BY DEF EvaluationInv, TypeOK
  <2>3. rows[k].file \in Files /\ rows[k].file < at
    BY <1>1, <2>2 DEF Row, EvaluationInv, RowsInv
  <2>4. QED
    BY <1>1, <1>2, <2>3 DEF Files
<1>8. RowsInv'
  BY <1>1, <1>5, <1>7 DEF EvaluationInv, RowsInv, Scored
<1>9. FailuresStayInTheirFile'
  BY <1>1, <1>7 DEF EvaluationInv, FailuresStayInTheirFile
<1>10. QED
  BY <1>3, <1>4, <1>6, <1>8, <1>9 DEF EvaluationInv

LEMMA EndKeepsInv ==
  ASSUME EvaluationInv, EndLive \/ EndReplay
  PROVE  EvaluationInv'
<1>1. /\ at \notin Files
      /\ UNCHANGED <<selected, labels, books, at, actual, pairs, outputs, rows, replayRows>>
      /\ \/ phase = "live" /\ phase' = "idle"
         \/ phase = "replay" /\ phase' = "done"
  BY DEF EndLive, EndReplay, world
<1>2. actual = None /\ pairs = <<>>
  BY <1>1 DEF EvaluationInv, LoopInv
<1>3. PairingIsComplete' /\ StrongestFirst'
  BY <1>1, <1>2 DEF PairingIsComplete, StrongestFirst
<1>4. TypeOK'
  BY <1>1 DEF EvaluationInv, TypeOK
<1>5. LoopInv'
  BY <1>1, <1>2 DEF EvaluationInv, LoopInv
<1>6. RowsInv'
  BY <1>1 DEF EvaluationInv, RowsInv, Scored
<1>7. FailuresStayInTheirFile'
  BY <1>1 DEF EvaluationInv, FailuresStayInTheirFile
<1>8. QED
  BY <1>3, <1>4, <1>5, <1>6, <1>7 DEF EvaluationInv

LEMMA StartReplayKeepsInv ==
  ASSUME EvaluationInv, StartReplay
  PROVE  EvaluationInv'
<1>1. /\ phase = "idle" /\ phase' = "replay" /\ at' = 1
      /\ books' \in [Files -> {"ok", "missing", "broken"}]
      /\ UNCHANGED <<selected, labels, actual, pairs, outputs, rows, replayRows>>
  BY DEF StartReplay
<1>2. actual = None /\ pairs = <<>> /\ replayRows = <<>>
  BY <1>1 DEF EvaluationInv, LoopInv
<1>3. PairingIsComplete' /\ StrongestFirst'
  BY <1>1, <1>2 DEF PairingIsComplete, StrongestFirst
<1>4. TypeOK'
  BY <1>1, EvaluationAssumption DEF EvaluationInv, TypeOK
<1>5. LoopInv'
  BY <1>1, <1>2 DEF LoopInv
<1>6. RowsInv'
  BY <1>1, <1>2 DEF EvaluationInv, RowsInv, Scored
<1>7. FailuresStayInTheirFile'
  <2>1. RowsInOrder(replayRows', {f \in 1 .. at' - 1 : f \in selected' /\ outputs'[f] # None})
    BY <1>1, <1>2 DEF RowsInOrder
  <2>2. QED
    BY <1>1, <2>1 DEF EvaluationInv, FailuresStayInTheirFile
<1>8. QED
  BY <1>3, <1>4, <1>5, <1>6, <1>7 DEF EvaluationInv

LEMMA LoadOutputKeepsInv ==
  ASSUME EvaluationInv, LoadOutput
  PROVE  EvaluationInv'
<1>1. /\ phase = "replay" /\ actual = None /\ at \in Files /\ at \in selected
      /\ outputs[at] \notin {None, Torn} /\ actual' = outputs[at]
      /\ UNCHANGED <<selected, labels, books, phase, at, pairs, outputs, rows, replayRows>>
  BY DEF LoadOutput, ReplayFile, world
<1>2. pairs = <<>> /\ actual' \in Result
  BY <1>1 DEF EvaluationInv, LoopInv, TypeOK
<1>3. PairingIsComplete' /\ StrongestFirst'
  BY <1>1, <1>2 DEF PairingIsComplete, StrongestFirst
<1>4. TypeOK'
  BY <1>1, <1>2 DEF EvaluationInv, TypeOK
<1>5. LoopInv'
  <2>1. labels[at] # Broken => Len(labels[at]) \in Nat
    BY <1>1 DEF EvaluationInv, TypeOK
  <2>2. QED
    BY <1>1, <1>2, <2>1 DEF LoopInv, Paired
<1>6. RowsInv'
  BY <1>1 DEF EvaluationInv, RowsInv, Scored
<1>7. FailuresStayInTheirFile'
  BY <1>1 DEF EvaluationInv, FailuresStayInTheirFile
<1>8. QED
  BY <1>3, <1>4, <1>5, <1>6, <1>7 DEF EvaluationInv

LEMMA InitInv == Init => EvaluationInv
<1> SUFFICES ASSUME Init PROVE EvaluationInv
  OBVIOUS
<1>1. \A f \in Files : labels[f] \in Seq(Key) \cup {Broken}
  BY EvaluationAssumption DEF Init
<1>2. NFiles \in Nat /\ 1 \in 1 .. NFiles + 1
  BY EvaluationAssumption
<1>3. TypeOK
  BY <1>1, <1>2 DEF Init, TypeOK
<1>4. LoopInv /\ RowsInv
  BY DEF Init, LoopInv, RowsInv
<1>5. FailuresStayInTheirFile
  <2>1. RowsInOrder(rows, {f \in 1 .. at - 1 : Wanted(f)})
    BY DEF Init, RowsInOrder
  <2>2. QED
    BY <2>1 DEF Init, FailuresStayInTheirFile
<1>6. QED
  BY <1>3, <1>4, <1>5, NothingPaired DEF Init, EvaluationInv

LEMMA StepKeepsInv == EvaluationInv /\ [Next]_vars => EvaluationInv'
<1> SUFFICES ASSUME EvaluationInv, [Next]_vars PROVE EvaluationInv'
  OBVIOUS
<1>1. CASE SkipFile \/ SkipOutput
  BY <1>1, SkipKeepsInv
<1>2. CASE ExtractionFails \/ ReplayFails
  BY <1>2, ExtractionFailsKeepsInv, ReplayFailsKeepsInv
<1>3. CASE ExtractFile
  BY <1>3, ExtractFileKeepsInv
<1>4. CASE Interrupt
  BY <1>4, InterruptKeepsInv
<1>5. CASE EndLive \/ EndReplay
  BY <1>5, EndKeepsInv
<1>6. CASE LabelFails
  BY <1>6, LabelFailsKeepsInv
<1>7. CASE PairNext
  BY <1>7, PairNextKeepsInv
<1>8. CASE ScoringFails \/ ScoreFile
  BY <1>8, ScoringFailsKeepsInv, ScoreFileKeepsInv
<1>9. CASE StartReplay
  BY <1>9, StartReplayKeepsInv
<1>10. CASE LoadOutput
  BY <1>10, LoadOutputKeepsInv
<1>11. CASE UNCHANGED vars
  <2>1. UNCHANGED <<selected, labels, books, phase, at, actual, pairs, outputs, rows, replayRows>>
    BY <1>11 DEF vars, world
  <2>2. TypeOK' /\ LoopInv' /\ PairingIsComplete' /\ StrongestFirst'
    BY <2>1 DEF EvaluationInv, TypeOK, LoopInv, Wanted, PairingIsComplete, StrongestFirst
  <2>3. FailuresStayInTheirFile' /\ RowsInv'
    BY <2>1 DEF EvaluationInv, FailuresStayInTheirFile, Wanted, RowsInv, Scored
  <2>4. QED
    BY <2>2, <2>3 DEF EvaluationInv
<1>12. QED
  BY <1>1, <1>2, <1>3, <1>4, <1>5, <1>6, <1>7, <1>8, <1>9, <1>10, <1>11 DEF Next

LEMMA EvaluationInvariant == Spec => []EvaluationInv
<1>1. Init => EvaluationInv
  BY InitInv
<1>2. EvaluationInv /\ [Next]_vars => EvaluationInv'
  BY StepKeepsInv
<1>3. QED
  BY <1>1, <1>2, PTL DEF Spec

-----------------------------------------------------------------------------
\* Every state of an evaluation and of its replay is well formed.
THEOREM EvaluationTypes == Spec => []TypeOK
<1>1. EvaluationInv => TypeOK
  BY DEF EvaluationInv
<1>2. QED
  BY <1>1, EvaluationInvariant, PTL

\* For any labels and results, in whatever order they list their PLIs, no
\* extracted PLI is used twice and no order keeps a PLI over on both sides (_match).
THEOREM GreedyPairingIsComplete == Spec => []PairingIsComplete
<1>1. EvaluationInv => PairingIsComplete
  BY DEF EvaluationInv
<1>2. QED
  BY <1>1, EvaluationInvariant, PTL

\* A labelled PLI loses a stronger candidate only to an earlier one (_match).
THEOREM PairingIsStrongestFirst == Spec => []StrongestFirst
<1>1. EvaluationInv => StrongestFirst
  BY DEF EvaluationInv
<1>2. QED
  BY <1>1, EvaluationInvariant, PTL

\* Whatever fails, and wherever the run is interrupted, each file has its own
\* row and its result is archived unless its extraction failed (evaluate).
THEOREM FailuresAreIsolated == Spec => []FailuresStayInTheirFile
<1>1. EvaluationInv => FailuresStayInTheirFile
  BY DEF EvaluationInv
<1>2. QED
  BY <1>1, EvaluationInvariant, PTL

\* A replay repeats the scores of the live run, up to times and fractions of a
\* second kept as text (evaluate_replay, values_equal).
THEOREM ReplayIsFaithful == Spec => []ReplayScoresLikeLive
<1>1. EvaluationInv => ReplayScoresLikeLive
  <2> SUFFICES ASSUME EvaluationInv, NEW k \in DOMAIN rows, NEW l \in DOMAIN replayRows,
                      rows[k].file = replayRows[l].file, books[rows[k].file] = "ok",
                      ~Fragile(outputs[rows[k].file])
               PROVE  rows[k] = replayRows[l]
    BY DEF ReplayScoresLikeLive
  <2> DEFINE f == rows[k].file
             r == rows[k]
             q == replayRows[l]
  <2>1. r \in Row /\ q \in Row
    BY DEF EvaluationInv, TypeOK
  <2>2. outputs[f] # None /\ r.error # "extraction"
    BY DEF EvaluationInv, RowsInv, FailuresStayInTheirFile
  <2>3. outputs[f] \in Result /\ outputs[f] # Torn /\ Scored(r, outputs[f])
    BY <2>2, EvaluationAssumption DEF EvaluationInv, RowsInv
  <2>4. Scored(q, outputs[f])
    BY <2>3 DEF EvaluationInv, RowsInv
  <2>5. labels[f] # Broken => CellsScored(r, outputs[f]) /\ CellsScored(q, outputs[f])
    BY <2>2, <2>3 DEF EvaluationInv, RowsInv
  <2> HIDE DEF r, q
  <2>6. r.file = f /\ q.file = f
    BY DEF r, q
  <2> HIDE DEF f
  <2>7. r.pairs \in Seq(Nat \cup {None}) /\ q.pairs \in Seq(Nat \cup {None})
    BY <2>1 DEF Row
  <2>8. CASE labels[f] = Broken
    <3>1. r.error = q.error /\ r.pairs = q.pairs /\ r.cells = q.cells
      BY <2>3, <2>4, <2>6, <2>8 DEF Scored
    <3>2. r = q
      BY <2>1, <2>6, <3>1 DEF Row
    <3>3. QED
      BY <3>2 DEF r, q
  <2>9. CASE labels[f] # Broken
    <3>1. CASE NoSuchCell(outputs[f])
      <4>1. r.error = "score" /\ q.error = "score"
        BY <2>5, <2>9, <3>1 DEF CellsScored
      <4>2. r.pairs = q.pairs /\ r.cells = q.cells
        BY <2>3, <2>4, <2>6, <2>9, <4>1, EvaluationAssumption DEF Scored
      <4>3. r = q
        BY <2>1, <2>6, <4>1, <4>2 DEF Row
      <4>4. QED
        BY <4>3 DEF r, q
    <3>2. CASE ~NoSuchCell(outputs[f])
      <4>1. /\ r.error = None /\ q.error = None /\ Len(r.pairs) = Len(q.pairs)
            /\ Paired(r.pairs, outputs[f].plis, labels[f])
            /\ Paired(q.pairs, outputs[f].plis, labels[f])
        BY <2>3, <2>4, <2>5, <2>6, <2>9, <3>2 DEF Scored, CellsScored
      <4>2. r.pairs = q.pairs
        BY <2>7, <4>1, PairedAlike
      <4>3. r.cells = q.cells
        BY <2>5, <2>9, <4>1 DEF CellsScored
      <4>4. r = q
        BY <2>1, <2>6, <4>1, <4>2, <4>3 DEF Row
      <4>5. QED
        BY <4>4 DEF r, q
    <3>3. QED
      BY <3>1, <3>2
  <2>10. QED
    BY <2>8, <2>9
<1>2. QED
  BY <1>1, EvaluationInvariant, PTL
=============================================================================
