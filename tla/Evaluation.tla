------------------------------ MODULE Evaluation ------------------------------
(***************************************************************************)
(* The evaluation of an extractor against hand-made labels, src/evals:     *)
(*   evaluate          extracts each labelled file, archives the result as *)
(*                     JSON and scores it                                  *)
(*   evaluate_replay   scores the archived results again, later            *)
(* Files are numbered in the order in which sorted() lists their labels.   *)
(* Of the scores a row holds what they are computed from: which extracted  *)
(* PLI each labelled one is paired with, and which recorded source cells   *)
(* hold the value extracted.                                               *)
(***************************************************************************)
EXTENDS Integers, Sequences, FiniteSets, FiniteSetsExt

CONSTANTS
  NFiles,        \* number of label files
  Orders,        \* io_number values
  Styles,        \* style_code values
  Colors,        \* color_code values
  Days,          \* what a value says, apart from its type
  Labels,        \* the label documents each file may have
  Results,       \* the results the extractor may return for each file
  Broken,        \* a label document that does not validate
  Torn,          \* an output that was not written to its end
  None           \* Python's None

Files == 1 .. NFiles
Key == [io: Orders \cup {None}, style: Styles \cup {None}, color: Colors \cup {None}]

\* Types of cell values, a time being one of day or a duration, and of what JSON
\* makes of them.
NativeKinds == {"date", "datetime", "fraction", "time", "text"}
JsonKinds == {"iso text", "fraction text", "time text"}
Value == [kind: NativeKinds \cup JsonKinds, of: Days]

\* One entry of source.cells: the value of the cell, None if the workbook has no
\* such sheet or cell, the value extracted, and whether that is a typed field of
\* PLI or one of its metadata.
Entry == [cell: Value \cup {None}, value: Value, typed: BOOLEAN]
Result == [plis: Seq(Key), cells: Seq(Entry)]
Row == [file: Files, error: {None, "extraction", "label", "score"},
        pairs: Seq(Nat \cup {None}), cells: SUBSET Nat]

ASSUME EvaluationAssumption ==
  /\ NFiles \in Nat
  /\ None \notin Int \cup {"extraction", "label", "score"}
  /\ None \notin Result /\ Torn \notin Result
  /\ \A f \in Files : Labels[f] \subseteq Seq(Key) /\ Results[f] \subseteq Result
  /\ \A f \in Files : \A r \in Results[f] : \A i \in DOMAIN r.cells :
       r.cells[i].value.kind \in NativeKinds

VARIABLES
  selected,    \* file_stems
  labels,      \* the label documents
  books,       \* the workbooks: "ok", "missing" or "broken", which cannot be opened
  phase,       \* "live", "idle" between the two, "replay", "done"
  at,          \* the file the loop is at
  actual,      \* the result being scored
  pairs,       \* the indices paired with the first labelled PLIs
  outputs,     \* outputs/<stem>.json of the live run
  rows,        \* rows of the live run
  replayRows   \* rows of the replay

world == <<selected, labels, books>>
vars == <<world, phase, at, actual, pairs, outputs, rows, replayRows>>

Init ==
  /\ selected \in SUBSET Files
  /\ labels \in {ls \in [Files -> UNION {Labels[f] : f \in Files} \cup {Broken}] :
                   \A f \in Files : ls[f] \in Labels[f] \cup {Broken}}
  /\ books \in [Files -> {"ok", "missing", "broken"}]
  /\ phase = "live" /\ at = 1
  /\ actual = None /\ pairs = <<>>
  /\ outputs = [f \in Files |-> None]
  /\ rows = <<>> /\ replayRows = <<>>

-----------------------------------------------------------------------------
(* Pairing labelled and extracted PLIs: _match *)

SameIo(e, p) == e.io # None /\ p.io = e.io
SameStyle(e, p) == SameIo(e, p) /\ e.style # None /\ p.style = e.style
SameColor(e, p) == SameStyle(e, p) /\ e.color # None /\ p.color = e.color
Level(e, p) ==
  IF SameColor(e, p) THEN 3 ELSE IF SameStyle(e, p) THEN 2 ELSE IF SameIo(e, p) THEN 1 ELSE 0

NothingConsumed(ps) == {}          \* mutant: an extracted PLI may be used twice
Consumed(ps) == {ps[k] : k \in DOMAIN ps} \ {None}

AnyCandidate(e, p, q) == TRUE      \* mutant: the first of the same order, whatever else it is
NotBetter(e, p, q) == Level(e, p) <= Level(e, q)

\* The first of the strongest candidates, or None without a candidate.
Matched(plis, e, ps) ==
  LET candidates == {i \in DOMAIN plis \ Consumed(ps) : SameIo(e, plis[i])}
  IN  IF candidates = {} THEN None
      ELSE Min({i \in candidates : \A j \in candidates : NotBetter(e, plis[j], plis[i])})

-----------------------------------------------------------------------------
(* Comparing values after a JSON round trip *)

\* model_dump_json and model_validate_json: typed fields are parsed back, in
\* metadata dates and times stay text.
JsonKind == [date |-> "iso text", datetime |-> "iso text", fraction |-> "fraction text",
             time |-> "time text", text |-> "text"]
Reloaded(result) ==
  [result EXCEPT !.cells =
     [i \in DOMAIN result.cells |->
        IF result.cells[i].typed THEN result.cells[i]
        ELSE [result.cells[i] EXCEPT !.value.kind = JsonKind[result.cells[i].value.kind]]]]

\* values_equal: dates, datetimes and the three ISO formats become dates.
IsoUnread(v) ==                    \* mutant: a text is not read as a date
  IF v.kind \in {"date", "datetime", "fraction"} THEN <<"date", v.of>> ELSE <<v.kind, v.of>>
Normalize(v) ==
  IF v.kind \in {"date", "datetime", "fraction", "iso text"} THEN <<"date", v.of>>
  ELSE <<v.kind, v.of>>

\* score_source_cell_match raises for a sheet the workbook does not have and for a
\* text that is no address.
NoSuchCell(result) == \E i \in DOMAIN result.cells : result.cells[i].cell = None
ScorersRaise(result, f) == books[f] = "ok" /\ NoSuchCell(result)

\* What it counts otherwise; without a workbook nothing matches.
MatchingCells(result, f) ==
  {i \in DOMAIN result.cells :
     /\ books[f] = "ok"
     /\ Normalize(result.cells[i].cell) = Normalize(result.cells[i].value)}

-----------------------------------------------------------------------------
(* The live run *)

Wanted(f) == f \in selected /\ books[f] # "missing"
LiveFile == phase = "live" /\ actual = None /\ at \in Files
FailedRow(error) == [file |-> at, error |-> error, pairs |-> <<>>, cells |-> {}]

\* The row joins those of the phase, and the loop goes on.
AddRow(row) ==
  /\ IF phase = "live" THEN rows' = Append(rows, row) /\ UNCHANGED replayRows
     ELSE replayRows' = Append(replayRows, row) /\ UNCHANGED rows
  /\ at' = at + 1 /\ actual' = None /\ pairs' = <<>>

SkipFile ==
  /\ LiveFile /\ ~Wanted(at)
  /\ at' = at + 1
  /\ UNCHANGED <<world, phase, actual, pairs, outputs, rows, replayRows>>

\* register_workbook or the extractor raises.
ExtractionFails ==
  /\ LiveFile /\ Wanted(at)
  /\ AddRow(FailedRow("extraction"))
  /\ UNCHANGED <<world, phase, outputs>>

\* The result is archived before it is scored.
ArchivedIfLabelled(result) ==      \* mutant: what cannot be scored is not archived
  IF labels[at] = Broken THEN outputs ELSE [outputs EXCEPT ![at] = Reloaded(result)]
Archived(result) == [outputs EXCEPT ![at] = Reloaded(result)]
ExtractFile ==
  /\ LiveFile /\ Wanted(at) /\ books[at] = "ok"
  /\ \E result \in Results[at] : actual' = result /\ outputs' = Archived(result)
  /\ UNCHANGED <<world, phase, at, pairs, rows, replayRows>>

\* The process is killed; the result being written may be cut short.
Interrupt ==
  /\ phase = "live" /\ at \in Files
  /\ phase' = "idle" /\ actual' = None /\ pairs' = <<>>
  /\ \/ UNCHANGED outputs
     \/ LiveFile /\ Wanted(at) /\ books[at] = "ok" /\ outputs' = [outputs EXCEPT ![at] = Torn]
  /\ UNCHANGED <<world, at, rows, replayRows>>

EndLive ==
  /\ phase = "live" /\ at \notin Files
  /\ phase' = "idle"
  /\ UNCHANGED <<world, at, actual, pairs, outputs, rows, replayRows>>

-----------------------------------------------------------------------------
(* Scoring, of a result just extracted or of an archived one: _score_one *)

LabelFails ==
  /\ actual # None /\ labels[at] = Broken
  /\ AddRow(FailedRow("label"))
  /\ UNCHANGED <<world, phase, outputs>>

PairNext ==
  /\ actual # None /\ labels[at] # Broken
  /\ Len(pairs) < Len(labels[at])
  /\ pairs' = Append(pairs, Matched(actual.plis, labels[at][Len(pairs) + 1], pairs))
  /\ UNCHANGED <<world, phase, at, actual, outputs, rows, replayRows>>

ScoringFails ==
  /\ actual # None /\ labels[at] # Broken
  /\ Len(pairs) = Len(labels[at])
  /\ ScorersRaise(actual, at)
  /\ AddRow(FailedRow("score"))
  /\ UNCHANGED <<world, phase, outputs>>

ScoreFile ==
  /\ actual # None /\ labels[at] # Broken
  /\ Len(pairs) = Len(labels[at])
  /\ ~ScorersRaise(actual, at)
  /\ AddRow([file |-> at, error |-> None, pairs |-> pairs, cells |-> MatchingCells(actual, at)])
  /\ UNCHANGED <<world, phase, outputs>>

-----------------------------------------------------------------------------
(* The replay of the archived results *)

\* By then workbooks may have been removed or replaced.
StartReplay ==
  /\ phase = "idle"
  /\ phase' = "replay" /\ at' = 1
  /\ books' \in [Files -> {"ok", "missing", "broken"}]
  /\ \A f \in Files : books[f] # "ok" => books'[f] = books[f]
  /\ UNCHANGED <<selected, labels, actual, pairs, outputs, rows, replayRows>>

ReplayFile == phase = "replay" /\ actual = None /\ at \in Files

SkipOutput ==
  /\ ReplayFile /\ (at \notin selected \/ outputs[at] = None)
  /\ at' = at + 1
  /\ UNCHANGED <<world, phase, actual, pairs, outputs, rows, replayRows>>

\* The workbook cannot be opened, or the output is no ExtractionResult.
ReplayFails ==
  /\ ReplayFile /\ at \in selected /\ outputs[at] # None
  /\ books[at] = "broken" \/ outputs[at] = Torn
  /\ AddRow(FailedRow("extraction"))
  /\ UNCHANGED <<world, phase, outputs>>

LoadOutput ==
  /\ ReplayFile /\ at \in selected /\ outputs[at] \notin {None, Torn}
  /\ books[at] # "broken"
  /\ actual' = outputs[at]
  /\ UNCHANGED <<world, phase, at, pairs, outputs, rows, replayRows>>

EndReplay ==
  /\ phase = "replay" /\ at \notin Files
  /\ phase' = "done"
  /\ UNCHANGED <<world, at, actual, pairs, outputs, rows, replayRows>>

Next ==
  \/ SkipFile \/ ExtractionFails \/ ExtractFile \/ Interrupt \/ EndLive
  \/ LabelFails \/ PairNext \/ ScoringFails \/ ScoreFile
  \/ StartReplay \/ SkipOutput \/ ReplayFails \/ LoadOutput \/ EndReplay

Spec == Init /\ [][Next]_vars

-----------------------------------------------------------------------------
(* Properties *)

TypeOK ==
  /\ selected \subseteq Files
  /\ \A f \in Files : labels[f] \in Seq(Key) \cup {Broken}
  /\ books \in [Files -> {"ok", "missing", "broken"}]
  /\ phase \in {"live", "idle", "replay", "done"}
  /\ at \in 1 .. NFiles + 1
  /\ actual \in Result \cup {None}
  /\ pairs \in Seq(Nat \cup {None})
  /\ outputs \in [Files -> Result \cup {None, Torn}]
  /\ rows \in Seq(Row) /\ replayRows \in Seq(Row)

\* The pairing is one-to-one, pairs only PLIs of one order, and never leaves an
\* order with a PLI over on both sides: taking the candidates greedily costs no
\* recall, in whatever order the labels list the PLIs (_match, pli_recall.py).
PairingIsComplete ==
  \A k, l \in DOMAIN pairs :
    /\ pairs[k] # None =>
         /\ SameIo(labels[at][k], actual.plis[pairs[k]])
         /\ k # l => pairs[k] # pairs[l]
    /\ pairs[k] = None =>
         \A i \in DOMAIN actual.plis :
           SameIo(labels[at][k], actual.plis[i]) => i \in Consumed(pairs)

\* A labelled PLI is paired with a weaker candidate only when each stronger one
\* went to a PLI the label lists before it ("strongest first", pli_recall.py).
StrongestFirst ==
  \A k \in DOMAIN pairs : \A i \in DOMAIN actual.plis :
    pairs[k] # None /\ Level(labels[at][k], actual.plis[i]) > Level(labels[at][k], actual.plis[pairs[k]])
      => \E l \in 1 .. k - 1 : pairs[l] = i

\* One row for each selected file that has a workbook, in file order, whatever
\* fails in other files; a result is archived unless its extraction failed, also
\* when it cannot be scored; and the replay has one row for each archived result
\* ("Per-file failures are isolated", evaluator.py).
RowsInOrder(rs, files) ==
  /\ {rs[k].file : k \in DOMAIN rs} = files
  /\ \A k, l \in DOMAIN rs : k < l => rs[k].file < rs[l].file
FailuresStayInTheirFile ==
  /\ phase = "live" => RowsInOrder(rows, {f \in 1 .. at - 1 : Wanted(f)})
  /\ \A k \in DOMAIN rows : rows[k].error = "extraction" <=> outputs[rows[k].file] = None
  /\ phase \in {"replay", "done"} =>
       RowsInOrder(replayRows, {f \in 1 .. at - 1 : f \in selected /\ outputs[f] # None})

\* The replay of a file has the scores of its live run, as long as its workbook
\* is there, except for metadata that are times or fractions of a second: their
\* texts are no longer read as what they were (source_cell_match.py, lines 15-19).
Fragile(output) ==
  \E i \in DOMAIN output.cells : output.cells[i].value.kind \in {"time text", "fraction text"}
ReplayScoresLikeLive ==
  \A k \in DOMAIN rows, l \in DOMAIN replayRows :
    LET f == rows[k].file
    IN  f = replayRows[l].file /\ books[f] = "ok" /\ ~Fragile(outputs[f])
          => rows[k] = replayRows[l]
=============================================================================
