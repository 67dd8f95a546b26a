------------------------------ MODULE PliValues ------------------------------
(***************************************************************************)
(* Reading one PLI (applier/apply_plan.py) and verifying it against its    *)
(* source cells (validation/source_cell_verifier.py). Labels are read in   *)
(* plan order, column labels before key/value anchors; the name map sends  *)
(* each label to a canonical name, possibly the same name several times.   *)
(* One step is one label: what the plan and the name map say of it is      *)
(* chosen when it is read.                                                 *)
(*                                                                         *)
(* A cell holds one value, of which only the kind matters, and no two      *)
(* values print alike. What a field or the metadata holds is the value it  *)
(* prints as: the whole number 1078 for the cell 1078.0, 12 for the        *)
(* quantity 12.5. Left out: stages, which have values of their own, and    *)
(* the text 0 and ISO dates, which would be kinds of one value each.       *)
(***************************************************************************)
EXTENDS Naturals

CONSTANTS
  Texts,      \* texts that are neither an integer nor a date, and booleans
  Blanks,     \* texts of blanks
  Numbers,    \* integers other than 0, and texts that print like one
  Zeros,      \* the integer 0
  Floats,     \* whole numbers stored as floats, such as 1078.0
  Fractions,  \* numbers that are not whole, such as 12.5
  Grouped,    \* texts int() reads without their commas and blanks, such as "1,420"
  Whole,      \* int() of a float, a fraction or a grouped text
  Dates,      \* datetimes, and texts in one of the supplier date formats
  Cells,      \* the cells labels point to, after following merged regions
  Targets,    \* the names the name map gives to labels
  Rated,      \* the names in name_map.field_confidence
  MaxLabels,  \* bound on the labels of a plan
  Own,        \* what the readers put into a field themselves
  None

Integers == Numbers \cup Zeros
Rounded == Floats \cup Fractions \cup Grouped
Values == Texts \cup Blanks \cup Integers \cup Rounded \cup Dates
StringFields == {"io_number", "style_code", "style_name",
                 "color_code", "color_name", "fabric_code"}
IntFields == {"quantity"}
DateFields == {"delivery_date"}
\* The fields the readers fill themselves, whatever a label put there.
Overwritten == {"stages", "source"}
PliFields == StringFields \cup IntFields \cup DateFields \cup Overwritten
\* Fields of PLI that hold a dictionary of other names' values.
Containers == {"metadata", "confidence"}
Names == (Targets \cup {"io_number", "buyer_po_no", "delivery_date"} \cup Overwritten)
           \ (Containers \cup {"ignore"})
Channels == {"header_label", "kv_anchor"}
Confidences == Channels \cup {"metadata_fallback", "rated"}

ASSUME ValuesAssumption ==
  /\ None \notin Values \cup Cells \cup Confidences \cup {Own} /\ Own \notin Values
  /\ Whole \in [Rounded -> Integers]
  /\ Rounded \cap Integers = {} /\ Fractions \cap (Floats \cup Grouped) = {}
  /\ Blanks \cap (Rounded \cup Integers \cup Dates) = {} /\ Dates \cap (Rounded \cup Integers) = {}
  /\ MaxLabels \in Nat

VARIABLES
  sheet,    \* cell -> its value; nothing changes it
  read,     \* labels read so far
  channel,  \* the kind of label being read
  pc,       \* "reading", "built" or "verified"; "misnamed" or "rejected" if raised
  fields,   \* values[name]
  meta,     \* values["metadata"][name]
  cells,    \* source_cells[name]
  conf,     \* values["confidence"][name], as the reason for the number
  flagged   \* the names SourceCellVerifier reports

vars == <<sheet, read, channel, pc, fields, meta, cells, conf, flagged>>

Nowhere == [n \in Names |-> None]

Init ==
  /\ sheet \in [Cells -> Values \cup {None}]
  /\ read = 0 /\ channel = "header_label" /\ pc = "reading"
  /\ fields = Nowhere /\ meta = Nowhere /\ cells = Nowhere /\ conf = Nowhere
  /\ flagged = {}

-----------------------------------------------------------------------------
\* _coerce returns a value: string fields take anything and int fields what
\* int() can read; the other fields are not coerced at all.
CoercesAnything(n, v) == TRUE            \* mutant: int fields are not checked
Coerces(n, v) == n \in IntFields => v \in Integers \cup Rounded

\* The value it returns: int() cuts a fraction off; a string field drops ".0".
Truncates(n, v) == (n \in IntFields /\ v \in Rounded) \/ (n \in StringFields /\ v \in Floats)
Coerced(n, v) == IF Truncates(n, v) THEN Whole[v] ELSE v

TakenAsField(n, v) == n \in PliFields /\ Coerces(n, v)

\* _resolve_confidence, with the source the two readers pass to it.
ConfidenceOfChannel(n, source) ==        \* mutant: the fallback counts as its channel
  IF n \in Rated THEN "rated" ELSE channel'
Confidence(n, source) == IF n \in Rated THEN "rated" ELSE source

\* values["metadata"][canonical] = val, the later label winning.
KeepFirst(n, v) ==                       \* mutant: setdefault instead of assignment
  [meta EXCEPT ![n] = IF meta[n] = None THEN v ELSE meta[n]]
WithMeta(n, v) == [meta EXCEPT ![n] = v]

\* The next label of the plan: column labels come before key/value anchors.
NextLabel ==
  /\ pc = "reading" /\ read < MaxLabels
  /\ read' = read + 1
  /\ channel' \in Channels
  /\ channel = "kv_anchor" => channel' = "kv_anchor"

\* source_cells[canonical] = addr, and the confidence that goes with it.
Trace(n, c, source) ==
  /\ cells' = [cells EXCEPT ![n] = c]
  /\ conf' = [conf EXCEPT ![n] = Confidence(n, source)]

\* The label is mapped to "ignore", or its cell is empty.
SkipLabel ==
  /\ NextLabel
  /\ "ignore" \in Targets \/ \E c \in Cells : sheet[c] = None
  /\ UNCHANGED <<sheet, pc, fields, meta, cells, conf, flagged>>

\* The value becomes the value of a PLI field.
ReadField(n, c) ==
  /\ NextLabel
  /\ sheet[c] # None /\ TakenAsField(n, sheet[c])
  /\ fields' = [fields EXCEPT ![n] = Coerced(n, sheet[c])]
  /\ Trace(n, c, channel')
  /\ UNCHANGED <<sheet, pc, meta, flagged>>

\* No PLI field has this name, or the field cannot take the value (the
\* canonical_coerce_failed warning): the raw value goes to the metadata.
ReadMetadata(n, c) ==
  /\ NextLabel
  /\ sheet[c] # None /\ ~TakenAsField(n, sheet[c])
  /\ meta' = WithMeta(n, sheet[c])
  /\ Trace(n, c, "metadata_fallback")
  /\ UNCHANGED <<sheet, pc, fields, flagged>>

\* A value replaces one of the dictionaries themselves. Whatever follows raises:
\* the next write into it, or the validation of PLI.
ReadContainer(n, c) ==
  /\ NextLabel
  /\ n \in Targets \cap Containers /\ sheet[c] # None
  /\ pc' = "misnamed"
  /\ UNCHANGED <<sheet, fields, meta, cells, conf, flagged>>

-----------------------------------------------------------------------------
\* _promote_io_number_fallback: an unused buyer PO becomes the io_number.
Promotes == fields["io_number"] = None /\ meta["buyer_po_no"] # None

\* PLI(**values) accepts the value. Pydantic reads the number 0 as a date.
Valid(n, v) ==
  /\ n \in IntFields => v \in Integers
  /\ n \in DateFields => v \in Dates \cup Zeros

\* What the PLI holds under n: the readers' own source and stages, of which there
\* may be none, a promoted buyer PO, and no date for blanks.
FieldOfPli(n, hasStages) ==
  CASE n = "source" -> Own
    [] n = "stages" -> IF hasStages THEN Own ELSE None
    [] n = "io_number" /\ Promotes -> meta["buyer_po_no"]
    [] n \in DateFields /\ fields[n] \in Blanks -> None
    [] OTHER -> fields[n]

\* The end of _emit_single_row_pli, and of the per-block and per-sheet readers.
Emit ==
  /\ pc = "reading"
  /\ \E hasStages \in BOOLEAN : fields' = [n \in Names |-> FieldOfPli(n, hasStages)]
  /\ meta' = [meta EXCEPT !["buyer_po_no"] = IF Promotes THEN None ELSE @]
  /\ pc' = IF \A n \in Names : fields'[n] # None => Valid(n, fields'[n])
           THEN "built" ELSE "rejected"
  /\ UNCHANGED <<sheet, read, channel, cells, conf, flagged>>

\* getattr(pli, field, None) or pli.metadata.get(field): the number 0 is false.
FieldCounts(n) == fields[n] # None /\ ~(n \in IntFields /\ fields[n] \in Zeros)
MetadataFirst(n) == IF meta[n] # None THEN meta[n] ELSE fields[n]  \* mutant: operands swapped
Extracted(n) == IF FieldCounts(n) THEN fields[n] ELSE meta[n]

\* A date field prints otherwise than the cell it was read from, which holds a
\* datetime or a text of another format.
Restated(n) == FieldCounts(n) /\ n \in DateFields

\* SourceCellVerifier.run: str(actual) != str(extracted).
Differs(n) ==
  /\ cells[n] # None /\ Extracted(n) # None
  /\ Extracted(n) # sheet[cells[n]] \/ Restated(n)

Verify ==
  /\ pc = "built"
  /\ pc' = "verified"
  /\ flagged' = {n \in Names : Differs(n)}
  /\ UNCHANGED <<sheet, read, channel, fields, meta, cells, conf>>

ReadLabel ==
  \/ SkipLabel
  \/ \E n \in Targets \cap Names, c \in Cells : ReadField(n, c)
  \/ \E n \in Targets \cap Names, c \in Cells : ReadMetadata(n, c)
  \/ \E n \in Containers, c \in Cells : ReadContainer(n, c)

Next == ReadLabel \/ Emit \/ Verify

Spec == Init /\ [][Next]_vars

-----------------------------------------------------------------------------
(***************************************************************************)
(* Properties                                                              *)
(***************************************************************************)

\* Types of all variables.
TypeOK ==
  /\ sheet \in [Cells -> Values \cup {None}]
  /\ read \in 0..MaxLabels /\ channel \in Channels
  /\ pc \in {"reading", "built", "verified", "misnamed", "rejected"}
  /\ fields \in [Names -> Values \cup {Own, None}]
  /\ meta \in [Names -> Values \cup {None}]
  /\ cells \in [Names -> Cells \cup {None}]
  /\ conf \in [Names -> Confidences \cup {None}]
  /\ flagged \subseteq Names

\* However many labels share a name, the value at the address recorded for it is
\* in the PLI, as the field, as metadata or as the promoted io_number, perhaps as
\* the whole number it stands for. It is not in exactly three cases: a label named
\* like a field the readers fill themselves, a fraction in an int field, and a
\* date field of blanks.
SameValue(v) == {v} \cup {Whole[w] : w \in {v} \cap (Floats \cup Grouped)}
HoldsValue(n, v) ==
  \/ {fields[n], meta[n]} \cap SameValue(v) # {}
  \/ n = "buyer_po_no" /\ fields["io_number"] = v
Loses(n, v) ==
  \/ n \in Overwritten
  \/ n \in IntFields /\ v \in Fractions
  \/ n \in DateFields /\ v \in Blanks
LossesAreKnown ==
  pc \in {"built", "verified"} =>
    \A n \in Names : cells[n] # None => (HoldsValue(n, sheet[cells[n]]) <=> ~Loses(n, sheet[cells[n]]))

\* The confidence of a name is that of the read its address records: low if and
\* only if the value at that address could not become the field, unless the
\* language model rated the name. (_read_kv_into, _emit_single_row_pli)
ConfidenceFollowsAddress ==
  \A n \in Names :
    /\ cells[n] = None <=> conf[n] = None
    /\ cells[n] # None =>
         IF n \in Rated THEN conf[n] = "rated"
         ELSE conf[n] = "metadata_fallback" <=> ~TakenAsField(n, sheet[cells[n]])

\* _coerce keeps PLI validation from failing on everything but dates: only a
\* delivery date that is no date makes PLI(**values) raise. ("instead of
\* crashing PLI validation", apply_plan.py)
OnlyDatesAreRejected ==
  pc = "rejected" => \E n \in DateFields : fields[n] \in Values \ (Dates \cup Zeros \cup Blanks)

\* SourceCellVerifier errs on zeros and dates only: a field whose recorded address
\* holds another value is reported unless it is 0, which counts as missing; and a
\* field that is the value at its address is not, unless it is a date, which prints
\* otherwise, or 0, when metadata of the same name is compared instead.
Drifts(n) == cells[n] # None /\ fields[n] # None /\ fields[n] # sheet[cells[n]]
VerifierErrsOnZerosAndDates ==
  pc = "verified" =>
    \A n \in Names :
      /\ Drifts(n) /\ n \notin flagged => n \in IntFields /\ fields[n] \in Zeros
      /\ n \in flagged /\ ~Drifts(n) => n \in DateFields \/ fields[n] \in Zeros

\* "Every extracted value carries the A1 address it was read from" (README.md):
\* refuted by the promoted io_number, whose address stays with buyer_po_no, and
\* by a field whose address was overwritten by a later label's.
ValuesCarryTheirAddress ==
  pc = "built" =>
    \A n \in Names : fields[n] \in Values =>
      cells[n] # None /\ fields[n] = Coerced(n, sheet[cells[n]])
=============================================================================
