----------------------------- MODULE MCSheetPlan -----------------------------
(***************************************************************************)
(* TLC instances of SheetPlan: every valid sheet of MaxRow rows made of    *)
(* the row kinds below.  RowSheetKinds make each rule of the scan fire and *)
(* let sums match, miss by less than the tolerance, and miss;              *)
(* SectionKinds are those that matter to the blocks of a section sheet.    *)
(***************************************************************************)
EXTENDS SheetPlan

Kind(id, qty, other, merge) == [id |-> id, qty |-> qty, other |-> other, merge |-> merge]

RowSheetKinds ==
  { Kind("none", None, FALSE, "no"),    \* an empty row
    Kind("none", 0,    TRUE,  "no"),    \* a number alone
    Kind("none", 5,    TRUE,  "no"),    \* within the tolerance of the product below
    Kind("none", 8,    TRUE,  "no"),
    Kind("term", None, TRUE,  "no"),    \* a header row
    Kind("term", None, TRUE,  "top"),   \* a header cell merged downwards
    Kind("text", None, TRUE,  "no"),    \* a product without quantity
    Kind("text", 4,    TRUE,  "top"),
    Kind("none", 4,    TRUE,  "in"),    \* a further row of a merged region
    Kind("none", None, FALSE, "in"),
    Kind("none", None, TRUE,  "wide") } \* a title merged across the columns

SectionKinds ==
  { Kind("none", None, FALSE, "no"),    \* an empty row
    Kind("none", None, TRUE,  "no"),    \* labels without an identity
    Kind("term", None, TRUE,  "no"),
    Kind("text", None, TRUE,  "top"),
    Kind("none", None, TRUE,  "in") }
=============================================================================
