---------------------------- MODULE MCExtraction ----------------------------
(* A workbook of two sheets; the planner's confidences are those of         *)
(* _compute_confidence (plan.py lines 151-155).                             *)
EXTENDS Extraction

TwoSheets == <<"orders", "cutting">>

Draft(mode, confidence, found) ==
  [mode |-> mode, confidence |-> confidence, findings |-> found, maker |-> "planner"]

DraftPlans ==
  {Draft("row_per_pli", 90, f) : f \in {{}, {"warn"}, {"error"}}}
  \cup {Draft("section_per_pli", 90, {}), Draft("sheet_is_pli", 85, {})}
=============================================================================
