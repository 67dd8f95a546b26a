----------------------------- MODULE MCEvaluation -----------------------------
(***************************************************************************)
(* TLC instance of Evaluation: a file whose labels and results list up to  *)
(* MaxPlis PLIs with keys of every strength, and a file that only takes    *)
(* its turn; values of every type, recorded for the right cell or another. *)
(***************************************************************************)
EXTENDS Evaluation

CONSTANT MaxPlis

K(io, style, color) == [io |-> io, style |-> style, color |-> color]
SomeKeys ==
  { K("i1", "s1", "c1"), K("i1", "s1", "c2"), K("i1", None, "c1"), K("i2", "s1", "c1"),
    K(None, "s1", "c1") }
Documents == UNION {[1 .. n -> SomeKeys] : n \in 0 .. MaxPlis}
SomeLabels == [f \in 1 .. NFiles |-> IF f = 1 THEN Documents ELSE {<<>>}]

V(kind, of) == [kind |-> kind, of |-> of]
E(cell, value, typed) == [cell |-> cell, value |-> value, typed |-> typed]
SomeCells ==
  { <<E(V("datetime", 1), V("date", 1), TRUE), E(V("datetime", 1), V("datetime", 2), FALSE)>>,
    <<E(V("datetime", 1), V("datetime", 1), FALSE), E(V("text", 1), V("text", 1), FALSE)>>,
    <<E(V("fraction", 1), V("fraction", 1), FALSE)>>,
    <<E(V("text", 2), V("text", 2), TRUE), E(V("time", 1), V("time", 1), FALSE)>>,
    <<E(V("text", 1), V("text", 1), TRUE), E(None, V("text", 1), FALSE)>> }
SomeResults ==
  [f \in 1 .. NFiles |->
     IF f = 1 THEN [plis: Documents, cells: {<<>>}]
     ELSE [plis: {<<>>, <<K("i1", "s1", "c1")>>}, cells: SomeCells]]
=============================================================================
