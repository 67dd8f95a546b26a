---------------------------- MODULE AgentContract ----------------------------
(***************************************************************************)
(* What AgentRunner promises the orchestrator (agents/_base.py): a run     *)
(* asks the language model at most MaxRetries + 1 times and then ends, in  *)
(* a validated model or - once every attempt failed - in an                *)
(* AgentRunFailure.  A run that cannot even build its prompt raises,       *)
(* before the first request.                                               *)
(***************************************************************************)
EXTENDS Naturals

CONSTANTS MaxRetries, None

VARIABLES running, asked, ending

contractVars == <<running, asked, ending>>

Endings == {"result", "failure", "raised"}

Init == running = FALSE /\ asked = 0 /\ ending = None

Begin ==
  /\ ~running
  /\ running' = TRUE /\ asked' = 0 /\ ending' = None

Ask ==
  /\ running /\ asked <= MaxRetries
  /\ asked' = asked + 1
  /\ UNCHANGED <<running, ending>>

End(e) ==
  /\ running
  /\ e = "result" => asked > 0
  /\ e = "failure" => asked = MaxRetries + 1
  /\ e = "raised" => asked = 0
  /\ running' = FALSE /\ ending' = e
  /\ UNCHANGED asked

Next == Begin \/ Ask \/ \E e \in Endings : End(e)

Contract == Init /\ [][Next]_contractVars
=============================================================================
