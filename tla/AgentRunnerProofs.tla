-------------------------- MODULE AgentRunnerProofs --------------------------
(***************************************************************************)
(* Theorems about AgentRunner for every number of retries: its types, the  *)
(* prompt, the failure report and the counters, and that it implements     *)
(* AgentContract.                                                          *)
(***************************************************************************)
EXTENDS AgentRunner, FiniteSetTheorems, TLAPS

\* How far the run has come: it has no outcome yet, an answer for each finished
\* attempt, and the error of the last of them.
RunInProgress ==
  /\ pc # "idle" => outcome = None
  /\ pc = "loop" => Len(answers) = attempt
  /\ pc = "request" => Len(answers) = attempt - 1
  /\ pc = "loop" /\ attempt > 0 =>
       /\ lastError # None
       /\ (lastError = "validation") <=> (answers[attempt] = "invalid")

\* As long as a request may follow, the prompt holds the errors so far.
PromptIsCurrent ==
  pc = "request" \/ (pc = "loop" /\ RetriesLeft) => errorsIn = InvalidAnswers

RunnerInv ==
  /\ TypeOK
  /\ RunInProgress
  /\ PromptIsCurrent
  /\ FailureReportsLastAttempt
  /\ CountersReconcile

-----------------------------------------------------------------------------
(* One more answer adds one to the invalid ones if it is invalid.           *)
LEMMA InvalidAnswersStep ==
  ASSUME NEW S, NEW s \in Seq(S), NEW a
  PROVE  Cardinality({k \in DOMAIN Append(s, a) : Append(s, a)[k] = "invalid"})
           = Cardinality({k \in DOMAIN s : s[k] = "invalid"}) + (IF a = "invalid" THEN 1 ELSE 0)
<1> DEFINE inv(t) == {k \in DOMAIN t : t[k] = "invalid"}
<1>1. DOMAIN s = 1 .. Len(s) /\ Len(s) \in Nat
  OBVIOUS
<1>2. IsFiniteSet(inv(s)) /\ Cardinality(inv(s)) \in Nat
  <2>1. IsFiniteSet(1 .. Len(s))
    BY <1>1, FS_Interval
  <2> QED BY <2>1, <1>1, FS_Subset, FS_CardinalityType
<1>3. Len(s) + 1 \notin inv(s)
  BY <1>1
<1>4. CASE a = "invalid"
  <2>1. DOMAIN Append(s, a) = 1 .. Len(s) + 1
    BY <1>1
  <2>2. \A k \in 1 .. Len(s) + 1 : Append(s, a)[k] = IF k = Len(s) + 1 THEN a ELSE s[k]
    BY <1>1
  <2>3. inv(Append(s, a)) = inv(s) \cup {Len(s) + 1}
    BY <1>1, <1>4, <2>1, <2>2
  <2>4. Cardinality(inv(s) \cup {Len(s) + 1}) = Cardinality(inv(s)) + 1
    BY <1>2, <1>3, FS_AddElement
  <2> QED BY <2>3, <2>4, <1>4
<1>5. CASE a # "invalid"
  <2>1. inv(Append(s, a)) = inv(s)
    BY <1>1, <1>5
  <2>2. Cardinality(inv(Append(s, a))) = Cardinality(inv(s))
    BY <2>1, Zenon
  <2>3. Cardinality(inv(s)) + (IF a = "invalid" THEN 1 ELSE 0) = Cardinality(inv(s))
    BY <1>2, <1>5
  <2> QED BY <2>2, <2>3, Zenon
<1> QED BY <1>4, <1>5

(* Every counter is a number after a step of the counters.                  *)
LEMMA BumpTyped ==
  ASSUME counts \in [Counters -> Nat], NEW cs, Bump(cs)
  PROVE  /\ counts' \in [Counters -> Nat]
         /\ \A c \in Counters : counts'[c] = counts[c] + (IF c \in cs THEN 1 ELSE 0)
BY DEF Bump, Counters

(* The counters and what they are compared with are numbers.                *)
LEMMA CountsTyped ==
  ASSUME TypeOK
  PROVE  /\ requests \in Nat /\ raised \in Nat /\ runs \in Nat
         /\ counts["llm_success"] \in Nat /\ counts["llm_failure"] \in Nat
         /\ counts["agent_success"] \in Nat /\ counts["agent_failure"] \in Nat
<1>1. counts \in [Counters -> Nat] /\ requests \in Nat /\ raised \in Nat /\ runs \in Nat
  BY RunsAssumption DEF TypeOK
<1>2. QED
  BY <1>1 DEF Counters

LEMMA InitInv == Init => RunnerInv
<1> SUFFICES ASSUME Init PROVE RunnerInv
  OBVIOUS
<1> USE RetriesAssumption, RunsAssumption, NoneAssumption
<1>1. TypeOK
  BY DEF Init, TypeOK, Counters
<1>2. CountersReconcile
  BY DEF Init, CountersReconcile, Counters
<1> QED BY <1>1, <1>2 DEF Init, RunnerInv, RunInProgress, PromptIsCurrent, FailureReportsLastAttempt

(* A failed attempt, of whatever kind, keeps the invariant when it adds its *)
(* error to the prompt exactly if it is a schema error and a retry follows. *)
LEMMA FailsKeepsInv ==
  ASSUME RunnerInv,
         NEW a \in {"invalid", "no_tool_call", "sdk_error"},
         NEW e \in Errors, (e = "validation") <=> (a = "invalid"),
         NEW cs \in SUBSET Counters,
         ("llm_success" \in cs) <=> ("llm_failure" \notin cs),
         "agent_success" \notin cs, "agent_failure" \notin cs,
         Fails(a, e, cs),
         errorsIn' = IF a = "invalid" /\ RetriesLeft THEN errorsIn + 1 ELSE errorsIn
  PROVE  RunnerInv'
<1> USE RetriesAssumption, RunsAssumption DEF RunnerInv
<1>1. counts' \in [Counters -> Nat]
      /\ \A c \in Counters : counts'[c] = counts[c] + (IF c \in cs THEN 1 ELSE 0)
  BY BumpTyped DEF Fails, TypeOK
<1>2. TypeOK'
  BY <1>1 DEF Fails, TypeOK
<1>3. RunInProgress'
  BY NoneAssumption DEF Fails, TypeOK, RunInProgress
<1>4. PromptIsCurrent'
  <2>1. InvalidAnswers' = InvalidAnswers + (IF a = "invalid" THEN 1 ELSE 0)
    <3>1. answers \in Seq({"valid", "invalid", "no_tool_call", "sdk_error"})
          /\ answers' = Append(answers, a)
      BY DEF Fails, TypeOK
    <3>2. Cardinality({k \in DOMAIN Append(answers, a) : Append(answers, a)[k] = "invalid"})
            = Cardinality({k \in DOMAIN answers : answers[k] = "invalid"})
                + (IF a = "invalid" THEN 1 ELSE 0)
      BY <3>1, InvalidAnswersStep
    <3> QED BY <3>1, <3>2 DEF InvalidAnswers
  <2>2. errorsIn = InvalidAnswers
    BY DEF PromptIsCurrent, Fails
  <2>3. RetriesLeft' <=> RetriesLeft
    BY DEF RetriesLeft, Fails
  <2>4. errorsIn \in Nat
    BY DEF TypeOK
  <2> QED BY <2>1, <2>2, <2>3, <2>4 DEF PromptIsCurrent, Fails
<1>5. FailureReportsLastAttempt'
  BY DEF Fails, RunInProgress, FailureReportsLastAttempt
<1>6. CountersReconcile'
  <2>1. /\ counts'["llm_success"] + counts'["llm_failure"]
             = counts["llm_success"] + counts["llm_failure"] + 1
        /\ counts'["agent_success"] = counts["agent_success"]
        /\ counts'["agent_failure"] = counts["agent_failure"]
    <3>1. \A c \in Counters : counts'[c] = counts[c] + (IF c \in cs THEN 1 ELSE 0)
      BY <1>1
    <3> QED BY <3>1, CountsTyped DEF Counters
  <2>2. pc = "request" /\ pc' = "loop" /\ UNCHANGED <<runs, raised, requests>>
    BY DEF Fails
  <2> QED BY <2>1, <2>2, CountsTyped DEF CountersReconcile
<1> QED BY <1>2, <1>3, <1>4, <1>5, <1>6

LEMMA NextKeepsInv == RunnerInv /\ [Next]_vars => RunnerInv'
<1> SUFFICES ASSUME RunnerInv, [Next]_vars PROVE RunnerInv'
  OBVIOUS
<1> USE RetriesAssumption, RunsAssumption, NoneAssumption DEF RunnerInv
<1>1. CASE BeginRun
  <2>1. InvalidAnswers' = 0
    <3>1. {k \in DOMAIN answers' : answers'[k] = "invalid"} = {}
      BY <1>1 DEF BeginRun
    <3> QED BY <3>1, FS_EmptySet DEF InvalidAnswers
  <2>2. TypeOK'
    BY <1>1 DEF BeginRun, TypeOK
  <2>3. CountersReconcile'
    BY <1>1, CountsTyped DEF BeginRun, CountersReconcile
  <2> QED BY <1>1, <2>1, <2>2, <2>3
       DEF BeginRun, RunInProgress, PromptIsCurrent, FailureReportsLastAttempt, TypeOK
<1>2. CASE BuildInputRaises
  <2>1. TypeOK'
    BY <1>2 DEF BuildInputRaises, Ends, TypeOK, Outcome
  <2>2. CountersReconcile'
    BY <1>2, CountsTyped DEF BuildInputRaises, Ends, CountersReconcile
  <2> QED BY <1>2, <2>1, <2>2
       DEF BuildInputRaises, Ends, RunInProgress, PromptIsCurrent, FailureReportsLastAttempt
<1>3. CASE SendRequest
  <2>1. TypeOK'
    BY <1>3 DEF SendRequest, RetriesLeft, TypeOK
  <2>2. CountersReconcile'
    BY <1>3, CountsTyped DEF SendRequest, CountersReconcile
  <2>3. PromptIsCurrent'
    BY <1>3 DEF SendRequest, PromptIsCurrent, InvalidAnswers
  <2>4. RunInProgress'
    BY <1>3 DEF SendRequest, RunInProgress, TypeOK
  <2> QED BY <1>3, <2>1, <2>2, <2>3, <2>4 DEF SendRequest, FailureReportsLastAttempt
<1>4. CASE RecordRunFailure
  <2>1. attempt = MaxRetries + 1 /\ attempt > 0
    BY <1>4 DEF RecordRunFailure, RetriesLeft, TypeOK
  <2>2. lastError \in Errors
    BY <1>4, <2>1 DEF RecordRunFailure, RunInProgress, TypeOK
  <2>3. /\ counts' \in [Counters -> Nat]
        /\ \A c \in Counters : counts'[c] = counts[c] + (IF c \in {"agent_failure"} THEN 1 ELSE 0)
    BY <1>4, BumpTyped DEF RecordRunFailure, TypeOK
  <2>4. TypeOK'
    BY <1>4, <2>2, <2>3 DEF RecordRunFailure, Ends, TypeOK, Outcome
  <2>5. CountersReconcile'
    <3>1. /\ counts'["llm_success"] = counts["llm_success"]
          /\ counts'["llm_failure"] = counts["llm_failure"]
          /\ counts'["agent_success"] = counts["agent_success"]
          /\ counts'["agent_failure"] = counts["agent_failure"] + 1
      BY <2>3, CountsTyped DEF Counters
    <3>2. pc = "loop" /\ pc' = "idle" /\ UNCHANGED <<runs, raised, requests>>
      BY <1>4 DEF RecordRunFailure, Ends
    <3> QED BY <3>1, <3>2, CountsTyped DEF CountersReconcile
  <2>6. FailureReportsLastAttempt'
    BY <1>4, <2>1 DEF RecordRunFailure, Ends, FailureReportsLastAttempt, RunInProgress
  <2> QED BY <1>4, <2>4, <2>5, <2>6 DEF RecordRunFailure, Ends, RunInProgress, PromptIsCurrent
<1>5. CASE ValidAnswer
  <2>1. /\ counts' \in [Counters -> Nat]
        /\ \A c \in Counters : counts'[c] = counts[c]
             + (IF c \in {"llm_success", "agent_success"} THEN 1 ELSE 0)
    BY <1>5, BumpTyped DEF ValidAnswer, TypeOK
  <2>2. TypeOK'
    BY <1>5, <2>1 DEF ValidAnswer, Ends, TypeOK, Outcome
  <2>3. CountersReconcile'
    <3>1. /\ counts'["llm_success"] = counts["llm_success"] + 1
          /\ counts'["llm_failure"] = counts["llm_failure"]
          /\ counts'["agent_success"] = counts["agent_success"] + 1
          /\ counts'["agent_failure"] = counts["agent_failure"]
      BY <2>1 DEF TypeOK, Counters
    <3>2. pc = "request" /\ pc' = "idle" /\ UNCHANGED <<runs, raised, requests>>
      BY <1>5 DEF ValidAnswer, Ends
    <3>3. /\ counts["llm_success"] + counts["llm_failure"] + 1 = requests
          /\ counts["agent_success"] + counts["agent_failure"] + raised + 1 = runs
      BY <3>2 DEF CountersReconcile
    <3> QED BY <3>1, <3>2, <3>3, CountsTyped DEF CountersReconcile
  <2> QED BY <1>5, <2>2, <2>3
       DEF ValidAnswer, Ends, RunInProgress, PromptIsCurrent, FailureReportsLastAttempt
<1>6. CASE InvalidAnswer
  BY <1>6, FailsKeepsInv DEF InvalidAnswer, Errors, Counters
<1>7. CASE NoToolCall
  BY <1>7, FailsKeepsInv DEF NoToolCall, Errors, Counters
<1>8. CASE SdkError
  BY <1>8, FailsKeepsInv DEF SdkError, Errors, Counters
<1>9. CASE UNCHANGED vars
  BY <1>9 DEF vars, TypeOK, RunInProgress, PromptIsCurrent, RetriesLeft, InvalidAnswers,
              FailureReportsLastAttempt, CountersReconcile
<1> QED BY <1>1, <1>2, <1>3, <1>4, <1>5, <1>6, <1>7, <1>8, <1>9
     DEF Next, LoopStep, Answered

(* The inductive invariant holds in every reachable state.                  *)
THEOREM RunnerInvariant == Spec => []RunnerInv
BY InitInv, NextKeepsInv, PTL DEF Spec

-----------------------------------------------------------------------------
(* Type correctness: no attempt beyond MaxRetries + 1, and no outcome but a *)
(* model, a failure report or an exception of the prompt builder.           *)
THEOREM RunnerTyping == Spec => []TypeOK
BY RunnerInvariant, PTL DEF RunnerInv

(* The prompt in flight holds exactly the schema errors of this run's       *)
(* earlier attempts (run, line 87).                                         *)
THEOREM PromptSafe == Spec => []PromptCarriesEachError
<1>1. RunnerInv => PromptCarriesEachError
  BY DEF RunnerInv, PromptIsCurrent, PromptCarriesEachError
<1> QED BY <1>1, RunnerInvariant, PTL

(* A failure report tells the attempts made and the last error (line 94).   *)
THEOREM FailureReportSafe == Spec => []FailureReportsLastAttempt
BY RunnerInvariant, PTL DEF RunnerInv

(* Calls, failures and exceptions add up in the telemetry (lines 82, 114,   *)
(* 130 of _base.py; 129 and 149 of llm_provider.py).                        *)
THEOREM CountersSafe == Spec => []CountersReconcile
BY RunnerInvariant, PTL DEF RunnerInv

(* The runner implements the contract the orchestrator relies on: at most   *)
(* MaxRetries + 1 requests, and a failure only when all were used.          *)
THEOREM RunnerKeepsContract == Spec => KeepsContract
<1> USE RetriesAssumption, NoneAssumption
<1>1. Init => Promise!Init
  BY DEF Init, Promise!Init
<1>2. RunnerInv /\ [Next]_vars => [Promise!Next]_(Promise!contractVars)
  <2> SUFFICES ASSUME RunnerInv, [Next]_vars
               PROVE  Promise!Next \/ UNCHANGED Promise!contractVars
    OBVIOUS
  <2> USE DEF RunnerInv
  <2>1. CASE BeginRun
    BY <2>1 DEF BeginRun, Promise!Next, Promise!Begin
  <2>2. CASE BuildInputRaises
    <3>1. [kind |-> "raised"] # None
      BY DEF Outcome
    <3>2. Promise!End("raised")
      BY <2>2, <3>1 DEF BuildInputRaises, Ends, Promise!End
    <3> QED BY <3>2 DEF Promise!Next, Promise!Endings
  <2>3. CASE SendRequest
    BY <2>3 DEF SendRequest, RetriesLeft, Promise!Next, Promise!Ask
  <2>4. CASE RecordRunFailure
    <3>1. attempt = MaxRetries + 1 /\ lastError \in Errors
      BY <2>4 DEF RecordRunFailure, RetriesLeft, RunInProgress, TypeOK
    <3>2. outcome' # None /\ outcome'.kind = "failure"
      BY <2>4, <3>1 DEF RecordRunFailure, Ends, Outcome, TypeOK
    <3>3. Promise!End("failure")
      BY <2>4, <3>1, <3>2 DEF RecordRunFailure, Ends, Promise!End
    <3> QED BY <3>3 DEF Promise!Next, Promise!Endings
  <2>5. CASE ValidAnswer
    <3>1. [kind |-> "result"] # None
      BY DEF Outcome
    <3>2. attempt > 0
      BY <2>5 DEF ValidAnswer, RunInProgress, TypeOK
    <3>3. Promise!End("result")
      BY <2>5, <3>1, <3>2 DEF ValidAnswer, Ends, Promise!End
    <3> QED BY <3>3 DEF Promise!Next, Promise!Endings
  <2>6. CASE InvalidAnswer \/ NoToolCall \/ SdkError
    BY <2>6 DEF InvalidAnswer, NoToolCall, SdkError, Fails, Promise!contractVars
  <2>7. CASE UNCHANGED vars
    BY <2>7 DEF vars, Promise!contractVars
  <2> QED BY <2>1, <2>2, <2>3, <2>4, <2>5, <2>6, <2>7 DEF Next, LoopStep, Answered
<1> QED BY <1>1, <1>2, RunnerInvariant, PTL DEF Spec, KeepsContract, Promise!Contract
=============================================================================
