--------------------------- MODULE ExtractService ---------------------------
(***************************************************************************)
(* POST /extract (app/routers/extract.py) over the process-wide workbook   *)
(* cache (app/repositories/workbook_repo.py): several uploads served by    *)
(* one event loop.  The endpoint is a coroutine whose one await is the     *)
(* read of the upload; extract() is a plain call, so whoever runs it holds *)
(* the loop.  Extraction itself is the module of that name; here it ends   *)
(* in a result or in an exception.                                         *)
(*                                                                         *)
(* The workbook of an upload is named by its request.  Temporary names are *)
(* random: the model lets a name come back once its file is gone.          *)
(***************************************************************************)
EXTENDS Naturals, FiniteSets

CONSTANTS
  Requests,    \* the uploads
  Paths,       \* names NamedTemporaryFile may pick
  MaxCrashes,  \* bound on the process's crashes
  None

ASSUME NamesAssumption ==
  None \notin Requests \cup Paths \cup {"blank"} /\ "blank" \notin Requests
ASSUME CrashesAssumption == MaxCrashes \in Nat

VARIABLES
  stage,    \* of each request: "new", "reading", "extracting", "answered" or "lost"
  path,     \* tmp_path of each request
  disk,     \* the upload written to each temporary file; "blank" before that
  cache,    \* _CACHE: the workbook registered under each path
  loaded,   \* ctx: the workbook a request extracts from
  answer,   \* the response: "ok", "400" or "500"
  holder,   \* who holds the event loop across its calls, or None
  crashes,  \* crashes so far
  epoch     \* the process (by number of crashes) that loaded each request (history)

vars == <<stage, path, disk, cache, loaded, answer, holder, crashes, epoch>>

Init ==
  /\ stage = [r \in Requests |-> "new"]
  /\ path = [r \in Requests |-> None]
  /\ disk = [p \in Paths |-> None]
  /\ cache = [p \in Paths |-> None]
  /\ loaded = [r \in Requests |-> None]
  /\ answer = [r \in Requests |-> None]
  /\ holder = None /\ crashes = 0
  /\ epoch = [r \in Requests |-> None]

-----------------------------------------------------------------------------
Answers(r, a) == stage' = [stage EXCEPT ![r] = "answered"] /\ answer' = [answer EXCEPT ![r] = a]

\* Not an .xlsx: refused before a file is made.
Refuse(r) ==
  /\ stage[r] = "new" /\ holder = None
  /\ Answers(r, "400")
  /\ UNCHANGED <<path, disk, cache, loaded, holder, crashes, epoch>>

\* Mutant of FreeNames: the file is opened whether it exists or not.
AnyName == Paths

FreeNames == {p \in Paths : disk[p] = None}

\* NamedTemporaryFile(delete=False), then await file.read().
CreateTempFile(r) ==
  /\ stage[r] = "new" /\ holder = None
  /\ \E p \in FreeNames :
       /\ path' = [path EXCEPT ![r] = p]
       /\ disk' = [disk EXCEPT ![p] = "blank"]
  /\ stage' = [stage EXCEPT ![r] = "reading"]
  /\ UNCHANGED <<cache, loaded, answer, holder, crashes, epoch>>

\* The read or the write fails, before the try that removes the file.
UploadFails(r) ==
  /\ stage[r] = "reading" /\ holder = None
  /\ Answers(r, "500")
  /\ UNCHANGED <<path, disk, cache, loaded, holder, crashes, epoch>>

\* Mutant of Registered: any cached workbook is as good.
AnyRegistered(p, r) ==
  IF \E q \in Paths : cache[q] # None
  THEN cache[CHOOSE q \in Paths : cache[q] # None]
  ELSE r

\* register_workbook, lines 18-26: the cached workbook of that path, or the file's.
Registered(p, r) == IF cache[p] # None THEN cache[p] ELSE r

\* Mutant of LoopIsFree: the call is handed to a worker thread.
WorkerIsFree == TRUE

LoopIsFree == holder = None

\* The read is over: write the body, and extract() begins by registering the
\* path.  From here to the response nothing else runs.
StartExtraction(r) ==
  /\ stage[r] = "reading" /\ LoopIsFree
  /\ LET wb == Registered(path[r], r)
     IN /\ loaded' = [loaded EXCEPT ![r] = wb]
        /\ cache' = [cache EXCEPT ![path[r]] = wb]
  /\ disk' = [disk EXCEPT ![path[r]] = r]
  /\ epoch' = [epoch EXCEPT ![r] = crashes]
  /\ stage' = [stage EXCEPT ![r] = "extracting"]
  /\ holder' = r
  /\ UNCHANGED <<path, answer, crashes>>

\* load_workbook rejects the file: nothing is cached, the file is removed.
LoadFails(r) ==
  /\ stage[r] = "reading" /\ LoopIsFree /\ cache[path[r]] = None
  /\ Answers(r, "500")
  /\ disk' = [disk EXCEPT ![path[r]] = None]
  /\ UNCHANGED <<path, cache, loaded, holder, crashes, epoch>>

\* Mutant of Unlinked: the file is removed only after a success.
UnlinkedOnSuccess(r, a) == IF a = "ok" THEN [disk EXCEPT ![path[r]] = None] ELSE disk

\* finally: tmp_path.unlink(missing_ok=True)
Unlinked(r, a) == [disk EXCEPT ![path[r]] = None]

\* Mutant of FinishExtraction: the loop is given back only after a success.
FinishHoldingOnFailure(r) ==
  /\ stage[r] = "extracting" /\ holder = r
  /\ \E a \in {"ok", "500"} :
       Answers(r, a) /\ disk' = Unlinked(r, a) /\ holder' = IF a = "ok" THEN None ELSE r
  /\ UNCHANGED <<path, cache, loaded, crashes, epoch>>

\* extract() returns or raises.
FinishExtraction(r) ==
  /\ stage[r] = "extracting" /\ holder = r
  /\ \E a \in {"ok", "500"} : Answers(r, a) /\ disk' = Unlinked(r, a)
  /\ holder' = None
  /\ UNCHANGED <<path, cache, loaded, crashes, epoch>>

\* The process dies and is started again: open connections and the cache are
\* gone, the temporary files stay.
Crash ==
  /\ crashes < MaxCrashes
  /\ crashes' = crashes + 1
  /\ stage' = [r \in Requests |-> IF stage[r] \in {"reading", "extracting"} THEN "lost" ELSE stage[r]]
  /\ cache' = [p \in Paths |-> None]
  /\ holder' = None
  /\ UNCHANGED <<path, disk, loaded, answer, epoch>>

Serve(r) == StartExtraction(r) \/ LoadFails(r) \/ UploadFails(r)
Next == \/ \E r \in Requests : Refuse(r) \/ CreateTempFile(r) \/ Serve(r) \/ FinishExtraction(r)
        \/ Crash

\* extract() ends (EveryExtractionEnds), a read of the spooled upload ends or
\* fails, and the loop wakes waiting coroutines in turn.
Spec ==
  /\ Init /\ [][Next]_vars
  /\ \A r \in Requests : WF_vars(Serve(r)) /\ WF_vars(FinishExtraction(r))

-----------------------------------------------------------------------------
TypeOK ==
  /\ stage \in [Requests -> {"new", "reading", "extracting", "answered", "lost"}]
  /\ path \in [Requests -> Paths \cup {None}]
  /\ disk \in [Paths -> Requests \cup {"blank", None}]
  /\ cache \in [Paths -> Requests \cup {None}]
  /\ loaded \in [Requests -> Requests \cup {None}]
  /\ answer \in [Requests -> {"ok", "400", "500", None}]
  /\ holder \in Requests \cup {None}
  /\ crashes \in 0 .. MaxCrashes
  /\ epoch \in [Requests -> 0 .. MaxCrashes \cup {None}]

\* Only one extraction runs, and only while it holds the loop: what makes the
\* unlocked look-up-then-load of register_workbook safe.
ExtractionsAreSerial ==
  \A r \in Requests : stage[r] = "extracting" <=> holder = r

\* The files of two requests in flight are never the same.
InFlight(r) == stage[r] \in {"reading", "extracting"}
TempFilesAreOwn ==
  \A r, q \in Requests : InFlight(r) /\ InFlight(q) /\ path[r] = path[q] => r = q

\* A request is served from another upload's workbook only if its temporary
\* name had been registered before in the same process.
StaleOnlyOnNameReuse ==
  \A r \in Requests :
    loaded[r] \notin {r, None} =>
      \E q \in Requests \ {r} : loaded[q] # None /\ path[q] = path[r] /\ epoch[q] = epoch[r]

\* A temporary file is left behind only by an upload that failed before the
\* try of lines 29-35, or by a crash.
NoFileLeftBehind ==
  \A p \in Paths :
    /\ disk[p] \in Requests => stage[disk[p]] \in {"extracting", "lost"}
    /\ disk[p] = "blank" =>
         \E r \in Requests : /\ path[r] = p
                            /\ (stage[r] \in {"reading", "lost"} \/ answer[r] = "500")

\* Every accepted upload is answered, unless the process crashes under it.
EveryUploadAnswered ==
  \A r \in Requests : stage[r] = "reading" ~> stage[r] \in {"answered", "lost"}
=============================================================================
