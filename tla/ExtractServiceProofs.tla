------------------------ MODULE ExtractServiceProofs ------------------------
(***************************************************************************)
(* Theorems about ExtractService for any uploads, names and crashes: its   *)
(* types, that extractions are serial, that uploads in flight have files   *)
(* of their own, whose workbook an upload is answered from, and which      *)
(* temporary files stay behind.                                            *)
(***************************************************************************)
EXTENDS ExtractService, TLAPS

\* An upload in flight has its file; what a file holds came from its own upload.
FilesOfUploads ==
  /\ \A r \in Requests :
       /\ stage[r] = "new" => path[r] = None /\ loaded[r] = None
       /\ loaded[r] # None => path[r] \in Paths
       /\ InFlight(r) => path[r] \in Paths /\ disk[path[r]] # None
       /\ stage[r] = "reading" => loaded[r] = None /\ disk[path[r]] = "blank"
  /\ \A p \in Paths : disk[p] \in Requests => path[disk[p]] = p

\* The cache holds, under each path, a workbook this process loaded from it.
CacheIsOfThisProcess ==
  \A p \in Paths :
    cache[p] # None => path[cache[p]] = p /\ epoch[cache[p]] = crashes /\ loaded[cache[p]] # None

ServiceInv ==
  /\ TypeOK
  /\ ExtractionsAreSerial
  /\ TempFilesAreOwn
  /\ FilesOfUploads
  /\ CacheIsOfThisProcess
  /\ StaleOnlyOnNameReuse
  /\ NoFileLeftBehind

USE NamesAssumption, CrashesAssumption

LEMMA InitInv == Init => ServiceInv
BY DEF Init, ServiceInv, TypeOK, ExtractionsAreSerial, TempFilesAreOwn, FilesOfUploads, InFlight,
       CacheIsOfThisProcess, StaleOnlyOnNameReuse, NoFileLeftBehind

LEMMA TypeStep == ServiceInv /\ [Next]_vars => TypeOK'
<1> SUFFICES ASSUME ServiceInv, [Next]_vars PROVE TypeOK'
  OBVIOUS
<1> USE DEF ServiceInv, TypeOK
<1>1. CASE \E r \in Requests : Refuse(r) \/ UploadFails(r)
  BY <1>1 DEF Refuse, UploadFails, Answers
<1>2. CASE \E r \in Requests : CreateTempFile(r)
  BY <1>2 DEF CreateTempFile, FreeNames
<1>3. CASE \E r \in Requests : StartExtraction(r)
  <2> PICK r \in Requests : StartExtraction(r)
    BY <1>3
  <2>1. Registered(path[r], r) \in Requests
    BY DEF Registered, StartExtraction, FilesOfUploads, InFlight
  <2> QED BY <2>1 DEF StartExtraction
<1>4. CASE \E r \in Requests : LoadFails(r)
  BY <1>4 DEF LoadFails, Answers
<1>5. CASE \E r \in Requests : FinishExtraction(r)
  BY <1>5 DEF FinishExtraction, Answers, Unlinked
<1>6. CASE Crash
  BY <1>6 DEF Crash
<1>7. CASE UNCHANGED vars
  BY <1>7 DEF vars
<1> QED BY <1>1, <1>2, <1>3, <1>4, <1>5, <1>6, <1>7 DEF Next, Serve

(* A request is refused, or its upload breaks off.                          *)
LEMMA AnsweredEarlyKeepsInv ==
  ASSUME ServiceInv, TypeOK', NEW r \in Requests, Refuse(r) \/ UploadFails(r)
  PROVE  ServiceInv'
<1> USE DEF ServiceInv, TypeOK, Refuse, UploadFails, Answers, InFlight
<1>1. ExtractionsAreSerial' /\ TempFilesAreOwn'
  BY DEF ExtractionsAreSerial, TempFilesAreOwn
<1>2. FilesOfUploads'
  BY DEF FilesOfUploads
<1>3. CacheIsOfThisProcess' /\ StaleOnlyOnNameReuse'
  BY DEF CacheIsOfThisProcess, StaleOnlyOnNameReuse
<1>4. NoFileLeftBehind'
  BY DEF NoFileLeftBehind, FilesOfUploads
<1> QED BY <1>1, <1>2, <1>3, <1>4

(* The new file's name is free, so it is nobody else's.                     *)
LEMMA CreateKeepsInv ==
  ASSUME ServiceInv, TypeOK', NEW r \in Requests, CreateTempFile(r)
  PROVE  ServiceInv'
<1> USE DEF ServiceInv, TypeOK, InFlight
<1>1. PICK p \in Paths : /\ disk[p] = None
                         /\ path' = [path EXCEPT ![r] = p]
                         /\ disk' = [disk EXCEPT ![p] = "blank"]
  BY DEF CreateTempFile, FreeNames
<1>2. /\ stage[r] = "new" /\ stage' = [stage EXCEPT ![r] = "reading"]
      /\ UNCHANGED <<cache, loaded, answer, holder, crashes, epoch>>
  BY DEF CreateTempFile
<1>3. ExtractionsAreSerial'
  BY <1>2 DEF ExtractionsAreSerial
<1>4. TempFilesAreOwn'
  BY <1>1, <1>2 DEF TempFilesAreOwn, FilesOfUploads
<1>5. FilesOfUploads'
  BY <1>1, <1>2 DEF FilesOfUploads
<1>6. CacheIsOfThisProcess'
  BY <1>1, <1>2 DEF CacheIsOfThisProcess, FilesOfUploads
<1>7. StaleOnlyOnNameReuse'
  BY <1>1, <1>2 DEF StaleOnlyOnNameReuse, FilesOfUploads
<1>8. NoFileLeftBehind'
  BY <1>1, <1>2 DEF NoFileLeftBehind, FilesOfUploads
<1> QED BY <1>3, <1>4, <1>5, <1>6, <1>7, <1>8

(* Registering takes the file's workbook or one that this process loaded    *)
(* under the same name.                                                     *)
LEMMA StartKeepsInv ==
  ASSUME ServiceInv, TypeOK', NEW r \in Requests, StartExtraction(r)
  PROVE  ServiceInv'
<1> USE DEF ServiceInv, TypeOK, InFlight
<1> DEFINE p == path[r]
           wb == Registered(p, r)
<1>1. p \in Paths /\ disk[p] = "blank" /\ loaded[r] = None /\ stage[r] = "reading"
  BY DEF StartExtraction, FilesOfUploads
<1>2. /\ loaded' = [loaded EXCEPT ![r] = wb]
      /\ cache' = [cache EXCEPT ![p] = wb]
      /\ disk' = [disk EXCEPT ![p] = r]
      /\ epoch' = [epoch EXCEPT ![r] = crashes]
      /\ stage' = [stage EXCEPT ![r] = "extracting"]
      /\ holder = None /\ holder' = r
      /\ UNCHANGED <<path, answer, crashes>>
  BY DEF StartExtraction, LoopIsFree
<1>3. \/ wb = r
      \/ /\ wb \in Requests \ {r} /\ path[wb] = p /\ epoch[wb] = crashes
         /\ loaded[wb] # None
  BY <1>1 DEF Registered, CacheIsOfThisProcess
<1> HIDE DEF wb
<1>4. ExtractionsAreSerial'
  BY <1>1, <1>2 DEF ExtractionsAreSerial
<1>5. TempFilesAreOwn'
  BY <1>1, <1>2 DEF TempFilesAreOwn
<1>6. FilesOfUploads'
  BY <1>1, <1>2, <1>3 DEF FilesOfUploads, TempFilesAreOwn
<1>7. CacheIsOfThisProcess'
  BY <1>1, <1>2, <1>3 DEF CacheIsOfThisProcess
<1>8. StaleOnlyOnNameReuse'
  <2> SUFFICES ASSUME NEW q \in Requests, loaded'[q] \notin {q, None}
               PROVE  \E w \in Requests \ {q} :
                         loaded'[w] # None /\ path'[w] = path'[q] /\ epoch'[w] = epoch'[q]
    BY DEF StaleOnlyOnNameReuse
  <2>1. CASE q = r
    BY <1>1, <1>2, <1>3, <2>1
  <2>2. CASE q # r
    <3>1. PICK w \in Requests \ {q} :
            loaded[w] # None /\ path[w] = path[q] /\ epoch[w] = epoch[q]
      BY <1>2, <2>2 DEF StaleOnlyOnNameReuse
    <3> QED BY <1>1, <1>2, <2>2, <3>1
  <2> QED BY <2>1, <2>2
<1>9. NoFileLeftBehind'
  BY <1>1, <1>2 DEF NoFileLeftBehind, FilesOfUploads, TempFilesAreOwn
<1> QED BY <1>4, <1>5, <1>6, <1>7, <1>8, <1>9

(* A corrupt workbook: the file goes, and nothing was registered.           *)
LEMMA LoadFailsKeepsInv ==
  ASSUME ServiceInv, TypeOK', NEW r \in Requests, LoadFails(r)
  PROVE  ServiceInv'
<1> USE DEF ServiceInv, TypeOK, LoadFails, Answers, InFlight
<1>1. ExtractionsAreSerial' /\ TempFilesAreOwn'
  BY DEF ExtractionsAreSerial, TempFilesAreOwn
<1>2. FilesOfUploads'
  BY DEF FilesOfUploads, TempFilesAreOwn
<1>3. CacheIsOfThisProcess' /\ StaleOnlyOnNameReuse'
  BY DEF CacheIsOfThisProcess, StaleOnlyOnNameReuse
<1>4. NoFileLeftBehind'
  BY DEF NoFileLeftBehind, FilesOfUploads, TempFilesAreOwn
<1> QED BY <1>1, <1>2, <1>3, <1>4

LEMMA FinishKeepsInv ==
  ASSUME ServiceInv, TypeOK', NEW r \in Requests, FinishExtraction(r)
  PROVE  ServiceInv'
<1> USE DEF ServiceInv, TypeOK, FinishExtraction, Answers, Unlinked, InFlight
<1>1. ExtractionsAreSerial' /\ TempFilesAreOwn'
  BY DEF ExtractionsAreSerial, TempFilesAreOwn
<1>2. FilesOfUploads'
  BY DEF FilesOfUploads, TempFilesAreOwn
<1>3. CacheIsOfThisProcess' /\ StaleOnlyOnNameReuse'
  BY DEF CacheIsOfThisProcess, StaleOnlyOnNameReuse
<1>4. NoFileLeftBehind'
  BY DEF NoFileLeftBehind, FilesOfUploads, TempFilesAreOwn
<1> QED BY <1>1, <1>2, <1>3, <1>4

LEMMA CrashKeepsInv ==
  ASSUME ServiceInv, TypeOK', Crash
  PROVE  ServiceInv'
<1> USE DEF ServiceInv, TypeOK, Crash, InFlight
<1>1. ExtractionsAreSerial' /\ TempFilesAreOwn'
  BY DEF ExtractionsAreSerial, TempFilesAreOwn
<1>2. FilesOfUploads'
  BY DEF FilesOfUploads
<1>3. CacheIsOfThisProcess' /\ StaleOnlyOnNameReuse'
  BY DEF CacheIsOfThisProcess, StaleOnlyOnNameReuse
<1>4. NoFileLeftBehind'
  BY DEF NoFileLeftBehind
<1> QED BY <1>1, <1>2, <1>3, <1>4

LEMMA NextKeepsInv == ServiceInv /\ [Next]_vars => ServiceInv'
<1> SUFFICES ASSUME ServiceInv, [Next]_vars PROVE ServiceInv'
  OBVIOUS
<1>1. TypeOK'
  BY TypeStep
<1>2. CASE Next
  BY <1>1, <1>2, AnsweredEarlyKeepsInv, CreateKeepsInv, StartKeepsInv, LoadFailsKeepsInv,
     FinishKeepsInv, CrashKeepsInv DEF Next, Serve
<1>3. CASE UNCHANGED vars
  BY <1>3 DEF vars, ServiceInv, TypeOK, ExtractionsAreSerial, TempFilesAreOwn, FilesOfUploads,
              InFlight, CacheIsOfThisProcess, StaleOnlyOnNameReuse, NoFileLeftBehind
<1> QED BY <1>2, <1>3

(* The inductive invariant holds in every reachable state.                  *)
THEOREM ServiceInvariant == Spec => []ServiceInv
BY InitInv, NextKeepsInv, PTL DEF Spec

-----------------------------------------------------------------------------
(* Type correctness of the service.                                         *)
THEOREM ServiceTyping == Spec => []TypeOK
BY ServiceInvariant, PTL DEF ServiceInv

(* Whatever arrives while an upload is read, one extraction runs at a time, *)
(* so the cache needs no lock (workbook_repo.py lines 18-26).               *)
THEOREM SerialExtractions == Spec => []ExtractionsAreSerial
BY ServiceInvariant, PTL DEF ServiceInv

(* Two uploads in flight never share a temporary file (extract.py line 24). *)
THEOREM OwnTempFiles == Spec => []TempFilesAreOwn
BY ServiceInvariant, PTL DEF ServiceInv

(* The path-keyed cache answers an upload from another one's workbook only  *)
(* when a temporary name returns within the life of a process.              *)
THEOREM StaleNeedsNameReuse == Spec => []StaleOnlyOnNameReuse
BY ServiceInvariant, PTL DEF ServiceInv

(* The finally of extract.py lines 29-35 leaves no file, whatever extract() *)
(* does; only failed uploads and crashes do.                                *)
THEOREM FilesAreRemoved == Spec => []NoFileLeftBehind
BY ServiceInvariant, PTL DEF ServiceInv
=============================================================================
