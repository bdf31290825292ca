----------------------------- MODULE ImportJobs -----------------------------
(***************************************************************************)
(* One uploaded workbook, its import job and the requests that start,      *)
(* cancel and delete them (app/services/import_jobs.py), with the engine   *)
(* that reads the rows (blueprints/import_export/engine.py).               *)
(*                                                                         *)
(* The engine runs inside the request that starts the job.  On most sheets *)
(* each row is a SAVEPOINT, and releasing an outermost SAVEPOINT commits,  *)
(* so a row that landed stays when a later one, or the whole engine,       *)
(* fails.  Four sheets are read without: their rows, and all rows after    *)
(* them, wait for the final commit.  Not every row that is read is kept:   *)
(* some are rejected, some are skipped, blank ones without a count.        *)
(***************************************************************************)
EXTENDS Naturals, FiniteSets

CONSTANTS
    Importers,   \* the requests that start the import
    LastRow,     \* the rows of the workbook are 1..LastRow
    Kind         \* of each row: "row", "plain" (read without a SAVEPOINT) or "blank" (names nothing)

ASSUME LastRowAssumption == LastRow \in Nat /\ Kind \in [1..LastRow -> {"row", "plain", "blank"}]

VARIABLES
    file,     \* the stored workbook exists
    upload,   \* import_upload.status
    job,      \* the import_job row; one per upload (unique upload_id)
    landed,   \* the rows that are committed
    skipped,  \* history: the rows an engine skipped
    worker,   \* where each request stands
    past      \* history: what happened that may explain the present

jobsVars == <<file, upload, job, landed, skipped, worker, past>>

SheetRows == 1..LastRow
NoJob == [st |-> "none", rejects |-> FALSE, skips |-> FALSE]
\* had: the job existed when read; row: the next row; seen: upload loaded; bad: an error was
\* reported; skips: a skip was counted; pend: rows that wait for a commit
IdleWorker == [pc |-> "idle", had |-> FALSE, row |-> 1, seen |-> "none", bad |-> FALSE,
               skips |-> FALSE, pend |-> {}]
BlankRows == {r \in SheetRows : Kind[r] = "blank"}
Events == {"overstart", "cancelLive", "deleted", "purged", "blind"}

JobsInit ==
    /\ file = FALSE /\ upload = "none" /\ job = NoJob /\ landed = {} /\ skipped = {}
    /\ worker = [i \in Importers |-> IdleWorker]
    /\ past = {}

\* The engine of these requests is running or about to run.
LiveImports == {i \in Importers : worker[i].pc \in {"started", "engine", "finished", "broken"}}

Goto(i, pc) == worker' = [worker EXCEPT ![i].pc = pc]
Answer(i) == worker' = [worker EXCEPT ![i] = IdleWorker]

------------------------------------------------------------------------------
\* import_upload_file: the file is written, then the row is committed.
UploadFile ==
    /\ upload = "none"
    /\ file' = TRUE /\ upload' = "uploaded"
    /\ UNCHANGED <<job, landed, skipped, worker, past>>

\* import_start_job up to its first write: reads only, in autocommit.  A deleted
\* or imported upload is not refused.
StartRead(i) ==
    /\ worker[i].pc = "idle"
    /\ upload \notin {"none", "importing"} /\ job.st # "processing"
    /\ worker' = [worker EXCEPT ![i] = [IdleWorker EXCEPT !.pc = "starting", !.had = job.st # "none"]]
    /\ UNCHANGED <<file, upload, job, landed, skipped, past>>

\* The write and its commit.  A job inserted meanwhile meets the unique upload_id
\* (500, nothing changes); an existing row is overwritten whatever it says now.
StartWrite(i) ==
    /\ worker[i].pc = "starting"
    /\ IF job.st # "none" /\ ~worker[i].had
       THEN Answer(i) /\ UNCHANGED <<upload, job, past>>
       ELSE /\ job' = [NoJob EXCEPT !.st = "processing"]
            /\ upload' = "importing"
            /\ Goto(i, "started")
            /\ past' = past \cup IF job.st = "processing" THEN {"overstart"} ELSE {}
    /\ UNCHANGED <<file, landed, skipped>>

\* rec.stored_filename reloads the upload; a missing file reads as no bytes, for
\* which the engine reports success without a commit.
EngineOpen(i) ==
    /\ worker[i].pc = "started"
    /\ worker' = [worker EXCEPT ![i].seen = upload, ![i].pc = IF file THEN "engine" ELSE "finished"]
    /\ past' = past \cup IF file THEN {} ELSE {"blind"}
    /\ UNCHANGED <<file, upload, job, landed, skipped>>

\* What may become of a row.  "flagged" lands although an error is reported for it.
\* Without a SAVEPOINT an error ends the engine, and no row is rejected.
Fates(kind) ==
    CASE kind = "row" -> {"lands", "flagged", "rejected", "skipped"}
      [] kind = "plain" -> {"lands", "skipped"}
      [] kind = "blank" -> {"blank"}

\* A row of a sheet that is read without SAVEPOINTs waits for the final commit, and so
\* does every row behind it, whose SAVEPOINT is not the outermost transaction then.
EngineRow(i) ==
    /\ worker[i].pc = "engine" /\ worker[i].row \in SheetRows
    /\ LET row == worker[i].row
           waits == Kind[row] = "plain" \/ worker[i].pend # {}
       IN \E fate \in Fates(Kind[row]) :
          LET kept == IF fate \in {"lands", "flagged"} THEN {row} ELSE {}
          IN /\ landed' = landed \cup IF waits THEN {} ELSE kept
             /\ skipped' = skipped \cup IF fate = "skipped" THEN {row} ELSE {}
             /\ worker' = [worker EXCEPT ![i].row = @ + 1,
                                        ![i].bad = @ \/ fate \in {"rejected", "flagged"},
                                        ![i].skips = @ \/ fate = "skipped",
                                        ![i].pend = @ \cup IF waits THEN kept ELSE {}]
    /\ UNCHANGED <<file, upload, job, past>>

\* The final commit of _run_master_import_bytes: every loaded attribute expires.
EngineCommit(i) ==
    /\ worker[i].pc = "engine" /\ worker[i].row = LastRow + 1
    /\ landed' = landed \cup worker[i].pend
    /\ worker' = [worker EXCEPT ![i].pc = "finished", ![i].seen = "expired", ![i].pend = {}]
    /\ UNCHANGED <<file, upload, job, skipped, past>>

\* The backup, the workbook or a sheet is refused: the rows before it stay, or wait.
EngineFail(i) ==
    /\ worker[i].pc = "engine"
    /\ Goto(i, "broken")
    /\ UNCHANGED <<file, upload, job, landed, skipped, past>>

\* An attribute that was loaded and keeps its value is not part of the UPDATE.
UploadAfter(i, st) == IF worker[i].seen = st THEN upload ELSE st

\* The result is written over whatever was committed meanwhile.
Finish(i) ==
    /\ worker[i].pc = "finished"
    /\ job' = [st |-> "completed", rejects |-> worker[i].bad, skips |-> worker[i].skips]
    /\ upload' = UploadAfter(i, "imported")
    /\ worker' = [worker EXCEPT ![i] = [IdleWorker EXCEPT !.pc = "written"]]
    /\ UNCHANGED <<file, landed, skipped, past>>

\* Faulty variant: the failure is recorded in the job only.
FinishFailedJobOnly(i) ==
    /\ worker[i].pc = "broken"
    /\ landed' = landed \cup worker[i].pend
    /\ job' = [job EXCEPT !.st = "failed"]
    /\ worker' = [worker EXCEPT ![i] = [IdleWorker EXCEPT !.pc = "written"]]
    /\ UNCHANGED <<file, upload, skipped, past>>

\* Nothing was rolled back: the commit that records the failure commits the rows that wait.
FinishFailed(i) ==
    /\ worker[i].pc = "broken"
    /\ landed' = landed \cup worker[i].pend
    /\ job' = [job EXCEPT !.st = "failed"]
    /\ upload' = UploadAfter(i, "failed")
    /\ worker' = [worker EXCEPT ![i] = [IdleWorker EXCEPT !.pc = "written"]]
    /\ UNCHANGED <<file, skipped, past>>

\* The upload is reloaded before the integrity check, the job after it.
CleanRead(i) ==
    /\ worker[i].pc = "written"
    /\ worker' = [worker EXCEPT ![i] = [IdleWorker EXCEPT !.pc = "checked", !.seen = upload]]
    /\ UNCHANGED <<file, upload, job, landed, skipped, past>>

\* The workbook goes only after an import without errors; what was skipped is not asked.
Clean(i) ==
    /\ worker[i].pc = "checked"
    /\ \E healthy \in BOOLEAN :
        file' = (file /\ ~(healthy /\ worker[i].seen = "imported"
                             /\ job.st = "completed" /\ ~job.rejects))
    /\ Answer(i)
    /\ UNCHANGED <<upload, job, landed, skipped, past>>

------------------------------------------------------------------------------
\* purge_expired_failed_artifacts, at the end of any import: the file is older than
\* the retention window, whatever its upload's status.
Purge ==
    /\ file /\ file' = FALSE
    /\ past' = past \cup {"purged"}
    /\ UNCHANGED <<upload, job, landed, skipped, worker>>

\* import_delete_upload: the file is unlinked before the status is committed.
DeleteUpload ==
    /\ upload \notin {"none", "importing", "deleted"}
    /\ file' = FALSE
    /\ upload' \in {"deleted", upload}    \* the commit may fail after the unlink
    /\ past' = past \cup {"deleted"}
    /\ UNCHANGED <<job, landed, skipped, worker>>

\* import_cancel_job: the rows are marked; a running engine is not stopped.
Cancel ==
    /\ job.st = "processing"
    /\ job' = [job EXCEPT !.st = "cancelled"]
    /\ upload' = "failed"
    /\ past' = past \cup IF LiveImports # {} THEN {"cancelLive"} ELSE {}
    /\ UNCHANGED <<file, landed, skipped, worker>>

\* The process dies, or its session does and the answer is a 500: nothing is written.
ImporterDies(i) ==
    /\ worker[i].pc # "idle"
    /\ Answer(i)
    /\ UNCHANGED <<file, upload, job, landed, skipped, past>>

ImportStep(i) ==
    StartWrite(i) \/ EngineOpen(i) \/ EngineRow(i) \/ EngineCommit(i) \/ EngineFail(i)
    \/ Finish(i) \/ FinishFailed(i) \/ CleanRead(i) \/ Clean(i)

JobsNext ==
    \/ UploadFile \/ Purge \/ DeleteUpload \/ Cancel
    \/ \E i \in Importers : StartRead(i) \/ ImportStep(i) \/ ImporterDies(i)

JobsSpec == JobsInit /\ [][JobsNext]_jobsVars

------------------------------------------------------------------------------
\* Two engines read one workbook at once only when a retry overwrote a job that
\* was running again, or a running job was cancelled and started anew: a first
\* start never doubles (import_jobs.py:171-195).  What the upload and its job say is
\* true and is not the end.  A completed job that reports no error has committed every row
\* that is not blank and was not skipped, and one that reports no skip either every row
\* that is not blank, unless it was started when the file was gone (import_jobs.py:198-203, 327-331);
\* the workbook is removed only after every row has landed, was skipped or is blank, unless
\* a user deleted it or its retention ran out (import_jobs.py:213-236); and once no request
\* is at work the upload can be started, deleted or its job cancelled, even after a crash
\* in the engine, unless starts or a cancellation crossed (import_jobs.py:156-325).
ImportsSettle ==
    LET crossed == past \cap {"overstart", "cancelLive"} # {} IN
    /\ Cardinality(LiveImports) >= 2 => crossed
    /\ job.st = "completed" /\ ~job.rejects /\ "blind" \notin past =>
          /\ landed \cup skipped \cup BlankRows = SheetRows
          /\ ~job.skips => landed \cup BlankRows = SheetRows
    /\ ~file /\ upload # "none" /\ past \cap {"deleted", "purged"} = {} =>
          landed \cup skipped \cup BlankRows = SheetRows
    /\ (\A i \in Importers : worker[i].pc = "idle") /\ upload = "importing" =>
          job.st = "processing" \/ crossed
=============================================================================
