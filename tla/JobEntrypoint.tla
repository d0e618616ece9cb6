---------------------------- MODULE JobEntrypoint ----------------------------
(***************************************************************************)
(* job-entrypoint.py, process 1 of a run's pod: it fetches its input (and, *)
(* for a retry, the parent's state), installs its signal handlers, runs    *)
(* the PDE as a child process, and when the child is gone archives and     *)
(* uploads what it left.  Before the handlers are installed SIGINT is      *)
(* Python's KeyboardInterrupt and SIGTERM, to a process 1 without a        *)
(* handler, is nothing.  The uploads run in the operator, in RunStorage.   *)
(***************************************************************************)
EXTENDS RunStorage

VARIABLES at,        \* where the entrypoint of each run's pod is
          parentOf,  \* the parent in the Job's token and environment, or None
          child,     \* the PDE process
          cancelled, \* _cancelled
          files,     \* the artifact files that are there to be uploaded
          doomed,    \* the Job is deleted: SIGTERM was sent, SIGKILL follows
          outcome,   \* how the pod ended
          killed     \* history: the pod ended by SIGKILL

podVars == <<at, parentOf, child, cancelled, files, doomed, outcome, killed>>

Places == {"none", "input", "state", "arm", "spawn", "wait", "finish",
           "upload", "response", "exit", "ended"}
Children == {"none", "alive", "interrupted",       \* before it ends
             "ok", "failed", "sigint",             \* its exit status
             "gone"}                               \* the pod has ended

ChildEnded(r) == child[r] \in {"ok", "failed", "sigint"}
ChildAlive(r) == child[r] \in {"alive", "interrupted"}
Running(r)    == at[r] \notin {"none", "ended"}
Armed(r)      == at[r] \in {"spawn", "wait", "finish", "upload", "response", "exit"}
IsRetry(r)    == parentOf[r] # None

Step(r, from, to) == at[r] = from /\ at' = [at EXCEPT ![r] = to]

\* The container ends, and its processes and its volume with it.
Ends(r, how) ==
    /\ at' = [at EXCEPT ![r] = "ended"]
    /\ outcome' = [outcome EXCEPT ![r] = how]
    /\ child' = [child EXCEPT ![r] = IF @ = "none" THEN "none" ELSE "gone"]
    /\ files' = [files EXCEPT ![r] = {}]
    /\ cancelled' = [cancelled EXCEPT ![r] = FALSE]
    /\ doomed' = [doomed EXCEPT ![r] = FALSE]
    /\ UNCHANGED parentOf

Dies(r) == Ends(r, "failed")

-----------------------------------------------------------------------------
(* The token of a Job, and what the operator answers its pod.              *)

\* Mutant of RunTokenAllows: the parent's state is not among the allowed.
RunTokenAllowsOwn(owner, parent, what, target) ==
    /\ target = owner
    /\ what \in {"input", "artifacts", "deliveries"}

\* mint_run_token writes the run and its parent into the token, and
\* run_token_allows compares them with the path.
RunTokenAllows(owner, parent, what, target) ==
    \/ target = owner /\ what \in {"input", "artifacts", "deliveries"}
    \/ parent # None /\ target = parent /\ what = "state"

\* GET /runs/{id}/input and GET /runs/{id}/artifacts/state: 404 unless both
\* the row and the object are there.
Served(r, object) == Exists(r) /\ object \in objects[r]

-----------------------------------------------------------------------------
(* main                                                                    *)

\* What the pod asks for first: its input, and a retry its parent's state.
Granted(r) ==
    IF at[r] = "input"
    THEN RunTokenAllows(r, parentOf[r], "input", r) /\ Served(r, "input")
    ELSE /\ RunTokenAllows(r, parentOf[r], "state", parentOf[r])
         /\ Served(parentOf[r], "state")

FetchRunInput(r) ==
    /\ Step(r, "input", IF IsRetry(r) THEN "state" ELSE "arm")
    /\ Granted(r)
    /\ UNCHANGED <<parentOf, child, cancelled, files, doomed, outcome, killed, storageVars>>

FetchParentState(r) ==
    /\ Step(r, "state", "arm")
    /\ Granted(r)
    /\ UNCHANGED <<parentOf, child, cancelled, files, doomed, outcome, killed, storageVars>>

\* An answer other than 200 raises out of main; so do a broken connection
\* and an archive that cannot be unpacked.
FetchFails(r) ==
    /\ at[r] \in {"input", "state"}
    /\ ~Granted(r)
    /\ Dies(r)
    /\ UNCHANGED <<killed, storageVars>>

FetchBreaks(r) ==
    /\ at[r] \in {"input", "state"}
    /\ Fault
    /\ Dies(r)
    /\ UNCHANGED <<killed, rows, objects, born, request, cleanup, erased, torn>>

\* _run_pde: the handlers, then the child, then its end.
InstallHandlers(r) ==
    /\ r \in Followed
    /\ Step(r, "arm", "spawn")
    /\ cancelled' = [cancelled EXCEPT ![r] = FALSE]
    /\ UNCHANGED <<parentOf, child, files, doomed, outcome, killed, storageVars>>

StartChild(r) ==
    /\ Step(r, "spawn", "wait")
    /\ child' = [child EXCEPT ![r] = "alive"]
    /\ UNCHANGED <<parentOf, cancelled, files, doomed, outcome, killed, storageVars>>

\* The PDE ends by itself, or with 130 after a SIGINT (or in spite of it).
ChildEnds(r) ==
    /\ ChildAlive(r)
    /\ \E end \in {"ok", "failed"} \union
                  (IF child[r] = "interrupted" THEN {"sigint"} ELSE {}) :
          child' = [child EXCEPT ![r] = end]
    /\ UNCHANGED <<at, parentOf, cancelled, files, doomed, outcome, killed, storageVars>>

\* Mutant of ReapChild: a cancelled run is not archived.
ReapChildCancelled(r) ==
    /\ ChildEnded(r)
    /\ Step(r, "wait", IF cancelled[r] THEN "exit" ELSE "finish")
    /\ UNCHANGED <<parentOf, child, cancelled, files, doomed, outcome, killed, storageVars>>

ReapChild(r) ==
    /\ ChildEnded(r)
    /\ Step(r, "wait", "finish")
    /\ UNCHANGED <<parentOf, child, cancelled, files, doomed, outcome, killed, storageVars>>

\* finish: the console log is always there, x_debug and the report if the
\* PDE wrote them, the state unless the archive command fails (unchecked).
Archive(r) ==
    /\ Step(r, "finish", "upload")
    /\ \E extra \in SUBSET (Kinds \ {"state", "log"}) :
          \/ /\ files' = [files EXCEPT ![r] = {"state", "log"} \union extra]
             /\ UNCHANGED faults
          \/ /\ files' = [files EXCEPT ![r] = {"log"} \union extra]
             /\ Fault
    /\ UNCHANGED <<parentOf, child, cancelled, doomed, outcome, killed,
                   rows, objects, born, request, cleanup, erased, torn>>

\* One POST with all files.  The result of upload_artifacts is not used.
Upload(h, r) ==
    /\ RunTokenAllows(r, parentOf[r], "artifacts", r)
    /\ Step(r, "upload", "response")
    /\ UploadBegin(h, r, files[r])
    /\ UNCHANGED <<parentOf, child, cancelled, files, doomed, outcome, killed>>

UploadRefused(r) ==
    /\ ~Exists(r)
    /\ Step(r, "upload", "exit")
    /\ UNCHANGED <<parentOf, child, cancelled, files, doomed, outcome, killed, storageVars>>

UploadAnswered(r) ==
    /\ \A h \in Handlers : ~Uploading(h, r)
    /\ Step(r, "response", "exit")
    /\ UNCHANGED <<parentOf, child, cancelled, files, doomed, outcome, killed, storageVars>>

\* A connection that breaks is no URLError once the request has been sent.
UploadBreaks(r) ==
    /\ at[r] = "response"
    /\ Fault
    /\ Dies(r)
    /\ UNCHANGED <<killed, rows, objects, born, request, cleanup, erased, torn>>

\* Mutant of ExitStatus: the child's status, cancelled or not.
ExitStatusOfChild(r) == IF child[r] = "ok" THEN "succeeded" ELSE "failed"

\* 143 for a cancelled run, whatever its child returned.
ExitStatus(r) ==
    IF ~cancelled[r] /\ child[r] = "ok" THEN "succeeded" ELSE "failed"

Exit(r) ==
    /\ at[r] = "exit"
    /\ Ends(r, ExitStatus(r))
    /\ UNCHANGED <<killed, storageVars>>

\* The PDE posts its log and report while it runs.
Deliver(h, r, kind) ==
    /\ ChildAlive(r)
    /\ at[r] = "wait"
    /\ RunTokenAllows(r, parentOf[r], "deliveries", r)
    /\ DeliverBegin(h, r, kind)
    /\ UNCHANGED podVars

-----------------------------------------------------------------------------
(* Signals.                                                                *)

\* Mutant of OnSignal: the child is not told.
OnSignalNotForwarded(r) ==
    /\ cancelled' = [cancelled EXCEPT ![r] = TRUE]
    /\ UNCHANGED child

\* _on_signal: between its installation and the assignment of _child, and
\* once the child is gone, there is nobody to forward to.
OnSignal(r) ==
    /\ cancelled' = [cancelled EXCEPT ![r] = TRUE]
    /\ child' = [child EXCEPT ![r] = IF @ = "alive" THEN "interrupted" ELSE @]

\* kill -INT 1, from signal_run_job_sigint.
Sigint(r) ==
    /\ Running(r)
    /\ IF Armed(r)
       THEN OnSignal(r) /\ UNCHANGED <<at, parentOf, files, doomed, outcome>>
       ELSE Dies(r)
    /\ UNCHANGED <<killed, storageVars>>

\* The Job is deleted: SIGTERM now, SIGKILL after the grace period.
Sigterm(r) ==
    /\ Running(r)
    /\ ~doomed[r]
    /\ doomed' = [doomed EXCEPT ![r] = TRUE]
    /\ IF Armed(r) THEN OnSignal(r) ELSE UNCHANGED <<cancelled, child>>
    /\ UNCHANGED <<at, parentOf, files, outcome, killed, storageVars>>

Sigkill(r) ==
    /\ Running(r)
    /\ doomed[r]
    /\ Dies(r)
    /\ killed' = [killed EXCEPT ![r] = TRUE]
    /\ UNCHANGED storageVars

-----------------------------------------------------------------------------

PodTypeOK ==
    /\ at \in [Runs -> Places]
    /\ parentOf \in [Runs -> Runs \union {None}]
    /\ child \in [Runs -> Children]
    /\ cancelled \in [Runs -> BOOLEAN]
    /\ files \in [Runs -> SUBSET Kinds]
    /\ doomed \in [Runs -> BOOLEAN]
    /\ outcome \in [Runs -> {"none", "succeeded", "failed"}]
    /\ killed \in [Runs -> BOOLEAN]

PodInit ==
    /\ at = [r \in Runs |-> "none"]
    /\ parentOf = [r \in Runs |-> None]
    /\ child = [r \in Runs |-> "none"]
    /\ cancelled = [r \in Runs |-> FALSE]
    /\ files = [r \in Runs |-> {}]
    /\ doomed = [r \in Runs |-> FALSE]
    /\ outcome = [r \in Runs |-> "none"]
    /\ killed = [r \in Runs |-> FALSE]

\* What the entrypoint does by itself, its child aside.
PodStep(r) ==
    \/ FetchRunInput(r) \/ FetchParentState(r) \/ FetchFails(r)
    \/ InstallHandlers(r) \/ StartChild(r) \/ ReapChild(r) \/ Archive(r)
    \/ UploadRefused(r) \/ UploadAnswered(r) \/ Exit(r)
    \/ \E h \in Handlers : Upload(h, r)
=============================================================================
