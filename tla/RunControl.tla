----------------------------- MODULE RunControl -----------------------------
(***************************************************************************)
(* The active run: the control file of superbench/run_control.py and the   *)
(* processes that share it.                                                *)
(*                                                                         *)
(*   - runner processes (superbench-run, superbench-resume-active):        *)
(*     lifecycle.execute_active, _execute_locked, execution.run_pending;   *)
(*   - inside each of them the SIGINT handler and the watcher task, which  *)
(*     cancel the main task when a pause is requested;                     *)
(*   - superbench-pause and superbench-reset-recovery.                     *)
(*                                                                         *)
(* A transaction of RunControlStore (flock, read, replace) is one step; a  *)
(* SIGINT that arrives inside one is flushed right after it, so a signal   *)
(* falls between two steps.  An await is a pc of Awaits: only there can    *)
(* the watcher run and a cancellation be delivered.                        *)
(*                                                                         *)
(* What one attempt does is module AttemptRecovery; here it has a journal, *)
(* a row and an outcome.  Deadlines are kept on an integer clock; 0 stands *)
(* for "no deadline".  A second Ctrl+C is not told from a kill.  The       *)
(* selection, the model and the configuration do not drift.                *)
(***************************************************************************)
EXTENDS Integers, FiniteSets

CONSTANTS
    Runners,     \* processes that may run or resume
    NumTasks,    \* tasks of the frozen selection, in its order
    RetryAfter,  \* delay of a RateLimited answer
    MaxTime,     \* bound: clock
    MaxFaults,   \* bound: failures, kills, pauses and resets of a behaviour
    None

ASSUME RunControlAssumption ==
    /\ NumTasks \in Nat \ {0}
    /\ RetryAfter \in Nat \ {0}
    /\ MaxTime \in Nat
    /\ MaxFaults \in Nat

VARIABLES
    control,   \* the active-run file
    rows,      \* status of every row in storage
    journal,   \* pending recovery journal: its task and retry_not_before
    prepared,  \* tasks whose adapter (evaluator-side) state exists
    lock,      \* holder of RunnerLock
    proc,      \* the runner processes (see Process)
    reset,     \* superbench-reset-recovery: idle, or its step and task
    now,
    faults     \* faults so far (bound of the model)

Tasks    == 1..NumTasks
Time     == 0..MaxTime
Statuses == {"running", "pause_requested", "paused", "resuming", "needs_intervention", "completed"}

Control == [status   : Statuses,
            done     : SUBSET Tasks,
            current  : Tasks \cup {None},
            incident : BOOLEAN,      \* intervention_reason and its details are set
            retry    : Time]         \* retry_not_before
Journal == [task : Tasks, retry : Time]

Before  == {"run_lock", "resume_lock", "create", "begin"}
Chat    == {"recovering", "preparing", "working", "committed", "reconciling"}  \* talks to ChatGPT
Awaits  == Chat \cup {"health", "recovered", "get_row", "starting", "handler", "record", "recorded", "cleanup",
                     "after", "closing", "proof"}
Guarded == Awaits \cup {"probe", "recover", "confirm", "loop", "start", "started", "attempt",
                        "next", "raise", "final", "recheck", "complete"}    \* with SigintPause(...)
Inside  == Guarded \cup {"incident", "rate_paused"}                       \* in _execute_locked

Process == [pc      : {"off"} \cup Before \cup Inside,
            idx     : 1..(NumTasks + 1),                   \* place in the selection
            err     : {"none", "cancel", "rate", "other"}, \* exception in flight
            started : BOOLEAN,                             \* runner_started
            keep    : BOOLEAN,                             \* recovery_required
            sig     : BOOLEAN,                             \* SigintPause.pause_requested
            cancel  : BOOLEAN,     \* a cancellation of the main task is not delivered yet
            watch   : BOOLEAN]     \* the watcher task is running

NoProcess == [pc |-> "off", idx |-> 1, err |-> "none", started |-> FALSE, keep |-> FALSE,
              sig |-> FALSE, cancel |-> FALSE, watch |-> FALSE]

Reset == [step : {"lock", "finish"}, task : Tasks]

ASSUME NoneAssumption ==
    /\ None \notin Runners /\ None \notin Tasks /\ None \notin Control /\ None \notin Journal
    /\ None \notin Reset
    /\ "reset" \notin Runners /\ "reset" # None

work == <<rows, journal, prepared>>
vars == <<control, work, lock, proc, reset, now, faults>>

TypeOK ==
    /\ control \in Control \cup {None}
    /\ rows \in [Tasks -> {"absent", "running", "failed", "completed"}]
    /\ journal \in Journal \cup {None}
    /\ prepared \subseteq Tasks
    /\ lock \in Runners \cup {"reset", None}
    /\ proc \in [Runners -> Process]
    /\ reset \in Reset \cup {None}
    /\ now \in Time
    /\ faults \in 0..MaxFaults

Init ==
    /\ control = None
    /\ rows \in [Tasks -> {"absent", "failed", "completed"}]   \* an earlier run of the campaign
    /\ journal = None
    /\ prepared = {}
    /\ lock = None
    /\ proc = [p \in Runners |-> NoProcess]
    /\ reset = None
    /\ now = 0
    /\ faults = 0

-----------------------------------------------------------------------------
(* Shorthands *)

At(p, step) == proc[p].pc = step
Goto(p, step) == proc' = [proc EXCEPT ![p].pc = step]
Task(p) == proc[p].idx

(* An exception starts to propagate. *)
Throw(p, e, step) == proc' = [proc EXCEPT ![p].pc = step, ![p].err = e]

(* The process ends and the kernel drops its lock. *)
Leave(p) ==
    /\ proc' = [proc EXCEPT ![p] = NoProcess]
    /\ lock' = IF lock = p THEN None ELSE lock

FaultHappens == faults < MaxFaults /\ faults' = faults + 1

Later(a, b) == IF a > b THEN a ELSE b

(* A RateLimited may only be thrown where its deadline is on the clock. *)
Throwable(e) == e = "rate" => now + RetryAfter <= MaxTime

Unfinished == control # None /\ control.status # "completed"

Pausing == control.status = "pause_requested"

-----------------------------------------------------------------------------
(* Transactions on the control file that several steps use *)

(* pause_if_requested, once the pause was seen. *)
PauseRun == control' = [control EXCEPT !.status = "paused", !.current = None]

(* request_pause, request_pause_from_signal *)
RequestPause ==
    control' = IF control.status \in {"running", "resuming"}
               THEN [control EXCEPT !.status = "pause_requested"] ELSE control

FinishTask(t) ==
    control' = [control EXCEPT !.done = @ \cup {t}, !.current = IF @ = t THEN None ELSE @]

-----------------------------------------------------------------------------
(* Invocation: execute_active up to _execute_locked *)

RunInvoked(p) ==
    /\ At(p, "off")
    /\ Goto(p, "run_lock")
    /\ UNCHANGED <<control, work, lock, reset, now, faults>>

(* The first look at the file is before the lock is taken. *)
ResumeInvoked(p) ==
    /\ At(p, "off")
    /\ Unfinished
    /\ control.retry <= now
    /\ Goto(p, "resume_lock")
    /\ UNCHANGED <<control, work, lock, reset, now, faults>>

(* mutant: the lock is not waited for *)
RunLocked_Shared(p) ==
    /\ At(p, "run_lock")
    /\ ~Unfinished
    /\ lock' = p
    /\ Goto(p, "create")
    /\ UNCHANGED <<control, work, reset, now, faults>>

RunLocked(p) ==
    /\ At(p, "run_lock")
    /\ lock = None
    /\ ~Unfinished
    /\ lock' = p
    /\ Goto(p, "create")
    /\ UNCHANGED <<control, work, reset, now, faults>>

(* mutant: the deadline is not looked at again under the lock *)
ResumeLocked_Once(p) ==
    /\ At(p, "resume_lock")
    /\ lock = None
    /\ Unfinished
    /\ lock' = p
    /\ Goto(p, "begin")
    /\ UNCHANGED <<control, work, reset, now, faults>>

(* Everything is read again under the lock: another runner may have been   *)
(* rate limited since.                                                      *)
ResumeLocked(p) ==
    /\ At(p, "resume_lock")
    /\ lock = None
    /\ Unfinished
    /\ control.retry <= now
    /\ lock' = p
    /\ Goto(p, "begin")
    /\ UNCHANGED <<control, work, reset, now, faults>>

(* ConcurrentRunnerError, or the file is not what the command needs. *)
InvocationRefused(p) ==
    /\ \/ At(p, "run_lock") /\ (lock # None \/ Unfinished)
       \/ At(p, "resume_lock") /\ (lock # None \/ ~Unfinished \/ control.retry > now)
    /\ Leave(p)
    /\ UNCHANGED <<control, work, reset, now, faults>>

(* _preflight_selected fails: nothing was written yet. *)
PreflightFails(p) ==
    /\ FaultHappens
    /\ At(p, "create") \/ At(p, "begin")
    /\ Leave(p)
    /\ UNCHANGED <<control, work, reset, now>>

(* _execute_locked starts the watcher and installs the signal handler. *)
Execute(p) == proc' = [proc EXCEPT ![p].pc = "health", ![p].watch = TRUE]

CreateRun(p) ==
    /\ At(p, "create")
    /\ control' = [status |-> "running", done |-> {}, current |-> None, incident |-> FALSE,
                   retry |-> 0]
    /\ Execute(p)
    /\ UNCHANGED <<work, lock, reset, now, faults>>

BeginResume(p) ==
    /\ At(p, "begin")
    /\ control' = [control EXCEPT !.status = "resuming"]
    /\ Execute(p)
    /\ UNCHANGED <<work, lock, reset, now, faults>>

-----------------------------------------------------------------------------
(* run_pending *)

Health(p) ==
    /\ At(p, "health")
    /\ Goto(p, "probe")
    /\ UNCHANGED <<control, work, lock, reset, now, faults>>

(* pause_probe: the handler has already written pause_requested. *)
Probe(p) ==
    /\ At(p, "probe")
    /\ \/ proc[p].sig /\ PauseRun /\ Goto(p, "closing")
       \/ ~proc[p].sig /\ Goto(p, "recover") /\ UNCHANGED control
    /\ UNCHANGED <<work, lock, reset, now, faults>>

(* mutant: the batch goes on with its journal left *)
NothingToRecover_Always(p) ==
    /\ At(p, "recover")
    /\ Goto(p, "confirm")
    /\ UNCHANGED <<control, work, lock, reset, now, faults>>

NothingToRecover(p) ==
    /\ At(p, "recover")
    /\ journal = None
    /\ Goto(p, "confirm")
    /\ UNCHANGED <<control, work, lock, reset, now, faults>>

(* _raise_if_recovery_deferred *)
RecoveryDeferred(p) ==
    /\ At(p, "recover")
    /\ journal # None
    /\ journal.retry > now
    /\ Throw(p, "rate", "raise")
    /\ UNCHANGED <<control, work, lock, reset, now, faults>>

Recover(p) ==
    /\ At(p, "recover")
    /\ journal # None
    /\ journal.retry <= now
    /\ prepared' = prepared \cup {journal.task}
    /\ proc' = [proc EXCEPT ![p].pc = "recovering", ![p].idx = journal.task]
    /\ UNCHANGED <<control, rows, journal, lock, reset, now, faults>>

(* What reconcile_journal makes of the pending attempt. *)
Reconciles ==
    /\ journal' = None
    /\ \E status \in IF rows[journal.task] = "running" THEN {"completed", "failed"}
                    ELSE {rows[journal.task]} :
           rows' = [rows EXCEPT ![journal.task] = status]

Recovered(p) ==
    /\ At(p, "recovering")
    /\ Reconciles
    /\ Goto(p, "recovered")
    /\ UNCHANGED <<control, prepared, lock, reset, now, faults>>

(* finally: only once the journal is gone. *)
RecoveryCleaned(p) ==
    /\ At(p, "recovered")
    /\ prepared' = prepared \ {Task(p)}
    /\ Goto(p, IF proc[p].err = "none" THEN "confirm" ELSE "raise")
    /\ UNCHANGED <<control, rows, journal, lock, reset, now, faults>>

(* _persist_rate_limit_defer: the deadline goes to the journal. *)
DeferJournal == journal' = [journal EXCEPT !.retry = Later(@, now + RetryAfter)]

RecoveryFails(p) ==
    /\ FaultHappens
    /\ At(p, "recovering")
    /\ \E e \in {"rate", "other"} :
          /\ Throwable(e)
          /\ \/ Reconciles /\ Throw(p, e, "recovered")
             \/ e = "rate" /\ DeferJournal /\ Throw(p, e, "raise") /\ UNCHANGED rows
             \/ e = "other" /\ Throw(p, e, "raise") /\ UNCHANGED <<rows, journal>>
    /\ UNCHANGED <<control, prepared, lock, reset, now>>

(* mutant: confirm_running also confirms a run whose pause was requested *)
ConfirmRunning_Always(p) ==
    /\ At(p, "confirm")
    /\ control' = [control EXCEPT !.status = "running", !.incident = FALSE, !.retry = 0]
    /\ proc' = [proc EXCEPT ![p].pc = "loop", ![p].idx = 1]
    /\ UNCHANGED <<work, lock, reset, now, faults>>

ConfirmRunning(p) ==
    /\ At(p, "confirm")
    /\ \/ /\ Pausing
          /\ PauseRun
          /\ Goto(p, "closing")
       \/ /\ ~Pausing
          /\ control' = [control EXCEPT !.status = "running", !.incident = FALSE, !.retry = 0]
          /\ proc' = [proc EXCEPT ![p].pc = "loop", ![p].idx = 1]
    /\ UNCHANGED <<work, lock, reset, now, faults>>

Advance(p) == proc' = [proc EXCEPT ![p].pc = "loop", ![p].idx = @ + 1, ![p].started = FALSE]

Loop(p) ==
    /\ At(p, "loop")
    /\ \/ Task(p) > NumTasks /\ Goto(p, "closing") /\ UNCHANGED control
       \/ Task(p) <= NumTasks /\ Pausing /\ PauseRun /\ Goto(p, "closing")
       \/ Task(p) \in control.done /\ ~Pausing /\ Advance(p) /\ UNCHANGED control
       \/ Task(p) \in Tasks \ control.done /\ ~Pausing /\ Goto(p, "start") /\ UNCHANGED control
    /\ UNCHANGED <<work, lock, reset, now, faults>>

StartTask(p) ==
    /\ At(p, "start")
    /\ control' = IF Pausing THEN control ELSE [control EXCEPT !.current = Task(p)]
    /\ Goto(p, "started")
    /\ UNCHANGED <<work, lock, reset, now, faults>>

CheckStarted(p) ==
    /\ At(p, "started")
    /\ \/ Pausing /\ PauseRun /\ Goto(p, "closing")
       \/ ~Pausing /\ Goto(p, "get_row") /\ UNCHANGED control
    /\ UNCHANGED <<work, lock, reset, now, faults>>

(* mutant: a row that was started before is skipped like a completed one *)
SkipCompleted_Known(p) ==
    /\ At(p, "get_row")
    /\ rows[Task(p)] # "absent"
    /\ FinishTask(Task(p))
    /\ Advance(p)
    /\ UNCHANGED <<work, lock, reset, now, faults>>

(* mutant: the skipped row is not reported to the control file *)
SkipCompleted_Silent(p) ==
    /\ At(p, "get_row")
    /\ rows[Task(p)] = "completed"
    /\ Advance(p)
    /\ UNCHANGED <<control, work, lock, reset, now, faults>>

SkipCompleted(p) ==
    /\ At(p, "get_row")
    /\ rows[Task(p)] = "completed"
    /\ FinishTask(Task(p))
    /\ Advance(p)
    /\ UNCHANGED <<work, lock, reset, now, faults>>

(* "running Superbench attempt has no recovery journal" *)
RefuseRunning(p) ==
    /\ At(p, "get_row")
    /\ rows[Task(p)] = "running"
    /\ Throw(p, "other", "raise")
    /\ UNCHANGED <<control, work, lock, reset, now, faults>>

(* adapter.prepare and get_chatgpt *)
PrepareTask(p) ==
    /\ At(p, "get_row")
    /\ rows[Task(p)] \in {"absent", "failed"}
    /\ prepared' = prepared \cup {Task(p)}
    /\ Goto(p, "preparing")
    /\ UNCHANGED <<control, rows, journal, lock, reset, now, faults>>

TaskPrepared(p) ==
    /\ At(p, "preparing")
    /\ proc' = [proc EXCEPT ![p].pc = "attempt", ![p].started = TRUE]
    /\ UNCHANGED <<control, work, lock, reset, now, faults>>

(* run_task: the journal, then the row of a new attempt (AttemptRecovery). *)
StartAttempt(p) ==
    /\ At(p, "attempt")
    /\ journal' = [task |-> Task(p), retry |-> 0]
    /\ Goto(p, "starting")
    /\ UNCHANGED <<control, rows, prepared, lock, reset, now, faults>>

StartRow(p) ==
    /\ At(p, "starting")
    /\ rows' = [rows EXCEPT ![Task(p)] = "running"]
    /\ Goto(p, "working")
    /\ UNCHANGED <<control, journal, prepared, lock, reset, now, faults>>

CompleteAttempt(p) ==
    /\ At(p, "working")
    /\ rows' = [rows EXCEPT ![Task(p)] = "completed"]
    /\ Goto(p, "committed")
    /\ UNCHANGED <<control, journal, prepared, lock, reset, now, faults>>

CleanAttempt(p) ==
    /\ At(p, "committed")
    /\ journal' = None
    /\ Goto(p, "cleanup")
    /\ UNCHANGED <<control, rows, prepared, lock, reset, now, faults>>

-----------------------------------------------------------------------------
(* Failures and cancellation of one task *)

(* A request to storage or to the adapter fails; it does not mask the error *)
(* that is already propagating.                                             *)
RequestFails(p) ==
    /\ FaultHappens
    /\ proc[p].pc \in {"health", "recovered", "get_row", "cleanup", "after"}
    /\ Throw(p, IF proc[p].err = "none" THEN "other" ELSE proc[p].err, "raise")
    /\ UNCHANGED <<control, work, lock, reset, now>>

(* prepare, the browser, or a 429 on the way in *)
PreparationFails(p) ==
    /\ FaultHappens
    /\ At(p, "preparing")
    /\ \E e \in {"rate", "other"} : Throwable(e) /\ Throw(p, e, "handler")
    /\ UNCHANGED <<control, work, lock, reset, now>>

(* The attempt was undone, or half undone, or must be recovered: a running  *)
(* row keeps its journal.                                                   *)
AttemptFails(p) ==
    /\ FaultHappens
    /\ proc[p].pc \in {"starting", "working", "committed"}
    /\ \E e \in {"rate", "other"}, status \in {rows[Task(p)], "failed"}, entry \in {journal, None} :
          /\ Throwable(e)
          /\ At(p, "committed") => status = "completed" /\ entry = journal
          /\ status = "running" => entry = journal
          /\ rows' = [rows EXCEPT ![Task(p)] = status]
          /\ journal' = entry
          /\ Throw(p, e, "handler")
    /\ UNCHANGED <<control, prepared, lock, reset, now>>

(* Where a CancelledError that is raised at an await goes next. *)
CancelTarget(step) ==
    CASE step \in {"preparing", "starting", "working", "committed"}        -> "handler"
      [] step \in {"handler", "reconciling", "record", "recorded"}         -> "cleanup"
      [] step \in {"health", "recovering", "recovered", "get_row", "cleanup", "after"} -> "raise"
      [] step \in {"closing", "proof"}                                    -> "incident"

Cancelled(p) ==
    /\ proc[p].cancel
    /\ proc[p].pc \in Awaits
    /\ proc' = [proc EXCEPT ![p].cancel = FALSE, ![p].err = "cancel", ![p].pc = CancelTarget(@),
                            ![p].keep = @ \/ At(p, "reconciling")]
    /\ \/ UNCHANGED prepared
       \/ At(p, "cleanup") /\ ~proc[p].keep /\ prepared' = prepared \ {Task(p)}
    /\ UNCHANGED <<control, rows, journal, lock, reset, now, faults>>

(* except BaseException: the row was read again, then the journal and the  *)
(* control file.                                                           *)
HandlerGets(p) == At(p, "handler") /\ UNCHANGED <<rows, prepared, control, lock, reset, now, faults>>

Pending(p) == journal # None /\ journal.task = Task(p)
PauseCancelled(p) == proc[p].err = "cancel" /\ Pausing
Committed(p) == proc[p].started /\ rows[Task(p)] = "completed" /\ Pending(p)
Recoverable(p) == rows[Task(p)] = "running" \/ Pending(p)

Cleanup(p, keep) == proc' = [proc EXCEPT ![p].pc = "cleanup", ![p].keep = keep]

HandlePause(p) ==
    /\ HandlerGets(p)
    /\ PauseCancelled(p)
    /\ Cleanup(p, Recoverable(p))
    /\ UNCHANGED journal

(* A 429 during the cleanup of a completed row, or with work to recover:   *)
(* the deadline goes to the journal and nothing else is tried.             *)
HandleRateLimit(p) ==
    /\ HandlerGets(p)
    /\ proc[p].err = "rate"
    /\ Recoverable(p)
    /\ IF journal # None THEN DeferJournal ELSE UNCHANGED journal
    /\ Cleanup(p, TRUE)

HandleCommitted(p) ==
    /\ HandlerGets(p)
    /\ ~PauseCancelled(p) /\ proc[p].err # "rate"
    /\ Committed(p)
    /\ Goto(p, "reconciling")
    /\ UNCHANGED journal

HandleRecoverable(p) ==
    /\ HandlerGets(p)
    /\ ~PauseCancelled(p) /\ proc[p].err # "rate"
    /\ Recoverable(p) /\ ~Committed(p)
    /\ Cleanup(p, TRUE)
    /\ UNCHANGED journal

HandleFailed(p) ==
    /\ HandlerGets(p)
    /\ ~PauseCancelled(p)
    /\ ~Recoverable(p)
    /\ IF proc[p].started THEN Cleanup(p, FALSE) ELSE Goto(p, "record")
    /\ UNCHANGED journal

(* A storage request of the handler fails: its own exception replaces the  *)
(* first one, and recovery_required is still False.                        *)
HandlerFails(p) ==
    /\ FaultHappens
    /\ proc[p].pc \in {"handler", "record", "recorded"}
    /\ proc' = [proc EXCEPT ![p].err = "other", ![p].pc = "cleanup"]
    /\ UNCHANGED <<control, work, lock, reset, now>>

(* reconcile_journal of a committed attempt.  Only an error that is no     *)
(* BatchCircuitBreaker also finishes the task.                             *)
ReconcileDone(p) ==
    /\ At(p, "reconciling")
    /\ journal' = None
    /\ FinishTask(Task(p)) \/ UNCHANGED control
    /\ Cleanup(p, FALSE)
    /\ UNCHANGED <<rows, prepared, lock, reset, now, faults>>

ReconcileFails(p) ==
    /\ FaultHappens
    /\ At(p, "reconciling")
    /\ \E e \in {"rate", "other"} :
          /\ Throwable(e)
          /\ proc' = [proc EXCEPT ![p].err = e, ![p].pc = "cleanup", ![p].keep = TRUE]
    /\ UNCHANGED <<control, work, lock, reset, now>>

(* _record_pre_runner_failure *)
RecordStart(p) ==
    /\ At(p, "record")
    /\ rows' = [rows EXCEPT ![Task(p)] = "running"]
    /\ Goto(p, "recorded")
    /\ UNCHANGED <<control, journal, prepared, lock, reset, now, faults>>

RecordFail(p) ==
    /\ At(p, "recorded")
    /\ rows' = [rows EXCEPT ![Task(p)] = "failed"]
    /\ Cleanup(p, FALSE)
    /\ UNCHANGED <<control, journal, prepared, lock, reset, now, faults>>

(* finally: the adapter cleans up unless recovery is required. *)
CleanupTask(p) ==
    /\ At(p, "cleanup")
    /\ prepared' = IF proc[p].keep THEN prepared ELSE prepared \ {Task(p)}
    /\ Goto(p, IF proc[p].err = "none" THEN "after" ELSE "raise")
    /\ UNCHANGED <<control, rows, journal, lock, reset, now, faults>>

AfterTask(p) ==
    /\ At(p, "after")
    /\ IF rows[Task(p)] = "completed" THEN FinishTask(Task(p)) ELSE UNCHANGED control
    /\ Goto(p, "next")
    /\ UNCHANGED <<work, lock, reset, now, faults>>

NextTask(p) ==
    /\ At(p, "next")
    /\ \/ Pausing /\ PauseRun /\ Goto(p, "closing")
       \/ ~Pausing /\ Advance(p) /\ UNCHANGED control
    /\ UNCHANGED <<work, lock, reset, now, faults>>

-----------------------------------------------------------------------------
(* The end of run_pending, and the rest of _execute_locked *)

(* except CancelledError of run_pending: a requested pause ends it normally. *)
Raise(p) ==
    /\ At(p, "raise")
    /\ \/ /\ PauseCancelled(p)
          /\ PauseRun
          /\ Throw(p, "none", "closing")
       \/ ~PauseCancelled(p) /\ Goto(p, "closing") /\ UNCHANGED control
    /\ UNCHANGED <<work, lock, reset, now, faults>>

(* finally: the browser session and the storage client are closed. *)
Close(p) ==
    /\ At(p, "closing")
    /\ Goto(p, IF proc[p].err = "none" THEN "final" ELSE "incident")
    /\ UNCHANGED <<control, work, lock, reset, now, faults>>

(* The control file as run_pending left it, or as it is after the proof. *)
Final(p) ==
    /\ At(p, "final")
    /\ \/ Pausing /\ PauseRun /\ Leave(p)
       \/ control.status \notin {"pause_requested", "running", "resuming"} /\ Leave(p)
          /\ UNCHANGED control
       \/ /\ control.status \in {"running", "resuming"}
          /\ IF Tasks \subseteq control.done THEN Goto(p, "proof") ELSE Throw(p, "other", "incident")
          /\ UNCHANGED <<control, lock>>
    /\ UNCHANGED <<work, reset, now, faults>>

(* _storage_completed_run_task_ids: every row, at one moment (no other     *)
(* process changes a row while this one holds the lock).                   *)
Proof(p) ==
    /\ At(p, "proof")
    /\ IF \A t \in Tasks : rows[t] = "completed"
       THEN Goto(p, "recheck") ELSE Throw(p, "other", "incident")
    /\ UNCHANGED <<control, work, lock, reset, now, faults>>

ProofFails(p) ==
    /\ FaultHappens
    /\ At(p, "proof")
    /\ Throw(p, "other", "incident")
    /\ UNCHANGED <<control, work, lock, reset, now>>

Recheck(p) ==
    /\ At(p, "recheck")
    /\ \/ Pausing /\ PauseRun /\ Leave(p)
       \/ ~Pausing /\ Goto(p, "complete") /\ UNCHANGED <<control, lock>>
    /\ UNCHANGED <<work, reset, now, faults>>

(* RunControlStore.complete asks for the done tasks, not for the status. *)
Complete(p) ==
    /\ At(p, "complete")
    /\ Tasks \subseteq control.done
    /\ control' = [control EXCEPT !.status = "completed", !.current = None, !.incident = FALSE,
                                  !.retry = 0]
    /\ Leave(p)
    /\ UNCHANGED <<work, reset, now, faults>>

(* mutant: a cancellation ends the process without a look at the file *)
CancelledIncident_Unread(p) ==
    /\ At(p, "incident")
    /\ proc[p].err = "cancel"
    /\ Leave(p)
    /\ UNCHANGED <<control, work, reset, now, faults>>

CancelledIncident(p) ==
    /\ At(p, "incident")
    /\ proc[p].err = "cancel"
    /\ IF Pausing THEN PauseRun ELSE UNCHANGED control
    /\ Leave(p)
    /\ UNCHANGED <<work, reset, now, faults>>

(* mutant: the delay is added to the deadline before *)
Defer_Adds(p) ==
    /\ At(p, "incident")
    /\ proc[p].err = "rate"
    /\ control' = [control EXCEPT !.retry = @ + now + RetryAfter]
    /\ Goto(p, "rate_paused")
    /\ UNCHANGED <<work, lock, reset, now, faults>>

(* defer_rate_limit.  The deadline is the answer's own, or what was left of *)
(* the one the journal already had.                                         *)
Defer(p) ==
    /\ At(p, "incident")
    /\ proc[p].err = "rate"
    /\ LET deadline == IF journal # None /\ journal.retry > now THEN journal.retry
                       ELSE now + RetryAfter IN
          control' = [control EXCEPT !.retry = Later(@, deadline)]
    /\ Goto(p, "rate_paused")
    /\ UNCHANGED <<work, lock, reset, now, faults>>

PauseRateLimited(p) ==
    /\ At(p, "rate_paused")
    /\ control' = [control EXCEPT !.status = "paused", !.incident = TRUE]
    /\ Leave(p)
    /\ UNCHANGED <<work, reset, now, faults>>

Intervention(p) ==
    /\ At(p, "incident")
    /\ proc[p].err = "other"
    /\ control' = [control EXCEPT !.status = "needs_intervention", !.incident = TRUE]
    /\ Leave(p)
    /\ UNCHANGED <<work, reset, now, faults>>

-----------------------------------------------------------------------------
(* Signals, the watcher, other commands, time *)

Sigint(p) ==
    /\ FaultHappens
    /\ proc[p].pc \in Guarded
    /\ ~proc[p].sig
    /\ RequestPause
    /\ proc' = [proc EXCEPT ![p].sig = TRUE, ![p].cancel = TRUE]
    /\ UNCHANGED <<work, lock, reset, now>>

(* mutant: the watcher ends without cancelling *)
Watch_Idle(p) ==
    /\ proc[p].watch
    /\ proc[p].pc \in Awaits
    /\ control.status \notin {"running", "resuming"}
    /\ proc' = [proc EXCEPT ![p].watch = FALSE]
    /\ UNCHANGED <<control, work, lock, reset, now, faults>>

(* _watch_durable_pause: ends by cancelling the run, or without. *)
Watch(p) ==
    /\ proc[p].watch
    /\ proc[p].pc \in Awaits
    /\ control.status \notin {"running", "resuming"}
    /\ proc' = [proc EXCEPT ![p].watch = FALSE, ![p].cancel = @ \/ Pausing]
    /\ UNCHANGED <<control, work, lock, reset, now, faults>>

Kill(p) ==
    /\ FaultHappens
    /\ proc[p].pc # "off"
    /\ Leave(p)
    /\ UNCHANGED <<control, work, reset, now>>

(* superbench-pause *)
PauseCommand ==
    /\ FaultHappens
    /\ control # None
    /\ control.status \in {"running", "resuming"}
    /\ RequestPause
    /\ UNCHANGED <<work, lock, proc, reset, now>>

Tick ==
    /\ now < MaxTime
    /\ \A p \in Runners : proc[p].err # "rate"
    /\ now' = now + 1
    /\ UNCHANGED <<control, work, lock, proc, reset, faults>>

(* superbench-reset-recovery: the control file and the journal are read    *)
(* before the lock is taken.                                               *)
ResetInvoked ==
    /\ FaultHappens
    /\ reset = None
    /\ Unfinished
    /\ journal # None
    /\ reset' = [step |-> "lock", task |-> journal.task]
    /\ UNCHANGED <<control, work, lock, proc, now>>

ResetAt(step) == reset # None /\ reset.step = step

Abandonable(t) == rows[t] = "running" /\ journal # None /\ journal.task = t

(* adapter.recover, then abandon_recovery (AttemptRecovery). *)
ResetAbandon ==
    /\ ResetAt("lock")
    /\ lock = None
    /\ Abandonable(reset.task)
    /\ lock' = "reset"
    /\ rows' = [rows EXCEPT ![reset.task] = "failed"]
    /\ journal' = None
    /\ prepared' = prepared \cup {reset.task}
    /\ reset' = [reset EXCEPT !.step = "finish"]
    /\ UNCHANGED <<control, proc, now, faults>>

(* abandon_recovery has failed the row, and then the cleanup fails. *)
ResetBreaksOff ==
    /\ FaultHappens
    /\ ResetAt("lock")
    /\ lock = None
    /\ Abandonable(reset.task)
    /\ rows' = [rows EXCEPT ![reset.task] = "failed"]
    /\ prepared' = prepared \cup {reset.task}
    /\ reset' = None
    /\ UNCHANGED <<control, journal, lock, proc, now>>

(* adapter.cleanup, paused_error *)
ResetFinish ==
    /\ ResetAt("finish")
    /\ prepared' = prepared \ {reset.task}
    /\ control' = [control EXCEPT !.status = "paused", !.incident = TRUE]
    /\ lock' = None
    /\ reset' = None
    /\ UNCHANGED <<rows, journal, proc, now, faults>>

ResetRefused ==
    /\ ResetAt("lock")
    /\ \/ lock # None /\ UNCHANGED prepared
       \/ /\ lock = None
          /\ ~Abandonable(reset.task)
          /\ prepared' = prepared \cup {reset.task}
    /\ reset' = None
    /\ UNCHANGED <<control, rows, journal, lock, proc, now, faults>>

ResetKilled ==
    /\ FaultHappens
    /\ reset # None
    /\ reset' = None
    /\ lock' = IF lock = "reset" THEN None ELSE lock
    /\ UNCHANGED <<control, work, proc, now>>

-----------------------------------------------------------------------------
(* Specification *)

Invocation(p) ==
    RunInvoked(p) \/ ResumeInvoked(p) \/ RunLocked(p) \/ ResumeLocked(p) \/ InvocationRefused(p)
        \/ PreflightFails(p) \/ CreateRun(p) \/ BeginResume(p)

Recovery(p) ==
    Health(p) \/ Probe(p) \/ NothingToRecover(p) \/ RecoveryDeferred(p) \/ Recover(p)
        \/ Recovered(p) \/ RecoveryCleaned(p) \/ RecoveryFails(p) \/ ConfirmRunning(p)

Batch(p) ==
    Loop(p) \/ StartTask(p) \/ CheckStarted(p) \/ SkipCompleted(p) \/ RefuseRunning(p)
        \/ PrepareTask(p) \/ TaskPrepared(p) \/ StartAttempt(p) \/ StartRow(p)
        \/ CompleteAttempt(p) \/ CleanAttempt(p) \/ CleanupTask(p) \/ AfterTask(p) \/ NextTask(p)

Failure(p) ==
    RequestFails(p) \/ PreparationFails(p) \/ AttemptFails(p) \/ HandlePause(p)
        \/ HandleRateLimit(p) \/ HandleCommitted(p) \/ HandleRecoverable(p) \/ HandleFailed(p)
        \/ HandlerFails(p) \/ ReconcileDone(p) \/ ReconcileFails(p) \/ RecordStart(p) \/ RecordFail(p)

Ending(p) ==
    Raise(p) \/ Close(p) \/ Final(p) \/ Proof(p) \/ ProofFails(p) \/ Recheck(p) \/ Complete(p)
        \/ CancelledIncident(p) \/ Defer(p) \/ PauseRateLimited(p) \/ Intervention(p)

Outside(p) == Sigint(p) \/ Watch(p) \/ Cancelled(p) \/ Kill(p)

ResetRecovery ==
    ResetInvoked \/ ResetAbandon \/ ResetBreaksOff \/ ResetFinish \/ ResetRefused \/ ResetKilled

Next ==
    \/ \E p \in Runners :
          Invocation(p) \/ Recovery(p) \/ Batch(p) \/ Failure(p) \/ Ending(p) \/ Outside(p)
    \/ PauseCommand
    \/ Tick
    \/ ResetRecovery

Spec == Init /\ [][Next]_vars

-----------------------------------------------------------------------------
(* Fairness *)

(* Answers only ChatGPT, the workstation or a grader can give. *)
Answer(p) ==
    TaskPrepared(p) \/ CompleteAttempt(p) \/ CleanAttempt(p) \/ Recovered(p) \/ ReconcileDone(p)

(* What a process does by itself, or after an answer of storage or the     *)
(* adapter, which have timeouts.                                           *)
Prompt(p) ==
    \/ RunLocked(p) \/ ResumeLocked(p) \/ InvocationRefused(p) \/ CreateRun(p) \/ BeginResume(p)
    \/ Health(p) \/ Probe(p) \/ NothingToRecover(p) \/ RecoveryDeferred(p) \/ Recover(p)
    \/ RecoveryCleaned(p) \/ ConfirmRunning(p)
    \/ Loop(p) \/ StartTask(p) \/ CheckStarted(p) \/ SkipCompleted(p) \/ RefuseRunning(p)
    \/ PrepareTask(p) \/ StartAttempt(p) \/ StartRow(p) \/ CleanupTask(p) \/ AfterTask(p)
    \/ NextTask(p)
    \/ HandlePause(p) \/ HandleRateLimit(p) \/ HandleCommitted(p) \/ HandleRecoverable(p)
    \/ HandleFailed(p) \/ RecordStart(p) \/ RecordFail(p)
    \/ Raise(p) \/ Close(p) \/ Final(p) \/ Proof(p) \/ Recheck(p) \/ Complete(p)
    \/ CancelledIncident(p) \/ Defer(p) \/ PauseRateLimited(p) \/ Intervention(p)

(* The event loop runs: no answer is owed by anyone outside. *)
PromptSpec ==
    /\ Spec
    /\ \A p \in Runners : WF_vars(Prompt(p)) /\ WF_vars(Watch(p)) /\ WF_vars(Cancelled(p))

(* Answers come, time passes, and the operator resumes a run that stopped. *)
Attended ==
    /\ \A p \in Runners : WF_vars(Prompt(p) \/ Answer(p)) /\ SF_vars(ResumeInvoked(p))
    /\ WF_vars(Tick)
    /\ WF_vars(ResetAbandon \/ ResetFinish \/ ResetRefused)

-----------------------------------------------------------------------------
(* Properties *)

Executing(p) == proc[p].pc \in Inside

(* At most one process is between taking and leaving RunnerLock, and it is *)
(* the one that holds it (lock.py, execute_active).                        *)
OneActiveRunner ==
    \A p \in Runners : proc[p].pc \in {"create", "begin"} \cup Inside => lock = p

(* A finished task has a completed row, whatever failed, was cancelled or  *)
(* was reset since; and a completed run has all of its tasks finished      *)
(* (finish_task, _storage_completed_run_task_ids, complete).               *)
CompletionIsBacked ==
    control # None =>
        /\ \A t \in control.done : rows[t] = "completed"
        /\ control.status = "completed" => control.done = Tasks

(* A deadline in the control file is only forgotten once it has passed:    *)
(* confirm_running and complete clear it without looking at the clock.     *)
DeferralKept ==
    [][control # None /\ control.retry > now => control'.retry >= control.retry]_vars

(* A requested pause is only taken back by a resume: no runner sets the    *)
(* run to running again (confirm_running, start_task, finish_task).        *)
PauseStands ==
    [][(control # None /\ Pausing /\ ~\E p \in Runners : BeginResume(p))
          => control'.status \in {"pause_requested", "paused", "needs_intervention", "completed"}]_vars

(* An attempt starts only when no row is running and no journal of another *)
(* attempt is left, so StorageClient.start meets no 409 and no recovery    *)
(* record is overwritten (_recover_pending_journal before scheduling).     *)
AttemptStartsClean ==
    [][\A p \in Runners :
          /\ StartAttempt(p) \/ StartRow(p) \/ RecordStart(p) => \A t \in Tasks : rows[t] # "running"
          /\ StartAttempt(p) \/ RecordStart(p) => journal = None]_vars

(* A runner that ends by itself leaves the run paused, stopped for the     *)
(* operator or completed: only a kill leaves an active status behind       *)
(* (_execute_locked, SigintPause, _watch_durable_pause).                   *)
StopsAreRecorded ==
    [][\A p \in Runners : Executing(p) /\ proc'[p].pc = "off" /\ ~Kill(p)
          => control'.status \in {"paused", "needs_intervention", "completed"}]_vars

(* While the run is running, the pending journal is the current task's, so *)
(* superbench-active-status names the task a recovery would be about.      *)
CurrentIsPending ==
    control # None /\ control.status = "running" /\ journal # None => control.current = journal.task

LifecyclePhase ==
    IF control = None THEN "none"
    ELSE CASE control.status \in {"running", "resuming", "pause_requested"} -> "active"
           [] control.status \in {"paused", "needs_intervention"} -> "stopped"
           [] control.status = "completed" -> "completed"

FinishedTasks == IF control = None THEN {} ELSE control.done

(* The run as the operator sees it. *)
Lifecycle == INSTANCE RunLifecycle WITH phase <- LifecyclePhase, done <- FinishedTasks

(* Through kills, signals and resets, the file takes a run only along the  *)
(* transitions of RunLifecycle: no finished task is lost before a new run  *)
(* begins, and nothing leads out of completed (RunControlStore).           *)
LifecycleSpec == Lifecycle!Spec

(* A pause stops the run although neither ChatGPT nor a grader answers     *)
(* (_watch_durable_pause cancels the main task).                           *)
PauseIsHonoured ==
    LET Unanswered == control # None /\ Pausing /\ \E p \in Runners : Executing(p)
    IN  Unanswered ~> ~Unanswered

Completed == control # None /\ control.status = "completed"

(* A running row no journal knows: RefuseRunning meets it on every resume. *)
Stranded == journal = None /\ \E t \in Tasks : rows[t] = "running"

(* Resumed often enough, a run completes after its failures, pauses and    *)
(* resets, unless a row was stranded by _record_pre_runner_failure.        *)
RunCompletes == Attended => <>[]Stranded \/ (control # None ~> Completed)

(* lifecycle.py:400-402: control state is read again "so a cooperative     *)
(* pause wins" over the completion.                                        *)
PauseWins == [][control # None /\ Pausing => control'.status # "completed"]_vars

(* execution.py:254: "Never destroy evaluator-side state while recovery is *)
(* still pending."                                                         *)
PreparedKept ==
    [][\A t \in Tasks : journal # None /\ journal' # None /\ journal.task = t /\ t \in prepared
          => t \in prepared']_vars
=============================================================================
