--------------------------- MODULE AttemptRecovery ---------------------------
(***************************************************************************)
(* One benchmark attempt and its recovery: the runner process of           *)
(* apps/runner (runner.py, journal.py) with everything it drives: the      *)
(* storage row, the crash journal, the durable capture, the workstation    *)
(* VM of the attempt, its evaluator VM, the gateway binding and the        *)
(* ChatGPT conversation.                                                   *)
(*                                                                         *)
(* Every durable write and every external effect is a step of its own,     *)
(* and the runner may be killed (Crash) or see an exception (Raise)        *)
(* before and after each of them.  An effect whose answer is lost is the   *)
(* effect followed by Raise.  A cooperative pause cancels the runner's     *)
(* task with CancelledError, which runner.py does not catch: for this      *)
(* module it is a Crash.                                                   *)
(*                                                                         *)
(* RunnerLock makes run, resume and reset-recovery exclusive, so one pc is *)
(* enough; gateway restarts and host crashes interleave with it.           *)
(***************************************************************************)
EXTENDS Integers, FiniteSets

CONSTANTS
    Tasks,
    Hooked,      \* tasks whose adapter uses runtime hooks (graded in an evaluator VM)
    Templated,   \* tasks with a workstation_template
    MaxAttempt,  \* bound: attempts of a task
    MaxSends,    \* bound: Send clicks of one attempt the model can tell apart
    MaxFaults,   \* bound: kills, exceptions, restarts and host crashes of a behaviour
    None

ASSUME AttemptAssumption ==
    /\ Hooked \subseteq Templated    \* create_evaluator refuses an attempt without template
    /\ Templated \subseteq Tasks
    /\ MaxAttempt \in Nat
    /\ MaxSends \in Nat \ {0}
    /\ MaxFaults \in Nat

VARIABLES
    rows,         \* storage: status, attempt and conversation of every task
    journal,      \* the submission journal file
    capture,      \* the durable capture file: the attempt it belongs to
    workstation,  \* libvirt resources of every attempt
    evaluator,    \* is an evaluator VM recorded for the attempt
    gateway,      \* the attempt the MCP gateway is bound to
    sent,         \* conversations created by a Send click
    deleted,      \* conversations deleted from ChatGPT
    pc,           \* next step of the runner process
    cur,          \* the attempt it works on
    conv,         \* its local conversation_id
    explicit,     \* explicit_recovery of the evaluation in progress
    faults        \* faults so far (bound of the model)

durable  == <<rows, journal, capture>>
machines == <<workstation, evaluator, gateway>>
chat     == <<sent, deleted>>
local    == <<cur, conv, explicit>>
vars     == <<durable, machines, chat, pc, local, faults>>

Attempts == 1..MaxAttempt
Ids      == Tasks \X Attempts          \* (task_id, attempt): the environment identity
Convs    == Ids \X (1..MaxSends)       \* the conversation of the n-th Send of an attempt

PreSubmission == {"starting", "apps_prepared", "benchmark_preparing", "benchmark_ready",
                  "composer_dirty"}
Checkpointed  == {"conversation_checkpointed", "candidate_checkpointed"}
Phases        == PreSubmission \cup {"submission_started", "conversation_known"}
                     \cup Checkpointed \cup {"cleanup_pending"}

Entry == [id : Ids, phase : Phases, conv : Convs \cup {None}, msg : 0..MaxSends]

ASSUME NoneAssumption == None \notin Ids /\ None \notin Convs /\ None \notin Entry

Row == [status  : {"absent", "running", "failed", "completed"},
        attempt : 0..MaxAttempt,
        conv    : Convs \cup {None}]

(* The steps of the runner, in the order of the code. *)
AttemptSteps ==
    {"start", "create", "activate", "mark_prepared", "benchmark", "compose", "submit", "click",
     "persist_id", "mark_known", "attach", "generate", "attach_recovered", "save_capture",
     "mark_checkpoint", "candidate", "evaluate", "destroy_evaluator", "complete", "mark_cleanup",
     "delete", "reset", "clear", "clear_capture"}
UndoSteps    == {"undo_reset", "undo_fail", "undo_clear"}
RecoverSteps == {"resume_prepare", "resume_evaluate", "resume_recover", "resume_candidate",
                 "early_reset", "cleanup_failed"}
OtherSteps   == {"abandon_fail", "prerun_fail"}
Steps        == {"idle"} \cup AttemptSteps \cup UndoSteps \cup RecoverSteps \cup OtherSteps

TypeOK ==
    /\ rows \in [Tasks -> Row]
    /\ journal \in Entry \cup {None}
    /\ capture \in Ids \cup {None}
    /\ workstation \in [Ids -> {"absent", "partial", "ready"}]
    /\ evaluator \in [Ids -> BOOLEAN]
    /\ gateway \in Ids \cup {None}
    /\ sent \subseteq Convs
    /\ deleted \subseteq Convs
    /\ pc \in Steps
    /\ cur \in Ids \cup {None}
    /\ conv \in Convs \cup {None}
    /\ explicit \in BOOLEAN
    /\ faults \in 0..MaxFaults

Init ==
    /\ rows = [t \in Tasks |-> [status |-> "absent", attempt |-> 0, conv |-> None]]
    /\ journal = None
    /\ capture = None
    /\ workstation = [i \in Ids |-> "absent"]
    /\ evaluator = [i \in Ids |-> FALSE]
    /\ gateway = None
    /\ sent = {}
    /\ deleted = {}
    /\ pc = "idle"
    /\ cur = None
    /\ conv = None
    /\ explicit = FALSE
    /\ faults = 0

-----------------------------------------------------------------------------
(* Shorthands *)

Task == cur[1]
Attempt == cur[2]

At(step) == pc = step /\ cur # None
Goto(step) == pc' = step

WriteJournal(phase, c, m) ==
    journal' = [id |-> cur, phase |-> phase, conv |-> c, msg |-> m]

(* Back to the scheduler with everything volatile forgotten. *)
Idle ==
    /\ pc' = "idle"
    /\ cur' = None
    /\ conv' = None
    /\ explicit' = FALSE

RunningRow(i) == rows[i[1]].status = "running" /\ rows[i[1]].attempt = i[2]

FaultHappens == faults < MaxFaults /\ faults' = faults + 1

-----------------------------------------------------------------------------
(* run_task and _run_attempt *)

(* run_pending schedules a task only when no journal is left and its row is *)
(* absent or failed; run_task writes "starting" before the row exists.      *)
RunTask(t) ==
    /\ pc = "idle"
    /\ journal = None
    /\ rows[t].status \in {"absent", "failed"}
    /\ rows[t].attempt < MaxAttempt
    /\ cur' = <<t, rows[t].attempt + 1>>
    /\ journal' = [id |-> cur', phase |-> "starting", conv |-> None, msg |-> 0]
    /\ Goto("start")
    /\ UNCHANGED <<rows, capture, machines, chat, conv, explicit, faults>>

(* mutant: a new attempt keeps the conversation of the failed one *)
StartRow_KeepsConversation(i) ==
    rows' = [rows EXCEPT ![i[1]] = [status |-> "running", attempt |-> i[2],
                                    conv |-> rows[i[1]].conv]]

StartRow(i) ==
    rows' = [rows EXCEPT ![i[1]] = [status |-> "running", attempt |-> i[2], conv |-> None]]

NoOtherRunning_Unchecked(t) == TRUE

NoOtherRunning(t) == \A u \in Tasks \ {t} : rows[u].status # "running"

(* start_run accepts the first attempt, and the next one of a failed task.  *)
MayStart(i) ==
    /\ NoOtherRunning(i[1])
    /\ rows[i[1]].status \in {"absent", "failed"}
    /\ i[2] = rows[i[1]].attempt + 1

StartStorage ==
    /\ At("start")
    /\ MayStart(cur)
    /\ StartRow(cur)
    /\ Goto("create")
    /\ UNCHANGED <<journal, capture, machines, chat, local, faults>>

(* HTTP 409: the row belongs to somebody else, the journal is dropped.      *)
StartConflict ==
    /\ At("start")
    /\ ~MayStart(cur)
    /\ journal' = None
    /\ Idle
    /\ UNCHANGED <<rows, capture, machines, chat, faults>>

(* The transport failed after the row was committed: StorageError, and the  *)
(* handler keeps the journal because it does not know what happened.        *)
StartAnswerLost ==
    /\ FaultHappens
    /\ At("start")
    /\ MayStart(cur)
    /\ StartRow(cur)
    /\ Idle
    /\ UNCHANGED <<journal, capture, machines, chat>>

(* A step that writes the journal, and one that changes the running row.    *)
Mark(from, phase, c, m, to) ==
    /\ At(from)
    /\ WriteJournal(phase, c, m)
    /\ Goto(to)
    /\ UNCHANGED <<rows, capture, machines, chat, local, faults>>

Store(from, status, c, to) ==
    /\ At(from)
    /\ RunningRow(cur)
    /\ rows' = [rows EXCEPT ![Task].status = status, ![Task].conv = c]
    /\ Goto(to)
    /\ UNCHANGED <<journal, capture, machines, chat, local, faults>>

(* lifecycle.prepare: runtime.create, then gateway activation and prepare.  *)
(* A templated create is idempotent on a complete attempt.                  *)
CreateWorkstation ==
    /\ At("create")
    /\ \/ workstation[cur] = "absent"
       \/ workstation[cur] = "ready" /\ Task \in Templated
    /\ workstation' = [workstation EXCEPT ![cur] = "ready"]
    /\ Goto("activate")
    /\ UNCHANGED <<durable, evaluator, gateway, chat, local, faults>>

(* A failed create destroys what it made, unless the attempt is templated:  *)
(* then the parts are preserved for diagnosis.                              *)
CreateBreaksOff ==
    /\ FaultHappens
    /\ At("create")
    /\ workstation[cur] = "absent"
    /\ Task \in Templated
    /\ workstation' = [workstation EXCEPT ![cur] = "partial"]
    /\ IF Task \in Hooked
       THEN Idle
       ELSE Goto("undo_reset") /\ UNCHANGED local
    /\ UNCHANGED <<durable, evaluator, gateway, chat>>

(* The gateway answers 409 while it is bound to another attempt. *)
GatewayFree(i) == gateway \in {None, i}

ActivateGateway ==
    /\ At("activate")
    /\ workstation[cur] = "ready"
    /\ GatewayFree(cur)
    /\ gateway' = cur
    /\ Goto("mark_prepared")
    /\ UNCHANGED <<durable, workstation, evaluator, chat, local, faults>>

MarkPrepared ==
    Mark("mark_prepared", "apps_prepared", None, 0,
         IF Task \in Hooked THEN "benchmark" ELSE "compose")

(* runtime_hooks.prepare between its two journal phases. *)
PrepareBenchmark ==
    /\ At("benchmark")
    /\ \/ /\ journal.phase = "apps_prepared"
          /\ WriteJournal("benchmark_preparing", None, 0)
          /\ UNCHANGED pc
       \/ /\ journal.phase = "benchmark_preparing"
          /\ workstation[cur] = "ready"
          /\ WriteJournal("benchmark_ready", None, 0)
          /\ Goto("compose")
    /\ UNCHANGED <<rows, capture, machines, chat, local, faults>>

Compose == Mark("compose", "composer_dirty", None, 0, "submit")

(* mutant: the marker is not durable before the click *)
MarkSubmission_Late ==
    /\ At("submit")
    /\ Goto("click")
    /\ UNCHANGED <<durable, machines, chat, local, faults>>

(* before_send: the marker is durable before the click that may submit.     *)
MarkSubmission == Mark("submit", "submission_started", None, 0, "click")

SendsOf(i) == Cardinality({c \in sent : c[1] = i})

ClickSend ==
    /\ At("click")
    /\ SendsOf(cur) < MaxSends
    /\ sent' = sent \cup {<<cur, SendsOf(cur) + 1>>}
    /\ conv' = <<cur, SendsOf(cur) + 1>>
    /\ Goto("persist_id")
    /\ UNCHANGED <<durable, machines, deleted, cur, explicit, faults>>

(* mutant: the proof is written with the phase before Send *)
PersistUserMessageId_KeepsPhase ==
    Mark("persist_id", "composer_dirty", None, conv[2], "mark_known")

(* on_user_message_id: the proof that the conversation found later is ours. *)
PersistUserMessageId ==
    Mark("persist_id", "submission_started", None, conv[2], "mark_known")

(* _wait_for_conversation_id returned; then the journal write. *)
MarkKnown == Mark("mark_known", "conversation_known", conv, conv[2], "attach")

AttachConversation ==
    /\ Store("attach", "running", conv, "generate")
    /\ rows[Task].conv \in {None, conv}

AfterCapture == IF Task \in Hooked THEN "save_capture" ELSE "complete"

(* wait_for_completion and lifecycle.runtime_metadata. *)
Generate ==
    /\ At("generate")
    /\ workstation[cur] = "ready"
    /\ conv \notin deleted
    /\ Goto(AfterCapture)
    /\ UNCHANGED <<durable, machines, chat, local, faults>>

-----------------------------------------------------------------------------
(* _evaluate_capture with runtime hooks: two durable checkpoints, then the  *)
(* evaluation of the second one in a VM of its own.                         *)

SaveCapture ==
    /\ At("save_capture")
    /\ capture' = cur
    /\ Goto("mark_checkpoint")
    /\ UNCHANGED <<rows, journal, machines, chat, local, faults>>

(* mutant: a phase name the reader of the journal does not know *)
MarkCheckpoint_UnknownPhase ==
    Mark("mark_checkpoint", "checkpointed", conv, conv[2], "candidate")

MarkCheckpoint ==
    Mark("mark_checkpoint", "conversation_checkpointed", conv, conv[2], "candidate")

(* mutant: the candidate is evaluated before its checkpoint is durable *)
CaptureCandidate_NotDurable ==
    /\ At("candidate")
    /\ workstation[cur] = "ready"
    /\ Goto("evaluate")
    /\ UNCHANGED <<durable, machines, chat, local, faults>>

CaptureCandidate ==
    /\ Mark("candidate", "candidate_checkpointed", conv, conv[2], "evaluate")
    /\ workstation[cur] = "ready"

(* A stale evaluator is replaced only in an explicit recovery. *)
CreateEvaluator ==
    /\ At("evaluate")
    /\ workstation[cur] = "ready"
    /\ evaluator[cur] => explicit
    /\ evaluator' = [evaluator EXCEPT ![cur] = TRUE]
    /\ Goto("destroy_evaluator")
    /\ UNCHANGED <<durable, workstation, gateway, chat, local, faults>>

(* The last thing adapter.evaluate does, on native pass and native fail.    *)
DestroyEvaluator ==
    /\ At("destroy_evaluator")
    /\ workstation[cur] = "ready"
    /\ evaluator' = [evaluator EXCEPT ![cur] = FALSE]
    /\ Goto("complete")
    /\ UNCHANGED <<durable, workstation, gateway, chat, local, faults>>

-----------------------------------------------------------------------------
(* Completion and cleanup *)

(* mutant: the cleanup starts before the result is stored *)
CompleteStorage_Later ==
    /\ At("complete")
    /\ Goto("mark_cleanup")
    /\ UNCHANGED <<durable, machines, chat, local, faults>>

CompleteStorage ==
    /\ Store("complete", "completed", conv, "mark_cleanup")
    /\ rows[Task].conv \in {None, conv}

MarkCleanup == Mark("mark_cleanup", "cleanup_pending", conv, conv[2], "delete")

DeleteConversation ==
    /\ At("delete")
    /\ deleted' = IF conv = None THEN deleted ELSE deleted \cup {conv}
    /\ Goto("reset")
    /\ UNCHANGED <<durable, machines, sent, local, faults>>

(* lifecycle.reset: the gateway first, then the strict destroy of the VM,   *)
(* which is refused for a VM that is only partly there.                     *)
Unbind == gateway' = IF gateway = cur THEN None ELSE gateway

StrictReset ==
    /\ gateway \in {None, cur}
    /\ workstation[cur] # "partial"
    /\ Unbind
    /\ workstation' = [workstation EXCEPT ![cur] = "absent"]
    /\ UNCHANGED evaluator

(* mutant: the evaluators are forgotten with the teacher's index *)
Abandon_TeacherOnly ==
    /\ gateway \in {None, cur}
    /\ Unbind
    /\ workstation' = [workstation EXCEPT ![cur] = "absent"]
    /\ UNCHANGED evaluator

(* lifecycle.abandon: evaluators first, then whatever is left of the VM.    *)
Abandon ==
    /\ gateway \in {None, cur}
    /\ Unbind
    /\ evaluator' = [evaluator EXCEPT ![cur] = FALSE]
    /\ workstation' = [workstation EXCEPT ![cur] = "absent"]

ResetSteps == {"reset", "undo_reset", "early_reset"}

(* mutant: the undone attempt is not reported to the storage service *)
AfterReset_NotReported ==
    CASE pc = "reset" -> "clear"
      [] pc = "undo_reset" -> "undo_clear"
      [] pc = "early_reset" -> "undo_clear"

AfterReset ==
    CASE pc = "reset" -> "clear"
      [] pc = "undo_reset" -> "undo_fail"
      [] pc = "early_reset" /\ rows[Task].status = "absent" -> "undo_clear"
      [] pc = "early_reset" /\ RunningRow(cur) /\ rows[Task].conv = None -> "undo_fail"
      [] OTHER -> "mismatch"

Reset ==
    /\ pc \in ResetSteps /\ cur # None
    /\ StrictReset
    /\ IF AfterReset = "mismatch"    \* "journal/storage state mismatch before submission"
       THEN Idle
       ELSE Goto(AfterReset) /\ UNCHANGED local
    /\ UNCHANGED <<durable, chat, faults>>

(* The gateway was released and the VM was not destroyed. *)
ResetBreaksOff ==
    /\ FaultHappens
    /\ pc \in ResetSteps \cup {"cleanup_failed"} /\ cur # None
    /\ Unbind
    /\ Idle
    /\ UNCHANGED <<durable, workstation, evaluator, chat>>

(* mutant: the capture is removed before the journal that needs it *)
ClearJournal_CaptureFirst ==
    /\ At("clear")
    /\ capture' = None
    /\ Goto("clear_capture")
    /\ UNCHANGED <<rows, journal, machines, chat, local, faults>>

ClearJournal ==
    /\ At("clear")
    /\ journal' = None
    /\ Goto("clear_capture")
    /\ UNCHANGED <<rows, capture, machines, chat, local, faults>>

ClearCapture ==
    /\ At("clear_capture")
    /\ capture' = None
    /\ Idle
    /\ UNCHANGED <<rows, journal, machines, chat, faults>>

(* The un-hooked attempt that never reached Send is failed and its journal  *)
(* dropped: by the handler of _run_attempt, or by reconcile_journal.        *)
UndoFail == Store("undo_fail", "failed", rows[Task].conv, "undo_clear")

UndoClear ==
    /\ At("undo_clear")
    /\ journal' = None
    /\ Idle
    /\ UNCHANGED <<rows, capture, machines, chat, faults>>

-----------------------------------------------------------------------------
(* reconcile_journal, run before anything else of a resume.  One action per *)
(* branch, in the order of the code; each branch reads the journal and the  *)
(* row, then continues with the steps above.                                *)

PendingTask == journal.id[1]
PendingRow  == rows[PendingTask]

RowMatches == PendingRow.status = "running" /\ PendingRow.attempt = journal.id[2]

Pending ==
    /\ pc = "idle"
    /\ journal # None

Resume(step, c, e) ==
    /\ cur' = journal.id
    /\ conv' = c
    /\ explicit' = e
    /\ Goto(step)
    /\ UNCHANGED <<durable, machines, chat, faults>>

KnownConversation == IF journal.conv # None THEN journal.conv ELSE PendingRow.conv

FailedThisAttempt == PendingRow.status = "failed" /\ PendingRow.attempt = journal.id[2]

Resolved == PendingRow.status = "completed" \/ FailedThisAttempt

ReconcileCompleted ==
    /\ Pending
    /\ PendingRow.status = "completed"
    /\ Resume("delete", KnownConversation, FALSE)

ReconcileFailed ==
    /\ Pending
    /\ FailedThisAttempt
    /\ Resume("cleanup_failed", None, FALSE)

(* A hooked attempt that never reached Send goes on where it was.           *)
ReconcilePreparation ==
    /\ Pending
    /\ ~Resolved
    /\ PendingTask \in Hooked /\ journal.phase \in PreSubmission
    /\ RowMatches
    /\ Resume(IF journal.phase = "starting" THEN "create" ELSE "resume_prepare", None, FALSE)

(* mutant: the resumed evaluation is not an explicit recovery *)
ReconcileCheckpoint_NotExplicit ==
    /\ Pending
    /\ ~Resolved
    /\ PendingTask \in Hooked /\ journal.phase \in Checkpointed
    /\ RowMatches
    /\ capture = journal.id
    /\ Resume("resume_evaluate", journal.conv, FALSE)

ReconcileCheckpoint ==
    /\ Pending
    /\ ~Resolved
    /\ PendingTask \in Hooked /\ journal.phase \in Checkpointed
    /\ RowMatches
    /\ capture = journal.id
    /\ Resume("resume_evaluate", journal.conv, TRUE)

(* An un-hooked attempt that never reached Send is undone: its resources    *)
(* are reset before the row is looked at.                                   *)
ReconcileUndo ==
    /\ Pending
    /\ ~Resolved
    /\ PendingTask \notin Hooked /\ journal.phase \in PreSubmission
    /\ Resume("early_reset", None, FALSE)

ReconcileConversation ==
    /\ Pending
    /\ RowMatches
    /\ journal.phase \notin PreSubmission \cup Checkpointed
    /\ KnownConversation # None
    /\ journal.msg # 0
    /\ Resume("resume_recover", KnownConversation, FALSE)

ReconcileCandidate ==
    /\ Pending
    /\ RowMatches
    /\ journal.phase = "submission_started"
    /\ KnownConversation = None
    /\ journal.msg # 0
    /\ Resume("resume_candidate", <<journal.id, journal.msg>>, FALSE)

ReconcileJournal ==
    \/ ReconcileCompleted
    \/ ReconcileFailed
    \/ ReconcilePreparation
    \/ ReconcileCheckpoint
    \/ ReconcileUndo
    \/ ReconcileConversation
    \/ ReconcileCandidate

(* lifecycle.assert_resume: the VM must be complete; the gateway is bound   *)
(* to the attempt again.                                                    *)
AfterResume ==
    CASE pc = "resume_prepare"   -> "mark_prepared"
      [] pc = "resume_evaluate"  -> IF journal.phase = "candidate_checkpointed"
                                    THEN "evaluate" ELSE "candidate"
      [] pc = "resume_recover"   -> "attach_recovered"
      [] pc = "resume_candidate" -> "mark_known"

ResumeSteps == {"resume_prepare", "resume_evaluate", "resume_recover", "resume_candidate"}

AssertResume ==
    /\ pc \in ResumeSteps /\ cur # None
    /\ workstation[cur] = "ready"
    /\ GatewayFree(cur)
    /\ pc \in {"resume_recover", "resume_candidate"} => conv \in sent \ deleted
    /\ gateway' = cur
    /\ Goto(AfterResume)
    /\ UNCHANGED <<durable, workstation, evaluator, chat, local, faults>>

(* _complete_recovery: the transcript was collected before the row is       *)
(* touched, so the evaluation or the completion follows at once.            *)
AttachRecovered ==
    /\ Store("attach_recovered", "running", conv, AfterCapture)
    /\ rows[Task].conv \in {None, conv}

CleanupFailed ==
    /\ At("cleanup_failed")
    /\ IF Task \in Templated THEN Abandon ELSE StrictReset
    /\ Goto("clear")
    /\ UNCHANGED <<durable, chat, local, faults>>

-----------------------------------------------------------------------------
(* superbench reset-recovery: the operator gives the running attempt up.    *)
AbandonRecovery ==
    /\ Pending
    /\ RowMatches
    /\ Resume("abandon_fail", None, FALSE)

AbandonFail == Store("abandon_fail", "failed", rows[Task].conv, "cleanup_failed")

(* _record_pre_runner_failure: adapter.prepare or the browser failed before *)
(* there was a runner, so the failed attempt is recorded without a journal. *)
StartPreRunnerFailure(t) ==
    /\ pc = "idle"
    /\ journal = None
    /\ rows[t].attempt < MaxAttempt
    /\ MayStart(<<t, rows[t].attempt + 1>>)
    /\ cur' = <<t, rows[t].attempt + 1>>
    /\ StartRow(<<t, rows[t].attempt + 1>>)
    /\ Goto("prerun_fail")
    /\ UNCHANGED <<journal, capture, machines, chat, conv, explicit, faults>>

RecordPreRunnerFailure ==
    /\ At("prerun_fail")
    /\ RunningRow(cur)
    /\ rows' = [rows EXCEPT ![Task].status = "failed"]
    /\ Idle
    /\ UNCHANGED <<journal, capture, machines, chat, faults>>

-----------------------------------------------------------------------------
(* Exceptions, kills and restarts *)

(* The handler of _run_attempt undoes an un-hooked attempt before Send; any *)
(* other exception leaves everything to the journal.                        *)
CanUndo ==
    /\ Task \notin Hooked
    /\ pc \in {"create", "activate", "mark_prepared", "compose", "submit"}

HandleException ==
    /\ IF CanUndo THEN Goto("undo_reset") /\ UNCHANGED local ELSE Idle
    /\ UNCHANGED <<durable, machines, chat>>

(* The VM, the gateway or ChatGPT cannot do what the step needs.            *)
Refused ==
    \/ pc = "create" /\ workstation[cur] # "absent"
                     /\ (workstation[cur] = "partial" \/ Task \notin Templated)
    \/ pc \in {"activate", "generate", "candidate", "evaluate", "destroy_evaluator"} \cup ResumeSteps
           /\ workstation[cur] # "ready"
    \/ pc \in {"generate", "resume_recover", "resume_candidate"} /\ conv \in deleted
    \/ pc \in ResetSteps /\ workstation[cur] = "partial"
    \/ pc = "cleanup_failed" /\ workstation[cur] = "partial" /\ Task \notin Templated

StepRefused ==
    /\ pc # "idle"
    /\ Refused
    /\ HandleException
    /\ UNCHANGED faults

RaiseException ==
    /\ FaultHappens
    /\ pc # "idle"
    /\ HandleException

(* SIGKILL, power loss, or the cancellation of a cooperative pause.         *)
KillRunner ==
    /\ FaultHappens
    /\ pc # "idle"
    /\ Idle
    /\ UNCHANGED <<durable, machines, chat>>

RestartGateway ==
    /\ FaultHappens
    /\ gateway # None
    /\ gateway' = None
    /\ UNCHANGED <<durable, workstation, evaluator, chat, pc, local>>

(* The loop mounts and the firewall of a VM do not survive the host; a      *)
(* create that was under way leaves a part of a VM.                         *)
CrashHost ==
    /\ FaultHappens
    /\ \E made \in BOOLEAN :
           workstation' =
               [i \in Ids |->
                    IF workstation[i] = "ready" \/ (made /\ pc = "create" /\ i = cur)
                    THEN "partial" ELSE workstation[i]]
    /\ gateway' = None
    /\ Idle
    /\ UNCHANGED <<durable, evaluator, chat>>

Fault ==
    \/ StartAnswerLost \/ CreateBreaksOff \/ ResetBreaksOff
    \/ RaiseException \/ KillRunner \/ RestartGateway \/ CrashHost

RunnerStep ==
    \/ StartStorage \/ StartConflict \/ CreateWorkstation \/ ActivateGateway \/ MarkPrepared
    \/ PrepareBenchmark \/ Compose \/ MarkSubmission \/ ClickSend \/ PersistUserMessageId
    \/ MarkKnown \/ AttachConversation \/ Generate \/ AttachRecovered
    \/ SaveCapture \/ MarkCheckpoint \/ CaptureCandidate \/ CreateEvaluator \/ DestroyEvaluator
    \/ CompleteStorage \/ MarkCleanup \/ DeleteConversation \/ Reset \/ ClearJournal
    \/ ClearCapture \/ UndoFail \/ UndoClear \/ AssertResume \/ CleanupFailed
    \/ AbandonFail \/ RecordPreRunnerFailure \/ StepRefused

Rest == pc = "idle" /\ UNCHANGED vars

Next ==
    \/ \E t \in Tasks : RunTask(t) \/ StartPreRunnerFailure(t)
    \/ ReconcileJournal
    \/ AbandonRecovery
    \/ RunnerStep
    \/ Rest
    \/ Fault

Spec == Init /\ [][Next]_vars

-----------------------------------------------------------------------------
(* Properties *)

(* However the runner is killed, resumed or abandoned, the prompt of an     *)
(* attempt is sent at most once: a resume recovers the conversation and     *)
(* never submits a duplicate (execution.py, the pause_cancelled handler).   *)
AtMostOneSend == \A i \in Ids : SendsOf(i) <= 1

(* As long as an attempt runs, a conversation that was created for it is    *)
(* behind a journal entry that forbids Send: no crash forgets a submission. *)
SubmissionNeverForgotten ==
    \A c \in sent :
        RunningRow(c[1]) =>
            /\ journal # None
            /\ journal.id = c[1]
            /\ journal.phase \notin PreSubmission

(* Whatever exists outside the database for an attempt (VM, evaluator VM,   *)
(* gateway binding) is reachable from the journal: when the journal is      *)
(* dropped nothing of the attempt is left, and the next attempt starts on a *)
(* clean host.                                                              *)
ResourcesAreJournaled ==
    \A i \in Ids :
        (workstation[i] # "absent" \/ evaluator[i] \/ gateway = i) =>
            journal # None /\ journal.id = i

(* A conversation is deleted from ChatGPT only after it was stored as the   *)
(* result of its task ("Delete only a benchmark conversation already        *)
(* persisted by storage", chatgpt.py).                                      *)
DeletedOnlyAfterStored ==
    \A c \in deleted :
        rows[c[1][1]].status = "completed" /\ rows[c[1][1]].conv = c

(* A checkpoint phase in the journal always finds its durable capture, so   *)
(* the evaluation can be resumed without ChatGPT; a capture left by an      *)
(* earlier attempt is never taken for it.                                   *)
CheckpointHasCapture ==
    (journal # None /\ journal.phase \in Checkpointed) => capture = journal.id

(* An evaluator VM exists only under a candidate checkpoint: whenever the   *)
(* runner stops while one exists, the explicit recovery that replaces it is *)
(* the one reconcile_journal selects.                                       *)
EvaluatorBehindCandidate ==
    \A i \in Ids :
        evaluator[i] => journal # None /\ journal.id = i
                        /\ journal.phase = "candidate_checkpointed"

(* The journal, the row and ChatGPT agree on the conversation of an         *)
(* attempt: a recorded conversation was created by that attempt, and the    *)
(* journal never names another one than the row.                            *)
OneConversationOfRecord ==
    /\ \A t \in Tasks :
           rows[t].conv # None => rows[t].conv \in sent /\ rows[t].conv[1] = <<t, rows[t].attempt>>
    /\ (journal # None /\ journal.conv # None) =>
           /\ journal.conv \in sent /\ journal.conv[1] = journal.id
           /\ (rows[journal.id[1]].attempt = journal.id[2] /\ rows[journal.id[1]].conv # None)
                  => rows[journal.id[1]].conv = journal.conv

(* The journal of an attempt is dropped only when the attempt is resolved,  *)
(* or when it never got a row of its own.                                   *)
JournalOutlivesAttempt ==
    [][(journal # None /\ journal' = None) => ~RunningRow(journal.id)]_vars

(* What became of attempt n of the task of this row.                        *)
LedgerOutcome(row, n) ==
    CASE n < row.attempt -> "failed"
      [] n > row.attempt -> "unopened"
      [] OTHER -> IF row.status = "running" THEN "open" ELSE row.status

Ledger == INSTANCE RunLedger
              WITH outcome <- [t \in Tasks |-> [n \in Attempts |-> LedgerOutcome(rows[t], n)]]

(* With all its kills, resumes and abandons the runner drives the ledger of *)
(* attempts (RunLedger) that RunStorage implements: attempts are opened one *)
(* at a time and in order, each is closed once, and a stored result stays.  *)
LedgerSpec == Ledger!Spec

Contract == INSTANCE WorkstationContract WITH Machines <- Ids, machine <- workstation

(* The runner uses its VMs only as the broker makes and takes them          *)
(* (WorkstationContract): a broken VM is never gone on with, an evaluator is *)
(* created beside a usable VM and forgotten before, or with, its VM.        *)
KeepsContract == Contract!Spec

-----------------------------------------------------------------------------
(* Claims of the repository that the code does not keep *)

(* "A running attempt is recoverable only through its durable journal":     *)
(* when the runner is idle, a running row has its journal.                  *)
RunningHasJournal ==
    pc = "idle" =>
        \A t \in Tasks :
            rows[t].status = "running" =>
                journal # None /\ journal.id = <<t, rows[t].attempt>>

(* A pending journal can be reconciled, or the attempt can be abandoned     *)
(* with reset-recovery.                                                     *)
CanReconcile ==
    \/ Resolved
    \/ journal.phase \in PreSubmission /\ PendingTask \in Hooked /\ RowMatches
    \/ journal.phase \in PreSubmission /\ PendingTask \notin Hooked
           /\ (PendingRow.status = "absent" \/ RowMatches)
    \/ RowMatches

PendingJournalIsRecoverable == Pending => CanReconcile

(* "If App cleanup then fails, keep the journal so the normal reconcile     *)
(* path can retry cleanup of the now-failed attempt": the retry succeeds    *)
(* once the faults are over.                                                *)
FailedCleanupIsRetried ==
    (pc = "idle" /\ journal # None /\ rows[journal.id[1]].status = "failed"
        /\ rows[journal.id[1]].attempt = journal.id[2]) ~> (journal = None)

-----------------------------------------------------------------------------
(* Scheduling.  A step of a running process is eventually taken; the        *)
(* operator resumes a paused or crashed batch, which reconciles the journal *)
(* first, and runs the tasks that are left.  reset-recovery and faults are  *)
(* never forced.                                                            *)
Fairness ==
    /\ WF_vars(RunnerStep)
    /\ WF_vars(ReconcileJournal)
    /\ \A t \in Tasks : WF_vars(RunTask(t))

FairSpec == Spec /\ Fairness

(* The automatic recovery refuses, on every resume: no branch fits the row, *)
(* the Send was not proved, or a part of the VM is gone.  A running row     *)
(* without a journal stops the batch as well.                               *)
NeedsOperator ==
    /\ pc = "idle"
    /\ \/ /\ journal # None
          /\ \/ ~CanReconcile
             \/ journal.phase = "submission_started" /\ journal.msg = 0
             \/ workstation[journal.id] = "partial"
       \/ journal = None /\ \E t \in Tasks : rows[t].status = "running"

(* Once the faults are over a resumed batch gets through: every task        *)
(* completes or has used its attempts, unless the operator is needed on     *)
(* every resume.                                                            *)
BatchGetsThrough ==
    \A t \in Tasks :
        []<>(\/ rows[t].status = "completed"
             \/ rows[t].status = "failed" /\ rows[t].attempt = MaxAttempt
             \/ NeedsOperator)
=============================================================================
