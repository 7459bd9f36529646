-------------------------- MODULE RunControl_proofs --------------------------
(***************************************************************************)
(* Safety of the active run, for any runners, tasks, delays and bounds.    *)
(*                                                                         *)
(* The inductive invariant has two halves.  Shared relates the control     *)
(* file, the rows and the journal to each other.  Local(p) says, for every *)
(* place p can be in, what the shared state is then: which task is still   *)
(* undone, whose journal may be pending, whether the run is active.  Only  *)
(* the holder of RunnerLock has a Local worth anything, so a step of the   *)
(* holder needs to re-establish its own and nobody else's.                 *)
(*                                                                         *)
(* The lemmas go by what an action writes: nothing (Quiet), the control    *)
(* file (Writes), or rows, journal and adapter state (Works).  Keeps(p)    *)
(* is what each of them ends with.  The properties of steps, and the       *)
(* refinement, then rest on Changes: all that a step does to the file.     *)
(***************************************************************************)
EXTENDS RunControl, TLAPS

Idle   == {"off", "run_lock", "resume_lock"}
Begun  == {"begin"} \cup Inside
Undone == {"start", "started", "get_row", "preparing", "attempt", "starting", "working",
           "committed", "handler", "record", "recorded", "reconciling"}
InTask == Undone \cup {"cleanup", "after", "next", "recovering", "recovered"}
InLoop == Undone \cup {"cleanup", "after", "next", "loop"}
Active == Inside \ {"closing", "final", "incident", "rate_paused"}
Thrown == {"handler", "record", "recorded", "reconciling", "raise"}

Ongoing == control # None /\ control.status \in {"running", "resuming", "pause_requested"}

-----------------------------------------------------------------------------
(* What a process knows of itself and of the lock *)

LLock(p) == proc[p].pc \notin Idle => lock = p
LFresh(p) == proc[p].pc \notin Inside => proc[p].err = "none" /\ ~proc[p].cancel
LTask(p) == proc[p].pc \in InTask => proc[p].idx \in Tasks
LError(p) ==
    /\ proc[p].pc \in Thrown => proc[p].err # "none"
    /\ proc[p].pc = "final" => proc[p].err = "none"

(* A RateLimited in flight has a deadline the clock can reach. *)
LRate(p) ==
    proc[p].err = "rate" /\ proc[p].pc # "rate_paused" =>
        \/ now + RetryAfter <= MaxTime
        \/ proc[p].pc \in {"raise", "closing", "incident"} /\ journal # None /\ journal.retry > now

(* ... of the control file *)

LCreate(p) == proc[p].pc = "create" => ~Unfinished
LBegun(p) == proc[p].pc \in Begun => Unfinished
LActive(p) == proc[p].pc \in Active => Ongoing
LRetry(p) == proc[p].pc \in Begun \ {"rate_paused"} => control.retry <= now
LUndone(p) == proc[p].pc \in Undone => proc[p].idx \notin control.done
LOrder(p) == proc[p].pc \in InLoop => \A t \in Tasks : t < proc[p].idx => t \in control.done
LNext(p) == proc[p].pc = "next" => proc[p].idx \in control.done
LCurrent(p) ==
    proc[p].pc \in {"started", "get_row", "preparing", "attempt"} /\ control.status = "running"
        => control.current = proc[p].idx

(* A cancellation is only ever sent for a requested pause. *)
LCancel(p) ==
    proc[p].cancel \/ proc[p].err = "cancel" => control.status \notin {"running", "resuming"}

(* ... of the journal and the row of its task *)

LNoJournal(p) ==
    \/ proc[p].pc \in {"confirm", "recovered", "loop", "start", "started", "get_row", "preparing",
                       "attempt", "record", "after", "next", "proof", "recheck", "complete"}
    \/ proc[p].pc = "cleanup" /\ proc[p].err = "none"
    \/ proc[p].pc \in {"closing", "final"} /\ proc[p].err = "none" /\ Ongoing
    => journal = None
LJournal(p) ==
    /\ proc[p].pc = "recovering" => journal # None
    /\ proc[p].pc \in {"recovering", "starting", "working", "committed", "handler", "reconciling"}
          /\ journal # None => journal.task = proc[p].idx
LRow(p) ==
    /\ proc[p].pc \in {"preparing", "attempt", "starting", "record"}
          => rows[proc[p].idx] # "running"
    /\ proc[p].pc \in {"committed", "reconciling", "after"} => rows[proc[p].idx] = "completed"
    /\ proc[p].pc = "cleanup" /\ proc[p].err = "none" => rows[proc[p].idx] = "completed"

LSelf(p) == LLock(p) /\ LFresh(p) /\ LTask(p) /\ LError(p) /\ LRate(p)
LFile(p) ==
    LCreate(p) /\ LBegun(p) /\ LActive(p) /\ LRetry(p) /\ LUndone(p) /\ LOrder(p) /\ LNext(p)
        /\ LCurrent(p) /\ LCancel(p)
LWork(p) == LNoJournal(p) /\ LJournal(p) /\ LRow(p)
Local(p) == LSelf(p) /\ LFile(p) /\ LWork(p)

-----------------------------------------------------------------------------
(* What holds whoever moves *)

(* A pending journal belongs to an unfinished run. *)
SJournal == journal # None => Unfinished

(* Everything before a running row is finished. *)
SRunning ==
    \A t \in Tasks :
       rows[t] = "running" => Unfinished /\ \A u \in Tasks : u < t => u \in control.done

SRetry == control # None /\ control.status = "completed" => control.retry <= now

SReset ==
    /\ reset # None => control # None
    /\ reset # None /\ reset.step = "finish" => lock = "reset" /\ Unfinished

Shared == CompletionIsBacked /\ CurrentIsPending /\ SJournal /\ SRunning /\ SRetry /\ SReset

IInv == TypeOK /\ Shared /\ \A p \in Runners : Local(p)

(* The step of p leaves the other processes alone. *)
Alone(p) == proc' \in [Runners -> Process] /\ \A q \in Runners \ {p} : proc'[q] = proc[q]

(* p goes to step, with the same task, error and pending cancellation. *)
Moves(p, step) ==
    /\ Alone(p)
    /\ proc'[p].pc = step
    /\ proc'[p].idx = proc[p].idx
    /\ proc'[p].err = proc[p].err
    /\ proc'[p].cancel = proc[p].cancel

(* p goes to step with the error e. *)
Throws(p, e, step) ==
    /\ Alone(p)
    /\ proc'[p].pc = step
    /\ proc'[p].idx = proc[p].idx
    /\ proc'[p].err = e
    /\ proc'[p].cancel = proc[p].cancel

(* p ends and drops its lock. *)
Ends(p) ==
    /\ Alone(p)
    /\ proc'[p].pc = "off" /\ proc'[p].err = "none" /\ ~proc'[p].cancel
    /\ lock' = IF lock = p THEN None ELSE lock

(* p goes on to the next task. *)
Advances(p) ==
    /\ Alone(p)
    /\ proc'[p].pc = "loop"
    /\ proc'[p].idx = proc[p].idx + 1
    /\ proc'[p].err = proc[p].err
    /\ proc'[p].cancel = proc[p].cancel

(* Every place a process can be in. *)
Steps == {"off"} \cup Before \cup Inside

(* The shorthands of RunControl, read as facts about the process alone. *)
LEMMA GotoMoves ==
    ASSUME TypeOK, NEW p \in Runners, NEW step \in Steps, Goto(p, step)
    PROVE  Moves(p, step)
  BY DEF TypeOK, Goto, Moves, Alone, Process, Steps

LEMMA Replaces ==
    ASSUME TypeOK, NEW p \in Runners, NEW new \in Process, proc' = [proc EXCEPT ![p] = new]
    PROVE  Alone(p) /\ proc'[p] = new
  BY DEF TypeOK, Alone

LEMMA ThrowThrows ==
    ASSUME TypeOK, NEW p \in Runners, NEW step \in Steps,
           NEW e \in {"none", "cancel", "rate", "other"}, Throw(p, e, step)
    PROVE  Throws(p, e, step)
<1>1. proc \in [Runners -> Process]
    BY DEF TypeOK
<1> DEFINE new == [proc[p] EXCEPT !.pc = step, !.err = e]
<1>2. new \in Process
    BY <1>1 DEF Process, Steps
<1>3. new.pc = step /\ new.idx = proc[p].idx /\ new.err = e /\ new.cancel = proc[p].cancel
    BY <1>1 DEF Process
<1>4. proc' = [proc EXCEPT ![p] = new]
    BY <1>1 DEF Throw
<1> HIDE DEF new
<1>5. QED
    BY <1>2, <1>3, <1>4, Replaces DEF Throws

LEMMA MoveTo ==
    ASSUME TypeOK, NEW p \in Runners, NEW step \in Steps, NEW i \in 1..(NumTasks + 1),
           proc' = [proc EXCEPT ![p].pc = step, ![p].idx = i]
    PROVE  /\ Alone(p) /\ proc'[p].pc = step /\ proc'[p].idx = i
           /\ proc'[p].err = proc[p].err /\ proc'[p].cancel = proc[p].cancel
<1>1. proc \in [Runners -> Process]
    BY DEF TypeOK
<1> DEFINE new == [proc[p] EXCEPT !.pc = step, !.idx = i]
<1>2. new \in Process
    BY <1>1 DEF Process, Steps
<1>3. new.pc = step /\ new.idx = i /\ new.err = proc[p].err /\ new.cancel = proc[p].cancel
    BY <1>1 DEF Process
<1>4. proc' = [proc EXCEPT ![p] = new]
    BY <1>1
<1> HIDE DEF new
<1>5. QED
    BY <1>2, <1>3, <1>4, Replaces

LEMMA ExecuteMoves ==
    ASSUME TypeOK, NEW p \in Runners, Execute(p)
    PROVE  Moves(p, "health")
<1>1. proc \in [Runners -> Process] /\ "health" \in Inside
    BY DEF TypeOK, Inside, Guarded, Awaits
<1> DEFINE new == [proc[p] EXCEPT !.pc = "health", !.watch = TRUE]
<1>2. new \in Process
    BY <1>1 DEF Process
<1>3. /\ new.pc = "health" /\ new.idx = proc[p].idx
      /\ new.err = proc[p].err /\ new.cancel = proc[p].cancel
    BY <1>1 DEF Process
<1>4. proc' = [proc EXCEPT ![p] = new]
    BY <1>1 DEF Execute
<1> HIDE DEF new
<1>5. QED
    BY <1>2, <1>3, <1>4, Replaces DEF Moves

(* Every way out of the handler leads to its finally. *)
LEMMA CleanupMoves ==
    ASSUME TypeOK, NEW p \in Runners, NEW keep \in BOOLEAN, Cleanup(p, keep)
    PROVE  Moves(p, "cleanup")
<1>1. proc \in [Runners -> Process] /\ "cleanup" \in Inside
    BY DEF TypeOK, Inside, Guarded, Awaits
<1> DEFINE new == [proc[p] EXCEPT !.pc = "cleanup", !.keep = keep]
<1>2. new \in Process
    BY <1>1 DEF Process
<1>3. /\ new.pc = "cleanup" /\ new.idx = proc[p].idx
      /\ new.err = proc[p].err /\ new.cancel = proc[p].cancel
    BY <1>1 DEF Process
<1>4. proc' = [proc EXCEPT ![p] = new]
    BY <1>1 DEF Cleanup
<1> HIDE DEF new
<1>5. QED
    BY <1>2, <1>3, <1>4, Replaces DEF Moves

LEMMA TaskPreparedMoves ==
    ASSUME TypeOK, NEW p \in Runners, TaskPrepared(p)
    PROVE  Moves(p, "attempt")
<1>1. proc \in [Runners -> Process] /\ "attempt" \in Inside
    BY DEF TypeOK, Inside, Guarded
<1> DEFINE new == [proc[p] EXCEPT !.pc = "attempt", !.started = TRUE]
<1>2. new \in Process
    BY <1>1 DEF Process
<1>3. /\ new.pc = "attempt" /\ new.idx = proc[p].idx
      /\ new.err = proc[p].err /\ new.cancel = proc[p].cancel
    BY <1>1 DEF Process
<1>4. proc' = [proc EXCEPT ![p] = new]
    BY <1>1 DEF TaskPrepared
<1> HIDE DEF new
<1>5. QED
    BY <1>2, <1>3, <1>4, Replaces DEF Moves

(* The handler and the watcher leave the runner where it is. *)
LEMMA WatchStays ==
    ASSUME TypeOK, NEW p \in Runners, Watch(p)
    PROVE  /\ Alone(p)
           /\ proc'[p].pc = proc[p].pc /\ proc'[p].idx = proc[p].idx /\ proc'[p].err = proc[p].err
           /\ proc'[p].cancel \in BOOLEAN
<1>1. proc \in [Runners -> Process] /\ Pausing \in BOOLEAN
    BY DEF TypeOK, Pausing
<1> DEFINE new == [proc[p] EXCEPT !.watch = FALSE, !.cancel = @ \/ Pausing]
<1>2. new \in Process
    BY <1>1 DEF Process
<1>3. new.pc = proc[p].pc /\ new.idx = proc[p].idx /\ new.err = proc[p].err
    BY <1>1 DEF Process
<1>4. proc' = [proc EXCEPT ![p] = new]
    BY <1>1 DEF Watch
<1> HIDE DEF new
<1>5. QED
    BY <1>2, <1>3, <1>4, Replaces DEF Process

LEMMA SigintStays ==
    ASSUME TypeOK, NEW p \in Runners, Sigint(p)
    PROVE  /\ Alone(p)
           /\ proc'[p].pc = proc[p].pc /\ proc'[p].idx = proc[p].idx /\ proc'[p].err = proc[p].err
<1>1. proc \in [Runners -> Process]
    BY DEF TypeOK
<1> DEFINE new == [proc[p] EXCEPT !.sig = TRUE, !.cancel = TRUE]
<1>2. new \in Process
    BY <1>1 DEF Process
<1>3. new.pc = proc[p].pc /\ new.idx = proc[p].idx /\ new.err = proc[p].err
    BY <1>1 DEF Process
<1>4. proc' = [proc EXCEPT ![p] = new]
    BY <1>1 DEF Sigint
<1> HIDE DEF new
<1>5. QED
    BY <1>2, <1>3, <1>4, Replaces

LEMMA LeaveEnds ==
    ASSUME TypeOK, NEW p \in Runners, Leave(p)
    PROVE  Ends(p)
  BY RunControlAssumption DEF TypeOK, Leave, Ends, Alone, Process, NoProcess

LEMMA AdvanceAdvances ==
    ASSUME TypeOK, NEW p \in Runners, proc[p].idx \in Tasks, Advance(p)
    PROVE  Advances(p)
<1>1. proc \in [Runners -> Process] /\ "loop" \in Inside
    BY DEF TypeOK, Inside, Guarded
<1>2. proc[p].idx + 1 \in 1..(NumTasks + 1)
    BY RunControlAssumption DEF Tasks
<1> DEFINE new == [proc[p] EXCEPT !.pc = "loop", !.idx = @ + 1, !.started = FALSE]
<1>3. new \in Process
    BY <1>1, <1>2 DEF Process
<1>4. /\ new.pc = "loop" /\ new.idx = proc[p].idx + 1
      /\ new.err = proc[p].err /\ new.cancel = proc[p].cancel
    BY <1>1 DEF Process
<1>5. proc' = [proc EXCEPT ![p] = new]
    BY <1>1 DEF Advance
<1> HIDE DEF new
<1>6. QED
    BY <1>3, <1>4, <1>5, Replaces DEF Advances

LEMMA ProcessFields ==
    ASSUME TypeOK, NEW p \in Runners
    PROVE  /\ proc[p] \in Process
           /\ proc[p].idx \in 1..(NumTasks + 1)
           /\ proc[p].pc \in Steps
  BY DEF TypeOK, Process, Steps

(* Nothing the properties speak of changes but perhaps the lock, which is  *)
(* not the reset's.                                                        *)
Quiet ==
    /\ UNCHANGED <<control, rows, journal, reset, now>>
    /\ prepared' \subseteq Tasks
    /\ faults' \in 0..MaxFaults
    /\ lock' \in Runners \cup {"reset", None}
    /\ lock' = lock \/ lock # "reset"

LEMMA QuietKeeps ==
    ASSUME TypeOK, Shared, Quiet, proc' \in [Runners -> Process]
    PROVE  TypeOK' /\ Shared'
<1>1. TypeOK'
    BY DEF TypeOK, Quiet
<1>2. Shared'
    BY DEF Quiet, Shared, CompletionIsBacked, CurrentIsPending, SJournal, SRunning, SRetry, SReset,
           Unfinished
<1>3. QED
    BY <1>1, <1>2

(* The count of faults stays within its bound. *)
LEMMA FaultCounts == ASSUME TypeOK, FaultHappens PROVE faults' \in 0..MaxFaults
  BY RunControlAssumption DEF TypeOK, FaultHappens

(* What a step of p establishes: its own Local and what all share. *)
Keeps(p) == TypeOK' /\ Shared' /\ Local(p)' /\ Alone(p)

(* The control file of an unfinished run is written, nothing else. *)
Writes ==
    /\ UNCHANGED <<rows, journal, prepared, reset, now>>
    /\ control' \in Control
    /\ faults' \in 0..MaxFaults
    /\ lock' \in Runners \cup {"reset", None}
    /\ lock' = lock \/ lock # "reset"

(* ... and neither its status nor its current task. *)
SameStatus == control'.status = control.status /\ control'.current = control.current

(* What a write must respect: the done tasks are backed, and the status is *)
(* not set to running while another task's journal is pending.             *)
LEMMA WritesKeep ==
    ASSUME TypeOK, Shared, Unfinished, Writes, proc' \in [Runners -> Process],
           control'.status # "completed",
           control.done \subseteq control'.done,
           \A t \in control'.done : rows[t] = "completed",
           control'.status = "running" =>
               \/ journal = None
               \/ control.status = "running" /\ control'.current = control.current
    PROVE  TypeOK' /\ Shared'
<1>1. TypeOK'
    BY DEF TypeOK, Writes
<1>2. control' # None /\ Unfinished'
    BY NoneAssumption DEF Writes, Unfinished
<1>3. CompletionIsBacked' /\ CurrentIsPending'
    BY <1>2 DEF Writes, Shared, CompletionIsBacked, CurrentIsPending, Unfinished
<1>4. SJournal' /\ SRunning' /\ SRetry' /\ SReset'
    BY <1>2 DEF Writes, Shared, SJournal, SRunning, SRetry, SReset, Unfinished
<1>5. QED
    BY <1>1, <1>3, <1>4 DEF Shared

(* The two transactions many steps share. *)
LEMMA PauseWrites ==
    ASSUME TypeOK, control # None, PauseRun
    PROVE  /\ control' \in Control /\ control'.status = "paused"
           /\ control'.done = control.done /\ control'.retry = control.retry
  BY DEF TypeOK, PauseRun, Control, Statuses

LEMMA FinishWrites ==
    ASSUME TypeOK, control # None, NEW t \in Tasks, FinishTask(t)
    PROVE  /\ control' \in Control /\ control'.status = control.status
           /\ control'.done = control.done \cup {t} /\ control'.retry = control.retry
  BY DEF TypeOK, FinishTask, Control

(* The arithmetic of the selection and of the clock. *)
LEMMA TaskOrder ==
    /\ 1 \in 1..(NumTasks + 1)
    /\ \A t \in Tasks : ~(t < 1)
    /\ \A t \in Tasks : t \in 1..(NumTasks + 1)
    /\ \A i \in 1..(NumTasks + 1), t \in Tasks : t < i + 1 => t < i \/ t = i
  BY RunControlAssumption DEF Tasks

LEMMA ClockIsNat == ASSUME TypeOK PROVE 0 \in Time /\ 0 <= now
  BY RunControlAssumption DEF TypeOK, Time

(* Looks at the shared state that change nothing but the place of p. *)
LEMMA QuietSteps ==
    ASSUME IInv, NEW p \in Runners,
           Health(p) \/ NothingToRecover(p) \/ RecoveryDeferred(p) \/ RefuseRunning(p) \/
             TaskPrepared(p) \/ Close(p) \/ Proof(p)
    PROVE  Keeps(p)
<1> USE NoneAssumption
<1>0. TypeOK /\ Shared /\ Local(p)
    BY DEF IInv
<1>1. proc[p] \in Process /\ proc[p].idx \in 1..(NumTasks + 1)
    BY <1>0, ProcessFields
<1>2. prepared \subseteq Tasks /\ lock \in Runners \cup {"reset", None} /\ faults \in 0..MaxFaults
    BY <1>0 DEF TypeOK
<1>3. Quiet /\ Alone(p) => TypeOK' /\ Shared'
    BY <1>0, QuietKeeps DEF Alone
<1> USE DEF Local, LSelf, LFile, LWork, LLock, LFresh, LTask, LError, LRate, LCreate, LBegun,
            LActive, LRetry, LUndone, LOrder, LNext, LCurrent, LCancel, LNoJournal, LJournal, LRow,
            Ongoing, Unfinished, Idle, Begun, Undone, InTask, InLoop, Active, Thrown, Inside,
            Guarded, Awaits, Chat
<1>4. ASSUME Health(p) PROVE Keeps(p)
  <2>1. proc[p].pc = "health" /\ Moves(p, "probe")
    BY <1>4, <1>0, <1>1, GotoMoves DEF Health, At, Steps, Before
  <2>2. Quiet
    BY <1>4, <1>0, <1>1, <1>2 DEF Health, Quiet, work
  <2>3. UNCHANGED <<control, rows, journal, now, lock>>
    BY <1>4 DEF Health, work
  <2>4. Local(p)'
    BY <1>0, <2>1, <2>3 DEF Moves, Throws
  <2>5. QED
    BY <1>3, <2>1, <2>2, <2>4 DEF Keeps, Moves, Throws, Alone
<1>5. ASSUME NothingToRecover(p) PROVE Keeps(p)
  <2>1. proc[p].pc = "recover" /\ journal = None /\ Moves(p, "confirm")
    BY <1>5, <1>0, <1>1, GotoMoves DEF NothingToRecover, At, Steps, Before
  <2>2. Quiet
    BY <1>5, <1>0, <1>1, <1>2 DEF NothingToRecover, Quiet, work
  <2>3. UNCHANGED <<control, rows, journal, now, lock>>
    BY <1>5 DEF NothingToRecover, work
  <2>4. Local(p)'
    BY <1>0, <2>1, <2>3 DEF Moves, Throws
  <2>5. QED
    BY <1>3, <2>1, <2>2, <2>4 DEF Keeps, Moves, Throws, Alone
<1>6. ASSUME RecoveryDeferred(p) PROVE Keeps(p)
  <2>1. /\ proc[p].pc = "recover" /\ journal # None /\ journal.retry > now
        /\ Throws(p, "rate", "raise")
    BY <1>6, <1>0, <1>1, ThrowThrows DEF RecoveryDeferred, At, Steps, Before
  <2>2. Quiet
    BY <1>6, <1>0, <1>1, <1>2 DEF RecoveryDeferred, Quiet, work
  <2>3. UNCHANGED <<control, rows, journal, now, lock>>
    BY <1>6 DEF RecoveryDeferred, work
  <2>4. Local(p)'
    BY <1>0, <2>1, <2>3 DEF Moves, Throws
  <2>5. QED
    BY <1>3, <2>1, <2>2, <2>4 DEF Keeps, Moves, Throws, Alone
<1>7. ASSUME RefuseRunning(p) PROVE Keeps(p)
  <2>1. proc[p].pc = "get_row" /\ Throws(p, "other", "raise")
    BY <1>7, <1>0, <1>1, ThrowThrows DEF RefuseRunning, At, Steps, Before
  <2>2. Quiet
    BY <1>7, <1>0, <1>1, <1>2 DEF RefuseRunning, Quiet, work
  <2>3. UNCHANGED <<control, rows, journal, now, lock>>
    BY <1>7 DEF RefuseRunning, work
  <2>4. Local(p)'
    BY <1>0, <2>1, <2>3 DEF Moves, Throws
  <2>5. QED
    BY <1>3, <2>1, <2>2, <2>4 DEF Keeps, Moves, Throws, Alone
<1>8. ASSUME TaskPrepared(p) PROVE Keeps(p)
  <2>1. proc[p].pc = "preparing" /\ Moves(p, "attempt")
    BY <1>8, <1>0, TaskPreparedMoves DEF TaskPrepared, At
  <2>2. Quiet
    BY <1>8, <1>0, <1>1, <1>2 DEF TaskPrepared, Quiet, work
  <2>3. UNCHANGED <<control, rows, journal, now, lock>>
    BY <1>8 DEF TaskPrepared, work
  <2>4. Local(p)'
    BY <1>0, <2>1, <2>3 DEF Moves, Throws
  <2>5. QED
    BY <1>3, <2>1, <2>2, <2>4 DEF Keeps, Moves, Throws, Alone
<1>9. ASSUME Close(p) PROVE Keeps(p)
  <2>1. /\ proc[p].pc = "closing"
        /\ Moves(p, IF proc[p].err = "none" THEN "final" ELSE "incident")
    BY <1>9, <1>0, <1>1, GotoMoves DEF Close, At, Steps, Before
  <2>2. Quiet
    BY <1>9, <1>0, <1>1, <1>2 DEF Close, Quiet, work
  <2>3. UNCHANGED <<control, rows, journal, now, lock>>
    BY <1>9 DEF Close, work
  <2>4. Local(p)'
    BY <1>0, <2>1, <2>3 DEF Moves, Throws
  <2>5. QED
    BY <1>3, <2>1, <2>2, <2>4 DEF Keeps, Moves, Throws, Alone
<1>10. ASSUME Proof(p) PROVE Keeps(p)
  <2>1. /\ proc[p].pc = "proof"
        /\ Moves(p, "recheck") \/ Throws(p, "other", "incident")
    BY <1>10, <1>0, <1>1, GotoMoves, ThrowThrows DEF Proof, At, Steps, Before
  <2>2. Quiet
    BY <1>10, <1>0, <1>1, <1>2 DEF Proof, Quiet, work
  <2>3. UNCHANGED <<control, rows, journal, now, lock>>
    BY <1>10 DEF Proof, work
  <2>4. Local(p)'
    BY <1>0, <2>1, <2>3 DEF Moves, Throws
  <2>5. QED
    BY <1>3, <2>1, <2>2, <2>4 DEF Keeps, Moves, Throws, Alone
<1>11. QED
    BY <1>4, <1>5, <1>6, <1>7, <1>8, <1>9, <1>10

(* Failures that change nothing else. *)
LEMMA QuietFailures ==
    ASSUME IInv, NEW p \in Runners,
           RequestFails(p) \/ PreparationFails(p) \/ HandlerFails(p) \/ ReconcileFails(p) \/
             ProofFails(p)
    PROVE  Keeps(p)
<1> USE NoneAssumption
<1>0. TypeOK /\ Shared /\ Local(p)
    BY DEF IInv
<1>1. proc[p] \in Process /\ proc[p].idx \in 1..(NumTasks + 1)
    BY <1>0, ProcessFields
<1>2. prepared \subseteq Tasks /\ lock \in Runners \cup {"reset", None} /\ faults \in 0..MaxFaults
    BY <1>0 DEF TypeOK
<1>3. Quiet /\ Alone(p) => TypeOK' /\ Shared'
    BY <1>0, QuietKeeps DEF Alone
<1> USE DEF Local, LSelf, LFile, LWork, LLock, LFresh, LTask, LError, LRate, LCreate, LBegun,
            LActive, LRetry, LUndone, LOrder, LNext, LCurrent, LCancel, LNoJournal, LJournal, LRow,
            Ongoing, Unfinished, Idle, Begun, Undone, InTask, InLoop, Active, Thrown, Inside,
            Guarded, Awaits, Chat
<1>4. ASSUME RequestFails(p) PROVE Keeps(p)
  <2>1. /\ proc[p].pc \in {"health", "recovered", "get_row", "cleanup", "after"}
        /\ \E e \in {"cancel", "rate", "other"} :
              Throws(p, e, "raise") /\ (e = proc[p].err \/ e = "other")
    BY <1>4, <1>0, <1>1, ThrowThrows DEF RequestFails, At, Steps, Before, Process
  <2>2. Quiet
    BY <1>4, <1>0, <1>1, <1>2, FaultCounts DEF RequestFails, Quiet, work
  <2>3. UNCHANGED <<control, rows, journal, now, lock>>
    BY <1>4 DEF RequestFails, work
  <2>4. Local(p)'
    BY <1>0, <2>1, <2>3 DEF Moves, Throws
  <2>5. QED
    BY <1>3, <2>1, <2>2, <2>4 DEF Keeps, Moves, Throws, Alone
<1>5. ASSUME PreparationFails(p) PROVE Keeps(p)
  <2>1. /\ proc[p].pc = "preparing"
        /\ \E e \in {"rate", "other"} : Throws(p, e, "handler") /\ Throwable(e)
    BY <1>5, <1>0, <1>1, ThrowThrows DEF PreparationFails, At, Steps, Before
  <2>2. Quiet
    BY <1>5, <1>0, <1>1, <1>2, FaultCounts DEF PreparationFails, Quiet, work
  <2>3. UNCHANGED <<control, rows, journal, now, lock>>
    BY <1>5 DEF PreparationFails, work
  <2>4. Local(p)'
    BY <1>0, <2>1, <2>3 DEF Moves, Throws, Throwable
  <2>5. QED
    BY <1>3, <2>1, <2>2, <2>4 DEF Keeps, Moves, Throws, Alone
<1>6. ASSUME HandlerFails(p) PROVE Keeps(p)
  <2>1. /\ proc[p].pc \in {"handler", "record", "recorded"}
        /\ Throws(p, "other", "cleanup")
    BY <1>6, <1>0, <1>1 DEF HandlerFails, At, Steps, Before, TypeOK, Process, Alone, Throws
  <2>2. Quiet
    BY <1>6, <1>0, <1>1, <1>2, FaultCounts DEF HandlerFails, Quiet, work
  <2>3. UNCHANGED <<control, rows, journal, now, lock>>
    BY <1>6 DEF HandlerFails, work
  <2>4. Local(p)'
    BY <1>0, <2>1, <2>3 DEF Moves, Throws
  <2>5. QED
    BY <1>3, <2>1, <2>2, <2>4 DEF Keeps, Moves, Throws, Alone
<1>7. ASSUME ReconcileFails(p) PROVE Keeps(p)
  <2>1. /\ proc[p].pc = "reconciling"
        /\ \E e \in {"rate", "other"} : Throws(p, e, "cleanup") /\ Throwable(e)
    BY <1>7, <1>0, <1>1 DEF ReconcileFails, At, Steps, Before, TypeOK, Process, Alone, Throws
  <2>2. Quiet
    BY <1>7, <1>0, <1>1, <1>2, FaultCounts DEF ReconcileFails, Quiet, work
  <2>3. UNCHANGED <<control, rows, journal, now, lock>>
    BY <1>7 DEF ReconcileFails, work
  <2>4. Local(p)'
    BY <1>0, <2>1, <2>3 DEF Moves, Throws, Throwable
  <2>5. QED
    BY <1>3, <2>1, <2>2, <2>4 DEF Keeps, Moves, Throws, Alone
<1>8. ASSUME ProofFails(p) PROVE Keeps(p)
  <2>1. proc[p].pc = "proof" /\ Throws(p, "other", "incident")
    BY <1>8, <1>0, <1>1, ThrowThrows DEF ProofFails, At, Steps, Before
  <2>2. Quiet
    BY <1>8, <1>0, <1>1, <1>2, FaultCounts DEF ProofFails, Quiet, work
  <2>3. UNCHANGED <<control, rows, journal, now, lock>>
    BY <1>8 DEF ProofFails, work
  <2>4. Local(p)'
    BY <1>0, <2>1, <2>3 DEF Moves, Throws
  <2>5. QED
    BY <1>3, <2>1, <2>2, <2>4 DEF Keeps, Moves, Throws, Alone
<1>9. QED
    BY <1>4, <1>5, <1>6, <1>7, <1>8

(* A cancellation is delivered at an await and goes where the code goes. *)
LEMMA CancelledMoves ==
    ASSUME TypeOK, NEW p \in Runners, Cancelled(p)
    PROVE  /\ proc[p].pc \in Awaits /\ proc[p].cancel /\ Alone(p)
           /\ proc'[p].pc = CancelTarget(proc[p].pc)
           /\ proc'[p].idx = proc[p].idx /\ proc'[p].err = "cancel" /\ ~proc'[p].cancel
<1>1. proc \in [Runners -> Process] /\ proc[p].pc \in Awaits /\ proc[p].cancel
    BY DEF TypeOK, Cancelled
<1>2. CancelTarget(proc[p].pc) \in {"handler", "cleanup", "raise", "incident"}
    BY <1>1 DEF CancelTarget, Awaits, Chat
<1>3. {"handler", "cleanup", "raise", "incident"} \subseteq Inside
    BY DEF Inside, Guarded, Awaits
<1>4. proc' = [proc EXCEPT ![p].cancel = FALSE, ![p].err = "cancel", ![p].pc = CancelTarget(@),
                           ![p].keep = @ \/ At(p, "reconciling")]
    BY DEF Cancelled
<1> DEFINE new == [proc[p] EXCEPT !.cancel = FALSE, !.err = "cancel", !.pc = CancelTarget(@),
                                  !.keep = @ \/ At(p, "reconciling")]
<1>5. new \in Process
    BY <1>1, <1>2, <1>3 DEF Process, At
<1>6. /\ new.pc = CancelTarget(proc[p].pc) /\ new.idx = proc[p].idx
      /\ new.err = "cancel" /\ ~new.cancel
    BY <1>1 DEF Process
<1>7. proc' = [proc EXCEPT ![p] = new]
    BY <1>1, <1>4
<1> HIDE DEF new
<1>8. QED
    BY <1>1, <1>5, <1>6, <1>7, Replaces

(* Steps that touch the adapter's state, and the ends of an await. *)
LEMMA QuietTasks ==
    ASSUME IInv, NEW p \in Runners,
           PrepareTask(p) \/ RecoveryCleaned(p) \/ CleanupTask(p) \/ Cancelled(p) \/ Watch(p)
    PROVE  Keeps(p)
<1> USE NoneAssumption
<1>0. TypeOK /\ Shared /\ Local(p)
    BY DEF IInv
<1>1. proc[p] \in Process /\ proc[p].idx \in 1..(NumTasks + 1)
    BY <1>0, ProcessFields
<1>2. prepared \subseteq Tasks /\ lock \in Runners \cup {"reset", None} /\ faults \in 0..MaxFaults
    BY <1>0 DEF TypeOK
<1>3. Quiet /\ Alone(p) => TypeOK' /\ Shared'
    BY <1>0, QuietKeeps DEF Alone
<1> USE DEF Local, LSelf, LFile, LWork, LLock, LFresh, LTask, LError, LRate, LCreate, LBegun,
            LActive, LRetry, LUndone, LOrder, LNext, LCurrent, LCancel, LNoJournal, LJournal, LRow,
            Ongoing, Unfinished, Idle, Begun, Undone, InTask, InLoop, Active, Thrown, Inside,
            Guarded, Awaits, Chat
<1>4. ASSUME PrepareTask(p) PROVE Keeps(p)
  <2>1. /\ proc[p].pc = "get_row" /\ Moves(p, "preparing")
        /\ rows[proc[p].idx] # "running"
    BY <1>4, <1>0, <1>1, GotoMoves DEF PrepareTask, At, Steps, Before, Task
  <2>2. Quiet
    BY <1>4, <1>0, <1>1, <1>2 DEF PrepareTask, Quiet, work, Task, At
  <2>3. UNCHANGED <<control, rows, journal, now, lock>>
    BY <1>4 DEF PrepareTask, work
  <2>4. Local(p)'
    BY <1>0, <2>1, <2>3 DEF Moves, Throws
  <2>5. QED
    BY <1>3, <2>1, <2>2, <2>4 DEF Keeps, Moves, Throws, Alone
<1>5. ASSUME RecoveryCleaned(p) PROVE Keeps(p)
  <2>1. /\ proc[p].pc = "recovered"
        /\ Moves(p, IF proc[p].err = "none" THEN "confirm" ELSE "raise")
    BY <1>5, <1>0, <1>1, GotoMoves DEF RecoveryCleaned, At, Steps, Before
  <2>2. Quiet
    BY <1>5, <1>0, <1>1, <1>2 DEF RecoveryCleaned, Quiet, work
  <2>3. UNCHANGED <<control, rows, journal, now, lock>>
    BY <1>5 DEF RecoveryCleaned, work
  <2>4. Local(p)'
    BY <1>0, <2>1, <2>3 DEF Moves, Throws
  <2>5. QED
    BY <1>3, <2>1, <2>2, <2>4 DEF Keeps, Moves, Throws, Alone
<1>6. ASSUME CleanupTask(p) PROVE Keeps(p)
  <2>1. /\ proc[p].pc = "cleanup"
        /\ Moves(p, IF proc[p].err = "none" THEN "after" ELSE "raise")
    BY <1>6, <1>0, <1>1, GotoMoves DEF CleanupTask, At, Steps, Before
  <2>2. Quiet
    BY <1>6, <1>0, <1>1, <1>2 DEF CleanupTask, Quiet, work
  <2>3. UNCHANGED <<control, rows, journal, now, lock>>
    BY <1>6 DEF CleanupTask, work
  <2>4. Local(p)'
    BY <1>0, <2>1, <2>3 DEF Moves, Throws
  <2>5. QED
    BY <1>3, <2>1, <2>2, <2>4 DEF Keeps, Moves, Throws, Alone
<1>7. ASSUME Cancelled(p) PROVE Keeps(p)
  <2>1. /\ proc[p].pc \in Awaits /\ proc[p].cancel /\ Alone(p)
        /\ proc'[p].pc = CancelTarget(proc[p].pc)
        /\ proc'[p].idx = proc[p].idx /\ proc'[p].err = "cancel" /\ ~proc'[p].cancel
    BY <1>7, <1>0, CancelledMoves
  <2>2. Quiet
    BY <1>7, <1>0, <1>1, <1>2 DEF Cancelled, Quiet, work
  <2>3. UNCHANGED <<control, rows, journal, now, lock>>
    BY <1>7 DEF Cancelled, work
  <2>4. Local(p)'
    BY <1>0, <2>1, <2>3 DEF Moves, Throws, CancelTarget
  <2>5. QED
    BY <1>3, <2>1, <2>2, <2>4 DEF Keeps, Moves, Throws, Alone
<1>8. ASSUME Watch(p) PROVE Keeps(p)
  <2>1. /\ proc[p].pc \in Awaits /\ Alone(p)
        /\ proc'[p].pc = proc[p].pc /\ proc'[p].idx = proc[p].idx /\ proc'[p].err = proc[p].err
        /\ proc'[p].cancel \in BOOLEAN /\ control.status \notin {"running", "resuming"}
    BY <1>8, <1>0, WatchStays DEF Watch
  <2>2. Quiet
    BY <1>8, <1>0, <1>1, <1>2 DEF Watch, Quiet, work
  <2>3. UNCHANGED <<control, rows, journal, now, lock>>
    BY <1>8 DEF Watch, work
  <2>4. Local(p)'
    BY <1>0, <2>1, <2>3 DEF Moves, Throws
  <2>5. QED
    BY <1>3, <2>1, <2>2, <2>4 DEF Keeps, Moves, Throws, Alone
<1>9. QED
    BY <1>4, <1>5, <1>6, <1>7, <1>8

(* The exception handler where it writes nothing. *)
LEMMA QuietHandler ==
    ASSUME IInv, NEW p \in Runners,
           HandlePause(p) \/ HandleCommitted(p) \/ HandleRecoverable(p) \/ HandleFailed(p)
    PROVE  Keeps(p)
<1> USE NoneAssumption
<1>0. TypeOK /\ Shared /\ Local(p)
    BY DEF IInv
<1>1. proc[p] \in Process /\ proc[p].idx \in 1..(NumTasks + 1)
    BY <1>0, ProcessFields
<1>2. prepared \subseteq Tasks /\ lock \in Runners \cup {"reset", None} /\ faults \in 0..MaxFaults
    BY <1>0 DEF TypeOK
<1>3. Quiet /\ Alone(p) => TypeOK' /\ Shared'
    BY <1>0, QuietKeeps DEF Alone
<1> USE DEF Local, LSelf, LFile, LWork, LLock, LFresh, LTask, LError, LRate, LCreate, LBegun,
            LActive, LRetry, LUndone, LOrder, LNext, LCurrent, LCancel, LNoJournal, LJournal, LRow,
            Ongoing, Unfinished, Idle, Begun, Undone, InTask, InLoop, Active, Thrown, Inside,
            Guarded, Awaits, Chat
<1>4. ASSUME HandlePause(p) PROVE Keeps(p)
  <2>1. proc[p].pc = "handler" /\ Moves(p, "cleanup")
    <3>1. Recoverable(p) \in BOOLEAN
      BY DEF Recoverable
    <3>2. QED
      BY <1>4, <1>0, <3>1, CleanupMoves DEF HandlePause, HandlerGets, At
  <2>2. Quiet
    BY <1>4, <1>0, <1>1, <1>2 DEF HandlePause, Quiet, work, HandlerGets, Cleanup, Recoverable,
       Pending, Task
  <2>3. UNCHANGED <<control, rows, journal, now, lock>>
    BY <1>4 DEF HandlePause, work, HandlerGets, Cleanup, Recoverable, Pending, Task
  <2>4. Local(p)'
    BY <1>0, <2>1, <2>3 DEF Moves, Throws
  <2>5. QED
    BY <1>3, <2>1, <2>2, <2>4 DEF Keeps, Moves, Throws, Alone
<1>5. ASSUME HandleCommitted(p) PROVE Keeps(p)
  <2>1. proc[p].pc = "handler" /\ Moves(p, "reconciling") /\ rows[proc[p].idx] = "completed"
    BY <1>5, <1>0, <1>1, GotoMoves DEF HandleCommitted, At, Steps, Before, HandlerGets, Cleanup,
       Recoverable, Pending, Task, Committed
  <2>2. Quiet
    BY <1>5, <1>0, <1>1, <1>2 DEF HandleCommitted, Quiet, work, HandlerGets, Cleanup, Recoverable,
       Pending, Task
  <2>3. UNCHANGED <<control, rows, journal, now, lock>>
    BY <1>5 DEF HandleCommitted, work, HandlerGets, Cleanup, Recoverable, Pending, Task
  <2>4. Local(p)'
    BY <1>0, <2>1, <2>3 DEF Moves, Throws
  <2>5. QED
    BY <1>3, <2>1, <2>2, <2>4 DEF Keeps, Moves, Throws, Alone
<1>6. ASSUME HandleRecoverable(p) PROVE Keeps(p)
  <2>1. proc[p].pc = "handler" /\ Moves(p, "cleanup")
    BY <1>6, <1>0, CleanupMoves DEF HandleRecoverable, HandlerGets, At
  <2>2. Quiet
    BY <1>6, <1>0, <1>1, <1>2 DEF HandleRecoverable, Quiet, work, HandlerGets, Cleanup,
       Recoverable, Pending, Task
  <2>3. UNCHANGED <<control, rows, journal, now, lock>>
    BY <1>6 DEF HandleRecoverable, work, HandlerGets, Cleanup, Recoverable, Pending, Task
  <2>4. Local(p)'
    BY <1>0, <2>1, <2>3 DEF Moves, Throws
  <2>5. QED
    BY <1>3, <2>1, <2>2, <2>4 DEF Keeps, Moves, Throws, Alone
<1>7. ASSUME HandleFailed(p) PROVE Keeps(p)
  <2>1. /\ proc[p].pc = "handler"
        /\ Moves(p, "cleanup") \/ Moves(p, "record")
        /\ rows[proc[p].idx] # "running"
        /\ journal = None \/ journal.task # proc[p].idx
    BY <1>7, <1>0, CleanupMoves, GotoMoves DEF HandleFailed, HandlerGets, At, Recoverable, Pending,
       Task, Steps
  <2>2. Quiet
    BY <1>7, <1>0, <1>1, <1>2 DEF HandleFailed, Quiet, work, HandlerGets, Cleanup, Recoverable,
       Pending, Task
  <2>3. UNCHANGED <<control, rows, journal, now, lock>>
    BY <1>7 DEF HandleFailed, work, HandlerGets, Cleanup, Recoverable, Pending, Task
  <2>4. Local(p)'
    BY <1>0, <2>1, <2>3 DEF Moves, Throws
  <2>5. QED
    BY <1>3, <2>1, <2>2, <2>4 DEF Keeps, Moves, Throws, Alone
<1>8. QED
    BY <1>4, <1>5, <1>6, <1>7

(* Taking the lock, not getting it, and dying. *)
LEMMA QuietInvocations ==
    ASSUME IInv, NEW p \in Runners,
           RunInvoked(p) \/ ResumeInvoked(p) \/ RunLocked(p) \/ ResumeLocked(p) \/
             InvocationRefused(p) \/ PreflightFails(p) \/ Kill(p)
    PROVE  Keeps(p)
<1> USE NoneAssumption
<1>0. TypeOK /\ Shared /\ Local(p)
    BY DEF IInv
<1>1. proc[p] \in Process /\ proc[p].idx \in 1..(NumTasks + 1)
    BY <1>0, ProcessFields
<1>2. prepared \subseteq Tasks /\ lock \in Runners \cup {"reset", None} /\ faults \in 0..MaxFaults
    BY <1>0 DEF TypeOK
<1>3. Quiet /\ Alone(p) => TypeOK' /\ Shared'
    BY <1>0, QuietKeeps DEF Alone
<1> USE DEF Local, LSelf, LFile, LWork, LLock, LFresh, LTask, LError, LRate, LCreate, LBegun,
            LActive, LRetry, LUndone, LOrder, LNext, LCurrent, LCancel, LNoJournal, LJournal, LRow,
            Ongoing, Unfinished, Idle, Begun, Undone, InTask, InLoop, Active, Thrown, Inside,
            Guarded, Awaits, Chat
<1>4. ASSUME RunInvoked(p) PROVE Keeps(p)
  <2>1. proc[p].pc = "off" /\ Moves(p, "run_lock")
    BY <1>4, <1>0, <1>1, GotoMoves DEF RunInvoked, At, Steps, Before
  <2>2. Quiet
    BY <1>4, <1>0, <1>1, <1>2 DEF RunInvoked, Quiet, work
  <2>3. UNCHANGED <<control, rows, journal, now, lock>>
    BY <1>4 DEF RunInvoked, work
  <2>4. Local(p)'
    BY <1>0, <2>1, <2>3 DEF Moves, Throws
  <2>5. QED
    BY <1>3, <2>1, <2>2, <2>4 DEF Keeps, Moves, Throws, Alone
<1>5. ASSUME ResumeInvoked(p) PROVE Keeps(p)
  <2>1. proc[p].pc = "off" /\ Moves(p, "resume_lock")
    BY <1>5, <1>0, <1>1, GotoMoves DEF ResumeInvoked, At, Steps, Before
  <2>2. Quiet
    BY <1>5, <1>0, <1>1, <1>2 DEF ResumeInvoked, Quiet, work
  <2>3. UNCHANGED <<control, rows, journal, now, lock>>
    BY <1>5 DEF ResumeInvoked, work
  <2>4. Local(p)'
    BY <1>0, <2>1, <2>3 DEF Moves, Throws
  <2>5. QED
    BY <1>3, <2>1, <2>2, <2>4 DEF Keeps, Moves, Throws, Alone
<1>6. ASSUME RunLocked(p) PROVE Keeps(p)
  <2>1. proc[p].pc = "run_lock" /\ Moves(p, "create") /\ lock = None /\ lock' = p /\ ~Unfinished
    BY <1>6, <1>0, <1>1, GotoMoves DEF RunLocked, At, Steps, Before
  <2>2. Quiet
    BY <1>6, <1>0, <1>1, <1>2, NoneAssumption DEF RunLocked, Quiet, work
  <2>3. UNCHANGED <<control, rows, journal, now>>
    BY <1>6 DEF RunLocked, work
  <2>4. Local(p)'
    BY <1>0, <2>1, <2>3 DEF Moves, Throws
  <2>5. QED
    BY <1>3, <2>1, <2>2, <2>4 DEF Keeps, Moves, Throws, Alone
<1>7. ASSUME ResumeLocked(p) PROVE Keeps(p)
  <2>1. /\ proc[p].pc = "resume_lock" /\ Moves(p, "begin") /\ lock = None /\ lock' = p /\ Unfinished
        /\ control.retry <= now
    BY <1>7, <1>0, <1>1, GotoMoves DEF ResumeLocked, At, Steps, Before
  <2>2. Quiet
    BY <1>7, <1>0, <1>1, <1>2, NoneAssumption DEF ResumeLocked, Quiet, work
  <2>3. UNCHANGED <<control, rows, journal, now>>
    BY <1>7 DEF ResumeLocked, work
  <2>4. Local(p)'
    BY <1>0, <2>1, <2>3 DEF Moves, Throws
  <2>5. QED
    BY <1>3, <2>1, <2>2, <2>4 DEF Keeps, Moves, Throws, Alone
<1>8. ASSUME InvocationRefused(p) PROVE Keeps(p)
  <2>1. Ends(p)
    BY <1>8, <1>0, <1>1, LeaveEnds DEF InvocationRefused, At, Steps, Before
  <2>2. Quiet
    BY <1>8, <1>0, <1>1, <1>2, NoneAssumption DEF InvocationRefused, Quiet, work, Leave
  <2>3. UNCHANGED <<control, rows, journal, now>>
    BY <1>8 DEF InvocationRefused, work
  <2>4. Local(p)'
    BY <1>0, <2>1, <2>3 DEF Moves, Throws, Ends
  <2>5. QED
    BY <1>3, <2>1, <2>2, <2>4 DEF Keeps, Moves, Throws, Alone, Ends
<1>9. ASSUME PreflightFails(p) PROVE Keeps(p)
  <2>1. Ends(p)
    BY <1>9, <1>0, <1>1, LeaveEnds DEF PreflightFails, At, Steps, Before
  <2>2. Quiet
    BY <1>9, <1>0, <1>1, <1>2, NoneAssumption, FaultCounts DEF PreflightFails, Quiet, work, Leave
  <2>3. UNCHANGED <<control, rows, journal, now>>
    BY <1>9 DEF PreflightFails, work
  <2>4. Local(p)'
    BY <1>0, <2>1, <2>3 DEF Moves, Throws, Ends
  <2>5. QED
    BY <1>3, <2>1, <2>2, <2>4 DEF Keeps, Moves, Throws, Alone, Ends
<1>10. ASSUME Kill(p) PROVE Keeps(p)
  <2>1. Ends(p)
    BY <1>10, <1>0, <1>1, LeaveEnds DEF Kill, At, Steps, Before
  <2>2. Quiet
    BY <1>10, <1>0, <1>1, <1>2, NoneAssumption, FaultCounts DEF Kill, Quiet, work, Leave
  <2>3. UNCHANGED <<control, rows, journal, now>>
    BY <1>10 DEF Kill, work
  <2>4. Local(p)'
    BY <1>0, <2>1, <2>3 DEF Moves, Throws, Ends
  <2>5. QED
    BY <1>3, <2>1, <2>2, <2>4 DEF Keeps, Moves, Throws, Alone, Ends
<1>11. QED
    BY <1>4, <1>5, <1>6, <1>7, <1>8, <1>9, <1>10

(* Steps that may pause the run, and the ends of a process. *)
LEMMA PausingSteps ==
    ASSUME IInv, NEW p \in Runners,
           Probe(p) \/ CheckStarted(p) \/ Raise(p) \/ Recheck(p) \/ Final(p) \/
             CancelledIncident(p) \/ Intervention(p) \/ PauseRateLimited(p)
    PROVE  Keeps(p)
<1>0. TypeOK /\ Shared /\ Local(p)
    BY DEF IInv
<1>1. proc[p] \in Process /\ proc[p].idx \in 1..(NumTasks + 1)
    BY <1>0, ProcessFields
<1>2. lock \in Runners \cup {"reset", None} /\ faults \in 0..MaxFaults
    BY <1>0 DEF TypeOK
<1> USE DEF Local, SameStatus, LSelf, LFile, LWork, LLock, LFresh, LTask, LError, LRate, LCreate,
            LBegun, LActive, LRetry, LUndone, LOrder, LNext, LCurrent, LCancel, LNoJournal,
            LJournal, LRow,
            Ongoing, Unfinished, Idle, Begun, Undone, InTask, InLoop, Active, Thrown, Inside,
            Guarded, Awaits, Chat
<1>3. ASSUME Probe(p) PROVE Keeps(p)
  <2>1. proc[p].pc = "probe" /\ Unfinished /\ control \in Control
    BY <1>3, <1>0 DEF Probe, At, TypeOK
  <2>2. /\ control' \in Control
        /\ control'.done = control.done /\ control'.retry = control.retry
        /\ lock' = lock
        /\ \/ Moves(p, "closing") /\ control'.status = "paused"
           \/ Moves(p, "recover") /\ SameStatus
    BY <1>3, <1>0, <1>1, <2>1, GotoMoves, PauseWrites DEF Probe, At, Steps, Before, Pausing, Task
  <2>3. Writes
    BY <1>3, <1>0, <1>2, <2>2, NoneAssumption DEF Probe, Writes, work
  <2>4. control' # None /\ UNCHANGED <<rows, journal, now>>
    BY <1>3, <2>3, NoneAssumption DEF Writes
  <2>5. TypeOK' /\ Shared'
    BY <1>0, <2>1, <2>2, <2>3, WritesKeep DEF Shared, CompletionIsBacked, CurrentIsPending, Moves,
       Throws, Advances, Ends, Alone
  <2>6. Local(p)'
    BY <1>0, <2>1, <2>2, <2>4 DEF Moves, Throws, Advances, Ends
  <2>7. QED
    BY <2>2, <2>5, <2>6 DEF Keeps, Moves, Throws, Advances, Ends, Alone
<1>4. ASSUME CheckStarted(p) PROVE Keeps(p)
  <2>1. proc[p].pc = "started" /\ Unfinished /\ control \in Control
    BY <1>4, <1>0 DEF CheckStarted, At, TypeOK
  <2>2. /\ control' \in Control
        /\ control'.done = control.done /\ control'.retry = control.retry
        /\ lock' = lock
        /\ \/ Moves(p, "closing") /\ control'.status = "paused"
           \/ Moves(p, "get_row") /\ SameStatus /\ control.status # "pause_requested"
    BY <1>4, <1>0, <1>1, <2>1, GotoMoves, PauseWrites DEF CheckStarted, At, Steps, Before, Pausing,
       Task
  <2>3. Writes
    BY <1>4, <1>0, <1>2, <2>2, NoneAssumption DEF CheckStarted, Writes, work
  <2>4. control' # None /\ UNCHANGED <<rows, journal, now>>
    BY <1>4, <2>3, NoneAssumption DEF Writes
  <2>5. TypeOK' /\ Shared'
    BY <1>0, <2>1, <2>2, <2>3, WritesKeep DEF Shared, CompletionIsBacked, CurrentIsPending, Moves,
       Throws, Advances, Ends, Alone
  <2>6. Local(p)'
    BY <1>0, <2>1, <2>2, <2>4 DEF Moves, Throws, Advances, Ends
  <2>7. QED
    BY <2>2, <2>5, <2>6 DEF Keeps, Moves, Throws, Advances, Ends, Alone
<1>5. ASSUME Raise(p) PROVE Keeps(p)
  <2>1. proc[p].pc = "raise" /\ Unfinished /\ control \in Control
    BY <1>5, <1>0 DEF Raise, At, TypeOK
  <2>2. /\ control' \in Control
        /\ control'.done = control.done /\ control'.retry = control.retry
        /\ lock' = lock
        /\ \/ Throws(p, "none", "closing") /\ control'.status = "paused"
           \/ Moves(p, "closing") /\ SameStatus
    BY <1>5, <1>0, <1>1, <2>1, GotoMoves, ThrowThrows, PauseWrites DEF Raise, At, Steps, Before,
       Pausing, Task
  <2>3. Writes
    BY <1>5, <1>0, <1>2, <2>2, NoneAssumption DEF Raise, Writes, work
  <2>4. control' # None /\ UNCHANGED <<rows, journal, now>>
    BY <1>5, <2>3, NoneAssumption DEF Writes
  <2>5. TypeOK' /\ Shared'
    BY <1>0, <2>1, <2>2, <2>3, WritesKeep DEF Shared, CompletionIsBacked, CurrentIsPending, Moves,
       Throws, Advances, Ends, Alone
  <2>6. Local(p)'
    BY <1>0, <2>1, <2>2, <2>4 DEF Moves, Throws, Advances, Ends
  <2>7. QED
    BY <2>2, <2>5, <2>6 DEF Keeps, Moves, Throws, Advances, Ends, Alone
<1>6. ASSUME Recheck(p) PROVE Keeps(p)
  <2>1. proc[p].pc = "recheck" /\ Unfinished /\ control \in Control
    BY <1>6, <1>0 DEF Recheck, At, TypeOK
  <2>2. /\ control' \in Control
        /\ control'.done = control.done /\ control'.retry = control.retry
        /\ \/ Ends(p) /\ control'.status = "paused"
           \/ Moves(p, "complete") /\ SameStatus /\ lock' = lock
    BY <1>6, <1>0, <1>1, <2>1, GotoMoves, PauseWrites, LeaveEnds DEF Recheck, At, Steps, Before,
       Pausing, Task
  <2>3. Writes
    BY <1>6, <1>0, <1>2, <2>2, NoneAssumption DEF Recheck, Writes, work, Ends
  <2>4. control' # None /\ UNCHANGED <<rows, journal, now>>
    BY <1>6, <2>3, NoneAssumption DEF Writes
  <2>5. TypeOK' /\ Shared'
    BY <1>0, <2>1, <2>2, <2>3, WritesKeep DEF Shared, CompletionIsBacked, CurrentIsPending, Moves,
       Throws, Advances, Ends, Alone
  <2>6. Local(p)'
    BY <1>0, <2>1, <2>2, <2>4 DEF Moves, Throws, Advances, Ends
  <2>7. QED
    BY <2>2, <2>5, <2>6 DEF Keeps, Moves, Throws, Advances, Ends, Alone
<1>7. ASSUME Final(p) PROVE Keeps(p)
  <2>1. proc[p].pc = "final" /\ Unfinished /\ control \in Control
    BY <1>7, <1>0 DEF Final, At, TypeOK
  <2>2. /\ control' \in Control
        /\ control'.done = control.done /\ control'.retry = control.retry
        /\ \/ Ends(p) /\ control'.status = "paused"
           \/ Ends(p) /\ SameStatus
           \/ /\ Moves(p, "proof") \/ Throws(p, "other", "incident")
              /\ SameStatus /\ lock' = lock /\ control.status \in {"running", "resuming"}
    BY <1>7, <1>0, <1>1, <2>1, GotoMoves, ThrowThrows, PauseWrites, LeaveEnds DEF Final, At, Steps,
       Before, Pausing, Task
  <2>3. Writes
    BY <1>7, <1>0, <1>2, <2>2, NoneAssumption DEF Final, Writes, work, Ends
  <2>4. control' # None /\ UNCHANGED <<rows, journal, now>>
    BY <1>7, <2>3, NoneAssumption DEF Writes
  <2>5. TypeOK' /\ Shared'
    BY <1>0, <2>1, <2>2, <2>3, WritesKeep DEF Shared, CompletionIsBacked, CurrentIsPending, Moves,
       Throws, Advances, Ends, Alone
  <2>6. Local(p)'
    BY <1>0, <2>1, <2>2, <2>4 DEF Moves, Throws, Advances, Ends
  <2>7. QED
    BY <2>2, <2>5, <2>6 DEF Keeps, Moves, Throws, Advances, Ends, Alone
<1>8. ASSUME CancelledIncident(p) PROVE Keeps(p)
  <2>1. proc[p].pc = "incident" /\ Unfinished /\ control \in Control
    BY <1>8, <1>0 DEF CancelledIncident, At, TypeOK
  <2>2. /\ control' \in Control
        /\ control'.done = control.done /\ control'.retry = control.retry
        /\ Ends(p)
        /\ \/ control'.status = "paused"
           \/ SameStatus
    BY <1>8, <1>0, <1>1, <2>1, PauseWrites, LeaveEnds DEF CancelledIncident, At, Steps, Before,
       Pausing, Task
  <2>3. Writes
    BY <1>8, <1>0, <1>2, <2>2, NoneAssumption DEF CancelledIncident, Writes, work, Ends
  <2>4. control' # None /\ UNCHANGED <<rows, journal, now>>
    BY <1>8, <2>3, NoneAssumption DEF Writes
  <2>5. TypeOK' /\ Shared'
    BY <1>0, <2>1, <2>2, <2>3, WritesKeep DEF Shared, CompletionIsBacked, CurrentIsPending, Moves,
       Throws, Advances, Ends, Alone
  <2>6. Local(p)'
    BY <1>0, <2>1, <2>2, <2>4 DEF Moves, Throws, Advances, Ends
  <2>7. QED
    BY <2>2, <2>5, <2>6 DEF Keeps, Moves, Throws, Advances, Ends, Alone
<1>9. ASSUME Intervention(p) PROVE Keeps(p)
  <2>1. proc[p].pc = "incident" /\ Unfinished /\ control \in Control
    BY <1>9, <1>0 DEF Intervention, At, TypeOK
  <2>2. /\ control' \in Control
        /\ control'.done = control.done /\ control'.retry = control.retry
        /\ Ends(p)
        /\ control'.status = "needs_intervention"
    BY <1>9, <1>0, <1>1, <2>1, LeaveEnds DEF Intervention, At, Steps, Before, Pausing, Task,
       Control, Statuses
  <2>3. Writes
    BY <1>9, <1>0, <1>2, <2>2, NoneAssumption DEF Intervention, Writes, work, Ends
  <2>4. control' # None /\ UNCHANGED <<rows, journal, now>>
    BY <1>9, <2>3, NoneAssumption DEF Writes
  <2>5. TypeOK' /\ Shared'
    BY <1>0, <2>1, <2>2, <2>3, WritesKeep DEF Shared, CompletionIsBacked, CurrentIsPending, Moves,
       Throws, Advances, Ends, Alone
  <2>6. Local(p)'
    BY <1>0, <2>1, <2>2, <2>4 DEF Moves, Throws, Advances, Ends
  <2>7. QED
    BY <2>2, <2>5, <2>6 DEF Keeps, Moves, Throws, Advances, Ends, Alone
<1>10. ASSUME PauseRateLimited(p) PROVE Keeps(p)
  <2>1. proc[p].pc = "rate_paused" /\ Unfinished /\ control \in Control
    BY <1>10, <1>0 DEF PauseRateLimited, At, TypeOK
  <2>2. /\ control' \in Control
        /\ control'.done = control.done /\ control'.retry = control.retry
        /\ Ends(p)
        /\ control'.status = "paused"
    BY <1>10, <1>0, <1>1, <2>1, LeaveEnds DEF PauseRateLimited, At, Steps, Before, Pausing, Task,
       Control, Statuses
  <2>3. Writes
    BY <1>10, <1>0, <1>2, <2>2, NoneAssumption DEF PauseRateLimited, Writes, work, Ends
  <2>4. control' # None /\ UNCHANGED <<rows, journal, now>>
    BY <1>10, <2>3, NoneAssumption DEF Writes
  <2>5. TypeOK' /\ Shared'
    BY <1>0, <2>1, <2>2, <2>3, WritesKeep DEF Shared, CompletionIsBacked, CurrentIsPending, Moves,
       Throws, Advances, Ends, Alone
  <2>6. Local(p)'
    BY <1>0, <2>1, <2>2, <2>4 DEF Moves, Throws, Advances, Ends
  <2>7. QED
    BY <2>2, <2>5, <2>6 DEF Keeps, Moves, Throws, Advances, Ends, Alone
<1>11. QED
    BY <1>3, <1>4, <1>5, <1>6, <1>7, <1>8, <1>9, <1>10

(* The transactions of a run that goes on. *)
LEMMA RunningSteps ==
    ASSUME IInv, NEW p \in Runners,
           StartTask(p) \/ Loop(p) \/ NextTask(p) \/ SkipCompleted(p) \/ AfterTask(p) \/
             ConfirmRunning(p) \/ BeginResume(p) \/ Sigint(p)
    PROVE  Keeps(p)
<1>0. TypeOK /\ Shared /\ Local(p)
    BY DEF IInv
<1>1. proc[p] \in Process /\ proc[p].idx \in 1..(NumTasks + 1)
    BY <1>0, ProcessFields
<1>2. lock \in Runners \cup {"reset", None} /\ faults \in 0..MaxFaults
    BY <1>0 DEF TypeOK
<1> USE DEF Local, SameStatus, LSelf, LFile, LWork, LLock, LFresh, LTask, LError, LRate, LCreate,
            LBegun, LActive, LRetry, LUndone, LOrder, LNext, LCurrent, LCancel, LNoJournal,
            LJournal, LRow,
            Ongoing, Unfinished, Idle, Begun, Undone, InTask, InLoop, Active, Thrown, Inside,
            Guarded, Awaits, Chat
<1>3. ASSUME StartTask(p) PROVE Keeps(p)
  <2>1. proc[p].pc = "start" /\ Unfinished /\ control \in Control
    BY <1>3, <1>0 DEF StartTask, At, TypeOK
  <2>2. /\ control' \in Control
        /\ control'.done = control.done /\ control'.retry = control.retry
        /\ lock' = lock
        /\ journal = None
        /\ Moves(p, "started")
        /\ control'.status = control.status
        /\ control.status # "pause_requested" => control'.current = proc[p].idx
    BY <1>3, <1>0, <1>1, <2>1, GotoMoves DEF StartTask, At, Steps, Before, Pausing, Task, Control
  <2>3. Writes
    BY <1>3, <1>0, <1>2, <2>2 DEF StartTask, Writes, work
  <2>4. control' # None /\ UNCHANGED <<rows, journal, now>>
    BY <1>3, <2>3, NoneAssumption DEF Writes
  <2>5. TypeOK' /\ Shared'
    <3>1. control'.status # "completed" /\ control.done \subseteq control'.done
      BY <1>0, <2>1, <2>2 DEF Shared, CompletionIsBacked, Moves, Throws, Advances, Alone
    <3>2. \A t \in control'.done : rows[t] = "completed"
      BY <1>0, <2>1, <2>2 DEF Shared, CompletionIsBacked, Moves, Throws, Advances, Alone
    <3>3. control'.status = "running" =>
              \/ journal = None
              \/ control.status = "running" /\ control'.current = control.current
      BY <1>0, <2>1, <2>2 DEF Shared, CompletionIsBacked, Moves, Throws, Advances, Alone
    <3>4. proc' \in [Runners -> Process]
      BY <1>0, <2>1, <2>2 DEF Shared, CompletionIsBacked, Moves, Throws, Advances, Alone
    <3>5. QED
      BY <1>0, <2>1, <2>3, <3>1, <3>2, <3>3, <3>4, WritesKeep
  <2>6. Local(p)'
    BY <1>0, <2>1, <2>2, <2>4 DEF Moves, Throws, Advances, Ends
  <2>7. QED
    BY <2>2, <2>5, <2>6 DEF Keeps, Moves, Throws, Advances, Ends, Alone
<1>4. ASSUME Loop(p) PROVE Keeps(p)
  <2>1. proc[p].pc = "loop" /\ Unfinished /\ control \in Control
    BY <1>4, <1>0 DEF Loop, At, TypeOK
  <2>2. /\ control' \in Control
        /\ control'.done = control.done /\ control'.retry = control.retry
        /\ lock' = lock
        /\ \/ Moves(p, "closing") /\ control'.status = "paused"
           \/ Moves(p, "closing") /\ SameStatus
           \/ Moves(p, "start") /\ SameStatus /\ proc[p].idx \in Tasks \ control.done
           \/ Advances(p) /\ SameStatus /\ proc[p].idx \in control.done
    BY <1>4, <1>0, <1>1, <2>1, GotoMoves, PauseWrites, AdvanceAdvances DEF Loop, At, Steps, Before,
       Pausing, Task, Control
  <2>3. Writes
    BY <1>4, <1>0, <1>2, <2>2 DEF Loop, Writes, work
  <2>4. control' # None /\ UNCHANGED <<rows, journal, now>>
    BY <1>4, <2>3, NoneAssumption DEF Writes
  <2>5. TypeOK' /\ Shared'
    BY <1>0, <2>1, <2>2, <2>3, WritesKeep DEF Shared, CompletionIsBacked, CurrentIsPending, Moves,
       Throws, Advances, Ends, Alone
  <2>6. Local(p)'
    <3>1. LSelf(p)'
      BY <1>0, <2>1, <2>2, <2>4, TaskOrder, <1>1 DEF Moves, Throws, Advances, Ends
    <3>2. LFile(p)'
      <4>1. LCreate(p)'
        BY <1>0, <2>1, <2>2, <2>4, TaskOrder, <1>1 DEF Moves, Throws, Advances, Ends
      <4>2. LBegun(p)'
        BY <1>0, <2>1, <2>2, <2>4, TaskOrder, <1>1 DEF Moves, Throws, Advances, Ends
      <4>3. LActive(p)'
        BY <1>0, <2>1, <2>2, <2>4, TaskOrder, <1>1 DEF Moves, Throws, Advances, Ends
      <4>4. LRetry(p)'
        BY <1>0, <2>1, <2>2, <2>4, TaskOrder, <1>1 DEF Moves, Throws, Advances, Ends
      <4>5. LUndone(p)'
        BY <1>0, <2>1, <2>2, <2>4, TaskOrder, <1>1 DEF Moves, Throws, Advances, Ends
      <4>6. LOrder(p)'
        BY <1>0, <2>1, <2>2, <2>4, TaskOrder, <1>1 DEF Moves, Throws, Advances, Ends
      <4>7. LNext(p)'
        BY <1>0, <2>1, <2>2, <2>4, TaskOrder, <1>1 DEF Moves, Throws, Advances, Ends
      <4>8. LCurrent(p)'
        BY <1>0, <2>1, <2>2, <2>4, TaskOrder, <1>1 DEF Moves, Throws, Advances, Ends
      <4>9. LCancel(p)'
        BY <1>0, <2>1, <2>2, <2>4, TaskOrder, <1>1 DEF Moves, Throws, Advances, Ends
      <4>10. QED
        BY <4>1, <4>2, <4>3, <4>4, <4>5, <4>6, <4>7, <4>8, <4>9
    <3>3. LWork(p)'
      BY <1>0, <2>1, <2>2, <2>4, TaskOrder, <1>1 DEF Moves, Throws, Advances, Ends
    <3>4. QED
      BY <3>1, <3>2, <3>3
  <2>7. QED
    BY <2>2, <2>5, <2>6 DEF Keeps, Moves, Throws, Advances, Ends, Alone
<1>5. ASSUME NextTask(p) PROVE Keeps(p)
  <2>1. proc[p].pc = "next" /\ Unfinished /\ control \in Control
    BY <1>5, <1>0 DEF NextTask, At, TypeOK
  <2>2. /\ control' \in Control
        /\ control'.done = control.done /\ control'.retry = control.retry
        /\ lock' = lock
        /\ \/ Moves(p, "closing") /\ control'.status = "paused"
           \/ Advances(p) /\ SameStatus
    BY <1>5, <1>0, <1>1, <2>1, GotoMoves, PauseWrites, AdvanceAdvances DEF NextTask, At, Steps,
       Before, Pausing, Task
  <2>3. Writes
    BY <1>5, <1>0, <1>2, <2>2 DEF NextTask, Writes, work
  <2>4. control' # None /\ UNCHANGED <<rows, journal, now>>
    BY <1>5, <2>3, NoneAssumption DEF Writes
  <2>5. TypeOK' /\ Shared'
    BY <1>0, <2>1, <2>2, <2>3, WritesKeep DEF Shared, CompletionIsBacked, CurrentIsPending, Moves,
       Throws, Advances, Ends, Alone
  <2>6. Local(p)'
    BY <1>0, <2>1, <2>2, <2>4, TaskOrder, <1>1 DEF Moves, Throws, Advances, Ends
  <2>7. QED
    BY <2>2, <2>5, <2>6 DEF Keeps, Moves, Throws, Advances, Ends, Alone
<1>6. ASSUME SkipCompleted(p) PROVE Keeps(p)
  <2>1. proc[p].pc = "get_row" /\ Unfinished /\ control \in Control
    BY <1>6, <1>0 DEF SkipCompleted, At, TypeOK
  <2>2. /\ control' \in Control
        /\ control'.done = control.done \cup {proc[p].idx} /\ control'.retry = control.retry
        /\ lock' = lock
        /\ Advances(p)
        /\ control'.status = control.status
        /\ rows[proc[p].idx] = "completed"
    BY <1>6, <1>0, <1>1, <2>1, FinishWrites, AdvanceAdvances DEF SkipCompleted, At, Steps, Before,
       Pausing, Task
  <2>3. Writes
    BY <1>6, <1>0, <1>2, <2>2 DEF SkipCompleted, Writes, work
  <2>4. control' # None /\ UNCHANGED <<rows, journal, now>>
    BY <1>6, <2>3, NoneAssumption DEF Writes
  <2>5. TypeOK' /\ Shared'
    <3>1. control'.status # "completed" /\ control.done \subseteq control'.done
      BY <1>0, <2>1, <2>2 DEF Shared, CompletionIsBacked, Moves, Throws, Advances, Alone
    <3>2. \A t \in control'.done : rows[t] = "completed"
      BY <1>0, <2>1, <2>2 DEF Shared, CompletionIsBacked, Moves, Throws, Advances, Alone
    <3>3. control'.status = "running" =>
              \/ journal = None
              \/ control.status = "running" /\ control'.current = control.current
      BY <1>0, <2>1, <2>2 DEF Shared, CompletionIsBacked, Moves, Throws, Advances, Alone
    <3>4. proc' \in [Runners -> Process]
      BY <1>0, <2>1, <2>2 DEF Shared, CompletionIsBacked, Moves, Throws, Advances, Alone
    <3>5. QED
      BY <1>0, <2>1, <2>3, <3>1, <3>2, <3>3, <3>4, WritesKeep
  <2>6. Local(p)'
    BY <1>0, <2>1, <2>2, <2>4, TaskOrder, <1>1 DEF Moves, Throws, Advances, Ends
  <2>7. QED
    BY <2>2, <2>5, <2>6 DEF Keeps, Moves, Throws, Advances, Ends, Alone
<1>7. ASSUME AfterTask(p) PROVE Keeps(p)
  <2>1. proc[p].pc = "after" /\ Unfinished /\ control \in Control
    BY <1>7, <1>0 DEF AfterTask, At, TypeOK
  <2>2. /\ control' \in Control
        /\ control'.done = control.done \cup {proc[p].idx} /\ control'.retry = control.retry
        /\ lock' = lock
        /\ Moves(p, "next")
        /\ control'.status = control.status
        /\ rows[proc[p].idx] = "completed"
    BY <1>7, <1>0, <1>1, <2>1, GotoMoves, FinishWrites DEF AfterTask, At, Steps, Before, Pausing,
       Task
  <2>3. Writes
    BY <1>7, <1>0, <1>2, <2>2 DEF AfterTask, Writes, work
  <2>4. control' # None /\ UNCHANGED <<rows, journal, now>>
    BY <1>7, <2>3, NoneAssumption DEF Writes
  <2>5. TypeOK' /\ Shared'
    <3>1. control'.status # "completed" /\ control.done \subseteq control'.done
      BY <1>0, <2>1, <2>2 DEF Shared, CompletionIsBacked, Moves, Throws, Advances, Alone
    <3>2. \A t \in control'.done : rows[t] = "completed"
      BY <1>0, <2>1, <2>2 DEF Shared, CompletionIsBacked, Moves, Throws, Advances, Alone
    <3>3. control'.status = "running" =>
              \/ journal = None
              \/ control.status = "running" /\ control'.current = control.current
      BY <1>0, <2>1, <2>2 DEF Shared, CompletionIsBacked, Moves, Throws, Advances, Alone
    <3>4. proc' \in [Runners -> Process]
      BY <1>0, <2>1, <2>2 DEF Shared, CompletionIsBacked, Moves, Throws, Advances, Alone
    <3>5. QED
      BY <1>0, <2>1, <2>3, <3>1, <3>2, <3>3, <3>4, WritesKeep
  <2>6. Local(p)'
    BY <1>0, <2>1, <2>2, <2>4 DEF Moves, Throws, Advances, Ends
  <2>7. QED
    BY <2>2, <2>5, <2>6 DEF Keeps, Moves, Throws, Advances, Ends, Alone
<1>8. ASSUME ConfirmRunning(p) PROVE Keeps(p)
  <2>1. proc[p].pc = "confirm" /\ Unfinished /\ control \in Control
    BY <1>8, <1>0 DEF ConfirmRunning, At, TypeOK
  <2>2. /\ control' \in Control
        /\ control'.done = control.done
        /\ lock' = lock
        /\ journal = None
        /\ \/ Moves(p, "closing") /\ control'.status = "paused" /\ control'.retry = control.retry
           \/ /\ control.status # "pause_requested"
              /\ control'.status = "running" /\ control'.retry = 0
              /\ Alone(p) /\ proc'[p].pc = "loop" /\ proc'[p].idx = 1
              /\ proc'[p].err = proc[p].err /\ proc'[p].cancel = proc[p].cancel
    <3>1. CASE Pausing
      BY <3>1, <1>8, <1>0, <1>1, <2>1, GotoMoves, PauseWrites, ClockIsNat, TaskOrder DEF
         ConfirmRunning, At, Steps, Before, Pausing, Task, Control, Statuses, TypeOK, Process,
         Alone
    <3>2. CASE ~Pausing
      <4>1. control' \in Control /\ control'.status = "running" /\ control'.retry = 0
            /\ control'.done = control.done
        BY <3>2, <1>8, <2>1, ClockIsNat, <1>0 DEF ConfirmRunning, Control, Statuses, Pausing
      <4>2. /\ Alone(p) /\ proc'[p].pc = "loop" /\ proc'[p].idx = 1
           /\ proc'[p].err = proc[p].err /\ proc'[p].cancel = proc[p].cancel
        BY <3>2, <1>8, <2>1, TaskOrder, <1>0 DEF ConfirmRunning, Alone, TypeOK, Process, Pausing
      <4>3. journal = None /\ lock' = lock
        BY <3>2, <1>8, <2>1, <1>0 DEF ConfirmRunning
      <4>4. QED
        BY <3>2, <2>1, <4>1, <4>2, <4>3 DEF Pausing
    <3>9. QED
      BY <3>1, <3>2 DEF Pausing
  <2>3. Writes
    BY <1>8, <1>0, <1>2, <2>2 DEF ConfirmRunning, Writes, work
  <2>4. control' # None /\ UNCHANGED <<rows, journal, now>>
    BY <1>8, <2>3, NoneAssumption DEF Writes
  <2>5. TypeOK' /\ Shared'
    <3>1. control'.status # "completed" /\ control.done \subseteq control'.done
      BY <1>0, <2>1, <2>2 DEF Shared, CompletionIsBacked, Moves, Throws, Advances, Alone
    <3>2. \A t \in control'.done : rows[t] = "completed"
      BY <1>0, <2>1, <2>2 DEF Shared, CompletionIsBacked, Moves, Throws, Advances, Alone
    <3>3. control'.status = "running" =>
              \/ journal = None
              \/ control.status = "running" /\ control'.current = control.current
      BY <1>0, <2>1, <2>2 DEF Shared, CompletionIsBacked, Moves, Throws, Advances, Alone
    <3>4. proc' \in [Runners -> Process]
      BY <1>0, <2>1, <2>2 DEF Shared, CompletionIsBacked, Moves, Throws, Advances, Alone
    <3>5. QED
      BY <1>0, <2>1, <2>3, <3>1, <3>2, <3>3, <3>4, WritesKeep
  <2>6. Local(p)'
    BY <1>0, <2>1, <2>2, <2>4, TaskOrder, <1>1, ClockIsNat DEF Moves, Throws, Advances, Ends
  <2>7. QED
    BY <2>2, <2>5, <2>6 DEF Keeps, Moves, Throws, Advances, Ends, Alone
<1>9. ASSUME BeginResume(p) PROVE Keeps(p)
  <2>1. proc[p].pc = "begin" /\ Unfinished /\ control \in Control
    BY <1>9, <1>0 DEF BeginResume, At, TypeOK
  <2>2. /\ control' \in Control
        /\ control'.done = control.done /\ control'.retry = control.retry
        /\ lock' = lock
        /\ control'.status = "resuming"
        /\ Alone(p) /\ proc'[p].pc = "health" /\ proc'[p].idx = proc[p].idx
        /\ proc'[p].err = proc[p].err /\ proc'[p].cancel = proc[p].cancel
    <3>1. Moves(p, "health") /\ lock' = lock
      BY <1>9, <1>0, ExecuteMoves DEF BeginResume
    <3>2. control' = [control EXCEPT !.status = "resuming"]
      BY <1>9 DEF BeginResume
    <3>3. QED
      BY <2>1, <3>1, <3>2 DEF Control, Statuses, Moves
  <2>3. Writes
    BY <1>9, <1>0, <1>2, <2>2 DEF BeginResume, Writes, work
  <2>4. control' # None /\ UNCHANGED <<rows, journal, now>>
    BY <1>9, <2>3, NoneAssumption DEF Writes
  <2>5. TypeOK' /\ Shared'
    BY <1>0, <2>1, <2>2, <2>3, WritesKeep DEF Shared, CompletionIsBacked, CurrentIsPending, Moves,
       Throws, Advances, Ends, Alone
  <2>6. Local(p)'
    BY <1>0, <2>1, <2>2, <2>4 DEF Moves, Throws, Advances, Ends
  <2>7. QED
    BY <2>2, <2>5, <2>6 DEF Keeps, Moves, Throws, Advances, Ends, Alone
<1>10. ASSUME Sigint(p) PROVE Keeps(p)
  <2>1. proc[p].pc \in Guarded /\ Unfinished /\ control \in Control
    BY <1>10, <1>0 DEF Sigint, At, TypeOK
  <2>2. /\ control' \in Control
        /\ control'.done = control.done /\ control'.retry = control.retry
        /\ lock' = lock
        /\ Alone(p) /\ proc'[p].pc = proc[p].pc /\ proc'[p].idx = proc[p].idx
        /\ proc'[p].err = proc[p].err
        /\ control'.current = control.current
        /\ \/ control'.status = "pause_requested" /\ control.status \in {"running", "resuming"}
           \/ control'.status = control.status /\ control.status \notin {"running", "resuming"}
    <3>1. RequestPause /\ lock' = lock
      BY <1>10 DEF Sigint
    <3>2. QED
      BY <1>10, <1>0, <2>1, <3>1, SigintStays DEF RequestPause, Control, Statuses
  <2>3. Writes
    BY <1>10, <1>0, <1>2, <2>2, FaultCounts DEF Sigint, Writes, work
  <2>4. control' # None /\ UNCHANGED <<rows, journal, now>>
    BY <1>10, <2>3, NoneAssumption DEF Writes
  <2>5. TypeOK' /\ Shared'
    BY <1>0, <2>1, <2>2, <2>3, WritesKeep DEF Shared, CompletionIsBacked, CurrentIsPending, Moves,
       Throws, Advances, Ends, Alone
  <2>6. Local(p)'
    BY <1>0, <2>1, <2>2, <2>4 DEF Moves, Throws, Advances, Ends
  <2>7. QED
    BY <2>2, <2>5, <2>6 DEF Keeps, Moves, Throws, Advances, Ends, Alone
<1>11. QED
    BY <1>3, <1>4, <1>5, <1>6, <1>7, <1>8, <1>9, <1>10

(* The first and the last write of a run, and the deadline of a RateLimited. *)
LEMMA RunCreated ==
    ASSUME IInv, NEW p \in Runners, CreateRun(p)
    PROVE  Keeps(p)
<1>0. TypeOK /\ Shared /\ Local(p)
    BY DEF IInv
<1>1. proc[p].pc = "create" /\ ~Unfinished /\ lock = p /\ proc[p].err = "none" /\ ~proc[p].cancel
    BY <1>0 DEF CreateRun, At, Local, LSelf, LFile, LLock, LFresh, LCreate, Idle, Inside, Guarded,
           Awaits, Chat
<1>2. /\ control' \in Control /\ control'.status = "running" /\ control'.done = {}
      /\ control'.retry = 0 /\ control' # None
  <2>1. control' = [status |-> "running", done |-> {}, current |-> None, incident |-> FALSE,
                    retry |-> 0]
    BY DEF CreateRun
  <2>2. 0 \in Time
    BY <1>0, ClockIsNat
  <2>3. control' \in Control
    BY <2>1, <2>2 DEF Control, Statuses
  <2>4. QED
    BY <2>1, <2>3, NoneAssumption
<1>3. /\ Alone(p) /\ proc'[p].pc = "health" /\ proc'[p].idx = proc[p].idx
      /\ proc'[p].err = "none" /\ ~proc'[p].cancel
    BY <1>0, <1>1, ExecuteMoves DEF CreateRun, Moves
<1>4. UNCHANGED <<rows, journal, prepared, lock, reset, now, faults>>
    BY DEF CreateRun, work
<1>5. journal = None /\ \A t \in Tasks : rows[t] # "running"
    BY <1>0, <1>1 DEF Shared, SJournal, SRunning
<1>6. TypeOK'
    BY <1>0, <1>2, <1>3, <1>4 DEF TypeOK, Alone
<1>7. Shared'
  <2>1. CompletionIsBacked' /\ CurrentIsPending' /\ SJournal' /\ SRetry'
    BY <1>2, <1>4, <1>5 DEF CompletionIsBacked, CurrentIsPending, SJournal, SRetry
  <2>2. SRunning'
    BY <1>4, <1>5 DEF SRunning
  <2>3. SReset'
    BY <1>0, <1>1, <1>2, <1>4, NoneAssumption DEF Shared, SReset
  <2>4. QED
    BY <2>1, <2>2, <2>3 DEF Shared
<1>8. Local(p)'
  <2>1. 0 <= now
    BY <1>0, ClockIsNat
  <2>2. QED
    BY <1>1, <1>2, <1>3, <1>4, <2>1 DEF Local, LSelf, LFile, LWork, LLock, LFresh, LTask, LError,
           LRate, LCreate, LBegun, LActive, LRetry, LUndone, LOrder, LNext, LCurrent, LCancel,
           LNoJournal, LJournal, LRow, Ongoing, Unfinished, Idle, Begun, Undone, InTask, InLoop,
           Active, Thrown, Inside, Guarded, Awaits, Chat
<1>9. QED
    BY <1>3, <1>6, <1>7, <1>8 DEF Keeps

(* Nothing is asked of an idle process, whatever the shared state is. *)
LEMMA IdleIsLocal ==
    ASSUME NEW q \in Runners, proc'[q].pc \in Idle, proc'[q].err = "none", ~proc'[q].cancel
    PROVE  Local(q)'
  BY DEF Local, LSelf, LFile, LWork, LLock, LFresh, LTask, LError, LRate, LCreate, LBegun, LActive,
         LRetry, LUndone, LOrder, LNext, LCurrent, LCancel, LNoJournal, LJournal, LRow, Idle, Begun,
         Undone, InTask, InLoop, Active, Thrown, Inside, Guarded, Awaits, Chat

(* complete: all tasks are done, so no row runs and no journal is left. *)
LEMMA RunCompleted ==
    ASSUME IInv, NEW p \in Runners, Complete(p)
    PROVE  Keeps(p)
<1>0. TypeOK /\ Shared /\ Local(p)
    BY DEF IInv
<1>1. proc[p].pc = "complete" /\ lock = p /\ journal = None /\ Unfinished
    BY <1>0 DEF Complete, At, Local, LSelf, LFile, LWork, LLock, LBegun, LNoJournal, Idle, Begun,
           Inside, Guarded
<1>2. control \in Control /\ control.done = Tasks
    BY <1>0, <1>1 DEF Complete, TypeOK, Unfinished, Control
<1>3. /\ control' \in Control /\ control'.status = "completed" /\ control'.done = Tasks
      /\ control'.retry = 0 /\ control' # None
    BY <1>0, <1>2, ClockIsNat, NoneAssumption DEF Complete, Control, Statuses
<1>4. Ends(p) /\ UNCHANGED <<rows, journal, prepared, reset, now, faults>>
    BY <1>0, LeaveEnds DEF Complete, work
<1>5. \A t \in Tasks : rows[t] = "completed"
    BY <1>0, <1>1, <1>2 DEF Shared, CompletionIsBacked, Unfinished
<1>6. TypeOK'
    BY <1>0, <1>3, <1>4 DEF TypeOK, Ends, Alone
<1>7. Shared'
  <2>1. CompletionIsBacked' /\ CurrentIsPending' /\ SJournal'
    BY <1>1, <1>3, <1>4, <1>5 DEF CompletionIsBacked, CurrentIsPending, SJournal
  <2>2. SRunning' /\ SRetry'
    BY <1>0, <1>3, <1>4, <1>5, ClockIsNat DEF SRunning, SRetry
  <2>3. SReset'
    BY <1>0, <1>1, <1>3, <1>4, NoneAssumption DEF Shared, SReset
  <2>4. QED
    BY <2>1, <2>2, <2>3 DEF Shared
<1>8. Local(p)'
    BY <1>4, IdleIsLocal DEF Ends, Idle
<1>9. QED
    BY <1>4, <1>6, <1>7, <1>8 DEF Keeps, Ends

(* defer_rate_limit: LRate bounds the deadline. *)
LEMMA RunDeferred ==
    ASSUME IInv, NEW p \in Runners, Defer(p)
    PROVE  Keeps(p) /\ control' \in Control
<1>0. TypeOK /\ Shared /\ Local(p)
    BY DEF IInv
<1>1. proc[p].pc = "incident" /\ proc[p].err = "rate" /\ Unfinished /\ control \in Control
    BY <1>0 DEF Defer, At, Local, LFile, LBegun, Begun, Inside, TypeOK, Unfinished
<1>2. now + RetryAfter <= MaxTime \/ (journal # None /\ journal.retry > now)
    BY <1>0, <1>1 DEF Local, LSelf, LRate
<1> DEFINE deadline == IF journal # None /\ journal.retry > now THEN journal.retry
                       ELSE now + RetryAfter
<1>3. deadline \in Time
    BY <1>0, <1>2, RunControlAssumption DEF TypeOK, Journal, Time
<1>4. control' = [control EXCEPT !.retry = Later(@, deadline)]
    BY DEF Defer
<1> HIDE DEF deadline
<1>5. /\ control' \in Control /\ control'.status = control.status
      /\ control'.done = control.done /\ control'.current = control.current
    BY <1>1, <1>3, <1>4 DEF Later, Control
<1>6. Moves(p, "rate_paused")
    BY <1>0, GotoMoves DEF Defer, Steps, Inside
<1>7. UNCHANGED <<rows, journal, prepared, lock, reset, now, faults>>
    BY DEF Defer, work
<1>8. Writes
    BY <1>0, <1>5, <1>7 DEF Writes, TypeOK
<1>9. TypeOK' /\ Shared'
  <2>1. \A t \in control'.done : rows[t] = "completed"
    BY <1>0, <1>1, <1>5 DEF Shared, CompletionIsBacked, Unfinished
  <2>2. control'.status # "completed" /\ proc' \in [Runners -> Process]
    BY <1>1, <1>5, <1>6 DEF Unfinished, Moves, Alone
  <2>3. QED
    BY <1>0, <1>1, <1>5, <1>8, <2>1, <2>2, WritesKeep
<1>10. Local(p)'
  <2>1. control' # None
    BY <1>5, NoneAssumption
  <2>2. QED
    BY <1>0, <1>1, <1>5, <1>6, <1>7, <2>1 DEF Moves, Local, LSelf, LFile, LWork, LLock, LFresh,
           LTask, LError, LRate, LCreate, LBegun, LActive, LRetry, LUndone, LOrder, LNext, LCurrent,
           LCancel, LNoJournal, LJournal, LRow, Ongoing, Unfinished, Idle, Begun, Undone, InTask,
           InLoop, Active, Thrown, Inside, Guarded, Awaits, Chat
<1>11. QED
    BY <1>5, <1>6, <1>9, <1>10 DEF Keeps, Moves

(* _recover_pending_journal goes to the task of the journal. *)
LEMMA RecoverMoves ==
    ASSUME TypeOK, NEW p \in Runners, Recover(p)
    PROVE  /\ Alone(p) /\ proc'[p].pc = "recovering" /\ journal # None
           /\ proc'[p].idx = journal.task /\ journal.task \in Tasks
           /\ proc'[p].err = proc[p].err /\ proc'[p].cancel = proc[p].cancel
<1>1. journal.task \in Tasks /\ journal # None
    BY DEF Recover, TypeOK, Journal
<1>2. journal.task \in 1..(NumTasks + 1)
    BY <1>1, TaskOrder
<1>3. "recovering" \in Steps
    BY DEF Steps, Inside, Guarded, Awaits, Chat
<1>4. proc' = [proc EXCEPT ![p].pc = "recovering", ![p].idx = journal.task]
    BY DEF Recover
<1> DEFINE t == journal.task
<1>5. t \in 1..(NumTasks + 1) /\ proc' = [proc EXCEPT ![p].pc = "recovering", ![p].idx = t]
    BY <1>2, <1>4
<1> HIDE DEF t
<1>6. /\ Alone(p) /\ proc'[p].pc = "recovering" /\ proc'[p].idx = t
      /\ proc'[p].err = proc[p].err /\ proc'[p].cancel = proc[p].cancel
    BY <1>3, <1>5, MoveTo
<1>7. QED
    BY <1>1, <1>6 DEF t

(* A pending journal is taken up: the place in the selection is its task's. *)
LEMMA RecoverStep ==
    ASSUME IInv, NEW p \in Runners,
           Recover(p)
    PROVE  Keeps(p)
<1> USE NoneAssumption
<1>0. TypeOK /\ Shared /\ Local(p)
    BY DEF IInv
<1>1. proc[p] \in Process /\ proc[p].idx \in 1..(NumTasks + 1)
    BY <1>0, ProcessFields
<1>2. prepared \subseteq Tasks /\ lock \in Runners \cup {"reset", None} /\ faults \in 0..MaxFaults
    BY <1>0 DEF TypeOK
<1>3. Quiet /\ Alone(p) => TypeOK' /\ Shared'
    BY <1>0, QuietKeeps DEF Alone
<1> USE DEF Local, LSelf, LFile, LWork, LLock, LFresh, LTask, LError, LRate, LCreate, LBegun,
            LActive, LRetry, LUndone, LOrder, LNext, LCurrent, LCancel, LNoJournal, LJournal, LRow,
            Ongoing, Unfinished, Idle, Begun, Undone, InTask, InLoop, Active, Thrown, Inside,
            Guarded, Awaits, Chat
<1>4. ASSUME Recover(p) PROVE Keeps(p)
  <2>1. /\ proc[p].pc = "recover" /\ Alone(p) /\ proc'[p].pc = "recovering" /\ journal # None
        /\ proc'[p].idx = journal.task /\ journal.task \in Tasks
        /\ proc'[p].err = proc[p].err /\ proc'[p].cancel = proc[p].cancel
    BY <1>4, <1>0, RecoverMoves DEF Recover, At
  <2>2. Quiet
    BY <1>4, <1>0, <1>1, <1>2, <2>1 DEF Recover, Quiet, work
  <2>3. UNCHANGED <<control, rows, journal, now, lock>>
    BY <1>4 DEF Recover, work
  <2>4. Local(p)'
    BY <1>0, <2>1, <2>3 DEF Moves, Throws
  <2>5. QED
    BY <1>3, <2>1, <2>2, <2>4 DEF Keeps, Moves, Throws, Alone
<1>5. QED
    BY <1>4

(* A row, the journal or the adapter's state is written, nothing else. *)
Works ==
    /\ UNCHANGED <<control, lock, reset, now>>
    /\ rows' \in [Tasks -> {"absent", "running", "failed", "completed"}]
    /\ journal' \in Journal \cup {None}
    /\ prepared' \subseteq Tasks
    /\ faults' \in 0..MaxFaults

(* What such a write must respect: done tasks stay completed, the current  *)
(* task's journal is the only one, a row runs behind finished tasks only.  *)
LEMMA WorksKeep ==
    ASSUME TypeOK, Shared, Unfinished, Works, proc' \in [Runners -> Process],
           \A t \in control.done : rows'[t] = "completed",
           journal' # None /\ control.status = "running" => control.current = journal'.task,
           \A t \in Tasks : rows'[t] = "running" => \A u \in Tasks : u < t => u \in control.done
    PROVE  TypeOK' /\ Shared'
<1>1. TypeOK'
    BY DEF TypeOK, Works
<1>2. CompletionIsBacked' /\ CurrentIsPending'
    BY DEF Works, CompletionIsBacked, CurrentIsPending, Unfinished
<1>3. SJournal' /\ SRunning' /\ SRetry' /\ SReset'
    BY DEF Works, Shared, SJournal, SRunning, SRetry, SReset, Unfinished
<1>4. QED
    BY <1>1, <1>2, <1>3 DEF Shared

(* _persist_rate_limit_defer changes the deadline of the journal only. *)
LEMMA DeferKeepsTask ==
    ASSUME TypeOK, journal # None, now + RetryAfter <= MaxTime, DeferJournal
    PROVE  /\ journal' \in Journal /\ journal' # None /\ journal'.task = journal.task
           /\ journal'.retry >= now + RetryAfter
<1>1. journal \in Journal /\ now \in Time
    BY DEF TypeOK
<1>2. now + RetryAfter \in Time
    BY <1>1, RunControlAssumption DEF Time
<1>3. journal' \in Journal /\ journal'.task = journal.task /\ journal'.retry >= now + RetryAfter
    BY <1>1, <1>2, RunControlAssumption DEF DeferJournal, Later, Journal, Time
<1>4. QED
    BY <1>3, NoneAssumption

(* The attempt of the current task, and the row of a task that never got one. *)
LEMMA AttemptSteps ==
    ASSUME IInv, NEW p \in Runners,
           StartAttempt(p) \/ StartRow(p) \/ CompleteAttempt(p) \/ CleanAttempt(p) \/
             RecordStart(p) \/ RecordFail(p)
    PROVE  Keeps(p)
<1>0. TypeOK /\ Shared /\ Local(p)
    BY DEF IInv
<1>1. /\ rows \in [Tasks -> {"absent", "running", "failed", "completed"}]
      /\ prepared \subseteq Tasks
      /\ journal \in Journal \cup {None} /\ faults \in 0..MaxFaults
    BY <1>0 DEF TypeOK
<1>2. /\ control # None => \A t \in control.done : rows[t] = "completed"
      /\ \A t \in Tasks : rows[t] = "running" => \A u \in Tasks : u < t => u \in control.done
      /\ control # None /\ control.status = "running" /\ journal # None
            => control.current = journal.task
      /\ control # None => control.done \subseteq Tasks
    BY <1>0 DEF Shared, CompletionIsBacked, SRunning, CurrentIsPending, TypeOK, Control
<1> USE DEF Local, LSelf, LFile, LWork, LLock, LFresh, LTask, LError, LRate, LCreate, LBegun,
            LActive, LRetry, LUndone, LOrder, LNext, LCurrent, LCancel, LNoJournal, LJournal, LRow,
            Ongoing, Unfinished, Idle, Begun, Undone, InTask, InLoop, Active, Thrown, Inside,
            Guarded, Awaits, Chat
<1>3. ASSUME StartAttempt(p) PROVE Keeps(p)
  <2>1. proc[p].pc = "attempt" /\ Unfinished /\ proc[p].idx \in Tasks
    BY <1>3, <1>0 DEF StartAttempt, At
  <2>2. /\ Moves(p, "starting")
        /\ rows' = rows
        /\ journal' # None /\ journal'.task = proc[p].idx /\ journal' \in Journal
    <3>1. Moves(p, "starting")
      BY <1>3, <2>1, <1>0, GotoMoves DEF StartAttempt, Steps
    <3>2. journal' = [task |-> proc[p].idx, retry |-> 0] /\ 0 \in Time
      BY <1>3, <2>1, <1>0, ClockIsNat DEF StartAttempt, Task
    <3>3. journal' \in Journal
      BY <1>3, <2>1, <3>2 DEF StartAttempt, Journal
    <3>4. journal' # None
      BY <1>3, <2>1, <3>3, NoneAssumption DEF StartAttempt
    <3>5. rows' = rows
      BY <1>3, <2>1 DEF StartAttempt
    <3>6. QED
      BY <2>1, <3>1, <3>2, <3>3, <3>4, <3>5
  <2>3. Works
    BY <1>3, <1>1, <2>1, <2>2 DEF StartAttempt, Works, Task
  <2>4. UNCHANGED <<control, lock, now>>
    BY <2>3 DEF Works
  <2>5. TypeOK' /\ Shared'
    <3>1. \A t \in control.done : rows'[t] = "completed"
      BY <1>0, <1>1, <1>2, <2>1, <2>2
    <3>2. journal' # None /\ control.status = "running" => control.current = journal'.task
      BY <1>0, <1>1, <1>2, <2>1, <2>2
    <3>3. \A t \in Tasks : rows'[t] = "running" => \A u \in Tasks : u < t => u \in control.done
      BY <1>0, <1>1, <1>2, <2>1, <2>2
    <3>4. proc' \in [Runners -> Process]
      BY <2>2 DEF Moves, Throws, Alone
    <3>5. QED
      BY <1>0, <2>1, <2>3, <3>1, <3>2, <3>3, <3>4, WorksKeep
  <2>6. Local(p)'
    BY <1>0, <1>1, <2>1, <2>2, <2>4 DEF Moves, Throws
  <2>7. QED
    BY <2>2, <2>5, <2>6 DEF Keeps, Moves, Throws, Alone
<1>4. ASSUME StartRow(p) PROVE Keeps(p)
  <2>1. proc[p].pc = "starting" /\ Unfinished /\ proc[p].idx \in Tasks
    BY <1>4, <1>0 DEF StartRow, At
  <2>2. /\ Moves(p, "working")
        /\ rows' = [rows EXCEPT ![proc[p].idx] = "running"]
        /\ journal' = journal
    BY <1>4, <1>0, <2>1, GotoMoves DEF StartRow, At, Steps, Task
  <2>3. Works
    BY <1>4, <1>1, <2>1, <2>2 DEF StartRow, Works, Task
  <2>4. UNCHANGED <<control, lock, now>>
    BY <2>3 DEF Works
  <2>5. TypeOK' /\ Shared'
    <3>1. \A t \in control.done : rows'[t] = "completed"
      BY <1>0, <1>1, <1>2, <2>1, <2>2
    <3>2. journal' # None /\ control.status = "running" => control.current = journal'.task
      BY <1>0, <1>1, <1>2, <2>1, <2>2
    <3>3. \A t \in Tasks : rows'[t] = "running" => \A u \in Tasks : u < t => u \in control.done
      BY <1>0, <1>1, <1>2, <2>1, <2>2
    <3>4. proc' \in [Runners -> Process]
      BY <2>2 DEF Moves, Throws, Alone
    <3>5. QED
      BY <1>0, <2>1, <2>3, <3>1, <3>2, <3>3, <3>4, WorksKeep
  <2>6. Local(p)'
    BY <1>0, <1>1, <2>1, <2>2, <2>4 DEF Moves, Throws
  <2>7. QED
    BY <2>2, <2>5, <2>6 DEF Keeps, Moves, Throws, Alone
<1>5. ASSUME CompleteAttempt(p) PROVE Keeps(p)
  <2>1. proc[p].pc = "working" /\ Unfinished /\ proc[p].idx \in Tasks
    BY <1>5, <1>0 DEF CompleteAttempt, At
  <2>2. /\ Moves(p, "committed")
        /\ rows' = [rows EXCEPT ![proc[p].idx] = "completed"]
        /\ journal' = journal
    BY <1>5, <1>0, <2>1, GotoMoves DEF CompleteAttempt, At, Steps, Task
  <2>3. Works
    BY <1>5, <1>1, <2>1, <2>2 DEF CompleteAttempt, Works, Task
  <2>4. UNCHANGED <<control, lock, now>>
    BY <2>3 DEF Works
  <2>5. TypeOK' /\ Shared'
    <3>1. \A t \in control.done : rows'[t] = "completed"
      BY <1>0, <1>1, <1>2, <2>1, <2>2
    <3>2. journal' # None /\ control.status = "running" => control.current = journal'.task
      BY <1>0, <1>1, <1>2, <2>1, <2>2
    <3>3. \A t \in Tasks : rows'[t] = "running" => \A u \in Tasks : u < t => u \in control.done
      BY <1>0, <1>1, <1>2, <2>1, <2>2
    <3>4. proc' \in [Runners -> Process]
      BY <2>2 DEF Moves, Throws, Alone
    <3>5. QED
      BY <1>0, <2>1, <2>3, <3>1, <3>2, <3>3, <3>4, WorksKeep
  <2>6. Local(p)'
    BY <1>0, <1>1, <2>1, <2>2, <2>4 DEF Moves, Throws
  <2>7. QED
    BY <2>2, <2>5, <2>6 DEF Keeps, Moves, Throws, Alone
<1>6. ASSUME CleanAttempt(p) PROVE Keeps(p)
  <2>1. proc[p].pc = "committed" /\ Unfinished /\ proc[p].idx \in Tasks
    BY <1>6, <1>0 DEF CleanAttempt, At
  <2>2. /\ Moves(p, "cleanup")
        /\ rows' = rows
        /\ journal' = None
    BY <1>6, <1>0, <2>1, GotoMoves DEF CleanAttempt, At, Steps, Task
  <2>3. Works
    BY <1>6, <1>1, <2>1, <2>2 DEF CleanAttempt, Works, Task
  <2>4. UNCHANGED <<control, lock, now>>
    BY <2>3 DEF Works
  <2>5. TypeOK' /\ Shared'
    <3>1. \A t \in control.done : rows'[t] = "completed"
      BY <1>0, <1>1, <1>2, <2>1, <2>2
    <3>2. journal' # None /\ control.status = "running" => control.current = journal'.task
      BY <1>0, <1>1, <1>2, <2>1, <2>2
    <3>3. \A t \in Tasks : rows'[t] = "running" => \A u \in Tasks : u < t => u \in control.done
      BY <1>0, <1>1, <1>2, <2>1, <2>2
    <3>4. proc' \in [Runners -> Process]
      BY <2>2 DEF Moves, Throws, Alone
    <3>5. QED
      BY <1>0, <2>1, <2>3, <3>1, <3>2, <3>3, <3>4, WorksKeep
  <2>6. Local(p)'
    BY <1>0, <1>1, <2>1, <2>2, <2>4 DEF Moves, Throws
  <2>7. QED
    BY <2>2, <2>5, <2>6 DEF Keeps, Moves, Throws, Alone
<1>7. ASSUME RecordStart(p) PROVE Keeps(p)
  <2>1. proc[p].pc = "record" /\ Unfinished /\ proc[p].idx \in Tasks
    BY <1>7, <1>0 DEF RecordStart, At
  <2>2. /\ Moves(p, "recorded")
        /\ rows' = [rows EXCEPT ![proc[p].idx] = "running"]
        /\ journal' = journal
    BY <1>7, <1>0, <2>1, GotoMoves DEF RecordStart, At, Steps, Task
  <2>3. Works
    BY <1>7, <1>1, <2>1, <2>2 DEF RecordStart, Works, Task
  <2>4. UNCHANGED <<control, lock, now>>
    BY <2>3 DEF Works
  <2>5. TypeOK' /\ Shared'
    <3>1. \A t \in control.done : rows'[t] = "completed"
      BY <1>0, <1>1, <1>2, <2>1, <2>2
    <3>2. journal' # None /\ control.status = "running" => control.current = journal'.task
      BY <1>0, <1>1, <1>2, <2>1, <2>2
    <3>3. \A t \in Tasks : rows'[t] = "running" => \A u \in Tasks : u < t => u \in control.done
      BY <1>0, <1>1, <1>2, <2>1, <2>2
    <3>4. proc' \in [Runners -> Process]
      BY <2>2 DEF Moves, Throws, Alone
    <3>5. QED
      BY <1>0, <2>1, <2>3, <3>1, <3>2, <3>3, <3>4, WorksKeep
  <2>6. Local(p)'
    BY <1>0, <1>1, <2>1, <2>2, <2>4 DEF Moves, Throws
  <2>7. QED
    BY <2>2, <2>5, <2>6 DEF Keeps, Moves, Throws, Alone
<1>8. ASSUME RecordFail(p) PROVE Keeps(p)
  <2>1. proc[p].pc = "recorded" /\ Unfinished /\ proc[p].idx \in Tasks
    BY <1>8, <1>0 DEF RecordFail, At
  <2>2. /\ Moves(p, "cleanup")
        /\ rows' = [rows EXCEPT ![proc[p].idx] = "failed"]
        /\ journal' = journal
    BY <1>8, <1>0, <2>1, CleanupMoves DEF RecordFail, At, Steps, Task
  <2>3. Works
    BY <1>8, <1>1, <2>1, <2>2 DEF RecordFail, Works, Task
  <2>4. UNCHANGED <<control, lock, now>>
    BY <2>3 DEF Works
  <2>5. TypeOK' /\ Shared'
    <3>1. \A t \in control.done : rows'[t] = "completed"
      BY <1>0, <1>1, <1>2, <2>1, <2>2
    <3>2. journal' # None /\ control.status = "running" => control.current = journal'.task
      BY <1>0, <1>1, <1>2, <2>1, <2>2
    <3>3. \A t \in Tasks : rows'[t] = "running" => \A u \in Tasks : u < t => u \in control.done
      BY <1>0, <1>1, <1>2, <2>1, <2>2
    <3>4. proc' \in [Runners -> Process]
      BY <2>2 DEF Moves, Throws, Alone
    <3>5. QED
      BY <1>0, <2>1, <2>3, <3>1, <3>2, <3>3, <3>4, WorksKeep
  <2>6. Local(p)'
    BY <1>0, <1>1, <2>1, <2>2, <2>4 DEF Moves, Throws
  <2>7. QED
    BY <2>2, <2>5, <2>6 DEF Keeps, Moves, Throws, Alone
<1>9. QED
    BY <1>3, <1>4, <1>5, <1>6, <1>7, <1>8

(* Running rows are closed, and no other row is touched. *)
Settles ==
    /\ rows' \in [Tasks -> {"absent", "running", "failed", "completed"}]
    /\ \A t \in Tasks :
          \/ rows'[t] = rows[t]
          \/ rows[t] = "running" /\ rows'[t] \in {"failed", "completed"}

(* reconcile_journal closes the row of its journal and drops the journal. *)
LEMMA ReconcilesRows ==
    ASSUME TypeOK, journal # None, Reconciles
    PROVE  journal' = None /\ Settles
<1>1. journal.task \in Tasks
    BY DEF TypeOK, Journal
<1>2. PICK status \in (IF rows[journal.task] = "running" THEN {"completed", "failed"}
                       ELSE {rows[journal.task]}) :
         rows' = [rows EXCEPT ![journal.task] = status]
    BY DEF Reconciles
<1>3. \/ status = rows[journal.task]
      \/ rows[journal.task] = "running" /\ status \in {"failed", "completed"}
    BY <1>2
<1>4. rows \in [Tasks -> {"absent", "running", "failed", "completed"}]
    BY DEF TypeOK
<1>5. journal' = None
    BY DEF Reconciles
<1>6. QED
    BY <1>1, <1>2, <1>3, <1>4, <1>5 DEF Settles

LEMMA SameRowsSettle == ASSUME TypeOK, UNCHANGED rows PROVE Settles
  BY DEF TypeOK, Settles

(* Recovery, and failures that leave an attempt behind. *)
LEMMA RecoverySteps ==
    ASSUME IInv, NEW p \in Runners,
           Recovered(p) \/ RecoveryFails(p) \/ AttemptFails(p) \/ HandleRateLimit(p)
    PROVE  Keeps(p)
<1>0. TypeOK /\ Shared /\ Local(p)
    BY DEF IInv
<1>1. /\ rows \in [Tasks -> {"absent", "running", "failed", "completed"}]
      /\ prepared \subseteq Tasks
      /\ journal \in Journal \cup {None} /\ faults \in 0..MaxFaults
    BY <1>0 DEF TypeOK
<1>2. /\ control # None => \A t \in control.done : rows[t] = "completed"
      /\ \A t \in Tasks : rows[t] = "running" => \A u \in Tasks : u < t => u \in control.done
      /\ control # None /\ control.status = "running" /\ journal # None
            => control.current = journal.task
      /\ control # None => control.done \subseteq Tasks
    BY <1>0 DEF Shared, CompletionIsBacked, SRunning, CurrentIsPending, TypeOK, Control
<1> USE DEF Local, LSelf, LFile, LWork, LLock, LFresh, LTask, LError, LRate, LCreate, LBegun,
            LActive, LRetry, LUndone, LOrder, LNext, LCurrent, LCancel, LNoJournal, LJournal, LRow,
            Ongoing, Unfinished, Idle, Begun, Undone, InTask, InLoop, Active, Thrown, Inside,
            Guarded, Awaits, Chat
<1>3. ASSUME Recovered(p) PROVE Keeps(p)
  <2>1. proc[p].pc = "recovering" /\ Unfinished /\ proc[p].idx \in Tasks
    BY <1>3, <1>0 DEF Recovered, At
  <2>2. /\ Moves(p, "recovered")
        /\ Settles
        /\ journal' = None
    <3>1. Moves(p, "recovered")
      BY <1>3, <2>1, <1>0, GotoMoves DEF Recovered, Steps
    <3>2. journal # None
      BY <1>3, <2>1, <1>0 DEF Recovered
    <3>3. Settles /\ journal' = None
      BY <1>3, <2>1, <1>0, <3>2, ReconcilesRows DEF Recovered
    <3>4. QED
      BY <2>1, <3>1, <3>2, <3>3
  <2>3. Works
    BY <1>3, <1>1, <2>1, <2>2 DEF Recovered, Works, Task, Settles
  <2>4. UNCHANGED <<control, lock, now>>
    BY <2>3 DEF Works
  <2>5. TypeOK' /\ Shared'
    <3>1. \A t \in control.done : rows'[t] = "completed"
      BY <1>0, <1>1, <1>2, <2>1, <2>2 DEF Settles
    <3>2. journal' # None /\ control.status = "running" => control.current = journal'.task
      BY <1>0, <1>1, <1>2, <2>1, <2>2 DEF Settles
    <3>3. \A t \in Tasks : rows'[t] = "running" => \A u \in Tasks : u < t => u \in control.done
      BY <1>0, <1>1, <1>2, <2>1, <2>2 DEF Settles
    <3>4. proc' \in [Runners -> Process]
      BY <2>2 DEF Moves, Throws, Alone
    <3>5. QED
      BY <1>0, <2>1, <2>3, <3>1, <3>2, <3>3, <3>4, WorksKeep
  <2>6. Local(p)'
    BY <1>0, <1>1, <2>1, <2>2, <2>4 DEF Moves, Throws, Settles
  <2>7. QED
    BY <2>2, <2>5, <2>6 DEF Keeps, Moves, Throws, Alone
<1>4. ASSUME RecoveryFails(p) PROVE Keeps(p)
  <2>1. proc[p].pc = "recovering" /\ Unfinished /\ proc[p].idx \in Tasks
    BY <1>4, <1>0 DEF RecoveryFails, At
  <2>2. /\ journal # None
        /\ \/ Throws(p, "rate", "recovered") /\ now + RetryAfter <= MaxTime /\ journal' = None
           \/ Throws(p, "rate", "raise") /\ now + RetryAfter <= MaxTime
           \/ Throws(p, "other", "recovered") /\ journal' = None
           \/ Throws(p, "other", "raise")
        /\ Settles
        /\ \/ journal' = None
           \/ journal' \in Journal /\ journal' # None /\ journal'.task = journal.task
    <3>1. journal # None /\ journal \in Journal
      BY <1>4, <2>1, <1>0, <1>1 DEF RecoveryFails
    <3>2. PICK e \in {"rate", "other"} :
            /\ Throwable(e)
            /\ \/ Reconciles /\ Throw(p, e, "recovered")
               \/ e = "rate" /\ DeferJournal /\ Throw(p, e, "raise") /\ UNCHANGED rows
               \/ e = "other" /\ Throw(p, e, "raise") /\ UNCHANGED <<rows, journal>>
      BY <1>4, <2>1 DEF RecoveryFails
    <3>3. e = "rate" => now + RetryAfter <= MaxTime
      BY <1>4, <2>1, <3>2 DEF RecoveryFails, Throwable
    <3>4. Throw(p, e, "recovered") => Throws(p, e, "recovered")
      BY <1>4, <2>1, <1>0, ThrowThrows DEF RecoveryFails, Steps
    <3>5. Throw(p, e, "raise") => Throws(p, e, "raise")
      BY <1>4, <2>1, <1>0, ThrowThrows DEF RecoveryFails, Steps
    <3>6. DeferJournal /\ e = "rate" =>
            journal' \in Journal /\ journal' # None /\ journal'.task = journal.task
      BY <1>4, <2>1, <1>0, <3>1, <3>3, DeferKeepsTask DEF RecoveryFails
    <3>7. Reconciles => Settles /\ journal' = None
      BY <1>4, <2>1, <1>0, <3>1, ReconcilesRows DEF RecoveryFails
    <3>8. CASE Reconciles /\ Throw(p, e, "recovered")
      BY <1>4, <2>1, <3>1, <3>2, <3>3, <3>4, <3>7, <3>8 DEF RecoveryFails
    <3>9. CASE e = "rate" /\ DeferJournal /\ Throw(p, e, "raise") /\ UNCHANGED rows
      BY <1>4, <2>1, <1>0, <3>1, <3>3, <3>5, <3>6, <3>9, SameRowsSettle DEF RecoveryFails
    <3>10. CASE e = "other" /\ Throw(p, e, "raise") /\ UNCHANGED <<rows, journal>>
      BY <1>4, <2>1, <1>0, <3>1, <3>5, <3>10, SameRowsSettle DEF RecoveryFails
    <3>11. QED
      BY <3>2, <3>8, <3>9, <3>10
  <2>3. Works
    BY <1>4, <1>1, <2>1, <2>2, FaultCounts, <1>0 DEF RecoveryFails, Works, Task, Settles
  <2>4. UNCHANGED <<control, lock, now>>
    BY <2>3 DEF Works
  <2>5. TypeOK' /\ Shared'
    <3>1. \A t \in control.done : rows'[t] = "completed"
      BY <1>0, <1>1, <1>2, <2>1, <2>2 DEF Settles
    <3>2. journal' # None /\ control.status = "running" => control.current = journal'.task
      BY <1>0, <1>1, <1>2, <2>1, <2>2 DEF Settles
    <3>3. \A t \in Tasks : rows'[t] = "running" => \A u \in Tasks : u < t => u \in control.done
      BY <1>0, <1>1, <1>2, <2>1, <2>2 DEF Settles
    <3>4. proc' \in [Runners -> Process]
      BY <2>2 DEF Moves, Throws, Alone
    <3>5. QED
      BY <1>0, <2>1, <2>3, <3>1, <3>2, <3>3, <3>4, WorksKeep
  <2>6. Local(p)'
    BY <1>0, <1>1, <2>1, <2>2, <2>4 DEF Moves, Throws, Settles
  <2>7. QED
    BY <2>2, <2>5, <2>6 DEF Keeps, Moves, Throws, Alone
<1>5. ASSUME AttemptFails(p) PROVE Keeps(p)
  <2>1. proc[p].pc \in {"starting", "working", "committed"} /\ Unfinished /\ proc[p].idx \in Tasks
    BY <1>5, <1>0 DEF AttemptFails, At
  <2>2. /\ \/ Throws(p, "rate", "handler") /\ now + RetryAfter <= MaxTime
           \/ Throws(p, "other", "handler")
        /\ rows' \in [Tasks -> {"absent", "running", "failed", "completed"}]
        /\ \A t \in Tasks : rows'[t] = rows[t] \/ (t = proc[p].idx /\ rows'[t] = "failed")
        /\ journal' \in {journal, None}
    <3>1. PICK e \in {"rate", "other"}, status \in {rows[Task(p)], "failed"},
                entry \in {journal, None} :
            /\ Throwable(e)
            /\ rows' = [rows EXCEPT ![Task(p)] = status]
            /\ journal' = entry
            /\ Throw(p, e, "handler")
      BY <1>5, <2>1 DEF AttemptFails
    <3>2. e = "rate" => now + RetryAfter <= MaxTime
      BY <1>5, <2>1, <3>1 DEF AttemptFails, Throwable
    <3>3. Throws(p, e, "handler")
      BY <1>5, <2>1, <1>0, <3>1, ThrowThrows DEF AttemptFails, Steps
    <3>4. /\ rows' \in [Tasks -> {"absent", "running", "failed", "completed"}]
          /\ \A t \in Tasks : rows'[t] = rows[t] \/ (t = proc[p].idx /\ rows'[t] = "failed")
      BY <1>5, <2>1, <1>1, <3>1 DEF AttemptFails, Task
    <3>5. journal' \in {journal, None}
      BY <1>5, <2>1, <3>1 DEF AttemptFails
    <3>6. QED
      BY <2>1, <3>1, <3>2, <3>3, <3>4, <3>5
  <2>3. Works
    BY <1>5, <1>1, <2>1, <2>2, FaultCounts, <1>0 DEF AttemptFails, Works, Task
  <2>4. UNCHANGED <<control, lock, now>>
    BY <2>3 DEF Works
  <2>5. TypeOK' /\ Shared'
    <3>1. \A t \in control.done : rows'[t] = "completed"
      BY <1>0, <1>1, <1>2, <2>1, <2>2
    <3>2. journal' # None /\ control.status = "running" => control.current = journal'.task
      BY <1>0, <1>1, <1>2, <2>1, <2>2
    <3>3. \A t \in Tasks : rows'[t] = "running" => \A u \in Tasks : u < t => u \in control.done
      BY <1>0, <1>1, <1>2, <2>1, <2>2
    <3>4. proc' \in [Runners -> Process]
      BY <2>2 DEF Moves, Throws, Alone
    <3>5. QED
      BY <1>0, <2>1, <2>3, <3>1, <3>2, <3>3, <3>4, WorksKeep
  <2>6. Local(p)'
    BY <1>0, <1>1, <2>1, <2>2, <2>4 DEF Moves, Throws
  <2>7. QED
    BY <2>2, <2>5, <2>6 DEF Keeps, Moves, Throws, Alone
<1>6. ASSUME HandleRateLimit(p) PROVE Keeps(p)
  <2>1. proc[p].pc = "handler" /\ Unfinished /\ proc[p].idx \in Tasks
    BY <1>6, <1>0 DEF HandleRateLimit, At, HandlerGets
  <2>2. /\ Moves(p, "cleanup")
        /\ proc[p].err = "rate"
        /\ rows' = rows
        /\ \/ journal' = journal
           \/ /\ journal # None
              /\ journal' \in Journal /\ journal' # None /\ journal'.task = journal.task
    <3>1. /\ Cleanup(p, TRUE) /\ proc[p].err = "rate" /\ rows' = rows
          /\ (DeferJournal /\ journal # None) \/ UNCHANGED journal
      BY <1>6, <2>1 DEF HandleRateLimit, HandlerGets
    <3>2. Moves(p, "cleanup")
      BY <1>6, <2>1, <1>0, <3>1, CleanupMoves DEF HandleRateLimit
    <3>3. now + RetryAfter <= MaxTime
      BY <1>6, <2>1, <1>0, <3>1 DEF HandleRateLimit
    <3>4. \/ journal' = journal
           \/ /\ journal # None
              /\ journal' \in Journal /\ journal' # None /\ journal'.task = journal.task
      BY <1>6, <2>1, <1>0, <3>1, <3>3, DeferKeepsTask DEF HandleRateLimit
    <3>5. QED
      BY <2>1, <3>1, <3>2, <3>3, <3>4
  <2>3. Works
    BY <1>6, <1>1, <2>1, <2>2 DEF HandleRateLimit, Works, Task, HandlerGets
  <2>4. UNCHANGED <<control, lock, now>>
    BY <2>3 DEF Works
  <2>5. TypeOK' /\ Shared'
    <3>1. \A t \in control.done : rows'[t] = "completed"
      BY <1>0, <1>1, <1>2, <2>1, <2>2
    <3>2. journal' # None /\ control.status = "running" => control.current = journal'.task
      BY <1>0, <1>1, <1>2, <2>1, <2>2
    <3>3. \A t \in Tasks : rows'[t] = "running" => \A u \in Tasks : u < t => u \in control.done
      BY <1>0, <1>1, <1>2, <2>1, <2>2
    <3>4. proc' \in [Runners -> Process]
      BY <2>2 DEF Moves, Throws, Alone
    <3>5. QED
      BY <1>0, <2>1, <2>3, <3>1, <3>2, <3>3, <3>4, WorksKeep
  <2>6. Local(p)'
    BY <1>0, <1>1, <2>1, <2>2, <2>4 DEF Moves, Throws
  <2>7. QED
    BY <2>2, <2>5, <2>6 DEF Keeps, Moves, Throws, Alone
<1>7. QED
    BY <1>3, <1>4, <1>5, <1>6

(* A committed attempt is reconciled: its task may be finished as well. *)
LEMMA ReconciledStep ==
    ASSUME IInv, NEW p \in Runners, ReconcileDone(p)
    PROVE  Keeps(p)
<1>0. TypeOK /\ Shared /\ Local(p)
    BY DEF IInv
<1>1. /\ proc[p].pc = "reconciling" /\ Unfinished /\ control \in Control
      /\ proc[p].idx \in Tasks /\ rows[proc[p].idx] = "completed" /\ proc[p].err # "none"
    BY <1>0 DEF ReconcileDone, At, TypeOK, Local, LSelf, LFile, LWork, LLock, LFresh, LTask,
       LError, LRate, LCreate, LBegun, LActive, LRetry, LUndone, LOrder, LNext, LCurrent, LCancel,
       LNoJournal, LJournal, LRow, Ongoing, Unfinished, Idle, Begun, Undone, InTask, InLoop,
       Active, Thrown, Inside, Guarded, Awaits, Chat
<1>2. Moves(p, "cleanup")
    BY <1>0, CleanupMoves DEF ReconcileDone
<1>3. /\ control' \in Control /\ control'.status = control.status /\ control'.retry = control.retry
      /\ control'.done = control.done \/ control'.done = control.done \cup {proc[p].idx}
  <2>1. CASE FinishTask(Task(p))
    BY <1>0, <1>1, <2>1, FinishWrites DEF Task, Unfinished
  <2>2. CASE UNCHANGED control
    BY <1>1, <2>2
  <2>3. QED
    BY <2>1, <2>2 DEF ReconcileDone
<1>4. journal' = None /\ UNCHANGED <<rows, prepared, lock, reset, now, faults>> /\ control' # None
    BY <1>3, NoneAssumption DEF ReconcileDone
<1>5. TypeOK'
    BY <1>0, <1>2, <1>3, <1>4 DEF TypeOK, Moves, Alone
<1>6. Shared'
  <2>1. Unfinished'
    BY <1>1, <1>3, <1>4 DEF Unfinished
  <2>2. CompletionIsBacked' /\ CurrentIsPending' /\ SJournal' /\ SRetry'
    BY <1>0, <1>1, <1>3, <1>4, <2>1 DEF Shared, CompletionIsBacked, CurrentIsPending, SJournal,
       SRetry, Unfinished
  <2>3. SRunning' /\ SReset'
    BY <1>0, <1>1, <1>3, <1>4, <2>1 DEF Shared, SRunning, SReset, Unfinished
  <2>4. QED
    BY <2>2, <2>3 DEF Shared
<1>7. Local(p)'
    BY <1>0, <1>1, <1>2, <1>3, <1>4 DEF Moves, Local, LSelf, LFile, LWork, LLock, LFresh, LTask,
       LError, LRate, LCreate, LBegun, LActive, LRetry, LUndone, LOrder, LNext, LCurrent, LCancel,
       LNoJournal, LJournal, LRow, Ongoing, Unfinished, Idle, Begun, Undone, InTask, InLoop,
       Active, Thrown, Inside, Guarded, Awaits, Chat
<1>8. QED
    BY <1>2, <1>5, <1>6, <1>7 DEF Keeps, Moves

(***************************************************************************)
(* A step of p leaves the others what they were: either p is the holder    *)
(* and they are idle, or p is idle and touches nothing they rely on.       *)
(***************************************************************************)
LEMMA IdleStays ==
    ASSUME NEW q \in Runners, Local(q), proc[q].pc \in Idle, proc'[q] = proc[q]
    PROVE  Local(q)'
<1>1. proc[q].err = "none" /\ ~proc[q].cancel
    BY DEF Local, LSelf, LFresh, Idle, Inside, Guarded, Awaits, Chat
<1>2. QED
    BY <1>1, IdleIsLocal

(* The holder moves: the others are idle. *)
LEMMA HolderAlone ==
    ASSUME IInv, NEW p \in Runners, proc[p].pc \notin Idle, Keeps(p)
    PROVE  IInv'
<1>1. lock = p
    BY DEF IInv, Local, LSelf, LLock
<1>2. ASSUME NEW q \in Runners \ {p} PROVE Local(q)'
  <2>1. proc[q].pc \in Idle
    BY <1>1 DEF IInv, Local, LSelf, LLock
  <2>2. QED
    BY <2>1, IdleStays DEF IInv, Keeps, Alone
<1>3. QED
    BY <1>2 DEF IInv, Keeps

(* The shared state is as it was for the holder q of the lock. *)
Undisturbed(q) ==
    /\ UNCHANGED <<control, rows, journal, now>>
    /\ lock = q => lock' = q
    /\ proc'[q] = proc[q]

(* Local speaks of nothing else. *)
LEMMA UndisturbedStays ==
    ASSUME NEW q \in Runners, Local(q), Undisturbed(q)
    PROVE  Local(q)'
  BY DEF Undisturbed, Local, LSelf, LFile, LWork, LLock, LFresh, LTask, LError, LRate, LCreate,
     LBegun, LActive, LRetry, LUndone, LOrder, LNext, LCurrent, LCancel, LNoJournal, LJournal,
     LRow, Ongoing, Unfinished, Idle, Begun, Undone, InTask, InLoop, Active, Thrown, Inside,
     Guarded, Awaits, Chat

(* An idle process moves: the holder, if there is one, does not notice. *)
LEMMA IdleDisturbsNobody ==
    ASSUME IInv, NEW p \in Runners, proc[p].pc \in Idle, Keeps(p),
           UNCHANGED <<control, rows, journal, now>>,
           \A q \in Runners \ {p} : lock = q => lock' = q
    PROVE  IInv'
<1>1. ASSUME NEW q \in Runners \ {p} PROVE Local(q)'
    BY UndisturbedStays DEF IInv, Keeps, Alone, Undisturbed
<1>2. QED
    BY <1>1 DEF IInv, Keeps

(***************************************************************************)
(* Commands that are no runner's, and time.                                *)
(***************************************************************************)
(* superbench-reset-recovery holds the lock, or nobody does. *)
LEMMA NobodyHolds ==
    ASSUME IInv, lock \notin Runners, UNCHANGED proc, NEW q \in Runners
    PROVE  Local(q)'
<1>1. Local(q) /\ proc[q].pc \in Idle
    BY DEF IInv, Local, LSelf, LLock
<1>2. QED
    BY <1>1, IdleStays

(* superbench-pause takes no lock, but only lifts an active status. *)
LEMMA PauseCommandKeeps == ASSUME IInv, PauseCommand PROVE IInv'
<1>0. TypeOK /\ Shared /\ \A p \in Runners : Local(p)
    BY DEF IInv
<1>1. /\ Unfinished /\ control \in Control /\ control.status \in {"running", "resuming"}
      /\ UNCHANGED <<rows, journal, prepared, lock, proc, reset, now>>
    BY <1>0 DEF PauseCommand, Unfinished, TypeOK, work
<1>2. /\ control' \in Control /\ control'.status = "pause_requested" /\ control' # None
      /\ control'.done = control.done /\ control'.retry = control.retry
    BY <1>1, NoneAssumption DEF PauseCommand, RequestPause, Control, Statuses
<1>3. Writes
    BY <1>0, <1>1, <1>2, FaultCounts DEF Writes, PauseCommand, TypeOK
<1>4. TypeOK' /\ Shared'
  <2>1. \A t \in control'.done : rows[t] = "completed"
    BY <1>0, <1>1, <1>2 DEF Shared, CompletionIsBacked, Unfinished
  <2>2. proc' \in [Runners -> Process]
    BY <1>0, <1>1 DEF TypeOK
  <2>3. QED
    BY <1>0, <1>1, <1>2, <1>3, <2>1, <2>2, WritesKeep
<1>5. ASSUME NEW q \in Runners PROVE Local(q)'
    BY <1>0, <1>1, <1>2 DEF Local, LSelf, LFile, LWork, LLock, LFresh, LTask, LError, LRate,
       LCreate, LBegun, LActive, LRetry, LUndone, LOrder, LNext, LCurrent, LCancel, LNoJournal,
       LJournal, LRow, Ongoing, Unfinished, Idle, Begun, Undone, InTask, InLoop, Active, Thrown,
       Inside, Guarded, Awaits, Chat
<1>6. QED
    BY <1>4, <1>5 DEF IInv

(* Time waits for a RateLimited in flight, and passed deadlines stay so. *)
LEMMA TickKeeps == ASSUME IInv, Tick PROVE IInv'
<1>0. TypeOK /\ Shared /\ \A p \in Runners : Local(p)
    BY DEF IInv
<1>1. /\ UNCHANGED <<control, rows, journal, prepared, lock, proc, reset, faults>>
      /\ now' = now + 1 /\ now \in Time /\ now' \in Time
      /\ \A q \in Runners : proc[q].err # "rate"
    BY <1>0, RunControlAssumption DEF Tick, TypeOK, work, Time
<1>2. TypeOK'
    BY <1>0, <1>1 DEF TypeOK
<1>3. control # None => control.retry \in Time
    BY <1>0 DEF TypeOK, Control
<1>4. Shared'
  <2>1. CompletionIsBacked' /\ CurrentIsPending' /\ SJournal' /\ SRunning' /\ SReset'
    BY <1>0, <1>1 DEF Shared, CompletionIsBacked, CurrentIsPending, SJournal, SRunning, SReset,
       Unfinished
  <2>2. SRetry'
    BY <1>0, <1>1, <1>3, RunControlAssumption DEF Shared, SRetry, Time
  <2>3. QED
    BY <2>1, <2>2 DEF Shared
<1>5. ASSUME NEW q \in Runners PROVE Local(q)'
  <2>1. LSelf(q)'
    BY <1>0, <1>1 DEF Local, LSelf, LLock, LFresh, LTask, LError, LRate
  <2>2. LRetry(q)'
    <3>1. CASE proc[q].pc \in Begun \ {"rate_paused"}
      <4>1. control # None /\ control.retry <= now
        BY <1>0, <3>1 DEF Local, LFile, LBegun, LRetry, Unfinished
      <4>2. QED
        BY <1>1, <1>3, <4>1, RunControlAssumption DEF LRetry, Time
    <3>2. CASE proc[q].pc \notin Begun \ {"rate_paused"}
      BY <1>1, <3>2 DEF LRetry
    <3>3. QED
      BY <3>1, <3>2
  <2>3. LFile(q)'
    BY <1>0, <1>1, <2>2 DEF Local, LFile, LCreate, LBegun, LActive, LUndone, LOrder, LNext,
       LCurrent, LCancel, Ongoing, Unfinished
  <2>4. LWork(q)'
    BY <1>0, <1>1 DEF Local, LWork, LNoJournal, LJournal, LRow, Ongoing
  <2>5. QED
    BY <2>1, <2>3, <2>4 DEF Local
<1>6. QED
    BY <1>2, <1>4, <1>5 DEF IInv

(* The attempt of a reset is abandoned under the lock. *)
LEMMA ResetKeeps == ASSUME IInv, ResetRecovery PROVE IInv'
<1> USE NoneAssumption
<1>0. TypeOK /\ Shared /\ \A p \in Runners : Local(p)
    BY DEF IInv
<1>1. CASE ResetInvoked
  <2>1. /\ UNCHANGED <<control, rows, journal, prepared, lock, proc, now>> /\ Unfinished
        /\ reset' = [step |-> "lock", task |-> journal.task] /\ faults' \in 0..MaxFaults
    BY <1>0, <1>1, FaultCounts DEF ResetInvoked, work
  <2>2. reset' \in Reset
    BY <1>0, <1>1, <2>1 DEF ResetInvoked, TypeOK, Journal, Reset
  <2>3. TypeOK'
    BY <1>0, <2>1, <2>2 DEF TypeOK
  <2>4. Shared'
    BY <1>0, <2>1 DEF Shared, CompletionIsBacked, CurrentIsPending, SJournal,
       SRunning, SRetry, SReset, Unfinished
  <2>5. ASSUME NEW q \in Runners PROVE Local(q)'
    BY <1>0, <2>1, UndisturbedStays DEF Undisturbed
  <2>6. QED
    BY <2>3, <2>4, <2>5 DEF IInv
<1>2. CASE ResetAbandon
  <2>1. /\ lock = None /\ lock' = "reset" /\ UNCHANGED <<control, proc, now, faults>>
        /\ reset \in Reset /\ rows[reset.task] = "running" /\ journal' = None
        /\ rows' = [rows EXCEPT ![reset.task] = "failed"]
        /\ prepared' = prepared \cup {reset.task} /\ reset' = [reset EXCEPT !.step = "finish"]
    BY <1>0, <1>2 DEF ResetAbandon, ResetAt, Abandonable, TypeOK
  <2>2. reset' \in Reset /\ reset.task \in Tasks
    BY <2>1 DEF Reset
  <2>3. TypeOK'
    BY <1>0, <2>1, <2>2 DEF TypeOK
  <2>4. Shared'
    <3>1. CompletionIsBacked' /\ CurrentIsPending' /\ SJournal' /\ SRetry'
      BY <1>0, <2>1, <2>2 DEF Shared, CompletionIsBacked, CurrentIsPending, SJournal, SRetry,
         TypeOK, Control
    <3>2. SRunning'
      BY <1>0, <2>1, <2>2 DEF Shared, SRunning, Unfinished, TypeOK
    <3>3. SReset'
      BY <1>0, <2>1, <2>2 DEF Shared, SReset, SRunning, Unfinished
    <3>4. QED
      BY <3>1, <3>2, <3>3 DEF Shared
  <2>5. ASSUME NEW q \in Runners PROVE Local(q)'
    BY <2>1, NobodyHolds
  <2>6. QED
    BY <2>3, <2>4, <2>5 DEF IInv
<1>3. CASE ResetBreaksOff
  <2>1. /\ lock = None /\ UNCHANGED <<control, journal, lock, proc, now>>
        /\ faults' \in 0..MaxFaults
        /\ reset \in Reset /\ rows[reset.task] = "running" /\ reset' = None
        /\ rows' = [rows EXCEPT ![reset.task] = "failed"]
        /\ prepared' = prepared \cup {reset.task}
    BY <1>0, <1>3, FaultCounts DEF ResetBreaksOff, ResetAt, Abandonable, TypeOK
  <2>2. reset.task \in Tasks
    BY <2>1 DEF Reset
  <2>3. TypeOK'
    BY <1>0, <2>1, <2>2 DEF TypeOK
  <2>4. Shared'
    <3>1. CompletionIsBacked' /\ CurrentIsPending' /\ SJournal' /\ SRetry' /\ SReset'
      BY <1>0, <2>1, <2>2 DEF Shared, CompletionIsBacked, CurrentIsPending, SJournal, SRetry,
         SReset, TypeOK, Control, Unfinished
    <3>2. SRunning'
      BY <1>0, <2>1, <2>2 DEF Shared, SRunning, Unfinished, TypeOK
    <3>3. QED
      BY <3>1, <3>2 DEF Shared
  <2>5. ASSUME NEW q \in Runners PROVE Local(q)'
    BY <2>1, NobodyHolds
  <2>6. QED
    BY <2>3, <2>4, <2>5 DEF IInv
<1>4. CASE ResetFinish
  <2>1. /\ reset \in Reset /\ lock = "reset" /\ Unfinished /\ control \in Control
        /\ lock' = None /\ reset' = None /\ UNCHANGED <<rows, journal, proc, now, faults>>
        /\ prepared' \subseteq prepared
        /\ control' = [control EXCEPT !.status = "paused", !.incident = TRUE]
    BY <1>0, <1>4 DEF ResetFinish, ResetAt, TypeOK, Shared, SReset, Unfinished
  <2>2. /\ control' \in Control /\ control' # None /\ control'.status = "paused"
        /\ control'.done = control.done
    BY <2>1 DEF Control, Statuses
  <2>3. TypeOK'
    BY <1>0, <2>1, <2>2 DEF TypeOK
  <2>4. Shared'
    BY <1>0, <2>1, <2>2 DEF Shared, CompletionIsBacked, CurrentIsPending, SJournal,
       SRunning, SRetry, SReset, Unfinished
  <2>5. ASSUME NEW q \in Runners PROVE Local(q)'
    BY <2>1, NobodyHolds
  <2>6. QED
    BY <2>3, <2>4, <2>5 DEF IInv
<1>5. CASE ResetRefused
  <2>1. /\ UNCHANGED <<control, rows, journal, lock, proc, now, faults>> /\ reset' = None
        /\ prepared' \subseteq Tasks
    BY <1>0, <1>5 DEF ResetRefused, ResetAt, TypeOK, Reset
  <2>2. TypeOK'
    BY <1>0, <2>1 DEF TypeOK
  <2>3. Shared'
    BY <1>0, <2>1 DEF Shared, CompletionIsBacked, CurrentIsPending, SJournal,
       SRunning, SRetry, SReset, Unfinished
  <2>4. ASSUME NEW q \in Runners PROVE Local(q)'
    BY <1>0, <2>1, UndisturbedStays DEF Undisturbed
  <2>5. QED
    BY <2>2, <2>3, <2>4 DEF IInv
<1>6. CASE ResetKilled
  <2>1. /\ UNCHANGED <<control, rows, journal, prepared, proc, now>> /\ reset' = None
        /\ faults' \in 0..MaxFaults /\ lock' = IF lock = "reset" THEN None ELSE lock
    BY <1>0, <1>6, FaultCounts DEF ResetKilled, work
  <2>2. TypeOK'
    BY <1>0, <2>1 DEF TypeOK
  <2>3. Shared'
    BY <1>0, <2>1 DEF Shared, CompletionIsBacked, CurrentIsPending, SJournal,
       SRunning, SRetry, SReset, Unfinished
  <2>4. ASSUME NEW q \in Runners PROVE Local(q)'
    BY <1>0, <2>1, UndisturbedStays DEF Undisturbed
  <2>5. QED
    BY <2>2, <2>3, <2>4 DEF IInv
<1>7. QED
    BY <1>1, <1>2, <1>3, <1>4, <1>5, <1>6 DEF ResetRecovery

(***************************************************************************)
(* Every step keeps the invariant.                                         *)
(***************************************************************************)
Step(p) == Invocation(p) \/ Recovery(p) \/ Batch(p) \/ Failure(p) \/ Ending(p) \/ Outside(p)

(* Every action of a runner is in one of the lemmas above. *)
LEMMA StepKeeps ==
    ASSUME IInv, NEW p \in Runners, Step(p)
    PROVE  Keeps(p)
<1>1. CASE Invocation(p)
    BY <1>1, QuietInvocations, RunCreated, RunningSteps DEF Invocation
<1>2. CASE Recovery(p)
    BY <1>2, QuietSteps, PausingSteps, RecoverStep, RecoverySteps, QuietTasks, RunningSteps
       DEF Recovery
<1>3. CASE Batch(p)
    BY <1>3, RunningSteps, PausingSteps, QuietSteps, QuietTasks, AttemptSteps DEF Batch
<1>4. CASE Failure(p)
    BY <1>4, QuietFailures, RecoverySteps, QuietHandler, ReconciledStep, AttemptSteps DEF Failure
<1>5. CASE Ending(p)
    BY <1>5, PausingSteps, QuietSteps, QuietFailures, RunCompleted, RunDeferred DEF Ending
<1>6. CASE Outside(p)
    BY <1>6, RunningSteps, QuietTasks, QuietInvocations DEF Outside
<1>7. QED
    BY <1>1, <1>2, <1>3, <1>4, <1>5, <1>6 DEF Step

(* What a process without the lock can do. *)
IdleStep(p) ==
    RunInvoked(p) \/ ResumeInvoked(p) \/ RunLocked(p) \/ ResumeLocked(p) \/ InvocationRefused(p)
        \/ Kill(p)

LEMMA IdleSteps ==
    ASSUME NEW p \in Runners, Step(p), proc[p].pc \in Idle
    PROVE  IdleStep(p)
<1> USE DEF Idle, At
<1>1. CASE Invocation(p)
    BY <1>1 DEF Invocation, IdleStep, PreflightFails, CreateRun, BeginResume
<1>2. ~Recovery(p)
    BY DEF Recovery, Health, Probe, NothingToRecover, RecoveryDeferred, Recover, Recovered,
       RecoveryCleaned, RecoveryFails, ConfirmRunning
<1>3. ~Batch(p)
    BY DEF Batch, Loop, StartTask, CheckStarted, SkipCompleted, RefuseRunning, PrepareTask,
       TaskPrepared, StartAttempt, StartRow, CompleteAttempt, CleanAttempt, CleanupTask, AfterTask,
       NextTask
<1>4. ~Failure(p)
    BY DEF Failure, RequestFails, PreparationFails, AttemptFails, HandlePause, HandleRateLimit,
       HandleCommitted, HandleRecoverable, HandleFailed, HandlerGets, HandlerFails, ReconcileDone,
       ReconcileFails, RecordStart, RecordFail
<1>5. ~Ending(p)
    BY DEF Ending, Raise, Close, Final, Proof, ProofFails, Recheck, Complete, CancelledIncident,
       Defer, PauseRateLimited, Intervention
<1>6. CASE Outside(p)
    BY <1>6 DEF Outside, IdleStep, Sigint, Watch, Cancelled, Guarded, Awaits, Chat
<1>7. QED
    BY <1>1, <1>2, <1>3, <1>4, <1>5, <1>6 DEF Step

LEMMA StepInvariant ==
    ASSUME IInv, NEW p \in Runners, Step(p)
    PROVE  IInv'
<1>1. Keeps(p)
    BY StepKeeps
<1>2. CASE proc[p].pc \notin Idle
    BY <1>1, <1>2, HolderAlone
<1>3. CASE proc[p].pc \in Idle
  <2>1. IdleStep(p)
    BY <1>3, IdleSteps
  <2>2. /\ UNCHANGED <<control, rows, journal, now>>
        /\ lock' = lock \/ (lock = None /\ lock' = p) \/ (lock = p /\ lock' = None)
    BY <2>1 DEF IdleStep, RunInvoked, ResumeInvoked, RunLocked, ResumeLocked, InvocationRefused,
       Kill, Leave, work
  <2>3. QED
    BY <1>1, <1>3, <2>2, NoneAssumption, IdleDisturbsNobody
<1>4. QED
    BY <1>2, <1>3

LEMMA InitInvariant == Init => IInv
<1> SUFFICES ASSUME Init PROVE IInv
    OBVIOUS
<1> USE NoneAssumption
<1>1. 0 \in Time /\ 0 \in 0..MaxFaults /\ 1 \in 1..(NumTasks + 1)
    BY RunControlAssumption DEF Time
<1>2. NoProcess \in Process
    BY <1>1 DEF NoProcess, Process
<1>3. TypeOK
    BY <1>1, <1>2 DEF Init, TypeOK
<1>4. Shared
    BY DEF Init, Shared, CompletionIsBacked, CurrentIsPending, SJournal, SRunning, SRetry, SReset
<1>5. ASSUME NEW p \in Runners PROVE Local(p)
  <2>1. proc[p].pc = "off" /\ proc[p].err = "none" /\ ~proc[p].cancel
    BY DEF Init, NoProcess
  <2>2. QED
    BY <2>1 DEF Local, LSelf, LFile, LWork, LLock, LFresh, LTask, LError, LRate, LCreate, LBegun,
       LActive, LRetry, LUndone, LOrder, LNext, LCurrent, LCancel, LNoJournal, LJournal, LRow, Idle,
       Begun, Undone, InTask, InLoop, Active, Thrown, Inside, Guarded, Awaits, Chat
<1>6. QED
    BY <1>3, <1>4, <1>5 DEF IInv

LEMMA StutterKeeps == ASSUME IInv, UNCHANGED vars PROVE IInv'
<1>1. TypeOK' /\ Shared'
    BY DEF IInv, vars, work, TypeOK, Shared, CompletionIsBacked, CurrentIsPending, SJournal,
       SRunning, SRetry, SReset, Unfinished
<1>2. ASSUME NEW p \in Runners PROVE Local(p)'
    BY UndisturbedStays DEF IInv, Undisturbed, vars, work
<1>3. QED
    BY <1>1, <1>2 DEF IInv

LEMMA NextInvariant == ASSUME IInv, [Next]_vars PROVE IInv'
<1>1. CASE \E p \in Runners : Step(p)
    BY <1>1, StepInvariant
<1>2. CASE PauseCommand
    BY <1>2, PauseCommandKeeps
<1>3. CASE Tick
    BY <1>3, TickKeeps
<1>4. CASE ResetRecovery
    BY <1>4, ResetKeeps
<1>5. CASE UNCHANGED vars
    BY <1>5, StutterKeeps
<1>6. QED
    BY <1>1, <1>2, <1>3, <1>4, <1>5 DEF Next, Step

(* The inductive invariant holds in every reachable state, for every number *)
(* of runners and tasks, any clock and any bound on faults.                 *)
THEOREM InvariantHolds == Spec => []IInv
<1>1. Init => IInv
    BY InitInvariant
<1>2. IInv /\ [Next]_vars => IInv'
    BY NextInvariant
<1>3. QED
    BY <1>1, <1>2, PTL DEF Spec

(* Type correctness; with it, that a deadline computed from an answer stays *)
(* a time of the clock (Defer, DeferJournal).                               *)
THEOREM TypeCorrect == Spec => []TypeOK
<1>1. IInv => TypeOK
    BY DEF IInv
<1>2. QED
    BY <1>1, InvariantHolds, PTL

(* At most one process executes a run, and it holds RunnerLock (lock.py). *)
THEOREM OneRunner == Spec => []OneActiveRunner
<1>1. IInv => OneActiveRunner
    BY DEF IInv, OneActiveRunner, Local, LSelf, LLock, Idle, Inside, Guarded, Awaits, Chat
<1>2. QED
    BY <1>1, InvariantHolds, PTL

(* Every finished task has a completed row and a completed run has all its  *)
(* tasks finished, although done and completed are written from what        *)
(* storage answered some steps earlier (finish_task, complete).             *)
THEOREM CompletionBacked == Spec => []CompletionIsBacked
<1>1. IInv => CompletionIsBacked
    BY DEF IInv, Shared
<1>2. QED
    BY <1>1, InvariantHolds, PTL

(* While the status is running, the pending journal is the current task's  *)
(* (start_task, confirm_running after the recovery).                       *)
THEOREM CurrentPending == Spec => []CurrentIsPending
<1>1. IInv => CurrentIsPending
    BY DEF IInv, Shared
<1>2. QED
    BY <1>1, InvariantHolds, PTL

(***************************************************************************)
(* What a step does to the control file.                                   *)
(***************************************************************************)
Kept      == control'.done = control.done /\ control'.retry = control.retry
Stopped   ==
    /\ Unfinished /\ control' # None /\ Kept
    /\ control'.status \in {"paused", "needs_intervention"}
Begins    == ~Unfinished /\ control' # None /\ control'.status = "running" /\ control'.done = {}
Requests  ==
    /\ Unfinished /\ control' # None /\ Kept
    /\ \/ control'.status = control.status
       \/ control.status \in {"running", "resuming"} /\ control'.status = "pause_requested"
Resumes   == Unfinished /\ control' # None /\ Kept /\ control'.status = "resuming"
Finishes  ==
    /\ Ongoing /\ control' # None
    /\ control'.status = control.status /\ control'.retry = control.retry
    /\ \E t \in Tasks : control'.done = control.done \cup {t}
Confirms  ==
    /\ Ongoing /\ ~Pausing /\ control' # None
    /\ control'.status = "running" /\ control'.done = control.done /\ control.retry <= now
Completes ==
    /\ Ongoing /\ control' # None
    /\ control'.status = "completed" /\ control'.done = control.done /\ control.done = Tasks
    /\ control.retry <= now
Defers    ==
    /\ Unfinished /\ control' # None
    /\ control'.status = control.status /\ control'.done = control.done
    /\ control'.retry >= control.retry

Changes ==
    \/ UNCHANGED control
    \/ Stopped \/ Begins \/ Requests \/ Finishes \/ Confirms \/ Completes \/ Defers

(* pause_if_requested stops the run. *)
LEMMA PauseStops ==
    ASSUME TypeOK, Unfinished, PauseRun
    PROVE  Stopped
  BY PauseWrites, NoneAssumption DEF Stopped, Kept, Unfinished

(* A step of a runner changes the file in one of these ways. *)
LEMMA StepChanges ==
    ASSUME IInv, NEW p \in Runners, Step(p)
    PROVE  Changes \/ (BeginResume(p) /\ Resumes)
<1> USE NoneAssumption
<1>0. TypeOK /\ Shared /\ Local(p)
    BY DEF IInv
<1>1. proc[p].pc \in Begun => Unfinished /\ control \in Control
    BY <1>0 DEF Local, LFile, LBegun, TypeOK, Unfinished
<1>2. proc[p].pc \in Active => Ongoing
    BY <1>0 DEF Local, LFile, LActive
<1>3. CASE Invocation(p)
  <2>1. CASE CreateRun(p)
    <3>1. ~Unfinished
      BY <1>0, <2>1 DEF CreateRun, At, Local, LFile, LCreate
    <3>2. control'.status = "running" /\ control'.done = {} /\ control' \in Control
      BY <1>0, <2>1, RunCreated, ClockIsNat DEF CreateRun, Control, Statuses
    <3>3. QED
      BY <3>1, <3>2 DEF Changes, Begins
  <2>2. CASE BeginResume(p)
    <3>1. Unfinished /\ control \in Control
      BY <1>1, <2>2 DEF BeginResume, At, Begun
    <3>2. control' \in Control /\ control'.status = "resuming" /\ Kept
      BY <2>2, <3>1 DEF BeginResume, Control, Statuses, Kept
    <3>3. QED
      BY <2>2, <3>1, <3>2 DEF Resumes
  <2>3. CASE ~CreateRun(p) /\ ~BeginResume(p)
    BY <1>3, <2>3 DEF Invocation, Changes, RunInvoked, ResumeInvoked, RunLocked, ResumeLocked,
       InvocationRefused, PreflightFails
  <2>4. QED
    BY <2>1, <2>2, <2>3
<1>4. CASE Recovery(p)
  <2>1. CASE Probe(p)
    BY <1>0, <1>1, <2>1, PauseStops DEF Probe, At, Changes, Begun, Inside, Guarded
  <2>2. CASE ConfirmRunning(p)
    <3>1. proc[p].pc = "confirm" /\ Unfinished /\ control \in Control /\ Ongoing
      BY <1>1, <1>2, <2>2 DEF ConfirmRunning, At, Begun, Active, Inside, Guarded
    <3>2. control.retry <= now /\ 0 \in Time
      BY <1>0, <3>1, ClockIsNat DEF Local, LFile, LRetry, Begun, Inside, Guarded
    <3>3. CASE Pausing
      BY <1>0, <2>2, <3>1, <3>3, PauseStops DEF ConfirmRunning, Changes
    <3>4. CASE ~Pausing
      <4>1. control' = [control EXCEPT !.status = "running", !.incident = FALSE, !.retry = 0]
        BY <2>2, <3>4 DEF ConfirmRunning
      <4>2. control' \in Control /\ control'.status = "running" /\ control'.done = control.done
        BY <3>1, <3>2, <4>1 DEF Control, Statuses
      <4>3. QED
        BY <3>1, <3>2, <3>4, <4>2 DEF Changes, Confirms
    <3>5. QED
      BY <3>3, <3>4
  <2>3. CASE ~Probe(p) /\ ~ConfirmRunning(p)
    BY <1>4, <2>3 DEF Recovery, Changes, Health, NothingToRecover, RecoveryDeferred, Recover,
       Recovered, RecoveryCleaned, RecoveryFails
  <2>4. QED
    BY <2>1, <2>2, <2>3
<1>5. ASSUME NEW t \in Tasks, FinishTask(t), Ongoing PROVE Finishes
    BY <1>0, <1>5, FinishWrites DEF Finishes, Ongoing
<1>6. CASE Batch(p)
  <2>1. CASE Loop(p) \/ CheckStarted(p) \/ NextTask(p)
    <3>1. Unfinished
      BY <1>1, <2>1 DEF Loop, CheckStarted, NextTask, At, Begun, Inside, Guarded, Awaits
    <3>2. PauseRun \/ UNCHANGED control
      BY <2>1 DEF Loop, CheckStarted, NextTask
    <3>3. QED
      BY <1>0, <3>1, <3>2, PauseStops DEF Changes
  <2>2. CASE StartTask(p)
    <3>1. proc[p].pc = "start" /\ Unfinished /\ control \in Control
      BY <1>1, <2>2 DEF StartTask, At, Begun, Inside, Guarded
    <3>2. proc[p].idx \in Tasks
      BY <1>0, <3>1 DEF Local, LSelf, LTask, InTask, Undone
    <3>3. control' \in Control /\ control'.status = control.status /\ Kept
      BY <2>2, <3>1, <3>2 DEF StartTask, Task, Control, Kept
    <3>4. QED
      BY <3>1, <3>3 DEF Changes, Requests
  <2>3. CASE SkipCompleted(p) \/ AfterTask(p)
    <3>1. Ongoing /\ proc[p].idx \in Tasks
      BY <1>0, <1>2, <2>3 DEF SkipCompleted, AfterTask, At, Active, Inside, Guarded, Awaits, Local,
         LSelf, LTask, InTask, Undone
    <3>2. FinishTask(proc[p].idx) \/ UNCHANGED control
      BY <2>3 DEF SkipCompleted, AfterTask, Task
    <3>3. QED
      BY <1>5, <3>1, <3>2 DEF Changes
  <2>4. CASE ~(Loop(p) \/ CheckStarted(p) \/ NextTask(p) \/ StartTask(p) \/ SkipCompleted(p)
                 \/ AfterTask(p))
    BY <1>6, <2>4 DEF Batch, Changes, RefuseRunning, PrepareTask, TaskPrepared, StartAttempt,
       StartRow, CompleteAttempt, CleanAttempt, CleanupTask
  <2>5. QED
    BY <2>1, <2>2, <2>3, <2>4
<1>7. CASE Failure(p)
  <2>1. CASE ReconcileDone(p)
    <3>1. Ongoing /\ proc[p].idx \in Tasks
      BY <1>0, <1>2, <2>1 DEF ReconcileDone, At, Active, Inside, Guarded, Awaits, Chat, Local,
         LSelf, LTask, InTask, Undone
    <3>2. FinishTask(proc[p].idx) \/ UNCHANGED control
      BY <2>1 DEF ReconcileDone, Task
    <3>3. QED
      BY <1>5, <3>1, <3>2 DEF Changes
  <2>2. CASE ~ReconcileDone(p)
    BY <1>7, <2>2 DEF Failure, Changes, RequestFails, PreparationFails, AttemptFails, HandlePause,
       HandleRateLimit, HandleCommitted, HandleRecoverable, HandleFailed, HandlerGets, HandlerFails,
       ReconcileFails, RecordStart, RecordFail
  <2>3. QED
    BY <2>1, <2>2
<1>8. CASE Ending(p)
  <2>1. CASE Raise(p) \/ Final(p) \/ Recheck(p) \/ CancelledIncident(p)
    <3>1. Unfinished
      BY <1>1, <2>1 DEF Raise, Final, Recheck, CancelledIncident, At, Begun, Inside, Guarded
    <3>2. PauseRun \/ UNCHANGED control
      BY <2>1 DEF Raise, Final, Recheck, CancelledIncident
    <3>3. QED
      BY <1>0, <3>1, <3>2, PauseStops DEF Changes
  <2>2. CASE PauseRateLimited(p) \/ Intervention(p)
    <3>1. Unfinished /\ control \in Control
      BY <1>1, <2>2 DEF PauseRateLimited, Intervention, At, Begun, Inside
    <3>2. PICK s \in {"paused", "needs_intervention"} :
             control' = [control EXCEPT !.status = s, !.incident = TRUE]
      BY <2>2 DEF PauseRateLimited, Intervention
    <3>3. control' \in Control /\ control'.status = s /\ Kept
      BY <3>1, <3>2 DEF Control, Statuses, Kept
    <3>4. QED
      BY <3>1, <3>3 DEF Changes, Stopped
  <2>3. CASE Complete(p)
    <3>1. proc[p].pc = "complete" /\ Ongoing /\ Unfinished /\ control \in Control
      BY <1>1, <1>2, <2>3 DEF Complete, At, Active, Begun, Inside, Guarded
    <3>2. control.retry <= now /\ 0 \in Time /\ control.done = Tasks
      BY <1>0, <2>3, <3>1, ClockIsNat DEF Complete, Local, LFile, LRetry, Begun, Inside, Guarded,
         Control
    <3>3. control' = [control EXCEPT !.status = "completed", !.current = None, !.incident = FALSE,
                                     !.retry = 0]
      BY <2>3 DEF Complete
    <3>4. /\ control' \in Control /\ control'.status = "completed"
          /\ control'.done = control.done
      BY <3>1, <3>2, <3>3 DEF Control, Statuses
    <3>5. QED
      BY <3>1, <3>2, <3>4 DEF Changes, Completes
  <2>4. CASE Defer(p)
    <3>1. Unfinished /\ control \in Control /\ control' \in Control
      BY <1>1, <2>4, RunDeferred DEF Defer, At, Begun, Inside
    <3>2. PICK d \in Int : control' = [control EXCEPT !.retry = Later(@, d)]
      BY <1>0, <2>4, RunControlAssumption DEF Defer, TypeOK, Journal, Time
    <3>3. control.retry \in Int
      BY <3>1, RunControlAssumption DEF Control, Time
    <3>4. /\ control'.status = control.status /\ control'.done = control.done
          /\ control'.retry >= control.retry
      BY <3>1, <3>2, <3>3 DEF Control, Later
    <3>5. QED
      BY <3>1, <3>4 DEF Changes, Defers
  <2>5. CASE Close(p) \/ Proof(p) \/ ProofFails(p)
    BY <2>5 DEF Changes, Close, Proof, ProofFails
  <2>6. QED
    BY <1>8, <2>1, <2>2, <2>3, <2>4, <2>5 DEF Ending
<1>9. CASE Outside(p)
  <2>1. CASE Sigint(p)
    <3>1. Unfinished /\ control \in Control
      BY <1>1, <2>1 DEF Sigint, Begun, Inside
    <3>2. control' \in Control /\ Kept
          /\ \/ control'.status = control.status
             \/ control.status \in {"running", "resuming"} /\ control'.status = "pause_requested"
      BY <2>1, <3>1 DEF Sigint, RequestPause, Control, Statuses, Kept
    <3>3. QED
      BY <3>1, <3>2 DEF Changes, Requests
  <2>2. CASE Watch(p) \/ Cancelled(p) \/ Kill(p)
    BY <2>2 DEF Changes, Watch, Cancelled, Kill
  <2>3. QED
    BY <1>9, <2>1, <2>2 DEF Outside
<1>10. QED
    BY <1>3, <1>4, <1>6, <1>7, <1>8, <1>9 DEF Step

(* Whoever moves: the resumes are told apart, since they alone lift a pause. *)
LEMMA NextChanges ==
    ASSUME IInv, [Next]_vars
    PROVE  Changes \/ ((\E p \in Runners : BeginResume(p)) /\ Resumes)
<1> USE NoneAssumption
<1>0. TypeOK /\ Shared
    BY DEF IInv
<1>1. CASE \E p \in Runners : Step(p)
    BY <1>1, StepChanges
<1>2. CASE PauseCommand
  <2>1. Unfinished /\ control \in Control
    BY <1>0, <1>2 DEF PauseCommand, TypeOK, Unfinished
  <2>2. /\ control' \in Control /\ Kept
        /\ control.status \in {"running", "resuming"} /\ control'.status = "pause_requested"
    BY <1>2, <2>1 DEF PauseCommand, RequestPause, Control, Statuses, Kept
  <2>3. QED
    BY <2>1, <2>2 DEF Changes, Requests
<1>3. CASE Tick
    BY <1>3 DEF Tick, Changes
<1>4. CASE ResetRecovery
  <2>1. CASE ResetFinish
    <3>1. Unfinished /\ control \in Control
      BY <1>0, <2>1 DEF ResetFinish, ResetAt, Shared, SReset, TypeOK, Unfinished
    <3>2. control' \in Control /\ control'.status = "paused" /\ Kept
      BY <2>1, <3>1 DEF ResetFinish, Control, Statuses, Kept
    <3>3. QED
      BY <3>1, <3>2 DEF Changes, Stopped
  <2>2. CASE ~ResetFinish
    BY <1>4, <2>2 DEF ResetRecovery, ResetInvoked, ResetAbandon, ResetBreaksOff, ResetRefused,
       ResetKilled, Changes
  <2>3. QED
    BY <2>1, <2>2
<1>5. CASE UNCHANGED vars
    BY <1>5 DEF vars, Changes
<1>6. QED
    BY <1>1, <1>2, <1>3, <1>4, <1>5 DEF Next, Step

(* A deadline is only forgotten once it has passed: what confirm_running   *)
(* and complete clear was looked at when the run began or was resumed.     *)
THEOREM DeferralStands == Spec => DeferralKept
<1>1. ASSUME IInv, [Next]_vars, control # None, control.retry > now
      PROVE  control'.retry >= control.retry
  <2>1. control \in Control /\ now \in Time
    BY <1>1 DEF IInv, TypeOK
  <2>2. control.retry \in Int /\ now \in Int
    BY <2>1, RunControlAssumption DEF Control, Time
  <2>3. ~Begins
    BY <1>1, <2>2 DEF IInv, Shared, SRetry, Begins, Unfinished
  <2>4. ~Confirms /\ ~Completes
    BY <1>1, <2>2 DEF Confirms, Completes
  <2>5. CASE Stopped \/ Requests \/ Resumes
    BY <2>2, <2>5 DEF Stopped, Requests, Resumes, Kept
  <2>6. CASE Finishes \/ Defers \/ UNCHANGED control
    BY <2>2, <2>6 DEF Finishes, Defers
  <2>7. QED
    BY <1>1, <2>3, <2>4, <2>5, <2>6, NextChanges DEF Changes
<1>2. IInv /\ [Next]_vars =>
        [control # None /\ control.retry > now => control'.retry >= control.retry]_vars
    BY <1>1
<1>3. QED
    BY <1>2, InvariantHolds, PTL DEF Spec, DeferralKept

(* A requested pause stands until a resume begins or the run is completed:  *)
(* no transaction of a runner sets the run to running again.                *)
THEOREM PauseLasts == Spec => PauseStands
<1>1. ASSUME IInv, [Next]_vars, control # None, Pausing, ~\E p \in Runners : BeginResume(p)
      PROVE  control'.status \in {"pause_requested", "paused", "needs_intervention", "completed"}
    BY <1>1, NextChanges DEF Changes, Stopped, Begins, Requests, Finishes, Confirms, Completes,
       Defers, Pausing, Unfinished
<1>2. IInv /\ [Next]_vars =>
        [(control # None /\ Pausing /\ ~\E p \in Runners : BeginResume(p))
            => control'.status \in
                 {"pause_requested", "paused", "needs_intervention", "completed"}]_vars
    BY <1>1
<1>3. QED
    BY <1>2, InvariantHolds, PTL DEF Spec, PauseStands

(***************************************************************************)
(* The control file implements RunLifecycle.                               *)
(***************************************************************************)
(* The phases of RunLifecycle are sets of statuses. *)
LEMMA PhaseOfStatus ==
    ASSUME control # None, control \in Control
    PROVE  /\ LifecyclePhase = "active" <=> Ongoing
           /\ LifecyclePhase = "stopped" <=> control.status \in {"paused", "needs_intervention"}
           /\ LifecyclePhase = "completed" <=> ~Unfinished
           /\ LifecyclePhase # "none"
           /\ FinishedTasks = control.done
  BY DEF LifecyclePhase, FinishedTasks, Ongoing, Unfinished, Control, Statuses

(* Each change of the file is a transition of RunLifecycle or a stutter. *)
LEMMA LifecycleSteps ==
    ASSUME IInv, [Next]_vars
    PROVE  [Lifecycle!Next]_<<LifecyclePhase, FinishedTasks>>
<1>0. control \in Control \cup {None} /\ control' \in Control \cup {None}
    BY NextInvariant DEF IInv, TypeOK
<1>1. CASE UNCHANGED control
    BY <1>1 DEF LifecyclePhase, FinishedTasks
<1>2. CASE Begins
  <2>1. LifecyclePhase \in {"none", "completed"}
    BY <1>0, <1>2, PhaseOfStatus DEF Begins, LifecyclePhase
  <2>2. LifecyclePhase' = "active" /\ FinishedTasks' = {}
    BY <1>2 DEF Begins, LifecyclePhase, FinishedTasks
  <2>3. QED
    BY <2>1, <2>2 DEF Lifecycle!Next, Lifecycle!Begin
<1>3. CASE Stopped
  <2>1. LifecyclePhase \in {"active", "stopped"} /\ FinishedTasks = control.done
    BY <1>0, <1>3 DEF Stopped, Unfinished, LifecyclePhase, FinishedTasks, Control, Statuses
  <2>2. LifecyclePhase' = "stopped" /\ FinishedTasks' = control.done
    BY <1>3 DEF Stopped, Kept, LifecyclePhase, FinishedTasks
  <2>3. QED
    BY <2>1, <2>2 DEF Lifecycle!Next, Lifecycle!Stop
<1>4. CASE Resumes
  <2>1. LifecyclePhase \in {"active", "stopped"} /\ FinishedTasks = control.done
    BY <1>0, <1>4 DEF Resumes, Unfinished, LifecyclePhase, FinishedTasks, Control, Statuses
  <2>2. LifecyclePhase' = "active" /\ FinishedTasks' = control.done
    BY <1>4 DEF Resumes, Kept, LifecyclePhase, FinishedTasks
  <2>3. QED
    BY <2>1, <2>2 DEF Lifecycle!Next, Lifecycle!Resume
<1>5. CASE Requests \/ Defers
  <2>1. control # None /\ FinishedTasks' = FinishedTasks
    BY <1>5 DEF Requests, Defers, Kept, FinishedTasks, Unfinished
  <2>2. LifecyclePhase' = LifecyclePhase
    <3>1. CASE control'.status = control.status
      BY <1>0, <1>5, <2>1, <3>1 DEF Requests, Defers, LifecyclePhase, Control, Statuses
    <3>2. CASE control.status \in {"running", "resuming"} /\ control'.status = "pause_requested"
      BY <1>5, <2>1, <3>2 DEF Requests, Defers, LifecyclePhase
    <3>3. QED
      BY <1>5, <3>1, <3>2 DEF Requests, Defers
  <2>3. QED
    BY <2>1, <2>2
<1>6. CASE Finishes
  <2>1. LifecyclePhase = "active" /\ FinishedTasks = control.done
    BY <1>6 DEF Finishes, Ongoing, LifecyclePhase, FinishedTasks
  <2>2. LifecyclePhase' = "active" /\ \E t \in Tasks : FinishedTasks' = control.done \cup {t}
    BY <1>6 DEF Finishes, Ongoing, LifecyclePhase, FinishedTasks
  <2>3. QED
    BY <2>1, <2>2 DEF Lifecycle!Next, Lifecycle!Finish
<1>7. CASE Confirms
    BY <1>7 DEF Confirms, Ongoing, LifecyclePhase, FinishedTasks
<1>8. CASE Completes
  <2>1. LifecyclePhase = "active" /\ FinishedTasks = Tasks
    BY <1>8 DEF Completes, Ongoing, LifecyclePhase, FinishedTasks
  <2>2. LifecyclePhase' = "completed" /\ FinishedTasks' = Tasks
    BY <1>8 DEF Completes, LifecyclePhase, FinishedTasks
  <2>3. QED
    BY <2>1, <2>2 DEF Lifecycle!Next, Lifecycle!Complete
<1>9. QED
    BY <1>1, <1>2, <1>3, <1>4, <1>5, <1>6, <1>7, <1>8, NextChanges DEF Changes

(* The control file, whoever writes it, takes a run only along the          *)
(* transitions of RunLifecycle.                                             *)
THEOREM LifecycleRefined == Spec => LifecycleSpec
<1>1. Init => Lifecycle!Init
    BY DEF Init, Lifecycle!Init, LifecyclePhase, FinishedTasks
<1>2. IInv /\ [Next]_vars => [Lifecycle!Next]_<<LifecyclePhase, FinishedTasks>>
    BY LifecycleSteps
<1>3. QED
    BY <1>1, <1>2, InvariantHolds, PTL DEF Spec, LifecycleSpec, Lifecycle!Spec

(***************************************************************************)
(* Starting an attempt, and the end of a process.                          *)
(***************************************************************************)
(* Where an attempt starts, no row runs: LOrder and SRunning leave only    *)
(* the task itself, and LRow excludes it.                                  *)
LEMMA NothingRuns ==
    ASSUME IInv, NEW p \in Runners, proc[p].pc \in {"attempt", "starting", "record"}
    PROVE  \A t \in Tasks : rows[t] # "running"
<1>1. /\ proc[p].idx \in Tasks /\ rows[proc[p].idx] # "running" /\ proc[p].idx \notin control.done
      /\ \A t \in Tasks : t < proc[p].idx => t \in control.done
      /\ Unfinished
    BY DEF IInv, Local, LSelf, LFile, LWork, LTask, LRow, LUndone, LOrder, LBegun, InTask, InLoop,
       Undone, Begun, Inside, Guarded, Awaits
<1>2. ASSUME NEW t \in Tasks, rows[t] = "running" PROVE FALSE
  <2>1. \A u \in Tasks : u < t => u \in control.done
    BY <1>2 DEF IInv, Shared, SRunning
  <2>2. t \notin control.done
    BY <1>1, <1>2 DEF IInv, Shared, CompletionIsBacked, Unfinished
  <2>3. ~(proc[p].idx < t) /\ ~(t < proc[p].idx) /\ t # proc[p].idx
    BY <1>1, <1>2, <2>1, <2>2
  <2>4. QED
    BY <1>1, <2>3, RunControlAssumption DEF Tasks
<1>3. QED
    BY <1>2

(* An attempt starts only when nothing runs and no recovery is pending: no *)
(* 409 of storage, no journal of another attempt is overwritten.           *)
THEOREM StartsClean == Spec => AttemptStartsClean
<1>1. ASSUME IInv, NEW p \in Runners
      PROVE  /\ StartAttempt(p) \/ StartRow(p) \/ RecordStart(p)
                    => \A t \in Tasks : rows[t] # "running"
             /\ StartAttempt(p) \/ RecordStart(p) => journal = None
  <2>1. Local(p)
    BY <1>1 DEF IInv
  <2>2. StartAttempt(p) \/ StartRow(p) \/ RecordStart(p) =>
            proc[p].pc \in {"attempt", "starting", "record"}
    BY DEF StartAttempt, StartRow, RecordStart, At
  <2>3. StartAttempt(p) \/ RecordStart(p) => journal = None
    BY <2>1 DEF StartAttempt, RecordStart, At, Local, LWork, LNoJournal
  <2>4. QED
    BY <1>1, <2>2, <2>3, NothingRuns
<1>2. IInv =>
        [\A p \in Runners :
           /\ StartAttempt(p) \/ StartRow(p) \/ RecordStart(p)
                  => \A t \in Tasks : rows[t] # "running"
           /\ StartAttempt(p) \/ RecordStart(p) => journal = None]_vars
    BY <1>1
<1>3. QED
    BY <1>2, InvariantHolds, PTL DEF AttemptStartsClean

(* Only these actions end a process that executes a run. *)
LEMMA WhoLeaves ==
    ASSUME TypeOK, NEW p \in Runners, Step(p), Executing(p), proc'[p].pc = "off", ~Kill(p)
    PROVE  Final(p) \/ Recheck(p) \/ Complete(p) \/ CancelledIncident(p) \/ PauseRateLimited(p)
              \/ Intervention(p)
<1>1. proc \in [Runners -> Process] /\ proc[p].pc \notin {"off"} \cup Before
    BY DEF TypeOK, Executing, Before, Inside, Guarded, Awaits, Chat
<1>2. \A step : Goto(p, step) => step = "off"
    BY <1>1 DEF Goto, Process
<1>3. \A e, step : Throw(p, e, step) => step = "off"
    BY <1>1 DEF Throw, Process
<1>4. ~Advance(p) /\ \A keep : ~Cleanup(p, keep)
    BY <1>1 DEF Advance, Cleanup, Process
<1>5. ~Invocation(p)
    BY <1>1 DEF Invocation, RunInvoked, ResumeInvoked, RunLocked, ResumeLocked, InvocationRefused,
       PreflightFails, CreateRun, BeginResume, At, Before
<1>6. ~Recovery(p)
  <2>1. ~Recover(p) /\ ~ConfirmRunning(p)
    BY <1>1, <1>2 DEF Recover, ConfirmRunning, Process
  <2>2. QED
    BY <1>2, <1>3, <2>1 DEF Recovery, Health, Probe, NothingToRecover, RecoveryDeferred, Recovered,
       RecoveryCleaned, RecoveryFails
<1>7. ~Batch(p)
  <2>1. ~TaskPrepared(p)
    BY <1>1 DEF TaskPrepared, Process
  <2>2. QED
    BY <1>2, <1>3, <1>4, <2>1 DEF Batch, Loop, StartTask, CheckStarted, SkipCompleted,
       RefuseRunning, PrepareTask, StartAttempt, StartRow, CompleteAttempt, CleanAttempt,
       CleanupTask, AfterTask, NextTask
<1>8. ~Failure(p)
  <2>1. ~HandlerFails(p) /\ ~ReconcileFails(p)
    BY <1>1 DEF HandlerFails, ReconcileFails, Process
  <2>2. QED
    BY <1>2, <1>3, <1>4, <2>1 DEF Failure, RequestFails, PreparationFails, AttemptFails,
       HandlePause, HandleRateLimit, HandleCommitted, HandleRecoverable, HandleFailed,
       ReconcileDone, RecordStart, RecordFail
<1>9. ~Raise(p) /\ ~Close(p) /\ ~Proof(p) /\ ~ProofFails(p) /\ ~Defer(p)
    BY <1>2, <1>3 DEF Raise, Close, Proof, ProofFails, Defer
<1>10. ~Sigint(p) /\ ~Watch(p) /\ ~Cancelled(p)
    BY <1>1 DEF Sigint, Watch, Cancelled, CancelTarget, Process, Executing, Inside, Guarded, Awaits,
       Chat
<1>11. QED
    BY <1>5, <1>6, <1>7, <1>8, <1>9, <1>10 DEF Step, Ending, Outside

(* ... and each has written why, or found it written. *)
LEMMA LastWrites ==
    ASSUME IInv, NEW p \in Runners, Step(p), Executing(p), proc'[p].pc = "off", ~Kill(p)
    PROVE  control'.status \in {"paused", "needs_intervention", "completed"}
<1>0. TypeOK /\ Local(p)
    BY DEF IInv
<1>1. Unfinished /\ control \in Control
    BY <1>0 DEF Executing, Local, LFile, LBegun, Begun, TypeOK, Unfinished
<1>2. PauseRun => control'.status = "paused"
    BY <1>0, <1>1, PauseWrites DEF Unfinished
<1>3. Final(p) \/ Recheck(p) \/ Complete(p) \/ CancelledIncident(p) \/ PauseRateLimited(p)
         \/ Intervention(p)
    BY <1>0, WhoLeaves
<1>4. CASE Final(p)
  <2>1. ~Goto(p, "proof") /\ ~Throw(p, "other", "incident")
    BY <1>0 DEF Goto, Throw, TypeOK, Process
  <2>2. \/ PauseRun
        \/ control' = control /\ control.status \notin {"pause_requested", "running", "resuming"}
    BY <1>4, <2>1 DEF Final
  <2>3. QED
    BY <1>1, <1>2, <2>2 DEF Control, Statuses
<1>5. CASE Recheck(p)
  <2>1. ~Goto(p, "complete")
    BY <1>0 DEF Goto, TypeOK, Process
  <2>2. QED
    BY <1>2, <1>5, <2>1 DEF Recheck
<1>6. CASE Complete(p)
    BY <1>1, <1>6 DEF Complete, Control
<1>7. CASE CancelledIncident(p)
  <2>1. control.status \notin {"running", "resuming"}
    BY <1>0, <1>7 DEF CancelledIncident, Local, LFile, LCancel
  <2>2. QED
    BY <1>1, <1>2, <1>7, <2>1 DEF CancelledIncident, Pausing, Unfinished, Control, Statuses
<1>8. CASE PauseRateLimited(p) \/ Intervention(p)
    BY <1>1, <1>8 DEF PauseRateLimited, Intervention, Control
<1>9. QED
    BY <1>3, <1>4, <1>5, <1>6, <1>7, <1>8

(* Whoever moves, the process p is not the one that ends unless it takes   *)
(* one of its own steps.                                                   *)
LEMMA EndsByItself ==
    ASSUME IInv, [Next]_vars, NEW p \in Runners, Executing(p), proc'[p].pc = "off"
    PROVE  Step(p)
<1>1. proc'[p] # proc[p]
    BY DEF Executing, Inside, Guarded, Awaits, Chat
<1>2. ~PauseCommand /\ ~Tick /\ ~UNCHANGED vars
    BY <1>1 DEF PauseCommand, Tick, vars
<1>3. ~ResetRecovery
    BY <1>1 DEF ResetRecovery, ResetInvoked, ResetAbandon, ResetBreaksOff, ResetFinish,
       ResetRefused, ResetKilled
<1>4. PICK q \in Runners : Step(q)
    BY <1>2, <1>3 DEF Next, Step
<1>5. Alone(q)
    BY <1>4, StepKeeps DEF Keeps
<1>6. QED
    BY <1>1, <1>4, <1>5 DEF Alone

(* A runner that ends by itself leaves a run that is paused, stopped or    *)
(* completed, however it was cancelled (_execute_locked).                  *)
THEOREM StopsRecorded == Spec => StopsAreRecorded
<1>1. ASSUME IInv, [Next]_vars, NEW p \in Runners, Executing(p), proc'[p].pc = "off", ~Kill(p)
      PROVE  control'.status \in {"paused", "needs_intervention", "completed"}
    BY <1>1, EndsByItself, LastWrites
<1>2. IInv /\ [Next]_vars =>
        [\A p \in Runners : Executing(p) /\ proc'[p].pc = "off" /\ ~Kill(p)
           => control'.status \in {"paused", "needs_intervention", "completed"}]_vars
    BY <1>1
<1>3. QED
    BY <1>2, InvariantHolds, PTL DEF Spec, StopsAreRecorded
=============================================================================
