# TLA+ specifications of the trace extractor

These modules specify the parts of the repository that decide what happens to a
benchmark attempt when processes die, answers get lost and operators interfere.
TLC checks them on small instances; TLAPS proves the main safety results for
every number of tasks, attempts and faults.

    tlc -config RunStorage_safety.cfg MCRunStorage.tla
    tlc -config RunControl_safety.cfg MCRunControl.tla
    tlc -config Workstation.cfg MCWorkstation.tla
    tlapm Broker_proofs.tla

## 1. The system

A *campaign* runs a frozen list of benchmark tasks, one after the other, through
the ChatGPT web page, with one disposable Kali VM per attempt.

| part | state it keeps | operations | where |
|---|---|---|---|
| storage service | one row per task in PostgreSQL | start, conversation, complete, fail | `apps/storage` |
| task runner | journal file, capture file, local variables | run_task, reconcile_journal, abandon_recovery | `runner.py`, `journal.py` |
| run control | active-run file | create, pause, resume, confirm, start/finish task, intervention, complete | `superbench/run_control.py`, `lifecycle.py` |
| scheduler | (none durable) | run_pending: recover, then every task that is not done | `superbench/execution.py` |
| app lifecycle | (none) | prepare, assert_resume, reset, abandon | `app_lifecycle.py`, `workstation_provider.py` |
| workstation broker | directory, libvirt domain and network, firewall table, mount, evaluator index | create, destroy, create_evaluator, rpc, transfers, destroy_all | `apps/workstation-broker` |
| gateway | binding in memory | activate, deactivate, control, proxies | `apps/mcp-gateway` |
| controller | binding in memory | prepare, resume, reset, call, seed, artifacts | `apps/kali-workstation` |
| guest agent | terminals, seed and import sessions | RPC methods | `kali_workstation/guest` |
| ChatGPT client | the page, the network monitor | submit, wait, recover, delete | `chatgpt.py`, `stream.py`, `traffic.py`, `conversation.py` |
| manual Kali | its own state file | start, stop, status | `manual_kali.py` |
| golden image, templates | image, provenance, manifests; generations, `registry.json`; tags of the hub | install, local build, publish, template build | `infra/workstation/image`, `scripts` |
| adapters, catalog, export | (none) | pure data handling | `superbench/adapters`, `exporter.py` |

How they interact.  The runner writes the journal *before* each effect it may
have to undo, then calls storage, the broker (through the lifecycle), the gateway
(which forwards to the controller) and the browser.  Nothing is transactional
across two of them: the order of writes is all that protects an attempt.
`RunnerLock` keeps run, resume, auth and reset-recovery apart.  The control file
is shared with `superbench-pause` and with the signal handler.  The gateway and
the controller lose their binding on a restart; VMs and directories survive.

What is hard: a kill between two durable writes; a lost answer; a resume that
starts from any of the eleven journal phases; undoing that itself fails; a pause
that races completion; the host losing mounts and firewall but not files.
`PROJECT.json` lists each of these hazards at its line with the property that
watches it.

### What makes each part correct

* storage: a completion once acknowledged is final; one running attempt in the
  whole service; a conversation belongs to one row; attempts are numbered
  without gaps; whatever is repeated or delayed.
* runner: the prompt of an attempt leaves at most once; nothing that exists
  outside the database is forgotten; nothing is deleted that is not stored;
  resuming makes progress.
* run control: a pause that was accepted is not lost; *completed* means every
  frozen task is completed in storage; a server's Retry-After is respected.
* broker: whatever a broken-off create or destroy leaves can be found and taken
  down; a networked guest never runs without its firewall; an evaluator's VM is
  indexed before it exists.
* gateway and controller: the backend has one owner, whom its records name.
* manual Kali and benchmarks exclude each other, also through kills and resumes.
* guest: a file is one whole upload; *done* is only reported for what arrived.
* ChatGPT client: what Send posts is the task; only the submitted turn is captured,
  whole, and only what was captured is deleted; a Retry-After is waited out.
* images: what verifies was built from the sources of the checkout; the registry
  names a complete generation over the very base it records.

## 2. Modules

| module | models | kind |
|---|---|---|
| `RunLedger` | what storage promises: attempts opened one at a time, in order, closed once | abstract specification |
| `RunStorage` | `repository.py` behind `main.py`: rows, validations, idempotence | detailed, refines `RunLedger` |
| `MCRunStorage` | TLC instance, symmetry | |
| `RunStorage_proofs` | proofs about `RunStorage` | |
| `WorkstationContract` | what everybody relies on about the VM of an attempt, whoever asks and whatever fails | abstract specification |
| `AttemptRecovery` | `runner.py` and everything an attempt touches | composition, refines `RunLedger` and `WorkstationContract` |
| `MCAttemptRecovery` | TLC instance | |
| `AttemptRecovery_proofs` | proofs about `AttemptRecovery` | |
| `RunLifecycle` | the run as the operator sees it: active, stopped, completed; finished tasks only grow | abstract specification |
| `RunControl` | the active-run file and the processes that share it: `run_control.py`, `lifecycle.py`, `execution.py` | composition, refines `RunLifecycle` |
| `MCRunControl` | TLC instance, symmetry | |
| `RunControl_proofs` | proofs about `RunControl` | |
| `Broker` | what exists on the host for each VM, and the requests that build it and take it down: `workstation_broker/server.py` | detailed below `AttemptRecovery`, refines `WorkstationContract` |
| `Broker_proofs` | proofs about `Broker` | |
| `Binding` | who owns the backend: gateway, controller, `app_lifecycle.py`, `manual_kali.py`, `register-apps` | composition |
| `GuestTransfer` | seed, artifact imports and template artifacts: broker or provider, and `guest/files.py` | composition |
| `GuestTransfer_proofs` | proofs about `GuestTransfer` | |
| `Images` | golden image and template generations: `image/build.py`, `build_swe_gym_lite_templates.py`, `templates.py` | |
| `Images_proofs` | proofs about `Images` | |
| `Binding_proofs` | proofs about `Binding` | |
| `Composer` | from an idle page to the accepted POST: `chatgpt.py`, `tools.py`, `interaction.py`, `traffic.py` | |
| `Readback` | from the accepted POST to the deleted conversation: `chatgpt.py`, `conversation.py`, `stream.py`, `traffic.py` | |
| `ChatGPTClient_proofs` | proofs about `Composer` and `Readback` | |
| `MCWorkstation` | TLC instance of `Broker`, `Binding`, `GuestTransfer`, `Images`, `Composer` and `Readback` | |

### RunStorage

`rows` is the table `runs`; `acks` is a history of the requests answered with
200, which is what a client may rely on.  One handler is one transaction, hence
one action: `StartRun`, `SetConversation`, `CompleteRun`, `FailRun`.  Clients
repeat and delay requests, so any request may arrive at any time; a refused one
changes nothing.  A request is accepted by the conditions of `repository.py` and
of the two constraints of `0001_initial.py`.

### AttemptRecovery

One action per durable write or external effect, in the order of the code.

| variable | code |
|---|---|
| `rows` | status, attempt and conversation of every row |
| `journal` | the file of `JournalStore`: attempt, phase, conversation, whether the user message id was seen |
| `capture` | the file of `write_capture`: which attempt it belongs to |
| `workstation` | resources of an attempt's VM: absent, partial (not accepted by `Broker._read`), ready |
| `evaluator`, `gateway` | evaluator index; binding of the gateway |
| `sent`, `deleted` | conversations that Send created, and those deleted |
| `pc`, `cur`, `conv`, `explicit` | the position and the locals of the runner process |

`RunTask` .. `ClearCapture` are `run_task`/`_run_attempt`; `Undo*` its exception
path; `Reconcile*` the branches of `reconcile_journal`; `Abandon*`
`superbench-reset-recovery`; `*PreRunnerFailure` the row the scheduler writes for
a task that failed before its runner started.  Faults: `KillRunner`,
`RaiseException` (with the real handler), an answer lost after the effect, a
create or a reset that breaks off, a gateway restart, a host crash.

Abstractions. Tasks have a local workstation App (all the built-in benchmarks
do). A cooperative pause is a `KillRunner`, because `CancelledError` passes
through `runner.py` uncaught. Contents of messages, captures and grades are not
represented. The retries and polls inside `prepare` are one step. A conversation
is `<<attempt, n>>` for the n-th Send, which is what duplicates are counted by.

### RunControl

Above one attempt: who may run, what is written to the control file and in which
order, and what stops a run.  `AttemptRecovery` opens up what is here one row, one
journal and one outcome.

| variable | code |
|---|---|
| `control` | the file of `RunControlStore`: status, done tasks, current task, incident fields, `retry_not_before` |
| `rows` | status of the rows, as storage answers |
| `journal` | task and `retry_not_before` of the pending recovery journal |
| `prepared` | tasks whose adapter was prepared and not cleaned up |
| `lock` | holder of `RunnerLock` |
| `proc` | runner processes: position, place in the selection, exception in flight, `runner_started`, `recovery_required`, the state of `SigintPause` and of the watcher task |
| `reset` | `superbench-reset-recovery`, before and after it abandons the attempt |
| `now` | the clock of deadlines |

`Invocation` is `execute_active` up to `_execute_locked`, with the looks at the
file before and under the lock; `Recovery` and `Batch` are `run_pending`;
`Failure` is its `except BaseException` and `finally` for one task; `Ending` is
what `_execute_locked` does with the control file afterwards.  `Sigint`, `Watch`,
`PauseCommand` and the six `Reset*` actions interfere at any step.

Atomicity.  A transaction on the file (flock, read, replace) is one step, since a
SIGINT inside it is held back until it ends.  Between transactions the runner
can be killed or interrupted anywhere, but the watcher task runs, and
`CancelledError` arrives, only where the code awaits: the set `Awaits`.  That is
what decides whether a pause is seen before the run completes.

Left out: limits and pacing between tasks, `validate_frozen` and configuration
drift (the selection is the same on every resume), and the difference between a
second Ctrl+C and a kill.

### Broker

The broker is one asyncio process whose commands block the event loop, so a
request is a `queue` of instructions that nothing interleaves with: `Build` and
`Tear` make or remove one resource per step, in the order of the code
(`BuildRank`, `TearRank`), `WriteRows` replaces `evaluators.json`.  A command may
fail, the broker be killed or the host crash between any two steps.  The one
place where others get a turn is the wait for a booting guest (`booting`); its
timeout tears the VM down unless it has a template.  `Readable` is `_read`: what a
strict destroy, an inspection and an evaluator ask for, and `AbandonAttempt` does
not.  `AttemptRecovery` folds all of this into absent, partial and ready.

### WorkstationContract

Where the two levels meet.  A VM comes only from nothing: what a broken create or
destroy left never becomes usable again, it can only be taken away.  A crash of
the host leaves nothing usable.  An evaluator is recorded only beside a usable
VM, and its record goes with the VM at the latest.  `AttemptRecovery` implements
it with its own variables (`KeepsContract`), so whatever kills, resumes and
abandons the runner, it treats VMs that way; `Broker` implements it command by
command (`BrokerKeepsContract`), where `MachineOf` reads the state of a VM off its
resources and off the request in execution.  `Binding` uses the same states.

### Binding

Every command that uses the backend sends the same requests (`Places`): create or
discover, activate, prepare, serve, reset, deactivate, destroy, and a look at what
is left.  `cmd[c].at` is the request that comes next.  `preparing` holds the
prepares in which the controller awaits the broker: they bind later
(`ControllerBinds`), even when gateway and command have given up.  Kills,
timeouts, broken creates and restarts of gateway, controller and host interfere.

### GuestTransfer

One session per kind in the guest, shared by all clients; begin, chunk, end and
abort are separate RPCs.  An RPC without an answer stays in `late` and may still
be executed at any later time.  Contents and digests are sequences of chunks, so
that a mix of two uploads can be told apart from either.

### Images

An image is the number of its build, and `made[i].from` the versions of the
sources that existed while it was built; `made[i].stamp` is the one its provenance
claims.  `job` walks through `build.py`, `maker` through a template build; both can
stop anywhere.  The sources may change at any time except during a template build.

### Composer

The page outlives the runner, so what an earlier attempt typed is still there.  Text
is a sequence of pieces: the mention, the accepted chip, the beginning and the ending
of a prompt, what arrived when keys were lost, and what others wrote.  The mention is
typed in one step (`TypeMention`), a prompt in two (`TypePrompt`, `TypeRest`), since
`type_text` awaits every line and every Shift+Enter: whatever may happen between two
lines may happen between its beginning and its ending.  Between any two steps
an operator may write, delete a piece, open another conversation, change the effort or
press Send; `page.missing` remembers that something of ours was taken away.

`posts` are the requests that `TrafficMonitor` counts since `begin_task`, each with the
text and effort it had and with who pressed Send; `unheard` are those whose response
has yet to begin, an earlier task's too.  `submit_task` takes the *first* response that
begins from `SubmitTask` on (`step.heard`), and then asks only that one request was
counted and verified (`CheckSubmission`): neither whether that request came from the
click, which may miss, nor whether it came after the typing, nor whether the response
is its own.  `accepted` records which request was taken for which task.

### Readback

One client, one `request` at a time, a clock.  The client finds the durable
conversation by route or by search, waits on the stream and polls, or recovers
after a restart, reads the snapshot, and deletes.  Each request may be answered,
fail, or get a 429; `told[e]` remembers what the backend asked for, and is compared
with when the client asks again.  Others may write into the conversation.

### MCWorkstation

The six modules share no variable.  A behaviour moves one of them, its `focus`,
and the others rest, so one run checks all six on the sum, not the product, of
their states.  What they say to each other is in the modules that compose them:
`AttemptRecovery` over broker and gateway, `Binding` over gateway, controller,
broker and the commands, `RunControl` over attempts.  `BrokerFairness` is stated
for all behaviours; those with another focus in which the broker rests do not
satisfy it and are no candidates for `AbandonGetsThrough`, while invariants and
properties of steps are checked in every reachable state.

## 3. Runs

| run | question | instance |
|---|---|---|
| `storage_safety` | do the promises of storage hold under any requests, and does it implement `RunLedger`? | 2 tasks, 2 runners, 2 conversations, 2 specifications, 2 good and 1 bad capture, 2 attempts |
| `attempt_safety` | do the invariants of recovery hold whatever fails, does the runner implement `RunLedger` and `WorkstationContract`, and does a resumed batch get through? | one hooked and one plain task, 2 attempts, any 3 faults |
| `attempt_row_without_journal` | disagreement, see below | same tasks |
| `attempt_pending_stuck` | disagreement, see below | same tasks |
| `attempt_cleanup_stuck` | disagreement, see below | same tasks |
| `control_safety` | is completion backed, does a deferral or pause stand, is each stop recorded, whatever interferes? | 2 processes, 2 tasks, clock 0..2, any 4 faults |
| `control_progress` | does a pause end a runner that nobody answers, and does a run that is resumed complete? | 1 process, 2 tasks, 3 faults |
| `control_pause_loses` | disagreement, see below | 1 process, 1 task, 2 faults |
| `control_prepared_lost` | disagreement, see below | same |
| `workstation` | do the six components around an attempt keep their promises? | next table |
| `binding_clean` | disagreement, see below | as `Binding` in `workstation` |
| `composer_prompt` | disagreement, see below | as `Composer` in `workstation` |

| part of `workstation` | properties | instance |
|---|---|---|
| `Broker` | `BrokerSafe`, `EvaluatorsAreIndexed`, `BrokerKeepsContract`, `AbandonGetsThrough` | 1 plain and 1 templated attempt, 2 evaluators, 1 waiting create each, 1 fault |
| `Binding` | `BindingSafe` | 2 attempts, the manual and the registration VM, 2 commands, 2 faults |
| `GuestTransfer` | `TransfersAreWhole` | 3 uploads of any kinds (one seed), 2 chunks, 1 lost answer, kill or failed extraction |
| `Images` | `ImagesSafe` | 2 versions, 2 images, 2 generations, any failures |
| `Composer` | `PostedIsTheTask` | 2 tasks, 2 interferences |
| `Readback` | `OwnTurnOnly`, `RetryAfterRespected` | own and 1 other conversation, clock 0..3, windows of 1 and 2, Retry-After 2, 1 restart |

Bounds.  Two tasks are enough because storage admits one running row and there
is one journal: a second task is only ever the *other* one.  Two attempts show
what the first leaves for the next.  Two Sends suffice to see a duplicate.
Three faults are one more than the longest recovery needs: a fault, a fault
while it is undone or recovered, and one while that is recovered.  The proofs
need none of these bounds.

For `RunControl`, a fault is a failed request, a 429, a kill, a pause, a signal or
a reset.  Four admit a 429, the kill of the process that was deferred, a pause of
the next one and a failure of its handler.  Two processes are needed for the
lock and for what is read before it is taken; who runs is otherwise irrelevant,
so processes are symmetric.  A clock of 0..2 with a delay of 1 gives a deadline
that is in the future, one that has passed, and a later second one.  The liveness
run uses one process: at most one is past the lock (`OneActiveRunner`).

For the six of `workstation`: a fault of the broker ends the request it hits, and
requests are free to follow in any order, so one fault already yields every
prefix of a build or a tear, met by every later request (the proof needs no
bound).  Two evaluators make one that is stale and its successor.  Two faults of
the backend are a command that stops and a restart of what it had bound; two
attempts are needed for a late answer to meet the next one.  Three uploads let
one be left half way, one take over the session and one send late.  Two versions,
images and generations are the old one and its successor.  A Retry-After of 2
outlasts the search window and ends with the recovery window, so that deadlines
expire before, with and after it.  Two interferences with the composer admit a send in
the middle of the typing after a deletion, or text added before it; what is left of
one task meets the prompt of a second.

Fairness.  `attempt_safety` and `attempt_cleanup_stuck` (`FairSpec`): a running
process takes its next step, and an operator resumes a stopped batch, which
reconciles the journal and runs what is left (`run_pending`).  Faults and
reset-recovery are never forced.  `BatchGetsThrough` admits that some states need
the operator; `NeedsOperator` names exactly those.

`PromptSpec` (`control_progress`) assumes only that the event loop runs: steps that
need no answer from outside are taken, the watcher polls, a pending cancellation
is delivered.  Neither ChatGPT nor a grader need ever answer: that is what
`PauseIsHonoured` is about.  `RunCompletes` adds its assumptions in the formula
(`Attended`): answers come, time passes, and the operator resumes a stopped run;
strong fairness of `ResumeInvoked` because the command is refused until a deadline
has passed, and may be refused again and again before.  It admits one other end:
a running row without a journal, which is the finding `RunningHasJournal` seen
from the batch.

`BrokerFairness` (`workstation`): the broker executes its request, its waits end
(both have timeouts), and the operator repeats reset-recovery.  Strong fairness of
`AbandonAttempt` because the broker may be busy with another request again and
again; it is the operator's persistence, not a property of the code.

Deadlock is not checked in `workstation`, `binding_clean` and `composer_prompt`:
there the work ends (all tasks accepted, a deleted conversation, all versions and
generations used).
Elsewhere TLC checks it.

### Disagreements with the repository's own words

* `RunningHasJournal`: `execution.py` says a running attempt is recoverable only
  through its journal, but `_record_pre_runner_failure` opens a row with none.  A
  kill between its two requests leaves a row that neither resume nor
  reset-recovery accepts, and that blocks every other start.
* `PendingJournalIsRecoverable`: a hooked task killed between the journal entry
  "starting" and the storage row is refused by reconcile (the row does not
  match) and by reset-recovery (the row is not running).
* `FailedCleanupIsRetried`: the retry uses the strict destroy, which refuses a
  VM whose mount or domain is gone; after a host crash it is refused for ever.
* `PauseWins`: `lifecycle.py` reads the control file again so that a cooperative
  pause wins over the completion, but `complete` is a second transaction that
  does not look at the status.  A pause accepted in between is overwritten.
* `PreparedKept`: `execution.py` says evaluator-side state is never destroyed while
  a recovery is pending.  In the handler `recovery_required` is still false while
  storage is asked; if that request fails, `finally` cleans the adapter up.
* `CleanMeansUnbound`: `server.py` of the gateway takes an idle gateway to satisfy a
  reset, and README.md says that `stop_kali` resets the controller.  After a
  restart of the gateway, or when a prepare outlives its timeout, the gateway is
  idle and the controller is not: the cleanup succeeds, and every later prepare is
  refused until the controller restarts.
* `PromptIsValidated`: `chatgpt.py` says the prompt is validated against the POST
  and the captured conversation.  Only the identity of the message is.  Text that
  somebody adds before Send is posted and stored (the trace of the run); and if
  somebody presses Send in the middle of the typing, the response begins only when
  `submit_task` waits, and the click posts nothing, half of a prompt is taken.
  What does hold is `PostedIsTheTask`: a request that came from this program's Send is
  the App and the whole prompt, nothing that an earlier attempt typed is in it, and
  it has High effort, whatever others did; what they wrote themselves is in it and
  what they deleted is missing.  Of a request that somebody else sent, and that
  is taken for the task, it promises no more than the effort.

Two observations that contradict nothing the repository says.  A pause accepted
while a resume is in its preflight is overridden by `begin_resume`, which is why
`PauseStands` excepts that step.  And the deadline of a 429 reaches the journal
first and the control file last: a kill between the two leaves it in the journal
alone, and a reset-recovery then removes it with the journal.

## 4. Proofs

`RunStorage_proofs`: type correctness, the five safety invariants the run
checks, and `LedgerSpec`, from an inductive invariant that links every
acknowledged request to the row it changed.

`AttemptRecovery_proofs`: `Spec => []IInv`, and from it type correctness, every
invariant of `attempt_safety`, `JournalOutlivesAttempt`, `LedgerSpec` and
`KeepsContract`.  The checked invariants are not inductive: nothing in `AtMostOneSend` says where the
runner stands when it clicks.  `IInv` adds what each step may assume: which
journal phase belongs to which `pc`, which attempt the locals speak of, that
a conversation exists only behind the phases that forbid Send, that an attempt
above the row's has touched nothing.  The proof has one lemma per group of
actions; each collects the effects of the action and then discharges the parts
of `IInv` one by one.  For the contract (`ContractSteps`) most steps are stutters
and most others allowed by their guards.  What needs `IInv` is the strict reset,
which takes a VM away without a look at its evaluators: none is recorded then,
because it was destroyed before the row was completed, or none was made before
Send (`StrictResetContract`).

`RunControl_proofs`: every property of `control_safety` (type correctness, three
invariants, four properties of steps, and `LifecycleSpec`), again from one
`IInv`.  Why it is needed: `CompletionIsBacked` is about the write of `complete`,
but what makes it true is read many steps earlier.  So `Local(p)` carries along,
for every place of a runner, what it may still rely on: that its task is not
finished and all before it are (`LUndone`, `LOrder`), that no journal is pending or
only its own (`LNoJournal`, `LJournal`), that the deadline had passed (`LRetry`),
that a cancellation means a requested pause (`LCancel`).  `Shared` relates the
file, the rows and the journal for everybody.  A runner that holds the lock may
rely on its `Local` because all others are idle, and idle processes write nothing
(`HolderAlone`, `IdleDisturbsNobody`).  The properties of steps and the refinement
follow from one more lemma, `NextChanges`, which lists everything a step does to
the file.

`Broker_proofs`: `BrokerSafe`, `EvaluatorsAreIndexed` and `BrokerKeepsContract`.  The
first two are not inductive: a directory could vanish under resources that a queued instruction is about to
make.  `IInv` therefore says of the whole queue that each instruction finds what
the ones before it leave (`QueuePrepared`: a row is written before its VM is built,
an index is emptied after its evaluators are torn down) and that an index names
only evaluators of its attempt (`IndexIsOwn`).  Requests are shown to enqueue only
prepared queues, and steps to leave the tail prepared.  The refinement needs one
thing more about the queue, `RowsInv`: the VM that was readable when a request was
accepted still is when its row is written, because no instruction in between
takes anything of it or reaps (`KeptUntil`), and an attempt's own VM is the first
thing its request builds.  Then a build that ends in any way is `Build`
(`BuildEnds`), the removal of the directory, which is last, is the step that makes
a VM absent together with its rows (`TearStepContract`), and a crash, which takes
the mount but not the directory, leaves what existed partial
(`HostCrashContract`).

`Images_proofs`: `ImagesSafe`.  `InstalledMatchesSources` and `PublishedIsComplete`
speak of digests that were taken at different moments; `JobInv` and `MakerInv` say
for every stage what is still true of the disk then.  The step that makes the
argument work is that a job discards or places an image only where nothing
verifies, while a template build runs only over what does: so the base cannot
change under it.  `StampsSeen` carries the stamps through edits.

`Binding_proofs`: `BindingSafe`.  The invariant is `BindingTypeOK`, `Records` (a VM
of an attempt is the journal's attempt, a manual VM has its record, and the two
exclude each other) and, per command, `CommandInv`: a command that works on a
record holds the runner lock (`HoldsLock`), works on the identity of that record
(`Owns`), leaves no VM after a clean cleanup (`LeavesNothing`) and meets a gateway
that is idle or its own, and a controller that is idle, its own or still bound to
`register-apps` (`Bound`).  While the lock holder
steps, the other commands rest, except that `register-apps` cleans up after it
gave the lock back; that cleanup only destroys and releases.

`GuestTransfer_proofs`: `TransfersAreWhole`.  Two digests protect a file and only one
is reset with the session, so the invariant has a part for each: `SessionsAgree`,
that what a session has hashed is what its file holds, and
`SeedIsFresh`, that nothing was appended before the one seed begins.  That a begin
or a chunk without an answer may be executed at any later time is in `late`, and
no part of the invariant looks at the order in which that happens.

`ChatGPTClient_proofs`: `PostedIsTheTask` from `ComposerInv`, and `OwnTurnOnly` and
`RetryAfterRespected` from `ReadbackInv`.  Of the composer the invariant says
(`Written`) that from place to place the text *reads as* what was typed so far: it
consists of those pieces, each once and in the order of typing, and of what others
wrote, and one is missing only if others took it.  This holds until the first request;
before Send all requests are by others, so a single request that is by Send is
the text of the last place before it.  `Observed` adds that a request is only let
through with High effort.  When responses begin does not occur in it: that decides
whether a request is taken, not which.
Of the readback it says that what the client
holds is of its own conversation (`ClientHasOwn`), that a request asks the endpoint
its place may ask (`AsksRightly`), that conversations of others stay as they are
(`ForeignStay`), and, for pacing, that at every place the client still knows the time
which the endpoint it will ask next has named (`KnowsWhenDue`): a deadline told to
one loop is handed on to each loop that may follow.

The assumptions are those stated in the modules (`AttemptAssumption`,
`NoneAssumption`, `RunStorageAssumption`, `RunControlAssumption`,
`BrokerAssumption`, `ImagesAssumption`, `BindingAssumption`, `TransferAssumption`,
`ComposerAssumption`, `ReadbackAssumption`): that the hooked tasks are templated, that
there is an attempt, that the bounds, clocks and Retry-Afters are natural numbers,
that `None`, `Nobody` and the markers for *nothing yet* are no values of the data,
that the identities of the manual session and of `register-apps` are no attempts,
and that the own conversation is not one of the others.
No bound on tasks, attempts, evaluators, images, uploads or faults is used.

Every safety property, property of steps and refinement that a run checks is
proved.  Only model-checked: the liveness properties `BatchGetsThrough`,
`PauseIsHonoured`, `RunCompletes` and `AbandonGetsThrough` (fairness and ENABLED are
outside the prover), for the instances above; and the disagreements, which are
counterexamples.

## 5. Assumptions of the models, and what is not modelled

What the newer modules take for granted:

* `Broker`: a blocking command is one step, and commands of different requests do
  not interleave, because the broker never awaits between them.  Resources with
  one fate are one element (a mounted quota filesystem and the files on it).
* `Binding`: `RunnerLock` is exclusive and is lost with its process.  App
  registration keeps no record; `BindingSafe` says nothing about what it leaves.
* `GuestTransfer`: equal digests mean equal contents.  Export sessions only read.
* `Images`: one run of `build.py` at a time, the operator does not edit the checkout
  during a template build, and goldens of before the provenance file are not
  adopted.
* `Composer`: attachments are left out, since no adapter passes any.  A send by the
  operator is seen by the traffic monitor like any other.  Nobody moves the caret
  while the keyboard types, so what is typed goes to the end.  A navigation aborts the
  requests under way, and a new connection sees no response of an earlier one.  The
  checks of model, timezone and App hint are left out; they only refuse.
* `Readback`: a request is shorter than a unit of the clock; a route goes from none
  to transient to durable; a 429 of the auth session is that of the request it
  precedes; the growth of the poll interval and the rotation of candidates only
  delay and are left out; what was told is forgotten with the client.

Not modelled:

* tool calls through gateway and controller, screen and input (`computer.py`),
  terminals and the guest's browser: forwarding and I/O, with state of one client
  that awaits each call.  That a call is authorised for one attempt and reads the
  binding again later is listed as a hazard without a property.
* `make down` and the other host scripts: docker and libvirt commands.  `down`
  removes the journal before the VMs; if the broker then refuses, only its
  directories still name them, and a second `down` finds them there.
* the App proxies, artifact export, the browser container.
* `provenance.py`, `exporter.py`, catalogs, configuration, `validate_frozen`, dataset
  parsing and grading: data without state, where a test says more than a model.
* the vendored SWE-Gym harness (`adapters/swe_gym/upstream`, 2 000 lines of constants
  and log parsers): third-party data.
* limits and pacing between tasks, and model checks of answers.
