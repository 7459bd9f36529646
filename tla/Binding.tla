------------------------------ MODULE Binding ------------------------------
(***************************************************************************)
(* Who owns the one Kali backend: the bindings that gateway and controller *)
(* keep in memory, and the commands that set and clear them (benchmark     *)
(* runs, recovery, App registration, the manual session).                  *)
(*                                                                         *)
(* AppLifecycle.prepare, assert_resume, reset and assert_clean are the     *)
(* same sequence of requests for every command; cmd[c].at is the request   *)
(* that command c sends next.  AttemptRecovery opens up what a benchmark   *)
(* attempt does while it is served.                                        *)
(***************************************************************************)
EXTENDS Integers, FiniteSets

CONSTANTS
    Attempts,           \* benchmark attempts
    Commands,           \* runner processes
    Nobody,             \* the binding of an idle gateway or controller
    MaxBindingFaults

VARIABLES
    gateway,            \* GatewayState.active
    controller,         \* WorkstationController.active
    preparing,          \* control requests in which the controller awaits
    vm,                 \* absent, partial (refused by Broker._read), ready
    manual,             \* phase in manual-kali.json
    journal,            \* the attempt in submission.json
    campaign,           \* the active run is not completed
    fresh,              \* attempts not started yet
    lock,               \* holder of RunnerLock
    cmd,
    bindingFaults

bindingVars == <<gateway, controller, preparing, vm, manual, journal, campaign,
                 fresh, lock, cmd, bindingFaults>>

Manual == "__manual_kali__"
Registration == "__app_registration__"
Identities == Attempts \union {Manual, Registration}

ASSUME BindingAssumption ==
    /\ Manual \notin Attempts /\ Registration \notin Attempts
    /\ Nobody \notin Identities \union Commands
    /\ MaxBindingFaults \in Nat

\* The order of requests.  A failed prepare is undone by the same reset,
\* but then the record of the attempt is kept.
Places ==
    {"idle", "create", "discover", "activate", "prepare", "answer", "serve",
     "reset", "deactivate", "destroy", "clean"}

Command == [at : Places, for : Identities \union {Nobody},
            does : {"run", "recover", "start", "stop", "register"},
            clean : BOOLEAN]
Idle == [at |-> "idle", for |-> Nobody, does |-> "run", clean |-> TRUE]

BindingTypeOK ==
    /\ gateway \in Identities \union {Nobody}
    /\ controller \in Identities \union {Nobody}
    /\ preparing \subseteq Identities
    /\ vm \in [Identities -> {"absent", "partial", "ready"}]
    /\ manual \in {"none", "starting", "running"}
    /\ journal \in Attempts \union {Nobody}
    /\ campaign \in BOOLEAN
    /\ fresh \subseteq Attempts
    /\ lock \in Commands \union {Nobody}
    /\ cmd \in [Commands -> Command]
    /\ bindingFaults \in 0..MaxBindingFaults

BindingInit ==
    /\ gateway = Nobody
    /\ controller = Nobody
    /\ preparing = {}
    /\ vm = [i \in Identities |-> "absent"]
    /\ manual = "none"
    /\ journal = Nobody
    /\ campaign = FALSE
    /\ fresh = Attempts
    /\ lock = Nobody
    /\ cmd = [c \in Commands |-> Idle]
    /\ bindingFaults = 0

----------------------------------------------------------------------------
(* Commands start under RunnerLock, with the checks each of them makes. *)

Begin(c, does, id, at) ==
    /\ cmd[c] = Idle
    /\ lock = Nobody
    /\ lock' = c
    /\ cmd' = [cmd EXCEPT ![c] = [at |-> at, for |-> id, does |-> does, clean |-> TRUE]]

\* A benchmark run: no manual session, no pending journal; the journal is
\* written before anything exists.
RunAttempt(c, a) ==
    /\ a \in fresh
    /\ manual = "none" /\ journal = Nobody
    /\ Begin(c, "run", a, "create")
    /\ journal' = a
    /\ campaign' = TRUE
    /\ fresh' = fresh \ {a}
    /\ UNCHANGED <<gateway, controller, preparing, vm, manual, bindingFaults>>

\* A resume finds the VM of the journal, or cleans up after it.
Resume(c) ==
    /\ manual = "none" /\ journal # Nobody
    /\ \E at \in {"discover", "reset"} : Begin(c, "run", journal, at)
    /\ UNCHANGED <<gateway, controller, preparing, vm, manual, journal, campaign,
                   fresh, bindingFaults>>

\* superbench-reset-recovery, which does not ask for the manual session.
ResetRecovery(c) ==
    /\ journal # Nobody /\ campaign
    /\ Begin(c, "recover", journal, "reset")
    /\ UNCHANGED <<gateway, controller, preparing, vm, manual, journal, campaign,
                   fresh, bindingFaults>>

\* require_no_active_benchmark_for_manual_kali
NoBenchmark == journal = Nobody /\ ~campaign

\* The gateway is bound to the manual session; its VM can be inspected.
OwnedByManual == gateway = Manual
ManualInspected == vm[Manual] = "ready"
ManualAbsent == vm[Manual] = "absent"

StartManual(c) ==
    /\ NoBenchmark /\ manual = "none"
    /\ gateway = Nobody /\ ManualAbsent
    /\ Begin(c, "start", Manual, "create")
    /\ manual' = "starting"
    /\ UNCHANGED <<gateway, controller, preparing, vm, journal, campaign, fresh,
                   bindingFaults>>

\* stop() with a bound gateway resets; with a VM and an idle gateway it
\* binds first; what is provably absent is only forgotten.  A partial VM is
\* neither inspected nor absent: the command is refused.
StopManual(c) ==
    /\ NoBenchmark
    /\ \/ OwnedByManual /\ Begin(c, "stop", Manual, "reset")
       \/ gateway = Nobody /\ ManualInspected /\ Begin(c, "stop", Manual, "discover")
    /\ UNCHANGED <<gateway, controller, preparing, vm, manual, journal, campaign,
                   fresh, bindingFaults>>

ForgetManual ==
    /\ NoBenchmark /\ lock = Nobody
    /\ gateway = Nobody /\ ManualAbsent
    /\ manual' = "none"
    /\ UNCHANGED <<gateway, controller, preparing, vm, journal, campaign, fresh,
                   lock, cmd, bindingFaults>>

\* register-apps looks neither at the journal nor at the active run.
RegisterApps(c) ==
    /\ manual = "none"
    /\ Begin(c, "register", Registration, "create")
    /\ UNCHANGED <<gateway, controller, preparing, vm, manual, journal, campaign,
                   fresh, bindingFaults>>

----------------------------------------------------------------------------
(* Requests. *)

At(c, place) == cmd[c].at = place
GoTo(c, place) == cmd' = [cmd EXCEPT ![c].at = place]

\* The command ends, and with it the lock.
Exit(c) ==
    /\ cmd' = [cmd EXCEPT ![c] = Idle]
    /\ lock' = IF lock = c THEN Nobody ELSE lock

(***************************************************************************)
(* What prepare and its caller do about a failed request.  A run undoes    *)
(* the attempt and forgets it, or keeps a templated VM and the journal.    *)
(* Others undo it and keep their record; an attempt that was only to be    *)
(* found again is left alone.                                              *)
(***************************************************************************)
Fail(c, activated) ==
    \/ /\ cmd[c].does = "run"
       /\ GoTo(c, "reset") /\ UNCHANGED lock
    \/ /\ cmd[c].does \in {"run", "stop"}
       /\ Exit(c)
    \/ /\ cmd[c].does \in {"start", "register"}
       /\ cmd' = [cmd EXCEPT ![c] = [@ EXCEPT !.clean = FALSE,
                      !.at = IF activated THEN "reset" ELSE "destroy"]]
       /\ UNCHANGED lock

\* prepare creates the VM outside of its try: nothing is undone but what a
\* run undoes anyway.
CreateFails(c) ==
    \/ cmd[c].does = "run" /\ GoTo(c, "reset") /\ UNCHANGED lock
    \/ Exit(c)

CreateVm(c) ==
    LET id == cmd[c].for IN
    /\ At(c, "create")
    /\ \/ /\ vm[id] = "absent"
          /\ vm' = [vm EXCEPT ![id] = "ready"]
          /\ GoTo(c, "activate") /\ UNCHANGED lock
       \/ /\ vm[id] # "absent"
          /\ CreateFails(c) /\ UNCHANGED vm
    /\ UNCHANGED <<gateway, controller, preparing, manual, journal, campaign,
                   fresh, bindingFaults>>

Discover(c) ==
    /\ At(c, "discover")
    /\ IF vm[cmd[c].for] = "ready" THEN GoTo(c, "activate") /\ UNCHANGED lock
                                   ELSE Fail(c, FALSE)
    /\ UNCHANGED <<gateway, controller, preparing, vm, manual, journal, campaign,
                   fresh, bindingFaults>>

Activate(c) ==
    LET id == cmd[c].for IN
    /\ At(c, "activate")
    /\ \/ /\ gateway \in {Nobody, id}
          /\ gateway' = id
          /\ GoTo(c, "prepare") /\ UNCHANGED lock
       \/ /\ gateway \notin {Nobody, id}
          /\ Fail(c, FALSE) /\ UNCHANGED gateway
    /\ UNCHANGED <<controller, preparing, vm, manual, journal, campaign, fresh,
                   bindingFaults>>

\* The gateway forwards for its own binding only, and the controller looks
\* at its binding before it asks the broker.
Prepare(c) ==
    LET id == cmd[c].for IN
    /\ At(c, "prepare")
    /\ \/ /\ gateway = id /\ controller \in {Nobody, id}
          /\ preparing' = preparing \union {id}
          /\ GoTo(c, "answer") /\ UNCHANGED lock
       \/ /\ gateway # id \/ controller \notin {Nobody, id}
          /\ Fail(c, TRUE) /\ UNCHANGED preparing
    /\ UNCHANGED <<gateway, controller, vm, manual, journal, campaign, fresh,
                   bindingFaults>>

\* mutant: the broker is not asked again before the binding
ControllerBinds_Unasked(id) ==
    /\ id \in preparing
    /\ preparing' = preparing \ {id}
    /\ controller' = id
    /\ UNCHANGED <<gateway, vm, manual, journal, campaign, fresh, lock, cmd,
                   bindingFaults>>

\* The broker's last answer and the assignment are one step of the
\* controller: whatever it found before it awaited, it is bound now.
ControllerBinds(id) ==
    /\ id \in preparing
    /\ preparing' = preparing \ {id}
    /\ controller' = IF vm[id] = "ready" THEN id ELSE controller
    /\ UNCHANGED <<gateway, vm, manual, journal, campaign, fresh, lock, cmd,
                   bindingFaults>>

\* With the answer the workspace is seeded, which may fail as well.
PrepareAnswered(c) ==
    LET id == cmd[c].for IN
    /\ At(c, "answer")
    /\ id \notin preparing
    /\ \/ controller = id /\ GoTo(c, "serve") /\ UNCHANGED lock
       \/ Fail(c, TRUE)
    /\ UNCHANGED <<gateway, controller, preparing, vm, manual, journal, campaign,
                   fresh, bindingFaults>>

\* A manual session outlives its command.  register-apps waits for the
\* operator, and resets after it has left the lock.
Serve(c) ==
    /\ At(c, "serve")
    /\ \/ /\ cmd[c].does = "start"
          /\ manual' = "running"
          /\ Exit(c)
       \/ /\ cmd[c].does = "register"
          /\ lock' = IF lock = c THEN Nobody ELSE lock
          /\ GoTo(c, "reset") /\ UNCHANGED manual
       \/ /\ cmd[c].does \in {"run", "stop"}
          /\ GoTo(c, "reset") /\ UNCHANGED <<lock, manual>>
    /\ UNCHANGED <<gateway, controller, preparing, vm, journal, campaign, fresh,
                   bindingFaults>>

\* An error of one request does not stop the next.
Went(c, ok, next) ==
    cmd' = [cmd EXCEPT ![c] = [@ EXCEPT !.at = next, !.clean = cmd[c].clean /\ ok]]

\* An idle gateway answers a reset itself.
ResetController(c) ==
    LET id == cmd[c].for
        forwarded == gateway = id
        accepted == controller \in {Nobody, id}
    IN  /\ At(c, "reset")
        /\ controller' = IF forwarded /\ accepted THEN Nobody ELSE controller
        /\ Went(c, gateway = Nobody \/ (forwarded /\ accepted), "deactivate")
        /\ UNCHANGED <<gateway, preparing, vm, manual, journal, campaign, fresh,
                       lock, bindingFaults>>

Deactivate(c) ==
    LET ok == gateway \in {Nobody, cmd[c].for} IN
    /\ At(c, "deactivate")
    /\ gateway' = IF ok THEN Nobody ELSE gateway
    /\ Went(c, ok, "destroy")
    /\ UNCHANGED <<controller, preparing, vm, manual, journal, campaign, fresh,
                   lock, bindingFaults>>

\* Broker._read refuses a partial VM; only the abandoning of a templated
\* attempt does without it.
DestroyVm(c) ==
    /\ At(c, "destroy")
    /\ \E abandon \in {FALSE, cmd[c].does = "recover"} :
        LET ok == vm[cmd[c].for] # "partial" \/ abandon IN
        /\ vm' = IF ok THEN [vm EXCEPT ![cmd[c].for] = "absent"] ELSE vm
        /\ Went(c, ok, "clean")
    /\ UNCHANGED <<gateway, controller, preparing, manual, journal, campaign, fresh,
                   lock, bindingFaults>>

\* What is clean is forgotten: the journal, or the manual state after
\* assert_clean has looked at gateway and broker once more.
Finish(c) ==
    LET id == cmd[c].for
        forget == cmd[c].clean
                      /\ (id = Manual => gateway = Nobody /\ ManualAbsent)
    IN  /\ At(c, "clean")
        /\ journal' = IF forget /\ journal = id THEN Nobody ELSE journal
        /\ manual' = IF forget /\ id = Manual THEN "none" ELSE manual
        /\ \/ UNCHANGED campaign
           \/ forget /\ cmd[c].does = "run" /\ campaign' = FALSE
        /\ Exit(c)
        /\ UNCHANGED <<gateway, controller, preparing, vm, fresh, bindingFaults>>

----------------------------------------------------------------------------
(* Faults. *)

BindingFault ==
    /\ bindingFaults < MaxBindingFaults
    /\ bindingFaults' = bindingFaults + 1

\* What the controller has accepted goes on without its client.
KillCommand(c) ==
    /\ BindingFault
    /\ cmd[c] # Idle
    /\ Exit(c)
    /\ UNCHANGED <<gateway, controller, preparing, vm, manual, journal, campaign, fresh>>

\* The gateway gives up after 180 seconds, the controller does not.
PrepareTimesOut(c) ==
    /\ BindingFault
    /\ At(c, "answer") /\ cmd[c].for \in preparing
    /\ Fail(c, TRUE)
    /\ UNCHANGED <<gateway, controller, preparing, vm, manual, journal, campaign, fresh>>

\* A create breaks off; without a template it is undone, or that fails too.
CreateBreaks(c) ==
    /\ BindingFault
    /\ At(c, "create") /\ vm[cmd[c].for] = "absent"
    /\ vm' = [vm EXCEPT ![cmd[c].for] = "partial"]
    /\ CreateFails(c)
    /\ UNCHANGED <<gateway, controller, preparing, manual, journal, campaign, fresh>>

GatewayRestarts ==
    /\ BindingFault
    /\ gateway' = Nobody
    /\ UNCHANGED <<controller, preparing, vm, manual, journal, campaign, fresh, lock, cmd>>

ControllerRestarts ==
    /\ BindingFault
    /\ controller' = Nobody
    /\ preparing' = {}
    /\ UNCHANGED <<gateway, vm, manual, journal, campaign, fresh, lock, cmd>>

\* A crash of the host loses mounts and firewall tables, and the containers.
HostRestarts ==
    /\ BindingFault
    /\ gateway' = Nobody
    /\ controller' = Nobody
    /\ preparing' = {}
    /\ vm' = [i \in Identities |-> IF vm[i] = "ready" THEN "partial" ELSE vm[i]]
    /\ cmd' = [c \in Commands |-> Idle]
    /\ lock' = Nobody
    /\ UNCHANGED <<manual, journal, campaign, fresh>>

CommandStep(c) ==
    \/ CreateVm(c) \/ Discover(c) \/ Activate(c) \/ Prepare(c) \/ PrepareAnswered(c)
    \/ Serve(c) \/ ResetController(c) \/ Deactivate(c) \/ DestroyVm(c) \/ Finish(c)

CommandStart(c) ==
    \/ \E a \in Attempts : RunAttempt(c, a)
    \/ Resume(c) \/ ResetRecovery(c) \/ StartManual(c) \/ StopManual(c) \/ RegisterApps(c)

BindingFaultStep ==
    \/ \E c \in Commands : KillCommand(c) \/ PrepareTimesOut(c) \/ CreateBreaks(c)
    \/ GatewayRestarts \/ ControllerRestarts \/ HostRestarts

BindingNext ==
    \/ \E c \in Commands : CommandStart(c) \/ CommandStep(c)
    \/ \E id \in Identities : ControllerBinds(id)
    \/ ForgetManual
    \/ BindingFaultStep

BindingSpec == BindingInit /\ [][BindingNext]_bindingVars

----------------------------------------------------------------------------
(* Properties. *)

\* The manual session and the benchmark own the backend one at a time
\* (README.md): there is no moment at which a VM of each exists, whichever
\* command was killed, timed out or raced another one.
BackendIsExclusive ==
    vm[Manual] # "absent" => \A a \in Attempts : vm[a] = "absent"

\* What exists outside of the state file is in it: a manual VM or a gateway
\* bound to it is never left without manual-kali.json, by which alone
\* benchmarks know of it.
ManualIsRecorded ==
    vm[Manual] # "absent" \/ gateway = Manual => manual # "none"

\* While a recorded attempt is served, restarts and late answers to others
\* may unbind the backend but never give it to another recorded attempt:
\* whoever was accepted before has lost the VM the controller asks about.
\* App registration records nothing, so its late answer can intrude.
NobodyTakesOver ==
    \A c \in Commands :
        At(c, "serve") /\ cmd[c].does # "register" =>
            {gateway, controller} \subseteq {cmd[c].for, Registration, Nobody}

\* One owner, whom its records name.
BindingSafe == BindingTypeOK /\ BackendIsExclusive /\ ManualIsRecorded /\ NobodyTakesOver

\* A command whose cleanup met no error leaves no controller bound to its
\* attempt: an idle gateway is taken to satisfy what a reset asks for.
CleanMeansUnbound ==
    \A c \in Commands :
        At(c, "clean") /\ cmd[c].clean => controller # cmd[c].for

=============================================================================
