--------------------------- MODULE Binding_proofs ---------------------------
(***************************************************************************)
(* Theorems about the bindings of the backend, for any number of attempts, *)
(* commands and faults.                                                    *)
(***************************************************************************)
EXTENDS Binding, TLAPS

\* Where register-apps still holds the lock.
Locked == {"create", "discover", "activate", "prepare", "answer", "serve"}

Recorded(c) == cmd[c].does # "register"

\* A command that records what it does keeps the lock until it exits, and
\* register-apps until it has served.
HoldsLock(c) ==
    cmd[c].at # "idle" /\ (Recorded(c) \/ cmd[c].at \in Locked) => lock = c

\* What a command works for is what its record names.
Owns(c) ==
    cmd[c].at # "idle" =>
        /\ cmd[c].does \in {"run", "recover"} => cmd[c].for = journal /\ journal # Nobody
        /\ cmd[c].does \in {"start", "stop"} => cmd[c].for = Manual /\ manual # "none"
        /\ cmd[c].does = "register" => cmd[c].for = Registration

\* A record is only dropped when nothing is left of what it names.
LeavesNothing(c) ==
    cmd[c].at = "clean" /\ cmd[c].clean /\ Recorded(c) => vm[cmd[c].for] = "absent"

\* The backend while a command uses it.
Bound(c) ==
    /\ cmd[c].at \in {"prepare", "answer", "serve"} => gateway \in {cmd[c].for, Nobody}
    /\ cmd[c].at = "serve" /\ Recorded(c) =>
           controller \in {cmd[c].for, Registration, Nobody}

CommandInv(c) == HoldsLock(c) /\ Owns(c) /\ LeavesNothing(c) /\ Bound(c)

\* The records, and what exists behind them.
Records ==
    /\ \A a \in Attempts : vm[a] # "absent" => journal = a
    /\ ManualIsRecorded
    /\ journal # Nobody => manual = "none"

IInv == BindingTypeOK /\ Records /\ \A c \in Commands : CommandInv(c)

----------------------------------------------------------------------------
(* Commands that do not take part in a step. *)

\* Idle, or register-apps on its way out: nothing depends on the rest.
Rests(c) == cmd[c].at = "idle" \/ (~Recorded(c) /\ cmd[c].at \notin Locked)

LEMMA Resting ==
    ASSUME NEW c \in Commands, CommandInv(c), Rests(c), cmd'[c] = cmd[c]
    PROVE  CommandInv(c)'
BY DEF CommandInv, Rests, HoldsLock, Owns, LeavesNothing, Bound, Recorded, Locked

\* Who does not hold the lock rests.
LEMMA OthersRest ==
    ASSUME IInv, NEW c \in Commands, lock # c
    PROVE  Rests(c)
BY DEF IInv, CommandInv, HoldsLock, Rests, Recorded

Mine(c) == \A d \in Commands \ {c} : cmd'[d] = cmd[d]

\* A step that creates nothing, binds nothing and drops no record.
Shrinks ==
    /\ UNCHANGED <<journal, manual>>
    /\ gateway' \in {gateway, Nobody}
    /\ controller' \in {controller, Nobody}
    /\ \A i \in Identities : vm'[i] # "absent" => vm[i] # "absent"

LEMMA RecordsStay ==
    ASSUME IInv, Shrinks
    PROVE  Records'
<1>1. Manual \in Identities /\ Attempts \subseteq Identities /\ Manual # Nobody
    BY BindingAssumption DEF Identities
<1> QED BY <1>1 DEF IInv, Records, ManualIsRecorded, Shrinks

LEMMA Survives ==
    ASSUME IInv, Shrinks, NEW c \in Commands, cmd'[c] = cmd[c],
           lock = c => lock' = c
    PROVE  CommandInv(c)'
<1>1. CommandInv(c)
    BY DEF IInv
<1>2. cmd[c].at = "clean" /\ Recorded(c) => cmd[c].for \in Identities
    BY <1>1, BindingAssumption
    DEF CommandInv, Owns, Recorded, IInv, BindingTypeOK, Command, Identities
<1>3. vm \in [Identities -> {"absent", "partial", "ready"}]
    BY DEF IInv, BindingTypeOK
<1>4. HoldsLock(c)'
    BY <1>1 DEF CommandInv, HoldsLock, Recorded
<1>5. Owns(c)'
    BY <1>1 DEF CommandInv, Owns, Shrinks
<1>6. LeavesNothing(c)'
    BY <1>1, <1>2 DEF CommandInv, LeavesNothing, Shrinks, Recorded
<1>7. Bound(c)'
    BY <1>1 DEF CommandInv, Bound, Shrinks, Recorded
<1> QED BY <1>4, <1>5, <1>6, <1>7 DEF CommandInv

Released(c) == lock' \in {lock, IF lock = c THEN Nobody ELSE lock}

LEMMA Others ==
    ASSUME IInv, Shrinks, NEW c \in Commands, Mine(c), Released(c)
    PROVE  \A d \in Commands \ {c} : CommandInv(d)'
BY Survives DEF Mine, Released

----------------------------------------------------------------------------
(* What the steps of a command do to its own place. *)

LEMMA Moves ==
    ASSUME IInv, NEW c \in Commands, NEW place \in Places, GoTo(c, place)
    PROVE  /\ cmd' \in [Commands -> Command] /\ Mine(c)
           /\ cmd'[c].at = place /\ cmd'[c].for = cmd[c].for
           /\ cmd'[c].does = cmd[c].does /\ cmd'[c].clean = cmd[c].clean
<1>1. cmd \in [Commands -> Command]
    BY DEF IInv, BindingTypeOK
<1> QED BY <1>1 DEF GoTo, Mine, Command

LEMMA Goes ==
    ASSUME IInv, NEW c \in Commands, NEW ok \in BOOLEAN, NEW place \in Places,
           Went(c, ok, place)
    PROVE  /\ cmd' \in [Commands -> Command] /\ Mine(c)
           /\ cmd'[c].at = place /\ cmd'[c].for = cmd[c].for
           /\ cmd'[c].does = cmd[c].does /\ cmd'[c].clean = (cmd[c].clean /\ ok)
<1>1. cmd \in [Commands -> Command]
    BY DEF IInv, BindingTypeOK
<1> QED BY <1>1 DEF Went, Mine, Command

LEMMA Exits ==
    ASSUME IInv, NEW c \in Commands, Exit(c)
    PROVE  /\ cmd' \in [Commands -> Command] /\ Mine(c) /\ Released(c)
           /\ cmd'[c].at = "idle" /\ CommandInv(c)' /\ lock' \in Commands \union {Nobody}
<1>1. cmd \in [Commands -> Command] /\ lock \in Commands \union {Nobody}
    BY DEF IInv, BindingTypeOK
<1>2. Idle \in Command /\ Idle.at = "idle"
    BY DEF Idle, Command, Places
<1>3. /\ cmd' \in [Commands -> Command] /\ Mine(c) /\ Released(c)
      /\ cmd'[c].at = "idle" /\ lock' \in Commands \union {Nobody}
    BY <1>1, <1>2 DEF Exit, Mine, Released
<1>4. CommandInv(c)'
    BY <1>3 DEF CommandInv, HoldsLock, Owns, LeavesNothing, Bound
<1> QED BY <1>3, <1>4

\* A command that was under way ends, or goes on with its cleanup.
LEMMA Fails ==
    ASSUME IInv, NEW c \in Commands, cmd[c].at # "idle", NEW activated \in BOOLEAN,
           Fail(c, activated) \/ CreateFails(c), UNCHANGED <<journal, manual>>
    PROVE  /\ cmd' \in [Commands -> Command] /\ Mine(c) /\ Released(c)
           /\ CommandInv(c)' /\ lock' \in Commands \union {Nobody}
<1>1. CASE Exit(c)
    BY <1>1, Exits
<1>2. CASE /\ lock' = lock
           /\ \/ GoTo(c, "reset")
              \/ cmd' = [cmd EXCEPT ![c] = [@ EXCEPT !.clean = FALSE,
                             !.at = IF activated THEN "reset" ELSE "destroy"]]
    <2>1. cmd \in [Commands -> Command] /\ lock \in Commands \union {Nobody}
        BY DEF IInv, BindingTypeOK
    <2>2. /\ cmd' \in [Commands -> Command] /\ Mine(c)
          /\ cmd'[c].at \in {"reset", "destroy"} /\ cmd'[c].for = cmd[c].for
          /\ cmd'[c].does = cmd[c].does
        <3>1. CASE GoTo(c, "reset")
            <4>1. "reset" \in Places
                BY DEF Places
            <4> QED BY <3>1, <4>1, Moves
        <3>2. CASE cmd' = [cmd EXCEPT ![c] = [@ EXCEPT !.clean = FALSE,
                              !.at = IF activated THEN "reset" ELSE "destroy"]]
            <4>1. PICK at \in {"reset", "destroy"} :
                      cmd' = [cmd EXCEPT ![c] = [@ EXCEPT !.clean = FALSE, !.at = at]]
                BY <3>2
            <4> QED BY <2>1, <4>1 DEF Mine, Command, Places
        <3> QED BY <1>2, <3>1, <3>2
    <2>3. CommandInv(c)
        BY DEF IInv
    <2>4. CommandInv(c)'
        BY <1>2, <2>2, <2>3
        DEF CommandInv, HoldsLock, Owns, LeavesNothing, Bound, Recorded, Locked
    <2> QED BY <1>2, <2>1, <2>2, <2>4 DEF Released
<1> QED BY <1>1, <1>2 DEF Fail, CreateFails

----------------------------------------------------------------------------
(* One lemma per group of steps. *)

\* A command begins under a free lock: all others rest.
LEMMA Begins ==
    ASSUME IInv, NEW c \in Commands, NEW id \in Identities,
           NEW does \in {"run", "recover", "start", "stop", "register"},
           NEW at \in {"create", "discover", "reset"}, Begin(c, does, id, at),
           does \in {"run", "recover"} => id = journal' /\ journal' # Nobody,
           does \in {"start", "stop"} => id = Manual /\ manual' # "none",
           does = "register" => id = Registration
    PROVE  /\ cmd' \in [Commands -> Command] /\ lock' \in Commands
           /\ \A d \in Commands : CommandInv(d)'
<1>1. cmd \in [Commands -> Command] /\ lock = Nobody /\ lock' = c
    BY DEF IInv, BindingTypeOK, Begin
<1>2. /\ cmd' \in [Commands -> Command] /\ Mine(c)
      /\ cmd'[c] = [at |-> at, for |-> id, does |-> does, clean |-> TRUE]
    BY <1>1 DEF Begin, Mine, Command, Places
<1>3. CommandInv(c)'
    BY <1>1, <1>2 DEF CommandInv, HoldsLock, Owns, LeavesNothing, Bound, Recorded
<1>4. \A d \in Commands \ {c} : CommandInv(d)'
    <2> TAKE d \in Commands \ {c}
    <2>1. Rests(d)
        BY <1>1, OthersRest, BindingAssumption
    <2> QED BY <1>2, <2>1, Resting DEF Mine, IInv
<1> QED BY <1>1, <1>2, <1>3, <1>4

LEMMA Starts ==
    ASSUME IInv, NEW c \in Commands, CommandStart(c)
    PROVE  IInv'
<1>1. CASE \E a \in Attempts : RunAttempt(c, a)
    <2>1. PICK a \in Attempts : RunAttempt(c, a)
        BY <1>1
    <2>2. /\ a \in Identities /\ a # Nobody /\ Manual \in Identities
          /\ journal' = a /\ campaign' = TRUE /\ fresh' = fresh \ {a}
          /\ manual = "none" /\ journal = Nobody
          /\ UNCHANGED <<gateway, controller, preparing, vm, manual, bindingFaults>>
          /\ Begin(c, "run", a, "create")
        BY <2>1, BindingAssumption DEF RunAttempt, Identities
    <2>3. cmd' \in [Commands -> Command] /\ lock' \in Commands /\ \A d \in Commands : CommandInv(d)'
        BY <2>2, Begins
    <2>4. BindingTypeOK'
        BY <2>2, <2>3 DEF IInv, BindingTypeOK
    <2>5. Records'
        BY <2>2, BindingAssumption DEF IInv, Records, ManualIsRecorded, Identities
    <2> QED BY <2>3, <2>4, <2>5 DEF IInv
<1>2. CASE StartManual(c)
    <2>1. /\ Manual \in Identities
          /\ journal = Nobody /\ manual' = "starting" /\ gateway = Nobody /\ vm[Manual] = "absent"
          /\ UNCHANGED <<gateway, controller, preparing, vm, journal, campaign, fresh, bindingFaults>>
          /\ Begin(c, "start", Manual, "create")
        BY <1>2 DEF StartManual, NoBenchmark, ManualAbsent, Identities
    <2>2. cmd' \in [Commands -> Command] /\ lock' \in Commands /\ \A d \in Commands : CommandInv(d)'
        BY <2>1, Begins
    <2>3. BindingTypeOK'
        BY <2>1, <2>2 DEF IInv, BindingTypeOK
    <2>4. Records'
        BY <2>1 DEF IInv, Records, ManualIsRecorded
    <2> QED BY <2>2, <2>3, <2>4 DEF IInv
<1>3. CASE Resume(c) \/ ResetRecovery(c) \/ StopManual(c) \/ RegisterApps(c)
    <2>1. UNCHANGED <<gateway, controller, preparing, vm, manual, journal, campaign, fresh, bindingFaults>>
        BY <1>3 DEF Resume, ResetRecovery, StopManual, RegisterApps
    <2>2. Manual \in Identities /\ Registration \in Identities /\ Manual # Nobody
        BY BindingAssumption DEF Identities
    <2>3. journal # Nobody => journal \in Identities
        BY DEF IInv, BindingTypeOK, Identities
    <2>4. cmd' \in [Commands -> Command] /\ lock' \in Commands /\ \A d \in Commands : CommandInv(d)'
        <3>1. CASE Resume(c)
            BY <2>1, <2>3, <3>1, Begins DEF Resume
        <3>2. CASE ResetRecovery(c)
            BY <2>1, <2>3, <3>2, Begins DEF ResetRecovery
        <3>3. CASE StopManual(c)
            <4>1. manual # "none"
                BY <3>3 DEF StopManual, OwnedByManual, ManualInspected, IInv, Records, ManualIsRecorded
            <4>2. PICK at \in {"discover", "reset"} : Begin(c, "stop", Manual, at)
                BY <3>3 DEF StopManual
            <4> QED BY <2>1, <2>2, <4>1, <4>2, Begins
        <3>4. CASE RegisterApps(c)
            BY <2>2, <3>4, Begins DEF RegisterApps
        <3> QED BY <1>3, <3>1, <3>2, <3>3, <3>4
    <2>5. BindingTypeOK'
        BY <2>1, <2>4 DEF IInv, BindingTypeOK
    <2>6. Records'
        BY <2>1 DEF IInv, Records, ManualIsRecorded
    <2> QED BY <2>4, <2>5, <2>6 DEF IInv
<1> QED BY <1>1, <1>2, <1>3 DEF CommandStart

\* The holder of the lock takes a step: all others rest.
LEMMA HolderSteps ==
    ASSUME IInv, NEW c \in Commands, lock = c, Mine(c)
    PROVE  \A d \in Commands \ {c} : CommandInv(d)'
<1> TAKE d \in Commands \ {c}
<1>1. Rests(d)
    BY OthersRest
<1> QED BY <1>1, Resting DEF Mine, IInv

LEMMA OwnIdentity ==
    ASSUME IInv, NEW c \in Commands, cmd[c].at # "idle"
    PROVE  cmd[c].for \in Identities
BY DEF IInv, BindingTypeOK, Command, CommandInv, Owns, Identities

\* What a command may create or bind is recorded.
LEMMA OwnRecord ==
    ASSUME IInv, NEW c \in Commands, cmd[c].at # "idle"
    PROVE  /\ cmd[c].for \in Attempts => cmd[c].for = journal
           /\ cmd[c].for = Manual => manual # "none"
<1>1. cmd[c].does \in {"run", "recover", "start", "stop", "register"} /\ Owns(c)
    BY DEF IInv, BindingTypeOK, Command, CommandInv
<1>2. Manual # Registration /\ (journal # Nobody => journal # Manual)
    BY BindingAssumption DEF Manual, Registration, IInv, BindingTypeOK
<1> QED BY <1>1, <1>2, BindingAssumption DEF Owns

LEMMA CreateSteps ==
    ASSUME IInv, NEW c \in Commands,
           CreateVm(c) \/ CreateBreaks(c)
    PROVE  IInv'
<1> DEFINE id == cmd[c].for
<1>1. /\ At(c, "create") /\ cmd[c].at = "create" /\ lock = c /\ id \in Identities /\ CommandInv(c)
      /\ UNCHANGED <<gateway, controller, preparing, manual, journal, campaign, fresh>>
      /\ bindingFaults' \in 0..MaxBindingFaults
    <2>1. cmd[c].at = "create" /\ CommandInv(c) /\ bindingFaults \in 0..MaxBindingFaults
        BY DEF CreateVm, CreateBreaks, At, IInv, BindingTypeOK
    <2>2. lock = c /\ id \in Identities
        BY <2>1, OwnIdentity DEF CommandInv, HoldsLock, Locked
    <2>3. bindingFaults' \in 0..MaxBindingFaults
        BY <2>1, BindingAssumption DEF CreateVm, CreateBreaks, BindingFault
    <2> QED BY <2>1, <2>2, <2>3 DEF CreateVm, CreateBreaks, At
<1>2. PICK what \in {"absent", "partial", "ready"} : vm' = [vm EXCEPT ![id] = what]
    <2>1. vm \in [Identities -> {"absent", "partial", "ready"}] /\ vm = [vm EXCEPT ![id] = vm[id]]
        BY <1>1 DEF IInv, BindingTypeOK
    <2>2. vm[id] \in {"absent", "partial", "ready"}
        BY <1>1, <2>1
    <2> QED BY <2>1, <2>2 DEF CreateVm, CreateBreaks
<1>3. /\ vm' \in [Identities -> {"absent", "partial", "ready"}]
      /\ \A i \in Identities \ {id} : vm'[i] = vm[i]
    BY <1>1, <1>2 DEF IInv, BindingTypeOK
<1>4. /\ cmd' \in [Commands -> Command] /\ Mine(c)
      /\ CommandInv(c)' /\ lock' \in Commands \union {Nobody}
    <2>1. CASE GoTo(c, "activate") /\ UNCHANGED lock
        <3>1. "activate" \in Places
            BY DEF Places
        <3>2. /\ cmd' \in [Commands -> Command] /\ Mine(c)
              /\ cmd'[c].at = "activate" /\ cmd'[c].for = cmd[c].for
              /\ cmd'[c].does = cmd[c].does
            BY <2>1, <3>1, Moves
        <3> QED BY <1>1, <2>1, <3>2
                DEF CommandInv, HoldsLock, Owns, LeavesNothing, Bound, Recorded
    <2>2. CASE CreateFails(c)
        BY <1>1, <2>2, Fails
    <2> QED BY <2>1, <2>2 DEF CreateVm, CreateBreaks
<1>5. BindingTypeOK'
    BY <1>1, <1>3, <1>4 DEF IInv, BindingTypeOK
<1>6. Records'
    <2>1. /\ id \in Attempts => id = journal
          /\ id = Manual => manual # "none"
        BY <1>1, OwnRecord
    <2>2. Manual \in Identities /\ Attempts \subseteq Identities
        BY DEF Identities
    <2> HIDE DEF id
    <2>3. UNCHANGED <<journal, manual, gateway>> /\ Records
        BY <1>1 DEF IInv
    <2>4. \A a \in Attempts : vm'[a] # "absent" => journal' = a
        BY <1>3, <2>1, <2>2, <2>3 DEF Records
    <2>5. vm'[Manual] # "absent" \/ gateway' = Manual => manual' # "none"
        BY <1>3, <2>1, <2>2, <2>3 DEF Records, ManualIsRecorded
    <2> QED BY <2>3, <2>4, <2>5 DEF Records, ManualIsRecorded
<1> QED BY <1>1, <1>4, <1>5, <1>6, HolderSteps DEF IInv

\* Discover, Activate, Prepare and PrepareAnswered, under the lock.
LEMMA UseSteps ==
    ASSUME IInv, NEW c \in Commands,
           \/ Discover(c) \/ Activate(c) \/ Prepare(c) \/ PrepareAnswered(c)
           \/ PrepareTimesOut(c)
    PROVE  IInv'
<1> DEFINE id == cmd[c].for
<1>1. /\ cmd[c].at \in {"discover", "activate", "prepare", "answer"}
      /\ UNCHANGED <<controller, vm, manual, journal, campaign, fresh>>
      /\ gateway' \in {gateway, id}
      /\ gateway' # gateway => At(c, "activate")
    BY DEF Discover, Activate, Prepare, PrepareAnswered, PrepareTimesOut, At
<1>2. lock = c /\ id \in Identities /\ CommandInv(c)
    <2>1. CommandInv(c)
        BY DEF IInv
    <2> QED BY <1>1, <2>1, OwnIdentity DEF CommandInv, HoldsLock, Locked
<1>3. preparing' \subseteq Identities /\ bindingFaults' \in 0..MaxBindingFaults
    <2>1. preparing \subseteq Identities /\ bindingFaults \in 0..MaxBindingFaults
        BY DEF IInv, BindingTypeOK
    <2>2. CASE PrepareTimesOut(c)
        BY <2>1, <2>2, BindingAssumption DEF PrepareTimesOut, BindingFault
    <2>3. CASE Discover(c) \/ Activate(c) \/ Prepare(c) \/ PrepareAnswered(c)
        BY <1>2, <2>1, <2>3 DEF Discover, Activate, Prepare, PrepareAnswered
    <2> QED BY <2>2, <2>3
<1>4. /\ cmd' \in [Commands -> Command] /\ Mine(c)
      /\ CommandInv(c)' /\ lock' \in Commands \union {Nobody}
    <2>1. CASE \E activated \in BOOLEAN : Fail(c, activated)
        BY <1>1, <2>1, Fails
    <2>2. CASE /\ UNCHANGED lock
               /\ \/ GoTo(c, "activate")
                  \/ GoTo(c, "prepare") /\ gateway' = id
                  \/ GoTo(c, "answer") /\ gateway' = gateway /\ gateway = id
                  \/ GoTo(c, "serve") /\ gateway' = gateway /\ At(c, "answer") /\ controller = id
        <3>1. PICK place \in {"activate", "prepare", "answer", "serve"} :
                  /\ GoTo(c, place)
                  /\ place = "prepare" => gateway' = id
                  /\ place = "answer" => gateway' = id
                  /\ place = "serve" => gateway' = gateway /\ At(c, "answer") /\ controller = id
            BY <2>2
        <3>2. place \in Places
            BY <3>1 DEF Places
        <3>3. /\ cmd' \in [Commands -> Command] /\ Mine(c)
              /\ cmd'[c].at = place /\ cmd'[c].for = cmd[c].for
              /\ cmd'[c].does = cmd[c].does
            BY <3>1, <3>2, Moves
        <3>4. HoldsLock(c)'
            BY <1>2, <2>2 DEF HoldsLock
        <3>5. Owns(c)' /\ LeavesNothing(c)'
            BY <1>1, <1>2, <3>1, <3>3 DEF CommandInv, Owns, LeavesNothing
        <3>6. Bound(c)'
            BY <1>1, <1>2, <3>1, <3>3 DEF CommandInv, Bound, At, Recorded
        <3> QED BY <1>2, <2>2, <3>3, <3>4, <3>5, <3>6 DEF CommandInv
    <2>3. CASE Discover(c)
        BY <2>1, <2>2, <2>3 DEF Discover
    <2>4. CASE Activate(c)
        BY <2>1, <2>2, <2>4 DEF Activate
    <2>5. CASE Prepare(c)
        BY <2>1, <2>2, <2>5 DEF Prepare
    <2>6. CASE PrepareAnswered(c)
        BY <2>1, <2>2, <2>6 DEF PrepareAnswered
    <2>7. CASE PrepareTimesOut(c)
        BY <2>1, <2>7 DEF PrepareTimesOut
    <2> QED BY <2>3, <2>4, <2>5, <2>6, <2>7
<1>5. BindingTypeOK'
    BY <1>1, <1>2, <1>3, <1>4 DEF IInv, BindingTypeOK
<1>6. Records'
    <2>1. id = Manual => manual # "none"
        BY <1>1, OwnRecord
    <2> HIDE DEF id
    <2> QED BY <1>1, <2>1 DEF IInv, Records, ManualIsRecorded
<1> QED BY <1>2, <1>4, <1>5, <1>6, HolderSteps DEF IInv

LEMMA ServeStep ==
    ASSUME IInv, NEW c \in Commands, Serve(c)
    PROVE  IInv'
<1>1. /\ cmd[c].at = "serve" /\ CommandInv(c)
      /\ UNCHANGED <<gateway, controller, preparing, vm, journal, campaign, fresh, bindingFaults>>
    BY DEF Serve, At, IInv
<1>2. lock = c /\ lock \in Commands \union {Nobody}
    BY <1>1 DEF CommandInv, HoldsLock, Locked
<1>3. /\ cmd' \in [Commands -> Command] /\ Mine(c) /\ CommandInv(c)'
      /\ lock' \in Commands \union {Nobody}
      /\ manual' \in {manual, "running"}
      /\ manual' # manual => cmd[c].does = "start"
    <2>1. CASE cmd[c].does = "start" /\ manual' = "running" /\ Exit(c)
        BY <2>1, Exits
    <2>2. CASE /\ GoTo(c, "reset") /\ UNCHANGED manual
               /\ \/ cmd[c].does = "register" /\ lock' = (IF lock = c THEN Nobody ELSE lock)
                  \/ cmd[c].does \in {"run", "stop"} /\ UNCHANGED lock
        <3>1. "reset" \in Places
            BY DEF Places
        <3>2. /\ cmd' \in [Commands -> Command] /\ Mine(c)
              /\ cmd'[c].at = "reset" /\ cmd'[c].for = cmd[c].for
              /\ cmd'[c].does = cmd[c].does
            BY <2>2, <3>1, Moves
        <3>3. CommandInv(c)'
            BY <1>1, <1>2, <2>2, <3>2
            DEF CommandInv, HoldsLock, Owns, LeavesNothing, Bound, Recorded, Locked
        <3> QED BY <1>2, <2>2, <3>2, <3>3
    <2> QED BY <2>1, <2>2 DEF Serve
<1>4. BindingTypeOK'
    BY <1>1, <1>3 DEF IInv, BindingTypeOK
<1>5. Records'
    <2>1. cmd[c].does = "start" => manual # "none"
        BY <1>1 DEF CommandInv, Owns
    <2> QED BY <1>1, <1>3, <2>1 DEF IInv, Records, ManualIsRecorded
<1> QED BY <1>2, <1>3, <1>4, <1>5, HolderSteps DEF IInv

\* The cleanup, which register-apps does without the lock.
LEMMA CleanupSteps ==
    ASSUME IInv, NEW c \in Commands, ResetController(c) \/ Deactivate(c) \/ DestroyVm(c)
    PROVE  IInv'
<1> DEFINE id == cmd[c].for
<1>1. /\ cmd[c].at \in {"reset", "deactivate", "destroy"} /\ CommandInv(c)
      /\ UNCHANGED <<preparing, manual, journal, campaign, fresh, lock, bindingFaults>>
    BY DEF ResetController, Deactivate, DestroyVm, At, IInv
<1>2. id \in Identities /\ vm \in [Identities -> {"absent", "partial", "ready"}]
    BY <1>1, OwnIdentity DEF IInv, BindingTypeOK
<1>3. PICK ok \in BOOLEAN, place \in {"deactivate", "destroy", "clean"} :
          /\ Went(c, ok, place)
          /\ gateway' \in {gateway, Nobody} /\ controller' \in {controller, Nobody}
          /\ vm' = vm \/ vm' = [vm EXCEPT ![id] = "absent"]
          /\ place = "clean" /\ ok => vm' = [vm EXCEPT ![id] = "absent"]
    <2>1. CASE ResetController(c)
        <3>1. (gateway = Nobody \/ (gateway = id /\ controller \in {Nobody, id})) \in BOOLEAN
            OBVIOUS
        <3> QED BY <2>1, <3>1 DEF ResetController
    <2>2. CASE Deactivate(c)
        <3>1. (gateway \in {Nobody, id}) \in BOOLEAN
            OBVIOUS
        <3> QED BY <2>2, <3>1 DEF Deactivate
    <2>3. CASE DestroyVm(c)
        <3>1. PICK abandon \in BOOLEAN :
                  LET ok == vm[id] # "partial" \/ abandon IN
                  /\ vm' = IF ok THEN [vm EXCEPT ![id] = "absent"] ELSE vm
                  /\ Went(c, ok, "clean")
            BY <2>3 DEF DestroyVm
        <3>2. (vm[id] # "partial" \/ abandon) \in BOOLEAN
            OBVIOUS
        <3> QED BY <2>3, <3>1, <3>2 DEF DestroyVm
    <2> QED BY <2>1, <2>2, <2>3
<1>4. place \in Places
    BY <1>3 DEF Places
<1>5. /\ cmd' \in [Commands -> Command] /\ Mine(c)
      /\ cmd'[c].at = place /\ cmd'[c].for = id
      /\ cmd'[c].does = cmd[c].does /\ cmd'[c].clean = (cmd[c].clean /\ ok)
    BY <1>3, <1>4, Goes
<1>6. /\ vm' \in [Identities -> {"absent", "partial", "ready"}] /\ Shrinks
      /\ place = "clean" /\ ok => vm'[id] = "absent"
    BY <1>1, <1>2, <1>3 DEF Shrinks
<1>7. CommandInv(c)'
    <2>1. HoldsLock(c)' /\ Owns(c)'
        BY <1>1, <1>5 DEF CommandInv, HoldsLock, Owns, Recorded, Locked
    <2>2. LeavesNothing(c)'
        BY <1>5, <1>6 DEF LeavesNothing
    <2>3. Bound(c)'
        BY <1>3, <1>5 DEF Bound
    <2> QED BY <2>1, <2>2, <2>3 DEF CommandInv
<1>8. BindingTypeOK'
    BY <1>1, <1>3, <1>5, <1>6 DEF IInv, BindingTypeOK
<1> QED BY <1>1, <1>5, <1>6, <1>7, <1>8, Others, RecordsStay DEF IInv, Released

\* What is forgotten has nothing behind it.
LEMMA FinishStep ==
    ASSUME IInv, NEW c \in Commands, Finish(c)
    PROVE  IInv'
<1> DEFINE id == cmd[c].for
           forget == cmd[c].clean /\ (id = Manual => gateway = Nobody /\ ManualAbsent)
<1>1. /\ cmd[c].at = "clean" /\ CommandInv(c) /\ Exit(c)
      /\ journal' = IF forget /\ journal = id THEN Nobody ELSE journal
      /\ manual' = IF forget /\ id = Manual THEN "none" ELSE manual
      /\ campaign' \in {campaign, FALSE}
      /\ UNCHANGED <<gateway, controller, preparing, vm, fresh, bindingFaults>>
    BY DEF Finish, At, IInv
<1>2. /\ cmd' \in [Commands -> Command] /\ Mine(c) /\ Released(c)
      /\ CommandInv(c)' /\ lock' \in Commands \union {Nobody}
    BY <1>1, Exits
<1>3. BindingTypeOK'
    BY <1>1, <1>2 DEF IInv, BindingTypeOK
<1>4. CASE Recorded(c)
    <2>1. lock = c /\ (cmd[c].clean => vm[id] = "absent")
        BY <1>1, <1>4 DEF CommandInv, HoldsLock, LeavesNothing
    <2>2. /\ journal' # Nobody => journal' = journal
          /\ manual' = "none" \/ manual' = manual
          /\ \A a \in Attempts : vm[a] # "absent" => journal' = a
          /\ vm[Manual] # "absent" \/ gateway = Manual => manual' # "none"
        <3>1. \A a \in Attempts : vm[a] # "absent" => journal = a
            BY DEF IInv, Records
        <3>2. vm[Manual] # "absent" \/ gateway = Manual => manual # "none"
            BY DEF IInv, Records, ManualIsRecorded
        <3>3. Manual # Nobody
            BY BindingAssumption DEF Identities
        <3> QED BY <1>1, <2>1, <3>1, <3>2, <3>3 DEF ManualAbsent
    <2>3. Records'
        BY <1>1, <2>2 DEF IInv, Records, ManualIsRecorded
    <2> QED BY <1>2, <1>3, <2>1, <2>3, HolderSteps DEF IInv
<1>5. CASE ~Recorded(c)
    <2>1. id = Registration
        BY <1>1, <1>5 DEF CommandInv, Owns, Recorded
    <2>2. Registration # Manual /\ journal # Registration
        BY BindingAssumption DEF Manual, Registration, IInv, BindingTypeOK, Identities
    <2>3. Shrinks
        BY <1>1, <2>1, <2>2 DEF Shrinks
    <2> QED BY <1>2, <1>3, <2>3, Others, RecordsStay DEF IInv
<1> QED BY <1>4, <1>5

\* The controller binds whom it was asked for, if the broker still has its
\* VM: then a record names it, and nobody else with a record is served.
LEMMA ControllerStep ==
    ASSUME IInv, NEW id \in Identities, ControllerBinds(id)
    PROVE  IInv'
<1>1. /\ UNCHANGED <<gateway, vm, manual, journal, campaign, fresh, lock, cmd, bindingFaults>>
      /\ preparing' \subseteq preparing
      /\ controller' \in {controller, id}
      /\ controller' # controller => controller' = id /\ vm[id] = "ready"
    BY DEF ControllerBinds
<1>2. BindingTypeOK'
    BY <1>1 DEF IInv, BindingTypeOK
<1>3. Records'
    BY <1>1 DEF IInv, Records, ManualIsRecorded
<1>4. ASSUME NEW c \in Commands
      PROVE  CommandInv(c)'
    <2>1. CommandInv(c)
        BY DEF IInv
    <2>2. ASSUME cmd[c].at = "serve", Recorded(c), vm[id] = "ready"
          PROVE  id \in {cmd[c].for, Registration}
        <3>1. /\ cmd[c].does \in {"run", "recover"} => cmd[c].for = journal /\ journal # Nobody
              /\ cmd[c].does \in {"start", "stop"} => cmd[c].for = Manual /\ manual # "none"
            BY <2>1, <2>2 DEF CommandInv, Owns
        <3>2. cmd[c].does \in {"run", "recover", "start", "stop"}
            BY <2>2 DEF Recorded, IInv, BindingTypeOK, Command
        <3>3. /\ id \in Attempts => journal = id
              /\ id = Manual => manual # "none"
              /\ journal # Nobody => manual = "none"
            BY <2>2 DEF IInv, Records, ManualIsRecorded
        <3>4. id \in Attempts => id # Nobody
            BY BindingAssumption DEF Identities
        <3> QED BY <3>1, <3>2, <3>3, <3>4 DEF Identities
    <2>3. HoldsLock(c)' /\ Owns(c)' /\ LeavesNothing(c)'
        BY <1>1, <2>1 DEF CommandInv, HoldsLock, Owns, LeavesNothing, Recorded
    <2>4. Bound(c)'
        BY <1>1, <2>1, <2>2 DEF CommandInv, Bound, Recorded
    <2> QED BY <2>3, <2>4 DEF CommandInv
<1> QED BY <1>2, <1>3, <1>4 DEF IInv

LEMMA ForgetStep ==
    ASSUME IInv, ForgetManual
    PROVE  IInv'
<1>1. /\ lock = Nobody /\ gateway = Nobody /\ vm[Manual] = "absent" /\ manual' = "none"
      /\ UNCHANGED <<gateway, controller, preparing, vm, journal, campaign, fresh,
                     lock, cmd, bindingFaults>>
    BY DEF ForgetManual, ManualAbsent
<1>2. BindingTypeOK'
    BY <1>1 DEF IInv, BindingTypeOK
<1>3. Records'
    BY <1>1, BindingAssumption DEF IInv, Records, ManualIsRecorded, Identities
<1>4. ASSUME NEW c \in Commands PROVE CommandInv(c)'
    <2>1. Rests(c)
        BY <1>1, OthersRest, BindingAssumption
    <2> QED BY <1>1, <2>1, Resting DEF IInv
<1> QED BY <1>2, <1>3, <1>4 DEF IInv

\* Kills and restarts take away, and leave every record.
LEMMA Restarts ==
    ASSUME IInv, (\E c \in Commands : KillCommand(c)) \/ GatewayRestarts \/ ControllerRestarts \/ HostRestarts
    PROVE  IInv'
<1>1. bindingFaults' \in 0..MaxBindingFaults
    BY BindingAssumption
    DEF KillCommand, GatewayRestarts, ControllerRestarts, HostRestarts, BindingFault,
        IInv, BindingTypeOK
<1>2. CASE \E c \in Commands : KillCommand(c)
    <2>1. PICK c \in Commands : KillCommand(c)
        BY <1>2
    <2>2. /\ UNCHANGED <<gateway, controller, preparing, vm, manual, journal, campaign, fresh>>
          /\ Exit(c)
        BY <2>1 DEF KillCommand
    <2>3. /\ cmd' \in [Commands -> Command] /\ Mine(c) /\ Released(c)
          /\ CommandInv(c)' /\ lock' \in Commands \union {Nobody}
        BY <2>2, Exits
    <2>4. Shrinks
        BY <2>2 DEF Shrinks
    <2>5. BindingTypeOK'
        BY <1>1, <2>2, <2>3 DEF IInv, BindingTypeOK
    <2> QED BY <2>3, <2>4, <2>5, Others, RecordsStay DEF IInv
<1>3. CASE GatewayRestarts \/ ControllerRestarts
    <2>1. /\ UNCHANGED <<vm, manual, journal, campaign, fresh, lock, cmd>>
          /\ gateway' \in {gateway, Nobody} /\ controller' \in {controller, Nobody}
          /\ preparing' \subseteq preparing
        BY <1>3 DEF GatewayRestarts, ControllerRestarts
    <2>2. Shrinks
        BY <2>1 DEF Shrinks
    <2>3. BindingTypeOK'
        BY <1>1, <2>1 DEF IInv, BindingTypeOK
    <2>4. \A c \in Commands : CommandInv(c)'
        BY <2>1, <2>2, Survives
    <2> QED BY <2>2, <2>3, <2>4, RecordsStay DEF IInv
<1>4. CASE HostRestarts
    <2>1. /\ UNCHANGED <<manual, journal, campaign, fresh>>
          /\ gateway' = Nobody /\ controller' = Nobody /\ preparing' = {} /\ lock' = Nobody
          /\ cmd' = [c \in Commands |-> Idle]
          /\ vm' = [i \in Identities |-> IF vm[i] = "ready" THEN "partial" ELSE vm[i]]
        BY <1>4 DEF HostRestarts
    <2>2. vm \in [Identities -> {"absent", "partial", "ready"}]
        BY DEF IInv, BindingTypeOK
    <2>3. /\ vm' \in [Identities -> {"absent", "partial", "ready"}]
          /\ \A i \in Identities : vm'[i] # "absent" => vm[i] # "absent"
        BY <2>1, <2>2
    <2>4. Idle \in Command /\ Idle.at = "idle"
        BY DEF Idle, Command, Places
    <2>5. Shrinks
        BY <2>1, <2>3 DEF Shrinks
    <2>6. BindingTypeOK'
        BY <1>1, <2>1, <2>3, <2>4 DEF IInv, BindingTypeOK
    <2>7. \A c \in Commands : CommandInv(c)'
        BY <2>1, <2>4 DEF CommandInv, HoldsLock, Owns, LeavesNothing, Bound
    <2> QED BY <2>5, <2>6, <2>7, RecordsStay DEF IInv
<1> QED BY <1>2, <1>3, <1>4

----------------------------------------------------------------------------
(* Theorems. *)

THEOREM Preserved ==
    ASSUME IInv, [BindingNext]_bindingVars
    PROVE  IInv'
<1>1. CASE UNCHANGED bindingVars
    BY <1>1
    DEF bindingVars, IInv, BindingTypeOK, Records, ManualIsRecorded, CommandInv,
        HoldsLock, Owns, LeavesNothing, Bound, Recorded
<1>2. ASSUME NEW c \in Commands, CommandStart(c) \/ CommandStep(c) PROVE IInv'
    BY <1>2, Starts, CreateSteps, UseSteps, ServeStep, CleanupSteps, FinishStep
    DEF CommandStep
<1>3. CASE BindingFaultStep
    BY <1>3, CreateSteps, UseSteps, Restarts DEF BindingFaultStep
<1>4. CASE (\E id \in Identities : ControllerBinds(id)) \/ ForgetManual
    BY <1>4, ControllerStep, ForgetStep
<1> QED BY <1>1, <1>2, <1>3, <1>4 DEF BindingNext

\* The inductive invariant: what every command may rely on at its place.
THEOREM Inductive == BindingSpec => []IInv
<1>1. ASSUME BindingInit PROVE IInv
    <2>1. Idle \in Command /\ Idle.at = "idle"
        BY DEF Idle, Command, Places
    <2>2. BindingTypeOK
        <3>1. 0 \in 0..MaxBindingFaults
            BY BindingAssumption
        <3>2. cmd \in [Commands -> Command]
            BY <1>1, <2>1, SMT DEF BindingInit
        <3>3. vm \in [Identities -> {"absent", "partial", "ready"}]
            BY <1>1, SMT DEF BindingInit
        <3> QED BY <1>1, <3>1, <3>2, <3>3 DEF BindingInit, BindingTypeOK
    <2>3. Records
        BY <1>1, BindingAssumption DEF BindingInit, Records, ManualIsRecorded, Identities
    <2>4. \A c \in Commands : CommandInv(c)
        BY <1>1, <2>1 DEF BindingInit, CommandInv, HoldsLock, Owns, LeavesNothing, Bound
    <2> QED BY <2>2, <2>3, <2>4 DEF IInv
<1>2. IInv /\ [BindingNext]_bindingVars => IInv'
    BY Preserved
<1> QED BY <1>1, <1>2, PTL DEF BindingSpec

\* Manual session and benchmark exclude each other, a manual VM is never
\* left without its record, and who is served is not displaced by another
\* recorded attempt, whatever is killed, restarted or answered late.
THEOREM Safe == BindingSpec => []BindingSafe
<1>1. ASSUME IInv PROVE BindingSafe
    <2>1. BackendIsExclusive
        <3>1. \A a \in Attempts : a # Nobody
            BY BindingAssumption DEF Identities
        <3> QED BY <1>1, <3>1 DEF IInv, Records, ManualIsRecorded, BackendIsExclusive
    <2>2. NobodyTakesOver
        BY <1>1 DEF IInv, CommandInv, Bound, Recorded, NobodyTakesOver, At
    <2> QED BY <1>1, <2>1, <2>2 DEF IInv, Records, BindingSafe
<1> QED BY <1>1, Inductive, PTL
=============================================================================
