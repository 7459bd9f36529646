------------------------------- MODULE Broker -------------------------------
(***************************************************************************)
(* The workstation broker (apps/workstation-broker): what exists on the    *)
(* host for every VM, and the requests that build it and take it down.     *)
(*                                                                         *)
(* The broker is one asyncio process whose commands block the event loop.  *)
(* A request is therefore a queue of instructions that nothing interleaves *)
(* with, except a failing command, a kill or a crash of the host.  Only    *)
(* the wait for a booting guest gives other requests their turn.           *)
(***************************************************************************)
EXTENDS Integers, Sequences, FiniteSets, SequencesExt

CONSTANTS
    Plain,            \* attempts without a template
    Templated,        \* attempts of a template, which may own evaluators
    Retries,          \* evaluators of one attempt that may exist at once
    MaxWaiting,       \* creates of one VM that wait for its guest at once
    MaxBrokerFaults   \* failing commands, kills and crashes

VARIABLES
    host,             \* host[v]: the resources of v that exist on the host
    index,            \* index[t]: the rows of evaluators.json of t
    queue,            \* what is left of the request the broker executes
    booting,          \* booting[v]: creates of v that wait for the guest
    brokerFaults

brokerVars == <<host, index, queue, booting, brokerFaults>>

Teachers == Plain \union Templated

ASSUME BrokerAssumption ==
    /\ Teachers # {}
    /\ Retries \in Nat
    /\ MaxWaiting \in Nat \ {0}
    /\ MaxBrokerFaults \in Nat

\* The identity of an attempt's own VM, and of its evaluators.
Vm(t) == <<t, 0>>
EvaluatorsOf(t) == {<<t, n>> : n \in 1..Retries}
Evaluators == UNION {EvaluatorsOf(t) : t \in Templated}
Vms == {Vm(t) : t \in Teachers} \union Evaluators

(***************************************************************************)
(* Resources, in the order create() makes them.  "disk" is the mounted     *)
(* quota filesystem with what lies on it, "bridge" a started network,      *)
(* "running" a started domain.  An evaluator has no network.               *)
(***************************************************************************)
\* mutant: the firewall is loaded when the domain already runs
BuildRank_LateFirewall ==
    [directory |-> 1, disk |-> 2, network |-> 3, bridge |-> 4,
     domain |-> 5, state |-> 6, running |-> 7, firewall |-> 8]

BuildRank ==
    [directory |-> 1, disk |-> 2, network |-> 3, bridge |-> 4,
     firewall |-> 5, domain |-> 6, state |-> 7, running |-> 8]

\* destroy() goes the other way; rmtree takes what is in a directory first.
TearRank ==
    [running |-> 1, domain |-> 2, bridge |-> 3, network |-> 4, firewall |-> 5,
     disk |-> 6, state |-> 7, directory |-> 8]

Resources == DOMAIN BuildRank
NetworkParts == {"network", "bridge", "firewall"}
Needs(v) == IF v \in Evaluators THEN Resources \ NetworkParts ELSE Resources

\* What a host crash takes: processes, mounts and tables, but no file and
\* no definition of libvirt.
Volatile == {"disk", "bridge", "firewall", "running"}

NextToBuild(v, r) ==
    /\ r \in Needs(v) \ host[v]
    /\ \A q \in Needs(v) : BuildRank[q] < BuildRank[r] => q \in host[v]

NextToTear(v, r) ==
    /\ r \in host[v]
    /\ \A q \in host[v] : TearRank[r] <= TearRank[q]

(***************************************************************************)
(* _read accepts a VM only when everything it was made of is in place;     *)
(* the domain need not run, and a destroy does not ask for the firewall.   *)
(***************************************************************************)
Readable(v, firewall) ==
    LET parts == {"directory", "state", "domain", "disk", "network"}
    IN  Needs(v) \intersect (parts \union (IF firewall THEN {"firewall"} ELSE {}))
            \subseteq host[v]

(***************************************************************************)
(* Instructions.                                                           *)
(***************************************************************************)
Build(v) == [do |-> "build", vm |-> v, rows |-> {}]
Tear(v)  == [do |-> "tear", vm |-> v, rows |-> {}]
WriteRows(t, rows) == [do |-> "index", vm |-> Vm(t), rows |-> rows]
Reap == [do |-> "reap", vm |-> Vm(CHOOSE t \in Teachers : TRUE), rows |-> {}]

Instruction ==
    [do : {"build", "tear", "index", "reap"}, vm : Vms, rows : SUBSET Evaluators]

\* abandon_evaluators: the lenient destroy of each, then an empty index.
Abandoning(t) ==
    SetToSeq({Tear(e) : e \in index[t]}) \o <<WriteRows(t, {})>>

BrokerTypeOK ==
    /\ host \in [Vms -> SUBSET Resources]
    /\ index \in [Templated -> SUBSET Evaluators]
    /\ queue \in Seq(Instruction)
    /\ booting \in [Vms -> 0..MaxWaiting]
    /\ brokerFaults \in 0..MaxBrokerFaults

BrokerInit ==
    /\ host = [v \in Vms |-> {}]
    /\ index = [t \in Templated |-> {}]
    /\ queue = <<>>
    /\ booting = [v \in Vms |-> 0]
    /\ brokerFaults = 0

----------------------------------------------------------------------------
(* Requests.  One that is refused changes nothing. *)

Accept(instructions) ==
    /\ queue = <<>>
    /\ queue' = instructions

\* mutant: only libvirt is asked for leftovers
CreateAttempt_OverLeftovers(t) ==
    /\ "domain" \notin host[Vm(t)]
    /\ booting[Vm(t)] < MaxWaiting
    /\ Accept(<<Build(Vm(t))>>)
    /\ UNCHANGED <<host, index, booting, brokerFaults>>

\* create_attempt.  A templated attempt that has its state file is only
\* inspected, which changes nothing.
CreateAttempt(t) ==
    /\ {"directory", "domain"} \intersect host[Vm(t)] = {}
    /\ booting[Vm(t)] < MaxWaiting
    /\ Accept(<<Build(Vm(t))>>)
    /\ UNCHANGED <<host, index, booting, brokerFaults>>

\* mutant: the row is written when the VM is there
CreateEvaluator_IndexedLast(t, abandonStale) ==
    /\ Readable(Vm(t), TRUE)
    /\ index[t] = {} \/ abandonStale
    /\ \E e \in EvaluatorsOf(t) :
        /\ e \notin index[t] /\ host[e] = {} /\ booting[e] = 0
        /\ Accept((IF index[t] = {} THEN <<>> ELSE Abandoning(t))
                      \o <<Build(e), WriteRows(t, {e})>>)
    /\ UNCHANGED <<host, index, booting, brokerFaults>>

\* create_evaluator: the row is durable before anything of the VM exists.
\* The identity is new: nothing of it is left anywhere.
CreateEvaluator(t, abandonStale) ==
    /\ Readable(Vm(t), TRUE)
    /\ index[t] = {} \/ abandonStale
    /\ \E e \in EvaluatorsOf(t) :
        /\ e \notin index[t] /\ host[e] = {} /\ booting[e] = 0
        /\ Accept((IF index[t] = {} THEN <<>> ELSE Abandoning(t))
                      \o <<WriteRows(t, {e}), Build(e)>>)
    /\ UNCHANGED <<host, index, booting, brokerFaults>>

\* destroy_attempt: the strict destroy.  Without a directory it returns at
\* once, and it refuses whatever _read does not accept.
DestroyAttempt(t) ==
    /\ Readable(Vm(t), FALSE)
    /\ Accept(<<Tear(Vm(t))>>)
    /\ UNCHANGED <<host, index, booting, brokerFaults>>

\* mutant: abandoning asks for as much as destroying
AbandonAttempt_Strict(t) ==
    /\ Readable(Vm(t), FALSE)
    /\ Accept(<<Tear(Vm(t))>>)
    /\ UNCHANGED <<host, index, booting, brokerFaults>>

\* abandon_attempt: the lenient destroy.
AbandonAttempt(t) ==
    /\ Accept(<<Tear(Vm(t))>>)
    /\ UNCHANGED <<host, index, booting, brokerFaults>>

AbandonEvaluators(t) ==
    /\ Accept(Abandoning(t))
    /\ UNCHANGED <<host, index, booting, brokerFaults>>

\* destroy_evaluator: candidate and evaluator must both be readable.
DestroyEvaluator(t, e) ==
    /\ e \in index[t]
    /\ Readable(e, TRUE) /\ Readable(Vm(t), TRUE)
    /\ Accept(<<Tear(e), WriteRows(t, index[t] \ {e})>>)
    /\ UNCHANGED <<host, index, booting, brokerFaults>>

DestroyAll ==
    /\ Accept(<<Reap>>)
    /\ UNCHANGED <<host, index, booting, brokerFaults>>

----------------------------------------------------------------------------
(* Steps of the request in execution. *)

Executing(kind) == queue # <<>> /\ Head(queue).do = kind

BuildStep ==
    /\ Executing("build")
    /\ \E r \in Resources :
        /\ NextToBuild(Head(queue).vm, r)
        /\ host' = [host EXCEPT ![Head(queue).vm] = @ \union {r}]
    /\ UNCHANGED <<index, queue, booting, brokerFaults>>

\* The domain is started: the request waits for the guest's first answer.
BuildDone ==
    /\ Executing("build")
    /\ Needs(Head(queue).vm) \subseteq host[Head(queue).vm]
    /\ booting' = [booting EXCEPT ![Head(queue).vm] = @ + 1]
    /\ queue' = Tail(queue)
    /\ UNCHANGED <<host, index, brokerFaults>>

\* rmtree takes evaluators.json with the other files of the directory.
TearStep ==
    /\ Executing("tear")
    /\ LET v == Head(queue).vm IN
        \E r \in Resources :
            /\ NextToTear(v, r)
            /\ host' = [host EXCEPT ![v] = @ \ {r}]
            /\ index' = [t \in Templated |->
                            IF v = Vm(t) /\ r = "directory" THEN {} ELSE index[t]]
    /\ UNCHANGED <<queue, booting, brokerFaults>>

\* assert_absent ends every destroy.
TearDone ==
    /\ Executing("tear")
    /\ host[Head(queue).vm] = {}
    /\ queue' = Tail(queue)
    /\ UNCHANGED <<host, index, booting, brokerFaults>>

\* The index lies in the directory of the attempt; without one there is
\* nothing to write.
WriteIndex ==
    /\ Executing("index")
    /\ index' = [t \in Templated |->
                    IF Head(queue).vm = Vm(t) /\ "directory" \in host[Vm(t)]
                    THEN Head(queue).rows ELSE index[t]]
    /\ queue' = Tail(queue)
    /\ UNCHANGED <<host, booting, brokerFaults>>

(***************************************************************************)
(* destroy_all takes the directories one by one: strictly when they have a *)
(* state file, as an orphan otherwise; then what libvirt and nft still     *)
(* hold under the project's prefixes.  A refused directory ends it.        *)
(***************************************************************************)
ReapNext ==
    /\ Executing("reap")
    /\ \E v \in Vms :
        /\ host[v] # {}
        /\ "directory" \in host[v]
               \/ \A w \in Vms : "directory" \notin host[w]
        /\ queue' = IF "state" \in host[v] /\ ~Readable(v, FALSE)
                    THEN <<>> ELSE <<Tear(v)>> \o queue
    /\ UNCHANGED <<host, index, booting, brokerFaults>>

ReapDone ==
    /\ Executing("reap")
    /\ \A v \in Vms : host[v] = {}
    /\ queue' = <<>>
    /\ UNCHANGED <<host, index, booting, brokerFaults>>

\* The guest answered with its identity and the VM is inspected.
BootReady(v) ==
    /\ queue = <<>>
    /\ booting[v] > 0
    /\ Readable(v, TRUE) /\ "running" \in host[v]
    /\ booting' = [booting EXCEPT ![v] = @ - 1]
    /\ UNCHANGED <<host, index, queue, brokerFaults>>

\* It did not: what has no template is taken down, the rest stays.
BootTimeout(v) ==
    /\ queue = <<>>
    /\ booting[v] > 0
    /\ booting' = [booting EXCEPT ![v] = @ - 1]
    /\ queue' = IF v[1] \in Plain THEN <<Tear(v)>> ELSE <<>>
    /\ UNCHANGED <<host, index, brokerFaults>>

----------------------------------------------------------------------------
(* Faults. *)

Fault ==
    /\ brokerFaults < MaxBrokerFaults
    /\ brokerFaults' = brokerFaults + 1

\* A command fails.  create() without a template undoes what it built.
CommandFails ==
    /\ Fault
    /\ queue # <<>>
    /\ queue' = IF Executing("build") /\ Head(queue).vm[1] \in Plain
                THEN <<Tear(Head(queue).vm)>> ELSE <<>>
    /\ UNCHANGED <<host, index, booting>>

BrokerKill ==
    /\ Fault
    /\ queue' = <<>>
    /\ booting' = [v \in Vms |-> 0]
    /\ UNCHANGED <<host, index>>

HostCrash ==
    /\ Fault
    /\ host' = [v \in Vms |-> host[v] \ Volatile]
    /\ queue' = <<>>
    /\ booting' = [v \in Vms |-> 0]
    /\ UNCHANGED index

GuestStops(v) ==
    /\ Fault
    /\ queue = <<>>
    /\ "running" \in host[v]
    /\ host' = [host EXCEPT ![v] = @ \ {"running"}]
    /\ UNCHANGED <<index, queue, booting>>

Requests ==
    \/ \E t \in Teachers : CreateAttempt(t) \/ DestroyAttempt(t) \/ AbandonAttempt(t)
    \/ \E t \in Templated, stale \in BOOLEAN : CreateEvaluator(t, stale)
    \/ \E t \in Templated : AbandonEvaluators(t)
    \/ \E t \in Templated : \E e \in EvaluatorsOf(t) : DestroyEvaluator(t, e)
    \/ DestroyAll

Steps ==
    \/ BuildStep \/ BuildDone \/ TearStep \/ TearDone
    \/ WriteIndex \/ ReapNext \/ ReapDone

Boots == \E v \in Vms : BootReady(v) \/ BootTimeout(v)

BrokerFaultsNext ==
    CommandFails \/ BrokerKill \/ HostCrash \/ \E v \in Vms : GuestStops(v)

BrokerNext == Requests \/ Steps \/ Boots \/ BrokerFaultsNext

BrokerSpec == BrokerInit /\ [][BrokerNext]_brokerVars

(***************************************************************************)
(* A running broker executes its request and its waits end (both are       *)
(* bounded by timeouts); an operator repeats reset-recovery, which         *)
(* abandons the attempt, for as long as something is left of it.           *)
(***************************************************************************)
BrokerFairness ==
    /\ WF_brokerVars(Steps)
    /\ WF_brokerVars(Boots)
    /\ \A t \in Teachers : SF_brokerVars(AbandonAttempt(t))

BrokerFairSpec == BrokerSpec /\ BrokerFairness

----------------------------------------------------------------------------
(* Properties. *)

\* Whatever of a VM exists on the host, its directory exists too: destroy
\* and destroy_all find their work by the directory, also after a kill or a
\* crash between any two commands.
ResourcesHaveDirectory ==
    \A v \in Vms : host[v] # {} => "directory" \in host[v]

\* A guest with a network never runs without its egress firewall: the rules
\* are loaded before the domain is defined and removed after it is gone.
RunningIsFenced ==
    \A v \in Vms \ Evaluators :
        "running" \in host[v] => {"bridge", "firewall"} \subseteq host[v]

\* What of it a request may break off, fail or lose.
BrokerSafe == BrokerTypeOK /\ ResourcesHaveDirectory /\ RunningIsFenced

\* Nothing of an evaluator is built before the index of its attempt names
\* it, and it leaves the index when nothing is left of it, or with the
\* whole directory of the attempt.
EvaluatorsAreIndexed ==
    [][\A t \in Templated : \A e \in EvaluatorsOf(t) :
           /\ host[e] = {} /\ host'[e] # {} => e \in index[t]
           /\ e \in index[t] /\ e \notin index'[t] =>
                  host'[e] = {} \/ "directory" \notin host'[Vm(t)]]_brokerVars

\* However far a create or a destroy got, and whatever a crash took, the
\* lenient destroy of reset-recovery takes the rest down.
AbandonGetsThrough ==
    \A t \in Teachers : []<>(host[Vm(t)] = {})

\* What there is of the VM of t for those who ask the broker.
MachineOf(t) ==
    IF Executing("build") /\ Head(queue).vm = Vm(t) THEN "building"
    ELSE IF host[Vm(t)] = {} THEN "absent"
    ELSE IF Readable(Vm(t), TRUE) THEN "ready" ELSE "partial"

BrokerContract == INSTANCE WorkstationContract
                      WITH Machines <- Teachers,
                           machine <- [t \in Teachers |-> MachineOf(t)],
                           evaluator <- [t \in Teachers |-> t \in Templated /\ index[t] # {}]

\* With all its steps, waits, failures and crashes the broker keeps the
\* contract that runner and commands rely on: only a request that found
\* nothing builds a VM, and only one that found it usable records an
\* evaluator beside it.
BrokerKeepsContract == BrokerContract!Spec

=============================================================================
