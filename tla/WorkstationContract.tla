------------------------ MODULE WorkstationContract ------------------------
(***************************************************************************)
(* Abstract specification of what everybody relies on about the VM of an   *)
(* attempt, whoever asks the broker for it and whatever fails:             *)
(*   - a VM comes only from nothing: what is left of a create or a destroy *)
(*     that broke off never becomes a usable VM again;                     *)
(*   - what is usable is taken down, or lost with the host, as a whole;    *)
(*   - an evaluator is recorded only beside a usable VM, and the record    *)
(*     does not outlive what it lies in.                                   *)
(* Nothing is said of requests, resources, commands or records of others.  *)
(***************************************************************************)
CONSTANT Machines

VARIABLES
    machine,      \* machine[i]: what there is of the VM of i
    evaluator     \* evaluator[i]: is an evaluator of i recorded

contractVars == <<machine, evaluator>>

\* partial is what Broker._read refuses, ready what it accepts.
MachineStates == {"absent", "building", "partial", "ready"}

Init ==
    /\ machine = [i \in Machines |-> "absent"]
    /\ evaluator = [i \in Machines |-> FALSE]

Begin(i) ==
    /\ machine[i] = "absent"
    /\ machine' = [machine EXCEPT ![i] = "building"]
    /\ UNCHANGED evaluator

\* A create is undone, breaks off, or makes the whole VM.
Build(i) ==
    /\ machine[i] \in {"absent", "building"}
    /\ \E left \in {"absent", "partial", "ready"} : machine' = [machine EXCEPT ![i] = left]
    /\ UNCHANGED evaluator

\* A destroy may break off, too.
TakeDown(i) ==
    \/ /\ machine[i] = "ready"
       /\ machine' = [machine EXCEPT ![i] = "partial"]
       /\ UNCHANGED evaluator
    \/ /\ machine[i] \in {"partial", "ready"}
       /\ machine' = [machine EXCEPT ![i] = "absent"]
       /\ evaluator' = [evaluator EXCEPT ![i] = FALSE]

Record(i) ==
    /\ machine[i] = "ready"
    /\ evaluator' = [evaluator EXCEPT ![i] = TRUE]
    /\ UNCHANGED machine

Forget(i) ==
    /\ evaluator' = [evaluator EXCEPT ![i] = FALSE]
    /\ UNCHANGED machine

\* A crash of the host leaves no VM usable, and maybe a part of the one that
\* was being built.
Crash ==
    /\ \E hit \in SUBSET Machines :
        /\ \A i \in Machines : machine[i] = "ready" => i \in hit
        /\ \A i, j \in hit : machine[i] = "absent" /\ machine[j] = "absent" => i = j
        /\ machine' = [i \in Machines |->
                           IF i \in hit THEN "partial"
                           ELSE IF machine[i] = "building" THEN "absent" ELSE machine[i]]
    /\ UNCHANGED evaluator

Next ==
    \/ \E i \in Machines : Begin(i) \/ Build(i) \/ TakeDown(i) \/ Record(i) \/ Forget(i)
    \/ Crash

Spec == Init /\ [][Next]_contractVars
=============================================================================
