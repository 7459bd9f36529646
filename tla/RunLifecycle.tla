---------------------------- MODULE RunLifecycle ----------------------------
(***************************************************************************)
(* Abstract specification of an active benchmark run, as the operator      *)
(* understands it: a frozen set of tasks is worked on, with stops and      *)
(* resumes; tasks are only ever added to the finished ones; the run is     *)
(* completed only when all of them are finished, and stays so until a new  *)
(* run begins.  Nothing is said of processes, signals or files.            *)
(***************************************************************************)
CONSTANT Tasks

VARIABLES phase, done

Phases == {"none", "active", "stopped", "completed"}

LifecycleTypeOK == phase \in Phases /\ done \subseteq Tasks

Init == phase = "none" /\ done = {}

Begin ==
    /\ phase \in {"none", "completed"}
    /\ phase' = "active"
    /\ done' = {}

Finish(t) ==
    /\ phase = "active"
    /\ done' = done \cup {t}
    /\ UNCHANGED phase

Stop ==
    /\ phase = "active"
    /\ phase' = "stopped"
    /\ UNCHANGED done

Resume ==
    /\ phase = "stopped"
    /\ phase' = "active"
    /\ UNCHANGED done

Complete ==
    /\ phase = "active"
    /\ done = Tasks
    /\ phase' = "completed"
    /\ UNCHANGED done

Next == Begin \/ Stop \/ Resume \/ Complete \/ \E t \in Tasks : Finish(t)

Spec == Init /\ [][Next]_<<phase, done>>
=============================================================================
