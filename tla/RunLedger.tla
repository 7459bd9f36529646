------------------------------ MODULE RunLedger ------------------------------
(***************************************************************************)
(* Abstract specification of what the storage service promises to          *)
(* everybody else: a ledger of attempts.  At most one attempt is open in   *)
(* the whole service, the attempts of a task are opened in order, each one *)
(* is closed at most once, and a completed attempt is the last one.        *)
(* Nothing is said of rows, identities, requests or payloads.              *)
(***************************************************************************)
EXTENDS Integers

CONSTANTS Tasks, MaxAttempt

VARIABLE outcome   \* outcome[t][n]: what became of attempt n of task t

Attempts == 1..MaxAttempt
Outcomes == {"unopened", "open", "failed", "completed"}

LedgerTypeOK == outcome \in [Tasks -> [Attempts -> Outcomes]]

Init == outcome = [t \in Tasks |-> [n \in Attempts |-> "unopened"]]

NothingOpen == \A t \in Tasks, n \in Attempts : outcome[t][n] # "open"

Open(t, n) ==
    /\ NothingOpen
    /\ outcome[t][n] = "unopened"
    /\ \A m \in Attempts : m < n => outcome[t][m] = "failed"
    /\ outcome' = [outcome EXCEPT ![t][n] = "open"]

Close(t, n) ==
    /\ outcome[t][n] = "open"
    /\ \E result \in {"failed", "completed"} :
           outcome' = [outcome EXCEPT ![t][n] = result]

Next == \E t \in Tasks, n \in Attempts : Open(t, n) \/ Close(t, n)

Spec == Init /\ [][Next]_outcome
=============================================================================
