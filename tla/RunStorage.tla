----------------------------- MODULE RunStorage -----------------------------
(***************************************************************************)
(* The storage service: the authoritative row of every task and the four   *)
(* mutations a runner may ask for (apps/storage, repository.py).           *)
(*                                                                         *)
(* Each handler is one database transaction, so it is one action.  The     *)
(* client repeats a request whose answer it did not receive                *)
(* (storage_client.py, safe_retry) and several runners may hold old        *)
(* requests, so the environment is the most general one: any request may   *)
(* arrive at any time, in any order and any number of times.  A refused    *)
(* request (HTTP 409 or 404) changes nothing and is a stuttering step.     *)
(*                                                                         *)
(* acks is a history variable: the requests the service answered with 200. *)
(* It is what a client may rely on, so the promises of the service are     *)
(* stated as relations between acks and the rows.                          *)
(***************************************************************************)
EXTENDS Integers, FiniteSets

CONSTANTS
    Tasks,        \* task_id values
    Runners,      \* runner_id values
    Specs,        \* (task_fingerprint, logical_task_id) of a task
    Contexts,     \* (app_provenance, dataset_metadata) of an attempt
    Convs,        \* conversation ids
    Captures,     \* (messages, runtime_metadata, evaluation) of a completion
    BadCaptures,  \* captures whose evaluation is malformed
    Errors,       \* (error_type, error_message)
    MaxAttempt,   \* bound: attempts explored
    None          \* SQL NULL

ASSUME RunStorageAssumption ==
    /\ MaxAttempt \in Nat
    /\ BadCaptures \subseteq Captures
    /\ None \notin Runners \cup Specs \cup Contexts \cup Convs \cup Captures \cup Errors

VARIABLES
    rows,   \* the runs table, one row per task
    acks    \* history: requests answered with 200

vars == <<rows, acks>>

Attempts == 1..MaxAttempt
Statuses == {"absent", "running", "completed", "failed"}

Row == [status  : Statuses,
        attempt : 0..MaxAttempt,
        runner  : Runners \cup {None},
        spec    : Specs \cup {None},
        context : Contexts \cup {None},
        conv    : Convs \cup {None},
        capture : Captures \cup {None},
        error   : Errors \cup {None}]

NoRow == [status |-> "absent", attempt |-> 0, runner |-> None, spec |-> None,
          context |-> None, conv |-> None, capture |-> None, error |-> None]

Ack == [kind    : {"start", "conversation", "complete", "fail"},
        task    : Tasks,
        attempt : Attempts,
        runner  : Runners,
        spec    : Specs \cup {None},
        conv    : Convs \cup {None},
        capture : Captures \cup {None},
        error   : Errors \cup {None}]

TypeOK ==
    /\ rows \in [Tasks -> Row]
    /\ acks \subseteq Ack

Init ==
    /\ rows = [t \in Tasks |-> NoRow]
    /\ acks = {}

-----------------------------------------------------------------------------
(* start_run, under pg_advisory_xact_lock: the whole table is read, so two *)
(* concurrent starts cannot both find the service idle.                    *)

(* mutant: the other rows are not looked at *)
NoOtherRunning_Unchecked(t) == TRUE

NoOtherRunning(t) == \A u \in Tasks \ {t} : rows[u].status # "running"

(* mutant: a new attempt keeps the conversation of the failed one *)
StartedRow_KeepsConversation(t, r, n, s, x) ==
    [status |-> "running", attempt |-> n, runner |-> r, spec |-> s,
     context |-> x, conv |-> rows[t].conv, capture |-> None, error |-> None]

StartedRow(t, r, n, s, x) ==
    [status |-> "running", attempt |-> n, runner |-> r, spec |-> s,
     context |-> x, conv |-> None, capture |-> None, error |-> None]

StartNew(t, r, n, s, x) ==
    /\ rows[t].status = "absent"
    /\ n = 1
    /\ rows' = [rows EXCEPT ![t] = StartedRow(t, r, n, s, x)]

(* mutant: the attempt number of the request is incremented once more *)
StartNextAttempt_IncrementsTwice(t, r, n, s, x) ==
    /\ rows[t].status = "failed"
    /\ rows[t].spec = s
    /\ n = rows[t].attempt + 1
    /\ rows' = [rows EXCEPT ![t] = StartedRow(t, r, n + 1, s, x)]

StartNextAttempt(t, r, n, s, x) ==
    /\ rows[t].status = "failed"
    /\ rows[t].spec = s
    /\ n = rows[t].attempt + 1
    /\ rows' = [rows EXCEPT ![t] = StartedRow(t, r, n, s, x)]

(* mutant: the idempotent answer does not look at the runner *)
StartAgain_AnyRunner(t, r, n, s, x) ==
    /\ rows[t].status = "running"
    /\ rows[t].spec = s
    /\ rows[t].context = x
    /\ rows[t].attempt = n
    /\ UNCHANGED rows

StartAgain(t, r, n, s, x) ==
    /\ rows[t].status = "running"
    /\ rows[t].spec = s
    /\ rows[t].context = x
    /\ rows[t].attempt = n
    /\ rows[t].runner = r
    /\ UNCHANGED rows

StartRun(t, r, n, s, x) ==
    /\ NoOtherRunning(t)
    /\ \/ StartNew(t, r, n, s, x)
       \/ StartNextAttempt(t, r, n, s, x)
       \/ StartAgain(t, r, n, s, x)
    /\ acks' = acks \cup {[kind |-> "start", task |-> t, attempt |-> n, runner |-> r,
                           spec |-> s, conv |-> None, capture |-> None, error |-> None]}

-----------------------------------------------------------------------------
(* The three other mutations name the attempt and the runner they were      *)
(* issued for; _check_identity refuses the ones of another attempt.         *)

(* mutant: a request of an earlier attempt is taken for the latest one *)
SameIdentity_RunnerOnly(t, r, n) ==
    /\ rows[t].status # "absent"
    /\ rows[t].runner = r

SameIdentity(t, r, n) ==
    /\ rows[t].status # "absent"
    /\ rows[t].attempt = n
    /\ rows[t].runner = r

(* mutant: no unique index *)
ConversationFree_Unchecked(t, c) == TRUE

(* the partial unique index on conversation_id *)
ConversationFree(t, c) == \A u \in Tasks \ {t} : rows[u].conv # c

SetConversation(t, r, n, c) ==
    /\ SameIdentity(t, r, n)
    /\ \/ /\ rows[t].status = "completed"
          /\ rows[t].conv = c
          /\ UNCHANGED rows
       \/ /\ rows[t].status = "running"
          /\ rows[t].conv \in {None, c}
          /\ ConversationFree(t, c)
          /\ rows' = [rows EXCEPT ![t].conv = c]
    /\ acks' = acks \cup {[kind |-> "conversation", task |-> t, attempt |-> n, runner |-> r,
                           spec |-> None, conv |-> c, capture |-> None, error |-> None]}

(* mutant: a completion may name another conversation than the one recorded *)
MayComplete_AnyConversation(t, c) ==
    /\ rows[t].status = "running"
    /\ ConversationFree(t, c)

MayComplete(t, c) ==
    /\ rows[t].status = "running"
    /\ rows[t].conv \in {None, c}
    /\ ConversationFree(t, c)

CompleteRun(t, r, n, c, p) ==
    /\ SameIdentity(t, r, n)
    /\ p \notin BadCaptures
    /\ \/ /\ rows[t].status = "completed"
          /\ rows[t].conv = c
          /\ rows[t].capture = p
          /\ UNCHANGED rows
       \/ /\ MayComplete(t, c)
          /\ rows' = [rows EXCEPT ![t].status = "completed", ![t].conv = c,
                                  ![t].capture = p, ![t].error = None]
    /\ acks' = acks \cup {[kind |-> "complete", task |-> t, attempt |-> n, runner |-> r,
                           spec |-> None, conv |-> c, capture |-> p, error |-> None]}

(* mutant: a late failure report overwrites a completed row *)
FailedRow_Overwrites(t, e) ==
    /\ rows[t].status \in {"running", "completed"}
    /\ rows' = [rows EXCEPT ![t].status = "failed", ![t].capture = None, ![t].error = e]

FailedRow(t, e) ==
    /\ rows[t].status = "running"
    /\ rows' = [rows EXCEPT ![t].status = "failed", ![t].capture = None, ![t].error = e]

FailRun(t, r, n, e) ==
    /\ SameIdentity(t, r, n)
    /\ \/ rows[t].status = "completed" /\ UNCHANGED rows
       \/ rows[t].status = "failed" /\ rows[t].error = e /\ UNCHANGED rows
       \/ FailedRow(t, e)
    /\ acks' = acks \cup {[kind |-> "fail", task |-> t, attempt |-> n, runner |-> r,
                           spec |-> None, conv |-> None, capture |-> None, error |-> e]}

-----------------------------------------------------------------------------
Next ==
    \E t \in Tasks, r \in Runners, n \in Attempts :
        \/ \E s \in Specs, x \in Contexts : StartRun(t, r, n, s, x)
        \/ \E c \in Convs : SetConversation(t, r, n, c)
        \/ \E c \in Convs, p \in Captures : CompleteRun(t, r, n, c, p)
        \/ \E e \in Errors : FailRun(t, r, n, e)

Spec == Init /\ [][Next]_vars

-----------------------------------------------------------------------------
(* Properties *)

(* One attempt of one task runs in the whole service: what the advisory     *)
(* lock of start_run is for.                                                *)
SingleRunning ==
    \A t, u \in Tasks :
        rows[t].status = "running" /\ rows[u].status = "running" => t = u

(* No two rows ever name the same conversation, whatever order the          *)
(* conversation and completion requests of both tasks arrive in.            *)
ConversationUnique ==
    \A t, u \in Tasks : rows[t].conv # None /\ rows[t].conv = rows[u].conv => t = u

(* What only one row may hold is held by one: the right to run, and a       *)
(* conversation.                                                            *)
RowsExclude == SingleRunning /\ ConversationUnique

(* A completion that was answered with 200 is final: whatever is repeated,  *)
(* reordered or requested later, the row still holds exactly that           *)
(* conversation and capture, for that attempt.                              *)
AckedCompletionIsFinal ==
    \A a \in acks : a.kind = "complete" =>
        /\ rows[a.task].status = "completed"
        /\ rows[a.task].attempt = a.attempt
        /\ rows[a.task].runner = a.runner
        /\ rows[a.task].conv = a.conv
        /\ rows[a.task].capture = a.capture

(* A conversation that was acknowledged for an attempt stays its            *)
(* conversation until a later attempt begins; the row never changes to      *)
(* another conversation behind the runner's back.                           *)
AckedConversationStands ==
    \A a \in acks :
        (a.kind = "conversation" /\ rows[a.task].attempt = a.attempt)
            => rows[a.task].conv = a.conv

OneRunnerPerAttempt ==
    \A a, b \in acks :
        (a.task = b.task /\ a.attempt = b.attempt) => a.runner = b.runner

SpecificationFixed ==
    \A a, b \in acks :
        (a.kind = "start" /\ b.kind = "start" /\ a.task = b.task) => a.spec = b.spec

(* An attempt belongs to one runner: two acknowledged requests of the same  *)
(* attempt never come from two; and all attempts of a task were started     *)
(* with one specification.                                                  *)
AttemptHasOneOwner == OneRunnerPerAttempt /\ SpecificationFixed

(* An attempt is begun only after every earlier attempt of the task was     *)
(* reported failed to the service, and none of them was ever completed.     *)
EarlierAttemptsFailed ==
    \A t \in Tasks, n \in Attempts :
        n < rows[t].attempt =>
            /\ \E a \in acks : a.kind = "fail" /\ a.task = t /\ a.attempt = n
            /\ ~\E a \in acks : a.kind = "complete" /\ a.task = t /\ a.attempt = n

(* A running attempt begins with no trace of the previous one: the first    *)
(* conversation it may hold was acknowledged for this very attempt.         *)
RunningConversationIsOwn ==
    \A t \in Tasks :
        (rows[t].status = "running" /\ rows[t].conv # None) =>
            \E a \in acks : a.kind = "conversation" /\ a.task = t
                            /\ a.attempt = rows[t].attempt /\ a.conv = rows[t].conv

(* The row and the answers agree on the conversation of an attempt: what    *)
(* was acknowledged stands, and what a running row holds was acknowledged.  *)
ConversationIsAcknowledged == AckedConversationStands /\ RunningConversationIsOwn

-----------------------------------------------------------------------------
(* The row says what became of its latest attempt; every earlier attempt    *)
(* failed, and no later one was opened.                                     *)
LedgerOutcome(row, n) ==
    CASE n < row.attempt -> "failed"
      [] n > row.attempt -> "unopened"
      [] OTHER -> IF row.status = "running" THEN "open" ELSE row.status

Ledger == INSTANCE RunLedger
              WITH outcome <- [t \in Tasks |-> [n \in Attempts |-> LedgerOutcome(rows[t], n)]]

(* The service implements the ledger of attempts: however requests are      *)
(* lost, repeated or reordered, an accepted one opens or closes exactly one *)
(* attempt of the ledger, or changes nothing of it.                         *)
LedgerSpec == Ledger!Spec
=============================================================================
