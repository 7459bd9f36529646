-------------------------- MODULE RunStorage_proofs --------------------------
(***************************************************************************)
(* Theorems about the storage service, for any number of tasks, runners,   *)
(* conversations, captures and attempts.                                   *)
(***************************************************************************)
EXTENDS RunStorage, TLAPS

(* What one acknowledged request still says about its row. *)
AckMatchesRow(a) ==
    LET row == rows[a.task] IN
    /\ row.status # "absent"
    /\ a.attempt <= row.attempt
    /\ a.kind = "start" => a.spec = row.spec
    /\ a.attempt = row.attempt => a.runner = row.runner
    /\ (a.kind = "conversation" /\ a.attempt = row.attempt) => row.conv = a.conv
    /\ a.kind = "conversation" => a.conv \in Convs
    /\ a.kind = "complete" =>
          /\ row.status = "completed"
          /\ row.attempt = a.attempt
          /\ row.conv = a.conv
          /\ row.capture = a.capture

AcksMatchRows == \A a \in acks : AckMatchesRow(a)

FailAcked(t, n) == \E a \in acks : a.kind = "fail" /\ a.task = t /\ a.attempt = n

RowShape ==
    \A t \in Tasks :
        /\ rows[t].status = "absent" <=> rows[t].attempt = 0
        /\ rows[t].status = "failed" => FailAcked(t, rows[t].attempt)
        /\ \A n \in Attempts : n < rows[t].attempt => FailAcked(t, n)

(* The inductive invariant of the service. *)
IInv ==
    /\ TypeOK
    /\ RowShape
    /\ AcksMatchRows
    /\ SingleRunning
    /\ ConversationUnique
    /\ OneRunnerPerAttempt
    /\ SpecificationFixed
    /\ RunningConversationIsOwn

-----------------------------------------------------------------------------
(* What each request leaves behind is well typed. *)

LEMMA StartRunKeepsTypes ==
    ASSUME TypeOK,
           NEW t \in Tasks, NEW r \in Runners, NEW n \in Attempts,
           NEW s \in Specs, NEW x \in Contexts,
           StartRun(t, r, n, s, x)
    PROVE  TypeOK'
BY RunStorageAssumption
   DEF TypeOK, Row, Ack, Statuses, Attempts, StartRun, StartNew, StartNextAttempt, StartAgain, StartedRow

LEMMA SetConversationKeepsTypes ==
    ASSUME TypeOK,
           NEW t \in Tasks, NEW r \in Runners, NEW n \in Attempts, NEW c \in Convs,
           SetConversation(t, r, n, c)
    PROVE  TypeOK'
BY RunStorageAssumption DEF TypeOK, Row, Ack, Statuses, Attempts, SetConversation

LEMMA CompleteRunKeepsTypes ==
    ASSUME TypeOK,
           NEW t \in Tasks, NEW r \in Runners, NEW n \in Attempts, NEW c \in Convs,
           NEW p \in Captures,
           CompleteRun(t, r, n, c, p)
    PROVE  TypeOK'
BY RunStorageAssumption DEF TypeOK, Row, Ack, Statuses, Attempts, CompleteRun, MayComplete

LEMMA FailRunKeepsTypes ==
    ASSUME TypeOK,
           NEW t \in Tasks, NEW r \in Runners, NEW n \in Attempts, NEW e \in Errors,
           FailRun(t, r, n, e)
    PROVE  TypeOK'
BY RunStorageAssumption DEF TypeOK, Row, Ack, Statuses, Attempts, FailRun, FailedRow

(* Every reachable table is well typed. *)
THEOREM TypeCorrect == Spec => []TypeOK
<1>empty. Init => TypeOK
  BY RunStorageAssumption DEF Init, TypeOK, Row, NoRow, Statuses
<1>request. TypeOK /\ Next => TypeOK'
  BY StartRunKeepsTypes, SetConversationKeepsTypes, CompleteRunKeepsTypes, FailRunKeepsTypes
     DEF Next
<1>stutter. TypeOK /\ UNCHANGED vars => TypeOK'
  BY DEF TypeOK, vars
<1> QED
  BY <1>empty, <1>request, <1>stutter, PTL DEF Spec

-----------------------------------------------------------------------------
LEMMA InitInv == Init => IInv
  BY RunStorageAssumption
     DEF Init, IInv, TypeOK, Row, NoRow, Statuses, RowShape, AcksMatchRows, SingleRunning,
         ConversationUnique, OneRunnerPerAttempt, SpecificationFixed, RunningConversationIsOwn,
         Attempts, FailAcked

LEMMA NextInv == IInv /\ TypeOK' /\ [Next]_vars => IInv'
<1> SUFFICES ASSUME IInv, TypeOK', [Next]_vars PROVE IInv'
  OBVIOUS
<1> USE RunStorageAssumption DEF TypeOK, Row, Ack, Statuses, Attempts
<1>1. ASSUME NEW t \in Tasks, NEW r \in Runners, NEW n \in Attempts,
             NEW s \in Specs, NEW x \in Contexts, StartRun(t, r, n, s, x)
      PROVE  IInv'
  <2>1. RowShape'
    BY <1>1 DEF IInv, StartRun, StartNew, StartNextAttempt, StartAgain, StartedRow, NoOtherRunning, RowShape, FailAcked
  <2>2. AcksMatchRows'
    BY <1>1 DEF IInv, StartRun, StartNew, StartNextAttempt, StartAgain, StartedRow, NoOtherRunning, AcksMatchRows, AckMatchesRow
  <2>3. SingleRunning'
    BY <1>1 DEF IInv, StartRun, StartNew, StartNextAttempt, StartAgain, StartedRow, NoOtherRunning, SingleRunning
  <2>4. ConversationUnique'
    BY <1>1 DEF IInv, StartRun, StartNew, StartNextAttempt, StartAgain, StartedRow, NoOtherRunning, ConversationUnique
  <2>5. OneRunnerPerAttempt'
    BY <1>1 DEF IInv, StartRun, StartNew, StartNextAttempt, StartAgain, StartedRow, NoOtherRunning, OneRunnerPerAttempt, AcksMatchRows, AckMatchesRow
  <2>6. SpecificationFixed'
    BY <1>1 DEF IInv, StartRun, StartNew, StartNextAttempt, StartAgain, StartedRow, NoOtherRunning, SpecificationFixed, AcksMatchRows, AckMatchesRow
  <2>7. RunningConversationIsOwn'
    BY <1>1 DEF IInv, StartRun, StartNew, StartNextAttempt, StartAgain, StartedRow, NoOtherRunning, RunningConversationIsOwn
  <2>8. QED
    BY <2>1, <2>2, <2>3, <2>4, <2>5, <2>6, <2>7 DEF IInv
<1>2. ASSUME NEW t \in Tasks, NEW r \in Runners, NEW n \in Attempts,
             NEW c \in Convs, SetConversation(t, r, n, c)
      PROVE  IInv'
  <2>1. RowShape'
    BY <1>2 DEF IInv, SetConversation, SameIdentity, ConversationFree, RowShape, FailAcked
  <2>2. AcksMatchRows'
    BY <1>2 DEF IInv, SetConversation, SameIdentity, ConversationFree, AcksMatchRows, AckMatchesRow
  <2>3. SingleRunning'
    BY <1>2 DEF IInv, SetConversation, SameIdentity, ConversationFree, SingleRunning
  <2>4. ConversationUnique'
    BY <1>2 DEF IInv, SetConversation, SameIdentity, ConversationFree, ConversationUnique
  <2>5. OneRunnerPerAttempt'
    BY <1>2 DEF IInv, SetConversation, SameIdentity, ConversationFree, OneRunnerPerAttempt, AcksMatchRows, AckMatchesRow
  <2>6. SpecificationFixed'
    BY <1>2 DEF IInv, SetConversation, SameIdentity, ConversationFree, SpecificationFixed, AcksMatchRows, AckMatchesRow
  <2>7. RunningConversationIsOwn'
    <3>1. \E a \in acks' : a.kind = "conversation" /\ a.task = t /\ a.attempt = n /\ a.conv = c
      BY <1>2 DEF SetConversation
    <3>2. /\ rows'[t].attempt = n
          /\ rows'[t].conv = c
          /\ \A u \in Tasks \ {t} : rows'[u] = rows[u]
          /\ acks \subseteq acks'
      BY <1>2 DEF IInv, SetConversation, SameIdentity
    <3>3. QED
      BY <3>1, <3>2 DEF IInv, RunningConversationIsOwn
  <2>8. QED
    BY <2>1, <2>2, <2>3, <2>4, <2>5, <2>6, <2>7 DEF IInv
<1>3. ASSUME NEW t \in Tasks, NEW r \in Runners, NEW n \in Attempts,
             NEW c \in Convs, NEW p \in Captures, CompleteRun(t, r, n, c, p)
      PROVE  IInv'
  <2>1. RowShape'
    BY <1>3 DEF IInv, CompleteRun, MayComplete, SameIdentity, ConversationFree, RowShape, FailAcked
  <2>2. AcksMatchRows'
    <3> SUFFICES ASSUME NEW a \in acks' PROVE AckMatchesRow(a)'
      BY DEF AcksMatchRows
    <3>1. CASE a \in acks
      <4>1. AckMatchesRow(a) /\ a \in Ack
        BY <3>1 DEF IInv, AcksMatchRows
      <4>2. CASE a.task = t
        BY <1>3, <4>1, <4>2 DEF IInv, CompleteRun, MayComplete, SameIdentity, ConversationFree, AckMatchesRow
      <4>3. CASE a.task # t
        BY <1>3, <4>1, <4>3 DEF IInv, CompleteRun, MayComplete, SameIdentity, ConversationFree, AckMatchesRow
      <4>4. QED
        BY <4>2, <4>3
    <3>2. CASE a \notin acks
      BY <1>3, <3>2 DEF IInv, CompleteRun, MayComplete, SameIdentity, ConversationFree, AckMatchesRow
    <3>3. QED
      BY <3>1, <3>2
  <2>3. SingleRunning'
    BY <1>3 DEF IInv, CompleteRun, MayComplete, SameIdentity, ConversationFree, SingleRunning
  <2>4. ConversationUnique'
    BY <1>3 DEF IInv, CompleteRun, MayComplete, SameIdentity, ConversationFree, ConversationUnique
  <2>5. OneRunnerPerAttempt'
    BY <1>3 DEF IInv, CompleteRun, MayComplete, SameIdentity, ConversationFree, OneRunnerPerAttempt, AcksMatchRows, AckMatchesRow
  <2>6. SpecificationFixed'
    BY <1>3 DEF IInv, CompleteRun, MayComplete, SameIdentity, ConversationFree, SpecificationFixed, AcksMatchRows, AckMatchesRow
  <2>7. RunningConversationIsOwn'
    BY <1>3 DEF IInv, CompleteRun, MayComplete, SameIdentity, ConversationFree, RunningConversationIsOwn
  <2>8. QED
    BY <2>1, <2>2, <2>3, <2>4, <2>5, <2>6, <2>7 DEF IInv
<1>4. ASSUME NEW t \in Tasks, NEW r \in Runners, NEW n \in Attempts,
             NEW e \in Errors, FailRun(t, r, n, e)
      PROVE  IInv'
  <2>1. RowShape'
    <3> DEFINE ack == [kind |-> "fail", task |-> t, attempt |-> n, runner |-> r,
                       spec |-> None, conv |-> None, capture |-> None, error |-> e]
    <3>0. ack \in acks' /\ acks \subseteq acks'
      BY <1>4 DEF FailRun
    <3>1. FailAcked(t, n)' /\ (\A u \in Tasks, m \in Attempts : FailAcked(u, m) => FailAcked(u, m)')
      <4>1. FailAcked(t, n)'
        BY <3>0, ack.kind = "fail", ack.task = t, ack.attempt = n, Zenon DEF FailAcked
      <4>2. QED
        BY <3>0, <4>1, Zenon DEF FailAcked
    <3>2. rows[t].attempt = n /\ rows[t].status # "absent"
      BY <1>4 DEF FailRun, SameIdentity
    <3>3. rows'[t].attempt = n /\ rows'[t].status # "absent"
      BY <1>4, <3>2 DEF IInv, FailRun, FailedRow
    <3>4. \A u \in Tasks \ {t} : rows'[u] = rows[u]
      BY <1>4 DEF IInv, FailRun, FailedRow
    <3>5. QED
      BY <3>1, <3>2, <3>3, <3>4 DEF IInv, RowShape
  <2>2. AcksMatchRows'
    <3> SUFFICES ASSUME NEW a \in acks' PROVE AckMatchesRow(a)'
      BY DEF AcksMatchRows
    <3>1. CASE a \in acks
      <4>1. AckMatchesRow(a) /\ a \in Ack
        BY <3>1 DEF IInv, AcksMatchRows
      <4>2. CASE a.task = t
        BY <1>4, <4>1, <4>2 DEF IInv, FailRun, FailedRow, SameIdentity, AckMatchesRow
      <4>3. CASE a.task # t
        BY <1>4, <4>1, <4>3 DEF IInv, FailRun, FailedRow, SameIdentity, AckMatchesRow
      <4>4. QED
        BY <4>2, <4>3
    <3>2. CASE a \notin acks
      BY <1>4, <3>2 DEF IInv, FailRun, FailedRow, SameIdentity, AckMatchesRow
    <3>3. QED
      BY <3>1, <3>2
  <2>3. SingleRunning'
    BY <1>4 DEF IInv, FailRun, FailedRow, SameIdentity, SingleRunning
  <2>4. ConversationUnique'
    BY <1>4 DEF IInv, FailRun, FailedRow, SameIdentity, ConversationUnique
  <2>5. OneRunnerPerAttempt'
    BY <1>4 DEF IInv, FailRun, FailedRow, SameIdentity, OneRunnerPerAttempt, AcksMatchRows, AckMatchesRow
  <2>6. SpecificationFixed'
    BY <1>4 DEF IInv, FailRun, FailedRow, SameIdentity, SpecificationFixed, AcksMatchRows, AckMatchesRow
  <2>7. RunningConversationIsOwn'
    BY <1>4 DEF IInv, FailRun, FailedRow, SameIdentity, RunningConversationIsOwn
  <2>8. QED
    BY <2>1, <2>2, <2>3, <2>4, <2>5, <2>6, <2>7 DEF IInv
<1>5. CASE UNCHANGED vars
  BY <1>5 DEF vars, IInv, RowShape, FailAcked, AcksMatchRows, AckMatchesRow, SingleRunning,
              ConversationUnique, OneRunnerPerAttempt, SpecificationFixed,
              RunningConversationIsOwn
<1>6. QED
  BY <1>1, <1>2, <1>3, <1>4, <1>5 DEF Next

THEOREM Invariant == Spec => []IInv
<1>1. Spec => []TypeOK
  BY TypeCorrect
<1>2. QED
  BY <1>1, InitInv, NextInv, PTL DEF Spec

(* One attempt of one task runs in the whole service, and no two tasks share *)
(* a conversation.                                                          *)
THEOREM Exclusion == Spec => []RowsExclude
<1>1. IInv => RowsExclude
  BY DEF IInv, RowsExclude
<1>2. QED
  BY <1>1, Invariant, PTL

(* What was acknowledged as completed is completed for ever. *)
THEOREM CompletionIsFinal == Spec => []AckedCompletionIsFinal
<1>1. IInv => AckedCompletionIsFinal
  BY DEF IInv, AcksMatchRows, AckMatchesRow, AckedCompletionIsFinal
<1>2. QED
  BY <1>1, Invariant, PTL

(* An attempt has one runner, and a task one specification, for ever. *)
THEOREM OneOwner == Spec => []AttemptHasOneOwner
<1>1. IInv => AttemptHasOneOwner
  BY DEF IInv, AttemptHasOneOwner
<1>2. QED
  BY <1>1, Invariant, PTL

(* An acknowledged conversation stands for the rest of its attempt, and the *)
(* conversation of a running attempt was acknowledged for that attempt.     *)
THEOREM ConversationAcknowledged == Spec => []ConversationIsAcknowledged
<1>1. IInv => ConversationIsAcknowledged
  BY DEF IInv, AcksMatchRows, AckMatchesRow, AckedConversationStands,
         ConversationIsAcknowledged
<1>2. QED
  BY <1>1, Invariant, PTL

(* A new attempt begins only when all the earlier ones were reported failed. *)
THEOREM NextAttemptAfterFailure == Spec => []EarlierAttemptsFailed
<1>1. IInv => EarlierAttemptsFailed
  BY RunStorageAssumption
     DEF IInv, RowShape, FailAcked, AcksMatchRows, AckMatchesRow, EarlierAttemptsFailed,
         TypeOK, Row, Ack, Attempts, Statuses
<1>2. QED
  BY <1>1, Invariant, PTL

-----------------------------------------------------------------------------
(* The service implements the abstract ledger of attempts. *)
THEOREM Refinement == Spec => LedgerSpec
<1> USE RunStorageAssumption DEF Attempts, Ledger!Attempts
<1> DEFINE ledger == [t \in Tasks |-> [n \in Attempts |-> LedgerOutcome(rows[t], n)]]
<1>1. Init => Ledger!Init
  BY DEF Init, NoRow, Ledger!Init, LedgerOutcome
<1>2. IInv /\ TypeOK' /\ [Next]_vars => [Ledger!Next]_ledger
  <2> SUFFICES ASSUME IInv, TypeOK', [Next]_vars
               PROVE  [Ledger!Next]_ledger
    OBVIOUS
  <2>0. TypeOK /\ RowShape /\ SingleRunning
    BY DEF IInv
  <2>1. CASE UNCHANGED rows
    BY <2>1
  <2>2. ASSUME NEW t \in Tasks, NEW n \in Attempts,
               NoOtherRunning(t), rows[t].status \in {"absent", "failed"},
               n = rows[t].attempt + 1,
               rows'[t].status = "running", rows'[t].attempt = n,
               \A u \in Tasks \ {t} : rows'[u] = rows[u]
        PROVE  Ledger!Next
    <3>1. Ledger!NothingOpen
      BY <2>0, <2>2 DEF Ledger!NothingOpen, LedgerOutcome, NoOtherRunning, TypeOK, Row, Statuses
    <3>2. ledger[t][n] = "unopened"
      BY <2>0, <2>2 DEF LedgerOutcome, TypeOK, Row
    <3>3. \A m \in Attempts : m < n => ledger[t][m] = "failed"
      BY <2>0, <2>2 DEF LedgerOutcome, TypeOK, Row, RowShape
    <3>4. ledger' = [ledger EXCEPT ![t][n] = "open"]
      <4>1. \A m \in Attempts \ {n} : LedgerOutcome(rows[t], m)' = LedgerOutcome(rows[t], m)
        BY <2>0, <2>2 DEF LedgerOutcome, TypeOK, Row, RowShape
      <4>2. LedgerOutcome(rows[t], n)' = "open"
        BY <2>0, <2>2 DEF LedgerOutcome, TypeOK, Row
      <4>3. \A u \in Tasks \ {t}, m \in Attempts :
                LedgerOutcome(rows[u], m)' = LedgerOutcome(rows[u], m)
        BY <2>2 DEF LedgerOutcome
      <4>4. QED
        BY <4>1, <4>2, <4>3, Zenon
    <3>5. QED
      BY <3>1, <3>2, <3>3, <3>4 DEF Ledger!Next, Ledger!Open
  <2>3. ASSUME NEW t \in Tasks, NEW n \in Attempts,
               rows[t].status = "running", rows[t].attempt = n,
               NEW result \in {"failed", "completed"},
               rows'[t].status = result, rows'[t].attempt = n,
               \A u \in Tasks \ {t} : rows'[u] = rows[u]
        PROVE  Ledger!Next
    <3>1. ledger[t][n] = "open"
      BY <2>0, <2>3 DEF LedgerOutcome
    <3>2. ledger' = [ledger EXCEPT ![t][n] = result]
      <4>1. ASSUME NEW m \in Attempts \ {n}
            PROVE  LedgerOutcome(rows[t], m)' = LedgerOutcome(rows[t], m)
        <5>1. m < n \/ m > n
          OBVIOUS
        <5>2. QED
          BY <2>3, <5>1 DEF LedgerOutcome
      <4>2. LedgerOutcome(rows[t], n)' = result
        BY <2>0, <2>3 DEF LedgerOutcome, TypeOK, Row
      <4>3. \A u \in Tasks \ {t}, m \in Attempts :
                LedgerOutcome(rows[u], m)' = LedgerOutcome(rows[u], m)
        BY <2>3 DEF LedgerOutcome
      <4>4. QED
        BY <4>1, <4>2, <4>3, Zenon
    <3>3. QED
      BY <3>1, <3>2 DEF Ledger!Next, Ledger!Close
  <2>4. ASSUME NEW t \in Tasks, NEW r \in Runners, NEW n \in Attempts,
               NEW s \in Specs, NEW x \in Contexts, StartRun(t, r, n, s, x)
        PROVE  [Ledger!Next]_ledger
    <3>1. CASE StartNew(t, r, n, s, x)
      BY <2>0, <2>2, <2>4, <3>1 DEF StartRun, StartNew, StartedRow, RowShape, TypeOK, Row
    <3>2. CASE StartNextAttempt(t, r, n, s, x)
      BY <2>0, <2>2, <2>4, <3>2 DEF StartRun, StartNextAttempt, StartedRow, TypeOK, Row
    <3>3. CASE StartAgain(t, r, n, s, x)
      BY <2>1, <3>3 DEF StartAgain
    <3>4. QED
      BY <2>4, <3>1, <3>2, <3>3 DEF StartRun
  <2>5. ASSUME NEW t \in Tasks, NEW r \in Runners, NEW n \in Attempts,
               NEW c \in Convs, SetConversation(t, r, n, c)
        PROVE  [Ledger!Next]_ledger
    <3>1. \A u \in Tasks : rows'[u].status = rows[u].status /\ rows'[u].attempt = rows[u].attempt
      BY <2>0, <2>5 DEF SetConversation, TypeOK, Row
    <3>2. \A u \in Tasks, m \in Attempts : LedgerOutcome(rows[u], m)' = LedgerOutcome(rows[u], m)
      BY <3>1 DEF LedgerOutcome
    <3>3. QED
      BY <3>2, Zenon
  <2>6. ASSUME NEW t \in Tasks, NEW r \in Runners, NEW n \in Attempts,
               NEW c \in Convs, NEW p \in Captures, CompleteRun(t, r, n, c, p)
        PROVE  [Ledger!Next]_ledger
    BY <2>0, <2>1, <2>3, <2>6 DEF CompleteRun, MayComplete, SameIdentity, TypeOK, Row
  <2>7. ASSUME NEW t \in Tasks, NEW r \in Runners, NEW n \in Attempts,
               NEW e \in Errors, FailRun(t, r, n, e)
        PROVE  [Ledger!Next]_ledger
    BY <2>0, <2>1, <2>3, <2>7 DEF FailRun, FailedRow, SameIdentity, TypeOK, Row
  <2>8. QED
    BY <2>1, <2>4, <2>5, <2>6, <2>7 DEF Next, vars
<1>3. QED
  BY <1>1, <1>2, Invariant, TypeCorrect, PTL DEF Spec, LedgerSpec, Ledger!Spec
=============================================================================
