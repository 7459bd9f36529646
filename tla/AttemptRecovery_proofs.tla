------------------------ MODULE AttemptRecovery_proofs ------------------------
(***************************************************************************)
(* Theorems about AttemptRecovery for any tasks, bounds and faults.        *)
(*                                                                         *)
(* IInv relates the program counter of the runner to what is durable: the  *)
(* journal entry it works under, the row, the conversation and the VMs.    *)
(* After a crash only the part without the program counter is left, and it *)
(* is strong enough to select the branch of reconcile_journal that         *)
(* re-establishes the rest.                                                *)
(***************************************************************************)
EXTENDS AttemptRecovery, FiniteSetTheorems, TLAPS

RowOf(i) == rows[i[1]]

NotSent(i) == \A c \in sent : c[1] # i

Clean(i) == workstation[i] = "absent" /\ evaluator[i] = FALSE /\ gateway # i

(* Steps of an attempt whose row is running. *)
RunningPcs ==
    {"create", "activate", "mark_prepared", "benchmark", "compose", "submit", "click",
     "persist_id", "mark_known", "attach", "generate", "attach_recovered", "save_capture",
     "mark_checkpoint", "candidate", "evaluate", "destroy_evaluator", "complete",
     "undo_reset", "undo_fail", "resume_prepare", "resume_evaluate", "resume_recover",
     "resume_candidate", "abandon_fail", "prerun_fail"}

(* Steps that know the conversation. *)
ConvPcs ==
    {"persist_id", "mark_known", "attach", "generate", "attach_recovered", "save_capture",
     "mark_checkpoint", "candidate", "evaluate", "destroy_evaluator", "complete",
     "mark_cleanup", "delete", "resume_evaluate", "resume_recover", "resume_candidate"}

PcInv ==
    /\ pc = "idle" <=> cur = None
    /\ pc = "idle" => conv = None
    /\ pc \in {"clear_capture", "prerun_fail"} => journal = None
    /\ pc \notin {"idle", "clear_capture", "prerun_fail"} => journal # None /\ journal.id = cur

RowInv ==
    \A t \in Tasks :
        /\ rows[t].status = "absent" <=> rows[t].attempt = 0
        /\ rows[t].conv # None =>
               rows[t].conv = <<<<t, rows[t].attempt>>, 1>> /\ rows[t].conv \in sent
        /\ rows[t].status = "completed" => rows[t].conv # None

(* The attempt of a journal has its row, unless it is only starting.        *)
JournalRow ==
    journal # None =>
        \/ RowOf(journal.id).attempt = journal.id[2]
        \/ /\ RowOf(journal.id).attempt = journal.id[2] - 1
           /\ RowOf(journal.id).status \in {"absent", "failed"}
           /\ journal.phase = "starting"
           /\ pc \in {"idle", "start", "early_reset", "undo_clear"}

JournalInv ==
    journal # None =>
        /\ journal.conv # None => journal.conv = <<journal.id, 1>> /\ journal.conv \in sent
        /\ journal.msg # 0 => journal.msg = 1 /\ <<journal.id, 1>> \in sent
        /\ journal.phase \in PreSubmission => NotSent(journal.id)
        /\ journal.phase \in Checkpointed =>
               capture = journal.id /\ journal.id[1] \in Hooked /\ journal.conv # None
        /\ journal.phase = "cleanup_pending" => RowOf(journal.id).status = "completed"

SentInv ==
    \A c \in sent :
        /\ c[2] = 1
        /\ c[1][2] <= RowOf(c[1]).attempt
        /\ RunningRow(c[1]) => journal # None /\ journal.id = c[1]

ResourceInv ==
    /\ \A i \in Ids :
           (workstation[i] # "absent" \/ evaluator[i] \/ gateway = i) =>
               journal # None /\ journal.id = i
    /\ \A i \in Ids :
           evaluator[i] => /\ journal.phase = "candidate_checkpointed"
                           /\ RowOf(i).status # "completed"
                           /\ pc # "complete"
    /\ pc \in {"start", "undo_fail", "undo_clear", "clear"} => Clean(cur)

DeletedInv ==
    \A c \in deleted : RowOf(c[1]).status = "completed" /\ RowOf(c[1]).conv = c

StepRow ==
    /\ pc \in RunningPcs => RunningRow(cur)
    /\ pc = "start" => /\ RowOf(cur).status \in {"absent", "failed"}
                       /\ RowOf(cur).attempt = cur[2] - 1
    /\ pc \in {"mark_cleanup", "delete", "reset"} =>
           RowOf(cur).status = "completed" /\ RowOf(cur).attempt = cur[2]
    /\ pc = "cleanup_failed" => RowOf(cur).status = "failed" /\ RowOf(cur).attempt = cur[2]
    /\ pc \in {"clear", "undo_clear"} => ~RunningRow(cur)

StepPhase ==
    /\ pc \in {"start", "create", "activate"} => journal.phase = "starting"
    /\ pc \in {"mark_prepared", "benchmark", "compose", "submit", "resume_prepare",
               "undo_reset", "undo_fail", "early_reset"} => journal.phase \in PreSubmission
    /\ pc = "click" => /\ journal.phase = "submission_started"
                       /\ NotSent(cur)
    /\ pc \in {"persist_id", "mark_known", "resume_candidate"} =>
           journal.phase = "submission_started"
    /\ pc \in {"attach", "generate", "attach_recovered", "resume_recover", "save_capture",
               "mark_checkpoint"} => journal.phase \in {"submission_started", "conversation_known"}
    /\ pc = "candidate" => journal.phase = "conversation_checkpointed"
    /\ pc \in {"evaluate", "destroy_evaluator"} => journal.phase = "candidate_checkpointed"
    /\ pc = "resume_evaluate" => journal.phase \in Checkpointed
    /\ pc = "complete" => journal.phase \notin PreSubmission
    /\ pc \in {"save_capture", "mark_checkpoint"} => cur[1] \in Hooked
    /\ pc = "mark_checkpoint" => capture = cur

StepConv ==
    /\ pc \in ConvPcs => conv = <<cur, 1>> /\ conv \in sent
    /\ pc \in {"mark_cleanup", "delete"} => RowOf(cur).conv = conv

IInv ==
    /\ TypeOK
    /\ PcInv
    /\ RowInv
    /\ JournalRow
    /\ JournalInv
    /\ SentInv
    /\ ResourceInv
    /\ DeletedInv
    /\ StepRow
    /\ StepPhase
    /\ StepConv

-----------------------------------------------------------------------------
(* Attempts, conversations, journal entries and rows: what they are made of. *)

LEMMA IdFacts ==
    /\ \A t \in Tasks, n \in Attempts : <<t, n>> \in Ids
    /\ \A i \in Ids : i[1] \in Tasks /\ i[2] \in Attempts /\ i[2] \in Nat \ {0}
                      /\ i = <<i[1], i[2]>> /\ i # None
<1>1. \A n \in Attempts : n \in Nat \ {0}
  BY AttemptAssumption DEF Attempts
<1> QED
  BY <1>1, NoneAssumption DEF Ids

LEMMA ConvFacts ==
    /\ \A i \in Ids, n \in 1..MaxSends : <<i, n>> \in Convs
    /\ \A i \in Ids : <<i, 1>> \in Convs
    /\ \A c \in Convs : c[1] \in Ids /\ c[2] \in 1..MaxSends /\ c = <<c[1], c[2]>> /\ c # None
<1>1. 1 \in 1..MaxSends
  BY AttemptAssumption
<1> QED
  BY <1>1, NoneAssumption DEF Convs

LEMMA EntryFacts ==
    /\ \A i \in Ids, p \in Phases, c \in Convs \cup {None}, m \in 0..MaxSends :
           [id |-> i, phase |-> p, conv |-> c, msg |-> m] \in Entry
    /\ \A e \in Entry : e.id \in Ids /\ e.phase \in Phases /\ e.conv \in Convs \cup {None}
                        /\ e.msg \in 0..MaxSends /\ e # None
BY NoneAssumption DEF Entry

LEMMA RowFacts ==
    /\ \A s \in {"absent", "running", "failed", "completed"}, n \in 0..MaxAttempt,
          c \in Convs \cup {None} :
           [status |-> s, attempt |-> n, conv |-> c] \in Row
    /\ \A r \in Row : r.status \in {"absent", "running", "failed", "completed"}
                      /\ r.attempt \in 0..MaxAttempt /\ r.attempt \in Nat
                      /\ r.conv \in Convs \cup {None}
                      /\ r = [status |-> r.status, attempt |-> r.attempt, conv |-> r.conv]
<1>1. \A n \in 0..MaxAttempt : n \in Nat
  BY AttemptAssumption
<1> QED
  BY <1>1 DEF Row

LEMMA SendFacts ==
    /\ 0 \in 0..MaxSends /\ 1 \in 0..MaxSends /\ 1 \in 1..MaxSends
    /\ \A c \in Convs : c[2] \in 0..MaxSends
BY ConvFacts, AttemptAssumption

LEMMA FaultFacts ==
    ASSUME faults \in 0..MaxFaults, FaultHappens
    PROVE  faults' \in 0..MaxFaults
BY AttemptAssumption DEF FaultHappens

(* start_run leaves a running row without conversation behind.              *)
LEMMA StartRowFacts ==
    ASSUME rows \in [Tasks -> Row], NEW i \in Ids, StartRow(i)
    PROVE  /\ rows' \in [Tasks -> Row]
           /\ rows'[i[1]] = [status |-> "running", attempt |-> i[2], conv |-> None]
           /\ \A t \in Tasks : t # i[1] => rows'[t] = rows[t]
<1>1. i[2] \in 0..MaxAttempt
  BY IdFacts, AttemptAssumption DEF Attempts
<1>2. [status |-> "running", attempt |-> i[2], conv |-> None] \in Row
  BY <1>1, RowFacts
<1> QED
  BY <1>2, IdFacts DEF StartRow

LEMMA NextIdFacts ==
    ASSUME TypeOK, NEW t \in Tasks, rows[t].attempt < MaxAttempt
    PROVE  /\ <<t, rows[t].attempt + 1>> \in Ids
           /\ <<t, rows[t].attempt + 1>> # None
<1>1. rows[t].attempt \in Nat
  BY RowFacts DEF TypeOK
<1>2. rows[t].attempt + 1 \in Attempts
  BY <1>1, AttemptAssumption DEF Attempts
<1> QED
  BY <1>2, IdFacts

LEMMA RowFailedFacts ==
    ASSUME rows \in [Tasks -> Row], NEW t \in Tasks,
           rows' = [rows EXCEPT ![t].status = "failed"]
    PROVE  /\ rows' \in [Tasks -> Row]
           /\ rows'[t].status = "failed" /\ rows'[t].attempt = rows[t].attempt
           /\ rows'[t].conv = rows[t].conv
           /\ \A u \in Tasks : u # t => rows'[u] = rows[u]
<1>1. rows[t] \in Row
  OBVIOUS
<1> QED
  BY <1>1 DEF Row

(* The Send button is clicked for an attempt without a conversation, so its *)
(* conversation is the first one of the attempt.                            *)
LEMMA FirstSend ==
    ASSUME NEW i \in Ids, NotSent(i)
    PROVE  SendsOf(i) = 0
<1>1. {c \in sent : c[1] = i} = {}
  BY DEF NotSent
<1> QED
  BY <1>1, FS_EmptySet DEF SendsOf

-----------------------------------------------------------------------------
(* The journal is rewritten.                                                *)

OffJournal == {"idle", "clear_capture", "prerun_fail"}

LEMMA MarkFacts ==
    ASSUME TypeOK, NEW from, NEW p \in Phases, NEW c \in Convs \cup {None},
           NEW m \in 0..MaxSends, NEW to, Mark(from, p, c, m, to)
    PROVE  /\ pc = from /\ pc' = to /\ cur \in Ids /\ cur # None
           /\ journal' \in Entry /\ journal' # None
           /\ journal'.id = cur /\ journal'.phase = p /\ journal'.conv = c /\ journal'.msg = m
           /\ UNCHANGED <<rows, capture, workstation, evaluator, gateway, sent, deleted, cur,
                          conv, explicit, faults>>
<1>1. cur \in Ids
  BY DEF TypeOK, Mark, At
<1>2. [id |-> cur, phase |-> p, conv |-> c, msg |-> m] \in Entry
  BY <1>1, EntryFacts
<1> QED
  BY <1>1, <1>2, EntryFacts DEF Mark, WriteJournal, At, Goto, machines, chat, local

(* What the code knows before it writes an entry.                           *)
MayMark(p, c, m) ==
    /\ c # None => c = <<cur, 1>> /\ c \in sent
    /\ m # 0 => m = 1 /\ <<cur, 1>> \in sent
    /\ p \in PreSubmission => NotSent(cur)
    /\ p \in Checkpointed => capture = cur /\ cur[1] \in Hooked /\ c # None
    /\ p = "cleanup_pending" => RowOf(cur).status = "completed"
    /\ evaluator[cur] => p = "candidate_checkpointed"
    /\ RowOf(cur).attempt = cur[2]

LEMMA MarkKeeps ==
    ASSUME IInv, NEW from \in Steps \ OffJournal, NEW p \in Phases,
           NEW c \in Convs \cup {None}, NEW m \in 0..MaxSends,
           NEW to \in Steps \ (OffJournal \cup {"start", "undo_fail", "undo_clear", "clear", "complete"}),
           Mark(from, p, c, m, to), MayMark(p, c, m)
    PROVE  /\ TypeOK' /\ PcInv' /\ RowInv' /\ JournalRow' /\ JournalInv'
           /\ SentInv' /\ ResourceInv' /\ DeletedInv'
<1>1. /\ pc = from /\ pc' = to /\ cur \in Ids /\ cur # None
      /\ journal' \in Entry /\ journal' # None
      /\ journal'.id = cur /\ journal'.phase = p /\ journal'.conv = c /\ journal'.msg = m
      /\ UNCHANGED <<rows, capture, workstation, evaluator, gateway, sent, deleted, cur,
                     conv, explicit, faults>>
  BY MarkFacts DEF IInv
<1>2. journal # None /\ journal.id = cur
  BY <1>1 DEF IInv, PcInv, OffJournal
<1>3. TypeOK'
  BY <1>1 DEF IInv, TypeOK
<1>4. PcInv'
  BY <1>1 DEF IInv, PcInv, OffJournal
<1>5. RowInv' /\ DeletedInv'
  BY <1>1 DEF IInv, RowInv, DeletedInv, RowOf
<1>6. JournalRow'
  BY <1>1 DEF JournalRow, RowOf, MayMark
<1>7. JournalInv'
  BY <1>1 DEF JournalInv, RowOf, MayMark, NotSent
<1>8. SentInv'
  BY <1>1, <1>2 DEF IInv, SentInv, RowOf, RunningRow
<1>9. ResourceInv'
  <2>1. \A i \in Ids : (workstation[i] # "absent" \/ evaluator[i] \/ gateway = i) => i = cur
    BY <1>1, <1>2 DEF IInv, ResourceInv
  <2>2. \A i \in Ids : evaluator[i] => RowOf(i).status # "completed"
    BY DEF IInv, ResourceInv
  <2> QED
    BY <1>1, <2>1, <2>2 DEF ResourceInv, MayMark, RowOf
<1> QED
  BY <1>3, <1>4, <1>5, <1>6, <1>7, <1>8, <1>9

LEMMA MarkPreparedKeeps ==
    ASSUME IInv, MarkPrepared
    PROVE  IInv'
<1> DEFINE to == IF Task \in Hooked THEN "benchmark" ELSE "compose"
<1>1. Mark("mark_prepared", "apps_prepared", None, 0, to)
  BY DEF MarkPrepared
<1>2. /\ pc = "mark_prepared" /\ cur \in Ids /\ cur # None
  BY <1>1 DEF IInv, TypeOK, Mark, At
<1>3. MayMark("apps_prepared", None, 0) /\ None \in Convs \cup {None} /\ 0 \in 0..MaxSends
  BY <1>2, SendFacts, ConvFacts DEF IInv, TypeOK, PcInv, JournalInv, ResourceInv, StepRow,
     StepPhase, StepConv, MayMark, RunningPcs, ConvPcs, RunningRow, RowOf, PreSubmission,
     Checkpointed, NotSent
<1>4. /\ TypeOK' /\ PcInv' /\ RowInv' /\ JournalRow' /\ JournalInv'
      /\ SentInv' /\ ResourceInv' /\ DeletedInv'
  BY <1>1, <1>3, MarkKeeps DEF Steps, AttemptSteps, UndoSteps, RecoverSteps, OtherSteps,
     OffJournal, Phases, PreSubmission, Checkpointed
<1>5. /\ pc' = to /\ journal'.phase = "apps_prepared"
      /\ UNCHANGED <<rows, capture, workstation, evaluator, gateway, sent, deleted, cur,
                     conv, explicit, faults>>
  BY <1>1, <1>3, MarkFacts DEF IInv, Phases, PreSubmission, Checkpointed
<1>6. StepRow' /\ StepPhase' /\ StepConv'
  BY <1>2, <1>5 DEF IInv, StepRow, StepPhase, StepConv, RunningPcs, ConvPcs, RunningRow,
     RowOf, PreSubmission, Task
<1> QED
  BY <1>4, <1>6 DEF IInv

LEMMA ComposeKeeps ==
    ASSUME IInv, Compose
    PROVE  IInv'
<1> DEFINE to == "submit"
<1>1. Mark("compose", "composer_dirty", None, 0, to)
  BY DEF Compose
<1>2. /\ pc = "compose" /\ cur \in Ids /\ cur # None
  BY <1>1 DEF IInv, TypeOK, Mark, At
<1>3. MayMark("composer_dirty", None, 0) /\ None \in Convs \cup {None} /\ 0 \in 0..MaxSends
  BY <1>2, SendFacts, ConvFacts DEF IInv, TypeOK, PcInv, JournalInv, ResourceInv, StepRow,
     StepPhase, StepConv, MayMark, RunningPcs, ConvPcs, RunningRow, RowOf, PreSubmission,
     Checkpointed, NotSent
<1>4. /\ TypeOK' /\ PcInv' /\ RowInv' /\ JournalRow' /\ JournalInv'
      /\ SentInv' /\ ResourceInv' /\ DeletedInv'
  BY <1>1, <1>3, MarkKeeps DEF Steps, AttemptSteps, UndoSteps, RecoverSteps, OtherSteps,
     OffJournal, Phases, PreSubmission, Checkpointed
<1>5. /\ pc' = to /\ journal'.phase = "composer_dirty"
      /\ UNCHANGED <<rows, capture, workstation, evaluator, gateway, sent, deleted, cur,
                     conv, explicit, faults>>
  BY <1>1, <1>3, MarkFacts DEF IInv, Phases, PreSubmission, Checkpointed
<1>6. StepRow' /\ StepPhase' /\ StepConv'
  BY <1>2, <1>5 DEF IInv, StepRow, StepPhase, StepConv, RunningPcs, ConvPcs, RunningRow,
     RowOf, PreSubmission, Task
<1> QED
  BY <1>4, <1>6 DEF IInv

LEMMA MarkSubmissionKeeps ==
    ASSUME IInv, MarkSubmission
    PROVE  IInv'
<1> DEFINE to == "click"
<1>1. Mark("submit", "submission_started", None, 0, to)
  BY DEF MarkSubmission
<1>2. /\ pc = "submit" /\ cur \in Ids /\ cur # None
  BY <1>1 DEF IInv, TypeOK, Mark, At
<1>3. MayMark("submission_started", None, 0) /\ None \in Convs \cup {None} /\ 0 \in 0..MaxSends
  BY <1>2, SendFacts, ConvFacts DEF IInv, TypeOK, PcInv, JournalInv, ResourceInv, StepRow,
     StepPhase, StepConv, MayMark, RunningPcs, ConvPcs, RunningRow, RowOf, PreSubmission,
     Checkpointed, NotSent
<1>4. /\ TypeOK' /\ PcInv' /\ RowInv' /\ JournalRow' /\ JournalInv'
      /\ SentInv' /\ ResourceInv' /\ DeletedInv'
  BY <1>1, <1>3, MarkKeeps DEF Steps, AttemptSteps, UndoSteps, RecoverSteps, OtherSteps,
     OffJournal, Phases, PreSubmission, Checkpointed
<1>5. /\ pc' = to /\ journal'.phase = "submission_started"
      /\ UNCHANGED <<rows, capture, workstation, evaluator, gateway, sent, deleted, cur,
                     conv, explicit, faults>>
  BY <1>1, <1>3, MarkFacts DEF IInv, Phases, PreSubmission, Checkpointed
<1>6. StepRow' /\ StepPhase' /\ StepConv'
  BY <1>2, <1>5 DEF IInv, PcInv, JournalInv, StepRow, StepPhase, StepConv, RunningPcs,
     ConvPcs, RunningRow, RowOf, PreSubmission, NotSent
<1> QED
  BY <1>4, <1>6 DEF IInv

LEMMA PersistUserMessageIdKeeps ==
    ASSUME IInv, PersistUserMessageId
    PROVE  IInv'
<1> DEFINE to == "mark_known"
<1>1. Mark("persist_id", "submission_started", None, conv[2], to)
  BY DEF PersistUserMessageId
<1>2. /\ pc = "persist_id" /\ cur \in Ids /\ cur # None
  BY <1>1 DEF IInv, TypeOK, Mark, At
<1>3. MayMark("submission_started", None, conv[2]) /\ None \in Convs \cup {None} /\ conv[2] \in 0..MaxSends
  BY <1>2, SendFacts, ConvFacts DEF IInv, TypeOK, PcInv, JournalInv, ResourceInv, StepRow,
     StepPhase, StepConv, MayMark, RunningPcs, ConvPcs, RunningRow, RowOf, PreSubmission,
     Checkpointed, NotSent
<1>4. /\ TypeOK' /\ PcInv' /\ RowInv' /\ JournalRow' /\ JournalInv'
      /\ SentInv' /\ ResourceInv' /\ DeletedInv'
  BY <1>1, <1>3, MarkKeeps DEF Steps, AttemptSteps, UndoSteps, RecoverSteps, OtherSteps,
     OffJournal, Phases, PreSubmission, Checkpointed
<1>5. /\ pc' = to /\ journal'.phase = "submission_started"
      /\ UNCHANGED <<rows, capture, workstation, evaluator, gateway, sent, deleted, cur,
                     conv, explicit, faults>>
  BY <1>1, <1>3, MarkFacts DEF IInv, Phases, PreSubmission, Checkpointed
<1>6. StepRow' /\ StepPhase' /\ StepConv'
  BY <1>2, <1>5 DEF IInv, StepRow, StepPhase, StepConv, RunningPcs, ConvPcs, RunningRow,
     RowOf, PreSubmission, Task
<1> QED
  BY <1>4, <1>6 DEF IInv

LEMMA MarkKnownKeeps ==
    ASSUME IInv, MarkKnown
    PROVE  IInv'
<1> DEFINE to == "attach"
<1>1. Mark("mark_known", "conversation_known", conv, conv[2], to)
  BY DEF MarkKnown
<1>2. /\ pc = "mark_known" /\ cur \in Ids /\ cur # None
  BY <1>1 DEF IInv, TypeOK, Mark, At
<1>3. MayMark("conversation_known", conv, conv[2]) /\ conv \in Convs \cup {None} /\ conv[2] \in 0..MaxSends
  BY <1>2, SendFacts, ConvFacts DEF IInv, TypeOK, PcInv, JournalInv, ResourceInv, StepRow,
     StepPhase, StepConv, MayMark, RunningPcs, ConvPcs, RunningRow, RowOf, PreSubmission,
     Checkpointed, NotSent
<1>4. /\ TypeOK' /\ PcInv' /\ RowInv' /\ JournalRow' /\ JournalInv'
      /\ SentInv' /\ ResourceInv' /\ DeletedInv'
  BY <1>1, <1>3, MarkKeeps DEF Steps, AttemptSteps, UndoSteps, RecoverSteps, OtherSteps,
     OffJournal, Phases, PreSubmission, Checkpointed
<1>5. /\ pc' = to /\ journal'.phase = "conversation_known"
      /\ UNCHANGED <<rows, capture, workstation, evaluator, gateway, sent, deleted, cur,
                     conv, explicit, faults>>
  BY <1>1, <1>3, MarkFacts DEF IInv, Phases, PreSubmission, Checkpointed
<1>6. StepRow' /\ StepPhase' /\ StepConv'
  BY <1>2, <1>5 DEF IInv, StepRow, StepPhase, StepConv, RunningPcs, ConvPcs, RunningRow,
     RowOf, PreSubmission, Task
<1> QED
  BY <1>4, <1>6 DEF IInv

LEMMA MarkCheckpointKeeps ==
    ASSUME IInv, MarkCheckpoint
    PROVE  IInv'
<1> DEFINE to == "candidate"
<1>1. Mark("mark_checkpoint", "conversation_checkpointed", conv, conv[2], to)
  BY DEF MarkCheckpoint
<1>2. /\ pc = "mark_checkpoint" /\ cur \in Ids /\ cur # None
  BY <1>1 DEF IInv, TypeOK, Mark, At
<1>3. MayMark("conversation_checkpointed", conv, conv[2]) /\ conv \in Convs \cup {None} /\ conv[2] \in 0..MaxSends
  BY <1>2, SendFacts, ConvFacts DEF IInv, TypeOK, PcInv, JournalInv, ResourceInv, StepRow,
     StepPhase, StepConv, MayMark, RunningPcs, ConvPcs, RunningRow, RowOf, PreSubmission,
     Checkpointed, NotSent
<1>4. /\ TypeOK' /\ PcInv' /\ RowInv' /\ JournalRow' /\ JournalInv'
      /\ SentInv' /\ ResourceInv' /\ DeletedInv'
  BY <1>1, <1>3, MarkKeeps DEF Steps, AttemptSteps, UndoSteps, RecoverSteps, OtherSteps,
     OffJournal, Phases, PreSubmission, Checkpointed
<1>5. /\ pc' = to /\ journal'.phase = "conversation_checkpointed"
      /\ UNCHANGED <<rows, capture, workstation, evaluator, gateway, sent, deleted, cur,
                     conv, explicit, faults>>
  BY <1>1, <1>3, MarkFacts DEF IInv, Phases, PreSubmission, Checkpointed
<1>6. StepRow' /\ StepPhase' /\ StepConv'
  BY <1>2, <1>5 DEF IInv, StepRow, StepPhase, StepConv, RunningPcs, ConvPcs, RunningRow,
     RowOf, PreSubmission, Task
<1> QED
  BY <1>4, <1>6 DEF IInv

LEMMA CaptureCandidateKeeps ==
    ASSUME IInv, CaptureCandidate
    PROVE  IInv'
<1> DEFINE to == "evaluate"
<1>1. Mark("candidate", "candidate_checkpointed", conv, conv[2], to)
  BY DEF CaptureCandidate
<1>2. /\ pc = "candidate" /\ cur \in Ids /\ cur # None
  BY <1>1 DEF IInv, TypeOK, Mark, At
<1>3. MayMark("candidate_checkpointed", conv, conv[2]) /\ conv \in Convs \cup {None} /\ conv[2] \in 0..MaxSends
  BY <1>2, SendFacts, ConvFacts DEF IInv, TypeOK, PcInv, JournalInv, ResourceInv, StepRow,
     StepPhase, StepConv, MayMark, RunningPcs, ConvPcs, RunningRow, RowOf, PreSubmission,
     Checkpointed, NotSent
<1>4. /\ TypeOK' /\ PcInv' /\ RowInv' /\ JournalRow' /\ JournalInv'
      /\ SentInv' /\ ResourceInv' /\ DeletedInv'
  BY <1>1, <1>3, MarkKeeps DEF Steps, AttemptSteps, UndoSteps, RecoverSteps, OtherSteps,
     OffJournal, Phases, PreSubmission, Checkpointed
<1>5. /\ pc' = to /\ journal'.phase = "candidate_checkpointed"
      /\ UNCHANGED <<rows, capture, workstation, evaluator, gateway, sent, deleted, cur,
                     conv, explicit, faults>>
  BY <1>1, <1>3, MarkFacts DEF IInv, Phases, PreSubmission, Checkpointed
<1>6. StepRow' /\ StepPhase' /\ StepConv'
  BY <1>2, <1>5 DEF IInv, StepRow, StepPhase, StepConv, RunningPcs, ConvPcs, RunningRow,
     RowOf, PreSubmission, Task
<1> QED
  BY <1>4, <1>6 DEF IInv

LEMMA MarkCleanupKeeps ==
    ASSUME IInv, MarkCleanup
    PROVE  IInv'
<1> DEFINE to == "delete"
<1>1. Mark("mark_cleanup", "cleanup_pending", conv, conv[2], to)
  BY DEF MarkCleanup
<1>2. /\ pc = "mark_cleanup" /\ cur \in Ids /\ cur # None
  BY <1>1 DEF IInv, TypeOK, Mark, At
<1>3. MayMark("cleanup_pending", conv, conv[2]) /\ conv \in Convs \cup {None} /\ conv[2] \in 0..MaxSends
  BY <1>2, SendFacts, ConvFacts DEF IInv, TypeOK, PcInv, JournalInv, ResourceInv, StepRow,
     StepPhase, StepConv, MayMark, RunningPcs, ConvPcs, RunningRow, RowOf, PreSubmission,
     Checkpointed, NotSent
<1>4. /\ TypeOK' /\ PcInv' /\ RowInv' /\ JournalRow' /\ JournalInv'
      /\ SentInv' /\ ResourceInv' /\ DeletedInv'
  BY <1>1, <1>3, MarkKeeps DEF Steps, AttemptSteps, UndoSteps, RecoverSteps, OtherSteps,
     OffJournal, Phases, PreSubmission, Checkpointed
<1>5. /\ pc' = to /\ journal'.phase = "cleanup_pending"
      /\ UNCHANGED <<rows, capture, workstation, evaluator, gateway, sent, deleted, cur,
                     conv, explicit, faults>>
  BY <1>1, <1>3, MarkFacts DEF IInv, Phases, PreSubmission, Checkpointed
<1>6. StepRow' /\ StepPhase' /\ StepConv'
  BY <1>2, <1>5 DEF IInv, StepRow, StepPhase, StepConv, RunningPcs, ConvPcs, RunningRow,
     RowOf, PreSubmission, Task
<1> QED
  BY <1>4, <1>6 DEF IInv

LEMMA PrepareBenchmarkKeeps ==
    ASSUME IInv, PrepareBenchmark
    PROVE  IInv'
<1>1. \/ Mark("benchmark", "benchmark_preparing", None, 0, "benchmark")
      \/ Mark("benchmark", "benchmark_ready", None, 0, "compose")
  BY DEF PrepareBenchmark, Mark, At, Goto
<1>2. pc = "benchmark" /\ cur \in Ids /\ cur # None
  BY DEF IInv, TypeOK, PrepareBenchmark, At
<1>3. MayMark("benchmark_preparing", None, 0) /\ MayMark("benchmark_ready", None, 0)
  BY <1>2 DEF IInv, PcInv, JournalInv, ResourceInv, StepRow, StepPhase, MayMark, RunningPcs,
     RunningRow, RowOf, PreSubmission, Checkpointed
<1>4. 0 \in 0..MaxSends
  BY SendFacts
<1>5. /\ TypeOK' /\ PcInv' /\ RowInv' /\ JournalRow' /\ JournalInv'
      /\ SentInv' /\ ResourceInv' /\ DeletedInv'
  BY <1>1, <1>3, <1>4, MarkKeeps DEF Steps, AttemptSteps, UndoSteps, RecoverSteps,
     OtherSteps, OffJournal, Phases, PreSubmission
<1>6. /\ pc' \in {"benchmark", "compose"} /\ journal'.phase \in PreSubmission
      /\ UNCHANGED <<rows, capture, workstation, evaluator, gateway, sent, deleted, cur,
                     conv, explicit, faults>>
  BY <1>1, <1>4, MarkFacts DEF IInv, Phases, PreSubmission
<1>7. StepRow' /\ StepPhase' /\ StepConv'
  BY <1>2, <1>6 DEF IInv, StepRow, StepPhase, StepConv, RunningPcs, ConvPcs, RunningRow, RowOf
<1> QED
  BY <1>5, <1>7 DEF IInv

-----------------------------------------------------------------------------
(* The row of a running attempt is rewritten.                               *)

LEMMA StoreFacts ==
    ASSUME TypeOK, NEW from, NEW s \in {"running", "failed", "completed"},
           NEW c \in Convs \cup {None}, NEW to, Store(from, s, c, to)
    PROVE  /\ pc = from /\ pc' = to /\ cur \in Ids /\ cur # None /\ RunningRow(cur)
           /\ rows' \in [Tasks -> Row]
           /\ rows'[cur[1]].status = s /\ rows'[cur[1]].conv = c
           /\ rows'[cur[1]].attempt = cur[2]
           /\ \A t \in Tasks : t # cur[1] => rows'[t] = rows[t]
           /\ UNCHANGED <<journal, capture, workstation, evaluator, gateway, sent, deleted, cur,
                          conv, explicit, faults>>
<1>1. cur \in Ids /\ cur[1] \in Tasks
  BY IdFacts DEF TypeOK, Store, At
<1>2. /\ rows' = [rows EXCEPT ![cur[1]].status = s, ![cur[1]].conv = c]
      /\ rows \in [Tasks -> Row]
      /\ s \in {"absent", "running", "failed", "completed"}
  BY DEF Store, Task, TypeOK
<1>3. /\ rows' \in [Tasks -> Row]
      /\ rows'[cur[1]].status = s /\ rows'[cur[1]].attempt = rows[cur[1]].attempt
      /\ rows'[cur[1]].conv = c
      /\ \A u \in Tasks : u # cur[1] => rows'[u] = rows[u]
  <2>1. rows[cur[1]] \in Row
    BY <1>1, <1>2
  <2>2. rows' \in [Tasks -> Row]
    BY <1>1, <1>2, <2>1 DEF Row
  <2>3. \A u \in Tasks : u # cur[1] => rows'[u] = rows[u]
    BY <1>1, <1>2
  <2>4. rows'[cur[1]].status = s /\ rows'[cur[1]].attempt = rows[cur[1]].attempt
        /\ rows'[cur[1]].conv = c
    BY <1>1, <1>2, <2>1 DEF Row
  <2> QED
    BY <2>2, <2>3, <2>4
<1> QED
  BY <1>1, <1>3 DEF Store, At, Goto, RunningRow, machines, chat, local

MayStore(s, c) ==
    /\ c # None => c = <<cur, 1>> /\ c \in sent
    /\ s = "completed" => c # None /\ ~evaluator[cur]

LEMMA StoreKeeps ==
    ASSUME IInv, NEW from \in Steps \ OffJournal, NEW s \in {"running", "failed", "completed"},
           NEW c \in Convs \cup {None},
           NEW to \in Steps \ (OffJournal \cup {"start", "undo_fail", "clear"}),
           to = "undo_clear" => Clean(cur),
           to = "complete" => ~evaluator[cur],
           Store(from, s, c, to), MayStore(s, c)
    PROVE  /\ TypeOK' /\ PcInv' /\ RowInv' /\ JournalRow' /\ JournalInv'
           /\ SentInv' /\ ResourceInv' /\ DeletedInv'
<1>1. /\ pc = from /\ pc' = to /\ cur \in Ids /\ cur # None /\ RunningRow(cur)
      /\ rows' \in [Tasks -> Row]
      /\ rows'[cur[1]].status = s /\ rows'[cur[1]].conv = c
      /\ rows'[cur[1]].attempt = cur[2]
      /\ \A t \in Tasks : t # cur[1] => rows'[t] = rows[t]
      /\ UNCHANGED <<journal, capture, workstation, evaluator, gateway, sent, deleted, cur,
                     conv, explicit, faults>>
  BY StoreFacts DEF IInv
<1>2. journal # None /\ journal.id = cur
  BY <1>1 DEF IInv, PcInv, OffJournal
<1>3. rows[cur[1]].status = "running" /\ rows[cur[1]].attempt = cur[2]
  BY <1>1 DEF RunningRow
<1>4. cur = <<cur[1], cur[2]>> /\ cur[1] \in Tasks /\ cur[2] # 0
  BY <1>1, IdFacts
<1>5. TypeOK'
  BY <1>1 DEF IInv, TypeOK
<1>6. PcInv'
  BY <1>1 DEF IInv, PcInv, OffJournal
<1>7. RowInv'
  BY <1>1, <1>3, <1>4 DEF IInv, RowInv, MayStore
<1>8. JournalRow'
  BY <1>1, <1>2 DEF JournalRow, RowOf
<1>9. JournalInv'
  BY <1>1, <1>2, <1>3 DEF IInv, JournalInv, RowOf, NotSent
<1>10. SentInv'
  <2> SUFFICES ASSUME NEW d \in sent
               PROVE  /\ d[2] = 1
                      /\ d[1][2] <= rows'[d[1][1]].attempt
                      /\ rows'[d[1][1]].status = "running" /\ rows'[d[1][1]].attempt = d[1][2]
                            => d[1] = cur
    BY <1>1, <1>2 DEF SentInv, RowOf, RunningRow
  <2>1. d[1] \in Ids /\ d[1] = <<d[1][1], d[1][2]>> /\ d[1][1] \in Tasks
    BY ConvFacts, IdFacts DEF IInv, TypeOK
  <2>2. CASE d[1][1] = cur[1]
    BY <1>1, <1>3, <1>4, <2>1, <2>2 DEF IInv, SentInv, RowOf
  <2>3. CASE d[1][1] # cur[1]
    BY <1>1, <1>2, <2>1, <2>3 DEF IInv, SentInv, RowOf, RunningRow
  <2> QED
    BY <2>2, <2>3
<1>11. ResourceInv'
  <2>1. \A i \in Ids : (workstation[i] # "absent" \/ evaluator[i] \/ gateway = i) => i = cur
    BY <1>2 DEF IInv, ResourceInv
  <2>2. \A i \in Ids : evaluator[i] => journal.phase = "candidate_checkpointed"
    BY DEF IInv, ResourceInv
  <2>3. evaluator[cur] => s # "completed"
    BY DEF MayStore
  <2> QED
    BY <1>1, <1>2, <2>1, <2>2, <2>3 DEF ResourceInv, Clean, RowOf
<1>12. DeletedInv'
  <2> SUFFICES ASSUME NEW d \in deleted
               PROVE  rows'[d[1][1]].status = "completed" /\ rows'[d[1][1]].conv = d
    BY <1>1 DEF DeletedInv, RowOf
  <2>1. d[1][1] \in Tasks /\ d[1][1] # cur[1]
    BY <1>3, ConvFacts, IdFacts DEF IInv, TypeOK, DeletedInv, RowOf
  <2> QED
    BY <1>1, <2>1 DEF IInv, DeletedInv, RowOf
<1> QED
  BY <1>5, <1>6, <1>7, <1>8, <1>9, <1>10, <1>11, <1>12

LEMMA AttachConversationKeeps ==
    ASSUME IInv, AttachConversation
    PROVE  IInv'
<1>1. Store("attach", "running", conv, "generate")
  BY DEF AttachConversation
<1>2. pc = "attach" /\ cur \in Ids /\ cur # None /\ cur[1] \in Tasks /\ cur = <<cur[1], cur[2]>>
  BY <1>1, IdFacts DEF IInv, TypeOK, Store, At
<1>3. MayStore("running", conv) /\ conv \in Convs \cup {None}
  BY <1>2, ConvFacts, RowFacts DEF IInv, TypeOK, RowInv, ResourceInv, StepRow, StepPhase,
     StepConv, MayStore, RunningPcs, ConvPcs, RunningRow, RowOf, Task
<1>4. /\ TypeOK' /\ PcInv' /\ RowInv' /\ JournalRow' /\ JournalInv'
      /\ SentInv' /\ ResourceInv' /\ DeletedInv'
  BY <1>1, <1>2, <1>3, StoreKeeps DEF IInv, ResourceInv, StepPhase, Steps, AttemptSteps,
     UndoSteps, RecoverSteps, OtherSteps, OffJournal, AfterCapture
<1>5. /\ pc' = "generate" /\ RunningRow(cur)
      /\ rows'[cur[1]].status = "running" /\ rows'[cur[1]].conv = conv
      /\ rows'[cur[1]].attempt = cur[2]
      /\ UNCHANGED <<journal, capture, workstation, evaluator, gateway, sent, deleted, cur,
                     conv, explicit, faults>>
  BY <1>1, <1>3, StoreFacts DEF IInv
<1>6. StepRow' /\ StepPhase' /\ StepConv'
  BY <1>2, <1>5 DEF IInv, StepRow, StepPhase, StepConv, RunningPcs, ConvPcs, RunningRow,
     RowOf, PreSubmission, AfterCapture, Task
<1> QED
  BY <1>4, <1>6 DEF IInv

LEMMA AttachRecoveredKeeps ==
    ASSUME IInv, AttachRecovered
    PROVE  IInv'
<1>1. Store("attach_recovered", "running", conv, AfterCapture)
  BY DEF AttachRecovered
<1>2. pc = "attach_recovered" /\ cur \in Ids /\ cur # None /\ cur[1] \in Tasks /\ cur = <<cur[1], cur[2]>>
  BY <1>1, IdFacts DEF IInv, TypeOK, Store, At
<1>3. MayStore("running", conv) /\ conv \in Convs \cup {None}
  BY <1>2, ConvFacts, RowFacts DEF IInv, TypeOK, RowInv, ResourceInv, StepRow, StepPhase,
     StepConv, MayStore, RunningPcs, ConvPcs, RunningRow, RowOf, Task
<1>4. /\ TypeOK' /\ PcInv' /\ RowInv' /\ JournalRow' /\ JournalInv'
      /\ SentInv' /\ ResourceInv' /\ DeletedInv'
  BY <1>1, <1>2, <1>3, StoreKeeps DEF IInv, ResourceInv, StepPhase, Steps, AttemptSteps,
     UndoSteps, RecoverSteps, OtherSteps, OffJournal, AfterCapture
<1>5. /\ pc' = AfterCapture /\ RunningRow(cur)
      /\ rows'[cur[1]].status = "running" /\ rows'[cur[1]].conv = conv
      /\ rows'[cur[1]].attempt = cur[2]
      /\ UNCHANGED <<journal, capture, workstation, evaluator, gateway, sent, deleted, cur,
                     conv, explicit, faults>>
  BY <1>1, <1>3, StoreFacts DEF IInv
<1>6. StepRow' /\ StepPhase' /\ StepConv'
  BY <1>2, <1>5 DEF IInv, StepRow, StepPhase, StepConv, RunningPcs, ConvPcs, RunningRow,
     RowOf, PreSubmission, AfterCapture, Task
<1> QED
  BY <1>4, <1>6 DEF IInv

LEMMA CompleteStorageKeeps ==
    ASSUME IInv, CompleteStorage
    PROVE  IInv'
<1>1. Store("complete", "completed", conv, "mark_cleanup")
  BY DEF CompleteStorage
<1>2. pc = "complete" /\ cur \in Ids /\ cur # None /\ cur[1] \in Tasks /\ cur = <<cur[1], cur[2]>>
  BY <1>1, IdFacts DEF IInv, TypeOK, Store, At
<1>3. MayStore("completed", conv) /\ conv \in Convs \cup {None}
  BY <1>2, ConvFacts, RowFacts DEF IInv, TypeOK, RowInv, ResourceInv, StepRow, StepPhase,
     StepConv, MayStore, RunningPcs, ConvPcs, RunningRow, RowOf, Task
<1>4. /\ TypeOK' /\ PcInv' /\ RowInv' /\ JournalRow' /\ JournalInv'
      /\ SentInv' /\ ResourceInv' /\ DeletedInv'
  BY <1>1, <1>2, <1>3, StoreKeeps DEF IInv, ResourceInv, StepPhase, Steps, AttemptSteps,
     UndoSteps, RecoverSteps, OtherSteps, OffJournal, AfterCapture
<1>5. /\ pc' = "mark_cleanup" /\ RunningRow(cur)
      /\ rows'[cur[1]].status = "completed" /\ rows'[cur[1]].conv = conv
      /\ rows'[cur[1]].attempt = cur[2]
      /\ UNCHANGED <<journal, capture, workstation, evaluator, gateway, sent, deleted, cur,
                     conv, explicit, faults>>
  BY <1>1, <1>3, StoreFacts DEF IInv
<1>6. StepRow' /\ StepPhase' /\ StepConv'
  BY <1>2, <1>5 DEF IInv, StepRow, StepPhase, StepConv, RunningPcs, ConvPcs, RunningRow,
     RowOf, PreSubmission, AfterCapture, Task
<1> QED
  BY <1>4, <1>6 DEF IInv

LEMMA UndoFailKeeps ==
    ASSUME IInv, UndoFail
    PROVE  IInv'
<1>1. Store("undo_fail", "failed", rows[Task].conv, "undo_clear")
  BY DEF UndoFail
<1>2. pc = "undo_fail" /\ cur \in Ids /\ cur # None /\ cur[1] \in Tasks /\ cur = <<cur[1], cur[2]>>
  BY <1>1, IdFacts DEF IInv, TypeOK, Store, At
<1>3. MayStore("failed", rows[Task].conv) /\ rows[Task].conv \in Convs \cup {None}
  BY <1>2, ConvFacts, RowFacts DEF IInv, TypeOK, RowInv, ResourceInv, StepRow, StepPhase,
     StepConv, MayStore, RunningPcs, ConvPcs, RunningRow, RowOf, Task
<1>4. /\ TypeOK' /\ PcInv' /\ RowInv' /\ JournalRow' /\ JournalInv'
      /\ SentInv' /\ ResourceInv' /\ DeletedInv'
  BY <1>1, <1>2, <1>3, StoreKeeps DEF IInv, ResourceInv, StepPhase, Steps, AttemptSteps,
     UndoSteps, RecoverSteps, OtherSteps, OffJournal, AfterCapture
<1>5. /\ pc' = "undo_clear" /\ RunningRow(cur)
      /\ rows'[cur[1]].status = "failed" /\ rows'[cur[1]].conv = rows[Task].conv
      /\ rows'[cur[1]].attempt = cur[2]
      /\ UNCHANGED <<journal, capture, workstation, evaluator, gateway, sent, deleted, cur,
                     conv, explicit, faults>>
  BY <1>1, <1>3, StoreFacts DEF IInv
<1>6. StepRow' /\ StepPhase' /\ StepConv'
  BY <1>2, <1>5 DEF IInv, StepRow, StepPhase, StepConv, RunningPcs, ConvPcs, RunningRow,
     RowOf, PreSubmission, AfterCapture, Task
<1> QED
  BY <1>4, <1>6 DEF IInv

LEMMA AbandonFailKeeps ==
    ASSUME IInv, AbandonFail
    PROVE  IInv'
<1>1. Store("abandon_fail", "failed", rows[Task].conv, "cleanup_failed")
  BY DEF AbandonFail
<1>2. pc = "abandon_fail" /\ cur \in Ids /\ cur # None /\ cur[1] \in Tasks /\ cur = <<cur[1], cur[2]>>
  BY <1>1, IdFacts DEF IInv, TypeOK, Store, At
<1>3. MayStore("failed", rows[Task].conv) /\ rows[Task].conv \in Convs \cup {None}
  BY <1>2, ConvFacts, RowFacts DEF IInv, TypeOK, RowInv, ResourceInv, StepRow, StepPhase,
     StepConv, MayStore, RunningPcs, ConvPcs, RunningRow, RowOf, Task
<1>4. /\ TypeOK' /\ PcInv' /\ RowInv' /\ JournalRow' /\ JournalInv'
      /\ SentInv' /\ ResourceInv' /\ DeletedInv'
  BY <1>1, <1>2, <1>3, StoreKeeps DEF IInv, ResourceInv, StepPhase, Steps, AttemptSteps,
     UndoSteps, RecoverSteps, OtherSteps, OffJournal, AfterCapture
<1>5. /\ pc' = "cleanup_failed" /\ RunningRow(cur)
      /\ rows'[cur[1]].status = "failed" /\ rows'[cur[1]].conv = rows[Task].conv
      /\ rows'[cur[1]].attempt = cur[2]
      /\ UNCHANGED <<journal, capture, workstation, evaluator, gateway, sent, deleted, cur,
                     conv, explicit, faults>>
  BY <1>1, <1>3, StoreFacts DEF IInv
<1>6. StepRow' /\ StepPhase' /\ StepConv'
  BY <1>2, <1>5 DEF IInv, StepRow, StepPhase, StepConv, RunningPcs, ConvPcs, RunningRow,
     RowOf, PreSubmission, AfterCapture, Task
<1> QED
  BY <1>4, <1>6 DEF IInv

-----------------------------------------------------------------------------
(* A new attempt begins: its row replaces a row that is not running.        *)

LEMMA StartRowKeeps ==
    ASSUME IInv, NEW i \in Ids, MayStart(i), StartRow(i),
           UNCHANGED <<sent, deleted, journal, capture>>
    PROVE  /\ rows' \in [Tasks -> Row] /\ RowInv' /\ JournalInv' /\ SentInv' /\ DeletedInv'
           /\ rows'[i[1]].status = "running" /\ rows'[i[1]].attempt = i[2]
           /\ rows'[i[1]].conv = None
           /\ \A t \in Tasks : t # i[1] => rows'[t] = rows[t]
<1>1. /\ rows' \in [Tasks -> Row]
      /\ rows'[i[1]].status = "running" /\ rows'[i[1]].attempt = i[2]
      /\ rows'[i[1]].conv = None
      /\ \A t \in Tasks : t # i[1] => rows'[t] = rows[t]
  <2>1. rows \in [Tasks -> Row]
    BY DEF IInv, TypeOK
  <2>2. /\ rows' \in [Tasks -> Row]
        /\ rows'[i[1]] = [status |-> "running", attempt |-> i[2], conv |-> None]
        /\ \A t \in Tasks : t # i[1] => rows'[t] = rows[t]
    BY <2>1, StartRowFacts, Zenon
  <2> QED
    BY <2>2
<1>2. /\ i[1] \in Tasks /\ i[2] \in Nat \ {0} /\ i = <<i[1], i[2]>>
      /\ rows[i[1]].status \in {"absent", "failed"} /\ i[2] = rows[i[1]].attempt + 1
      /\ rows[i[1]].attempt \in Nat
  BY IdFacts, RowFacts DEF MayStart, IInv, TypeOK
<1>3. RowInv'
  BY <1>1, <1>2 DEF IInv, RowInv
<1>4. JournalInv'
  BY <1>1, <1>2, EntryFacts, IdFacts DEF IInv, TypeOK, JournalInv, RowOf, NotSent
<1>5. SentInv'
  <2> SUFFICES ASSUME NEW d \in sent
               PROVE  /\ d[2] = 1
                      /\ d[1][2] <= rows'[d[1][1]].attempt
                      /\ rows'[d[1][1]].status = "running" /\ rows'[d[1][1]].attempt = d[1][2]
                            => journal # None /\ journal.id = d[1]
    BY DEF SentInv, RowOf, RunningRow
  <2>1. d[1] \in Ids /\ d[1][1] \in Tasks /\ d[1][2] \in Nat
    BY ConvFacts, IdFacts DEF IInv, TypeOK
  <2>2. CASE d[1][1] = i[1]
    BY <1>1, <1>2, <2>1, <2>2 DEF IInv, SentInv, RowOf
  <2>3. CASE d[1][1] # i[1]
    BY <1>1, <2>1, <2>3 DEF IInv, SentInv, RowOf, RunningRow
  <2> QED
    BY <2>2, <2>3
<1>6. DeletedInv'
  <2> SUFFICES ASSUME NEW d \in deleted
               PROVE  rows'[d[1][1]].status = "completed" /\ rows'[d[1][1]].conv = d
    BY DEF DeletedInv, RowOf
  <2>1. d[1][1] \in Tasks /\ d[1][1] # i[1]
    BY <1>2, ConvFacts, IdFacts DEF IInv, TypeOK, DeletedInv, RowOf
  <2> QED
    BY <1>1, <2>1 DEF IInv, DeletedInv, RowOf
<1> QED
  BY <1>1, <1>3, <1>4, <1>5, <1>6

LEMMA StartStorageKeeps ==
    ASSUME IInv, StartStorage \/ StartAnswerLost
    PROVE  IInv'
<1>1. /\ pc = "start" /\ cur \in Ids /\ cur # None /\ MayStart(cur) /\ StartRow(cur)
      /\ UNCHANGED <<journal, capture, workstation, evaluator, gateway, sent, deleted>>
      /\ faults' \in 0..MaxFaults
  BY FaultFacts DEF IInv, TypeOK, StartStorage, StartAnswerLost, At, durable, machines, chat
<1>2. \/ pc' = "create" /\ cur' = cur /\ conv' = conv /\ explicit' = explicit
      \/ pc' = "idle" /\ cur' = None /\ conv' = None /\ explicit' = FALSE
  BY DEF StartStorage, StartAnswerLost, Goto, Idle, local
<1>3. /\ rows' \in [Tasks -> Row] /\ RowInv' /\ JournalInv' /\ SentInv' /\ DeletedInv'
      /\ rows'[cur[1]].status = "running" /\ rows'[cur[1]].attempt = cur[2]
  BY <1>1, StartRowKeeps
<1>4. journal # None /\ journal.id = cur /\ journal.phase = "starting"
  BY <1>1 DEF IInv, PcInv, StepPhase
<1>5. TypeOK'
  BY <1>1, <1>2, <1>3 DEF IInv, TypeOK, Steps, AttemptSteps
<1>6. PcInv' /\ JournalRow'
  BY <1>1, <1>2, <1>3, <1>4 DEF PcInv, JournalRow, RowOf
<1>7. ResourceInv'
  BY <1>1, <1>2, <1>4 DEF IInv, ResourceInv
<1>8. StepRow' /\ StepPhase' /\ StepConv'
  BY <1>1, <1>2, <1>3, <1>4 DEF StepRow, StepPhase, StepConv, RunningPcs, ConvPcs,
     RunningRow, RowOf
<1> QED
  BY <1>3, <1>5, <1>6, <1>7, <1>8 DEF IInv

LEMMA StartPreRunnerFailureKeeps ==
    ASSUME IInv, NEW t \in Tasks, StartPreRunnerFailure(t)
    PROVE  IInv'
<1> DEFINE i == <<t, rows[t].attempt + 1>>
<1>1. /\ i \in Ids /\ i # None
      /\ pc = "idle" /\ journal = None /\ MayStart(i) /\ StartRow(i)
      /\ UNCHANGED <<journal, capture, workstation, evaluator, gateway, sent, deleted, conv,
                     explicit, faults>>
      /\ pc' = "prerun_fail" /\ cur' = i
  BY NextIdFacts DEF IInv, StartPreRunnerFailure, Goto, machines, chat
<1> HIDE DEF i
<1>2. /\ rows' \in [Tasks -> Row] /\ RowInv' /\ JournalInv' /\ SentInv' /\ DeletedInv'
      /\ rows'[i[1]].status = "running" /\ rows'[i[1]].attempt = i[2]
  BY <1>1, StartRowKeeps
<1>3. TypeOK'
  BY <1>1, <1>2 DEF IInv, TypeOK, Steps, OtherSteps
<1>4. PcInv' /\ JournalRow'
  BY <1>1 DEF PcInv, JournalRow
<1>5. ResourceInv'
  BY <1>1 DEF IInv, ResourceInv
<1>6. StepRow' /\ StepPhase' /\ StepConv'
  BY <1>1, <1>2 DEF StepRow, StepPhase, StepConv, RunningPcs, ConvPcs, RunningRow, RowOf
<1> QED
  BY <1>2, <1>3, <1>4, <1>5, <1>6 DEF IInv

LEMMA RecordPreRunnerFailureKeeps ==
    ASSUME IInv, RecordPreRunnerFailure
    PROVE  IInv'
<1>1. /\ pc = "prerun_fail" /\ cur \in Ids /\ cur[1] \in Tasks /\ RunningRow(cur)
      /\ rows' = [rows EXCEPT ![cur[1]].status = "failed"]
      /\ UNCHANGED <<journal, capture, workstation, evaluator, gateway, sent, deleted, faults>>
      /\ pc' = "idle" /\ cur' = None /\ conv' = None /\ explicit' = FALSE
  BY IdFacts DEF IInv, TypeOK, RecordPreRunnerFailure, At, Idle, Task, machines, chat
<1>2. /\ rows' \in [Tasks -> Row]
      /\ rows'[cur[1]].status = "failed" /\ rows'[cur[1]].attempt = rows[cur[1]].attempt
      /\ rows'[cur[1]].conv = rows[cur[1]].conv
      /\ \A u \in Tasks : u # cur[1] => rows'[u] = rows[u]
  BY <1>1, RowFailedFacts DEF IInv, TypeOK
<1>3. journal = None
  BY <1>1 DEF IInv, PcInv
<1>4. TypeOK'
  BY <1>1, <1>2 DEF IInv, TypeOK, Steps
<1>5. PcInv' /\ JournalRow' /\ JournalInv'
  BY <1>1, <1>3 DEF PcInv, JournalRow, JournalInv
<1>6. RowInv'
  BY <1>1, <1>2 DEF IInv, RowInv, RunningRow
<1>7. SentInv' /\ DeletedInv'
  <2>1. \A d \in Convs : d[1][1] \in Tasks /\ d[1] = <<d[1][1], d[1][2]>>
    BY ConvFacts, IdFacts
  <2>2. sent \subseteq Convs /\ deleted \subseteq Convs
    BY DEF IInv, TypeOK
  <2>3. SentInv'
    BY <1>1, <1>2, <2>1, <2>2 DEF IInv, SentInv, RowOf, RunningRow
  <2>4. DeletedInv'
    BY <1>1, <1>2, <2>1, <2>2 DEF IInv, DeletedInv, RowOf, RunningRow
  <2> QED
    BY <2>3, <2>4
<1>8. ResourceInv'
  BY <1>1, <1>3 DEF IInv, ResourceInv
<1>9. StepRow' /\ StepPhase' /\ StepConv'
  BY <1>1 DEF StepRow, StepPhase, StepConv, RunningPcs, ConvPcs
<1> QED
  BY <1>4, <1>5, <1>6, <1>7, <1>8, <1>9 DEF IInv

LEMMA RunTaskKeeps ==
    ASSUME IInv, NEW t \in Tasks, RunTask(t)
    PROVE  IInv'
<1> DEFINE i == <<t, rows[t].attempt + 1>>
<1>1. /\ i \in Ids /\ i # None /\ i[1] = t /\ i[2] = rows[t].attempt + 1
      /\ pc = "idle" /\ journal = None /\ rows[t].status \in {"absent", "failed"}
      /\ journal' = [id |-> i, phase |-> "starting", conv |-> None, msg |-> 0]
      /\ UNCHANGED <<rows, capture, workstation, evaluator, gateway, sent, deleted, conv,
                     explicit, faults>>
      /\ pc' = "start" /\ cur' = i /\ rows[t].attempt \in Nat
  BY NextIdFacts, RowFacts DEF IInv, TypeOK, RunTask, Goto, machines, chat
<1> HIDE DEF i
<1>2. journal' \in Entry /\ journal' # None
  BY <1>1, EntryFacts, SendFacts DEF Phases, PreSubmission
<1>3. journal'.id = i /\ journal'.phase = "starting" /\ journal'.conv = None /\ journal'.msg = 0
  BY <1>1
<1>4. TypeOK'
  BY <1>1, <1>2 DEF IInv, TypeOK, Steps, AttemptSteps
<1>5. PcInv' /\ RowInv' /\ JournalRow' /\ DeletedInv'
  BY <1>1, <1>2, <1>3 DEF IInv, PcInv, RowInv, JournalRow, DeletedInv, RowOf
<1>6. SentInv'
  BY <1>1 DEF IInv, SentInv, RowOf, RunningRow
<1>7. NotSent(i)
  <2>1. \A d \in sent : d[1] \in Ids /\ d[1][2] \in Nat /\ d[1][2] <= rows[d[1][1]].attempt
    BY ConvFacts, IdFacts DEF IInv, TypeOK, SentInv, RowOf
  <2> QED
    BY <1>1, <2>1 DEF NotSent
<1>8. JournalInv'
  BY <1>1, <1>3, <1>7 DEF JournalInv, NotSent, PreSubmission, Checkpointed
<1>9. ResourceInv'
  BY <1>1 DEF IInv, ResourceInv, Clean
<1>10. StepRow' /\ StepPhase' /\ StepConv'
  BY <1>1, <1>3 DEF StepRow, StepPhase, StepConv, RunningPcs, ConvPcs, RowOf
<1> QED
  BY <1>4, <1>5, <1>6, <1>8, <1>9, <1>10 DEF IInv

-----------------------------------------------------------------------------
(* Send, generation and the checkpoints *)

LEMMA ClickSendKeeps ==
    ASSUME IInv, ClickSend
    PROVE  IInv'
<1> DEFINE c == <<cur, 1>>
<1>1. /\ pc = "click" /\ cur \in Ids /\ cur # None /\ NotSent(cur)
      /\ journal # None /\ journal.id = cur /\ journal.phase = "submission_started"
      /\ RunningRow(cur)
  BY DEF IInv, TypeOK, PcInv, StepPhase, StepRow, RunningPcs, ClickSend, At
<1>2. /\ sent' = sent \cup {c} /\ conv' = c /\ pc' = "persist_id"
      /\ UNCHANGED <<rows, journal, capture, workstation, evaluator, gateway, deleted, cur,
                     explicit, faults>>
  BY <1>1, FirstSend DEF ClickSend, Goto, durable, machines
<1>3. c \in Convs /\ c # None /\ c[1] = cur /\ c[2] = 1
  BY <1>1, ConvFacts
<1> HIDE DEF c
<1>4. TypeOK'
  BY <1>2, <1>3 DEF IInv, TypeOK, Steps, AttemptSteps
<1>5. PcInv' /\ RowInv' /\ JournalRow' /\ DeletedInv'
  BY <1>1, <1>2 DEF IInv, PcInv, RowInv, JournalRow, DeletedInv, RowOf
<1>6. JournalInv'
  BY <1>1, <1>2 DEF IInv, JournalInv, RowOf, PreSubmission, Checkpointed
<1>7. SentInv'
  BY <1>1, <1>2, <1>3, IdFacts DEF IInv, SentInv, RowOf, RunningRow
<1>8. ResourceInv'
  BY <1>1, <1>2 DEF IInv, ResourceInv
<1>9. StepRow' /\ StepPhase' /\ StepConv'
  BY <1>1, <1>2 DEF StepRow, StepPhase, StepConv, RunningPcs, ConvPcs, RunningRow, RowOf, c
<1> QED
  BY <1>4, <1>5, <1>6, <1>7, <1>8, <1>9 DEF IInv

LEMMA GenerateKeeps ==
    ASSUME IInv, Generate \/ SaveCapture
    PROVE  IInv'
<1>1. /\ pc \in {"generate", "save_capture"} /\ cur \in Ids /\ cur # None
      /\ UNCHANGED <<rows, journal, workstation, evaluator, gateway, sent, deleted, cur,
                     conv, explicit, faults>>
  BY DEF IInv, TypeOK, Generate, SaveCapture, At, durable, machines, chat, local
<1>2. \/ /\ pc = "generate" /\ capture' = capture
         /\ pc' = IF cur[1] \in Hooked THEN "save_capture" ELSE "complete"
      \/ /\ pc = "save_capture" /\ capture' = cur /\ pc' = "mark_checkpoint"
  BY DEF Generate, SaveCapture, At, Goto, AfterCapture, Task, durable
<1>3. /\ journal # None /\ journal.id = cur
      /\ journal.phase \in {"submission_started", "conversation_known"}
      /\ RunningRow(cur)
  BY <1>1 DEF IInv, PcInv, StepPhase, StepRow, RunningPcs
<1>4. TypeOK'
  BY <1>1, <1>2 DEF IInv, TypeOK, Steps, AttemptSteps
<1>5. PcInv' /\ RowInv' /\ JournalRow' /\ DeletedInv' /\ SentInv'
  BY <1>1, <1>2, <1>3 DEF IInv, PcInv, RowInv, JournalRow, DeletedInv, SentInv, RowOf,
     RunningRow
<1>6. JournalInv'
  BY <1>1, <1>2, <1>3 DEF IInv, JournalInv, RowOf, NotSent, Checkpointed
<1>7. ResourceInv'
  BY <1>1, <1>2, <1>3 DEF IInv, ResourceInv, RowOf
<1>8. StepRow' /\ StepPhase' /\ StepConv'
  BY <1>1, <1>2, <1>3 DEF IInv, StepRow, StepPhase, StepConv, RunningPcs, ConvPcs,
     RunningRow, RowOf, PreSubmission
<1> QED
  BY <1>4, <1>5, <1>6, <1>7, <1>8 DEF IInv

LEMMA DeleteConversationKeeps ==
    ASSUME IInv, DeleteConversation
    PROVE  IInv'
<1>1. /\ pc = "delete" /\ pc' = "reset" /\ cur \in Ids /\ cur # None /\ cur[1] \in Tasks
      /\ deleted' = IF conv = None THEN deleted ELSE deleted \cup {conv}
      /\ UNCHANGED <<rows, journal, capture, workstation, evaluator, gateway, sent, cur,
                     conv, explicit, faults>>
  BY IdFacts DEF IInv, TypeOK, DeleteConversation, At, Goto, durable, machines, local
<1>2. /\ conv = <<cur, 1>> /\ RowOf(cur).status = "completed" /\ RowOf(cur).conv = conv
      /\ RowOf(cur).attempt = cur[2]
  BY <1>1 DEF IInv, StepConv, StepRow, ConvPcs
<1>3. TypeOK'
  BY <1>1 DEF IInv, TypeOK, Steps, AttemptSteps
<1>4. PcInv' /\ RowInv' /\ JournalRow' /\ JournalInv' /\ SentInv'
  BY <1>1 DEF IInv, PcInv, RowInv, JournalRow, JournalInv, SentInv, RowOf, RunningRow, NotSent
<1>5. DeletedInv'
  BY <1>1, <1>2 DEF IInv, DeletedInv, RowOf
<1>6. ResourceInv'
  BY <1>1 DEF IInv, ResourceInv, RowOf
<1>7. StepRow' /\ StepPhase' /\ StepConv'
  BY <1>1, <1>2 DEF StepRow, StepPhase, StepConv, RunningPcs, ConvPcs, RowOf
<1> QED
  BY <1>3, <1>4, <1>5, <1>6, <1>7 DEF IInv

-----------------------------------------------------------------------------
(* The workstation, the evaluator and the gateway *)

LEMMA MachineKeeps ==
    ASSUME IInv, CreateWorkstation \/ CreateBreaksOff \/ ActivateGateway
    PROVE  IInv'
<1>1. /\ pc \in {"create", "activate"} /\ cur \in Ids /\ cur # None
      /\ UNCHANGED <<rows, journal, capture, evaluator, sent, deleted>>
      /\ faults' \in 0..MaxFaults
      /\ workstation' \in [Ids -> {"absent", "partial", "ready"}]
      /\ gateway' \in Ids \cup {None}
      /\ \A i \in Ids : i # cur => workstation'[i] = workstation[i]
      /\ \A i \in Ids : i # cur /\ gateway' = i => gateway = i
  BY FaultFacts DEF IInv, TypeOK, CreateWorkstation, CreateBreaksOff, ActivateGateway, At,
     durable, chat
<1>2. \/ pc' \in {"activate", "undo_reset", "mark_prepared"} /\ cur' = cur /\ conv' = conv
         /\ explicit' = explicit
      \/ pc' = "idle" /\ cur' = None /\ conv' = None /\ explicit' = FALSE
  BY DEF CreateWorkstation, CreateBreaksOff, ActivateGateway, Goto, Idle, local
<1>3. journal # None /\ journal.id = cur /\ journal.phase = "starting" /\ RunningRow(cur)
  BY <1>1 DEF IInv, PcInv, StepPhase, StepRow, RunningPcs
<1>4. TypeOK'
  BY <1>1, <1>2 DEF IInv, TypeOK, Steps, AttemptSteps, UndoSteps
<1>5. PcInv'
  BY <1>1, <1>2, <1>3 DEF PcInv
<1>6. RowInv' /\ JournalInv' /\ SentInv' /\ DeletedInv'
  BY <1>1 DEF IInv, RowInv, JournalInv, SentInv, DeletedInv, RowOf, RunningRow, NotSent
<1>7. JournalRow'
  BY <1>1, <1>3 DEF JournalRow, RowOf, RunningRow
<1>8. ResourceInv'
  BY <1>1, <1>2, <1>3 DEF IInv, ResourceInv, RowOf
<1>9. StepRow' /\ StepPhase' /\ StepConv'
  BY <1>1, <1>2, <1>3 DEF StepRow, StepPhase, StepConv, RunningPcs, ConvPcs, RunningRow,
     RowOf, PreSubmission
<1> QED
  BY <1>4, <1>5, <1>6, <1>7, <1>8, <1>9 DEF IInv

LEMMA EvaluatorKeeps ==
    ASSUME IInv, CreateEvaluator \/ DestroyEvaluator
    PROVE  IInv'
<1>1. /\ cur \in Ids /\ cur # None
      /\ \/ pc = "evaluate" /\ pc' = "destroy_evaluator"
            /\ evaluator' = [evaluator EXCEPT ![cur] = TRUE]
         \/ pc = "destroy_evaluator" /\ pc' = "complete"
            /\ evaluator' = [evaluator EXCEPT ![cur] = FALSE]
      /\ UNCHANGED <<rows, journal, capture, workstation, gateway, sent, deleted, cur, conv,
                     explicit, faults>>
  BY DEF IInv, TypeOK, CreateEvaluator, DestroyEvaluator, At, Goto, durable, chat, local
<1>2. /\ journal # None /\ journal.id = cur /\ journal.phase = "candidate_checkpointed"
      /\ RunningRow(cur)
  BY <1>1 DEF IInv, PcInv, StepPhase, StepRow, RunningPcs
<1>3. /\ evaluator' \in [Ids -> BOOLEAN]
      /\ \A i \in Ids : i # cur => evaluator'[i] = evaluator[i]
      /\ pc' = "complete" => evaluator'[cur] = FALSE
  BY <1>1 DEF IInv, TypeOK
<1>4. TypeOK'
  BY <1>1, <1>3 DEF IInv, TypeOK, Steps, AttemptSteps
<1>5. PcInv' /\ RowInv' /\ JournalInv' /\ SentInv' /\ DeletedInv'
  BY <1>1 DEF IInv, PcInv, RowInv, JournalInv, SentInv, DeletedInv, RowOf, RunningRow, NotSent
<1>6. JournalRow'
  BY <1>1, <1>2 DEF JournalRow, RowOf, RunningRow
<1>7. ResourceInv'
  <2>1. \A i \in Ids : (workstation[i] # "absent" \/ evaluator[i] \/ gateway = i) => i = cur
    BY <1>2 DEF IInv, ResourceInv
  <2>2. \A i \in Ids : evaluator'[i] => i = cur /\ pc' # "complete"
    BY <1>1, <1>3, <2>1
  <2>3. /\ \A i \in Ids :
              (workstation'[i] # "absent" \/ evaluator'[i] \/ gateway' = i) =>
                  journal' # None /\ journal'.id = i
    BY <1>1, <1>2, <2>1, <2>2
  <2>4. \A i \in Ids :
           evaluator'[i] => /\ journal'.phase = "candidate_checkpointed"
                            /\ RowOf(i)'.status # "completed"
                            /\ pc' # "complete"
    BY <1>1, <1>2, <2>2 DEF RowOf, RunningRow
  <2>5. pc' \notin {"start", "undo_fail", "undo_clear", "clear"}
    BY <1>1
  <2> QED
    BY <2>3, <2>4, <2>5 DEF ResourceInv
<1>8. StepRow' /\ StepPhase' /\ StepConv'
  BY <1>1, <1>2 DEF IInv, StepRow, StepPhase, StepConv, RunningPcs, ConvPcs, RunningRow,
     RowOf, PreSubmission
<1> QED
  BY <1>4, <1>5, <1>6, <1>7, <1>8 DEF IInv

-----------------------------------------------------------------------------
(* Cleanup and undo *)

(* Both ways to give the machines back leave nothing of the attempt.        *)
LEMMA ReleaseFacts ==
    ASSUME IInv, cur \in Ids, journal # None, journal.id = cur,
           \/ StrictReset /\ journal.phase # "candidate_checkpointed"
           \/ StrictReset /\ RowOf(cur).status = "completed"
           \/ Abandon
    PROVE  /\ workstation' \in [Ids -> {"absent", "partial", "ready"}]
           /\ evaluator' \in [Ids -> BOOLEAN]
           /\ gateway' = None
           /\ \A i \in Ids : workstation'[i] = "absent" /\ evaluator'[i] = FALSE
<1>1. /\ workstation \in [Ids -> {"absent", "partial", "ready"}]
      /\ evaluator \in [Ids -> BOOLEAN]
  BY DEF IInv, TypeOK
<1>2. \A i \in Ids : i # cur => workstation[i] = "absent" /\ ~evaluator[i]
  BY DEF IInv, ResourceInv
<1>3. Abandon \/ (StrictReset /\ ~evaluator[cur])
  <2>1. evaluator[cur] => journal.phase = "candidate_checkpointed" /\ RowOf(cur).status # "completed"
    BY DEF IInv, ResourceInv
  <2> QED
    BY <2>1
<1>4. /\ workstation' = [workstation EXCEPT ![cur] = "absent"]
      /\ \/ evaluator' = [evaluator EXCEPT ![cur] = FALSE]
         \/ evaluator' = evaluator /\ ~evaluator[cur]
      /\ gateway' = None
  BY <1>3 DEF StrictReset, Abandon, Unbind
<1> QED
  BY <1>1, <1>2, <1>4

LEMMA ResetKeeps ==
    ASSUME IInv, Reset
    PROVE  IInv'
<1>1. /\ pc \in {"reset", "undo_reset", "early_reset"} /\ cur \in Ids /\ cur # None
      /\ StrictReset
      /\ UNCHANGED <<rows, journal, capture, sent, deleted, faults>>
  BY DEF IInv, TypeOK, Reset, ResetSteps, durable, chat
<1>2. journal # None /\ journal.id = cur
  BY <1>1 DEF IInv, PcInv
<1>3. \/ /\ pc' = "idle" /\ cur' = None /\ conv' = None /\ explicit' = FALSE
      \/ /\ pc = "reset" /\ pc' = "clear" /\ UNCHANGED <<cur, conv, explicit>>
      \/ /\ pc = "undo_reset" /\ pc' = "undo_fail" /\ UNCHANGED <<cur, conv, explicit>>
      \/ /\ pc = "early_reset" /\ pc' = "undo_clear" /\ RowOf(cur).status = "absent"
         /\ UNCHANGED <<cur, conv, explicit>>
      \/ /\ pc = "early_reset" /\ pc' = "undo_fail" /\ RunningRow(cur)
         /\ UNCHANGED <<cur, conv, explicit>>
  BY <1>1 DEF Reset, AfterReset, Goto, Idle, Task, local, RowOf
<1>4. \/ journal.phase # "candidate_checkpointed"
      \/ RowOf(cur).status = "completed"
  BY <1>1 DEF IInv, StepPhase, StepRow, PreSubmission
<1>5. /\ workstation' \in [Ids -> {"absent", "partial", "ready"}]
      /\ evaluator' \in [Ids -> BOOLEAN]
      /\ gateway' = None
      /\ \A i \in Ids : workstation'[i] = "absent" /\ evaluator'[i] = FALSE
  BY <1>1, <1>2, <1>4, ReleaseFacts
<1>6. TypeOK'
  BY <1>1, <1>3, <1>5 DEF IInv, TypeOK, Steps, AttemptSteps, UndoSteps
<1>7. PcInv' /\ RowInv' /\ JournalInv' /\ SentInv' /\ DeletedInv'
  BY <1>1, <1>2, <1>3 DEF IInv, PcInv, RowInv, JournalInv, SentInv, DeletedInv, RowOf,
     RunningRow, NotSent
<1>8. JournalRow'
  BY <1>1, <1>2, <1>3 DEF IInv, JournalRow, RowOf, RunningRow
<1>9. ResourceInv'
  BY <1>1, <1>3, <1>5, IdFacts, NoneAssumption DEF ResourceInv, Clean
<1>10. StepRow' /\ StepPhase' /\ StepConv'
  BY <1>1, <1>2, <1>3 DEF IInv, StepRow, StepPhase, StepConv, RunningPcs, ConvPcs,
     RunningRow, RowOf
<1> QED
  BY <1>6, <1>7, <1>8, <1>9, <1>10 DEF IInv

LEMMA CleanupFailedKeeps ==
    ASSUME IInv, CleanupFailed
    PROVE  IInv'
<1>1. /\ pc = "cleanup_failed" /\ pc' = "clear" /\ cur \in Ids /\ cur # None
      /\ UNCHANGED <<rows, journal, capture, sent, deleted, cur, conv, explicit, faults>>
      /\ IF cur[1] \in Templated THEN Abandon ELSE StrictReset
  BY DEF IInv, TypeOK, CleanupFailed, At, Goto, Task, durable, chat, local
<1>2. /\ journal # None /\ journal.id = cur
      /\ RowOf(cur).status = "failed" /\ RowOf(cur).attempt = cur[2]
  BY <1>1 DEF IInv, PcInv, StepRow
<1>3. cur[1] \notin Templated => journal.phase # "candidate_checkpointed"
  BY <1>2, AttemptAssumption DEF IInv, JournalInv, Checkpointed
<1>4. /\ workstation' \in [Ids -> {"absent", "partial", "ready"}]
      /\ evaluator' \in [Ids -> BOOLEAN]
      /\ gateway' = None
      /\ \A i \in Ids : workstation'[i] = "absent" /\ evaluator'[i] = FALSE
  BY <1>1, <1>2, <1>3, ReleaseFacts
<1>5. TypeOK'
  BY <1>1, <1>4 DEF IInv, TypeOK, Steps, AttemptSteps
<1>6. PcInv' /\ RowInv' /\ JournalInv' /\ SentInv' /\ DeletedInv'
  BY <1>1 DEF IInv, PcInv, RowInv, JournalInv, SentInv, DeletedInv, RowOf, RunningRow, NotSent
<1>7. JournalRow'
  BY <1>1, <1>2 DEF JournalRow, RowOf
<1>8. ResourceInv'
  BY <1>1, <1>4, IdFacts DEF ResourceInv, Clean
<1>9. StepRow' /\ StepPhase' /\ StepConv'
  BY <1>1, <1>2 DEF StepRow, StepPhase, StepConv, RunningPcs, ConvPcs, RunningRow, RowOf
<1> QED
  BY <1>5, <1>6, <1>7, <1>8, <1>9 DEF IInv

LEMMA ResetBreaksOffKeeps ==
    ASSUME IInv, ResetBreaksOff
    PROVE  IInv'
<1>1. /\ cur \in Ids
      /\ gateway' \in {gateway, None}
      /\ UNCHANGED <<rows, journal, capture, workstation, evaluator, sent, deleted>>
      /\ pc' = "idle" /\ cur' = None /\ conv' = None /\ explicit' = FALSE
      /\ faults' \in 0..MaxFaults
      /\ pc \notin {"start", "undo_clear", "prerun_fail", "clear_capture"}
  BY FaultFacts DEF IInv, TypeOK, ResetBreaksOff, ResetSteps, Unbind, Idle, durable, chat
<1>2. TypeOK'
  BY <1>1 DEF IInv, TypeOK, Steps
<1>3. PcInv' /\ RowInv' /\ JournalInv' /\ SentInv' /\ DeletedInv'
  BY <1>1 DEF IInv, PcInv, RowInv, JournalInv, SentInv, DeletedInv, RowOf, RunningRow, NotSent
<1>4. JournalRow'
  BY <1>1 DEF IInv, JournalRow, RowOf
<1>5. ResourceInv'
  BY <1>1, IdFacts DEF IInv, ResourceInv, RowOf
<1>6. StepRow' /\ StepPhase' /\ StepConv'
  BY <1>1 DEF StepRow, StepPhase, StepConv, RunningPcs, ConvPcs
<1> QED
  BY <1>2, <1>3, <1>4, <1>5, <1>6 DEF IInv

(* The journal is dropped: its attempt is resolved and nothing is left of   *)
(* it on the host.                                                          *)
LEMMA DropJournalKeeps ==
    ASSUME IInv, ClearJournal \/ UndoClear \/ StartConflict
    PROVE  IInv'
<1>1. /\ pc \in {"clear", "undo_clear", "start"} /\ cur \in Ids /\ cur # None
      /\ journal' = None
      /\ UNCHANGED <<rows, capture, workstation, evaluator, gateway, sent, deleted, faults>>
      /\ \/ pc' = "clear_capture" /\ UNCHANGED <<cur, conv, explicit>>
         \/ pc' = "idle" /\ cur' = None /\ conv' = None /\ explicit' = FALSE
  BY DEF IInv, TypeOK, ClearJournal, UndoClear, StartConflict, At, Goto, Idle, machines,
     chat, local
<1>2. journal # None /\ journal.id = cur /\ Clean(cur)
  BY <1>1 DEF IInv, PcInv, ResourceInv
<1>3. ~RunningRow(cur)
  BY <1>1 DEF IInv, StepRow, RunningRow, RowOf
<1>4. TypeOK'
  BY <1>1 DEF IInv, TypeOK, Steps, AttemptSteps
<1>5. PcInv' /\ RowInv' /\ JournalRow' /\ JournalInv' /\ DeletedInv'
  BY <1>1 DEF IInv, PcInv, RowInv, JournalRow, JournalInv, DeletedInv, RowOf
<1>6. SentInv'
  BY <1>1, <1>2, <1>3 DEF IInv, SentInv, RowOf, RunningRow
<1>7. ResourceInv'
  BY <1>1, <1>2 DEF IInv, ResourceInv, Clean
<1>8. StepRow' /\ StepPhase' /\ StepConv'
  BY <1>1 DEF StepRow, StepPhase, StepConv, RunningPcs, ConvPcs
<1> QED
  BY <1>4, <1>5, <1>6, <1>7, <1>8 DEF IInv

LEMMA ClearCaptureKeeps ==
    ASSUME IInv, ClearCapture
    PROVE  IInv'
<1>1. /\ pc = "clear_capture" /\ capture' = None
      /\ UNCHANGED <<rows, journal, workstation, evaluator, gateway, sent, deleted, faults>>
      /\ pc' = "idle" /\ cur' = None /\ conv' = None /\ explicit' = FALSE
  BY DEF ClearCapture, At, Idle, machines, chat
<1>2. journal = None
  BY <1>1 DEF IInv, PcInv
<1>3. TypeOK'
  BY <1>1 DEF IInv, TypeOK, Steps
<1>4. PcInv' /\ RowInv' /\ JournalRow' /\ JournalInv' /\ SentInv' /\ DeletedInv'
  BY <1>1, <1>2 DEF IInv, PcInv, RowInv, JournalRow, JournalInv, SentInv, DeletedInv, RowOf,
     RunningRow
<1>5. ResourceInv'
  BY <1>1, <1>2 DEF IInv, ResourceInv
<1>6. StepRow' /\ StepPhase' /\ StepConv'
  BY <1>1 DEF StepRow, StepPhase, StepConv, RunningPcs, ConvPcs
<1> QED
  BY <1>3, <1>4, <1>5, <1>6 DEF IInv

-----------------------------------------------------------------------------
(* reconcile_journal selects a branch: what the durable state says is what  *)
(* the steps of that branch rely on.                                        *)

LEMMA ResumeKeeps ==
    ASSUME IInv, Pending, NEW step \in Steps, NEW c \in Convs \cup {None}, NEW e \in BOOLEAN,
           Resume(step, c, e),
           step \notin OffJournal \cup {"start", "undo_fail", "undo_clear", "clear", "complete"},
           step # "early_reset" => RowOf(journal.id).attempt = journal.id[2]
    PROVE  /\ TypeOK' /\ PcInv' /\ RowInv' /\ JournalRow' /\ JournalInv'
           /\ SentInv' /\ ResourceInv' /\ DeletedInv'
<1>1. /\ pc = "idle" /\ pc' = step /\ cur' = journal.id /\ conv' = c /\ explicit' = e
      /\ journal # None /\ journal.id \in Ids /\ journal.id # None
      /\ UNCHANGED <<rows, journal, capture, workstation, evaluator, gateway, sent, deleted,
                     faults>>
  BY EntryFacts, IdFacts DEF IInv, TypeOK, Pending, Resume, Goto, durable, machines, chat
<1>2. TypeOK'
  BY <1>1 DEF IInv, TypeOK
<1>3. PcInv' /\ RowInv' /\ JournalInv' /\ SentInv' /\ DeletedInv'
  BY <1>1 DEF IInv, PcInv, RowInv, JournalInv, SentInv, DeletedInv, RowOf, RunningRow,
     NotSent, OffJournal
<1>4. JournalRow'
  BY <1>1 DEF IInv, JournalRow, RowOf
<1>5. ResourceInv'
  BY <1>1 DEF IInv, ResourceInv, RowOf
<1> QED
  BY <1>2, <1>3, <1>4, <1>5

LEMMA PendingFacts ==
    ASSUME IInv, Pending
    PROVE  /\ pc = "idle" /\ journal # None /\ journal \in Entry
           /\ journal.id \in Ids /\ journal.id[1] \in Tasks
           /\ journal.id = <<journal.id[1], journal.id[2]>>
           /\ journal.conv \in Convs \cup {None} /\ journal.msg \in 0..MaxSends
           /\ PendingTask = journal.id[1] /\ PendingRow = RowOf(journal.id)
           /\ KnownConversation \in Convs \cup {None}
<1>1. journal \in Entry /\ pc = "idle" /\ journal # None
  BY DEF Pending, IInv, TypeOK
<1>2. journal.id \in Ids /\ journal.id[1] \in Tasks /\ journal.id = <<journal.id[1], journal.id[2]>>
      /\ journal.conv \in Convs \cup {None} /\ journal.msg \in 0..MaxSends
  BY <1>1, EntryFacts, IdFacts
<1>3. rows[journal.id[1]].conv \in Convs \cup {None}
  BY <1>2, RowFacts DEF IInv, TypeOK
<1> QED
  BY <1>1, <1>2, <1>3 DEF PendingTask, PendingRow, RowOf, KnownConversation

(* The conversation the journal or the row names, if the row is this        *)
(* attempt's, is the only one the attempt has.                              *)
LEMMA KnownFacts ==
    ASSUME IInv, Pending, RowOf(journal.id).attempt = journal.id[2], KnownConversation # None
    PROVE  /\ KnownConversation = <<journal.id, 1>>
           /\ KnownConversation \in sent
<1>1. journal # None /\ journal.id[1] \in Tasks /\ journal.id = <<journal.id[1], journal.id[2]>>
  BY PendingFacts
<1>2. journal.conv # None => journal.conv = <<journal.id, 1>> /\ journal.conv \in sent
  BY <1>1 DEF IInv, JournalInv
<1>3. rows[journal.id[1]].conv # None =>
          rows[journal.id[1]].conv = <<journal.id, 1>> /\ rows[journal.id[1]].conv \in sent
  BY <1>1 DEF IInv, RowInv, RowOf
<1> QED
  BY <1>2, <1>3 DEF KnownConversation, PendingRow, PendingTask

LEMMA ReconcileCompletedKeeps ==
    ASSUME IInv, ReconcileCompleted
    PROVE  IInv'
<1> DEFINE step == "delete"
           c    == KnownConversation
<1>1. Pending /\ Resume(step, c, FALSE)
  BY DEF ReconcileCompleted
<1>2. /\ pc = "idle" /\ journal # None /\ journal.id \in Ids /\ journal.id[1] \in Tasks
      /\ PendingTask = journal.id[1] /\ PendingRow = RowOf(journal.id)
      /\ journal.conv \in Convs \cup {None} /\ journal.id = <<journal.id[1], journal.id[2]>>
      /\ KnownConversation \in Convs \cup {None}
  BY <1>1, PendingFacts
<1>3. RowOf(journal.id).status = "completed" /\ RowOf(journal.id).attempt = journal.id[2]
  BY <1>2 DEF ReconcileCompleted, IInv, JournalRow
<1>4. KnownConversation = <<journal.id, 1>> /\ KnownConversation \in sent
      /\ RowOf(journal.id).conv = KnownConversation
  BY <1>1, <1>2, <1>3, KnownFacts DEF IInv, RowInv, RowOf, KnownConversation, PendingRow,
     PendingTask
<1>5. /\ TypeOK' /\ PcInv' /\ RowInv' /\ JournalRow' /\ JournalInv'
      /\ SentInv' /\ ResourceInv' /\ DeletedInv'
  BY <1>1, <1>2, <1>3, <1>4, ResumeKeeps DEF Steps, AttemptSteps, RecoverSteps, OtherSteps,
     OffJournal
<1>6. /\ pc' = step /\ cur' = journal.id /\ conv' = c
      /\ UNCHANGED <<rows, journal, capture, sent>>
  BY <1>1 DEF Resume, Goto, durable, chat
<1>7. StepRow' /\ StepPhase' /\ StepConv'
  BY <1>2, <1>3, <1>4, <1>6 DEF StepRow, StepPhase, StepConv, RunningPcs, ConvPcs,
     RunningRow, RowOf
<1> QED
  BY <1>5, <1>7 DEF IInv

LEMMA ReconcileFailedKeeps ==
    ASSUME IInv, ReconcileFailed
    PROVE  IInv'
<1> DEFINE step == "cleanup_failed"
           c    == None
<1>1. Pending /\ Resume(step, c, FALSE)
  BY DEF ReconcileFailed
<1>2. /\ pc = "idle" /\ journal # None /\ journal.id \in Ids /\ journal.id[1] \in Tasks
      /\ PendingTask = journal.id[1] /\ PendingRow = RowOf(journal.id)
      /\ journal.conv \in Convs \cup {None} /\ journal.id = <<journal.id[1], journal.id[2]>>
      /\ KnownConversation \in Convs \cup {None}
  BY <1>1, PendingFacts
<1>3. RowOf(journal.id).status = "failed" /\ RowOf(journal.id).attempt = journal.id[2]
  BY <1>2 DEF ReconcileFailed, FailedThisAttempt
<1>5. /\ TypeOK' /\ PcInv' /\ RowInv' /\ JournalRow' /\ JournalInv'
      /\ SentInv' /\ ResourceInv' /\ DeletedInv'
  BY <1>1, <1>2, <1>3, ResumeKeeps DEF Steps, AttemptSteps, RecoverSteps, OtherSteps, OffJournal
<1>6. /\ pc' = step /\ cur' = journal.id /\ conv' = c
      /\ UNCHANGED <<rows, journal, capture, sent>>
  BY <1>1 DEF Resume, Goto, durable, chat
<1>7. StepRow' /\ StepPhase' /\ StepConv'
  BY <1>2, <1>3, <1>6 DEF StepRow, StepPhase, StepConv, RunningPcs, ConvPcs, RunningRow, RowOf
<1> QED
  BY <1>5, <1>7 DEF IInv

LEMMA ReconcilePreparationKeeps ==
    ASSUME IInv, ReconcilePreparation
    PROVE  IInv'
<1> DEFINE step == IF journal.phase = "starting" THEN "create" ELSE "resume_prepare"
           c    == None
<1>1. Pending /\ Resume(step, c, FALSE)
  BY DEF ReconcilePreparation
<1>2. /\ pc = "idle" /\ journal # None /\ journal.id \in Ids /\ journal.id[1] \in Tasks
      /\ PendingTask = journal.id[1] /\ PendingRow = RowOf(journal.id)
      /\ journal.conv \in Convs \cup {None} /\ journal.id = <<journal.id[1], journal.id[2]>>
      /\ KnownConversation \in Convs \cup {None}
  BY <1>1, PendingFacts
<1>3. RowOf(journal.id).status = "running" /\ RowOf(journal.id).attempt = journal.id[2]
  BY <1>2 DEF ReconcilePreparation, RowMatches
<1>4. journal.phase \in PreSubmission
  BY DEF ReconcilePreparation
<1>5. /\ TypeOK' /\ PcInv' /\ RowInv' /\ JournalRow' /\ JournalInv'
      /\ SentInv' /\ ResourceInv' /\ DeletedInv'
  BY <1>1, <1>2, <1>3, <1>4, ResumeKeeps DEF Steps, AttemptSteps, RecoverSteps, OtherSteps,
     OffJournal
<1>6. /\ pc' = step /\ cur' = journal.id /\ conv' = c
      /\ UNCHANGED <<rows, journal, capture, sent>>
  BY <1>1 DEF Resume, Goto, durable, chat
<1>7. StepRow' /\ StepPhase' /\ StepConv'
  BY <1>2, <1>3, <1>4, <1>6 DEF StepRow, StepPhase, StepConv, RunningPcs, ConvPcs,
     RunningRow, RowOf
<1> QED
  BY <1>5, <1>7 DEF IInv

LEMMA ReconcileCheckpointKeeps ==
    ASSUME IInv, ReconcileCheckpoint
    PROVE  IInv'
<1> DEFINE step == "resume_evaluate"
           c    == journal.conv
<1>1. Pending /\ Resume(step, c, TRUE)
  BY DEF ReconcileCheckpoint
<1>2. /\ pc = "idle" /\ journal # None /\ journal.id \in Ids /\ journal.id[1] \in Tasks
      /\ PendingTask = journal.id[1] /\ PendingRow = RowOf(journal.id)
      /\ journal.conv \in Convs \cup {None} /\ journal.id = <<journal.id[1], journal.id[2]>>
      /\ KnownConversation \in Convs \cup {None}
  BY <1>1, PendingFacts
<1>3. RowOf(journal.id).status = "running" /\ RowOf(journal.id).attempt = journal.id[2]
  BY <1>2 DEF ReconcileCheckpoint, RowMatches
<1>4. journal.phase \in Checkpointed /\ journal.conv = <<journal.id, 1>> /\ journal.conv \in sent
  BY <1>2 DEF ReconcileCheckpoint, IInv, JournalInv
<1>5. /\ TypeOK' /\ PcInv' /\ RowInv' /\ JournalRow' /\ JournalInv'
      /\ SentInv' /\ ResourceInv' /\ DeletedInv'
  BY <1>1, <1>2, <1>3, <1>4, ResumeKeeps DEF Steps, AttemptSteps, RecoverSteps, OtherSteps,
     OffJournal
<1>6. /\ pc' = step /\ cur' = journal.id /\ conv' = c
      /\ UNCHANGED <<rows, journal, capture, sent>>
  BY <1>1 DEF Resume, Goto, durable, chat
<1>7. StepRow' /\ StepPhase' /\ StepConv'
  BY <1>2, <1>3, <1>4, <1>6 DEF StepRow, StepPhase, StepConv, RunningPcs, ConvPcs,
     RunningRow, RowOf
<1> QED
  BY <1>5, <1>7 DEF IInv

LEMMA ReconcileUndoKeeps ==
    ASSUME IInv, ReconcileUndo
    PROVE  IInv'
<1> DEFINE step == "early_reset"
           c    == None
<1>1. Pending /\ Resume(step, c, FALSE)
  BY DEF ReconcileUndo
<1>2. /\ pc = "idle" /\ journal # None /\ journal.id \in Ids /\ journal.id[1] \in Tasks
      /\ PendingTask = journal.id[1] /\ PendingRow = RowOf(journal.id)
      /\ journal.conv \in Convs \cup {None} /\ journal.id = <<journal.id[1], journal.id[2]>>
      /\ KnownConversation \in Convs \cup {None}
  BY <1>1, PendingFacts
<1>3. journal.phase \in PreSubmission
  BY DEF ReconcileUndo
<1>5. /\ TypeOK' /\ PcInv' /\ RowInv' /\ JournalRow' /\ JournalInv'
      /\ SentInv' /\ ResourceInv' /\ DeletedInv'
  BY <1>1, <1>2, <1>3, ResumeKeeps DEF Steps, AttemptSteps, RecoverSteps, OtherSteps, OffJournal
<1>6. /\ pc' = step /\ cur' = journal.id /\ conv' = c
      /\ UNCHANGED <<rows, journal, capture, sent>>
  BY <1>1 DEF Resume, Goto, durable, chat
<1>7. StepRow' /\ StepPhase' /\ StepConv'
  BY <1>2, <1>3, <1>6 DEF StepRow, StepPhase, StepConv, RunningPcs, ConvPcs, RunningRow, RowOf
<1> QED
  BY <1>5, <1>7 DEF IInv

LEMMA ReconcileConversationKeeps ==
    ASSUME IInv, ReconcileConversation
    PROVE  IInv'
<1> DEFINE step == "resume_recover"
           c    == KnownConversation
<1>1. Pending /\ Resume(step, c, FALSE)
  BY DEF ReconcileConversation
<1>2. /\ pc = "idle" /\ journal # None /\ journal.id \in Ids /\ journal.id[1] \in Tasks
      /\ PendingTask = journal.id[1] /\ PendingRow = RowOf(journal.id)
      /\ journal.conv \in Convs \cup {None} /\ journal.id = <<journal.id[1], journal.id[2]>>
      /\ KnownConversation \in Convs \cup {None}
  BY <1>1, PendingFacts
<1>3. RowOf(journal.id).status = "running" /\ RowOf(journal.id).attempt = journal.id[2]
  BY <1>2 DEF ReconcileConversation, RowMatches
<1>4. /\ journal.phase \in {"submission_started", "conversation_known"}
      /\ KnownConversation = <<journal.id, 1>> /\ KnownConversation \in sent
  BY <1>1, <1>2, <1>3, KnownFacts, EntryFacts DEF ReconcileConversation, IInv, TypeOK,
     JournalInv, Phases
<1>5. /\ TypeOK' /\ PcInv' /\ RowInv' /\ JournalRow' /\ JournalInv'
      /\ SentInv' /\ ResourceInv' /\ DeletedInv'
  BY <1>1, <1>2, <1>3, <1>4, ResumeKeeps DEF Steps, AttemptSteps, RecoverSteps, OtherSteps,
     OffJournal
<1>6. /\ pc' = step /\ cur' = journal.id /\ conv' = c
      /\ UNCHANGED <<rows, journal, capture, sent>>
  BY <1>1 DEF Resume, Goto, durable, chat
<1>7. StepRow' /\ StepPhase' /\ StepConv'
  BY <1>2, <1>3, <1>4, <1>6 DEF StepRow, StepPhase, StepConv, RunningPcs, ConvPcs,
     RunningRow, RowOf
<1> QED
  BY <1>5, <1>7 DEF IInv

LEMMA ReconcileCandidateKeeps ==
    ASSUME IInv, ReconcileCandidate
    PROVE  IInv'
<1> DEFINE step == "resume_candidate"
           c    == <<journal.id, journal.msg>>
<1>1. Pending /\ Resume(step, c, FALSE)
  BY DEF ReconcileCandidate
<1>2. /\ pc = "idle" /\ journal # None /\ journal.id \in Ids /\ journal.id[1] \in Tasks
      /\ PendingTask = journal.id[1] /\ PendingRow = RowOf(journal.id)
      /\ journal.conv \in Convs \cup {None} /\ journal.id = <<journal.id[1], journal.id[2]>>
      /\ KnownConversation \in Convs \cup {None}
  BY <1>1, PendingFacts
<1>3. RowOf(journal.id).status = "running" /\ RowOf(journal.id).attempt = journal.id[2]
  BY <1>2 DEF ReconcileCandidate, RowMatches
<1>4. /\ journal.phase = "submission_started" /\ c = <<journal.id, 1>> /\ c \in sent
      /\ c \in Convs
  BY <1>2, ConvFacts DEF ReconcileCandidate, IInv, JournalInv
<1>5. /\ TypeOK' /\ PcInv' /\ RowInv' /\ JournalRow' /\ JournalInv'
      /\ SentInv' /\ ResourceInv' /\ DeletedInv'
  BY <1>1, <1>2, <1>3, <1>4, ResumeKeeps DEF Steps, AttemptSteps, RecoverSteps, OtherSteps,
     OffJournal
<1>6. /\ pc' = step /\ cur' = journal.id /\ conv' = c
      /\ UNCHANGED <<rows, journal, capture, sent>>
  BY <1>1 DEF Resume, Goto, durable, chat
<1>7. StepRow' /\ StepPhase' /\ StepConv'
  BY <1>2, <1>3, <1>4, <1>6 DEF StepRow, StepPhase, StepConv, RunningPcs, ConvPcs,
     RunningRow, RowOf
<1> QED
  BY <1>5, <1>7 DEF IInv

LEMMA AbandonRecoveryKeeps ==
    ASSUME IInv, AbandonRecovery
    PROVE  IInv'
<1> DEFINE step == "abandon_fail"
           c    == None
<1>1. Pending /\ Resume(step, c, FALSE)
  BY DEF AbandonRecovery
<1>2. /\ pc = "idle" /\ journal # None /\ journal.id \in Ids /\ journal.id[1] \in Tasks
      /\ PendingTask = journal.id[1] /\ PendingRow = RowOf(journal.id)
      /\ journal.conv \in Convs \cup {None} /\ journal.id = <<journal.id[1], journal.id[2]>>
      /\ KnownConversation \in Convs \cup {None}
  BY <1>1, PendingFacts
<1>3. RowOf(journal.id).status = "running" /\ RowOf(journal.id).attempt = journal.id[2]
  BY <1>2 DEF AbandonRecovery, RowMatches
<1>5. /\ TypeOK' /\ PcInv' /\ RowInv' /\ JournalRow' /\ JournalInv'
      /\ SentInv' /\ ResourceInv' /\ DeletedInv'
  BY <1>1, <1>2, <1>3, ResumeKeeps DEF Steps, AttemptSteps, RecoverSteps, OtherSteps, OffJournal
<1>6. /\ pc' = step /\ cur' = journal.id /\ conv' = c
      /\ UNCHANGED <<rows, journal, capture, sent>>
  BY <1>1 DEF Resume, Goto, durable, chat
<1>7. StepRow' /\ StepPhase' /\ StepConv'
  BY <1>2, <1>3, <1>6 DEF StepRow, StepPhase, StepConv, RunningPcs, ConvPcs, RunningRow, RowOf
<1> QED
  BY <1>5, <1>7 DEF IInv

-----------------------------------------------------------------------------
(* lifecycle.assert_resume, exceptions, kills and restarts *)

LEMMA AssertResumeKeeps ==
    ASSUME IInv, AssertResume
    PROVE  IInv'
<1>1. /\ pc \in ResumeSteps /\ cur \in Ids /\ cur # None
      /\ gateway' = cur /\ pc' = AfterResume
      /\ UNCHANGED <<rows, journal, capture, workstation, evaluator, sent, deleted, cur, conv,
                     explicit, faults>>
  BY DEF IInv, TypeOK, AssertResume, Goto, durable, chat, local
<1>2. journal # None /\ journal.id = cur /\ RunningRow(cur)
  BY <1>1 DEF IInv, PcInv, StepRow, RunningPcs, ResumeSteps
<1>3. \/ /\ pc = "resume_prepare" /\ pc' = "mark_prepared" /\ journal.phase \in PreSubmission
      \/ /\ pc = "resume_evaluate" /\ pc' = "evaluate"
         /\ journal.phase = "candidate_checkpointed" /\ conv = <<cur, 1>> /\ conv \in sent
      \/ /\ pc = "resume_evaluate" /\ pc' = "candidate"
         /\ journal.phase = "conversation_checkpointed" /\ conv = <<cur, 1>> /\ conv \in sent
      \/ /\ pc = "resume_recover" /\ pc' = "attach_recovered"
         /\ journal.phase \in {"submission_started", "conversation_known"}
         /\ conv = <<cur, 1>> /\ conv \in sent
      \/ /\ pc = "resume_candidate" /\ pc' = "mark_known"
         /\ journal.phase = "submission_started" /\ conv = <<cur, 1>> /\ conv \in sent
  BY <1>1 DEF IInv, StepPhase, StepConv, ConvPcs, ResumeSteps, AfterResume, Checkpointed
<1>4. TypeOK'
  BY <1>1, <1>3 DEF IInv, TypeOK, Steps, AttemptSteps
<1>5. PcInv' /\ RowInv' /\ JournalInv' /\ SentInv' /\ DeletedInv'
  BY <1>1, <1>2, <1>3 DEF IInv, PcInv, RowInv, JournalInv, SentInv, DeletedInv, RowOf,
     RunningRow, NotSent
<1>6. JournalRow'
  BY <1>1, <1>2 DEF JournalRow, RowOf, RunningRow
<1>7. ResourceInv'
  BY <1>1, <1>2, <1>3 DEF IInv, ResourceInv, RowOf
<1>8. StepRow' /\ StepPhase' /\ StepConv'
  BY <1>1, <1>2, <1>3 DEF StepRow, StepPhase, StepConv, RunningPcs, ConvPcs, RunningRow, RowOf
<1> QED
  BY <1>4, <1>5, <1>6, <1>7, <1>8 DEF IInv

(* What a stop of the runner leaves behind is the part of the invariant     *)
(* that does not mention the step it was at.                                *)
LEMMA IdleKeeps ==
    ASSUME IInv, Idle, UNCHANGED <<durable, chat, evaluator>>,
           faults' \in 0..MaxFaults,
           gateway' \in {gateway, None},
           workstation' \in [Ids -> {"absent", "partial", "ready"}],
           \A i \in Ids : workstation'[i] # "absent" =>
               workstation[i] # "absent" \/ (journal # None /\ journal.id = i)
    PROVE  IInv'
<1>1. /\ UNCHANGED <<rows, journal, capture, sent, deleted, evaluator>>
      /\ pc' = "idle" /\ cur' = None /\ conv' = None /\ explicit' = FALSE
  BY DEF Idle, durable, chat
<1>2. TypeOK'
  BY <1>1 DEF IInv, TypeOK, Steps
<1>3. PcInv' /\ RowInv' /\ JournalInv' /\ SentInv' /\ DeletedInv'
  BY <1>1 DEF IInv, PcInv, RowInv, JournalInv, SentInv, DeletedInv, RowOf, RunningRow, NotSent
<1>4. JournalRow'
  BY <1>1 DEF IInv, JournalRow, RowOf
<1>5. ResourceInv'
  BY <1>1, IdFacts DEF IInv, ResourceInv, RowOf
<1>6. StepRow' /\ StepPhase' /\ StepConv'
  BY <1>1 DEF StepRow, StepPhase, StepConv, RunningPcs, ConvPcs
<1> QED
  BY <1>2, <1>3, <1>4, <1>5, <1>6 DEF IInv

LEMMA HandleExceptionKeeps ==
    ASSUME IInv, HandleException, faults' \in 0..MaxFaults
    PROVE  IInv'
<1>1. CASE Idle
  BY <1>1, IdleKeeps DEF HandleException, IInv, TypeOK, machines
<1>2. CASE CanUndo /\ Goto("undo_reset") /\ UNCHANGED local
  <2>1. /\ pc \in {"create", "activate", "mark_prepared", "compose", "submit"}
        /\ pc' = "undo_reset"
        /\ UNCHANGED <<rows, journal, capture, workstation, evaluator, gateway, sent, deleted,
                       cur, conv, explicit>>
    BY <1>2 DEF HandleException, CanUndo, Goto, durable, machines, chat, local
  <2>2. TypeOK'
    BY <2>1 DEF IInv, TypeOK, Steps, UndoSteps
  <2>3. PcInv' /\ RowInv' /\ JournalInv' /\ SentInv' /\ DeletedInv'
    BY <2>1 DEF IInv, PcInv, RowInv, JournalInv, SentInv, DeletedInv, RowOf, RunningRow, NotSent
  <2>4. JournalRow' /\ ResourceInv'
    BY <2>1 DEF IInv, JournalRow, ResourceInv, RowOf
  <2>5. StepRow' /\ StepPhase' /\ StepConv'
    BY <2>1 DEF IInv, StepRow, StepPhase, StepConv, RunningPcs, ConvPcs, RunningRow,
       RowOf, PreSubmission
  <2> QED
    BY <2>2, <2>3, <2>4, <2>5 DEF IInv
<1> QED
  BY <1>1, <1>2 DEF HandleException

LEMMA FaultKeeps ==
    ASSUME IInv, RaiseException \/ KillRunner \/ RestartGateway \/ CrashHost \/ StepRefused
    PROVE  IInv'
<1>1. CASE RaiseException
  BY <1>1, HandleExceptionKeeps, FaultFacts DEF RaiseException, IInv, TypeOK
<1>2. CASE StepRefused
  BY <1>2, HandleExceptionKeeps DEF StepRefused, IInv, TypeOK
<1>3. CASE KillRunner
  BY <1>3, IdleKeeps, FaultFacts DEF KillRunner, IInv, TypeOK, machines
<1>4. CASE RestartGateway
  <2>1. /\ gateway' = None /\ faults' \in 0..MaxFaults
        /\ UNCHANGED <<rows, journal, capture, workstation, evaluator, sent, deleted, pc, cur,
                       conv, explicit>>
    BY <1>4, FaultFacts DEF RestartGateway, IInv, TypeOK, durable, chat, local
  <2>2. TypeOK'
    BY <2>1 DEF IInv, TypeOK
  <2>3. PcInv' /\ RowInv' /\ JournalInv' /\ SentInv' /\ DeletedInv'
    BY <2>1 DEF IInv, PcInv, RowInv, JournalInv, SentInv, DeletedInv, RowOf, RunningRow, NotSent
  <2>4. JournalRow' /\ StepRow' /\ StepPhase' /\ StepConv'
    BY <2>1 DEF IInv, JournalRow, StepRow, StepPhase, StepConv, RowOf, RunningRow, NotSent
  <2>5. ResourceInv'
    <3>1. \A i \in Ids : gateway' # i
      BY <2>1, NoneAssumption
    <3>2. pc \in {"start", "undo_fail", "undo_clear", "clear"} => Clean(cur)'
      BY <2>1, <3>1 DEF IInv, TypeOK, PcInv, ResourceInv, Clean
    <3> QED
      BY <2>1, <3>1, <3>2 DEF IInv, ResourceInv, RowOf
  <2> QED
    BY <2>2, <2>3, <2>4, <2>5 DEF IInv
<1>5. CASE CrashHost
  <2>1. PICK made \in BOOLEAN :
          workstation' =
              [i \in Ids |->
                  IF workstation[i] = "ready" \/ (made /\ pc = "create" /\ i = cur)
                  THEN "partial" ELSE workstation[i]]
    BY <1>5 DEF CrashHost
  <2>2. workstation \in [Ids -> {"absent", "partial", "ready"}]
    BY DEF IInv, TypeOK
  <2>3. workstation' \in [Ids -> {"absent", "partial", "ready"}]
    BY <2>1, <2>2
  <2>4. pc = "create" => journal # None /\ journal.id = cur
    BY DEF IInv, PcInv
  <2>5. \A i \in Ids : workstation'[i] # "absent" =>
            workstation[i] # "absent" \/ (journal # None /\ journal.id = i)
    BY <2>1, <2>2, <2>4
  <2>6. faults' \in 0..MaxFaults
    BY <1>5, FaultFacts DEF CrashHost, IInv, TypeOK
  <2> QED
    BY <1>5, <2>3, <2>5, <2>6, IdleKeeps DEF CrashHost
<1> QED
  BY <1>1, <1>2, <1>3, <1>4, <1>5

LEMMA StutterKeeps ==
    ASSUME IInv, UNCHANGED vars
    PROVE  IInv'
BY DEF IInv, TypeOK, PcInv, RowInv, JournalRow, JournalInv, SentInv, ResourceInv, DeletedInv,
       StepRow, StepPhase, StepConv, NotSent, Clean, RowOf, RunningRow,
       vars, durable, machines, chat, local

-----------------------------------------------------------------------------
(* The inductive invariant *)

LEMMA InitIInv ==
    ASSUME Init
    PROVE  IInv
<1>1. TypeOK
  <2>1. [status |-> "absent", attempt |-> 0, conv |-> None] \in Row
    BY RowFacts, AttemptAssumption
  <2>2. rows \in [Tasks -> Row]
    BY <2>1 DEF Init
  <2>3. faults \in 0..MaxFaults /\ pc \in Steps
    BY AttemptAssumption DEF Init, Steps
  <2>4. /\ workstation \in [Ids -> {"absent", "partial", "ready"}]
        /\ evaluator \in [Ids -> BOOLEAN]
    BY DEF Init
  <2> QED
    BY <2>2, <2>3, <2>4 DEF Init, TypeOK
<1>2. PcInv /\ JournalRow /\ JournalInv /\ SentInv /\ DeletedInv
  BY DEF Init, PcInv, JournalRow, JournalInv, SentInv, DeletedInv
<1>3. RowInv
  BY DEF Init, RowInv
<1>4. ResourceInv
  BY NoneAssumption DEF Init, ResourceInv
<1>5. StepRow /\ StepPhase /\ StepConv
  BY DEF Init, StepRow, StepPhase, StepConv, RunningPcs, ConvPcs
<1> QED
  BY <1>1, <1>2, <1>3, <1>4, <1>5 DEF IInv

LEMMA NextIInv ==
    ASSUME IInv, [Next]_vars
    PROVE  IInv'
<1>1. ASSUME NEW t \in Tasks, RunTask(t) \/ StartPreRunnerFailure(t)
      PROVE  IInv'
  BY <1>1, RunTaskKeeps, StartPreRunnerFailureKeeps
<1>2. CASE ReconcileJournal
  BY <1>2, ReconcileCompletedKeeps, ReconcileFailedKeeps, ReconcilePreparationKeeps,
     ReconcileCheckpointKeeps, ReconcileUndoKeeps, ReconcileConversationKeeps,
     ReconcileCandidateKeeps DEF ReconcileJournal
<1>3. CASE AbandonRecovery
  BY <1>3, AbandonRecoveryKeeps
<1>4. CASE RunnerStep
  <2>1. CASE StartStorage \/ StartConflict \/ CreateWorkstation \/ ActivateGateway
    BY <2>1, StartStorageKeeps, DropJournalKeeps, MachineKeeps
  <2>2. CASE MarkPrepared \/ PrepareBenchmark \/ Compose \/ MarkSubmission
             \/ PersistUserMessageId \/ MarkKnown \/ MarkCheckpoint \/ CaptureCandidate
             \/ MarkCleanup
    BY <2>2, MarkPreparedKeeps, PrepareBenchmarkKeeps, ComposeKeeps, MarkSubmissionKeeps,
       PersistUserMessageIdKeeps, MarkKnownKeeps, MarkCheckpointKeeps, CaptureCandidateKeeps,
       MarkCleanupKeeps
  <2>3. CASE AttachConversation \/ AttachRecovered \/ CompleteStorage \/ UndoFail \/ AbandonFail
             \/ RecordPreRunnerFailure
    BY <2>3, AttachConversationKeeps, AttachRecoveredKeeps, CompleteStorageKeeps, UndoFailKeeps,
       AbandonFailKeeps, RecordPreRunnerFailureKeeps
  <2>4. CASE ClickSend \/ Generate \/ SaveCapture \/ CreateEvaluator \/ DestroyEvaluator
             \/ DeleteConversation
    BY <2>4, ClickSendKeeps, GenerateKeeps, EvaluatorKeeps, DeleteConversationKeeps
  <2>5. CASE Reset \/ ClearJournal \/ ClearCapture \/ UndoClear \/ CleanupFailed
    BY <2>5, ResetKeeps, DropJournalKeeps, ClearCaptureKeeps, CleanupFailedKeeps
  <2>6. CASE AssertResume \/ StepRefused
    BY <2>6, AssertResumeKeeps, FaultKeeps
  <2> QED
    BY <1>4, <2>1, <2>2, <2>3, <2>4, <2>5, <2>6 DEF RunnerStep
<1>5. CASE Rest \/ UNCHANGED vars
  BY <1>5, StutterKeeps DEF Rest
<1>6. CASE Fault
  BY <1>6, StartStorageKeeps, MachineKeeps, ResetBreaksOffKeeps, FaultKeeps DEF Fault
<1> QED
  BY <1>1, <1>2, <1>3, <1>4, <1>5, <1>6 DEF Next

(* The state of the runner process and of everything it drives are related  *)
(* by IInv in every reachable state.                                        *)
THEOREM Invariance == Spec => []IInv
<1>1. Init => IInv
  BY InitIInv
<1>2. IInv /\ [Next]_vars => IInv'
  BY NextIInv
<1> QED
  BY <1>1, <1>2, PTL DEF Spec

(* TypeOK: every variable keeps its type, for any number of tasks, attempts *)
(* and faults.                                                              *)
THEOREM TypeCorrect == Spec => []TypeOK
<1>1. IInv => TypeOK
  BY DEF IInv
<1> QED
  BY <1>1, Invariance, PTL

-----------------------------------------------------------------------------
(* The safety invariants *)

(* AtMostOneSend: _click_send runs at most once for an attempt, whatever    *)
(* kills, resumes and abandons happen and in whatever order.                *)
THEOREM SentOnce == Spec => []AtMostOneSend
<1>1. IInv => AtMostOneSend
  <2> SUFFICES ASSUME IInv, NEW i \in Ids
               PROVE  SendsOf(i) <= 1
    BY DEF AtMostOneSend
  <2> DEFINE S == {c \in sent : c[1] = i}
  <2>1. S \subseteq {<<i, 1>>}
    <3>1. \A c \in sent : c = <<c[1], c[2]>> /\ c[2] = 1
      BY ConvFacts DEF IInv, TypeOK, SentInv
    <3> QED
      BY <3>1
  <2>2. IsFiniteSet({<<i, 1>>}) /\ Cardinality({<<i, 1>>}) = 1
    BY FS_Singleton
  <2>3. Cardinality(S) <= Cardinality({<<i, 1>>})
    BY <2>1, <2>2, FS_Subset
  <2> QED
    BY <2>2, <2>3 DEF SendsOf
<1> QED
  BY <1>1, Invariance, PTL

(* SubmissionNeverForgotten: the journal of a running attempt forbids Send  *)
(* as soon as the attempt has a conversation.                               *)
THEOREM SubmissionKept == Spec => []SubmissionNeverForgotten
<1>1. IInv => SubmissionNeverForgotten
  BY DEF IInv, SentInv, JournalInv, NotSent, SubmissionNeverForgotten
<1> QED
  BY <1>1, Invariance, PTL

(* ResourcesAreJournaled: runner.py drops the journal of an attempt only    *)
(* when its VM, its evaluator VM and its gateway binding are gone.          *)
THEOREM NothingLeftBehind == Spec => []ResourcesAreJournaled
<1>1. IInv => ResourcesAreJournaled
  BY DEF IInv, ResourceInv, ResourcesAreJournaled
<1> QED
  BY <1>1, Invariance, PTL

(* DeletedOnlyAfterStored: delete_completed_conversation removes only what  *)
(* the storage service holds as the result of the task.                     *)
THEOREM DeletedAfterStored == Spec => []DeletedOnlyAfterStored
<1>1. IInv => DeletedOnlyAfterStored
  BY DEF IInv, DeletedInv, RowOf, DeletedOnlyAfterStored
<1> QED
  BY <1>1, Invariance, PTL

(* CheckpointHasCapture: _evaluate_capture writes the capture before the    *)
(* phase that announces it, and nothing removes it under that phase.        *)
THEOREM CheckpointsAreBacked == Spec => []CheckpointHasCapture
<1>1. IInv => CheckpointHasCapture
  BY DEF IInv, JournalInv, CheckpointHasCapture
<1> QED
  BY <1>1, Invariance, PTL

(* EvaluatorBehindCandidate: an evaluator VM exists only under the phase    *)
(* that makes its replacement an explicit recovery.                         *)
THEOREM EvaluatorsAreRecoverable == Spec => []EvaluatorBehindCandidate
<1>1. IInv => EvaluatorBehindCandidate
  BY DEF IInv, ResourceInv, EvaluatorBehindCandidate
<1> QED
  BY <1>1, Invariance, PTL

(* OneConversationOfRecord: journal, row and ChatGPT name one conversation. *)
THEOREM ConversationOfRecord == Spec => []OneConversationOfRecord
<1>1. IInv => OneConversationOfRecord
  <2> SUFFICES ASSUME IInv PROVE OneConversationOfRecord
    OBVIOUS
  <2>1. \A t \in Tasks :
           rows[t].conv # None =>
               rows[t].conv \in sent /\ rows[t].conv[1] = <<t, rows[t].attempt>>
    BY DEF IInv, RowInv
  <2>2. ASSUME journal # None, journal.conv # None
        PROVE  /\ journal.conv \in sent /\ journal.conv[1] = journal.id
               /\ journal.conv = <<journal.id, 1>>
    BY <2>2 DEF IInv, JournalInv
  <2>3. journal # None => journal.id = <<journal.id[1], journal.id[2]>> /\ journal.id[1] \in Tasks
    BY EntryFacts, IdFacts DEF IInv, TypeOK
  <2>4. ASSUME journal # None, rows[journal.id[1]].attempt = journal.id[2],
               rows[journal.id[1]].conv # None
        PROVE  rows[journal.id[1]].conv = <<journal.id, 1>>
    BY <2>3, <2>4 DEF IInv, RowInv
  <2> QED
    BY <2>1, <2>2, <2>4 DEF OneConversationOfRecord
<1> QED
  BY <1>1, Invariance, PTL

-----------------------------------------------------------------------------
(* What a step does to the journal *)

(* Only the steps after a resolved attempt drop the journal: every other    *)
(* step rewrites it, and is not idle afterwards, or leaves it alone.        *)
LEMMA JournalDrops ==
    ASSUME IInv, IInv', Next, journal # None, journal' = None
    PROVE  ClearJournal \/ UndoClear \/ StartConflict
<1>1. pc' \in OffJournal
  BY DEF IInv, PcInv, OffJournal
<1>2. ~(MarkPrepared \/ PrepareBenchmark \/ Compose \/ MarkSubmission \/ PersistUserMessageId
        \/ MarkKnown \/ MarkCheckpoint \/ CaptureCandidate \/ MarkCleanup)
  BY <1>1 DEF MarkPrepared, PrepareBenchmark, Compose, MarkSubmission, PersistUserMessageId,
     MarkKnown, MarkCheckpoint, CaptureCandidate, MarkCleanup, Mark, At, Goto, OffJournal
<1>3. ~(AttachConversation \/ AttachRecovered \/ CompleteStorage \/ UndoFail \/ AbandonFail
        \/ RecordPreRunnerFailure \/ StartStorage)
  BY DEF AttachConversation, AttachRecovered, CompleteStorage, UndoFail, AbandonFail, Store,
     RecordPreRunnerFailure, StartStorage
<1>4. ~(CreateWorkstation \/ ActivateGateway \/ ClickSend \/ Generate \/ SaveCapture
        \/ CreateEvaluator \/ DestroyEvaluator \/ DeleteConversation)
  BY DEF CreateWorkstation, ActivateGateway, ClickSend, Generate, SaveCapture,
     CreateEvaluator, DestroyEvaluator, DeleteConversation, durable
<1>5. ~(Reset \/ ClearCapture \/ CleanupFailed \/ AssertResume \/ StepRefused)
  BY DEF Reset, ClearCapture, CleanupFailed, AssertResume, StepRefused, HandleException, durable
<1>6. ~Fault /\ ~Rest
  BY DEF Fault, StartAnswerLost, CreateBreaksOff, ResetBreaksOff, RaiseException, KillRunner,
     RestartGateway, CrashHost, HandleException, Rest, durable, vars
<1>7. ~ReconcileJournal /\ ~AbandonRecovery
  BY DEF ReconcileJournal, ReconcileCompleted, ReconcileFailed, ReconcilePreparation,
     ReconcileCheckpoint, ReconcileUndo, ReconcileConversation, ReconcileCandidate,
     AbandonRecovery, Resume, durable
<1>8. ASSUME NEW t \in Tasks PROVE ~RunTask(t) /\ ~StartPreRunnerFailure(t)
  BY DEF RunTask, StartPreRunnerFailure
<1> QED
  BY <1>2, <1>3, <1>4, <1>5, <1>6, <1>7, <1>8 DEF Next, RunnerStep

(* JournalOutlivesAttempt: JournalStore.clear is called only when the       *)
(* storage service no longer holds the attempt as running.                  *)
THEOREM JournalKept == Spec => JournalOutlivesAttempt
<1>1. ASSUME IInv, IInv', [Next]_vars
      PROVE  [(journal # None /\ journal' = None) => ~RunningRow(journal.id)]_vars
  <2> SUFFICES ASSUME Next, journal # None, journal' = None
               PROVE  ~RunningRow(journal.id)
    BY <1>1
  <2>1. pc \in {"clear", "undo_clear", "start"}
    BY <1>1, JournalDrops DEF ClearJournal, UndoClear, StartConflict, At
  <2>2. journal.id = cur
    BY <1>1, <2>1 DEF IInv, PcInv
  <2> QED
    BY <1>1, <2>1, <2>2 DEF IInv, StepRow, RunningRow, RowOf
<1> QED
  BY <1>1, Invariance, PTL DEF Spec, JournalOutlivesAttempt

-----------------------------------------------------------------------------
(* The rows follow the ledger of attempts *)

(* A step opens an attempt, changes the row of the running one without      *)
(* changing its number, or leaves the rows alone.                           *)
LEMMA RowSteps ==
    ASSUME IInv, [Next]_vars
    PROVE  \/ UNCHANGED rows
           \/ \E i \in Ids : MayStart(i) /\ StartRow(i)
           \/ \E i \in Ids, s \in {"running", "failed", "completed"} :
                  /\ RunningRow(i)
                  /\ rows'[i[1]].status = s /\ rows'[i[1]].attempt = i[2]
                  /\ \A u \in Tasks \ {i[1]} : rows'[u] = rows[u]
<1> DEFINE Opens   == \E i \in Ids : MayStart(i) /\ StartRow(i)
           Changes == \E i \in Ids, s \in {"running", "failed", "completed"} :
                          /\ RunningRow(i)
                          /\ rows'[i[1]].status = s /\ rows'[i[1]].attempt = i[2]
                          /\ \A u \in Tasks \ {i[1]} : rows'[u] = rows[u]
<1>1. cur # None => cur \in Ids /\ cur[1] \in Tasks /\ rows[cur[1]].conv \in Convs \cup {None}
  BY IdFacts, RowFacts DEF IInv, TypeOK
<1>2. StartStorage \/ StartAnswerLost => Opens
  BY <1>1 DEF StartStorage, StartAnswerLost, At
<1>3. ASSUME NEW t \in Tasks, StartPreRunnerFailure(t) PROVE Opens
  BY <1>3, NextIdFacts DEF IInv, StartPreRunnerFailure
<1>4. ASSUME NEW from, NEW s \in {"running", "failed", "completed"}, NEW c \in Convs \cup {None},
             NEW to, Store(from, s, c, to)
      PROVE  Changes
  BY <1>4, StoreFacts DEF IInv
<1>5. AttachConversation \/ AttachRecovered \/ CompleteStorage \/ UndoFail \/ AbandonFail => Changes
  <2>1. conv \in Convs \cup {None}
    BY DEF IInv, TypeOK
  <2>2. UndoFail \/ AbandonFail => rows[Task].conv \in Convs \cup {None}
    BY <1>1 DEF UndoFail, AbandonFail, Store, At, Task
  <2> QED
    BY <1>4, <2>1, <2>2 DEF AttachConversation, AttachRecovered, CompleteStorage,
       UndoFail, AbandonFail
<1>6. RecordPreRunnerFailure => Changes
  <2> SUFFICES ASSUME RecordPreRunnerFailure PROVE Changes
    OBVIOUS
  <2>1. /\ rows \in [Tasks -> Row] /\ cur \in Ids /\ cur[1] \in Tasks /\ RunningRow(cur)
        /\ rows' = [rows EXCEPT ![cur[1]].status = "failed"]
    BY <1>1 DEF RecordPreRunnerFailure, At, Task, IInv, TypeOK
  <2>2. /\ rows'[cur[1]].status = "failed" /\ rows'[cur[1]].attempt = rows[cur[1]].attempt
        /\ \A u \in Tasks : u # cur[1] => rows'[u] = rows[u]
    BY <2>1, RowFailedFacts
  <2> QED
    BY <2>1, <2>2 DEF RunningRow
<1>7. StartConflict \/ CreateWorkstation \/ ActivateGateway \/ MarkPrepared \/ PrepareBenchmark
      \/ Compose \/ MarkSubmission \/ ClickSend \/ PersistUserMessageId \/ MarkKnown \/ Generate
      \/ SaveCapture \/ MarkCheckpoint \/ CaptureCandidate \/ CreateEvaluator \/ DestroyEvaluator
      \/ MarkCleanup \/ DeleteConversation => UNCHANGED rows
  BY DEF StartConflict, CreateWorkstation, ActivateGateway, MarkPrepared, PrepareBenchmark,
     Compose, MarkSubmission, ClickSend, PersistUserMessageId, MarkKnown, Generate, SaveCapture,
     MarkCheckpoint, CaptureCandidate, CreateEvaluator, DestroyEvaluator, MarkCleanup,
     DeleteConversation, Mark, durable
<1>8. Reset \/ ClearJournal \/ ClearCapture \/ UndoClear \/ AssertResume \/ CleanupFailed
      \/ StepRefused \/ ReconcileJournal \/ AbandonRecovery \/ Rest => UNCHANGED rows
  BY DEF Reset, ClearJournal, ClearCapture, UndoClear, AssertResume, CleanupFailed, StepRefused,
     HandleException, ReconcileJournal, ReconcileCompleted, ReconcileFailed,
     ReconcilePreparation, ReconcileCheckpoint, ReconcileUndo, ReconcileConversation,
     ReconcileCandidate, AbandonRecovery, Resume, Rest, durable, vars
<1>9. CreateBreaksOff \/ ResetBreaksOff \/ RaiseException \/ KillRunner \/ RestartGateway
      \/ CrashHost => UNCHANGED rows
  BY DEF CreateBreaksOff, ResetBreaksOff, RaiseException, KillRunner, RestartGateway, CrashHost,
     HandleException, durable
<1>10. ASSUME NEW t \in Tasks, RunTask(t) PROVE UNCHANGED rows
  BY <1>10 DEF RunTask
<1> HIDE DEF Opens, Changes
<1>11. RunnerStep => UNCHANGED rows \/ Opens \/ Changes
  BY <1>2, <1>5, <1>6, <1>7, <1>8 DEF RunnerStep
<1>12. Fault => UNCHANGED rows \/ Opens \/ Changes
  BY <1>2, <1>9 DEF Fault
<1>13. UNCHANGED vars => UNCHANGED rows
  BY DEF vars, durable
<1>14. UNCHANGED rows \/ Opens \/ Changes
  BY <1>3, <1>8, <1>10, <1>11, <1>12, <1>13 DEF Next
<1> QED
  BY <1>14 DEF Opens, Changes

LEMMA LedgerUpdate ==
    ASSUME NEW t \in Tasks, NEW n \in Attempts, NEW o,
           LedgerOutcome(rows'[t], n) = o,
           \A m \in Attempts \ {n} : LedgerOutcome(rows'[t], m) = LedgerOutcome(rows[t], m),
           \A u \in Tasks \ {t}, m \in Attempts :
               LedgerOutcome(rows'[u], m) = LedgerOutcome(rows[u], m)
    PROVE  [u \in Tasks |-> [m \in Attempts |-> LedgerOutcome(rows'[u], m)]]
             = [[u \in Tasks |-> [m \in Attempts |-> LedgerOutcome(rows[u], m)]]
                   EXCEPT ![t][n] = o]
BY Zenon

LEMMA LedgerOpens ==
    ASSUME IInv, NEW i \in Ids, MayStart(i), StartRow(i)
    PROVE  Ledger!Next
<1> DEFINE ledger == [u \in Tasks |-> [m \in Attempts |-> LedgerOutcome(rows[u], m)]]
           t == i[1]
           n == i[2]
<1>0. \A m \in Attempts : m \in Nat \ {0}
  BY AttemptAssumption DEF Attempts
<1>1. /\ t \in Tasks /\ n \in Attempts /\ rows[t].attempt \in Nat /\ n = rows[t].attempt + 1
      /\ rows[t].status \in {"absent", "failed"}
      /\ \A u \in Tasks : rows[u].attempt \in Nat /\ rows[u].status \in {"absent", "running", "failed", "completed"}
      /\ rows \in [Tasks -> Row]
  BY IdFacts, RowFacts DEF MayStart, IInv, TypeOK
<1>2. /\ rows'[t] = [status |-> "running", attempt |-> n, conv |-> None]
      /\ \A u \in Tasks : u # t => rows'[u] = rows[u]
  BY <1>1, StartRowFacts, Zenon
<1>3. rows'[t].status = "running" /\ rows'[t].attempt = n
  BY <1>2
<1>4. \A u \in Tasks \ {t} : rows[u].status # "running"
  BY DEF MayStart, NoOtherRunning
<1> HIDE DEF t, n
<1>5. Ledger!NothingOpen
  BY <1>0, <1>1, <1>4 DEF Attempts, Ledger!Attempts, Ledger!NothingOpen, LedgerOutcome
<1>6. ledger[t][n] = "unopened"
  BY <1>0, <1>1 DEF LedgerOutcome
<1>7. \A m \in Attempts : m < n => ledger[t][m] = "failed"
  BY <1>0, <1>1 DEF LedgerOutcome, IInv, RowInv
<1>8. ledger' = [ledger EXCEPT ![t][n] = "open"]
  <2>1. \A m \in Attempts \ {n} : LedgerOutcome(rows'[t], m) = LedgerOutcome(rows[t], m)
    BY <1>0, <1>1, <1>3 DEF LedgerOutcome, IInv, RowInv
  <2>2. LedgerOutcome(rows'[t], n) = "open"
    BY <1>0, <1>1, <1>3 DEF LedgerOutcome
  <2>3. \A u \in Tasks \ {t}, m \in Attempts :
            LedgerOutcome(rows'[u], m) = LedgerOutcome(rows[u], m)
    BY <1>2
  <2> QED
    BY <1>1, <2>1, <2>2, <2>3, LedgerUpdate
<1> QED
  BY <1>1, <1>5, <1>6, <1>7, <1>8 DEF Attempts, Ledger!Attempts, Ledger!Next, Ledger!Open

LEMMA LedgerCloses ==
    ASSUME IInv, NEW i \in Ids, NEW s \in {"running", "failed", "completed"}, RunningRow(i),
           rows'[i[1]].status = s, rows'[i[1]].attempt = i[2],
           \A u \in Tasks \ {i[1]} : rows'[u] = rows[u]
    PROVE  [Ledger!Next]_([u \in Tasks |-> [m \in Attempts |-> LedgerOutcome(rows[u], m)]])
<1> DEFINE ledger == [u \in Tasks |-> [m \in Attempts |-> LedgerOutcome(rows[u], m)]]
           t == i[1]
           n == i[2]
<1>0. \A m \in Attempts : m \in Nat \ {0}
  BY AttemptAssumption DEF Attempts
<1>1. /\ t \in Tasks /\ n \in Attempts /\ rows[t].attempt = n /\ rows[t].status = "running"
      /\ rows'[t].attempt = n /\ rows'[t].status = s
  BY IdFacts DEF RunningRow
<1>2. \A u \in Tasks \ {t} : rows'[u] = rows[u]
  OBVIOUS
<1> HIDE DEF t, n
<1>3. ledger[t][n] = "open"
  BY <1>0, <1>1 DEF LedgerOutcome
<1>4. ASSUME NEW m \in Attempts \ {n}
      PROVE  LedgerOutcome(rows'[t], m) = LedgerOutcome(rows[t], m)
  <2>1. m < n \/ m > n
    BY <1>0, <1>1
  <2> QED
    BY <1>0, <1>1, <2>1 DEF LedgerOutcome
<1>5. LedgerOutcome(rows'[t], n) = IF s = "running" THEN "open" ELSE s
  BY <1>0, <1>1 DEF LedgerOutcome
<1>6. \A u \in Tasks \ {t}, m \in Attempts :
          LedgerOutcome(rows'[u], m) = LedgerOutcome(rows[u], m)
  BY <1>2
<1>7. CASE s = "running"
  <2>1. LedgerOutcome(rows'[t], n) = LedgerOutcome(rows[t], n)
    BY <1>1, <1>5, <1>7 DEF LedgerOutcome
  <2>2. \A u \in Tasks, m \in Attempts : LedgerOutcome(rows'[u], m) = LedgerOutcome(rows[u], m)
    BY <1>4, <1>6, <2>1
  <2>3. ledger' = ledger
    BY <2>2, Zenon
  <2> QED
    BY <2>3
<1>8. CASE s # "running"
  <2>1. ledger' = [ledger EXCEPT ![t][n] = s]
    <3>1. LedgerOutcome(rows'[t], n) = s
      BY <1>5, <1>8
    <3> QED
      BY <1>1, <1>4, <1>6, <3>1, LedgerUpdate
  <2>2. s \in {"failed", "completed"}
    BY <1>8
  <2>3. Ledger!Close(t, n)
    BY <1>3, <2>1, <2>2 DEF Attempts, Ledger!Attempts, Ledger!Close
  <2> QED
    BY <1>1, <2>3 DEF Attempts, Ledger!Attempts, Ledger!Next
<1> QED
  BY <1>7, <1>8

(* LedgerSpec: runner.py, killed and resumed at any point, opens attempts   *)
(* one at a time and in order, closes each once and keeps a stored result.  *)
THEOREM Refinement == Spec => LedgerSpec
<1> DEFINE ledger == [t \in Tasks |-> [n \in Attempts |-> LedgerOutcome(rows[t], n)]]
<1>1. Init => Ledger!Init
  BY DEF Init, Ledger!Init, LedgerOutcome, Attempts, Ledger!Attempts
<1>2. IInv /\ [Next]_vars => [Ledger!Next]_ledger
  BY RowSteps, LedgerOpens, LedgerCloses
<1> QED
  BY <1>1, <1>2, Invariance, PTL DEF Spec, LedgerSpec, Ledger!Spec

-----------------------------------------------------------------------------
(* The contract of the VMs.                                                 *)

(* No evaluator is recorded when the strict reset takes the VM away: it was *)
(* destroyed before the completion, or none was made before Send.           *)
LEMMA StrictResetContract ==
    ASSUME IInv, cur \in Ids, StrictReset,
           pc \in ResetSteps \/ (pc = "cleanup_failed" /\ Task \notin Templated)
    PROVE  Contract!TakeDown(cur) \/ UNCHANGED <<workstation, evaluator>>
<1>1. /\ workstation' = [workstation EXCEPT ![cur] = "absent"]
      /\ workstation[cur] \in {"absent", "ready"}
      /\ UNCHANGED evaluator
      /\ workstation \in [Ids -> {"absent", "partial", "ready"}]
      /\ evaluator \in [Ids -> BOOLEAN]
  BY DEF StrictReset, IInv, TypeOK
<1>2. evaluator[cur] = FALSE
  <2> SUFFICES ASSUME evaluator[cur] PROVE FALSE
    BY <1>1
  <2>1. /\ journal # None /\ journal.id = cur /\ journal.phase = "candidate_checkpointed"
        /\ RowOf(cur).status # "completed"
    BY DEF IInv, ResourceInv
  <2>2. journal.id[1] \in Hooked /\ journal.phase \notin PreSubmission
    BY <2>1 DEF IInv, JournalInv, Checkpointed, PreSubmission
  <2>3. pc \notin {"undo_reset", "early_reset"}
    BY <2>2 DEF IInv, StepPhase
  <2>4. pc # "reset"
    BY <2>1 DEF IInv, StepRow
  <2>5. Task \in Templated
    BY <2>1, <2>2, AttemptAssumption DEF Task
  <2> QED
    BY <2>3, <2>4, <2>5 DEF ResetSteps
<1>3. CASE workstation[cur] = "ready"
  <2>1. evaluator' = [evaluator EXCEPT ![cur] = FALSE]
    BY <1>1, <1>2
  <2> QED
    BY <1>1, <1>3, <2>1 DEF Contract!TakeDown
<1>4. CASE workstation[cur] = "absent"
  <2>1. workstation' = workstation
    BY <1>1, <1>4
  <2> QED
    BY <1>1, <2>1
<1> QED
  BY <1>1, <1>3, <1>4

LEMMA AbandonContract ==
    ASSUME TypeOK, cur \in Ids, Abandon
    PROVE  Contract!TakeDown(cur) \/ Contract!Forget(cur)
<1>1. /\ workstation' = [workstation EXCEPT ![cur] = "absent"]
      /\ evaluator' = [evaluator EXCEPT ![cur] = FALSE]
      /\ workstation \in [Ids -> {"absent", "partial", "ready"}]
  BY DEF Abandon, TypeOK
<1>2. CASE workstation[cur] = "absent"
  <2>1. workstation' = workstation
    BY <1>1, <1>2
  <2> QED
    BY <1>1, <2>1 DEF Contract!Forget
<1>3. CASE workstation[cur] # "absent"
  BY <1>1, <1>3 DEF Contract!TakeDown
<1> QED
  BY <1>2, <1>3

LEMMA CreateContract ==
    ASSUME TypeOK, cur \in Ids, CreateWorkstation \/ CreateBreaksOff
    PROVE  Contract!Build(cur) \/ UNCHANGED <<workstation, evaluator>>
<1>1. workstation \in [Ids -> {"absent", "partial", "ready"}]
  BY DEF TypeOK
<1>2. CASE CreateBreaksOff
  BY <1>2 DEF CreateBreaksOff, Contract!Build
<1>3. CASE CreateWorkstation /\ workstation[cur] = "absent"
  BY <1>3 DEF CreateWorkstation, Contract!Build
<1>4. CASE CreateWorkstation /\ workstation[cur] = "ready"
  BY <1>1, <1>4 DEF CreateWorkstation
<1> QED
  BY <1>2, <1>3, <1>4 DEF CreateWorkstation

LEMMA CrashContract ==
    ASSUME TypeOK, CrashHost
    PROVE  Contract!Crash
<1>1. workstation \in [Ids -> {"absent", "partial", "ready"}] /\ UNCHANGED evaluator
  BY DEF TypeOK, CrashHost
<1>2. PICK made \in BOOLEAN :
          workstation' =
              [i \in Ids |->
                   IF workstation[i] = "ready" \/ (made /\ pc = "create" /\ i = cur)
                   THEN "partial" ELSE workstation[i]]
  BY DEF CrashHost
<1> DEFINE hit == {i \in Ids : workstation[i] = "ready" \/ (made /\ pc = "create" /\ i = cur)}
<1>3. /\ hit \in SUBSET Ids
      /\ \A i \in Ids : workstation[i] = "ready" => i \in hit
      /\ \A i, j \in hit : workstation[i] = "absent" /\ workstation[j] = "absent" => i = j
  OBVIOUS
<1>4. workstation' = [i \in Ids |->
          IF i \in hit THEN "partial"
          ELSE IF workstation[i] = "building" THEN "absent" ELSE workstation[i]]
  BY <1>1, <1>2
<1> HIDE DEF hit
<1> QED
  BY <1>1, <1>3, <1>4 DEF Contract!Crash

(* Every step of the runner, and every fault, leaves the VMs alone or does  *)
(* one thing that the contract allows.                                      *)
LEMMA ContractSteps ==
    ASSUME IInv, [Next]_vars
    PROVE  [Contract!Next]_<<workstation, evaluator>>
<1> DEFINE Same == UNCHANGED <<workstation, evaluator>>
<1>1. TypeOK /\ (cur # None => cur \in Ids)
  BY DEF IInv, TypeOK
<1>2. CreateWorkstation \/ CreateBreaksOff => Same \/ (Contract!Build(cur) /\ cur \in Ids)
  BY <1>1, CreateContract DEF CreateWorkstation, CreateBreaksOff, At
<1>3. CreateEvaluator => Contract!Record(cur) /\ cur \in Ids
  BY <1>1 DEF CreateEvaluator, At, Contract!Record
<1>4. DestroyEvaluator => Contract!Forget(cur) /\ cur \in Ids
  BY <1>1 DEF DestroyEvaluator, At, Contract!Forget
<1>5. Reset => Same \/ (Contract!TakeDown(cur) /\ cur \in Ids)
  BY <1>1, StrictResetContract DEF Reset
<1>6. CleanupFailed => \/ Same
                       \/ cur \in Ids /\ (Contract!TakeDown(cur) \/ Contract!Forget(cur))
  BY <1>1, StrictResetContract, AbandonContract DEF CleanupFailed, At
<1>7. CrashHost => Contract!Crash
  BY <1>1, CrashContract
<1>8. StartStorage \/ StartConflict \/ ActivateGateway \/ MarkPrepared \/ PrepareBenchmark
      \/ Compose \/ MarkSubmission \/ ClickSend \/ PersistUserMessageId \/ MarkKnown \/ Generate
      \/ SaveCapture \/ MarkCheckpoint \/ CaptureCandidate \/ MarkCleanup \/ DeleteConversation
      \/ AttachConversation \/ AttachRecovered \/ CompleteStorage \/ UndoFail \/ AbandonFail
      \/ RecordPreRunnerFailure => Same
  BY DEF StartStorage, StartConflict, ActivateGateway, MarkPrepared, PrepareBenchmark,
     Compose, MarkSubmission, ClickSend, PersistUserMessageId, MarkKnown, Generate, SaveCapture,
     MarkCheckpoint, CaptureCandidate, MarkCleanup, DeleteConversation, AttachConversation,
     AttachRecovered, CompleteStorage, UndoFail, AbandonFail, RecordPreRunnerFailure, Store, Mark,
     machines
<1>9. ClearJournal \/ ClearCapture \/ UndoClear \/ AssertResume \/ StepRefused \/ ReconcileJournal
      \/ AbandonRecovery \/ Rest => Same
  BY DEF ClearJournal, ClearCapture, UndoClear, AssertResume, StepRefused, HandleException,
     ReconcileJournal, ReconcileCompleted, ReconcileFailed, ReconcilePreparation,
     ReconcileCheckpoint, ReconcileUndo, ReconcileConversation, ReconcileCandidate,
     AbandonRecovery, Resume, Rest, machines, vars
<1>10. StartAnswerLost \/ ResetBreaksOff \/ RaiseException \/ KillRunner \/ RestartGateway => Same
  BY DEF StartAnswerLost, ResetBreaksOff, RaiseException, KillRunner, RestartGateway,
     HandleException, machines
<1>11. ASSUME NEW t \in Tasks, RunTask(t) \/ StartPreRunnerFailure(t) PROVE Same
  BY <1>11 DEF RunTask, StartPreRunnerFailure, machines
<1>12. UNCHANGED vars => Same
  BY DEF vars, machines
<1> HIDE DEF Same
<1>13. RunnerStep => Same \/ Contract!Next
  BY <1>2, <1>3, <1>4, <1>5, <1>6, <1>8, <1>9 DEF RunnerStep, Contract!Next
<1>14. Fault => Same \/ Contract!Next
  BY <1>2, <1>7, <1>10 DEF Fault, Contract!Next
<1>15. Same \/ Contract!Next
  BY <1>9, <1>11, <1>12, <1>13, <1>14 DEF Next
<1> QED
  BY <1>15 DEF Same

(* KeepsContract: whatever kills, resumes and abandons it, the runner goes  *)
(* on with no broken VM and leaves no evaluator behind a VM it destroyed.   *)
THEOREM ContractKept == Spec => KeepsContract
<1>1. Init => Contract!Init
  BY DEF Init, Contract!Init
<1>2. IInv /\ [Next]_vars => [Contract!Next]_<<workstation, evaluator>>
  BY ContractSteps
<1> QED
  BY <1>1, <1>2, Invariance, PTL DEF Spec, KeepsContract, Contract!Spec, Contract!contractVars
=============================================================================
