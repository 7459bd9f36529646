---------------------------- MODULE Broker_proofs ----------------------------
(***************************************************************************)
(* Theorems about the broker, for any number of attempts, evaluators,      *)
(* waiting creates and faults.                                             *)
(***************************************************************************)
EXTENDS Broker, TLAPS, FiniteSetTheorems, SequenceTheorems

(***************************************************************************)
(* What the instructions that are left may rely on.  A VM is only built    *)
(* last, when nothing before it takes away the directory or the row that   *)
(* it needs; a row is only dropped when its evaluator is gone, or will be. *)
(***************************************************************************)
BuildPrepared(i) ==
    queue[i].do = "build" =>
        /\ i = Len(queue)
        /\ booting[queue[i].vm] < MaxWaiting
        /\ \A t \in Templated : queue[i].vm \in EvaluatorsOf(t) =>
               /\ "directory" \in host[Vm(t)]
               /\ \A j \in 1..(i - 1) : queue[j].do = "tear" => queue[j].vm # Vm(t)
               /\ \A j \in 1..(i - 1) : queue[j].do # "reap"
               /\ i = 1 => queue[i].vm \in index[t]
               /\ i > 1 => queue[i - 1] = WriteRows(t, {queue[i].vm})

Gone(e, i) == host[e] = {} \/ \E j \in 1..(i - 1) : queue[j] = Tear(e)

IndexPrepared(i) ==
    queue[i].do = "index" =>
        /\ queue[i].rows = {} \/ \A j \in (i + 1)..Len(queue) : queue[j].do # "index"
        /\ \A t \in Templated : queue[i].vm = Vm(t) =>
               /\ queue[i].rows \subseteq EvaluatorsOf(t)
               /\ \A e \in index[t] \ queue[i].rows : Gone(e, i)

QueuePrepared == \A i \in 1..Len(queue) : BuildPrepared(i) /\ IndexPrepared(i)

IndexIsOwn == \A t \in Templated : index[t] \subseteq EvaluatorsOf(t)

IInv ==
    /\ BrokerTypeOK /\ ResourcesHaveDirectory /\ RunningIsFenced
    /\ IndexIsOwn /\ QueuePrepared

----------------------------------------------------------------------------
(* Lemmas about the data. *)

LEMMA ResourceNames ==
    Resources = {"directory", "disk", "network", "bridge", "firewall", "domain",
                 "state", "running"}
BY DEF Resources, BuildRank

LEMMA BuildOrder ==
    /\ \A r \in Resources \ {"directory"} : BuildRank["directory"] < BuildRank[r]
    /\ BuildRank["bridge"] < BuildRank["running"]
    /\ BuildRank["firewall"] < BuildRank["running"]
BY ResourceNames DEF BuildRank

LEMMA TearOrder ==
    /\ \A r \in Resources \ {"directory"} : ~(TearRank["directory"] <= TearRank[r])
    /\ \A r \in Resources \ {"running"} : ~(TearRank[r] <= TearRank["running"])
BY ResourceNames DEF TearRank

\* Evaluators are told from the attempts' own VMs, and from each other's.
LEMMA Identities ==
    /\ \A t \in Teachers : Vm(t) \in Vms
    /\ \A t \in Templated : EvaluatorsOf(t) \subseteq Evaluators /\ Vm(t) \in Vms
    /\ Evaluators \subseteq Vms
    /\ \A t, u \in Teachers : Vm(t) = Vm(u) => t = u
    /\ \A t \in Teachers : Vm(t) \notin Evaluators
    /\ \A t, u \in Templated : \A e \in EvaluatorsOf(t) : e \in EvaluatorsOf(u) => t = u
BY BrokerAssumption DEF Vms, Vm, EvaluatorsOf, Evaluators, Teachers

LEMMA NeedsOf ==
    \A v \in Vms :
        /\ Needs(v) \subseteq Resources
        /\ "directory" \in Needs(v)
        /\ v \notin Evaluators => Needs(v) = Resources
BY ResourceNames DEF Needs, NetworkParts

LEMMA ReadableHasDirectory ==
    ASSUME NEW v \in Vms, NEW firewall \in BOOLEAN, Readable(v, firewall)
    PROVE  "directory" \in host[v]
BY NeedsOf DEF Readable

LEMMA EvaluatorsFinite ==
    ASSUME NEW t \in Templated
    PROVE  IsFiniteSet(EvaluatorsOf(t))
<1> DEFINE f == [n \in 1..Retries |-> <<t, n>>]
<1>1. IsFiniteSet(1..Retries)
    BY FS_Interval, BrokerAssumption
<1>2. f \in Surjection(1..Retries, EvaluatorsOf(t))
    BY DEF Surjection, EvaluatorsOf
<1> QED BY <1>1, <1>2, FS_Surjection

\* A sequence of a finite set has its elements.
LEMMA SequenceOfSet ==
    ASSUME NEW S, IsFiniteSet(S)
    PROVE  /\ SetToSeq(S) \in Seq(S)
           /\ \A x \in S : \E i \in 1..Len(SetToSeq(S)) : SetToSeq(S)[i] = x
<1> DEFINE n == Cardinality(S)
<1>1. n \in Nat /\ ExistsBijection(1..n, S)
    BY FS_CardinalityType
<1>2. \E f \in [1..n -> S] : IsInjective(f)
    BY <1>1 DEF ExistsBijection, Bijection, Injection
<1>3. SetToSeq(S) \in [1..n -> S] /\ IsInjective(SetToSeq(S))
    BY <1>2 DEF SetToSeq
<1>4. SetToSeq(S) \in Seq(S) /\ Len(SetToSeq(S)) = n
    BY <1>1, <1>3, SeqDef, LenProperties
<1>5. SetToSeq(S) \in Injection(1..n, S)
    BY <1>3 DEF Injection
<1>6. IsFiniteSet(1..n) /\ Cardinality(1..n) = n
    BY <1>1, FS_Interval
<1>7. SetToSeq(S) \in Surjection(1..n, S)
    BY <1>5, <1>6, FS_Injection
<1> QED BY <1>4, <1>7 DEF Surjection

LEMMA InstructionsTyped ==
    /\ \A v \in Vms : Build(v) \in Instruction /\ Tear(v) \in Instruction
    /\ \A t \in Teachers, rows \in SUBSET Evaluators : WriteRows(t, rows) \in Instruction
    /\ Reap \in Instruction
BY Identities, BrokerAssumption DEF Build, Tear, WriteRows, Reap, Instruction

LEMMA TailOf ==
    ASSUME NEW q \in Seq(Instruction), q # <<>>
    PROVE  /\ Len(q) \in Nat \ {0}
           /\ Head(q) = q[1] /\ q[1] \in Instruction
           /\ Tail(q) \in Seq(Instruction)
           /\ Len(Tail(q)) = Len(q) - 1
           /\ \A i \in 1..Len(Tail(q)) : Tail(q)[i] = q[i + 1]
BY HeadTailProperties, EmptySeq, ElementOfSeq

\* The two last instructions of a sequence.
LEMMA Followed ==
    ASSUME NEW s \in Seq(Instruction), NEW a \in Instruction, NEW b \in Instruction
    PROVE  LET q == s \o <<a, b>>
           IN  /\ q \in Seq(Instruction) /\ Len(s) \in Nat
               /\ Len(q) = Len(s) + 2
               /\ \A i \in 1..Len(s) : q[i] = s[i]
               /\ q[Len(s) + 1] = a /\ q[Len(s) + 2] = b
<1>1. <<a, b>> \in Seq(Instruction) /\ Len(<<a, b>>) = 2
    OBVIOUS
<1>2. Len(s) \in Nat
    BY LenProperties
<1> QED BY <1>1, <1>2, ConcatProperties

\* Abandoning tears every evaluator of the index down before it is emptied.
LEMMA AbandoningIs ==
    ASSUME NEW t \in Templated, index[t] \subseteq EvaluatorsOf(t)
    PROVE  LET q == Abandoning(t)
           IN  /\ q \in Seq(Instruction) /\ Len(q) \in Nat \ {0}
               /\ q[Len(q)] = WriteRows(t, {})
               /\ \A i \in 1..(Len(q) - 1) : \E e \in index[t] : q[i] = Tear(e)
               /\ \A e \in index[t] : \E i \in 1..(Len(q) - 1) : q[i] = Tear(e)
<1> DEFINE S == {Tear(e) : e \in index[t]}
           f == [e \in index[t] |-> Tear(e)]
           tears == SetToSeq(S)
           last == <<WriteRows(t, {})>>
<1>1. IsFiniteSet(index[t])
    BY EvaluatorsFinite, FS_Subset
<1>2. f \in Surjection(index[t], S)
    BY DEF Surjection
<1>3. IsFiniteSet(S)
    BY <1>1, <1>2, FS_Surjection
<1>4. /\ tears \in Seq(S)
      /\ \A x \in S : \E i \in 1..Len(tears) : tears[i] = x
    BY <1>3, SequenceOfSet
<1>5. S \subseteq Instruction
    BY Identities, InstructionsTyped
<1>6. tears \in Seq(Instruction) /\ Len(tears) \in Nat
    <2>1. Len(tears) \in Nat /\ tears \in [1..Len(tears) -> S]
        BY <1>4, LenProperties
    <2>2. tears \in [1..Len(tears) -> Instruction]
        BY <2>1, <1>5
    <2> QED BY <2>1, <2>2, SeqDef
<1>7. last \in Seq(Instruction) /\ Len(last) = 1 /\ last[1] = WriteRows(t, {})
    BY InstructionsTyped DEF Teachers
<1>8. /\ Abandoning(t) = tears \o last
      /\ Abandoning(t) \in Seq(Instruction)
      /\ Len(Abandoning(t)) = Len(tears) + 1
      /\ \A i \in 1..Len(tears) : Abandoning(t)[i] = tears[i]
      /\ Abandoning(t)[Len(tears) + 1] = WriteRows(t, {})
    BY <1>6, <1>7, ConcatProperties DEF Abandoning
<1>9. \A i \in 1..Len(tears) : tears[i] \in S
    BY <1>4, ElementOfSeq
<1>10. Len(Abandoning(t)) - 1 = Len(tears)
    BY <1>6, <1>8
<1>11. ASSUME NEW i \in 1..Len(tears)
       PROVE  \E e \in index[t] : Abandoning(t)[i] = Tear(e)
    BY <1>8, <1>9
<1>12. ASSUME NEW e \in index[t]
       PROVE  \E i \in 1..Len(tears) : Abandoning(t)[i] = Tear(e)
    BY <1>4, <1>8
<1> HIDE DEF tears, S, f, last
<1> QED BY <1>6, <1>8, <1>10, <1>11, <1>12

----------------------------------------------------------------------------
(* Requests: a request is accepted with its instructions prepared. *)

\* A request of one instruction.
LEMMA OneInstruction ==
    ASSUME IInv, NEW x \in Instruction, queue' = <<x>>,
           UNCHANGED <<host, index, booting, brokerFaults>>,
           \/ x.do \in {"tear", "reap"}
           \/ /\ x.do = "build" /\ x.vm \notin Evaluators /\ booting[x.vm] < MaxWaiting
    PROVE  IInv'
<1>1. BrokerTypeOK' /\ ResourcesHaveDirectory' /\ RunningIsFenced' /\ IndexIsOwn'
    BY DEF IInv, BrokerTypeOK, ResourcesHaveDirectory, RunningIsFenced, IndexIsOwn
<1>2. QueuePrepared'
    BY Identities DEF QueuePrepared, BuildPrepared, IndexPrepared
<1> QED BY <1>1, <1>2 DEF IInv

LEMMA CreateAttemptStep ==
    ASSUME IInv, NEW t \in Teachers, CreateAttempt(t)
    PROVE  IInv'
BY Identities, InstructionsTyped, OneInstruction
DEF CreateAttempt, Accept, Build

LEMMA DestroySteps ==
    ASSUME IInv, NEW t \in Teachers, DestroyAttempt(t) \/ AbandonAttempt(t)
    PROVE  IInv'
BY Identities, InstructionsTyped, OneInstruction
DEF DestroyAttempt, AbandonAttempt, Accept, Tear

LEMMA DestroyAllStep ==
    ASSUME IInv, DestroyAll
    PROVE  IInv'
BY InstructionsTyped, OneInstruction DEF DestroyAll, Accept, Reap

\* A queue that tears the index of t down, or starts from none.
AbandonedFirst(q, t) ==
    /\ q \in Seq(Instruction) /\ Len(q) \in Nat
    /\ \A i \in 1..Len(q) :
           \/ q[i].do = "tear" /\ q[i].vm \in Evaluators
           \/ q[i] = WriteRows(t, {})
    /\ \A e \in index[t] : \E i \in 1..Len(q) : q[i] = Tear(e)
    /\ \A i \in 1..Len(q) : q[i].do = "index" =>
           \A e \in index[t] : \E j \in 1..(i - 1) : q[j] = Tear(e)

LEMMA AbandoningFirst ==
    ASSUME IInv, NEW t \in Templated
    PROVE  /\ AbandonedFirst(Abandoning(t), t)
           /\ index[t] = {} => AbandonedFirst(<<>>, t)
<1> DEFINE q == Abandoning(t)
<1>1. index[t] \subseteq EvaluatorsOf(t)
    BY DEF IInv, IndexIsOwn
<1>2. /\ q \in Seq(Instruction) /\ Len(q) \in Nat \ {0}
      /\ q[Len(q)] = WriteRows(t, {})
      /\ \A i \in 1..(Len(q) - 1) : \E e \in index[t] : q[i] = Tear(e)
      /\ \A e \in index[t] : \E i \in 1..(Len(q) - 1) : q[i] = Tear(e)
    BY <1>1, AbandoningIs
<1> HIDE DEF q
<1>3. \A i \in 1..(Len(q) - 1) : q[i].do = "tear" /\ q[i].vm \in Evaluators
    <2> TAKE i \in 1..(Len(q) - 1)
    <2>1. PICK e \in index[t] : q[i] = Tear(e)
        BY <1>2
    <2>2. e \in Evaluators
        BY <1>1, Identities
    <2> QED BY <2>1, <2>2 DEF Tear
<1>4. \A i \in 1..Len(q) : q[i].do = "index" => i = Len(q)
    BY <1>2, <1>3
<1>5. AbandonedFirst(q, t)
    <2>1. \A i \in 1..Len(q) : i = Len(q) \/ i \in 1..(Len(q) - 1)
        BY <1>2
    <2>2. \A i \in 1..(Len(q) - 1) : i \in 1..Len(q)
        BY <1>2
    <2> QED BY <1>2, <1>3, <1>4, <2>1, <2>2 DEF AbandonedFirst
<1>6. index[t] = {} => AbandonedFirst(<<>>, t)
    BY EmptySeq DEF AbandonedFirst
<1> QED BY <1>5, <1>6 DEF q

LEMMA AbandonEvaluatorsStep ==
    ASSUME IInv, NEW t \in Templated, AbandonEvaluators(t)
    PROVE  IInv'
<1>1. queue' = Abandoning(t) /\ UNCHANGED <<host, index, booting, brokerFaults>>
    BY DEF AbandonEvaluators, Accept
<1>2. AbandonedFirst(queue', t)
    BY <1>1, AbandoningFirst
<1>3. BrokerTypeOK' /\ ResourcesHaveDirectory' /\ RunningIsFenced' /\ IndexIsOwn'
    BY <1>1, <1>2 DEF IInv, BrokerTypeOK, ResourcesHaveDirectory, RunningIsFenced,
                      IndexIsOwn, AbandonedFirst
<1>4. \A i \in 1..Len(queue') : queue'[i].do # "build"
    BY <1>2 DEF AbandonedFirst, WriteRows
<1>5. ASSUME NEW i \in 1..Len(queue'), queue'[i].do = "index"
      PROVE  IndexPrepared(i)'
    <2>1. queue'[i] = WriteRows(t, {})
        BY <1>2, <1>5 DEF AbandonedFirst
    <2>2. \A u \in Templated : Vm(t) = Vm(u) => u = t
        BY Identities DEF Teachers
    <2>3. \A e \in index[t] : \E j \in 1..(i - 1) : queue'[j] = Tear(e)
        BY <1>2, <1>5 DEF AbandonedFirst
    <2> QED BY <1>1, <2>1, <2>2, <2>3 DEF IndexPrepared, Gone, WriteRows
<1>6. QueuePrepared'
    BY <1>4, <1>5 DEF QueuePrepared, BuildPrepared, IndexPrepared
<1> QED BY <1>3, <1>6 DEF IInv

LEMMA CreateEvaluatorStep ==
    ASSUME IInv, NEW t \in Templated, NEW stale \in BOOLEAN, CreateEvaluator(t, stale)
    PROVE  IInv'
<1>1. PICK e \in EvaluatorsOf(t) :
          /\ booting[e] = 0
          /\ queue' = (IF index[t] = {} THEN <<>> ELSE Abandoning(t))
                          \o <<WriteRows(t, {e}), Build(e)>>
    BY DEF CreateEvaluator, Accept
<1>2. UNCHANGED <<host, index, booting, brokerFaults>> /\ Readable(Vm(t), TRUE)
    BY DEF CreateEvaluator
<1>3. PICK q : AbandonedFirst(q, t) /\ queue' = q \o <<WriteRows(t, {e}), Build(e)>>
    BY <1>1, AbandoningFirst
<1>4. t \in Teachers /\ e \in Evaluators /\ e \in Vms /\ Vm(t) \in Vms
    BY Identities DEF Teachers
<1>5. /\ queue' \in Seq(Instruction) /\ Len(q) \in Nat
      /\ Len(queue') = Len(q) + 2
      /\ \A i \in 1..Len(q) : queue'[i] = q[i]
      /\ queue'[Len(q) + 1] = WriteRows(t, {e})
      /\ queue'[Len(q) + 2] = Build(e)
    BY <1>3, <1>4, InstructionsTyped, Followed DEF AbandonedFirst
<1>6. BrokerTypeOK' /\ ResourcesHaveDirectory' /\ RunningIsFenced' /\ IndexIsOwn'
    BY <1>2, <1>5 DEF IInv, BrokerTypeOK, ResourcesHaveDirectory, RunningIsFenced,
                      IndexIsOwn
<1>7. "directory" \in host[Vm(t)]
    BY <1>2, <1>4, ReadableHasDirectory
<1>8. \A u \in Templated : (Vm(t) = Vm(u) => u = t) /\ (e \in EvaluatorsOf(u) => u = t)
    BY <1>4, Identities DEF Teachers
<1>9. \A i \in 1..Len(q) :
          /\ queue'[i].do = "tear" => queue'[i].vm \in Evaluators
          /\ queue'[i].do \in {"tear", "index"}
          /\ queue'[i].do = "index" => queue'[i] = WriteRows(t, {})
    <2> TAKE i \in 1..Len(q)
    <2>1. queue'[i] = q[i]
        BY <1>5
    <2>2. (q[i].do = "tear" /\ q[i].vm \in Evaluators) \/ q[i] = WriteRows(t, {})
        BY <1>3 DEF AbandonedFirst
    <2> QED BY <2>1, <2>2 DEF WriteRows
<1>10. ASSUME NEW i \in 1..Len(queue'), queue'[i].do = "build"
       PROVE  BuildPrepared(i)'
    <2>1. i = Len(q) + 2
        BY <1>5, <1>9, <1>10 DEF WriteRows
    <2>2. \A j \in 1..(i - 1) : queue'[j].do = "tear" => queue'[j].vm # Vm(t)
        BY <1>4, <1>5, <1>9, <2>1, Identities DEF WriteRows
    <2>3. \A j \in 1..(i - 1) : queue'[j].do # "reap"
        BY <1>5, <1>9, <2>1 DEF WriteRows
    <2>4. queue'[i].vm = e /\ queue'[i - 1] = WriteRows(t, {e}) /\ i > 1
        BY <1>5, <2>1 DEF Build
    <2>5. booting'[e] < MaxWaiting
        BY <1>1, <1>2, BrokerAssumption
    <2>6. ASSUME NEW u \in Templated, e \in EvaluatorsOf(u)
          PROVE  /\ "directory" \in host'[Vm(u)]
                 /\ \A j \in 1..(i - 1) : queue'[j].do = "tear" => queue'[j].vm # Vm(u)
                 /\ queue'[i - 1] = WriteRows(u, {e})
        <3>1. u = t
            BY <1>8, <2>6
        <3> QED BY <1>2, <1>7, <2>2, <2>4, <3>1
    <2>7. i = Len(queue') /\ i # 1
        BY <1>5, <2>1
    <2> QED BY <2>3, <2>4, <2>5, <2>6, <2>7 DEF BuildPrepared
<1>11. ASSUME NEW i \in 1..Len(queue'), queue'[i].do = "index"
       PROVE  IndexPrepared(i)'
    <2>1. CASE i \in 1..Len(q)
        <3>1. queue'[i] = WriteRows(t, {})
            BY <1>9, <1>11, <2>1
        <3>2. \A f \in index[t] : \E j \in 1..(i - 1) : q[j] = Tear(f)
            BY <1>3, <1>5, <1>11, <2>1 DEF AbandonedFirst
        <3>3. \A f \in index[t] : \E j \in 1..(i - 1) : queue'[j] = Tear(f)
            BY <1>5, <2>1, <3>2
        <3> QED BY <1>2, <1>8, <3>1, <3>3 DEF IndexPrepared, Gone, WriteRows
    <2>2. CASE i = Len(q) + 1
        <3>1. \A j \in (i + 1)..Len(queue') : queue'[j].do # "index"
            BY <1>5, <2>2 DEF Build
        <3>2. \A f \in index[t] : \E j \in 1..(i - 1) : queue'[j] = Tear(f)
            BY <1>3, <1>5, <2>2 DEF AbandonedFirst
        <3> QED BY <1>2, <1>5, <1>8, <2>2, <3>1, <3>2 DEF IndexPrepared, Gone, WriteRows
    <2> QED BY <1>5, <1>11, <2>1, <2>2 DEF Build
<1>12. QueuePrepared'
    BY <1>10, <1>11 DEF QueuePrepared, BuildPrepared, IndexPrepared
<1> QED BY <1>6, <1>12 DEF IInv

\* The index without e, once e is torn down.
LEMMA DestroyEvaluatorStep ==
    ASSUME IInv, NEW t \in Templated, NEW e \in EvaluatorsOf(t), DestroyEvaluator(t, e)
    PROVE  IInv'
<1>1. /\ queue' = <<Tear(e), WriteRows(t, index[t] \ {e})>>
      /\ UNCHANGED <<host, index, booting, brokerFaults>>
    BY DEF DestroyEvaluator, Accept
<1>2. t \in Teachers /\ e \in Vms /\ index[t] \subseteq EvaluatorsOf(t)
    BY Identities DEF Teachers, IInv, IndexIsOwn
<1>3. index[t] \ {e} \in SUBSET Evaluators
    BY <1>2, Identities
<1>4. Tear(e) \in Instruction /\ WriteRows(t, index[t] \ {e}) \in Instruction
    BY <1>2, <1>3, InstructionsTyped
<1>5. /\ queue' \in Seq(Instruction) /\ Len(queue') = 2
      /\ queue'[1] = Tear(e) /\ queue'[2] = WriteRows(t, index[t] \ {e})
    BY <1>1, <1>4
<1>6. BrokerTypeOK' /\ ResourcesHaveDirectory' /\ RunningIsFenced' /\ IndexIsOwn'
    BY <1>1, <1>5 DEF IInv, BrokerTypeOK, ResourcesHaveDirectory, RunningIsFenced,
                      IndexIsOwn
<1>7. \A u \in Templated : Vm(t) = Vm(u) => u = t
    BY <1>2, Identities DEF Teachers
<1>8. IndexPrepared(2)'
    <2>1. \A f \in index[t] \ queue'[2].rows : Gone(f, 2)'
        BY <1>1, <1>5 DEF Gone, WriteRows
    <2> QED BY <1>1, <1>2, <1>5, <1>7, <2>1 DEF IndexPrepared, WriteRows
<1>9. QueuePrepared'
    BY <1>5, <1>8 DEF QueuePrepared, BuildPrepared, IndexPrepared, Tear, WriteRows
<1> QED BY <1>6, <1>9 DEF IInv

----------------------------------------------------------------------------
(* Steps of a request. *)

\* What the head of the queue allows the rest to rely on.
LEMMA HeadOf ==
    ASSUME IInv, queue # <<>>
    PROVE  /\ Head(queue) = queue[1] /\ queue[1] \in Instruction
           /\ queue[1].vm \in Vms
           /\ 1 \in 1..Len(queue) /\ Len(queue) \in Nat \ {0}
           /\ BuildPrepared(1) /\ IndexPrepared(1)
           /\ Tail(queue) \in Seq(Instruction)
           /\ Len(Tail(queue)) = Len(queue) - 1
           /\ \A i \in 1..Len(Tail(queue)) :
                  Tail(queue)[i] = queue[i + 1] /\ i + 1 \in 1..Len(queue)
<1>1. queue \in Seq(Instruction)
    BY DEF IInv, BrokerTypeOK
<1>2. /\ Len(queue) \in Nat \ {0}
      /\ Head(queue) = queue[1] /\ queue[1] \in Instruction
      /\ Tail(queue) \in Seq(Instruction)
      /\ Len(Tail(queue)) = Len(queue) - 1
      /\ \A i \in 1..Len(Tail(queue)) : Tail(queue)[i] = queue[i + 1]
    BY <1>1, TailOf
<1>3. /\ 1 \in 1..Len(queue)
      /\ \A i \in 1..Len(Tail(queue)) : i + 1 \in 1..Len(queue)
    BY <1>2
<1>4. queue[1].vm \in Vms
    BY <1>2 DEF Instruction
<1>5. BuildPrepared(1) /\ IndexPrepared(1)
    BY <1>3 DEF IInv, QueuePrepared
<1> QED BY <1>2, <1>3, <1>4, <1>5

\* An empty queue, or one that tears down, relies on nothing.
LEMMA ShortQueue ==
    ASSUME queue' = <<>> \/ \E v \in Vms : queue' = <<Tear(v)>>
    PROVE  queue' \in Seq(Instruction) /\ QueuePrepared'
<1>1. CASE queue' = <<>>
    BY <1>1, EmptySeq DEF QueuePrepared
<1>2. CASE \E v \in Vms : queue' = <<Tear(v)>>
    <2>1. PICK v \in Vms : queue' = <<Tear(v)>>
        BY <1>2
    <2>2. Tear(v) \in Instruction
        BY InstructionsTyped
    <2>3. queue' \in Seq(Instruction) /\ Len(queue') = 1 /\ queue'[1] = Tear(v)
        BY <2>1, <2>2
    <2> QED BY <2>3 DEF QueuePrepared, BuildPrepared, IndexPrepared, Tear
<1> QED BY <1>1, <1>2

LEMMA BuildStepStep ==
    ASSUME IInv, BuildStep
    PROVE  IInv'
<1> DEFINE v == queue[1].vm
<1>1. PICK r \in Resources :
          /\ queue # <<>> /\ Head(queue).do = "build"
          /\ NextToBuild(Head(queue).vm, r)
          /\ host' = [host EXCEPT ![Head(queue).vm] = @ \union {r}]
          /\ UNCHANGED <<index, queue, booting, brokerFaults>>
    BY DEF BuildStep, Executing
<1>2. Head(queue).vm = v /\ v \in Vms /\ queue[1].do = "build" /\ Len(queue) = 1
    BY <1>1, HeadOf DEF BuildPrepared
<1> HIDE DEF v
<1>3. /\ host \in [Vms -> SUBSET Resources] /\ host' \in [Vms -> SUBSET Resources]
      /\ host'[v] = host[v] \union {r}
      /\ \A w \in Vms \ {v} : host'[w] = host[w]
    BY <1>1, <1>2 DEF IInv, BrokerTypeOK
<1>4. BrokerTypeOK' /\ IndexIsOwn'
    BY <1>1, <1>3 DEF IInv, BrokerTypeOK, IndexIsOwn
<1>5. ResourcesHaveDirectory'
    <2>1. r # "directory" => "directory" \in host[v]
        BY <1>1, <1>2, BuildOrder, NeedsOf DEF NextToBuild
    <2> QED BY <1>3, <2>1 DEF IInv, ResourcesHaveDirectory
<1>6. RunningIsFenced'
    <2>1. v \notin Evaluators /\ r = "running" => {"bridge", "firewall"} \subseteq host[v]
        BY <1>1, <1>2, BuildOrder, NeedsOf, ResourceNames DEF NextToBuild
    <2> QED BY <1>3, <2>1 DEF IInv, RunningIsFenced
<1>7. \A t \in Templated : "directory" \in host[Vm(t)] => "directory" \in host'[Vm(t)]
    BY <1>3, Identities
<1>8. BuildPrepared(1)
    BY <1>1, HeadOf
<1>9. BuildPrepared(1)' /\ IndexPrepared(1)'
    BY <1>1, <1>2, <1>7, <1>8 DEF BuildPrepared, IndexPrepared
<1> QED BY <1>1, <1>2, <1>4, <1>5, <1>6, <1>9 DEF IInv, QueuePrepared

LEMMA BuildDoneStep ==
    ASSUME IInv, BuildDone
    PROVE  IInv'
<1> DEFINE v == queue[1].vm
<1>1. /\ queue # <<>> /\ queue[1].do = "build" /\ v \in Vms
      /\ booting[v] < MaxWaiting /\ Len(queue') = 0 /\ queue' \in Seq(Instruction)
      /\ booting' = [booting EXCEPT ![v] = @ + 1]
      /\ UNCHANGED <<host, index, brokerFaults>>
    BY HeadOf DEF BuildDone, Executing, BuildPrepared
<1> HIDE DEF v
<1>2. booting' \in [Vms -> 0..MaxWaiting]
    BY <1>1, BrokerAssumption DEF IInv, BrokerTypeOK
<1>3. QueuePrepared'
    BY <1>1 DEF QueuePrepared
<1> QED
    BY <1>1, <1>2, <1>3
    DEF IInv, BrokerTypeOK, ResourcesHaveDirectory, RunningIsFenced, IndexIsOwn

LEMMA TearStepStep ==
    ASSUME IInv, TearStep
    PROVE  IInv'
<1> DEFINE v == queue[1].vm
<1>1. PICK r \in Resources :
          /\ queue # <<>> /\ Head(queue).do = "tear"
          /\ NextToTear(Head(queue).vm, r)
          /\ host' = [host EXCEPT ![Head(queue).vm] = @ \ {r}]
          /\ index' = [t \in Templated |->
                          IF Head(queue).vm = Vm(t) /\ r = "directory" THEN {} ELSE index[t]]
          /\ UNCHANGED <<queue, booting, brokerFaults>>
    BY DEF TearStep, Executing
<1>2. Head(queue).vm = v /\ v \in Vms /\ queue[1].do = "tear"
    BY <1>1, HeadOf
<1> HIDE DEF v
<1>3. /\ host \in [Vms -> SUBSET Resources] /\ host' \in [Vms -> SUBSET Resources]
      /\ host'[v] = host[v] \ {r}
      /\ \A w \in Vms \ {v} : host'[w] = host[w]
      /\ \A w \in Vms : host'[w] \subseteq host[w]
    BY <1>1, <1>2 DEF IInv, BrokerTypeOK
<1>4. \A t \in Templated : index'[t] \subseteq index[t] /\ index'[t] \in SUBSET Evaluators
    BY <1>1 DEF IInv, BrokerTypeOK
<1>5. BrokerTypeOK' /\ IndexIsOwn'
    BY <1>1, <1>3, <1>4 DEF IInv, BrokerTypeOK, IndexIsOwn
<1>6. ResourcesHaveDirectory'
    <2>1. r = "directory" => host[v] \subseteq {"directory"}
        BY <1>1, <1>2, <1>3, TearOrder DEF NextToTear
    <2> QED BY <1>3, <2>1 DEF IInv, ResourcesHaveDirectory
<1>7. RunningIsFenced'
    <2>1. "running" \in host[v] => r = "running"
        BY <1>1, <1>2, <1>3, TearOrder DEF NextToTear
    <2> QED BY <1>3, <2>1 DEF IInv, RunningIsFenced
<1>8. ASSUME NEW i \in 1..Len(queue), BuildPrepared(i)
      PROVE  BuildPrepared(i)'
    <2> SUFFICES ASSUME queue[i].do = "build"
                 PROVE  BuildPrepared(i)'
        BY <1>1 DEF BuildPrepared
    <2>1. i # 1 /\ i \in Nat /\ 1 \in 1..(i - 1)
        BY <1>1, <1>2, HeadOf
    <2>2. ASSUME NEW t \in Templated, queue[i].vm \in EvaluatorsOf(t)
          PROVE  "directory" \in host'[Vm(t)]
        <3>1. Vm(t) # v /\ "directory" \in host[Vm(t)]
            BY <1>2, <1>8, <2>1, <2>2 DEF BuildPrepared, v
        <3> QED BY <1>3, <3>1, Identities
    <2> QED BY <1>1, <1>8, <2>1, <2>2 DEF BuildPrepared
<1>9. ASSUME NEW i \in 1..Len(queue), IndexPrepared(i)
      PROVE  IndexPrepared(i)'
    <2> SUFFICES ASSUME queue[i].do = "index"
                 PROVE  IndexPrepared(i)'
        BY <1>1 DEF IndexPrepared
    <2>1. ASSUME NEW t \in Templated, queue[i].vm = Vm(t),
                 NEW e \in index'[t] \ queue[i].rows
          PROVE  Gone(e, i)'
        <3>1. Gone(e, i) /\ e \in Vms
            BY <1>4, <1>9, <2>1, Identities DEF IndexPrepared
        <3> QED BY <1>1, <1>3, <3>1 DEF Gone
    <2> QED BY <1>1, <1>9, <2>1 DEF IndexPrepared
<1>10. QueuePrepared'
    BY <1>1, <1>8, <1>9 DEF IInv, QueuePrepared
<1> QED BY <1>5, <1>6, <1>7, <1>10 DEF IInv

LEMMA TearDoneStep ==
    ASSUME IInv, TearDone
    PROVE  IInv'
<1>1. /\ queue # <<>> /\ queue[1].do = "tear" /\ host[queue[1].vm] = {}
      /\ queue' = Tail(queue)
      /\ UNCHANGED <<host, index, booting, brokerFaults>>
    BY HeadOf DEF TearDone, Executing
<1>2. /\ Len(queue) \in Nat \ {0}
      /\ queue' \in Seq(Instruction) /\ Len(queue') = Len(queue) - 1
      /\ \A i \in 1..Len(queue') : queue'[i] = queue[i + 1] /\ i + 1 \in 1..Len(queue)
    BY <1>1, HeadOf
<1>3. ASSUME NEW i \in 1..Len(queue')
      PROVE  BuildPrepared(i)' /\ IndexPrepared(i)'
    <2>1. BuildPrepared(i + 1) /\ IndexPrepared(i + 1) /\ i \in Nat \ {0}
        BY <1>2 DEF IInv, QueuePrepared
    <2>2. \A j \in 1..(i - 1) : queue'[j] = queue[j + 1] /\ j + 1 \in 1..((i + 1) - 1)
        BY <1>2
    <2>3. BuildPrepared(i)'
        <3> SUFFICES ASSUME queue[i + 1].do = "build"
                     PROVE  BuildPrepared(i)'
            BY <1>2 DEF BuildPrepared
        <3>1. i + 1 = Len(queue)
            BY <2>1 DEF BuildPrepared
        <3>2. ASSUME NEW t \in Templated, queue[i + 1].vm \in EvaluatorsOf(t)
              PROVE  i > 1 /\ queue'[i - 1] = WriteRows(t, {queue[i + 1].vm})
            <4>1. queue[i] = WriteRows(t, {queue[i + 1].vm})
                <5>1. (i + 1) - 1 = i /\ i + 1 > 1
                    BY <2>1
                <5>2. queue[(i + 1) - 1] = WriteRows(t, {queue[i + 1].vm})
                    BY <2>1, <3>2, <5>1 DEF BuildPrepared
                <5> QED BY <5>1, <5>2
            <4>2. i # 1
                BY <1>1, <4>1 DEF WriteRows
            <4> QED BY <1>2, <2>1, <4>1, <4>2
        <3>3. /\ i = Len(queue') /\ queue'[i] = queue[i + 1]
              /\ booting'[queue[i + 1].vm] < MaxWaiting
            <4>1. booting[queue[i + 1].vm] < MaxWaiting
                BY <2>1 DEF BuildPrepared
            <4>2. i = Len(queue')
                BY <1>2, <2>1, <3>1
            <4> QED BY <1>1, <1>2, <4>1, <4>2
        <3>4. ASSUME NEW t \in Templated, queue[i + 1].vm \in EvaluatorsOf(t)
              PROVE  /\ "directory" \in host'[Vm(t)]
                     /\ \A j \in 1..(i - 1) : queue'[j].do = "tear" => queue'[j].vm # Vm(t)
                     /\ \A j \in 1..(i - 1) : queue'[j].do # "reap"
            <4>1. /\ "directory" \in host[Vm(t)]
                  /\ \A j \in 1..((i + 1) - 1) : queue[j].do = "tear" => queue[j].vm # Vm(t)
                  /\ \A j \in 1..((i + 1) - 1) : queue[j].do # "reap"
                BY <2>1, <3>4 DEF BuildPrepared
            <4> QED BY <1>1, <2>2, <4>1
        <3>5. ASSUME NEW t \in Templated, queue'[i].vm \in EvaluatorsOf(t)
              PROVE  /\ i > 1 /\ queue'[i - 1] = WriteRows(t, {queue'[i].vm})
                     /\ "directory" \in host'[Vm(t)]
                     /\ \A j \in 1..(i - 1) : queue'[j].do = "tear" => queue'[j].vm # Vm(t)
                     /\ \A j \in 1..(i - 1) : queue'[j].do # "reap"
            BY <3>2, <3>3, <3>4, <3>5
        <3>6. \A t \in Templated : queue'[i].vm \in EvaluatorsOf(t) => i # 1
            BY <2>1, <3>5
        <3> QED BY <3>3, <3>5, <3>6 DEF BuildPrepared
    <2>4. IndexPrepared(i)'
        <3> SUFFICES ASSUME queue[i + 1].do = "index"
                     PROVE  IndexPrepared(i)'
            BY <1>2 DEF IndexPrepared
        <3>1. ASSUME NEW e, Gone(e, i + 1)
              PROVE  Gone(e, i)'
            <4>1. CASE queue[1] = Tear(e)
                BY <1>1, <4>1 DEF Gone, Tear
            <4>2. ASSUME NEW j \in 1..((i + 1) - 1), queue[j] = Tear(e), j # 1
                  PROVE  Gone(e, i)'
                <5>1. j - 1 \in 1..(i - 1) /\ queue'[j - 1] = queue[j]
                    BY <1>2, <2>1, <4>2
                <5> QED BY <4>2, <5>1 DEF Gone, Tear
            <4> QED BY <1>1, <3>1, <4>1, <4>2 DEF Gone
        <3>2. \A j \in (i + 1)..Len(queue') :
                  queue'[j] = queue[j + 1] /\ j + 1 \in ((i + 1) + 1)..Len(queue)
            BY <1>2, <2>1
        <3>3. queue[i + 1].rows = {} \/ \A j \in (i + 1)..Len(queue') : queue'[j].do # "index"
            BY <2>1, <3>2 DEF IndexPrepared
        <3> QED BY <1>1, <1>2, <2>1, <3>1, <3>3 DEF IndexPrepared
    <2> QED BY <2>3, <2>4
<1> QED
    BY <1>1, <1>2, <1>3
    DEF IInv, BrokerTypeOK, ResourcesHaveDirectory, RunningIsFenced, IndexIsOwn, QueuePrepared

LEMMA WriteIndexStep ==
    ASSUME IInv, WriteIndex
    PROVE  IInv'
<1> DEFINE rows == queue[1].rows
           written(t) == queue[1].vm = Vm(t) /\ "directory" \in host[Vm(t)]
<1>1. /\ queue # <<>> /\ queue[1].do = "index"
      /\ queue' = Tail(queue)
      /\ index' = [t \in Templated |-> IF written(t) THEN rows ELSE index[t]]
      /\ UNCHANGED <<host, booting, brokerFaults>>
    BY HeadOf DEF WriteIndex, Executing
<1>2. /\ Len(queue) \in Nat \ {0}
      /\ queue' \in Seq(Instruction) /\ Len(queue') = Len(queue) - 1
      /\ \A i \in 1..Len(queue') : queue'[i] = queue[i + 1] /\ i + 1 \in 1..Len(queue)
      /\ rows \in SUBSET Evaluators
      /\ IndexPrepared(1)
    BY <1>1, HeadOf DEF Instruction
<1>3. \A t \in Templated : written(t) => rows \subseteq EvaluatorsOf(t)
    BY <1>1, <1>2 DEF IndexPrepared
<1> HIDE DEF rows, written
<1>4. \A t \in Templated : index'[t] = IF written(t) THEN rows ELSE index[t]
    BY <1>1
<1>5. index' \in [Templated -> SUBSET Evaluators] /\ IndexIsOwn'
    BY <1>1, <1>2, <1>3 DEF IInv, BrokerTypeOK, IndexIsOwn
<1>6. ASSUME NEW i \in 1..Len(queue')
      PROVE  BuildPrepared(i)' /\ IndexPrepared(i)'
    <2>1. /\ BuildPrepared(i + 1) /\ IndexPrepared(i + 1) /\ i \in Nat \ {0}
          /\ (i + 1) - 1 = i /\ i + 1 > 1
        BY <1>2 DEF IInv, QueuePrepared
    <2>2. \A j \in 1..(i - 1) : queue'[j] = queue[j + 1] /\ j + 1 \in 1..((i + 1) - 1)
        BY <1>2
    <2>3. BuildPrepared(i)'
        <3> SUFFICES ASSUME queue[i + 1].do = "build"
                     PROVE  BuildPrepared(i)'
            BY <1>2 DEF BuildPrepared
        <3>1. i + 1 = Len(queue) /\ booting[queue[i + 1].vm] < MaxWaiting
            BY <2>1 DEF BuildPrepared
        <3>2. i = Len(queue') /\ booting'[queue'[i].vm] < MaxWaiting
            BY <1>1, <1>2, <2>1, <3>1
        <3>3. ASSUME NEW t \in Templated, queue[i + 1].vm \in EvaluatorsOf(t)
              PROVE  /\ "directory" \in host'[Vm(t)]
                     /\ \A j \in 1..(i - 1) : queue'[j].do = "tear" => queue'[j].vm # Vm(t)
                     /\ \A j \in 1..(i - 1) : queue'[j].do # "reap"
                     /\ i = 1 => queue[i + 1].vm \in index'[t]
                     /\ i > 1 => queue'[i - 1] = WriteRows(t, {queue[i + 1].vm})
            <4>1. /\ "directory" \in host[Vm(t)]
                  /\ \A j \in 1..((i + 1) - 1) : queue[j].do = "tear" => queue[j].vm # Vm(t)
                  /\ \A j \in 1..((i + 1) - 1) : queue[j].do # "reap"
                  /\ queue[(i + 1) - 1] = WriteRows(t, {queue[i + 1].vm})
                BY <2>1, <3>3 DEF BuildPrepared
            <4>2. queue[i] = WriteRows(t, {queue[i + 1].vm})
                BY <2>1, <4>1
            <4>3. ASSUME i = 1 PROVE queue[i + 1].vm \in index'[t]
                <5>1. written(t) /\ rows = {queue[i + 1].vm}
                    BY <4>1, <4>2, <4>3 DEF written, rows, WriteRows
                <5> QED BY <1>4, <5>1
            <4>4. ASSUME i > 1 PROVE queue'[i - 1] = queue[i]
                BY <1>2, <2>1, <4>4
            <4> QED BY <1>1, <2>2, <4>1, <4>2, <4>3, <4>4
        <3>4. queue'[i] = queue[i + 1] /\ i \in Nat
            BY <1>2, <2>1
        <3> QED BY <3>2, <3>3, <3>4 DEF BuildPrepared
    <2>4. IndexPrepared(i)'
        <3> SUFFICES ASSUME queue[i + 1].do = "index"
                     PROVE  IndexPrepared(i)'
            BY <1>2 DEF IndexPrepared
        <3>1. rows = {}
            BY <1>1, <1>2, <2>1 DEF IndexPrepared, rows
        <3>2. ASSUME NEW e, Gone(e, i + 1)
              PROVE  Gone(e, i)'
            <4>1. ASSUME NEW j \in 1..((i + 1) - 1), queue[j] = Tear(e)
                  PROVE  Gone(e, i)'
                <5>1. j # 1
                    BY <1>1, <4>1 DEF Tear
                <5>2. j - 1 \in 1..(i - 1) /\ queue'[j - 1] = queue[j]
                    BY <1>2, <2>1, <4>1, <5>1
                <5> QED BY <4>1, <5>2 DEF Gone, Tear
            <4> QED BY <1>1, <3>2, <4>1 DEF Gone
        <3>3. \A j \in (i + 1)..Len(queue') :
                  queue'[j] = queue[j + 1] /\ j + 1 \in ((i + 1) + 1)..Len(queue)
            BY <1>2, <2>1
        <3>4. queue[i + 1].rows = {} \/ \A j \in (i + 1)..Len(queue') : queue'[j].do # "index"
            BY <2>1, <3>3 DEF IndexPrepared
        <3>5. ASSUME NEW t \in Templated, queue[i + 1].vm = Vm(t)
              PROVE  /\ queue[i + 1].rows \subseteq EvaluatorsOf(t)
                     /\ \A e \in index'[t] \ queue[i + 1].rows : Gone(e, i)'
            <4>1. /\ queue[i + 1].rows \subseteq EvaluatorsOf(t)
                  /\ \A e \in index[t] \ queue[i + 1].rows : Gone(e, i + 1)
                BY <2>1, <3>5 DEF IndexPrepared
            <4>2. index'[t] \subseteq index[t]
                BY <1>4, <3>1
            <4> QED BY <3>2, <4>1, <4>2
        <3>6. queue'[i] = queue[i + 1]
            BY <1>2
        <3> QED BY <3>4, <3>5, <3>6 DEF IndexPrepared
    <2> QED BY <2>3, <2>4
<1> QED
    BY <1>1, <1>2, <1>5, <1>6
    DEF IInv, BrokerTypeOK, ResourcesHaveDirectory, RunningIsFenced, QueuePrepared

\* A queue under a reap holds no build of an evaluator.
LEMMA ReapNextStep ==
    ASSUME IInv, ReapNext
    PROVE  IInv'
<1>1. PICK v \in Vms :
          /\ queue # <<>> /\ Head(queue).do = "reap"
          /\ queue' = <<>> \/ queue' = <<Tear(v)>> \o queue
          /\ UNCHANGED <<host, index, booting, brokerFaults>>
    BY DEF ReapNext, Executing
<1>2. queue' \in Seq(Instruction) /\ QueuePrepared'
    <2>1. CASE queue' = <<>>
        BY <2>1, ShortQueue
    <2>2. CASE queue' = <<Tear(v)>> \o queue
        <3>1. /\ queue \in Seq(Instruction) /\ Len(queue) \in Nat \ {0}
              /\ queue[1].do = "reap" /\ 1 \in 1..Len(queue)
            BY <1>1, HeadOf DEF IInv, BrokerTypeOK
        <3>2. <<Tear(v)>> \in Seq(Instruction) /\ Len(<<Tear(v)>>) = 1
            BY InstructionsTyped
        <3>3. /\ queue' \in Seq(Instruction) /\ Len(queue') = Len(queue) + 1
              /\ queue'[1] = Tear(v)
              /\ \A i \in 1..Len(queue) : queue'[i + 1] = queue[i]
            BY <2>2, <3>1, <3>2, ConcatProperties
        <3>4. ASSUME NEW i \in 1..Len(queue)
              PROVE  BuildPrepared(i + 1)' /\ IndexPrepared(i + 1)'
            <4>1. /\ BuildPrepared(i) /\ IndexPrepared(i) /\ i \in Nat \ {0}
                  /\ (i + 1) - 1 = i /\ queue'[i + 1] = queue[i]
                BY <3>1, <3>3 DEF IInv, QueuePrepared
            <4>2. BuildPrepared(i + 1)'
                <5> SUFFICES ASSUME queue[i].do = "build"
                             PROVE  BuildPrepared(i + 1)'
                    BY <4>1 DEF BuildPrepared
                <5>1. i # 1 /\ 1 \in 1..(i - 1)
                    BY <3>1, <4>1
                <5>2. \A t \in Templated : queue[i].vm \notin EvaluatorsOf(t)
                    BY <3>1, <4>1, <5>1 DEF BuildPrepared
                <5>3. i + 1 = Len(queue') /\ booting'[queue[i].vm] < MaxWaiting
                    BY <1>1, <3>3, <4>1 DEF BuildPrepared
                <5> QED BY <4>1, <5>2, <5>3 DEF BuildPrepared
            <4>3. IndexPrepared(i + 1)'
                <5> SUFFICES ASSUME queue[i].do = "index"
                             PROVE  IndexPrepared(i + 1)'
                    BY <4>1 DEF IndexPrepared
                <5>1. ASSUME NEW e, Gone(e, i)
                      PROVE  Gone(e, i + 1)'
                    <6>1. ASSUME NEW j \in 1..(i - 1), queue[j] = Tear(e)
                          PROVE  j + 1 \in 1..((i + 1) - 1) /\ queue'[j + 1] = Tear(e)
                        <7>1. j \in Nat /\ j \in 1..Len(queue) /\ j + 1 \in 1..((i + 1) - 1)
                            BY <3>1, <4>1
                        <7> QED BY <3>3, <6>1, <7>1
                    <6> QED BY <1>1, <5>1, <6>1 DEF Gone, Tear
                <5>2. \A j \in ((i + 1) + 1)..Len(queue') :
                          j - 1 \in (i + 1)..Len(queue) /\ queue'[j] = queue[j - 1]
                    <6> TAKE j \in ((i + 1) + 1)..Len(queue')
                    <6>1. j - 1 \in 1..Len(queue) /\ (j - 1) + 1 = j
                        BY <3>1, <3>3, <4>1
                    <6>2. j - 1 \in (i + 1)..Len(queue)
                        BY <3>1, <3>3, <4>1
                    <6> QED BY <3>3, <6>1, <6>2
                <5>3. \/ queue[i].rows = {}
                      \/ \A j \in ((i + 1) + 1)..Len(queue') : queue'[j].do # "index"
                    BY <4>1, <5>2 DEF IndexPrepared
                <5>4. \A t \in Templated : queue[i].vm = Vm(t) =>
                          /\ queue[i].rows \subseteq EvaluatorsOf(t)
                          /\ \A e \in index'[t] \ queue[i].rows : Gone(e, i + 1)'
                    BY <1>1, <4>1, <5>1 DEF IndexPrepared
                <5> QED BY <4>1, <5>3, <5>4 DEF IndexPrepared
            <4> QED BY <4>2, <4>3
        <3>5. BuildPrepared(1)' /\ IndexPrepared(1)'
            BY <3>3 DEF BuildPrepared, IndexPrepared, Tear
        <3>6. ASSUME NEW k \in 1..Len(queue')
              PROVE  k = 1 \/ (k - 1 \in 1..Len(queue) /\ k = (k - 1) + 1)
            BY <3>1, <3>3
        <3>7. \A k \in 1..Len(queue') : BuildPrepared(k)' /\ IndexPrepared(k)'
            BY <3>4, <3>5, <3>6
        <3> QED BY <3>3, <3>7 DEF QueuePrepared
    <2> QED BY <1>1, <2>1, <2>2
<1> QED
    BY <1>1, <1>2
    DEF IInv, BrokerTypeOK, ResourcesHaveDirectory, RunningIsFenced, IndexIsOwn

\* Steps that leave an empty queue or one that tears down, and take at most
\* what a crash takes.
LEMMA QueueDropped ==
    ASSUME IInv, queue' = <<>> \/ \E v \in Vms : queue' = <<Tear(v)>>,
           brokerFaults' \in 0..MaxBrokerFaults, booting' \in [Vms -> 0..MaxWaiting],
           UNCHANGED index,
           \/ UNCHANGED host
           \/ \E taken \in {Volatile, {"running"}} :
                 \/ host' = [v \in Vms |-> host[v] \ taken]
                 \/ \E v \in Vms : taken = {"running"} /\ host' = [host EXCEPT ![v] = @ \ taken]
    PROVE  IInv'
<1>1. queue' \in Seq(Instruction) /\ QueuePrepared'
    BY ShortQueue
<1>2. \/ UNCHANGED host
      \/ \A v \in Vms : host'[v] \in {host[v], host[v] \ Volatile, host[v] \ {"running"}}
    BY DEF IInv, BrokerTypeOK
<1>3. host' \in [Vms -> SUBSET Resources]
    BY DEF IInv, BrokerTypeOK
<1>4. ResourcesHaveDirectory'
    BY <1>2 DEF IInv, ResourcesHaveDirectory, Volatile
<1>5. RunningIsFenced'
    BY <1>2 DEF IInv, RunningIsFenced, Volatile
<1> QED
    BY <1>1, <1>3, <1>4, <1>5 DEF IInv, BrokerTypeOK, IndexIsOwn

LEMMA BootSteps ==
    ASSUME IInv, NEW v \in Vms, BootReady(v) \/ BootTimeout(v)
    PROVE  IInv'
<1>1. booting' \in [Vms -> 0..MaxWaiting]
    <2>1. booting[v] > 0 /\ booting' = [booting EXCEPT ![v] = @ - 1]
        BY DEF BootReady, BootTimeout
    <2>2. booting \in [Vms -> 0..MaxWaiting] /\ booting[v] \in 0..MaxWaiting
        BY DEF IInv, BrokerTypeOK
    <2>3. booting[v] - 1 \in 0..MaxWaiting
        BY <2>1, <2>2, BrokerAssumption
    <2> QED BY <2>1, <2>2, <2>3
<1>2. queue' = <<>> \/ queue' = <<Tear(v)>>
    BY DEF BootReady, BootTimeout
<1>3. brokerFaults' \in 0..MaxBrokerFaults /\ UNCHANGED <<host, index>>
    BY DEF IInv, BrokerTypeOK, BootReady, BootTimeout
<1> QED BY <1>1, <1>2, <1>3, QueueDropped

LEMMA FaultSteps ==
    ASSUME IInv, BrokerFaultsNext
    PROVE  IInv'
<1>1. brokerFaults' \in 0..MaxBrokerFaults
    BY BrokerAssumption
    DEF IInv, BrokerTypeOK, BrokerFaultsNext, CommandFails, BrokerKill, HostCrash,
        GuestStops, Fault
<1>2. CASE CommandFails
    <2>1. queue # <<>> /\ Head(queue).vm \in Vms
        BY <1>2, HeadOf DEF CommandFails
    <2> QED
        BY <1>1, <1>2, <2>1, QueueDropped DEF CommandFails, IInv, BrokerTypeOK
<1>3. CASE BrokerKill
    BY <1>1, <1>3, BrokerAssumption, QueueDropped DEF BrokerKill
<1>4. CASE HostCrash
    BY <1>1, <1>4, BrokerAssumption, QueueDropped DEF HostCrash
<1>5. CASE \E v \in Vms : GuestStops(v)
    BY <1>1, <1>5, QueueDropped DEF GuestStops, IInv, BrokerTypeOK
<1> QED BY <1>2, <1>3, <1>4, <1>5 DEF BrokerFaultsNext

LEMMA ReapDoneStep ==
    ASSUME IInv, ReapDone
    PROVE  IInv'
BY QueueDropped DEF ReapDone, IInv, BrokerTypeOK

----------------------------------------------------------------------------
(* Theorems. *)

THEOREM Preserved ==
    ASSUME IInv, [BrokerNext]_brokerVars
    PROVE  IInv'
<1>1. CASE Requests
    <2>1. ASSUME NEW t \in Templated, NEW stale \in BOOLEAN, CreateEvaluator(t, stale)
          PROVE  IInv'
        BY <2>1, CreateEvaluatorStep
    <2>2. ASSUME NEW t \in Templated, NEW e \in EvaluatorsOf(t), DestroyEvaluator(t, e)
          PROVE  IInv'
        BY <2>2, DestroyEvaluatorStep
    <2> QED
        BY <1>1, <2>1, <2>2, CreateAttemptStep, DestroySteps, AbandonEvaluatorsStep,
           DestroyAllStep
        DEF Requests
<1>2. CASE Steps
    BY <1>2, BuildStepStep, BuildDoneStep, TearStepStep, TearDoneStep, WriteIndexStep,
       ReapNextStep, ReapDoneStep
    DEF Steps
<1>3. CASE Boots
    BY <1>3, BootSteps DEF Boots
<1>4. CASE BrokerFaultsNext
    BY <1>4, FaultSteps
<1>5. CASE UNCHANGED brokerVars
    <2>1. UNCHANGED <<host, index, queue, booting, brokerFaults>>
        BY <1>5 DEF brokerVars
    <2>2. QueuePrepared'
        <3>1. \A i \in 1..Len(queue) : BuildPrepared(i) /\ IndexPrepared(i)
            BY DEF IInv, QueuePrepared
        <3>2. \A i : BuildPrepared(i) => BuildPrepared(i)'
            BY <2>1 DEF BuildPrepared
        <3>3. \A i : IndexPrepared(i) => IndexPrepared(i)'
            BY <2>1 DEF IndexPrepared, Gone
        <3> QED BY <2>1, <3>1, <3>2, <3>3 DEF QueuePrepared
    <2> QED
        BY <2>1, <2>2
        DEF IInv, BrokerTypeOK, ResourcesHaveDirectory, RunningIsFenced, IndexIsOwn
<1> QED BY <1>1, <1>2, <1>3, <1>4, <1>5 DEF BrokerNext

THEOREM Initially ==
    ASSUME BrokerInit
    PROVE  IInv
BY BrokerAssumption, EmptySeq
DEF BrokerInit, IInv, BrokerTypeOK, ResourcesHaveDirectory, RunningIsFenced, IndexIsOwn,
    QueuePrepared

\* The inductive invariant holds in every state the broker reaches.
THEOREM Inductive == BrokerSpec => []IInv
<1>1. BrokerInit => IInv
    BY Initially
<1>2. IInv /\ [BrokerNext]_brokerVars => IInv'
    BY Preserved
<1> QED BY <1>1, <1>2, PTL DEF BrokerSpec

\* Whatever requests, failures, kills and crashes there were, what exists of
\* a VM is found by its directory, and no guest with a network runs without
\* its firewall.
THEOREM Safe == BrokerSpec => []BrokerSafe
<1>1. IInv => BrokerSafe
    BY DEF IInv, BrokerSafe
<1> QED BY <1>1, Inductive, PTL

\* Every evaluator is in the index of its attempt before anything of it is
\* built, until nothing of it is left or the whole attempt is gone.
THEOREM Indexed == BrokerSpec => EvaluatorsAreIndexed
<1> DEFINE Held(t, e) ==
               /\ host[e] = {} /\ host'[e] # {} => e \in index[t]
               /\ e \in index[t] /\ e \notin index'[t] =>
                      host'[e] = {} \/ "directory" \notin host'[Vm(t)]
<1>1. ASSUME IInv, [BrokerNext]_brokerVars,
             NEW t \in Templated, NEW e \in EvaluatorsOf(t)
      PROVE  Held(t, e)
    <2>1. e \in Vms /\ Vm(t) \in Vms /\ host \in [Vms -> SUBSET Resources]
        BY <1>1, Identities DEF IInv, BrokerTypeOK
    <2>2. CASE BuildStep
        <3>1. queue[1].vm \in Vms /\ queue # <<>> /\ Head(queue) = queue[1]
              /\ queue[1].do = "build" /\ BuildPrepared(1) /\ UNCHANGED index
            BY <1>1, <2>2, HeadOf DEF BuildStep, Executing
        <3>2. queue[1].vm # e => host'[e] = host[e]
            BY <2>1, <2>2, <3>1 DEF BuildStep
        <3>3. queue[1].vm = e => e \in index[t]
            BY <3>1 DEF BuildPrepared
        <3> QED BY <3>1, <3>2, <3>3
    <2>3. CASE TearStep
        <3>1. PICK r \in Resources :
                  /\ NextToTear(Head(queue).vm, r)
                  /\ host' = [host EXCEPT ![Head(queue).vm] = @ \ {r}]
                  /\ index' = [u \in Templated |->
                        IF Head(queue).vm = Vm(u) /\ r = "directory" THEN {} ELSE index[u]]
            BY <2>3 DEF TearStep
        <3>2. host'[e] \subseteq host[e]
            BY <2>1, <3>1
        <3>3. index'[t] # index[t] => "directory" \notin host'[Vm(t)]
            BY <2>1, <3>1
        <3> QED BY <3>2, <3>3
    <2>4. CASE WriteIndex
        <3>1. /\ queue # <<>> /\ Head(queue) = queue[1] /\ queue[1].do = "index"
              /\ IndexPrepared(1) /\ UNCHANGED host
            BY <1>1, <2>4, HeadOf DEF WriteIndex, Executing
        <3>2. index'[t] # index[t] => queue[1].vm = Vm(t) /\ index'[t] = queue[1].rows
            BY <1>1, <2>4, <3>1 DEF WriteIndex, IInv, BrokerTypeOK
        <3>3. e \in index[t] /\ e \notin index'[t] => host[e] = {}
            BY <3>1, <3>2 DEF IndexPrepared, Gone
        <3> QED BY <3>1, <3>3
    <2>5. CASE BrokerFaultsNext
        <3>1. host'[e] \subseteq host[e] /\ UNCHANGED index
            BY <2>1, <2>5
            DEF BrokerFaultsNext, CommandFails, BrokerKill, HostCrash, GuestStops
        <3> QED BY <3>1
    <2>6. CASE UNCHANGED <<host, index>>
        BY <2>6
    <2> QED
        BY <1>1, <2>2, <2>3, <2>4, <2>5, <2>6
        DEF BrokerNext, Requests, Steps, Boots, BuildDone, TearDone, ReapNext, ReapDone,
            BootReady, BootTimeout, CreateAttempt, CreateEvaluator, DestroyAttempt,
            AbandonAttempt, AbandonEvaluators, DestroyEvaluator, DestroyAll, brokerVars
<1>2. IInv /\ [BrokerNext]_brokerVars =>
          [\A t \in Templated : \A e \in EvaluatorsOf(t) : Held(t, e)]_brokerVars
    BY <1>1
<1> QED BY <1>2, Inductive, PTL DEF BrokerSpec, EvaluatorsAreIndexed

----------------------------------------------------------------------------
(* The broker keeps the contract: what the instructions that are left may  *)
(* rely on about an attempt's own VM.                                      *)

\* Nothing before instruction i takes anything of the VM of t.
KeptUntil(t, i) ==
    \A j \in 1..(i - 1) :
        queue[j].do # "reap" /\ (queue[j].do = "tear" => queue[j].vm # Vm(t))

RowsPrepared(i) ==
    queue[i].do = "index" /\ queue[i].rows # {} =>
        \A t \in Templated :
            queue[i].vm = Vm(t) => Readable(Vm(t), TRUE) /\ KeptUntil(t, i)

\* The VM of an attempt is the first thing its request builds.
OwnBuildFirst(i) == queue[i].do = "build" /\ i > 1 => queue[i].vm \in Evaluators

RowsInv == \A i \in 1..Len(queue) : RowsPrepared(i) /\ OwnBuildFirst(i)

\* Resources that are there make a VM no less readable.
LEMMA ReadableGrows ==
    ASSUME NEW v \in Vms, host[v] \intersect (Resources \ {"running"}) \subseteq host'[v],
           NEW firewall \in BOOLEAN, Readable(v, firewall)
    PROVE  Readable(v, firewall)'
BY NeedsOf, ResourceNames DEF Readable, Needs

\* The rest of a queue relies on what the whole one did.
LEMMA RowsOfTail ==
    ASSUME IInv, RowsInv, queue # <<>>, queue' = Tail(queue), UNCHANGED host
    PROVE  RowsInv'
<1>1. /\ Len(queue) \in Nat \ {0} /\ Len(queue') = Len(queue) - 1
      /\ \A i \in 1..Len(queue') : queue'[i] = queue[i + 1] /\ i + 1 \in 1..Len(queue)
    BY HeadOf
<1>2. ASSUME NEW i \in 1..Len(queue')
      PROVE  RowsPrepared(i)' /\ OwnBuildFirst(i)'
    <2>1. RowsPrepared(i + 1) /\ OwnBuildFirst(i + 1) /\ i \in Nat \ {0}
        BY <1>1 DEF RowsInv
    <2>2. \A j \in 1..(i - 1) : queue'[j] = queue[j + 1] /\ j + 1 \in 1..((i + 1) - 1)
        BY <1>1
    <2>3. \A t \in Templated : KeptUntil(t, i + 1) => KeptUntil(t, i)'
        BY <2>2 DEF KeptUntil
    <2>4. \A t \in Templated : Readable(Vm(t), TRUE) => Readable(Vm(t), TRUE)'
        BY DEF Readable
    <2>5. RowsPrepared(i)'
        BY <1>1, <2>1, <2>3, <2>4 DEF RowsPrepared
    <2>6. OwnBuildFirst(i)'
        BY <1>1, <2>1 DEF OwnBuildFirst
    <2> QED BY <2>5, <2>6
<1> QED BY <1>2 DEF RowsInv

\* A queue of nothing, or of one instruction that writes no row.
LEMMA RowsOfShort ==
    ASSUME queue' = <<>> \/ \E x \in Instruction : x.do # "index" /\ queue' = <<x>>
    PROVE  RowsInv'
<1>1. CASE queue' = <<>>
    BY <1>1, EmptySeq DEF RowsInv
<1>2. CASE \E x \in Instruction : x.do # "index" /\ queue' = <<x>>
    <2>1. Len(queue') = 1 /\ queue'[1].do # "index"
        BY <1>2
    <2>2. RowsPrepared(1)'
        BY <2>1 DEF RowsPrepared
    <2>3. OwnBuildFirst(1)'
        BY DEF OwnBuildFirst
    <2> QED BY <2>1, <2>2, <2>3 DEF RowsInv
<1> QED BY <1>1, <1>2

LEMMA RowsOfCreateEvaluator ==
    ASSUME IInv, NEW t \in Templated, NEW stale \in BOOLEAN, CreateEvaluator(t, stale)
    PROVE  RowsInv'
<1>1. PICK e \in EvaluatorsOf(t) :
          queue' = (IF index[t] = {} THEN <<>> ELSE Abandoning(t))
                       \o <<WriteRows(t, {e}), Build(e)>>
    BY DEF CreateEvaluator, Accept
<1>2. PICK q : AbandonedFirst(q, t) /\ queue' = q \o <<WriteRows(t, {e}), Build(e)>>
    BY <1>1, AbandoningFirst
<1>3. t \in Teachers /\ e \in Evaluators /\ e \in Vms /\ Vm(t) \notin Evaluators
    BY Identities DEF Teachers
<1>4. /\ Len(q) \in Nat /\ Len(queue') = Len(q) + 2
      /\ \A i \in 1..Len(q) : queue'[i] = q[i]
      /\ queue'[Len(q) + 1] = WriteRows(t, {e})
      /\ queue'[Len(q) + 2] = Build(e)
    BY <1>2, <1>3, InstructionsTyped, Followed DEF AbandonedFirst
<1>5. \A i \in 1..Len(q) :
          \/ queue'[i].do = "tear" /\ queue'[i].vm \in Evaluators
          \/ queue'[i].do = "index" /\ queue'[i].rows = {}
    BY <1>2, <1>4 DEF AbandonedFirst, WriteRows
<1>6. Readable(Vm(t), TRUE)'
    BY DEF CreateEvaluator, Readable
<1>7. KeptUntil(t, Len(q) + 1)'
    BY <1>3, <1>4, <1>5 DEF KeptUntil
<1>8. \A u \in Templated : Vm(t) = Vm(u) => u = t
    BY <1>3, Identities DEF Teachers
<1>9. RowsPrepared(Len(q) + 1)' /\ OwnBuildFirst(Len(q) + 1)'
    <2>1. \A u \in Templated :
              Vm(t) = Vm(u) => Readable(Vm(u), TRUE)' /\ KeptUntil(u, Len(q) + 1)'
        BY <1>6, <1>7, <1>8
    <2>2. queue'[Len(q) + 1].vm = Vm(t)
        BY <1>4 DEF WriteRows
    <2>3. RowsPrepared(Len(q) + 1)'
        BY <2>1, <2>2 DEF RowsPrepared
    <2>4. OwnBuildFirst(Len(q) + 1)'
        BY <1>4 DEF OwnBuildFirst, WriteRows
    <2> QED BY <2>3, <2>4
<1>10. RowsPrepared(Len(q) + 2)' /\ OwnBuildFirst(Len(q) + 2)'
    BY <1>3, <1>4 DEF RowsPrepared, OwnBuildFirst, Build
<1>11. \A i \in 1..Len(q) : RowsPrepared(i)' /\ OwnBuildFirst(i)'
    BY <1>5 DEF RowsPrepared, OwnBuildFirst
<1>12. \A i \in 1..Len(queue') : i \in 1..Len(q) \/ i = Len(q) + 1 \/ i = Len(q) + 2
    BY <1>4
<1> QED BY <1>9, <1>10, <1>11, <1>12 DEF RowsInv

LEMMA RowsOfDestroyEvaluator ==
    ASSUME IInv, NEW t \in Templated, NEW e \in EvaluatorsOf(t), DestroyEvaluator(t, e)
    PROVE  RowsInv'
<1>1. /\ queue' = <<Tear(e), WriteRows(t, index[t] \ {e})>>
      /\ UNCHANGED host /\ Readable(Vm(t), TRUE)
    BY DEF DestroyEvaluator, Accept
<1>2. t \in Teachers /\ e \in Evaluators /\ Vm(t) \notin Evaluators
    BY Identities DEF Teachers
<1>3. \A u \in Templated : Vm(t) = Vm(u) => u = t
    BY <1>2, Identities DEF Teachers
<1>4. /\ Len(queue') = 2 /\ queue'[1] = Tear(e)
      /\ queue'[2] = WriteRows(t, index[t] \ {e})
    BY <1>1
<1>5. KeptUntil(t, 2)' /\ Readable(Vm(t), TRUE)'
    BY <1>1, <1>2, <1>4 DEF KeptUntil, Tear, Readable
<1>6. RowsPrepared(1)' /\ OwnBuildFirst(1)'
    BY <1>4 DEF RowsPrepared, OwnBuildFirst, Tear
<1>7. RowsPrepared(2)' /\ OwnBuildFirst(2)'
    <2>1. \A u \in Templated : Vm(t) = Vm(u) => Readable(Vm(u), TRUE)' /\ KeptUntil(u, 2)'
        BY <1>3, <1>5
    <2>2. queue'[2].vm = Vm(t)
        BY <1>4 DEF WriteRows
    <2>3. RowsPrepared(2)'
        BY <2>1, <2>2 DEF RowsPrepared
    <2>4. OwnBuildFirst(2)'
        BY <1>4 DEF OwnBuildFirst, WriteRows
    <2> QED BY <2>3, <2>4
<1> QED BY <1>4, <1>6, <1>7 DEF RowsInv

LEMMA RowsOfAbandon ==
    ASSUME IInv, NEW t \in Templated, AbandonEvaluators(t)
    PROVE  RowsInv'
<1>1. AbandonedFirst(queue', t)
    BY AbandoningFirst DEF AbandonEvaluators, Accept, AbandonedFirst
<1>2. \A i \in 1..Len(queue') :
          queue'[i].do \in {"tear", "index"} /\ (queue'[i].do = "index" => queue'[i].rows = {})
    BY <1>1 DEF AbandonedFirst, WriteRows
<1> QED BY <1>2 DEF RowsInv, RowsPrepared, OwnBuildFirst

\* Building adds to a VM, and what takes from one is before no row of it.
LEMMA RowsOfResources ==
    ASSUME IInv, RowsInv, BuildStep \/ TearStep
    PROVE  RowsInv'
<1> DEFINE v == queue[1].vm
<1>1. /\ queue # <<>> /\ UNCHANGED queue /\ v \in Vms /\ Head(queue) = queue[1]
      /\ queue[1].do \in {"build", "tear"}
      /\ Len(queue) \in Nat
    BY HeadOf DEF BuildStep, TearStep, Executing
<1>2. /\ \A w \in Vms \ {v} : host'[w] = host[w]
      /\ queue[1].do = "build" => host[v] \subseteq host'[v]
    <2>1. host \in [Vms -> SUBSET Resources]
        BY DEF IInv, BrokerTypeOK
    <2>2. CASE BuildStep
        BY <1>1, <2>1, <2>2 DEF BuildStep
    <2>3. CASE TearStep
        BY <1>1, <2>1, <2>3 DEF TearStep, Executing
    <2> QED BY <2>2, <2>3
<1>3. ASSUME NEW i \in 1..Len(queue), NEW t \in Templated,
             Readable(Vm(t), TRUE), KeptUntil(t, i), i # 1
      PROVE  Readable(Vm(t), TRUE)'
    <2>1. Vm(t) \in Vms
        BY Identities
    <2>2. queue[1].do = "tear" => v # Vm(t)
        <3>1. 1 \in 1..(i - 1)
            BY <1>1, <1>3
        <3> QED BY <1>3, <3>1 DEF KeptUntil
    <2>3. host[Vm(t)] \subseteq host'[Vm(t)]
        BY <1>1, <1>2, <2>1, <2>2
    <2> QED BY <1>3, <2>1, <2>3, ReadableGrows
<1> HIDE DEF v
<1>4. ASSUME NEW i \in 1..Len(queue)
      PROVE  RowsPrepared(i)' /\ OwnBuildFirst(i)'
    <2>1. RowsPrepared(i) /\ OwnBuildFirst(i)
        BY DEF RowsInv
    <2>2. \A t \in Templated : KeptUntil(t, i) => KeptUntil(t, i)'
        BY <1>1 DEF KeptUntil
    <2>3. queue[i].do = "index" => i # 1
        BY <1>1
    <2> QED BY <1>1, <1>3, <2>1, <2>2, <2>3 DEF RowsPrepared, OwnBuildFirst
<1> QED BY <1>1, <1>4 DEF RowsInv

LEMMA RowsOfReap ==
    ASSUME IInv, RowsInv, ReapNext
    PROVE  RowsInv'
<1>1. PICK v \in Vms :
          /\ queue # <<>> /\ Head(queue).do = "reap"
          /\ queue' = <<>> \/ queue' = <<Tear(v)>> \o queue
          /\ UNCHANGED host
    BY DEF ReapNext, Executing
<1>2. CASE queue' = <<>>
    BY <1>2, RowsOfShort
<1>3. CASE queue' = <<Tear(v)>> \o queue
    <2>1. /\ queue \in Seq(Instruction) /\ Len(queue) \in Nat \ {0}
          /\ queue[1].do = "reap" /\ 1 \in 1..Len(queue)
        BY <1>1, HeadOf DEF IInv, BrokerTypeOK
    <2>2. <<Tear(v)>> \in Seq(Instruction) /\ Len(<<Tear(v)>>) = 1
        BY InstructionsTyped
    <2>3. /\ Len(queue') = Len(queue) + 1 /\ queue'[1] = Tear(v)
          /\ \A i \in 1..Len(queue) : queue'[i + 1] = queue[i]
        BY <1>3, <2>1, <2>2, ConcatProperties
    <2>4. ASSUME NEW i \in 1..Len(queue)
          PROVE  RowsPrepared(i + 1)' /\ OwnBuildFirst(i + 1)'
        <3>1. RowsPrepared(i) /\ OwnBuildFirst(i) /\ queue'[i + 1] = queue[i] /\ i \in Nat \ {0}
            BY <2>1, <2>3 DEF RowsInv
        <3>2. i # 1 => \A t \in Templated : ~KeptUntil(t, i)
            <4>1. i # 1 => 1 \in 1..(i - 1)
                BY <3>1
            <4> QED BY <2>1, <4>1 DEF KeptUntil
        <3>3. \A t \in Templated :
                  ~(queue[i].do = "index" /\ queue[i].rows # {} /\ queue[i].vm = Vm(t))
            BY <2>1, <3>1, <3>2 DEF RowsPrepared
        <3>4. queue[i].do = "build" => queue[i].vm \in Evaluators
            BY <2>1, <3>1 DEF OwnBuildFirst
        <3> QED BY <3>1, <3>3, <3>4 DEF RowsPrepared, OwnBuildFirst
    <2>5. RowsPrepared(1)' /\ OwnBuildFirst(1)'
        BY <2>3 DEF RowsPrepared, OwnBuildFirst, Tear
    <2>6. ASSUME NEW k \in 1..Len(queue')
          PROVE  k = 1 \/ (k - 1 \in 1..Len(queue) /\ k = (k - 1) + 1)
        BY <2>1, <2>3
    <2>7. \A k \in 1..Len(queue') : RowsPrepared(k)' /\ OwnBuildFirst(k)'
        BY <2>4, <2>5, <2>6
    <2> QED BY <2>7 DEF RowsInv
<1> QED BY <1>1, <1>2, <1>3

\* A wait that ends and a fault leave nothing to do, or one destroy.
LEMMA RowsOfBreaks ==
    ASSUME IInv, Boots \/ BrokerFaultsNext \/ ReapDone
    PROVE  RowsInv'
<1>1. queue' = <<>> \/ \E v \in Vms : queue' = <<Tear(v)>>
    <2>1. queue # <<>> => Head(queue).vm \in Vms
        BY HeadOf
    <2> QED
        BY <2>1
        DEF Boots, BootReady, BootTimeout, BrokerFaultsNext, CommandFails, BrokerKill,
            HostCrash, GuestStops, ReapDone
<1>2. \A v \in Vms : Tear(v) \in Instruction /\ Tear(v).do # "index"
    BY InstructionsTyped DEF Tear
<1> QED BY <1>1, <1>2, RowsOfShort

LEMMA RowsPreserved ==
    ASSUME IInv, RowsInv, [BrokerNext]_brokerVars
    PROVE  RowsInv'
<1>1. CASE Requests
    <2>1. ASSUME NEW t \in Templated, NEW stale \in BOOLEAN, CreateEvaluator(t, stale)
          PROVE  RowsInv'
        BY <2>1, RowsOfCreateEvaluator
    <2>2. ASSUME NEW t \in Templated, NEW e \in EvaluatorsOf(t), DestroyEvaluator(t, e)
          PROVE  RowsInv'
        BY <2>2, RowsOfDestroyEvaluator
    <2>3. ASSUME NEW t \in Teachers, CreateAttempt(t) \/ DestroyAttempt(t) \/ AbandonAttempt(t)
          PROVE  RowsInv'
        <3>1. queue' = <<Build(Vm(t))>> \/ queue' = <<Tear(Vm(t))>>
            BY <2>3 DEF CreateAttempt, DestroyAttempt, AbandonAttempt, Accept
        <3>2. /\ Build(Vm(t)) \in Instruction /\ Build(Vm(t)).do # "index"
              /\ Tear(Vm(t)) \in Instruction /\ Tear(Vm(t)).do # "index"
            BY Identities, InstructionsTyped DEF Build, Tear
        <3> QED BY <3>1, <3>2, RowsOfShort
    <2>4. CASE DestroyAll
        <3>1. queue' = <<Reap>> /\ Reap \in Instruction /\ Reap.do # "index"
            BY <2>4, InstructionsTyped DEF DestroyAll, Accept, Reap
        <3> QED BY <3>1, RowsOfShort
    <2>5. ASSUME NEW t \in Templated, AbandonEvaluators(t)
          PROVE  RowsInv'
        BY <2>5, RowsOfAbandon
    <2> QED BY <1>1, <2>1, <2>2, <2>3, <2>4, <2>5 DEF Requests
<1>2. CASE BuildDone \/ TearDone \/ WriteIndex
    BY <1>2, RowsOfTail DEF BuildDone, TearDone, WriteIndex, Executing
<1>3. CASE BuildStep \/ TearStep
    BY <1>3, RowsOfResources
<1>4. CASE ReapNext
    BY <1>4, RowsOfReap
<1>5. CASE Boots \/ BrokerFaultsNext \/ ReapDone
    BY <1>5, RowsOfBreaks
<1>6. CASE UNCHANGED brokerVars
    <2>1. UNCHANGED <<host, queue>>
        BY <1>6 DEF brokerVars
    <2>2. \A i : RowsPrepared(i) /\ OwnBuildFirst(i) => RowsPrepared(i)' /\ OwnBuildFirst(i)'
        BY <2>1 DEF RowsPrepared, OwnBuildFirst, KeptUntil, Readable
    <2> QED BY <2>1, <2>2 DEF RowsInv
<1> QED BY <1>1, <1>2, <1>3, <1>4, <1>5, <1>6 DEF BrokerNext, Steps

----------------------------------------------------------------------------
(* The broker's steps are steps of the contract. *)

Building(t) == Executing("build") /\ Head(queue).vm = Vm(t)

machines == [t \in Teachers |-> MachineOf(t)]
recorded == [t \in Teachers |-> t \in Templated /\ index[t] # {}]

\* Only one VM is built at a time, and of what is not built the resources tell.
LEMMA MachineIs ==
    ASSUME NEW t \in Teachers
    PROVE  /\ MachineOf(t) \in {"absent", "building", "partial", "ready"}
           /\ MachineOf(t) = "building" <=> Building(t)
           /\ MachineOf(t) = "absent" <=> ~Building(t) /\ host[Vm(t)] = {}
           /\ MachineOf(t) = "ready" <=>
                  ~Building(t) /\ host[Vm(t)] # {} /\ Readable(Vm(t), TRUE)
           /\ \A u \in Teachers : Building(t) /\ Building(u) => u = t
<1>1. \A u \in Teachers : Building(t) /\ Building(u) => u = t
    BY Identities DEF Building
<1> QED BY <1>1 DEF MachineOf, Building

LEMMA MachineKept ==
    ASSUME NEW t \in Teachers, Building(t)' <=> Building(t),
           \/ host'[Vm(t)] = host[Vm(t)]
           \/ Building(t)
           \/ /\ (host[Vm(t)] = {} <=> host'[Vm(t)] = {})
              /\ (Readable(Vm(t), TRUE) <=> Readable(Vm(t), TRUE)')
    PROVE  MachineOf(t)' = MachineOf(t)
<1>1. host'[Vm(t)] = host[Vm(t)] => (Readable(Vm(t), TRUE) <=> Readable(Vm(t), TRUE)')
    BY DEF Readable
<1> QED BY <1>1 DEF MachineOf, Building

LEMMA OneMoves ==
    ASSUME NEW t \in Teachers, \A u \in Teachers \ {t} : MachineOf(u)' = MachineOf(u)
    PROVE  machines' = [machines EXCEPT ![t] = MachineOf(t)']
BY DEF machines

LEMMA NothingMoves ==
    ASSUME \A t \in Teachers : MachineOf(t)' = MachineOf(t), UNCHANGED index
    PROVE  UNCHANGED <<machines, recorded>>
BY DEF machines, recorded

LEMMA CreateAttemptContract ==
    ASSUME IInv, NEW t \in Teachers, CreateAttempt(t)
    PROVE  BrokerContract!Begin(t)
<1>1. /\ {"directory", "domain"} \intersect host[Vm(t)] = {}
      /\ queue = <<>> /\ queue' = <<Build(Vm(t))>> /\ UNCHANGED <<host, index>>
    BY DEF CreateAttempt, Accept
<1>2. host[Vm(t)] = {}
    BY <1>1, Identities DEF IInv, ResourcesHaveDirectory
<1>3. \A u \in Teachers : ~Building(u)
    BY <1>1 DEF Building, Executing
<1>4. \A u \in Teachers : Building(u)' <=> u = t
    BY <1>1, Identities DEF Building, Executing, Build
<1>5. MachineOf(t) = "absent" /\ MachineOf(t)' = "building"
    BY <1>2, <1>3, <1>4 DEF MachineOf, Building
<1>6. \A u \in Teachers \ {t} : MachineOf(u)' = MachineOf(u)
    BY <1>1, <1>3, <1>4, MachineKept
<1>7. machines' = [machines EXCEPT ![t] = "building"] /\ machines[t] = "absent"
    BY <1>5, <1>6, OneMoves DEF machines
<1>8. recorded' = recorded
    BY <1>1 DEF recorded
<1> QED BY <1>7, <1>8 DEF machines, recorded, BrokerContract!Begin

\* A step after which no attempt's VM is being built ends a build, however
\* far it got, or changes nothing.
LEMMA BuildEnds ==
    ASSUME UNCHANGED <<host, index>>, \A t \in Teachers : ~Building(t)'
    PROVE  \/ UNCHANGED <<machines, recorded>>
           \/ \E t \in Teachers : BrokerContract!Build(t)
<1>1. CASE \A t \in Teachers : ~Building(t)
    BY <1>1, MachineKept, NothingMoves
<1>2. ASSUME NEW t \in Teachers, Building(t)
      PROVE  BrokerContract!Build(t)
    <2>1. \A u \in Teachers \ {t} : ~Building(u)
        BY <1>2, MachineIs
    <2>2. \A u \in Teachers \ {t} : MachineOf(u)' = MachineOf(u)
        BY <2>1, MachineKept
    <2>3. MachineOf(t) = "building" /\ MachineOf(t)' \in {"absent", "partial", "ready"}
        BY <1>2 DEF MachineOf, Building
    <2>4. machines' = [machines EXCEPT ![t] = MachineOf(t)'] /\ machines[t] = "building"
        BY <2>2, <2>3, OneMoves DEF machines
    <2>5. recorded' = recorded
        BY DEF recorded
    <2> QED BY <2>3, <2>4, <2>5 DEF machines, recorded, BrokerContract!Build
<1> QED BY <1>1, <1>2

\* The rest of a request builds no attempt's own VM.
LEMMA TailBuildsNone ==
    ASSUME IInv, RowsInv, queue # <<>>, queue' = Tail(queue), NEW t \in Teachers
    PROVE  ~Building(t)'
<1> SUFFICES ASSUME queue' # <<>>, Head(queue').do = "build", Head(queue').vm = Vm(t)
             PROVE  FALSE
    BY DEF Building, Executing
<1>1. /\ queue' \in Seq(Instruction) /\ Len(queue) \in Nat
      /\ Len(queue') = Len(queue) - 1
      /\ \A i \in 1..Len(queue') : queue'[i] = queue[i + 1] /\ i + 1 \in 1..Len(queue)
    BY HeadOf
<1>2. Head(queue') = queue'[1] /\ 1 \in 1..Len(queue')
    BY <1>1, TailOf
<1>3. queue'[1] = queue[2] /\ 2 \in 1..Len(queue)
    BY <1>1, <1>2
<1>4. OwnBuildFirst(2)
    BY <1>3 DEF RowsInv
<1> QED BY <1>2, <1>3, <1>4, Identities DEF OwnBuildFirst

\* No request but the create of an attempt starts with the build of one.
LEMMA RequestBuildsNone ==
    ASSUME IInv, Requests, ~\E t \in Teachers : CreateAttempt(t), NEW u \in Teachers
    PROVE  ~Building(u)'
<1>1. ASSUME queue' \in Seq(Instruction), Len(queue') \in Nat \ {0},
             queue'[1].do # "build"
      PROVE  ~Building(u)'
    <2>1. queue' = <<>> \/ Head(queue') = queue'[1]
        BY <1>1, TailOf
    <2> QED BY <1>1, <2>1 DEF Building, Executing
<1>2. ASSUME NEW x \in Instruction, x.do # "build", queue' = <<x>>
      PROVE  ~Building(u)'
    BY <1>1, <1>2
<1>3. ASSUME NEW t \in Teachers, DestroyAttempt(t) \/ AbandonAttempt(t)
      PROVE  ~Building(u)'
    BY <1>2, <1>3, Identities, InstructionsTyped DEF DestroyAttempt, AbandonAttempt, Accept, Tear
<1>4. CASE DestroyAll
    BY <1>2, <1>4, InstructionsTyped DEF DestroyAll, Accept, Reap
<1>5. ASSUME NEW t \in Templated, AbandonEvaluators(t)
      PROVE  ~Building(u)'
    <2>1. index[t] \subseteq EvaluatorsOf(t) /\ queue' = Abandoning(t)
        BY <1>5 DEF AbandonEvaluators, Accept, IInv, IndexIsOwn
    <2>2. queue' \in Seq(Instruction) /\ Len(queue') \in Nat \ {0}
        BY <2>1, AbandoningIs
    <2>3. AbandonedFirst(queue', t)
        BY <2>1, AbandoningFirst
    <2>4. queue'[1].do # "build"
        BY <2>2, <2>3 DEF AbandonedFirst, WriteRows
    <2> QED BY <1>1, <2>2, <2>4
<1>6. ASSUME NEW t \in Templated, NEW stale \in BOOLEAN, CreateEvaluator(t, stale)
      PROVE  ~Building(u)'
    <2>1. PICK e \in EvaluatorsOf(t) :
              queue' = (IF index[t] = {} THEN <<>> ELSE Abandoning(t))
                           \o <<WriteRows(t, {e}), Build(e)>>
        BY <1>6 DEF CreateEvaluator, Accept
    <2>2. PICK q : AbandonedFirst(q, t) /\ queue' = q \o <<WriteRows(t, {e}), Build(e)>>
        BY <2>1, AbandoningFirst
    <2>3. t \in Teachers /\ e \in Evaluators /\ e \in Vms
        BY Identities DEF Teachers
    <2>4. /\ queue' \in Seq(Instruction) /\ Len(q) \in Nat /\ Len(queue') = Len(q) + 2
          /\ \A i \in 1..Len(q) : queue'[i] = q[i]
          /\ queue'[Len(q) + 1] = WriteRows(t, {e})
        BY <2>2, <2>3, InstructionsTyped, Followed DEF AbandonedFirst
    <2>5. \A i \in 1..Len(q) : q[i].do # "build"
        BY <2>2 DEF AbandonedFirst, WriteRows
    <2>6. queue'[1].do # "build"
        <3>1. CASE Len(q) = 0
            BY <2>4, <3>1 DEF WriteRows
        <3>2. CASE Len(q) # 0
            BY <2>4, <2>5, <3>2
        <3> QED BY <3>1, <3>2
    <2> QED BY <1>1, <2>4, <2>6
<1>7. ASSUME NEW t \in Templated, NEW e \in EvaluatorsOf(t), DestroyEvaluator(t, e)
      PROVE  ~Building(u)'
    BY <1>7 DEF DestroyEvaluator, Accept, Building, Executing, Tear
<1> QED BY <1>3, <1>4, <1>5, <1>6, <1>7 DEF Requests

\* Neither does what breaks a request off, or takes another VM to reap.
LEMMA BreakBuildsNone ==
    ASSUME IInv, ReapNext \/ ReapDone \/ Boots \/ CommandFails \/ BrokerKill,
           NEW t \in Teachers
    PROVE  ~Building(t)'
<1>1. \/ queue' = <<>>
      \/ \E v \in Vms : queue' = <<Tear(v)>>
      \/ \E v \in Vms : queue' = <<Tear(v)>> \o queue
    <2>1. queue # <<>> => Head(queue).vm \in Vms
        BY HeadOf
    <2> QED
        BY <2>1
        DEF ReapNext, ReapDone, Boots, BootReady, BootTimeout, CommandFails, BrokerKill
<1>2. CASE queue' = <<>>
    BY <1>2 DEF Building, Executing
<1>3. CASE \E v \in Vms : queue' = <<Tear(v)>>
    BY <1>3 DEF Building, Executing, Tear
<1>4. ASSUME NEW v \in Vms, queue' = <<Tear(v)>> \o queue
      PROVE  ~Building(t)'
    <2>1. <<Tear(v)>> \in Seq(Instruction) /\ queue \in Seq(Instruction)
        BY InstructionsTyped DEF IInv, BrokerTypeOK
    <2>2. queue' \in Seq(Instruction) /\ Len(queue') # 0 /\ queue'[1] = Tear(v)
        BY <1>4, <2>1, ConcatProperties
    <2>3. queue' = <<>> \/ Head(queue') = Tear(v)
        BY <2>2, TailOf
    <2> QED BY <2>3 DEF Building, Executing, Tear
<1> QED BY <1>1, <1>2, <1>3, <1>4

LEMMA BuildStepContract ==
    ASSUME IInv, BuildStep
    PROVE  UNCHANGED <<machines, recorded>>
<1>1. UNCHANGED <<queue, index>> /\ Executing("build")
    BY DEF BuildStep
<1>2. \A t \in Teachers : Building(t)' <=> Building(t)
    BY <1>1 DEF Building, Executing
<1>3. \A t \in Teachers : Building(t) \/ host'[Vm(t)] = host[Vm(t)]
    BY <1>1, Identities DEF BuildStep, Building, IInv, BrokerTypeOK
<1> QED BY <1>1, <1>2, <1>3, MachineKept, NothingMoves

\* The last thing destroy takes is the directory, with the rows in it.
LEMMA TearStepContract ==
    ASSUME IInv, TearStep
    PROVE  \/ UNCHANGED <<machines, recorded>>
           \/ \E t \in Teachers : BrokerContract!TakeDown(t)
<1>0. PICK v \in Vms : queue # <<>> /\ Head(queue) = queue[1] /\ v = Head(queue).vm
    BY HeadOf DEF TearStep, Executing
<1>1. PICK r \in Resources :
          /\ Head(queue).do = "tear" /\ UNCHANGED queue
          /\ NextToTear(v, r)
          /\ host' = [host EXCEPT ![v] = @ \ {r}]
          /\ index' = [t \in Templated |->
                          IF v = Vm(t) /\ r = "directory" THEN {} ELSE index[t]]
    BY <1>0 DEF TearStep, Executing
<1>2. /\ host'[v] = host[v] \ {r} /\ r \in host[v] /\ host[v] \in SUBSET Resources
      /\ \A w \in Vms \ {v} : host'[w] = host[w]
    BY <1>1 DEF IInv, BrokerTypeOK, NextToTear
<1>3. r = "directory" <=> host'[v] = {}
    <2>1. r = "directory" => host[v] \subseteq {"directory"}
        BY <1>1, <1>2, TearOrder DEF NextToTear
    <2>2. "directory" \in host[v]
        BY <1>1, <1>2 DEF IInv, ResourcesHaveDirectory
    <2> QED BY <1>2, <2>1, <2>2
<1>4. \A t \in Teachers : ~Building(t) /\ ~Building(t)'
    BY <1>1 DEF Building, Executing
<1>5. \A t \in Teachers : Vm(t) # v => MachineOf(t)' = MachineOf(t)
    BY <1>2, <1>4, Identities, MachineKept
<1>6. CASE \A t \in Teachers : Vm(t) # v
    <2>1. UNCHANGED index
        BY <1>1, <1>6 DEF IInv, BrokerTypeOK, Teachers
    <2> QED BY <1>5, <1>6, <2>1, NothingMoves
<1>7. ASSUME NEW t \in Teachers, Vm(t) = v
      PROVE  UNCHANGED <<machines, recorded>> \/ BrokerContract!TakeDown(t)
    <2>1. \A u \in Teachers \ {t} : Vm(u) # v
        BY <1>7, Identities
    <2>2. machines' = [machines EXCEPT ![t] = MachineOf(t)'] /\ machines[t] = MachineOf(t)
        BY <1>5, <2>1, OneMoves DEF machines
    <2>3. MachineOf(t) \in {"partial", "ready"}
        BY <1>2, <1>4, <1>7 DEF MachineOf, Building
    <2>4. CASE r = "directory"
        <3>1. MachineOf(t)' = "absent"
            BY <1>3, <1>4, <1>7, <2>4 DEF MachineOf, Building
        <3>2. \A u \in Teachers :
                  recorded'[u] = IF u = t THEN FALSE ELSE recorded[u]
            BY <1>1, <1>7, <2>1, <2>4 DEF recorded, Teachers
        <3>3. recorded' = [recorded EXCEPT ![t] = FALSE]
            BY <3>2 DEF recorded
        <3> QED
            BY <2>2, <2>3, <3>1, <3>3 DEF machines, recorded, BrokerContract!TakeDown
    <2>5. CASE r # "directory"
        <3>1. UNCHANGED index /\ recorded' = recorded
            BY <1>1, <2>5 DEF IInv, BrokerTypeOK, recorded
        <3>2. host'[v] # {} /\ host[v] # {}
            BY <1>2, <1>3, <2>5
        <3>3. Readable(v, TRUE)' => Readable(v, TRUE)
            BY <1>2 DEF Readable
        <3>4. MachineOf(t)' = MachineOf(t) \/ (MachineOf(t) = "ready" /\ MachineOf(t)' = "partial")
            BY <1>4, <1>7, <3>2, <3>3 DEF MachineOf, Building
        <3>5. CASE MachineOf(t)' = MachineOf(t)
            <4>1. \A u \in Teachers : MachineOf(u)' = MachineOf(u)
                BY <1>5, <2>1, <3>5
            <4> QED BY <3>1, <4>1, NothingMoves
        <3>6. CASE MachineOf(t) = "ready" /\ MachineOf(t)' = "partial"
            BY <2>2, <3>1, <3>6 DEF machines, recorded, BrokerContract!TakeDown
        <3> QED BY <3>4, <3>5, <3>6
    <2> QED BY <2>4, <2>5
<1> QED BY <1>6, <1>7

\* The one row is written while the VM can be read.
LEMMA WriteIndexContract ==
    ASSUME IInv, RowsInv, WriteIndex
    PROVE  \/ UNCHANGED <<machines, recorded>>
           \/ \E t \in Teachers : BrokerContract!Record(t) \/ BrokerContract!Forget(t)
<1> DEFINE rows == queue[1].rows
           written(t) == queue[1].vm = Vm(t) /\ "directory" \in host[Vm(t)]
<1>1. /\ queue # <<>> /\ queue[1].do = "index" /\ Head(queue) = queue[1]
      /\ 1 \in 1..Len(queue)
      /\ queue' = Tail(queue)
      /\ index' = [t \in Templated |-> IF written(t) THEN rows ELSE index[t]]
      /\ UNCHANGED host
    BY HeadOf DEF WriteIndex, Executing
<1>2. RowsPrepared(1)
    BY <1>1 DEF RowsInv
<1>3. \A t \in Templated : written(t) /\ rows # {} => Readable(Vm(t), TRUE) /\ host[Vm(t)] # {}
    BY <1>1, <1>2 DEF RowsPrepared
<1>4. \A t, u \in Teachers : written(t) /\ written(u) => t = u
    BY Identities
<1> HIDE DEF rows, written
<1>5. \A t \in Teachers : ~Building(t) /\ ~Building(t)'
    <2>1. \A t \in Teachers : ~Building(t)
        BY <1>1 DEF Building, Executing
    <2> QED BY <1>1, <2>1, TailBuildsNone
<1>6. machines' = machines
    BY <1>1, <1>5, MachineKept DEF machines
<1>7. CASE \A t \in Templated : ~written(t)
    <2>1. UNCHANGED index
        BY <1>1, <1>7 DEF IInv, BrokerTypeOK
    <2> QED BY <1>6, <2>1 DEF recorded
<1>8. ASSUME NEW t \in Templated, written(t)
      PROVE  BrokerContract!Record(t) \/ BrokerContract!Forget(t)
    <2>1. t \in Teachers
        BY DEF Teachers
    <2>2. \A u \in Teachers : recorded'[u] = IF u = t THEN rows # {} ELSE recorded[u]
        BY <1>1, <1>4, <1>8, <2>1 DEF recorded, Teachers
    <2>3. recorded' = [recorded EXCEPT ![t] = (rows # {})]
        BY <2>2 DEF recorded
    <2>4. rows # {} => machines[t] = "ready"
        BY <1>3, <1>5, <1>8, <2>1, MachineIs DEF machines
    <2>5. CASE rows # {}
        BY <1>6, <2>1, <2>3, <2>4, <2>5 DEF machines, recorded, BrokerContract!Record
    <2>6. CASE rows = {}
        BY <1>6, <2>1, <2>3, <2>6 DEF machines, recorded, BrokerContract!Forget
    <2> QED BY <2>5, <2>6
<1> QED BY <1>7, <1>8 DEF Teachers

\* A started guest is no part of what is read of a VM.
LEMMA GuestStopsContract ==
    ASSUME IInv, NEW v \in Vms, GuestStops(v)
    PROVE  UNCHANGED <<machines, recorded>>
<1>1. /\ UNCHANGED <<queue, index>> /\ queue = <<>>
      /\ host' = [host EXCEPT ![v] = @ \ {"running"}]
    BY DEF GuestStops
<1>2. \A t \in Teachers : ~Building(t) /\ ~Building(t)'
    BY <1>1 DEF Building, Executing
<1>3. ASSUME NEW t \in Teachers
      PROVE  /\ (host[Vm(t)] = {} <=> host'[Vm(t)] = {})
             /\ (Readable(Vm(t), TRUE) <=> Readable(Vm(t), TRUE)')
    <2>1. Vm(t) \in Vms
        BY Identities
    <2>2. host'[Vm(t)] \in {host[Vm(t)], host[Vm(t)] \ {"running"}}
        BY <1>1, <2>1 DEF IInv, BrokerTypeOK
    <2>3. host[Vm(t)] # {} => "directory" \in host[Vm(t)]
        BY <2>1 DEF IInv, ResourcesHaveDirectory
    <2> QED BY <2>2, <2>3 DEF Readable
<1> QED BY <1>1, <1>2, <1>3, MachineKept, NothingMoves

\* A crash takes the mounts: what was usable or half built is left in part.
LEMMA HostCrashContract ==
    ASSUME IInv, HostCrash
    PROVE  BrokerContract!Crash
<1> DEFINE hit == {t \in Teachers : MachineOf(t) = "ready"
                                        \/ (Building(t) /\ host'[Vm(t)] # {})}
<1>1. /\ host' = [v \in Vms |-> host[v] \ Volatile] /\ queue' = <<>> /\ UNCHANGED index
    BY DEF HostCrash
<1>2. ASSUME NEW t \in Teachers
      PROVE  /\ ~Building(t)'
             /\ host'[Vm(t)] # {} => ~Readable(Vm(t), TRUE)'
             /\ ~Building(t) => (host[Vm(t)] = {} <=> host'[Vm(t)] = {})
    <2>1. Vm(t) \in Vms /\ Vm(t) \notin Evaluators /\ Needs(Vm(t)) = Resources
        BY Identities, NeedsOf
    <2>2. host'[Vm(t)] = host[Vm(t)] \ Volatile
        BY <1>1, <2>1
    <2>3. host[Vm(t)] # {} => "directory" \in host'[Vm(t)]
        BY <2>1, <2>2 DEF IInv, ResourcesHaveDirectory, Volatile
    <2>4. "disk" \notin host'[Vm(t)] /\ "disk" \in Resources
        BY <2>2, ResourceNames DEF Volatile
    <2>5. ~Readable(Vm(t), TRUE)'
        BY <2>1, <2>4 DEF Readable, Needs
    <2>6. ~Building(t)'
        BY <1>1 DEF Building, Executing
    <2> QED BY <2>2, <2>3, <2>5, <2>6
<1>3. \A t \in Teachers :
          MachineOf(t)' = IF t \in hit THEN "partial"
                          ELSE IF MachineOf(t) = "building" THEN "absent" ELSE MachineOf(t)
    <2> TAKE t \in Teachers
    <2>1. MachineOf(t)' = IF host'[Vm(t)] = {} THEN "absent" ELSE "partial"
        BY <1>2 DEF MachineOf, Building
    <2>2. CASE Building(t)
        BY <2>1, <2>2, MachineIs
    <2>3. CASE ~Building(t)
        BY <1>2, <2>1, <2>3, MachineIs
    <2> QED BY <2>2, <2>3
<1>4. /\ \A t \in Teachers : machines[t] = "ready" => t \in hit
      /\ \A t, u \in hit : machines[t] # "absent"
    BY MachineIs DEF machines
<1>5. hit \in SUBSET Teachers
    OBVIOUS
<1> HIDE DEF hit
<1>6. machines' = [t \in Teachers |->
                      IF t \in hit THEN "partial"
                      ELSE IF machines[t] = "building" THEN "absent" ELSE machines[t]]
    BY <1>3 DEF machines
<1>7. recorded' = recorded
    BY <1>1 DEF recorded
<1> QED BY <1>4, <1>5, <1>6, <1>7 DEF machines, recorded, BrokerContract!Crash

LEMMA ContractSteps ==
    ASSUME IInv, RowsInv, [BrokerNext]_brokerVars
    PROVE  [BrokerContract!Next]_<<machines, recorded>>
<1> DEFINE Same == UNCHANGED <<machines, recorded>>
           Ends == \E t \in Teachers : BrokerContract!Build(t)
<1>1. CASE Requests
    <2>1. CASE \E t \in Teachers : CreateAttempt(t)
        BY <2>1, CreateAttemptContract DEF BrokerContract!Next
    <2>2. CASE ~\E t \in Teachers : CreateAttempt(t)
        <3>1. UNCHANGED <<host, index>>
            BY <1>1, <2>2
            DEF Requests, CreateEvaluator, DestroyAttempt, AbandonAttempt,
                AbandonEvaluators, DestroyEvaluator, DestroyAll
        <3>2. ASSUME NEW t \in Teachers
              PROVE  ~Building(t)'
            BY <1>1, <2>2, RequestBuildsNone
        <3> QED BY <3>1, <3>2, BuildEnds DEF BrokerContract!Next
    <2> QED BY <2>1, <2>2
<1>2. CASE BuildDone \/ TearDone
    <2>1. UNCHANGED <<host, index>> /\ queue # <<>> /\ queue' = Tail(queue)
        BY <1>2 DEF BuildDone, TearDone, Executing
    <2>2. \A t \in Teachers : ~Building(t)'
        BY <2>1, TailBuildsNone
    <2> QED BY <2>1, <2>2, BuildEnds DEF BrokerContract!Next
<1>3. CASE ReapNext \/ ReapDone \/ Boots \/ CommandFails \/ BrokerKill
    <2>1. UNCHANGED <<host, index>>
        BY <1>3 DEF ReapNext, ReapDone, Boots, BootReady, BootTimeout, CommandFails, BrokerKill
    <2>2. \A t \in Teachers : ~Building(t)'
        BY <1>3, BreakBuildsNone
    <2> QED BY <2>1, <2>2, BuildEnds DEF BrokerContract!Next
<1>4. CASE BuildStep
    BY <1>4, BuildStepContract
<1>5. CASE TearStep
    BY <1>5, TearStepContract DEF BrokerContract!Next
<1>6. CASE WriteIndex
    BY <1>6, WriteIndexContract DEF BrokerContract!Next
<1>7. CASE HostCrash
    BY <1>7, HostCrashContract DEF BrokerContract!Next
<1>8. CASE \E v \in Vms : GuestStops(v)
    BY <1>8, GuestStopsContract
<1>9. CASE UNCHANGED brokerVars
    <2>1. UNCHANGED <<host, index, queue>>
        BY <1>9 DEF brokerVars
    <2> QED
        BY <2>1 DEF machines, recorded, MachineOf, Executing, Readable
<1> QED
    BY <1>1, <1>2, <1>3, <1>4, <1>5, <1>6, <1>7, <1>8, <1>9
    DEF BrokerNext, Steps, BrokerFaultsNext

\* What the instructions that are left rely on about an attempt's own VM
\* holds in every state the broker reaches.
THEOREM RowsKept == BrokerSpec => []RowsInv
<1>1. BrokerInit => RowsInv
    BY EmptySeq DEF BrokerInit, RowsInv
<1>2. IInv /\ RowsInv /\ [BrokerNext]_brokerVars => RowsInv'
    BY RowsPreserved
<1> QED BY <1>1, <1>2, Inductive, PTL DEF BrokerSpec

\* BrokerKeepsContract: with all its steps, waits, failures and crashes the
\* broker makes a VM only from nothing, never a usable one of leftovers, and
\* records an evaluator only beside a VM that can be read.
THEOREM BrokerContractKept == BrokerSpec => BrokerKeepsContract
<1>1. BrokerInit => BrokerContract!Init
    <2> SUFFICES ASSUME BrokerInit
                 PROVE  BrokerContract!Init
        OBVIOUS
    <2>1. \A t \in Teachers : MachineOf(t) = "absent"
        BY Identities DEF BrokerInit, MachineOf, Executing
    <2>2. \A t \in Teachers : ~(t \in Templated /\ index[t] # {})
        BY DEF BrokerInit
    <2> QED BY <2>1, <2>2 DEF BrokerContract!Init
<1>2. IInv /\ RowsInv /\ [BrokerNext]_brokerVars =>
          [BrokerContract!Next]_<<machines, recorded>>
    BY ContractSteps
<1> QED
    BY <1>1, <1>2, Inductive, RowsKept, PTL
    DEF BrokerSpec, BrokerKeepsContract, BrokerContract!Spec, BrokerContract!contractVars,
        machines, recorded
=============================================================================
