------------------------- MODULE ChatGPTClient_proofs -------------------------
(***************************************************************************)
(* Theorems about the ChatGPT client: the composer, for any prompts and    *)
(* any number of interferences, and the readback, for any conversations,   *)
(* windows, delays and restarts.                                           *)
(***************************************************************************)
EXTENDS Composer, Readback, SequenceTheorems, TLAPS

\* The places where the text is what was typed so far, and those from which
\* the task's own request is still to come.
Composing == {"effort", "mention", "pick", "prompt", "typing", "composed", "send"}
Unsent == Composing \union {"clean", "backspace"}

SoFar(place, t) ==
    CASE place = "pick" -> {Mention}
      [] place = "prompt" -> {Chip}
      [] place = "typing" -> {Chip, Beginning(t)}
      [] place \in {"composed", "send"} -> Task(t)
      [] OTHER -> {}

Busy == step.at \notin {"idle", "stopped"}

\* A task is prepared under the observer, which lets no other effort pass.
Observed ==
    Busy => /\ step.task \in Prompts
            /\ observer.installed
            /\ ~observer.error => \A i \in DOMAIN posts : posts[i].effort = "high"

\* Before Send all requests are by others.  As long as there is none, the text
\* reads as what was typed so far; and if the one request is by Send, it is
\* that text.
Written ==
    /\ step.at \in Unsent => \A i \in DOMAIN posts : posts[i].by = "other"
    /\ step.at \in Composing /\ posts = <<>> =>
           ReadsAs(SoFar(step.at, step.task), page.text, page.missing)
    /\ step.at = "check" /\ Len(posts) = 1 /\ posts[1].by = "runner" =>
           ReadsAs(Task(step.task), posts[1].text, posts[1].missing)

\* The inductive invariant of the composer.
ComposerInv == PostedIsTheTask /\ Observed /\ Written

----------------------------------------------------------------------------
(* Texts. *)

\* The pieces differ, and are ranked in the order in which they are typed.
LEMMA Ranks ==
    /\ {Mention, Chip, Cut, Other} \subseteq Pieces
    /\ Mention # Other /\ Chip # Other /\ Mention # Chip
    /\ Rank(Mention) = 1 /\ Rank(Chip) = 1
    /\ \A t \in Prompts :
           /\ Beginning(t) \in Pieces /\ Beginning(t) # Other /\ Rank(Beginning(t)) = 2
           /\ Ending(t) \in Pieces /\ Ending(t) # Other /\ Rank(Ending(t)) = 3
BY DEF Pieces, Mention, Chip, Cut, Other, Ours, Beginning, Ending, Rank

LEMMA TextType ==
    ASSUME NEW text \in Texts
    PROVE  Len(text) \in Nat /\ DOMAIN text = 1..Len(text) /\ text \in Seq(Pieces)
BY LenProperties DEF Texts

\* An empty text reads as nothing; and as anything, if it went missing.
LEMMA Emptied ==
    /\ <<>> \in Texts
    /\ \A missing : ReadsAs({}, <<>>, missing)
    /\ \A typed : ReadsAs(typed, <<>>, TRUE)
<1>1. <<>> \in Texts /\ Len(<<>>) = 0
    BY EmptySeq DEF Texts
<1>2. DOMAIN <<>> = 1..0
    BY <1>1, TextType
<1> QED BY <1>1, <1>2 DEF ReadsAs

\* Typing appends to the text.
LEMMA Appending ==
    ASSUME NEW text \in Texts, NEW piece \in Pieces
    PROVE  /\ Append(text, piece) \in Texts
           /\ DOMAIN Append(text, piece) = 1..(Len(text) + 1)
           /\ \A k \in DOMAIN text : Append(text, piece)[k] = text[k]
           /\ Append(text, piece)[Len(text) + 1] = piece
<1>1. /\ Append(text, piece) \in Seq(Pieces) /\ Len(Append(text, piece)) = Len(text) + 1
      /\ \A k \in 1..Len(text) : Append(text, piece)[k] = text[k]
      /\ Append(text, piece)[Len(text) + 1] = piece
    BY AppendProperties, TextType
<1>2. DOMAIN Append(text, piece) = 1..(Len(text) + 1)
    BY <1>1, LenProperties
<1> QED BY <1>1, <1>2, TextType DEF Texts

\* A piece that comes after all that is typed.
LEMMA Typing ==
    ASSUME NEW typed, NEW text \in Texts, NEW missing, ReadsAs(typed, text, missing),
           NEW piece \in Pieces,
           \A p \in typed : Rank(p) < Rank(piece)
    PROVE  ReadsAs(typed \union {piece}, Append(text, piece), missing)
<1> DEFINE new == Append(text, piece)
           last == Len(text) + 1
<1>1. /\ DOMAIN new = 1..last /\ new[last] = piece
      /\ \A k \in DOMAIN text : new[k] = text[k]
    BY Appending
<1>2. last \in Nat /\ last > 0 /\ \A k \in 1..last : k = last \/ k \in DOMAIN text
    BY TextType
<1> HIDE DEF new
<1>3. \A k \in DOMAIN text : text[k] = Other \/ text[k] \in typed
    BY DEF ReadsAs
<1>4. \A k \in DOMAIN new : new[k] \in (typed \union {piece}) \union {Other}
    BY <1>1, <1>2, <1>3
<1>5. ASSUME NEW k \in DOMAIN new, NEW m \in DOMAIN new, k < m, new[k] # Other, new[m] # Other
      PROVE  Rank(new[k]) < Rank(new[m])
    <2>1. k \in DOMAIN text /\ new[k] = text[k]
        BY <1>1, <1>2, <1>5
    <2>2. CASE m = last
        BY <1>1, <1>3, <1>5, <2>1, <2>2
    <2>3. CASE m \in DOMAIN text
        BY <1>1, <1>5, <2>1, <2>3 DEF ReadsAs
    <2> QED BY <1>1, <1>2, <2>2, <2>3
<1>6. missing \/ \A p \in typed \union {piece} : \E k \in DOMAIN new : new[k] = p
    <2>1. last \in DOMAIN new /\ DOMAIN text \subseteq DOMAIN new
        BY <1>1, <1>2, TextType
    <2> QED BY <1>1, <2>1 DEF ReadsAs
<1>7. ReadsAs(typed \union {piece}, new, missing)
    BY <1>4, <1>5, <1>6 DEF ReadsAs
<1> QED BY <1>7 DEF new

\* What others add changes nothing for us.
LEMMA OthersAdd ==
    ASSUME NEW typed, NEW text \in Texts, NEW missing, ReadsAs(typed, text, missing),
           NEW new \in {Append(text, Other), Cons(Other, text)}
    PROVE  ReadsAs(typed, new, missing)
<1>1. CASE new = Append(text, Other)
    <2>1. /\ DOMAIN new = 1..(Len(text) + 1) /\ new[Len(text) + 1] = Other
          /\ \A k \in DOMAIN text : new[k] = text[k]
        BY <1>1, Appending, Ranks
    <2>2. /\ \A k \in 1..(Len(text) + 1) : k = Len(text) + 1 \/ k \in DOMAIN text
          /\ DOMAIN text \subseteq 1..(Len(text) + 1)
        BY TextType
    <2> HIDE <1>1
    <2> QED BY <2>1, <2>2 DEF ReadsAs
<1>2. CASE new = Cons(Other, text)
    <2>1. <<Other>> \in Seq(Pieces) /\ Len(<<Other>>) = 1 /\ <<Other>>[1] = Other
        BY Ranks
    <2>2. /\ new \in Seq(Pieces) /\ Len(new) = 1 + Len(text)
          /\ \A k \in 1..(1 + Len(text)) :
                 new[k] = IF k <= 1 THEN <<Other>>[k] ELSE text[k - 1]
        BY <1>2, <2>1, TextType, ConcatProperties DEF Cons
    <2>3. DOMAIN new = 1..(1 + Len(text))
        BY <2>2, LenProperties
    <2>4. \A k \in DOMAIN new :
              \/ new[k] = Other
              \/ k \in Int /\ k - 1 \in DOMAIN text /\ new[k] = text[k - 1]
        BY <2>1, <2>2, <2>3, TextType
    <2>5. \A k \in DOMAIN text : k + 1 \in DOMAIN new /\ new[k + 1] = text[k]
        BY <2>2, <2>3, TextType
    <2> HIDE <1>2
    <2>6. \A k \in DOMAIN new : new[k] \in typed \union {Other}
        BY <2>4 DEF ReadsAs
    <2>7. ASSUME NEW k \in DOMAIN new, NEW m \in DOMAIN new, k < m,
                 new[k] # Other, new[m] # Other
          PROVE  Rank(new[k]) < Rank(new[m])
        <3>1. /\ k \in Int /\ k - 1 \in DOMAIN text /\ new[k] = text[k - 1]
              /\ m \in Int /\ m - 1 \in DOMAIN text /\ new[m] = text[m - 1]
            BY <2>4, <2>7
        <3>2. k - 1 < m - 1
            BY <2>7, <3>1
        <3> QED BY <2>7, <3>1, <3>2 DEF ReadsAs
    <2>8. missing \/ \A p \in typed : \E k \in DOMAIN new : new[k] = p
        BY <2>5 DEF ReadsAs
    <2> QED BY <2>6, <2>7, <2>8 DEF ReadsAs
<1> QED BY <1>1, <1>2

LEMMA Removing ==
    ASSUME NEW text \in Texts, NEW i \in DOMAIN text
    PROVE  /\ RemoveAt(text, i) \in Texts
           /\ \A k \in DOMAIN RemoveAt(text, i) :
                  \/ k \in Int /\ k < i /\ k \in DOMAIN text /\ RemoveAt(text, i)[k] = text[k]
                  \/ k \in Int /\ k >= i /\ k + 1 \in DOMAIN text
                     /\ RemoveAt(text, i)[k] = text[k + 1]
           /\ \A k \in DOMAIN text \ {i} :
                  \E m \in DOMAIN RemoveAt(text, i) : RemoveAt(text, i)[m] = text[k]
<1> DEFINE n == Len(text)
           front == SubSeq(text, 1, i - 1)
           back == SubSeq(text, i + 1, n)
           new == RemoveAt(text, i)
<1>1. n \in Nat /\ DOMAIN text = 1..n /\ i \in 1..n /\ text \in Seq(Pieces)
    BY TextType
<1>2. \A k \in 1..n : text[k] \in Pieces
    BY <1>1, ElementOfSeq
<1>3. /\ front \in Seq(Pieces) /\ Len(front) = i - 1
      /\ \A k \in 1..(i - 1) : front[k] = text[k]
    <2>1. /\ front \in Seq(Pieces)
          /\ Len(front) = IF 1 <= i - 1 THEN (i - 1) - 1 + 1 ELSE 0
          /\ \A k \in 1..((i - 1) - 1 + 1) : front[k] = text[1 + k - 1]
        <3>1. 1 \in Int /\ i - 1 \in Int /\ \A k \in 1..(i - 1) : text[k] \in Pieces
            BY <1>1, <1>2
        <3> HIDE DEF n
        <3> QED BY <3>1, SubSeqProperties
    <2> HIDE DEF front, n
    <2> QED BY <1>1, <2>1
<1>4. /\ back \in Seq(Pieces) /\ Len(back) = n - i
      /\ \A k \in 1..(n - i) : back[k] = text[i + k]
    <2>1. /\ back \in Seq(Pieces)
          /\ Len(back) = IF i + 1 <= n THEN n - (i + 1) + 1 ELSE 0
          /\ \A k \in 1..(n - (i + 1) + 1) : back[k] = text[(i + 1) + k - 1]
        <3>1. i + 1 \in Int /\ n \in Int /\ \A k \in (i + 1)..n : text[k] \in Pieces
            BY <1>1, <1>2
        <3> HIDE DEF n
        <3> QED BY <3>1, SubSeqProperties
    <2> HIDE DEF back, n
    <2> QED BY <1>1, <2>1
<1>5. new = front \o back
    BY DEF RemoveAt
<1> HIDE DEF front, back, new, n
<1>6. /\ new \in Seq(Pieces) /\ Len(new) = Len(front) + Len(back)
      /\ \A k \in 1..(Len(front) + Len(back)) :
             new[k] = IF k <= Len(front) THEN front[k] ELSE back[k - Len(front)]
    BY <1>3, <1>4, <1>5, ConcatProperties
<1>7. DOMAIN new = 1..(n - 1)
    BY <1>1, <1>3, <1>4, <1>6, LenProperties
<1>8. \A k \in 1..(n - 1) : new[k] = IF k < i THEN text[k] ELSE text[k + 1]
    <2> SUFFICES ASSUME NEW k \in 1..(n - 1)
                 PROVE  new[k] = IF k < i THEN text[k] ELSE text[k + 1]
        OBVIOUS
    <2>1. CASE k < i
        BY <1>1, <1>3, <1>4, <1>6, <2>1
    <2>2. CASE k >= i
        <3>1. k - (i - 1) \in 1..(n - i) /\ new[k] = back[k - (i - 1)]
            BY <1>1, <1>3, <1>4, <1>6, <2>2
        <3>2. back[k - (i - 1)] = text[i + (k - (i - 1))] /\ i + (k - (i - 1)) = k + 1
            BY <1>1, <1>4, <3>1
        <3> QED BY <1>1, <2>2, <3>1, <3>2
    <2> QED BY <1>1, <2>1, <2>2
<1>9. \A k \in DOMAIN new :
          \/ k \in Int /\ k < i /\ k \in DOMAIN text /\ new[k] = text[k]
          \/ k \in Int /\ k >= i /\ k + 1 \in DOMAIN text /\ new[k] = text[k + 1]
    BY <1>1, <1>7, <1>8
<1>10. ASSUME NEW k \in DOMAIN text \ {i}
       PROVE  \E m \in DOMAIN new : new[m] = text[k]
    <2>1. CASE k < i
        BY <1>1, <1>7, <1>8, <2>1
    <2>2. CASE k > i
        <3>1. k - 1 \in DOMAIN new /\ new[k - 1] = text[(k - 1) + 1] /\ (k - 1) + 1 = k
            BY <1>1, <1>7, <1>8, <2>2
        <3> QED BY <3>1
    <2> QED BY <1>1, <2>1, <2>2
<1> QED BY <1>6, <1>9, <1>10 DEF Texts, new

\* What others delete is missing, if it was ours.
LEMMA OthersDelete ==
    ASSUME NEW typed, NEW text \in Texts, NEW missing \in BOOLEAN,
           ReadsAs(typed, text, missing), NEW i \in DOMAIN text, Other \notin typed
    PROVE  ReadsAs(typed, RemoveAt(text, i), missing \/ text[i] # Other)
<1> DEFINE new == RemoveAt(text, i)
<1>1. /\ \A k \in DOMAIN new :
             \/ k \in Int /\ k < i /\ k \in DOMAIN text /\ new[k] = text[k]
             \/ k \in Int /\ k >= i /\ k + 1 \in DOMAIN text /\ new[k] = text[k + 1]
      /\ \A k \in DOMAIN text \ {i} : \E m \in DOMAIN new : new[m] = text[k]
      /\ i \in Int
    BY Removing, TextType
<1> HIDE DEF new
<1>2. \A k \in DOMAIN new : new[k] \in typed \union {Other}
    BY <1>1 DEF ReadsAs
<1>3. ASSUME NEW k \in DOMAIN new, NEW m \in DOMAIN new, k < m, new[k] # Other, new[m] # Other
      PROVE  Rank(new[k]) < Rank(new[m])
    <2>1. \E a, b \in DOMAIN text : a < b /\ new[k] = text[a] /\ new[m] = text[b]
        BY <1>1, <1>3
    <2> QED BY <1>3, <2>1 DEF ReadsAs
<1>4. ASSUME ~missing, text[i] = Other, NEW p \in typed
      PROVE  \E k \in DOMAIN new : new[k] = p
    <2>1. PICK k \in DOMAIN text : text[k] = p
        BY <1>4 DEF ReadsAs
    <2>2. k # i
        BY <1>4, <2>1
    <2> QED BY <1>1, <2>1, <2>2
<1>5. ReadsAs(typed, new, missing \/ text[i] # Other)
    BY <1>2, <1>3, <1>4 DEF ReadsAs
<1> QED BY <1>5 DEF new

\* The highlighted mention becomes the chip.
LEMMA Picked ==
    ASSUME NEW text \in Texts, text # <<>>, text[Len(text)] = Mention
    PROVE  /\ [text EXCEPT ![Len(text)] = Chip] \in Texts
           /\ \A missing : ReadsAs({Mention}, text, missing) =>
                  ReadsAs({Chip}, [text EXCEPT ![Len(text)] = Chip], missing)
<1> DEFINE new == [text EXCEPT ![Len(text)] = Chip]
           last == Len(text)
<1>1. last \in Nat /\ DOMAIN text = 1..last /\ last \in DOMAIN text /\ text \in Seq(Pieces)
    BY TextType, EmptySeq
<1>2. new \in Texts
    BY <1>1, Ranks, ExceptSeq DEF Texts
<1>3. /\ DOMAIN new = DOMAIN text /\ new[last] = Chip
      /\ \A k \in DOMAIN text \ {last} : new[k] = text[k]
    BY <1>1
<1> HIDE DEF new
<1>4. ASSUME NEW missing, ReadsAs({Mention}, text, missing) PROVE ReadsAs({Chip}, new, missing)
    <2>1. ASSUME NEW k \in DOMAIN text \ {last} PROVE text[k] = Other
        <3>1. k < last
            BY <1>1
        <3>2. text[k] # Other => Rank(text[k]) < Rank(Mention) /\ text[k] = Mention
            BY <1>1, <1>4, <3>1, Ranks DEF ReadsAs
        <3> QED BY <3>2, Ranks
    <2>2. \A k \in DOMAIN new : k = last \/ new[k] = Other
        BY <1>3, <2>1
    <2> QED BY <1>1, <1>3, <2>2 DEF ReadsAs
<1> QED BY <1>2, <1>4 DEF new

----------------------------------------------------------------------------
(* Steps of the composer. *)

LEMMA ComposerTypes ==
    ASSUME ComposerTypeOK
    PROVE  /\ page.text \in Texts /\ page.missing \in BOOLEAN
           /\ page.effort \in Efforts /\ page.chat \in {"none", "begun", "shown"}
           /\ step \in StepRecords /\ posts \in Seq(Posts) /\ unheard \in Nat
           /\ Len(posts) \in Nat /\ DOMAIN posts = 1..Len(posts)
           /\ (posts = <<>> <=> Len(posts) = 0)
           /\ <<>> \in Texts /\ <<>> \in Seq(Posts)
BY LenProperties, EmptySeq DEF ComposerTypeOK, Pages, Texts

LEMMA InvTypes ==
    ASSUME ComposerInv
    PROVE  ComposerTypeOK
BY DEF ComposerInv, PostedIsTheTask

\* A step that changes no more of the page than this.
PageStep(text, missing, effort) ==
    /\ page' \in Pages
    /\ page'.text = text /\ page'.missing = missing /\ page'.effort = effort

LEMMA PageRests ==
    ASSUME ComposerTypeOK, UNCHANGED page
    PROVE  PageStep(page.text, page.missing, page.effort)
BY DEF ComposerTypeOK, PageStep

LEMMA Types ==
    ASSUME ComposerTypeOK, NEW piece \in Pieces, Typed(piece)
    PROVE  PageStep(Append(page.text, piece), page.missing, page.effort)
<1> DEFINE new == Append(page.text, piece)
<1>1. new \in Texts
    BY ComposerTypes, Appending
<1>2. page' = [page EXCEPT !.text = new]
    BY DEF Typed
<1> HIDE DEF new
<1>3. PageStep(new, page.missing, page.effort)
    BY <1>1, <1>2 DEF ComposerTypeOK, Pages, PageStep
<1> QED BY <1>3 DEF new

LEMMA Home ==
    ASSUME ComposerTypeOK, GoesHome
    PROVE  PageStep(<<>>, FALSE, page.effort) /\ unheard' \in Nat
BY ComposerTypes DEF ComposerTypeOK, Pages, PageStep, GoesHome

\* The step is at another place, of the same task.
StepsTo(place) == step' \in StepRecords /\ step'.at = place /\ step'.task = step.task

LEMMA Steps ==
    ASSUME ComposerTypeOK, NEW place \in StepNames, StepTo(place)
    PROVE  StepsTo(place)
BY DEF ComposerTypeOK, StepRecords, StepTo, StepsTo

\* Every action that moves the step and posts nothing has to show what the
\* next place relies on.
LEMMA Moved ==
    ASSUME ComposerInv, Busy, NEW place \in StepNames \ {"idle", "stopped"}, StepsTo(place),
           NEW text, NEW missing, NEW effort, PageStep(text, missing, effort),
           unheard' \in Nat,
           UNCHANGED <<posts, observer, accepted, meddling>>,
           Written'
    PROVE  ComposerInv'
<1>1. ComposerTypeOK'
    BY InvTypes DEF ComposerTypeOK, PageStep, StepsTo
<1>2. PostedIsTheTask'
    BY <1>1 DEF ComposerInv, PostedIsTheTask
<1>3. Observed'
    BY DEF ComposerInv, Observed, StepsTo
<1> QED BY <1>2, <1>3 DEF ComposerInv

\* One that goes on composing, from one place to the next.
LEMMA GoesOn ==
    ASSUME ComposerInv, step.at \in Unsent,
           NEW place \in Composing, StepsTo(place),
           NEW text, NEW missing, NEW effort, PageStep(text, missing, effort),
           unheard' \in Nat,
           UNCHANGED <<posts, observer, accepted, meddling>>,
           posts = <<>> => ReadsAs(SoFar(place, step.task), text, missing)
    PROVE  ComposerInv'
<1>1. Busy /\ place \in StepNames \ {"idle", "stopped"} /\ place # "check"
    BY DEF Busy, Unsent, Composing, StepNames
<1>2. Written'
    BY <1>1 DEF ComposerInv, Written, StepsTo, PageStep
<1> QED BY <1>1, <1>2, Moved

LEMMA Rests ==
    ASSUME ComposerInv, NEW place \in {"idle", "stopped"}, Leaves(place),
           NEW text, NEW missing, NEW effort, PageStep(text, missing, effort),
           posts' \in Seq(Posts), unheard' \in Nat, observer' \in Observers,
           UNCHANGED <<accepted, meddling>>
    PROVE  ComposerInv'
<1>0. step' \in StepRecords /\ step'.at = place
    BY DEF Leaves, Rested, StepRecords, StepNames
<1>1. ComposerTypeOK'
    BY <1>0, InvTypes DEF ComposerTypeOK, PageStep
<1>2. Observed' /\ Written'
    BY <1>0 DEF Observed, Busy, Written, Unsent, Composing
<1> QED BY <1>1, <1>2 DEF ComposerInv, PostedIsTheTask

LEMMA EndsClean ==
    ASSUME RunnerEnds
    PROVE  /\ Leaves("stopped")
           /\ posts' \in Seq(Posts) /\ unheard' \in Nat /\ observer' \in Observers
BY EmptySeq DEF RunnerEnds, Unobserved, Observers

LEMMA Loses ==
    ASSUME ComposerInv, KeysLost, UNCHANGED <<accepted, meddling>>
    PROVE  ComposerInv'
<1>1. PageStep(Append(page.text, Cut), page.missing, page.effort)
    BY InvTypes, Types, Ranks DEF KeysLost
<1> QED BY <1>1, EndsClean, Rests DEF KeysLost

LEMMA Prepares ==
    ASSUME ComposerInv, NEW t \in Prompts, PrepareTask(t)
    PROVE  ComposerInv'
<1>1. step' = [at |-> "clean", task |-> t, retried |-> FALSE, heard |-> FALSE]
    BY DEF PrepareTask, Rested
<1>2. /\ posts' = <<>> /\ observer' = [installed |-> TRUE, verified |-> 0, error |-> FALSE]
      /\ UNCHANGED <<page, unheard, accepted, meddling>>
    BY DEF PrepareTask
<1>3. DOMAIN posts' = {} /\ posts' \in Seq(Posts)
    <2>1. <<>> \in Seq(Posts) /\ Len(<<>>) = 0
        BY EmptySeq
    <2> QED BY <1>2, <2>1, LenProperties
<1>4. ComposerTypeOK'
    BY <1>1, <1>2, <1>3, InvTypes DEF ComposerTypeOK, StepRecords, StepNames, Observers
<1>5. Observed' /\ Written'
    BY <1>1, <1>2, <1>3 DEF Observed, Written, Composing
<1> QED BY <1>2, <1>4, <1>5 DEF ComposerInv, PostedIsTheTask

LEMMA Cleans ==
    ASSUME ComposerInv, NewChatIfNeeded
    PROVE  ComposerInv'
<1>1. PageStep(<<>>, FALSE, page.effort) /\ unheard' \in Nat
    <2>1. CASE GoesHome
        BY <2>1, InvTypes, Home
    <2>2. CASE ~Dirty /\ page' = [page EXCEPT !.missing = FALSE] /\ UNCHANGED unheard
        BY <2>2, InvTypes, ComposerTypes DEF ComposerTypeOK, Pages, Dirty, PageStep
    <2> QED BY <2>1, <2>2 DEF NewChatIfNeeded
<1>2. step.at \in Unsent /\ UNCHANGED <<posts, observer, accepted, meddling>>
    BY DEF NewChatIfNeeded, Unsent
<1>3. "effort" \in Composing /\ StepsTo("effort")
    BY InvTypes, Steps DEF NewChatIfNeeded, StepNames, Composing
<1>4. ReadsAs(SoFar("effort", step.task), <<>>, FALSE)
    BY Emptied DEF SoFar
<1> QED BY <1>1, <1>2, <1>3, <1>4, GoesOn

LEMMA EffortIsHigh ==
    ASSUME ComposerInv, EnsureHighThinkingEffort
    PROVE  ComposerInv'
<1>1. PageStep(page.text, page.missing, "high") /\ unheard' \in Nat
    BY InvTypes, ComposerTypes DEF ComposerTypeOK, Pages, EnsureHighThinkingEffort,
       PageStep, Efforts
<1>2. /\ step.at = "effort" /\ step.at \in Unsent
      /\ UNCHANGED <<posts, observer, accepted, meddling>>
    BY DEF EnsureHighThinkingEffort, Unsent, Composing
<1>3. "mention" \in Composing /\ StepsTo("mention")
    BY InvTypes, Steps DEF EnsureHighThinkingEffort, StepNames, Composing
<1>4. posts = <<>> => ReadsAs(SoFar("mention", step.task), page.text, page.missing)
    BY <1>2 DEF ComposerInv, Written, SoFar, Composing
<1> QED BY <1>1, <1>2, <1>3, <1>4, GoesOn

\* Typing a piece that comes after all that is typed, and moving on.
LEMMA TypesOn ==
    ASSUME ComposerInv, step.at \in Composing, NEW piece \in Pieces, Typed(piece),
           NEW place \in Composing, StepTo(place),
           UNCHANGED <<posts, unheard, observer, accepted, meddling>>,
           \A p \in SoFar(step.at, step.task) : Rank(p) < Rank(piece),
           SoFar(place, step.task) = SoFar(step.at, step.task) \union {piece}
    PROVE  ComposerInv'
<1>1. PageStep(Append(page.text, piece), page.missing, page.effort)
    BY InvTypes, Types
<1>2. StepsTo(place) /\ step.at \in Unsent /\ unheard' \in Nat
    BY InvTypes, ComposerTypes, Steps DEF Composing, StepNames, Unsent
<1>3. posts = <<>> => ReadsAs(SoFar(place, step.task), Append(page.text, piece), page.missing)
    <2> SUFFICES ASSUME posts = <<>>
                 PROVE  ReadsAs(SoFar(place, step.task), Append(page.text, piece), page.missing)
        OBVIOUS
    <2>1. ReadsAs(SoFar(step.at, step.task), page.text, page.missing)
        BY DEF ComposerInv, Written
    <2> QED BY <2>1, InvTypes, ComposerTypes, Typing
<1> QED BY <1>1, <1>2, <1>3, GoesOn

LEMMA Mentions ==
    ASSUME ComposerInv, TypeMention
    PROVE  ComposerInv'
<1>1. CASE Typed(Mention) /\ StepTo("pick") /\ UNCHANGED <<posts, unheard, observer>>
    <2>1. /\ step.at = "mention" /\ step.at \in Composing /\ "pick" \in Composing
          /\ UNCHANGED <<posts, unheard, observer, accepted, meddling>>
        BY <1>1 DEF TypeMention, Composing
    <2>2. SoFar(step.at, step.task) = {} /\ SoFar("pick", step.task) = {Mention}
        BY <2>1 DEF SoFar
    <2> QED BY <1>1, <2>1, <2>2, Ranks, TypesOn
<1>2. CASE KeysLost
    BY <1>2, Loses DEF TypeMention
<1> QED BY <1>1, <1>2 DEF TypeMention

\* The page with the chip instead of the highlighted mention.
LEMMA Highlighted ==
    ASSUME ComposerTypeOK, AppHighlighted, page' = Accepted
    PROVE  \E text : /\ PageStep(text, page.missing, page.effort)
                     /\ ReadsAs({Mention}, page.text, page.missing) =>
                            ReadsAs({Chip}, text, page.missing)
<1> DEFINE text == [page.text EXCEPT ![Len(page.text)] = Chip]
<1>1. page.text \in Texts /\ page.text # <<>> /\ page.text[Len(page.text)] = Mention
    BY ComposerTypes DEF AppHighlighted, EndsWith
<1>2. /\ text \in Texts
      /\ ReadsAs({Mention}, page.text, page.missing) => ReadsAs({Chip}, text, page.missing)
    BY <1>1, Picked
<1>3. page' = [page EXCEPT !.text = text]
    BY DEF Accepted
<1> HIDE DEF text
<1>4. PageStep(text, page.missing, page.effort)
    BY <1>2, <1>3 DEF ComposerTypeOK, Pages, PageStep
<1> QED BY <1>2, <1>4

LEMMA Picks ==
    ASSUME ComposerInv, PickApp
    PROVE  ComposerInv'
<1>1. PICK text : /\ PageStep(text, page.missing, page.effort)
                  /\ ReadsAs({Mention}, page.text, page.missing) =>
                         ReadsAs({Chip}, text, page.missing)
    BY InvTypes, Highlighted DEF PickApp
<1>2. /\ step.at = "pick" /\ step.at \in Unsent /\ unheard' \in Nat
      /\ UNCHANGED <<posts, observer, accepted, meddling>>
    BY InvTypes, ComposerTypes DEF PickApp, Unsent, Composing
<1>3. "prompt" \in Composing /\ StepsTo("prompt")
    BY InvTypes, Steps DEF PickApp, StepNames, Composing
<1>4. posts = <<>> => ReadsAs(SoFar("prompt", step.task), text, page.missing)
    BY <1>1, <1>2 DEF ComposerInv, Written, SoFar, Composing
<1> QED BY <1>1, <1>2, <1>3, <1>4, GoesOn

LEMMA PicksNot ==
    ASSUME ComposerInv, AppNotPicked
    PROVE  ComposerInv'
<1>1. PICK text : PageStep(text, page.missing, page.effort)
    BY InvTypes, Highlighted, PageRests DEF AppNotPicked
<1>2. /\ Busy /\ step.at = "pick"
      /\ posts' \in Seq(Posts) /\ unheard' \in Nat /\ observer' \in Observers
      /\ UNCHANGED <<posts, observer, accepted, meddling>>
    BY InvTypes DEF AppNotPicked, Busy, ComposerTypeOK
<1>3. CASE Leaves("idle")
    BY <1>1, <1>2, <1>3, Rests
<1>4. CASE StepTo("backspace")
    <2>1. "backspace" \in StepNames \ {"idle", "stopped"} /\ StepsTo("backspace")
        BY <1>4, InvTypes, Steps DEF StepNames
    <2>2. Written'
        BY <1>2, <2>1 DEF ComposerInv, Written, StepsTo, Unsent, Composing
    <2> QED BY <1>1, <1>2, <2>1, <2>2, Moved
<1> QED BY <1>3, <1>4 DEF AppNotPicked

LEMMA Clears ==
    ASSUME ComposerInv, ClearEditor
    PROVE  ComposerInv'
<1>1. PageStep(<<>>, FALSE, page.effort) /\ unheard' \in Nat
    BY InvTypes, ComposerTypes DEF ComposerTypeOK, Pages, ClearEditor, PageStep
<1>2. step.at \in Unsent /\ UNCHANGED <<posts, observer, accepted, meddling>>
    BY DEF ClearEditor, Unsent
<1>3. "mention" \in Composing /\ StepsTo("mention")
    BY InvTypes DEF ComposerTypeOK, StepRecords, ClearEditor, StepNames, Composing, StepsTo
<1>4. ReadsAs(SoFar("mention", step.task), <<>>, FALSE)
    BY Emptied DEF SoFar
<1> QED BY <1>1, <1>2, <1>3, <1>4, GoesOn

LEMMA PromptsBegin ==
    ASSUME ComposerInv, TypePrompt
    PROVE  ComposerInv'
<1>1. CASE Typed(Beginning(step.task)) /\ StepTo("typing") /\ UNCHANGED <<posts, unheard, observer>>
    <2>1. /\ step.at = "prompt" /\ step.at \in Composing /\ "typing" \in Composing
          /\ UNCHANGED <<posts, unheard, observer, accepted, meddling>>
        BY <1>1 DEF TypePrompt, Composing
    <2>2. step.task \in Prompts
        BY <2>1 DEF ComposerInv, Observed, Busy
    <2>3. /\ SoFar(step.at, step.task) = {Chip}
          /\ SoFar("typing", step.task) = {Chip} \union {Beginning(step.task)}
        BY <2>1 DEF SoFar
    <2> QED BY <1>1, <2>1, <2>2, <2>3, Ranks, TypesOn
<1>2. CASE KeysLost
    BY <1>2, Loses DEF TypePrompt
<1> QED BY <1>1, <1>2 DEF TypePrompt

LEMMA PromptsEnd ==
    ASSUME ComposerInv, TypeRest
    PROVE  ComposerInv'
<1>1. CASE Typed(Ending(step.task)) /\ StepTo("composed") /\ UNCHANGED <<posts, unheard, observer>>
    <2>1. /\ step.at = "typing" /\ step.at \in Composing /\ "composed" \in Composing
          /\ UNCHANGED <<posts, unheard, observer, accepted, meddling>>
        BY <1>1 DEF TypeRest, Composing
    <2>2. step.task \in Prompts
        BY <2>1 DEF ComposerInv, Observed, Busy
    <2>3. /\ SoFar(step.at, step.task) = {Chip, Beginning(step.task)}
          /\ SoFar("composed", step.task) =
                 {Chip, Beginning(step.task)} \union {Ending(step.task)}
        BY <2>1 DEF SoFar, Task
    <2> QED BY <1>1, <2>1, <2>2, <2>3, Ranks, TypesOn
<1>2. CASE KeysLost
    BY <1>2, Loses DEF TypeRest
<1> QED BY <1>1, <1>2 DEF TypeRest

LEMMA Submits ==
    ASSUME ComposerInv, SubmitTask
    PROVE  ComposerInv'
<1>1. PageStep(page.text, page.missing, page.effort) /\ unheard' \in Nat
    BY InvTypes, ComposerTypes, PageRests DEF SubmitTask
<1>2. /\ step.at = "composed" /\ step.at \in Unsent
      /\ UNCHANGED <<posts, observer, accepted, meddling>>
    BY DEF SubmitTask, Unsent, Composing
<1>3. "send" \in Composing /\ StepsTo("send")
    BY InvTypes, Steps DEF SubmitTask, StepNames, Composing
<1>4. posts = <<>> => ReadsAs(SoFar("send", step.task), page.text, page.missing)
    BY <1>2 DEF ComposerInv, Written, SoFar, Composing
<1> QED BY <1>1, <1>2, <1>3, <1>4, GoesOn

----------------------------------------------------------------------------
(* Requests. *)

\* What a request adds, whoever sent it.
LEMMA SendsAPost ==
    ASSUME ComposerInv, NEW hand \in {"runner", "other"}, Sends(hand)
    PROVE  /\ page' \in Pages /\ unheard' \in Nat /\ observer' \in Observers
           /\ posts' \in Seq(Posts) /\ Len(posts') = Len(posts) + 1
           /\ \A i \in DOMAIN posts' :
                  \/ i \in DOMAIN posts /\ posts'[i] = posts[i]
                  \/ i = Len(posts) + 1 /\ posts'[i].by = hand
           /\ posts'[Len(posts) + 1].text = page.text
           /\ posts'[Len(posts) + 1].missing = page.missing
           /\ Observed /\ Busy => /\ observer'.installed
                                  /\ ~observer'.error =>
                                         \A i \in DOMAIN posts' : posts'[i].effort = "high"
<1> DEFINE post == [text |-> page.text, missing |-> page.missing, effort |-> page.effort,
                    by |-> hand]
<1>0. ComposerTypeOK
    BY InvTypes
<1>1. posts' = Append(posts, post)
    BY DEF Sends
<1>2. /\ post \in Posts /\ post.text = page.text /\ post.missing = page.missing
      /\ post.effort = page.effort /\ post.by = hand
    BY <1>0, ComposerTypes DEF Posts
<1> HIDE DEF post
<1>3. /\ posts' \in Seq(Posts) /\ Len(posts') = Len(posts) + 1
      /\ \A i \in 1..Len(posts) : posts'[i] = posts[i]
      /\ posts'[Len(posts) + 1] = post
    BY <1>0, <1>1, <1>2, ComposerTypes, AppendProperties
<1>4. \A i \in DOMAIN posts' :
          \/ i \in DOMAIN posts /\ posts'[i] = posts[i]
          \/ i = Len(posts) + 1 /\ posts'[i] = post
    <2>1. DOMAIN posts' = 1..(Len(posts) + 1)
        BY <1>3, LenProperties
    <2>2. Len(posts) \in Nat /\ DOMAIN posts = 1..Len(posts)
        BY <1>0, ComposerTypes
    <2>3. \A i \in DOMAIN posts' : i \in DOMAIN posts \/ i = Len(posts) + 1
        BY <2>1, <2>2
    <2> QED BY <1>3, <2>2, <2>3
<1>5. page' \in Pages /\ unheard' \in Nat
    <2>1. CASE UNCHANGED <<page, unheard>>
        BY <1>0, <2>1 DEF ComposerTypeOK
    <2>2. CASE \/ page' = [page EXCEPT !.text = <<>>, !.chat = "shown"]
               \/ page' = [page EXCEPT !.text = <<>>, !.chat = "begun"]
        <3>1. <<>> \in Texts /\ page \in Pages
            BY <1>0, ComposerTypes DEF ComposerTypeOK
        <3>2. page' \in Pages
            BY <2>2, <3>1 DEF Pages
        <3>3. unheard' = unheard \/ unheard' = unheard + 1
            BY DEF Sends
        <3> QED BY <1>0, <3>2, <3>3, ComposerTypes
    <2> QED BY <2>1, <2>2 DEF Sends
<1>6. /\ observer' \in Observers /\ observer'.installed = observer.installed
      /\ ~observer'.error => ~observer.error /\ Passes
    <2> DEFINE seen == IF observer.verified < 2 /\ observer.installed /\ Passes
                       THEN observer.verified + 1 ELSE observer.verified
               bad == observer.error \/ ~Passes
    <2>1. observer' = [observer EXCEPT !.verified = seen, !.error = bad]
        BY DEF Sends
    <2>2. observer \in [installed : BOOLEAN, verified : Nat, error : BOOLEAN]
        BY <1>0 DEF ComposerTypeOK, Observers
    <2>3. seen \in Nat /\ bad \in BOOLEAN
        BY <2>2
    <2>4. ~bad => ~observer.error /\ Passes
        OBVIOUS
    <2> HIDE DEF seen, bad
    <2> QED BY <2>1, <2>2, <2>3, <2>4 DEF Observers
<1>7. ASSUME Observed, Busy, ~observer'.error, NEW i \in DOMAIN posts'
      PROVE  posts'[i].effort = "high"
    BY <1>2, <1>4, <1>6, <1>7 DEF Observed, Passes
<1> QED BY <1>2, <1>3, <1>4, <1>5, <1>6, <1>7 DEF Observed

\* A request by others: before Send it ends the claim on the text, and after
\* it, it is the second request or one by others.
LEMMA OthersPost ==
    ASSUME ComposerInv, Sends("other"), UNCHANGED <<step, accepted>>,
           meddling' \in 0..MaxMeddling
    PROVE  ComposerInv'
<1>0. ComposerTypeOK /\ posts' # <<>>
    BY InvTypes, SendsAPost, ComposerTypes, EmptySeq
<1>1. ComposerTypeOK'
    BY <1>0, SendsAPost DEF ComposerTypeOK
<1>2. Observed'
    BY SendsAPost DEF ComposerInv, Observed, Busy
<1>3. step.at \in Unsent => \A i \in DOMAIN posts' : posts'[i].by = "other"
    BY SendsAPost DEF ComposerInv, Written
<1>4. Len(posts') = 1 => posts'[1].by = "other"
    <2> SUFFICES ASSUME Len(posts') = 1 PROVE posts'[1].by = "other"
        OBVIOUS
    <2>1. Len(posts) = 0 /\ DOMAIN posts = 1..0 /\ DOMAIN posts' = 1..1
        BY <1>0, SendsAPost, ComposerTypes, LenProperties
    <2>2. 1 \in DOMAIN posts' /\ 1 \notin DOMAIN posts
        BY <2>1
    <2> QED BY <2>2, SendsAPost
<1>5. Written'
    BY <1>0, <1>3, <1>4 DEF Written
<1> QED BY <1>1, <1>2, <1>5 DEF ComposerInv, PostedIsTheTask

\* The click posts the text; or nothing, and then the one request there may
\* be is by others.
LEMMA Clicks ==
    ASSUME ComposerInv, ClickSend
    PROVE  ComposerInv'
<1>0. /\ ComposerTypeOK /\ Busy /\ step.at = "send" /\ step.at \in Unsent
      /\ step.at \in Composing /\ StepsTo("check")
      /\ "check" \in StepNames \ {"idle", "stopped"}
      /\ UNCHANGED <<accepted, meddling>>
    BY InvTypes, Steps DEF ClickSend, Busy, Unsent, Composing, StepNames
<1>1. CASE Sends("runner")
    <2>1. ComposerTypeOK'
        BY <1>0, <1>1, SendsAPost DEF ComposerTypeOK, StepsTo
    <2>2. Observed'
        BY <1>0, <1>1, SendsAPost DEF ComposerInv, Observed, StepsTo
    <2>3. ASSUME Len(posts') = 1
          PROVE  ReadsAs(Task(step.task), posts'[1].text, posts'[1].missing)
        <3>1. Len(posts) = 0 /\ posts = <<>>
            BY <1>0, <1>1, <2>3, SendsAPost, ComposerTypes
        <3>2. posts'[1].text = page.text /\ posts'[1].missing = page.missing
            BY <1>1, <3>1, SendsAPost
        <3>3. SoFar(step.at, step.task) = Task(step.task)
            BY <1>0 DEF SoFar
        <3> QED BY <1>0, <3>1, <3>2, <3>3 DEF ComposerInv, Written
    <2>4. Written'
        BY <1>0, <2>3 DEF Written, StepsTo, Unsent, Composing
    <2> QED BY <1>0, <2>1, <2>2, <2>4 DEF ComposerInv, PostedIsTheTask
<1>2. CASE UNCHANGED <<page, posts, unheard, observer>>
    <2>1. Len(posts) = 1 => posts[1].by = "other"
        BY <1>0, ComposerTypes DEF ComposerInv, Written
    <2>2. Written'
        BY <1>0, <1>2, <2>1 DEF Written, StepsTo, Unsent, Composing
    <2>3. PageStep(page.text, page.missing, page.effort) /\ unheard' \in Nat
        BY <1>0, <1>2, PageRests, ComposerTypes
    <2> QED BY <1>0, <1>2, <2>2, <2>3, Moved
<1> QED BY <1>1, <1>2 DEF ClickSend

\* Which response is heard, and when, is of no account: nothing depends on it
\* but whether a request is taken at all.
LEMMA Hears ==
    ASSUME ComposerInv, ResponseBegins
    PROVE  ComposerInv'
<1> DEFINE sooner == step.heard \/ step.at \in {"send", "check"}
<1>1. /\ step' = [step EXCEPT !.heard = sooner] /\ unheard' = unheard - 1 /\ unheard > 0
      /\ UNCHANGED <<page, posts, observer, accepted, meddling>>
    BY DEF ResponseBegins
<1>2. step \in StepRecords /\ sooner \in BOOLEAN
    BY InvTypes, ComposerTypes DEF StepRecords
<1> HIDE DEF sooner
<1>3. step' \in StepRecords /\ step'.at = step.at /\ step'.task = step.task
    BY <1>1, <1>2 DEF StepRecords
<1>4. ComposerTypeOK'
    BY <1>1, <1>3, InvTypes DEF ComposerTypeOK
<1>5. Observed' /\ Written'
    BY <1>1, <1>3 DEF ComposerInv, Observed, Busy, Written
<1> QED BY <1>1, <1>4, <1>5 DEF ComposerInv, PostedIsTheTask

\* The only place where a request is taken for a task.
LEMMA Checks ==
    ASSUME ComposerInv, CheckSubmission
    PROVE  ComposerInv'
<1>1. /\ step.at = "check" /\ Busy /\ Len(posts) = 1 /\ ~observer.error /\ StepTo("served")
      /\ accepted' = accepted \union {[task |-> step.task, post |-> posts[1]]}
      /\ UNCHANGED <<page, posts, unheard, observer, meddling>>
    BY DEF CheckSubmission, ExactlyOneRequest, EffortObserved, Busy
<1>2. StepsTo("served")
    BY <1>1, InvTypes, Steps DEF StepNames
<1>3. 1 \in DOMAIN posts /\ posts[1] \in Posts /\ step.task \in Prompts
    BY <1>1, InvTypes, ComposerTypes, ElementOfSeq DEF ComposerInv, Observed
<1>4. /\ posts[1].effort = "high"
      /\ posts[1].by = "runner" =>
             ReadsAs(Task(step.task), posts[1].text, posts[1].missing)
    BY <1>1, <1>3 DEF ComposerInv, Written, Observed
<1>5. ComposerTypeOK'
    BY <1>1, <1>2, <1>3, InvTypes DEF ComposerTypeOK, StepsTo
<1>6. PostedIsTheTask'
    BY <1>1, <1>4, <1>5 DEF ComposerInv, PostedIsTheTask
<1>7. Observed' /\ Written'
    BY <1>1, <1>2 DEF ComposerInv, Observed, Written, Busy, StepsTo, Unsent, Composing
<1> QED BY <1>6, <1>7 DEF ComposerInv

LEMMA Ends ==
    ASSUME ComposerInv, CaptureAndDelete \/ ComposerStops \/ RunnerReturns
    PROVE  ComposerInv'
<1>0. ComposerTypeOK /\ posts \in Seq(Posts) /\ unheard \in Nat /\ observer \in Observers
    BY InvTypes DEF ComposerTypeOK
<1>1. CASE CaptureAndDelete
    <2>1. Leaves("idle") /\ UNCHANGED <<posts, observer, accepted, meddling>>
        BY <1>1 DEF CaptureAndDelete
    <2>2. \E text, missing : PageStep(text, missing, page.effort) /\ unheard' \in Nat
        BY <1>0, <1>1, Home, PageRests DEF CaptureAndDelete
    <2> QED BY <1>0, <2>1, <2>2, Rests
<1>2. CASE ComposerStops
    BY <1>0, <1>2, PageRests, EndsClean, Rests DEF ComposerStops
<1>3. CASE RunnerReturns
    <2>1. Leaves("idle")
        BY <1>3 DEF RunnerReturns
    <2>2. /\ PageStep(page.text, page.missing, page.effort)
          /\ posts' \in Seq(Posts) /\ unheard' \in Nat
          /\ UNCHANGED <<observer, accepted, meddling>>
        BY <1>0, <1>3, PageRests, EmptySeq DEF RunnerReturns
    <2> QED BY <1>0, <2>1, <2>2, Rests
<1> QED BY <1>1, <1>2, <1>3

----------------------------------------------------------------------------
(* Others. *)

LEMMA Meddling ==
    ASSUME ComposerInv, Meddles
    PROVE  meddling' \in 0..MaxMeddling /\ UNCHANGED <<step, accepted>>
BY ComposerAssumption, InvTypes DEF ComposerTypeOK, Meddles

\* What others do to the page: the text still reads as it did.
LEMMA Touched ==
    ASSUME ComposerInv, UNCHANGED <<step, posts, observer, accepted>>,
           meddling' \in 0..MaxMeddling, unheard' \in Nat,
           NEW text, NEW missing, NEW effort, PageStep(text, missing, effort),
           \A typed : Other \notin typed /\ ReadsAs(typed, page.text, page.missing) =>
                          ReadsAs(typed, text, missing)
    PROVE  ComposerInv'
<1>1. ComposerTypeOK' /\ Observed'
    BY InvTypes DEF ComposerInv, ComposerTypeOK, PageStep, Observed, Busy
<1>2. step.at \in Composing => Other \notin SoFar(step.at, step.task)
    <2> SUFFICES ASSUME step.at \in Composing PROVE Other \notin SoFar(step.at, step.task)
        OBVIOUS
    <2>1. step.task \in Prompts
        BY DEF ComposerInv, Observed, Busy, Composing
    <2> QED BY <2>1, Ranks DEF SoFar, Task
<1>3. Written'
    BY <1>2 DEF ComposerInv, Written, PageStep
<1> QED BY <1>1, <1>3 DEF ComposerInv, PostedIsTheTask

LEMMA OthersType ==
    ASSUME ComposerInv, OtherText
    PROVE  ComposerInv'
<1>1. PICK new \in {Append(page.text, Other), Cons(Other, page.text)} :
          page' = [page EXCEPT !.text = new]
    BY DEF OtherText, Typed
<1>2. ComposerTypeOK /\ page.text \in Texts
    BY InvTypes, ComposerTypes
<1>3. new \in Texts
    <2>1. Other \in Pieces
        BY Ranks
    <2>2. Append(page.text, Other) \in Texts
        BY <1>2, <2>1, Appending
    <2>3. Cons(Other, page.text) \in Texts
        <3>1. <<Other>> \in Seq(Pieces) /\ page.text \in Seq(Pieces)
            BY <1>2, <2>1, TextType
        <3>2. <<Other>> \o page.text \in Seq(Pieces)
            BY <3>1, ConcatProperties
        <3> QED BY <3>2 DEF Cons, Texts
    <2> QED BY <2>2, <2>3
<1>4. PageStep(new, page.missing, page.effort)
    BY <1>1, <1>2, <1>3 DEF ComposerTypeOK, Pages, PageStep
<1>5. /\ meddling' \in 0..MaxMeddling /\ unheard' \in Nat
      /\ UNCHANGED <<step, posts, observer, accepted>>
    BY <1>2, Meddling, ComposerTypes DEF OtherText
<1>6. \A typed : ReadsAs(typed, page.text, page.missing) => ReadsAs(typed, new, page.missing)
    BY <1>2, OthersAdd
<1> QED BY <1>4, <1>5, <1>6, Touched

LEMMA OthersTakeAway ==
    ASSUME ComposerInv, OtherDeletes
    PROVE  ComposerInv'
<1>1. PICK i \in DOMAIN page.text :
          page' = [page EXCEPT !.text = RemoveAt(page.text, i),
                               !.missing = page.missing \/ page.text[i] # Other]
    BY DEF OtherDeletes
<1> DEFINE new == RemoveAt(page.text, i)
           gone == page.missing \/ page.text[i] # Other
<1>2. ComposerTypeOK /\ page.text \in Texts /\ page.missing \in BOOLEAN
    BY InvTypes, ComposerTypes
<1>3. new \in Texts /\ gone \in BOOLEAN /\ page' = [page EXCEPT !.text = new, !.missing = gone]
    BY <1>1, <1>2, Removing
<1>4. \A typed : Other \notin typed /\ ReadsAs(typed, page.text, page.missing) =>
                     ReadsAs(typed, new, gone)
    BY <1>2, OthersDelete
<1> HIDE DEF new, gone
<1>5. PageStep(new, gone, page.effort)
    BY <1>2, <1>3 DEF ComposerTypeOK, Pages, PageStep
<1>6. /\ meddling' \in 0..MaxMeddling /\ unheard' \in Nat
      /\ UNCHANGED <<step, posts, observer, accepted>>
    BY <1>2, Meddling, ComposerTypes DEF OtherDeletes
<1> QED BY <1>4, <1>5, <1>6, Touched

LEMMA OthersLeave ==
    ASSUME ComposerInv, OtherNavigates
    PROVE  ComposerInv'
<1>1. PageStep(<<>>, TRUE, page.effort) /\ unheard' \in Nat
    BY InvTypes, ComposerTypes DEF ComposerTypeOK, Pages, OtherNavigates, PageStep
<1>2. meddling' \in 0..MaxMeddling /\ UNCHANGED <<step, posts, observer, accepted>>
    BY Meddling DEF OtherNavigates
<1> QED BY <1>1, <1>2, Emptied, Touched

LEMMA OthersChange ==
    ASSUME ComposerInv, OtherEffort \/ OtherSend \/ ChatIsShown
    PROVE  ComposerInv'
<1>0. ComposerTypeOK /\ unheard \in Nat /\ meddling \in 0..MaxMeddling
    BY InvTypes DEF ComposerTypeOK
<1>1. CASE OtherEffort
    <2>1. PageStep(page.text, page.missing, "other")
        BY <1>0, <1>1 DEF ComposerTypeOK, Pages, OtherEffort, PageStep, Efforts
    <2>2. /\ meddling' \in 0..MaxMeddling /\ unheard' \in Nat
          /\ UNCHANGED <<step, posts, observer, accepted>>
        BY <1>0, <1>1, Meddling DEF OtherEffort
    <2> QED BY <2>1, <2>2, Touched
<1>2. CASE OtherSend
    BY <1>2, Meddling, OthersPost DEF OtherSend
<1>3. CASE ChatIsShown
    <2>1. PageStep(page.text, page.missing, page.effort)
        BY <1>0, <1>3 DEF ComposerTypeOK, Pages, ChatIsShown, PageStep
    <2> QED BY <1>0, <1>3, <2>1, Touched DEF ChatIsShown
<1> QED BY <1>1, <1>2, <1>3

\* The inductive invariant of the composer: the text reads as what was typed
\* so far, until somebody sends it, and every request that the observer let
\* through has High effort.
THEOREM ComposerInductive == ComposerSpec => []ComposerInv
<1>1. ASSUME ComposerInit PROVE ComposerInv
    <2>1. 0 \in 0..MaxMeddling /\ <<>> \in Texts /\ <<>> \in Seq(Posts)
        BY ComposerAssumption, EmptySeq DEF Texts
    <2>2. ComposerTypeOK
        BY <1>1, <2>1 DEF ComposerInit, ComposerTypeOK, Pages, Rested, StepRecords, StepNames,
           Unobserved, Observers, Efforts
    <2>3. Observed /\ Written
        BY <1>1 DEF ComposerInit, Observed, Written, Rested, Busy, Unsent, Composing
    <2> QED BY <1>1, <2>2, <2>3 DEF ComposerInv, PostedIsTheTask, ComposerInit
<1>2. ASSUME ComposerInv, [ComposerNext]_composerVars PROVE ComposerInv'
    <2>1. CASE UNCHANGED composerVars
        BY <1>2, <2>1 DEF ComposerInv, PostedIsTheTask, ComposerTypeOK, composerVars,
           Observed, Busy, Written
    <2>2. CASE ComposerNext
        BY <1>2, <2>2, Prepares, Cleans, EffortIsHigh, Mentions, Picks, PicksNot, Clears,
           PromptsBegin, PromptsEnd, Submits, Clicks, Hears, Checks, Ends, OthersType,
           OthersTakeAway, OthersLeave, OthersChange DEF ComposerNext
    <2> QED BY <1>2, <2>1, <2>2
<1> QED BY <1>1, <1>2, PTL DEF ComposerSpec

\* Whatever was left in the composer, lost, typed, deleted, opened or sent in
\* between: what Send posted, and submit_task took for a task, is its App and
\* its whole prompt in this order, but for what others added or deleted, and
\* nothing is taken without High effort.
THEOREM PostIsTheTask == ComposerSpec => []PostedIsTheTask
<1>1. ComposerInv => PostedIsTheTask
    BY DEF ComposerInv
<1> QED BY <1>1, ComposerInductive, PTL

----------------------------------------------------------------------------
(* The readback. *)

Searching == client.at \in {"resolve", "candidate"}
Waiting == client.at \in {"wait", "snapshot"}

Reading(c) == <<"read", c>>
Deleting(c) == <<"delete", c>>

\* What the client has is its own, from the answer on that found it.
ClientHasOwn ==
    /\ Waiting \/ client.at = "delete" \/ client.capture # Absent => client.chat = Own
    /\ client.at = "delete" => client.capture # Absent /\ client.tries <= 2
    /\ Searching \/ Waiting => client.tries = 0

\* Which endpoint is asked from where.
AsksRightly ==
    /\ client.at = "resolve" =>
           request \in {NoRequest, TheList} \union {Reading(c) : c \in Chats \cap {tab.route}}
    /\ client.at = "candidate" => request \in {Reading(c) : c \in Chats}
    /\ request = TheList => tab.route \notin Chats
    /\ Waiting => request \in {NoRequest, Reading(Own)}
    /\ client.at = "delete" => request \in {NoRequest, Deleting(Own)}
    /\ client.at \in {"done", "failed"} => request = NoRequest

ForeignStay == \A c \in Foreign : chats[c].users = {"other"}

Due(endpoint) == told[endpoint] <= clock

\* The next request is due by the time that the client sleeps or keeps.
KnowsWhenDue ==
    /\ request # NoRequest => Due(request) /\ client.wake <= clock
    /\ Searching =>
           /\ Due(TheList) \/ told[TheList] <= client.wake
           /\ \A c \in Chats :
                  \/ Due(Reading(c)) \/ told[Reading(c)] <= client.wake
                  \/ c = tab.route /\ told[Reading(c)] <= client.next[c]
    /\ client.at = "candidate" => \A c \in Chats : Due(Reading(c))
    /\ Waiting => Due(Reading(Own)) \/ told[Reading(Own)] <= client.allowed
    /\ Searching \/ Waiting => told[Deleting(Own)] = 0
    /\ client.at = "delete" => Due(Deleting(Own)) \/ told[Deleting(Own)] <= client.wake

\* The inductive invariant of the readback.
ReadbackInv ==
    OwnTurnOnly /\ ClientHasOwn /\ AsksRightly /\ ForeignStay /\ KnowsWhenDue

LEMMA EndpointFacts ==
    /\ Own \in Chats /\ "none" \notin Chats /\ "transient" \notin Chats
    /\ TheList # NoRequest /\ TheList \in Endpoints
    /\ \A c \in Chats : /\ Reading(c) \in Endpoints /\ Deleting(c) \in Endpoints
                        /\ Reading(c) \notin {TheList, NoRequest}
                        /\ Deleting(c) \notin {TheList, NoRequest}
    /\ \A c, d : Reading(c) # Deleting(d) /\ (Reading(c) = Reading(d) => c = d)
                 /\ (Deleting(c) = Deleting(d) => c = d)
<1>1. \A c \in Chats : Reading(c) \in Endpoints /\ Deleting(c) \in Endpoints
    BY DEF Endpoints, Reading, Deleting
<1> QED BY <1>1, ReadbackAssumption
        DEF Chats, TheList, NoRequest, Endpoints, Reading, Deleting

LEMMA ContentFacts ==
    /\ Absent \in Contents /\ Deleted \in Contents /\ Empty \in Contents
    /\ Deleted # Absent /\ ~Absent.there /\ ~Deleted.there /\ Empty.there
    /\ \A content : Valid(content) => content # Absent
    /\ \A content \in Contents : content.users \subseteq {"own", "other"}
                                 /\ content.there \in BOOLEAN /\ content.ended \in BOOLEAN
<1>1. /\ Absent.there = FALSE /\ Absent.users = {} /\ Absent.ended = FALSE
      /\ Deleted.there = FALSE /\ Deleted.users = {} /\ Deleted.ended = TRUE
      /\ Empty.there = TRUE /\ Empty.users = {} /\ Empty.ended = FALSE
    BY DEF Absent, Deleted, Empty
<1>2. Empty \in Contents
    BY DEF Empty, Contents
<1>3. \A content \in Contents : content.users \subseteq {"own", "other"}
                                 /\ content.there \in BOOLEAN /\ content.ended \in BOOLEAN
    BY <1>1 DEF Contents
<1>4. \A content : Valid(content) => content # Absent
    BY <1>1 DEF Valid
<1> QED BY <1>1, <1>2, <1>3, <1>4 DEF Contents

LEMMA Numbers ==
    /\ 0 \in Nat /\ Window \in Nat /\ RecoveryWindow \in Nat /\ Fallback \in Nat
    /\ MaxClock \in Nat /\ MaxRestarts \in Nat /\ RetryAfters \subseteq Nat
BY ReadbackAssumption

LEMMA TimeIsNat ==
    ASSUME ReadbackTypeOK
    PROVE  /\ clock \in Nat /\ client.wake \in Nat /\ client.allowed \in Nat
           /\ client.deadline \in Nat /\ \A c \in Chats : client.next[c] \in Nat
           /\ \A e \in Endpoints : told[e] \in Nat
BY ReadbackAssumption DEF ReadbackTypeOK, Client, Times

----------------------------------------------------------------------------
(* Steps of the backend, the page and the operator. *)

\* Time passes, routes and conversations go on, but only what may change.
Surroundings ==
    /\ clock' \in 0..MaxClock /\ clock <= clock'
    /\ chats' \in [Chats -> Contents]
    /\ \A c \in Chats \ {Own} : chats'[c] = chats[c]
    /\ chats[Own] = Deleted \/ "other" \in chats[Own].users =>
           chats'[Own] = Deleted \/ "other" \in chats'[Own].users
    /\ tab' \in [route : Routes, seen : [Chats -> Contents]]
    /\ tab'.route = tab.route \/ (request = NoRequest /\ tab.route \notin Chats)
    /\ stream' \in {"open", "whole", "broken"}
    /\ UNCHANGED <<client, request, told, restarts>>

LEMMA SurroundingsKeep ==
    ASSUME ReadbackInv, Surroundings
    PROVE  ReadbackInv'
<1>1. ReadbackTypeOK'
    BY DEF ReadbackInv, OwnTurnOnly, ReadbackTypeOK, Surroundings
<1>2. OwnTurnOnly'
    BY <1>1 DEF ReadbackInv, OwnTurnOnly, Surroundings
<1>3. ClientHasOwn' /\ ForeignStay'
    BY ReadbackAssumption
    DEF ReadbackInv, ClientHasOwn, ForeignStay, Surroundings, Searching, Waiting, Chats
<1>4. AsksRightly'
    BY EndpointFacts DEF ReadbackInv, AsksRightly, Surroundings, Waiting, Reading, Deleting
<1>5. \A e \in Endpoints : Due(e) => Due(e)'
    BY <1>1, TimeIsNat, ReadbackAssumption
    DEF ReadbackInv, OwnTurnOnly, ReadbackTypeOK, Surroundings, Due
<1>6. request # NoRequest => Due(request)'
    BY <1>5 DEF ReadbackInv, OwnTurnOnly, ReadbackTypeOK, KnowsWhenDue, Surroundings, Due
<1>7. request # NoRequest => client.wake <= clock'
    BY <1>1, TimeIsNat, ReadbackAssumption
    DEF ReadbackInv, OwnTurnOnly, ReadbackTypeOK, Surroundings, KnowsWhenDue
<1>8. Searching => \A c \in Chats :
          \/ Due(Reading(c))' \/ told[Reading(c)] <= client.wake
          \/ c = tab'.route /\ told[Reading(c)] <= client.next[c]
    BY <1>5, EndpointFacts DEF ReadbackInv, KnowsWhenDue, Surroundings
<1>9. KnowsWhenDue'
    BY <1>5, <1>6, <1>7, <1>8, EndpointFacts
    DEF ReadbackInv, KnowsWhenDue, Surroundings, Searching, Waiting, Due, Reading, Deleting
<1> QED BY <1>2, <1>3, <1>4, <1>9 DEF ReadbackInv

LEMMA Ticks ==
    ASSUME ReadbackInv, Tick
    PROVE  Surroundings
BY ReadbackAssumption DEF ReadbackInv, OwnTurnOnly, ReadbackTypeOK, Tick, Surroundings

LEMMA Grows ==
    ASSUME ReadbackInv, ConversationGrows
    PROVE  Surroundings
<1>1. PICK content \in Contents :
          /\ \/ chats[Own] = Absent /\ stream = "open" /\ content = Empty
             \/ /\ chats[Own].there
                /\ \/ content = [chats[Own] EXCEPT !.users = @ \union {"own"}]
                   \/ content = [chats[Own] EXCEPT !.users = {"own", "other"}]
                   \/ content = [chats[Own] EXCEPT !.ended = TRUE] /\ "own" \in chats[Own].users
                   \/ content = Deleted /\ "own" \in chats[Own].users
          /\ chats' = [chats EXCEPT ![Own] = content]
    BY DEF ConversationGrows
<1>2. chats[Own] \in Contents /\ Own \in Chats /\ chats'[Own] = content
    BY <1>1, EndpointFacts DEF ReadbackInv, OwnTurnOnly, ReadbackTypeOK
<1>3. Absent.users = {} /\ Absent # Deleted /\ ~Deleted.there
    BY ContentFacts DEF Absent
<1>4. ASSUME chats[Own] = Deleted \/ "other" \in chats[Own].users
      PROVE  content = Deleted \/ "other" \in content.users
    <2>1. chats[Own].there /\ "other" \in chats[Own].users
        BY <1>1, <1>3, <1>4
    <2> QED BY <1>1, <1>2, <1>3, <2>1 DEF Contents
<1> QED BY <1>1, <1>2, <1>4, ReadbackAssumption
    DEF ReadbackInv, OwnTurnOnly, ReadbackTypeOK, ConversationGrows, Surroundings

LEMMA Shows ==
    ASSUME ReadbackInv, RouteShows \/ PageReads \/ StreamEnds
    PROVE  Surroundings
<1>1. CASE RouteShows
    <2>1. PICK r \in {"transient", Own} : tab' = [tab EXCEPT !.route = r]
        BY <1>1 DEF RouteShows
    <2>2. tab' \in [route : Routes, seen : [Chats -> Contents]]
        BY <2>1, EndpointFacts DEF ReadbackInv, OwnTurnOnly, ReadbackTypeOK, Routes
    <2> QED BY <1>1, <2>2, EndpointFacts, ReadbackAssumption
        DEF ReadbackInv, OwnTurnOnly, ReadbackTypeOK, RouteShows, Surroundings
<1>2. CASE PageReads
    <2>1. /\ tab' \in [route : Routes, seen : [Chats -> Contents]]
          /\ tab'.route = tab.route
        BY <1>2, EndpointFacts DEF ReadbackInv, OwnTurnOnly, ReadbackTypeOK, PageReads
    <2> QED BY <1>2, <2>1, ReadbackAssumption
        DEF ReadbackInv, OwnTurnOnly, ReadbackTypeOK, PageReads, Surroundings
<1>3. CASE StreamEnds
    BY <1>3, ReadbackAssumption
    DEF ReadbackInv, OwnTurnOnly, ReadbackTypeOK, StreamEnds, Surroundings
<1> QED BY <1>1, <1>2, <1>3

----------------------------------------------------------------------------
(* Steps of the client. *)

\* What a step of the client leaves behind it.
Backdrop ==
    /\ UNCHANGED <<clock, stream>> /\ restarts' \in 0..MaxRestarts
    /\ chats' \in [Chats -> Contents]
    /\ \A c \in Chats \ {Own} : chats'[c] = chats[c]
    /\ chats[Own] = Deleted \/ "other" \in chats[Own].users =>
           chats'[Own] = Deleted \/ "other" \in chats'[Own].users
    /\ tab' \in [route : Routes, seen : [Chats -> Contents]]
    /\ tab'.route = tab.route
    /\ told' \in [Endpoints -> Times]

LEMMA Moments ==
    ASSUME ReadbackTypeOK
    PROVE  /\ clock \in Times /\ 0 \in Times /\ clock + 1 \in Times
           /\ \A delay \in Nat : clock + delay \in Times /\ clock <= clock + delay
           /\ clock + RecoveryWindow \in Times /\ clock + Fallback \in Times
           /\ {"resolve", "candidate", "wait", "snapshot", "delete", "done", "failed"}
                  \subseteq ClientPlaces
BY TimeIsNat, Numbers DEF Times, ClientPlaces

LEMMA ClientSteps ==
    ASSUME ReadbackInv, Backdrop, client' \in Client,
           request' \in Endpoints \union {NoRequest},
           Own \in client'.rejected => chats'[Own] = Deleted \/ "other" \in chats'[Own].users,
           client'.chat \in {"none", Own},
           client'.capture # Absent => Valid(client'.capture),
           ClientHasOwn', AsksRightly', KnowsWhenDue'
    PROVE  ReadbackInv'
<1>1. ReadbackTypeOK'
    BY DEF ReadbackInv, OwnTurnOnly, ReadbackTypeOK, Backdrop
<1>2. ForeignStay'
    BY ReadbackAssumption DEF ReadbackInv, ForeignStay, Backdrop, Chats
<1>3. ASSUME NEW c \in Chats, request' = Deleting(c)
      PROVE  c = Own /\ client'.capture # Absent
    <2>1. client'.at = "delete"
        BY <1>1, <1>3, EndpointFacts
        DEF AsksRightly, ReadbackTypeOK, Client, ClientPlaces, Waiting
    <2> QED BY <1>3, <2>1, EndpointFacts DEF AsksRightly, ClientHasOwn
<1>4. OwnTurnOnly'
    BY <1>1, <1>3 DEF OwnTurnOnly, Deleting
<1> QED BY <1>2, <1>4 DEF ReadbackInv

\* The client gives up, or is done.
LEMMA Stops ==
    ASSUME ReadbackInv, Backdrop, client' \in Client, client'.at \in {"failed", "done"},
           client'.chat = client.chat, client'.capture = client.capture,
           client'.rejected = client.rejected, request' = NoRequest
    PROVE  ReadbackInv'
<1>1. ClientHasOwn' /\ AsksRightly' /\ KnowsWhenDue'
    BY EndpointFacts DEF ReadbackInv, ClientHasOwn, AsksRightly, KnowsWhenDue, Searching, Waiting
<1>2. Own \in client'.rejected => chats'[Own] = Deleted \/ "other" \in chats'[Own].users
    BY DEF ReadbackInv, OwnTurnOnly, Backdrop
<1> QED BY <1>1, <1>2, ClientSteps DEF ReadbackInv, OwnTurnOnly

\* What was asked is answered, and the search goes on.
LEMMA SearchesOn ==
    ASSUME ReadbackInv, Backdrop, Searching, request # NoRequest, request' = NoRequest,
           client' \in Client, client'.at = "resolve", client'.tries = client.tries,
           client'.chat = client.chat, client'.capture = client.capture,
           Own \in client'.rejected => chats'[Own] = Deleted \/ "other" \in chats'[Own].users,
           told'[request] <= client'.wake,
           \A e \in Endpoints \ {request} : told'[e] = told[e],
           \A c \in Chats : Reading(c) # request => client'.next[c] = client.next[c]
    PROVE  ReadbackInv'
<1>1. ClientHasOwn'
    BY DEF ReadbackInv, ClientHasOwn, Searching, Waiting
<1>2. AsksRightly'
    BY EndpointFacts DEF AsksRightly, Waiting
<1>3. client.wake <= clock /\ request \in Endpoints
    BY DEF ReadbackInv, OwnTurnOnly, ReadbackTypeOK, KnowsWhenDue
<1>4. /\ told'[TheList] = told[TheList] \/ told'[TheList] <= client'.wake
      /\ Due(TheList) \/ told[TheList] <= client.wake
    BY EndpointFacts DEF ReadbackInv, KnowsWhenDue
<1>5. ASSUME NEW c \in Chats
      PROVE  \/ told'[Reading(c)] <= clock \/ told'[Reading(c)] <= client'.wake
             \/ c = tab.route /\ told'[Reading(c)] <= client'.next[c]
    <2>1. CASE Reading(c) = request
        BY <2>1
    <2>2. CASE Reading(c) # request
        <3>1. told'[Reading(c)] = told[Reading(c)] /\ client'.next[c] = client.next[c]
            BY <2>2, EndpointFacts
        <3>2. \/ Due(Reading(c)) \/ told[Reading(c)] <= client.wake
              \/ c = tab.route /\ told[Reading(c)] <= client.next[c]
            BY DEF ReadbackInv, KnowsWhenDue
        <3> QED BY <1>3, <3>1, <3>2, TimeIsNat, EndpointFacts
                DEF ReadbackInv, OwnTurnOnly, Due
    <2> QED BY <2>1, <2>2
<1>6. told'[TheList] <= clock \/ told'[TheList] <= client'.wake
    BY <1>3, <1>4, TimeIsNat, EndpointFacts DEF ReadbackInv, OwnTurnOnly, Due
<1>7. told'[Deleting(Own)] = 0
    BY EndpointFacts DEF ReadbackInv, KnowsWhenDue, AsksRightly, Searching, OwnTurnOnly, ReadbackTypeOK
<1>8. KnowsWhenDue'
    BY <1>5, <1>6, <1>7 DEF KnowsWhenDue, Searching, Waiting, Due, Backdrop, Reading, Deleting
<1> QED BY <1>1, <1>2, <1>8, ClientSteps DEF ReadbackInv, OwnTurnOnly

\* The conversation is found, or its end is, and a readback comes next; what
\* was told about the endpoint is kept in allowed, or is over.
LEMMA Waits ==
    ASSUME ReadbackInv, Backdrop, client' \in Client, client'.at \in {"wait", "snapshot"},
           client.at \notin {"delete", "done", "failed"},
           client'.tries = client.tries, client'.chat = Own, client'.capture = client.capture,
           client'.rejected = client.rejected,
           request' = NoRequest \/ (request' = Reading(Own) /\ client'.wake <= clock
                                    /\ told'[Reading(Own)] <= clock),
           told'[Reading(Own)] <= clock \/ told'[Reading(Own)] <= client'.allowed,
           told'[Deleting(Own)] = told[Deleting(Own)]
    PROVE  ReadbackInv'
<1>1. Searching \/ Waiting
    BY DEF ReadbackInv, OwnTurnOnly, ReadbackTypeOK, Client, ClientPlaces, Searching, Waiting
<1>2. ClientHasOwn'
    BY <1>1 DEF ReadbackInv, ClientHasOwn, Searching, Waiting
<1>3. AsksRightly' /\ request' \in Endpoints \union {NoRequest}
    BY EndpointFacts DEF AsksRightly, Waiting, Reading
<1>4. KnowsWhenDue'
    BY <1>1, EndpointFacts
    DEF ReadbackInv, KnowsWhenDue, Searching, Waiting, Due, Backdrop, Reading, Deleting
<1>5. Own \in client'.rejected => chats'[Own] = Deleted \/ "other" \in chats'[Own].users
    BY DEF ReadbackInv, OwnTurnOnly, Backdrop
<1> QED BY <1>2, <1>3, <1>4, <1>5, ClientSteps DEF ReadbackInv, OwnTurnOnly

\* A capture: what is valid is ours, and nobody was told yet about deleting.
LEMMA Captures ==
    ASSUME ReadbackInv, Backdrop, Waiting, request' = NoRequest,
           NEW content \in Contents, Valid(content), Capture(content),
           told'[Deleting(Own)] = told[Deleting(Own)]
    PROVE  ReadbackInv'
<1>1. client \in Client /\ content # Absent
    BY ContentFacts DEF ReadbackInv, OwnTurnOnly, ReadbackTypeOK
<1>2. client' \in Client
    BY <1>1, Moments DEF ReadbackInv, OwnTurnOnly, Capture, Client
<1>3. /\ client'.at = "delete" /\ client'.chat = client.chat /\ client'.capture = content
      /\ client'.tries = client.tries /\ client'.rejected = client.rejected
    BY <1>1 DEF Capture, Client
<1>4. ClientHasOwn' /\ AsksRightly'
    BY <1>1, <1>3, EndpointFacts DEF ReadbackInv, ClientHasOwn, AsksRightly, Searching, Waiting
<1>5. told'[Deleting(Own)] <= clock
    BY TimeIsNat, EndpointFacts DEF ReadbackInv, OwnTurnOnly, KnowsWhenDue, Waiting
<1>6. KnowsWhenDue'
    BY <1>3, <1>5 DEF KnowsWhenDue, Searching, Waiting, Due, Backdrop, Deleting
<1>7. Own \in client'.rejected => chats'[Own] = Deleted \/ "other" \in chats'[Own].users
    BY <1>3 DEF ReadbackInv, OwnTurnOnly, Backdrop
<1> QED BY <1>2, <1>3, <1>4, <1>6, <1>7, ClientSteps DEF ReadbackInv, OwnTurnOnly

----------------------------------------------------------------------------
(* What a 429 tells, and how a search backs off. *)

\* The delay that a 429 asks for covers the time that it told.
LEMMA Told ==
    ASSUME ReadbackInv, request # NoRequest, NEW named \in RetryAfters \union {0},
           NotBefore(named), NEW delay, delay = (IF named = 0 THEN Fallback ELSE named)
    PROVE  /\ delay \in Nat
           /\ told' \in [Endpoints -> Times] /\ told'[request] <= clock + delay
           /\ \A e \in Endpoints \ {request} : told'[e] = told[e]
<1>1. delay \in Nat /\ named \in Nat
    BY Numbers
<1>2. clock \in Nat /\ request \in Endpoints /\ told \in [Endpoints -> Nat] /\ told[request] <= clock
    BY TimeIsNat DEF ReadbackInv, OwnTurnOnly, ReadbackTypeOK, Times, KnowsWhenDue, Due
<1>3. CASE named = 0
    BY <1>1, <1>2, <1>3 DEF NotBefore, Times
<1>4. CASE named # 0
    BY <1>1, <1>2, <1>4 DEF NotBefore, Times
<1> QED BY <1>3, <1>4

\* No limit, nothing new told: what was asked was due.
LEMMA NotTold ==
    ASSUME ReadbackInv, request # NoRequest, UNCHANGED told
    PROVE  /\ told' \in [Endpoints -> Times] /\ told'[request] <= clock
           /\ request \in Endpoints /\ client.wake <= clock
           /\ \A e \in Endpoints \ {request} : told'[e] = told[e]
BY DEF ReadbackInv, OwnTurnOnly, ReadbackTypeOK, KnowsWhenDue, Due

\* An answer that changes no conversation; the monitor may keep it.
LEMMA Answering ==
    ASSUME ReadbackInv, NEW c \in Chats, Answered, UNCHANGED chats,
           UNCHANGED tab \/ Snapshot(c), told' \in [Endpoints -> Times]
    PROVE  Backdrop /\ request' = NoRequest
<1>1. tab' \in [route : Routes, seen : [Chats -> Contents]] /\ tab'.route = tab.route
    BY DEF ReadbackInv, OwnTurnOnly, ReadbackTypeOK, Snapshot
<1> QED BY <1>1 DEF ReadbackInv, OwnTurnOnly, ReadbackTypeOK, Answered, Backdrop

LEMMA BacksOff ==
    ASSUME ReadbackTypeOK, NEW delay \in Nat, NEW route \in Chats \union {"none"},
           BackOff(delay, route)
    PROVE  /\ client' \in Client /\ client'.at \in {"resolve", "failed"}
           /\ client'.tries = client.tries /\ client'.chat = client.chat
           /\ client'.capture = client.capture /\ client'.rejected = client.rejected
           /\ client'.wake = clock + delay
           /\ \A c \in Chats \ {route} : client'.next[c] = client.next[c]
<1> DEFINE deadline == IF client.extended \/ clock + RecoveryWindow < client.deadline
                       THEN client.deadline ELSE clock + RecoveryWindow
           later == [client EXCEPT !.at = "resolve", !.extended = TRUE,
                                   !.deadline = deadline, !.wake = clock + delay]
<1>1. client \in Client /\ deadline \in Times
    BY Moments DEF ReadbackTypeOK, Client
<1>2. client' = IF clock + delay > deadline THEN [later EXCEPT !.at = "failed"]
                ELSE IF route = "none" THEN later
                ELSE [later EXCEPT !.next[route] = clock + delay]
    BY DEF BackOff
<1> HIDE DEF deadline
<1>3. later \in Client /\ later.at = "resolve" /\ later.tries = client.tries
      /\ later.chat = client.chat /\ later.capture = client.capture
      /\ later.rejected = client.rejected /\ later.wake = clock + delay
      /\ later.next = client.next
    BY <1>1, Moments DEF Client
<1> HIDE DEF later
<1>4. CASE client' = [later EXCEPT !.at = "failed"]
    BY <1>3, <1>4, Moments DEF Client
<1>5. CASE client' = later
    BY <1>3, <1>5
<1>6. CASE client' = [later EXCEPT !.next[route] = clock + delay] /\ route # "none"
    <2>1. route \in Chats
        BY <1>6
    <2> QED BY <1>3, <1>6, <2>1, Moments DEF Client
<1> QED BY <1>2, <1>4, <1>5, <1>6

----------------------------------------------------------------------------
(* The search. *)

\* Only the submitted message is in nobody else's conversation.
LEMMA OwnIsFound ==
    ASSUME ReadbackInv, NEW c \in Chats, chats[c].users = {"own"}
    PROVE  c = Own
BY DEF ReadbackInv, ForeignStay, Chats

LEMMA Backing ==
    ASSUME ReadbackInv, Searching, request # NoRequest, Backdrop, request' = NoRequest,
           NEW named \in RetryAfters \union {0}, NotBefore(named),
           NEW route \in Chats \union {"none"}, route \in Chats => request = Reading(route),
           BackOff(IF named = 0 THEN Fallback ELSE named, route)
    PROVE  ReadbackInv'
<1> DEFINE delay == IF named = 0 THEN Fallback ELSE named
<1>1. /\ delay \in Nat /\ told'[request] <= clock + delay
      /\ \A e \in Endpoints \ {request} : told'[e] = told[e]
    BY Told
<1> HIDE DEF delay
<1>2. /\ client' \in Client /\ client'.at \in {"resolve", "failed"}
      /\ client'.tries = client.tries /\ client'.chat = client.chat
      /\ client'.capture = client.capture /\ client'.rejected = client.rejected
      /\ client'.wake = clock + delay
      /\ \A c \in Chats \ {route} : client'.next[c] = client.next[c]
    <2>1. ReadbackTypeOK /\ BackOff(delay, route)
        BY DEF ReadbackInv, OwnTurnOnly, delay
    <2> QED BY <1>1, <2>1, BacksOff
<1>3. CASE client'.at = "failed"
    BY <1>2, <1>3, Stops
<1>4. CASE client'.at = "resolve"
    <2>1. \A c \in Chats : Reading(c) # request => client'.next[c] = client.next[c]
        BY <1>2
    <2>2. Own \in client'.rejected => chats'[Own] = Deleted \/ "other" \in chats'[Own].users
        BY <1>2 DEF ReadbackInv, OwnTurnOnly, Backdrop
    <2> QED BY <1>1, <1>2, <1>4, <2>1, <2>2, SearchesOn
<1> QED BY <1>2, <1>3, <1>4

\* Nothing is told; the search looks again a unit later.
LEMMA Retries ==
    ASSUME ReadbackInv, Searching, request # NoRequest, Backdrop, request' = NoRequest,
           UNCHANGED told, client' \in Client, client'.at = "resolve",
           client'.tries = client.tries, client'.chat = client.chat,
           client'.capture = client.capture,
           Own \in client'.rejected => chats'[Own] = Deleted \/ "other" \in chats'[Own].users,
           client'.wake = clock + 1,
           \A c \in Chats : Reading(c) # request => client'.next[c] = client.next[c]
    PROVE  ReadbackInv'
<1>1. told'[request] <= client'.wake
    BY NotTold, TimeIsNat DEF ReadbackInv, OwnTurnOnly, ReadbackTypeOK
<1> QED BY <1>1, NotTold, SearchesOn

LEMMA Gives ==
    ASSUME ReadbackTypeOK, NEW place \in ClientPlaces, Give(place)
    PROVE  /\ client' \in Client /\ client'.at = place
           /\ client'.tries = client.tries /\ client'.chat = client.chat
           /\ client'.capture = client.capture /\ client'.rejected = client.rejected
           /\ client'.wake = client.wake /\ client'.allowed = client.allowed
           /\ client'.next = client.next
BY DEF ReadbackTypeOK, Client, Give

LEMMA Failing ==
    ASSUME ReadbackInv, Backdrop, request' = NoRequest, ClientFails
    PROVE  ReadbackInv'
BY Gives, Stops, Moments DEF ClientFails, ReadbackInv, OwnTurnOnly

LEMMA Finds ==
    ASSUME ReadbackInv, Searching, Backdrop, request' = NoRequest, UNCHANGED told,
           NEW c \in Chats, request = Reading(c), chats[c].users = {"own"}, Found(c)
    PROVE  ReadbackInv'
<1>1. c = Own /\ client \in Client
    BY OwnIsFound DEF ReadbackInv, OwnTurnOnly, ReadbackTypeOK
<1>2. /\ client' \in Client /\ client'.at \in {"wait", "snapshot"} /\ client'.chat = Own
      /\ client'.tries = client.tries /\ client'.capture = client.capture
      /\ client'.rejected = client.rejected
    BY <1>1, Moments DEF ReadbackInv, OwnTurnOnly, Found, Client
<1>3. told'[Reading(Own)] <= clock /\ told'[Deleting(Own)] = told[Deleting(Own)]
    BY <1>1, NotTold, EndpointFacts
<1> QED BY <1>2, <1>3, Waits DEF Searching

LEMMA Looks ==
    ASSUME ReadbackInv, LookForConversation
    PROVE  ReadbackInv' /\ request' \in {request, NoRequest} \union {e \in Endpoints : Due(e)}
<1> USE DEF ReadbackInv, OwnTurnOnly
<1>1. /\ client.at = "resolve" /\ request = NoRequest /\ client.wake <= clock /\ Searching
      /\ Backdrop
    BY DEF LookForConversation, Awake, Searching, ReadbackTypeOK, Backdrop
<1>2. CASE ClientFails /\ UNCHANGED request
    BY <1>1, <1>2, Failing
<1>3. CASE /\ Durable /\ Sleep(client.next[tab.route]) /\ UNCHANGED request
           /\ clock < client.next[tab.route]
    <2>1. client.next[tab.route] \in Times
        BY <1>3 DEF ReadbackTypeOK, Client, Durable
    <2>2. /\ client' \in Client /\ client'.at = "resolve" /\ client'.tries = client.tries
          /\ client'.chat = client.chat /\ client'.capture = client.capture
          /\ client'.rejected = client.rejected /\ client'.next = client.next
          /\ client'.wake = client.next[tab.route]
        BY <1>1, <1>3, <2>1 DEF ReadbackTypeOK, Client, Sleep
    <2>3. ClientHasOwn' /\ AsksRightly'
        BY <1>1, <1>3, <2>2, EndpointFacts DEF ClientHasOwn, AsksRightly, Searching, Waiting
    <2>4. clock \in Nat /\ client.wake \in Nat /\ client'.wake \in Nat /\ client.wake <= client'.wake
        BY <1>1, <1>3, <2>1, <2>2, TimeIsNat DEF Times
    <2>5. \A e \in Endpoints : told[e] \in Nat
        BY TimeIsNat
    <2>6. Due(TheList) \/ told[TheList] <= client'.wake
        BY <1>1, <2>4, <2>5, EndpointFacts DEF KnowsWhenDue, Due
    <2>7. ASSUME NEW c \in Chats
          PROVE  \/ Due(Reading(c)) \/ told[Reading(c)] <= client'.wake
                 \/ c = tab.route /\ told[Reading(c)] <= client'.next[c]
        BY <1>1, <2>2, <2>4, <2>5, EndpointFacts DEF KnowsWhenDue, Due
    <2>8. UNCHANGED <<told, request, clock>> /\ tab'.route = tab.route
        BY <1>1, <1>3 DEF LookForConversation
    <2>9. told[Deleting(Own)] = 0
        BY <1>1 DEF KnowsWhenDue
    <2>10. KnowsWhenDue'
        BY <1>1, <2>2, <2>6, <2>7, <2>8, <2>9
        DEF KnowsWhenDue, Searching, Waiting, Due, Reading, Deleting
    <2>11. Own \in client'.rejected => chats'[Own] = Deleted \/ "other" \in chats'[Own].users
        BY <1>1, <2>2 DEF Backdrop
    <2> QED BY <1>1, <1>3, <2>2, <2>3, <2>10, <2>11, ClientSteps
<1>4. CASE /\ Ask(IF Durable THEN <<"read", tab.route>> ELSE TheList) /\ UNCHANGED client
           /\ ~(Durable /\ clock < client.next[tab.route])
    <2> DEFINE asked == IF Durable THEN Reading(tab.route) ELSE TheList
    <2>1. /\ request' = asked /\ asked \in Endpoints
          /\ Durable => tab.route \in Chats
        BY <1>4, EndpointFacts DEF Ask, Durable, Reading
    <2>2. Due(asked)
        BY <1>1, <1>4, TimeIsNat, EndpointFacts DEF KnowsWhenDue, Due, Durable
    <2>3. UNCHANGED <<told, client, clock>> /\ tab' = tab
        BY <1>4 DEF LookForConversation
    <2>4. AsksRightly' /\ ClientHasOwn'
        BY <1>1, <2>1, <2>3, EndpointFacts
        DEF AsksRightly, ClientHasOwn, Searching, Waiting, Durable, Reading
    <2>5. Due(asked)'
        BY <2>2, <2>3 DEF Due, Reading, TheList, Durable
    <2>6. KnowsWhenDue'
        BY <1>1, <2>1, <2>2, <2>3
        DEF KnowsWhenDue, Searching, Waiting, Due, Reading, Deleting
    <2>7. Own \in client'.rejected => chats'[Own] = Deleted \/ "other" \in chats'[Own].users
        BY <1>1, <2>3 DEF Backdrop
    <2> QED BY <1>1, <2>1, <2>2, <2>3, <2>4, <2>6, <2>7, ClientSteps DEF ReadbackTypeOK
<1> QED BY <1>1, <1>2, <1>3, <1>4 DEF LookForConversation

LEMMA RouteAnswers ==
    ASSUME ReadbackInv, NEW c \in Chats, RouteAnswered(c)
    PROVE  ReadbackInv' /\ request' = NoRequest
<1>1. /\ client.at = "resolve" /\ Searching /\ request = Reading(c) /\ request # NoRequest
      /\ Answered /\ UNCHANGED chats /\ request' = NoRequest
    BY EndpointFacts DEF RouteAnswered, Read, Answered, Searching, Reading
<1>2. CASE /\ UNCHANGED tab
           /\ \E named \in RetryAfters \union {0} :
                 NotBefore(named) /\ BackOff(IF named = 0 THEN Fallback ELSE named, c)
    <2>1. PICK named \in RetryAfters \union {0} :
                 NotBefore(named) /\ BackOff(IF named = 0 THEN Fallback ELSE named, c)
        BY <1>2
    <2>2. Backdrop
        BY <1>1, <1>2, <2>1, Told, Answering
    <2> QED BY <1>1, <2>1, <2>2, Backing
<1> DEFINE again == client' = [client EXCEPT !.next[c] = clock + 1, !.wake = clock + 1]
<1>3. ASSUME again, UNCHANGED told, UNCHANGED tab \/ Snapshot(c) PROVE ReadbackInv'
    <2>1. Backdrop
        BY <1>1, <1>3, NotTold, Answering
    <2>2. /\ client' \in Client /\ client'.at = "resolve" /\ client'.tries = client.tries
          /\ client'.chat = client.chat /\ client'.capture = client.capture
          /\ client'.rejected = client.rejected /\ client'.wake = clock + 1
          /\ \A d \in Chats \ {c} : client'.next[d] = client.next[d]
        BY <1>1, <1>3, Moments DEF ReadbackInv, OwnTurnOnly, ReadbackTypeOK, Client
    <2>3. Own \in client'.rejected => chats'[Own] = Deleted \/ "other" \in chats'[Own].users
        BY <2>1, <2>2 DEF ReadbackInv, OwnTurnOnly, Backdrop
    <2> QED BY <1>1, <1>3, <2>1, <2>2, <2>3, Retries
<1>4. CASE ClientFails /\ UNCHANGED <<told, tab>>
    BY <1>1, <1>4, NotTold, Answering, Failing
<1>5. CASE Snapshot(c) /\ UNCHANGED told /\ chats[c].users = {"own"} /\ Found(c)
    BY <1>1, <1>5, NotTold, Answering, Finds
<1> HIDE DEF again
<1>6. \/ /\ \E named \in RetryAfters \union {0} :
               NotBefore(named) /\ BackOff(IF named = 0 THEN Fallback ELSE named, c)
         /\ UNCHANGED tab
      \/ (ClientFails \/ again) /\ UNCHANGED <<told, tab>>
      \/ /\ Snapshot(c) /\ UNCHANGED told
         /\ again \/ (chats[c].users = {"own"} /\ Found(c))
    BY DEF RouteAnswered, Limited, Errors, again
<1> QED BY <1>1, <1>2, <1>3, <1>4, <1>5, <1>6

LEMMA ListAnswers ==
    ASSUME ReadbackInv, ListAnswered
    PROVE  ReadbackInv' /\ request' \in {NoRequest} \union {e \in Endpoints : Due(e)}
<1> USE DEF ReadbackInv, OwnTurnOnly
<1>1. /\ client.at = "resolve" /\ Searching /\ request = TheList /\ request # NoRequest
      /\ UNCHANGED <<clock, chats, tab, stream, restarts>>
    BY EndpointFacts DEF ListAnswered, Searching
<1>2. told' \in [Endpoints -> Times] => Backdrop
    BY <1>1 DEF ReadbackTypeOK, Backdrop
<1>3. CASE /\ request' = NoRequest
           /\ \E named \in RetryAfters \union {0} :
                 NotBefore(named) /\ BackOff(IF named = 0 THEN Fallback ELSE named, "none")
    <2>1. PICK named \in RetryAfters \union {0} :
                 NotBefore(named) /\ BackOff(IF named = 0 THEN Fallback ELSE named, "none")
        BY <1>3
    <2>2. Backdrop
        BY <1>1, <1>2, <2>1, Told
    <2> QED BY <1>1, <1>3, <2>1, <2>2, Backing, EndpointFacts
<1>4. CASE (ClientFails \/ PollAgain) /\ UNCHANGED told /\ request' = NoRequest
    <2>1. Backdrop
        BY <1>1, <1>2, <1>4, NotTold
    <2>2. CASE PollAgain
        <3>1. /\ client' \in Client /\ client'.at = "resolve" /\ client'.tries = client.tries
              /\ client'.chat = client.chat /\ client'.capture = client.capture
              /\ client'.rejected = client.rejected /\ client'.wake = clock + 1
              /\ client'.next = client.next
            BY <2>2, Moments DEF ReadbackTypeOK, Client, PollAgain
        <3>2. Own \in client'.rejected => chats'[Own] = Deleted \/ "other" \in chats'[Own].users
            BY <2>1, <3>1 DEF Backdrop
        <3> QED BY <1>1, <1>4, <2>1, <3>1, <3>2, Retries
    <2>3. CASE ClientFails
        BY <1>4, <2>1, <2>3, Failing
    <2> QED BY <1>4, <2>2, <2>3
<1>5. CASE /\ \E c \in Chats : Ask(<<"read", c>>)
           /\ Give("candidate") /\ UNCHANGED told
    <2>1. PICK c \in Chats : request' = Reading(c)
        BY <1>5 DEF Ask, Reading
    <2>2. Backdrop
        BY <1>1, <1>2, <1>5, NotTold
    <2>3. /\ client' \in Client /\ client'.at = "candidate" /\ client'.tries = client.tries
          /\ client'.chat = client.chat /\ client'.capture = client.capture
          /\ client'.rejected = client.rejected /\ client'.wake = client.wake
          /\ client'.next = client.next
        BY <1>5, Gives, Moments
    <2>4. \A d \in Chats : Due(Reading(d))
        <3>1. client.wake <= clock /\ tab.route \notin Chats
            BY <1>1 DEF KnowsWhenDue, AsksRightly
        <3>2. ASSUME NEW d \in Chats PROVE Due(Reading(d))
            <4>1. Due(Reading(d)) \/ told[Reading(d)] <= client.wake
                BY <1>1, <3>1 DEF KnowsWhenDue
            <4> QED BY <3>1, <4>1, TimeIsNat, EndpointFacts DEF Due
        <3> QED BY <3>2
    <2>5. ClientHasOwn' /\ AsksRightly'
        BY <1>1, <2>1, <2>3, EndpointFacts
        DEF ClientHasOwn, AsksRightly, Searching, Waiting, Reading
    <2>6. Due(TheList) \/ told[TheList] <= client.wake
        BY <1>1 DEF KnowsWhenDue
    <2>7. client.wake <= clock /\ told[Deleting(Own)] = 0
        BY <1>1 DEF KnowsWhenDue
    <2>8. KnowsWhenDue'
        BY <1>1, <1>5, <2>1, <2>3, <2>4, <2>6, <2>7
        DEF KnowsWhenDue, Searching, Waiting, Due, Reading, Deleting, TheList
    <2>9. Own \in client'.rejected => chats'[Own] = Deleted \/ "other" \in chats'[Own].users
        BY <2>2, <2>3 DEF Backdrop
    <2> QED BY <2>1, <2>2, <2>3, <2>4, <2>5, <2>8, <2>9, ClientSteps, EndpointFacts
<1>6. \/ /\ \E named \in RetryAfters \union {0} :
               NotBefore(named) /\ BackOff(IF named = 0 THEN Fallback ELSE named, "none")
         /\ request' = NoRequest
      \/ (ClientFails \/ PollAgain) /\ UNCHANGED told /\ request' = NoRequest
      \/ /\ \E c \in Chats : Ask(<<"read", c>>)
         /\ Give("candidate") /\ UNCHANGED told
    BY DEF ListAnswered, Limited, Errors
<1> QED BY <1>3, <1>4, <1>5, <1>6

LEMMA CandidateAnswers ==
    ASSUME ReadbackInv, NEW c \in Chats, CandidateAnswered(c)
    PROVE  ReadbackInv' /\ request' = NoRequest
<1>1. /\ client.at = "candidate" /\ Searching /\ request = Reading(c) /\ request # NoRequest
      /\ Answered /\ UNCHANGED chats /\ request' = NoRequest
    BY EndpointFacts DEF CandidateAnswered, Read, Answered, Searching, Reading
<1>2. CASE /\ UNCHANGED tab
           /\ \E named \in RetryAfters \union {0} :
                 NotBefore(named) /\ BackOff(IF named = 0 THEN Fallback ELSE named, "none")
    <2>1. PICK named \in RetryAfters \union {0} :
                 NotBefore(named) /\ BackOff(IF named = 0 THEN Fallback ELSE named, "none")
        BY <1>2
    <2>2. Backdrop
        BY <1>1, <1>2, <2>1, Told, Answering
    <2> QED BY <1>1, <2>1, <2>2, Backing, EndpointFacts
<1> DEFINE next == client' = [client EXCEPT !.at = "resolve", !.wake = clock + 1,
                       !.rejected = IF Excluded(chats[c].users) THEN @ \union {c} ELSE @]
<1>3. CASE PollAgain /\ UNCHANGED <<told, tab>>
    <2>1. Backdrop
        BY <1>1, <1>3, NotTold, Answering
    <2>2. /\ client' \in Client /\ client'.at = "resolve" /\ client'.tries = client.tries
          /\ client'.chat = client.chat /\ client'.capture = client.capture
          /\ client'.rejected = client.rejected /\ client'.wake = clock + 1
          /\ client'.next = client.next
        BY <1>3, Moments DEF ReadbackInv, OwnTurnOnly, ReadbackTypeOK, Client, PollAgain
    <2>3. Own \in client'.rejected => chats'[Own] = Deleted \/ "other" \in chats'[Own].users
        BY <2>1, <2>2 DEF ReadbackInv, OwnTurnOnly, Backdrop
    <2> QED BY <1>1, <1>3, <2>1, <2>2, <2>3, Retries
<1>4. CASE ClientFails /\ UNCHANGED <<told, tab>>
    BY <1>1, <1>4, NotTold, Answering, Failing
<1>5. CASE Snapshot(c) /\ UNCHANGED told /\ chats[c].users = {"own"} /\ Found(c)
    BY <1>1, <1>5, NotTold, Answering, Finds
<1>6. CASE Snapshot(c) /\ UNCHANGED told /\ chats[c].users # {"own"} /\ next
    <2>1. Backdrop
        BY <1>1, <1>6, NotTold, Answering
    <2>2. /\ client' \in Client /\ client'.at = "resolve" /\ client'.tries = client.tries
          /\ client'.chat = client.chat /\ client'.capture = client.capture
          /\ client'.wake = clock + 1 /\ client'.next = client.next
          /\ client'.rejected \subseteq client.rejected \union {c}
          /\ c \in client'.rejected => c \in client.rejected \/ chats[c].users # {}
        BY <1>6, Moments DEF ReadbackInv, OwnTurnOnly, ReadbackTypeOK, Client, Excluded
    <2>3. chats[c].users # {} => chats[c].users = {"own"} \/ "other" \in chats[c].users
        BY ContentFacts DEF ReadbackInv, OwnTurnOnly, ReadbackTypeOK
    <2>4. Own \in client'.rejected => chats'[Own] = Deleted \/ "other" \in chats'[Own].users
        BY <1>1, <1>6, <2>2, <2>3 DEF ReadbackInv, OwnTurnOnly
    <2> QED BY <1>1, <1>6, <2>1, <2>2, <2>4, Retries
<1> HIDE DEF next
<1>7. \/ /\ \E named \in RetryAfters \union {0} :
               NotBefore(named) /\ BackOff(IF named = 0 THEN Fallback ELSE named, "none")
         /\ UNCHANGED tab
      \/ (ClientFails \/ PollAgain) /\ UNCHANGED <<told, tab>>
      \/ /\ Snapshot(c) /\ UNCHANGED told
         /\ \/ chats[c].users # {"own"} /\ next
            \/ chats[c].users = {"own"} /\ Found(c)
    BY DEF CandidateAnswered, Limited, Errors, next
<1> QED BY <1>1, <1>2, <1>3, <1>4, <1>5, <1>6, <1>7

----------------------------------------------------------------------------
(* Waiting for the end, and reading it back. *)

\* A step of a waiting client that changes nothing but itself and what it asks.
LEMMA Alone ==
    ASSUME ReadbackInv, UNCHANGED <<clock, chats, tab, stream, told, restarts>>
    PROVE  Backdrop
BY DEF ReadbackInv, OwnTurnOnly, ReadbackTypeOK, Backdrop

LEMMA WaitingFacts ==
    ASSUME ReadbackInv, Waiting
    PROVE  /\ client \in Client /\ client.chat = Own /\ client.at \notin {"delete", "done", "failed"}
           /\ Due(Reading(Own)) \/ told[Reading(Own)] <= client.allowed
           /\ told[Reading(Own)] \in Nat /\ clock \in Nat /\ client.allowed \in Nat
           /\ tab.seen[Own] \in Contents
BY TimeIsNat, EndpointFacts
DEF ReadbackInv, OwnTurnOnly, ReadbackTypeOK, ClientHasOwn, KnowsWhenDue, Waiting

\* Asleep until the readback is allowed, or asking for it because it is.
LEMMA ReadsBack ==
    ASSUME ReadbackInv, Waiting, request = NoRequest, client.wake <= clock,
           UNCHANGED <<clock, chats, tab, stream, told, restarts>>,
           \/ Sleep(client.allowed) /\ UNCHANGED request
           \/ MayRead /\ Ask(<<"read", client.chat>>) /\ UNCHANGED client
    PROVE  ReadbackInv' /\ request' \in {NoRequest} \union {e \in Endpoints : Due(e)}
<1>1. Backdrop
    BY Alone
<1>2. CASE Sleep(client.allowed) /\ UNCHANGED request
    <2>1. /\ client' \in Client /\ client'.at = client.at /\ client'.chat = Own
          /\ client'.tries = client.tries /\ client'.capture = client.capture
          /\ client'.rejected = client.rejected /\ client'.allowed = client.allowed
        BY <1>2, WaitingFacts DEF Client, Sleep
    <2> QED BY <1>1, <1>2, <2>1, WaitingFacts, Waits DEF Waiting, Due
<1>3. CASE MayRead /\ Ask(<<"read", client.chat>>) /\ UNCHANGED client
    <2>1. request' = Reading(Own) /\ Due(Reading(Own))
        BY <1>3, WaitingFacts DEF Ask, MayRead, Reading, Due
    <2>2. told'[Reading(Own)] <= clock /\ told'[Deleting(Own)] = told[Deleting(Own)]
        BY <2>1 DEF Due
    <2>3. ReadbackInv'
        BY <1>1, <1>3, <2>1, <2>2, WaitingFacts, Waits
        DEF ReadbackInv, OwnTurnOnly, ReadbackTypeOK, Waiting
    <2> QED BY <2>1, <2>3, EndpointFacts
<1> QED BY <1>2, <1>3

LEMMA SeesTheEnd ==
    ASSUME ReadbackInv, StreamSeenWhole \/ StreamSeenBroken
    PROVE  ReadbackInv' /\ request' = NoRequest
<1>1. /\ client.at = "wait" /\ Waiting /\ request = NoRequest /\ request' = NoRequest
      /\ UNCHANGED <<clock, chats, tab, stream, told, restarts>>
    BY DEF StreamSeenWhole, StreamSeenBroken, Waiting
<1>2. Backdrop
    BY <1>1, Alone
<1>3. CASE ClientFails
    BY <1>1, <1>2, <1>3, Failing
<1>4. CASE Valid(tab.seen[Own]) /\ Capture(tab.seen[Own])
    BY <1>1, <1>2, <1>4, WaitingFacts, Captures
<1>5. CASE \/ client' = [client EXCEPT !.at = "snapshot", !.wake = clock,
                             !.deadline = clock + RecoveryWindow]
           \/ client' = [client EXCEPT !.error = TRUE, !.wake = clock,
                             !.deadline = clock + RecoveryWindow]
    <2>1. /\ client' \in Client /\ client'.at \in {"wait", "snapshot"} /\ client'.chat = Own
          /\ client'.tries = client.tries /\ client'.capture = client.capture
          /\ client'.rejected = client.rejected /\ client'.allowed = client.allowed
        BY <1>1, <1>5, WaitingFacts, Moments DEF Client, ReadbackInv, OwnTurnOnly
    <2> QED BY <1>1, <1>2, <2>1, WaitingFacts, Waits DEF Due
<1> QED BY <1>1, <1>3, <1>4, <1>5 DEF StreamSeenWhole, StreamSeenBroken

LEMMA Polls ==
    ASSUME ReadbackInv, PollSnapshot \/ FetchSnapshot
    PROVE  ReadbackInv' /\ request' \in {NoRequest} \union {e \in Endpoints : Due(e)}
<1>1. /\ Waiting /\ request = NoRequest /\ client.wake <= clock /\ client.chat = Own
      /\ UNCHANGED <<clock, chats, tab, stream, told, restarts>>
    BY WaitingFacts DEF PollSnapshot, FetchSnapshot, Awake, Waiting
<1>2. CASE ClientFails /\ UNCHANGED request
    BY <1>1, <1>2, Alone, Failing
<1>3. CASE Valid(tab.seen[Own]) /\ Capture(tab.seen[Own]) /\ UNCHANGED request
    BY <1>1, <1>3, Alone, WaitingFacts, Captures
<1>4. CASE \/ Sleep(client.allowed) /\ UNCHANGED request
           \/ MayRead /\ Ask(<<"read", client.chat>>) /\ UNCHANGED client
    BY <1>1, <1>4, ReadsBack
<1> QED BY <1>1, <1>2, <1>3, <1>4 DEF PollSnapshot, FetchSnapshot

\* A readback that was refused: not before it is allowed again.
LEMMA Refused ==
    ASSUME ReadbackInv, Waiting, NEW c \in Chats, request = Reading(c), Backdrop,
           request' = NoRequest,
           NEW named \in RetryAfters \union {0}, NotBefore(named),
           NEW place \in {client.at, "failed"}, NEW delay,
           delay = (IF named = 0 THEN Fallback ELSE named),
           client' = [client EXCEPT !.allowed = clock + delay, !.wake = clock + delay,
                                    !.at = place]
    PROVE  ReadbackInv'
<1>1. request # NoRequest /\ request = Reading(Own)
    BY EndpointFacts DEF ReadbackInv, AsksRightly
<1>2. /\ delay \in Nat /\ told'[Reading(Own)] <= clock + delay
      /\ told'[Deleting(Own)] = told[Deleting(Own)]
    BY <1>1, Told, EndpointFacts
<1>3. /\ client' \in Client /\ client'.at = place /\ client'.chat = Own
      /\ client'.tries = client.tries /\ client'.capture = client.capture
      /\ client'.rejected = client.rejected /\ client'.allowed = clock + delay
    BY <1>2, WaitingFacts, Moments DEF Client, ReadbackInv, OwnTurnOnly, Waiting
<1>4. CASE place = "failed"
    BY <1>3, <1>4, WaitingFacts, Stops
<1>5. CASE place = client.at
    BY <1>2, <1>3, <1>5, WaitingFacts, Waits DEF Waiting
<1> QED BY <1>4, <1>5

LEMMA ReadbackAnswers ==
    ASSUME ReadbackInv, NEW c \in Chats, PollAnswered(c) \/ SnapshotAnswered(c)
    PROVE  ReadbackInv' /\ request' = NoRequest
<1>1. /\ Waiting /\ request = Reading(c) /\ Answered /\ UNCHANGED chats
      /\ request' = NoRequest
    BY DEF PollAnswered, SnapshotAnswered, Read, Reading, Answered, Waiting
<1>2. request # NoRequest /\ c = Own /\ chats[c] \in Contents
    BY <1>1, EndpointFacts DEF ReadbackInv, AsksRightly, OwnTurnOnly, ReadbackTypeOK
<1>3. CASE /\ UNCHANGED tab
           /\ \E named \in RetryAfters \union {0}, place \in {client.at, "failed"} :
                  LET delay == IF named = 0 THEN Fallback ELSE named IN
                  /\ NotBefore(named)
                  /\ client' = [client EXCEPT !.allowed = clock + delay,
                                              !.wake = clock + delay, !.at = place]
    <2>1. PICK named \in RetryAfters \union {0}, place \in {client.at, "failed"} :
                  LET delay == IF named = 0 THEN Fallback ELSE named IN
                  /\ NotBefore(named)
                  /\ client' = [client EXCEPT !.allowed = clock + delay,
                                              !.wake = clock + delay, !.at = place]
        BY <1>3
    <2>2. Backdrop
        BY <1>1, <1>2, <1>3, <2>1, Told, Answering
    <2> QED BY <1>1, <2>1, <2>2, Refused
<1>4. ASSUME UNCHANGED told, UNCHANGED tab \/ Snapshot(c)
      PROVE  Backdrop /\ told'[Reading(Own)] <= clock /\ told'[Deleting(Own)] = told[Deleting(Own)]
    BY <1>1, <1>2, <1>4, NotTold, Answering
<1>5. CASE ClientFails /\ UNCHANGED told /\ (UNCHANGED tab \/ Snapshot(c))
    BY <1>1, <1>4, <1>5, Failing
<1>6. CASE Snapshot(c) /\ UNCHANGED told /\ Valid(chats[c]) /\ Capture(chats[c])
    BY <1>1, <1>2, <1>4, <1>6, Captures
<1>7. CASE /\ client' = [client EXCEPT !.allowed = 0, !.wake = clock + 1]
           /\ UNCHANGED told /\ (UNCHANGED tab \/ Snapshot(c))
    <2>1. /\ client' \in Client /\ client'.at = client.at /\ client'.chat = Own
          /\ client'.tries = client.tries /\ client'.capture = client.capture
          /\ client'.rejected = client.rejected
        BY <1>1, <1>7, WaitingFacts, Moments DEF Client, ReadbackInv, OwnTurnOnly
    <2> QED BY <1>1, <1>4, <1>7, <2>1, WaitingFacts, Waits DEF Waiting
<1>8. \/ ClientFails /\ UNCHANGED told /\ (UNCHANGED tab \/ Snapshot(c))
      \/ Snapshot(c) /\ UNCHANGED told /\ Valid(chats[c]) /\ Capture(chats[c])
      \/ /\ client' = [client EXCEPT !.allowed = 0, !.wake = clock + 1]
         /\ UNCHANGED told /\ (UNCHANGED tab \/ Snapshot(c))
      \/ /\ UNCHANGED tab
         /\ \E named \in RetryAfters \union {0}, place \in {client.at, "failed"} :
                LET delay == IF named = 0 THEN Fallback ELSE named IN
                /\ NotBefore(named)
                /\ client' = [client EXCEPT !.allowed = clock + delay,
                                            !.wake = clock + delay, !.at = place]
    <2>1. CASE PollAnswered(c)
        BY <2>1 DEF PollAnswered, Limited, Errors
    <2>2. CASE SnapshotAnswered(c)
        BY <2>2 DEF SnapshotAnswered, Limited, Errors
    <2> QED BY <2>1, <2>2
<1> QED BY <1>1, <1>3, <1>5, <1>6, <1>7, <1>8

----------------------------------------------------------------------------
(* The deletion, and a new runner. *)

LEMMA Deletes ==
    ASSUME ReadbackInv, DeleteConversation
    PROVE  ReadbackInv' /\ request' \in {e \in Endpoints : Due(e)}
<1>1. /\ client.at = "delete" /\ request = NoRequest /\ client.wake <= clock
      /\ client.chat = Own /\ client.capture # Absent /\ client.tries <= 2
      /\ request' = Deleting(Own) /\ UNCHANGED client
      /\ UNCHANGED <<clock, chats, tab, stream, told, restarts>>
    BY DEF ReadbackInv, ClientHasOwn, DeleteConversation, Awake, Ask, Deleting
<1>2. Due(Deleting(Own))
    BY <1>1, TimeIsNat, EndpointFacts
    DEF ReadbackInv, OwnTurnOnly, KnowsWhenDue, Due
<1>3. Backdrop /\ client \in Client
    BY <1>1, Alone DEF ReadbackInv, OwnTurnOnly, ReadbackTypeOK
<1>4. ClientHasOwn' /\ AsksRightly'
    BY <1>1, EndpointFacts
    DEF ReadbackInv, ClientHasOwn, AsksRightly, Searching, Waiting, Reading, Deleting
<1>5. KnowsWhenDue'
    BY <1>1, <1>2 DEF KnowsWhenDue, Searching, Waiting, Due, Reading, Deleting
<1>6. Own \in client'.rejected => chats'[Own] = Deleted \/ "other" \in chats'[Own].users
    BY <1>1 DEF ReadbackInv, OwnTurnOnly
<1> QED BY <1>1, <1>2, <1>3, <1>4, <1>5, <1>6, ClientSteps, EndpointFacts
        DEF ReadbackInv, OwnTurnOnly

LEMMA DeleteAnswers ==
    ASSUME ReadbackInv, NEW c \in Chats, DeleteAnswered(c)
    PROVE  ReadbackInv' /\ request' = NoRequest
<1>1. request = Deleting(c) /\ Answered /\ request' = NoRequest /\ UNCHANGED tab
    BY DEF DeleteAnswered, Answered, Deleting
<1>2. /\ c = Own /\ client.capture # Absent /\ request # NoRequest
      /\ client \in Client /\ client.at = "delete" /\ client.chat = Own
      /\ client.tries \in 0..2
    <2>1. c = Own /\ client.capture # Absent /\ request # NoRequest /\ client \in Client
        BY <1>1, EndpointFacts DEF ReadbackInv, OwnTurnOnly, ReadbackTypeOK, Deleting
    <2>2. client.at = "delete"
        BY <1>1, <2>1, EndpointFacts
        DEF ReadbackInv, AsksRightly, Client, ClientPlaces, Waiting
    <2> QED BY <2>1, <2>2 DEF ReadbackInv, ClientHasOwn, Client
<1>3. ASSUME UNCHANGED chats, told' \in [Endpoints -> Times] PROVE Backdrop
    BY <1>1, <1>3, Answering
<1>4. CASE /\ UNCHANGED chats
           /\ \E named \in RetryAfters \union {0}, place \in {"delete", "failed"} :
                  LET delay == IF named = 0 THEN Fallback ELSE named IN
                  /\ NotBefore(named)
                  /\ place = "failed" \/ client.tries # 2
                  /\ client' = [client EXCEPT !.tries = @ + 1, !.wake = clock + delay,
                                              !.at = place]
    <2>1. PICK named \in RetryAfters \union {0}, place \in {"delete", "failed"} :
                  LET delay == IF named = 0 THEN Fallback ELSE named IN
                  /\ NotBefore(named)
                  /\ place = "failed" \/ client.tries # 2
                  /\ client' = [client EXCEPT !.tries = @ + 1, !.wake = clock + delay,
                                              !.at = place]
        BY <1>4
    <2> DEFINE delay == IF named = 0 THEN Fallback ELSE named
    <2>2. /\ delay \in Nat /\ told' \in [Endpoints -> Times]
          /\ told'[Deleting(Own)] <= clock + delay
        BY <1>1, <1>2, <2>1, Told
    <2>3. client' = [client EXCEPT !.tries = @ + 1, !.wake = clock + delay, !.at = place]
        BY <2>1
    <2> HIDE DEF delay
    <2>4. Backdrop
        BY <1>3, <1>4, <2>2
    <2>5. /\ client' \in Client /\ client'.at = place /\ client'.tries = client.tries + 1
          /\ client'.wake = clock + delay /\ client'.chat = client.chat
          /\ client'.capture = client.capture /\ client'.rejected = client.rejected
        <3>1. clock + delay \in Times /\ client.tries + 1 \in 0..3 /\ place \in ClientPlaces
            BY <1>2, <2>2, Moments DEF ReadbackInv, OwnTurnOnly
        <3> QED BY <1>2, <2>3, <3>1 DEF Client
    <2>6. CASE place = "failed"
        BY <1>1, <2>4, <2>5, <2>6, Stops
    <2>7. CASE place = "delete"
        <3>1. client.tries # 2
            BY <2>1, <2>7
        <3>2. ClientHasOwn' /\ AsksRightly'
            BY <1>1, <1>2, <2>5, <2>7, <3>1, EndpointFacts
            DEF ClientHasOwn, AsksRightly, Searching, Waiting
        <3>3. KnowsWhenDue'
            BY <1>1, <2>2, <2>5, <2>7 DEF KnowsWhenDue, Searching, Waiting, Due, Deleting
        <3>4. Own \in client'.rejected => chats'[Own] = Deleted \/ "other" \in chats'[Own].users
            BY <2>4, <2>5 DEF ReadbackInv, OwnTurnOnly, Backdrop
        <3> QED BY <1>1, <1>2, <2>4, <2>5, <3>2, <3>3, <3>4, ClientSteps
                DEF ReadbackInv, OwnTurnOnly
    <2> QED BY <2>1, <2>6, <2>7
<1>5. CASE ClientFails /\ UNCHANGED <<told, chats>>
    BY <1>1, <1>2, <1>3, <1>5, NotTold, Failing
<1>6. CASE /\ Give("done") /\ chats' = [chats EXCEPT ![c] = Deleted]
           /\ UNCHANGED told
    <2>1. Backdrop
        BY <1>1, <1>2, <1>6, ContentFacts, EndpointFacts
        DEF ReadbackInv, OwnTurnOnly, ReadbackTypeOK, Answered, Backdrop
    <2> QED BY <1>1, <1>6, <2>1, Gives, Moments, Stops DEF ReadbackInv, OwnTurnOnly
<1>7. \/ ClientFails /\ UNCHANGED <<told, chats>>
      \/ /\ Give("done") /\ chats' = [chats EXCEPT ![c] = Deleted]
         /\ UNCHANGED told
      \/ /\ UNCHANGED chats
         /\ \E named \in RetryAfters \union {0}, place \in {"delete", "failed"} :
                LET delay == IF named = 0 THEN Fallback ELSE named IN
                /\ NotBefore(named)
                /\ place = "failed" \/ client.tries # 2
                /\ client' = [client EXCEPT !.tries = @ + 1, !.wake = clock + delay,
                                            !.at = place]
    BY <1>2 DEF DeleteAnswered, Limited, Errors
<1> QED BY <1>1, <1>4, <1>5, <1>6, <1>7

LEMMA Fresh ==
    ASSUME NEW place \in ClientPlaces, NEW mode \in {"turn", "recover"}, clock \in Times
    PROVE  /\ NewClient(place, mode) \in Client /\ NewClient(place, mode).at = place
           /\ NewClient(place, mode).rejected = {} /\ NewClient(place, mode).tries = 0
           /\ NewClient(place, mode).chat = "none"
           /\ NewClient(place, mode).capture = Absent
<1>1. [c \in Chats |-> 0] \in [Chats -> Times] /\ 0 \in Times /\ 0 \in 0..3
    BY DEF Times
<1>2. {} \in SUBSET Chats /\ Absent \in Contents
    BY ContentFacts
<1> QED BY <1>1, <1>2 DEF NewClient, Client

\* Whatever the new runner knows, nobody has told it anything.
LEMMA NewRunner ==
    ASSUME ReadbackInv, RunnerRestarts
    PROVE  ReadbackInv' /\ request' = NoRequest
<1> DEFINE place == IF client.capture # Absent THEN "delete"
                    ELSE IF client.chat # "none" THEN "snapshot" ELSE "resolve"
           window == IF place = "resolve" THEN Window
                     ELSE IF place = "delete" THEN Fallback ELSE RecoveryWindow
<1>1. /\ restarts < MaxRestarts /\ restarts' = restarts + 1
      /\ client' = [NewClient(place, "recover") EXCEPT !.chat = client.chat,
                        !.capture = client.capture, !.deadline = clock + window]
      /\ request' = NoRequest /\ told' = [e \in Endpoints |-> 0]
      /\ tab' = [tab EXCEPT !.seen = [c \in Chats |-> Absent]]
      /\ UNCHANGED <<clock, chats, stream>>
    BY DEF RunnerRestarts
<1>2. /\ place \in ClientPlaces /\ place \in {"delete", "snapshot", "resolve"}
      /\ clock + window \in Times /\ clock \in Times /\ 0 \in Times
    BY Moments, Numbers, TimeIsNat DEF ReadbackInv, OwnTurnOnly, Times
<1>3. /\ client.chat \in {"none", Own} /\ client.capture \in Contents
      /\ client.capture # Absent => client.chat = Own /\ Valid(client.capture)
    BY DEF ReadbackInv, OwnTurnOnly, ReadbackTypeOK, Client, ClientHasOwn
<1>4. /\ place = "delete" <=> client.capture # Absent
      /\ place = "snapshot" => client.chat = Own
    BY <1>3
<1> HIDE DEF place, window
<1>5. /\ client' \in Client /\ client'.at = place /\ client'.chat = client.chat
      /\ client'.capture = client.capture /\ client'.rejected = {} /\ client'.tries = 0
    <2> DEFINE fresh == NewClient(place, "recover")
    <2>1. /\ fresh \in Client /\ fresh.at = place /\ fresh.rejected = {} /\ fresh.tries = 0
        BY <1>2, Fresh
    <2>2. client.chat \in Chats \union {"none"}
        BY <1>3, EndpointFacts
    <2> HIDE DEF fresh
    <2>3. client' = [fresh EXCEPT !.chat = client.chat, !.capture = client.capture,
                                  !.deadline = clock + window]
        BY <1>1 DEF fresh
    <2> QED BY <1>2, <1>3, <2>1, <2>2, <2>3 DEF Client
<1>6. Backdrop
    <2>1. restarts' \in 0..MaxRestarts
        BY <1>1, Numbers DEF ReadbackInv, OwnTurnOnly, ReadbackTypeOK
    <2>2. tab' \in [route : Routes, seen : [Chats -> Contents]] /\ tab'.route = tab.route
        BY <1>1, ContentFacts DEF ReadbackInv, OwnTurnOnly, ReadbackTypeOK
    <2> QED BY <1>1, <1>2, <2>1, <2>2
            DEF ReadbackInv, OwnTurnOnly, ReadbackTypeOK, Backdrop
<1>7. ClientHasOwn' /\ AsksRightly'
    BY <1>1, <1>2, <1>3, <1>4, <1>5, EndpointFacts
    DEF ClientHasOwn, AsksRightly, Searching, Waiting
<1>8. \A e \in Endpoints : told'[e] = 0 /\ told'[e] <= clock
    BY <1>1, <1>2 DEF Times
<1>9. KnowsWhenDue'
    BY <1>1, <1>8, EndpointFacts DEF KnowsWhenDue, Due, Reading, Deleting
<1> QED BY <1>1, <1>3, <1>5, <1>6, <1>7, <1>9, ClientSteps

----------------------------------------------------------------------------
(* The theorems. *)

\* Every step keeps the invariant, and asks nothing that is not due.
LEMMA ReadbackStep ==
    ASSUME ReadbackInv, ReadbackNext
    PROVE  /\ ReadbackInv'
           /\ request' \in {request, NoRequest} \union {e \in Endpoints : Due(e)}
<1>1. CASE Tick \/ ConversationGrows \/ RouteShows \/ PageReads \/ StreamEnds
    <2>1. Surroundings
        BY <1>1, Ticks, Grows, Shows
    <2> QED BY <2>1, SurroundingsKeep DEF Surroundings
<1>2. CASE LookForConversation
    BY <1>2, Looks
<1>3. CASE ListAnswered
    BY <1>3, ListAnswers
<1>4. CASE StreamSeenWhole \/ StreamSeenBroken
    BY <1>4, SeesTheEnd
<1>5. CASE PollSnapshot \/ FetchSnapshot
    BY <1>5, Polls
<1>6. CASE DeleteConversation
    BY <1>6, Deletes
<1>7. ASSUME NEW c \in Chats,
             \/ RouteAnswered(c) \/ CandidateAnswered(c) \/ PollAnswered(c)
             \/ SnapshotAnswered(c) \/ DeleteAnswered(c)
      PROVE  ReadbackInv' /\ request' = NoRequest
    BY <1>7, RouteAnswers, CandidateAnswers, ReadbackAnswers, DeleteAnswers
<1>8. CASE RunnerRestarts
    BY <1>8, NewRunner
<1> QED BY <1>1, <1>2, <1>3, <1>4, <1>5, <1>6, <1>7, <1>8 DEF ReadbackNext

\* The inductive invariant of the readback: what the client has is its own,
\* and wherever it goes on, it knows when its next request is due.
THEOREM ReadbackInductive == ReadbackSpec => []ReadbackInv
<1>1. ASSUME ReadbackInit PROVE ReadbackInv
    <2>1. /\ clock = 0 /\ clock \in 0..MaxClock /\ restarts \in 0..MaxRestarts
          /\ request = NoRequest /\ told = [e \in Endpoints |-> 0]
          /\ told \in [Endpoints -> Times] /\ stream \in {"open", "whole", "broken"}
        BY <1>1, Numbers DEF ReadbackInit, Times
    <2>2. /\ client \in Client /\ client.at = "resolve" /\ client.rejected = {}
          /\ client.chat = "none" /\ client.capture = Absent /\ client.tries = 0
        <3>1. client = [NewClient("resolve", "turn") EXCEPT !.deadline = Window]
            BY <1>1 DEF ReadbackInit
        <3>2. "resolve" \in ClientPlaces /\ clock \in Times /\ Window \in Times
            BY <2>1, Numbers DEF Times, ClientPlaces
        <3> QED BY <3>1, <3>2, Fresh DEF Client
    <2>3. /\ chats \in [Chats -> Contents]
          /\ \A c \in Foreign : chats[c].users = {"other"}
        <3> DEFINE others == [Empty EXCEPT !.users = {"other"}, !.ended = TRUE]
        <3>1. others \in Contents /\ others.users = {"other"}
            BY DEF Empty, Contents
        <3> HIDE DEF others
        <3>2. chats = [c \in Chats |-> IF c = Own THEN Absent ELSE others]
            BY <1>1 DEF ReadbackInit, others
        <3> QED BY <3>1, <3>2, ContentFacts, ReadbackAssumption DEF Chats
    <2>4. tab \in [route : Routes, seen : [Chats -> Contents]]
        BY <1>1, ContentFacts DEF ReadbackInit, Routes
    <2>5. OwnTurnOnly
        BY <2>1, <2>2, <2>3, <2>4, EndpointFacts DEF OwnTurnOnly, ReadbackTypeOK, Deleting
    <2>6. ClientHasOwn /\ AsksRightly
        BY <2>1, <2>2, EndpointFacts DEF ClientHasOwn, AsksRightly, Searching, Waiting
    <2>7. \A e \in Endpoints : told[e] = 0 /\ told[e] <= clock
        BY <2>1
    <2>8. KnowsWhenDue
        BY <2>1, <2>2, <2>7, EndpointFacts DEF KnowsWhenDue, Due, Waiting
    <2> QED BY <2>3, <2>5, <2>6, <2>8 DEF ReadbackInv, ForeignStay
<1>2. ASSUME ReadbackInv, [ReadbackNext]_readbackVars PROVE ReadbackInv'
    <2>1. CASE UNCHANGED readbackVars
        <3>1. Surroundings
            BY <1>2, <2>1, TimeIsNat
            DEF readbackVars, Surroundings, ReadbackInv, OwnTurnOnly, ReadbackTypeOK
        <3> QED BY <1>2, <3>1, SurroundingsKeep
    <2>2. CASE ReadbackNext
        BY <1>2, <2>2, ReadbackStep
    <2> QED BY <1>2, <2>1, <2>2
<1> QED BY <1>1, <1>2, PTL DEF ReadbackSpec

\* Whatever the route shows, the operator writes and the backend refuses: only
\* the submitted message's conversation is captured, whole, and then deleted.
THEOREM OwnTurn == ReadbackSpec => []OwnTurnOnly
<1>1. ReadbackInv => OwnTurnOnly
    BY DEF ReadbackInv
<1> QED BY <1>1, ReadbackInductive, PTL

\* Whichever loop was told to wait, and whichever asks next: no request before
\* the time that the endpoint named.
THEOREM RetryRespected == ReadbackSpec => RetryAfterRespected
<1>1. ASSUME ReadbackInv, [ReadbackNext]_readbackVars
      PROVE  [request' \notin {request, NoRequest} => clock >= told[request']]_readbackVars
    <2>1. CASE UNCHANGED readbackVars
        BY <2>1
    <2>2. CASE ReadbackNext
        BY <1>1, <2>2, ReadbackStep, TimeIsNat DEF Due, ReadbackInv, OwnTurnOnly
    <2> QED BY <1>1, <2>1, <2>2
<1> QED BY <1>1, ReadbackInductive, PTL DEF ReadbackSpec, RetryAfterRespected
=============================================================================
