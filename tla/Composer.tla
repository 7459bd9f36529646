------------------------------ MODULE Composer ------------------------------
(***************************************************************************)
(* How a task gets into ChatGPT: ChatGPTClient.prepare_task and            *)
(* submit_task, with the App picker (tools.py) and the keyboard            *)
(* (interaction.py), on one browser page that outlives the runner and that *)
(* an operator can reach at any time through the shared desktop.           *)
(*                                                                         *)
(* The text of the composer is a sequence of pieces.  A prompt is typed    *)
(* line by line, here as a beginning and an ending; a mention cut short is *)
(* no different from a whole one that was not accepted.                    *)
(***************************************************************************)
EXTENDS Integers, Sequences, SequencesExt

CONSTANTS
    Prompts,           \* tasks, each a prompt for the same App
    MaxMeddling        \* things the operator, or ChatGPT itself, does

ASSUME ComposerAssumption == MaxMeddling \in Nat

VARIABLES
    page,              \* what the page shows: composer, conversation, effort
    step,              \* where prepare_task and submit_task are
    posts,             \* generation requests seen since begin_task
    unheard,           \* requests whose response this runner can still see begin
    observer,          \* the thinking-effort route: installed, verified, error
    accepted,          \* requests taken for the submission of a task
    meddling

composerVars == <<page, step, posts, unheard, observer, accepted, meddling>>

NoTask == "none"
Ours(kind) == [is |-> kind, of |-> NoTask]
Mention == Ours("mention")    \* "@App" as it was typed
Chip == Ours("chip")          \* an App that was accepted
Cut == Ours("cut")            \* what arrived when keystrokes were lost
Other == Ours("other")        \* what somebody else put there
Beginning(t) == [is |-> "beginning", of |-> t]
Ending(t) == [is |-> "ending", of |-> t]

Pieces ==
    {Mention, Chip, Cut, Other}
        \union {Beginning(t) : t \in Prompts} \union {Ending(t) : t \in Prompts}
Texts == Seq(Pieces)
Efforts == {"high", "other"}

\* A page is missing pieces when somebody took away what was typed; its chat
\* is begun by a request, and shown once the route names it.
Pages == [text : Texts, missing : BOOLEAN, chat : {"none", "begun", "shown"},
          effort : Efforts]
Posts == [text : Texts, missing : BOOLEAN, effort : Efforts, by : {"runner", "other"}]

StepNames == {"idle", "clean", "effort", "mention", "pick", "backspace", "prompt",
              "typing", "composed", "send", "check", "served", "stopped"}
StepRecords == [at : StepNames, task : Prompts \union {NoTask}, retried : BOOLEAN,
           heard : BOOLEAN]
Observers == [installed : BOOLEAN, verified : Nat, error : BOOLEAN]

ComposerTypeOK ==
    /\ page \in Pages
    /\ step \in StepRecords
    /\ posts \in Seq(Posts)
    /\ unheard \in Nat
    /\ observer \in Observers
    /\ accepted \in SUBSET [task : Prompts, post : Posts]
    /\ meddling \in 0..MaxMeddling

Unobserved == [installed |-> FALSE, verified |-> 0, error |-> FALSE]
Rested == [at |-> "idle", task |-> NoTask, retried |-> FALSE, heard |-> FALSE]

ComposerInit ==
    /\ page = [text |-> <<>>, missing |-> FALSE, chat |-> "none", effort |-> "other"]
    /\ step = Rested
    /\ posts = <<>>
    /\ unheard = 0
    /\ observer = Unobserved
    /\ accepted = {}
    /\ meddling = 0

StepTo(place) == step' = [step EXCEPT !.at = place]
Leaves(place) == step' = [Rested EXCEPT !.at = place]
Typed(piece) == page' = [page EXCEPT !.text = Append(@, piece)]

\* The runner ends, and with it its connection and all that it has seen.
RunnerEnds ==
    /\ Leaves("stopped")
    /\ posts' = <<>>
    /\ unheard' = 0
    /\ observer' = Unobserved

\* The receipt installed in the page shows that keystrokes did not arrive.
KeysLost == Typed(Cut) /\ RunnerEnds

----------------------------------------------------------------------------
(* prepare_task. *)

PrepareTask(t) ==
    /\ step.at = "idle"
    /\ \A a \in accepted : a.task # t
    /\ step' = [Rested EXCEPT !.at = "clean", !.task = t]
    /\ posts' = <<>>
    /\ observer' = [installed |-> TRUE, verified |-> 0, error |-> FALSE]
    /\ UNCHANGED <<page, unheard, accepted, meddling>>

\* mutant: a text in the composer is not looked at
Dirty_ChatOnly == page.chat = "shown"

Dirty == page.chat = "shown" \/ page.text # <<>>

\* Going home leaves the text, the conversation and every response behind.
GoesHome ==
    /\ page' = [page EXCEPT !.text = <<>>, !.missing = FALSE, !.chat = "none"]
    /\ unheard' = 0

NewChatIfNeeded ==
    /\ step.at = "clean"
    /\ \/ Dirty /\ GoesHome
       \/ ~Dirty /\ page' = [page EXCEPT !.missing = FALSE] /\ UNCHANGED unheard
    /\ StepTo("effort")
    /\ UNCHANGED <<posts, observer, accepted, meddling>>

EnsureHighThinkingEffort ==
    /\ step.at = "effort"
    /\ page' = [page EXCEPT !.effort = "high"]
    /\ StepTo("mention")
    /\ UNCHANGED <<posts, unheard, observer, accepted, meddling>>

\* The keyboard receipt shows whether every character arrived; whatever was
\* in the composer stays in front.
TypeMention ==
    /\ step.at = "mention"
    /\ \/ Typed(Mention) /\ StepTo("pick") /\ UNCHANGED <<posts, unheard, observer>>
       \/ KeysLost
    /\ UNCHANGED <<accepted, meddling>>

EndsWith(piece) == page.text # <<>> /\ page.text[Len(page.text)] = piece
AppHighlighted == EndsWith(Mention)
Accepted == [page EXCEPT !.text[Len(page.text)] = Chip]

\* Enter is pressed when exactly the App is highlighted; then the composer
\* must end with its chip.
PickApp ==
    /\ step.at = "pick"
    /\ AppHighlighted
    /\ page' = Accepted
    /\ StepTo("prompt")
    /\ UNCHANGED <<posts, unheard, observer, accepted, meddling>>

\* The App is not listed, never highlighted, or its chip is not seen.  The
\* first time everything is deleted for a second try; then the task fails
\* and the batch goes on with the text left in the composer.
AppNotPicked ==
    /\ step.at = "pick"
    /\ \/ UNCHANGED page
       \/ AppHighlighted /\ page' = Accepted
    /\ IF step.retried THEN Leaves("idle") ELSE StepTo("backspace")
    /\ UNCHANGED <<posts, unheard, observer, accepted, meddling>>

ClearEditor ==
    /\ step.at = "backspace"
    /\ page' = [page EXCEPT !.text = <<>>, !.missing = FALSE]
    /\ step' = [step EXCEPT !.at = "mention", !.retried = TRUE]
    /\ UNCHANGED <<posts, unheard, observer, accepted, meddling>>

\* Every line and every Shift+Enter is awaited: anything may happen between
\* the beginning of a prompt and its ending.  The receipt shows what was typed,
\* not that it is still in the composer.
TypePrompt ==
    /\ step.at = "prompt"
    /\ \/ Typed(Beginning(step.task)) /\ StepTo("typing") /\ UNCHANGED <<posts, unheard, observer>>
       \/ KeysLost
    /\ UNCHANGED <<accepted, meddling>>

TypeRest ==
    /\ step.at = "typing"
    /\ \/ Typed(Ending(step.task)) /\ StepTo("composed") /\ UNCHANGED <<posts, unheard, observer>>
       \/ KeysLost
    /\ UNCHANGED <<accepted, meddling>>

----------------------------------------------------------------------------
(* submit_task. *)

\* From here on the first response to a generation request is awaited.
SubmitTask ==
    /\ step.at = "composed"
    /\ ~observer.error
    /\ StepTo("send")
    /\ UNCHANGED <<page, posts, unheard, observer, accepted, meddling>>

\* The observer aborts a request whose effort is not High.
Passes == ~observer.installed \/ page.effort = "high"
EffortObserved == observer.verified = 1 /\ ~observer.error
ExactlyOneRequest == Len(posts) = 1

\* Send, by the runner or by somebody else: the page posts its text.  Two
\* verified requests are as good as more.
Sends(hand) ==
    LET post == [text |-> page.text, missing |-> page.missing, effort |-> page.effort,
                 by |-> hand]
    IN  /\ page.text # <<>>
        /\ posts' = Append(posts, post)
        /\ observer' = [observer EXCEPT
                            !.verified = IF @ < 2 /\ observer.installed /\ Passes THEN @ + 1 ELSE @,
                            !.error = @ \/ ~Passes]
        /\ \/ /\ Passes
              /\ page' = [page EXCEPT !.text = <<>>,
                                      !.chat = IF @ = "shown" THEN @ ELSE "begun"]
              /\ unheard' = unheard + 1
           \/ ~Passes /\ UNCHANGED <<page, unheard>>

\* The journal says "submission_started" before the click, which may miss.
ClickSend ==
    /\ step.at = "send"
    /\ page.text # <<>>
    /\ Sends("runner") \/ UNCHANGED <<page, posts, unheard, observer>>
    /\ StepTo("check")
    /\ UNCHANGED <<accepted, meddling>>

\* The response to a request begins, whoever sent it and however long ago;
\* submit_task takes the first one while it waits.
ResponseBegins ==
    /\ unheard > 0
    /\ unheard' = unheard - 1
    /\ step' = [step EXCEPT !.heard = @ \/ step.at \in {"send", "check"}]
    /\ UNCHANGED <<page, posts, observer, accepted, meddling>>

\* A response was heard, and exactly one generation request was seen since
\* begin_task, and verified by the observer: it is taken for the submission.
CheckSubmission ==
    /\ step.at = "check"
    /\ step.heard
    /\ ExactlyOneRequest /\ EffortObserved
    /\ accepted' = accepted \union {[task |-> step.task, post |-> posts[1]]}
    /\ StepTo("served")
    /\ UNCHANGED <<page, posts, unheard, observer, meddling>>

\* The conversation is captured, stored and deleted (module Readback says
\* when); the page goes home when it still shows it.
CaptureAndDelete ==
    /\ step.at = "served"
    /\ \/ page.chat = "shown" /\ GoesHome
       \/ UNCHANGED <<page, unheard>>
    /\ Leaves("idle")
    /\ UNCHANGED <<posts, observer, accepted, meddling>>

\* Any error of the page, and any check that fails, stops the batch.
ComposerStops ==
    /\ step.at \notin {"idle", "stopped"}
    /\ RunnerEnds
    /\ UNCHANGED <<page, accepted, meddling>>

\* The next runner finds the page as it is, and has seen no request yet.
RunnerReturns ==
    /\ step.at = "stopped"
    /\ Leaves("idle")
    /\ posts' = <<>>
    /\ unheard' = 0
    /\ UNCHANGED <<page, observer, accepted, meddling>>

----------------------------------------------------------------------------
(* The shared desktop, and what ChatGPT does on its own (a restored draft, *)
(* another effort).  Nobody moves the caret while the keyboard types.      *)

ChatIsShown ==
    /\ page.chat = "begun"
    /\ page' = [page EXCEPT !.chat = "shown"]
    /\ UNCHANGED <<step, posts, unheard, observer, accepted, meddling>>

Meddles ==
    /\ meddling < MaxMeddling
    /\ meddling' = meddling + 1
    /\ UNCHANGED <<step, accepted>>

OtherText ==
    /\ Meddles
    /\ \/ Typed(Other)
       \/ page' = [page EXCEPT !.text = Cons(Other, @)]
    /\ UNCHANGED <<posts, unheard, observer>>

OtherDeletes ==
    /\ Meddles
    /\ \E i \in DOMAIN page.text :
           page' = [page EXCEPT !.text = RemoveAt(@, i), !.missing = @ \/ page.text[i] # Other]
    /\ UNCHANGED <<posts, unheard, observer>>

\* Another conversation is opened, or a new one.
OtherNavigates ==
    /\ Meddles
    /\ \E chat \in {"none", "shown"} :
           page' = [page EXCEPT !.text = <<>>, !.missing = TRUE, !.chat = chat]
    /\ unheard' = 0
    /\ UNCHANGED <<posts, observer>>

OtherEffort ==
    /\ Meddles
    /\ page' = [page EXCEPT !.effort = "other"]
    /\ UNCHANGED <<posts, unheard, observer>>

OtherSend ==
    /\ Meddles
    /\ Sends("other")

ComposerNext ==
    \/ \E t \in Prompts : PrepareTask(t)
    \/ NewChatIfNeeded \/ EnsureHighThinkingEffort \/ TypeMention \/ PickApp
    \/ AppNotPicked \/ ClearEditor \/ TypePrompt \/ TypeRest
    \/ SubmitTask \/ ClickSend \/ ResponseBegins \/ CheckSubmission
    \/ CaptureAndDelete \/ ComposerStops \/ RunnerReturns
    \/ ChatIsShown \/ OtherText \/ OtherDeletes \/ OtherNavigates \/ OtherEffort
    \/ OtherSend

ComposerSpec == ComposerInit /\ [][ComposerNext]_composerVars

----------------------------------------------------------------------------
(* Properties. *)

Rank(piece) == CASE piece.is = "beginning" -> 2 [] piece.is = "ending" -> 3 [] OTHER -> 1

\* Once what others put there is taken away, a text is these pieces, each once
\* and in the order of their ranks; only others make one go missing.
ReadsAs(typed, text, missing) ==
    /\ \A k \in DOMAIN text : text[k] \in typed \union {Other}
    /\ \A k, m \in DOMAIN text :
           k < m /\ text[k] # Other /\ text[m] # Other => Rank(text[k]) < Rank(text[m])
    /\ missing \/ \A piece \in typed : \E k \in DOMAIN text : text[k] = piece

Task(t) == {Chip, Beginning(t), Ending(t)}

\* What this program's own Send posted and submit_task took for the task is the
\* App and the whole prompt, in this order, with High effort: nothing that this
\* or an earlier preparation left behind is in it, whatever keys were lost and
\* whatever others wrote, deleted, opened, changed or sent, and whenever the
\* responses began.  What they wrote themselves may be in it, and what they
\* deleted is missing.  No request with another effort is taken at all.
PostedIsTheTask ==
    /\ ComposerTypeOK
    /\ \A a \in accepted :
           /\ a.post.effort = "high"
           /\ a.post.by = "runner" => ReadsAs(Task(a.task), a.post.text, a.post.missing)

\* chatgpt.py:637: the prompt is "the exact benchmark text typed into ChatGPT
\* and later validated against the frontend POST and captured conversation".
\* Only the identity of the one posted message is: somebody may add to it, or
\* send a part of it, whose response begins late, while the click misses.
PromptIsValidated ==
    \A a \in accepted : a.post.text = <<Chip, Beginning(a.task), Ending(a.task)>>

=============================================================================
