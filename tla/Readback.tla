------------------------------ MODULE Readback ------------------------------
(***************************************************************************)
(* From the accepted submission to the deleted conversation: how           *)
(* ChatGPTClient finds the durable conversation of a user message, waits   *)
(* for its end on the stream and in the backend, reads it back and deletes *)
(* it, while the backend limits the rate of every request.                 *)
(*                                                                         *)
(* The client is one coroutine; request is what it waits for.  A request   *)
(* takes less than a unit of the clock, a wait at least as long as asked.  *)
(***************************************************************************)
EXTENDS Integers, FiniteSets

CONSTANTS
    Own,               \* the conversation of the submitted message
    Foreign,           \* other conversations of the account
    Window,            \* stream_start_timeout, the time to find Own
    RecoveryWindow,    \* durable_error_recovery: once more, after an error
    Fallback,          \* the wait after a 429 that names none
    RetryAfters,       \* what a 429 names
    MaxClock,
    MaxRestarts

\* Identities of conversations are not the words the route has otherwise.
ASSUME ReadbackAssumption ==
    /\ Own \notin Foreign
    /\ {"none", "transient"} \cap ({Own} \union Foreign) = {}
    /\ {Window, RecoveryWindow, Fallback, MaxClock, MaxRestarts} \subseteq Nat
    /\ RetryAfters \subseteq Nat

VARIABLES
    clock,
    chats,             \* conversations as the backend has them
    tab,              \* the route, and the answers the page has received
    stream,            \* the SSE of the turn
    client,
    request,           \* the endpoint that is being asked
    told,              \* told[e]: not before, as this client was told
    restarts

readbackVars == <<clock, chats, tab, stream, client, request, told, restarts>>

Chats == {Own} \union Foreign
TheList == <<"list", "recent">>
Endpoints == {TheList} \union {<<op, c>> : op \in {"read", "delete"}, c \in Chats}
NoRequest == <<"none", "none">>

\* A conversation: its user messages ("own" is the submitted one), and
\* whether some answer has end_turn.
Absent == [there |-> FALSE, users |-> {}, ended |-> FALSE]
Deleted == [Absent EXCEPT !.ended = TRUE]
Empty == [there |-> TRUE, users |-> {}, ended |-> FALSE]
Contents == {Absent, Deleted} \union [there : {TRUE}, users : SUBSET {"own", "other"}, ended : BOOLEAN]

Routes == {"none", "transient"} \union Chats
Times == Nat

ClientPlaces == {"resolve", "candidate", "wait", "snapshot", "delete", "done", "failed"}

Client ==
    [at : ClientPlaces,
     mode : {"turn", "recover"},
     wake : Times,                 \* asleep until then
     deadline : Times,
     extended : BOOLEAN,           \* rate_limit_deadline_extended
     next : [Chats -> Times],      \* route_next_fetch_at
     rejected : SUBSET Chats,
     chat : Chats \union {"none"},
     allowed : Times,              \* _readback_allowed_at
     error : BOOLEAN,              \* the stream broke off
     capture : Contents,
     tries : 0..3]

ReadbackTypeOK ==
    /\ clock \in 0..MaxClock
    /\ chats \in [Chats -> Contents]
    /\ tab \in [route : Routes, seen : [Chats -> Contents]]
    /\ stream \in {"open", "whole", "broken"}
    /\ client \in Client
    /\ request \in Endpoints \union {NoRequest}
    /\ told \in [Endpoints -> Times]
    /\ restarts \in 0..MaxRestarts

NewClient(place, mode) ==
    [at |-> place, mode |-> mode, wake |-> clock, deadline |-> 0, extended |-> FALSE,
     next |-> [c \in Chats |-> 0], rejected |-> {}, chat |-> "none", allowed |-> 0,
     error |-> FALSE, capture |-> Absent, tries |-> 0]

ReadbackInit ==
    /\ clock = 0
    /\ chats = [c \in Chats |->
                    IF c = Own THEN Absent ELSE [Empty EXCEPT !.users = {"other"}, !.ended = TRUE]]
    /\ tab = [route |-> "none", seen |-> [c \in Chats |-> Absent]]
    /\ stream = "open"
    /\ client = [NewClient("resolve", "turn") EXCEPT !.deadline = Window]
    /\ request = NoRequest
    /\ told = [e \in Endpoints |-> 0]
    /\ restarts = 0

\* validate_conversation_identity: one user message, the submitted one, and
\* an answer that ended the turn.
Valid(content) == content.users = {"own"} /\ content.ended

----------------------------------------------------------------------------
(* The backend, the page and the operator. *)

Tick ==
    /\ request = NoRequest /\ client.at # "done"
    /\ clock < MaxClock
    /\ clock' = clock + 1
    /\ UNCHANGED <<chats, tab, stream, client, request, told, restarts>>

\* The conversation becomes readable before its message does, the answer
\* ends, and the operator may write into it, or delete it.
ConversationGrows ==
    /\ request = NoRequest
    /\ \E content \in Contents :
        /\ \/ chats[Own] = Absent /\ stream = "open" /\ content = Empty
           \/ /\ chats[Own].there
              /\ \/ content = [chats[Own] EXCEPT !.users = @ \union {"own"}]
                 \/ content = [chats[Own] EXCEPT !.users = {"own", "other"}]
                 \/ content = [chats[Own] EXCEPT !.ended = TRUE] /\ "own" \in chats[Own].users
                 \/ content = Deleted /\ "own" \in chats[Own].users
        /\ content # chats[Own]
        /\ chats' = [chats EXCEPT ![Own] = content]
    /\ UNCHANGED <<clock, tab, stream, client, request, told, restarts>>

\* The route of the page only goes on, from nothing over a transient
\* identity to the durable one.
RouteShows ==
    /\ request = NoRequest
    /\ \/ tab.route = "none" /\ \E r \in {"transient", Own} : tab' = [tab EXCEPT !.route = r]
       \/ tab.route = "transient" /\ tab' = [tab EXCEPT !.route = Own]
    /\ UNCHANGED <<clock, chats, stream, client, request, told, restarts>>

\* The frontend reads the conversation that it shows.
PageReads ==
    /\ request = NoRequest
    /\ tab.route = Own /\ chats[Own].there
    /\ tab' = [tab EXCEPT !.seen[Own] = chats[Own]]
    /\ UNCHANGED <<clock, chats, stream, client, request, told, restarts>>

\* The stream may also break off, or stay open after the answer ended.
StreamEnds ==
    /\ request = NoRequest
    /\ stream = "open"
    /\ \/ chats[Own].there /\ chats[Own].ended /\ stream' = "whole"
       \/ stream' = "broken"
    /\ UNCHANGED <<clock, chats, tab, client, request, told, restarts>>

----------------------------------------------------------------------------
(* Requests. *)

Awake(place) == client.at = place /\ request = NoRequest /\ client.wake <= clock

Ask(endpoint) == request' = endpoint

Sleep(until) == client' = [client EXCEPT !.wake = until]
Give(place) == client' = [client EXCEPT !.at = place]
ClientFails == Give("failed")

\* A 429 with its Retry-After, 0 if it has none.
NotBefore(named) ==
    told' = IF named = 0 THEN told ELSE [told EXCEPT ![request] = clock + named]

\* limit(delay) is what the client makes of it.
Limited(limit(_)) ==
    \E named \in RetryAfters \union {0} :
        NotBefore(named) /\ limit(IF named = 0 THEN Fallback ELSE named)

\* Anything but a 429 and an answer: 5xx, 401, 403, the network.
Errors(what) == what /\ UNCHANGED told

Answered ==
    /\ request' = NoRequest
    /\ UNCHANGED <<clock, stream, restarts>>

Read(c) == request = <<"read", c>>

\* The monitor of the page keeps every snapshot it sees, ours as well.
Snapshot(c) == tab' = [tab EXCEPT !.seen[c] = chats[c]]

----------------------------------------------------------------------------
(* _wait_for_conversation_id. *)

Durable == tab.route \in Chats

\* The route owns the search once it is durable; the list is asked before.
LookForConversation ==
    /\ Awake("resolve")
    /\ IF clock >= client.deadline THEN ClientFails /\ UNCHANGED request
       ELSE IF Durable /\ clock < client.next[tab.route]
            THEN Sleep(client.next[tab.route]) /\ UNCHANGED request
       ELSE Ask(IF Durable THEN <<"read", tab.route>> ELSE TheList) /\ UNCHANGED client
    /\ UNCHANGED <<clock, chats, tab, stream, told, restarts>>

\* One extension of the deadline; a delay beyond it ends the search.
BackOff(delay, route) ==
    LET deadline == IF client.extended \/ clock + RecoveryWindow < client.deadline
                    THEN client.deadline ELSE clock + RecoveryWindow
        later == [client EXCEPT !.at = "resolve", !.extended = TRUE,
                                !.deadline = deadline, !.wake = clock + delay]
    IN  client' = IF clock + delay > deadline THEN [later EXCEPT !.at = "failed"]
                  ELSE IF route = "none" THEN later
                  ELSE [later EXCEPT !.next[route] = clock + delay]

Found(c) ==
    client' = [client EXCEPT !.chat = c, !.wake = clock,
                   !.deadline = clock + RecoveryWindow,
                   !.at = IF client.mode = "turn" THEN "wait" ELSE "snapshot"]

PollAgain == client' = [client EXCEPT !.at = "resolve", !.wake = clock + 1]

RouteAnswered(c) ==
    LET limit(delay) == BackOff(delay, c)
        again == client' = [client EXCEPT !.next[c] = clock + 1, !.wake = clock + 1]
    IN  /\ client.at = "resolve" /\ Read(c)
        /\ Answered /\ UNCHANGED chats
        /\ \/ Limited(limit) /\ UNCHANGED tab
           \/ Errors(ClientFails \/ again) /\ UNCHANGED tab
           \/ /\ chats[c].there
              /\ IF chats[c].users = {"own"} THEN Found(c) ELSE again
              /\ Snapshot(c) /\ UNCHANGED told

\* One candidate of the list is read, any that is not rejected.
ListAnswered ==
    LET limit(delay) == BackOff(delay, "none") IN
    /\ client.at = "resolve" /\ request = TheList
    /\ UNCHANGED <<clock, chats, tab, stream, restarts>>
    /\ \/ Limited(limit) /\ request' = NoRequest
       \/ Errors(ClientFails \/ PollAgain) /\ request' = NoRequest
       \/ /\ \E c \in Chats \ client.rejected : chats[c].there /\ Ask(<<"read", c>>)
          /\ Give("candidate")
          /\ UNCHANGED told

\* mutant: a conversation without a message is not the one either
Excluded_Empty(users) == TRUE

\* What is not the submitted message may still appear, what is another may not.
Excluded(users) == users # {}

CandidateAnswered(c) ==
    LET limit(delay) == BackOff(delay, "none")
        users == chats[c].users
    IN  /\ client.at = "candidate" /\ Read(c)
        /\ Answered /\ UNCHANGED chats
        /\ \/ Limited(limit) /\ UNCHANGED tab
           \/ Errors(ClientFails \/ PollAgain) /\ UNCHANGED tab
           \/ /\ chats[c].there
              /\ IF users = {"own"} THEN Found(c)
                 ELSE client' = [client EXCEPT !.at = "resolve", !.wake = clock + 1,
                          !.rejected = IF Excluded(users) THEN @ \union {c} ELSE @]
              /\ Snapshot(c) /\ UNCHANGED told

----------------------------------------------------------------------------
(* _wait_stream_or_durable_completion, wait_for_completion. *)

Capture(content) ==
    client' = [client EXCEPT !.capture = content, !.at = "delete", !.wake = clock,
                             !.allowed = 0, !.deadline = clock + Fallback]

\* The stream is complete: a snapshot the page has will do, else one is read.
StreamSeenWhole ==
    /\ client.at = "wait" /\ request = NoRequest
    /\ stream = "whole" /\ ~client.error
    /\ \/ ClientFails
       \/ client.chat = Own /\ Valid(tab.seen[Own]) /\ Capture(tab.seen[Own])
       \/ /\ client.chat = Own
          /\ client' = [client EXCEPT !.at = "snapshot", !.wake = clock,
                                      !.deadline = clock + RecoveryWindow]
    /\ UNCHANGED <<clock, chats, tab, stream, request, told, restarts>>

StreamSeenBroken ==
    /\ client.at = "wait" /\ request = NoRequest
    /\ stream = "broken" /\ ~client.error
    /\ client' = [client EXCEPT !.error = TRUE, !.wake = clock,
                                !.deadline = clock + RecoveryWindow]
    /\ UNCHANGED <<clock, chats, tab, stream, request, told, restarts>>

\* mutant: the time of the next readback is not kept
MayRead_Anytime == TRUE

\* _readback_allowed_at, which every loop keeps.
MayRead == clock >= client.allowed

\* durable_snapshot: what the page has read, else one readback, but not
\* before it is allowed again.
PollSnapshot ==
    /\ Awake("wait")
    /\ client.error \/ stream = "open"
    /\ IF client.error /\ clock >= client.deadline THEN ClientFails /\ UNCHANGED request
       ELSE IF Valid(tab.seen[client.chat])
            THEN Capture(tab.seen[client.chat]) /\ UNCHANGED request
       ELSE IF ~MayRead
            THEN /\ IF client.error /\ client.allowed > client.deadline THEN ClientFails
                    ELSE Sleep(client.allowed)
                 /\ UNCHANGED request
       ELSE Ask(<<"read", client.chat>>) /\ UNCHANGED client
    /\ UNCHANGED <<clock, chats, tab, stream, told, restarts>>

PollAnswered(c) ==
    LET limit(delay) ==
            client' = [client EXCEPT !.allowed = clock + delay, !.wake = clock + delay,
                           !.at = IF client.error /\ clock + delay > client.deadline
                                  THEN "failed" ELSE @]
        nothing == IF client.error THEN ClientFails
                   ELSE client' = [client EXCEPT !.allowed = 0, !.wake = clock + 1]
    IN  /\ client.at = "wait" /\ Read(c)
        /\ Answered /\ UNCHANGED chats
        /\ \/ Limited(limit) /\ UNCHANGED tab
           \/ Errors(ClientFails) /\ UNCHANGED tab
           \/ ~chats[c].there /\ nothing /\ UNCHANGED <<tab, told>>
           \/ /\ chats[c].there
              /\ IF Valid(chats[c]) THEN Capture(chats[c]) ELSE nothing
              /\ Snapshot(c) /\ UNCHANGED told

----------------------------------------------------------------------------
(* _fetch_recovery_snapshot. *)

FetchSnapshot ==
    /\ Awake("snapshot")
    /\ IF ~MayRead
       THEN /\ IF client.allowed > client.deadline THEN ClientFails ELSE Sleep(client.allowed)
            /\ UNCHANGED request
       ELSE Ask(<<"read", client.chat>>) /\ UNCHANGED client
    /\ UNCHANGED <<clock, chats, tab, stream, told, restarts>>

SnapshotAnswered(c) ==
    LET limit(delay) ==
            client' = [client EXCEPT !.allowed = clock + delay, !.wake = clock + delay,
                           !.at = IF clock + delay > client.deadline THEN "failed" ELSE @]
    IN  /\ client.at = "snapshot" /\ Read(c)
        /\ Answered /\ UNCHANGED chats
        /\ \/ Limited(limit) /\ UNCHANGED tab
           \/ Errors(ClientFails) /\ UNCHANGED tab
           \/ /\ chats[c].there
              /\ IF Valid(chats[c]) THEN Capture(chats[c]) ELSE ClientFails
              /\ Snapshot(c) /\ UNCHANGED told

----------------------------------------------------------------------------
(* ConversationClient.delete, after the capture has been stored. *)

DeleteConversation ==
    /\ Awake("delete")
    /\ Ask(<<"delete", client.chat>>)
    /\ UNCHANGED <<clock, chats, tab, stream, client, told, restarts>>

DeleteAnswered(c) ==
    LET limit(delay) ==
            client' = [client EXCEPT !.tries = @ + 1, !.wake = clock + delay,
                           !.at = IF client.tries = 2 \/ clock + delay > client.deadline
                                  THEN "failed" ELSE @]
    IN  /\ request = <<"delete", c>>
        /\ Answered /\ UNCHANGED tab
        /\ \/ Limited(limit) /\ UNCHANGED chats
           \/ Errors(ClientFails) /\ UNCHANGED chats
           \/ /\ Give("done")
              /\ chats' = [chats EXCEPT ![c] = Deleted]
              /\ UNCHANGED told

----------------------------------------------------------------------------
(* A killed or failed runner is followed by another one, which goes on     *)
(* from the journal.  Nobody tells it what its predecessor was told.       *)

RunnerRestarts ==
    LET place == IF client.capture # Absent THEN "delete"
                 ELSE IF client.chat # "none" THEN "snapshot" ELSE "resolve"
        window == IF place = "resolve" THEN Window
                  ELSE IF place = "delete" THEN Fallback ELSE RecoveryWindow
    IN  /\ restarts < MaxRestarts
        /\ restarts' = restarts + 1
        /\ client.at # "done"
        /\ client' = [NewClient(place, "recover") EXCEPT !.chat = client.chat,
                          !.capture = client.capture, !.deadline = clock + window]
        /\ request' = NoRequest
        /\ told' = [e \in Endpoints |-> 0]
        /\ tab' = [tab EXCEPT !.seen = [c \in Chats |-> Absent]]
        /\ UNCHANGED <<clock, chats, stream>>

ReadbackNext ==
    \/ Tick \/ ConversationGrows \/ RouteShows \/ PageReads \/ StreamEnds
    \/ LookForConversation \/ ListAnswered
    \/ StreamSeenWhole \/ StreamSeenBroken \/ PollSnapshot
    \/ FetchSnapshot \/ DeleteConversation
    \/ \E c \in Chats :
        \/ RouteAnswered(c) \/ CandidateAnswered(c) \/ PollAnswered(c)
        \/ SnapshotAnswered(c) \/ DeleteAnswered(c)
    \/ RunnerRestarts

ReadbackSpec == ReadbackInit /\ [][ReadbackNext]_readbackVars

----------------------------------------------------------------------------
(* Properties. *)

\* "Retry-After is authoritative" (chatgpt.py, exceptions.py): as long as it
\* runs, a client asks no endpoint before the time that it was told there,
\* whichever loop was told and whichever asks next.
RetryAfterRespected ==
    [][request' \notin {request, NoRequest} => clock >= told[request']]_readbackVars

\* The search never gives up on the conversation it looks for, unless it
\* was written into; only that conversation is captured, complete and with
\* no message but the submitted one; and only what was captured is deleted.
OwnTurnOnly ==
    /\ ReadbackTypeOK
    /\ Own \in client.rejected => chats[Own] = Deleted \/ "other" \in chats[Own].users
    /\ client.chat \in {"none", Own}
    /\ client.capture # Absent => Valid(client.capture)
    /\ \A c \in Chats : request = <<"delete", c>> => c = Own /\ client.capture # Absent

=============================================================================
