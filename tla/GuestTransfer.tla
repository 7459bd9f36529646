--------------------------- MODULE GuestTransfer ---------------------------
(***************************************************************************)
(* Files on their way into a guest: artifact imports, template artifacts   *)
(* and the seed of the workspace.  A client sends begin, chunks and end as *)
(* separate RPCs to a guest that has one session of each kind, shared by   *)
(* all clients.  A client that gets no answer gives up, but the guest may  *)
(* still execute what was sent, at any later time.                         *)
(*                                                                         *)
(* A content is the sequence of its chunks; a digest is the sequence of    *)
(* chunks that went into it.                                               *)
(***************************************************************************)
EXTENDS Integers, Sequences

CONSTANTS
    Uploads,           \* uploads, each of one client
    Chunks,            \* chunks of an upload
    MaxLost            \* answers lost, clients killed, extractions failed

ASSUME TransferAssumption ==
    /\ Chunks \in Nat
    /\ MaxLost \in Nat
    /\ Uploads \cap {"none", "error"} = {}

VARIABLES
    kind,              \* which session an upload uses
    session,           \* ImportSession (twice) and SeedSession
    file,              \* destinations in the guest
    upload,            \* where each client stands, and the chunks it sent
    late,              \* requests without an answer, not yet executed
    lost

transferVars == <<kind, session, file, upload, late, lost>>

Kinds == {"import", "template", "seed"}

Content(u) == [n \in 1..Chunks |-> <<u, n>>]
NothingThere == <<>>

\* A seed that failed half way through its extraction.
Torn == <<"torn">>

Stages == {"idle", "begin", "send", "end", "abort", "done", "failed"}

Request == [do : {"begin", "chunk", "end", "abort"}, by : Uploads, n : 0..Chunks]

AnyChunks == Seq(Uploads \X (1..Chunks))

TransferTypeOK ==
    /\ kind \in [Uploads -> Kinds]
    /\ session \in [Kinds -> [open : BOOLEAN, expected : Uploads \union {"none"},
                            data : AnyChunks, digest : AnyChunks]]
    /\ file \in [Kinds -> AnyChunks \union {Torn}]
    /\ upload \in [Uploads -> [at : Stages, sent : 0..Chunks]]
    /\ late \subseteq Request
    /\ lost \in 0..MaxLost

Closed == [open |-> FALSE, expected |-> "none", data |-> <<>>, digest |-> <<>>]

\* The runner seeds a guest once, when it prepares the attempt.
TransferInit ==
    /\ kind \in [Uploads -> Kinds]
    /\ \A u, w \in Uploads : kind[u] = "seed" /\ kind[w] = "seed" => u = w
    /\ session = [k \in Kinds |-> Closed]
    /\ file = [k \in Kinds |-> NothingThere]
    /\ upload = [u \in Uploads |-> [at |-> "idle", sent |-> 0]]
    /\ late = {}
    /\ lost = 0

----------------------------------------------------------------------------
(* The guest. *)

Lose ==
    /\ lost < MaxLost
    /\ lost' = lost + 1

\* A seed is refused when the workspace is not empty; an import of the
\* clients modelled here overwrites.
MayBegin(k) ==
    /\ ~session[k].open
    /\ k = "seed" => file[k] = NothingThere

\* mutant: an import goes on with the file of the session before
Begun_Continued(u) ==
    [open |-> TRUE, expected |-> u, data |-> session[kind[u]].data,
     digest |-> IF kind[u] = "seed" THEN session["seed"].digest ELSE <<>>]

\* An import starts over; a seed gets an empty archive, but its digest and
\* its size go on from the session before.
Begun(u) ==
    [open |-> TRUE, expected |-> u, data |-> <<>>,
     digest |-> IF kind[u] = "seed" THEN session["seed"].digest ELSE <<>>]

\* A size above the limit of the session is refused.
MayAppend(k) == session[k].open /\ Len(session[k].digest) < Chunks

Appended(u, n) ==
    LET s == session[kind[u]] IN
    [s EXCEPT !.data = Append(@, <<u, n>>), !.digest = Append(@, <<u, n>>)]

\* The caller of a seed names the digest when it ends, that of an import
\* was named when it began, maybe by another client.
Verified(u) ==
    LET s == session[kind[u]] IN
    /\ s.open
    /\ s.digest = IF kind[u] = "seed" THEN Content(u) ELSE Content(s.expected)

EndSession(k) == [session[k] EXCEPT !.open = FALSE]

\* What request r does, and the answer: an error, or the upload whose digest
\* the guest confirms.
Executes(r, answer) ==
    LET k == kind[r.by] IN
    \/ /\ r.do = "begin" /\ MayBegin(k) /\ answer = r.by
       /\ session' = [session EXCEPT ![k] = Begun(r.by)]
       /\ UNCHANGED <<file, lost>>
    \/ /\ r.do = "chunk" /\ MayAppend(k) /\ answer = r.by
       /\ session' = [session EXCEPT ![k] = Appended(r.by, r.n)]
       /\ UNCHANGED <<file, lost>>
    \/ /\ r.do = "end" /\ Verified(r.by)
       /\ answer = IF k = "seed" THEN r.by ELSE session[k].expected
       /\ file' = [file EXCEPT ![k] = session[k].data]
       /\ session' = [session EXCEPT ![k] = EndSession(k)]
       /\ UNCHANGED lost
    \/ /\ r.do = "end" /\ Verified(r.by) /\ k = "seed" /\ answer = "error"
       /\ Lose
       /\ file' = [file EXCEPT ![k] = Torn]
       /\ session' = [session EXCEPT ![k] = EndSession(k)]
    \/ /\ r.do = "end" /\ ~Verified(r.by) /\ answer = "error"
       /\ session' = [session EXCEPT ![k] = EndSession(k)]
       /\ UNCHANGED <<file, lost>>
    \/ /\ r.do = "abort" /\ answer = r.by
       /\ session' = [session EXCEPT ![k] = EndSession(k)]
       /\ UNCHANGED <<file, lost>>
    \/ /\ \/ r.do = "begin" /\ ~MayBegin(k)
          \/ r.do = "chunk" /\ ~MayAppend(k)
       /\ answer = "error"
       /\ UNCHANGED <<session, file, lost>>

----------------------------------------------------------------------------
(* Clients. *)

\* The next request of u, and where u goes with and without success.  The
\* begin of an import is sent outside of the try that aborts.
NextRequest(u) ==
    LET request(do) == [do |-> do, by |-> u, n |-> IF do = "chunk" THEN upload[u].sent + 1 ELSE 0]
    IN  CASE upload[u].at = "begin" -> request("begin")
          [] upload[u].at = "send" /\ upload[u].sent < Chunks -> request("chunk")
          [] upload[u].at = "send" /\ upload[u].sent = Chunks -> request("end")
          [] upload[u].at = "abort" -> request("abort")

Succeeded(u) ==
    CASE NextRequest(u).do = "begin" -> [at |-> "send", sent |-> 0]
      [] NextRequest(u).do = "chunk" -> [at |-> "send", sent |-> upload[u].sent + 1]
      [] NextRequest(u).do = "end" -> [at |-> "done", sent |-> Chunks]
      [] NextRequest(u).do = "abort" -> [at |-> "failed", sent |-> 0]

\* answer is "none" when there is none; an import compares the digest that
\* the guest confirms outside of the try.
GivesUp(u, answer) ==
    IF \/ NextRequest(u).do = "abort"
       \/ NextRequest(u).do = "begin" /\ kind[u] # "seed"
       \/ answer \in Uploads /\ kind[u] = "import"
    THEN [at |-> "failed", sent |-> 0]
    ELSE [at |-> "abort", sent |-> 0]

Working(u) == upload[u].at \in {"begin", "send", "abort"}

\* The artifact is staged on the host, under an upload identity of its own
\* and then by its digest; nobody else touches it.
StageUpload(u) ==
    /\ upload[u].at = "idle"
    /\ upload' = [upload EXCEPT ![u] = [at |-> "begin", sent |-> 0]]
    /\ UNCHANGED <<kind, session, file, late, lost>>

RpcAnswered(u) ==
    /\ Working(u)
    /\ \E answer \in Uploads \union {"error"} :
        /\ Executes(NextRequest(u), answer)
        /\ upload' = [upload EXCEPT ![u] = IF answer = u THEN Succeeded(u)
                                           ELSE GivesUp(u, answer)]
    /\ UNCHANGED <<kind, late>>

RpcLost(u) ==
    /\ Lose
    /\ Working(u)
    /\ late' = late \union {NextRequest(u)}
    /\ upload' = [upload EXCEPT ![u] = GivesUp(u, "none")]
    /\ UNCHANGED <<kind, session, file>>

LateRpc(r) ==
    /\ r \in late
    /\ late' = late \ {r}
    /\ \E answer \in Uploads \union {"error"} : Executes(r, answer)
    /\ UNCHANGED <<kind, upload>>

\* The broker or the controller is killed: nobody aborts.
UploaderKilled(u) ==
    /\ Lose
    /\ Working(u)
    /\ upload' = [upload EXCEPT ![u] = [at |-> "failed", sent |-> 0]]
    /\ UNCHANGED <<kind, session, file, late>>

TransferNext ==
    \/ \E u \in Uploads : StageUpload(u) \/ RpcAnswered(u) \/ RpcLost(u) \/ UploaderKilled(u)
    \/ \E r \in late : LateRpc(r)

TransferSpec == TransferInit /\ [][TransferNext]_transferVars

----------------------------------------------------------------------------
(* Properties. *)

\* Whatever requests of others fall into a session, a file in the guest is
\* never put together from two uploads, nor from a part of one, and an
\* upload is only reported done when the guest has just got all of it.
TransfersAreWhole ==
    [][/\ TransferTypeOK'
       /\ \A k \in Kinds :
              file'[k] \in {NothingThere, Torn} \union {Content(u) : u \in Uploads}
       /\ \A u \in Uploads :
              upload[u].at # "done" /\ upload'[u].at = "done" =>
                  file'[kind[u]] = Content(u)]_transferVars

=============================================================================
