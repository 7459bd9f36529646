------------------------- MODULE GuestTransfer_proofs -------------------------
(***************************************************************************)
(* Theorems about the file transfers, for any number of uploads, chunks    *)
(* and lost answers.                                                       *)
(***************************************************************************)
EXTENDS GuestTransfer, SequenceTheorems, TLAPS

\* What is hashed is what is written, and a session knows whom it expects.
SessionsAgree ==
    \A k \in Kinds :
        /\ session[k].data = session[k].digest
        /\ session[k].open => session[k].expected \in Uploads

FilesAreWhole ==
    \A k \in Kinds :
        file[k] \in {NothingThere, Torn} \union {Content(u) : u \in Uploads}

LateAreSent ==
    \A r \in late : IF r.do = "chunk" THEN r.n # 0 ELSE r.n = 0

OneSeed == \A u, w \in Uploads : kind[u] = "seed" /\ kind[w] = "seed" => u = w

TheBegin(u) == [do |-> "begin", by |-> u, n |-> 0]

NotBegun(u) == upload[u].at \in {"idle", "begin"}

Untouched(k) == ~session[k].open /\ session[k].digest = <<>>

\* The digest of a seed is never reset.  It is right all the same, because the
\* one seed begins once: before that the session is as it was created.
SeedIsFresh ==
    \A u \in Uploads :
        /\ NotBegun(u) => TheBegin(u) \notin late
        /\ kind[u] = "seed" /\ (NotBegun(u) \/ TheBegin(u) \in late) =>
               Untouched("seed")

\* The inductive invariant.
IInv ==
    /\ TransferTypeOK
    /\ SessionsAgree /\ FilesAreWhole /\ LateAreSent /\ OneSeed /\ SeedIsFresh

\* What any request does to the guest, whoever sent it and whenever it runs.
GuestStep(r, answer) ==
    /\ session' \in [Kinds -> [open : BOOLEAN, expected : Uploads \union {"none"},
                               data : AnyChunks, digest : AnyChunks]]
    /\ file' \in [Kinds -> AnyChunks \union {Torn}]
    /\ lost' \in 0..MaxLost
    /\ SessionsAgree' /\ FilesAreWhole'
    /\ r.do = "end" /\ answer = r.by => file'[kind[r.by]] = Content(r.by)
    /\ \A k \in Kinds :
           Untouched(k) /\ (r.do = "begin" => k # kind[r.by]) => Untouched(k)'

----------------------------------------------------------------------------
(* Contents. *)

LEMMA ContentIsASeq ==
    ASSUME NEW u \in Uploads
    PROVE  Content(u) \in AnyChunks
<1>1. \A n \in 1..Chunks : <<u, n>> \in Uploads \X (1..Chunks)
    OBVIOUS
<1>2. Content(u) \in [1..Chunks -> Uploads \X (1..Chunks)]
    BY <1>1 DEF Content
<1> QED BY <1>2, TransferAssumption, SeqDef DEF AnyChunks

LEMMA NothingIsASeq == <<>> \in AnyChunks
BY EmptySeq DEF AnyChunks

LEMMA SessionFields ==
    ASSUME TransferTypeOK, NEW k \in Kinds
    PROVE  /\ session[k] \in [open : BOOLEAN, expected : Uploads \union {"none"},
                              data : AnyChunks, digest : AnyChunks]
           /\ session[k].data \in AnyChunks /\ session[k].digest \in AnyChunks
BY DEF TransferTypeOK

----------------------------------------------------------------------------
(* The guest. *)

LEMMA GuestBegins ==
    ASSUME IInv, NEW r \in Request, r.do = "begin", NEW answer,
           kind[r.by] = "seed" => Untouched("seed"),
           session' = [session EXCEPT ![kind[r.by]] = Begun(r.by)],
           UNCHANGED <<file, lost, kind>>
    PROVE  GuestStep(r, answer)
<1> DEFINE k == kind[r.by]
<1>1. r.by \in Uploads /\ k \in Kinds /\ "seed" \in Kinds
    BY DEF IInv, TransferTypeOK, Request, Kinds
<1>2. Begun(r.by) = [open |-> TRUE, expected |-> r.by, data |-> <<>>, digest |-> <<>>]
    BY DEF Begun, Untouched
<1>3. session' \in [Kinds -> [open : BOOLEAN, expected : Uploads \union {"none"},
                              data : AnyChunks, digest : AnyChunks]]
    BY <1>1, <1>2, NothingIsASeq DEF IInv, TransferTypeOK
<1>4. SessionsAgree'
    BY <1>1, <1>2, <1>3 DEF IInv, SessionsAgree, TransferTypeOK
<1>5. \A j \in Kinds \ {k} : session'[j] = session[j]
    BY DEF IInv, TransferTypeOK
<1> QED BY <1>3, <1>4, <1>5 DEF IInv, TransferTypeOK, FilesAreWhole, Untouched, GuestStep

LEMMA GuestAppends ==
    ASSUME IInv, NEW r \in Request, r.do = "chunk", r.n # 0, NEW answer,
           MayAppend(kind[r.by]),
           session' = [session EXCEPT ![kind[r.by]] = Appended(r.by, r.n)],
           UNCHANGED <<file, lost, kind>>
    PROVE  GuestStep(r, answer)
<1> DEFINE k == kind[r.by]
           s == session[k]
<1>1. /\ r.by \in Uploads /\ k \in Kinds
      /\ <<r.by, r.n>> \in Uploads \X (1..Chunks)
    BY TransferAssumption DEF IInv, TransferTypeOK, Request
<1>2. /\ s \in [open : BOOLEAN, expected : Uploads \union {"none"},
                data : AnyChunks, digest : AnyChunks]
      /\ s.data = s.digest /\ s.open /\ s.expected \in Uploads
    BY <1>1, SessionFields DEF IInv, SessionsAgree, MayAppend
<1>3. Append(s.data, <<r.by, r.n>>) \in AnyChunks
    BY <1>1, <1>2, AppendProperties DEF AnyChunks
<1>4. /\ Appended(r.by, r.n) \in [open : BOOLEAN, expected : Uploads \union {"none"},
                                  data : AnyChunks, digest : AnyChunks]
      /\ Appended(r.by, r.n).data = Appended(r.by, r.n).digest
      /\ Appended(r.by, r.n).expected \in Uploads
    <2>1. Appended(r.by, r.n) =
              [s EXCEPT !.data = Append(s.data, <<r.by, r.n>>),
                        !.digest = Append(s.digest, <<r.by, r.n>>)]
        BY DEF Appended
    <2> HIDE DEF s
    <2> QED BY <1>2, <1>3, <2>1
<1>5. session' \in [Kinds -> [open : BOOLEAN, expected : Uploads \union {"none"},
                              data : AnyChunks, digest : AnyChunks]]
    BY <1>1, <1>4 DEF IInv, TransferTypeOK
<1>6. SessionsAgree'
    BY <1>1, <1>4, <1>5 DEF IInv, SessionsAgree, TransferTypeOK
<1>7. \A j \in Kinds : Untouched(j) => Untouched(j)'
    BY <1>2 DEF IInv, TransferTypeOK, Untouched
<1> QED BY <1>5, <1>6, <1>7 DEF IInv, TransferTypeOK, FilesAreWhole, GuestStep

LEMMA SessionEnds ==
    ASSUME IInv, NEW k \in Kinds,
           session' = [session EXCEPT ![k] = EndSession(k)]
    PROVE  /\ session' \in [Kinds -> [open : BOOLEAN, expected : Uploads \union {"none"},
                                      data : AnyChunks, digest : AnyChunks]]
           /\ SessionsAgree'
           /\ \A j \in Kinds : Untouched(j) => Untouched(j)'
<1>1. /\ EndSession(k) \in [open : BOOLEAN, expected : Uploads \union {"none"},
                            data : AnyChunks, digest : AnyChunks]
      /\ EndSession(k).open = FALSE
      /\ EndSession(k).data = session[k].data /\ EndSession(k).digest = session[k].digest
      /\ EndSession(k).expected = session[k].expected
    BY SessionFields DEF IInv, EndSession
<1>2. session' \in [Kinds -> [open : BOOLEAN, expected : Uploads \union {"none"},
                              data : AnyChunks, digest : AnyChunks]]
    BY <1>1 DEF IInv, TransferTypeOK
<1>3. SessionsAgree'
    BY <1>1, <1>2 DEF IInv, SessionsAgree, TransferTypeOK
<1> QED BY <1>1, <1>2, <1>3 DEF IInv, TransferTypeOK, Untouched

\* The one place where a file is put in its destination: what was hashed is
\* what is written, so a confirmed digest is that of the whole upload.
LEMMA GuestPublishes ==
    ASSUME IInv, NEW r \in Request, NEW answer, r.do = "end", Verified(r.by),
           answer = (IF kind[r.by] = "seed" THEN r.by ELSE session[kind[r.by]].expected),
           file' = [file EXCEPT ![kind[r.by]] = session[kind[r.by]].data],
           session' = [session EXCEPT ![kind[r.by]] = EndSession(kind[r.by])],
           UNCHANGED <<lost, kind>>
    PROVE  GuestStep(r, answer)
<1> DEFINE k == kind[r.by]
<1>1. r.by \in Uploads /\ k \in Kinds
    BY DEF IInv, TransferTypeOK, Request
<1>2. answer \in Uploads /\ session[k].data = Content(answer)
    BY <1>1 DEF IInv, SessionsAgree, Verified
<1>3. file' \in [Kinds -> AnyChunks \union {Torn}]
    BY <1>1, SessionFields DEF IInv, TransferTypeOK
<1>4. FilesAreWhole'
    BY <1>1, <1>2, <1>3 DEF IInv, FilesAreWhole, TransferTypeOK
<1>5. file'[k] = Content(answer)
    BY <1>1, <1>2, <1>3 DEF IInv, TransferTypeOK
<1> QED BY <1>1, <1>3, <1>4, <1>5, SessionEnds DEF IInv, TransferTypeOK, GuestStep

LEMMA GuestSteps ==
    ASSUME IInv, NEW r \in Request, r.do = "chunk" => r.n # 0,
           r.do = "begin" /\ kind[r.by] = "seed" => Untouched("seed"),
           NEW answer \in Uploads \union {"error"}, Executes(r, answer), UNCHANGED kind
    PROVE  GuestStep(r, answer)
<1> DEFINE k == kind[r.by]
<1>0. r.by \in Uploads /\ k \in Kinds /\ r.by # "error"
    BY TransferAssumption DEF IInv, TransferTypeOK, Request
<1>1. CASE r.do = "begin" /\ MayBegin(k) /\ session' = [session EXCEPT ![k] = Begun(r.by)]
           /\ UNCHANGED <<file, lost>>
    BY <1>1, GuestBegins
<1>2. CASE r.do = "chunk" /\ MayAppend(k) /\ session' = [session EXCEPT ![k] = Appended(r.by, r.n)]
           /\ UNCHANGED <<file, lost>>
    BY <1>2, GuestAppends
<1>3. CASE /\ r.do = "end" /\ Verified(r.by)
           /\ answer = (IF k = "seed" THEN r.by ELSE session[k].expected)
           /\ file' = [file EXCEPT ![k] = session[k].data]
           /\ session' = [session EXCEPT ![k] = EndSession(k)]
           /\ UNCHANGED lost
    BY <1>3, GuestPublishes
<1>4. CASE /\ r.do = "end" /\ answer = "error" /\ Lose
           /\ file' = [file EXCEPT ![k] = Torn]
           /\ session' = [session EXCEPT ![k] = EndSession(k)]
    <2>1. file' \in [Kinds -> AnyChunks \union {Torn}] /\ FilesAreWhole'
        BY <1>0, <1>4 DEF IInv, TransferTypeOK, FilesAreWhole
    <2>2. lost' \in 0..MaxLost
        BY <1>4, TransferAssumption DEF IInv, TransferTypeOK, Lose
    <2> QED BY <1>0, <1>4, <2>1, <2>2, SessionEnds DEF GuestStep
<1>5. CASE /\ r.do \in {"end", "abort"}
           /\ r.do = "end" => answer = "error"
           /\ session' = [session EXCEPT ![k] = EndSession(k)]
           /\ UNCHANGED <<file, lost>>
    <2>1. file' \in [Kinds -> AnyChunks \union {Torn}] /\ FilesAreWhole' /\ lost' \in 0..MaxLost
        BY <1>5 DEF IInv, TransferTypeOK, FilesAreWhole
    <2> QED BY <1>0, <1>5, <2>1, SessionEnds DEF GuestStep
<1>6. CASE r.do \in {"begin", "chunk"} /\ UNCHANGED <<session, file, lost>>
    BY <1>6 DEF IInv, TransferTypeOK, FilesAreWhole, SessionsAgree, Untouched, GuestStep
<1> QED BY <1>1, <1>2, <1>3, <1>4, <1>5, <1>6 DEF Executes

----------------------------------------------------------------------------
(* The clients. *)

Positions == [at : Stages, sent : 0..Chunks]

LEMMA Requests ==
    ASSUME IInv, NEW u \in Uploads, Working(u)
    PROVE  /\ NextRequest(u) \in Request /\ NextRequest(u).by = u
           /\ IF NextRequest(u).do = "chunk" THEN NextRequest(u).n # 0
                                             ELSE NextRequest(u).n = 0
           /\ NextRequest(u).do = "begin" <=> upload[u].at = "begin"
           /\ NextRequest(u) = TheBegin(u) <=> upload[u].at = "begin"
           /\ Succeeded(u) \in Positions /\ Succeeded(u).at \notin {"idle", "begin"}
           /\ Succeeded(u).at = "done" => NextRequest(u).do = "end"
<1>1. upload[u] \in Positions
    BY DEF IInv, TransferTypeOK, Positions
<1>2. CASE upload[u].at = "begin"
    <2>1. NextRequest(u) = [do |-> "begin", by |-> u, n |-> 0]
        BY <1>2 DEF NextRequest
    <2> QED BY <1>2, <2>1, TransferAssumption
            DEF Request, Positions, Stages, Succeeded, TheBegin
<1>3. CASE upload[u].at = "send" /\ upload[u].sent < Chunks
    <2>1. NextRequest(u) = [do |-> "chunk", by |-> u, n |-> upload[u].sent + 1]
        BY <1>1, <1>3, TransferAssumption DEF NextRequest, Positions
    <2> QED BY <1>1, <1>3, <2>1, TransferAssumption
            DEF Request, Positions, Stages, Succeeded, TheBegin
<1>4. CASE upload[u].at = "send" /\ upload[u].sent = Chunks
    <2>1. NextRequest(u) = [do |-> "end", by |-> u, n |-> 0]
        BY <1>1, <1>4, TransferAssumption DEF NextRequest, Positions
    <2> QED BY <1>1, <1>4, <2>1, TransferAssumption
            DEF Request, Positions, Stages, Succeeded, TheBegin
<1>5. CASE upload[u].at = "abort"
    <2>1. NextRequest(u) = [do |-> "abort", by |-> u, n |-> 0]
        BY <1>5 DEF NextRequest
    <2> QED BY <1>5, <2>1, TransferAssumption
            DEF Request, Positions, Stages, Succeeded, TheBegin
<1> QED BY <1>1, <1>2, <1>3, <1>4, <1>5, TransferAssumption DEF Working, Positions

LEMMA Retreats ==
    ASSUME NEW u \in Uploads, NEW answer
    PROVE  GivesUp(u, answer) \in Positions /\ GivesUp(u, answer).at \in {"failed", "abort"}
BY TransferAssumption DEF GivesUp, Positions, Stages

LEMMA LoseCounts ==
    ASSUME TransferTypeOK, Lose
    PROVE  lost' \in 0..MaxLost
BY TransferAssumption DEF TransferTypeOK, Lose

\* Uploads move on; who has begun does not begin again.
LEMMA UploadsMove ==
    ASSUME IInv, NEW u \in Uploads, NEW p \in Positions, p.at \notin {"idle", "begin"},
           upload' = [upload EXCEPT ![u] = p]
    PROVE  /\ upload' \in [Uploads -> Positions] /\ ~NotBegun(u)'
           /\ \A w \in Uploads \ {u} : NotBegun(w)' <=> NotBegun(w)
BY DEF IInv, TransferTypeOK, Positions, NotBegun

LEMMA Staged ==
    ASSUME IInv, NEW u \in Uploads, StageUpload(u)
    PROVE  IInv'
<1>1. upload' \in [Uploads -> Positions] /\ \A w \in Uploads : NotBegun(w)' <=> NotBegun(w)
    BY TransferAssumption DEF IInv, TransferTypeOK, StageUpload, Positions, Stages, NotBegun
<1>2. UNCHANGED <<kind, session, file, late, lost>>
    BY DEF StageUpload
<1> QED BY <1>1, <1>2 DEF IInv, TransferTypeOK, Positions, SessionsAgree, FilesAreWhole,
        LateAreSent, OneSeed, SeedIsFresh, Untouched

LEMMA Answers ==
    ASSUME IInv, NEW u \in Uploads, RpcAnswered(u)
    PROVE  /\ IInv'
           /\ upload'[u].at = "done" => file'[kind[u]] = Content(u)
           /\ \A w \in Uploads \ {u} : upload'[w] = upload[w]
<1> DEFINE r == NextRequest(u)
<1>1. PICK answer \in Uploads \union {"error"} :
          /\ Executes(r, answer)
          /\ upload' = [upload EXCEPT ![u] = IF answer = u THEN Succeeded(u)
                                             ELSE GivesUp(u, answer)]
    BY DEF RpcAnswered
<1>2. Working(u) /\ UNCHANGED <<kind, late>>
    BY DEF RpcAnswered
<1>3. r \in Request /\ r.by = u /\ (r.do = "chunk" => r.n # 0)
    BY <1>2, Requests
<1>4. r.do = "begin" /\ kind[r.by] = "seed" => Untouched("seed")
    BY <1>2, Requests DEF IInv, SeedIsFresh, NotBegun
<1>5. GuestStep(r, answer)
    BY <1>1, <1>2, <1>3, <1>4, Requests, GuestSteps
<1> DEFINE p == IF answer = u THEN Succeeded(u) ELSE GivesUp(u, answer)
<1>6. /\ p \in Positions /\ p.at \notin {"idle", "begin"}
      /\ upload' = [upload EXCEPT ![u] = p]
      /\ p.at = "done" => answer = u /\ r.do = "end"
    BY <1>1, <1>2, Requests, Retreats
<1> HIDE DEF p
<1>7. /\ upload' \in [Uploads -> Positions] /\ ~NotBegun(u)'
      /\ \A w \in Uploads \ {u} : NotBegun(w)' <=> NotBegun(w)
    BY <1>6, UploadsMove
<1>8. SeedIsFresh'
    <2>1. ASSUME NEW w \in Uploads, NotBegun(w)'
          PROVE  TheBegin(w)' \notin late'
        BY <1>2, <1>7, <2>1 DEF IInv, SeedIsFresh, TheBegin
    <2>2. ASSUME NEW w \in Uploads, kind[w] = "seed", (NotBegun(w) \/ TheBegin(w) \in late)'
          PROVE  Untouched("seed")'
        <3>1. Untouched("seed")
            BY <1>2, <1>7, <2>2 DEF IInv, SeedIsFresh, TheBegin
        <3>2. r.do = "begin" => kind[r.by] # "seed"
            <4>1. ASSUME r.do = "begin", kind[u] = "seed" PROVE FALSE
                <5>1. u = w /\ upload[u].at = "begin"
                    BY <1>2, <2>2, <4>1, Requests DEF IInv, OneSeed
                <5> QED BY <1>2, <1>7, <2>2, <5>1 DEF IInv, SeedIsFresh, NotBegun, TheBegin
            <4> QED BY <1>3, <4>1
        <3> QED BY <1>5, <3>1, <3>2 DEF GuestStep, Kinds
    <2> QED BY <1>2, <2>1, <2>2 DEF SeedIsFresh
<1>9. IInv'
    BY <1>2, <1>5, <1>7, <1>8 DEF IInv, TransferTypeOK, Positions, LateAreSent, OneSeed, GuestStep
<1>10. upload'[u] = p /\ \A w \in Uploads \ {u} : upload'[w] = upload[w]
    BY <1>6 DEF IInv, TransferTypeOK
<1> QED BY <1>2, <1>3, <1>5, <1>6, <1>9, <1>10, Requests DEF GuestStep

LEMMA Losses ==
    ASSUME IInv, NEW u \in Uploads, RpcLost(u)
    PROVE  IInv' /\ \A w \in Uploads : upload'[w].at = "done" => upload[w].at = "done"
<1>1. /\ Working(u) /\ late' = late \union {NextRequest(u)}
      /\ upload' = [upload EXCEPT ![u] = GivesUp(u, "none")]
      /\ UNCHANGED <<kind, session, file>>
    BY DEF RpcLost
<1>2. /\ upload' \in [Uploads -> Positions] /\ ~NotBegun(u)'
      /\ \A w \in Uploads \ {u} : NotBegun(w)' <=> NotBegun(w)
    BY <1>1, Retreats, UploadsMove
<1>3. lost' \in 0..MaxLost
    BY LoseCounts DEF IInv, RpcLost
<1>4. late' \subseteq Request /\ LateAreSent'
    BY <1>1, Requests DEF IInv, TransferTypeOK, LateAreSent
<1>5. \A w \in Uploads : TheBegin(w) \in late' =>
          TheBegin(w) \in late \/ (w = u /\ NotBegun(u))
    BY <1>1, Requests DEF TheBegin, NotBegun
<1>6. SeedIsFresh'
    BY <1>1, <1>2, <1>5 DEF IInv, SeedIsFresh, TheBegin, Untouched
<1>7. \A w \in Uploads : upload'[w].at = "done" => upload[w].at = "done"
    BY <1>1, Retreats DEF IInv, TransferTypeOK
<1> QED BY <1>1, <1>2, <1>3, <1>4, <1>6, <1>7
        DEF IInv, TransferTypeOK, Positions, SessionsAgree, FilesAreWhole, OneSeed

LEMMA LateSteps ==
    ASSUME IInv, NEW r \in late, LateRpc(r)
    PROVE  IInv' /\ UNCHANGED upload
<1>1. r \in Request /\ late' = late \ {r} /\ UNCHANGED <<kind, upload>>
    BY DEF IInv, TransferTypeOK, LateRpc
<1>2. r.by \in Uploads /\ (r.do = "begin" => r = TheBegin(r.by))
    BY <1>1 DEF IInv, LateAreSent, Request, TheBegin
<1>3. PICK answer \in Uploads \union {"error"} : Executes(r, answer)
    BY DEF LateRpc
<1>4. r.do = "begin" /\ kind[r.by] = "seed" => Untouched("seed")
    BY <1>1, <1>2 DEF IInv, SeedIsFresh, Request
<1>5. GuestStep(r, answer)
    BY <1>1, <1>3, <1>4, GuestSteps DEF IInv, LateAreSent
<1>6. SeedIsFresh'
    <2>1. ASSUME NEW w \in Uploads, NotBegun(w)'
          PROVE  TheBegin(w)' \notin late'
        BY <1>1, <2>1 DEF IInv, SeedIsFresh, TheBegin, NotBegun
    <2>2. ASSUME NEW w \in Uploads, kind[w] = "seed", (NotBegun(w) \/ TheBegin(w) \in late)'
          PROVE  Untouched("seed")'
        <3>1. Untouched("seed")
            BY <1>1, <2>2 DEF IInv, SeedIsFresh, TheBegin, NotBegun
        <3>2. r.do = "begin" => kind[r.by] # "seed"
            BY <1>1, <1>2, <2>2 DEF IInv, OneSeed, SeedIsFresh, TheBegin, NotBegun, Request
        <3> QED BY <1>5, <3>1, <3>2 DEF GuestStep, Kinds
    <2> QED BY <1>1, <2>1, <2>2 DEF SeedIsFresh
<1> QED BY <1>1, <1>5, <1>6 DEF IInv, TransferTypeOK, LateAreSent, OneSeed, GuestStep

LEMMA Kills ==
    ASSUME IInv, NEW u \in Uploads, UploaderKilled(u)
    PROVE  IInv' /\ \A w \in Uploads : upload'[w].at = "done" => upload[w].at = "done"
<1> DEFINE gone == [at |-> "failed", sent |-> 0]
<1>1. upload' = [upload EXCEPT ![u] = gone] /\ UNCHANGED <<kind, session, file, late>>
    BY DEF UploaderKilled
<1>2. gone \in Positions /\ gone.at = "failed"
    BY TransferAssumption DEF Positions, Stages
<1>3. /\ upload' \in [Uploads -> Positions] /\ ~NotBegun(u)'
      /\ \A w \in Uploads \ {u} : NotBegun(w)' <=> NotBegun(w)
    BY <1>1, <1>2, UploadsMove
<1>4. lost' \in 0..MaxLost
    BY LoseCounts DEF IInv, UploaderKilled
<1>5. SeedIsFresh'
    BY <1>1, <1>3 DEF IInv, SeedIsFresh, TheBegin, Untouched
<1>6. \A w \in Uploads : upload'[w].at = "done" => upload[w].at = "done"
    BY <1>1, <1>2 DEF IInv, TransferTypeOK
<1> QED BY <1>1, <1>3, <1>4, <1>5, <1>6
        DEF IInv, TransferTypeOK, Positions, SessionsAgree, FilesAreWhole, LateAreSent, OneSeed

----------------------------------------------------------------------------
(* The theorems. *)

Whole ==
    /\ TransferTypeOK'
    /\ \A k \in Kinds :
           file'[k] \in {NothingThere, Torn} \union {Content(u) : u \in Uploads}
    /\ \A u \in Uploads :
           upload[u].at # "done" /\ upload'[u].at = "done" => file'[kind[u]] = Content(u)

LEMMA Stutters ==
    ASSUME IInv, UNCHANGED transferVars
    PROVE  IInv'
BY DEF IInv, TransferTypeOK, transferVars, SessionsAgree, FilesAreWhole, LateAreSent,
       OneSeed, SeedIsFresh, NotBegun, TheBegin, Untouched

LEMMA Steps ==
    ASSUME IInv, [TransferNext]_transferVars
    PROVE  IInv' /\ Whole
<1> SUFFICES /\ IInv'
             /\ \A u \in Uploads : upload[u].at # "done" /\ upload'[u].at = "done" =>
                    file'[kind[u]] = Content(u)
    BY DEF IInv, FilesAreWhole, Whole
<1>1. ASSUME NEW u \in Uploads, StageUpload(u)
      PROVE  IInv' /\ \A w \in Uploads : upload'[w].at = "done" => upload[w].at = "done"
    BY <1>1, Staged DEF StageUpload, IInv, TransferTypeOK
<1>2. CASE \E u \in Uploads : RpcAnswered(u)
    BY <1>2, Answers
<1>3. CASE \E u \in Uploads : RpcLost(u) \/ UploaderKilled(u)
    BY <1>3, Losses, Kills
<1>4. CASE \E r \in late : LateRpc(r)
    BY <1>4, LateSteps
<1>5. CASE UNCHANGED transferVars
    BY <1>5, Stutters DEF transferVars
<1> QED BY <1>1, <1>2, <1>3, <1>4, <1>5 DEF TransferNext

\* The inductive invariant of the transfers: what is hashed is what is
\* written, files are whole, and the one seed begins on an untouched session.
THEOREM Inductive == TransferSpec => []IInv
<1>1. ASSUME TransferInit PROVE IInv
    <2>1. 0 \in 0..MaxLost /\ 0 \in 0..Chunks
        BY TransferAssumption
    <2>2. Closed \in [open : BOOLEAN, expected : Uploads \union {"none"},
                      data : AnyChunks, digest : AnyChunks]
        BY NothingIsASeq DEF Closed
    <2>3. TransferTypeOK
        BY <1>1, <2>1, <2>2, NothingIsASeq
           DEF TransferInit, TransferTypeOK, NothingThere, Stages
    <2>4. SessionsAgree /\ FilesAreWhole /\ LateAreSent /\ OneSeed
        BY <1>1 DEF TransferInit, SessionsAgree, FilesAreWhole, LateAreSent, OneSeed, Closed
    <2>5. SeedIsFresh
        BY <1>1 DEF TransferInit, SeedIsFresh, Untouched, Closed, Kinds
    <2> QED BY <2>3, <2>4, <2>5 DEF IInv
<1>2. IInv /\ [TransferNext]_transferVars => IInv'
    BY Steps
<1> QED BY <1>1, <1>2, PTL DEF TransferSpec

\* No file in the guest is put together from two uploads or from a part of
\* one, and done means that the guest just got all of it, whatever was lost
\* or executed late.
THEOREM Wholeness == TransferSpec => TransfersAreWhole
<1>1. IInv /\ [TransferNext]_transferVars => [Whole]_transferVars
    BY Steps
<1> QED BY <1>1, Inductive, PTL DEF TransferSpec, TransfersAreWhole, Whole
=============================================================================
