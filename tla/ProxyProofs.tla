---------------------------- MODULE ProxyProofs ----------------------------
(***************************************************************************)
(* Theorems about Proxy, for any set of requests, names and configurations *)
(* and any bounds: what is written to a client (EndedIsWhole, CommitsOnce) *)
(* and who was asked before it is refused (RefusesAfterAll).               *)
(*                                                                         *)
(* The first two take a plan as it comes.  The third needs what a plan     *)
(* holds: FoldIs unfolds FoldLeft into the lists it passes through, up to  *)
(* the first index at which a property of them would fail (FirstFailure),  *)
(* RotationHasAll finds the turn of every entry, and PlanComplete puts the *)
(* two together.  Planned then follows the requests along their plans.     *)
(***************************************************************************)
EXTENDS Proxy, FiniteSetTheorems, WellFoundedInduction, TLAPS

Plans == {PlanOf(name, c, turn, tools) :
              name \in Names, c \in Configs, turn \in Nat, tools \in BOOLEAN} \cup {<<>>}
Models == {plan[i] : plan \in Plans, i \in Nat}

Labels == {"arrived", "ask", "muse", "upstream", "judge", "stream", "done"}
Reqs == [pc : Labels, name : Names \cup {<<>>}, prefixed : BOOLEAN, head : BOOLEAN,
         plan : Plans, index : Nat, asked : Seq(Models)]
Sources == [status : Nat, framing : Framings \cup {"none"}, text : BOOLEAN,
            total : Nat, left : Nat, held : Nat]
Wires == [status : Nat, by : Nat, pieces : Nat, end : {"open", "whole", "cut"}]

Typed ==
    /\ config \in Configs
    /\ counter \in Nat
    /\ req \in [Requests -> Reqs]
    /\ source \in [Requests -> Sources]
    /\ wire \in [Requests -> Wires]

\* Until the answer begins nothing has been written.
Unwritten ==
    \A r \in Requests :
        req[r].pc \notin {"stream", "done"} =>
            wire[r].status = 0 /\ wire[r].pieces = 0 /\ wire[r].end = "open"

\* Of a stream, what was read is either written or held.
Streamed ==
    \A r \in Requests :
        req[r].pc \in {"judge", "stream"} =>
            /\ wire[r].end = "open"
            /\ wire[r].pieces + source[r].held + source[r].left = source[r].total

\* Every attempt begins without a source.
Unread ==
    \A r \in Requests :
        req[r].pc \in {"arrived", "ask", "muse", "upstream"} => source[r].framing = "none"

IInv == Typed /\ Unwritten /\ Streamed /\ Unread /\ EndMeansWhole

\* What CommittedOnce says of a step.
Kept ==
    \A r \in Requests : wire[r].status # 0 =>
        /\ wire'[r].status = wire[r].status
        /\ wire'[r].by = wire[r].by
        /\ req'[r].asked = req[r].asked

-----------------------------------------------------------------------------
LEMMA InitInv == Init => IInv
<1> SUFFICES ASSUME Init PROVE IInv
  OBVIOUS
<1>1. Arrived \in Reqs
  BY DEF Arrived, Reqs, Labels, Plans
<1>2. NoSource \in Sources /\ Nothing \in Wires
  BY DEF NoSource, Sources, Nothing, Wires
<1>3. Typed
  BY <1>1, <1>2 DEF Init, Typed
<1>4. \A r \in Requests : req[r].pc = "arrived" /\ wire[r] = Nothing
  BY DEF Init, Arrived
<1>5. \A r \in Requests : source[r].framing = "none"
  BY DEF Init, NoSource
<1> QED BY <1>3, <1>4, <1>5 DEF IInv, Unwritten, Streamed, Unread, EndMeansWhole, Nothing

\* What a step that leaves request r with q, s and w has to keep.
Sound(r, q, s, w) ==
    /\ q.pc \notin {"stream", "done"} => w.status = 0 /\ w.pieces = 0 /\ w.end = "open"
    /\ q.pc \in {"judge", "stream"} =>
           w.end = "open" /\ w.pieces + s.held + s.left = s.total
    /\ q.pc \in {"arrived", "ask", "muse", "upstream"} => s.framing = "none"
    /\ w.end = "whole" /\ w.by # 0 /\ s.framing = "chunked" /\ s.status \notin Bodiless
           => w.pieces = s.total
    /\ wire[r].status # 0 =>
           w.status = wire[r].status /\ w.by = wire[r].by /\ q.asked = req[r].asked

LEMMA StepKeeps ==
    ASSUME IInv, NEW r \in Requests,
           NEW q \in Reqs, NEW s \in Sources, NEW w \in Wires,
           req' = [req EXCEPT ![r] = q], source' = [source EXCEPT ![r] = s],
           wire' = [wire EXCEPT ![r] = w],
           config' = config, counter' \in Nat, Sound(r, q, s, w)
    PROVE  IInv' /\ Kept
<1>1. Typed'
  BY DEF IInv, Typed
<1>2. /\ req'[r] = q /\ source'[r] = s /\ wire'[r] = w
      /\ \A o \in Requests \ {r} :
             req'[o] = req[o] /\ source'[o] = source[o] /\ wire'[o] = wire[o]
  BY DEF IInv, Typed
<1>3. Unwritten' /\ Streamed' /\ Unread' /\ EndMeansWhole'
  BY <1>2 DEF IInv, Unwritten, Streamed, Unread, EndMeansWhole, Sound
<1>4. Kept
  BY <1>2 DEF Kept, Sound
<1> QED BY <1>1, <1>3, <1>4 DEF IInv

-----------------------------------------------------------------------------
(* The pieces the actions are made of. *)

LEMMA NextCandidateKeeps ==
    ASSUME IInv, NEW r \in Requests, req[r].pc \notin {"stream", "done"},
           NextCandidate(r), UNCHANGED <<config, counter>>
    PROVE  IInv' /\ Kept
<1> DEFINE q == [req[r] EXCEPT !.pc = "ask", !.index = @ + 1]
<1>1. NoSource \in Sources /\ wire[r] \in Wires /\ req[r] \in Reqs /\ counter \in Nat
  BY DEF IInv, Typed, NoSource, Sources
<1>2. q \in Reqs
  <2> DEFINE n == req[r].index + 1
  <2>1. n \in Nat
    BY <1>1 DEF Reqs
  <2>2. ASSUME NEW m \in Nat PROVE [req[r] EXCEPT !.pc = "ask", !.index = m] \in Reqs
    BY <1>1 DEF Reqs, Labels
  <2> QED BY <2>1, <2>2
<1>3. q.pc = "ask"
  BY <1>1 DEF Reqs
<1>4. Sound(r, q, NoSource, wire[r])
  BY <1>3 DEF Sound, IInv, Unwritten, NoSource
<1>5. /\ req' = [req EXCEPT ![r] = q] /\ source' = [source EXCEPT ![r] = NoSource]
      /\ wire' = [wire EXCEPT ![r] = wire[r]]
  BY DEF NextCandidate, IInv, Typed
<1> HIDE DEF q
<1> QED BY <1>1, <1>2, <1>4, <1>5, StepKeeps

LEMMA FinishKeeps ==
    ASSUME IInv, NEW r \in Requests, Finish(r), UNCHANGED <<config, counter, source>>,
           NEW w \in Wires, wire' = [wire EXCEPT ![r] = w],
           w.end = "whole" /\ w.by # 0 /\ source[r].framing = "chunked"
               /\ source[r].status \notin Bodiless => w.pieces = source[r].total,
           wire[r].status # 0 => w.status = wire[r].status /\ w.by = wire[r].by
    PROVE  IInv' /\ Kept
<1> DEFINE q == [req[r] EXCEPT !.pc = "done"]
<1>1. source[r] \in Sources /\ req[r] \in Reqs /\ counter \in Nat
  BY DEF IInv, Typed
<1>2. q \in Reqs /\ q.pc = "done" /\ q.asked = req[r].asked
  BY <1>1 DEF Reqs, Labels
<1>3. Sound(r, q, source[r], w)
  BY <1>2 DEF Sound
<1>4. req' = [req EXCEPT ![r] = q] /\ source' = [source EXCEPT ![r] = source[r]]
  BY DEF Finish, IInv, Typed
<1> HIDE DEF q
<1> QED BY <1>1, <1>2, <1>3, <1>4, StepKeeps

LEMMA CutKeeps ==
    ASSUME IInv, NEW r \in Requests, Cut(r), UNCHANGED <<config, counter>>
    PROVE  IInv' /\ Kept
<1> DEFINE w == [wire[r] EXCEPT !.end = "cut"]
<1>1. wire[r] \in Wires
  BY DEF IInv, Typed
<1>2. w \in Wires /\ w.end = "cut" /\ w.status = wire[r].status /\ w.by = wire[r].by
  BY <1>1 DEF Wires
<1>3. Finish(r) /\ UNCHANGED source /\ wire' = [wire EXCEPT ![r] = w]
  BY DEF Cut
<1> HIDE DEF w
<1> QED BY <1>2, <1>3, FinishKeeps

\* An answer of the gateway's own, or one without a body.
LEMMA AnswerKeeps ==
    ASSUME IInv, NEW r \in Requests, req[r].pc \notin {"stream", "done"},
           NEW status \in Nat, NEW by \in Nat,
           by = 0 \/ source[r].framing # "chunked" \/ source[r].status \in Bodiless,
           Answer(r, status, by), UNCHANGED <<config, counter>>
    PROVE  IInv' /\ Kept
<1>1. CASE wire' = [wire EXCEPT ![r] =
               [status |-> status, by |-> by, pieces |-> 0, end |-> "whole"]]
  <2> DEFINE w == [status |-> status, by |-> by, pieces |-> 0, end |-> "whole"]
  <2>1. w \in Wires /\ w.by = by
    BY DEF Wires
  <2>2. wire[r].status = 0
    BY DEF IInv, Unwritten
  <2>3. Finish(r) /\ UNCHANGED source /\ wire' = [wire EXCEPT ![r] = w]
    BY <1>1 DEF Answer
  <2> HIDE DEF w
  <2> QED BY <2>1, <2>2, <2>3, FinishKeeps
<1>2. CASE wire' = [wire EXCEPT ![r].end = "cut"]
  BY <1>2, CutKeeps DEF Answer, Cut
<1> QED BY <1>1, <1>2 DEF Answer

LEMMA FailedKeeps ==
    ASSUME IInv, NEW r \in Requests, req[r].pc \notin {"stream", "done"},
           Failed(r), UNCHANGED <<config, counter>>
    PROVE  IInv' /\ Kept
<1>1. CASE Answer(r, 502, 0)
  BY <1>1, AnswerKeeps, 502 \in Nat, 0 \in Nat
<1>2. CASE NextCandidate(r)
  BY <1>2, NextCandidateKeeps
<1> QED BY <1>1, <1>2 DEF Failed

-----------------------------------------------------------------------------
(* The actions. *)

LEMMA PlanRequestKeeps ==
    ASSUME IInv, NEW r \in Requests, PlanRequest(r) PROVE IInv' /\ Kept
<1>1. PICK name \in Names, tools \in BOOLEAN, prefixed \in BOOLEAN, head \in BOOLEAN :
        req' = [req EXCEPT ![r] =
          [Arrived EXCEPT !.pc = "ask", !.name = name, !.prefixed = prefixed,
                          !.head = head, !.plan = PlanOf(name, config, counter, tools)]]
  BY DEF PlanRequest
<1> DEFINE p == PlanOf(name, config, counter, tools)
           q == [Arrived EXCEPT !.pc = "ask", !.name = name, !.prefixed = prefixed,
                                !.head = head, !.plan = p]
<1>2. /\ config \in Configs /\ counter \in Nat
      /\ source[r] \in Sources /\ wire[r] \in Wires
      /\ source' = [source EXCEPT ![r] = source[r]]
      /\ wire' = [wire EXCEPT ![r] = wire[r]]
      /\ config' = config /\ counter' \in Nat
  BY DEF IInv, Typed, PlanRequest
<1>3. p \in Plans
  BY <1>2 DEF Plans
<1>4. req' = [req EXCEPT ![r] = q]
  BY <1>1
<1> HIDE DEF p
<1>5. q \in Reqs /\ q.pc = "ask"
  <2>1. Arrived \in Reqs
    BY DEF Arrived, Reqs, Labels, Plans
  <2>2. ASSUME NEW c \in Reqs
        PROVE  LET o == [c EXCEPT !.pc = "ask", !.name = name, !.prefixed = prefixed,
                                  !.head = head, !.plan = p]
               IN  o \in Reqs /\ o.pc = "ask"
    BY <1>3 DEF Reqs, Labels
  <2> QED BY <2>1, <2>2
<1>6. Sound(r, q, source[r], wire[r])
  BY <1>5 DEF Sound, IInv, Unwritten, Unread, PlanRequest, At
<1> HIDE DEF q
<1> QED BY <1>2, <1>4, <1>5, <1>6, StepKeeps

LEMMA AskKeeps ==
    ASSUME IInv, NEW r \in Requests, Ask(r) PROVE IInv' /\ Kept
<1> DEFINE l == IF Model(r) = Muse THEN "muse" ELSE "upstream"
           a == Append(req[r].asked, Model(r))
           q == [req[r] EXCEPT !.asked = a, !.pc = l]
<1>1. req[r] \in Reqs /\ source[r] \in Sources /\ wire[r] \in Wires /\ counter \in Nat
  BY DEF IInv, Typed
<1>2. Model(r) \in Models
  BY <1>1 DEF Model, Models, Reqs
<1>3. a \in Seq(Models)
  BY <1>1, <1>2 DEF Reqs
<1>4. l \in {"muse", "upstream"}
  OBVIOUS
<1>5. req' = [req EXCEPT ![r] = q]
  BY DEF Ask
<1> HIDE DEF a, l
<1>6. q \in Reqs /\ q.pc = l
  BY <1>1, <1>3, <1>4 DEF Reqs, Labels
<1>7. Sound(r, q, source[r], wire[r])
  BY <1>4, <1>6 DEF Sound, IInv, Unwritten, Unread, Ask, At
<1>8. /\ source' = [source EXCEPT ![r] = source[r]] /\ wire' = [wire EXCEPT ![r] = wire[r]]
      /\ config' = config /\ counter' \in Nat
  BY <1>1 DEF Ask, IInv, Typed
<1> HIDE DEF q
<1> QED BY <1>1, <1>5, <1>6, <1>7, <1>8, StepKeeps

LEMMA MuseKeeps ==
    ASSUME IInv, NEW r \in Requests, MuseAnswers(r) \/ MuseFails(r) \/ UpstreamFails(r)
    PROVE  IInv' /\ Kept
<1>1. CASE MuseAnswers(r)
  <2>1. req[r].index \in Nat /\ source[r].framing = "none" /\ req[r].pc = "muse"
    BY <1>1 DEF IInv, Typed, Reqs, Unread, MuseAnswers, At
  <2>2. Answer(r, 200, req[r].index) /\ UNCHANGED <<config, counter>>
    BY <1>1 DEF MuseAnswers
  <2> QED BY <2>1, <2>2, AnswerKeeps, 200 \in Nat
<1>2. CASE MuseFails(r) \/ UpstreamFails(r)
  BY <1>2, FailedKeeps DEF MuseFails, UpstreamFails, At
<1> QED BY <1>1, <1>2

LEMMA UpstreamHeadKeeps ==
    ASSUME IInv, NEW r \in Requests, UpstreamHead(r) PROVE IInv' /\ Kept
<1>1. PICK status \in Statuses, framing \in Framings, text \in BOOLEAN,
           total \in 0..MaxPieces :
        source' = [source EXCEPT ![r] =
          [status |-> status, framing |-> framing, text |-> text,
           total |-> total, left |-> total, held |-> 0]]
  BY DEF UpstreamHead
<1> DEFINE s == [status |-> status, framing |-> framing, text |-> text,
                 total |-> total, left |-> total, held |-> 0]
           q == [req[r] EXCEPT !.pc = "judge"]
<1>2. req[r] \in Reqs /\ wire[r] \in Wires /\ counter \in Nat
  BY DEF IInv, Typed
<1>3. q \in Reqs /\ q.pc = "judge"
  BY <1>2 DEF Reqs, Labels
<1>4. status \in Nat /\ total \in Nat
  BY DEF Statuses
<1>5. s \in Sources
  BY <1>4 DEF Sources
<1>6. Sound(r, q, s, wire[r])
  BY <1>3, <1>4 DEF Sound, IInv, Unwritten, UpstreamHead, At
<1>7. /\ req' = [req EXCEPT ![r] = q] /\ source' = [source EXCEPT ![r] = s]
      /\ wire' = [wire EXCEPT ![r] = wire[r]]
      /\ config' = config /\ counter' \in Nat
  BY <1>1, <1>2 DEF UpstreamHead, IInv, Typed
<1> HIDE DEF q, s
<1> QED BY <1>2, <1>3, <1>5, <1>6, <1>7, StepKeeps

LEMMA JudgeKeeps ==
    ASSUME IInv, NEW r \in Requests, RetryOrRefuse(r) \/ AnswerBodiless(r)
    PROVE  IInv' /\ Kept
<1>1. source[r].status \in Nat /\ req[r].index \in Nat
  BY DEF IInv, Typed, Sources, Reqs
<1>2. CASE RetryOrRefuse(r)
  <2>1. req[r].pc = "judge" /\ UNCHANGED <<config, counter>>
    BY <1>2 DEF RetryOrRefuse, At
  <2>2. CASE Answer(r, source[r].status, 0)
    BY <1>1, <2>1, <2>2, AnswerKeeps, 0 \in Nat
  <2>3. CASE NextCandidate(r)
    BY <2>1, <2>3, NextCandidateKeeps
  <2> QED BY <1>2, <2>2, <2>3 DEF RetryOrRefuse
<1>3. CASE AnswerBodiless(r)
  BY <1>1, <1>3, AnswerKeeps DEF AnswerBodiless, At
<1> QED BY <1>2, <1>3

LEMMA CommitKeeps ==
    ASSUME IInv, NEW r \in Requests, Commit(r) PROVE IInv' /\ Kept
<1>1. UNCHANGED <<config, counter>> /\ req[r].pc = "judge"
  BY DEF Commit, At
<1>2. CASE Cut(r)
  BY <1>1, <1>2, CutKeeps
<1>3. CASE /\ req' = [req EXCEPT ![r].pc = "stream"]
           /\ wire' = [wire EXCEPT ![r].status = source[r].status, ![r].by = req[r].index]
           /\ UNCHANGED source
  <2> DEFINE q == [req[r] EXCEPT !.pc = "stream"]
             st == source[r].status
             by == req[r].index
             w == [wire[r] EXCEPT !.status = st, !.by = by]
  <2>1. req[r] \in Reqs /\ source[r] \in Sources /\ wire[r] \in Wires /\ counter \in Nat
    BY DEF IInv, Typed
  <2>2. st \in Nat /\ by \in Nat
    BY <2>1 DEF Reqs, Sources
  <2>3. /\ req' = [req EXCEPT ![r] = q] /\ source' = [source EXCEPT ![r] = source[r]]
        /\ wire' = [wire EXCEPT ![r] = w] /\ config' = config /\ counter' \in Nat
    BY <1>1, <1>3, <2>1 DEF IInv, Typed
  <2> HIDE DEF st, by
  <2>4. q \in Reqs /\ q.pc = "stream"
    BY <2>1 DEF Reqs, Labels
  <2>5. w \in Wires /\ w.end = wire[r].end /\ w.pieces = wire[r].pieces
    BY <2>1, <2>2 DEF Wires
  <2> HIDE DEF q, w
  <2>6. Sound(r, q, source[r], w)
    BY <1>1, <2>4, <2>5 DEF Sound, IInv, Unwritten, Streamed
  <2> QED BY <2>1, <2>3, <2>4, <2>5, <2>6, StepKeeps
<1> QED BY <1>2, <1>3 DEF Commit

\* A piece is read, and held or passed on with those held before.
LEMMA PumpKeeps ==
    ASSUME IInv, NEW r \in Requests, Pump(r) PROVE IInv' /\ Kept
<1>1. /\ UNCHANGED <<config, counter>> /\ req[r].pc = "stream"
      /\ req[r] \in Reqs /\ source[r] \in Sources /\ wire[r] \in Wires /\ counter \in Nat
  BY DEF Pump, At, IInv, Typed
<1>2. CASE Cut(r)
  BY <1>1, <1>2, CutKeeps
<1> DEFINE left == source[r].left - 1
<1>3. left \in Nat /\ source[r].held + 1 \in Nat
  BY <1>1 DEF Pump, Sources
<1>4. CASE /\ source' = [source EXCEPT ![r].left = @ - 1, ![r].held = @ + 1]
           /\ UNCHANGED <<req, wire>>
  <2> DEFINE held == source[r].held + 1
             s == [source[r] EXCEPT !.left = left, !.held = held]
  <2>1. /\ req' = [req EXCEPT ![r] = req[r]] /\ source' = [source EXCEPT ![r] = s]
        /\ wire' = [wire EXCEPT ![r] = wire[r]] /\ config' = config /\ counter' \in Nat
    BY <1>1, <1>4 DEF IInv, Typed
  <2>2. left + held = source[r].left + source[r].held
    BY <1>1 DEF Sources
  <2> HIDE DEF left, held
  <2>3. /\ s \in Sources /\ s.left = left /\ s.held = held /\ s.total = source[r].total
        /\ s.framing = source[r].framing
    BY <1>1, <1>3 DEF Sources, held
  <2> HIDE DEF s
  <2>4. Sound(r, req[r], s, wire[r])
    BY <1>1, <1>3, <2>2, <2>3 DEF Sound, IInv, Streamed, Sources, Wires, held
  <2> QED BY <1>1, <2>1, <2>3, <2>4, StepKeeps
<1>5. CASE /\ source' = [source EXCEPT ![r].left = @ - 1, ![r].held = 0]
           /\ wire' = [wire EXCEPT ![r].pieces = @ + source[r].held + 1]
           /\ UNCHANGED req
  <2> DEFINE s == [source[r] EXCEPT !.left = left, !.held = 0]
             n == wire[r].pieces + source[r].held + 1
             w == [wire[r] EXCEPT !.pieces = n]
  <2>1. /\ req' = [req EXCEPT ![r] = req[r]] /\ source' = [source EXCEPT ![r] = s]
        /\ wire' = [wire EXCEPT ![r] = w] /\ config' = config /\ counter' \in Nat
    BY <1>1, <1>5 DEF IInv, Typed
  <2>2. n \in Nat /\ n + 0 + left = wire[r].pieces + source[r].held + source[r].left
    BY <1>1 DEF Sources, Wires
  <2> HIDE DEF left, n
  <2>3. /\ s \in Sources /\ s.left = left /\ s.held = 0 /\ s.total = source[r].total
        /\ s.framing = source[r].framing
    BY <1>1, <1>3 DEF Sources
  <2>4. /\ w \in Wires /\ w.pieces = n /\ w.end = wire[r].end
        /\ w.status = wire[r].status /\ w.by = wire[r].by
    BY <1>1, <2>2 DEF Wires
  <2> HIDE DEF s, w
  <2>5. Sound(r, req[r], s, w)
    BY <1>1, <2>2, <2>3, <2>4 DEF Sound, IInv, Streamed
  <2> QED BY <1>1, <2>1, <2>3, <2>4, <2>5, StepKeeps
<1> QED BY <1>1, <1>2, <1>4, <1>5 DEF Pump

\* The end of a stream; for a chunked one everything has been read.
LEMMA EndStreamKeeps ==
    ASSUME IInv, NEW r \in Requests, EndStream(r), req[r].pc = "stream",
           source[r].framing = "chunked" => source[r].left = 0,
           UNCHANGED <<config, counter>>
    PROVE  IInv' /\ Kept
<1> DEFINE n == wire[r].pieces + source[r].held
           w == [wire[r] EXCEPT !.pieces = n, !.end = "whole"]
<1>1. source[r] \in Sources /\ wire[r] \in Wires
  BY DEF IInv, Typed
<1>2. n \in Nat
  BY <1>1 DEF Sources, Wires
<1>3. source[r].framing = "chunked" => n = source[r].total
  BY <1>1 DEF IInv, Streamed, Sources, Wires
<1>4. Finish(r) /\ UNCHANGED source /\ wire' = [wire EXCEPT ![r] = w]
  BY DEF EndStream
<1> HIDE DEF n
<1>5. w \in Wires /\ w.pieces = n /\ w.status = wire[r].status /\ w.by = wire[r].by
  BY <1>1, <1>2 DEF Wires
<1> HIDE DEF w
<1> QED BY <1>3, <1>4, <1>5, FinishKeeps

LEMMA StreamKeeps ==
    ASSUME IInv, NEW r \in Requests, StreamEnds(r) \/ StreamBreaks(r)
    PROVE  IInv' /\ Kept
BY CutKeeps, EndStreamKeeps DEF StreamEnds, StreamBreaks, At

LEMMA RewriteKeeps ==
    ASSUME IInv, NEW r \in Requests, RewriteText(r) \/ RewriteBreaks(r)
    PROVE  IInv' /\ Kept
<1>1. /\ req[r].index \in Nat /\ source[r].status \in Nat /\ source[r].total \in Nat
      /\ wire[r].status = 0 /\ UNCHANGED <<config, counter>>
  BY DEF IInv, Typed, Reqs, Sources, Unwritten, RewriteText, RewriteBreaks, At
<1>2. ASSUME NEW n \in Nat, Finish(r), UNCHANGED source,
             wire' = [wire EXCEPT ![r] = [status |-> source[r].status, by |-> req[r].index,
                                          pieces |-> n, end |-> "whole"]],
             source[r].framing = "chunked" => n = source[r].total
      PROVE  IInv' /\ Kept
  <2> DEFINE w == [status |-> source[r].status, by |-> req[r].index,
                   pieces |-> n, end |-> "whole"]
  <2>1. w \in Wires /\ w.pieces = n
    BY <1>1 DEF Wires
  <2>2. wire' = [wire EXCEPT ![r] = w]
    BY <1>2
  <2> HIDE DEF w
  <2> QED BY <1>1, <1>2, <2>1, <2>2, FinishKeeps
<1>3. CASE RewriteText(r)
  BY <1>1, <1>2, <1>3 DEF RewriteText
<1>4. CASE RewriteBreaks(r)
  <2>1. CASE Cut(r)
    BY <1>1, <2>1, CutKeeps
  <2>2. CASE ~Cut(r)
    <3>1. PICK n \in 0..MaxRewrite :
            wire' = [wire EXCEPT ![r] = [status |-> source[r].status,
                       by |-> req[r].index, pieces |-> n, end |-> "whole"]]
      BY <1>4, <2>2 DEF RewriteBreaks
    <3>2. n \in Nat /\ Finish(r) /\ UNCHANGED source /\ source[r].framing # "chunked"
      BY <1>4, <2>2 DEF RewriteBreaks
    <3> QED BY <1>2, <3>1, <3>2
  <2> QED BY <2>1, <2>2
<1> QED BY <1>3, <1>4

-----------------------------------------------------------------------------
(* Theorems. *)

LEMMA NextInv == IInv /\ [Next]_vars => IInv' /\ (Kept \/ UNCHANGED vars)
<1> SUFFICES ASSUME IInv, [Next]_vars PROVE IInv' /\ (Kept \/ UNCHANGED vars)
  OBVIOUS
<1>1. CASE UNCHANGED vars
  BY <1>1 DEF vars, IInv, Typed, Unwritten, Streamed, Unread, EndMeansWhole
<1>2. CASE OtherTurn
  <2>1. counter' \in Nat
    BY <1>2 DEF OtherTurn, IInv, Typed
  <2> QED BY <1>2, <2>1 DEF OtherTurn, IInv, Typed, Unwritten, Streamed, Unread,
             EndMeansWhole, Kept
<1>3. ASSUME NEW r \in Requests,
             \/ PlanRequest(r) \/ Ask(r)
             \/ MuseAnswers(r) \/ MuseFails(r)
             \/ UpstreamFails(r) \/ UpstreamHead(r)
             \/ RetryOrRefuse(r) \/ AnswerBodiless(r) \/ Commit(r)
             \/ Pump(r) \/ StreamEnds(r) \/ StreamBreaks(r)
             \/ RewriteText(r) \/ RewriteBreaks(r)
      PROVE  IInv' /\ Kept
  BY <1>3, PlanRequestKeeps, AskKeeps, MuseKeeps, UpstreamHeadKeeps, JudgeKeeps,
     CommitKeeps, PumpKeeps, StreamKeeps, RewriteKeeps, Zenon
<1> QED BY <1>1, <1>2, <1>3 DEF Next

\* EndMeansWhole: a chunked answer that reaches its end at the client is the
\* whole body of the upstream, for every limit and length (stream_response,
\* read_full_body).
THEOREM EndedIsWhole == Spec => []EndMeansWhole
<1>1. IInv => EndMeansWhole
  BY DEF IInv
<1> QED BY <1>1, InitInv, NextInv, PTL DEF Spec

\* CommittedOnce: an answer once begun is never replaced, and nobody else is
\* asked, for every plan (forward_with_prefix, forward_upstream).
THEOREM CommitsOnce == Spec => CommittedOnce
<1>1. Kept \/ UNCHANGED vars => [\A r \in Requests : wire[r].status # 0 =>
           /\ wire'[r].status = wire[r].status
           /\ wire'[r].by = wire[r].by
           /\ req'[r].asked = req[r].asked]_vars
  BY DEF Kept
<1> QED BY <1>1, InitInv, NextInv, PTL DEF Spec, CommittedOnce

-----------------------------------------------------------------------------
(* A list that is built with AddNew. *)

\* What is left of the first indices without the last.
LEMMA LastIndex == ASSUME NEW n \in Nat PROVE (1..n) \ {n} = 1..(n-1)
<1>1. ASSUME NEW j \in (1..n) \ {n} PROVE j \in 1..(n-1)
  BY <1>1
<1>2. ASSUME NEW j \in 1..(n-1) PROVE j \in (1..n) \ {n}
  BY <1>2
<1> QED BY <1>1, <1>2, Zenon

\* Where a property of the first numbers begins to fail.
LEMMA FirstFailure ==
    ASSUME NEW n \in Nat, NEW T \in SUBSET (0..n), T # {}
    PROVE  \E m \in T : m = 0 \/ m - 1 \notin T
<1> DEFINE S == {1..m : m \in T}
<1>1. S \in SUBSET (SUBSET (1..n)) /\ S # {}
  <2>1. \A m \in T : 1..m \in SUBSET (1..n)
    OBVIOUS
  <2> QED BY <2>1, Zenon
<1>2. IsWellFoundedOn(StrictSubsetOrdering(1..n), SUBSET (1..n))
  <2>1. IsFiniteSet(1..n)
    BY FS_Interval
  <2> QED BY <2>1, FS_StrictSubsetOrderingWellFounded, FS_FiniteSubsetsOfFinite
<1>3. PICK s \in S : \A y \in S : <<y, s>> \notin StrictSubsetOrdering(1..n)
  <2> HIDE DEF S
  <2> QED BY <1>1, <1>2, WFMin, Zenon
<1>4. PICK m \in T : s = 1..m
  BY <1>3
<1>5. ASSUME m # 0, m - 1 \in T PROVE FALSE
  <2>1. m \in Nat /\ m \in s
    BY <1>4, <1>5
  <2>2. s \ {m} = 1..(m-1)
    BY <1>4, <2>1, LastIndex
  <2>3. s \ {m} \in S
    BY <1>5, <2>2
  <2> QED BY <1>1, <1>3, <2>1, <2>3 DEF StrictSubsetOrdering
<1> QED BY <1>4, <1>5

\* G computes the lists that come of adding the entries of s with an index in
\* a set, the last one last.
Adds(G, b, s, S) ==
    G = [t \in SUBSET S |-> IF t = {} THEN b ELSE AddNew(G[t \ {Max(t)}], s[Max(t)])]

LEMMA AddsExist ==
    ASSUME NEW n \in Nat, NEW b, NEW s PROVE \E G : Adds(G, b, s, 1..n)
<1> DEFINE T == {m \in 0..n : ~\E G : Adds(G, b, s, 1..m)}
<1>1. SUFFICES ASSUME T # {} PROVE FALSE
  BY n \in 0..n
<1>2. PICK m \in T : m = 0 \/ m - 1 \notin T
  <2> T \in SUBSET (0..n)
    OBVIOUS
  <2> HIDE DEF T
  <2> QED BY <1>1, FirstFailure
<1>3. m # 0
  <2> DEFINE G == [t \in SUBSET (1..0) |-> b]
  <2>1. SUBSET (1..0) = {{}}
    OBVIOUS
  <2>2. G = [t \in SUBSET (1..0) |-> IF t = {} THEN b ELSE AddNew(G[t \ {Max(t)}], s[Max(t)])]
    BY <2>1
  <2>3. Adds(G, b, s, 1..0)
    BY <2>2 DEF Adds
  <2> QED BY <2>3
<1>4. m \in Nat /\ m - 1 \in 0..n
  BY <1>3
<1>5. PICK G : Adds(G, b, s, 1..(m-1))
  BY <1>2, <1>3, <1>4
<1> DEFINE H == [t \in SUBSET (1..m) |-> IF m \in t THEN AddNew(G[t \ {m}], s[m]) ELSE G[t]]
<1>6. ASSUME NEW t \in SUBSET (1..m)
      PROVE  H[t] = IF t = {} THEN b ELSE AddNew(H[t \ {Max(t)}], s[Max(t)])
  <2>1. CASE m \in t
    <3>1. Max(t) = m
      <4>1. \A y \in t : m >= y
        BY <1>4
      <4>2. \A x \in t : (\A y \in t : x >= y) => x = m
        BY <2>1, <1>4
      <4> QED BY <2>1, <4>1, <4>2 DEF Max
    <3>2. t \ {m} \in SUBSET (1..m) /\ m \notin t \ {m}
      OBVIOUS
    <3>3. H[t \ {m}] = G[t \ {m}] /\ H[t] = AddNew(G[t \ {m}], s[m])
      BY <2>1, <3>2
    <3> HIDE DEF H
    <3> QED BY <2>1, <3>1, <3>3
  <2>2. CASE m \notin t
    <3> DEFINE u == t \ {Max(t)}
    <3>1. t \in SUBSET (1..(m-1))
      BY <1>4, <2>2, LastIndex
    <3>2. u \in SUBSET (1..m) /\ m \notin u
      BY <2>2
    <3>3. H[t] = G[t] /\ H[u] = G[u]
      BY <2>2, <3>2
    <3>4. G[t] = IF t = {} THEN b ELSE AddNew(G[u], s[Max(t)])
      BY <1>5, <3>1 DEF Adds
    <3> HIDE DEF H
    <3> QED BY <3>3, <3>4
  <2> QED BY <2>1, <2>2
<1>7. H = [t \in SUBSET (1..m) |-> IF t = {} THEN b ELSE AddNew(H[t \ {Max(t)}], s[Max(t)])]
  <2> DEFINE F == [t \in SUBSET (1..m) |-> IF t = {} THEN b ELSE AddNew(H[t \ {Max(t)}], s[Max(t)])]
  <2>1. \A t \in SUBSET (1..m) : H[t] = F[t]
    <3> HIDE DEF H
    <3> QED BY <1>6
  <2>2. H = [t \in SUBSET (1..m) |-> H[t]] /\ F = [t \in SUBSET (1..m) |-> F[t]]
    OBVIOUS
  <2> HIDE DEF H, F
  <2>3. H = F
    BY <2>1, <2>2, Zenon
  <2> QED BY <2>3 DEF F
<1> HIDE DEF H
<1>8. Adds(H, b, s, 1..m)
  BY <1>7 DEF Adds
<1> QED BY <1>8

AddAll(b, s) == FoldLeft(AddNew, b, s)

\* FoldLeft adds one entry after the other.
LEMMA FoldIs ==
    ASSUME NEW s, NEW n \in Nat, DOMAIN s = 1..n, NEW b
    PROVE  \E G : /\ AddAll(b, s) = G[1..n]
                  /\ G[{}] = b
                  /\ \A m \in 1..n : G[1..m] = AddNew(G[1..(m-1)], s[m])
<1> DEFINE I == CHOOSE G : Adds(G, b, s, 1..n)
<1>1. Adds(I, b, s, 1..n)
  BY AddsExist
<1>2. AddAll(b, s) = I[1..n]
  BY DEF AddAll, FoldLeft, MapThenFoldSet, Adds
<1> HIDE DEF I
<1>3. \A t \in SUBSET (1..n) :
        I[t] = IF t = {} THEN b ELSE AddNew(I[t \ {Max(t)}], s[Max(t)])
  BY <1>1 DEF Adds
<1>4. I[{}] = b
  BY <1>3
<1>5. ASSUME NEW m \in 1..n PROVE I[1..m] = AddNew(I[1..(m-1)], s[m])
  <2>1. 1..m \in SUBSET (1..n) /\ 1..m # {} /\ (1..m) \ {m} = 1..(m-1)
    BY LastIndex
  <2>2. Max(1..m) = m
    <3>1. m \in 1..m /\ \A y \in 1..m : m >= y
      OBVIOUS
    <3>2. \A x \in 1..m : (\A y \in 1..m : x >= y) => x = m
      OBVIOUS
    <3> QED BY <3>1, <3>2 DEF Max
  <2> QED BY <1>3, <2>1, <2>2
<1> QED BY <1>2, <1>4, <1>5

\* What may stand in a plan.
AllNames ==
    ModelNames \cup Names \cup {Sonnet, Haiku}
        \cup {Normalized(name, c.default) : name \in Names, c \in Configs}
        \cup {c.default : c \in Configs}

\* A list of models without repetition.
Distinct(list) == list \in Seq(AllNames) /\ IsInjective(list)

LEMMA AddNewKeeps ==
    ASSUME NEW list, Distinct(list), NEW name \in AllNames
    PROVE  /\ Distinct(AddNew(list, name))
           /\ Contains(AddNew(list, name), name)
           /\ \A old : Contains(list, old) => Contains(AddNew(list, name), old)
<1>1. CASE Contains(list, name)
  BY <1>1 DEF AddNew
<1>2. CASE ~Contains(list, name)
  <2> DEFINE l == Append(list, name)
  <2>1. /\ list \in Seq(AllNames) /\ Len(list) \in Nat
        /\ \A i, j \in 1..Len(list) : list[i] = list[j] => i = j
    BY DEF Distinct, IsInjective
  <2>2. /\ l \in Seq(AllNames) /\ Len(l) = Len(list) + 1 /\ l[Len(list) + 1] = name
        /\ \A i \in 1..Len(list) : l[i] = list[i]
    BY <2>1
  <2>3. AddNew(list, name) = l
    BY <1>2 DEF AddNew
  <2> HIDE DEF l
  <2>4. \A i, j \in 1..Len(l) : l[i] = l[j] => i = j
    BY <1>2, <2>1, <2>2 DEF Contains
  <2>5. Distinct(l)
    BY <2>2, <2>4 DEF Distinct, IsInjective
  <2>6. Contains(l, name) /\ \A old : Contains(list, old) => Contains(l, old)
    BY <2>1, <2>2 DEF Contains
  <2> QED BY <2>3, <2>5, <2>6
<1> QED BY <1>1, <1>2

\* All of the entries are added, and what was there stays.
LEMMA FoldAdds ==
    ASSUME NEW b, Distinct(b), NEW s \in Seq(AllNames)
    PROVE  LET l == AddAll(b, s)
           IN  /\ Distinct(l)
               /\ \A i \in 1..Len(s) : Contains(l, s[i])
               /\ \A old : Contains(b, old) => Contains(l, old)
<1> DEFINE n == Len(s)
<1>1. n \in Nat /\ DOMAIN s = 1..n /\ \A i \in 1..n : s[i] \in AllNames
  OBVIOUS
<1> HIDE DEF n
<1>2. PICK G : /\ AddAll(b, s) = G[1..n]
               /\ G[{}] = b
               /\ \A m \in 1..n : G[1..m] = AddNew(G[1..(m-1)], s[m])
  BY <1>1, FoldIs
<1> DEFINE Good(m) == /\ Distinct(G[1..m])
                      /\ \A i \in 1..m : Contains(G[1..m], s[i])
                      /\ \A old : Contains(b, old) => Contains(G[1..m], old)
           T == {m \in 0..n : ~Good(m)}
<1>3. T = {}
  <2> SUFFICES ASSUME T # {} PROVE FALSE
    OBVIOUS
  <2>1. PICK m \in T : m = 0 \/ m - 1 \notin T
    <3> T \in SUBSET (0..n)
      OBVIOUS
    <3> HIDE DEF T
    <3> QED BY <1>1, FirstFailure
  <2>2. Good(0)
    <3>1. 1..0 = {}
      OBVIOUS
    <3> QED BY <1>2, <3>1
  <2>3. m \in 1..n /\ ~Good(m) /\ Good(m-1)
    <3> HIDE DEF Good
    <3> QED BY <1>1, <2>1, <2>2
  <2>4. G[1..m] = AddNew(G[1..(m-1)], s[m]) /\ s[m] \in AllNames
    BY <1>1, <1>2, <2>3
  <2>5. /\ Distinct(G[1..m]) /\ Contains(G[1..m], s[m])
        /\ \A old : Contains(G[1..(m-1)], old) => Contains(G[1..m], old)
    BY <2>3, <2>4, AddNewKeeps
  <2>6. \A i \in 1..m : i = m \/ i \in 1..(m-1)
    BY <1>1, <2>3
  <2> QED BY <2>3, <2>5, <2>6
<1>4. Good(n)
  <2>1. n \in 0..n
    BY <1>1
  <2> HIDE DEF Good
  <2> QED BY <1>3, <2>1
<1> QED BY <1>2, <1>4 DEF n

-----------------------------------------------------------------------------
(* The plan. *)

\* A rotation has every entry of the list.
LEMMA RotationHasAll ==
    ASSUME NEW models \in Seq(AllNames), NEW turn \in Nat
    PROVE  /\ Rotated(models, turn) \in Seq(AllNames)
           /\ Len(Rotated(models, turn)) = Len(models)
           /\ \A i \in 1..Len(models) : \E j \in 1..Len(models) :
                  Rotated(models, turn)[j] = models[i]
<1> DEFINE L == Len(models)
<1>1. L \in Nat /\ \A i \in 1..L : models[i] \in AllNames
  OBVIOUS
<1> HIDE DEF L
<1>2. ASSUME NEW i \in 1..L PROVE ((turn + i - 1) % L) + 1 \in 1..L
  <2>1. turn + i - 1 \in Nat /\ L \in Nat \ {0}
    BY <1>1, <1>2
  <2> QED BY <2>1
<1>3. Rotated(models, turn) = [i \in 1..L |-> models[((turn + i - 1) % L) + 1]]
  BY DEF Rotated, L
<1>4. Rotated(models, turn) \in Seq(AllNames) /\ Len(Rotated(models, turn)) = L
  <2>1. \A i \in 1..L : models[((turn + i - 1) % L) + 1] \in AllNames
    BY <1>1, <1>2
  <2> QED BY <1>1, <1>3, <2>1
<1>5. ASSUME NEW i \in 1..L PROVE \E j \in 1..L : Rotated(models, turn)[j] = models[i]
  <2> DEFINE q == turn \div L
             t == turn % L
             d == IF i - 1 >= t THEN i - 1 - t ELSE i - 1 - t + L
             p == IF i - 1 >= t THEN q ELSE q + 1
  <2>1. L \in Nat \ {0} /\ i - 1 \in 0..(L-1)
    BY <1>1, <1>5
  <2>2. t \in 0..(L-1) /\ q \in Int /\ turn = L * q + t
    BY <2>1
  <2> HIDE DEF t, q
  <2>3. d \in 0..(L-1)
    BY <2>1, <2>2
  <2>4. turn + d = L * p + (i - 1) /\ p \in Int
    <3>1. L * (q + 1) = L * q + L
      BY <2>1, <2>2
    <3> QED BY <2>1, <2>2, <3>1
  <2> HIDE DEF d, p
  <2>5. ASSUME NEW a \in Int, NEW e \in 0..(L-1) PROVE (L * a + e) % L = e
    BY <2>1
  <2>6. (turn + d) % L = i - 1
    BY <2>1, <2>4, <2>5
  <2>7. d + 1 \in 1..L /\ turn + (d + 1) - 1 = turn + d
    BY <2>1, <2>3
  <2>8. Rotated(models, turn)[d + 1] = models[i]
    BY <1>1, <1>3, <2>6, <2>7, <1>5
  <2> QED BY <2>7, <2>8
<1> QED BY <1>4, <1>5 DEF L

LEMMA OneName ==
    ASSUME NEW name \in AllNames
    PROVE  Distinct(<<name>>) /\ Contains(<<name>>, name)
BY DEF Distinct, IsInjective, Contains

\* What a plan is good for.
Complete(plan, name, c) ==
    /\ Distinct(plan)
    /\ Len(plan) > 0
    /\ \A i \in 1..Len(c.fallbacks) : Contains(plan, c.fallbacks[i])
    /\ name # <<>> => Contains(plan, Normalized(name, c.default))

LEMMA NotEmpty ==
    ASSUME NEW list, Distinct(list), NEW name, Contains(list, name)
    PROVE  Len(list) > 0
BY DEF Distinct, Contains

LEMMA CandidatesComplete ==
    ASSUME NEW name \in Names, NEW c \in Configs, NEW turn \in Nat
    PROVE  Complete(Candidates(name, c, turn), name, c)
<1>1. c.default \in AllNames /\ c.fallbacks \in Seq(AllNames)
  <2>1. c.fallbacks \in Seq(ModelNames)
    BY ProxyAssumption DEF ConfigOK
  <2> QED BY <2>1 DEF AllNames
<1> DEFINE asked == IF name = <<>> THEN <<>> ELSE <<Normalized(name, c.default)>>
           rotated == Rotated(c.fallbacks, turn)
           all == AddAll(asked, rotated)
<1>2. /\ Distinct(asked)
      /\ name # <<>> => Contains(asked, Normalized(name, c.default))
  <2>1. CASE name = <<>>
    BY <2>1 DEF Distinct, IsInjective
  <2>2. CASE name # <<>>
    <3>1. Normalized(name, c.default) \in AllNames
      BY DEF AllNames
    <3> QED BY <2>2, <3>1, OneName
  <2> QED BY <2>1, <2>2
<1>3. /\ rotated \in Seq(AllNames)
      /\ \A i \in 1..Len(c.fallbacks) : \E j \in 1..Len(rotated) : rotated[j] = c.fallbacks[i]
  <2> DEFINE models == c.fallbacks
  <2>1. models \in Seq(AllNames)
    BY <1>1
  <2>2. rotated = Rotated(models, turn)
    OBVIOUS
  <2> HIDE DEF models, rotated
  <2>3. /\ rotated \in Seq(AllNames) /\ Len(rotated) = Len(models)
        /\ \A i \in 1..Len(models) : \E j \in 1..Len(models) : rotated[j] = models[i]
    BY <2>1, <2>2, RotationHasAll
  <2> QED BY <2>3 DEF models
<1> DEFINE only == <<IF c.default = <<>> THEN Sonnet ELSE c.default>>
<1>4. Candidates(name, c, turn) = IF all # <<>> THEN all ELSE only
  BY DEF Candidates, AddAll
<1> HIDE DEF asked, rotated
<1>5. /\ Distinct(all)
      /\ \A j \in 1..Len(rotated) : Contains(all, rotated[j])
      /\ \A old : Contains(asked, old) => Contains(all, old)
  BY <1>2, <1>3, FoldAdds
<1>6. /\ \A i \in 1..Len(c.fallbacks) : Contains(all, c.fallbacks[i])
      /\ name # <<>> => Contains(all, Normalized(name, c.default))
  BY <1>2, <1>3, <1>5
<1> HIDE DEF all
<1>7. CASE all # <<>>
  <2>1. Len(all) > 0
    BY <1>5, <1>7 DEF Distinct
  <2> QED BY <1>4, <1>5, <1>6, <1>7, <2>1 DEF Complete
<1>8. CASE all = <<>>
  <2>1. \A old : ~Contains(all, old)
    BY <1>8 DEF Contains
  <2>2. Len(c.fallbacks) = 0 /\ name = <<>>
    BY <1>1, <1>6, <2>1
  <2>3. Sonnet \in AllNames
    BY DEF AllNames
  <2>4. Distinct(only) /\ Len(only) = 1
    BY <1>1, <2>3, OneName
  <2> HIDE DEF only
  <2>5. \A i \in 1..Len(c.fallbacks) : FALSE
    BY <2>2
  <2>6. Candidates(name, c, turn) = only /\ Len(only) > 0
    BY <1>4, <1>8, <2>4
  <2> QED BY <2>2, <2>4, <2>5, <2>6, Zenon DEF Complete
<1> QED BY <1>7, <1>8

LEMMA RecommendedIsName ==
    ASSUME NEW requested \in AllNames, NEW c \in Configs, NEW tools \in BOOLEAN,
           c.mode \in {"rules", "jev"}
    PROVE  Recommended(requested, c, tools) \in AllNames
<1>1. Sonnet \in AllNames /\ Haiku \in AllNames
  BY DEF AllNames
<1>2. c.tier \in {"fast", "strong", "unknown"}
  BY ProxyAssumption DEF ConfigOK
<1>3. ASSUME NEW tier \in {"fast", "strong", "unknown"} PROVE ByTier(tier, requested) \in AllNames
  BY <1>1, <1>3 DEF ByTier
<1> QED BY <1>2, <1>3 DEF Recommended

\* Nothing that was configured or asked for is missing from a plan.
LEMMA PlanComplete ==
    ASSUME NEW name \in Names, NEW c \in Configs, NEW turn \in Nat, NEW tools \in BOOLEAN
    PROVE  Complete(PlanOf(name, c, turn, tools), name, c)
<1> DEFINE candidates == Candidates(name, c, turn)
           requested == IF name = <<>> THEN candidates[1] ELSE name
<1>1. /\ name \in AllNames /\ c.mode \in {"existing", "round_robin", "rules", "jev"}
      /\ Complete(candidates, name, c)
  BY ProxyAssumption, CandidatesComplete DEF ConfigOK, AllNames
<1>2. PlanOf(name, c, turn, tools) = Decided(requested, candidates, c, tools)
  BY DEF PlanOf
<1> HIDE DEF candidates
<1>3. requested \in AllNames
  BY <1>1 DEF Complete, Distinct
<1> HIDE DEF requested
<1>4. CASE c.mode \in {"existing", "round_robin"}
  BY <1>1, <1>2, <1>4 DEF Decided
<1>5. CASE c.mode \in {"rules", "jev"}
  <2> DEFINE first == Recommended(requested, c, tools)
             l == AddAll(<<first>>, candidates)
  <2>1. first \in AllNames
    BY <1>3, <1>5, RecommendedIsName
  <2>2. PlanOf(name, c, turn, tools) = l
    BY <1>2, <1>5 DEF Decided, AddAll
  <2> HIDE DEF first
  <2>3. Distinct(<<first>>) /\ Contains(<<first>>, first)
    BY <2>1, OneName
  <2>4. /\ Distinct(l) /\ Contains(l, first)
        /\ \A i \in 1..Len(candidates) : Contains(l, candidates[i])
    BY <1>1, <2>3, FoldAdds DEF Complete, Distinct
  <2> HIDE DEF l
  <2>5. \A model : Contains(candidates, model) => Contains(l, model)
    BY <2>4 DEF Contains
  <2>6. Len(l) > 0
    BY <2>4, NotEmpty
  <2> QED BY <1>1, <2>2, <2>4, <2>5, <2>6 DEF Complete
<1> QED BY <1>1, <1>4, <1>5

-----------------------------------------------------------------------------
(* Who has been asked. *)

\* The candidates up to the one being asked, in the order of the plan.
Walk(q, c) ==
    q.pc # "arrived" =>
        /\ Complete(q.plan, q.name, c)
        /\ q.index \in 1..Len(q.plan)
        /\ Len(q.asked) = IF q.pc = "ask" THEN q.index - 1 ELSE q.index
        /\ \A i \in 1..Len(q.asked) : q.asked[i] = q.plan[i]

\* An answer is the gateway's own at the end of the plan, or the candidate's.
Written(q, w) ==
    w.status # 0 => IF w.by = 0 THEN q.index = Len(q.plan) ELSE w.by = q.index

Planned == \A r \in Requests : Walk(req[r], config) /\ Written(req[r], wire[r])

LEMMA OneRequest ==
    ASSUME Planned, NEW r \in Requests, config' = config,
           \A o \in Requests \ {r} : req'[o] = req[o] /\ wire'[o] = wire[o],
           Walk(req'[r], config), Written(req'[r], wire'[r])
    PROVE  Planned'
<1>1. ASSUME NEW o \in Requests PROVE Walk(req'[o], config') /\ Written(req'[o], wire'[o])
  <2>1. CASE o = r
    BY <2>1
  <2>2. CASE o # r
    BY <2>2 DEF Planned
  <2> QED BY <2>1, <2>2
<1> QED BY <1>1 DEF Planned

\* A step after the candidate was asked, at the same candidate.
LEMMA SameCandidate ==
    ASSUME IInv, Planned, NEW r \in Requests, req[r].pc \notin {"arrived", "ask"},
           config' = config,
           \/ req' = req
           \/ \E label \in {"judge", "stream", "done"} : req' = [req EXCEPT ![r].pc = label],
           \A o \in Requests \ {r} : wire'[o] = wire[o],
           \/ wire'[r].status = wire[r].status /\ wire'[r].by = wire[r].by
           \/ wire'[r].by = 0 /\ IsLast(r)
           \/ wire'[r].by = req[r].index
    PROVE  Planned'
<1>1. req \in [Requests -> Reqs] /\ req[r] \in Reqs
  BY DEF IInv, Typed
<1>2. Walk(req[r], config) /\ Written(req[r], wire[r])
  BY DEF Planned
<1>3. /\ \A o \in Requests \ {r} : req'[o] = req[o]
      /\ req'[r].plan = req[r].plan /\ req'[r].name = req[r].name
      /\ req'[r].index = req[r].index /\ req'[r].asked = req[r].asked
      /\ req'[r].pc \notin {"arrived", "ask"}
  <2>1. CASE req' = req
    BY <2>1
  <2>2. CASE req' # req
    <3>1. PICK label \in {"judge", "stream", "done"} : req' = [req EXCEPT ![r].pc = label]
      BY <2>2
    <3> QED BY <1>1, <3>1 DEF Reqs
  <2> QED BY <2>1, <2>2
<1>4. Walk(req'[r], config)
  BY <1>2, <1>3 DEF Walk
<1>5. Written(req'[r], wire'[r])
  <2>1. req[r].index # 0
    BY <1>2 DEF Walk, Complete, Distinct
  <2> QED BY <1>2, <1>3, <2>1 DEF Written, IsLast
<1> QED BY <1>3, <1>4, <1>5, OneRequest

LEMMA NextCandidateWalks ==
    ASSUME IInv, Planned, NEW r \in Requests, config' = config,
           req[r].pc \notin {"arrived", "ask", "stream", "done"}, ~IsLast(r), NextCandidate(r)
    PROVE  Planned'
<1>1. req \in [Requests -> Reqs] /\ req[r] \in Reqs
  BY DEF IInv, Typed
<1> DEFINE n == req[r].index + 1
<1>2. req' = [req EXCEPT ![r].pc = "ask", ![r].index = n]
  BY DEF NextCandidate
<1>3. n \in Nat
  BY <1>1 DEF Reqs
<1> HIDE DEF n
<1>4. /\ \A o \in Requests \ {r} : req'[o] = req[o] /\ wire'[o] = wire[o]
      /\ req'[r].plan = req[r].plan /\ req'[r].name = req[r].name
      /\ req'[r].asked = req[r].asked /\ req'[r].pc = "ask" /\ req'[r].index = n
      /\ wire'[r].status = 0
  BY <1>1, <1>2, <1>3 DEF Reqs, NextCandidate, IInv, Unwritten
<1>5. Walk(req[r], config)
  BY DEF Planned
<1>6. /\ n \in 1..Len(req[r].plan) /\ Len(req[r].asked) = n - 1
  BY <1>5 DEF Walk, IsLast, n, Complete, Distinct
<1>7. Walk(req'[r], config) /\ Written(req'[r], wire'[r])
  BY <1>4, <1>5, <1>6 DEF Walk, Written
<1> QED BY <1>4, <1>7, OneRequest

LEMMA FinishWalks ==
    ASSUME IInv, Planned, NEW r \in Requests, config' = config,
           req[r].pc \notin {"arrived", "ask"}, Finish(r),
           \/ wire' = [wire EXCEPT ![r].end = "cut"]
           \/ \E w \in Wires : /\ wire' = [wire EXCEPT ![r] = w]
                               /\ \/ w.by = 0 /\ IsLast(r)
                                  \/ w.by = req[r].index
                                  \/ w.status = wire[r].status /\ w.by = wire[r].by
    PROVE  Planned'
<1>1. wire \in [Requests -> Wires] /\ wire[r] \in Wires
  BY DEF IInv, Typed
<1>2. \E label \in {"judge", "stream", "done"} : req' = [req EXCEPT ![r].pc = label]
  BY DEF Finish
<1>3. \A o \in Requests \ {r} : wire'[o] = wire[o]
  BY <1>1
<1>4. \/ wire'[r].status = wire[r].status /\ wire'[r].by = wire[r].by
      \/ wire'[r].by = 0 /\ IsLast(r)
      \/ wire'[r].by = req[r].index
  BY <1>1 DEF Wires
<1> QED BY <1>2, <1>3, <1>4, SameCandidate

LEMMA AnswerWalks ==
    ASSUME IInv, Planned, NEW r \in Requests, config' = config,
           req[r].pc \notin {"arrived", "ask"},
           NEW status \in Nat, NEW by \in Nat, by = req[r].index \/ (by = 0 /\ IsLast(r)),
           Answer(r, status, by)
    PROVE  Planned'
<1> DEFINE w == [status |-> status, by |-> by, pieces |-> 0, end |-> "whole"]
<1>1. w \in Wires /\ w.by = by
  BY DEF Wires
<1>2. Finish(r) /\ (wire' = [wire EXCEPT ![r] = w] \/ wire' = [wire EXCEPT ![r].end = "cut"])
  BY DEF Answer
<1> HIDE DEF w
<1> QED BY <1>1, <1>2, FinishWalks

LEMMA CutWalks ==
    ASSUME IInv, Planned, NEW r \in Requests, config' = config,
           req[r].pc \notin {"arrived", "ask"}, Cut(r)
    PROVE  Planned'
BY FinishWalks DEF Cut

LEMMA FailedWalks ==
    ASSUME IInv, Planned, NEW r \in Requests, config' = config,
           req[r].pc \notin {"arrived", "ask", "stream", "done"}, Failed(r)
    PROVE  Planned'
BY AnswerWalks, NextCandidateWalks, 502 \in Nat, 0 \in Nat DEF Failed

LEMMA PlanRequestWalks ==
    ASSUME IInv, Planned, NEW r \in Requests, PlanRequest(r) PROVE Planned'
<1>1. PICK name \in Names, tools \in BOOLEAN, prefixed \in BOOLEAN, head \in BOOLEAN :
        req' = [req EXCEPT ![r] =
          [Arrived EXCEPT !.pc = "ask", !.name = name, !.prefixed = prefixed,
                          !.head = head, !.plan = PlanOf(name, config, counter, tools)]]
  BY DEF PlanRequest
<1> DEFINE p == PlanOf(name, config, counter, tools)
<1>2. /\ config \in Configs /\ counter \in Nat /\ req \in [Requests -> Reqs]
      /\ config' = config /\ wire' = wire /\ wire[r].status = 0
  BY DEF IInv, Typed, PlanRequest, Unwritten, At
<1>3. Complete(p, name, config)
  BY <1>2, PlanComplete
<1> HIDE DEF p
<1>4. req' = [req EXCEPT ![r] =
          [Arrived EXCEPT !.pc = "ask", !.name = name, !.prefixed = prefixed,
                          !.head = head, !.plan = p]]
  BY <1>1 DEF p
<1>5. /\ \A o \in Requests \ {r} : req'[o] = req[o]
      /\ req'[r].plan = p /\ req'[r].name = name /\ req'[r].pc = "ask"
      /\ req'[r].index = 1 /\ req'[r].asked = <<>>
  BY <1>2, <1>4 DEF Arrived
<1>6. 1 \in 1..Len(p)
  BY <1>3 DEF Complete, Distinct
<1>7. Walk(req'[r], config) /\ Written(req'[r], wire'[r])
  BY <1>2, <1>3, <1>5, <1>6 DEF Walk, Written
<1> QED BY <1>2, <1>5, <1>7, OneRequest

LEMMA AskWalks ==
    ASSUME IInv, Planned, NEW r \in Requests, Ask(r) PROVE Planned'
<1> DEFINE label == IF Model(r) = Muse THEN "muse" ELSE "upstream"
           a == Append(req[r].asked, Model(r))
<1>1. /\ req \in [Requests -> Reqs] /\ req[r] \in Reqs /\ req[r].pc = "ask"
      /\ wire' = wire /\ config' = config /\ wire[r].status = 0
  BY DEF IInv, Typed, Ask, At, Unwritten
<1>2. Walk(req[r], config)
  BY DEF Planned
<1>3. label \in {"muse", "upstream"}
  OBVIOUS
<1>4. req' = [req EXCEPT ![r].asked = a, ![r].pc = label]
  BY DEF Ask
<1>5. /\ Len(a) = req[r].index
      /\ \A i \in 1..Len(a) : a[i] = req[r].plan[i]
  <2>1. req[r].asked \in Seq(Models) /\ req[r].index \in Nat
    BY <1>1 DEF Reqs
  <2>2. Len(req[r].asked) = req[r].index - 1
    BY <1>1, <1>2 DEF Walk
  <2>3. Len(a) = req[r].index /\ a[req[r].index] = Model(r)
    BY <2>1, <2>2
  <2>4. \A i \in 1..(req[r].index - 1) : a[i] = req[r].asked[i]
    BY <2>1, <2>2
  <2> HIDE DEF a
  <2> QED BY <1>1, <1>2, <2>1, <2>2, <2>3, <2>4 DEF Walk, Model
<1> HIDE DEF label, a
<1>6. /\ \A o \in Requests \ {r} : req'[o] = req[o]
      /\ req'[r].plan = req[r].plan /\ req'[r].name = req[r].name /\ req'[r].pc = label
      /\ req'[r].index = req[r].index /\ req'[r].asked = a
  BY <1>1, <1>4 DEF Reqs
<1>7. Walk(req'[r], config) /\ Written(req'[r], wire'[r])
  BY <1>1, <1>2, <1>3, <1>5, <1>6 DEF Walk, Written
<1> QED BY <1>1, <1>6, <1>7, OneRequest

LEMMA MuseWalks ==
    ASSUME IInv, Planned, NEW r \in Requests, MuseAnswers(r) \/ MuseFails(r) \/ UpstreamFails(r)
    PROVE  Planned'
<1>1. req[r].index \in Nat
  BY DEF IInv, Typed, Reqs
<1>2. CASE MuseAnswers(r)
  <2>1. /\ Answer(r, 200, req[r].index) /\ config' = config
        /\ req[r].pc \notin {"arrived", "ask"}
    BY <1>2 DEF MuseAnswers, At
  <2> QED BY <1>1, <2>1, AnswerWalks, 200 \in Nat
<1>3. CASE MuseFails(r) \/ UpstreamFails(r)
  BY <1>3, FailedWalks DEF MuseFails, UpstreamFails, At
<1> QED BY <1>2, <1>3

LEMMA UpstreamHeadWalks ==
    ASSUME IInv, Planned, NEW r \in Requests, UpstreamHead(r) PROVE Planned'
BY SameCandidate DEF UpstreamHead, At

LEMMA JudgeWalks ==
    ASSUME IInv, Planned, NEW r \in Requests, RetryOrRefuse(r) \/ AnswerBodiless(r)
    PROVE  Planned'
<1>1. source[r].status \in Nat /\ req[r].index \in Nat
  BY DEF IInv, Typed, Sources, Reqs
<1>2. req[r].pc = "judge" /\ config' = config
  BY DEF RetryOrRefuse, AnswerBodiless, At
<1>3. CASE RetryOrRefuse(r)
  BY <1>1, <1>2, <1>3, AnswerWalks, NextCandidateWalks, 0 \in Nat DEF RetryOrRefuse
<1>4. CASE AnswerBodiless(r)
  <2>1. Answer(r, source[r].status, req[r].index)
    BY <1>4 DEF AnswerBodiless
  <2> QED BY <1>1, <1>2, <2>1, AnswerWalks
<1> QED BY <1>3, <1>4

LEMMA CommitWalks ==
    ASSUME IInv, Planned, NEW r \in Requests, Commit(r) PROVE Planned'
<1>1. req[r].pc = "judge" /\ config' = config
  BY DEF Commit, At
<1>2. CASE Cut(r)
  BY <1>1, <1>2, CutWalks
<1>3. CASE /\ req' = [req EXCEPT ![r].pc = "stream"]
           /\ wire' = [wire EXCEPT ![r].status = source[r].status, ![r].by = req[r].index]
  <2>1. wire \in [Requests -> Wires] /\ wire[r] \in Wires
    BY DEF IInv, Typed
  <2>2. /\ \A o \in Requests \ {r} : wire'[o] = wire[o]
        /\ wire'[r].by = req[r].index
    BY <1>3, <2>1 DEF Wires
  <2> QED BY <1>1, <1>3, <2>2, SameCandidate
<1> QED BY <1>2, <1>3 DEF Commit

\* What is written of a stream does not change who answers.
LEMMA StreamWalks ==
    ASSUME IInv, Planned, NEW r \in Requests, Pump(r) \/ StreamEnds(r) \/ StreamBreaks(r)
    PROVE  Planned'
<1>1. req[r].pc = "stream" /\ config' = config
  BY DEF Pump, StreamEnds, StreamBreaks, At
<1>2. wire \in [Requests -> Wires] /\ wire[r] \in Wires
  BY DEF IInv, Typed
<1>3. CASE Cut(r)
  BY <1>1, <1>3, CutWalks
<1>4. CASE EndStream(r)
  <2>1. /\ \A o \in Requests \ {r} : wire'[o] = wire[o]
        /\ wire'[r].status = wire[r].status /\ wire'[r].by = wire[r].by
    BY <1>2, <1>4 DEF EndStream, Wires
  <2>2. req' = [req EXCEPT ![r].pc = "done"]
    BY <1>4 DEF EndStream, Finish
  <2> QED BY <1>1, <2>1, <2>2, SameCandidate
<1>5. CASE Pump(r) /\ ~Cut(r)
  <2>1. req' = req
    BY <1>5 DEF Pump
  <2>2. /\ \A o \in Requests \ {r} : wire'[o] = wire[o]
        /\ wire'[r].status = wire[r].status /\ wire'[r].by = wire[r].by
    BY <1>2, <1>5 DEF Pump, Wires
  <2> QED BY <1>1, <2>1, <2>2, SameCandidate
<1> QED BY <1>3, <1>4, <1>5 DEF StreamEnds, StreamBreaks

LEMMA RewriteWalks ==
    ASSUME IInv, Planned, NEW r \in Requests, RewriteText(r) \/ RewriteBreaks(r)
    PROVE  Planned'
<1>1. /\ req[r].pc = "judge" /\ config' = config
      /\ req[r].index \in Nat /\ source[r].status \in Nat /\ source[r].total \in Nat
  BY DEF RewriteText, RewriteBreaks, At, IInv, Typed, Reqs, Sources
<1>2. ASSUME NEW n \in Nat, Finish(r),
             wire' = [wire EXCEPT ![r] = [status |-> source[r].status, by |-> req[r].index,
                                          pieces |-> n, end |-> "whole"]]
      PROVE  Planned'
  <2> DEFINE w == [status |-> source[r].status, by |-> req[r].index,
                   pieces |-> n, end |-> "whole"]
  <2>1. w \in Wires /\ w.by = req[r].index
    BY <1>1 DEF Wires
  <2>2. wire' = [wire EXCEPT ![r] = w]
    BY <1>2
  <2> HIDE DEF w
  <2> QED BY <1>1, <1>2, <2>1, <2>2, FinishWalks
<1>3. CASE RewriteText(r)
  BY <1>1, <1>2, <1>3 DEF RewriteText
<1>4. CASE Cut(r)
  BY <1>1, <1>4, CutWalks
<1>5. CASE RewriteBreaks(r) /\ ~Cut(r)
  <2>1. PICK n \in 0..MaxRewrite :
          wire' = [wire EXCEPT ![r] = [status |-> source[r].status,
                     by |-> req[r].index, pieces |-> n, end |-> "whole"]]
    BY <1>5 DEF RewriteBreaks
  <2>2. n \in Nat /\ Finish(r)
    BY <1>5 DEF RewriteBreaks
  <2> QED BY <1>2, <2>1, <2>2
<1> QED BY <1>3, <1>4, <1>5

LEMMA InitWalks == Init => Planned
BY DEF Init, Planned, Walk, Written, Arrived, Nothing

LEMMA NextWalks == IInv /\ Planned /\ [Next]_vars => Planned'
<1> SUFFICES ASSUME IInv, Planned, [Next]_vars PROVE Planned'
  OBVIOUS
<1>1. CASE UNCHANGED <<config, req, wire>>
  BY <1>1 DEF Planned
<1>2. ASSUME NEW r \in Requests,
             \/ PlanRequest(r) \/ Ask(r)
             \/ MuseAnswers(r) \/ MuseFails(r)
             \/ UpstreamFails(r) \/ UpstreamHead(r)
             \/ RetryOrRefuse(r) \/ AnswerBodiless(r) \/ Commit(r)
             \/ Pump(r) \/ StreamEnds(r) \/ StreamBreaks(r)
             \/ RewriteText(r) \/ RewriteBreaks(r)
      PROVE  Planned'
  BY <1>2, PlanRequestWalks, AskWalks, MuseWalks, UpstreamHeadWalks, JudgeWalks,
     CommitWalks, StreamWalks, RewriteWalks, Zenon
<1> QED BY <1>1, <1>2 DEF Next, OtherTurn, vars

LEMMA PlannedRefuses == IInv /\ Planned => RefusedAfterAll
<1> SUFFICES ASSUME IInv, Planned, NEW r \in Requests, wire[r].status # 0
             PROVE  LET asked == req[r].asked
                    IN  IF wire[r].by = 0
                        THEN /\ \A i \in 1..Len(config.fallbacks) :
                                    Contains(asked, config.fallbacks[i])
                             /\ asked = req[r].plan
                             /\ IsInjective(asked)
                             /\ req[r].name # <<>> =>
                                    Contains(asked, Normalized(req[r].name, config.default))
                        ELSE wire[r].by = Len(asked)
  BY DEF RefusedAfterAll
<1>1. req[r].pc \in {"stream", "done"} /\ req[r].asked \in Seq(Models)
  BY DEF IInv, Typed, Unwritten, Reqs
<1>2. Walk(req[r], config) /\ Written(req[r], wire[r])
  BY DEF Planned
<1>3. /\ Complete(req[r].plan, req[r].name, config) /\ Len(req[r].asked) = req[r].index
      /\ \A i \in 1..Len(req[r].asked) : req[r].asked[i] = req[r].plan[i]
  BY <1>1, <1>2 DEF Walk
<1>4. CASE wire[r].by = 0
  <2>1. Len(req[r].asked) = Len(req[r].plan)
    BY <1>2, <1>3, <1>4 DEF Written
  <2>2. req[r].asked = req[r].plan
    BY <1>1, <1>3, <2>1 DEF Complete, Distinct
  <2> QED BY <1>3, <1>4, <2>2 DEF Complete, Distinct
<1>5. CASE wire[r].by # 0
  BY <1>2, <1>3, <1>5 DEF Written
<1> QED BY <1>4, <1>5

\* RefusedAfterAll: whoever is refused was refused by every configured fallback
\* and by the model that stands for the one asked for, each asked once, in
\* every mode and for every list (candidate_models, decide, forward_with_prefix).
THEOREM RefusesAfterAll == Spec => []RefusedAfterAll
BY InitInv, NextInv, InitWalks, NextWalks, PlannedRefuses, PTL DEF Spec
=============================================================================
