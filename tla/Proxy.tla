------------------------------- MODULE Proxy -------------------------------
(***************************************************************************)
(* The OmniRoute proxy: a request is planned into a list of candidate      *)
(* models, which are asked one after the other until one gives an answer   *)
(* that is not worth a fail-over.  The answer is passed on piece by piece, *)
(* or, under a module prefix, read whole, rewritten and then written.      *)
(*                                                                         *)
(* A model name is a sequence: its base and the effort suffixes on it.     *)
(* The empty name stands for no name.  Bodies are counted in pieces.       *)
(***************************************************************************)
EXTENDS Integers, Sequences, SequencesExt

CONSTANTS
    Requests,      \* requests in flight
    Configs,       \* configurations: see ConfigOK
    Names,         \* model names a request may carry, <<>> for none
    Turns,         \* bound on the rotation counter
    MaxPieces,     \* bound on the pieces of an upstream body
    MaxStream,     \* MAX_STREAM_BYTES, in pieces
    MaxRewrite     \* MAX_REWRITE_BODY, in pieces

\* A base and its suffixes.
ModelNames == Seq(STRING)

ConfigOK(c) ==
    /\ c.mode \in {"existing", "round_robin", "rules", "jev"}
    /\ c.tier \in {"fast", "strong", "unknown"}
    /\ c.shadow \in BOOLEAN
    /\ c.default \in ModelNames
    /\ c.fallbacks \in Seq(ModelNames)

ASSUME ProxyAssumption ==
    /\ \A c \in Configs : ConfigOK(c)
    /\ {Turns, MaxPieces, MaxStream, MaxRewrite} \subseteq Nat

VARIABLES
    config,   \* the configuration, which a request reads once
    counter,  \* RR_COUNTER
    req,      \* each request: its plan and where its thread is
    source,   \* the upstream of the current attempt
    wire      \* what the client of each request has been written

vars == <<config, counter, req, source, wire>>

-----------------------------------------------------------------------------
(* Planning: gateway/candidates.rs, gateway/policy.rs. *)

Efforts == {"xhigh", "high", "medium", "low"}
Sonnet == <<"claude-3-5-sonnet">>
Haiku == <<"claude-3-5-haiku">>
Muse == <<"muse">>

\* A known model under any suffix: the look-up compares prefixes.  Every known
\* model supports tools.
KnownModels == {"claude-3-5-sonnet", "claude-3-5-haiku", "gpt-4o", "gpt-4o-mini", "muse"}
Known(name) == name[1] \in KnownModels

\* The configured default replaces what was asked for and keeps its effort;
\* without a default a known model is taken as it is.
Normalized(name, default) ==
    LET effective == IF default = <<>> THEN Sonnet ELSE default
    IN  CASE default = <<>> /\ Known(name) -> name
          [] name = effective -> name
          [] OTHER -> IF Last(name) \in Efforts THEN Append(effective, Last(name))
                      ELSE effective

\* Mutant: the rotation stops one step short.
RotatedShort(models, turn) ==
    [i \in 1..(Len(models) - 1) |-> models[((turn + i - 1) % Len(models)) + 1]]

\* The configured models, beginning with the one whose turn it is.
Rotated(models, turn) ==
    [i \in 1..Len(models) |-> models[((turn + i - 1) % Len(models)) + 1]]

AddNew(list, name) == IF Contains(list, name) THEN list ELSE Append(list, name)

Candidates(name, c, turn) ==
    LET asked == IF name = <<>> THEN <<>> ELSE <<Normalized(name, c.default)>>
        all == FoldLeft(AddNew, asked, Rotated(c.fallbacks, turn))
    IN  IF all # <<>> THEN all
        ELSE <<IF c.default = <<>> THEN Sonnet ELSE c.default>>

ByTier(tier, name) ==
    CASE tier = "fast" -> Haiku
      [] tier = "strong" -> Sonnet
      [] tier = "unknown" -> name

\* The mode may put a recommended model in front; the others keep their order.
Recommended(requested, c, tools) ==
    CASE c.mode = "rules" -> ByTier(IF tools THEN "strong" ELSE c.tier, requested)
      [] c.mode = "jev" -> IF c.shadow THEN ByTier(c.tier, requested) ELSE requested

Decided(requested, candidates, c, tools) ==
    IF c.mode \in {"existing", "round_robin"} THEN candidates
    ELSE FoldLeft(AddNew, <<Recommended(requested, c, tools)>>, candidates)

PlanOf(name, c, turn, tools) ==
    LET candidates == Candidates(name, c, turn)
        requested == IF name = <<>> THEN candidates[1] ELSE name
    IN  Decided(requested, candidates, c, tools)

-----------------------------------------------------------------------------
(* A request. *)

\* Statuses by what becomes of them: is_safe_to_retry takes the first group,
\* 1xx, 204 and 304 have no body, redirections may be rewritten.
Retryable == {401, 402, 403, 408, 429, 499, 500, 502, 503, 504, 524}
Bodiless == {100, 204, 304}
Statuses == {429, 503, 204, 307, 200, 400}

\* pc: the thread.  plan, index: the candidates and the one being asked.
\* asked: ghost, the candidates asked so far.
Arrived == [pc |-> "arrived", name |-> <<>>, prefixed |-> FALSE, head |-> FALSE,
            plan |-> <<>>, index |-> 1, asked |-> <<>>]

\* What the client has: the status of the head, who answered (an index of the
\* plan, 0: the gateway itself), how many pieces, and how it ended.
Nothing == [status |-> 0, by |-> 0, pieces |-> 0, end |-> "open"]

\* status: of its head.  framing: how the body is delimited.  left: the pieces
\* yet to come, out of total.  held: pieces read and not yet passed on.
NoSource == [status |-> 0, framing |-> "none", text |-> FALSE, total |-> 0,
             left |-> 0, held |-> 0]
Framings == {"chunked", "sized", "until-close"}

Init ==
    /\ config \in Configs
    /\ counter = 0
    /\ req = [r \in Requests |-> Arrived]
    /\ source = [r \in Requests |-> NoSource]
    /\ wire = [r \in Requests |-> Nothing]

At(r, label) == req[r].pc = label
IsLast(r) == req[r].index = Len(req[r].plan)
Model(r) == req[r].plan[req[r].index]

\* The next candidate: its turn begins, after the delay if there is one.
NextCandidate(r) ==
    /\ req' = [req EXCEPT ![r].pc = "ask", ![r].index = @ + 1]
    /\ source' = [source EXCEPT ![r] = NoSource]
    /\ UNCHANGED wire

Finish(r) == req' = [req EXCEPT ![r].pc = "done"]

\* The gateway's own answer, written at once, or lost with the client.
Answer(r, status, by) ==
    /\ Finish(r)
    /\ \/ wire' = [wire EXCEPT ![r] =
             [status |-> status, by |-> by, pieces |-> 0, end |-> "whole"]]
       \/ wire' = [wire EXCEPT ![r].end = "cut"]
    /\ UNCHANGED source

\* An error that leaves the handler: the connection is closed as it is.
Cut(r) ==
    /\ Finish(r)
    /\ wire' = [wire EXCEPT ![r].end = "cut"]
    /\ UNCHANGED source

-----------------------------------------------------------------------------
(* Steps. *)

\* Turns drawn by requests of other connections.
OtherTurn ==
    /\ counter < Turns
    /\ counter' = counter + 1
    /\ UNCHANGED <<config, req, source, wire>>

PlanRequest(r) ==
    /\ At(r, "arrived") /\ counter < Turns
    /\ counter' = counter + 1
    /\ \E name \in Names, tools \in BOOLEAN, prefixed \in BOOLEAN, head \in BOOLEAN :
           req' = [req EXCEPT ![r] =
             [Arrived EXCEPT !.pc = "ask", !.name = name, !.prefixed = prefixed,
                             !.head = head, !.plan = PlanOf(name, config, counter, tools)]]
    /\ UNCHANGED <<config, source, wire>>

Ask(r) ==
    /\ At(r, "ask")
    /\ req' = [req EXCEPT ![r].asked = Append(@, Model(r)),
                          ![r].pc = IF Model(r) = Muse THEN "muse" ELSE "upstream"]
    /\ UNCHANGED <<config, counter, source, wire>>

MuseAnswers(r) ==
    /\ At(r, "muse")
    /\ Answer(r, 200, req[r].index)
    /\ UNCHANGED <<config, counter>>

\* A failed chat, or a connection that cannot be opened, written or read up to
\* the end of the head.
Failed(r) == IF IsLast(r) THEN Answer(r, 502, 0) ELSE NextCandidate(r)

MuseFails(r) ==
    /\ At(r, "muse")
    /\ Failed(r)
    /\ UNCHANGED <<config, counter>>

UpstreamFails(r) ==
    /\ At(r, "upstream")
    /\ Failed(r)
    /\ UNCHANGED <<config, counter>>

UpstreamHead(r) ==
    /\ At(r, "upstream")
    /\ \E status \in Statuses, framing \in Framings, text \in BOOLEAN,
          total \in 0..MaxPieces :
        /\ source' = [source EXCEPT ![r] =
             [status |-> status, framing |-> framing, text |-> text,
              total |-> total, left |-> total, held |-> 0]]
        /\ req' = [req EXCEPT ![r].pc = "judge"]
    /\ UNCHANGED <<config, counter, wire>>

\* The last candidate's status is given to the client, in an answer of the
\* gateway's own; the upstream body is dropped.
RetryOrRefuse(r) ==
    /\ At(r, "judge") /\ source[r].status \in Retryable
    /\ IF IsLast(r) THEN Answer(r, source[r].status, 0) ELSE NextCandidate(r)
    /\ UNCHANGED <<config, counter>>

AnswerBodiless(r) ==
    /\ At(r, "judge") /\ source[r].status \in Bodiless
    /\ Answer(r, source[r].status, req[r].index)
    /\ UNCHANGED <<config, counter>>

Rewritten(r) == req[r].prefixed /\ source[r].text /\ ~req[r].head

\* From the head on the answer is this candidate's.
Commit(r) ==
    /\ At(r, "judge") /\ source[r].status \notin Retryable \cup Bodiless
    /\ ~Rewritten(r)
    /\ \/ /\ req' = [req EXCEPT ![r].pc = "stream"]
          /\ wire' = [wire EXCEPT ![r].status = source[r].status, ![r].by = req[r].index]
          /\ UNCHANGED source
       \/ Cut(r)
    /\ UNCHANGED <<config, counter>>

Read(r) == source[r].total - source[r].left

\* Mutant: the budget of the stream ends it instead of failing.
PumpToLimit(r) ==
    /\ At(r, "stream") /\ source[r].left > 0
    /\ IF Read(r) = MaxStream
       THEN /\ Finish(r)
            /\ wire' = [wire EXCEPT ![r].pieces = @ + source[r].held, ![r].end = "whole"]
            /\ UNCHANGED source
       ELSE /\ source' = [source EXCEPT ![r].left = @ - 1, ![r].held = @ + 1]
            /\ UNCHANGED <<req, wire>>
    /\ UNCHANGED <<config, counter>>

\* A piece is read; what ends in a line break is passed on, the rest is held so
\* that a tool name can be repaired across reads.
Pump(r) ==
    /\ At(r, "stream") /\ source[r].left > 0
    /\ IF Read(r) = MaxStream
       THEN Cut(r)
       ELSE \/ /\ source' = [source EXCEPT ![r].left = @ - 1, ![r].held = @ + 1]
               /\ UNCHANGED <<req, wire>>
            \/ /\ source' = [source EXCEPT ![r].left = @ - 1, ![r].held = 0]
               /\ wire' = [wire EXCEPT ![r].pieces = @ + source[r].held + 1]
               /\ UNCHANGED req
            \/ Cut(r)
    /\ UNCHANGED <<config, counter>>

EndStream(r) ==
    /\ wire' = [wire EXCEPT ![r].pieces = @ + source[r].held, ![r].end = "whole"]
    /\ Finish(r)
    /\ UNCHANGED source

StreamEnds(r) ==
    /\ At(r, "stream") /\ source[r].left = 0
    /\ EndStream(r)
    /\ UNCHANGED <<config, counter>>

\* Mutant: a stream that breaks off is tried with the next candidate.
StreamRetries(r) ==
    /\ At(r, "stream") /\ source[r].left > 0
    /\ IF IsLast(r) THEN Cut(r) ELSE NextCandidate(r)
    /\ UNCHANGED <<config, counter>>

\* The upstream breaks off: an error for a chunked body, a reset or a timeout,
\* but an orderly close ends any other body, whatever its length said.
StreamBreaks(r) ==
    /\ At(r, "stream") /\ source[r].left > 0
    /\ \/ Cut(r)
       \/ source[r].framing # "chunked" /\ EndStream(r)
    /\ UNCHANGED <<config, counter>>

\* Under a prefix, a text is read whole before anything is written.
RewriteText(r) ==
    /\ At(r, "judge") /\ source[r].status \notin Retryable \cup Bodiless
    /\ Rewritten(r) /\ source[r].total <= MaxRewrite
    /\ Finish(r)
    /\ wire' = [wire EXCEPT ![r] = [status |-> source[r].status, by |-> req[r].index,
                                    pieces |-> source[r].total, end |-> "whole"]]
    /\ UNCHANGED <<config, counter, source>>

\* Too much text, or an upstream that breaks off: the client is left without
\* any answer, or, if the body was not chunked, with what came.
RewriteBreaks(r) ==
    /\ At(r, "judge") /\ source[r].status \notin Retryable \cup Bodiless
    /\ Rewritten(r)
    /\ \/ Cut(r)
       \/ /\ source[r].framing # "chunked"
          /\ Finish(r)
          /\ \E n \in 0..MaxRewrite :
                /\ n < source[r].total
                /\ wire' = [wire EXCEPT ![r] = [status |-> source[r].status,
                              by |-> req[r].index, pieces |-> n, end |-> "whole"]]
          /\ UNCHANGED source
    /\ UNCHANGED <<config, counter>>

Next ==
    \/ OtherTurn
    \/ \E r \in Requests :
        \/ PlanRequest(r) \/ Ask(r)
        \/ MuseAnswers(r) \/ MuseFails(r)
        \/ UpstreamFails(r) \/ UpstreamHead(r)
        \/ RetryOrRefuse(r) \/ AnswerBodiless(r) \/ Commit(r)
        \/ Pump(r) \/ StreamEnds(r) \/ StreamBreaks(r)
        \/ RewriteText(r) \/ RewriteBreaks(r)

Spec == Init /\ [][Next]_vars

-----------------------------------------------------------------------------
(* Properties. *)

\* Once the head of an answer has been written, the client never gets another
\* one and no further candidate is asked, however the body ends
\* (forward_upstream returns an error, never Ok(None), from then on).
CommittedOnce ==
    [][\A r \in Requests : wire[r].status # 0 =>
           /\ wire'[r].status = wire[r].status
           /\ wire'[r].by = wire[r].by
           /\ req'[r].asked = req[r].asked]_vars

\* The client is refused (502, or a status worth a fail-over) only after every
\* configured fallback and the model it would have had were asked, each once,
\* and the answer of a candidate is that of the last one asked.
RefusedAfterAll ==
    \A r \in Requests :
        LET asked == req[r].asked
        IN  wire[r].status # 0 =>
            IF wire[r].by = 0
            THEN /\ \A i \in 1..Len(config.fallbacks) : Contains(asked, config.fallbacks[i])
                 /\ asked = req[r].plan
                 /\ IsInjective(asked)
                 /\ req[r].name # <<>> =>
                        Contains(asked, Normalized(req[r].name, config.default))
            ELSE wire[r].by = Len(asked)

\* A chunked upstream body that reaches its end at the client is the whole
\* body, within the limit of its path (stream_response, read_full_body).
EndMeansWhole ==
    \A r \in Requests :
        /\ wire[r].end = "whole" /\ wire[r].by # 0 /\ source[r].framing = "chunked"
        /\ source[r].status \notin Bodiless
        => wire[r].pieces = source[r].total
=============================================================================
