------------------------------ MODULE MuseChat ------------------------------
(***************************************************************************)
(* One Muse thread and the chat requests that take its turns               *)
(* (museai/chat), with the permissions the VM asks for on the way          *)
(* (museai/approval).  A request posts its prompt, has the thread          *)
(* acknowledged, and when that answer ends subscribes to the thread, which *)
(* replays its events from the first on and may deliver one late.  The     *)
(* parser has to find the answer to its own prompt among them; a snapshot  *)
(* of pending approvals is put to a coordinator, which asks the Sentinel,  *)
(* decides what its policy allows and verifies the outcome.  A video       *)
(* request then waits for the artifact.                                    *)
(*                                                                         *)
(* The VM, the Sentinel and the people who decide in a browser are         *)
(* external.  The VM takes the turns of a thread one after the other and   *)
(* numbers their events alike.  The text of a turn is its number.          *)
(***************************************************************************)
EXTENDS Integers, Sequences, FiniteSets

CONSTANTS
    Approvals,     \* approvals the VM may ask for
    Scoped,        \* those whose scope is this thread (and this VM)
    Eligible,      \* those of an allowed type and destination, with an option
    NoApproval,
    Alike,         \* pairs of turns whose prompts match (matches_user_prompt)
    MaxDecisions,  \* max_decisions_per_job
    MaxTurns,      \* bound on turns
    MaxEvents      \* bound on the events of the thread

ASSUME ChatAssumption ==
    /\ Scoped \subseteq Approvals /\ Eligible \subseteq Approvals
    /\ NoApproval \notin Approvals
    /\ MaxDecisions \in Nat /\ MaxTurns \in Nat /\ MaxEvents \in Nat
    /\ Alike \subseteq (1..MaxTurns) \X (1..MaxTurns)

VARIABLES
    mode,      \* muse_approval.mode of the configuration: "scoped_auto", or not
    history,   \* the events of the thread
    serving,   \* the turn the VM is at, 0 for none
    sentinel,  \* the status of each approval
    chat       \* the request under way and its stream

vars == <<mode, history, serving, sentinel, chat>>

Event(kind, turn, asks) == [kind |-> kind, turn |-> turn, asks |-> asks]

\* seen: how far the subscription has come.  auto: the mode when the request
\* began.  decided: decisions_count.  granted: all decisions of this request.
NoChat == [pc |-> "idle", turn |-> 0, auto |-> FALSE, video |-> FALSE, subscribed |-> FALSE,
           seen |-> 0, active |-> FALSE, latest |-> 0, text |-> {}, completed |-> FALSE,
           approved |-> {}, decided |-> 0, at |-> NoApproval, granted |-> {}]

Init ==
    /\ mode \in {"scoped_auto", "off"}
    /\ history = <<>>
    /\ serving = 0
    /\ sentinel = [a \in Approvals |-> "none"]
    /\ chat = NoChat

At(label) == chat.pc = label
Moves(c) == chat' = c
Fails == chat' = [NoChat EXCEPT !.pc = "failed", !.turn = chat.turn, !.granted = chat.granted]

-----------------------------------------------------------------------------
(* The request. *)

\* A first turn, or a continuation, which does not take part in the stream
\* before it has seen its own prompt.
Request ==
    /\ At("idle")
    /\ chat.turn < MaxTurns
    /\ serving = 0
    /\ \E video \in BOOLEAN :
        Moves([NoChat EXCEPT !.pc = "post", !.turn = chat.turn + 1, !.video = video,
                             !.auto = (mode = "scoped_auto"), !.active = (chat.turn = 0)])
    /\ UNCHANGED <<mode, history, serving, sentinel>>

\* The VM takes the turn and acknowledges the thread.  Its answer goes on with
\* the events, or ends, and the request subscribes.
Acknowledged ==
    /\ At("post")
    /\ Len(history) < MaxEvents
    /\ history' = Append(history, Event("user", chat.turn, {}))
    /\ serving' = chat.turn
    /\ \/ Moves([chat EXCEPT !.pc = "stream", !.seen = Len(history)])
       \/ Moves([chat EXCEPT !.pc = "stream", !.subscribed = TRUE])
    /\ UNCHANGED <<mode, sentinel>>

\* The answer to the post ends before the turn does: from the first event on.
Subscribe ==
    /\ At("stream") /\ ~chat.subscribed
    /\ Moves([chat EXCEPT !.subscribed = TRUE, !.seen = 0])
    /\ UNCHANGED <<mode, history, serving, sentinel>>

\* Mutant: a stream that ends is taken for complete.
EndsComplete ==
    /\ At("stream") /\ chat.subscribed
    /\ Moves([chat EXCEPT !.pc = "answer", !.completed = TRUE])
    /\ UNCHANGED <<mode, history, serving, sentinel>>

\* A status, a reset, a closed connection, the deadline, a thousand frames, a
\* record too large or not JSON, a failed task, another thread acknowledged; a
\* stream that ends without its last event (finish).
Breaks ==
    /\ chat.pc \in {"post", "stream", "list", "decide", "verify"}
    /\ Fails
    /\ UNCHANGED <<mode, history, serving, sentinel>>

-----------------------------------------------------------------------------
(* One record of the stream. *)

Later(a, b) == IF a >= b THEN a ELSE b

\* handle_user_message.
UserMessage(c, i, e) ==
    LET mine == e.turn = c.turn \/ <<e.turn, c.turn>> \in Alike
    IN [c EXCEPT !.latest = Later(@, i),
                 !.active = @ \/ mine,
                 !.text = IF ~c.active /\ mine THEN {} ELSE @]

\* Mutant: once active, the turn takes every event.
ApplicableWhenActive(c, i) == c.active

\* is_event_applicable: not before the prompt, and not what was said before
\* the last prompt seen.
Applicable(c, i) == c.active /\ ~(c.latest > 0 /\ i <= c.latest)

\* handle_content_event; a last event brings the text when none was streamed.
Content(c, e) ==
    [c EXCEPT !.text = IF e.kind # "done" \/ @ = {} THEN @ \cup {e.turn} ELSE @,
              !.completed = @ \/ e.kind = "done"]

NewIds(c, e) == (e.asks \cap Scoped) \ c.approved

\* handle_approvals_snapshot and the head of handle_approval_snapshot: without
\* a handler, which comes with the subscription, or with more than one scoped
\* approval, a person has to decide.
Snapshot(c, e) ==
    IF NewIds(c, e) = {} THEN c
    ELSE IF c.auto /\ c.subscribed /\ Cardinality(e.asks \cap Scoped) = 1
    THEN [c EXCEPT !.pc = "list", !.at = CHOOSE a \in NewIds(c, e) : TRUE]
    ELSE [c EXCEPT !.pc = "refused"]

Recorded(c, i, e) ==
    CASE e.kind = "user" -> UserMessage(c, i, e)
      [] e.kind # "user" /\ ~Applicable(c, i) -> c
      [] e.kind = "snapshot" /\ Applicable(c, i) -> Snapshot(c, e)
      [] OTHER -> Content(c, e)

\* The next event, or again one that came before; a completed stream is left.
Receive ==
    /\ At("stream")
    /\ \E i \in 1..Len(history) :
        LET c == Recorded([chat EXCEPT !.seen = Later(@, i)], i, history[i]) IN
        /\ i <= chat.seen + 1
        /\ Moves([c EXCEPT !.pc = IF c.completed THEN "answer" ELSE @])
    /\ UNCHANGED <<mode, history, serving, sentinel>>

Refused ==
    /\ At("refused")
    /\ Fails
    /\ UNCHANGED <<mode, history, serving, sentinel>>

-----------------------------------------------------------------------------
(* The coordinator. *)

Returns(c) == IF c.completed THEN "await" ELSE "stream"

\* The policy: the record is still pending and of a kind that may be decided, and
\* the budget is not used up.  An expired one is refused as well (Breaks).
Decidable(a) ==
    /\ sentinel[a] = "pending"
    /\ a \in Eligible
    /\ chat.decided < MaxDecisions

\* GET /approvals, put to the policy.
List ==
    /\ At("list")
    /\ IF Decidable(chat.at) THEN Moves([chat EXCEPT !.pc = "decide"]) ELSE Fails
    /\ UNCHANGED <<mode, history, serving, sentinel>>

\* Mutant: an accepted decision is not verified.
DecideUnverified ==
    /\ At("decide")
    /\ sentinel' = [sentinel EXCEPT ![chat.at] = IF @ = "pending" THEN "approved" ELSE @]
    /\ Moves([chat EXCEPT !.pc = Returns(chat), !.approved = @ \cup {chat.at},
                          !.decided = @ + 1, !.granted = @ \cup {chat.at}, !.at = NoApproval])
    /\ UNCHANGED <<mode, history, serving>>

\* POST .../decide: it takes effect if the approval is pending yet; the answer
\* may be an error (Breaks) or say nothing about the outcome.
Decide ==
    /\ At("decide")
    /\ sentinel' = [sentinel EXCEPT ![chat.at] = IF @ = "pending" THEN "approved" ELSE @]
    /\ Moves([chat EXCEPT !.pc = "verify",
                          !.granted = IF sentinel[chat.at] = "pending" THEN @ \cup {chat.at}
                                      ELSE @])
    /\ UNCHANGED <<mode, history, serving>>

\* GET .../<id>.
Verify ==
    /\ At("verify")
    /\ IF sentinel[chat.at] = "approved"
       THEN Moves([chat EXCEPT !.pc = Returns(chat), !.approved = @ \cup {chat.at},
                               !.decided = @ + 1, !.at = NoApproval])
       ELSE Fails
    /\ UNCHANGED <<mode, history, serving, sentinel>>

-----------------------------------------------------------------------------
(* After the last event. *)

\* A video request whose text has no artifact and is no refusal waits for one,
\* with a stream and a coordinator of its own.
Answer ==
    /\ At("answer")
    /\ \/ Moves([chat EXCEPT !.pc = "retain"])
       \/ /\ chat.video
          /\ Moves([chat EXCEPT !.pc = "await", !.approved = {}, !.decided = 0,
                                !.latest = 0, !.subscribed = TRUE])
    /\ UNCHANGED <<mode, history, serving, sentinel>>

\* Only an approval matters here, and the artifact, which ends the wait.  What
\* else arrives goes to a text nobody reads.
AwaitReceive ==
    /\ At("await")
    /\ \E i \in 1..Len(history) :
        LET e == history[i]
            c == [chat EXCEPT !.seen = Later(@, i)]
        IN
        /\ i <= chat.seen + 1
        /\ Moves(CASE e.kind = "user" -> UserMessage(c, i, e)
                   [] e.kind = "snapshot" /\ Applicable(c, i) -> Snapshot(c, e)
                   [] e.kind = "artifact" /\ Applicable(c, i) -> [c EXCEPT !.pc = "retain"]
                   [] OTHER -> c)
    /\ UNCHANGED <<mode, history, serving, sentinel>>

\* The deadline, a reset or a read error ends the wait without one.
AwaitEnds ==
    /\ At("await")
    /\ Moves([chat EXCEPT !.pc = "retain"])
    /\ UNCHANGED <<mode, history, serving, sentinel>>

\* The media is cached, the thread registered or deleted (MuseThreads), the
\* completion answered; another request may follow one that failed, too.
Retain ==
    /\ At("retain")
    /\ Moves([NoChat EXCEPT !.pc = "answered", !.turn = chat.turn, !.text = chat.text,
                            !.completed = TRUE, !.granted = chat.granted])
    /\ UNCHANGED <<mode, history, serving, sentinel>>

Closed ==
    /\ At("answered") \/ At("failed")
    /\ Moves([NoChat EXCEPT !.turn = chat.turn])
    /\ UNCHANGED <<mode, history, serving, sentinel>>

-----------------------------------------------------------------------------
(* The VM, the Sentinel, and those who decide elsewhere. *)

Emits(e) ==
    /\ Len(history) < MaxEvents
    /\ history' = Append(history, e)

Speaks ==
    /\ serving # 0
    /\ Emits(Event("text", serving, {}))
    /\ UNCHANGED <<mode, serving, sentinel, chat>>

\* The pending approvals of the account, one of them perhaps new.
Asks ==
    /\ serving # 0
    /\ \E new \in {{}} \cup {{a} : a \in Approvals} :
        /\ \A a \in new : sentinel[a] = "none"
        /\ sentinel' = [a \in Approvals |-> IF a \in new THEN "pending" ELSE sentinel[a]]
        /\ Emits(Event("snapshot", serving, {a \in Approvals : sentinel'[a] = "pending"}))
    /\ UNCHANGED <<mode, serving, chat>>

\* The last event of the turn.  What a video request waits for comes after it.
Finishes ==
    /\ serving # 0
    /\ Emits(Event("done", serving, {}))
    /\ serving' = 0
    /\ UNCHANGED <<mode, sentinel, chat>>

Presents ==
    /\ \E i \in 1..Len(history) : history[i].kind = "done" /\ history[i].turn = chat.turn
    /\ serving = 0 /\ chat.turn # 0
    /\ \/ Emits(Event("artifact", chat.turn, {})) /\ UNCHANGED sentinel
       \/ \E a \in Approvals :
            /\ sentinel[a] = "none"
            /\ sentinel' = [sentinel EXCEPT ![a] = "pending"]
            /\ Emits(Event("snapshot", chat.turn, {b \in Approvals : sentinel'[b] = "pending"}))
    /\ UNCHANGED <<mode, serving, chat>>

\* A turn whose request failed is given up.
GivesUp ==
    /\ serving # 0 /\ At("failed")
    /\ serving' = 0
    /\ UNCHANGED <<mode, history, sentinel, chat>>

\* One of another thread may as well stay pending.
DecidedElsewhere ==
    /\ \E a \in Scoped, status \in {"approved", "denied"} :
        /\ sentinel[a] = "pending"
        /\ sentinel' = [sentinel EXCEPT ![a] = status]
    /\ UNCHANGED <<mode, history, serving, chat>>

\* POST .../muse-config.
RollBack ==
    /\ mode = "scoped_auto"
    /\ mode' = "off"
    /\ UNCHANGED <<history, serving, sentinel, chat>>

ChatStep ==
    \/ Request \/ Acknowledged \/ Subscribe \/ Breaks \/ Receive \/ Refused
    \/ List \/ Decide \/ Verify
    \/ Answer \/ AwaitReceive \/ AwaitEnds \/ Retain \/ Closed

Next ==
    \/ ChatStep
    \/ Speaks \/ Asks \/ Finishes \/ Presents \/ GivesUp
    \/ DecidedElsewhere \/ RollBack

Spec == Init /\ [][Next]_vars

-----------------------------------------------------------------------------
\* A completed answer is the whole of this turn's and nothing of another's,
\* although the thread is replayed from its first event and may deliver one
\* late; prompts of one thread are told apart by their text, and must not
\* match (MuseChatStream::record).
AnswersThisTurn ==
    chat.completed =>
        /\ chat.text \subseteq {chat.turn}
        /\ \E i \in 1..Len(history) :
              history[i].kind = "done" /\ history[i].turn = chat.turn

\* A stream goes on past an approval of its thread only when the Sentinel has
\* said it is granted, whoever decided it in the meantime (decide_approval).
PastGrantedOnly ==
    chat.approved \subseteq {a \in Scoped : sentinel[a] = "approved"}

\* docs/CONFIGURATION.md: GW_MUSE_APPROVAL_MAX_DECISIONS bounds the automated
\* decisions of one job.
DecisionsWithinJob == Cardinality(chat.granted) <= MaxDecisions

\* docs/SECURITY_MODEL.md: switching the mode off disables auto-approval at
\* once.
RollBackStops ==
    [][mode # "scoped_auto" => chat'.granted \subseteq chat.granted]_vars
=============================================================================
