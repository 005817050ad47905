------------------------------ MODULE McpServer ------------------------------
(***************************************************************************)
(* The MCP interface: a client opens an event stream, which registers a    *)
(* session with a bounded queue, and posts JSON-RPC messages to it.  A     *)
(* post is executed, the call of a module's tool as a call of              *)
(* ModuleRuntime, and its reply is put on the queue of the session and     *)
(* acknowledged with 202, or answered directly when it names no session.   *)
(*                                                                         *)
(* The session map is locked for each look-up, insertion and removal, and  *)
(* for nothing else: the sender is a copy taken under the lock and used    *)
(* after it.  Messages are named by their post.                            *)
(***************************************************************************)
EXTENDS ModuleRuntime, Sequences

CONSTANTS
    Posts,      \* connections; those in Calls may call a module
    Sessions,   \* event streams; each opens at most once
    NoSession,  \* a post that names no session
    Capacity    \* SSE_QUEUE_CAPACITY

ASSUME McpAssumption ==
    Calls \subseteq Posts /\ NoSession \notin Sessions /\ Capacity \in Nat \ {0}

VARIABLES
    registered,  \* SSE_SESSIONS: the sessions whose sender is in the map
    stream,      \* each event stream: its thread, queue and client
    post,        \* each post
    accepted     \* ghost: the replies acknowledged with 202, per session

mcpVars == <<registered, stream, post, accepted>>
vars == <<call, registered, stream, post, accepted>>

\* pc: the thread of the stream; "leaving": the loop is over, the receiver
\* still exists.  present: the client reads.  sent: what it was written.
Unopened == [pc |-> "closed", queue |-> <<>>, sent |-> <<>>, present |-> TRUE]

\* holds: the thread of the post has a copy of the session's sender.
Unposted == [pc |-> "idle", session |-> NoSession, method |-> "none",
             holds |-> FALSE, code |-> 0]

Init ==
    /\ RuntimeInit
    /\ registered = {}
    /\ stream = [s \in Sessions |-> Unopened]
    /\ post = [p \in Posts |-> Unposted]
    /\ accepted = [s \in Sessions |-> <<>>]

-----------------------------------------------------------------------------
(* The thread of an event stream. *)

OpenStream(s) ==
    /\ stream[s].pc = "closed"
    /\ registered' = registered \cup {s}
    /\ stream' = [stream EXCEPT ![s].pc = "greet"]
    /\ UNCHANGED <<call, post, accepted>>

\* Mutant: a failed greeting leaves the session in the map.
GreetAndForget(s) ==
    /\ stream[s].pc = "greet"
    /\ stream' = [stream EXCEPT ![s].pc =
         IF stream[s].present THEN "streaming" ELSE "leaving"]
    /\ UNCHANGED <<call, registered, post, accepted>>

\* The answer head and the endpoint event; a failed write ends the request.
Greet(s) ==
    /\ stream[s].pc = "greet"
    /\ IF stream[s].present
       THEN /\ stream' = [stream EXCEPT ![s].pc = "streaming"]
            /\ UNCHANGED registered
       ELSE /\ stream' = [stream EXCEPT ![s].pc = "leaving"]
            /\ registered' = registered \ {s}
    /\ UNCHANGED <<call, post, accepted>>

\* One message is taken and written; a failed write loses it.
Emit(s) ==
    /\ stream[s].pc = "streaming" /\ stream[s].queue # <<>>
    /\ stream' = [stream EXCEPT
         ![s].queue = Tail(@),
         ![s].sent = IF stream[s].present THEN Append(@, Head(stream[s].queue)) ELSE @,
         ![s].pc = IF stream[s].present THEN @ ELSE "finish"]
    /\ UNCHANGED <<call, registered, post, accepted>>

Holders(s) == {p \in Posts : post[p].holds /\ post[p].session = s}

\* Nothing came for 15 s: a comment is written, which fails if the client has
\* gone.  With no sender left the wait ends at once, but what is queued is
\* received first.
KeepAliveFails(s) ==
    /\ stream[s].pc = "streaming" /\ stream[s].queue = <<>>
    /\ ~stream[s].present
    /\ stream' = [stream EXCEPT ![s].pc = "finish"]
    /\ UNCHANGED <<call, registered, post, accepted>>

\* Mutant: the loop asks the map instead of the channel.
DisconnectedByMap(s) ==
    /\ stream[s].pc = "streaming" /\ s \notin registered
    /\ stream' = [stream EXCEPT ![s].pc = "finish"]
    /\ UNCHANGED <<call, registered, post, accepted>>

Disconnected(s) ==
    /\ stream[s].pc = "streaming" /\ stream[s].queue = <<>>
    /\ s \notin registered /\ Holders(s) = {}
    /\ stream' = [stream EXCEPT ![s].pc = "finish"]
    /\ UNCHANGED <<call, registered, post, accepted>>

RemoveSession(s) ==
    /\ stream[s].pc = "finish"
    /\ registered' = registered \ {s}
    /\ stream' = [stream EXCEPT ![s].pc = "leaving"]
    /\ UNCHANGED <<call, post, accepted>>

DropReceiver(s) ==
    /\ stream[s].pc = "leaving"
    /\ stream' = [stream EXCEPT ![s].pc = "ended", ![s].queue = <<>>]
    /\ UNCHANGED <<call, registered, post, accepted>>

ClientLeaves(s) ==
    /\ stream[s].present
    /\ stream' = [stream EXCEPT ![s].present = FALSE]
    /\ UNCHANGED <<call, registered, post, accepted>>

StreamStep(s) ==
    \/ Greet(s) \/ Emit(s) \/ KeepAliveFails(s) \/ Disconnected(s)
    \/ RemoveSession(s) \/ DropReceiver(s)

-----------------------------------------------------------------------------
(* The thread of a post. *)

\* Methods by what they need: a notification has no reply, a module tool calls
\* the module, anything else is answered from the gateway's state.
RpcMethods == {"notification", "core", "tool", "http-tool"}

Answered(p, code) ==
    post' = [post EXCEPT ![p].pc = "answered", ![p].holds = FALSE, ![p].code = code]

\* The session a post names must exist before anything is executed.
Post(p, s, method) ==
    /\ post[p].pc = "idle"
    /\ method \in {"tool", "http-tool"} => p \in Calls
    /\ post' = [post EXCEPT ![p] =
         IF s \in Sessions \ registered
         THEN [Unposted EXCEPT !.pc = "answered", !.session = s, !.code = 404]
         ELSE [Unposted EXCEPT !.pc = "execute", !.session = s, !.method = method]]
    /\ UNCHANGED <<call, registered, stream, accepted>>

ExecuteCore(p) ==
    /\ post[p].pc = "execute" /\ post[p].method \in {"notification", "core"}
    /\ post' = [post EXCEPT ![p].pc = "reply"]
    /\ UNCHANGED <<call, registered, stream, accepted>>

ExecuteTool(p) ==
    /\ p \in Calls
    /\ post[p].pc = "execute" /\ post[p].method \in {"tool", "http-tool"}
    /\ Begin(p, post[p].method)
    /\ post' = [post EXCEPT ![p].pc = "called"]
    /\ UNCHANGED <<registered, stream, accepted>>

ToolReturns(p) ==
    /\ post[p].pc = "called" /\ At(p, "done")
    /\ post' = [post EXCEPT ![p].pc = "reply"]
    /\ UNCHANGED <<call, registered, stream, accepted>>

\* A reply with a session goes to its stream; without one, into the answer.
Reply(p) ==
    /\ post[p].pc = "reply"
    /\ CASE post[p].method = "notification" -> Answered(p, 202)
         [] post[p].method # "notification" /\ post[p].session = NoSession ->
               Answered(p, 200)
         [] OTHER -> post' = [post EXCEPT ![p].pc = "lookup"]
    /\ UNCHANGED <<call, registered, stream, accepted>>

CopySender(p) ==
    /\ post[p].pc = "lookup"
    /\ IF post[p].session \in registered
       THEN post' = [post EXCEPT ![p].pc = "send", ![p].holds = TRUE]
       ELSE Answered(p, 404)
    /\ UNCHANGED <<call, registered, stream, accepted>>

\* try_send: a queue that is full or has lost its receiver costs the session.
Room(s) == stream[s].pc # "ended" /\ Len(stream[s].queue) < Capacity

TrySend(p) ==
    LET s == post[p].session
    IN  /\ post[p].pc = "send"
        /\ IF Room(s)
           THEN /\ stream' = [stream EXCEPT ![s].queue = Append(@, p)]
                /\ accepted' = [accepted EXCEPT ![s] = Append(@, p)]
                /\ Answered(p, 202)
                /\ UNCHANGED registered
           ELSE /\ registered' = registered \ {s}
                /\ Answered(p, 404)
                /\ UNCHANGED <<stream, accepted>>
        /\ UNCHANGED call

PostStep(p) ==
    \/ ExecuteCore(p) \/ ExecuteTool(p) \/ ToolReturns(p)
    \/ Reply(p) \/ CopySender(p) \/ TrySend(p)

-----------------------------------------------------------------------------
\* A connection may serve no post but a routed request or the dashboard's
\* probe, which also call a module.
DirectCall(h) ==
    /\ post[h].pc = "idle"
    /\ \E kind \in {"request", "probe", "http-request"} : Begin(h, kind)
    /\ post' = [post EXCEPT ![h].pc = "direct"]
    /\ UNCHANGED <<registered, stream, accepted>>

Next ==
    \/ \E s \in Sessions :
        \/ OpenStream(s)
        \/ StreamStep(s)
        \/ ClientLeaves(s)
    \/ \E p \in Posts :
        \/ \E s \in Sessions \cup {NoSession}, method \in RpcMethods : Post(p, s, method)
        \/ PostStep(p)
    \/ \E h \in Calls :
        \/ DirectCall(h)
        \/ RuntimeStep(h) /\ UNCHANGED mcpVars

\* Threads run; the 15 s timer of a stream expires.
Fairness ==
    /\ \A s \in Sessions : WF_vars(StreamStep(s))
    /\ \A p \in Posts : WF_vars(PostStep(p))
    /\ \A h \in Calls :
        /\ WF_vars(CallerStep(h) /\ UNCHANGED mcpVars)
        /\ WF_vars(ThreadStep(h) /\ UNCHANGED mcpVars)

Spec == Init /\ [][Next]_vars /\ Fairness

-----------------------------------------------------------------------------
(* Properties. *)

\* The replies a client reads are those that were acknowledged, in that order,
\* and a stream ends under a client that still reads only after it has
\* delivered all of them, also when the queue overflowed meanwhile.
AcceptedInOrder ==
    \A s \in Sessions :
        /\ stream[s].sent = SubSeq(accepted[s], 1, Len(stream[s].sent))
        /\ stream[s].pc = "ended" /\ stream[s].present => stream[s].sent = accepted[s]

\* Every post is answered, and every call of a module made beside them ends,
\* unless a process left behind by the module holds the pipes of the call.
PostsEnd ==
    /\ CallsEndUnlessHeld
    /\ \A p \in Posts :
        post[p].pc = "execute" ~>
            \/ post[p].pc = "answered"
            \/ p \in Calls /\ call[p].heir = "running"

\* A session in the map has a stream thread that will still look at its queue,
\* or has not yet removed it: none is left behind (OpenStream to RemoveSession).
SessionsHaveReaders ==
    \A s \in registered : stream[s].pc \in {"greet", "streaming", "finish"}
=============================================================================
