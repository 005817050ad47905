----------------------------- MODULE McpProofs -----------------------------
(***************************************************************************)
(* Theorems about McpServer, for any set of posts and sessions, any calls  *)
(* of modules and any capacity of the queues.                              *)
(***************************************************************************)
EXTENDS McpServer, SequenceTheorems, TLAPS

StreamLabels == {"closed", "greet", "streaming", "finish", "leaving", "ended"}
PostLabels == {"idle", "execute", "called", "direct", "reply", "lookup", "send",
               "answered"}
Streams == [pc : StreamLabels, queue : Seq(Posts), sent : Seq(Posts),
            present : BOOLEAN]
PostStates == [pc : PostLabels, session : Sessions \cup {NoSession},
               method : RpcMethods \cup {"none"}, holds : BOOLEAN, code : Nat]

Typed ==
    /\ registered \in SUBSET Sessions
    /\ stream \in [Sessions -> Streams]
    /\ post \in [Posts -> PostStates]
    /\ accepted \in [Sessions -> Seq(Posts)]

\* A post about to send has a sender, of a session.
SendersHeld ==
    \A p \in Posts :
        /\ post[p].pc \in {"lookup", "send"} => post[p].session \in Sessions
        /\ post[p].pc = "send" => post[p].holds

\* Of what was acknowledged a stream was written a part, in order; while its
\* client reads, the rest is in the queue.
Follows(x, a) ==
    /\ Len(x.sent) <= Len(a)
    /\ x.sent = SubSeq(a, 1, Len(x.sent))
    /\ x.present => a = x.sent \o x.queue

Delivering == \A s \in Sessions : Follows(stream[s], accepted[s])

\* The loop of a stream ends under its client only when nobody can send to it
\* any more, and nobody can from then on.
Over == {"finish", "leaving", "ended"}

Quiet ==
    \A s \in Sessions : stream[s].present /\ stream[s].pc \in Over =>
        /\ s \notin registered
        /\ stream[s].queue = <<>>
        /\ \A p \in Posts : ~(post[p].holds /\ post[p].session = s)

IInv == Typed /\ SendersHeld /\ Delivering /\ Quiet /\ SessionsHaveReaders

-----------------------------------------------------------------------------
(* Facts about sequences. *)

LEMMA PrefixOfConcat ==
    ASSUME NEW S, NEW x \in Seq(S), NEW y \in Seq(S)
    PROVE  /\ Len(x) <= Len(x \o y)
           /\ x = SubSeq(x \o y, 1, Len(x))
<1>1. x \o y \in Seq(S) /\ Len(x \o y) = Len(x) + Len(y)
  BY ConcatProperties
<1>2. Len(x) \in Nat /\ Len(y) \in Nat
  BY LenProperties
<1> QED BY <1>1, <1>2, SubSeqOfConcat1, SubSeqFull

LEMMA PrefixOfAppend ==
    ASSUME NEW S, NEW x \in Seq(S), NEW a \in Seq(S), NEW e \in S,
           Len(x) <= Len(a), x = SubSeq(a, 1, Len(x))
    PROVE  /\ Len(x) <= Len(Append(a, e))
           /\ x = SubSeq(Append(a, e), 1, Len(x))
<1>1. <<e>> \in Seq(S)
  OBVIOUS
<1>2. Append(a, e) = a \o <<e>>
  BY AppendIsConcat
<1>3. Len(a \o <<e>>) = Len(a) + 1
  BY <1>1, ConcatProperties
<1>4. Len(x) \in Nat /\ Len(a) \in Nat
  BY LenProperties
<1>5. SubSeq(a \o <<e>>, 1, Len(x)) = SubSeq(a, 1, Len(x))
  BY <1>1, <1>4, SubSeqOfConcat1
<1> QED BY <1>2, <1>3, <1>4, <1>5

LEMMA AppendToQueue ==
    ASSUME NEW x \in Seq(Posts), NEW q \in Seq(Posts), NEW e \in Posts
    PROVE  Append(x \o q, e) = x \o Append(q, e)
<1>1. <<e>> \in Seq(Posts) /\ x \o q \in Seq(Posts)
  BY ConcatProperties
<1>2. Append(x \o q, e) = (x \o q) \o <<e>> /\ Append(q, e) = q \o <<e>>
  BY <1>1, AppendIsConcat
<1> QED BY <1>1, <1>2, ConcatAssociative

LEMMA HeadWritten ==
    ASSUME NEW S, NEW x \in Seq(S), NEW q \in Seq(S), q # <<>>
    PROVE  x \o q = Append(x, Head(q)) \o Tail(q)
<1>1. Head(q) \in S /\ Tail(q) \in Seq(S) /\ <<Head(q)>> \in Seq(S)
  BY HeadTailProperties
<1>2. q = <<Head(q)>> \o Tail(q)
  BY HeadTailProperties, <1>1
<1>3. Append(x, Head(q)) = x \o <<Head(q)>>
  BY <1>1, AppendIsConcat
<1> QED BY <1>1, <1>2, <1>3, ConcatAssociative
-----------------------------------------------------------------------------
LEMMA InitInv == Init => IInv
<1> SUFFICES ASSUME Init PROVE IInv
  OBVIOUS
<1>1. Unopened \in Streams
  BY DEF Unopened, Streams, StreamLabels
<1>2. Unposted \in PostStates
  BY DEF Unposted, PostStates, PostLabels
<1>3. Typed
  BY <1>1, <1>2 DEF Init, Typed
<1>4. SendersHeld
  BY DEF Init, SendersHeld, Unposted
<1>5. Follows(Unopened, <<>>)
  <2>1. <<>> \in Seq(Posts) /\ <<>> \o <<>> = <<>>
    BY ConcatEmptySeq
  <2> QED BY <2>1, PrefixOfConcat DEF Follows, Unopened
<1>6. Delivering
  BY <1>5 DEF Init, Delivering
<1>7. Quiet /\ SessionsHaveReaders
  BY DEF Init, Quiet, SessionsHaveReaders, Unopened, Over
<1> QED BY <1>3, <1>4, <1>6, <1>7 DEF IInv

-----------------------------------------------------------------------------
(* A stream's step: stream s becomes x. *)

LEMMA StreamMoves ==
    ASSUME IInv, NEW s \in Sessions, NEW x \in Streams, NEW r \in SUBSET Sessions,
           stream' = [stream EXCEPT ![s] = x], registered' = r,
           UNCHANGED <<post, accepted>>,
           r \ {s} = registered \ {s},
           s \in r => x.pc \in {"greet", "streaming", "finish"},
           Follows(x, accepted[s]),
           x.present /\ x.pc \in Over =>
               /\ s \notin r
               /\ x.queue = <<>>
               /\ \A p \in Posts : ~(post[p].holds /\ post[p].session = s)
    PROVE  IInv'
<1> USE DEF IInv
<1>1. Typed'
  BY DEF Typed
<1>2. SendersHeld'
  BY DEF SendersHeld
<1>3. /\ stream'[s] = x
      /\ \A t \in Sessions \ {s} : stream'[t] = stream[t] /\ (t \in r <=> t \in registered)
  BY DEF Typed
<1>4. Delivering'
  BY <1>3 DEF Delivering
<1>5. Quiet'
  BY <1>3 DEF Quiet
<1>6. SessionsHaveReaders'
  BY <1>3 DEF SessionsHaveReaders, Typed
<1> QED BY <1>1, <1>2, <1>4, <1>5, <1>6

LEMMA StreamFacts ==
    ASSUME IInv, NEW s \in Sessions
    PROVE  /\ stream[s] \in Streams
           /\ Follows(stream[s], accepted[s])
           /\ accepted[s] \in Seq(Posts)
           /\ registered \in SUBSET Sessions
           /\ s \in registered => stream[s].pc \in {"greet", "streaming", "finish"}
BY DEF IInv, Typed, Delivering, SessionsHaveReaders

\* Steps that only move the thread.
LEMMA StreamTurns ==
    ASSUME IInv, NEW s \in Sessions, NEW l \in StreamLabels, NEW r \in SUBSET Sessions,
           stream' = [stream EXCEPT ![s].pc = l], registered' = r,
           UNCHANGED <<post, accepted>>,
           r \ {s} = registered \ {s},
           s \in r => l \in {"greet", "streaming", "finish"},
           stream[s].present /\ l \in Over =>
               /\ s \notin r
               /\ stream[s].queue = <<>>
               /\ \A p \in Posts : ~(post[p].holds /\ post[p].session = s)
    PROVE  IInv'
<1> DEFINE x == [stream[s] EXCEPT !.pc = l]
<1>1. stream[s] \in Streams /\ Follows(stream[s], accepted[s])
  BY StreamFacts
<1>2. /\ x \in Streams /\ x.pc = l /\ x.present = stream[s].present
      /\ x.queue = stream[s].queue /\ x.sent = stream[s].sent
  BY <1>1 DEF Streams
<1>3. stream' = [stream EXCEPT ![s] = x]
  OBVIOUS
<1>4. Follows(x, accepted[s])
  BY <1>1, <1>2 DEF Follows
<1> HIDE DEF x
<1> QED BY <1>2, <1>3, <1>4, StreamMoves

LEMMA OpenStreamKeeps ==
    ASSUME IInv, NEW s \in Sessions, OpenStream(s) PROVE IInv'
<1>1. registered \cup {s} \in SUBSET Sessions
  BY StreamFacts
<1> QED BY <1>1, StreamTurns DEF OpenStream, StreamLabels, Over

LEMMA GreetKeeps ==
    ASSUME IInv, NEW s \in Sessions, Greet(s) PROVE IInv'
<1>1. registered \in SUBSET Sessions
  BY StreamFacts
<1>2. CASE stream[s].present
  BY <1>1, <1>2, StreamTurns DEF Greet, StreamLabels, Over
<1>3. CASE ~stream[s].present
  BY <1>1, <1>3, StreamTurns DEF Greet, StreamLabels, Over
<1> QED BY <1>2, <1>3

LEMMA EmitKeeps ==
    ASSUME IInv, NEW s \in Sessions, Emit(s) PROVE IInv'
<1> DEFINE q == stream[s].queue
           x == [stream[s] EXCEPT !.queue = Tail(q),
                   !.sent = IF stream[s].present THEN Append(@, Head(q)) ELSE @,
                   !.pc = IF stream[s].present THEN @ ELSE "finish"]
<1>1. /\ stream[s] \in Streams /\ Follows(stream[s], accepted[s])
      /\ accepted[s] \in Seq(Posts) /\ registered \in SUBSET Sessions
  BY StreamFacts
<1>2. /\ q \in Seq(Posts) /\ q # <<>> /\ stream[s].sent \in Seq(Posts)
      /\ stream[s].present \in BOOLEAN
  BY <1>1 DEF Streams, Emit
<1>3. Head(q) \in Posts /\ Tail(q) \in Seq(Posts)
  BY <1>2, HeadTailProperties
<1>4. Append(stream[s].sent, Head(q)) \in Seq(Posts)
  BY <1>2, <1>3, AppendProperties
<1>5. /\ stream' = [stream EXCEPT ![s] = x]
      /\ stream[s].pc = "streaming" /\ UNCHANGED <<registered, post, accepted>>
  BY DEF Emit
<1>6. CASE stream[s].present
  <2>1. /\ x.queue = Tail(q) /\ x.sent = Append(stream[s].sent, Head(q))
        /\ x.pc = "streaming" /\ x.present
    BY <1>1, <1>5, <1>6 DEF Streams
  <2>2. x \in Streams
    BY <1>1, <1>3, <1>4, <1>6 DEF Streams, StreamLabels
  <2> HIDE DEF x
  <2>3. accepted[s] = x.sent \o x.queue
    <3>1. accepted[s] = stream[s].sent \o q
      BY <1>1, <1>6 DEF Follows
    <3>2. stream[s].sent \o q = Append(stream[s].sent, Head(q)) \o Tail(q)
      BY <1>2, HeadWritten
    <3> QED BY <2>1, <3>1, <3>2
  <2>4. Follows(x, accepted[s])
    <3>1. x.sent \in Seq(Posts) /\ x.queue \in Seq(Posts)
      BY <1>3, <1>4, <2>1
    <3> HIDE DEF q
    <3> QED BY <2>3, <3>1, PrefixOfConcat DEF Follows
  <2> QED BY <1>1, <1>5, <2>1, <2>2, <2>4, StreamMoves DEF Over
<1>7. CASE ~stream[s].present
  <2>1. x.sent = stream[s].sent /\ x.pc = "finish" /\ ~x.present
    BY <1>1, <1>7 DEF Streams
  <2>2. x \in Streams
    BY <1>1, <1>3, <1>7 DEF Streams, StreamLabels
  <2>3. Follows(x, accepted[s])
    BY <1>1, <2>1 DEF Follows
  <2> HIDE DEF x
  <2> QED BY <1>1, <1>5, <2>1, <2>2, <2>3, StreamMoves
<1> QED BY <1>6, <1>7

LEMMA KeepAliveFailsKeeps ==
    ASSUME IInv, NEW s \in Sessions, KeepAliveFails(s) PROVE IInv'
<1>1. registered \in SUBSET Sessions
  BY StreamFacts
<1> QED BY <1>1, StreamTurns DEF KeepAliveFails, StreamLabels

LEMMA DisconnectedKeeps ==
    ASSUME IInv, NEW s \in Sessions, Disconnected(s) PROVE IInv'
<1>1. registered \in SUBSET Sessions
  BY StreamFacts
<1>2. \A p \in Posts : ~(post[p].holds /\ post[p].session = s)
  BY DEF Disconnected, Holders
<1> QED BY <1>1, <1>2, StreamTurns DEF Disconnected, StreamLabels

LEMMA RemoveSessionKeeps ==
    ASSUME IInv, NEW s \in Sessions, RemoveSession(s) PROVE IInv'
<1>1. registered \ {s} \in SUBSET Sessions
  BY StreamFacts
<1>2. stream[s].present => /\ stream[s].queue = <<>>
                           /\ \A p \in Posts : ~(post[p].holds /\ post[p].session = s)
  BY DEF IInv, Quiet, RemoveSession, Over
<1> QED BY <1>1, <1>2, StreamTurns DEF RemoveSession, StreamLabels

LEMMA DropReceiverKeeps ==
    ASSUME IInv, NEW s \in Sessions, DropReceiver(s) PROVE IInv'
<1> DEFINE x == [stream[s] EXCEPT !.pc = "ended", !.queue = <<>>]
<1>1. /\ stream[s] \in Streams /\ Follows(stream[s], accepted[s])
      /\ registered \in SUBSET Sessions
      /\ s \notin registered
  BY StreamFacts DEF DropReceiver
<1>2. stream[s].present => /\ stream[s].queue = <<>>
                           /\ \A p \in Posts : ~(post[p].holds /\ post[p].session = s)
  BY DEF IInv, Quiet, DropReceiver, Over
<1>3. /\ x \in Streams /\ x.pc = "ended" /\ x.queue = <<>>
      /\ x.sent = stream[s].sent /\ x.present = stream[s].present
  <2>1. <<>> \in Seq(Posts)
    BY EmptySeq
  <2> QED BY <1>1, <2>1 DEF Streams, StreamLabels
<1>4. Follows(x, accepted[s])
  BY <1>1, <1>2, <1>3 DEF Follows
<1>5. stream' = [stream EXCEPT ![s] = x] /\ UNCHANGED <<registered, post, accepted>>
  BY DEF DropReceiver
<1> HIDE DEF x
<1> QED BY <1>1, <1>2, <1>3, <1>4, <1>5, StreamMoves

LEMMA ClientLeavesKeeps ==
    ASSUME IInv, NEW s \in Sessions, ClientLeaves(s) PROVE IInv'
<1> DEFINE x == [stream[s] EXCEPT !.present = FALSE]
<1>1. /\ stream[s] \in Streams /\ Follows(stream[s], accepted[s])
      /\ registered \in SUBSET Sessions
      /\ s \in registered => stream[s].pc \in {"greet", "streaming", "finish"}
  BY StreamFacts
<1>2. x \in Streams /\ x.sent = stream[s].sent /\ ~x.present /\ x.pc = stream[s].pc
  BY <1>1 DEF Streams
<1>3. Follows(x, accepted[s])
  BY <1>1, <1>2 DEF Follows
<1>4. stream' = [stream EXCEPT ![s] = x] /\ UNCHANGED <<registered, post, accepted>>
  BY DEF ClientLeaves
<1> HIDE DEF x
<1> QED BY <1>1, <1>2, <1>3, <1>4, StreamMoves

-----------------------------------------------------------------------------
(* A post's step: post p becomes n, and sessions may leave the map. *)

LEMMA PostMoves ==
    ASSUME IInv, NEW p \in Posts, NEW n \in PostStates, NEW r \in SUBSET registered,
           post' = [post EXCEPT ![p] = n], registered' = r,
           UNCHANGED <<stream, accepted>>,
           n.pc \in {"lookup", "send"} => n.session \in Sessions,
           n.pc = "send" => n.holds,
           n.holds => \/ post[p].holds /\ n.session = post[p].session
                      \/ n.session \in registered
    PROVE  IInv'
<1> USE DEF IInv
<1>1. Typed'
  BY DEF Typed
<1>2. post'[p] = n /\ \A q \in Posts \ {p} : post'[q] = post[q]
  BY DEF Typed
<1>3. SendersHeld'
  BY <1>2 DEF SendersHeld
<1>4. Delivering'
  BY DEF Delivering
<1>5. Quiet'
  BY <1>2 DEF Quiet
<1>6. SessionsHaveReaders'
  BY DEF SessionsHaveReaders
<1> QED BY <1>1, <1>3, <1>4, <1>5, <1>6

LEMMA PostFacts ==
    ASSUME IInv, NEW p \in Posts
    PROVE  /\ post[p] \in PostStates
           /\ registered \in SUBSET Sessions
           /\ post[p].pc \in {"lookup", "send"} => post[p].session \in Sessions
           /\ post[p].pc = "send" => post[p].holds
BY DEF IInv, Typed, SendersHeld

\* Steps that only move the thread, and those that answer.
LEMMA PostTurns ==
    ASSUME IInv, NEW p \in Posts, NEW l \in PostLabels \ {"send"},
           post' = [post EXCEPT ![p].pc = l], UNCHANGED <<registered, stream, accepted>>,
           l = "lookup" => post[p].session \in Sessions
    PROVE  IInv'
<1> DEFINE n == [post[p] EXCEPT !.pc = l]
<1>1. post[p] \in PostStates
  BY PostFacts
<1>2. /\ n \in PostStates /\ n.pc = l /\ n.session = post[p].session
      /\ n.holds = post[p].holds
  BY <1>1 DEF PostStates
<1>3. post' = [post EXCEPT ![p] = n]
  OBVIOUS
<1> HIDE DEF n
<1> QED BY <1>2, <1>3, PostMoves

LEMMA AnswersKeep ==
    ASSUME IInv, NEW p \in Posts, NEW code \in Nat, NEW r \in SUBSET registered,
           Answered(p, code), registered' = r, UNCHANGED <<stream, accepted>>
    PROVE  IInv'
<1> DEFINE n == [post[p] EXCEPT !.pc = "answered", !.holds = FALSE, !.code = code]
<1>1. post[p] \in PostStates
  BY PostFacts
<1>2. n \in PostStates /\ n.pc = "answered" /\ ~n.holds
  BY <1>1 DEF PostStates, PostLabels
<1>3. post' = [post EXCEPT ![p] = n]
  BY DEF Answered
<1> HIDE DEF n
<1> QED BY <1>2, <1>3, PostMoves

LEMMA PostKeeps ==
    ASSUME IInv, NEW p \in Posts, NEW s \in Sessions \cup {NoSession},
           NEW method \in RpcMethods, Post(p, s, method)
    PROVE  IInv'
<1> DEFINE n == IF s \in Sessions \ registered
                THEN [Unposted EXCEPT !.pc = "answered", !.session = s, !.code = 404]
                ELSE [Unposted EXCEPT !.pc = "execute", !.session = s, !.method = method]
<1>1. /\ n \in PostStates /\ ~n.holds /\ n.pc \in {"answered", "execute"}
  <2>1. CASE s \in Sessions \ registered
    <3>1. n = [pc |-> "answered", session |-> s, method |-> "none",
               holds |-> FALSE, code |-> 404]
      BY <2>1 DEF Unposted
    <3> HIDE DEF n
    <3> QED BY <3>1 DEF PostStates, PostLabels
  <2>2. CASE s \notin Sessions \ registered
    <3>1. n = [pc |-> "execute", session |-> s, method |-> method,
               holds |-> FALSE, code |-> 0]
      BY <2>2 DEF Unposted
    <3> HIDE DEF n
    <3> QED BY <3>1 DEF PostStates, PostLabels
  <2> QED BY <2>1, <2>2
<1>2. post' = [post EXCEPT ![p] = n] /\ UNCHANGED <<registered, stream, accepted>>
  BY DEF Post
<1> HIDE DEF n
<1> QED BY <1>1, <1>2, PostMoves

LEMMA ReplyKeeps ==
    ASSUME IInv, NEW p \in Posts, Reply(p) PROVE IInv'
<1>1. post[p] \in PostStates
  BY PostFacts
<1>2. CASE post[p].method = "notification"
  BY <1>2, AnswersKeep DEF Reply
<1>3. CASE post[p].method # "notification" /\ post[p].session = NoSession
  BY <1>3, AnswersKeep DEF Reply
<1>4. CASE post[p].method # "notification" /\ post[p].session # NoSession
  <2>1. post[p].session \in Sessions
    BY <1>1, <1>4 DEF PostStates
  <2> QED BY <1>4, <2>1, PostTurns DEF Reply, PostLabels
<1> QED BY <1>2, <1>3, <1>4

LEMMA CopySenderKeeps ==
    ASSUME IInv, NEW p \in Posts, CopySender(p) PROVE IInv'
<1>1. CASE post[p].session \notin registered
  BY <1>1, AnswersKeep DEF CopySender
<1>2. CASE post[p].session \in registered
  <2> DEFINE n == [post[p] EXCEPT !.pc = "send", !.holds = TRUE]
  <2>1. post[p] \in PostStates /\ registered \in SUBSET Sessions
    BY PostFacts
  <2>2. /\ n \in PostStates /\ n.session = post[p].session /\ n.holds /\ n.pc = "send"
    BY <2>1 DEF PostStates, PostLabels
  <2>3. post' = [post EXCEPT ![p] = n] /\ UNCHANGED <<registered, stream, accepted>>
    BY <1>2 DEF CopySender
  <2> HIDE DEF n
  <2> QED BY <1>2, <2>1, <2>2, <2>3, PostMoves
<1> QED BY <1>1, <1>2

\* The one step that writes a queue: its stream is not over under a client,
\* because the post holds a sender.
LEMMA TrySendKeeps ==
    ASSUME IInv, NEW p \in Posts, TrySend(p) PROVE IInv'
<1> DEFINE s == post[p].session
           x == [stream[s] EXCEPT !.queue = Append(@, p)]
           a == Append(accepted[s], p)
           n == [post[p] EXCEPT !.pc = "answered", !.holds = FALSE, !.code = 202]
<1>1. CASE ~Room(s)
  BY <1>1, AnswersKeep DEF TrySend
<1>2. CASE Room(s)
  <2>1. s \in Sessions /\ post[p] \in PostStates /\ post[p].holds
    BY PostFacts DEF TrySend
  <2>2. /\ stream[s] \in Streams /\ Follows(stream[s], accepted[s])
        /\ accepted[s] \in Seq(Posts)
    BY <2>1, StreamFacts
  <2>3. /\ stream[s].queue \in Seq(Posts) /\ stream[s].sent \in Seq(Posts)
    BY <2>2 DEF Streams
  <2>4. /\ x \in Streams /\ x.queue = Append(stream[s].queue, p) /\ x.pc = stream[s].pc
        /\ x.sent = stream[s].sent /\ x.present = stream[s].present
    BY <2>2, <2>3, AppendProperties DEF Streams
  <2>5. a \in Seq(Posts)
    BY <2>2, AppendProperties
  <2>6. Follows(x, a)
    <3>1. Len(x.sent) <= Len(a) /\ x.sent = SubSeq(a, 1, Len(x.sent))
      BY <2>2, <2>3, <2>4, PrefixOfAppend DEF Follows
    <3>2. x.present => a = x.sent \o x.queue
      <4>1. stream[s].present => accepted[s] = stream[s].sent \o stream[s].queue
        BY <2>2 DEF Follows
      <4>2. Append(stream[s].sent \o stream[s].queue, p)
                = stream[s].sent \o Append(stream[s].queue, p)
        BY <2>3, AppendToQueue, Zenon
      <4> HIDE DEF x
      <4> QED BY <2>4, <4>1, <4>2
    <3> QED BY <3>1, <3>2 DEF Follows
  <2>7. ~(stream[s].present /\ stream[s].pc \in Over)
    BY <2>1 DEF IInv, Quiet
  <2>8. /\ stream' = [stream EXCEPT ![s] = x]
        /\ accepted' = [accepted EXCEPT ![s] = a]
        /\ post' = [post EXCEPT ![p] = n]
        /\ registered' = registered
    <3>1. /\ stream' = [stream EXCEPT ![s].queue = Append(@, p)]
          /\ accepted' = [accepted EXCEPT ![s] = Append(@, p)]
          /\ Answered(p, 202) /\ UNCHANGED registered
      BY <1>2, Zenon DEF TrySend
    <3> QED BY <3>1 DEF Answered
  <2>9. n \in PostStates /\ n.pc = "answered" /\ ~n.holds
    BY <2>1 DEF PostStates, PostLabels
  <2> HIDE DEF s, x, a, n
  <2>10. Typed'
    BY <2>1, <2>4, <2>5, <2>8, <2>9 DEF IInv, Typed
  <2>11. /\ stream'[s] = x /\ accepted'[s] = a /\ post'[p] = n
         /\ \A t \in Sessions \ {s} : stream'[t] = stream[t] /\ accepted'[t] = accepted[t]
         /\ \A q \in Posts \ {p} : post'[q] = post[q]
    BY <2>1, <2>8 DEF IInv, Typed
  <2>12. SendersHeld'
    BY <2>9, <2>11 DEF IInv, SendersHeld
  <2>13. Delivering'
    BY <2>6, <2>11 DEF IInv, Delivering
  <2>14. Quiet'
    BY <2>4, <2>7, <2>8, <2>9, <2>11 DEF IInv, Quiet
  <2>15. SessionsHaveReaders'
    BY <2>4, <2>8, <2>11 DEF IInv, Typed, SessionsHaveReaders
  <2> QED BY <2>10, <2>12, <2>13, <2>14, <2>15 DEF IInv
<1> QED BY <1>1, <1>2

LEMMA StreamStepKeeps ==
    ASSUME IInv, NEW s \in Sessions, StreamStep(s) PROVE IInv'
BY GreetKeeps, EmitKeeps, KeepAliveFailsKeeps, DisconnectedKeeps, RemoveSessionKeeps,
   DropReceiverKeeps DEF StreamStep

LEMMA PostStepKeeps ==
    ASSUME IInv, NEW p \in Posts, PostStep(p) PROVE IInv'
<1>1. CASE ExecuteCore(p)
  BY <1>1, PostTurns DEF ExecuteCore, PostLabels
<1>2. CASE ExecuteTool(p)
  BY <1>2, PostTurns DEF ExecuteTool, PostLabels
<1>3. CASE ToolReturns(p)
  BY <1>3, PostTurns DEF ToolReturns, PostLabels
<1> QED BY <1>1, <1>2, <1>3, ReplyKeeps, CopySenderKeeps, TrySendKeeps DEF PostStep

LEMMA DirectCallKeeps ==
    ASSUME IInv, NEW h \in Calls, DirectCall(h) PROVE IInv'
<1>1. h \in Posts
  BY McpAssumption
<1> QED BY <1>1, PostTurns DEF DirectCall, PostLabels

LEMMA Stutters ==
    ASSUME IInv, UNCHANGED mcpVars PROVE IInv'
BY DEF IInv, Typed, SendersHeld, Delivering, Quiet, SessionsHaveReaders, mcpVars

LEMMA NextKeeps == IInv /\ [Next]_vars => IInv'
<1> SUFFICES ASSUME IInv, [Next]_vars PROVE IInv'
  OBVIOUS
<1>1. CASE UNCHANGED vars
  BY <1>1, Stutters DEF vars, mcpVars
<1>2. ASSUME NEW s \in Sessions, OpenStream(s) \/ StreamStep(s) \/ ClientLeaves(s)
      PROVE  IInv'
  BY <1>2, OpenStreamKeeps, StreamStepKeeps, ClientLeavesKeeps
<1>3. ASSUME NEW p \in Posts, NEW s \in Sessions \cup {NoSession},
             NEW method \in RpcMethods, Post(p, s, method)
      PROVE  IInv'
  BY <1>3, PostKeeps
<1>4. ASSUME NEW p \in Posts, PostStep(p) PROVE IInv'
  BY <1>4, PostStepKeeps
<1>5. ASSUME NEW h \in Calls, DirectCall(h) \/ (RuntimeStep(h) /\ UNCHANGED mcpVars)
      PROVE  IInv'
  BY <1>5, DirectCallKeeps, Stutters
<1> QED BY <1>1, <1>2, <1>3, <1>4, <1>5 DEF Next

-----------------------------------------------------------------------------
\* Of the replies acknowledged with 202 a client reads a prefix, and all of
\* them when the stream ends while it still reads: the loop over the queue,
\* the overflow that removes the session, and the copied senders of posts
\* interleave in any way.
THEOREM RepliesInOrder == Spec => []AcceptedInOrder
<1>1. IInv => AcceptedInOrder
  <2> SUFFICES ASSUME IInv, NEW s \in Sessions
               PROVE  /\ stream[s].sent = SubSeq(accepted[s], 1, Len(stream[s].sent))
                      /\ stream[s].pc = "ended" /\ stream[s].present
                             => stream[s].sent = accepted[s]
    BY DEF AcceptedInOrder
  <2>1. stream[s] \in Streams /\ Follows(stream[s], accepted[s])
    BY StreamFacts
  <2>2. stream[s].pc = "ended" /\ stream[s].present => stream[s].queue = <<>>
    BY DEF IInv, Quiet, Over
  <2>3. stream[s].sent \in Seq(Posts)
    BY <2>1 DEF Streams
  <2>4. stream[s].sent \o <<>> = stream[s].sent
    BY <2>3, ConcatEmptySeq
  <2> QED BY <2>1, <2>2, <2>4 DEF Follows
<1> QED BY <1>1, InitInv, NextKeeps, PTL DEF Spec

\* No session stays in the map without a thread that reads its queue or will
\* take it out of the map.
THEOREM NoneLeftBehind == Spec => []SessionsHaveReaders
<1>1. IInv => SessionsHaveReaders
  BY DEF IInv
<1> QED BY <1>1, InitInv, NextKeeps, PTL DEF Spec
=============================================================================
