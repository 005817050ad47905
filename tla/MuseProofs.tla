----------------------------- MODULE MuseProofs -----------------------------
(***************************************************************************)
(* Theorems about MuseChat, for any approvals, scopes and policies, any    *)
(* number of turns and events, and any VM, Sentinel and people; and about  *)
(* VideoJobs, for any requests, keys and clocks, with any crashes.         *)
(*                                                                         *)
(* An answer is that of its own turn because a stream that replays the     *)
(* thread is active only past the prompt it has sent, and what it has      *)
(* read since is all of that turn: this needs prompts that differ from     *)
(* turn to turn (PromptsApart).                                            *)
(*                                                                         *)
(* Two prompts with one key are never upstream together because whoever    *)
(* reserves under the key has, from the scan to the save, the lock and the *)
(* knowledge that no record with that key is in submission, and a prompt   *)
(* upstream has such a record, too young for a clean-up with more than a   *)
(* run to list.  This is about the ids that were reserved once and lost no *)
(* record to a shorter clean-up while their job was being created, and the *)
(* keys that were used with no other id (Spoiled, Disturbed).              *)
(***************************************************************************)
EXTENDS MuseChat, VideoJobs, FiniteSetTheorems, TLAPS

Labels == {"idle", "post", "stream", "refused", "list", "decide", "verify", "answer",
           "await", "retain", "answered", "failed"}
Chats == [pc : Labels, turn : Nat, auto : BOOLEAN, video : BOOLEAN, subscribed : BOOLEAN,
          seen : Nat, active : BOOLEAN, latest : Nat, text : SUBSET Nat, completed : BOOLEAN,
          approved : SUBSET Approvals, decided : Nat, at : Approvals \cup {NoApproval},
          granted : SUBSET Approvals]
Events == [kind : {"user", "text", "snapshot", "done", "artifact"}, turn : Nat,
           asks : SUBSET Approvals]

Typed ==
    /\ history \in Seq(Events)
    /\ serving \in Nat
    /\ sentinel \in [Approvals -> {"none", "pending", "approved", "denied"}]
    /\ chat \in Chats

\* The approval at hand is one of this thread.
AtScoped == chat.pc \in {"list", "decide", "verify"} => chat.at \in Scoped

IInv == Typed /\ AtScoped /\ PastGrantedOnly

-----------------------------------------------------------------------------
LEMMA InitInv == Init => IInv
<1> SUFFICES ASSUME Init PROVE IInv
  OBVIOUS
<1>1. NoChat \in Chats /\ NoChat.pc = "idle" /\ NoChat.approved = {}
  BY DEF NoChat, Chats, Labels
<1>2. history \in Seq(Events) /\ serving \in Nat /\ chat = NoChat
  BY DEF Init
<1>3. sentinel \in [Approvals -> {"none", "pending", "approved", "denied"}]
  BY DEF Init
<1> QED BY <1>1, <1>2, <1>3 DEF IInv, Typed, AtScoped, PastGrantedOnly

\* The request goes on as d.
LEMMA ChatMoves ==
    ASSUME IInv, NEW d \in Chats, chat' = d,
           UNCHANGED sentinel, history' \in Seq(Events), serving' \in Nat,
           d.pc \in {"list", "decide", "verify"} => d.at \in Scoped,
           d.approved \subseteq chat.approved
               \cup {a \in Scoped : sentinel[a] = "approved"}
    PROVE  IInv'
BY ChatAssumption DEF IInv, Typed, AtScoped, PastGrantedOnly

\* The Sentinel or the VM moves, and what was granted stays granted.
LEMMA OthersMove ==
    ASSUME IInv, UNCHANGED chat, history' \in Seq(Events), serving' \in Nat,
           sentinel' \in [Approvals -> {"none", "pending", "approved", "denied"}],
           \A a \in Approvals : sentinel[a] = "approved" => sentinel'[a] = "approved"
    PROVE  IInv'
BY ChatAssumption DEF IInv, Typed, AtScoped, PastGrantedOnly

-----------------------------------------------------------------------------
(* One record of the stream. *)

LEMMA UserMessageTyped ==
    ASSUME NEW c \in Chats, NEW i \in Nat, NEW e \in Events
    PROVE  LET d == UserMessage(c, i, e)
           IN  d \in Chats /\ d.pc = c.pc /\ d.at = c.at /\ d.approved = c.approved
<1> DEFINE mine == e.turn = c.turn \/ <<e.turn, c.turn>> \in Alike
           l == Later(c.latest, i)
           a == c.active \/ mine
           t == IF ~c.active /\ mine THEN {} ELSE c.text
<1>1. l \in Nat /\ t \in SUBSET Nat
  BY DEF Chats, Later
<1>2. a \in BOOLEAN
  BY Zenon DEF Chats
<1>3. UserMessage(c, i, e) = [c EXCEPT !.latest = l, !.active = a, !.text = t]
  BY DEF UserMessage
<1> HIDE DEF l, a, t
<1> QED BY <1>1, <1>2, <1>3 DEF Chats

LEMMA ContentTyped ==
    ASSUME NEW c \in Chats, NEW e \in Events
    PROVE  LET d == Content(c, e)
           IN  d \in Chats /\ d.pc = c.pc /\ d.at = c.at /\ d.approved = c.approved
<1> DEFINE t == IF e.kind # "done" \/ c.text = {} THEN c.text \cup {e.turn} ELSE c.text
           b == c.completed \/ e.kind = "done"
<1>1. t \in SUBSET Nat
  BY DEF Chats, Events
<1>2. b \in BOOLEAN
  BY Zenon DEF Chats
<1>3. Content(c, e) = [c EXCEPT !.text = t, !.completed = b]
  BY DEF Content
<1> HIDE DEF t, b
<1> QED BY <1>1, <1>2, <1>3 DEF Chats

\* The coordinator is handed an approval of this thread.
LEMMA SnapshotTyped ==
    ASSUME NEW c \in Chats, NEW e \in Events, c.pc \in {"stream", "await"}
    PROVE  LET d == Snapshot(c, e)
           IN  /\ d \in Chats /\ d.approved = c.approved
               /\ d.pc \in {"list", "decide", "verify"} => d.at \in Scoped
<1>1. CASE NewIds(c, e) = {}
  BY <1>1 DEF Snapshot
<1>2. CASE NewIds(c, e) # {} /\ ~(c.auto /\ c.subscribed /\ Cardinality(e.asks \cap Scoped) = 1)
  <2>1. Snapshot(c, e) = [c EXCEPT !.pc = "refused"]
    BY <1>2, Zenon DEF Snapshot
  <2> QED BY <2>1 DEF Chats, Labels
<1>3. CASE NewIds(c, e) # {} /\ c.auto /\ c.subscribed /\ Cardinality(e.asks \cap Scoped) = 1
  <2> DEFINE a == CHOOSE a \in NewIds(c, e) : TRUE
  <2>1. a \in Scoped /\ a \in Approvals
    BY <1>3, ChatAssumption DEF NewIds
  <2>2. Snapshot(c, e) = [c EXCEPT !.pc = "list", !.at = a]
    BY <1>3, Zenon DEF Snapshot
  <2> HIDE DEF a
  <2> QED BY <2>1, <2>2 DEF Chats, Labels
<1> QED BY <1>1, <1>2, <1>3

LEMMA RecordedTyped ==
    ASSUME NEW c \in Chats, NEW i \in Nat, NEW e \in Events, c.pc = "stream"
    PROVE  LET d == Recorded(c, i, e)
           IN  /\ d \in Chats /\ d.approved = c.approved
               /\ d.pc \in {"list", "decide", "verify"} => d.at \in Scoped
<1>1. \/ Recorded(c, i, e) = UserMessage(c, i, e)
      \/ Recorded(c, i, e) = c
      \/ Recorded(c, i, e) = Snapshot(c, e)
      \/ Recorded(c, i, e) = Content(c, e)
  BY Zenon DEF Recorded
<1>2. CASE Recorded(c, i, e) = UserMessage(c, i, e)
  BY <1>2, UserMessageTyped
<1>3. CASE Recorded(c, i, e) = c
  BY <1>3
<1>4. CASE Recorded(c, i, e) = Snapshot(c, e)
  BY <1>4, SnapshotTyped
<1>5. CASE Recorded(c, i, e) = Content(c, e)
  BY <1>5, ContentTyped
<1> QED BY <1>1, <1>2, <1>3, <1>4, <1>5

-----------------------------------------------------------------------------
(* The request. *)

LEMMA SeenTyped ==
    ASSUME NEW c \in Chats, NEW i \in Nat
    PROVE  LET d == [c EXCEPT !.seen = Later(@, i)]
           IN  d \in Chats /\ d.pc = c.pc /\ d.approved = c.approved /\ d.at = c.at
<1>1. Later(c.seen, i) \in Nat
  BY DEF Later, Chats
<1>2. ASSUME NEW n \in Nat
      PROVE  LET d == [c EXCEPT !.seen = n]
             IN  d \in Chats /\ d.pc = c.pc /\ d.approved = c.approved /\ d.at = c.at
  BY DEF Chats
<1> QED BY <1>1, <1>2

LEMMA FailsKeeps ==
    ASSUME IInv, Fails, UNCHANGED <<mode, history, serving, sentinel>>
    PROVE  IInv'
<1> DEFINE t == chat.turn
           g == chat.granted
           d == [NoChat EXCEPT !.pc = "failed", !.turn = t, !.granted = g]
<1>1. t \in Nat /\ g \in SUBSET Approvals
  BY DEF IInv, Typed, Chats
<1>2. NoChat \in Chats /\ NoChat.approved = {}
  BY DEF NoChat, Chats, Labels
<1>3. chat' = d
  BY DEF Fails
<1> HIDE DEF t, g
<1>4. ASSUME NEW n \in Chats
      PROVE  LET o == [n EXCEPT !.pc = "failed", !.turn = t, !.granted = g]
             IN  o \in Chats /\ o.pc = "failed" /\ o.approved = n.approved
  BY <1>1 DEF Chats, Labels
<1>5. d \in Chats /\ d.pc = "failed" /\ d.approved = {}
  BY <1>2, <1>4
<1> HIDE DEF d
<1> QED BY <1>3, <1>5, ChatMoves DEF IInv, Typed

LEMMA RequestKeeps == ASSUME IInv, Request PROVE IInv'
<1> DEFINE t == chat.turn + 1
           on == (mode = "scoped_auto")
           first == (chat.turn = 0)
<1>1. PICK video \in BOOLEAN :
        chat' = [NoChat EXCEPT !.pc = "post", !.turn = t, !.video = video,
                               !.auto = on, !.active = first]
  BY Zenon DEF Request, Moves
<1>2. t \in Nat
  BY DEF IInv, Typed, Chats
<1>3. on \in BOOLEAN /\ first \in BOOLEAN
  BY Zenon
<1>4. NoChat \in Chats /\ NoChat.approved = {}
  BY DEF NoChat, Chats, Labels
<1> HIDE DEF t, on, first
<1>5. ASSUME NEW n \in Chats
      PROVE  LET o == [n EXCEPT !.pc = "post", !.turn = t, !.video = video,
                                !.auto = on, !.active = first]
             IN  o \in Chats /\ o.pc = "post" /\ o.approved = n.approved
  BY <1>2, <1>3 DEF Chats, Labels
<1>6. chat' \in Chats /\ chat'.pc = "post" /\ chat'.approved = {}
  BY <1>1, <1>4, <1>5
<1>7. UNCHANGED <<mode, history, serving, sentinel>>
  BY DEF Request
<1> QED BY <1>6, <1>7, ChatMoves DEF IInv, Typed

LEMMA AcknowledgedKeeps == ASSUME IInv, Acknowledged PROVE IInv'
<1>1. chat \in Chats /\ chat.turn \in Nat /\ Len(history) \in Nat /\ history \in Seq(Events)
  BY DEF IInv, Typed, Chats
<1>2. Event("user", chat.turn, {}) \in Events
  BY <1>1 DEF Event, Events
<1>3. history' \in Seq(Events) /\ serving' \in Nat /\ UNCHANGED sentinel
  BY <1>1, <1>2 DEF Acknowledged
<1> DEFINE n == Len(history)
<1>4. \/ chat' = [chat EXCEPT !.pc = "stream", !.seen = n]
      \/ chat' = [chat EXCEPT !.pc = "stream", !.subscribed = TRUE]
  BY DEF Acknowledged, Moves
<1>5. n \in Nat
  BY <1>1
<1> HIDE DEF n
<1>6. chat' \in Chats /\ chat'.pc = "stream" /\ chat'.approved = chat.approved
  BY <1>1, <1>4, <1>5 DEF Chats, Labels
<1> QED BY <1>3, <1>6, ChatMoves

\* Steps that change flags, labels and counters, and no approval.
LEMMA PlainKeeps ==
    ASSUME IInv, Subscribe \/ Answer \/ AwaitEnds PROVE IInv'
<1>1. chat \in Chats
  BY DEF IInv, Typed
<1>2. UNCHANGED <<mode, history, serving, sentinel>>
  BY DEF Subscribe, Answer, AwaitEnds
<1>3. chat' \in Chats /\ chat'.pc \in {"stream", "retain", "await"}
      /\ chat'.approved \subseteq chat.approved
  <2>1. CASE Subscribe
    BY <1>1, <2>1 DEF Subscribe, Moves, At, Chats
  <2>2. CASE Answer
    <3>1. \/ chat' = [chat EXCEPT !.pc = "retain"]
          \/ chat' = [chat EXCEPT !.pc = "await", !.approved = {}, !.decided = 0,
                                  !.latest = 0, !.subscribed = TRUE]
      BY <2>2 DEF Answer, Moves
    <3>2. CASE chat' = [chat EXCEPT !.pc = "retain"]
      BY <1>1, <3>2 DEF Chats, Labels
    <3>3. CASE chat' = [chat EXCEPT !.pc = "await", !.approved = {}, !.decided = 0,
                                  !.latest = 0, !.subscribed = TRUE]
      BY <1>1, <3>3 DEF Chats, Labels
    <3> QED BY <3>1, <3>2, <3>3
  <2>3. CASE AwaitEnds
    BY <1>1, <2>3 DEF AwaitEnds, Moves, Chats, Labels
  <2> QED BY <2>1, <2>2, <2>3
<1> QED BY <1>2, <1>3, ChatMoves DEF IInv, Typed

LEMMA EndKeeps == ASSUME IInv, Retain \/ Closed PROVE IInv'
<1> DEFINE t == chat.turn
           x == chat.text
           g == chat.granted
<1>1. t \in Nat /\ g \in SUBSET Approvals /\ x \in SUBSET Nat
  BY DEF IInv, Typed, Chats
<1>2. NoChat \in Chats /\ NoChat.approved = {} /\ NoChat.pc = "idle"
  BY DEF NoChat, Chats, Labels
<1>3. UNCHANGED <<mode, history, serving, sentinel>>
  BY DEF Retain, Closed
<1>4. \/ chat' = [NoChat EXCEPT !.pc = "answered", !.turn = t, !.text = x,
                                !.completed = TRUE, !.granted = g]
      \/ chat' = [NoChat EXCEPT !.turn = t]
  BY DEF Retain, Closed, Moves
<1> HIDE DEF t, x, g
<1>5. ASSUME NEW n \in Chats, n.pc = "idle"
      PROVE  LET o == [n EXCEPT !.pc = "answered", !.turn = t, !.text = x,
                                !.completed = TRUE, !.granted = g]
                 c == [n EXCEPT !.turn = t]
             IN  /\ o \in Chats /\ o.pc = "answered" /\ o.approved = n.approved
                 /\ c \in Chats /\ c.pc = "idle" /\ c.approved = n.approved
  BY <1>1, <1>5 DEF Chats, Labels
<1>6. chat' \in Chats /\ chat'.pc \in {"answered", "idle"} /\ chat'.approved = {}
  BY <1>2, <1>4, <1>5
<1> QED BY <1>3, <1>6, ChatMoves DEF IInv, Typed

LEMMA ReceiveKeeps == ASSUME IInv, Receive PROVE IInv'
<1>1. PICK i \in 1..Len(history) :
        LET c == Recorded([chat EXCEPT !.seen = Later(@, i)], i, history[i])
        IN  chat' = [c EXCEPT !.pc = IF c.completed THEN "answer" ELSE @]
  BY Zenon DEF Receive, Moves
<1> DEFINE b == [chat EXCEPT !.seen = Later(@, i)]
           c == Recorded(b, i, history[i])
<1>2. i \in Nat /\ history[i] \in Events /\ chat \in Chats /\ chat.pc = "stream"
  BY DEF IInv, Typed, Receive, At
<1>3. b \in Chats /\ b.pc = "stream" /\ b.approved = chat.approved
  BY <1>2, SeenTyped
<1> HIDE DEF b
<1>4. /\ c \in Chats /\ c.approved = chat.approved
      /\ c.pc \in {"list", "decide", "verify"} => c.at \in Scoped
  BY <1>2, <1>3, RecordedTyped
<1> DEFINE l == IF c.completed THEN "answer" ELSE c.pc
<1>5. chat' = [c EXCEPT !.pc = l] /\ l \in {"answer", c.pc}
  BY <1>1 DEF b
<1> HIDE DEF c, l
<1>8. l \in Labels
  BY <1>4, <1>5 DEF Chats, Labels
<1>9. chat' \in Chats /\ chat'.approved = c.approved /\ chat'.at = c.at /\ chat'.pc = l
  BY <1>4, <1>5, <1>8 DEF Chats
<1>6. /\ chat' \in Chats /\ chat'.approved = chat.approved
      /\ chat'.pc \in {"list", "decide", "verify"} => chat'.at \in Scoped
  BY <1>4, <1>5, <1>9
<1>7. UNCHANGED <<mode, history, serving, sentinel>>
  BY DEF Receive
<1> QED BY <1>6, <1>7, ChatMoves DEF IInv, Typed

LEMMA AwaitReceiveKeeps == ASSUME IInv, AwaitReceive PROVE IInv'
<1>1. PICK i \in 1..Len(history) :
        LET e == history[i]
            c == [chat EXCEPT !.seen = Later(@, i)]
        IN  chat' = CASE e.kind = "user" -> UserMessage(c, i, e)
                      [] e.kind = "snapshot" /\ Applicable(c, i) -> Snapshot(c, e)
                      [] e.kind = "artifact" /\ Applicable(c, i) -> [c EXCEPT !.pc = "retain"]
                      [] OTHER -> c
  BY Zenon DEF AwaitReceive, Moves
<1> DEFINE c == [chat EXCEPT !.seen = Later(@, i)]
           e == history[i]
<1>2. i \in Nat /\ e \in Events /\ chat \in Chats /\ chat.pc = "await"
  BY DEF IInv, Typed, AwaitReceive, At
<1>3. c \in Chats /\ c.pc = "await" /\ c.approved = chat.approved
  BY <1>2, SeenTyped
<1>4. \/ chat' = UserMessage(c, i, e)
      \/ chat' = Snapshot(c, e)
      \/ chat' = [c EXCEPT !.pc = "retain"]
      \/ chat' = c
  BY <1>1, Zenon
<1> HIDE DEF c, e
<1>5. [c EXCEPT !.pc = "retain"] \in Chats
      /\ [c EXCEPT !.pc = "retain"].approved = c.approved
      /\ [c EXCEPT !.pc = "retain"].pc = "retain"
  BY <1>3 DEF Chats, Labels
<1>6. /\ chat' \in Chats /\ chat'.approved = chat.approved
      /\ chat'.pc \in {"list", "decide", "verify"} => chat'.at \in Scoped
  <2>1. CASE chat' = UserMessage(c, i, e)
    BY <1>2, <1>3, <2>1, UserMessageTyped
  <2>2. CASE chat' = Snapshot(c, e)
    BY <1>2, <1>3, <2>2, SnapshotTyped
  <2>3. CASE chat' = [c EXCEPT !.pc = "retain"]
    BY <1>3, <1>5, <2>3
  <2>4. CASE chat' = c
    BY <1>3, <2>4
  <2> QED BY <1>4, <2>1, <2>2, <2>3, <2>4
<1>7. UNCHANGED <<mode, history, serving, sentinel>>
  BY DEF AwaitReceive
<1> QED BY <1>6, <1>7, ChatMoves DEF IInv, Typed

-----------------------------------------------------------------------------
(* The coordinator: only what the Sentinel has granted is added. *)

LEMMA ListKeeps == ASSUME IInv, List PROVE IInv'
<1>1. CASE Fails
  BY <1>1, FailsKeeps DEF List
<1>2. CASE chat' = [chat EXCEPT !.pc = "decide"]
  <2>1. /\ chat \in Chats /\ chat.at \in Scoped
        /\ UNCHANGED <<mode, history, serving, sentinel>>
    BY DEF List, At, IInv, Typed, AtScoped
  <2>2. chat' \in Chats /\ chat'.at = chat.at /\ chat'.approved = chat.approved
    BY <1>2, <2>1 DEF Chats, Labels
  <2> QED BY <2>1, <2>2, ChatMoves DEF IInv, Typed
<1> QED BY <1>1, <1>2 DEF List, Moves

LEMMA DecideKeeps == ASSUME IInv, Decide PROVE IInv'
<1> DEFINE g == IF sentinel[chat.at] = "pending" THEN chat.granted \cup {chat.at}
                ELSE chat.granted
<1>1. chat \in Chats /\ chat.at \in Scoped /\ chat.at \in Approvals
  BY ChatAssumption DEF Decide, At, IInv, Typed, AtScoped
<1>2. g \in SUBSET Approvals
  BY <1>1 DEF Chats
<1>3. chat' = [chat EXCEPT !.pc = "verify", !.granted = g]
  BY DEF Decide, Moves
<1> HIDE DEF g
<1>4. /\ chat' \in Chats /\ chat'.at = chat.at /\ chat'.approved = chat.approved
  BY <1>1, <1>2, <1>3 DEF Chats, Labels
<1>5. /\ sentinel' \in [Approvals -> {"none", "pending", "approved", "denied"}]
      /\ \A a \in Approvals : sentinel[a] = "approved" => sentinel'[a] = "approved"
      /\ UNCHANGED <<mode, history, serving>>
  BY <1>1 DEF Decide, IInv, Typed
<1> QED BY <1>1, <1>4, <1>5, ChatAssumption DEF IInv, Typed, AtScoped, PastGrantedOnly

LEMMA VerifyKeeps == ASSUME IInv, Verify PROVE IInv'
<1>1. CASE Fails
  BY <1>1, FailsKeeps DEF Verify
<1>2. CASE ~Fails
  <2> DEFINE p == Returns(chat)
             a == chat.approved \cup {chat.at}
             n == chat.decided + 1
  <2>1. /\ chat \in Chats /\ chat.at \in Scoped /\ sentinel[chat.at] = "approved"
        /\ UNCHANGED <<mode, history, serving, sentinel>>
    BY <1>2 DEF Verify, At, IInv, Typed, AtScoped
  <2>2. p \in {"await", "stream"} /\ a \in SUBSET Approvals /\ n \in Nat
    BY <2>1, ChatAssumption DEF Returns, Chats
  <2>3. chat' = [chat EXCEPT !.pc = p, !.approved = a, !.decided = n, !.at = NoApproval]
    BY <1>2 DEF Verify, Moves
  <2>4. a \subseteq chat.approved \cup {b \in Scoped : sentinel[b] = "approved"}
    BY <2>1
  <2> HIDE DEF p, a, n
  <2>5. chat' \in Chats /\ chat'.pc = p /\ chat'.approved = a
    BY <2>1, <2>2, <2>3 DEF Chats, Labels
  <2> QED BY <2>1, <2>2, <2>4, <2>5, ChatMoves DEF IInv, Typed
<1> QED BY <1>1, <1>2

-----------------------------------------------------------------------------
(* The others. *)

LEMMA EmitsTyped ==
    ASSUME Typed, NEW e \in Events, Emits(e) PROVE history' \in Seq(Events)
BY DEF Typed, Emits

LEMMA VMKeeps == ASSUME IInv, Speaks \/ Asks \/ Finishes \/ GivesUp PROVE IInv'
<1>1. /\ UNCHANGED chat /\ serving \in Nat /\ Typed
      /\ sentinel \in [Approvals -> {"none", "pending", "approved", "denied"}]
  BY DEF Speaks, Asks, Finishes, GivesUp, IInv, Typed
<1>2. CASE Speaks
  <2>1. Event("text", serving, {}) \in Events
    BY <1>1 DEF Event, Events
  <2> QED BY <1>1, <1>2, <2>1, EmitsTyped, OthersMove DEF Speaks
<1>3. CASE Asks
  <2>1. PICK new \in {{}} \cup {{a} : a \in Approvals} :
          /\ \A a \in new : sentinel[a] = "none"
          /\ sentinel' = [a \in Approvals |-> IF a \in new THEN "pending" ELSE sentinel[a]]
          /\ Emits(Event("snapshot", serving, {a \in Approvals : sentinel'[a] = "pending"}))
    BY <1>3 DEF Asks
  <2>2. Event("snapshot", serving, {a \in Approvals : sentinel'[a] = "pending"}) \in Events
    BY <1>1 DEF Event, Events
  <2>3. history' \in Seq(Events)
    BY <1>1, <2>1, <2>2, EmitsTyped
  <2>4. /\ sentinel' \in [Approvals -> {"none", "pending", "approved", "denied"}]
        /\ \A a \in Approvals : sentinel[a] = "approved" => sentinel'[a] = "approved"
    BY <1>1, <2>1
  <2> QED BY <1>1, <1>3, <2>3, <2>4, OthersMove DEF Asks
<1>4. CASE Finishes
  <2>1. Event("done", serving, {}) \in Events
    BY <1>1 DEF Event, Events
  <2> QED BY <1>1, <1>4, <2>1, EmitsTyped, OthersMove DEF Finishes
<1>5. CASE GivesUp
  BY <1>1, <1>5, OthersMove DEF GivesUp, Typed
<1> QED BY <1>2, <1>3, <1>4, <1>5

LEMMA PresentsKeeps == ASSUME IInv, Presents PROVE IInv'
<1>1. /\ UNCHANGED <<chat, serving>> /\ Typed /\ chat.turn \in Nat /\ serving \in Nat
      /\ sentinel \in [Approvals -> {"none", "pending", "approved", "denied"}]
  BY DEF Presents, IInv, Typed, Chats
<1>2. CASE Emits(Event("artifact", chat.turn, {})) /\ UNCHANGED sentinel
  <2>1. Event("artifact", chat.turn, {}) \in Events
    BY <1>1 DEF Event, Events
  <2> QED BY <1>1, <1>2, <2>1, EmitsTyped, OthersMove
<1>3. CASE \E a \in Approvals :
            /\ sentinel[a] = "none"
            /\ sentinel' = [sentinel EXCEPT ![a] = "pending"]
            /\ Emits(Event("snapshot", chat.turn, {b \in Approvals : sentinel'[b] = "pending"}))
  <2>1. Event("snapshot", chat.turn, {b \in Approvals : sentinel'[b] = "pending"}) \in Events
    BY <1>1 DEF Event, Events
  <2>2. history' \in Seq(Events)
    BY <1>1, <1>3, <2>1, EmitsTyped
  <2>3. /\ sentinel' \in [Approvals -> {"none", "pending", "approved", "denied"}]
        /\ \A a \in Approvals : sentinel[a] = "approved" => sentinel'[a] = "approved"
    BY <1>1, <1>3
  <2> QED BY <1>1, <2>2, <2>3, OthersMove
<1> QED BY <1>2, <1>3 DEF Presents

LEMMA DecidedElsewhereKeeps == ASSUME IInv, DecidedElsewhere PROVE IInv'
<1>1. PICK a \in Scoped, status \in {"approved", "denied"} :
        sentinel[a] = "pending" /\ sentinel' = [sentinel EXCEPT ![a] = status]
  BY DEF DecidedElsewhere
<1>2. UNCHANGED <<history, serving, chat>>
  BY DEF DecidedElsewhere
<1>3. /\ sentinel' \in [Approvals -> {"none", "pending", "approved", "denied"}]
      /\ \A b \in Approvals : sentinel[b] = "approved" => sentinel'[b] = "approved"
  BY <1>1, ChatAssumption DEF IInv, Typed
<1> QED BY <1>2, <1>3, OthersMove DEF IInv, Typed

-----------------------------------------------------------------------------
(* The coordinator adds nothing else. *)

LEMMA NextInv == IInv /\ [Next]_vars => IInv'
<1> SUFFICES ASSUME IInv, [Next]_vars PROVE IInv'
  OBVIOUS
<1>1. CASE UNCHANGED vars
  BY <1>1 DEF vars, IInv, Typed, AtScoped, PastGrantedOnly
<1>2. CASE Breaks \/ Refused
  BY <1>2, FailsKeeps DEF Breaks, Refused
<1>3. CASE ChatStep
  BY <1>2, <1>3, RequestKeeps, AcknowledgedKeeps, PlainKeeps, EndKeeps, ReceiveKeeps,
     AwaitReceiveKeeps, ListKeeps, DecideKeeps, VerifyKeeps DEF ChatStep
<1>4. CASE RollBack
  BY <1>4, OthersMove DEF RollBack, IInv, Typed
<1> QED BY <1>1, <1>3, <1>4, VMKeeps, PresentsKeeps, DecidedElsewhereKeeps DEF Next

\* PastGrantedOnly: a stream goes on past an approval of its thread only when
\* the Sentinel has granted it, for any number of approvals, whoever decides
\* them and in whatever order (handle_approval_snapshot, decide_approval).
THEOREM PassesGrantedOnly == Spec => []PastGrantedOnly
<1>1. IInv => PastGrantedOnly
  BY DEF IInv
<1> QED BY <1>1, InitInv, NextInv, PTL DEF Spec

-----------------------------------------------------------------------------
(* Whose events a request reads. *)

\* The prompts of different turns do not match.
PromptsApart == \A pair \in Alike : pair[1] = pair[2]

\* The events of a thread come turn by turn, none of a turn to come.
InTurns(h, turn) ==
    /\ \A i \in 1..Len(h) : h[i].turn \in 1..turn
    /\ \A i, j \in 1..Len(h) : i <= j => h[i].turn <= h[j].turn

\* Once a request takes part, what it reads next is of its own turn: it is the
\* first one, or has come past a prompt that is its own or a later one.
Reads(c, h) ==
    /\ c.text \subseteq {c.turn}
    /\ c.completed => \E i \in 1..Len(h) : h[i].kind = "done" /\ h[i].turn = c.turn
    /\ c.active /\ ~c.completed =>
        c.turn = 1 \/ (c.latest # 0 /\ h[c.latest].turn = c.turn)
    /\ c.latest \in 0..Len(h)

Staged(c) ==
    /\ c.pc # "idle" => c.turn >= 1
    /\ c.pc \in {"post", "stream"} => ~c.completed
    /\ c.pc \in {"answer", "await", "retain"} => c.completed

TurnInv ==
    /\ serving \in {0, chat.turn}
    /\ InTurns(history, chat.turn)
    /\ Reads(chat, history)
    /\ Staged(chat)

LEMMA TurnInit == Init => TurnInv
BY DEF Init, TurnInv, InTurns, Reads, Staged, NoChat

\* Only the fields named matter.
LEMMA ReadsSame ==
    ASSUME NEW c, NEW d, NEW h, Reads(c, h), d.turn = c.turn, d.text = c.text,
           d.completed = c.completed, d.active = c.active, d.latest = c.latest
    PROVE  Reads(d, h)
BY Zenon DEF Reads

\* The VM says one thing more.
LEMMA SaysMore ==
    ASSUME NEW c \in Chats, NEW h \in Seq(Events), NEW e \in Events,
           InTurns(h, c.turn), e.turn = c.turn, c.turn >= 1
    PROVE  LET g == Append(h, e)
           IN  InTurns(g, c.turn) /\ (Reads(c, h) => Reads(c, g))
<1> DEFINE g == Append(h, e)
           n == Len(h)
<1>1. n \in Nat /\ Len(g) = n + 1 /\ c.turn \in Nat
  BY DEF Chats
<1>2. \A i \in 1..n : g[i] = h[i]
  OBVIOUS
<1>3. g[n + 1] = e
  OBVIOUS
<1>4. \A i \in 1..n : h[i].turn \in Nat /\ h[i].turn <= c.turn /\ h[i].turn >= 1
  BY <1>1 DEF InTurns
<1>5. InTurns(g, c.turn)
  <2>1. \A i \in 1..(n + 1) : i = n + 1 \/ i \in 1..n
    BY <1>1
  <2>2. \A i \in 1..(n + 1) : g[i].turn \in 1..c.turn
    BY <1>1, <1>2, <1>3, <1>4, <2>1
  <2>3. ASSUME NEW i \in 1..(n + 1), NEW j \in 1..(n + 1), i <= j
        PROVE  g[i].turn <= g[j].turn
    <3>1. CASE j = n + 1
      BY <1>1, <1>3, <2>2, <3>1
    <3>2. CASE i \in 1..n /\ j \in 1..n
      BY <1>2, <2>3, <3>2 DEF InTurns
    <3> QED BY <1>1, <2>1, <2>3, <3>1, <3>2
  <2> HIDE DEF g, n
  <2> QED BY <1>1, <2>2, <2>3 DEF InTurns
<1>6. 1..n \subseteq 1..Len(g)
  BY <1>1
<1>7. ASSUME Reads(c, h) PROVE Reads(c, g)
  <2> HIDE DEF g
  <2> QED BY <1>2, <1>6, <1>7 DEF Reads, n
<1> QED BY <1>5, <1>7

LEMMA MessageRead ==
    ASSUME PromptsApart, NEW c \in Chats, NEW h \in Seq(Events), NEW i \in 1..Len(h),
           InTurns(h, c.turn), Reads(c, h)
    PROVE  LET d == UserMessage(c, i, h[i])
           IN  Reads(d, h) /\ d.turn = c.turn /\ d.completed = c.completed
<1> DEFINE e == h[i]
           mine == e.turn = c.turn \/ <<e.turn, c.turn>> \in Alike
           l == Later(c.latest, i)
           a == c.active \/ mine
           t == IF ~c.active /\ mine THEN {} ELSE c.text
           d == UserMessage(c, i, e)
<1>1. d = [c EXCEPT !.latest = l, !.active = a, !.text = t]
  BY DEF UserMessage
<1>2. mine => e.turn = c.turn
  BY DEF PromptsApart
<1>3. t \subseteq {c.turn}
  BY DEF Reads
<1>4. /\ Len(h) \in Nat /\ i \in Nat /\ c.latest \in 0..Len(h) /\ c.turn \in Nat
      /\ \A k \in 1..Len(h) : h[k].turn \in Nat /\ h[k].turn <= c.turn
  BY DEF Chats, InTurns, Reads
<1>5. l \in 1..Len(h) /\ i <= l /\ c.latest <= l /\ l \in {i, c.latest}
  BY <1>4 DEF Later
<1>6. h[i].turn <= h[l].turn /\ h[l].turn <= c.turn /\ h[l].turn \in Nat /\ h[i].turn \in Nat
  BY <1>4, <1>5 DEF InTurns
<1>7. c.latest # 0 => h[c.latest].turn <= h[l].turn
  BY <1>4, <1>5 DEF InTurns
<1>8. ASSUME a, ~c.completed, c.turn # 1 PROVE h[l].turn = c.turn
  <2>1. CASE c.active
    <3>1. c.latest # 0 /\ h[c.latest].turn = c.turn
      BY <1>8, <2>1 DEF Reads
    <3> QED BY <1>4, <1>6, <1>7, <3>1
  <2>2. CASE ~c.active
    BY <1>2, <1>4, <1>6, <1>8, <2>2
  <2> QED BY <2>1, <2>2
<1> HIDE DEF l, a, t
<1>9. /\ d.latest = l /\ d.active = a /\ d.text = t /\ d.turn = c.turn
      /\ d.completed = c.completed
  BY <1>1 DEF Chats
<1> QED BY <1>3, <1>4, <1>5, <1>8, <1>9 DEF Reads

\* What is applicable to a request is of its turn.
LEMMA ContentRead ==
    ASSUME NEW c \in Chats, NEW h \in Seq(Events), NEW i \in 1..Len(h), ~c.completed,
           InTurns(h, c.turn), Reads(c, h), Applicable(c, i)
    PROVE  LET d == Content(c, h[i]) IN Reads(d, h) /\ d.turn = c.turn /\ d.pc = c.pc
<1> DEFINE e == h[i]
           t == IF e.kind # "done" \/ c.text = {} THEN c.text \cup {e.turn} ELSE c.text
           b == c.completed \/ e.kind = "done"
           d == Content(c, e)
<1>1. d = [c EXCEPT !.text = t, !.completed = b]
  BY DEF Content
<1>2. /\ Len(h) \in Nat /\ i \in Nat /\ c.latest \in 0..Len(h) /\ c.turn \in Nat
      /\ h[i].turn \in Nat /\ 1 <= h[i].turn /\ h[i].turn <= c.turn
  BY DEF Chats, InTurns, Reads
<1>3. e.turn = c.turn
  <2>1. CASE c.turn = 1
    BY <1>2, <2>1
  <2>2. CASE c.latest # 0 /\ h[c.latest].turn = c.turn
    <3>1. c.latest \in 1..Len(h) /\ c.latest <= i
      BY <1>2, <2>2 DEF Applicable
    <3>2. h[c.latest].turn <= h[i].turn
      BY <3>1 DEF InTurns
    <3> QED BY <1>2, <2>2, <3>2
  <2> QED BY <2>1, <2>2 DEF Reads, Applicable
<1>4. t \subseteq {c.turn}
  BY <1>3 DEF Reads
<1>5. b => \E j \in 1..Len(h) : h[j].kind = "done" /\ h[j].turn = c.turn
  BY <1>3
<1>6. ~b => ~c.completed
  OBVIOUS
<1> HIDE DEF t, b, e
<1>7. /\ d.latest = c.latest /\ d.active = c.active /\ d.text = t /\ d.turn = c.turn
      /\ d.completed = b /\ d.pc = c.pc
  BY <1>1 DEF Chats
<1> QED BY <1>4, <1>5, <1>6, <1>7, Zenon DEF Reads, e

LEMMA SnapshotRead ==
    ASSUME NEW c \in Chats, NEW h \in Seq(Events), NEW e \in Events, Reads(c, h)
    PROVE  LET d == Snapshot(c, e)
           IN  /\ Reads(d, h) /\ d.turn = c.turn /\ d.completed = c.completed
               /\ d.pc \in {c.pc, "list", "refused"}
<1> DEFINE d == Snapshot(c, e)
<1>1. PICK l, a : d = c \/ d = [c EXCEPT !.pc = "list", !.at = a] \/ d = [c EXCEPT !.pc = "refused"]
  BY Zenon DEF Snapshot
<1> HIDE DEF d
<1>2. /\ d.turn = c.turn /\ d.text = c.text /\ d.completed = c.completed
      /\ d.active = c.active /\ d.latest = c.latest /\ d.pc \in {c.pc, "list", "refused"}
  BY <1>1 DEF Chats
<1> QED BY <1>2, ReadsSame DEF d

LEMMA RecordedRead ==
    ASSUME PromptsApart, NEW c \in Chats, NEW h \in Seq(Events), NEW i \in 1..Len(h),
           InTurns(h, c.turn), Reads(c, h), ~c.completed, c.pc = "stream"
    PROVE  LET d == Recorded(c, i, h[i])
           IN  Reads(d, h) /\ d.turn = c.turn /\ d.pc \in {"stream", "list", "refused"}
<1> DEFINE e == h[i]
<1>1. e \in Events /\ i \in Nat
  OBVIOUS
<1>2. \/ Recorded(c, i, e) = UserMessage(c, i, e)
      \/ Recorded(c, i, e) = c
      \/ Recorded(c, i, e) = Snapshot(c, e)
      \/ Recorded(c, i, e) = Content(c, e) /\ Applicable(c, i)
  BY Zenon DEF Recorded
<1>3. UserMessage(c, i, e).pc = c.pc
  BY <1>1, UserMessageTyped
<1> QED BY <1>1, <1>2, <1>3, MessageRead, SnapshotRead, ContentRead

-----------------------------------------------------------------------------
\* The request goes on.
LEMMA ChatGoesOn ==
    ASSUME TurnInv, NEW d, chat' = d, UNCHANGED <<history, serving>>,
           Reads(d, history), d.turn = chat.turn, Staged(d)
    PROVE  TurnInv'
BY DEF TurnInv

\* The VM says one thing more of the turn.
LEMMA VMGoesOn ==
    ASSUME IInv, TurnInv, UNCHANGED chat, NEW e \in Events, e.turn = chat.turn, chat.turn >= 1,
           history' = Append(history, e), serving' \in {0, chat.turn}
    PROVE  TurnInv'
BY SaysMore DEF TurnInv, IInv, Typed

LEMMA FailsInTurn ==
    ASSUME IInv, TurnInv, Fails, At("idle") => FALSE, UNCHANGED <<history, serving>>
    PROVE  TurnInv'
<1> DEFINE t == chat.turn
           g == chat.granted
           d == [NoChat EXCEPT !.pc = "failed", !.turn = t, !.granted = g]
<1>1. chat' = d
  BY DEF Fails
<1>2. t \in Nat /\ t >= 1 /\ Len(history) \in Nat
  BY DEF IInv, Typed, Chats, TurnInv, Staged, At
<1>3. /\ d.pc = "failed" /\ d.turn = t /\ d.text = {} /\ d.completed = FALSE
      /\ d.active = FALSE /\ d.latest = 0
  BY DEF NoChat
<1> HIDE DEF d
<1> QED BY <1>1, <1>2, <1>3, ChatGoesOn DEF Reads, Staged

LEMMA RequestInTurn == ASSUME IInv, TurnInv, Request PROVE TurnInv'
<1> DEFINE t == chat.turn + 1
           on == (mode = "scoped_auto")
           first == (chat.turn = 0)
<1>1. PICK video \in BOOLEAN :
        chat' = [NoChat EXCEPT !.pc = "post", !.turn = t, !.video = video,
                               !.auto = on, !.active = first]
  BY Zenon DEF Request, Moves
<1>2. chat.turn \in Nat /\ Len(history) \in Nat /\ t \in Nat /\ t >= 1
  BY DEF IInv, Typed, Chats
<1> DEFINE d == [NoChat EXCEPT !.pc = "post", !.turn = t, !.video = video,
                               !.auto = on, !.active = first]
<1> HIDE DEF t, on, first
<1>3. /\ d.pc = "post" /\ d.turn = t /\ d.text = {} /\ d.completed = FALSE
      /\ d.active = first /\ d.latest = 0
  BY DEF NoChat
<1>4. first => t = 1
  BY <1>2 DEF first, t
<1> HIDE DEF d
<1>5. Reads(d, history) /\ Staged(d)
  BY <1>2, <1>3, <1>4 DEF Reads, Staged
<1>6. InTurns(history, t)
  <2>1. \A i \in 1..Len(history) : history[i].turn \in 1..t
    BY <1>2 DEF TurnInv, InTurns, t
  <2> QED BY <2>1 DEF TurnInv, InTurns
<1>7. serving' = 0 /\ UNCHANGED history /\ chat' = d
  BY <1>1 DEF Request, d
<1> QED BY <1>3, <1>5, <1>6, <1>7 DEF TurnInv

LEMMA AcknowledgedInTurn == ASSUME IInv, TurnInv, Acknowledged PROVE TurnInv'
<1>1. /\ chat \in Chats /\ history \in Seq(Events) /\ chat.pc = "post"
      /\ chat.turn \in Nat /\ chat.turn >= 1 /\ ~chat.completed
  BY DEF IInv, Typed, Chats, TurnInv, Staged, Acknowledged, At
<1> DEFINE e == Event("user", chat.turn, {})
           n == Len(history)
<1>2. e \in Events /\ e.turn = chat.turn
  BY <1>1 DEF Event, Events
<1>3. history' = Append(history, e) /\ serving' = chat.turn
  BY DEF Acknowledged
<1>4. InTurns(history', chat.turn) /\ Reads(chat, history')
  BY <1>1, <1>2, <1>3, SaysMore DEF TurnInv
<1>5. \/ chat' = [chat EXCEPT !.pc = "stream", !.seen = n]
      \/ chat' = [chat EXCEPT !.pc = "stream", !.subscribed = TRUE]
  BY DEF Acknowledged, Moves
<1> HIDE DEF n
<1>6. /\ chat'.turn = chat.turn /\ chat'.text = chat.text /\ chat'.completed = chat.completed
      /\ chat'.active = chat.active /\ chat'.latest = chat.latest /\ chat'.pc = "stream"
  BY <1>1, <1>5 DEF Chats
<1>7. Reads(chat', history')
  BY <1>4, <1>6, ReadsSame
<1>8. Staged(chat')
  BY <1>1, <1>6 DEF Staged
<1> QED BY <1>3, <1>4, <1>6, <1>7, <1>8 DEF TurnInv

LEMMA PlainInTurn ==
    ASSUME IInv, TurnInv, Subscribe \/ Answer \/ AwaitEnds PROVE TurnInv'
<1>1. chat \in Chats /\ Len(history) \in Nat /\ UNCHANGED <<history, serving>>
  BY DEF IInv, Typed, Subscribe, Answer, AwaitEnds
<1>2. CASE Subscribe
  <2>1. chat' = [chat EXCEPT !.subscribed = TRUE, !.seen = 0] /\ chat.pc = "stream"
    BY <1>2 DEF Subscribe, Moves, At
  <2>2. /\ chat'.turn = chat.turn /\ chat'.text = chat.text /\ chat'.completed = chat.completed
        /\ chat'.active = chat.active /\ chat'.latest = chat.latest /\ chat'.pc = "stream"
    BY <1>1, <2>1 DEF Chats
  <2> QED BY <1>1, <2>1, <2>2, ReadsSame, ChatGoesOn DEF TurnInv, Staged
<1>3. CASE chat' = [chat EXCEPT !.pc = "retain"] /\ chat.pc \in {"answer", "await"}
  <2>1. /\ chat'.turn = chat.turn /\ chat'.text = chat.text /\ chat'.completed = chat.completed
        /\ chat'.active = chat.active /\ chat'.latest = chat.latest /\ chat'.pc = "retain"
    BY <1>1, <1>3 DEF Chats
  <2> QED BY <1>1, <1>3, <2>1, ReadsSame, ChatGoesOn DEF TurnInv, Staged
<1>4. CASE /\ chat' = [chat EXCEPT !.pc = "await", !.approved = {}, !.decided = 0,
                                   !.latest = 0, !.subscribed = TRUE]
           /\ chat.pc = "answer"
  <2>1. /\ chat'.turn = chat.turn /\ chat'.text = chat.text /\ chat'.completed = chat.completed
        /\ chat'.active = chat.active /\ chat'.latest = 0 /\ chat'.pc = "await"
    BY <1>1, <1>4 DEF Chats
  <2>2. chat.completed /\ chat.turn >= 1
    BY <1>4 DEF TurnInv, Staged
  <2>3. Reads(chat', history) /\ Staged(chat')
    BY <1>1, <2>1, <2>2 DEF Reads, Staged, TurnInv
  <2> QED BY <1>1, <2>1, <2>3, ChatGoesOn
<1> QED BY <1>2, <1>3, <1>4 DEF Answer, AwaitEnds, Moves, At

LEMMA EndInTurn == ASSUME IInv, TurnInv, Retain \/ Closed PROVE TurnInv'
<1> DEFINE t == chat.turn
           x == chat.text
           g == chat.granted
           d == [NoChat EXCEPT !.pc = "answered", !.turn = t, !.text = x,
                                !.completed = TRUE, !.granted = g]
           i == [NoChat EXCEPT !.turn = t]
<1>1. /\ Len(history) \in Nat /\ UNCHANGED <<history, serving>>
      /\ x \subseteq {t}
  BY DEF IInv, Typed, Retain, Closed, TurnInv, Reads
<1>2. \/ chat' = d /\ chat.pc = "retain"
      \/ chat' = i
  BY DEF Retain, Closed, Moves, At
<1>3. chat.pc = "retain" => chat.completed /\ t >= 1
  BY DEF TurnInv, Staged
<1>4. /\ d.turn = t /\ d.text = x /\ d.completed = TRUE /\ d.active = FALSE
      /\ d.latest = 0 /\ d.pc = "answered"
      /\ i.turn = t /\ i.text = {} /\ i.completed = FALSE /\ i.active = FALSE
      /\ i.latest = 0 /\ i.pc = "idle"
  BY DEF NoChat
<1> HIDE DEF d, i
<1>5. Reads(i, history) /\ Staged(i)
  BY <1>1, <1>4 DEF Reads, Staged
<1>6. chat.pc = "retain" => Reads(d, history) /\ Staged(d)
  BY <1>1, <1>3, <1>4 DEF Reads, Staged, TurnInv
<1> QED BY <1>1, <1>2, <1>4, <1>5, <1>6, ChatGoesOn

LEMMA ReceiveInTurn == ASSUME PromptsApart, IInv, TurnInv, Receive PROVE TurnInv'
<1>1. PICK i \in 1..Len(history) :
        LET c == Recorded([chat EXCEPT !.seen = Later(@, i)], i, history[i])
        IN  chat' = [c EXCEPT !.pc = IF c.completed THEN "answer" ELSE @]
  BY Zenon DEF Receive, Moves
<1> DEFINE b == [chat EXCEPT !.seen = Later(@, i)]
           c == Recorded(b, i, history[i])
<1>2. /\ i \in Nat /\ history[i] \in Events /\ chat \in Chats /\ chat.pc = "stream"
      /\ history \in Seq(Events) /\ ~chat.completed /\ chat.turn >= 1
      /\ UNCHANGED <<history, serving>>
  BY DEF IInv, Typed, Receive, At, TurnInv, Staged
<1>3. /\ b \in Chats /\ b.pc = "stream" /\ b.turn = chat.turn /\ b.text = chat.text
      /\ b.completed = chat.completed /\ b.active = chat.active /\ b.latest = chat.latest
  BY <1>2, SeenTyped DEF Chats
<1> HIDE DEF b
<1>4. Reads(b, history) /\ InTurns(history, b.turn)
  BY <1>3, ReadsSame DEF TurnInv
<1>5. c \in Chats
  BY <1>2, <1>3, RecordedTyped
<1>6. Reads(c, history) /\ c.turn = b.turn /\ c.pc \in {"stream", "list", "refused"}
  BY <1>2, <1>3, <1>4, RecordedRead
<1> DEFINE l == IF c.completed THEN "answer" ELSE c.pc
<1>7. chat' = [c EXCEPT !.pc = l]
  BY <1>1 DEF b
<1> HIDE DEF c
<1>8. /\ l \in {"answer", "stream", "list", "refused"} /\ (l = "answer" <=> c.completed)
  BY <1>6
<1> HIDE DEF l
<1>9. /\ chat'.turn = c.turn /\ chat'.text = c.text /\ chat'.completed = c.completed
      /\ chat'.active = c.active /\ chat'.latest = c.latest /\ chat'.pc = l
  BY <1>5, <1>7 DEF Chats
<1>10. Reads(chat', history)
  BY <1>6, <1>9, ReadsSame
<1>11. Staged(chat')
  BY <1>2, <1>3, <1>6, <1>8, <1>9 DEF Staged
<1> QED BY <1>2, <1>3, <1>6, <1>9, <1>10, <1>11, ChatGoesOn

LEMMA AwaitReceiveInTurn == ASSUME PromptsApart, IInv, TurnInv, AwaitReceive PROVE TurnInv'
<1>1. PICK i \in 1..Len(history) :
        LET e == history[i]
            c == [chat EXCEPT !.seen = Later(@, i)]
        IN  chat' = CASE e.kind = "user" -> UserMessage(c, i, e)
                      [] e.kind = "snapshot" /\ Applicable(c, i) -> Snapshot(c, e)
                      [] e.kind = "artifact" /\ Applicable(c, i) -> [c EXCEPT !.pc = "retain"]
                      [] OTHER -> c
  BY Zenon DEF AwaitReceive, Moves
<1> DEFINE c == [chat EXCEPT !.seen = Later(@, i)]
           e == history[i]
           p == [c EXCEPT !.pc = "retain"]
<1>2. /\ i \in Nat /\ e \in Events /\ chat \in Chats /\ chat.pc = "await"
      /\ history \in Seq(Events) /\ chat.completed /\ chat.turn >= 1
      /\ UNCHANGED <<history, serving>>
  BY DEF IInv, Typed, AwaitReceive, At, TurnInv, Staged
<1>3. /\ c \in Chats /\ c.pc = "await" /\ c.turn = chat.turn /\ c.text = chat.text
      /\ c.completed = chat.completed /\ c.active = chat.active /\ c.latest = chat.latest
  BY <1>2, SeenTyped DEF Chats
<1>4. chat' \in {UserMessage(c, i, e), Snapshot(c, e), p, c}
  BY <1>1, Zenon
<1> HIDE DEF c
<1>5. Reads(c, history) /\ InTurns(history, c.turn)
  BY <1>3, ReadsSame DEF TurnInv
<1>6. /\ p.turn = c.turn /\ p.text = c.text /\ p.completed = c.completed
      /\ p.active = c.active /\ p.latest = c.latest /\ p.pc = "retain"
  BY <1>3 DEF Chats
<1>7. Reads(p, history)
  BY <1>5, <1>6, ReadsSame
<1>8. /\ Reads(UserMessage(c, i, e), history)
      /\ UserMessage(c, i, e).turn = c.turn /\ UserMessage(c, i, e).completed = c.completed
      /\ UserMessage(c, i, e).pc = c.pc
  BY <1>2, <1>3, <1>5, MessageRead, UserMessageTyped
<1>9. /\ Reads(Snapshot(c, e), history)
      /\ Snapshot(c, e).turn = c.turn /\ Snapshot(c, e).completed = c.completed
      /\ Snapshot(c, e).pc \in {c.pc, "list", "refused"}
  BY <1>2, <1>3, <1>5, SnapshotRead
<1> HIDE DEF p
<1>10. /\ Reads(chat', history) /\ chat'.turn = chat.turn /\ chat'.completed
       /\ chat'.pc \in {"await", "list", "refused", "retain"}
  BY <1>2, <1>3, <1>4, <1>5, <1>6, <1>7, <1>8, <1>9, Zenon
<1>11. Staged(chat')
  BY <1>2, <1>10 DEF Staged
<1> QED BY <1>2, <1>10, <1>11, ChatGoesOn

LEMMA CoordinatorInTurn == ASSUME IInv, TurnInv, List \/ Decide \/ Verify PROVE TurnInv'
<1>1. chat \in Chats /\ chat.turn >= 1 /\ UNCHANGED <<history, serving>>
  BY DEF IInv, Typed, TurnInv, Staged, List, Decide, Verify, At
<1>2. CASE Fails
  BY <1>1, <1>2, FailsInTurn DEF List, Decide, Verify, At
<1> DEFINE p == Returns(chat)
           a == chat.approved \cup {chat.at}
           n == chat.decided + 1
           g == IF sentinel[chat.at] = "pending" THEN chat.granted \cup {chat.at}
                ELSE chat.granted
<1>3. \/ Fails
      \/ chat' = [chat EXCEPT !.pc = "decide"]
      \/ chat' = [chat EXCEPT !.pc = "verify", !.granted = g]
      \/ chat' = [chat EXCEPT !.pc = p, !.approved = a, !.decided = n, !.at = NoApproval]
  BY Zenon DEF List, Decide, Verify, Moves
<1>4. /\ p \in {"await", "stream"} /\ (p = "await" <=> chat.completed)
  BY DEF Returns
<1> HIDE DEF p, a, n, g
<1>5. ASSUME ~Fails
      PROVE  /\ chat'.turn = chat.turn /\ chat'.text = chat.text
             /\ chat'.completed = chat.completed /\ chat'.active = chat.active
             /\ chat'.latest = chat.latest /\ chat'.pc \in {"decide", "verify", p}
  BY <1>1, <1>3, <1>5 DEF Chats
<1>6. ASSUME ~Fails PROVE Reads(chat', history) /\ Staged(chat')
  BY <1>1, <1>4, <1>5, <1>6, ReadsSame DEF Staged, TurnInv
<1> QED BY <1>1, <1>2, <1>5, <1>6, ChatGoesOn

LEMMA VMInTurn ==
    ASSUME IInv, TurnInv, Speaks \/ Asks \/ Finishes \/ Presents \/ GivesUp PROVE TurnInv'
<1>1. /\ UNCHANGED chat /\ serving \in {0, chat.turn} /\ chat.turn \in Nat
      /\ serving' \in {0, serving}
  BY DEF Speaks, Asks, Finishes, Presents, GivesUp, IInv, Typed, Chats, TurnInv
<1>2. CASE GivesUp
  BY <1>1, <1>2 DEF GivesUp, TurnInv
<1>3. ASSUME NEW kind \in {"text", "snapshot", "done", "artifact"}, NEW asks \in SUBSET Approvals,
             chat.turn # 0, Emits(Event(kind, chat.turn, asks))
      PROVE  TurnInv'
  <2>1. Event(kind, chat.turn, asks) \in Events /\ Event(kind, chat.turn, asks).turn = chat.turn
    BY <1>1 DEF Event, Events
  <2> QED BY <1>1, <1>3, <2>1, VMGoesOn DEF Emits
<1>4. CASE Speaks \/ Asks \/ Finishes
  <2>1. serving = chat.turn /\ chat.turn # 0
    BY <1>1, <1>4 DEF Speaks, Asks, Finishes
  <2>2. \/ Emits(Event("text", chat.turn, {})) \/ Emits(Event("done", chat.turn, {}))
        \/ Emits(Event("snapshot", chat.turn, {a \in Approvals : sentinel'[a] = "pending"}))
    BY <1>4, <2>1 DEF Speaks, Asks, Finishes
  <2> QED BY <1>3, <2>1, <2>2
<1>5. CASE Presents
  <2>1. chat.turn # 0
    BY <1>5 DEF Presents
  <2>2. \/ Emits(Event("artifact", chat.turn, {}))
        \/ Emits(Event("snapshot", chat.turn, {a \in Approvals : sentinel'[a] = "pending"}))
    BY <1>5 DEF Presents
  <2> QED BY <1>3, <2>1, <2>2
<1> QED BY <1>2, <1>4, <1>5

LEMMA NextInTurn == PromptsApart /\ IInv /\ TurnInv /\ [Next]_vars => TurnInv'
<1> SUFFICES ASSUME PromptsApart, IInv, TurnInv, [Next]_vars PROVE TurnInv'
  OBVIOUS
<1>1. CASE UNCHANGED vars \/ DecidedElsewhere \/ RollBack
  BY <1>1 DEF vars, DecidedElsewhere, RollBack, TurnInv
<1>2. CASE Breaks \/ Refused
  BY <1>2, FailsInTurn DEF Breaks, Refused, At
<1>3. CASE ChatStep
  BY <1>2, <1>3, RequestInTurn, AcknowledgedInTurn, PlainInTurn, EndInTurn, ReceiveInTurn,
     AwaitReceiveInTurn, CoordinatorInTurn DEF ChatStep
<1> QED BY <1>1, <1>3, VMInTurn DEF Next

\* AnswersThisTurn: when no two prompts of the thread match, a completed answer
\* is the whole of its own turn and nothing of another's, for any number of
\* turns and events, although a stream replays the thread from its first event
\* and may deliver any of them again (MuseChatStream::record).
THEOREM AnswersOwnTurn == ASSUME PromptsApart PROVE Spec => []AnswersThisTurn
<1>1. TurnInv => AnswersThisTurn
  BY DEF TurnInv, Reads, AnswersThisTurn
<1> QED BY <1>1, InitInv, NextInv, TurnInit, NextInTurn, PTL DEF Spec

-----------------------------------------------------------------------------
(* Video jobs. *)

Threads == [pc : ReqStates, kind : {"none", "create", "revise", "poll", "edit"},
            id : Ids \cup {"none"}, key : Keys \cup {NoKey}, old : Ids \cup {"none"},
            copy : Records \cup {NoFile}, outcome : Outcomes, since : Nat]

VideoTyped ==
    /\ files \in [Ids -> Records \cup {NoFile}]
    /\ lock \in Requests \cup {Free}
    /\ req \in [Requests -> Threads]
    /\ \A v \in victims : v \in Ids \X Nat /\ used[v[1]] # {}
    /\ used \in [Ids -> SUBSET (Keys \cup {NoKey})]
    /\ now \in Nat

\* Ids of which nothing is promised.
Spoiled == twice \cup reaped

\* What a request keeps from one step to the next.
ThreadOK(r, q) ==
    /\ q.pc = "idle" => q = Idle
    /\ q.pc # "idle" => q.id \in Ids
    /\ q.pc \notin {"idle", "reserving"} => used[q.id] # {}
    /\ Submitted(q) => q.key \in used[q.id]
    /\ q.copy # NoFile => q.copy.key \in used[q.id]
    /\ q.pc \in {"reserving", "loaded"} => lock = r
    /\ q.pc = "reserving" => q.kind = "create"
    /\ q.pc = "late" => /\ q.kind # "create" /\ q.copy # NoFile
                        /\ q.copy.status = "submission_unknown" /\ q.copy.revisions = 0
    /\ q.pc \in {"upstream", "answered"} => q.kind \in {"create", "revise"}
    /\ q.pc = "loaded" => q.kind \in {"create", "revise", "edit"}
    /\ q.pc = "loaded" /\ q.copy = NoFile => q.kind = "create"
    /\ q.copy # NoFile => q.pc \in {"late", "loaded"}
    /\ q.copy # NoFile /\ q.copy.status = "submitting" => q.copy.revisions = 0
    /\ q.pc # "upstream" => q.since = 0
    /\ q.since <= now

FileOK(j) ==
    files[j] # NoFile =>
        /\ files[j].key \in used[j]
        /\ files[j].status = "submitting" => files[j].revisions = 0

\* Record x is one q may have: it carries the key of q, and it is too young
\* to be listed before q is answered by a cycle with more than RunLimit.
Fits(q, x) ==
    /\ x.key = q.key
    /\ x.status # "failed"
    /\ q.since <= x.active
    /\ now <= x.active + RunLimit

\* The job q creates is nobody else's, and has its record.
OwnedBy(r) ==
    /\ \A v \in victims : v[1] = req[r].id => v[2] <= RunLimit
    /\ req[r].pc = "upstream" => now <= req[r].since + RunLimit
    /\ files[req[r].id] # NoFile /\ Fits(req[r], files[req[r].id])
    /\ \A s \in Requests :
        req[s].id = req[r].id =>
            /\ req[s].copy # NoFile => Fits(req[r], req[s].copy)
            /\ Submitted(req[s]) => s = r

Owned == \A r \in Requests : Submitted(req[r]) /\ req[r].id \notin Spoiled => OwnedBy(r)

\* A failed record under a key.
FailedFile(j, k) == files[j] # NoFile /\ files[j].status = "failed" /\ files[j].key = k
FailedCopy(q, k) == q.pc = "loaded" /\ q.kind = "edit"
                       /\ q.copy.status = "failed" /\ q.copy.key = k

\* One submission at a time under a key: another begins when the last has
\* failed, and takes its record away.
OneUnder(k) ==
    /\ \A i, j \in Ids : FailedFile(i, k) /\ FailedFile(j, k) => i = j
    /\ \A s \in Requests : FailedCopy(req[s], k) =>
           \A j \in Ids : FailedFile(j, k) => j = req[s].id
    /\ \A r \in Requests : Submitted(req[r]) /\ req[r].key = k =>
           /\ \A j \in Ids : ~FailedFile(j, k)
           /\ \A s \in Requests :
                /\ ~FailedCopy(req[s], k)
                /\ Submitted(req[s]) /\ req[s].key = k => s = r
                /\ req[s].pc = "reserving" => req[s].key # k
    /\ \A r \in Requests : req[r].pc = "reserving" /\ req[r].key = k =>
           \A j \in Ids : FailedFile(j, k) => j = req[r].old

OnePerKey == \A k \in Keys \ {NoKey} : ~Disturbed(k) => OneUnder(k)

\* What a reservation takes away is nobody's.
OldIsDone ==
    \A r, s \in Requests :
        req[r].pc = "reserving" /\ Submitted(req[s]) /\ req[s].id \notin Spoiled
            => req[r].old # req[s].id

\* Only a locked update writes revisions.
RevisionsCounted ==
    \A r \in Requests :
        req[r].pc = "loaded" /\ files[req[r].id] # NoFile
            => files[req[r].id].revisions <=
                  (IF req[r].copy = NoFile THEN 0 ELSE req[r].copy.revisions)

VideoInv ==
    /\ VideoTyped
    /\ \A r \in Requests : ThreadOK(r, req[r])
    /\ \A j \in Ids : FileOK(j)
    /\ Owned
    /\ OnePerKey
    /\ OldIsDone
    /\ RevisionsCounted

-----------------------------------------------------------------------------
LEMMA IdleIsThread == Idle \in Threads
BY DEF Idle, Threads, ReqStates, Outcomes

LEMMA VideoInitKeeps == VideoInit => VideoInv
<1> SUFFICES ASSUME VideoInit PROVE VideoInv
  OBVIOUS
<1>1. VideoTyped
  BY IdleIsThread DEF VideoInit, VideoTyped
<1>2. \A r \in Requests : ThreadOK(r, req[r]) /\ ~Submitted(req[r])
                            /\ req[r].pc = "idle" /\ ~FailedCopy(req[r], req[r].key)
  BY DEF VideoInit, ThreadOK, Idle, Submitted, FailedCopy
<1>3. \A j \in Ids : files[j] = NoFile
  BY DEF VideoInit
<1> QED
  BY <1>1, <1>2, <1>3 DEF VideoInv, FileOK, Owned, OnePerKey, OldIsDone, OneUnder,
     RevisionsCounted, FailedFile, FailedCopy

\* The jobs of a key that is not disturbed are not spoiled.
LEMMA UnderKey ==
    ASSUME VideoTyped, NEW k, ~Disturbed(k), NEW j \in Ids, k \in used[j]
    PROVE  j \notin Spoiled
BY DEF Disturbed, Spoiled

\* A step of r that leaves the files alone and takes no lock: r answers, loads
\* without the lock, or hears from upstream.
LEMMA QuietStep ==
    ASSUME VideoInv, NEW r \in Requests, NEW q \in Threads, Becomes(r, q),
           UNCHANGED <<files, victims, now, lock, used, twice, reaped>>,
           ThreadOK(r, q)', q.pc \notin {"reserving", "loaded"},
           req[r].pc \notin {"reserving", "loaded"},
           Submitted(q) => /\ Submitted(req[r])
                           /\ q.id = req[r].id /\ q.key = req[r].key
                           /\ q.since <= req[r].since
                           /\ q.pc = "upstream" => FALSE,
           q.copy # NoFile => \A s \in Requests :
               Submitted(req[s]) /\ req[s].id = q.id /\ q.id \notin Spoiled
                   => Fits(req[s], q.copy)
    PROVE  VideoInv'
<1>1. /\ req' = [req EXCEPT ![r] = q]
      /\ req'[r] = q
      /\ \A s \in Requests \ {r} : req'[s] = req[s]
      /\ Spoiled' = Spoiled
  BY DEF Becomes, VideoInv, VideoTyped, Spoiled
<1>2. VideoTyped'
  BY <1>1 DEF VideoInv, VideoTyped
<1>3. \A s \in Requests : ThreadOK(s, req[s])'
  <2> SUFFICES ASSUME NEW s \in Requests PROVE ThreadOK(s, req[s])'
    OBVIOUS
  <2>1. CASE s = r
    BY <2>1, <1>1 DEF ThreadOK
  <2>2. CASE s # r
    BY <2>2, <1>1 DEF ThreadOK, VideoInv
  <2> QED BY <2>1, <2>2
<1>4. \A j \in Ids : FileOK(j)'
  BY DEF VideoInv, FileOK
<1>6. Owned'
  <2> SUFFICES ASSUME NEW s \in Requests, Submitted(req'[s]), req'[s].id \notin Spoiled
               PROVE  OwnedBy(s)'
    BY <1>1 DEF Owned
  <2>1. /\ Submitted(req[s]) /\ req'[s].id = req[s].id /\ req'[s].key = req[s].key
        /\ req'[s].since <= req[s].since
        /\ req'[s].pc = "upstream" => req'[s] = req[s]
    BY <1>1 DEF VideoInv, VideoTyped, Threads
  <2>2. \A x \in Records : Fits(req[s], x) => Fits(req'[s], x)
    BY <2>1, <1>1 DEF Fits, VideoInv, VideoTyped, Threads, Records
  <2>3. /\ \A v \in victims : v[1] = req[s].id => v[2] <= RunLimit
        /\ req[s].pc = "upstream" => now <= req[s].since + RunLimit
        /\ files[req[s].id] # NoFile /\ Fits(req[s], files[req[s].id])
        /\ files[req[s].id] \in Records
    BY <2>1 DEF VideoInv, Owned, OwnedBy, ThreadOK, VideoTyped, Submitted
  <2>4. ASSUME NEW t \in Requests, req'[t].id = req'[s].id
        PROVE  /\ req'[t].copy # NoFile => Fits(req'[s], req'[t].copy)
               /\ Submitted(req'[t]) => t = s
    <3>1. CASE t = r
      BY <3>1, <2>1, <2>2, <2>4, <1>1 DEF VideoInv, Owned, OwnedBy, Threads
    <3>2. CASE t # r
      BY <3>2, <2>1, <2>2, <2>4, <1>1 DEF VideoInv, Owned, OwnedBy, Threads, VideoTyped
    <3> QED BY <3>1, <3>2
  <2>5. \A t \in Requests : req'[t].id = req'[s].id /\ req'[t].copy # NoFile
             => Fits(req[s], req[t].copy)'
    BY <2>4 DEF Fits
  <2>6. files'[req'[s].id] # NoFile /\ Fits(req[s], files[req[s].id])'
    BY <2>1, <2>2, <2>3 DEF Fits
  <2> QED BY <2>1, <2>3, <2>4, <2>5, <2>6 DEF OwnedBy
<1>7. OnePerKey'
  <2>1. \A s \in Requests, k \in Keys :
            /\ Submitted(req'[s]) /\ req'[s].key = k => Submitted(req[s]) /\ req[s].key = k
            /\ FailedCopy(req'[s], k) => req'[s] = req[s]
            /\ req'[s].pc = "reserving" => req'[s] = req[s]
    BY <1>1 DEF Submitted, FailedCopy
  <2>2. \A j \in Ids, k \in Keys : FailedFile(j, k)' <=> FailedFile(j, k)
    BY DEF FailedFile
  <2> SUFFICES ASSUME NEW k \in Keys \ {NoKey}, ~Disturbed(k) PROVE OneUnder(k)'
    BY DEF OnePerKey, Disturbed
  <2>3. OneUnder(k)
    BY DEF VideoInv, OnePerKey
  <2> QED BY <2>1, <2>2, <2>3 DEF OneUnder
<1>8. OldIsDone'
  BY <1>1 DEF VideoInv, OldIsDone, Submitted
<1>9. RevisionsCounted'
  BY <1>1 DEF VideoInv, RevisionsCounted
<1> QED BY <1>2, <1>3, <1>4, <1>6, <1>7, <1>8, <1>9 DEF VideoInv

\* What an update of a record starts from and arrives at.
LEMMA RecoveredRecord ==
    ASSUME NEW x \in Records, now \in Nat
    PROVE  /\ Recovered(x) \in Records
           /\ Recovered(x).key = x.key /\ Recovered(x).revisions = x.revisions
           /\ Recovered(x) # x => /\ Recovered(x).status = "submission_unknown"
                                  /\ Recovered(x).active = now
                                  /\ x.status = "submitting"
BY DEF Recovered, Stale, Records, Statuses

LEMMA SubmittingRecord ==
    ASSUME NEW k \in Keys \cup {NoKey}, now \in Nat
    PROVE  /\ Submitting(k) \in Records
           /\ Submitting(k).key = k /\ Submitting(k).revisions = 0
           /\ Submitting(k).status = "submitting" /\ Submitting(k).active = now
BY DEF Submitting, Records, Statuses

\* A record x that is given status st and n revisions now.
ClosedAs(x, st, n) == [x EXCEPT !.status = st, !.revisions = n, !.checked = 0, !.active = now]

LEMMA ClosedRecord ==
    ASSUME NEW x \in Records, NEW st \in Statuses, NEW n \in Nat, now \in Nat
    PROVE  /\ ClosedAs(x, st, n) \in Records
           /\ ClosedAs(x, st, n).key = x.key /\ ClosedAs(x, st, n).active = now
           /\ ClosedAs(x, st, n).revisions = n /\ ClosedAs(x, st, n).status = st
BY DEF ClosedAs, Records

LEMMA UpdatedRecord ==
    ASSUME NEW q \in Threads, q.copy # NoFile, q.kind \in {"create", "revise", "edit"},
           q.copy.status = "submitting" => q.copy.revisions = 0, now \in Nat
    PROVE  /\ Updated(q) \in Records
           /\ Updated(q).key = q.copy.key /\ Updated(q).active = now
           /\ q.copy.revisions <= Updated(q).revisions
           /\ Updated(q).status = "submitting" => Updated(q).revisions = 0
           /\ Updated(q).status = "failed" =>
                q.kind = "create" \/ (q.kind = "edit" /\ q.copy.status = "failed")
<1>0. /\ q.copy \in Records /\ q.copy.revisions \in Nat /\ q.copy.status \in Statuses
      /\ q.copy.revisions + 1 \in Nat
  BY DEF Threads, Records
<1>1. CASE q.kind = "create"
  <2>1. StatusAfter(q.outcome) \in Statuses /\ StatusAfter(q.outcome) # "submitting"
    BY DEF StatusAfter, Statuses
  <2>2. Updated(q) = ClosedAs(q.copy, StatusAfter(q.outcome), q.copy.revisions)
    BY <1>0, <1>1 DEF Updated, ClosedAs, Records
  <2> DEFINE u == ClosedAs(q.copy, StatusAfter(q.outcome), q.copy.revisions)
  <2>3. /\ u \in Records /\ u.key = q.copy.key /\ u.active = now
        /\ u.revisions = q.copy.revisions /\ u.status = StatusAfter(q.outcome)
    BY <1>0, <2>1, ClosedRecord, Z3
  <2> QED BY <1>0, <1>1, <2>1, <2>2, <2>3
<1>2. CASE q.kind = "revise"
  <2>1. Updated(q) = ClosedAs(q.copy, "artifact_reported", q.copy.revisions + 1)
    BY <1>0, <1>2 DEF Updated, ClosedAs, Records
  <2>2. "artifact_reported" \in Statuses
    BY DEF Statuses
  <2> DEFINE u == ClosedAs(q.copy, "artifact_reported", q.copy.revisions + 1)
  <2>3. /\ u \in Records /\ u.key = q.copy.key /\ u.active = now
        /\ u.revisions = q.copy.revisions + 1 /\ u.status = "artifact_reported"
    BY <1>0, <2>2, ClosedRecord, Z3
  <2> QED BY <1>0, <1>2, <2>1, <2>3
<1>3. CASE q.kind = "edit"
  <2>1. Updated(q) = [q.copy EXCEPT !.active = now]
    BY <1>3 DEF Updated
  <2> QED BY <1>3, <2>1 DEF Records, Threads
<1> QED BY <1>1, <1>2, <1>3

-----------------------------------------------------------------------------
LEMMA ReservesKeeps ==
    ASSUME VideoInv, NEW r \in Requests, NEW key \in Keys,
           NEW old \in Ids \cup {"none"}, NEW q \in Threads,
           q.pc = "reserving", q.kind = "create", q.id \in Ids, q.key = key,
           q.old = old, q.copy = NoFile, q.since = 0,
           req[r].pc = "idle", lock = Free, Becomes(r, q), lock' = r,
           UNCHANGED <<files, victims, now, used, twice, reaped>>,
           key # NoKey /\ ~Disturbed(key) =>
               /\ \A s \in Requests : Submitted(req[s]) => req[s].key # key
               /\ \A j \in Ids : FailedFile(j, key) => j = old,
           \A s \in Requests :
               Submitted(req[s]) /\ req[s].id \notin Spoiled => req[s].id # old
    PROVE  VideoInv'
<1>1. /\ req' = [req EXCEPT ![r] = q]
      /\ req'[r] = q
      /\ \A s \in Requests \ {r} : req'[s] = req[s]
      /\ \A s \in Requests : req[s].pc \notin {"reserving", "loaded"}
      /\ Spoiled' = Spoiled
  BY VideoAssumption DEF Becomes, VideoInv, VideoTyped, ThreadOK, Spoiled
<1>2. VideoTyped'
  BY <1>1 DEF VideoInv, VideoTyped
<1>3. \A s \in Requests : ThreadOK(s, req[s])'
  <2> SUFFICES ASSUME NEW s \in Requests PROVE ThreadOK(s, req[s])'
    OBVIOUS
  <2>1. CASE s = r
    BY <2>1, <1>1 DEF ThreadOK, VideoInv, VideoTyped, Submitted
  <2>2. CASE s # r
    BY <2>2, <1>1 DEF ThreadOK, VideoInv
  <2> QED BY <2>1, <2>2
<1>4. \A j \in Ids : FileOK(j)'
  BY DEF VideoInv, FileOK
<1>5. \A s \in Requests : Submitted(req'[s]) => Submitted(req[s]) /\ req'[s] = req[s] /\ s # r
  BY <1>1 DEF Submitted
<1>6. Owned'
  BY <1>1, <1>5 DEF VideoInv, Owned, OwnedBy, Fits
<1>7. OnePerKey'
  <2>1. \A j \in Ids, k \in Keys : FailedFile(j, k)' <=> FailedFile(j, k)
    BY DEF FailedFile
  <2>2. \A s \in Requests, k \in Keys :
            /\ ~FailedCopy(req'[s], k)
            /\ req'[s].pc = "reserving" => s = r
    BY <1>1 DEF FailedCopy
  <2> SUFFICES ASSUME NEW k \in Keys \ {NoKey}, ~Disturbed(k) PROVE OneUnder(k)'
    BY DEF OnePerKey, Disturbed
  <2>3. OneUnder(k)
    BY DEF VideoInv, OnePerKey
  <2> QED BY <1>1, <1>5, <2>1, <2>2, <2>3 DEF OneUnder
<1>8. OldIsDone'
  BY <1>1, <1>5 DEF VideoInv, OldIsDone
<1>9. RevisionsCounted'
  BY <1>1 DEF VideoInv, RevisionsCounted
<1> QED BY <1>2, <1>3, <1>4, <1>6, <1>7, <1>8, <1>9 DEF VideoInv

\* A load without the lock that finds the record stale, for a poll or a revision.
LEMMA LateLoadKeeps ==
    ASSUME VideoInv, NEW r \in Requests, NEW j \in Ids, NEW q \in Threads,
           req[r].pc = "idle", files[j] # NoFile, Stale(files[j]),
           q.pc = "late", q.kind \in {"poll", "revise"}, q.id = j,
           q.copy = Recovered(files[j]), q.since = 0,
           Becomes(r, q), UNCHANGED <<files, victims, now, lock, used, twice, reaped>>
    PROVE  VideoInv'
<1>1. files[j] \in Records /\ now \in Nat /\ files[j].key \in used[j]
  BY DEF VideoInv, VideoTyped, FileOK
<1>2. /\ Recovered(files[j]) \in Records
      /\ Recovered(files[j]).status = "submission_unknown"
      /\ Recovered(files[j]).revisions = 0
      /\ Recovered(files[j]).active = now
      /\ Recovered(files[j]).key = files[j].key
  BY <1>1 DEF Recovered, Stale, VideoInv, FileOK, Records, Statuses
<1>4. ThreadOK(r, q)'
  BY <1>1, <1>2, VideoAssumption DEF ThreadOK, Submitted
<1>5. \A s \in Requests : Submitted(req[s]) /\ req[s].id = j /\ j \notin Spoiled
                              => Fits(req[s], q.copy)
  BY <1>1, <1>2, VideoAssumption DEF VideoInv, Owned, OwnedBy, Fits, VideoTyped, Threads, ThreadOK
<1> QED BY <1>1, <1>4, <1>5, QuietStep DEF Submitted

\* A request ends and leaves nothing behind.
LEMMA RestKeeps ==
    ASSUME VideoInv, NEW r \in Requests, req[r].pc \notin {"reserving", "loaded"},
           Becomes(r, Idle), UNCHANGED <<files, victims, now, lock, used, twice, reaped>>
    PROVE  VideoInv'
<1>1. /\ Idle.pc = "idle" /\ Idle.kind = "none" /\ Idle.copy = NoFile /\ Idle.since = 0
  BY DEF Idle
<1>2. ThreadOK(r, Idle)'
  BY <1>1 DEF ThreadOK, VideoInv, VideoTyped, Submitted
<1> QED BY <1>1, <1>2, QuietStep, IdleIsThread DEF Submitted

LEMMA ReserveScanKeeps ==
    ASSUME VideoInv, NEW r \in Requests, ReserveScan(r)
    PROVE  VideoInv'
<1>1. PICK id \in Ids, key \in Keys :
        LET same == {j \in Ids : key # NoKey /\ files[j] # NoFile /\ files[j].key = key}
            q == [Idle EXCEPT !.kind = "create", !.id = id, !.key = key]
        IN
        \/ /\ same = {}
           /\ Becomes(r, [q EXCEPT !.pc = "reserving"])
           /\ lock' = r
        \/ \E j \in same :
             IF Retryable(files[j])
             THEN /\ Becomes(r, [q EXCEPT !.pc = "reserving", !.old = j])
                  /\ lock' = r
             ELSE /\ Becomes(r, IF Stale(files[j])
                                THEN [Idle EXCEPT !.pc = "late", !.kind = "poll", !.id = j,
                                                  !.copy = Recovered(files[j])]
                                ELSE Idle)
                  /\ UNCHANGED lock
  BY DEF ReserveScan
<1> DEFINE same == {j \in Ids : key # NoKey /\ files[j] # NoFile /\ files[j].key = key}
<1>3. /\ req[r].pc = "idle" /\ lock = Free
      /\ UNCHANGED <<files, victims, now, used, twice, reaped>>
  BY <1>1 DEF ReserveScan, Arrives
<1>4. \A s \in Requests : Submitted(req[s]) =>
        /\ req[s].id \in Ids /\ req[s].key \in used[req[s].id]
        /\ req[s].id \notin Spoiled =>
              /\ files[req[s].id] # NoFile /\ files[req[s].id].key = req[s].key
              /\ files[req[s].id].status # "failed"
  BY DEF VideoInv, Owned, OwnedBy, Fits, ThreadOK, Submitted
<1>5. ASSUME NEW old \in Ids \cup {"none"}, NEW q,
             q = [Idle EXCEPT !.kind = "create", !.id = id, !.key = key],
             Becomes(r, [q EXCEPT !.pc = "reserving", !.old = old]), lock' = r,
             key # NoKey /\ ~Disturbed(key) =>
                 /\ \A s \in Requests : Submitted(req[s]) => req[s].key # key
                 /\ \A j \in Ids : FailedFile(j, key) => j = old,
             \A s \in Requests :
                 Submitted(req[s]) /\ req[s].id \notin Spoiled => req[s].id # old
      PROVE  VideoInv'
  <2> DEFINE n == [q EXCEPT !.pc = "reserving", !.old = old]
  <2>1. /\ n \in Threads /\ n.pc = "reserving" /\ n.kind = "create" /\ n.id \in Ids
        /\ n.key = key /\ n.old = old /\ n.copy = NoFile /\ n.since = 0
    BY <1>5 DEF Idle, Threads, ReqStates, Outcomes
  <2> QED BY <1>3, <1>5, <2>1, ReservesKeeps
<1>6. ASSUME same = {}, NEW q,
             q = [Idle EXCEPT !.kind = "create", !.id = id, !.key = key],
             Becomes(r, [q EXCEPT !.pc = "reserving"]), lock' = r
      PROVE  VideoInv'
  <2>1. key # NoKey /\ ~Disturbed(key) =>
            /\ \A s \in Requests : Submitted(req[s]) => req[s].key # key
            /\ \A j \in Ids : ~FailedFile(j, key)
    BY <1>4, <1>6, UnderKey DEF FailedFile, VideoInv
  <2>2. \A s \in Requests : Submitted(req[s]) => req[s].id # "none"
    BY <1>4, VideoAssumption
  <2> DEFINE n == [q EXCEPT !.pc = "reserving"]
  <2>3. /\ n \in Threads /\ n.pc = "reserving" /\ n.kind = "create" /\ n.id \in Ids
        /\ n.key = key /\ n.old = "none" /\ n.copy = NoFile /\ n.since = 0
    BY <1>6 DEF Idle, Threads, ReqStates, Outcomes
  <2> QED BY <1>3, <1>6, <2>1, <2>2, <2>3, ReservesKeeps
<1>7. ASSUME NEW j \in same, Retryable(files[j]), NEW q,
             q = [Idle EXCEPT !.kind = "create", !.id = id, !.key = key],
             Becomes(r, [q EXCEPT !.pc = "reserving", !.old = j]), lock' = r
      PROVE  VideoInv'
  <2>1. FailedFile(j, key)
    BY <1>7 DEF FailedFile, Retryable
  <2>2. key # NoKey /\ ~Disturbed(key) =>
            /\ \A s \in Requests : Submitted(req[s]) => req[s].key # key
            /\ \A i \in Ids : FailedFile(i, key) => i = j
    BY <2>1, <1>7 DEF VideoInv, OnePerKey, OneUnder
  <2>3. \A s \in Requests : Submitted(req[s]) /\ req[s].id \notin Spoiled => req[s].id # j
    BY <1>4, <2>1 DEF FailedFile
  <2> QED BY <1>5, <1>7, <2>2, <2>3
<1>8. ASSUME NEW j \in same, Stale(files[j]), UNCHANGED lock,
             Becomes(r, [Idle EXCEPT !.pc = "late", !.kind = "poll", !.id = j,
                                     !.copy = Recovered(files[j])])
      PROVE  VideoInv'
  <2> DEFINE n == [Idle EXCEPT !.pc = "late", !.kind = "poll", !.id = j,
                               !.copy = Recovered(files[j])]
  <2>1. /\ n \in Threads /\ n.pc = "late" /\ n.kind = "poll" /\ n.id = j
        /\ n.copy = Recovered(files[j]) /\ n.since = 0
    <3>1. Recovered(files[j]) \in Records
      BY <1>8, RecoveredRecord DEF VideoInv, VideoTyped
    <3> QED BY <3>1 DEF Idle, Threads, ReqStates, Outcomes
  <2> QED BY <1>3, <1>8, <2>1, LateLoadKeeps
<1>9. CASE Becomes(r, Idle) /\ UNCHANGED lock
  BY <1>3, <1>9, RestKeeps
<1> QED BY <1>1, <1>6, <1>7, <1>8, <1>9

LEMMA PollKeeps ==
    ASSUME VideoInv, NEW r \in Requests, Poll(r) PROVE VideoInv'
<1>1. PICK j \in Ids :
        /\ files[j] # NoFile /\ Stale(files[j])
        /\ Becomes(r, [Idle EXCEPT !.pc = "late", !.kind = "poll", !.id = j,
                                   !.copy = Recovered(files[j])])
  BY DEF Poll
<1>2. req[r].pc = "idle" /\ UNCHANGED <<files, victims, now, lock, used, twice, reaped>>
  BY DEF Poll, Arrives
<1> DEFINE n == [Idle EXCEPT !.pc = "late", !.kind = "poll", !.id = j,
                             !.copy = Recovered(files[j])]
<1>3. /\ n \in Threads /\ n.pc = "late" /\ n.kind = "poll" /\ n.id = j
      /\ n.copy = Recovered(files[j]) /\ n.since = 0
  <2>1. Recovered(files[j]) \in Records
    BY <1>1, RecoveredRecord DEF VideoInv, VideoTyped
  <2> QED BY <2>1 DEF Idle, Threads, ReqStates, Outcomes
<1> QED BY <1>1, <1>2, <1>3, LateLoadKeeps

\* A revision goes upstream.
LEMMA RevisionSent ==
    ASSUME VideoInv, NEW r \in Requests, NEW q \in Threads,
           req[r].pc = "idle", files[q.id] # NoFile, q.id \in Ids,
           q.pc = "upstream", q.kind = "revise", q.copy = NoFile, q.since = now,
           Becomes(r, q), UNCHANGED <<files, victims, now, lock, used, twice, reaped>>
    PROVE  VideoInv'
<1>1. ThreadOK(r, q)'
  BY DEF ThreadOK, VideoInv, FileOK, VideoTyped, Submitted
<1> QED BY <1>1, QuietStep DEF Submitted

LEMMA ReviseKeeps ==
    ASSUME VideoInv, NEW r \in Requests, Revise(r) PROVE VideoInv'
<1>1. PICK j \in Ids, key \in Keys :
        LET q == [Idle EXCEPT !.kind = "revise", !.id = j, !.key = key] IN
        /\ files[j] # NoFile
        /\ IF Stale(files[j])
           THEN Becomes(r, [q EXCEPT !.pc = "late", !.copy = Recovered(files[j])])
           ELSE Sends(r, q)
  BY DEF Revise
<1>2. /\ req[r].pc = "idle" /\ UNCHANGED <<files, victims, now, lock, used, twice, reaped>>
      /\ now \in Nat
  BY DEF Revise, Arrives, VideoInv, VideoTyped
<1> DEFINE q == [Idle EXCEPT !.kind = "revise", !.id = j, !.key = key]
           late == [q EXCEPT !.pc = "late", !.copy = Recovered(files[j])]
           sent == [q EXCEPT !.pc = "upstream", !.copy = NoFile, !.since = now]
<1>3. Recovered(files[j]) \in Records
  BY <1>1, <1>2, RecoveredRecord DEF VideoInv, VideoTyped
<1>4. /\ late \in Threads /\ late.pc = "late" /\ late.kind = "revise" /\ late.id = j
      /\ late.copy = Recovered(files[j]) /\ late.since = 0
  BY <1>3 DEF Idle, Threads, ReqStates, Outcomes
<1>5. /\ sent \in Threads /\ sent.pc = "upstream" /\ sent.kind = "revise" /\ sent.id = j
      /\ sent.copy = NoFile /\ sent.since = now
  BY <1>2 DEF Idle, Threads, ReqStates, Outcomes
<1>6. CASE Stale(files[j])
  <2>1. Becomes(r, late)
    BY <1>1, <1>6
  <2> HIDE DEF late
  <2> QED BY <1>1, <1>2, <1>4, <1>6, <2>1, LateLoadKeeps
<1>7. CASE ~Stale(files[j])
  <2>1. Becomes(r, sent)
    BY <1>1, <1>7 DEF Sends
  <2> HIDE DEF sent
  <2> QED BY <1>1, <1>2, <1>5, <2>1, RevisionSent
<1> QED BY <1>6, <1>7

LEMMA UpstreamAnswersKeeps ==
    ASSUME VideoInv, NEW r \in Requests, UpstreamAnswers(r) PROVE VideoInv'
<1>1. PICK outcome \in Outcomes \ {"none"} :
        Becomes(r, IF req[r].kind = "revise" /\ outcome # "artifact"
                   THEN Idle
                   ELSE [req[r] EXCEPT !.pc = "answered", !.outcome = outcome, !.since = 0])
  BY DEF UpstreamAnswers
<1>2. /\ req[r].pc = "upstream" /\ UNCHANGED <<files, victims, now, lock, used, twice, reaped>>
      /\ req[r] \in Threads
  BY DEF UpstreamAnswers, VideoInv, VideoTyped
<1>3. CASE Becomes(r, Idle)
  BY <1>2, <1>3, RestKeeps
<1>4. ASSUME NEW n,
             n = [req[r] EXCEPT !.pc = "answered", !.outcome = outcome, !.since = 0],
             Becomes(r, n)
      PROVE  VideoInv'
  <2>1. /\ n \in Threads /\ n.pc = "answered" /\ n.kind = req[r].kind /\ n.id = req[r].id
        /\ n.key = req[r].key /\ n.copy = req[r].copy /\ n.since = 0
    BY <1>2, <1>4 DEF Threads, ReqStates
  <2>2. 0 <= req[r].since
    BY <1>2 DEF Threads
  <2>3. /\ ThreadOK(r, req[r]) /\ now \in Nat /\ n.copy = NoFile
        /\ req[r].kind \in {"create", "revise"}
    BY <1>2, <2>1 DEF ThreadOK, VideoInv, VideoTyped
  <2>4. ThreadOK(r, n)'
    BY <1>2, <2>1, <2>3 DEF ThreadOK, Submitted
  <2>5. Submitted(n) => Submitted(req[r])
    BY <1>2, <2>1 DEF Submitted
  <2> QED BY <1>2, <1>4, <2>1, <2>2, <2>3, <2>4, <2>5, QuietStep
<1> QED BY <1>1, <1>3, <1>4

-----------------------------------------------------------------------------
(* Steps that write a file. *)

\* The id is taken: the failed record of the key is gone all the same.
LEMMA ReserveRefusedKeeps ==
    ASSUME VideoInv, NEW r \in Requests, req[r].pc = "reserving",
           files' = [j \in Ids |-> IF j = req[r].old THEN NoFile ELSE files[j]],
           Becomes(r, Idle), lock' = Free,
           UNCHANGED <<victims, now, used, twice, reaped>>
    PROVE  VideoInv'
<1>1. /\ req'[r] = Idle /\ Idle.pc = "idle" /\ Idle.kind = "none" /\ Idle.copy = NoFile
      /\ Idle.since = 0
      /\ \A s \in Requests \ {r} : req'[s] = req[s]
      /\ \A s \in Requests \ {r} : req[s].pc \notin {"reserving", "loaded"}
      /\ \A j \in Ids : files'[j] # NoFile => files'[j] = files[j] /\ j # req[r].old
      /\ Spoiled' = Spoiled
  BY DEF Becomes, VideoInv, VideoTyped, ThreadOK, Spoiled, Idle
<1>2. VideoTyped'
  BY IdleIsThread DEF Becomes, VideoInv, VideoTyped
<1>3. \A s \in Requests : ThreadOK(s, req[s])'
  <2> SUFFICES ASSUME NEW s \in Requests PROVE ThreadOK(s, req[s])'
    OBVIOUS
  <2>1. CASE s = r
    BY <2>1, <1>1 DEF ThreadOK, Submitted, VideoInv, VideoTyped
  <2>2. CASE s # r
    BY <2>2, <1>1 DEF ThreadOK, VideoInv
  <2> QED BY <2>1, <2>2
<1>4. \A j \in Ids : FileOK(j)'
  BY <1>1 DEF VideoInv, FileOK
<1>5. \A s \in Requests : Submitted(req'[s]) => Submitted(req[s]) /\ req'[s] = req[s] /\ s # r
  BY <1>1 DEF Submitted
<1>6. Owned'
  <2> SUFFICES ASSUME NEW s \in Requests, Submitted(req[s]), req[s].id \notin Spoiled,
                      s # r, req'[s] = req[s]
               PROVE  OwnedBy(s)'
    BY <1>1, <1>5 DEF Owned
  <2>1. req[s].id \in Ids /\ req[s].id # req[r].old /\ OwnedBy(s)
    BY DEF VideoInv, OldIsDone, Owned, ThreadOK, Submitted
  <2>2. files'[req[s].id] = files[req[s].id]
    BY <2>1
  <2>3. \A t \in Requests : req'[t].id = req[s].id =>
          /\ req'[t].copy # NoFile => Fits(req[s], req'[t].copy)
          /\ Submitted(req'[t]) => t = s
    BY <2>1, <1>1, <1>5 DEF OwnedBy
  <2> QED BY <2>1, <2>2, <2>3 DEF OwnedBy, Fits
<1>7. OnePerKey'
  <2> SUFFICES ASSUME NEW k \in Keys \ {NoKey}, ~Disturbed(k) PROVE OneUnder(k)'
    BY DEF OnePerKey, Disturbed
  <2>1. \A j \in Ids : FailedFile(j, k)' => FailedFile(j, k)
    BY <1>1 DEF FailedFile
  <2>2. \A s \in Requests : ~FailedCopy(req'[s], k) /\ req'[s].pc # "reserving"
    BY <1>1 DEF FailedCopy
  <2>3. OneUnder(k)
    BY DEF VideoInv, OnePerKey
  <2> QED BY <1>5, <2>1, <2>2, <2>3 DEF OneUnder
<1>8. OldIsDone' /\ RevisionsCounted'
  BY <1>1 DEF OldIsDone, RevisionsCounted
<1> QED BY <1>2, <1>3, <1>4, <1>6, <1>7, <1>8 DEF VideoInv

\* A record is saved under the id.  If it is not the first, the id is spoiled
\* from here on; else nobody has heard of it.
LEMMA ReserveSentKeeps ==
    ASSUME VideoInv, NEW r \in Requests, req[r].pc = "reserving",
           files' = [j \in Ids |-> IF j = req[r].id THEN Submitting(req[r].key)
                                   ELSE IF j = req[r].old THEN NoFile ELSE files[j]],
           Sends(r, req[r]), lock' = Free,
           used' = [used EXCEPT ![req[r].id] = @ \cup {req[r].key}],
           twice' = IF used[req[r].id] = {} THEN twice ELSE twice \cup {req[r].id},
           UNCHANGED <<victims, now, reaped>>
    PROVE  VideoInv'
<1>0. PICK p \in Threads : p = req[r]
  BY DEF VideoInv, VideoTyped
<1> DEFINE q == [p EXCEPT !.pc = "upstream", !.copy = NoFile, !.since = now]
<1>1. /\ p.pc = "reserving" /\ p.kind = "create" /\ lock = r /\ p.id \in Ids
      /\ p.key \in Keys \cup {NoKey} /\ now \in Nat
  BY <1>0 DEF VideoInv, VideoTyped, ThreadOK, Threads
<1>2. req' = [req EXCEPT ![r] = q]
  BY <1>0 DEF Sends, Becomes
<1>3. /\ q \in Threads /\ q.pc = "upstream" /\ q.kind = "create" /\ q.id = p.id
      /\ q.key = p.key /\ q.copy = NoFile /\ q.since = now
  BY <1>1 DEF Threads, ReqStates
<1>4. /\ Submitting(p.key) \in Records /\ Submitting(p.key).key = p.key
      /\ Submitting(p.key).revisions = 0 /\ Submitting(p.key).active = now
      /\ Submitting(p.key).status = "submitting" /\ Submitting(p.key) # NoFile
  BY <1>1, SubmittingRecord, VideoAssumption
<1>5. /\ req'[r] = q
      /\ \A s \in Requests \ {r} : req'[s] = req[s]
      /\ \A s \in Requests \ {r} : req[s].pc \notin {"reserving", "loaded"}
  BY <1>1, <1>2 DEF VideoInv, VideoTyped, ThreadOK
<1> HIDE DEF q
<1>51. /\ files'[p.id] = Submitting(p.key)
       /\ \A j \in Ids : j # p.id /\ files'[j] # NoFile => files'[j] = files[j] /\ j # p.old
       /\ \A j \in Ids : j # p.id /\ j # p.old => files'[j] = files[j]
  BY <1>0, <1>1
<1>52. /\ \A j \in Ids : used[j] \subseteq used'[j]
       /\ p.key \in used'[p.id]
       /\ Spoiled \subseteq Spoiled'
       /\ p.id \notin Spoiled' => used[p.id] = {}
  BY <1>0, <1>1 DEF VideoInv, VideoTyped, Spoiled
<1>53. \A k : ~Disturbed(k)' => ~Disturbed(k)
  <2> SUFFICES ASSUME NEW k, NEW j \in twice \cup reaped, k \in used[j]
               PROVE  \E i \in (twice \cup reaped)' : k \in used'[i]
    BY DEF Disturbed
  <2>1. j \in (twice \cup reaped)'
    OBVIOUS
  <2>2. used[j] \subseteq used'[j]
    BY <1>0, <1>1 DEF VideoInv, VideoTyped
  <2> QED BY <2>1, <2>2
<1>6. VideoTyped'
  BY <1>0, <1>1, <1>2, <1>3, <1>4, <1>52 DEF VideoInv, VideoTyped
<1>7. \A s \in Requests : ThreadOK(s, req[s])'
  <2> SUFFICES ASSUME NEW s \in Requests PROVE ThreadOK(s, req[s])'
    OBVIOUS
  <2>1. CASE s = r
    BY <2>1, <1>1, <1>3, <1>5, <1>52 DEF ThreadOK
  <2>2. CASE s # r
    BY <2>2, <1>5, <1>52 DEF ThreadOK, VideoInv, Submitted
  <2> QED BY <2>1, <2>2
<1>8. \A j \in Ids : FileOK(j)'
  BY <1>1, <1>4, <1>51, <1>52 DEF VideoInv, FileOK
<1>10. Owned'
  <2> SUFFICES ASSUME NEW s \in Requests, Submitted(req'[s]), req'[s].id \notin Spoiled'
               PROVE  OwnedBy(s)'
    BY DEF Owned
  <2>1. CASE s = r
    <3>1. used[p.id] = {} /\ req'[s] = q
      BY <2>1, <1>3, <1>5, <1>52
    <3>2. \A v \in victims : v[1] # p.id
      BY <3>1 DEF VideoInv, VideoTyped
    <3>3. \A t \in Requests : req'[t].id = p.id => t = r
      BY <3>1, <1>1, <1>5, VideoAssumption DEF VideoInv, ThreadOK, Idle
    <3>4. Fits(req[s], files[req[s].id])'
      BY <2>1, <1>1, <1>3, <1>4, <1>5, <1>51, VideoAssumption DEF Fits
    <3>5. /\ req'[s].id = p.id /\ req'[s].since = now /\ req'[s].copy = NoFile
          /\ files'[p.id] # NoFile
      BY <3>1, <1>3, <1>4, <1>51
    <3>6. now' <= req'[s].since + RunLimit
      BY <3>5, <1>1, VideoAssumption
    <3> QED BY <3>2, <3>3, <3>4, <3>5, <3>6, <2>1 DEF OwnedBy
  <2>2. CASE s # r
    <3>1. Submitted(req[s]) /\ req'[s] = req[s] /\ req[s].id \in Ids /\ used[req[s].id] # {}
      BY <2>2, <1>5 DEF VideoInv, ThreadOK, Submitted
    <3>2. req[s].id \notin Spoiled /\ req[s].id # p.id
      BY <3>1, <1>52
    <3>3. p.old # req[s].id /\ OwnedBy(s)
      BY <3>1, <3>2, <1>0, <1>1 DEF VideoInv, OldIsDone, Owned
    <3>4. files'[req[s].id] = files[req[s].id]
      BY <3>1, <3>2, <3>3, <1>51
    <3>5. \A t \in Requests : req'[t].id = req[s].id => t # r /\ req'[t] = req[t]
      BY <3>2, <1>3, <1>5
    <3> QED BY <3>1, <3>3, <3>4, <3>5 DEF OwnedBy, Fits
  <2> QED BY <2>1, <2>2
<1>11. OnePerKey'
  <2> SUFFICES ASSUME NEW k \in Keys \ {NoKey}, ~Disturbed(k) PROVE OneUnder(k)'
    BY <1>53 DEF OnePerKey
  <2>1. \A j \in Ids : FailedFile(j, k)' => FailedFile(j, k) /\ j # p.old
    BY <1>1, <1>4, <1>51 DEF FailedFile
  <2>2. \A s \in Requests :
            /\ Submitted(req'[s]) /\ s # r => Submitted(req[s]) /\ req'[s] = req[s]
            /\ ~FailedCopy(req'[s], k)
            /\ req'[s].pc # "reserving"
    BY <1>3, <1>5 DEF Submitted, FailedCopy
  <2>3. OneUnder(k)
    BY DEF VideoInv, OnePerKey
  <2> QED BY <1>0, <1>1, <1>3, <1>5, <2>1, <2>2, <2>3 DEF OneUnder
<1>12. OldIsDone' /\ RevisionsCounted'
  BY <1>3, <1>5 DEF OldIsDone, RevisionsCounted
<1> QED BY <1>6, <1>7, <1>8, <1>10, <1>11, <1>12 DEF VideoInv

LEMMA ReserveSaveKeeps ==
    ASSUME VideoInv, NEW r \in Requests, ReserveSave(r) PROVE VideoInv'
<1> DEFINE left == [j \in Ids |-> IF j = req[r].old THEN NoFile ELSE files[j]]
<1>1. req[r].pc = "reserving" /\ req[r].id \in Ids /\ lock' = Free
  BY DEF ReserveSave, VideoInv, ThreadOK
<1>2. CASE left[req[r].id] # NoFile
  BY <1>1, <1>2, ReserveRefusedKeeps DEF ReserveSave
<1>3. CASE left[req[r].id] = NoFile
  <2>1. files' = [left EXCEPT ![req[r].id] = Submitting(req[r].key)]
    BY <1>3 DEF ReserveSave
  <2>2. files' = [j \in Ids |-> IF j = req[r].id THEN Submitting(req[r].key)
                                ELSE IF j = req[r].old THEN NoFile ELSE files[j]]
    BY <2>1, <1>1
  <2>3. /\ Sends(r, req[r])
        /\ used' = [used EXCEPT ![req[r].id] = @ \cup {req[r].key}]
        /\ twice' = IF used[req[r].id] = {} THEN twice ELSE twice \cup {req[r].id}
        /\ UNCHANGED <<victims, now, reaped>>
    BY <1>3 DEF ReserveSave
  <2> QED BY <1>1, <2>2, <2>3, ReserveSentKeeps
<1> QED BY <1>2, <1>3

LEMMA LateSaveKeeps ==
    ASSUME VideoInv, NEW r \in Requests, LateSave(r) PROVE VideoInv'
<1> DEFINE p == req[r]
           x == p.copy
           q == IF p.kind = "revise"
                THEN [p EXCEPT !.pc = "upstream", !.copy = NoFile, !.since = now]
                ELSE Idle
<1>1. /\ p \in Threads /\ p.pc = "late" /\ p.kind # "create"
      /\ used[p.id] # {} /\ x.key \in used[p.id] /\ p.id \in Ids /\ now \in Nat
      /\ x \in Records /\ x # NoFile /\ x.status = "submission_unknown" /\ x.revisions = 0
  BY VideoAssumption DEF LateSave, VideoInv, VideoTyped, ThreadOK, Threads
<1>2. /\ files' = [files EXCEPT ![p.id] = x]
      /\ req' = [req EXCEPT ![r] = q]
      /\ UNCHANGED <<lock, victims, now, used, twice, reaped>>
  BY DEF LateSave, Sends, Becomes
<1>3. /\ q \in Threads /\ q.pc \in {"upstream", "idle"} /\ q.kind # "create"
      /\ q.copy = NoFile /\ q.since \in {0, now}
      /\ q.pc = "upstream" => q.kind = "revise" /\ q.id = p.id
      /\ q.pc = "idle" => q = Idle /\ q.since = 0 /\ q.id = "none"
  BY <1>1, IdleIsThread DEF Threads, ReqStates, Idle
<1>4. /\ req'[r] = q
      /\ \A s \in Requests \ {r} : req'[s] = req[s]
      /\ files'[p.id] = x
      /\ \A i \in Ids \ {p.id} : files'[i] = files[i]
  BY <1>1, <1>2 DEF VideoInv, VideoTyped
<1> HIDE DEF q
<1>6. VideoTyped'
  BY <1>1, <1>2, <1>3 DEF VideoInv, VideoTyped
<1>7. \A s \in Requests : ThreadOK(s, req[s])'
  <2> SUFFICES ASSUME NEW s \in Requests PROVE ThreadOK(s, req[s])'
    OBVIOUS
  <2>1. CASE s = r
    BY <2>1, <1>1, <1>2, <1>3, <1>4 DEF ThreadOK, Submitted
  <2>2. CASE s # r
    BY <2>2, <1>2, <1>4 DEF ThreadOK, VideoInv
  <2> QED BY <2>1, <2>2
<1>8. \A j \in Ids : FileOK(j)'
  BY <1>1, <1>2, <1>4 DEF VideoInv, FileOK
<1>10. Owned'
  <2> SUFFICES ASSUME NEW s \in Requests, Submitted(req'[s]), req'[s].id \notin Spoiled
               PROVE  OwnedBy(s)'
    BY <1>2 DEF Owned, Spoiled
  <2>1. s # r /\ Submitted(req[s]) /\ req'[s] = req[s] /\ req[s].id \in Ids
    BY <1>3, <1>4 DEF Submitted, VideoInv, ThreadOK, VideoTyped
  <2>2. OwnedBy(s) /\ (req[s].id = p.id => Fits(req[s], x))
    BY <2>1, <1>1 DEF VideoInv, Owned, OwnedBy
  <2>3. files'[req[s].id] # NoFile /\ Fits(req[s], files'[req[s].id])
    BY <2>1, <2>2, <1>1, <1>4 DEF OwnedBy
  <2>4. \A t \in Requests : t # r => req'[t] = req[t]
    BY <1>4
  <2>5. ~Submitted(req'[r]) /\ req'[r].copy = NoFile
    BY <1>3, <1>4 DEF Submitted
  <2> QED BY <2>1, <2>2, <2>3, <2>4, <2>5, <1>2 DEF OwnedBy, Fits
<1>11. OnePerKey'
  <2> SUFFICES ASSUME NEW k \in Keys \ {NoKey}, ~Disturbed(k) PROVE OneUnder(k)'
    BY <1>2 DEF OnePerKey, Disturbed
  <2>1. \A j \in Ids : FailedFile(j, k)' => FailedFile(j, k)
    BY <1>1, <1>4 DEF FailedFile
  <2>2. \A s \in Requests :
            /\ Submitted(req'[s]) => Submitted(req[s]) /\ req'[s] = req[s]
            /\ FailedCopy(req'[s], k) => req'[s] = req[s]
            /\ req'[s].pc = "reserving" => req'[s] = req[s]
    BY <1>3, <1>4 DEF Submitted, FailedCopy
  <2>3. OneUnder(k)
    BY DEF VideoInv, OnePerKey
  <2> QED BY <2>1, <2>2, <2>3 DEF OneUnder
<1>12. OldIsDone'
  BY <1>2, <1>3, <1>4 DEF VideoInv, OldIsDone, Submitted, Spoiled
<1>13. RevisionsCounted'
  <2> SUFFICES ASSUME NEW s \in Requests, s # r, req[s].pc = "loaded",
                      files'[req[s].id] # NoFile
               PROVE  files'[req[s].id].revisions <=
                        (IF req[s].copy = NoFile THEN 0 ELSE req[s].copy.revisions)
    BY <1>3, <1>4 DEF RevisionsCounted
  <2>1. (req[s].copy # NoFile => req[s].copy.revisions \in Nat) /\ req[s].id \in Ids
    BY DEF VideoInv, ThreadOK, VideoTyped, Threads, Records
  <2> QED BY <2>1, <1>1, <1>4 DEF VideoInv, RevisionsCounted
<1> QED BY <1>6, <1>7, <1>8, <1>10, <1>11, <1>12, <1>13 DEF VideoInv

\* The record is loaded under the lock.
LEMMA LockedLoadKeeps ==
    ASSUME VideoInv, NEW r \in Requests, NEW q \in Threads, NEW n, NEW x \in Records,
           q.id \in Ids, files[q.id] # NoFile, x = Recovered(files[q.id]),
           files' = [files EXCEPT ![q.id] = x],
           n = [q EXCEPT !.pc = "loaded", !.copy = x], Becomes(r, n),
           lock = Free, lock' = r, UNCHANGED <<victims, now, used, twice, reaped>>,
           q.kind \in {"create", "revise", "edit"}, q.since = 0,
           q.kind = "create" => q = req[r] /\ Submitted(q),
           q.kind # "create" => ~Submitted(req[r])
    PROVE  VideoInv'
<1>1. /\ n \in Threads /\ n.pc = "loaded" /\ n.kind = q.kind /\ n.id = q.id
      /\ n.key = q.key /\ n.copy = x /\ n.since = 0
  BY DEF Threads, ReqStates
<1>2. /\ now \in Nat /\ files[q.id] \in Records /\ x # NoFile
      /\ x.key \in used[q.id] /\ used[q.id] # {} /\ Spoiled' = Spoiled
      /\ x.key = files[q.id].key /\ x.revisions = files[q.id].revisions
      /\ x.status = "submitting" => x.revisions = 0
      /\ x # files[q.id] => x.status = "submission_unknown" /\ x.active = now
  BY RecoveredRecord, VideoAssumption DEF VideoInv, VideoTyped, FileOK, Spoiled
<1>3. /\ req'[r] = n
      /\ \A s \in Requests \ {r} : req'[s] = req[s]
      /\ files'[q.id] = x
      /\ \A i \in Ids \ {q.id} : files'[i] = files[i]
      /\ \A s \in Requests : req[s].pc \notin {"reserving", "loaded"}
  BY <1>2, VideoAssumption DEF VideoInv, VideoTyped, Becomes, ThreadOK
<1>4. \A s \in Requests : Submitted(req'[s]) =>
        /\ Submitted(req[s]) /\ req'[s].id = req[s].id /\ req'[s].key = req[s].key
        /\ req'[s].since <= req[s].since
        /\ req'[s].pc = "upstream" => req'[s] = req[s]
        /\ req[s].id \in Ids /\ req[s] \in Threads
  <2> SUFFICES ASSUME NEW s \in Requests, Submitted(req'[s])
               PROVE  /\ Submitted(req[s]) /\ req'[s].id = req[s].id
                      /\ req'[s].key = req[s].key
                      /\ req'[s].since <= req[s].since
                      /\ req'[s].pc = "upstream" => req'[s] = req[s]
                      /\ req[s].id \in Ids /\ req[s] \in Threads
    OBVIOUS
  <2>1. req[s] \in Threads /\ req[s].since \in Nat
    BY DEF VideoInv, VideoTyped, Threads
  <2>2. CASE s = r
    BY <2>1, <2>2, <1>1, <1>2, <1>3 DEF Submitted
  <2>3. CASE s # r
    BY <2>1, <2>3, <1>3 DEF Submitted, VideoInv, VideoTyped, ThreadOK
  <2> QED BY <2>2, <2>3
<1>5. \A s \in Requests : Submitted(req[s]) /\ req[s].id \notin Spoiled =>
        /\ files[req[s].id] # NoFile /\ Fits(req[s], files[req[s].id])
        /\ req[s].id = q.id => Fits(req[s], x)
  BY <1>2, VideoAssumption DEF VideoInv, Owned, OwnedBy, Fits, VideoTyped, Threads, ThreadOK
<1>6. VideoTyped'
  BY <1>1, <1>2, <1>3 DEF VideoInv, VideoTyped, Becomes
<1>7. \A s \in Requests : ThreadOK(s, req[s])'
  <2> SUFFICES ASSUME NEW s \in Requests PROVE ThreadOK(s, req[s])'
    OBVIOUS
  <2>1. CASE s = r
    BY <2>1, <1>1, <1>2, <1>3 DEF ThreadOK, Submitted, VideoInv
  <2>2. CASE s # r
    BY <2>2, <1>3 DEF ThreadOK, VideoInv
  <2> QED BY <2>1, <2>2
<1>8. \A j \in Ids : FileOK(j)'
  BY <1>2, <1>3 DEF VideoInv, FileOK
<1>10. Owned'
  <2> SUFFICES ASSUME NEW s \in Requests, Submitted(req'[s]), req'[s].id \notin Spoiled
               PROVE  OwnedBy(s)'
    BY DEF Owned, Spoiled
  <2>1. \A y \in Records : Fits(req[s], y) => Fits(req[s], y)'
    <3>1. req'[s].since \in Nat /\ req[s].since \in Nat /\ req'[s].since <= req[s].since
          /\ req'[s].key = req[s].key
      BY <1>4, <1>6 DEF VideoTyped, Threads
    <3> QED BY <3>1 DEF Fits, Records
  <2>2. /\ files'[req[s].id] # NoFile /\ files'[req[s].id] \in Records
        /\ Fits(req[s], files'[req[s].id])
    BY <1>2, <1>3, <1>4, <1>5 DEF VideoInv, VideoTyped
  <2>3. ASSUME NEW t \in Requests, req'[t].id = req[s].id, req'[t].copy # NoFile
        PROVE  req'[t].copy \in Records /\ Fits(req[s], req'[t].copy)
    <3>1. CASE t = r
      BY <3>1, <2>3, <1>1, <1>3, <1>4, <1>5
    <3>2. CASE t # r
      BY <3>2, <2>3, <1>3, <1>4 DEF VideoInv, Owned, OwnedBy, VideoTyped, Threads
    <3> QED BY <3>1, <3>2
  <2>4. \A t \in Requests : req'[t].id = req[s].id /\ Submitted(req'[t]) => t = s
    BY <1>4 DEF VideoInv, Owned, OwnedBy
  <2>5. req'[s].id = req[s].id
    BY <1>4
  <2>6. Fits(req[s], files[req[s].id])'
    BY <2>1, <2>2, <2>5 DEF Fits
  <2>7. \A t \in Requests : req'[t].id = req'[s].id /\ req'[t].copy # NoFile
             => Fits(req[s], req[t].copy)'
    BY <2>1, <2>3, <2>5 DEF Fits
  <2>8. OwnedBy(s)
    BY <1>4 DEF VideoInv, Owned
  <2> QED BY <1>4, <2>2, <2>4, <2>5, <2>6, <2>7, <2>8 DEF OwnedBy
<1>11. OnePerKey'
  <2> SUFFICES ASSUME NEW k \in Keys \ {NoKey}, ~Disturbed(k) PROVE OneUnder(k)'
    BY DEF OnePerKey, Disturbed
  <2>1. \A j \in Ids : FailedFile(j, k)' => FailedFile(j, k)
    BY <1>2, <1>3 DEF FailedFile
  <2>2. \A s \in Requests :
            /\ FailedCopy(req'[s], k) => s = r /\ FailedFile(q.id, k) /\ req'[s].id = q.id
            /\ req'[s].pc # "reserving"
    <3>1. FailedCopy(n, k) => FailedFile(q.id, k)
      BY <1>1, <1>2 DEF FailedCopy, FailedFile
    <3>2. \A s \in Requests \ {r} : ~FailedCopy(req'[s], k) /\ req'[s].pc # "reserving"
      BY <1>3 DEF FailedCopy
    <3> QED BY <3>1, <3>2, <1>1, <1>3
  <2>3. OneUnder(k)
    BY DEF VideoInv, OnePerKey
  <2>4. \A s \in Requests : FailedCopy(req'[s], k) => req'[s].id \in Ids
    BY <2>2, <1>2
  <2> QED BY <1>4, <2>1, <2>2, <2>3, <2>4 DEF OneUnder
<1>12. OldIsDone'
  BY <1>1, <1>3 DEF OldIsDone
<1>13. RevisionsCounted'
  <2>1. x.revisions \in Nat
    BY DEF Records
  <2> SUFFICES ASSUME NEW s \in Requests, req'[s].pc = "loaded"
               PROVE  files'[req'[s].id].revisions <=
                        (IF req'[s].copy = NoFile THEN 0 ELSE req'[s].copy.revisions)
    BY DEF RevisionsCounted
  <2>2. s = r
    BY <1>3
  <2> QED BY <2>1, <2>2, <1>1, <1>2, <1>3
<1> QED BY <1>6, <1>7, <1>8, <1>10, <1>11, <1>12, <1>13 DEF VideoInv

\* A finished creation goes on without a record: its id is spoiled.
LEMMA EmptyLoadKeeps ==
    ASSUME VideoInv, NEW r \in Requests, NEW n, Submitted(req[r]), req[r].pc = "answered",
           files[req[r].id] = NoFile,
           n = [req[r] EXCEPT !.pc = "loaded", !.copy = NoFile], Becomes(r, n),
           lock = Free, lock' = r, UNCHANGED <<files, victims, now, used, twice, reaped>>
    PROVE  VideoInv'
<1>0. PICK p \in Threads : p = req[r]
  BY DEF VideoInv, VideoTyped
<1>1. /\ n \in Threads /\ n.pc = "loaded" /\ n.kind = "create" /\ n.id = p.id /\ n.id \in Ids
      /\ n.key = p.key /\ n.copy = NoFile /\ n.since = p.since /\ n.since = 0
      /\ used[p.id] # {} /\ p.key \in used[p.id]
  BY <1>0 DEF Threads, ReqStates, Submitted, VideoInv, ThreadOK
<1>2. p.id \in Spoiled /\ Spoiled' = Spoiled
  BY <1>0 DEF VideoInv, Owned, OwnedBy, Spoiled
<1>3. /\ req'[r] = n
      /\ \A s \in Requests \ {r} : req'[s] = req[s]
      /\ \A s \in Requests : req[s].pc \notin {"reserving", "loaded"}
  BY VideoAssumption DEF VideoInv, VideoTyped, Becomes, ThreadOK
<1>4. VideoTyped'
  BY <1>1 DEF VideoInv, VideoTyped, Becomes
<1>5. \A s \in Requests : ThreadOK(s, req[s])'
  <2> SUFFICES ASSUME NEW s \in Requests PROVE ThreadOK(s, req[s])'
    OBVIOUS
  <2>1. CASE s = r
    BY <2>1, <1>1, <1>3 DEF ThreadOK, VideoInv, VideoTyped
  <2>2. CASE s # r
    BY <2>2, <1>3 DEF ThreadOK, VideoInv
  <2> QED BY <2>1, <2>2
<1>6. \A j \in Ids : FileOK(j)'
  BY DEF VideoInv, FileOK
<1>7. \A s \in Requests : Submitted(req'[s]) =>
        Submitted(req[s]) /\ req'[s].id = req[s].id /\ req'[s].key = req[s].key
  BY <1>0, <1>1, <1>3
<1>8. Owned'
  <2> SUFFICES ASSUME NEW s \in Requests, Submitted(req[s]), req[s].id \notin Spoiled,
                      req'[s].id = req[s].id
               PROVE  OwnedBy(s)'
    BY <1>2, <1>7 DEF Owned
  <2>1. s # r /\ req'[s] = req[s] /\ OwnedBy(s)
    BY <1>0, <1>2, <1>3 DEF VideoInv, Owned
  <2>2. \A t \in Requests : req'[t].id = req[s].id => req'[t] = req[t]
    <3>1. req'[r].id # req[s].id
      BY <1>1, <1>2, <1>3
    <3> QED BY <3>1, <1>3
  <2> QED BY <2>1, <2>2 DEF OwnedBy, Fits
<1>9. OnePerKey'
  <2> SUFFICES ASSUME NEW k \in Keys \ {NoKey}, ~Disturbed(k) PROVE OneUnder(k)'
    BY DEF OnePerKey, Disturbed
  <2>1. \A j \in Ids : FailedFile(j, k)' <=> FailedFile(j, k)
    BY DEF FailedFile
  <2>2. \A s \in Requests : ~FailedCopy(req'[s], k) /\ req'[s].pc # "reserving"
    BY <1>1, <1>3 DEF FailedCopy
  <2>3. OneUnder(k)
    BY DEF VideoInv, OnePerKey
  <2> QED BY <1>7, <2>1, <2>2, <2>3 DEF OneUnder
<1>10. OldIsDone'
  BY <1>1, <1>3 DEF OldIsDone
<1>11. RevisionsCounted'
  <2>1. files'[req'[r].id] = NoFile
    BY <1>0, <1>1, <1>3
  <2>2. \A s \in Requests : req'[s].pc = "loaded" => s = r
    BY <1>3
  <2> QED BY <2>1, <2>2 DEF RevisionsCounted
<1> QED BY <1>4, <1>5, <1>6, <1>8, <1>9, <1>10, <1>11 DEF VideoInv

LEMMA TakesUpKeeps ==
    ASSUME VideoInv, NEW r \in Requests, NEW q \in Threads,
           q.id \in Ids, TakesUp(r, q), lock = Free,
           UNCHANGED <<victims, now, used, twice, reaped>>,
           q.kind \in {"create", "revise", "edit"}, q.since = 0,
           req[r].pc \notin {"reserving", "loaded"},
           q.kind = "create" => q = req[r] /\ q.pc = "answered",
           q.kind # "create" => ~Submitted(req[r])
    PROVE  VideoInv'
<1>1. CASE files[q.id] = NoFile /\ ~(q.kind = "create" /\ q.outcome = "artifact")
  BY <1>1, RestKeeps DEF TakesUp
<1>2. CASE files[q.id] = NoFile /\ q.kind = "create" /\ q.outcome = "artifact"
  <2>1. /\ lock' = r
        /\ files' = [files EXCEPT ![q.id] = IF @ = NoFile THEN @ ELSE Recovered(@)]
        /\ Becomes(r, [q EXCEPT !.pc = "loaded", !.copy = files'[q.id]])
    BY <1>2 DEF TakesUp
  <2>2. files' = files
    BY <1>2, <2>1 DEF VideoInv, VideoTyped
  <2> QED BY <1>2, <2>1, <2>2, EmptyLoadKeeps DEF Submitted
<1>3. CASE files[q.id] # NoFile
  <2>1. PICK x : x = Recovered(files[q.id])
    OBVIOUS
  <2>2. x \in Records
    BY <1>3, <2>1, RecoveredRecord DEF VideoInv, VideoTyped
  <2>3. lock' = r /\ files' = [files EXCEPT ![q.id] = x]
    BY <1>3, <2>1 DEF TakesUp
  <2>4. files'[q.id] = x
    BY <2>2, <2>3 DEF VideoInv, VideoTyped
  <2>5. PICK n : n = [q EXCEPT !.pc = "loaded", !.copy = x]
    OBVIOUS
  <2>6. Becomes(r, n)
    BY <1>3, <2>4, <2>5 DEF TakesUp
  <2> QED BY <1>3, <2>1, <2>2, <2>3, <2>5, <2>6, LockedLoadKeeps DEF Submitted
<1> QED BY <1>1, <1>2, <1>3

LEMMA UpdateLoadKeeps ==
    ASSUME VideoInv, NEW r \in Requests, UpdateLoad(r) PROVE VideoInv'
<1>1. PICK q \in Threads : q = req[r]
  BY DEF VideoInv, VideoTyped
<1>2. /\ q.pc = "answered" /\ lock = Free /\ TakesUp(r, q)
      /\ UNCHANGED <<victims, now, used, twice, reaped>>
  BY <1>1 DEF UpdateLoad
<1>3. q.id \in Ids /\ q.kind \in {"create", "revise"} /\ q.since = 0
  BY <1>1, <1>2 DEF VideoInv, ThreadOK
<1> QED BY <1>1, <1>2, <1>3, TakesUpKeeps DEF Submitted

LEMMA EditLoadKeeps ==
    ASSUME VideoInv, NEW r \in Requests, EditLoad(r) PROVE VideoInv'
<1>1. PICK j \in Ids :
        /\ files[j] # NoFile
        /\ TakesUp(r, [Idle EXCEPT !.kind = "edit", !.id = j])
  BY DEF EditLoad
<1>2. PICK q : q = [Idle EXCEPT !.kind = "edit", !.id = j]
  OBVIOUS
<1>3. q \in Threads /\ q.kind = "edit" /\ q.id = j /\ q.since = 0
  BY <1>2 DEF Idle, Threads, ReqStates, Outcomes
<1>4. /\ req[r].pc = "idle" /\ lock = Free /\ UNCHANGED <<victims, now, used, twice, reaped>>
  BY <1>1 DEF EditLoad, Arrives
<1>5. ~Submitted(req[r])
  BY <1>4 DEF Submitted
<1> QED BY <1>1, <1>2, <1>3, <1>4, <1>5, TakesUpKeeps

LEMMA FinishedRecord ==
    ASSUME NEW q \in Threads, q.copy = NoFile, q.kind = "create", now \in Nat
    PROVE  /\ Updated(q) \in Records
           /\ Updated(q).key = q.key /\ Updated(q).active = now
           /\ Updated(q).revisions = 0 /\ Updated(q).status = "artifact_reported"
<1>1. q.key \in Keys \cup {NoKey}
  BY DEF Threads
<1>2. Updated(q) = [Submitting(q.key) EXCEPT !.status = "artifact_reported", !.checked = 0]
  BY DEF Updated
<1>3. Updated(q) = [status |-> "artifact_reported", key |-> q.key, revisions |-> 0,
                    checked |-> 0, active |-> now]
  BY <1>2 DEF Submitting
<1> QED BY <1>1, <1>3 DEF Records, Statuses

LEMMA UpdateSaveKeeps ==
    ASSUME VideoInv, NEW r \in Requests, UpdateSave(r) PROVE VideoInv'
<1>1. PICK p \in Threads : p = req[r]
  BY DEF VideoInv, VideoTyped
<1>2. PICK x : x = Updated(p)
  OBVIOUS
<1>3. /\ p.pc = "loaded" /\ lock = r /\ p.id \in Ids /\ now \in Nat
      /\ used[p.id] # {} /\ p.copy \in Records \cup {NoFile}
      /\ p.kind \in {"create", "revise", "edit"} /\ ThreadOK(r, p)
      /\ p.key \in Keys \cup {NoKey}
  BY <1>1 DEF UpdateSave, VideoInv, VideoTyped, ThreadOK, Threads
<1>4. /\ x \in Records /\ x # NoFile /\ x.key \in used[p.id] /\ x.active = now
      /\ p.copy # NoFile => x.key = p.copy.key
      /\ x.status = "submitting" => x.revisions = 0
      /\ x.status = "failed" =>
            /\ p.copy # NoFile
            /\ p.kind = "create" \/ (p.kind = "edit" /\ p.copy.status = "failed")
  <2>1. CASE p.copy # NoFile
    BY <2>1, <1>1, <1>2, <1>3, UpdatedRecord, VideoAssumption DEF ThreadOK
  <2>2. CASE p.copy = NoFile
    BY <2>2, <1>1, <1>2, <1>3, FinishedRecord, VideoAssumption DEF ThreadOK, Submitted
  <2> QED BY <2>1, <2>2
<1>5. /\ files' = [files EXCEPT ![p.id] = x] /\ lock' = Free
      /\ req' = [req EXCEPT ![r] = Idle]
      /\ UNCHANGED <<victims, now, used, twice, reaped>>
  BY <1>1, <1>2 DEF UpdateSave, Becomes
<1>6. /\ req'[r] = Idle /\ Idle.pc = "idle" /\ Idle.kind = "none" /\ Idle.id = "none"
      /\ Idle.copy = NoFile /\ Idle.since = 0
      /\ \A s \in Requests \ {r} : req'[s] = req[s]
      /\ files'[p.id] = x
      /\ \A i \in Ids \ {p.id} : files'[i] = files[i]
      /\ \A s \in Requests \ {r} : req[s].pc \notin {"reserving", "loaded"}
  BY <1>3, <1>5 DEF VideoInv, VideoTyped, Idle, ThreadOK
<1>7. VideoTyped'
  BY <1>3, <1>4, <1>5, IdleIsThread DEF VideoInv, VideoTyped
<1>8. \A s \in Requests : ThreadOK(s, req[s])'
  <2> SUFFICES ASSUME NEW s \in Requests PROVE ThreadOK(s, req[s])'
    OBVIOUS
  <2>1. CASE s = r
    BY <2>1, <1>3, <1>5, <1>6 DEF ThreadOK, Submitted
  <2>2. CASE s # r
    BY <2>2, <1>5, <1>6 DEF ThreadOK, VideoInv
  <2> QED BY <2>1, <2>2
<1>9. \A j \in Ids : FileOK(j)'
  BY <1>3, <1>4, <1>5, <1>6 DEF VideoInv, FileOK
<1>11. \A s \in Requests : Submitted(req'[s]) =>
          s # r /\ Submitted(req[s]) /\ req'[s] = req[s] /\ req[s].id \in Ids
  BY <1>6 DEF Submitted, VideoInv, ThreadOK, VideoTyped
<1>12. Owned'
  <2> SUFFICES ASSUME NEW s \in Requests, Submitted(req'[s]), req'[s].id \notin Spoiled
               PROVE  OwnedBy(s)'
    BY <1>5 DEF Owned, Spoiled
  <2>0. OwnedBy(s) /\ s # r /\ req'[s] = req[s]
    BY <1>11 DEF VideoInv, Owned
  <2>1. req[s].id = p.id => ~Submitted(p) /\ p.copy # NoFile /\ Fits(req[s], p.copy)
    BY <2>0, <1>1, <1>3 DEF OwnedBy, ThreadOK, Submitted
  <2>2. req[s].id = p.id => Fits(req[s], x)
    BY <2>1, <1>3, <1>4, <1>11, VideoAssumption
       DEF Fits, Submitted, VideoInv, ThreadOK, VideoTyped, Threads
  <2>3. files'[req[s].id] # NoFile /\ Fits(req[s], files'[req[s].id])
    BY <2>0, <2>2, <1>4, <1>6, <1>11 DEF OwnedBy
  <2>4. \A t \in Requests : t # r => req'[t] = req[t]
    BY <1>6
  <2>5. ~Submitted(req'[r]) /\ req'[r].copy = NoFile
    BY <1>6 DEF Submitted
  <2> QED BY <2>0, <2>3, <2>4, <2>5, <1>5, <1>11 DEF OwnedBy, Fits
<1>13. OnePerKey'
  <2> SUFFICES ASSUME NEW k \in Keys \ {NoKey}, ~Disturbed(k) PROVE OneUnder(k)'
    BY <1>5 DEF OnePerKey, Disturbed
  <2>1. \A s \in Requests : ~FailedCopy(req'[s], k) /\ req'[s].pc # "reserving"
    BY <1>6 DEF FailedCopy
  <2>2. OneUnder(k)
    BY DEF VideoInv, OnePerKey
  <2>3. \A j \in Ids : j # p.id => (FailedFile(j, k)' <=> FailedFile(j, k))
    BY <1>6 DEF FailedFile
  <2>4. CASE x.status = "failed" /\ x.key = k
    <3>1. CASE p.kind = "create"
      <4>1. Submitted(p) /\ p.key = k
        <5>1. Submitted(p) /\ k \in used[p.id] /\ p.copy # NoFile /\ p.copy.key = k
          BY <3>1, <2>4, <1>3, <1>4 DEF Submitted
        <5>2. p.id \notin Spoiled
          BY <5>1, <1>3, UnderKey DEF VideoInv
        <5> QED BY <5>1, <5>2, <1>1 DEF VideoInv, Owned, OwnedBy, Fits
      <4>2. \A j \in Ids : ~FailedFile(j, k)
        BY <4>1, <1>1, <2>2 DEF OneUnder
      <4>3. \A s \in Requests : Submitted(req[s]) /\ req[s].key = k => s = r
        BY <4>1, <1>1, <2>2 DEF OneUnder
      <4> QED BY <4>2, <4>3, <2>1, <2>3, <1>11 DEF OneUnder
    <3>2. CASE p.kind = "edit" /\ p.copy.status = "failed"
      <4>1. FailedCopy(p, k)
        BY <3>2, <2>4, <1>3, <1>4 DEF FailedCopy
      <4>2. \A j \in Ids : FailedFile(j, k) => j = p.id
        BY <4>1, <1>1, <2>2 DEF OneUnder
      <4>3. \A s \in Requests : Submitted(req[s]) => req[s].key # k
        BY <4>1, <1>1, <2>2 DEF OneUnder
      <4> QED BY <4>2, <4>3, <2>1, <2>3, <1>11 DEF OneUnder
    <3> QED BY <3>1, <3>2, <2>4, <1>4
  <2>5. CASE ~(x.status = "failed" /\ x.key = k)
    <3>1. \A j \in Ids : FailedFile(j, k)' => FailedFile(j, k)
      BY <2>5, <2>3, <1>3, <1>6 DEF FailedFile
    <3> QED BY <3>1, <2>1, <2>2, <1>11 DEF OneUnder
  <2> QED BY <2>4, <2>5
<1>14. OldIsDone'
  BY <1>6 DEF OldIsDone
<1>15. RevisionsCounted'
  BY <1>6 DEF RevisionsCounted
<1> QED BY <1>7, <1>8, <1>9, <1>12, <1>13, <1>14, <1>15 DEF VideoInv

-----------------------------------------------------------------------------
(* The clean-up, the clock and crashes. *)

\* What a submission needs is too young for a clean-up with more than RunLimit.
LEMMA CleanupListKeeps ==
    ASSUME VideoInv, CleanupList PROVE VideoInv'
<1>1. PICK limit \in Limits :
        victims' = {j \in Ids : files[j] # NoFile /\ Expired(files[j], limit)} \X {limit}
  BY DEF CleanupList
<1>2. UNCHANGED <<files, lock, req, now, used, twice, reaped>> /\ limit \in Nat
  BY VideoAssumption DEF CleanupList
<1>3. \A v \in victims' : /\ v \in Ids \X Nat /\ v[2] = limit /\ used[v[1]] # {}
                          /\ files[v[1]] # NoFile /\ Expired(files[v[1]], limit)
  BY <1>1, <1>2 DEF VideoInv, FileOK
<1>4. VideoTyped' /\ (\A r \in Requests : ThreadOK(r, req[r])') /\ (\A j \in Ids : FileOK(j)')
  BY <1>2, <1>3 DEF VideoInv, VideoTyped, ThreadOK, FileOK
<1>5. Owned'
  <2> SUFFICES ASSUME NEW r \in Requests, Submitted(req[r]), req[r].id \notin Spoiled
               PROVE  OwnedBy(r)'
    BY <1>2 DEF Owned, Spoiled
  <2>1. OwnedBy(r)
    BY DEF VideoInv, Owned
  <2>2. ASSUME NEW v \in victims', v[1] = req[r].id PROVE v[2] <= RunLimit
    <3>1. PICK x \in Records : x = files[req[r].id]
      BY <1>3, <2>2 DEF VideoInv, VideoTyped
    <3>2. Fits(req[r], x) /\ Expired(x, limit)
      BY <1>3, <2>1, <2>2, <3>1 DEF OwnedBy
    <3>3. now \in Nat /\ x.active \in Nat
      BY DEF VideoInv, VideoTyped, Records
    <3> QED BY <1>2, <1>3, <2>2, <3>2, <3>3, VideoAssumption DEF Fits, Expired
  <2> QED BY <1>2, <2>1, <2>2 DEF OwnedBy, Fits
<1>6. OnePerKey' /\ OldIsDone' /\ RevisionsCounted'
  BY <1>2 DEF VideoInv, OnePerKey, OneUnder, FailedFile, OldIsDone, RevisionsCounted,
     Disturbed, Spoiled
<1> QED BY <1>4, <1>5, <1>6 DEF VideoInv

LEMMA CleanupDeleteKeeps ==
    ASSUME VideoInv, CleanupDelete PROVE VideoInv'
<1>1. PICK v \in victims :
        /\ victims' = victims \ {v}
        /\ files' = [files EXCEPT ![v[1]] = NoFile]
        /\ reaped' = IF /\ v[2] <= RunLimit
                        /\ \E r \in Requests : Submitted(req[r]) /\ req[r].id = v[1]
                     THEN reaped \cup {v[1]} ELSE reaped
  BY DEF CleanupDelete
<1>2. /\ UNCHANGED <<lock, req, now, used, twice>>
      /\ v[1] \in Ids
      /\ \A i \in Ids \ {v[1]} : files'[i] = files[i]
      /\ \A i \in Ids : files'[i] # NoFile => files'[i] = files[i]
      /\ Spoiled \subseteq Spoiled'
  BY <1>1 DEF CleanupDelete, VideoInv, VideoTyped, Spoiled
<1>3. VideoTyped' /\ (\A r \in Requests : ThreadOK(r, req[r])') /\ (\A i \in Ids : FileOK(i)')
  BY <1>1, <1>2 DEF VideoInv, VideoTyped, ThreadOK, FileOK
<1>5. Owned'
  <2> SUFFICES ASSUME NEW r \in Requests, Submitted(req[r]), req[r].id \notin Spoiled'
               PROVE  OwnedBy(r)'
    BY <1>2 DEF Owned
  <2>1. OwnedBy(r) /\ req[r].id \in Ids
    BY <1>2 DEF VideoInv, Owned, ThreadOK, Submitted
  <2>2. req[r].id # v[1]
    <3>1. req[r].id = v[1] => v[2] <= RunLimit
      BY <2>1 DEF OwnedBy
    <3> QED BY <3>1, <1>1 DEF Spoiled
  <2>3. files'[req[r].id] = files[req[r].id]
    BY <2>1, <2>2, <1>2
  <2> QED BY <2>1, <2>3, <1>1, <1>2 DEF OwnedBy, Fits
<1>6. OnePerKey'
  <2> SUFFICES ASSUME NEW k \in Keys \ {NoKey}, ~Disturbed(k) PROVE OneUnder(k)'
    BY <1>1, <1>2 DEF OnePerKey, Disturbed
  <2>1. \A i \in Ids : FailedFile(i, k)' => FailedFile(i, k)
    BY <1>2 DEF FailedFile
  <2>2. OneUnder(k)
    BY DEF VideoInv, OnePerKey
  <2> QED BY <1>2, <2>1, <2>2 DEF OneUnder
<1>7. OldIsDone' /\ RevisionsCounted'
  <2>1. \A r \in Requests : req[r].pc = "loaded" => req[r].id \in Ids
    BY DEF VideoInv, ThreadOK, VideoTyped
  <2> QED BY <2>1, <1>2 DEF VideoInv, OldIsDone, RevisionsCounted
<1> QED BY <1>3, <1>5, <1>6, <1>7 DEF VideoInv

\* Time passes only while nobody holds a copy, and not beyond what a prompt
\* may take.
LEMMA TickKeeps ==
    ASSUME VideoInv, Tick PROVE VideoInv'
<1>1. /\ UNCHANGED <<files, lock, req, victims, used, twice, reaped>> /\ now' = now + 1
      /\ \A r \in Requests :
            \/ req[r].pc = "idle"
            \/ req[r].pc = "upstream" /\ now < req[r].since + RunLimit
  BY DEF Tick
<1>2. \A r \in Requests : req[r].since \in Nat /\ req[r].copy = NoFile /\ now \in Nat
  BY <1>1 DEF VideoInv, VideoTyped, Threads, ThreadOK
<1>3. VideoTyped' /\ (\A r \in Requests : ThreadOK(r, req[r])') /\ (\A j \in Ids : FileOK(j)')
  BY <1>1, <1>2 DEF VideoInv, VideoTyped, ThreadOK, FileOK
<1>4. OldIsDone' /\ RevisionsCounted'
  BY <1>1 DEF VideoInv, OldIsDone, RevisionsCounted, Spoiled
<1>5. Owned'
  <2> SUFFICES ASSUME NEW r \in Requests, Submitted(req[r]), req[r].id \notin Spoiled
               PROVE  OwnedBy(r)'
    BY <1>1 DEF Owned, Spoiled
  <2>1. PICK x : x = files[req[r].id]
    OBVIOUS
  <2>2. OwnedBy(r) /\ x # NoFile /\ Fits(req[r], x)
    BY <2>1 DEF VideoInv, Owned, OwnedBy
  <2>3. x \in Records /\ x.active \in Nat
    BY <2>1, <2>2 DEF VideoInv, VideoTyped, ThreadOK, Submitted, Records
  <2>4. req[r].pc = "upstream" /\ now + 1 <= req[r].since + RunLimit
    BY <1>1, <1>2, VideoAssumption DEF Submitted
  <2>5. Fits(req[r], files[req[r].id])'
    BY <2>1, <2>2, <2>3, <2>4, <1>1, <1>2, VideoAssumption DEF Fits
  <2>6. \A s \in Requests : req'[s].copy = NoFile
    BY <1>1, <1>2
  <2> QED BY <2>1, <2>2, <2>4, <2>5, <2>6, <1>1 DEF OwnedBy
<1>6. OnePerKey'
  BY <1>1 DEF VideoInv, OnePerKey, OneUnder, FailedFile, Disturbed
<1> QED BY <1>3, <1>4, <1>5, <1>6 DEF VideoInv

LEMMA CrashKeeps ==
    ASSUME VideoInv, Crash PROVE VideoInv'
<1>1. /\ lock' = Free /\ req' = [r \in Requests |-> Idle] /\ victims' = {}
      /\ UNCHANGED <<files, now, used, twice, reaped>>
  BY DEF Crash
<1>2. \A r \in Requests : /\ req'[r] = Idle /\ req'[r].pc = "idle" /\ req'[r].kind = "none"
                          /\ req'[r].copy = NoFile /\ req'[r].since = 0
  BY <1>1 DEF Idle
<1>3. VideoTyped'
  BY <1>1, IdleIsThread DEF VideoInv, VideoTyped
<1>4. (\A r \in Requests : ThreadOK(r, req[r])') /\ (\A j \in Ids : FileOK(j)')
  BY <1>1, <1>2 DEF VideoInv, VideoTyped, ThreadOK, FileOK, Submitted
<1>5. Owned' /\ OldIsDone' /\ RevisionsCounted'
  BY <1>2 DEF Owned, OldIsDone, RevisionsCounted, Submitted
<1>6. OnePerKey'
  <2> SUFFICES ASSUME NEW k \in Keys \ {NoKey}, ~Disturbed(k) PROVE OneUnder(k)'
    BY <1>1 DEF OnePerKey, Disturbed
  <2>1. \A j \in Ids : FailedFile(j, k)' <=> FailedFile(j, k)
    BY <1>1 DEF FailedFile
  <2>2. OneUnder(k)
    BY DEF VideoInv, OnePerKey
  <2> QED BY <1>2, <2>1, <2>2 DEF OneUnder, FailedCopy, Submitted
<1> QED BY <1>3, <1>4, <1>5, <1>6 DEF VideoInv

LEMMA NextKeepsVideoInv ==
    ASSUME VideoInv, [VideoNext]_videoVars PROVE VideoInv'
<1>1. CASE UNCHANGED videoVars
  <2>1. UNCHANGED <<files, lock, req, victims, now, used, twice, reaped>>
    BY <1>1 DEF videoVars
  <2>2. VideoTyped' /\ (\A r \in Requests : ThreadOK(r, req[r])') /\ (\A j \in Ids : FileOK(j)')
    BY <2>1 DEF VideoInv, VideoTyped, ThreadOK, FileOK
  <2>3. Owned' /\ OldIsDone' /\ RevisionsCounted'
    BY <2>1 DEF VideoInv, Owned, OwnedBy, Fits, OldIsDone, RevisionsCounted, Spoiled
  <2>4. OnePerKey'
    BY <2>1 DEF VideoInv, OnePerKey, OneUnder, FailedFile, Disturbed
  <2> QED BY <2>2, <2>3, <2>4 DEF VideoInv
<1>2. ASSUME NEW r \in Requests,
             \/ ReserveScan(r) \/ ReserveSave(r)
             \/ Poll(r) \/ Revise(r) \/ LateSave(r)
             \/ UpstreamAnswers(r) \/ UpdateLoad(r) \/ EditLoad(r) \/ UpdateSave(r)
      PROVE  VideoInv'
  BY <1>2, ReserveScanKeeps, ReserveSaveKeeps, PollKeeps, ReviseKeeps, LateSaveKeeps,
     UpstreamAnswersKeeps, UpdateLoadKeeps, EditLoadKeeps, UpdateSaveKeeps
<1>3. CASE CleanupList \/ CleanupDelete \/ Tick \/ Crash
  BY <1>3, CleanupListKeeps, CleanupDeleteKeeps, TickKeeps, CrashKeeps
<1> QED BY <1>1, <1>2, <1>3 DEF VideoNext

-----------------------------------------------------------------------------
\* What SingleFlight says of the requests that are upstream.
LEMMA AtMostOne ==
    ASSUME NEW S, \A x, y \in S : x = y PROVE Cardinality(S) <= 1
<1>1. CASE S = {}
  BY <1>1, FS_EmptySet
<1>2. CASE S # {}
  <2>1. PICK x \in S : S = {x}
    BY <1>2
  <2> QED BY <2>1, FS_Singleton
<1> QED BY <1>1, <1>2

\* SingleFlight: for any number of requests and keys, any clock, any limits of
\* the clean-up and any crashes, two create requests with one submission key
\* have their prompts upstream at the same time only if a job of the key was
\* named like an earlier one, or lost its record to a cycle whose limit is no
\* longer than a run (reserve_video_job, evaluate_job_retention).
THEOREM PromptsFlyAlone == VideoSpec => []SingleFlight
<1>1. VideoInv => SingleFlight
  <2> SUFFICES ASSUME VideoInv, NEW k \in Keys \ {NoKey}, ~Disturbed(k)
               PROVE  Cardinality(InFlight(k)) <= 1
    BY DEF SingleFlight, OnePrompt
  <2>1. OneUnder(k)
    BY DEF VideoInv, OnePerKey
  <2>2. \A r, s \in InFlight(k) : r = s
    BY <2>1 DEF InFlight, OneUnder, Submitted
  <2> QED BY <2>2, AtMostOne
<1> QED BY <1>1, VideoInitKeeps, NextKeepsVideoInv, PTL DEF VideoSpec

\* RecordOutlivesPrompt: whatever limits the clean-up is asked for, a prompt
\* that is upstream loses its record only to a cycle whose limit is no longer
\* than a run, or under an id that was reserved before
\* (recover_stale_submitting_job, evaluate_job_retention).
THEOREM RecordsOutlivePrompts == VideoSpec => []RecordOutlivesPrompt
<1>1. VideoInv => RecordOutlivesPrompt
  BY DEF RecordOutlivesPrompt, VideoInv, Owned, OwnedBy, Submitted, Spoiled
<1> QED BY <1>1, VideoInitKeeps, NextKeepsVideoInv, PTL DEF VideoSpec

\* A step that changes only the files named loses no revision.
Keeps(j) ==
    (/\ files[j] # NoFile
     /\ files'[j] # NoFile
     /\ files'[j].status \notin {"submission_unknown", "submitting"})
        => files'[j].revisions >= files[j].revisions

LEMMA UnchangedKeeps ==
    ASSUME VideoTyped, NEW j \in Ids, files'[j] = files[j] PROVE Keeps(j)
<1>1. CASE files[j] = NoFile
  BY <1>1 DEF Keeps
<1>2. CASE files[j] # NoFile
  <2>1. files[j].revisions \in Nat
    BY <1>2 DEF VideoTyped, Records
  <2> QED BY <2>1 DEF Keeps
<1> QED BY <1>1, <1>2

LEMMA NextKeepsRevisions ==
    ASSUME VideoInv, [VideoNext]_videoVars, NEW j \in Ids PROVE Keeps(j)
<1> USE UnchangedKeeps DEF VideoInv
<1>1. CASE UNCHANGED files
  BY <1>1
<1>2. ASSUME NEW r \in Requests, ReserveSave(r) PROVE Keeps(j)
  <2>1. req[r].id \in Ids /\ now \in Nat /\ req[r].key \in Keys \cup {NoKey}
    BY <1>2 DEF ReserveSave, ThreadOK, VideoTyped, Threads
  <2>2. files'[j] \in {files[j], NoFile, Submitting(req[r].key)}
    BY <1>2, <2>1 DEF ReserveSave
  <2>3. Submitting(req[r].key).status = "submitting"
    BY <2>1, SubmittingRecord
  <2> QED BY <2>2, <2>3 DEF Keeps
<1>3. ASSUME NEW r \in Requests, LateSave(r) PROVE Keeps(j)
  <2>1. req[r].copy.status = "submission_unknown" /\ req[r].id \in Ids
    BY <1>3 DEF LateSave, ThreadOK, VideoTyped
  <2>2. files' = [files EXCEPT ![req[r].id] = req[r].copy]
    BY <1>3 DEF LateSave
  <2> QED BY <2>1, <2>2 DEF Keeps, VideoTyped
<1>4. ASSUME NEW r \in Requests, UpdateSave(r) PROVE Keeps(j)
  <2>1. PICK p \in Threads : p = req[r]
    BY DEF VideoTyped
  <2>2. /\ p.pc = "loaded" /\ p.id \in Ids
        /\ p.copy # NoFile /\ p.copy.status = "submitting" => p.copy.revisions = 0
        /\ p.copy = NoFile => p.kind = "create"
        /\ p.kind \in {"create", "revise", "edit"} /\ now \in Nat
    BY <1>4, <2>1 DEF UpdateSave, ThreadOK, VideoTyped
  <2>3. PICK x : x = Updated(p)
    OBVIOUS
  <2>4. x \in Records /\ (IF p.copy = NoFile THEN 0 ELSE p.copy.revisions) <= x.revisions
    <3>1. CASE p.copy = NoFile
      BY <3>1, <2>2, <2>3, FinishedRecord DEF Records
    <3>2. CASE p.copy # NoFile
      BY <3>2, <2>2, <2>3, UpdatedRecord
    <3> QED BY <3>1, <3>2
  <2>5. files' = [files EXCEPT ![p.id] = x]
    BY <1>4, <2>1, <2>3 DEF UpdateSave
  <2>6. CASE j = p.id /\ files[j] # NoFile
    <3>1. /\ files[j].revisions <= (IF p.copy = NoFile THEN 0 ELSE p.copy.revisions)
          /\ files[j].revisions \in Nat /\ x.revisions \in Nat
          /\ p.copy # NoFile => p.copy.revisions \in Nat
      BY <2>1, <2>2, <2>4, <2>6 DEF RevisionsCounted, VideoTyped, Threads, Records
    <3> QED BY <3>1, <2>4, <2>5, <2>6 DEF Keeps, VideoTyped
  <2>7. CASE j # p.id
    BY <2>5, <2>7 DEF VideoTyped
  <2> QED BY <2>6, <2>7 DEF Keeps
<1>5. ASSUME NEW r \in Requests, NEW q, q.id \in Ids, TakesUp(r, q) PROVE Keeps(j)
  <2>1. CASE files' = [files EXCEPT ![q.id] = IF @ = NoFile THEN @ ELSE Recovered(@)]
    <3>1. CASE j = q.id /\ files[j] # NoFile
      <4>1. files[j] \in Records /\ now \in Nat
        BY <3>1 DEF VideoTyped
      <4>2. files'[j] = Recovered(files[j])
        BY <2>1, <3>1 DEF VideoTyped
      <4>3. files'[j].revisions = files[j].revisions /\ files[j].revisions \in Nat
        BY <4>1, <4>2, RecoveredRecord DEF Records
      <4> QED BY <4>3 DEF Keeps
    <3>2. CASE j # q.id
      BY <2>1, <3>2 DEF VideoTyped
    <3> QED BY <3>1, <3>2 DEF Keeps
  <2>2. CASE UNCHANGED files
    BY <2>2
  <2> QED BY <1>5, <2>1, <2>2 DEF TakesUp
<1>6. ASSUME NEW r \in Requests, UpdateLoad(r) PROVE Keeps(j)
  <2>1. req[r].id \in Ids /\ TakesUp(r, req[r])
    BY <1>6 DEF UpdateLoad, ThreadOK, VideoTyped
  <2> QED BY <2>1, <1>5
<1>7. ASSUME NEW r \in Requests, EditLoad(r) PROVE Keeps(j)
  <2>1. PICK i \in Ids : TakesUp(r, [Idle EXCEPT !.kind = "edit", !.id = i])
    BY <1>7 DEF EditLoad
  <2>2. [Idle EXCEPT !.kind = "edit", !.id = i].id = i
    BY DEF Idle
  <2> QED BY <2>1, <2>2, <1>5
<1>8. CASE CleanupDelete
  <2>1. files'[j] = NoFile \/ files'[j] = files[j]
    BY <1>8 DEF CleanupDelete, VideoTyped
  <2> QED BY <2>1 DEF Keeps
<1>9. CASE UNCHANGED videoVars \/ CleanupList \/ Tick \/ Crash
  BY <1>1, <1>9 DEF videoVars, CleanupList, Tick, Crash
<1>10. ASSUME NEW r \in Requests,
              ReserveScan(r) \/ Poll(r) \/ Revise(r) \/ UpstreamAnswers(r)
       PROVE  Keeps(j)
  BY <1>1, <1>10 DEF ReserveScan, Poll, Revise, UpstreamAnswers
<1> QED BY <1>2, <1>3, <1>4, <1>6, <1>7, <1>8, <1>9, <1>10 DEF VideoNext

\* RevisionsKept: whatever is saved under the lock has all the revisions the
\* file had, however polls, edits and clean-ups interleave
\* (append_job_revision, build_video_result_with_job_id).
THEOREM RevisionsAreKept == VideoSpec => RevisionsKept
<1>1. VideoInv /\ [VideoNext]_videoVars => [\A j \in Ids : Keeps(j)]_videoVars
  BY NextKeepsRevisions
<1>2. [\A j \in Ids : Keeps(j)]_videoVars =>
        [\A j \in Ids :
            (/\ files[j] # NoFile
             /\ files'[j] # NoFile
             /\ files'[j].status \notin {"submission_unknown", "submitting"})
                => files'[j].revisions >= files[j].revisions]_videoVars
  BY DEF Keeps
<1> QED BY <1>1, <1>2, VideoInitKeeps, NextKeepsVideoInv, PTL DEF VideoSpec, RevisionsKept
=============================================================================
