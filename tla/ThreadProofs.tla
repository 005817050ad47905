---------------------------- MODULE ThreadProofs ----------------------------
(***************************************************************************)
(* Theorems about MuseThreads, for any set of threads, requests and any    *)
(* retention and number of crashes.  The registry in memory turns out not  *)
(* to matter: a thread keeps its file until its deletion is asked for.     *)
(***************************************************************************)
EXTENDS MuseThreads, TLAPS

CleanerLabels == {"idle", "purge", "purging", "sync", "merge", "expire", "dropping",
                  "dropped", "unregister", "unregister entry", "ask"}
CleanerStates == [pc : CleanerLabels, all : BOOLEAN, todo : SUBSET Threads,
                  found : [Threads -> Int], at : Threads, then : CleanerLabels]
ChatStates == [pc : {"idle", "talk", "register", "dismiss file", "dismiss entry"},
               at : Threads]
Sessions == [state : {"none", "live", "gone"}, age : Int]

Typed ==
    /\ disk \in [Threads -> Int]
    /\ upstream \in [Threads -> Sessions]
    /\ owed \in SUBSET Threads
    /\ cleaner \in [Cleaners -> CleanerStates]
    /\ chat \in ChatStates

\* The file is gone, and the deletion is asked for next.
Removing(q, t) ==
    /\ q.at = t
    /\ \/ q.pc = "dropped"
       \/ q.pc \in {"unregister entry", "ask"} /\ q.then = "ask"

Filed ==
    \A t \in owed \ lost : Alive(t) =>
        \/ disk[t] # Untracked
        \/ \E c \in Cleaners : Removing(cleaner[c], t)

\* What is unregistered without being asked for is deleted already.
Proper(q) ==
    /\ q.pc \in {"unregister", "unregister entry"} /\ q.then # "ask"
           => upstream[q.at].state = "gone"
    /\ q.pc = "ask" => q.then = "ask"

\* A chat talks to a thread that was made; one it dismisses is not owed.
Chatting ==
    /\ upstream[chat.at].state # "none"
    /\ chat.pc = "dismiss file" => chat.at \notin owed

Made == \A t \in owed \cup {Primary} : upstream[t].state # "none"

IInv ==
    /\ Typed /\ Filed /\ Chatting /\ Made
    /\ \A c \in Cleaners : Proper(cleaner[c])

-----------------------------------------------------------------------------
LEMMA RestingState ==
    /\ Resting \in CleanerStates /\ Proper(Resting) /\ Resting.pc = "idle"
    /\ Quiet \in ChatStates /\ Quiet.at = Primary /\ Quiet.pc = "idle"
BY ThreadsAssumption
   DEF Resting, CleanerStates, CleanerLabels, Proper, Quiet, ChatStates, Untracked

LEMMA UntrackedFacts == Untracked \in Int /\ 0 # Untracked
BY DEF Untracked

LEMMA InitInv == Init => IInv
<1> SUFFICES ASSUME Init PROVE IInv
  OBVIOUS
<1>1. \A t \in Threads : upstream[t] \in Sessions
  BY DEF Init, Sessions
<1>2. Typed
  BY <1>1, RestingState DEF Init, Typed, Untracked
<1>3. upstream[Primary].state = "live"
  BY ThreadsAssumption DEF Init
<1> QED BY <1>2, <1>3, RestingState DEF Init, IInv, Filed, Chatting, Made

-----------------------------------------------------------------------------
(* A step keeps the invariant when upstream only loses sessions or makes    *)
(* one, and each thread whose file goes is about to be asked for, asked     *)
(* for, or deleted.                                                         *)

LEMMA CleanerMoves ==
    ASSUME IInv, NEW c \in Cleaners, NEW q \in CleanerStates,
           cleaner' = [cleaner EXCEPT ![c] = q],
           disk' \in [Threads -> Int], upstream' \in [Threads -> Sessions],
           owed' \in SUBSET owed, UNCHANGED <<chat, lost>>,
           \A t \in Threads : upstream'[t].state \in {upstream[t].state, "gone"},
           q.pc \in {"unregister", "unregister entry"} /\ q.then # "ask"
               => upstream'[q.at].state = "gone",
           q.pc = "ask" => q.then = "ask",
           \A t \in owed' :
               disk[t] # Untracked \/ Removing(cleaner[c], t)
                   => \/ disk'[t] # Untracked
                      \/ Removing(q, t)
                      \/ upstream'[t].state # "live"
    PROVE  IInv'
<1> USE DEF IInv
<1>1. Typed'
  BY DEF Typed
<1>2. cleaner'[c] = q /\ \A o \in Cleaners \ {c} : cleaner'[o] = cleaner[o]
  BY DEF Typed
<1>3. \A o \in Cleaners : cleaner[o].at \in Threads
  BY DEF Typed, CleanerStates
<1>4. \A o \in Cleaners : Proper(cleaner[o])'
  <2>1. Proper(cleaner[c])'
    BY <1>2 DEF Proper
  <2>2. ASSUME NEW o \in Cleaners \ {c} PROVE Proper(cleaner[o])'
    <3>1. cleaner'[o] = cleaner[o] /\ Proper(cleaner[o])
      BY <1>2
    <3>2. upstream[cleaner[o].at].state = "gone" => upstream'[cleaner[o].at].state = "gone"
      BY <1>3
    <3> QED BY <3>1, <3>2 DEF Proper
  <2> QED BY <2>1, <2>2
<1>5. Filed'
  <2> SUFFICES ASSUME NEW t \in owed', t \notin lost', Alive(t)'
               PROVE  \/ disk'[t] # Untracked
                      \/ \E o \in Cleaners : Removing(cleaner'[o], t)
    BY DEF Filed, Removing
  <2>1. t \in owed \ lost /\ Alive(t) /\ upstream'[t].state = "live"
    BY DEF Alive, Typed
  <2>2. CASE disk[t] # Untracked \/ Removing(cleaner[c], t)
    BY <1>2, <2>1, <2>2
  <2>3. CASE \E o \in Cleaners \ {c} : Removing(cleaner[o], t)
    BY <1>2, <2>3
  <2> QED BY <2>1, <2>2, <2>3 DEF Filed
<1>6. Chatting' /\ Made'
  BY ThreadsAssumption DEF Chatting, Made, Typed, ChatStates
<1> QED BY <1>1, <1>4, <1>5, <1>6

LEMMA Facts ==
    ASSUME IInv, NEW c \in Cleaners
    PROVE  /\ cleaner[c] \in CleanerStates /\ Proper(cleaner[c])
           /\ disk \in [Threads -> Int] /\ upstream \in [Threads -> Sessions]
           /\ owed \in SUBSET Threads /\ chat \in ChatStates
BY DEF IInv, Typed

\* Steps that only move the cleaner, among labels at which it removes nothing.
LEMMA CleanerTurns ==
    ASSUME IInv, NEW c \in Cleaners, NEW q \in CleanerStates,
           cleaner' = [cleaner EXCEPT ![c] = q],
           UNCHANGED <<disk, upstream, owed, chat, lost>>,
           cleaner[c].pc \in {"idle", "purge", "purging", "sync", "merge", "expire", "dropping"},
           \/ q.pc \in {"idle", "purge", "purging", "sync", "merge", "expire", "dropping"}
           \/ q.pc = "unregister" /\ q.then = "ask"
    PROVE  IInv'
<1>1. disk \in [Threads -> Int] /\ upstream \in [Threads -> Sessions]
  BY Facts
<1>2. \A t : ~Removing(cleaner[c], t)
  BY DEF Removing
<1> QED BY <1>1, <1>2, CleanerMoves DEF Alive

LEMMA DeleteThreadKeeps ==
    ASSUME IInv, NEW c \in Cleaners, DeleteThread(c) PROVE IInv'
<1>1. PICK t \in Threads \ {Primary} :
          cleaner' = [cleaner EXCEPT ![c] =
              [Resting EXCEPT !.pc = "unregister", !.at = t, !.then = "ask"]]
  BY DEF DeleteThread, Goes
<1> DEFINE q == [Resting EXCEPT !.pc = "unregister", !.at = t, !.then = "ask"]
<1>2. q \in CleanerStates /\ q.pc = "unregister" /\ q.then = "ask"
  BY RestingState DEF CleanerStates, CleanerLabels
<1>3. cleaner[c].pc = "idle" /\ UNCHANGED <<disk, upstream, owed, chat, lost>>
  BY DEF DeleteThread, On, registry
<1>4. cleaner' = [cleaner EXCEPT ![c] = q]
  BY <1>1
<1> HIDE DEF q
<1> QED BY <1>2, <1>3, <1>4, CleanerTurns

LEMMA BeginCycleKeeps ==
    ASSUME IInv, NEW c \in Cleaners, BeginCycle(c) PROVE IInv'
<1>1. PICK all \in BOOLEAN :
          cleaner' = [cleaner EXCEPT ![c] = [Resting EXCEPT !.pc = "purge", !.all = all]]
  BY DEF BeginCycle, Goes
<1> DEFINE q == [Resting EXCEPT !.pc = "purge", !.all = all]
<1>2. q \in CleanerStates /\ q.pc = "purge"
  BY RestingState DEF CleanerStates, CleanerLabels
<1>3. cleaner[c].pc = "idle" /\ UNCHANGED <<disk, upstream, owed, chat, lost>>
  BY DEF BeginCycle, On, registry
<1>4. cleaner' = [cleaner EXCEPT ![c] = q]
  BY <1>1
<1> HIDE DEF q
<1> QED BY <1>2, <1>3, <1>4, CleanerTurns

\* The steps of a cycle that write no file and ask for nothing.
LEMMA CycleTurns ==
    ASSUME IInv, NEW c \in Cleaners,
           \/ PurgeSkipped(c) \/ PurgeLists(c) \/ Purged(c)
           \/ (\E t \in Threads : PurgeRefused(c, t))
           \/ SyncReads(c) \/ SyncMerges(c) \/ Expire(c) \/ EndCycle(c)
    PROVE  IInv'
<1>1. /\ cleaner[c] \in CleanerStates /\ disk \in [Threads -> Int]
  BY Facts
<1>2. UNCHANGED <<disk, upstream, owed, chat, lost>>
  BY DEF PurgeSkipped, PurgeLists, Purged, PurgeRefused, SyncReads, SyncMerges, Expire,
         EndCycle, registry
<1>3. CASE PurgeSkipped(c) \/ Purged(c)
  <2> DEFINE q == [cleaner[c] EXCEPT !.pc = "sync"]
  <2>1. q \in CleanerStates /\ q.pc = "sync"
    BY <1>1 DEF CleanerStates, CleanerLabels
  <2>2. cleaner[c].pc \in {"purge", "purging"} /\ cleaner' = [cleaner EXCEPT ![c] = q]
    BY <1>3 DEF PurgeSkipped, Purged, On, Goes
  <2> HIDE DEF q
  <2> QED BY <1>2, <2>1, <2>2, CleanerTurns
<1>4. CASE PurgeLists(c)
  <2> DEFINE todo == {t \in Threads \ {Primary} : Alive(t) /\ Due(upstream[t].age, c)}
             q == [cleaner[c] EXCEPT !.pc = "purging", !.todo = todo]
  <2>1. cleaner' = [cleaner EXCEPT ![c] = q] /\ cleaner[c].pc = "purge"
    BY <1>4 DEF PurgeLists, On, Goes
  <2>2. todo \in SUBSET Threads
    OBVIOUS
  <2> HIDE DEF todo
  <2>3. q \in CleanerStates /\ q.pc = "purging"
    BY <1>1, <2>2 DEF CleanerStates, CleanerLabels
  <2> HIDE DEF q
  <2> QED BY <1>2, <2>1, <2>3, CleanerTurns
<1>5. ASSUME NEW t \in Threads, PurgeRefused(c, t) PROVE IInv'
  <2> DEFINE q == [cleaner[c] EXCEPT !.todo = @ \ {t}]
  <2>1. cleaner' = [cleaner EXCEPT ![c] = q] /\ cleaner[c].pc = "purging"
    BY <1>5 DEF PurgeRefused, On, Goes
  <2>2. q \in CleanerStates /\ q.pc = "purging"
    BY <1>1, <2>1 DEF CleanerStates
  <2> HIDE DEF q
  <2> QED BY <1>2, <2>1, <2>2, CleanerTurns
<1>6. CASE SyncReads(c)
  <2> DEFINE q == [cleaner[c] EXCEPT !.pc = "merge", !.found = disk]
  <2>1. cleaner' = [cleaner EXCEPT ![c] = q] /\ cleaner[c].pc = "sync"
    BY <1>6 DEF SyncReads, On, Goes
  <2>2. q \in CleanerStates /\ q.pc = "merge"
    BY <1>1 DEF CleanerStates, CleanerLabels
  <2> HIDE DEF q
  <2> QED BY <1>2, <2>1, <2>2, CleanerTurns
<1>7. CASE SyncMerges(c)
  <2> DEFINE q == [cleaner[c] EXCEPT !.pc = "expire", !.found = Resting.found]
  <2>1. cleaner' = [cleaner EXCEPT ![c] = q] /\ cleaner[c].pc = "merge"
    BY <1>7 DEF SyncMerges, On, Goes
  <2>2. Resting.found \in [Threads -> Int]
    BY RestingState DEF CleanerStates
  <2>3. q \in CleanerStates /\ q.pc = "expire"
    BY <1>1, <2>2 DEF CleanerStates, CleanerLabels
  <2> HIDE DEF q
  <2> QED BY <1>2, <2>1, <2>3, CleanerTurns
<1>8. CASE Expire(c)
  <2> DEFINE due == {t \in Threads : Due(memory[t], c)}
             q == [cleaner[c] EXCEPT !.pc = "dropping", !.todo = due]
  <2>1. cleaner' = [cleaner EXCEPT ![c] = q] /\ cleaner[c].pc = "expire"
    BY <1>8 DEF Expire, On, Goes
  <2>2. due \in SUBSET Threads
    OBVIOUS
  <2> HIDE DEF due
  <2>3. q \in CleanerStates /\ q.pc = "dropping"
    BY <1>1, <2>2 DEF CleanerStates, CleanerLabels
  <2> HIDE DEF q
  <2> QED BY <1>2, <2>1, <2>3, CleanerTurns
<1>9. CASE EndCycle(c)
  <2>1. cleaner' = [cleaner EXCEPT ![c] = Resting] /\ cleaner[c].pc = "dropping"
    BY <1>9 DEF EndCycle, On, Goes
  <2> QED BY <1>2, <2>1, RestingState, CleanerTurns
<1> QED BY <1>3, <1>4, <1>5, <1>6, <1>7, <1>8, <1>9

\* The session is gone before its file is.
LEMMA PurgeDeletesKeeps ==
    ASSUME IInv, NEW c \in Cleaners, NEW t \in Threads, PurgeDeletes(c, t) PROVE IInv'
<1> DEFINE q == [cleaner[c] EXCEPT !.pc = "unregister", !.todo = @ \ {t}, !.at = t,
                                   !.then = "purging"]
<1>1. /\ cleaner[c] \in CleanerStates /\ disk \in [Threads -> Int]
      /\ upstream \in [Threads -> Sessions]
  BY Facts
<1>2. /\ cleaner' = [cleaner EXCEPT ![c] = q] /\ cleaner[c].pc = "purging"
      /\ upstream' = [upstream EXCEPT ![t].state = "gone"]
      /\ owed' = owed \ {t} /\ UNCHANGED <<disk, chat, lost>>
  BY DEF PurgeDeletes, On, Goes, registry
<1>3. /\ q \in CleanerStates /\ q.pc = "unregister" /\ q.at = t /\ q.then = "purging"
  BY <1>1 DEF CleanerStates, CleanerLabels
<1>4. /\ upstream' \in [Threads -> Sessions] /\ upstream'[t].state = "gone"
      /\ \A u \in Threads \ {t} : upstream'[u] = upstream[u]
  BY <1>1, <1>2 DEF Sessions
<1>5. \A u : ~Removing(cleaner[c], u)
  BY <1>2 DEF Removing
<1> HIDE DEF q
<1> QED BY <1>1, <1>2, <1>3, <1>4, <1>5, CleanerMoves DEF Alive

LEMMA UnregisterFileKeeps ==
    ASSUME IInv, NEW c \in Cleaners, UnregisterFile(c) PROVE IInv'
<1> DEFINE q == [cleaner[c] EXCEPT !.pc = "unregister entry"]
<1>1. /\ cleaner[c] \in CleanerStates /\ Proper(cleaner[c]) /\ disk \in [Threads -> Int]
      /\ upstream \in [Threads -> Sessions]
  BY Facts
<1>2. /\ cleaner' = [cleaner EXCEPT ![c] = q] /\ cleaner[c].pc = "unregister"
      /\ disk' = [disk EXCEPT ![cleaner[c].at] = Untracked]
      /\ UNCHANGED <<upstream, owed, chat, lost>>
  BY DEF UnregisterFile, On, Goes
<1>3. /\ q \in CleanerStates /\ q.pc = "unregister entry" /\ q.at = cleaner[c].at
      /\ q.then = cleaner[c].then
  BY <1>1 DEF CleanerStates, CleanerLabels
<1>4. disk' \in [Threads -> Int] /\ \A t \in Threads \ {q.at} : disk'[t] = disk[t]
  <2>1. Untracked \in Int
    BY DEF Untracked
  <2> HIDE DEF q
  <2> QED BY <1>1, <1>2, <1>3, <2>1
<1>5. q.then = "ask" => Removing(q, q.at)
  BY <1>3 DEF Removing
<1>6. q.then # "ask" => upstream[q.at].state = "gone"
  BY <1>1, <1>2, <1>3 DEF Proper
<1>7. \A t : ~Removing(cleaner[c], t)
  BY <1>2 DEF Removing
<1>8. owed \in SUBSET Threads
  BY Facts
<1> HIDE DEF q
<1>9. \A t \in owed' :
          disk[t] # Untracked \/ Removing(cleaner[c], t)
              => \/ disk'[t] # Untracked
                 \/ Removing(q, t)
                 \/ upstream'[t].state # "live"
  BY <1>2, <1>4, <1>5, <1>6, <1>7, <1>8
<1>10. q.pc # "ask" /\ UNCHANGED upstream /\ (q.then # "ask" => upstream'[q.at].state = "gone")
  <2>1. UNCHANGED upstream
    BY <1>2
  <2> QED BY <1>3, <1>6, <2>1
<1>11. /\ owed' \in SUBSET owed /\ upstream' \in [Threads -> Sessions]
       /\ \A t \in Threads : upstream'[t].state \in {upstream[t].state, "gone"}
  BY <1>1, <1>2
<1>12. UNCHANGED <<chat, lost>> /\ cleaner' = [cleaner EXCEPT ![c] = q]
  BY <1>2
<1>13. q.pc \in {"unregister", "unregister entry"} /\ q.then # "ask"
           => upstream'[q.at].state = "gone"
  BY <1>10
<1>14. q \in CleanerStates /\ (q.pc = "ask" => q.then = "ask") /\ disk' \in [Threads -> Int]
  BY <1>3, <1>4
<1> QED BY <1>9, <1>11, <1>12, <1>13, <1>14, CleanerMoves

LEMMA UnregisterEntryKeeps ==
    ASSUME IInv, NEW c \in Cleaners, UnregisterEntry(c) PROVE IInv'
<1> DEFINE q == [cleaner[c] EXCEPT !.pc = cleaner[c].then]
<1>1. /\ cleaner[c] \in CleanerStates /\ Proper(cleaner[c]) /\ disk \in [Threads -> Int]
      /\ upstream \in [Threads -> Sessions]
  BY Facts
<1>2. /\ cleaner' = [cleaner EXCEPT ![c] = q] /\ cleaner[c].pc = "unregister entry"
      /\ UNCHANGED <<disk, upstream, owed, chat, lost>>
  BY DEF UnregisterEntry, On, Goes
<1>3. /\ q \in CleanerStates /\ q.pc = q.then /\ q.at = cleaner[c].at
      /\ q.then = cleaner[c].then
  BY <1>1 DEF CleanerStates
<1>4. q.then # "ask" => upstream[q.at].state = "gone"
  BY <1>1, <1>2, <1>3 DEF Proper
<1>5. \A t : Removing(cleaner[c], t) => Removing(q, t)
  BY <1>2, <1>3 DEF Removing
<1> HIDE DEF q
<1> QED BY <1>1, <1>2, <1>3, <1>4, <1>5, CleanerMoves DEF Alive

LEMMA AsksFacts ==
    ASSUME IInv, NEW t \in Threads, Asks(t)
    PROVE  /\ owed' = owed \ {t}
           /\ upstream' \in [Threads -> Sessions]
           /\ \A u \in Threads : upstream'[u].state \in {upstream[u].state, "gone"}
<1>1. upstream \in [Threads -> Sessions]
  BY DEF IInv, Typed
<1>2. CASE upstream' = upstream
  BY <1>1, <1>2 DEF Asks, Alive
<1>3. CASE upstream' = [upstream EXCEPT ![t].state = IF @ = "live" THEN "gone" ELSE @]
  <2>1. upstream' \in [Threads -> Sessions]
    BY <1>1, <1>3 DEF Sessions
  <2>2. \A u \in Threads : upstream'[u].state \in {upstream[u].state, "gone"}
    BY <1>1, <1>3 DEF Sessions
  <2> QED BY <2>1, <2>2 DEF Asks, Alive
<1> QED BY <1>2, <1>3 DEF Asks

LEMMA AskOneKeeps ==
    ASSUME IInv, NEW c \in Cleaners, AskOne(c) PROVE IInv'
<1>1. cleaner[c] \in CleanerStates /\ disk \in [Threads -> Int]
  BY Facts
<1>2. cleaner[c].at \in Threads
  BY <1>1 DEF CleanerStates
<1>3. /\ cleaner' = [cleaner EXCEPT ![c] = Resting] /\ cleaner[c].pc = "ask"
      /\ Asks(cleaner[c].at) /\ UNCHANGED <<disk, chat, lost>>
  BY DEF AskOne, On, Goes, registry
<1>4. \A t : Removing(cleaner[c], t) => t = cleaner[c].at
  BY DEF Removing
<1> QED BY <1>1, <1>2, <1>3, <1>4, AsksFacts, RestingState, CleanerMoves

LEMMA DropFileKeeps ==
    ASSUME IInv, NEW c \in Cleaners, DropFile(c) PROVE IInv'
<1>1. PICK u \in cleaner[c].todo :
          /\ disk' = [disk EXCEPT ![u] = Untracked]
          /\ cleaner' = [cleaner EXCEPT ![c] = [cleaner[c] EXCEPT !.pc = "dropped", !.at = u]]
  BY DEF DropFile, Goes
<1> DEFINE q == [cleaner[c] EXCEPT !.pc = "dropped", !.at = u]
<1>2. /\ cleaner[c] \in CleanerStates /\ disk \in [Threads -> Int]
      /\ upstream \in [Threads -> Sessions] /\ owed \in SUBSET Threads
  BY Facts
<1>3. u \in Threads
  BY <1>2 DEF CleanerStates
<1>4. q \in CleanerStates /\ q.pc = "dropped" /\ q.at = u
  BY <1>2, <1>3 DEF CleanerStates, CleanerLabels
<1>5. /\ cleaner[c].pc = "dropping" /\ UNCHANGED <<upstream, owed, chat, lost>>
  BY DEF DropFile, On
<1>6. disk' \in [Threads -> Int] /\ \A t \in Threads \ {u} : disk'[t] = disk[t]
  BY <1>1, <1>2, <1>3 DEF Untracked
<1>7. Removing(q, u) /\ \A t : ~Removing(cleaner[c], t)
  BY <1>4, <1>5 DEF Removing
<1>8. cleaner' = [cleaner EXCEPT ![c] = q]
  BY <1>1
<1> HIDE DEF q
<1>9. \A t \in owed' :
          disk[t] # Untracked \/ Removing(cleaner[c], t)
              => \/ disk'[t] # Untracked
                 \/ Removing(q, t)
                 \/ upstream'[t].state # "live"
  BY <1>2, <1>5, <1>6, <1>7
<1>10. /\ owed' \in SUBSET owed /\ upstream' \in [Threads -> Sessions]
       /\ \A t \in Threads : upstream'[t].state \in {upstream[t].state, "gone"}
  BY <1>2, <1>5
<1> QED BY <1>4, <1>5, <1>6, <1>8, <1>9, <1>10, CleanerMoves

LEMMA DropUpstreamKeeps ==
    ASSUME IInv, NEW c \in Cleaners, DropUpstream(c) PROVE IInv'
<1> DEFINE q == [cleaner[c] EXCEPT !.pc = "dropping", !.todo = @ \ {cleaner[c].at}]
<1>1. cleaner[c] \in CleanerStates /\ disk \in [Threads -> Int]
  BY Facts
<1>2. cleaner[c].at \in Threads /\ q \in CleanerStates /\ q.pc = "dropping"
  BY <1>1 DEF CleanerStates, CleanerLabels
<1>3. /\ cleaner' = [cleaner EXCEPT ![c] = q] /\ cleaner[c].pc = "dropped"
      /\ Asks(cleaner[c].at) /\ UNCHANGED <<disk, chat, lost>>
  BY DEF DropUpstream, On, Goes, registry
<1>4. \A t : Removing(cleaner[c], t) => t = cleaner[c].at
  BY DEF Removing
<1> HIDE DEF q
<1> QED BY <1>1, <1>2, <1>3, <1>4, AsksFacts, CleanerMoves

LEMMA CleanerStepKeeps ==
    ASSUME IInv, NEW c \in Cleaners, BeginCycle(c) \/ DeleteThread(c) \/ CycleStep(c)
    PROVE  IInv'
BY BeginCycleKeeps, DeleteThreadKeeps, CycleTurns, PurgeDeletesKeeps, UnregisterFileKeeps,
   UnregisterEntryKeeps, AskOneKeeps, DropFileKeeps, DropUpstreamKeeps DEF CycleStep

-----------------------------------------------------------------------------
(* The steps of everybody else. *)

LEMMA OthersMove ==
    ASSUME IInv, UNCHANGED <<cleaner, lost>>,
           disk' \in [Threads -> Int], upstream' \in [Threads -> Sessions],
           owed' \in SUBSET Threads, chat' \in ChatStates,
           \A t \in Threads : \/ upstream'[t].state \in {upstream[t].state, "gone"}
                             \/ upstream[t].state = "none",
           \A t \in owed' :
               \/ disk'[t] # Untracked
               \/ t \in owed /\ disk[t] = Untracked,
           \A t \in owed' \ owed : upstream[t].state # "none",
           upstream'[chat'.at].state # "none",
           chat'.pc = "dismiss file" => chat'.at \notin owed'
    PROVE  IInv'
<1> USE DEF IInv
<1>1. Typed'
  BY DEF Typed
<1>2. Chatting' /\ Made'
  BY ThreadsAssumption DEF Chatting, Made, Typed
<1>3. \A c \in Cleaners : Proper(cleaner[c])'
  <2>1. \A c \in Cleaners : cleaner[c].at \in Threads
    BY DEF Typed, CleanerStates
  <2> QED BY <2>1 DEF Proper
<1>4. Filed'
  <2> SUFFICES ASSUME NEW t \in owed', t \notin lost, Alive(t)', disk'[t] = Untracked
               PROVE  \E c \in Cleaners : Removing(cleaner'[c], t)
    BY DEF Filed, Removing
  <2>1. t \in owed /\ disk[t] = Untracked /\ Alive(t)
    BY DEF Made, Typed, Alive
  <2> QED BY <2>1 DEF Filed
<1> QED BY <1>1, <1>2, <1>3, <1>4

LEMMA Situation ==
    ASSUME IInv
    PROVE  /\ disk \in [Threads -> Int] /\ upstream \in [Threads -> Sessions]
           /\ owed \in SUBSET Threads /\ chat \in ChatStates /\ chat.at \in Threads
           /\ upstream[chat.at].state # "none"
           /\ chat.pc = "dismiss file" => chat.at \notin owed
BY DEF IInv, Typed, Chatting, ChatStates

LEMMA NewThreadKeeps ==
    ASSUME IInv, NEW t \in Threads, NewThread(t) PROVE IInv'
<1>1. /\ upstream[t].state = "none"
      /\ upstream' = [upstream EXCEPT ![t] = [state |-> "live", age |-> 0]]
      /\ UNCHANGED <<disk, owed, cleaner, lost>>
      /\ chat' \in {[pc |-> "talk", at |-> t], chat}
  BY DEF NewThread, registry, Talks
<1>2. /\ upstream' \in [Threads -> Sessions] /\ upstream'[t].state = "live"
      /\ \A u \in Threads \ {t} : upstream'[u] = upstream[u]
  <2>1. [state |-> "live", age |-> 0] \in Sessions
    BY DEF Sessions
  <2>2. upstream \in [Threads -> Sessions]
    BY Situation
  <2> QED BY <1>1, <2>1, <2>2
<1>3. /\ chat' \in ChatStates /\ upstream'[chat'.at].state # "none"
      /\ chat'.pc = "dismiss file" => chat'.at \notin owed
  <2>1. CASE chat' = [pc |-> "talk", at |-> t]
    BY <1>2, <2>1 DEF ChatStates
  <2>2. CASE chat' = chat
    BY <1>2, <2>2, Situation
  <2> QED BY <1>1, <2>1, <2>2
<1> QED BY <1>1, <1>2, <1>3, Situation, OthersMove

LEMMA ContinueThreadKeeps ==
    ASSUME IInv, NEW t \in Threads, ContinueThread(t) PROVE IInv'
<1>1. /\ Alive(t) /\ chat' = [pc |-> "talk", at |-> t]
      /\ UNCHANGED <<disk, upstream, owed, cleaner, lost>>
  BY DEF ContinueThread, Talks, registry
<1>2. chat' \in ChatStates /\ chat'.at = t /\ chat'.pc = "talk"
  BY <1>1 DEF ChatStates
<1> QED BY <1>1, <1>2, Situation, OthersMove DEF Alive

LEMMA ChatStepKeeps ==
    ASSUME IInv, ChatStep PROVE IInv'
<1>1. CASE ChatLeaves \/ RegisterEntry \/ DismissEntry
  <2>1. chat' = Quiet /\ UNCHANGED <<disk, upstream, owed, cleaner, lost>>
    BY <1>1 DEF ChatLeaves, RegisterEntry, DismissEntry, registry
  <2>2. upstream[Primary].state # "none"
    BY DEF IInv, Made
  <2> QED BY <2>1, <2>2, RestingState, Situation, OthersMove
<1>2. CASE RegisterFile
  <2>1. /\ disk' = [disk EXCEPT ![chat.at] = 0] /\ owed' = owed \cup {chat.at}
        /\ chat' = [chat EXCEPT !.pc = "register"]
        /\ UNCHANGED <<upstream, cleaner, lost>>
    BY <1>2 DEF RegisterFile
  <2>2. chat' \in ChatStates /\ chat'.pc = "register" /\ chat'.at = chat.at
    BY <2>1, Situation DEF ChatStates
  <2>3. /\ disk' \in [Threads -> Int] /\ disk'[chat.at] # Untracked
        /\ \A u \in Threads \ {chat.at} : disk'[u] = disk[u]
    <3>1. disk \in [Threads -> Int] /\ chat.at \in Threads
      BY Situation
    <3>2. disk' \in [Threads -> Int] /\ disk'[chat.at] = 0
      BY <2>1, <3>1
    <3> QED BY <2>1, <3>1, <3>2, UntrackedFacts
  <2> QED BY <2>1, <2>2, <2>3, Situation, OthersMove
<1>3. CASE Dismiss
  <2>1. /\ Asks(chat.at) /\ chat' = [chat EXCEPT !.pc = "dismiss file"]
        /\ UNCHANGED <<disk, cleaner, lost>>
    BY <1>3 DEF Dismiss, registry
  <2>2. chat' \in ChatStates /\ chat'.at = chat.at
    BY <2>1, Situation DEF ChatStates
  <2>3. /\ owed' = owed \ {chat.at} /\ upstream' \in [Threads -> Sessions]
        /\ \A u \in Threads : upstream'[u].state \in {upstream[u].state, "gone"}
    BY <2>1, Situation, AsksFacts
  <2>4. upstream'[chat'.at].state # "none" /\ chat'.at \notin owed'
    BY <2>2, <2>3, Situation
  <2>5. \A u \in owed' : disk'[u] # Untracked \/ (u \in owed /\ disk[u] = Untracked)
    BY <2>1, <2>3
  <2> QED BY <2>1, <2>2, <2>3, <2>4, <2>5, Situation, OthersMove
<1>4. CASE DismissFile
  <2>1. /\ chat.pc = "dismiss file" /\ disk' = [disk EXCEPT ![chat.at] = Untracked]
        /\ chat' = [chat EXCEPT !.pc = "dismiss entry"]
        /\ UNCHANGED <<upstream, owed, cleaner, lost>>
    BY <1>4 DEF DismissFile
  <2>2. chat' \in ChatStates /\ chat'.pc = "dismiss entry" /\ chat'.at = chat.at
    BY <2>1, Situation DEF ChatStates
  <2>3. /\ disk' \in [Threads -> Int]
        /\ \A u \in Threads \ {chat.at} : disk'[u] = disk[u]
    BY <2>1, Situation, UntrackedFacts
  <2> QED BY <2>1, <2>2, <2>3, Situation, OthersMove
<1> QED BY <1>1, <1>2, <1>3, <1>4 DEF ChatStep

LEMMA TickKeeps ==
    ASSUME IInv, Tick PROVE IInv'
<1>1. \A a \in Int : Older(a) \in Int /\ (Older(a) = Untracked <=> a = Untracked)
  BY ThreadsAssumption DEF Older, Untracked
<1>2. /\ disk' = [t \in Threads |-> Older(disk[t])]
      /\ UNCHANGED <<owed, cleaner, chat, lost>>
  BY DEF Tick
<1>3. /\ disk' \in [Threads -> Int]
      /\ \A t \in Threads : disk'[t] = Untracked <=> disk[t] = Untracked
  BY <1>1, <1>2, Situation
<1>4. /\ upstream' \in [Threads -> Sessions]
      /\ \A t \in Threads : upstream'[t].state = upstream[t].state
  <2>1. upstream' = [t \in Threads |->
            IF Alive(t) /\ t # Primary THEN [upstream[t] EXCEPT !.age = Older(@)]
            ELSE upstream[t]]
    BY DEF Tick
  <2>2. ASSUME NEW t \in Threads
        PROVE  upstream'[t] \in Sessions /\ upstream'[t].state = upstream[t].state
    <3>1. upstream[t] \in Sessions
      BY Situation
    <3>2. Older(upstream[t].age) \in Int
      BY <1>1, <3>1 DEF Sessions
    <3> QED BY <2>1, <3>1, <3>2 DEF Sessions
  <2> QED BY <2>1, <2>2
<1> QED BY <1>2, <1>3, <1>4, Situation, OthersMove

\* What a crash cuts off is the thread whose file was gone.
LEMMA CrashKeeps ==
    ASSUME IInv, Crash PROVE IInv'
<1> USE DEF IInv
<1>1. /\ cleaner' = [c \in Cleaners |-> Resting] /\ chat' = Quiet
      /\ lost' = lost \cup {t \in owed : disk[t] = Untracked}
      /\ UNCHANGED <<disk, upstream, owed>>
  BY DEF Crash
<1>2. Typed'
  BY <1>1, RestingState DEF Typed
<1>3. Filed'
  BY <1>1 DEF Filed, Removing
<1>4. Chatting' /\ Made'
  BY <1>1, RestingState DEF Chatting, Made
<1>5. \A c \in Cleaners : Proper(cleaner[c])'
  BY <1>1 DEF Proper, Resting
<1> QED BY <1>2, <1>3, <1>4, <1>5

LEMMA NextKeeps == IInv /\ [Next]_vars => IInv'
<1> SUFFICES ASSUME IInv, [Next]_vars PROVE IInv'
  OBVIOUS
<1>1. CASE UNCHANGED vars
  <2>1. UNCHANGED <<disk, upstream, owed, cleaner, chat, lost>>
    BY <1>1 DEF vars, registry
  <2> QED BY <2>1, Situation, OthersMove DEF IInv, Filed
<1>2. CASE Next
  BY <1>2, CleanerStepKeeps, NewThreadKeeps, ContinueThreadKeeps, ChatStepKeeps,
     TickKeeps, CrashKeeps DEF Next
<1> QED BY <1>1, <1>2

-----------------------------------------------------------------------------
\* A registered thread is never out of the registry before its deletion has
\* been asked for, whatever chats, cycles and requests interleave, for any
\* number of threads; only a crash cuts one out.
THEOREM NothingForgotten == Spec => []NoneForgotten
<1>1. IInv => NoneForgotten
  <2> SUFFICES ASSUME IInv, NEW t \in owed \ lost, Alive(t), disk[t] = Untracked
               PROVE  \E c \in Cleaners : AboutToAsk(c, t)
    BY DEF NoneForgotten
  <2>1. PICK c \in Cleaners : Removing(cleaner[c], t)
    BY DEF IInv, Filed
  <2>2. AboutToAsk(c, t)
    BY <2>1 DEF Removing, AboutToAsk, On
  <2> QED BY <2>2
<1> QED BY <1>1, InitInv, NextKeeps, PTL DEF Spec
=============================================================================
