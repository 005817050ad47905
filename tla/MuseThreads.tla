---------------------------- MODULE MuseThreads ----------------------------
(***************************************************************************)
(* The registry of Muse threads and their clean-up (museai/threads).  A    *)
(* chat that completes leaves its thread in a file under .gw_state/threads *)
(* and in a list in memory.  Clean-up cycles, started by the worker or by  *)
(* a request, delete what has outlived its retention: first the sessions   *)
(* the account lists upstream, then the threads that are tracked.  The     *)
(* last part of a cycle, the video jobs, is in VideoJobs.                  *)
(*                                                                         *)
(* Files and list are changed one after the other, and a cycle reads the   *)
(* files without a lock.  A time stamp is modelled by its age in ticks,    *)
(* which stops at Retention; a thread loaded from its file has lost its    *)
(* credentials, which makes its deletion fail more often and is left out.  *)
(***************************************************************************)
EXTENDS Integers, FiniteSets

CONSTANTS
    Threads,      \* sessions of the account
    Primary,      \* the session that is no thread
    Worker,       \* the clean-up worker
    Requests,     \* requests that clean up
    Retention,    \* museai_thread_retention_secs, in ticks
    MaxCrashes    \* bound on crashes

ASSUME ThreadsAssumption ==
    /\ Primary \in Threads
    /\ Worker \notin Requests
    /\ Retention \in Nat \ {0}
    /\ MaxCrashes \in Nat

VARIABLES
    disk,      \* thread-<id>.json: the age of the record
    memory,    \* TRACKED_THREADS: the age of the entry
    upstream,  \* each session on the Muse VM
    owed,      \* registered, and not yet asked to be deleted
    running,   \* CLEANUP_RUNNING
    cleaner,   \* those who clean up: where they are and their locals
    chat,      \* a chat request
    crashes,
    lost       \* what a crash cut out of the registry

vars == <<disk, memory, upstream, owed, running, cleaner, chat, crashes, lost>>
registry == <<disk, memory>>

Cleaners == Requests \cup {Worker}
Untracked == -1
Ages == 0..Retention
Tracks == [Threads -> Ages \cup {Untracked}]

Resting == [pc |-> "idle", all |-> FALSE, todo |-> {}, found |-> [t \in Threads |-> Untracked],
            at |-> Primary, then |-> "idle"]
Quiet == [pc |-> "idle", at |-> Primary]

Init ==
    /\ disk = [t \in Threads |-> Untracked]
    /\ memory = [t \in Threads |-> Untracked]
    /\ upstream = [t \in Threads |-> [state |-> IF t = Primary THEN "live" ELSE "none", age |-> 0]]
    /\ owed = {}
    /\ running = FALSE
    /\ cleaner = [c \in Cleaners |-> Resting]
    /\ chat = Quiet
    /\ crashes = 0
    /\ lost = {}

Alive(t) == upstream[t].state = "live"
Goes(c, q) == cleaner' = [cleaner EXCEPT ![c] = q]
On(c, label) == cleaner[c].pc = label

\* now >= created_at + the smaller of the thread's retention and the cycle's.
Due(age, c) == age = Retention \/ (cleaner[c].all /\ age # Untracked)

\* delete_muse_thread: over the VM's channel, else over HTTP.  Whatever comes
\* of it is taken for done.
Asks(t) ==
    /\ owed' = owed \ {t}
    /\ upstream' \in {upstream, [upstream EXCEPT ![t].state = IF @ = "live" THEN "gone" ELSE @]}

-----------------------------------------------------------------------------
(* unregister_thread, for whoever calls it: the file, then the entry. *)

UnregisterFile(c) ==
    /\ On(c, "unregister")
    /\ disk' = [disk EXCEPT ![cleaner[c].at] = Untracked]
    /\ Goes(c, [cleaner[c] EXCEPT !.pc = "unregister entry"])
    /\ UNCHANGED <<memory, upstream, owed, running, chat, crashes, lost>>

UnregisterEntry(c) ==
    /\ On(c, "unregister entry")
    /\ memory' = [memory EXCEPT ![cleaner[c].at] = Untracked]
    /\ Goes(c, [cleaner[c] EXCEPT !.pc = cleaner[c].then])
    /\ UNCHANGED <<disk, upstream, owed, running, chat, crashes, lost>>

\* DELETE .../threads/<id>.
DeleteThread(c) ==
    /\ c # Worker /\ On(c, "idle")
    /\ \E t \in Threads \ {Primary} :
        Goes(c, [Resting EXCEPT !.pc = "unregister", !.at = t, !.then = "ask"])
    /\ UNCHANGED <<registry, upstream, owed, running, chat, crashes, lost>>

AskOne(c) ==
    /\ On(c, "ask")
    /\ Asks(cleaner[c].at)
    /\ Goes(c, Resting)
    /\ UNCHANGED <<registry, running, chat, crashes, lost>>

-----------------------------------------------------------------------------
(* A cycle. *)

\* One that finds another under way is skipped.  A request may name its own
\* retention, down to none.
BeginCycle(c) ==
    /\ On(c, "idle") /\ ~running
    /\ running' = TRUE
    /\ \E all \in BOOLEAN :
        /\ all => c # Worker
        /\ Goes(c, [Resting EXCEPT !.pc = "purge", !.all = all])
    /\ UNCHANGED <<registry, upstream, owed, chat, crashes, lost>>

\* Mutant: a cycle whose remote part fails returns there, without the guard
\* that resets the flag.
PurgeEndsCycle(c) ==
    /\ On(c, "purge")
    /\ Goes(c, Resting)
    /\ UNCHANGED <<registry, upstream, owed, running, chat, crashes, lost>>

\* Without credentials, a connection or a list the remote part is left out.
PurgeSkipped(c) ==
    /\ On(c, "purge")
    /\ Goes(c, [cleaner[c] EXCEPT !.pc = "sync"])
    /\ UNCHANGED <<registry, upstream, owed, running, chat, crashes, lost>>

\* Every session of the account but the primary one, by its creation.
PurgeLists(c) ==
    /\ On(c, "purge")
    /\ Goes(c, [cleaner[c] EXCEPT
            !.pc = "purging",
            !.todo = {t \in Threads \ {Primary} : Alive(t) /\ Due(upstream[t].age, c)}])
    /\ UNCHANGED <<registry, upstream, owed, running, chat, crashes, lost>>

\* The session is deleted, or archived, and forgotten here.
PurgeDeletes(c, t) ==
    /\ On(c, "purging") /\ t \in cleaner[c].todo
    /\ Alive(t)
    /\ upstream' = [upstream EXCEPT ![t].state = "gone"]
    /\ owed' = owed \ {t}
    /\ Goes(c, [cleaner[c] EXCEPT !.pc = "unregister", !.todo = @ \ {t}, !.at = t,
                                  !.then = "purging"])
    /\ UNCHANGED <<registry, running, chat, crashes, lost>>

\* Mutant: a session that is not deleted is forgotten all the same.
PurgeRefusedForgets(c, t) ==
    /\ On(c, "purging") /\ t \in cleaner[c].todo
    /\ Goes(c, [cleaner[c] EXCEPT !.pc = "unregister", !.todo = @ \ {t}, !.at = t,
                                  !.then = "purging"])
    /\ UNCHANGED <<registry, upstream, owed, running, chat, crashes, lost>>

PurgeRefused(c, t) ==
    /\ On(c, "purging") /\ t \in cleaner[c].todo
    /\ Goes(c, [cleaner[c] EXCEPT !.todo = @ \ {t}])
    /\ UNCHANGED <<registry, upstream, owed, running, chat, crashes, lost>>

Purged(c) ==
    /\ On(c, "purging") /\ cleaner[c].todo = {}
    /\ Goes(c, [cleaner[c] EXCEPT !.pc = "sync"])
    /\ UNCHANGED <<registry, upstream, owed, running, chat, crashes, lost>>

\* sync_threads_from_disk: the files are read, and those of them without an
\* entry get one.
SyncReads(c) ==
    /\ On(c, "sync")
    /\ Goes(c, [cleaner[c] EXCEPT !.pc = "merge", !.found = disk])
    /\ UNCHANGED <<registry, upstream, owed, running, chat, crashes, lost>>

SyncMerges(c) ==
    /\ On(c, "merge")
    /\ memory' = [t \in Threads |-> IF memory[t] = Untracked THEN cleaner[c].found[t]
                                    ELSE memory[t]]
    /\ Goes(c, [cleaner[c] EXCEPT !.pc = "expire", !.found = Resting.found])
    /\ UNCHANGED <<disk, upstream, owed, running, chat, crashes, lost>>

\* The entries that are due leave the list together...
Expire(c) ==
    /\ On(c, "expire")
    /\ LET due == {t \in Threads : Due(memory[t], c)} IN
        /\ memory' = [t \in Threads |-> IF t \in due THEN Untracked ELSE memory[t]]
        /\ Goes(c, [cleaner[c] EXCEPT !.pc = "dropping", !.todo = due])
    /\ UNCHANGED <<disk, upstream, owed, running, chat, crashes, lost>>

\* ... and one by one lose their file and are deleted upstream.
DropFile(c) ==
    /\ On(c, "dropping")
    /\ \E t \in cleaner[c].todo :
        /\ disk' = [disk EXCEPT ![t] = Untracked]
        /\ Goes(c, [cleaner[c] EXCEPT !.pc = "dropped", !.at = t])
    /\ UNCHANGED <<memory, upstream, owed, running, chat, crashes, lost>>

DropUpstream(c) ==
    /\ On(c, "dropped")
    /\ Asks(cleaner[c].at)
    /\ Goes(c, [cleaner[c] EXCEPT !.pc = "dropping", !.todo = @ \ {cleaner[c].at}])
    /\ UNCHANGED <<registry, running, chat, crashes, lost>>

EndCycle(c) ==
    /\ On(c, "dropping") /\ cleaner[c].todo = {}
    /\ running' = FALSE
    /\ Goes(c, Resting)
    /\ UNCHANGED <<registry, upstream, owed, chat, crashes, lost>>

-----------------------------------------------------------------------------
(* Chats, as far as their thread goes. *)

Talks(t) == chat' = [pc |-> "talk", at |-> t]

\* A new thread; one of the browser's is never registered here.
NewThread(t) ==
    /\ upstream[t].state = "none"
    /\ upstream' = [upstream EXCEPT ![t] = [state |-> "live", age |-> 0]]
    /\ \/ chat.pc = "idle" /\ Talks(t)
       \/ UNCHANGED chat
    /\ UNCHANGED <<registry, owed, running, cleaner, crashes, lost>>

\* A further turn of a thread; what is not a thread is not acknowledged.
ContinueThread(t) ==
    /\ chat.pc = "idle"
    /\ t # Primary /\ Alive(t)
    /\ Talks(t)
    /\ UNCHANGED <<registry, upstream, owed, running, cleaner, crashes, lost>>

\* Failing after the thread was made, it leaves it untracked, as it does when
\* museai_auto_cleanup_threads is off.
ChatLeaves ==
    /\ chat.pc = "talk"
    /\ chat' = Quiet
    /\ UNCHANGED <<registry, upstream, owed, running, cleaner, crashes, lost>>

\* register_thread: the file, then the entry, both as of now.
RegisterFile ==
    /\ chat.pc = "talk"
    /\ disk' = [disk EXCEPT ![chat.at] = 0]
    /\ owed' = owed \cup {chat.at}
    /\ chat' = [chat EXCEPT !.pc = "register"]
    /\ UNCHANGED <<memory, upstream, running, cleaner, crashes, lost>>

RegisterEntry ==
    /\ chat.pc = "register"
    /\ memory' = [memory EXCEPT ![chat.at] = 0]
    /\ chat' = Quiet
    /\ UNCHANGED <<disk, upstream, owed, running, cleaner, crashes, lost>>

\* With a retention of 0: the deletion is sent on the chat's own connection,
\* its answer not awaited, and the thread unregistered.
Dismiss ==
    /\ chat.pc = "talk"
    /\ Asks(chat.at)
    /\ chat' = [chat EXCEPT !.pc = "dismiss file"]
    /\ UNCHANGED <<registry, running, cleaner, crashes, lost>>

DismissFile ==
    /\ chat.pc = "dismiss file"
    /\ disk' = [disk EXCEPT ![chat.at] = Untracked]
    /\ chat' = [chat EXCEPT !.pc = "dismiss entry"]
    /\ UNCHANGED <<memory, upstream, owed, running, cleaner, crashes, lost>>

DismissEntry ==
    /\ chat.pc = "dismiss entry"
    /\ memory' = [memory EXCEPT ![chat.at] = Untracked]
    /\ chat' = Quiet
    /\ UNCHANGED <<disk, upstream, owed, running, cleaner, crashes, lost>>

-----------------------------------------------------------------------------
Older(age) == IF age \in 0..(Retention - 1) THEN age + 1 ELSE age

Tick ==
    /\ disk' = [t \in Threads |-> Older(disk[t])]
    /\ memory' = [t \in Threads |-> Older(memory[t])]
    /\ upstream' = [t \in Threads |->
            IF Alive(t) /\ t # Primary THEN [upstream[t] EXCEPT !.age = Older(@)]
            ELSE upstream[t]]
    /\ UNCHANGED <<owed, running, cleaner, chat, crashes, lost>>

\* The process dies and comes back: the files are left.
Crash ==
    /\ crashes < MaxCrashes
    /\ crashes' = crashes + 1
    /\ memory' = [t \in Threads |-> Untracked]
    /\ running' = FALSE
    /\ cleaner' = [c \in Cleaners |-> Resting]
    /\ chat' = Quiet
    /\ lost' = lost \cup {t \in owed : disk[t] = Untracked}
    /\ UNCHANGED <<disk, upstream, owed>>

CycleStep(c) ==
    \/ PurgeSkipped(c) \/ PurgeLists(c) \/ Purged(c)
    \/ \E t \in Threads : PurgeDeletes(c, t) \/ PurgeRefused(c, t)
    \/ UnregisterFile(c) \/ UnregisterEntry(c) \/ AskOne(c)
    \/ SyncReads(c) \/ SyncMerges(c) \/ Expire(c)
    \/ DropFile(c) \/ DropUpstream(c) \/ EndCycle(c)

ChatStep ==
    \/ ChatLeaves \/ RegisterFile \/ RegisterEntry
    \/ Dismiss \/ DismissFile \/ DismissEntry

Next ==
    \/ \E c \in Cleaners : BeginCycle(c) \/ DeleteThread(c) \/ CycleStep(c)
    \/ \E t \in Threads : NewThread(t) \/ ContinueThread(t)
    \/ ChatStep \/ Tick \/ Crash

Spec == Init /\ [][Next]_vars

\* Time passes, the worker starts a cycle at every interval, and a cycle, which
\* waits for the network with a time limit, runs on.  The VM can be reached
\* and deletes a session every so often.
Fairness ==
    /\ WF_vars(Tick)
    /\ WF_vars(BeginCycle(Worker))
    /\ \A c \in Cleaners : WF_vars(CycleStep(c))
    /\ SF_vars(\E c \in Cleaners : PurgeLists(c))
    /\ \A t \in Threads : SF_vars(\E c \in Cleaners : PurgeDeletes(c, t))

FairSpec == Spec /\ Fairness

-----------------------------------------------------------------------------
AboutToAsk(c, t) ==
    \/ On(c, "dropping") /\ t \in cleaner[c].todo
    \/ cleaner[c].at = t /\ On(c, "dropped")
    \/ cleaner[c].at = t /\ cleaner[c].then = "ask"
                         /\ cleaner[c].pc \in {"unregister", "unregister entry", "ask"}

\* A thread that was registered stays in its file or in memory until its
\* deletion has been asked for, whichever way chats, cycles and requests
\* interleave on the two; only a crash cuts a thread out of the registry, and
\* only one whose file was gone.
NoneForgotten ==
    \A t \in {u \in owed \ lost : Alive(u)} :
        \/ disk[t] # Untracked \/ memory[t] # Untracked
        \/ \E c \in Cleaners : AboutToAsk(c, t)

\* Every session but the primary one is deleted in the end: a cycle that fails,
\* is skipped or is cut short by a crash does not keep the later ones from
\* running (cleanup_cycle_with_config).
Reclaimed == \A t \in Threads \ {Primary} : Alive(t) ~> ~Alive(t)

\* docs/muse-chat.md says a further turn renews the thread's time stamp, so that
\* a discussion that goes on is not reclaimed: no cycle at the configured
\* retention deletes a thread whose record is younger.
ActiveThreadsKept ==
    [][\A c \in Cleaners, t \in Threads :
        (/\ cleaner[c].pc \in {"purging", "dropped"} /\ ~cleaner[c].all
         /\ t \in cleaner[c].todo /\ t \notin cleaner'[c].todo
         /\ Alive(t) /\ upstream'[t].state = "gone")
            => disk[t] \notin 0..(Retention - 1)]_vars
=============================================================================
