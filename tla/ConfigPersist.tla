--------------------------- MODULE ConfigPersist ---------------------------
(***************************************************************************)
(* Saving the configuration: requests change a part of it in memory and    *)
(* then each calls ConfigStore::save_to_persistent_file, which reads the   *)
(* parts one after the other and hands the image to write_atomic_0600: a   *)
(* temporary file of a fixed name is truncated, written and renamed over   *)
(* gateway_config.json.  Nothing serialises the savers.                    *)
(*                                                                         *)
(* The file system: a name leads to an inode, an open file keeps its inode *)
(* through a rename, and truncating a file that exists keeps its inode.    *)
(* One write stores an image (a call of a few KB is not cut short).        *)
(***************************************************************************)
EXTENDS Integers, FiniteSets

CONSTANTS
    Savers,      \* worker threads that save
    Values,      \* what a part of the configuration can be
    Off,         \* the value "none" (io_timeout 0, an emptied list)
    Default,     \* what the environment gives a part the file leaves out
    MaxUpdates,  \* requests in a behaviour
    MaxCrashes   \* crashes in a behaviour

ASSUME PersistAssumption ==
    /\ IsFiniteSet(Savers)
    /\ Off \notin Values
    /\ Default \in Values
    /\ MaxUpdates \in Nat /\ MaxCrashes \in Nat

\* The Config, the account pool, the module registry: each under its own lock.
Parts == {"settings", "accounts", "registry"}

\* Only settings have a value the file leaves out (PersistentConfig::from_config
\* skips None and empty strings and lists).
Choices(p) == IF p = "settings" THEN Values \cup {Off} ELSE Values

\* What apply_to restores of a stored part.
Stored(p, v) == IF p = "settings" /\ v = Off THEN Default ELSE v

Images == [Parts -> Values \cup {Off}]
Initial == [p \in Parts |-> Default]

\* What an inode holds: a whole image, nothing, or a mixture of two.
Contents == [is : {"whole", "empty", "torn"}, image : Images]
Whole(image) == [is |-> "whole", image |-> image]
Empty == [is |-> "empty", image |-> Initial]
Torn == [is |-> "torn", image |-> Initial]
NoInode == 0
Inodes == 1..(Cardinality(Savers) + 2)

VARIABLES
    up,         \* the gateway runs
    mem,        \* the configuration in memory
    saver,      \* what each saver is doing: its label, its image, its file
    tmp, file,  \* the inodes the two names lead to
    content,    \* what each inode holds
    acked,      \* ghost: values whose saving succeeded, Unsure otherwise
    updates, crashes

vars == <<up, mem, saver, tmp, file, content, acked, updates, crashes>>
disk == <<tmp, file, content>>

Unsure == "unsure"
Labels == {"idle", "settings", "accounts", "registry", "open", "write", "rename"}
Resting == [pc |-> "idle", image |-> Initial, fd |-> NoInode]

\* The domains of the variables.
TypeOK ==
    /\ up \in BOOLEAN
    /\ mem \in Images
    /\ saver \in [Savers -> [pc : Labels, image : Images,
                             fd : Inodes \cup {NoInode}]]
    /\ tmp \in Inodes \cup {NoInode}
    /\ file \in Inodes
    /\ content \in [Inodes -> Contents]
    /\ acked \in [Parts -> Values \cup {Off, Unsure}]
    /\ updates \in 0..MaxUpdates
    /\ crashes \in 0..MaxCrashes

Init ==
    /\ up = TRUE
    /\ mem = Initial
    /\ saver = [s \in Savers |-> Resting]
    /\ tmp = NoInode
    /\ file = 1
    /\ content = [i \in Inodes |-> IF i = 1 THEN Whole(mem) ELSE Empty]
    /\ acked = mem
    /\ updates = 0 /\ crashes = 0

At(s, label) == up /\ saver[s].pc = label
Goto(s, label) == saver' = [saver EXCEPT ![s].pc = label]

-----------------------------------------------------------------------------
\* A request changes one part, under that part's lock.
Update(s) ==
    /\ At(s, "idle")
    /\ updates < MaxUpdates
    /\ updates' = updates + 1
    /\ \E p \in Parts : \E v \in Choices(p) :
          /\ mem' = [mem EXCEPT ![p] = v]
          /\ acked' = [acked EXCEPT ![p] = Unsure]
    /\ Goto(s, "settings")
    /\ UNCHANGED <<up, disk, crashes>>

Following == [settings |-> "accounts", accounts |-> "registry", registry |-> "open"]

\* Mutant: the modules are read before the request's own change shows.
ReadPartStale(s, p) ==
    /\ At(s, p)
    /\ saver' = [saver EXCEPT ![s].pc = Following[p],
           ![s].image[p] = IF p = "registry" THEN content[file].image[p] ELSE mem[p]]
    /\ UNCHANGED <<up, mem, disk, acked, updates, crashes>>

\* save_to_persistent_file reads the parts, each under its own lock.
ReadPart(s, p) ==
    /\ At(s, p)
    /\ saver' = [saver EXCEPT ![s].pc = Following[p], ![s].image[p] = mem[p]]
    /\ UNCHANGED <<up, mem, disk, acked, updates, crashes>>

\* Inodes no name and no open file leads to.
Unlinked == {i \in Inodes : i \notin {tmp, file} /\ \A s \in Savers : saver[s].fd # i}

\* Mutant: the configuration file itself is opened for writing.
OpenTmpInPlace(s) ==
    /\ At(s, "open")
    /\ content' = [content EXCEPT ![file] = Empty]
    /\ saver' = [saver EXCEPT ![s].pc = "write", ![s].fd = file]
    /\ tmp' = file
    /\ UNCHANGED <<up, mem, file, acked, updates, crashes>>

\* std::fs::write opens .gateway_config.json~tmp: created or truncated.
OpenTmp(s) ==
    /\ At(s, "open")
    /\ \E i \in IF tmp = NoInode THEN Unlinked ELSE {tmp} :
          /\ tmp' = i
          /\ content' = [content EXCEPT ![i] = Empty]
          /\ saver' = [saver EXCEPT ![s].pc = "write", ![s].fd = i]
    /\ UNCHANGED <<up, mem, file, acked, updates, crashes>>

\* The image is written from the start of the file: over another image, unless
\* it is as long, it leaves a mixture.
WriteTmp(s) ==
    /\ At(s, "write")
    /\ LET i == saver[s].fd
           new == Whole(saver[s].image) IN
       \/ content' = [content EXCEPT ![i] = new]
       \/ /\ content[i] \notin {Empty, new}
          /\ content' = [content EXCEPT ![i] = Torn]
    /\ saver' = [saver EXCEPT ![s].pc = "rename", ![s].fd = NoInode]
    /\ UNCHANGED <<up, mem, tmp, file, acked, updates, crashes>>

\* The save fails: the disk is full, or another saver renamed the file away.
\* The request is answered all the same.
SaveFails(s) ==
    /\ \/ At(s, "write")
       \/ At(s, "rename") /\ tmp = NoInode
    /\ saver' = [saver EXCEPT ![s] = Resting]
    /\ UNCHANGED <<up, mem, disk, acked, updates, crashes>>

\* The rename, and the request's answer.
Rename(s) ==
    /\ At(s, "rename")
    /\ tmp # NoInode
    /\ file' = tmp
    /\ tmp' = NoInode
    /\ saver' = [saver EXCEPT ![s] = Resting]
    /\ acked' = IF \E o \in Savers \ {s} : saver[o].pc # "idle"
                THEN [p \in Parts |-> Unsure] ELSE saver[s].image
    /\ UNCHANGED <<up, mem, content, updates, crashes>>

\* The process dies: what was renamed or written so far is what there is.
Crash ==
    /\ up
    /\ crashes < MaxCrashes
    /\ crashes' = crashes + 1
    /\ up' = FALSE
    /\ saver' = [s \in Savers |-> Resting]
    /\ UNCHANGED <<mem, disk, acked, updates>>

Parses(i) == content[i].is = "whole"

\* What a start makes of the file: load_persistent_config gives up on a file
\* that does not parse, then every part is the environment's.
Restored == [p \in Parts |-> IF Parses(file) THEN Stored(p, content[file].image[p])
                             ELSE Default]

\* Mutant: the environment wins over the file.
RestartUnread ==
    /\ ~up
    /\ up' = TRUE
    /\ mem' = Initial
    /\ UNCHANGED <<saver, disk, acked, updates, crashes>>

Restart ==
    /\ ~up
    /\ up' = TRUE
    /\ mem' = Restored
    /\ UNCHANGED <<saver, disk, acked, updates, crashes>>

Next ==
    \/ \E s \in Savers :
          \/ Update(s)
          \/ \E p \in Parts : ReadPart(s, p)
          \/ OpenTmp(s) \/ WriteTmp(s) \/ SaveFails(s) \/ Rename(s)
    \/ Crash \/ Restart

Spec == Init /\ [][Next]_vars

-----------------------------------------------------------------------------
\* The file is complete JSON at every moment, so also for the start after a
\* crash (docs/CONFIGURATION.md, Atomic File Write Guarantees).
FileParses == Parses(file)

\* A setting whose saving succeeded is in force after any number of crashes,
\* in the middle of later saves too; one that is off is not promised.
AckedInForce ==
    (up /\ \A s \in Savers : saver[s].pc = "idle")
        => \A p \in Parts : acked[p] \notin {Unsure, Off} => mem[p] = acked[p]

Cell == INSTANCE ConfigCell WITH
    Values <- Values \cup {Off},
    live <- mem,
    durable <- Restored,
    alive <- up

\* One saver at a time implements the cell: the file changes in one step, from
\* one complete image to the configuration then in memory.
ImplementsCell == Cell!Spec
=============================================================================
