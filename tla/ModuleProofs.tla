---------------------------- MODULE ModuleProofs ----------------------------
(***************************************************************************)
(* For any number of handlers and versions, any bounds and any failures:   *)
(* the state of ModuleLifecycle is typed, the upgrade slots exclude each   *)
(* other and are never orphaned, an uninstalled module returns only by an  *)
(* install, and an upgrade never enables or disables the module.           *)
(*                                                                         *)
(* SlotExclusion and NoOrphanedSlot are not inductive: a step looks only   *)
(* at the label of its request, so IInv adds that the label tells the kind *)
(* (LabelsMatch) and that an upgrade has found the directory it copies     *)
(* from, and the slot taken over from a request must be known to have been *)
(* overrun by it (StaleOverrun).                                           *)
(*                                                                         *)
(* For one handler, which serves requests one after the other, more holds  *)
(* (several interleave to lose an acknowledged change): what is            *)
(* acknowledged survives (SeqInv), unless a statement on the table fails,  *)
(* since its failure is logged and the request acknowledged all the same;  *)
(* and the data of the module is on disk at every step (DataInv) until the *)
(* module is removed or the registry refuses an install under its id.      *)
(***************************************************************************)
EXTENDS ModuleLifecycle, TLAPS

\* The labels only one kind of request has.
Suits(label, kind) ==
    /\ label \in {"place", "register", "generate"} => kind = "install"
    /\ label \in {"purge", "purgeAddon", "unrow"} => kind = "remove"
    /\ label = "setrow" => kind = "set"
    /\ label \in Swapping \cup {"acquire"} => kind = "upgrade"

LabelFits(t) ==
    /\ t.pc = "idle" => t = Idle
    /\ Suits(t.pc, t.kind)
    /\ t.pc \in {"fetch", "preserve"} => t.prev # "none"

LabelsMatch == \A h \in Handlers : LabelFits(task[h])

\* A slot past its TTL belongs to an upgrade that knows to have overrun it.
StaleOverrun ==
    lock.stale => (lock.owner \in Handlers /\ task[lock.owner].overrun)

Slots == LabelsMatch /\ StaleOverrun /\ SlotExclusion /\ NoOrphanedSlot

IInv == TypeOK /\ Slots

\* TypeOK but for the requests and the slot.
DataTyped ==
    /\ phase \in {"down", "migrated", "up"}
    /\ reg \in Entries /\ uninstalled \in BOOLEAN
    /\ row \in Entries /\ tombstone \in BOOLEAN
    /\ file \in Entries
    /\ dir \in [Places -> Directories]
    /\ litter \subseteq Leftovers
    /\ expect \in Entries \cup {Unknown}
    /\ removed \in BOOLEAN /\ saved \in BOOLEAN
    /\ ops \in 0..MaxOps /\ crashes \in 0..MaxCrashes

\* A request that works on the directories; one that may hold the slot.
Swaps(t) == t.kind = "upgrade" /\ t.pc \in Swapping
Begun(t) == t.kind = "upgrade" /\ t.pc \notin {"idle", "acquire"}

-----------------------------------------------------------------------------
(* Records. *)

LEMMA IdleTyped ==
    /\ Idle \in Tasks /\ Absent \in Entries /\ NoDir \in Directories
    /\ Idle.pc = "idle" /\ Idle.kind = "none" /\ Idle.overrun = FALSE
  BY DEF Idle, Tasks, Labels, Kinds, Entries, Absent, NoDir, Directories, Places

LEMMA EntryTyped ==
    ASSUME NEW v \in {0} \cup Versions, NEW p \in {"none", "temp"} \cup Places,
           NEW on \in BOOLEAN
    PROVE  Entry(v, p, on) \in Entries
  BY DEF Entry, Entries

\* A fresh copy of a source.
LEMMA StageTyped ==
    ASSUME NEW v \in Versions
    PROVE  /\ [ver |-> v, data |-> FALSE] \in Directories
           /\ Unpacked([ver |-> v, data |-> FALSE]) \in Leftovers
  BY DEF Directories, Leftovers, Unpacked

LEMMA BackedUpTyped ==
    ASSUME NEW d \in Directories, d.ver # 0
    PROVE  BackedUp(d) \in Leftovers
  BY DEF Directories, Leftovers, BackedUp

LEMMA DataAndTasks ==
    TypeOK <=> /\ DataTyped
               /\ lock \in [owner : Handlers \cup {NoHandler}, stale : BOOLEAN]
               /\ task \in [Handlers -> Tasks]
  BY DEF TypeOK, DataTyped

-----------------------------------------------------------------------------
(* The ways a step moves one request. *)

\* The request of h is now r.
LEMMA Moved ==
    ASSUME task \in [Handlers -> Tasks], NEW h \in Handlers, NEW r \in Tasks,
           task' = [task EXCEPT ![h] = r]
    PROVE  /\ task' \in [Handlers -> Tasks]
           /\ task'[h] = r
           /\ \A o \in Handlers : o # h => task'[o] = task[o]
  OBVIOUS

\* A request that goes on, and lets nobody into or out of the slot.
LEMMA MoveKeeps ==
    ASSUME IInv, DataTyped', NEW h \in Handlers, NEW r \in Tasks,
           task' = [task EXCEPT ![h] = r], UNCHANGED lock,
           r.pc # "idle", Suits(r.pc, r.kind),
           r.pc \in {"fetch", "preserve"} => r.prev # "none", r.overrun = task[h].overrun,
           Swaps(r) => Swaps(task[h]), Begun(task[h]) => Begun(r)
    PROVE  IInv'
  <1>1. /\ task' \in [Handlers -> Tasks]
        /\ task'[h] = r /\ \A o \in Handlers : o # h => task'[o] = task[o]
    BY Moved DEF IInv, TypeOK
  <1>2. TypeOK'
    BY <1>1, DataAndTasks DEF IInv, TypeOK, DataTyped
  <1>3. LabelsMatch'
    BY <1>1 DEF LabelsMatch, LabelFits, IInv, Slots
  <1>4. StaleOverrun'
    BY <1>1 DEF StaleOverrun, IInv, Slots
  <1>5. SlotExclusion'
    BY <1>1 DEF SlotExclusion, IInv, Slots, Swaps
  <1>6. NoOrphanedSlot'
    BY <1>1 DEF NoOrphanedSlot, IInv, Slots, Begun, TypeOK
  <1> QED BY <1>2, <1>3, <1>4, <1>5, <1>6 DEF IInv, Slots

\* A request that ends frees its own slot and no other.
LEMMA EndKeeps ==
    ASSUME IInv, DataTyped', NEW h \in Handlers,
           task' = [task EXCEPT ![h] = Idle], GuardDrop(h)
    PROVE  IInv'
  <1>1. /\ task' \in [Handlers -> Tasks]
        /\ task'[h] = Idle /\ \A o \in Handlers : o # h => task'[o] = task[o]
    BY Moved, IdleTyped DEF IInv, TypeOK
  <1>2. lock' \in [owner : Handlers \cup {NoHandler}, stale : BOOLEAN]
    BY DEF GuardDrop, IInv, TypeOK
  <1>3. TypeOK'
    BY <1>1, <1>2 DEF TypeOK, DataTyped
  <1>4. /\ lock.owner = h => lock'.owner = NoHandler /\ lock'.stale = FALSE
        /\ lock.owner # h => lock' = lock
    BY DEF GuardDrop
  <1>5. LabelsMatch'
    BY <1>1, IdleTyped DEF LabelsMatch, LabelFits, Suits, Swapping, IInv, Slots
  <1>6. StaleOverrun'
    BY <1>1, <1>4 DEF StaleOverrun, IInv, Slots
  <1>7. SlotExclusion'
    BY <1>1, <1>4, IdleTyped DEF SlotExclusion, IInv, Slots
  <1>8. NoOrphanedSlot'
    BY <1>1, <1>4 DEF NoOrphanedSlot, IInv, Slots, TypeOK
  <1> QED BY <1>3, <1>5, <1>6, <1>7, <1>8 DEF IInv, Slots

\* A step that touches neither a request nor the slot.
LEMMA StillKeeps ==
    ASSUME IInv, DataTyped', UNCHANGED <<task, lock>>
    PROVE  IInv'
  <1>1. TypeOK'
    BY DEF IInv, TypeOK, DataTyped
  <1>2. Slots'
    BY DEF IInv, Slots, LabelsMatch, StaleOverrun, SlotExclusion, NoOrphanedSlot
  <1> QED BY <1>1, <1>2 DEF IInv

\* Going to a label of the same request.
LEMMA GotoKeeps ==
    ASSUME IInv, DataTyped', NEW h \in Handlers, NEW l \in Labels, Goto(h, l),
           UNCHANGED lock, l \notin {"idle", "acquire", "fetch", "preserve"},
           Suits(l, task[h].kind), Begun(task[h]) \/ task[h].kind # "upgrade",
           l \in Swapping => Swaps(task[h])
    PROVE  IInv'
  <1> DEFINE r == [task[h] EXCEPT !.pc = l]
  <1>1. task[h] \in Tasks
    BY DEF IInv, TypeOK
  <1>2. r \in Tasks /\ r.pc = l /\ r.kind = task[h].kind /\ r.overrun = task[h].overrun
    BY <1>1, Zenon DEF Tasks
  <1>3. task' = [task EXCEPT ![h] = r]
    BY Zenon DEF Goto
  <1> HIDE DEF r
  <1>4. r.pc \notin {"idle", "fetch", "preserve"} /\ Suits(r.pc, r.kind)
    BY <1>2
  <1>5. (Swaps(r) => Swaps(task[h])) /\ (Begun(task[h]) => Begun(r))
    BY <1>2 DEF Swaps, Begun
  <1> QED BY <1>2, <1>3, <1>4, <1>5, MoveKeeps

\* What holds where a request begins.
LEMMA Started ==
    ASSUME IInv, NEW h \in Handlers, Begins(h)
    PROVE  /\ task[h] \in Tasks
           /\ task[h].pc = "idle" /\ task[h].kind = "none"
           /\ ~Begun(task[h])
           /\ ops' \in 0..MaxOps /\ crashes' \in 0..MaxCrashes
  BY IdleTyped, LifecycleAssumption
     DEF IInv, TypeOK, Slots, LabelsMatch, LabelFits, Begins, At, Begun

-----------------------------------------------------------------------------
(* Installs. *)

LEMMA InstallIngestKeeps ==
    ASSUME IInv, NEW h \in Handlers, InstallIngest(h) PROVE IInv'
  <1>1. PICK v \in Versions :
            task' = [task EXCEPT ![h] = [@ EXCEPT !.pc = "place", !.kind = "install",
                                           !.stage = [ver |-> v, data |-> FALSE]]]
    BY Zenon DEF InstallIngest
  <1> DEFINE r == [task[h] EXCEPT !.pc = "place", !.kind = "install",
                                  !.stage = [ver |-> v, data |-> FALSE]]
  <1>2. /\ task[h] \in Tasks /\ ~Begun(task[h])
        /\ ops' \in 0..MaxOps /\ crashes' \in 0..MaxCrashes
    BY Started, Zenon DEF InstallIngest
  <1>3. r \in Tasks /\ r.pc = "place" /\ r.kind = "install"
        /\ r.overrun = task[h].overrun
    <2>1. "place" \in Labels /\ "install" \in Kinds
      BY DEF Labels, Kinds
    <2> QED BY <1>2, <2>1, StageTyped, Zenon DEF Tasks
  <1>4. task' = [task EXCEPT ![h] = r]
    BY <1>1, Zenon
  <1>5. UNCHANGED <<phase, reg, uninstalled, lock, row, tombstone, file, dir,
                    litter, expect, removed, saved>>
    BY Zenon DEF InstallIngest, registry, database, ghosts
  <1> HIDE DEF r
  <1>6. DataTyped'
    BY <1>2, <1>5 DEF IInv, TypeOK, DataTyped
  <1>7. Suits(r.pc, r.kind) /\ ~Swaps(r)
    BY <1>3 DEF Suits, Swaps, Swapping
  <1> QED BY <1>2, <1>3, <1>4, <1>5, <1>6, <1>7, MoveKeeps

LEMMA InstallIngestFailsKeeps ==
    ASSUME IInv, NEW h \in Handlers, InstallIngestFails(h) PROVE IInv'
  <1>1. ops' \in 0..MaxOps /\ crashes' \in 0..MaxCrashes
    BY Started DEF InstallIngestFails
  <1>2. litter' \subseteq Leftovers
    BY StageTyped DEF InstallIngestFails, IInv, TypeOK
  <1>3. DataTyped'
    BY <1>1, <1>2 DEF InstallIngestFails, registry, database, ghosts, IInv,
                      TypeOK, DataTyped
  <1> QED BY <1>3, StillKeeps DEF InstallIngestFails

\* A request that ends, leaves the data of the gateway alone.
LEMMA RefusalKeeps ==
    ASSUME IInv, NEW h \in Handlers, Refuse(h), dir' \in [Places -> Directories],
           litter' \subseteq Leftovers,
           UNCHANGED <<phase, reg, uninstalled, row, tombstone, file, ops, crashes>>
    PROVE  IInv'
  <1>1. DataTyped'
    BY DEF Refuse, ghosts, IInv, TypeOK, DataTyped
  <1> QED BY <1>1, EndKeeps DEF Refuse

LEMMA InstallRejectedKeeps ==
    ASSUME IInv, NEW h \in Handlers, InstallRejected(h) PROVE IInv'
  BY RefusalKeeps DEF InstallRejected, registry, database, bounds, IInv, TypeOK

LEMMA InstallUnregisteredKeeps ==
    ASSUME IInv, NEW h \in Handlers, InstallUnregistered(h) PROVE IInv'
  <1>1. DataTyped'
    BY IdleTyped DEF InstallUnregistered, registry, database, bounds, IInv, TypeOK, DataTyped
  <1> QED BY <1>1, EndKeeps DEF InstallUnregistered

\* A directory moved into place, and the manifest read from it.
LEMMA PlacedKeeps ==
    ASSUME IInv, NEW h \in Handlers, NEW l \in Labels, phase = "up",
           l \notin {"idle", "acquire", "fetch", "preserve"}, Suits(l, task[h].kind),
           Begun(task[h]) \/ task[h].kind # "upgrade",
           l \in Swapping => Swaps(task[h]),
           dir' = [dir EXCEPT !["modules"] = task[h].stage],
           task' = [task EXCEPT ![h] = [@ EXCEPT !.pc = l, !.stage = NoDir,
                          !.man = Entry(task[h].stage.ver, "modules", TRUE)]],
           UNCHANGED <<phase, registry, lock, database, file, litter, ghosts, bounds>>
    PROVE  IInv'
  <1> DEFINE man == Entry(task[h].stage.ver, "modules", TRUE)
             r == [task[h] EXCEPT !.pc = l, !.stage = NoDir, !.man = man]
  <1>1. task[h] \in Tasks /\ task[h].stage \in Directories
    BY DEF IInv, TypeOK, Tasks
  <1>2. man \in Entries
    BY <1>1, EntryTyped DEF Directories, Places
  <1>3. task' = [task EXCEPT ![h] = r]
    BY Zenon
  <1> HIDE DEF man
  <1>4. r \in Tasks /\ r.pc = l /\ r.kind = task[h].kind
        /\ r.overrun = task[h].overrun
    BY <1>1, <1>2, IdleTyped, Zenon DEF Tasks
  <1> HIDE DEF r
  <1>5. dir' \in [Places -> Directories]
    BY <1>1 DEF IInv, TypeOK
  <1>6. DataTyped'
    BY <1>5 DEF registry, database, ghosts, bounds, IInv, TypeOK, DataTyped
  <1>7. (Swaps(r) => Swaps(task[h])) /\ (Begun(task[h]) => Begun(r))
    BY <1>4 DEF Swaps, Begun
  <1> QED BY <1>3, <1>4, <1>6, <1>7, MoveKeeps

\* The label of a request tells its kind.
LEMMA KindOf ==
    ASSUME IInv, NEW h \in Handlers, NEW l, At(h, l)
    PROVE  /\ task[h] \in Tasks /\ task[h].pc = l /\ phase = "up"
           /\ Suits(l, task[h].kind)
  BY DEF IInv, TypeOK, Slots, LabelsMatch, LabelFits, At

LEMMA InstallPlaceKeeps ==
    ASSUME IInv, NEW h \in Handlers, InstallPlace(h) PROVE IInv'
  <1>1. task[h].kind = "install" /\ phase = "up"
    BY KindOf DEF InstallPlace, Suits
  <1>2. /\ "register" \in Labels /\ "register" \notin Swapping
        /\ Suits("register", task[h].kind)
    BY <1>1 DEF Labels, Swapping, Suits
  <1> QED BY <1>1, <1>2, PlacedKeeps, Zenon DEF InstallPlace

\* Registering, storing: going on to a label all requests share.
LEMMA SharedLabelKeeps ==
    ASSUME IInv, DataTyped', NEW h \in Handlers, UNCHANGED lock,
           NEW l \in {"saverow", "snapshot", "write"}, Goto(h, l),
           task[h].pc \notin {"idle", "acquire"}
    PROVE  IInv'
  <1>1. l \in Labels /\ l \notin {"idle", "acquire", "fetch", "preserve"}
        /\ l \notin Swapping
        /\ Suits(l, task[h].kind)
    BY DEF Labels, Swapping, Suits
  <1>2. Begun(task[h]) \/ task[h].kind # "upgrade"
    BY DEF Begun
  <1> QED BY <1>1, <1>2, GotoKeeps

LEMMA InstallRegisterKeeps ==
    ASSUME IInv, NEW h \in Handlers, InstallRegister(h) PROVE IInv'
  <1>1. task[h] \in Tasks /\ task[h].pc = "register"
    BY KindOf DEF InstallRegister
  <1>2. task[h].man \in Entries
    BY <1>1 DEF Tasks
  <1>3. /\ Goto(h, "saverow") /\ reg' = task[h].man /\ expect' = Unknown
        /\ removed' \in BOOLEAN
        /\ UNCHANGED <<phase, uninstalled, lock, row, tombstone, file, dir,
                       litter, saved, ops, crashes>>
    BY Zenon DEF InstallRegister, Supersede, database, bounds
  <1>4. DataTyped'
    BY <1>2, <1>3 DEF IInv, TypeOK, DataTyped
  <1> QED BY <1>1, <1>3, <1>4, SharedLabelKeeps

LEMMA SynthesizeInstallKeeps ==
    ASSUME IInv, NEW h \in Handlers, SynthesizeInstall(h) PROVE IInv'
  <1>1. reg' \in Entries
    <2>1. PICK v \in Versions :
              reg' = Entry(v, IF Exists(dir["addons"]) THEN "addons"
                              ELSE "modules", TRUE)
      BY Zenon DEF SynthesizeInstall
    <2> QED BY <2>1, EntryTyped DEF Places
  <1> DEFINE r == [task[h] EXCEPT !.pc = "generate", !.kind = "install",
                                  !.man = reg']
  <1>2. /\ task[h] \in Tasks /\ ~Begun(task[h])
        /\ ops' \in 0..MaxOps /\ crashes' \in 0..MaxCrashes
    BY Started, Zenon DEF SynthesizeInstall
  <1>3. r \in Tasks /\ r.pc = "generate" /\ r.kind = "install"
        /\ r.overrun = task[h].overrun
    <2>1. "generate" \in Labels /\ "install" \in Kinds
      BY DEF Labels, Kinds
    <2> QED BY <1>1, <1>2, <2>1, Zenon DEF Tasks
  <1>4. task' = [task EXCEPT ![h] = r]
    BY Zenon DEF SynthesizeInstall
  <1>5. /\ UNCHANGED <<phase, uninstalled, lock, row, tombstone, file, dir,
                       litter, saved>>
        /\ expect' = Unknown /\ removed' \in BOOLEAN
    BY Zenon DEF SynthesizeInstall, Supersede, database
  <1> HIDE DEF r
  <1>6. DataTyped'
    BY <1>1, <1>2, <1>5 DEF IInv, TypeOK, DataTyped
  <1>7. Suits(r.pc, r.kind) /\ ~Swaps(r)
    BY <1>3 DEF Suits, Swaps, Swapping
  <1> QED BY <1>2, <1>3, <1>4, <1>5, <1>6, <1>7, MoveKeeps

LEMMA GenerateKeeps ==
    ASSUME IInv, NEW h \in Handlers, Generate(h) PROVE IInv'
  <1>1. task[h] \in Tasks /\ task[h].pc = "generate"
    BY KindOf DEF Generate
  <1>2. dir["modules"] \in Directories /\ task[h].man.ver \in {0} \cup Versions
    BY <1>1 DEF IInv, TypeOK, Tasks, Entries, Places
  <1>3. [dir["modules"] EXCEPT !.ver = task[h].man.ver] \in Directories
    BY <1>2, Zenon DEF Directories
  <1>4. dir' \in [Places -> Directories]
    BY <1>3, Zenon DEF Generate, IInv, TypeOK
  <1>5. /\ Goto(h, "saverow")
        /\ UNCHANGED <<phase, reg, uninstalled, lock, row, tombstone, file,
                       litter, expect, removed, saved, ops, crashes>>
    BY Zenon DEF Generate, registry, database, ghosts, bounds
  <1>6. DataTyped'
    BY <1>4, <1>5 DEF IInv, TypeOK, DataTyped
  <1> QED BY <1>1, <1>5, <1>6, SharedLabelKeeps

-----------------------------------------------------------------------------
(* Removals, enablement and what all requests end with. *)

LEMMA UnregisterKeeps ==
    ASSUME IInv, NEW h \in Handlers, Unregister(h) PROVE IInv'
  <1> DEFINE r == [task[h] EXCEPT !.pc = "purge", !.kind = "remove"]
  <1>1. /\ task[h] \in Tasks /\ ~Begun(task[h])
        /\ ops' \in 0..MaxOps /\ crashes' \in 0..MaxCrashes
    BY Started, Zenon DEF Unregister
  <1>2. r \in Tasks /\ r.pc = "purge" /\ r.kind = "remove"
        /\ r.overrun = task[h].overrun
    <2>1. "purge" \in Labels /\ "remove" \in Kinds
      BY DEF Labels, Kinds
    <2> QED BY <1>1, <2>1, Zenon DEF Tasks
  <1>3. task' = [task EXCEPT ![h] = r]
    BY Zenon DEF Unregister
  <1>4. /\ UNCHANGED <<phase, lock, row, tombstone, file, dir, litter>>
        /\ reg' = Absent /\ uninstalled' = TRUE /\ saved' = FALSE
        /\ expect' = Unknown /\ removed' \in BOOLEAN
    BY Zenon DEF Unregister, Supersede, database
  <1> HIDE DEF r
  <1>5. DataTyped'
    BY <1>1, <1>4, IdleTyped DEF IInv, TypeOK, DataTyped
  <1>6. Suits(r.pc, r.kind) /\ ~Swaps(r)
    BY <1>2 DEF Suits, Swaps, Swapping
  <1> QED BY <1>1, <1>2, <1>3, <1>4, <1>5, <1>6, MoveKeeps

LEMMA PurgeKeeps ==
    ASSUME IInv, NEW h \in Handlers, Purge(h) PROVE IInv'
  <1>1. PICK l \in {"purgeAddon", "unrow"} : Goto(h, l)
    BY DEF Purge
  <1>2. /\ task[h].kind = "remove"
        /\ dir' \in [Places -> Directories]
        /\ UNCHANGED <<phase, reg, uninstalled, lock, row, tombstone, file,
                       litter, expect, removed, saved, ops, crashes>>
    <2>1. At(h, "purge") \/ At(h, "purgeAddon")
      BY DEF Purge
    <2>2. task[h].kind = "remove"
      BY <2>1, KindOf DEF Suits
    <2>3. dir' \in [Places -> Directories]
      BY IdleTyped DEF Purge, IInv, TypeOK
    <2>4. UNCHANGED <<phase, reg, uninstalled, lock, row, tombstone, file,
                      litter, expect, removed, saved, ops, crashes>>
      BY Zenon DEF Purge, registry, database, ghosts, bounds
    <2> QED BY <2>2, <2>3, <2>4
  <1>3. DataTyped'
    BY <1>2 DEF IInv, TypeOK, DataTyped
  <1>4. /\ l \in Labels /\ l \notin {"idle", "acquire", "fetch", "preserve"}
        /\ l \notin Swapping
        /\ Suits(l, task[h].kind)
    BY <1>2 DEF Labels, Swapping, Suits
  <1> QED BY <1>1, <1>2, <1>3, <1>4, GotoKeeps

LEMMA RemoveRowKeeps ==
    ASSUME IInv, NEW h \in Handlers, RemoveRow(h) PROVE IInv'
  <1>1. task[h].pc = "unrow" /\ Goto(h, "snapshot")
    BY Zenon, KindOf DEF RemoveRow
  <1>2. /\ row' \in {row, Absent} /\ tombstone' \in {tombstone, TRUE}
        /\ UNCHANGED <<phase, reg, uninstalled, lock, file, dir, litter, expect,
                       removed, saved, ops, crashes>>
    BY Zenon DEF RemoveRow, registry, ghosts, bounds
  <1>3. DataTyped'
    BY <1>2, IdleTyped DEF IInv, TypeOK, DataTyped
  <1> QED BY <1>1, <1>2, <1>3, SharedLabelKeeps

\* An entry enabled or disabled.
LEMMA EnablementTyped ==
    ASSUME NEW e \in Entries, NEW on \in BOOLEAN
    PROVE  [e EXCEPT !.on = on] \in Entries /\ [e EXCEPT !.on = on].on = on
  BY Zenon DEF Entries

LEMMA SetStatusKeeps ==
    ASSUME IInv, NEW h \in Handlers, SetStatus(h) PROVE IInv'
  <1> DEFINE r == [task[h] EXCEPT !.pc = "setrow", !.kind = "set", !.man = reg']
  <1>1. /\ task[h] \in Tasks /\ ~Begun(task[h])
        /\ ops' \in 0..MaxOps /\ crashes' \in 0..MaxCrashes
    BY Started, Zenon DEF SetStatus
  <1>2. reg' \in Entries
    <2>1. reg \in Entries
      BY DEF IInv, TypeOK
    <2>2. PICK on \in BOOLEAN : reg' = [reg EXCEPT !.on = on]
      BY Zenon DEF SetStatus
    <2>3. [reg EXCEPT !.on = on] \in Entries
      BY <2>1, EnablementTyped, Zenon
    <2> QED BY <2>2, <2>3, Zenon
  <1>3. r \in Tasks /\ r.pc = "setrow" /\ r.kind = "set"
        /\ r.overrun = task[h].overrun
    <2>1. "setrow" \in Labels /\ "set" \in Kinds
      BY DEF Labels, Kinds
    <2> QED BY <1>1, <1>2, <2>1, Zenon DEF Tasks
  <1>4. task' = [task EXCEPT ![h] = r]
    BY Zenon DEF SetStatus
  <1>5. /\ UNCHANGED <<phase, uninstalled, lock, row, tombstone, file, dir,
                       litter, saved>>
        /\ expect' = Unknown /\ removed' \in BOOLEAN
    BY Zenon DEF SetStatus, Supersede, database
  <1> HIDE DEF r
  <1>6. DataTyped'
    BY <1>1, <1>2, <1>5 DEF IInv, TypeOK, DataTyped
  <1>7. Suits(r.pc, r.kind) /\ ~Swaps(r)
    BY <1>3 DEF Suits, Swaps, Swapping
  <1> QED BY <1>1, <1>3, <1>4, <1>5, <1>6, <1>7, MoveKeeps

LEMMA SetRowKeeps ==
    ASSUME IInv, NEW h \in Handlers, SetRow(h) PROVE IInv'
  <1>1. task[h] \in Tasks /\ task[h].pc = "setrow" /\ Goto(h, "snapshot")
    BY Zenon, KindOf DEF SetRow
  <1>2. row \in Entries /\ task[h].man \in Entries /\ task[h].man.on \in BOOLEAN
    BY <1>1 DEF IInv, TypeOK, Tasks, Entries
  <1>3. [row EXCEPT !.on = task[h].man.on] \in Entries
    BY <1>2, EnablementTyped, Zenon
  <1>4. /\ row' \in {row, task[h].man, [row EXCEPT !.on = task[h].man.on]}
        /\ tombstone' \in {tombstone, FALSE}
        /\ UNCHANGED <<phase, reg, uninstalled, lock, file, dir, litter, expect,
                       removed, saved, ops, crashes>>
    BY Zenon DEF SetRow, registry, ghosts, bounds
  <1>5. row' \in Entries
    BY <1>2, <1>3, <1>4, Zenon
  <1>6. tombstone' \in BOOLEAN
    BY <1>4 DEF IInv, TypeOK
  <1>7. DataTyped'
    <2>1. UNCHANGED <<phase, reg, uninstalled, file, dir, litter, expect,
                      removed, saved, ops, crashes>>
      BY <1>4, Zenon
    <2> QED BY <2>1, <1>5, <1>6 DEF IInv, TypeOK, DataTyped
  <1>8. UNCHANGED lock
    BY <1>4, Zenon
  <1> QED BY <1>1, <1>7, <1>8, SharedLabelKeeps

\* What save_module stores.  An upgrade keeps the enablement of a stored row.
LEMMA StoredRowTyped ==
    ASSUME IInv, NEW h \in Handlers
    PROVE  /\ StoredRow(h) \in Entries
           /\ (task[h].kind = "upgrade" /\ row # Absent) => StoredRow(h).on = row.on
  <1>1. row \in Entries /\ task[h].man \in Entries /\ row.on \in BOOLEAN
    BY DEF IInv, TypeOK, Tasks, Entries
  <1>2. ASSUME NEW on \in BOOLEAN
        PROVE  [task[h].man EXCEPT !.on = on] \in Entries
               /\ [task[h].man EXCEPT !.on = on].on = on
    BY <1>1, Zenon DEF Entries
  <1>3. CASE task[h].kind = "upgrade" /\ row # Absent
    <2>1. StoredRow(h) = [task[h].man EXCEPT !.on = row.on]
      BY <1>3, Zenon DEF StoredRow
    <2> QED BY <1>1, <1>2, <2>1, Zenon
  <1>4. CASE task[h].kind = "upgrade" /\ row = Absent
    <2>1. StoredRow(h) = [task[h].man EXCEPT !.on = TRUE]
      BY <1>4, Zenon DEF StoredRow
    <2> QED BY <1>2, <1>4, <2>1, Zenon
  <1>5. CASE task[h].kind # "upgrade"
    BY <1>1, <1>5, Zenon DEF StoredRow
  <1> QED BY <1>3, <1>4, <1>5

LEMMA SaveRowKeeps ==
    ASSUME IInv, NEW h \in Handlers, SaveRow(h) PROVE IInv'
  <1>1. task[h].pc = "saverow" /\ Goto(h, "snapshot")
    BY Zenon, KindOf DEF SaveRow
  <1>2. /\ row' \in {row, StoredRow(h)} /\ tombstone' \in {tombstone, FALSE}
        /\ UNCHANGED <<phase, reg, uninstalled, lock, file, dir, litter, expect,
                       removed, saved, ops, crashes>>
    BY Zenon DEF SaveRow, registry, ghosts, bounds
  <1>3. DataTyped'
    BY <1>2, StoredRowTyped DEF IInv, TypeOK, DataTyped
  <1> QED BY <1>1, <1>2, <1>3, SharedLabelKeeps

LEMMA SnapshotKeeps ==
    ASSUME IInv, NEW h \in Handlers, Snapshot(h) PROVE IInv'
  <1> DEFINE r == [task[h] EXCEPT !.pc = "write", !.snap = reg]
  <1>1. task[h] \in Tasks /\ task[h].pc = "snapshot" /\ reg \in Entries
    BY KindOf DEF Snapshot, IInv, TypeOK
  <1>2. r \in Tasks /\ r.pc = "write" /\ r.kind = task[h].kind
        /\ r.overrun = task[h].overrun
    <2>1. "write" \in Labels
      BY DEF Labels
    <2> QED BY <1>1, <2>1, Zenon DEF Tasks
  <1>3. task' = [task EXCEPT ![h] = r]
    BY Zenon DEF Snapshot
  <1>4. UNCHANGED <<phase, reg, uninstalled, lock, row, tombstone, file, dir,
                    litter, expect, removed, saved, ops, crashes>>
    BY Zenon DEF Snapshot, registry, database, ghosts, bounds
  <1> HIDE DEF r
  <1>5. DataTyped'
    BY <1>4 DEF IInv, TypeOK, DataTyped
  <1>6. Suits(r.pc, r.kind) /\ ~Swaps(r) /\ (Begun(task[h]) => Begun(r))
    BY <1>1, <1>2 DEF Suits, Swaps, Swapping, Begun
  <1> QED BY <1>2, <1>3, <1>4, <1>5, <1>6, MoveKeeps

LEMMA WriteFileKeeps ==
    ASSUME IInv, NEW h \in Handlers, WriteFile(h) PROVE IInv'
  <1>1. task[h] \in Tasks /\ task[h].snap \in Entries
    BY DEF IInv, TypeOK, Tasks
  <1>2. /\ file' = task[h].snap
        /\ task' = [task EXCEPT ![h] = Idle] /\ GuardDrop(h)
        /\ UNCHANGED <<phase, reg, uninstalled, row, tombstone, dir, litter,
                       saved, ops, crashes>>
    BY Zenon DEF WriteFile, Acknowledge, registry, database, ghosts, bounds
  <1>3. /\ expect' \in {expect, Unknown, task[h].snap}
        /\ \/ removed' = removed
           \/ removed' = ~OthersInFlight(h, {"install", "upgrade"})
    BY Zenon DEF WriteFile, Acknowledge, ghosts
  <1>4. removed' \in BOOLEAN
    BY <1>3 DEF OthersInFlight, IInv, TypeOK
  <1>5. expect' \in Entries \cup {Unknown}
    BY <1>1, <1>3 DEF IInv, TypeOK
  <1>6. DataTyped'
    BY <1>1, <1>2, <1>4, <1>5 DEF IInv, TypeOK, DataTyped
  <1> QED BY <1>2, <1>6, EndKeeps

LEMMA WriteFailsKeeps ==
    ASSUME IInv, NEW h \in Handlers, WriteFails(h) PROVE IInv'
  BY RefusalKeeps DEF WriteFails, registry, database, bounds, IInv, TypeOK

-----------------------------------------------------------------------------
(* Upgrades. *)

LEMMA UpgradeLookupKeeps ==
    ASSUME IInv, NEW h \in Handlers, UpgradeLookup(h) PROVE IInv'
  <1> DEFINE r == [task[h] EXCEPT !.pc = "acquire", !.kind = "upgrade"]
  <1>1. /\ task[h] \in Tasks /\ ~Begun(task[h])
        /\ ops' \in 0..MaxOps /\ crashes' \in 0..MaxCrashes
    BY Started, Zenon DEF UpgradeLookup
  <1>2. r \in Tasks /\ r.pc = "acquire" /\ r.kind = "upgrade"
        /\ r.overrun = task[h].overrun
    <2>1. "acquire" \in Labels /\ "upgrade" \in Kinds
      BY DEF Labels, Kinds
    <2> QED BY <1>1, <2>1, Zenon DEF Tasks
  <1>3. task' = [task EXCEPT ![h] = r]
    BY Zenon DEF UpgradeLookup
  <1>4. UNCHANGED <<phase, reg, uninstalled, lock, row, tombstone, file, dir,
                    litter, expect, removed, saved>>
    BY Zenon DEF UpgradeLookup, registry, database, ghosts
  <1> HIDE DEF r
  <1>5. DataTyped'
    BY <1>1, <1>4 DEF IInv, TypeOK, DataTyped
  <1>6. Suits(r.pc, r.kind) /\ ~Swaps(r)
    BY <1>2 DEF Suits, Swaps, Swapping
  <1> QED BY <1>1, <1>2, <1>3, <1>4, <1>5, <1>6, MoveKeeps

\* The only step into the slot: it is free, or its owner has overrun it.
LEMMA UpgradeAcquireKeeps ==
    ASSUME IInv, NEW h \in Handlers, UpgradeAcquire(h) PROVE IInv'
  <1> DEFINE r == [task[h] EXCEPT !.pc = "find"]
  <1>1. task[h] \in Tasks /\ task[h].pc = "acquire" /\ task[h].kind = "upgrade"
    BY KindOf DEF UpgradeAcquire, Suits, Swapping
  <1>2. r \in Tasks /\ r.pc = "find" /\ r.kind = "upgrade"
        /\ r.overrun = task[h].overrun
    <2>1. "find" \in Labels
      BY DEF Labels
    <2> QED BY <1>1, <2>1, Zenon DEF Tasks
  <1>3. task' = [task EXCEPT ![h] = r]
    BY Zenon DEF UpgradeAcquire, Goto
  <1> HIDE DEF r
  <1>4. /\ task' \in [Handlers -> Tasks]
        /\ task'[h] = r /\ \A o \in Handlers : o # h => task'[o] = task[o]
    BY <1>2, <1>3, Moved DEF IInv, TypeOK
  <1>5. /\ UNCHANGED <<phase, reg, uninstalled, row, tombstone, file, dir,
                       litter, expect, removed, saved, ops, crashes>>
        /\ lock' = [owner |-> h, stale |-> FALSE]
        /\ lock.owner = NoHandler \/ lock.stale
    BY Zenon DEF UpgradeAcquire, registry, database, ghosts, bounds
  <1>6. TypeOK'
    BY <1>4, <1>5 DEF IInv, TypeOK
  <1>7. LabelsMatch' /\ StaleOverrun'
    BY <1>2, <1>4, <1>5 DEF LabelsMatch, LabelFits, Suits, StaleOverrun, IInv, Slots
  <1>8. SlotExclusion'
    <2> SUFFICES ASSUME NEW o \in Handlers, o # h,
                        task'[o].kind = "upgrade" /\ task'[o].pc \in Swapping
                 PROVE  task'[o].overrun
      BY <1>5 DEF SlotExclusion
    <2>1. lock.owner = o \/ task[o].overrun
      BY <1>4 DEF SlotExclusion, IInv, Slots
    <2> QED BY <1>4, <1>5, <2>1, LifecycleAssumption DEF StaleOverrun, IInv, Slots
  <1>9. NoOrphanedSlot'
    BY <1>2, <1>4, <1>5 DEF NoOrphanedSlot
  <1> QED BY <1>6, <1>7, <1>8, <1>9 DEF IInv, Slots

LEMMA UpgradeConflictKeeps ==
    ASSUME IInv, NEW h \in Handlers, UpgradeConflict(h) PROVE IInv'
  BY RefusalKeeps DEF UpgradeConflict, registry, database, bounds, IInv, TypeOK

LEMMA LockExpiresKeeps ==
    ASSUME IInv, LockExpires PROVE IInv'
  <1> DEFINE h == lock.owner
             r == [task[h] EXCEPT !.overrun = TRUE]
  <1>1. h \in Handlers
    BY DEF LockExpires, IInv, TypeOK
  <1>2. task[h] \in Tasks /\ lock \in [owner : Handlers \cup {NoHandler}, stale : BOOLEAN]
    BY <1>1 DEF IInv, TypeOK
  <1>3. r \in Tasks /\ r.pc = task[h].pc /\ r.kind = task[h].kind
        /\ r.prev = task[h].prev /\ r.overrun
    BY <1>2, Zenon DEF Tasks
  <1>4. task' = [task EXCEPT ![h] = r]
    BY Zenon DEF LockExpires
  <1>5. task[h].pc # "idle"
    BY <1>1 DEF LockExpires, IInv, Slots, NoOrphanedSlot
  <1>6. lock' \in [owner : Handlers \cup {NoHandler}, stale : BOOLEAN]
        /\ lock'.owner = h
    BY <1>2, Zenon DEF LockExpires
  <1>7. UNCHANGED <<phase, reg, uninstalled, row, tombstone, file, dir, litter,
                    expect, removed, saved, ops, crashes>>
    BY Zenon DEF LockExpires, registry, database, ghosts, bounds
  <1> HIDE DEF h, r
  <1>8. /\ task' \in [Handlers -> Tasks]
        /\ task'[h] = r /\ \A o \in Handlers : o # h => task'[o] = task[o]
    BY <1>1, <1>3, <1>4, Moved DEF IInv, TypeOK
  <1>9. TypeOK'
    BY <1>6, <1>7, <1>8 DEF IInv, TypeOK
  <1>10. LabelsMatch' /\ StaleOverrun'
    BY <1>1, <1>3, <1>5, <1>6, <1>8
       DEF LabelsMatch, LabelFits, StaleOverrun, IInv, Slots
  <1>11. lock.owner = h
    BY DEF h
  <1>12. SlotExclusion' /\ NoOrphanedSlot'
    BY <1>1, <1>3, <1>6, <1>8, <1>11
       DEF SlotExclusion, NoOrphanedSlot, IInv, Slots
  <1> QED BY <1>9, <1>10, <1>12 DEF IInv, Slots

LEMMA PruneLockKeeps ==
    ASSUME IInv, PruneLock PROVE IInv'
  <1>1. /\ UNCHANGED <<phase, reg, uninstalled, row, tombstone, file, dir, task,
                       litter, expect, removed, saved, ops, crashes>>
        /\ lock' = [owner |-> NoHandler, stale |-> FALSE] /\ lock.stale
    BY Zenon DEF PruneLock, registry, database, ghosts, bounds
  <1>2. TypeOK'
    BY <1>1 DEF IInv, TypeOK
  <1>3. LabelsMatch' /\ StaleOverrun' /\ NoOrphanedSlot'
    BY <1>1 DEF LabelsMatch, StaleOverrun, NoOrphanedSlot, IInv, Slots
  <1>4. SlotExclusion'
    BY <1>1 DEF SlotExclusion, StaleOverrun, IInv, Slots
  <1> QED BY <1>2, <1>3, <1>4 DEF IInv, Slots

LEMMA UpgradeFindKeeps ==
    ASSUME IInv, NEW h \in Handlers, UpgradeFind(h) PROVE IInv'
  <1>1. PICK p \in Places :
            task' = [task EXCEPT ![h] = [@ EXCEPT !.pc = "fetch", !.prev = p]]
    BY Zenon DEF UpgradeFind
  <1> DEFINE r == [task[h] EXCEPT !.pc = "fetch", !.prev = p]
  <1>2. task[h] \in Tasks /\ task[h].pc = "find" /\ task[h].kind = "upgrade"
    BY KindOf DEF UpgradeFind, Suits, Swapping
  <1>3. r \in Tasks /\ r.pc = "fetch" /\ r.kind = "upgrade"
        /\ r.overrun = task[h].overrun /\ r.prev # "none"
    <2>1. "fetch" \in Labels /\ p \in {"none"} \cup Places /\ p # "none"
      BY DEF Labels, Places
    <2> QED BY <1>2, <2>1, Zenon DEF Tasks
  <1>4. task' = [task EXCEPT ![h] = r]
    BY <1>1, Zenon
  <1>5. UNCHANGED <<phase, reg, uninstalled, lock, row, tombstone, file, dir,
                    litter, expect, removed, saved, ops, crashes>>
    BY Zenon DEF UpgradeFind, registry, database, ghosts, bounds
  <1> HIDE DEF r
  <1>6. DataTyped'
    BY <1>5 DEF IInv, TypeOK, DataTyped
  <1>7. Suits(r.pc, r.kind) /\ Swaps(task[h]) /\ Begun(r)
    BY <1>2, <1>3 DEF Suits, Swaps, Swapping, Begun
  <1> QED BY <1>3, <1>4, <1>5, <1>6, <1>7, MoveKeeps

LEMMA UpgradeNotFoundKeeps ==
    ASSUME IInv, NEW h \in Handlers, UpgradeNotFound(h) PROVE IInv'
  BY RefusalKeeps DEF UpgradeNotFound, registry, database, bounds, IInv, TypeOK

LEMMA UpgradeIngestKeeps ==
    ASSUME IInv, NEW h \in Handlers, UpgradeIngest(h) PROVE IInv'
  <1>1. PICK v \in Versions :
            task' = [task EXCEPT ![h] = [@ EXCEPT !.pc = "preserve",
                                           !.stage = [ver |-> v, data |-> FALSE]]]
    BY Zenon DEF UpgradeIngest
  <1> DEFINE r == [task[h] EXCEPT !.pc = "preserve",
                                  !.stage = [ver |-> v, data |-> FALSE]]
  <1>2. task[h] \in Tasks /\ task[h].pc = "fetch" /\ task[h].kind = "upgrade"
    BY KindOf DEF UpgradeIngest, Suits, Swapping
  <1>3. r \in Tasks /\ r.pc = "preserve" /\ r.kind = "upgrade"
        /\ r.overrun = task[h].overrun /\ r.prev = task[h].prev
    <2>1. "preserve" \in Labels
      BY DEF Labels
    <2> QED BY <1>2, <2>1, StageTyped, Zenon DEF Tasks
  <1>4. task' = [task EXCEPT ![h] = r]
    BY <1>1, Zenon
  <1>5. UNCHANGED <<phase, reg, uninstalled, lock, row, tombstone, file, dir,
                    litter, expect, removed, saved, ops, crashes>>
    BY Zenon DEF UpgradeIngest, registry, database, ghosts, bounds
  <1> HIDE DEF r
  <1>6. DataTyped'
    BY <1>5 DEF IInv, TypeOK, DataTyped
  <1>7. r.prev # "none"
    BY <1>2, <1>3 DEF IInv, Slots, LabelsMatch, LabelFits
  <1>8. Suits(r.pc, r.kind) /\ Swaps(task[h]) /\ Begun(r)
    BY <1>2, <1>3 DEF Suits, Swaps, Swapping, Begun
  <1> QED BY <1>3, <1>4, <1>5, <1>6, <1>7, <1>8, MoveKeeps

LEMMA UpgradeIngestFailsKeeps ==
    ASSUME IInv, NEW h \in Handlers, UpgradeIngestFails(h) PROVE IInv'
  <1>1. litter' \subseteq Leftovers
    BY StageTyped DEF UpgradeIngestFails, IInv, TypeOK
  <1> QED BY <1>1, RefusalKeeps
          DEF UpgradeIngestFails, registry, database, bounds, IInv, TypeOK

LEMMA UpgradeRejectedKeeps ==
    ASSUME IInv, NEW h \in Handlers, UpgradeRejected(h) PROVE IInv'
  BY RefusalKeeps DEF UpgradeRejected, registry, database, bounds, IInv, TypeOK

LEMMA UpgradePreserveKeeps ==
    ASSUME IInv, NEW h \in Handlers, UpgradePreserve(h) PROVE IInv'
  <1> DEFINE data == dir[task[h].prev].data
             stage == [ver |-> task[h].stage.ver, data |-> data]
             r == [task[h] EXCEPT !.pc = "swapOut", !.stage = stage]
  <1>1. task[h] \in Tasks /\ task[h].pc = "preserve" /\ task[h].kind = "upgrade"
    BY KindOf DEF UpgradePreserve, Suits, Swapping
  <1>2. task[h].prev # "none"
    BY <1>1 DEF IInv, Slots, LabelsMatch, LabelFits
  <1>3. data \in BOOLEAN /\ task[h].stage \in Directories
    BY <1>1, <1>2 DEF IInv, TypeOK, Tasks, Directories
  <1> HIDE DEF data
  <1>4. stage \in Directories
    BY <1>3 DEF Directories
  <1>5. r \in Tasks /\ r.pc = "swapOut" /\ r.kind = "upgrade"
        /\ r.overrun = task[h].overrun
    <2>1. "swapOut" \in Labels
      BY DEF Labels
    <2> HIDE DEF stage
    <2> QED BY <1>1, <1>4, <2>1, Zenon DEF Tasks
  <1>6. task' = [task EXCEPT ![h] = r]
    BY Zenon DEF UpgradePreserve, data
  <1>7. UNCHANGED <<phase, reg, uninstalled, lock, row, tombstone, file, dir,
                    litter, expect, removed, saved, ops, crashes>>
    BY Zenon DEF UpgradePreserve, registry, database, ghosts, bounds
  <1> HIDE DEF r
  <1>8. DataTyped'
    BY <1>7 DEF IInv, TypeOK, DataTyped
  <1>9. Suits(r.pc, r.kind) /\ Swaps(task[h]) /\ Begun(r)
    BY <1>1, <1>5 DEF Suits, Swaps, Swapping, Begun
  <1> QED BY <1>5, <1>6, <1>7, <1>8, <1>9, MoveKeeps

LEMMA SwapOutKeeps ==
    ASSUME IInv, NEW h \in Handlers, SwapOut(h) PROVE IInv'
  <1> DEFINE r == [task[h] EXCEPT !.pc = "swapIn", !.backup = dir["modules"]]
  <1>1. task[h] \in Tasks /\ task[h].pc = "swapOut" /\ task[h].kind = "upgrade"
    BY KindOf DEF SwapOut, Suits, Swapping
  <1>2. dir["modules"] \in Directories
    BY DEF IInv, TypeOK, Places
  <1>3. r \in Tasks /\ r.pc = "swapIn" /\ r.kind = "upgrade"
        /\ r.overrun = task[h].overrun
    <2>1. "swapIn" \in Labels
      BY DEF Labels
    <2> QED BY <1>1, <1>2, <2>1, Zenon DEF Tasks
  <1>4. task' = [task EXCEPT ![h] = r]
    BY Zenon DEF SwapOut
  <1>5. /\ UNCHANGED <<phase, reg, uninstalled, lock, row, tombstone, file,
                       litter, expect, removed, saved, ops, crashes>>
        /\ dir' = [dir EXCEPT !["modules"] = NoDir]
    BY Zenon DEF SwapOut, registry, database, ghosts, bounds
  <1> HIDE DEF r
  <1>6. DataTyped'
    BY <1>5, IdleTyped DEF IInv, TypeOK, DataTyped
  <1>7. Suits(r.pc, r.kind) /\ Swaps(task[h]) /\ Begun(r)
    BY <1>1, <1>3 DEF Suits, Swaps, Swapping, Begun
  <1> QED BY <1>3, <1>4, <1>5, <1>6, <1>7, MoveKeeps

LEMMA SwapOutFailsKeeps ==
    ASSUME IInv, NEW h \in Handlers, SwapOutFails(h) PROVE IInv'
  BY RefusalKeeps DEF SwapOutFails, registry, database, bounds, IInv, TypeOK

LEMMA SwapInKeeps ==
    ASSUME IInv, NEW h \in Handlers, SwapIn(h) PROVE IInv'
  <1>1. task[h].pc = "swapIn" /\ task[h].kind = "upgrade" /\ phase = "up"
    BY KindOf DEF SwapIn, Suits, Swapping
  <1>2. /\ "dropBackup" \in Labels /\ Suits("dropBackup", task[h].kind)
        /\ Begun(task[h]) /\ Swaps(task[h])
    BY <1>1 DEF Labels, Swapping, Suits, Swaps, Begun
  <1> QED BY <1>1, <1>2, PlacedKeeps, Zenon DEF SwapIn

LEMMA SwapInFailsKeeps ==
    ASSUME IInv, NEW h \in Handlers, SwapInFails(h) PROVE IInv'
  <1>1. task[h].backup \in Directories
    BY DEF IInv, TypeOK, Tasks
  <1>2. dir' \in [Places -> Directories]
    BY <1>1 DEF SwapInFails, IInv, TypeOK
  <1>3. litter' \subseteq Leftovers
    BY <1>1, BackedUpTyped DEF SwapInFails, Exists, IInv, TypeOK
  <1> QED BY <1>2, <1>3, RefusalKeeps DEF SwapInFails, registry, database, bounds

LEMMA DropBackupKeeps ==
    ASSUME IInv, NEW h \in Handlers, DropBackup(h) PROVE IInv'
  <1> DEFINE r == [task[h] EXCEPT !.pc = "enroll", !.backup = NoDir]
  <1>1. task[h] \in Tasks /\ task[h].pc = "dropBackup" /\ task[h].kind = "upgrade"
    BY KindOf DEF DropBackup, Suits, Swapping
  <1>2. r \in Tasks /\ r.pc = "enroll" /\ r.kind = "upgrade"
        /\ r.overrun = task[h].overrun
    <2>1. "enroll" \in Labels
      BY DEF Labels
    <2> QED BY <1>1, <2>1, IdleTyped, Zenon DEF Tasks
  <1>3. task' = [task EXCEPT ![h] = r]
    BY Zenon DEF DropBackup
  <1>4. /\ UNCHANGED <<phase, reg, uninstalled, lock, row, tombstone, file, dir,
                       expect, removed, saved, ops, crashes>>
        /\ litter' = litter \/ (Exists(task[h].backup)
                                /\ litter' = litter \cup {BackedUp(task[h].backup)})
    BY Zenon DEF DropBackup, registry, database, ghosts, bounds
  <1>5. litter' \subseteq Leftovers
    <2>1. task[h].backup \in Directories
      BY <1>1 DEF Tasks
    <2> QED BY <1>4, <2>1, BackedUpTyped DEF Exists, IInv, TypeOK
  <1> HIDE DEF r
  <1>6. DataTyped'
    BY <1>4, <1>5 DEF IInv, TypeOK, DataTyped
  <1>7. Suits(r.pc, r.kind) /\ Swaps(task[h]) /\ Begun(r)
    BY <1>1, <1>2 DEF Suits, Swaps, Swapping, Begun
  <1> QED BY <1>2, <1>3, <1>4, <1>6, <1>7, MoveKeeps

LEMMA UpgradeEnrollKeeps ==
    ASSUME IInv, NEW h \in Handlers, UpgradeEnroll(h) PROVE IInv' /\ reg'.on = reg.on
  <1>1. task[h] \in Tasks /\ task[h].pc = "enroll"
    BY KindOf DEF UpgradeEnroll
  <1>2. task[h].man \in Entries /\ reg.on \in BOOLEAN
    BY <1>1 DEF IInv, TypeOK, Tasks, Entries
  <1>3. [task[h].man EXCEPT !.on = reg.on] \in Entries
        /\ [task[h].man EXCEPT !.on = reg.on].on = reg.on
    BY <1>2, Zenon DEF Entries
  <1>4. reg' \in Entries /\ reg'.on = reg.on
    BY <1>3, Zenon DEF UpgradeEnroll
  <1>5. /\ Goto(h, "saverow") /\ uninstalled' = FALSE
        /\ expect' = Unknown /\ removed' \in BOOLEAN
        /\ UNCHANGED <<phase, lock, row, tombstone, file, dir, litter, saved,
                       ops, crashes>>
    BY Zenon DEF UpgradeEnroll, Supersede, database, bounds
  <1>6. DataTyped'
    BY <1>4, <1>5 DEF IInv, TypeOK, DataTyped
  <1> QED BY <1>1, <1>4, <1>5, <1>6, SharedLabelKeeps

LEMMA UpgradeOrphanedKeeps ==
    ASSUME IInv, NEW h \in Handlers, UpgradeOrphaned(h) PROVE IInv'
  BY RefusalKeeps DEF UpgradeOrphaned, registry, database, bounds, IInv, TypeOK

-----------------------------------------------------------------------------
(* Scans, crashes and restarts. *)

\* What scans find is typed.
LEMMA ScannedTyped ==
    ASSUME IInv
    PROVE  /\ ScannedFirst \subseteq Entries
           /\ Entry(dir["addons"].ver, "addons", TRUE) \in Entries
  <1>1. ASSUME NEW d \in litter PROVE Entry(d.ver, d.at, TRUE) \in Entries
    <2>1. d.ver \in {0} \cup Versions /\ d.at \in {"none", "temp"} \cup Places
      BY DEF IInv, TypeOK, Leftovers, Places
    <2> QED BY <2>1, EntryTyped
  <1>2. ASSUME NEW p \in Places PROVE Entry(dir[p].ver, p, TRUE) \in Entries
    <2>1. dir[p].ver \in {0} \cup Versions
      BY DEF IInv, TypeOK, Directories
    <2> QED BY <2>1, EntryTyped
  <1>3. ASSUME NEW h \in Handlers
        PROVE  /\ Entry(task[h].stage.ver, "temp", TRUE) \in Entries
               /\ Entry(task[h].backup.ver, "modules", TRUE) \in Entries
    <2>1. task[h].stage.ver \in {0} \cup Versions /\ task[h].backup.ver \in {0} \cup Versions
      BY DEF IInv, TypeOK, Tasks, Directories
    <2> QED BY <2>1, EntryTyped DEF Places
  <1>4. "modules" \in Places /\ "addons" \in Places
    BY DEF Places
  <1> QED BY <1>1, <1>2, <1>3, <1>4 DEF ScannedFirst

LEMMA RescanKeeps ==
    ASSUME IInv, NEW h \in Handlers, Rescan(h) PROVE IInv'
  <1>1. PICK found \in Entries :
            /\ reg' = found
            /\ task' = [task EXCEPT ![h] = [@ EXCEPT !.pc = "saverow",
                                             !.kind = "rescan", !.man = found]]
    BY Zenon DEF Rescan
  <1> DEFINE r == [task[h] EXCEPT !.pc = "saverow", !.kind = "rescan",
                                  !.man = found]
  <1>2. /\ task[h] \in Tasks /\ ~Begun(task[h])
        /\ ops' \in 0..MaxOps /\ crashes' \in 0..MaxCrashes
    BY Started, Zenon DEF Rescan
  <1>3. r \in Tasks /\ r.pc = "saverow" /\ r.kind = "rescan"
        /\ r.overrun = task[h].overrun
    <2>1. "saverow" \in Labels /\ "rescan" \in Kinds
      BY DEF Labels, Kinds
    <2> QED BY <1>2, <2>1, Zenon DEF Tasks
  <1>4. task' = [task EXCEPT ![h] = r]
    BY <1>1, Zenon
  <1>5. UNCHANGED <<phase, uninstalled, lock, row, tombstone, file, dir,
                    litter, expect, removed, saved>>
    BY Zenon DEF Rescan, database, ghosts
  <1>6. reg' \in Entries
    BY <1>1, Zenon
  <1> HIDE DEF r
  <1>7. DataTyped'
    BY <1>2, <1>5, <1>6 DEF IInv, TypeOK, DataTyped
  <1>8. Suits(r.pc, r.kind) /\ ~Swaps(r)
    BY <1>3 DEF Suits, Swaps, Swapping
  <1> QED BY <1>2, <1>3, <1>4, <1>5, <1>7, <1>8, MoveKeeps

LEMMA ModuleWritesKeeps ==
    ASSUME IInv, ModuleWrites PROVE IInv'
  <1> DEFINE d == [dir[reg.at] EXCEPT !.data = TRUE]
  <1>1. reg.at \in Places /\ dir[reg.at] \in Directories
    BY DEF ModuleWrites, IInv, TypeOK
  <1>2. d \in Directories
    BY <1>1, Zenon DEF Directories
  <1>3. dir' = [dir EXCEPT ![reg.at] = d]
    BY Zenon DEF ModuleWrites
  <1> HIDE DEF d
  <1>4. dir' \in [Places -> Directories]
    BY <1>2, <1>3 DEF IInv, TypeOK
  <1>5. /\ UNCHANGED <<phase, reg, uninstalled, lock, row, tombstone, file,
                       litter, task, expect, removed, ops, crashes>>
        /\ \/ saved' = saved
           \/ saved' = TRUE
           \/ saved' = (\A h \in Handlers : task[h].kind # "upgrade")
    <2>1. saved = TRUE \/ saved = FALSE
      BY DEF IInv, TypeOK
    <2> QED BY <2>1, Zenon DEF ModuleWrites, registry, database, bounds
  <1>6. saved' \in BOOLEAN
    BY <1>5 DEF IInv, TypeOK
  <1>7. DataTyped'
    <2>1. UNCHANGED <<phase, reg, uninstalled, row, tombstone, file, litter,
                      expect, removed, ops, crashes>>
      BY <1>5, Zenon
    <2> QED BY <2>1, <1>4, <1>6 DEF IInv, TypeOK, DataTyped
  <1>8. UNCHANGED <<task, lock>>
    BY <1>5, Zenon
  <1> QED BY <1>7, <1>8, StillKeeps

LEMMA CrashKeeps ==
    ASSUME IInv, Crash PROVE IInv'
  <1>1. /\ phase' = "down" /\ reg' = Absent /\ uninstalled' = FALSE
        /\ task' = [h \in Handlers |-> Idle]
        /\ lock' = [owner |-> NoHandler, stale |-> FALSE]
        /\ UNCHANGED <<file, dir, expect, removed, saved, ops>>
    BY Zenon DEF Crash, ghosts
  <1>2. crashes' \in 0..MaxCrashes
    BY LifecycleAssumption DEF Crash, IInv, TypeOK
  <1>3. row' \in Entries /\ tombstone' \in BOOLEAN
    <2>1. \/ row' = row /\ tombstone' = tombstone
          \/ \E h \in Handlers : row' = StoredRow(h) /\ tombstone' = tombstone
          \/ tombstone' = TRUE /\ row' = row
      BY Zenon DEF Crash, HalfStored, database
    <2> QED BY <2>1, StoredRowTyped DEF IInv, TypeOK
  <1>4. litter' \subseteq Leftovers
    <2>1. ASSUME NEW h \in Handlers
          PROVE  /\ Exists(task[h].stage) => Unpacked(task[h].stage) \in Leftovers
                 /\ Exists(task[h].backup) => BackedUp(task[h].backup) \in Leftovers
      BY DEF IInv, TypeOK, Tasks, Directories, Exists, Leftovers, Unpacked, BackedUp
    <2> QED BY <2>1 DEF Crash, IInv, TypeOK
  <1>5. TypeOK'
    BY <1>1, <1>2, <1>3, <1>4, IdleTyped DEF IInv, TypeOK
  <1>6. Slots'
    BY <1>1, IdleTyped, LifecycleAssumption
       DEF Slots, LabelsMatch, LabelFits, Suits, Swapping, StaleOverrun,
           SlotExclusion, NoOrphanedSlot
  <1> QED BY <1>5, <1>6 DEF IInv

LEMMA MigrateKeeps ==
    ASSUME IInv, Migrate PROVE IInv'
  <1>1. /\ phase' = "migrated" /\ row' \in {row, file}
        /\ tombstone' \in {tombstone, FALSE}
        /\ UNCHANGED <<reg, uninstalled, lock, file, dir, litter, task, expect,
                       removed, saved, ops, crashes>>
    BY Zenon DEF Migrate, registry, database, ghosts, bounds
  <1>2. DataTyped'
    BY <1>1 DEF IInv, TypeOK, DataTyped
  <1> QED BY <1>1, <1>2, StillKeeps

LEMMA RestartKeeps ==
    ASSUME IInv, Restart PROVE IInv'
  <1>1. PICK found \in Entries :
            /\ reg' = found
            /\ row' \in {row, found} /\ tombstone' \in {tombstone, FALSE}
            /\ expect' \in {expect, found}
    BY Zenon DEF Restart, database
  <1>2. /\ phase' = "up" /\ uninstalled' = tombstone
        /\ UNCHANGED <<lock, file, dir, litter, task, removed, saved, ops, crashes>>
    BY Zenon DEF Restart, bounds
  <1>3. DataTyped'
    BY <1>1, <1>2 DEF IInv, TypeOK, DataTyped
  <1> QED BY <1>2, <1>3, StillKeeps

-----------------------------------------------------------------------------
(* The specification. *)

LEMMA InitIInv == Init => IInv
  <1> SUFFICES ASSUME Init PROVE IInv
    OBVIOUS
  <1>1. PICK v \in {0} \cup Versions :
            dir = [p \in Places |-> IF p = "addons" /\ v # 0
                                    THEN [ver |-> v, data |-> FALSE] ELSE NoDir]
    BY DEF Init
  <1>2. dir \in [Places -> Directories]
    BY <1>1, IdleTyped DEF Directories
  <1>3. TypeOK
    <2>1. task \in [Handlers -> Tasks]
      BY IdleTyped DEF Init
    <2>2. litter \subseteq Leftovers /\ ops \in 0..MaxOps /\ crashes \in 0..MaxCrashes
      BY LifecycleAssumption DEF Init
    <2>3. lock \in [owner : Handlers \cup {NoHandler}, stale : BOOLEAN]
      BY DEF Init
    <2> QED BY <1>2, <2>1, <2>2, <2>3, IdleTyped, Zenon DEF Init, TypeOK
  <1>4. Slots
    BY IdleTyped, LifecycleAssumption
    DEF Init, Slots, LabelsMatch, LabelFits, Suits, Swapping, StaleOverrun,
        SlotExclusion, NoOrphanedSlot
  <1> QED BY <1>3, <1>4 DEF IInv

LEMMA HandlerStepKeeps ==
    ASSUME IInv, NEW h \in Handlers, HandlerStep(h) PROVE IInv'
  <1>1. CASE InstallSteps(h)
    BY <1>1, InstallIngestKeeps, InstallIngestFailsKeeps, InstallRejectedKeeps,
       InstallPlaceKeeps, InstallRegisterKeeps, InstallUnregisteredKeeps,
       SynthesizeInstallKeeps, GenerateKeeps, Zenon DEF InstallSteps
  <1>2. CASE UpgradeSteps(h)
    BY <1>2, UpgradeLookupKeeps, UpgradeAcquireKeeps, UpgradeConflictKeeps,
       UpgradeFindKeeps, UpgradeNotFoundKeeps, UpgradeIngestKeeps,
       UpgradeIngestFailsKeeps, UpgradeRejectedKeeps, UpgradePreserveKeeps,
       SwapOutKeeps, SwapOutFailsKeeps, SwapInKeeps, SwapInFailsKeeps,
       DropBackupKeeps, UpgradeEnrollKeeps, UpgradeOrphanedKeeps, Zenon
       DEF UpgradeSteps
  <1>3. CASE Unregister(h) \/ Purge(h) \/ RemoveRow(h) \/ SetStatus(h)
             \/ SetRow(h) \/ Rescan(h)
    BY <1>3, UnregisterKeeps, PurgeKeeps, RemoveRowKeeps, SetStatusKeeps,
       SetRowKeeps, RescanKeeps, Zenon
  <1>4. CASE SaveRow(h) \/ Snapshot(h) \/ WriteFile(h) \/ WriteFails(h)
    BY <1>4, SaveRowKeeps, SnapshotKeeps, WriteFileKeeps, WriteFailsKeeps, Zenon
  <1> QED BY <1>1, <1>2, <1>3, <1>4, Zenon DEF HandlerStep

LEMMA NextIInv == IInv /\ [Next]_vars => IInv'
  <1> SUFFICES ASSUME IInv, [Next]_vars PROVE IInv'
    OBVIOUS
  <1>1. CASE UNCHANGED vars
    <2>1. DataTyped'
      BY <1>1 DEF vars, IInv, TypeOK, DataTyped
    <2> QED BY <1>1, <2>1, StillKeeps DEF vars
  <1>2. ASSUME NEW h \in Handlers, HandlerStep(h) PROVE IInv'
    BY <1>2, HandlerStepKeeps
  <1> QED BY <1>1, <1>2, LockExpiresKeeps, PruneLockKeeps, ModuleWritesKeeps,
             CrashKeeps, MigrateKeeps, RestartKeeps, Zenon DEF Next

\* The inductive invariant holds in every reachable state.
THEOREM Invariance == Spec => []IInv
  <1> QED BY InitIInv, NextIInv, PTL DEF Spec

\* Every reachable state is typed.
THEOREM TypeCorrect == Spec => []TypeOK
  <1>1. IInv => TypeOK
    BY DEF IInv
  <1> QED BY <1>1, Invariance, PTL

\* Two upgrades are at work at once only if one has outlived its slot's TTL:
\* a guard that is dropped late does not free the slot of its successor.
THEOREM UpgradesExclude == Spec => []SlotExclusion
  <1>1. IInv => SlotExclusion
    BY DEF IInv, Slots
  <1> QED BY <1>1, Invariance, PTL

\* A slot is always owned by an upgrade under way, however others ended.
THEOREM SlotsNotOrphaned == Spec => []NoOrphanedSlot
  <1>1. IInv => NoOrphanedSlot
    BY DEF IInv, Slots
  <1> QED BY <1>1, Invariance, PTL

-----------------------------------------------------------------------------
(* What a step may never do. *)

\* A step of a request leaves the others where they are.
LEMMA OthersStand ==
    ASSUME TypeOK, NEW h \in Handlers, HandlerStep(h), NEW o \in Handlers, o # h
    PROVE  task'[o] = task[o]
  <1>1. \/ UNCHANGED task
        \/ \E r : task' = [task EXCEPT ![h] = r]
    <2>1. CASE InstallSteps(h)
      BY <2>1, Zenon DEF InstallSteps, InstallIngest, InstallIngestFails,
         InstallRejected, InstallPlace, InstallRegister, InstallUnregistered,
         SynthesizeInstall, Generate, Refuse, Goto
    <2>2. CASE UpgradeSteps(h)
      BY <2>2, Zenon DEF UpgradeSteps, UpgradeLookup, UpgradeAcquire,
         UpgradeConflict, UpgradeFind, UpgradeNotFound, UpgradeIngest,
         UpgradeIngestFails, UpgradeRejected, UpgradePreserve, SwapOut,
         SwapOutFails, SwapIn, SwapInFails, DropBackup, UpgradeEnroll,
         UpgradeOrphaned, Refuse, Goto
    <2>3. CASE Unregister(h) \/ Purge(h) \/ RemoveRow(h) \/ SetStatus(h)
               \/ SetRow(h) \/ Rescan(h)
      BY <2>3, Zenon DEF Unregister, Purge, RemoveRow, SetStatus, SetRow,
         Rescan, Goto
    <2>4. CASE SaveRow(h) \/ Snapshot(h) \/ WriteFile(h) \/ WriteFails(h)
      BY <2>4, Zenon DEF SaveRow, Snapshot, WriteFile, WriteFails, Refuse, Goto
    <2> QED BY <2>1, <2>2, <2>3, <2>4, Zenon DEF HandlerStep
  <1> QED BY <1>1 DEF TypeOK

\* The steps of a request that change the registry.
LEMMA RegistryChanges ==
    ASSUME NEW h \in Handlers, HandlerStep(h)
    PROVE  \/ reg' = reg
           \/ InstallRegister(h) \/ SynthesizeInstall(h) \/ Unregister(h)
           \/ SetStatus(h) \/ UpgradeEnroll(h) \/ Rescan(h)
  <1>1. CASE InstallSteps(h)
    BY <1>1, Zenon DEF InstallSteps, InstallIngest, InstallIngestFails,
       InstallRejected, InstallPlace, InstallUnregistered, Generate, registry
  <1>2. CASE UpgradeSteps(h)
    BY <1>2, Zenon DEF UpgradeSteps, UpgradeLookup, UpgradeAcquire,
       UpgradeConflict, UpgradeFind, UpgradeNotFound, UpgradeIngest,
       UpgradeIngestFails, UpgradeRejected, UpgradePreserve, SwapOut,
       SwapOutFails, SwapIn, SwapInFails, DropBackup, UpgradeOrphaned, registry
  <1>3. CASE Purge(h) \/ RemoveRow(h) \/ SetRow(h)
    BY <1>3, Zenon DEF Purge, RemoveRow, SetRow, registry
  <1>4. CASE SaveRow(h) \/ Snapshot(h) \/ WriteFile(h) \/ WriteFails(h)
    BY <1>4, Zenon DEF SaveRow, Snapshot, WriteFile, WriteFails, registry
  <1> QED BY <1>1, <1>2, <1>3, <1>4, Zenon DEF HandlerStep

\* The steps of a request that change the table.
LEMMA RowChanges ==
    ASSUME NEW h \in Handlers, HandlerStep(h)
    PROVE  row' = row \/ SaveRow(h) \/ RemoveRow(h) \/ SetRow(h)
  <1>1. CASE InstallSteps(h)
    BY <1>1, Zenon DEF InstallSteps, InstallIngest, InstallIngestFails,
       InstallRejected, InstallPlace, InstallRegister, InstallUnregistered,
       SynthesizeInstall, Generate, database
  <1>2. CASE UpgradeSteps(h)
    BY <1>2, Zenon DEF UpgradeSteps, UpgradeLookup, UpgradeAcquire,
       UpgradeConflict, UpgradeFind, UpgradeNotFound, UpgradeIngest,
       UpgradeIngestFails, UpgradeRejected, UpgradePreserve, SwapOut,
       SwapOutFails, SwapIn, SwapInFails, DropBackup, UpgradeEnroll,
       UpgradeOrphaned, database
  <1>3. CASE Unregister(h) \/ Purge(h) \/ SetStatus(h) \/ Rescan(h)
    BY <1>3, Zenon DEF Unregister, Purge, SetStatus, Rescan, database
  <1>4. CASE Snapshot(h) \/ WriteFile(h) \/ WriteFails(h)
    BY <1>4, Zenon DEF Snapshot, WriteFile, WriteFails, database
  <1> QED BY <1>1, <1>2, <1>3, <1>4, Zenon DEF HandlerStep

LEMMA HandlerReturns ==
    ASSUME IInv, NEW h \in Handlers, HandlerStep(h),
           uninstalled, reg = Absent, reg' # Absent
    PROVE  task'[h].kind = "install" /\ task'[h] # task[h]
  <1>1. InstallRegister(h) \/ SynthesizeInstall(h)
    BY RegistryChanges, Zenon
       DEF Unregister, SetStatus, UpgradeEnroll, Rescan, Discovered
  <1>2. task[h] \in Tasks /\ task \in [Handlers -> Tasks]
    BY DEF IInv, TypeOK
  <1>3. CASE InstallRegister(h)
    <2> DEFINE r == [task[h] EXCEPT !.pc = "saverow"]
    <2>1. task[h].pc = "register" /\ task[h].kind = "install"
      BY <1>3, KindOf DEF InstallRegister, Suits
    <2>2. r.pc = "saverow" /\ r.kind = task[h].kind
      BY <1>2, Zenon DEF Tasks
    <2>3. task'[h] = r
      BY <1>2, <1>3, Zenon DEF InstallRegister, Goto
    <2> HIDE DEF r
    <2> QED BY <2>1, <2>2, <2>3
  <1>4. CASE SynthesizeInstall(h)
    <2> DEFINE r == [task[h] EXCEPT !.pc = "generate", !.kind = "install",
                                    !.man = reg']
    <2>1. task[h].kind = "none"
      BY <1>4, Started DEF SynthesizeInstall
    <2>2. r.kind = "install"
      BY <1>2, Zenon DEF Tasks
    <2>3. task'[h] = r
      BY <1>2, <1>4, Zenon DEF SynthesizeInstall
    <2> HIDE DEF r
    <2> QED BY <2>1, <2>2, <2>3
  <1> QED BY <1>1, <1>3, <1>4

LEMMA NextReturnsByInstall == IInv /\ [Next]_vars => [ReturnsByInstall]_vars
  <1> SUFFICES ASSUME IInv, Next, phase = "up", uninstalled, reg = Absent,
                      reg' # Absent
               PROVE  \E h \in Handlers : task'[h].kind = "install"
                                          /\ task'[h] # task[h]
    BY DEF ReturnsByInstall
  <1>1. ~LockExpires /\ ~PruneLock /\ ~ModuleWrites /\ ~Crash /\ ~Migrate /\ ~Restart
    BY DEF LockExpires, PruneLock, ModuleWrites, Crash, Migrate, Restart, registry
  <1>2. PICK h \in Handlers : HandlerStep(h)
    BY <1>1, Zenon DEF Next
  <1> QED BY <1>2, HandlerReturns

\* A step of an upgrade is not a step of another kind of request.
LEMMA UpgradeOnly ==
    ASSUME IInv, NEW h \in Handlers, task[h].kind = "upgrade"
    PROVE  /\ ~InstallRegister(h) /\ ~SynthesizeInstall(h) /\ ~Unregister(h)
           /\ ~SetStatus(h) /\ ~Rescan(h) /\ ~RemoveRow(h) /\ ~SetRow(h)
  <1>1. ~Begins(h)
    BY Started
  <1>2. ~At(h, "register") /\ ~At(h, "unrow") /\ ~At(h, "setrow")
    BY KindOf DEF Suits
  <1> QED BY <1>1, <1>2, Zenon DEF InstallRegister, SynthesizeInstall, Unregister,
             SetStatus, Rescan, RemoveRow, SetRow

LEMMA HandlerKeepsEnablement ==
    ASSUME IInv, NEW h \in Handlers, HandlerStep(h), task[h].kind = "upgrade"
    PROVE  reg'.on = reg.on /\ (row # Absent => row'.on = row.on)
  <1>1. reg' = reg \/ UpgradeEnroll(h)
    BY RegistryChanges, UpgradeOnly, Zenon
  <1>2. row' = row \/ SaveRow(h)
    BY RowChanges, UpgradeOnly, Zenon
  <1>3. reg'.on = reg.on
    BY <1>1, UpgradeEnrollKeeps, Zenon
  <1>4. ASSUME row # Absent, SaveRow(h) PROVE row'.on = row.on
    <2>1. row' = row \/ row' = StoredRow(h)
      BY <1>4, Zenon DEF SaveRow
    <2>2. StoredRow(h).on = row.on
      BY <1>4, StoredRowTyped, Zenon
    <2> QED BY <2>1, <2>2, Zenon
  <1> QED BY <1>2, <1>3, <1>4, Zenon

LEMMA NextKeepsEnablement == IInv /\ [Next]_vars => [KeepsEnablement]_vars
  <1> SUFFICES ASSUME IInv, Next, NEW h \in Handlers, task[h].kind = "upgrade",
                      task'[h] # task[h], phase' = "up"
               PROVE  reg'.on = reg.on /\ (row # Absent => row'.on = row.on)
    BY DEF KeepsEnablement
  <1>1. CASE \E o \in Handlers : HandlerStep(o)
    <2>1. PICK o \in Handlers : HandlerStep(o)
      BY <1>1
    <2>2. o = h
      BY <2>1, OthersStand, Zenon DEF IInv
    <2> QED BY <2>1, <2>2, HandlerKeepsEnablement
  <1>2. CASE LockExpires
    BY <1>2, Zenon DEF LockExpires, registry, database
  <1>3. ~PruneLock /\ ~ModuleWrites /\ ~Crash /\ ~Migrate /\ ~Restart
    BY DEF PruneLock, ModuleWrites, Crash, Migrate, Restart
  <1> QED BY <1>1, <1>2, <1>3, Zenon DEF Next

\* An uninstalled module returns only by an install, whatever scans and
\* upgrades do meanwhile.
THEOREM ReturnsOnlyByInstall == Spec => OnlyInstallsReturn
  <1> QED BY Invariance, NextReturnsByInstall, PTL DEF OnlyInstallsReturn, Spec

\* An upgrade leaves the module enabled or disabled as it was.
THEOREM UpgradesKeepEnablement == Spec => UpgradeKeepsEnablement
  <1> QED BY Invariance, NextKeepsEnablement, PTL DEF UpgradeKeepsEnablement, Spec

-----------------------------------------------------------------------------
(* One handler: memory, table and file agree between the requests.  A      *)
(* request that has changed nothing yet finds row = reg; one that has is   *)
(* bound to its label by Aligned, until WriteFile acknowledges it.         *)

\* The labels of a request that has changed neither registry nor table.
Untouched == {"idle", "place", "register", "acquire"} \cup Swapping
Stored == {"snapshot", "write"}

\* A manifest without a directory is no manifest.
Proper(e) == e.at = "none" => e = Absent

Aligned(h) ==
    /\ task[h].pc \in Untouched \cup Stored => row = reg
    /\ task[h].pc \in {"generate", "setrow", "saverow"} => reg # Absent
    /\ task[h].pc \in {"generate", "setrow"} => task[h].man = reg
    /\ task[h].pc = "setrow" => row # Absent /\ row = [reg EXCEPT !.on = row.on]
    /\ task[h].pc \in {"register", "dropBackup", "enroll"} => task[h].man.at = "modules"
    /\ task[h].pc = "saverow" =>
         IF task[h].kind = "upgrade"
         THEN row # Absent /\ reg = [task[h].man EXCEPT !.on = row.on]
         ELSE task[h].man = reg
    /\ task[h].kind = "remove" => reg = Absent /\ uninstalled
    /\ task[h].pc \in Stored =>
         (task[h].kind = "remove" => tombstone) /\ (reg = Absent => task[h].kind = "remove")
    /\ task[h].pc = "write" => task[h].snap = reg

\* What is acknowledged is in the table, and a removal is everywhere.
Settled(h) ==
    expect # Unknown =>
       /\ row = expect /\ task[h].pc \in Untouched
       /\ expect = Absent => /\ file = Absent /\ tombstone
                             /\ phase = "up" => uninstalled

SeqInv(h) ==
    /\ Proper(reg) /\ Proper(row) /\ Proper(file)
    /\ phase = "up" => Aligned(h)
    /\ phase # "up" => task[h].pc = "idle"
    /\ phase = "migrated" /\ row = Absent => file = Absent
    /\ Settled(h)
    /\ removed => expect = Absent

\* Nothing that counts has changed.
Same == UNCHANGED <<phase, reg, uninstalled, row, tombstone, file, expect, removed>>

LEMMA SeqStays ==
    ASSUME NEW h \in Handlers, SeqInv(h), Same, phase = "up", task[h].pc \in Untouched,
           task'[h].pc \in Untouched, task'[h].kind # "remove",
           task'[h].pc \in {"register", "dropBackup", "enroll"} => task'[h].man.at = "modules"
    PROVE  SeqInv(h)'
<1>1. /\ task'[h].pc \notin Stored \cup {"generate", "setrow", "saverow"}
      /\ task[h].pc \notin Stored /\ row = reg
  BY DEF Untouched, Swapping, Stored, SeqInv, Aligned
<1>2. Aligned(h)'
  BY <1>1 DEF Aligned, Same, Stored
<1>3. Settled(h)'
  BY DEF SeqInv, Settled, Same
<1> QED BY <1>2, <1>3 DEF SeqInv, Same, Proper

LEMMA SeqStutters ==
    ASSUME NEW h \in Handlers, SeqInv(h), Same, task'[h].pc = task[h].pc,
           task'[h].kind = task[h].kind, task'[h].man = task[h].man,
           task'[h].snap = task[h].snap
    PROVE  SeqInv(h)'
BY DEF SeqInv, Aligned, Settled, Same, Proper

\* Where Goto leads a request.
LEMMA GoesTo ==
  ASSUME TypeOK, NEW h \in Handlers, NEW label \in Labels, Goto(h, label)
  PROVE  LET n == task'[h]
         IN  /\ n.pc = label /\ n.kind = task[h].kind /\ n.man = task[h].man
             /\ n.snap = task[h].snap /\ n.stage = task[h].stage
             /\ n.backup = task[h].backup /\ n.prev = task[h].prev
BY DEF Goto, TypeOK, Tasks

LEMMA SeqRefuse ==
    ASSUME TypeOK, NEW h \in Handlers, SeqInv(h), Same, phase = "up",
           task' = [task EXCEPT ![h] = Idle], task[h].pc \in Untouched
    PROVE  SeqInv(h)'
<1>1. task'[h].pc = "idle" /\ task'[h].kind = "none"
  BY IdleTyped DEF TypeOK
<1> QED BY <1>1, SeqStays DEF Untouched

\* The request has changed the registry: nothing is established any more.
LEMMA SeqBusy ==
    ASSUME NEW h \in Handlers, phase' = "up", Aligned(h)',
           Proper(reg)', Proper(row)', Proper(file)',
           expect' = Unknown, ~removed'
    PROVE  SeqInv(h)'
BY DEF SeqInv, Settled

\* What was acknowledged stood when the request began.
LEMMA NotRemoved ==
    ASSUME NEW h \in Handlers, SeqInv(h), phase = "up", reg # Absent \/ task[h].pc \notin Untouched
    PROVE  ~removed
BY DEF SeqInv, Settled, Aligned, Unknown, Absent

-----------------------------------------------------------------------------
(* Storing. *)

LEMMA SaveRowAligns ==
    ASSUME TypeOK, NEW h \in Handlers, ~DbMayFail, SeqInv(h), SaveRow(h) PROVE SeqInv(h)'
<1>1. /\ phase = "up" /\ phase' = phase /\ task[h].pc = "saverow" /\ Aligned(h)
      /\ row' = StoredRow(h) /\ tombstone' = FALSE /\ Goto(h, "snapshot")
      /\ UNCHANGED <<reg, uninstalled, file, expect, removed>>
  BY DEF SaveRow, SeqInv, registry, ghosts, At
<1>2. /\ task'[h].pc = "snapshot" /\ task'[h].kind = task[h].kind
  BY <1>1, GoesTo DEF Labels
<1>3. row' = reg
  BY <1>1 DEF Aligned, StoredRow, TypeOK, Entries, Tasks
<1>4. expect = Unknown /\ ~removed
  BY <1>1, NotRemoved DEF SeqInv, Settled, Untouched, Swapping
<1>5. Aligned(h)'
  BY <1>1, <1>2, <1>3 DEF Aligned, Stored, Untouched, Swapping
<1> QED BY <1>1, <1>3, <1>4, <1>5, SeqBusy DEF SeqInv, Proper

LEMMA SnapshotAligns ==
    ASSUME TypeOK, NEW h \in Handlers, SeqInv(h), Snapshot(h) PROVE SeqInv(h)'
<1>1. /\ phase = "up" /\ phase' = phase /\ task[h].pc = "snapshot" /\ Aligned(h)
      /\ task' = [task EXCEPT ![h] = [@ EXCEPT !.pc = "write", !.snap = reg]]
      /\ UNCHANGED <<reg, uninstalled, row, tombstone, file, expect, removed>>
  BY DEF Snapshot, SeqInv, registry, database, ghosts, At
<1>2. task'[h].pc = "write" /\ task'[h].kind = task[h].kind /\ task'[h].snap = reg
  BY <1>1 DEF TypeOK, Tasks
<1>3. expect = Unknown /\ ~removed
  BY <1>1, NotRemoved DEF SeqInv, Settled, Untouched, Swapping
<1>4. Aligned(h)'
  BY <1>1, <1>2 DEF Aligned, Stored, Untouched, Swapping
<1> QED BY <1>1, <1>3, <1>4, SeqBusy DEF SeqInv, Proper

LEMMA WriteFileAligns ==
    ASSUME TypeOK, NEW h, Handlers = {h}, SeqInv(h), WriteFile(h) PROVE SeqInv(h)'
<1>1. /\ phase = "up" /\ phase' = phase /\ task[h].pc = "write" /\ Aligned(h)
      /\ task' = [task EXCEPT ![h] = Idle] /\ file' = task[h].snap
      /\ UNCHANGED <<reg, uninstalled, row, tombstone>>
      /\ IF task[h].kind = "rescan" THEN UNCHANGED <<expect, removed>> ELSE Acknowledge(h)
  BY DEF WriteFile, SeqInv, registry, database, ghosts, At
<1>2. task'[h].pc = "idle" /\ task'[h].kind = "none"
  BY <1>1, IdleTyped DEF TypeOK
<1>3. expect = Unknown /\ ~removed
  BY <1>1, NotRemoved DEF SeqInv, Settled, Untouched, Swapping
<1>4. /\ row = reg /\ file' = reg
      /\ task[h].kind = "remove" => reg = Absent /\ uninstalled /\ tombstone
      /\ reg = Absent => task[h].kind = "remove"
  BY <1>1 DEF Aligned, Stored
<1>5. /\ expect' \in {Unknown, reg}
      /\ removed' = (task[h].kind = "remove")
      /\ removed' => expect' = Absent
  <2>1. ~OthersInFlight(h, Kinds) /\ ~OthersInFlight(h, {"install", "upgrade"})
    BY DEF OthersInFlight
  <2>2. task[h].snap = reg
    BY <1>1 DEF Aligned
  <2> QED BY <1>1, <1>3, <1>4, <2>1, <2>2 DEF Acknowledge, TypeOK
<1>6. Aligned(h)'
  BY <1>1, <1>2, <1>4 DEF Aligned, Stored, Untouched, Swapping
<1>7. Settled(h)'
  BY <1>1, <1>2, <1>4, <1>5 DEF Settled, Untouched
<1> QED BY <1>1, <1>4, <1>5, <1>6, <1>7 DEF SeqInv, Proper

LEMMA WriteFailsAligns ==
    ASSUME TypeOK, NEW h \in Handlers, SeqInv(h), WriteFails(h) PROVE SeqInv(h)'
<1>1. /\ phase = "up" /\ phase' = phase /\ task[h].pc = "write" /\ Aligned(h)
      /\ task' = [task EXCEPT ![h] = Idle]
      /\ UNCHANGED <<reg, uninstalled, row, tombstone, file, expect, removed>>
  BY DEF WriteFails, Refuse, SeqInv, registry, database, ghosts, At
<1>2. task'[h].pc = "idle" /\ task'[h].kind = "none"
  BY <1>1, IdleTyped DEF TypeOK
<1>3. expect = Unknown /\ ~removed
  BY <1>1, NotRemoved DEF SeqInv, Settled, Untouched, Swapping
<1>4. Aligned(h)'
  BY <1>1, <1>2 DEF Aligned, Stored, Untouched, Swapping
<1> QED BY <1>1, <1>3, <1>4, SeqBusy DEF SeqInv, Proper, TypeOK

-----------------------------------------------------------------------------
(* Install, remove, enable and disable. *)

\* A new entry is somewhere, and it is enabled.
LEMMA EntryIsProper ==
    ASSUME NEW v, NEW p, p # "none" PROVE Entry(v, p, TRUE) # Absent /\ Entry(v, p, TRUE).at = p
BY DEF Entry, Absent

LEMMA InstallRegisterAligns ==
    ASSUME IInv, NEW h \in Handlers, SeqInv(h), InstallRegister(h) PROVE SeqInv(h)'
<1>1. /\ phase = "up" /\ phase' = phase /\ task[h].pc = "register" /\ Aligned(h)
      /\ reg' = task[h].man /\ Goto(h, "saverow")
      /\ UNCHANGED <<uninstalled, row, tombstone, file>>
      /\ expect' = Unknown /\ ~removed'
  BY DEF InstallRegister, SeqInv, registry, database, At, Supersede
<1>2. task[h].kind = "install" /\ TypeOK
  BY <1>1 DEF IInv, Slots, LabelsMatch, LabelFits, Suits
<1>3. task'[h].pc = "saverow" /\ task'[h].kind = "install" /\ task'[h].man = task[h].man
  BY <1>1, <1>2, GoesTo DEF Labels
<1>4. reg'.at = "modules" /\ reg' # Absent
  BY <1>1 DEF Aligned, Absent
<1>5. Aligned(h)'
  BY <1>1, <1>3, <1>4 DEF Aligned, Stored, Untouched, Swapping
<1> QED BY <1>1, <1>4, <1>5, SeqBusy DEF SeqInv, Proper

LEMMA SynthesizeInstallAligns ==
    ASSUME IInv, NEW h \in Handlers, SeqInv(h), SynthesizeInstall(h) PROVE SeqInv(h)'
<1>1. PICK v \in Versions :
        /\ reg' = Entry(v, IF Exists(dir["addons"]) THEN "addons" ELSE "modules", TRUE)
        /\ task' = [task EXCEPT ![h] = [@ EXCEPT !.pc = "generate", !.kind = "install",
                                                 !.man = reg']]
  BY DEF SynthesizeInstall
<1>2. /\ phase = "up" /\ phase' = phase /\ expect' = Unknown /\ ~removed'
      /\ UNCHANGED <<uninstalled, row, tombstone, file>>
  BY DEF SynthesizeInstall, Begins, At, database, Supersede
<1>3. /\ task'[h].pc = "generate" /\ task'[h].kind = "install" /\ task'[h].man = reg'
  BY <1>1 DEF IInv, TypeOK, Tasks
<1>4. reg' # Absent /\ reg'.at # "none"
  <2>1. PICK p \in Places : reg' = Entry(v, p, TRUE)
    BY <1>1 DEF Places
  <2> QED BY <2>1, EntryIsProper DEF Places
<1>5. Aligned(h)'
  BY <1>3, <1>4 DEF Aligned, Stored, Untouched, Swapping
<1> QED BY <1>2, <1>4, <1>5, SeqBusy DEF SeqInv, Proper

LEMMA GenerateAligns ==
    ASSUME IInv, NEW h \in Handlers, SeqInv(h), Generate(h) PROVE SeqInv(h)'
<1>1. /\ phase = "up" /\ phase' = phase /\ task[h].pc = "generate" /\ Aligned(h)
      /\ Goto(h, "saverow")
      /\ UNCHANGED <<reg, uninstalled, row, tombstone, file, expect, removed>>
  BY DEF Generate, SeqInv, registry, database, At, ghosts
<1>2. task[h].kind = "install" /\ TypeOK
  BY <1>1 DEF IInv, Slots, LabelsMatch, LabelFits, Suits
<1>3. task'[h].pc = "saverow" /\ task'[h].kind = "install" /\ task'[h].man = task[h].man
  BY <1>1, <1>2, GoesTo DEF Labels
<1>4. expect = Unknown /\ ~removed
  BY <1>1, NotRemoved DEF SeqInv, Settled, Untouched, Swapping
<1>5. Aligned(h)'
  BY <1>1, <1>3 DEF Aligned, Stored, Untouched, Swapping
<1> QED BY <1>1, <1>4, <1>5, SeqBusy DEF SeqInv, Proper

LEMMA UnregisterAligns ==
    ASSUME IInv, NEW h \in Handlers, SeqInv(h), Unregister(h) PROVE SeqInv(h)'
<1>1. /\ phase = "up" /\ phase' = phase /\ reg # Absent /\ reg' = Absent /\ uninstalled' = TRUE
      /\ UNCHANGED <<row, tombstone, file>> /\ expect' = Unknown
      /\ removed' => removed
      /\ task' = [task EXCEPT ![h] = [@ EXCEPT !.pc = "purge", !.kind = "remove"]]
  BY DEF Unregister, Begins, At, database, Supersede
<1>2. task'[h].pc = "purge" /\ task'[h].kind = "remove"
  BY <1>1 DEF IInv, TypeOK, Tasks
<1>3. ~removed
  BY <1>1, NotRemoved
<1>4. Aligned(h)'
  BY <1>1, <1>2 DEF Aligned, Stored, Untouched, Swapping
<1> QED BY <1>1, <1>3, <1>4, SeqBusy DEF SeqInv, Proper

LEMMA PurgeAligns ==
    ASSUME IInv, NEW h \in Handlers, SeqInv(h), Purge(h) PROVE SeqInv(h)'
<1>1. PICK label \in {"purgeAddon", "unrow"} : Goto(h, label)
  BY DEF Purge
<1>2. /\ phase = "up" /\ phase' = phase /\ task[h].pc \in {"purge", "purgeAddon"} /\ Aligned(h)
      /\ UNCHANGED <<reg, uninstalled, row, tombstone, file, expect, removed>>
  BY DEF Purge, SeqInv, registry, database, At, ghosts
<1>3. task[h].kind = "remove" /\ TypeOK
  BY <1>2 DEF IInv, Slots, LabelsMatch, LabelFits, Suits
<1>4. task'[h].pc = label /\ task'[h].kind = "remove"
  BY <1>1, <1>3, GoesTo DEF Labels
<1>5. expect = Unknown /\ ~removed
  BY <1>2, NotRemoved DEF SeqInv, Settled, Untouched, Swapping
<1>6. Aligned(h)'
  BY <1>2, <1>3, <1>4 DEF Aligned, Stored, Untouched, Swapping
<1> QED BY <1>2, <1>5, <1>6, SeqBusy DEF SeqInv, Proper

LEMMA RemoveRowAligns ==
    ASSUME IInv, NEW h \in Handlers, ~DbMayFail, SeqInv(h), RemoveRow(h) PROVE SeqInv(h)'
<1>1. /\ phase = "up" /\ phase' = phase /\ task[h].pc = "unrow" /\ Aligned(h)
      /\ row' = Absent /\ tombstone' = TRUE /\ Goto(h, "snapshot")
      /\ UNCHANGED <<reg, uninstalled, file, expect, removed>>
  BY DEF RemoveRow, SeqInv, registry, At, ghosts
<1>2. task[h].kind = "remove" /\ TypeOK
  BY <1>1 DEF IInv, Slots, LabelsMatch, LabelFits, Suits
<1>3. task'[h].pc = "snapshot" /\ task'[h].kind = "remove"
  BY <1>1, <1>2, GoesTo DEF Labels
<1>4. expect = Unknown /\ ~removed
  BY <1>1, NotRemoved DEF SeqInv, Settled, Untouched, Swapping
<1>5. Aligned(h)'
  BY <1>1, <1>2, <1>3 DEF Aligned, Stored, Untouched, Swapping
<1> QED BY <1>1, <1>4, <1>5, SeqBusy DEF SeqInv, Proper

LEMMA SetStatusAligns ==
    ASSUME IInv, NEW h \in Handlers, SeqInv(h), SetStatus(h) PROVE SeqInv(h)'
<1>1. PICK on \in BOOLEAN : reg' = [reg EXCEPT !.on = on]
  BY DEF SetStatus
<1>2. /\ phase = "up" /\ phase' = phase /\ reg # Absent /\ task[h].pc = "idle" /\ Aligned(h)
      /\ task' = [task EXCEPT ![h] = [@ EXCEPT !.pc = "setrow", !.kind = "set", !.man = reg']]
      /\ UNCHANGED <<uninstalled, row, tombstone, file>> /\ expect' = Unknown
      /\ removed' => removed
  BY DEF SetStatus, Begins, At, database, Supersede, SeqInv
<1>3. task'[h].pc = "setrow" /\ task'[h].kind = "set" /\ task'[h].man = reg'
  BY <1>2 DEF IInv, TypeOK, Tasks
<1>4. ~removed
  BY <1>2, NotRemoved
<1>5. row = reg /\ reg.at # "none"
  BY <1>2 DEF Aligned, Untouched, SeqInv, Proper
<1>6. reg' # Absent /\ reg'.at # "none" /\ row = [reg' EXCEPT !.on = row.on]
  BY <1>1, <1>5 DEF Absent, IInv, TypeOK, Entries
<1>7. Aligned(h)'
  BY <1>2, <1>3, <1>5, <1>6 DEF Aligned, Stored, Untouched, Swapping
<1> QED BY <1>2, <1>4, <1>6, <1>7, SeqBusy DEF SeqInv, Proper

LEMMA SetRowAligns ==
    ASSUME IInv, NEW h \in Handlers, ~DbMayFail, SeqInv(h), SetRow(h) PROVE SeqInv(h)'
<1>1. /\ phase = "up" /\ phase' = phase /\ task[h].pc = "setrow" /\ Aligned(h)
      /\ Goto(h, "snapshot")
      /\ UNCHANGED <<reg, uninstalled, file, expect, removed>>
  BY DEF SetRow, SeqInv, registry, At, ghosts
<1>2. task[h].kind = "set" /\ TypeOK
  BY <1>1 DEF IInv, Slots, LabelsMatch, LabelFits, Suits
<1>3. task'[h].pc = "snapshot" /\ task'[h].kind = "set"
  BY <1>1, <1>2, GoesTo DEF Labels
<1>4. expect = Unknown /\ ~removed
  BY <1>1, NotRemoved DEF SeqInv, Settled, Untouched, Swapping
<1>5. row' = reg /\ reg # Absent
  <2>1. task[h].man = reg /\ row # Absent /\ row = [reg EXCEPT !.on = row.on] /\ reg # Absent
    BY <1>1 DEF Aligned
  <2>2. row' = [row EXCEPT !.on = reg.on]
    BY <2>1 DEF SetRow
  <2> QED BY <1>2, <2>1, <2>2 DEF TypeOK, Entries
<1>6. Aligned(h)'
  BY <1>1, <1>2, <1>3, <1>5 DEF Aligned, Stored, Untouched, Swapping
<1> QED BY <1>1, <1>4, <1>5, <1>6, SeqBusy DEF SeqInv, Proper


-----------------------------------------------------------------------------
(* Upgrade and scan. *)

LEMMA UpgradeEnrollAligns ==
    ASSUME IInv, NEW h \in Handlers, SeqInv(h), UpgradeEnroll(h) PROVE SeqInv(h)'
<1>1. /\ phase = "up" /\ phase' = phase /\ task[h].pc = "enroll" /\ Aligned(h)
      /\ reg # Absent /\ reg' = [task[h].man EXCEPT !.on = reg.on] /\ Goto(h, "saverow")
      /\ uninstalled' = FALSE /\ UNCHANGED <<row, tombstone, file>>
      /\ expect' = Unknown /\ ~removed'
  BY DEF UpgradeEnroll, SeqInv, database, At, Supersede
<1>2. task[h].kind = "upgrade" /\ TypeOK
  BY <1>1 DEF IInv, Slots, LabelsMatch, LabelFits, Suits, Swapping
<1>3. task'[h].pc = "saverow" /\ task'[h].kind = "upgrade" /\ task'[h].man = task[h].man
  BY <1>1, <1>2, GoesTo DEF Labels
<1>4. row = reg /\ task[h].man.at = "modules"
  BY <1>1 DEF Aligned, Untouched, Swapping
<1>5. reg'.at = "modules" /\ reg' # Absent /\ reg' = [task[h].man EXCEPT !.on = row.on]
  <2>1. task[h].man \in Entries
    BY <1>2 DEF TypeOK, Tasks
  <2> QED BY <1>1, <1>4, <2>1 DEF Entries, Absent
<1>6. Aligned(h)'
  BY <1>1, <1>3, <1>4, <1>5 DEF Aligned, Stored, Untouched, Swapping
<1> QED BY <1>1, <1>5, <1>6, SeqBusy DEF SeqInv, Proper

\* Everything a scan can find is somewhere.
LEMMA FoundSomewhere ==
    ASSUME TypeOK, NEW found \in ScannedFirst \cup {Entry(dir["addons"].ver, "addons", TRUE)}
    PROVE  found # Absent /\ found.at # "none"
<1>1. \A d \in litter : d.at \in {"temp", "modules"}
  BY DEF TypeOK, Leftovers
<1>2. ASSUME found \in ScannedFirst
      PROVE  \E v : \E p \in {"temp", "modules", "addons"} : found = Entry(v, p, TRUE)
  <2>1. CASE \E d \in litter : found = Entry(d.ver, d.at, TRUE)
    BY <1>1, <2>1, Zenon
  <2>2. CASE ~\E d \in litter : found = Entry(d.ver, d.at, TRUE)
    BY <1>2, <2>2 DEF ScannedFirst
  <2> QED BY <2>1, <2>2
<1>3. \E v : \E p \in {"temp", "modules", "addons"} : found = Entry(v, p, TRUE)
  BY <1>2
<1>6. PICK v : \E p \in {"temp", "modules", "addons"} : found = Entry(v, p, TRUE)
  BY <1>3
<1>4. PICK p \in {"temp", "modules", "addons"} : found = Entry(v, p, TRUE)
  BY <1>6
<1>5. p # "none"
  OBVIOUS
<1> QED BY <1>4, <1>5, EntryIsProper

LEMMA RescanAligns ==
    ASSUME IInv, NEW h \in Handlers, SeqInv(h), Rescan(h) PROVE SeqInv(h)'
<1>1. PICK found \in Entries :
        /\ Discovered(found) /\ reg' = found
        /\ task' = [task EXCEPT ![h] = [@ EXCEPT !.pc = "saverow", !.kind = "rescan",
                                                 !.man = found]]
  BY DEF Rescan
<1>2. /\ phase = "up" /\ phase' = phase /\ task[h].pc = "idle" /\ Aligned(h)
      /\ UNCHANGED <<uninstalled, row, tombstone, file, expect, removed>>
  BY DEF Rescan, Begins, At, database, ghosts, SeqInv
<1>3. /\ task'[h].pc = "saverow" /\ task'[h].kind = "rescan" /\ task'[h].man = reg'
  BY <1>1 DEF IInv, TypeOK, Tasks
<1>4. found \in ScannedFirst \cup {Entry(dir["addons"].ver, "addons", TRUE)}
  BY <1>1 DEF Discovered, Scannable
<1>5. reg' # Absent /\ reg'.at # "none"
  BY <1>1, <1>4, FoundSomewhere DEF IInv
<1>6. ~uninstalled /\ reg = Absent
  BY <1>1 DEF Discovered
<1>7. expect = Unknown /\ ~removed
  <2>1. row = Absent
    BY <1>2, <1>6 DEF Aligned, Untouched
  <2>2. expect = Unknown
    BY <1>2, <1>6, <2>1 DEF SeqInv, Settled
  <2> QED BY <2>2 DEF SeqInv, Unknown, Absent
<1>8. Aligned(h)'
  BY <1>3, <1>5 DEF Aligned, Stored, Untouched, Swapping
<1> QED BY <1>2, <1>5, <1>7, <1>8, SeqBusy DEF SeqInv, Proper

\* Steps of a request before it changes the registry.
Prepares(h) ==
    \/ InstallIngest(h) \/ InstallIngestFails(h) \/ InstallRejected(h)
    \/ InstallPlace(h) \/ InstallUnregistered(h)
    \/ UpgradeLookup(h) \/ UpgradeAcquire(h) \/ UpgradeConflict(h)
    \/ UpgradeFind(h) \/ UpgradeNotFound(h)
    \/ UpgradeIngest(h) \/ UpgradeIngestFails(h)
    \/ UpgradeRejected(h) \/ UpgradePreserve(h)
    \/ SwapOut(h) \/ SwapOutFails(h) \/ SwapIn(h) \/ SwapInFails(h)
    \/ DropBackup(h) \/ UpgradeOrphaned(h)

LEMMA PreparesAligns ==
    ASSUME IInv, NEW h \in Handlers, SeqInv(h), Prepares(h) PROVE SeqInv(h)'
<1>1. Same
  BY DEF Same, Prepares, InstallIngest, InstallIngestFails, InstallRejected, InstallPlace,
         InstallUnregistered, UpgradeLookup, UpgradeAcquire, UpgradeConflict, UpgradeFind,
         UpgradeNotFound, UpgradeIngest, UpgradeIngestFails, UpgradeRejected, UpgradePreserve,
         SwapOut, SwapOutFails, SwapIn, SwapInFails, DropBackup, UpgradeOrphaned,
         registry, database, ghosts, Refuse
<1>2. /\ phase = "up" /\ task[h].pc \in {"idle", "place", "register", "acquire"} \cup Swapping
  BY DEF Prepares, InstallIngest, InstallIngestFails, InstallRejected, InstallPlace,
         InstallUnregistered, UpgradeLookup, UpgradeAcquire, UpgradeConflict, UpgradeFind,
         UpgradeNotFound, UpgradeIngest, UpgradeIngestFails, UpgradeRejected, UpgradePreserve,
         SwapOut, SwapOutFails, SwapIn, SwapInFails, DropBackup, UpgradeOrphaned,
         Begins, At, Swapping
<1>3. TypeOK /\ task[h] \in Tasks /\ task[h].kind # "remove"
  BY <1>2 DEF IInv, TypeOK, Slots, LabelsMatch, LabelFits, Suits, Swapping, Idle
<1>4. /\ task'[h].pc \in Untouched /\ task'[h].kind # "remove"
      /\ task'[h].pc \in {"register", "dropBackup", "enroll"} => task'[h].man.at = "modules"
  <2>1. CASE UNCHANGED task
    BY <1>2, <1>3, <2>1 DEF SeqInv, Aligned, Untouched
  <2>2. CASE task' = [task EXCEPT ![h] = Idle]
    BY <1>3, <2>2, IdleTyped DEF TypeOK, Untouched
  <2>3. CASE InstallIngest(h)
    <3>1. PICK v \in Versions :
            task' = [task EXCEPT ![h] = [@ EXCEPT !.pc = "place", !.kind = "install",
                                                  !.stage = [ver |-> v, data |-> FALSE]]]
      BY <2>3 DEF InstallIngest
    <3>2. task'[h].pc = "place" /\ task'[h].kind = "install"
      BY <1>3, <3>1 DEF TypeOK, Tasks
    <3> QED BY <3>2 DEF Untouched
  <2>7. CASE UpgradeLookup(h)
    <3>1. task'[h].pc = "acquire" /\ task'[h].kind = "upgrade"
      BY <1>3, <2>7 DEF UpgradeLookup, TypeOK, Tasks
    <3> QED BY <3>1 DEF Untouched
  <2>8. CASE UpgradeFind(h)
    <3>1. PICK p \in Places : task' = [task EXCEPT ![h] = [@ EXCEPT !.pc = "fetch", !.prev = p]]
      BY <2>8 DEF UpgradeFind
    <3>2. task'[h].pc = "fetch" /\ task'[h].kind = task[h].kind
      BY <1>3, <3>1 DEF TypeOK, Tasks
    <3> QED BY <1>3, <3>2 DEF Untouched, Swapping
  <2>9. CASE UpgradeIngest(h) \/ UpgradePreserve(h)
    <3>1. PICK label \in {"preserve", "swapOut"} : \E stage :
            task' = [task EXCEPT ![h] = [@ EXCEPT !.pc = label, !.stage = stage]]
      <4>1. CASE UpgradeIngest(h)
        BY <4>1 DEF UpgradeIngest
      <4>2. CASE UpgradePreserve(h)
        BY <4>2 DEF UpgradePreserve
      <4> QED BY <2>9, <4>1, <4>2
    <3>2. task'[h].pc = label /\ task'[h].kind = task[h].kind
      BY <1>3, <3>1 DEF TypeOK, Tasks
    <3> QED BY <1>3, <3>2 DEF Untouched, Swapping
  <2>10. CASE SwapOut(h)
    <3>1. task'[h].pc = "swapIn" /\ task'[h].kind = task[h].kind
      BY <1>3, <2>10 DEF SwapOut, TypeOK, Tasks
    <3> QED BY <1>3, <3>1 DEF Untouched, Swapping
  <2>4. CASE InstallPlace(h) \/ SwapIn(h)
    <3> DEFINE e == Entry(task[h].stage.ver, "modules", TRUE)
    <3>1. e.at = "modules"
      BY DEF Entry
    <3>2. PICK label \in {"register", "dropBackup"} :
            task' = [task EXCEPT ![h] = [@ EXCEPT !.pc = label, !.stage = NoDir, !.man = e]]
      BY <2>4 DEF InstallPlace, SwapIn
    <3> HIDE DEF e
    <3>3. task'[h].pc = label /\ task'[h].kind = task[h].kind /\ task'[h].man = e
      BY <1>3, <3>2 DEF TypeOK, Tasks
    <3> QED BY <1>3, <3>1, <3>3 DEF Untouched, Swapping
  <2>5. CASE UpgradeAcquire(h)
    BY <1>3, <2>5, GoesTo DEF UpgradeAcquire, Labels, Untouched, Swapping
  <2>6. CASE DropBackup(h)
    BY <1>2, <1>3, <2>6 DEF DropBackup, At, SeqInv, Aligned, TypeOK, Tasks, Untouched, Swapping
  <2> QED BY <2>1, <2>2, <2>3, <2>4, <2>5, <2>6, <2>7, <2>8, <2>9, <2>10
          DEF Prepares, InstallIngestFails, InstallRejected, InstallUnregistered, UpgradeConflict,
              UpgradeNotFound, UpgradeIngestFails, UpgradeRejected, SwapOutFails, SwapInFails,
              UpgradeOrphaned, Refuse
<1> QED BY <1>1, <1>2, <1>4, SeqStays DEF Untouched

-----------------------------------------------------------------------------
(* The others, crashes and restarts. *)

LEMMA OthersAlign ==
    ASSUME IInv, NEW h \in Handlers, SeqInv(h),
           LockExpires \/ PruneLock \/ ModuleWrites \/ UNCHANGED vars
    PROVE  SeqInv(h)'
<1>1. Same
  BY DEF Same, LockExpires, PruneLock, ModuleWrites, vars, registry, database, ghosts
<1>2. /\ task'[h].pc = task[h].pc /\ task'[h].kind = task[h].kind
      /\ task'[h].man = task[h].man /\ task'[h].snap = task[h].snap
  BY DEF LockExpires, PruneLock, ModuleWrites, vars, IInv, TypeOK, Tasks
<1> QED BY <1>1, <1>2, SeqStutters

LEMMA CrashAligns ==
    ASSUME IInv, NEW h, Handlers = {h}, SeqInv(h), Crash PROVE SeqInv(h)'
<1>1. /\ phase # "down" /\ phase' = "down" /\ task'[h].pc = "idle"
      /\ reg' = Absent /\ UNCHANGED <<file, expect, removed>>
  BY IdleTyped DEF Crash, ghosts
<1>2. TypeOK /\ task[h] \in Tasks
  BY DEF IInv, TypeOK
<1>3. CASE UNCHANGED <<row, tombstone>>
  BY <1>1, <1>3 DEF SeqInv, Settled, Proper, Untouched
<1>4. CASE HalfStored(h)
  <2>1. expect = Unknown /\ ~removed
    BY <1>4 DEF HalfStored, SeqInv, Settled, Untouched, Swapping, Unknown, Absent
  <2>2. Proper(row')
    <3>1. CASE task[h].pc = "saverow" /\ row' = StoredRow(h)
      <4>1. phase = "up" /\ Aligned(h)
        BY <1>1, <3>1 DEF SeqInv
      <4>2. row' = reg
        BY <1>2, <3>1, <4>1 DEF Aligned, StoredRow, TypeOK, Entries, Tasks
      <4> QED BY <4>2 DEF SeqInv, Proper
    <3> QED BY <1>4, <3>1 DEF HalfStored, SeqInv, Proper
  <2> QED BY <1>1, <2>1, <2>2 DEF SeqInv, Settled, Proper
<1> QED BY <1>3, <1>4 DEF Crash, database

LEMMA MigrateAligns ==
    ASSUME IInv, NEW h \in Handlers, SeqInv(h), Migrate PROVE SeqInv(h)'
<1>1. /\ phase = "down" /\ phase' = "migrated"
      /\ UNCHANGED <<reg, file, task, expect, removed>>
      /\ IF row = Absent /\ file # Absent THEN row' = file /\ tombstone' = FALSE
                                          ELSE UNCHANGED <<row, tombstone>>
  BY DEF Migrate, registry, ghosts, database
<1> QED BY <1>1 DEF SeqInv, Settled, Proper

LEMMA RestartAligns ==
    ASSUME IInv, NEW h \in Handlers, SeqInv(h), Restart PROVE SeqInv(h)'
<1>1. PICK found \in Entries :
          /\ RestoredFrom(row, found)
          /\ reg' = found
          /\ IF row = Absent /\ found # Absent /\ found # file
             THEN row' = found /\ tombstone' = FALSE
             ELSE UNCHANGED database
          /\ expect' = IF expect = Unknown /\ found # Absent THEN found ELSE expect
  BY DEF Restart
<1>2. /\ phase = "migrated" /\ phase' = "up" /\ uninstalled' = tombstone
      /\ UNCHANGED <<file, task, removed>>
  BY DEF Restart
<1>3. row' = found
  BY <1>1, <1>2 DEF SeqInv, RestoredFrom, database
<1>4. Proper(found)
  <2>1. found \in {row, file} \cup ScannedFirst \cup {Entry(dir["addons"].ver, "addons", TRUE)}
    BY <1>1 DEF RestoredFrom, Scannable
  <2> QED BY <2>1, FoundSomewhere DEF SeqInv, Proper, IInv
<1>5. task[h].pc = "idle" /\ task[h].kind = "none"
  BY <1>2, IdleTyped DEF SeqInv, IInv, Slots, LabelsMatch, LabelFits
<1>6. Aligned(h)'
  BY <1>1, <1>2, <1>3, <1>5 DEF Aligned, Stored, Untouched, Swapping
<1>7. Settled(h)' /\ (removed' => expect' = Absent)
  <2>1. CASE expect = Unknown
    <3>1. ~removed /\ (expect' # Unknown => expect' = found /\ found # Absent)
      BY <1>1, <2>1 DEF SeqInv, Unknown, Absent
    <3> QED BY <1>2, <1>3, <1>5, <3>1 DEF Settled, Untouched
  <2>2. CASE expect # Unknown
    <3>1. /\ expect' = expect /\ row = expect
          /\ expect = Absent => file = Absent /\ tombstone
      BY <1>1, <2>2 DEF SeqInv, Settled
    <3>2. found = expect
      BY <1>1, <3>1 DEF RestoredFrom
    <3>3. expect = Absent => tombstone' = tombstone
      BY <1>1, <3>2 DEF database
    <3> QED BY <1>2, <1>3, <1>5, <3>1, <3>2, <3>3 DEF SeqInv, Settled, Untouched
  <2> QED BY <2>1, <2>2
<1> QED BY <1>1, <1>2, <1>3, <1>4, <1>6, <1>7 DEF SeqInv


LEMMA SeqStarts == ASSUME Init, NEW h \in Handlers PROVE SeqInv(h)
<1>1. task[h].pc = "idle" /\ task[h].kind = "none"
  BY IdleTyped DEF Init
<1>2. Aligned(h) /\ Settled(h)
  BY <1>1 DEF Init, Aligned, Settled, Stored, Untouched, Swapping
<1> QED BY <1>1, <1>2 DEF Init, SeqInv, Proper

LEMMA NextAligns ==
    ASSUME NEW h, Handlers = {h}, ~DbMayFail, IInv, SeqInv(h), [Next]_vars
    PROVE  SeqInv(h)'
<1>1. h \in Handlers /\ TypeOK
  BY DEF IInv
<1>2. CASE HandlerStep(h)
  <2>1. \/ Prepares(h) \/ InstallRegister(h) \/ SynthesizeInstall(h) \/ Generate(h)
        \/ Unregister(h) \/ Purge(h) \/ RemoveRow(h) \/ SetStatus(h) \/ SetRow(h)
        \/ UpgradeEnroll(h) \/ Rescan(h)
        \/ SaveRow(h) \/ Snapshot(h) \/ WriteFile(h) \/ WriteFails(h)
    BY <1>2, Zenon DEF HandlerStep, InstallSteps, UpgradeSteps, Prepares
  <2> QED BY <1>1, <2>1, PreparesAligns, InstallRegisterAligns, SynthesizeInstallAligns,
             GenerateAligns, UnregisterAligns, PurgeAligns, RemoveRowAligns, SetStatusAligns,
             SetRowAligns, UpgradeEnrollAligns, RescanAligns, SaveRowAligns, SnapshotAligns,
             WriteFileAligns, WriteFailsAligns
<1>3. CASE LockExpires \/ PruneLock \/ ModuleWrites \/ UNCHANGED vars
  BY <1>1, <1>3, OthersAlign
<1>4. CASE Crash \/ Migrate \/ Restart
  BY <1>1, <1>4, CrashAligns, MigrateAligns, RestartAligns
<1> QED BY <1>2, <1>3, <1>4 DEF Next

\* With one handler and a table whose statements succeed, what a request was
\* acknowledged for is in memory and in the table whenever no request is
\* served, through refusals and any number of crashes and restarts.
THEOREM AcksSurvive ==
    ASSUME NEW h, Handlers = {h}, ~DbMayFail PROVE Spec => []DurableAck
<1>1. SeqInv(h) => DurableAck
  BY DEF SeqInv, Aligned, Settled, DurableAck, Quiet, Untouched
<1>2. Init => SeqInv(h)
  BY SeqStarts
<1>3. IInv /\ SeqInv(h) /\ [Next]_vars => SeqInv(h)'
  BY NextAligns
<1> QED BY <1>1, <1>2, <1>3, Invariance, PTL DEF Spec

\* Under the same hypotheses a module whose removal was acknowledged is not
\* registered by a scan, a migration or a restart until it is installed again.
THEOREM RemovedStaysRemoved ==
    ASSUME NEW h, Handlers = {h}, ~DbMayFail PROVE Spec => []RemovalIsPermanent
<1>1. SeqInv(h) => RemovalIsPermanent
  BY DEF SeqInv, Aligned, Settled, RemovalIsPermanent, Absent, Unknown
<1>2. Init => SeqInv(h)
  BY SeqStarts
<1>3. IInv /\ SeqInv(h) /\ [Next]_vars => SeqInv(h)'
  BY NextAligns
<1> QED BY <1>1, <1>2, <1>3, Invariance, PTL DEF Spec

-----------------------------------------------------------------------------
(* One handler: where the data of the module is.  In the middle of a swap  *)
(* it is in the staged copy or in the backup, and then only there.         *)

\* Data is in a directory that is there.
Whole(d) == d.data => d.ver # 0
Kept == dir["addons"].data \/ \E d \in litter : d.data
OnDisk == dir["modules"].data \/ Kept

DataInv(h) ==
    /\ Whole(dir["modules"]) /\ Whole(dir["addons"])
    /\ Whole(task[h].stage) /\ Whole(task[h].backup)
    /\ task[h].pc \in {"place", "preserve", "swapOut", "swapIn"} => task[h].stage.ver # 0
    /\ task[h].pc = "generate" => task[h].man.ver # 0
    /\ task[h].pc \in {"fetch", "preserve"} =>
         (task[h].prev = "addons" => dir["modules"].ver = 0)
    /\ task[h].kind = "remove" => ~saved /\ reg = Absent /\ phase = "up"
    /\ saved => /\ task[h].pc # "swapIn" => OnDisk
                /\ task[h].pc \in {"swapOut", "swapIn"} => task[h].stage.data \/ Kept
                /\ task[h].pc = "swapIn" => task[h].backup.data \/ Kept

\* The labels about which DataInv says nothing more.
Plain == {"idle", "register", "purge", "purgeAddon", "unrow", "setrow", "acquire", "find",
          "fetch", "dropBackup", "enroll", "saverow", "snapshot", "write"}

LEMMA DataGoes ==
    ASSUME NEW h \in Handlers, DataInv(h), UNCHANGED dir, litter \subseteq litter', saved' => saved,
           task[h].pc # "swapIn", task'[h].pc \in Plain \ {"fetch"},
           Whole(task'[h].stage), Whole(task'[h].backup),
           task'[h].kind = "remove" => ~saved' /\ reg' = Absent /\ phase' = "up"
    PROVE  DataInv(h)'
<1>1. saved' => OnDisk'
  BY DEF DataInv, OnDisk, Kept
<1> QED BY <1>1 DEF DataInv, Whole, Plain

LEMMA DataStutters ==
    ASSUME NEW h \in Handlers, DataInv(h), UNCHANGED <<dir, saved>>, litter \subseteq litter',
           task'[h].pc = task[h].pc, task'[h].man = task[h].man, task'[h].prev = task[h].prev,
           task'[h].stage = task[h].stage, task'[h].backup = task[h].backup,
           task'[h].kind = task[h].kind,
           task[h].kind = "remove" => reg' = reg /\ phase' = phase
    PROVE  DataInv(h)'
<1>1. (OnDisk => OnDisk') /\ (Kept => Kept')
  BY DEF OnDisk, Kept
<1> QED BY <1>1 DEF DataInv, Whole

\* Requests that end: whatever they staged was copied.
LEMMA EndsData ==
    ASSUME IInv, NEW h \in Handlers, DataInv(h), UNCHANGED <<dir, saved>>, litter \subseteq litter',
           task[h].pc # "swapIn", task' = [task EXCEPT ![h] = Idle]
    PROVE  DataInv(h)'
<1>1. task'[h] = Idle
  BY DEF IInv, TypeOK
<1>2. /\ task'[h].pc = "idle" /\ task'[h].kind = "none"
      /\ Whole(task'[h].stage) /\ Whole(task'[h].backup)
  BY <1>1 DEF Idle, NoDir, Whole
<1> QED BY <1>2, DataGoes DEF Plain

LEMMA RefusalsData ==
    ASSUME IInv, NEW h \in Handlers, DataInv(h),
           \/ InstallRejected(h) \/ UpgradeConflict(h) \/ UpgradeNotFound(h)
           \/ UpgradeIngestFails(h) \/ UpgradeRejected(h) \/ SwapOutFails(h)
           \/ UpgradeOrphaned(h) \/ WriteFile(h) \/ WriteFails(h)
    PROVE  DataInv(h)'
<1>1. /\ UNCHANGED <<dir, saved>> /\ task' = [task EXCEPT ![h] = Idle]
      /\ litter \subseteq litter' /\ task[h].pc # "swapIn"
  BY DEF InstallRejected, UpgradeConflict, UpgradeNotFound, UpgradeIngestFails,
          UpgradeRejected, SwapOutFails, UpgradeOrphaned, WriteFile,
         WriteFails, Refuse, ghosts, At, Acknowledge
<1> QED BY <1>1, EndsData

\* Requests that go on elsewhere than on the disk.
LEMMA GotosData ==
    ASSUME IInv, NEW h \in Handlers, DataInv(h),
           \/ InstallRegister(h) \/ RemoveRow(h) \/ SetRow(h) \/ SaveRow(h)
           \/ UpgradeAcquire(h) \/ UpgradeEnroll(h)
    PROVE  DataInv(h)'
<1>1. PICK label \in {"saverow", "snapshot", "find"} : Goto(h, label)
  BY DEF InstallRegister, RemoveRow, SetRow, SaveRow, UpgradeAcquire, UpgradeEnroll
<1>2. /\ UNCHANGED <<dir, saved, litter, phase>> /\ phase = "up"
      /\ task[h].pc # "swapIn"
      /\ reg' = reg \/ task[h].pc \in {"register", "enroll"}
  BY DEF InstallRegister, RemoveRow, SetRow, SaveRow, UpgradeAcquire, UpgradeEnroll,
         registry, ghosts, At
<1>3. TypeOK /\ (task[h].pc \in {"register", "enroll"} => task[h].kind # "remove")
  BY DEF IInv, Slots, LabelsMatch, LabelFits, Suits, Swapping
<1>4. /\ task'[h].pc = label /\ task'[h].kind = task[h].kind
      /\ task'[h].stage = task[h].stage /\ task'[h].backup = task[h].backup
  BY <1>1, <1>3, GoesTo DEF Labels
<1>5. /\ task'[h].pc \in Plain \ {"fetch"}
      /\ Whole(task'[h].stage) /\ Whole(task'[h].backup)
      /\ task'[h].kind = "remove" => ~saved' /\ reg' = Absent /\ phase' = "up"
  BY <1>2, <1>3, <1>4 DEF DataInv, Plain
<1> QED BY <1>2, <1>5, DataGoes

LEMMA SnapshotData ==
    ASSUME IInv, NEW h \in Handlers, DataInv(h), Snapshot(h) PROVE DataInv(h)'
<1>1. /\ UNCHANGED <<dir, saved, litter, reg, phase>> /\ phase = "up" /\ task[h].pc = "snapshot"
      /\ task' = [task EXCEPT ![h] = [@ EXCEPT !.pc = "write", !.snap = reg]]
  BY DEF Snapshot, registry, ghosts, At
<1>2. /\ task'[h].pc = "write" /\ task'[h].kind = task[h].kind
      /\ task'[h].stage = task[h].stage /\ task'[h].backup = task[h].backup
  BY <1>1 DEF IInv, TypeOK, Tasks
<1> QED BY <1>1, <1>2, DataGoes DEF DataInv, Plain

\* A request that begins at the registry.
LEMMA BeginsData ==
    ASSUME IInv, NEW h \in Handlers, DataInv(h),
           Unregister(h) \/ SetStatus(h) \/ UpgradeLookup(h) \/ Rescan(h)
    PROVE  DataInv(h)'
<1>1. PICK label \in {"purge", "setrow", "acquire", "saverow"},
           kind \in {"remove", "set", "upgrade", "rescan"} :
        /\ \E man : task' =
             [task EXCEPT ![h] = [@ EXCEPT !.pc = label, !.kind = kind, !.man = man]]
        /\ kind = "remove" => ~saved' /\ reg' = Absent
  <2>1. CASE Unregister(h)
    <3>1. task' = [task EXCEPT ![h] =
                      [@ EXCEPT !.pc = "purge", !.kind = "remove", !.man = task[h].man]]
      BY <2>1 DEF Unregister, IInv, TypeOK, Tasks
    <3> QED BY <2>1, <3>1 DEF Unregister
  <2>2. CASE SetStatus(h)
    BY <2>2 DEF SetStatus
  <2>3. CASE UpgradeLookup(h)
    <3>1. task' = [task EXCEPT ![h] =
                      [@ EXCEPT !.pc = "acquire", !.kind = "upgrade", !.man = task[h].man]]
      BY <2>3 DEF UpgradeLookup, IInv, TypeOK, Tasks
    <3> QED BY <3>1
  <2>4. CASE Rescan(h)
    BY <2>4 DEF Rescan
  <2> QED BY <2>1, <2>2, <2>3, <2>4
<1>2. /\ UNCHANGED <<dir, litter, phase>> /\ (saved' => saved) /\ phase = "up"
      /\ task[h].pc = "idle"
  <2>1. UNCHANGED <<dir, litter, phase>> /\ Begins(h)
    BY DEF Unregister, SetStatus, UpgradeLookup, Rescan
  <2>2. CASE Unregister(h)
    BY <2>1, <2>2 DEF Unregister, Begins, At
  <2>3. CASE SetStatus(h)
    <3>1. saved' = saved
      BY <2>3 DEF SetStatus
    <3> QED BY <2>1, <3>1 DEF Begins, At
  <2>4. CASE UpgradeLookup(h)
    <3>1. saved' = saved
      BY <2>4 DEF UpgradeLookup, ghosts
    <3> QED BY <2>1, <3>1 DEF Begins, At
  <2>5. CASE Rescan(h)
    <3>1. saved' = saved
      BY <2>5 DEF Rescan, ghosts
    <3> QED BY <2>1, <3>1 DEF Begins, At
  <2> QED BY <2>2, <2>3, <2>4, <2>5
<1>3. /\ task'[h].pc = label /\ task'[h].kind = kind
      /\ task'[h].stage = task[h].stage /\ task'[h].backup = task[h].backup
  BY <1>1 DEF IInv, TypeOK, Tasks
<1> QED BY <1>1, <1>2, <1>3, DataGoes DEF DataInv, Plain

\* Installs begin with something to install.
LEMMA InstallsData ==
    ASSUME IInv, NEW h \in Handlers, DataInv(h),
           InstallIngest(h) \/ InstallIngestFails(h) \/ SynthesizeInstall(h)
    PROVE  DataInv(h)'
<1>1. /\ UNCHANGED <<dir, phase, saved>> /\ litter \subseteq litter' /\ phase = "up"
      /\ task[h].pc = "idle"
  BY DEF InstallIngest, InstallIngestFails, SynthesizeInstall, Begins, At, ghosts
<1>2. \A v \in Versions : v # 0
  BY LifecycleAssumption
<1>3. saved' => OnDisk'
  BY <1>1 DEF DataInv, OnDisk, Kept
<1>4. task[h] = Idle /\ Idle.kind = "none"
  BY <1>1, IdleTyped DEF IInv, Slots, LabelsMatch, LabelFits
<1>5. CASE InstallIngest(h)
  <2>1. PICK v \in Versions :
          task' = [task EXCEPT ![h] = [@ EXCEPT !.pc = "place", !.kind = "install",
                                                !.stage = [ver |-> v, data |-> FALSE]]]
    BY <1>5 DEF InstallIngest
  <2>2. /\ task'[h].pc = "place" /\ task'[h].kind = "install"
        /\ task'[h].stage.ver = v /\ task'[h].stage.data = FALSE
        /\ task'[h].backup = task[h].backup
    BY <2>1 DEF IInv, TypeOK, Tasks
  <2> QED BY <1>1, <1>2, <1>3, <2>2 DEF DataInv, Whole
<1>6. CASE InstallIngestFails(h)
  BY <1>1, <1>4, <1>6, DataStutters DEF InstallIngestFails
<1>7. CASE SynthesizeInstall(h)
  <2>1. PICK v \in Versions :
          /\ reg' = Entry(v, IF Exists(dir["addons"]) THEN "addons" ELSE "modules", TRUE)
          /\ task' = [task EXCEPT ![h] = [@ EXCEPT !.pc = "generate", !.kind = "install",
                                                   !.man = reg']]
    BY <1>7 DEF SynthesizeInstall
  <2>2. /\ task'[h].pc = "generate" /\ task'[h].kind = "install"
        /\ task'[h].man.ver = v /\ task'[h].stage = task[h].stage
        /\ task'[h].backup = task[h].backup
    BY <2>1 DEF IInv, TypeOK, Tasks, Entry
  <2> QED BY <1>1, <1>2, <1>3, <2>2 DEF DataInv, Whole
<1> QED BY <1>5, <1>6, <1>7

-----------------------------------------------------------------------------
(* Steps on the disk. *)

LEMMA InstallPlaceData ==
    ASSUME IInv, NEW h \in Handlers, DataInv(h), InstallPlace(h) PROVE DataInv(h)'
<1>1. /\ task[h].pc = "place" /\ dir["modules"].ver = 0 /\ UNCHANGED <<litter, saved>>
      /\ dir' = [dir EXCEPT !["modules"] = task[h].stage]
      /\ task' = [task EXCEPT ![h] = [@ EXCEPT !.pc = "register", !.stage = NoDir,
                                      !.man = Entry(task[h].stage.ver, "modules", TRUE)]]
  BY DEF InstallPlace, At, Exists, ghosts
<1>2. /\ task'[h].pc = "register" /\ task'[h].kind = task[h].kind
      /\ task'[h].stage = NoDir /\ task'[h].backup = task[h].backup
  BY <1>1 DEF IInv, TypeOK, Tasks
<1>3. dir'["modules"] = task[h].stage /\ dir'["addons"] = dir["addons"]
  BY <1>1 DEF IInv, TypeOK, Places
<1>4. task[h].kind = "install"
  BY <1>1 DEF IInv, Slots, LabelsMatch, LabelFits, Suits
<1>5. saved => Kept'
  BY <1>1, <1>3 DEF DataInv, OnDisk, Kept, Whole
<1> QED BY <1>1, <1>2, <1>3, <1>4, <1>5 DEF DataInv, Whole, NoDir, OnDisk

\* Nothing is left of the module, and nothing is promised.
LEMMA InstallUnregisteredData ==
    ASSUME IInv, NEW h \in Handlers, DataInv(h), InstallUnregistered(h) PROVE DataInv(h)'
<1>1. /\ dir' = [p \in Places |-> NoDir] /\ saved' = FALSE
      /\ task' = [task EXCEPT ![h] = Idle]
  BY DEF InstallUnregistered
<1>2. /\ task'[h].pc = "idle" /\ task'[h].kind = "none"
      /\ task'[h].stage = NoDir /\ task'[h].backup = NoDir
  BY <1>1 DEF IInv, TypeOK, Idle
<1>3. dir'["modules"] = NoDir /\ dir'["addons"] = NoDir
  BY <1>1 DEF Places
<1> QED BY <1>1, <1>2, <1>3 DEF DataInv, Whole, NoDir

LEMMA GenerateData ==
    ASSUME IInv, NEW h \in Handlers, DataInv(h), Generate(h) PROVE DataInv(h)'
<1>1. /\ task[h].pc = "generate" /\ UNCHANGED <<litter, saved>>
      /\ dir' = [dir EXCEPT !["modules"] = [@ EXCEPT !.ver = task[h].man.ver]]
      /\ Goto(h, "saverow")
  BY DEF Generate, At, ghosts
<1>2. TypeOK /\ task[h].kind = "install"
  BY <1>1 DEF IInv, Slots, LabelsMatch, LabelFits, Suits
<1>3. /\ task'[h].pc = "saverow" /\ task'[h].kind = task[h].kind
      /\ task'[h].stage = task[h].stage /\ task'[h].backup = task[h].backup
  BY <1>1, <1>2, GoesTo DEF Labels
<1>4. /\ dir'["modules"].data = dir["modules"].data /\ dir'["modules"].ver = task[h].man.ver
      /\ dir'["addons"] = dir["addons"]
  BY <1>1, <1>2 DEF TypeOK, Places, Directories
<1>5. saved => OnDisk'
  BY <1>1, <1>4 DEF DataInv, OnDisk, Kept
<1> QED BY <1>1, <1>2, <1>3, <1>4, <1>5 DEF DataInv, Whole

LEMMA PurgeData ==
    ASSUME IInv, NEW h \in Handlers, DataInv(h), Purge(h) PROVE DataInv(h)'
<1>1. PICK label \in {"purgeAddon", "unrow"}, p \in Places :
        Goto(h, label) /\ dir' = [dir EXCEPT ![p] = NoDir]
  BY DEF Purge, Places
<1>2. /\ task[h].pc \in {"purge", "purgeAddon"} /\ phase = "up"
      /\ UNCHANGED <<litter, saved, reg, phase>>
  BY DEF Purge, At, ghosts, registry
<1>3. TypeOK /\ task[h].kind = "remove"
  BY <1>2 DEF IInv, Slots, LabelsMatch, LabelFits, Suits
<1>4. /\ task'[h].pc = label /\ task'[h].kind = task[h].kind
      /\ task'[h].stage = task[h].stage /\ task'[h].backup = task[h].backup
  BY <1>1, <1>3, GoesTo DEF Labels
<1>5. Whole(dir'["modules"]) /\ Whole(dir'["addons"])
  BY <1>1, <1>3 DEF DataInv, Whole, NoDir, TypeOK, Places
<1> QED BY <1>2, <1>3, <1>4, <1>5 DEF DataInv, Whole

LEMMA UpgradeFindData ==
    ASSUME IInv, NEW h \in Handlers, DataInv(h), UpgradeFind(h) PROVE DataInv(h)'
<1>1. PICK p \in Places :
        /\ p = "modules" \/ dir["modules"].ver = 0
        /\ task' = [task EXCEPT ![h] = [@ EXCEPT !.pc = "fetch", !.prev = p]]
  BY DEF UpgradeFind, Exists
<1>2. task[h].pc = "find" /\ UNCHANGED <<dir, litter, saved, reg, phase>>
  BY DEF UpgradeFind, At, ghosts, registry
<1>3. /\ task'[h].pc = "fetch" /\ task'[h].kind = task[h].kind /\ task'[h].prev = p
      /\ task'[h].stage = task[h].stage /\ task'[h].backup = task[h].backup
  BY <1>1 DEF IInv, TypeOK, Tasks
<1>4. saved => OnDisk'
  BY <1>2 DEF DataInv, OnDisk, Kept
<1> QED BY <1>1, <1>2, <1>3, <1>4 DEF DataInv, Whole

LEMMA UpgradeIngestData ==
    ASSUME IInv, NEW h \in Handlers, DataInv(h), UpgradeIngest(h) PROVE DataInv(h)'
<1>1. PICK v \in Versions :
        task' = [task EXCEPT ![h] = [@ EXCEPT !.pc = "preserve",
                                              !.stage = [ver |-> v, data |-> FALSE]]]
  BY DEF UpgradeIngest
<1>2. task[h].pc = "fetch" /\ UNCHANGED <<dir, litter, saved, reg, phase>>
  BY DEF UpgradeIngest, At, ghosts, registry
<1>3. /\ task'[h].pc = "preserve" /\ task'[h].kind = task[h].kind
      /\ task'[h].prev = task[h].prev /\ task'[h].backup = task[h].backup
      /\ task'[h].stage.ver = v /\ task'[h].stage.data = FALSE /\ v # 0
  BY <1>1, LifecycleAssumption DEF IInv, TypeOK, Tasks
<1>4. saved => OnDisk'
  BY <1>2 DEF DataInv, OnDisk, Kept
<1> QED BY <1>2, <1>3, <1>4 DEF DataInv, Whole

\* What the directory found has is copied, and it is the one that has it.
LEMMA UpgradePreserveData ==
    ASSUME IInv, NEW h \in Handlers, DataInv(h), UpgradePreserve(h) PROVE DataInv(h)'
<1> DEFINE s == [ver |-> task[h].stage.ver, data |-> dir[task[h].prev].data]
<1>1. /\ task[h].pc = "preserve" /\ UNCHANGED <<dir, litter, saved, reg, phase>>
      /\ task' = [task EXCEPT ![h] = [@ EXCEPT !.pc = "swapOut", !.stage = s]]
  BY DEF UpgradePreserve, At, ghosts, registry
<1>2. /\ task[h].kind = "upgrade" /\ task[h].prev \in {"modules", "addons"}
  BY <1>1 DEF IInv, Slots, LabelsMatch, LabelFits, Suits, Swapping, TypeOK, Tasks, Places
<1>3. s.ver = task[h].stage.ver /\ s.data = dir[task[h].prev].data
  OBVIOUS
<1> HIDE DEF s
<1>4. /\ task'[h].pc = "swapOut" /\ task'[h].kind = task[h].kind
      /\ task'[h].stage = s /\ task'[h].backup = task[h].backup
  BY <1>1 DEF IInv, TypeOK, Tasks
<1>5. saved => OnDisk' /\ (s.data \/ Kept')
  BY <1>1, <1>2, <1>3 DEF DataInv, OnDisk, Kept, Whole
<1> QED BY <1>1, <1>2, <1>3, <1>4, <1>5 DEF DataInv, Whole

LEMMA SwapOutData ==
    ASSUME IInv, NEW h \in Handlers, DataInv(h), SwapOut(h) PROVE DataInv(h)'
<1>1. /\ task[h].pc = "swapOut" /\ UNCHANGED <<litter, saved>>
      /\ task' = [task EXCEPT ![h] = [@ EXCEPT !.pc = "swapIn", !.backup = dir["modules"]]]
      /\ dir' = [dir EXCEPT !["modules"] = NoDir]
  BY DEF SwapOut, At, ghosts
<1>2. task[h].kind = "upgrade"
  BY <1>1 DEF IInv, Slots, LabelsMatch, LabelFits, Suits, Swapping
<1>3. /\ task'[h].pc = "swapIn" /\ task'[h].kind = task[h].kind
      /\ task'[h].stage = task[h].stage /\ task'[h].backup = dir["modules"]
  BY <1>1 DEF IInv, TypeOK, Tasks
<1>4. dir'["modules"] = NoDir /\ dir'["addons"] = dir["addons"]
  BY <1>1 DEF IInv, TypeOK, Places
<1>5. saved => (task[h].stage.data \/ Kept') /\ (dir["modules"].data \/ Kept')
  BY <1>1, <1>4 DEF DataInv, OnDisk, Kept
<1> QED BY <1>1, <1>2, <1>3, <1>4, <1>5 DEF DataInv, Whole, NoDir

LEMMA SwapInData ==
    ASSUME IInv, NEW h \in Handlers, DataInv(h), SwapIn(h) PROVE DataInv(h)'
<1>1. /\ task[h].pc = "swapIn" /\ UNCHANGED <<litter, saved>>
      /\ dir' = [dir EXCEPT !["modules"] = task[h].stage]
      /\ task' = [task EXCEPT ![h] = [@ EXCEPT !.pc = "dropBackup", !.stage = NoDir,
                                      !.man = Entry(task[h].stage.ver, "modules", TRUE)]]
  BY DEF SwapIn, At, ghosts
<1>2. task[h].kind = "upgrade"
  BY <1>1 DEF IInv, Slots, LabelsMatch, LabelFits, Suits, Swapping
<1>3. /\ task'[h].pc = "dropBackup" /\ task'[h].kind = task[h].kind
      /\ task'[h].stage = NoDir /\ task'[h].backup = task[h].backup
  BY <1>1 DEF IInv, TypeOK, Tasks
<1>4. dir'["modules"] = task[h].stage /\ dir'["addons"] = dir["addons"]
  BY <1>1 DEF IInv, TypeOK, Places
<1>5. saved => OnDisk'
  BY <1>1, <1>4 DEF DataInv, OnDisk, Kept
<1> QED BY <1>1, <1>2, <1>3, <1>4, <1>5 DEF DataInv, Whole, NoDir

LEMMA SwapInFailsData ==
    ASSUME IInv, NEW h \in Handlers, DataInv(h), SwapInFails(h) PROVE DataInv(h)'
<1> DEFINE b == task[h].backup
<1>1. /\ task[h].pc = "swapIn" /\ saved' = saved /\ task' = [task EXCEPT ![h] = Idle]
      /\ \/ /\ dir["modules"].ver = 0
            /\ dir' = [dir EXCEPT !["modules"] = b]
            /\ UNCHANGED litter
         \/ /\ b.ver # 0
            /\ litter' = litter \cup {BackedUp(b)}
            /\ UNCHANGED dir
         \/ /\ b.ver = 0
            /\ UNCHANGED <<dir, litter>>
  BY DEF SwapInFails, At, Refuse, ghosts, Exists
<1>2. /\ task'[h].pc = "idle" /\ task'[h].kind = "none"
      /\ task'[h].stage = NoDir /\ task'[h].backup = NoDir
  BY <1>1 DEF IInv, TypeOK, Idle
<1>3. Whole(b) /\ (saved => b.data \/ Kept)
  BY <1>1 DEF DataInv
<1>4. /\ Whole(dir'["modules"]) /\ Whole(dir'["addons"])
      /\ saved => OnDisk'
  <2>1. CASE dir' = [dir EXCEPT !["modules"] = b] /\ UNCHANGED litter
    <3>1. dir'["modules"] = b /\ dir'["addons"] = dir["addons"]
      BY <2>1 DEF IInv, TypeOK, Places
    <3> QED BY <1>3, <2>1, <3>1 DEF DataInv, OnDisk, Kept
  <2>2. CASE litter' = litter \cup {BackedUp(b)} /\ UNCHANGED dir
    <3>1. BackedUp(b).data = b.data
      BY DEF BackedUp
    <3>2. saved => Kept'
      BY <1>3, <2>2, <3>1 DEF Kept
    <3> QED BY <2>2, <3>2 DEF DataInv, OnDisk
  <2>3. CASE b.ver = 0 /\ UNCHANGED <<dir, litter>>
    <3>1. saved => Kept'
      BY <1>3, <2>3 DEF Kept, Whole
    <3> QED BY <2>3, <3>1 DEF DataInv, OnDisk
  <2> QED BY <1>1, <2>1, <2>2, <2>3
<1> QED BY <1>1, <1>2, <1>4 DEF DataInv, Whole, NoDir

LEMMA DropBackupData ==
    ASSUME IInv, NEW h \in Handlers, DataInv(h), DropBackup(h) PROVE DataInv(h)'
<1>1. /\ task[h].pc = "dropBackup" /\ UNCHANGED <<dir, saved>> /\ litter \subseteq litter'
      /\ task' = [task EXCEPT ![h] = [@ EXCEPT !.pc = "enroll", !.backup = NoDir]]
  BY DEF DropBackup, At, ghosts
<1>2. task[h].kind = "upgrade"
  BY <1>1 DEF IInv, Slots, LabelsMatch, LabelFits, Suits, Swapping
<1>3. /\ task'[h].pc = "enroll" /\ task'[h].kind = task[h].kind
      /\ task'[h].stage = task[h].stage /\ task'[h].backup = NoDir
  BY <1>1 DEF IInv, TypeOK, Tasks
<1>4. Whole(NoDir) /\ Whole(task[h].stage)
  BY DEF Whole, NoDir, DataInv
<1> QED BY <1>1, <1>2, <1>3, <1>4, DataGoes DEF Plain

LEMMA ModuleWritesData ==
    ASSUME IInv, NEW h \in Handlers, DataInv(h), ModuleWrites PROVE DataInv(h)'
<1>1. /\ reg.on /\ reg.at \in Places /\ dir[reg.at].ver # 0
      /\ dir' = [dir EXCEPT ![reg.at] = [@ EXCEPT !.data = TRUE]]
      /\ UNCHANGED <<litter, task>>
      /\ saved' = (saved \/ \A o \in Handlers : task[o].kind # "upgrade")
  BY DEF ModuleWrites, Exists
<1>2. task[h].kind # "remove"
  BY <1>1 DEF DataInv, Absent
<1>3. /\ \A p \in Places : dir'[p].ver = dir[p].ver /\ (dir[p].data => dir'[p].data)
      /\ dir'[reg.at].data /\ "modules" \in Places /\ "addons" \in Places
      /\ \A p \in Places : p # reg.at => dir'[p] = dir[p]
  BY <1>1 DEF IInv, TypeOK, Places, Directories
<1>4. Whole(dir'["modules"]) /\ Whole(dir'["addons"])
  BY <1>1, <1>3 DEF DataInv, Whole
<1>5. Kept => Kept'
  BY <1>1, <1>3 DEF Kept
<1>6. OnDisk'
  BY <1>1, <1>3 DEF OnDisk, Kept, Places
<1>7. task[h].pc \in {"swapOut", "swapIn"} => saved' = saved
  <2>1. task[h].pc \in {"swapOut", "swapIn"} => task[h].kind = "upgrade"
    BY DEF IInv, Slots, LabelsMatch, LabelFits, Suits, Swapping
  <2> QED BY <1>1, <2>1 DEF IInv, TypeOK
<1> QED BY <1>1, <1>2, <1>3, <1>4, <1>5, <1>6, <1>7 DEF DataInv, Whole

-----------------------------------------------------------------------------
(* Crashes, and every step. *)

LEMMA CrashData ==
    ASSUME IInv, NEW h \in Handlers, DataInv(h), Crash PROVE DataInv(h)'
<1>1. /\ UNCHANGED <<dir, saved>> /\ litter \subseteq litter'
      /\ task' = [o \in Handlers |-> Idle]
      /\ task[h].backup.ver # 0 => BackedUp(task[h].backup) \in litter'
  BY DEF Crash, ghosts, Exists
<1>2. /\ task'[h].pc = "idle" /\ task'[h].kind = "none"
      /\ task'[h].stage = NoDir /\ task'[h].backup = NoDir
  BY <1>1 DEF Idle
<1>3. saved => OnDisk'
  <2>1. CASE task[h].pc = "swapIn"
    <3>1. BackedUp(task[h].backup).data = task[h].backup.data
      BY DEF BackedUp
    <3> QED BY <1>1, <2>1, <3>1 DEF DataInv, OnDisk, Kept, Whole
  <2>2. CASE task[h].pc # "swapIn"
    BY <1>1, <2>2 DEF DataInv, OnDisk, Kept
  <2> QED BY <2>1, <2>2
<1> QED BY <1>1, <1>2, <1>3 DEF DataInv, Whole, NoDir

LEMMA OthersData ==
    ASSUME IInv, NEW h \in Handlers, DataInv(h),
           LockExpires \/ PruneLock \/ Migrate \/ Restart \/ UNCHANGED vars
    PROVE  DataInv(h)'
<1>1. /\ UNCHANGED <<dir, saved, litter>>
      /\ task[h].kind = "remove" => reg' = reg /\ phase' = phase
  BY DEF LockExpires, PruneLock, Migrate, Restart, vars, registry, ghosts, DataInv
<1>2. /\ task'[h].pc = task[h].pc /\ task'[h].kind = task[h].kind /\ task'[h].prev = task[h].prev
      /\ task'[h].man = task[h].man /\ task'[h].stage = task[h].stage
      /\ task'[h].backup = task[h].backup
  BY DEF LockExpires, PruneLock, Migrate, Restart, vars, IInv, TypeOK, Tasks
<1> QED BY <1>1, <1>2, DataStutters

LEMMA NextData ==
    ASSUME NEW h, Handlers = {h}, IInv, DataInv(h), [Next]_vars
    PROVE  DataInv(h)'
<1>1. h \in Handlers
  OBVIOUS
<1>2. CASE HandlerStep(h)
  <2>1. \/ /\ \/ InstallRejected(h) \/ UpgradeConflict(h)
              \/ UpgradeNotFound(h) \/ UpgradeIngestFails(h) \/ UpgradeRejected(h)
              \/ SwapOutFails(h) \/ UpgradeOrphaned(h) \/ WriteFile(h) \/ WriteFails(h)
        \/ /\ \/ InstallRegister(h) \/ RemoveRow(h) \/ SetRow(h) \/ SaveRow(h)
              \/ UpgradeAcquire(h) \/ UpgradeEnroll(h)
        \/ Snapshot(h)
        \/ /\ Unregister(h) \/ SetStatus(h) \/ UpgradeLookup(h) \/ Rescan(h)
        \/ /\ InstallIngest(h) \/ InstallIngestFails(h) \/ SynthesizeInstall(h)
        \/ InstallPlace(h) \/ InstallUnregistered(h) \/ Generate(h) \/ Purge(h)
        \/ UpgradeFind(h) \/ UpgradeIngest(h) \/ UpgradePreserve(h)
        \/ SwapOut(h) \/ SwapIn(h) \/ SwapInFails(h) \/ DropBackup(h)
    BY <1>2, Zenon DEF HandlerStep, InstallSteps, UpgradeSteps
  <2> QED BY <1>1, <2>1, RefusalsData, GotosData, SnapshotData, BeginsData, InstallsData,
             InstallPlaceData, InstallUnregisteredData, GenerateData, PurgeData, UpgradeFindData, UpgradeIngestData,
             UpgradePreserveData, SwapOutData, SwapInData, SwapInFailsData, DropBackupData
<1>3. CASE LockExpires \/ PruneLock \/ Migrate \/ Restart \/ UNCHANGED vars
  BY <1>1, <1>3, OthersData
<1>4. CASE ModuleWrites \/ Crash
  BY <1>1, <1>4, ModuleWritesData, CrashData
<1> QED BY <1>2, <1>3, <1>4 DEF Next

LEMMA DataStarts == ASSUME Init, NEW h \in Handlers PROVE DataInv(h)
<1>1. /\ task[h].pc = "idle" /\ task[h].kind = "none"
      /\ task[h].stage = NoDir /\ task[h].backup = NoDir
  BY DEF Init, Idle
<1>2. Whole(dir["modules"]) /\ Whole(dir["addons"])
  BY DEF Init, Whole, NoDir, Places
<1> QED BY <1>1, <1>2 DEF Init, DataInv, Whole, NoDir

\* With one handler, whatever the module has written is on disk after every
\* step of an upgrade, also one that fails or is cut short by a crash, until
\* the module is removed or an install under its id is refused by the registry.
THEOREM DataIsSafe ==
    ASSUME NEW h, Handlers = {h} PROVE Spec => []UserDataSafe
<1>1. DataInv(h) => UserDataSafe
  BY DEF DataInv, UserDataSafe, OnDisk, Kept, Places
<1>2. Init => DataInv(h)
  BY DataStarts
<1>3. IInv /\ DataInv(h) /\ [Next]_vars => DataInv(h)'
  BY NextData
<1> QED BY <1>1, <1>2, <1>3, Invariance, PTL DEF Spec
=============================================================================
