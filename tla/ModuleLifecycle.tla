-------------------------- MODULE ModuleLifecycle --------------------------
(***************************************************************************)
(* The life of one personal module: installed, enabled, disabled, upgraded *)
(* and removed by dashboard requests, discovered by scans, across crashes  *)
(* of the gateway.  Its state is kept four times: in the ModuleRegistry    *)
(* (memory), in the SQLite tables modules and uninstalled_modules, in      *)
(* gateway_config.json, and as a directory of files.  Each request updates *)
(* them one after the other with no lock held across the updates.          *)
(*                                                                         *)
(* A step of a request is what it does under one lock, or one call that    *)
(* changes the file system.  The other modules of the registry appear only *)
(* as NamespaceCollides: another module owns the namespace an install      *)
(* claims.                                                                 *)
(***************************************************************************)
EXTENDS Integers, FiniteSets

CONSTANTS
    Handlers,           \* worker threads that serve module requests
    NoHandler,          \* the owner of a free upgrade slot
    Versions,           \* versions a source can hold
    Unregistrable,      \* those install_module takes and the registry refuses:
                        \* an unsupported protocol, or an entrypoint that is
                        \* neither an absolute path nor on the loopback
    NamespaceCollides,  \* another registered module may own the namespace
    DbMayFail,          \* a statement on the modules table may fail
    MaxOps,             \* requests served in a behaviour
    MaxCrashes          \* crashes in a behaviour

ASSUME LifecycleAssumption ==
    /\ NoHandler \notin Handlers
    /\ Versions \subseteq Nat \ {0}
    /\ Unregistrable \subseteq Versions
    /\ NamespaceCollides \in BOOLEAN
    /\ DbMayFail \in BOOLEAN
    /\ MaxOps \in Nat
    /\ MaxCrashes \in Nat

\* $GW_STATE_DIR/modules/<id>, and <id> under the working directory's addons
\* or modules directory, which the code treats alike.
Places == {"modules", "addons"}

\* A manifest and its enablement.  "at" is the directory its entrypoint is in;
\* "temp" is a staging directory.  ver = 0: there is none.
Entries == [ver : {0} \cup Versions, at : {"none", "temp"} \cup Places,
            on : BOOLEAN]
Absent == [ver |-> 0, at |-> "none", on |-> FALSE]
Entry(v, place, on) == [ver |-> v, at |-> place, on |-> on]

\* A directory: the version of its code and whether it holds the .env,
\* databases and data the module has written.
Directories == [ver : {0} \cup Versions, data : BOOLEAN]
NoDir == [ver |-> 0, data |-> FALSE]
Exists(d) == d.ver # 0

\* A temporary directory nobody will delete.  The entrypoint of an unpacked
\* manifest is resolved where it lies; that of a backup was made absolute.
Unpacked(d) == [ver |-> d.ver, data |-> d.data, at |-> "temp"]
BackedUp(d) == [ver |-> d.ver, data |-> d.data, at |-> "modules"]

Leftovers == [ver : Versions, data : BOOLEAN, at : {"temp", "modules"}]

VARIABLES
    phase,       \* "down", "migrated" (storage open), "up"
    reg,         \* ModuleRegistry: the module's descriptor and manifest
    uninstalled, \* ModuleRegistry.uninstalled holds the id
    lock,        \* UPGRADING_MODULES: who holds the id, past its TTL or not
    row,         \* table modules
    tombstone,   \* table uninstalled_modules
    file,        \* gateway_config.json: personal_modules and enabled_modules
    dir,         \* the directories of the module
    litter,      \* staging and backup directories nobody will delete, and
                 \* where the entrypoint of their manifest is
    task,        \* what each handler is doing
    expect,      \* ghost: what the last acknowledged request established
    removed,     \* ghost: a removal was acknowledged and not superseded
    saved,       \* ghost: the module has written data; no removal and no
                 \* refused install since
    ops, crashes \* bounds

registry == <<reg, uninstalled>>
database == <<row, tombstone>>
ghosts == <<expect, removed, saved>>
bounds == <<ops, crashes>>
vars == <<phase, reg, uninstalled, lock, row, tombstone, file, dir, litter,
          task, expect, removed, saved, ops, crashes>>

\* expect when requests that were not acknowledged may have taken effect.
Unknown == [ver |-> 0, at |-> "none", on |-> TRUE]

Kinds == {"none", "install", "remove", "set", "upgrade", "rescan"}

\* Where a request is: the label names what it does next.
Labels == {"idle", "place", "register", "generate", "purge", "purgeAddon",
           "unrow", "setrow", "acquire", "find", "fetch", "preserve",
           "swapOut", "swapIn", "dropBackup", "enroll", "saverow",
           "snapshot", "write"}

\* man: the manifest to store.  snap: what save_to_persistent_file read.
\* prev: the directory an upgrade found.  overrun: its lock outlived the TTL.
Tasks == [pc : Labels, kind : Kinds, man : Entries, snap : Entries,
          prev : {"none"} \cup Places, stage : Directories,
          backup : Directories, overrun : BOOLEAN]

Idle == [pc |-> "idle", kind |-> "none", man |-> Absent, snap |-> Absent,
         prev |-> "none", stage |-> NoDir, backup |-> NoDir, overrun |-> FALSE]

TypeOK ==
    /\ phase \in {"down", "migrated", "up"}
    /\ reg \in Entries
    /\ uninstalled \in BOOLEAN
    /\ lock \in [owner : Handlers \cup {NoHandler}, stale : BOOLEAN]
    /\ row \in Entries
    /\ tombstone \in BOOLEAN
    /\ file \in Entries
    /\ dir \in [Places -> Directories]
    /\ litter \subseteq Leftovers
    /\ task \in [Handlers -> Tasks]
    /\ expect \in Entries \cup {Unknown}
    /\ removed \in BOOLEAN
    /\ saved \in BOOLEAN
    /\ ops \in 0..MaxOps
    /\ crashes \in 0..MaxCrashes

\* The gateway has started with no personal module; the operator may have
\* copied the module into addons/ since.
Init ==
    /\ phase = "up"
    /\ reg = Absent /\ uninstalled = FALSE
    /\ lock = [owner |-> NoHandler, stale |-> FALSE]
    /\ row = Absent /\ tombstone = FALSE
    /\ file = Absent
    /\ \E v \in {0} \cup Versions :
           dir = [p \in Places |-> IF p = "addons" /\ v # 0
                                   THEN [ver |-> v, data |-> FALSE] ELSE NoDir]
    /\ litter = {}
    /\ task = [h \in Handlers |-> Idle]
    /\ expect = Unknown /\ removed = FALSE /\ saved = FALSE
    /\ ops = 0 /\ crashes = 0

-----------------------------------------------------------------------------
(* Requests begin, go on and end. *)

At(h, label) == phase = "up" /\ task[h].pc = label

Begins(h) ==
    /\ At(h, "idle")
    /\ ops < MaxOps
    /\ ops' = ops + 1
    /\ UNCHANGED crashes

Goto(h, label) == task' = [task EXCEPT ![h] = [@ EXCEPT !.pc = label]]

\* Mutant: the guard frees the slot whoever holds it.
GuardDropAny(h) ==
    lock' = IF task[h].kind = "upgrade"
            THEN [owner |-> NoHandler, stale |-> FALSE] ELSE lock

\* Mutant: only the success path of an upgrade lets go of the slot.
GuardDropAtEnd(h) ==
    lock' = IF lock.owner = h /\ task[h].pc = "write"
            THEN [owner |-> NoHandler, stale |-> FALSE] ELSE lock

\* UpgradeGuard::drop: frees the slot only if it still holds this guard.
GuardDrop(h) ==
    lock' = IF lock.owner = h THEN [owner |-> NoHandler, stale |-> FALSE]
            ELSE lock

\* The request ends without having changed the registry.
Refuse(h) ==
    /\ task' = [task EXCEPT ![h] = Idle]
    /\ GuardDrop(h)
    /\ UNCHANGED ghosts

OthersInFlight(h, kinds) ==
    \E o \in Handlers \ {h} : task[o].pc # "idle" /\ task[o].kind \in kinds

\* The request changes the registry: what was acknowledged before is over.
Supersede(kind) ==
    /\ expect' = Unknown
    /\ removed' = (removed /\ kind \notin {"install", "upgrade"})

\* The request is answered 200.
Acknowledge(h) ==
    /\ expect' = IF OthersInFlight(h, Kinds) THEN Unknown ELSE task[h].snap
    /\ removed' = IF task[h].kind # "remove" THEN removed
                  ELSE ~OthersInFlight(h, {"install", "upgrade"})
    /\ UNCHANGED saved

-----------------------------------------------------------------------------
(* Storing: the steps all requests end with. *)

\* Mutant: an upgrade enables the module.
StoredRowEnabled(h) == [task[h].man EXCEPT !.on = TRUE]

\* The statement of save_module_with_status, or of save_module, which leaves
\* the enablement of an existing row alone.
StoredRow(h) ==
    IF task[h].kind = "upgrade"
    THEN [task[h].man EXCEPT !.on = IF row # Absent THEN row.on ELSE TRUE]
    ELSE task[h].man

\* The two statements of save_module; a failure of either is ignored.
SaveRow(h) ==
    /\ At(h, "saverow")
    /\ \/ row' = StoredRow(h) /\ tombstone' = FALSE
       \/ DbMayFail /\ row' \in {row, StoredRow(h)} /\ UNCHANGED tombstone
    /\ Goto(h, "snapshot")
    /\ UNCHANGED <<phase, registry, lock, file, dir, litter, ghosts, bounds>>

\* save_to_persistent_file reads the registry under its read lock ...
Snapshot(h) ==
    /\ At(h, "snapshot")
    /\ task' = [task EXCEPT ![h] = [@ EXCEPT !.pc = "write", !.snap = reg]]
    /\ UNCHANGED <<phase, registry, lock, database, file, dir, litter, ghosts,
                   bounds>>

\* ... and writes the file once the lock is released.
WriteFile(h) ==
    /\ At(h, "write")
    /\ file' = task[h].snap
    /\ IF task[h].kind = "rescan" THEN UNCHANGED ghosts ELSE Acknowledge(h)
    /\ task' = [task EXCEPT ![h] = Idle]
    /\ GuardDrop(h)
    /\ UNCHANGED <<phase, registry, database, dir, litter, bounds>>

\* The file cannot be written: 500, or nothing from a scan.
WriteFails(h) ==
    /\ At(h, "write")
    /\ Refuse(h)
    /\ UNCHANGED <<phase, registry, database, file, dir, litter, bounds>>

-----------------------------------------------------------------------------
(* Install. *)

\* install_module: the source is unpacked into a staging directory.
InstallIngest(h) ==
    /\ Begins(h)
    /\ \E v \in Versions :
           task' = [task EXCEPT ![h] =
                       [@ EXCEPT !.pc = "place", !.kind = "install",
                                 !.stage = [ver |-> v, data |-> FALSE]]]
    /\ UNCHANGED <<phase, registry, lock, database, file, dir, litter, ghosts>>

\* Unpacking fails half way: the staging directory stays.
InstallIngestFails(h) ==
    /\ Begins(h)
    /\ \E v \in Versions :
           litter' = litter \cup {Unpacked([ver |-> v, data |-> FALSE])}
    /\ UNCHANGED <<phase, registry, lock, database, file, dir, task, ghosts>>

\* The manifest, the namespace, the build or the target is rejected.
InstallRejected(h) ==
    /\ At(h, "place")
    /\ Refuse(h)
    /\ UNCHANGED <<phase, registry, database, file, dir, litter, bounds>>

\* The staging directory is renamed to a target that must not exist.
InstallPlace(h) ==
    /\ At(h, "place")
    /\ ~Exists(dir["modules"])
    /\ dir' = [dir EXCEPT !["modules"] = task[h].stage]
    /\ task' = [task EXCEPT ![h] =
                   [@ EXCEPT !.pc = "register", !.stage = NoDir,
                             !.man = Entry(task[h].stage.ver, "modules", TRUE)]]
    /\ UNCHANGED <<phase, registry, lock, database, file, litter, ghosts, bounds>>

InstallRegister(h) ==
    /\ At(h, "register")
    /\ task[h].man.ver \notin Unregistrable
    /\ reg' = task[h].man
    /\ Supersede("install")
    /\ Goto(h, "saverow")
    /\ UNCHANGED <<phase, uninstalled, lock, database, file, dir, litter, saved,
                   bounds>>

\* register_personal_module refuses the namespace or the manifest, and
\* cleanup_module_files deletes every directory of the id: also those of a
\* module registered under it before, with what it has written.
InstallUnregistered(h) ==
    /\ At(h, "register")
    /\ NamespaceCollides \/ task[h].man.ver \in Unregistrable
    /\ dir' = [p \in Places |-> NoDir]
    /\ saved' = FALSE
    /\ task' = [task EXCEPT ![h] = Idle]
    /\ GuardDrop(h)
    /\ UNCHANGED <<phase, registry, database, file, litter, expect, removed,
                   bounds>>

\* Without a source the manifest comes from the request or the catalog and is
\* registered before its files are generated; refused, it leaves no trace.
SynthesizeInstall(h) ==
    /\ Begins(h)
    /\ \E v \in Versions \ Unregistrable :
          /\ reg' = Entry(v, IF Exists(dir["addons"]) THEN "addons"
                             ELSE "modules", TRUE)
          /\ task' = [task EXCEPT ![h] =
                         [@ EXCEPT !.pc = "generate", !.kind = "install",
                                   !.man = reg']]
    /\ Supersede("install")
    /\ UNCHANGED <<phase, uninstalled, lock, database, file, dir, litter, saved>>

\* generate_module_adapter_script and module.json.
Generate(h) ==
    /\ At(h, "generate")
    /\ dir' = [dir EXCEPT !["modules"] = [@ EXCEPT !.ver = task[h].man.ver]]
    /\ Goto(h, "saverow")
    /\ UNCHANGED <<phase, registry, lock, database, file, litter, ghosts, bounds>>

-----------------------------------------------------------------------------
(* Remove. *)

\* unregister_personal_module; an id that is not registered is refused.
Unregister(h) ==
    /\ Begins(h)
    /\ reg # Absent
    /\ reg' = Absent /\ uninstalled' = TRUE
    /\ Supersede("remove")
    /\ saved' = FALSE
    /\ task' = [task EXCEPT ![h] = [@ EXCEPT !.pc = "purge", !.kind = "remove"]]
    /\ UNCHANGED <<phase, lock, database, file, dir, litter>>

\* cleanup_module_files, one directory after the other.
Purge(h) ==
    /\ \/ /\ At(h, "purge")
          /\ dir' = [dir EXCEPT !["modules"] = NoDir]
          /\ Goto(h, "purgeAddon")
       \/ /\ At(h, "purgeAddon")
          /\ dir' = [dir EXCEPT !["addons"] = NoDir]
          /\ Goto(h, "unrow")
    /\ UNCHANGED <<phase, registry, lock, database, file, litter, ghosts, bounds>>

\* Mutant: remove_module only marks the module uninstalled.
RemoveRowKept(h) ==
    /\ At(h, "unrow")
    /\ tombstone' = TRUE
    /\ Goto(h, "snapshot")
    /\ UNCHANGED <<phase, registry, lock, row, file, dir, litter, ghosts, bounds>>

\* remove_module: the tombstone, then the row; a failure of the first is
\* ignored, one of the second is only logged.
RemoveRow(h) ==
    /\ At(h, "unrow")
    /\ \/ row' = Absent /\ tombstone' = TRUE
       \/ DbMayFail /\ row' \in {row, Absent} /\ tombstone' \in {tombstone, TRUE}
    /\ Goto(h, "snapshot")
    /\ UNCHANGED <<phase, registry, lock, file, dir, litter, ghosts, bounds>>

-----------------------------------------------------------------------------
(* Enable and disable. *)

SetStatus(h) ==
    /\ Begins(h)
    /\ reg # Absent
    /\ \E on \in BOOLEAN : reg' = [reg EXCEPT !.on = on]
    /\ task' = [task EXCEPT ![h] = [@ EXCEPT !.pc = "setrow", !.kind = "set",
                         !.man = reg']]
    /\ Supersede("set")
    /\ UNCHANGED <<phase, uninstalled, lock, database, file, dir, litter, saved>>

\* set_module_enabled; when it fails, for want of a row or otherwise, the row
\* is saved from the manifest read above.
SetRow(h) ==
    /\ At(h, "setrow")
    /\ \/ /\ row # Absent
          /\ row' = [row EXCEPT !.on = task[h].man.on]
          /\ UNCHANGED tombstone
       \/ /\ row = Absent \/ DbMayFail
          /\ row' = task[h].man
          /\ tombstone' = FALSE
       \/ DbMayFail /\ row' \in {row, task[h].man} /\ UNCHANGED tombstone
    /\ Goto(h, "snapshot")
    /\ UNCHANGED <<phase, registry, lock, file, dir, litter, ghosts, bounds>>

-----------------------------------------------------------------------------
(* Upgrade. *)

\* The module must be registered when the request looks.
UpgradeLookup(h) ==
    /\ Begins(h)
    /\ reg # Absent
    /\ task' = [task EXCEPT ![h] =
                   [@ EXCEPT !.pc = "acquire", !.kind = "upgrade"]]
    /\ UNCHANGED <<phase, registry, lock, database, file, dir, litter, ghosts>>

\* try_acquire_upgrade: a free slot, or one whose holder is past the TTL.
UpgradeAcquire(h) ==
    /\ At(h, "acquire")
    /\ lock.owner = NoHandler \/ lock.stale
    /\ lock' = [owner |-> h, stale |-> FALSE]
    /\ Goto(h, "find")
    /\ UNCHANGED <<phase, registry, database, file, dir, litter, ghosts, bounds>>

\* 409.
UpgradeConflict(h) ==
    /\ At(h, "acquire")
    /\ lock.owner # NoHandler /\ ~lock.stale
    /\ Refuse(h)
    /\ UNCHANGED <<phase, registry, database, file, dir, litter, bounds>>

\* The slot's TTL runs out.
LockExpires ==
    /\ phase = "up"
    /\ lock.owner # NoHandler /\ ~lock.stale
    /\ lock' = [lock EXCEPT !.stale = TRUE]
    /\ task' = [task EXCEPT ![lock.owner] = [@ EXCEPT !.overrun = TRUE]]
    /\ UNCHANGED <<phase, registry, database, file, dir, litter, ghosts, bounds>>

\* get_in_flight_upgrades drops the slots past their TTL.
PruneLock ==
    /\ phase = "up"
    /\ lock.stale
    /\ lock' = [owner |-> NoHandler, stale |-> FALSE]
    /\ UNCHANGED <<phase, registry, database, file, dir, litter, task, ghosts,
                   bounds>>

\* find_existing_module_dir.
UpgradeFind(h) ==
    /\ At(h, "find")
    /\ \E p \in Places :
          /\ Exists(dir[p])
          /\ p = "modules" \/ ~Exists(dir["modules"])
          /\ task' = [task EXCEPT ![h] = [@ EXCEPT !.pc = "fetch", !.prev = p]]
    /\ UNCHANGED <<phase, registry, lock, database, file, dir, litter, ghosts,
                   bounds>>

UpgradeNotFound(h) ==
    /\ At(h, "find")
    /\ \A p \in Places : ~Exists(dir[p])
    /\ Refuse(h)
    /\ UNCHANGED <<phase, registry, database, file, dir, litter, bounds>>

UpgradeIngest(h) ==
    /\ At(h, "fetch")
    /\ \E v \in Versions :
          task' = [task EXCEPT ![h] = [@ EXCEPT !.pc = "preserve",
                            !.stage = [ver |-> v, data |-> FALSE]]]
    /\ UNCHANGED <<phase, registry, lock, database, file, dir, litter, ghosts,
                   bounds>>

\* Unpacking fails half way: the staging directory stays.
UpgradeIngestFails(h) ==
    /\ At(h, "fetch")
    /\ \E v \in Versions :
           litter' = litter \cup {Unpacked([ver |-> v, data |-> FALSE])}
    /\ Refuse(h)
    /\ UNCHANGED <<phase, registry, database, file, dir, bounds>>

\* The staged module is rejected, by the check of protocol and entrypoint the
\* registry makes too, or what it should keep cannot be copied.
UpgradeRejected(h) ==
    /\ At(h, "preserve")
    /\ Refuse(h)
    /\ UNCHANGED <<phase, registry, database, file, dir, litter, bounds>>

\* Mutant: nothing is preserved.
UpgradePreserveNothing(h) ==
    /\ At(h, "preserve")
    /\ task[h].stage.ver \notin Unregistrable
    /\ Exists(dir[task[h].prev])
    /\ Goto(h, "swapOut")
    /\ UNCHANGED <<phase, registry, lock, database, file, dir, litter, ghosts,
                   bounds>>

\* preserve_module_configuration copies the data of the directory found.
UpgradePreserve(h) ==
    /\ At(h, "preserve")
    /\ task[h].stage.ver \notin Unregistrable
    /\ Exists(dir[task[h].prev])
    /\ task' = [task EXCEPT ![h] = [@ EXCEPT !.pc = "swapOut",
               !.stage = [ver |-> task[h].stage.ver,
                          data |-> dir[task[h].prev].data]]]
    /\ UNCHANGED <<phase, registry, lock, database, file, dir, litter, ghosts,
                   bounds>>

\* perform_atomic_directory_swap: the target becomes the backup ...
SwapOut(h) ==
    /\ At(h, "swapOut")
    /\ task' = [task EXCEPT ![h] =
                   [@ EXCEPT !.pc = "swapIn", !.backup = dir["modules"]]]
    /\ dir' = [dir EXCEPT !["modules"] = NoDir]
    /\ UNCHANGED <<phase, registry, lock, database, file, litter, ghosts, bounds>>

SwapOutFails(h) ==
    /\ At(h, "swapOut")
    /\ Exists(dir["modules"])
    /\ Refuse(h)
    /\ UNCHANGED <<phase, registry, database, file, dir, litter, bounds>>

\* ... the staging directory becomes the target ...
SwapIn(h) ==
    /\ At(h, "swapIn")
    /\ ~Exists(dir["modules"])
    /\ dir' = [dir EXCEPT !["modules"] = task[h].stage]
    /\ task' = [task EXCEPT ![h] =
                   [@ EXCEPT !.pc = "dropBackup", !.stage = NoDir,
                             !.man = Entry(task[h].stage.ver, "modules", TRUE)]]
    /\ UNCHANGED <<phase, registry, lock, database, file, litter, ghosts, bounds>>

\* ... or it cannot (always when something took the target's place) and the
\* backup is renamed back, which may fail too: then the backup stays.
SwapInFails(h) ==
    /\ At(h, "swapIn")
    /\ LET backup == task[h].backup IN
       \/ /\ ~Exists(dir["modules"])
          /\ dir' = [dir EXCEPT !["modules"] = backup]
          /\ UNCHANGED litter
       \/ /\ Exists(backup)
          /\ litter' = litter \cup {BackedUp(backup)}
          /\ UNCHANGED dir
       \/ /\ ~Exists(backup)
          /\ UNCHANGED <<dir, litter>>
    /\ Refuse(h)
    /\ UNCHANGED <<phase, registry, database, file, bounds>>

\* The backup is deleted, or stays when it cannot be.
DropBackup(h) ==
    /\ At(h, "dropBackup")
    /\ \/ UNCHANGED litter
       \/ /\ Exists(task[h].backup)
          /\ litter' = litter \cup {BackedUp(task[h].backup)}
    /\ task' = [task EXCEPT ![h] = [@ EXCEPT !.pc = "enroll", !.backup = NoDir]]
    /\ UNCHANGED <<phase, registry, lock, database, file, dir, ghosts, bounds>>

\* upgrade_personal_module keeps the enablement of the registered module and
\* forgets that the id was ever uninstalled.
UpgradeEnroll(h) ==
    /\ At(h, "enroll")
    /\ reg # Absent
    /\ reg' = [task[h].man EXCEPT !.on = reg.on]
    /\ uninstalled' = FALSE
    /\ Supersede("upgrade")
    /\ Goto(h, "saverow")
    /\ UNCHANGED <<phase, lock, database, file, dir, litter, saved, bounds>>

\* The module was removed meanwhile, or another one took the namespace: 400,
\* the new directory stays.
UpgradeOrphaned(h) ==
    /\ At(h, "enroll")
    /\ reg = Absent \/ NamespaceCollides
    /\ Refuse(h)
    /\ UNCHANGED <<phase, registry, database, file, dir, litter, bounds>>

-----------------------------------------------------------------------------
(* Scans. *)

\* What a scan reads first: everything in the state directory's modules.
ScannedFirst ==
    {Entry(d.ver, d.at, TRUE) : d \in litter}
    \cup {Entry(dir["modules"].ver, "modules", TRUE)}
    \cup {Entry(task[h].stage.ver, "temp", TRUE) : h \in Handlers}
    \cup {Entry(task[h].backup.ver, "modules", TRUE) : h \in Handlers}

\* A directory the registry refuses is passed over.
Scannable(entries) == {e \in entries : e.ver \notin {0} \cup Unregistrable}

\* Mutant of Discovered: the uninstalled modules are not skipped.
DiscoveredAgain(found) ==
    /\ reg = Absent
    /\ found \in IF Scannable(ScannedFirst) # {} THEN Scannable(ScannedFirst)
                 ELSE Scannable({Entry(dir["addons"].ver, "addons", TRUE)})

\* try_register_module_from_dir: not uninstalled, not registered; the
\* directories of a root come in any order, the first one wins.
Discovered(found) ==
    /\ ~uninstalled
    /\ reg = Absent
    /\ found \in IF Scannable(ScannedFirst) # {} THEN Scannable(ScannedFirst)
                 ELSE Scannable({Entry(dir["addons"].ver, "addons", TRUE)})

\* rescan_addons, on every overview and every unmatched route: the scan is
\* under the registry's write lock, storing what it found is not.
Rescan(h) ==
    /\ Begins(h)
    /\ \E found \in Entries :
          /\ Discovered(found)
          /\ reg' = found
          /\ task' = [task EXCEPT ![h] =
                         [@ EXCEPT !.pc = "saverow", !.kind = "rescan",
                                   !.man = found]]
    /\ UNCHANGED <<phase, uninstalled, lock, database, file, dir, litter, ghosts>>

\* The running module writes into its directory.  An upgrade copies what was
\* there when it looked; what is written while one is under way is not counted.
ModuleWrites ==
    /\ phase = "up"
    /\ reg.on
    /\ reg.at \in Places
    /\ Exists(dir[reg.at])
    /\ ~dir[reg.at].data
    /\ dir' = [dir EXCEPT ![reg.at] = [@ EXCEPT !.data = TRUE]]
    /\ saved' = (saved \/ \A h \in Handlers : task[h].kind # "upgrade")
    /\ UNCHANGED <<phase, registry, lock, database, file, litter, task, expect,
                   removed, bounds>>

-----------------------------------------------------------------------------
(* Crash and restart. *)

\* The statements of one call on the modules table are committed one by one: a
\* crash may fall between the two.
HalfStored(h) ==
    \/ task[h].pc = "saverow" /\ row' = StoredRow(h) /\ UNCHANGED tombstone
    \/ task[h].pc = "unrow" /\ tombstone' = TRUE /\ UNCHANGED row

\* The process dies; temporary directories stay where they are.
Crash ==
    /\ phase # "down"
    /\ crashes < MaxCrashes
    /\ crashes' = crashes + 1
    /\ phase' = "down"
    /\ UNCHANGED database \/ \E h \in Handlers : HalfStored(h)
    /\ litter' = litter
           \cup {Unpacked(task[h].stage) :
                     h \in {o \in Handlers : Exists(task[o].stage)}}
           \cup {BackedUp(task[h].backup) :
                     h \in {o \in Handlers : Exists(task[o].backup)}}
    /\ task' = [h \in Handlers |-> Idle]
    /\ reg' = Absent /\ uninstalled' = FALSE
    /\ lock' = [owner |-> NoHandler, stale |-> FALSE]
    /\ UNCHANGED <<file, dir, ghosts, ops>>

\* SqliteStorage::open runs migrate_legacy_modules: what the file lists and the
\* table lacks is saved, which clears its tombstone.
Migrate ==
    /\ phase = "down"
    /\ phase' = "migrated"
    /\ IF row = Absent /\ file # Absent
       THEN row' = file /\ tombstone' = FALSE
       ELSE UNCHANGED database
    /\ UNCHANGED <<registry, lock, file, dir, litter, task, ghosts, bounds>>

\* Mutant: the enablement of the file wins over the stored one.
RestoredFromFile(stored, found) ==
    IF file # Absent THEN found = file ELSE found = stored

\* build_module_registry: the stored row with its enablement, else what a scan
\* finds (and saves) unless uninstalled, else what the file lists.
RestoredFrom(stored, found) ==
    IF stored # Absent THEN found = stored
    ELSE IF tombstone \/ Scannable(ScannedFirst \cup {Entry(dir["addons"].ver,
                                                        "addons", TRUE)}) = {}
         THEN found = file
         ELSE found \in IF Scannable(ScannedFirst) # {}
                        THEN Scannable(ScannedFirst)
                        ELSE Scannable({Entry(dir["addons"].ver, "addons",
                                              TRUE)})

Restart ==
    /\ phase = "migrated"
    /\ phase' = "up"
    /\ uninstalled' = tombstone
    /\ \E found \in Entries :
          /\ RestoredFrom(row, found)
          /\ reg' = found
          /\ IF row = Absent /\ found # Absent /\ found # file
             THEN row' = found /\ tombstone' = FALSE
             ELSE UNCHANGED database
          /\ expect' = IF expect = Unknown /\ found # Absent THEN found
                       ELSE expect
    /\ UNCHANGED <<lock, file, dir, litter, task, removed, saved, bounds>>

-----------------------------------------------------------------------------
InstallSteps(h) ==
    \/ InstallIngest(h) \/ InstallIngestFails(h) \/ InstallRejected(h)
    \/ InstallPlace(h) \/ InstallRegister(h) \/ InstallUnregistered(h)
    \/ SynthesizeInstall(h) \/ Generate(h)

UpgradeSteps(h) ==
    \/ UpgradeLookup(h) \/ UpgradeAcquire(h) \/ UpgradeConflict(h)
    \/ UpgradeFind(h) \/ UpgradeNotFound(h)
    \/ UpgradeIngest(h) \/ UpgradeIngestFails(h)
    \/ UpgradeRejected(h) \/ UpgradePreserve(h)
    \/ SwapOut(h) \/ SwapOutFails(h) \/ SwapIn(h) \/ SwapInFails(h)
    \/ DropBackup(h) \/ UpgradeEnroll(h) \/ UpgradeOrphaned(h)

HandlerStep(h) ==
    \/ InstallSteps(h)
    \/ Unregister(h) \/ Purge(h) \/ RemoveRow(h)
    \/ SetStatus(h) \/ SetRow(h)
    \/ UpgradeSteps(h)
    \/ Rescan(h)
    \/ SaveRow(h) \/ Snapshot(h) \/ WriteFile(h) \/ WriteFails(h)

Next ==
    \/ \E h \in Handlers : HandlerStep(h)
    \/ LockExpires \/ PruneLock \/ ModuleWrites
    \/ Crash \/ Migrate \/ Restart

Spec == Init /\ [][Next]_vars

-----------------------------------------------------------------------------
Quiet == phase = "up" /\ \A h \in Handlers : task[h].pc = "idle"

\* What an acknowledged request established stays so, in memory and in the
\* table, whatever requests are refused later and however often the gateway
\* crashes, in the middle of a later request too.
DurableAck == (Quiet /\ expect # Unknown) => (reg = expect /\ row = expect)

\* Once its removal is acknowledged the module does not come back, by a scan
\* or by a restart, until it is installed again.
RemovalIsPermanent == (phase = "up" /\ removed) => reg = Absent

\* Data the module has written is on disk somewhere, at every step of an
\* upgrade that works, fails or is cut short, until the module is removed or
\* an install under its id is refused by the registry.
UserDataSafe ==
    saved => \/ \E p \in Places : dir[p].data
             \/ \E h \in Handlers : task[h].stage.data \/ task[h].backup.data
             \/ \E d \in litter : d.data

\* ... and it is in a directory of the module whenever no request is served.
UserDataReachable == (Quiet /\ saved) => \E p \in Places : dir[p].data

\* A refused install costs a registered module nothing.  False of the code, see
\* InstallUnregistered.
RefusalSpares ==
    \A h \in Handlers :
        (/\ task[h].kind = "install" /\ task'[h] = Idle
         /\ \E p \in Places : dir[p].data)
            => \E p \in Places : dir'[p].data

InstallsSpareData == [][RefusalSpares]_vars

Swapping == {"find", "fetch", "preserve", "swapOut", "swapIn", "dropBackup",
             "enroll"}

\* Two upgrades work on the module at once only if one has outlived its slot:
\* a guard that outlived its own does not free the slot of its successor.
SlotExclusion ==
    \A h \in Handlers :
        (task[h].kind = "upgrade" /\ task[h].pc \in Swapping)
            => (lock.owner = h \/ task[h].overrun)

\* A step that brings an uninstalled module back belongs to an install.
ReturnsByInstall ==
    (phase = "up" /\ uninstalled /\ reg = Absent /\ reg' # Absent)
        => \E h \in Handlers : task'[h].kind = "install" /\ task'[h] # task[h]

\* While the gateway runs, an uninstalled module returns only by an install:
\* not by a scan, by an upgrade that finds it gone, or by being enabled.
OnlyInstallsReturn == [][ReturnsByInstall]_vars

\* A step of an upgrade leaves the enablement of module and row alone.
KeepsEnablement ==
    \A h \in Handlers :
        (task[h].kind = "upgrade" /\ task'[h] # task[h] /\ phase' = "up")
            => /\ reg'.on = reg.on
               /\ row # Absent => row'.on = row.on

\* No step of an upgrade enables or disables the module, in memory or in a row
\* that exists.
UpgradeKeepsEnablement == [][KeepsEnablement]_vars

\* However an upgrade ends (refused, failed half way, acknowledged, outlived by
\* its slot's TTL) it leaves no slot behind: an owner is an upgrade under way.
NoOrphanedSlot ==
    lock.owner # NoHandler =>
        /\ task[lock.owner].kind = "upgrade"
        /\ task[lock.owner].pc \notin {"idle", "acquire"}
=============================================================================
