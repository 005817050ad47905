----------------------------- MODULE VideoJobs -----------------------------
(***************************************************************************)
(* Muse video jobs: the record files of museai/lifecycle.rs and the        *)
(* threads that read and write them.  A create request reserves a record   *)
(* under its submission key and sends one prompt upstream; a revise        *)
(* request sends a prompt for an existing job; polls load a record and     *)
(* write it back when its submission is stale; a clean-up cycle lists the  *)
(* records, then deletes one by one those older than its limit, which is   *)
(* the configured retention for the worker and whatever the request says   *)
(* for POST /muse-ai/v1/threads/cleanup.                                   *)
(*                                                                         *)
(* Some writers hold job_update_lock and some do not: a locked update is   *)
(* two steps (load, save) that only another locked update is kept out of.  *)
(* One save_video_job (write a temporary file, rename it) is one step.     *)
(* "artifact_reported" stands for "completed" too, which differs only in   *)
(* whether the media was cached; no request sets "pinned", which is FALSE; *)
(* "checked" (last_checked_at) is read only while a job is "submitting",   *)
(* and is 0 after that.                                                    *)
(***************************************************************************)
EXTENDS Integers, FiniteSets

CONSTANTS
    Requests,      \* request threads alive at one time
    Ids,           \* job ids
    Keys,          \* the idempotency_key or submission_key of a request, or NoKey
    NoKey,         \* a request without a key
    NoFile,        \* no record file under an id
    Free,          \* job_update_lock is not held
    StaleAfter,    \* STALE_SUBMITTING_SECS, in ticks
    Limits,        \* GW_MUSEAI_THREAD_RETENTION_SECS and the limits that
                   \* clean-up requests ask for, in ticks
    RunLimit,      \* ticks a completion may take upstream
    Kinds,         \* the kinds of request that arrive
    MaxClock,      \* bound on the clock
    MaxOps,        \* bound on requests
    MaxCrashes     \* bound on crashes

VARIABLES
    files,     \* video_jobs/<id>.json
    lock,      \* job_update_lock: its holder
    req,       \* the request threads and their locals
    victims,   \* what the clean-up cycle under way still has to delete: <<id, limit>>
    now,       \* now_secs()
    ops, crashes,
    \* For the properties only; no action reads them:
    used,      \* the keys a record was reserved with, by id
    twice,     \* ids that a second record was reserved under
    reaped     \* ids whose record a cycle with a short limit deleted while
               \* the job was being created

videoVars == <<files, lock, req, victims, now, ops, crashes, used, twice, reaped>>

Statuses == {"submitting", "submission_unknown", "failed", "approval_required",
             "artifact_reported"}
Records == [status : Statuses, key : Keys \cup {NoKey}, revisions : Nat,
            checked : Nat, active : Nat]

ASSUME VideoAssumption ==
    /\ StaleAfter \in Nat /\ Limits \subseteq Nat /\ RunLimit \in Nat
    /\ MaxClock \in Nat /\ MaxOps \in Nat /\ MaxCrashes \in Nat
    /\ Kinds \subseteq {"create", "revise", "poll", "edit"}
    /\ Free \notin Requests /\ NoFile \notin Records /\ "none" \notin Ids

Outcomes == {"none", "artifact", "approval", "timeout", "error"}
ReqStates == {"idle", "reserving", "late", "upstream", "answered", "loaded"}

Idle == [pc |-> "idle", kind |-> "none", id |-> "none", key |-> NoKey,
         old |-> "none", copy |-> NoFile, outcome |-> "none", since |-> 0]

\* The domains of the variables.
TypeOK ==
    /\ files \in [Ids -> Records \cup {NoFile}]
    /\ lock \in Requests \cup {Free}
    /\ \A r \in Requests :
        /\ req[r].pc \in ReqStates
        /\ req[r].kind \in Kinds \cup {"none"}
        /\ req[r].id \in Ids \cup {"none"}
        /\ req[r].copy \in Records \cup {NoFile}
        /\ req[r].outcome \in Outcomes
        /\ lock = r => req[r].pc \in {"reserving", "loaded"}
    /\ victims \subseteq Ids \X Limits
    /\ used \in [Ids -> SUBSET (Keys \cup {NoKey})]
    /\ twice \subseteq Ids /\ reaped \subseteq Ids
    /\ now \in 0..MaxClock /\ ops \in 0..MaxOps /\ crashes \in 0..MaxCrashes

VideoInit ==
    /\ files = [j \in Ids |-> NoFile]
    /\ lock = Free
    /\ req = [r \in Requests |-> Idle]
    /\ victims = {}
    /\ used = [j \in Ids |-> {}]
    /\ twice = {} /\ reaped = {}
    /\ now = 0
    /\ ops = 0 /\ crashes = 0

-----------------------------------------------------------------------------
(* Records. *)

Stale(rec) == rec.status = "submitting" /\ now - rec.checked >= StaleAfter

Recovered(rec) ==
    IF Stale(rec)
    THEN [rec EXCEPT !.status = "submission_unknown", !.checked = 0, !.active = now]
    ELSE rec

\* evaluate_job_retention, against the limit of the cycle.
Expired(rec, limit) ==
    /\ rec.status \notin {"submitting", "approval_required"}
    /\ now - rec.active >= limit

\* Mutant: an unknown submission, which the answer calls retryable, gives its
\* key to the retry.
RetryableUnknown(rec) == rec.status \in {"failed", "submission_unknown"}

\* A reservation replaces the record of its key only when it has failed.
Retryable(rec) == rec.status = "failed"

\* create_init_job_record.
Submitting(key) == [status |-> "submitting", key |-> key, revisions |-> 0,
                    checked |-> now, active |-> now]

StatusAfter(outcome) == CASE outcome = "approval" -> "approval_required"
                       [] outcome = "timeout" -> "submission_unknown"
                       [] outcome = "error" -> "failed"
                       [] OTHER -> "artifact_reported"

\* Mutant: the finished record is built without looking at the stored one.
UpdatedAfresh(q) ==
    IF q.kind = "create"
    THEN [status |-> StatusAfter(q.outcome), key |-> q.key, revisions |-> 0,
          checked |-> 0, active |-> now]
    ELSE [q.copy EXCEPT !.revisions = IF q.kind = "revise" THEN @ + 1 ELSE @,
                        !.active = now]

\* What a locked update saves: update_video_job_with_error,
\* build_video_result_with_job_id, append_job_revision, update_job_prompt.
Updated(q) ==
    CASE q.kind = "create" /\ q.copy = NoFile ->
            [Submitting(q.key) EXCEPT !.status = "artifact_reported", !.checked = 0]
      [] q.kind = "create" /\ q.copy # NoFile ->
            [q.copy EXCEPT !.status = StatusAfter(q.outcome), !.checked = 0, !.active = now]
      [] q.kind = "revise" ->
            [q.copy EXCEPT !.status = "artifact_reported", !.revisions = @ + 1,
                           !.checked = 0, !.active = now]
      [] OTHER -> [q.copy EXCEPT !.active = now]

Becomes(r, q) == req' = [req EXCEPT ![r] = q]

Arrives(r, kind) ==
    /\ kind \in Kinds
    /\ req[r].pc = "idle"
    /\ ops < MaxOps
    /\ ops' = ops + 1

-----------------------------------------------------------------------------
(* Creating a job. *)

\* Mutant: the reservation looks for the key without the lock.
ReserveScanUnlocked(r) ==
    /\ Arrives(r, "create")
    /\ lock' = lock
    /\ \E id \in Ids, key \in Keys :
        /\ \A j \in Ids : files[j] # NoFile => files[j].key # key
        /\ Becomes(r, [Idle EXCEPT !.pc = "reserving", !.kind = "create",
                                   !.id = id, !.key = key])
    /\ UNCHANGED <<files, victims, now, crashes, used, twice, reaped>>

\* reserve_video_job takes the lock and looks for a record with the key.  One
\* that has not failed is the answer (video_job_response), and the lock is
\* released with it; a stale one is first written back, like a poll's.  The
\* id is a new UUID or the client's own, which may be any.
ReserveScan(r) ==
    /\ Arrives(r, "create")
    /\ lock = Free
    /\ \E id \in Ids, key \in Keys :
        LET same == {j \in Ids : key # NoKey /\ files[j] # NoFile /\ files[j].key = key}
            q == [Idle EXCEPT !.kind = "create", !.id = id, !.key = key]
        IN
        \/ /\ same = {}
           /\ Becomes(r, [q EXCEPT !.pc = "reserving"])
           /\ lock' = r
        \/ \E j \in same :
             IF Retryable(files[j])
             THEN /\ Becomes(r, [q EXCEPT !.pc = "reserving", !.old = j])
                  /\ lock' = r
             ELSE /\ Becomes(r, IF Stale(files[j])
                                THEN [Idle EXCEPT !.pc = "late", !.kind = "poll", !.id = j,
                                                  !.copy = Recovered(files[j])]
                                ELSE Idle)
                  /\ UNCHANGED lock
    /\ UNCHANGED <<files, victims, now, crashes, used, twice, reaped>>

\* A prompt goes upstream for the request (request_completion).
Sends(r, q) ==
    Becomes(r, [q EXCEPT !.pc = "upstream", !.copy = NoFile, !.since = now])

\* The failed record of the key is removed and the new one saved, unless the
\* id is taken; the lock is released and the prompt sent.
ReserveSave(r) ==
    LET q == req[r]
        left == [j \in Ids |-> IF j = q.old THEN NoFile ELSE files[j]]
    IN
    /\ q.pc = "reserving"
    /\ lock' = Free
    /\ IF left[q.id] # NoFile
       THEN files' = left /\ Becomes(r, Idle) /\ UNCHANGED <<used, twice>>
       ELSE /\ files' = [left EXCEPT ![q.id] = Submitting(q.key)]
            /\ Sends(r, q)
            /\ used' = [used EXCEPT ![q.id] = @ \cup {q.key}]
            /\ twice' = IF used[q.id] = {} THEN twice ELSE twice \cup {q.id}
    /\ UNCHANGED <<victims, now, ops, crashes, reaped>>

-----------------------------------------------------------------------------
(* Loading without the lock: polls, and the parent of a revision. *)

\* load_video_job reads the record; a stale one is written back by the next
\* step.  A poll of a record that is not stale changes nothing.
Poll(r) ==
    /\ Arrives(r, "poll")
    /\ \E j \in Ids :
        /\ files[j] # NoFile /\ Stale(files[j])
        /\ Becomes(r, [Idle EXCEPT !.pc = "late", !.kind = "poll", !.id = j,
                                   !.copy = Recovered(files[j])])
    /\ UNCHANGED <<files, lock, victims, now, crashes, used, twice, reaped>>

\* load_parent_job; a revision is not reserved, whatever key it carries.
Revise(r) ==
    /\ Arrives(r, "revise")
    /\ \E j \in Ids, key \in Keys :
        LET q == [Idle EXCEPT !.kind = "revise", !.id = j, !.key = key] IN
        /\ files[j] # NoFile
        /\ IF Stale(files[j])
           THEN Becomes(r, [q EXCEPT !.pc = "late", !.copy = Recovered(files[j])])
           ELSE Sends(r, q)
    /\ UNCHANGED <<files, lock, victims, now, crashes, used, twice, reaped>>

LateSave(r) ==
    LET q == req[r] IN
    /\ q.pc = "late"
    /\ files' = [files EXCEPT ![q.id] = q.copy]
    /\ IF q.kind = "revise" THEN Sends(r, q) ELSE Becomes(r, Idle)
    /\ UNCHANGED <<lock, victims, now, ops, crashes, used, twice, reaped>>

-----------------------------------------------------------------------------
(* Locked updates. *)

\* The completion returns: an artifact URL, a pending approval, a time-out or
\* an early end of stream, or any other error (an unreadable or an empty
\* answer among them).  A failed revision is not recorded.
UpstreamAnswers(r) ==
    /\ req[r].pc = "upstream"
    /\ \E outcome \in Outcomes \ {"none"} :
        Becomes(r, IF req[r].kind = "revise" /\ outcome # "artifact"
                   THEN Idle
                   ELSE [req[r] EXCEPT !.pc = "answered", !.outcome = outcome, !.since = 0])
    /\ UNCHANGED <<files, lock, victims, now, ops, crashes, used, twice, reaped>>

\* The lock is taken and the record loaded (a stale one is written back by
\* the load).  Without a record only a finished creation goes on.
TakesUp(r, q) ==
    IF files[q.id] = NoFile /\ ~(q.kind = "create" /\ q.outcome = "artifact")
    THEN UNCHANGED <<files, lock>> /\ Becomes(r, Idle)
    ELSE /\ lock' = r
         /\ files' = [files EXCEPT ![q.id] = IF @ = NoFile THEN @ ELSE Recovered(@)]
         /\ Becomes(r, [q EXCEPT !.pc = "loaded", !.copy = files'[q.id]])

UpdateLoad(r) ==
    /\ req[r].pc = "answered"
    /\ lock = Free
    /\ TakesUp(r, req[r])
    /\ UNCHANGED <<victims, now, ops, crashes, used, twice, reaped>>

\* update_job_prompt.
EditLoad(r) ==
    /\ Arrives(r, "edit")
    /\ lock = Free
    /\ \E j \in Ids :
        /\ files[j] # NoFile
        /\ TakesUp(r, [Idle EXCEPT !.kind = "edit", !.id = j])
    /\ UNCHANGED <<victims, now, crashes, used, twice, reaped>>

UpdateSave(r) ==
    /\ req[r].pc = "loaded"
    /\ files' = [files EXCEPT ![req[r].id] = Updated(req[r])]
    /\ lock' = Free
    /\ Becomes(r, Idle)
    /\ UNCHANGED <<victims, now, ops, crashes, used, twice, reaped>>

-----------------------------------------------------------------------------
(* The clean-up: the worker's cycles and those that requests ask for, kept *)
(* apart by CLEANUP_RUNNING.                                               *)

CleanupList ==
    /\ victims = {}
    /\ \E limit \in Limits :
        victims' = {j \in Ids : files[j] # NoFile /\ Expired(files[j], limit)} \X {limit}
    /\ victims' # {}
    /\ UNCHANGED <<files, lock, req, now, ops, crashes, used, twice, reaped>>

\* The job is being created: a prompt is upstream for q, or its outcome is
\* about to be recorded.
Submitted(q) == q.kind = "create" /\ q.pc \in {"upstream", "answered", "loaded"}

\* The upstream thread is deleted over the network, then the record file,
\* whatever it holds by now.
CleanupDelete ==
    /\ \E v \in victims :
        LET j == v[1]
            short == v[2] <= RunLimit
        IN
        /\ victims' = victims \ {v}
        /\ files' = [files EXCEPT ![j] = NoFile]
        /\ reaped' = IF short /\ \E r \in Requests : Submitted(req[r]) /\ req[r].id = j
                     THEN reaped \cup {j} ELSE reaped
    /\ UNCHANGED <<lock, req, now, ops, crashes, used, twice>>

-----------------------------------------------------------------------------
\* Time passes, minutes at a time: only upstream, where a completion ends
\* within RunLimit, and in the clean-up, which waits for the network; the
\* steps between a load and its save take none of it.
Tick ==
    /\ now < MaxClock
    /\ \A r \in Requests :
        \/ req[r].pc = "idle"
        \/ req[r].pc = "upstream" /\ now < req[r].since + RunLimit
    /\ now' = now + 1
    /\ UNCHANGED <<files, lock, req, victims, ops, crashes, used, twice, reaped>>

\* The process dies and comes back: the record files are all that is left.
Crash ==
    /\ crashes < MaxCrashes
    /\ crashes' = crashes + 1
    /\ lock' = Free
    /\ req' = [r \in Requests |-> Idle]
    /\ victims' = {}
    /\ UNCHANGED <<files, now, ops, used, twice, reaped>>

VideoNext ==
    \/ \E r \in Requests :
        \/ ReserveScan(r) \/ ReserveSave(r)
        \/ Poll(r) \/ Revise(r) \/ LateSave(r)
        \/ UpstreamAnswers(r) \/ UpdateLoad(r) \/ EditLoad(r) \/ UpdateSave(r)
    \/ CleanupList \/ CleanupDelete \/ Tick \/ Crash

VideoSpec == VideoInit /\ [][VideoNext]_videoVars

-----------------------------------------------------------------------------
InFlight(k) == {r \in Requests : req[r].pc = "upstream" /\ req[r].kind = "create"
                                    /\ req[r].key = k}

OnePrompt(k) == Cardinality(InFlight(k)) <= 1

\* A job of the key was named like an earlier one, or lost its record, while
\* it was being created, to a cycle whose limit is no longer than a run.
Disturbed(k) == \E j \in twice \cup reaped : k \in used[j]

\* Create requests that repeat one submission key never have two prompts
\* upstream at the same time, whatever the pollers, the editors and the
\* clean-up do to the record meanwhile (reserve_video_job); except when the
\* key is disturbed.
SingleFlight == \A k \in Keys \ {NoKey} : Disturbed(k) \/ OnePrompt(k)

\* The record a prompt was reserved under is there as long as the prompt is
\* upstream: polls that give the submission up as stale do not hand it to the
\* clean-up, and no retry takes it (recover_stale_submitting_job,
\* evaluate_job_retention, reserve_video_job).  Only a cycle whose limit is
\* no longer than a run takes it, or a step meant for another record of the
\* same name.
RecordOutlivesPrompt ==
    \A r \in Requests :
        req[r].pc = "upstream" /\ req[r].kind = "create" =>
            files[req[r].id] # NoFile \/ req[r].id \in twice \cup reaped

\* Locked updates never lose a revision: a record that is saved with an
\* outcome has all the revisions the file had (append_job_revision,
\* build_video_result_with_job_id).  A stale load written back late is the
\* exception, and always leaves "submission_unknown"; a reservation begins
\* another job, and always leaves "submitting".
RevisionsKept ==
    [][\A j \in Ids :
        (/\ files[j] # NoFile
         /\ files'[j] # NoFile
         /\ files'[j].status \notin {"submission_unknown", "submitting"})
            => files'[j].revisions >= files[j].revisions]_videoVars

\* lifecycle.rs says the clean-up respects active and in-flight jobs: what it
\* deletes is a record that is expired.
CleanupSparesActive ==
    [][\A v \in victims :
        (v \notin victims' /\ files[v[1]] # NoFile /\ files'[v[1]] = NoFile)
            => Expired(files[v[1]], v[2])]_videoVars

\* SingleFlight without its exception: POST /muse-ai/v1/threads/cleanup with a
\* limit no longer than a run lets a retry of the key send a second prompt.
NeverTwoPrompts == \A k \in Keys \ {NoKey} : OnePrompt(k)

\* docs/SECURITY_MODEL.md: a retry with the same key returns the state of the
\* existing job.  A prompt goes out under a key only while no record that
\* has not failed carries the key.
NoDuplicatePrompt ==
    [][\A r \in Requests, j \in Ids :
        (/\ req[r].pc # "upstream" /\ req'[r].pc = "upstream"
         /\ req'[r].key # NoKey
         /\ files[j] # NoFile /\ files[j].key = req'[r].key)
            => files[j].status = "failed"]_videoVars
=============================================================================
