---------------------------- MODULE ModuleRuntime ----------------------------
(***************************************************************************)
(* One call of a personal module: a child process is spawned for it, three *)
(* threads feed its standard input and read its two outputs, and the       *)
(* caller waits for one line with a time limit, kills the child and        *)
(* collects the threads.  A module may start processes of its own, which   *)
(* inherit the pipes and which the kill does not reach.                    *)
(*                                                                         *)
(* Callers are requests routed to the module, calls of one of its tools,   *)
(* and the dashboard's health probe.  A module that serves HTTP on the     *)
(* loopback is called with a client that has its own time limit.           *)
(***************************************************************************)
EXTENDS Integers, FiniteSets

CONSTANT Calls   \* calls that may run at once

VARIABLE call    \* each call: where its caller is, its processes and threads

\* How a module is called: a routed request or a tool over standard input, the
\* probe of the dashboard, a request or a tool over HTTP.
Kinds == {"request", "tool", "probe", "http-request", "http-tool"}
Threads == {"writer", "reader", "errors"}

\* pc: the caller.  child, heir: the process and one it started.  alive: the
\* threads that run.  got: what the reader sent.  result: the outcome.
CallStates ==
    [pc : {"idle", "spawn", "await", "join", "report", "done"},
     kind : Kinds,
     child : {"none", "running", "dead"},
     heir : {"none", "running", "dead"},
     alive : SUBSET Threads,
     got : {"nothing", "line", "blank", "garbled"},
     result : {"none", "answered", "refused", "failed", "late"}]

NoCall == [pc |-> "idle", kind |-> "request", child |-> "none", heir |-> "none",
           alive |-> {}, got |-> "nothing", result |-> "none"]

RuntimeTypeOK == call \in [Calls -> CallStates]

RuntimeInit == call = [h \in Calls |-> NoCall]

-----------------------------------------------------------------------------
(* The caller. *)

At(h, label) == call[h].pc = label

Begin(h, kind) ==
    /\ At(h, "idle")
    /\ call' = [call EXCEPT ![h] = [NoCall EXCEPT !.pc = "spawn", !.kind = kind]]

Ends(h, result) ==
    call' = [call EXCEPT ![h].pc = "done", ![h].result = result]

Started(h) ==
    call' = [call EXCEPT ![h].pc = "await", ![h].child = "running",
                         ![h].alive = Threads]

OverPipes(h) == call[h].kind \in {"request", "tool", "probe"}

\* The command, or the interpreter its script needs when the file cannot be
\* executed; a probe does without the second and wants the file executable.
Spawn(h) ==
    /\ At(h, "spawn") /\ OverPipes(h)
    /\ Started(h)

SpawnFails(h) ==
    /\ At(h, "spawn") /\ OverPipes(h)
    /\ Ends(h, "failed")

\* A line came: the child is killed and waited for, and then, except after a
\* probe, the three threads.
Receive(h) ==
    /\ At(h, "await")
    /\ call[h].got # "nothing"
    /\ call' = [call EXCEPT ![h].child = "dead",
                            ![h].pc = IF call[h].kind = "probe" THEN "report"
                                      ELSE "join"]

JoinThreads(h) ==
    /\ At(h, "join")
    /\ call[h].alive = {}
    /\ call' = [call EXCEPT ![h].pc = "report"]

\* No line within the limit: the threads are left to themselves.
TimeLimit(h) ==
    /\ At(h, "await")
    /\ call[h].got = "nothing"
    /\ call' = [call EXCEPT ![h].pc = "done", ![h].child = "dead",
                            ![h].result = "late"]

\* A blank line is a crash, what is no answer is an error; an answer may
\* itself report a failure.
Report(h) ==
    /\ At(h, "report")
    /\ \/ call[h].got = "line" /\ \E r \in {"answered", "refused"} : Ends(h, r)
       \/ call[h].got \in {"blank", "garbled"} /\ Ends(h, "failed")

\* The loopback call: a routed request passes GET and POST only, a tool any
\* status below 400; the client gives up after the same limit.
CallHttp(h) ==
    /\ At(h, "spawn") /\ ~OverPipes(h)
    /\ \E r \in {"answered", "refused", "failed"} : Ends(h, r)

-----------------------------------------------------------------------------
(* The processes and the threads. *)

\* Some process holds the other end of the call's pipes.
Held(h) == "running" \in {call[h].child, call[h].heir}

Fork(h) ==
    /\ call[h].child = "running" /\ call[h].heir = "none"
    /\ call' = [call EXCEPT ![h].heir = "running"]

ChildExits(h) ==
    /\ call[h].child = "running"
    /\ call' = [call EXCEPT ![h].child = "dead"]

HeirExits(h) ==
    /\ call[h].heir = "running"
    /\ call' = [call EXCEPT ![h].heir = "dead"]

Stops(h, thread) == call' = [call EXCEPT ![h].alive = @ \ {thread}]

\* The input is taken, or there is nobody left to take it.
InputTaken(h) ==
    /\ "writer" \in call[h].alive /\ Held(h)
    /\ Stops(h, "writer")

InputRefused(h) ==
    /\ "writer" \in call[h].alive /\ ~Held(h)
    /\ Stops(h, "writer")

\* A process writes a line: JSON, blanks, or bytes that are no text.
OutputRead(h) ==
    /\ "reader" \in call[h].alive /\ Held(h)
    /\ \E what \in {"line", "blank", "garbled"} :
           call' = [call EXCEPT ![h].got = what, ![h].alive = @ \ {"reader"}]

OutputEnds(h) ==
    /\ "reader" \in call[h].alive /\ ~Held(h)
    /\ call' = [call EXCEPT ![h].got = "blank", ![h].alive = @ \ {"reader"}]

\* The error stream is read to its end or to 4096 bytes.
ErrorsFull(h) ==
    /\ "errors" \in call[h].alive /\ Held(h)
    /\ Stops(h, "errors")

\* Mutant: the end of the stream is taken for an empty read, and tried again.
ErrorsEndMissed(h) ==
    /\ "errors" \in call[h].alive /\ ~Held(h)
    /\ UNCHANGED call

ErrorsEnd(h) ==
    /\ "errors" \in call[h].alive /\ ~Held(h)
    /\ Stops(h, "errors")

-----------------------------------------------------------------------------
CallerStep(h) ==
    \/ Spawn(h) \/ SpawnFails(h) \/ CallHttp(h)
    \/ Receive(h) \/ JoinThreads(h) \/ TimeLimit(h) \/ Report(h)

ThreadStep(h) == InputRefused(h) \/ OutputEnds(h) \/ ErrorsEnd(h)

ProcessStep(h) ==
    \/ Fork(h) \/ ChildExits(h) \/ HeirExits(h)
    \/ InputTaken(h) \/ OutputRead(h) \/ ErrorsFull(h)

RuntimeStep(h) == CallerStep(h) \/ ThreadStep(h) \/ ProcessStep(h)

\* The caller's thread runs and its time limit expires; a thread whose pipe
\* has lost its other end notices.  Nothing makes a module's processes move.
RuntimeFairness ==
    \A h \in Calls : WF_call(CallerStep(h)) /\ WF_call(ThreadStep(h))

RuntimeNext ==
    \E h \in Calls : RuntimeStep(h) \/ \E kind \in Kinds : Begin(h, kind)

RuntimeSpec == RuntimeInit /\ [][RuntimeNext]_call /\ RuntimeFairness

-----------------------------------------------------------------------------
(* Properties. *)

\* Every call of a module comes to an end (the 30 s limit of
\* wait_for_module_response bounds the wait for the line, not the joins).
CallsEnd == \A h \in Calls : At(h, "spawn") ~> At(h, "done")

\* What the code does achieve: a call ends unless a process the module left
\* behind keeps holding its pipes.
CallsEndUnlessHeld ==
    \A h \in Calls : At(h, "spawn") ~> At(h, "done") \/ call[h].heir = "running"
=============================================================================
