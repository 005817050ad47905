----------------------------- MODULE Admission -----------------------------
(***************************************************************************)
(* Request admission: the accept loop of lib.rs, the two atomic counters   *)
(* and RAII guards of runtime/admission.rs, the body reader of http/mod.rs *)
(* that reserves bytes as it learns the size of the body, and the error    *)
(* exits of routes::route_request.                                         *)
(*                                                                         *)
(* One listener thread and one worker thread per admitted client.  A step  *)
(* is one access to a shared atomic (load or compare-exchange or           *)
(* fetch_sub); the thread-local work that follows it belongs to the same   *)
(* step.  A spurious failure of compare_exchange_weak re-reads the value   *)
(* it already had, so it is a stuttering step.                             *)
(***************************************************************************)
EXTENDS Integers, FiniteSets, Functions

CONSTANTS
    N,                \* clients: the set of worker slots is 1..N
    MaxConnections,   \* GW_MAX_CONNECTIONS
    MaxInFlight,      \* DEFAULT_MAX_IN_FLIGHT_BYTES
    MaxRequest,       \* MAX_REQUEST_BYTES
    UsizeMax,         \* the largest usize
    BodySizes,        \* content-lengths clients announce
    ChunkSizes,       \* chunk sizes clients announce
    ReadAhead         \* most bytes one read() returns beyond what was awaited

ASSUME ParametersAssumption ==
    /\ N \in Nat \ {0}
    /\ MaxConnections \in Nat
    /\ MaxInFlight \in Nat
    /\ MaxRequest \in Nat
    /\ UsizeMax \in Nat
    /\ MaxConnections < UsizeMax
    /\ MaxInFlight <= UsizeMax
    /\ BodySizes \subseteq Nat
    /\ ChunkSizes \subseteq Nat
    /\ ReadAhead \in Nat

Clients == 1..N

\* The bytes that frame a chunk's data: the CRLF after it.
FrameOverhead == 2

VARIABLES
    active,      \* AdmissionController.active_connections
    inFlight,    \* AdmissionController.in_flight_bytes
    listener,    \* the accept loop: where it is, whose stream, value it read
    pc,          \* where each client's connection is
    seen,        \* the value of in_flight_bytes the worker's CAS expects
    want,        \* bytes of the reservation under way, or of the chunk read
    held,        \* ByteGuard.amount of the worker
    chunked,     \* the request body is chunked
    reply        \* the status the worker answers a failed read with, or none

vars == <<active, inFlight, listener, pc, seen, want, held, chunked, reply>>

WorkerStates == {"head", "reserve", "cas", "body", "chunk", "data", "failed",
                 "reject", "routing", "returned", "closing"}
Replies == {"none", "400", "413", "503"}

TypeOK ==
    /\ active \in 0..UsizeMax
    /\ inFlight \in 0..UsizeMax
    /\ listener \in [at : {"accept", "load", "cas", "refuse"},
                     conn : Clients, seen : 0..UsizeMax]
    /\ pc \in [Clients -> {"idle", "backlog", "accepting"} \cup WorkerStates]
    /\ seen \in [Clients -> Nat]
    /\ want \in [Clients -> Nat]
    /\ held \in [Clients -> Nat]
    /\ chunked \in [Clients -> BOOLEAN]
    /\ reply \in [Clients -> Replies]

\* The listener between two streams.
Accepting == [at |-> "accept", conn |-> 1, seen |-> 0]

Init ==
    /\ active = 0
    /\ inFlight = 0
    /\ listener = Accepting
    /\ pc = [c \in Clients |-> "idle"]
    /\ seen = [c \in Clients |-> 0]
    /\ want = [c \in Clients |-> 0]
    /\ held = [c \in Clients |-> 0]
    /\ chunked = [c \in Clients |-> FALSE]
    /\ reply = [c \in Clients |-> "none"]

\* fetch_sub on an AtomicUsize wraps around.
FetchSub(counter, n) == (counter - n) % (UsizeMax + 1)

-----------------------------------------------------------------------------
(* The accept loop. *)

\* A client connects; the kernel queues it until the listener accepts it.
Connect(c) ==
    /\ pc[c] = "idle"
    /\ pc' = [pc EXCEPT ![c] = "backlog"]
    /\ UNCHANGED <<active, inFlight, listener, seen, want, held, chunked, reply>>

Accept(c) ==
    /\ listener.at = "accept"
    /\ pc[c] = "backlog"
    /\ pc' = [pc EXCEPT ![c] = "accepting"]
    /\ listener' = [listener EXCEPT !.at = "load", !.conn = c]
    /\ UNCHANGED <<active, inFlight, seen, want, held, chunked, reply>>

\* The check at the head of the loop of acquire_connection, on the value the
\* load (or the failed CAS) just returned.
ConsiderAdmission ==
    listener' = IF active >= MaxConnections
                THEN [listener EXCEPT !.at = "refuse"]
                ELSE [listener EXCEPT !.at = "cas", !.seen = active]

AdmitLoad ==
    /\ listener.at = "load"
    /\ ConsiderAdmission
    /\ UNCHANGED <<active, inFlight, pc, seen, want, held, chunked, reply>>

\* Mutant: a retry that keeps the value it read first.
AdmitCasStale ==
    /\ listener.at = "cas"
    /\ active = listener.seen
    /\ active' = active + 1
    /\ pc' = [pc EXCEPT ![listener.conn] = "head"]
    /\ listener' = Accepting
    /\ UNCHANGED <<inFlight, seen, want, held, chunked, reply>>

\* compare_exchange_weak; on success the guard exists and the worker is
\* spawned with it.
AdmitCas ==
    /\ listener.at = "cas"
    /\ \/ /\ active = listener.seen
          /\ active' = active + 1
          /\ pc' = [pc EXCEPT ![listener.conn] = "head"]
          /\ listener' = Accepting
       \/ /\ active # listener.seen
          /\ ConsiderAdmission
          /\ UNCHANGED <<active, pc>>
    /\ UNCHANGED <<inFlight, seen, want, held, chunked, reply>>

\* 503 "too many connections", written by the listener itself.
Refuse ==
    /\ listener.at = "refuse"
    /\ pc' = [pc EXCEPT ![listener.conn] = "idle"]
    /\ listener' = Accepting
    /\ UNCHANGED <<active, inFlight, seen, want, held, chunked, reply>>

-----------------------------------------------------------------------------
(* The worker: reading the request. *)

\* The reader returns an error; its locals go out of scope.
FailsWith(c, status) ==
    /\ pc' = [pc EXCEPT ![c] = "failed"]
    /\ reply' = [reply EXCEPT ![c] = status]
    /\ seen' = [seen EXCEPT ![c] = 0]
    /\ want' = [want EXCEPT ![c] = 0]
    /\ chunked' = [chunked EXCEPT ![c] = FALSE]

\* A head that announces a content-length: the whole body is reserved before
\* it is read.  A length over MAX_REQUEST_BYTES is refused first.
ReadSizedHead(c) ==
    /\ pc[c] = "head"
    /\ \E n \in BodySizes :
        \/ /\ n > MaxRequest
           /\ FailsWith(c, "413")
        \/ /\ n <= MaxRequest
           /\ want' = [want EXCEPT ![c] = n]
           /\ pc' = [pc EXCEPT ![c] = "reserve"]
           /\ UNCHANGED <<seen, chunked, reply>>
    /\ UNCHANGED <<active, inFlight, listener, held>>

\* A chunked head: acquire_bytes(0), the guard grows chunk by chunk.
ReadChunkedHead(c) ==
    /\ pc[c] = "head"
    /\ chunked' = [chunked EXCEPT ![c] = TRUE]
    /\ pc' = [pc EXCEPT ![c] = "reserve"]
    /\ UNCHANGED <<active, inFlight, listener, seen, want, held, reply>>

\* A head or a chunk header the reader refuses: malformed (400) or longer
\* than its limit (413).
ReadMalformed(c) ==
    /\ pc[c] \in {"head", "chunk"}
    /\ \E status \in {"400", "413"} : FailsWith(c, status)
    /\ UNCHANGED <<active, inFlight, listener, held>>

\* End of stream, reset, or the read timeout: no answer is written.
ReadFails(c) ==
    /\ pc[c] \in {"head", "body", "chunk", "data"}
    /\ FailsWith(c, "none")
    /\ UNCHANGED <<active, inFlight, listener, held>>

\* Mutant: a limit check that is off by one.
ConsiderReservationOffByOne(c) ==
    IF inFlight + want[c] >= MaxInFlight
    THEN FailsWith(c, "503")
    ELSE /\ pc' = [pc EXCEPT ![c] = "cas"]
         /\ seen' = [seen EXCEPT ![c] = inFlight]
         /\ UNCHANGED <<want, chunked, reply>>

\* The check at the head of the loop of reserve_bytes, on the value just read.
ConsiderReservation(c) ==
    IF inFlight + want[c] > UsizeMax \/ inFlight + want[c] > MaxInFlight
    THEN FailsWith(c, "503")
    ELSE /\ pc' = [pc EXCEPT ![c] = "cas"]
         /\ seen' = [seen EXCEPT ![c] = inFlight]
         /\ UNCHANGED <<want, chunked, reply>>

ReserveLoad(c) ==
    /\ pc[c] = "reserve"
    /\ ConsiderReservation(c)
    /\ UNCHANGED <<active, inFlight, listener, held>>

\* Where the reader goes once the bytes are reserved.
AfterReservation(c) ==
    IF ~chunked[c] THEN "body" ELSE IF want[c] = 0 THEN "chunk" ELSE "data"

\* Mutant: fetch_add instead of compare-exchange, check-then-act.
ReserveCasBlind(c) ==
    /\ pc[c] = "cas"
    /\ inFlight' = inFlight + want[c]
    /\ held' = [held EXCEPT ![c] = @ + want[c]]
    /\ pc' = [pc EXCEPT ![c] = AfterReservation(c)]
    /\ seen' = [seen EXCEPT ![c] = 0]
    /\ UNCHANGED <<active, listener, want, chunked, reply>>

\* compare_exchange_weak of reserve_bytes; on success the guard is created
\* (acquire_bytes) or grown (acquire_more_bytes, which gives the bytes back
\* and refuses when the guard's own amount would overflow).
ReserveCas(c) ==
    /\ pc[c] = "cas"
    /\ IF inFlight = seen[c]
       THEN IF held[c] + want[c] <= UsizeMax
            THEN /\ inFlight' = seen[c] + want[c]
                 /\ held' = [held EXCEPT ![c] = @ + want[c]]
                 /\ pc' = [pc EXCEPT ![c] = AfterReservation(c)]
                 /\ seen' = [seen EXCEPT ![c] = 0]
                 /\ UNCHANGED <<want, chunked, reply>>
            ELSE FailsWith(c, "503") /\ UNCHANGED <<inFlight, held>>
       ELSE ConsiderReservation(c) /\ UNCHANGED <<inFlight, held>>
    /\ UNCHANGED <<active, listener>>

\* The whole request is read: the handler runs.
ReadComplete(c) ==
    /\ pc' = [pc EXCEPT ![c] = "routing"]
    /\ want' = [want EXCEPT ![c] = 0]
    /\ chunked' = [chunked EXCEPT ![c] = FALSE]

\* read_exact of the announced body, all of it reserved.
ReadBody(c) ==
    /\ pc[c] = "body"
    /\ ReadComplete(c)
    /\ UNCHANGED <<active, inFlight, listener, seen, held, reply>>

\* Mutant: the request limit compared with the chunk alone.
ReadChunkHeaderAlone(c) ==
    /\ pc[c] = "chunk"
    /\ \E n \in ChunkSizes :
        \/ n = 0 /\ ReadComplete(c) /\ UNCHANGED <<seen, reply>>
        \/ n > MaxRequest /\ FailsWith(c, "413")
        \/ /\ n \in 1..MaxRequest
           /\ want' = [want EXCEPT ![c] = n]
           /\ pc' = [pc EXCEPT ![c] = "reserve"]
           /\ UNCHANGED <<seen, chunked, reply>>
    /\ UNCHANGED <<active, inFlight, listener, held>>

\* The body read so far is exactly what the guard holds.
ReadChunkHeader(c) ==
    /\ pc[c] = "chunk"
    /\ \E n \in ChunkSizes :
        \/ n = 0 /\ ReadComplete(c) /\ UNCHANGED <<seen, reply>>
        \/ n # 0 /\ held[c] + n > MaxRequest /\ FailsWith(c, "413")
        \/ /\ n # 0
           /\ held[c] + n <= MaxRequest
           /\ want' = [want EXCEPT ![c] = n]
           /\ pc' = [pc EXCEPT ![c] = "reserve"]
           /\ UNCHANGED <<seen, chunked, reply>>
    /\ UNCHANGED <<active, inFlight, listener, held>>

\* Reads until the chunk and its CRLF are buffered.  The last read may bring
\* bytes of what follows; a buffer over MAX_REQUEST_BYTES is refused, the
\* framing and the extra bytes counted.
ReadChunkData(c) ==
    /\ pc[c] = "data"
    /\ \E extra \in 0..ReadAhead :
        LET buffered == want[c] + FrameOverhead + extra IN
        \/ buffered > MaxRequest /\ FailsWith(c, "413")
        \/ /\ buffered <= MaxRequest
           /\ pc' = [pc EXCEPT ![c] = "chunk"]
           /\ want' = [want EXCEPT ![c] = 0]
           /\ UNCHANGED <<seen, chunked, reply>>
    /\ UNCHANGED <<active, inFlight, listener, held>>

-----------------------------------------------------------------------------
(* The worker: leaving. *)

\* Mutant: an early return of the reader that forgets the bytes it holds.
DropBytesForgotten(c) ==
    /\ pc[c] = "failed"
    /\ held' = [held EXCEPT ![c] = 0]
    /\ pc' = [pc EXCEPT ![c] = IF reply[c] = "none" THEN "closing" ELSE "reject"]
    /\ UNCHANGED <<active, inFlight, listener, seen, want, chunked, reply>>

\* Mutant: the rejection is written and drained with the guard still alive.
DropBytesLate(c) ==
    /\ pc[c] = "failed"
    /\ pc' = [pc EXCEPT ![c] = IF reply[c] = "none" THEN "returned" ELSE "reject"]
    /\ UNCHANGED <<active, inFlight, listener, seen, want, held, chunked, reply>>

\* read_request_with_admission returns its error: the ByteGuard, if it was
\* made, is dropped there, before any answer is written.
DropBytes(c) ==
    /\ pc[c] = "failed"
    /\ inFlight' = FetchSub(inFlight, held[c])
    /\ held' = [held EXCEPT ![c] = 0]
    /\ pc' = [pc EXCEPT ![c] = IF reply[c] = "none" THEN "closing" ELSE "reject"]
    /\ UNCHANGED <<active, listener, seen, want, chunked, reply>>

\* Mutant: the rejection path ends the worker without its guard's drop.
RejectAndLeak(c) ==
    /\ pc[c] = "reject"
    /\ pc' = [pc EXCEPT ![c] = "idle"]
    /\ reply' = [reply EXCEPT ![c] = "none"]
    /\ UNCHANGED <<active, inFlight, listener, seen, want, held, chunked>>

\* Mutant: the drain has no bound, the client keeps it going.
RejectForever(c) ==
    /\ pc[c] = "reject"
    /\ UNCHANGED vars

\* write_rejection_and_drain: at most 64 KB of the rest, 50 ms per read.
RejectAndDrain(c) ==
    /\ pc[c] = "reject"
    /\ pc' = [pc EXCEPT ![c] = "closing"]
    /\ reply' = [reply EXCEPT ![c] = "none"]
    /\ UNCHANGED <<active, inFlight, listener, seen, want, held, chunked>>

\* The handler returns, with a status or an error.
RouteReturns(c) ==
    /\ pc[c] = "routing"
    /\ pc' = [pc EXCEPT ![c] = "returned"]
    /\ UNCHANGED <<active, inFlight, listener, seen, want, held, chunked, reply>>

\* The locals of route_request are dropped: first the ByteGuard.
DropRoutedBytes(c) ==
    /\ pc[c] = "returned"
    /\ inFlight' = FetchSub(inFlight, held[c])
    /\ held' = [held EXCEPT ![c] = 0]
    /\ pc' = [pc EXCEPT ![c] = "closing"]
    /\ UNCHANGED <<active, listener, seen, want, chunked, reply>>

\* The stream is closed, the thread's closure drops its ConnectionGuard.
CloseConnection(c) ==
    /\ pc[c] = "closing"
    /\ active' = FetchSub(active, 1)
    /\ pc' = [pc EXCEPT ![c] = "idle"]
    /\ UNCHANGED <<inFlight, listener, seen, want, held, chunked, reply>>

-----------------------------------------------------------------------------
Listen == AdmitLoad \/ AdmitCas \/ Refuse

Release(c) == DropBytes(c) \/ RejectAndDrain(c) \/ DropRoutedBytes(c) \/ CloseConnection(c)

Next ==
    \/ AdmitLoad \/ AdmitCas \/ Refuse
    \/ \E c \in Clients :
        \/ Connect(c) \/ Accept(c)
        \/ ReadSizedHead(c) \/ ReadChunkedHead(c) \/ ReadMalformed(c)
        \/ ReadFails(c) \/ ReserveLoad(c) \/ ReserveCas(c)
        \/ ReadBody(c) \/ ReadChunkHeader(c) \/ ReadChunkData(c)
        \/ DropBytes(c) \/ RejectAndDrain(c) \/ RouteReturns(c)
        \/ DropRoutedBytes(c) \/ CloseConnection(c)

Spec == Init /\ [][Next]_vars

\* The listener thread and the exits of a worker are scheduled by the OS and
\* wait for nobody (a refused client's rest is drained under a 50 ms
\* timeout); the accept queue of the kernel is first in, first out, so no
\* client is passed over for ever.  Nothing is assumed of clients, of
\* handlers, or of who wins a contended compare-exchange.
Fairness ==
    /\ WF_vars(Listen)
    /\ \A c \in Clients : SF_vars(Accept(c)) /\ WF_vars(Release(c))

FairSpec == Spec /\ Fairness

-----------------------------------------------------------------------------
\* Clients whose worker owns a ConnectionGuard.
Guarded == {c \in Clients : pc[c] \in WorkerStates}

\* The limits hold however threads interleave their reads and exchanges
\* (acquire_connection, reserve_bytes): never more than MaxConnections
\* connections, never more than MaxInFlight bytes.
WithinLimits ==
    /\ active <= MaxConnections
    /\ Cardinality(Guarded) <= MaxConnections
    /\ inFlight <= MaxInFlight
    /\ \A c \in Clients : held[c] <= MaxInFlight

\* The connection counter is exactly the number of live guards: no exit path
\* forgets one and none is given back twice (ConnectionGuard::drop).
ConnectionsCounted == active = Cardinality(Guarded)

\* The budget counter is the sum of what live guards hold: bytes reserved
\* chunk by chunk are all given back on every early return of the body
\* reader (ByteGuard::drop), and no byte is given back twice.
BytesCounted == inFlight = SumFunction(held)

\* A worker that writes a rejection and drains a slow client holds no bytes
\* while it does: a client that is being turned away never keeps the budget
\* from the others (route_request drops the guard before it answers).
RejectionsHoldNoBytes ==
    \A c \in Clients : pc[c] \in {"reject", "closing"} => held[c] = 0

\* What a served request buffered was reserved first, and never more than
\* MAX_REQUEST_BYTES of it (read_request_with_admission).
ServedWithinRequestLimit ==
    \A c \in Clients : pc[c] \in {"routing", "returned"} => held[c] <= MaxRequest

\* The listener never gets stuck on a client, however the workers contend
\* with its compare-exchange: whoever waits in the backlog is accepted, and
\* then admitted or refused (run, acquire_connection).
BacklogServed ==
    \A c \in Clients : pc[c] = "backlog" ~> pc[c] \notin {"backlog", "accepting"}

\* Every way out of a request gives back what it took.
ExitsRelease ==
    \A c \in Clients :
        pc[c] \in {"failed", "returned"} ~> (pc[c] = "idle" /\ held[c] = 0)

\* docs/CONFIGURATION.md gives MAX_REQUEST_BYTES as the longest body payload
\* accepted: a chunk is refused as too large only when the payload, which the
\* guard holds in full, exceeds it.
RefusedOnlyForPayload ==
    [][\A c \in Clients :
        (pc[c] = "data" /\ pc'[c] = "failed" /\ reply'[c] = "413")
            => held[c] > MaxRequest]_vars

-----------------------------------------------------------------------------
(* What admission promises: the limits of AdmissionLimits. *)

\* Workers that will do nothing more for their client.
Ending == {"failed", "reject", "returned", "closing"}

standing == [c \in Clients |->
    CASE pc[c] \in Ending -> "leaving"
      [] pc[c] \in WorkerStates \ Ending -> "in"
      [] pc[c] = "accepting" /\ listener.at = "refuse" -> "refused"
      [] OTHER -> "out"]

asking == [c \in Clients |-> IF pc[c] \in {"reserve", "cas"} THEN want[c] ELSE 0]

Limits == INSTANCE AdmissionLimits WITH
    Requests <- BodySizes \cup ChunkSizes \cup {0},
    reserved <- held

\* The two compare-exchange loops and the guards implement the atomic limits
\* of AdmissionLimits: in particular a client is refused with 503 only at a
\* moment when the connections, or the bytes it asked for, really exceed
\* the limit.
ImplementsLimits == Limits!Spec
=============================================================================
