-------------------------- MODULE AdmissionProofs --------------------------
(***************************************************************************)
(* For any number of clients and any limits: the counters of Admission are *)
(* typed and exact, the limits hold, a rejected client holds no bytes, and *)
(* Admission implements AdmissionLimits.                                   *)
(*                                                                         *)
(* The limits rest on the counters being exact: a fetch_sub of more than   *)
(* the counter holds would wrap around.  That the budget counter is the    *)
(* sum of the guards is stated with the partial sums of the guards as the  *)
(* witness, which turns each update of a sum into a pointwise update.      *)
(* SumOfParts equates them with SumFunction, by the smallest set of guards *)
(* for which the two would differ.                                         *)
(*                                                                         *)
(* For the refinement: the counters are what AdmissionLimits counts (the   *)
(* guards, the bytes they hold), so whatever a compare-exchange found in   *)
(* them was the truth at that step.  It needs that the listener has one    *)
(* client at a time (OneAccepted).                                         *)
(***************************************************************************)
EXTENDS Admission, FiniteSetTheorems, WellFoundedInduction, TLAPS

\* f holds the partial sums of h, and total is the last of them.
PartialSums(f, h, total) ==
    /\ f \in [0..N -> Nat]
    /\ f[0] = 0
    /\ f[N] = total
    /\ \A i \in 1..N : f[i] = f[i-1] + h[i]
    /\ \A i, j \in 0..N : i <= j => f[i] <= f[j]

BytesPartitioned == \E f \in [0..N -> Nat] : PartialSums(f, held, inFlight)

Bounded ==
    /\ active <= MaxConnections
    /\ inFlight <= MaxInFlight

\* The listener works on the one client it accepted, and exchanges only a
\* value it compared with the limit.
ListenerCoherent ==
    /\ listener.at # "accept" => pc[listener.conn] = "accepting"
    /\ listener.at = "cas" => listener.seen < MaxConnections

\* So does a worker.
ExchangesWithinBudget ==
    \A c \in Clients : pc[c] = "cas" => seen[c] + want[c] <= MaxInFlight

\* No bytes before the head is read or after the drop, and never more than
\* the request limit, the reservation under way included.
HeldOnlyForBody ==
    \A c \in Clients :
        /\ pc[c] \in {"idle", "backlog", "accepting", "head", "reject", "closing"}
            => held[c] = 0
        /\ held[c] <= MaxRequest
        /\ pc[c] \in {"reserve", "cas"} => held[c] + want[c] <= MaxRequest
        /\ pc[c] \notin {"reserve", "cas", "body", "data"} => want[c] = 0

IInv ==
    /\ TypeOK
    /\ ConnectionsCounted
    /\ Bounded
    /\ BytesPartitioned
    /\ ListenerCoherent
    /\ ExchangesWithinBudget
    /\ HeldOnlyForBody

-----------------------------------------------------------------------------
(* Sums and counters. *)

\* A fetch_sub that takes no more than the counter holds does not wrap.
LEMMA FetchSubExact ==
    ASSUME NEW a \in 0..UsizeMax, NEW n \in 0..a
    PROVE  FetchSub(a, n) = a - n
  BY ParametersAssumption DEF FetchSub

\* One guard holds no more than all of them.
LEMMA PartBelowTotal ==
    ASSUME NEW h \in [Clients -> Nat], NEW total \in Nat, NEW f,
           PartialSums(f, h, total), NEW c \in Clients
    PROVE  h[c] <= total
  <1>1. /\ c \in 1..N /\ c - 1 \in 0..N /\ c \in 0..N /\ N \in 0..N /\ N \in Nat
    BY ParametersAssumption DEF Clients
  <1>2. f[c] = f[c-1] + h[c] /\ f[c] <= f[N] /\ f[c-1] \in Nat /\ h[c] \in Nat
    BY <1>1 DEF PartialSums, Clients
  <1> QED BY <1>2 DEF PartialSums

\* A guard that grows by n grows the sum by n.
LEMMA PartialSumsGrow ==
    ASSUME NEW h \in [Clients -> Nat], NEW total \in Nat, NEW f,
           PartialSums(f, h, total), NEW c \in Clients, NEW n \in Nat
    PROVE  \E g \in [0..N -> Nat] :
              PartialSums(g, [h EXCEPT ![c] = h[c] + n], total + n)
  <1> DEFINE g == [i \in 0..N |-> IF i < c THEN f[i] ELSE f[i] + n]
  <1>1. f \in [0..N -> Nat] /\ N \in Nat /\ c \in 1..N
    BY ParametersAssumption DEF PartialSums, Clients
  <1>2. g \in [0..N -> Nat]
    BY <1>1
  <1>3. g[0] = 0 /\ g[N] = total + n
    BY <1>1 DEF PartialSums
  <1>4. ASSUME NEW i \in 1..N
        PROVE  g[i] = g[i-1] + [h EXCEPT ![c] = h[c] + n][i]
    <2>1. i - 1 \in 0..N /\ i \in 0..N /\ h[i] \in Nat /\ f[i] = f[i-1] + h[i]
      BY <1>1 DEF PartialSums, Clients
    <2> QED BY <2>1, <1>1 DEF Clients
  <1>5. ASSUME NEW i \in 0..N, NEW j \in 0..N, i <= j
        PROVE  g[i] <= g[j]
    <2>1. f[i] <= f[j] /\ f[i] \in Nat /\ f[j] \in Nat
      BY <1>1, <1>5 DEF PartialSums
    <2> QED BY <2>1, <1>1, <1>5
  <1>6. PartialSums(g, [h EXCEPT ![c] = h[c] + n], total + n)
    BY <1>2, <1>3, <1>4, <1>5 DEF PartialSums
  <1> QED BY <1>2, <1>6

\* A guard that is dropped takes what it held off the sum.
LEMMA PartialSumsDrop ==
    ASSUME NEW h \in [Clients -> Nat], NEW total \in Nat, NEW f,
           PartialSums(f, h, total), NEW c \in Clients
    PROVE  \E g \in [0..N -> Nat] :
              PartialSums(g, [h EXCEPT ![c] = 0], total - h[c])
  <1> DEFINE g == [i \in 0..N |-> IF i < c THEN f[i] ELSE f[i] - h[c]]
  <1>1. f \in [0..N -> Nat] /\ N \in Nat /\ c \in 1..N /\ h[c] \in Nat
    BY ParametersAssumption DEF PartialSums, Clients
  <1>2. c - 1 \in 0..N /\ c \in 0..N /\ f[c] = f[c-1] + h[c] /\ f[c-1] \in Nat
    BY <1>1 DEF PartialSums
  <1>3. ASSUME NEW i \in 0..N
        PROVE  i < c => f[i] <= f[c-1]
    BY <1>1, <1>2 DEF PartialSums
  <1>4. ASSUME NEW i \in 0..N
        PROVE  ~(i < c) => f[c] <= f[i]
    BY <1>1, <1>2 DEF PartialSums
  <1>5. g \in [0..N -> Nat]
    BY <1>1, <1>2, <1>4
  <1>6. g[0] = 0 /\ g[N] = total - h[c]
    BY <1>1 DEF PartialSums
  <1>7. ASSUME NEW i \in 1..N
        PROVE  g[i] = g[i-1] + [h EXCEPT ![c] = 0][i]
    <2>1. i - 1 \in 0..N /\ i \in 0..N /\ h[i] \in Nat /\ f[i] = f[i-1] + h[i]
          /\ f[i-1] \in Nat
      BY <1>1 DEF PartialSums, Clients
    <2>2. [h EXCEPT ![c] = 0][i] = IF i = c THEN 0 ELSE h[i]
      BY DEF Clients
    <2>3. /\ g[i] = IF i < c THEN f[i] ELSE f[i] - h[c]
          /\ g[i-1] = IF i - 1 < c THEN f[i-1] ELSE f[i-1] - h[c]
      BY <2>1
    <2> HIDE DEF g
    <2>4. f[i] \in Int /\ f[i-1] \in Int /\ h[c] \in Int /\ i \in Int /\ c \in Int
      BY <2>1, <1>1
    <2>5. CASE i < c
      BY <2>1, <2>2, <2>3, <2>4, <2>5
    <2>6. CASE i = c
      BY <2>1, <2>2, <2>3, <2>4, <2>6
    <2>7. CASE i > c
      BY <2>1, <2>2, <2>3, <2>4, <2>7
    <2>8. i < c \/ i = c \/ i > c
      BY <2>4
    <2> QED BY <2>5, <2>6, <2>7, <2>8, Zenon
  <1>8. ASSUME NEW i \in 0..N, NEW j \in 0..N, i <= j
        PROVE  g[i] <= g[j]
    <2>1. f[i] <= f[j] /\ f[i] \in Nat /\ f[j] \in Nat
      BY <1>1, <1>8 DEF PartialSums
    <2> QED BY <2>1, <1>1, <1>2, <1>3, <1>4, <1>8
  <1>9. PartialSums(g, [h EXCEPT ![c] = 0], total - h[c])
    BY <1>5, <1>6, <1>7, <1>8 DEF PartialSums
  <1> QED BY <1>5, <1>9

\* A set of clients is finite, and counted one by one.
LEMMA GuardedFinite ==
    \A S \in SUBSET Clients : IsFiniteSet(S) /\ Cardinality(S) \in Nat
  <1>1. IsFiniteSet(Clients)
    BY FS_Interval, ParametersAssumption DEF Clients
  <1> QED BY <1>1, FS_Subset, FS_CardinalityType

LEMMA GuardedGains ==
    ASSUME NEW S \in SUBSET Clients, NEW c \in Clients \ S
    PROVE  Cardinality(S \cup {c}) = Cardinality(S) + 1
  BY GuardedFinite, FS_AddElement

LEMMA GuardedLoses ==
    ASSUME NEW S \in SUBSET Clients, NEW c \in S
    PROVE  Cardinality(S \ {c}) = Cardinality(S) - 1 /\ Cardinality(S) > 0
  <1>1. IsFiniteSet(S) /\ Cardinality(S) \in Nat
    BY GuardedFinite
  <1>2. Cardinality(S \ {c}) = Cardinality(S) - 1
    BY <1>1, FS_RemoveElement
  <1>3. Cardinality(S) # 0
    BY <1>1, FS_EmptySet
  <1> QED BY <1>1, <1>2, <1>3

-----------------------------------------------------------------------------
(* The initial state. *)

LEMMA InitIInv == Init => IInv
  <1> SUFFICES ASSUME Init PROVE IInv
    OBVIOUS
  <1> USE ParametersAssumption
  <1>1. TypeOK
    BY DEF Init, TypeOK, Accepting, Clients, Replies
  <1>2. Guarded = {}
    BY DEF Init, Guarded, WorkerStates
  <1>3. ConnectionsCounted
    BY <1>2, FS_EmptySet DEF Init, ConnectionsCounted
  <1>4. BytesPartitioned
    <2> DEFINE zero == [i \in 0..N |-> 0]
    <2>1. PartialSums(zero, held, inFlight)
      BY DEF Init, PartialSums, Clients
    <2> QED BY <2>1 DEF BytesPartitioned, PartialSums
  <1>5. Bounded /\ ListenerCoherent /\ ExchangesWithinBudget /\ HeldOnlyForBody
    BY DEF Init, Bounded, ListenerCoherent, ExchangesWithinBudget,
           HeldOnlyForBody, Accepting
  <1> QED BY <1>1, <1>3, <1>4, <1>5 DEF IInv

-----------------------------------------------------------------------------
(* The listener's steps. *)

\* A connection that moves on.
LEMMA PcTyped ==
    ASSUME TypeOK, NEW c \in Clients,
           NEW where \in {"idle", "backlog", "accepting"} \cup WorkerStates,
           pc' = [pc EXCEPT ![c] = where]
    PROVE  pc' \in [Clients -> {"idle", "backlog", "accepting"} \cup WorkerStates]
  BY DEF TypeOK

LEMMA AcceptingTyped ==
    Accepting \in [at : {"accept", "load", "cas", "refuse"},
                   conn : Clients, seen : 0..UsizeMax]
  BY ParametersAssumption DEF Accepting, Clients

LEMMA ConnectKeeps ==
    ASSUME IInv, NEW c \in Clients, Connect(c) PROVE IInv'
  <1> USE ParametersAssumption DEF IInv
  <1>1. TypeOK'
    BY DEF TypeOK, Connect
  <1>2. Guarded' = Guarded
    BY DEF Guarded, Connect, TypeOK, WorkerStates
  <1>3. ConnectionsCounted' /\ Bounded'
    BY <1>2 DEF ConnectionsCounted, Bounded, Connect
  <1>4. BytesPartitioned'
    BY DEF BytesPartitioned, PartialSums, Connect
  <1>5. ListenerCoherent' /\ ExchangesWithinBudget' /\ HeldOnlyForBody'
    BY DEF ListenerCoherent, ExchangesWithinBudget, HeldOnlyForBody, Connect, TypeOK
  <1> QED BY <1>1, <1>3, <1>4, <1>5

LEMMA AcceptKeeps ==
    ASSUME IInv, NEW c \in Clients, Accept(c) PROVE IInv'
  <1> USE ParametersAssumption DEF IInv
  <1>1. TypeOK'
    BY DEF TypeOK, Accept
  <1>2. Guarded' = Guarded
    BY DEF Guarded, Accept, TypeOK, WorkerStates
  <1>3. ConnectionsCounted' /\ Bounded'
    BY <1>2 DEF ConnectionsCounted, Bounded, Accept
  <1>4. BytesPartitioned'
    BY DEF BytesPartitioned, PartialSums, Accept
  <1>5. ListenerCoherent' /\ ExchangesWithinBudget' /\ HeldOnlyForBody'
    BY DEF ListenerCoherent, ExchangesWithinBudget, HeldOnlyForBody, Accept, TypeOK
  <1> QED BY <1>1, <1>3, <1>4, <1>5

LEMMA AdmitLoadKeeps ==
    ASSUME IInv, AdmitLoad PROVE IInv'
  <1> USE ParametersAssumption DEF IInv
  <1>1. TypeOK'
    BY DEF TypeOK, AdmitLoad, ConsiderAdmission
  <1>2. ConnectionsCounted' /\ Bounded'
    BY DEF ConnectionsCounted, Guarded, Bounded, AdmitLoad
  <1>3. BytesPartitioned'
    BY DEF BytesPartitioned, PartialSums, AdmitLoad
  <1>4. ListenerCoherent' /\ ExchangesWithinBudget' /\ HeldOnlyForBody'
    BY DEF ListenerCoherent, ExchangesWithinBudget, HeldOnlyForBody, AdmitLoad,
           ConsiderAdmission, TypeOK
  <1> QED BY <1>1, <1>2, <1>3, <1>4

LEMMA AdmitCasKeeps ==
    ASSUME IInv, AdmitCas PROVE IInv'
  <1> USE ParametersAssumption DEF IInv
  <1>c. listener.conn \in Clients /\ pc[listener.conn] = "accepting"
    BY DEF AdmitCas, ListenerCoherent, TypeOK
  <1>1. CASE active = listener.seen
    <2>1. /\ active' = active + 1
          /\ pc' = [pc EXCEPT ![listener.conn] = "head"]
          /\ listener' = Accepting
          /\ UNCHANGED <<inFlight, seen, want, held, chunked, reply>>
          /\ active < MaxConnections
      BY <1>1 DEF AdmitCas, ListenerCoherent
    <2>2. TypeOK'
      <3>1. pc' \in [Clients -> {"idle", "backlog", "accepting"} \cup WorkerStates]
        BY <2>1, <1>c, PcTyped DEF WorkerStates
      <3>2. active' \in 0..UsizeMax
        BY <2>1 DEF TypeOK
      <3> QED BY <2>1, <3>1, <3>2, AcceptingTyped, Zenon DEF TypeOK
    <2>3. Guarded' = Guarded \cup {listener.conn} /\ listener.conn \notin Guarded
      BY <2>1, <1>c DEF Guarded, TypeOK, WorkerStates
    <2>4. ConnectionsCounted' /\ Bounded'
      <3>1. Guarded \in SUBSET Clients
        BY DEF Guarded
      <3>2. ConnectionsCounted'
        BY <2>1, <2>3, <3>1, <1>c, GuardedGains DEF ConnectionsCounted
      <3> QED BY <2>1, <3>2 DEF Bounded, TypeOK
    <2>5. BytesPartitioned'
      BY <2>1 DEF BytesPartitioned, PartialSums
    <2>6. ListenerCoherent'
      BY <2>1 DEF ListenerCoherent, Accepting
    <2>7. ExchangesWithinBudget'
      <3>1. pc'[listener.conn] = "head"
            /\ \A o \in Clients : o # listener.conn => pc'[o] = pc[o]
        BY <2>1, <1>c DEF TypeOK
      <3> QED BY <2>1, <3>1 DEF ExchangesWithinBudget
    <2>8. HeldOnlyForBody'
      BY <2>1, <1>c DEF HeldOnlyForBody, TypeOK
    <2> QED BY <2>2, <2>4, <2>5, <2>6, <2>7, <2>8
  <1>2. CASE active # listener.seen
    <2>1. ConsiderAdmission /\ UNCHANGED <<active, inFlight, pc, seen, want, held, chunked, reply>>
      BY <1>2 DEF AdmitCas
    <2>2. TypeOK'
      BY <2>1 DEF TypeOK, ConsiderAdmission
    <2>3. ConnectionsCounted' /\ Bounded'
      BY <2>1 DEF ConnectionsCounted, Guarded, Bounded
    <2>4. BytesPartitioned'
      BY <2>1 DEF BytesPartitioned, PartialSums
    <2>5. ListenerCoherent' /\ ExchangesWithinBudget' /\ HeldOnlyForBody'
      BY <2>1, <1>c DEF ListenerCoherent, ExchangesWithinBudget, HeldOnlyForBody,
                        ConsiderAdmission, TypeOK
    <2> QED BY <2>2, <2>3, <2>4, <2>5
  <1> QED BY <1>1, <1>2

LEMMA RefuseKeeps ==
    ASSUME IInv, Refuse PROVE IInv'
  <1> USE ParametersAssumption DEF IInv
  <1>c. listener.conn \in Clients /\ pc[listener.conn] = "accepting"
    BY DEF Refuse, ListenerCoherent, TypeOK
  <1>1. TypeOK'
    <2>1. pc' \in [Clients -> {"idle", "backlog", "accepting"} \cup WorkerStates]
      BY <1>c, PcTyped DEF Refuse
    <2> QED BY <2>1, AcceptingTyped, Zenon DEF Refuse, TypeOK
  <1>2. Guarded' = Guarded
    BY <1>c DEF Guarded, Refuse, TypeOK, WorkerStates
  <1>3. ConnectionsCounted' /\ Bounded'
    BY <1>2 DEF ConnectionsCounted, Bounded, Refuse
  <1>4. BytesPartitioned'
    BY DEF BytesPartitioned, PartialSums, Refuse
  <1>5. ListenerCoherent' /\ ExchangesWithinBudget' /\ HeldOnlyForBody'
    BY <1>c DEF ListenerCoherent, ExchangesWithinBudget, HeldOnlyForBody, Refuse,
                Accepting, TypeOK
  <1> QED BY <1>1, <1>3, <1>4, <1>5

-----------------------------------------------------------------------------
(* The worker's steps that touch no counter: the guards stay what they are. *)

\* What is left of IInv when neither counter, no guard and no worker's
\* standing changes.
LEMMA CountersKept ==
    ASSUME IInv, UNCHANGED <<active, inFlight, held, listener>>, NEW c \in Clients,
           NEW where \in WorkerStates, pc[c] \in WorkerStates,
           pc' = [pc EXCEPT ![c] = where]
    PROVE  ConnectionsCounted' /\ Bounded' /\ BytesPartitioned' /\ ListenerCoherent'
  <1> USE DEF IInv
  <1>1. Guarded' = Guarded
    BY DEF Guarded, TypeOK
  <1>2. ConnectionsCounted' /\ Bounded'
    BY <1>1 DEF ConnectionsCounted, Bounded
  <1>3. BytesPartitioned'
    BY DEF BytesPartitioned, PartialSums
  <1>4. ListenerCoherent'
    BY DEF ListenerCoherent, TypeOK, WorkerStates
  <1> QED BY <1>2, <1>3, <1>4

\* A reader that fails: whatever it had under way is forgotten.
LEMMA FailureKeeps ==
    ASSUME IInv, UNCHANGED <<active, inFlight, held, listener>>, NEW c \in Clients,
           pc[c] \in WorkerStates \ {"reject", "closing"},
           NEW status \in Replies, FailsWith(c, status)
    PROVE  IInv'
  <1> USE ParametersAssumption DEF IInv
  <1>1. "failed" \in WorkerStates /\ pc' = [pc EXCEPT ![c] = "failed"]
    BY DEF FailsWith, WorkerStates
  <1>2. ConnectionsCounted' /\ Bounded' /\ BytesPartitioned' /\ ListenerCoherent'
    BY <1>1, CountersKept
  <1>3. TypeOK'
    BY <1>1 DEF TypeOK, FailsWith
  <1>4. ExchangesWithinBudget'
    BY DEF TypeOK, FailsWith, ExchangesWithinBudget
  <1>5. HeldOnlyForBody'
    BY DEF TypeOK, FailsWith, HeldOnlyForBody
  <1> QED BY <1>2, <1>3, <1>4, <1>5

\* A reader that goes on: what its new standing needs.
LEMMA ProgressKeeps ==
    ASSUME IInv, UNCHANGED <<active, inFlight, held, listener, reply>>, NEW c \in Clients,
           pc[c] \in WorkerStates \ {"reject", "closing"},
           NEW where \in WorkerStates \ {"head", "reject", "closing"},
           NEW w \in Nat, NEW v \in Nat, NEW b \in BOOLEAN,
           pc' = [pc EXCEPT ![c] = where],
           want' = [want EXCEPT ![c] = w],
           seen' = [seen EXCEPT ![c] = v],
           chunked' = [chunked EXCEPT ![c] = b],
           where = "cas" => v + w <= MaxInFlight,
           where \in {"reserve", "cas"} => held[c] + w <= MaxRequest,
           where \notin {"reserve", "cas", "body", "data"} => w = 0,
           pc[c] = "head" => held[c] = 0
    PROVE  IInv'
  <1> USE ParametersAssumption DEF IInv
  <1>1. ConnectionsCounted' /\ Bounded' /\ BytesPartitioned' /\ ListenerCoherent'
    BY CountersKept
  <1>2. TypeOK'
    BY DEF TypeOK
  <1>3. ExchangesWithinBudget'
    BY DEF TypeOK, ExchangesWithinBudget
  <1>4. HeldOnlyForBody'
    BY DEF TypeOK, HeldOnlyForBody, WorkerStates
  <1> QED BY <1>1, <1>2, <1>3, <1>4

LEMMA ReadHeadKeeps ==
    ASSUME IInv, NEW c \in Clients,
           ReadSizedHead(c) \/ ReadChunkedHead(c) \/ ReadMalformed(c) \/ ReadFails(c)
    PROVE  IInv'
  <1> USE ParametersAssumption DEF IInv, TypeOK, Replies, WorkerStates
  <1>1. CASE ReadSizedHead(c)
    <2>1. PICK n \in BodySizes :
            \/ n > MaxRequest /\ FailsWith(c, "413")
            \/ /\ n <= MaxRequest
               /\ want' = [want EXCEPT ![c] = n]
               /\ pc' = [pc EXCEPT ![c] = "reserve"]
               /\ UNCHANGED <<seen, chunked, reply>>
      BY <1>1 DEF ReadSizedHead
    <2>2. pc[c] = "head" /\ held[c] = 0 /\ n \in Nat
          /\ UNCHANGED <<active, inFlight, held, listener>>
      BY <1>1 DEF ReadSizedHead, HeldOnlyForBody
    <2>3. CASE FailsWith(c, "413")
      BY <2>2, <2>3, FailureKeeps
    <2>4. CASE ~FailsWith(c, "413")
      <3>1. /\ seen' = [seen EXCEPT ![c] = seen[c]] /\ seen[c] \in Nat
            /\ chunked' = [chunked EXCEPT ![c] = chunked[c]] /\ chunked[c] \in BOOLEAN
            /\ held[c] + n <= MaxRequest
        BY <2>1, <2>2, <2>4
      <3> QED BY <2>1, <2>2, <2>4, <3>1, ProgressKeeps
    <2> QED BY <2>3, <2>4
  <1>2. CASE ReadChunkedHead(c)
    <2>1. /\ pc[c] = "head" /\ held[c] = 0 /\ want[c] = 0
          /\ want' = [want EXCEPT ![c] = 0]
          /\ seen' = [seen EXCEPT ![c] = seen[c]] /\ seen[c] \in Nat
          /\ held[c] + 0 <= MaxRequest
      BY <1>2 DEF ReadChunkedHead, HeldOnlyForBody
    <2> QED BY <1>2, <2>1, ProgressKeeps DEF ReadChunkedHead
  <1>3. CASE ReadMalformed(c)
    BY <1>3, FailureKeeps DEF ReadMalformed
  <1>4. CASE ReadFails(c)
    BY <1>4, FailureKeeps DEF ReadFails
  <1> QED BY <1>1, <1>2, <1>3, <1>4

LEMMA ConsiderReservationKeeps ==
    ASSUME IInv, UNCHANGED <<active, inFlight, held, listener>>, NEW c \in Clients,
           pc[c] \in {"reserve", "cas"}, ConsiderReservation(c)
    PROVE  IInv'
  <1> USE ParametersAssumption DEF IInv, TypeOK, Replies, WorkerStates
  <1>1. CASE FailsWith(c, "503")
    BY <1>1, FailureKeeps
  <1>2. CASE ~FailsWith(c, "503")
    <2>1. /\ inFlight + want[c] <= MaxInFlight
          /\ held[c] + want[c] <= MaxRequest
          /\ want[c] \in Nat /\ chunked[c] \in BOOLEAN /\ inFlight \in Nat
          /\ want' = [want EXCEPT ![c] = want[c]]
          /\ chunked' = [chunked EXCEPT ![c] = chunked[c]]
          /\ pc' = [pc EXCEPT ![c] = "cas"]
          /\ seen' = [seen EXCEPT ![c] = inFlight]
          /\ reply' = reply
      BY <1>2 DEF ConsiderReservation, HeldOnlyForBody
    <2> QED BY <2>1, ProgressKeeps
  <1> QED BY <1>1, <1>2

LEMMA ReadBodyKeeps ==
    ASSUME IInv, NEW c \in Clients,
           ReserveLoad(c) \/ ReadBody(c) \/ ReadChunkHeader(c) \/ ReadChunkData(c)
    PROVE  IInv'
  <1> USE ParametersAssumption DEF IInv, TypeOK, Replies, WorkerStates
  <1>s. seen[c] \in Nat /\ held[c] \in Nat /\ chunked[c] \in BOOLEAN
    OBVIOUS
  <1>r. ASSUME ReadComplete(c), UNCHANGED <<active, inFlight, listener, seen, held, reply>>,
               pc[c] \in {"body", "chunk"}
        PROVE  IInv'
    <2>1. seen' = [seen EXCEPT ![c] = seen[c]]
      BY <1>r
    <2> QED BY <1>r, <1>s, <2>1, ProgressKeeps DEF ReadComplete
  <1>1. CASE ReserveLoad(c)
    BY <1>1, ConsiderReservationKeeps DEF ReserveLoad
  <1>2. CASE ReadBody(c)
    BY <1>2, <1>r DEF ReadBody
  <1>3. CASE ReadChunkHeader(c)
    <2>1. pc[c] = "chunk" /\ UNCHANGED <<active, inFlight, listener, held>>
      BY <1>3 DEF ReadChunkHeader
    <2>2. PICK n \in ChunkSizes :
            \/ n = 0 /\ ReadComplete(c) /\ UNCHANGED <<seen, reply>>
            \/ n # 0 /\ held[c] + n > MaxRequest /\ FailsWith(c, "413")
            \/ /\ n # 0
               /\ held[c] + n <= MaxRequest
               /\ want' = [want EXCEPT ![c] = n]
               /\ pc' = [pc EXCEPT ![c] = "reserve"]
               /\ UNCHANGED <<seen, chunked, reply>>
      BY <1>3 DEF ReadChunkHeader
    <2>3. CASE ReadComplete(c) /\ UNCHANGED <<seen, reply>>
      BY <2>1, <2>3, <1>r
    <2>4. CASE FailsWith(c, "413")
      BY <2>1, <2>4, FailureKeeps
    <2>5. CASE /\ held[c] + n <= MaxRequest
               /\ want' = [want EXCEPT ![c] = n]
               /\ pc' = [pc EXCEPT ![c] = "reserve"]
               /\ UNCHANGED <<seen, chunked, reply>>
      <3>1. /\ seen' = [seen EXCEPT ![c] = seen[c]]
            /\ chunked' = [chunked EXCEPT ![c] = chunked[c]]
            /\ n \in Nat
        BY <2>5
      <3>2. pc[c] \in WorkerStates \ {"reject", "closing"} /\ pc[c] # "head"
        BY <2>1
      <3>3. "reserve" \in WorkerStates \ {"head", "reject", "closing"}
        OBVIOUS
      <3> HIDE DEF IInv, TypeOK, Replies, WorkerStates
      <3> QED BY <2>1, <2>5, <3>1, <3>2, <3>3, <1>s, ProgressKeeps
    <2> QED BY <2>2, <2>3, <2>4, <2>5
  <1>4. CASE ReadChunkData(c)
    <2>1. pc[c] = "data" /\ UNCHANGED <<active, inFlight, listener, held>>
      BY <1>4 DEF ReadChunkData
    <2>2. \/ FailsWith(c, "413")
          \/ /\ pc' = [pc EXCEPT ![c] = "chunk"]
             /\ want' = [want EXCEPT ![c] = 0]
             /\ UNCHANGED <<seen, chunked, reply>>
      BY <1>4 DEF ReadChunkData
    <2>3. CASE FailsWith(c, "413")
      BY <2>1, <2>3, FailureKeeps
    <2>4. CASE /\ pc' = [pc EXCEPT ![c] = "chunk"]
               /\ want' = [want EXCEPT ![c] = 0]
               /\ UNCHANGED <<seen, chunked, reply>>
      <3>1. /\ seen' = [seen EXCEPT ![c] = seen[c]]
            /\ chunked' = [chunked EXCEPT ![c] = chunked[c]]
        BY <2>4
      <3>2. pc[c] \in WorkerStates \ {"reject", "closing"} /\ pc[c] # "head"
        BY <2>1
      <3>3. "chunk" \in WorkerStates \ {"head", "reject", "closing"}
        OBVIOUS
      <3> HIDE DEF IInv, TypeOK, Replies, WorkerStates
      <3> QED BY <2>1, <2>4, <3>1, <3>2, <3>3, <1>s, ProgressKeeps
    <2> QED BY <2>2, <2>3, <2>4
  <1> QED BY <1>1, <1>2, <1>3, <1>4

LEMMA RoutingKeeps ==
    ASSUME IInv, NEW c \in Clients, RejectAndDrain(c) \/ RouteReturns(c)
    PROVE  IInv'
  <1> USE ParametersAssumption DEF IInv
  <1>1. PICK where \in WorkerStates :
            /\ pc[c] \in WorkerStates
            /\ pc' = [pc EXCEPT ![c] = where]
            /\ UNCHANGED <<active, inFlight, held, listener>>
    BY DEF RejectAndDrain, RouteReturns, WorkerStates
  <1>2. ConnectionsCounted' /\ Bounded' /\ BytesPartitioned' /\ ListenerCoherent'
    BY <1>1, CountersKept
  <1>3. TypeOK' /\ ExchangesWithinBudget' /\ HeldOnlyForBody'
    BY DEF TypeOK, ExchangesWithinBudget, HeldOnlyForBody, RejectAndDrain, RouteReturns,
           WorkerStates, Replies
  <1> QED BY <1>2, <1>3

-----------------------------------------------------------------------------
(* The worker's steps that move a counter. *)

LEMMA ReserveCasKeeps ==
    ASSUME IInv, NEW c \in Clients, ReserveCas(c)
    PROVE  IInv'
  <1> USE ParametersAssumption DEF IInv
  <1>p. pc[c] = "cas" /\ UNCHANGED <<active, listener>>
    BY DEF ReserveCas
  <1>1. CASE inFlight = seen[c] /\ held[c] + want[c] <= UsizeMax
    <2>1. /\ inFlight' = inFlight + want[c]
          /\ held' = [held EXCEPT ![c] = held[c] + want[c]]
          /\ pc' = [pc EXCEPT ![c] = AfterReservation(c)]
          /\ seen' = [seen EXCEPT ![c] = 0]
          /\ UNCHANGED <<want, chunked, reply>>
      BY <1>1 DEF ReserveCas
    <2>2. inFlight + want[c] <= MaxInFlight
      BY <1>1, <1>p DEF ExchangesWithinBudget
    <2>3. TypeOK'
      BY <2>1, <2>2, <1>p DEF TypeOK, AfterReservation, WorkerStates
    <2>4. Guarded' = Guarded
      BY <2>1, <1>p DEF Guarded, TypeOK, WorkerStates, AfterReservation
    <2>5. ConnectionsCounted' /\ Bounded'
      BY <2>2, <2>1, <2>4, <1>p DEF ConnectionsCounted, Bounded
    <2>6. BytesPartitioned'
      <3>1. PICK f \in [0..N -> Nat] : PartialSums(f, held, inFlight)
        BY DEF BytesPartitioned
      <3>2. held \in [Clients -> Nat] /\ inFlight \in Nat /\ want[c] \in Nat
        BY DEF TypeOK
      <3>3. \E g \in [0..N -> Nat] :
               PartialSums(g, [held EXCEPT ![c] = held[c] + want[c]], inFlight + want[c])
        BY <3>1, <3>2, PartialSumsGrow
      <3> QED BY <3>3, <2>1 DEF BytesPartitioned, PartialSums
    <2>7. ListenerCoherent' /\ ExchangesWithinBudget' /\ HeldOnlyForBody'
      BY <2>1, <1>p DEF ListenerCoherent, ExchangesWithinBudget, HeldOnlyForBody,
                        AfterReservation, TypeOK
    <2> QED BY <2>3, <2>5, <2>6, <2>7
  <1>2. CASE ~(inFlight = seen[c] /\ held[c] + want[c] <= UsizeMax)
    <2>1. (FailsWith(c, "503") \/ ConsiderReservation(c)) /\ UNCHANGED <<inFlight, held>>
      BY <1>2 DEF ReserveCas
    <2>2. CASE FailsWith(c, "503")
      BY <2>1, <2>2, <1>p, FailureKeeps DEF Replies, WorkerStates
    <2>3. CASE ConsiderReservation(c)
      BY <2>1, <2>3, <1>p, ConsiderReservationKeeps
    <2> QED BY <2>1, <2>2, <2>3
  <1> QED BY <1>1, <1>2

LEMMA DropKeeps ==
    ASSUME IInv, NEW c \in Clients, DropBytes(c) \/ DropRoutedBytes(c)
    PROVE  IInv'
  <1> USE ParametersAssumption DEF IInv
  <1>1. PICK f \in [0..N -> Nat] : PartialSums(f, held, inFlight)
    BY DEF BytesPartitioned
  <1>t. held \in [Clients -> Nat] /\ inFlight \in Nat
    BY DEF TypeOK
  <1>2. held[c] <= inFlight /\ held[c] \in 0..inFlight
    <2>1. held[c] <= inFlight
      BY <1>1, <1>t, PartBelowTotal
    <2> QED BY <2>1, <1>t
  <1>3. FetchSub(inFlight, held[c]) = inFlight - held[c]
    BY <1>2, FetchSubExact DEF TypeOK
  <1>4. PICK where \in {"closing", "reject"} :
            /\ pc[c] \in {"failed", "returned"}
            /\ pc' = [pc EXCEPT ![c] = where]
            /\ inFlight' = inFlight - held[c]
            /\ held' = [held EXCEPT ![c] = 0]
            /\ UNCHANGED <<active, listener, seen, want, chunked, reply>>
    BY <1>3 DEF DropBytes, DropRoutedBytes
  <1>5. TypeOK'
    <2>1. pc' \in [Clients -> {"idle", "backlog", "accepting"} \cup WorkerStates]
      BY <1>4, PcTyped DEF WorkerStates
    <2>2. held' \in [Clients -> Nat]
      BY <1>t, <1>4
    <2>3. inFlight' \in 0..UsizeMax
      BY <1>2, <1>4 DEF TypeOK
    <2> QED BY <1>4, <2>1, <2>2, <2>3, Zenon DEF TypeOK
  <1>6. Guarded' = Guarded
    BY <1>4 DEF Guarded, TypeOK, WorkerStates
  <1>7. ConnectionsCounted' /\ Bounded'
    <2>1. ConnectionsCounted'
      BY <1>4, <1>6, Zenon DEF ConnectionsCounted
    <2>2. inFlight' <= inFlight
      BY <1>2, <1>4, <1>t
    <2> QED BY <2>1, <2>2, <1>2, <1>4 DEF Bounded, TypeOK
  <1>8. BytesPartitioned'
    <2>1. \E g \in [0..N -> Nat] :
             PartialSums(g, [held EXCEPT ![c] = 0], inFlight - held[c])
      BY <1>1, <1>t, PartialSumsDrop
    <2> QED BY <2>1, <1>4 DEF BytesPartitioned, PartialSums
  <1>9. ListenerCoherent' /\ ExchangesWithinBudget' /\ HeldOnlyForBody'
    <2>1. pc \in [Clients -> {"idle", "backlog", "accepting"} \cup WorkerStates]
      BY DEF TypeOK
    <2>2. ListenerCoherent'
      BY <2>1, <1>4 DEF ListenerCoherent
    <2>3. ExchangesWithinBudget'
      BY <2>1, <1>t, <1>4 DEF ExchangesWithinBudget
    <2>4. HeldOnlyForBody'
      BY <2>1, <1>t, <1>4 DEF HeldOnlyForBody
    <2> QED BY <2>2, <2>3, <2>4
  <1> QED BY <1>5, <1>7, <1>8, <1>9

LEMMA CloseKeeps ==
    ASSUME IInv, NEW c \in Clients, CloseConnection(c)
    PROVE  IInv'
  <1> USE ParametersAssumption DEF IInv
  <1>1. c \in Guarded /\ Guarded \in SUBSET Clients
    BY DEF CloseConnection, Guarded, WorkerStates
  <1>2. Guarded' = Guarded \ {c}
    BY DEF CloseConnection, Guarded, TypeOK, WorkerStates
  <1>3. Cardinality(Guarded') = active - 1 /\ active > 0
    BY <1>1, <1>2, GuardedLoses DEF ConnectionsCounted
  <1>4. active' = active - 1
    BY <1>3, FetchSubExact DEF CloseConnection, TypeOK
  <1>5. TypeOK'
    BY <1>3, <1>4 DEF TypeOK, CloseConnection
  <1>6. ConnectionsCounted' /\ Bounded'
    BY <1>3, <1>4 DEF ConnectionsCounted, Bounded, CloseConnection, TypeOK
  <1>7. BytesPartitioned'
    BY DEF BytesPartitioned, PartialSums, CloseConnection
  <1>8. ListenerCoherent' /\ ExchangesWithinBudget' /\ HeldOnlyForBody'
    BY DEF ListenerCoherent, ExchangesWithinBudget, HeldOnlyForBody, CloseConnection, TypeOK
  <1> QED BY <1>5, <1>6, <1>7, <1>8

-----------------------------------------------------------------------------
(* The invariant and the theorems. *)

LEMMA NextKeepsIInv == IInv /\ [Next]_vars => IInv'
  <1> SUFFICES ASSUME IInv, [Next]_vars PROVE IInv'
    OBVIOUS
  <1>1. CASE UNCHANGED vars
    BY <1>1 DEF vars, IInv, TypeOK, ConnectionsCounted, Guarded, Bounded, BytesPartitioned,
                PartialSums, ListenerCoherent, ExchangesWithinBudget, HeldOnlyForBody
  <1>2. CASE AdmitLoad \/ AdmitCas \/ Refuse
    BY <1>2, AdmitLoadKeeps, AdmitCasKeeps, RefuseKeeps
  <1>3. ASSUME NEW c \in Clients, Connect(c) \/ Accept(c)
        PROVE  IInv'
    BY <1>3, ConnectKeeps, AcceptKeeps
  <1>4. ASSUME NEW c \in Clients,
               ReadSizedHead(c) \/ ReadChunkedHead(c) \/ ReadMalformed(c) \/ ReadFails(c)
        PROVE  IInv'
    BY <1>4, ReadHeadKeeps
  <1>9. ASSUME NEW c \in Clients,
               ReserveLoad(c) \/ ReadBody(c) \/ ReadChunkHeader(c) \/ ReadChunkData(c)
        PROVE  IInv'
    BY <1>9, ReadBodyKeeps
  <1>5. ASSUME NEW c \in Clients, RejectAndDrain(c) \/ RouteReturns(c)
        PROVE  IInv'
    BY <1>5, RoutingKeeps
  <1>6. ASSUME NEW c \in Clients, ReserveCas(c)
        PROVE  IInv'
    BY <1>6, ReserveCasKeeps
  <1>7. ASSUME NEW c \in Clients, DropBytes(c) \/ DropRoutedBytes(c)
        PROVE  IInv'
    BY <1>7, DropKeeps
  <1>8. ASSUME NEW c \in Clients, CloseConnection(c)
        PROVE  IInv'
    BY <1>8, CloseKeeps
  <1> QED BY <1>1, <1>2, <1>3, <1>4, <1>5, <1>6, <1>7, <1>8, <1>9 DEF Next

LEMMA InductiveInvariant == Spec => []IInv
  BY InitIInv, NextKeepsIInv, PTL DEF Spec

\* Every reachable state is typed.  That no counter wraps is CountIsExact and
\* BudgetIsExact: a wrapped counter is still typed.
THEOREM TypeCorrect == Spec => []TypeOK
  BY InductiveInvariant, PTL DEF IInv

\* The connection counter is exactly the number of live guards.
THEOREM CountIsExact == Spec => []ConnectionsCounted
  BY InductiveInvariant, PTL DEF IInv

\* Whatever the interleaving, no limit is exceeded, by a counter or by what
\* the clients really hold.
THEOREM LimitsHold == Spec => []WithinLimits
  <1>1. IInv => WithinLimits
    <2> SUFFICES ASSUME IInv PROVE WithinLimits
      OBVIOUS
    <2> USE ParametersAssumption DEF IInv
    <2>1. PICK f \in [0..N -> Nat] : PartialSums(f, held, inFlight)
      BY DEF BytesPartitioned
    <2>t. held \in [Clients -> Nat] /\ inFlight \in Nat
      BY DEF TypeOK
    <2>2. ASSUME NEW c \in Clients
          PROVE  held[c] <= inFlight /\ held[c] \in Nat
      BY <2>1, <2>t, PartBelowTotal
    <2> QED BY <2>2 DEF WithinLimits, Bounded, ConnectionsCounted, TypeOK
  <1> QED BY <1>1, InductiveInvariant, PTL

\* Nobody who is being turned away keeps bytes from the others.
THEOREM RejectionsAreFree == Spec => []RejectionsHoldNoBytes
  <1>1. IInv => RejectionsHoldNoBytes
    BY DEF IInv, HeldOnlyForBody, RejectionsHoldNoBytes
  <1> QED BY <1>1, InductiveInvariant, PTL

\* What a served request holds was reserved within the request limit.
THEOREM ServedBodiesAreBounded == Spec => []ServedWithinRequestLimit
  <1>1. IInv => ServedWithinRequestLimit
    BY DEF IInv, HeldOnlyForBody, ServedWithinRequestLimit
  <1> QED BY <1>1, InductiveInvariant, PTL

-----------------------------------------------------------------------------
(* Sums over finite sets. *)

\* G[s] is the sum of h over s, whichever element is taken first.
SumsOf(G, h, S) ==
    /\ G \in [SUBSET S -> Nat]
    /\ G[{}] = 0
    /\ \A s \in SUBSET S : \A x \in s : G[s] = h[x] + G[s \ {x}]

\* A set of subsets of a finite set has a smallest member.
LEMMA SmallestSubset ==
    ASSUME NEW S, IsFiniteSet(S), NEW T \in SUBSET (SUBSET S), T # {}
    PROVE  \E s \in T : \A x \in s : s \ {x} \notin T
<1>1. IsWellFoundedOn(StrictSubsetOrdering(S), SUBSET S)
  BY FS_StrictSubsetOrderingWellFounded, FS_FiniteSubsetsOfFinite
<1>2. PICK s \in T : \A y \in T : <<y, s>> \notin StrictSubsetOrdering(S)
  BY <1>1, WFMin, Zenon
<1>3. ASSUME NEW x \in s, s \ {x} \in T PROVE FALSE
  BY <1>2, <1>3 DEF StrictSubsetOrdering
<1> QED BY <1>3

\* The sums of a function do not depend on an order.
LEMMA SumsExist ==
    ASSUME NEW S, IsFiniteSet(S), NEW h \in [S -> Nat]
    PROVE  \E G : SumsOf(G, h, S)
<1> DEFINE T == {s \in SUBSET S : ~\E G : SumsOf(G, h, s)}
<1>1. SUFFICES ASSUME T # {} PROVE FALSE
  OBVIOUS
<1>2. PICK s \in T : \A x \in s : s \ {x} \notin T
  BY <1>1, SmallestSubset
<1>3. s # {}
  <2> DEFINE G == [t \in {{}} |-> 0]
  <2>1. SumsOf(G, h, {})
    BY DEF SumsOf
  <2> QED BY <2>1
<1>4. PICK x \in s : TRUE
  BY <1>3
<1>5. PICK G : SumsOf(G, h, s \ {x})
  BY <1>2, <1>4
<1> DEFINE F == [t \in SUBSET s |-> IF x \in t THEN h[x] + G[t \ {x}] ELSE G[t]]
<1>6. SumsOf(F, h, s)
  <2>1. F \in [SUBSET s -> Nat] /\ F[{}] = 0
    BY <1>5 DEF SumsOf
  <2>2. ASSUME NEW t \in SUBSET s, NEW y \in t
        PROVE  F[t] = h[y] + F[t \ {y}]
    <3>1. CASE y = x
      BY <3>1, <1>5 DEF SumsOf
    <3>2. CASE y # x /\ x \in t
      <4>1. t \ {x} \in SUBSET (s \ {x}) /\ y \in t \ {x} /\ (t \ {x}) \ {y} = (t \ {y}) \ {x}
        BY <3>2
      <4>2. G[t \ {x}] = h[y] + G[(t \ {x}) \ {y}]
        BY <4>1, <1>5 DEF SumsOf
      <4>3. (t \ {y}) \ {x} \in SUBSET (s \ {x})
        BY <4>1
      <4>4. G[(t \ {y}) \ {x}] \in Nat
        BY <4>3, <1>5 DEF SumsOf
      <4>5. F[t] = h[x] + G[t \ {x}] /\ F[t \ {y}] = h[x] + G[(t \ {y}) \ {x}]
        BY <3>2
      <4>6. h[x] \in Nat /\ h[y] \in Nat
        BY <1>2, <1>4
      <4>7. G[t \ {x}] = h[y] + G[(t \ {y}) \ {x}]
        BY <4>1, <4>2, Zenon
      <4> QED BY <4>4, <4>5, <4>6, <4>7
    <3>3. CASE x \notin t
      BY <3>3, <1>5 DEF SumsOf
    <3> QED BY <3>1, <3>2, <3>3
  <2> QED BY <2>1, <2>2 DEF SumsOf
<1> QED BY <1>6

\* SumFunction takes the elements in an order of its own.
LEMMA SumIs ==
    ASSUME NEW S, IsFiniteSet(S), NEW h \in [S -> Nat], NEW G, SumsOf(G, h, S)
    PROVE  SumFunction(h) = G[S]
<1> DEFINE it(F) == [s \in SUBSET S |-> IF s = {} THEN 0
                      ELSE h[CHOOSE x \in s : TRUE] + F[s \ {CHOOSE x \in s : TRUE}]]
           I == CHOOSE F : F = it(F)
<1>1. SumFunction(h) = I[S]
  BY DEF SumFunction, SumFunctionOnSet, FoldFunctionOnSet, MapThenFoldSet
<1>2. G = it(G)
  <2>1. ASSUME NEW s \in SUBSET S, s # {}
        PROVE  G[s] = h[CHOOSE x \in s : TRUE] + G[s \ {CHOOSE x \in s : TRUE}]
    <3> DEFINE x == CHOOSE x \in s : TRUE
    <3>1. x \in s
      BY <2>1
    <3> QED BY <3>1 DEF SumsOf
  <2> QED BY <2>1 DEF SumsOf
<1>3. I = it(I)
  BY <1>2
<1> HIDE DEF I
<1> DEFINE T == {s \in SUBSET S : I[s] # G[s]}
<1>4. T = {}
  <2> SUFFICES ASSUME T # {} PROVE FALSE
    OBVIOUS
  <2>1. PICK s \in T : \A x \in s : s \ {x} \notin T
    BY SmallestSubset
  <2> DEFINE x == CHOOSE x \in s : TRUE
  <2>2. s # {} => x \in s
    OBVIOUS
  <2>3. I[s] = IF s = {} THEN 0 ELSE h[x] + I[s \ {x}]
    BY <1>3
  <2>4. G[s] = IF s = {} THEN 0 ELSE h[x] + G[s \ {x}]
    BY <1>2
  <2> QED BY <2>1, <2>2, <2>3, <2>4
<1> QED BY <1>1, <1>4

\* What is left of the first indices without the last.
LEMMA LastIndex == ASSUME NEW n \in Nat PROVE (1..n) \ {n} = 1..(n-1)
<1>1. ASSUME NEW j \in (1..n) \ {n} PROVE j \in 1..(n-1)
  BY <1>1
<1>2. ASSUME NEW j \in 1..(n-1) PROVE j \in (1..n) \ {n}
  BY <1>2
<1> QED BY <1>1, <1>2, Zenon

\* The sums over the first of the indices are the partial sums.
LEMMA SumOfParts ==
    ASSUME NEW n \in Nat, NEW h \in [1..n -> Nat], NEW f \in [0..n -> Nat],
           f[0] = 0, \A i \in 1..n : f[i] = f[i-1] + h[i]
    PROVE  SumFunction(h) = f[n]
<1>1. IsFiniteSet(1..n)
  BY FS_Interval
<1>2. PICK G : SumsOf(G, h, 1..n)
  BY <1>1, SumsExist
<1> DEFINE T == {s \in SUBSET (1..n) : \E i \in 0..n : s = 1..i /\ G[s] # f[i]}
<1>3. T = {}
  <2> SUFFICES ASSUME T # {} PROVE FALSE
    OBVIOUS
  <2>0. T \in SUBSET (SUBSET (1..n)) /\ T # {}
    OBVIOUS
  <2> HIDE DEF T
  <2>1. PICK s \in T : \A x \in s : s \ {x} \notin T
    BY <1>1, <2>0, SmallestSubset
  <2> USE DEF T
  <2>2. PICK i \in 0..n : s = 1..i /\ G[s] # f[i]
    OBVIOUS
  <2>3. i # 0
    BY <2>2, <1>2 DEF SumsOf
  <2>4. i \in s /\ s \ {i} = 1..(i-1) /\ i - 1 \in 0..n /\ s \in SUBSET (1..n)
    <3>1. i \in 1..n /\ s \in SUBSET (1..n)
      BY <2>2, <2>3
    <3> HIDE DEF T
    <3>2. (1..i) \ {i} = 1..(i-1)
      <4>1. i \in Nat
        BY <3>1
      <4> QED BY <4>1, LastIndex
    <3> QED BY <2>2, <3>1, <3>2
  <2>5. G[s] = h[i] + G[s \ {i}] /\ G[s \ {i}] = f[i-1]
    BY <2>1, <2>4, <1>2 DEF SumsOf
  <2>6. f[i] = f[i-1] + h[i] /\ f[i-1] \in Nat /\ h[i] \in Nat
    BY <2>4, <2>2
  <2> QED BY <2>2, <2>5, <2>6
<1>4. G[1..n] = f[n]
  <2>1. 1..n \in SUBSET (1..n) /\ n \in 0..n
    OBVIOUS
  <2>2. 1..n \notin T
    BY <1>3
  <2> QED BY <2>1, <2>2
<1> QED BY <1>1, <1>2, <1>4, SumIs

-----------------------------------------------------------------------------
(* The sum of the guards, and the atomic limits. *)

LEMMA BytesAreCounted == IInv => BytesCounted
<1> SUFFICES ASSUME IInv PROVE BytesCounted
  OBVIOUS
<1>1. PICK f \in [0..N -> Nat] : PartialSums(f, held, inFlight)
  BY DEF IInv, BytesPartitioned
<1>2. N \in Nat /\ held \in [1..N -> Nat]
  BY ParametersAssumption DEF IInv, TypeOK, Clients
<1>3. SumFunction(held) = f[N]
  BY <1>1, <1>2, SumOfParts DEF PartialSums
<1> QED BY <1>1, <1>3 DEF BytesCounted, PartialSums

\* The listener works on the only client that is being accepted.
OneAccepted ==
    \A c \in Clients :
        pc[c] = "accepting" => listener.at # "accept" /\ listener.conn = c

LEMMA OneAcceptedKept == IInv /\ OneAccepted /\ [Next]_vars => OneAccepted'
<1> SUFFICES ASSUME IInv, OneAccepted, [Next]_vars PROVE OneAccepted'
  OBVIOUS
<1>1. CASE AdmitLoad \/ AdmitCas \/ Refuse \/ UNCHANGED vars
  BY <1>1 DEF AdmitLoad, AdmitCas, Refuse, ConsiderAdmission, vars, OneAccepted, IInv, TypeOK,
              ListenerCoherent, Accepting
<1>2. ASSUME NEW c \in Clients, Connect(c) \/ Accept(c) PROVE OneAccepted'
  BY <1>2 DEF Connect, Accept, OneAccepted, IInv, TypeOK
<1>3. ASSUME NEW c \in Clients, UNCHANGED listener,
             NEW where \in {"idle"} \cup WorkerStates, pc' = [pc EXCEPT ![c] = where]
      PROVE  OneAccepted'
  BY <1>3 DEF OneAccepted, IInv, TypeOK, WorkerStates
<1>4. ASSUME NEW c \in Clients,
             \/ ReadSizedHead(c) \/ ReadChunkedHead(c) \/ ReadMalformed(c)
             \/ ReadFails(c) \/ ReserveLoad(c) \/ ReserveCas(c)
             \/ ReadBody(c) \/ ReadChunkHeader(c) \/ ReadChunkData(c)
             \/ DropBytes(c) \/ RejectAndDrain(c) \/ RouteReturns(c)
             \/ DropRoutedBytes(c) \/ CloseConnection(c)
      PROVE  OneAccepted'
  <2>1. /\ UNCHANGED listener
        /\ \E where \in {"idle"} \cup WorkerStates : pc' = [pc EXCEPT ![c] = where]
    BY <1>4 DEF ReadSizedHead, ReadChunkedHead, ReadMalformed, ReadFails, ReserveLoad,
                ReserveCas, ReadBody, ReadChunkHeader, ReadChunkData, DropBytes,
                RejectAndDrain, RouteReturns, DropRoutedBytes, CloseConnection, FailsWith,
                ReadComplete, ConsiderReservation, AfterReservation, WorkerStates
  <2> QED BY <2>1, <1>3
<1> QED BY <1>1, <1>2, <1>4 DEF Next

\* Where a client stands when its worker is in some state.
LEMMA StandsIn ==
    ASSUME NEW c \in Clients
    PROVE  /\ pc[c] \in Ending => standing[c] = "leaving"
           /\ pc[c] \in WorkerStates \ Ending => standing[c] = "in"
           /\ pc[c] \in {"idle", "backlog"} => standing[c] = "out"
           /\ pc[c] = "accepting" =>
                standing[c] = IF listener.at = "refuse" THEN "refused" ELSE "out"
           /\ asking[c] = IF pc[c] \in {"reserve", "cas"} THEN want[c] ELSE 0
BY DEF standing, asking, Ending, WorkerStates

\* Who is inside is who has a guard.
LEMMA InsideGuarded == IInv => Limits!Inside = Guarded
<1> SUFFICES ASSUME IInv, NEW c \in Clients
             PROVE  standing[c] \in {"in", "leaving"} <=> pc[c] \in WorkerStates
  BY DEF Limits!Inside, Guarded
<1>1. pc[c] \in {"idle", "backlog", "accepting"} \cup Ending \cup (WorkerStates \ Ending)
  BY DEF IInv, TypeOK
<1>2. Ending \subseteq WorkerStates /\ {"idle", "backlog", "accepting"} \cap WorkerStates = {}
  BY DEF Ending, WorkerStates
<1>3. CASE pc[c] \in Ending
  BY <1>2, <1>3, StandsIn
<1>4. CASE pc[c] \in WorkerStates \ Ending
  BY <1>4, StandsIn
<1>5. CASE pc[c] \in {"idle", "backlog", "accepting"}
  BY <1>2, <1>5, StandsIn
<1> QED BY <1>1, <1>3, <1>4, <1>5

\* The others stand where they stood, and ask for what they asked.
LEMMA OthersStand ==
    ASSUME IInv, OneAccepted, NEW c \in Clients, NEW o \in Clients, o # c,
           pc'[o] = pc[o], want'[o] = want[o],
           listener' = listener \/ (pc[c] = "accepting" /\ listener.conn = c)
    PROVE  standing'[o] = standing[o] /\ asking'[o] = asking[o]
<1>1. (pc[o] = "accepting" /\ listener.at = "refuse")
        <=> (pc'[o] = "accepting" /\ listener'.at = "refuse")
  BY DEF OneAccepted
<1> QED BY <1>1 DEF standing, asking

LEMMA AreFunctions ==
    /\ standing = [o \in Clients |-> standing[o]]
    /\ asking = [o \in Clients |-> asking[o]]
BY DEF standing, asking

\* The sums of AdmissionLimits are those of the library.
\* So are its cardinalities.
LEMMA SameSize == Limits!Cardinality(Limits!Inside) = Cardinality(Limits!Inside)
BY DEF Limits!Cardinality, Cardinality

LEMMA SameSum == Limits!SumFunction(held) = SumFunction(held)
BY DEF Limits!SumFunction, Limits!SumFunctionOnSet, Limits!FoldFunctionOnSet,
       Limits!MapThenFoldSet, SumFunction, SumFunctionOnSet, FoldFunctionOnSet, MapThenFoldSet

\* A step of one worker, or of the listener for one client.
LEMMA StepOfOne ==
    ASSUME IInv, OneAccepted, NEW c \in Clients,
           \A o \in Clients \ {c} : pc'[o] = pc[o] /\ want'[o] = want[o],
           listener' = listener \/ (pc[c] = "accepting" /\ listener.conn = c)
    PROVE  /\ standing' = [standing EXCEPT ![c] = standing'[c]]
           /\ asking' = [asking EXCEPT ![c] = asking'[c]]
<1>1. \A o \in Clients \ {c} : standing'[o] = standing[o] /\ asking'[o] = asking[o]
  BY OthersStand
<1>2. /\ standing = [o \in Clients |-> standing[o]] /\ standing' = [o \in Clients |-> standing'[o]]
      /\ asking = [o \in Clients |-> asking[o]] /\ asking' = [o \in Clients |-> asking'[o]]
  BY DEF standing, asking
<1> QED BY <1>1, <1>2

-----------------------------------------------------------------------------
(* Every step is a step of the limits, or none. *)

LimitStep == [Limits!Next]_(Limits!absVars)

\* Steps the limits do not see.
LEMMA UnseenSteps ==
    ASSUME UNCHANGED <<standing, asking, held>> PROVE LimitStep
BY DEF LimitStep, Limits!absVars

\* The reader fails, or the handler returns.
LEMMA FinishStep ==
    ASSUME IInv, OneAccepted, NEW c \in Clients, UNCHANGED <<listener, held>>,
           pc[c] \in WorkerStates \ (Ending \cup {"reserve", "cas"}),
           \E where \in Ending : pc' = [pc EXCEPT ![c] = where],
           want' = want \/ want' = [want EXCEPT ![c] = 0]
    PROVE  LimitStep
<1>1. PICK where \in Ending : pc' = [pc EXCEPT ![c] = where]
  OBVIOUS
<1>2. \A o \in Clients \ {c} : pc'[o] = pc[o] /\ want'[o] = want[o]
  BY <1>1 DEF IInv, TypeOK
<1>3. pc'[c] = where
  BY <1>1 DEF IInv, TypeOK
<1>4. standing[c] = "in" /\ asking[c] = 0
  BY StandsIn
<1>5. standing'[c] = "leaving" /\ asking'[c] = 0
  BY <1>3, StandsIn DEF standing, asking, Ending
<1>6. standing' = [standing EXCEPT ![c] = "leaving"] /\ asking' = asking
  BY <1>2, <1>4, <1>5, StepOfOne DEF asking
<1>7. Limits!Finish(c)
  BY <1>4, <1>6 DEF Limits!Finish
<1> QED BY <1>7 DEF LimitStep, Limits!Next

\* The reader asks for bytes.
LEMMA AskStep ==
    ASSUME IInv, OneAccepted, NEW c \in Clients, UNCHANGED <<listener, held>>,
           pc[c] \in WorkerStates \ (Ending \cup {"reserve", "cas"}),
           pc' = [pc EXCEPT ![c] = "reserve"],
           NEW n \in BodySizes \cup ChunkSizes \cup {0}, want' = [want EXCEPT ![c] = n]
    PROVE  LimitStep
<1>1. /\ \A o \in Clients \ {c} : pc'[o] = pc[o] /\ want'[o] = want[o]
      /\ pc'[c] = "reserve" /\ want'[c] = n
  BY DEF IInv, TypeOK
<1>2. standing[c] = "in"
  BY StandsIn
<1>3. standing'[c] = "in" /\ asking'[c] = n
  BY <1>1 DEF standing, asking, Ending, WorkerStates
<1>4. standing' = standing /\ asking' = [asking EXCEPT ![c] = n]
  BY <1>1, <1>2, <1>3, StepOfOne, AreFunctions
<1>5. Limits!Ask(c)
  BY <1>2, <1>4 DEF Limits!Ask
<1> QED BY <1>5 DEF LimitStep, Limits!Next

\* The reader goes on, with what it asks for or with nothing.
LEMMA GoOnStep ==
    ASSUME IInv, OneAccepted, NEW c \in Clients, UNCHANGED <<listener, held>>,
           pc[c] \in WorkerStates, pc'[c] \in WorkerStates,
           pc[c] \in Ending <=> pc'[c] \in Ending,
           pc[c] \in {"reserve", "cas"} <=> pc'[c] \in {"reserve", "cas"},
           pc[c] \in {"reserve", "cas"} => want'[c] = want[c],
           \A o \in Clients \ {c} : pc'[o] = pc[o] /\ want'[o] = want[o]
    PROVE  LimitStep
<1>1. asking'[c] = asking[c]
  BY DEF asking
<1>2. CASE pc[c] \in Ending
  <2>1. standing[c] = "leaving"
    BY <1>2, StandsIn
  <2>2. standing'[c] = "leaving"
    <3>1. pc'[c] \in Ending
      BY <1>2
    <3> QED BY <3>1 DEF standing, Ending, WorkerStates
  <2> QED BY <2>1, <2>2, <1>1, StepOfOne, AreFunctions, UnseenSteps
<1>3. CASE pc[c] \notin Ending
  <2>1. standing[c] = "in"
    BY <1>3, StandsIn
  <2>2. standing'[c] = "in"
    <3>1. pc'[c] \in WorkerStates \ Ending
      BY <1>3
    <3> QED BY <3>1 DEF standing, Ending, WorkerStates
  <2> QED BY <2>1, <2>2, <1>1, StepOfOne, AreFunctions, UnseenSteps
<1> QED BY <1>2, <1>3

LEMMA OverloadStep ==
    ASSUME IInv, OneAccepted, NEW c \in Clients, UNCHANGED <<listener, held>>,
           pc[c] \in {"reserve", "cas"}, FailsWith(c, "503"),
           inFlight + want[c] > MaxInFlight
    PROVE  LimitStep
<1>1. /\ \A o \in Clients \ {c} : pc'[o] = pc[o] /\ want'[o] = want[o]
      /\ pc'[c] = "failed"
  BY DEF IInv, TypeOK, FailsWith
<1>2. standing[c] = "in" /\ asking[c] = want[c]
  BY StandsIn DEF Ending, WorkerStates
<1>3. standing'[c] = "leaving" /\ asking'[c] = 0
  BY <1>1 DEF standing, asking, Ending
<1>4. standing' = [standing EXCEPT ![c] = "leaving"] /\ asking' = [asking EXCEPT ![c] = 0]
  BY <1>1, <1>3, StepOfOne
<1>5. Limits!SumFunction(held) + asking[c] > MaxInFlight
  BY <1>2, BytesAreCounted, SameSum DEF BytesCounted
<1>6. Limits!Overload(c)
  BY <1>2, <1>4, <1>5 DEF Limits!Overload
<1> QED BY <1>6 DEF LimitStep, Limits!Next

LEMMA ConsiderStep ==
    ASSUME IInv, OneAccepted, NEW c \in Clients, UNCHANGED <<listener, held>>,
           pc[c] \in {"reserve", "cas"}, ConsiderReservation(c)
    PROVE  LimitStep
<1>1. CASE inFlight + want[c] > UsizeMax \/ inFlight + want[c] > MaxInFlight
  <2>1. inFlight + want[c] > MaxInFlight
    BY <1>1, ParametersAssumption DEF IInv, TypeOK
  <2> QED BY <1>1, <2>1, OverloadStep DEF ConsiderReservation
<1>2. CASE ~(inFlight + want[c] > UsizeMax \/ inFlight + want[c] > MaxInFlight)
  <2>1. pc' = [pc EXCEPT ![c] = "cas"] /\ want' = want
    BY <1>2 DEF ConsiderReservation
  <2> QED BY <2>1, GoOnStep DEF IInv, TypeOK, Ending, WorkerStates
<1> QED BY <1>1, <1>2

LEMMA ReserveCasStep ==
    ASSUME IInv, OneAccepted, NEW c \in Clients, ReserveCas(c) PROVE LimitStep
<1>1. pc[c] = "cas" /\ UNCHANGED listener /\ want[c] \in Nat /\ held[c] \in Nat /\ inFlight \in Nat
  BY DEF ReserveCas, IInv, TypeOK
<1>2. CASE inFlight = seen[c]
  <2>1. inFlight + want[c] <= MaxInFlight /\ held[c] <= inFlight
    <3>1. PICK f \in [0..N -> Nat] : PartialSums(f, held, inFlight)
      BY DEF IInv, BytesPartitioned
    <3>2. held[c] <= inFlight
      BY <1>1, <3>1, PartBelowTotal DEF IInv, TypeOK
    <3> QED BY <1>1, <1>2, <3>2 DEF IInv, ExchangesWithinBudget
  <2>2. /\ held' = [held EXCEPT ![c] = @ + want[c]]
        /\ pc' = [pc EXCEPT ![c] = AfterReservation(c)] /\ want' = want
    BY <1>1, <1>2, <2>1, ParametersAssumption DEF ReserveCas
  <2>3. /\ \A o \in Clients \ {c} : pc'[o] = pc[o] /\ want'[o] = want[o]
        /\ pc'[c] \in {"body", "chunk", "data"}
    BY <2>2 DEF IInv, TypeOK, AfterReservation
  <2>4. standing[c] = "in" /\ asking[c] = want[c]
    BY <1>1, StandsIn DEF Ending, WorkerStates
  <2>5. standing'[c] = "in" /\ asking'[c] = 0
    BY <2>3 DEF standing, asking, Ending, WorkerStates
  <2>6. standing' = standing /\ asking' = [asking EXCEPT ![c] = 0]
    BY <1>1, <2>3, <2>4, <2>5, StepOfOne, AreFunctions
  <2>7. Limits!SumFunction(held) + asking[c] <= MaxInFlight
    BY <2>1, <2>4, BytesAreCounted, SameSum DEF BytesCounted
  <2>8. Limits!Grant(c)
    BY <2>2, <2>4, <2>6, <2>7 DEF Limits!Grant
  <2> QED BY <2>8 DEF LimitStep, Limits!Next
<1>3. CASE inFlight # seen[c]
  BY <1>1, <1>3, ConsiderStep DEF ReserveCas
<1> QED BY <1>2, <1>3

\* The guard of the body is dropped.
LEMMA DropStep ==
    ASSUME IInv, OneAccepted, NEW c \in Clients, DropBytes(c) \/ DropRoutedBytes(c)
    PROVE  LimitStep
<1>1. /\ UNCHANGED <<listener, want>> /\ held' = [held EXCEPT ![c] = 0]
      /\ pc[c] \in Ending
      /\ \E where \in Ending : pc' = [pc EXCEPT ![c] = where]
  BY DEF DropBytes, DropRoutedBytes, Ending
<1>2. /\ \A o \in Clients \ {c} : pc'[o] = pc[o] /\ want'[o] = want[o]
      /\ pc'[c] \in Ending
  BY <1>1 DEF IInv, TypeOK
<1>3. standing[c] = "leaving" /\ asking[c] = 0
  BY <1>1, StandsIn DEF Ending
<1>4. standing'[c] = "leaving" /\ asking'[c] = 0
  BY <1>2 DEF standing, asking, Ending
<1>5. standing' = standing /\ asking' = asking
  BY <1>1, <1>2, <1>3, <1>4, StepOfOne DEF standing, asking
<1>6. Limits!GiveBack(c)
  BY <1>1, <1>3, <1>5 DEF Limits!GiveBack
<1> QED BY <1>6 DEF LimitStep, Limits!Next

LEMMA CloseStep ==
    ASSUME IInv, OneAccepted, NEW c \in Clients, CloseConnection(c) PROVE LimitStep
<1>1. /\ UNCHANGED <<listener, want, held>> /\ pc[c] = "closing" /\ held[c] = 0
      /\ pc' = [pc EXCEPT ![c] = "idle"]
  BY DEF CloseConnection, IInv, HeldOnlyForBody
<1>2. /\ \A o \in Clients \ {c} : pc'[o] = pc[o] /\ want'[o] = want[o]
      /\ pc'[c] = "idle"
  BY <1>1 DEF IInv, TypeOK
<1>3. standing[c] = "leaving" /\ asking[c] = 0
  BY <1>1, StandsIn DEF Ending
<1>4. standing'[c] = "out" /\ asking'[c] = 0
  BY <1>2 DEF standing, asking, Ending, WorkerStates
<1>5. standing' = [standing EXCEPT ![c] = "out"] /\ asking' = asking
  BY <1>1, <1>2, <1>3, <1>4, StepOfOne DEF asking
<1>6. Limits!Leave(c)
  BY <1>1, <1>3, <1>5 DEF Limits!Leave
<1> QED BY <1>6 DEF LimitStep, Limits!Next

LEMMA ReaderSteps ==
    ASSUME IInv, OneAccepted, NEW c \in Clients,
           \/ ReadSizedHead(c) \/ ReadChunkedHead(c) \/ ReadMalformed(c)
           \/ ReadFails(c) \/ ReserveLoad(c) \/ ReadBody(c) \/ ReadChunkHeader(c)
           \/ ReadChunkData(c) \/ RejectAndDrain(c) \/ RouteReturns(c)
    PROVE  LimitStep
<1>1. UNCHANGED <<listener, held>>
  BY DEF ReadSizedHead, ReadChunkedHead, ReadMalformed, ReadFails, ReserveLoad, ReadBody,
         ReadChunkHeader, ReadChunkData, RejectAndDrain, RouteReturns
<1>2. ASSUME NEW status, FailsWith(c, status), pc[c] \in {"head", "body", "chunk", "data"}
      PROVE  LimitStep
  BY <1>1, <1>2, FinishStep DEF FailsWith, Ending, WorkerStates
<1>3. CASE ReadMalformed(c) \/ ReadFails(c)
  BY <1>2, <1>3 DEF ReadMalformed, ReadFails
<1>4. CASE RouteReturns(c)
  BY <1>1, <1>4, FinishStep DEF RouteReturns, Ending, WorkerStates
<1>5. CASE ReserveLoad(c)
  BY <1>1, <1>5, ConsiderStep DEF ReserveLoad
<1>6. CASE ReadSizedHead(c)
  <2>1. PICK n \in BodySizes :
          \/ FailsWith(c, "413")
          \/ want' = [want EXCEPT ![c] = n] /\ pc' = [pc EXCEPT ![c] = "reserve"]
    BY <1>6 DEF ReadSizedHead
  <2>2. pc[c] = "head"
    BY <1>6 DEF ReadSizedHead
  <2> QED BY <1>1, <1>2, <2>1, <2>2, AskStep DEF Ending, WorkerStates
<1>7. CASE ReadChunkedHead(c)
  <2>1. pc[c] = "head" /\ want' = [want EXCEPT ![c] = 0] /\ pc' = [pc EXCEPT ![c] = "reserve"]
    BY <1>7 DEF ReadChunkedHead, IInv, TypeOK, HeldOnlyForBody
  <2> QED BY <1>1, <2>1, AskStep DEF Ending, WorkerStates
<1>8. ASSUME pc[c] \in WorkerStates \ {"reserve", "cas"},
             NEW where \in WorkerStates \ {"reserve", "cas"},
             pc[c] \in Ending <=> where \in Ending, pc' = [pc EXCEPT ![c] = where],
             want' = want \/ want' = [want EXCEPT ![c] = 0]
      PROVE  LimitStep
  <2>1. pc'[c] = where /\ \A o \in Clients \ {c} : pc'[o] = pc[o] /\ want'[o] = want[o]
    BY <1>8 DEF IInv, TypeOK
  <2> QED BY <1>1, <1>8, <2>1, GoOnStep
<1>9. CASE ReadBody(c) \/ RejectAndDrain(c)
  BY <1>8, <1>9 DEF ReadBody, ReadComplete, RejectAndDrain, Ending, WorkerStates
<1>10. CASE ReadChunkHeader(c)
  <2>1. PICK n \in ChunkSizes :
          \/ ReadComplete(c)
          \/ FailsWith(c, "413")
          \/ want' = [want EXCEPT ![c] = n] /\ pc' = [pc EXCEPT ![c] = "reserve"]
    BY <1>10 DEF ReadChunkHeader
  <2>2. pc[c] = "chunk"
    BY <1>10 DEF ReadChunkHeader
  <2>3. CASE ReadComplete(c)
    BY <1>8, <2>2, <2>3 DEF ReadComplete, Ending, WorkerStates
  <2>4. CASE FailsWith(c, "413")
    BY <1>2, <2>2, <2>4
  <2>5. CASE want' = [want EXCEPT ![c] = n] /\ pc' = [pc EXCEPT ![c] = "reserve"]
    BY <1>1, <2>2, <2>5, AskStep DEF Ending, WorkerStates
  <2> QED BY <2>1, <2>3, <2>4, <2>5
<1>11. CASE ReadChunkData(c)
  <2>1. /\ pc[c] = "data"
        /\ \/ FailsWith(c, "413")
           \/ pc' = [pc EXCEPT ![c] = "chunk"] /\ want' = [want EXCEPT ![c] = 0]
    BY <1>11 DEF ReadChunkData
  <2>2. CASE FailsWith(c, "413")
    BY <1>2, <2>1, <2>2
  <2>3. CASE pc' = [pc EXCEPT ![c] = "chunk"] /\ want' = [want EXCEPT ![c] = 0]
    BY <1>8, <2>1, <2>3 DEF Ending, WorkerStates
  <2> QED BY <2>1, <2>2, <2>3
<1> QED BY <1>3, <1>4, <1>5, <1>6, <1>7, <1>9, <1>10, <1>11

-----------------------------------------------------------------------------
(* The listener, and every step. *)

LEMMA ListenerUnseen ==
    ASSUME IInv, OneAccepted, NEW c \in Clients, Connect(c) \/ Accept(c)
    PROVE  LimitStep
<1>1. /\ pc[c] \in {"idle", "backlog"} /\ UNCHANGED <<want, held>>
      /\ pc'[c] = "backlog" \/ (pc'[c] = "accepting" /\ listener'.at # "refuse")
      /\ \A o \in Clients \ {c} : pc'[o] = pc[o]
  BY DEF Connect, Accept, IInv, TypeOK
<1>2. standing'[c] = "out" /\ asking'[c] = 0
  BY <1>1 DEF standing, asking, WorkerStates, Ending
<1>3. ASSUME NEW o \in Clients \ {c}
      PROVE  standing'[o] = standing[o] /\ asking'[o] = asking[o]
  <2>1. (pc[o] = "accepting" /\ listener.at = "refuse")
          <=> (pc'[o] = "accepting" /\ listener'.at = "refuse")
    BY <1>1 DEF Connect, Accept, OneAccepted, IInv, TypeOK
  <2> QED BY <1>1, <2>1 DEF standing, asking
<1>4. standing[c] = "out" /\ asking[c] = 0
  BY <1>1, StandsIn
<1>5. \A o \in Clients : standing'[o] = standing[o] /\ asking'[o] = asking[o]
  BY <1>2, <1>3, <1>4
<1>6. standing' = standing /\ asking' = asking
  BY <1>5 DEF standing, asking
<1> QED BY <1>1, <1>6, UnseenSteps

\* A client is considered: admitted later, or refused with the house full.
LEMMA AdmissionStep ==
    ASSUME IInv, OneAccepted, listener.at \in {"load", "cas"}, ConsiderAdmission,
           UNCHANGED <<pc, want, held>>
    PROVE  LimitStep
<1> DEFINE c == listener.conn
<1>1. c \in Clients /\ pc[c] = "accepting" /\ standing[c] = "out" /\ asking[c] = 0
  BY StandsIn DEF IInv, TypeOK, ListenerCoherent
<1> HIDE DEF c
<1>2. asking' = asking
  BY DEF asking
<1>3. CASE active >= MaxConnections
  <2>1. standing'[c] = "refused"
    BY <1>1, <1>3 DEF ConsiderAdmission, standing, WorkerStates, Ending, IInv, TypeOK
  <2>2. standing' = [standing EXCEPT ![c] = "refused"]
    BY <1>1, <2>1, StepOfOne DEF c
  <2>3. Limits!Cardinality(Limits!Inside) = MaxConnections
    BY <1>3, InsideGuarded, SameSize, ParametersAssumption
    DEF IInv, TypeOK, ConnectionsCounted, Bounded
  <2>4. Limits!Refuse(c)
    BY <1>1, <1>2, <2>2, <2>3 DEF Limits!Refuse
  <2> QED BY <1>1, <2>4 DEF LimitStep, Limits!Next
<1>4. CASE ~(active >= MaxConnections)
  <2>1. standing'[c] = "out"
    BY <1>1, <1>4 DEF ConsiderAdmission, standing, WorkerStates, Ending, IInv, TypeOK
  <2>2. standing' = standing
    BY <1>1, <2>1, StepOfOne, AreFunctions DEF c
  <2> QED BY <1>2, <2>2, UnseenSteps
<1> QED BY <1>3, <1>4

LEMMA ListenerSteps ==
    ASSUME IInv, OneAccepted, AdmitLoad \/ AdmitCas \/ Refuse
    PROVE  LimitStep
<1> DEFINE c == listener.conn
<1>1. c \in Clients /\ pc[c] = "accepting" /\ asking[c] = 0 /\ UNCHANGED <<want, held>>
      /\ standing[c] = IF listener.at = "refuse" THEN "refused" ELSE "out"
  BY StandsIn DEF IInv, TypeOK, ListenerCoherent, AdmitLoad, AdmitCas, Refuse
<1> HIDE DEF c
<1>2. ASSUME NEW where \in {"head", "idle"}, pc' = [pc EXCEPT ![c] = where]
      PROVE  /\ standing' = [standing EXCEPT ![c] = IF where = "head" THEN "in" ELSE "out"]
             /\ asking' = asking
  <2>1. pc'[c] = where /\ \A o \in Clients \ {c} : pc'[o] = pc[o] /\ want'[o] = want[o]
    BY <1>1, <1>2 DEF IInv, TypeOK
  <2>2. asking'[c] = 0
    BY <1>1, <2>1 DEF asking
  <2>3. standing'[c] = IF where = "head" THEN "in" ELSE "out"
    BY <1>1, <2>1 DEF standing, WorkerStates, Ending
  <2> QED BY <1>1, <2>1, <2>2, <2>3, StepOfOne, AreFunctions DEF c
<1>3. CASE AdmitLoad
  BY <1>3, AdmissionStep DEF AdmitLoad
<1>4. CASE AdmitCas /\ active # listener.seen
  BY <1>4, AdmissionStep DEF AdmitCas
<1>5. CASE AdmitCas /\ active = listener.seen
  <2>1. pc' = [pc EXCEPT ![c] = "head"] /\ active < MaxConnections /\ listener.at = "cas"
    BY <1>5 DEF AdmitCas, IInv, ListenerCoherent, c
  <2>2. Limits!Cardinality(Limits!Inside) < MaxConnections
    BY <2>1, InsideGuarded, SameSize DEF IInv, ConnectionsCounted
  <2>3. Limits!Admit(c)
    BY <1>1, <1>2, <2>1, <2>2 DEF Limits!Admit
  <2> QED BY <1>1, <2>3 DEF LimitStep, Limits!Next
<1>6. CASE Refuse
  <2>1. Limits!ForgetRefused(c)
    BY <1>1, <1>2, <1>6 DEF Limits!ForgetRefused, Refuse, c
  <2> QED BY <1>1, <2>1 DEF LimitStep, Limits!Next
<1> QED BY <1>3, <1>4, <1>5, <1>6

LEMMA EveryStepLimited == IInv /\ OneAccepted /\ [Next]_vars => LimitStep
<1> SUFFICES ASSUME IInv, OneAccepted, [Next]_vars PROVE LimitStep
  OBVIOUS
<1>1. CASE UNCHANGED vars
  BY <1>1, UnseenSteps DEF vars, standing, asking
<1>2. ASSUME NEW c \in Clients, DropBytes(c) \/ DropRoutedBytes(c) PROVE LimitStep
  BY <1>2, DropStep
<1>3. ASSUME NEW c \in Clients,
             \/ ReadSizedHead(c) \/ ReadChunkedHead(c) \/ ReadMalformed(c)
             \/ ReadFails(c) \/ ReserveLoad(c) \/ ReadBody(c) \/ ReadChunkHeader(c)
             \/ ReadChunkData(c) \/ RejectAndDrain(c) \/ RouteReturns(c)
      PROVE  LimitStep
  BY <1>3, ReaderSteps
<1> QED BY <1>1, <1>2, <1>3, ListenerSteps, ListenerUnseen, ReserveCasStep, CloseStep DEF Next

LEMMA InitLimited == Init => OneAccepted /\ Limits!Init
<1> SUFFICES ASSUME Init PROVE OneAccepted /\ Limits!Init
  OBVIOUS
<1>1. standing = [c \in Clients |-> "out"] /\ asking = [c \in Clients |-> 0]
  BY DEF Init, standing, asking, WorkerStates, Ending
<1> QED BY <1>1 DEF Init, OneAccepted, Limits!Init

\* No early return of the reader keeps or loses a byte: the budget counter is
\* the sum of what the guards hold, after every step.
THEOREM BudgetIsExact == Spec => []BytesCounted
  BY InductiveInvariant, BytesAreCounted, PTL

\* Admission implements AdmissionLimits: a client is admitted, granted bytes
\* or turned away in one step, at a moment when the limits say so.
THEOREM LimitsAreAtomic == Spec => ImplementsLimits
<1>1. IInv /\ OneAccepted /\ [Next]_vars => [Limits!Next]_(Limits!absVars)
  BY EveryStepLimited DEF LimitStep
<1> QED BY <1>1, InductiveInvariant, InitLimited, OneAcceptedKept, PTL
        DEF Spec, ImplementsLimits, Limits!Spec
=============================================================================
