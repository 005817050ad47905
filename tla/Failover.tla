------------------------------ MODULE Failover ------------------------------
(***************************************************************************)
(* Jev account fail-over: the account pool of jev/accounts.rs, the plan of *)
(* candidates jev/failover.rs draws from it, and the attempts of           *)
(* execute_http_failover_with_callback in http_provider.rs.                *)
(*                                                                         *)
(* Every gateway thread plans in steps, each under the locks the code      *)
(* takes: it drops the marks whose cool-down is over (Begin), splits the   *)
(* direct accounts (SplitDirect), takes the OpenRouter accounts (TakeOr)   *)
(* and reads the mark of each of them on its own (Classify), then rotates  *)
(* the tiers (Assemble).  Other threads mark and clear accounts meanwhile. *)
(* A credential stands for its account: labels are left out, and so are    *)
(* the delays between attempts.  When the shared pool is empty, a request  *)
(* that brings its own keys gets a pool of its own, dropped at its end.    *)
(***************************************************************************)
EXTENDS Integers, Sequences, Functions

CONSTANTS
    Workers,       \* gateway threads that serve Jev requests
    Shared,        \* the pool of the configuration store
    Direct,        \* credentials of direct accounts
    ApiKeys,       \* OpenRouter API keys
    Cookies,       \* OpenRouter browser sessions
    NoKey,         \* a request without an OpenRouter key of its own
    InitAccounts,  \* the lists of direct accounts the process may start with
    InitOr,        \* the OpenRouter accounts it starts with
    Addable,       \* what the dashboard may add
    ConfigKey, ConfigCookie,  \* jev_openrouter_api_key, _cookie: <<>> or one
    RequestKeys,   \* the keys a request brings for an empty pool
    InboundKeys,   \* the OpenRouter keys requests carry
    OrEnabled,     \* jev_openrouter_enabled
    Models,        \* effective_fallback_models
    Default,       \* the configured decision model
    UpstreamStatuses,
    Lost,          \* a transport error in place of a status
    Lap,           \* counters are kept modulo Lap
    MaxRequests    \* bound on requests

Creds == Direct \cup ApiKeys \cup Cookies
Marks == {"none", "cooling", "lapsed"}
Tiers == {"direct", "key", "browser", "model"}
Pools == Workers \cup {Shared}

\* A counter modulo Lap and the counter itself name the same rotation.
ASSUME FailoverAssumption ==
    /\ Shared \notin Workers
    /\ NoKey \notin Creds
    /\ Models \in Seq(Range(Models)) \ {<<>>} /\ Default \notin Range(Models)
    /\ InboundKeys \subseteq ApiKeys /\ Addable \subseteq Creds
    /\ InitAccounts \cup {RequestKeys} \subseteq Seq(Direct)
    /\ InitOr \in Seq(ApiKeys \cup Cookies)
    /\ ConfigKey \in Seq(ApiKeys) /\ ConfigCookie \in Seq(Cookies)
    /\ OrEnabled \in BOOLEAN
    /\ Lap \in Nat \ {0} /\ MaxRequests \in Nat
    /\ UpstreamStatuses \subseteq 200..599 /\ Lost \notin UpstreamStatuses

VARIABLES
    pool,      \* JevAccountPool: the shared one and those of requests
    req,       \* the threads and their locals
    started,   \* requests so far
    owed,      \* history: accounts a thread found at its start and has not tried
    steady,    \* history: accounts unmarked, and marked, since a plan began
    led        \* history: who went first, how often, for one list of accounts

failoverVars == <<pool, req, started, owed, steady, led>>
history == <<owed, steady, led>>

Idle == [pc |-> "idle", pool |-> Shared, inbound |-> NoKey, fine |-> <<>>,
         spent |-> <<>>, todo |-> <<>>, keys |-> <<>>, cookies |-> <<>>,
         spentOr |-> <<>>, plan |-> <<>>, status |-> 0]

\* new_with_all
NewPool(accounts, ors) ==
    [accounts |-> accounts, ors |-> ors,
     exhausted |-> [c \in Creds |-> "none"], turn |-> [t \in Tiers |-> 0]]

NothingSteady == [ok |-> {}, out |-> {}]

FailoverInit ==
    /\ \E a \in InitAccounts :
        pool = [p \in Pools |-> IF p = Shared THEN NewPool(a, InitOr)
                                              ELSE NewPool(<<>>, <<>>)]
    /\ req = [w \in Workers |-> Idle]
    /\ started = 0
    /\ owed = [w \in Workers |-> {}]
    /\ steady = [w \in Workers |-> NothingSteady]
    /\ led = [list |-> <<>>, count |-> <<>>]

-----------------------------------------------------------------------------
(* Candidates. *)

\* Rust's (offset + step) % len over a list.
Rotate(s, turn) == [i \in 1..Len(s) |-> s[((turn + i - 1) % Len(s)) + 1]]

\* Mutant: the counter is read and never advanced.
AdvanceNot(turn, tier, s) == turn

\* fetch_add on a counter, when the tier it rotates has anyone in it
Advance(turn, tier, s) ==
    IF s = <<>> THEN turn ELSE [turn EXCEPT ![tier] = (@ + 1) % Lap]

\* rotated_fallback_models counts only when there is something to rotate
AdvanceModel(turn) == Advance(turn, "model", Tail(Models))

Candidates(creds, model) ==
    [i \in 1..Len(creds) |-> [cred |-> creds[i], model |-> model]]

\* Tier 3: for every model in turn, every key
Alternatives(keys, models) ==
    LET n == Len(keys)
    IN [i \in 1..(n * Len(models)) |->
            [cred |-> keys[((i - 1) % n) + 1], model |-> models[((i - 1) \div n) + 1]]]

\* Mutant: marked accounts are left out.
TargetsUnmarked(direct, keys, models, cookies, spent, spentOr) ==
    Candidates(direct, Default) \o Candidates(keys, Default)
        \o Alternatives(keys, models) \o Candidates(cookies, Default)

\* candidate_failover_targets: the order of the tiers
Targets(direct, keys, models, cookies, spent, spentOr) ==
    Candidates(direct, Default) \o Candidates(keys, Default)
        \o Alternatives(keys, models) \o Candidates(cookies, Default)
        \o Candidates(spent, Default) \o Candidates(spentOr, Default)

\* The elements of s that are in S, in their order.
Among(s, S) ==
    LET kept[i \in 0..Len(s)] ==
            IF i = 0 THEN <<>>
            ELSE IF s[i] \in S THEN Append(kept[i - 1], s[i]) ELSE kept[i - 1]
    IN kept[Len(s)]

\* The pool's OpenRouter accounts with the configured key and cookie around them.
AllOr(p) ==
    LET new == Creds \ Range(p.ors)
    IN IF OrEnabled THEN Among(ConfigKey, new) \o p.ors \o Among(ConfigCookie, new) ELSE <<>>

\* Mutant: marks stay in the map when their cool-down is over.
PrunedNot(exhausted) == exhausted

\* ex.retain(|_, expiry| *expiry > now)
Pruned(exhausted) ==
    [c \in Creds |-> IF exhausted[c] = "lapsed" THEN "none" ELSE exhausted[c]]

\* contains_key: the expiry is not looked at again
Known(p) == {c \in Creds : p.exhausted[c] # "none"}

AccountRetryable == {401, 402, 403, 429}
TransientRetryable == {499, 502, 503, 504}
Retryable(status) == status \in AccountRetryable \cup TransientRetryable

\* History of the rotation: leads since the list changed, less the full rounds.
Led(list, first) ==
    LET base == IF led.list = list THEN led.count ELSE [c \in Range(list) |-> 0]
        count == [base EXCEPT ![first] = @ + 1]
    IN [list |-> list,
        count |-> IF \A c \in DOMAIN count : count[c] > 0
                  THEN [c \in DOMAIN count |-> count[c] - 1] ELSE count]

-----------------------------------------------------------------------------
(* Planning. *)

Planning(w) == req[w].pc \in {"begun", "split", "classifying"}

\* The keys of a request matter only while the shared pool has no account.
PoolsFor(w) ==
    IF pool[Shared].accounts = <<>> /\ pool[Shared].ors = <<>> /\ RequestKeys # <<>>
    THEN {w, Shared} ELSE {Shared}

\* handle_jev_ai, up to the retain in candidate_failover_targets
Begin(w) ==
    /\ req[w].pc \in {"idle", "answered"}
    /\ started < MaxRequests
    /\ \E p \in PoolsFor(w), k \in InboundKeys \cup {NoKey} :
        LET own == IF p = w THEN NewPool(RequestKeys, <<>>) ELSE NewPool(<<>>, <<>>)
            opened == [pool EXCEPT ![w] = own]
            left == Pruned(opened[p].exhausted)
        IN /\ pool' = [opened EXCEPT ![p].exhausted = left]
           /\ req' = [req EXCEPT ![w] = [Idle EXCEPT !.pc = "begun", !.pool = p,
                                                     !.inbound = k]]
           /\ owed' = [owed EXCEPT ![w] = Range(opened[p].accounts)
                                              \cup Range(AllOr(opened[p]))]
           /\ steady' = [steady EXCEPT ![w] =
                [ok |-> {c \in Creds : opened[p].exhausted[c] # "cooling"},
                 out |-> {c \in Creds : opened[p].exhausted[c] = "cooling"}]]
    /\ started' = started + 1
    /\ UNCHANGED led

\* direct_candidates: the split is one read of the map
SplitDirect(w) ==
    LET p == pool[req[w].pool]
        fine == Among(p.accounts, Creds \ Known(p))
        spent == Among(p.accounts, Known(p))
    IN /\ req[w].pc = "begun"
       /\ req' = [req EXCEPT ![w] = [@ EXCEPT !.pc = "split", !.spent = spent,
                                     !.fine = Rotate(fine, p.turn["direct"])]]
       /\ pool' = [pool EXCEPT ![req[w].pool].turn = Advance(@, "direct", fine)]
       /\ led' = IF req[w].pool = Shared /\ fine # <<>>
                 THEN Led(fine, Head(Rotate(fine, p.turn["direct"]))) ELSE led
       /\ UNCHANGED <<started, owed, steady>>

\* openrouter_candidates, lines 91-118; or_guard is held until Assemble
TakeOr(w) ==
    /\ req[w].pc = "split"
    /\ req' = [req EXCEPT ![w] = [@ EXCEPT !.pc = "classifying",
                                  !.todo = AllOr(pool[req[w].pool])]]
    /\ UNCHANGED <<pool, started, history>>

\* The loop of openrouter_candidates: each account reads the map anew.
Classify(w) ==
    /\ req[w].pc = "classifying" /\ req[w].todo # <<>>
    /\ LET c == Head(req[w].todo)
           next == [req[w] EXCEPT !.todo = Tail(@)]
       IN req' = [req EXCEPT ![w] =
            CASE c \in Known(pool[req[w].pool]) -> [next EXCEPT !.spentOr = Append(@, c)]
              [] c \in ApiKeys \ Known(pool[req[w].pool])
                    -> [next EXCEPT !.keys = Append(@, c)]
              [] OTHER -> [next EXCEPT !.cookies = Append(@, c)]]
    /\ UNCHANGED <<pool, started, history>>

\* handle_jev_ai, lines 158-166: nobody to ask
Planned(r, plan) ==
    IF plan = <<>> THEN [Idle EXCEPT !.pc = "answered", !.status = 401]
                   ELSE [Idle EXCEPT !.pc = "trying", !.pool = r.pool, !.plan = plan]

\* The rest of openrouter_candidates and the list of targets.
Assemble(w) ==
    LET r == req[w]
        t0 == pool[r.pool].turn
        t1 == Advance(t0, "key", r.keys)
        t2 == IF r.keys = <<>> THEN t1 ELSE AdvanceModel(t1)
        plan == Targets(r.fine, Rotate(r.keys, t0["key"]), Rotate(Models, t0["model"]),
                        Rotate(r.cookies, t0["browser"]), r.spent, r.spentOr)
    IN /\ r.pc = "classifying" /\ r.todo = <<>>
       /\ pool' = [pool EXCEPT ![r.pool].turn = Advance(t2, "browser", r.cookies)]
       /\ req' = [req EXCEPT ![w] =
            IF r.inbound = NoKey THEN Planned(r, plan)
            ELSE [Idle EXCEPT !.pc = "injecting", !.pool = r.pool,
                              !.inbound = r.inbound, !.plan = plan]]
       /\ steady' = [steady EXCEPT ![w] = NothingSteady]
       /\ UNCHANGED <<started, owed, led>>

\* inject_inbound_or_candidates: the key of the request goes before everyone,
\* and the models are rotated once more
Inject(w) ==
    LET r == req[w]
        turn == pool[r.pool].turn
        own == Candidates(<<r.inbound>>, Default)
                 \o Alternatives(<<r.inbound>>, Rotate(Models, turn["model"]))
    IN /\ r.pc = "injecting"
       /\ pool' = [pool EXCEPT ![r.pool].turn = AdvanceModel(turn)]
       /\ req' = [req EXCEPT ![w] = Planned(r, own \o r.plan)]
       /\ UNCHANGED <<started, history>>

-----------------------------------------------------------------------------
(* Attempts. *)

\* The callback of handle_jev_ai: mark_credit_exhausted, clear_credit_exhausted
MarkAfter(mark, reply) ==
    CASE reply = 402 -> "cooling"
      [] reply = 200 -> "none"
      [] OTHER -> mark

\* History: a change of c's mark in pool p ends what was steady about it.
Steadied(p, c, mark) ==
    [v \in Workers |->
        IF req[v].pool # p THEN steady[v]
        ELSE [ok |-> steady[v].ok \ (IF mark = "cooling" THEN {c} ELSE {}),
              out |-> steady[v].out \ (IF mark = "cooling" THEN {} ELSE {c})]]

TriesNext(r, reply) ==
    /\ reply = Lost \/ Retryable(reply)
    /\ Len(r.plan) > 1

\* Mutant: a lost connection leaves no status to answer with.
AnswerNone(reply) == IF reply = Lost THEN 0 ELSE reply

\* A lost connection to the last candidate is answered 502.  The status is the
\* one the handler returns: when the body of the reply cannot be read then, the
\* client is sent a 502 in its place, and no other account is tried.
AnswerFor(reply) == IF reply = Lost THEN 502 ELSE reply

\* One pass of the loop in execute_http_failover_with_callback.
Attempt(w) ==
    /\ req[w].pc = "trying"
    /\ \E reply \in UpstreamStatuses \cup {Lost} :
        LET r == req[w]
            c == Head(r.plan).cred
            mark == MarkAfter(pool[r.pool].exhausted[c], reply)
            noted == [pool EXCEPT ![r.pool].exhausted[c] = mark]
        IN /\ steady' = Steadied(r.pool, c, mark)
           /\ IF TriesNext(r, reply)
              THEN /\ req' = [req EXCEPT ![w].plan = Tail(@)]
                   /\ pool' = noted
              ELSE /\ req' = [req EXCEPT ![w] = [Idle EXCEPT !.pc = "answered",
                                                 !.status = AnswerFor(reply)]]
                   /\ pool' = [noted EXCEPT ![w] = NewPool(<<>>, <<>>)]
    /\ owed' = [owed EXCEPT ![w] =
         IF Head(req[w].plan).model = Default THEN @ \ {Head(req[w].plan).cred} ELSE @]
    /\ UNCHANGED <<started, led>>

-----------------------------------------------------------------------------
(* The other users of the pool. *)

\* handle_jev_models_catalog: next_account rotates over the marked ones too.
Catalog ==
    LET p == pool[Shared]
    IN /\ started < MaxRequests /\ started' = started + 1
       /\ p.accounts # <<>>
       /\ pool' = [pool EXCEPT ![Shared].turn = Advance(@, "direct", p.accounts)]
       /\ led' = Led(p.accounts, Head(Rotate(p.accounts, p.turn["direct"])))
       /\ UNCHANGED <<req, owed, steady>>

\* add_account_entries: a known key only gets its new label
AddAccount(c) ==
    /\ c \in (Direct \cap Addable) \ Range(pool[Shared].accounts)
    /\ pool' = [pool EXCEPT ![Shared].accounts = Append(@, c)]
    /\ UNCHANGED <<req, started, history>>

\* add_openrouter_typed_entries waits for the readers of the list
AddOr(c) ==
    /\ c \in (Addable \ Direct) \ Range(pool[Shared].ors)
    /\ \A w \in Workers : req[w].pool = Shared => req[w].pc # "classifying"
    /\ pool' = [pool EXCEPT ![Shared].ors = Append(@, c)]
    /\ UNCHANGED <<req, started, history>>

\* The cool-down of a mark ends.  Marks may end in any order here.
Lapse(p, c) ==
    /\ pool[p].exhausted[c] = "cooling"
    /\ pool' = [pool EXCEPT ![p].exhausted[c] = "lapsed"]
    /\ steady' = Steadied(p, c, "lapsed")
    /\ UNCHANGED <<req, started, owed, led>>

Serve(w) == SplitDirect(w) \/ TakeOr(w) \/ Classify(w) \/ Assemble(w)
               \/ Inject(w) \/ Attempt(w)

FailoverNext ==
    \/ \E w \in Workers : Begin(w) \/ Serve(w)
    \/ Catalog
    \/ \E c \in Creds : AddAccount(c) \/ AddOr(c)
    \/ \E p \in Pools, c \in Creds : Lapse(p, c)

FailoverSpec == FailoverInit /\ [][FailoverNext]_failoverVars

-----------------------------------------------------------------------------
(* Properties. *)

\* Rotations stay within their counters, a thread has a plan exactly while it
\* tries one, and whoever is owed an attempt is an account.
TypeOK ==
    /\ \A p \in Pools :
        /\ pool[p].exhausted \in [Creds -> Marks]
        /\ pool[p].turn \in [Tiers -> 0..(Lap - 1)]
        /\ Range(pool[p].accounts) \subseteq Direct
        /\ Range(pool[p].ors) \subseteq ApiKeys \cup Cookies
    /\ \A w \in Workers :
        /\ req[w].pc \in {"idle", "begun", "split", "classifying", "injecting",
                          "trying", "answered"}
        /\ req[w].pool \in {w, Shared}
        /\ req[w].pc = "trying" => req[w].plan # <<>>
        /\ req[w].pc = "answered" <=> req[w].status # 0
        /\ owed[w] \subseteq Creds
    /\ started \in 0..MaxRequests

\* JEV_INTEGRATION.md section 5: a client is told of a refusal another account
\* could have helped with (or of a lost connection) only after every account the
\* pool held when its request began was asked with the configured model, however
\* the marks and the pool changed while the plan was drawn up.
NoAccountLeftUntried ==
    \A w \in Workers :
        req[w].pc = "answered" /\ Retryable(req[w].status) => owed[w] = {}

Ordered(plan, s) ==
    \A i, j \in 1..Len(plan) :
        i < j /\ plan[i].cred \in s.out => plan[j].cred \notin s.ok

\* CONFIGURATION.md: an account that answered 402 is demoted for its cool-down,
\* and only for that.  In no plan does an account that was marked all through
\* the planning go before one that was not: not when the marks change under the
\* planner, nor when a cool-down has just ended.
ExhaustedLast ==
    [][\A w \in Workers : req[w].pc = "classifying" /\ req'[w].pc # "classifying"
            => Ordered(req'[w].plan, steady[w])]_failoverVars

\* JEV_INTEGRATION.md: "Distributes requests evenly across all configured
\* accounts".  As long as the accounts to choose from stay the same, no account
\* goes first twice more often than another, whichever threads draw the turns
\* and for which of the two kinds of request.
EvenRotation ==
    \A a, b \in DOMAIN led.count : led.count[a] <= led.count[b] + 1
=============================================================================
