---------------------------- MODULE RoutingProofs ----------------------------
(***************************************************************************)
(* Proofs about Routing, for any manifests, requests and connections, and  *)
(* about Failover, for any accounts, lists, threads and statuses.          *)
(*                                                                         *)
(* Namespaces stay apart because each one is checked, under the write      *)
(* lock, against all the others registered at that moment, and nothing     *)
(* else writes a namespace.  Routing fails closed because a connection     *)
(* answers from what it copied at the match, and everything enabled since  *)
(* it arrived stays recorded, whatever the registry does in between.       *)
(*                                                                         *)
(* No account is left untried because whoever a request owes an attempt    *)
(* is, at every stage, in one of the lists the stage goes on with: the     *)
(* pool, the locals of the planner, the plan.  Marked accounts go last     *)
(* because an account marked all along cannot have been put in a list of   *)
(* unmarked ones, and the other way round, and the tiers are joined so.    *)
(***************************************************************************)
EXTENDS Routing, Failover, WellFoundedInduction, TLAPS

\* What the two ways of writing a validated manifest have in common.
LEMMA NamespaceWritten ==
    ASSUME NamespacesApart, NEW id, NEW d, ValidNamespace(d.ns, id, reg),
           reg' = With(reg, id, d)
    PROVE  NamespacesApart'
<1> SUFFICES ASSUME NEW i \in Personal(reg')
             PROVE  /\ \A p \in Reserved \cup ProviderPrefixes : ~Overlap(reg'[i].ns, p)
                    /\ \A other \in Personal(reg') \ {i} :
                           ~Overlap(reg'[i].ns, reg'[other].ns)
  BY DEF NamespacesApart
<1>1. /\ DOMAIN reg' = DOMAIN reg \cup {id}
      /\ reg'[id] = d
      /\ \A other \in DOMAIN reg \ {id} : reg'[other] = reg[other]
  BY DEF With
<1>2. /\ \A p \in Reserved \cup ProviderPrefixes : ~Overlap(d.ns, p)
      /\ \A other \in DOMAIN reg \ {id} :
             ~Overlap(d.ns, reg[other].ns) /\ ~Overlap(reg[other].ns, d.ns)
  BY DEF ValidNamespace, Overlap
<1>3. CASE i = id
  BY <1>1, <1>2, <1>3 DEF Personal
<1>4. CASE i # id
  <2>1. i \in Personal(reg) /\ reg'[i] = reg[i]
    BY <1>1, <1>4 DEF Personal
  <2>2. \A p \in Reserved \cup ProviderPrefixes : ~Overlap(reg'[i].ns, p)
    BY <2>1 DEF NamespacesApart
  <2>3. ASSUME NEW other \in Personal(reg') \ {i}
        PROVE  ~Overlap(reg'[i].ns, reg'[other].ns)
    <3>1. CASE other = id
      BY <1>1, <1>2, <2>1, <3>1 DEF Personal
    <3>2. CASE other # id
      BY <1>1, <2>1, <3>2 DEF NamespacesApart, Personal
    <3> QED BY <3>1, <3>2
  <2> QED BY <2>2, <2>3
<1> QED BY <1>3, <1>4

\* Rewriting a descriptor with the namespace it has changes nothing.
LEMMA NamespaceKept ==
    ASSUME NamespacesApart, NEW id \in DOMAIN reg, NEW d, d.ns = reg[id].ns,
           reg' = With(reg, id, d)
    PROVE  NamespacesApart'
<1>1. DOMAIN reg' = DOMAIN reg
  BY DEF With
<1>2. \A i \in DOMAIN reg : reg'[i].ns = reg[i].ns
  BY DEF With
<1>3. Personal(reg') = Personal(reg)
  BY <1>1 DEF Personal
<1> QED BY <1>2, <1>3 DEF NamespacesApart, Personal

LEMMA InitApart == Init => NamespacesApart
<1> SUFFICES ASSUME NEW map, reg = InitialRegistry(map) PROVE NamespacesApart
  BY DEF Init
<1>1. DOMAIN reg = Builtins
  BY DEF InitialRegistry, Enablement, Bare
<1> QED BY <1>1 DEF NamespacesApart, Personal

LEMMA NextApart == NamespacesApart /\ [Next]_vars => NamespacesApart'
<1> SUFFICES ASSUME NamespacesApart, [Next]_vars PROVE NamespacesApart'
  OBVIOUS
<1>1. ASSUME NEW m \in Manifests, Register(m) PROVE NamespacesApart'
  <2> DEFINE d == Descriptor(m.ns, TRUE, BuildProviders(m.group, TRUE))
  <2>1. d.ns = m.ns /\ ValidNamespace(m.ns, m.id, reg) /\ reg' = With(reg, m.id, d)
    BY <1>1 DEF Register, Registrable, Becomes, Registered, Descriptor
  <2> HIDE DEF d
  <2> QED BY <2>1, NamespaceWritten
<1>2. ASSUME NEW m \in Manifests, Upgrade(m) PROVE NamespacesApart'
  <2> DEFINE d == Descriptor(m.ns, reg[m.id].on, UpgradedProviders(m.group, reg[m.id]))
  <2>1. d.ns = m.ns /\ ValidNamespace(m.ns, m.id, reg) /\ reg' = With(reg, m.id, d)
    BY <1>2 DEF Upgrade, Becomes, Descriptor
  <2> HIDE DEF d
  <2> QED BY <2>1, NamespaceWritten
<1>3. ASSUME NEW id \in PersonalIds, Unregister(id) PROVE NamespacesApart'
  <2>1. reg' = [i \in DOMAIN reg \ {id} |-> reg[i]]
    BY <1>3 DEF Unregister, Becomes
  <2> QED BY <2>1 DEF NamespacesApart, Personal
<1>4. ASSUME NEW id \in PersonalIds \cup Builtins, NEW on \in BOOLEAN,
             SetModuleStatus(id, on)
      PROVE  NamespacesApart'
  <2> DEFINE d == WithStatus(reg[id], on)
  <2>1. id \in DOMAIN reg /\ d.ns = reg[id].ns /\ reg' = With(reg, id, d)
    BY <1>4 DEF SetModuleStatus, Becomes, WithStatus, Descriptor
  <2> HIDE DEF d
  <2> QED BY <2>1, NamespaceKept
<1>5. ASSUME NEW c \in Connections, RescanFinds(c) PROVE NamespacesApart'
  <2> PICK m \in Discovered : reg' = Registered(m, reg)
    BY <1>5 DEF RescanFinds
  <2> DEFINE d == Descriptor(m.ns, TRUE, BuildProviders(m.group, TRUE))
  <2>1. d.ns = m.ns /\ ValidNamespace(m.ns, m.id, reg) /\ reg' = With(reg, m.id, d)
    BY DEF Discovered, Registrable, Registered, Descriptor
  <2> HIDE DEF d
  <2> QED BY <2>1, NamespaceWritten
<1>6. ASSUME UNCHANGED reg PROVE NamespacesApart'
  BY <1>6 DEF NamespacesApart, Personal
<1>7. ASSUME NEW c \in Connections,
             \/ \E q \in Requests : Arrive(c, q)
             \/ TrySystem(c) \/ MatchFound(c) \/ MatchNothing(c)
             \/ RescanBegins(c) \/ RescanEnds(c) \/ Dispatch(c)
      PROVE  UNCHANGED reg
  BY <1>7 DEF Arrive, TrySystem, MatchFound, MatchNothing, RescanBegins,
              RescanEnds, Dispatch
<1>8. ASSUME Done \/ UNCHANGED vars PROVE UNCHANGED reg
  BY <1>8 DEF Done, vars
<1> QED BY <1>1, <1>2, <1>3, <1>4, <1>5, <1>6, <1>7, <1>8 DEF Next

\* Whatever is installed, upgraded, removed or found on disk in whatever
\* order, no two personal modules, and no personal module and the gateway or
\* a built-in provider, ever claim overlapping namespaces.
THEOREM NamespacesStayApart == Spec => []NamespacesApart
<1>1. Init => NamespacesApart
  BY InitApart
<1>2. NamespacesApart /\ [Next]_vars => NamespacesApart'
  BY NextApart
<1> QED BY <1>1, <1>2, PTL DEF Spec

-----------------------------------------------------------------------------
(* A request is handed to a module that was enabled since it arrived.        *)

\* Providers are numbered, and the built-in modules are never removed.
Listed(r) ==
    /\ Builtins \subseteq DOMAIN r
    /\ \A id \in DOMAIN r : DOMAIN r[id].subs \subseteq Nat

\* x: a connection.  What it copied was enabled at some moment since then.
Copied(x) ==
    /\ IsPrefix(x.claim.prefix, x.req.path)
    /\ DOMAIN x.desc.subs \subseteq Nat
    /\ x.desc.on =>
        /\ <<x.claim.id, "">> \in x.lived
        /\ \A k \in DOMAIN x.desc.subs :
               x.desc.subs[k].on => <<x.claim.id, x.desc.subs[k].id>> \in x.lived

\* What FailsClosed says of a connection.
Closed(x) ==
    x.answer.by \in PersonalIds \cup Builtins =>
        /\ <<x.answer.by, "">> \in x.lived
        /\ x.provider # "" => <<x.answer.by, x.provider>> \in x.lived
        /\ x.answer.to = "module" => IsPrefix(x.claim.prefix, x.req.path)

Coherent(x, r) ==
    /\ x.pc # "waiting" => Live(r) \subseteq x.lived
    /\ x.pc # "answered" => x.answer = Unclaimed
    /\ x.pc = "dispatch" => Copied(x)
    /\ Closed(x)

Fields == {"pc", "req", "claim", "desc", "again", "answer", "provider", "lived"}
Shape(x) == Fields \subseteq DOMAIN x

\* The write lock is held by a request in its rescan.
Scanning == \A c \in scanning : c \in Connections /\ conn[c].pc = "rescan"

IInv ==
    /\ Listed(reg)
    /\ Scanning
    /\ conn = [c \in Connections |-> conn[c]]
    /\ \A c \in Connections : Shape(conn[c]) /\ Coherent(conn[c], reg)

-----------------------------------------------------------------------------
(* The first of several, by index. *)

Below == {ss \in Nat \X Nat : ss[1] < ss[2]}

LEMMA BelowWellFounded == IsWellFoundedOn(Below, Nat)
BY NatLessThanWellFounded, Zenon DEF OpToRel, Below

LEMMA Least ==
    ASSUME NEW T \in SUBSET Nat, T # {}
    PROVE  \E x \in T : \A y \in T : x <= y
<1>1. \E x \in T : \A y \in T : ~(<<y, x>> \in Below)
  BY BelowWellFounded, WFMin, Zenon
<1>2. PICK x \in T : \A y \in T : ~(<<y, x>> \in Below)
  BY <1>1
<1>3. \A y \in T : ~(y < x)
  BY <1>2 DEF Below
<1> QED BY <1>3

\* One of the answers, if any was made.
LEMMA FirstOfIsOne ==
    ASSUME NEW answers, DOMAIN answers \in SUBSET Nat
    PROVE  \/ FirstOf(answers) = Unclaimed
           \/ \E i \in DOMAIN answers : FirstOf(answers) = answers[i]
<1> DEFINE made == {i \in DOMAIN answers : answers[i] # Unclaimed}
<1>1. CASE made = {}
  BY <1>1 DEF FirstOf
<1>2. CASE made # {}
  <2>1. made \in SUBSET Nat
    OBVIOUS
  <2>2. \E i \in made : \A j \in made : i <= j
    BY <1>2, <2>1, Least
  <2>3. (CHOOSE i \in made : \A j \in made : i <= j) \in made
    BY <2>2, Zenon
  <2>4. FirstOf(answers) = answers[CHOOSE i \in made : \A j \in made : i <= j]
    BY <1>2 DEF FirstOf
  <2> QED BY <2>3, <2>4
<1> QED BY <1>1, <1>2

\* A provider that owns the rest of the path, or none.
LEMMA ProviderOfIsOne ==
    ASSUME NEW d, DOMAIN d.subs \in SUBSET Nat, NEW rest
    PROVE  ProviderOf(d, rest) = 0 \/ ProviderOf(d, rest) \in DOMAIN d.subs
<1> DEFINE own == {i \in DOMAIN d.subs : IsPrefix(d.subs[i].subpath, rest)}
<1>1. CASE own = {}
  BY <1>1 DEF ProviderOf
<1>2. CASE own # {}
  <2>1. own \in SUBSET Nat
    OBVIOUS
  <2>2. \E i \in own : \A j \in own : i <= j
    BY <1>2, <2>1, Least
  <2>3. (CHOOSE i \in own : \A j \in own : i <= j) \in own
    BY <2>2, Zenon
  <2>4. ProviderOf(d, rest) = CHOOSE i \in own : \A j \in own : i <= j
    BY <1>2 DEF ProviderOf
  <2> QED BY <2>3, <2>4
<1> QED BY <1>1, <1>2

-----------------------------------------------------------------------------
(* Who answers. *)

Own(answer) == answer.by \in {"gateway", "nobody"}

\* By a built-in module, and not as a personal one would.
By(answer, id) == Own(answer) \/ (answer.by = id /\ answer.to # "module")

LEMMA OwnAnswers ==
    /\ Own(Unclaimed)
    /\ \A code : Own(Refused(code))
    /\ \A handler : Own(Served("gateway", handler))
    /\ \A q, handler : Own(Mutation(q, handler))
    /\ \A methods, q, handler : Own(Only(methods, q, "gateway", handler))
BY DEF Own, Unclaimed, Refused, Served, Mutation, Only

LEMMA ServedBy ==
    ASSUME NEW id, NEW handler, handler # "module"
    PROVE  /\ By(Served(id, handler), id)
           /\ \A methods, q : By(Only(methods, q, id, handler), id)
BY DEF Own, By, Served, Only, Refused

\* The gateway's own routes pass a request to OmniRoute only when it is on.
LEMMA SystemAnswers ==
    ASSUME NEW q
    PROVE  Own(SystemRoute(q)) \/ (reg["omniroute"].on /\ By(SystemRoute(q), "omniroute"))
<1> DEFINE Good(a) == Own(a) \/ (reg["omniroute"].on /\ By(a, "omniroute"))
<1>1. Good(DashboardRoute(q))
  <2>1. Good(ServiceWorker(q))
    BY OwnAnswers DEF ServiceWorker, Own, By, Served
  <2>2. Own(AssetRoute(q))
    BY OwnAnswers DEF AssetRoute
  <2> HIDE DEF Good
  <2>3. \A a : Own(a) => Good(a)
    BY DEF Good
  <2> QED BY <2>1, <2>2, <2>3, OwnAnswers DEF DashboardRoute
<1>2. Own(MuseConfigRoute(q))
  BY OwnAnswers DEF MuseConfigRoute
<1>3. Own(McpRoute(q))
  BY OwnAnswers DEF McpRoute
<1>4. Own(TemplateRoute(q))
  BY OwnAnswers DEF TemplateRoute
<1> DEFINE answers == <<DashboardRoute(q), MuseConfigRoute(q), McpRoute(q), TemplateRoute(q)>>
<1>5. DOMAIN answers \in SUBSET Nat /\ \A i \in DOMAIN answers : Good(answers[i])
  BY <1>1, <1>2, <1>3, <1>4
<1> HIDE DEF answers
<1>6. Good(FirstOf(answers))
  BY <1>5, FirstOfIsOne, OwnAnswers
<1> QED BY <1>6, OwnAnswers DEF SystemRoute, answers

LEMMA MuseAnswers ==
    ASSUME NEW q
    PROVE  By(MuseRoute(q), "muse")
<1>0. \A a : Own(a) => By(a, "muse")
  BY DEF By
<1>1. By(CatalogRoute(q), "muse")
  BY <1>0, OwnAnswers, ServedBy DEF CatalogRoute
<1>2. By(MuseChatRoute(q), "muse")
  BY <1>0, OwnAnswers, ServedBy DEF MuseChatRoute
<1>3. By(MuseImageRoute(q), "muse")
  BY <1>0, OwnAnswers, ServedBy DEF MuseImageRoute
<1>4. By(MuseVideoRoute(q), "muse")
  BY <1>0, OwnAnswers, ServedBy DEF MuseVideoRoute
<1>5. By(VideoProviderRoute(q), "muse")
  BY <1>0, OwnAnswers, ServedBy DEF VideoProviderRoute
<1> DEFINE answers == <<CatalogRoute(q), MuseChatRoute(q), MuseImageRoute(q),
                        MuseVideoRoute(q), VideoProviderRoute(q)>>
<1>6. DOMAIN answers \in SUBSET Nat /\ \A i \in DOMAIN answers : By(answers[i], "muse")
  BY <1>1, <1>2, <1>3, <1>4, <1>5
<1> HIDE DEF answers
<1>7. By(FirstOf(answers), "muse")
  BY <1>0, <1>6, FirstOfIsOne, OwnAnswers
<1> QED BY <1>7 DEF MuseRoute, answers

LEMMA JevAnswers ==
    ASSUME NEW q
    PROVE  By(JevRoute(q), "jev")
<1>0. \A a : Own(a) => By(a, "jev")
  BY DEF By
<1> QED BY <1>0, OwnAnswers, ServedBy DEF JevRoute

LEMMA OmniAnswers ==
    ASSUME NEW q, NEW rest
    PROVE  By(OmniRoute(q, rest), "omniroute")
<1>0. \A a : Own(a) => By(a, "omniroute")
  BY DEF By
<1> QED BY <1>0, OwnAnswers, ServedBy DEF OmniRoute

\* A module answers for itself; only a personal one as a module.
LEMMA ModuleAnswers ==
    ASSUME NEW q, NEW claim
    PROVE  LET a == ModuleAnswer(q, claim) IN Own(a) \/ a.by = claim.id
<1>1. \A a, id : By(a, id) => Own(a) \/ a.by = id
  BY DEF By
<1>2. \A id : Served(id, "module").by = id
  BY DEF Served
<1> QED BY <1>1, <1>2, MuseAnswers, JevAnswers, OmniAnswers, OwnAnswers DEF ModuleAnswer

-----------------------------------------------------------------------------
(* Connections and the registry move. *)

LEMMA OutsiderIsClosed ==
    ASSUME NEW x, Own(x.answer)
    PROVE  Closed(x)
<1>1. x.answer.by \notin PersonalIds \cup Builtins
  BY RoutingAssumption DEF Own, PersonalIds, Builtins
<1> QED BY <1>1 DEF Closed

\* Connection c goes on as x, the registry stays.
LEMMA ConnectionMoves ==
    ASSUME IInv, NEW c \in Connections, NEW x,
           conn' = [conn EXCEPT ![c] = x], reg' = reg,
           scanning' \subseteq scanning, c \notin scanning',
           Shape(x), Coherent(x, reg)
    PROVE  IInv'
<1>1. conn = [d \in Connections |-> conn[d]]
  BY DEF IInv
<1>2. conn' = [d \in Connections |-> IF d = c THEN x ELSE conn[d]]
  BY <1>1
<1>3. \A d \in Connections : conn'[d] = IF d = c THEN x ELSE conn[d]
  BY <1>2
<1>4. \A d \in Connections : Shape(conn'[d]) /\ Coherent(conn'[d], reg)
  BY <1>3 DEF IInv
<1>5. Scanning'
  BY <1>3 DEF IInv, Scanning
<1> QED BY <1>2, <1>4, <1>5 DEF IInv

\* Only a rescan holds the lock.
LEMMA NotScanning ==
    ASSUME IInv, NEW c \in Connections, conn[c].pc # "rescan"
    PROVE  c \notin scanning
BY DEF IInv, Scanning

\* What was seen enabled stays seen.
LEMMA MoreLived ==
    ASSUME NEW x, Shape(x), NEW r, Coherent(x, r), NEW r2, NEW y,
           y.pc = x.pc, y.req = x.req, y.claim = x.claim, y.desc = x.desc,
           y.answer = x.answer, y.provider = x.provider,
           y.lived = x.lived \cup Live(r2)
    PROVE  Coherent(y, r2)
BY DEF Coherent, Copied, Closed

LEMMA LivedGrows ==
    ASSUME NEW x, Shape(x), NEW more
    PROVE  LET y == [x EXCEPT !.lived = @ \cup more]
           IN  /\ Shape(y)
               /\ y.pc = x.pc /\ y.req = x.req /\ y.claim = x.claim /\ y.desc = x.desc
               /\ y.answer = x.answer /\ y.provider = x.provider
               /\ y.lived = x.lived \cup more
BY DEF Shape, Fields

LEMMA RegistryMoves ==
    ASSUME IInv, NEW r, reg' = r, Listed(r), scanning' = scanning,
           conn' = [d \in Connections |-> [conn[d] EXCEPT !.lived = @ \cup Live(r)]]
    PROVE  IInv'
<1>1. ASSUME NEW d \in Connections
      PROVE  Shape(conn'[d]) /\ Coherent(conn'[d], r) /\ conn'[d].pc = conn[d].pc
  <2>1. Shape(conn[d]) /\ Coherent(conn[d], reg)
    BY DEF IInv
  <2>2. conn'[d] = [conn[d] EXCEPT !.lived = @ \cup Live(r)]
    OBVIOUS
  <2> DEFINE x == conn[d]
             y == [x EXCEPT !.lived = @ \cup Live(r)]
  <2>3. /\ Shape(y)
        /\ y.pc = x.pc /\ y.req = x.req /\ y.claim = x.claim /\ y.desc = x.desc
        /\ y.answer = x.answer /\ y.provider = x.provider
        /\ y.lived = x.lived \cup Live(r)
    BY <2>1, LivedGrows
  <2>4. Shape(x) /\ Coherent(x, reg)
    BY <2>1
  <2> HIDE DEF x, y
  <2>5. Coherent(y, r)
    BY <2>3, <2>4, MoreLived
  <2> QED BY <2>2, <2>3, <2>5 DEF x, y
<1>2. conn' = [d \in Connections |-> conn'[d]]
  OBVIOUS
<1>3. Scanning'
  BY <1>1 DEF IInv, Scanning
<1> QED BY <1>1, <1>2, <1>3 DEF IInv

-----------------------------------------------------------------------------
(* The registry stays listed. *)

LEMMA WithListed ==
    ASSUME NEW r, Listed(r), NEW id, NEW d, DOMAIN d.subs \subseteq Nat
    PROVE  Listed(With(r, id, d))
BY DEF Listed, With

LEMMA BuiltListed ==
    ASSUME NEW m \in Manifests, NEW on
    PROVE  DOMAIN BuildProviders(m.group, on) \subseteq Nat
BY RoutingAssumption DEF BuildProviders

LEMMA RegisteredListed ==
    ASSUME NEW m \in Manifests, NEW r, Listed(r)
    PROVE  Listed(Registered(m, r))
<1> DEFINE d == Descriptor(m.ns, TRUE, BuildProviders(m.group, TRUE))
<1>1. DOMAIN d.subs \subseteq Nat
  BY BuiltListed DEF Descriptor
<1> HIDE DEF d
<1>2. Listed(With(r, m.id, d))
  BY <1>1, WithListed
<1> QED BY <1>2 DEF Registered, d

LEMMA InitialListed ==
    ASSUME NEW map
    PROVE  Listed(InitialRegistry(map))
<1> DEFINE Numbered(d) == DOMAIN d.subs \subseteq Nat
<1>1. DOMAIN Bare = Builtins /\ \A id \in Builtins : Numbered(Bare[id])
  <2>1. \A n : 1..n \subseteq Nat
    OBVIOUS
  <2>2. \A id \in Builtins :
            DOMAIN Bare[id].subs = 1..Cardinality(BuiltinProviders(id))
    BY DEF Bare, Descriptor
  <2>3. DOMAIN Bare = Builtins
    BY DEF Bare
  <2> QED BY <2>1, <2>2, <2>3
<1>2. ASSUME NEW d, NEW on, Numbered(d)
      PROVE  Numbered(WithStatus(d, on))
  BY <1>2 DEF WithStatus, Descriptor
<1> HIDE DEF Numbered
<1>3. DOMAIN InitialRegistry(map) = Builtins
  BY <1>1 DEF InitialRegistry, Enablement
<1>4. \A id \in Builtins : Numbered(InitialRegistry(map)[id])
  BY <1>1, <1>2 DEF InitialRegistry, Enablement
<1> QED BY <1>3, <1>4 DEF Listed, Numbered

-----------------------------------------------------------------------------
LEMMA InitIInv == Init => IInv
<1> SUFFICES ASSUME Init PROVE IInv
  OBVIOUS
<1>1. Listed(reg)
  BY InitialListed DEF Init
<1>2. Shape(Waiting) /\ Waiting.pc = "waiting" /\ Waiting.answer = Unclaimed
  BY DEF Shape, Fields, Waiting
<1>3. Closed(Waiting)
  BY <1>2, OutsiderIsClosed, OwnAnswers
<1>4. Coherent(Waiting, reg)
  BY <1>2, <1>3 DEF Coherent
<1>5. Scanning
  BY DEF Init, Scanning
<1> QED BY <1>1, <1>2, <1>4, <1>5 DEF Init, IInv

\* A change of the registry under the write lock.
LEMMA ChangeKeeps ==
    ASSUME IInv, NEW r, Becomes(r), Listed(r), scanning' = scanning
    PROVE  IInv'
BY RegistryMoves DEF Becomes

LEMMA RegisterKeeps ==
    ASSUME IInv, NEW m \in Manifests, Register(m) PROVE IInv'
BY RegisteredListed, ChangeKeeps DEF IInv, Register

LEMMA UpgradeKeeps ==
    ASSUME IInv, NEW m \in Manifests, Upgrade(m) PROVE IInv'
<1> DEFINE subs == UpgradedProviders(m.group, reg[m.id])
           d == Descriptor(m.ns, reg[m.id].on, subs)
<1>1. DOMAIN subs \subseteq Nat
  BY BuiltListed DEF UpgradedProviders
<1>2. d.subs = subs
  BY DEF Descriptor
<1>3. Becomes(With(reg, m.id, d)) /\ scanning' = scanning
  BY DEF Upgrade
<1> HIDE DEF d, subs
<1>4. Listed(With(reg, m.id, d))
  BY <1>1, <1>2, WithListed DEF IInv
<1> QED BY <1>3, <1>4, ChangeKeeps

LEMMA UnregisterKeeps ==
    ASSUME IInv, NEW id \in PersonalIds, Unregister(id) PROVE IInv'
<1> DEFINE r == [i \in DOMAIN reg \ {id} |-> reg[i]]
<1>1. Becomes(r) /\ id \notin Builtins /\ scanning' = scanning
  BY DEF Unregister, Personal
<1>2. Listed(r)
  BY <1>1 DEF IInv, Listed
<1> HIDE DEF r
<1> QED BY <1>1, <1>2, ChangeKeeps

LEMMA SetModuleStatusKeeps ==
    ASSUME IInv, NEW id, NEW on, SetModuleStatus(id, on) PROVE IInv'
<1> DEFINE d == WithStatus(reg[id], on)
<1>1. Becomes(With(reg, id, d)) /\ id \in DOMAIN reg /\ scanning' = scanning
  BY DEF SetModuleStatus
<1>2. DOMAIN d.subs \subseteq Nat
  BY <1>1 DEF WithStatus, Descriptor, IInv, Listed
<1> HIDE DEF d
<1>3. Listed(With(reg, id, d))
  BY <1>2, WithListed DEF IInv
<1> QED BY <1>1, <1>3, ChangeKeeps

-----------------------------------------------------------------------------
(* The steps of a request. *)

LEMMA AnswerGiven ==
    ASSUME IInv, NEW c \in Connections, NEW answer, NEW provider,
           Answer(c, answer, provider), reg' = reg, conn[c].pc # "waiting",
           scanning' \subseteq scanning, c \notin scanning',
           Own(answer)
           \/ /\ <<answer.by, "">> \in conn[c].lived
              /\ provider # "" => <<answer.by, provider>> \in conn[c].lived
              /\ answer.to = "module" =>
                     IsPrefix(conn[c].claim.prefix, conn[c].req.path)
    PROVE  IInv'
<1> DEFINE x == [conn[c] EXCEPT !.pc = "answered", !.answer = answer, !.provider = provider]
<1>1. Shape(conn[c]) /\ Coherent(conn[c], reg)
  BY DEF IInv
<1>2. /\ Shape(x) /\ x.pc = "answered" /\ x.answer = answer /\ x.provider = provider
      /\ x.lived = conn[c].lived /\ x.claim = conn[c].claim /\ x.req = conn[c].req
  BY <1>1 DEF Shape, Fields
<1>3. conn' = [conn EXCEPT ![c] = x]
  BY DEF Answer
<1> HIDE DEF x
<1>4. Closed(x)
  <2>1. CASE Own(answer)
    BY <1>2, <2>1, OutsiderIsClosed
  <2>2. CASE ~Own(answer)
    BY <1>2, <2>2 DEF Closed
  <2> QED BY <2>1, <2>2
<1>5. Coherent(x, reg)
  BY <1>1, <1>2, <1>4 DEF Coherent
<1> QED BY <1>2, <1>3, <1>5, ConnectionMoves

\* A step to where nothing is copied or answered.
LEMMA Proceeds ==
    ASSUME IInv, NEW c \in Connections, NEW label \in {"system", "match", "rescan"},
           conn[c].pc \notin {"waiting", "answered"}, reg' = reg,
           scanning' \subseteq scanning, c \notin scanning',
           conn' = [conn EXCEPT ![c].pc = label]
    PROVE  IInv'
<1> DEFINE x == [conn[c] EXCEPT !.pc = label]
<1>1. Shape(conn[c]) /\ Coherent(conn[c], reg)
  BY DEF IInv
<1>2. /\ Shape(x) /\ x.pc = label /\ x.answer = conn[c].answer
      /\ x.lived = conn[c].lived
  BY <1>1 DEF Shape, Fields
<1>3. conn' = [conn EXCEPT ![c] = x]
  OBVIOUS
<1> HIDE DEF x
<1>4. x.answer = Unclaimed
  BY <1>1, <1>2 DEF Coherent
<1>5. Coherent(x, reg)
  BY <1>1, <1>2, <1>4, OutsiderIsClosed, OwnAnswers DEF Coherent
<1> QED BY <1>2, <1>3, <1>5, ConnectionMoves

LEMMA ArriveKeeps ==
    ASSUME IInv, NEW c \in Connections, NEW q \in Requests, Arrive(c, q)
    PROVE  IInv'
<1> DEFINE x == [conn[c] EXCEPT !.pc = "system", !.req = q, !.lived = Live(reg)]
<1>1. Shape(conn[c]) /\ Coherent(conn[c], reg) /\ conn[c].pc = "waiting"
  BY DEF IInv, Arrive
<1>2. Shape(x) /\ x.pc = "system" /\ x.answer = conn[c].answer /\ x.lived = Live(reg)
  BY <1>1 DEF Shape, Fields
<1>3. conn' = [conn EXCEPT ![c] = x] /\ reg' = reg
      /\ scanning' = scanning /\ c \notin scanning
  BY <1>1, NotScanning DEF Arrive
<1> HIDE DEF x
<1>4. x.answer = Unclaimed
  BY <1>1, <1>2 DEF Coherent
<1>5. Coherent(x, reg)
  BY <1>2, <1>4, OutsiderIsClosed, OwnAnswers DEF Coherent
<1> QED BY <1>2, <1>3, <1>5, ConnectionMoves

LEMMA TrySystemKeeps ==
    ASSUME IInv, NEW c \in Connections, TrySystem(c) PROVE IInv'
<1> DEFINE answer == SystemRoute(conn[c].req)
<1>0. /\ conn[c].pc = "system" /\ reg' = reg
      /\ scanning' = scanning /\ c \notin scanning
  BY NotScanning DEF TrySystem
<1>1. CASE answer = Unclaimed
  BY <1>0, <1>1, Proceeds DEF TrySystem
<1>2. CASE answer # Unclaimed
  <2>1. Answer(c, answer, "")
    BY <1>2 DEF TrySystem
  <2>2. CASE Own(answer)
    BY <1>0, <2>1, <2>2, AnswerGiven
  <2>3. CASE ~Own(answer)
    <3>1. reg["omniroute"].on /\ answer.by = "omniroute" /\ answer.to # "module"
      BY <2>3, SystemAnswers DEF By
    <3>2. "omniroute" \in DOMAIN reg
      BY DEF IInv, Listed, Builtins
    <3>3. <<"omniroute", "">> \in Live(reg)
      BY <3>1, <3>2 DEF Live
    <3>4. Live(reg) \subseteq conn[c].lived
      BY <1>0 DEF IInv, Coherent
    <3>5. <<answer.by, "">> \in conn[c].lived
      BY <3>1, <3>3, <3>4
    <3> HIDE DEF answer
    <3> QED BY <1>0, <2>1, <3>1, <3>5, AnswerGiven
  <2> QED BY <2>2, <2>3
<1> QED BY <1>1, <1>2

LEMMA LiveOnes ==
    ASSUME NEW r, NEW id \in DOMAIN r, r[id].on
    PROVE  /\ <<id, "">> \in Live(r)
           /\ \A k \in DOMAIN r[id].subs :
                  r[id].subs[k].on => <<id, r[id].subs[k].id>> \in Live(r)
<1> DEFINE ids == {i \in DOMAIN r : r[i].on}
           providers(i) == {<<i, r[i].subs[k].id>> :
                                k \in {j \in DOMAIN r[i].subs : r[i].subs[j].on}}
<1>1. Live(r) = {<<i, "">> : i \in ids} \cup UNION {providers(i) : i \in ids}
  BY DEF Live
<1>2. id \in ids
  OBVIOUS
<1>3. ASSUME NEW k \in DOMAIN r[id].subs, r[id].subs[k].on
      PROVE  <<id, r[id].subs[k].id>> \in providers(id)
  BY <1>3
<1> HIDE DEF ids, providers
<1>4. \A e \in providers(id) : e \in Live(r)
  BY <1>1, <1>2
<1>5. <<id, "">> \in Live(r)
  BY <1>1, <1>2
<1> QED BY <1>3, <1>4, <1>5

\* The copy of an enabled module was seen enabled.
LEMMA MatchFoundKeeps ==
    ASSUME IInv, NEW c \in Connections, MatchFound(c) PROVE IInv'
<1>1. PICK claim \in Owners(conn[c].req.path) :
         conn' = [conn EXCEPT ![c].pc = "dispatch", ![c].claim = claim,
                              ![c].desc = reg[claim.id]]
  BY DEF MatchFound
<1>2. claim.id \in DOMAIN reg /\ IsPrefix(claim.prefix, conn[c].req.path)
  <2>1. claim \in Claims(conn[c].req.path)
    BY DEF Owners
  <2>2. claim \in UNION {{[id |-> id, prefix |-> p] : p \in OwnedPrefixes(id)} :
                         id \in DOMAIN reg}
    BY <2>1 DEF Claims
  <2>3. IsPrefix(claim.prefix, conn[c].req.path)
    BY <2>1 DEF Claims
  <2> QED BY <2>2, <2>3
<1> DEFINE x == [conn[c] EXCEPT !.pc = "dispatch", !.claim = claim, !.desc = reg[claim.id]]
<1>3. Shape(conn[c]) /\ Coherent(conn[c], reg) /\ conn[c].pc = "match" /\ reg' = reg
  BY DEF IInv, MatchFound
<1>4. /\ Shape(x) /\ x.pc = "dispatch" /\ x.answer = conn[c].answer
      /\ x.claim = claim /\ x.desc = reg[claim.id]
      /\ x.req = conn[c].req /\ x.lived = conn[c].lived
  BY <1>3 DEF Shape, Fields
<1>5. /\ conn' = [conn EXCEPT ![c] = x]
      /\ scanning' = scanning /\ c \notin scanning
  BY <1>1, <1>3, NotScanning DEF MatchFound
<1> HIDE DEF x
<1>6. x.answer = Unclaimed /\ Live(reg) \subseteq x.lived
  BY <1>3, <1>4 DEF Coherent
<1>7. Copied(x)
  <2>1. DOMAIN x.desc.subs \subseteq Nat
    BY <1>2, <1>4 DEF IInv, Listed
  <2>2. ASSUME x.desc.on
        PROVE  /\ <<claim.id, "">> \in Live(reg)
               /\ \A k \in DOMAIN x.desc.subs :
                      x.desc.subs[k].on => <<claim.id, x.desc.subs[k].id>> \in Live(reg)
    BY <1>2, <1>4, <2>2, LiveOnes
  <2> QED BY <1>2, <1>4, <1>6, <2>1, <2>2 DEF Copied
<1>8. Coherent(x, reg)
  BY <1>4, <1>6, <1>7, OutsiderIsClosed, OwnAnswers DEF Coherent
<1> QED BY <1>3, <1>4, <1>5, <1>8, ConnectionMoves

LEMMA MatchNothingKeeps ==
    ASSUME IInv, NEW c \in Connections, MatchNothing(c) PROVE IInv'
<1>0. /\ conn[c].pc = "match" /\ reg' = reg
      /\ scanning' = scanning /\ c \notin scanning
  BY NotScanning DEF MatchNothing
<1>1. CASE conn[c].again
  BY <1>0, <1>1, AnswerGiven, OwnAnswers DEF MatchNothing
<1>2. CASE ~conn[c].again
  BY <1>0, <1>2, Proceeds DEF MatchNothing
<1> QED BY <1>1, <1>2

LEMMA RescanBeginsKeeps ==
    ASSUME IInv, NEW c \in Connections, RescanBegins(c) PROVE IInv'
BY DEF IInv, Scanning, RescanBegins

LEMMA RescanFindsKeeps ==
    ASSUME IInv, NEW c \in Connections, RescanFinds(c) PROVE IInv'
<1>1. PICK m \in Discovered :
        /\ reg' = Registered(m, reg)
        /\ conn' = [d \in Connections |->
                      [conn[d] EXCEPT !.lived = @ \cup Live(Registered(m, reg)),
                                      !.again = @ \/ d = c]]
  BY DEF RescanFinds
<1> DEFINE r == Registered(m, reg)
<1>2. Listed(r)
  BY RegisteredListed, RoutingAssumption DEF IInv, Discovered
<1> HIDE DEF r
<1>3. ASSUME NEW d \in Connections
      PROVE  Shape(conn'[d]) /\ Coherent(conn'[d], r) /\ conn'[d].pc = conn[d].pc
  <2> DEFINE x == conn[d]
             y == [x EXCEPT !.lived = @ \cup Live(r), !.again = @ \/ d = c]
  <2>1. Shape(x) /\ Coherent(x, reg)
    BY DEF IInv
  <2>2. conn'[d] = y
    BY <1>1 DEF r
  <2>3. /\ Shape(y)
        /\ y.pc = x.pc /\ y.req = x.req /\ y.claim = x.claim /\ y.desc = x.desc
        /\ y.answer = x.answer /\ y.provider = x.provider
        /\ y.lived = x.lived \cup Live(r)
    BY <2>1 DEF Shape, Fields
  <2> HIDE DEF x, y
  <2>4. Coherent(y, r)
    BY <2>1, <2>3, MoreLived
  <2> QED BY <2>2, <2>3, <2>4 DEF x
<1>4. conn' = [d \in Connections |-> conn'[d]]
  BY <1>1
<1>5. Scanning'
  BY <1>3 DEF IInv, Scanning, RescanFinds
<1> QED BY <1>1, <1>2, <1>3, <1>4, <1>5 DEF IInv, r

LEMMA RescanEndsKeeps ==
    ASSUME IInv, NEW c \in Connections, RescanEnds(c) PROVE IInv'
<1>0. conn[c].pc = "rescan" /\ reg' = reg /\ scanning' = {}
  BY DEF RescanEnds, IInv, Scanning
<1>1. CASE conn[c].again
  BY <1>0, <1>1, Proceeds DEF RescanEnds
<1>2. CASE ~conn[c].again
  BY <1>0, <1>2, AnswerGiven, OwnAnswers DEF RescanEnds
<1> QED BY <1>1, <1>2

LEMMA DispatchKeeps ==
    ASSUME IInv, NEW c \in Connections, Dispatch(c) PROVE IInv'
<1> DEFINE q == conn[c].req
           d == conn[c].desc
           claim == conn[c].claim
           k == ProviderOf(d, Subpath(claim, q.path))
           provider == IF k = 0 THEN "" ELSE d.subs[k].id
           answer == ModuleAnswer(q, claim)
<1>0. /\ conn[c].pc = "dispatch" /\ reg' = reg
      /\ scanning' = scanning /\ c \notin scanning
  BY NotScanning DEF Dispatch
<1>1. Copied(conn[c])
  BY <1>0 DEF IInv, Coherent
<1>2. CASE ~d.on \/ (k # 0 /\ ~d.subs[k].on)
  BY <1>0, <1>2, AnswerGiven, OwnAnswers DEF Dispatch
<1>3. CASE ~(~d.on \/ (k # 0 /\ ~d.subs[k].on))
  <2>1. Answer(c, answer, provider)
    BY <1>3 DEF Dispatch
  <2>2. Own(answer) \/ answer.by = claim.id
    BY ModuleAnswers
  <2>3. <<claim.id, "">> \in conn[c].lived /\ IsPrefix(claim.prefix, q.path)
    BY <1>1, <1>3 DEF Copied
  <2>4. k # 0 => k \in DOMAIN d.subs
    BY <1>1, ProviderOfIsOne DEF Copied
  <2>5. k # 0 => <<claim.id, d.subs[k].id>> \in conn[c].lived
    BY <1>1, <1>3, <2>4 DEF Copied
  <2> HIDE DEF answer, k
  <2>6. provider # "" => <<claim.id, provider>> \in conn[c].lived
    BY <2>5
  <2> HIDE DEF provider
  <2> QED BY <1>0, <2>1, <2>2, <2>3, <2>6, AnswerGiven
<1> QED BY <1>2, <1>3

LEMMA NextKeepsIInv == IInv /\ [Next]_vars => IInv'
<1> SUFFICES ASSUME IInv, [Next]_vars PROVE IInv'
  OBVIOUS
<1>1. CASE UNCHANGED vars
  BY <1>1 DEF vars, IInv, Scanning
<1>2. ASSUME NEW m \in Manifests, Register(m) \/ Upgrade(m) PROVE IInv'
  BY <1>2, RegisterKeeps, UpgradeKeeps
<1>3. ASSUME NEW id \in PersonalIds, Unregister(id) PROVE IInv'
  BY <1>3, UnregisterKeeps
<1>4. ASSUME NEW id, NEW on \in BOOLEAN, SetModuleStatus(id, on) PROVE IInv'
  BY <1>4, SetModuleStatusKeeps
<1>5. ASSUME NEW c \in Connections, NEW q \in Requests, Arrive(c, q) PROVE IInv'
  BY <1>5, ArriveKeeps
<1>6. ASSUME NEW c \in Connections, TrySystem(c) \/ Dispatch(c) PROVE IInv'
  BY <1>6, TrySystemKeeps, DispatchKeeps
<1>7. ASSUME NEW c \in Connections, MatchFound(c) \/ MatchNothing(c) PROVE IInv'
  BY <1>7, MatchFoundKeeps, MatchNothingKeeps
<1>8. ASSUME NEW c \in Connections, RescanBegins(c) \/ RescanFinds(c) \/ RescanEnds(c)
      PROVE  IInv'
  BY <1>8, RescanBeginsKeeps, RescanFindsKeeps, RescanEndsKeeps
<1>9. CASE Done
  BY <1>9, <1>1 DEF Done
<1> QED BY <1>1, <1>2, <1>3, <1>4, <1>5, <1>6, <1>7, <1>8, <1>9 DEF Next

\* For any modules, requests and changes: whoever is handed a request, a
\* module or a provider of one, was enabled since the request arrived.
THEOREM RoutesFailClosed == Spec => []FailsClosed
<1>1. IInv => FailsClosed
  BY DEF IInv, Coherent, Closed, FailsClosed
<1> QED BY <1>1, InitIInv, NextKeepsIInv, PTL DEF Spec

-----------------------------------------------------------------------------
(* Fail-over between the Jev accounts. *)

\* Induction up to n, over the set of the good.
LEMMA UpTo ==
    ASSUME NEW n \in Nat, NEW G, 0 \in G, \A m \in 1..n : m - 1 \in G => m \in G
    PROVE  \A m \in 0..n : m \in G
<1> SUFFICES ASSUME (0..n) \ G # {} PROVE FALSE
  OBVIOUS
<1>1. (0..n) \ G \in SUBSET Nat
  OBVIOUS
<1>2. PICK m \in (0..n) \ G : \A k \in (0..n) \ G : m <= k
  BY <1>1, Least
<1>3. m \in 1..n /\ m - 1 \in 0..n /\ ~(m <= m - 1)
  BY <1>2
<1> QED BY <1>2, <1>3

-----------------------------------------------------------------------------
(* Sequences. *)

LEMMA RangeOfAppend ==
    ASSUME NEW T, NEW s \in Seq(T), NEW a \in T
    PROVE  Append(s, a) \in Seq(T) /\ Range(Append(s, a)) = Range(s) \cup {a}
<1>1. Append(s, a) \in Seq(T) /\ Len(s) \in Nat /\ DOMAIN Append(s, a) = 1..(Len(s) + 1)
  OBVIOUS
<1>2. \A i \in 1..Len(s) : Append(s, a)[i] = s[i]
  OBVIOUS
<1>3. Append(s, a)[Len(s) + 1] = a /\ DOMAIN s = 1..Len(s)
  OBVIOUS
<1>4. 1..(Len(s) + 1) = 1..Len(s) \cup {Len(s) + 1}
  BY <1>1
<1> QED BY <1>1, <1>2, <1>3, <1>4 DEF Range

LEMMA RangeOfConcat ==
    ASSUME NEW T, NEW s \in Seq(T), NEW t \in Seq(T)
    PROVE  s \o t \in Seq(T) /\ Range(s \o t) = Range(s) \cup Range(t)
<1>1. /\ s \o t \in Seq(T) /\ Len(s) \in Nat /\ Len(t) \in Nat
      /\ DOMAIN s = 1..Len(s) /\ DOMAIN t = 1..Len(t)
      /\ DOMAIN (s \o t) = 1..(Len(s) + Len(t))
  OBVIOUS
<1>2. \A i \in 1..Len(s) : (s \o t)[i] = s[i] /\ i \in 1..(Len(s) + Len(t))
  BY <1>1
<1>3. \A i \in 1..Len(t) : (s \o t)[Len(s) + i] = t[i] /\ Len(s) + i \in 1..(Len(s) + Len(t))
  BY <1>1
<1>4. \A i \in 1..(Len(s) + Len(t)) : i \in 1..Len(s) \/ i - Len(s) \in 1..Len(t)
  BY <1>1
<1>5. \A i \in 1..(Len(s) + Len(t)) : (s \o t)[i] \in Range(s) \cup Range(t)
  <2> SUFFICES ASSUME NEW i \in 1..(Len(s) + Len(t)) PROVE (s \o t)[i] \in Range(s) \cup Range(t)
    OBVIOUS
  <2>1. CASE i \in 1..Len(s)
    BY <1>1, <1>2, <2>1 DEF Range
  <2>2. CASE i - Len(s) \in 1..Len(t)
    <3>1. Len(s) + (i - Len(s)) = i
      BY <1>1
    <3> QED BY <1>1, <1>3, <2>2, <3>1 DEF Range
  <2> QED BY <1>4, <2>1, <2>2
<1>6. Range(s \o t) \subseteq Range(s) \cup Range(t)
  BY <1>1, <1>5 DEF Range
<1>7. Range(s) \subseteq Range(s \o t) /\ Range(t) \subseteq Range(s \o t)
  BY <1>1, <1>2, <1>3 DEF Range
<1> QED BY <1>1, <1>6, <1>7

\* What Among does at i, and the functions that do so up to m.
KeepsAt(g, s, S, i) ==
    g[i] = IF i = 0 THEN <<>>
           ELSE IF s[i] \in S THEN Append(g[i - 1], s[i]) ELSE g[i - 1]
Keeper(g, s, S, T, m) ==
    g \in [0..m -> Seq(T)] /\ \A i \in 0..m : KeepsAt(g, s, S, i)

LEMMA KeeperExists ==
    ASSUME NEW T, NEW s \in Seq(T), NEW S
    PROVE  \E g : Keeper(g, s, S, T, Len(s))
<1> DEFINE n == Len(s)
           G == {m \in 0..n : \E g : Keeper(g, s, S, T, m)}
<1>1. n \in Nat /\ \A i \in 1..n : s[i] \in T
  OBVIOUS
<1>2. 0 \in G
  <2> DEFINE g == [i \in 0..0 |-> <<>>]
  <2>1. g \in [0..0 -> Seq(T)] /\ \A i \in 0..0 : KeepsAt(g, s, S, i)
    BY DEF KeepsAt
  <2> HIDE DEF g
  <2> QED BY <1>1, <2>1 DEF Keeper
<1>3. ASSUME NEW m \in 1..n, m - 1 \in G PROVE m \in G
  <2>1. PICK g : Keeper(g, s, S, T, m - 1)
    BY <1>3
  <2>2. g \in [0..(m - 1) -> Seq(T)] /\ \A i \in 0..(m - 1) : KeepsAt(g, s, S, i)
    BY <2>1 DEF Keeper
  <2> DEFINE x == IF s[m] \in S THEN Append(g[m - 1], s[m]) ELSE g[m - 1]
             h == [i \in 0..m |-> IF i = m THEN x ELSE g[i]]
  <2>3. x \in Seq(T)
    BY <1>1, <2>2
  <2> HIDE DEF x
  <2>4. h \in [0..m -> Seq(T)]
    BY <1>1, <2>2, <2>3
  <2>5. h[m] = x /\ \A i \in 0..(m - 1) : h[i] = g[i]
    BY <1>1
  <2> HIDE DEF h
  <2>6. ASSUME NEW i \in 0..m PROVE KeepsAt(h, s, S, i)
    <3>1. CASE i = m
      BY <1>1, <2>5, <3>1 DEF KeepsAt, x
    <3>2. CASE i = 0
      BY <1>1, <2>2, <2>5, <3>2 DEF KeepsAt
    <3>3. CASE i \in 1..(m - 1)
      <4>1. i \in 0..(m - 1) /\ i - 1 \in 0..(m - 1) /\ i # 0
        BY <1>1, <3>3
      <4> QED BY <2>2, <2>5, <4>1 DEF KeepsAt
    <3> QED BY <1>1, <3>1, <3>2, <3>3
  <2>7. Keeper(h, s, S, T, m)
    BY <2>4, <2>6 DEF Keeper
  <2> QED BY <1>1, <2>7
<1> HIDE DEF n
<1>4. \A m \in 0..n : m \in G
  <2> HIDE DEF G
  <2> QED BY <1>1, <1>2, <1>3, UpTo
<1> QED BY <1>1, <1>4 DEF n

\* What has been kept of the first m.
Gathered(kept, s, S, T, m) ==
    /\ KeepsAt(kept, s, S, m) /\ kept[m] \in Seq(T)
    /\ Range(kept[m]) = {s[j] : j \in 1..m} \cap S

\* Among is defined by one of them, which gathers the elements it is to keep.
LEMMA AmongGrows ==
    ASSUME NEW T, NEW s \in Seq(T), NEW S
    PROVE  \E kept : /\ Among(s, S) = kept[Len(s)]
                     /\ \A m \in 0..Len(s) : Gathered(kept, s, S, T, m)
<1> DEFINE n == Len(s)
           kept == CHOOSE f : f = [i \in 0..n |->
                       IF i = 0 THEN <<>>
                       ELSE IF s[i] \in S THEN Append(f[i - 1], s[i]) ELSE f[i - 1]]
           UpToHere(m) == {s[j] : j \in 1..m} \cap S
           G == {m \in 0..n : kept[m] \in Seq(T) /\ Range(kept[m]) = UpToHere(m)}
<1>1. n \in Nat /\ \A i \in 1..n : s[i] \in T
  OBVIOUS
<1>2. Among(s, S) = kept[n]
  BY DEF Among
<1>3. \A i \in 0..n : KeepsAt(kept, s, S, i)
  <2>1. PICK g : Keeper(g, s, S, T, n)
    BY KeeperExists
  <2>2. g = [i \in 0..n |-> IF i = 0 THEN <<>>
                            ELSE IF s[i] \in S THEN Append(g[i - 1], s[i]) ELSE g[i - 1]]
    BY <2>1 DEF Keeper, KeepsAt
  <2>3. kept = [i \in 0..n |-> IF i = 0 THEN <<>>
                            ELSE IF s[i] \in S THEN Append(kept[i - 1], s[i]) ELSE kept[i - 1]]
    BY <2>2
  <2> HIDE DEF kept
  <2> QED BY <2>3, Zenon DEF KeepsAt
<1> HIDE DEF kept
<1>4. 0 \in G
  <2>1. kept[0] = <<>>
    BY <1>1, <1>3 DEF KeepsAt
  <2>2. Range(<<>>) = {} /\ 1..0 = {} /\ <<>> \in Seq(T)
    BY DEF Range
  <2>3. kept[0] \in Seq(T) /\ Range(kept[0]) = UpToHere(0)
    BY <2>1, <2>2
  <2> QED BY <1>1, <2>3
<1>5. ASSUME NEW m \in 1..n, m - 1 \in G PROVE m \in G
  <2>1. kept[m] = IF s[m] \in S THEN Append(kept[m - 1], s[m]) ELSE kept[m - 1]
    BY <1>1, <1>3 DEF KeepsAt
  <2>2. {s[j] : j \in 1..m} = {s[j] : j \in 1..(m - 1)} \cup {s[m]}
    BY <1>1
  <2>3. s[m] \in T /\ kept[m - 1] \in Seq(T) /\ Range(kept[m - 1]) = UpToHere(m - 1)
    BY <1>1, <1>5
  <2>4. kept[m] \in Seq(T) /\ Range(kept[m]) = UpToHere(m)
    BY <2>1, <2>2, <2>3, RangeOfAppend
  <2> QED BY <1>1, <2>4
<1>6. \A m \in 0..n : m \in G
  <2> HIDE DEF n, G
  <2> QED BY <1>1, <1>4, <1>5, UpTo
<1>7. \A m \in 0..n : Gathered(kept, s, S, T, m)
  BY <1>3, <1>6 DEF Gathered
<1> QED BY <1>2, <1>7

LEMMA AmongKeeps ==
    ASSUME NEW T, NEW s \in Seq(T), NEW S
    PROVE  Among(s, S) \in Seq(T) /\ Range(Among(s, S)) = Range(s) \cap S
<1>1. PICK kept : /\ Among(s, S) = kept[Len(s)]
                  /\ \A m \in 0..Len(s) : Gathered(kept, s, S, T, m)
  BY AmongGrows
<1>2. Len(s) \in 0..Len(s) /\ {s[j] : j \in 1..Len(s)} = Range(s)
  BY DEF Range
<1> QED BY <1>1, <1>2 DEF Gathered

-----------------------------------------------------------------------------
(* Rotation. *)

LEMMA Remainder == ASSUME NEW n \in Nat \ {0}, NEW x \in Nat
                   PROVE  /\ x % n \in 0..(n - 1) /\ x \div n \in Nat
                          /\ x = n * (x \div n) + (x % n)
OBVIOUS

LEMMA RemainderOf ==
    ASSUME NEW n \in Nat \ {0}, NEW q \in Nat, NEW r \in 0..(n - 1)
    PROVE  (n * q + r) % n = r
BY Z3

LEMMA TurnReaches ==
    ASSUME NEW n \in Nat \ {0}, NEW t \in Nat, NEW k \in 1..n
    PROVE  \E i \in 1..n : ((t + i - 1) % n) + 1 = k
<1> DEFINE q == t \div n
           r == t % n
<1>1. r \in 0..(n - 1) /\ q \in Nat /\ t = n * q + r
  BY Remainder
<1> HIDE DEF q, r
<1>2. CASE k - 1 >= r
  <2> DEFINE i == k - r
  <2>1. i \in 1..n /\ k - 1 \in 0..(n - 1) /\ n * q \in Nat
    BY <1>1, <1>2
  <2>2. t + i - 1 = n * q + (k - 1)
    BY <1>1
  <2>3. (n * q + (k - 1)) % n = k - 1
    BY <1>1, <2>1, RemainderOf
  <2>4. ((t + i - 1) % n) + 1 = k
    BY <2>2, <2>3
  <2> QED BY <2>1, <2>4
<1>3. CASE k - 1 < r
  <2> DEFINE i == k - r + n
  <2>1. i \in 1..n /\ k - 1 \in 0..(n - 1) /\ n * q \in Nat /\ q + 1 \in Nat
    BY <1>1, <1>3
  <2>2. n * (q + 1) = n * q + n
    BY <1>1
  <2>3. t + i - 1 = n * (q + 1) + (k - 1)
    BY <1>1, <2>1, <2>2
  <2>4. (n * (q + 1) + (k - 1)) % n = k - 1
    BY <2>1, RemainderOf
  <2>5. ((t + i - 1) % n) + 1 = k
    BY <2>3, <2>4
  <2> QED BY <2>1, <2>5
<1> QED BY <1>1, <1>2, <1>3

\* A rotation keeps the elements of the list.
LEMMA RotateKeeps ==
    ASSUME NEW T, NEW s \in Seq(T), NEW t \in Nat
    PROVE  Rotate(s, t) \in Seq(T) /\ Range(Rotate(s, t)) = Range(s)
<1> DEFINE n == Len(s)
           at(i) == ((t + i - 1) % n) + 1
<1>1. n \in Nat /\ DOMAIN s = 1..n /\ \A i \in 1..n : s[i] \in T
  OBVIOUS
<1>2. Rotate(s, t) = [i \in 1..n |-> s[at(i)]]
  BY DEF Rotate
<1>3. \A i \in 1..n : at(i) \in 1..n
  <2> SUFFICES ASSUME NEW i \in 1..n PROVE at(i) \in 1..n
    OBVIOUS
  <2>1. n \in Nat \ {0} /\ t + i - 1 \in Nat
    BY <1>1
  <2> HIDE DEF n
  <2>2. (t + i - 1) % n \in 0..(n - 1)
    BY <2>1, Remainder
  <2> QED BY <1>1, <2>2
<1>4. \A k \in 1..n : \E i \in 1..n : at(i) = k
  <2> SUFFICES ASSUME NEW k \in 1..n PROVE \E i \in 1..n : at(i) = k
    OBVIOUS
  <2>1. n \in Nat \ {0}
    BY <1>1
  <2> HIDE DEF n
  <2> QED BY <2>1, TurnReaches
<1> HIDE DEF n, at
<1>5. [i \in 1..n |-> s[at(i)]] \in Seq(T)
  BY <1>1, <1>3
<1>6. Range([i \in 1..n |-> s[at(i)]]) = Range(s)
  BY <1>1, <1>3, <1>4 DEF Range
<1> QED BY <1>2, <1>5, <1>6

\* Those a plan asks with model.
Asked(plan, model) == {plan[i].cred : i \in {j \in 1..Len(plan) : plan[j].model = model}}

Entries(T) == [cred : T, model : Range(Models) \cup {Default}]

LEMMA CandidatesAsk ==
    ASSUME NEW T, NEW s \in Seq(T), NEW m \in Range(Models) \cup {Default}
    PROVE  Candidates(s, m) \in Seq(Entries(T)) /\ Asked(Candidates(s, m), m) = Range(s)
<1> DEFINE c == [i \in 1..Len(s) |-> [cred |-> s[i], model |-> m]]
<1>1. Len(s) \in Nat /\ DOMAIN s = 1..Len(s) /\ \A i \in 1..Len(s) : s[i] \in T
  OBVIOUS
<1>2. \A i \in 1..Len(s) : c[i] \in Entries(T) /\ c[i].cred = s[i] /\ c[i].model = m
  BY <1>1 DEF Entries
<1>3. c \in Seq(Entries(T)) /\ Len(c) = Len(s)
  BY <1>1, <1>2
<1>4. Candidates(s, m) = c
  BY DEF Candidates
<1> HIDE DEF c
<1>5. Asked(c, m) = Range(s)
  BY <1>1, <1>2, <1>3 DEF Asked, Range
<1> QED BY <1>3, <1>4, <1>5

LEMMA AlternativesAsk ==
    ASSUME NEW T, NEW keys \in Seq(T), NEW models \in Seq(Range(Models))
    PROVE  Alternatives(keys, models) \in Seq(Entries(T))
<1> DEFINE n == Len(keys)
           k == Len(models)
           key(i) == ((i - 1) % n) + 1
           model(i) == ((i - 1) \div n) + 1
<1>1. /\ n \in Nat /\ \A i \in 1..n : keys[i] \in T
      /\ k \in Nat /\ \A i \in 1..k : models[i] \in Range(Models)
  OBVIOUS
<1>2. Alternatives(keys, models)
        = [i \in 1..(n * k) |-> [cred |-> keys[key(i)], model |-> models[model(i)]]]
  BY DEF Alternatives
<1> HIDE DEF n, k
<1>3. n * k \in Nat /\ (n = 0 => n * k = 0)
  BY <1>1
<1>4. ASSUME NEW i \in 1..(n * k) PROVE key(i) \in 1..n /\ model(i) \in 1..k
  <2>1. n \in Nat \ {0} /\ i - 1 \in Nat /\ i - 1 < n * k
    BY <1>1, <1>3
  <2> DEFINE q == (i - 1) \div n
             r == (i - 1) % n
  <2>2. r \in 0..(n - 1) /\ q \in Nat /\ i - 1 = n * q + r
    BY <2>1, Remainder
  <2> HIDE DEF q, r
  <2>3. q < k
    <3> SUFFICES ASSUME q >= k PROVE FALSE
      BY <1>1, <2>2
    <3>1. n * q >= n * k
      BY <1>1, <2>1, <2>2
    <3> QED BY <1>1, <1>3, <2>1, <2>2, <3>1
  <2> QED BY <1>1, <2>1, <2>2, <2>3 DEF q, r
<1> HIDE DEF key, model
<1>5. \A i \in 1..(n * k) :
        [cred |-> keys[key(i)], model |-> models[model(i)]] \in Entries(T)
  BY <1>1, <1>4 DEF Entries
<1> QED BY <1>2, <1>3, <1>5

LEMMA AskedConcat ==
    ASSUME NEW T, NEW a \in Seq(Entries(T)), NEW b \in Seq(Entries(T)), NEW m
    PROVE  a \o b \in Seq(Entries(T)) /\ Asked(a, m) \cup Asked(b, m) \subseteq Asked(a \o b, m)
<1>1. /\ a \o b \in Seq(Entries(T)) /\ Len(a) \in Nat /\ Len(b) \in Nat
      /\ Len(a \o b) = Len(a) + Len(b)
  OBVIOUS
<1>2. \A i \in 1..Len(a) : (a \o b)[i] = a[i] /\ i \in 1..(Len(a) + Len(b))
  BY <1>1
<1>3. \A i \in 1..Len(b) : (a \o b)[Len(a) + i] = b[i] /\ Len(a) + i \in 1..(Len(a) + Len(b))
  BY <1>1
<1> DEFINE c == a \o b
<1>4. /\ \A i \in 1..Len(a) : c[i] = a[i] /\ i \in 1..Len(c)
      /\ \A i \in 1..Len(b) : c[Len(a) + i] = b[i] /\ Len(a) + i \in 1..Len(c)
  BY <1>1, <1>2, <1>3
<1> HIDE DEF c
<1>5. Asked(a, m) \subseteq Asked(c, m)
  BY <1>4 DEF Asked
<1>6. Asked(b, m) \subseteq Asked(c, m)
  BY <1>4 DEF Asked
<1> QED BY <1>1, <1>5, <1>6 DEF c

\* A front without anyone that was marked all along, before a back without
\* anyone that was not.
LEMMA FrontAndBack ==
    ASSUME NEW s, NEW a \in Seq(Entries(Creds \ s.out)), NEW b \in Seq(Entries(Creds \ s.ok))
    PROVE  Ordered(a \o b, s)
<1> DEFINE p == a \o b
<1>4. /\ Len(a) \in Nat /\ Len(b) \in Nat /\ Len(p) = Len(a) + Len(b)
      /\ \A i \in 1..Len(a) : p[i] = a[i] /\ a[i] \in Entries(Creds \ s.out)
      /\ \A i \in 1..Len(b) : b[i] \in Entries(Creds \ s.ok)
  OBVIOUS
<1>5. \A T : \A e \in Entries(T) : e.cred \in T
  BY DEF Entries
<1>1. /\ Len(a) \in Nat /\ Len(b) \in Nat /\ Len(p) = Len(a) + Len(b)
      /\ \A i \in 1..Len(a) : p[i] = a[i] /\ a[i].cred \notin s.out
      /\ \A i \in 1..Len(b) : b[i].cred \notin s.ok
  BY <1>4, <1>5, Zenon
<1>2. \A i \in 1..Len(p) : i \notin 1..Len(a) => p[i] = b[i - Len(a)] /\ i - Len(a) \in 1..Len(b)
  BY <1>1
<1>3. \A i, j \in 1..Len(p) : i < j /\ i \notin 1..Len(a) => j \notin 1..Len(a)
  BY <1>1
<1> HIDE DEF p
<1> QED BY <1>1, <1>2, <1>3 DEF Ordered, p

LEMMA FrontAndTwo ==
    ASSUME NEW s, NEW a \in Seq(Entries(Creds \ s.out)), NEW b \in Seq(Entries(Creds \ s.ok)),
           NEW c \in Seq(Entries(Creds \ s.ok))
    PROVE  Ordered((a \o b) \o c, s)
<1>1. \A T \in SUBSET Creds : Entries(T) \subseteq Entries(Creds)
  BY DEF Entries
<1>2. a \in Seq(Entries(Creds)) /\ b \in Seq(Entries(Creds)) /\ c \in Seq(Entries(Creds))
  BY <1>1
<1>3. (a \o b) \o c = a \o (b \o c)
  BY <1>2
<1>4. b \o c \in Seq(Entries(Creds \ s.ok))
  OBVIOUS
<1> QED BY <1>3, <1>4, FrontAndBack

LEMMA InRange ==
    ASSUME NEW T, NEW U, NEW s \in Seq(T), Range(s) \subseteq U PROVE s \in Seq(U)
<1>1. Len(s) \in Nat /\ s = [i \in 1..Len(s) |-> s[i]] /\ \A i \in 1..Len(s) : s[i] \in U
  BY DEF Range
<1> QED BY <1>1

LEMMA RangeWithin == ASSUME NEW T, NEW s \in Seq(T) PROVE Range(s) \subseteq T
BY DEF Range

\* The plan of candidate_failover_targets: it asks everyone it was given, and
\* those in the back come last.
LEMMA TargetsPlan ==
    ASSUME NEW s, NEW direct \in Seq(Creds \ s.out), NEW keys \in Seq(Creds \ s.out),
           NEW models \in Seq(Range(Models)), NEW cookies \in Seq(Creds \ s.out),
           NEW spent \in Seq(Creds \ s.ok), NEW spentOr \in Seq(Creds \ s.ok)
    PROVE  LET p == Targets(direct, keys, models, cookies, spent, spentOr)
           IN  /\ p \in Seq(Entries(Creds)) /\ Ordered(p, s)
               /\ Range(direct) \cup Range(keys) \cup Range(cookies) \cup Range(spent)
                    \cup Range(spentOr) \subseteq Asked(p, Default)
<1> DEFINE T == Creds \ s.out
           U == Creds \ s.ok
           c1 == Candidates(direct, Default)
           c2 == Candidates(keys, Default)
           c3 == Alternatives(keys, models)
           c4 == Candidates(cookies, Default)
           c5 == Candidates(spent, Default)
           c6 == Candidates(spentOr, Default)
           front == ((c1 \o c2) \o c3) \o c4
           p == (front \o c5) \o c6
<1>1. /\ c1 \in Seq(Entries(T)) /\ Asked(c1, Default) = Range(direct)
      /\ c2 \in Seq(Entries(T)) /\ Asked(c2, Default) = Range(keys)
      /\ c3 \in Seq(Entries(T))
      /\ c4 \in Seq(Entries(T)) /\ Asked(c4, Default) = Range(cookies)
      /\ c5 \in Seq(Entries(U)) /\ Asked(c5, Default) = Range(spent)
      /\ c6 \in Seq(Entries(U)) /\ Asked(c6, Default) = Range(spentOr)
  BY CandidatesAsk, AlternativesAsk
<1>2. Targets(direct, keys, models, cookies, spent, spentOr) = p
  BY DEF Targets
<1> HIDE DEF c1, c2, c3, c4, c5, c6
<1>3. ASSUME NEW V \in SUBSET Creds, NEW c \in Seq(Entries(V)) PROVE c \in Seq(Entries(Creds))
  <2>1. Entries(V) \subseteq Entries(Creds)
    BY DEF Entries
  <2> QED BY <2>1
<1>4. /\ front \in Seq(Entries(T))
      /\ Range(direct) \cup Range(keys) \cup Range(cookies) \subseteq Asked(front, Default)
  <2>1. c1 \o c2 \in Seq(Entries(T)) /\ Range(direct) \cup Range(keys) \subseteq Asked(c1 \o c2, Default)
    BY <1>1, AskedConcat
  <2> DEFINE d == c1 \o c2
  <2> HIDE DEF d
  <2>2. d \o c3 \in Seq(Entries(T)) /\ Range(direct) \cup Range(keys) \subseteq Asked(d \o c3, Default)
    BY <1>1, <2>1, AskedConcat DEF d
  <2> DEFINE e == d \o c3
  <2> HIDE DEF e
  <2>3. /\ e \o c4 \in Seq(Entries(T))
        /\ Range(direct) \cup Range(keys) \cup Range(cookies) \subseteq Asked(e \o c4, Default)
    BY <1>1, <2>2, AskedConcat DEF e
  <2> QED BY <2>3 DEF e, d
<1> HIDE DEF front
<1>5. /\ front \in Seq(Entries(Creds)) /\ c5 \in Seq(Entries(Creds)) /\ c6 \in Seq(Entries(Creds))
  BY <1>1, <1>3, <1>4
<1>6. /\ p \in Seq(Entries(Creds))
      /\ Asked(front, Default) \cup Asked(c5, Default) \cup Asked(c6, Default)
            \subseteq Asked(p, Default)
  <2>1. /\ front \o c5 \in Seq(Entries(Creds))
        /\ Asked(front, Default) \cup Asked(c5, Default) \subseteq Asked(front \o c5, Default)
    BY <1>5, AskedConcat
  <2> DEFINE d == front \o c5
  <2> HIDE DEF d
  <2>2. d \o c6 \in Seq(Entries(Creds))
        /\ Asked(d, Default) \cup Asked(c6, Default) \subseteq Asked(d \o c6, Default)
    BY <1>5, <2>1, AskedConcat DEF d
  <2> QED BY <2>1, <2>2 DEF d
<1>7. Ordered(p, s)
  BY <1>1, <1>4, FrontAndTwo
<1> HIDE DEF p
<1> QED BY <1>1, <1>2, <1>4, <1>6, <1>7

-----------------------------------------------------------------------------
(* What holds all along. *)

Stages == {"idle", "begun", "split", "classifying", "injecting", "trying", "answered"}
PoolRecords == [accounts : Seq(Direct), ors : Seq(ApiKeys \cup Cookies),
                exhausted : [Creds -> Marks], turn : [Tiers -> 0..(Lap - 1)]]
ReqRecords == [pc : Stages, pool : Pools, inbound : InboundKeys \cup {NoKey},
               fine : Seq(Creds), spent : Seq(Creds), todo : Seq(Creds), keys : Seq(Creds),
               cookies : Seq(Creds), spentOr : Seq(Creds), plan : Seq(Entries(Creds)),
               status : Nat]

FailoverTyped ==
    /\ pool \in [Pools -> PoolRecords]
    /\ req \in [Workers -> ReqRecords]
    /\ started \in 0..MaxRequests
    /\ owed \in [Workers -> SUBSET Creds]
    /\ steady \in [Workers -> [ok : SUBSET Creds, out : SUBSET Creds]]

\* Who is owed an attempt is still to be planned or to be tried.
Covered(r, due, p) ==
    /\ r.pc = "begun" => due \subseteq Range(p.accounts) \cup Range(AllOr(p))
    /\ r.pc = "split" =>
        due \subseteq Range(r.fine) \cup Range(r.spent) \cup Range(AllOr(p))
    /\ r.pc = "classifying" =>
        due \subseteq Range(r.fine) \cup Range(r.spent) \cup Range(r.todo) \cup Range(r.keys)
                        \cup Range(r.cookies) \cup Range(r.spentOr)
    /\ r.pc \in {"injecting", "trying"} => due \subseteq Asked(r.plan, Default)
    /\ r.pc = "answered" /\ Retryable(r.status) => due = {}

WithMark(p, mark) == {c \in Creds : p.exhausted[c] = mark}

\* What was marked all along is among the marked, and the other way round.
Divided(r, s, p) ==
    r.pc \in {"begun", "split", "classifying"} =>
        /\ s.out \subseteq WithMark(p, "cooling")
        /\ s.ok \subseteq WithMark(p, "none")
        /\ r.fine \in Seq(Creds \ s.out)
        /\ r.keys \in Seq(Creds \ s.out)
        /\ r.cookies \in Seq(Creds \ s.out)
        /\ r.spent \in Seq(Creds \ s.ok)
        /\ r.spentOr \in Seq(Creds \ s.ok)

Proper(w, r) ==
    /\ r.pool \in {w, Shared}
    /\ r.pc = "trying" => r.plan # <<>>
    /\ r.pc = "answered" <=> r.status # 0
    /\ r.pc = "injecting" => r.inbound # NoKey

WorkerInv(w) ==
    /\ Proper(w, req[w])
    /\ Covered(req[w], owed[w], pool[req[w].pool])
    /\ Divided(req[w], steady[w], pool[req[w].pool])

FailoverInv == FailoverTyped /\ \A w \in Workers : WorkerInv(w)

-----------------------------------------------------------------------------
LEMMA AllOrRange ==
    ASSUME NEW p \in PoolRecords
    PROVE  /\ AllOr(p) \in Seq(Creds)
           /\ Range(AllOr(p)) = IF OrEnabled
                                THEN Range(p.ors) \cup Range(ConfigKey) \cup Range(ConfigCookie)
                                ELSE {}
<1> DEFINE new == Creds \ Range(p.ors)
           a == Among(ConfigKey, new)
           b == Among(ConfigCookie, new)
<1>1. /\ ConfigKey \in Seq(Creds) /\ ConfigCookie \in Seq(Creds) /\ p.ors \in Seq(Creds)
  BY FailoverAssumption DEF Creds, PoolRecords
<1>2. /\ a \in Seq(Creds) /\ Range(a) = Range(ConfigKey) \cap new
      /\ b \in Seq(Creds) /\ Range(b) = Range(ConfigCookie) \cap new
  BY <1>1, AmongKeeps
<1>3. /\ Range(ConfigKey) \subseteq Creds /\ Range(ConfigCookie) \subseteq Creds
      /\ Range(p.ors) \subseteq Creds
  BY <1>1, RangeWithin
<1>4. AllOr(p) = IF OrEnabled THEN (a \o p.ors) \o b ELSE <<>>
  BY DEF AllOr
<1> HIDE DEF a, b
<1>5. a \o p.ors \in Seq(Creds) /\ Range(a \o p.ors) = Range(a) \cup Range(p.ors)
  BY <1>1, <1>2, RangeOfConcat
<1> DEFINE d == a \o p.ors
<1>8. d \in Seq(Creds)
  BY <1>5
<1> HIDE DEF d
<1>6. d \o b \in Seq(Creds) /\ Range(d \o b) = Range(d) \cup Range(b)
  BY <1>2, <1>8, RangeOfConcat
<1>7. Range(<<>>) = {} /\ <<>> \in Seq(Creds)
  BY DEF Range
<1> QED BY <1>2, <1>3, <1>4, <1>5, <1>6, <1>7 DEF d

LEMMA SameOrs ==
    ASSUME NEW p, NEW q, p.ors = q.ors PROVE AllOr(p) = AllOr(q)
BY Zenon DEF AllOr

\* While the pool of a thread keeps its accounts, and what changes its mark is
\* steady no more, the thread is where it was.
LEMMA StaysWell ==
    ASSUME NEW r \in ReqRecords, NEW due, NEW p \in PoolRecords, NEW q \in PoolRecords, NEW s, NEW t,
           Covered(r, due, p), Divided(r, s, p),
           Range(p.accounts) \subseteq Range(q.accounts), Range(p.ors) \subseteq Range(q.ors),
           t.out \subseteq s.out, t.ok \subseteq s.ok,
           t.out \cap WithMark(p, "cooling") \subseteq WithMark(q, "cooling"),
           t.ok \cap WithMark(p, "none") \subseteq WithMark(q, "none")
    PROVE  Covered(r, due, q) /\ Divided(r, t, q)
<1>1. Range(AllOr(p)) \subseteq Range(AllOr(q))
  BY AllOrRange
<1>2. Covered(r, due, q)
  BY <1>1 DEF Covered
<1>3. ASSUME NEW x \in Seq(Creds \ s.out) PROVE x \in Seq(Creds \ t.out)
  <2>1. Creds \ s.out \subseteq Creds \ t.out
    OBVIOUS
  <2> QED BY <2>1
<1>4. ASSUME NEW x \in Seq(Creds \ s.ok) PROVE x \in Seq(Creds \ t.ok)
  <2>1. Creds \ s.ok \subseteq Creds \ t.ok
    OBVIOUS
  <2> QED BY <2>1
<1>5. Divided(r, t, q)
  BY <1>3, <1>4 DEF Divided
<1> QED BY <1>2, <1>5

LEMMA IdleIsRequest == /\ Idle \in ReqRecords /\ Idle.pc = "idle" /\ Idle.pool = Shared
                       /\ Idle.status = 0 /\ Idle.plan = <<>> /\ Idle.fine = <<>>
                       /\ Idle.spent = <<>> /\ Idle.keys = <<>> /\ Idle.cookies = <<>>
                       /\ Idle.spentOr = <<>> /\ Idle.todo = <<>> /\ Idle.inbound = NoKey
BY DEF Idle, ReqRecords, Stages, Pools

LEMMA FreshPool ==
    ASSUME NEW a \in Seq(Direct), NEW o \in Seq(ApiKeys \cup Cookies)
    PROVE  NewPool(a, o) \in PoolRecords
BY FailoverAssumption DEF NewPool, PoolRecords, Marks

LEMMA FailoverStarts == FailoverInit => FailoverInv
<1> SUFFICES ASSUME FailoverInit PROVE FailoverInv
  OBVIOUS
<1>1. \A a \in InitAccounts : a \in Seq(Direct)
  BY FailoverAssumption
<1>2. <<>> \in Seq(Direct) /\ <<>> \in Seq(ApiKeys \cup Cookies) /\ InitOr \in Seq(ApiKeys \cup Cookies)
  BY FailoverAssumption
<1>3. pool \in [Pools -> PoolRecords]
  BY <1>1, <1>2, FreshPool DEF FailoverInit
<1>4. req \in [Workers -> ReqRecords] /\ \A w \in Workers : req[w] = Idle
  BY IdleIsRequest DEF FailoverInit
<1>5. FailoverTyped
  BY <1>3, <1>4, FailoverAssumption DEF FailoverInit, FailoverTyped, NothingSteady
<1>6. ASSUME NEW w \in Workers PROVE WorkerInv(w)
  BY <1>4, IdleIsRequest DEF WorkerInv, Proper, Covered, Divided
<1> QED BY <1>5, <1>6 DEF FailoverInv

-----------------------------------------------------------------------------
\* Thread w goes on as n, and the others stay well.
LEMMA WorkerMoves ==
    ASSUME FailoverInv, NEW w \in Workers, NEW n \in ReqRecords,
           req' = [req EXCEPT ![w] = n], pool' \in [Pools -> PoolRecords],
           started' \in 0..MaxRequests, owed' \in [Workers -> SUBSET Creds],
           steady' \in [Workers -> [ok : SUBSET Creds, out : SUBSET Creds]],
           Proper(w, n), Covered(n, owed'[w], pool'[n.pool]), Divided(n, steady'[w], pool'[n.pool]),
           \A v \in Workers \ {w} :
                /\ owed'[v] = owed[v]
                /\ Covered(req[v], owed[v], pool'[req[v].pool])
                /\ Divided(req[v], steady'[v], pool'[req[v].pool])
    PROVE  FailoverInv'
<1>1. /\ req' \in [Workers -> ReqRecords] /\ req'[w] = n
      /\ \A v \in Workers \ {w} : req'[v] = req[v]
  BY DEF FailoverInv, FailoverTyped
<1>2. FailoverTyped'
  BY <1>1 DEF FailoverTyped
<1>3. ASSUME NEW v \in Workers PROVE WorkerInv(v)'
  <2>1. CASE v = w
    <3>1. Proper(v, req'[v]) /\ Covered(req'[v], owed'[v], pool'[req'[v].pool])
          /\ Divided(req'[v], steady'[v], pool'[req'[v].pool])
      BY <1>1, <2>1
    <3> QED BY <3>1 DEF WorkerInv, Proper, Covered, Divided
  <2>2. CASE v # w
    <3>1. Proper(v, req'[v]) /\ Covered(req'[v], owed'[v], pool'[req'[v].pool])
          /\ Divided(req'[v], steady'[v], pool'[req'[v].pool])
      BY <1>1, <2>2 DEF FailoverInv, WorkerInv
    <3> QED BY <3>1 DEF WorkerInv, Proper, Covered, Divided
  <2> QED BY <2>1, <2>2
<1> QED BY <1>2, <1>3 DEF FailoverInv

\* Only marks, turns and new accounts change a pool while others plan from it.
PoolGrows(p, q) ==
    /\ Range(p.accounts) \subseteq Range(q.accounts)
    /\ Range(p.ors) \subseteq Range(q.ors)

SteadyIn(t, p, q) ==
    /\ t.out \cap WithMark(p, "cooling") \subseteq WithMark(q, "cooling")
    /\ t.ok \cap WithMark(p, "none") \subseteq WithMark(q, "none")

LEMMA OtherStays ==
    ASSUME FailoverInv, NEW v \in Workers, NEW q \in PoolRecords,
           PoolGrows(pool[req[v].pool], q), NEW t,
           t.out \subseteq steady[v].out, t.ok \subseteq steady[v].ok,
           SteadyIn(t, pool[req[v].pool], q)
    PROVE  Covered(req[v], owed[v], q) /\ Divided(req[v], t, q)
<1>1. /\ req[v] \in ReqRecords /\ pool[req[v].pool] \in PoolRecords
      /\ Covered(req[v], owed[v], pool[req[v].pool])
      /\ Divided(req[v], steady[v], pool[req[v].pool])
  BY DEF FailoverInv, FailoverTyped, WorkerInv, Proper, Pools
<1> DEFINE r == req[v]
           p == pool[req[v].pool]
           s == steady[v]
           due == owed[v]
<1>2. /\ r \in ReqRecords /\ p \in PoolRecords /\ Covered(r, due, p) /\ Divided(r, s, p)
      /\ Range(p.accounts) \subseteq Range(q.accounts) /\ Range(p.ors) \subseteq Range(q.ors)
      /\ t.out \subseteq s.out /\ t.ok \subseteq s.ok
      /\ t.out \cap WithMark(p, "cooling") \subseteq WithMark(q, "cooling")
      /\ t.ok \cap WithMark(p, "none") \subseteq WithMark(q, "none")
  BY <1>1 DEF PoolGrows, SteadyIn
<1> HIDE DEF r, p, s, due
<1>3. Covered(r, due, q) /\ Divided(r, t, q)
  BY <1>2, StaysWell
<1> QED BY <1>3 DEF r, due

LEMMA PoolFields ==
    ASSUME NEW p \in PoolRecords
    PROVE  /\ p.accounts \in Seq(Direct) /\ p.accounts \in Seq(Creds)
           /\ p.ors \in Seq(ApiKeys \cup Cookies)
           /\ p.exhausted \in [Creds -> Marks]
           /\ p.turn \in [Tiers -> 0..(Lap - 1)] /\ \A t \in Tiers : p.turn[t] \in Nat
           /\ p.turn["direct"] \in Nat
<1>1. /\ p.accounts \in Seq(Direct) /\ p.ors \in Seq(ApiKeys \cup Cookies)
      /\ p.exhausted \in [Creds -> Marks] /\ p.turn \in [Tiers -> 0..(Lap - 1)]
  BY DEF PoolRecords
<1>2. p.accounts \in Seq(Creds)
  BY <1>1 DEF Creds
<1>3. \A t \in Tiers : p.turn[t] \in Nat
  BY <1>1, FailoverAssumption
<1>4. "direct" \in Tiers
  BY DEF Tiers
<1> QED BY <1>1, <1>2, <1>3, <1>4

SameButTurns(p, q) == q.accounts = p.accounts /\ q.ors = p.ors /\ q.exhausted = p.exhausted

\* The steps of planning change nothing in a pool but its counters.
LEMMA Plans ==
    ASSUME FailoverInv, NEW w \in Workers, NEW n \in ReqRecords,
           req' = [req EXCEPT ![w] = n], pool' \in [Pools -> PoolRecords],
           \A p \in Pools : SameButTurns(pool[p], pool'[p]),
           UNCHANGED <<started, owed>>,
           steady' \in [Workers -> [ok : SUBSET Creds, out : SUBSET Creds]],
           \A v \in Workers \ {w} : steady'[v] = steady[v],
           Proper(w, n), Covered(n, owed[w], pool'[n.pool]), Divided(n, steady'[w], pool'[n.pool])
    PROVE  FailoverInv'
<1>1. started' \in 0..MaxRequests /\ owed' \in [Workers -> SUBSET Creds]
  BY DEF FailoverInv, FailoverTyped
<1>2. ASSUME NEW v \in Workers \ {w}
      PROVE  /\ owed'[v] = owed[v]
             /\ Covered(req[v], owed[v], pool'[req[v].pool])
             /\ Divided(req[v], steady'[v], pool'[req[v].pool])
  <2>1. req[v].pool \in Pools
    BY DEF FailoverInv, FailoverTyped, ReqRecords
  <2>2. /\ PoolGrows(pool[req[v].pool], pool'[req[v].pool])
        /\ SteadyIn(steady[v], pool[req[v].pool], pool'[req[v].pool])
    BY <2>1 DEF PoolGrows, SteadyIn, SameButTurns, WithMark
  <2> QED BY <2>1, <2>2, OtherStays
<1>3. Covered(n, owed'[w], pool'[n.pool])
  OBVIOUS
<1> HIDE DEF FailoverInv
<1> QED BY <1>1, <1>2, <1>3, WorkerMoves

\* The pool of a thread, with its counters at turn.
LEMMA TurnsDrawn ==
    ASSUME FailoverTyped, NEW p \in Pools, NEW turn \in [Tiers -> 0..(Lap - 1)],
           pool' = [pool EXCEPT ![p].turn = turn]
    PROVE  /\ pool' \in [Pools -> PoolRecords]
           /\ \A q \in Pools : SameButTurns(pool[q], pool'[q])
<1>1. /\ pool' = [pool EXCEPT ![p] = [pool[p] EXCEPT !.turn = turn]]
      /\ pool \in [Pools -> PoolRecords] /\ pool[p] \in PoolRecords
  BY DEF FailoverTyped
<1>2. /\ [pool[p] EXCEPT !.turn = turn] \in PoolRecords
      /\ SameButTurns(pool[p], [pool[p] EXCEPT !.turn = turn])
  BY <1>1 DEF PoolRecords, SameButTurns
<1>3. \A q \in Pools : SameButTurns(pool[q], pool[q])
  BY DEF SameButTurns
<1> QED BY <1>1, <1>2, <1>3

LEMMA AdvanceTyped ==
    ASSUME NEW turn \in [Tiers -> 0..(Lap - 1)], NEW tier \in Tiers, NEW s
    PROVE  Advance(turn, tier, s) \in [Tiers -> 0..(Lap - 1)]
<1>1. turn[tier] + 1 \in Nat /\ Lap \in Nat \ {0}
  BY FailoverAssumption
<1>2. (turn[tier] + 1) % Lap \in 0..(Lap - 1)
  BY <1>1, Remainder
<1> QED BY <1>2 DEF Advance

LEMMA SplitDirectKeeps == ASSUME FailoverInv, NEW w \in Workers, SplitDirect(w) PROVE FailoverInv'
<1> DEFINE r == req[w]
           s == steady[w]
           p == pool[req[w].pool]
           fine == Among(p.accounts, Creds \ Known(p))
           spent == Among(p.accounts, Known(p))
           turned == Rotate(fine, p.turn["direct"])
           n == [r EXCEPT !.pc = "split", !.spent = spent, !.fine = turned]
<1>1. /\ r \in ReqRecords /\ r.pool \in Pools /\ p \in PoolRecords /\ r.pc = "begun"
      /\ WorkerInv(w) /\ steady \in [Workers -> [ok : SUBSET Creds, out : SUBSET Creds]]
  BY DEF FailoverInv, FailoverTyped, ReqRecords, SplitDirect
<1>2. /\ p.accounts \in Seq(Direct) /\ p.accounts \in Seq(Creds) /\ p.turn["direct"] \in Nat
      /\ p.turn \in [Tiers -> 0..(Lap - 1)]
  BY <1>1, PoolFields
<1>3. /\ fine \in Seq(Creds) /\ Range(fine) = Range(p.accounts) \cap (Creds \ Known(p))
      /\ spent \in Seq(Creds) /\ Range(spent) = Range(p.accounts) \cap Known(p)
  BY <1>2, AmongKeeps
<1>4. turned \in Seq(Creds) /\ Range(turned) = Range(fine)
  BY <1>2, <1>3, RotateKeeps
<1>5. s.out \subseteq Known(p) /\ s.ok \cap Known(p) = {}
  BY <1>1 DEF WorkerInv, Divided, WithMark, Known
<1>6. turned \in Seq(Creds \ s.out) /\ spent \in Seq(Creds \ s.ok)
  <2>1. Range(turned) \subseteq Creds \ s.out /\ Range(spent) \subseteq Creds \ s.ok
    BY <1>3, <1>4, <1>5, RangeWithin
  <2> HIDE DEF turned, spent, s
  <2> QED BY <1>3, <1>4, <2>1, InRange
<1>7. Range(p.accounts) = Range(turned) \cup Range(spent)
  <2>1. Range(p.accounts) \subseteq Creds
    BY <1>2, RangeWithin
  <2> QED BY <1>3, <1>4, <2>1
<1> DEFINE turn == Advance(p.turn, "direct", fine)
<1>8. pool' = [pool EXCEPT ![r.pool].turn = turn]
  BY <1>1 DEF SplitDirect, FailoverInv, FailoverTyped
<1>9. turn \in [Tiers -> 0..(Lap - 1)]
  BY <1>2, AdvanceTyped DEF Tiers
<1>10. req' = [req EXCEPT ![w] = n] /\ UNCHANGED <<started, owed, steady>>
  BY DEF SplitDirect
<1> HIDE DEF turned, spent, turn, fine
<1>11. /\ pool' \in [Pools -> PoolRecords]
       /\ \A q \in Pools : SameButTurns(pool[q], pool'[q])
  BY <1>1, <1>8, <1>9, TurnsDrawn DEF FailoverInv
<1>12. /\ n \in ReqRecords /\ n.pc = "split" /\ n.pool = r.pool /\ n.fine = turned
       /\ n.spent = spent /\ n.keys = r.keys /\ n.cookies = r.cookies /\ n.spentOr = r.spentOr
       /\ n.status = r.status
  BY <1>1, <1>3, <1>4 DEF ReqRecords, Stages
<1> HIDE DEF n
<1>13. Proper(w, n)
  BY <1>1, <1>12 DEF WorkerInv, Proper
<1> DEFINE q == pool'[r.pool]
<1>14. SameButTurns(p, q) /\ AllOr(q) = AllOr(p)
  BY <1>1, <1>11, SameOrs DEF SameButTurns
<1> HIDE DEF q
<1>15. Covered(n, owed[w], q)
  BY <1>1, <1>7, <1>12, <1>14 DEF WorkerInv, Covered
<1>16. Divided(n, s, q)
  BY <1>1, <1>6, <1>12, <1>14 DEF WorkerInv, Divided, SameButTurns, WithMark
<1>17. steady' = steady
  BY <1>10
<1> QED BY <1>1, <1>10, <1>11, <1>12, <1>13, <1>15, <1>16, <1>17, Plans DEF q

LEMMA TakeOrKeeps == ASSUME FailoverInv, NEW w \in Workers, TakeOr(w) PROVE FailoverInv'
<1> DEFINE r == req[w]
           p == pool[req[w].pool]
           all == AllOr(p)
           n == [r EXCEPT !.pc = "classifying", !.todo = all]
<1>1. /\ r \in ReqRecords /\ r.pool \in Pools /\ p \in PoolRecords /\ r.pc = "split"
      /\ WorkerInv(w) /\ steady \in [Workers -> [ok : SUBSET Creds, out : SUBSET Creds]]
      /\ pool \in [Pools -> PoolRecords]
  BY DEF FailoverInv, FailoverTyped, ReqRecords, TakeOr
<1>2. all \in Seq(Creds)
  BY <1>1, AllOrRange
<1>3. req' = [req EXCEPT ![w] = n] /\ UNCHANGED <<pool, started, owed, steady>>
  BY DEF TakeOr, history
<1>4. \A q \in Pools : SameButTurns(pool[q], pool'[q])
  BY <1>3 DEF SameButTurns
<1> HIDE DEF all
<1>5. /\ n \in ReqRecords /\ n.pc = "classifying" /\ n.pool = r.pool /\ n.fine = r.fine
      /\ n.spent = r.spent /\ n.keys = r.keys /\ n.cookies = r.cookies /\ n.spentOr = r.spentOr
      /\ n.todo = all /\ n.status = r.status
  BY <1>1, <1>2 DEF ReqRecords, Stages
<1> HIDE DEF n
<1>6. Proper(w, n)
  BY <1>1, <1>5 DEF WorkerInv, Proper
<1>7. Covered(n, owed[w], p) /\ Divided(n, steady[w], p)
  BY <1>1, <1>5 DEF WorkerInv, Covered, Divided, all
<1>8. p = pool'[n.pool] /\ steady' = steady /\ pool' \in [Pools -> PoolRecords]
  BY <1>1, <1>3, <1>5
<1> QED BY <1>1, <1>3, <1>4, <1>5, <1>6, <1>7, <1>8, Plans

LEMMA Extended ==
    ASSUME NEW T, NEW U, NEW s \in Seq(T), NEW c \in T, s \in Seq(T \ U), c \notin U
    PROVE  Append(s, c) \in Seq(T) /\ Append(s, c) \in Seq(T \ U)
           /\ Range(Append(s, c)) = Range(s) \cup {c}
BY RangeOfAppend

LEMMA ClassifyKeeps == ASSUME FailoverInv, NEW w \in Workers, Classify(w) PROVE FailoverInv'
<1> DEFINE r == req[w]
           p == pool[req[w].pool]
           s == steady[w]
           c == Head(r.todo)
           rest == Tail(r.todo)
           next == [r EXCEPT !.todo = rest]
<1>1. /\ r \in ReqRecords /\ r.pool \in Pools /\ p \in PoolRecords /\ r.pc = "classifying"
      /\ WorkerInv(w) /\ steady \in [Workers -> [ok : SUBSET Creds, out : SUBSET Creds]]
      /\ pool \in [Pools -> PoolRecords] /\ r.todo \in Seq(Creds) /\ r.todo # <<>>
  BY DEF FailoverInv, FailoverTyped, ReqRecords, Classify
<1>2. c \in Creds /\ rest \in Seq(Creds) /\ Range(r.todo) = Range(rest) \cup {c}
  <2> DEFINE x == r.todo
  <2>1. x \in Seq(Creds) /\ Len(x) \in Nat \ {0}
    BY <1>1
  <2> HIDE DEF x
  <2>2. /\ Head(x) \in Creds /\ Tail(x) \in Seq(Creds) /\ Head(x) = x[1]
        /\ DOMAIN x = 1..Len(x) /\ DOMAIN Tail(x) = 1..(Len(x) - 1)
        /\ \A i \in 1..(Len(x) - 1) : Tail(x)[i] = x[i + 1]
    BY <2>1
  <2>3. \A i \in 1..Len(x) : i = 1 \/ (i - 1 \in 1..(Len(x) - 1) /\ x[i] = Tail(x)[i - 1])
    BY <2>1, <2>2
  <2>4. Range(x) \subseteq Range(Tail(x)) \cup {Head(x)}
    <3> SUFFICES ASSUME NEW i \in 1..Len(x) PROVE x[i] \in Range(Tail(x)) \cup {Head(x)}
      BY <2>2 DEF Range
    <3>1. i - 1 \in 1..(Len(x) - 1) => Tail(x)[i - 1] \in Range(Tail(x))
      BY <2>2 DEF Range
    <3> QED BY <2>2, <2>3, <3>1
  <2>5. Range(Tail(x)) \subseteq Range(x) /\ Head(x) \in Range(x)
    BY <2>1, <2>2 DEF Range
  <2> QED BY <2>2, <2>4, <2>5 DEF x
<1>3. UNCHANGED <<pool, started, owed, steady>>
  BY DEF Classify, history
<1>4. \A q \in Pools : SameButTurns(pool[q], pool'[q])
  BY <1>3 DEF SameButTurns
<1> HIDE DEF c, rest
<1>5. next \in ReqRecords
  BY <1>1, <1>2 DEF ReqRecords
<1>6. /\ r.keys \in Seq(Creds) /\ r.cookies \in Seq(Creds) /\ r.spentOr \in Seq(Creds)
      /\ r.keys \in Seq(Creds \ s.out) /\ r.cookies \in Seq(Creds \ s.out)
      /\ r.spentOr \in Seq(Creds \ s.ok)
      /\ s.out \subseteq Known(p) /\ s.ok \cap Known(p) = {}
  BY <1>1 DEF WorkerInv, Divided, ReqRecords, WithMark, Known
<1> DEFINE spentOr == Append(r.spentOr, c)
           keys == Append(r.keys, c)
           cookies == Append(r.cookies, c)
<1>7. /\ c \in Known(p) => /\ spentOr \in Seq(Creds) /\ spentOr \in Seq(Creds \ s.ok)
                            /\ Range(spentOr) = Range(r.spentOr) \cup {c}
      /\ c \notin Known(p) => /\ keys \in Seq(Creds) /\ keys \in Seq(Creds \ s.out)
                               /\ Range(keys) = Range(r.keys) \cup {c}
                               /\ cookies \in Seq(Creds) /\ cookies \in Seq(Creds \ s.out)
                               /\ Range(cookies) = Range(r.cookies) \cup {c}
  <2> DEFINE out == s.out
             ok == s.ok
  <2>1. /\ r.keys \in Seq(Creds \ out) /\ r.cookies \in Seq(Creds \ out)
        /\ r.spentOr \in Seq(Creds \ ok) /\ c \in Creds
        /\ c \in Known(p) => c \notin ok
        /\ c \notin Known(p) => c \notin out
    BY <1>2, <1>6
  <2> HIDE DEF out, ok
  <2>2. c \in Known(p) => /\ spentOr \in Seq(Creds) /\ spentOr \in Seq(Creds \ ok)
                          /\ Range(spentOr) = Range(r.spentOr) \cup {c}
    BY <1>6, <2>1, Extended
  <2>3. c \notin Known(p) => /\ keys \in Seq(Creds) /\ keys \in Seq(Creds \ out)
                             /\ Range(keys) = Range(r.keys) \cup {c}
    BY <1>6, <2>1, Extended
  <2>4. c \notin Known(p) => /\ cookies \in Seq(Creds) /\ cookies \in Seq(Creds \ out)
                             /\ Range(cookies) = Range(r.cookies) \cup {c}
    BY <1>6, <2>1, Extended
  <2> QED BY <2>2, <2>3, <2>4 DEF out, ok
<1>8. \/ c \in Known(p) /\ req' = [req EXCEPT ![w] = [next EXCEPT !.spentOr = spentOr]]
      \/ c \notin Known(p) /\ req' = [req EXCEPT ![w] = [next EXCEPT !.keys = keys]]
      \/ c \notin Known(p) /\ req' = [req EXCEPT ![w] = [next EXCEPT !.cookies = cookies]]
  <2>1. req' = [req EXCEPT ![w] =
            CASE c \in Known(p) -> [next EXCEPT !.spentOr = Append(@, c)]
              [] c \in ApiKeys \ Known(p) -> [next EXCEPT !.keys = Append(@, c)]
              [] OTHER -> [next EXCEPT !.cookies = Append(@, c)]]
    BY Zenon DEF Classify, c, rest
  <2>2. next.spentOr = r.spentOr /\ next.keys = r.keys /\ next.cookies = r.cookies
    BY <1>1 DEF ReqRecords
  <2>3. /\ [next EXCEPT !.spentOr = Append(@, c)] = [next EXCEPT !.spentOr = spentOr]
        /\ [next EXCEPT !.keys = Append(@, c)] = [next EXCEPT !.keys = keys]
        /\ [next EXCEPT !.cookies = Append(@, c)] = [next EXCEPT !.cookies = cookies]
    BY <2>2, Zenon
  <2> QED BY <1>1, <2>1, <2>3, Zenon
<1> HIDE DEF spentOr, keys, cookies
<1>9. ASSUME NEW n \in ReqRecords, req' = [req EXCEPT ![w] = n], n.pc = "classifying",
             n.pool = r.pool, n.fine = r.fine, n.spent = r.spent, n.status = r.status, n.todo = rest,
             n.keys \in Seq(Creds \ s.out), n.cookies \in Seq(Creds \ s.out),
             n.spentOr \in Seq(Creds \ s.ok),
             Range(r.keys) \cup Range(r.cookies) \cup Range(r.spentOr) \cup {c}
                \subseteq Range(n.keys) \cup Range(n.cookies) \cup Range(n.spentOr)
      PROVE  FailoverInv'
  <2>1. Proper(w, n)
    BY <1>1, <1>9 DEF WorkerInv, Proper
  <2>2. Covered(n, owed[w], p)
    BY <1>1, <1>2, <1>9 DEF WorkerInv, Covered
  <2>3. Divided(n, s, p)
    BY <1>1, <1>9 DEF WorkerInv, Divided
  <2>4. p = pool'[n.pool] /\ steady' = steady /\ pool' \in [Pools -> PoolRecords]
    BY <1>1, <1>3, <1>9
  <2> QED BY <1>1, <1>3, <1>4, <1>9, <2>1, <2>2, <2>3, <2>4, Plans
<1>10. CASE c \in Known(p) /\ req' = [req EXCEPT ![w] = [next EXCEPT !.spentOr = spentOr]]
  <2> DEFINE n == [next EXCEPT !.spentOr = spentOr]
  <2>1. /\ n \in ReqRecords /\ n.pc = r.pc /\ n.pool = r.pool /\ n.fine = r.fine
        /\ n.spent = r.spent /\ n.status = r.status /\ n.todo = rest /\ n.keys = r.keys
        /\ n.cookies = r.cookies /\ n.spentOr = spentOr
    BY <1>1, <1>2, <1>7, <1>10 DEF ReqRecords
  <2> HIDE DEF n
  <2> QED BY <1>1, <1>6, <1>7, <1>9, <1>10, <2>1 DEF n
<1>11. CASE c \notin Known(p) /\ req' = [req EXCEPT ![w] = [next EXCEPT !.keys = keys]]
  <2> DEFINE n == [next EXCEPT !.keys = keys]
  <2>1. /\ n \in ReqRecords /\ n.pc = r.pc /\ n.pool = r.pool /\ n.fine = r.fine
        /\ n.spent = r.spent /\ n.status = r.status /\ n.todo = rest /\ n.keys = keys
        /\ n.cookies = r.cookies /\ n.spentOr = r.spentOr
    BY <1>1, <1>2, <1>7, <1>11 DEF ReqRecords
  <2> HIDE DEF n
  <2> QED BY <1>1, <1>6, <1>7, <1>9, <1>11, <2>1 DEF n
<1>12. CASE c \notin Known(p) /\ req' = [req EXCEPT ![w] = [next EXCEPT !.cookies = cookies]]
  <2> DEFINE n == [next EXCEPT !.cookies = cookies]
  <2>1. /\ n \in ReqRecords /\ n.pc = r.pc /\ n.pool = r.pool /\ n.fine = r.fine
        /\ n.spent = r.spent /\ n.status = r.status /\ n.todo = rest /\ n.keys = r.keys
        /\ n.cookies = cookies /\ n.spentOr = r.spentOr
    BY <1>1, <1>2, <1>7, <1>12 DEF ReqRecords
  <2> HIDE DEF n
  <2> QED BY <1>1, <1>6, <1>7, <1>9, <1>12, <2>1 DEF n
<1> QED BY <1>8, <1>10, <1>11, <1>12

LEMMA AnsweredRecord ==
    ASSUME NEW x \in ReqRecords, NEW status \in Nat
    PROVE  LET n == [x EXCEPT !.pc = "answered", !.status = status]
           IN  /\ n \in ReqRecords /\ n.pc = "answered" /\ n.status = status
               /\ n.pool = x.pool /\ n.plan = x.plan
BY DEF ReqRecords, Stages

\* A plan that is ready, or nobody to ask.
LEMMA PlannedWell ==
    ASSUME NEW w \in Workers, NEW r \in ReqRecords, r.pool \in {w, Shared},
           NEW plan \in Seq(Entries(Creds)), NEW due, due \subseteq Asked(plan, Default)
    PROVE  LET n == Planned(r, plan)
           IN  /\ n \in ReqRecords /\ Proper(w, n) /\ n.pc \in {"trying", "answered"}
               /\ n.plan = plan
               /\ \A p : Covered(n, due, p)
               /\ \A s, p : Divided(n, s, p)
<1>1. CASE plan = <<>>
  <2>4. PICK x \in ReqRecords : x = Idle
    BY IdleIsRequest
  <2>5. x.pool = Shared /\ x.plan = <<>>
    BY <2>4, IdleIsRequest
  <2>6. PICK code \in Nat : code = 401
    OBVIOUS
  <2> DEFINE n == [x EXCEPT !.pc = "answered", !.status = code]
  <2>1. Planned(r, plan) = n
    BY <1>1, <2>4, <2>6 DEF Planned
  <2>2. /\ n \in ReqRecords /\ n.pc = "answered" /\ n.status = code /\ n.pool = Shared
        /\ n.plan = <<>>
    BY <2>5, AnsweredRecord
  <2>3. due = {}
    BY <1>1 DEF Asked
  <2> HIDE DEF n
  <2> QED BY <1>1, <2>1, <2>2, <2>3, <2>6 DEF Proper, Covered, Divided
<1>2. CASE plan # <<>>
  <2> DEFINE o == r.pool
             n == [Idle EXCEPT !.pc = "trying", !.pool = o, !.plan = plan]
  <2>1. Planned(r, plan) = n
    BY <1>2 DEF Planned
  <2>2. o \in Pools
    BY DEF ReqRecords
  <2> HIDE DEF o
  <2>3. /\ n \in ReqRecords /\ n.pc = "trying" /\ n.status = 0 /\ n.pool = o
        /\ n.plan = plan
    BY <2>2, IdleIsRequest DEF Idle, ReqRecords, Stages
  <2> HIDE DEF n
  <2> QED BY <1>2, <2>1, <2>3 DEF Proper, Covered, Divided, o
<1> QED BY <1>1, <1>2

LEMMA ModelsRotated ==
    ASSUME NEW turn \in Nat
    PROVE  Rotate(Models, turn) \in Seq(Range(Models))
BY FailoverAssumption, RotateKeeps

\* What Assemble makes of what was classified: the plan and the counters.
LEMMA Assembled ==
    ASSUME FailoverInv, NEW w \in Workers, req[w].pc = "classifying", req[w].todo = <<>>
    PROVE  LET r == req[w]
               t0 == pool[r.pool].turn
               t1 == Advance(t0, "key", r.keys)
               t2 == IF r.keys = <<>> THEN t1 ELSE AdvanceModel(t1)
               plan == Targets(r.fine, Rotate(r.keys, t0["key"]), Rotate(Models, t0["model"]),
                               Rotate(r.cookies, t0["browser"]), r.spent, r.spentOr)
           IN  /\ Advance(t2, "browser", r.cookies) \in [Tiers -> 0..(Lap - 1)]
               /\ plan \in Seq(Entries(Creds)) /\ Ordered(plan, steady[w])
               /\ owed[w] \subseteq Asked(plan, Default)
<1> DEFINE r == req[w]
           s == steady[w]
           p == pool[r.pool]
           t0 == p.turn
           t1 == Advance(t0, "key", r.keys)
           t2 == IF r.keys = <<>> THEN t1 ELSE AdvanceModel(t1)
           keys == Rotate(r.keys, t0["key"])
           models == Rotate(Models, t0["model"])
           cookies == Rotate(r.cookies, t0["browser"])
           plan == Targets(r.fine, keys, models, cookies, r.spent, r.spentOr)
<1>1. /\ r \in ReqRecords /\ p \in PoolRecords /\ WorkerInv(w)
  BY DEF FailoverInv, FailoverTyped, ReqRecords
<1>2. /\ t0 \in [Tiers -> 0..(Lap - 1)] /\ \A t \in Tiers : t0[t] \in Nat
      /\ "key" \in Tiers /\ "model" \in Tiers /\ "browser" \in Tiers
  BY <1>1, PoolFields DEF Tiers
<1>3. Advance(t2, "browser", r.cookies) \in [Tiers -> 0..(Lap - 1)]
  <2>1. t1 \in [Tiers -> 0..(Lap - 1)]
    BY <1>2, AdvanceTyped
  <2> HIDE DEF t1
  <2>2. AdvanceModel(t1) \in [Tiers -> 0..(Lap - 1)]
    BY <1>2, <2>1, AdvanceTyped DEF AdvanceModel
  <2>3. t2 \in [Tiers -> 0..(Lap - 1)]
    BY <2>1, <2>2
  <2> HIDE DEF t2
  <2> QED BY <1>2, <2>3, AdvanceTyped
<1>4. /\ r.fine \in Seq(Creds \ s.out) /\ r.keys \in Seq(Creds \ s.out)
      /\ r.cookies \in Seq(Creds \ s.out) /\ r.spent \in Seq(Creds \ s.ok)
      /\ r.spentOr \in Seq(Creds \ s.ok)
      /\ owed[w] \subseteq Range(r.fine) \cup Range(r.spent) \cup Range(r.todo) \cup Range(r.keys)
                            \cup Range(r.cookies) \cup Range(r.spentOr)
  BY <1>1 DEF WorkerInv, Covered, Divided
<1>5. Range(r.todo) = {}
  BY DEF Range
<1> HIDE DEF s, r, t0
<1>6. /\ keys \in Seq(Creds \ s.out) /\ Range(keys) = Range(r.keys)
      /\ cookies \in Seq(Creds \ s.out) /\ Range(cookies) = Range(r.cookies)
      /\ models \in Seq(Range(Models))
  BY <1>2, <1>4, RotateKeeps, ModelsRotated
<1> HIDE DEF keys, models, cookies
<1>7. /\ plan \in Seq(Entries(Creds)) /\ Ordered(plan, s)
      /\ Range(r.fine) \cup Range(keys) \cup Range(cookies) \cup Range(r.spent)
                    \cup Range(r.spentOr) \subseteq Asked(plan, Default)
  BY <1>4, <1>6, TargetsPlan
<1> HIDE DEF plan
<1>8. owed[w] \subseteq Asked(plan, Default)
  BY <1>4, <1>5, <1>6, <1>7 DEF r
<1> QED BY <1>3, <1>7, <1>8 DEF plan, keys, models, cookies, s, r, t0

LEMMA AssembleKeeps == ASSUME FailoverInv, NEW w \in Workers, Assemble(w) PROVE FailoverInv'
<1> DEFINE r == req[w]
           t0 == pool[r.pool].turn
           t1 == Advance(t0, "key", r.keys)
           t2 == IF r.keys = <<>> THEN t1 ELSE AdvanceModel(t1)
           t3 == Advance(t2, "browser", r.cookies)
           plan == Targets(r.fine, Rotate(r.keys, t0["key"]), Rotate(Models, t0["model"]),
                           Rotate(r.cookies, t0["browser"]), r.spent, r.spentOr)
           k == r.inbound
           o == r.pool
           i == [Idle EXCEPT !.pc = "injecting", !.pool = o, !.inbound = k, !.plan = plan]
           n == IF r.inbound = NoKey THEN Planned(r, plan) ELSE i
<1>1. /\ r \in ReqRecords /\ o \in Pools /\ WorkerInv(w) /\ FailoverTyped
      /\ r.pc = "classifying" /\ r.todo = <<>>
  BY DEF FailoverInv, FailoverTyped, ReqRecords, Assemble
<1>2. /\ t3 \in [Tiers -> 0..(Lap - 1)]
      /\ plan \in Seq(Entries(Creds)) /\ owed[w] \subseteq Asked(plan, Default)
  BY <1>1, Assembled
<1>3. /\ pool' = [pool EXCEPT ![o].turn = t3] /\ req' = [req EXCEPT ![w] = n]
      /\ steady' = [steady EXCEPT ![w] = NothingSteady] /\ UNCHANGED <<started, owed>>
  BY DEF Assemble
<1> HIDE DEF t3, plan
<1>4. /\ pool' \in [Pools -> PoolRecords]
      /\ \A q \in Pools : SameButTurns(pool[q], pool'[q])
  BY <1>1, <1>2, <1>3, TurnsDrawn
<1>5. /\ steady' \in [Workers -> [ok : SUBSET Creds, out : SUBSET Creds]]
      /\ \A v \in Workers \ {w} : steady'[v] = steady[v]
  BY <1>1, <1>3 DEF FailoverTyped, NothingSteady
<1>6. /\ n \in ReqRecords /\ Proper(w, n) /\ Covered(n, owed[w], pool'[n.pool])
      /\ Divided(n, steady'[w], pool'[n.pool])
  <2>1. CASE r.inbound = NoKey
    <3>1. r.pool \in {w, Shared}
      BY <1>1 DEF WorkerInv, Proper
    <3> HIDE DEF r
    <3> QED BY <1>1, <1>2, <2>1, <3>1, PlannedWell
  <2>2. CASE r.inbound # NoKey
    <3>1. k \in InboundKeys \cup {NoKey} /\ o \in {w, Shared}
      BY <1>1 DEF ReqRecords, WorkerInv, Proper
    <3>2. n = i
      BY <2>2
    <3> HIDE DEF k, o, n
    <3>3. /\ i \in ReqRecords /\ i.pc = "injecting" /\ i.status = 0 /\ i.pool = o /\ i.plan = plan
          /\ i.inbound = k /\ k # NoKey
      BY <2>2, <1>1, <1>2, <3>1, IdleIsRequest DEF ReqRecords, Stages, k
    <3> HIDE DEF i
    <3> QED BY <1>2, <3>1, <3>2, <3>3 DEF Proper, Covered, Divided
  <2> QED BY <2>1, <2>2
<1> HIDE DEF n
<1> QED BY <1>3, <1>4, <1>5, <1>6, Plans

LEMMA InjectKeeps == ASSUME FailoverInv, NEW w \in Workers, Inject(w) PROVE FailoverInv'
<1> DEFINE r == req[w]
           turn == pool[r.pool].turn
           a == Candidates(<<r.inbound>>, Default)
           b == Alternatives(<<r.inbound>>, Rotate(Models, turn["model"]))
           own == a \o b
           plan == own \o r.plan
           n == Planned(r, plan)
           t == AdvanceModel(turn)
<1>1. /\ r \in ReqRecords /\ r.pool \in Pools /\ WorkerInv(w) /\ FailoverTyped
      /\ r.pc = "injecting" /\ pool[r.pool] \in PoolRecords /\ r.plan \in Seq(Entries(Creds))
      /\ steady \in [Workers -> [ok : SUBSET Creds, out : SUBSET Creds]]
  BY DEF FailoverInv, FailoverTyped, ReqRecords, Inject
<1>2. /\ turn \in [Tiers -> 0..(Lap - 1)] /\ turn["model"] \in Nat /\ "model" \in Tiers
  BY <1>1, PoolFields DEF Tiers
<1>3. t \in [Tiers -> 0..(Lap - 1)]
  BY <1>2, AdvanceTyped DEF AdvanceModel
<1>4. plan \in Seq(Entries(Creds)) /\ owed[w] \subseteq Asked(plan, Default)
  <2> DEFINE k == <<r.inbound>>
             models == Rotate(Models, turn["model"])
  <2>1. r.inbound \in Creds
    BY <1>1, FailoverAssumption DEF ReqRecords, WorkerInv, Proper, Creds
  <2>2. k \in Seq(Creds) /\ models \in Seq(Range(Models))
    BY <1>2, <2>1, ModelsRotated
  <2> HIDE DEF k, models
  <2>3. a \in Seq(Entries(Creds)) /\ b \in Seq(Entries(Creds))
    BY <2>2, CandidatesAsk, AlternativesAsk DEF k, models
  <2> HIDE DEF a, b
  <2>4. own \in Seq(Entries(Creds))
    BY <2>3, AskedConcat
  <2> HIDE DEF own
  <2>5. plan \in Seq(Entries(Creds)) /\ Asked(r.plan, Default) \subseteq Asked(plan, Default)
    BY <1>1, <2>4, AskedConcat
  <2>6. owed[w] \subseteq Asked(r.plan, Default)
    BY <1>1 DEF WorkerInv, Covered
  <2> QED BY <2>5, <2>6
<1>5. /\ pool' = [pool EXCEPT ![r.pool].turn = t] /\ req' = [req EXCEPT ![w] = n]
      /\ UNCHANGED <<started, owed, steady>>
  BY DEF Inject, history
<1> HIDE DEF t, plan
<1>6. /\ pool' \in [Pools -> PoolRecords]
      /\ \A q \in Pools : SameButTurns(pool[q], pool'[q])
  BY <1>1, <1>3, <1>5, TurnsDrawn
<1>7. r.pool \in {w, Shared}
  BY <1>1 DEF WorkerInv, Proper
<1>8. /\ n \in ReqRecords /\ Proper(w, n)
      /\ \A p : Covered(n, owed[w], p)
      /\ \A s, p : Divided(n, s, p)
  <2> HIDE DEF r
  <2> QED BY <1>1, <1>4, <1>7, PlannedWell
<1> HIDE DEF n
<1>9. steady' = steady
  BY <1>5
<1> QED BY <1>1, <1>5, <1>6, <1>8, <1>9, Plans

-----------------------------------------------------------------------------
LEMMA BeginKeeps == ASSUME FailoverInv, NEW w \in Workers, Begin(w) PROVE FailoverInv'
<1>1. PICK p \in PoolsFor(w), k \in InboundKeys \cup {NoKey} :
        LET own == IF p = w THEN NewPool(RequestKeys, <<>>) ELSE NewPool(<<>>, <<>>)
            opened == [pool EXCEPT ![w] = own]
            left == Pruned(opened[p].exhausted)
        IN /\ pool' = [opened EXCEPT ![p].exhausted = left]
           /\ req' = [req EXCEPT ![w] = [Idle EXCEPT !.pc = "begun", !.pool = p,
                                                     !.inbound = k]]
           /\ owed' = [owed EXCEPT ![w] = Range(opened[p].accounts)
                                              \cup Range(AllOr(opened[p]))]
           /\ steady' = [steady EXCEPT ![w] =
                [ok |-> {c \in Creds : opened[p].exhausted[c] # "cooling"},
                 out |-> {c \in Creds : opened[p].exhausted[c] = "cooling"}]]
  BY DEF Begin
<1> DEFINE own == IF p = w THEN NewPool(RequestKeys, <<>>) ELSE NewPool(<<>>, <<>>)
           opened == [pool EXCEPT ![w] = own]
           old == opened[p]
           left == Pruned(old.exhausted)
           new == [old EXCEPT !.exhausted = left]
           n == [Idle EXCEPT !.pc = "begun", !.pool = p, !.inbound = k]
           s == [ok |-> {c \in Creds : old.exhausted[c] # "cooling"},
                 out |-> {c \in Creds : old.exhausted[c] = "cooling"}]
           due == Range(old.accounts) \cup Range(AllOr(old))
<1>2. /\ p \in {w, Shared} /\ p \in Pools /\ w # Shared /\ w \in Pools
      /\ pool \in [Pools -> PoolRecords] /\ FailoverTyped
  BY FailoverAssumption DEF PoolsFor, Pools, FailoverInv, FailoverTyped
<1>3. own \in PoolRecords
  <2>1. RequestKeys \in Seq(Direct) /\ <<>> \in Seq(Direct) /\ <<>> \in Seq(ApiKeys \cup Cookies)
    BY FailoverAssumption
  <2>2. NewPool(RequestKeys, <<>>) \in PoolRecords /\ NewPool(<<>>, <<>>) \in PoolRecords
    BY <2>1, FreshPool
  <2> QED BY <2>2
<1>5. pool' = [opened EXCEPT ![p].exhausted = left]
  BY <1>1
<1>6. req' = [req EXCEPT ![w] = n] /\ owed' = [owed EXCEPT ![w] = due]
      /\ steady' = [steady EXCEPT ![w] = s] /\ started' = started + 1 /\ started < MaxRequests
  BY <1>1 DEF Begin
<1> HIDE DEF own
<1>4. /\ opened \in [Pools -> PoolRecords] /\ old \in PoolRecords
      /\ \A q \in Pools \ {w} : opened[q] = pool[q]
  BY <1>2, <1>3
<1>20. pool' = [opened EXCEPT ![p] = new]
  <2> HIDE DEF opened, left
  <2> QED BY <1>2, <1>4, <1>5
<1> HIDE DEF opened, old
<1>7. /\ left \in [Creds -> Marks]
      /\ \A c \in Creds : /\ left[c] = "cooling" <=> old.exhausted[c] = "cooling"
                          /\ old.exhausted[c] # "cooling" <=> left[c] = "none"
  BY <1>4, PoolFields DEF Pruned, Marks
<1> HIDE DEF left
<1>8. /\ new \in PoolRecords /\ new.accounts = old.accounts /\ new.ors = old.ors
      /\ new.exhausted = left
  BY <1>4, <1>7 DEF PoolRecords
<1> HIDE DEF new
<1>9. pool' \in [Pools -> PoolRecords] /\ pool'[p] = new /\ \A q \in Pools \ {p} : pool'[q] = opened[q]
  BY <1>2, <1>4, <1>20, <1>8
<1>10. /\ n \in ReqRecords /\ n.pc = "begun" /\ n.pool = p /\ n.status = 0 /\ n.fine = <<>>
       /\ n.spent = <<>> /\ n.keys = <<>> /\ n.cookies = <<>> /\ n.spentOr = <<>>
  BY <1>2, IdleIsRequest DEF ReqRecords, Stages
<1>11. s \in [ok : SUBSET Creds, out : SUBSET Creds]
  OBVIOUS
<1>12. due \in SUBSET Creds
  <2>1. Range(old.accounts) \subseteq Creds
    BY <1>4, PoolFields, RangeWithin
  <2>2. Range(AllOr(old)) \subseteq Creds
    BY <1>4, AllOrRange, RangeWithin
  <2> QED BY <2>1, <2>2
<1>13. /\ s.out = WithMark(new, "cooling") /\ s.ok = WithMark(new, "none")
  BY <1>7, <1>8 DEF WithMark
<1> HIDE DEF n, s
<1>14. AllOr(old) = AllOr(new)
  BY <1>8, SameOrs
<1>15. Covered(n, due, new)
  BY <1>8, <1>10, <1>14 DEF Covered
<1>16. Divided(n, s, new)
  <2>1. <<>> \in Seq(Creds \ s.out) /\ <<>> \in Seq(Creds \ s.ok)
    OBVIOUS
  <2> QED BY <1>10, <1>13, <2>1 DEF Divided
<1>17. Proper(w, n)
  BY <1>2, <1>10 DEF Proper
<1> HIDE DEF due
<1>18. /\ started' \in 0..MaxRequests /\ owed' \in [Workers -> SUBSET Creds]
       /\ steady' \in [Workers -> [ok : SUBSET Creds, out : SUBSET Creds]]
       /\ owed'[w] = due /\ steady'[w] = s
       /\ \A v \in Workers \ {w} : owed'[v] = owed[v] /\ steady'[v] = steady[v]
  BY <1>2, <1>6, <1>11, <1>12, FailoverAssumption DEF FailoverTyped
<1>19. ASSUME NEW v \in Workers \ {w}
       PROVE  /\ owed'[v] = owed[v]
              /\ Covered(req[v], owed[v], pool'[req[v].pool])
              /\ Divided(req[v], steady'[v], pool'[req[v].pool])
  <2> DEFINE q == req[v].pool
  <2>1. q \in Pools \ {w} /\ pool'[q] \in PoolRecords
    BY <1>2, <1>9, FailoverAssumption DEF FailoverInv, WorkerInv, Proper, Pools
  <2>2. PoolGrows(pool[q], pool'[q]) /\ SteadyIn(steady[v], pool[q], pool'[q])
    <3>1. CASE q = p
      <4>1. old = pool[q] /\ pool'[q] = new
        BY <1>4, <1>9, <2>1, <3>1 DEF old
      <4>2. /\ WithMark(old, "cooling") \subseteq WithMark(new, "cooling")
            /\ WithMark(old, "none") \subseteq WithMark(new, "none")
        BY <1>7, <1>8 DEF WithMark
      <4> QED BY <1>8, <4>1, <4>2 DEF PoolGrows, SteadyIn
    <3>2. CASE q # p
      <4>1. pool'[q] = pool[q]
        BY <1>4, <1>9, <2>1, <3>2
      <4> QED BY <4>1 DEF PoolGrows, SteadyIn
    <3> QED BY <3>1, <3>2
  <2> QED BY <1>18, <2>1, <2>2, OtherStays
<1> QED BY <1>6, <1>9, <1>10, <1>15, <1>16, <1>17, <1>18, <1>19, WorkerMoves

-----------------------------------------------------------------------------
(* The marks of a pool change. *)

\* Whoever plans from the pool o is where it was when the mark of c changes.
LEMMA MarkChanges ==
    ASSUME FailoverInv, NEW o \in Pools, NEW c \in Creds, NEW mark \in Marks,
           pool[o].exhausted[c] = "none" => mark \in {"none", "cooling"},
           steady' = Steadied(o, c, mark)
    PROVE  LET q == [pool[o] EXCEPT !.exhausted[c] = mark]
           IN  /\ q \in PoolRecords
               /\ steady' \in [Workers -> [ok : SUBSET Creds, out : SUBSET Creds]]
               /\ \A v \in Workers : req[v].pool # o => steady'[v] = steady[v]
               /\ \A v \in Workers : req[v].pool = o =>
                    Covered(req[v], owed[v], q) /\ Divided(req[v], steady'[v], q)
<1> DEFINE p == pool[o]
           e == [p.exhausted EXCEPT ![c] = mark]
           q == [p EXCEPT !.exhausted = e]
<1>1. /\ p \in PoolRecords /\ p.exhausted \in [Creds -> Marks]
      /\ steady \in [Workers -> [ok : SUBSET Creds, out : SUBSET Creds]]
  BY PoolFields DEF FailoverInv, FailoverTyped
<1>2. /\ e \in [Creds -> Marks] /\ e[c] = mark
      /\ \A d \in Creds \ {c} : e[d] = p.exhausted[d]
  BY <1>1
<1> HIDE DEF e
<1>3. /\ q \in PoolRecords /\ q.accounts = p.accounts /\ q.ors = p.ors /\ q.exhausted = e
  BY <1>1, <1>2 DEF PoolRecords
<1>4. [pool[o] EXCEPT !.exhausted[c] = mark] = q
  BY DEF e
<1> HIDE DEF q
<1>5. steady' \in [Workers -> [ok : SUBSET Creds, out : SUBSET Creds]]
  BY <1>1 DEF Steadied
<1>6. \A v \in Workers : req[v].pool # o => steady'[v] = steady[v]
  BY DEF Steadied
<1>7. ASSUME NEW v \in Workers, req[v].pool = o
      PROVE  Covered(req[v], owed[v], q) /\ Divided(req[v], steady'[v], q)
  <2> DEFINE t == steady'[v]
  <2>1. /\ t.ok = steady[v].ok \ (IF mark = "cooling" THEN {c} ELSE {})
        /\ t.out = steady[v].out \ (IF mark = "cooling" THEN {} ELSE {c})
    BY <1>7 DEF Steadied
  <2> HIDE DEF t
  <2>2. t.out \subseteq steady[v].out /\ t.ok \subseteq steady[v].ok
    BY <2>1
  <2>3. t.out \cap WithMark(p, "cooling") \subseteq WithMark(q, "cooling")
    BY <1>2, <1>3, <2>1 DEF WithMark
  <2>4. t.ok \cap WithMark(p, "none") \subseteq WithMark(q, "none")
    BY <1>2, <1>3, <2>1 DEF WithMark
  <2>5. PoolGrows(p, q)
    BY <1>3 DEF PoolGrows
  <2>6. Covered(req[v], owed[v], q) /\ Divided(req[v], t, q)
    BY <1>3, <1>7, <2>2, <2>3, <2>4, <2>5, OtherStays DEF SteadyIn
  <2> QED BY <2>6 DEF t
<1> QED BY <1>3, <1>4, <1>5, <1>6, <1>7

\* What is asked once the first candidate of a plan has been.
LEMMA TailAsks ==
    ASSUME NEW plan \in Seq(Entries(Creds)), plan # <<>>
    PROVE  /\ Tail(plan) \in Seq(Entries(Creds)) /\ Head(plan).cred \in Creds
           /\ Asked(plan, Default)
                \ (IF Head(plan).model = Default THEN {Head(plan).cred} ELSE {})
              \subseteq Asked(Tail(plan), Default)
           /\ Len(plan) > 1 => Tail(plan) # <<>>
           /\ ~(Len(plan) > 1) => Asked(Tail(plan), Default) = {}
<1> DEFINE n == Len(plan)
           rest == Tail(plan)
<1>1. /\ n \in Nat /\ n # 0 /\ rest \in Seq(Entries(Creds)) /\ Len(rest) = n - 1
      /\ Head(plan) = plan[1] /\ plan[1] \in Entries(Creds)
      /\ \A i \in 1..(n - 1) : rest[i] = plan[i + 1]
  OBVIOUS
<1>2. plan[1].cred \in Creds
  BY <1>1 DEF Entries
<1> HIDE DEF rest
<1>3. ASSUME NEW i \in 1..n, plan[i].model = Default,
             plan[i].cred \notin (IF plan[1].model = Default THEN {plan[1].cred} ELSE {})
      PROVE  plan[i].cred \in Asked(rest, Default)
  <2>1. i # 1
    BY <1>3
  <2>2. i - 1 \in 1..Len(rest) /\ rest[i - 1] = plan[i]
    BY <1>1, <2>1
  <2> QED BY <1>3, <2>2 DEF Asked
<1>4. n > 1 => rest # <<>>
  BY <1>1
<1>5. ~(n > 1) => Asked(rest, Default) = {}
  BY <1>1 DEF Asked
<1>6. Asked(plan, Default) \ (IF plan[1].model = Default THEN {plan[1].cred} ELSE {})
        \subseteq Asked(rest, Default)
  BY <1>3 DEF Asked
<1> QED BY <1>1, <1>2, <1>4, <1>5, <1>6 DEF rest

LEMMA StatusGiven ==
    ASSUME NEW reply \in UpstreamStatuses \cup {Lost}
    PROVE  /\ AnswerFor(reply) \in Nat /\ AnswerFor(reply) # 0
           /\ Retryable(AnswerFor(reply)) => reply = Lost \/ Retryable(reply)
BY FailoverAssumption DEF AnswerFor

LEMMA MarkKnown ==
    ASSUME NEW mark \in Marks, NEW reply
    PROVE  /\ MarkAfter(mark, reply) \in Marks
           /\ mark = "none" => MarkAfter(mark, reply) \in {"none", "cooling"}
BY DEF MarkAfter, Marks

LEMMA AttemptKeeps == ASSUME FailoverInv, NEW w \in Workers, Attempt(w) PROVE FailoverInv'
<1> DEFINE r == req[w]
           o == r.pool
           c == Head(r.plan).cred
           old == pool[o].exhausted[c]
           due == IF Head(r.plan).model = Default THEN owed[w] \ {c} ELSE owed[w]
<1>1. /\ r \in ReqRecords /\ o \in Pools /\ o \in {w, Shared} /\ r.pc = "trying"
      /\ r.plan \in Seq(Entries(Creds)) /\ r.plan # <<>> /\ r.status = 0
      /\ owed[w] \subseteq Asked(r.plan, Default) /\ FailoverTyped
      /\ w \in Pools /\ w # Shared /\ pool[o] \in PoolRecords
  BY FailoverAssumption
  DEF FailoverInv, FailoverTyped, ReqRecords, WorkerInv, Proper, Covered, Attempt, Pools
<1>2. /\ Tail(r.plan) \in Seq(Entries(Creds)) /\ c \in Creds
      /\ due \subseteq Asked(Tail(r.plan), Default)
      /\ Len(r.plan) > 1 => Tail(r.plan) # <<>>
      /\ ~(Len(r.plan) > 1) => due = {}
  BY <1>1, TailAsks
<1>3. old \in Marks
  BY <1>1, <1>2, PoolFields
<1>4. PICK reply \in UpstreamStatuses \cup {Lost} :
        LET mark == MarkAfter(old, reply)
            noted == [pool EXCEPT ![o].exhausted[c] = mark]
        IN /\ steady' = Steadied(o, c, mark)
           /\ IF TriesNext(r, reply)
              THEN /\ req' = [req EXCEPT ![w].plan = Tail(@)]
                   /\ pool' = noted
              ELSE /\ req' = [req EXCEPT ![w] = [Idle EXCEPT !.pc = "answered",
                                                 !.status = AnswerFor(reply)]]
                   /\ pool' = [noted EXCEPT ![w] = NewPool(<<>>, <<>>)]
  BY DEF Attempt
<1> DEFINE mark == MarkAfter(old, reply)
           q == [pool[o] EXCEPT !.exhausted[c] = mark]
           noted == [pool EXCEPT ![o] = q]
           next == [r EXCEPT !.plan = Tail(r.plan)]
           last == [Idle EXCEPT !.pc = "answered", !.status = AnswerFor(reply)]
           empty == NewPool(<<>>, <<>>)
<1>5. mark \in Marks /\ (old = "none" => mark \in {"none", "cooling"})
  BY <1>3, MarkKnown
<1>6. /\ steady' = Steadied(o, c, mark)
      /\ owed' = [owed EXCEPT ![w] = due] /\ started' = started
  BY <1>4 DEF Attempt
<1>7. [pool EXCEPT ![o].exhausted[c] = mark] = noted
  BY <1>1 DEF FailoverTyped
<1>8. TriesNext(r, reply) => req' = [req EXCEPT ![w] = next] /\ pool' = noted
  BY <1>1, <1>4, <1>7 DEF FailoverTyped
<1>9. ~TriesNext(r, reply) => req' = [req EXCEPT ![w] = last] /\ pool' = [noted EXCEPT ![w] = empty]
  BY <1>4, <1>7
<1> HIDE DEF mark
<1>10. /\ q \in PoolRecords
       /\ steady' \in [Workers -> [ok : SUBSET Creds, out : SUBSET Creds]]
       /\ \A v \in Workers : req[v].pool # o => steady'[v] = steady[v]
       /\ \A v \in Workers : req[v].pool = o =>
            Covered(req[v], owed[v], q) /\ Divided(req[v], steady'[v], q)
  <2> HIDE DEF o, c
  <2>1. pool[o].exhausted[c] = "none" => mark \in {"none", "cooling"}
    BY <1>5
  <2> QED BY <1>1, <1>2, <1>5, <1>6, <2>1, MarkChanges
<1> HIDE DEF q
<1>11. noted \in [Pools -> PoolRecords] /\ noted[o] = q /\ \A x \in Pools \ {o} : noted[x] = pool[x]
  BY <1>1, <1>10 DEF FailoverTyped
<1> HIDE DEF noted
<1>12. empty \in PoolRecords
  <2>1. <<>> \in Seq(Direct) /\ <<>> \in Seq(ApiKeys \cup Cookies)
    OBVIOUS
  <2> QED BY <2>1, FreshPool
<1> HIDE DEF empty
<1>13. pool' \in [Pools -> PoolRecords] /\ \A x \in Pools \ {w} : pool'[x] = noted[x]
  BY <1>1, <1>8, <1>9, <1>11, <1>12
<1>14. /\ started' \in 0..MaxRequests /\ owed' \in [Workers -> SUBSET Creds]
       /\ owed'[w] = due /\ \A v \in Workers \ {w} : owed'[v] = owed[v]
  BY <1>1, <1>6 DEF FailoverTyped
<1> HIDE DEF due
<1>15. ASSUME NEW v \in Workers \ {w}
       PROVE  /\ owed'[v] = owed[v]
              /\ Covered(req[v], owed[v], pool'[req[v].pool])
              /\ Divided(req[v], steady'[v], pool'[req[v].pool])
  <2>1. /\ req[v].pool \in Pools \ {w}
        /\ Covered(req[v], owed[v], pool[req[v].pool])
        /\ Divided(req[v], steady[v], pool[req[v].pool])
    BY <1>1 DEF FailoverInv, WorkerInv, Proper, Pools
  <2>2. pool'[req[v].pool] = noted[req[v].pool]
    BY <1>13, <2>1
  <2>3. CASE req[v].pool = o
    BY <1>10, <1>11, <1>14, <2>2, <2>3
  <2>4. CASE req[v].pool # o
    <3>1. noted[req[v].pool] = pool[req[v].pool] /\ steady'[v] = steady[v]
      BY <1>10, <1>11, <2>1, <2>4
    <3> QED BY <1>14, <2>1, <2>2, <3>1
  <2> QED BY <2>3, <2>4
<1>16. CASE TriesNext(r, reply)
  <2>1. Tail(r.plan) # <<>>
    BY <1>2, <1>16 DEF TriesNext
  <2> DEFINE rest == Tail(r.plan)
  <2> HIDE DEF rest
  <2>2. /\ next \in ReqRecords /\ next.pc = "trying" /\ next.pool = o /\ next.plan = rest
        /\ next.status = 0
    BY <1>1, <1>2 DEF ReqRecords, rest
  <2>3. due \subseteq Asked(rest, Default)
    BY <1>2 DEF rest
  <2> HIDE DEF next, o
  <2>4. Proper(w, next) /\ Covered(next, due, pool'[next.pool]) /\ Divided(next, steady'[w], pool'[next.pool])
    BY <1>1, <2>1, <2>2, <2>3 DEF Proper, Covered, Divided, rest
  <2> QED BY <1>8, <1>10, <1>13, <1>14, <1>15, <1>16, <2>2, <2>4, WorkerMoves
<1>17. CASE ~TriesNext(r, reply)
  <2> DEFINE answer == AnswerFor(reply)
  <2>1. /\ answer \in Nat /\ answer # 0
        /\ Retryable(answer) => reply = Lost \/ Retryable(reply)
    BY StatusGiven
  <2>2. Retryable(answer) => due = {}
    BY <1>2, <1>17, <2>1 DEF TriesNext
  <2> HIDE DEF answer
  <2>3. /\ last \in ReqRecords /\ last.pc = "answered" /\ last.pool = Shared
        /\ last.status = answer
    BY <2>1, IdleIsRequest DEF ReqRecords, Stages, answer
  <2> HIDE DEF last
  <2>4. Proper(w, last) /\ Covered(last, due, pool'[last.pool]) /\ Divided(last, steady'[w], pool'[last.pool])
    BY <2>1, <2>2, <2>3 DEF Proper, Covered, Divided
  <2> QED BY <1>9, <1>10, <1>13, <1>14, <1>15, <1>17, <2>3, <2>4, WorkerMoves
<1> QED BY <1>16, <1>17


-----------------------------------------------------------------------------
(* The other users of the pool, and every step. *)

LEMMA PoolMoves ==
    ASSUME FailoverInv, NEW o \in Pools, NEW q \in PoolRecords,
           pool' = [pool EXCEPT ![o] = q], req' = req, owed' = owed,
           started' \in 0..MaxRequests,
           steady' \in [Workers -> [ok : SUBSET Creds, out : SUBSET Creds]],
           \A v \in Workers : req[v].pool # o => steady'[v] = steady[v],
           \A v \in Workers : req[v].pool = o =>
                Covered(req[v], owed[v], q) /\ Divided(req[v], steady'[v], q)
    PROVE  FailoverInv'
<1>1. /\ pool' \in [Pools -> PoolRecords] /\ pool'[o] = q
      /\ \A x \in Pools \ {o} : pool'[x] = pool[x]
  BY DEF FailoverInv, FailoverTyped
<1>2. FailoverTyped'
  BY <1>1 DEF FailoverInv, FailoverTyped
<1>3. ASSUME NEW v \in Workers PROVE WorkerInv(v)'
  <2>1. /\ req[v].pool \in Pools /\ Proper(v, req[v])
        /\ Covered(req[v], owed[v], pool[req[v].pool])
        /\ Divided(req[v], steady[v], pool[req[v].pool])
    BY DEF FailoverInv, WorkerInv, Proper, Pools
  <2>2. /\ Covered(req[v], owed[v], pool'[req[v].pool])
        /\ Divided(req[v], steady'[v], pool'[req[v].pool])
    BY <1>1, <2>1
  <2> QED BY <2>1, <2>2 DEF WorkerInv, Proper
<1> QED BY <1>2, <1>3 DEF FailoverInv

\* The same when nobody's mark changes.
LEMMA PoolExtends ==
    ASSUME FailoverInv, NEW q \in PoolRecords, pool' = [pool EXCEPT ![Shared] = q],
           UNCHANGED <<req, owed, steady>>, started' \in 0..MaxRequests,
           PoolGrows(pool[Shared], q), q.exhausted = pool[Shared].exhausted
    PROVE  FailoverInv'
<1>1. Shared \in Pools /\ steady \in [Workers -> [ok : SUBSET Creds, out : SUBSET Creds]]
  BY DEF Pools, FailoverInv, FailoverTyped
<1>2. ASSUME NEW v \in Workers, req[v].pool = Shared
      PROVE  Covered(req[v], owed[v], q) /\ Divided(req[v], steady'[v], q)
  <2> DEFINE t == steady[v]
  <2>1. t.out \subseteq steady[v].out /\ t.ok \subseteq steady[v].ok
    OBVIOUS
  <2>2. SteadyIn(t, pool[Shared], q)
    BY DEF SteadyIn, WithMark
  <2> HIDE DEF t
  <2>3. Covered(req[v], owed[v], q) /\ Divided(req[v], t, q)
    BY <1>2, <2>1, <2>2, OtherStays
  <2> QED BY <2>3 DEF t
<1> QED BY <1>1, <1>2, PoolMoves

LEMMA CatalogKeeps == ASSUME FailoverInv, Catalog PROVE FailoverInv'
<1> DEFINE p == pool[Shared]
           t == Advance(p.turn, "direct", p.accounts)
           q == [p EXCEPT !.turn = t]
<1>1. p \in PoolRecords /\ started \in 0..MaxRequests /\ MaxRequests \in Nat
  BY FailoverAssumption DEF FailoverInv, FailoverTyped, Pools
<1>2. /\ pool' = [pool EXCEPT ![Shared] = q] /\ UNCHANGED <<req, owed, steady>>
      /\ started < MaxRequests /\ started' = started + 1
  BY DEF Catalog
<1>3. t \in [Tiers -> 0..(Lap - 1)]
  BY <1>1, PoolFields, AdvanceTyped DEF Tiers
<1> HIDE DEF t
<1>4. q \in PoolRecords /\ q.accounts = p.accounts /\ q.ors = p.ors /\ q.exhausted = p.exhausted
  BY <1>1, <1>3 DEF PoolRecords
<1> HIDE DEF q
<1>5. PoolGrows(p, q)
  BY <1>4 DEF PoolGrows
<1>6. started' \in 0..MaxRequests
  BY <1>1, <1>2
<1> QED BY <1>2, <1>4, <1>5, <1>6, PoolExtends

LEMMA AddAccountKeeps ==
    ASSUME FailoverInv, NEW c \in Creds, AddAccount(c) PROVE FailoverInv'
<1> DEFINE p == pool[Shared]
           a == Append(p.accounts, c)
           q == [p EXCEPT !.accounts = a]
<1>1. p \in PoolRecords /\ p.accounts \in Seq(Direct) /\ c \in Direct
  BY PoolFields DEF FailoverInv, FailoverTyped, Pools, AddAccount
<1>2. /\ pool' = [pool EXCEPT ![Shared] = q] /\ UNCHANGED <<req, owed, steady, started>>
  BY DEF AddAccount, history
<1>3. a \in Seq(Direct) /\ Range(p.accounts) \subseteq Range(a)
  BY <1>1, RangeOfAppend
<1> HIDE DEF a
<1>4. q \in PoolRecords /\ q.accounts = a /\ q.ors = p.ors /\ q.exhausted = p.exhausted
  BY <1>1, <1>3 DEF PoolRecords
<1> HIDE DEF q
<1>5. PoolGrows(p, q)
  BY <1>3, <1>4 DEF PoolGrows
<1>6. started' \in 0..MaxRequests
  BY <1>2 DEF FailoverInv, FailoverTyped
<1> QED BY <1>2, <1>4, <1>5, <1>6, PoolExtends

LEMMA AddOrKeeps ==
    ASSUME FailoverInv, NEW c \in Creds, AddOr(c) PROVE FailoverInv'
<1> DEFINE p == pool[Shared]
           a == Append(p.ors, c)
           q == [p EXCEPT !.ors = a]
<1>1. p \in PoolRecords /\ p.ors \in Seq(ApiKeys \cup Cookies) /\ c \in ApiKeys \cup Cookies
  BY PoolFields DEF FailoverInv, FailoverTyped, Pools, AddOr, Creds
<1>2. /\ pool' = [pool EXCEPT ![Shared] = q] /\ UNCHANGED <<req, owed, steady, started>>
  BY DEF AddOr, history
<1>3. a \in Seq(ApiKeys \cup Cookies) /\ Range(p.ors) \subseteq Range(a)
  BY <1>1, RangeOfAppend
<1> HIDE DEF a
<1>4. q \in PoolRecords /\ q.accounts = p.accounts /\ q.ors = a /\ q.exhausted = p.exhausted
  BY <1>1, <1>3 DEF PoolRecords
<1> HIDE DEF q
<1>5. PoolGrows(p, q)
  BY <1>3, <1>4 DEF PoolGrows
<1>6. started' \in 0..MaxRequests
  BY <1>2 DEF FailoverInv, FailoverTyped
<1> QED BY <1>2, <1>4, <1>5, <1>6, PoolExtends

LEMMA LapseKeeps ==
    ASSUME FailoverInv, NEW o \in Pools, NEW c \in Creds, Lapse(o, c) PROVE FailoverInv'
<1> DEFINE mark == "lapsed"
           q == [pool[o] EXCEPT !.exhausted[c] = mark]
<1>1. /\ mark \in Marks /\ (pool[o].exhausted[c] = "none" => mark \in {"none", "cooling"})
      /\ steady' = Steadied(o, c, mark) /\ UNCHANGED <<req, started, owed>>
      /\ started' \in 0..MaxRequests
  BY DEF Lapse, Marks, FailoverInv, FailoverTyped
<1>2. pool' = [pool EXCEPT ![o] = q]
  BY DEF Lapse
<1> HIDE DEF mark
<1>3. /\ q \in PoolRecords
      /\ steady' \in [Workers -> [ok : SUBSET Creds, out : SUBSET Creds]]
      /\ \A v \in Workers : req[v].pool # o => steady'[v] = steady[v]
      /\ \A v \in Workers : req[v].pool = o =>
           Covered(req[v], owed[v], q) /\ Divided(req[v], steady'[v], q)
  BY <1>1, MarkChanges
<1> HIDE DEF q
<1> QED BY <1>1, <1>2, <1>3, PoolMoves

LEMMA NobodyMoves == ASSUME FailoverInv, UNCHANGED failoverVars PROVE FailoverInv'
BY DEF failoverVars, FailoverInv, FailoverTyped, WorkerInv, Proper, Covered, Divided, WithMark

LEMMA NextKeepsFailover == FailoverInv /\ [FailoverNext]_failoverVars => FailoverInv'
<1> SUFFICES ASSUME FailoverInv, [FailoverNext]_failoverVars PROVE FailoverInv'
  OBVIOUS
<1>1. ASSUME NEW w \in Workers, Begin(w) PROVE FailoverInv'
  BY <1>1, BeginKeeps
<1>2. ASSUME NEW w \in Workers, Serve(w) PROVE FailoverInv'
  BY <1>2, SplitDirectKeeps, TakeOrKeeps, ClassifyKeeps, AssembleKeeps, InjectKeeps,
     AttemptKeeps DEF Serve
<1>3. CASE Catalog
  BY <1>3, CatalogKeeps
<1>4. ASSUME NEW c \in Creds, AddAccount(c) \/ AddOr(c) PROVE FailoverInv'
  BY <1>4, AddAccountKeeps, AddOrKeeps
<1>5. ASSUME NEW o \in Pools, NEW c \in Creds, Lapse(o, c) PROVE FailoverInv'
  BY <1>5, LapseKeeps
<1>6. CASE UNCHANGED failoverVars
  BY <1>6, NobodyMoves
<1> QED BY <1>1, <1>2, <1>3, <1>4, <1>5, <1>6 DEF FailoverNext

LEMMA FailoverHolds == FailoverSpec => []FailoverInv
<1>1. FailoverInit => FailoverInv
  BY FailoverStarts
<1>2. FailoverInv /\ [FailoverNext]_failoverVars => FailoverInv'
  BY NextKeepsFailover
<1> QED BY <1>1, <1>2, PTL DEF FailoverSpec

-----------------------------------------------------------------------------
(* The theorems. *)

\* Whatever the accounts and however threads interleave, the counters stay in
\* their ranges, a thread that tries has someone to try, and a thread is
\* answered exactly when it has a status.
THEOREM FailoverIsTyped == FailoverSpec => []TypeOK
<1>1. FailoverInv => TypeOK
  <2> SUFFICES ASSUME FailoverInv PROVE TypeOK
    OBVIOUS
  <2>1. ASSUME NEW p \in Pools
        PROVE  /\ pool[p].exhausted \in [Creds -> Marks]
               /\ pool[p].turn \in [Tiers -> 0..(Lap - 1)]
               /\ Range(pool[p].accounts) \subseteq Direct
               /\ Range(pool[p].ors) \subseteq ApiKeys \cup Cookies
    <3>1. pool[p] \in PoolRecords
      BY DEF FailoverInv, FailoverTyped
    <3> QED BY <3>1, PoolFields, RangeWithin
  <2>2. ASSUME NEW w \in Workers
        PROVE  /\ req[w].pc \in Stages
               /\ req[w].pool \in {w, Shared}
               /\ req[w].pc = "trying" => req[w].plan # <<>>
               /\ req[w].pc = "answered" <=> req[w].status # 0
               /\ owed[w] \subseteq Creds
    BY DEF FailoverInv, FailoverTyped, WorkerInv, Proper, ReqRecords
  <2> QED BY <2>1, <2>2 DEF TypeOK, Stages, FailoverInv, FailoverTyped
<1> QED BY <1>1, FailoverHolds, PTL

\* For any accounts, keys, models and statuses, and whatever other threads mark,
\* add and draw in between: a client that is told of a refusal, or of a lost
\* connection, is told so after every account the pool held when the request
\* began was asked with the configured model.
THEOREM EveryAccountIsTried == FailoverSpec => []NoAccountLeftUntried
<1>1. FailoverInv => NoAccountLeftUntried
  BY DEF FailoverInv, WorkerInv, Covered, NoAccountLeftUntried
<1> QED BY <1>1, FailoverHolds, PTL

\* No plan asks an account that was marked all through the planning before one
\* that was unmarked all through it.
THEOREM MarkedGoLast == FailoverSpec => ExhaustedLast
<1> DEFINE Step == \A w \in Workers : req[w].pc = "classifying" /\ req'[w].pc # "classifying"
                        => Ordered(req'[w].plan, steady[w])
<1>1. ASSUME FailoverInv, [FailoverNext]_failoverVars PROVE [Step]_failoverVars
  <2> SUFFICES ASSUME FailoverNext, NEW w \in Workers, req[w].pc = "classifying",
                      req'[w].pc # "classifying"
               PROVE  Ordered(req'[w].plan, steady[w])
    BY <1>1
  <2>1. Assemble(w)
    <3>1. /\ req \in [Workers -> ReqRecords] /\ req[w].pc \notin {"idle", "answered", "begun", "split", "injecting", "trying"}
      BY <1>1 DEF FailoverInv, FailoverTyped
    <3>2. ~Begin(w) /\ ~SplitDirect(w) /\ ~TakeOr(w) /\ ~Inject(w) /\ ~Attempt(w)
      BY <3>1 DEF Begin, SplitDirect, TakeOr, Inject, Attempt
    <3>3. ~Classify(w)
      <4> SUFFICES ASSUME Classify(w) PROVE FALSE
        OBVIOUS
      <4>1. req'[w].pc = "classifying"
        BY <3>1 DEF Classify, ReqRecords
      <4> QED BY <4>1
    <3>4. \A v \in Workers \ {w} : ~(Begin(v) \/ Serve(v))
      <4> SUFFICES ASSUME NEW v \in Workers \ {w}, Begin(v) \/ Serve(v) PROVE FALSE
        OBVIOUS
      <4>1. req'[w] = req[w]
        BY <3>1 DEF Begin, Serve, SplitDirect, TakeOr, Classify, Assemble, Inject, Attempt
      <4> QED BY <4>1
    <3>5. ~Catalog /\ \A c \in Creds : ~(AddAccount(c) \/ AddOr(c))
      BY DEF Catalog, AddAccount, AddOr
    <3>6. \A o \in Pools, c \in Creds : ~Lapse(o, c)
      BY DEF Lapse
    <3> QED BY <3>2, <3>3, <3>4, <3>5, <3>6 DEF FailoverNext, Serve
  <2> DEFINE r == req[w]
             t0 == pool[r.pool].turn
             plan == Targets(r.fine, Rotate(r.keys, t0["key"]), Rotate(Models, t0["model"]),
                             Rotate(r.cookies, t0["browser"]), r.spent, r.spentOr)
             o == r.pool
             k == r.inbound
             i == [Idle EXCEPT !.pc = "injecting", !.pool = o, !.inbound = k, !.plan = plan]
             n == IF r.inbound = NoKey THEN Planned(r, plan) ELSE i
  <2>2. /\ r \in ReqRecords /\ r.pool \in {w, Shared} /\ req \in [Workers -> ReqRecords]
        /\ r.todo = <<>>
    BY <1>1, <2>1 DEF FailoverInv, FailoverTyped, WorkerInv, Proper, Assemble
  <2>3. /\ plan \in Seq(Entries(Creds)) /\ Ordered(plan, steady[w])
        /\ owed[w] \subseteq Asked(plan, Default)
    BY <1>1, <2>2, Assembled
  <2>4. req' = [req EXCEPT ![w] = n]
    BY <2>1 DEF Assemble
  <2> HIDE DEF plan
  <2>5. i.plan = plan
    BY IdleIsRequest DEF ReqRecords
  <2> HIDE DEF i, r
  <2>6. Planned(r, plan).plan = plan
    BY <2>2, <2>3, PlannedWell
  <2>7. n.plan = plan
    BY <2>5, <2>6
  <2> HIDE DEF n
  <2> QED BY <2>2, <2>3, <2>4, <2>7
<1> QED BY <1>1, FailoverHolds, PTL DEF FailoverSpec, ExhaustedLast
-----------------------------------------------------------------------------
(* Whose turn it is.  Counters are kept modulo Lap, which names the same    *)
(* rotation as the counter of the code when the lengths of lists divide it. *)

RotationsClose ==
    \A list \in Seq(Direct) : list # <<>> /\ IsInjective(list) => Lap % Len(list) = 0

\* No account is configured twice.
NoneTwice == \A list \in InitAccounts : IsInjective(list)

\* How long ago, in turns, the entry i of a list of n was the first.
Since(t, i, n) == (t + n - i) % n

LEMMA SinceTurns ==
    ASSUME NEW n \in Nat \ {0}, Lap % n = 0, NEW t \in Nat, NEW i \in 1..n
    PROVE  /\ Since(t, i, n) \in 0..(n - 1)
           /\ Since((t + 1) % Lap, i, n) =
                IF Since(t, i, n) = n - 1 THEN 0 ELSE Since(t, i, n) + 1
           /\ Since(t, i, n) = n - 1 <=> i = (t % n) + 1
<1> DEFINE u == t + n - i
           q == u \div n
           r == u % n
<1>1. u \in Nat /\ q \in Nat /\ r \in 0..(n - 1) /\ u = n * q + r
  <2>1. u \in Nat
    OBVIOUS
  <2> HIDE DEF u
  <2> QED BY <2>1, Remainder
<1> HIDE DEF q, r
<1>2. (u + 1) % n = IF r = n - 1 THEN 0 ELSE r + 1
  <2>1. CASE r = n - 1
    <3>1. n * (q + 1) = n * q + n /\ q + 1 \in Nat
      BY <1>1
    <3>2. u + 1 = n * (q + 1) + 0
      BY <1>1, <2>1, <3>1
    <3>3. (n * (q + 1) + 0) % n = 0
      BY <3>1, RemainderOf
    <3> QED BY <2>1, <3>2, <3>3
  <2>2. CASE r # n - 1
    <3>1. r + 1 \in 0..(n - 1) /\ n * q \in Nat
      BY <1>1, <2>2
    <3>2. u + 1 = n * q + (r + 1)
      BY <1>1, <3>1
    <3>3. (n * q + (r + 1)) % n = r + 1
      BY <1>1, <3>1, RemainderOf
    <3> QED BY <2>2, <3>2, <3>3
  <2> QED BY <2>1, <2>2
<1>3. Since((t + 1) % Lap, i, n) = (u + 1) % n
  <2> DEFINE d == Lap \div n
             e == (t + 1) \div Lap
             v == (t + 1) % Lap
             a == (v + n - i) \div n
             b == (v + n - i) % n
  <2>1. Lap \in Nat \ {0}
    BY FailoverAssumption
  <2>2. d \in Nat /\ Lap = n * d
    <3>1. d \in Nat /\ Lap = n * d + (Lap % n)
      BY <2>1, Remainder
    <3> HIDE DEF d
    <3> QED BY <3>1
  <2>3. v \in Nat /\ e \in Nat /\ t + 1 = Lap * e + v
    BY <2>1, Remainder
  <2> HIDE DEF d, e, v
  <2>4. a \in Nat /\ b \in 0..(n - 1) /\ v + n - i = n * a + b
    <3>1. v + n - i \in Nat
      BY <2>3
    <3> DEFINE w == v + n - i
    <3> HIDE DEF w
    <3>2. w \div n \in Nat /\ w % n \in 0..(n - 1) /\ w = n * (w \div n) + (w % n)
      BY <3>1, Remainder DEF w
    <3> QED BY <3>2 DEF w
  <2> HIDE DEF a, b
  <2>5. d * e + a \in Nat /\ n * (d * e + a) = Lap * e + n * a /\ Lap * e \in Nat /\ n * a \in Nat
    <3>1. d * e \in Nat /\ Lap * e = n * (d * e)
      BY <2>2, <2>3
    <3> DEFINE f == d * e
    <3> HIDE DEF f
    <3>2. f \in Nat /\ Lap * e = n * f
      BY <3>1 DEF f
    <3>3. n * (f + a) = n * f + n * a /\ f + a \in Nat /\ n * f \in Nat /\ n * a \in Nat
      BY <2>4, <3>2
    <3> QED BY <3>2, <3>3 DEF f
  <2>6. u + 1 = n * (d * e + a) + b
    <3> DEFINE x == Lap * e
               y == n * a
               z == n * (d * e + a)
    <3>1. x \in Nat /\ y \in Nat /\ z = x + y /\ t + 1 = x + v /\ v + n - i = y + b
      BY <2>3, <2>4, <2>5
    <3> HIDE DEF x, y, z
    <3>2. u + 1 = z + b
      BY <2>3, <2>4, <3>1
    <3> QED BY <3>2 DEF z
  <2>7. (n * (d * e + a) + b) % n = b
    <3> DEFINE g == d * e + a
    <3>1. g \in Nat
      BY <2>5
    <3> HIDE DEF g
    <3>2. (n * g + b) % n = b
      BY <2>4, <3>1, RemainderOf
    <3> QED BY <3>2 DEF g
  <2> QED BY <2>6, <2>7 DEF Since, b, v
<1>4. Since(t, i, n) = n - 1 <=> i = (t % n) + 1
  <2> DEFINE p == t \div n
             s == t % n
  <2>1. p \in Nat /\ s \in 0..(n - 1) /\ t = n * p + s
    BY Remainder
  <2> HIDE DEF p, s
  <2>2. ASSUME i = s + 1 PROVE r = n - 1
    <3>1. u = n * p + (n - 1) /\ n - 1 \in 0..(n - 1)
      BY <2>1, <2>2
    <3>2. (n * p + (n - 1)) % n = n - 1
      BY <2>1, <3>1, RemainderOf
    <3> QED BY <3>1, <3>2 DEF r
  <2>3. ASSUME r = n - 1 PROVE i = s + 1
    <3>1. t = n * q + (i - 1) /\ i - 1 \in 0..(n - 1)
      BY <1>1, <2>3
    <3>2. (n * q + (i - 1)) % n = i - 1
      BY <1>1, <3>1, RemainderOf
    <3>3. s = i - 1
      BY <3>1, <3>2 DEF s
    <3> QED BY <3>3, <2>1
  <2> QED BY <2>2, <2>3 DEF Since, r, s
<1>5. Since(t, i, n) = r
  BY DEF Since, r
<1> QED BY <1>1, <1>2, <1>3, <1>4, <1>5

\* Those who were first in the last k turns have led once more than the others.
Even(list, count, t) ==
    /\ DOMAIN count = Range(list)
    /\ \E k \in 0..(Len(list) - 1) : \A i \in 1..Len(list) :
          count[list[i]] = IF Since(t, i, Len(list)) < k THEN 1 ELSE 0

LEMMA LeadKeepsEven ==
    ASSUME NEW list \in Seq(Direct), list # <<>>, IsInjective(list), Lap % Len(list) = 0,
           NEW t \in Nat, led.list = list => Even(list, led.count, t)
    PROVE  LET l == Led(list, Head(Rotate(list, t)))
           IN  l.list = list /\ Even(list, l.count, (t + 1) % Lap)
<1> DEFINE n == Len(list)
           u == (t + 1) % Lap
           f == (t % n) + 1
           base == IF led.list = list THEN led.count ELSE [c \in Range(list) |-> 0]
           count == [base EXCEPT ![list[f]] = @ + 1]
           full == \A c \in DOMAIN count : count[c] > 0
           out == IF full THEN [c \in DOMAIN count |-> count[c] - 1] ELSE count
<1>1. /\ n \in Nat \ {0} /\ Lap % n = 0 /\ u \in Nat
      /\ Range(list) = {list[i] : i \in 1..n}
      /\ \A i, j \in 1..n : list[i] = list[j] => i = j
  <2>1. Lap \in Nat \ {0} /\ t + 1 \in Nat
    BY FailoverAssumption
  <2>2. u \in 0..(Lap - 1)
    BY <2>1, Remainder
  <2>3. DOMAIN list = 1..n
    OBVIOUS
  <2>4. u \in Nat
    BY <2>1, <2>2
  <2> HIDE DEF u
  <2> QED BY <2>3, <2>4 DEF Range, IsInjective
<1>2. f \in 1..n
  <2>1. t % n \in 0..(n - 1)
    BY <1>1, Remainder
  <2> HIDE DEF n
  <2> QED BY <1>1, <2>1
<1>3. Led(list, Head(Rotate(list, t))) = [list |-> list, count |-> out]
  <2>1. Head(Rotate(list, t)) = list[f]
    <3>1. Rotate(list, t) = [i \in 1..n |-> list[((t + i - 1) % n) + 1]] /\ 1 \in 1..n
      BY <1>1 DEF Rotate
    <3>2. Rotate(list, t)[1] = list[f]
      BY <3>1
    <3>3. Rotate(list, t) \in Seq(Direct)
      BY RotateKeeps
    <3> QED BY <3>2, <3>3
  <2> HIDE DEF f
  <2> QED BY <2>1 DEF Led
<1> HIDE DEF n, u, f
<1>4. DOMAIN base = Range(list) /\ \E k \in 0..(n - 1) : \A i \in 1..n :
          base[list[i]] = IF Since(t, i, n) < k THEN 1 ELSE 0
  <2>1. CASE led.list = list
    BY <2>1 DEF Even, n
  <2>2. CASE led.list # list
    <3>1. base = [c \in Range(list) |-> 0] /\ 0 \in 0..(n - 1)
      BY <1>1, <2>2
    <3>2. \A i \in 1..n : list[i] \in Range(list)
      BY <1>1
    <3> HIDE DEF base
    <3>3. ASSUME NEW i \in 1..n PROVE base[list[i]] = IF Since(t, i, n) < 0 THEN 1 ELSE 0
      <4>1. Since(t, i, n) \in 0..(n - 1)
        BY <1>1, SinceTurns
      <4>2. ~(Since(t, i, n) < 0)
        BY <1>1, <4>1
      <4> QED BY <3>1, <3>2, <4>2
    <3> QED BY <3>1, <3>3
  <2> QED BY <2>1, <2>2
<1> HIDE DEF base
<1>5. PICK k \in 0..(n - 1) : \A i \in 1..n :
          base[list[i]] = IF Since(t, i, n) < k THEN 1 ELSE 0
  BY <1>4
<1>6. \A i \in 1..n : /\ Since(t, i, n) \in 0..(n - 1) /\ Since(u, i, n) \in 0..(n - 1)
                      /\ Since(u, i, n) = IF i = f THEN 0 ELSE Since(t, i, n) + 1
                      /\ Since(t, i, n) = n - 1 <=> i = f
  BY <1>1, SinceTurns DEF u, f
<1>7. /\ DOMAIN count = Range(list)
      /\ \A i \in 1..n : count[list[i]] = IF Since(u, i, n) < k + 1 THEN 1 ELSE 0
  <2>1. \A i \in 1..n : list[i] \in Range(list)
    BY <1>1
  <2>2. DOMAIN count = Range(list)
    BY <1>4
  <2>3. \A i \in 1..n : count[list[i]] = IF i = f THEN base[list[i]] + 1 ELSE base[list[i]]
    BY <1>1, <1>2, <1>4, <2>1
  <2> HIDE DEF count
  <2>4. ASSUME NEW i \in 1..n
        PROVE  count[list[i]] = IF Since(u, i, n) < k + 1 THEN 1 ELSE 0
    <3> DEFINE x == Since(t, i, n)
               y == Since(u, i, n)
    <3>1. /\ x \in 0..(n - 1) /\ y = (IF i = f THEN 0 ELSE x + 1) /\ (x = n - 1 <=> i = f)
          /\ base[list[i]] = IF x < k THEN 1 ELSE 0
      BY <1>5, <1>6
    <3>2. count[list[i]] = IF i = f THEN base[list[i]] + 1 ELSE base[list[i]]
      BY <2>3
    <3> HIDE DEF x, y
    <3>3. count[list[i]] = IF y < k + 1 THEN 1 ELSE 0
      BY <1>1, <1>5, <3>1, <3>2
    <3> QED BY <3>3 DEF y
  <2> QED BY <2>2, <2>4
<1> HIDE DEF count
<1>8. CASE k = n - 1
  <2>1. \A i \in 1..n : count[list[i]] = 1
    <3> SUFFICES ASSUME NEW i \in 1..n PROVE count[list[i]] = 1
      OBVIOUS
    <3>1. /\ count[list[i]] = IF Since(u, i, n) < k + 1 THEN 1 ELSE 0
          /\ Since(u, i, n) \in 0..(n - 1)
      BY <1>6, <1>7
    <3>2. Since(u, i, n) < k + 1
      BY <1>1, <1>8, <3>1
    <3> QED BY <3>1, <3>2
  <2>2. full
    BY <1>1, <1>7, <2>1
  <2>3. DOMAIN out = Range(list) /\ \A i \in 1..n : out[list[i]] = 0
    BY <1>1, <1>7, <2>1, <2>2
  <2> HIDE DEF out, full
  <2>4. 0 \in 0..(n - 1) /\ \A i \in 1..n : ~(Since(u, i, n) < 0)
    BY <1>1, <1>6
  <2>5. Even(list, out, u)
    BY <2>3, <2>4 DEF Even, n
  <2> QED BY <1>3, <2>5 DEF u
<1>9. CASE k # n - 1
  <2> DEFINE g == (u % n) + 1
  <2>1. g \in 1..n
    <3>1. u % n \in 0..(n - 1)
      BY <1>1, Remainder
    <3> QED BY <1>1, <3>1
  <2> HIDE DEF g
  <2>2. Since(u, g, n) = n - 1
    BY <1>1, <2>1, SinceTurns DEF g
  <2>3. count[list[g]] = 0 /\ list[g] \in DOMAIN count
    BY <1>1, <1>5, <1>7, <1>9, <2>1, <2>2
  <2>4. out = count
    BY <2>3
  <2> HIDE DEF out, full
  <2>5. k + 1 \in 0..(n - 1)
    BY <1>1, <1>5, <1>9
  <2>6. Even(list, out, u)
    BY <1>7, <2>4, <2>5 DEF Even, n
  <2> QED BY <1>3, <2>6 DEF u
<1> QED BY <1>8, <1>9

EvenInv ==
    /\ IsInjective(pool[Shared].accounts)
    /\ IF led.list = <<>> THEN led.count = <<>>
       ELSE /\ led.list \in Seq(Direct)
            /\ Even(led.list, led.count, pool[Shared].turn["direct"])

LEMMA EvenStarts == NoneTwice /\ FailoverInit => EvenInv
<1> SUFFICES ASSUME NoneTwice, FailoverInit PROVE EvenInv
  OBVIOUS
<1>1. PICK a \in InitAccounts :
        pool = [p \in Pools |-> IF p = Shared THEN NewPool(a, InitOr) ELSE NewPool(<<>>, <<>>)]
  BY DEF FailoverInit
<1>2. pool[Shared].accounts = a
  BY <1>1 DEF Pools, NewPool
<1> QED BY <1>2 DEF NoneTwice, FailoverInit, EvenInv

\* A step that draws no turn for direct accounts.
LEMMA NoTurn ==
    ASSUME EvenInv, led' = led, pool'[Shared].accounts = pool[Shared].accounts,
           pool'[Shared].turn["direct"] = pool[Shared].turn["direct"]
    PROVE  EvenInv'
BY DEF EvenInv

\* A step that does, for a list of them.
LEMMA Turn ==
    ASSUME EvenInv, RotationsClose, NEW list \in Seq(Direct), list # <<>>, IsInjective(list),
           pool[Shared].turn["direct"] \in Nat,
           led' = Led(list, Head(Rotate(list, pool[Shared].turn["direct"]))),
           pool'[Shared].accounts = pool[Shared].accounts,
           pool'[Shared].turn["direct"] = (pool[Shared].turn["direct"] + 1) % Lap
    PROVE  EvenInv'
<1> DEFINE t == pool[Shared].turn["direct"]
<1>1. Lap % Len(list) = 0
  BY DEF RotationsClose
<1>2. led.list = list => Even(list, led.count, t)
  BY DEF EvenInv
<1>3. led'.list = list /\ Even(list, led'.count, (t + 1) % Lap)
  BY <1>1, <1>2, LeadKeepsEven
<1> QED BY <1>3 DEF EvenInv

\* Whoever is kept is kept once.
LEMMA AmongDistinct ==
    ASSUME NEW T, NEW s \in Seq(T), IsInjective(s), NEW S
    PROVE  IsInjective(Among(s, S))
<1> DEFINE n == Len(s)
<1>1. PICK kept : Among(s, S) = kept[n] /\ \A m \in 0..n : Gathered(kept, s, S, T, m)
  BY AmongGrows
<1>2. n \in Nat /\ \A i \in 1..n : s[i] \in T
  OBVIOUS
<1>3. \A i, j \in 1..n : s[i] = s[j] => i = j
  BY DEF IsInjective
<1> HIDE DEF n
<1> DEFINE G == {m \in 0..n : IsInjective(kept[m])}
<1>4. 0 \in G
  <2>1. kept[0] = <<>>
    BY <1>1, <1>2 DEF Gathered, KeepsAt
  <2> QED BY <1>2, <2>1 DEF IsInjective
<1>5. ASSUME NEW m \in 1..n, m - 1 \in G PROVE m \in G
  <2> DEFINE l == kept[m - 1]
  <2>0. m \in 0..n /\ m - 1 \in 0..n /\ m # 0 /\ IsInjective(l)
    BY <1>2, <1>5
  <2>1. /\ kept[m] = IF s[m] \in S THEN Append(l, s[m]) ELSE l
        /\ l \in Seq(T) /\ Range(l) = {s[j] : j \in 1..(m - 1)} \cap S /\ IsInjective(l)
    <3>1. KeepsAt(kept, s, S, m)
      BY <1>1, <2>0, Zenon DEF Gathered
    <3>2. l \in Seq(T) /\ Range(l) = {s[j] : j \in 1..(m - 1)} \cap S
      BY <1>1, <2>0, Zenon DEF Gathered
    <3> QED BY <2>0, <3>1, <3>2 DEF KeepsAt
  <2> HIDE DEF l
  <2>2. s[m] \notin Range(l) /\ s[m] \in T
    BY <1>2, <1>3, <2>1
  <2>3. IsInjective(Append(l, s[m]))
    <3> DEFINE a == Append(l, s[m])
    <3>1. Len(l) \in Nat /\ DOMAIN l = 1..Len(l) /\ DOMAIN a = 1..(Len(l) + 1)
      BY <2>1, <2>2
    <3>2. a[Len(l) + 1] = s[m] /\ \A i \in 1..Len(l) : a[i] = l[i]
      BY <2>1, <2>2
    <3> HIDE DEF a
    <3>3. \A i \in 1..(Len(l) + 1) : i = Len(l) + 1 \/ i \in 1..Len(l)
      BY <3>1
    <3>4. \A i \in 1..Len(l) : a[i] # s[m]
      BY <2>2, <3>1, <3>2 DEF Range
    <3>5. \A i, j \in 1..(Len(l) + 1) : a[i] = a[j] => i = j
      BY <2>1, <3>1, <3>2, <3>3, <3>4 DEF IsInjective
    <3> QED BY <3>1, <3>5 DEF IsInjective, a
  <2>4. IsInjective(kept[m])
    BY <2>1, <2>3
  <2> QED BY <1>2, <2>4
<1>6. n \in G
  <2>1. \A m \in 0..n : m \in G
    <3> HIDE DEF G
    <3> QED BY <1>2, <1>4, <1>5, UpTo
  <2> QED BY <1>2, <2>1
<1> QED BY <1>1, <1>6

LEMMA NextKeepsEven ==
    ASSUME RotationsClose, FailoverInv, EvenInv, [FailoverNext]_failoverVars PROVE EvenInv'
<1>1. /\ pool \in [Pools -> PoolRecords] /\ Shared \in Pools /\ \A w \in Workers : w \in Pools \ {Shared}
      /\ \A w \in Workers : req[w] \in ReqRecords
  BY FailoverAssumption DEF FailoverInv, FailoverTyped, Pools
<1> DEFINE p == pool[Shared]
<1>2. /\ p \in PoolRecords /\ p.accounts \in Seq(Direct) /\ p.turn["direct"] \in Nat
      /\ p.turn \in [Tiers -> 0..(Lap - 1)] /\ "direct" \in Tiers
  BY <1>1, PoolFields DEF Tiers
<1>3. ASSUME NEW list, list # <<>>
      PROVE  Advance(p.turn, "direct", list)["direct"] = (p.turn["direct"] + 1) % Lap
  BY <1>2, <1>3 DEF Advance
<1>4. ASSUME NEW turn \in [Tiers -> 0..(Lap - 1)], NEW tier \in Tiers \ {"direct"}, NEW list
      PROVE  Advance(turn, tier, list)["direct"] = turn["direct"]
  BY <1>2 DEF Advance
<1>5. ASSUME NEW o \in Pools, NEW turn, pool' = [pool EXCEPT ![o].turn = turn]
      PROVE  /\ pool'[Shared].accounts = p.accounts
             /\ pool'[Shared].turn = IF o = Shared THEN turn ELSE p.turn
  BY <1>1, <1>2, <1>5 DEF PoolRecords
<1>6. ASSUME NEW w \in Workers, Begin(w) PROVE EvenInv'
  <2>0. w \in Pools
    BY <1>1
  <2>1. PICK o \in Pools : \E own, left :
          pool' = [[pool EXCEPT ![w] = own] EXCEPT ![o].exhausted = left]
    <3>1. PICK o \in PoolsFor(w) :
            LET own == IF o = w THEN NewPool(RequestKeys, <<>>) ELSE NewPool(<<>>, <<>>)
                opened == [pool EXCEPT ![w] = own]
            IN  pool' = [opened EXCEPT ![o].exhausted = Pruned(opened[o].exhausted)]
      BY <1>6 DEF Begin
    <3>2. o \in Pools
      BY <1>1, <2>0 DEF PoolsFor
    <3> QED BY <3>1, <3>2
  <2> PICK own, left : pool' = [[pool EXCEPT ![w] = own] EXCEPT ![o].exhausted = left]
    BY <2>1
  <2>2. [pool EXCEPT ![w] = own][Shared] = p
    BY <1>1
  <2>3. pool'[Shared] = p \/ pool'[Shared] = [p EXCEPT !.exhausted = left]
    BY <1>1, <2>2
  <2>4. pool'[Shared].accounts = p.accounts /\ pool'[Shared].turn = p.turn
    BY <1>2, <2>3 DEF PoolRecords
  <2> QED BY <1>6, <2>4, NoTurn DEF Begin
<1>7. ASSUME NEW w \in Workers, SplitDirect(w) PROVE EvenInv'
  <2> DEFINE o == req[w].pool
             fine == Among(pool[o].accounts, Creds \ Known(pool[o]))
             turn == Advance(pool[o].turn, "direct", fine)
  <2>1. o \in Pools /\ pool' = [pool EXCEPT ![o].turn = turn]
    BY <1>1, <1>7 DEF SplitDirect, ReqRecords
  <2>2. /\ pool'[Shared].accounts = p.accounts
        /\ pool'[Shared].turn = IF o = Shared THEN turn ELSE p.turn
    <3> HIDE DEF o, turn
    <3> QED BY <1>5, <2>1
  <2>3. led' = IF o = Shared /\ fine # <<>>
               THEN Led(fine, Head(Rotate(fine, pool[o].turn["direct"]))) ELSE led
    BY <1>7 DEF SplitDirect
  <2>4. CASE o = Shared /\ fine # <<>>
    <3>1. fine \in Seq(Direct) /\ IsInjective(fine)
      BY <1>2, <2>4, AmongKeeps, AmongDistinct DEF EvenInv
    <3>2. turn["direct"] = (p.turn["direct"] + 1) % Lap
      BY <1>3, <2>4
    <3> HIDE DEF fine, turn, o
    <3> QED BY <1>2, <2>2, <2>3, <2>4, <3>1, <3>2, Turn
  <2>5. CASE ~(o = Shared /\ fine # <<>>)
    <3>1. pool'[Shared].turn = p.turn
      BY <2>2, <2>5 DEF Advance
    <3> QED BY <2>2, <2>3, <2>5, <3>1, NoTurn
  <2> QED BY <2>4, <2>5
<1>8. ASSUME NEW w \in Workers, TakeOr(w) \/ Classify(w) PROVE EvenInv'
  BY <1>8, NoTurn DEF TakeOr, Classify, history
<1>9. ASSUME NEW w \in Workers, Assemble(w) PROVE EvenInv'
  <2> DEFINE r == req[w]
             t0 == pool[r.pool].turn
             t1 == Advance(t0, "key", r.keys)
             t2 == IF r.keys = <<>> THEN t1 ELSE AdvanceModel(t1)
             t3 == Advance(t2, "browser", r.cookies)
  <2>1. r.pool \in Pools /\ pool' = [pool EXCEPT ![r.pool].turn = t3] /\ led' = led
    BY <1>1, <1>9 DEF Assemble, ReqRecords
  <2>2. t0 \in [Tiers -> 0..(Lap - 1)]
    BY <1>1, <2>1, PoolFields
  <2>3. {"key", "model", "browser"} \subseteq Tiers \ {"direct"}
    BY DEF Tiers
  <2>4. t1 \in [Tiers -> 0..(Lap - 1)] /\ t1["direct"] = t0["direct"]
    BY <1>4, <2>2, <2>3, AdvanceTyped
  <2> HIDE DEF t1
  <2>5. t2 \in [Tiers -> 0..(Lap - 1)] /\ t2["direct"] = t0["direct"]
    BY <1>4, <2>3, <2>4, AdvanceTyped DEF AdvanceModel
  <2> HIDE DEF t2
  <2>6. t3["direct"] = t0["direct"]
    BY <1>4, <2>3, <2>5
  <2> HIDE DEF t3
  <2>7. /\ pool'[Shared].accounts = p.accounts
        /\ pool'[Shared].turn = IF r.pool = Shared THEN t3 ELSE p.turn
    <3> HIDE DEF r
    <3> QED BY <1>5, <2>1
  <2> QED BY <2>1, <2>6, <2>7, NoTurn
<1>10. ASSUME NEW w \in Workers, Inject(w) PROVE EvenInv'
  <2> DEFINE r == req[w]
             t0 == pool[r.pool].turn
             t1 == AdvanceModel(t0)
  <2>1. r.pool \in Pools /\ pool' = [pool EXCEPT ![r.pool].turn = t1] /\ led' = led
    BY <1>1, <1>10 DEF Inject, ReqRecords, history
  <2>2. t0 \in [Tiers -> 0..(Lap - 1)] /\ "model" \in Tiers \ {"direct"}
    BY <1>1, <2>1, PoolFields DEF Tiers
  <2>3. t1["direct"] = t0["direct"]
    BY <1>4, <2>2 DEF AdvanceModel
  <2> HIDE DEF t1
  <2>4. /\ pool'[Shared].accounts = p.accounts
        /\ pool'[Shared].turn = IF r.pool = Shared THEN t1 ELSE p.turn
    <3> HIDE DEF r
    <3> QED BY <1>5, <2>1
  <2> QED BY <2>1, <2>3, <2>4, NoTurn
<1>11. ASSUME NEW w \in Workers, Attempt(w) PROVE EvenInv'
  <2> DEFINE o == req[w].pool
             c == Head(req[w].plan).cred
             q == NewPool(<<>>, <<>>)
  <2>0. o \in Pools
    BY <1>1 DEF ReqRecords
  <2>1. PICK mark :
          \/ pool' = [pool EXCEPT ![o].exhausted[c] = mark]
          \/ pool' = [[pool EXCEPT ![o].exhausted[c] = mark] EXCEPT ![w] = q]
    <3>1. PICK reply \in UpstreamStatuses \cup {Lost} :
            LET mark == MarkAfter(pool[o].exhausted[c], reply)
                noted == [pool EXCEPT ![o].exhausted[c] = mark]
            IN  pool' = noted \/ pool' = [noted EXCEPT ![w] = q]
      BY <1>11 DEF Attempt
    <3> HIDE DEF o, c, q
    <3> QED BY <3>1
  <2> HIDE DEF o, c, q
  <2> DEFINE noted == [pool EXCEPT ![o].exhausted[c] = mark]
  <2>2. noted[Shared].accounts = p.accounts /\ noted[Shared].turn = p.turn
    BY <1>1, <1>2, <2>0 DEF PoolRecords
  <2>3. pool'[Shared] = noted[Shared]
    BY <1>1, <2>1
  <2> QED BY <1>11, <2>2, <2>3, NoTurn DEF Attempt
<1>12. CASE Catalog
  <2>1. /\ p.accounts # <<>> /\ pool' = [pool EXCEPT ![Shared].turn = Advance(@, "direct", p.accounts)]
        /\ led' = Led(p.accounts, Head(Rotate(p.accounts, p.turn["direct"])))
    BY <1>12 DEF Catalog
  <2> DEFINE turn == Advance(p.turn, "direct", p.accounts)
  <2>2. pool' = [pool EXCEPT ![Shared].turn = turn]
    BY <1>1, <2>1
  <2>3. turn["direct"] = (p.turn["direct"] + 1) % Lap
    BY <1>3, <2>1
  <2> HIDE DEF turn
  <2>4. pool'[Shared].accounts = p.accounts /\ pool'[Shared].turn = turn
    BY <1>1, <1>5, <2>2
  <2>5. IsInjective(p.accounts)
    BY DEF EvenInv
  <2> QED BY <1>2, <2>1, <2>3, <2>4, <2>5, Turn
<1>13. ASSUME NEW c \in Creds, AddAccount(c) PROVE EvenInv'
  <2> DEFINE a == Append(p.accounts, c)
  <2>1. /\ c \in Direct \ Range(p.accounts) /\ pool' = [pool EXCEPT ![Shared].accounts = a]
        /\ led' = led
    BY <1>13 DEF AddAccount, history
  <2>2. IsInjective(a)
    <3> DEFINE l == p.accounts
    <3>1. l \in Seq(Direct) /\ c \in Direct \ Range(l) /\ IsInjective(l)
      BY <1>2, <2>1 DEF EvenInv
    <3> HIDE DEF l
    <3>2. Len(l) \in Nat /\ DOMAIN l = 1..Len(l) /\ DOMAIN Append(l, c) = 1..(Len(l) + 1)
      BY <3>1
    <3>3. Append(l, c)[Len(l) + 1] = c /\ \A i \in 1..Len(l) : Append(l, c)[i] = l[i] /\ l[i] # c
      BY <3>1, <3>2 DEF Range
    <3>4. \A i \in 1..(Len(l) + 1) : i = Len(l) + 1 \/ i \in 1..Len(l)
      BY <3>2
    <3> QED BY <3>1, <3>2, <3>3, <3>4 DEF IsInjective, l
  <2> HIDE DEF a
  <2>3. pool'[Shared].accounts = a /\ pool'[Shared].turn = p.turn
    BY <1>1, <1>2, <2>1 DEF PoolRecords
  <2> QED BY <2>1, <2>2, <2>3 DEF EvenInv
<1>14. ASSUME NEW c \in Creds, AddOr(c) PROVE EvenInv'
  <2>1. pool'[Shared].accounts = p.accounts /\ pool'[Shared].turn = p.turn
    BY <1>1, <1>2, <1>14 DEF AddOr, PoolRecords
  <2> QED BY <1>14, <2>1, NoTurn DEF AddOr, history
<1>15. ASSUME NEW o \in Pools, NEW c \in Creds, Lapse(o, c) PROVE EvenInv'
  <2>1. pool'[Shared].accounts = p.accounts /\ pool'[Shared].turn = p.turn
    BY <1>1, <1>2, <1>15 DEF Lapse, PoolRecords
  <2> QED BY <1>15, <2>1, NoTurn DEF Lapse
<1>16. CASE UNCHANGED failoverVars
  BY <1>16, NoTurn DEF failoverVars
<1> QED BY <1>6, <1>7, <1>8, <1>9, <1>10, <1>11, <1>12, <1>13, <1>14, <1>15, <1>16
        DEF FailoverNext, Serve

\* EvenRotation: while the accounts to choose from stay the same, none of them
\* goes first twice more often than another, whichever threads draw the turns;
\* for accounts configured once each and lengths that divide Lap, without which
\* the counter of the model is not the one of the code (next_account,
\* direct_candidates).
THEOREM TurnsAreEven ==
    ASSUME RotationsClose, NoneTwice PROVE FailoverSpec => []EvenRotation
<1>1. EvenInv => EvenRotation
  <2> SUFFICES ASSUME EvenInv, NEW a \in DOMAIN led.count, NEW b \in DOMAIN led.count
               PROVE  led.count[a] <= led.count[b] + 1
    BY DEF EvenRotation
  <2>1. led.list # <<>> /\ led.list \in Seq(Direct) /\ Even(led.list, led.count, pool[Shared].turn["direct"])
    BY DEF EvenInv
  <2>2. \A c \in Range(led.list) : led.count[c] \in {0, 1}
    <3>1. \A i \in 1..Len(led.list) : led.count[led.list[i]] \in {0, 1}
      BY <2>1 DEF Even
    <3>2. DOMAIN led.list = 1..Len(led.list)
      BY <2>1
    <3> QED BY <3>1, <3>2 DEF Range
  <2>3. led.count[a] \in {0, 1} /\ led.count[b] \in {0, 1}
    BY <2>1, <2>2 DEF Even
  <2> QED BY <2>3
<1>2. FailoverInit => EvenInv
  BY EvenStarts
<1>3. FailoverInv /\ EvenInv /\ [FailoverNext]_failoverVars => EvenInv'
  BY NextKeepsEven
<1> QED BY <1>1, <1>2, <1>3, FailoverHolds, PTL DEF FailoverSpec
=============================================================================
