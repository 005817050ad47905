------------------------------- MODULE Routing -------------------------------
(***************************************************************************)
(* Which part of the gateway answers a request: the gateway's own pages    *)
(* and interfaces first, then the module whose namespace owns the path,    *)
(* and nobody otherwise.  The registry of modules changes while requests   *)
(* run: a request reads it once, under the read lock, and acts on what it  *)
(* read after it has released the lock.                                    *)
(*                                                                         *)
(* A path is the sequence of its segments: "/a/b" is <<"a", "b">>, so      *)
(* "equal, or longer and continued by a slash" is IsPrefix, and the longer *)
(* of two prefixes of one path is the one with more segments.  The query,  *)
(* letter case and spelling rules of names are left out.                   *)
(***************************************************************************)
EXTENDS Integers, Sequences, FiniteSets, SequencesExt

CONSTANTS
    Connections,  \* requests being served
    Requests,     \* requests clients send: path, method, origin, type, and
                  \* omni: it comes from a page of OmniRoute
    Assets,       \* files of the dashboard that exist
    Manifests,    \* manifests an operator may install
    OnDisk,       \* those copied into addons/ by hand, found by a scan
    MaxOps        \* changes of the registry in a behaviour

\* Providers are listed in order; "gateway" and "nobody" are what the model
\* calls an answer that comes from no module.
ASSUME RoutingAssumption ==
    /\ OnDisk \subseteq Manifests
    /\ \A m \in Manifests : /\ DOMAIN m.group.providers \subseteq Nat
                             /\ m.id \notin {"gateway", "nobody"}
    /\ MaxOps \in Nat

Builtins == {"omniroute", "muse", "jev"}
PersonalIds == {m.id : m \in Manifests}

\* Modules that own fixed paths besides, or in place of, their namespace.
Aliases(id) ==
    CASE id = "omniroute" -> {<<"ominroute">>, <<"omniroute">>}
      [] id = "jev" -> {<<"jev">>, <<"jev-ai">>}
      [] id = "muse" -> {<<"muse-ai">>, <<"v1", "images", "generations">>,
                         <<"video", "v1", "providers">>}
      [] id \in {"tiktok-studio", "TikTok-Creator-Studio-Adapter"} ->
            {<<"custom", "tiktok">>, <<"tiktok">>}
      [] id \in {"facebook-suite", "Facebook-Suite"} ->
            {<<"custom", "facebook">>, <<"facebook">>}
      [] OTHER -> {}

Reserved == {<<s>> : s \in
    {"api", "dashboard", "home", "assets", "mcp", "sse", "health", "status",
     "metrics", "favicon.ico", "sw.js", "manifest.webmanifest", "robots.txt",
     "video", "v1", "muse-config", "gateway", "gateway-config", "gateway-ui",
     "video-template", "image-template"}}

ProviderPrefixes == {<<s>> : s \in
    {"ominroute", "omniroute", "muse-ai", "muse", "jev", "jev-ai"}}

\* A module as the registry describes it.  subs: the providers of its group,
\* in the order of the manifest.
Descriptor(ns, on, subs) == [ns |-> ns, on |-> on, subs |-> subs]

BuiltinNamespace(id) ==
    CASE id = "omniroute" -> <<"ominroute">>
      [] id = "muse" -> <<"muse-ai">>
      [] id = "jev" -> <<"jev">>

VARIABLES
    reg,          \* ModuleRegistry.modules: a function on the registered ids
    uninstalled,  \* ModuleRegistry.uninstalled: ids a scan leaves alone
    scanning,     \* the connections (one at most) whose scan holds the write lock
    conn,         \* what each connection is doing
    ops           \* bound

vars == <<reg, uninstalled, scanning, conn, ops>>

Personal(r) == DOMAIN r \ Builtins

-----------------------------------------------------------------------------
(* The registry.  Every operation runs under the write lock. *)

Overlap(p, q) == IsPrefix(p, q) \/ IsPrefix(q, p)

WellFormed(path) == path # <<>> /\ \A i \in DOMAIN path : path[i] # ""

ValidId(id) == id # "" /\ id \notin Builtins

\* As ValidNamespace, but looking only for namespaces that contain the new one.
ValidNamespaceOneWay(ns, id, r) ==
    /\ WellFormed(ns)
    /\ \A p \in Reserved : ~Overlap(ns, p)
    /\ \A p \in ProviderPrefixes : ~Overlap(ns, p)
    /\ \A other \in DOMAIN r \ {id} : ~IsPrefix(r[other].ns, ns)

ValidNamespace(ns, id, r) ==
    /\ WellFormed(ns)
    /\ \A p \in Reserved : ~Overlap(ns, p)
    /\ \A p \in ProviderPrefixes : ~Overlap(ns, p)
    /\ \A other \in DOMAIN r \ {id} : ~Overlap(ns, r[other].ns)

ValidProtocol(m) ==
    \/ m.protocol = "stdio-stream" /\ m.entry = "absolute"
    \/ m.protocol = "local-http" /\ m.entry = "loopback"

\* A provider without a subpath answers under its own name.
SubpathOf(p) == IF p.subpath = <<>> THEN <<p.id>> ELSE p.subpath

ValidProviders(providers) ==
    /\ \A i \in DOMAIN providers :
           providers[i].id # "" /\ WellFormed(SubpathOf(providers[i]))
    /\ \A i, j \in DOMAIN providers : i # j =>
           /\ providers[i].id # providers[j].id
           /\ SubpathOf(providers[i]) # SubpathOf(providers[j])

BuildProviders(group, on) ==
    [i \in DOMAIN group.providers |->
        [id |-> group.providers[i].id,
         subpath |-> SubpathOf(group.providers[i]),
         on |-> group.enabled /\ on]]

\* A change takes the write lock; the bound counts them.
Unlocked == scanning = {} /\ ops < MaxOps
Counted == ops' = ops + 1

\* What is enabled in registry r: modules and, in enabled modules, providers.
Live(r) ==
    {<<id, "">> : id \in {i \in DOMAIN r : r[i].on}}
    \cup UNION {{<<id, r[id].subs[k].id>> :
                 k \in {j \in DOMAIN r[id].subs : r[id].subs[j].on}} :
               id \in {i \in DOMAIN r : r[i].on}}

\* The registry becomes r; requests under way have seen r enabled (ghost).
Becomes(r) ==
    /\ reg' = r
    /\ conn' = [c \in Connections |->
                  [conn[c] EXCEPT !.lived = @ \cup Live(r)]]

\* register_personal_module of manifest m in registry r; an id that is taken
\* is overwritten.
Registrable(m, r) ==
    /\ ValidId(m.id)
    /\ ValidNamespace(m.ns, m.id, r)
    /\ ValidProtocol(m)
    /\ ValidProviders(m.group.providers)

With(r, id, d) == [i \in DOMAIN r \cup {id} |-> IF i = id THEN d ELSE r[i]]

Registered(m, r) ==
    With(r, m.id, Descriptor(m.ns, TRUE, BuildProviders(m.group, TRUE)))

Register(m) ==
    /\ Unlocked
    /\ Registrable(m, reg)
    /\ Becomes(Registered(m, reg))
    /\ Counted
    /\ UNCHANGED <<uninstalled, scanning>>

\* An upgrade keeps the enablement of the module and, unless the new group is
\* disabled as a whole, that of the providers it had before.
KeptStatus(p, group, old) ==
    LET before == {j \in DOMAIN old : old[j].id = p.id}
    IN  IF group.enabled /\ before # {}
        THEN [p EXCEPT !.on = old[CHOOSE j \in before : TRUE].on]
        ELSE p

UpgradedProviders(group, d) ==
    LET built == BuildProviders(group, d.on)
    IN  [i \in DOMAIN built |-> KeptStatus(built[i], group, d.subs)]

Upgrade(m) ==
    /\ Unlocked
    /\ m.id \in Personal(reg)
    /\ ValidNamespace(m.ns, m.id, reg)
    /\ ValidProtocol(m)
    /\ ValidProviders(m.group.providers)
    /\ Becomes(With(reg, m.id, Descriptor(m.ns, reg[m.id].on,
                                  UpgradedProviders(m.group, reg[m.id]))))
    /\ Counted
    /\ uninstalled' = uninstalled \ {m.id}
    /\ UNCHANGED scanning

Unregister(id) ==
    /\ Unlocked
    /\ id \in Personal(reg)
    /\ Becomes([i \in DOMAIN reg \ {id} |-> reg[i]])
    /\ Counted
    /\ uninstalled' = uninstalled \cup {id}
    /\ UNCHANGED scanning

\* A module's providers take its status.
WithStatus(d, on) ==
    Descriptor(d.ns, on,
               [i \in DOMAIN d.subs |-> [d.subs[i] EXCEPT !.on = on]])

SetModuleStatus(id, on) ==
    /\ Unlocked
    /\ id \in DOMAIN reg
    /\ Becomes(With(reg, id, WithStatus(reg[id], on)))
    /\ Counted
    /\ UNCHANGED <<uninstalled, scanning>>

\* At start: the stored enablement is applied to what has been registered.
Enablement(r, map) ==
    [id \in DOMAIN r |-> IF id \in DOMAIN map THEN WithStatus(r[id], map[id])
                         ELSE r[id]]

BuiltinProviders(id) ==
    CASE id = "omniroute" -> {}
      [] id = "muse" -> {"chat", "image", "video", "threads"}
      [] id = "jev" -> {"decisions", "models"}

Bare == [id \in Builtins |->
            Descriptor(BuiltinNamespace(id), TRUE,
                [i \in 1..Cardinality(BuiltinProviders(id)) |->
                    LET name == SetToSeq(BuiltinProviders(id))[i]
                    IN  [id |-> name, subpath |-> <<name>>, on |-> TRUE]])]

\* The longest match of path, and the providers asked in order.  The code
\* goes through a hash map: of several longest matches it takes any.
OwnedPrefixes(id) ==
    IF id \in Builtins THEN Aliases(id) ELSE Aliases(id) \cup {reg[id].ns}

Claims(path) ==
    {c \in UNION {{[id |-> id, prefix |-> p] : p \in OwnedPrefixes(id)} :
                  id \in DOMAIN reg} :
        IsPrefix(c.prefix, path)}

Owners(path) ==
    {c \in Claims(path) :
        \A other \in Claims(path) : Len(other.prefix) <= Len(c.prefix)}

Subpath(claim, path) == SubSeq(path, Len(claim.prefix) + 1, Len(path))

\* The index of the first provider that owns the rest of the path, 0 if none.
ProviderOf(d, rest) ==
    LET own == {i \in DOMAIN d.subs : IsPrefix(d.subs[i].subpath, rest)}
    IN  IF own = {} THEN 0 ELSE CHOOSE i \in own : \A j \in own : i <= j

-----------------------------------------------------------------------------
(* The gateway's own routes, tried in this order. *)

Served(by, handler) == [by |-> by, to |-> handler, code |-> 200]
Refused(code) == [by |-> "gateway", to |-> "error", code |-> code]
Unclaimed == [by |-> "nobody", to |-> "none", code |-> 0]

Only(methods, q, by, handler) ==
    IF q.method \in methods THEN Served(by, handler) ELSE Refused(405)

\* A mutation from a browser must come from a loopback page and carry JSON.
Mutation(q, handler) ==
    CASE q.method # "POST" -> Refused(405)
      [] q.method = "POST" /\ q.origin = "foreign" -> Refused(403)
      [] q.method = "POST" /\ q.origin = "loopback" /\ q.type # "json" -> Refused(415)
      [] q.method = "POST" /\ q.origin = "none" /\ q.type = "other" -> Refused(415)
      [] OTHER -> Served("gateway", handler)

Api(names) == {<<"api", "v1">> \o n : n \in names}
Dashboard(names) == {<<"api", "v1", "dashboard">> \o n : n \in names}

MutationPaths ==
    Dashboard({<<"accounts">>, <<"config">>, <<"muse-config">>, <<"jev-config">>,
               <<"muse", "cleanup">>, <<"muse-config", "cleanup">>})
    \cup Dashboard({<<"modules", op>> : op \in
              {"state", "toggle", "install", "upgrade", "update", "remove",
               "uninstall", "test", "check", "position"}})
    \cup Api({<<"modules", "toggle">>, <<"modules", "state">>})

ReadPaths ==
    {<<"dashboard">>}
    \cup Dashboard({<<"overview">>, <<"modules", "upgrade", "queue">>,
                    <<"modules", "upgrade", "status">>})

\* The page that edits a module's settings, wherever it is asked for.
ConfigPage(path) ==
    \/ path = <<"tiktok-config">>
    \/ /\ Len(path) > 1
       /\ path[1] = "modules"
       /\ path[Len(path)] \in {"config", "settings", "config-page"}

AssetRoute(q) ==
    IF q.method \in {"GET", "HEAD"} /\ q.path \notin Assets THEN Unclaimed
    ELSE Only({"GET", "HEAD"}, q, "gateway", "asset")

\* The service worker of OmniRoute is asked for at the root; its referer,
\* cookie or query tells.
ServiceWorker(q) ==
    IF q.omni /\ reg["omniroute"].on THEN Served("omniroute", "proxy")
    ELSE Served("gateway", "empty")

DashboardRoute(q) ==
    CASE Len(q.path) > 1 /\ q.path[1] = "gateway-ui" -> AssetRoute(q)
      [] q.path \in {<<>>, <<"gateway-config", "dashboard">>} ->
            Only({"GET", "HEAD"}, q, "gateway", "redirect")
      [] q.path = <<"sw.js">> -> ServiceWorker(q)
      [] q.path \in ReadPaths -> Only({"GET"}, q, "gateway", "read")
      [] q.path \in MutationPaths -> Mutation(q, "mutation")
      [] q.path \in Dashboard({<<"modules", "config">>}) ->
            IF q.method = "GET" THEN Served("gateway", "read")
            ELSE Mutation(q, "mutation")
      [] ConfigPage(q.path) -> Only({"GET"}, q, "gateway", "page")
      [] OTHER -> Unclaimed

MuseConfigRoute(q) ==
    CASE q.path = <<"muse-config">> -> Only({"GET"}, q, "gateway", "page")
      [] q.path \in {<<"muse-ai", "v1", "config", "har">>,
                     <<"api", "v1", "muse-config", "har">>} ->
            Only({"POST"}, q, "gateway", "har")
      [] q.path \in {<<"muse-ai", "v1", "config">>,
                     <<"api", "v1", "muse-config", "current">>} ->
            Only({"GET"}, q, "gateway", "read")
      [] OTHER -> Unclaimed

McpPaths == {<<"mcp">>, <<"mcp", "sse">>, <<"mcp", "messages">>, <<"sse">>}

McpRoute(q) ==
    CASE q.path \notin McpPaths -> Unclaimed
      [] q.path \in McpPaths /\ q.origin = "foreign" -> Refused(403)
      [] q.path \in McpPaths /\ q.origin # "foreign" /\ q.method = "GET" ->
            IF q.path[Len(q.path)] = "sse" THEN Served("gateway", "stream")
            ELSE Refused(405)
      [] OTHER -> Mutation(q, "rpc")

TemplateRoute(q) ==
    IF q.path # <<>> /\ q.path[1] \in {"video-template", "image-template"}
    THEN Only({"GET", "HEAD"}, q, "gateway", "page") ELSE Unclaimed

\* The first answer of a sequence of dispatchers.
FirstOf(answers) ==
    LET made == {i \in DOMAIN answers : answers[i] # Unclaimed}
    IN  IF made = {} THEN Unclaimed
        ELSE answers[CHOOSE i \in made : \A j \in made : i <= j]

SystemRoute(q) ==
    IF q.method = "OPTIONS" THEN Served("gateway", "preflight")
    ELSE FirstOf(<<DashboardRoute(q), MuseConfigRoute(q), McpRoute(q),
                   TemplateRoute(q)>>)

-----------------------------------------------------------------------------
(* The routes of the built-in modules. *)

CatalogRoute(q) ==
    IF q.path \in {<<"muse-ai", "models">>, <<"muse-ai", "v1", "models">>}
    THEN Only({"GET"}, q, "muse", "models") ELSE Unclaimed

MuseChatRoute(q) ==
    CASE q.path \in {<<"muse-ai", "v1", "chat", "completions">>,
                     <<"muse-ai", "chat", "completions">>,
                     <<"muse-ai", "v1">>} -> Only({"POST"}, q, "muse", "chat")
      [] q.path \in {<<"muse-ai", "v1", "threads", "cleanup">>,
                     <<"muse-ai", "threads", "cleanup">>} ->
            Only({"POST"}, q, "muse", "cleanup")
      [] /\ IsStrictPrefix(<<"muse-ai", "v1", "threads">>, q.path)
         /\ q.path # <<"muse-ai", "v1", "threads", "cleanup">> ->
            Only({"DELETE"}, q, "muse", "thread")
      [] OTHER -> Unclaimed

ContentOf(path) == path[Len(path)] \in {"content", "download"}

MuseImageRoute(q) ==
    CASE q.path \in {<<"muse-ai", "v1", "create-image">>,
                     <<"muse-ai", "create-image">>,
                     <<"v1", "images", "generations">>} ->
            Only({"POST"}, q, "muse", "create-image")
      [] IsStrictPrefix(<<"muse-ai", "v1", "images">>, q.path) ->
            Only({"GET", "HEAD"}, q, "muse", IF ContentOf(q.path)
                                            THEN "image" ELSE "image-job")
      [] OTHER -> Unclaimed

MuseVideoRoute(q) ==
    CASE q.path = <<"muse-ai", "v1", "create-video">> ->
            Only({"POST"}, q, "muse", "create-video")
      [] /\ IsStrictPrefix(<<"muse-ai", "v1", "videos">>, q.path)
         /\ ContentOf(q.path) -> Only({"GET", "HEAD"}, q, "muse", "video")
      [] /\ IsStrictPrefix(<<"muse-ai", "v1", "videos">>, q.path)
         /\ ~ContentOf(q.path) -> Only({"GET", "PUT"}, q, "muse", "video-job")
      [] /\ IsPrefix(<<"muse-ai">>, q.path)
         /\ q.path # <<"muse-ai", "v1", "create-video">>
         /\ ~IsStrictPrefix(<<"muse-ai", "v1", "videos">>, q.path) -> Refused(404)
      [] OTHER -> Unclaimed

\* The stub video providers: a catalogue, tasks and look-ups.
VideoProviderRoute(q) ==
    LET n == Len(q.path)
        tasks == /\ n >= 5
                 /\ IsPrefix(<<"video", "v1", "providers">>, q.path)
                 /\ q.path[5] = "tasks"
    IN  CASE q.path = <<"video", "v1", "providers">> -> Only({"GET"}, q, "muse", "catalog")
          [] tasks /\ n = 5 -> Only({"POST"}, q, "muse", "submit")
          [] tasks /\ n = 6 -> Only({"GET"}, q, "muse", "status")
          [] tasks /\ n = 7 /\ q.path[6] = "by-key" -> Only({"GET"}, q, "muse", "lookup")
          [] OTHER -> Unclaimed

MuseRoute(q) ==
    FirstOf(<<CatalogRoute(q), MuseChatRoute(q), MuseImageRoute(q),
              MuseVideoRoute(q), VideoProviderRoute(q)>>)

\* The method of an upstream decision route, "none" where there is none.
ResolvedMethod(rest) ==
    CASE rest = <<"models">> -> "GET"
      [] Len(rest) = 1 /\ rest[1] \in {"systemone", "decision", "decisions"} -> "POST"
      [] Len(rest) = 2 /\ rest[1] = "requests" -> "GET"
      [] Len(rest) = 3 /\ rest[1] = "requests" /\ rest[3] = "cancel" -> "POST"
      [] OTHER -> "none"

JevRelative(path) ==
    IF IsStrictPrefix(<<"jev", "v1">>, path) \/ IsStrictPrefix(<<"jev-ai", "v1">>, path)
    THEN SubSeq(path, 3, Len(path)) ELSE Tail(path)

JevRoute(q) ==
    CASE q.path \in {<<"jev", "v1", "models">>, <<"jev", "models">>,
                     <<"jev-ai", "v1", "models">>} -> Only({"GET"}, q, "jev", "models")
      [] /\ Len(q.path) > 1
         /\ \/ q.path[1] = "jev" /\ q.path[2] \in {"v1", "decision", "decisions"}
            \/ q.path[1] = "jev-ai" /\ q.path[2] = "v1"
         /\ q.path \notin {<<"jev", "v1", "models">>, <<"jev-ai", "v1", "models">>} ->
            IF q.method = ResolvedMethod(JevRelative(q.path))
            THEN Served("jev", "decision") ELSE Refused(405)
      [] OTHER -> Unclaimed

OmniRoute(q, rest) ==
    IF q.method = "GET" /\ (rest = <<>> \/ rest \in {<<"dashbard">>, <<"home">>})
    THEN Served("gateway", "redirect") ELSE Served("omniroute", "proxy")

-----------------------------------------------------------------------------
(* A request: read, tried on the gateway's own routes, matched under the    *)
(* read lock, and dispatched with the copy the match made.                  *)

NoClaim == [id |-> "", prefix |-> <<>>]
NoModule == Descriptor(<<>>, FALSE, <<>>)
Waiting == [pc |-> "waiting", req |-> CHOOSE q \in Requests : TRUE,
            claim |-> NoClaim, desc |-> NoModule, again |-> FALSE,
            answer |-> Unclaimed, provider |-> "", lived |-> {}]

InitialRegistry(map) == Enablement(Bare, map)

Init ==
    /\ \E map \in [Builtins -> BOOLEAN] : reg = InitialRegistry(map)
    /\ conn = [c \in Connections |-> Waiting]
    /\ uninstalled = {} /\ scanning = {} /\ ops = 0

Arrive(c, q) ==
    /\ conn[c].pc = "waiting"
    /\ conn' = [conn EXCEPT ![c].pc = "system", ![c].req = q,
                            ![c].lived = Live(reg)]
    /\ UNCHANGED <<reg, uninstalled, scanning, ops>>

Answer(c, answer, provider) ==
    conn' = [conn EXCEPT ![c].pc = "answered", ![c].answer = answer,
                         ![c].provider = provider]

TrySystem(c) ==
    /\ conn[c].pc = "system"
    /\ LET answer == SystemRoute(conn[c].req)
       IN  IF answer # Unclaimed THEN Answer(c, answer, "")
           ELSE conn' = [conn EXCEPT ![c].pc = "match"]
    /\ UNCHANGED <<reg, uninstalled, scanning, ops>>

\* match_module_route copies the descriptor and releases the lock.
MatchFound(c) ==
    /\ conn[c].pc = "match" /\ scanning = {}
    /\ \E claim \in Owners(conn[c].req.path) :
           conn' = [conn EXCEPT ![c].pc = "dispatch", ![c].claim = claim,
                                ![c].desc = reg[claim.id]]
    /\ UNCHANGED <<reg, uninstalled, scanning, ops>>

MatchNothing(c) ==
    /\ conn[c].pc = "match" /\ scanning = {}
    /\ Owners(conn[c].req.path) = {}
    /\ IF conn[c].again THEN Answer(c, Refused(404), "")
       ELSE conn' = [conn EXCEPT ![c].pc = "rescan"]
    /\ UNCHANGED <<reg, uninstalled, scanning, ops>>

\* A miss scans the disk for modules nobody registered yet, holding the
\* write lock, and matches once more if it registered any.
Discovered == {m \in OnDisk : /\ m.id \notin uninstalled
                              /\ m.id \notin DOMAIN reg
                              /\ Registrable(m, reg)}

RescanBegins(c) ==
    /\ conn[c].pc = "rescan" /\ scanning = {}
    /\ scanning' = {c}
    /\ UNCHANGED <<reg, uninstalled, conn, ops>>

RescanFinds(c) ==
    /\ c \in scanning
    /\ \E m \in Discovered :
        LET r == Registered(m, reg)
        IN  /\ reg' = r
            /\ conn' = [d \in Connections |->
                          [conn[d] EXCEPT !.lived = @ \cup Live(r),
                                          !.again = @ \/ d = c]]
    /\ UNCHANGED <<uninstalled, scanning, ops>>

RescanEnds(c) ==
    /\ c \in scanning
    /\ Discovered = {}
    /\ scanning' = {}
    /\ IF conn[c].again THEN conn' = [conn EXCEPT ![c].pc = "match"]
       ELSE Answer(c, Refused(404), "")
    /\ UNCHANGED <<reg, uninstalled, ops>>

\* What the matched module makes of the request; a path no built-in route
\* takes falls through to the 404 of the gateway.
ModuleAnswer(q, claim) ==
    LET rest == Subpath(claim, q.path)
        made == CASE claim.id = "omniroute" -> OmniRoute(q, rest)
                  [] claim.id = "muse" -> MuseRoute(q)
                  [] claim.id = "jev" -> JevRoute(q)
                  [] OTHER -> Served(claim.id, "module")
    IN  IF made = Unclaimed THEN Refused(404) ELSE made

\* As Dispatch, but a disabled provider of an enabled group is not looked at.
DispatchAnyProvider(c) ==
    /\ conn[c].pc = "dispatch"
    /\ LET q == conn[c].req
           d == conn[c].desc
           k == ProviderOf(d, Subpath(conn[c].claim, q.path))
           provider == IF k = 0 THEN "" ELSE d.subs[k].id
       IN  IF ~d.on THEN Answer(c, Refused(503), "")
           ELSE Answer(c, ModuleAnswer(q, conn[c].claim), provider)
    /\ UNCHANGED <<reg, uninstalled, scanning, ops>>

Dispatch(c) ==
    /\ conn[c].pc = "dispatch"
    /\ LET q == conn[c].req
           d == conn[c].desc
           k == ProviderOf(d, Subpath(conn[c].claim, q.path))
           provider == IF k = 0 THEN "" ELSE d.subs[k].id
       IN  IF ~d.on \/ (k # 0 /\ ~d.subs[k].on)
           THEN Answer(c, Refused(503), "")
           ELSE Answer(c, ModuleAnswer(q, conn[c].claim), provider)
    /\ UNCHANGED <<reg, uninstalled, scanning, ops>>

Done ==
    /\ \A c \in Connections : conn[c].pc = "answered"
    /\ UNCHANGED vars

Next ==
    \/ \E m \in Manifests : Register(m) \/ Upgrade(m)
    \/ \E id \in PersonalIds : Unregister(id)
    \/ \E id \in PersonalIds \cup Builtins, on \in BOOLEAN : SetModuleStatus(id, on)
    \/ \E c \in Connections :
        \/ \E q \in Requests : Arrive(c, q)
        \/ TrySystem(c)
        \/ MatchFound(c)
        \/ MatchNothing(c)
        \/ RescanBegins(c)
        \/ RescanFinds(c)
        \/ RescanEnds(c)
        \/ Dispatch(c)
    \/ Done

Spec == Init /\ [][Next]_vars

-----------------------------------------------------------------------------
(* Properties. *)

\* The namespaces of personal modules are apart from one another, from the
\* gateway's reserved prefixes and from the built-in providers, whatever
\* order installs, upgrades, removals and scans come in
\* (validate_module_namespace against the registry of that moment).
NamespacesApart ==
    \A id \in Personal(reg) :
        /\ \A p \in Reserved \cup ProviderPrefixes : ~Overlap(reg[id].ns, p)
        /\ \A other \in Personal(reg) \ {id} : ~Overlap(reg[id].ns, reg[other].ns)

\* Routing fails closed: the module, or the provider of a group, that is
\* handed a request was enabled at some moment since the request arrived,
\* and owned its path then; a disabled or removed one is never reached with
\* what a connection copied before (dispatch_module_route).
FailsClosed ==
    \A c \in Connections :
        LET made == conn[c].answer
        IN  made.by \in PersonalIds \cup Builtins =>
                /\ <<made.by, "">> \in conn[c].lived
                /\ conn[c].provider # "" => <<made.by, conn[c].provider>> \in conn[c].lived
                /\ made.to = "module" => IsPrefix(conn[c].claim.prefix, conn[c].req.path)

\* A path has one owner: at most one module has the longest match for it, and
\* none claims a path the gateway itself answers.
OneOwner ==
    \A q \in Requests :
        /\ \A a, b \in Owners(q.path) : a.id = b.id
        /\ q.method # "OPTIONS" /\ SystemRoute(q) # Unclaimed =>
               \A a \in Owners(q.path) : a.id \in Builtins
=============================================================================
