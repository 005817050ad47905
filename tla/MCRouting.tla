----------------------------- MODULE MCRouting -----------------------------
(***************************************************************************)
(* Routing on a small instance.  Two modules compete for overlapping       *)
(* namespaces, one of them with a group of two providers that an upgrade   *)
(* disables; a third lies in addons/ and is found by a scan.  Each         *)
(* remaining manifest breaks one rule of the validation.                   *)
(***************************************************************************)
EXTENDS Routing

CONSTANT Aliased  \* install modules the registry knows fixed paths of, too

NoGroup == [enabled |-> TRUE, providers |-> <<>>]
Group(enabled) == [enabled |-> enabled, providers |->
    <<[id |-> "a", subpath |-> <<>>], [id |-> "b", subpath |-> <<"deep", "b">>]>>]
Twice == [enabled |-> TRUE, providers |->
    <<[id |-> "a", subpath |-> <<>>], [id |-> "b", subpath |-> <<"a">>]>>]

Manifest(id, ns, group) ==
    [id |-> id, ns |-> ns, protocol |-> "stdio-stream", entry |-> "absolute",
     group |-> group]

Lying == Manifest("disk", <<"tools">>, NoGroup)

MCManifests ==
    {Manifest("notes", <<"custom", "notes">>, Group(TRUE)),
     Manifest("notes", <<"custom">>, Group(FALSE)),
     Manifest("papers", <<"custom", "notes", "extra">>, NoGroup),
     Manifest("papers", <<"tools", "papers">>, NoGroup),
     Manifest("muse", <<"own">>, NoGroup),
     Manifest("bad", <<"api", "own">>, NoGroup),
     Manifest("bad", <<"jev">>, NoGroup),
     Manifest("bad", <<"own">>, Twice),
     [Manifest("bad", <<"own">>, NoGroup) EXCEPT !.entry = "relative"],
     Lying}
    \cup (IF Aliased THEN {Manifest("tiktok-studio", <<"custom", "tiktok">>, NoGroup),
                           Manifest("papers", <<"tiktok">>, NoGroup)}
          ELSE {})

MCOnDisk == {Lying}

Request(method, path) ==
    [path |-> path, method |-> method, origin |-> "none", type |-> "json",
     omni |-> FALSE]

MCRequests ==
    {Request("GET", <<"dashboard">>),
     [Request("POST", <<"api", "v1", "dashboard", "config">>) EXCEPT !.origin = "foreign"],
     [Request("GET", <<"sw.js">>) EXCEPT !.omni = TRUE],
     Request("GET", <<"video-template", "x">>),
     Request("GET", <<"mcp", "sse">>),
     Request("GET", <<"muse-ai", "v1", "config">>),
     Request("POST", <<"muse-ai", "v1", "chat", "completions">>),
     Request("GET", <<"muse-ai", "v1", "videos", "1", "content">>),
     Request("POST", <<"video", "v1", "providers", "p", "tasks">>),
     Request("GET", <<"jev", "v1", "requests", "1">>),
     Request("POST", <<"omniroute", "v1">>),
     Request("GET", <<"custom", "notes", "a", "1">>),
     Request("GET", <<"custom", "notes", "extra">>),
     Request("GET", <<"tools", "papers">>),
     Request("GET", <<"elsewhere">>)}
    \cup (IF Aliased THEN {Request("GET", <<"tiktok", "1">>)} ELSE {})

MCAssets == {<<"gateway-ui", "app.js">>}
=============================================================================
