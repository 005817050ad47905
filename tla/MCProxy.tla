------------------------------ MODULE MCProxy ------------------------------
(* Names with and without an effort, and six configurations that differ in   *)
(* mode, tier, default and fallbacks.                                        *)
EXTENDS Proxy

MCNames == {<<>>, <<"gpt-4o", "high">>, <<"other", "low">>, <<"claude-3-5-haiku">>}

Config(mode, tier, shadow, default, fallbacks) ==
    [mode |-> mode, tier |-> tier, shadow |-> shadow, default |-> default,
     fallbacks |-> fallbacks]

MCConfigs ==
    {Config("existing", "unknown", TRUE, <<>>, <<Muse, <<"other">>, Haiku>>),
     Config("round_robin", "unknown", FALSE, <<"other">>, <<Haiku, <<"other">>, Muse>>),
     Config("rules", "fast", TRUE, <<>>, <<Haiku, Muse>>),
     Config("jev", "strong", TRUE, <<"other">>, <<Muse, Sonnet>>),
     Config("jev", "unknown", FALSE, <<>>, <<Muse>>),
     Config("existing", "fast", FALSE, <<>>, <<>>)}
=============================================================================
