---------------------------- MODULE MCConfigLoad ----------------------------
(* ConfigLoad for TLC: every combination of a block's resources, session   *)
(* and scoring lines alone; fewer of them next to a second block that      *)
(* shares its label or its resources; then a reload.                       *)
EXTENDS ConfigLoad

CONSTANT kid1, kid2, PT

L(key, args) == [key |-> key, args |-> args, block |-> <<>>]
B(key, block) == [key |-> key, args |-> <<>>, block |-> block]
A(k, v) == [k |-> k, v |-> v]

(* two spellings of one path; files of each kind                           *)
MCKey == [city |-> "city", cityAbs |-> "city", asn |-> "asn", url |-> "url"]
MCFinds == [city |-> {"city", "asn"}, asn |-> {"asn", "broken"}, url |-> {"jwks", "unreachable", "broken"}]

Tuned(dim, soft) == L("penalty", <<dim, A("alpha", 50), A("soft", <<5, soft>>), A("hard", <<9, -soft>>)>>)
Exempting == L("penalty", <<"ip", A("soft", <<5, -1>>), A("alpha", 50), A("exempt_country", {PT}),
                             A("hard", <<9, -2>>)>>)
Untuned == L("penalty", <<"ip", A("alpha", 50), A("soft", <<5, -1>>)>>)   \* hard= is missing

ScoringLines ==
    {L("penalty", <<d>>) : d \in {"ip", "asn", "country", "user"}}
      \cup {Tuned("ip", -3), Exempting, Untuned}
      \cup {L("base_score", <<"internal", 90>>), L("divisor", <<"param", "q", 2>>), L("divisor", <<"param", "q", 0>>)}
Scorings == {<<>>} \cup {<<B("scoring", s)>> : s \in {<<x>> : x \in ScoringLines}
                 \cup {<<x, y>> : x, y \in {z \in ScoringLines : z.key = "penalty"}}}
      \cup {<<B("scoring", <<Tuned("ip", -3), L("min_score", <<10>>)>>),
              B("scoring", <<L("max_score", <<50>>)>>)>>}

SessionBlock(lines) == <<B("session_cookie", lines)>>
K(kid, file) == L("key", <<kid, file>>)
Sessions ==
    {<<>>, SessionBlock(<<K(kid1, "good")>>),
     SessionBlock(<<L("mode", <<"issue">>), K(kid1, "good"), K(kid2, "good")>>),
     SessionBlock(<<L("name", <<"c">>), K(kid1, "good"), K(kid1, "good")>>)}

Set(key, values) == {<<>>} \cup {<<L(key, <<v>>)>> : v \in values}
(* blocks that share resources; the last cannot be provisioned when theirs is broken *)
Second ==
    {<<L("geoip_city_db", <<"cityAbs">>), L("auth_jwks_url", <<"url">>), L("ipv6_prefix_length", <<48>>)>>,
     <<L("backend", <<"other">>), L("geoip_city_db", <<"city">>), L("geoip_asn_db", <<"cityAbs">>),
       B("scoring", <<L("penalty", <<"user">>)>>)>>}

(* lines that do not parse                                                  *)
Malformed ==
    {<<L("ipv6_prefix_length", <<64>>)>>, <<L("idle_entry_ttl", <<Bad>>)>>, <<L("upstream", <<"x">>)>>,
     <<B("session_cookie", <<L("ttl", <<30>>)>>)>>, <<B("session_cookie", <<L("mode", <<"none">>)>>)>>,
     <<B("scoring", <<L("penalty", <<"path">>)>>)>>}

Of(cities, sessions, scorings) ==
    {c \o a \o u \o s \o sc : c \in Set("geoip_city_db", cities), a \in Set("geoip_asn_db", {"asn", "cityAbs"}),
       u \in Set("auth_jwks_url", {"url"}), s \in sessions, sc \in scorings}
Alone == Of({"city"}, Sessions, Scorings)
Beside == Of({"city"}, {<<>>, SessionBlock(<<K(kid1, "good"), K(kid2, "missing")>>)},
             {<<>>, <<B("scoring", <<Exempting>>)>>, <<B("scoring", <<L("penalty", <<"user">>)>>)>>})

MCConfigs ==
    <<{<<b>> : b \in Alone \cup Malformed} \cup {<<b, d>> : b \in Beside, d \in Second}
        \cup {<<d, b>> : b \in Beside, d \in Second},
      {<<d>> : d \in Second}>>
=============================================================================
