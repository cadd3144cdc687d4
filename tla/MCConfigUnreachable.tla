------------------------ MODULE MCConfigUnreachable ------------------------
(* A block that scores by user, its JWKS URL out of reach while it loads:  *)
(* nothing answers, or the path is mistyped and serves no key set.         *)
EXTENDS ConfigLoad

MCKey == [url |-> "url"]
MCFinds == [url |-> {"unreachable"}]
MCConfigs ==
    <<{<< <<[key |-> "auth_jwks_url", args |-> <<"url">>, block |-> <<>>],
            [key |-> "scoring", args |-> <<>>,
             block |-> <<[key |-> "penalty", args |-> <<"user">>, block |-> <<>>]>>]>> >>}>>
=============================================================================
