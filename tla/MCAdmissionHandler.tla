-------------------------- MODULE MCAdmissionHandler --------------------------
(* AdmissionHandler for TLC.                                               *)
EXTENDS AdmissionHandler

L(key, v) == [key |-> key, args |-> <<v>>, block |-> <<>>]
Controller(kind, lines) == [key |-> "controller", args |-> <<kind>>, block |-> lines]
Adaptive(min, initial, max) ==
    Controller("adaptive", <<L("min_concurrency", min), L("initial_concurrency", initial),
                             L("max_concurrency", max), L("adjust_interval", 5)>>)
Fixed(n) == Controller("fixed", <<L("limit", n)>>)

(* First load: a fixed block; two controller sub-blocks of which the last  *)
(* decides the kind, adaptive, starting outside its bounds; one that cannot *)
(* be provisioned; lines that do not parse. Reload: two blocks of one       *)
(* label, of which the second can be provisioned or not.                   *)
MCConfigs ==
    <<{<<<<Fixed(1), L("queue_max_size", 1)>>>>,
       <<<<Fixed(1), L("queue_timeout", 1), Adaptive(1, 3, 2)>>>>,
       <<<<Adaptive(1, 0, 2)>>>>,
       <<<<L("limit", 1)>>>>, <<<<Fixed(Bad)>>>>},
      {<<<<Fixed(1)>>, <<Adaptive(2, 1, 1), Fixed(0)>>>>,
       <<<<Fixed(1)>>, <<L("backend", "default"), Fixed(2)>>>>}>>

(* one load, for the gauge alone                                            *)
OneLoad == <<{<<<<Fixed(2)>>>>}>>
=============================================================================
