---------------------------- MODULE FairnessBlock ----------------------------
(* One `fairness { }` block of a Caddyfile: what its lines parse to         *)
(* (fairness/module.go, UnmarshalCaddyfile), what the defaults make of it   *)
(* (resolveScoringConfig), which prerequisites Provision insists on, and    *)
(* how a request of such a block is classified and counted.                 *)
(*                                                                          *)
(* A line is a record [key, args, block]: the subdirective, its arguments   *)
(* and the lines of its sub-block. A line carries the tokens its directive  *)
(* reads; Bad stands for any token that does not parse as what is read.     *)
EXTENDS Integers, SequencesExt, Functions, TLC

CONSTANTS
    Bad,          \* a token that is no number, duration or key id
    None,         \* an absent setting or attribute
    KeyFiles      \* the key files that exist and hold a secret of 32 bytes

Dimensions == {"ip", "user", "ipv4_subnet", "ipv6_subnet", "asn", "country"}
validClaimedUserClasses == {"researcher", "service_account", "internal"}
UserClasses == validClaimedUserClasses \cup {"anonymous", "unknown", "human_verified"}

ASSUME NoneAssumption ==
    None \notin {"v4", "v6", "forged", "asn", "city", "jwks", "broken", "unreachable", "sub", "session"}
                  \cup UserClasses

IsLines(lines) == Len(lines) \in Nat /\ DOMAIN lines = 1..Len(lines)

Refuse(parsed) == [parsed EXCEPT !.ok = FALSE]   \* d.Errf, d.ArgErr
Put(f, k, v) == [x \in DOMAIN f \cup {k} |-> IF x = k THEN v ELSE f[x]]
Drop(f, k) == Restrict(f, DOMAIN f \ {k})

(* ------------------------- the scoring sub-block ------------------------ *)

(* "threshold:penalty"; the sign of the penalty is dropped.                 *)
parseThresholdPenalty(v) ==
    [threshold |-> v[1], penalty |-> IF v[2] < 0 THEN -v[2] ELSE v[2]]

(* One key=value token of a penalty line; an empty country code is None.    *)
PenaltyArg(p, arg) ==
    CASE arg.k = "alpha" /\ arg.v # Bad ->
           [p EXCEPT !.alpha = arg.v, !.have = @ \cup {"alpha"}]
      [] arg.k \in {"soft", "hard"} /\ arg.v # Bad ->
           [p EXCEPT ![arg.k] = parseThresholdPenalty(arg.v), !.have = @ \cup {arg.k}]
      [] arg.k = "exempt_country" /\ None \notin arg.v -> [p EXCEPT !.exempt = arg.v]
      [] OTHER -> Refuse(p)

NoTuning == [threshold |-> 0, penalty |-> 0]
parsePenaltyArgs(args) ==
    LET p == FoldLeft(PenaltyArg, [ok |-> TRUE, have |-> {}, alpha |-> 0,
                        soft |-> NoTuning, hard |-> NoTuning, exempt |-> {}], args)
    IN [ok |-> p.ok /\ {"alpha", "soft", "hard"} \subseteq p.have,
        tuning |-> [alpha |-> p.alpha, soft |-> p.soft, hard |-> p.hard, exempt |-> p.exempt]]

(* A bare line enables the dimension and forgets an earlier tuning of it.   *)
Penalty(o, dim, args) ==
    LET on == [o EXCEPT !.enabled = @ \cup {dim}] IN
    IF args = <<>> THEN [on EXCEPT !.penalties = Drop(@, dim)]
    ELSE LET p == parsePenaltyArgs(args) IN
         IF p.ok THEN [on EXCEPT !.penalties = Put(@, dim, p.tuning)] ELSE Refuse(on)

ScoringLine(o, line) ==
    LET arg == line.args IN
    CASE line.key = "base_score" /\ Len(arg) = 2 /\ arg[1] \in UserClasses /\ arg[2] # Bad ->
           [o EXCEPT !.base = Put(@, arg[1], arg[2])]
      [] line.key = "penalty" /\ arg # <<>> /\ arg[1] \in Dimensions ->
           Penalty(o, arg[1], Tail(arg))
      [] line.key = "min_score" /\ arg[1] # Bad -> [o EXCEPT !.min = arg[1]]
      [] line.key = "max_score" /\ arg[1] # Bad -> [o EXCEPT !.max = arg[1]]
      [] line.key = "divisor" /\ Len(arg) = 3 /\ arg[1] = "param" /\ arg[3] # Bad /\ arg[3] > 0 ->
           [o EXCEPT !.divisors = Put(@, arg[2], arg[3])]
      [] OTHER -> Refuse(o)

parseScoringBlock(lines) ==
    FoldLeft(ScoringLine, [ok |-> TRUE, base |-> <<>>, enabled |-> {}, penalties |-> <<>>,
                           min |-> None, max |-> None, divisors |-> <<>>], lines)

(* --------------------- the session_cookie sub-block --------------------- *)

SessionLine(s, line) ==
    LET arg == line.args IN
    CASE line.key = "mode" /\ arg[1] \in {"check", "issue", "both"} -> [s EXCEPT !.mode = arg[1]]
      [] line.key = "key" /\ Len(arg) = 2 /\ arg[1] # Bad ->
           [s EXCEPT !.keys = Append(@, [kid |-> arg[1], file |-> arg[2]])]
      [] line.key = "name" -> s
      [] line.key = "ttl" /\ arg[1] # Bad /\ arg[1] > 0 -> s
      [] OTHER -> Refuse(s)

parseSessionCookieBlock(lines) ==
    LET s == FoldLeft(SessionLine, [ok |-> TRUE, mode |-> "check", keys |-> <<>>], lines)
    IN [s EXCEPT !.ok = @ /\ s.keys # <<>>]

(* newSessionCookies: every key file is read, no key id is listed twice.    *)
newSessionCookies(s) ==
    /\ \A i \in DOMAIN s.keys : s.keys[i].file \in KeyFiles
    /\ \A i, j \in DOMAIN s.keys : s.keys[i].kid = s.keys[j].kid => i = j

Checks(s) == s # None /\ s.mode \in {"check", "both"}

(* ------------------------------- the block ------------------------------ *)

NewBlock == [ok |-> TRUE, label |-> "default", city |-> None, asn |-> None,
             jwks |-> None, session |-> None, scoring |-> None]

(* A later sub-block of the same kind replaces the earlier one whole. The   *)
(* settings no property depends on are only checked.                        *)
Line(b, line) ==
    LET arg == line.args IN
    CASE line.key = "backend" -> [b EXCEPT !.label = arg[1]]
      [] line.key = "geoip_city_db" -> [b EXCEPT !.city = arg[1]]
      [] line.key = "geoip_asn_db" -> [b EXCEPT !.asn = arg[1]]
      [] line.key = "auth_jwks_url" -> [b EXCEPT !.jwks = arg[1]]
      [] line.key \in {"auth_issuer", "auth_audience"} -> b
      [] line.key = "ipv6_prefix_length" /\ arg[1] \in {48, 56} -> b
      [] line.key \in {"ewma_tick_interval", "idle_entry_ttl"} /\ arg[1] # Bad -> b
      [] line.key = "session_cookie" ->
           LET s == parseSessionCookieBlock(line.block) IN
           IF s.ok THEN [b EXCEPT !.session = s] ELSE Refuse(b)
      [] line.key = "scoring" ->
           LET o == parseScoringBlock(line.block) IN
           IF o.ok THEN [b EXCEPT !.scoring = o] ELSE Refuse(b)
      [] OTHER -> Refuse(b)

UnmarshalCaddyfile(lines) == FoldLeft(Line, NewBlock, lines)

DefaultBase ==
    [c \in UserClasses |-> CASE c \in validClaimedUserClasses -> 100
                             [] c = "human_verified" -> 80
                             [] OTHER -> 60]
Soft == [ip |-> 20, user |-> 20, ipv4_subnet |-> 100, ipv6_subnet |-> 100,
         asn |-> 500, country |-> 2000]
Hard == [ip |-> 100, user |-> 100, ipv4_subnet |-> 500, ipv6_subnet |-> 500,
         asn |-> 2000, country |-> 10000]
defaultPenaltyFor(dim) ==   \* alpha in percent
    [alpha |-> 20, soft |-> [threshold |-> Soft[dim], penalty |-> 10],
     hard |-> [threshold |-> Hard[dim], penalty |-> 40], exempt |-> {}]

(* Only dimensions a penalty line names are scored.                         *)
resolveScoringConfig(o) ==
    IF o = None
    THEN [base |-> DefaultBase, min |-> 0, max |-> 100, dims |-> <<>>, divisors |-> <<>>]
    ELSE [base |-> o.base @@ DefaultBase,
          min |-> IF o.min = None THEN 0 ELSE o.min,
          max |-> IF o.max = None THEN 100 ELSE o.max,
          dims |-> [d \in o.enabled |-> IF d \in DOMAIN o.penalties THEN o.penalties[d]
                                        ELSE defaultPenaltyFor(d)],
          divisors |-> o.divisors]

(* The validation in Provision; usable is what opened or initialized.       *)
Unmet_AnySession(b, usable) ==   \* mutant: a session_cookie that only issues counts as well
    LET dims == resolveScoringConfig(b.scoring).dims
        exempting == {d \in DOMAIN dims : dims[d].exempt # {}}
    IN \/ "asn" \in DOMAIN dims /\ b.asn \notin usable
       \/ ("country" \in DOMAIN dims \/ exempting # {}) /\ b.city \notin usable
       \/ b.session # None /\ ~newSessionCookies(b.session)
       \/ "user" \in DOMAIN dims /\ b.session = None /\ b.jwks \notin usable
Unmet(b, usable) ==
    LET dims == resolveScoringConfig(b.scoring).dims
        exempting == {d \in DOMAIN dims : dims[d].exempt # {}}
    IN \/ "asn" \in DOMAIN dims /\ b.asn \notin usable
       \/ ("country" \in DOMAIN dims \/ exempting # {}) /\ b.city \notin usable
       \/ b.session # None /\ ~newSessionCookies(b.session)
       \/ "user" \in DOMAIN dims /\ ~Checks(b.session) /\ b.jwks \notin usable

(* ------------------------------- a request ------------------------------ *)

(* What a request may show: its address, its bearer token and its cookie.   *)
RequestKinds ==
    [ip : {"v4", "v6", None}, token : {None, "forged"} \cup UserClasses,
     cookie : {"absent", "valid", "invalid", "expired"}]

(* lookup: no data without a reader, or from a database of another kind.    *)
lookup(reader, kind, q) == IF q.ip # None /\ reader = kind THEN kind ELSE None

(* authenticate: who the token says the caller is, and the subject; a token *)
(* verifies when the key set was fetched. "forged" is any other token.      *)
authenticate(verifier, q) ==
    CASE q.token = None \/ verifier \in {None, "broken"} -> [class |-> "anonymous", user |-> None]
      [] verifier = "jwks" /\ q.token \notin {None, "forged"} ->
           [class |-> IF q.token \in validClaimedUserClasses THEN q.token ELSE "unknown",
            user |-> "sub"]
      [] OTHER -> [class |-> "unknown", user |-> None]

(* applySession and, for a block that does not check, no session.           *)
applySession(who, s, q) ==
    IF ~Checks(s) \/ who.class \in validClaimedUserClasses \/ q.cookie = "absent" THEN who
    ELSE IF q.cookie = "valid" THEN [class |-> "human_verified", user |-> "session"]
    ELSE [who EXCEPT !.class = "unknown"]

bucketIPv4(ip) == IF ip = "v4" THEN ip ELSE None
bucketIPv6(ip) == IF ip = "v6" THEN ip ELSE None

(* found tells what the block's readers and verifier are: see ConfigLoad.   *)
classify(b, found, q) ==
    LET who == applySession(authenticate(found.jwks, q), b.session, q)
    IN [ip |-> q.ip, ipv4_subnet |-> bucketIPv4(q.ip), ipv6_subnet |-> bucketIPv6(q.ip),
        asn |-> lookup(found.asn, "asn", q), country |-> lookup(found.city, "city", q),
        class |-> who.class, user |-> who.user]

(* dimensionKey: the entity a request counts for, None if it does not.      *)
dimensionKey(dim, c) == c[dim]
=============================================================================
