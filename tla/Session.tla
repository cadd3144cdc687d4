------------------------------ MODULE Session ------------------------------
(* The signed session cookie (fairness/session.go): one browser, whose     *)
(* requests run in parallel, and instances whose blocks issue and check    *)
(* the cookie while the operator reloads them along a list of key lists.   *)
(*                                                                         *)
(* Time passes in ticks, Second of them to a second. A cookie is kept as   *)
(* its kid, its id and the ticks left until its expiry; one with a MAC     *)
(* that no key made has the kid NoKey. An id is a number, and a new one is *)
(* one that nobody holds.                                                  *)
EXTENDS Integers, Sequences, FiniteSetsExt, Functions

CONSTANTS
    Requests,     \* requests the browser may have outstanding
    Instances,    \* the servers a request may reach
    Modes,        \* the session_cookie modes of the blocks of an instance
    Claims,       \* user classes authenticate may have found before the cookie
    Plans,        \* rotations: [lists, atOnce], see Reload
    TTL,          \* ttl, in ticks
    Second,       \* ticks per second
    RotationWait, \* ticks the operator waits before a key is dropped
    MaxLag,       \* bound on the ticks from a request to its answer
    Patience,     \* the browser is active if it asks this often
    NoKey, NoCookie

KIDs == UNION {UNION {Range(p.lists[n]) : n \in DOMAIN p.lists} : p \in Plans}

ASSUME SessionAssumption ==
    /\ Second \in Nat \ {0} /\ TTL \in Nat /\ TTL >= Second
    /\ {RotationWait, MaxLag, Patience} \subseteq Nat
    /\ Modes \subseteq {"issue", "check", "both"}
    /\ IsFiniteSet(Requests)
    /\ NoCookie \notin [kid : KIDs \cup {NoKey}, id : Nat, left : 0..TTL]
    /\ NoKey \notin KIDs

VARIABLES
    jar, keep,    \* the cookie the browser holds, and the ticks left of its Max-Age
    requests,     \* request -> its progress
    plan, loaded, \* the rotation, and the key list each instance has loaded
    wait,         \* ticks the operator still waits before a key is dropped
    phase,        \* ticks into the current second
    gap,          \* history: ticks since the last request to an issuing block
    active        \* history: the browser got a session and never paused since

vars == <<jar, keep, requests, plan, loaded, wait, phase, gap, active>>

Lesser(a, b) == IF a < b THEN a ELSE b

Issues(mode) == mode \in {"issue", "both"}
Checks(mode) == mode \in {"check", "both"}

(* newSessionCookies: every listed key verifies, the first one signs.      *)
Keyring_SigningOnly(list) == {list[1]}   \* mutant: only the signing key is loaded
Keyring(list) == Range(list)
SignKID(list) == list[1]

MaxAge == TTL - (TTL % Second)   \* of Set-Cookie, in whole seconds
Idle == [step |-> "idle"]
Forged == [kid |-> NoKey, id |-> 0, left |-> 0]

Init ==
    /\ jar \in {NoCookie, Forged}
    /\ keep = IF jar = NoCookie THEN 0 ELSE MaxAge
    /\ requests = [r \in Requests |-> Idle]
    /\ plan \in Plans
    /\ loaded = [i \in Instances |-> 1]
    /\ wait = 0
    /\ phase = 0
    /\ gap = Patience
    /\ active = FALSE

(* ------------------------------ a request ------------------------------ *)

(* The browser sends its cookie; the request is served by the blocks, and  *)
(* so with the keys, that are loaded when it arrives.                      *)
Send(r, i, mode) ==
    /\ requests[r] = Idle
    /\ requests' = [requests EXCEPT ![r] =
         [step |-> "sent", keys |-> plan.lists[loaded[i]], mode |-> mode,
          cookie |-> jar, lag |-> 0, tracked |-> active]]
    /\ gap' = IF Issues(mode) THEN 0 ELSE gap
    /\ UNCHANGED <<jar, keep, plan, loaded, wait, phase, active>>

(* verify, and read when there is none: the MAC comes before the expiry.   *)
verify(cookie, keys) ==
    IF cookie = NoCookie THEN "absent"
    ELSE IF cookie.kid \notin Keyring(keys) THEN "invalid"
    ELSE IF cookie.left = 0 THEN "expired" ELSE "valid"

validClaimedUserClasses == {"researcher", "service_account", "internal"}

applySession(class, result) ==
    CASE class \in validClaimedUserClasses -> class
      [] OTHER -> CASE result = "valid" -> "human_verified"
                    [] result \in {"invalid", "expired"} -> "unknown"
                    [] result = "absent" -> class

(* What ServeHTTP hands to scoring when authenticate had found class       *)
Classified(q, class) == IF Checks(q.mode) THEN applySession(class, q.result) ELSE class

Read(r) ==
    /\ requests[r].step = "sent"
    /\ LET q == requests[r] IN
       requests' = [requests EXCEPT ![r] =
         [step |-> "read", keys |-> q.keys, mode |-> q.mode, cookie |-> q.cookie,
          lag |-> q.lag, tracked |-> q.tracked, result |-> verify(q.cookie, q.keys)]]
    /\ UNCHANGED <<jar, keep, plan, loaded, wait, phase, gap, active>>

At(step) == {r \in Requests : requests[r].step = step}
Held ==
    ({jar} \cup {requests[r].cookie : r \in At("sent") \cup At("read")}
           \cup {requests[r].answer : r \in At("answered")}) \ {NoCookie}
InUse == {c.id : c \in Held} \cup {requests[r].id : r \in At("answered")}
IdOf(c) == IF c = NoCookie THEN 0 ELSE c.id
newID == Min(1..(Cardinality(InUse) + 1) \ InUse)

(* The expiry is now + ttl cut to a second.                                *)
sign(id, keys) ==
    [kid |-> SignKID(keys), id |-> id, left |-> TTL - ((phase + TTL) % Second)]

NeedsRenewal_Late(q) ==   \* mutant: renewed in the last quarter only
    \/ q.cookie.kid # SignKID(q.keys)
    \/ 4 * q.cookie.left <= TTL

NeedsRenewal(q) ==
    \/ q.cookie.kid # SignKID(q.keys)
    \/ 2 * q.cookie.left <= TTL

(* maybeIssue: what Set-Cookie may say. The random source may fail, which  *)
(* skips a new session.                                                    *)
maybeIssue(q) ==
    CASE ~Issues(q.mode) -> {NoCookie}
      [] Issues(q.mode) /\ q.result = "valid" ->
           IF NeedsRenewal(q) THEN {sign(q.cookie.id, q.keys)} ELSE {NoCookie}
      [] Issues(q.mode) /\ q.result # "valid" -> {NoCookie, sign(newID, q.keys)}

Answer(r) ==
    /\ requests[r].step = "read"
    /\ LET q == requests[r] IN
       \E a \in maybeIssue(q) :
         requests' = [requests EXCEPT ![r] =
           [step |-> "answered", id |-> IF a = NoCookie THEN 0 ELSE IdOf(q.cookie),
            lag |-> q.lag, tracked |-> q.tracked, answer |-> a]]
    /\ UNCHANGED <<jar, keep, plan, loaded, wait, phase, gap, active>>

(* The browser, external: the last Set-Cookie to arrive is kept, whichever *)
(* request asked first.                                                    *)
Receive(r) ==
    /\ requests[r].step = "answered"
    /\ LET a == requests[r].answer IN
       /\ jar' = IF a = NoCookie THEN jar ELSE a
       /\ keep' = IF a = NoCookie THEN keep ELSE MaxAge
       /\ active' = (active \/ (a # NoCookie /\ (jar = NoCookie \/ a.id # jar.id)))
    /\ requests' = [requests EXCEPT ![r] = Idle]
    /\ UNCHANGED <<plan, loaded, wait, phase, gap>>

(* ------------------------- the operator and time ----------------------- *)

(* A reload gives a block the next list of the plan. One that drops a key  *)
(* comes RotationWait after the one before it; a plan with atOnce has all  *)
(* its blocks in one process, the others reload one instance at a time.    *)
Drops(n) ==
    n < Len(plan.lists) /\ ~(Range(plan.lists[n]) \subseteq Range(plan.lists[n + 1]))

Reload(group) ==
    LET n == loaded[CHOOSE i \in group : TRUE] IN
    /\ \A i \in Instances : loaded[i] >= n
    /\ \A i \in group : loaded[i] = n
    /\ n < Len(plan.lists)
    /\ Drops(n) => wait = 0
    /\ loaded' = [i \in Instances |-> IF i \in group THEN n + 1 ELSE loaded[i]]
    /\ wait' = IF Drops(n + 1) THEN RotationWait ELSE 0
    /\ UNCHANGED <<jar, keep, requests, plan, phase, gap, active>>

Down(n) == IF n = 0 THEN 0 ELSE n - 1
Aged(c) == IF c = NoCookie THEN NoCookie ELSE [c EXCEPT !.left = Down(@)]

AgedRequest(q) ==
    CASE q.step \in {"sent", "read"} -> [q EXCEPT !.cookie = Aged(@), !.lag = @ + 1]
      [] q.step = "answered" -> [q EXCEPT !.answer = Aged(@), !.lag = @ + 1]

Elapse ==
    /\ \A r \in Requests : requests[r] # Idle => requests[r].lag < MaxLag
    /\ jar' = IF keep <= 1 THEN NoCookie ELSE Aged(jar)
    /\ keep' = Down(keep)
    /\ active' = (active /\ gap < Patience)
    /\ requests' = [r \in Requests |->
         IF requests[r] = Idle THEN Idle
         ELSE [AgedRequest(requests[r]) EXCEPT !.tracked = @ /\ active']]
    /\ wait' = Down(wait)
    /\ phase' = (phase + 1) % Second
    /\ gap' = Lesser(gap + 1, Patience)
    /\ UNCHANGED <<plan, loaded>>

Next ==
    \/ \E r \in Requests :
         \/ \E i \in Instances, mode \in Modes : Send(r, i, mode)
         \/ Read(r) \/ Answer(r) \/ Receive(r)
    \/ plan.atOnce /\ Reload(Instances)
    \/ ~plan.atOnce /\ \E i \in Instances : Reload({i})
    \/ Elapse

Spec == Init /\ [][Next]_vars

(* ------------------------------ properties ----------------------------- *)

Cookies == [kid : KIDs \cup {NoKey}, id : 0..(2 * Cardinality(Requests) + 1),
            left : 0..TTL]
Classes == Claims \cup {"human_verified", "unknown"}

(* Expiries stay within the TTL, ids within the number of their holders,   *)
(* and lags within MaxLag.                                                 *)
TypeOK ==
    /\ jar \in Cookies \cup {NoCookie} /\ keep \in 0..MaxAge
    /\ \A r \in Requests : requests[r] # Idle => requests[r].lag \in 0..MaxLag
    /\ \A r \in At("sent") \cup At("read") :
         /\ requests[r].cookie \in Cookies \cup {NoCookie}
         /\ requests[r].mode \in Modes
    /\ \A r \in At("read"), class \in Claims : Classified(requests[r], class) \in Classes
    /\ \A r \in At("answered") : requests[r].answer \in Cookies \cup {NoCookie}
    /\ plan \in Plans
    /\ loaded \in [Instances -> DOMAIN plan.lists]
    /\ wait \in 0..RotationWait
    /\ phase \in 0..(Second - 1)
    /\ gap \in 0..Patience
    /\ active \in BOOLEAN

(* A rotation that gives nobody a list without the key it may still sign   *)
(* with, nor, where instances reload one by one, a key that another one    *)
(* does not know yet; before a key is dropped the operator waits for what  *)
(* requests that are still served with the list before may sign with it.   *)
(* docs/configuration.md:463-465 asks for one ttl only.                    *)
SafeRotation(p) ==
    /\ p.lists \in Seq(Seq(KIDs) \ {<<>>}) /\ p.lists # <<>> /\ p.atOnce \in BOOLEAN
    /\ \A n \in 1..(Len(p.lists) - 1) :
         /\ SignKID(p.lists[n]) \in Range(p.lists[n + 1])
         /\ ~p.atOnce => SignKID(p.lists[n + 1]) \in Range(p.lists[n])
    /\ RotationWait >= TTL + MaxLag

Genuine(c) == c # NoCookie /\ c.kid # NoKey

(* Keys rotate without a gap: a cookie of ours that has not expired, in    *)
(* the jar, in a request or in an answer on its way, is one that every     *)
(* instance accepts, and no request is answered as forged because of it.   *)
(* It relates the cookies outstanding to the reloads yet to come.          *)
RotationKeepsCookies ==
    /\ \A c \in Held : Genuine(c) /\ c.left > 0 =>
         \A i \in Instances : c.kid \in Keyring(plan.lists[loaded[i]])
    /\ \A r \in At("read") : Genuine(requests[r].cookie) => requests[r].result # "invalid"

(* The bounds under which an active browser has its session renewed: what  *)
(* it asks for, an answer on its way and a request sent meanwhile all fall *)
(* into the second half of the TTL, which is in whole seconds.             *)
Unhurried ==
    /\ 2 * (Patience + 2 * MaxLag) <= TTL /\ 2 * (MaxLag + Second) <= TTL
    /\ TTL % Second = 0

(* A browser that asks often enough keeps the session it got, through      *)
(* renewals that cross on the way and through rotations: the cookie in its *)
(* jar has not expired, no answer replaces its id, and every checking      *)
(* block that was sent it takes the browser for a human.                   *)
ActiveSessionLasts ==
    active =>
      /\ Genuine(jar) /\ jar.left > 0
      /\ \A r \in At("answered") : LET q == requests[r] IN
           q.tracked /\ q.id = jar.id /\ q.answer # NoCookie => q.answer.id = jar.id
      /\ \A r \in At("read") : LET q == requests[r] IN
           q.tracked /\ IdOf(q.cookie) = jar.id /\ Checks(q.mode) =>
             \A class \in Claims :
               Classified(q, class) \in validClaimedUserClasses \cup {"human_verified"}

=============================================================================
