--------------------------- MODULE SessionProofs ---------------------------
(* Proofs about Session, for every finite set of requests and every set of *)
(* instances and keys, TTL and lag: keys rotate safely wherever the plans  *)
(* are SafeRotation, and sessions last where the browser is Unhurried.     *)
EXTENDS Session, FiniteSetTheorems, WellFoundedInduction, TLAPS

(* How far the rotation has come, and what is left of the wait.            *)
Rotation == [lists |-> plan.lists, at |-> loaded, wait |-> wait]

(* The key k stays known to every instance for b more ticks: where all of  *)
(* them have come to the same list, the next one has it or is loaded too   *)
(* late to matter.                                                         *)
Keeps(s, k, b) ==
    \A i \in Instances :
      /\ k \in Keyring(s.lists[s.at[i]])
      /\ (\A j \in Instances : s.at[j] = s.at[i]) /\ s.at[i] < Len(s.lists) =>
           k \in Keyring(s.lists[s.at[i] + 1]) \/ b <= s.wait

(* Instances are at most one list apart, and in one process not at all.    *)
PlanInv ==
    /\ plan \in Plans
    /\ loaded \in [Instances -> 1..Len(plan.lists)]
    /\ \A i, j \in Instances : loaded[i] <= loaded[j] + 1 /\ (plan.atOnce => loaded[i] = loaded[j])
    /\ wait \in Nat /\ phase \in Nat

IsCookie(c) == c # NoCookie => {"kid", "left"} \subseteq DOMAIN c /\ c.left \in 0..TTL

KeptWhile(s, c, b) == Genuine(c) /\ b > 0 => Keeps(s, c.kid, b)

(* The browser drops its cookie with Max-Age, expired or not.              *)
JarOK(s, c, max) ==
    /\ IsCookie(c) /\ KeptWhile(s, c, c.left) /\ KeptWhile(s, c, max)
    /\ max \in 0..TTL /\ (c # NoCookie => max > 0)

(* Until MaxLag has passed a request may be answered with the key that     *)
(* signed when it arrived, and its answer may fill the jar.                *)
Remaining(q) == TTL + MaxLag - q.lag

SentOK(s, q) ==
    /\ {"keys", "cookie"} \subseteq DOMAIN q
    /\ Keeps(s, SignKID(q.keys), Remaining(q))
    /\ IsCookie(q.cookie) /\ KeptWhile(s, q.cookie, q.cookie.left)
    /\ Genuine(q.cookie) => q.cookie.kid \in Keyring(q.keys)

AnsweredOK(s, q) ==
    /\ "answer" \in DOMAIN q /\ IsCookie(q.answer)
    /\ Genuine(q.answer) => Keeps(s, q.answer.kid, Remaining(q)) /\ q.answer.left <= Remaining(q)

RequestOK(s, q) ==
    /\ "step" \in DOMAIN q /\ q.step \in {"idle", "sent", "read", "answered"}
    /\ q.step = "idle" => q = Idle
    /\ q.step # "idle" => {"lag", "tracked"} \subseteq DOMAIN q /\ q.lag \in 0..MaxLag
    /\ q.step \in {"sent", "read"} => SentOK(s, q)
    /\ q.step = "read" => "result" \in DOMAIN q /\ (Genuine(q.cookie) => q.result # "invalid")
    /\ q.step = "answered" => AnsweredOK(s, q)

RotationInv ==
    /\ PlanInv /\ JarOK(Rotation, jar, keep)
    /\ requests = [r \in Requests |-> requests[r]]
    /\ \A r \in Requests : RequestOK(Rotation, requests[r])

-----------------------------------------------------------------------------
(* Time and numbers.                                                       *)

(* The cut to whole seconds takes less than a second from a TTL.            *)
LEMMA ConstantFacts ==
    /\ TTL \in Nat \ {0} /\ Second \in Nat \ {0} /\ MaxLag \in Nat
    /\ RotationWait \in Nat
    /\ MaxAge \in 1..TTL
    /\ \A n \in Nat : (n % Second) \in 0..(Second - 1) /\ TTL - (n % Second) \in 0..TTL
<1>1. TTL \in Nat \ {0} /\ Second \in Nat \ {0} /\ MaxLag \in Nat /\ TTL >= Second
  BY SessionAssumption
<1>2. \A n \in Nat : (n % Second) \in 0..(Second - 1)
  BY <1>1
<1>3. RotationWait \in Nat
  BY SessionAssumption
<1> QED BY <1>1, <1>2, <1>3 DEF MaxAge

(* A key that is kept for some time is kept for less, and as time passes.  *)
LEMMA Sooner ==
    ASSUME NEW s, s.wait \in Nat, NEW k, NEW b \in Int, NEW c \in Int, c <= b,
           Keeps(s, k, b)
    PROVE  Keeps(s, k, c)
BY DEF Keeps

(* After a tick the key is kept for one tick less.                         *)
LEMMA Later ==
    ASSUME NEW s, s.wait \in Nat, NEW t, t.lists = s.lists, t.at = s.at, t.wait = Down(s.wait),
           NEW k, NEW b \in Nat \ {0}, Keeps(s, k, b)
    PROVE  Keeps(t, k, b - 1)
<1>1. b <= s.wait => b - 1 <= Down(s.wait)
  BY DEF Down
<1> QED BY <1>1 DEF Keeps

-----------------------------------------------------------------------------
(* The rotation.                                                           *)

(* Every instance has a list of the plan loaded, which has a signing key.  *)
LEMMA PlanFacts ==
    ASSUME PlanInv, SafeRotation(plan)
    PROVE  /\ Len(plan.lists) \in Nat
           /\ \A i \in Instances : loaded[i] \in 1..Len(plan.lists)
           /\ \A n \in 1..Len(plan.lists) : SignKID(plan.lists[n]) \in Keyring(plan.lists[n])
<1>1. Len(plan.lists) \in Nat
  BY DEF SafeRotation
<1>2. \A n \in 1..Len(plan.lists) : plan.lists[n] \in Seq(KIDs) \ {<<>>}
  BY DEF SafeRotation
<1>3. \A s \in Seq(KIDs) \ {<<>>} : 1 \in DOMAIN s
  OBVIOUS
<1>4. \A n \in 1..Len(plan.lists) : SignKID(plan.lists[n]) \in Keyring(plan.lists[n])
  BY <1>2, <1>3 DEF SignKID, Keyring, Range
<1> QED BY <1>1, <1>4 DEF PlanInv

(* The key that signs is known to every instance, and in the next list.    *)
LEMMA SignerKept ==
    ASSUME PlanInv, SafeRotation(plan), NEW i \in Instances, NEW b
    PROVE  Keeps(Rotation, SignKID(plan.lists[loaded[i]]), b)
<1> DEFINE k == SignKID(plan.lists[loaded[i]])
<1> USE PlanFacts
<1> SUFFICES ASSUME NEW j \in Instances
             PROVE  /\ k \in Keyring(plan.lists[loaded[j]])
                    /\ loaded[i] = loaded[j] /\ loaded[j] < Len(plan.lists) =>
                         k \in Keyring(plan.lists[loaded[j] + 1])
  BY DEF Rotation, Keeps
<1>1. loaded[i] \in 1..Len(plan.lists) /\ loaded[j] \in 1..Len(plan.lists)
  OBVIOUS
<1>2. CASE loaded[i] = loaded[j]
  <2>1. loaded[j] < Len(plan.lists) => loaded[j] \in 1..(Len(plan.lists) - 1)
    BY <1>1
  <2> QED BY <1>2, <2>1, <1>1 DEF SafeRotation, Keyring
<1>3. CASE loaded[j] = loaded[i] + 1
  <2>1. loaded[i] \in 1..(Len(plan.lists) - 1)
    BY <1>1, <1>3
  <2> QED BY <1>1, <1>3, <2>1 DEF SafeRotation, Keyring
<1>4. CASE loaded[i] = loaded[j] + 1
  <2>1. loaded[j] \in 1..(Len(plan.lists) - 1) /\ loaded[i] # loaded[j]
    BY <1>1, <1>4
  <2>2. ~plan.atOnce
    BY <2>1 DEF PlanInv
  <2> QED BY <1>1, <1>4, <2>1, <2>2 DEF SafeRotation, Keyring
<1>5. loaded[i] <= loaded[j] + 1 /\ loaded[j] <= loaded[i] + 1
  BY DEF PlanInv
<1> QED BY <1>1, <1>2, <1>3, <1>4, <1>5

(* A reload takes no key away that a cookie still needs.                   *)
LEMMA ReloadKeeps ==
    ASSUME PlanInv, SafeRotation(plan), NEW group,
           group = Instances \/ (~plan.atOnce /\ \E i \in Instances : group = {i}),
           Reload(group)
    PROVE  /\ PlanInv'
           /\ \A k : \A b \in 1..RotationWait :
                Keeps(Rotation, k, b) => Keeps(Rotation', k, b)
<1> DEFINE n == loaded[CHOOSE i \in group : TRUE]
<1> USE PlanFacts
<1>0. /\ loaded' = [i \in Instances |-> IF i \in group THEN n + 1 ELSE loaded[i]]
      /\ wait' = IF Drops(n + 1) THEN RotationWait ELSE 0
      /\ \A i \in Instances : loaded[i] >= n
      /\ \A i \in group : loaded[i] = n
      /\ n < Len(plan.lists) /\ (Drops(n) => wait = 0)
      /\ plan' = plan /\ phase' = phase
  BY DEF Reload
<1>1. group \subseteq Instances /\ (Instances # {} => group # {})
  OBVIOUS
<1>2. Instances # {} => n \in 1..Len(plan.lists) /\ \E g \in group : loaded[g] = n
  <2> SUFFICES ASSUME Instances # {}
               PROVE  n \in 1..Len(plan.lists) /\ \E g \in group : loaded[g] = n
    OBVIOUS
  <2>1. PICK g \in group : g = CHOOSE i \in group : TRUE
    BY <1>1
  <2> QED BY <1>1, <2>1
<1> HIDE DEF n
<1>3. \A i \in Instances : loaded[i] \in {n, n + 1}
  <2> SUFFICES ASSUME NEW i \in Instances PROVE loaded[i] \in {n, n + 1}
    OBVIOUS
  <2>1. loaded[i] \in 1..Len(plan.lists) /\ n \in 1..Len(plan.lists) /\ loaded[i] >= n
    BY <1>0, <1>2
  <2>2. loaded[i] <= n + 1
    BY <1>1, <1>2 DEF PlanInv
  <2> QED BY <2>1, <2>2
<1>4. PlanInv'
  <2>1. \A i \in Instances : loaded'[i] \in 1..Len(plan.lists)
    BY <1>0, <1>2
  <2>2. ASSUME NEW i \in Instances, NEW j \in Instances
        PROVE  loaded'[i] <= loaded'[j] + 1 /\ (plan.atOnce => loaded'[i] = loaded'[j])
    <3>1. loaded'[i] \in {n, n + 1} /\ loaded'[j] \in {n, n + 1} /\ n \in Nat
      BY <1>0, <1>2, <1>3
    <3>2. plan.atOnce => loaded'[i] = n + 1 /\ loaded'[j] = n + 1
      BY <1>0
    <3> QED BY <3>1, <3>2
  <2>3. loaded' \in [Instances -> 1..Len(plan.lists)]
    BY <1>0, <2>1
  <2>4. wait' \in Nat
    BY <1>0, ConstantFacts
  <2> QED BY <1>0, <2>2, <2>3, <2>4 DEF PlanInv
<1>5. ASSUME NEW k, NEW b \in 1..RotationWait, Keeps(Rotation, k, b), NEW j \in Instances
      PROVE  /\ k \in Keyring(plan.lists[loaded'[j]])
             /\ (\A i \in Instances : loaded'[i] = loaded'[j]) /\ loaded'[j] < Len(plan.lists) =>
                  k \in Keyring(plan.lists[loaded'[j] + 1]) \/ b <= wait'
  <2> USE DEF Keyring
  <2>2. \A i \in Instances : k \in Range(plan.lists[loaded[i]])
    BY <1>5 DEF Rotation, Keeps
  <2>3. k \in Range(plan.lists[n + 1])
    <3>1. CASE \E i \in Instances : loaded[i] = n + 1
      BY <2>2, <3>1
    <3>2. CASE \A i \in Instances : loaded[i] = n
      <4>1. k \in Range(plan.lists[n]) /\ (k \in Range(plan.lists[n + 1]) \/ b <= wait)
        BY <1>0, <1>5, <3>2 DEF Rotation, Keeps
      <4>2. CASE b <= wait
        <5>1. ~Drops(n)
          BY <1>0, <4>2, ConstantFacts
        <5> QED BY <1>0, <4>1, <5>1 DEF Drops
      <4> QED BY <4>1, <4>2
    <3> QED BY <1>3, <3>1, <3>2
  <2>4. k \in Range(plan.lists[loaded'[j]])
    BY <1>0, <2>2, <2>3
  <2>5. ASSUME \A i \in Instances : loaded'[i] = loaded'[j], loaded'[j] < Len(plan.lists)
        PROVE  k \in Range(plan.lists[loaded'[j] + 1]) \/ b <= wait'
    <3>1. loaded'[j] = n + 1
      BY <1>0, <1>1, <1>2, <2>5
    <3>2. CASE Drops(n + 1)
      BY <1>0, <3>2, ConstantFacts
    <3>3. CASE ~Drops(n + 1)
      BY <2>3, <2>5, <3>1, <3>3 DEF Drops
    <3> QED BY <3>2, <3>3
  <2> QED BY <2>4, <2>5
<1>6. /\ Rotation.lists = plan.lists /\ Rotation.at = loaded /\ Rotation.wait = wait
      /\ Rotation'.lists = plan.lists /\ Rotation'.at = loaded' /\ Rotation'.wait = wait'
  BY <1>0 DEF Rotation
<1>7. \A k : \A b \in 1..RotationWait : Keeps(Rotation, k, b) => Keeps(Rotation', k, b)
  <2> SUFFICES ASSUME NEW k, NEW b \in 1..RotationWait, Keeps(Rotation, k, b) PROVE Keeps(Rotation', k, b)
    OBVIOUS
  <2> QED BY <1>5, <1>6 DEF Keeps
<1> QED BY <1>4, <1>7

-----------------------------------------------------------------------------
(* A request.                                                              *)

(* At first no cookie is ours, and every instance has the first list.      *)
LEMMA InitRotationInv ==
    ASSUME Init, \A p \in Plans : SafeRotation(p)
    PROVE  RotationInv
<1> USE ConstantFacts DEF Init
<1>1. wait \in Nat /\ phase \in Nat /\ plan \in Plans
  OBVIOUS
<1>2. \A r \in Requests : requests[r] = Idle /\ Idle.step = "idle" /\ "step" \in DOMAIN Idle
  BY DEF Idle
<1>3. \A r \in Requests : RequestOK(Rotation, requests[r])
  BY <1>2 DEF RequestOK
<1>4. JarOK(Rotation, jar, keep)
  <2>1. ~Genuine(jar)
    BY DEF Genuine, Forged
  <2>2. IsCookie(jar)
    BY DEF IsCookie, Forged
  <2> QED BY <2>1, <2>2 DEF JarOK, KeptWhile
<1>5. loaded \in [Instances -> 1..Len(plan.lists)]
  <2>1. plan.lists \in Seq(Seq(KIDs) \ {<<>>}) /\ plan.lists # <<>>
    BY <1>1 DEF SafeRotation
  <2>2. 1 \in 1..Len(plan.lists)
    BY <2>1
  <2> QED BY <2>2
<1> QED BY <1>1, <1>3, <1>4, <1>5 DEF RotationInv, PlanInv

(* One request goes on, and the jar may change; the rotation does not.     *)
LEMMA OneGoesOn ==
    ASSUME RotationInv, NEW r \in Requests, NEW q, RequestOK(Rotation, q),
           requests' = [requests EXCEPT ![r] = q], JarOK(Rotation, jar', keep'),
           UNCHANGED <<plan, loaded, wait, phase>>
    PROVE  RotationInv'
<1>1. Rotation' = Rotation
  BY DEF Rotation
<1>2. requests' = [x \in Requests |-> IF x = r THEN q ELSE requests[x]]
  BY DEF RotationInv
<1>3. \A x \in Requests : RequestOK(Rotation', requests'[x])
  BY <1>1, <1>2 DEF RotationInv
<1>4. requests' = [x \in Requests |-> requests'[x]]
  BY <1>2
<1>5. JarOK(Rotation', jar', keep')
  BY <1>1
<1>6. PlanInv'
  BY DEF RotationInv, PlanInv
<1> QED BY <1>3, <1>4, <1>5, <1>6 DEF RotationInv

(* The keys that serve a request are known to every instance.              *)
LEMMA SendKeeps ==
    ASSUME RotationInv, \A p \in Plans : SafeRotation(p),
           NEW r \in Requests, NEW i \in Instances, NEW mode \in Modes, Send(r, i, mode)
    PROVE  RotationInv'
<1> DEFINE q == [step |-> "sent", keys |-> plan.lists[loaded[i]], mode |-> mode,
                 cookie |-> jar, lag |-> 0, tracked |-> active]
<1>1. requests' = [requests EXCEPT ![r] = q] /\ UNCHANGED <<jar, keep, plan, loaded, wait, phase>>
  BY DEF Send
<1>2. Keeps(Rotation, SignKID(q.keys), Remaining(q))
  BY SignerKept DEF RotationInv, PlanInv
<1>3. Genuine(jar) => jar.kid \in Keyring(q.keys)
  <2>1. Genuine(jar) => Keeps(Rotation, jar.kid, keep)
    BY DEF RotationInv, JarOK, KeptWhile, Genuine
  <2> QED BY <2>1 DEF Keeps, Rotation
<1>4. q.step = "sent" /\ q.lag = 0 /\ q.cookie = jar
      /\ {"step", "lag", "tracked", "keys", "cookie"} \subseteq DOMAIN q
  OBVIOUS
<1> HIDE DEF q
<1>5. JarOK(Rotation, jar, keep)
  BY DEF RotationInv
<1>6. RequestOK(Rotation, q)
  BY <1>2, <1>3, <1>4, <1>5, ConstantFacts DEF RequestOK, SentOK, JarOK
<1> QED BY <1>1, <1>5, <1>6, OneGoesOn

(* The keys of the request know the cookie it carries.                     *)
LEMMA ReadKeeps ==
    ASSUME RotationInv, NEW r \in Requests, Read(r)
    PROVE  RotationInv'
<1> DEFINE o == requests[r]
           q == [step |-> "read", keys |-> o.keys, mode |-> o.mode, cookie |-> o.cookie,
                 lag |-> o.lag, tracked |-> o.tracked, result |-> verify(o.cookie, o.keys)]
<1>1. requests' = [requests EXCEPT ![r] = q] /\ UNCHANGED <<jar, keep, plan, loaded, wait, phase>>
  BY DEF Read
<1>2. RequestOK(Rotation, o) /\ o.step = "sent"
  BY DEF RotationInv, Read
<1>3. /\ q.step = "read" /\ q.lag = o.lag /\ q.cookie = o.cookie /\ q.keys = o.keys
      /\ q.result = verify(o.cookie, o.keys)
      /\ {"step", "lag", "tracked", "keys", "cookie", "result"} \subseteq DOMAIN q
  OBVIOUS
<1> HIDE DEF q, o
<1>4. SentOK(Rotation, q)
  BY <1>2, <1>3 DEF RequestOK, SentOK, Remaining
<1>5. Genuine(q.cookie) => q.result # "invalid"
  BY <1>3, <1>4 DEF SentOK, verify, Genuine
<1>6. RequestOK(Rotation, q)
  BY <1>2, <1>3, <1>4, <1>5 DEF RequestOK
<1>7. JarOK(Rotation, jar', keep')
  BY <1>1 DEF RotationInv
<1> QED BY <1>1, <1>6, <1>7, OneGoesOn

(* What an answer may set is a cookie signed by the key of the request.    *)
LEMMA IssueFacts ==
    ASSUME PlanInv, NEW q, NEW a \in maybeIssue(q)
    PROVE  a = NoCookie \/ (a.kid = SignKID(q.keys) /\ {"kid", "left"} \subseteq DOMAIN a /\ a.left \in 0..TTL)
<1>1. \A id : /\ sign(id, q.keys).kid = SignKID(q.keys)
              /\ {"kid", "left"} \subseteq DOMAIN sign(id, q.keys)
              /\ sign(id, q.keys).left \in 0..TTL
  <2> SUFFICES ASSUME NEW id
               PROVE  LET c == sign(id, q.keys) IN
                        c.kid = SignKID(q.keys) /\ {"kid", "left"} \subseteq DOMAIN c /\ c.left \in 0..TTL
    OBVIOUS
  <2>1. phase + TTL \in Nat
    BY ConstantFacts DEF PlanInv
  <2>2. TTL - ((phase + TTL) % Second) \in 0..TTL
    BY <2>1, ConstantFacts
  <2> QED BY <2>2 DEF sign
<1>2. a = NoCookie \/ \E id : a = sign(id, q.keys)
  BY DEF maybeIssue
<1> QED BY <1>1, <1>2

(* The answer signs with the key that the request was served with.         *)
LEMMA AnswerKeeps ==
    ASSUME RotationInv, NEW r \in Requests, Answer(r)
    PROVE  RotationInv'
<1> DEFINE o == requests[r]
<1>1. PICK a \in maybeIssue(o) :
        requests' = [requests EXCEPT ![r] =
           [step |-> "answered", id |-> IF a = NoCookie THEN 0 ELSE IdOf(o.cookie),
            lag |-> o.lag, tracked |-> o.tracked, answer |-> a]]
  BY DEF Answer
<1> DEFINE q == [step |-> "answered", id |-> IF a = NoCookie THEN 0 ELSE IdOf(o.cookie),
                 lag |-> o.lag, tracked |-> o.tracked, answer |-> a]
<1>2. requests' = [requests EXCEPT ![r] = q] /\ UNCHANGED <<jar, keep, plan, loaded, wait, phase>>
  BY <1>1 DEF Answer
<1>3. RequestOK(Rotation, o) /\ o.step = "read" /\ PlanInv
  BY DEF RotationInv, Answer
<1>4. /\ q.step = "answered" /\ q.lag = o.lag /\ q.answer = a
      /\ {"step", "lag", "tracked", "answer"} \subseteq DOMAIN q
  OBVIOUS
<1> HIDE DEF q, o
<1>5. o.lag \in 0..MaxLag /\ Keeps(Rotation, SignKID(o.keys), Remaining(o))
  BY <1>3 DEF RequestOK, SentOK
<1>6. AnsweredOK(Rotation, q)
  BY <1>3, <1>4, <1>5, IssueFacts, ConstantFacts DEF AnsweredOK, IsCookie, Genuine, Remaining
<1>7. RequestOK(Rotation, q)
  BY <1>4, <1>5, <1>6 DEF RequestOK
<1>8. JarOK(Rotation, jar', keep')
  BY <1>2 DEF RotationInv
<1> QED BY <1>2, <1>7, <1>8, OneGoesOn

(* The jar takes an answer, which every instance accepts as long as the    *)
(* browser may hold it.                                                    *)
LEMMA ReceiveKeeps ==
    ASSUME RotationInv, NEW r \in Requests, Receive(r)
    PROVE  RotationInv'
<1> DEFINE o == requests[r]
           a == o.answer
<1>1. /\ requests' = [requests EXCEPT ![r] = Idle] /\ UNCHANGED <<plan, loaded, wait, phase>>
      /\ jar' = (IF a = NoCookie THEN jar ELSE a) /\ keep' = (IF a = NoCookie THEN keep ELSE MaxAge)
  BY DEF Receive
<1>2. RequestOK(Rotation, o) /\ o.step = "answered" /\ wait \in Nat
  BY DEF RotationInv, Receive, PlanInv
<1>3. RequestOK(Rotation, Idle)
  BY DEF RequestOK, Idle
<1>4. JarOK(Rotation, jar', keep')
  <2>1. CASE a = NoCookie
    BY <1>1, <2>1 DEF RotationInv
  <2>2. CASE a # NoCookie
    <3> HIDE DEF o
    <3>1. AnsweredOK(Rotation, o) /\ o.lag \in 0..MaxLag
      BY <1>2 DEF RequestOK
    <3>2. Remaining(o) \in Nat /\ MaxAge <= Remaining(o) /\ MaxAge \in 1..TTL
      BY <3>1, ConstantFacts DEF Remaining
    <3>3. IsCookie(a) /\ (Genuine(a) => a.left \in Nat)
      BY <3>1, ConstantFacts DEF AnsweredOK, IsCookie, Genuine
    <3>4. Rotation.wait \in Nat
      BY <1>2 DEF Rotation
    <3>5. Genuine(a) => Keeps(Rotation, a.kid, a.left) /\ Keeps(Rotation, a.kid, MaxAge)
      BY <3>1, <3>2, <3>3, <3>4, Sooner DEF AnsweredOK
    <3> QED BY <1>1, <2>2, <3>2, <3>3, <3>5, ConstantFacts DEF JarOK, KeptWhile
  <2> QED BY <2>1, <2>2
<1> QED BY <1>1, <1>3, <1>4, OneGoesOn

-----------------------------------------------------------------------------
(* The operator and time.                                                  *)

(* A reload keeps what the jar, the requests and the answers rely on.      *)
LEMMA ReloadStepKeeps ==
    ASSUME RotationInv, \A p \in Plans : SafeRotation(p), NEW group,
           group = Instances \/ (~plan.atOnce /\ \E i \in Instances : group = {i}),
           Reload(group)
    PROVE  RotationInv'
<1>1. UNCHANGED <<jar, keep, requests, plan>>
  BY DEF Reload
<1>2. /\ PlanInv'
      /\ \A k : \A b \in 1..(TTL + MaxLag) : Keeps(Rotation, k, b) => Keeps(Rotation', k, b)
  <2>1. PlanInv /\ SafeRotation(plan)
    BY DEF RotationInv, PlanInv
  <2>2. \A b \in 1..(TTL + MaxLag) : b \in 1..RotationWait
    BY <2>1, ConstantFacts DEF SafeRotation
  <2> QED BY <2>1, <2>2, ReloadKeeps
<1>3. \A c : \A b \in 0..TTL : KeptWhile(Rotation, c, b) => KeptWhile(Rotation', c, b)
  BY <1>2, ConstantFacts DEF KeptWhile
<1>4. JarOK(Rotation', jar, keep)
  <2>1. JarOK(Rotation, jar, keep)
    BY DEF RotationInv
  <2>2. Genuine(jar) => jar.left \in 0..TTL
    BY <2>1 DEF JarOK, IsCookie, Genuine
  <2> QED BY <1>3, <2>1, <2>2 DEF JarOK, KeptWhile
<1>5. ASSUME NEW q, RequestOK(Rotation, q)
      PROVE  RequestOK(Rotation', q)
  <2>1. q.step \in {"sent", "read", "answered"} => q.lag \in 0..MaxLag /\ Remaining(q) \in 1..(TTL + MaxLag)
    <3>1. q.step \in {"sent", "read", "answered"} => q.lag \in 0..MaxLag
      BY <1>5 DEF RequestOK
    <3>2. q.lag \in 0..MaxLag => TTL + MaxLag - q.lag \in 1..(TTL + MaxLag)
      <4> DEFINE lag == q.lag
      <4> HIDE DEF lag
      <4>1. lag \in 0..MaxLag => TTL + MaxLag - lag \in 1..(TTL + MaxLag)
        BY ConstantFacts
      <4> QED BY <4>1 DEF lag
    <3> QED BY <3>1, <3>2, ConstantFacts DEF Remaining
  <2>2. q.step \in {"sent", "read"} => SentOK(Rotation', q)
    <3> SUFFICES ASSUME q.step \in {"sent", "read"} PROVE SentOK(Rotation', q)
      OBVIOUS
    <3>1. SentOK(Rotation, q)
      BY <1>5 DEF RequestOK
    <3>2. Genuine(q.cookie) => q.cookie.left \in 0..TTL
      BY <3>1 DEF SentOK, IsCookie, Genuine
    <3>3. KeptWhile(Rotation', q.cookie, q.cookie.left)
      BY <1>3, <3>1, <3>2 DEF SentOK, KeptWhile
    <3> QED BY <1>2, <2>1, <3>1, <3>3 DEF SentOK
  <2>3. q.step = "answered" => AnsweredOK(Rotation', q)
    BY <1>2, <1>5, <2>1 DEF RequestOK, AnsweredOK
  <2> QED BY <1>5, <2>2, <2>3 DEF RequestOK
<1>6. \A r \in Requests : RequestOK(Rotation', requests[r])
  BY <1>5 DEF RotationInv
<1>7. requests = [r \in Requests |-> requests[r]]
  BY DEF RotationInv
<1> QED BY <1>1, <1>2, <1>4, <1>6, <1>7 DEF RotationInv

(* A tick ages every cookie and every request, and shortens the wait.      *)
LEMMA AgedCookie ==
    ASSUME NEW c, IsCookie(c)
    PROVE  /\ IsCookie(Aged(c)) /\ (Aged(c) = NoCookie => ~Genuine(Aged(c)))
           /\ Genuine(Aged(c)) => /\ Genuine(c) /\ Aged(c).kid = c.kid
                                  /\ c.left \in Nat /\ Aged(c).left = Down(c.left)
<1>1. CASE c = NoCookie
  BY <1>1 DEF Aged, IsCookie, Genuine
<1>2. CASE c # NoCookie
  <2>1. {"kid", "left"} \subseteq DOMAIN c /\ c.left \in 0..TTL
    BY <1>2 DEF IsCookie
  <2>2. Aged(c) = [c EXCEPT !.left = Down(c.left)]
    BY <1>2 DEF Aged
  <2>3. DOMAIN Aged(c) = DOMAIN c /\ Aged(c).kid = c.kid /\ Aged(c).left = Down(c.left)
    BY <2>1, <2>2
  <2>4. Down(c.left) \in 0..TTL
    BY <2>1, ConstantFacts DEF Down
  <2> QED BY <1>2, <2>1, <2>3, <2>4 DEF IsCookie, Genuine
<1> QED BY <1>1, <1>2

(* What a cookie and a request still need shrinks as fast as the wait.     *)
LEMMA ElapseKeeps ==
    ASSUME RotationInv, Elapse
    PROVE  RotationInv'
<1>1. /\ \A r \in Requests : requests[r] # Idle => requests[r].lag < MaxLag
      /\ jar' = (IF keep <= 1 THEN NoCookie ELSE Aged(jar)) /\ keep' = Down(keep)
      /\ requests' = [r \in Requests |->
           IF requests[r] = Idle THEN Idle
           ELSE [AgedRequest(requests[r]) EXCEPT !.tracked = @ /\ active']]
      /\ wait' = Down(wait) /\ phase' = (phase + 1) % Second /\ UNCHANGED <<plan, loaded>>
  BY DEF Elapse
<1>2. PlanInv'
  <2>1. wait \in Nat /\ phase \in Nat /\ Second \in Nat \ {0}
    BY ConstantFacts DEF RotationInv, PlanInv
  <2>2. wait' \in Nat
    BY <1>1, <2>1 DEF Down
  <2>3. phase' \in Nat
    BY <1>1, <2>1
  <2> QED BY <1>1, <2>2, <2>3 DEF RotationInv, PlanInv
<1>3. \A k : \A b \in Nat \ {0} : Keeps(Rotation, k, b) => Keeps(Rotation', k, b - 1)
  <2>1. /\ Rotation.wait \in Nat /\ Rotation'.lists = Rotation.lists
        /\ Rotation'.at = Rotation.at /\ Rotation'.wait = Down(Rotation.wait)
    BY <1>1 DEF Rotation, RotationInv, PlanInv
  <2> HIDE DEF Rotation
  <2> QED BY <2>1, Later
<1>4. \A c : \A b \in Nat : KeptWhile(Rotation, c, b) /\ Genuine(c) /\ Down(b) > 0 => Keeps(Rotation', c.kid, Down(b))
  BY <1>3 DEF KeptWhile, Down
<1>5. \A c : IsCookie(c) /\ KeptWhile(Rotation, c, c.left) => KeptWhile(Rotation', Aged(c), Aged(c).left)
  BY <1>4, AgedCookie DEF KeptWhile
<1>6. JarOK(Rotation', jar', keep')
  <2>1. JarOK(Rotation, jar, keep)
    BY DEF RotationInv
  <2>2. CASE keep <= 1
    BY <1>1, <2>1, <2>2, ConstantFacts DEF JarOK, IsCookie, KeptWhile, Genuine, Down
  <2>3. CASE ~(keep <= 1)
    <3>1. jar' = Aged(jar) /\ keep' \in 0..TTL /\ keep' > 0 /\ keep' = Down(keep) /\ keep \in Nat
      <4>1. keep \in 0..TTL
        BY <2>1 DEF JarOK
      <4> QED BY <1>1, <2>3, <4>1, ConstantFacts DEF Down
    <3>2. IsCookie(Aged(jar)) /\ KeptWhile(Rotation', Aged(jar), Aged(jar).left)
      BY <1>5, <2>1, AgedCookie DEF JarOK
    <3>3. KeptWhile(Rotation', Aged(jar), keep')
      BY <1>4, <2>1, <3>1, AgedCookie DEF JarOK, KeptWhile
    <3> QED BY <3>1, <3>2, <3>3 DEF JarOK
  <2> QED BY <2>2, <2>3
<1>7. ASSUME NEW r \in Requests
      PROVE  RequestOK(Rotation', requests'[r])
  <2> DEFINE o == requests[r]
             q == requests'[r]
  <2>1. RequestOK(Rotation, o) /\ (o # Idle => o.lag < MaxLag)
    BY <1>1 DEF RotationInv
  <2>2. o # Idle => q = [AgedRequest(o) EXCEPT !.tracked = @ /\ active']
    BY <1>1
  <2>3. o = Idle => q = Idle
    BY <1>1
  <2> HIDE DEF o, q
  <2> SUFFICES RequestOK(Rotation', q)
    BY DEF q
  <2>4. CASE o = Idle
    BY <2>3, <2>4 DEF RequestOK, Idle
  <2>5. CASE o.step \in {"sent", "read"}
    <3>1. {"step", "lag", "tracked", "keys", "cookie"} \subseteq DOMAIN o /\ o.lag \in 0..MaxLag /\ o # Idle
      BY <2>1, <2>5 DEF RequestOK, SentOK, Idle
    <3>2. q = [[o EXCEPT !.cookie = Aged(o.cookie), !.lag = o.lag + 1] EXCEPT !.tracked = o.tracked /\ active']
      BY <2>2, <2>5, <3>1 DEF AgedRequest
    <3>3. /\ q.step = o.step /\ q.keys = o.keys /\ q.cookie = Aged(o.cookie) /\ q.lag = o.lag + 1
          /\ DOMAIN q = DOMAIN o /\ (o.step = "read" => "result" \in DOMAIN q /\ q.result = o.result)
      BY <2>1, <3>1, <3>2 DEF RequestOK
    <3>4. q.lag \in 0..MaxLag /\ Remaining(o) \in Nat \ {0} /\ Remaining(q) = Remaining(o) - 1
      <4>1. o.lag \in 0..MaxLag /\ o.lag < MaxLag /\ q.lag = o.lag + 1 /\ MaxLag \in Nat /\ TTL \in Nat
        BY <2>1, <3>1, <3>3, ConstantFacts
      <4> QED BY <4>1 DEF Remaining
    <3>5. SentOK(Rotation, o)
      BY <2>1, <2>5 DEF RequestOK
    <3>6. Keeps(Rotation', SignKID(q.keys), Remaining(q))
      BY <1>3, <3>3, <3>4, <3>5 DEF SentOK
    <3>7. IsCookie(q.cookie) /\ KeptWhile(Rotation', q.cookie, q.cookie.left)
      BY <1>5, <3>3, <3>5, AgedCookie DEF SentOK
    <3>8. Genuine(q.cookie) => q.cookie.kid \in Keyring(q.keys)
      BY <3>3, <3>5, AgedCookie DEF SentOK
    <3>9. SentOK(Rotation', q)
      BY <3>1, <3>3, <3>6, <3>7, <3>8 DEF SentOK
    <3>10. q.step = "read" /\ Genuine(q.cookie) => q.result # "invalid"
      BY <2>1, <3>3, <3>5, AgedCookie DEF RequestOK, SentOK
    <3> QED BY <2>5, <3>1, <3>3, <3>4, <3>9, <3>10 DEF RequestOK
  <2>6. CASE o.step = "answered"
    <3>1. {"step", "lag", "tracked", "answer"} \subseteq DOMAIN o /\ o.lag \in 0..MaxLag /\ o # Idle
      BY <2>1, <2>6 DEF RequestOK, AnsweredOK, Idle
    <3>2. q = [[o EXCEPT !.answer = Aged(o.answer), !.lag = o.lag + 1] EXCEPT !.tracked = o.tracked /\ active']
      BY <2>2, <2>6, <3>1 DEF AgedRequest
    <3>3. q.step = o.step /\ q.answer = Aged(o.answer) /\ q.lag = o.lag + 1 /\ DOMAIN q = DOMAIN o
      BY <3>1, <3>2
    <3>4. q.lag \in 0..MaxLag /\ Remaining(o) \in Nat \ {0} /\ Remaining(q) = Remaining(o) - 1
      <4>1. o.lag \in 0..MaxLag /\ o.lag < MaxLag /\ q.lag = o.lag + 1 /\ MaxLag \in Nat /\ TTL \in Nat
        BY <2>1, <3>1, <3>3, ConstantFacts
      <4> QED BY <4>1 DEF Remaining
    <3>5. AnsweredOK(Rotation, o)
      BY <2>1, <2>6 DEF RequestOK
    <3>6. IsCookie(q.answer)
      BY <3>3, <3>5, AgedCookie DEF AnsweredOK
    <3>7. ASSUME Genuine(q.answer)
          PROVE  Keeps(Rotation', q.answer.kid, Remaining(q)) /\ q.answer.left <= Remaining(q)
      <4>1. Genuine(o.answer) /\ q.answer.kid = o.answer.kid /\ q.answer.left = Down(o.answer.left)
            /\ o.answer.left \in Nat
        BY <3>3, <3>5, <3>7, AgedCookie DEF AnsweredOK
      <4>2. Keeps(Rotation, o.answer.kid, Remaining(o)) /\ o.answer.left <= Remaining(o)
        BY <3>5, <4>1 DEF AnsweredOK
      <4>3. Down(o.answer.left) <= Remaining(o) - 1
        BY <3>4, <4>1, <4>2 DEF Down
      <4> QED BY <1>3, <3>4, <4>1, <4>2, <4>3
    <3>8. AnsweredOK(Rotation', q)
      BY <3>1, <3>3, <3>6, <3>7 DEF AnsweredOK
    <3> QED BY <2>6, <3>1, <3>3, <3>4, <3>8 DEF RequestOK
  <2> QED BY <2>1, <2>4, <2>5, <2>6 DEF RequestOK
<1>8. requests' = [r \in Requests |-> requests'[r]]
  BY <1>1
<1> QED BY <1>2, <1>6, <1>7, <1>8 DEF RotationInv

(* Every step keeps the invariant.                                         *)
LEMMA NextRotationInv ==
    ASSUME \A p \in Plans : SafeRotation(p)
    PROVE  RotationInv /\ [Next]_vars => RotationInv'
<1> SUFFICES ASSUME RotationInv, [Next]_vars PROVE RotationInv'
  OBVIOUS
<1>1. CASE UNCHANGED vars
  BY <1>1 DEF vars, RotationInv, PlanInv, Rotation
<1>2. ASSUME NEW r \in Requests, \/ \E i \in Instances, mode \in Modes : Send(r, i, mode)
                                 \/ Read(r) \/ Answer(r) \/ Receive(r)
      PROVE  RotationInv'
  BY <1>2, SendKeeps, ReadKeeps, AnswerKeeps, ReceiveKeeps
<1>3. CASE plan.atOnce /\ Reload(Instances)
  BY <1>3, ReloadStepKeeps
<1>4. CASE ~plan.atOnce /\ \E i \in Instances : Reload({i})
  BY <1>4, ReloadStepKeeps
<1> QED BY <1>1, <1>2, <1>3, <1>4, ElapseKeeps DEF Next

(* The keys that the cookies and the requests under way need stay loaded.  *)
THEOREM Invariance ==
    ASSUME \A p \in Plans : SafeRotation(p)
    PROVE  Spec => []RotationInv
BY InitRotationInv, NextRotationInv, PTL DEF Spec

(* Keys rotate without a gap, wherever the plans never drop the key that   *)
(* signs and the operator waits out TTL and lag: no cookie of ours is      *)
(* refused before it expires, at any instance, between any two reloads.    *)
THEOREM KeysRotateSafely ==
    ASSUME \A p \in Plans : SafeRotation(p)
    PROVE  Spec => []RotationKeepsCookies
<1>1. RotationInv => RotationKeepsCookies
  <2> SUFFICES ASSUME RotationInv PROVE RotationKeepsCookies
    OBVIOUS
  <2>1. ASSUME NEW c, c.left > 0, Genuine(c), KeptWhile(Rotation, c, c.left), NEW i \in Instances
        PROVE  c.kid \in Keyring(plan.lists[loaded[i]])
    BY <2>1 DEF KeptWhile, Keeps, Rotation
  <2>2. ASSUME NEW c \in Held, Genuine(c), c.left > 0
        PROVE  KeptWhile(Rotation, c, c.left)
    <3>1. CASE c = jar
      BY <3>1 DEF RotationInv, JarOK
    <3>2. ASSUME NEW r \in At("sent") \cup At("read"), c = requests[r].cookie
          PROVE  KeptWhile(Rotation, c, c.left)
      BY <3>2 DEF At, RotationInv, RequestOK, SentOK
    <3>3. ASSUME NEW r \in At("answered"), c = requests[r].answer
          PROVE  KeptWhile(Rotation, c, c.left)
      <4>1. RequestOK(Rotation, requests[r]) /\ requests[r].step = "answered" /\ Rotation.wait \in Nat
        BY DEF At, RotationInv, PlanInv, Rotation
      <4> DEFINE q == requests[r]
      <4> HIDE DEF q
      <4>2. /\ Keeps(Rotation, c.kid, Remaining(q)) /\ c.left <= Remaining(q)
            /\ c.left \in Int /\ Remaining(q) \in Int
        BY <2>2, <3>3, <4>1, ConstantFacts DEF q, RequestOK, AnsweredOK, Remaining, IsCookie, Genuine
      <4> QED BY <4>1, <4>2, Sooner DEF KeptWhile
    <3> QED BY <3>1, <3>2, <3>3 DEF Held
  <2>3. ASSUME NEW r \in At("read"), Genuine(requests[r].cookie)
        PROVE  requests[r].result # "invalid"
    BY <2>3 DEF At, RotationInv, RequestOK
  <2> QED BY <2>1, <2>2, <2>3 DEF RotationKeepsCookies
<1> QED BY <1>1, Invariance, PTL

-----------------------------------------------------------------------------
(* The session of an active browser.                                       *)

Space == [kid : KIDs \cup {NoKey}, id : Nat, left : 0..TTL]

(* A request that began in an active session carries a cookie that lasts   *)
(* until its answer, and its answer renews the session it asked for.       *)
CarriesOK(q) ==
    /\ {"mode", "keys"} \subseteq DOMAIN q /\ q.cookie \in Space \cup {NoCookie}
    /\ SignKID(q.keys) \in KIDs
    /\ q.tracked => Genuine(q.cookie) /\ q.cookie.left + q.lag > MaxLag

RenewedOK(q) ==
    /\ "id" \in DOMAIN q /\ q.answer \in Space \cup {NoCookie}
    /\ q.answer # NoCookie =>
         /\ Genuine(q.answer) /\ q.answer.left + q.lag > TTL - Second
         /\ q.tracked => q.answer.id = q.id

TrackedOK(act, q) ==
    /\ q.step # "idle" /\ q.tracked => act
    /\ q.step \in {"sent", "read"} => CarriesOK(q)
    /\ q.step = "read" => (q.tracked => q.result = "valid")
                       /\ (q.result = "valid" => q.cookie # NoCookie)
    /\ q.step = "answered" => RenewedOK(q)

(* A request that will bring a new cookie.                                 *)
Renews(q) ==
    \/ q.step \in {"sent", "read"} /\ Issues(q.mode) /\ q.tracked /\ 2 * q.cookie.left <= TTL
    \/ q.step = "answered" /\ q.answer # NoCookie

(* When an issuing block was last asked the cookie was in its first half,  *)
(* or a renewal is on its way, asked for by a request sent no later than   *)
(* Patience after the cookie was.                                          *)
Fresh ==
    \/ 2 * (jar.left + gap) > TTL
    \/ \E r \in Requests : Renews(requests[r]) /\ 2 * (jar.left + requests[r].lag + Patience) > TTL

ActiveInv ==
    /\ gap \in 0..Patience /\ active \in BOOLEAN
    /\ jar \in Space \cup {NoCookie} /\ (jar # NoCookie => jar.left <= keep)
    /\ \A r \in Requests : TrackedOK(active, requests[r])
    /\ active => Genuine(jar) /\ Fresh

(* A new session takes a number: those in use are finitely many.           *)
LEMMA ImageFinite ==
    ASSUME NEW S, IsFiniteSet(S), NEW f
    PROVE  IsFiniteSet({f[x] : x \in S})
<1> DEFINE T == {f[x] : x \in S}
           g == [x \in S |-> f[x]]
<1>1. g \in Surjection(S, T)
  BY DEF Surjection
<1> QED BY <1>1, FS_Surjection

(* A set of numbers that is not empty has a least one.                     *)
LEMMA Least ==
    ASSUME NEW S \in SUBSET Nat, S # {}
    PROVE  \E m \in S : \A k \in S : m <= k
<1>1. PICK m \in S : \A k \in S : ~(<<k, m>> \in OpToRel(<, Nat))
  BY NatLessThanWellFounded, WFMin
<1>2. \A k \in Nat : k < m => <<k, m>> \in OpToRel(<, Nat)
  BY DEF OpToRel
<1>3. \A k \in S : ~(k < m)
  BY <1>1, <1>2
<1> QED BY <1>3

(* There is always a number that nobody holds.                             *)
LEMMA NewIDIsNat == newID \in Nat
<1>1. \A st : IsFiniteSet(At(st))
  <2> SUFFICES ASSUME NEW st PROVE IsFiniteSet(At(st))
    OBVIOUS
  <2> QED BY FS_Subset, SessionAssumption DEF At
<1>2. IsFiniteSet(Held)
  <2> DEFINE S == At("sent") \cup At("read")
             f == [r \in Requests |-> requests[r].cookie]
             T == At("answered")
             g == [r \in Requests |-> requests[r].answer]
             U == {jar} \cup {f[r] : r \in S} \cup {g[r] : r \in T}
  <2>1. IsFiniteSet(S) /\ IsFiniteSet(T)
    BY <1>1, FS_Union
  <2>2. IsFiniteSet({f[r] : r \in S}) /\ IsFiniteSet({g[r] : r \in T})
    <3> HIDE DEF S, T, f, g
    <3> QED BY <2>1, ImageFinite
  <2>3. IsFiniteSet(U)
    <3> HIDE DEF S, T, f, g
    <3> QED BY <2>2, FS_Union, FS_Singleton
  <2>4. \A r \in S : r \in Requests /\ f[r] = requests[r].cookie
    BY DEF At
  <2>5. \A r \in T : r \in Requests /\ g[r] = requests[r].answer
    BY DEF At
  <2>6. Held \subseteq U
    <3> HIDE DEF f, g
    <3> QED BY <2>4, <2>5 DEF Held
  <2> HIDE DEF U
  <2> QED BY <2>3, <2>6, FS_Subset
<1>3. IsFiniteSet(InUse)
  <2> DEFINE f == [c \in Held |-> c.id]
             g == [r \in Requests |-> requests[r].id]
             U == {f[c] : c \in Held} \cup {g[r] : r \in At("answered")}
  <2>1. IsFiniteSet({f[c] : c \in Held}) /\ IsFiniteSet({g[r] : r \in At("answered")})
    <3> HIDE DEF f, g
    <3> QED BY <1>1, <1>2, ImageFinite
  <2>2. IsFiniteSet(U)
    <3> HIDE DEF f, g
    <3> QED BY <2>1, FS_Union
  <2>3. InUse \subseteq U
    BY DEF InUse, At
  <2> HIDE DEF U
  <2> QED BY <2>2, <2>3, FS_Subset
<1> DEFINE n == Cardinality(InUse)
           Free == 1..(n + 1) \ InUse
<1>4. n \in Nat
  BY <1>3, FS_CardinalityType
<1> HIDE DEF n
<1>5. Free # {}
  <2> SUFFICES ASSUME 1..(n + 1) \subseteq InUse PROVE FALSE
    OBVIOUS
  <2>1. Cardinality(1..(n + 1)) = n + 1
    BY <1>4, FS_Interval
  <2>2. Cardinality(1..(n + 1)) <= n
    BY <1>3, FS_Subset DEF n
  <2> QED BY <1>4, <2>1, <2>2
<1>6. \E m \in Free : \A k \in Free : m <= k
  <2>1. Free \subseteq Nat
    BY <1>4
  <2> HIDE DEF Free
  <2> QED BY <1>5, <2>1, Least
<1>7. PICK m \in Free : \A k \in Free : m <= k
  BY <1>6
<1>8. newID \in Free
  <2>1. newID = Min(Free)
    BY DEF newID, n
  <2> HIDE DEF Free
  <2> QED BY <1>7, <2>1 DEF Min
<1> QED BY <1>4, <1>8

(* The bounds; no cookie is a cookie without a MAC of ours.                *)
LEMMA ActiveFacts ==
    ASSUME Unhurried
    PROVE  /\ TTL \in Nat /\ Second \in Nat /\ MaxLag \in Nat /\ Patience \in Nat /\ Second > 0
           /\ 2 * (Patience + 2 * MaxLag) <= TTL /\ 2 * (MaxLag + Second) <= TTL
           /\ MaxAge = TTL /\ NoCookie \notin Space
BY SessionAssumption DEF Unhurried, MaxAge, Space

(* A cookie ages within the space of cookies, and keeps its kid and id.    *)
LEMMA SpaceFacts ==
    ASSUME NEW c \in Space
    PROVE  /\ c.left \in 0..TTL /\ c.kid \in KIDs \cup {NoKey} /\ c.id \in Nat
           /\ Aged(c) \in Space /\ Aged(c).kid = c.kid /\ Aged(c).id = c.id
           /\ Aged(c).left = Down(c.left)
<1>1. c.left \in 0..TTL /\ c.kid \in KIDs \cup {NoKey} /\ c.id \in Nat
  BY DEF Space
<1>2. c # NoCookie
  BY SessionAssumption DEF Space
<1>3. Down(c.left) \in 0..TTL
  BY <1>1, ConstantFacts DEF Down
<1>4. Aged(c) = [c EXCEPT !.left = Down(c.left)]
  BY <1>2 DEF Aged
<1> QED BY <1>1, <1>3, <1>4 DEF Space

(* At first no session is active.                                          *)
LEMMA InitActiveInv ==
    ASSUME Init
    PROVE  ActiveInv
<1> USE DEF Init
<1>1. \A r \in Requests : TrackedOK(active, requests[r])
  BY DEF TrackedOK, Idle
<1>2. Forged \in Space
  BY ConstantFacts DEF Forged, Space
<1>3. jar # NoCookie => jar.left <= keep
  BY ConstantFacts DEF Forged
<1>4. gap \in 0..Patience
  BY SessionAssumption
<1> QED BY <1>1, <1>2, <1>3, <1>4 DEF ActiveInv

(* Another request that renews still does when one goes on.                *)
LEMMA OneStaysActive ==
    ASSUME RotationInv, ActiveInv, NEW r \in Requests, NEW q, TrackedOK(active', q), active => active',
           requests' = [requests EXCEPT ![r] = q]
    PROVE  /\ \A x \in Requests : TrackedOK(active', requests'[x])
           /\ requests'[r] = q /\ \A x \in Requests \ {r} : requests'[x] = requests[x]
<1>1. requests' = [x \in Requests |-> IF x = r THEN q ELSE requests[x]]
  BY DEF RotationInv
<1>2. \A x \in Requests : TrackedOK(active, requests[x]) => TrackedOK(active', requests[x])
  BY DEF TrackedOK
<1>3. \A x \in Requests : TrackedOK(active, requests[x])
  BY DEF ActiveInv
<1> QED BY <1>1, <1>2, <1>3

(* While the browser is active its cookie has more than MaxLag left.       *)
LEMMA ActiveCookieLasts ==
    ASSUME RotationInv, ActiveInv, Unhurried, active
    PROVE  jar \in Space /\ jar.left \in Nat /\ jar.left > MaxLag
<1> USE ActiveFacts
<1>1. jar \in Space /\ jar.left \in 0..TTL /\ gap \in 0..Patience /\ Fresh
  BY SpaceFacts DEF ActiveInv, Genuine
<1>2. CASE 2 * (jar.left + gap) > TTL
  BY <1>1, <1>2
<1>3. ASSUME NEW r \in Requests, Renews(requests[r]), 2 * (jar.left + requests[r].lag + Patience) > TTL
      PROVE  jar.left > MaxLag
  <2>1. requests[r].lag \in 0..MaxLag
    BY <1>3 DEF RotationInv, RequestOK, Renews
  <2> QED BY <1>1, <1>3, <2>1
<1> QED BY <1>1, <1>2, <1>3 DEF Fresh

(* An issuing block asked in the second half of the TTL will renew.        *)
LEMMA SendStaysActive ==
    ASSUME RotationInv, ActiveInv, Unhurried, \A p \in Plans : SafeRotation(p),
           NEW r \in Requests, NEW i \in Instances, NEW mode \in Modes, Send(r, i, mode)
    PROVE  ActiveInv'
<1> USE ActiveFacts
<1> DEFINE q == [step |-> "sent", keys |-> plan.lists[loaded[i]], mode |-> mode,
                 cookie |-> jar, lag |-> 0, tracked |-> active]
<1>1. /\ requests' = [requests EXCEPT ![r] = q] /\ requests[r] = Idle
      /\ gap' = (IF Issues(mode) THEN 0 ELSE gap) /\ UNCHANGED <<jar, keep, active>>
  BY DEF Send
<1>2. SignKID(plan.lists[loaded[i]]) \in KIDs
  <2>1. plan.lists \in Seq(Seq(KIDs) \ {<<>>}) /\ loaded[i] \in 1..Len(plan.lists)
    BY DEF SafeRotation, RotationInv, PlanInv
  <2>2. plan.lists[loaded[i]] \in Seq(KIDs) \ {<<>>}
    BY <2>1
  <2>3. \A s \in Seq(KIDs) \ {<<>>} : s[1] \in KIDs
    OBVIOUS
  <2> QED BY <2>2, <2>3 DEF SignKID
<1>3. /\ q.step = "sent" /\ q.lag = 0 /\ q.cookie = jar /\ q.mode = mode /\ (q.tracked <=> active)
      /\ SignKID(q.keys) \in KIDs /\ {"mode", "keys"} \subseteq DOMAIN q
  BY <1>2
<1> HIDE DEF q
<1>4. CarriesOK(q)
  <2>1. active => jar.left \in Nat /\ jar.left > MaxLag
    BY ActiveCookieLasts
  <2>2. active => Genuine(jar) /\ jar.left + 0 > MaxLag
    BY <2>1 DEF ActiveInv
  <2> QED BY <1>3, <2>2 DEF CarriesOK, ActiveInv
<1>5. TrackedOK(active', q)
  BY <1>1, <1>3, <1>4 DEF TrackedOK
<1>6. /\ \A x \in Requests : TrackedOK(active', requests'[x])
      /\ requests'[r] = q /\ \A x \in Requests \ {r} : requests'[x] = requests[x]
  BY <1>1, <1>5, OneStaysActive
<1>7. gap' \in 0..Patience
  BY <1>1 DEF ActiveInv
<1>8. ASSUME active
      PROVE  Fresh'
  <2>1. jar.left \in Nat /\ gap \in 0..Patience /\ Fresh
    BY <1>8, ActiveCookieLasts DEF ActiveInv
  <2>2. ASSUME NEW x \in Requests, Renews(requests[x]), 2 * (jar.left + requests[x].lag + Patience) > TTL
        PROVE  Fresh'
    <3>1. x # r
      BY <1>1, <2>2 DEF Renews, Idle
    <3> QED BY <1>1, <1>6, <2>2, <3>1 DEF Fresh
  <2>3. CASE 2 * (jar.left + gap) > TTL
    <3>1. CASE ~Issues(mode)
      BY <1>1, <2>3, <3>1 DEF Fresh
    <3>2. CASE Issues(mode) /\ 2 * jar.left > TTL
      BY <1>1, <2>1, <3>2 DEF Fresh
    <3>3. CASE Issues(mode) /\ 2 * jar.left <= TTL
      <4>1. Renews(q)
        BY <1>3, <1>8, <3>3 DEF Renews
      <4>2. 2 * (jar.left + q.lag + Patience) > TTL
        BY <1>3, <2>1, <2>3
      <4> QED BY <1>1, <1>6, <4>1, <4>2 DEF Fresh
    <3> QED BY <2>1, <3>1, <3>2, <3>3
  <2> QED BY <2>1, <2>2, <2>3 DEF Fresh
<1> QED BY <1>1, <1>6, <1>7, <1>8 DEF ActiveInv

(* The cookie of a tracked request lasts until it is read, and is valid.   *)
LEMMA ReadStaysActive ==
    ASSUME RotationInv, ActiveInv, Unhurried, NEW r \in Requests, Read(r)
    PROVE  ActiveInv'
<1> USE ActiveFacts
<1> DEFINE o == requests[r]
           q == [step |-> "read", keys |-> o.keys, mode |-> o.mode, cookie |-> o.cookie,
                 lag |-> o.lag, tracked |-> o.tracked, result |-> verify(o.cookie, o.keys)]
<1>1. /\ requests' = [requests EXCEPT ![r] = q] /\ o.step = "sent"
      /\ UNCHANGED <<jar, keep, gap, active>>
  BY DEF Read
<1>2. /\ q.step = "read" /\ q.lag = o.lag /\ q.cookie = o.cookie /\ q.mode = o.mode
      /\ q.keys = o.keys /\ q.tracked = o.tracked /\ q.result = verify(o.cookie, o.keys)
      /\ {"mode", "keys"} \subseteq DOMAIN q
  OBVIOUS
<1>3. TrackedOK(active, o) /\ RequestOK(Rotation, o)
  BY DEF ActiveInv, RotationInv
<1> HIDE DEF q
<1>4. CarriesOK(o) /\ SentOK(Rotation, o) /\ o.lag \in 0..MaxLag
  BY <1>1, <1>3 DEF TrackedOK, RequestOK
<1>5. CarriesOK(q)
  <2> HIDE DEF o
  <2> QED BY <1>2, <1>4 DEF CarriesOK
<1>6. q.tracked => q.result = "valid"
  <2> HIDE DEF o
  <2> SUFFICES ASSUME o.tracked PROVE verify(o.cookie, o.keys) = "valid"
    BY <1>2
  <2>1. Genuine(o.cookie) /\ o.cookie.left + o.lag > MaxLag /\ o.cookie.kid \in Keyring(o.keys)
    BY <1>4 DEF CarriesOK, SentOK
  <2>2. o.cookie.left \in 0..TTL
    BY <1>4, <2>1, SpaceFacts DEF CarriesOK, Genuine
  <2>3. o.cookie.left # 0
    BY <1>4, <2>1, <2>2
  <2> QED BY <2>1, <2>3 DEF verify, Genuine
<1>7. q.result = "valid" => q.cookie # NoCookie
  BY <1>2 DEF verify
<1>8. TrackedOK(active', q)
  <2> HIDE DEF o
  <2> QED BY <1>1, <1>2, <1>3, <1>5, <1>6, <1>7 DEF TrackedOK
<1>9. /\ \A x \in Requests : TrackedOK(active', requests'[x])
      /\ requests'[r] = q /\ \A x \in Requests \ {r} : requests'[x] = requests[x]
  BY <1>1, <1>8, OneStaysActive
<1>10. Renews(o) => Renews(q) /\ q.lag = o.lag
  <2> HIDE DEF o
  <2> QED BY <1>1, <1>2 DEF Renews
<1>11. Fresh => Fresh'
  BY <1>1, <1>9, <1>10 DEF Fresh
<1> QED BY <1>1, <1>9, <1>11 DEF ActiveInv

(* A tracked request that is due for renewal is answered with a cookie.    *)
LEMMA AnswerStaysActive ==
    ASSUME RotationInv, ActiveInv, Unhurried, NEW r \in Requests, Answer(r)
    PROVE  ActiveInv'
<1> USE ActiveFacts
<1> DEFINE o == requests[r]
<1>1. PICK a \in maybeIssue(o) :
        requests' = [requests EXCEPT ![r] =
           [step |-> "answered", id |-> IF a = NoCookie THEN 0 ELSE IdOf(o.cookie),
            lag |-> o.lag, tracked |-> o.tracked, answer |-> a]]
  BY DEF Answer
<1> DEFINE q == [step |-> "answered", id |-> IF a = NoCookie THEN 0 ELSE IdOf(o.cookie),
                 lag |-> o.lag, tracked |-> o.tracked, answer |-> a]
<1>2. /\ requests' = [requests EXCEPT ![r] = q] /\ o.step = "read"
      /\ UNCHANGED <<jar, keep, gap, active>>
  BY <1>1 DEF Answer
<1>3. /\ q.step = "answered" /\ q.lag = o.lag /\ q.answer = a /\ q.tracked = o.tracked
      /\ q.id = (IF a = NoCookie THEN 0 ELSE IdOf(o.cookie)) /\ "id" \in DOMAIN q
  OBVIOUS
<1>4. TrackedOK(active, o) /\ RequestOK(Rotation, o)
  BY DEF ActiveInv, RotationInv
<1>5. /\ CarriesOK(o) /\ o.lag \in 0..MaxLag /\ (o.tracked => o.result = "valid")
      /\ (o.result = "valid" => o.cookie # NoCookie)
  BY <1>2, <1>4 DEF TrackedOK, RequestOK
<1> HIDE DEF q, o
<1>6. \A id \in Nat : /\ sign(id, o.keys) \in Space /\ Genuine(sign(id, o.keys))
                      /\ sign(id, o.keys).left > TTL - Second /\ sign(id, o.keys).id = id
  <2> SUFFICES ASSUME NEW id \in Nat
               PROVE  LET c == sign(id, o.keys) IN
                        c \in Space /\ Genuine(c) /\ c.left > TTL - Second /\ c.id = id
    OBVIOUS
  <2>1. phase + TTL \in Nat
    BY DEF RotationInv, PlanInv
  <2>2. (phase + TTL) % Second \in 0..(Second - 1)
    BY <2>1, ConstantFacts
  <2>3. TTL - ((phase + TTL) % Second) \in 0..TTL /\ TTL - ((phase + TTL) % Second) > TTL - Second
    BY <2>1, <2>2, ConstantFacts
  <2>4. SignKID(o.keys) \in KIDs /\ SignKID(o.keys) # NoKey
    BY <1>5, SessionAssumption DEF CarriesOK
  <2>5. sign(id, o.keys) \in Space
    BY <2>3, <2>4 DEF sign, Space
  <2> QED BY <2>3, <2>4, <2>5 DEF sign, Genuine
<1>7. o.cookie # NoCookie => o.cookie.id \in Nat /\ IdOf(o.cookie) = o.cookie.id
  BY <1>5, SpaceFacts DEF CarriesOK, IdOf
<1>8. a = NoCookie \/ \E id \in Nat : a = sign(id, o.keys) /\ (o.tracked => id = q.id)
  <2>1. CASE o.result = "valid"
    BY <1>1, <1>3, <1>5, <1>7, <2>1 DEF maybeIssue
  <2>2. CASE o.result # "valid"
    BY <1>1, <1>5, <2>2, NewIDIsNat DEF maybeIssue
  <2> QED BY <2>1, <2>2
<1>9. RenewedOK(q)
  <2>1. CASE a = NoCookie
    BY <1>3, <2>1 DEF RenewedOK
  <2>2. ASSUME NEW id \in Nat, a = sign(id, o.keys), o.tracked => id = q.id
        PROVE  RenewedOK(q)
    <3>1. a \in Space /\ Genuine(a) /\ a.left > TTL - Second /\ a.id = id
      BY <1>6, <2>2
    <3>2. a.left + q.lag > TTL - Second
      BY <1>3, <1>5, <3>1, SpaceFacts
    <3> QED BY <1>3, <2>2, <3>1, <3>2 DEF RenewedOK
  <2> QED BY <1>8, <2>1, <2>2
<1>10. TrackedOK(active', q)
  BY <1>2, <1>3, <1>4, <1>9 DEF TrackedOK
<1>11. /\ \A x \in Requests : TrackedOK(active', requests'[x])
       /\ requests'[r] = q /\ \A x \in Requests \ {r} : requests'[x] = requests[x]
  BY <1>2, <1>10, OneStaysActive DEF o
<1>12. Renews(o) => Renews(q) /\ q.lag = o.lag
  <2> SUFFICES ASSUME Renews(o) PROVE a # NoCookie
    BY <1>3 DEF Renews
  <2>1. Issues(o.mode) /\ o.tracked /\ 2 * o.cookie.left <= TTL
    BY <1>2 DEF Renews
  <2>2. o.result = "valid" /\ NeedsRenewal(o)
    BY <1>5, <2>1 DEF NeedsRenewal
  <2>3. a = sign(o.cookie.id, o.keys)
    BY <1>1, <2>1, <2>2 DEF maybeIssue
  <2> QED BY <1>5, <1>6, <1>7, <2>2, <2>3
<1>13. Fresh => Fresh'
  BY <1>2, <1>11, <1>12 DEF Fresh, o
<1> QED BY <1>2, <1>11, <1>13 DEF ActiveInv

(* An answer puts a fresh cookie into the jar, whichever one it replaces.  *)
LEMMA ReceiveStaysActive ==
    ASSUME RotationInv, ActiveInv, Unhurried, NEW r \in Requests, Receive(r)
    PROVE  ActiveInv'
<1> USE ActiveFacts
<1> DEFINE o == requests[r]
           a == o.answer
<1>1. /\ requests' = [requests EXCEPT ![r] = Idle] /\ o.step = "answered" /\ gap' = gap
      /\ jar' = (IF a = NoCookie THEN jar ELSE a) /\ keep' = (IF a = NoCookie THEN keep ELSE MaxAge)
      /\ active' = (active \/ (a # NoCookie /\ (jar = NoCookie \/ a.id # jar.id)))
  BY DEF Receive
<1>2. TrackedOK(active, o) /\ RequestOK(Rotation, o)
  BY DEF ActiveInv, RotationInv
<1>3. TrackedOK(active', Idle)
  BY DEF TrackedOK, Idle
<1>4. /\ \A x \in Requests : TrackedOK(active', requests'[x])
      /\ requests'[r] = Idle /\ \A x \in Requests \ {r} : requests'[x] = requests[x]
  BY <1>1, <1>3, OneStaysActive
<1>5. active' \in BOOLEAN
  BY <1>1
<1>6. CASE a = NoCookie
  <2>1. jar' = jar /\ keep' = keep /\ (active' <=> active)
    BY <1>1, <1>6
  <2>2. ~Renews(o)
    BY <1>1, <1>6 DEF Renews
  <2>3. Fresh => Fresh'
    BY <1>1, <1>4, <2>1, <2>2 DEF Fresh
  <2> QED BY <1>1, <1>4, <1>5, <2>1, <2>3 DEF ActiveInv
<1>7. CASE a # NoCookie
  <2> HIDE DEF o
  <2>1. jar' = a /\ keep' = TTL
    BY <1>1, <1>7
  <2>2. a \in Space /\ Genuine(a) /\ a.left + o.lag > TTL - Second
    BY <1>1, <1>2, <1>7 DEF TrackedOK, RenewedOK
  <2>3. a.left \in 0..TTL /\ o.lag \in 0..MaxLag
    BY <1>1, <1>2, <2>2, SpaceFacts DEF RequestOK
  <2>4. gap \in 0..Patience
    BY DEF ActiveInv
  <2>5. 2 * (a.left + gap) > TTL
    BY <2>2, <2>3, <2>4
  <2>6. Fresh'
    BY <1>1, <2>1, <2>5 DEF Fresh
  <2>7. Genuine(jar)' /\ jar' \in Space /\ jar'.left <= keep'
    BY <2>1, <2>2, <2>3 DEF Genuine
  <2> QED BY <1>1, <1>4, <1>5, <2>4, <2>6, <2>7 DEF ActiveInv
<1> QED BY <1>6, <1>7

(* Time takes from the cookie what it adds to the gap and to the lag.      *)
LEMMA ElapseStaysActive ==
    ASSUME RotationInv, ActiveInv, Unhurried, Elapse
    PROVE  ActiveInv'
<1> USE ActiveFacts
<1>1. /\ \A r \in Requests : requests[r] # Idle => requests[r].lag < MaxLag
      /\ jar' = (IF keep <= 1 THEN NoCookie ELSE Aged(jar)) /\ keep' = Down(keep)
      /\ requests' = [r \in Requests |->
           IF requests[r] = Idle THEN Idle
           ELSE [AgedRequest(requests[r]) EXCEPT !.tracked = @ /\ active']]
      /\ active' = (active /\ gap < Patience) /\ gap' = Lesser(gap + 1, Patience)
  BY DEF Elapse
<1>2. gap \in 0..Patience /\ gap' \in 0..Patience /\ active' \in BOOLEAN
  BY <1>1 DEF ActiveInv, Lesser
<1>3. keep \in 0..TTL /\ \A c \in Space \cup {NoCookie} : Aged(c) \in Space \cup {NoCookie}
  BY SpaceFacts DEF RotationInv, JarOK, Aged
<1>4. ASSUME NEW r \in Requests
      PROVE  /\ TrackedOK(active', requests'[r])
             /\ active' /\ Renews(requests[r]) =>
                  Renews(requests'[r]) /\ requests'[r].lag = requests[r].lag + 1
                  /\ requests[r].lag \in Nat /\ requests[r].lag < MaxLag
  <2> DEFINE o == requests[r]
             q == requests'[r]
  <2>1. TrackedOK(active, o) /\ RequestOK(Rotation, o) /\ (o # Idle => o.lag < MaxLag)
    BY <1>1 DEF RotationInv, ActiveInv
  <2>2. o # Idle => q = [AgedRequest(o) EXCEPT !.tracked = @ /\ active']
    BY <1>1
  <2>3. o = Idle => q = Idle
    BY <1>1
  <2> HIDE DEF o, q
  <2> SUFFICES /\ TrackedOK(active', q)
               /\ active' /\ Renews(o) =>
                    Renews(q) /\ q.lag = o.lag + 1 /\ o.lag \in Nat /\ o.lag < MaxLag
    BY DEF o, q
  <2>4. CASE o = Idle
    BY <2>3, <2>4 DEF TrackedOK, Renews, Idle
  <2>5. CASE o.step \in {"sent", "read"}
    <3>1. {"step", "lag", "tracked", "keys", "cookie", "mode"} \subseteq DOMAIN o
          /\ o.lag \in 0..MaxLag /\ o # Idle /\ CarriesOK(o)
      BY <2>1, <2>5 DEF RequestOK, SentOK, Idle, TrackedOK, CarriesOK
    <3>2. q = [[o EXCEPT !.cookie = Aged(o.cookie), !.lag = o.lag + 1] EXCEPT !.tracked = o.tracked /\ active']
      BY <2>2, <2>5, <3>1 DEF AgedRequest
    <3>3. /\ q.step = o.step /\ q.keys = o.keys /\ q.cookie = Aged(o.cookie) /\ q.lag = o.lag + 1
          /\ q.mode = o.mode /\ DOMAIN q = DOMAIN o /\ (o.step = "read" => q.result = o.result)
      BY <2>1, <3>1, <3>2 DEF RequestOK
    <3>4. q.tracked <=> o.tracked /\ active'
      BY <3>1, <3>2
    <3>5. o.cookie # NoCookie =>
            /\ o.cookie.left \in 0..TTL /\ q.cookie # NoCookie /\ q.cookie.left = Down(o.cookie.left)
            /\ q.cookie.kid = o.cookie.kid
      BY <3>1, <3>3, SpaceFacts DEF CarriesOK
    <3>6. CarriesOK(q)
      <4>1. q.cookie \in Space \cup {NoCookie}
        BY <1>3, <3>1, <3>3 DEF CarriesOK
      <4>2. o.tracked => Genuine(q.cookie)
        BY <3>1, <3>5 DEF CarriesOK, Genuine
      <4>3. o.tracked => q.cookie.left + q.lag > MaxLag
        BY <3>1, <3>3, <3>5 DEF CarriesOK, Genuine, Down
      <4> QED BY <3>1, <3>3, <3>4, <4>1, <4>2, <4>3 DEF CarriesOK
    <3>7. TrackedOK(active', q)
      BY <2>1, <2>5, <3>3, <3>4, <3>5, <3>6 DEF TrackedOK
    <3>8. ASSUME active', Renews(o)
          PROVE  Renews(q)
      <4>1. Issues(o.mode) /\ o.tracked /\ 2 * o.cookie.left <= TTL
        BY <2>5, <3>8 DEF Renews
      <4>2. o.cookie # NoCookie
        BY <3>1, <4>1 DEF CarriesOK, Genuine
      <4>3. 2 * q.cookie.left <= TTL
        BY <3>5, <4>1, <4>2 DEF Down
      <4> QED BY <2>5, <3>3, <3>4, <3>8, <4>1, <4>3 DEF Renews
    <3> QED BY <2>1, <3>1, <3>3, <3>7, <3>8
  <2>6. CASE o.step = "answered"
    <3>1. {"step", "lag", "tracked", "answer"} \subseteq DOMAIN o /\ o.lag \in 0..MaxLag /\ o # Idle
          /\ RenewedOK(o)
      BY <2>1, <2>6 DEF RequestOK, AnsweredOK, Idle, TrackedOK
    <3>2. q = [[o EXCEPT !.answer = Aged(o.answer), !.lag = o.lag + 1] EXCEPT !.tracked = o.tracked /\ active']
      BY <2>2, <2>6, <3>1 DEF AgedRequest
    <3>3. /\ q.step = o.step /\ q.answer = Aged(o.answer) /\ q.lag = o.lag + 1
          /\ DOMAIN q = DOMAIN o /\ q.id = o.id
      BY <3>1, <3>2 DEF RenewedOK
    <3>4. q.tracked <=> o.tracked /\ active'
      BY <3>1, <3>2
    <3>5. o.answer = NoCookie => q.answer = NoCookie
      BY <3>3 DEF Aged
    <3>6. o.answer # NoCookie =>
            /\ o.answer.left \in 0..TTL /\ q.answer \in Space /\ q.answer.left = Down(o.answer.left)
            /\ q.answer.kid = o.answer.kid /\ q.answer.id = o.answer.id
      BY <3>1, <3>3, SpaceFacts DEF RenewedOK
    <3>7. RenewedOK(q)
      <4>1. CASE o.answer = NoCookie
        BY <3>1, <3>3, <3>5, <4>1 DEF RenewedOK
      <4>2. CASE o.answer # NoCookie
        <5>1. Genuine(o.answer) /\ o.answer.left + o.lag > TTL - Second
          BY <3>1, <4>2 DEF RenewedOK
        <5>2. q.answer.left + q.lag > TTL - Second
          BY <3>1, <3>3, <3>6, <4>2, <5>1 DEF Down
        <5>3. Genuine(q.answer)
          BY <3>6, <4>2, <5>1 DEF Genuine
        <5> QED BY <3>1, <3>3, <3>4, <3>6, <4>2, <5>2, <5>3 DEF RenewedOK
      <4> QED BY <4>1, <4>2
    <3>8. TrackedOK(active', q)
      BY <2>1, <2>6, <3>3, <3>4, <3>7 DEF TrackedOK
    <3>9. Renews(o) => Renews(q)
      BY <2>6, <3>3, <3>6 DEF Renews
    <3> QED BY <2>1, <3>1, <3>3, <3>8, <3>9
  <2> QED BY <2>1, <2>4, <2>5, <2>6 DEF RequestOK
<1>5. jar' \in Space \cup {NoCookie} /\ (jar' # NoCookie => jar'.left <= keep')
  <2>1. CASE keep <= 1
    BY <1>1, <2>1
  <2>2. CASE ~(keep <= 1)
    <3>1. jar' = Aged(jar) /\ keep' = Down(keep)
      BY <1>1, <2>2
    <3>2. jar # NoCookie => /\ jar.left \in 0..TTL /\ jar.left <= keep
                            /\ Aged(jar).left = Down(jar.left)
      BY SpaceFacts DEF ActiveInv
    <3>3. jar # NoCookie => Down(jar.left) <= Down(keep)
      BY <1>3, <3>2 DEF Down
    <3> QED BY <1>3, <3>1, <3>2, <3>3 DEF ActiveInv, Aged
  <2> QED BY <2>1, <2>2
<1>6. ASSUME active'
      PROVE  Genuine(jar') /\ Fresh'
  <2>1. active /\ gap < Patience /\ gap' = gap + 1
    <3>1. active /\ gap < Patience
      BY <1>1, <1>6, Zenon
    <3> QED BY <1>1, <1>2, <3>1 DEF Lesser
  <2>2. Genuine(jar) /\ jar \in Space /\ jar.left \in 0..TTL /\ jar.left <= keep /\ Fresh
    BY <2>1, SpaceFacts DEF ActiveInv, Genuine
  <2>3. 2 * (jar.left + gap) > TTL \/ jar.left > MaxLag
    BY <2>1, ActiveCookieLasts
  <2>4. jar.left >= 2
    <3>1. CASE 2 * (jar.left + gap) > TTL
      BY <1>2, <2>1, <2>2, <3>1
    <3>2. ASSUME NEW r \in Requests, Renews(requests[r]),
                 2 * (jar.left + requests[r].lag + Patience) > TTL
          PROVE  jar.left >= 2
      <4>1. requests[r].lag \in Nat /\ requests[r].lag < MaxLag
        BY <1>4, <1>6, <3>2
      <4> QED BY <2>2, <3>2, <4>1
    <3> QED BY <2>2, <3>1, <3>2 DEF Fresh
  <2>5. jar' = Aged(jar) /\ jar' \in Space /\ jar'.kid = jar.kid /\ jar'.left = jar.left - 1
    BY <1>1, <1>3, <2>2, <2>4, SpaceFacts DEF Down
  <2>6. Genuine(jar')
    BY <2>2, <2>5 DEF Genuine
  <2>7. Fresh'
    <3>1. CASE 2 * (jar.left + gap) > TTL
      <4>1. 2 * (jar'.left + gap') > TTL
        BY <1>2, <2>1, <2>2, <2>5, <3>1
      <4> QED BY <4>1 DEF Fresh
    <3>2. ASSUME NEW r \in Requests, Renews(requests[r]),
                 2 * (jar.left + requests[r].lag + Patience) > TTL
          PROVE  Fresh'
      <4>1. Renews(requests'[r]) /\ requests'[r].lag = requests[r].lag + 1 /\ requests[r].lag \in Nat
        BY <1>4, <1>6, <3>2
      <4>2. 2 * (jar'.left + requests'[r].lag + Patience) > TTL
        BY <2>2, <2>5, <3>2, <4>1
      <4> QED BY <4>1, <4>2 DEF Fresh
    <3> QED BY <2>2, <3>1, <3>2 DEF Fresh
  <2> QED BY <2>6, <2>7
<1> QED BY <1>2, <1>4, <1>5, <1>6 DEF ActiveInv, Genuine

(* Every step keeps the invariant.                                         *)
LEMMA NextActiveInv ==
    ASSUME \A p \in Plans : SafeRotation(p), Unhurried
    PROVE  RotationInv /\ ActiveInv /\ [Next]_vars => ActiveInv'
<1> SUFFICES ASSUME RotationInv, ActiveInv, [Next]_vars PROVE ActiveInv'
  OBVIOUS
<1>1. CASE UNCHANGED <<jar, keep, requests, gap, active>>
  BY <1>1 DEF ActiveInv, Fresh
<1>2. ASSUME NEW r \in Requests, \/ \E i \in Instances, mode \in Modes : Send(r, i, mode)
                                 \/ Read(r) \/ Answer(r) \/ Receive(r)
      PROVE  ActiveInv'
  BY <1>2, SendStaysActive, ReadStaysActive, AnswerStaysActive, ReceiveStaysActive
<1>3. ASSUME NEW group, Reload(group)
      PROVE  ActiveInv'
  BY <1>1, <1>3 DEF Reload
<1>4. CASE UNCHANGED vars
  BY <1>1, <1>4 DEF vars
<1> QED BY <1>2, <1>3, <1>4, ElapseStaysActive DEF Next

(* An active browser keeps its session, if it asks no later than Patience  *)
(* after it asked before and answers take no longer than MaxLag.           *)
THEOREM ActiveSessionKept ==
    ASSUME \A p \in Plans : SafeRotation(p), Unhurried
    PROVE  Spec => []ActiveSessionLasts
<1>1. RotationInv /\ ActiveInv => ActiveSessionLasts
  <2> SUFFICES ASSUME RotationInv, ActiveInv, active
               PROVE  ActiveSessionLasts
    BY DEF ActiveSessionLasts
  <2>1. Genuine(jar) /\ jar.left > 0
    <3>1. jar.left \in Nat /\ jar.left > MaxLag /\ MaxLag \in Nat
      BY ActiveCookieLasts, ActiveFacts
    <3> QED BY <3>1 DEF ActiveInv
  <2>2. ASSUME NEW r \in At("answered"), requests[r].tracked, requests[r].answer # NoCookie
        PROVE  requests[r].answer.id = requests[r].id
    BY <2>2 DEF At, ActiveInv, TrackedOK, RenewedOK
  <2>3. ASSUME NEW r \in At("read"), requests[r].tracked, Checks(requests[r].mode), NEW class
        PROVE  Classified(requests[r], class) \in validClaimedUserClasses \cup {"human_verified"}
    <3>1. requests[r].result = "valid"
      BY <2>3 DEF At, ActiveInv, TrackedOK
    <3> QED BY <2>3, <3>1 DEF Classified, applySession
  <2> QED BY <2>1, <2>2, <2>3 DEF ActiveSessionLasts
<1>2. Init => RotationInv /\ ActiveInv
  BY InitRotationInv, InitActiveInv
<1>3. RotationInv /\ ActiveInv /\ [Next]_vars => (RotationInv /\ ActiveInv)'
  BY NextRotationInv, NextActiveInv
<1> QED BY <1>1, <1>2, <1>3, PTL DEF Spec

=============================================================================
