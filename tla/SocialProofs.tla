----------------------------- MODULE SocialProofs -----------------------------
(***************************************************************************)
(* What holds of Social for every number of environments, posts and        *)
(* networks, every cap, window and budget, every size of page and index.   *)
(* The arguments rest on the same bookkeeping: which posts a cycle has in  *)
(* hand, and what the table says of each key.                              *)
(***************************************************************************)
EXTENDS Social, FiniteSetTheorems, FunctionTheorems, TLAPS

USE SocialConstants

Ids(posts) == {p.id : p \in posts}

(* The posts a cycle is going to store, and those it has claimed. *)
Counted(l) ==
    IF l.at \in {"claim", "count", "expire"} THEN Ids(l.out)
    ELSE IF l.at \in {"write", "index"} THEN Ids(l.batch) ELSE {}
Held(l) == Counted(l) \cup IF l.at = "count" THEN {l.cur.id} ELSE {}

IsTable(t) == t = [str |-> t.str, hash |-> t.hash, zset |-> t.zset]
IsItem(x) == x = [v |-> x.v, exp |-> x.exp] /\ x.exp \in Nat
IsLocal(l) ==
    l = [ at |-> l.at, began |-> l.began, plan |-> l.plan, todo |-> l.todo, asks |-> l.asks,
          found |-> l.found, batch |-> l.batch, cur |-> l.cur, out |-> l.out ]
Early == {"idle", "source", "budget", "request", "charge", "lookup"}

(* The clock ticks at most once while a cycle is under way. *)
Shapes ==
    /\ now \in Nat \ {0}
    /\ IsTable(kv) /\ \A k \in DOMAIN kv.str : IsItem(kv.str[k])
    /\ wk = [w \in Worker |-> wk[w]] /\ \A w \in Worker : IsLocal(wk[w])
    /\ \A w \in Worker : wk[w].at \in Early => wk[w].out = {}
    /\ \A w \in Worker : wk[w].at # "idle" =>
            wk[w].began \in Nat /\ (now = wk[w].began \/ now = wk[w].began + 1)

(* What is stored, or going to be, has its fingerprint to itself until it  *)
(* is about to expire: the claim was made since its cycle began.           *)
Owned(i, e) ==
    LET fp == Fingerprint(ById(i))
    IN  fp \in DOMAIN kv.str /\ kv.str[fp].v = i /\ kv.str[fp].exp = e

Owns(i, from, to) == \E e \in from .. to : Owned(i, e)

BodiesOwn ==
    \A i \in PostIds : PostKey(i) \in DOMAIN kv.str =>
        LET e == kv.str[PostKey(i)].exp
        IN  e # 0 /\ (now < e => Owns(i, e - 1, e))
HeldOwn ==
    \A w \in Worker : \A i \in Held(wk[w]) : Owns(i, wk[w].began + MAX_AGE, now + MAX_AGE)

(* The posts of an account that passed its cap at the time e, and whether a*)
(* post that passed is stored or going to be.                              *)
AuthorOf(i) == AuthorKey(ById(i))
PassedAt(a, e) == {i \in PostIds : passed[i] = e /\ AuthorOf(i) = a}

Upto(v) == IF v < AUTHOR_CAP THEN v ELSE AUTHOR_CAP
Allowed(a) ==
    IF a \notin DOMAIN kv.str THEN AUTHOR_CAP - 1
    ELSE Upto(kv.str[a].v) - 1 + IF Expired(kv, a, now) THEN 0 ELSE AUTHOR_CAP

(* A counter waits without an expiry for the one environment that sets it. *)
CountersCount ==
    /\ \A i : AuthorOf(i) \in DOMAIN kv.str => kv.str[AuthorOf(i)].v \in Nat \ {0}
    /\ \A w \in Worker : wk[w].at = "expire" =>
            /\ AuthorOf(wk[w].cur.id) \in DOMAIN kv.str
            /\ kv.str[AuthorOf(wk[w].cur.id)].exp = 0
    /\ \A v, w \in Worker :
            /\ wk[v].at = "expire" /\ wk[w].at = "expire"
            /\ AuthorOf(wk[v].cur.id) = AuthorOf(wk[w].cur.id)
            => v = w
Through(i) ==
    PostKey(i) \in DOMAIN kv.str \/ \E w \in Worker : i \in Counted(wk[w])
PassedDated ==
    /\ passed \in [PostIds -> Nat] /\ \A i \in PostIds : passed[i] <= now
    /\ \A i \in PostIds : Through(i) => passed[i] # 0
TodayCapped == \A j : Cardinality(PassedAt(AuthorOf(j), now)) <= Allowed(AuthorOf(j))
EachCapped ==
    \A j : \A e \in Nat \ {0} : Cardinality(PassedAt(AuthorOf(j), e)) <= 2 * AUTHOR_CAP - 1

(* The requests under way, and the posts billed but not yet charged. *)
Day == now \div DAY
ReadsKey(d) == <<"reads", d>>
Used == IF SpentKey \in DOMAIN kv.str THEN kv.str[SpentKey].v ELSE 0
Asking == {w \in Worker : wk[w].at \in {"request", "charge"}}
Uncharged == {b \in Worker \X Raw : wk[b[1]].at = "charge" /\ b[2] \in wk[b[1]].batch}
Budget(n) == X_BUDGET + X_PAGE * (Cardinality(Worker) - 1 + n)
Missed == spent.kills + spent.lost

IsSpent(s) ==
    /\ s = [cycles |-> s.cycles, kills |-> s.kills, failures |-> s.failures, lost |-> s.lost]
    /\ s.kills \in Nat /\ s.lost \in Nat
ReadsTyped ==
    /\ IsSpent(spent)
    /\ billed \in [0 .. MaxNow \div DAY -> Nat]
    /\ \A w \in Worker : wk[w].at = "charge" =>
            wk[w].batch \subseteq Raw /\ Cardinality(wk[w].batch) <= X_PAGE
    /\ \A d \in Nat : ReadsKey(d) \in DOMAIN kv.str =>
            d <= Day /\ kv.str[ReadsKey(d)].v \in Nat /\ kv.str[ReadsKey(d)].exp >= d * DAY + DAY
UsedWithin ==
    /\ Used + X_PAGE * Cardinality(Asking) <= Budget(0)
    /\ Asking # {} => X_PAGE <= X_BUDGET
BilledToday ==
    Day \in DOMAIN billed =>
        billed[Day] <= Used + Cardinality(Uncharged) + X_PAGE * Missed
OtherDays ==
    \A d \in DOMAIN billed : /\ d < Day => billed[d] <= Budget(Missed)
                             /\ d > Day => billed[d] = 0

Claims == Shapes /\ BodiesOwn /\ HeldOwn
Caps == CountersCount /\ PassedDated /\ TodayCapped /\ EachCapped
Reads == ReadsTyped /\ UsedWithin /\ BilledToday /\ OtherDays

-----------------------------------------------------------------------------
(* Lemmas about the table. *)

(* The keys of different kinds differ, and a body's names its post. *)
LEMMA KeysDiffer ==
    /\ \A i, j : PostKey(i) = PostKey(j) => i = j
    /\ \A d, e : ReadsKey(d) = ReadsKey(e) => d = e
    /\ \A i, p, q, d :
        /\ PostKey(i) # Fingerprint(p) /\ PostKey(i) # AuthorKey(p)
        /\ PostKey(i) # ReadsKey(d) /\ PostKey(i) # <<"topics">>
        /\ Fingerprint(p) # AuthorKey(q) /\ Fingerprint(p) # ReadsKey(d)
        /\ Fingerprint(p) # <<"topics">>
        /\ AuthorKey(p) # ReadsKey(d) /\ AuthorKey(p) # <<"topics">>
        /\ ReadsKey(d) # <<"topics">>
BY DEF PostKey, Fingerprint, AuthorKey, ReadsKey

(* With changes its key alone. *)
LEMMA WithIs ==
    ASSUME NEW f, NEW k, NEW e
    PROVE  /\ DOMAIN With(f, k, e) = DOMAIN f \cup {k} /\ With(f, k, e)[k] = e
           /\ \A j \in DOMAIN f : j # k => With(f, k, e)[j] = f[j]
BY DEF With

(* What a name stands for afterwards. *)
LEMMA WithWas ==
    ASSUME NEW f, NEW k, NEW e, NEW j \in DOMAIN With(f, k, e)
    PROVE  With(f, k, e)[j] = e \/ (j \in DOMAIN f /\ With(f, k, e)[j] = f[j])
BY DEF With

(* What a put leaves. *)
LEMMA PutIs ==
    ASSUME NEW t, IsTable(t), NEW k, NEW v, NEW ex, NEW at
    PROVE  /\ IsTable(Put(t, k, v, ex, at))
           /\ Put(t, k, v, ex, at).str = With(t.str, k, [v |-> v, exp |-> Until(ex, at)])
BY DEF Put, IsTable

(* What adding to a counter leaves. *)
LEMMA IncrByIs ==
    ASSUME NEW t, IsTable(t), NEW k, k \in DOMAIN t.str => IsItem(t.str[k]), NEW n
    PROVE  /\ IsTable(IncrBy(t, k, n))
           /\ IncrBy(t, k, n).str =
                With(t.str, k, [v |-> Counter(t, k).v + n, exp |-> Counter(t, k).exp])
BY DEF IncrBy, IsTable, IsItem, Counter

(* What giving a counter an expiry leaves. *)
LEMMA ExpireIs ==
    ASSUME NEW t, IsTable(t), NEW k, k \in DOMAIN t.str => IsItem(t.str[k]), NEW ex, NEW at
    PROVE  /\ IsTable(Expire(t, k, ex, at))
           /\ Expire(t, k, ex, at).str =
                With(t.str, k, [v |-> Counter(t, k).v, exp |-> at + ex])
BY DEF Expire, IsTable, IsItem, Counter

(* What the other calls leave of the strings: all of them. *)
LEMMA StringsStay ==
    ASSUME NEW t, IsTable(t)
    PROVE  /\ \A h, f, v : IsTable(HSet(t, h, f, v)) /\ HSet(t, h, f, v).str = t.str
           /\ \A p : IsTable(IndexAll(t, p)) /\ IndexAll(t, p).str = t.str
           /\ \A ps : IsTable(TrimAll(t, ps)) /\ TrimAll(t, ps).str = t.str
<1>1. \A z : IsTable([t EXCEPT !.zset = z]) /\ [t EXCEPT !.zset = z].str = t.str
  BY DEF IsTable
<1>2. \A z : IsTable([t EXCEPT !.hash = z]) /\ [t EXCEPT !.hash = z].str = t.str
  BY DEF IsTable
<1> QED  BY <1>1, <1>2 DEF HSet, IndexAll, TrimAll

(* What a sweep leaves. *)
LEMMA SweptIs ==
    ASSUME NEW t, IsTable(t), NEW ks
    PROVE  /\ IsTable(Swept(t, ks)) /\ DOMAIN Swept(t, ks).str = DOMAIN t.str \ ks
           /\ \A k \in DOMAIN t.str \ ks : Swept(t, ks).str[k] = t.str[k]
BY DEF Swept, IsTable

-----------------------------------------------------------------------------
(* What the steps of a cycle do to its locals and to the table. *)

(* When the cycle began that a step of the environment belongs to. *)
Since(w) == IF wk[w].at = "idle" THEN now ELSE wk[w].began

Moves(w) ==
    /\ now' = now /\ IsTable(kv')
    /\ wk' = [v \in Worker |-> wk'[v]] /\ IsLocal(wk'[w])
    /\ \A v \in Worker : v # w => wk'[v] = wk[v]
    /\ wk'[w].at \in Early => wk'[w].out = {}
    /\ wk'[w].at = "idle" \/ wk'[w].began = Since(w)

(* The strings of a kind the claims and the caps look at stay as they are. *)
Aside(k) == k = <<"topics">> \/ \E d : k = ReadsKey(d)
Same(k) ==
    /\ k \in DOMAIN kv'.str <=> k \in DOMAIN kv.str
    /\ k \in DOMAIN kv.str => kv'.str[k] = kv.str[k]
StringsKept == \A k : ~Aside(k) => Same(k)
ItemsThen == \A k \in DOMAIN kv'.str : IsItem(kv'.str[k])

(* A step after which the cycle has no more in hand than before. *)
Quiet(w) ==
    /\ Moves(w) /\ StringsKept /\ ItemsThen
    /\ Counted(wk'[w]) \subseteq Counted(wk[w]) /\ wk'[w].at \notin {"count", "expire"}

(* One environment's locals are replaced. *)
LEMMA NewLocals ==
    ASSUME Shapes, NEW w \in Worker, NEW l, IsLocal(l), wk' = [wk EXCEPT ![w] = l],
           l.at \in Early => l.out = {}, l.at = "idle" \/ l.began = Since(w),
           now' = now, IsTable(kv')
    PROVE  Moves(w) /\ wk'[w] = l
BY DEF Moves, Shapes

(* The next source, or the end of the cycle. *)
LEMMA NextIs ==
    ASSUME Shapes, NEW w \in Worker, NextSource(w), wk[w].at # "idle", now' = now, IsTable(kv')
    PROVE  Moves(w) /\ wk'[w].at \in {"idle", "source"} /\ wk'[w].out = {}
<1> DEFINE l == IF Tail(wk[w].todo) = <<>> THEN Idle
                ELSE [Idle EXCEPT !.at = "source", !.todo = Tail(wk[w].todo),
                                  !.began = wk[w].began, !.plan = wk[w].plan]
<1>1. wk' = [wk EXCEPT ![w] = l]
  BY DEF NextSource
<1>2. /\ IsLocal(l) /\ l.at \in {"idle", "source"} /\ l.out = {}
      /\ l.at = "idle" \/ l.began = Since(w)
  BY DEF IsLocal, Idle, Since
<1> HIDE DEF l
<1> QED  BY <1>1, <1>2, NewLocals

(* A step that changes no string, or one the argument sets aside. *)
LEMMA QuietWhen ==
    ASSUME Shapes, NEW w \in Worker, Moves(w),
           \/ kv'.str = kv.str
           \/ \E k, e : Aside(k) /\ IsItem(e) /\ kv'.str = With(kv.str, k, e),
           Counted(wk'[w]) \subseteq Counted(wk[w]), wk'[w].at \notin {"count", "expire"}
    PROVE  Quiet(w)
<1>1. CASE kv'.str = kv.str
  BY <1>1 DEF Quiet, StringsKept, Same, ItemsThen, Shapes
<1>2. CASE \E k, e : Aside(k) /\ IsItem(e) /\ kv'.str = With(kv.str, k, e)
  <2>1. PICK k, e : Aside(k) /\ IsItem(e) /\ kv'.str = With(kv.str, k, e)
    BY <1>2
  <2>2. DOMAIN kv'.str = DOMAIN kv.str \cup {k} /\ kv'.str[k] = e
        /\ \A j \in DOMAIN kv.str : j # k => kv'.str[j] = kv.str[j]
    BY <2>1 DEF With
  <2>3. StringsKept
    BY <2>1, <2>2 DEF StringsKept, Same
  <2>4. ItemsThen
    BY <2>1, <2>2 DEF Shapes, ItemsThen
  <2> QED  BY <2>3, <2>4 DEF Quiet
<1> QED  BY <1>1, <1>2

(* What is not in the store's part of a cycle has nothing in hand. *)
LEMMA NothingInHand ==
    ASSUME NEW l, l.at \in Early \/ (l.at = "claim" /\ l.out = {})
    PROVE  Counted(l) = {}
BY DEF Counted, Early, Ids

(* The hash of the sources is no string. *)
LEMMA SourceSet ==
    ASSUME Shapes, NEW net, NEW state, kv' = SetSource(kv, net, state)
    PROVE  IsTable(kv') /\ kv'.str = kv.str
BY StringsStay DEF SetSource, Shapes

(* The second of two changes of one key is what counts. *)
LEMMA WithTwice ==
    ASSUME NEW f, NEW k, NEW a, NEW b
    PROVE  With(With(f, k, a), k, b) = With(f, k, b)
BY DEF With

(* A charge leaves the counter of the day, with its number and its expiry. *)
LEMMA ChargeIs ==
    ASSUME NEW t, IsTable(t), NEW k, k \in DOMAIN t.str => IsItem(t.str[k]), NEW n, NEW ex, NEW at
    PROVE  LET r == Expire(IncrBy(t, k, n), k, ex, at)
           IN  /\ IsTable(r)
               /\ r.str = With(t.str, k, [v |-> Counter(t, k).v + n, exp |-> at + ex])
<1> DEFINE s == IncrBy(t, k, n)
           c == [v |-> Counter(t, k).v + n, exp |-> Counter(t, k).exp]
<1>1. IsTable(s) /\ s.str = With(t.str, k, c)
  BY IncrByIs
<1>2. k \in DOMAIN s.str /\ s.str[k] = c
  BY <1>1 DEF With
<1>3. Counter(s, k).v = Counter(t, k).v + n
  BY <1>2 DEF Counter
<1> HIDE DEF s
<1>4. IsItem(s.str[k])
  BY <1>2 DEF IsItem, Counter
<1>5. IsTable(Expire(s, k, ex, at))
      /\ Expire(s, k, ex, at).str = With(s.str, k, [v |-> Counter(s, k).v, exp |-> at + ex])
  BY <1>1, <1>2, <1>4, ExpireIs
<1> QED  BY <1>1, <1>3, <1>5, WithTwice DEF s

(* Any field of the locals may be given a value. *)
LEMMA FieldSet ==
    ASSUME NEW l, IsLocal(l), NEW e
    PROVE  /\ IsLocal([l EXCEPT !.at = e]) /\ IsLocal([l EXCEPT !.began = e])
           /\ IsLocal([l EXCEPT !.plan = e])
           /\ IsLocal([l EXCEPT !.todo = e]) /\ IsLocal([l EXCEPT !.asks = e])
           /\ IsLocal([l EXCEPT !.found = e]) /\ IsLocal([l EXCEPT !.batch = e])
           /\ IsLocal([l EXCEPT !.cur = e]) /\ IsLocal([l EXCEPT !.out = e])
BY DEF IsLocal

(* The steps that leave the strings alone, or a string that is set aside. *)
LEMMA QuietSteps ==
    ASSUME Shapes, NEW w \in Worker,
           \/ StartCycle(w) \/ SkipSource(w) \/ Collect(w) \/ RefuseSignIn(w)
           \/ CheckBudget(w) \/ Request(w) \/ Charge(w) \/ FailRequest(w)
           \/ Lookup(w) \/ WriteIndex(w) \/ Trim(w) \/ Report(w) \/ Kill(w)
    PROVE  Quiet(w)
<1> USE DEF At
<1>0. IsLocal(Idle) /\ Idle.at = "idle" /\ Idle.out = {} /\ IsTable(kv) /\ IsLocal(wk[w])
  BY DEF IsLocal, Idle, Shapes
<1>1. ASSUME NextSource(w), wk[w].at # "idle", now' = now, IsTable(kv'), kv'.str = kv.str
      PROVE  Quiet(w)
  <2>1. Moves(w) /\ wk'[w].at \in {"idle", "source"} /\ wk'[w].out = {}
    BY <1>1, NextIs
  <2>2. Counted(wk'[w]) = {}
    BY <2>1, NothingInHand DEF Early
  <2> QED  BY <1>1, <2>1, <2>2, QuietWhen
<1>2. ASSUME NEW net, NEW state, kv' = SetSource(kv, net, state), NextSource(w),
             wk[w].at # "idle", now' = now
      PROVE  Quiet(w)
  BY <1>1, <1>2, SourceSet
<1>3. ASSUME NEW l, IsLocal(l), l.at \in Early, l.out = {}, wk' = [wk EXCEPT ![w] = l],
             l.at = "idle" \/ l.began = Since(w), now' = now, IsTable(kv'),
             \/ kv'.str = kv.str
             \/ \E k, e : Aside(k) /\ IsItem(e) /\ kv'.str = With(kv.str, k, e)
      PROVE  Quiet(w)
  <2>1. Moves(w) /\ wk'[w] = l
    BY <1>3, NewLocals
  <2>2. Counted(wk'[w]) = {}
    BY <1>3, <2>1, NothingInHand
  <2> QED  BY <1>3, <2>1, <2>2, QuietWhen DEF Early
<1>4. CASE StartCycle(w)
  <2>1. PICK n, ids :
            /\ n \in DOMAIN Snapshots
            /\ kv' = Put(kv, <<"topics">>, ids, 0, now)
            /\ wk' = [wk EXCEPT ![w] = [Idle EXCEPT !.at = "source", !.began = now,
                                                    !.plan = n, !.todo = Networks]]
    BY <1>4 DEF StartCycle
  <2> DEFINE l == [Idle EXCEPT !.at = "source", !.began = now, !.plan = n, !.todo = Networks]
  <2>2a. IsLocal(l)
    BY <1>0, FieldSet
  <2>2. IsLocal(l) /\ l.at = "source" /\ l.out = {} /\ l.began = Since(w)
    BY <2>2a, <1>4 DEF IsLocal, Idle, Since, StartCycle
  <2>3. IsTable(kv') /\ kv'.str = With(kv.str, <<"topics">>, [v |-> ids, exp |-> 0])
    BY <2>1, <1>0, PutIs DEF Until
  <2>4. Aside(<<"topics">>) /\ IsItem([v |-> ids, exp |-> 0])
    BY DEF Aside, IsItem
  <2>5. now' = now
    BY <1>4 DEF StartCycle
  <2> HIDE DEF l
  <2>6. \E k, e : Aside(k) /\ IsItem(e) /\ kv'.str = With(kv.str, k, e)
    BY <2>3, <2>4
  <2>7. wk' = [wk EXCEPT ![w] = l]
    BY <2>1 DEF l
  <2> QED  BY <1>3, <2>2, <2>3, <2>5, <2>6, <2>7 DEF Early
<1>5. CASE SkipSource(w)
  BY <1>5, <1>2 DEF SkipSource
<1>6. CASE RefuseSignIn(w)
  BY <1>6, <1>2 DEF RefuseSignIn, FailSource
<1>7. CASE FailRequest(w)
  BY <1>7, <1>2 DEF FailRequest, FailSource
<1>8. CASE Report(w)
  BY <1>8, <1>2 DEF Report
<1>9. CASE Collect(w)
  <2>1. CASE FailSource(w)
    BY <1>9, <2>1, <1>2 DEF Collect, FailSource
  <2>2. CASE ~FailSource(w)
    <3>1. PICK f : wk' = [wk EXCEPT ![w].at = "lookup", ![w].found = f]
      BY <1>9, <2>2 DEF Collect
    <3>2. kv' = kv /\ now' = now /\ wk[w].at = "source"
      BY <1>9, <2>2 DEF Collect
    <3> DEFINE l == [wk[w] EXCEPT !.at = "lookup", !.found = f]
    <3>3. IsLocal(l)
      BY <1>0, FieldSet
    <3>3b. l.at = "lookup" /\ l.out = wk[w].out /\ l.began = wk[w].began
      BY <1>0 DEF IsLocal
    <3>3c. wk' = [wk EXCEPT ![w] = l]
      BY <3>1
    <3>4. wk[w].out = {}
      BY <3>2 DEF Shapes, Early
    <3> HIDE DEF l
    <3> QED  BY <3>2, <3>3, <3>3b, <3>3c, <3>4, <1>0, <1>3 DEF Early, Since
  <2> QED  BY <2>1, <2>2
<1>10. CASE CheckBudget(w)
  <2>1. kv' = kv /\ now' = now /\ wk[w].at \in {"source", "budget"}
    BY <1>10 DEF CheckBudget, AskingX
  <2> DEFINE l == [wk[w] EXCEPT !.asks = Asks(w),
                        !.at = IF Asks(w) = <<>> \/ Remaining < X_PAGE
                               THEN "lookup" ELSE "request"]
  <2>2. wk' = [wk EXCEPT ![w] = l]
    BY <1>10 DEF CheckBudget
  <2>3a. IsLocal(l)
    BY <1>0, FieldSet
  <2>3. IsLocal(l) /\ l.at \in {"lookup", "request"} /\ l.out = wk[w].out /\ l.began = wk[w].began
    BY <2>3a, <1>0 DEF IsLocal
  <2>4. wk[w].out = {}
    BY <2>1 DEF Shapes, Early
  <2> HIDE DEF l
  <2> QED  BY <2>1, <2>2, <2>3, <2>4, <1>0, <1>3 DEF Early, Since
<1>11. CASE Request(w)
  <2>1. kv' = kv /\ now' = now /\ wk[w].at = "request"
    BY <1>11 DEF Request
  <2>2. PICK page : wk' = [wk EXCEPT ![w].at = "charge", ![w].batch = page]
    BY <1>11 DEF Request
  <2> DEFINE l == [wk[w] EXCEPT !.at = "charge", !.batch = page]
  <2>3. IsLocal(l)
    BY <1>0, FieldSet
  <2>3b. l.at = "charge" /\ l.out = wk[w].out /\ l.began = wk[w].began
    BY <1>0 DEF IsLocal
  <2>3c. wk' = [wk EXCEPT ![w] = l]
    BY <2>2
  <2>4. wk[w].out = {}
    BY <2>1 DEF Shapes, Early
  <2> HIDE DEF l
  <2> QED  BY <2>1, <2>3, <2>3b, <2>3c, <2>4, <1>0, <1>3 DEF Early, Since
<1>12. CASE Charge(w)
  <2>1. now' = now /\ wk[w].at = "charge"
        /\ kv' = Expire(IncrBy(kv, SpentKey, Cardinality(wk[w].batch)), SpentKey, 3 * DAY, now)
    BY <1>12 DEF Charge
  <2>2. PICK f : wk' = [wk EXCEPT ![w].at = "budget", ![w].asks = Tail(@), ![w].batch = {},
                                  ![w].found = f]
    BY <1>12 DEF Charge
  <2> DEFINE l == [wk[w] EXCEPT !.at = "budget", !.asks = Tail(@), !.batch = {}, !.found = f]
             e == [v |-> Counter(kv, SpentKey).v + Cardinality(wk[w].batch), exp |-> now + 3 * DAY]
  <2>3. IsLocal(l)
    BY <1>0, FieldSet
  <2>3b. l.at = "budget" /\ l.out = wk[w].out /\ l.began = wk[w].began
    BY <1>0 DEF IsLocal
  <2>3c. wk' = [wk EXCEPT ![w] = l]
    BY <2>2
  <2>4. wk[w].out = {}
    BY <2>1 DEF Shapes, Early
  <2>5. IsTable(kv') /\ kv'.str = With(kv.str, SpentKey, e)
    BY <2>1, <1>0, ChargeIs DEF Shapes
  <2>6. Aside(SpentKey) /\ IsItem(e)
    BY DEF Aside, IsItem, SpentKey, ReadsKey, Shapes
  <2>7. \E k, x : Aside(k) /\ IsItem(x) /\ kv'.str = With(kv.str, k, x)
    BY <2>5, <2>6
  <2> HIDE DEF l
  <2> QED  BY <2>1, <2>3, <2>3b, <2>3c, <2>4, <2>5, <2>7, <1>3 DEF Early, Since
<1>13. CASE Lookup(w)
  <2>1. kv' = kv /\ now' = now /\ wk[w].at = "lookup"
    BY <1>13 DEF Lookup
  <2>2. PICK b : wk' = [wk EXCEPT ![w].at = "claim", ![w].found = {}, ![w].batch = b]
    BY <1>13 DEF Lookup
  <2> DEFINE l == [wk[w] EXCEPT !.at = "claim", !.found = {}, !.batch = b]
  <2>3. IsLocal(l)
    BY <1>0, FieldSet
  <2>3b. l.at = "claim" /\ l.out = wk[w].out /\ l.began = wk[w].began
    BY <1>0 DEF IsLocal
  <2>3c. wk' = [wk EXCEPT ![w] = l]
    BY <2>2
  <2>4. wk[w].out = {}
    BY <2>1 DEF Shapes, Early
  <2> HIDE DEF l
  <2>5. Moves(w) /\ wk'[w] = l
    BY <2>1, <2>3, <2>3b, <2>3c, <2>4, <1>0, NewLocals DEF Early, Since
  <2>6. Counted(wk'[w]) = {}
    BY <2>3b, <2>4, <2>5, NothingInHand
  <2> QED  BY <2>1, <2>3b, <2>5, <2>6, QuietWhen
<1>14. CASE WriteIndex(w)
  <2>1. IsTable(kv') /\ kv'.str = kv.str /\ now' = now /\ wk[w].at = "index"
    BY <1>14, <1>0, StringsStay DEF WriteIndex
  <2> DEFINE l == [wk[w] EXCEPT !.at = "write"]
  <2>2a. IsLocal(l)
    BY <1>0, FieldSet
  <2>2. IsLocal(l) /\ l.at = "write" /\ l.batch = wk[w].batch
        /\ l.began = wk[w].began /\ wk' = [wk EXCEPT ![w] = l]
    BY <2>2a, <1>14, <1>0 DEF IsLocal, WriteIndex
  <2> HIDE DEF l
  <2>3. Moves(w) /\ wk'[w] = l
    BY <2>1, <2>2, NewLocals DEF Early, Since
  <2>4. Counted(wk'[w]) = Counted(wk[w])
    BY <2>1, <2>2, <2>3 DEF Counted
  <2> QED  BY <2>1, <2>2, <2>3, <2>4, QuietWhen
<1>15. CASE Trim(w)
  <2>1. IsTable(kv') /\ kv'.str = kv.str /\ now' = now /\ wk[w].at = "write"
    BY <1>15, <1>0, StringsStay DEF Trim
  <2> DEFINE l == [wk[w] EXCEPT !.out = {}]
  <2>2a. IsLocal(l)
    BY <1>0, FieldSet
  <2>2. IsLocal(l) /\ l.at = "write" /\ l.batch = wk[w].batch
        /\ l.began = wk[w].began /\ wk' = [wk EXCEPT ![w] = l]
    BY <2>2a, <1>15, <2>1, <1>0 DEF IsLocal, Trim
  <2> HIDE DEF l
  <2>3. Moves(w) /\ wk'[w] = l
    BY <2>1, <2>2, NewLocals DEF Early, Since
  <2>4. Counted(wk'[w]) = Counted(wk[w])
    BY <2>1, <2>2, <2>3 DEF Counted
  <2> QED  BY <2>1, <2>2, <2>3, <2>4, QuietWhen
<1>16. CASE Kill(w)
  BY <1>16, <1>0, <1>3 DEF Kill, Early
<1> QED  BY <1>4, <1>5, <1>6, <1>7, <1>8, <1>9, <1>10, <1>11, <1>12, <1>13, <1>14, <1>15, <1>16

(* A claim finds the wording taken, or takes it for the post. *)
LEMMA ClaimIs ==
    ASSUME Shapes, NEW w \in Worker, Claim(w)
    PROVE  \/ Quiet(w)
           \/ \E p : LET fp == Fingerprint(ById(p.id))
                    IN  /\ IsFree(kv, fp, now) /\ Moves(w) /\ ItemsThen
                        /\ kv'.str = With(kv.str, fp, [v |-> p.id, exp |-> now + MAX_AGE])
                        /\ wk[w].at = "claim" /\ wk'[w].at = "count"
                        /\ wk'[w].out = wk[w].out /\ wk'[w].cur = p
<1> USE DEF At
<1>1. wk[w].at = "claim" /\ now' = now /\ IsTable(kv) /\ IsLocal(wk[w])
  BY DEF Claim, Shapes
<1>2. PICK p :
        LET fp == Fingerprint(ById(p.id))
        IN  IF IsFree(kv, fp, now)
            THEN /\ kv' = Put(kv, fp, p.id, MAX_AGE, now)
                 /\ wk' = [wk EXCEPT ![w].at = "count", ![w].batch = @ \ {p}, ![w].cur = p]
            ELSE /\ wk' = [wk EXCEPT ![w].batch = @ \ {p}]
                 /\ UNCHANGED kv
  BY DEF Claim
<1> DEFINE fp == Fingerprint(ById(p.id))
<1>3. CASE ~IsFree(kv, fp, now)
  <2> DEFINE l == [wk[w] EXCEPT !.batch = @ \ {p}]
  <2>1. IsLocal(l)
    BY <1>1, FieldSet
  <2>2. l.at = "claim" /\ l.out = wk[w].out /\ l.began = wk[w].began
    BY <1>1 DEF IsLocal
  <2>3. wk' = [wk EXCEPT ![w] = l] /\ kv' = kv
    BY <1>2, <1>3
  <2> HIDE DEF l
  <2>4. Moves(w) /\ wk'[w] = l
    BY <1>1, <2>1, <2>2, <2>3, NewLocals DEF Early, Since
  <2>5. Counted(wk'[w]) = Counted(wk[w])
    BY <1>1, <2>2, <2>4 DEF Counted
  <2> QED  BY <2>2, <2>3, <2>4, <2>5, QuietWhen
<1>4. CASE IsFree(kv, fp, now)
  <2> DEFINE l == [wk[w] EXCEPT !.at = "count", !.batch = @ \ {p}, !.cur = p]
             e == [v |-> p.id, exp |-> now + MAX_AGE]
  <2>1. IsLocal(l)
    BY <1>1, FieldSet
  <2>2. l.at = "count" /\ l.out = wk[w].out /\ l.cur = p /\ l.began = wk[w].began
    BY <1>1 DEF IsLocal
  <2>3. wk' = [wk EXCEPT ![w] = l]
    BY <1>2, <1>4
  <2>4. IsTable(kv') /\ kv'.str = With(kv.str, fp, e)
    BY <1>1, <1>2, <1>4, PutIs DEF Until
  <2>5. ItemsThen
    BY <2>4 DEF ItemsThen, With, Shapes, IsItem
  <2> HIDE DEF l
  <2>6. Moves(w) /\ wk'[w] = l
    BY <1>1, <2>1, <2>2, <2>3, <2>4, NewLocals DEF Early, Since
  <2> QED  BY <1>1, <1>4, <2>2, <2>4, <2>5, <2>6
<1> QED  BY <1>3, <1>4

(* A count raises the author's counter and keeps the post, or drops it. *)
LEMMA CountIs ==
    ASSUME Shapes, NEW w \in Worker, CountAuthor(w)
    PROVE  LET key == AuthorOf(wk[w].cur.id)
               n == Counter(kv, key).v + 1
           IN  /\ Moves(w) /\ ItemsThen
               /\ kv'.str = With(kv.str, key, [v |-> n, exp |-> Counter(kv, key).exp])
               /\ wk[w].at = "count" /\ wk'[w].cur = wk[w].cur
               /\ wk'[w].at = IF n = 1 THEN "expire" ELSE "claim"
               /\ wk'[w].out = IF n > AUTHOR_CAP THEN wk[w].out ELSE wk[w].out \cup {wk[w].cur}
<1> USE DEF At
<1> DEFINE key == AuthorOf(wk[w].cur.id)
           n == Counter(kv, key).v + 1
           kept == IF n > AUTHOR_CAP THEN wk[w].out ELSE wk[w].out \cup {wk[w].cur}
           place == IF n = 1 THEN "expire" ELSE "claim"
           l == [wk[w] EXCEPT !.at = place, !.out = kept]
           e == [v |-> n, exp |-> Counter(kv, key).exp]
<1>1. /\ wk[w].at = "count" /\ now' = now /\ IsTable(kv) /\ IsLocal(wk[w])
      /\ kv' = IncrBy(kv, key, 1)
      /\ wk' = [wk EXCEPT ![w].at = place, ![w].out = kept]
  BY DEF CountAuthor, Shapes, AuthorOf
<1>2. IsTable(kv') /\ kv'.str = With(kv.str, key, e)
  BY <1>1, IncrByIs DEF Shapes
<1>3. ItemsThen
  <2>1. IsItem(e)
    BY DEF Shapes, IsItem, Counter
  <2> HIDE DEF e
  <2> QED  BY <1>2, <2>1 DEF ItemsThen, With, Shapes
<1>4. wk' = [wk EXCEPT ![w] = l]
  BY <1>1
<1>5. IsLocal(l)
  BY <1>1, FieldSet
<1> HIDE DEF place, kept, n
<1>6. l.at = place /\ l.out = kept /\ l.cur = wk[w].cur /\ l.began = wk[w].began
  BY <1>1 DEF IsLocal
<1>7. place \notin Early
  BY DEF place, Early
<1> HIDE DEF l
<1>8. Moves(w) /\ wk'[w] = l
  BY <1>1, <1>2, <1>4, <1>5, <1>6, <1>7, NewLocals DEF Since
<1> QED  BY <1>1, <1>2, <1>3, <1>6, <1>8 DEF place, kept, n

(* The author's counter gets its expiry. *)
LEMMA ExpireAuthorIs ==
    ASSUME Shapes, NEW w \in Worker, ExpireAuthor(w)
    PROVE  LET key == AuthorOf(wk[w].cur.id)
           IN  /\ Moves(w) /\ ItemsThen
               /\ kv'.str = With(kv.str, key, [v |-> Counter(kv, key).v, exp |-> now + AUTHOR_WINDOW])
               /\ wk[w].at = "expire" /\ wk'[w].at = "claim" /\ wk'[w].out = wk[w].out
<1> USE DEF At
<1> DEFINE key == AuthorOf(wk[w].cur.id)
           l == [wk[w] EXCEPT !.at = "claim"]
           e == [v |-> Counter(kv, key).v, exp |-> now + AUTHOR_WINDOW]
<1>1. /\ wk[w].at = "expire" /\ now' = now /\ IsTable(kv) /\ IsLocal(wk[w])
      /\ kv' = Expire(kv, key, AUTHOR_WINDOW, now) /\ wk' = [wk EXCEPT ![w] = l]
  BY DEF ExpireAuthor, Shapes, AuthorOf
<1>2. IsTable(kv') /\ kv'.str = With(kv.str, key, e)
  BY <1>1, ExpireIs DEF Shapes
<1>3. ItemsThen
  <2>1. IsItem(e)
    BY DEF IsItem, Shapes
  <2> HIDE DEF e
  <2>2. kv'.str = With(kv.str, key, e) /\ \A k \in DOMAIN kv.str : IsItem(kv.str[k])
    BY <1>2 DEF Shapes
  <2> HIDE DEF key
  <2>3. ASSUME NEW k \in DOMAIN kv'.str
        PROVE  kv'.str[k] = e \/ (k \in DOMAIN kv.str /\ kv'.str[k] = kv.str[k])
    BY <2>2, <2>3, WithWas
  <2> QED  BY <2>1, <2>2, <2>3 DEF ItemsThen
<1>4. IsLocal(l)
  BY <1>1, FieldSet
<1>5. l.at = "claim" /\ l.out = wk[w].out /\ l.began = wk[w].began
  BY <1>1 DEF IsLocal
<1> HIDE DEF l
<1>6. Moves(w) /\ wk'[w] = l
  BY <1>1, <1>2, <1>4, <1>5, NewLocals DEF Early, Since
<1> QED  BY <1>1, <1>2, <1>3, <1>5, <1>6

(* A body is one of those in hand, and then no longer. *)
LEMMA WriteBodyIs ==
    ASSUME Shapes, NEW w \in Worker, WriteBody(w)
    PROVE  \E i \in Counted(wk[w]) :
                /\ Moves(w) /\ ItemsThen
                /\ kv'.str = With(kv.str, PostKey(i), [v |-> i, exp |-> now + MAX_AGE])
                /\ Counted(wk'[w]) \subseteq Counted(wk[w]) /\ wk'[w].at = "index"
<1> USE DEF At
<1>1. now' = now /\ IsTable(kv) /\ IsLocal(wk[w]) /\ wk[w].at \in {"claim", "write"}
  BY DEF WriteBody, Shapes
<1>2. PICK p \in Unwritten(w) :
        /\ kv' = Put(kv, PostKey(p.id), p.id, MAX_AGE, now)
        /\ wk' = [wk EXCEPT ![w].at = "index", ![w].batch = Unwritten(w) \ {p}, ![w].cur = p]
  BY DEF WriteBody
<1> DEFINE i == p.id
           rest == Unwritten(w) \ {p}
           l == [wk[w] EXCEPT !.at = "index", !.batch = rest, !.cur = p]
           e == [v |-> i, exp |-> now + MAX_AGE]
<1>3. IsTable(kv') /\ kv'.str = With(kv.str, PostKey(i), e)
  BY <1>1, <1>2, PutIs DEF Until
<1>4. ItemsThen
  BY <1>3 DEF ItemsThen, With, Shapes, IsItem
<1>5. IsLocal(l)
  BY <1>1, FieldSet
<1>6. wk' = [wk EXCEPT ![w] = l]
  BY <1>2
<1> HIDE DEF rest
<1>7. l.at = "index" /\ l.batch = rest /\ l.began = wk[w].began
  BY <1>1 DEF IsLocal
<1> HIDE DEF l
<1>8. Moves(w) /\ wk'[w] = l
  BY <1>1, <1>3, <1>5, <1>6, <1>7, NewLocals DEF Early, Since
<1>9. Counted(wk[w]) = Ids(Unwritten(w))
  BY <1>1 DEF Counted, Unwritten
<1>10. Counted(wk'[w]) = Ids(rest)
  BY <1>7, <1>8 DEF Counted
<1>11. i \in Counted(wk[w]) /\ Counted(wk'[w]) \subseteq Counted(wk[w])
  BY <1>2, <1>9, <1>10 DEF Ids, rest
<1> QED  BY <1>3, <1>4, <1>7, <1>8, <1>11

-----------------------------------------------------------------------------
(* Every wording is stored once until it is about to expire: what is       *)
(* stored, and what a cycle holds, has its fingerprint to itself.          *)

(* The shapes survive a step of a cycle. *)
LEMMA ShapesAfter ==
    ASSUME Shapes, NEW w \in Worker, Moves(w), ItemsThen
    PROVE  Shapes'
<1>1. \A v \in Worker : IsLocal(wk'[v]) /\ (wk'[v].at \in Early => wk'[v].out = {})
  BY DEF Moves, Shapes
<1>2. ASSUME NEW v \in Worker, wk'[v].at # "idle"
      PROVE  wk'[v].began \in Nat /\ (now = wk'[v].began \/ now = wk'[v].began + 1)
  BY <1>2 DEF Moves, Shapes, Since
<1>3. now' = now /\ now \in Nat \ {0} /\ IsTable(kv') /\ wk' = [v \in Worker |-> wk'[v]]
  BY DEF Moves, Shapes
<1> QED  BY <1>1, <1>2, <1>3 DEF Shapes, ItemsThen

(* When the cycle that holds something began does not change. *)
LEMMA SameSince ==
    ASSUME NEW w \in Worker, Moves(w), NEW v \in Worker, wk'[v].at # "idle",
           v = w => wk[w].at # "idle"
    PROVE  wk'[v].began = wk[v].began
BY DEF Moves, Since

(* A fingerprint stays owned when it is not touched, and when only what is *)
(* free or expired is.                                                     *)
Stays(k) == k \in DOMAIN kv.str /\ ~IsFree(kv, k, now) => Same(k)
OwnsThen(i, from, to) == \E e \in from .. to : Owned(i, e)'

LEMMA OwnsStays ==
    ASSUME Shapes, NEW i, NEW a \in Nat, NEW b \in Nat, Owns(i, a, b), now <= a,
           Stays(Fingerprint(ById(i)))
    PROVE  OwnsThen(i, a, b)
<1> DEFINE fp == Fingerprint(ById(i))
<1>1. PICK e \in a .. b : Owned(i, e)
  BY DEF Owns
<1>2. fp \in DOMAIN kv.str /\ kv.str[fp].v = i /\ kv.str[fp].exp = e
  BY <1>1 DEF Owned
<1>3. now \in Nat \ {0} /\ e \in Nat /\ ~(e < now)
  BY DEF Shapes
<1>4. ~IsFree(kv, fp, now)
  BY <1>2, <1>3 DEF IsFree, Expired
<1>5. Owned(i, e)'
  BY <1>1, <1>2, <1>4 DEF Owned, Stays, Same
<1> QED  BY <1>5 DEF OwnsThen

(* Where a hold begins is not before now. *)
LEMMA HeldSince ==
    ASSUME Claims, NEW v \in Worker, NEW i \in Held(wk[v])
    PROVE  /\ wk[v].at # "idle" /\ wk[v].began + MAX_AGE \in Nat /\ now + MAX_AGE \in Nat
           /\ now <= wk[v].began + MAX_AGE /\ Owns(i, wk[v].began + MAX_AGE, now + MAX_AGE)
<1>1. wk[v].at # "idle"
  BY NothingInHand DEF Held, Early
<1> QED  BY <1>1 DEF Claims, Shapes, HeldOwn

(* What was stored and still is stays owned. *)
LEMMA BodyStays ==
    ASSUME Claims, NEW i \in PostIds, PostKey(i) \in DOMAIN kv'.str, Same(PostKey(i)),
           now' = now, Stays(Fingerprint(ById(i)))
    PROVE  LET e == kv'.str[PostKey(i)].exp
           IN  e # 0 /\ (now' < e => OwnsThen(i, e - 1, e))
<1> DEFINE e == kv.str[PostKey(i)].exp
<1>1. PostKey(i) \in DOMAIN kv.str /\ kv'.str[PostKey(i)] = kv.str[PostKey(i)]
  BY DEF Same
<1>2. e \in Nat /\ e # 0 /\ (now < e => Owns(i, e - 1, e))
  BY <1>1 DEF Claims, Shapes, IsItem, BodiesOwn
<1>3. ASSUME now < e
      PROVE  OwnsThen(i, e - 1, e)
  <2>1. e - 1 \in Nat /\ now <= e - 1
    BY <1>2, <1>3 DEF Claims, Shapes
  <2> QED  BY <1>2, <1>3, <2>1, OwnsStays DEF Claims
<1> HIDE DEF e
<1> QED  BY <1>1, <1>2, <1>3 DEF e

(* A step that touches no body and no taken fingerprint, and takes up at   *)
(* most what it owns then.                                                 *)
LEMMA ClaimsKept ==
    ASSUME Claims, NEW w \in Worker, Moves(w), ItemsThen, wk[w].at # "idle" \/ Held(wk'[w]) = {},
           \A i : Same(PostKey(i)), \A p : Stays(Fingerprint(p)),
           \A i \in Held(wk'[w]) \ Held(wk[w]) : Owned(i, now + MAX_AGE)'
    PROVE  Claims'
<1>1. Shapes' /\ now' = now /\ now \in Nat
  BY ShapesAfter DEF Claims, Moves, Shapes
<1>2. BodiesOwn'
  BY <1>1, BodyStays DEF BodiesOwn, Owns, OwnsThen
<1>3. ASSUME NEW v \in Worker, NEW i \in Held(wk'[v])
      PROVE  OwnsThen(i, wk[v].began + MAX_AGE, now + MAX_AGE)
  <2>1. wk'[v].at # "idle" /\ (v = w => wk[w].at # "idle")
    BY <1>3, NothingInHand DEF Held, Early
  <2>2. CASE i \in Held(wk[v])
    BY <1>1, <2>2, HeldSince, OwnsStays DEF Claims
  <2>3. CASE i \notin Held(wk[v])
    <3>1. v = w
      BY <1>3, <2>3 DEF Moves
    <3>2. Owned(i, now + MAX_AGE)'
      BY <1>3, <2>3, <3>1
    <3>3. now + MAX_AGE \in (wk[v].began + MAX_AGE) .. (now + MAX_AGE)
      BY <1>1, <2>1, <3>1 DEF Claims, Shapes
    <3> QED  BY <1>1, <3>2, <3>3 DEF OwnsThen, Owned
  <2> QED  BY <2>2, <2>3
<1>4. ASSUME NEW v \in Worker, NEW i \in Held(wk'[v])
      PROVE  wk'[v].began = wk[v].began
  BY <1>4, NothingInHand, SameSince DEF Held, Early
<1> QED  BY <1>1, <1>2, <1>3, <1>4 DEF Claims, HeldOwn, Owns, OwnsThen

LEMMA QuietClaims ==
    ASSUME Claims, NEW w \in Worker, Quiet(w)
    PROVE  Claims'
<1>1. \A i : Same(PostKey(i))
  BY KeysDiffer DEF Aside, Quiet, StringsKept
<1>2. \A p : Stays(Fingerprint(p))
  BY KeysDiffer DEF Aside, Quiet, StringsKept, Stays
<1>3. Held(wk'[w]) \subseteq Held(wk[w])
  BY DEF Quiet, Held
<1>4. wk[w].at = "idle" => Held(wk[w]) = {}
  BY NothingInHand DEF Held, Early
<1> QED  BY <1>1, <1>2, <1>3, <1>4, ClaimsKept DEF Quiet

(* The claim: the fingerprint was free, so nobody else has its wording. *)
LEMMA ClaimClaims ==
    ASSUME Claims, NEW w \in Worker, Claim(w)
    PROVE  Claims'
<1>1. CASE Quiet(w)
  BY <1>1, QuietClaims
<1>2. CASE ~Quiet(w)
  <2>1. PICK p : LET fp == Fingerprint(ById(p.id))
                 IN  /\ IsFree(kv, fp, now) /\ Moves(w) /\ ItemsThen
                     /\ kv'.str = With(kv.str, fp, [v |-> p.id, exp |-> now + MAX_AGE])
                     /\ wk[w].at = "claim" /\ wk'[w].at = "count"
                     /\ wk'[w].out = wk[w].out /\ wk'[w].cur = p
    BY <1>2, ClaimIs DEF Claims
  <2> DEFINE fp == Fingerprint(ById(p.id))
  <2>2. /\ fp \in DOMAIN kv'.str /\ kv'.str[fp] = [v |-> p.id, exp |-> now + MAX_AGE]
        /\ \A k : k # fp => Same(k)
    BY <2>1 DEF With, Same
  <2>3. \A i : Same(PostKey(i))
    BY <2>2, KeysDiffer
  <2>4. \A q : Stays(Fingerprint(q))
    BY <2>1, <2>2 DEF Stays
  <2>5. Held(wk'[w]) = Held(wk[w]) \cup {p.id}
    BY <2>1 DEF Held, Counted
  <2>6. Owned(p.id, now + MAX_AGE)'
    BY <2>1, <2>2 DEF Owned, Moves
  <2> QED  BY <2>1, <2>3, <2>4, <2>5, <2>6, ClaimsKept
<1> QED  BY <1>1, <1>2

LEMMA CountClaims ==
    ASSUME Claims, NEW w \in Worker, CountAuthor(w) \/ ExpireAuthor(w)
    PROVE  Claims'
<1> DEFINE key == AuthorOf(wk[w].cur.id)
<1>1. /\ Moves(w) /\ ItemsThen /\ \E e : kv'.str = With(kv.str, key, e)
      /\ Held(wk'[w]) \subseteq Held(wk[w]) /\ wk[w].at # "idle"
  <2>1. CASE CountAuthor(w)
    <3>1. Held(wk[w]) = Ids(wk[w].out) \cup {wk[w].cur.id}
      BY <2>1, CountIs DEF Claims, Held, Counted
    <3>2. Held(wk'[w]) = Ids(wk'[w].out)
      BY <2>1, CountIs DEF Claims, Held, Counted
    <3>3. wk'[w].out \subseteq wk[w].out \cup {wk[w].cur}
      BY <2>1, CountIs DEF Claims
    <3>4. Held(wk'[w]) \subseteq Held(wk[w])
      BY <3>1, <3>2, <3>3 DEF Ids
    <3> QED  BY <2>1, <3>4, CountIs DEF Claims
  <2>2. CASE ExpireAuthor(w)
    <3>1. Held(wk'[w]) = Held(wk[w])
      BY <2>2, ExpireAuthorIs DEF Claims, Held, Counted
    <3> QED  BY <2>2, <3>1, ExpireAuthorIs DEF Claims
  <2> QED  BY <2>1, <2>2
<1>2. PICK e : kv'.str = With(kv.str, key, e)
  BY <1>1
<1>3. \A k : k # key => Same(k)
  BY <1>2 DEF With, Same
<1>4. \A i : Same(PostKey(i)) /\ \A p : Stays(Fingerprint(p))
  BY <1>3, KeysDiffer DEF AuthorOf, Stays
<1> QED  BY <1>1, <1>4, ClaimsKept

(* The body is put while its fingerprint is held. *)
LEMMA BodyClaims ==
    ASSUME Claims, NEW w \in Worker, WriteBody(w)
    PROVE  Claims'
<1>1. PICK j \in Counted(wk[w]) :
        /\ Moves(w) /\ ItemsThen
        /\ kv'.str = With(kv.str, PostKey(j), [v |-> j, exp |-> now + MAX_AGE])
        /\ Counted(wk'[w]) \subseteq Counted(wk[w]) /\ wk'[w].at = "index"
  BY WriteBodyIs DEF Claims
<1>2. now' = now /\ Shapes' /\ now \in Nat /\ now + MAX_AGE # 0
  BY <1>1, ShapesAfter DEF Claims, Moves, Shapes
<1>3. /\ \A k : k # PostKey(j) => Same(k)
      /\ kv'.str[PostKey(j)] = [v |-> j, exp |-> now + MAX_AGE]
  BY <1>1 DEF With, Same
<1>4. \A p : Stays(Fingerprint(p))
  BY <1>3, KeysDiffer DEF Stays
<1>5. ASSUME NEW v \in Worker, NEW i \in Held(wk[v])
      PROVE  OwnsThen(i, wk[v].began + MAX_AGE, now + MAX_AGE)
  BY <1>2, <1>4, HeldSince, OwnsStays DEF Claims
<1>6. BodiesOwn'
  <2> SUFFICES ASSUME NEW i \in PostIds, PostKey(i) \in DOMAIN kv'.str
               PROVE  LET e == kv'.str[PostKey(i)].exp
                      IN  e # 0 /\ (now' < e => OwnsThen(i, e - 1, e))
    BY DEF BodiesOwn, Owns, OwnsThen
  <2>1. CASE i = j
    <3>1. j \in Held(wk[w]) /\ wk[w].began \in Nat /\ now <= wk[w].began + 1
      BY HeldSince DEF Held, Claims, Shapes
    <3>2. PICK f : /\ f \in (wk[w].began + MAX_AGE) .. (now + MAX_AGE)
                   /\ Owned(j, f)'
      <4>1. OwnsThen(j, wk[w].began + MAX_AGE, now + MAX_AGE)
        BY <1>5, <3>1
      <4> QED  BY <4>1 DEF OwnsThen
    <3>3. f \in (now + MAX_AGE - 1) .. (now + MAX_AGE)
      BY <1>2, <3>1, <3>2
    <3> QED  BY <1>2, <1>3, <2>1, <3>2, <3>3 DEF OwnsThen
  <2>2. CASE i # j
    <3>1. Same(PostKey(i))
      BY <1>3, <2>2, KeysDiffer
    <3> QED  BY <1>2, <1>4, <3>1, BodyStays
  <2> QED  BY <2>1, <2>2
<1>7. ASSUME NEW v \in Worker, NEW i \in Held(wk'[v])
      PROVE  OwnsThen(i, wk[v].began + MAX_AGE, now + MAX_AGE)
  <2>1. i \in Held(wk[v])
    BY <1>1, <1>7 DEF Moves, Held
  <2> QED  BY <1>5, <2>1
<1>8. ASSUME NEW v \in Worker, NEW i \in Held(wk'[v])
      PROVE  wk'[v].began = wk[v].began
  <2>1. i \in Held(wk[v]) /\ wk'[v].at # "idle"
    BY <1>1, <1>8, NothingInHand DEF Moves, Held, Early
  <2> QED  BY <1>1, <2>1, HeldSince, SameSince
<1> QED  BY <1>2, <1>6, <1>7, <1>8 DEF Claims, HeldOwn, Owns, OwnsThen

(* When time passes, what a cycle holds is held since the same time. *)
LEMMA TickClaims ==
    ASSUME Claims, Tick
    PROVE  Claims'
<1>1. /\ now' = now + 1 /\ kv' = kv /\ wk' = wk /\ now \in Nat
      /\ \A w \in Worker : wk[w].at = "idle" \/ wk[w].began = now
  BY DEF Tick, At, Claims, Shapes
<1>2. Shapes'
  BY <1>1 DEF Claims, Shapes
<1>3. BodiesOwn'
  <2> SUFFICES ASSUME NEW i \in PostIds, PostKey(i) \in DOMAIN kv.str
               PROVE  LET e == kv.str[PostKey(i)].exp
                      IN  e # 0 /\ (now' < e => Owns(i, e - 1, e))
    BY <1>1 DEF BodiesOwn, Owns, Owned
  <2>1. kv.str[PostKey(i)].exp \in Nat
    BY DEF Claims, Shapes, IsItem
  <2> QED  BY <1>1, <2>1 DEF Claims, BodiesOwn
<1>4. HeldOwn'
  <2> SUFFICES ASSUME NEW v \in Worker, NEW i \in Held(wk[v])
               PROVE  Owns(i, wk[v].began + MAX_AGE, now' + MAX_AGE)
    BY <1>1 DEF HeldOwn, Owns, Owned
  <2>1. /\ Owns(i, wk[v].began + MAX_AGE, now + MAX_AGE) /\ wk[v].began + MAX_AGE \in Nat
        /\ now + MAX_AGE \in Nat
    BY HeldSince
  <2>2. (wk[v].began + MAX_AGE) .. (now + MAX_AGE) \subseteq (wk[v].began + MAX_AGE) .. (now' + MAX_AGE)
    BY <1>1, <2>1
  <2> QED  BY <2>1, <2>2 DEF Owns
<1> QED  BY <1>2, <1>3, <1>4 DEF Claims

(* A sweep takes no fingerprint of what is not about to expire. *)
LEMMA SweepClaims ==
    ASSUME Claims, Sweep
    PROVE  Claims'
<1> DEFINE ks == {k \in DOMAIN kv.str : Expired(kv, k, now)}
<1>1. now' = now /\ wk' = wk /\ kv' = Swept(kv, ks)
  BY DEF Sweep
<1>2. /\ IsTable(kv') /\ DOMAIN kv'.str = DOMAIN kv.str \ ks
      /\ \A k \in DOMAIN kv'.str : kv'.str[k] = kv.str[k]
  BY <1>1, SweptIs DEF Claims, Shapes
<1>3. Shapes'
  BY <1>1, <1>2 DEF Claims, Shapes
<1>4. \A k : Stays(k) /\ (k \in DOMAIN kv'.str => Same(k))
  BY <1>2 DEF Stays, Same, IsFree
<1>5. BodiesOwn'
  BY <1>1, <1>4, BodyStays DEF BodiesOwn, Owns, OwnsThen
<1>6. ASSUME NEW v \in Worker, NEW i \in Held(wk'[v])
      PROVE  OwnsThen(i, wk[v].began + MAX_AGE, now + MAX_AGE)
  BY <1>1, <1>4, HeldSince, OwnsStays DEF Claims
<1> QED  BY <1>1, <1>3, <1>5, <1>6 DEF Claims, HeldOwn, Owns, OwnsThen

LEMMA InitClaims == Init => Claims
<1> SUFFICES ASSUME Init PROVE Claims
  OBVIOUS
<1> USE DEF Init, Empty, Idle
<1>1. DOMAIN kv.str = {}
  OBVIOUS
<1>2. Shapes
  BY <1>1 DEF Shapes, IsTable, IsLocal
<1>3. \A w \in Worker : Held(wk[w]) = {}
  BY DEF Held, Counted
<1> QED  BY <1>1, <1>2, <1>3 DEF Claims, BodiesOwn, HeldOwn

LEMMA NextClaims == Claims /\ [Next]_vars => Claims'
<1> SUFFICES ASSUME Claims, [Next]_vars PROVE Claims'
  OBVIOUS
<1>1. CASE UNCHANGED <<now, kv, wk>>
  BY <1>1 DEF Claims, Shapes, BodiesOwn, HeldOwn, Owns, Owned
<1>2. ASSUME NEW w \in Worker, Cycle(w) \/ Kill(w)
      PROVE  Claims'
  BY <1>2, QuietSteps, QuietClaims, ClaimClaims, CountClaims, BodyClaims DEF Cycle, Claims
<1>3. CASE Tick
  BY <1>3, TickClaims
<1>4. CASE Sweep
  BY <1>4, SweepClaims
<1> QED  BY <1>1, <1>2, <1>3, <1>4 DEF Next, vars, OpenFeed, ReadChunk, Answer

(* The same words of the same account are stored once until one of the     *)
(* copies is about to expire, whichever environments find them, for any    *)
(* number of environments, posts and kills and although the clock ticks    *)
(* between a claim and its body: a claim is taken only when no body that   *)
(* lasts and no cycle has it.                                              *)
THEOREM WordingsOnce == Spec => []WordingsMeetAtExpiry
<1>1. Claims => WordingsMeetAtExpiry
  <2> SUFFICES ASSUME Claims, NEW i \in Stored, NEW j \in Stored,
                      Fingerprint(ById(i)) = Fingerprint(ById(j)),
                      kv.str[PostKey(i)].exp # now, kv.str[PostKey(j)].exp # now
               PROVE  i = j
    BY DEF WordingsMeetAtExpiry
  <2>1. ASSUME NEW k \in Stored, kv.str[PostKey(k)].exp # now
        PROVE  \E e : Owned(k, e)
    <3>1. k \in PostIds /\ PostKey(k) \in DOMAIN kv.str /\ ~Expired(kv, PostKey(k), now)
      BY DEF Stored, Live
    <3>2. kv.str[PostKey(k)].exp \in Nat /\ now \in Nat
      BY <3>1 DEF Claims, Shapes, IsItem
    <3>3. now < kv.str[PostKey(k)].exp
      BY <2>1, <3>1, <3>2 DEF Claims, BodiesOwn, Expired
    <3> QED  BY <3>1, <3>3 DEF Claims, BodiesOwn, Owns
  <2>2. (\E e : Owned(i, e)) /\ (\E e : Owned(j, e))
    BY <2>1
  <2> QED  BY <2>2 DEF Owned
<1> QED  BY <1>1, InitClaims, NextClaims, PTL DEF Spec

-----------------------------------------------------------------------------
(* No account has more than its cap, or a little less than twice its cap.  *)
(* A counter counts what has passed; one that had expired has counted at   *)
(* least one post of before.                                               *)

LEMMA PostIdsFinite == IsFiniteSet(PostIds)
<1> DEFINE f == [p \in Raw |-> p.id]
<1>1. f \in Surjection(Raw, PostIds)
  BY DEF Surjection, PostIds
<1> QED  BY <1>1, FS_Surjection

LEMMA Fewer ==
    ASSUME NEW S \in SUBSET PostIds, NEW T \in SUBSET S
    PROVE  Cardinality(T) \in Nat /\ Cardinality(S) \in Nat /\ Cardinality(T) <= Cardinality(S)
<1>1. IsFiniteSet(S) /\ IsFiniteSet(T)
  BY PostIdsFinite, FS_Subset
<1> QED  BY <1>1, FS_Subset, FS_CardinalityType

(* At most one post more makes at most one more. *)
LEMMA OneMore ==
    ASSUME NEW S \in SUBSET PostIds, NEW x, NEW T \in SUBSET PostIds, T \subseteq S \cup {x}
    PROVE  Cardinality(T) \in Nat /\ Cardinality(S) \in Nat /\ Cardinality(T) <= Cardinality(S) + 1
<1>1. IsFiniteSet(S) /\ IsFiniteSet(T)
  BY PostIdsFinite, FS_Subset
<1>a. Cardinality(S) \in Nat /\ Cardinality(T) \in Nat
  BY <1>1, FS_CardinalityType
<1>b. /\ IsFiniteSet(S \cup {x})
      /\ Cardinality(S \cup {x}) = IF x \in S THEN Cardinality(S) ELSE Cardinality(S) + 1
  BY <1>1, FS_AddElement
<1>2. IsFiniteSet(S \cup {x}) /\ Cardinality(S \cup {x}) <= Cardinality(S) + 1
  BY <1>a, <1>b
<1>3. Cardinality(T) <= Cardinality(S \cup {x}) /\ Cardinality(S \cup {x}) \in Nat
  BY <1>2, FS_Subset, FS_CardinalityType
<1> QED  BY <1>a, <1>2, <1>3

LEMMA PostsOnly ==
    ASSUME NEW a, NEW e
    PROVE  PassedAt(a, e) \in SUBSET PostIds /\ PassedAt(a, e)' \in SUBSET PostIds
BY DEF PassedAt

LEMMA AllowedIs ==
    ASSUME CountersCount, NEW j
    PROVE  /\ Allowed(AuthorOf(j)) \in Nat /\ Allowed(AuthorOf(j)) <= 2 * AUTHOR_CAP - 1
BY DEF CountersCount, Allowed, Upto

(* Only a count lets a post through. *)
LEMMA PassedStays ==
    ASSUME NEW w \in Worker, Cycle(w) \/ Kill(w), ~CountAuthor(w)
    PROVE  passed' = passed
BY DEF Cycle, StartCycle, SkipSource, Collect, RefuseSignIn, CheckBudget, Request, Charge,
       FailRequest, Lookup, Claim, ExpireAuthor, WriteBody, WriteIndex, Trim, Report, Kill

(* The caps of earlier times follow from those of before. *)
LEMMA CapsAfter ==
    ASSUME Shapes, Shapes', Caps, now' >= now, passed' \in [PostIds -> Nat],
           \A i \in PostIds : passed'[i] = passed[i] \/ passed'[i] = now',
           \A i \in PostIds : Through(i)' => Through(i) \/ passed'[i] = now',
           CountersCount', TodayCapped'
    PROVE  Caps'
<1>1. now \in Nat /\ now' \in Nat \ {0}
  BY DEF Shapes
<1>2. PassedDated'
  BY <1>1 DEF Caps, PassedDated
<1>3. EachCapped'
  <2> SUFFICES ASSUME NEW j, NEW e \in Nat \ {0}
               PROVE  Cardinality(PassedAt(AuthorOf(j), e)') <= 2 * AUTHOR_CAP - 1
    BY DEF EachCapped
  <2> DEFINE a == AuthorOf(j)
  <2>1. CASE e = now'
    <3>1. Cardinality(PassedAt(a, now)') <= Allowed(a)'
      BY DEF TodayCapped
    <3>2. Allowed(a)' \in Nat /\ Allowed(a)' <= 2 * AUTHOR_CAP - 1
      BY DEF CountersCount, Allowed, Upto
    <3>3. PassedAt(a, now)' = PassedAt(a, e)'
      BY <2>1 DEF PassedAt
    <3>4. Cardinality(PassedAt(a, e)') \in Nat
      BY Fewer, PostsOnly
    <3> QED  BY <3>1, <3>2, <3>3, <3>4
  <2>2. CASE e # now'
    <3>1. PassedAt(a, e)' \subseteq PassedAt(a, e)
      BY <2>2 DEF PassedAt
    <3>2. Cardinality(PassedAt(a, e)) <= 2 * AUTHOR_CAP - 1
      BY DEF Caps, EachCapped
    <3>3. /\ Cardinality(PassedAt(a, e)') \in Nat /\ Cardinality(PassedAt(a, e)) \in Nat
          /\ Cardinality(PassedAt(a, e)') <= Cardinality(PassedAt(a, e))
      BY <3>1, Fewer, PostsOnly
    <3> QED  BY <3>2, <3>3
  <2> QED  BY <2>1, <2>2
<1> QED  BY <1>2, <1>3 DEF Caps

(* A step that touches no counter and lets nothing through. *)
LEMMA CapsKept ==
    ASSUME Shapes, Caps, NEW w \in Worker, Moves(w), ItemsThen, \A i : Same(AuthorOf(i)),
           \A i \in PostIds : Through(i)' => Through(i),
           wk'[w].at # "expire", passed' = passed
    PROVE  Caps'
<1>1. Shapes' /\ now' = now /\ now \in Nat
  BY ShapesAfter DEF Moves, Shapes
<1>2. \A v \in Worker : wk'[v].at = "expire" => wk'[v] = wk[v]
  BY DEF Moves
<1>3. CountersCount'
  BY <1>2 DEF Same, Caps, CountersCount
<1>4. ASSUME NEW j
      PROVE  Cardinality(PassedAt(AuthorOf(j), now)') <= Allowed(AuthorOf(j))'
  <2>1. Allowed(AuthorOf(j))' = Allowed(AuthorOf(j))
    BY <1>1 DEF Allowed, Expired, Same
  <2>2. PassedAt(AuthorOf(j), now)' = PassedAt(AuthorOf(j), now)
    BY <1>1 DEF PassedAt
  <2> QED  BY <2>1, <2>2 DEF Caps, TodayCapped
<1>5. passed' \in [PostIds -> Nat] /\ now' >= now
  BY <1>1 DEF Caps, PassedDated
<1> QED  BY <1>1, <1>3, <1>4, <1>5, CapsAfter DEF TodayCapped

(* Nothing goes through when no body comes and nothing is taken up. *)
LEMMA NoneThrough ==
    ASSUME NEW w \in Worker, Moves(w), Counted(wk'[w]) \subseteq Counted(wk[w]),
           NEW i \in PostIds, Through(i)',
           PostKey(i) \in DOMAIN kv'.str => PostKey(i) \in DOMAIN kv.str \/ i \in Counted(wk[w])
    PROVE  Through(i)
<1>1. \A v \in Worker : Counted(wk'[v]) \subseteq Counted(wk[v])
  BY DEF Moves
<1> QED  BY <1>1 DEF Through

LEMMA QuietCaps ==
    ASSUME Shapes, Caps, NEW w \in Worker, Quiet(w), passed' = passed
    PROVE  Caps'
<1>1. \A i : Same(PostKey(i)) /\ Same(AuthorOf(i))
  BY KeysDiffer DEF Aside, AuthorOf, Quiet, StringsKept
<1>2. \A i \in PostIds : Through(i)' => Through(i)
  BY <1>1, NoneThrough DEF Quiet, Same
<1> QED  BY <1>1, <1>2, CapsKept DEF Quiet

LEMMA ClaimCaps ==
    ASSUME Shapes, Caps, NEW w \in Worker, Claim(w), passed' = passed
    PROVE  Caps'
<1>1. CASE Quiet(w)
  BY <1>1, QuietCaps
<1>2. CASE ~Quiet(w)
  <2>1. PICK p : LET fp == Fingerprint(ById(p.id))
                 IN  /\ IsFree(kv, fp, now) /\ Moves(w) /\ ItemsThen
                     /\ kv'.str = With(kv.str, fp, [v |-> p.id, exp |-> now + MAX_AGE])
                     /\ wk[w].at = "claim" /\ wk'[w].at = "count"
                     /\ wk'[w].out = wk[w].out /\ wk'[w].cur = p
    BY <1>2, ClaimIs
  <2>2. \A k : k # Fingerprint(ById(p.id)) => Same(k)
    BY <2>1 DEF With, Same
  <2>3. \A i : Same(PostKey(i)) /\ Same(AuthorOf(i))
    BY <2>2, KeysDiffer DEF AuthorOf
  <2>4. Counted(wk'[w]) = Counted(wk[w])
    BY <2>1 DEF Counted
  <2>5. \A i \in PostIds : Through(i)' => Through(i)
    BY <2>1, <2>3, <2>4, NoneThrough DEF Same
  <2> QED  BY <2>1, <2>3, <2>5, CapsKept
<1> QED  BY <1>1, <1>2

(* A body had passed before it was put. *)
LEMMA BodyCaps ==
    ASSUME Shapes, Caps, NEW w \in Worker, WriteBody(w), passed' = passed
    PROVE  Caps'
<1>1. PICK x \in Counted(wk[w]) :
        /\ Moves(w) /\ ItemsThen
        /\ kv'.str = With(kv.str, PostKey(x), [v |-> x, exp |-> now + MAX_AGE])
        /\ Counted(wk'[w]) \subseteq Counted(wk[w]) /\ wk'[w].at = "index"
  BY WriteBodyIs
<1>2. \A k : k # PostKey(x) => Same(k)
  BY <1>1 DEF With, Same
<1>3. (\A i : Same(AuthorOf(i))) /\ \A i : i # x => Same(PostKey(i))
  BY <1>2, KeysDiffer DEF AuthorOf
<1>4. \A i \in PostIds : Through(i)' => Through(i)
  BY <1>1, <1>3, NoneThrough DEF Same
<1> QED  BY <1>1, <1>3, <1>4, CapsKept

(* The count lets one post more through exactly when it allows one more. *)
LEMMA CountCaps ==
    ASSUME Shapes, Caps, NEW w \in Worker, CountAuthor(w)
    PROVE  Caps'
<1> DEFINE x == wk[w].cur.id
           key == AuthorOf(x)
           n == Counter(kv, key).v + 1
           old == Counter(kv, key).exp
<1>1. /\ Moves(w) /\ ItemsThen
      /\ kv'.str = With(kv.str, key, [v |-> n, exp |-> old])
      /\ wk[w].at = "count" /\ wk'[w].cur = wk[w].cur
      /\ wk'[w].at = IF n = 1 THEN "expire" ELSE "claim"
      /\ wk'[w].out = IF n > AUTHOR_CAP THEN wk[w].out ELSE wk[w].out \cup {wk[w].cur}
  BY CountIs
<1>2. Shapes' /\ now' = now /\ now \in Nat
  BY <1>1, ShapesAfter DEF Moves, Shapes
<1>3. /\ \A k : k # key => Same(k)
      /\ key \in DOMAIN kv'.str /\ kv'.str[key] = [v |-> n, exp |-> old]
  BY <1>1 DEF With, Same
<1>4. \A i : Same(PostKey(i))
  BY <1>3, KeysDiffer DEF AuthorOf
<1>5. n \in Nat \ {0} /\ old \in Nat
  <2>1. n \in Nat \ {0}
    BY DEF Caps, CountersCount, Counter
  <2>2. old \in Nat
    BY DEF Counter, Shapes, IsItem
  <2> QED  BY <2>1, <2>2
<1>6. n = 1 => key \notin DOMAIN kv.str /\ old = 0
  BY DEF Caps, CountersCount, Counter
<1>7. key \in DOMAIN kv.str => old = kv.str[key].exp /\ n = kv.str[key].v + 1
  BY DEF Counter
<1>8. key \notin DOMAIN kv.str => n = 1 /\ old = 0
  BY DEF Counter
<1>9. passed' = IF n > AUTHOR_CAP THEN passed ELSE [passed EXCEPT ![x] = now]
  BY DEF CountAuthor, AuthorOf
<1> HIDE DEF key, n, old
<1>10. CountersCount'
  <2>1. ASSUME NEW i, AuthorOf(i) \in DOMAIN kv'.str
        PROVE  kv'.str[AuthorOf(i)].v \in Nat \ {0}
    BY <1>3, <1>5, <2>1 DEF Same, Caps, CountersCount
  <2>2. ASSUME NEW v \in Worker, wk'[v].at = "expire", v # w
        PROVE  /\ wk'[v] = wk[v] /\ AuthorOf(wk[v].cur.id) \in DOMAIN kv.str
               /\ kv.str[AuthorOf(wk[v].cur.id)].exp = 0
    BY <1>1, <2>2 DEF Moves, Caps, CountersCount
  <2>3. ASSUME NEW v \in Worker, wk'[v].at = "expire"
        PROVE  /\ AuthorOf(wk'[v].cur.id) \in DOMAIN kv'.str
               /\ kv'.str[AuthorOf(wk'[v].cur.id)].exp = 0
    <3>1. CASE v = w
      BY <1>1, <1>3, <1>6, <2>3, <3>1 DEF key
    <3>2. CASE v # w /\ AuthorOf(wk[v].cur.id) = key
      BY <1>3, <1>7, <2>2, <2>3, <3>2
    <3>3. CASE v # w /\ AuthorOf(wk[v].cur.id) # key
      BY <1>3, <2>2, <2>3, <3>3 DEF Same
    <3> QED  BY <3>1, <3>2, <3>3
  <2>4. ASSUME NEW u \in Worker, NEW v \in Worker, wk'[u].at = "expire", wk'[v].at = "expire",
               AuthorOf(wk'[u].cur.id) = AuthorOf(wk'[v].cur.id)
        PROVE  u = v
    <3>1. CASE u # w /\ v # w
      BY <2>2, <2>4, <3>1 DEF Caps, CountersCount
    <3>2. ASSUME NEW t \in Worker, wk'[t].at = "expire", t # w, wk'[w].at = "expire"
          PROVE  AuthorOf(wk'[t].cur.id) # AuthorOf(wk'[w].cur.id)
      BY <1>1, <1>6, <2>2, <3>2 DEF key
    <3> QED  BY <2>4, <3>1, <3>2
  <2> QED  BY <2>1, <2>3, <2>4 DEF CountersCount
<1>11. /\ passed' \in [PostIds -> Nat]
       /\ \A i \in PostIds : passed'[i] = passed[i] \/ (i = x /\ passed'[i] = now /\ n <= AUTHOR_CAP)
       /\ n <= AUTHOR_CAP /\ x \in PostIds => passed'[x] = now
  <2>1. passed \in [PostIds -> Nat]
    BY DEF Caps, PassedDated
  <2> HIDE DEF x
  <2>2. CASE n > AUTHOR_CAP
    BY <1>5, <1>9, <2>1, <2>2
  <2>3. CASE n <= AUTHOR_CAP
    <3>1. ~(n > AUTHOR_CAP)
      BY <1>5, <2>3
    <3>2. passed' = [passed EXCEPT ![x] = now]
      BY <1>9, <3>1
    <3> QED  BY <1>2, <2>1, <2>3, <3>2
  <2> QED  BY <1>5, <2>2, <2>3
<1>12. ASSUME NEW i \in PostIds, Through(i)'
       PROVE  Through(i) \/ passed'[i] = now'
  <2>1. /\ Counted(wk[w]) = Ids(wk[w].out) /\ Counted(wk'[w]) = Ids(wk'[w].out)
        /\ \A v \in Worker : v # w => Counted(wk'[v]) = Counted(wk[v])
    BY <1>1 DEF Counted, Moves
  <2>2. CASE PostKey(i) \in DOMAIN kv'.str
    BY <1>4, <2>2 DEF Same, Through
  <2>3. CASE \E v \in Worker : i \in Counted(wk'[v])
    <3>1. PICK v \in Worker : i \in Counted(wk'[v])
      BY <2>3
    <3>2. CASE i \in Counted(wk[v])
      BY <3>2 DEF Through
    <3>3. CASE i \notin Counted(wk[v])
      <4>1. v = w /\ i = x /\ ~(n > AUTHOR_CAP)
        BY <1>1, <2>1, <3>1, <3>3 DEF Ids
      <4> QED  BY <1>2, <1>5, <1>11, <4>1
    <3> QED  BY <3>2, <3>3
  <2> QED  BY <1>12, <2>2, <2>3 DEF Through
<1>13. ASSUME NEW j
       PROVE  Cardinality(PassedAt(AuthorOf(j), now)') <= Allowed(AuthorOf(j))'
  <2> DEFINE a == AuthorOf(j)
  <2>1. /\ Cardinality(PassedAt(a, now)) <= Allowed(a)
        /\ Allowed(a) \in Nat /\ Allowed(a)' \in Nat
    BY <1>10, AllowedIs DEF Caps, TodayCapped, CountersCount, Allowed, Upto
  <2>2. CASE a # key \/ n > AUTHOR_CAP
    <3>1. PassedAt(a, now)' \subseteq PassedAt(a, now)
      BY <1>2, <1>5, <1>11, <2>2 DEF PassedAt, key
    <3>2. Allowed(a) <= Allowed(a)'
      <4>1. CASE a # key
        <5>1. Allowed(a)' = Allowed(a)
          BY <1>2, <1>3, <4>1 DEF Allowed, Expired, Same
        <5> QED  BY <2>1, <5>1
      <4>2. CASE a = key /\ n > AUTHOR_CAP /\ key \in DOMAIN kv.str
        <5>1. Expired(kv', key, now') <=> Expired(kv, key, now)
          BY <1>2, <1>3, <1>7, <4>2 DEF Expired
        <5>2. Upto(kv.str[key].v) = AUTHOR_CAP /\ Upto(n) = AUTHOR_CAP
          BY <1>5, <1>7, <4>2 DEF Upto, Caps, CountersCount, key
        <5>3. Allowed(a)' = Allowed(a)
          BY <1>3, <4>2, <5>1, <5>2 DEF Allowed
        <5> QED  BY <2>1, <5>3
      <4>3. CASE a = key /\ n > AUTHOR_CAP /\ key \notin DOMAIN kv.str
        BY <1>3, <1>8, <4>3 DEF Allowed, Upto, Expired
      <4> QED  BY <2>2, <4>1, <4>2, <4>3
    <3>3. /\ Cardinality(PassedAt(a, now)') \in Nat /\ Cardinality(PassedAt(a, now)) \in Nat
          /\ Cardinality(PassedAt(a, now)') <= Cardinality(PassedAt(a, now))
      BY <3>1, Fewer, PostsOnly
    <3> QED  BY <2>1, <3>2, <3>3
  <2>3. CASE a = key /\ n <= AUTHOR_CAP
    <3>1. PassedAt(a, now)' \subseteq PassedAt(a, now) \cup {x}
      BY <1>2, <1>11 DEF PassedAt
    <3>2. /\ Cardinality(PassedAt(a, now)') \in Nat /\ Cardinality(PassedAt(a, now)) \in Nat
          /\ Cardinality(PassedAt(a, now)') <= Cardinality(PassedAt(a, now)) + 1
      BY <3>1, OneMore, PostsOnly
    <3>3. Allowed(a)' = Allowed(a) + 1
      <4>1. CASE key \in DOMAIN kv.str
        <5>1. Expired(kv', key, now') <=> Expired(kv, key, now)
          BY <1>2, <1>3, <1>7, <4>1 DEF Expired
        <5>2. kv.str[key].v \in Nat
          BY <4>1 DEF Caps, CountersCount, key
        <5> QED  BY <1>3, <1>5, <1>7, <2>3, <4>1, <5>1, <5>2 DEF Allowed, Upto
      <4>2. CASE key \notin DOMAIN kv.str
        BY <1>3, <1>8, <2>3, <4>2 DEF Allowed, Upto, Expired
      <4> QED  BY <4>1, <4>2
    <3> QED  BY <2>1, <3>2, <3>3
  <2> QED  BY <1>5, <2>2, <2>3
<1>14. /\ now' >= now
       /\ \A i \in PostIds : passed'[i] = passed[i] \/ passed'[i] = now'
  BY <1>2, <1>11
<1> QED  BY <1>2, <1>10, <1>11, <1>12, <1>13, <1>14, CapsAfter DEF TodayCapped

(* The expiry makes a counter live, which allows no less than before. *)
LEMMA ExpireCaps ==
    ASSUME Shapes, Caps, NEW w \in Worker, ExpireAuthor(w)
    PROVE  Caps'
<1> DEFINE key == AuthorOf(wk[w].cur.id)
           c == Counter(kv, key).v
           e == now + AUTHOR_WINDOW
<1>1. /\ Moves(w) /\ ItemsThen /\ kv'.str = With(kv.str, key, [v |-> c, exp |-> e])
      /\ wk[w].at = "expire" /\ wk'[w].at = "claim" /\ wk'[w].out = wk[w].out
  BY ExpireAuthorIs
<1>2. Shapes' /\ now' = now /\ now \in Nat /\ passed' = passed
  BY <1>1, ShapesAfter DEF Moves, Shapes, ExpireAuthor
<1>3. /\ \A k : k # key => Same(k)
      /\ key \in DOMAIN kv'.str /\ kv'.str[key] = [v |-> c, exp |-> e]
  BY <1>1 DEF With, Same
<1>4. key \in DOMAIN kv.str /\ c = kv.str[key].v /\ c \in Nat \ {0}
  BY <1>1 DEF Caps, CountersCount, Counter
<1>5. ~Expired(kv', key, now')
  BY <1>2, <1>3 DEF Expired
<1>6. \A i \in PostIds : Through(i)' => Through(i)
  <2>1. \A i : Same(PostKey(i))
    BY <1>3, KeysDiffer DEF AuthorOf
  <2>2. Counted(wk'[w]) = Counted(wk[w])
    BY <1>1 DEF Counted
  <2> QED  BY <1>1, <2>1, <2>2, NoneThrough DEF Same
<1>7. CountersCount'
  <2>1. ASSUME NEW i, AuthorOf(i) \in DOMAIN kv'.str
        PROVE  kv'.str[AuthorOf(i)].v \in Nat \ {0}
    BY <1>3, <1>4, <2>1 DEF Same, Caps, CountersCount
  <2>2. ASSUME NEW v \in Worker, wk'[v].at = "expire"
        PROVE  /\ wk'[v] = wk[v] /\ AuthorOf(wk[v].cur.id) \in DOMAIN kv.str
               /\ kv.str[AuthorOf(wk[v].cur.id)].exp = 0 /\ AuthorOf(wk[v].cur.id) # key
    <3>1. v # w /\ wk'[v] = wk[v]
      BY <1>1, <2>2 DEF Moves
    <3> QED  BY <1>1, <2>2, <3>1 DEF Caps, CountersCount
  <2>3. ASSUME NEW v \in Worker, wk'[v].at = "expire"
        PROVE  /\ AuthorOf(wk'[v].cur.id) \in DOMAIN kv'.str
               /\ kv'.str[AuthorOf(wk'[v].cur.id)].exp = 0
    BY <1>3, <2>2, <2>3 DEF Same
  <2>4. ASSUME NEW u \in Worker, NEW v \in Worker, wk'[u].at = "expire", wk'[v].at = "expire",
               AuthorOf(wk'[u].cur.id) = AuthorOf(wk'[v].cur.id)
        PROVE  u = v
    BY <2>2, <2>4 DEF Caps, CountersCount
  <2> QED  BY <2>1, <2>3, <2>4 DEF CountersCount
<1> HIDE DEF key, c, e
<1>8. ASSUME NEW j
      PROVE  Cardinality(PassedAt(AuthorOf(j), now)') <= Allowed(AuthorOf(j))'
  <2> DEFINE a == AuthorOf(j)
  <2>1. PassedAt(a, now)' = PassedAt(a, now)
    BY <1>2 DEF PassedAt
  <2>2. Allowed(a) <= Allowed(a)'
    <3>1. CASE a # key
      <4>1. Allowed(a)' = Allowed(a)
        BY <1>2, <1>3, <3>1 DEF Allowed, Expired, Same
      <4> QED  BY <4>1, AllowedIs DEF Caps
    <3>2. CASE a = key
      BY <1>3, <1>4, <1>5, <3>2 DEF Allowed, Upto
    <3> QED  BY <3>1, <3>2
  <2>3. Allowed(a) \in Nat /\ Allowed(a)' \in Nat /\ Cardinality(PassedAt(a, now)) \in Nat
    BY <1>7, AllowedIs, Fewer, PostsOnly DEF Caps, CountersCount, Allowed, Upto
  <2> QED  BY <2>1, <2>2, <2>3 DEF Caps, TodayCapped
<1>9. passed' \in [PostIds -> Nat] /\ now' >= now
  BY <1>2 DEF Caps, PassedDated
<1> QED  BY <1>2, <1>6, <1>7, <1>8, <1>9, CapsAfter DEF TodayCapped

(* At a new time nothing has passed yet. *)
LEMMA TickCaps ==
    ASSUME Shapes, Caps, Tick, Shapes'
    PROVE  Caps'
<1>1. now' = now + 1 /\ kv' = kv /\ wk' = wk /\ passed' = passed /\ now \in Nat
  BY DEF Tick, Shapes
<1>2. CountersCount'
  BY <1>1 DEF Caps, CountersCount
<1>3. ASSUME NEW j
      PROVE  Cardinality(PassedAt(AuthorOf(j), now)') <= Allowed(AuthorOf(j))'
  <2>1. PassedAt(AuthorOf(j), now)' = {}
    BY <1>1 DEF PassedAt, Caps, PassedDated
  <2>2. Allowed(AuthorOf(j))' \in Nat
    BY <1>2 DEF CountersCount, Allowed, Upto
  <2> QED  BY <2>1, <2>2, FS_EmptySet
<1>4. passed' \in [PostIds -> Nat] /\ now' >= now /\ \A i \in PostIds : Through(i)' => Through(i)
  BY <1>1 DEF Caps, PassedDated, Through
<1> QED  BY <1>1, <1>2, <1>3, <1>4, CapsAfter DEF TodayCapped

(* A swept counter had let at least one post of an earlier time through. *)
LEMMA SweepCaps ==
    ASSUME Shapes, Caps, Sweep, Shapes'
    PROVE  Caps'
<1> DEFINE ks == {k \in DOMAIN kv.str : Expired(kv, k, now)}
<1>1. /\ now' = now /\ wk' = wk /\ kv' = Swept(kv, ks) /\ passed' = passed /\ now \in Nat
  BY DEF Sweep, Shapes
<1>2. /\ DOMAIN kv'.str = DOMAIN kv.str \ ks
      /\ \A k \in DOMAIN kv'.str : kv'.str[k] = kv.str[k]
  BY <1>1, SweptIs DEF Shapes
<1>3. CountersCount'
  <2>1. ASSUME NEW i, AuthorOf(i) \in DOMAIN kv'.str
        PROVE  kv'.str[AuthorOf(i)].v \in Nat \ {0}
    BY <1>2, <2>1 DEF Caps, CountersCount
  <2>2. ASSUME NEW v \in Worker, wk'[v].at = "expire"
        PROVE  /\ AuthorOf(wk'[v].cur.id) \in DOMAIN kv'.str
               /\ kv'.str[AuthorOf(wk'[v].cur.id)].exp = 0
    BY <1>1, <1>2, <2>2 DEF Caps, CountersCount, Expired
  <2> QED  BY <1>1, <2>1, <2>2 DEF CountersCount, Caps
<1>4. ASSUME NEW j
      PROVE  Cardinality(PassedAt(AuthorOf(j), now)') <= Allowed(AuthorOf(j))'
  <2> DEFINE a == AuthorOf(j)
  <2>1. PassedAt(a, now)' = PassedAt(a, now)
    BY <1>1 DEF PassedAt
  <2>2. Allowed(a) <= Allowed(a)'
    <3>1. CASE a \in ks
      BY <1>2, <3>1 DEF Allowed, Upto, Caps, CountersCount
    <3>2. CASE a \notin ks
      <4>1. Allowed(a)' = Allowed(a)
        BY <1>1, <1>2, <3>2 DEF Allowed, Expired
      <4> QED  BY <4>1, AllowedIs DEF Caps
    <3> QED  BY <3>1, <3>2
  <2>3. Allowed(a) \in Nat /\ Allowed(a)' \in Nat /\ Cardinality(PassedAt(a, now)) \in Nat
    BY <1>3, AllowedIs, Fewer, PostsOnly DEF Caps, CountersCount, Allowed, Upto
  <2> QED  BY <2>1, <2>2, <2>3 DEF Caps, TodayCapped
<1>5. passed' \in [PostIds -> Nat] /\ now' >= now /\ \A i \in PostIds : Through(i)' => Through(i)
  BY <1>1, <1>2 DEF Caps, PassedDated, Through
<1> QED  BY <1>1, <1>3, <1>4, <1>5, CapsAfter DEF TodayCapped

LEMMA InitCaps == Init => Caps
<1> SUFFICES ASSUME Init PROVE Caps
  OBVIOUS
<1>1. DOMAIN kv.str = {} /\ now = 1 /\ \A w \in Worker : wk[w].at = "idle"
  BY DEF Init, Empty, Idle
<1>2. passed = [i \in PostIds |-> 0]
  BY DEF Init
<1>3. CountersCount
  BY <1>1 DEF CountersCount
<1>4. PassedDated
  BY <1>1, <1>2, NothingInHand DEF PassedDated, Through, Early
<1>5. \A a : \A e \in Nat \ {0} : PassedAt(a, e) = {}
  BY <1>2 DEF PassedAt
<1>6. TodayCapped
  <2>1. ASSUME NEW j PROVE Cardinality(PassedAt(AuthorOf(j), now)) <= Allowed(AuthorOf(j))
    <3>1. Cardinality(PassedAt(AuthorOf(j), now)) = 0
      BY <1>1, <1>5, FS_EmptySet
    <3>2. Allowed(AuthorOf(j)) \in Nat
      BY <1>3, AllowedIs
    <3> QED  BY <3>1, <3>2
  <2> QED  BY <2>1 DEF TodayCapped
<1>7. EachCapped
  BY <1>5, FS_EmptySet DEF EachCapped
<1> QED  BY <1>3, <1>4, <1>6, <1>7 DEF Caps

LEMMA NextCaps == Claims /\ Caps /\ [Next]_vars => Caps'
<1> SUFFICES ASSUME Claims, Caps, [Next]_vars PROVE Caps'
  OBVIOUS
<1>0. Shapes /\ Shapes'
  BY NextClaims DEF Claims
<1>1. CASE UNCHANGED <<now, kv, wk, passed>>
  BY <1>1 DEF Caps, CountersCount, PassedDated, Through, TodayCapped, EachCapped, PassedAt,
              Allowed, Expired
<1>2. ASSUME NEW w \in Worker, Cycle(w) \/ Kill(w)
      PROVE  Caps'
  <2>1. CASE CountAuthor(w)
    BY <1>0, <2>1, CountCaps
  <2>2. CASE ~CountAuthor(w)
    <3>1. passed' = passed
      BY <1>2, <2>2, PassedStays
    <3> QED  BY <1>0, <1>2, <2>2, <3>1, QuietSteps, QuietCaps, ClaimCaps, ExpireCaps, BodyCaps
             DEF Cycle
  <2> QED  BY <2>1, <2>2
<1>3. CASE Tick
  BY <1>0, <1>3, TickCaps
<1>4. CASE Sweep
  BY <1>0, <1>4, SweepCaps
<1> QED  BY <1>1, <1>2, <1>3, <1>4 DEF Next, vars, OpenFeed, ReadChunk, Answer

(* Of the stored posts that passed their cap at one time no account has    *)
(* twice its cap, for every cap and window, any number of environments at  *)
(* once, kills between any two calls and sweeps at any time.               *)
THEOREM NobodyBuriesTheRest == Spec => []AccountsAreCapped
<1>1. Claims /\ Caps => AccountsAreCapped
  <2> DEFINE bodies == {k \in PostIds : PostKey(k) \in DOMAIN kv.str}
  <2> SUFFICES ASSUME Claims, Caps, NEW i \in bodies
               PROVE  Cardinality({j \in bodies : /\ passed[i] = passed[j]
                                                  /\ AuthorKey(ById(i)) = AuthorKey(ById(j))})
                        <= 2 * AUTHOR_CAP - 1
    BY DEF AccountsAreCapped
  <2> DEFINE e == passed[i]
             same == {j \in bodies : /\ passed[i] = passed[j]
                                     /\ AuthorKey(ById(i)) = AuthorKey(ById(j))}
  <2>1. same \subseteq PassedAt(AuthorOf(i), e)
    BY DEF PassedAt, AuthorOf
  <2>2. e \in Nat \ {0}
    BY DEF Caps, PassedDated, Through
  <2>3. Cardinality(PassedAt(AuthorOf(i), e)) <= 2 * AUTHOR_CAP - 1
    BY <2>2 DEF Caps, EachCapped
  <2>4. /\ Cardinality(same) \in Nat /\ Cardinality(PassedAt(AuthorOf(i), e)) \in Nat
        /\ Cardinality(same) <= Cardinality(PassedAt(AuthorOf(i), e))
    BY <2>1, Fewer, PostsOnly
  <2> QED  BY <2>3, <2>4
<1> QED  BY <1>1, InitClaims, NextClaims, InitCaps, NextCaps, PTL DEF Spec

-----------------------------------------------------------------------------
(* X stays within its budget.  What the counter of the day lacks of what   *)
(* was billed is with the environments between a request and its charge,   *)
(* a page at most with each, or was lost with a kill or an answer.         *)

LEMMA DayIs ==
    ASSUME NEW n \in Nat
    PROVE  n \div DAY \in Nat /\ (n \div DAY) * DAY <= n /\ n < (n \div DAY) * DAY + DAY
OBVIOUS

LEMMA Scaled ==
    ASSUME NEW p \in Int, NEW q \in Int
    PROVE  /\ X_PAGE * p \in Int /\ X_PAGE * (p + 1) = X_PAGE * p + X_PAGE
           /\ X_PAGE * (p + q) = X_PAGE * p + X_PAGE * q
           /\ p <= q => X_PAGE * p <= X_PAGE * q /\ p * DAY <= q * DAY
           /\ p < q => p * DAY + DAY <= q * DAY
OBVIOUS

LEMMA MissedIs ==
    ASSUME ReadsTyped
    PROVE  Missed \in Nat /\ X_PAGE * Missed \in Nat
BY DEF ReadsTyped, IsSpent, Missed

LEMMA SetsFinite ==
    /\ IsFiniteSet(Asking) /\ Cardinality(Asking) \in Nat
    /\ IsFiniteSet(Uncharged) /\ Cardinality(Uncharged) \in Nat
    /\ Cardinality(Worker) \in Nat \ {0} /\ Cardinality(Asking) <= Cardinality(Worker)
<1>1. IsFiniteSet(Worker) /\ Asking \in SUBSET Worker
  BY DEF Asking
<1>2. IsFiniteSet(Worker \X Raw) /\ Uncharged \in SUBSET (Worker \X Raw)
  BY FS_Product DEF Uncharged
<1>3. IsFiniteSet(Asking) /\ IsFiniteSet(Uncharged) /\ Cardinality(Asking) <= Cardinality(Worker)
  BY <1>1, <1>2, FS_Subset
<1>4. Cardinality(Worker) # 0
  BY <1>1, FS_EmptySet
<1> QED  BY <1>1, <1>3, <1>4, FS_CardinalityType

(* The posts not yet charged are at most a page for each that asks: they   *)
(* are numbered within their pages.                                        *)
LEMMA UnchargedIsPages ==
    ASSUME ReadsTyped
    PROVE  Cardinality(Uncharged) <= X_PAGE * Cardinality(Asking)
<1> DEFINE Numbered == Asking \X (1 .. X_PAGE)
           number(w) == CHOOSE f : f \in Injection(wk[w].batch, 1 .. X_PAGE)
           h == [b \in Uncharged |-> <<b[1], number(b[1])[b[2]]>>]
<1>1. ASSUME NEW w \in Worker, wk[w].at = "charge"
      PROVE  number(w) \in Injection(wk[w].batch, 1 .. X_PAGE)
  <2> DEFINE n == Cardinality(wk[w].batch)
  <2>1. wk[w].batch \in SUBSET Raw /\ n <= X_PAGE
    BY <1>1 DEF ReadsTyped
  <2>2. IsFiniteSet(wk[w].batch)
    BY <2>1, FS_Subset
  <2>3. n \in Nat /\ ExistsBijection(1 .. n, wk[w].batch)
    BY <2>2, FS_CardinalityType
  <2>4. ExistsBijection(wk[w].batch, 1 .. n)
    BY <2>3, Fun_ExistsBijSymmetric
  <2>5. PICK f : f \in Bijection(wk[w].batch, 1 .. n)
    BY <2>4 DEF ExistsBijection
  <2>6. f \in Injection(wk[w].batch, 1 .. X_PAGE)
    BY <2>1, <2>3, <2>5 DEF Bijection, Injection
  <2> QED  BY <2>6
<1> HIDE DEF number
<1>2. ASSUME NEW b \in Uncharged
      PROVE  /\ b[1] \in Worker /\ wk[b[1]].at = "charge" /\ b[2] \in wk[b[1]].batch
             /\ b = <<b[1], b[2]>> /\ b[1] \in Asking
             /\ number(b[1]) \in Injection(wk[b[1]].batch, 1 .. X_PAGE)
  BY <1>1 DEF Uncharged, Asking
<1>3. h \in [Uncharged -> Numbered]
  BY <1>2 DEF Injection
<1>4. ASSUME NEW b \in Uncharged, NEW c \in Uncharged, h[b] = h[c]
      PROVE  b = c
  <2>1. b[1] = c[1] /\ number(b[1])[b[2]] = number(b[1])[c[2]]
    BY <1>4
  <2>2. b[2] = c[2]
    BY <1>2, <2>1 DEF Injection, IsInjective
  <2> QED  BY <1>2, <2>1, <2>2
<1>5. h \in Injection(Uncharged, Numbered)
  BY <1>3, <1>4 DEF Injection, IsInjective
<1>6. IsFiniteSet(1 .. X_PAGE) /\ Cardinality(1 .. X_PAGE) = X_PAGE
  BY FS_Interval
<1>7. IsFiniteSet(Numbered) /\ Cardinality(Numbered) = Cardinality(Asking) * X_PAGE
  BY <1>6, SetsFinite, FS_Product
<1> HIDE DEF h, Numbered
<1>8. Cardinality(Uncharged) <= Cardinality(Numbered)
  BY <1>5, <1>7, FS_Injection
<1> QED  BY <1>7, <1>8, SetsFinite

(* The steps that have nothing to do with a request to X. *)
Unasking(w) ==
    /\ \A d : Same(ReadsKey(d))
    /\ wk[w].at # "charge" /\ wk'[w].at \notin {"request", "charge"}
    /\ billed' = billed
    /\ IsSpent(spent') /\ spent'.kills = spent.kills /\ spent'.lost = spent.lost

(* One other string is put, or none. *)
LEMMA ReadsSame ==
    ASSUME \/ kv'.str = kv.str
           \/ \E k, e : kv'.str = With(kv.str, k, e) /\ \A d : k # ReadsKey(d)
    PROVE  \A d : Same(ReadsKey(d))
<1>1. CASE kv'.str = kv.str
  BY <1>1 DEF Same
<1>2. CASE \E k, e : kv'.str = With(kv.str, k, e) /\ \A d : k # ReadsKey(d)
  <2>1. PICK k, e : kv'.str = With(kv.str, k, e) /\ \A d : k # ReadsKey(d)
    BY <1>2
  <2> QED  BY <2>1 DEF With, Same
<1> QED  BY <1>1, <1>2

LEMMA UnaskingSteps ==
    ASSUME Claims, ReadsTyped, NEW w \in Worker,
           \/ StartCycle(w) \/ SkipSource(w) \/ Collect(w) \/ RefuseSignIn(w)
           \/ Lookup(w) \/ Claim(w) \/ CountAuthor(w) \/ ExpireAuthor(w)
           \/ WriteBody(w) \/ WriteIndex(w) \/ Trim(w) \/ Report(w)
    PROVE  Moves(w) /\ Unasking(w)
<1> USE DEF At
<1>0. Shapes /\ IsTable(kv) /\ IsLocal(wk[w]) /\ wk = [v \in Worker |-> wk[v]]
  BY DEF Claims, Shapes
<1>1. Moves(w)
  BY <1>0, QuietSteps, ClaimIs, CountIs, ExpireAuthorIs, WriteBodyIs DEF Quiet
<1>2. /\ billed' = billed /\ IsSpent(spent')
      /\ spent'.kills = spent.kills /\ spent'.lost = spent.lost
  BY DEF ReadsTyped, IsSpent, StartCycle, SkipSource, Collect, RefuseSignIn, FailSource,
         Lookup, Claim, CountAuthor, ExpireAuthor, WriteBody, WriteIndex, Trim, Report
<1>3. wk[w].at # "charge"
  BY DEF StartCycle, SkipSource, Collect, RefuseSignIn, Lookup, Claim,
         CountAuthor, ExpireAuthor, WriteBody, WriteIndex, Trim, Report
<1> SUFFICES Unasking(w)
  BY <1>1
<1>4. ASSUME NextSource(w), wk[w].at # "idle", kv'.str = kv.str
      PROVE  Unasking(w)
  <2>1. wk'[w].at \notin {"request", "charge"}
    BY <1>0, <1>1, <1>4, NextIs DEF Moves
  <2> QED  BY <1>2, <1>3, <1>4, <2>1, ReadsSame DEF Unasking
<1>5. ASSUME NEW net, NEW state, kv' = SetSource(kv, net, state), NextSource(w),
             wk[w].at # "idle"
      PROVE  Unasking(w)
  BY <1>0, <1>4, <1>5, SourceSet
<1>6. ASSUME wk'[w].at \notin {"request", "charge"},
             \/ kv'.str = kv.str
             \/ \E k, e : kv'.str = With(kv.str, k, e) /\ \A d : k # ReadsKey(d)
      PROVE  Unasking(w)
  BY <1>2, <1>3, <1>6, ReadsSame DEF Unasking
<1>7. CASE SkipSource(w) \/ RefuseSignIn(w) \/ Report(w)
  BY <1>7, <1>5 DEF SkipSource, RefuseSignIn, FailSource, Report
<1>8. CASE StartCycle(w)
  <2>1. PICK n, ids :
            /\ n \in DOMAIN Snapshots
            /\ kv' = Put(kv, <<"topics">>, ids, 0, now)
            /\ wk' = [wk EXCEPT ![w] = [Idle EXCEPT !.at = "source", !.began = now,
                                                    !.plan = n, !.todo = Networks]]
    BY <1>8 DEF StartCycle
  <2>2. wk'[w].at = "source"
    BY <1>0, <2>1 DEF Idle
  <2>3. kv'.str = With(kv.str, <<"topics">>, [v |-> ids, exp |-> 0])
    BY <1>0, <2>1, PutIs DEF Until
  <2> QED  BY <1>6, <2>2, <2>3, KeysDiffer
<1>9. CASE Collect(w)
  <2>1. CASE FailSource(w)
    BY <1>5, <1>9, <2>1 DEF FailSource, Collect
  <2>2. CASE ~FailSource(w)
    <3>1. PICK f : wk' = [wk EXCEPT ![w].at = "lookup", ![w].found = f]
      BY <1>9, <2>2 DEF Collect
    <3>2. wk'[w].at = "lookup"
      BY <1>0, <3>1 DEF IsLocal
    <3>3. kv' = kv
      BY <1>9, <2>2 DEF Collect
    <3> QED  BY <1>6, <3>2, <3>3
  <2> QED  BY <2>1, <2>2
<1>10. CASE Lookup(w)
  <2>1. PICK b : wk' = [wk EXCEPT ![w].at = "claim", ![w].found = {}, ![w].batch = b]
    BY <1>10 DEF Lookup
  <2>2. wk'[w].at = "claim"
    BY <1>0, <2>1 DEF IsLocal
  <2> QED  BY <1>6, <1>10, <2>2 DEF Lookup
<1>11. CASE Claim(w)
  <2>1. CASE ~Quiet(w)
    <3>1. PICK p : /\ kv'.str = With(kv.str, Fingerprint(ById(p.id)),
                                     [v |-> p.id, exp |-> now + MAX_AGE])
                   /\ wk'[w].at = "count"
      BY <1>0, <1>11, <2>1, ClaimIs
    <3> QED  BY <1>6, <3>1, KeysDiffer
  <2>2. CASE Quiet(w)
    <3>1. PICK p : LET fp == Fingerprint(ById(p.id))
                   IN  IF IsFree(kv, fp, now)
                       THEN /\ kv' = Put(kv, fp, p.id, MAX_AGE, now)
                            /\ wk' = [wk EXCEPT ![w].at = "count", ![w].batch = @ \ {p}, ![w].cur = p]
                       ELSE /\ wk' = [wk EXCEPT ![w].batch = @ \ {p}]
                            /\ UNCHANGED kv
      BY <1>11 DEF Claim
    <3>2. CASE IsFree(kv, Fingerprint(ById(p.id)), now)
      <4>1. wk'[w].at = "count"
        BY <1>0, <3>1, <3>2 DEF IsLocal
      <4> QED  BY <2>2, <4>1 DEF Quiet
    <3>3. CASE ~IsFree(kv, Fingerprint(ById(p.id)), now)
      <4>1. wk'[w].at = wk[w].at /\ kv' = kv
        BY <1>0, <3>1, <3>3 DEF IsLocal
      <4>2. wk[w].at = "claim"
        BY <1>11 DEF Claim
      <4> QED  BY <1>6, <4>1, <4>2
    <3> QED  BY <3>2, <3>3
  <2> QED  BY <2>1, <2>2
<1>12. CASE CountAuthor(w)
  <2> DEFINE key == AuthorOf(wk[w].cur.id)
  <2>1. /\ \E e : kv'.str = With(kv.str, key, e)
        /\ wk'[w].at \in {"expire", "claim"}
    BY <1>0, <1>12, CountIs
  <2>2. \A d : key # ReadsKey(d)
    BY KeysDiffer DEF AuthorOf
  <2> HIDE DEF key
  <2> QED  BY <1>6, <2>1, <2>2
<1>13. CASE ExpireAuthor(w)
  <2> DEFINE key == AuthorOf(wk[w].cur.id)
  <2>1. (\E e : kv'.str = With(kv.str, key, e)) /\ wk'[w].at = "claim"
    BY <1>0, <1>13, ExpireAuthorIs
  <2>2. \A d : key # ReadsKey(d)
    BY KeysDiffer DEF AuthorOf
  <2> HIDE DEF key
  <2> QED  BY <1>6, <2>1, <2>2
<1>14. CASE WriteBody(w)
  <2>1. PICK i : /\ kv'.str = With(kv.str, PostKey(i), [v |-> i, exp |-> now + MAX_AGE])
                 /\ wk'[w].at = "index"
    BY <1>0, <1>14, WriteBodyIs
  <2> QED  BY <1>6, <2>1, KeysDiffer
<1>15. CASE WriteIndex(w)
  <2>1. wk'[w].at = "write" /\ kv'.str = kv.str
    BY <1>0, <1>15, StringsStay DEF WriteIndex, IsLocal
  <2> QED  BY <1>6, <2>1
<1>16. CASE Trim(w)
  <2>1. wk'[w].at = wk[w].at /\ wk[w].at = "write" /\ kv'.str = kv.str
    BY <1>0, <1>16, StringsStay DEF Trim, IsLocal
  <2> QED  BY <1>6, <2>1
<1> QED  BY <1>7, <1>8, <1>9, <1>10, <1>11, <1>12, <1>13, <1>14, <1>15, <1>16

LEMMA BudgetIs ==
    ASSUME NEW n \in Nat
    PROVE  /\ Budget(n) \in Nat /\ Budget(n) = Budget(0) + X_PAGE * n
           /\ Budget(n) <= Budget(n + 1) /\ Budget(0) = X_BUDGET + X_PAGE * Cardinality(Worker) - X_PAGE
<1> DEFINE c == Cardinality(Worker) - 1
<1>1. c \in Nat
  BY SetsFinite
<1>2. Cardinality(Worker) = c + 1
  BY SetsFinite
<1> HIDE DEF c
<1>3. X_PAGE * c \in Nat /\ X_PAGE * n \in Nat
  BY <1>1
<1>4. X_PAGE * (c + n) = X_PAGE * c + X_PAGE * n
  BY <1>1
<1>5. X_PAGE * (c + (n + 1)) = X_PAGE * c + X_PAGE * n + X_PAGE
  BY <1>1
<1>6. X_PAGE * (c + 0) = X_PAGE * c /\ X_PAGE * (c + 1) = X_PAGE * c + X_PAGE
  BY <1>1
<1>7. \A m : Budget(m) = X_BUDGET + X_PAGE * (c + m)
  BY DEF Budget, c
<1> QED  BY <1>2, <1>3, <1>4, <1>5, <1>6, <1>7

LEMMA DayNow == Shapes => Day \in Nat /\ Day * DAY <= now /\ now < Day * DAY + DAY
BY DayIs DEF Shapes, Day

LEMMA UsedIs ==
    ASSUME Claims, ReadsTyped
    PROVE  SpentKey = ReadsKey(Day) /\ Used \in Nat /\ (SpentKey \in DOMAIN kv.str => Live(kv, SpentKey, now))
<1>1. SpentKey = ReadsKey(Day) /\ Day \in Nat
  BY DayNow DEF SpentKey, ReadsKey, Day, Claims
<1>2. Used \in Nat
  BY <1>1 DEF Used, ReadsTyped
<1>3. ASSUME SpentKey \in DOMAIN kv.str
      PROVE  Live(kv, SpentKey, now)
  <2>1. kv.str[SpentKey].exp >= Day * DAY + DAY /\ kv.str[SpentKey].exp \in Nat
    BY <1>1, <1>3 DEF ReadsTyped, Claims, Shapes, IsItem
  <2>2. now < Day * DAY + DAY /\ now \in Nat /\ Day * DAY + DAY \in Nat
    BY <1>1, DayNow DEF Claims, Shapes
  <2>3. ~(kv.str[SpentKey].exp < now)
    BY <2>1, <2>2
  <2> QED  BY <1>3, <2>3 DEF Live, Expired
<1> QED  BY <1>1, <1>2, <1>3

(* The day goes on, and its counter. *)
LEMMA SameDay ==
    ASSUME Claims, ReadsTyped, now' = now, Same(SpentKey)
    PROVE  Day' = Day /\ Used' = Used /\ SpentKey' = SpentKey
BY DEF Day, Used, SpentKey, Same

(* What holds of the other days while the day lasts. *)
LEMMA OthersKept ==
    ASSUME OtherDays, Day' = Day, Missed \in Nat, Missed' = Missed \/ Missed' = Missed + 1,
           Day \in Nat, billed \in [0 .. MaxNow \div DAY -> Nat],
           \A d \in DOMAIN billed : d # Day => billed'[d] = billed[d], DOMAIN billed' = DOMAIN billed
    PROVE  OtherDays'
<1>1. Budget(Missed) <= Budget(Missed') /\ Budget(Missed) \in Nat /\ Budget(Missed') \in Nat
  <2>1. ASSUME NEW n \in Nat
        PROVE  Budget(n) \in Nat /\ Budget(n) <= Budget(n + 1)
    BY BudgetIs
  <2>2. Missed + 1 \in Nat
    OBVIOUS
  <2>3. Budget(Missed) \in Nat /\ Budget(Missed) <= Budget(Missed + 1) /\ Budget(Missed + 1) \in Nat
    BY <2>1, <2>2
  <2>4. Budget(Missed') \in {Budget(Missed), Budget(Missed + 1)}
    OBVIOUS
  <2> QED  BY <2>3, <2>4
<1>2. ASSUME NEW d \in DOMAIN billed'
      PROVE  (d < Day => billed'[d] <= Budget(Missed')) /\ (d > Day => billed'[d] = 0)
  <2>0. d \in Int /\ billed[d] \in Nat
    OBVIOUS
  <2>1. CASE d < Day
    BY <1>1, <2>0, <2>1 DEF OtherDays
  <2>2. CASE d > Day
    BY <2>0, <2>2 DEF OtherDays
  <2>3. CASE d = Day
    BY <2>3
  <2> QED  BY <2>0, <2>1, <2>2, <2>3
<1> QED  BY <1>2 DEF OtherDays, Budget

(* Fewer environments ask. *)
LEMMA FewerAsk ==
    ASSUME UsedWithin, Used' = Used, Used \in Nat, Asking' \in SUBSET Asking
    PROVE  UsedWithin'
<1>1. Cardinality(Asking') <= Cardinality(Asking) /\ Cardinality(Asking') \in Nat
  BY SetsFinite, FS_Subset, FS_CardinalityType
<1>2. X_PAGE * Cardinality(Asking') <= X_PAGE * Cardinality(Asking)
      /\ X_PAGE * Cardinality(Asking') \in Int /\ X_PAGE * Cardinality(Asking) \in Int
  BY <1>1, Scaled, SetsFinite
<1>3. Budget(0)' = Budget(0) /\ Budget(0) \in Nat
  BY BudgetIs DEF Budget
<1> QED  BY <1>2, <1>3 DEF UsedWithin

LEMMA ReadsKept ==
    ASSUME Claims, Reads, NEW w \in Worker, Moves(w), Unasking(w)
    PROVE  Reads'
<1>1. now' = now /\ Day \in Nat /\ SpentKey = ReadsKey(Day)
  BY UsedIs, DayNow DEF Moves, Claims, Reads
<1>2. Day' = Day /\ Used' = Used /\ Used \in Nat
  BY <1>1, SameDay, UsedIs DEF Unasking, Reads
<1>3. ReadsTyped'
  <2>1. ASSUME NEW v \in Worker, wk'[v].at = "charge"
        PROVE  wk'[v].batch \subseteq Raw /\ Cardinality(wk'[v].batch) <= X_PAGE
    BY <2>1 DEF Moves, Unasking, Reads, ReadsTyped
  <2>2. ASSUME NEW d \in Nat, ReadsKey(d) \in DOMAIN kv'.str
        PROVE  d <= Day' /\ kv'.str[ReadsKey(d)].v \in Nat
               /\ kv'.str[ReadsKey(d)].exp >= d * DAY + DAY
    BY <1>2, <2>2 DEF Unasking, Same, Reads, ReadsTyped
  <2>3. billed' \in [0 .. MaxNow \div DAY -> Nat]
    BY DEF Unasking, Reads, ReadsTyped
  <2>4. IsSpent(spent')
    BY DEF Unasking
  <2> QED  BY <2>1, <2>2, <2>3, <2>4 DEF ReadsTyped
<1>4. Asking' \in SUBSET Asking /\ Uncharged' = Uncharged
  BY DEF Asking, Uncharged, Moves, Unasking
<1>5. UsedWithin'
  BY <1>2, <1>4, FewerAsk DEF Reads
<1>6. Missed' = Missed /\ Missed \in Nat
  BY MissedIs DEF Missed, Unasking, Reads
<1>7. BilledToday'
  BY <1>2, <1>4, <1>6 DEF BilledToday, Unasking, Reads
<1>8. OtherDays'
  BY <1>1, <1>2, <1>6, OthersKept DEF Unasking, Reads, ReadsTyped
<1> QED  BY <1>3, <1>5, <1>7, <1>8 DEF Reads

(* What an environment that asks adds to the billed, or takes from it. *)
LEMMA BatchOut ==
    ASSUME NEW w \in Worker, NEW page \in SUBSET Raw, NEW U, NEW V, U \cup ({w} \X page) = V,
           IsFiniteSet(V), U \cap ({w} \X page) = {}
    PROVE  Cardinality(V) = Cardinality(U) + Cardinality(page)
           /\ Cardinality(U) \in Nat /\ Cardinality(page) \in Nat
<1>1. IsFiniteSet(page) /\ IsFiniteSet({w}) /\ Cardinality({w}) = 1
  BY FS_Subset, FS_Singleton
<1>2. Cardinality(page) \in Nat
  BY <1>1, FS_CardinalityType
<1>3. IsFiniteSet({w} \X page) /\ Cardinality({w} \X page) = Cardinality(page)
  <2>1. IsFiniteSet({w} \X page) /\ Cardinality({w} \X page) = Cardinality({w}) * Cardinality(page)
    BY <1>1, FS_Product
  <2> QED  BY <1>1, <1>2, <2>1
<1>4. IsFiniteSet(U) /\ Cardinality(U) \in Nat
  BY FS_Subset, FS_CardinalityType
<1>5. Cardinality(U \cup ({w} \X page)) = Cardinality(U) + Cardinality({w} \X page)
                                            - Cardinality(U \cap ({w} \X page))
  BY <1>3, <1>4, FS_Union
<1>6. Cardinality(U \cap ({w} \X page)) = 0
  BY FS_EmptySet
<1>7. Cardinality(V) = Cardinality(U) + Cardinality({w} \X page) - 0
  BY <1>5, <1>6
<1> QED  BY <1>2, <1>3, <1>4, <1>7

(* The budget is read: what is asked for then is within it. *)
LEMMA CheckReads ==
    ASSUME Claims, Reads, NEW w \in Worker, CheckBudget(w)
    PROVE  Reads'
<1>0. Moves(w) /\ Shapes
  BY QuietSteps DEF Quiet, Claims
<1>1. /\ now' = now /\ kv' = kv /\ billed' = billed /\ spent' = spent
      /\ wk[w].at \in {"source", "budget"}
  BY DEF CheckBudget, AskingX, At
<1>2. wk'[w].at = IF Asks(w) = <<>> \/ Remaining < X_PAGE THEN "lookup" ELSE "request"
  <2> DEFINE place == IF Asks(w) = <<>> \/ Remaining < X_PAGE THEN "lookup" ELSE "request"
  <2>1. wk' = [wk EXCEPT ![w].asks = Asks(w), ![w].at = place]
    BY DEF CheckBudget
  <2> HIDE DEF place
  <2>2. wk'[w].at = place
    <3>1. IsLocal(wk[w]) /\ wk = [v \in Worker |-> wk[v]]
      BY <1>0 DEF Shapes
    <3>2. wk'[w] = [wk[w] EXCEPT !.asks = Asks(w), !.at = place]
      BY <2>1, <3>1
    <3> QED  BY <3>1, <3>2 DEF IsLocal
  <2> QED  BY <2>2 DEF place
<1>3. /\ Day' = Day /\ Used' = Used /\ Used \in Nat /\ Day \in Nat
      /\ SpentKey = ReadsKey(Day) /\ (SpentKey \in DOMAIN kv.str => Live(kv, SpentKey, now))
  BY <1>1, UsedIs, DayNow, SameDay DEF Reads, Claims, Same
<1>4. CASE wk'[w].at = "lookup"
  <2>1. Unasking(w)
    BY <1>1, <1>4 DEF Unasking, Same, Reads, ReadsTyped
  <2> QED  BY <1>0, <2>1, ReadsKept
<1>5. CASE wk'[w].at = "request"
  <2>1. Asking' = Asking \cup {w} /\ Asking' \in SUBSET Worker
    BY <1>0, <1>5 DEF Asking, Moves
  <2>2. Uncharged' = Uncharged
    BY <1>0, <1>1, <1>5 DEF Uncharged, Moves
  <2>3. Used + X_PAGE <= X_BUDGET
    <3>1. ~(Remaining < X_PAGE)
      BY <1>2, <1>5
    <3>2. Get(kv, SpentKey, now) = Used
      BY <1>3 DEF Get, Used, Live, Nothing
    <3> QED  BY <1>3, <3>1, <3>2 DEF Remaining
  <2>4. UsedWithin'
    <3>1. Cardinality(Asking') <= Cardinality(Worker) /\ Cardinality(Asking') \in Nat
          /\ Cardinality(Worker) \in Nat
      BY <2>1, FS_Subset, FS_CardinalityType
    <3>2. X_PAGE * Cardinality(Asking') <= X_PAGE * Cardinality(Worker)
          /\ X_PAGE * Cardinality(Asking') \in Int /\ X_PAGE * Cardinality(Worker) \in Int
      BY <3>1, Scaled
    <3>3. Budget(0)' = Budget(0) /\ Budget(0) = X_BUDGET + X_PAGE * Cardinality(Worker) - X_PAGE
      BY BudgetIs DEF Budget
    <3>4. X_PAGE <= X_BUDGET
      BY <1>3, <2>3
    <3> QED  BY <1>3, <2>3, <3>2, <3>3, <3>4 DEF UsedWithin
  <2>5. ReadsTyped'
    <3>1. \A v \in Worker : wk'[v].at = "charge" =>
            wk'[v].batch \subseteq Raw /\ Cardinality(wk'[v].batch) <= X_PAGE
      BY <1>0, <1>5 DEF Moves, Reads, ReadsTyped
    <3> QED  BY <1>1, <1>3, <3>1 DEF Reads, ReadsTyped
  <2>6. BilledToday' /\ OtherDays'
    BY <1>1, <1>3, <2>2 DEF BilledToday, OtherDays, Reads, Budget, Missed
  <2> QED  BY <2>4, <2>5, <2>6 DEF Reads
<1> QED  BY <1>2, <1>4, <1>5

(* A page that X answers with, and what its bill adds. *)
LEMMA BillIsPage ==
    ASSUME NEW w, NEW page \in Pages(w)
    PROVE  page \in SUBSET Raw /\ Cardinality(page) <= X_PAGE /\ Cardinality(page) \in Nat
<1> DEFINE tweets == Search("x", Head(wk[w].asks))
<1>1. tweets \in SUBSET Raw
  BY DEF Search
<1>2. Cardinality(tweets) \in Nat
  BY <1>1, FS_Subset, FS_CardinalityType
<1>3. page \in SUBSET tweets
      /\ Cardinality(page) = IF Cardinality(tweets) < X_PAGE THEN Cardinality(tweets) ELSE X_PAGE
  BY DEF Pages
<1> QED  BY <1>1, <1>2, <1>3

LEMMA BilledIs ==
    ASSUME ReadsTyped, NEW n \in Nat, billed' = [billed EXCEPT ![Day] = @ + n]
    PROVE  /\ billed \in [0 .. MaxNow \div DAY -> Nat] /\ billed' \in [0 .. MaxNow \div DAY -> Nat]
           /\ \A d \in DOMAIN billed : d # Day => billed'[d] = billed[d]
           /\ Day \in DOMAIN billed => billed'[Day] = billed[Day] + n
<1>1. billed \in [0 .. MaxNow \div DAY -> Nat]
  BY DEF ReadsTyped
<1>2. Day \in DOMAIN billed => billed[Day] + n \in Nat
  BY <1>1
<1> QED  BY <1>1, <1>2

(* The answer: a page is billed, and waits for its charge. *)
LEMMA RequestReads ==
    ASSUME Claims, Reads, NEW w \in Worker, Request(w)
    PROVE  Reads'
<1> USE DEF At
<1>0. Moves(w) /\ Shapes
  BY QuietSteps DEF Quiet, Claims
<1>1. now' = now /\ kv' = kv /\ spent' = spent /\ wk[w].at = "request"
  BY DEF Request
<1>2. PICK page \in Pages(w) :
        /\ billed' = [billed EXCEPT ![Day] = @ + Cardinality(page)]
        /\ wk' = [wk EXCEPT ![w].at = "charge", ![w].batch = page]
  BY DEF Request, Day
<1>3. page \in SUBSET Raw /\ Cardinality(page) <= X_PAGE /\ Cardinality(page) \in Nat
  BY BillIsPage
<1>4. wk'[w].at = "charge" /\ wk'[w].batch = page
  <2>1. IsLocal(wk[w]) /\ wk = [v \in Worker |-> wk[v]]
    BY <1>0 DEF Shapes
  <2>2. wk'[w] = [wk[w] EXCEPT !.at = "charge", !.batch = page]
    BY <1>2, <2>1
  <2> QED  BY <2>1, <2>2 DEF IsLocal
<1>5. /\ Day' = Day /\ Used' = Used /\ Used \in Nat /\ Day \in Nat
  BY <1>1, UsedIs, DayNow, SameDay DEF Reads, Claims, Same
<1>6. Asking' = Asking
  BY <1>0, <1>1, <1>4 DEF Asking, Moves
<1>7. /\ Uncharged \cup ({w} \X page) = Uncharged' /\ Uncharged \cap ({w} \X page) = {}
      /\ IsFiniteSet(Uncharged')
  <2>1. Uncharged \cup ({w} \X page) = Uncharged'
    BY <1>0, <1>1, <1>3, <1>4 DEF Uncharged, Moves
  <2>2. Uncharged \cap ({w} \X page) = {}
    BY <1>1 DEF Uncharged
  <2>3. IsFiniteSet(Worker \X Raw) /\ Uncharged' \in SUBSET (Worker \X Raw)
    BY FS_Product DEF Uncharged
  <2> QED  BY <2>1, <2>2, <2>3, FS_Subset
<1>8. Cardinality(Uncharged') = Cardinality(Uncharged) + Cardinality(page)
      /\ Cardinality(Uncharged) \in Nat
  BY <1>3, <1>7, BatchOut
<1>9. /\ billed \in [0 .. MaxNow \div DAY -> Nat] /\ billed' \in [0 .. MaxNow \div DAY -> Nat]
      /\ \A d \in DOMAIN billed : d # Day => billed'[d] = billed[d]
      /\ Day \in DOMAIN billed => billed'[Day] = billed[Day] + Cardinality(page)
  BY <1>2, <1>3, BilledIs DEF Reads
<1>10. ReadsTyped'
  <2>1. \A v \in Worker : wk'[v].at = "charge" =>
            wk'[v].batch \subseteq Raw /\ Cardinality(wk'[v].batch) <= X_PAGE
    BY <1>0, <1>3, <1>4 DEF Moves, Reads, ReadsTyped
  <2> QED  BY <1>1, <1>5, <1>9, <2>1 DEF Reads, ReadsTyped
<1>11. UsedWithin'
  BY <1>5, <1>6 DEF UsedWithin, Reads, Budget
<1>12. BilledToday'
  <2>1. X_PAGE * Missed \in Int
    BY MissedIs DEF Reads
  <2> SUFFICES ASSUME Day \in DOMAIN billed
               PROVE  billed'[Day] <= Used + Cardinality(Uncharged') + X_PAGE * Missed
    BY <1>1, <1>5, <1>9 DEF BilledToday, Missed
  <2>2. billed[Day] <= Used + Cardinality(Uncharged) + X_PAGE * Missed /\ billed[Day] \in Nat
    BY <1>9 DEF BilledToday, Reads
  <2>3. billed'[Day] = billed[Day] + Cardinality(page)
    BY <1>9
  <2> QED  BY <1>3, <1>5, <1>8, <2>1, <2>2, <2>3
<1>13. OtherDays'
  BY <1>1, <1>5, <1>9, OthersKept, MissedIs DEF Reads, Missed
<1> QED  BY <1>10, <1>11, <1>12, <1>13 DEF Reads

(* The charge: what was billed leaves the hands and enters the counter. *)
LEMMA ChargeReads ==
    ASSUME Claims, Reads, NEW w \in Worker, Charge(w)
    PROVE  Reads'
<1> USE DEF At
<1>0. Moves(w) /\ Shapes
  BY QuietSteps DEF Quiet, Claims
<1> DEFINE page == wk[w].batch
           e == [v |-> Counter(kv, SpentKey).v + Cardinality(page), exp |-> now + 3 * DAY]
<1>1. /\ now' = now /\ billed' = billed /\ spent' = spent /\ wk[w].at = "charge"
      /\ kv' = Expire(IncrBy(kv, SpentKey, Cardinality(page)), SpentKey, 3 * DAY, now)
  BY DEF Charge
<1>2. wk'[w].at = "budget"
  <2>1. IsLocal(wk[w]) /\ wk = [v \in Worker |-> wk[v]]
    BY <1>0 DEF Shapes
  <2>2. PICK f : wk' = [wk EXCEPT ![w].at = "budget", ![w].asks = Tail(@), ![w].batch = {},
                                  ![w].found = f]
    BY DEF Charge
  <2>3. wk'[w] = [wk[w] EXCEPT !.at = "budget", !.asks = Tail(@), !.batch = {}, !.found = f]
    BY <2>1, <2>2
  <2> QED  BY <2>1, <2>3 DEF IsLocal
<1>3. page \in SUBSET Raw /\ Cardinality(page) <= X_PAGE /\ Cardinality(page) \in Nat
  <2>1. page \in SUBSET Raw /\ Cardinality(page) <= X_PAGE
    BY <1>1 DEF Reads, ReadsTyped
  <2> QED  BY <2>1, FS_Subset, FS_CardinalityType
<1>4. kv'.str = With(kv.str, SpentKey, e)
  BY <1>0, <1>1, ChargeIs DEF Shapes
<1>5. /\ SpentKey = ReadsKey(Day) /\ Used \in Nat /\ Day \in Nat /\ now \in Nat
      /\ Day * DAY <= now
  BY <1>0, UsedIs, DayNow DEF Reads, Shapes
<1>6. Counter(kv, SpentKey).v = Used
  BY DEF Counter, Used
<1>7. Day' = Day /\ SpentKey' = SpentKey
  BY <1>1 DEF Day, SpentKey
<1>8. Used' = Used + Cardinality(page)
  BY <1>4, <1>6, <1>7 DEF Used, With
<1>9. \A k : k # SpentKey => Same(k)
  BY <1>4 DEF With, Same
<1>10. /\ Uncharged' \cup ({w} \X page) = Uncharged /\ Uncharged' \cap ({w} \X page) = {}
  <2>1. Uncharged' \cup ({w} \X page) = Uncharged
    BY <1>0, <1>1, <1>2, <1>3 DEF Uncharged, Moves
  <2>2. Uncharged' \cap ({w} \X page) = {}
    BY <1>2 DEF Uncharged
  <2> QED  BY <2>1, <2>2
<1>11. Cardinality(Uncharged) = Cardinality(Uncharged') + Cardinality(page)
       /\ Cardinality(Uncharged') \in Nat
  BY <1>3, <1>10, BatchOut, SetsFinite
<1>12. Asking' = Asking \ {w} /\ w \in Asking
  BY <1>0, <1>1, <1>2 DEF Asking, Moves
<1>13. Cardinality(Asking) = Cardinality(Asking') + 1 /\ Cardinality(Asking') \in Nat
  <2>1. IsFiniteSet(Asking) /\ Cardinality(Asking) \in Nat
    BY SetsFinite
  <2>2. IsFiniteSet(Asking') /\ Cardinality(Asking') = Cardinality(Asking) - 1
    BY <1>12, <2>1, FS_RemoveElement
  <2> QED  BY <2>1, <2>2, FS_CardinalityType
<1> HIDE DEF page
<1>14. UsedWithin'
  <2>1. X_PAGE * Cardinality(Asking) = X_PAGE * Cardinality(Asking') + X_PAGE
        /\ X_PAGE * Cardinality(Asking') \in Int
    <3> DEFINE n == Cardinality(Asking')
    <3>1. Cardinality(Asking) = n + 1 /\ n \in Int
      BY <1>13
    <3> HIDE DEF n
    <3>2. X_PAGE * (n + 1) = X_PAGE * n + X_PAGE /\ X_PAGE * n \in Int
      BY <3>1, Scaled
    <3> QED  BY <3>1, <3>2 DEF n
  <2>2. Budget(0)' = Budget(0) /\ Budget(0) \in Nat
    BY BudgetIs DEF Budget
  <2>3. Used + X_PAGE * Cardinality(Asking) <= Budget(0) /\ X_PAGE <= X_BUDGET
    BY <1>12 DEF UsedWithin, Reads
  <2> QED  BY <1>3, <1>5, <1>8, <2>1, <2>2, <2>3 DEF UsedWithin
<1>15. BilledToday'
  <2> SUFFICES ASSUME Day \in DOMAIN billed
               PROVE  billed[Day] <= Used' + Cardinality(Uncharged') + X_PAGE * Missed
    BY <1>1, <1>7 DEF BilledToday, Missed
  <2>1. billed[Day] <= Used + Cardinality(Uncharged) + X_PAGE * Missed
    BY DEF BilledToday, Reads
  <2>2. billed[Day] \in Nat /\ X_PAGE * Missed \in Int
    BY MissedIs DEF Reads, ReadsTyped
  <2> QED  BY <1>3, <1>5, <1>8, <1>11, <2>1, <2>2
<1>16. OtherDays'
  BY <1>1, <1>7 DEF OtherDays, Reads, Budget, Missed
<1>17. ReadsTyped'
  <2>1. \A v \in Worker : wk'[v].at = "charge" =>
            wk'[v].batch \subseteq Raw /\ Cardinality(wk'[v].batch) <= X_PAGE
    BY <1>0, <1>2 DEF Moves, Reads, ReadsTyped
  <2>2. ASSUME NEW d \in Nat, ReadsKey(d) \in DOMAIN kv'.str
        PROVE  d <= Day' /\ kv'.str[ReadsKey(d)].v \in Nat
               /\ kv'.str[ReadsKey(d)].exp >= d * DAY + DAY
    <3>1. CASE ReadsKey(d) = SpentKey
      <4>1. d = Day
        BY <1>5, <3>1, KeysDiffer
      <4>2. kv'.str[SpentKey] = e
        BY <1>4 DEF With
      <4>3. e.v \in Nat /\ e.exp = now + 3 * DAY
        BY <1>3, <1>5, <1>6
      <4>4. now + 3 * DAY >= Day * DAY + DAY
        BY <1>5
      <4> QED  BY <1>5, <1>7, <3>1, <4>1, <4>2, <4>3, <4>4
    <3>2. CASE ReadsKey(d) # SpentKey
      BY <1>7, <1>9, <2>2, <3>2 DEF Same, Reads, ReadsTyped
    <3> QED  BY <3>1, <3>2
  <2> QED  BY <1>1, <2>1, <2>2 DEF Reads, ReadsTyped
<1> QED  BY <1>14, <1>15, <1>16, <1>17 DEF Reads

(* A kill between a request and its charge loses a page of the count. *)
LEMMA KillReads ==
    ASSUME Claims, Reads, NEW w \in Worker, Kill(w)
    PROVE  Reads'
<1> USE DEF At
<1>0. Moves(w) /\ Shapes
  BY QuietSteps DEF Quiet, Claims
<1>1. /\ now' = now /\ kv' = kv /\ billed' = billed /\ spent' = [spent EXCEPT !.kills = @ + 1]
      /\ wk'[w].at = "idle"
  BY <1>0 DEF Kill, Shapes, Idle
<1>2. IsSpent(spent') /\ Missed \in Nat /\ Missed' = Missed + 1
  <2>1. IsSpent(spent)
    BY DEF Reads, ReadsTyped
  <2>2. spent'.kills = spent.kills + 1 /\ spent'.lost = spent.lost
    BY <1>1, <2>1 DEF IsSpent
  <2>3. IsSpent(spent')
    BY <1>1, <2>1 DEF IsSpent
  <2> QED  BY <2>1, <2>2, <2>3 DEF IsSpent, Missed
<1>3. /\ Day' = Day /\ Used' = Used /\ Used \in Nat /\ Day \in Nat
  BY <1>1, UsedIs, DayNow, SameDay DEF Reads, Claims, Same
<1>4. Asking' \in SUBSET Asking /\ Uncharged' \in SUBSET Uncharged
  BY <1>0, <1>1 DEF Asking, Uncharged, Moves
<1>5. Cardinality(Uncharged) <= Cardinality(Uncharged') + X_PAGE /\ Cardinality(Uncharged') \in Nat
  <2>1. CASE wk[w].at # "charge"
    <3>1. Uncharged' = Uncharged
      BY <1>0, <1>1, <2>1 DEF Uncharged, Moves
    <3> QED  BY <3>1, SetsFinite
  <2>2. CASE wk[w].at = "charge"
    <3> DEFINE page == wk[w].batch
    <3>1. page \in SUBSET Raw /\ Cardinality(page) <= X_PAGE
      BY <2>2 DEF Reads, ReadsTyped
    <3>2. Uncharged' \cup ({w} \X page) = Uncharged
      BY <1>0, <1>1, <2>2, <3>1 DEF Uncharged, Moves
    <3>3. Uncharged' \cap ({w} \X page) = {}
      BY <1>1 DEF Uncharged
    <3> HIDE DEF page
    <3>4. Cardinality(Uncharged) = Cardinality(Uncharged') + Cardinality(page)
          /\ Cardinality(Uncharged') \in Nat /\ Cardinality(page) \in Nat
      BY <3>1, <3>2, <3>3, BatchOut, SetsFinite
    <3> QED  BY <3>1, <3>4
  <2> QED  BY <2>1, <2>2
<1>6. UsedWithin'
  BY <1>3, <1>4, FewerAsk DEF Reads
<1>7. BilledToday'
  <2> SUFFICES ASSUME Day \in DOMAIN billed
               PROVE  billed[Day] <= Used + Cardinality(Uncharged') + X_PAGE * Missed'
    BY <1>1, <1>3 DEF BilledToday
  <2>1. billed[Day] <= Used + Cardinality(Uncharged) + X_PAGE * Missed
    BY DEF BilledToday, Reads
  <2>2. billed[Day] \in Nat /\ X_PAGE * Missed \in Int
    BY MissedIs DEF Reads, ReadsTyped
  <2>3. X_PAGE * Missed' = X_PAGE * Missed + X_PAGE
    BY <1>2, Scaled
  <2> QED  BY <1>3, <1>5, <2>1, <2>2, <2>3, SetsFinite
<1>8. OtherDays'
  BY <1>1, <1>2, <1>3, OthersKept DEF Reads, ReadsTyped
<1>9. ReadsTyped'
  <2>1. \A v \in Worker : wk'[v].at = "charge" =>
            wk'[v].batch \subseteq Raw /\ Cardinality(wk'[v].batch) <= X_PAGE
    BY <1>0, <1>1 DEF Moves, Reads, ReadsTyped
  <2> QED  BY <1>1, <1>2, <1>3, <2>1 DEF Reads, ReadsTyped
<1> QED  BY <1>6, <1>7, <1>8, <1>9 DEF Reads

(* A refused request costs nothing; one whose answer is lost loses a page  *)
(* of the count.                                                           *)
LEMMA FailReads ==
    ASSUME Claims, Reads, NEW w \in Worker, FailRequest(w)
    PROVE  Reads'
<1> USE DEF At
<1>0. Moves(w) /\ Shapes
  BY QuietSteps DEF Quiet, Claims
<1>1. /\ now' = now /\ wk[w].at = "request" /\ kv'.str = kv.str
      /\ wk'[w].at \in {"idle", "source"}
  <2>1. IsTable(kv') /\ kv'.str = kv.str
    BY <1>0, SourceSet DEF FailRequest, FailSource
  <2> QED  BY <1>0, <2>1, NextIs DEF FailRequest, FailSource
<1>2. IsSpent(spent) /\ Missed \in Nat
  BY MissedIs DEF Reads, ReadsTyped
<1>3. CASE billed' = billed /\ spent' = [spent EXCEPT !.failures = @ + 1]
  <2>1. Unasking(w)
    BY <1>1, <1>2, <1>3 DEF Unasking, IsSpent, Same
  <2> QED  BY <1>0, <2>1, ReadsKept
<1>4. CASE /\ spent' = [spent EXCEPT !.failures = @ + 1, !.lost = @ + 1]
           /\ \E page \in Pages(w) : billed' = [billed EXCEPT ![Day] = @ + Cardinality(page)]
  <2>1. PICK page \in Pages(w) : billed' = [billed EXCEPT ![Day] = @ + Cardinality(page)]
    BY <1>4
  <2>2. Cardinality(page) <= X_PAGE /\ Cardinality(page) \in Nat
    BY BillIsPage
  <2>3. /\ billed \in [0 .. MaxNow \div DAY -> Nat] /\ billed' \in [0 .. MaxNow \div DAY -> Nat]
        /\ \A d \in DOMAIN billed : d # Day => billed'[d] = billed[d]
        /\ Day \in DOMAIN billed => billed'[Day] = billed[Day] + Cardinality(page)
    BY <2>1, <2>2, BilledIs DEF Reads
  <2>4. IsSpent(spent') /\ Missed' = Missed + 1
    <3>1. spent' = [spent EXCEPT !.failures = @ + 1, !.lost = @ + 1]
      BY <1>4
    <3>2. /\ spent = [cycles |-> spent.cycles, kills |-> spent.kills,
                      failures |-> spent.failures, lost |-> spent.lost]
          /\ spent.kills \in Nat /\ spent.lost \in Nat
      BY <1>2 DEF IsSpent
    <3>3. spent' = [cycles |-> spent.cycles, kills |-> spent.kills,
                    failures |-> spent.failures + 1, lost |-> spent.lost + 1]
      BY <3>1, <3>2
    <3>4. spent'.kills = spent.kills /\ spent'.lost = spent.lost + 1 /\ IsSpent(spent')
      BY <3>2, <3>3 DEF IsSpent
    <3> QED  BY <3>2, <3>4 DEF Missed
  <2>5. /\ Day' = Day /\ Used' = Used /\ Used \in Nat /\ Day \in Nat
    BY <1>1, UsedIs, DayNow, SameDay DEF Reads, Claims, Same
  <2>6. Asking' \in SUBSET Asking /\ Uncharged' = Uncharged
    BY <1>0, <1>1 DEF Asking, Uncharged, Moves
  <2>7. UsedWithin'
    BY <2>5, <2>6, FewerAsk DEF Reads
  <2>8. BilledToday'
    <3> SUFFICES ASSUME Day \in DOMAIN billed
                 PROVE  billed'[Day] <= Used + Cardinality(Uncharged) + X_PAGE * Missed'
      BY <2>3, <2>5, <2>6 DEF BilledToday
    <3>1. billed[Day] <= Used + Cardinality(Uncharged) + X_PAGE * Missed /\ billed[Day] \in Nat
      BY <2>3 DEF BilledToday, Reads
    <3>2. X_PAGE * Missed' = X_PAGE * Missed + X_PAGE /\ X_PAGE * Missed \in Int
      BY <1>2, <2>4, Scaled
    <3> QED  BY <2>2, <2>3, <2>5, <3>1, <3>2, SetsFinite
  <2>9. OtherDays'
    BY <1>2, <2>3, <2>4, <2>5, OthersKept DEF Reads
  <2>10. ReadsTyped'
    <3>1. \A v \in Worker : wk'[v].at = "charge" =>
            wk'[v].batch \subseteq Raw /\ Cardinality(wk'[v].batch) <= X_PAGE
      BY <1>0, <1>1 DEF Moves, Reads, ReadsTyped
    <3> QED  BY <1>1, <2>3, <2>4, <2>5, <3>1 DEF Reads, ReadsTyped
  <2> QED  BY <2>7, <2>8, <2>9, <2>10 DEF Reads
<1> QED  BY <1>3, <1>4 DEF FailRequest, Day

(* With a day ends what could be billed on it.  A request may go on into   *)
(* the next day, whose budget then is a page at least.                     *)
LEMMA TickReads ==
    ASSUME Claims, Reads, Tick, Shapes'
    PROVE  Reads'
<1>1. /\ now' = now + 1 /\ kv' = kv /\ wk' = wk /\ billed' = billed /\ spent' = spent
  BY DEF Tick
<1>2. Asking' = Asking /\ Uncharged' = Uncharged /\ Missed' = Missed
  BY <1>1 DEF Asking, Uncharged, Missed
<1>3. /\ Cardinality(Uncharged) \in Nat /\ Cardinality(Asking) \in Nat
      /\ Cardinality(Uncharged) <= X_PAGE * Cardinality(Asking)
      /\ X_PAGE * Cardinality(Asking) \in Int
      /\ X_PAGE * Cardinality(Asking) <= X_PAGE * Cardinality(Worker)
  BY SetsFinite, UnchargedIsPages, Scaled DEF Reads
<1>4. Day \in Nat /\ Day' \in Nat /\ Day <= Day'
  <2>1. Day \in Nat /\ Day * DAY <= now
    BY DayNow DEF Claims
  <2>2. Day' \in Nat /\ now' < Day' * DAY + DAY
    BY DayIs DEF Shapes, Day
  <2>3. now \in Nat
    BY DEF Claims, Shapes
  <2>4. Day' < Day => Day' * DAY + DAY <= Day * DAY
    <3> DEFINE p == Day'
               q == Day
    <3>1. p \in Int /\ q \in Int
      BY <2>1, <2>2
    <3> HIDE DEF p, q
    <3>2. p < q => p * DAY + DAY <= q * DAY
      BY <3>1, Scaled
    <3> QED  BY <3>2 DEF p, q
  <2> DEFINE p == Day * DAY
             q == Day' * DAY
  <2>5. p \in Int /\ q \in Int
    BY <2>1, <2>2
  <2>6. p <= now /\ now + 1 < q + DAY /\ (Day' < Day => q + DAY <= p)
    BY <1>1, <2>1, <2>2, <2>4
  <2> HIDE DEF p, q
  <2>7. ~(Day' < Day)
    BY <2>3, <2>5, <2>6
  <2> QED  BY <2>1, <2>2, <2>7
<1>5. /\ SpentKey = ReadsKey(Day) /\ SpentKey' = ReadsKey(Day') /\ Used \in Nat
  BY <1>4, UsedIs DEF Reads, SpentKey, ReadsKey, Day
<1>6. /\ Missed \in Nat /\ X_PAGE * Missed \in Nat
      /\ billed \in [0 .. MaxNow \div DAY -> Nat]
  BY MissedIs DEF Reads, ReadsTyped
<1>7. ReadsTyped'
  <2>1. ASSUME NEW d \in Nat, ReadsKey(d) \in DOMAIN kv'.str
        PROVE  d <= Day' /\ kv'.str[ReadsKey(d)].v \in Nat
               /\ kv'.str[ReadsKey(d)].exp >= d * DAY + DAY
    <3>1. ReadsKey(d) \in DOMAIN kv.str
      BY <1>1, <2>1
    <3>2. d <= Day /\ kv.str[ReadsKey(d)].v \in Nat
          /\ kv.str[ReadsKey(d)].exp >= d * DAY + DAY
      BY <2>1, <3>1 DEF Reads, ReadsTyped
    <3> QED  BY <1>1, <1>4, <3>2
  <2> QED  BY <1>1, <2>1 DEF Reads, ReadsTyped
<1>8. /\ Budget(0) \in Nat /\ Budget(Missed) = Budget(0) + X_PAGE * Missed
      /\ Budget(0) = X_BUDGET + X_PAGE * Cardinality(Worker) - X_PAGE
  BY <1>6, BudgetIs
<1>9. Used + Cardinality(Uncharged) <= Budget(0)
  <2>1. Used + X_PAGE * Cardinality(Asking) <= Budget(0)
    BY DEF Reads, UsedWithin
  <2> QED  BY <1>3, <1>5, <1>8, <2>1
<1>10. Day \in DOMAIN billed => billed[Day] <= Used + Cardinality(Uncharged) + X_PAGE * Missed
  BY DEF Reads, BilledToday
<1>11. CASE Day' = Day
  <2>1. Used' = Used
    BY <1>1, <1>5, <1>11 DEF Used
  <2>2. UsedWithin'
    BY <1>2, <2>1 DEF UsedWithin, Budget, Reads
  <2>3. BilledToday'
    BY <1>1, <1>2, <1>10, <1>11, <2>1 DEF BilledToday
  <2>4. OtherDays'
    BY <1>1, <1>2, <1>11 DEF OtherDays, Reads, Budget
  <2> QED  BY <1>7, <2>2, <2>3, <2>4 DEF Reads
<1>12. CASE Day' > Day
  <2>1. Used' = 0
    <3>1. SpentKey' \notin DOMAIN kv.str
      BY <1>4, <1>5, <1>12 DEF Reads, ReadsTyped
    <3> QED  BY <1>1, <3>1 DEF Used
  <2>2. UsedWithin'
    <3>1. CASE Asking = {}
      <4>1. X_PAGE * Cardinality(Asking) = 0
        BY <3>1, FS_EmptySet
      <4> QED  BY <1>2, <1>8, <2>1, <3>1, <4>1 DEF UsedWithin, Budget
    <3>2. CASE Asking # {}
      <4>1. X_PAGE <= X_BUDGET /\ X_PAGE * Cardinality(Worker) \in Int
        BY <3>2, Scaled, SetsFinite DEF Reads, UsedWithin
      <4>2. 0 + X_PAGE * Cardinality(Asking) <= Budget(0)
        BY <1>3, <1>8, <4>1
      <4> QED  BY <1>2, <2>1, <4>1, <4>2 DEF UsedWithin, Budget
    <3> QED  BY <3>1, <3>2
  <2>3. ASSUME NEW d \in DOMAIN billed
        PROVE  /\ d < Day' => billed[d] <= Budget(Missed)
               /\ d >= Day' => billed[d] = 0
    <3>1. d \in Int /\ billed[d] \in Nat
      BY <1>6
    <3>2. CASE d < Day
      BY <1>4, <3>1, <3>2 DEF Reads, OtherDays
    <3>3. CASE d = Day
      <4>1. billed[d] <= Used + Cardinality(Uncharged) + X_PAGE * Missed
        BY <1>10, <3>3
      <4>2. billed[d] <= Budget(Missed)
        BY <1>3, <1>5, <1>6, <1>8, <1>9, <3>1, <4>1
      <4> QED  BY <1>4, <1>12, <3>1, <3>3, <4>2
    <3>4. CASE d > Day
      BY <1>6, <1>8, <3>1, <3>4 DEF Reads, OtherDays
    <3> QED  BY <1>4, <3>1, <3>2, <3>3, <3>4
  <2>4. BilledToday'
    BY <1>1, <1>2, <1>3, <1>4, <1>6, <2>1, <2>3 DEF BilledToday
  <2>5. OtherDays'
    <3>1. ASSUME NEW d \in DOMAIN billed'
          PROVE  /\ d < Day' => billed'[d] <= Budget(Missed')
                 /\ d > Day' => billed'[d] = 0
      <4>1. d \in Int /\ d \in DOMAIN billed
        BY <1>1, <1>6
      <4> QED  BY <1>1, <1>2, <1>4, <2>3, <4>1
    <3> QED  BY <3>1 DEF OtherDays, Budget
  <2> QED  BY <1>7, <2>2, <2>4, <2>5 DEF Reads
<1> QED  BY <1>4, <1>11, <1>12

(* The counter of the day has not expired, so no sweep removes it. *)
LEMMA SweepReads ==
    ASSUME Claims, Reads, Sweep, Shapes'
    PROVE  Reads'
<1> DEFINE ks == {k \in DOMAIN kv.str : Expired(kv, k, now)}
<1>1. /\ now' = now /\ wk' = wk /\ kv' = Swept(kv, ks) /\ billed' = billed /\ spent' = spent
  BY DEF Sweep
<1>2. /\ DOMAIN kv'.str = DOMAIN kv.str \ ks
      /\ \A k \in DOMAIN kv'.str : kv'.str[k] = kv.str[k]
  BY <1>1, SweptIs DEF Claims, Shapes
<1>3. SpentKey \in DOMAIN kv.str => SpentKey \notin ks
  BY UsedIs DEF Reads, Live
<1> HIDE DEF ks
<1>4. Same(SpentKey)
  BY <1>2, <1>3 DEF Same
<1>5. Day' = Day /\ Used' = Used
  BY <1>1, <1>4, SameDay DEF Reads
<1>6. ReadsTyped'
  <2>1. ASSUME NEW d \in Nat, ReadsKey(d) \in DOMAIN kv'.str
        PROVE  d <= Day' /\ kv'.str[ReadsKey(d)].v \in Nat
               /\ kv'.str[ReadsKey(d)].exp >= d * DAY + DAY
    BY <1>2, <1>5, <2>1 DEF Reads, ReadsTyped
  <2> QED  BY <1>1, <2>1 DEF Reads, ReadsTyped
<1>7. Asking' = Asking /\ Uncharged' = Uncharged
  BY <1>1 DEF Asking, Uncharged
<1>8. UsedWithin' /\ BilledToday' /\ OtherDays'
  BY <1>1, <1>5, <1>7 DEF UsedWithin, BilledToday, OtherDays, Budget, Missed, Reads
<1> QED  BY <1>6, <1>8 DEF Reads

LEMMA InitReads == Init => Reads
<1> SUFFICES ASSUME Init PROVE Reads
  OBVIOUS
<1>1. /\ DOMAIN kv.str = {} /\ \A w \in Worker : wk[w].at = "idle"
      /\ now = 1 /\ billed = [d \in 0 .. MaxNow \div DAY |-> 0]
      /\ spent = [cycles |-> 0, kills |-> 0, failures |-> 0, lost |-> 0]
  BY DEF Init, Empty, Idle
<1>2. Asking = {} /\ Uncharged = {} /\ Used = 0
  BY <1>1 DEF Asking, Uncharged, Used
<1>3. Cardinality(Asking) = 0 /\ Cardinality(Uncharged) = 0
  BY <1>2, FS_EmptySet
<1>4. ReadsTyped
  BY <1>1 DEF ReadsTyped, IsSpent
<1>5. Budget(0) \in Nat /\ Missed = 0
  BY <1>1, BudgetIs DEF Missed
<1>6. UsedWithin
  BY <1>2, <1>3, <1>5 DEF UsedWithin
<1>7. BilledToday
  BY <1>1, <1>2, <1>3, <1>5 DEF BilledToday
<1>8. OtherDays
  BY <1>1, <1>5 DEF OtherDays
<1> QED  BY <1>4, <1>6, <1>7, <1>8 DEF Reads

LEMMA NextReads == Claims /\ Reads /\ [Next]_vars => Reads'
<1> SUFFICES ASSUME Claims, Reads, [Next]_vars PROVE Reads'
  OBVIOUS
<1>0. Shapes'
  BY NextClaims DEF Claims
<1>1. CASE UNCHANGED <<now, kv, wk, billed, spent>>
  BY <1>1 DEF Reads, ReadsTyped, UsedWithin, BilledToday, OtherDays, Day, Used, SpentKey,
              Asking, Uncharged, Budget, Missed
<1>2. ASSUME NEW w \in Worker, Cycle(w) \/ Kill(w)
      PROVE  Reads'
  <2>1. CASE CheckBudget(w) \/ Request(w) \/ Charge(w) \/ FailRequest(w) \/ Kill(w)
    BY <2>1, CheckReads, RequestReads, ChargeReads, FailReads, KillReads
  <2>2. CASE \/ StartCycle(w) \/ SkipSource(w) \/ Collect(w) \/ RefuseSignIn(w)
             \/ Lookup(w) \/ Claim(w) \/ CountAuthor(w) \/ ExpireAuthor(w)
             \/ WriteBody(w) \/ WriteIndex(w) \/ Trim(w) \/ Report(w)
    <3>1. Moves(w) /\ Unasking(w)
      BY <2>2, UnaskingSteps DEF Reads
    <3> QED  BY <3>1, ReadsKept
  <2> QED  BY <1>2, <2>1, <2>2 DEF Cycle
<1>3. CASE Tick
  BY <1>0, <1>3, TickReads
<1>4. CASE Sweep
  BY <1>0, <1>4, SweepReads
<1> QED  BY <1>1, <1>2, <1>3, <1>4 DEF Next, vars, OpenFeed, ReadChunk, Answer

(* X bills no more than the budget of a day, but for a page of each        *)
(* further environment, of each kill and of each answer that was lost, for *)
(* every budget, page size and number of environments.                     *)
THEOREM WithinBudget == Spec => []ReadsWithinBudget
<1>1. Claims /\ Reads => ReadsWithinBudget
  <2> SUFFICES ASSUME Claims, Reads PROVE ReadsWithinBudget
    OBVIOUS
  <2>0. Budget(Missed) = X_BUDGET + X_PAGE * (Cardinality(Worker) - 1 + spent.kills + spent.lost)
    <3>1. Cardinality(Worker) \in Nat
      BY SetsFinite
    <3>2. spent.kills \in Nat /\ spent.lost \in Nat
      BY DEF Reads, ReadsTyped, IsSpent
    <3>3. \A c, k, m \in Nat : c - 1 + (k + m) = c - 1 + k + m
      OBVIOUS
    <3> QED  BY <3>1, <3>2, <3>3 DEF Budget, Missed
  <2> SUFFICES ASSUME NEW d \in DOMAIN billed PROVE billed[d] <= Budget(Missed)
    BY <2>0 DEF ReadsWithinBudget
  <2>1. /\ d \in Int /\ Day \in Nat /\ billed[d] \in Nat /\ Missed \in Nat
    BY DayNow, MissedIs DEF Claims, Reads, ReadsTyped
  <2>2. Budget(Missed) \in Nat /\ Budget(Missed) = Budget(0) + X_PAGE * Missed
    BY <2>1, BudgetIs
  <2>3. CASE d < Day
    BY <2>3 DEF Reads, OtherDays
  <2>4. CASE d > Day
    BY <2>2, <2>4 DEF Reads, OtherDays
  <2>5. CASE d = Day
    <3>1. billed[d] <= Used + Cardinality(Uncharged) + X_PAGE * Missed
      BY <2>5 DEF Reads, BilledToday
    <3>2. Cardinality(Uncharged) <= X_PAGE * Cardinality(Asking)
      BY UnchargedIsPages DEF Reads
    <3>3. Used + X_PAGE * Cardinality(Asking) <= Budget(0)
      BY DEF Reads, UsedWithin
    <3>4. /\ Used \in Int /\ Cardinality(Uncharged) \in Int /\ X_PAGE * Cardinality(Asking) \in Int
          /\ X_PAGE * Missed \in Int
      BY <2>1, UsedIs, SetsFinite, Scaled DEF Reads
    <3>5. Budget(0) \in Int
      BY BudgetIs
    <3> QED  BY <2>1, <2>2, <3>1, <3>2, <3>3, <3>4, <3>5
  <2> QED  BY <2>1, <2>3, <2>4, <2>5
<1> QED  BY <1>1, InitClaims, NextClaims, InitReads, NextReads, PTL DEF Spec

-----------------------------------------------------------------------------
(* A reader that follows next reaches everything.  An entry is written once*)
(* while its post is kept: its fingerprint stays claimed until the post is *)
(* older than that.  So an index only loses entries a reader has to find,  *)
(* from its lower end, and what the reader has left to read is below the   *)
(* time it has come to.                                                    *)

USE IndexConstants

Entry(i) == <<ById(i).ts, i>>
Entries == {Entry(i) : i \in PostIds}

(* What a cycle is going to store, is storing, and has in hand at all. *)
Pile(l) ==
    IF l.at \in {"claim", "count", "expire"} THEN l.out
    ELSE IF l.at \in {"write", "index"} THEN l.batch ELSE {}
Taken(l) == Ids(Pile(l)) \cup IF l.at \in {"count", "index"} THEN {l.cur.id} ELSE {}
Carried(l) ==
    Ids(l.found) \cup Ids(l.out) \cup (IF l.at = "charge" THEN {} ELSE Ids(l.batch))
    \cup (IF l.at \in {"count", "expire", "index"} THEN {l.cur.id} ELSE {})

Fresh(i, began) == i \in PostIds /\ ById(i).ts \in 1 .. now /\ began <= ById(i).ts + MAX_AGE
Alone(l) ==
    /\ \A p, q \in Pile(l) : p.id = q.id => p = q
    /\ l.at \in {"count", "index"} => l.cur.id \notin Ids(Pile(l))
Hands(l) ==
    /\ \A i \in Carried(l) : Fresh(i, l.began)
    /\ l.at = "charge" => \A p \in l.batch : p \in Raw /\ p.ts <= now
    /\ l.at \in {"idle", "source"} => l.found = {} /\ l.batch = {}
    /\ Alone(l)
(* Its claim, not before the time from, lasts as long as the post is kept. *)
Claimed(i, from) ==
    \E e \in (from + MAX_AGE) .. (now + MAX_AGE) : e >= ById(i).ts + MAX_AGE /\ Owned(i, e)
InHands ==
    /\ \A w \in Worker : Hands(wk[w])
    /\ \A w \in Worker : \A i \in Taken(wk[w]) : Claimed(i, wk[w].began)
    /\ \A v, w \in Worker : v # w => Taken(wk[v]) \cap Taken(wk[w]) = {}

(* While a post is kept, no cycle has it in hand or takes it again. *)
IsKept(i) == now <= ById(i).ts + MAX_AGE
Never(i) ==
    LET fp == Fingerprint(ById(i))
    IN  fp \in DOMAIN kv.str /\ kv.str[fp].v = i /\ kv.str[fp].exp >= ById(i).ts + MAX_AGE
Settled(i) ==
    i \in PostIds /\ (IsKept(i) => Never(i) /\ \A w \in Worker : i \notin Taken(wk[w]))
Indexed ==
    \A z \in DOMAIN kv.zset : \A e \in kv.zset[z] :
        e = Entry(e[2]) /\ e[1] \in Nat \ {0} /\ Settled(e[2])

(* Sequences of entries, newest first. *)
Pairs == (Nat \ {0}) \X Nat
Descends(s) == \A a, b \in DOMAIN s : a < b => Above(s[a], s[b])
Follows(s, t) == \A a \in DOMAIN s : \A b \in DOMAIN t : Above(s[a], t[b])
DownTo(s, high) == \A a \in DOMAIN s : s[a][1] >= high
In(i, s) == \E a \in DOMAIN s : s[a][2] = i

(* The cursor passes over a post with the time of a newer one. *)
TwinAbove(i) ==
    \E e \in ZSet(kv, IndexKey(reader.req)) : e[1] = ById(i).ts /\ e[2] > i
(* What the reader has still to read, or gave up. *)
Ahead(i) ==
    \/ reader.at = "page" /\ (reader.high = 0 \/ ById(i).ts < reader.high)
    \/ /\ reader.at = "answer"
       /\ IF Len(reader.out) = LIMIT THEN ById(i).ts < reader.out[LIMIT][1] ELSE reader.cut
    \/ reader.at = "done" /\ reader.cut

IsReader(r) ==
    r = [ at |-> r.at, req |-> r.req, before |-> r.before, high |-> r.high, out |-> r.out,
          scanned |-> r.scanned, seen |-> r.seen, had |-> r.had, cut |-> r.cut ]
ReaderShape ==
    /\ IsReader(reader)
    /\ reader.at \in {"no", "page", "answer", "done"}
    /\ reader.seen \in Seq(Pairs) /\ reader.out \in Seq(Pairs) /\ reader.high \in Nat
InOrder ==
    /\ Descends(reader.seen) /\ Descends(reader.out) /\ Follows(reader.seen, reader.out)
    /\ reader.at = "page" =>
         /\ Len(reader.out) < LIMIT
         /\ reader.high = 0 => reader.seen = <<>> /\ reader.out = <<>>
         /\ DownTo(reader.seen, reader.high) /\ DownTo(reader.out, reader.high)
    /\ reader.at = "answer" => Len(reader.out) <= LIMIT
    /\ reader.at = "done" => reader.out = <<>>
NothingLost ==
    \A i \in reader.had \cap Listed(reader.req) : IsKept(i) =>
        TwinAbove(i) \/ In(i, reader.seen) \/ In(i, reader.out) \/ Ahead(i)
HadSettled == \A i \in reader.had : Settled(i)
Reading == ReaderShape /\ InOrder /\ NothingLost /\ HadSettled

-----------------------------------------------------------------------------
(* Sets of entries, newest first. *)

Over(E, e) == {d \in E : Above(d, e)}
RankIn(E, e) == Cardinality(Over(E, e))

(* The numbers of the elements above are all the numbers below the size.   *)
LEMMA AboveRanks ==
    ASSUME NEW E, IsFiniteSet(E), E \subseteq Pairs
    PROVE  /\ Cardinality(E) \in Nat
           /\ \A e \in E : RankIn(E, e) \in 0 .. Cardinality(E) - 1
           /\ \A d, e \in E : Above(d, e) <=> RankIn(E, d) < RankIn(E, e)
           /\ \A k \in 0 .. Cardinality(E) - 1 : \E e \in E : RankIn(E, e) = k
<1> DEFINE n == Cardinality(E)
           over == [e \in E |-> Over(E, e)]
           rank == [e \in E |-> Cardinality(over[e])]
<1>0. /\ over \in [E -> SUBSET E]
      /\ \A x \in E : x \notin over[x]
      /\ \A x, y \in E : x \in over[y] => over[x] \subseteq over[y]
      /\ \A x, y \in E : x = y \/ x \in over[y] \/ y \in over[x]
  <2>1. \A x, y \in E : x = y \/ Above(x, y) \/ Above(y, x)
    BY DEF Pairs, Above
  <2>2. \A x, y, z \in E : Above(x, y) /\ Above(y, z) => Above(x, z)
    BY DEF Pairs, Above
  <2>3. \A x \in E : ~Above(x, x)
    BY DEF Pairs, Above
  <2> QED  BY <2>1, <2>2, <2>3 DEF Over
<1>z. \A x, y \in E : x \in over[y] <=> Above(x, y)
  BY DEF Over
<1>1. n \in Nat
  BY FS_CardinalityType
<1> HIDE DEF over
<1>2. \A x \in E : IsFiniteSet(over[x]) /\ rank[x] \in Nat
  BY <1>0, FS_Subset, FS_CardinalityType
<1>3. \A x \in E : rank[x] \in 0 .. n - 1
  <2> SUFFICES ASSUME NEW x \in E PROVE rank[x] \in 0 .. n - 1
    OBVIOUS
  <2>1. over[x] \in SUBSET E /\ over[x] # E
    BY <1>0
  <2>2. rank[x] <= n /\ rank[x] # n
    BY <2>1, FS_Subset
  <2> QED  BY <1>1, <1>2, <2>2
<1>4. \A x, y \in E : x \in over[y] => rank[x] < rank[y]
  <2> SUFFICES ASSUME NEW x \in E, NEW y \in E, x \in over[y] PROVE rank[x] < rank[y]
    OBVIOUS
  <2>1. over[x] \in SUBSET over[y] /\ over[x] # over[y] /\ IsFiniteSet(over[y])
    BY <1>0, <1>2
  <2>2. rank[x] <= rank[y] /\ rank[x] # rank[y]
    BY <2>1, FS_Subset
  <2> QED  BY <1>2, <2>2
<1>a. \A x \in E : rank[x] = RankIn(E, x)
  BY DEF over, RankIn
<1>5. \A x, y \in E : rank[x] = rank[y] => x = y
  <2> HIDE DEF rank
  <2> QED  BY <1>0, <1>2, <1>4
<1>6. rank \in Injection(E, 0 .. n - 1)
  <2> HIDE DEF rank, n
  <2>1. rank \in [E -> 0 .. n - 1]
    BY <1>3 DEF rank
  <2> QED  BY <1>5, <2>1 DEF Injection, IsInjective
<1>7. IsFiniteSet(0 .. n - 1) /\ Cardinality(0 .. n - 1) = n
  <2> HIDE DEF rank, n
  <2>1. \A a, b \in Int : /\ IsFiniteSet(a .. b)
                          /\ Cardinality(a .. b) = IF a > b THEN 0 ELSE b - a + 1
    BY FS_Interval
  <2>2. 0 \in Int /\ n - 1 \in Int /\ (IF 0 > n - 1 THEN 0 ELSE (n - 1) - 0 + 1) = n
    BY <1>1
  <2> QED  BY <2>1, <2>2
<1>8. rank \in Surjection(E, 0 .. n - 1)
  <2> HIDE DEF rank
  <2> QED  BY <1>6, <1>7, FS_Injection
<1>9. \A k \in 0 .. n - 1 : \E x \in E : rank[x] = k
  <2> HIDE DEF rank
  <2> QED  BY <1>8 DEF Surjection
<1>10. \A x, y \in E : Above(x, y) <=> rank[x] < rank[y]
  <2> HIDE DEF rank
  <2> QED  BY <1>0, <1>2, <1>4, <1>z
<1> HIDE DEF rank
<1> QED  BY <1>1, <1>3, <1>9, <1>10, <1>a

(* A set of entries, newest first. *)
LEMMA NewestFirstIs ==
    ASSUME NEW E, IsFiniteSet(E), E \subseteq Pairs
    PROVE  /\ NewestFirst(E) \in Seq(E) /\ Descends(NewestFirst(E))
           /\ \A e \in E : \E k \in DOMAIN NewestFirst(E) : NewestFirst(E)[k] = e
<1> DEFINE n == Cardinality(E)
           rank == [e \in E |-> RankIn(E, e)]
           s == NewestFirst(E)
<1>r. \A x \in E : rank[x] = RankIn(E, x)
  OBVIOUS
<1>1. /\ n \in Nat
      /\ \A x \in E : rank[x] \in 0 .. n - 1
      /\ \A x, y \in E : Above(x, y) <=> rank[x] < rank[y]
      /\ \A k \in 0 .. n - 1 : \E x \in E : rank[x] = k
  <2> HIDE DEF rank
  <2> QED  BY <1>r, AboveRanks
<1>2. s = [k \in 1 .. n |-> CHOOSE e \in E : RankIn(E, e) = k - 1]
  BY DEF NewestFirst, RankIn, Over
<1> HIDE DEF n, rank, s
<1>3. \A k \in 1 .. n : s[k] \in E /\ rank[s[k]] = k - 1
  <2> SUFFICES ASSUME NEW k \in 1 .. n PROVE s[k] \in E /\ rank[s[k]] = k - 1
    OBVIOUS
  <2>1. k - 1 \in 0 .. n - 1
    BY <1>1
  <2>2. s[k] = CHOOSE e \in E : RankIn(E, e) = k - 1
    BY <1>2
  <2>3. \E e \in E : RankIn(E, e) = k - 1
    BY <1>1, <2>1, <1>r
  <2>4. s[k] \in E /\ RankIn(E, s[k]) = k - 1
    BY <2>2, <2>3
  <2> QED  BY <2>4, <1>r
<1>4. s \in [1 .. n -> E]
  BY <1>2, <1>3
<1>5. s \in Seq(E) /\ DOMAIN s = 1 .. n
  BY <1>1, <1>4
<1>6. Descends(s)
  <2> SUFFICES ASSUME NEW a \in 1 .. n, NEW b \in 1 .. n, a < b PROVE Above(s[a], s[b])
    BY <1>5 DEF Descends
  <2> QED  BY <1>1, <1>3
<1>7. \A e \in E : \E k \in 1 .. n : s[k] = e
  <2> SUFFICES ASSUME NEW e \in E PROVE \E k \in 1 .. n : s[k] = e
    OBVIOUS
  <2>1. rank[e] + 1 \in 1 .. n
    BY <1>1
  <2>2. rank[s[rank[e] + 1]] = rank[e] /\ s[rank[e] + 1] \in E
    BY <1>1, <1>3, <2>1
  <2>3. s[rank[e] + 1] = e
    <3>1. \A x, y \in E : x = y \/ Above(x, y) \/ Above(y, x)
      BY DEF Pairs, Above
    <3> QED  BY <1>1, <2>2, <3>1
  <2> QED  BY <2>1, <2>3
<1> QED  BY <1>5, <1>6, <1>7 DEF s

(* The first n of a sequence. *)
LEMMA FirstIs ==
    ASSUME NEW S, NEW s \in Seq(S), NEW n \in Nat
    PROVE  /\ First(s, n) \in Seq(S)
           /\ Len(First(s, n)) = (IF Len(s) < n THEN Len(s) ELSE n)
           /\ \A k \in 1 .. Len(First(s, n)) : First(s, n)[k] = s[k] /\ k \in DOMAIN s
BY DEF First

(* A page, or a chunk of an index: what is not in it comes after its last. *)
LEMMA ChunkIs ==
    ASSUME NEW E, IsFiniteSet(E), E \subseteq Pairs, NEW n \in Nat \ {0}
    PROVE  LET rows == First(NewestFirst(E), n)
           IN  /\ rows \in Seq(E) /\ Descends(rows) /\ Len(rows) <= n
               /\ \A e \in E : \/ \E k \in DOMAIN rows : rows[k] = e
                               \/ Len(rows) = n /\ Above(rows[n], e)
<1> DEFINE s == NewestFirst(E)
           rows == First(s, n)
<1>1. /\ s \in Seq(E) /\ Descends(s)
      /\ \A e \in E : \E k \in DOMAIN s : s[k] = e
  BY NewestFirstIs
<1> HIDE DEF s
<1>2. /\ rows \in Seq(E) /\ Len(rows) = (IF Len(s) < n THEN Len(s) ELSE n)
      /\ \A k \in 1 .. Len(rows) : rows[k] = s[k] /\ k \in DOMAIN s
  BY <1>1, FirstIs
<1> HIDE DEF rows
<1>3. Descends(rows)
  <2> SUFFICES ASSUME NEW a \in 1 .. Len(rows), NEW b \in 1 .. Len(rows), a < b
               PROVE  Above(rows[a], rows[b])
    BY <1>2 DEF Descends
  <2> QED  BY <1>1, <1>2 DEF Descends
<1>4. ASSUME NEW e \in E
      PROVE  (\E k \in DOMAIN rows : rows[k] = e) \/ (Len(rows) = n /\ Above(rows[n], e))
  <2>1. PICK k \in DOMAIN s : s[k] = e
    BY <1>1
  <2>2. CASE k <= Len(rows)
    BY <1>1, <1>2, <2>1, <2>2
  <2>3. CASE ~(k <= Len(rows))
    <3>1. Len(rows) = n /\ n < k /\ n \in DOMAIN s /\ rows[n] = s[n]
      BY <1>1, <1>2, <2>1, <2>3
    <3> QED  BY <1>1, <2>1, <3>1 DEF Descends
  <2> QED  BY <2>2, <2>3
<1>5. Len(rows) <= n
  BY <1>1, <1>2
<1> QED  BY <1>2, <1>3, <1>4, <1>5 DEF rows, s

-----------------------------------------------------------------------------
(* The indexes of the table. *)

(* The indexes that the calls on strings and hashes leave alone. *)
LEMMA IndexesStay ==
    ASSUME NEW t, IsTable(t)
    PROVE  /\ \A k, v, ex, at : Put(t, k, v, ex, at).zset = t.zset
           /\ \A k, n : IncrBy(t, k, n).zset = t.zset
           /\ \A k, ex, at : Expire(t, k, ex, at).zset = t.zset
           /\ \A h, f, v : HSet(t, h, f, v).zset = t.zset
           /\ \A ks : Swept(t, ks).zset = t.zset
<1>1. \A x : [t EXCEPT !.str = x].zset = t.zset /\ [t EXCEPT !.hash = x].zset = t.zset
  BY DEF IsTable
<1> QED  BY <1>1 DEF Put, IncrBy, Expire, HSet, Swept

(* Indexing a post adds its entry to its indexes. *)
LEMMA IndexAllIs ==
    ASSUME NEW t, IsTable(t), NEW p, NEW z
    PROVE  ZSet(IndexAll(t, p), z) =
                ZSet(t, z) \cup IF z \in Indexes(p) THEN {Entry(p.id)} ELSE {}
<1> DEFINE f == [y \in DOMAIN t.zset \cup Indexes(p) |->
                    ZSet(t, y) \cup IF y \in Indexes(p) THEN {Entry(p.id)} ELSE {}]
<1>1. IndexAll(t, p).zset = f
  BY DEF IndexAll, IsTable, Entry
<1>2. CASE z \in DOMAIN t.zset \cup Indexes(p)
  BY <1>1, <1>2 DEF ZSet
<1>3. CASE z \notin DOMAIN t.zset \cup Indexes(p)
  BY <1>1, <1>3 DEF ZSet
<1> QED  BY <1>2, <1>3

(* A trim leaves the newest of an index, and of those the recent ones. *)
LEMMA TrimAllIs ==
    ASSUME NEW t, IsTable(t), NEW ps, NEW z
    PROVE  \/ ZSet(TrimAll(t, ps), z) = ZSet(t, z)
           \/ ZSet(TrimAll(t, ps), z) =
                {e \in ZSet(t, z) : RankIn(ZSet(t, z), e) < KeepOf(z) /\ e[1] > now - MAX_AGE}
<1> DEFINE touched == UNION {Indexes(p) : p \in ps}
           trimmed(y) == ZSet(ZTrimScore(ZTrimRank(t, y, KeepOf(y)), y, now - MAX_AGE), y)
           f == [y \in DOMAIN t.zset |-> IF y \in touched THEN trimmed(y) ELSE t.zset[y]]
<1>1. TrimAll(t, ps).zset = f
  BY DEF TrimAll, IsTable
<1>2. ASSUME NEW s, IsTable(s), NEW y, NEW E
      PROVE  IsTable(ZPut(s, y, E)) /\ ZSet(ZPut(s, y, E), y) = E
  BY <1>2 DEF ZPut, ZSet, With, IsTable
<1>3. trimmed(z) = {e \in ZSet(t, z) : RankIn(ZSet(t, z), e) < KeepOf(z) /\ e[1] > now - MAX_AGE}
  <2> DEFINE top == {e \in ZSet(t, z) : RankIn(ZSet(t, z), e) < KeepOf(z)}
             s == ZPut(t, z, top)
  <2>1. ZTrimRank(t, z, KeepOf(z)) = s
    BY DEF ZTrimRank, RankIn, Over
  <2>2. IsTable(s) /\ ZSet(s, z) = top
    BY <1>2
  <2> HIDE DEF s, top
  <2>3. trimmed(z) = {e \in top : e[1] > now - MAX_AGE}
    BY <1>2, <2>1, <2>2 DEF ZTrimScore
  <2> QED  BY <2>3 DEF top
<1> HIDE DEF trimmed, touched
<1>4. CASE z \in DOMAIN t.zset
  BY <1>1, <1>3, <1>4 DEF ZSet
<1>5. CASE z \notin DOMAIN t.zset
  BY <1>1, <1>5 DEF ZSet
<1> QED  BY <1>4, <1>5

(* What an index may hold. *)
LEMMA IndexedIs ==
    ASSUME Indexed, NEW z
    PROVE  /\ \A e \in ZSet(kv, z) : e = Entry(e[2]) /\ e \in Pairs /\ Settled(e[2])
           /\ ZSet(kv, z) \subseteq Pairs /\ IsFiniteSet(ZSet(kv, z))
<1>1. \A e \in ZSet(kv, z) : e = Entry(e[2]) /\ e[1] \in Nat \ {0} /\ Settled(e[2])
  BY DEF Indexed, ZSet
<1>2. \A i \in PostIds : i \in Nat
  BY DEF PostIds
<1>3. \A e \in ZSet(kv, z) : e \in Pairs
  BY <1>1, <1>2 DEF Entry, Pairs, Settled
<1>4. IsFiniteSet(Entries)
  <2> DEFINE f == [i \in PostIds |-> Entry(i)]
  <2>1. f \in Surjection(PostIds, Entries)
    BY DEF Surjection, Entries
  <2> QED  BY <2>1, PostIdsFinite, FS_Surjection
<1>5. ZSet(kv, z) \subseteq Entries
  BY <1>1 DEF Entries, Settled
<1> QED  BY <1>1, <1>3, <1>4, <1>5, FS_Subset

(* In a finite index an entry above another has no more above it. *)
LEMMA RankGrows ==
    ASSUME NEW E, IsFiniteSet(E), E \subseteq Pairs, NEW d \in E, NEW e \in E, Above(d, e)
    PROVE  RankIn(E, d) \in Nat /\ RankIn(E, e) \in Nat /\ RankIn(E, d) < RankIn(E, e)
<1>1. /\ Cardinality(E) \in Nat
      /\ \A x \in E : RankIn(E, x) \in 0 .. Cardinality(E) - 1
      /\ \A x, y \in E : Above(x, y) <=> RankIn(E, x) < RankIn(E, y)
  BY AboveRanks
<1> QED  BY <1>1

(* An index only loses entries from its lower end, and gains the one of a  *)
(* post that was in hand and no longer is.                                 *)
Gains(e) ==
    \E w \in Worker : \E i \in Taken(wk[w]) :
        e = Entry(i) /\ \A v \in Worker : i \notin Taken(wk'[v])
Slips(z) ==
    /\ \A e \in ZSet(kv', z) : e \in ZSet(kv, z) \/ Gains(e)
    /\ \A d, e \in ZSet(kv, z) :
            e \in ZSet(kv', z) /\ d[1] = e[1] /\ d[2] > e[2] => d \in ZSet(kv', z)
IndexesSlip == \A z : Slips(z)

LEMMA SameSlip ==
    ASSUME kv'.zset = kv.zset
    PROVE  IndexesSlip
<1>1. \A z : ZSet(kv', z) = ZSet(kv, z)
  BY DEF ZSet
<1> QED  BY <1>1 DEF IndexesSlip, Slips

LEMMA TrimSlips ==
    ASSUME Shapes, Indexed, NEW w \in Worker, Trim(w)
    PROVE  IndexesSlip
<1> SUFFICES ASSUME NEW z PROVE Slips(z)
  BY DEF IndexesSlip
<1> DEFINE E == ZSet(kv, z)
<1>1. kv' = TrimAll(kv, wk[w].out) /\ IsTable(kv) /\ now \in Nat
  BY DEF Trim, Shapes
<1>2. IsFiniteSet(E) /\ E \subseteq Pairs
  BY IndexedIs
<1> HIDE DEF E
<1>3. CASE ZSet(kv', z) = E
  BY <1>3 DEF Slips, E
<1>4. CASE ZSet(kv', z) = {e \in E : RankIn(E, e) < KeepOf(z) /\ e[1] > now - MAX_AGE}
  <2>1. ASSUME NEW d \in E, NEW e \in E, e \in ZSet(kv', z), d[1] = e[1], d[2] > e[2]
        PROVE  d \in ZSet(kv', z)
    <3>1. Above(d, e)
      BY <2>1 DEF Above
    <3>2. RankIn(E, d) \in Nat /\ RankIn(E, e) \in Nat /\ RankIn(E, d) < RankIn(E, e)
      BY <1>2, <3>1, RankGrows
    <3>3. KeepOf(z) \in Nat
      BY DEF KeepOf
    <3> QED  BY <1>4, <2>1, <3>2, <3>3
  <2> QED  BY <1>4, <2>1 DEF Slips, E
<1>5. \/ ZSet(kv', z) = E
      \/ ZSet(kv', z) = {e \in E : RankIn(E, e) < KeepOf(z) /\ e[1] > now - MAX_AGE}
  BY <1>1, TrimAllIs DEF E
<1> QED  BY <1>3, <1>4, <1>5

-----------------------------------------------------------------------------
(* What a cycle has in hand. *)

NoHands(l) == l.at \in {"idle", "source"} /\ l.found = {} /\ l.batch = {} /\ l.out = {}

(* A post is the one of its id. *)
LEMMA PostById ==
    ASSUME NEW p \in Raw
    PROVE  p.id \in PostIds /\ ById(p.id) = p
<1>1. p.id \in PostIds
  BY DEF PostIds
<1>2. ById(p.id) = CHOOSE q \in Raw : q.id = p.id
  BY <1>1 DEF ById, Posts
<1>3. ById(p.id) \in Raw /\ ById(p.id).id = p.id
  BY <1>2
<1> QED  BY <1>1, <1>3

(* What a search finds and _keep keeps may be taken. *)
LEMMA KeptIsFresh ==
    ASSUME now \in Nat, NEW posts, \A p \in posts : p \in Raw /\ p.ts <= now, NEW w, NEW via,
           NEW began \in Nat, began <= now
    PROVE  \A f \in Keep(w, posts, via) : Fresh(f.id, began)
<1> SUFFICES ASSUME NEW f \in Keep(w, posts, via) PROVE Fresh(f.id, began)
  OBVIOUS
<1>1. PICK p \in posts : f.id = p.id /\ Kept(p, PlanOf(w), via, now)
  BY DEF Keep
<1>2. p \in Raw /\ p.ts <= now /\ p.ts \in Nat /\ p.ts # 0 /\ now - p.ts <= MAX_AGE
  BY <1>1 DEF Kept
<1>3. ById(f.id) = p /\ f.id \in PostIds
  BY <1>1, <1>2, PostById
<1> QED  BY <1>2, <1>3 DEF Fresh

LEMMA NoHandsIs ==
    ASSUME NEW l, NoHands(l)
    PROVE  Hands(l) /\ Taken(l) = {}
BY DEF NoHands, Hands, Carried, Alone, Taken, Pile, Ids

LEMMA NextNoHands ==
    ASSUME Shapes, NEW w \in Worker, NextSource(w)
    PROVE  NoHands(wk'[w])
<1> DEFINE l == IF Tail(wk[w].todo) = <<>> THEN Idle
                ELSE [Idle EXCEPT !.at = "source", !.todo = Tail(wk[w].todo),
                                  !.began = wk[w].began, !.plan = wk[w].plan]
<1>1. wk' = [wk EXCEPT ![w] = l]
  BY DEF NextSource
<1>2. NoHands(l)
  BY DEF NoHands, Idle
<1> HIDE DEF l
<1>3. wk'[w] = l
  BY <1>1 DEF Shapes
<1> QED  BY <1>2, <1>3

(* A step after which a cycle has no more to store, and only fresh posts.  *)
Keeps(w) ==
    /\ Hands(wk'[w]) /\ Taken(wk'[w]) \subseteq Taken(wk[w])
    /\ Taken(wk'[w]) = {} \/ wk'[w].began = wk[w].began

(* The steps before the store. *)
LEMMA EarlyKeeps ==
    ASSUME Shapes, NEW w \in Worker, Hands(wk[w]),
           \/ StartCycle(w) \/ SkipSource(w) \/ Collect(w) \/ RefuseSignIn(w)
           \/ CheckBudget(w) \/ Request(w) \/ Charge(w) \/ FailRequest(w)
           \/ Lookup(w) \/ Report(w) \/ Kill(w)
    PROVE  Keeps(w)
<1> USE DEF At
<1>0. /\ IsLocal(wk[w]) /\ now \in Nat /\ wk = [v \in Worker |-> wk[v]]
      /\ wk[w].at # "idle" => wk[w].began \in Nat /\ wk[w].began <= now
  BY DEF Shapes
<1>1. ASSUME NoHands(wk'[w]) PROVE Keeps(w)
  BY <1>1, NoHandsIs DEF Keeps
<1>2. CASE StartCycle(w)
  <2>1. PICK n : wk' = [wk EXCEPT ![w] = [Idle EXCEPT !.at = "source", !.began = now,
                                                    !.plan = n, !.todo = Networks]]
    BY <1>2 DEF StartCycle
  <2> DEFINE l == [Idle EXCEPT !.at = "source", !.began = now, !.plan = n, !.todo = Networks]
  <2>2. NoHands(l)
    BY DEF NoHands, Idle
  <2> HIDE DEF l
  <2>3. wk'[w] = l
    BY <1>0, <2>1 DEF l
  <2> QED  BY <1>1, <2>2, <2>3
<1>3. CASE SkipSource(w) \/ RefuseSignIn(w) \/ FailRequest(w) \/ Report(w)
  <2>1. NextSource(w)
    BY <1>3 DEF SkipSource, RefuseSignIn, FailRequest, Report, FailSource
  <2> QED  BY <1>1, <2>1, NextNoHands
<1>4. CASE Kill(w)
  <2>1. wk'[w] = Idle
    BY <1>0, <1>4 DEF Kill
  <2> QED  BY <1>1, <2>1 DEF NoHands, Idle
<1>5. CASE Collect(w)
  <2>1. CASE FailSource(w)
    BY <1>1, <2>1, NextNoHands DEF FailSource
  <2>2. CASE ~FailSource(w)
    <3>1. PICK asks : \E failed \in SUBSET DOMAIN asks :
            wk' = [wk EXCEPT ![w].at = "lookup",
                             ![w].found = UNION {Keep(w, Search(Source(w), asks[i]), asks[i][2]) :
                                                    i \in DOMAIN asks \ failed}]
      BY <1>5, <2>2 DEF Collect
    <3>2. PICK failed \in SUBSET DOMAIN asks :
            wk' = [wk EXCEPT ![w].at = "lookup",
                             ![w].found = UNION {Keep(w, Search(Source(w), asks[i]), asks[i][2]) :
                                                    i \in DOMAIN asks \ failed}]
      BY <3>1
    <3> DEFINE found == UNION {Keep(w, Search(Source(w), asks[i]), asks[i][2]) :
                                    i \in DOMAIN asks \ failed}
    <3>5. /\ wk[w].at = "source" /\ wk[w].batch = {} /\ wk[w].out = {}
          /\ wk[w].began \in Nat /\ wk[w].began <= now
      BY <1>0, <1>5 DEF Collect, Hands, Shapes, Early
    <3>3. ASSUME NEW i, NEW f \in Keep(w, Search(Source(w), asks[i]), asks[i][2])
          PROVE  Fresh(f.id, wk[w].began)
      <4>1. \A p \in Search(Source(w), asks[i]) : p \in Raw /\ p.ts <= now
        BY DEF Search
      <4> QED  BY <1>0, <3>5, <4>1, KeptIsFresh
    <3>4. \A f \in found : Fresh(f.id, wk[w].began)
      BY <3>3
    <3> HIDE DEF found
    <3>6. /\ wk'[w].at = "lookup" /\ wk'[w].found = found /\ wk'[w].began = wk[w].began
          /\ wk'[w].batch = {} /\ wk'[w].out = {}
      BY <1>0, <3>2, <3>5 DEF IsLocal, found
    <3> QED  BY <3>4, <3>6 DEF Keeps, Hands, Carried, Alone, Taken, Pile, Ids
  <2> QED  BY <2>1, <2>2
<1>6. CASE CheckBudget(w)
  <2>1. wk[w].at \in {"source", "budget"}
    BY <1>6 DEF CheckBudget, AskingX
  <2>2. /\ wk'[w].at \in {"lookup", "request"} /\ wk'[w].found = wk[w].found
        /\ wk'[w].batch = wk[w].batch /\ wk'[w].out = wk[w].out /\ wk'[w].began = wk[w].began
    BY <1>0, <1>6 DEF CheckBudget, IsLocal
  <2> QED  BY <2>1, <2>2 DEF Keeps, Hands, Carried, Alone, Taken, Pile, Ids
<1>7. CASE Request(w)
  <2>1. PICK page : /\ page \subseteq Search("x", Head(wk[w].asks))
                    /\ wk' = [wk EXCEPT ![w].at = "charge", ![w].batch = page]
    BY <1>7 DEF Request, Pages
  <2>2. /\ wk[w].at = "request" /\ wk'[w].at = "charge" /\ wk'[w].found = wk[w].found
        /\ wk'[w].batch = page /\ wk'[w].out = wk[w].out /\ wk'[w].began = wk[w].began
    BY <1>0, <1>7, <2>1 DEF Request, IsLocal
  <2>3. \A p \in page : p \in Raw /\ p.ts <= now
    BY <2>1 DEF Search
  <2> QED  BY <2>2, <2>3 DEF Keeps, Hands, Carried, Alone, Taken, Pile, Ids
<1>8. CASE Charge(w)
  <2> DEFINE kept == Keep(w, wk[w].batch, Head(wk[w].asks)[2])
  <2>1. wk[w].at = "charge"
    BY <1>8 DEF Charge
  <2>2. \A f \in kept : Fresh(f.id, wk[w].began)
    BY <1>0, <2>1, KeptIsFresh DEF Hands
  <2>3. wk' = [wk EXCEPT ![w].at = "budget", ![w].asks = Tail(@), ![w].batch = {},
                         ![w].found = @ \cup kept]
    BY <1>8 DEF Charge
  <2> HIDE DEF kept
  <2>4. /\ wk'[w].at = "budget" /\ wk'[w].found = wk[w].found \cup kept
        /\ wk'[w].began = wk[w].began
        /\ wk'[w].batch = {} /\ wk'[w].out = wk[w].out
    BY <1>0, <2>3 DEF IsLocal
  <2> QED  BY <2>1, <2>2, <2>4 DEF Keeps, Hands, Carried, Alone, Taken, Pile, Ids
<1>9. CASE Lookup(w)
  <2> DEFINE batch == {p \in Unique(wk[w].found) : p.id \notin Stored}
  <2>1. \A p \in batch : p.id \in Ids(wk[w].found)
    BY DEF Unique, Ids
  <2>2. wk[w].at = "lookup" /\ wk[w].out = {}
    BY <1>9 DEF Lookup, Shapes, Early
  <2>3. wk' = [wk EXCEPT ![w].at = "claim", ![w].found = {}, ![w].batch = batch]
    BY <1>9 DEF Lookup
  <2> HIDE DEF batch
  <2>4. /\ wk'[w].at = "claim" /\ wk'[w].found = {} /\ wk'[w].began = wk[w].began
        /\ wk'[w].batch = batch /\ wk'[w].out = {}
    BY <1>0, <2>2, <2>3 DEF IsLocal
  <2> QED  BY <2>1, <2>2, <2>4 DEF Keeps, Hands, Carried, Alone, Taken, Pile, Ids
<1> QED  BY <1>2, <1>3, <1>4, <1>5, <1>6, <1>7, <1>8, <1>9

(* The steps in the store, but for the claim. *)
LEMMA LateKeeps ==
    ASSUME Shapes, NEW w \in Worker, Hands(wk[w]),
           CountAuthor(w) \/ ExpireAuthor(w) \/ WriteBody(w) \/ WriteIndex(w) \/ Trim(w)
    PROVE  Keeps(w)
<1> USE DEF At
<1>0. IsLocal(wk[w]) /\ now \in Nat /\ wk = [v \in Worker |-> wk[v]]
  BY DEF Shapes
<1>1. CASE CountAuthor(w)
  <2>1. /\ wk[w].at = "count" /\ wk'[w].at \in {"expire", "claim"} /\ wk'[w].cur = wk[w].cur
        /\ wk'[w].out \in {wk[w].out, wk[w].out \cup {wk[w].cur}}
    BY <1>1, CountIs
  <2>2. /\ wk'[w].found = wk[w].found /\ wk'[w].batch = wk[w].batch
        /\ wk'[w].began = wk[w].began
    BY <1>0, <1>1 DEF CountAuthor, IsLocal
  <2>3. \A i \in Carried(wk'[w]) : i \in Carried(wk[w])
    BY <2>1, <2>2 DEF Carried, Ids
  <2>4. Alone(wk'[w]) /\ Taken(wk'[w]) \subseteq Taken(wk[w])
    BY <2>1 DEF Hands, Alone, Taken, Pile, Ids
  <2> QED  BY <2>1, <2>2, <2>3, <2>4 DEF Keeps, Hands
<1>2. CASE ExpireAuthor(w)
  <2>1. /\ wk[w].at = "expire" /\ wk'[w].at = "claim" /\ wk'[w].found = wk[w].found
        /\ wk'[w].began = wk[w].began
        /\ wk'[w].batch = wk[w].batch /\ wk'[w].out = wk[w].out
    BY <1>0, <1>2 DEF ExpireAuthor, IsLocal
  <2> QED  BY <2>1 DEF Keeps, Hands, Carried, Alone, Taken, Pile, Ids
<1>3. CASE WriteBody(w)
  <2>1. wk[w].at \in {"claim", "write"} /\ Unwritten(w) = Pile(wk[w])
    BY <1>3 DEF WriteBody, Unwritten, Pile
  <2>2. PICK p \in Pile(wk[w]) :
            wk' = [wk EXCEPT ![w].at = "index", ![w].batch = Pile(wk[w]) \ {p}, ![w].cur = p]
    BY <1>3, <2>1 DEF WriteBody
  <2>3. /\ wk'[w].at = "index" /\ wk'[w].found = wk[w].found
        /\ wk'[w].batch = Pile(wk[w]) \ {p} /\ wk'[w].out = wk[w].out /\ wk'[w].cur = p
        /\ wk'[w].began = wk[w].began
    BY <1>0, <2>2 DEF IsLocal
  <2>a. Ids(Pile(wk[w]) \ {p}) \cup {p.id} \subseteq Ids(Pile(wk[w]))
    BY <2>2 DEF Ids
  <2>b. Ids(Pile(wk[w])) \subseteq Carried(wk[w])
    BY <2>1 DEF Carried, Pile
  <2>4. \A i \in Carried(wk'[w]) : i \in Carried(wk[w])
    <3>1. Carried(wk'[w]) = Ids(wk[w].found) \cup Ids(wk[w].out)
                                \cup Ids(Pile(wk[w]) \ {p}) \cup {p.id}
      BY <2>3 DEF Carried
    <3>2. Ids(wk[w].found) \cup Ids(wk[w].out) \subseteq Carried(wk[w])
      BY DEF Carried
    <3> QED  BY <2>a, <2>b, <3>1, <3>2
  <2>5. Pile(wk'[w]) = Pile(wk[w]) \ {p}
    BY <2>3 DEF Pile
  <2>6. Alone(wk'[w])
    BY <2>2, <2>3, <2>5 DEF Hands, Alone, Ids
  <2>7. Taken(wk'[w]) \subseteq Taken(wk[w])
    BY <2>a, <2>3, <2>5 DEF Taken
  <2> QED  BY <2>3, <2>4, <2>6, <2>7 DEF Keeps, Hands
<1>4. CASE WriteIndex(w)
  <2>1. /\ wk[w].at = "index" /\ wk'[w].at = "write" /\ wk'[w].found = wk[w].found
        /\ wk'[w].began = wk[w].began
        /\ wk'[w].batch = wk[w].batch /\ wk'[w].out = wk[w].out
    BY <1>0, <1>4 DEF WriteIndex, IsLocal
  <2> QED  BY <2>1 DEF Keeps, Hands, Carried, Alone, Taken, Pile, Ids
<1>5. CASE Trim(w)
  <2>1. /\ wk[w].at = "write" /\ wk'[w].at = "write" /\ wk'[w].found = wk[w].found
        /\ wk'[w].began = wk[w].began
        /\ wk'[w].batch = wk[w].batch /\ wk'[w].out = {}
    BY <1>0, <1>5 DEF Trim, IsLocal
  <2> QED  BY <2>1 DEF Keeps, Hands, Carried, Alone, Taken, Pile, Ids
<1> QED  BY <1>1, <1>2, <1>3, <1>4, <1>5

-----------------------------------------------------------------------------
(* What every step leaves of what the argument rests on. *)

FpOf(i) == Fingerprint(ById(i))
FpStep == \A i \in PostIds : Same(FpOf(i)) \/ IsFree(kv, FpOf(i), now)
BodyStep ==
    \A i \in PostIds : Live(kv', PostKey(i), now') =>
        Live(kv, PostKey(i), now) \/ \E w \in Worker : i \in Taken(wk[w])
TakenStep ==
    \A w \in Worker : \A i \in Taken(wk'[w]) :
        i \in Taken(wk[w]) \/ IsFree(kv, FpOf(i), now)
Frame == now' \in Nat /\ now' >= now /\ FpStep /\ BodyStep /\ TakenStep /\ IndexesSlip

(* A step of one cycle that claims nothing. *)
LEMMA FrameOf ==
    ASSUME Shapes, NEW w \in Worker, now' = now, \A v \in Worker : v # w => wk'[v] = wk[v],
           Keeps(w), \A i \in PostIds : Same(FpOf(i)),
           \A i \in PostIds : Same(PostKey(i)) \/ i \in Taken(wk[w]), IndexesSlip
    PROVE  Frame
<1>1. now \in Nat
  BY DEF Shapes
<1>2. FpStep
  BY DEF FpStep
<1>3. BodyStep
  BY DEF BodyStep, Same, Live, Expired
<1>4. TakenStep
  BY DEF TakenStep, Keeps
<1> QED  BY <1>1, <1>2, <1>3, <1>4 DEF Frame

(* Only the index and the trims change an index. *)
LEMMA ZsetStays ==
    ASSUME Shapes, NEW w \in Worker,
           \/ StartCycle(w) \/ SkipSource(w) \/ Collect(w) \/ RefuseSignIn(w)
           \/ CheckBudget(w) \/ Request(w) \/ Charge(w) \/ FailRequest(w)
           \/ Lookup(w) \/ Claim(w) \/ CountAuthor(w) \/ ExpireAuthor(w)
           \/ WriteBody(w) \/ Report(w) \/ Kill(w)
    PROVE  kv'.zset = kv.zset
<1>0. IsTable(kv) /\ \A k \in DOMAIN kv.str : IsItem(kv.str[k])
  BY DEF Shapes
<1>1. CASE StartCycle(w) \/ WriteBody(w)
  <2>1. \E k, v, ex : kv' = Put(kv, k, v, ex, now)
    BY <1>1 DEF StartCycle, WriteBody
  <2> QED  BY <1>0, <2>1, IndexesStay
<1>2. CASE SkipSource(w) \/ RefuseSignIn(w) \/ FailRequest(w) \/ Report(w)
  BY <1>0, <1>2, IndexesStay DEF SkipSource, RefuseSignIn, FailRequest, FailSource, Report, SetSource
<1>3. CASE Collect(w)
  <2>1. kv' = kv \/ kv' = SetSource(kv, Source(w), "error")
    BY <1>3 DEF Collect, FailSource
  <2> QED  BY <1>0, <2>1, IndexesStay DEF SetSource
<1>4. CASE CheckBudget(w) \/ Request(w) \/ Lookup(w) \/ Kill(w)
  BY <1>4 DEF CheckBudget, Request, Lookup, Kill
<1>5. CASE Charge(w)
  <2> DEFINE s == IncrBy(kv, SpentKey, Cardinality(wk[w].batch))
  <2>0. SpentKey \in DOMAIN kv.str => IsItem(kv.str[SpentKey])
    BY <1>0
  <2>a. IsTable(s)
    BY <1>0, <2>0, IncrByIs
  <2>b. s.zset = kv.zset
    BY <1>0, IndexesStay
  <2>1. IsTable(s) /\ s.zset = kv.zset
    BY <2>a, <2>b
  <2>2. kv' = Expire(s, SpentKey, 3 * DAY, now)
    BY <1>5 DEF Charge
  <2> HIDE DEF s
  <2> QED  BY <2>1, <2>2, IndexesStay
<1>6. CASE Claim(w)
  <2>1. PICK p : kv' = kv \/ kv' = Put(kv, FpOf(p.id), p.id, MAX_AGE, now)
    BY <1>6 DEF Claim, FpOf
  <2> QED  BY <1>0, <2>1, IndexesStay
<1>7. CASE CountAuthor(w) \/ ExpireAuthor(w)
  BY <1>0, <1>7, IndexesStay DEF CountAuthor, ExpireAuthor
<1> QED  BY <1>1, <1>2, <1>3, <1>4, <1>5, <1>6, <1>7

(* A post is indexed when it is no longer in hand. *)
LEMMA IndexSlips ==
    ASSUME Shapes, InHands, NEW w \in Worker, WriteIndex(w)
    PROVE  IndexesSlip
<1> DEFINE i == wk[w].cur.id
<1>1. /\ wk[w].at = "index" /\ IsTable(kv) /\ kv' = IndexAll(kv, wk[w].cur)
  BY DEF WriteIndex, At, Shapes
<1>2. wk'[w].at = "write" /\ wk'[w].batch = wk[w].batch
      /\ \A v \in Worker : v # w => wk'[v] = wk[v]
  BY DEF WriteIndex, Shapes, IsLocal
<1>3. i \in Taken(wk[w])
  BY <1>1 DEF Taken
<1>4. \A v \in Worker : i \notin Taken(wk'[v])
  <2>1. i \notin Ids(wk[w].batch)
    BY <1>1 DEF InHands, Hands, Alone, Pile
  <2>2. Taken(wk'[w]) = Ids(wk[w].batch)
    BY <1>2 DEF Taken, Pile
  <2> HIDE DEF i
  <2>3. \A v \in Worker : v # w => i \notin Taken(wk[v])
    BY <1>3 DEF InHands
  <2> QED  BY <1>2, <2>1, <2>2, <2>3
<1>5. Gains(Entry(i))
  BY <1>3, <1>4 DEF Gains
<1>6. \A z : ZSet(kv', z) \subseteq ZSet(kv, z) \cup {Entry(i)} /\ ZSet(kv, z) \subseteq ZSet(kv', z)
  BY <1>1, IndexAllIs
<1> HIDE DEF i
<1> QED  BY <1>5, <1>6 DEF IndexesSlip, Slips

LEMMA TakenArePosts ==
    ASSUME InHands, NEW w \in Worker
    PROVE  Taken(wk[w]) \subseteq PostIds /\ Taken(wk[w]) \subseteq Carried(wk[w])
<1>1. Taken(wk[w]) \subseteq Carried(wk[w])
  <2>1. Ids(Pile(wk[w])) \subseteq Carried(wk[w])
    <3>1. CASE wk[w].at \in {"claim", "count", "expire"}
      BY <3>1 DEF Carried, Pile
    <3>2. CASE wk[w].at \in {"write", "index"}
      BY <3>2 DEF Carried, Pile
    <3>3. CASE wk[w].at \notin {"claim", "count", "expire", "write", "index"}
      BY <3>3 DEF Pile, Ids
    <3> QED  BY <3>1, <3>2, <3>3
  <2> QED  BY <2>1 DEF Taken, Carried
<1> QED  BY <1>1 DEF InHands, Hands, Fresh

(* What is in hand is claimed for as long as it is kept, so it is not free.*)
LEMMA TakenIsClaimed ==
    ASSUME Shapes, InHands, NEW w \in Worker, NEW i \in Taken(wk[w])
    PROVE  /\ i \in PostIds /\ ById(i).ts \in 1 .. now /\ Never(i)
           /\ ~IsFree(kv, FpOf(i), now)
<1>1. wk[w].at # "idle"
  BY DEF Taken, Pile, Ids
<1>2. /\ now \in Nat /\ wk[w].began \in Nat /\ now <= wk[w].began + 1
  BY <1>1 DEF Shapes
<1>3. i \in PostIds /\ ById(i).ts \in 1 .. now
  BY TakenArePosts DEF InHands, Hands, Fresh
<1>4. PICK e \in (wk[w].began + MAX_AGE) .. (now + MAX_AGE) :
            e >= ById(i).ts + MAX_AGE /\ Owned(i, e)
  BY DEF InHands, Claimed
<1>5. e \in Nat /\ now <= e
  BY <1>2, <1>4
<1> QED  BY <1>2, <1>3, <1>4, <1>5 DEF Owned, Never, IsFree, Expired, FpOf

ClaimedThen(i, from) ==
    \E e \in (from + MAX_AGE) .. (now' + MAX_AGE) : e >= ById(i).ts + MAX_AGE /\ Owned(i, e)'

LEMMA StillClaimed ==
    ASSUME Shapes, InHands, Frame, NEW w \in Worker, NEW i \in Taken(wk[w]), wk[w].began \in Nat
    PROVE  ClaimedThen(i, wk[w].began)
<1>1. Same(FpOf(i))
  BY TakenIsClaimed DEF Frame, FpStep
<1>2. PICK e \in (wk[w].began + MAX_AGE) .. (now + MAX_AGE) :
            e >= ById(i).ts + MAX_AGE /\ Owned(i, e)
  BY DEF InHands, Claimed
<1>3. e \in (wk[w].began + MAX_AGE) .. (now' + MAX_AGE)
  BY <1>2 DEF Frame, Shapes
<1>4. Owned(i, e)'
  BY <1>1, <1>2 DEF Owned, Same, FpOf
<1> QED  BY <1>2, <1>3, <1>4 DEF ClaimedThen

LEMMA TakenSince ==
    ASSUME Shapes, NEW w \in Worker, NEW i \in Taken(wk[w])
    PROVE  wk[w].began \in Nat
<1>1. wk[w].at # "idle"
  BY DEF Taken, Pile, Ids
<1> QED  BY <1>1 DEF Shapes

(* The claim of a free fingerprint: its post is fresh and in no other hands.*)
LEMMA ClaimTakes ==
    ASSUME Shapes, InHands, NEW w \in Worker, Claim(w)
    PROVE  \/ Keeps(w) /\ kv' = kv
           \/ \E i \in PostIds :
                /\ ById(i).ts \in 1 .. now /\ IsFree(kv, FpOf(i), now)
                /\ kv'.str = With(kv.str, FpOf(i), [v |-> i, exp |-> now + MAX_AGE])
                /\ Hands(wk'[w]) /\ Taken(wk'[w]) \subseteq Taken(wk[w]) \cup {i}
                /\ wk'[w].began = wk[w].began /\ wk[w].began \in Nat /\ wk[w].began <= now
<1> USE DEF At
<1>0. /\ IsLocal(wk[w]) /\ IsTable(kv) /\ now \in Nat /\ wk = [v \in Worker |-> wk[v]]
      /\ wk[w].began \in Nat /\ wk[w].began <= now
      /\ Hands(wk[w]) /\ wk[w].at = "claim"
  BY DEF Shapes, InHands, Claim
<1>1. PICK p \in wk[w].batch :
        LET fp == FpOf(p.id)
        IN  IF IsFree(kv, fp, now)
            THEN /\ kv' = Put(kv, fp, p.id, MAX_AGE, now)
                 /\ wk' = [wk EXCEPT ![w].at = "count", ![w].batch = @ \ {p}, ![w].cur = p]
            ELSE /\ wk' = [wk EXCEPT ![w].batch = @ \ {p}]
                 /\ UNCHANGED kv
  BY DEF Claim, FpOf
<1>2. p.id \in Carried(wk[w])
  BY <1>0, <1>1 DEF Carried, Ids
<1>3. p.id \in PostIds /\ ById(p.id).ts \in 1 .. now
  BY <1>0, <1>2 DEF Hands, Fresh
<1>4. Pile(wk[w]) = wk[w].out /\ Taken(wk[w]) = Ids(wk[w].out)
  BY <1>0 DEF Pile, Taken
<1>5. CASE ~IsFree(kv, FpOf(p.id), now)
  <2>1. /\ wk'[w].at = "claim" /\ wk'[w].found = wk[w].found /\ wk'[w].out = wk[w].out
        /\ wk'[w].batch = wk[w].batch \ {p} /\ kv' = kv /\ wk'[w].began = wk[w].began
    BY <1>0, <1>1, <1>5 DEF IsLocal
  <2> QED  BY <1>0, <2>1 DEF Keeps, Hands, Carried, Alone, Taken, Pile, Ids
<1>6. CASE IsFree(kv, FpOf(p.id), now)
  <2>1. /\ wk'[w].at = "count" /\ wk'[w].found = wk[w].found /\ wk'[w].out = wk[w].out
        /\ wk'[w].batch = wk[w].batch \ {p} /\ wk'[w].cur = p /\ wk'[w].began = wk[w].began
    <3>1. wk' = [wk EXCEPT ![w].at = "count", ![w].batch = @ \ {p}, ![w].cur = p]
      BY <1>1, <1>6
    <3> QED  BY <1>0, <3>1 DEF IsLocal
  <2>2. kv'.str = With(kv.str, FpOf(p.id), [v |-> p.id, exp |-> now + MAX_AGE])
    BY <1>0, <1>1, <1>6, PutIs DEF Until
  <2>3. p.id \notin Ids(wk[w].out)
    <3>1. ASSUME p.id \in Taken(wk[w]) PROVE FALSE
      BY <1>6, <3>1, TakenIsClaimed
    <3> QED  BY <1>4, <3>1
  <2>4. \A i \in Carried(wk'[w]) : i \in Carried(wk[w])
    BY <1>0, <1>1, <2>1 DEF Carried, Ids
  <2>5. Pile(wk'[w]) = wk[w].out
    BY <2>1 DEF Pile
  <2>6. Alone(wk'[w])
    BY <1>0, <1>4, <2>1, <2>3, <2>5 DEF Hands, Alone
  <2>7. Taken(wk'[w]) = Taken(wk[w]) \cup {p.id}
    BY <1>4, <2>1, <2>5 DEF Taken
  <2>8. Hands(wk'[w])
    BY <1>0, <2>1, <2>4, <2>6 DEF Hands
  <2> QED  BY <1>0, <1>3, <1>6, <2>1, <2>2, <2>7, <2>8
<1> QED  BY <1>5, <1>6

(* What is in hand stays in order when a cycle takes nothing up. *)
LEMMA InHandsKept ==
    ASSUME Shapes, InHands, Frame, NEW w \in Worker, now' = now,
           \A v \in Worker : v # w => wk'[v] = wk[v], Keeps(w)
    PROVE  InHands'
<1>1. ASSUME NEW v \in Worker PROVE Hands(wk'[v]) /\ Taken(wk'[v]) \subseteq Taken(wk[v])
  BY DEF InHands, Keeps
<1>2. ASSUME NEW v \in Worker PROVE Hands(wk[v])'
  BY <1>1 DEF Hands, Fresh
<1>3. ASSUME NEW v \in Worker, NEW i \in Taken(wk'[v])
      PROVE  ClaimedThen(i, wk[v].began) /\ wk'[v].began = wk[v].began
  <2>1. i \in Taken(wk[v]) /\ wk'[v].began = wk[v].began
    BY <1>1, <1>3 DEF Keeps
  <2> QED  BY <2>1, TakenSince, StillClaimed
<1>4. \A u, v \in Worker : u # v => Taken(wk'[u]) \cap Taken(wk'[v]) = {}
  <2> SUFFICES ASSUME NEW u \in Worker, NEW v \in Worker, u # v
               PROVE  Taken(wk'[u]) \cap Taken(wk'[v]) = {}
    OBVIOUS
  <2>1. Taken(wk[u]) \cap Taken(wk[v]) = {}
    BY DEF InHands
  <2>2. Taken(wk'[u]) \subseteq Taken(wk[u]) /\ Taken(wk'[v]) \subseteq Taken(wk[v])
    BY <1>1
  <2> QED  BY <2>1, <2>2
<1> QED  BY <1>2, <1>3, <1>4 DEF InHands, Claimed, ClaimedThen

(* A claim takes up what nobody has. *)
LEMMA ClaimInHands ==
    ASSUME Shapes, InHands, Frame, NEW w \in Worker, now' = now,
           \A v \in Worker : v # w => wk'[v] = wk[v], NEW i \in PostIds,
           IsFree(kv, FpOf(i), now),
           kv'.str = With(kv.str, FpOf(i), [v |-> i, exp |-> now + MAX_AGE]),
           Hands(wk'[w]), Taken(wk'[w]) \subseteq Taken(wk[w]) \cup {i},
           ById(i).ts \in 1 .. now, wk'[w].began = wk[w].began,
           wk[w].began \in Nat, wk[w].began <= now
    PROVE  InHands'
<1>1. ASSUME NEW v \in Worker PROVE Hands(wk'[v])
  BY DEF InHands
<1>2. ASSUME NEW v \in Worker PROVE Hands(wk[v])'
  BY <1>1 DEF Hands, Fresh
<1>3. \A v \in Worker : i \notin Taken(wk[v])
  BY TakenIsClaimed
<1>4. ClaimedThen(i, wk[w].began)
  <2>1. Owned(i, now + MAX_AGE)'
    BY DEF Owned, With, FpOf
  <2>2. now + MAX_AGE \in (wk[w].began + MAX_AGE) .. (now' + MAX_AGE)
        /\ now + MAX_AGE >= ById(i).ts + MAX_AGE
    BY DEF Shapes
  <2> QED  BY <2>1, <2>2 DEF ClaimedThen, Owned
<1>5. ASSUME NEW v \in Worker, NEW j \in Taken(wk'[v])
      PROVE  ClaimedThen(j, wk[v].began) /\ wk'[v].began = wk[v].began
  <2>1. CASE j \in Taken(wk[v])
    BY <2>1, TakenSince, StillClaimed
  <2>2. CASE j \notin Taken(wk[v])
    BY <1>4, <1>5, <2>2
  <2> QED  BY <2>1, <2>2
<1>6. \A u, v \in Worker : u # v => Taken(wk'[u]) \cap Taken(wk'[v]) = {}
  BY <1>3 DEF InHands
<1> QED  BY <1>2, <1>5, <1>6 DEF InHands, Claimed, ClaimedThen

(* A step of a cycle. *)
LEMMA CycleFrame ==
    ASSUME Shapes, InHands, Indexed, NEW w \in Worker, Cycle(w) \/ Kill(w)
    PROVE  Frame /\ InHands'
<1>0. Hands(wk[w])
  BY DEF InHands
<1>1. ASSUME Moves(w), Keeps(w), \A i \in PostIds : Same(FpOf(i)),
             \A i \in PostIds : Same(PostKey(i)) \/ i \in Taken(wk[w]), IndexesSlip
      PROVE  Frame /\ InHands'
  <2>1. now' = now /\ \A v \in Worker : v # w => wk'[v] = wk[v]
    BY <1>1 DEF Moves
  <2>2. Frame
    BY <1>1, <2>1, FrameOf
  <2> QED  BY <1>1, <2>1, <2>2, InHandsKept
<1>2. ASSUME Quiet(w), Keeps(w), IndexesSlip
      PROVE  Frame /\ InHands'
  <2>1. \A i \in PostIds : ~Aside(FpOf(i)) /\ ~Aside(PostKey(i))
    BY KeysDiffer DEF Aside, FpOf
  <2>2. \A i \in PostIds : Same(FpOf(i)) /\ Same(PostKey(i))
    BY <1>2, <2>1 DEF Quiet, StringsKept
  <2> QED  BY <1>1, <1>2, <2>2 DEF Quiet
<1>3. CASE \/ StartCycle(w) \/ SkipSource(w) \/ Collect(w) \/ RefuseSignIn(w)
           \/ CheckBudget(w) \/ Request(w) \/ Charge(w) \/ FailRequest(w)
           \/ Lookup(w) \/ Report(w) \/ Kill(w)
  <2>1. Quiet(w)
    BY <1>3, QuietSteps
  <2>2. Keeps(w)
    BY <1>0, <1>3, EarlyKeeps
  <2>3. IndexesSlip
    BY <1>3, ZsetStays, SameSlip
  <2> QED  BY <1>2, <2>1, <2>2, <2>3
<1>4. CASE WriteIndex(w) \/ Trim(w)
  <2>1. Quiet(w)
    BY <1>4, QuietSteps
  <2>2. Keeps(w)
    BY <1>0, <1>4, LateKeeps
  <2>3. IndexesSlip
    BY <1>4, IndexSlips, TrimSlips
  <2> QED  BY <1>2, <2>1, <2>2, <2>3
<1>5. CASE CountAuthor(w) \/ ExpireAuthor(w)
  <2> DEFINE key == AuthorOf(wk[w].cur.id)
  <2>1. Moves(w) /\ \E e : kv'.str = With(kv.str, key, e)
    BY <1>5, CountIs, ExpireAuthorIs
  <2>2. \A i : key # FpOf(i) /\ key # PostKey(i)
    BY KeysDiffer DEF AuthorOf, FpOf
  <2>3. \A i : Same(FpOf(i)) /\ Same(PostKey(i))
    BY <2>1, <2>2 DEF With, Same
  <2>4. Keeps(w)
    BY <1>0, <1>5, LateKeeps
  <2>5. IndexesSlip
    BY <1>5, ZsetStays, SameSlip
  <2> QED  BY <1>1, <2>1, <2>3, <2>4, <2>5
<1>6. CASE WriteBody(w)
  <2>1. PICK j \in Counted(wk[w]) :
            Moves(w) /\ kv'.str = With(kv.str, PostKey(j), [v |-> j, exp |-> now + MAX_AGE])
    BY <1>6, WriteBodyIs
  <2>2. j \in Taken(wk[w])
    BY <2>1 DEF Counted, Taken, Pile
  <2>3. \A i : PostKey(j) # FpOf(i) /\ (i # j => PostKey(i) # PostKey(j))
    BY KeysDiffer DEF FpOf
  <2>4. \A i : Same(FpOf(i)) /\ (i # j => Same(PostKey(i)))
    BY <2>1, <2>3 DEF With, Same
  <2>5. Keeps(w)
    BY <1>0, <1>6, LateKeeps
  <2>6. IndexesSlip
    BY <1>6, ZsetStays, SameSlip
  <2> QED  BY <1>1, <2>1, <2>2, <2>4, <2>5, <2>6
<1>7. CASE Claim(w)
  <2>1. Moves(w) /\ IndexesSlip
    BY <1>7, ClaimIs, ZsetStays, SameSlip DEF Quiet
  <2>2. CASE Keeps(w) /\ kv' = kv
    BY <1>1, <2>1, <2>2 DEF Same
  <2>3. CASE ~(Keeps(w) /\ kv' = kv)
    <3>1. PICK i \in PostIds :
                /\ ById(i).ts \in 1 .. now /\ IsFree(kv, FpOf(i), now)
                /\ kv'.str = With(kv.str, FpOf(i), [v |-> i, exp |-> now + MAX_AGE])
                /\ Hands(wk'[w]) /\ Taken(wk'[w]) \subseteq Taken(wk[w]) \cup {i}
                /\ wk'[w].began = wk[w].began /\ wk[w].began \in Nat /\ wk[w].began <= now
      BY <1>7, <2>3, ClaimTakes
    <3>2. /\ now' = now /\ now \in Nat /\ \A v \in Worker : v # w => wk'[v] = wk[v]
      BY <2>1 DEF Moves, Shapes
    <3>3. \A j : Same(FpOf(j)) \/ FpOf(j) = FpOf(i)
      BY <3>1 DEF With, Same
    <3>4. \A j : Same(PostKey(j))
      <4>1. \A j : PostKey(j) # FpOf(i)
        BY KeysDiffer DEF FpOf
      <4> QED  BY <3>1, <4>1 DEF With, Same
    <3>5. FpStep
      BY <3>1, <3>3 DEF FpStep
    <3>6. BodyStep
      BY <3>2, <3>4 DEF BodyStep, Same, Live, Expired
    <3>7. TakenStep
      BY <3>1, <3>2 DEF TakenStep
    <3>8. Frame
      BY <2>1, <3>2, <3>5, <3>6, <3>7 DEF Frame
    <3> QED  BY <3>1, <3>2, <3>8, ClaimInHands
  <2> QED  BY <2>2, <2>3
<1> QED  BY <1>3, <1>4, <1>5, <1>6, <1>7 DEF Cycle

(* What is in hand stays in order when no cycle moves. *)
LEMMA InHandsStill ==
    ASSUME Shapes, InHands, Frame, now' = now, wk' = wk
    PROVE  InHands'
<1>1. ASSUME NEW v \in Worker PROVE Hands(wk[v])'
  <2>1. Hands(wk[v])
    BY DEF InHands
  <2> QED  BY <2>1 DEF Hands, Fresh
<1>2. ASSUME NEW v \in Worker, NEW i \in Taken(wk[v]) PROVE ClaimedThen(i, wk[v].began)
  BY TakenSince, StillClaimed
<1> QED  BY <1>1, <1>2 DEF InHands, Claimed, ClaimedThen

LEMMA StillFrame ==
    ASSUME Shapes, InHands, UNCHANGED <<now, kv, wk>>
    PROVE  Frame /\ InHands'
<1>1. now \in Nat
  BY DEF Shapes
<1>2. FpStep /\ BodyStep /\ TakenStep
  BY DEF FpStep, BodyStep, TakenStep, Same, Live, Expired
<1>3. Frame
  BY <1>1, <1>2, SameSlip DEF Frame
<1> QED  BY <1>3, InHandsStill

(* What is in hand while time passes is still claimed. *)
LEMMA TickFrame ==
    ASSUME Shapes, InHands, Tick
    PROVE  Frame /\ InHands'
<1>1. now \in Nat /\ now' = now + 1 /\ kv' = kv /\ wk' = wk
  BY DEF Tick, Shapes
<1>2. FpStep /\ TakenStep
  BY <1>1 DEF FpStep, TakenStep, Same
<1>3. BodyStep
  <2>1. ASSUME NEW i, Live(kv', PostKey(i), now') PROVE Live(kv, PostKey(i), now)
    <3>1. PostKey(i) \in DOMAIN kv.str => kv.str[PostKey(i)].exp \in Nat
      BY DEF Shapes, IsItem
    <3> QED  BY <1>1, <2>1, <3>1 DEF Live, Expired
  <2> QED  BY <2>1 DEF BodyStep
<1>4. Frame
  BY <1>1, <1>2, <1>3, SameSlip DEF Frame
<1>5. ASSUME NEW w \in Worker PROVE Hands(wk[w])'
  <2>1. Hands(wk[w])
    BY DEF InHands
  <2>2. \A i \in Carried(wk[w]) : ById(i).ts \in 1 .. now'
    BY <1>1, <2>1 DEF Hands, Fresh
  <2>3. wk[w].at = "charge" => \A p \in wk[w].batch : p \in Raw /\ p.ts <= now'
    BY <1>1, <2>1 DEF Hands
  <2> QED  BY <1>1, <2>1, <2>2, <2>3 DEF Hands, Fresh
<1>6. ASSUME NEW w \in Worker, NEW i \in Taken(wk[w]) PROVE ClaimedThen(i, wk[w].began)
  BY <1>4, TakenSince, StillClaimed
<1> QED  BY <1>1, <1>4, <1>5, <1>6 DEF InHands, Claimed, ClaimedThen

LEMMA SweepFrame ==
    ASSUME Shapes, InHands, Sweep
    PROVE  Frame /\ InHands'
<1> DEFINE ks == {k \in DOMAIN kv.str : Expired(kv, k, now)}
<1>1. now \in Nat /\ now' = now /\ wk' = wk /\ kv' = Swept(kv, ks) /\ IsTable(kv)
  BY DEF Sweep, Shapes
<1>2. /\ DOMAIN kv'.str = DOMAIN kv.str \ ks
      /\ \A k \in DOMAIN kv'.str : kv'.str[k] = kv.str[k]
  BY <1>1, SweptIs
<1>3. \A k : Same(k) \/ IsFree(kv, k, now)
  BY <1>2 DEF Same, IsFree
<1>4. \A k : Live(kv', k, now) => Live(kv, k, now)
  BY <1>2 DEF Live, Expired
<1>5. FpStep /\ BodyStep /\ TakenStep
  BY <1>1, <1>3, <1>4 DEF FpStep, BodyStep, TakenStep
<1>6. IndexesSlip
  BY <1>1, IndexesStay, SameSlip
<1>7. Frame
  BY <1>1, <1>5, <1>6 DEF Frame
<1> QED  BY <1>1, <1>7, InHandsStill

LEMMA NextFrame ==
    ASSUME Shapes, InHands, Indexed, [Next]_vars
    PROVE  Frame /\ InHands'
<1>1. CASE UNCHANGED <<now, kv, wk>>
  BY <1>1, StillFrame
<1>2. ASSUME NEW w \in Worker, Cycle(w) \/ Kill(w)
      PROVE  Frame /\ InHands'
  BY <1>2, CycleFrame
<1>3. CASE Tick
  BY <1>3, TickFrame
<1>4. CASE Sweep
  BY <1>4, SweepFrame
<1> QED  BY <1>1, <1>2, <1>3, <1>4 DEF Next, vars, OpenFeed, ReadChunk, Answer

-----------------------------------------------------------------------------
(* What no cycle takes again stays so, and is all that is indexed. *)

LEMMA NeverStays ==
    ASSUME Shapes, Frame, NEW i \in PostIds, Never(i), IsKept(i)
    PROVE  Never(i)' /\ ~IsFree(kv, FpOf(i), now)
<1>1. now \in Nat /\ ById(i).ts \in Nat
  <2>1. \E p \in Raw : i = p.id
    BY DEF PostIds
  <2> QED  BY <2>1, PostById DEF Shapes
<1>2. FpOf(i) \in DOMAIN kv.str /\ kv.str[FpOf(i)].exp >= ById(i).ts + MAX_AGE
  BY DEF Never, FpOf
<1>3. kv.str[FpOf(i)].exp \in Nat
  BY <1>2 DEF Shapes, IsItem
<1>4. ~IsFree(kv, FpOf(i), now)
  BY <1>1, <1>2, <1>3 DEF IsFree, Expired, IsKept
<1>5. Same(FpOf(i))
  BY <1>4 DEF Frame, FpStep
<1> QED  BY <1>4, <1>5 DEF Never, Same, FpOf

LEMMA KeptBefore ==
    ASSUME Shapes, Frame, NEW i \in PostIds, IsKept(i)'
    PROVE  IsKept(i)
<1>1. \E p \in Raw : i = p.id
  BY DEF PostIds
<1>2. now \in Nat /\ now' \in Nat /\ now <= now' /\ ById(i).ts \in Nat
  BY <1>1, PostById DEF Shapes, Frame
<1> QED  BY <1>2 DEF IsKept

LEMMA SettledStays ==
    ASSUME Shapes, Frame, NEW i, Settled(i)
    PROVE  Settled(i)'
<1>1. i \in PostIds
  BY DEF Settled
<1>2. ASSUME IsKept(i)' PROVE Never(i)' /\ \A w \in Worker : i \notin Taken(wk'[w])
  <2>1. Never(i) /\ IsKept(i) /\ \A w \in Worker : i \notin Taken(wk[w])
    BY <1>1, <1>2, KeptBefore DEF Settled
  <2>2. Never(i)' /\ ~IsFree(kv, FpOf(i), now)
    BY <1>1, <2>1, NeverStays
  <2> QED  BY <2>1, <2>2 DEF Frame, TakenStep
<1> QED  BY <1>1, <1>2 DEF Settled

LEMMA IndexedNext ==
    ASSUME Shapes, InHands, Indexed, Frame
    PROVE  Indexed'
<1> SUFFICES ASSUME NEW z \in DOMAIN kv'.zset, NEW e \in kv'.zset[z]
             PROVE  e = Entry(e[2]) /\ e[1] \in Nat \ {0} /\ Settled(e[2])'
  BY DEF Indexed, Entry
<1>1. e \in ZSet(kv', z)
  BY DEF ZSet
<1>2. CASE e \in ZSet(kv, z)
  <2>1. e = Entry(e[2]) /\ e \in Pairs /\ Settled(e[2])
    BY <1>2, IndexedIs
  <2> QED  BY <2>1, SettledStays DEF Pairs
<1>3. CASE Gains(e)
  <2>1. PICK w \in Worker : \E i \in Taken(wk[w]) :
            e = Entry(i) /\ \A v \in Worker : i \notin Taken(wk'[v])
    BY <1>3 DEF Gains
  <2>2. PICK i \in Taken(wk[w]) : e = Entry(i) /\ \A v \in Worker : i \notin Taken(wk'[v])
    BY <2>1
  <2>3. i \in PostIds /\ ById(i).ts \in 1 .. now /\ Never(i) /\ now \in Nat
    BY TakenIsClaimed DEF Shapes
  <2>4. e[2] = i /\ e[1] = ById(i).ts /\ ById(i).ts \in Nat \ {0}
    BY <2>2, <2>3 DEF Entry
  <2>5. IsKept(i)' => Never(i)'
    BY <2>3, KeptBefore, NeverStays
  <2>6. Settled(i)'
    BY <2>2, <2>3, <2>5 DEF Settled
  <2> QED  BY <2>2, <2>4, <2>6
<1> QED  BY <1>1, <1>2, <1>3 DEF Frame, IndexesSlip, Slips

-----------------------------------------------------------------------------
(* What was listed before and is now was listed all the time, and its twins*)
(* above it are still there.                                               *)
LEMMA ListedBefore ==
    ASSUME Shapes, Indexed, Frame, NEW req, NEW i \in Listed(req)', Settled(i), IsKept(i)
    PROVE  /\ i \in Listed(req) /\ Entry(i) \in ZSet(kv, IndexKey(req))
           /\ Entry(i) \in ZSet(kv', IndexKey(req))
<1>1. PICK e \in ZSet(kv', IndexKey(req)) : e[2] = i /\ i \in Stored' /\ Wanted(i, req)
  BY DEF Listed, Wanted, IndexKey
<1>2. i \in PostIds /\ \A w \in Worker : i \notin Taken(wk[w])
  BY DEF Settled
<1>3. e \in ZSet(kv, IndexKey(req))
  <2>1. ~Gains(e)
    BY <1>1, <1>2 DEF Gains, Entry
  <2> QED  BY <2>1 DEF Frame, IndexesSlip, Slips
<1>4. i \in Stored
  BY <1>1, <1>2 DEF Stored, Frame, BodyStep
<1>5. e = Entry(i)
  BY <1>1, <1>3, IndexedIs
<1> QED  BY <1>1, <1>3, <1>4, <1>5 DEF Listed

LEMMA ReadingKept ==
    ASSUME Shapes, Indexed, Frame, Reading, reader' = reader
    PROVE  Reading'
<1>1. ReaderShape' /\ InOrder'
  BY DEF Reading, ReaderShape, InOrder
<1>2. HadSettled'
  BY SettledStays DEF Reading, HadSettled
<1>3. ASSUME NEW i \in reader.had, i \in Listed(reader.req)', IsKept(i)'
      PROVE  TwinAbove(i)' \/ In(i, reader.seen) \/ In(i, reader.out) \/ Ahead(i)
  <2>1. /\ i \in Listed(reader.req) /\ Entry(i) \in ZSet(kv, IndexKey(reader.req))
        /\ Entry(i) \in ZSet(kv', IndexKey(reader.req))
    <3> DEFINE req == reader.req
    <3>1. Settled(i) /\ IsKept(i)
      BY <1>3, KeptBefore DEF Reading, HadSettled, Settled
    <3>2. i \in Listed(req)'
      BY <1>3
    <3> QED  BY <3>1, <3>2, ListedBefore
  <2>2. CASE TwinAbove(i)
    <3>1. PICK e \in ZSet(kv, IndexKey(reader.req)) : e[1] = ById(i).ts /\ e[2] > i
      BY <2>2 DEF TwinAbove
    <3>2. Entry(i)[1] = ById(i).ts /\ Entry(i)[2] = i
      BY DEF Entry
    <3>3. e \in ZSet(kv', IndexKey(reader.req))
      BY <2>1, <3>1, <3>2 DEF Frame, IndexesSlip, Slips
    <3> QED  BY <3>1, <3>3 DEF TwinAbove
  <2>3. IsKept(i)
    BY <1>3, KeptBefore DEF Reading, HadSettled, Settled
  <2> QED  BY <2>1, <2>2, <2>3 DEF Reading, NothingLost
<1>4. NothingLost'
  BY <1>3 DEF NothingLost, Ahead
<1> QED  BY <1>1, <1>2, <1>4 DEF Reading

-----------------------------------------------------------------------------
(* Sequences of entries, one after the other. *)

LEMMA JoinIs ==
    ASSUME NEW S, NEW s \in Seq(S), NEW t \in Seq(S)
    PROVE  /\ s \o t \in Seq(S) /\ Len(s \o t) = Len(s) + Len(t)
           /\ \A k \in 1 .. Len(s) : (s \o t)[k] = s[k]
           /\ \A k \in 1 .. Len(t) : (s \o t)[Len(s) + k] = t[k]
           /\ \A k \in 1 .. Len(s) + Len(t) : k \in 1 .. Len(s) \/ k - Len(s) \in 1 .. Len(t)
OBVIOUS

LEMMA DescendsOn ==
    ASSUME NEW s \in Seq(Pairs), NEW t \in Seq(Pairs), Descends(s), Descends(t), Follows(s, t)
    PROVE  Descends(s \o t)
<1> SUFFICES ASSUME NEW a \in 1 .. Len(s) + Len(t), NEW b \in 1 .. Len(s) + Len(t), a < b
             PROVE  Above((s \o t)[a], (s \o t)[b])
  BY JoinIs DEF Descends
<1>1. /\ a \in 1 .. Len(s) => (s \o t)[a] = s[a]
      /\ b \in 1 .. Len(s) => (s \o t)[b] = s[b]
      /\ a - Len(s) \in 1 .. Len(t) => (s \o t)[a] = t[a - Len(s)]
      /\ b - Len(s) \in 1 .. Len(t) => (s \o t)[b] = t[b - Len(s)]
  OBVIOUS
<1>2. CASE b \in 1 .. Len(s)
  BY <1>1, <1>2 DEF Descends
<1>3. CASE a \in 1 .. Len(s) /\ b \notin 1 .. Len(s)
  BY <1>1, <1>3 DEF Follows
<1>4. CASE a \notin 1 .. Len(s)
  BY <1>1, <1>4 DEF Descends
<1> QED  BY <1>2, <1>3, <1>4

(* What is true of both parts is true of the whole. *)
LEMMA JoinFollows ==
    ASSUME NEW r, NEW s \in Seq(Pairs), NEW t \in Seq(Pairs), Follows(r, s), Follows(r, t)
    PROVE  Follows(r, s \o t)
<1> SUFFICES ASSUME NEW a \in DOMAIN r, NEW b \in 1 .. Len(s) + Len(t)
             PROVE  Above(r[a], (s \o t)[b])
  BY JoinIs DEF Follows
<1>1. CASE b \in 1 .. Len(s)
  BY <1>1 DEF Follows
<1>2. CASE b \notin 1 .. Len(s)
  <2>1. b - Len(s) \in 1 .. Len(t) /\ (s \o t)[b] = t[b - Len(s)]
    BY <1>2
  <2> QED  BY <2>1 DEF Follows
<1> QED  BY <1>1, <1>2

LEMMA JoinDownTo ==
    ASSUME NEW high, NEW s \in Seq(Pairs), NEW t \in Seq(Pairs), DownTo(s, high), DownTo(t, high)
    PROVE  DownTo(s \o t, high)
<1> SUFFICES ASSUME NEW b \in 1 .. Len(s) + Len(t)
             PROVE  (s \o t)[b][1] >= high
  BY JoinIs DEF DownTo
<1>1. CASE b \in 1 .. Len(s)
  BY <1>1 DEF DownTo
<1>2. CASE b \notin 1 .. Len(s)
  <2>1. b - Len(s) \in 1 .. Len(t) /\ (s \o t)[b] = t[b - Len(s)]
    BY <1>2
  <2> QED  BY <2>1 DEF DownTo
<1> QED  BY <1>1, <1>2

LEMMA JoinIn ==
    ASSUME NEW i, NEW s \in Seq(Pairs), NEW t \in Seq(Pairs), In(i, s) \/ In(i, t)
    PROVE  In(i, s \o t)
<1>1. CASE In(i, s)
  <2>1. PICK a \in 1 .. Len(s) : s[a][2] = i
    BY <1>1 DEF In
  <2>2. a \in DOMAIN (s \o t) /\ (s \o t)[a] = s[a]
    OBVIOUS
  <2> QED  BY <2>1, <2>2 DEF In
<1>2. CASE In(i, t)
  <2>1. PICK a \in 1 .. Len(t) : t[a][2] = i
    BY <1>2 DEF In
  <2>2. Len(s) + a \in DOMAIN (s \o t) /\ (s \o t)[Len(s) + a] = t[a]
    OBVIOUS
  <2> QED  BY <2>1, <2>2 DEF In
<1> QED  BY <1>1, <1>2

(* What comes down to the last of a sequence. *)
LEMMA DownToLast ==
    ASSUME NEW s \in Seq(Pairs), Descends(s), NEW n \in DOMAIN s, n = Len(s)
    PROVE  DownTo(s, s[n][1])
<1> SUFFICES ASSUME NEW a \in 1 .. n PROVE s[a][1] >= s[n][1]
  BY DEF DownTo
<1>1. s[a] \in Pairs /\ s[n] \in Pairs
  OBVIOUS
<1>2. CASE a = n
  BY <1>1, <1>2 DEF Pairs
<1>3. CASE a < n
  <2>1. Above(s[a], s[n])
    BY <1>3 DEF Descends
  <2> QED  BY <1>1, <2>1 DEF Above, Pairs
<1> QED  BY <1>2, <1>3

LEMMA FollowsDownTo ==
    ASSUME NEW s \in Seq(Pairs), NEW t \in Seq(Pairs), Follows(s, t), NEW n \in DOMAIN t
    PROVE  DownTo(s, t[n][1])
<1> SUFFICES ASSUME NEW a \in DOMAIN s PROVE s[a][1] >= t[n][1]
  BY DEF DownTo
<1>1. s[a] \in Pairs /\ t[n] \in Pairs /\ Above(s[a], t[n])
  BY DEF Follows
<1>2. s[a][1] \in Nat /\ t[n][1] \in Nat
  BY <1>1 DEF Pairs
<1> QED  BY <1>1, <1>2 DEF Above

-----------------------------------------------------------------------------
(* The steps of the reader. *)

(* Any field of the reader may be given a value. *)
LEMMA ReaderSet ==
    ASSUME NEW r, IsReader(r), NEW e
    PROVE  /\ IsReader([r EXCEPT !.at = e]) /\ IsReader([r EXCEPT !.req = e])
           /\ IsReader([r EXCEPT !.before = e]) /\ IsReader([r EXCEPT !.high = e])
           /\ IsReader([r EXCEPT !.out = e]) /\ IsReader([r EXCEPT !.scanned = e])
           /\ IsReader([r EXCEPT !.seen = e]) /\ IsReader([r EXCEPT !.had = e])
           /\ IsReader([r EXCEPT !.cut = e])
BY DEF IsReader

(* What is listed has an entry, and no cycle takes it again. *)
LEMMA ListedIs ==
    ASSUME Indexed, NEW req, NEW i \in Listed(req)
    PROVE  /\ Entry(i) \in ZSet(kv, IndexKey(req)) /\ Entry(i) \in Pairs
           /\ Settled(i) /\ i \in Stored /\ Wanted(i, req)
<1>1. PICK e \in ZSet(kv, IndexKey(req)) : e[2] = i /\ i \in Stored /\ Wanted(i, req)
  BY DEF Listed
<1>2. e = Entry(e[2]) /\ e \in Pairs /\ Settled(e[2])
  BY IndexedIs
<1> QED  BY <1>1, <1>2

LEMMA OpenReads ==
    ASSUME Shapes, InHands, Indexed, Reading, OpenFeed
    PROVE  Reading'
<1>1. UNCHANGED <<now, kv, wk>>
  BY DEF OpenFeed
<1>2. PICK req : reader' = [NoReader EXCEPT !.at = "page", !.req = req, !.had = Listed(req)]
  BY DEF OpenFeed
<1>3. /\ reader'.at = "page" /\ reader'.req = req /\ reader'.had = Listed(req)
      /\ reader'.seen = <<>> /\ reader'.out = <<>> /\ reader'.high = 0
  BY <1>2 DEF NoReader
<1>4. ReaderShape'
  <2>1. IsReader(NoReader)
    BY DEF IsReader, NoReader
  <2>2. IsReader(reader')
    BY <1>2, <2>1, ReaderSet
  <2> QED  BY <1>3, <2>2 DEF ReaderShape, IsReader
<1>5. InOrder'
  BY <1>3 DEF InOrder, Descends, Follows, DownTo
<1>6. NothingLost'
  BY <1>3 DEF NothingLost, Ahead
<1>7. HadSettled'
  <2>1. ASSUME NEW i \in Listed(req) PROVE Settled(i)'
    <3>1. Settled(i)
      BY <2>1, ListedIs
    <3> QED  BY <1>1, <3>1, StillFrame, SettledStays
  <2> QED  BY <1>3, <2>1 DEF HadSettled
<1> QED  BY <1>4, <1>5, <1>6, <1>7 DEF Reading

(* The answer of a page: what is ahead is below its last. *)
LEMMA AnswerReads ==
    ASSUME Shapes, InHands, Indexed, Reading, Answer
    PROVE  Reading'
<1> DEFINE seen == reader.seen
           out == reader.out
           next == Cursor(out)
<1>1. UNCHANGED <<now, kv, wk>> /\ reader.at = "answer"
  BY DEF Answer
<1>2. seen \in Seq(Pairs) /\ out \in Seq(Pairs) /\ reader.high \in Nat
      /\ Descends(seen) /\ Descends(out) /\ Follows(seen, out) /\ Len(out) <= LIMIT
  BY <1>1 DEF Reading, ReaderShape, InOrder
<1>3. reader' = [reader EXCEPT !.seen = seen \o out, !.out = <<>>, !.scanned = 0,
                               !.before = next, !.high = next,
                               !.at = IF next = 0 THEN "done" ELSE "page"]
  BY DEF Answer
<1> HIDE DEF seen, out, next
<1>4. /\ reader'.seen = seen \o out /\ reader'.out = <<>> /\ reader'.high = next
      /\ reader'.at = (IF next = 0 THEN "done" ELSE "page") /\ reader'.req = reader.req
      /\ reader'.had = reader.had /\ reader'.cut = reader.cut
  BY <1>3 DEF Reading, ReaderShape, IsReader
<1>5. /\ Len(out) = LIMIT => next = out[LIMIT][1] /\ next \in Nat \ {0} /\ LIMIT \in DOMAIN out
      /\ Len(out) # LIMIT => next = 0
  <2>1. CASE Len(out) = LIMIT
    <3>1. LIMIT \in DOMAIN out /\ out[LIMIT] \in Pairs
      BY <1>2, <2>1
    <3> QED  BY <2>1, <3>1 DEF next, Cursor, Pairs
  <2> QED  BY <2>1 DEF next, Cursor
<1>6. seen \o out \in Seq(Pairs) /\ Descends(seen \o out)
  BY <1>2, JoinIs, DescendsOn
<1>7. ReaderShape'
  <2>1. next \in Nat
    BY <1>5
  <2>2. IsReader(reader')
    BY <1>3, ReaderSet DEF Reading, ReaderShape
  <2>3. reader'.at \in {"page", "done"} /\ <<>> \in Seq(Pairs)
    BY <1>4
  <2> QED  BY <1>4, <1>6, <2>1, <2>2, <2>3 DEF ReaderShape
<1>8. Len(out) = LIMIT => DownTo(seen \o out, next)
  BY <1>2, <1>5, DownToLast, FollowsDownTo, JoinDownTo
<1>9. InOrder'
  <2>1. Descends(<<>>) /\ Follows(seen \o out, <<>>) /\ DownTo(<<>>, next) /\ Len(<<>>) = 0
    BY DEF Descends, Follows, DownTo
  <2>2. next # 0 => Len(out) = LIMIT
    BY <1>5
  <2> QED  BY <1>4, <1>6, <1>8, <2>1, <2>2 DEF InOrder
<1>10. ASSUME NEW i \in reader.had, i \in Listed(reader.req), IsKept(i)
       PROVE  TwinAbove(i) \/ In(i, seen \o out)
              \/ IF next = 0 THEN reader.cut ELSE ById(i).ts < next
  <2>1. TwinAbove(i) \/ In(i, seen) \/ In(i, out) \/ Ahead(i)
    BY <1>10 DEF Reading, NothingLost, seen, out
  <2>2. In(i, seen) \/ In(i, out) => In(i, seen \o out)
    BY <1>2, JoinIn
  <2>3. Ahead(i) => IF next = 0 THEN reader.cut ELSE ById(i).ts < next
    BY <1>1, <1>5 DEF Ahead, out
  <2> QED  BY <2>1, <2>2, <2>3
<1>11. NothingLost'
  <2>1. ASSUME NEW i \in reader'.had, i \in Listed(reader.req)', IsKept(i)
        PROVE  TwinAbove(i)' \/ In(i, reader'.seen) \/ Ahead(i)'
    <3>1. i \in reader.had /\ i \in Listed(reader.req)
      BY <1>1, <1>4, <2>1 DEF Listed, Stored
    <3>2. TwinAbove(i)' <=> TwinAbove(i)
      BY <1>1, <1>4 DEF TwinAbove
    <3>3. (IF next = 0 THEN reader.cut ELSE ById(i).ts < next) => Ahead(i)'
      BY <1>4 DEF Ahead
    <3> QED  BY <1>4, <1>10, <2>1, <3>1, <3>2, <3>3
  <2> QED  BY <1>1, <1>4, <2>1 DEF NothingLost, Listed, Stored, IsKept
<1>12. HadSettled'
  BY <1>1, <1>4, StillFrame, SettledStays DEF Reading, HadSettled
<1> QED  BY <1>7, <1>9, <1>11, <1>12 DEF Reading

(* The rows of a chunk, and those of them that are listed for the request. *)
Below == {e \in ZSet(kv, IndexKey(reader.req)) : reader.high = 0 \/ e[1] < reader.high}
Rows == First(NewestFirst(Below), CHUNK)
GoodOnes == {e \in ToSet(Rows) : e[2] \in Stored /\ Wanted(e[2], reader.req)}
Whole == reader.out \o NewestFirst(GoodOnes)

LEMMA RowsIs ==
    ASSUME Indexed
    PROVE  /\ Below \subseteq Pairs
           /\ Rows \in Seq(Below) /\ Rows \in Seq(Pairs) /\ Descends(Rows) /\ Len(Rows) <= CHUNK
           /\ \A e \in Below : \/ \E k \in DOMAIN Rows : Rows[k] = e
                               \/ Len(Rows) = CHUNK /\ Above(Rows[CHUNK], e)
           /\ \A k \in DOMAIN Rows : Rows[k] \in Below /\ Rows[k] \in Pairs
                                     /\ Rows[k][1] >= Rows[Len(Rows)][1]
<1>1. IsFiniteSet(Below) /\ Below \subseteq Pairs
  <2>1. /\ ZSet(kv, IndexKey(reader.req)) \subseteq Pairs
        /\ IsFiniteSet(ZSet(kv, IndexKey(reader.req)))
    BY IndexedIs
  <2>2. Below \subseteq ZSet(kv, IndexKey(reader.req))
    BY DEF Below
  <2> QED  BY <2>1, <2>2, FS_Subset
<1>2. /\ Rows \in Seq(Below) /\ Descends(Rows) /\ Len(Rows) <= CHUNK
      /\ \A e \in Below : \/ \E k \in DOMAIN Rows : Rows[k] = e
                          \/ Len(Rows) = CHUNK /\ Above(Rows[CHUNK], e)
  BY <1>1, ChunkIs DEF Rows
<1>3. Rows \in Seq(Pairs) /\ \A k \in DOMAIN Rows : Rows[k] \in Below /\ Rows[k] \in Pairs
  BY <1>1, <1>2
<1>4. ASSUME NEW k \in DOMAIN Rows PROVE Rows[k][1] >= Rows[Len(Rows)][1]
  <2>1. Len(Rows) \in DOMAIN Rows
    BY <1>3
  <2>2. DownTo(Rows, Rows[Len(Rows)][1])
    BY <1>2, <1>3, <2>1, DownToLast
  <2> QED  BY <2>2 DEF DownTo
<1> QED  BY <1>1, <1>2, <1>3, <1>4

LEMMA GoodIs ==
    ASSUME Indexed
    PROVE  /\ NewestFirst(GoodOnes) \in Seq(Pairs) /\ Descends(NewestFirst(GoodOnes))
           /\ \A k \in DOMAIN NewestFirst(GoodOnes) :
                \E r \in DOMAIN Rows : NewestFirst(GoodOnes)[k] = Rows[r]
           /\ \A e \in GoodOnes :
                \E k \in DOMAIN NewestFirst(GoodOnes) : NewestFirst(GoodOnes)[k] = e
<1>1. \A e \in GoodOnes : \E r \in DOMAIN Rows : e = Rows[r]
  BY DEF GoodOnes, ToSet
<1>2. IsFiniteSet(ZSet(kv, IndexKey(reader.req)))
  BY IndexedIs
<1>3. \A r \in DOMAIN Rows : Rows[r] \in Below /\ Rows[r] \in Pairs
  BY RowsIs
<1>4. GoodOnes \subseteq Pairs /\ GoodOnes \subseteq ZSet(kv, IndexKey(reader.req))
  BY <1>1, <1>3 DEF Below
<1>5. IsFiniteSet(GoodOnes)
  BY <1>2, <1>4, FS_Subset
<1> DEFINE s == NewestFirst(GoodOnes)
<1>6. /\ s \in Seq(GoodOnes) /\ Descends(s)
      /\ \A e \in GoodOnes : \E k \in DOMAIN s : s[k] = e
  BY <1>4, <1>5, NewestFirstIs
<1> HIDE DEF s
<1>7. s \in Seq(Pairs) /\ \A k \in DOMAIN s : s[k] \in GoodOnes
  BY <1>4, <1>6
<1> QED  BY <1>1, <1>6, <1>7 DEF s

(* A page that is being filled is newest first with what is appended.      *)
LEMMA WholeIs ==
    ASSUME Indexed, Reading, reader.at = "page"
    PROVE  /\ Whole \in Seq(Pairs) /\ Descends(Whole) /\ Follows(reader.seen, Whole)
           /\ \A k \in DOMAIN Rows : \A a \in DOMAIN reader.seen : Above(reader.seen[a], Rows[k])
           /\ \A k \in DOMAIN Rows : \A a \in DOMAIN reader.out : Above(reader.out[a], Rows[k])
<1> DEFINE good == NewestFirst(GoodOnes)
           seen == reader.seen
           out == reader.out
<1>1. /\ seen \in Seq(Pairs) /\ out \in Seq(Pairs) /\ reader.high \in Nat
      /\ Descends(seen) /\ Descends(out) /\ Follows(seen, out)
      /\ reader.high = 0 => seen = <<>> /\ out = <<>>
      /\ DownTo(seen, reader.high) /\ DownTo(out, reader.high)
  BY DEF Reading, ReaderShape, InOrder
<1>2. /\ good \in Seq(Pairs) /\ Descends(good)
      /\ \A k \in DOMAIN good : \E r \in DOMAIN Rows : good[k] = Rows[r]
  BY GoodIs
<1>3. \A r \in DOMAIN Rows : /\ Rows[r] \in Pairs
                             /\ reader.high = 0 \/ Rows[r][1] < reader.high
  BY RowsIs DEF Below
<1>w. Whole = out \o good
  BY DEF Whole
<1> HIDE DEF good, seen, out
<1>4. ASSUME NEW s \in Seq(Pairs), DownTo(s, reader.high), reader.high = 0 => s = <<>>
      PROVE  \A r \in DOMAIN Rows : \A a \in DOMAIN s : Above(s[a], Rows[r])
  <2> SUFFICES ASSUME NEW r \in DOMAIN Rows, NEW a \in DOMAIN s PROVE Above(s[a], Rows[r])
    OBVIOUS
  <2>1. reader.high # 0
    BY <1>4
  <2>2. s[a] \in Pairs /\ s[a][1] >= reader.high
    BY <1>4 DEF DownTo
  <2>3. Rows[r] \in Pairs /\ Rows[r][1] < reader.high
    BY <1>3, <2>1
  <2> QED  BY <1>1, <2>2, <2>3 DEF Above, Pairs
<1>5. /\ \A r \in DOMAIN Rows : \A a \in DOMAIN seen : Above(seen[a], Rows[r])
      /\ \A r \in DOMAIN Rows : \A a \in DOMAIN out : Above(out[a], Rows[r])
  BY <1>1, <1>4
<1>6. Follows(seen, good) /\ Follows(out, good)
  BY <1>2, <1>5 DEF Follows
<1>7. Whole \in Seq(Pairs) /\ Descends(Whole) /\ Follows(seen, Whole)
  BY <1>1, <1>2, <1>6, <1>w, JoinIs, DescendsOn, JoinFollows
<1> QED  BY <1>5, <1>7 DEF seen, out

(* Where a row or an entry beyond the chunk is after the chunk was read.   *)
LEMMA PageIs ==
    ASSUME Indexed, Reading, reader.at = "page"
    PROVE  LET page == First(Whole, LIMIT)
           IN  /\ page \in Seq(Pairs) /\ Descends(page) /\ Follows(reader.seen, page)
               /\ Len(page) <= LIMIT
               /\ \A i : In(i, reader.out) => In(i, page)
               /\ \A k \in DOMAIN page :
                    \/ \E a \in DOMAIN reader.out : page[k] = reader.out[a]
                    \/ \E r \in DOMAIN Rows : page[k] = Rows[r]
               /\ Len(page) = LIMIT =>
                    LIMIT \in DOMAIN page /\ \E r \in DOMAIN Rows : page[LIMIT] = Rows[r]
               /\ \A e \in GoodOnes : \/ \E k \in DOMAIN page : page[k] = e
                                      \/ Len(page) = LIMIT /\ Above(page[LIMIT], e)
<1> DEFINE good == NewestFirst(GoodOnes)
           out == reader.out
           page == First(Whole, LIMIT)
<1>1. out \in Seq(Pairs) /\ Len(out) < LIMIT
  BY DEF Reading, ReaderShape, InOrder
<1>2. /\ good \in Seq(Pairs)
      /\ \A k \in DOMAIN good : \E r \in DOMAIN Rows : good[k] = Rows[r]
      /\ \A e \in GoodOnes : \E k \in DOMAIN good : good[k] = e
  BY GoodIs
<1>3. Whole \in Seq(Pairs) /\ Descends(Whole) /\ Follows(reader.seen, Whole)
  BY WholeIs
<1>4. /\ page \in Seq(Pairs) /\ Len(page) = (IF Len(Whole) < LIMIT THEN Len(Whole) ELSE LIMIT)
      /\ \A k \in 1 .. Len(page) : page[k] = Whole[k] /\ k \in DOMAIN Whole
  BY <1>3, FirstIs
<1>w. Whole = out \o good
  BY DEF Whole
<1> HIDE DEF good, out, page
<1>5. /\ Len(Whole) = Len(out) + Len(good)
      /\ \A k \in 1 .. Len(out) : Whole[k] = out[k]
      /\ \A k \in 1 .. Len(good) : Whole[Len(out) + k] = good[k]
      /\ \A k \in 1 .. Len(out) + Len(good) : k \in 1 .. Len(out) \/ k - Len(out) \in 1 .. Len(good)
  BY <1>1, <1>2, <1>w, JoinIs
<1>6. Descends(page)
  <2> SUFFICES ASSUME NEW a \in 1 .. Len(page), NEW b \in 1 .. Len(page), a < b
               PROVE  Above(page[a], page[b])
    BY <1>4 DEF Descends
  <2> QED  BY <1>3, <1>4 DEF Descends
<1>7. Follows(reader.seen, page)
  <2> SUFFICES ASSUME NEW a \in DOMAIN reader.seen, NEW b \in 1 .. Len(page)
               PROVE  Above(reader.seen[a], page[b])
    BY <1>4 DEF Follows
  <2> QED  BY <1>3, <1>4 DEF Follows
<1>8. Len(page) <= LIMIT
  BY <1>3, <1>4
<1>9. ASSUME NEW i, In(i, out) PROVE In(i, page)
  <2>1. PICK a \in 1 .. Len(out) : out[a][2] = i
    BY <1>1, <1>9 DEF In
  <2>2. a \in 1 .. Len(page) /\ page[a] = out[a]
    BY <1>1, <1>2, <1>4, <1>5
  <2> QED  BY <1>4, <2>1, <2>2 DEF In
<1>10. ASSUME NEW k \in DOMAIN page, k \notin 1 .. Len(out)
       PROVE  \E r \in DOMAIN Rows : page[k] = Rows[r]
  <2>1. k - Len(out) \in 1 .. Len(good) /\ page[k] = Whole[k]
    BY <1>1, <1>2, <1>4, <1>5, <1>10
  <2> DEFINE j == k - Len(out)
  <2>a. Len(out) + j = k
    BY <1>1, <1>4
  <2>b. j \in 1 .. Len(good)
    BY <2>1
  <2> HIDE DEF j
  <2>c. Whole[Len(out) + j] = good[j]
    BY <1>5, <2>b
  <2>2. page[k] = good[j]
    BY <2>1, <2>a, <2>c
  <2> QED  BY <1>2, <2>b, <2>2
<1>11. ASSUME NEW k \in DOMAIN page, k \in 1 .. Len(out)
       PROVE  \E a \in DOMAIN out : page[k] = out[a]
  BY <1>1, <1>4, <1>5, <1>11
<1>12. Len(page) = LIMIT => LIMIT \in DOMAIN page /\ \E r \in DOMAIN Rows : page[LIMIT] = Rows[r]
  BY <1>1, <1>4, <1>10
<1>13. ASSUME NEW e \in GoodOnes
       PROVE  (\E k \in DOMAIN page : page[k] = e) \/ (Len(page) = LIMIT /\ Above(page[LIMIT], e))
  <2>1. PICK k \in 1 .. Len(good) : good[k] = e
    BY <1>2
  <2> DEFINE m == Len(out) + k
  <2>2. m \in 1 .. Len(Whole) /\ Whole[m] = e
    BY <1>1, <1>2, <1>5, <2>1
  <2> HIDE DEF m
  <2>3. CASE m <= Len(page)
    BY <1>4, <2>2, <2>3
  <2>4. CASE ~(m <= Len(page))
    <3>1. Len(page) = LIMIT /\ LIMIT < m /\ LIMIT \in 1 .. Len(Whole) /\ page[LIMIT] = Whole[LIMIT]
      BY <1>3, <1>4, <2>2, <2>4
    <3> QED  BY <1>3, <2>2, <3>1 DEF Descends
  <2> QED  BY <2>3, <2>4
<1> QED  BY <1>4, <1>6, <1>7, <1>8, <1>9, <1>10, <1>11, <1>12, <1>13 DEF page, out

(* What is read next of a chunk: what is ahead of it is still ahead, or has*)
(* a twin above it.                                                        *)
LEMMA ChunkReads ==
    ASSUME Shapes, InHands, Indexed, Reading, ReadChunk
    PROVE  Reading'
<1> DEFINE seen == reader.seen
           page == First(Whole, LIMIT)
           scanned == reader.scanned + Len(Rows)
           high == IF Rows = <<>> THEN reader.high ELSE Rows[Len(Rows)][1]
           full == Len(page) = LIMIT
           dry == Len(Rows) < CHUNK
           tired == scanned >= MAX_SCAN
           K == IndexKey(reader.req)
<1>1. UNCHANGED <<now, kv, wk>> /\ reader.at = "page"
  BY DEF ReadChunk
<1>2. reader' = [reader EXCEPT !.out = page, !.scanned = scanned, !.high = high,
                               !.cut = ~full /\ ~dry /\ tired,
                               !.at = IF full \/ dry \/ tired THEN "answer" ELSE @]
  <2>1. ZRevRange(kv, K, reader.high, CHUNK) = Rows
    BY DEF ZRevRange, Rows, Below, First
  <2> QED  BY <2>1 DEF ReadChunk, GoodOnes, Whole
<1>3. /\ page \in Seq(Pairs) /\ Descends(page) /\ Follows(seen, page) /\ Len(page) <= LIMIT
      /\ \A i : In(i, reader.out) => In(i, page)
      /\ \A k \in DOMAIN page : \/ \E a \in DOMAIN reader.out : page[k] = reader.out[a]
                                \/ \E r \in DOMAIN Rows : page[k] = Rows[r]
      /\ full => LIMIT \in DOMAIN page /\ \E r \in DOMAIN Rows : page[LIMIT] = Rows[r]
      /\ \A e \in GoodOnes : \/ \E k \in DOMAIN page : page[k] = e
                             \/ full /\ Above(page[LIMIT], e)
  BY <1>1, PageIs
<1>4. /\ Rows \in Seq(Pairs) /\ Len(Rows) <= CHUNK
      /\ \A e \in Below : \/ \E k \in DOMAIN Rows : Rows[k] = e
                          \/ Len(Rows) = CHUNK /\ Above(Rows[CHUNK], e)
      /\ \A k \in DOMAIN Rows : Rows[k] \in Below /\ Rows[k] \in Pairs
                                /\ Rows[k][1] >= Rows[Len(Rows)][1]
  BY RowsIs
<1>5. /\ seen \in Seq(Pairs) /\ Descends(seen) /\ reader.high \in Nat
      /\ reader.out \in Seq(Pairs) /\ IsReader(reader)
      /\ \A k \in DOMAIN Rows : \A a \in DOMAIN seen : Above(seen[a], Rows[k])
      /\ \A k \in DOMAIN Rows : \A a \in DOMAIN reader.out : Above(reader.out[a], Rows[k])
  BY <1>1, WholeIs DEF Reading, ReaderShape, InOrder
<1> HIDE DEF page, scanned, tired
<1>6. /\ reader'.out = page /\ reader'.high = high /\ reader'.seen = seen
      /\ reader'.cut = (~full /\ ~dry /\ tired) /\ reader'.req = reader.req
      /\ reader'.had = reader.had
      /\ reader'.at = IF full \/ dry \/ tired THEN "answer" ELSE "page"
  BY <1>1, <1>2, <1>5 DEF IsReader
<1>7. Rows # <<>> => /\ Len(Rows) \in DOMAIN Rows /\ Rows[Len(Rows)] \in Pairs
                     /\ high = Rows[Len(Rows)][1] /\ high \in Nat \ {0}
  BY <1>4 DEF Pairs
<1>8. ~dry => Rows # <<>> /\ Len(Rows) = CHUNK
  BY <1>4
<1> HIDE DEF high
<1>9. ReaderShape'
  <2>1. high \in Nat
    BY <1>5, <1>7 DEF high
  <2>2. IsReader(reader')
    BY <1>2, <1>5, ReaderSet
  <2> QED  BY <1>3, <1>5, <1>6, <2>1, <2>2 DEF ReaderShape, IsReader
<1>10. Rows # <<>> => DownTo(seen, high) /\ DownTo(page, high)
  <2> SUFFICES ASSUME Rows # <<>> PROVE DownTo(seen, high) /\ DownTo(page, high)
    OBVIOUS
  <2> DEFINE n == Len(Rows)
  <2>1. n \in DOMAIN Rows /\ Rows[n] \in Pairs /\ high = Rows[n][1]
    BY <1>7
  <2> HIDE DEF n
  <2>2. ASSUME NEW e \in Pairs, Above(e, Rows[n]) PROVE e[1] >= high
    BY <2>1, <2>2 DEF Above, Pairs
  <2>3. \A a \in DOMAIN seen : seen[a] \in Pairs /\ Above(seen[a], Rows[n])
    BY <1>5, <2>1
  <2>4. \A a \in DOMAIN reader.out : reader.out[a] \in Pairs /\ Above(reader.out[a], Rows[n])
    BY <1>5, <2>1
  <2>5. \A r \in DOMAIN Rows : Rows[r][1] >= high
    BY <1>4, <2>1 DEF n
  <2>6. DownTo(seen, high)
    BY <2>2, <2>3 DEF DownTo
  <2>7. DownTo(page, high)
    BY <1>3, <2>2, <2>4, <2>5 DEF DownTo
  <2> QED  BY <2>6, <2>7
<1>11. InOrder'
  <2>1. ASSUME ~full, ~dry
        PROVE  /\ Len(page) < LIMIT /\ high # 0 /\ DownTo(seen, high) /\ DownTo(page, high)
    BY <1>3, <1>7, <1>8, <1>10, <2>1
  <2> HIDE DEF full, dry
  <2> QED  BY <1>3, <1>5, <1>6, <2>1 DEF InOrder
<1>12. ASSUME NEW i \in reader.had, i \in Listed(reader.req), IsKept(i)
       PROVE  \/ TwinAbove(i) \/ In(i, seen) \/ In(i, page)
              \/ IF full THEN ById(i).ts < page[LIMIT][1]
                 ELSE IF dry THEN FALSE ELSE tired \/ ById(i).ts < high
  <2> DEFINE x == Entry(i)
  <2>1. x \in ZSet(kv, K) /\ x \in Pairs /\ i \in Stored /\ Wanted(i, reader.req)
    BY <1>12, ListedIs
  <2>2. x[1] = ById(i).ts /\ x[2] = i
    BY DEF Entry
  <2>3. \A r \in DOMAIN Rows : Rows[r] \in ZSet(kv, K) /\ Rows[r] \in Pairs
    BY <1>4 DEF Below
  <2> HIDE DEF x
  <2>4. ASSUME NEW e \in ZSet(kv, K), e \in Pairs, Above(e, x)
        PROVE  TwinAbove(i) \/ x[1] < e[1]
    BY <2>1, <2>2, <2>4 DEF TwinAbove, Above, Pairs
  <2>5. CASE Ahead(i) /\ \E r \in DOMAIN Rows : Rows[r] = x
    <3>1. x \in GoodOnes
      BY <2>1, <2>2, <2>5 DEF GoodOnes, ToSet
    <3>2. CASE \E k \in DOMAIN page : page[k] = x
      BY <2>2, <3>2 DEF In
    <3>3. CASE full /\ Above(page[LIMIT], x)
      <4>1. page[LIMIT] \in ZSet(kv, K) /\ page[LIMIT] \in Pairs
        BY <1>3, <2>3, <3>3
      <4> QED  BY <2>2, <2>4, <3>3, <4>1
    <3> QED  BY <1>3, <3>1, <3>2, <3>3
  <2>6. CASE Ahead(i) /\ ~\E r \in DOMAIN Rows : Rows[r] = x
    <3>1. x \in Below
      BY <1>1, <2>1, <2>2, <2>6 DEF Below, Ahead
    <3>2. Len(Rows) = CHUNK /\ Above(Rows[CHUNK], x)
      BY <1>4, <2>6, <3>1
    <3>3. CHUNK \in DOMAIN Rows /\ Rows # <<>>
      BY <1>4, <3>2
    <3>4. high = Rows[CHUNK][1] /\ ~dry
      BY <1>7, <3>2, <3>3
    <3>5. TwinAbove(i) \/ x[1] < high
      BY <2>3, <2>4, <3>2, <3>3, <3>4
    <3>6. full => page[LIMIT][1] >= high
      BY <1>3, <1>10, <3>3 DEF DownTo
    <3>7. full => page[LIMIT] \in Pairs
      BY <1>3
    <3>8. x[1] \in Nat /\ high \in Nat
      BY <1>7, <2>1, <3>3 DEF Pairs
    <3>9. full => TwinAbove(i) \/ x[1] < page[LIMIT][1]
      BY <3>5, <3>6, <3>7, <3>8 DEF Pairs
    <3> HIDE DEF full, dry
    <3> QED  BY <2>2, <3>4, <3>5, <3>9
  <2>7. CASE ~Ahead(i)
    <3>1. TwinAbove(i) \/ In(i, seen) \/ In(i, reader.out)
      BY <1>12, <2>7 DEF Reading, NothingLost
    <3> QED  BY <1>3, <3>1
  <2> QED  BY <2>5, <2>6, <2>7
<1>13. NothingLost'
  <2>1. ASSUME NEW i \in reader'.had, i \in Listed(reader.req)', IsKept(i)
        PROVE  TwinAbove(i)' \/ In(i, reader'.seen) \/ In(i, reader'.out) \/ Ahead(i)'
    <3>1. i \in reader.had /\ i \in Listed(reader.req)
      BY <1>1, <1>6, <2>1 DEF Listed, Stored
    <3>2. TwinAbove(i)' <=> TwinAbove(i)
      BY <1>1, <1>6 DEF TwinAbove
    <3>3. ASSUME IF full THEN ById(i).ts < page[LIMIT][1]
                 ELSE IF dry THEN FALSE ELSE tired \/ ById(i).ts < high
          PROVE  Ahead(i)'
      <4>1. CASE reader'.at = "answer"
        <5>1. Len(reader'.out) = LIMIT <=> full
          BY <1>6
        <5>2. ~full => reader'.cut
          <6> HIDE DEF full, dry
          <6> QED  BY <1>6, <3>3, <4>1
        <5> QED  BY <1>6, <3>3, <4>1, <5>1, <5>2 DEF Ahead
      <4>2. CASE reader'.at = "page"
        <5>1. ~full /\ ~dry /\ ~tired
          <6> HIDE DEF full, dry
          <6> QED  BY <1>6, <4>2
        <5> QED  BY <1>6, <3>3, <4>2, <5>1 DEF Ahead
      <4> QED  BY <1>6, <4>1, <4>2
    <3> QED  BY <1>6, <1>12, <2>1, <3>1, <3>2, <3>3
  <2> QED  BY <1>1, <1>6, <2>1 DEF NothingLost, Listed, Stored, IsKept
<1>14. HadSettled'
  BY <1>1, <1>6, StillFrame, SettledStays DEF Reading, HadSettled
<1> QED  BY <1>9, <1>11, <1>13, <1>14 DEF Reading

-----------------------------------------------------------------------------

LEMMA InitReading == Init => InHands /\ Indexed /\ Reading
<1> SUFFICES ASSUME Init PROVE InHands /\ Indexed /\ Reading
  OBVIOUS
<1>1. /\ \A w \in Worker : NoHands(wk[w])
      /\ DOMAIN kv.zset = {} /\ reader = NoReader
  BY DEF Init, Idle, Empty, NoHands
<1>2. InHands
  BY <1>1, NoHandsIs DEF InHands
<1>3. Indexed
  BY <1>1 DEF Indexed
<1>4. reader.seen = <<>> /\ reader.out = <<>> /\ reader.had = {} /\ reader.at = "no" /\ reader.high = 0
  BY <1>1 DEF NoReader
<1>5. ReaderShape
  <2>1. IsReader(NoReader)
    BY DEF IsReader, NoReader
  <2>2. <<>> \in Seq(Pairs)
    OBVIOUS
  <2> QED  BY <1>1, <1>4, <2>1, <2>2 DEF ReaderShape
<1>6. InOrder
  BY <1>4 DEF InOrder, Descends, Follows
<1>7. NothingLost /\ HadSettled
  BY <1>4 DEF NothingLost, HadSettled
<1> QED  BY <1>2, <1>3, <1>5, <1>6, <1>7 DEF Reading

LEMMA NextReading ==
    Claims /\ InHands /\ Indexed /\ Reading /\ [Next]_vars => (InHands /\ Indexed /\ Reading)'
<1> SUFFICES ASSUME Claims, InHands, Indexed, Reading, [Next]_vars
             PROVE  (InHands /\ Indexed /\ Reading)'
  OBVIOUS
<1>1. Shapes
  BY DEF Claims
<1>2. Frame /\ InHands'
  BY <1>1, NextFrame
<1>3. Indexed'
  BY <1>1, <1>2, IndexedNext
<1>4. ASSUME reader' = reader PROVE Reading'
  BY <1>1, <1>2, <1>4, ReadingKept
<1>5. ASSUME OpenFeed \/ ReadChunk \/ Answer PROVE Reading'
  BY <1>1, <1>5, OpenReads, ChunkReads, AnswerReads
<1>6. reader' = reader \/ OpenFeed \/ ReadChunk \/ Answer
  <2>1. ASSUME NEW w \in Worker, Cycle(w) \/ Kill(w)
        PROVE  reader' = reader
    <3>1. CASE \/ StartCycle(w) \/ SkipSource(w) \/ Collect(w) \/ RefuseSignIn(w)
               \/ CheckBudget(w) \/ Request(w) \/ Charge(w) \/ FailRequest(w)
      BY <3>1 DEF StartCycle, SkipSource, Collect, RefuseSignIn, CheckBudget, Request,
                  Charge, FailRequest
    <3>2. CASE \/ Lookup(w) \/ Claim(w) \/ CountAuthor(w) \/ ExpireAuthor(w)
               \/ WriteBody(w) \/ WriteIndex(w) \/ Trim(w) \/ Report(w) \/ Kill(w)
      BY <3>2 DEF Lookup, Claim, CountAuthor, ExpireAuthor, WriteBody, WriteIndex, Trim,
                  Report, Kill
    <3> QED  BY <2>1, <3>1, <3>2 DEF Cycle
  <2>2. CASE Tick \/ Sweep \/ UNCHANGED vars
    BY <2>2 DEF Tick, Sweep, vars
  <2> QED  BY <2>1, <2>2 DEF Next
<1> QED  BY <1>2, <1>3, <1>4, <1>5, <1>6

(* A reader that follows next sees no post twice and everything that was   *)
(* listed, still is and is not too old to be kept, but for twins and what a*)
(* scan gave up, for every size of page, chunk, scan and index, although   *)
(* environments store posts and the clock ticks between any two chunks.    *)
THEOREM NextMissesNothing == Spec => []NextReachesEverything
<1>1. Indexed /\ Reading => NextReachesEverything
  <2> SUFFICES ASSUME Indexed, Reading PROVE NextReachesEverything
    OBVIOUS
  <2>1. \A a, b \in DOMAIN reader.seen : a < b => Above(reader.seen[a], reader.seen[b])
    BY DEF Reading, InOrder, Descends
  <2>2. ASSUME reader.at = "done", ~reader.cut, NEW i \in reader.had, i \in Listed(reader.req),
               IsKept(i)
        PROVE  \/ \E e \in ZSet(kv, IndexKey(reader.req)) : e[1] = ById(i).ts /\ e[2] # i
               \/ \E a \in DOMAIN reader.seen : reader.seen[a][2] = i
    <3>1. TwinAbove(i) \/ In(i, reader.seen) \/ In(i, reader.out) \/ Ahead(i)
      BY <2>2 DEF Reading, NothingLost
    <3>2. ~Ahead(i) /\ ~In(i, reader.out)
      BY <2>2 DEF Ahead, In, Reading, InOrder
    <3>3. i \in Nat
      BY <2>2, ListedIs DEF Settled, PostIds
    <3>4. \A e \in ZSet(kv, IndexKey(reader.req)) : e[2] \in Nat
      BY IndexedIs DEF Pairs
    <3>5. CASE TwinAbove(i)
      BY <3>3, <3>4, <3>5 DEF TwinAbove
    <3> QED  BY <3>1, <3>2, <3>5 DEF In
  <2> QED  BY <2>1, <2>2 DEF NextReachesEverything, IsKept
<1> QED  BY <1>1, InitClaims, NextClaims, InitReading, NextReading, PTL DEF Spec

=============================================================================
