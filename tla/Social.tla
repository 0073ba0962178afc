-------------------------------- MODULE Social --------------------------------
(***************************************************************************)
(* The social worker, the store it fills and a reader of the feed.  A      *)
(* cycle plans from the fixtures snapshot, asks every network that is on,  *)
(* drops what is stored, repeated or over its author's cap, and stores the *)
(* rest with its index entries.  Two environments may run a cycle at once  *)
(* (the schedule delivers at least once), and one may be killed between    *)
(* any two calls to the store.                                             *)
(*                                                                         *)
(* Sources: backend/onside/workers/social.py, social/store.py,             *)
(* social/sources.py.                                                      *)
(*                                                                         *)
(* A search finds the posts, published by now, that mention something it   *)
(* asks for.  A tick of the clock is hours and a cycle is minutes: the     *)
(* clock ticks between cycles, or once at any point of one.  The entries of*)
(* one post are indexed in a step, and the trims of one batch in another.  *)
(***************************************************************************)
EXTENDS SocialPlan, KeyValue

CONSTANTS
    Worker,             \* execution environments
    Raw,                \* posts: [id, net, author, words, ts, lang, says, flags]
    Snapshots,          \* the fixtures snapshots a cycle may find, as a sequence
    Networks,           \* the sources, in order
    OffSets,            \* sets of networks without a key
    Requests,           \* feed requests: [topic, net, lang]
    AUTHOR_CAP, AUTHOR_WINDOW, KEEP_ALL, KEEP_EACH,
    X_PAGE, X_BUDGET, DAY,
    CHUNK, MAX_SCAN, LIMIT,
    MaxNow, MaxCycles, MaxTroubles   \* bounds (kills and failures together)

ASSUME SocialConstants ==
    /\ \A p, q \in Raw : p.id = q.id => p = q
    /\ IsFiniteSet(Raw) /\ IsFiniteSet(Worker) /\ Worker # {}
    /\ MAX_AGE \in Nat \ {0} /\ AUTHOR_CAP \in Nat \ {0} /\ AUTHOR_WINDOW \in Nat
    /\ X_PAGE \in Nat \ {0} /\ X_BUDGET \in Nat /\ DAY \in Nat \ {0}
    /\ LIMIT \in Nat \ {0} /\ MaxNow \in Nat

(* An entry is ordered by its time and its id; pages and indexes have sizes. *)
ASSUME IndexConstants ==
    /\ \A p \in Raw : p.id \in Nat /\ p.ts \in Nat
    /\ CHUNK \in Nat \ {0} /\ KEEP_ALL \in Nat /\ KEEP_EACH \in Nat

VARIABLES
    now,        \* the time
    off,        \* the networks that have no key
    kv,         \* the store
    wk,         \* worker -> where its cycle is, with its locals
    reader,     \* one reader that follows "next" to the end
    billed,     \* history: day -> posts X has billed
    passed,     \* history: post -> when it last passed its author's cap (0: never)
    spent       \* cycles, kills and failures so far, and the failures X billed

vars == <<now, off, kv, wk, reader, billed, passed, spent>>

PostIds == {p.id : p \in Raw}
Posts == [i \in PostIds |-> CHOOSE p \in Raw : p.id = i]
ById(i) == Posts[i]
Plans == [n \in DOMAIN Snapshots |-> Plan(Snapshots[n])]
PostKey(i) == <<"post", i>>
Fingerprint(p) == <<"fp", p.net, p.author, p.words>>
AuthorKey(p) == <<"author", p.net, p.author>>
SpentKey == <<"reads", now \div DAY>>
Stored == {i \in PostIds : Live(kv, PostKey(i), now)}

Idle ==
    [ at |-> "idle", began |-> 0, plan |-> 0, todo |-> <<>>, asks |-> <<>>, found |-> {},
      batch |-> {}, cur |-> [id |-> 0, topics |-> {}], out |-> {} ]
NoReader ==
    [ at |-> "no", req |-> [topic |-> "", net |-> "", lang |-> ""], before |-> 0, high |-> 0,
      out |-> <<>>, scanned |-> 0, seen |-> <<>>, had |-> {}, cut |-> FALSE ]

Init ==
    /\ now = 1 /\ off \in OffSets /\ kv = Empty
    /\ wk = [w \in Worker |-> Idle] /\ reader = NoReader
    /\ billed = [d \in 0 .. MaxNow \div DAY |-> 0]
    /\ passed = [i \in PostIds |-> 0]
    /\ spent = [cycles |-> 0, kills |-> 0, failures |-> 0, lost |-> 0]

-----------------------------------------------------------------------------
(* workers/social.py: cycle *)

At(w, place) == wk[w].at = place
Source(w) == Head(wk[w].todo)
PlanOf(w) == Plans[wk[w].plan]
SetSource(store, net, state) == HSet(store, "sources", net, state)

(* On to the next source, and out of the cycle after the last one. *)
NextSource(w) ==
    LET rest == Tail(wk[w].todo)
    IN  wk' = [wk EXCEPT ![w] = IF rest = <<>> THEN Idle
                                ELSE [Idle EXCEPT !.at = "source", !.todo = rest,
                                                  !.began = wk[w].began,
                                                  !.plan = wk[w].plan]]

StartCycle(w) ==
    /\ At(w, "idle") /\ spent.cycles < MaxCycles
    /\ spent' = [spent EXCEPT !.cycles = @ + 1]
    /\ \E n \in DOMAIN Snapshots :
        LET ids == {f.id : f \in ToSet(Plans[n].fixtures)} \cup ToSet(Plans[n].codes)
        IN  /\ kv' = Put(kv, <<"topics">>, ids, 0, now)
            /\ wk' = [wk EXCEPT ![w] = [Idle EXCEPT !.at = "source", !.began = now,
                                                    !.plan = n, !.todo = Networks]]
    /\ UNCHANGED <<now, off, reader, billed, passed>>

SkipSource(w) ==
    /\ At(w, "source") /\ Source(w) \in off
    /\ kv' = SetSource(kv, Source(w), "off")
    /\ NextSource(w)
    /\ UNCHANGED <<now, off, reader, billed, passed, spent>>

-----------------------------------------------------------------------------
(* sources.py *)

Search(net, ask) ==
    {p \in Raw : p.net = net /\ p.ts <= now /\ (ask[1] = {} \/ ask[1] \cap p.says # {})}

(* What normalise and _keep leave of the posts found by one query. *)
Keep(w, posts, via) ==
    {[id |-> p.id, topics |-> Classify(p.says, PlanOf(w), via)] :
        p \in {q \in posts : Normalised(q) /\ Kept(q, PlanOf(w), via, now)}}

(* save's unique: a post found by two queries keeps the topics of both. *)
Unique(found) ==
    {[id |-> i, topics |-> UNION {f.topics : f \in {g \in found : g.id = i}}] :
        i \in {f.id : f \in found}}

(* The source raises: what it had found in this cycle is not saved. *)
FailSource(w) ==
    /\ kv' = SetSource(kv, Source(w), "error")
    /\ NextSource(w)

(* Mastodon, Bluesky and Reddit: one failing query costs its own answer,   *)
(* and the source fails when all of them do or Bluesky refuses the sign-in.*)
Collect(w) ==
    /\ At(w, "source") /\ Source(w) \notin off \cup {"x"}
    /\ \E asks \in {PlanOf(w).queries[Source(w)]} :
        \E failed \in SUBSET DOMAIN asks :
            /\ spent.kills + spent.failures + Cardinality(failed) <= MaxTroubles
            /\ spent' = [spent EXCEPT !.failures = @ + Cardinality(failed)]
            /\ IF failed # {} /\ failed = DOMAIN asks
               THEN FailSource(w)
               ELSE /\ wk' = [wk EXCEPT ![w].at = "lookup",
                                ![w].found = UNION {Keep(w, Search(Source(w), asks[i]), asks[i][2]) :
                                                        i \in DOMAIN asks \ failed}]
                    /\ UNCHANGED kv
    /\ UNCHANGED <<now, off, reader, billed, passed>>

RefuseSignIn(w) ==
    /\ At(w, "source") /\ Source(w) = "bluesky" /\ Source(w) \notin off
    /\ spent.kills + spent.failures < MaxTroubles
    /\ spent' = [spent EXCEPT !.failures = @ + 1]
    /\ FailSource(w)
    /\ UNCHANGED <<now, off, reader, billed, passed>>

(* X.collect: the budget is read before each request and charged after it. *)
Remaining ==
    LET used == Get(kv, SpentKey, now)
    IN  IF used > X_BUDGET THEN 0 ELSE X_BUDGET - used

AskingX(w) == At(w, "budget") \/ (At(w, "source") /\ Source(w) = "x" /\ "x" \notin off)
Asks(w) == IF At(w, "source") THEN PlanOf(w).queries["x"] ELSE wk[w].asks

CheckBudget(w) ==
    /\ AskingX(w)
    /\ wk' = [wk EXCEPT ![w].asks = Asks(w),
                        ![w].at = IF Asks(w) = <<>> \/ Remaining < X_PAGE
                                  THEN "lookup" ELSE "request"]
    /\ UNCHANGED <<now, off, kv, reader, billed, passed, spent>>

(* What X may answer with, and bills: as much of what it finds as a page takes. *)
Pages(w) ==
    LET tweets == Search("x", Head(wk[w].asks))
        size == IF Cardinality(tweets) < X_PAGE THEN Cardinality(tweets) ELSE X_PAGE
    IN  {page \in SUBSET tweets : Cardinality(page) = size}

Request(w) ==
    /\ At(w, "request")
    /\ \E page \in Pages(w) :
            /\ billed' = [billed EXCEPT ![now \div DAY] = @ + Cardinality(page)]
            /\ wk' = [wk EXCEPT ![w].at = "charge", ![w].batch = page]
    /\ UNCHANGED <<now, off, kv, reader, passed, spent>>

(* A mutant: only the posts that are kept are charged. *)
ChargeKept(w) ==
    /\ At(w, "charge")
    /\ LET kept == Keep(w, wk[w].batch, Head(wk[w].asks)[2])
       IN  /\ kv' = Expire(IncrBy(kv, SpentKey, Cardinality(kept)), SpentKey, 3 * DAY, now)
           /\ wk' = [wk EXCEPT ![w].at = "budget", ![w].asks = Tail(@), ![w].batch = {},
                               ![w].found = @ \cup kept]
    /\ UNCHANGED <<now, off, reader, billed, passed, spent>>

Charge(w) ==
    /\ At(w, "charge")
    /\ kv' = Expire(IncrBy(kv, SpentKey, Cardinality(wk[w].batch)), SpentKey, 3 * DAY, now)
    /\ wk' = [wk EXCEPT ![w].at = "budget", ![w].asks = Tail(@), ![w].batch = {},
                        ![w].found = @ \cup Keep(w, wk[w].batch, Head(wk[w].asks)[2])]
    /\ UNCHANGED <<now, off, reader, billed, passed, spent>>

(* X refuses the request, or answers and bills it and the answer is lost:  *)
(* it comes after the timeout, or does not parse.  Neither is charged.     *)
FailRequest(w) ==
    /\ At(w, "request") /\ spent.kills + spent.failures < MaxTroubles
    /\ \/ /\ spent' = [spent EXCEPT !.failures = @ + 1]
          /\ UNCHANGED billed
       \/ /\ spent' = [spent EXCEPT !.failures = @ + 1, !.lost = @ + 1]
          /\ \E page \in Pages(w) :
                billed' = [billed EXCEPT ![now \div DAY] = @ + Cardinality(page)]
    /\ FailSource(w)
    /\ UNCHANGED <<now, off, reader, passed>>

-----------------------------------------------------------------------------
(* store.py: fresh and save *)

(* The loops take the posts in their order. *)
IsFirst(p, posts) == p \in posts /\ \A q \in posts : p.id <= q.id

Lookup(w) ==
    /\ At(w, "lookup")
    /\ wk' = [wk EXCEPT ![w].at = "claim", ![w].found = {},
                        ![w].batch = {p \in Unique(wk[w].found) : p.id \notin Stored}]
    /\ UNCHANGED <<now, off, kv, reader, billed, passed, spent>>

(* SET NX on the fingerprint. *)
Claim(w) ==
    /\ At(w, "claim")
    /\ \E p \in wk[w].batch :
        /\ IsFirst(p, wk[w].batch)
        /\ LET fp == Fingerprint(ById(p.id))
           IN   IF IsFree(kv, fp, now)
                THEN /\ kv' = Put(kv, fp, p.id, MAX_AGE, now)
                     /\ wk' = [wk EXCEPT ![w].at = "count", ![w].batch = @ \ {p}, ![w].cur = p]
                ELSE /\ wk' = [wk EXCEPT ![w].batch = @ \ {p}]
                     /\ UNCHANGED kv
    /\ UNCHANGED <<now, off, reader, billed, passed, spent>>

(* INCR the author's counter; its first post also sets the expiry. *)
CountAuthor(w) ==
    /\ At(w, "count")
    /\ LET p == wk[w].cur
           key == AuthorKey(ById(p.id))
           n == Counter(kv, key).v + 1
       IN  /\ kv' = IncrBy(kv, key, 1)
           /\ wk' = [wk EXCEPT ![w].at = IF n = 1 THEN "expire" ELSE "claim",
                               ![w].out = IF n > AUTHOR_CAP THEN @ ELSE @ \cup {p}]
           /\ passed' = IF n > AUTHOR_CAP THEN passed ELSE [passed EXCEPT ![p.id] = now]
    /\ UNCHANGED <<now, off, reader, billed, spent>>

(* A mutant: the counter is put anew with its expiry, and loses its number. *)
PutAuthor(w) ==
    /\ At(w, "expire")
    /\ kv' = Put(kv, AuthorKey(ById(wk[w].cur.id)), 0, AUTHOR_WINDOW, now)
    /\ wk' = [wk EXCEPT ![w].at = "claim"]
    /\ UNCHANGED <<now, off, reader, billed, passed, spent>>

ExpireAuthor(w) ==
    /\ At(w, "expire")
    /\ kv' = Expire(kv, AuthorKey(ById(wk[w].cur.id)), AUTHOR_WINDOW, now)
    /\ wk' = [wk EXCEPT ![w].at = "claim"]
    /\ UNCHANGED <<now, off, reader, billed, passed, spent>>

Indexes(p) ==
    {<<"all">>, <<"net", ById(p.id).net>>} \cup {<<"topic", t>> : t \in p.topics}
KeepOf(z) == IF z = <<"all">> THEN KEEP_ALL ELSE KEEP_EACH

IndexAll(store, p) ==
    [store EXCEPT !.zset = [z \in DOMAIN @ \cup Indexes(p) |->
        ZSet(store, z) \cup IF z \in Indexes(p) THEN {<<ById(p.id).ts, p.id>>} ELSE {}]]
TrimAll(store, posts) ==
    LET touched == UNION {Indexes(p) : p \in posts}
        trimmed(z) == ZSet(ZTrimScore(ZTrimRank(store, z, KeepOf(z)), z, now - MAX_AGE), z)
    IN  [store EXCEPT !.zset = [z \in DOMAIN @ |-> IF z \in touched THEN trimmed(z) ELSE @[z]]]

(* The pipeline: for each post its body, then its entries; then the trims. *)
Unwritten(w) == IF At(w, "claim") THEN wk[w].out ELSE wk[w].batch

WriteBody(w) ==
    /\ At(w, "write") \/ (At(w, "claim") /\ wk[w].batch = {})
    /\ \E p \in Unwritten(w) :
        /\ IsFirst(p, Unwritten(w))
        /\ kv' = Put(kv, PostKey(p.id), p.id, MAX_AGE, now)
        /\ wk' = [wk EXCEPT ![w].at = "index", ![w].batch = Unwritten(w) \ {p}, ![w].cur = p]
    /\ UNCHANGED <<now, off, reader, billed, passed, spent>>

WriteIndex(w) ==
    /\ At(w, "index")
    /\ kv' = IndexAll(kv, wk[w].cur)
    /\ wk' = [wk EXCEPT ![w].at = "write"]
    /\ UNCHANGED <<now, off, reader, billed, passed, spent>>

Trim(w) ==
    /\ At(w, "write") /\ wk[w].batch = {} /\ wk[w].out # {}
    /\ kv' = TrimAll(kv, wk[w].out)
    /\ wk' = [wk EXCEPT ![w].out = {}]
    /\ UNCHANGED <<now, off, reader, billed, passed, spent>>

Report(w) ==
    /\ At(w, "claim") \/ At(w, "write")
    /\ wk[w].batch = {} /\ wk[w].out = {}
    /\ kv' = SetSource(kv, Source(w), "on")
    /\ NextSource(w)
    /\ UNCHANGED <<now, off, reader, billed, passed, spent>>

(* The process or its time limit ends it; the next cycle starts anew. *)
Kill(w) ==
    /\ ~At(w, "idle") /\ spent.kills + spent.failures < MaxTroubles
    /\ spent' = [spent EXCEPT !.kills = @ + 1]
    /\ wk' = [wk EXCEPT ![w] = Idle]
    /\ UNCHANGED <<now, off, kv, reader, billed, passed>>

-----------------------------------------------------------------------------
(* store.py: page, one chunk of the index a step. *)

IndexKey(req) ==
    IF req.topic # "" THEN <<"topic", req.topic>>
    ELSE IF req.net # "" THEN <<"net", req.net>> ELSE <<"all">>

Wanted(i, req) ==
    /\ req.net \in {"", ById(i).net}
    /\ req.lang = "" \/ ById(i).lang \in {"", req.lang}

Listed(req) ==
    {e[2] : e \in {d \in ZSet(kv, IndexKey(req)) : d[2] \in Stored /\ Wanted(d[2], req)}}

OpenFeed ==
    /\ reader.at = "no"
    /\ \E req \in Requests :
        reader' = [NoReader EXCEPT !.at = "page", !.req = req, !.had = Listed(req)]
    /\ UNCHANGED <<now, off, kv, wk, billed, passed, spent>>

(* The loop of one page: it goes on while the page is short, rows come in  *)
(* whole chunks and no more than MAX_SCAN of them were read.  The rows that*)
(* are stored and wanted stay in their order, newest first.                *)
ReadChunk ==
    /\ reader.at = "page"
    /\ \E rows \in {ZRevRange(kv, IndexKey(reader.req), reader.high, CHUNK)} :
        LET good == NewestFirst({e \in ToSet(rows) : e[2] \in Stored /\ Wanted(e[2], reader.req)})
            out == First(reader.out \o good, LIMIT)
            scanned == reader.scanned + Len(rows)
            full == Len(out) = LIMIT
            dry == Len(rows) < CHUNK
        IN  reader' =
              [reader EXCEPT !.out = out, !.scanned = scanned,
                             !.high = IF rows = <<>> THEN @ ELSE rows[Len(rows)][1],
                             !.cut = ~full /\ ~dry /\ scanned >= MAX_SCAN,
                             !.at = IF full \/ dry \/ scanned >= MAX_SCAN THEN "answer" ELSE @]
    /\ UNCHANGED <<now, off, kv, wk, billed, passed, spent>>

(* The cursor is the time of the last post, when the page is full. *)
Cursor(out) == IF Len(out) = LIMIT THEN out[Len(out)][1] ELSE 0

(* A mutant: the cursor is where the scan stopped. *)
AnswerFromScan ==
    /\ reader.at = "answer"
    /\ LET next == IF Len(reader.out) = LIMIT THEN reader.high ELSE 0
       IN  reader' = [reader EXCEPT !.seen = @ \o reader.out, !.out = <<>>, !.scanned = 0,
                                    !.before = next, !.high = next,
                                    !.at = IF next = 0 THEN "done" ELSE "page"]
    /\ UNCHANGED <<now, off, kv, wk, billed, passed, spent>>

Answer ==
    /\ reader.at = "answer"
    /\ LET next == Cursor(reader.out)
       IN  reader' = [reader EXCEPT !.seen = @ \o reader.out, !.out = <<>>, !.scanned = 0,
                                    !.before = next, !.high = next,
                                    !.at = IF next = 0 THEN "done" ELSE "page"]
    /\ UNCHANGED <<now, off, kv, wk, billed, passed, spent>>

-----------------------------------------------------------------------------

(* A cycle ends before the clock ticks twice. *)
Tick ==
    /\ now < MaxNow /\ \A w \in Worker : At(w, "idle") \/ wk[w].began = now
    /\ now' = now + 1
    /\ UNCHANGED <<off, kv, wk, reader, billed, passed, spent>>

(* DynamoDB removes expired items, some time after they expired.  Only a   *)
(* counter can tell: everything else already reads as gone.                *)
Sweep ==
    /\ \E k \in DOMAIN kv.str : Expired(kv, k, now)
    /\ kv' = Swept(kv, {k \in DOMAIN kv.str : Expired(kv, k, now)})
    /\ UNCHANGED <<now, off, wk, reader, billed, passed, spent>>

Cycle(w) ==
    \/ StartCycle(w) \/ SkipSource(w) \/ Collect(w) \/ RefuseSignIn(w)
    \/ CheckBudget(w) \/ Request(w) \/ Charge(w) \/ FailRequest(w)
    \/ Lookup(w) \/ Claim(w) \/ CountAuthor(w) \/ ExpireAuthor(w)
    \/ WriteBody(w) \/ WriteIndex(w) \/ Trim(w) \/ Report(w)

Next ==
    \/ \E w \in Worker : Cycle(w) \/ Kill(w)
    \/ OpenFeed \/ ReadChunk \/ Answer
    \/ Tick \/ Sweep

Spec == Init /\ [][Next]_vars

-----------------------------------------------------------------------------

(* Two environments, or two cycles, that find the same words of the same   *)
(* account do not both store them (store.py:38-41), until the first copy   *)
(* is about to expire: the claim of its words is as long as its body and   *)
(* was made a little earlier (store.py:57, 83).                            *)
WordingsMeetAtExpiry ==
    LET stored == Stored
        last(i) == kv.str[PostKey(i)].exp = now
    IN  \A i \in stored : \A j \in stored \ {i} :
            Fingerprint(ById(i)) = Fingerprint(ById(j)) => last(i) \/ last(j)

(* Of the posts in the store that passed the cap at one time no account has*)
(* more than its cap, or one less than twice its cap when its counter had  *)
(* expired by then: the table goes on counting in the expired item until   *)
(* DynamoDB sweeps it, and from nothing afterwards (store.py:47-48,        *)
(* kv.py:201).  It holds although two environments count at once and a     *)
(* kill may leave a counter without an expiry.                             *)
AccountsAreCapped ==
    LET bodies == {i \in PostIds : PostKey(i) \in DOMAIN kv.str}
        together(i, j) == /\ passed[i] = passed[j]
                          /\ AuthorKey(ById(i)) = AuthorKey(ById(j))
    IN  \A i \in bodies : Cardinality({j \in bodies : together(i, j)}) <= 2 * AUTHOR_CAP - 1

(* X bills no more than the daily budget, but for one page of each further *)
(* environment that had read the budget before it was charged, of each kill*)
(* between a request and its charge, and of each answer that was lost      *)
(* (sources.py:443-465).                                                   *)
ReadsWithinBudget ==
    \A d \in DOMAIN billed :
        billed[d] <= X_BUDGET + X_PAGE * (Cardinality(Worker) - 1 + spent.kills + spent.lost)

(* A reader that followed next to the end saw no post twice, newest first, *)
(* and every post that was listed when it began, still is and is not older *)
(* than a post is kept - except one with the very time of another listed   *)
(* post, which the cursor skips, and what lies behind a scan that gave up  *)
(* (store.py:140-159).                                                     *)
NextReachesEverything ==
    LET seen == reader.seen
        req == reader.req
        kept(i) == now <= ById(i).ts + MAX_AGE
        twin(i) == \E e \in ZSet(kv, IndexKey(req)) : e[1] = ById(i).ts /\ e[2] # i
    IN  /\ \A a, b \in DOMAIN seen : a < b => Above(seen[a], seen[b])
        /\ reader.at = "done" /\ ~reader.cut =>
               \A i \in reader.had \cap Listed(req) :
                    kept(i) => twin(i) \/ \E a \in DOMAIN seen : seen[a][2] = i

=============================================================================
