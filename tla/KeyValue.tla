------------------------------- MODULE KeyValue -------------------------------
(***************************************************************************)
(* The slice of Redis that the fixtures and social workers need, as        *)
(* DynamoKV answers it from a DynamoDB table: strings and counters with an *)
(* expiry, hashes, and sorted sets of <<score, member>>.                   *)
(*                                                                         *)
(* Source: backend/onside/store/kv.py.                                     *)
(*                                                                         *)
(* Each operator is one call and takes the table and the time; exp = 0 is  *)
(* an item without an expiry.  An expired item is gone for a reader and    *)
(* stays in the table until DynamoDB sweeps it; Redis is the case in which *)
(* the sweep is immediate.                                                 *)
(***************************************************************************)
EXTENDS Integers, FiniteSets, Sequences

Nothing == 0     \* what a missing key reads as (no stored value is 0)

Empty == [str |-> <<>>, hash |-> <<>>, zset |-> <<>>]

Expired(kv, k, now) == kv.str[k].exp # 0 /\ kv.str[k].exp < now
Live(kv, k, now) == k \in DOMAIN kv.str /\ ~Expired(kv, k, now)
Until(ex, now) == IF ex = 0 THEN 0 ELSE now + ex

(* The function with k set to e, whether or not it had it. *)
With(f, k, e) == [x \in DOMAIN f \cup {k} |-> IF x = k THEN e ELSE f[x]]

Get(kv, k, now) == IF Live(kv, k, now) THEN kv.str[k].v ELSE Nothing
MGet(kv, keys, now) == [k \in keys |-> Get(kv, k, now)]

Put(kv, k, v, ex, now) ==
    [kv EXCEPT !.str = With(@, k, [v |-> v, exp |-> Until(ex, now)])]

(* A mutant: an item is free one tick early. *)
IsFreeAtExpiry(kv, k, now) ==
    k \notin DOMAIN kv.str \/ (kv.str[k].exp # 0 /\ kv.str[k].exp <= now)

(* set with nx: the condition of the put looks at exp itself. *)
IsFree(kv, k, now) == k \notin DOMAIN kv.str \/ Expired(kv, k, now)

(* ADD works on the item in the table, expired or not, and leaves exp be. *)
Counter(kv, k) == IF k \in DOMAIN kv.str THEN kv.str[k] ELSE [v |-> 0, exp |-> 0]
IncrBy(kv, k, n) ==
    [kv EXCEPT !.str = With(@, k, [Counter(kv, k) EXCEPT !.v = @ + n])]

Expire(kv, k, ex, now) ==
    [kv EXCEPT !.str = With(@, k, [Counter(kv, k) EXCEPT !.exp = now + ex])]

Swept(kv, ks) == [kv EXCEPT !.str = [j \in DOMAIN @ \ ks |-> @[j]]]

HGetAll(kv, h) == IF h \in DOMAIN kv.hash THEN kv.hash[h] ELSE <<>>
HSet(kv, h, field, v) == [kv EXCEPT !.hash = With(@, h, With(HGetAll(kv, h), field, v))]

-----------------------------------------------------------------------------
(* Sorted sets.  The sort key is the fixed-width score, then the member. *)

ZSet(kv, z) == IF z \in DOMAIN kv.zset THEN kv.zset[z] ELSE {}
ZPut(kv, z, entries) == [kv EXCEPT !.zset = With(@, z, entries)]
ZAdd(kv, z, member, score) == ZPut(kv, z, ZSet(kv, z) \cup {<<score, member>>})

Above(a, b) == a[1] > b[1] \/ (a[1] = b[1] /\ a[2] > b[2])
NewestFirst(entries) ==
    [i \in 1 .. Cardinality(entries) |->
        CHOOSE e \in entries : Cardinality({d \in entries : Above(d, e)}) = i - 1]

(* zrevrangebyscore from below high (0: from the top), at most num. *)
ZRevRange(kv, z, high, num) ==
    LET rows == NewestFirst({e \in ZSet(kv, z) : high = 0 \/ e[1] < high})
    IN  SubSeq(rows, 1, IF Len(rows) < num THEN Len(rows) ELSE num)

ZTrimRank(kv, z, keep) ==
    ZPut(kv, z, {e \in ZSet(kv, z) : Cardinality({d \in ZSet(kv, z) : Above(d, e)}) < keep})
ZTrimScore(kv, z, max) == ZPut(kv, z, {e \in ZSet(kv, z) : e[1] > max})

=============================================================================
