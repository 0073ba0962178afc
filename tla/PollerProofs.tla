----------------------------- MODULE PollerProofs -----------------------------
(***************************************************************************)
(* The pace and the budget of the poller's requests for every capacity of  *)
(* the bucket, number of attempts, list of competitions, set of big        *)
(* leagues and run of failures.                                            *)
(***************************************************************************)
EXTENDS Poller, FiniteSetTheorems, SequenceTheorems, TLAPS

-----------------------------------------------------------------------------
(* The pace. *)

\* What PacedByBucket leaves out: a request is paid for with a token, so a
\* window's requests and the tokens that are left stay within its buckets and
\* what they were refilled with.  Whether tokens are left is what a reply may
\* depend on, so without them the property is not inductive.
Windows == [on : BOOLEAN, n : Nat, t : Nat, boots : Nat]
Paid ==
    /\ tokens \in 0 .. CAPACITY
    /\ window \in Windows
    /\ window.on => window.n + tokens <= CAPACITY * (1 + window.boots) + window.t

LEMMA CapacityIsPositive == CAPACITY \in Nat /\ CAPACITY > 0
  BY PollerConstants

\* One bucket more.
LEMMA Buckets ==
    ASSUME NEW b \in Nat
    PROVE  /\ CAPACITY * (1 + b) \in Nat /\ CAPACITY * (1 + 0) = CAPACITY
           /\ CAPACITY * (1 + (b + 1)) = CAPACITY * (1 + b) + CAPACITY
  BY CapacityIsPositive

LEMMA PaidAtFirst == ASSUME Init PROVE Paid
<1>1. tokens = CAPACITY /\ window = [on |-> FALSE, n |-> 0, t |-> 0, boots |-> 0]
  BY DEF Init, NoWindow
<1>2. ~window.on /\ window \in Windows
  BY <1>1 DEF Windows
<1> QED
  BY <1>1, <1>2, CapacityIsPositive DEF Paid

\* One attempt takes one token and is one more request of the window.
LEMMA AttemptPays ==
    ASSUME Paid, NEW reply, Attempt(reply)
    PROVE  Paid'
<1>1. tokens \in 1 .. CAPACITY /\ tokens' = tokens - 1 /\ window \in Windows
  BY CapacityIsPositive DEF Attempt, Paid
<1>2. CASE window.on
  <2>1. window' = [window EXCEPT !.n = @ + 1]
    BY <1>2 DEF Attempt
  <2>2. /\ window' \in Windows /\ window'.on /\ window'.n = window.n + 1
        /\ window'.t = window.t /\ window'.boots = window.boots
    BY <1>1, <1>2, <2>1 DEF Windows
  <2>3. window.n + tokens <= CAPACITY * (1 + window.boots) + window.t
    BY <1>2 DEF Paid
  <2>4. window.n \in Nat /\ window'.n + tokens' = window.n + tokens
    BY <1>1, <2>2 DEF Windows
  <2> QED
    BY <1>1, <2>2, <2>3, <2>4, CapacityIsPositive DEF Paid
<1>3. CASE ~window.on
  <2>1. window' = window
    BY <1>3 DEF Attempt
  <2> QED
    BY <1>1, <1>3, <2>1, CapacityIsPositive DEF Paid
<1> QED
  BY <1>2, <1>3

LEMMA StepPays == ASSUME Paid, [Next]_vars PROVE Paid'
<1>0. tokens \in 0 .. CAPACITY /\ window \in Windows /\ NoWindow \in Windows /\ ~NoWindow.on
  BY DEF Paid, Windows, NoWindow
<1>w. /\ window.n \in Nat /\ window.t \in Nat /\ CAPACITY * (1 + window.boots) \in Nat
      /\ window.on => window.n + tokens <= CAPACITY * (1 + window.boots) + window.t
  BY <1>0, Buckets DEF Windows, Paid
<1>1. CASE Unit
  <2>0. tokens' \in 0 .. CAPACITY /\ tokens' <= tokens + 1
    BY <1>0, <1>1, CapacityIsPositive DEF Unit
  <2>1. CASE ~window.on
    BY <1>0, <1>1, <2>0, <2>1 DEF Unit, Paid
  <2>2. CASE window.on /\ window.t = CAPACITY
    BY <1>0, <1>1, <2>0, <2>2 DEF Unit, Paid
  <2>3. CASE window.on /\ window.t # CAPACITY
    <3>1. window' = [window EXCEPT !.t = @ + 1]
      BY <1>1, <2>3 DEF Unit
    <3>2. /\ window' \in Windows /\ window'.n = window.n
          /\ window'.t = window.t + 1 /\ window'.boots = window.boots
      BY <1>0, <3>1 DEF Windows
    <3>3. window'.n + tokens' <= CAPACITY * (1 + window'.boots) + window'.t
      BY <1>0, <1>w, <2>0, <2>3, <3>2
    <3> QED
      BY <2>0, <3>2, <3>3 DEF Paid
  <2> QED
    BY <2>1, <2>2, <2>3
<1>2. CASE OpenWindow
  <2>1. window' = [on |-> TRUE, n |-> 0, t |-> 0, boots |-> 0] /\ tokens' = tokens
    BY <1>2 DEF OpenWindow, NoWindow
  <2>2. window' \in Windows /\ window'.n = 0 /\ window'.t = 0 /\ window'.boots = 0
    BY <2>1 DEF Windows
  <2>3. CAPACITY * (1 + 0) = CAPACITY
    BY Buckets
  <2> QED
    BY <1>0, <2>1, <2>2, <2>3, CapacityIsPositive DEF Paid
<1>3. CASE Boot
  <2>1. tokens' = CAPACITY /\ tokens' \in 0 .. CAPACITY
    BY <1>3, CapacityIsPositive DEF Boot
  <2>2. CASE window.on /\ tokens < CAPACITY
    <3>1. window' = [window EXCEPT !.boots = @ + 1]
      BY <1>3, <2>2 DEF Boot
    <3>2. /\ window' \in Windows /\ window'.n = window.n
          /\ window'.t = window.t /\ window'.boots = window.boots + 1
      BY <1>0, <3>1 DEF Windows
    <3>3. CAPACITY * (1 + window'.boots) = CAPACITY * (1 + window.boots) + CAPACITY
      BY <1>0, <3>2, Buckets DEF Windows
    <3>4. window.n <= CAPACITY * (1 + window.boots) + window.t
      BY <1>0, <1>w, <2>2
    <3> QED
      BY <1>w, <2>1, <3>2, <3>3, <3>4, CapacityIsPositive DEF Paid
  <2>3. CASE ~(window.on /\ tokens < CAPACITY)
    <3>1. window' = window
      BY <1>3, <2>3 DEF Boot
    <3>2. window.on => tokens' = tokens
      BY <1>0, <2>1, <2>3, CapacityIsPositive
    <3> QED
      BY <1>0, <1>w, <2>1, <3>1, <3>2 DEF Paid
  <2> QED
    BY <2>2, <2>3
<1>4. CASE StartTick \/ Publish \/ Finish \/ Kill \/ MissMinute \/ UNCHANGED vars
  <2>1. UNCHANGED <<tokens, window>>
    BY <1>4 DEF StartTick, Publish, Finish, Kill, MissMinute, vars
  <2> QED
    BY <2>1 DEF Paid
<1>5. ASSUME AskWindow \/ AskAhead \/ AskRound \/ AskCompetitions \/ AskTable
             \/ RefuseWindow \/ Again \/ Error
      PROVE  Paid'
  <2>1. PICK reply : Attempt(reply)
    BY <1>5 DEF AskWindow, AskAhead, AskRound, AskCompetitions, AskTable,
                RefuseWindow, Again, Error
  <2> QED
    BY <2>1, AttemptPays
<1> QED
  BY <1>1, <1>2, <1>3, <1>4, <1>5 DEF Next, Work

\* However often attempts fail, are tried again and the process dies, no
\* window of time holds more requests than a full bucket, its refill and a
\* bucket for each process that came in it (http.py:25-34).
THEOREM AlwaysPaced == Spec => []PacedByBucket
<1>1. Init => Paid
  BY PaidAtFirst
<1>2. Paid /\ [Next]_vars => Paid'
  BY StepPays
<1>3. Paid => PacedByBucket
  <2> SUFFICES ASSUME Paid, window.on
               PROVE  window.n <= CAPACITY * (1 + window.boots) + window.t
    BY DEF PacedByBucket
  <2>1. /\ tokens \in Nat /\ window.n \in Nat /\ window.t \in Nat
        /\ CAPACITY * (1 + window.boots) \in Nat
    BY CapacityIsPositive, Buckets DEF Paid, Windows
  <2>2. window.n + tokens <= CAPACITY * (1 + window.boots) + window.t
    BY DEF Paid
  <2> QED
    BY <2>1, <2>2
<1> QED
  BY <1>1, <1>2, <1>3, PTL DEF Spec

-----------------------------------------------------------------------------
(* The budget of a tick. *)

\* Everything the two lists of a memory and of a tick may hold.
BigRounds == {Rounds[i] : i \in DOMAIN Rounds}
Memory ==
    [tick : Nat, codes : {<<>>, ActiveCodes}, age : 0 .. COMPETITIONS_EVERY + 1,
     queue : Seq(BigRounds), ahead : BOOLEAN, rounds : SUBSET BigRounds]
Pieces == {Tables(mem)[i] : mem \in Memory, i \in Nat}

BudgetTypes ==
    /\ p \in [at : {"down", "idle", "publish"} \cup Asking, mem : Memory, try : Nat,
              asked : Nat, left : Seq(Pieces)]
    /\ store = [snap |-> store.snap, state |-> store.state, last |-> store.last]
    /\ store.state \in Memory
    /\ troubled \in BOOLEAN

\* Rounds wait only for competitions that are known, never for more leagues
\* than there are, and a poller that has not finished a tick knows none.
Queued(mem) ==
    /\ Len(mem.queue) <= Len(Rounds)
    /\ mem.codes = <<>> => mem.queue = <<>>
Fresh(mem) == mem.tick = 0 => mem.codes = <<>> /\ mem.queue = <<>>

\* Every tick takes a round off the queue, so the queue is empty when the
\* competitions are due again.
Draining(mem, n) == mem.queue # <<>> => Len(mem.queue) + mem.age <= n

Remembered ==
    /\ Queued(p.mem) /\ Queued(store.state) /\ Fresh(store.state)
    /\ p.at \in {"idle", "window"} => p.mem = store.state
    /\ p.at \in {"ahead", "round", "publish", "competitions"} => Fresh(p.mem)
    /\ p.at = "round" => p.mem.queue # <<>>
    /\ p.at = "competitions" => Due(p.mem)
    /\ ~troubled =>
        /\ p.at \in {"window", "ahead", "round"} => Draining(p.mem, Len(Rounds) + 1)
        /\ p.at \in {"publish", "competitions", "tables"} => Draining(p.mem, Len(Rounds))
        /\ p.at \in {"idle", "down"} => Draining(store.state, Len(Rounds))

\* What a tick may have asked for where it is.
Spent ==
    /\ p.at \in {"window", "down"} => p.asked = 0
    /\ p.at = "ahead" => p.asked <= 1
    /\ p.at = "round" => p.asked <= 2
    /\ p.at \in {"publish", "competitions"} =>
        /\ p.asked <= 3
        /\ p.mem.tick = 0 \/ (~troubled /\ Due(p.mem)) => p.asked <= 2
    /\ p.at = "tables" =>
        p.asked + Len(p.left) <= IF p.mem.tick = 0 THEN 3 + Len(BurstCodes)
                                 ELSE IF troubled THEN 6 ELSE 5

Budget == BudgetTypes /\ Remembered /\ Spent

\* A filtered list is no longer than the list.
LEMMA KeepIsNoLonger ==
    ASSUME NEW s, NEW n \in Nat, NEW places \in SUBSET (1 .. n)
    PROVE  /\ Cardinality(places) \in Nat /\ Cardinality(places) <= n
           /\ DOMAIN Keep(s, places) = 1 .. Cardinality(places)
           /\ \A S : (\A i \in 1 .. Cardinality(places) : Keep(s, places)[i] \in S) =>
                         Keep(s, places) \in Seq(S) /\ Len(Keep(s, places)) = Cardinality(places)
<1>1. IsFiniteSet(1 .. n) /\ Cardinality(1 .. n) = n
  BY FS_Interval
<1>2. Cardinality(places) \in Nat /\ Cardinality(places) <= n
  BY <1>1, FS_Subset, FS_CardinalityType
<1> DEFINE e(k) == s[CHOOSE i \in places : Cardinality({j \in places : j <= i}) = k]
<1>3. Keep(s, places) = [k \in 1 .. Cardinality(places) |-> e(k)]
  BY DEF Keep
<1> HIDE DEF e
<1> QED
  BY <1>2, <1>3

LEMMA RoundsAreFew ==
    /\ Rounds \in Seq(BigRounds)
    /\ Len(Rounds) \in Nat /\ Len(Rounds) < COMPETITIONS_EVERY
    /\ ActiveCodes = <<>> => Rounds = <<>>
<1> DEFINE places == {i \in DOMAIN BURST :
                        /\ Contains(ActiveCodes, BURST[i])
                        /\ \E k \in DOMAIN Comps : Comps[k].code = BURST[i] /\ Comps[k].matchday}
<1>1. Rounds = Keep(BURST, places)
  BY DEF Rounds
<1>2. places \in SUBSET (1 .. Len(BURST)) /\ Len(BURST) \in Nat
  BY PollerConstants
<1>3. ActiveCodes = <<>> => places = {}
  BY DEF Contains
<1> HIDE DEF places
<1>4. /\ Cardinality(places) \in Nat /\ Cardinality(places) <= Len(BURST)
      /\ DOMAIN Rounds = 1 .. Cardinality(places)
      /\ \A S : (\A i \in 1 .. Cardinality(places) : Rounds[i] \in S) =>
                    Rounds \in Seq(S) /\ Len(Rounds) = Cardinality(places)
  BY <1>1, <1>2, KeepIsNoLonger
<1>5. Rounds \in Seq(BigRounds) /\ Len(Rounds) = Cardinality(places)
  BY <1>4 DEF BigRounds
<1>6. ActiveCodes = <<>> => Rounds = <<>>
  BY <1>3, <1>5, FS_EmptySet, EmptySeq
<1> QED
  BY <1>2, <1>4, <1>5, <1>6, PollerConstants

LEMMA BurstOfSome ==
    ASSUME NEW codes
    PROVE  /\ DOMAIN BurstOf(codes) = 1 .. Len(BurstOf(codes)) /\ Len(BurstOf(codes)) \in Nat
           /\ codes = <<>> => Len(BurstOf(codes)) = 0
<1> DEFINE places == {i \in DOMAIN BURST : Contains(codes, BURST[i])}
           all == {BurstOf(codes)[i] : i \in DOMAIN BurstOf(codes)}
<1>1. BurstOf(codes) = Keep(BURST, places)
  BY DEF BurstOf
<1>2. places \in SUBSET (1 .. Len(BURST)) /\ Len(BURST) \in Nat
  BY PollerConstants
<1>3. codes = <<>> => places = {}
  BY DEF Contains
<1> HIDE DEF places
<1>4. /\ Cardinality(places) \in Nat
      /\ DOMAIN BurstOf(codes) = 1 .. Cardinality(places)
      /\ \A S : (\A i \in 1 .. Cardinality(places) : BurstOf(codes)[i] \in S) =>
                    BurstOf(codes) \in Seq(S) /\ Len(BurstOf(codes)) = Cardinality(places)
  <2> HIDE DEF places
  <2>1. places \in SUBSET (1 .. Len(BURST))
    BY <1>2
  <2>2. /\ Cardinality(places) \in Nat
        /\ DOMAIN Keep(BURST, places) = 1 .. Cardinality(places)
        /\ \A S : (\A i \in 1 .. Cardinality(places) : Keep(BURST, places)[i] \in S) =>
                      /\ Keep(BURST, places) \in Seq(S)
                      /\ Len(Keep(BURST, places)) = Cardinality(places)
    BY <1>2, <2>1, KeepIsNoLonger
  <2> QED
    BY <1>1, <2>2
<1>5. \A i \in 1 .. Cardinality(places) : BurstOf(codes)[i] \in all
  BY <1>4
<1>6. Len(BurstOf(codes)) = Cardinality(places)
  BY <1>4, <1>5
<1> QED
  BY <1>3, <1>4, <1>6, FS_EmptySet

LEMMA SeqOfElements ==
    ASSUME NEW S, NEW T, NEW s \in Seq(S), \A i \in 1 .. Len(s) : s[i] \in T
    PROVE  s \in Seq(T)
<1>1. Len(s) \in Nat /\ s \in [1 .. Len(s) -> S]
  BY LenProperties
<1>2. s \in [1 .. Len(s) -> T]
  BY <1>1
<1> QED
  BY <1>1, <1>2

LEMMA TablesAreFew ==
    ASSUME NEW mem \in Memory
    PROVE  /\ Tables(mem) \in Seq(Pieces) /\ Len(Tables(mem)) \in Nat
           /\ mem.tick = 0 => Len(Tables(mem)) <= Len(BurstCodes)
           /\ mem.tick # 0 => Len(Tables(mem)) <= 2
<1>1. \A i \in Nat : Tables(mem)[i] \in Pieces
  BY DEF Pieces
<1>2. Len(BurstCodes) \in Nat
  BY BurstOfSome DEF BurstCodes
<1>3. CASE mem.codes = <<>>
  <2>1. Tables(mem) = <<>>
    BY <1>3 DEF Tables
  <2> QED
    BY <1>2, <2>1, EmptySeq
<1>4. CASE mem.codes # <<>> /\ mem.tick = 0
  <2>1. mem.codes = ActiveCodes
    BY <1>4 DEF Memory
  <2>2. Tables(mem) = [i \in DOMAIN BurstCodes |-> <<"standings", BurstCodes[i]>>]
    BY <1>4, <2>1 DEF Tables, BurstCodes
  <2>3. Tables(mem) = [i \in 1 .. Len(BurstCodes) |-> <<"standings", BurstCodes[i]>>]
    BY <2>2, BurstOfSome DEF BurstCodes
  <2>4. Tables(mem) \in [1 .. Len(BurstCodes) -> Pieces]
    <3>1. \A i \in 1 .. Len(BurstCodes) : Tables(mem)[i] \in Pieces
      BY <1>1, <1>2
    <3> HIDE DEF Pieces
    <3> QED
      BY <2>3, <3>1
  <2>5. Tables(mem) \in Seq(Pieces) /\ Len(Tables(mem)) = Len(BurstCodes)
    BY <1>2, <2>4
  <2> QED
    BY <1>2, <1>4, <2>5
<1>5. CASE mem.codes # <<>> /\ mem.tick # 0
  <2> DEFINE a == <<"standings", Turn(mem.codes, mem.tick)>>
             b == <<"scorers", Turn(mem.codes, mem.tick \div 2)>>
             rest == IF mem.tick % 2 = 0 THEN <<b>> ELSE <<>>
  <2>1. Tables(mem) = <<a>> \o rest
    BY <1>5 DEF Tables
  <2> HIDE DEF a, b
  <2>2. <<a>> \in Seq({a, b}) /\ Len(<<a>>) = 1
    OBVIOUS
  <2>3. rest \in Seq({a, b}) /\ Len(rest) \in {0, 1}
    <3>1. <<b>> \in Seq({a, b}) /\ Len(<<b>>) = 1
      OBVIOUS
    <3>2. <<>> \in Seq({a, b}) /\ Len(<<>>) = 0
      BY EmptySeq
    <3> QED
      BY <3>1, <3>2
  <2> HIDE DEF rest
  <2>4. Tables(mem) \in Seq({a, b}) /\ Len(Tables(mem)) = 1 + Len(rest)
    BY <2>1, <2>2, <2>3, ConcatProperties
  <2>5. \A i \in 1 .. Len(Tables(mem)) : Tables(mem)[i] \in Pieces
    BY <1>1, <2>3, <2>4
  <2>6. Tables(mem) \in Seq(Pieces)
    BY <2>4, <2>5, SeqOfElements
  <2>7. Len(Tables(mem)) \in Nat /\ Len(Tables(mem)) <= 2
    <3> DEFINE r == Len(rest)
               n == Len(Tables(mem))
    <3>1. r \in {0, 1} /\ n = 1 + r
      BY <2>3, <2>4
    <3> HIDE DEF r, n
    <3>2. n \in Nat /\ n <= 2
      BY <3>1
    <3> QED
      BY <3>2 DEF n
  <2> QED
    BY <1>5, <2>6, <2>7
<1> QED
  BY <1>3, <1>4, <1>5

-----------------------------------------------------------------------------
(* The budget is invariant. *)

LEMMA MemoryNumbers ==
    ASSUME NEW mem \in Memory
    PROVE  mem.age \in Nat /\ mem.tick \in Nat /\ Len(mem.queue) \in Nat
<1>1. mem.age \in 0 .. COMPETITIONS_EVERY + 1 /\ mem.tick \in Nat /\ mem.queue \in Seq(BigRounds)
  BY DEF Memory
<1>2. COMPETITIONS_EVERY + 1 \in Nat
  BY PollerConstants
<1>3. Len(mem.queue) \in Nat
  BY <1>1, LenProperties
<1> QED
  BY <1>1, <1>2, <1>3

LEMMA OlderIsAMemory ==
    ASSUME NEW mem \in Memory
    PROVE  /\ Older(mem) \in Memory
           /\ Older(mem).tick = mem.tick /\ Older(mem).codes = mem.codes
           /\ Older(mem).queue = mem.queue
           /\ mem.age <= Older(mem).age /\ Older(mem).age <= mem.age + 1
           /\ Queued(mem) => Queued(Older(mem))
           /\ Fresh(mem) => Fresh(Older(mem))
<1>1. CASE mem.age > COMPETITIONS_EVERY
  <2>1. Older(mem) = mem
    BY <1>1 DEF Older
  <2> QED
    BY <2>1, PollerConstants DEF Memory
<1>2. CASE ~(mem.age > COMPETITIONS_EVERY)
  <2>1. Older(mem) = [mem EXCEPT !.age = @ + 1]
    BY <1>2 DEF Older
  <2>2. mem.age + 1 \in 0 .. COMPETITIONS_EVERY + 1 /\ mem.age \in Nat
    BY <1>2, PollerConstants DEF Memory
  <2>3. /\ Older(mem) \in Memory /\ Older(mem).age = mem.age + 1
        /\ Older(mem).tick = mem.tick /\ Older(mem).codes = mem.codes
        /\ Older(mem).queue = mem.queue
    BY <2>1, <2>2 DEF Memory
  <2> QED
    BY <2>2, <2>3 DEF Queued, Fresh
<1> QED
  BY <1>1, <1>2

LEMMA BlankIsAMemory == Blank \in Memory /\ Queued(Blank) /\ Fresh(Blank)
<1>1. <<>> \in Seq(BigRounds) /\ Len(<<>>) = 0
  BY EmptySeq
<1> QED
  BY <1>1, PollerConstants, RoundsAreFew DEF Blank, Memory, Queued, Fresh

LEMMA BudgetAtFirst == ASSUME Init PROVE Budget
<1>1. p = [at |-> "down", mem |-> Blank, try |-> 1, asked |-> 0, left |-> <<>>]
      /\ store = [snap |-> store.snap, state |-> store.state, last |-> store.last]
      /\ store.state = Blank /\ troubled = FALSE
  BY DEF Init, Process
<1>2. <<>> \in Seq(Pieces)
  BY EmptySeq
<1>3. Blank.queue = <<>>
  BY DEF Blank
<1> QED
  BY <1>1, <1>2, <1>3, BlankIsAMemory DEF Budget, BudgetTypes, Remembered, Spent, Draining

\* The steps at which a tick starts or is cut short.
LEMMA BudgetBetweenTicks ==
    ASSUME Budget, Boot \/ Kill \/ Error \/ MissMinute \/ StartTick \/ RefuseWindow
    PROVE  Budget'
<1>0. /\ p \in [at : {"down", "idle", "publish"} \cup Asking, mem : Memory, try : Nat,
                asked : Nat, left : Seq(Pieces)]
      /\ store = [snap |-> store.snap, state |-> store.state, last |-> store.last]
      /\ store.state \in Memory /\ troubled \in BOOLEAN /\ <<>> \in Seq(Pieces)
      /\ \A mem \in Memory : mem.age \in Nat /\ Len(mem.queue) \in Nat
      /\ Len(Rounds) \in Nat
  BY EmptySeq, RoundsAreFew, MemoryNumbers DEF Budget, BudgetTypes
<1>1. CASE Boot
  <2>1. /\ p' = [at |-> "idle", mem |-> store.state, try |-> 1, asked |-> 0, left |-> <<>>]
        /\ store' = store /\ troubled' = troubled /\ p.at \in {"down", "idle"}
    BY <1>1 DEF Boot, Process, Restore
  <2> QED
    BY <1>0, <2>1 DEF Budget, BudgetTypes, Remembered, Spent
<1>2. CASE Kill \/ Error
  <2>1. /\ p' = [at |-> "down", mem |-> Blank, try |-> 1, asked |-> 0, left |-> <<>>]
        /\ store' = store /\ troubled' = TRUE
    BY <1>2 DEF Kill, Error, Process
  <2> QED
    BY <1>0, <2>1, BlankIsAMemory DEF Budget, BudgetTypes, Remembered, Spent
<1>3. CASE MissMinute
  <2>1. /\ store' = [store EXCEPT !.state = Older(@)] /\ p' = [p EXCEPT !.mem = Older(@)]
        /\ p.at \in {"down", "idle"} /\ troubled' = TRUE
    BY <1>3 DEF MissMinute
  <2>2. /\ store'.state = Older(store.state)
        /\ store' = [snap |-> store'.snap, state |-> store'.state, last |-> store'.last]
    BY <1>0, <2>1
  <2>3. /\ p' \in [at : {"down", "idle", "publish"} \cup Asking, mem : Memory, try : Nat,
                   asked : Nat, left : Seq(Pieces)]
        /\ p'.at = p.at /\ p'.mem = Older(p.mem) /\ p'.asked = p.asked
    BY <1>0, <2>1, OlderIsAMemory
  <2> QED
    BY <1>0, <2>1, <2>2, <2>3, OlderIsAMemory DEF Budget, BudgetTypes, Remembered, Spent
<1>4. CASE StartTick
  <2>1. /\ p' = [at |-> "window", mem |-> Older(p.mem), try |-> 1, asked |-> 0, left |-> <<>>]
        /\ store' = [store EXCEPT !.state = Older(@)] /\ p.at = "idle"
        /\ troubled' = (troubled /\ p.mem.age > 0)
    BY <1>4 DEF StartTick, Process
  <2>2. /\ store'.state = Older(store.state)
        /\ store' = [snap |-> store'.snap, state |-> store'.state, last |-> store'.last]
    BY <1>0, <2>1
  <2>3. p.mem = store.state /\ Queued(p.mem) /\ Fresh(store.state)
    BY <2>1 DEF Budget, Remembered
  <2>4. ASSUME ~troubled'
        PROVE  Draining(Older(p.mem), Len(Rounds) + 1)
    <3>1. Draining(p.mem, Len(Rounds))
      BY <1>0, <2>1, <2>3, <2>4 DEF Budget, Remembered, Draining, Queued
    <3>2. p.mem \in Memory /\ Older(p.mem) \in Memory
      BY <1>0, OlderIsAMemory
    <3>3. /\ Older(p.mem).queue = p.mem.queue /\ Older(p.mem).age <= p.mem.age + 1
          /\ Older(p.mem).age \in Nat /\ p.mem.age \in Nat /\ Len(p.mem.queue) \in Nat
      BY <3>2, OlderIsAMemory, MemoryNumbers
    <3> QED
      <4> DEFINE n == Len(Rounds)
                 old == p.mem.age
                 new == Older(p.mem).age
                 len == Len(p.mem.queue)
      <4>1. n \in Nat
        BY <1>0
      <4>2. p.mem.queue # <<>> => len + new <= n + 1
        <5>1. p.mem.queue # <<>> => len + old <= n
          BY <3>1 DEF Draining
        <5>2. new <= old + 1 /\ new \in Nat /\ old \in Nat /\ len \in Nat
          BY <3>3
        <5> HIDE DEF n, old, new, len
        <5> QED
          BY <4>1, <5>1, <5>2
      <4> QED
        BY <3>3, <4>2 DEF Draining
  <2> QED
    BY <1>0, <2>1, <2>2, <2>3, <2>4, OlderIsAMemory DEF Budget, BudgetTypes, Remembered, Spent, Asking
<1>5. CASE RefuseWindow
  <2>1. /\ p' = [p EXCEPT !.at = "idle", !.mem = p.mem, !.try = 1, !.asked = @ + 1]
        /\ store' = IF store.snap.ok THEN store
                    ELSE [store EXCEPT !.last = <<"fixtures off", "">>]
        /\ p.at = "window" /\ troubled' = TRUE
    BY <1>5 DEF RefuseWindow, Go
  <2>2. /\ store'.state = store.state
        /\ store' = [snap |-> store'.snap, state |-> store'.state, last |-> store'.last]
    BY <1>0, <2>1
  <2>3. p.asked + 1 \in Nat
    BY <1>0
  <2>4. /\ p' \in [at : {"down", "idle", "publish"} \cup Asking, mem : Memory, try : Nat,
                   asked : Nat, left : Seq(Pieces)]
        /\ p'.at = "idle" /\ p'.mem = p.mem
    BY <1>0, <2>1, <2>3
  <2> QED
    BY <1>0, <2>1, <2>2, <2>4 DEF Budget, BudgetTypes, Remembered, Spent
<1> QED
  BY <1>1, <1>2, <1>3, <1>4, <1>5

\* A request that is made: the process goes on at another place, one request
\* further, and perhaps with another memory.
LEMMA GoingOn ==
    ASSUME Budget, NEW at \in {"idle", "publish"} \cup Asking, NEW mem \in Memory, Go(at, mem)
    PROVE  /\ p' \in [at : {"down", "idle", "publish"} \cup Asking, mem : Memory, try : Nat,
                      asked : Nat, left : Seq(Pieces)]
           /\ p'.at = at /\ p'.mem = mem /\ p'.asked = p.asked + 1
<1>1. p \in [at : {"down", "idle", "publish"} \cup Asking, mem : Memory, try : Nat,
             asked : Nat, left : Seq(Pieces)]
  BY DEF Budget, BudgetTypes
<1>2. p.asked + 1 \in Nat
  BY <1>1
<1>3. p' = [p EXCEPT !.at = at, !.mem = mem, !.try = 1, !.asked = @ + 1]
  BY DEF Go
<1> QED
  BY <1>1, <1>2, <1>3

\* The fixtures: the window, the far window and a league's next round.
LEMMA BudgetFixtures ==
    ASSUME Budget, AskWindow \/ AskAhead \/ AskRound
    PROVE  Budget'
<1>0. /\ p.mem \in Memory /\ p.asked \in Nat /\ troubled \in BOOLEAN /\ Len(Rounds) \in Nat
      /\ p.mem.age \in Nat /\ Len(p.mem.queue) \in Nat /\ p.mem.queue \in Seq(BigRounds)
      /\ Len(Rounds) < COMPETITIONS_EVERY /\ COMPETITIONS_EVERY \in Nat
  BY MemoryNumbers, RoundsAreFew, PollerConstants DEF Budget, BudgetTypes, Memory
<1>1. store' = store /\ troubled' = troubled
  BY DEF AskWindow, AskAhead, AskRound
<1>2. BudgetTypes /\ Remembered /\ Spent /\ Queued(p.mem)
  BY DEF Budget, Remembered
<1>3. CASE AskWindow
  <2>1. p.at = "window" /\ Go(AfterWindow(p.mem), p.mem)
    BY <1>3 DEF AskWindow
  <2>2. /\ AfterWindow(p.mem) \in {"ahead", "round", "publish"}
        /\ AfterWindow(p.mem) = "round" => p.mem.queue # <<>>
        /\ AfterWindow(p.mem) = "publish" => p.mem.queue = <<>>
    BY DEF AfterWindow, AfterAhead
  <2>3. /\ p' \in [at : {"down", "idle", "publish"} \cup Asking, mem : Memory, try : Nat,
                   asked : Nat, left : Seq(Pieces)]
        /\ p'.at = AfterWindow(p.mem) /\ p'.mem = p.mem /\ p'.asked = p.asked + 1
    BY <1>0, <2>1, <2>2, GoingOn DEF Asking
  <2>4. p.asked = 0 /\ Fresh(p.mem) /\ (~troubled => Draining(p.mem, Len(Rounds) + 1))
    BY <1>2, <2>1 DEF Remembered, Spent
  <2> QED
    BY <1>0, <1>1, <1>2, <2>2, <2>3, <2>4
    DEF Budget, BudgetTypes, Remembered, Spent, Draining
<1>4. CASE AskAhead
  <2>1. PICK mem \in {p.mem, [p.mem EXCEPT !.ahead = TRUE]} : Go(AfterAhead(mem), mem)
    <3>1. AfterAhead([p.mem EXCEPT !.ahead = TRUE]) = AfterAhead(p.mem)
      BY <1>0 DEF AfterAhead, Memory
    <3> QED
      BY <1>4, <3>1 DEF AskAhead
  <2>2. /\ p.at = "ahead" /\ mem \in Memory /\ mem.tick = p.mem.tick /\ mem.age = p.mem.age
        /\ mem.codes = p.mem.codes /\ mem.queue = p.mem.queue
    BY <1>0, <1>4 DEF AskAhead, Memory
  <2>3. /\ AfterAhead(mem) \in {"round", "publish"}
        /\ AfterAhead(mem) = "round" => mem.queue # <<>>
        /\ AfterAhead(mem) = "publish" => mem.queue = <<>>
    BY DEF AfterAhead
  <2>4. /\ p' \in [at : {"down", "idle", "publish"} \cup Asking, mem : Memory, try : Nat,
                   asked : Nat, left : Seq(Pieces)]
        /\ p'.at = AfterAhead(mem) /\ p'.mem = mem /\ p'.asked = p.asked + 1
    BY <2>1, <2>2, <2>3, GoingOn DEF Asking
  <2>5. p.asked <= 1 /\ Fresh(mem) /\ Queued(mem)
        /\ (~troubled => Draining(mem, Len(Rounds) + 1))
    BY <1>2, <2>2 DEF Remembered, Spent, Fresh, Queued, Draining
  <2> QED
    BY <1>0, <1>1, <1>2, <2>2, <2>3, <2>4, <2>5
    DEF Budget, BudgetTypes, Remembered, Spent, Draining
<1>5. CASE AskRound
  <2> DEFINE popped == [p.mem EXCEPT !.queue = Tail(@)]
  <2>1. p.at = "round" /\ p.mem.queue # <<>> /\ Fresh(p.mem)
    BY <1>2, <1>5 DEF AskRound, Remembered
  <2>2. /\ Tail(p.mem.queue) \in Seq(BigRounds) /\ Head(p.mem.queue) \in BigRounds
        /\ Len(Tail(p.mem.queue)) = Len(p.mem.queue) - 1 /\ Len(p.mem.queue) > 0
    BY <1>0, <2>1, HeadTailProperties, EmptySeq
  <2>3. PICK mem \in {popped, [popped EXCEPT !.rounds = @ \cup {Head(p.mem.queue)}]} :
            Go("publish", mem)
    BY <1>5 DEF AskRound
  <2>4. /\ mem \in Memory /\ mem.tick = p.mem.tick /\ mem.age = p.mem.age
        /\ mem.codes = p.mem.codes /\ mem.queue = Tail(p.mem.queue)
    <3>1. /\ popped \in Memory /\ popped.tick = p.mem.tick /\ popped.age = p.mem.age
          /\ popped.codes = p.mem.codes /\ popped.queue = Tail(p.mem.queue)
      BY <1>0, <2>2 DEF Memory
    <3> HIDE DEF popped
    <3> QED
      BY <2>2, <2>3, <3>1 DEF Memory
  <2>5. /\ p' \in [at : {"down", "idle", "publish"} \cup Asking, mem : Memory, try : Nat,
                   asked : Nat, left : Seq(Pieces)]
        /\ p'.at = "publish" /\ p'.mem = mem /\ p'.asked = p.asked + 1
    BY <2>3, <2>4, GoingOn
  <2>6. p.mem.codes # <<>> /\ p.mem.tick # 0
    BY <1>2, <2>1 DEF Queued, Fresh
  <2>7. p.asked <= 2 /\ Queued(mem) /\ Fresh(mem)
    BY <1>0, <1>2, <2>1, <2>2, <2>4, <2>6 DEF Spent, Queued, Fresh
  <2>8. ~troubled => Draining(mem, Len(Rounds)) /\ ~Due(mem)
    <3>1. SUFFICES ASSUME ~troubled
                   PROVE  Draining(mem, Len(Rounds)) /\ ~Due(mem)
      OBVIOUS
    <3>2. Len(p.mem.queue) + p.mem.age <= Len(Rounds) + 1
      BY <1>2, <2>1, <3>1 DEF Remembered, Draining
    <3>3. Draining(mem, Len(Rounds))
      BY <1>0, <2>2, <2>4, <3>2 DEF Draining
    <3>4. ~(mem.age > COMPETITIONS_EVERY)
      BY <1>0, <2>2, <2>4, <3>2
    <3> QED
      BY <2>4, <2>6, <3>3, <3>4 DEF Due
  <2> QED
    BY <1>0, <1>1, <1>2, <2>4, <2>5, <2>6, <2>7, <2>8
    DEF Budget, BudgetTypes, Remembered, Spent
<1> QED
  BY <1>3, <1>4, <1>5

LEMMA BudgetPublish == ASSUME Budget, Publish PROVE Budget'
<1>0. /\ p \in [at : {"down", "idle", "publish"} \cup Asking, mem : Memory, try : Nat,
                asked : Nat, left : Seq(Pieces)]
      /\ p.mem \in Memory /\ p.asked \in Nat /\ Len(BurstCodes) \in Nat
  BY BurstOfSome DEF Budget, BudgetTypes, BurstCodes
<1>1. /\ p.at = "publish" /\ troubled' = troubled
      /\ store'.state = store.state
      /\ store' = [snap |-> store'.snap, state |-> store'.state, last |-> store'.last]
  BY DEF Publish, Budget, BudgetTypes
<1>2. BudgetTypes /\ Remembered /\ Spent
  BY DEF Budget
<1>3. CASE Due(p.mem)
  <2>1. p' = [p EXCEPT !.at = "competitions"]
    BY <1>3 DEF Publish
  <2>2. /\ p' \in [at : {"down", "idle", "publish"} \cup Asking, mem : Memory, try : Nat,
                   asked : Nat, left : Seq(Pieces)]
        /\ p'.at = "competitions" /\ p'.mem = p.mem /\ p'.asked = p.asked
    BY <1>0, <2>1 DEF Asking
  <2> QED
    BY <1>0, <1>1, <1>2, <1>3, <2>2 DEF Budget, BudgetTypes, Remembered, Spent
<1>4. CASE ~Due(p.mem)
  <2>1. p' = [p EXCEPT !.at = "tables", !.left = Tables(p.mem)]
    BY <1>4 DEF Publish
  <2>2. /\ p' \in [at : {"down", "idle", "publish"} \cup Asking, mem : Memory, try : Nat,
                   asked : Nat, left : Seq(Pieces)]
        /\ p'.at = "tables" /\ p'.mem = p.mem /\ p'.asked = p.asked /\ p'.left = Tables(p.mem)
    BY <1>0, <2>1, TablesAreFew DEF Asking
  <2>3. p.mem.tick # 0
    BY <1>1, <1>2, <1>4 DEF Remembered, Fresh, Due
  <2>4. p.asked + Len(Tables(p.mem)) <= 5
    <3>1. Len(Tables(p.mem)) <= 2 /\ Len(Tables(p.mem)) \in Nat /\ p.asked <= 3
      BY <1>0, <1>1, <1>2, <2>3, TablesAreFew DEF Spent
    <3> QED
      BY <1>0, <3>1
  <2> QED
    BY <1>0, <1>1, <1>2, <2>2, <2>3, <2>4 DEF Budget, BudgetTypes, Remembered, Spent
<1> QED
  BY <1>3, <1>4

\* The list of competitions, which fills the queue of rounds.
LEMMA BudgetCompetitions == ASSUME Budget, AskCompetitions PROVE Budget'
<1> DEFINE listed == [p.mem EXCEPT !.codes = ActiveCodes, !.age = 0, !.queue = Rounds]
<1>0. /\ p \in [at : {"down", "idle", "publish"} \cup Asking, mem : Memory, try : Nat,
                asked : Nat, left : Seq(Pieces)]
      /\ p.mem \in Memory /\ p.asked \in Nat /\ Len(BurstCodes) \in Nat
      /\ Len(Rounds) \in Nat /\ p.mem.tick \in Nat
  BY BurstOfSome, RoundsAreFew, MemoryNumbers DEF Budget, BudgetTypes, BurstCodes
<1>1. BudgetTypes /\ Remembered /\ Spent /\ p.at = "competitions"
  BY DEF Budget, AskCompetitions
<1>2. /\ troubled' = troubled /\ store'.state = store.state
      /\ store' = [snap |-> store'.snap, state |-> store'.state, last |-> store'.last]
  BY <1>1 DEF AskCompetitions, BudgetTypes
<1>3. /\ listed \in Memory /\ listed.tick = p.mem.tick /\ listed.age = 0
      /\ listed.queue = Rounds /\ listed.codes = ActiveCodes
  <2>1. 0 \in 0 .. COMPETITIONS_EVERY + 1 /\ Rounds \in Seq(BigRounds)
    BY RoundsAreFew, PollerConstants
  <2> QED
    BY <1>0, <2>1 DEF Memory
<1>4. Queued(listed) /\ Draining(listed, Len(Rounds))
  BY <1>0, <1>3, RoundsAreFew DEF Queued, Draining
<1>5. Queued(p.mem) /\ (~troubled => Draining(p.mem, Len(Rounds)))
  BY <1>1 DEF Remembered
<1>6. PICK mem \in {listed, p.mem} : ToTables(mem)
  BY DEF AskCompetitions
<1> HIDE DEF listed
<1>7. /\ mem \in Memory /\ mem.tick = p.mem.tick
      /\ Queued(mem) /\ (~troubled => Draining(mem, Len(Rounds)))
  BY <1>0, <1>3, <1>4, <1>5, <1>6
<1>8. /\ p' \in [at : {"down", "idle", "publish"} \cup Asking, mem : Memory, try : Nat,
                 asked : Nat, left : Seq(Pieces)]
      /\ p'.at = "tables" /\ p'.mem = mem /\ p'.asked = p.asked + 1 /\ p'.left = Tables(mem)
  <2>1. p' = [p EXCEPT !.at = "tables", !.mem = mem, !.try = 1, !.asked = @ + 1,
                       !.left = Tables(mem)]
    BY <1>6 DEF ToTables
  <2>2. p.asked + 1 \in Nat /\ Tables(mem) \in Seq(Pieces)
    BY <1>0, <1>7, TablesAreFew
  <2> QED
    BY <1>0, <1>7, <2>1, <2>2 DEF Asking
<1>9. p.asked + 1 + Len(Tables(mem)) <= IF mem.tick = 0 THEN 3 + Len(BurstCodes)
                                        ELSE IF troubled THEN 6 ELSE 5
  <2>1. /\ p.asked <= 3
        /\ p.mem.tick = 0 \/ (~troubled /\ Due(p.mem)) => p.asked <= 2
    BY <1>1 DEF Spent
  <2>2. /\ Len(Tables(mem)) \in Nat
        /\ mem.tick = 0 => Len(Tables(mem)) <= Len(BurstCodes)
        /\ mem.tick # 0 => Len(Tables(mem)) <= 2
    BY <1>7, TablesAreFew
  <2>3. Due(p.mem)
    BY <1>1 DEF Remembered
  <2> QED
    BY <1>0, <1>7, <2>1, <2>2, <2>3
<1> QED
  BY <1>0, <1>1, <1>2, <1>7, <1>8, <1>9 DEF Budget, BudgetTypes, Remembered, Spent

LEMMA BudgetTables == ASSUME Budget, AskTable PROVE Budget'
<1>0. /\ p \in [at : {"down", "idle", "publish"} \cup Asking, mem : Memory, try : Nat,
                asked : Nat, left : Seq(Pieces)]
      /\ p.left \in Seq(Pieces) /\ p.asked \in Nat /\ p.left # <<>> /\ p.at = "tables"
  BY DEF Budget, BudgetTypes, AskTable
<1>1. /\ troubled' = troubled /\ store'.state = store.state
      /\ store' = [snap |-> store'.snap, state |-> store'.state, last |-> store'.last]
  BY DEF AskTable, Budget, BudgetTypes
<1>2. /\ Tail(p.left) \in Seq(Pieces) /\ Len(Tail(p.left)) = Len(p.left) - 1
      /\ Len(p.left) \in Nat
  BY <1>0, HeadTailProperties, LenProperties
<1>3. /\ p' \in [at : {"down", "idle", "publish"} \cup Asking, mem : Memory, try : Nat,
                 asked : Nat, left : Seq(Pieces)]
      /\ p'.at = "tables" /\ p'.mem = p.mem
      /\ p'.asked + Len(p'.left) = p.asked + Len(p.left)
  <2>1. p' = [p EXCEPT !.left = Tail(@), !.try = 1, !.asked = @ + 1]
    BY DEF AskTable
  <2>2. /\ p' \in [at : {"down", "idle", "publish"} \cup Asking, mem : Memory, try : Nat,
                   asked : Nat, left : Seq(Pieces)]
        /\ p'.at = "tables" /\ p'.mem = p.mem
        /\ p'.asked = p.asked + 1 /\ p'.left = Tail(p.left)
    <3>1. p.asked + 1 \in Nat /\ 1 \in Nat
      BY <1>0
    <3> HIDE DEF Pieces
    <3> QED
      BY <1>0, <1>2, <2>1, <3>1
  <2> QED
    BY <1>0, <1>2, <2>2
<1> QED
  BY <1>0, <1>1, <1>3 DEF Budget, BudgetTypes, Remembered, Spent

\* The end of a tick: the memory is persisted.
LEMMA BudgetFinish == ASSUME Budget, Finish PROVE Budget'
<1> DEFINE mem == [p.mem EXCEPT !.tick = Following(@)]
<1>0. /\ p \in [at : {"down", "idle", "publish"} \cup Asking, mem : Memory, try : Nat,
                asked : Nat, left : Seq(Pieces)]
      /\ p.mem \in Memory /\ p.mem.tick \in Nat
  BY MemoryNumbers DEF Budget, BudgetTypes
<1>1. /\ p' = [p EXCEPT !.at = "idle", !.mem = mem]
      /\ store' = [store EXCEPT !.state = mem] /\ p.at = "tables" /\ troubled' = troubled
  BY DEF Finish
<1>2. Following(p.mem.tick) \in Nat /\ Following(p.mem.tick) # 0
  BY <1>0, PollerConstants DEF Following
<1>3. /\ mem \in Memory /\ mem.tick # 0 /\ mem.age = p.mem.age /\ mem.codes = p.mem.codes
      /\ mem.queue = p.mem.queue
  BY <1>0, <1>2 DEF Memory
<1> HIDE DEF mem
<1>4. /\ p' \in [at : {"down", "idle", "publish"} \cup Asking, mem : Memory, try : Nat,
                 asked : Nat, left : Seq(Pieces)]
      /\ p'.at = "idle" /\ p'.mem = mem
  BY <1>0, <1>1, <1>3
<1>5. /\ store'.state = mem
      /\ store' = [snap |-> store'.snap, state |-> store'.state, last |-> store'.last]
  BY <1>1 DEF Budget, BudgetTypes
<1>6. Queued(mem) /\ Fresh(mem) /\ (~troubled => Draining(mem, Len(Rounds)))
  BY <1>1, <1>3 DEF Budget, Remembered, Queued, Fresh, Draining
<1> QED
  BY <1>1, <1>3, <1>4, <1>5, <1>6 DEF Budget, BudgetTypes, Remembered, Spent

LEMMA BudgetStep == ASSUME Budget, [Next]_vars PROVE Budget'
<1>1. CASE Boot \/ Kill \/ Error \/ MissMinute \/ StartTick \/ RefuseWindow
  BY <1>1, BudgetBetweenTicks
<1>2. CASE AskWindow \/ AskAhead \/ AskRound
  BY <1>2, BudgetFixtures
<1>3. CASE Publish
  BY <1>3, BudgetPublish
<1>4. CASE AskCompetitions
  BY <1>4, BudgetCompetitions
<1>5. CASE AskTable
  BY <1>5, BudgetTables
<1>6. CASE Finish
  BY <1>6, BudgetFinish
<1>7. CASE Again
  <2>1. /\ p \in [at : {"down", "idle", "publish"} \cup Asking, mem : Memory, try : Nat,
                  asked : Nat, left : Seq(Pieces)]
        /\ p.try + 1 \in Nat
    BY DEF Budget, BudgetTypes
  <2>2. p' = [p EXCEPT !.try = @ + 1] /\ store' = store /\ troubled' = troubled
    BY <1>7 DEF Again
  <2>3. /\ p' \in [at : {"down", "idle", "publish"} \cup Asking, mem : Memory, try : Nat,
                   asked : Nat, left : Seq(Pieces)]
        /\ p'.at = p.at /\ p'.mem = p.mem /\ p'.asked = p.asked /\ p'.left = p.left
    BY <2>1, <2>2
  <2> QED
    BY <2>2, <2>3 DEF Budget, BudgetTypes, Remembered, Spent
<1>8. CASE Unit \/ OpenWindow \/ UNCHANGED vars
  <2>1. UNCHANGED <<p, store, troubled>>
    BY <1>8 DEF Unit, OpenWindow, vars
  <2> QED
    BY <2>1 DEF Budget, BudgetTypes, Remembered, Spent
<1> QED
  BY <1>1, <1>2, <1>3, <1>4, <1>5, <1>6, <1>7, <1>8 DEF Next, Work

\* A tick never asks the feed for more than five things, the first tick and
\* one after a tick cut short aside, however many leagues are big
\* (fixtures.py:117, 163-226).
THEOREM NeverMoreThanFive == Spec => []FiveAsked
<1>1. Init => Budget
  BY BudgetAtFirst
<1>2. Budget /\ [Next]_vars => Budget'
  BY BudgetStep
<1>3. ASSUME Budget
      PROVE  FiveAsked
  <2>1. /\ p.at \in {"down", "idle", "publish"} \cup Asking /\ p.asked \in Nat
        /\ Len(p.left) \in Nat /\ Len(BurstCodes) \in Nat
    BY <1>3, LenProperties, BurstOfSome DEF Budget, BudgetTypes, BurstCodes
  <2> QED
    BY <1>3, <2>1 DEF Budget, Spent, FiveAsked, Asking
<1> QED
  BY <1>1, <1>2, <1>3, PTL DEF Spec

=============================================================================
