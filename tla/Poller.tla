-------------------------------- MODULE Poller --------------------------------
(***************************************************************************)
(* The fixtures poller and the paced client it asks football-data.org      *)
(* with.  A tick a minute fetches the match window and, by turns, the far  *)
(* window, a league's next round, the competition list, a table and the    *)
(* scorers; its memory is written to the store when the tick ends.  On     *)
(* Lambda a fresh poller restores that memory for every tick, in the       *)
(* service only when the process has died.                                 *)
(*                                                                         *)
(* Sources: backend/onside/workers/fixtures.py, feeds/http.py,             *)
(* feeds/football_data.py, serverless.py.                                  *)
(*                                                                         *)
(* A unit of time is what the bucket needs for one token, so a minute is   *)
(* CAPACITY units; the age of the competition list is counted in ticks.    *)
(* The tick number wraps where every rotation starts again, and never      *)
(* returns to zero.                                                        *)
(***************************************************************************)
EXTENDS Integers, FiniteSets, Sequences, SequencesExt

CONSTANTS
    Comps,              \* the competitions the feed lists: [code, active, matchday]
    BURST,              \* the big leagues, biggest first
    AHEAD_EVERY, COMPETITIONS_EVERY,    \* in ticks
    ATTEMPTS, CAPACITY,
    Period,             \* ticks after which all rotations start again
    MaxTroubles         \* bound: failing attempts, kills and missed minutes

Active == SelectSeq(Comps, LAMBDA c : c.active)
ActiveCodes == [i \in DOMAIN Active |-> Active[i].code]

\* A filtered list: the elements at some places, in their order.
Keep(s, places) ==
    [k \in 1 .. Cardinality(places) |->
        s[CHOOSE i \in places : Cardinality({j \in places : j <= i}) = k]]

BurstOf(codes) == Keep(BURST, {i \in DOMAIN BURST : Contains(codes, BURST[i])})
BurstCodes == BurstOf(ActiveCodes)

ASSUME PollerConstants ==
    /\ CAPACITY \in Nat \ {0} /\ ATTEMPTS \in Nat \ {0} /\ AHEAD_EVERY \in Nat \ {0}
    /\ DOMAIN BURST = 1 .. Len(BURST) /\ Len(BURST) \in Nat
    /\ COMPETITIONS_EVERY \in Nat /\ COMPETITIONS_EVERY > Len(BURST)
    /\ Period \in Nat \ {0}
    /\ Period % AHEAD_EVERY = 0 /\ Period % 2 = 0
    /\ ActiveCodes # <<>> => Period % (2 * Len(ActiveCodes)) = 0

VARIABLES
    store,      \* [snap, state, last]: the snapshot, the memory, the key written last
    p,          \* the process: where its tick is, its poller's memory and its locals
    tokens,     \* of its rate limiter
    minute,     \* units since its last tick began
    window,     \* history: a window of time [on, n, t, boots]: n requests in t
                \* units, in which a new bucket came boots times for one not full
    troubled,   \* history: a tick was cut short since the competitions last came
    troubles    \* how many troubles so far

vars == <<store, p, tokens, minute, window, troubled, troubles>>

Blank == [tick |-> 0, codes |-> <<>>, age |-> 0, queue |-> <<>>, ahead |-> FALSE, rounds |-> {}]
NoWindow == [on |-> FALSE, n |-> 0, t |-> 0, boots |-> 0]
Asking == {"window", "ahead", "round", "competitions", "tables"}
Process(at, mem) ==
    [at |-> at, mem |-> mem, try |-> 1, asked |-> 0, left |-> <<>>]

Init ==
    /\ store = [snap |-> [ok |-> FALSE, ahead |-> FALSE, rounds |-> {}],
                state |-> Blank, last |-> <<"nothing", "">>]
    /\ p = Process("down", Blank)
    /\ tokens = CAPACITY /\ minute = CAPACITY
    /\ window = NoWindow /\ troubled = FALSE /\ troubles = 0

-----------------------------------------------------------------------------
(* The clock and the process. *)

Older(mem) ==
    IF mem.age > COMPETITIONS_EVERY THEN mem ELSE [mem EXCEPT !.age = @ + 1]

UnitWithoutLimit ==
    /\ tokens' = tokens + 1
    /\ minute' = IF minute < CAPACITY THEN minute + 1 ELSE minute
    /\ window' = IF ~window.on THEN window
                 ELSE IF window.t = CAPACITY THEN NoWindow ELSE [window EXCEPT !.t = @ + 1]
    /\ UNCHANGED <<store, p, troubled, troubles>>

(* take's refill: a token a unit, up to the capacity. *)
Unit ==
    /\ tokens' = IF tokens < CAPACITY THEN tokens + 1 ELSE tokens
    /\ minute' = IF minute < CAPACITY THEN minute + 1 ELSE minute
    /\ window' = IF ~window.on THEN window
                 ELSE IF window.t = CAPACITY THEN NoWindow ELSE [window EXCEPT !.t = @ + 1]
    /\ UNCHANGED <<store, p, troubled, troubles>>

(* It is enough to count from where a request may be sent. *)
OpenWindow ==
    /\ ~window.on /\ tokens > 0 /\ p.at \in Asking
    /\ window' = [NoWindow EXCEPT !.on = TRUE]
    /\ UNCHANGED <<store, p, tokens, minute, troubled, troubles>>

RestoreNothing == Blank

RestoreWithoutAge == [store.state EXCEPT !.age = COMPETITIONS_EVERY + 1]

(* A new adapter has a full bucket; _restore takes the memory of the last  *)
(* tick that ended.  A process that comes back ticks at once.              *)
Restore == store.state

Boot ==
    /\ p.at \in {"down", "idle"}
    /\ p' = Process("idle", Restore)
    /\ tokens' = CAPACITY
    /\ window' = IF window.on /\ tokens < CAPACITY THEN [window EXCEPT !.boots = @ + 1]
                 ELSE window
    /\ minute' = IF p.at = "down" THEN CAPACITY ELSE minute
    /\ UNCHANGED <<store, troubled, troubles>>

Trouble == troubles < MaxTroubles /\ troubles' = troubles + 1

(* The process is ended from outside, or its time limit ends it. *)
Kill ==
    /\ p.at # "down" /\ Trouble
    /\ p' = Process("down", Blank) /\ troubled' = TRUE
    /\ UNCHANGED <<store, tokens, minute, window>>

MissMinute ==
    /\ p.at \in {"down", "idle"} /\ Trouble
    /\ store' = [store EXCEPT !.state = Older(@)]
    /\ p' = [p EXCEPT !.mem = Older(@)]
    /\ troubled' = TRUE
    /\ UNCHANGED <<tokens, minute, window>>

-----------------------------------------------------------------------------
(* FeedClient.get: one attempt. *)

Reply == {"answer", "again", "refused", "error"}

(* again: no connection or a 429 and attempts left.  refused: a FeedError. *)
(* error: the last 429 or a 5xx, an exception the tick does not catch.     *)
Attempt(reply) ==
    /\ tokens > 0 /\ tokens' = tokens - 1
    /\ window' = IF window.on THEN [window EXCEPT !.n = @ + 1] ELSE window
    /\ IF reply = "answer" THEN UNCHANGED troubles ELSE Trouble
    /\ reply = "again" => p.try < ATTEMPTS
    /\ UNCHANGED minute

Again ==
    /\ p.at \in Asking /\ Attempt("again")
    /\ p' = [p EXCEPT !.try = @ + 1]
    /\ UNCHANGED <<store, troubled>>

Error ==
    /\ p.at \in Asking /\ Attempt("error")
    /\ p' = Process("down", Blank) /\ troubled' = TRUE
    /\ UNCHANGED store

(* On to the next place of the tick, one request further. *)
Go(at, mem) == p' = [p EXCEPT !.at = at, !.mem = mem, !.try = 1, !.asked = @ + 1]

-----------------------------------------------------------------------------
(* Poller.tick *)

AfterAhead(mem) == IF mem.queue # <<>> THEN "round" ELSE "publish"
AfterWindow(mem) == IF mem.tick % AHEAD_EVERY = 0 THEN "ahead" ELSE AfterAhead(mem)

StartTick ==
    /\ p.at = "idle" /\ minute = CAPACITY
    /\ minute' = 0
    /\ p' = Process("window", Older(p.mem))
    /\ store' = [store EXCEPT !.state = Older(@)]
    /\ troubled' = (troubled /\ p.mem.age > 0)
    /\ UNCHANGED <<tokens, window, troubles>>

AskWindow ==
    /\ p.at = "window" /\ Attempt("answer")
    /\ Go(AfterWindow(p.mem), p.mem)
    /\ UNCHANGED <<store, troubled>>

(* The last good snapshot stays; the tick is over and does not count. *)
RefuseWindow ==
    /\ p.at = "window" /\ Attempt("refused")
    /\ Go("idle", p.mem)
    /\ store' = IF store.snap.ok THEN store ELSE [store EXCEPT !.last = <<"fixtures off", "">>]
    /\ troubled' = TRUE

AskAhead ==
    /\ p.at = "ahead"
    /\ \/ Attempt("answer") /\ Go(AfterAhead(p.mem), [p.mem EXCEPT !.ahead = TRUE])
       \/ Attempt("refused") /\ Go(AfterAhead(p.mem), p.mem)
    /\ UNCHANGED <<store, troubled>>

(* The round is taken off the queue before it is asked for. *)
AskRound ==
    /\ p.at = "round"
    /\ LET popped == [p.mem EXCEPT !.queue = Tail(@)]
       IN  \/ /\ Attempt("answer")
              /\ Go("publish", [popped EXCEPT !.rounds = @ \cup {Head(p.mem.queue)}])
           \/ Attempt("refused") /\ Go("publish", popped)
    /\ UNCHANGED <<store, troubled>>

(* The tables of one tick: the big leagues on the first, else by turns. *)
Turn(codes, n) == codes[(n % Len(codes)) + 1]
Tables(mem) ==
    IF mem.codes = <<>> THEN <<>>
    ELSE IF mem.tick = 0
    THEN [i \in DOMAIN BurstOf(mem.codes) |-> <<"standings", BurstOf(mem.codes)[i]>>]
    ELSE << <<"standings", Turn(mem.codes, mem.tick)>> >>
         \o IF mem.tick % 2 = 0
            THEN << <<"scorers", Turn(mem.codes, mem.tick \div 2)>> >> ELSE <<>>

Due(mem) == mem.age > COMPETITIONS_EVERY \/ mem.codes = <<>>

Publish ==
    /\ p.at = "publish"
    /\ store' = [store EXCEPT !.snap = [ok |-> TRUE, ahead |-> p.mem.ahead, rounds |-> p.mem.rounds],
                              !.last = <<"fixtures", "">>]
    /\ p' = IF Due(p.mem) THEN [p EXCEPT !.at = "competitions"]
            ELSE [p EXCEPT !.at = "tables", !.left = Tables(p.mem)]
    /\ UNCHANGED <<tokens, minute, window, troubled, troubles>>

Rounds ==
    Keep(BURST, {i \in DOMAIN BURST :
        /\ Contains(ActiveCodes, BURST[i])
        /\ \E k \in DOMAIN Comps : Comps[k].code = BURST[i] /\ Comps[k].matchday})

ToTables(mem) ==
    p' = [p EXCEPT !.at = "tables", !.mem = mem, !.try = 1, !.asked = @ + 1, !.left = Tables(mem)]

AskCompetitions ==
    /\ p.at = "competitions"
    /\ \/ /\ Attempt("answer")
          /\ ToTables([p.mem EXCEPT !.codes = ActiveCodes, !.age = 0, !.queue = Rounds])
          /\ store' = [store EXCEPT !.last = <<"competitions", "">>]
       \/ /\ Attempt("refused")
          /\ ToTables(p.mem)
          /\ UNCHANGED store
    /\ UNCHANGED troubled

AskTable ==
    /\ p.at = "tables" /\ p.left # <<>>
    /\ p' = [p EXCEPT !.left = Tail(@), !.try = 1, !.asked = @ + 1]
    /\ \/ Attempt("answer") /\ store' = [store EXCEPT !.last = Head(p.left)]
       \/ Attempt("refused") /\ UNCHANGED store
    /\ UNCHANGED troubled

Following(tick) == IF tick = 2 * Period - 1 THEN Period ELSE tick + 1

(* tick_n advances and the memory is persisted, only here. *)
Finish ==
    /\ p.at = "tables" /\ p.left = <<>>
    /\ LET mem == [p.mem EXCEPT !.tick = Following(@)]
       IN  /\ p' = [p EXCEPT !.at = "idle", !.mem = mem]
           /\ store' = [store EXCEPT !.state = mem]
    /\ UNCHANGED <<tokens, minute, window, troubled, troubles>>

-----------------------------------------------------------------------------

Work ==
    \/ StartTick \/ AskWindow \/ AskAhead \/ AskRound \/ Publish
    \/ AskCompetitions \/ AskTable \/ Finish

Next ==
    \/ Work \/ Boot \/ Unit \/ OpenWindow
    \/ RefuseWindow \/ Again \/ Error \/ Kill \/ MissMinute

Spec == Init /\ [][Next]_vars

(* The process is started again when it is down, goes on with its tick,    *)
(* and time passes.                                                        *)
FairSpec ==
    /\ Spec /\ WF_vars(Work) /\ WF_vars(Unit) /\ WF_vars(p.at = "down" /\ Boot)

-----------------------------------------------------------------------------

(* In t units of time the feed gets at most a full bucket and t more, and a*)
(* bucket more for each new process that came while the last one's was not *)
(* full, however often attempts fail and processes die: this is what the   *)
(* pacing keeps of the limit (http.py:14-34).                              *)
PacedByBucket == window.on => window.n <= CAPACITY * (1 + window.boots) + window.t

(* A tick asks for at most five things - but the first, which fetches the  *)
(* big leagues' tables at once, and one after a tick that was cut short,   *)
(* which may meet a round still queued when the list of competitions is    *)
(* due (fixtures.py:117, 163-226).                                         *)
FiveAsked ==
    p.at # "idle" =>
        p.asked <= IF p.mem.tick = 0 THEN 3 + Len(BurstCodes) ELSE IF troubled THEN 6 ELSE 5

(* Once nothing fails any more, the fixtures are published again and again *)
(* and every running competition's table and scorers keep being refreshed, *)
(* whatever the failures left in memory and in the store and although a    *)
(* fresh poller may take every tick (fixtures.py:213-225, serverless.py:115).*)
EverythingKeepsComing ==
    /\ []<>(store.last = <<"fixtures", "">>)
    /\ \A i \in DOMAIN ActiveCodes :
        /\ []<>(store.last = <<"standings", ActiveCodes[i]>>)
        /\ []<>(store.last = <<"scorers", ActiveCodes[i]>>)

=============================================================================
