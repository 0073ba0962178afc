------------------------------ MODULE Document -------------------------------
(***************************************************************************)
(* The match document: what a reader is shown of the fold.  Its views are  *)
(* computed side by side from the state, from the uncorrected events and   *)
(* from the corrected ones, and must tell the same story: the goal list,   *)
(* the timeline, the shot map, the report's moments and its lede.          *)
(*                                                                         *)
(* Sources: backend/onside/ingest/document.py, domain/metrics.py           *)
(* (timeline), domain/narrative/selector.py and writer.py.                 *)
(*                                                                         *)
(* A series of win probabilities is what it makes of a moment: the swing   *)
(* of its minute.  Names, places, seconds, penalties missed and            *)
(* substitutions are left out; prose is the kind of sentence chosen.       *)
(***************************************************************************)
EXTENDS MatchFold, Integers, TLC

CONSTANTS
    Swing,        \* minute -> how far the probability moves in it
    MAX_MOMENTS,  \* moments of a report, the mandatory ones aside
    BIG_CHANCE_XG

ASSUME DocumentConstants ==
    /\ MAX_MOMENTS \in Nat /\ BIG_CHANCE_XG \in Nat
    /\ \A minute \in DOMAIN Swing : Swing[minute] \in Nat

SwingAt(minute) == IF minute \in DOMAIN Swing THEN Swing[minute] ELSE 0

-----------------------------------------------------------------------------
(* The views beside the state. *)

ShotsDoc(ordered, superseded) ==
    LET shots == SelectSeq(ordered, LAMBDA e : e.type = "shot")
    IN  [i \in DOMAIN shots |->
            [ id |-> shots[i].id, home |-> shots[i].team = Home, goal |-> shots[i].goal,
              disallowed |-> shots[i].id \in superseded, shootout |-> shots[i].period = 5 ]]

HalfTime(state) ==
    LET firstHalf(g) == ~g.disallowed /\ g.period = 1
    IN  << Len(SelectSeq(state.goals, LAMBDA g : firstHalf(g) /\ g.team = state.home)),
           Len(SelectSeq(state.goals, LAMBDA g : firstHalf(g) /\ g.team # state.home)) >>

(* metrics.timeline: what an event puts on it. *)
NotableKinds(e) ==
    LET shown == CASE e.type = "shot" /\ e.period = 5 -> "shootout"
                   [] e.type = "shot" /\ e.goal -> "goal"
                   [] e.type = "shot" /\ e.xg >= BIG_CHANCE_XG -> "big_chance"
                   [] e.type = "own_goal" -> "own_goal"
                   [] OTHER -> "none"
    IN  (IF shown = "none" THEN <<>> ELSE <<shown>>)
            \o (IF e.card = "none" THEN <<>> ELSE <<"card">>)

(* _timeline: a disallowed goal stays in its place, flagged; a correction  *)
(* comes at the end of its minute.                                         *)
Timeline(ordered, state, corrections) ==
    LET item(e, kind) ==
            [ kind |-> kind, at |-> <<e.period, e.minute, 0>>, id |-> e.id, team |-> e.team,
              disallowed |-> kind = "goal" /\ e.id \in state.superseded ]
        items(e) == [k \in DOMAIN NotableKinds(e) |-> item(e, NotableKinds(e)[k])]
        decision(c) ==
            [ kind |-> "correction", at |-> <<c.period, c.minute, 59>>, id |-> c.id,
              team |-> NoTeam, disallowed |-> FALSE ]
        all == FlattenSeq([i \in DOMAIN ordered |-> items(ordered[i])])
                   \o [i \in DOMAIN corrections |-> decision(corrections[i])]
        places == SortSeq([i \in DOMAIN all |-> i],
                          LAMBDA i, j : KeyLess(all[i].at \o <<i>>, all[j].at \o <<j>>))
    IN  [i \in DOMAIN places |-> all[places[i]]]

-----------------------------------------------------------------------------
(* selector.py: the moments of the report. *)

(* The last correction of an event, of whatever kind. *)
CorrectionOf(corrections) ==
    FoldLeft(LAMBDA out, c : (c.supersedes :> c) @@ out, <<>>, corrections)

(* Mutant: an own goal counts for the team that scored it. *)
ScoredSideOwn(e, home) == IF e.team = home THEN 1 ELSE 2

ScoredSide(e, home) == IF (e.team = home) = (e.type = "shot") THEN 1 ELSE 2

(* What select's loop makes of an uncorrected event, with the score as it  *)
(* runs.                                                                   *)
Consider(told, e, last, home) ==
    LET ruledOut == e.id \in DOMAIN last /\ last[e.id].kind = "disallow"
        scored == [told.score EXCEPT ![ScoredSide(e, home)] = @ + 1]
        moment(kind, score) ==
            [ kind |-> kind, id |-> e.id, period |-> e.period, minute |-> e.minute,
              swing |-> SwingAt(e.minute), scoreAfter |-> score,
              mandatory |-> kind # "big_chance" ]
        add(kind, score) == [score |-> score, found |-> Append(told.found, moment(kind, score))]
    IN  CASE e.period = 5 -> told
          [] e.period # 5 /\ (e.goal \/ e.type = "own_goal") ->
                IF ruledOut THEN add("disallowed_goal", told.score) ELSE add("goal", scored)
          [] e.period # 5 /\ ~e.goal /\ e.card \in {"Red Card", "Second Yellow"} ->
                add("red_card", told.score)
          [] e.period # 5 /\ e.type = "shot" /\ ~e.goal /\ e.card = "none"
                /\ e.xg >= BIG_CHANCE_XG -> add("big_chance", told.score)
          [] OTHER -> told

(* The score and the moments found after so many events. *)
Considered(ordered, last, home) ==
    LET after[n \in 0 .. Len(ordered)] ==
            IF n = 0 THEN [score |-> <<0, 0>>, found |-> <<>>]
            ELSE Consider(after[n - 1], ordered[n], last, home)
    IN  after

Candidates(ordered, corrections, home) ==
    Considered(ordered, CorrectionOf(corrections), home)[Len(ordered)]

(* The larger swing first, the earlier of equals. *)
BySwing(moments) == Sorted(moments, [i \in DOMAIN moments |-> <<0 - moments[i].swing>>])

(* DUPLICATE_WINDOW_SECONDS, to the minute. *)
Near(k, m) == k.period = m.period /\ k.minute - m.minute \in -1 .. 1

(* Mutant: the larger swing stays, whatever it is. *)
SuppressDuplicatesBySwing(moments) ==
    FoldLeft(LAMBDA kept, m : IF \E k \in ToSet(kept) : Near(k, m) THEN kept ELSE Append(kept, m),
             <<>>, BySwing(moments))

(* Of two moments of one passage of play the larger swing stays, but a     *)
(* mandatory one takes the place of any that is not.                       *)
Yields(k, m) == Near(k, m) /\ m.mandatory /\ ~k.mandatory

KeepMoment(kept, m) ==
    IF \E k \in ToSet(kept) : Near(k, m) /\ ~Yields(k, m) THEN kept
    ELSE Append(Pick(kept, {i \in DOMAIN kept : ~Yields(kept[i], m)}), m)

(* The moments kept after so many of them. *)
KeptAfter(moments) ==
    LET kept[n \in 0 .. Len(moments)] ==
            IF n = 0 THEN <<>> ELSE KeepMoment(kept[n - 1], moments[n])
    IN  kept

SuppressDuplicates(moments) == KeptAfter(BySwing(moments))[Len(moments)]

Select(found) ==
    LET mandatory == Pick(found, {i \in DOMAIN found : found[i].mandatory})
        optional == BySwing(Pick(found, {i \in DOMAIN found : ~found[i].mandatory}))
        room == IF Len(mandatory) >= MAX_MOMENTS THEN 0 ELSE MAX_MOMENTS - Len(mandatory)
        few == IF Len(optional) < room THEN Len(optional) ELSE room
        chosen == SuppressDuplicates(mandatory \o SubSeq(optional, 1, few))
    IN  Sorted(chosen, [i \in DOMAIN chosen |-> <<chosen[i].period, chosen[i].minute>>])

-----------------------------------------------------------------------------
(* writer.py: the lede, from the shape of the running score. *)

Standing(goals) == SelectSeq(goals, LAMBDA g : ~g.disallowed /\ g.period <= 4)

(* Mutant: goals in the order of their minutes, whatever half they are of. *)
GoalsInOrderOfMinute(state) ==
    SortSeq(Standing(state.goals), LAMBDA g, h : g.minute < h.minute)

GoalsInOrder(state) ==
    SortSeq(Standing(state.goals),
            LAMBDA g, h : KeyLess(<<g.period, g.minute>>, <<h.period, h.minute>>))

(* How long the winner trailed, and the goal that put it ahead for good. *)
WalkScore(state, winner) ==
    LET step(acc, g) ==
            LET diff == acc.diff + (IF g.team = winner THEN 1 ELSE 0 - 1)
                behind == acc.since # <<>>
            IN  [ diff |-> diff,
                  since |-> CASE diff < 0 /\ ~behind -> <<g.minute>>
                              [] diff >= 0 -> <<>>
                              [] OTHER -> acc.since,
                  trailed |-> IF diff >= 0 /\ behind
                              THEN acc.trailed + g.minute - acc.since[1] ELSE acc.trailed,
                  decisive |-> IF diff = 1 /\ g.team = winner THEN g.minute ELSE acc.decisive ]
    IN  FoldLeft(step, [diff |-> 0, since |-> <<>>, trailed |-> 0, decisive |-> 0],
                 GoalsInOrder(state))

Lede(state) ==
    LET h == Score(state)[1]
        a == Score(state)[2]
        walk == WalkScore(state, IF h > a THEN state.home ELSE state.away)
        margin == IF h > a THEN h - a ELSE a - h
    IN  CASE state.shootout # <<>> -> "shootout"
          [] state.shootout = <<>> /\ h = a -> IF h = 0 THEN "goalless" ELSE "draw"
          [] OTHER ->
                IF walk.trailed # 0 THEN "comeback"
                ELSE IF margin >= 3 THEN "comfortable"
                ELSE IF walk.decisive >= 80 THEN "late"
                ELSE IF margin = 2 THEN "comfortable" ELSE "narrow"

LiveLede(state, lede) ==
    CASE state.status = "finished" -> lede
      [] state.status # "finished" /\ Score(state)[1] = Score(state)[2] -> "level"
      [] OTHER -> "leads"

StoryTags(score, shootout, moments) ==
    (IF shootout # <<>> THEN {"penalties"} ELSE {})
      \cup (IF \E m \in ToSet(moments) : m.swing >= 40 THEN {"turnaround"} ELSE {})
      \cup (IF score[1] + score[2] >= 5 THEN {"goal-fest"} ELSE {})
      \cup (IF score = <<0, 0>> THEN {"stalemate"} ELSE {})

-----------------------------------------------------------------------------

BuildDocument(l, live) ==
    LET ordered == Ordered(l)
        state == Project(l)
        corrections == InDecisionOrder(Corrections(l))
        effective == EffectiveEvents(l)
        told == Candidates(ordered, corrections, state.home)
        moments == Select(told.found)
    IN  [ score |-> Score(state), halfTime |-> HalfTime(state), shootout |-> state.shootout,
          status |-> IF ~live THEN "finished"
                     ELSE IF state.status = "scheduled" THEN "live" ELSE state.status,
          goals |-> state.goals, cards |-> state.cards,
          timeline |-> Timeline(ordered, state, corrections),
          stats |-> <<MetricsGoals(effective, Home), MetricsGoals(effective, Away)>>,
          found |-> told.found, moments |-> moments,
          lede |-> IF live THEN LiveLede(state, Lede(state)) ELSE Lede(state),
          shots |-> ShotsDoc(ordered, state.superseded),
          corrections |-> corrections, version |-> VersionOf(l),
          tags |-> StoryTags(Score(state), state.shootout, moments) ]

-----------------------------------------------------------------------------
(* Properties, of the documents of logs in the order of the match. *)

Told == InOrder(log) /\ BothTeamsNamed

(* The last correction of a goal says whether it stands: select reads      *)
(* nothing else.                                                           *)
SettledByLast ==
    \A c, d \in ToSet(log) \cap Correction :
        c.supersedes = d.supersedes /\ c.kind \notin {"disallow", "reinstate"} =>
            \/ d.kind \notin {"disallow", "reinstate"}
            \/ KeyLess(CorrectionKey(c), CorrectionKey(d))

(* The views of a document agree although they are computed from different *)
(* events: the goal list, the timeline and the shot map strike out the     *)
(* same shots, and the goals a reader counts in the report's moments, in   *)
(* the statistics and at half-time are those of the score.                 *)
ViewsAgree ==
    Told =>
        \A d \in {BuildDocument(log, FALSE)} :
            LET struckIn(view) ==
                    {view[i].id : i \in {i \in DOMAIN view : view[i].disallowed}}
                shotGoals == SelectSeq(d.shots, LAMBDA s : s.goal /\ ~s.shootout)
            IN  /\ struckIn(d.timeline) = struckIn(shotGoals)
                /\ struckIn(d.timeline) \subseteq struckIn(d.goals)
                /\ d.stats = d.score
                /\ d.halfTime[1] <= d.score[1] /\ d.halfTime[2] <= d.score[2]
                /\ SettledByLast /\ d.found # <<>> => Last(d.found).scoreAfter = d.score

(* "A goal is never suppressed by a chance: the mandatory moments are the  *)
(* spine of the report" (selector.py, 242-243): a goal or a red card that  *)
(* is missing from the report gave way to another of them, of its own      *)
(* passage of play and no smaller.                                         *)
GoalOutlivesChance ==
    Told =>
        \A found \in {Candidates(Ordered(log),
                                 InDecisionOrder(Corrections(log)), Project(log).home).found} :
            \A reported \in {ToSet(Select(found))} : \A m \in ToSet(found) \ reported :
                m.mandatory =>
                    \E k \in reported : Near(k, m) /\ k.mandatory /\ k.swing >= m.swing

Played(l, periods) == \E e \in ToSet(l) \cap Event : e.period \in periods

Counting(s) == SelectSeq(s.goals, LAMBDA g : ~g.disallowed)
Winner(s) == IF Score(s)[1] > Score(s)[2] THEN s.home ELSE s.away

(* By how many goals the winner leads after the i-th one. *)
Lead(s, i) == 2 * Cardinality({j \in 1 .. i : Counting(s)[j].team = Winner(s)}) - i

(* The i-th goal is the one that decided the match: the winner is ahead    *)
(* from then on, and was not before.                                       *)
SettlesIt(s, i) ==
    /\ \A j \in i .. Len(Counting(s)) : Lead(s, j) > 0
    /\ i > 1 => Lead(s, i - 1) <= 0

(* What the first sentence claims is what the goals say: a side that       *)
(* "came from behind" was behind after some goal, in a match of ninety     *)
(* minutes "the decisive goal in the last ten minutes" is the one that put *)
(* the winner ahead for good, scored at the end of the second half, and    *)
(* the margin is the one the wording is for (writer.py, lede).             *)
LedeIsTrue ==
    Told =>
        \A s \in {Project(log)} :
            LET margin == Score(s)[1] - Score(s)[2]
                lede == Lede(s)
            IN  /\ lede \in {"goalless", "draw"} => margin = 0
                /\ lede = "comeback" => \E i \in DOMAIN Counting(s) : Lead(s, i) < 0
                /\ lede = "late" /\ ~Played(log, {3, 4}) =>
                       \E i \in DOMAIN Counting(s) :
                           /\ SettlesIt(s, i)
                           /\ Counting(s)[i].period = 2 /\ Counting(s)[i].minute >= 80
                /\ lede = "comfortable" => margin \notin -1 .. 1
                /\ lede = "narrow" => margin \in {-1, 1}

=============================================================================
