------------------------------ MODULE MatchFold ------------------------------
(***************************************************************************)
(* The fold from a match's append-only log to its state, and the views     *)
(* that are computed beside it: the corrected events that metrics and win  *)
(* probability read, and the state at an earlier moment.                   *)
(*                                                                         *)
(* Sources: backend/onside/domain/match_state.py, corrections.py,          *)
(* events.py, metrics.py, models/features.py.                              *)
(*                                                                         *)
(* The state of the module is the log itself, in arrival order; everything *)
(* else is a function of it.  A record keeps the fields the score, the     *)
(* clock and the corrections depend on: `index` stands for the second and  *)
(* the feed's index, `goal` for the shot's outcome, and passing, pressing  *)
(* and location statistics are left out.                                   *)
(***************************************************************************)
EXTENDS Naturals, Sequences, FiniteSets, SequencesExt

CONSTANTS
    Event,      \* [id, type, period, minute, index, team, player, goal, xg, card]
    Correction, \* [id, kind, supersedes, period, minute, payload]
    Home, Away, \* the teams the match's metadata names
    NoTeam,
    Shuffled,   \* bound: the records that arrive in any order, and twice
    MaxLog,     \* bound: records delivered while they do
    MaxInOrder  \* bound: records delivered in the order of the match

Record == Event \cup Correction

(* A correction's id is a number, in the order of the names it stands for. *)
ASSUME FoldRecords ==
    /\ Home # Away /\ NoTeam \notin {Home, Away}
    /\ \A a, b \in Event : (a.id = b.id \/ a.index = b.index) => a = b
    /\ \A a, b \in Correction : a.id = b.id => a = b
    /\ \A e \in Event :
        /\ {e.period, e.minute, e.index} \subseteq Nat
        /\ e.goal \in BOOLEAN /\ (e.goal => e.type = "shot")
        /\ e.team \in {Home, Away} \/ (e.team = NoTeam /\ e.type \notin {"shot", "own_goal"})
        /\ DOMAIN e = {"id", "type", "period", "minute", "index", "team", "player", "goal",
                       "xg", "card"}
    /\ \A c \in Correction :
        /\ {c.period, c.minute, c.id} \subseteq Nat
        /\ "supersedes" \in DOMAIN c
        /\ "team" \in DOMAIN c.payload => c.payload.team \in {Home, Away}
        /\ "minute" \in DOMAIN c.payload => c.payload.minute \in Nat

VARIABLE log    \* every record delivered, redeliveries included

-----------------------------------------------------------------------------
(* Order. *)

KeyLess(a, b) ==
    \E i \in DOMAIN a : a[i] < b[i] /\ \A j \in 1 .. i - 1 : a[j] = b[j]

\* What has been numbered from zero on, in that order.
ByNumber(numbered) ==
    [k \in 1 .. Cardinality(numbered) |-> (CHOOSE p \in numbered : p[1] = k - 1)[2]]

\* What is at these places of a sequence, in its order.
Pick(s, places) ==
    ByNumber({<<Cardinality({j \in places : j < i}), s[i]>> : i \in places})

\* A stable sort by the keys of the places.
Sorted(s, key) ==
    LET ahead(i) == {j \in DOMAIN s : KeyLess(key[j], key[i]) \/ (key[j] = key[i] /\ j < i)}
    IN  ByNumber({<<Cardinality(ahead(i)), s[i]>> : i \in DOMAIN s})

\* CanonicalEvent.sort_key and Correction.sort_key
EventKey(e) == <<e.period, e.minute, e.index>>
CorrectionKey(c) == <<c.period, c.minute, c.id>>

SortedCanonically(s) == Sorted(s, [i \in DOMAIN s |-> EventKey(s[i])])
InDecisionOrder(s) == Sorted(s, [i \in DOMAIN s |-> CorrectionKey(s[i])])

\* The places of a sequence that repeat no earlier one.
Firsts(s) == {i \in DOMAIN s : \A j \in 1 .. i - 1 : s[j] # s[i]}
Deduplicated(s) == Pick(s, Firsts(s))

IsCorrection(r) == "supersedes" \in DOMAIN r

\* _split: a redelivered event is dropped, a redelivered correction is kept.
Events(l) == Pick(l, {i \in Firsts(l) : ~IsCorrection(l[i])})
Corrections(l) == Pick(l, {i \in DOMAIN l : IsCorrection(l[i])})

-----------------------------------------------------------------------------
(* Corrections. *)

NoVerdict == [disallowed |-> FALSE, amendments |-> <<>>]

\* dict.update: what is put by name, over what was there.
Over(f, g) == [x \in DOMAIN f \cup DOMAIN g |-> IF x \in DOMAIN f THEN f[x] ELSE g[x]]

\* Mutant: any later decision about a goal lifts an earlier disallowal.
AfterCorrectionLifts(verdict, c) ==
    [disallowed |-> c.kind = "disallow",
     amendments |-> Over(c.payload, verdict.amendments)]

\* One correction applied to the verdict on its event.
AfterCorrection(verdict, c) ==
    [disallowed |-> CASE c.kind = "disallow"  -> TRUE
                      [] c.kind = "reinstate" -> FALSE
                      [] OTHER                -> verdict.disallowed,
     amendments |-> IF c.kind \in {"reassign", "amend"}
                    THEN Over(c.payload, verdict.amendments)
                    ELSE verdict.amendments]

VerdictOn(verdicts, id) == IF id \in DOMAIN verdicts THEN verdicts[id] ELSE NoVerdict

AfterDecision(verdicts, c) ==
    Over([id \in {c.supersedes} |-> AfterCorrection(VerdictOn(verdicts, id), c)], verdicts)

\* The verdicts after the first n of a sequence of corrections.
Verdicts(decisions) ==
    LET after[n \in 0 .. Len(decisions)] ==
            IF n = 0 THEN <<>> ELSE AfterDecision(after[n - 1], decisions[n])
    IN  after

\* Mutant: corrections apply in the order they arrived.
ResolveAsArrived(cs) ==
    LET decisions == Deduplicated(cs) IN Verdicts(decisions)[Len(decisions)]

\* resolve: one verdict per superseded event.
Resolve(cs) ==
    LET decisions == Deduplicated(InDecisionOrder(cs)) IN Verdicts(decisions)[Len(decisions)]

\* _effective: only these fields can be amended, and xg only of a shot.
Amendable(e) == {"player", "team", "minute"} \cup (IF e.type = "shot" THEN {"xg"} ELSE {})

Effective(e, verdict) ==
    [f \in DOMAIN e |-> IF f \in Amendable(e) \cap DOMAIN verdict.amendments
                        THEN verdict.amendments[f] ELSE e[f]]

\* The events as the verdicts on them have them read.
Amended(ordered, verdicts) ==
    [i \in DOMAIN ordered |-> Effective(ordered[i], VerdictOn(verdicts, ordered[i].id))]

\* What project and effective_events read a log as.
Ordered(l) == SortedCanonically(Events(l))
Verdict(l) == Resolve(Corrections(l))

-----------------------------------------------------------------------------
(* project *)

TeamAtFirst(ordered, places) == IF places = {} THEN NoTeam ELSE ordered[Min(places)].team

\* The teams the line-ups name, or else the first ones seen.
NamedFirst(ordered, places) ==
    LET named == {i \in places : ordered[i].type = "xi"}
    IN  TeamAtFirst(ordered, IF named # {} THEN named ELSE places)

HomeOf(ordered) ==
    NamedFirst(ordered, {i \in DOMAIN ordered : ordered[i].team # NoTeam})
AwayOf(ordered) ==
    NamedFirst(ordered, {i \in DOMAIN ordered : ordered[i].team \notin {NoTeam, HomeOf(ordered)}})

GoalRecord(e, team, verdict) ==
    [id |-> e.id, period |-> e.period, minute |-> e.minute, team |-> team,
     player |-> e.player, xg |-> e.xg, disallowed |-> verdict.disallowed]

\* Mutant: a disallowed goal is left out of the list.
CreditedIfStanding(e, verdict, home, away) ==
    CASE verdict.disallowed -> NoTeam
      [] e.type = "shot" /\ e.goal -> e.team
      [] e.type = "own_goal" /\ NoTeam \notin {e.team, away} -> IF e.team = home THEN away ELSE home
      [] OTHER -> NoTeam

\* The team a goal is credited to: an own goal goes to the other one.
Credited(e, verdict, home, away) ==
    CASE e.type = "shot" /\ e.goal -> e.team
      [] e.type = "own_goal" /\ NoTeam \notin {e.team, away} -> IF e.team = home THEN away ELSE home
      [] OTHER -> NoTeam

\* The shootout is not part of the scoreline.
InShootout(e) == e.type = "shot" /\ e.period = 5

GoalList(read, verdicts, home, away) ==
    LET verdict == [i \in DOMAIN read |-> VerdictOn(verdicts, read[i].id)]
        team == [i \in DOMAIN read |-> Credited(read[i], verdict[i], home, away)]
    IN  Pick([i \in DOMAIN read |-> GoalRecord(read[i], team[i], verdict[i])],
             {i \in DOMAIN read : ~InShootout(read[i]) /\ team[i] # NoTeam})

CardList(read, verdicts) ==
    Pick([i \in DOMAIN read |-> [id |-> read[i].id, team |-> read[i].team, card |-> read[i].card]],
         {i \in DOMAIN read :
            /\ ~InShootout(read[i]) /\ read[i].card # "none" /\ read[i].team # NoTeam
            /\ ~VerdictOn(verdicts, read[i].id).disallowed})

Shootout(read) ==
    Pick([i \in DOMAIN read |-> [team |-> read[i].team, scored |-> read[i].goal]],
         {i \in DOMAIN read : InShootout(read[i]) /\ read[i].team # NoTeam})

StatusAfter(read) ==
    LET marks == {i \in DOMAIN read :
                    \/ read[i].type = "half_end" /\ read[i].period = 1
                    \/ read[i].type = "half_start"}
    IN  CASE read = <<>> -> "scheduled"
          [] read # <<>> /\ Last(read).type = "half_end" /\ Last(read).period >= 2 -> "finished"
          [] OTHER -> IF marks # {} /\ read[Max(marks)].type = "half_end"
                      THEN "half_time" ELSE "live"

VersionOf(l) == Len(Events(l)) + Len(Corrections(l))

StateOf(ordered, verdicts, version) ==
    LET read == Amended(ordered, verdicts)
        home == HomeOf(ordered)
        away == AwayOf(ordered)
    IN  [home |-> home,
         away |-> away,
         clock |-> IF read = <<>> THEN <<0, 0>> ELSE <<Last(read).period, Last(read).minute>>,
         status |-> StatusAfter(read),
         goals |-> GoalList(read, verdicts, home, away),
         cards |-> CardList(read, verdicts),
         shootout |-> Shootout(read),
         superseded |-> {id \in DOMAIN verdicts : verdicts[id].disallowed},
         version |-> version]

Project(l) == StateOf(Ordered(l), Verdict(l), VersionOf(l))

\* MatchState.home_score and away_score
GoalsFor(state, team) ==
    Cardinality({i \in DOMAIN state.goals :
                    state.goals[i].team = team /\ ~state.goals[i].disallowed})
Score(state) == <<GoalsFor(state, state.home), GoalsFor(state, state.away)>>

\* Mutant: the cutoff applies to the events only.
ProjectUntilEvents(l, cutoff) ==
    Project(Pick(l, {i \in DOMAIN l :
                        IsCorrection(l[i]) \/ ~KeyLess(cutoff, <<l[i].period, l[i].minute>>)}))

\* project_until
ProjectUntil(l, cutoff) ==
    Project(Pick(l, {i \in DOMAIN l : ~KeyLess(cutoff, <<l[i].period, l[i].minute>>)}))

-----------------------------------------------------------------------------
(* The views that read events instead of the state. *)

\* Mutant: amendments are applied, disallowed goals stay goals.
EffectiveEventsGoalsKept(l) == Amended(Ordered(l), Verdict(l))

\* effective_events: a disallowed goal keeps its shot and loses its goal.
EffectiveEvents(l) ==
    LET verdicts == Verdict(l)
        read == Amended(Ordered(l), verdicts)
    IN  [i \in DOMAIN read |->
            [read[i] EXCEPT !.goal = @ /\ ~VerdictOn(verdicts, read[i].id).disallowed]]

Opponent(team) == IF team = Home THEN Away ELSE Home

\* A goal for the team, as team_metrics and minute_buckets see it.
CreditedTo(e, team) ==
    \/ e.type = "shot" /\ e.goal /\ e.team = team
    \/ e.type = "own_goal" /\ Opponent(e.team) = team

\* team_metrics: regulation and extra time, no shootout.
MetricsGoals(events, team) ==
    Cardinality({i \in DOMAIN events : events[i].period # 5 /\ CreditedTo(events[i], team)})

Regulation == 90
BucketMinute(e) == IF e.minute < Regulation THEN e.minute ELSE Regulation

InRegulation(events, team) ==
    {i \in DOMAIN events : events[i].period <= 2 /\ CreditedTo(events[i], team)}

\* minute_buckets: the goals strictly before a minute, regulation only.
GoalsBefore(events, team, minute) ==
    Cardinality({i \in InRegulation(events, team) : BucketMinute(events[i]) < minute})

\* Mutant: stoppage time after the ninetieth minute only.
LateGoalsAfter(events, team) ==
    Cardinality({i \in InRegulation(events, team) : events[i].minute > Regulation})

\* _late_goals
LateGoals(events, team) ==
    Cardinality({i \in InRegulation(events, team) : events[i].minute >= Regulation})

\* match_minute_rows: the goals the label of a match is decided by.
LabelGoals(events, team) == GoalsBefore(events, team, Regulation) + LateGoals(events, team)

-----------------------------------------------------------------------------
(* Delivery. *)

Init == log = <<>>

\* Every record arrived when the match had reached its minute.
ArrivedInOrder(l) ==
    \A i \in 1 .. Len(l) - 1 :
        /\ ~KeyLess(<<l[i + 1].period, l[i + 1].minute>>, <<l[i].period, l[i].minute>>)
        /\ l[i] \in Event /\ l[i + 1] \in Event => ~KeyLess(EventKey(l[i + 1]), EventKey(l[i]))

InOrder(l) == ArrivedInOrder(l) /\ Cardinality(ToSet(l)) = Len(l)

\* A record reaches the log: a new one, one delivered before, one of an
\* earlier minute.
Deliver(r) ==
    /\ \/ Len(log) < MaxLog /\ r \in Shuffled
       \/ Len(log) < MaxInOrder /\ InOrder(Append(log, r))
    /\ log' = Append(log, r)

Next == \E r \in Record : Deliver(r)

Spec == Init /\ [][Next]_log

-----------------------------------------------------------------------------
(* Properties. *)

\* The records of a log, once each, in the order of the match.
Straightened(l) ==
    LET once == Deduplicated(l)
    IN  Sorted(once, [i \in DOMAIN once |->
                        IF IsCorrection(once[i])
                        THEN <<once[i].period, once[i].minute, 1, once[i].id>>
                        ELSE <<once[i].period, once[i].minute, 0, once[i].index>>])

\* What a reader of the state can see of it, redelivered corrections aside.
Visible(l) == [Project(l) EXCEPT !.version = 0]

\* "the result depends only on the set of records, never on their arrival
\* order" (match_state.py, 231-232): the log gives what its records give once
\* each, in the order of the match.
OrderIrrelevant == Visible(log) = Visible(Straightened(log))

\* The reference for resolve: a goal counts unless the last decision about
\* whether it stands was to disallow it, whatever else was corrected.
LastDecision(id) ==
    LET about == {c \in ToSet(log) \cap Correction :
                     c.supersedes = id /\ c.kind \in {"disallow", "reinstate"}}
    IN  IF about = {} THEN "stands"
        ELSE (CHOOSE c \in about : \A d \in about : ~KeyLess(CorrectionKey(c), CorrectionKey(d))).kind

GoalsCountByLastDecision ==
    \A g \in ToSet(Project(log).goals) : g.disallowed <=> LastDecision(g.id) = "disallow"

BothTeamsNamed ==
    \A t \in {Home, Away} : \E i \in DOMAIN log : log[i] \in Event /\ log[i].type = "xi" /\ log[i].team = t

\* "a correction moves every number, not only the score" (match_state.py,
\* 449-452): the goals in the metrics are the goals of the score.
OneScore ==
    BothTeamsNamed =>
        \A corrected \in {EffectiveEvents(log)}, state \in {Project(log)}, t \in {Home, Away} :
            MetricsGoals(corrected, t) = GoalsFor(state, t)

\* Every goal of regulation time is counted exactly once in the label a match
\* is trained on, whichever minute of stoppage time it was scored in.
LabelCountsEveryGoal ==
    BothTeamsNamed =>
        \A corrected \in {EffectiveEvents(log)}, state \in {Project(log)}, t \in {Home, Away} :
            LabelGoals(corrected, t) =
                Cardinality({i \in DOMAIN state.goals :
                                /\ state.goals[i].team = t /\ ~state.goals[i].disallowed
                                /\ state.goals[i].period <= 2})

GoalIds(l) == {g.id : g \in ToSet(Project(l).goals)}

\* A goal that was once shown stays in the list, struck through or not:
\* "it is never removed" (document.py, 317-318).
GoalsStayVisible == [][BothTeamsNamed => GoalIds(log) \subseteq GoalIds(log')]_log

\* "The state as it stood at a moment in the match" (project_until): while the
\* feed is in order, the question asked later is answered as it was shown then.
AskedLaterAnswersAsThen ==
    \A k \in DOMAIN log :
        LET then == <<log[k].period, log[k].minute>>
        IN  /\ ArrivedInOrder(log)
            /\ k < Len(log) => KeyLess(then, <<log[k + 1].period, log[k + 1].minute>>)
            => Score(ProjectUntil(log, then)) = Score(Project(SubSeq(log, 1, k)))

=============================================================================
