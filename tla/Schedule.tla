------------------------------ MODULE Schedule ------------------------------
(***************************************************************************)
(* What a replay plays: the schedule built from a finished match, with the *)
(* decisions invented for it, and the score at a moment that is asked of   *)
(* the archived match and of its replay.                                   *)
(*                                                                         *)
(* Sources: backend/onside/replay/build_timeline.py, var_injector.py,      *)
(* driver.py (_target, _prepare), api/routes/matches.py (score_at).        *)
(*                                                                         *)
(* `Second` gives an event the second that its index stands for in         *)
(* MatchFold.  What the generator seeded with the match id would choose is *)
(* any choice; reasons and authorities are left out, and so is the         *)
(* reassignment, of which a replay asks for none.                          *)
(***************************************************************************)
EXTENDS Document

CONSTANT Second     \* the id of an event -> its second within the minute

ASSUME SecondsFollowIndex ==
    \A e \in Event :
        /\ Second[e.id] \in 0 .. 59
        /\ \A f \in Event : e.period = f.period /\ e.minute = f.minute /\ e.index < f.index
                                => Second[e.id] <= Second[f.id]

-----------------------------------------------------------------------------
(* build_timeline.py: the seconds from kick-off at which a record is sent. *)

PERIOD_CLOCK_START == <<0, 45 * 60, 90 * 60, 105 * 60, 120 * 60>>
BREAK_SECONDS == 60
CORRECTION_OFFSET == 30

IntoPeriod(period, minute, second) == Max({minute * 60 + second - PERIOD_CLOCK_START[period], 0})

PeriodSeconds(ordered, period) ==
    Max({IntoPeriod(period, e.minute, Second[e.id]) :
            e \in {e \in ToSet(ordered) : e.period = period}}) + BREAK_SECONDS

(* Mutant: a period starts when the match clock says so.                   *)
PeriodStartNominal(ordered, period) == PERIOD_CLOCK_START[period]

(* A period starts when those played before it are over, and a break.      *)
PeriodStart(ordered, period) ==
    LET played == {e.period : e \in ToSet(ordered)}
        before == {q \in played : q < period \/ period \notin played}
    IN  MapThenSumSet(LAMBDA q : PeriodSeconds(ordered, q), before)

Offset(ordered, period, minute, second) ==
    PeriodStart(ordered, period) + IntoPeriod(period, minute, second)

(* build, without the times: a stable sort by them.                        *)
Build(ordered, corrections) ==
    LET records == ordered \o corrections
        at == [i \in DOMAIN records |->
                  LET r == records[i]
                  IN  Offset(ordered, r.period, r.minute,
                             IF i <= Len(ordered) THEN Second[r.id] ELSE CORRECTION_OFFSET)]
        places == SortSeq([i \in DOMAIN records |-> i],
                          LAMBDA i, j : KeyLess(<<at[i], i>>, <<at[j], j>>))
    IN  [i \in DOMAIN places |-> records[places[i]]]

-----------------------------------------------------------------------------
(* var_injector.py: one goal disallowed, one chance revised. *)

MIN_DELAY == 2
MAX_DELAY == 4
Delay == MIN_DELAY .. MAX_DELAY

(* _target: the second goal of regulation time, or the only one.           *)
Target(ordered) ==
    LET goals == SelectSeq(ordered, LAMBDA e : e.goal /\ e.period <= 2)
    IN  {goals[i] : i \in {Min({2, Len(goals)})} \cap DOMAIN goals}

Decision(id, kind, e, delay, payload) ==
    [ id |-> id, kind |-> kind, supersedes |-> e.id, period |-> e.period,
      minute |-> e.minute + delay, payload |-> payload ]

(* Without a target any goal may be the one, but none of the shootout.     *)
Disallowals(ordered) ==
    LET goals == {e \in ToSet(ordered) : e.goal /\ e.period <= 4}
        target == IF Target(ordered) = {} THEN goals ELSE Target(ordered)
    IN  {Decision(2, "disallow", e, d, <<>>) : e \in target, d \in Delay}

(* The revised value is a quarter to four fifths higher, at most 0.95.     *)
Amendments(ordered) ==
    LET shots == {e \in ToSet(ordered) : e.type = "shot" /\ ~e.goal /\ e.period <= 4}
    IN  {Decision(1, "amend", e, d, [xg |-> Min({95, (e.xg * more) \div 100})]) :
            e \in shots, d \in Delay, more \in {125, 180}}

(* inject: every sequence of corrections it can return.                    *)
Injected(ordered) ==
    IF Disallowals(ordered) = {} THEN {<<>>}
    ELSE IF Amendments(ordered) = {} THEN {<<c>> : c \in Disallowals(ordered)}
    ELSE {InDecisionOrder(<<c, a>>) : c \in Disallowals(ordered), a \in Amendments(ordered)}

-----------------------------------------------------------------------------
(* score_at *)

(* Of an archived match: its document's goals up to the moment.            *)
ArchivedScoreAt(goals, home, moment) ==
    LET upTo(atHome) ==
            Len(SelectSeq(goals, LAMBDA g : /\ ~KeyLess(moment, <<g.period, g.minute>>)
                                            /\ (g.team = home) = atHome
                                            /\ ~g.disallowed))
    IN  <<upTo(TRUE), upTo(FALSE)>>

(* Of a replay: its log folded up to the moment.                           *)
ReplayedScoreAt(l, moment) == Score(ProjectUntil(l, moment))

-----------------------------------------------------------------------------

(* A replay tells its match.  Whenever a minute has been played, the log   *)
(* sent so far shows the archived score of that minute, less the goals     *)
(* whose disallowal has been sent: first-half stoppage time comes before   *)
(* the second half's earlier minutes (build_timeline.py, 3-7), and no      *)
(* decision before its goal.  Asked afterwards, "a goal that was later     *)
(* disallowed still counts at a minute before the VAR decision"            *)
(* (matches.py, 146-148).                                                  *)
ReplayTellsTheMatch ==
    Told /\ Corrections(log) = <<>> =>
        \A archived \in {Project(log)} :
        \A decisions \in Injected(Ordered(log)) :
        \A sent \in {Build(Ordered(log), decisions)} :
            LET scoreWithout(moment, struck) ==
                    ArchivedScoreAt(SelectSeq(archived.goals, LAMBDA g : g.id \notin struck),
                                    archived.home, moment)
                momentOf(i) == <<sent[i].period, sent[i].minute>>
                struckIn(some) == {c.supersedes : c \in {c \in some : c.kind = "disallow"}}
                played(i) == /\ sent[i] \in Event
                             /\ i < Len(sent) => KeyLess(momentOf(i), momentOf(i + 1))
            IN  \A i \in DOMAIN sent :
                    LET taken == ToSet(decisions) \cap ToSet(SubSeq(sent, 1, i))
                        decided == {c \in ToSet(decisions) :
                                       ~KeyLess(momentOf(i), <<c.period, c.minute>>)}
                    IN  /\ played(i) =>
                             Score(Project(SubSeq(sent, 1, i))) =
                                 scoreWithout(momentOf(i), struckIn(taken))
                        /\ ReplayedScoreAt(sent, momentOf(i)) =
                             scoreWithout(momentOf(i), struckIn(decided))
=============================================================================
