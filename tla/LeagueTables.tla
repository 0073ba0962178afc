---------------------------- MODULE LeagueTables ----------------------------
(***************************************************************************)
(* League tables: the rows, the tie-break rules of each competition, and   *)
(* which seasons get a table at all.  Pure operators, evaluated by the     *)
(* module Catalogue on the match cards the seeder holds.                   *)
(*                                                                         *)
(* Sources: backend/onside/domain/tables.py, ingest/catalog.py.            *)
(*                                                                         *)
(* A card is [id, comp, stage, home, away, hg, ag]; a set of cards is a  *)
(* list of results (ids make them distinct), and the order of the ids is   *)
(* the order of the kick-offs.  A team is a number: names only matter for  *)
(* the order in which teams nothing separates are listed.                  *)
(***************************************************************************)
EXTENDS Integers, Sequences, FiniteSets, FiniteSetsExt, SequencesExt

Sum(S, f(_)) == MapThenSumSet(f, S)

(* The members of S in the strict order less. *)
Ranked(S, less(_, _)) ==
    [i \in 1 .. Cardinality(S) |->
        CHOOSE x \in S : Cardinality({y \in S : less(y, x)}) = i - 1]

(* Result: what a match gives to one of its teams. *)

Involves(r, t) == t \in {r.home, r.away}
GoalsFor(r, t) == IF t = r.home THEN r.hg ELSE r.ag
GoalsAgainst(r, t) == IF t = r.home THEN r.ag ELSE r.hg
AwayGoalsFor(r, t) == IF t = r.away THEN r.ag ELSE 0
PointsFor(r, t) ==
    LET gf == GoalsFor(r, t)
        ga == GoalsAgainst(r, t)
    IN  IF gf > ga THEN 3 ELSE IF gf = ga THEN 1 ELSE 0

TeamsOf(results) == {r.home : r \in results} \cup {r.away : r \in results}
PlayedBy(results, t) == {r \in results : Involves(r, t)}

BuildRow(results, t) ==
    LET mine == PlayedBy(results, t)
        gf == Sum(mine, LAMBDA r : GoalsFor(r, t))
        ga == Sum(mine, LAMBDA r : GoalsAgainst(r, t))
    IN  [ played |-> Cardinality(mine),
          won |-> Cardinality({r \in mine : PointsFor(r, t) = 3}),
          drawn |-> Cardinality({r \in mine : PointsFor(r, t) = 1}),
          gf |-> gf, ga |-> ga ]

BuildRows(results) == [t \in TeamsOf(results) |-> BuildRow(results, t)]
Points(row) == 3 * row.won + row.drawn

-----------------------------------------------------------------------------
(* Tie-breaks: a rule scores a team within a group of level teams. *)

Mini(group, results) == {r \in results : r.home \in group /\ r.away \in group}

RuleScore(rule, team, group, results) ==
    LET all == PlayedBy(results, team)
        mini == PlayedBy(Mini(group, results), team)
        diff(r) == GoalsFor(r, team) - GoalsAgainst(r, team)
    IN  CASE rule = "goal_difference" -> Sum(all, diff)
          [] rule = "goals_for" -> Sum(all, LAMBDA r : GoalsFor(r, team))
          [] rule = "away_goals" -> Sum(all, LAMBDA r : AwayGoalsFor(r, team))
          [] rule = "h2h_points" -> Sum(mini, LAMBDA r : PointsFor(r, team))
          [] rule = "h2h_gd" -> Sum(mini, diff)
          [] rule = "h2h_goals_for" -> Sum(mini, LAMBDA r : GoalsFor(r, team))
          [] rule = "h2h_away_goals" -> Sum(mini, LAMBDA r : AwayGoalsFor(r, team))

TieBreaks ==
    [ PL |-> <<"goal_difference", "goals_for", "h2h_points">>,
      LIGA |-> <<"h2h_points", "h2h_gd", "goal_difference", "goals_for">>,
      SERIE_A |-> <<"h2h_points", "goal_difference", "goals_for">>,
      BUNDESLIGA |-> <<"goal_difference", "goals_for", "h2h_points">>,
      LIGUE_1 |-> <<"goal_difference", "goals_for">>,
      UCL_GROUP |-> <<"h2h_points", "h2h_gd", "h2h_away_goals", "goal_difference",
                      "goals_for", "away_goals">>,
      FIFA_GROUP |-> <<"goal_difference", "goals_for", "h2h_points", "h2h_gd",
                       "h2h_goals_for">>,
      UEFA_EURO_GROUP |-> <<"h2h_points", "h2h_gd", "h2h_goals_for", "goal_difference",
                            "goals_for">> ]

ByName(group) == Ranked(group, <)

(* Mutant: one sort by all the scores, each within the whole level group. *)
BreakTieOnce(group, results, rules) ==
    LET key(t) == [k \in DOMAIN rules |-> RuleScore(rules[k], t, group, results)]
        ahead(a, b) == \/ key(a) = key(b) /\ a < b
                       \/ \E k \in DOMAIN rules :
                            /\ key(a)[k] > key(b)[k]
                            /\ \A j \in 1 .. k - 1 : key(a)[j] = key(b)[j]
        same == {{u \in group : key(u) = key(t)} : t \in group}
    IN  [ order |-> Ranked(group, ahead),
          stuck |-> Ranked({g \in same : Cardinality(g) > 1},
                          LAMBDA g, h : Min(g) < Min(h)) ]

(* What a rule leaves of a group of level teams: the best of them first.   *)
Cut(group, results, rule) ==
    LET score == [t \in group |-> RuleScore(rule, t, group, results)]
        scores == Ranked({score[t] : t \in group}, >)
    IN  [i \in DOMAIN scores |-> {t \in group : score[t] = scores[i]}]

(* The order of a group of level teams and the groups no rule separates.   *)
(* A part that is still level goes on with the rules after the one that    *)
(* cut it out, which then see its smaller mini-table.                      *)
BreakTie(group, results, rules) ==
    LET cutAll(parts, rule) ==
            FlattenSeq([i \in DOMAIN parts |-> Cut(parts[i], results, rule)])
        parts == FoldLeft(cutAll, <<group>>, rules)
    IN  [ order |-> FlattenSeq([i \in DOMAIN parts |-> ByName(parts[i])]),
          stuck |-> SelectSeq(parts, LAMBDA g : Cardinality(g) > 1) ]

Compute(results, rule) ==
    LET rows == BuildRows(results)
        points == Ranked({Points(rows[t]) : t \in DOMAIN rows}, >)
        level(i) == {t \in DOMAIN rows : Points(rows[t]) = points[i]}
        parts == [i \in DOMAIN points |-> BreakTie(level(i), results, TieBreaks[rule])]
    IN  [ rows |-> [t \in DOMAIN rows |-> rows[t]], rule |-> rule,
          order |-> FlattenSeq([i \in DOMAIN parts |-> parts[i].order]),
          stuck |-> FlattenSeq([i \in DOMAIN parts |-> parts[i].stuck]) ]

-----------------------------------------------------------------------------
(* Which tables a season gets. *)

(* Groups are the connected components of the fixture graph, found with a  *)
(* union-find over the cards in their order, numbered by first kick-off.   *)
Joined(cards) ==
    LET join(root, c) ==
            LET a == root[c.home]
                b == root[c.away]
            IN  [t \in DOMAIN root |-> IF root[t] = a THEN b ELSE root[t]]
    IN  FoldLeft(join, [t \in TeamsOf(cards) |-> t],
                 Ranked(cards, LAMBDA x, y : x.id < y.id))

InferGroups(cards) ==
    LET root == Joined(cards)
        first(g) == Min({c.id : c \in g})
        groups == {{c \in cards : root[c.home] = r} : r \in {root[d.home] : d \in cards}}
    IN  Ranked(groups, LAMBDA g, h : first(g) < first(h))

LeagueRules == [Liga |-> "LIGA", Premier |-> "PL"]
GroupRule(comp) == IF comp = "Euro" THEN "UEFA_EURO_GROUP" ELSE "FIFA_GROUP"

(* tables: group name -> table, with how many of its matches are missing;  *)
(* a league has one only when nine matches in ten of it are there.         *)
SeasonTables(comp, cards) ==
    LET grouped == {c \in cards : c.stage = "Group Stage"}
        groups == InferGroups(grouped)
        n == Cardinality(TeamsOf(cards))
        missing(g) == LET k == Cardinality(TeamsOf(g))
                      IN  Max({0, (k * (k - 1)) \div 2 - Cardinality(g)})
    IN  IF grouped # {}
        THEN [i \in DOMAIN groups |->
                [ missing |-> missing(groups[i]),
                  table |-> Compute(groups[i], GroupRule(comp)) ]]
        ELSE IF comp \notin DOMAIN LeagueRules THEN <<>>
        ELSE IF n * (n - 1) = 0 \/ 10 * Cardinality(cards) < 9 * n * (n - 1) THEN <<>>
        ELSE <<[missing |-> 0, table |-> Compute(cards, LeagueRules[comp])]>>

-----------------------------------------------------------------------------
(* Reference: what the rules of a competition say of two teams, without    *)
(* sorting anything.  Each step of the fold reads a rule within the teams  *)
(* still level with a team, notes over whom it puts the team, and keeps    *)
(* those it does not tell apart.                                           *)
Judge(sofar, score) ==
    LET level == sofar.level
    IN  [ level |-> [t \in DOMAIN level |-> {u \in level[t] : score[u] = score[t]}],
          below |-> [t \in DOMAIN level |->
                        sofar.below[t] \cup {u \in level[t] : score[t] > score[u]}] ]

Judged(results, rules) ==
    LET teams == TeamsOf(results)
        unjudged == [level |-> [t \in teams |-> teams], below |-> [t \in teams |-> {}]]
        points == [t \in teams |-> Sum(PlayedBy(results, t), LAMBDA r : PointsFor(r, t))]
        byRule(sofar, rule) ==
            Judge(sofar, [t \in teams |-> RuleScore(rule, t, sofar.level[t], results)])
    IN  FoldLeft(byRule, Judge(unjudged, points), rules)

FollowsRules(table, results) ==
    \A judged \in {Judged(results, TieBreaks[table.rule])} :
        /\ ToSet(table.order) = TeamsOf(results)
        /\ Len(table.order) = Cardinality(TeamsOf(results))
        /\ \A i, j \in DOMAIN table.order :
            i < j => table.order[i] \notin judged.below[table.order[j]]
        /\ ToSet(table.stuck) =
            {g \in {judged.level[t] : t \in TeamsOf(results)} : Cardinality(g) > 1}
=============================================================================
