----------------------------- MODULE MCMatchFold -----------------------------
(* The instance of MatchFold, Document and Schedule for TLC: a small match, *)
(* the corrections that reach it, how far each minute moves the odds, and   *)
(* the second of each event.                                                *)
EXTENDS Schedule

E(id, type, period, minute, index, team) ==
    [id |-> id, type |-> type, period |-> period, minute |-> minute, index |-> index,
     team |-> team, player |-> "p1", goal |-> FALSE, xg |-> 10, card |-> "none"]

Goal(id, period, minute, index, team) ==
    [E(id, "shot", period, minute, index, team) EXCEPT !.goal = TRUE]

C(id, kind, supersedes, period, minute, payload) ==
    [id |-> id, kind |-> kind, supersedes |-> supersedes, period |-> period,
     minute |-> minute, payload |-> payload]

Lineups == {E("xiH", "xi", 1, 0, 1, "H"), E("xiA", "xi", 1, 0, 2, "A")}

\* A goal in first-half stoppage time, which sorts before the second half's
\* earlier minutes; one in the last minute of regulation; one against itself;
\* one of the shootout.
Goals == {Goal("g1", 1, 47, 10, "H"), Goal("g2", 2, 90, 30, "A")}
OwnGoal == {E("og", "own_goal", 2, 46, 20, "H")}
Penalty == {Goal("pen", 5, 121, 90, "H")}

\* Corrections whose decisions come in another order than they arrive in.
MCCorrection ==
    { C(1, "disallow", "g1", 1, 49, <<>>), C(2, "reinstate", "g1", 2, 50, <<>>),
      C(3, "amend", "g1", 2, 52, [xg |-> 20]) }

MCShuffled == Lineups \cup Goals \cup OwnGoal \cup Penalty \cup MCCorrection

\* In order only: a late winner right after a chance that swings more, a
\* sending-off in the minute of a chance, and a goal in extra time.
Late ==
    { [E("ch", "shot", 2, 91, 40, "A") EXCEPT !.xg = 40],
      Goal("g3", 2, 92, 41, "H"), Goal("g4", 3, 93, 42, "H"),
      [E("red", "foul", 2, 52, 25, "A") EXCEPT !.card = "Red Card"],
      [E("ch2", "shot", 2, 52, 26, "A") EXCEPT !.xg = 50] }

MCEvent == Lineups \cup Goals \cup OwnGoal \cup Penalty \cup Late
MCSwing == (90 :> 20) @@ (91 :> 50) @@ (92 :> 30) @@ (93 :> 30) @@ (52 :> 10) @@ (47 :> 40)

\* The own goal is early in its minute, so that decisions of the first half
\* arrive before and after it.
MCSecond == [id \in {e.id : e \in MCEvent} |-> CASE id = "g1" -> 50 [] id = "og" -> 5 [] OTHER -> 40]
=============================================================================
