----------------------------- MODULE MCCatalogue -----------------------------
(* The instance of Catalogue: a group of four teams whose last two matches  *)
(* decide a three-way tie, a group match of another tournament, and a       *)
(* league of two teams that has a table only with both its matches.         *)
EXTENDS Catalogue

Game(comp, stage, home, away) ==
    [comp |-> comp, stage |-> stage, home |-> home, away |-> away]

MCFixture ==
    << Game("Euro", "Group Stage", 1, 2), Game("Euro", "Group Stage", 3, 4),
       Game("Euro", "Group Stage", 1, 3), Game("Euro", "Group Stage", 2, 4),
       Game("Euro", "Group Stage", 4, 1), Game("Euro", "Group Stage", 2, 3),
       Game("Liga", "Regular Season", 5, 6), Game("Liga", "Regular Season", 6, 5) >>

MCOutcome ==
    << {<<2, 0>>}, {<<0, 1>>}, {<<0, 1>>}, {<<1, 0>>},
       {<<0, 0>>, <<1, 0>>}, {<<0, 0>>, <<0, 1>>},
       {<<1, 0>>}, {<<1, 0>>} >>

MCQuick == <<"World Cup", "Euro">>
=============================================================================
