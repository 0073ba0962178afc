------------------------------- MODULE MCSocial -------------------------------
(* The instance of Social: two environments, two fixtures of one league in  *)
(* play, a busy account that repeats itself, and posts with equal times.    *)
EXTENDS Social

WorkerSymmetry == Permutations(Worker)

MCAlias == [ars |-> {"Arsenal", "gunners"}, che |-> {"Chelsea", "blues"},
            liv |-> {"Liverpool", "reds"}, eve |-> {"Everton"}]
MCWeak == {"blues", "reds"}
MCCompName == [PL |-> {"Premier League"}]
MCPriority == <<"CL", "PL">>
MCCompetitions == <<"CL", "PL">>
MCTags == [PL |-> <<"premierleague", "epl">>]
MCTerms == {"goal"}

Game(id, home, away, status, hours) ==
    [id |-> id, comp |-> "PL", home |-> home, away |-> away, status |-> status, hours |-> hours]
MCSnapshots ==
    << <<Game("fd-2", "liv", "eve", "live", 1), Game("fd-1", "ars", "che", "live", 1),
       Game("fd-3", "che", "liv", "scheduled", 90)>> >>

MCPost(id, net, author, words, ts, says, flags) ==
    [id |-> id, net |-> net, author |-> author, words |-> words, ts |-> ts,
     lang |-> IF words \in {"d", "l"} THEN "pt" ELSE "en", says |-> says, flags |-> flags]
MCRaw ==
    { MCPost(1, "bluesky", "bot", "a", 1, {"che", "blues"}, {}),
      MCPost(2, "bluesky", "bot", "a", 1, {"ars", "che", "Arsenal", "Chelsea"}, {}),
      MCPost(3, "bluesky", "bot", "b", 2, {"ars", "Arsenal", "goal"}, {}),
      MCPost(9, "bluesky", "bot", "k", 2, {"ars", "Arsenal", "goal"}, {}),
      MCPost(4, "bluesky", "bot", "l", 2, {"PL", "Premier League"}, {}),
      MCPost(7, "mastodon", "mas", "f", 1, {"goal", "football", "premierleague"}, {"noindex"}),
      MCPost(8, "reddit", "red", "g", 2, {"goal"}, {}),
      MCPost(5, "x", "fan", "d", 1, {"ars", "liv", "Arsenal"}, {}),
      MCPost(6, "x", "ref", "e", 1, {"ars", "liv", "Arsenal"}, {"possibly_sensitive"}) }

MCNetworks == <<"bluesky", "mastodon", "reddit", "x">>
MCOffSets == {{"bluesky"}, {"x"}, {"mastodon", "x"}}
MCRequests == {[topic |-> "", net |-> "", lang |-> "en"], [topic |-> "PL", net |-> "bluesky", lang |-> ""]}
\* Bound: the reader follows the feed of one environment without troubles, in
\* behaviours of their own.
MCOffRead == {"mastodon", "x"}
ReaderAlone ==
    IF off = MCOffRead
    THEN /\ Cardinality({w \in Worker : wk'[w] # Idle}) <= 1
         /\ spent'.kills + spent'.failures = 0
    ELSE reader' = NoReader

=============================================================================
