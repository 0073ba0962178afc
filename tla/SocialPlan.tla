------------------------------ MODULE SocialPlan ------------------------------
(***************************************************************************)
(* What the social worker looks for and what it keeps: the fixtures        *)
(* snapshot turned into topics and queries, the posts each network shows   *)
(* that may be shown here, and the topics a post is about.                 *)
(*                                                                         *)
(* Sources: backend/onside/social/topics.py, base.py and the normalise and *)
(* _keep functions of sources.py.                                          *)
(*                                                                         *)
(* A text is the set of the names it mentions, a fixture's time is its     *)
(* distance from now in hours, and a query is <<what is asked, via>>.      *)
(***************************************************************************)
EXTENDS Integers, FiniteSets, Sequences, SequencesExt

CONSTANTS
    Alias,                  \* team -> the names people use for it, its own among them
    WEAK_ALIASES,           \* names too common to identify a team alone
    CompName,               \* competition -> its names
    PRIORITY,               \* competitions in broadcast order
    BLUESKY_COMPETITIONS,   \* competitions with a Bluesky query, in order
    COMPETITION_TAGS,       \* competition -> its hashtags, in order
    FOOTBALL_TERMS,         \* words that make a text about football
    MAX_FIXTURES, MAX_AGE

LIVE == {"live", "half_time"}
WINDOW == 36

First(s, n) == SubSeq(s, 1, IF Len(s) < n THEN Len(s) ELSE n)
Flat(ss) == FlattenSeq(ss)

-----------------------------------------------------------------------------
(* topics.py *)

Priority(c) ==
    IF \E i \in DOMAIN PRIORITY : PRIORITY[i] = c
    THEN (CHOOSE i \in DOMAIN PRIORITY : PRIORITY[i] = c) - 1 ELSE 99

(* _rank as a number: live first, then the competition, then the time. *)
Rank(f) == (IF f.status \in LIVE THEN 0 ELSE 100000) + Priority(f.comp) * 1000 + f.hours

ByRank(fs) ==
    LET before(i, j) == Rank(fs[i]) < Rank(fs[j]) \/ (Rank(fs[i]) = Rank(fs[j]) /\ i < j)
    IN  [k \in DOMAIN fs |->
            fs[CHOOSE i \in DOMAIN fs : Cardinality({j \in DOMAIN fs : before(j, i)}) = k - 1]]

Relevant(fs) ==
    First(ByRank(SelectSeq(fs, LAMBDA f :
            f.status \in LIVE \/ (f.status \in {"scheduled", "finished"} /\ f.hours <= WINDOW))),
          MAX_FIXTURES)

(* The competitions of every fixture, each once, in the order of _rank. *)
Codes(fs) ==
    LET all == [i \in DOMAIN fs |-> ByRank(fs)[i].comp]
        firsts == {i \in DOMAIN all : \A j \in 1 .. i - 1 : all[j] # all[i]}
    IN  [k \in 1 .. Cardinality(firsts) |->
            all[CHOOSE i \in firsts : Cardinality({j \in firsts : j < i}) = k - 1]]

(* The first query of each text stands. *)
OncePerText(qs) ==
    LET firsts == {i \in DOMAIN qs : \A j \in 1 .. i - 1 : qs[j][1] # qs[i][1]}
    IN  [k \in 1 .. Cardinality(firsts) |->
            qs[CHOOSE i \in firsts : Cardinality({j \in firsts : j < i}) = k - 1]]

BlueskyQueries(fixtures, codes) ==
    [i \in DOMAIN First(fixtures, 8) |-> <<{fixtures[i].home, fixtures[i].away}, fixtures[i].id>>]
    \o First([i \in DOMAIN SelectSeq(BLUESKY_COMPETITIONS, LAMBDA c : Contains(codes, c)) |->
                LET c == SelectSeq(BLUESKY_COMPETITIONS, LAMBDA d : Contains(codes, d))[i]
                IN  <<{c}, c>>], 4)

MastodonQueries(fixtures, codes) ==
    First(OncePerText(
        << <<{"football"}, "">>, <<{"soccer"}, "">> >>
        \o Flat([i \in DOMAIN codes |->
                [t \in DOMAIN First(COMPETITION_TAGS[codes[i]], 1) |->
                    <<{COMPETITION_TAGS[codes[i]][t]}, codes[i]>>]])
        \o Flat([i \in DOMAIN First(fixtures, 4) |->
                << <<{fixtures[i].home}, fixtures[i].id>>,
                   <<{fixtures[i].away}, fixtures[i].id>> >>])), 14)

XQueries(fixtures) ==
    LET live == First(SelectSeq(fixtures, LAMBDA f : f.status \in LIVE), 3)
    IN  [i \in DOMAIN live |-> <<{live[i].home, live[i].away}, live[i].id>>]

Plan(fs) ==
    LET fixtures == Relevant(fs)
        codes == Codes(fs)
    IN  [ fixtures |-> fixtures, codes |-> codes,
          queries |-> [ bluesky |-> First(BlueskyQueries(fixtures, codes), 12),
                        mastodon |-> MastodonQueries(fixtures, codes),
                        reddit |-> << <<{}, "">> >>,
                        x |-> XQueries(fixtures) ] ]

-----------------------------------------------------------------------------
(* base.py *)

Strong(team) == Alias[team] \ WEAK_ALIASES

(* The fixtures a text is about: both teams named, or one of them in a     *)
(* post found by searching for that fixture.                               *)
FixtureHits(says, plan, via) ==
    {f \in ToSet(plan.fixtures) :
        \/ says \cap Strong(f.home) # {} /\ says \cap Strong(f.away) # {}
        \/ via = f.id /\ says \cap (Alias[f.home] \cup Alias[f.away]) # {}}

Classify(says, plan, via) ==
    LET hits == FixtureHits(says, plan, via)
    IN  {f.id : f \in hits}
        \cup {c \in ToSet(plan.codes) :
                c \in {f.comp : f \in hits} \/ says \cap CompName[c] # {}}

IsFootball(says, topics) == topics # {} \/ says \cap FOOTBALL_TERMS # {}

-----------------------------------------------------------------------------
(* sources.py: what each network says about a post that hides it here. *)

MastodonHides ==
    {"sensitive", "spoiler", "not public", "reply", "reblog", "noindex", "undiscoverable"}
BlueskyHides == {"porn", "sexual", "nudity", "graphic-media", "gore", "nsfl",
                 "!no-unauthenticated", "!hide", "reply"}
RedditHides == {"over_18", "stickied"}
RedditFeedHides == {"no link", "no author"}
XHides == {"possibly_sensitive"}

Hides(net) ==
    CASE net = "mastodon" -> MastodonHides
      [] net = "bluesky" -> BlueskyHides
      [] net = "reddit" -> RedditHides \cup RedditFeedHides
      [] net = "x" -> XHides

(* normalise: the flags that hide the post, and a post without a text. *)
Normalised(raw) == raw.flags \cap Hides(raw.net) = {} /\ (raw.net = "x" \/ raw.says # {})

(* _keep: readable time, not too old, about football. *)
Kept(raw, plan, via, now) ==
    /\ raw.ts # 0 /\ now - raw.ts <= MAX_AGE
    /\ IsFootball(raw.says, Classify(raw.says, plan, via))

=============================================================================
