------------------------------ MODULE Catalogue ------------------------------
(***************************************************************************)
(* Building and seeding: the one-shot jobs that fetch matches into a local *)
(* archive (a Parquet file and a document each), load the documents and    *)
(* what is derived from them into the table, and mirror the archive to the *)
(* object store.  A job may be killed between any two writes; the table    *)
(* and the bucket are volumes that may be lost while no job runs.          *)
(*                                                                         *)
(* Sources: backend/onside/ingest/build.py, bootstrap.py, seed.py,         *)
(* archive/writer.py, archive/duck.py, archive/queries.py and the catalog  *)
(* writes of store/repo.py.                                                *)
(*                                                                         *)
(* A match is its place in the index, in date order; a card is its fixture *)
(* with the score the feed gives it.  build runs with one worker process,  *)
(* uploads go in the order of the index, and a chunk of documents is       *)
(* written in one step.                                                    *)
(***************************************************************************)
EXTENDS LeagueTables

CONSTANTS
    Fixture,    \* the index: a sequence of [comp, stage, home, away]
    Outcome,    \* match -> the scores the feed may have for it
    QUICK,      \* the competitions of the quick archive, in order
    CHUNKS,     \* threads of write_documents
    MaxStarts, MaxCrashes, MaxFailures, MaxLosses   \* bounds

Match == DOMAIN Fixture
Part == {"competitions", "team", "player", "search", "collections", "stats"}

ASSUME CatalogueConstants ==
    /\ \A m \in Match : Outcome[m] \subseteq Nat \X Nat /\ Outcome[m] # {}
    /\ CHUNKS \in Nat \ {0}

VARIABLES
    parquet,    \* matches with a Parquet file in the local archive
    docs,       \* match documents on disk, as their cards
    db,         \* the table: [created, items, catalog, tables, seasons, marker]
    bucket,     \* matches in the object store
    intact,     \* history: every loss of the bucket has been repaired
    job,        \* the running job, as the step it is at and its locals
    spent       \* starts, crashes, failures and losses so far

vars == <<parquet, docs, db, bucket, intact, job, spent>>
archive == <<parquet, docs>>

Card(m, s) ==
    [ id |-> m, hg |-> s[1], ag |-> s[2], comp |-> Fixture[m].comp, stage |-> Fixture[m].stage,
      home |-> Fixture[m].home, away |-> Fixture[m].away ]
Ids(cs) == {c.id : c \in cs}
CompsOf(cs) == {c.comp : c \in cs}
Of(cs, comp) == {c \in cs : c.comp = comp}

NoJob ==
    [ at |-> "down", builds |-> <<>>, todo |-> <<>>, half |-> FALSE, failed |-> FALSE,
      boot |-> FALSE, fresh |-> FALSE, cards |-> {}, left |-> {} ]
EmptyTable ==
    [ created |-> FALSE, items |-> {}, catalog |-> [p \in Part |-> {}], tables |-> <<>>,
      seasons |-> <<>>, marker |-> {} ]

Init ==
    /\ parquet = {} /\ docs = {} /\ bucket = {} /\ intact = TRUE
    /\ db = EmptyTable /\ job = NoJob
    /\ spent = [starts |-> 0, crashes |-> 0, failures |-> 0, losses |-> 0]

(* What is put by name, over what was there. *)
Over(f, g) == [k \in DOMAIN f \cup DOMAIN g |-> IF k \in DOMAIN f THEN f[k] ELSE g[k]]

Spend(what, bound) ==
    /\ spent[what] < bound
    /\ spent' = [spent EXCEPT ![what] = @ + 1]

-----------------------------------------------------------------------------
(* Starting a job. *)

(* build.main's todo: the matches of one competition, or all, without a    *)
(* document.                                                               *)
Unbuilt(filter) ==
    SelectSeq([i \in 1 .. Len(Fixture) |-> i],
              LAMBDA m : m \notin Ids(docs) /\ filter \in {"all", Fixture[m].comp})

Start(at, builds, boot) ==
    /\ job.at = "down" /\ Spend("starts", MaxStarts)
    /\ job' = [NoJob EXCEPT !.at = at, !.builds = builds, !.boot = boot,
                            !.todo = IF builds = <<>> THEN <<>> ELSE Unbuilt(Head(builds))]
    /\ UNCHANGED <<archive, db, bucket, intact>>

(* docker compose up: only an archive without a single document is built. *)
StartBootstrap ==
    IF docs # {} THEN Start("create", <<>>, TRUE)
    ELSE \E builds \in {QUICK, <<"all">>} : Start("build", builds, TRUE)

StartBuild == Start("build", <<"all">>, FALSE)
StartSeed == Start("create", <<>>, FALSE)

-----------------------------------------------------------------------------
(* build.py *)

Building == job.at = "build" /\ job.todo # <<>>
Current == Head(job.todo)

WriteParquet ==
    /\ Building /\ ~job.half
    /\ parquet' = parquet \cup {Current}
    /\ job' = [job EXCEPT !.half = TRUE]
    /\ UNCHANGED <<docs, db, bucket, intact, spent>>

WriteDocument ==
    /\ Building /\ job.half
    /\ \E s \in Outcome[Current] : docs' = {c \in docs : c.id # Current} \cup {Card(Current, s)}
    /\ job' = [job EXCEPT !.half = FALSE, !.todo = Tail(@)]
    /\ UNCHANGED <<parquet, db, bucket, intact, spent>>

(* The feed has no events for the match, or it raises: the others go on. *)
SkipMatch ==
    /\ Building /\ Spend("failures", MaxFailures)
    /\ \E raised \in {TRUE, job.half} :
        job' = [job EXCEPT !.failed = @ \/ raised, !.half = FALSE, !.todo = Tail(@)]
    /\ UNCHANGED <<archive, db, bucket, intact>>

(* A failed match makes the bootstrap stop before it seeds. *)
EndBuild ==
    /\ job.at = "build" /\ job.todo = <<>>
    /\ LET more == Tail(job.builds)
       IN  job' = IF more # <<>>
                  THEN [job EXCEPT !.builds = more, !.todo = Unbuilt(Head(more))]
                  ELSE IF job.boot /\ ~job.failed
                  THEN [NoJob EXCEPT !.at = "create", !.boot = TRUE] ELSE NoJob
    /\ UNCHANGED <<archive, db, bucket, intact, spent>>

-----------------------------------------------------------------------------
(* seed.py; boot is its --if-empty. *)

CreateTable ==
    /\ job.at = "create"
    /\ job' = [job EXCEPT !.at = "check", !.fresh = ~db.created]
    /\ db' = [db EXCEPT !.created = TRUE]
    /\ UNCHANGED <<archive, bucket, intact, spent>>

Check ==
    /\ job.at = "check"
    /\ job' = IF job.boot /\ ~job.fresh /\ db.marker # {}
              THEN IF bucket = {} THEN [job EXCEPT !.at = "restore"] ELSE NoJob
              ELSE IF docs = {} THEN NoJob
              ELSE [job EXCEPT !.at = "put", !.cards = docs, !.left = 0 .. CHUNKS - 1]
    /\ UNCHANGED <<archive, db, bucket, intact, spent>>

(* write_documents: the i-th chunk takes every CHUNKS-th document. *)
Chunk(i) ==
    LET place(c) == Cardinality({d \in job.cards : d.id < c.id})
    IN  {c \in job.cards : place(c) % CHUNKS = i}

(* put_documents: all the items of a document and of its listings. *)
PutChunk ==
    /\ job.at = "put"
    /\ \E i \in job.left :
        LET more == job.left \ {i}
        IN  /\ db' = [db EXCEPT !.items = @ \cup Chunk(i)]
            /\ job' = [job EXCEPT !.left = more,
                                  !.at = IF more = {} THEN "competitions" ELSE @]
    /\ UNCHANGED <<archive, bucket, intact, spent>>

(* DuckDB reads the bucket, and the local files when the bucket is empty. *)
Source == IF bucket # {} THEN bucket ELSE parquet

(* Mutant: the marker is written before the archive is mirrored. *)
AfterUnmirrored ==
    [ competitions |-> "tables", team |-> "player", player |-> "search",
      search |-> "collections", collections |-> "stats", stats |-> "marker" ]

After ==
    [ competitions |-> "tables", team |-> "player", player |-> "search",
      search |-> "collections", collections |-> "stats", stats |-> "mirror" ]

(* The matches a part of the catalog is made from: players and statistics  *)
(* are queried from the archive, the rest is counted on the cards.         *)
FromArchive == Source
FromCards == Ids(job.cards)

PutCatalog ==
    /\ job.at \in DOMAIN After
    /\ db' = [db EXCEPT !.catalog[job.at] =
                IF job.at \in {"player", "stats"} THEN FromArchive ELSE FromCards]
    /\ job' = [job EXCEPT !.at = After[@],
                          !.left = IF job.at = "competitions" THEN CompsOf(job.cards) ELSE {}]
    /\ UNCHANGED <<archive, bucket, intact, spent>>

(* Tables are put by name: one that a season no longer has stays. *)
PutTables ==
    /\ job.at = "tables"
    /\ \E comp \in job.left : \E ts \in {SeasonTables(comp, Of(job.cards, comp))} :
        LET of == Of(job.cards, comp)
            more == job.left \ {comp}
        IN  /\ db' = [db EXCEPT !.tables = Over([k \in {comp} \X DOMAIN ts |-> ts[k[2]]], @),
                                !.seasons = Over([c \in {comp} |-> Ids(of)], @)]
            /\ job' = [job EXCEPT !.left = more, !.at = IF more = {} THEN "team" ELSE @]
    /\ UNCHANGED <<archive, bucket, intact, spent>>

(* mirror_archive_to_s3, file by file. *)
Upload ==
    /\ job.at \in {"mirror", "restore"} /\ ~(parquet \subseteq bucket)
    /\ bucket' = bucket \cup {Min(parquet \ bucket)}
    /\ UNCHANGED <<archive, db, intact, job, spent>>

Mirrored ==
    /\ job.at \in {"mirror", "restore"} /\ parquet \subseteq bucket
    /\ intact' = TRUE
    /\ job' = IF job.at = "mirror" THEN [job EXCEPT !.at = "marker"] ELSE NoJob
    /\ UNCHANGED <<archive, db, bucket, spent>>

(* The marker comes last, when everything it stands for is written. *)
PutMarker ==
    /\ job.at = "marker"
    /\ db' = [db EXCEPT !.marker = Ids(job.cards)]
    /\ job' = NoJob
    /\ UNCHANGED <<archive, bucket, intact, spent>>

-----------------------------------------------------------------------------
(* Faults. *)

Crash ==
    /\ job.at # "down" /\ Spend("crashes", MaxCrashes)
    /\ job' = NoJob
    /\ UNCHANGED <<archive, db, bucket, intact>>

LoseTable ==
    /\ job.at = "down" /\ Spend("losses", MaxLosses)
    /\ db' = EmptyTable
    /\ UNCHANGED <<archive, bucket, intact, job>>

LoseBucket ==
    /\ job.at = "down" /\ Spend("losses", MaxLosses)
    /\ bucket' = {} /\ intact' = FALSE
    /\ UNCHANGED <<archive, db, job>>

Next ==
    \/ StartBootstrap \/ StartBuild \/ StartSeed
    \/ WriteParquet \/ WriteDocument \/ SkipMatch \/ EndBuild
    \/ CreateTable \/ Check \/ PutChunk \/ PutCatalog \/ PutTables
    \/ Upload \/ Mirrored \/ PutMarker
    \/ Crash \/ LoseTable \/ LoseBucket

Spec == Init /\ [][Next]_vars

-----------------------------------------------------------------------------
(* Properties. *)

(* Once the seeder says "Already seeded; nothing to do", all it would have *)
(* loaded is there, whatever was killed and lost before: every document    *)
(* has its Parquet file, every match the marker counts can be read, every  *)
(* catalog part and season that lists matches lists it, and the object     *)
(* store has its file unless a loss of the store has not been repaired.    *)
SeededIsServed ==
    /\ Ids(docs) \subseteq parquet
    /\ db.marker \subseteq Ids(db.items)
    /\ \A p \in Part \ {"player", "stats"} : db.marker \subseteq db.catalog[p]
    /\ \A m \in db.marker :
        Fixture[m].comp \in DOMAIN db.seasons /\ m \in db.seasons[Fixture[m].comp]
    /\ intact => db.marker \subseteq bucket

(* When the tables of a seed are written, those it computed list the teams *)
(* of each group, or of a league the archive holds, once, none above a     *)
(* team that the competition's rules, applied one by one to the teams      *)
(* still level, put before it, and they report exactly the teams that are  *)
(* level after every rule.                                                 *)
TableFollowsRules ==
    job.at = "team" =>
        \A comp \in CompsOf(job.cards) :
            LET cards == Of(job.cards, comp)
                n == Cardinality(TeamsOf(cards))
            IN  /\ \A groups \in {InferGroups({c \in cards : c.stage = "Group Stage"})} :
                    \A i \in DOMAIN groups : FollowsRules(db.tables[<<comp, i>>].table, groups[i])
                /\ ~(\E c \in cards : c.stage = "Group Stage") /\ Cardinality(cards) = n * (n - 1)
                    => FollowsRules(db.tables[<<comp, 1>>].table, cards)
=============================================================================
