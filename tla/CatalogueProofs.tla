--------------------------- MODULE CatalogueProofs ---------------------------
(***************************************************************************)
(* What the seeder calls seeded is there, for every index of matches, feed *)
(* and number of threads, whatever is killed, fails or is lost.            *)
(*                                                                         *)
(* The argument: while a seed is under way the archive stands still, and   *)
(* each stage leaves what it has written complete for the cards of the     *)
(* seed; so when the marker is put all of it is there.  A later seed       *)
(* replaces parts one by one, but its cards are those of the marker and    *)
(* more, and what is put by name covers what was there.                    *)
(***************************************************************************)
EXTENDS Catalogue, FiniteSetTheorems, TLAPS

(* The stages of a seed after the documents, after the seasons, and those  *)
(* at which a part of the catalog made from the cards has been put.        *)
Ending == {"mirror", "marker"}
FromTeam == {"team", "player", "search", "collections", "stats"} \cup Ending
Later == {"competitions", "tables"} \cup FromTeam
Put(p) ==
    CASE p = "competitions" -> {"tables"} \cup FromTeam
      [] p = "team" -> FromTeam \ {"team"}
      [] p = "search" -> {"collections", "stats"} \cup Ending
      [] p = "collections" -> {"stats"} \cup Ending

CardParts == {"competitions", "team", "search", "collections"}

Shapes ==
    /\ job = [ at |-> job.at, builds |-> job.builds, todo |-> job.todo, half |-> job.half,
               failed |-> job.failed, boot |-> job.boot, fresh |-> job.fresh,
               cards |-> job.cards, left |-> job.left ]
    /\ db = [ created |-> db.created, items |-> db.items, catalog |-> db.catalog,
              tables |-> db.tables, seasons |-> db.seasons, marker |-> db.marker ]
    /\ DOMAIN db.catalog = Part /\ db.catalog = [p \in Part |-> db.catalog[p]]

(* A document is written after its Parquet file. *)
Archived ==
    /\ IsFiniteSet(docs) /\ Ids(docs) \subseteq parquet
    /\ \A c \in docs : c.comp = Fixture[c.id].comp
    /\ job.half => job.at = "build" /\ job.todo # <<>> /\ Head(job.todo) \in parquet

Seeding == job.at \in Later \cup {"put"} => job.cards = docs

Loaded ==
    /\ job.at = "put" => \A c \in job.cards : c \in db.items \/ \E i \in job.left : c \in Chunk(i)
    /\ job.at \in Later => job.cards \subseteq db.items

Catalogued == \A p \in CardParts : job.at \in Put(p) => Ids(job.cards) \subseteq db.catalog[p]

InSeason(c) == c.comp \in DOMAIN db.seasons /\ c.id \in db.seasons[c.comp]
Seasoned ==
    /\ job.at = "tables" => \A c \in job.cards : c.comp \in job.left \/ InSeason(c)
    /\ job.at \in FromTeam => \A c \in job.cards : InSeason(c)

InBucket == job.at = "marker" => parquet \subseteq bucket

Served == SeededIsServed /\ db.marker \subseteq Ids(docs)

Stages == Seeding /\ Loaded /\ Catalogued /\ Seasoned /\ InBucket
IInv == Shapes /\ Archived /\ Stages /\ Served

-----------------------------------------------------------------------------
(* Lemmas. *)

(* Every card is in the chunk of one of the threads. *)
LEMMA ChunksCover ==
    ASSUME NEW cards, IsFiniteSet(cards), NEW c \in cards
    PROVE  \E i \in 0 .. CHUNKS - 1 :
                c \in {k \in cards : Cardinality({d \in cards : d.id < k.id}) % CHUNKS = i}
<1> DEFINE place == Cardinality({d \in cards : d.id < c.id})
<1>1. place \in Nat
  BY FS_Subset, FS_CardinalityType
<1>2. CHUNKS \in Nat \ {0}
  BY CatalogueConstants
<1>3. place % CHUNKS \in 0 .. CHUNKS - 1
  <2> HIDE DEF place
  <2> QED  BY <1>1, <1>2
<1> QED  BY <1>3

LEMMA InitIInv == Init => IInv
<1> SUFFICES ASSUME Init PROVE IInv
  OBVIOUS
<1>1. Shapes
  BY DEF Init, Shapes, NoJob, EmptyTable
<1>2. Archived
  BY FS_EmptySet DEF Init, Archived, NoJob, Ids
<1>3. job.at = "down" /\ db.marker = {}
  BY DEF Init, NoJob, EmptyTable
<1>4. Stages
  BY <1>3 DEF Stages, Seeding, Loaded, Catalogued, Seasoned, InBucket, Later, FromTeam, Ending, Put,
      CardParts
<1>5. Served
  BY <1>2, <1>3 DEF Served, SeededIsServed, Archived, Init
<1> QED  BY <1>1, <1>2, <1>4, <1>5 DEF IInv

(* A job that is not seeding is at no stage. *)
LEMMA NoStage ==
    ASSUME job'.at \notin Later \cup {"put"}
    PROVE  Stages'
BY DEF Stages, Seeding, Loaded, Catalogued, Seasoned, InBucket, Later, FromTeam, Ending, Put, CardParts

(* Nothing that was loaded changes. *)
LEMMA ServedKept ==
    ASSUME Served, db' = db, bucket \subseteq bucket', intact' => intact,
           Ids(docs) \subseteq Ids(docs)', Ids(docs)' \subseteq parquet'
    PROVE  Served'
BY DEF Served, SeededIsServed

(* The records stay records of their fields. *)
LEMMA ShapesStep == ASSUME Shapes, [Next]_vars PROVE Shapes'
<1> USE DEF Shapes, NoJob, EmptyTable, archive
<1>1. CASE StartBootstrap
  BY <1>1 DEF StartBootstrap, Start
<1>2. CASE StartBuild \/ StartSeed
  BY <1>2 DEF StartBuild, StartSeed, Start
<1>3. CASE WriteParquet \/ WriteDocument
  BY <1>3 DEF WriteParquet, WriteDocument
<1>4. CASE SkipMatch
  BY <1>4 DEF SkipMatch
<1>5. CASE EndBuild
  BY <1>5 DEF EndBuild
<1>6. CASE CreateTable
  BY <1>6 DEF CreateTable
<1>7. CASE Check
  BY <1>7 DEF Check
<1>8. CASE PutChunk
  BY <1>8 DEF PutChunk
<1>9. CASE PutCatalog
  BY <1>9 DEF PutCatalog
<1>10. CASE PutTables
  BY <1>10 DEF PutTables
<1>11. CASE Upload \/ Mirrored \/ PutMarker
  BY <1>11 DEF Upload, Mirrored, PutMarker
<1>12. CASE Crash \/ LoseTable \/ LoseBucket
  BY <1>12 DEF Crash, LoseTable, LoseBucket
<1>13. CASE UNCHANGED vars
  BY <1>13 DEF vars
<1> QED
  BY <1>1, <1>2, <1>3, <1>4, <1>5, <1>6, <1>7, <1>8, <1>9, <1>10, <1>11, <1>12, <1>13 DEF Next

(* The archive grows, and stands still outside a build. *)
LEMMA ArchivedStep == ASSUME Shapes, Archived, [Next]_vars PROVE Archived'
<1> USE DEF Archived, Shapes, NoJob, archive
<1>1. CASE StartBootstrap
  BY <1>1 DEF StartBootstrap, Start, Ids
<1>2. CASE StartBuild \/ StartSeed
  BY <1>2 DEF StartBuild, StartSeed, Start, Ids
<1>3. CASE WriteParquet
  BY <1>3 DEF WriteParquet, Building, Current, Ids
<1>4. CASE WriteDocument
  <2> USE DEF WriteDocument, Building, Current
  <2>1. PICK s \in Outcome[Current] :
            docs' = {c \in docs : c.id # Current} \cup {Card(Current, s)}
    BY <1>4
  <2>2. IsFiniteSet(docs')
    <3>1. IsFiniteSet({c \in docs : c.id # Current})
      BY FS_Subset
    <3> QED  BY <3>1, <2>1, FS_AddElement
  <2>3. Card(Current, s).id = Current /\ Card(Current, s).comp = Fixture[Current].comp
    BY DEF Card
  <2>4. Ids(docs)' \subseteq parquet'
    BY <1>4, <2>1, <2>3 DEF Ids
  <2>5. \A c \in docs' : c.comp = Fixture[c.id].comp
    BY <2>1, <2>3
  <2> QED  BY <1>4, <2>2, <2>4, <2>5
<1>5. CASE SkipMatch
  BY <1>5 DEF SkipMatch, Building, Ids
<1>6. CASE EndBuild
  BY <1>6 DEF EndBuild, Ids
<1>7. CASE CreateTable
  BY <1>7 DEF CreateTable, Ids
<1>14. CASE Check
  <2>1. UNCHANGED archive /\ ~job.half
    BY <1>14 DEF Check
  <2>2. ~job'.half
    BY <1>14, <2>1 DEF Check
  <2> QED  BY <2>1, <2>2 DEF Ids
<1>8. CASE PutChunk
  BY <1>8 DEF PutChunk, Ids
<1>9. CASE PutCatalog
  BY <1>9 DEF PutCatalog, After, Ids
<1>10. CASE PutTables
  BY <1>10 DEF PutTables, Ids
<1>11. CASE Upload \/ Mirrored \/ PutMarker
  BY <1>11 DEF Upload, Mirrored, PutMarker, Ids
<1>12. CASE Crash \/ LoseTable \/ LoseBucket
  BY <1>12 DEF Crash, LoseTable, LoseBucket, Ids
<1>13. CASE UNCHANGED vars
  BY <1>13 DEF vars, Ids
<1> QED
  BY <1>1, <1>2, <1>3, <1>4, <1>5, <1>6, <1>7, <1>8, <1>9, <1>10, <1>11, <1>12, <1>13,
     <1>14 DEF Next

(* What a stage has written is complete when the next one begins. *)
LEMMA StagesStep == ASSUME IInv, [Next]_vars PROVE Stages'
<1> USE DEF IInv, Shapes, NoJob, archive
<1>1. CASE StartBootstrap \/ StartBuild \/ StartSeed
  <2>1. job'.at \in {"create", "build"}
    BY <1>1 DEF StartBootstrap, StartBuild, StartSeed, Start
  <2> QED  BY <2>1, NoStage DEF Later, FromTeam, Ending
<1>2. CASE WriteParquet \/ WriteDocument \/ SkipMatch \/ EndBuild
  <2>1. job'.at \in {"create", "build", "down"}
    <3>1. CASE WriteParquet \/ WriteDocument
      BY <3>1 DEF WriteParquet, WriteDocument, Building
    <3>2. CASE SkipMatch
      BY <3>2 DEF SkipMatch, Building
    <3>3. CASE EndBuild
      BY <3>3 DEF EndBuild
    <3> QED  BY <1>2, <3>1, <3>2, <3>3
  <2> QED  BY <2>1, NoStage DEF Later, FromTeam, Ending
<1>3. CASE CreateTable \/ PutMarker \/ Crash
  <2>1. job'.at \in {"check", "down"}
    <3>1. CASE CreateTable
      BY <3>1 DEF CreateTable
    <3>2. CASE PutMarker \/ Crash
      BY <3>2 DEF PutMarker, Crash
    <3> QED  BY <1>3, <3>1, <3>2
  <2> QED  BY <2>1, NoStage DEF Later, FromTeam, Ending
<1>4. CASE LoseTable \/ LoseBucket
  <2>1. job'.at = "down"
    BY <1>4 DEF LoseTable, LoseBucket
  <2> QED  BY <2>1, NoStage DEF Later, FromTeam, Ending
<1>5. CASE Check
  <2>1. CASE job'.at = "put"
    <3>1. /\ job'.cards = docs /\ docs' = docs
          /\ job'.left = 0 .. CHUNKS - 1
      BY <1>5, <2>1 DEF Check
    <3>2. \A c \in docs : \E i \in 0 .. CHUNKS - 1 :
              c \in {k \in docs : Cardinality({d \in docs : d.id < k.id}) % CHUNKS = i}
      BY ChunksCover DEF Archived
    <3>3. \A c \in job'.cards : \E i \in job'.left : c \in Chunk(i)'
      BY <3>1, <3>2 DEF Chunk
    <3> QED
      BY <2>1, <3>1, <3>3 DEF Stages, Seeding, Loaded, Catalogued, Seasoned, InBucket, Later,
          FromTeam, Ending, Put, CardParts
  <2>2. CASE job'.at # "put"
    <3>1. job'.at \in {"restore", "down"}
      BY <1>5, <2>2 DEF Check
    <3> QED  BY <3>1, NoStage DEF Later, FromTeam, Ending
  <2> QED  BY <2>1, <2>2
<1>6. CASE PutChunk
  <2>1. PICK i \in job.left :
          LET more == job.left \ {i}
          IN  /\ db' = [db EXCEPT !.items = @ \cup Chunk(i)]
              /\ job' = [job EXCEPT !.left = more,
                                    !.at = IF more = {} THEN "competitions" ELSE @]
    BY <1>6 DEF PutChunk
  <2>2. /\ job.at = "put" /\ job'.at \in {"put", "competitions"}
        /\ job'.cards = job.cards /\ docs' = docs
        /\ db'.items = db.items \cup Chunk(i) /\ job'.left = job.left \ {i}
        /\ job'.at = "competitions" => job'.left = {}
    BY <1>6, <2>1 DEF PutChunk
  <2>3. \A k : Chunk(k)' = Chunk(k)
    BY <2>2 DEF Chunk
  <2>4. \A c \in job'.cards : c \in db'.items \/ \E k \in job'.left : c \in Chunk(k)'
    BY <2>2, <2>3 DEF Stages, Loaded
  <2>5. Loaded'
    BY <2>2, <2>4 DEF Loaded, Later, FromTeam, Ending
  <2>6. Seeding'
    BY <2>2 DEF Stages, Seeding
  <2> QED
    BY <2>2, <2>5, <2>6 DEF Stages, Catalogued, Seasoned, InBucket, FromTeam, Ending, Put, CardParts
<1>7. CASE PutCatalog
  <2>1. /\ job.at \in {"competitions", "team", "player", "search", "collections", "stats"}
        /\ job'.at = After[job.at] /\ job'.cards = job.cards
        /\ docs' = docs /\ parquet' = parquet /\ bucket' = bucket
        /\ db'.items = db.items /\ db'.seasons = db.seasons
    BY <1>7 DEF PutCatalog, After
  <2>2. /\ job.at = "competitions" => job'.at = "tables" /\ job'.left = CompsOf(job.cards)
        /\ job.at = "team" => job'.at = "player"
        /\ job.at = "player" => job'.at = "search"
        /\ job.at = "search" => job'.at = "collections"
        /\ job.at = "collections" => job'.at = "stats"
        /\ job.at = "stats" => job'.at = "mirror"
    BY <1>7, <2>1 DEF PutCatalog, After
  <2>3. \A p \in CardParts : db'.catalog[p] = IF p = job.at THEN Ids(job.cards) ELSE db.catalog[p]
    BY <1>7, <2>1 DEF PutCatalog, FromCards, CardParts, Part
  <2>4. Seeding' /\ Loaded'
    BY <2>1, <2>2 DEF Stages, Seeding, Loaded, Later, FromTeam, Ending
  <2>5. Catalogued'
    BY <2>1, <2>2, <2>3 DEF Stages, Catalogued, CardParts, Put, FromTeam, Ending, Ids
  <2>6. Seasoned'
    BY <2>1, <2>2 DEF Stages, Seasoned, InSeason, FromTeam, Ending, CompsOf
  <2>7. InBucket'
    BY <2>1, <2>2 DEF InBucket
  <2> QED  BY <2>4, <2>5, <2>6, <2>7 DEF Stages
<1>8. CASE PutTables
  <2>1. PICK comp \in job.left :
          /\ job.at = "tables"
          /\ db' = [db EXCEPT !.tables = db'.tables,
                              !.seasons = Over([c \in {comp} |-> Ids(Of(job.cards, comp))], @)]
          /\ job' = [job EXCEPT !.left = job.left \ {comp},
                                !.at = IF job.left \ {comp} = {} THEN "team" ELSE @]
          /\ UNCHANGED <<archive, bucket, intact, spent>>
    BY <1>8 DEF PutTables
  <2>2. /\ job'.at \in {"tables", "team"} /\ job'.cards = job.cards
        /\ docs' = docs /\ job'.left = job.left \ {comp}
        /\ job'.at = "team" => job'.left = {}
        /\ db'.items = db.items /\ db'.catalog = db.catalog
        /\ db'.seasons = Over([c \in {comp} |-> Ids(Of(job.cards, comp))], db.seasons)
    BY <2>1
  <2>3. \A c \in job.cards : c.comp = comp \/ InSeason(c) => InSeason(c)'
    <3>1. /\ DOMAIN db'.seasons = {comp} \cup DOMAIN db.seasons
          /\ db'.seasons[comp] = Ids(Of(job.cards, comp))
          /\ \A k \in DOMAIN db.seasons \ {comp} : db'.seasons[k] = db.seasons[k]
      BY <2>2 DEF Over
    <3>2. \A c \in job.cards : c.comp = comp => c.id \in Ids(Of(job.cards, comp))
      BY DEF Ids, Of
    <3> QED  BY <3>1, <3>2 DEF InSeason
  <2>4. \A c \in job'.cards : c.comp \in job'.left \/ InSeason(c)'
    BY <2>1, <2>2, <2>3 DEF Stages, Seasoned
  <2>5. Seasoned'
    BY <2>2, <2>4 DEF Seasoned, FromTeam, Ending
  <2>6. Seeding' /\ Loaded' /\ Catalogued' /\ InBucket'
    BY <2>1, <2>2 DEF Stages, Seeding, Loaded, Catalogued, InBucket, Later, FromTeam, Ending, Put,
        CardParts, Ids
  <2> QED  BY <2>5, <2>6 DEF Stages
<1>9. CASE Upload
  <2>1. /\ job' = job /\ db' = db /\ docs' = docs /\ parquet' = parquet
        /\ job.at # "marker"
    BY <1>9 DEF Upload
  <2> QED
    BY <2>1 DEF Stages, Seeding, Loaded, Catalogued, Seasoned, InSeason, InBucket, Chunk, Ids
<1>10. CASE Mirrored
  <2>1. /\ docs' = docs /\ parquet' = parquet /\ db' = db /\ bucket' = bucket
        /\ parquet \subseteq bucket
    BY <1>10 DEF Mirrored
  <2>2. CASE job.at = "mirror"
    <3>1. job'.at = "marker" /\ job'.cards = job.cards
      BY <1>10, <2>2 DEF Mirrored
    <3> QED
      BY <2>1, <2>2, <3>1 DEF Stages, Seeding, Loaded, Catalogued, Seasoned, InSeason, InBucket,
          Later, FromTeam, Ending, Put, CardParts, Ids
  <2>3. CASE job.at # "mirror"
    <3>1. job'.at = "down"
      BY <1>10, <2>3 DEF Mirrored
    <3> QED  BY <3>1, NoStage DEF Later, FromTeam, Ending
  <2> QED  BY <2>2, <2>3
<1>11. CASE UNCHANGED vars
  BY <1>11 DEF vars, Stages, Seeding, Loaded, Catalogued, Seasoned, InSeason, InBucket, Chunk, Ids
<1> QED
  BY <1>1, <1>2, <1>3, <1>4, <1>5, <1>6, <1>7, <1>8, <1>9, <1>10, <1>11 DEF Next

(* Each write adds to what the marker stands for, or puts what covers it.  *)
LEMMA ServedStep == ASSUME IInv, Archived', [Next]_vars PROVE Served'
<1> USE DEF IInv, Shapes, archive
<1>1. Served /\ Ids(docs) \subseteq parquet /\ Ids(docs)' \subseteq parquet'
  BY DEF Archived
<1>2. ASSUME db' = db, bucket' = bucket, intact' = intact, docs' = docs PROVE Served'
  BY <1>1, <1>2, ServedKept DEF Ids
<1>3. CASE StartBootstrap \/ StartBuild \/ StartSeed
  BY <1>2, <1>3 DEF StartBootstrap, StartBuild, StartSeed, Start
<1>4. CASE WriteParquet \/ SkipMatch \/ EndBuild
  BY <1>2, <1>4 DEF WriteParquet, SkipMatch, EndBuild
<1>5. CASE WriteDocument
  <2>1. Ids(docs) \subseteq Ids(docs)'
    <3>1. PICK s \in Outcome[Current] :
              docs' = {c \in docs : c.id # Current} \cup {Card(Current, s)}
      BY <1>5 DEF WriteDocument
    <3>2. Card(Current, s).id = Current
      BY DEF Card
    <3> QED  BY <3>1, <3>2 DEF Ids
  <2> QED  BY <1>1, <1>5, <2>1, ServedKept DEF WriteDocument
<1>6. CASE Check \/ Crash
  BY <1>2, <1>6 DEF Check, Crash
<1>7. CASE CreateTable
  <2>1. /\ db'.marker = db.marker /\ db'.items = db.items
        /\ db'.catalog = db.catalog /\ db'.seasons = db.seasons
        /\ bucket' = bucket /\ intact' = intact /\ docs' = docs /\ parquet' = parquet
    BY <1>7 DEF CreateTable
  <2> QED  BY <1>1, <2>1 DEF Served, SeededIsServed, Ids
<1>8. CASE PutChunk
  <2>1. /\ db'.marker = db.marker /\ db.items \subseteq db'.items
        /\ db'.catalog = db.catalog /\ db'.seasons = db.seasons
        /\ bucket' = bucket /\ intact' = intact /\ docs' = docs /\ parquet' = parquet
    BY <1>8 DEF PutChunk
  <2> QED  BY <1>1, <2>1 DEF Served, SeededIsServed, Ids
<1>9. CASE PutCatalog
  <2>1. /\ db'.marker = db.marker /\ db'.items = db.items /\ db'.seasons = db.seasons
        /\ bucket' = bucket /\ intact' = intact /\ docs' = docs /\ parquet' = parquet
        /\ job.cards = docs
    BY <1>9 DEF PutCatalog, After, Stages, Seeding, Later, FromTeam, Ending
  <2>2. \A p \in CardParts :
            db'.catalog[p] = IF p = job.at THEN Ids(docs) ELSE db.catalog[p]
    BY <1>9, <2>1 DEF PutCatalog, After, FromCards, CardParts, Part
  <2>3. \A p \in Part \ {"player", "stats"} : db'.marker \subseteq db'.catalog[p]
    BY <1>1, <2>1, <2>2 DEF Served, SeededIsServed, Part, CardParts
  <2> QED  BY <1>1, <2>1, <2>3 DEF Served, SeededIsServed, Ids
<1>10. CASE PutTables
  <2>1. PICK comp \in job.left :
          /\ db'.seasons = Over([c \in {comp} |-> Ids(Of(job.cards, comp))], db.seasons)
          /\ db'.marker = db.marker /\ db'.items = db.items /\ db'.catalog = db.catalog
          /\ bucket' = bucket /\ intact' = intact /\ docs' = docs /\ parquet' = parquet
          /\ job.cards = docs
    BY <1>10 DEF PutTables, Stages, Seeding, Later
  <2>2. /\ DOMAIN db'.seasons = {comp} \cup DOMAIN db.seasons
        /\ db'.seasons[comp] = Ids(Of(docs, comp))
        /\ \A k \in DOMAIN db.seasons \ {comp} : db'.seasons[k] = db.seasons[k]
    BY <2>1 DEF Over
  <2>3. \A m \in db'.marker :
            Fixture[m].comp \in DOMAIN db'.seasons /\ m \in db'.seasons[Fixture[m].comp]
    <3> SUFFICES ASSUME NEW m \in db.marker
                 PROVE  /\ Fixture[m].comp \in DOMAIN db'.seasons
                        /\ m \in db'.seasons[Fixture[m].comp]
      BY <2>1
    <3>1. PICK c \in docs : c.id = m /\ c.comp = Fixture[m].comp
      BY <1>1 DEF Served, Archived, Ids
    <3>2. CASE Fixture[m].comp = comp
      BY <2>2, <3>1, <3>2 DEF Ids, Of
    <3>3. CASE Fixture[m].comp # comp
      BY <1>1, <2>2, <3>3 DEF Served, SeededIsServed
    <3> QED  BY <3>2, <3>3
  <2> QED  BY <1>1, <2>1, <2>3 DEF Served, SeededIsServed, Ids
<1>11. CASE Upload
  BY <1>1, <1>11, ServedKept DEF Upload, Ids
<1>12. CASE Mirrored
  BY <1>1, <1>12 DEF Mirrored, Served, SeededIsServed, Ids
<1>13. CASE PutMarker
  <2>1. /\ job.at = "marker" /\ job.cards = docs
        /\ db'.marker = Ids(docs) /\ db'.items = db.items
        /\ db'.catalog = db.catalog /\ db'.seasons = db.seasons
        /\ bucket' = bucket /\ intact' = intact /\ docs' = docs /\ parquet' = parquet
    BY <1>13 DEF PutMarker, Stages, Seeding, Later, FromTeam, Ending
  <2>2. docs \subseteq db.items
    BY <2>1 DEF Stages, Loaded, Later, FromTeam, Ending
  <2>3. \A p \in CardParts : Ids(docs) \subseteq db.catalog[p]
    BY <2>1 DEF Stages, Catalogued, Put, FromTeam, Ending, CardParts
  <2>4. \A c \in docs : InSeason(c) /\ c.comp = Fixture[c.id].comp
    BY <2>1 DEF Stages, Seasoned, FromTeam, Ending, Archived
  <2>5. parquet \subseteq bucket
    BY <2>1 DEF Stages, InBucket
  <2>6. db'.marker \subseteq Ids(db'.items) /\ db'.marker \subseteq bucket'
    BY <1>1, <2>1, <2>2, <2>5 DEF Ids
  <2>7. \A p \in Part \ {"player", "stats"} : db'.marker \subseteq db'.catalog[p]
    BY <2>1, <2>3 DEF Part, CardParts
  <2>8. \A m \in db'.marker :
            Fixture[m].comp \in DOMAIN db'.seasons /\ m \in db'.seasons[Fixture[m].comp]
    BY <2>1, <2>4 DEF InSeason, Ids
  <2> QED  BY <1>1, <2>1, <2>6, <2>7, <2>8 DEF Served, SeededIsServed, Ids
<1>14. CASE LoseTable
  BY <1>1, <1>14 DEF LoseTable, EmptyTable, Served, SeededIsServed, Ids
<1>15. CASE LoseBucket
  BY <1>1, <1>15 DEF LoseBucket, Served, SeededIsServed, Ids
<1>16. CASE UNCHANGED vars
  BY <1>2, <1>16 DEF vars
<1> QED
  BY <1>3, <1>4, <1>5, <1>6, <1>7, <1>8, <1>9, <1>10, <1>11, <1>12, <1>13, <1>14, <1>15, <1>16
  DEF Next

-----------------------------------------------------------------------------
(* Once the seeder says that the table is seeded, all it would have loaded *)
(* is there and stays there, whatever was killed, failed or lost before    *)
(* (seed.py, 168-240).                                                     *)
THEOREM SeededServed == Spec => []SeededIsServed
<1>1. ASSUME IInv, [Next]_vars PROVE IInv'
  <2>1. Shapes'
    BY <1>1, ShapesStep DEF IInv
  <2>2. Archived'
    BY <1>1, ArchivedStep DEF IInv
  <2>3. Stages'
    BY <1>1, StagesStep
  <2>4. Served'
    BY <1>1, <2>2, ServedStep
  <2> QED  BY <2>1, <2>2, <2>3, <2>4 DEF IInv
<1>2. IInv => SeededIsServed
  BY DEF IInv, Served
<1> QED  BY InitIInv, <1>1, <1>2, PTL DEF Spec

=============================================================================
