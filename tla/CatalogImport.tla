---------------------------- MODULE CatalogImport ----------------------------
(***************************************************************************)
(* The import of games from IGDB (backend/internal/modules/catalog:        *)
(* jobs.go, import.go, import_media.go): concurrent River jobs, each of    *)
(* which queries IGDB and then writes one game in one READ COMMITTED       *)
(* transaction.                                                            *)
(*                                                                         *)
(* Each SQL statement is an action; one that may wait twice (for a row,    *)
(* then for a unique key, then for a referenced row) is one action per     *)
(* wait.  What an open transaction has written is in tx[j] and locks out   *)
(* others; Commit publishes it.  PostgreSQL breaks a cycle of waiting      *)
(* transactions by aborting a member (Deadlock).  A failed job is run      *)
(* again from its query.  A game row is named after the job that inserted  *)
(* it: the primary key is generated.                                       *)
(***************************************************************************)
EXTENDS Integers, Sequences

CONSTANTS Jobs,         \* River jobs of kind catalog.import_game_metadata
          Ids,          \* IGDB ids of games
          Worlds,       \* what IGDB may come to say: see versions
          MaxAttempts,  \* runs of a job before River discards it
          Configured,   \* may the worker have IGDB credentials: a set of Booleans
          None

\* The tables of references, in the order ImportGame replaces their links.
Tables == <<"platforms", "genres", "companies">>

\* A normalised payload: refs[i] are the references into Tables[i] in the order
\* of the payload; a reference is a row's slug and the role it is linked with.
Payloads == UNION {{w[id][v] : v \in 1 .. Len(w[id])} : id \in Ids, w \in Worlds}
RefsOf(p, i) == {p.refs[i][n] : n \in 1 .. Len(p.refs[i])}
ASSUME ImportAssumption ==
  /\ None \notin Jobs \cup Ids \cup Payloads
  /\ MaxAttempts \in Nat \ {0} /\ Configured \subseteq BOOLEAN
  /\ \A w \in Worlds, id \in Ids :
       /\ w[id] \in Seq(Payloads) /\ Len(w[id]) > 0
       /\ \A v \in 1 .. Len(w[id]) : /\ w[id][v].id = id
                                     /\ \A u \in 1 .. v : w[id][u].version <= w[id][v].version
  /\ \A p \in Payloads : /\ p.parent \in Ids \cup {None} /\ p.version \in Nat
                         /\ \A i \in 1 .. Len(Tables) : p.refs[i] \in Seq(RefsOf(p, i))

VARIABLES
  configured,   \* IGDB_CLIENT_ID is set
  versions,     \* versions[id]: what IGDB says of id, oldest first
  latest,       \* latest[id]: the version IGDB serves now
  target,       \* target[j]: Args.IGDBID
  pc,           \* pc[j]: the statement j executes next
  attempts,     \* attempts[j]: runs of j so far
  tx,           \* tx[j]: the payload and open transaction of j's run
  \* The committed catalog.
  games,        \* rows of catalog.games
  row,          \* row[g]: the payload whose title, slug, ... the row holds
  parentOf,     \* row g's parent_game_id
  external,     \* catalog.external_game_ids: pairs of an IGDB id and a game
  links,        \* links[g]: rows of game_platforms, game_genres, game_companies
  media,        \* media[g]: the game's cover and screenshots
  \* History.
  began         \* began[j]: what the catalog had of j's game and its parent when
                \* j's run began: the game's version (0: none), is the parent there

catalog == <<games, row, parentOf, external, links, media>>
world   == <<configured, versions, latest, target>>
vars    == <<world, pc, attempts, tx, catalog, began>>

NoTx == [payload |-> None, parent |-> None, game |-> None, pend |-> {}, cleared |-> {},
         linked |-> {}, table |-> 1, todo |-> <<>>]
NoRun == [version |-> 0, parent |-> FALSE]

Ended == {"completed", "discarded"}
Open == {j \in Jobs : tx[j] # NoTx}   \* jobs whose transaction is open

Init ==
  /\ configured \in Configured
  /\ versions \in Worlds /\ latest = [id \in Ids |-> 1]
  /\ target \in [Jobs -> Ids]
  /\ pc = [j \in Jobs |-> "idle"]
  /\ attempts = [j \in Jobs |-> 0]
  /\ tx = [j \in Jobs |-> NoTx]
  /\ games = {} /\ external = {}
  /\ row = [g \in Jobs |-> None]
  /\ parentOf = [g \in Jobs |-> None]
  /\ links = [g \in Jobs |-> {}]
  /\ media = [g \in Jobs |-> None]
  /\ began = [j \in Jobs |-> NoRun]

-----------------------------------------------------------------------------
(* Rows and keys that open transactions hold.                              *)

GameOf(id) == {g \in games : <<id, g>> \in external}

Wrote(q, what) == what \in tx[q].pend

\* q's UPDATE changes a key column (slug) of an existing row.
Renames(q) == ~Wrote(q, "new") /\ tx[q].payload.slug # row[tx[q].game].slug

\* The values of the unique index on slug that q has touched.
SlugsOf(q) == (IF Wrote(q, "slug") THEN {tx[q].payload.slug} ELSE {})
         \cup (IF Wrote(q, "lock") THEN {row[tx[q].game].slug} ELSE {})

\* The foreign key of parent_game_id is checked unless the column keeps its value.
ChecksParent(j) == /\ tx[j].parent # None
                   /\ Wrote(j, "new") \/ parentOf[tx[j].game] # tx[j].parent

RowsOf(q) == {<<l[1], l[2].slug>> : l \in tx[q].linked}

\* The row that j's next upsertBySlug writes.
NextRow(j) == <<Tables[tx[j].table], Head(tx[j].todo).slug>>

\* The transactions that j's next statement has to wait for:
\* the UPDATE's row lock (a new slug also waits for those who reference the row),
BlocksRow(q, j) == \/ Wrote(q, "lock") /\ tx[q].game = tx[j].game
                   \/ Wrote(q, "parent") /\ tx[q].parent = tx[j].game /\ Renames(j)
\* the unique index on slug,
BlocksSlug(q, j) == tx[j].payload.slug \in SlugsOf(q) /\ (Wrote(j, "lock") => Renames(j))
\* the reference to the parent,
BlocksParent(q, j) == ChecksParent(j) /\ Wrote(q, "lock") /\ tx[q].game = tx[j].parent /\ Renames(q)
\* the unique index of external_game_ids, and the slug of a reference.
BlocksExternal(q, j) == Wrote(q, "external") /\ target[q] = target[j]
BlocksRef(q, j) == tx[j].todo # <<>> /\ NextRow(j) \in RowsOf(q)

WaitsFor(j) == {q \in Open \ {j} :
  \/ pc[j] = "lockGame" /\ BlocksRow(q, j)
  \/ pc[j] = "slugKey" /\ BlocksSlug(q, j)
  \/ pc[j] = "parentKey" /\ BlocksParent(q, j)
  \/ pc[j] = "external" /\ BlocksExternal(q, j)
  \/ pc[j] = "refs" /\ BlocksRef(q, j)}

Unblocked(j) == WaitsFor(j) = {}

-----------------------------------------------------------------------------
(* Steps common to the statements.                                         *)

InRun(j, at) == pc[j] = at /\ UNCHANGED <<world, attempts, began>>

\* The statement's effect is t; j goes on at next.
Step(j, t, next) ==
  /\ tx' = [tx EXCEPT ![j] = t]
  /\ pc' = [pc EXCEPT ![j] = next]
  /\ UNCHANGED catalog

\* Where a job stands when its run has ended; River runs a failed job again
\* until its attempts are used up.
After(j, ok) == IF ok THEN "completed" ELSE IF attempts[j] = MaxAttempts THEN "discarded" ELSE "idle"

\* Mutant of Return: the deferred Rollback is missing.
ReturnWithoutRollback(j, ok) == pc' = [pc EXCEPT ![j] = After(j, ok)] /\ UNCHANGED tx

\* The run is over, and so is its transaction: rolled back unless committed.
Return(j, ok) ==
  /\ tx' = [tx EXCEPT ![j] = NoTx]
  /\ pc' = [pc EXCEPT ![j] = After(j, ok)]

-----------------------------------------------------------------------------
(* ImportGameMetadataWorker.Work                                           *)

\* Without credentials the job only logs.
SkipUnconfigured(j) ==
  /\ pc[j] = "idle" /\ ~configured
  /\ attempts' = [attempts EXCEPT ![j] = @ + 1]
  /\ pc' = [pc EXCEPT ![j] = "completed"]
  /\ UNCHANGED <<world, tx, catalog, began>>

\* A run starts with the payload p.
Run(j, p) ==
  /\ pc[j] = "idle" /\ configured
  /\ attempts' = [attempts EXCEPT ![j] = @ + 1]
  /\ tx' = [tx EXCEPT ![j] = [NoTx EXCEPT !.payload = p]]
  /\ began' = [began EXCEPT ![j] =
       [version |-> IF GameOf(p.id) = {} THEN 0 ELSE row[CHOOSE g \in GameOf(p.id) : TRUE].version,
        parent |-> GameOf(p.parent) # {}]]
  /\ pc' = [pc EXCEPT ![j] = "lookupParent"]
  /\ UNCHANGED <<world, catalog>>

\* Mutant of Query: an earlier answer may come from a cache.
QueryCached(j) == \E v \in 1 .. latest[target[j]] : Run(j, versions[target[j]][v])

\* Query returns what IGDB says now; then the transaction begins.
Query(j) == Run(j, versions[target[j]][latest[target[j]]])

\* The query, Begin, any statement or Commit fails, or the worker dies.
Fail(j) ==
  /\ j \in Open /\ Return(j, FALSE)
  /\ UNCHANGED <<world, attempts, began, catalog>>

\* Members of every set of jobs that holds j's blockers and theirs: j waits for
\* itself through others.
InCycle(j) == \A S \in SUBSET Jobs :
  (WaitsFor(j) \subseteq S /\ \A q \in S : WaitsFor(q) \subseteq S) => j \in S

\* PostgreSQL aborts a transaction of a cycle (40P01).
Deadlock(j) ==
  /\ j \in Open /\ InCycle(j) /\ Return(j, FALSE)
  /\ UNCHANGED <<world, attempts, began, catalog>>

-----------------------------------------------------------------------------
(* ImportGame                                                              *)

\* resolveParentGameID: a parent that is not in the catalog yet is left out.
ResolveParent(j) ==
  /\ InRun(j, "lookupParent")
  /\ LET found == GameOf(tx[j].payload.parent) IN
     \/ found = {} /\ Step(j, tx[j], "lookupGame")
     \/ \E g \in found : Step(j, [tx[j] EXCEPT !.parent = g], "lookupGame")

\* Mutant of LookupGame: SELECT ... FOR SHARE, whose lock the UPDATE upgrades.
LookupGameForShare(j) ==
  /\ InRun(j, "lookupGame")
  /\ LET found == GameOf(target[j]) IN
     \/ found = {} /\ Step(j, [tx[j] EXCEPT !.game = j, !.pend = {"new"}], "slugKey")
     \/ \E g \in found : Step(j, [tx[j] EXCEPT !.game = g, !.pend = {"lock"}], "lockGame")

\* upsertGameRow: the SELECT decides between UPDATE and INSERT.
LookupGame(j) ==
  /\ InRun(j, "lookupGame")
  /\ LET found == GameOf(target[j]) IN
     \/ found = {} /\ Step(j, [tx[j] EXCEPT !.game = j, !.pend = {"new"}], "slugKey")
     \/ \E g \in found : Step(j, [tx[j] EXCEPT !.game = g], "lockGame")

\* UPDATE catalog.games: the row.
LockGame(j) ==
  /\ InRun(j, "lockGame") /\ Unblocked(j)
  /\ Step(j, [tx[j] EXCEPT !.pend = @ \cup {"lock"}], "slugKey")

SlugTaken(j) == \E g \in games \ {tx[j].game} : row[g].slug = tx[j].payload.slug

\* UPDATE or INSERT: the new slug enters its unique index, or 23505.
WriteSlug(j) ==
  /\ InRun(j, "slugKey") /\ Unblocked(j)
  /\ IF SlugTaken(j) THEN Return(j, FALSE) /\ UNCHANGED catalog
     ELSE Step(j, [tx[j] EXCEPT !.pend = @ \cup {"slug"}], "parentKey")

\* UPDATE or INSERT: the foreign key locks the parent's key.
ReferenceParent(j) ==
  /\ InRun(j, "parentKey") /\ Unblocked(j)
  /\ Step(j, [tx[j] EXCEPT !.pend = @ \cup (IF ChecksParent(j) THEN {"parent"} ELSE {})],
          IF Wrote(j, "new") THEN "external" ELSE "clear")

\* Mutant of ExternalTaken: no unique index on (provider, provider_id).
ExternalNeverTaken(j) == FALSE
ExternalTaken(j) == GameOf(target[j]) # {}

\* Mutant of InsertExternal: the row is committed before its links and media.
InsertExternalCommits(j) ==
  /\ InRun(j, "external") /\ Unblocked(j) /\ ~ExternalTaken(j)
  /\ tx' = [tx EXCEPT ![j].pend = @ \cup {"external"}] /\ pc' = [pc EXCEPT ![j] = "clear"]
  /\ games' = games \cup {j} /\ external' = external \cup {<<target[j], j>>}
  /\ row' = [row EXCEPT ![j] = tx[j].payload]
  /\ UNCHANGED <<parentOf, links, media>>

\* INSERT INTO catalog.external_game_ids, only for a new game; 23505 on a taken id.
InsertExternal(j) ==
  /\ InRun(j, "external") /\ Unblocked(j)
  /\ IF ExternalTaken(j) THEN Return(j, FALSE) /\ UNCHANGED catalog
     ELSE Step(j, [tx[j] EXCEPT !.pend = @ \cup {"external"}], "clear")

\* Mutant of ClearLinks: the DELETE is missing.
ClearNothing(j) ==
  /\ InRun(j, "clear")
  /\ Step(j, [tx[j] EXCEPT !.todo = tx[j].payload.refs[tx[j].table]], "refs")

\* replaceGamePlatforms, -Genres, -Companies: the DELETE.
ClearLinks(j) ==
  /\ InRun(j, "clear")
  /\ Step(j, [tx[j] EXCEPT !.cleared = @ \cup {Tables[tx[j].table]},
                           !.todo = tx[j].payload.refs[tx[j].table]], "refs")

\* Their loop: upsertBySlug locks the row of the slug, then the link is
\* inserted unless it is there (nobody else can hold a link of this game).
LinkRef(j) ==
  /\ InRun(j, "refs") /\ Unblocked(j) /\ tx[j].todo # <<>>
  /\ Step(j, [tx[j] EXCEPT !.linked = @ \cup {<<Tables[tx[j].table], Head(tx[j].todo)>>},
                           !.todo = Tail(@)], "refs")

\* The loop ends: the next table, or the media.
NextTable(j) ==
  /\ InRun(j, "refs") /\ tx[j].todo = <<>>
  /\ IF tx[j].table < Len(Tables)
     THEN Step(j, [tx[j] EXCEPT !.table = @ + 1], "clear")
     ELSE Step(j, tx[j], "media")

\* importGameMedia: one DELETE and the INSERTs, on rows of this game only.
ImportGameMedia(j) ==
  /\ InRun(j, "media")
  /\ Step(j, [tx[j] EXCEPT !.pend = @ \cup {"media"}], "commit")

\* Mutant of Commit: the parent is only written for a new game.
CommitKeepsParent(j) ==
  LET t == tx[j] g == tx[j].game IN
  /\ InRun(j, "commit")
  /\ \E ok \in BOOLEAN : Return(j, ok)
  /\ games' = games \cup {g}
  /\ row' = [row EXCEPT ![g] = t.payload]
  /\ parentOf' = IF Wrote(j, "new") THEN [parentOf EXCEPT ![g] = t.parent] ELSE parentOf
  /\ external' = IF Wrote(j, "external") THEN external \cup {<<target[j], g>>} ELSE external
  /\ links' = [links EXCEPT ![g] = {l \in @ : l[1] \notin t.cleared} \cup t.linked]
  /\ media' = [media EXCEPT ![g] = IF Wrote(j, "media") THEN t.payload.media ELSE @]

\* tx.Commit; its answer may be lost, and the job is run again.
Commit(j) ==
  LET t == tx[j] g == tx[j].game IN
  /\ InRun(j, "commit")
  /\ \E ok \in BOOLEAN : Return(j, ok)
  /\ games' = games \cup {g}
  /\ row' = [row EXCEPT ![g] = t.payload]
  /\ parentOf' = [parentOf EXCEPT ![g] = t.parent]
  /\ external' = IF Wrote(j, "external") THEN external \cup {<<target[j], g>>} ELSE external
  /\ links' = [links EXCEPT ![g] = {l \in @ : l[1] \notin t.cleared} \cup t.linked]
  /\ media' = [media EXCEPT ![g] = IF Wrote(j, "media") THEN t.payload.media ELSE @]

-----------------------------------------------------------------------------
\* IGDB publishes its next version of a game.
Publish(id) ==
  /\ latest[id] < Len(versions[id])
  /\ latest' = [latest EXCEPT ![id] = @ + 1]
  /\ UNCHANGED <<configured, versions, target, pc, attempts, tx, catalog, began>>

Statement(j) ==
  \/ ResolveParent(j) \/ LookupGame(j) \/ LockGame(j) \/ WriteSlug(j) \/ ReferenceParent(j)
  \/ InsertExternal(j) \/ ClearLinks(j) \/ LinkRef(j) \/ NextTable(j) \/ ImportGameMedia(j)
  \/ Commit(j)

Begin(j) == SkipUnconfigured(j) \/ Query(j)

Finished == (\A j \in Jobs : pc[j] \in Ended) /\ UNCHANGED vars

Next == \/ \E j \in Jobs : Begin(j) \/ Statement(j) \/ Fail(j) \/ Deadlock(j)
        \/ \E id \in Ids : Publish(id)
        \/ Finished

Spec == Init /\ [][Next]_vars

\* River runs every available job, PostgreSQL answers a statement that waits
\* for no lock, and it detects every deadlock.
FairSpec == /\ Spec
            /\ \A j \in Jobs : WF_vars(Begin(j)) /\ WF_vars(Statement(j))
            /\ WF_vars(\E j \in Jobs : Deadlock(j))
-----------------------------------------------------------------------------
(* Correctness.                                                            *)

TableNames == {Tables[i] : i \in 1 .. Len(Tables)}
Refs  == UNION {RefsOf(p, i) : p \in Payloads, i \in 1 .. Len(Tables)}
Links == TableNames \X Refs

\* The links of the first n tables that a payload asks for.
LinksUpTo(p, n) == UNION {{<<Tables[i], ref>> : ref \in RefsOf(p, i)} : i \in 1 .. n}
LinksOf(p) == LinksUpTo(p, Len(Tables))

Stages == {"idle", "lookupParent", "lookupGame", "lockGame", "slugKey", "parentKey",
           "external", "clear", "refs", "media", "commit"} \cup Ended

Transactions == [payload : Payloads \cup {None}, parent : Jobs \cup {None}, game : Jobs \cup {None},
                 pend : SUBSET {"new", "lock", "slug", "parent", "external", "media"},
                 cleared : SUBSET TableNames, linked : SUBSET Links,
                 table : 1 .. Len(Tables), todo : Seq(Refs)]

\* The shape of every variable.
TypeOK ==
  /\ configured \in BOOLEAN /\ versions \in Worlds /\ target \in [Jobs -> Ids]
  /\ latest \in [Ids -> Nat] /\ \A id \in Ids : latest[id] \in 1 .. Len(versions[id])
  /\ pc \in [Jobs -> Stages] /\ attempts \in [Jobs -> 0 .. MaxAttempts]
  /\ tx \in [Jobs -> Transactions]
  /\ games \subseteq Jobs /\ external \subseteq Ids \X games
  /\ row \in [Jobs -> Payloads \cup {None}] /\ links \in [Jobs -> SUBSET Links]
  /\ DOMAIN media = Jobs /\ parentOf \in [Jobs -> games \cup {None}]
  /\ began \in [Jobs -> [version : Nat, parent : BOOLEAN]]

\* However many jobs import a game for the first time at once, it gets one row,
\* and every row is the game of one IGDB id (import_test.go: "no duplicate").
OneGamePerId ==
  /\ \A e, f \in external : e[1] = f[1] <=> e[2] = f[2]
  /\ games = {e[2] : e \in external}

\* Two games of the catalog never share a slug, also when IGDB moves a slug from
\* one game to another between imports.
UniqueSlugs == \A g, h \in games : row[g].slug = row[h].slug => g = h

\* A game's columns, its links and its media come from one payload of its own
\* id, never from a mixture of overlapping or repeated imports; its parent, if
\* it has one, is the game that payload names.
OnePayload == \A g \in games :
  /\ <<row[g].id, g>> \in external
  /\ links[g] = LinksOf(row[g])
  /\ media[g] = row[g].media
  /\ parentOf[g] # None => <<row[g].parent, parentOf[g]>> \in external

\* An import that begins when the parent is in the catalog links to it, also if
\* an earlier import of the game had to leave it out.
ParentResolved == [][\A j \in Jobs : Commit(j) /\ began[j].parent => parentOf'[tx[j].game] # None]_vars

\* An import never puts a game back behind the version that the catalog had when
\* its run began: only overlapping runs can commit in the wrong order.
NoRegression == [][\A j \in Jobs : Commit(j) => row'[tx[j].game].version >= began[j].version]_vars

\* The imports of j's own game that j waits for.
Rivals(j) == {q \in WaitsFor(j) : target[q] = target[j]}

\* River may run many imports of one game at once (jobs of one kind and game are
\* not unique): they line up behind each other and never deadlock among
\* themselves, whether they insert the game or update it.  Who is waited for
\* waits at most for one that waits for none of them.
NoSelfDeadlock == \A j \in Jobs : \A q \in Rivals(j) : \A p \in Rivals(q) : Rivals(p) = {}

\* Every job is completed or gives up: no cycle of waiting imports lasts.
EveryImportEnds == \A j \in Jobs : <>(pc[j] \in Ended)
=============================================================================
