------------------------ MODULE CatalogImport_proofs ------------------------
(* Proofs about CatalogImport, for any jobs, games and payloads. *)
EXTENDS CatalogRefinement, TLAPS

-----------------------------------------------------------------------------
(* The inductive invariant behind the safety properties. *)

Unwritten == {"lookupParent", "lookupGame", "lockGame"}
Linking   == {"clear", "refs", "media", "commit"}

\* How far j's run has come says what its transaction has written.
Position(j) ==
  /\ j \in Open <=> pc[j] \notin {"idle"} \cup Ended
  /\ pc[j] = "idle" => attempts[j] < MaxAttempts
  /\ pc[j] \in Unwritten <=> j \in Open /\ tx[j].pend = {}
  /\ Wrote(j, "slug") <=> pc[j] \in {"parentKey", "external"} \cup Linking
  /\ Wrote(j, "external") <=> Wrote(j, "new") /\ pc[j] \in Linking
  /\ pc[j] = "external" => Wrote(j, "new")
  /\ Wrote(j, "media") <=> pc[j] = "commit"

\* The game that j writes is a new one of its own, or the one of its id, locked.
OwnGame(j) ==
  /\ tx[j].pend # {} => (Wrote(j, "new") <=> ~Wrote(j, "lock"))
  /\ Wrote(j, "new") => tx[j].game = j /\ j \notin games
  /\ Wrote(j, "lock") \/ pc[j] = "lockGame" => <<target[j], tx[j].game>> \in external

\* No committed row has what j has put into a unique index,
Reserved(j) ==
  /\ Wrote(j, "slug") => ~SlugTaken(j)
  /\ Wrote(j, "external") => ~ExternalTaken(j)

\* and no other transaction; nor has one locked the same row.
Apart(j, q) ==
  /\ Wrote(j, "lock") /\ Wrote(q, "lock") => tx[j].game # tx[q].game
  /\ Wrote(j, "slug") /\ Wrote(q, "slug") => tx[j].payload.slug # tx[q].payload.slug
  /\ Wrote(j, "external") /\ Wrote(q, "external") => target[j] # target[q]

\* p is what IGDB has said of id, by now.
Served(p, id) == \E v \in 1 .. latest[id] : p = versions[id][v]

\* j's payload is one of its id, not older than the row j found when it began.
Answer(j) == j \in Open =>
  Served(tx[j].payload, target[j]) /\ began[j].version <= tx[j].payload.version

\* The parent that j has found is the payload's, and it was found if it was there
\* when the run began.
Parent(j) == j \in Open =>
  /\ tx[j].parent # None => tx[j].parent \in GameOf(tx[j].payload.parent)
  /\ began[j].parent => IF pc[j] = "lookupParent" THEN GameOf(tx[j].payload.parent) # {}
                                                   ELSE tx[j].parent # None

\* The links of t are those of the tables that are through, and of the references
\* that the loop has passed.
Passed(t) == t.linked \cup {<<Tables[t.table], t.todo[n]>> : n \in 1 .. Len(t.todo)}
Loop(j) == j \in Open =>
  LET t == tx[j] IN
  /\ pc[j] \notin Linking => t.cleared = {} /\ t.linked = {} /\ t.table = 1
  /\ pc[j] = "clear" => /\ t.cleared = {Tables[i] : i \in 1 .. t.table - 1}
                        /\ t.linked = LinksUpTo(t.payload, t.table - 1)
  /\ pc[j] = "refs" => /\ t.cleared = {Tables[i] : i \in 1 .. t.table}
                       /\ Passed(t) = LinksUpTo(t.payload, t.table)
  /\ pc[j] \in {"media", "commit"} => t.cleared = TableNames /\ t.linked = LinksOf(t.payload)

RunInv(j) == Position(j) /\ OwnGame(j) /\ Reserved(j) /\ Answer(j) /\ Parent(j) /\ Loop(j)

\* A row is named after a job that imported its id, and holds an answer about it.
Named == \A e \in external : e[1] = target[e[2]]
Current == \A g \in games : Served(row[g], target[g])

CatalogInv == Named /\ Current /\ OneGamePerId /\ UniqueSlugs /\ OnePayload

ImportInv == /\ TypeOK /\ CatalogInv
             /\ \A j \in Jobs : RunInv(j) /\ \A q \in Jobs \ {j} : Apart(j, q)

Pending == {"new", "lock", "slug", "parent", "external", "media"}

\* What IGDB says of a game is a payload of that game.
LEMMA Says ==
  ASSUME NEW w \in Worlds, NEW id \in Ids, NEW v \in 1 .. Len(w[id])
  PROVE  w[id][v] \in Payloads /\ w[id][v].id = id
<1>1. w[id][v] \in {w[id][u] : u \in 1 .. Len(w[id])}
  OBVIOUS
<1>2. {w[id][u] : u \in 1 .. Len(w[id])} \in {{x[i][u] : u \in 1 .. Len(x[i])} : i \in Ids, x \in Worlds}
  OBVIOUS
<1>3. w[id][v].id = id
  BY ImportAssumption
<1> DEFINE answers == {{x[i][u] : u \in 1 .. Len(x[i])} : i \in Ids, x \in Worlds}
           said == {w[id][u] : u \in 1 .. Len(w[id])}
<1>4. said \in answers /\ w[id][v] \in said /\ Payloads = UNION answers
  BY <1>1, <1>2 DEF Payloads
<1> HIDE DEF answers, said
<1>5. w[id][v] \in Payloads
  BY <1>4
<1>6. QED BY <1>3, <1>5

\* What IGDB has said of an id is a payload, of that id.
LEMMA ServedPayload ==
  ASSUME TypeOK, NEW id \in Ids, NEW p, Served(p, id)
  PROVE  p \in Payloads /\ p # None /\ p.id = id
<1>1. PICK v \in 1 .. latest[id] : p = versions[id][v]
  BY DEF Served
<1>2. v \in 1 .. Len(versions[id])
  BY ImportAssumption DEF TypeOK
<1>3. p \in Payloads /\ p.id = id
  BY <1>1, <1>2, Says DEF TypeOK
<1>4. QED BY <1>3, ImportAssumption

\* The transaction of a run that has not begun is empty.
LEMMA NoTxShape ==
  /\ NoTx \in Transactions /\ NoTx.pend = {} /\ NoTx.payload = None /\ NoTx.parent = None
  /\ NoTx.game = None /\ NoTx.cleared = {} /\ NoTx.linked = {} /\ NoTx.table = 1 /\ NoTx.todo = <<>>
BY DEF NoTx, Transactions, Tables

\* A job with an open transaction has asked IGDB about its game.
LEMMA OpenPayload ==
  ASSUME ImportInv, NEW j \in Open
  PROVE  j \in Jobs /\ tx[j].payload \in Payloads /\ tx[j].payload # None /\ tx[j].payload.id = target[j]
<1>1. j \in Jobs /\ Served(tx[j].payload, target[j])
  BY DEF Open, ImportInv, RunInv, Answer
<1>2. target[j] \in Ids
  BY <1>1 DEF ImportInv, TypeOK
<1>3. QED BY <1>1, <1>2, ServedPayload DEF ImportInv

\* Whoever has written something has an open transaction.
LEMMA WroteOpen ==
  ASSUME NEW j \in Jobs, tx[j].pend # {}
  PROVE  j \in Open
BY NoTxShape DEF Open

\* Nothing is imported and nobody runs.
LEMMA InitImportInv == Init => ImportInv
<1> SUFFICES ASSUME Init PROVE ImportInv
  OBVIOUS
<1> USE ImportAssumption, NoTxShape DEF Init
<1>1. TypeOK
  <2>1. \A id \in Ids : latest[id] \in 1 .. Len(versions[id])
    OBVIOUS
  <2>2. tx \in [Jobs -> Transactions]
    OBVIOUS
  <2>3. began \in [Jobs -> [version : Nat, parent : BOOLEAN]]
    BY DEF NoRun
  <2>4. QED BY <2>1, <2>2, <2>3 DEF TypeOK, Stages
<1>2. CatalogInv
  BY DEF CatalogInv, Named, Current, OneGamePerId, UniqueSlugs, OnePayload
<1>3. ASSUME NEW j \in Jobs PROVE RunInv(j) /\ \A q \in Jobs \ {j} : Apart(j, q)
  <2>1. j \notin Open /\ tx[j].pend = {} /\ pc[j] = "idle"
    BY DEF Open
  <2>2. Position(j) /\ OwnGame(j) /\ Reserved(j)
    BY <2>1 DEF Position, OwnGame, Reserved, Wrote, Ended, Unwritten, Linking
  <2>3. Answer(j) /\ Parent(j) /\ Loop(j)
    BY <2>1 DEF Answer, Parent, Loop
  <2>4. QED BY <2>1, <2>2, <2>3 DEF RunInv, Apart, Wrote
<1>4. QED BY <1>1, <1>2, <1>3 DEF ImportInv

-----------------------------------------------------------------------------
(* Steps of one job before its commit.                                     *)

\* Only j's run moves; the catalog stays.
Local(j) ==
  /\ UNCHANGED <<world, catalog>>
  /\ TypeOK'
  /\ \A q \in Jobs \ {j} : /\ tx'[q] = tx[q] /\ pc'[q] = pc[q]
                           /\ attempts'[q] = attempts[q] /\ began'[q] = began[q]

\* Then only what concerns j is left to show.
LEMMA LocalStep ==
  ASSUME ImportInv, NEW j \in Jobs, Local(j), RunInv(j)', \A q \in Jobs \ {j} : Apart(j, q)'
  PROVE  ImportInv'
<1> USE DEF Local, world, catalog
<1>1. CatalogInv'
  BY DEF ImportInv, CatalogInv, Named, Current, Served, OneGamePerId, UniqueSlugs, OnePayload
<1>2. ASSUME NEW q \in Jobs \ {j} PROVE RunInv(q)'
  <2>1. /\ q \in Open <=> q \in Open'
        /\ tx'[q] = tx[q] /\ pc'[q] = pc[q] /\ attempts'[q] = attempts[q] /\ began'[q] = began[q]
    BY DEF Open
  <2>2. RunInv(q)
    BY DEF ImportInv
  <2>3. Position(q)' /\ OwnGame(q)'
    BY <2>1, <2>2 DEF RunInv, Position, OwnGame, Wrote
  <2>4. Reserved(q)'
    BY <2>1, <2>2 DEF RunInv, Reserved, SlugTaken, ExternalTaken, GameOf, Wrote
  <2>5. Answer(q)' /\ Parent(q)'
    BY <2>1, <2>2 DEF RunInv, Answer, Served, Parent, GameOf
  <2>6. Loop(q)'
    BY <2>1, <2>2 DEF RunInv, Loop, Passed
  <2>7. QED BY <2>3, <2>4, <2>5, <2>6 DEF RunInv
<1>3. ASSUME NEW q \in Jobs, NEW s \in Jobs \ {q} PROVE Apart(q, s)'
  <2>1. CASE q = j
    BY <2>1
  <2>2. CASE s = j
    BY <2>2 DEF Apart
  <2>3. CASE q # j /\ s # j
    BY <2>3 DEF ImportInv, Apart, Wrote
  <2>4. QED BY <2>1, <2>2, <2>3
<1>4. QED BY <1>1, <1>2, <1>3 DEF ImportInv

\* A statement's step.
LEMMA StepShape ==
  ASSUME TypeOK, NEW j \in Jobs, NEW t \in Transactions, NEW next \in Stages,
         Step(j, t, next), UNCHANGED <<world, attempts, began>>
  PROVE  /\ Local(j) /\ tx'[j] = t /\ pc'[j] = next
         /\ UNCHANGED <<world, attempts, began, catalog>>
BY DEF Step, Local, TypeOK, world, catalog

\* j's run ends and its transaction with it.
LEMMA ReturnShape ==
  ASSUME ImportInv, NEW j \in Jobs, NEW ok \in BOOLEAN, Return(j, ok),
         pc[j] # "idle", UNCHANGED attempts
  PROVE  /\ tx' = [tx EXCEPT ![j] = NoTx] /\ tx' \in [Jobs -> Transactions] /\ tx'[j] = NoTx
         /\ pc' \in [Jobs -> Stages] /\ j \notin Open'
         /\ \A q \in Jobs \ {j} : tx'[q] = tx[q] /\ pc'[q] = pc[q]
         /\ RunInv(j)' /\ \A q \in Jobs \ {j} : Apart(j, q)' /\ Apart(q, j)'
<1>1. tx' = [tx EXCEPT ![j] = NoTx] /\ pc' = [pc EXCEPT ![j] = After(j, ok)]
  BY DEF Return
<1>2. /\ After(j, ok) \in {"idle"} \cup Ended
      /\ After(j, ok) = "idle" => attempts[j] < MaxAttempts
  BY ImportAssumption DEF After, Ended, ImportInv, TypeOK
<1>3. /\ tx' \in [Jobs -> Transactions] /\ pc' \in [Jobs -> Stages]
      /\ tx'[j] = NoTx /\ pc'[j] = After(j, ok)
      /\ \A q \in Jobs \ {j} : tx'[q] = tx[q] /\ pc'[q] = pc[q]
  BY <1>1, <1>2, NoTxShape DEF ImportInv, TypeOK, Stages
<1>4. j \notin Open' /\ tx'[j].pend = {}
  BY <1>3, NoTxShape DEF Open
<1>5. Position(j)' /\ OwnGame(j)' /\ Reserved(j)'
  BY <1>2, <1>3, <1>4 DEF Position, OwnGame, Reserved, Wrote, Ended, Unwritten, Linking
<1>6. Answer(j)' /\ Parent(j)' /\ Loop(j)'
  BY <1>4 DEF Answer, Parent, Loop
<1>7. \A q \in Jobs \ {j} : Apart(j, q)' /\ Apart(q, j)'
  BY <1>4 DEF Apart, Wrote
<1>8. QED BY <1>1, <1>3, <1>4, <1>5, <1>6, <1>7 DEF RunInv

\* Without a commit nothing is left of it.
LEMMA ReturnInv ==
  ASSUME ImportInv, NEW j \in Jobs, NEW ok \in BOOLEAN, Return(j, ok),
         pc[j] # "idle", UNCHANGED <<world, attempts, began, catalog>>
  PROVE  ImportInv'
<1>1. Local(j)
  BY ReturnShape DEF Local, ImportInv, TypeOK, world, catalog
<1>2. QED BY <1>1, ReturnShape, LocalStep

\* A statement leaves the payload alone.
LEMMA StatementShape ==
  ASSUME ImportInv, NEW j \in Jobs, pc[j] \notin {"idle"} \cup Ended,
         NEW t \in Transactions, NEW next \in Stages, t.payload = tx[j].payload,
         Step(j, t, next), UNCHANGED <<world, attempts, began>>
  PROVE  /\ Local(j) /\ tx'[j] = t /\ pc'[j] = next /\ j \in Open /\ j \in Open'
         /\ UNCHANGED <<world, attempts, began, catalog>>
         /\ tx[j].payload \in Payloads /\ tx[j] \in Transactions /\ Answer(j)'
<1>1. j \in Open
  BY DEF ImportInv, RunInv, Position
<1>2. tx[j].payload \in Payloads /\ tx[j].payload # None
  BY <1>1, OpenPayload
<1>3. Local(j) /\ tx'[j] = t /\ pc'[j] = next /\ UNCHANGED <<world, attempts, began, catalog>>
  BY StepShape DEF ImportInv
<1>4. j \in Open'
  BY <1>2, <1>3, NoTxShape DEF Open
<1>5. Answer(j)'
  BY <1>1, <1>3 DEF ImportInv, RunInv, Answer, Served, world
<1>6. tx[j] \in Transactions
  BY DEF ImportInv, TypeOK
<1>7. QED BY <1>1, <1>2, <1>3, <1>4, <1>5, <1>6

\* resolveParentGameID finds the parent of the payload, or none.
LEMMA ResolveParentInv ==
  ASSUME ImportInv, NEW j \in Jobs, ResolveParent(j)
  PROVE  ImportInv'
<1>1. pc[j] = "lookupParent" /\ UNCHANGED <<world, attempts, began>> /\ RunInv(j)
  BY DEF ResolveParent, InRun, ImportInv
<1>2. PICK t : /\ Step(j, t, "lookupGame")
               /\ \/ GameOf(tx[j].payload.parent) = {} /\ t = tx[j]
                  \/ \E g \in GameOf(tx[j].payload.parent) : t = [tx[j] EXCEPT !.parent = g]
  BY DEF ResolveParent
<1>3. tx[j] \in Transactions /\ tx[j].pend = {} /\ j \in Open
  BY <1>1 DEF ImportInv, TypeOK, RunInv, Position, Unwritten
<1>4. /\ t \in Transactions /\ t.payload = tx[j].payload /\ t.pend = {} /\ t.game = tx[j].game
      /\ t.cleared = tx[j].cleared /\ t.linked = tx[j].linked /\ t.table = tx[j].table
      /\ t.parent = tx[j].parent \/ t.parent \in GameOf(tx[j].payload.parent)
      /\ GameOf(tx[j].payload.parent) # {} => t.parent \in GameOf(tx[j].payload.parent)
  BY <1>2, <1>3 DEF Transactions, GameOf, ImportInv, TypeOK
<1>5. /\ Local(j) /\ tx'[j] = t /\ pc'[j] = "lookupGame" /\ j \in Open' /\ Answer(j)'
      /\ UNCHANGED <<world, attempts, began, catalog>>
  BY <1>1, <1>2, <1>4, StatementShape DEF Stages, Ended
<1>6. Position(j)' /\ OwnGame(j)' /\ Reserved(j)'
  BY <1>1, <1>4, <1>5 DEF Position, OwnGame, Reserved, Wrote, Ended, Unwritten, Linking
<1>7. Parent(j)'
  <2>1. GameOf(tx[j].payload.parent) \subseteq Jobs /\ None \notin Jobs
    BY ImportAssumption DEF GameOf, ImportInv, TypeOK
  <2>2. GameOf(t.payload.parent)' = GameOf(tx[j].payload.parent)
    BY <1>4, <1>5 DEF GameOf, catalog
  <2>3. QED BY <1>1, <1>3, <1>4, <1>5, <2>1, <2>2 DEF RunInv, Parent
<1>8. Loop(j)'
  BY <1>1, <1>3, <1>4, <1>5 DEF RunInv, Loop, Linking
<1>9. \A q \in Jobs \ {j} : Apart(j, q)'
  BY <1>4, <1>5 DEF Apart, Wrote
<1>10. QED BY <1>5, <1>6, <1>7, <1>8, <1>9, LocalStep DEF RunInv

\* The other statements leave the parent alone too.
LEMMA ParentKept ==
  ASSUME ImportInv, NEW j \in Jobs, j \in Open, Parent(j), pc[j] # "lookupParent",
         tx'[j].payload = tx[j].payload, tx'[j].parent = tx[j].parent,
         pc'[j] # "lookupParent", UNCHANGED <<began, catalog>>
  PROVE  Parent(j)'
BY DEF Parent, GameOf, catalog

\* upsertGameRow's SELECT: the game of the id, or a new one.
LEMMA LookupGameInv ==
  ASSUME ImportInv, NEW j \in Jobs, LookupGame(j)
  PROVE  ImportInv'
<1>1. pc[j] = "lookupGame" /\ UNCHANGED <<world, attempts, began>> /\ RunInv(j)
  BY DEF LookupGame, InRun, ImportInv
<1>2. tx[j] \in Transactions /\ tx[j].pend = {} /\ j \in Open
  BY <1>1 DEF ImportInv, TypeOK, RunInv, Position, Unwritten
<1>3. CASE GameOf(target[j]) = {}
  <2> DEFINE t == [tx[j] EXCEPT !.game = j, !.pend = {"new"}]
  <2>1. Step(j, t, "slugKey")
    BY <1>3 DEF LookupGame
  <2>2. /\ t \in Transactions /\ t.payload = tx[j].payload /\ t.pend = {"new"} /\ t.game = j
        /\ t.cleared = tx[j].cleared /\ t.linked = tx[j].linked /\ t.table = tx[j].table
        /\ t.parent = tx[j].parent
    BY <1>2 DEF Transactions
  <2> HIDE DEF t
  <2>3. /\ Local(j) /\ tx'[j] = t /\ pc'[j] = "slugKey" /\ j \in Open' /\ Answer(j)'
        /\ UNCHANGED <<world, attempts, began, catalog>>
    BY <1>1, <2>1, <2>2, StatementShape DEF Stages, Ended
  <2>4. j \notin games
    <3>1. SUFFICES ASSUME j \in games PROVE FALSE
      OBVIOUS
    <3>2. PICK e \in external : e[2] = j
      BY <3>1 DEF ImportInv, CatalogInv, OneGamePerId
    <3>3. e = <<target[j], j>>
      BY <3>2 DEF ImportInv, CatalogInv, Named, TypeOK
    <3>4. QED BY <1>3, <3>1, <3>3 DEF GameOf
  <2>5. Position(j)' /\ OwnGame(j)' /\ Reserved(j)'
    BY <1>1, <2>2, <2>3, <2>4 DEF Position, OwnGame, Reserved, Wrote, Ended, Unwritten, Linking, catalog
  <2>6. Parent(j)'
    BY <1>1, <1>2, <2>2, <2>3, ParentKept DEF RunInv
  <2>7. Loop(j)'
    BY <1>1, <1>2, <2>2, <2>3 DEF RunInv, Loop, Linking
  <2>8. \A q \in Jobs \ {j} : Apart(j, q)'
    BY <2>2, <2>3 DEF Apart, Wrote
  <2>9. QED BY <2>3, <2>5, <2>6, <2>7, <2>8, LocalStep DEF RunInv
<1>4. ASSUME NEW g \in GameOf(target[j]), Step(j, [tx[j] EXCEPT !.game = g], "lockGame")
      PROVE  ImportInv'
  <2> DEFINE t == [tx[j] EXCEPT !.game = g]
  <2>1. <<target[j], g>> \in external /\ g \in Jobs
    BY DEF GameOf, ImportInv, TypeOK
  <2>2. /\ t \in Transactions /\ t.payload = tx[j].payload /\ t.pend = {} /\ t.game = g
        /\ t.cleared = tx[j].cleared /\ t.linked = tx[j].linked /\ t.table = tx[j].table
        /\ t.parent = tx[j].parent
    BY <1>2, <2>1 DEF Transactions
  <2>3. Step(j, t, "lockGame")
    BY <1>4
  <2> HIDE DEF t
  <2>4. /\ Local(j) /\ tx'[j] = t /\ pc'[j] = "lockGame" /\ j \in Open' /\ Answer(j)'
        /\ UNCHANGED <<world, attempts, began, catalog>>
    BY <1>1, <2>2, <2>3, StatementShape DEF Stages, Ended
  <2>5. Position(j)' /\ OwnGame(j)' /\ Reserved(j)'
    BY <1>1, <2>1, <2>2, <2>4
       DEF Position, OwnGame, Reserved, Wrote, Ended, Unwritten, Linking, catalog, world
  <2>6. Parent(j)'
    BY <1>1, <1>2, <2>2, <2>4, ParentKept DEF RunInv
  <2>7. Loop(j)'
    BY <1>1, <1>2, <2>2, <2>4 DEF RunInv, Loop, Linking
  <2>8. \A q \in Jobs \ {j} : Apart(j, q)'
    BY <2>2, <2>4 DEF Apart, Wrote
  <2>9. QED BY <2>4, <2>5, <2>6, <2>7, <2>8, LocalStep DEF RunInv
<1>5. QED BY <1>3, <1>4 DEF LookupGame

\* A statement that writes rows and nothing else of the transaction, and what it
\* leaves of the run's facts.
Writing(j, rows, next) ==
  /\ pc[j] \in Stages \ ({"idle", "lookupParent"} \cup Ended)
  /\ next \in Stages \ {"lookupParent"}
  /\ Step(j, [tx[j] EXCEPT !.pend = @ \cup rows], next)
  /\ UNCHANGED <<world, attempts, began>>

Written(j, rows, next) ==
  /\ Local(j) /\ pc'[j] = next /\ j \in Open /\ j \in Open'
  /\ tx'[j].pend = tx[j].pend \cup rows
  /\ tx'[j].payload = tx[j].payload /\ tx'[j].parent = tx[j].parent /\ tx'[j].game = tx[j].game
  /\ tx'[j].cleared = tx[j].cleared /\ tx'[j].linked = tx[j].linked
  /\ tx'[j].table = tx[j].table /\ tx'[j].todo = tx[j].todo
  /\ UNCHANGED <<world, attempts, began, catalog>> /\ Answer(j)' /\ Parent(j)'

\* A statement that adds rows and locks to j's transaction, and what it leaves alone.
LEMMA WriteShape ==
  ASSUME ImportInv, NEW j \in Jobs, NEW rows \in SUBSET Pending, NEW next, Writing(j, rows, next)
  PROVE  Written(j, rows, next)
<1> USE DEF Writing
<1> DEFINE t == [tx[j] EXCEPT !.pend = @ \cup rows]
<1>1. tx[j] \in Transactions /\ RunInv(j)
  BY DEF ImportInv, TypeOK
<1>2. /\ t \in Transactions /\ t.payload = tx[j].payload /\ t.parent = tx[j].parent
      /\ t.game = tx[j].game /\ t.pend = tx[j].pend \cup rows /\ t.cleared = tx[j].cleared
      /\ t.linked = tx[j].linked /\ t.table = tx[j].table /\ t.todo = tx[j].todo
  BY <1>1 DEF Transactions, Pending
<1>3. Step(j, t, next)
  OBVIOUS
<1> HIDE DEF t
<1>4. /\ Local(j) /\ tx'[j] = t /\ pc'[j] = next /\ j \in Open /\ j \in Open' /\ Answer(j)'
      /\ UNCHANGED <<world, attempts, began, catalog>>
  BY <1>2, <1>3, StatementShape
<1>5. Parent(j)'
  BY <1>1, <1>2, <1>4, ParentKept DEF RunInv
<1>6. QED BY <1>2, <1>4, <1>5 DEF Written

\* Nobody else has the row's lock when it is taken.
LEMMA LockGameInv ==
  ASSUME ImportInv, NEW j \in Jobs, LockGame(j)
  PROVE  ImportInv'
<1>1. pc[j] = "lockGame" /\ WaitsFor(j) = {} /\ RunInv(j) /\ tx[j].pend = {}
  BY DEF LockGame, InRun, Unblocked, ImportInv, RunInv, Position, Unwritten
<1>2. Writing(j, {"lock"}, "slugKey")
  BY DEF LockGame, InRun, Writing, Stages, Ended
<1>3. Written(j, {"lock"}, "slugKey")
  BY <1>2, WriteShape DEF Pending
<1> USE <1>3 DEF Written
<1>4. Position(j)' /\ OwnGame(j)' /\ Reserved(j)'
  BY <1>1 DEF RunInv, Position, OwnGame, Reserved, Wrote, Ended, Unwritten, Linking, catalog, world
<1>5. Loop(j)'
  BY <1>1 DEF RunInv, Position, Loop, Linking, Unwritten
<1>6. ASSUME NEW q \in Jobs \ {j} PROVE Apart(j, q)'
  <2>1. tx'[q] = tx[q]
    BY <1>1 DEF Local
  <2>2. "lock" \in tx[q].pend => tx[q].game # tx[j].game
    BY <1>1, WroteOpen DEF WaitsFor, BlocksRow, Wrote
  <2>3. QED BY <1>1, <2>1, <2>2 DEF Apart, Wrote
<1>7. QED BY <1>1, <1>4, <1>5, <1>6, LocalStep DEF RunInv

\* A slug that enters the index is in no committed row and in no open transaction.
LEMMA WriteSlugInv ==
  ASSUME ImportInv, NEW j \in Jobs, WriteSlug(j)
  PROVE  ImportInv'
<1>1. /\ pc[j] = "slugKey" /\ WaitsFor(j) = {} /\ RunInv(j)
      /\ UNCHANGED <<world, attempts, began>>
  BY DEF WriteSlug, InRun, Unblocked, ImportInv
<1>2. CASE SlugTaken(j)
  BY <1>1, <1>2, ReturnInv DEF WriteSlug
<1>3. CASE ~SlugTaken(j)
  <2>1. Written(j, {"slug"}, "parentKey")
    <3>1. Writing(j, {"slug"}, "parentKey")
      BY <1>1, <1>3 DEF WriteSlug, Writing, Stages, Ended
    <3>2. QED BY <3>1, WriteShape DEF Pending
  <2> USE DEF Written
  <2>2. /\ tx[j].pend # {} /\ ~Wrote(j, "slug") /\ ~Wrote(j, "external") /\ ~Wrote(j, "media")
        /\ Wrote(j, "new") <=> ~Wrote(j, "lock")
    BY <1>1 DEF RunInv, Position, OwnGame, Unwritten, Linking, Ended
  <2>3. Position(j)'
    BY <1>1, <2>1, <2>2 DEF RunInv, Position, Wrote, Ended, Unwritten, Linking
  <2>4. OwnGame(j)' /\ Reserved(j)'
    BY <1>1, <1>3, <2>1, <2>2
       DEF RunInv, OwnGame, Reserved, SlugTaken, Wrote, catalog, world
  <2>5. Loop(j)'
    BY <1>1, <2>1 DEF RunInv, Loop, Linking
  <2>6. ASSUME NEW q \in Jobs \ {j}, Wrote(q, "slug") PROVE tx[q].payload.slug # tx[j].payload.slug
    <3>1. q \in Open /\ RunInv(q) /\ Apart(j, q)
      BY <2>6, WroteOpen DEF Wrote, ImportInv
    <3>2. SUFFICES ASSUME tx[q].payload.slug = tx[j].payload.slug PROVE FALSE
      OBVIOUS
    <3>3. Wrote(j, "lock") /\ ~Renames(j)
      BY <1>1, <2>6, <3>1, <3>2 DEF WaitsFor, BlocksSlug, SlugsOf
    <3>4. row[tx[j].game].slug = tx[j].payload.slug /\ tx[j].game \in games
      BY <1>1, <2>2, <3>3 DEF Renames, RunInv, OwnGame, ImportInv, TypeOK
    <3>5. tx[q].game = tx[j].game
      BY <2>6, <3>1, <3>2, <3>4 DEF RunInv, Reserved, SlugTaken
    <3>6. Wrote(q, "lock")
      BY <2>6, <3>1, <3>4, <3>5 DEF RunInv, OwnGame, Wrote
    <3>7. QED BY <3>1, <3>3, <3>5, <3>6 DEF Apart
  <2>7. ASSUME NEW q \in Jobs \ {j} PROVE Apart(j, q)'
    <3>1. tx'[q] = tx[q] /\ Apart(j, q)
      BY <2>1 DEF Local, ImportInv
    <3>2. QED BY <2>1, <2>2, <2>6, <3>1 DEF Apart, Wrote, world
  <2>8. QED BY <2>1, <2>3, <2>4, <2>5, <2>7, LocalStep DEF RunInv
<1>4. QED BY <1>2, <1>3

\* The key-share lock on the parent concerns no invariant.
LEMMA ReferenceParentInv ==
  ASSUME ImportInv, NEW j \in Jobs, ReferenceParent(j)
  PROVE  ImportInv'
<1> DEFINE next == IF Wrote(j, "new") THEN "external" ELSE "clear"
<1>1. pc[j] = "parentKey" /\ RunInv(j)
  BY DEF ReferenceParent, InRun, ImportInv
<1> DEFINE rows == IF ChecksParent(j) THEN {"parent"} ELSE {}
<1>2. Writing(j, rows, next) /\ rows \subseteq {"parent"} /\ next \in {"external", "clear"}
  BY <1>1 DEF ReferenceParent, InRun, Writing, Stages, Ended
<1> HIDE DEF rows
<1>3. Written(j, rows, next)
  BY <1>2, WriteShape DEF Pending
<1> USE DEF Written
<1>4. tx[j].pend # {} /\ Wrote(j, "slug") /\ ~Wrote(j, "external") /\ ~Wrote(j, "media")
  BY <1>1 DEF RunInv, Position, Unwritten, Linking, Ended, Wrote
<1>5. Position(j)'
  BY <1>1, <1>2, <1>3, <1>4 DEF RunInv, Position, Wrote, Ended, Unwritten, Linking
<1>6. OwnGame(j)' /\ Reserved(j)'
  BY <1>1, <1>2, <1>3, <1>4
     DEF RunInv, OwnGame, Reserved, SlugTaken, ExternalTaken, GameOf, Wrote, catalog, world
<1>7. Loop(j)'
  <2>1. tx[j].cleared = {} /\ tx[j].linked = {} /\ tx[j].table = 1
    BY <1>1, <1>3 DEF RunInv, Loop, Linking
  <2>2. LinksUpTo(tx[j].payload, 0) = {}
    BY DEF LinksUpTo
  <2>3. {Tables[i] : i \in 1 .. 0} = {}
    OBVIOUS
  <2>4. pc'[j] \in {"external", "clear"}
    BY <1>3
  <2>5. QED BY <1>3, <2>1, <2>2, <2>3, <2>4 DEF Loop, Linking
<1>8. ASSUME NEW q \in Jobs \ {j} PROVE Apart(j, q)'
  <2>1. tx'[q] = tx[q] /\ Apart(j, q)
    BY <1>3 DEF Local, ImportInv
  <2>2. QED BY <1>2, <1>3, <1>4, <2>1 DEF Apart, Wrote, world
<1>9. QED BY <1>3, <1>5, <1>6, <1>7, <1>8, LocalStep DEF RunInv

\* An id that enters its unique index is in no committed row and no open transaction.
LEMMA InsertExternalInv ==
  ASSUME ImportInv, NEW j \in Jobs, InsertExternal(j)
  PROVE  ImportInv'
<1>1. /\ pc[j] = "external" /\ WaitsFor(j) = {} /\ RunInv(j)
      /\ UNCHANGED <<world, attempts, began>>
  BY DEF InsertExternal, InRun, Unblocked, ImportInv
<1>2. CASE ExternalTaken(j)
  BY <1>1, <1>2, ReturnInv DEF InsertExternal
<1>3. CASE ~ExternalTaken(j)
  <2>1. Written(j, {"external"}, "clear")
    <3>1. Writing(j, {"external"}, "clear")
      BY <1>1, <1>3 DEF InsertExternal, Writing, Stages, Ended
    <3>2. QED BY <3>1, WriteShape DEF Pending
  <2> USE DEF Written
  <2>2. Wrote(j, "new") /\ Wrote(j, "slug") /\ ~Wrote(j, "lock") /\ ~Wrote(j, "media")
    BY <1>1 DEF RunInv, Position, OwnGame, Unwritten, Linking, Ended, Wrote
  <2>3. Position(j)'
    BY <1>1, <2>1, <2>2 DEF RunInv, Position, Wrote, Ended, Unwritten, Linking
  <2>4. OwnGame(j)' /\ Reserved(j)'
    BY <1>1, <1>3, <2>1, <2>2
       DEF RunInv, OwnGame, Reserved, SlugTaken, ExternalTaken, GameOf, Wrote, catalog, world
  <2>5. Loop(j)'
    <3>1. tx[j].cleared = {} /\ tx[j].linked = {} /\ tx[j].table = 1
      BY <1>1, <2>1 DEF RunInv, Loop, Linking
    <3>2. LinksUpTo(tx[j].payload, 0) = {} /\ {Tables[i] : i \in 1 .. 0} = {}
      BY DEF LinksUpTo
    <3>3. QED BY <2>1, <3>1, <3>2 DEF Loop, Linking
  <2>6. ASSUME NEW q \in Jobs \ {j} PROVE Apart(j, q)'
    <3>1. tx'[q] = tx[q] /\ Apart(j, q)
      BY <2>1 DEF Local, ImportInv
    <3>2. Wrote(q, "external") => target[q] # target[j]
      BY <1>1, WroteOpen DEF WaitsFor, BlocksExternal, Wrote
    <3>3. QED BY <2>1, <2>2, <3>1, <3>2 DEF Apart, Wrote, world
  <2>7. QED BY <2>1, <2>3, <2>4, <2>5, <2>6, LocalStep DEF RunInv
<1>4. QED BY <1>2, <1>3

-----------------------------------------------------------------------------
(* The links.                                                              *)

\* The three tables of links and their names.
LEMMA TablesShape ==
  /\ Len(Tables) = 3 /\ \A i \in 1 .. 3 : Tables[i] \in TableNames
  /\ TableNames = {Tables[i] : i \in 1 .. 3}
BY DEF Tables, TableNames

\* The references of a payload into a table are a sequence.
LEMMA PayloadRefs ==
  ASSUME NEW p \in Payloads, NEW i \in 1 .. 3
  PROVE  p.refs[i] \in Seq(Refs) /\ \A ref \in RefsOf(p, i) : ref \in Refs
<1>1. p.refs[i] \in Seq(RefsOf(p, i))
  BY ImportAssumption, TablesShape
<1> DEFINE all == {RefsOf(q, k) : q \in Payloads, k \in 1 .. Len(Tables)}
<1>2. RefsOf(p, i) \in all /\ Refs = UNION all
  BY TablesShape DEF Refs
<1> HIDE DEF all
<1>3. \A ref \in RefsOf(p, i) : ref \in Refs
  BY <1>2
<1>4. QED BY <1>1, <1>3

\* What one more table adds.
LEMMA LinksOfTable ==
  ASSUME NEW p, NEW n \in 1 .. 3
  PROVE  LinksUpTo(p, n) = LinksUpTo(p, n - 1) \cup {<<Tables[n], ref>> : ref \in RefsOf(p, n)}
<1>1. 1 .. n = (1 .. n - 1) \cup {n}
  OBVIOUS
<1>2. QED BY <1>1 DEF LinksUpTo

\* A step of the loop takes one reference from the list and puts it in its place.
LEMMA HeadAndTail ==
  ASSUME NEW S, NEW s \in Seq(S), s # <<>>, NEW name
  PROVE  {<<name, s[n]>> : n \in 1 .. Len(s)}
           = {<<name, Head(s)>>} \cup {<<name, Tail(s)[n]>> : n \in 1 .. Len(Tail(s))}
<1>1. Len(s) \in Nat \ {0} /\ Head(s) = s[1] /\ Len(Tail(s)) = Len(s) - 1
  OBVIOUS
<1>2. \A n \in 1 .. Len(Tail(s)) : Tail(s)[n] = s[n + 1]
  OBVIOUS
<1>3. ASSUME NEW n \in 1 .. Len(s)
      PROVE  s[n] = Head(s) \/ \E m \in 1 .. Len(Tail(s)) : s[n] = Tail(s)[m]
  <2>1. CASE n = 1
    BY <1>1, <2>1
  <2>2. CASE n # 1
    <3>1. n - 1 \in 1 .. Len(Tail(s)) /\ (n - 1) + 1 = n
      BY <1>1, <2>2
    <3>2. QED BY <1>2, <3>1
  <2>3. QED BY <2>1, <2>2
<1>4. ASSUME NEW m \in 1 .. Len(Tail(s)) PROVE \E n \in 1 .. Len(s) : Tail(s)[m] = s[n]
  <2>1. m + 1 \in 1 .. Len(s)
    BY <1>1
  <2>2. QED BY <1>2, <2>1
<1>5. \E n \in 1 .. Len(s) : Head(s) = s[n]
  BY <1>1
<1>6. QED BY <1>3, <1>4, <1>5

\* A statement that changes links only.
LEMMA LinkingStep ==
  ASSUME ImportInv, NEW j \in Jobs, NEW t \in Transactions, NEW next \in {"clear", "refs", "media"},
         pc[j] \in {"clear", "refs"}, Step(j, t, next), UNCHANGED <<world, attempts, began>>,
         t.pend = tx[j].pend, t.payload = tx[j].payload, t.parent = tx[j].parent,
         t.game = tx[j].game, tx'[j] = t /\ pc'[j] = next /\ j \in Open => Loop(j)'
  PROVE  ImportInv'
<1>1. RunInv(j) /\ next \in Stages /\ pc[j] \in Linking /\ next \in Linking \ {"commit"}
      /\ pc[j] # "commit" /\ pc[j] \notin {"idle", "lookupParent"} \cup Ended
  BY DEF ImportInv, Stages, Linking, Ended
<1>2. /\ Local(j) /\ tx'[j] = t /\ pc'[j] = next /\ j \in Open /\ j \in Open' /\ Answer(j)'
      /\ UNCHANGED <<world, attempts, began, catalog>>
  BY <1>1, StatementShape
<1>3. Position(j)' /\ OwnGame(j)'
  BY <1>1, <1>2 DEF RunInv, Position, OwnGame, Wrote, Ended, Unwritten, Linking, catalog, world
<1>4. Reserved(j)'
  BY <1>1, <1>2
     DEF RunInv, Reserved, SlugTaken, ExternalTaken, GameOf, Wrote, catalog, world
<1>5. Parent(j)'
  BY <1>1, <1>2, ParentKept DEF RunInv, Linking
<1>6. ASSUME NEW q \in Jobs \ {j} PROVE Apart(j, q)'
  <2>1. tx'[q] = tx[q] /\ Apart(j, q)
    BY <1>2 DEF Local, ImportInv
  <2>2. QED BY <1>2, <2>1 DEF Apart, Wrote, world
<1>7. QED BY <1>2, <1>3, <1>4, <1>5, <1>6, LocalStep DEF RunInv

\* The DELETE of a table's links opens its loop over the references.
LEMMA ClearLinksInv ==
  ASSUME ImportInv, NEW j \in Jobs, ClearLinks(j)
  PROVE  ImportInv'
<1> DEFINE old == tx[j]
           t == [old EXCEPT !.cleared = @ \cup {Tables[old.table]}, !.todo = old.payload.refs[old.table]]
<1>1. /\ pc[j] = "clear" /\ UNCHANGED <<world, attempts, began>> /\ Step(j, t, "refs")
      /\ old \in Transactions /\ RunInv(j)
  BY DEF ClearLinks, InRun, ImportInv, TypeOK
<1>2. j \in Open /\ old.payload \in Payloads /\ old.table \in 1 .. 3
  BY <1>1, OpenPayload, TablesShape DEF RunInv, Position, Ended, Transactions
<1>3. old.payload.refs[old.table] \in Seq(Refs) /\ Tables[old.table] \in TableNames
  BY <1>2, PayloadRefs, TablesShape
<1>4. /\ t \in Transactions /\ t.pend = old.pend /\ t.payload = old.payload /\ t.parent = old.parent
      /\ t.game = old.game /\ t.table = old.table /\ t.linked = old.linked
      /\ t.cleared = old.cleared \cup {Tables[old.table]} /\ t.todo = old.payload.refs[old.table]
  BY <1>1, <1>3 DEF Transactions
<1>5. /\ old.cleared = {Tables[i] : i \in 1 .. old.table - 1}
      /\ old.linked = LinksUpTo(old.payload, old.table - 1)
  BY <1>1, <1>2 DEF RunInv, Loop, Linking
<1> HIDE DEF t
<1>6. t.cleared = {Tables[i] : i \in 1 .. t.table}
  <2>1. 1 .. old.table = (1 .. old.table - 1) \cup {old.table}
    BY <1>2
  <2>2. QED BY <1>4, <1>5, <2>1
<1>7. Passed(t) = LinksUpTo(t.payload, t.table)
  <2> DEFINE name == Tables[old.table]
             refs == old.payload.refs[old.table]
  <2>1. LinksUpTo(old.payload, old.table)
          = old.linked \cup {<<name, ref>> : ref \in RefsOf(old.payload, old.table)}
    BY <1>2, <1>5, LinksOfTable
  <2>2. RefsOf(old.payload, old.table) = {refs[n] : n \in 1 .. Len(refs)}
    BY DEF RefsOf
  <2>3. Passed(t) = old.linked \cup {<<name, refs[n]>> : n \in 1 .. Len(refs)}
    BY <1>4 DEF Passed
  <2> HIDE DEF name, refs
  <2>4. {<<name, ref>> : ref \in {refs[n] : n \in 1 .. Len(refs)}} = {<<name, refs[n]>> : n \in 1 .. Len(refs)}
    OBVIOUS
  <2>5. QED BY <1>4, <2>1, <2>2, <2>3, <2>4
<1>8. tx'[j] = t /\ pc'[j] = "refs" /\ j \in Open => Loop(j)'
  BY <1>6, <1>7 DEF Loop, Linking, Passed
<1>9. QED BY <1>1, <1>4, <1>8, LinkingStep

\* One turn of the loop links one more reference of the payload.
LEMMA LinkRefInv ==
  ASSUME ImportInv, NEW j \in Jobs, LinkRef(j)
  PROVE  ImportInv'
<1> DEFINE old == tx[j]
           link == <<Tables[old.table], Head(old.todo)>>
           t == [old EXCEPT !.linked = @ \cup {link}, !.todo = Tail(@)]
<1>1. /\ pc[j] = "refs" /\ UNCHANGED <<world, attempts, began>> /\ Step(j, t, "refs")
      /\ old \in Transactions /\ RunInv(j) /\ old.todo # <<>>
  BY DEF LinkRef, InRun, ImportInv, TypeOK
<1>2. j \in Open /\ old.table \in 1 .. 3 /\ old.todo \in Seq(Refs)
  BY <1>1, TablesShape DEF RunInv, Position, Ended, Transactions
<1>3. link \in Links /\ Tail(old.todo) \in Seq(Refs)
  <2>1. Head(old.todo) \in Refs /\ Tail(old.todo) \in Seq(Refs) /\ Tables[old.table] \in TableNames
    BY <1>1, <1>2, TablesShape
  <2>2. QED BY <2>1 DEF Links
<1>4. /\ t \in Transactions /\ t.pend = old.pend /\ t.payload = old.payload /\ t.parent = old.parent
      /\ t.game = old.game /\ t.table = old.table /\ t.linked = old.linked \cup {link}
      /\ t.cleared = old.cleared /\ t.todo = Tail(old.todo)
  BY <1>1, <1>3 DEF Transactions
<1>5. /\ old.cleared = {Tables[i] : i \in 1 .. old.table}
      /\ Passed(old) = LinksUpTo(old.payload, old.table)
  BY <1>1, <1>2 DEF RunInv, Loop, Linking
<1> HIDE DEF t
<1>6. Passed(t) = Passed(old)
  <2> DEFINE name == Tables[old.table]
  <2>1. {<<name, old.todo[n]>> : n \in 1 .. Len(old.todo)}
          = {link} \cup {<<name, Tail(old.todo)[n]>> : n \in 1 .. Len(Tail(old.todo))}
    BY <1>1, <1>2, HeadAndTail
  <2>2. Passed(old) = old.linked \cup {<<name, old.todo[n]>> : n \in 1 .. Len(old.todo)}
    BY DEF Passed
  <2>3. Passed(t) = (old.linked \cup {link})
                      \cup {<<name, Tail(old.todo)[n]>> : n \in 1 .. Len(Tail(old.todo))}
    BY <1>4 DEF Passed
  <2>4. QED BY <2>1, <2>2, <2>3
<1>7. tx'[j] = t /\ pc'[j] = "refs" /\ j \in Open => Loop(j)'
  BY <1>4, <1>5, <1>6 DEF Loop, Linking, Passed
<1>8. QED BY <1>1, <1>4, <1>7, LinkingStep

\* When the loop is through, the next table follows, or the media.
LEMMA NextTableInv ==
  ASSUME ImportInv, NEW j \in Jobs, NextTable(j)
  PROVE  ImportInv'
<1> DEFINE old == tx[j]
<1>1. /\ pc[j] = "refs" /\ UNCHANGED <<world, attempts, began>>
      /\ old \in Transactions /\ RunInv(j) /\ old.todo = <<>>
  BY DEF NextTable, InRun, ImportInv, TypeOK
<1>2. j \in Open /\ old.table \in 1 .. 3
  BY <1>1, TablesShape DEF RunInv, Position, Ended, Transactions
<1>3. /\ old.cleared = {Tables[i] : i \in 1 .. old.table}
      /\ old.linked = LinksUpTo(old.payload, old.table)
  <2>1. /\ old.cleared = {Tables[i] : i \in 1 .. old.table}
        /\ Passed(old) = LinksUpTo(old.payload, old.table)
    BY <1>1, <1>2 DEF RunInv, Loop, Linking
  <2>2. Len(old.todo) = 0
    BY <1>1
  <2>3. Passed(old) = old.linked
    BY <2>2 DEF Passed
  <2>4. QED BY <2>1, <2>3
<1>4. CASE old.table < Len(Tables)
  <2> DEFINE t == [old EXCEPT !.table = @ + 1]
  <2>1. /\ t \in Transactions /\ t.pend = old.pend /\ t.payload = old.payload
        /\ t.parent = old.parent /\ t.game = old.game /\ t.table = old.table + 1
        /\ t.linked = old.linked /\ t.cleared = old.cleared
    BY <1>1, <1>2, <1>4, TablesShape DEF Transactions
  <2>2. Step(j, t, "clear")
    BY <1>4 DEF NextTable
  <2> HIDE DEF t
  <2>3. t.table - 1 = old.table
    BY <1>2, <2>1
  <2>4. tx'[j] = t /\ pc'[j] = "clear" /\ j \in Open => Loop(j)'
    BY <1>3, <2>1, <2>3 DEF Loop, Linking
  <2>5. QED BY <1>1, <2>1, <2>2, <2>4, LinkingStep
<1>5. CASE ~(old.table < Len(Tables))
  <2>1. old.table = 3 /\ Step(j, old, "media")
    BY <1>2, <1>5, TablesShape DEF NextTable
  <2>2. old.cleared = TableNames /\ old.linked = LinksOf(old.payload)
    BY <1>3, <2>1, TablesShape DEF LinksOf
  <2>3. tx'[j] = old /\ pc'[j] = "media" /\ j \in Open => Loop(j)'
    BY <2>2 DEF Loop, Linking
  <2>4. QED BY <1>1, <2>1, <2>3, LinkingStep
<1>6. QED BY <1>4, <1>5

\* The media are written last.
LEMMA ImportGameMediaInv ==
  ASSUME ImportInv, NEW j \in Jobs, ImportGameMedia(j)
  PROVE  ImportInv'
<1>1. pc[j] = "media" /\ RunInv(j)
  BY DEF ImportGameMedia, InRun, ImportInv
<1>2. Writing(j, {"media"}, "commit")
  BY <1>1 DEF ImportGameMedia, InRun, Writing, Stages, Ended
<1>3. Written(j, {"media"}, "commit")
  BY <1>2, WriteShape DEF Pending
<1> USE DEF Written
<1>4. tx[j].pend # {} /\ Wrote(j, "slug")
  BY <1>1 DEF RunInv, Position, Unwritten, Linking, Ended, Wrote
<1>5. Position(j)'
  BY <1>1, <1>3, <1>4 DEF RunInv, Position, Wrote, Ended, Unwritten, Linking
<1>6. OwnGame(j)' /\ Reserved(j)'
  BY <1>1, <1>3, <1>4
     DEF RunInv, OwnGame, Reserved, SlugTaken, ExternalTaken, GameOf, Wrote, catalog, world
<1>7. Loop(j)'
  BY <1>1, <1>3 DEF RunInv, Loop, Linking
<1>8. ASSUME NEW q \in Jobs \ {j} PROVE Apart(j, q)'
  <2>1. tx'[q] = tx[q] /\ Apart(j, q)
    BY <1>3 DEF Local, ImportInv
  <2>2. QED BY <1>3, <2>1 DEF Apart, Wrote, world
<1>9. QED BY <1>3, <1>5, <1>6, <1>7, <1>8, LocalStep DEF RunInv

-----------------------------------------------------------------------------
(* Runs begin and end.                                                     *)

\* A job that is to be run has not used up its attempts.
LEMMA AttemptCounted ==
  ASSUME TypeOK, NEW j \in Jobs, Position(j), pc[j] = "idle"
  PROVE  [attempts EXCEPT ![j] = @ + 1] \in [Jobs -> 0 .. MaxAttempts]
<1>1. attempts[j] < MaxAttempts
  BY DEF Position
<1>2. MaxAttempts \in Nat /\ attempts \in [Jobs -> 0 .. MaxAttempts]
  BY ImportAssumption DEF TypeOK
<1>3. attempts[j] + 1 \in 0 .. MaxAttempts
  BY <1>1, <1>2
<1>4. QED BY <1>2, <1>3

\* A run begins with what IGDB says now, which is no older than the game's row.
LEMMA QueryInv ==
  ASSUME ImportInv, NEW j \in Jobs, Query(j)
  PROVE  ImportInv'
<1> DEFINE id == target[j]
           p == versions[id][latest[id]]
           new == [NoTx EXCEPT !.payload = p]
           found == GameOf(p.id)
           run == [version |-> IF found = {} THEN 0 ELSE row[CHOOSE g \in found : TRUE].version,
                   parent |-> GameOf(p.parent) # {}]
<1>1. /\ pc[j] = "idle" /\ RunInv(j) /\ id \in Ids
      /\ attempts' = [attempts EXCEPT ![j] = @ + 1] /\ tx' = [tx EXCEPT ![j] = new]
      /\ began' = [began EXCEPT ![j] = run] /\ pc' = [pc EXCEPT ![j] = "lookupParent"]
      /\ UNCHANGED <<world, catalog>>
  BY DEF Query, Run, ImportInv, TypeOK
<1>2. latest[id] \in 1 .. Len(versions[id]) /\ versions \in Worlds /\ Served(p, id)
  BY <1>1, ImportAssumption DEF ImportInv, TypeOK, Served
<1>3. p \in Payloads /\ p # None /\ p.id = id /\ p.version \in Nat
  BY <1>1, <1>2, ServedPayload, ImportAssumption DEF ImportInv
<1>4. /\ new \in Transactions /\ new.payload = p /\ new.pend = {} /\ new.parent = None
      /\ new.cleared = {} /\ new.linked = {} /\ new.table = 1
  BY <1>3, NoTxShape DEF Transactions
<1>5. ASSUME NEW g \in found PROVE row[g].version \in Nat /\ row[g].version <= p.version
  <2>1. g \in games /\ target[g] = id
    BY <1>3 DEF GameOf, ImportInv, CatalogInv, Named
  <2>2. PICK v \in 1 .. latest[id] : row[g] = versions[id][v]
    BY <2>1 DEF ImportInv, CatalogInv, Current, Served
  <2>3. row[g] \in Payloads
    BY <1>1, <2>2, ServedPayload DEF ImportInv, Served
  <2>4. QED BY <1>1, <1>2, <2>2, <2>3, ImportAssumption
<1>6. run \in [version : Nat, parent : BOOLEAN] /\ run.version <= p.version
  <2>1. CASE found = {}
    BY <1>3, <2>1
  <2>2. CASE found # {}
    <3>1. (CHOOSE g \in found : TRUE) \in found
      BY <2>2
    <3>2. QED BY <1>5, <2>2, <3>1
  <2>3. QED BY <2>1, <2>2
<1>7. run.parent <=> GameOf(p.parent) # {}
  OBVIOUS
<1> HIDE DEF run, new
<1>8. TypeOK'
  <2>1. attempts' \in [Jobs -> 0 .. MaxAttempts]
    BY <1>1, AttemptCounted DEF ImportInv, RunInv
  <2>2. "lookupParent" \in Stages
    BY DEF Stages
  <2>3. /\ tx' \in [Jobs -> Transactions] /\ pc' \in [Jobs -> Stages]
        /\ began' \in [Jobs -> [version : Nat, parent : BOOLEAN]]
    BY <1>1, <1>4, <1>6, <2>2 DEF ImportInv, TypeOK
  <2>4. QED BY <1>1, <2>1, <2>3 DEF ImportInv, TypeOK, world, catalog
<1>9. /\ Local(j) /\ tx'[j] = new /\ pc'[j] = "lookupParent" /\ began'[j] = run
  BY <1>1, <1>8 DEF Local, ImportInv, TypeOK
<1>10. j \in Open'
  BY <1>3, <1>4, <1>9, NoTxShape DEF Open
<1>11. Position(j)' /\ OwnGame(j)' /\ Reserved(j)'
  BY <1>4, <1>9, <1>10 DEF Position, OwnGame, Reserved, Wrote, Ended, Unwritten, Linking
<1>12. Answer(j)' /\ Loop(j)'
  BY <1>1, <1>2, <1>4, <1>6, <1>9, <1>10 DEF Answer, Loop, Linking, Served, world
<1>13. Parent(j)'
  BY <1>1, <1>4, <1>7, <1>9 DEF Parent, GameOf, catalog
<1>14. \A q \in Jobs \ {j} : Apart(j, q)'
  BY <1>4, <1>9 DEF Apart, Wrote
<1>15. QED BY <1>9, <1>11, <1>12, <1>13, <1>14, LocalStep DEF RunInv

\* A worker without an IGDB client skips the job and writes nothing.
LEMMA SkipInv ==
  ASSUME ImportInv, NEW j \in Jobs, SkipUnconfigured(j)
  PROVE  ImportInv'
<1>1. /\ pc[j] = "idle" /\ RunInv(j) /\ attempts' = [attempts EXCEPT ![j] = @ + 1]
      /\ pc' = [pc EXCEPT ![j] = "completed"] /\ UNCHANGED <<world, tx, catalog, began>>
  BY DEF SkipUnconfigured, ImportInv
<1>2. TypeOK'
  <2>1. attempts' \in [Jobs -> 0 .. MaxAttempts]
    BY <1>1, AttemptCounted DEF ImportInv, RunInv
  <2>2. pc' \in [Jobs -> Stages]
    BY <1>1 DEF ImportInv, TypeOK, Stages, Ended
  <2>3. QED BY <1>1, <2>1, <2>2 DEF ImportInv, TypeOK, world, catalog
<1>3. /\ Local(j) /\ pc'[j] = "completed" /\ j \notin Open /\ j \notin Open'
  BY <1>1, <1>2 DEF Local, ImportInv, TypeOK, RunInv, Position, Open
<1>4. tx'[j].pend = {}
  BY <1>1, <1>3, WroteOpen
<1>5. Position(j)' /\ OwnGame(j)' /\ Reserved(j)'
  BY <1>3, <1>4 DEF Position, OwnGame, Reserved, Wrote, Ended, Unwritten, Linking
<1>6. Answer(j)' /\ Parent(j)' /\ Loop(j)'
  BY <1>3 DEF Answer, Parent, Loop
<1>7. \A q \in Jobs \ {j} : Apart(j, q)'
  BY <1>4 DEF Apart, Wrote
<1>8. QED BY <1>3, <1>5, <1>6, <1>7, LocalStep DEF RunInv

\* IGDB saying something new of an id keeps what it has said.
LEMMA PublishInv ==
  ASSUME ImportInv, NEW id \in Ids, Publish(id)
  PROVE  ImportInv'
<1>1. /\ latest[id] < Len(versions[id]) /\ latest' = [latest EXCEPT ![id] = @ + 1]
      /\ UNCHANGED <<configured, versions, target, pc, attempts, tx, catalog, began>>
  BY DEF Publish
<1>2. \A i \in Ids : versions[i] \in Seq(Payloads)
  BY ImportAssumption DEF ImportInv, TypeOK
<1>3. /\ latest' \in [Ids -> Nat]
      /\ \A i \in Ids : latest[i] <= latest'[i] /\ latest'[i] \in 1 .. Len(versions[i])
  BY <1>1, <1>2 DEF ImportInv, TypeOK
<1>4. TypeOK'
  BY <1>1, <1>3 DEF ImportInv, TypeOK, catalog
<1>5. \A i \in Ids : \A p : Served(p, i) => Served(p, i)'
  BY <1>1, <1>3 DEF Served, ImportInv, TypeOK
<1>6. CatalogInv'
  <2>1. Named' /\ OneGamePerId' /\ UniqueSlugs' /\ OnePayload'
    BY <1>1 DEF ImportInv, CatalogInv, Named, OneGamePerId, UniqueSlugs, OnePayload, catalog
  <2>2. Current'
    BY <1>1, <1>5 DEF ImportInv, CatalogInv, Current, TypeOK, catalog
  <2>3. QED BY <2>1, <2>2 DEF CatalogInv
<1>7. ASSUME NEW j \in Jobs PROVE RunInv(j)'
  <2>1. RunInv(j) /\ target[j] \in Ids
    BY DEF ImportInv, TypeOK
  <2>2. Open' = Open
    BY <1>1 DEF Open
  <2>3. Position(j)' /\ OwnGame(j)' /\ Reserved(j)'
    BY <1>1, <2>1, <2>2
       DEF RunInv, Position, OwnGame, Reserved, SlugTaken, ExternalTaken, GameOf, Wrote, catalog
  <2>4. Answer(j)' /\ Parent(j)' /\ Loop(j)'
    BY <1>1, <1>5, <2>1, <2>2 DEF RunInv, Answer, Parent, Loop, Passed, GameOf, catalog
  <2>5. QED BY <2>3, <2>4 DEF RunInv
<1>8. \A j \in Jobs : \A q \in Jobs \ {j} : Apart(j, q)'
  BY <1>1 DEF ImportInv, Apart, Wrote
<1>9. QED BY <1>4, <1>6, <1>7, <1>8 DEF ImportInv
-----------------------------------------------------------------------------
(* The commit.                                                             *)

\* What a commit publishes: the payload's row, links and media for the game of
\* the job's id, whose slug no other game has.
LEMMA CommitShape ==
  ASSUME ImportInv, NEW j \in Jobs, Commit(j), NEW g, g = tx[j].game, NEW p, p = tx[j].payload
  PROVE  /\ pc[j] = "commit" /\ j \in Open /\ UNCHANGED <<world, attempts, began>>
         /\ \E ok \in BOOLEAN : Return(j, ok)
         /\ g \in Jobs /\ target[g] = target[j] /\ games' = games \cup {g}
         /\ external' = external \cup {<<target[j], g>>}
         /\ row' = [row EXCEPT ![g] = p] /\ parentOf' = [parentOf EXCEPT ![g] = tx[j].parent]
         /\ links' = [links EXCEPT ![g] = LinksOf(p)] /\ media' = [media EXCEPT ![g] = p.media]
         /\ \/ g = j /\ g \notin games /\ Wrote(j, "external")
            \/ <<target[j], g>> \in external
         /\ Wrote(j, "slug")
<1>1. /\ pc[j] = "commit" /\ UNCHANGED <<world, attempts, began>> /\ RunInv(j)
      /\ \E ok \in BOOLEAN : Return(j, ok)
      /\ games' = games \cup {g} /\ row' = [row EXCEPT ![g] = p]
      /\ parentOf' = [parentOf EXCEPT ![g] = tx[j].parent]
  BY DEF Commit, InRun, ImportInv
<1>2. /\ j \in Open /\ tx[j].pend # {} /\ Wrote(j, "slug") /\ Wrote(j, "media")
      /\ Wrote(j, "external") <=> Wrote(j, "new")
      /\ Wrote(j, "new") <=> ~Wrote(j, "lock")
  BY <1>1 DEF RunInv, Position, OwnGame, Ended, Linking, Unwritten
<1>3. /\ Wrote(j, "new") => g = j /\ g \notin games
      /\ ~Wrote(j, "new") => <<target[j], g>> \in external
  BY <1>1, <1>2 DEF RunInv, OwnGame
<1>4. g \in Jobs /\ target[g] = target[j]
  BY <1>3 DEF ImportInv, TypeOK, CatalogInv, Named
<1>5. external' = external \cup {<<target[j], g>>}
  BY <1>2, <1>3 DEF Commit
<1>6. links' = [links EXCEPT ![g] = LinksOf(p)]
  <2>1. tx[j].cleared = TableNames /\ tx[j].linked = LinksOf(p)
    BY <1>1, <1>2 DEF RunInv, Loop, Linking
  <2>2. links' = [links EXCEPT ![g] = {l \in @ : l[1] \notin TableNames} \cup LinksOf(p)]
    BY <2>1 DEF Commit
  <2>3. \A l \in links[g] : l[1] \in TableNames
    BY <1>4 DEF ImportInv, TypeOK, Links
  <2>4. {l \in links[g] : l[1] \notin TableNames} \cup LinksOf(p) = LinksOf(p)
    BY <2>3
  <2>5. QED BY <2>2, <2>4
<1>7. media' = [media EXCEPT ![g] = p.media]
  BY <1>2 DEF Commit
<1>8. QED BY <1>1, <1>2, <1>3, <1>4, <1>5, <1>6, <1>7

\* Every open job sees its own reservations kept by another's commit.
LEMMA CommitKeepsOthers ==
  ASSUME ImportInv, NEW j \in Jobs, Commit(j), NEW q \in Jobs \ {j}
  PROVE  RunInv(q)'
<1> DEFINE g == tx[j].game
           p == tx[j].payload
<1>1. /\ pc[j] # "idle" /\ UNCHANGED <<world, attempts, began>>
      /\ games' = games \cup {g} /\ external' = external \cup {<<target[j], g>>}
      /\ row' = [row EXCEPT ![g] = p] /\ g \in Jobs /\ Wrote(j, "slug")
      /\ \/ g = j /\ g \notin games /\ Wrote(j, "external")
         \/ <<target[j], g>> \in external
  BY CommitShape
<1>2. /\ tx'[q] = tx[q] /\ pc'[q] = pc[q] /\ attempts'[q] = attempts[q] /\ began'[q] = began[q]
      /\ q \in Open <=> q \in Open'
  BY <1>1, CommitShape, ReturnShape DEF Open
<1>3. RunInv(q) /\ Apart(j, q) /\ external \subseteq Ids \X games
  BY DEF ImportInv, TypeOK
<1>4. row'[g] = p /\ \A h \in games \ {g} : row'[h] = row[h]
  BY <1>1 DEF ImportInv, TypeOK
<1> HIDE DEF g, p
<1>5. Position(q)'
  BY <1>2, <1>3 DEF RunInv, Position, Wrote
<1>6. OwnGame(q)'
  BY <1>1, <1>2, <1>3 DEF RunInv, OwnGame, Wrote, world
<1>7. Reserved(q)'
  <2>1. ASSUME Wrote(q, "slug") PROVE ~SlugTaken(q)'
    <3>1. p.slug # tx[q].payload.slug
      BY <1>1, <1>3, <2>1 DEF Apart, p
    <3>2. \A h \in games \ {tx[q].game} : row[h].slug # tx[q].payload.slug
      BY <1>3, <2>1 DEF RunInv, Reserved, SlugTaken
    <3>3. QED BY <1>1, <1>2, <1>4, <3>1, <3>2 DEF SlugTaken
  <2>2. ASSUME Wrote(q, "external") PROVE ~ExternalTaken(q)'
    <3>1. \A h \in games : <<target[q], h>> \notin external
      BY <1>3, <2>2 DEF RunInv, Reserved, ExternalTaken, GameOf
    <3>2. \A h : <<target[q], h>> \notin external
      BY <1>3, <3>1
    <3>3. \A h : <<target[q], h>> \notin external'
      BY <1>1, <1>3, <2>2, <3>2 DEF Apart
    <3>4. QED BY <1>1, <3>3 DEF ExternalTaken, GameOf, world
  <2>3. QED BY <1>2, <2>1, <2>2 DEF Reserved, Wrote
<1>8. Answer(q)' /\ Loop(q)'
  BY <1>1, <1>2, <1>3 DEF RunInv, Answer, Served, Loop, Passed, world
<1>9. Parent(q)'
  BY <1>1, <1>2, <1>3 DEF RunInv, Parent, GameOf
<1>10. QED BY <1>5, <1>6, <1>7, <1>8, <1>9 DEF RunInv

\* The catalog stays consistent.
LEMMA CommitCatalog ==
  ASSUME ImportInv, NEW j \in Jobs, Commit(j)
  PROVE  TypeOK' /\ CatalogInv'
<1> DEFINE g == tx[j].game
           p == tx[j].payload
<1>1. /\ pc[j] = "commit" /\ j \in Open /\ UNCHANGED <<world, attempts, began>>
      /\ g \in Jobs /\ target[g] = target[j] /\ games' = games \cup {g}
      /\ external' = external \cup {<<target[j], g>>}
      /\ row' = [row EXCEPT ![g] = p] /\ parentOf' = [parentOf EXCEPT ![g] = tx[j].parent]
      /\ links' = [links EXCEPT ![g] = LinksOf(p)] /\ media' = [media EXCEPT ![g] = p.media]
      /\ \/ g = j /\ g \notin games /\ Wrote(j, "external")
         \/ <<target[j], g>> \in external
      /\ Wrote(j, "slug")
  BY CommitShape
<1>2. /\ TypeOK /\ CatalogInv /\ RunInv(j) /\ target[j] \in Ids
      /\ p \in Payloads /\ p.id = target[j] /\ Served(p, target[j])
  BY <1>1, OpenPayload DEF ImportInv, TypeOK, RunInv, Answer
<1>3. tx' \in [Jobs -> Transactions] /\ pc' \in [Jobs -> Stages]
  BY <1>1, CommitShape, ReturnShape
<1>4. LinksOf(p) \in SUBSET Links
  BY <1>1, <1>2 DEF RunInv, Loop, TypeOK, Transactions, Linking
<1>5. tx[j].parent = None \/ <<p.parent, tx[j].parent>> \in external
  BY <1>1, <1>2 DEF RunInv, Parent, GameOf
<1> HIDE DEF g, p
<1>6. /\ row'[g] = p /\ links'[g] = LinksOf(p) /\ media'[g] = p.media /\ parentOf'[g] = tx[j].parent
      /\ \A h \in games \ {g} : /\ row'[h] = row[h] /\ links'[h] = links[h] /\ media'[h] = media[h]
                                /\ parentOf'[h] = parentOf[h]
  BY <1>1, <1>2 DEF TypeOK
<1>7. \A e \in external : e[1] \in Ids /\ e[2] \in games /\ e = <<e[1], e[2]>>
  BY <1>2 DEF TypeOK
<1>8. TypeOK'
  <2>1. tx[j].parent \in games \cup {None}
    BY <1>5, <1>7
  <2>2. games' \subseteq Jobs /\ external' \subseteq Ids \X games'
    BY <1>1, <1>2 DEF TypeOK
  <2>3. row' \in [Jobs -> Payloads \cup {None}] /\ links' \in [Jobs -> SUBSET Links] /\ DOMAIN media' = Jobs
    BY <1>1, <1>2, <1>4 DEF TypeOK
  <2>4. parentOf' \in [Jobs -> games' \cup {None}]
    BY <1>1, <1>2, <2>1 DEF TypeOK
  <2>5. QED BY <1>1, <1>2, <1>3, <2>2, <2>3, <2>4 DEF TypeOK, world
<1>9. Named'
  BY <1>1, <1>2, <1>7 DEF CatalogInv, Named, world
<1>10. Current'
  BY <1>1, <1>2, <1>6 DEF CatalogInv, Current, Served, world
<1>11. OneGamePerId'
  <2>1. games' = {e[2] : e \in external'}
    BY <1>1, <1>2 DEF CatalogInv, OneGamePerId
  <2>2. ASSUME <<target[j], g>> \notin external, NEW e \in external
        PROVE  e[1] # target[j] /\ e[2] # g
    <3>1. Wrote(j, "external") /\ g \notin games
      BY <1>1, <2>2
    <3>2. \A h \in games : <<target[j], h>> \notin external
      BY <1>2, <3>1 DEF RunInv, Reserved, ExternalTaken, GameOf
    <3>3. QED BY <1>7, <3>1, <3>2
  <2>3. QED BY <1>1, <1>2, <2>1, <2>2 DEF CatalogInv, OneGamePerId
<1>12. UniqueSlugs'
  <2>1. \A h \in games \ {g} : row[h].slug # p.slug
    BY <1>1, <1>2 DEF RunInv, Reserved, SlugTaken, g, p
  <2>2. QED BY <1>1, <1>2, <1>6, <2>1 DEF CatalogInv, UniqueSlugs
<1>13. OnePayload'
  <2> DEFINE Whole(h) ==
        /\ <<row'[h].id, h>> \in external' /\ links'[h] = LinksOf(row'[h])
        /\ media'[h] = row'[h].media
        /\ parentOf'[h] # None => <<row'[h].parent, parentOf'[h]>> \in external'
  <2>1. ASSUME NEW h \in games \ {g} PROVE Whole(h)
    BY <1>1, <1>2, <1>6 DEF CatalogInv, OnePayload
  <2>2. Whole(g)
    BY <1>1, <1>2, <1>5, <1>6
  <2>3. \A h \in games' : Whole(h)
    BY <1>1, <2>1, <2>2
  <2>4. OnePayload' <=> \A h \in games' : Whole(h)
    BY DEF OnePayload, LinksOf, LinksUpTo, RefsOf
  <2>5. QED BY <2>3, <2>4
<1>14. QED BY <1>8, <1>9, <1>10, <1>11, <1>12, <1>13 DEF CatalogInv

\* A commit keeps the invariant, reported or not.
LEMMA CommitInv ==
  ASSUME ImportInv, NEW j \in Jobs, Commit(j)
  PROVE  ImportInv'
<1>1. PICK ok \in BOOLEAN : Return(j, ok)
  BY CommitShape
<1>2. pc[j] # "idle" /\ UNCHANGED <<world, attempts>>
  BY CommitShape
<1>3. /\ \A q \in Jobs \ {j} : tx'[q] = tx[q]
      /\ RunInv(j)' /\ \A q \in Jobs \ {j} : Apart(j, q)' /\ Apart(q, j)'
  BY <1>1, <1>2, ReturnShape
<1>4. ASSUME NEW q \in Jobs, NEW s \in Jobs \ {q} PROVE Apart(q, s)'
  <2>1. CASE q # j /\ s # j
    BY <1>2, <1>3, <2>1 DEF ImportInv, Apart, Wrote, world
  <2>2. QED BY <1>3, <2>1
<1>5. \A q \in Jobs : RunInv(q)'
  BY <1>3, CommitKeepsOthers
<1>6. QED BY <1>4, <1>5, CommitCatalog DEF ImportInv

-----------------------------------------------------------------------------
(* The theorems.                                                           *)

\* Every step keeps the invariant.
LEMMA NextImportInv ==
  ASSUME ImportInv, [Next]_vars
  PROVE  ImportInv'
<1>1. ASSUME NEW j \in Jobs, Statement(j) PROVE ImportInv'
  BY <1>1, ResolveParentInv, LookupGameInv, LockGameInv, WriteSlugInv, ReferenceParentInv,
     InsertExternalInv, ClearLinksInv, LinkRefInv, NextTableInv, ImportGameMediaInv, CommitInv
     DEF Statement
<1>2. ASSUME NEW j \in Jobs, Fail(j) \/ Deadlock(j) PROVE ImportInv'
  <2>1. /\ j \in Open /\ Return(j, FALSE) /\ UNCHANGED <<world, attempts, began, catalog>>
    BY <1>2 DEF Fail, Deadlock
  <2>2. pc[j] # "idle"
    BY <2>1 DEF ImportInv, RunInv, Position
  <2>3. QED BY <2>1, <2>2, ReturnInv
<1>3. ASSUME UNCHANGED vars PROVE ImportInv'
  <2> USE <1>3 DEF vars, world, catalog
  <2>1. TypeOK' /\ Open' = Open
    BY DEF ImportInv, TypeOK, Open
  <2>2. CatalogInv'
    BY DEF ImportInv, CatalogInv, Named, Current, Served, OneGamePerId, UniqueSlugs, OnePayload
  <2>3. ASSUME NEW j \in Jobs PROVE RunInv(j)'
    <3>1. RunInv(j)
      BY DEF ImportInv
    <3>2. Position(j)' /\ OwnGame(j)' /\ Reserved(j)'
      BY <2>1, <3>1 DEF RunInv, Position, OwnGame, Reserved, SlugTaken, ExternalTaken, GameOf, Wrote
    <3>3. Answer(j)' /\ Parent(j)' /\ Loop(j)'
      BY <2>1, <3>1 DEF RunInv, Answer, Served, Parent, GameOf, Loop, Passed
    <3>4. QED BY <3>2, <3>3 DEF RunInv
  <2>4. \A j \in Jobs : \A q \in Jobs \ {j} : Apart(j, q)'
    BY DEF ImportInv, Apart, Wrote
  <2>5. QED BY <2>1, <2>2, <2>3, <2>4 DEF ImportInv
<1>4. QED BY <1>1, <1>2, <1>3, QueryInv, SkipInv, PublishInv DEF Next, Begin, Finished

\* The inductive invariant of the import: what a run has written and locked is its
\* own, and the catalog holds whole answers of IGDB only (ImportGame, Work).
THEOREM ImportInvHolds == Spec => []ImportInv
<1>1. QED BY InitImportInv, NextImportInv, PTL DEF Spec

\* The shape of every variable.
THEOREM ImportTypeCorrect == Spec => []TypeOK
<1>1. ImportInv => TypeOK
  BY DEF ImportInv
<1>2. QED BY <1>1, ImportInvHolds, PTL

\* However many imports of a game overlap, it gets one row (upsertGameRow and the
\* unique index of external_game_ids).
THEOREM OneGamePerIdHolds == Spec => []OneGamePerId
<1>1. ImportInv => OneGamePerId
  BY DEF ImportInv, CatalogInv
<1>2. QED BY <1>1, ImportInvHolds, PTL

\* No two games have one slug, however IGDB moves slugs between games.
THEOREM UniqueSlugsHold == Spec => []UniqueSlugs
<1>1. ImportInv => UniqueSlugs
  BY DEF ImportInv, CatalogInv
<1>2. QED BY <1>1, ImportInvHolds, PTL

\* Columns, links, media and parent of a game are of one payload (ImportGame runs
\* in one transaction, on a locked row).
THEOREM OnePayloadHolds == Spec => []OnePayload
<1>1. ImportInv => OnePayload
  BY DEF ImportInv, CatalogInv
<1>2. QED BY <1>1, ImportInvHolds, PTL

\* An import that began with its parent in the catalog commits a link to it.
THEOREM ParentResolvedHolds == Spec => ParentResolved
<1>1. ASSUME ImportInv, NEW j \in Jobs, Commit(j), began[j].parent
      PROVE  parentOf'[tx[j].game] # None
  <2> DEFINE g == tx[j].game
  <2>1. /\ pc[j] = "commit" /\ j \in Open /\ g \in Jobs
        /\ parentOf' = [parentOf EXCEPT ![g] = tx[j].parent]
    BY <1>1, CommitShape
  <2> HIDE DEF g
  <2>2. tx[j].parent # None
    BY <1>1, <2>1 DEF ImportInv, RunInv, Parent
  <2>3. QED BY <1>1, <2>1, <2>2 DEF ImportInv, TypeOK, g
<1>2. ImportInv /\ [Next]_vars
        => [\A j \in Jobs : Commit(j) /\ began[j].parent => parentOf'[tx[j].game] # None]_vars
  BY <1>1
<1>3. QED BY <1>2, ImportInvHolds, PTL DEF Spec, ParentResolved

\* No import commits a version older than the row had when its run began.
THEOREM NoRegressionHolds == Spec => NoRegression
<1>1. ASSUME ImportInv, NEW j \in Jobs, Commit(j)
      PROVE  row'[tx[j].game].version >= began[j].version
  <2> DEFINE g == tx[j].game
             p == tx[j].payload
  <2>1. j \in Open /\ g \in Jobs
    BY <1>1, CommitShape
  <2>2. row' = [row EXCEPT ![g] = p]
    BY <1>1 DEF Commit
  <2> HIDE DEF g, p
  <2>3. began[j].version <= p.version
    BY <1>1, <2>1 DEF ImportInv, RunInv, Answer, p
  <2>4. row'[g] = p
    BY <1>1, <2>1, <2>2 DEF ImportInv, TypeOK
  <2>5. p.version \in Nat /\ began[j].version \in Nat
    BY <1>1, <2>1, OpenPayload, ImportAssumption DEF ImportInv, TypeOK, p
  <2>6. QED BY <2>3, <2>4, <2>5 DEF g
<1>2. ImportInv /\ [Next]_vars
        => [\A j \in Jobs : Commit(j) => row'[tx[j].game].version >= began[j].version]_vars
  BY <1>1
<1>3. QED BY <1>2, ImportInvHolds, PTL DEF Spec, NoRegression
-----------------------------------------------------------------------------
(* The import keeps GameCatalog.                                           *)

\* Pairs of ids and rows that determine each other give an id its row and back.
LEMMA OnlyRow ==
  ASSUME NEW G, NEW E \in SUBSET (Ids \X G), \A e, f \in E : e[1] = f[1] <=> e[2] = f[2],
         NEW id \in Ids, NEW g \in G, <<id, g>> \in E
  PROVE  /\ {h \in G : <<id, h>> \in E} = {g}
         /\ (CHOOSE i \in Ids : <<i, g>> \in E) = id
<1>1. \A h \in G : <<id, h>> \in E => h = g
  OBVIOUS
<1>2. \A i \in Ids : <<i, g>> \in E => i = id
  OBVIOUS
<1>3. QED BY <1>1, <1>2

\* The row of an id that has one, and its id again.
LEMMA KeyOfGame ==
  ASSUME ImportInv, NEW id \in Ids, NEW g, <<id, g>> \in external
  PROVE  /\ g \in games /\ g # None /\ GameOf(id) = {g}
         /\ KeyOf(id) = g /\ IdOf(g) = id
<1>1. g \in games /\ games \subseteq Jobs /\ external \in SUBSET (Ids \X games)
  BY DEF ImportInv, TypeOK
<1>2. \A e, f \in external : e[1] = f[1] <=> e[2] = f[2]
  BY DEF ImportInv, CatalogInv, OneGamePerId
<1>3. GameOf(id) = {g} /\ (CHOOSE i \in Ids : <<i, g>> \in external) = id
  BY <1>1, <1>2, OnlyRow DEF GameOf
<1>4. g # None
  BY <1>1, ImportAssumption
<1>5. QED BY <1>1, <1>3, <1>4 DEF KeyOf, IdOf

\* The same after a commit.
LEMMA KeyOfGameNext ==
  ASSUME TypeOK', CatalogInv', NEW id \in Ids, NEW g, <<id, g>> \in external'
  PROVE  g # None /\ KeyOf(id)' = g /\ IdOf(g)' = id
<1>1. g \in games' /\ games' \subseteq Jobs /\ external' \in SUBSET (Ids \X games')
  BY DEF TypeOK
<1>2. \A e, f \in external' : e[1] = f[1] <=> e[2] = f[2]
  BY DEF CatalogInv, OneGamePerId
<1>3. GameOf(id)' = {g} /\ (CHOOSE i \in Ids : <<i, g>> \in external') = id
  BY <1>1, <1>2, OnlyRow DEF GameOf
<1>4. g # None
  BY <1>1, ImportAssumption
<1>5. QED BY <1>1, <1>3, <1>4 DEF KeyOf, IdOf

\* An id without a row has no key, one with a key has the row.
LEMMA KeyCases ==
  ASSUME ImportInv, NEW id \in Ids
  PROVE  \/ KeyOf(id) = None /\ \A g \in games : <<id, g>> \notin external
         \/ KeyOf(id) \in games /\ KeyOf(id) # None /\ <<id, KeyOf(id)>> \in external
<1>1. CASE GameOf(id) = {}
  BY <1>1 DEF KeyOf, GameOf
<1>2. CASE GameOf(id) # {}
  <2>1. PICK g \in games : <<id, g>> \in external
    BY <1>2 DEF GameOf
  <2>2. QED BY <2>1, KeyOfGame
<1>3. QED BY <1>1, <1>2

\* Every row of the catalog has an id.
LEMMA IdCases ==
  ASSUME ImportInv, NEW g \in games
  PROVE  \E id \in Ids : <<id, g>> \in external
<1>1. PICK e \in external : g = e[2]
  BY DEF ImportInv, CatalogInv, OneGamePerId
<1>2. e[1] \in Ids /\ e = <<e[1], e[2]>>
  BY DEF ImportInv, TypeOK
<1>3. QED BY <1>1, <1>2

\* A commit is one whole import of the game of the job's id.
LEMMA CommitImports ==
  ASSUME ImportInv, NEW j \in Jobs, Commit(j),
         NEW id, id = target[j], NEW g, g = tx[j].game,
         NEW p, p = tx[j].payload, NEW linked, linked = tx[j].parent
  PROVE  Catalog!Next
<1>1. /\ pc[j] = "commit" /\ j \in Open /\ UNCHANGED <<world, attempts, began>>
      /\ g \in Jobs /\ games' = games \cup {g}
      /\ external' = external \cup {<<id, g>>}
      /\ row' = [row EXCEPT ![g] = p] /\ parentOf' = [parentOf EXCEPT ![g] = linked]
      /\ links' = [links EXCEPT ![g] = LinksOf(p)] /\ media' = [media EXCEPT ![g] = p.media]
      /\ \/ g = j /\ g \notin games /\ Wrote(j, "external")
         \/ <<id, g>> \in external
      /\ Wrote(j, "slug")
  BY CommitShape
<1>2. /\ TypeOK /\ RunInv(j) /\ id \in Ids /\ Served(p, id) /\ TypeOK' /\ CatalogInv'
      /\ external \subseteq Ids \X games
  BY <1>1, OpenPayload, CommitCatalog DEF ImportInv, TypeOK, RunInv, Answer
<1>3. linked # None => linked \in games /\ p.parent \in Ids /\ <<p.parent, linked>> \in external
  BY <1>1, <1>2 DEF RunInv, Parent, GameOf
<1>4. \A h \in games \ {g} : row[h].slug # p.slug
  BY <1>1, <1>2 DEF RunInv, Reserved, SlugTaken
<1>5. ~(<<id, g>> \in external) => g \notin games /\ \A h \in games : <<id, h>> \notin external
  BY <1>1, <1>2 DEF RunInv, Reserved, ExternalTaken, GameOf
<1>6. /\ row'[g] = p /\ links'[g] = LinksOf(p) /\ media'[g] = p.media /\ parentOf'[g] = linked
      /\ \A h \in games \ {g} : /\ row'[h] = row[h] /\ links'[h] = links[h] /\ media'[h] = media[h]
                                /\ parentOf'[h] = parentOf[h]
  BY <1>1, <1>2 DEF TypeOK
<1>7. KeyOf(id)' = g /\ g # None
  BY <1>1, <1>2, KeyOfGameNext
<1>8. ASSUME NEW h \in games \cup {None} PROVE IdOf(h)' = IdOf(h)
  <2>1. CASE h \in games
    <3>1. PICK i \in Ids : <<i, h>> \in external
      BY <2>1, IdCases
    <3>2. IdOf(h) = i
      BY <3>1, KeyOfGame
    <3>3. IdOf(h)' = i
      BY <1>1, <1>2, <3>1, KeyOfGameNext
    <3>4. QED BY <3>2, <3>3
  <2>2. CASE h = None
    BY <2>2 DEF IdOf
  <2>3. QED BY <2>1, <2>2
<1>9. ASSUME NEW other \in Ids \ {id}
      PROVE  /\ KeyOf(other)' = KeyOf(other) /\ KeyOf(other) # g
             /\ KeyOf(other) # None => KeyOf(other) \in games
  <2>1. CASE KeyOf(other) = None /\ \A h \in games : <<other, h>> \notin external
    <3>1. \A h \in games' : <<other, h>> \notin external'
      BY <1>1, <1>2, <2>1
    <3>2. GameOf(other)' = {}
      BY <3>1 DEF GameOf
    <3>3. QED BY <1>7, <2>1, <3>2 DEF KeyOf
  <2>2. CASE KeyOf(other) \in games /\ <<other, KeyOf(other)>> \in external
    <3>1. KeyOf(other)' = KeyOf(other) /\ IdOf(KeyOf(other)) = other
      BY <1>1, <1>2, <2>2, KeyOfGame, KeyOfGameNext
    <3>2. <<id, g>> \in external => IdOf(g) = id
      BY <1>2, KeyOfGame
    <3>3. QED BY <1>5, <2>2, <3>1, <3>2
  <2>3. QED BY <2>1, <2>2, KeyCases
<1>10. ASSUME NEW other \in Ids \ {id} PROVE ShownOf(other)' = ShownOf(other)
  <2>1. CASE KeyOf(other) = None
    BY <1>9, <2>1 DEF ShownOf
  <2>2. CASE KeyOf(other) # None
    <3>1. PICK h \in games \ {g} : h = KeyOf(other) /\ KeyOf(other)' = h
      BY <1>9, <2>2
    <3>2. PICK u \in games \cup {None} : parentOf[h] = u /\ parentOf'[h] = u
      BY <1>2, <1>6, <3>1 DEF TypeOK
    <3>3. IdOf(u)' = IdOf(u)
      BY <1>8, <3>2
    <3>4. IdOf(parentOf[h])' = IdOf(u) /\ IdOf(parentOf[h]) = IdOf(u)
      BY <3>2, <3>3 DEF IdOf
    <3>5. QED BY <1>6, <2>2, <3>1, <3>4 DEF ShownOf, Description
  <2>3. QED BY <2>1, <2>2
<1>11. PICK parent : /\ parent = IdOf(linked) /\ parent \in {p.parent, None}
                     /\ parent # None => KeyOf(parent) # None /\ parent \in Ids
  <2>1. CASE linked = None
    BY <2>1 DEF IdOf
  <2>2. CASE linked # None
    BY <1>3, <2>2, KeyOfGame
  <2>3. QED BY <2>1, <2>2
<1>12. ShownOf(id)' = [Described(p) EXCEPT !.parent = parent]
  <2>1. IdOf(linked)' = parent
    BY <1>3, <1>8, <1>11
  <2>2. IdOf(parentOf[g])' = parent
    BY <1>6, <2>1 DEF IdOf
  <2>3. QED BY <1>6, <1>7, <2>2 DEF ShownOf, Described, Description
<1>13. Described(p) \in SaidOf(id) /\ \A i \in Ids : SaidOf(i)' = SaidOf(i)
  <2>1. PICK v \in 1 .. latest[id] : p = versions[id][v]
    BY <1>2 DEF Served
  <2>2. Described(p) \in SaidOf(id)
    BY <2>1 DEF SaidOf
  <2>3. UNCHANGED <<versions, latest>>
    BY <1>1 DEF world
  <2>4. QED BY <2>2, <2>3 DEF SaidOf
<1>14. ASSUME NEW other \in Ids \ {id}, KeyOf(other) # None
       PROVE  ShownOf(other).slug # Described(p).slug
  <2>1. KeyOf(other) \in games \ {g}
    BY <1>9, <1>14
  <2>2. QED BY <1>4, <1>14, <2>1 DEF ShownOf, Described, Description
<1>15. IF KeyOf(id) = None THEN \A other \in Ids : g # KeyOf(other) ELSE g = KeyOf(id)
  <2>1. CASE <<id, g>> \in external
    BY <1>2, <2>1, KeyOfGame
  <2>2. CASE <<id, g>> \notin external
    BY <1>2, <1>5, <1>7, <1>9, <2>2, KeyCases
  <2>3. QED BY <2>1, <2>2
<1> DEFINE d == Described(p)
           said == [i \in Ids |-> SaidOf(i)]
           shown == [i \in Ids |-> ShownOf(i)]
           game == [i \in Ids |-> KeyOf(i)]
<1>16. shown' = [shown EXCEPT ![id] = [d EXCEPT !.parent = parent]]
  BY <1>2, <1>10, <1>12
<1>17. game' = [game EXCEPT ![id] = g] /\ said' = said
  BY <1>2, <1>7, <1>9, <1>13
<1>18. Catalog!Import(id, d, parent, g)
  <2>1. Catalog!Key(id, g)
    BY <1>2, <1>15 DEF Catalog!Key
  <2>2. Catalog!Linkable(parent)
    BY <1>11 DEF Catalog!Linkable
  <2>3. \A other \in Ids \ {id} : game[other] # None => shown[other].slug # d.slug
    BY <1>14
  <2>4. QED BY <1>16, <1>17, <2>1, <2>2, <2>3 DEF Catalog!Import
<1>19. d \in said[id] /\ parent \in {d.parent, None}
  BY <1>2, <1>11, <1>13 DEF Described, Description
<1>20. QED BY <1>1, <1>2, <1>18, <1>19 DEF Catalog!Next

\* A step that leaves the tables and IGDB alone is not seen.
LEMMA Unseen ==
  ASSUME UNCHANGED <<catalog, versions, latest>>
  PROVE  UNCHANGED Catalog!vars
BY DEF catalog, Catalog!vars, SaidOf, Described, Description, LinksOf, LinksUpTo, RefsOf,
       ShownOf, KeyOf, IdOf, GameOf

\* Publish adds one description of one game.
LEMMA PublishSays ==
  ASSUME TypeOK, NEW id \in Ids, Publish(id)
  PROVE  Catalog!Next
<1> DEFINE d == Described(versions[id][latest[id] + 1])
           said == [i \in Ids |-> SaidOf(i)]
<1>1. /\ latest \in [Ids -> Nat] /\ latest' = [latest EXCEPT ![id] = @ + 1]
      /\ latest[id] \in Nat /\ versions' = versions /\ UNCHANGED catalog
  BY DEF Publish, TypeOK
<1>2. \A i \in Ids : SaidOf(i)' = {Described(versions[i][v]) : v \in 1 .. latest'[i]}
  BY <1>1 DEF SaidOf, Described, Description, LinksOf, LinksUpTo, RefsOf
<1>3. SaidOf(id)' = SaidOf(id) \cup {d}
  <2>1. 1 .. latest'[id] = (1 .. latest[id]) \cup {latest[id] + 1}
    BY <1>1
  <2>2. QED BY <1>2, <2>1 DEF SaidOf
<1>4. \A i \in Ids \ {id} : SaidOf(i)' = SaidOf(i)
  BY <1>1, <1>2 DEF SaidOf
<1>5. said' = [said EXCEPT ![id] = @ \cup {d}] /\ d \in said'[id]
  BY <1>3, <1>4
<1>6. \A i \in Ids : KeyOf(i)' = KeyOf(i) /\ ShownOf(i)' = ShownOf(i)
  BY <1>1 DEF catalog, ShownOf, Description, KeyOf, IdOf, GameOf
<1> HIDE DEF d
<1>7. Catalog!Say(id, d)
  BY <1>5, <1>6 DEF Catalog!Say
<1>8. QED BY <1>5, <1>7 DEF Catalog!Next

\* Each step is one of GameCatalog's or is not seen by the catalog's readers.
LEMMA NextKeepsCatalog ==
  ASSUME ImportInv, [Next]_vars
  PROVE  [Catalog!Next]_(Catalog!vars)
<1>1. ASSUME NEW j \in Jobs, Statement(j) PROVE [Catalog!Next]_(Catalog!vars)
  <2>1. CASE Commit(j)
    BY <2>1, CommitImports
  <2>2. CASE ~Commit(j)
    <3>1. UNCHANGED <<catalog, versions, latest>>
      BY <1>1, <2>2 DEF Statement, ResolveParent, LookupGame, LockGame, WriteSlug, ReferenceParent,
         InsertExternal, ClearLinks, LinkRef, NextTable, ImportGameMedia, Step, InRun, world
    <3>2. QED BY <3>1, Unseen
  <2>3. QED BY <2>1, <2>2
<1>2. ASSUME NEW j \in Jobs, Begin(j) \/ Fail(j) \/ Deadlock(j) PROVE UNCHANGED Catalog!vars
  BY <1>2, Unseen DEF Begin, SkipUnconfigured, Query, Run, Fail, Deadlock, world
<1>3. ASSUME NEW id \in Ids, Publish(id) PROVE Catalog!Next
  BY <1>3, PublishSays DEF ImportInv
<1>4. ASSUME UNCHANGED vars PROVE UNCHANGED Catalog!vars
  BY <1>4, Unseen DEF vars, world
<1>5. QED BY <1>1, <1>2, <1>3, <1>4 DEF Next, Finished

\* Statement by statement, concurrent imports implement GameCatalog: the catalog's
\* readers see whole imports (ImportGame's transaction, the two unique indexes).
THEOREM KeepsCatalogHolds == Spec => KeepsCatalog
<1>1. Init => Catalog!Init
  BY DEF Init, Catalog!Init, ShownOf, KeyOf, GameOf
<1>2. ImportInv /\ [Next]_vars => [Catalog!Next]_(Catalog!vars)
  BY NextKeepsCatalog
<1>3. QED BY <1>1, <1>2, ImportInvHolds, PTL DEF Spec, KeepsCatalog, Catalog!Spec

-----------------------------------------------------------------------------
(* Imports of one game do not deadlock.                                    *)

\* A game that is new to the catalog has not been found as its own parent.
ForeignParent == \A j \in Jobs :
  Wrote(j, "new") /\ tx[j].parent # None => tx[j].payload.parent # target[j]

\* Enough for a step that changes one transaction: the new one has no such parent.
LEMMA ForeignAfter ==
  ASSUME TypeOK, ForeignParent, NEW j \in Jobs, NEW t, tx' = [tx EXCEPT ![j] = t],
         "new" \in t.pend /\ t.parent # None => t.payload.parent # target[j], target' = target
  PROVE  ForeignParent'
BY DEF TypeOK, ForeignParent, Wrote

\* LookupGame finds no row of the id, and so the parent it found is another game.
LEMMA ForeignLookup ==
  ASSUME ImportInv, ForeignParent, NEW j \in Jobs, LookupGame(j)
  PROVE  ForeignParent'
<1>1. /\ pc[j] = "lookupGame" /\ target' = target /\ TypeOK /\ RunInv(j) /\ tx[j] \in Transactions
  BY DEF LookupGame, InRun, world, ImportInv, TypeOK
<1>2. tx[j].pend = {} /\ (tx[j].parent # None => tx[j].parent \in GameOf(tx[j].payload.parent))
  BY <1>1 DEF RunInv, Position, Parent, Unwritten, Ended
<1>3. CASE GameOf(target[j]) = {} /\ Step(j, [tx[j] EXCEPT !.game = j, !.pend = {"new"}], "slugKey")
  BY <1>1, <1>2, <1>3, ForeignAfter DEF Step, Transactions
<1>4. ASSUME NEW g \in GameOf(target[j]), Step(j, [tx[j] EXCEPT !.game = g], "lockGame")
      PROVE  ForeignParent'
  BY <1>1, <1>2, <1>4, ForeignAfter DEF Step, Transactions
<1>5. QED BY <1>3, <1>4 DEF LookupGame

\* The other statements leave payload, parent and "new" as they are, or end the run.
LEMMA ForeignStatement ==
  ASSUME ImportInv, ForeignParent, NEW j \in Jobs, Statement(j), ~LookupGame(j)
  PROVE  ForeignParent'
<1> DEFINE Same(t) == /\ "new" \in t.pend => "new" \in tx[j].pend
                      /\ t.parent = tx[j].parent /\ t.payload = tx[j].payload
<1>1. TypeOK /\ RunInv(j) /\ tx[j] \in Transactions /\ target' = target
  BY DEF ImportInv, TypeOK, Statement, ResolveParent, LockGame, WriteSlug, ReferenceParent,
     InsertExternal, ClearLinks, LinkRef, NextTable, ImportGameMedia, Commit, InRun, world
<1>2. ASSUME NEW t, Same(t), tx' = [tx EXCEPT ![j] = t] PROVE ForeignParent'
  BY <1>1, <1>2, ForeignAfter DEF ForeignParent, Wrote
<1>3. ASSUME NEW ok, Return(j, ok) PROVE ForeignParent'
  BY <1>1, <1>3, ForeignAfter, NoTxShape DEF Return
<1>4. CASE ResolveParent(j)
  <2>1. tx[j].pend = {}
    BY <1>1, <1>4 DEF ResolveParent, InRun, RunInv, Position, Unwritten, Ended
  <2>2. CASE Step(j, tx[j], "lookupGame")
    BY <1>2, <2>2 DEF Step
  <2>3. ASSUME NEW g, Step(j, [tx[j] EXCEPT !.parent = g], "lookupGame") PROVE ForeignParent'
    BY <1>1, <2>1, <2>3, ForeignAfter DEF Step, Transactions
  <2>4. QED BY <1>4, <2>2, <2>3 DEF ResolveParent
<1>5. CASE LockGame(j) \/ WriteSlug(j) \/ ReferenceParent(j) \/ InsertExternal(j) \/ ImportGameMedia(j)
  <2>1. \/ \E ok \in BOOLEAN : Return(j, ok)
        \/ \E rows \in SUBSET (Pending \ {"new"}) : tx' = [tx EXCEPT ![j] = [tx[j] EXCEPT !.pend = @ \cup rows]]
    <3>1. CASE LockGame(j) \/ ImportGameMedia(j)
      BY <3>1 DEF LockGame, ImportGameMedia, Step, Pending
    <3>2. CASE WriteSlug(j) \/ InsertExternal(j)
      BY <3>2 DEF WriteSlug, InsertExternal, Step, Pending
    <3>3. CASE ReferenceParent(j)
      BY <3>3 DEF ReferenceParent, Step, Pending
    <3>4. QED BY <1>5, <3>1, <3>2, <3>3
  <2>2. ASSUME NEW rows \in SUBSET (Pending \ {"new"}),
               tx' = [tx EXCEPT ![j] = [tx[j] EXCEPT !.pend = @ \cup rows]]
        PROVE  ForeignParent'
    <3>1. Same([tx[j] EXCEPT !.pend = @ \cup rows])
      BY <1>1 DEF Transactions
    <3>2. QED BY <1>2, <2>2, <3>1
  <2>3. QED BY <1>3, <2>1, <2>2
<1>6. CASE ClearLinks(j) \/ LinkRef(j) \/ NextTable(j)
  <2>1. CASE ClearLinks(j)
    <3> DEFINE t == [tx[j] EXCEPT !.cleared = @ \cup {Tables[tx[j].table]},
                                  !.todo = tx[j].payload.refs[tx[j].table]]
    <3>1. tx' = [tx EXCEPT ![j] = t]
      BY <2>1 DEF ClearLinks, Step
    <3>2. Same(t)
      BY <1>1 DEF Transactions
    <3>3. QED BY <1>2, <3>1, <3>2
  <2>2. CASE LinkRef(j)
    <3> DEFINE t == [tx[j] EXCEPT !.linked = @ \cup {<<Tables[tx[j].table], Head(tx[j].todo)>>},
                                  !.todo = Tail(@)]
    <3>1. tx' = [tx EXCEPT ![j] = t]
      BY <2>2 DEF LinkRef, Step
    <3>2. Same(t)
      BY <1>1 DEF Transactions
    <3>3. QED BY <1>2, <3>1, <3>2
  <2>3. CASE NextTable(j)
    <3>1. tx' = [tx EXCEPT ![j] = [tx[j] EXCEPT !.table = @ + 1]] \/ tx' = [tx EXCEPT ![j] = tx[j]]
      BY <2>3 DEF NextTable, Step
    <3>2. Same([tx[j] EXCEPT !.table = @ + 1])
      BY <1>1 DEF Transactions
    <3>3. QED BY <1>2, <3>1, <3>2
  <2>4. QED BY <1>6, <2>1, <2>2, <2>3
<1>7. CASE Commit(j)
  BY <1>3, <1>7 DEF Commit
<1>8. QED BY <1>4, <1>5, <1>6, <1>7 DEF Statement

\* ForeignParent holds in every reachable state.
LEMMA ForeignParentHolds == Spec => []ForeignParent
<1>1. Init => ForeignParent
  BY NoTxShape DEF Init, ForeignParent, Wrote
<1>2. ASSUME ImportInv, ForeignParent, [Next]_vars PROVE ForeignParent'
  <2>1. ASSUME NEW j \in Jobs, Statement(j) PROVE ForeignParent'
    BY <1>2, <2>1, ForeignLookup, ForeignStatement
  <2>2. ASSUME NEW j \in Jobs, Query(j) PROVE ForeignParent'
    <3>1. TypeOK /\ target' = target
      BY <1>2, <2>2 DEF ImportInv, Query, Run, world
    <3> DEFINE t == [NoTx EXCEPT !.payload = versions[target[j]][latest[target[j]]]]
    <3>2. tx' = [tx EXCEPT ![j] = t]
      BY <2>2 DEF Query, Run
    <3>3. t.pend = {}
      BY DEF NoTx
    <3>4. QED BY <1>2, <3>1, <3>2, <3>3, ForeignAfter
  <2>3. ASSUME NEW j \in Jobs, Fail(j) \/ Deadlock(j) PROVE ForeignParent'
    BY <1>2, <2>3, ForeignAfter, NoTxShape DEF Fail, Deadlock, Return, ImportInv, world
  <2>4. CASE tx' = tx /\ target' = target
    BY <1>2, <2>4 DEF ForeignParent, Wrote
  <2>5. ASSUME NEW j \in Jobs, SkipUnconfigured(j) PROVE tx' = tx /\ target' = target
    BY <2>5 DEF SkipUnconfigured, world
  <2>6. ASSUME NEW id \in Ids, Publish(id) PROVE tx' = tx /\ target' = target
    BY <2>6 DEF Publish
  <2>7. UNCHANGED vars => tx' = tx /\ target' = target
    BY DEF vars, world
  <2>8. QED BY <1>2, <2>1, <2>2, <2>3, <2>4, <2>5, <2>6, <2>7 DEF Next, Begin, Finished
<1>3. QED BY <1>1, <1>2, ImportInvHolds, PTL DEF Spec

\* At most one import of a game has locked its row, and none inserts it meanwhile;
\* nor do two insert it.
LEMMA OneWriter ==
  ASSUME ImportInv, NEW j \in Jobs, NEW q \in Jobs \ {j}, target[q] = target[j]
  PROVE  /\ ~(Wrote(j, "lock") /\ Wrote(q, "lock"))
         /\ ~(Wrote(j, "lock") /\ Wrote(q, "external"))
         /\ ~(Wrote(j, "external") /\ Wrote(q, "external"))
<1>1. /\ RunInv(j) /\ RunInv(q) /\ Apart(j, q) /\ OneGamePerId /\ external \subseteq Ids \X games
  BY DEF ImportInv, CatalogInv, TypeOK
<1>2. Wrote(j, "lock") => <<target[j], tx[j].game>> \in external
  BY <1>1 DEF RunInv, OwnGame
<1>3. Wrote(q, "lock") => <<target[j], tx[q].game>> \in external
  BY <1>1 DEF RunInv, OwnGame
<1>4. ASSUME Wrote(j, "lock"), Wrote(q, "lock") PROVE FALSE
  BY <1>1, <1>2, <1>3, <1>4 DEF OneGamePerId, Apart
<1>5. ASSUME Wrote(j, "lock"), Wrote(q, "external") PROVE FALSE
  <2>1. tx[j].game \in GameOf(target[q])
    BY <1>1, <1>2, <1>5 DEF GameOf
  <2>2. QED BY <1>1, <1>5, <2>1 DEF RunInv, Reserved, ExternalTaken
<1>6. ~(Wrote(j, "external") /\ Wrote(q, "external"))
  BY <1>1 DEF Apart
<1>7. QED BY <1>4, <1>5, <1>6

\* What an import that waits for another of its own game waits for.
LEMMA RivalWaits ==
  ASSUME ImportInv, ForeignParent, NEW j \in Jobs, NEW q \in Rivals(j)
  PROVE  /\ q \in Jobs \ {j} /\ target[q] = target[j]
         /\ \/ pc[j] = "lockGame" /\ Wrote(q, "lock")
            \/ pc[j] = "slugKey" /\ (Wrote(q, "slug") \/ Wrote(q, "lock"))
            \/ pc[j] = "external" /\ Wrote(q, "external")
<1>1. q \in Jobs \ {j} /\ q \in Open /\ target[q] = target[j]
  BY DEF Rivals, WaitsFor, Open
<1>2. RunInv(j) /\ RunInv(q) /\ OneGamePerId /\ target[j] \in Ids
  BY <1>1 DEF ImportInv, CatalogInv, TypeOK
<1>3. ASSUME NEW r \in Open, target[r] = target[j], Wrote(r, "new"), NEW g, g = tx[r].parent,
             <<target[j], g>> \in external, g # None
      PROVE  FALSE
  <2>1. RunInv(r) /\ tx[r].payload.parent # target[j]
    BY <1>3 DEF ImportInv, ForeignParent, Open
  <2>2. <<tx[r].payload.parent, g>> \in external
    BY <1>3, <2>1 DEF RunInv, Parent, GameOf
  <2>3. QED BY <1>2, <1>3, <2>1, <2>2 DEF OneGamePerId
<1>4. CASE pc[j] = "lockGame" /\ BlocksRow(q, j)
  <2>1. <<target[j], tx[j].game>> \in external /\ tx[j].game # None
    BY <1>2, <1>4, KeyOfGame DEF RunInv, OwnGame
  <2>2. ASSUME ~Wrote(q, "lock") PROVE FALSE
    <3>1. Wrote(q, "parent") /\ tx[q].parent = tx[j].game
      BY <1>4, <2>2 DEF BlocksRow
    <3>2. Wrote(q, "new")
      BY <1>2, <2>2, <3>1 DEF RunInv, OwnGame, Wrote
    <3>3. QED BY <1>1, <1>3, <2>1, <3>1, <3>2
  <2>3. QED BY <1>1, <1>4, <2>2
<1>5. CASE pc[j] = "slugKey" /\ BlocksSlug(q, j)
  BY <1>1, <1>5 DEF BlocksSlug, SlugsOf
<1>6. CASE pc[j] = "parentKey" /\ BlocksParent(q, j)
  <2>1. Wrote(q, "lock") /\ tx[q].game = tx[j].parent /\ tx[j].parent # None
    BY <1>6 DEF BlocksParent, ChecksParent
  <2>2. <<target[j], tx[j].parent>> \in external
    BY <1>1, <1>2, <2>1 DEF RunInv, OwnGame
  <2>3. j \in Open /\ ~Wrote(j, "lock")
    BY <1>1, <1>2, <1>6, <2>1, OneWriter DEF RunInv, Position, Ended
  <2>4. Wrote(j, "new")
    BY <1>2, <1>6, <2>3 DEF RunInv, OwnGame, Position, Unwritten, Ended
  <2>5. QED BY <1>3, <2>1, <2>2, <2>3, <2>4
<1>7. CASE pc[j] = "external" /\ BlocksExternal(q, j)
  BY <1>1, <1>7 DEF BlocksExternal
<1>8. CASE pc[j] = "refs" /\ BlocksRef(q, j)
  <2>1. tx[q].linked # {}
    BY <1>8 DEF BlocksRef, RowsOf
  <2>2. pc[q] \in Linking
    BY <1>1, <1>2, <2>1 DEF RunInv, Loop
  <2>3. ASSUME NEW r \in {j, q} PROVE Wrote(r, "lock") \/ Wrote(r, "external")
    BY <1>1, <1>2, <1>8, <2>2 DEF RunInv, Position, OwnGame, Linking, Unwritten, Ended
  <2>4. QED BY <1>1, <2>3, OneWriter
<1>9. QED BY <1>4, <1>5, <1>6, <1>7, <1>8 DEF Rivals, WaitsFor

\* However many imports of one game run at once, they never deadlock among
\* themselves (upsertGameRow writes its row, slug and external id in one order).
THEOREM NoSelfDeadlockHolds == Spec => []NoSelfDeadlock
<1>1. ASSUME ImportInv, ForeignParent PROVE NoSelfDeadlock
  <2> SUFFICES ASSUME NEW j \in Jobs, NEW q \in Rivals(j), NEW p \in Rivals(q), NEW o \in Rivals(p)
               PROVE  FALSE
    BY DEF NoSelfDeadlock
  <2>1. /\ q \in Jobs /\ p \in Jobs /\ o \in Jobs /\ q # p /\ p # o
        /\ target[p] = target[q] /\ target[o] = target[q]
    BY <1>1, RivalWaits
  <2>2. \/ pc[j] = "lockGame" /\ Wrote(q, "lock")
        \/ pc[j] = "slugKey" /\ (Wrote(q, "slug") \/ Wrote(q, "lock"))
        \/ pc[j] = "external" /\ Wrote(q, "external")
    BY <1>1, RivalWaits
  <2>3. \/ pc[q] = "lockGame" /\ Wrote(p, "lock")
        \/ pc[q] = "slugKey" /\ (Wrote(p, "slug") \/ Wrote(p, "lock"))
        \/ pc[q] = "external" /\ Wrote(p, "external")
    BY <1>1, <2>1, RivalWaits
  <2>4. \/ pc[p] = "lockGame" /\ Wrote(o, "lock")
        \/ pc[p] = "slugKey" /\ (Wrote(o, "slug") \/ Wrote(o, "lock"))
        \/ pc[p] = "external" /\ Wrote(o, "external")
    BY <1>1, <2>1, RivalWaits
  <2>5. ASSUME NEW r \in {q, p}
        PROVE  /\ pc[r] = "lockGame" => ~Wrote(r, "slug") /\ ~Wrote(r, "lock") /\ ~Wrote(r, "external")
               /\ pc[r] = "slugKey" => ~Wrote(r, "slug") /\ ~Wrote(r, "external")
               /\ pc[r] = "external" => ~Wrote(r, "lock") /\ ~Wrote(r, "external")
    <3>1. RunInv(r)
      BY <1>1, <2>1 DEF ImportInv
    <3>2. Position(r) /\ OwnGame(r)
      BY <3>1 DEF RunInv
    <3>3. QED BY <3>2 DEF Position, OwnGame, Wrote, Linking, Unwritten
  <2>6. pc[q] = "slugKey" /\ Wrote(q, "lock")
    BY <2>2, <2>3, <2>4, <2>5
  <2>7. CASE Wrote(p, "lock")
    BY <1>1, <2>1, <2>6, <2>7, OneWriter
  <2>8. CASE Wrote(o, "external")
    <3>1. o # q
      BY <2>5, <2>6, <2>8
    <3>2. QED BY <1>1, <2>1, <2>6, <2>8, <3>1, OneWriter
  <2>9. QED BY <2>3, <2>4, <2>5, <2>6, <2>7, <2>8
<1>2. QED BY <1>1, ImportInvHolds, ForeignParentHolds, PTL
=============================================================================
