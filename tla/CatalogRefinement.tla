------------------------- MODULE CatalogRefinement -------------------------
(***************************************************************************)
(* The import keeps the game catalog: the committed tables of              *)
(* CatalogImport, read as the descriptions of GameCatalog.                 *)
(***************************************************************************)
EXTENDS CatalogImport

Description(p, linked, pictures, parent) ==
  [slug |-> p.slug, columns |-> p, links |-> linked, media |-> pictures, parent |-> parent]

Described(p) == Description(p, LinksOf(p), p.media, p.parent)

\* The row of an id, and the id of a row, through catalog.external_game_ids.
KeyOf(id) == IF GameOf(id) = {} THEN None ELSE CHOOSE g \in GameOf(id) : TRUE
IdOf(g)   == IF g = None THEN None ELSE CHOOSE id \in Ids : <<id, g>> \in external

\* What a reader of the catalog sees of an id that has a row.
ShownOf(id) ==
  LET g == KeyOf(id) IN
  IF g = None THEN None ELSE Description(row[g], links[g], media[g], IdOf(parentOf[g]))

SaidOf(id) == {Described(versions[id][v]) : v \in 1 .. latest[id]}

Catalog == INSTANCE GameCatalog WITH
  Games <- Jobs,
  said  <- [id \in Ids |-> SaidOf(id)],
  shown <- [id \in Ids |-> ShownOf(id)],
  game  <- [id \in Ids |-> KeyOf(id)]

\* However imports of a game or of its parent overlap, deadlock, fail or lose
\* their commit's answer, readers of the catalog see whole imports, one after
\* another: each replaces the columns, links, media and parent of one game by
\* those of one answer of IGDB, takes no slug from another game, and leaves the
\* game the key that libraries know it by.
KeepsCatalog == Catalog!Spec
=============================================================================
