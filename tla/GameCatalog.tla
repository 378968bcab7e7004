----------------------------- MODULE GameCatalog -----------------------------
(***************************************************************************)
(* What the import promises about the committed catalog                    *)
(* (backend/internal/modules/catalog): it shows, of each game of IGDB, one *)
(* whole description that IGDB has given, and an import replaces it in one *)
(* step.  Jobs, statements, transactions, locks and failures do not exist  *)
(* here.                                                                   *)
(*                                                                         *)
(* A description is a record [slug, columns, links, media, parent]; parent *)
(* is an id or None.                                                       *)
(***************************************************************************)

CONSTANTS Ids,   \* IGDB ids of games
          Games, \* primary keys of catalog.games
          None

VARIABLES said,   \* said[id]: the descriptions that IGDB has given so far
          shown,  \* shown[id]: the one that the catalog holds
          game    \* game[id]: the key under which the product knows the game,
                  \* None while the catalog does not have it

vars == <<said, shown, game>>

Init == shown = [id \in Ids |-> None] /\ game = [id \in Ids |-> None]

\* IGDB gives a description.
Say(id, d) ==
  /\ said' = [said EXCEPT ![id] = @ \cup {d}]
  /\ UNCHANGED <<shown, game>>

\* The key is the game's for good; a new game gets a new one.
Key(id, g) == IF game[id] = None THEN \A other \in Ids : g # game[other] ELSE g = game[id]

\* The parent is linked if it is in the catalog, or left out.
Linkable(parent) == parent # None => game[parent] # None

\* The catalog takes over d, unless another game has its slug.
Import(id, d, parent, g) ==
  /\ Key(id, g) /\ Linkable(parent)
  /\ \A other \in Ids \ {id} : game[other] # None => shown[other].slug # d.slug
  /\ shown' = [shown EXCEPT ![id] = [d EXCEPT !.parent = parent]]
  /\ game' = [game EXCEPT ![id] = g]
  /\ UNCHANGED said

Next == \E id \in Ids :
  \/ \E d \in said'[id] : Say(id, d)
  \/ \E d \in said[id], g \in Games : \E parent \in {d.parent, None} : Import(id, d, parent, g)

Spec == Init /\ [][Next]_vars
=============================================================================
