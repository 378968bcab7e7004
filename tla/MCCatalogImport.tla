--------------------------- MODULE MCCatalogImport ---------------------------
(* Instances of CatalogImport for TLC. *)
EXTENDS CatalogRefinement

CONSTANTS a, b   \* two IGDB ids

Ref(slug) == [slug |-> slug, role |-> "none"]
Made(slug) == [slug |-> slug, role |-> "developer"]
Sold(slug) == [slug |-> slug, role |-> "publisher"]

Game(id, version, slug, parent, refs, pictures) ==
  [id |-> id, version |-> version, slug |-> slug, parent |-> parent, refs |-> refs, media |-> pictures]

\* A game whose slug, genres and media change, with a company in both roles; the
\* other game shares that company.
Renamed ==
  [id \in {a, b} |-> IF id = a
     THEN <<Game(a, 1, "s1", None, <<<<Ref("pc")>>, <<Ref("rpg")>>, <<Made("x"), Sold("x")>>>>, "m1"),
            Game(a, 2, "s2", None, <<<<>>, <<Ref("fps")>>, <<Sold("x")>>>>, "m2")>>
     ELSE <<Game(b, 1, "s3", None, <<<<>>, <<>>, <<Made("x")>>>>, "m3")>>]

\* A game and its add-on; they share two genres, listed in different orders.
Family ==
  [id \in {a, b} |-> IF id = a
     THEN <<Game(a, 1, "s1", None, <<<<>>, <<Ref("rpg"), Ref("fps")>>, <<>>>>, "m1"),
            Game(a, 2, "s2", None, <<<<>>, <<Ref("rpg")>>, <<>>>>, "m1")>>
     ELSE <<Game(b, 1, "s3", a, <<<<>>, <<Ref("fps"), Ref("rpg")>>, <<>>>>, "m2")>>]

\* IGDB exchanges the slugs of two games.
Swap ==
  [id \in {a, b} |-> IF id = a
     THEN <<Game(a, 1, "s1", None, <<<<>>, <<>>, <<>>>>, "m1"),
            Game(a, 2, "s2", None, <<<<>>, <<>>, <<>>>>, "m1")>>
     ELSE <<Game(b, 1, "s2", None, <<<<>>, <<>>, <<>>>>, "m2"),
            Game(b, 2, "s1", a, <<<<>>, <<>>, <<>>>>, "m2")>>]

AllWorlds == {Renamed, Family, Swap}
Both == {a, b}
Maybe == {TRUE, FALSE}
=============================================================================
