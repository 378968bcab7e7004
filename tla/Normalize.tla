------------------------------ MODULE Normalize ------------------------------
(***************************************************************************)
(* From an IGDB payload to the rows of the catalog: NormalizeIGDBGame and  *)
(* its helpers (catalog/igdb_normalize.go) and importGameMedia             *)
(* (catalog/import_media.go), one action per iteration of their loops.     *)
(* Titles and texts are copied and left out; the image URLs, which are     *)
(* printed from the image ids and nothing else, stand for them.            *)
(***************************************************************************)
EXTENDS Integers, Sequences, FiniteSets

CONSTANTS Payloads,  \* payloads IGDB may send
          OldMedia   \* media rows of the game before the import

NoImage == "none"   \* "", in the payload

References == [id : Int, slug : STRING]
Involved   == [id : Int, developer : BOOLEAN, publisher : BOOLEAN, porting : BOOLEAN,
               supporting : BOOLEAN]

ASSUME PayloadAssumption ==
  Payloads \subseteq [category : Int, released : Int, refs : Seq(References),
                      companies : Seq(Involved), cover : STRING, screenshots : Seq(STRING)]

VARIABLES raw,        \* the payload
          at,         \* the loop that runs: "refs", "companies", "media", then "done"
          i,          \* its index
          list,       \* the loop's [seen, out]
          game,       \* the normalised game's columns
          refs, companies,  \* its lists (platforms and genres are made alike)
          media,      \* the game_media rows of the game
          position

vars == <<raw, at, i, list, game, refs, companies, media, position>>

Empty == [seen |-> {}, out |-> <<>>]

\* The CHECK constraints of migration 00004.
GameTypes  == {"main_game", "dlc", "expansion", "standalone_expansion", "remaster",
               "remake", "edition", "bundle"}
RolesOfDb  == {"developer", "publisher"}

\* igdbCategoryToGameType.
CategoryMap == [c \in 0 .. 14 |->
  <<"main_game", "dlc", "expansion", "bundle", "standalone_expansion", "dlc", "dlc", "dlc",
    "remake", "remaster", "edition", "remaster", "remake", "dlc", "dlc">>[c + 1]]

GameType(c) == IF c \in DOMAIN CategoryMap THEN CategoryMap[c] ELSE "main_game"

\* The columns; a date that is not after 1970-01-01T00:00:00Z is none.
Columns(p) == [type |-> GameType(p.category),
               released |-> IF p.released > 0 THEN {p.released} ELSE {},
               cover |-> p.cover]

Init ==
  /\ raw \in Payloads
  /\ at = "refs" /\ i = 1 /\ list = Empty
  /\ game = Columns(raw) /\ refs = <<>> /\ companies = <<>>
  /\ media = OldMedia /\ position = 0

\* An item is appended unless its key has been seen.
Add(l, key, item) ==
  IF key \in l.seen THEN l ELSE [seen |-> l.seen \cup {key}, out |-> Append(l.out, item)]

Iterate(l) == i' = i + 1 /\ list' = l /\ UNCHANGED <<raw, at, game, refs, companies, media>>

NextLoop(loop) == at' = loop /\ i' = 1 /\ list' = Empty /\ UNCHANGED <<raw, game>>

-----------------------------------------------------------------------------
(* normalizeRefs                                                           *)

\* Mutant of RefKey: references are told apart by their slugs.
RefSlug(r) == r.slug
RefKey(r)  == r.id

RefStep ==
  /\ at = "refs" /\ i <= Len(raw.refs)
  /\ Iterate(Add(list, RefKey(raw.refs[i]), raw.refs[i]))
  /\ UNCHANGED position

RefsDone ==
  /\ at = "refs" /\ i > Len(raw.refs)
  /\ NextLoop("companies") /\ refs' = list.out
  /\ UNCHANGED <<companies, media, position>>

-----------------------------------------------------------------------------
(* normalizeCompanies                                                      *)

\* The roles a company is added with, in this order; supporting gives none.
Roles(c) == (IF c.developer \/ c.porting THEN <<"developer">> ELSE <<>>)
            \o (IF c.publisher THEN <<"publisher">> ELSE <<>>)

AddRole(l, id, role) == Add(l, <<id, role>>, <<id, role>>)

CompanyStep ==
  LET c == raw.companies[i]
      roles == Roles(c)
  IN
  /\ at = "companies" /\ i <= Len(raw.companies)
  /\ \/ Len(roles) = 0 /\ Iterate(list)
     \/ Len(roles) = 1 /\ Iterate(AddRole(list, c.id, roles[1]))
     \/ Len(roles) = 2 /\ Iterate(AddRole(AddRole(list, c.id, roles[1]), c.id, roles[2]))
  /\ UNCHANGED position

Imported == {"cover", "screenshot"}

Media(type, image, pos) == [type |-> type, image |-> image, position |-> pos]

\* importGameMedia begins: the DELETE of what an import writes, then the cover.
CompaniesDone ==
  /\ at = "companies" /\ i > Len(raw.companies)
  /\ NextLoop("media") /\ companies' = list.out
  /\ media' = {m \in media : m.type \notin Imported}
              \cup (IF raw.cover = NoImage THEN {} ELSE {Media("cover", raw.cover, 0)})
  /\ position' = 0
  /\ UNCHANGED refs

-----------------------------------------------------------------------------
(* importGameMedia's loop over the screenshots                             *)

\* Mutant of ScreenshotPosition: the index in the payload.
PayloadIndex == i - 1
ScreenshotPosition == position

Screenshot ==
  /\ at = "media" /\ i <= Len(raw.screenshots)
  /\ i' = i + 1
  /\ IF raw.screenshots[i] = NoImage THEN UNCHANGED <<media, position>>
     ELSE /\ media' = media \cup {Media("screenshot", raw.screenshots[i], ScreenshotPosition)}
          /\ position' = position + 1
  /\ UNCHANGED <<raw, at, list, game, refs, companies>>

MediaDone ==
  /\ at = "media" /\ i > Len(raw.screenshots)
  /\ NextLoop("done")
  /\ UNCHANGED <<refs, companies, media, position>>

Finished == at = "done" /\ UNCHANGED vars

Next == RefStep \/ RefsDone \/ CompanyStep \/ CompaniesDone \/ Screenshot \/ MediaDone \/ Finished

Spec == Init /\ [][Next]_vars

-----------------------------------------------------------------------------
Loops   == {"refs", "companies", "media", "done"}
Pairs   == Int \X RolesOfDb
Lists(keys, items) == [seen : SUBSET keys, out : Seq(items)]
Written == [type : Imported, image : STRING, position : Nat]

\* The shape of every variable.
TypeOK ==
  /\ raw \in Payloads /\ at \in Loops
  /\ i \in Nat \ {0} /\ position \in Nat
  /\ \/ at = "refs" /\ list \in Lists(Int, References)
     \/ at = "companies" /\ list \in Lists(Pairs, Pairs)
     \/ at \in {"media", "done"} /\ list = Empty
  /\ game \in [type : GameTypes, released : SUBSET Int, cover : STRING]
  /\ refs \in Seq(References) /\ companies \in Seq(Pairs)
  /\ media \subseteq OldMedia \cup Written

\* The type and the roles pass the two CHECKs of the schema that depend on them,
\* whatever category and roles IGDB sends: these do not make an import fail.
AcceptedBySchema ==
  /\ game.type \in GameTypes
  /\ \A k \in 1 .. Len(companies) : companies[k][2] \in RolesOfDb

\* The list has every id of the first n references once, with the name and slug
\* of its first occurrence and in the order of first occurrences.
FirstRef(id) == CHOOSE n \in 1 .. Len(raw.refs) :
  raw.refs[n].id = id /\ \A m \in 1 .. n - 1 : raw.refs[m].id # id
Firsts(out, n) ==
  /\ \A m \in 1 .. n : \E k \in 1 .. Len(out) : out[k].id = raw.refs[m].id
  /\ \A k \in 1 .. Len(out) : /\ FirstRef(out[k].id) \in 1 .. n
                              /\ out[k] = raw.refs[FirstRef(out[k].id)]
  /\ \A k, l \in 1 .. Len(out) : k < l => FirstRef(out[k].id) < FirstRef(out[l].id)

\* Else two references of one game would fight over one row, or one would be lost.
RefsAreFirsts == at # "refs" => Firsts(refs, Len(raw.refs))

\* A company is credited once for each role that any of its entries gives it,
\* porting counting as development: the pairs are the primary keys written.
CreditsOf(n) ==
  {<<raw.companies[m].id, "developer">> :
     m \in {k \in 1 .. n : raw.companies[k].developer \/ raw.companies[k].porting}}
  \cup {<<raw.companies[m].id, "publisher">> : m \in {k \in 1 .. n : raw.companies[k].publisher}}
Once(out, set) ==
  /\ {out[k] : k \in 1 .. Len(out)} = set
  /\ \A k, l \in 1 .. Len(out) : out[k] = out[l] => k = l
CompaniesAreCredits ==
  at \in {"media", "done"} => Once(companies, CreditsOf(Len(raw.companies)))

\* What normalisation hands to the import is a function of the payload that can
\* be said without its loops: types and roles the schema accepts, every reference
\* once, every credit once.
GameNormalized == AcceptedBySchema /\ RefsAreFirsts /\ CompaniesAreCredits

\* The first n screenshots that have an image, each at the number of those before it.
Shown(n)   == {m \in 1 .. n : raw.screenshots[m] # NoImage}
Gallery(n) == {Media("screenshot", raw.screenshots[m], Cardinality(Shown(m - 1))) : m \in Shown(n)}
KeptMedia  == {m \in OldMedia : m.type \notin Imported}
              \cup {Media("cover", c, 0) : c \in {raw.cover} \ {NoImage}}

\* After the import the game's screenshots are the payload's, those without an
\* image left out, numbered from 0 without gaps in the payload's order; media of
\* other kinds are untouched and no cover or screenshot of before is left.
MediaReplaced == at = "done" => media = KeptMedia \cup Gallery(Len(raw.screenshots))
=============================================================================
