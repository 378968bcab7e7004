-------------------------- MODULE Normalize_proofs --------------------------
(* Proofs about Normalize, for payloads of any length with any contents. *)
EXTENDS Normalize, FiniteSetTheorems, TLAPS

-----------------------------------------------------------------------------
(* The inductive invariant behind both properties: what the loop that runs *)
(* has made of the items before its index.                                 *)

LoopInv ==
  /\ at \in {"refs", "companies"} => media = OldMedia
  /\ at = "refs" =>
       /\ i <= Len(raw.refs) + 1 /\ Firsts(list.out, i - 1)
       /\ list.seen = {RefKey(raw.refs[m]) : m \in 1 .. i - 1}
  /\ at = "companies" =>
       /\ i <= Len(raw.companies) + 1 /\ list.seen = CreditsOf(i - 1)
       /\ Once(list.out, CreditsOf(i - 1))
  /\ at = "media" =>
       /\ i <= Len(raw.screenshots) + 1 /\ position = Cardinality(Shown(i - 1))
       /\ media = KeptMedia \cup Gallery(i - 1)

NormalizeInv == LoopInv /\ RefsAreFirsts /\ CompaniesAreCredits /\ MediaReplaced

-----------------------------------------------------------------------------
(* Operators.                                                              *)

\* What a payload decodes to.
LEMMA PayloadShape ==
  ASSUME NEW p \in Payloads
  PROVE  /\ p.category \in Int /\ p.released \in Int
         /\ p.refs \in Seq(References) /\ p.companies \in Seq(Involved)
         /\ p.cover \in STRING /\ p.screenshots \in Seq(STRING)
<1>1. p \in [category : Int, released : Int, refs : Seq(References),
             companies : Seq(Involved), cover : STRING, screenshots : Seq(STRING)]
  BY PayloadAssumption
<1>2. QED BY <1>1

\* Every category, also one the map does not know, gives a type of the schema.
LEMMA GameTypeAccepted ==
  ASSUME NEW c \in Int
  PROVE  GameType(c) \in GameTypes
<1>1. CASE c \in 0 .. 14
  <2>1. c = 0 \/ c = 1 \/ c = 2 \/ c = 3 \/ c = 4 \/ c = 5 \/ c = 6 \/ c = 7 \/ c = 8 \/ c = 9
        \/ c = 10 \/ c = 11 \/ c = 12 \/ c = 13 \/ c = 14
    BY <1>1
  <2>2. CategoryMap[c] \in GameTypes
    BY <2>1, <1>1 DEF CategoryMap, GameTypes
  <2>3. QED BY <1>1, <2>2 DEF GameType, CategoryMap
<1>2. CASE c \notin 0 .. 14
  BY <1>2 DEF GameType, CategoryMap, GameTypes
<1>3. QED BY <1>1, <1>2

\* The roles of an entry, in their order.
LEMMA RolesAre ==
  ASSUME NEW c \in Involved
  PROVE  LET dev == c.developer \/ c.porting IN
         /\ ~dev /\ ~c.publisher => Len(Roles(c)) = 0
         /\ dev /\ ~c.publisher => Len(Roles(c)) = 1 /\ Roles(c)[1] = "developer"
         /\ ~dev /\ c.publisher => Len(Roles(c)) = 1 /\ Roles(c)[1] = "publisher"
         /\ dev /\ c.publisher => /\ Len(Roles(c)) = 2
                                  /\ Roles(c)[1] = "developer" /\ Roles(c)[2] = "publisher"
<1> DEFINE dev == c.developer \/ c.porting
           D == IF dev THEN <<"developer">> ELSE <<>>
           P == IF c.publisher THEN <<"publisher">> ELSE <<>>
<1>1. /\ D \in Seq(RolesOfDb) /\ P \in Seq(RolesOfDb)
      /\ dev => Len(D) = 1 /\ D[1] = "developer"
      /\ ~dev => Len(D) = 0
      /\ c.publisher => Len(P) = 1 /\ P[1] = "publisher"
      /\ ~c.publisher => Len(P) = 0
  <2>1. /\ <<"developer">> \in Seq(RolesOfDb) /\ Len(<<"developer">>) = 1
        /\ <<"developer">>[1] = "developer"
    BY DEF RolesOfDb
  <2>2. /\ <<"publisher">> \in Seq(RolesOfDb) /\ Len(<<"publisher">>) = 1
        /\ <<"publisher">>[1] = "publisher"
    BY DEF RolesOfDb
  <2>3. <<>> \in Seq(RolesOfDb) /\ Len(<<>>) = 0
    OBVIOUS
  <2>4. (dev => D = <<"developer">>) /\ (~dev => D = <<>>)
    BY DEF D
  <2>5. (c.publisher => P = <<"publisher">>) /\ (~c.publisher => P = <<>>)
    BY DEF P
  <2> HIDE DEF D, P, dev
  <2>6. QED BY <2>1, <2>2, <2>3, <2>4, <2>5
<1>2. Roles(c) = D \o P
  BY DEF Roles
<1> HIDE DEF D, P
<1>3. /\ Len(D \o P) = Len(D) + Len(P)
      /\ \A k \in 1 .. Len(D) : (D \o P)[k] = D[k]
      /\ \A k \in 1 .. Len(P) : (D \o P)[Len(D) + k] = P[k]
  BY <1>1
<1>4. QED BY <1>1, <1>2, <1>3

\* An item whose key is new goes to the end of the list.
LEMMA AddAppends ==
  ASSUME NEW S, NEW T, NEW l \in Lists(S, T), NEW key \in S, NEW item \in T
  PROVE  /\ Add(l, key, item) \in Lists(S, T)
         /\ Add(l, key, item).seen = l.seen \cup {key}
         /\ key \in l.seen => Add(l, key, item).out = l.out
         /\ key \notin l.seen => /\ Len(Add(l, key, item).out) = Len(l.out) + 1
                                 /\ Add(l, key, item).out[Len(l.out) + 1] = item
                                 /\ \A k \in 1 .. Len(l.out) : Add(l, key, item).out[k] = l.out[k]
<1>1. CASE key \in l.seen
  BY <1>1 DEF Add, Lists
<1>2. CASE key \notin l.seen
  <2>1. Add(l, key, item) = [seen |-> l.seen \cup {key}, out |-> Append(l.out, item)]
    BY <1>2 DEF Add
  <2>2. l.out \in Seq(T) /\ l.seen \subseteq S /\ Append(l.out, item) \in Seq(T)
    BY DEF Lists
  <2>3. /\ Len(Append(l.out, item)) = Len(l.out) + 1
        /\ Append(l.out, item)[Len(l.out) + 1] = item
        /\ \A k \in 1 .. Len(l.out) : Append(l.out, item)[k] = l.out[k]
    BY <2>2
  <2>4. QED BY <1>2, <2>1, <2>2, <2>3 DEF Lists
<1>3. QED BY <1>1, <1>2

\* Adding a pair under itself adds it to what the list has once.
LEMMA AddOnce ==
  ASSUME NEW l \in Lists(Pairs, Pairs), Once(l.out, l.seen), NEW x \in Pairs
  PROVE  /\ Add(l, x, x) \in Lists(Pairs, Pairs)
         /\ Add(l, x, x).seen = l.seen \cup {x}
         /\ Once(Add(l, x, x).out, l.seen \cup {x})
<1> DEFINE new == Add(l, x, x)
<1>1. /\ new \in Lists(Pairs, Pairs)
      /\ new.seen = l.seen \cup {x}
      /\ x \in l.seen => new.out = l.out
      /\ x \notin l.seen => /\ Len(new.out) = Len(l.out) + 1
                            /\ new.out[Len(l.out) + 1] = x
                            /\ \A k \in 1 .. Len(l.out) : new.out[k] = l.out[k]
  BY AddAppends
<1> HIDE DEF new
<1>2. CASE x \in l.seen
  <2>1. l.seen \cup {x} = l.seen
    BY <1>2
  <2>2. QED BY <1>1, <1>2, <2>1 DEF new
<1>3. CASE x \notin l.seen
  <2>1. Len(l.out) \in Nat
    BY DEF Lists
  <2>2. {new.out[k] : k \in 1 .. Len(new.out)} = l.seen \cup {x}
    <3>1. \A k \in 1 .. Len(new.out) : k \in 1 .. Len(l.out) \/ k = Len(l.out) + 1
      BY <1>1, <1>3, <2>1
    <3>2. {l.out[k] : k \in 1 .. Len(l.out)} = l.seen
      BY DEF Once
    <3>3. 1 .. Len(l.out) \subseteq 1 .. Len(new.out) /\ Len(l.out) + 1 \in 1 .. Len(new.out)
      BY <1>1, <1>3, <2>1
    <3>4. QED BY <1>1, <1>3, <3>1, <3>2, <3>3
  <2>3. ASSUME NEW k \in 1 .. Len(new.out), NEW m \in 1 .. Len(new.out), new.out[k] = new.out[m]
        PROVE  k = m
    <3>1. \A j \in 1 .. Len(l.out) : new.out[j] \in l.seen
      BY <1>1, <1>3 DEF Once
    <3>2. (k \in 1 .. Len(l.out) \/ k = Len(l.out) + 1) /\ (m \in 1 .. Len(l.out) \/ m = Len(l.out) + 1)
      BY <1>1, <1>3, <2>1
    <3>3. CASE k \in 1 .. Len(l.out) /\ m \in 1 .. Len(l.out)
      BY <1>1, <1>3, <2>3, <3>3 DEF Once
    <3>4. CASE k = Len(l.out) + 1 \/ m = Len(l.out) + 1
      BY <1>1, <1>3, <2>1, <2>3, <3>1, <3>2, <3>4
    <3>5. QED BY <3>2, <3>3, <3>4
  <2>4. QED BY <1>1, <2>2, <2>3 DEF Once, new
<1>4. QED BY <1>2, <1>3
-----------------------------------------------------------------------------
(* Type correctness.                                                       *)

\* An entry's step credits its roles, none, one or two, and keeps the rest.
LEMMA CompanyStepCredits ==
  ASSUME TypeOK, CompanyStep
  PROVE  LET c == raw.companies[i]
             dev == <<c.id, "developer">>
             pub == <<c.id, "publisher">>
         IN
         /\ i \in 1 .. Len(raw.companies) /\ c \in Involved
         /\ i' = i + 1 /\ UNCHANGED <<raw, at, game, refs, companies, media, position>>
         /\ dev \in Pairs /\ pub \in Pairs
         /\ ~(c.developer \/ c.porting) /\ ~c.publisher => list' = list
         /\ (c.developer \/ c.porting) /\ ~c.publisher => list' = Add(list, dev, dev)
         /\ ~(c.developer \/ c.porting) /\ c.publisher => list' = Add(list, pub, pub)
         /\ (c.developer \/ c.porting) /\ c.publisher => list' = Add(Add(list, dev, dev), pub, pub)
<1> DEFINE c == raw.companies[i]
<1>1. i \in 1 .. Len(raw.companies) /\ c \in Involved
  BY PayloadShape DEF TypeOK, CompanyStep
<1>2. <<c.id, "developer">> \in Pairs /\ <<c.id, "publisher">> \in Pairs
  BY <1>1 DEF Pairs, Involved, RolesOfDb
<1>3. /\ i' = i + 1 /\ UNCHANGED <<raw, at, game, refs, companies, media, position>>
      /\ \/ Len(Roles(c)) = 0 /\ list' = list
         \/ Len(Roles(c)) = 1 /\ list' = AddRole(list, c.id, Roles(c)[1])
         \/ Len(Roles(c)) = 2 /\ list' = AddRole(AddRole(list, c.id, Roles(c)[1]), c.id, Roles(c)[2])
  BY DEF CompanyStep, Iterate
<1> HIDE DEF c
<1>4. QED BY <1>1, <1>2, <1>3, RolesAre DEF AddRole, c

\* A list of pairs stays one.
LEMMA AddPair ==
  ASSUME NEW l \in Lists(Pairs, Pairs), NEW x \in Pairs
  PROVE  Add(l, x, x) \in Lists(Pairs, Pairs)
BY AddAppends

\* Every step keeps the shape of every variable.
LEMMA NextTypeOK ==
  ASSUME TypeOK, [Next]_vars
  PROVE  TypeOK'
<1> USE DEF TypeOK, Loops
<1>1. CASE RefStep
  <2>0. raw.refs \in Seq(References) /\ i \in 1 .. Len(raw.refs)
    BY <1>1, PayloadShape DEF RefStep
  <2>1. raw.refs[i] \in References /\ raw.refs[i].id \in Int
    <3>1. raw.refs[i] \in References
      BY <2>0
    <3>2. QED BY <3>1 DEF References
  <2>2. list' = Add(list, raw.refs[i].id, raw.refs[i]) /\ list \in Lists(Int, References)
    BY <1>1 DEF RefStep, Iterate, RefKey
  <2>3. list' \in Lists(Int, References)
    BY <2>1, <2>2, AddAppends
  <2>4. QED BY <1>1, <2>3 DEF RefStep, Iterate
<1>2. CASE RefsDone
  <2>1. Empty \in Lists(Pairs, Pairs) /\ list.out \in Seq(References)
    BY <1>2 DEF Empty, Lists, RefsDone
  <2>2. QED BY <1>2, <2>1 DEF RefsDone, NextLoop
<1>3. CASE CompanyStep
  <2>1. list' \in Lists(Pairs, Pairs)
    BY <1>3, CompanyStepCredits, AddPair DEF CompanyStep
  <2>2. QED BY <1>3, <2>1 DEF CompanyStep, Iterate
<1>4. CASE CompaniesDone
  <2>1. list.out \in Seq(Pairs)
    BY <1>4 DEF Lists, CompaniesDone
  <2>2. Media("cover", raw.cover, 0) \in Written
    BY PayloadShape DEF Media, Written, Imported
  <2>3. media' \subseteq OldMedia \cup Written
    BY <1>4, <2>2 DEF CompaniesDone
  <2>4. QED BY <1>4, <2>1, <2>3 DEF CompaniesDone, NextLoop
<1>5. CASE Screenshot
  <2>1. raw.screenshots[i] \in STRING
    BY <1>5, PayloadShape DEF Screenshot
  <2>2. Media("screenshot", raw.screenshots[i], ScreenshotPosition) \in Written
    BY <2>1 DEF Media, Written, Imported, ScreenshotPosition
  <2>3. media' \subseteq OldMedia \cup Written
    BY <1>5, <2>2 DEF Screenshot
  <2>4. QED BY <1>5, <2>3 DEF Screenshot
<1>6. CASE MediaDone
  BY <1>6 DEF MediaDone, NextLoop
<1>7. CASE UNCHANGED vars
  BY <1>7 DEF vars
<1>8. QED BY <1>1, <1>2, <1>3, <1>4, <1>5, <1>6, <1>7 DEF Next, Finished

\* The normalised game, its lists and its media have the shapes the import writes,
\* the game's type among those that the schema accepts (igdb_normalize.go).
THEOREM NormalizeTypeCorrect == Spec => []TypeOK
<1>1. Init => TypeOK
  <2> SUFFICES ASSUME Init PROVE TypeOK
    OBVIOUS
  <2>1. Columns(raw) \in [type : GameTypes, released : SUBSET Int, cover : STRING]
    BY PayloadShape, GameTypeAccepted DEF Init, Columns
  <2>2. Empty \in Lists(Int, References)
    BY DEF Empty, Lists
  <2>3. QED BY <2>1, <2>2 DEF Init, TypeOK, Loops
<1>2. TypeOK /\ [Next]_vars => TypeOK'
  BY NextTypeOK
<1>3. QED BY <1>1, <1>2, PTL DEF Spec

-----------------------------------------------------------------------------
(* What the loops have made of the items before their index.               *)

\* A reference whose id no earlier one has is the first of that id.
LEMMA FirstIsFirst ==
  ASSUME raw \in Payloads, NEW n \in 1 .. Len(raw.refs),
         \A m \in 1 .. n - 1 : raw.refs[m].id # raw.refs[n].id
  PROVE  FirstRef(raw.refs[n].id) = n
<1> DEFINE P(k) == raw.refs[k].id = raw.refs[n].id /\ \A m \in 1 .. k - 1 : raw.refs[m].id # raw.refs[n].id
           f == FirstRef(raw.refs[n].id)
<1>0. Len(raw.refs) \in Nat
  BY PayloadShape
<1>1. f \in 1 .. Len(raw.refs) /\ P(f)
  <2>1. f = CHOOSE k \in 1 .. Len(raw.refs) : P(k)
    BY DEF FirstRef
  <2>2. \E k \in 1 .. Len(raw.refs) : P(k)
    OBVIOUS
  <2> HIDE DEF P, f
  <2>3. QED BY <2>1, <2>2
<1> HIDE DEF f
<1>2. ~(n < f)
  BY <1>1, <1>0
<1>3. ~(f < n)
  BY <1>1, <1>0
<1>4. QED BY <1>0, <1>1, <1>2, <1>3 DEF f

\* Gathering one more reference.
LEMMA FirstsGrow ==
  ASSUME TypeOK, RefStep, Firsts(list.out, i - 1),
         list.seen = {RefKey(raw.refs[m]) : m \in 1 .. i - 1}
  PROVE  /\ Firsts(list.out, i - 1)' /\ list'.seen = {RefKey(raw.refs[m]) : m \in 1 .. i}
         /\ i' = i + 1 /\ i \in 1 .. Len(raw.refs)
         /\ UNCHANGED <<raw, at, game, refs, companies, media, position>>
<1> DEFINE x == raw.refs[i]
           old == list.out
           new == list'.out
<1>1. /\ i \in 1 .. Len(raw.refs) /\ i \in Nat /\ raw \in Payloads /\ list \in Lists(Int, References)
      /\ list' = Add(list, x.id, x) /\ i' = i + 1
      /\ UNCHANGED <<raw, at, game, refs, companies, media, position>>
  BY PayloadShape DEF RefStep, Iterate, RefKey, TypeOK
<1>2. x \in References /\ x.id \in Int
  <2>1. raw.refs \in Seq(References)
    BY <1>1, PayloadShape
  <2>2. x \in References
    BY <1>1, <2>1
  <2>3. QED BY <2>2 DEF References
<1>3. /\ list' \in Lists(Int, References) /\ list'.seen = list.seen \cup {x.id}
      /\ x.id \in list.seen => new = old
      /\ x.id \notin list.seen => /\ Len(new) = Len(old) + 1 /\ new[Len(old) + 1] = x
                                  /\ \A k \in 1 .. Len(old) : new[k] = old[k]
  <2> HIDE DEF x
  <2>1. QED BY <1>1, <1>2, AddAppends
<1>4. list'.seen = {RefKey(raw.refs[m]) : m \in 1 .. i}
  <2>1. 1 .. i = (1 .. i - 1) \cup {i}
    BY <1>1
  <2>2. QED BY <1>3, <2>1 DEF RefKey
<1>5. Firsts(new, i)
  <2> HIDE DEF x, old, new
  <2>1. \A m \in 1 .. i : m \in 1 .. i - 1 \/ m = i
    BY <1>1
  <2>2. CASE x.id \in list.seen
    <3>1. new = old /\ \E k \in 1 .. Len(old) : old[k].id = x.id
      BY <1>3, <2>2 DEF Firsts, RefKey, old
    <3>2. QED BY <1>1, <3>1, <2>1 DEF Firsts, x, old
  <2>3. CASE x.id \notin list.seen
    <3>1. FirstRef(x.id) = i
      BY <1>1, <2>3, FirstIsFirst DEF x, RefKey
    <3>2. Len(old) \in Nat /\ Len(new) = Len(old) + 1 /\ new[Len(old) + 1] = x
          /\ \A k \in 1 .. Len(old) : new[k] = old[k]
      BY <1>1, <1>3, <2>3 DEF Lists, old
    <3>3. \A k \in 1 .. Len(new) : k \in 1 .. Len(old) \/ k = Len(old) + 1
      BY <3>2
    <3>4. ASSUME NEW m \in 1 .. i PROVE \E k \in 1 .. Len(new) : new[k].id = raw.refs[m].id
      <4>1. CASE m = i
        BY <3>2, <4>1 DEF x
      <4>2. CASE m \in 1 .. i - 1
        <5>1. PICK k \in 1 .. Len(old) : old[k].id = raw.refs[m].id
          BY <4>2 DEF Firsts, old
        <5>2. QED BY <3>2, <5>1
      <4>3. QED BY <2>1, <4>1, <4>2
    <3>5. ASSUME NEW k \in 1 .. Len(new)
          PROVE  FirstRef(new[k].id) \in 1 .. i /\ new[k] = raw.refs[FirstRef(new[k].id)]
      <4>1. CASE k = Len(old) + 1
        BY <1>1, <3>1, <3>2, <4>1 DEF x
      <4>2. CASE k \in 1 .. Len(old)
        <5>1. new[k] = old[k] /\ FirstRef(old[k].id) \in 1 .. i - 1 /\ old[k] = raw.refs[FirstRef(old[k].id)]
          BY <3>2, <4>2 DEF Firsts, old
        <5>2. QED BY <1>1, <5>1
      <4>3. QED BY <3>3, <4>1, <4>2
    <3>6. ASSUME NEW k \in 1 .. Len(new), NEW l \in 1 .. Len(new), k < l
          PROVE  FirstRef(new[k].id) < FirstRef(new[l].id)
      <4>1. k \in 1 .. Len(old)
        BY <3>2, <3>3, <3>6
      <4>2. new[k] = old[k] /\ FirstRef(old[k].id) \in 1 .. i - 1
        BY <3>2, <4>1 DEF Firsts, old
      <4>3. CASE l = Len(old) + 1
        BY <1>1, <3>1, <3>2, <4>2, <4>3
      <4>4. CASE l \in 1 .. Len(old)
        BY <3>2, <3>6, <4>1, <4>2, <4>4 DEF Firsts, old
      <4>5. QED BY <3>3, <4>3, <4>4
    <3>7. QED BY <3>4, <3>5, <3>6 DEF Firsts
  <2>4. QED BY <2>2, <2>3
<1>6. Firsts(list.out, i - 1)'
  <2>1. i' - 1 = i /\ raw' = raw
    BY <1>1
  <2>2. \A id : FirstRef(id)' = FirstRef(id)
    BY <2>1 DEF FirstRef
  <2>3. QED BY <1>5, <2>1, <2>2 DEF Firsts
<1>7. QED BY <1>1, <1>4, <1>6

\* Crediting the roles of one more entry.
LEMMA CreditsGrow ==
  ASSUME TypeOK, CompanyStep, list.seen = CreditsOf(i - 1), Once(list.out, CreditsOf(i - 1))
  PROVE  /\ list'.seen = CreditsOf(i) /\ Once(list'.out, CreditsOf(i))
         /\ i' = i + 1 /\ i \in 1 .. Len(raw.companies)
         /\ UNCHANGED <<raw, at, game, refs, companies, media, position>>
<1> DEFINE c == raw.companies[i]
           isDev == c.developer \/ c.porting
           dev == <<c.id, "developer">>
           pub == <<c.id, "publisher">>
           new == (IF isDev THEN {dev} ELSE {}) \cup (IF c.publisher THEN {pub} ELSE {})
<1>1. /\ i \in 1 .. Len(raw.companies) /\ i \in Nat /\ dev \in Pairs /\ pub \in Pairs
      /\ i' = i + 1 /\ UNCHANGED <<raw, at, game, refs, companies, media, position>>
      /\ ~isDev /\ ~c.publisher => list' = list
      /\ isDev /\ ~c.publisher => list' = Add(list, dev, dev)
      /\ ~isDev /\ c.publisher => list' = Add(list, pub, pub)
      /\ isDev /\ c.publisher => list' = Add(Add(list, dev, dev), pub, pub)
  BY CompanyStepCredits DEF TypeOK
<1>2. CreditsOf(i) = CreditsOf(i - 1) \cup new
  <2>1. 1 .. i = (1 .. i - 1) \cup {i}
    BY <1>1
  <2> DEFINE D(n) == {k \in 1 .. n : raw.companies[k].developer \/ raw.companies[k].porting}
             P(n) == {k \in 1 .. n : raw.companies[k].publisher}
  <2>2. D(i) = D(i - 1) \cup (IF isDev THEN {i} ELSE {})
    BY <2>1
  <2>3. P(i) = P(i - 1) \cup (IF c.publisher THEN {i} ELSE {})
    BY <2>1
  <2>4. \A n : CreditsOf(n) = {<<raw.companies[m].id, "developer">> : m \in D(n)}
                             \cup {<<raw.companies[m].id, "publisher">> : m \in P(n)}
    BY DEF CreditsOf
  <2> HIDE DEF D, P
  <2>5. QED BY <2>2, <2>3, <2>4
<1>3. list \in Lists(Pairs, Pairs) /\ Once(list.out, list.seen)
  BY DEF TypeOK, CompanyStep
<1> HIDE DEF dev, pub, isDev, c
<1>4. CASE ~isDev
  <2>1. CASE ~c.publisher
    BY <1>1, <1>2, <1>4, <2>1
  <2>2. CASE c.publisher
    <3>1. list'.seen = list.seen \cup {pub} /\ Once(list'.out, list.seen \cup {pub})
      BY <1>1, <1>3, <1>4, <2>2, AddOnce
    <3>2. CreditsOf(i) = list.seen \cup {pub}
      BY <1>2, <1>4, <2>2
    <3>3. QED BY <1>1, <3>1, <3>2
  <2>3. QED BY <2>1, <2>2
<1>5. CASE isDev
  <2> DEFINE mid == Add(list, dev, dev)
  <2>1. /\ mid \in Lists(Pairs, Pairs) /\ mid.seen = list.seen \cup {dev}
        /\ Once(mid.out, mid.seen)
    BY <1>1, <1>3, AddOnce
  <2>2. CASE ~c.publisher
    <3>1. CreditsOf(i) = list.seen \cup {dev} /\ list' = mid
      BY <1>1, <1>2, <1>5, <2>2
    <3>2. QED BY <1>1, <2>1, <3>1
  <2>3. CASE c.publisher
    <3>1. list' = Add(mid, pub, pub)
      BY <1>1, <1>5, <2>3
    <3> HIDE DEF mid
    <3>2. list'.seen = mid.seen \cup {pub} /\ Once(list'.out, mid.seen \cup {pub})
      BY <1>1, <2>1, <3>1, AddOnce
    <3>3. CreditsOf(i) = mid.seen \cup {pub}
      BY <1>2, <1>5, <2>1, <2>3
    <3>4. QED BY <1>1, <3>2, <3>3
  <2>4. QED BY <2>2, <2>3
<1>6. QED BY <1>4, <1>5

\* The images shown are finitely many, and one more item adds at most itself.
LEMMA ShownGrow ==
  ASSUME NEW n \in Nat \ {0}
  PROVE  /\ IsFiniteSet(Shown(n)) /\ Cardinality(Shown(n - 1)) \in Nat
         /\ raw.screenshots[n] = NoImage => Shown(n) = Shown(n - 1)
         /\ raw.screenshots[n] # NoImage =>
              /\ Shown(n) = Shown(n - 1) \cup {n}
              /\ Cardinality(Shown(n)) = Cardinality(Shown(n - 1)) + 1
<1>1. 1 .. n = (1 .. n - 1) \cup {n} /\ n \notin 1 .. n - 1 /\ n \in Int /\ n - 1 \in Int
  OBVIOUS
<1>2. /\ raw.screenshots[n] = NoImage => Shown(n) = Shown(n - 1)
      /\ raw.screenshots[n] # NoImage => Shown(n) = Shown(n - 1) \cup {n}
      /\ n \notin Shown(n - 1)
  BY <1>1 DEF Shown
<1>3. IsFiniteSet(1 .. n) /\ IsFiniteSet(1 .. n - 1)
  BY <1>1, FS_Interval, 1 \in Int
<1>4. Shown(n) \in SUBSET (1 .. n) /\ Shown(n - 1) \in SUBSET (1 .. n - 1)
  BY DEF Shown
<1>5. IsFiniteSet(Shown(n)) /\ IsFiniteSet(Shown(n - 1))
  BY <1>3, <1>4, FS_Subset
<1>6. Cardinality(Shown(n - 1)) \in Nat
  BY <1>5, FS_CardinalityType
<1>7. Cardinality(Shown(n - 1) \cup {n}) = Cardinality(Shown(n - 1)) + 1
  BY <1>2, <1>5, FS_AddElement
<1>8. QED BY <1>2, <1>5, <1>6, <1>7

\* Writing one more screenshot.
LEMMA GalleryGrows ==
  ASSUME TypeOK, Screenshot, position = Cardinality(Shown(i - 1)),
         media = KeptMedia \cup Gallery(i - 1)
  PROVE  /\ position' = Cardinality(Shown(i)) /\ media' = KeptMedia \cup Gallery(i)
         /\ i' = i + 1 /\ i \in 1 .. Len(raw.screenshots)
         /\ UNCHANGED <<raw, at, list, game, refs, companies>>
<1>1. /\ i \in Nat \ {0} /\ i \in 1 .. Len(raw.screenshots) /\ i' = i + 1
      /\ UNCHANGED <<raw, at, list, game, refs, companies>>
  BY PayloadShape DEF TypeOK, Screenshot
<1> DEFINE one == Media("screenshot", raw.screenshots[i], position)
<1>2. CASE raw.screenshots[i] = NoImage
  <2>1. Shown(i) = Shown(i - 1)
    BY <1>1, <1>2, ShownGrow
  <2>2. QED BY <1>1, <1>2, <2>1 DEF Screenshot, Gallery
<1>3. CASE raw.screenshots[i] # NoImage
  <2>1. Shown(i) = Shown(i - 1) \cup {i} /\ Cardinality(Shown(i)) = Cardinality(Shown(i - 1)) + 1
    BY <1>1, <1>3, ShownGrow
  <2>2. Gallery(i) = Gallery(i - 1) \cup {one}
    BY <2>1 DEF Gallery
  <2>3. media' = media \cup {one} /\ position' = position + 1
    BY <1>3 DEF Screenshot, ScreenshotPosition
  <2> HIDE DEF one
  <2>4. QED BY <1>1, <2>1, <2>2, <2>3
<1>4. QED BY <1>2, <1>3

-----------------------------------------------------------------------------
(* The results.                                                            *)

\* What is said of the payload alone stays true.
LEMMA PayloadFixed ==
  ASSUME raw' = raw
  PROVE  /\ \A id : FirstRef(id)' = FirstRef(id)
         /\ \A n : CreditsOf(n)' = CreditsOf(n)
         /\ \A n : Shown(n)' = Shown(n) /\ Gallery(n)' = Gallery(n)
         /\ KeptMedia' = KeptMedia
BY DEF FirstRef, CreditsOf, Shown, Gallery, KeptMedia

\* A loop that begins has made nothing yet.
LEMMA NothingYet ==
  /\ Firsts(<<>>, 0) /\ CreditsOf(0) = {} /\ Once(<<>>, {})
  /\ Shown(0) = {} /\ Cardinality(Shown(0)) = 0 /\ Gallery(0) = {}
BY FS_EmptySet DEF Firsts, CreditsOf, Once, Shown, Gallery

\* The lists that are finished stay as they are.
LEMMA ListsKept ==
  ASSUME NormalizeInv, UNCHANGED <<raw, at, refs, companies>>
  PROVE  RefsAreFirsts' /\ CompaniesAreCredits'
<1>1. RefsAreFirsts'
  BY PayloadFixed DEF NormalizeInv, RefsAreFirsts, Firsts
<1>2. CompaniesAreCredits'
  BY PayloadFixed DEF NormalizeInv, CompaniesAreCredits, Once, CreditsOf
<1>3. QED BY <1>1, <1>2

\* And so does the media.
LEMMA ResultsKept ==
  ASSUME NormalizeInv, UNCHANGED <<raw, at, refs, companies, media>>
  PROVE  RefsAreFirsts' /\ CompaniesAreCredits' /\ MediaReplaced'
<1>1. KeptMedia' = KeptMedia
  BY PayloadFixed
<1>2. Gallery(Len(raw.screenshots))' = Gallery(Len(raw.screenshots))
  BY DEF Gallery, Shown
<1>3. MediaReplaced'
  BY <1>1, <1>2 DEF NormalizeInv, MediaReplaced
<1>4. QED BY <1>3, ListsKept

\* Every step keeps what the loops have made.
LEMMA NextNormalizeInv ==
  ASSUME TypeOK, NormalizeInv, [Next]_vars
  PROVE  NormalizeInv'
<1>0. /\ Len(raw.refs) \in Nat /\ Len(raw.companies) \in Nat /\ Len(raw.screenshots) \in Nat
      /\ i \in Nat \ {0} /\ LoopInv
  BY PayloadShape DEF TypeOK, NormalizeInv
<1>1. CASE RefStep
  <2>1. at = "refs" /\ Firsts(list.out, i - 1) /\ list.seen = {RefKey(raw.refs[m]) : m \in 1 .. i - 1}
    BY <1>0, <1>1 DEF RefStep, LoopInv
  <2>2. /\ Firsts(list.out, i - 1)' /\ list'.seen = {RefKey(raw.refs[m]) : m \in 1 .. i}
        /\ i' = i + 1 /\ i \in 1 .. Len(raw.refs)
        /\ UNCHANGED <<raw, at, game, refs, companies, media, position>>
    BY <1>1, <2>1, FirstsGrow
  <2>3. i' - 1 = i /\ i' <= Len(raw.refs) + 1
    BY <1>0, <2>2
  <2>4. list'.seen = {RefKey(raw'.refs[m]) : m \in 1 .. i' - 1}
    BY <2>2, <2>3 DEF RefKey
  <2>5. LoopInv'
    BY <1>0, <2>1, <2>2, <2>3, <2>4 DEF LoopInv, RefKey
  <2>6. QED BY <2>2, <2>5, ResultsKept DEF NormalizeInv
<1>2. CASE RefsDone
  <2>1. /\ at = "refs" /\ i = Len(raw.refs) + 1 /\ Firsts(list.out, Len(raw.refs))
        /\ at' = "companies" /\ i' = 1 /\ list' = Empty /\ refs' = list.out /\ raw' = raw
        /\ media' = OldMedia
    BY <1>0, <1>2 DEF RefsDone, NextLoop, LoopInv
  <2>2. RefsAreFirsts'
    BY <2>1, PayloadFixed DEF RefsAreFirsts, Firsts
  <2>3. CreditsOf(0)' = {}
    BY DEF CreditsOf
  <2>4. i' - 1 = 0 /\ i' <= Len(raw'.companies) + 1
    BY <1>0, <2>1
  <2>5. LoopInv'
    BY <2>1, <2>3, <2>4, NothingYet DEF LoopInv, Empty, CreditsOf, Once
  <2>6. QED BY <2>1, <2>2, <2>5 DEF NormalizeInv, CompaniesAreCredits, MediaReplaced
<1>3. CASE CompanyStep
  <2>1. at = "companies" /\ list.seen = CreditsOf(i - 1) /\ Once(list.out, CreditsOf(i - 1))
    BY <1>0, <1>3 DEF CompanyStep, LoopInv
  <2>2. /\ list'.seen = CreditsOf(i) /\ Once(list'.out, CreditsOf(i))
        /\ i' = i + 1 /\ i \in 1 .. Len(raw.companies)
        /\ UNCHANGED <<raw, at, game, refs, companies, media, position>>
    BY <1>3, <2>1, CreditsGrow
  <2>3. i' - 1 = i /\ i' <= Len(raw'.companies) + 1
    BY <1>0, <2>2
  <2>4. CreditsOf(i - 1)' = CreditsOf(i)
    BY <2>2, <2>3 DEF CreditsOf
  <2>5. LoopInv'
    BY <1>0, <2>1, <2>2, <2>3, <2>4 DEF LoopInv, Once
  <2>6. QED BY <2>2, <2>5, ResultsKept DEF NormalizeInv
<1>4. CASE CompaniesDone
  <2>1. /\ at = "companies" /\ i = Len(raw.companies) + 1 /\ media = OldMedia
        /\ Once(list.out, CreditsOf(Len(raw.companies)))
        /\ at' = "media" /\ i' = 1 /\ companies' = list.out /\ refs' = refs /\ raw' = raw
        /\ position' = 0
        /\ media' = {m \in media : m.type \notin Imported}
                    \cup (IF raw.cover = NoImage THEN {} ELSE {Media("cover", raw.cover, 0)})
    BY <1>0, <1>4 DEF CompaniesDone, NextLoop, LoopInv
  <2>2. CompaniesAreCredits'
    BY <2>1, PayloadFixed DEF CompaniesAreCredits, Once
  <2>3. RefsAreFirsts'
    BY <2>1, PayloadFixed DEF NormalizeInv, RefsAreFirsts, Firsts
  <2>4. media' = KeptMedia
    <3>1. {Media("cover", c, 0) : c \in {raw.cover} \ {NoImage}}
            = IF raw.cover = NoImage THEN {} ELSE {Media("cover", raw.cover, 0)}
      OBVIOUS
    <3>2. QED BY <2>1, <3>1 DEF KeptMedia
  <2>5. KeptMedia' = KeptMedia /\ Gallery(0)' = {} /\ Cardinality(Shown(0))' = 0
    BY <2>1, PayloadFixed, NothingYet
  <2>6. i' - 1 = 0 /\ i' <= Len(raw'.screenshots) + 1
    BY <1>0, <2>1
  <2>7. LoopInv'
    <3>1. Gallery(i - 1)' = {} /\ Cardinality(Shown(i - 1))' = 0
      BY <2>5, <2>6 DEF Gallery, Shown
    <3>2. QED BY <2>1, <2>4, <2>5, <2>6, <3>1 DEF LoopInv
  <2>8. QED BY <2>1, <2>2, <2>3, <2>7 DEF NormalizeInv, MediaReplaced
<1>5. CASE Screenshot
  <2>1. at = "media" /\ position = Cardinality(Shown(i - 1)) /\ media = KeptMedia \cup Gallery(i - 1)
    BY <1>0, <1>5 DEF Screenshot, LoopInv
  <2>2. /\ position' = Cardinality(Shown(i)) /\ media' = KeptMedia \cup Gallery(i)
        /\ i' = i + 1 /\ i \in 1 .. Len(raw.screenshots)
        /\ UNCHANGED <<raw, at, list, game, refs, companies>>
    BY <1>5, <2>1, GalleryGrows
  <2>3. i' - 1 = i /\ i' <= Len(raw'.screenshots) + 1
    BY <1>0, <2>2
  <2>4. Gallery(i - 1)' = Gallery(i) /\ Cardinality(Shown(i - 1))' = Cardinality(Shown(i)) /\ KeptMedia' = KeptMedia
    BY <2>2, <2>3 DEF Gallery, Shown, KeptMedia
  <2>5. LoopInv'
    BY <2>1, <2>2, <2>3, <2>4 DEF LoopInv
  <2>6. RefsAreFirsts' /\ CompaniesAreCredits'
    BY <2>2, ListsKept
  <2>7. QED BY <2>1, <2>2, <2>5, <2>6 DEF NormalizeInv, MediaReplaced
<1>6. CASE MediaDone
  <2>1. /\ at = "media" /\ i = Len(raw.screenshots) + 1 /\ at' = "done" /\ raw' = raw
        /\ UNCHANGED <<refs, companies, media>>
        /\ media = KeptMedia \cup Gallery(Len(raw.screenshots))
    BY <1>0, <1>6 DEF MediaDone, NextLoop, LoopInv
  <2>2. MediaReplaced'
    BY <2>1 DEF MediaReplaced, KeptMedia, Gallery, Shown
  <2>3. RefsAreFirsts'
    BY <2>1, PayloadFixed DEF NormalizeInv, RefsAreFirsts, Firsts
  <2>4. CompaniesAreCredits'
    BY <2>1, PayloadFixed DEF NormalizeInv, CompaniesAreCredits, Once
  <2>5. QED BY <2>1, <2>2, <2>3, <2>4 DEF NormalizeInv, LoopInv
<1>7. CASE UNCHANGED vars
  <2>1. UNCHANGED <<raw, at, i, list, game, refs, companies, media, position>>
    BY <1>7 DEF vars
  <2>2. Firsts(list.out, i - 1) => Firsts(list.out, i - 1)'
    BY <2>1, PayloadFixed DEF Firsts
  <2>3. /\ CreditsOf(i - 1)' = CreditsOf(i - 1) /\ KeptMedia' = KeptMedia
        /\ Gallery(i - 1)' = Gallery(i - 1) /\ Cardinality(Shown(i - 1))' = Cardinality(Shown(i - 1))
    BY <2>1 DEF CreditsOf, KeptMedia, Gallery, Shown
  <2>4. LoopInv'
    BY <1>0, <2>1, <2>2, <2>3 DEF LoopInv, Once, RefKey
  <2>5. QED BY <2>1, <2>4, ResultsKept DEF NormalizeInv
<1>8. QED BY <1>1, <1>2, <1>3, <1>4, <1>5, <1>6, <1>7 DEF Next, Finished

\* The inductive invariant: a loop's list is what the definitions make of the items
\* before its index.
THEOREM NormalizeInvHolds == Spec => []NormalizeInv
<1>1. Init => NormalizeInv
  <2> SUFFICES ASSUME Init PROVE NormalizeInv
    OBVIOUS
  <2>1. Len(raw.refs) \in Nat
    BY PayloadShape DEF Init
  <2>2. LoopInv
    BY <2>1, NothingYet DEF Init, LoopInv, Empty
  <2>3. QED BY <2>2 DEF Init, NormalizeInv, RefsAreFirsts, CompaniesAreCredits, MediaReplaced
<1>2. TypeOK /\ NormalizeInv /\ [Next]_vars => NormalizeInv'
  BY NextNormalizeInv
<1>3. QED BY <1>1, <1>2, NormalizeTypeCorrect, PTL DEF Spec

\* Whatever IGDB sends: a type and roles that the schema accepts, every reference
\* once and by its first occurrence, every credit once (NormalizeIGDBGame).
THEOREM GameNormalizedHolds == Spec => []GameNormalized
<1>1. TypeOK => AcceptedBySchema
  <2> SUFFICES ASSUME TypeOK PROVE AcceptedBySchema
    OBVIOUS
  <2>1. game.type \in GameTypes
    BY DEF TypeOK
  <2>2. ASSUME NEW k \in 1 .. Len(companies) PROVE companies[k][2] \in RolesOfDb
    <3>1. companies[k] \in Pairs
      BY DEF TypeOK
    <3>2. QED BY <3>1 DEF Pairs
  <2>3. QED BY <2>1, <2>2 DEF AcceptedBySchema
<1>2. TypeOK /\ NormalizeInv => GameNormalized
  BY <1>1 DEF NormalizeInv, GameNormalized
<1>3. QED BY <1>2, NormalizeTypeCorrect, NormalizeInvHolds, PTL

\* After importGameMedia the game has the payload's cover and screenshots, in order
\* and without gaps, and nothing that an earlier import wrote.
THEOREM MediaReplacedHolds == Spec => []MediaReplaced
BY NormalizeInvHolds, PTL DEF NormalizeInv
=============================================================================
