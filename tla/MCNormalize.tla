----------------------------- MODULE MCNormalize -----------------------------
(* Instances of Normalize for TLC. *)
EXTENDS Normalize, SequencesExt

Plain == [category |-> 0, released |-> 0, refs |-> <<>>, companies |-> <<>>,
          cover |-> NoImage, screenshots |-> <<>>]

\* Two ids, of which one may come under two slugs and two under one.
SomeRefs == [id : {1, 2}, slug : {"a", "b"}]
SomeCompanies == [id : {1, 2}, developer : BOOLEAN, publisher : BOOLEAN,
                  porting : BOOLEAN, supporting : {FALSE}]
                 \cup [id : {1}, developer : {FALSE}, publisher : {FALSE},
                       porting : {FALSE}, supporting : {TRUE}]

\* Every list of up to four references, of up to three companies, of up to four
\* screenshots; the categories of the map, the next ones and two out of range;
\* dates before, at and after 1970.
Bounded ==
  {[Plain EXCEPT !.refs = r] : r \in BoundedSeq(SomeRefs, 4)}
  \cup {[Plain EXCEPT !.companies = c] : c \in BoundedSeq(SomeCompanies, 3)}
  \cup {[Plain EXCEPT !.screenshots = s, !.cover = c] :
          s \in BoundedSeq({NoImage, "s1", "s2"}, 4), c \in {NoImage, "c1"}}
  \cup {[Plain EXCEPT !.category = c, !.released = d] : c \in {-1, 999} \cup 0 .. 16, d \in {-1, 0, 1}}

Before == {Media("cover", "c0", 0), Media("screenshot", "s0", 0), Media("artwork", "a0", 0)}
=============================================================================
