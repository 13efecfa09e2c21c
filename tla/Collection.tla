----------------------------- MODULE Collection -----------------------------
(* Collection of the hits of a query in src/src/engine.rs: the collector     *)
(* that breaks ties of the score by record ID, its form for traversal that   *)
(* resumes after a boundary, Tantivy's own collector by score, and the       *)
(* response built from them.                                                 *)
(*                                                                           *)
(* A searcher is a sequence of segments [name, deletes, docs]; "docs" are    *)
(* the segment's live matching documents in document order.  Scores and IDs  *)
(* are numbers ordered like the code's f32::total_cmp and byte order.        *)
EXTENDS Naturals, Sequences, SequencesExt, FiniteSets

CONSTANTS MaxResponseBytes, HitBytes, HeaderBytes

(* A collected hit: a document with its segment and its place there.         *)
Hit(segment, k, doc) == [id |-> doc.id, score |-> doc.score, at |-> <<segment, k>>]

Earlier(x, y) == x[1] < y[1] \/ (x[1] = y[1] /\ x[2] < y[2])

(* The order of a response: score descending, then ID, then address.         *)
Before(x, y) ==
  \/ x.score > y.score
  \/ x.score = y.score /\ x.id < y.id
  \/ x.score = y.score /\ x.id = y.id /\ Earlier(x.at, y.at)

(* Tantivy's order by score: ties in document order.                         *)
BeforeByScore(x, y) == x.score > y.score \/ (x.score = y.score /\ Earlier(x.at, y.at))

Ranked(hits, order(_, _)) ==
  [k \in 1..Cardinality(hits) |->
     CHOOSE h \in hits : Cardinality({x \in hits : order(x, h)}) = k - 1]

Take(seq, n) == SubSeq(seq, 1, IF Len(seq) < n THEN Len(seq) ELSE n)

Drop(seq, n) == SubSeq(seq, n + 1, Len(seq))

Top(hits, n, order(_, _)) == Take(Ranked(hits, order), n)

SegmentHits(searcher, s) == {Hit(s, k, searcher[s].docs[k]) : k \in DOMAIN searcher[s].docs}

AllHits(searcher) == UNION {SegmentHits(searcher, s) : s \in DOMAIN searcher}

(* The ordinal of the first ID after the boundary in the segment's           *)
(* dictionary, if there is one; the dictionary holds the IDs of every        *)
(* document of the segment, in byte order.                                   *)
Dictionary(searcher, s) == {d.id : d \in ToSet(searcher[s].docs)} \cup searcher[s].gone

Ordinal(searcher, s, id) == Cardinality({x \in Dictionary(searcher, s) : x < id})

FirstAfter(searcher, s, boundary) ==
  {o \in {Ordinal(searcher, s, x) : x \in {y \in Dictionary(searcher, s) : y > boundary.id}} :
     \A x \in Dictionary(searcher, s) : x > boundary.id => o <= Ordinal(searcher, s, x)}

(* Mutation: the boundary's own score is skipped as a whole, its ties with   *)
(* it.                                                                       *)
SkippedTies(searcher, s, after, hit) ==
  after # <<>> /\ hit.score >= after[1].score

(* What the traversal collector skips: higher scores, and at the boundary's  *)
(* score the ordinals before the first one after its ID.                     *)
Skipped(searcher, s, after, hit) ==
  /\ after # <<>>
  /\ LET first == FirstAfter(searcher, s, after[1])
     IN \/ hit.score > after[1].score
        \/ /\ hit.score = after[1].score
           /\ \A o \in first : Ordinal(searcher, s, hit.id) < o

(* One segment keeps its best "end" hits; the merge keeps the best of those. *)
SegmentTop(searcher, s, after, end) ==
  Top({h \in SegmentHits(searcher, s) : ~ Skipped(searcher, s, after, h)}, end, Before)

Collected(searcher, start, best) ==
  [retained |-> Len(best), matched |-> Cardinality(AllHits(searcher)), hits |-> Drop(best, start)]

CollectStable(searcher, after, start, end) ==
  Collected(searcher, start,
            Top(UNION {ToSet(SegmentTop(searcher, s, after, end)) : s \in DOMAIN searcher}, end, Before))

ResponseBytes(hits) == HeaderBytes + Len(hits) * HitBytes

(* search_snapshot: the segments and their delete stamps.                    *)
Snapshot(searcher) == {<<searcher[s].name, searcher[s].deletes>> : s \in DOMAIN searcher}

(* A page of a traversal: one hit more than asked for tells whether there    *)
(* are more.                                                                 *)
PageFrom(got, limit) ==
  [hits |-> Take(got.hits, limit), more |-> Len(got.hits) > limit, total |-> got.matched, exact |-> TRUE]

CollectPage(searcher, after, limit) == PageFrom(CollectStable(searcher, after, 0, limit + 1), limit)

(* A window of a query with stable scores.                                   *)
StableWindow(got, end, limit) ==
  LET all == got.retained < end + 1
  IN [hits |-> Take(got.hits, limit), total |-> IF all THEN got.retained ELSE end,
      exact |-> all, collected |-> <<got.matched>>]

CollectStableWindow(searcher, offset, limit) ==
  StableWindow(CollectStable(searcher, <<>>, offset, offset + limit + 1), offset + limit, limit)

BoundaryTie(byScore, end) == Len(byScore) > end /\ byScore[end].score = byScore[end + 1].score

(* A window of any other query: Tantivy's top hits by score, sorted again    *)
(* with the IDs; a tie that the end of the window cuts is collected anew.    *)
ScoreOrIdWindow(byScore, again, offset, limit) ==
  LET end == offset + limit
      tie == BoundaryTie(byScore, end)
  IN [hits |-> IF tie THEN again.hits
               ELSE Take(Drop(Ranked(ToSet(byScore), Before), offset), limit),
      total |-> IF Len(byScore) <= end THEN Len(byScore) ELSE end,
      exact |-> Len(byScore) <= end,
      collected |-> IF tie THEN <<again.matched>> ELSE <<>>]

CollectWindow(searcher, offset, limit) ==
  ScoreOrIdWindow(Top(AllHits(searcher), offset + limit + 1, BeforeByScore),
                  CollectStable(searcher, <<>>, offset, offset + limit), offset, limit)

(* The total the caller is told: exact when asked for, from the collector or *)
(* a count of the matches.                                                   *)
WithTotal(searcher, window, exactTotal) ==
  IF ~ exactTotal \/ (window.exact /\ window.collected = <<>>) THEN window
  ELSE [window EXCEPT !.exact = TRUE,
          !.total = IF window.collected # <<>> THEN window.collected[1]
                    ELSE Cardinality(AllHits(searcher))]

-----------------------------------------------------------------------------
(* What a response should be: the ranking of every live match.               *)

Ranking(searcher) ==
  LET sorted == Ranked(AllHits(searcher), Before)
  IN [k \in DOMAIN sorted |-> [id |-> sorted[k].id, score |-> sorted[k].score]]

Public(hits) == [k \in DOMAIN hits |-> [id |-> hits[k].id, score |-> hits[k].score]]

=============================================================================
