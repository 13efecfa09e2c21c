------------------------------ MODULE Catalog ------------------------------
(* Sorting and aggregation in src/src/catalog.rs and catalog_sort.rs: the    *)
(* validation of a request, the budgets that decide before the collection    *)
(* whether its collectors and keys can fit in memory, the refinements of     *)
(* those estimates, and what the collection then really holds.               *)
(*                                                                           *)
(* An aggregation is [name, field, kind, size, interval, ranges, sub], a     *)
(* sort [field, direction, missing].  A segment is [name, deletes, docs,     *)
(* dead]: every document it stores and the IDs of the deleted ones.  A       *)
(* stored value is [type, of, bytes]; "of" is its rank among the values of   *)
(* its type.                                                                 *)
EXTENDS Integers, Sequences, SequencesExt, FiniteSets, FiniteSetsExt

CONSTANTS MaxAggregationDepth, MaxAggregationBuckets, MaxAggregationMemory,
          MaxTermKeyBytes, MaxSortMemory, MaxResultBytes,
          NameBytes, AggregationBytes, RangeBytes, CollectorBytes, KeyOverhead,
          BucketBytes,             \* an encoded bucket without its key
          WorstKey,                \* the longest key a dictionary may hold
          MaxRecordId,             \* the longest record ID
          Oversampling,            \* terms a segment keeps per bucket asked for
          SegmentHeader, KeySlot, GlobalHeader, ValueSlot, Parallelism,
          MaxPosition,             \* the last representable histogram position
          CacheEntries, MachineMax

Resource == "E_RESOURCE_LIMIT"

TooLarge == "E_RESULT_TOO_LARGE"

InvalidCatalog == "E_INVALID_ARGUMENT"

(* Sums and products are checked: one over the machine's range is an error.  *)
Exceeded == MachineMax + 1

Checked(n) == IF n > MachineMax THEN Exceeded ELSE n

CheckedProduct(x, y) == IF x = Exceeded \/ y = Exceeded THEN Exceeded ELSE Checked(x * y)

(* Mutation: the product and the sum wrap around.                            *)
AddKeyBudgetWrapping(total, count, bytes, limit) ==
  LET sum == (total + count * bytes) % Exceeded
  IN IF sum > limit THEN Exceeded ELSE sum

AddKeyBudget(total, count, bytes, limit) ==
  LET sum == Checked(total + CheckedProduct(count, bytes))
  IN IF sum > limit THEN Exceeded ELSE sum

-----------------------------------------------------------------------------
(* Validation.                                                               *)

ValidSort(types, sorts) ==
  /\ \A k \in DOMAIN sorts : sorts[k].field \in DOMAIN types /\ types[sorts[k].field] # "boolean"
  /\ \A j, k \in DOMAIN sorts : j # k => sorts[j].field # sorts[k].field

ValidRanges(ranges) ==
  /\ ranges # <<>>
  /\ \A k \in DOMAIN ranges :
       /\ ranges[k].from # <<>> /\ ranges[k].to # <<>> => ranges[k].from[1] < ranges[k].to[1]
       /\ k > 1 => ranges[k].from # <<>> /\ ranges[k].from = ranges[k-1].to
       /\ k < Len(ranges) => ranges[k].to # <<>>

ValidKind(types, a) ==
  CASE a.kind = "terms" -> types[a.field] = "string" /\ a.size > 0
    [] a.kind = "stats" -> types[a.field] = "number" /\ a.sub = <<>>
    [] a.kind = "histogram" -> types[a.field] = "number" /\ a.interval > 0
    [] OTHER -> types[a.field] = "number" /\ ValidRanges(a.ranges)

(* "" or the code of the first refusal.                                      *)
RECURSIVE ValidateAggregations(_, _, _)
ValidateAggregations(types, aggs, depth) ==
  CASE aggs = <<>> -> ""
    [] aggs # <<>> /\ depth > MaxAggregationDepth -> Resource
    [] aggs # <<>> /\ depth <= MaxAggregationDepth
         /\ \E j, k \in DOMAIN aggs : j < k /\ aggs[j].name = aggs[k].name -> InvalidCatalog
    [] OTHER ->
         FoldLeft(LAMBDA err, a :
                    IF err # "" THEN err
                    ELSE IF a.field \notin DOMAIN types \/ ~ ValidKind(types, a) THEN InvalidCatalog
                    ELSE IF a.kind = "terms" /\ Checked(a.size * Oversampling) = Exceeded THEN Resource
                    ELSE ValidateAggregations(types, a.sub, depth + 1), "", aggs)

ValidateRequests(types, sorts, aggs) ==
  IF ~ ValidSort(types, sorts) THEN InvalidCatalog ELSE ValidateAggregations(types, aggs, 1)

-----------------------------------------------------------------------------
(* The shape of a request: what its collectors cost to build in every        *)
(* segment, and the buckets its ranges are sure to make.                     *)

RangeBucketBound(ranges) ==
  Len(ranges) + (IF Head(ranges).from # <<>> THEN 1 ELSE 0) + (IF Last(ranges).to # <<>> THEN 1 ELSE 0)

SumOver(seq, weight(_)) == FoldLeft(LAMBDA n, x : n + weight(x), 0, seq)

RECURSIVE ShapeBytes(_)
ShapeBytes(aggs) ==
  SumOver(aggs, LAMBDA a : AggregationBytes + NameBytes
                           + (IF a.kind = "range" THEN Len(a.ranges) * RangeBytes ELSE 0)
                           + ShapeBytes(a.sub))

RECURSIVE KnownBuckets(_, _)
KnownBuckets(aggs, parents) ==
  SumOver(aggs, LAMBDA a : IF a.kind # "range" THEN 0
                           ELSE LET n == CheckedProduct(parents, RangeBucketBound(a.ranges))
                                IN n + KnownBuckets(a.sub, n))

RECURSIVE Requested(_)
Requested(aggs) == SumOver(aggs, LAMBDA a : 1 + Requested(a.sub))

ConstructionBytes(aggs, segments) ==
  CheckedProduct(ShapeBytes(aggs), IF segments = 0 THEN 1 ELSE segments)

ShapeOk(aggs, segments) ==
  /\ ConstructionBytes(aggs, segments) <= MaxAggregationMemory
  /\ Requested(aggs) * NameBytes <= MaxResultBytes
  /\ KnownBuckets(aggs, 1) <= MaxAggregationBuckets

-----------------------------------------------------------------------------
(* What a segment stores of a field, dead documents included.                *)

Stored(segment, field) == UNION {d.filters[field] : d \in ToSet(segment.docs)}

NumVals(segment, field) == SumOver(segment.docs, LAMBDA d : Cardinality(d.filters[field]))

Lesser(x, y) == IF x < y THEN x ELSE y

(* The IDs are a field of their own.                                         *)
IdField == "__fulltext_id"

MaxDictionaryKey(segment, field) ==
  Max({0} \cup (IF field = IdField THEN {d.idBytes : d \in ToSet(segment.docs)}
                ELSE {v.bytes : v \in Stored(segment, field)}))

(* Mutation: a maximum is remembered for the field, whatever the segment.    *)
CacheKeyOfField(segment, field) == field

(* Mutation: a maximum is remembered for the segment, whatever the field.    *)
CacheKeyOfSegment(segment, field) == segment.name

CacheKey(segment, field) == <<segment.name, field>>

(* The process-wide cache of dictionary maxima keeps a number of entries and *)
(* drops the oldest one first; an entry that is there is left as it is.      *)
CacheInsert(cache, key, maximum) ==
  IF \E k \in DOMAIN cache : cache[k].key = key THEN cache
  ELSE Append(IF Len(cache) = CacheEntries THEN Tail(cache) ELSE cache,
              [key |-> key, maximum |-> maximum])

CachedMaximum(cache, segment, field) ==
  IF \E k \in DOMAIN cache : cache[k].key = CacheKey(segment, field)
  THEN (CHOOSE e \in ToSet(cache) : e.key = CacheKey(segment, field)).maximum
  ELSE MaxDictionaryKey(segment, field)

Position(value, interval) == value.of \div interval

(* Mutation: the last position is left out.                                  *)
PositionsBefore(first, last) == last - first

PositionsThrough(first, last) == last - first + 1

HistogramBucketBound(segment, a) ==
  LET values == Stored(segment, a.field)
      positions == {Position(v, a.interval) : v \in values}
      n == NumVals(segment, a.field)
  IN IF values = {} THEN 0
     ELSE IF Max(positions) > MaxPosition THEN n
     ELSE Lesser(n, PositionsThrough(Min(positions), Max(positions)))

(* The histogram run alone over the matching documents that have a value in  *)
(* every field above it: its number of buckets, or nothing when it fails.    *)
QueryHistogramBound(matching, a, ancestors) ==
  LET docs == {d \in matching : \A f \in ToSet(ancestors) : d.filters[f] # {}}
      positions == {Position(v, a.interval) : v \in UNION {d.filters[a.field] : d \in docs}}
  IN IF Cardinality(positions) > MaxAggregationBuckets \/ \E p \in positions : p > MaxPosition
     THEN <<>> ELSE <<Cardinality(positions)>>

-----------------------------------------------------------------------------
(* The estimate for one segment.  "how" says whether key lengths are read    *)
(* from the dictionaries and whether histograms are bounded by the query:    *)
(* [exact, refined, matching, cache].  "parents" are the buckets whose keys  *)
(* are kept, "collected" those the collectors make before they are cut down. *)

HistogramEstimate(a, how, bound, query) ==
  CASE a.sub = <<>> -> 0
    [] a.sub # <<>> /\ how.refined /\ query # <<>> -> Lesser(bound, query[1])
    [] OTHER -> bound

Buckets(kept, made) == [kept |-> kept, made |-> made]

BucketEstimate(segment, a, how, ancestors) ==
  LET stored == Lesser(Cardinality(Stored(segment, a.field)), NumVals(segment, a.field))
      histogram == HistogramEstimate(a, how, HistogramBucketBound(segment, a),
                                     QueryHistogramBound(how.matching, a, ancestors))
  IN CASE a.kind = "terms" -> Buckets(Lesser(a.size * Oversampling, stored), stored)
       [] a.kind = "histogram" -> Buckets(histogram, histogram)
       [] a.kind = "range" -> Buckets(RangeBucketBound(a.ranges), RangeBucketBound(a.ranges))
       [] OTHER -> Buckets(0, 0)

LongestKey(segment, field, how, kept) ==
  IF how.exact /\ kept # 0 THEN CachedMaximum(how.cache, segment, field) ELSE WorstKey

KeysWith(segment, a, how, keys, parents, kept) ==
  IF a.kind # "terms" THEN keys
  ELSE AddKeyBudget(keys, CheckedProduct(parents, kept),
                    LongestKey(segment, a.field, how, kept) + KeyOverhead, MaxTermKeyBytes)

Charged(memory, keys) ==
  [err |-> IF memory = Exceeded THEN "memory" ELSE IF keys = Exceeded THEN "keys" ELSE "",
   memory |-> memory, keys |-> keys]

RECURSIVE Estimate(_, _, _, _, _, _, _)
EstimateOne(segment, a, how, st, parents, collected, ancestors, buckets) ==
  Estimate(segment, a.sub, how,
           Charged(AddKeyBudget(st.memory, collected, CollectorBytes + NameBytes, MaxAggregationMemory),
                   KeysWith(segment, a, how, st.keys, parents, buckets.kept)),
           CheckedProduct(parents, buckets.kept), CheckedProduct(collected, buckets.made),
           Append(ancestors, a.field))

Estimate(segment, aggs, how, st, parents, collected, ancestors) ==
  IF collected = 0 THEN st
  ELSE FoldLeft(LAMBDA s, a : IF s.err # "" THEN s
                              ELSE EstimateOne(segment, a, how, s, parents, collected, ancestors,
                                               BucketEstimate(segment, a, how, ancestors)), st, aggs)

EstimateAll(segments, aggs, how) ==
  FoldLeft(LAMBDA st, s : Estimate(s, aggs, how, st, 1, 1, <<>>),
           [err |-> "", memory |-> ConstructionBytes(aggs, Len(segments)), keys |-> 0], segments).err

RECURSIVE Refinable(_)
Refinable(aggs) == \E k \in DOMAIN aggs : aggs[k].sub # <<>>
                                          /\ (aggs[k].kind = "histogram" \/ Refinable(aggs[k].sub))

RECURSIVE SomeBound(_, _, _)
SomeBound(matching, aggs, ancestors) ==
  \E k \in DOMAIN aggs :
    /\ aggs[k].sub # <<>>
    /\ \/ aggs[k].kind = "histogram" /\ QueryHistogramBound(matching, aggs[k], ancestors) # <<>>
       \/ SomeBound(matching, aggs[k].sub, Append(ancestors, aggs[k].field))

(* check_terms_budget: a cheap estimate first; when it refuses, one with the *)
(* real key lengths; when that refuses too, one with the query's histograms. *)
How(matching, cache, exact, refined) ==
  [exact |-> exact, refined |-> refined, matching |-> matching, cache |-> cache]

RefinedOk(segments, matching, aggs, cache, approximate) ==
  \/ approximate = ""
  \/ /\ Refinable(aggs) \/ approximate # "memory"
     /\ \/ EstimateAll(segments, aggs, How(matching, cache, TRUE, FALSE)) = ""
        \/ /\ SomeBound(matching, aggs, <<>>)
           /\ EstimateAll(segments, aggs, How(matching, cache, TRUE, TRUE)) = ""

TermsBudgetOk(segments, matching, aggs, cache) ==
  /\ ShapeOk(aggs, Len(segments))
  /\ RefinedOk(segments, matching, aggs, cache,
               EstimateAll(segments, aggs, How(matching, cache, FALSE, FALSE)))

(* The dictionaries an estimate with real lengths reads.                     *)
RECURSIVE TermFields(_)
TermFields(aggs) == UNION {(IF a.kind = "terms" THEN {a.field} ELSE {}) \cup TermFields(a.sub) :
                             a \in ToSet(aggs)}

-----------------------------------------------------------------------------
(* What the collectors of a segment really hold for a set of documents.      *)

InRange(v, r) == (r.from = <<>> \/ v.of >= r.from[1]) /\ (r.to = <<>> \/ v.of < r.to[1])

AllRanges(ranges) ==
  ToSet(ranges)
    \cup (IF Head(ranges).from = <<>> THEN {} ELSE {[from |-> <<>>, to |-> Head(ranges).from]})
    \cup (IF Last(ranges).to = <<>> THEN {} ELSE {[from |-> Last(ranges).to, to |-> <<>>]})

With(docs, field, Test(_)) == {d \in docs : \E v \in d.filters[field] : Test(v)}

(* The keys of the buckets; a range without a document has a bucket too.     *)
BucketKeys(docs, a) ==
  LET values == UNION {d.filters[a.field] : d \in docs}
  IN CASE a.kind = "terms" -> values
       [] a.kind = "range" -> AllRanges(a.ranges)
       [] a.kind = "histogram" -> {Position(v, a.interval) : v \in values}
       [] OTHER -> {}

InBucket(docs, a, key) ==
  With(docs, a.field, LAMBDA v : CASE a.kind = "terms" -> v = key
                                   [] a.kind = "range" -> InRange(v, key)
                                   [] OTHER -> Position(v, a.interval) = key)

RECURSIVE MemoryHeld(_, _)
MemoryHeld(docs, aggs) ==
  SumOver(aggs, LAMBDA a : CollectorBytes + NameBytes
            + MapThenSumSet(LAMBDA k : MemoryHeld(InBucket(docs, a, k), a.sub), BucketKeys(docs, a)))

(* Is a term before another one by its count?  Equal counts are left to      *)
(* Tantivy; here the lesser term goes first.                                 *)
MoreFrequent(count(_), t, u) == count(t) > count(u) \/ (count(t) = count(u) /\ t.of < u.of)

MostFrequent(terms, count(_), n) ==
  {t \in terms : Cardinality({u \in terms : MoreFrequent(count, u, t)}) < n}

(* What a segment keeps: of the terms the most frequent ones.                *)
KeysKept(docs, a) ==
  IF a.kind # "terms" THEN BucketKeys(docs, a)
  ELSE MostFrequent(BucketKeys(docs, a), LAMBDA t : Cardinality(InBucket(docs, a, t)),
                    a.size * Oversampling)

RECURSIVE KeysHeld(_, _)
KeysHeld(docs, aggs) ==
  SumOver(aggs, LAMBDA a :
    MapThenSumSet(LAMBDA k : (IF a.kind = "terms" THEN k.bytes + KeyOverhead ELSE 0)
                             + KeysHeld(InBucket(docs, a, k), a.sub), KeysKept(docs, a)))

Live(segment) == {d \in ToSet(segment.docs) : d.id \notin segment.dead}

LiveMatching(segments, matching) ==
  [s \in DOMAIN segments |-> Live(segments[s]) \cap matching]

AggregationHeld(segments, matching, aggs) ==
  LET live == LiveMatching(segments, matching)
  IN [memory |-> ConstructionBytes(aggs, Len(segments)) + SumOver(live, LAMBDA d : MemoryHeld(d, aggs)),
      keys |-> SumOver(live, LAMBDA d : KeysHeld(d, aggs))]

(* histogram_checks and the collector's look at every matching document: a   *)
(* value whose position does not fit ends the collection.                    *)
RECURSIVE PositionsSafe(_, _, _)
PositionsSafe(matching, aggs, ancestors) ==
  \A k \in DOMAIN aggs :
    LET a == aggs[k]
    IN /\ a.kind = "histogram" =>
            \A d \in matching : (\A f \in ToSet(ancestors) : d.filters[f] # {})
              => \A v \in d.filters[a.field] : Position(v, a.interval) <= MaxPosition
       /\ PositionsSafe(matching, a.sub, Append(ancestors, a.field))

(* The buckets of the response, merged over the segments ("live" has the     *)
(* documents of each): the terms the segments kept, cut to the number asked  *)
(* for by their counts.                                                      *)
MergedBucket(live, a, key) ==
  [s \in DOMAIN live |-> IF key \in KeysKept(live[s], a) THEN InBucket(live[s], a, key) ELSE {}]

MergedKeys(live, a) ==
  LET keys == UNION {KeysKept(docs, a) : docs \in ToSet(live)}
      count(k) == SumOver(MergedBucket(live, a, k), Cardinality)
      from(r) == IF r.from = <<>> THEN -1 ELSE r.from[1]
  IN CASE a.kind = "terms" ->
            SetToSortSeq(MostFrequent(keys, count, a.size), LAMBDA t, u : MoreFrequent(count, t, u))
       [] a.kind = "range" -> SetToSortSeq(keys, LAMBDA r, q : from(r) < from(q))
       [] OTHER -> SetToSortSeq(keys, LAMBDA p, q : p < q)

(* The encoder counts buckets and bytes as it goes; the first limit it meets *)
(* is the answer.                                                            *)
Encoder == [err |-> "", buckets |-> 0, bytes |-> 0]

Encoded(w, n) ==
  CASE w.err # "" -> w
    [] w.err = "" /\ w.bytes + n > MaxResultBytes -> [w EXCEPT !.err = TooLarge]
    [] OTHER -> [w EXCEPT !.bytes = @ + n]

Totalled(w, n) ==
  CASE w.err # "" -> w
    [] w.err = "" /\ w.buckets + n > MaxAggregationBuckets -> [w EXCEPT !.err = Resource]
    [] OTHER -> [w EXCEPT !.buckets = @ + n]

RECURSIVE EncodeLevel(_, _, _)
EncodeResult(w, live, a, keys) ==
  FoldLeft(LAMBDA x, k :
             EncodeLevel(Encoded(x, BucketBytes + (IF a.kind = "terms" THEN k.bytes ELSE 0)),
                         MergedBucket(live, a, k), a.sub),
           Encoded(Totalled(w, Len(keys)), NameBytes), keys)

EncodeLevel(w, live, aggs) ==
  FoldLeft(LAMBDA x, a : EncodeResult(x, live, a, MergedKeys(live, a)), w, aggs)

-----------------------------------------------------------------------------
(* Sorting: the budget of catalog_sort.rs.                                   *)

GlobalKeyBytes(keys) == keys * ValueSlot + GlobalHeader

BufferBytes(end, segments, keys) ==
  LET lanes == Lesser(segments, Parallelism)
  IN Checked(CheckedProduct(2 * end, (keys * KeySlot + SegmentHeader) * lanes)
             + CheckedProduct(2 * end, IF keys <= 4 THEN GlobalKeyBytes(keys) ELSE GlobalHeader)
             + 3 * keys * KeySlot * lanes)

StringSorts(types, sorts) == SelectSeq(sorts, LAMBDA s : types[s.field] = "string")

Fits(segments, end, fixed, sizes) ==
  LET retained == FoldLeftDomain(LAMBDA n, s :
                    Checked(n + CheckedProduct(Lesser(end, Cardinality(Live(segments[s]))), sizes[s])),
                    fixed, segments)
  IN Checked(retained + 2 * Max({0} \cup ToSet(sizes))) <= MaxSortMemory

(* check_budget: the worst keys, the real keys, the real IDs, and at last    *)
(* the number of matches.                                                    *)
SortBudgetOk(types, segments, matching, sorts, end, cache) ==
  LET strings == StringSorts(types, sorts)
      base == GlobalKeyBytes(Len(sorts))
      fixed == BufferBytes(end, Len(segments), Len(sorts))
      keyBytes(s) == SumOver(strings, LAMBDA k : CachedMaximum(cache, segments[s], k.field))
      worst == [s \in DOMAIN segments |-> base + MaxRecordId + Len(strings) * WorstKey]
      exact == [s \in DOMAIN segments |-> base + MaxRecordId + keyBytes(s)]
      byId == [s \in DOMAIN segments |-> base + CachedMaximum(cache, segments[s], IdField) + keyBytes(s)]
      retained == SumOver(segments, LAMBDA s : Lesser(end, Cardinality(Live(s))))
      matches == Cardinality(UNION ToSet(LiveMatching(segments, matching)))
  IN /\ fixed <= MaxSortMemory
     /\ \/ Fits(segments, end, fixed, worst)
        \/ Fits(segments, end, fixed, exact)
        \/ Fits(segments, end, fixed, byId)
        \/ AddKeyBudget(fixed, Lesser(retained, matches) + Lesser(matches, 2),
                        Max({0} \cup ToSet(byId)), MaxSortMemory) # Exceeded

(* Tantivy's comparators, named as the code names them: which of two keys    *)
(* ranks first.  A missing value is the empty sequence.                      *)
Comparator(sort) ==
  CASE sort.direction = "asc" /\ sort.missing = "first" -> "Reverse"
    [] sort.direction = "asc" /\ sort.missing = "last" -> "ReverseNoneLower"
    [] sort.direction = "desc" /\ sort.missing = "first" -> "NaturalNoneHigher"
    [] OTHER -> "Natural"

RanksFirst(comparator, x, y) ==
  CASE x = <<>> \/ y = <<>> ->
         x # y /\ (x = <<>>) = (comparator \in {"Reverse", "NaturalNoneHigher"})
    [] comparator \in {"Reverse", "ReverseNoneLower"} -> x[1] < y[1]
    [] OTHER -> x[1] > y[1]

SortKey(doc, field) ==
  IF doc.filters[field] = {} THEN <<>> ELSE <<(CHOOSE v \in doc.filters[field] : TRUE).of>>

RECURSIVE RanksByKeys(_, _, _)
RanksByKeys(sorts, x, y) ==
  IF sorts = <<>> THEN x.id < y.id
  ELSE LET kx == SortKey(x, Head(sorts).field)
           ky == SortKey(y, Head(sorts).field)
       IN \/ RanksFirst(Comparator(Head(sorts)), kx, ky)
          \/ kx = ky /\ RanksByKeys(Tail(sorts), x, y)

RankedDocs(docs, before(_, _)) ==
  [k \in 1..Cardinality(docs) |-> CHOOSE d \in docs : Cardinality({x \in docs : before(x, d)}) = k - 1]

(* Every segment keeps its first "end" documents, the merge the first of     *)
(* those; the window is what follows the offset.                             *)
SortedWindow(segments, matching, sorts, offset, limit) ==
  LET all == SumOver(segments, LAMBDA s : Cardinality(Live(s)))
      end == Lesser(offset + limit, IF all = 0 THEN 1 ELSE all)
      before(x, y) == RanksByKeys(sorts, x, y)
      first(docs) == LET r == RankedDocs(docs, before) IN SubSeq(r, 1, Lesser(end, Len(r)))
      kept == UNION {ToSet(first(d)) : d \in ToSet(LiveMatching(segments, matching))}
  IN SubSeq(first(kept), offset + 1, Len(first(kept)))

(* The bytes the sort really holds: its buffers, the keys each segment       *)
(* keeps, and the two largest of the merge.                                  *)
SortHeld(types, segments, matching, sorts, end) ==
  LET docBytes(d) == GlobalKeyBytes(Len(sorts)) + d.idBytes
        + SumOver(StringSorts(types, sorts), LAMBDA k : Max({0} \cup {v.bytes : v \in d.filters[k.field]}))
      before(x, y) == RanksByKeys(sorts, x, y)
      live == LiveMatching(segments, matching)
      held(docs) == LET r == RankedDocs(docs, before)
                    IN SumOver(SubSeq(r, 1, Lesser(end, Len(r))), docBytes)
      matches == UNION ToSet(live)
  IN BufferBytes(end, Len(segments), Len(sorts)) + SumOver(live, held)
     + Lesser(Cardinality(matches), 2) * Max({0} \cup {docBytes(d) : d \in matches})

=============================================================================
