--------------------------- MODULE SearchRequests ---------------------------
(* A search or a trace from its submission to its answer: the scan that      *)
(* picks the lane of a packed search (native.rs, protocol.rs), the decoder   *)
(* and the admission checks, the construction of the query and the           *)
(* collection of its hits (engine.rs, catalog.rs), while the writer          *)
(* publishes new segments, deletes and merges.  A traversal asks for page    *)
(* after page of one snapshot, a trace recovery for page after page of its   *)
(* records.  A worker runs one request at a time and the requests share only *)
(* the published index and the cache of dictionary maxima, so one client is  *)
(* modelled; lanes and permits are in SearchLanes.                           *)
EXTENDS TraceMatching, Collection, Catalog

CONSTANTS Configs,               \* the configurations an index may be opened with
          Requests,              \* what a client may ask for
          FirstIndex,            \* the segments at the start
          Batches,               \* what a publication may add and delete: [adds, deletes]
          MaxPublishes,          \* bound on publications and merges
          MaxWindow, MaxPageSize, MaxAutocomplete

VARIABLES config,                \* the engine's configuration
          index,                 \* the published segments
          publishes,             \* publications and merges so far
          cache,                 \* dictionary maxima, shared by every index of the process
          stage,                 \* "idle", "queued", "begun", "built", "done"
          request, lane,         \* the request under way and the lane it was queued in
          searcher,              \* the segments the worker acquired
          query,                 \* the query built
          answer,                \* the completion of the request
          walked,                \* hits of the traversal's pages so far
          settled                \* records a trace recovery has settled so far

ASSUME \A c \in Configs : QueryLimitsOk(c.terms, c.clauses)

vars == <<config, index, publishes, cache, stage, request, lane, searcher, query, answer, walked, settled>>

None == [err |-> "none"]

Failure(code) == [err |-> code]

TimeOutError == "E_TIMEOUT"

Init ==
  /\ config \in Configs
  /\ index = FirstIndex
  /\ publishes = 0
  /\ cache = <<>>
  /\ stage = "idle"
  /\ request = [kind |-> "none"] /\ lane = "none"
  /\ searcher = <<>> /\ query = None /\ answer = None
  /\ walked = <<>> /\ settled = <<>>

-----------------------------------------------------------------------------
(* The published index.                                                      *)

Shrunk(segment, ids) ==
  LET hit == {d.id : d \in Live(segment)} \cap ids
  IN IF hit = {} THEN segment
     ELSE [segment EXCEPT !.dead = @ \cup hit, !.deletes = @ + 1]

Publish(b) ==
  /\ publishes < MaxPublishes
  /\ LET ids == b.deletes \cup {d.id : d \in ToSet(b.adds)}
         kept == SelectSeq([s \in DOMAIN index |-> Shrunk(index[s], ids)], LAMBDA s : Live(s) # {})
         added == [name |-> publishes + 1, deletes |-> 0, docs |-> b.adds, dead |-> {}]
     IN index' = IF b.adds = <<>> THEN kept ELSE Append(kept, added)
  /\ publishes' = publishes + 1
  /\ UNCHANGED <<config, cache, stage, request, lane, searcher, query, answer, walked, settled>>

Merge ==
  /\ publishes < MaxPublishes
  /\ Len(index) > 1
  /\ index' = <<[name |-> publishes + 1, deletes |-> 0, dead |-> {},
                 docs |-> FlattenSeq([s \in DOMAIN index |->
                            SelectSeq(index[s].docs, LAMBDA d : d.id \notin index[s].dead)])]>>
  /\ publishes' = publishes + 1
  /\ UNCHANGED <<config, cache, stage, request, lane, searcher, query, answer, walked, settled>>

-----------------------------------------------------------------------------
(* Classification.                                                           *)

HasCatalog(r) == r.sort # <<>> \/ r.aggs # <<>>

Raised(cfg) == cfg.terms > DefaultTerms \/ cfg.clauses > DefaultClauses

RECURSIVE AggregationsScanned(_, _)
AggregationsScanned(aggs, depth) ==
  /\ aggs # <<>> => depth <= MaxAggregationDepth
  /\ \A k \in DOMAIN aggs : /\ aggs[k].kind = "range" => aggs[k].ranges # <<>>
                            /\ aggs[k].kind = "stats" => aggs[k].sub = <<>>
                            /\ AggregationsScanned(aggs[k].sub, depth + 1)

(* What the scan and the decoder both refuse, under a limit on clauses and   *)
(* on fields.                                                                *)
Readable(r, clauses, fields) ==
  /\ ExpressionDecodes(r.expression, clauses, fields)
  /\ CandidatesOk(r.candidates)
  /\ r.filter # <<>> => FilterOk(r.filter[1])
  /\ AggregationsScanned(r.aggs, 1)

ClassifySearch(cfg, r) ==
  LET cost == ScanCost(r.expression, Raised(cfg), Len(cfg.fields))
  IN \/ r.traversal
     \/ HasCatalog(r)
     \/ Raised(cfg) /\ (cost.terms > DefaultTerms \/ cost.construction > DefaultClauses)
     \/ cost.expensive
     \/ ~ cost.anchor
     \/ r.filter # <<>> /\ FilterIsExpensive(r.filter[1])
     \/ r.exactTotal

(* native_search and native_trace_matches.                                   *)
Enqueue(r) ==
  /\ request' = r
  /\ IF r.kind = "trace"
     THEN stage' = "queued" /\ lane' = "expensive" /\ answer' = None
     ELSE IF Readable(r, config.clauses, Len(config.fields))
     THEN /\ stage' = "queued" /\ answer' = None
          /\ lane' = IF ClassifySearch(config, r) THEN "expensive" ELSE "cheap"
     ELSE stage' = "done" /\ lane' = "none" /\ answer' = Failure(Invalid)
  /\ searcher' = <<>> /\ query' = None
  /\ UNCHANGED <<config, index, publishes, cache>>

Submit ==
  /\ stage = "idle"
  /\ \E r \in Requests : Enqueue(r)
  /\ walked' = <<>> /\ settled' = <<>>

-----------------------------------------------------------------------------
(* Execution.                                                                *)

WindowOk(r) ==
  /\ r.limit > 0
  /\ IF r.traversal THEN r.offset = 0 /\ r.limit <= MaxPageSize
     ELSE r.offset + r.limit <= MaxWindow

Admitted(r) ==
  /\ WindowOk(r)
  /\ Readable(r, ConfiguredClauses, MaxFields)
  /\ ContainsPrefix(r.expression) /\ ~ r.traversal => r.offset = 0 /\ r.limit <= MaxAutocomplete

(* decode_search, and search_inner up to the construction of the query: ""   *)
(* or the code of the refusal.                                               *)
Begun(r, segments) ==
  LET catalog == ValidateRequests(config.types, r.sort, r.aggs)
  IN IF ~ Admitted(r) \/ (r.traversal /\ HasCatalog(r)) THEN Invalid
     ELSE IF HasCatalog(r) /\ catalog # "" THEN catalog
     ELSE IF HasCatalog(r) /\ ~ ShapeOk(r.aggs, Len(segments)) THEN Resource
     ELSE IF r.traversal /\ r.after # <<>> /\ r.after[1].snapshot # Snapshot(segments)
     THEN "E_CURSOR_EXPIRED"
     ELSE ""

Answer(a) ==
  /\ answer' = a
  /\ stage' = "done"

(* On to the next stage, or the error.                                       *)
Proceed(err, next) ==
  IF err = "" THEN stage' = next /\ UNCHANGED answer ELSE Answer(Failure(err))

Begin ==
  /\ stage = "queued" /\ request.kind = "search"
  /\ searcher' = index
  /\ Proceed(Begun(request, index), "begun")
  /\ UNCHANGED <<config, index, publishes, cache, request, lane, query, walked, settled>>

(* A check of the deadline fails: before the query is built, after it, and   *)
(* in or after the collection.                                               *)
TimeOut ==
  /\ stage \in {"begun", "built"} \/ (stage = "queued" /\ request.kind = "trace")
  /\ Answer(Failure(TimeOutError))
  /\ UNCHANGED <<config, index, publishes, cache, request, lane, searcher, query, walked, settled>>

SurfaceDictionary(segments) ==
  [f \in ToSet(config.fields) |->
     UNION {IndexedSurface(config, d, {f}) : d \in UNION {ToSet(s.docs) : s \in ToSet(segments)}}]

(* query: the expression's query, the candidates and the filter.             *)
Constructed(built) ==
  /\ query' = built
  /\ Proceed(IF built.err # "" THEN built.err
             ELSE IF request.filter # <<>> /\ ~ FilterQueryOk(config.types, request.filter[1]) THEN Invalid
             ELSE "", "built")

Build ==
  /\ stage = "begun"
  /\ Constructed(RootQuery(config, SurfaceDictionary(searcher), request.expression))
  /\ UNCHANGED <<config, index, publishes, cache, request, lane, searcher, walked, settled>>

(* Does the query of a request match a document?                             *)
Wanted(r, d) ==
  /\ Matches(config, r.expression, d)
  /\ IsCandidate(r.candidates, d.id)
  /\ r.filter # <<>> => FilterMatches(d, r.filter[1])

MatchingDocs(r, segments) == {d \in UNION {Live(s) : s \in ToSet(segments)} : Wanted(r, d)}

(* The segments as the collectors see them.                                  *)
View(segments, matching) ==
  [s \in DOMAIN segments |->
     LET hit(d) == d.id \notin segments[s].dead /\ d \in matching
     IN [name |-> segments[s].name, deletes |-> segments[s].deletes,
         docs |-> SelectSeq(segments[s].docs, hit),
         gone |-> {d.id : d \in {x \in ToSet(segments[s].docs) : ~ hit(x)}}]]

(* A response, or the error of one that is too large.                        *)
Sized(hits, encoded, rest) ==
  IF encoded.err # "" THEN Failure(encoded.err)
  ELSE IF ResponseBytes(hits) + encoded.bytes > MaxResponseBytes THEN Failure(TooLarge)
  ELSE [err |-> "", hits |-> hits] @@ rest

PageOf(page) ==
  Sized(Public(page.hits), Encoder,
        [total |-> page.total, exact |-> TRUE, more |-> page.more, snapshot |-> Snapshot(searcher)])

EncodeResults(matching) == EncodeLevel(Encoder, LiveMatching(searcher, matching), request.aggs)

CollectTraversal(matching) == PageOf(CollectPage(View(searcher, matching), request.after, request.limit))

(* Budgets, then one collection of the hits, the count and the buckets.      *)
SortWindowEnd(r, segments) ==
  Lesser(r.offset + r.limit, Max({1, SumOver(segments, LAMBDA s : Cardinality(Live(s)))}))

AggregationsOk(r, segments, matching) ==
  r.aggs # <<>> => TermsBudgetOk(segments, matching, r.aggs, cache) /\ PositionsSafe(matching, r.aggs, <<>>)

CollectSorted(matching) ==
  IF /\ SortBudgetOk(config.types, searcher, matching, request.sort,
                     SortWindowEnd(request, searcher), cache)
     /\ AggregationsOk(request, searcher, matching)
  THEN Sized(Public(SortedWindow(searcher, matching, request.sort, request.offset, request.limit)),
             EncodeResults(matching),
             [total |-> Cardinality(matching), exact |-> TRUE, more |-> FALSE])
  ELSE Failure(Resource)

ScoreWindow(view) ==
  IF request.candidates = <<>> /\ request.filter = <<>> /\ query.stable
  THEN CollectStableWindow(view, request.offset, request.limit)
  ELSE CollectWindow(view, request.offset, request.limit)

WindowOf(matching, counted) ==
  Sized(Public(counted.hits), EncodeResults(matching),
        [total |-> counted.total, exact |-> counted.exact, more |-> FALSE])

CollectView(matching, view) == WindowOf(matching, WithTotal(view, ScoreWindow(view), request.exactTotal))

CollectByScore(matching) ==
  IF AggregationsOk(request, searcher, matching) THEN CollectView(matching, View(searcher, matching))
  ELSE Failure(Resource)

CollectMatching(matching) ==
  IF request.traversal THEN CollectTraversal(matching)
  ELSE IF request.sort # <<>> THEN CollectSorted(matching) ELSE CollectByScore(matching)

(* The maxima that estimates read are kept: those of a sort's strings, of    *)
(* the IDs, of the terms.  How many are read before an estimate is decided   *)
(* is left open.                                                             *)
OfEverySegment(fields) ==
  FlattenSeq([s \in DOMAIN searcher |-> [k \in DOMAIN fields |-> <<searcher[s], fields[k]>>]])

CacheReads ==
  LET strings == StringSorts(config.types, request.sort)
  IN OfEverySegment([k \in DOMAIN strings |-> strings[k].field])
     \o OfEverySegment(IF request.sort = <<>> THEN <<>> ELSE <<IdField>>)
     \o OfEverySegment(SelectSeq(config.filters, LAMBDA f : f \in TermFields(request.aggs)))

Cached(reads) ==
  FoldLeft(LAMBDA c, read : CacheInsert(c, CacheKey(read[1], read[2]), CachedMaximum(c, read[1], read[2])),
           cache, reads)

(* collect_search.                                                           *)
Responded(a) ==
  /\ Answer(a)
  /\ walked' = IF request.traversal /\ a.err = "" THEN walked \o a.hits ELSE walked

Collect ==
  /\ stage = "built"
  /\ Responded(CollectMatching(MatchingDocs(request, searcher)))
  /\ \E n \in 0..Len(CacheReads) : cache' = Cached(SubSeq(CacheReads, 1, n))
  /\ UNCHANGED <<config, index, publishes, request, lane, searcher, query, settled>>

(* The next page: what follows the last hit, on the same snapshot.           *)
NextPage ==
  /\ stage = "done" /\ request.kind = "search"
  /\ answer.err = "" /\ answer.more
  /\ Enqueue([request EXCEPT !.after = <<[snapshot |-> answer.snapshot,
                                          score |-> Last(answer.hits).score, id |-> Last(answer.hits).id]>>])
  /\ UNCHANGED <<walked, settled>>

(* A page of a trace: the records not settled yet.                           *)
Unsettled == SubSeq(request.records, Len(settled) + 1, Len(request.records))

Trace ==
  /\ stage = "queued" /\ request.kind = "trace"
  /\ Answer(TraceMatches(config, request.expression, request.candidates, Unsettled, request.recovery))
  /\ UNCHANGED <<config, index, publishes, cache, request, lane, searcher, query, walked, settled>>

(* What the facade demands of a page before it hands it on (an answer that   *)
(* does not decode is E_NATIVE_FAILURE).                                     *)
ProgressDecodes ==
  LET settledNow == answer.states
      matched == SelectSeq([k \in DOMAIN settledNow |-> k], LAMBDA k : settledNow[k].membership = "yes")
  IN /\ Len(settledNow) <= Len(Unsettled)
     /\ Unsettled # <<>> => settledNow # <<>>
     /\ \A k \in DOMAIN settledNow :
          /\ settledNow[k].membership = "unknown" => ~ settledNow[k].analysis
          /\ settledNow[k].spansComplete => settledNow[k].analysis
     /\ [k \in DOMAIN matched |-> Unsettled[matched[k]].id] = [k \in DOMAIN answer.out |-> answer.out[k].id]
     /\ answer.complete => /\ Len(settledNow) = Len(Unsettled)
                           /\ \A k \in DOMAIN settledNow : settledNow[k].spansComplete

NextTracePage ==
  /\ stage = "done" /\ request.kind = "trace"
  /\ answer.err = "" /\ request.recovery
  /\ Len(settled) + Len(answer.states) < Len(request.records)
  /\ settled' = settled \o answer.states
  /\ Enqueue(request)
  /\ UNCHANGED walked

Receive ==
  /\ stage = "done"
  /\ stage' = "idle"
  /\ request' = [kind |-> "none"] /\ lane' = "none"
  /\ searcher' = <<>> /\ query' = None /\ answer' = None
  /\ walked' = <<>> /\ settled' = <<>>
  /\ UNCHANGED <<config, index, publishes, cache>>

Next ==
  \/ \E b \in Batches : Publish(b)
  \/ Merge
  \/ Submit \/ Begin \/ Build \/ Collect \/ TimeOut \/ NextPage
  \/ Trace \/ NextTracePage
  \/ Receive

Spec == Init /\ [][Next]_vars

-----------------------------------------------------------------------------
(* The scan looks at a packed search without analysing it; what it lets into *)
(* the cheap lane must be cheap once it is built: no phrase, prefix or fuzzy *)
(* clause, no more terms in a clause and no more clauses in the query than   *)
(* the default profile allows, and some clause a match has to satisfy, so    *)
(* that no search of the cheap lane walks every document (classify_search).  *)
ClassificationSound ==
  stage = "built" /\ lane = "cheap" =>
    /\ query.clauses <= DefaultClauses
    /\ \A c \in ToSet(Leaves(request.expression)) :
         ~ IsExpensive(c.mode) /\ Cardinality(QueryTerms(config, c.text)) <= DefaultTerms
    /\ ~ Matches(config, request.expression,
                 [fields |-> [f \in ToSet(config.fields) |-> <<>>]])

Answered == stage = "done" /\ request.kind = "search" /\ answer.err = ""

(* The order a sort asks for: the first key that differs, then the ID.       *)
KeyFirst(s, x, y) ==
  CASE x = <<>> -> y # <<>> /\ s.missing = "first"
    [] x # <<>> /\ y = <<>> -> s.missing = "last"
    [] OTHER -> IF s.direction = "asc" THEN x[1] < y[1] ELSE x[1] > y[1]

SortedBefore(sorts, x, y) ==
  LET value(d, k) == SortKey(d, sorts[k].field)
      differ == {k \in DOMAIN sorts : value(x, k) # value(y, k)}
  IN IF differ = {} THEN x.id < y.id
     ELSE KeyFirst(sorts[Min(differ)], value(x, Min(differ)), value(y, Min(differ)))

FullRanking(matching) ==
  IF request.sort = <<>> THEN Ranking(View(searcher, matching))
  ELSE Public(RankedDocs(matching, LAMBDA x, y : SortedBefore(request.sort, x, y)))

ExactlyOf(full) ==
  /\ IF request.traversal
     THEN IsPrefix(walked, full) /\ (walked = full <=> ~ answer.more)
     ELSE answer.hits = SubSeq(full, request.offset + 1, Len(Take(full, request.offset + request.limit)))
  /\ IF answer.exact THEN answer.total = Len(full) ELSE answer.total < Len(full)
  /\ request.exactTotal => answer.exact

(* The hits of a window are the slice of the full ranking of the live        *)
(* matches, by score and ID or by the sort keys, whichever collector found   *)
(* them; a total is exact or a lower bound.  The pages of a traversal are    *)
(* together a prefix of the ranking of the snapshot they name, all of it     *)
(* when there are no more, whatever is published between the pages           *)
(* (collect_search, TraversalScoreTieCollector, sorted_catalog).             *)
ResponsesExact ==
  Answered => ExactlyOf(FullRanking(MatchingDocs(request, searcher)))

HeldWithinLimits(matching, held) ==
  /\ held.memory <= MaxAggregationMemory
  /\ held.keys <= MaxTermKeyBytes
  /\ request.sort # <<>> =>
       SortHeld(config.types, searcher, matching, request.sort, SortWindowEnd(request, searcher))
         <= MaxSortMemory

CatalogHeldOk(matching) ==
  HeldWithinLimits(matching, AggregationHeld(searcher, matching, request.aggs))

(* A sort or an aggregation is accepted before it runs from bounds alone:    *)
(* the lengths of keys in the dictionaries, cached or not, and the number of *)
(* values, documents and segments.  What the collection then holds stays     *)
(* within the limits, be the response small enough or not                    *)
(* (check_terms_budget, catalog_sort::check_budget).                         *)
CatalogSound ==
  stage = "done" /\ request.kind = "search" /\ HasCatalog(request) /\ answer.err \in {"", TooLarge}
    => CatalogHeldOk(MatchingDocs(request, searcher))

-----------------------------------------------------------------------------
RECURSIVE PositiveFuzzy(_)
PositiveFuzzy(e) == IF e.kind = "clause" THEN e.mode = "fuzzy"
                    ELSE e.kind # "not" /\ \E k \in DOMAIN e.of : PositiveFuzzy(e.of[k])

AsDocument(rec) ==
  [fields |-> [f \in ToSet(config.fields) |->
     FlattenSeq([k \in DOMAIN rec.fields |-> IF rec.fields[k].field = f THEN rec.fields[k].values ELSE <<>>])]]

(* Every place that shows why a record matches, without any budget.          *)
WholeValue(v) ==
  [field |-> v.field, index |-> v.index, analyzed |-> IndexTokens(config, v.text),
   surface |-> IndexSurface(config, v.text)]

FoundBy(leaf, rec) ==
  UNION {{[at |-> <<v.field, v.index>>, of |-> f] :
            f \in ToSet(Finds(config, leaf.plan, WholeValue(v), leaf.negative))} :
         v \in ToSet(ValuesOf(rec, leaf.fields))}

ShownSpans(e, leaves, found) ==
  LET membership == [k \in DOMAIN leaves |->
                       IF RecordMatches(leaves[k].plan, {x.of.term : x \in found[k]}) THEN "yes" ELSE "no"]
  IN UNION {{<<x.at[1], x.at[2], x.of.from, x.of.to>> : x \in found[k]} :
              k \in Evaluate(e, membership, 0).leaves}

SpansOfLeaves(e, rec, leaves) == ShownSpans(e, leaves, [k \in DOMAIN leaves |-> FoundBy(leaves[k], rec)])

AllSpans(e, rec) == SpansOfLeaves(e, rec, TraceLeaves(config, e, FALSE))

(* What the answer says of a record, against what the search does with it.   *)
SettledSound(s, spans, all, candidate, matches) ==
  /\ s.membership = "no" => ~ (candidate /\ matches)
  /\ s.membership = "yes" => candidate /\ (matches \/ PositiveFuzzy(request.expression))
  /\ s.spansComplete /\ s.membership = "yes" => spans = all
  /\ spans # {} => s.membership = "yes"

RecordSound(k, spans, all, candidate, matches) ==
  /\ k \in DOMAIN answer.states => SettledSound(answer.states[k], spans, all, candidate, matches)
  /\ spans \subseteq all
  /\ answer.complete /\ candidate /\ matches => spans = all

(* What a trace says of a record agrees with what the search does with it:   *)
(* "no" only for records the search would not return, "yes" only for those   *)
(* it would (a fuzzy clause that is not negated also compares the words as   *)
(* written).  Spans said to be complete are all of them; a page said to be   *)
(* complete leaves nothing out.  The facade never rejects a recovery page of *)
(* the engine: each settles at least one record, so that the pages come to   *)
(* an end, and its states agree with the records it reports                  *)
(* (trace_matches_inner, trace_expression, TraceProgress,                    *)
(* decodeTraceProgress).                                                     *)
TraceSound ==
  stage = "done" /\ request.kind = "trace" /\ answer.err = "" =>
    /\ \A k \in DOMAIN Unsettled :
         RecordSound(k,
                     UNION {o.spans : o \in {x \in ToSet(answer.out) : x.id = Unsettled[k].id}},
                     AllSpans(request.expression, Unsettled[k]),
                     IsCandidate(request.candidates, Unsettled[k].id),
                     Matches(config, request.expression, AsDocument(Unsettled[k])))
    /\ request.recovery => ProgressDecodes

=============================================================================
