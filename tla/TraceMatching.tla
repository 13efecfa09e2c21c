--------------------------- MODULE TraceMatching ---------------------------
(* Match tracing in src/src/engine.rs: which of the records a caller holds   *)
(* match a search, and where, decided from their sources under budgets on    *)
(* tokens, work, spans and response bytes.  A budget that runs out makes a   *)
(* record's membership unknown or its spans incomplete; a recovery page      *)
(* stops there and says how many records it has settled.                     *)
(*                                                                           *)
(* A record is [id, fields]: the sequence of its fields [field, values], in  *)
(* the order of their names, in which values are reported.  Membership is    *)
(* "yes", "no" or "unknown"; a span is the place of its characters,          *)
(* <<field, value index, from, to>>.                                         *)
EXTENDS QueryBuilding

CONSTANTS MaxTraceTokensPerValue, MaxTraceExpressionTokens, MaxTraceExpressionValues,
          MaxTraceWork, MaxTraceSpans, MaxTraceBytes, MaxTraceRecords, MaxTraceSource,
          TraceHeader, RecordHeader, ValueHeader, SpanBytes

Least(x, y) == IF x < y THEN x ELSE y

Minus(x, y) == IF x < y THEN 0 ELSE x - y

-----------------------------------------------------------------------------
(* Plans.                                                                    *)

PrefixMarker == <<"__prefix">>

PhraseMarker == <<"__phrase">>

TypedWordOk(cfg, c, prefix, terms) ==
  /\ Len(prefix) < LongToken
  /\ terms <= cfg.terms
  /\ Len(prefix) >= (IF c.mode = "fuzzy_prefix" THEN MinPrefix + 1 ELSE MinPrefix)

AnalyzedPlanOk(cfg, c, tokens, surface, words) ==
  CASE c.mode \in {"any", "all"} -> Cardinality(ToSet(Terms(tokens))) <= cfg.terms
    [] c.mode = "phrase" -> cfg.positions /\ Len(tokens) <= cfg.terms
    [] c.mode = "fuzzy" ->
         /\ Cardinality(surface) <= cfg.terms
         /\ Cardinality({s \in FuzzyPairs(cfg, surface) : FuzzyEligible(s)}) <= MaxFuzzyTerms
    [] OTHER ->
         IF EndsBlank(c.text) THEN Cardinality(ToSet(Terms(tokens))) <= cfg.terms
         ELSE words = <<>> \/ TypedWordOk(cfg, c, PrefixWord(words), Len(tokens))

TracePlanOk(cfg, c) ==
  AnalyzedPlanOk(cfg, c, QueryTokens(cfg, c.text), SurfaceTerms(c.text), UnfilteredSurface(c.text))

FuzzyPlan(cfg, c, pairs) ==
  [kind |-> "fuzzy", exact |-> {QueryTokens(cfg, s)[1].text : s \in pairs},
   fuzzy |-> {s \in pairs : FuzzyEligible(s)}, distance |-> c.distance]

PrefixPlan(c, words, tokens) ==
  [kind |-> "prefix", distance |-> c.distance,
   completed |-> IF words = <<>> THEN {} ELSE CompletedTerms(words, tokens),
   prefix |-> IF words = <<>> THEN <<>> ELSE PrefixWord(words),
   fuzzy |-> c.mode = "fuzzy_prefix" /\ words # <<>> /\ FuzzyEligible(PrefixWord(words))]

AnalyzedPlan(cfg, c, tokens) ==
  CASE c.mode = "phrase" -> [kind |-> "phrase", phrase |-> tokens]
    [] c.mode = "fuzzy" -> FuzzyPlan(cfg, c, FuzzyPairs(cfg, SurfaceTerms(c.text)))
    [] c.mode \in {"prefix", "fuzzy_prefix"} /\ ~ EndsBlank(c.text) ->
         PrefixPlan(c, UnfilteredSurface(c.text), tokens)
    [] OTHER -> [kind |-> IF c.mode = "any" THEN "any" ELSE "all", terms |-> ToSet(Terms(tokens))]

TracePlan(cfg, c) == AnalyzedPlan(cfg, c, QueryTokens(cfg, c.text))

NeedsSurface(plan, negative) == plan.kind = "prefix" \/ (plan.kind = "fuzzy" /\ ~ negative)

RecordMatches(plan, found) ==
  CASE plan.kind \in {"any", "fuzzy"} -> found # {}
    [] plan.kind = "all" -> plan.terms # {} /\ Cardinality(found) = Cardinality(plan.terms)
    [] plan.kind = "phrase" -> plan.phrase # <<>> /\ PhraseMarker \in found
    [] OTHER -> /\ plan.prefix # <<>>
                /\ PrefixMarker \in found
                /\ Cardinality(found) = Cardinality(plan.completed) + 1

-----------------------------------------------------------------------------
(* The tokens of one value.                                                  *)

SourceTokens(tokens, limit) ==
  LET kept == Least(MaxTraceTokensPerValue, limit)
  IN [tokens |-> SubSeq(tokens, 1, Least(Len(tokens), kept)), truncated |-> Len(tokens) > kept]

Found(term, token) == [term |-> term, from |-> token.from, to |-> token.to]

(* What a plan finds in a value, in the order the tokens are looked at.      *)
PhraseEnd(tokens, phrase, k) ==
  LET last == Last(phrase)
      ends == {i \in DOMAIN tokens :
                 /\ tokens[i].text = last.text
                 /\ tokens[i].position + phrase[1].position = tokens[k].position + last.position}
  IN CHOOSE i \in ends : \A j \in ends : i <= j

FuzzyFinds(cfg, plan, token, terms, negative) ==
  \/ terms \cap plan.exact # {}
  \/ \E s \in plan.fuzzy :
       \/ \E t \in terms : FuzzyMatch(QueryTokens(cfg, s)[1].text, t, plan.distance)
       \/ ~ negative /\ FuzzyMatch(s, token.text, plan.distance)

TermsAt(analyzed, token, negative) ==
  IF negative THEN {token.text}
  ELSE {t.text : t \in {x \in ToSet(analyzed) : x.position = token.position}}

Themselves(tokens) == [k \in DOMAIN tokens |-> Found(tokens[k].text, tokens[k])]

Marked(tokens, marker) == [k \in DOMAIN tokens |-> Found(marker, tokens[k])]

Among(tokens, terms) == Themselves(SelectSeq(tokens, LAMBDA t : t.text \in terms))

PhraseFinds(tokens, phrase) ==
  FlattenSeq([k \in DOMAIN tokens |->
    IF phrase # <<>> /\ tokens[k].text = phrase[1].text /\ PhraseAt(tokens, phrase, k)
    THEN <<[term |-> PhraseMarker, from |-> tokens[k].from,
            to |-> IF Len(phrase) = 1 THEN tokens[k].to ELSE tokens[PhraseEnd(tokens, phrase, k)].to]>>
    ELSE <<>>])

PrefixFinds(plan, token) ==
  \/ IsPrefix(plan.prefix, token.text)
  \/ plan.fuzzy /\ FuzzyPrefixMatch(plan.prefix, token.text, plan.distance)

Finds(cfg, plan, source, negative) ==
  CASE plan.kind \in {"any", "all"} -> Among(source.analyzed, plan.terms)
    [] plan.kind = "phrase" -> PhraseFinds(source.analyzed, plan.phrase)
    [] plan.kind = "prefix" ->
         Among(source.analyzed, plan.completed)
           \o Marked(SelectSeq(source.surface, LAMBDA t : PrefixFinds(plan, t)), PrefixMarker)
    [] OTHER ->
         Themselves(SelectSeq(IF negative THEN source.analyzed ELSE source.surface,
                              LAMBDA t : FuzzyFinds(cfg, plan, t, TermsAt(source.analyzed, t, negative), negative)))

(* trace_tokens: spans up to a maximum; once one was refused, the value is   *)
(* left as soon as the plan is satisfied.                                    *)
Pushed(plan, st, f, span, refused) ==
  [spans |-> IF refused THEN st.spans ELSE st.spans \cup {span}, found |-> st.found \cup {f.term},
   cut |-> st.cut \/ refused, left |-> (st.cut \/ refused) /\ RecordMatches(plan, st.found \cup {f.term})]

TraceToken(plan, maxSpans, st, f) ==
  LET span == <<f.from, f.to>>
  IN IF st.left THEN st
     ELSE Pushed(plan, st, f, span, span \notin st.spans /\ Cardinality(st.spans) >= maxSpans)

Traced(plan, source, negative, done) ==
  [spans |-> done.spans, found |-> done.found, cut |-> done.cut,
   truncated |-> source.analyzedCut \/ (NeedsSurface(plan, negative) /\ source.surfaceCut)]

TraceTokens(cfg, plan, source, maxSpans, negative) ==
  Traced(plan, source, negative,
         FoldLeft(LAMBDA st, f : TraceToken(plan, maxSpans, st, f),
                  [spans |-> {}, found |-> {}, cut |-> FALSE, left |-> FALSE],
                  Finds(cfg, plan, source, negative)))

SpansBefore(x, y) == x[1] < y[1] \/ (x[1] = y[1] /\ x[2] < y[2])

FirstSpans(spans, n) == {s \in spans : Cardinality({x \in spans : SpansBefore(x, s)}) < n}

Placed(source, spans) == {<<source.field, source.index, s[1], s[2]>> : s \in spans}

-----------------------------------------------------------------------------
(* One record of a search that is a single clause.  "page" holds what is     *)
(* left of the shared budgets: [spans, bytes, work].                         *)

ValuesOf(rec, fields) ==
  FlattenSeq([k \in DOMAIN rec.fields |->
    IF rec.fields[k].field \notin fields THEN <<>>
    ELSE [i \in DOMAIN rec.fields[k].values |->
            [field |-> rec.fields[k].field, index |-> i, text |-> rec.fields[k].values[i]]]])

NoTokens == [tokens |-> <<>>, truncated |-> FALSE]

Source(value, analyzed, surface) ==
  [field |-> value.field, index |-> value.index, analyzed |-> analyzed.tokens, surface |-> surface.tokens,
   analyzedCut |-> analyzed.truncated, surfaceCut |-> surface.truncated]

TraceValue(cfg, plan, value) ==
  Source(value, SourceTokens(IndexTokens(cfg, value.text), MaxTraceTokensPerValue),
         IF NeedsSurface(plan, FALSE)
         THEN SourceTokens(IndexSurface(cfg, value.text), MaxTraceTokensPerValue) ELSE NoTokens)

(* The values that fit in the response, with the spans kept of each.         *)
EmittedValue(st, v, keep) ==
  IF keep = 0 THEN [st EXCEPT !.cut = @ \/ v.spans # {}]
  ELSE [out |-> st.out \cup Placed(v.source, FirstSpans(v.spans, keep)),
        spansLeft |-> st.spansLeft - keep, cut |-> st.cut \/ keep < Cardinality(v.spans),
        bytes |-> st.bytes + ValueHeader + keep * SpanBytes]

Emitted(pending, page) ==
  FoldLeft(LAMBDA st, v :
             EmittedValue(st, v, Least(Least(Cardinality(v.spans), st.spansLeft),
                                       Minus(page.bytes, st.bytes + ValueHeader) \div SpanBytes)),
           [out |-> {}, spansLeft |-> page.spans, cut |-> FALSE, bytes |-> RecordHeader], pending)

WithValue(st, source, t) ==
  [found |-> st.found \cup t.found, cut |-> st.cut \/ t.cut,
   truncated |-> st.truncated \/ t.truncated, budget |-> st.budget - Cardinality(t.spans),
   pending |-> IF t.spans = {} THEN st.pending
               ELSE Append(st.pending, [source |-> source, spans |-> t.spans])]

ReadValue(cfg, plan, st, source) ==
  WithValue(st, source, TraceTokens(cfg, plan, source, st.budget, FALSE))

ReadValues(cfg, plan, values, spans) ==
  FoldLeft(LAMBDA st, v : ReadValue(cfg, plan, st, TraceValue(cfg, plan, v)),
           [found |-> {}, cut |-> FALSE, truncated |-> FALSE, budget |-> spans, pending |-> <<>>], values)

SettledClause(page, recovery, read, matched, sent) ==
  LET exhausted == matched /\ (read.cut \/ sent.cut \/ sent.bytes > page.bytes)
      reported == matched /\ (recovery \/ sent.out # {})
  IN [membership |-> IF matched THEN "yes" ELSE IF read.truncated THEN "unknown" ELSE "no",
      analysis |-> ~ read.truncated,
      spansComplete |-> ~ read.truncated /\ ~ exhausted,
      complete |-> ~ read.truncated /\ (matched => ~ read.cut /\ ~ sent.cut),
      exhausted |-> exhausted,
      reported |-> reported,
      out |-> IF reported THEN sent.out ELSE {},
      page |-> IF reported
               THEN [page EXCEPT !.spans = sent.spansLeft, !.bytes = Minus(@, sent.bytes)]
               ELSE page]

ReportedClause(plan, page, recovery, read) ==
  SettledClause(page, recovery, read, RecordMatches(plan, read.found), Emitted(read.pending, page))

PlannedClause(cfg, plan, page, values, recovery) ==
  ReportedClause(plan, page, recovery, ReadValues(cfg, plan, values, page.spans))

TraceClauseRecord(cfg, c, page, rec, recovery) ==
  PlannedClause(cfg, TracePlan(cfg, c), page, ValuesOf(rec, SelectedFields(cfg, c.fields)), recovery)

-----------------------------------------------------------------------------
(* One record of a compound expression.                                      *)

(* prepare_trace_expression: the leaves in order; one under a "not" compares *)
(* analyzed terms only, as the search does.                                  *)
RECURSIVE TraceLeaves(_, _, _)
TraceLeaves(cfg, e, negative) ==
  IF e.kind = "clause"
  THEN <<[plan |-> TracePlan(cfg, e), fields |-> SelectedFields(cfg, e.fields), negative |-> negative]>>
  ELSE FlattenSeq([k \in DOMAIN e.of |-> TraceLeaves(cfg, e.of[k], negative \/ e.kind = "not")])

(* The budgets on phrase and fuzzy work, charged leaf by leaf.               *)
LeafWork(work, plan, n, distance) ==
  CASE plan.kind = "phrase" -> PhraseWork(work, Len(plan.phrase), n)
    [] plan.kind = "fuzzy" -> FuzzyWork(work, Cardinality(plan.fuzzy), n, distance)
    [] plan.kind = "prefix" -> FuzzyWork(work, IF plan.fuzzy THEN 1 ELSE 0, n, distance)
    [] OTHER -> work

TraceWorkOk(cfg, e) ==
  WorkOk(FoldLeft(LAMBDA work, c : LeafWork(work, TracePlan(cfg, c), Cardinality(SelectedFields(cfg, c.fields)),
                                            c.distance),
                  NoWork, Leaves(e)))

TraceExpressionOk(cfg, e) ==
  /\ e.kind # "clause" => StructureOk(e, cfg.clauses, Len(cfg.fields))
  /\ cfg.surface
  /\ \A c \in ToSet(Leaves(e)) : SelectionOk(cfg, c.fields) /\ TracePlanOk(cfg, c)
  /\ e.kind # "clause" => TraceWorkOk(cfg, e)

LeavesBefore(e, k) == FoldLeft(LAMBDA n, c : n + Len(Leaves(c)), 0, SubSeq(e.of, 1, k - 1))

(* What the leaves' memberships say of the record, and the leaves whose      *)
(* spans show why.  "base" counts the leaves before e.                       *)
RECURSIVE Evaluate(_, _, _)
Evaluate(e, membership, base) ==
  LET child == [k \in DOMAIN e.of |-> Evaluate(e.of[k], membership, base + LeavesBefore(e, k))]
      some(m) == \E k \in DOMAIN child : child[k].matched = m
      why(ks) == UNION {child[k].leaves : k \in {j \in ks : child[j].matched = "yes"}}
      decided(short, long) == IF some(short) THEN short ELSE IF some("unknown") THEN "unknown" ELSE long
      because(m) == [matched |-> m, leaves |-> IF m = "yes" THEN why(DOMAIN child) ELSE {}]
  IN CASE e.kind = "clause" ->
            [matched |-> membership[base + 1],
             leaves |-> IF membership[base + 1] = "yes" THEN {base + 1} ELSE {}]
       [] e.kind = "not" ->
            [matched |-> CASE child[1].matched = "yes" -> "no"
                           [] child[1].matched = "no" -> "yes"
                           [] OTHER -> "unknown",
             leaves |-> {}]
       [] e.kind = "and" -> because(decided("no", "yes"))
       [] e.kind = "or" -> because(decided("yes", "no"))
       [] OTHER -> because(child[1].matched)

(* The sources of a record: a budget of tokens and of values, the fields     *)
(* some value of which was left out.                                         *)
SurfaceFields(leaves) == UNION {l.fields : l \in {x \in ToSet(leaves) : NeedsSurface(x.plan, x.negative)}}

SurfaceOf(cfg, v, wanted, left) ==
  IF v.field \notin wanted THEN NoTokens
  ELSE IF left = 0 THEN [NoTokens EXCEPT !.truncated = v.text # <<>>]
  ELSE SourceTokens(IndexSurface(cfg, v.text), left)

WithSource(st, v, analyzed, surface) ==
  [st EXCEPT !.tokens = @ - Len(analyzed.tokens) - Len(surface.tokens),
             !.sources = IF analyzed = NoTokens /\ surface = NoTokens THEN @
                         ELSE Append(@, Source(v, analyzed, surface))]

ReadSource(cfg, wanted, st, v, analyzed) ==
  WithSource(st, v, analyzed, SurfaceOf(cfg, v, wanted, st.tokens - Len(analyzed.tokens)))

NextSource(cfg, wanted, st, v) ==
  IF Len(st.sources) = MaxTraceExpressionValues \/ (st.tokens = 0 /\ v.text # <<>>)
  THEN [st EXCEPT !.missing = @ \cup {v.field}]
  ELSE ReadSource(cfg, wanted, st, v, SourceTokens(IndexTokens(cfg, v.text), st.tokens))

TraceSources(cfg, rec, leaves) ==
  FoldLeft(LAMBDA st, v : NextSource(cfg, SurfaceFields(leaves), st, v),
           [sources |-> <<>>, tokens |-> MaxTraceExpressionTokens, missing |-> {}],
           ValuesOf(rec, UNION {l.fields : l \in ToSet(leaves)}))

SourceCost(leaf, source) ==
  Len(source.analyzed) + (IF NeedsSurface(leaf.plan, leaf.negative) THEN Len(source.surface) ELSE 0)

OfLeaf(leaf, sources) == SelectSeq(sources, LAMBDA s : s.field \in leaf.fields)

(* Is the record matched by a leaf?                                          *)
Looked(st, t, cost) ==
  [st EXCEPT !.work = @ - cost, !.found = @ \cup t.found, !.unknown = @ \/ t.truncated]

LookAt(cfg, leaf, st, s) ==
  IF SourceCost(leaf, s) > st.work THEN [st EXCEPT !.exhausted = TRUE, !.unknown = TRUE]
  ELSE Looked(st, TraceTokens(cfg, leaf.plan, s, 0, leaf.negative), SourceCost(leaf, s))

LeafMembership(cfg, leaf, read, work) ==
  FoldLeft(LAMBDA st, s : LookAt(cfg, leaf, st, s),
           [found |-> {}, unknown |-> leaf.fields \cap read.missing # {}, exhausted |-> FALSE, work |-> work],
           OfLeaf(leaf, read.sources))

WithLeaf(st, leaf, done) ==
  [of |-> Append(st.of, IF RecordMatches(leaf.plan, done.found) THEN "yes"
                        ELSE IF done.unknown THEN "unknown" ELSE "no"),
   work |-> done.work, unknown |-> st.unknown \/ done.unknown, exhausted |-> st.exhausted \/ done.exhausted]

Memberships(cfg, leaves, read, work) ==
  FoldLeft(LAMBDA st, l : WithLeaf(st, l, LeafMembership(cfg, l, read, st.work)),
           [of |-> <<>>, work |-> work, unknown |-> FALSE, exhausted |-> FALSE], leaves)

(* The spans of the leaves that show why a record matched, each once.        *)
Shown(st, s, new, cut, cost) ==
  [out |-> st.out \cup Placed(s, FirstSpans(new, st.spans)),
   spans |-> Minus(st.spans, Cardinality(new)), work |-> st.work - cost,
   cut |-> st.cut \/ cut \/ Cardinality(new) > st.spans]

ShowNew(st, s, t, cost) ==
  Shown(st, s, {x \in t.spans : Placed(s, {x}) \cap st.out = {}}, t.cut, cost)

ShowSource(cfg, leaf, st, s) ==
  IF SourceCost(leaf, s) > st.work THEN [st EXCEPT !.cut = TRUE]
  ELSE ShowNew(st, s, TraceTokens(cfg, leaf.plan, s,
                        st.spans + Cardinality({x \in st.out : x[1] = s.field /\ x[2] = s.index}), FALSE),
               SourceCost(leaf, s))

ShowLeaf(cfg, leaf, sources, st) ==
  FoldLeft(LAMBDA x, s : ShowSource(cfg, leaf, x, s), st, OfLeaf(leaf, sources))

MatchedSpans(cfg, leaves, why, sources, spansLeft, work) ==
  FoldLeftDomain(LAMBDA st, k : IF k \in why THEN ShowLeaf(cfg, leaves[k], sources, st) ELSE st,
                 [out |-> {}, spans |-> spansLeft, work |-> work, cut |-> FALSE], leaves)

SpansOf(out, s) == {<<x[3], x[4]>> : x \in {y \in out : y[1] = s.field /\ y[2] = s.index}}

Pending(sources, out) ==
  LET values == SelectSeq(sources, LAMBDA s : SpansOf(out, s) # {})
  IN [k \in DOMAIN values |-> [source |-> values[k], spans |-> SpansOf(out, values[k])]]

SettledExpression(page, recovery, known, membership, spans, sent) ==
  LET matched == membership = "yes"
      tooLong == matched /\ sent.bytes > page.bytes
      cut == matched /\ (spans.cut \/ sent.cut \/ tooLong)
      reported == matched /\ (recovery \/ ~ tooLong)
  IN [membership |-> membership,
      analysis |-> ~ known.unknown,
      spansComplete |-> ~ known.unknown /\ ~ cut,
      complete |-> ~ known.unknown /\ ~ cut,
      exhausted |-> known.exhausted \/ cut,
      reported |-> reported,
      out |-> IF reported THEN sent.out ELSE {},
      page |-> [spans |-> IF matched THEN sent.spansLeft ELSE page.spans, work |-> spans.work,
                bytes |-> IF reported THEN Minus(page.bytes, sent.bytes) ELSE page.bytes]]

ReportedExpression(page, recovery, sources, known, membership, spans) ==
  SettledExpression(page, recovery, known, membership, spans, Emitted(Pending(sources, spans.out), page))

DecidedExpression(cfg, leaves, page, recovery, sources, known, decision) ==
  ReportedExpression(page, recovery, sources, known, decision.matched,
    MatchedSpans(cfg, leaves, IF decision.matched = "yes" THEN decision.leaves ELSE {}, sources,
                 page.spans, known.work))

EvaluatedExpression(cfg, e, leaves, page, recovery, sources, known) ==
  DecidedExpression(cfg, leaves, page, recovery, sources, known, Evaluate(e, known.of, 0))

ReadExpression(cfg, e, leaves, page, recovery, read) ==
  EvaluatedExpression(cfg, e, leaves, page, recovery, read.sources, Memberships(cfg, leaves, read, page.work))

PlannedExpression(cfg, e, leaves, page, rec, recovery) ==
  ReadExpression(cfg, e, leaves, page, recovery, TraceSources(cfg, rec, leaves))

TraceExpressionRecord(cfg, e, page, rec, recovery) ==
  PlannedExpression(cfg, e, TraceLeaves(cfg, e, FALSE), page, rec, recovery)

-----------------------------------------------------------------------------
(* A page of records.  A recovery page leaves a record that ran out of a     *)
(* shared budget to the next page, unless it is the page's first one, and    *)
(* ends after a record it settled without room.                              *)

(* Mutation: a recovery page leaves even its first record to the next one.   *)
DeferAlways(st, recovery, exhausted) == recovery /\ exhausted

Defer(st, recovery, exhausted) == recovery /\ exhausted /\ st.states # <<>>

NotCandidate == [membership |-> "no", analysis |-> TRUE, spansComplete |-> TRUE]

Consumed(st, id, recovery, r) ==
  IF Defer(st, recovery, r.exhausted) THEN [st EXCEPT !.done = TRUE, !.complete = FALSE]
  ELSE [err |-> "", done |-> recovery /\ r.exhausted, page |-> r.page,
        complete |-> st.complete /\ r.complete,
        out |-> IF r.reported THEN Append(st.out, [id |-> id, spans |-> r.out]) ELSE st.out,
        states |-> Append(st.states, [membership |-> r.membership, analysis |-> r.analysis,
                                      spansComplete |-> r.spansComplete])]

NextRecord(cfg, e, candidates, recovery, st, rec) ==
  IF st.err # "" \/ st.done THEN st
  ELSE IF ~ IsCandidate(candidates, rec.id) THEN [st EXCEPT !.states = Append(@, NotCandidate)]
  ELSE IF \E k \in DOMAIN rec.fields : rec.fields[k].field \notin ToSet(cfg.fields)
  THEN [st EXCEPT !.err = Invalid]
  ELSE Consumed(st, rec.id, recovery,
                IF e.kind = "clause" THEN TraceClauseRecord(cfg, e, st.page, rec, recovery)
                ELSE TraceExpressionRecord(cfg, e, st.page, rec, recovery))

TracePage(done, n, recovery) ==
  [done EXCEPT !.complete = @ /\ (recovery => Len(done.states) = n),
               !.states = IF recovery THEN @ ELSE <<>>]

TraceRecords(cfg, e, candidates, records, recovery) ==
  LET header == TraceHeader + (IF recovery THEN 2 + Len(records) ELSE 0)
  IN TracePage(FoldLeft(LAMBDA st, rec : NextRecord(cfg, e, candidates, recovery, st, rec),
                        [err |-> "", done |-> FALSE, complete |-> TRUE, out |-> <<>>, states |-> <<>>,
                         page |-> [spans |-> MaxTraceSpans, bytes |-> Minus(MaxTraceBytes, header),
                                   work |-> MaxTraceWork]], records), Len(records), recovery)

SourceBytes(records) ==
  FoldLeft(LAMBDA n, r : n + FoldLeft(LAMBDA m, f : m + FoldLeft(LAMBDA b, v : b + Len(v), 0, f.values),
                                      0, r.fields), 0, records)

(* decode_trace.                                                             *)
TraceDecodes(e, candidates, records) ==
  /\ ExpressionDecodes(e, ConfiguredClauses, MaxFields)
  /\ CandidatesOk(candidates)
  /\ Len(records) <= MaxTraceRecords
  /\ SourceBytes(records) <= MaxTraceSource

(* validate_trace_admission: the same limits, and nothing twice.             *)
TraceAdmitted(e, candidates, records) ==
  /\ TraceDecodes(e, candidates, records)
  /\ \A j, k \in DOMAIN records : j # k => records[j].id # records[k].id
  /\ \A r \in ToSet(records) : \A j, k \in DOMAIN r.fields : j # k => r.fields[j].field # r.fields[k].field

(* trace_matches and trace_matches_page.                                     *)
TraceMatches(cfg, e, candidates, records, recovery) ==
  CASE ~ TraceAdmitted(e, candidates, records) -> [err |-> Invalid]
    [] TraceAdmitted(e, candidates, records) /\ ~ recovery /\ e.kind = "clause" /\ SelectionOk(cfg, e.fields)
         /\ cfg.surface /\ candidates = <<<<>>>> ->
         [err |-> "", complete |-> TRUE, out |-> <<>>, states |-> <<>>]
    [] OTHER -> IF TraceExpressionOk(cfg, e) THEN TraceRecords(cfg, e, candidates, records, recovery)
                ELSE [err |-> Invalid]

=============================================================================
