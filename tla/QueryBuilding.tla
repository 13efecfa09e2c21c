--------------------------- MODULE QueryBuilding ---------------------------
(* Construction of the query of an expression in src/src/engine.rs: analysis *)
(* of the clauses, prefix expansion over the dictionaries of the searcher,   *)
(* the budgets on clauses, phrase positions and fuzzy work, and which        *)
(* documents the query matches.                                              *)
(*                                                                           *)
(* cfg is the engine's configuration: [fields, terms, clauses, positions,    *)
(* surface, stopWords, synonyms, surfaceSynonyms, types].  A document is     *)
(* [id, score, fields, filters] with the values of its fields as sequences   *)
(* of texts; its score stands for what Tantivy computes.                     *)
EXTENDS Expressions

QueryTokens(cfg, text) == AnalyzedTokens(text, cfg.stopWords)

QueryTerms(cfg, text) == ToSet(Terms(QueryTokens(cfg, text)))

SurfaceTerms(text) == ToSet(Terms(SurfaceTokens(text)))

(* The tokens of one value of a document, as the index writer sees them.     *)
IndexTokens(cfg, value) == SynonymFilter(QueryTokens(cfg, value), cfg.synonyms)

IndexSurface(cfg, value) == SynonymFilter(SurfaceTokens(value), cfg.surfaceSynonyms)

FuzzyEligible(word) == Len(word) >= MinFuzzyLength /\ \A k \in DOMAIN word : word[k] \in Letters

SelectedFields(cfg, requested) ==
  IF requested = <<>> THEN ToSet(cfg.fields) ELSE ToSet(requested)

SelectionOk(cfg, requested) ==
  ToSet(requested) \subseteq ToSet(cfg.fields) /\ IsInjective(requested)

-----------------------------------------------------------------------------
(* A query under construction: its clauses, whether its scores must be       *)
(* collected with stable ties, and the work spent so far.                    *)

NoWork == [phrase |-> 0, fuzzy |-> 0]

Built(clauses, stable, work) == [err |-> "", clauses |-> clauses, stable |-> stable, work |-> work]

Failed(code, work) == [err |-> code, clauses |-> 0, stable |-> FALSE, work |-> work]

EmptyQuery(work) == Built(0, FALSE, work)

PhraseWork(work, terms, fields) == [work EXCEPT !.phrase = Saturated(@ + terms * fields)]

FuzzyWork(work, terms, fields, distance) ==
  IF distance = 0 THEN work
  ELSE [work EXCEPT !.fuzzy = Saturated(@ + terms * fields * (IF distance = 2 THEN 4 ELSE 1))]

WorkOk(work) == work.phrase <= MaxPhraseWork /\ work.fuzzy <= MaxFuzzyWork

TermsBuilt(cfg, terms, clauses, must, work) ==
  CASE terms > cfg.terms \/ clauses > cfg.clauses -> Failed(Invalid, work)
    [] terms = 0 -> EmptyQuery(work)
    [] OTHER -> Built(clauses, IF must THEN terms > 2 ELSE clauses > 1, work)

TermQuery(cfg, terms, fields, must, work) ==
  TermsBuilt(cfg, Cardinality(terms), Cardinality(terms) * Cardinality(fields), must, work)

PhraseQuery(cfg, terms, n, work) ==
  LET spent == PhraseWork(work, terms, n)
  IN CASE ~ cfg.positions \/ terms > cfg.terms -> Failed(Invalid, work)
       [] terms = 0 -> EmptyQuery(work)
       [] n > cfg.clauses \/ ~ WorkOk(spent) -> Failed(Invalid, spent)
       [] OTHER -> Built(n, terms = 1 /\ n > 1, spent)

FuzzyPairs(cfg, surface) == {s \in surface : Len(QueryTokens(cfg, s)) = 1}

FuzzyQuery(cfg, c, surface, pairs, n, work) ==
  LET eligible == Cardinality({s \in pairs : FuzzyEligible(s)})
      clauses == Cardinality(pairs) * n * 3
      spent == FuzzyWork(work, eligible, n, c.distance)
  IN CASE Cardinality(surface) > cfg.terms \/ eligible > MaxFuzzyTerms -> Failed(Invalid, work)
       [] pairs = {} -> EmptyQuery(work)
       [] clauses > cfg.clauses \/ ~ WorkOk(spent) -> Failed(Invalid, spent)
       [] OTHER -> Built(clauses, Cardinality(pairs) - eligible >= 2, spent)

(* final_surface_term: the word being typed and the completed terms before.  *)
UnfilteredSurface(text) == EnglishPossessiveFilter(text, Tokenize(text))

PrefixWord(words) == AsciiFolded(Last(words).text)

CompletedTerms(words, tokens) ==
  {t.text : t \in {x \in ToSet(tokens) : x.position < Last(words).position}}

Expansion(dictionary, field, prefix) == {t \in dictionary[field] : IsPrefix(prefix, t)}

ExpansionCount(cfg, dictionary, prefix, fields) ==
  FoldLeft(LAMBDA s, f : s + (IF f \in fields THEN Cardinality(Expansion(dictionary, f, prefix)) ELSE 0),
           0, cfg.fields)

EndsBlank(text) == text # <<>> /\ Last(text) = Blank

(* The query of a word being typed, of the terms before it and of the words  *)
(* of the dictionary it may become.                                          *)
TypedQuery(cfg, dictionary, c, prefix, completed, terms, fields, work) ==
  LET fuzzy == c.mode = "fuzzy_prefix"
      eligible == fuzzy /\ FuzzyEligible(prefix)
      n == Cardinality(fields)
      clauses == completed * n + (IF eligible THEN n ELSE 0)
                   + ExpansionCount(cfg, dictionary, prefix, fields)
      spent == FuzzyWork(work, IF eligible THEN 1 ELSE 0, n, c.distance)
  IN CASE \/ Len(prefix) >= LongToken
          \/ terms > cfg.terms
          \/ Len(prefix) < (IF fuzzy THEN MinPrefix + 1 ELSE MinPrefix) -> Failed(Invalid, work)
       [] \/ clauses > cfg.clauses
          \/ \E f \in fields : Cardinality(Expansion(dictionary, f, prefix)) > MaxPrefixExpansions ->
            Failed(TooBroad, work)
       [] ~ WorkOk(spent) -> Failed(Invalid, spent)
       [] OTHER -> Built(clauses, completed > 1 /\ ~ eligible, spent)

PrefixQuery(cfg, dictionary, c, words, tokens, fields, work) ==
  CASE ~ cfg.surface -> Failed(Invalid, work)
    [] cfg.surface /\ EndsBlank(c.text) -> TermQuery(cfg, ToSet(Terms(tokens)), fields, TRUE, work)
    [] cfg.surface /\ words = <<>> -> EmptyQuery(work)
    [] OTHER -> TypedQuery(cfg, dictionary, c, PrefixWord(words), Cardinality(CompletedTerms(words, tokens)),
                           Len(tokens), fields, work)

AnalyzedQuery(cfg, dictionary, c, tokens, surface, fields, work) ==
  CASE c.mode \in {"any", "all"} -> TermQuery(cfg, ToSet(Terms(tokens)), fields, c.mode = "all", work)
    [] c.mode = "phrase" -> PhraseQuery(cfg, Len(tokens), Cardinality(fields), work)
    [] c.mode = "fuzzy" ->
         FuzzyQuery(cfg, c, surface, FuzzyPairs(cfg, surface), Cardinality(fields), work)
    [] OTHER -> PrefixQuery(cfg, dictionary, c, UnfilteredSurface(c.text), tokens, fields, work)

ClauseQuery(cfg, dictionary, c, work) ==
  IF SelectionOk(cfg, c.fields)
  THEN AnalyzedQuery(cfg, dictionary, c, QueryTokens(cfg, c.text), SurfaceTerms(c.text),
                     SelectedFields(cfg, c.fields), work)
  ELSE Failed(Invalid, work)

(* Adding a child to the clauses counted so far, within the total limit.     *)
WithChild(cfg, sum, child) ==
  IF child.err # "" THEN child
  ELSE IF sum.clauses + child.clauses > cfg.clauses THEN Failed(Invalid, child.work)
  ELSE Built(sum.clauses + child.clauses, FALSE, child.work)

RECURSIVE ExpressionQuery(_, _, _, _)
ExpressionQuery(cfg, dictionary, e, work) ==
  LET step(sum, c) == IF sum.err # "" THEN sum
                      ELSE WithChild(cfg, sum, ExpressionQuery(cfg, dictionary, c, sum.work))
      all == FoldLeft(step, Built(StructureCost(e), FALSE, work), e.of)
      only == ExpressionQuery(cfg, dictionary, e.of[1], work)
  IN CASE e.kind = "clause" -> ClauseQuery(cfg, dictionary, e, work)
       [] e.kind = "boost" -> [all EXCEPT !.stable = all.err = "" /\ only.stable /\ e.boost = "one"]
       [] e.kind \in {"and", "or"} ->
            [all EXCEPT !.stable = all.err = "" /\ Len(e.of) > (IF e.kind = "and" THEN 2 ELSE 1)]
       [] OTHER -> all

BoostedClause(cfg, clause) ==
  [WithChild(cfg, Built(1, FALSE, NoWork), clause) EXCEPT !.stable = clause.stable]

(* expression_query: a boost of a bare any or all clause is folded into the  *)
(* field weights, which keeps the clause's stable ties.                      *)
RootQuery(cfg, dictionary, e) ==
  IF ~ StructureOk(e, cfg.clauses, Len(cfg.fields)) THEN Failed(Invalid, NoWork)
  ELSE IF e.kind = "boost" /\ e.of[1].kind = "clause" /\ e.of[1].mode \in {"any", "all"}
  THEN BoostedClause(cfg, ExpressionQuery(cfg, dictionary, e.of[1], NoWork))
  ELSE ExpressionQuery(cfg, dictionary, e, NoWork)

-----------------------------------------------------------------------------
(* Which documents a query matches: a term in any value of a selected field, *)
(* a phrase within one value, the expansion of a prefix.                     *)

IndexedTerms(cfg, doc, fields) ==
  UNION {ToSet(Terms(IndexTokens(cfg, v))) : v \in UNION {ToSet(doc.fields[f]) : f \in fields}}

IndexedSurface(cfg, doc, fields) ==
  UNION {ToSet(Terms(IndexSurface(cfg, v))) : v \in UNION {ToSet(doc.fields[f]) : f \in fields}}

PhraseAt(tokens, phrase, k) ==
  \A j \in DOMAIN phrase : \E i \in DOMAIN tokens :
    /\ tokens[i].text = phrase[j].text
    /\ tokens[i].position + phrase[1].position = tokens[k].position + phrase[j].position

HasPhrase(tokens, phrase) == phrase # <<>> /\ \E k \in DOMAIN tokens : PhraseAt(tokens, phrase, k)

(* One insertion, deletion, substitution or transposition of neighbours.     *)
WithinOneEdit(u, v) ==
  \/ u = v
  \/ Len(u) = Len(v) /\ \E k \in DOMAIN u :
       \/ [u EXCEPT ![k] = v[k]] = v
       \/ k < Len(u) /\ [u EXCEPT ![k] = u[k+1], ![k+1] = u[k]] = v
  \/ \E k \in DOMAIN u : RemoveAt(u, k) = v
  \/ \E k \in DOMAIN v : RemoveAt(v, k) = u

(* The words one edit away, spelled with the given letters.                  *)
Edited(word, letters) ==
  {word} \cup {RemoveAt(word, k) : k \in DOMAIN word}
    \cup {[word EXCEPT ![k] = l] : k \in DOMAIN word, l \in letters}
    \cup {InsertAt(word, k, l) : k \in 1..(Len(word) + 1), l \in letters}
    \cup {[word EXCEPT ![k] = word[k+1], ![k+1] = word[k]] : k \in 1..(Len(word) - 1)}

FuzzyMatch(word, term, distance) ==
  CASE distance = 0 -> word = term
    [] distance = 1 -> WithinOneEdit(word, term)
    [] OTHER -> \E w \in Edited(word, ToSet(term)) : WithinOneEdit(w, term)

FuzzyPrefixMatch(word, term, distance) ==
  \E n \in 0..Len(term) : FuzzyMatch(word, SubSeq(term, 1, n), distance)

CompletesTo(c, prefix, word) ==
  \/ IsPrefix(prefix, word)
  \/ /\ c.mode = "fuzzy_prefix" /\ FuzzyEligible(prefix)
     /\ FuzzyPrefixMatch(prefix, word, c.distance)

PrefixMatches(c, words, tokens, terms, surface) ==
  IF EndsBlank(c.text) THEN tokens # <<>> /\ ToSet(Terms(tokens)) \subseteq terms
  ELSE /\ words # <<>>
       /\ CompletedTerms(words, tokens) \subseteq terms
       /\ \E t \in surface : CompletesTo(c, PrefixWord(words), t)

FuzzyWordMatches(c, surface, word, terms) ==
  word \in terms \/ (FuzzyEligible(surface) /\ \E t \in terms : FuzzyMatch(word, t, c.distance))

AnalyzedMatches(cfg, c, doc, tokens, terms, fields) ==
  CASE c.mode = "any" -> ToSet(Terms(tokens)) \cap terms # {}
    [] c.mode = "all" -> tokens # <<>> /\ ToSet(Terms(tokens)) \subseteq terms
    [] c.mode = "phrase" -> \E f \in fields : \E v \in ToSet(doc.fields[f]) :
                              HasPhrase(IndexTokens(cfg, v), tokens)
    [] c.mode = "fuzzy" -> \E s \in FuzzyPairs(cfg, SurfaceTerms(c.text)) :
                             FuzzyWordMatches(c, s, QueryTokens(cfg, s)[1].text, terms)
    [] OTHER -> PrefixMatches(c, UnfilteredSurface(c.text), tokens, terms, IndexedSurface(cfg, doc, fields))

ClauseMatches(cfg, c, doc) ==
  AnalyzedMatches(cfg, c, doc, QueryTokens(cfg, c.text), IndexedTerms(cfg, doc, SelectedFields(cfg, c.fields)),
                  SelectedFields(cfg, c.fields))

RECURSIVE Matches(_, _, _)
Matches(cfg, e, doc) ==
  CASE e.kind = "clause" -> ClauseMatches(cfg, e, doc)
    [] e.kind = "and" -> \A k \in DOMAIN e.of : Matches(cfg, e.of[k], doc)
    [] e.kind = "or" -> \E k \in DOMAIN e.of : Matches(cfg, e.of[k], doc)
    [] e.kind = "not" -> ~ Matches(cfg, e.of[1], doc)
    [] OTHER -> Matches(cfg, e.of[1], doc)

=============================================================================
