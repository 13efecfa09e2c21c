---------------------------- MODULE Expressions ----------------------------
(* Search expressions and filters: the structure budget every reader of an   *)
(* expression shares (src/src/protocol.rs), the scan that classifies a       *)
(* packed search before it is queued, the decoder and the admission checks   *)
(* the worker runs, and the construction of the query (src/src/engine.rs).   *)
(*                                                                           *)
(* A node is [kind, of, ...] where "of" is the sequence of its children: the *)
(* alternatives of an "and" or an "or", the child of a "not" or a "boost",   *)
(* the required child of an "optional" followed by its optional ones.  A     *)
(* clause adds its text, mode, fuzzy distance and fields; a boost says       *)
(* whether it is one, another valid number or an invalid one.                *)
EXTENDS Analysis, FiniteSets

CONSTANTS MaxExpressionDepth, MaxQueryTextBytes, MaxFields,
          DefaultTerms, DefaultClauses,        \* the limits of the default profile
          ConfiguredTerms, ConfiguredClauses,  \* the largest limits a profile may ask for
          MaxPrefixExpansions, MaxFuzzyTerms, MaxPhraseWork, MaxFuzzyWork,
          MinPrefix, MinFuzzyLength,
          MaxCandidates,                       \* candidate IDs of a request, repeated ones counted
          CheapFilterClauses,                  \* a filter of more leaves or values is expensive
          Huge                                 \* the machine's largest integer

ASSUME DefaultTerms <= ConfiguredTerms /\ DefaultClauses <= ConfiguredClauses

Saturated(n) == IF n > Huge THEN Huge ELSE n

Invalid == "E_INVALID_ARGUMENT"

TooBroad == "E_PREFIX_TOO_BROAD"

Modes == {"any", "all", "phrase", "prefix", "fuzzy", "fuzzy_prefix"}

IsExpensive(mode) == mode \notin {"any", "all"}

FuzzyModes == {"fuzzy", "fuzzy_prefix"}

(* validate_query_limits: what an index may be opened with.                  *)
QueryLimitsOk(terms, clauses) ==
  terms \in 1..ConfiguredTerms /\ clauses \in 1..ConfiguredClauses

(* validate_candidates: nothing, or the IDs the caller sent.                 *)
CandidatesOk(candidates) == candidates = <<>> \/ Len(candidates[1]) <= MaxCandidates

IsCandidate(candidates, id) == candidates = <<>> \/ id \in ToSet(candidates[1])

-----------------------------------------------------------------------------
(* The structure budget.                                                     *)

StructureCost(e) ==
  CASE e.kind = "clause" -> 0
    [] e.kind = "not" -> 2
    [] OTHER -> Len(e.of)          \* children, one for a boost, optional + 1

ValidNode(e) ==
  CASE e.kind \in {"and", "or"} -> e.of # <<>>
    [] e.kind = "optional" -> Len(e.of) > 1
    [] e.kind = "boost" -> e.boost # "invalid"
    [] OTHER -> TRUE

RECURSIVE Structure(_, _, _, _)
Structure(e, depth, budget, fields) ==
  LET bytes == budget.bytes + (IF e.kind = "clause" THEN Len(e.text) ELSE 0)
      charged == [ok |-> /\ budget.ok
                         /\ depth <= MaxExpressionDepth
                         /\ ValidNode(e)
                         /\ StructureCost(e) <= budget.left
                         /\ bytes <= MaxQueryTextBytes
                         /\ e.kind = "clause" => Len(e.fields) <= fields,
                  left |-> budget.left - StructureCost(e), bytes |-> bytes]
  IN IF ~ charged.ok THEN [budget EXCEPT !.ok = FALSE]
     ELSE FoldLeft(LAMBDA b, c : Structure(c, depth + 1, b, fields), charged, e.of)

(* validate_search_structure under a limit on compiled clauses and on the    *)
(* fields of a clause.                                                       *)
StructureOk(e, clauses, fields) ==
  Structure(e, 0, [ok |-> TRUE, left |-> clauses, bytes |-> 0], fields).ok

RECURSIVE Leaves(_)
Leaves(e) == IF e.kind = "clause" THEN <<e>>
             ELSE FlattenSeq([k \in DOMAIN e.of |-> Leaves(e.of[k])])

(* QueryOptions::validate: one edit is the default, and only fuzzy modes     *)
(* may ask for another number.                                               *)
QueryOptionsOk(c) == c.distance <= 2 /\ (c.distance # 1 => c.mode \in FuzzyModes)

(* validate_expression_options.                                              *)
OptionsOk(e) == \A c \in ToSet(Leaves(e)) : QueryOptionsOk(c)

(* decode_search_expression: the budget and the options, on the way down.    *)
ExpressionDecodes(e, clauses, fields) == StructureOk(e, clauses, fields) /\ OptionsOk(e)

ContainsPrefix(e) == \E c \in ToSet(Leaves(e)) : c.mode \in {"prefix", "fuzzy_prefix"}

-----------------------------------------------------------------------------
(* The scan.  It bounds the terms of a clause by the ASCII runs of its text, *)
(* and gives up on a text that is not ASCII: normalisation can make several  *)
(* words of one character.                                                   *)

(* Mutation: the scan counts a text that is not ASCII like any other.        *)
AsciiQueryTermUpperBlind(text) ==
  Cardinality({k \in DOMAIN text : /\ Alphanumeric(text[k])
                                   /\ k = 1 \/ ~ Alphanumeric(text[k-1])})

AsciiQueryTermUpper(text) ==
  IF \E k \in DOMAIN text : ~ Ascii(text[k]) THEN Huge
  ELSE Cardinality({k \in DOMAIN text : /\ Alphanumeric(text[k])
                                        /\ k = 1 \/ ~ Alphanumeric(text[k-1])})

(* What a clause can cost; nothing is counted unless the index was opened    *)
(* with limits above the default profile.                                    *)
ClauseCost(c, raised, schemaFields) ==
  LET terms == IF raised THEN AsciiQueryTermUpper(c.text) ELSE 0
      fields == IF c.fields = <<>> THEN schemaFields ELSE Len(c.fields)
  IN [terms |-> terms, construction |-> Saturated(terms * fields),
      expensive |-> IsExpensive(c.mode), anchor |-> TRUE]

RECURSIVE ScanCost(_, _, _)
ScanCost(e, raised, schemaFields) ==
  LET child == [k \in DOMAIN e.of |-> ScanCost(e.of[k], raised, schemaFields)]
      anchored == {k \in DOMAIN child : child[k].anchor}
  IN IF e.kind = "clause" THEN ClauseCost(e, raised, schemaFields)
     ELSE [terms |-> FoldLeft(LAMBDA m, c : IF c.terms > m THEN c.terms ELSE m, 0, child),
           construction |-> FoldLeft(LAMBDA s, c : Saturated(s + c.construction),
                                     StructureCost(e), child),
           expensive |-> \E k \in DOMAIN child : child[k].expensive,
           anchor |-> CASE e.kind = "and" -> anchored # {}
                        [] e.kind = "or" -> anchored = DOMAIN child
                        [] e.kind = "not" -> FALSE
                        [] OTHER -> 1 \in anchored]

-----------------------------------------------------------------------------
(* Filters: leaves [kind |-> "clause", field, comparator, values, of], and   *)
(* boolean nodes.                                                            *)

ValueCountOk(f) ==
  CASE f.comparator = "in" -> Len(f.values) \in 1..DefaultClauses
    [] f.comparator = "between" -> Len(f.values) = 2
    [] f.comparator \in {"exists", "missing"} -> f.values = <<>>
    [] OTHER -> Len(f.values) = 1

RECURSIVE FilterShape(_, _)
FilterShape(f, depth) ==
  LET child == [k \in DOMAIN f.of |-> FilterShape(f.of[k], depth + 1)]
      leaf == f.kind = "clause"
  IN [ok |-> /\ depth <= MaxExpressionDepth
             /\ IF leaf THEN ValueCountOk(f)
                ELSE Len(f.of) \in 1..DefaultClauses /\ \A k \in DOMAIN child : child[k].ok,
      leaves |-> FoldLeft(LAMBDA n, c : n + c.leaves, IF leaf THEN 1 ELSE 0, child),
      expensive |-> CASE leaf -> f.comparator \notin {"equals", "in"}
                                 \/ Len(f.values) > CheapFilterClauses
                      [] f.kind = "not" -> TRUE
                      [] OTHER -> \E k \in DOMAIN child : child[k].expensive]

(* The decoder and the scan walk a filter with the same checks.              *)
FilterOk(f) == FilterShape(f, 0).ok /\ FilterShape(f, 0).leaves <= DefaultClauses

FilterIsExpensive(f) == FilterShape(f, 0).expensive \/ FilterShape(f, 0).leaves > CheapFilterClauses

(* filter_clause: the comparator and the values fit the field's type.        *)
FilterLeafOk(types, f) ==
  /\ f.field \in DOMAIN types
  /\ \A k \in DOMAIN f.values : f.values[k].type = types[f.field]
  /\ f.comparator \in {"lt", "ge", "between"} => types[f.field] = "number"

RECURSIVE FilterQueryOk(_, _)
FilterQueryOk(types, f) ==
  IF f.kind = "clause" THEN FilterLeafOk(types, f)
  ELSE \A k \in DOMAIN f.of : FilterQueryOk(types, f.of[k])

FilterLeafMatches(doc, f) ==
  LET stored == {v.of : v \in doc.filters[f.field]}
      arg(k) == f.values[k].of
  IN CASE f.comparator = "equals" -> arg(1) \in stored
       [] f.comparator = "in" -> \E k \in DOMAIN f.values : arg(k) \in stored
       [] f.comparator = "lt" -> \E v \in stored : v < arg(1)
       [] f.comparator = "ge" -> \E v \in stored : v >= arg(1)
       [] f.comparator = "between" -> \E v \in stored : arg(1) <= v /\ v <= arg(2)
       [] f.comparator = "exists" -> stored # {}
       [] OTHER -> stored = {}

RECURSIVE FilterMatches(_, _)
FilterMatches(doc, f) ==
  CASE f.kind = "clause" -> FilterLeafMatches(doc, f)
    [] f.kind = "not" -> ~ FilterMatches(doc, f.of[1])
    [] f.kind = "and" -> \A k \in DOMAIN f.of : FilterMatches(doc, f.of[k])
    [] OTHER -> \E k \in DOMAIN f.of : FilterMatches(doc, f.of[k])

=============================================================================
