-------------------------- MODULE MCSearchRequests --------------------------
(* Four documents in two segments, three of them tied in score, and a        *)
(* deleted version of one; searches, traversals, sorts, aggregations and     *)
(* traces over them.                                                         *)
EXTENDS SearchRequests

Word(w) ==
  CASE w = "b" -> <<"b">>
    [] w = "ab" -> <<"a", "b">>
    [] w = "abd" -> <<"a", "b", "d">>
    [] w = "abds" -> <<"a", "b", "d", "s">>
    [] w = "abdb" -> <<"a", "b", "d", "b">>
    [] w = "badb" -> <<"b", "a", "d", "b">>
    [] w = "bads" -> <<"b", "a", "d", "s">>
    [] w = "stop" -> <<"a">>
    [] w = "acute" -> <<"b", "aacute">>
    [] w = "marked" -> <<"b", "a", "acute">>
    [] w = "half" -> <<"half">>
    [] OTHER -> <<"d">>

Phrase2(u, v) == Word(u) \o <<" ">> \o Word(v)

Number(n) == [type |-> "number", of |-> n, bytes |-> 0]

Text(rank, bytes) == [type |-> "string", of |-> rank, bytes |-> bytes]

Document(id, bytes, score, body, title, n, t, u) ==
  [id |-> id, idBytes |-> bytes, score |-> score, fields |-> [body |-> body, title |-> title],
   filters |-> [n |-> n, t |-> t, u |-> u]]

Doc1 == Document(1, 1, 2, <<Phrase2("abds", "b")>>, <<Word("badb")>>,
                 {Number(1)}, {Text(1, 6)}, {Text(1, 2)})
Doc2 == Document(2, 2, 3, <<Phrase2("b", "d")>>, <<Word("abdb")>>, {Number(2)}, {Text(2, 5)}, {})
Doc2Before == Document(2, 2, 1, <<Word("b")>>, <<>>, {Number(1)}, {}, {})
Doc3 == Document(3, 3, 2, <<Phrase2("marked", "b")>>, <<Word("d")>>, {}, {Text(3, 1)}, {Text(2, 2)})
Doc4 == Document(4, 4, 2, <<Word("b"), Phrase2("b", "stop") \o <<" ">> \o Word("d")>>, <<>>,
                 {Number(5)}, {}, {Text(1, 2)})
Doc5 == Document(5, 2, 3, <<Phrase2("half", "b"), Word("abdb")>>, <<>>, {Number(2)}, {Text(1, 6)}, {})

MCFirstIndex ==
  <<[name |-> 0, deletes |-> 1, docs |-> <<Doc4, Doc2Before, Doc3>>, dead |-> {2}],
    [name |-> 100, deletes |-> 0, docs |-> <<Doc2, Doc1>>, dead |-> {}]>>

MCBatches ==
  {[adds |-> <<Doc5>>, deletes |-> {}],
   [adds |-> <<>>, deletes |-> {3}],
   [adds |-> <<[Doc1 EXCEPT !.score = 3]>>, deletes |-> {}]}

Config(terms, clauses, full) ==
  [fields |-> <<"body", "title">>, filters |-> <<"n", "t", "u">>, terms |-> terms, clauses |-> clauses,
   positions |-> full, surface |-> full, stopWords |-> full,
   synonyms |-> IF full THEN [w \in {<<"d">>} |-> <<<<"b", "b">>>>] ELSE <<>>,
   surfaceSynonyms |-> IF full THEN [w \in {<<"d">>} |-> <<<<"b", "b">>>>] ELSE <<>>,
   types |-> [n |-> "number", t |-> "string", u |-> "string"]]

MCConfigs == {Config(4, 14, TRUE), Config(2, 6, FALSE)}

MCStopWords == {Word("stop")}

-----------------------------------------------------------------------------
ClauseOf(text, mode, fields) ==
  [kind |-> "clause", of |-> <<>>, text |-> text, mode |-> mode, distance |-> 1, fields |-> fields]

AnyOf(w) == ClauseOf(Word(w), "any", <<>>)

In(w) == ClauseOf(Word(w), "any", <<"body">>)

Node(kind, children) == [kind |-> kind, of |-> children]

Boost(b, e) == [kind |-> "boost", of |-> <<e>>, boost |-> b]

Base == [kind |-> "search", expression |-> AnyOf("b"), candidates |-> <<>>, filter |-> <<>>,
         sort |-> <<>>, aggs |-> <<>>, offset |-> 0, limit |-> 2, exactTotal |-> FALSE,
         traversal |-> FALSE, after |-> <<>>]

Leaf(field, comparator, values) ==
  [kind |-> "clause", of |-> <<>>, field |-> field, comparator |-> comparator, values |-> values]

(* Windows of stable and other queries, candidates, filters, traversals.     *)
WindowRequests ==
  {[Base EXCEPT !.expression = e, !.offset = o, !.limit = l, !.exactTotal = x] :
     e \in {AnyOf("b"), ClauseOf(Word("b"), "any", <<"body">>)}, o \in {0, 1}, l \in {1, 2}, x \in BOOLEAN}
  \cup {[Base EXCEPT !.candidates = <<<<1, 3, 4, 3>>>>],
        [Base EXCEPT !.candidates = <<<<1, 2, 3, 4, 5>>>>],
        [Base EXCEPT !.filter = <<Leaf("n", "ge", <<Number(2)>>)>>],
        [Base EXCEPT !.filter = <<Node("not", <<Leaf("n", "exists", <<>>)>>)>>],
        [Base EXCEPT !.filter = <<Node("or", <<Leaf("t", "equals", <<Text(1, 3)>>),
                                               Leaf("n", "in", <<Number(5), Number(2)>>)>>)>>],
        [Base EXCEPT !.filter = <<Node("and", <<Leaf("n", "between", <<Number(1), Number(2)>>),
                                                Leaf("n", "lt", <<Number(2)>>)>>)>>],
        [Base EXCEPT !.filter = <<Leaf("t", "missing", <<>>)>>],
        [Base EXCEPT !.filter = <<Leaf("t", "lt", <<Text(1, 3)>>)>>],
        [Base EXCEPT !.limit = 0], [Base EXCEPT !.offset = 4], [Base EXCEPT !.limit = 4]}

TraversalRequests ==
  {[Base EXCEPT !.traversal = TRUE, !.limit = l] : l \in {1, 2}}
  \cup {[Base EXCEPT !.traversal = TRUE, !.limit = 4],
        [Base EXCEPT !.traversal = TRUE, !.sort = <<[field |-> "n", direction |-> "asc", missing |-> "last"]>>]}

(* What the scan has to judge.                                               *)
ExpressionRequests ==
  {[Base EXCEPT !.expression = e] : e \in
    {Boost("one", AnyOf("b")), Boost("other", AnyOf("abds")), Boost("invalid", AnyOf("b")),
     Node("not", <<AnyOf("d")>>),
     Node("and", <<Node("not", <<AnyOf("d")>>), AnyOf("b")>>),
     Node("or", <<AnyOf("abds"), Node("not", <<AnyOf("b")>>)>>),
     Node("or", <<AnyOf("abds"), AnyOf("d"), AnyOf("b")>>),
     Node("and", <<AnyOf("b"), AnyOf("d"), AnyOf("abds")>>),
     Node("optional", <<AnyOf("b"), Node("not", <<AnyOf("d")>>)>>),
     Node("optional", <<Node("not", <<AnyOf("b")>>), AnyOf("d")>>),
     Node("or", <<In("abds"), In("d"), In("b")>>), Node("and", <<Node("not", <<In("d")>>), In("b")>>),
     Node("optional", <<In("b"), Node("not", <<In("d")>>)>>),
     Node("and", <<>>), Node("not", <<Node("not", <<Node("not", <<AnyOf("b")>>)>>)>>),
     ClauseOf(<<"half", "a", "half", "b">>, "any", <<"body">>),
     ClauseOf(Phrase2("abds", "b") \o <<" ">> \o Word("d"), "all", <<"body">>),
     ClauseOf(Phrase2("b", "d"), "phrase", <<>>), ClauseOf(Word("abd"), "prefix", <<>>),
     ClauseOf(Phrase2("b", "badb"), "prefix", <<>>), ClauseOf(<<"b", " ">>, "prefix", <<>>),
     ClauseOf(Word("ab"), "prefix", <<>>), ClauseOf(Word("badb"), "fuzzy", <<>>),
     ClauseOf(Word("bads"), "fuzzy_prefix", <<"title">>), ClauseOf(Word("b"), "any", <<"unknown">>),
     [AnyOf("b") EXCEPT !.distance = 2], [ClauseOf(Word("abds"), "fuzzy", <<"body">>) EXCEPT !.distance = 2]}}

-----------------------------------------------------------------------------
Sort(field, direction, missing) == [field |-> field, direction |-> direction, missing |-> missing]

Aggregation(name, field, kind, sub) ==
  [name |-> name, field |-> field, kind |-> kind, size |-> 2, interval |-> 2,
   ranges |-> <<[from |-> <<>>, to |-> <<2>>], [from |-> <<2>>, to |-> <<4>>]>>, sub |-> sub]

Stats(name) == Aggregation(name, "n", "stats", <<>>)

Terms2 == Aggregation("terms", "t", "terms", <<>>)

CatalogRequests ==
  {[Base EXCEPT !.sort = <<Sort(f, d, m)>>, !.offset = o] :
     f \in {"n", "t"}, d \in {"asc", "desc"}, m \in {"first", "last"}, o \in {0, 1}}
  \cup {[Base EXCEPT !.sort = <<Sort(f, "asc", "last")>>, !.limit = 1] : f \in {"n", "t", "u"}}
  \cup {[Base EXCEPT !.sort = <<Sort("t", "asc", "last")>>, !.candidates = <<<<1>>>>]}
  \cup {[Base EXCEPT !.sort = <<Sort("t", "asc", "last"), Sort("n", "desc", "first")>>],
        [Base EXCEPT !.sort = <<Sort("t", "asc", "last"), Sort("t", "desc", "first")>>],
        [Base EXCEPT !.sort = <<Sort("n", "asc", "first")>>, !.aggs = <<Terms2>>],
        [Base EXCEPT !.aggs = <<Terms2>>, !.exactTotal = TRUE],
        [Base EXCEPT !.aggs = <<Terms2, Terms2>>],
        [Base EXCEPT !.aggs = <<Stats("stats")>>],
        [Base EXCEPT !.aggs = <<Aggregation("range", "n", "range", <<Terms2>>)>>],
        [Base EXCEPT !.aggs = <<Aggregation("range", "n", "range", <<Stats("stats")>>)>>],
        [Base EXCEPT !.aggs = <<Aggregation("histogram", "n", "histogram", <<Terms2>>)>>],
        [Base EXCEPT !.aggs = <<[Aggregation("fine", "n", "histogram", <<Terms2>>) EXCEPT !.interval = 1]>>,
                     !.candidates = <<<<1>>>>],
        [Base EXCEPT !.aggs = <<Aggregation("histogram", "n", "histogram",
                                  <<Stats("min"), Stats("max"), Stats("sum")>>)>>],
        [Base EXCEPT !.aggs = <<Aggregation("outer", "t", "terms", <<Terms2>>)>>],
        [Base EXCEPT !.aggs = <<Aggregation("outer", "t", "terms",
                                  <<Aggregation("histogram", "n", "histogram", <<Terms2>>)>>)>>],
        [Base EXCEPT !.aggs = <<[Aggregation("fine", "n", "histogram", <<>>) EXCEPT !.interval = 1]>>]}

-----------------------------------------------------------------------------
Record(doc) == [id |-> doc.id, fields |-> <<[field |-> "body", values |-> doc.fields["body"]],
                                            [field |-> "title", values |-> doc.fields["title"]]>>]

TraceRequests ==
  {[kind |-> "trace", expression |-> e, candidates |-> <<>>,
    records |-> <<Record(Doc1), Record(Doc4), Record(Doc3)>>, recovery |-> r] :
     r \in BOOLEAN, e \in
      {AnyOf("b"), AnyOf("half"), ClauseOf(Phrase2("b", "d"), "all", <<>>),
       ClauseOf(Phrase2("b", "stop") \o <<" ">> \o Word("d"), "phrase", <<>>),
       ClauseOf(Word("abd"), "prefix", <<>>), ClauseOf(Phrase2("b", "abd"), "prefix", <<"body">>),
       ClauseOf(Word("badb"), "fuzzy", <<>>),
       Node("and", <<AnyOf("b"), Node("not", <<ClauseOf(Word("bads"), "fuzzy", <<"title">>)>>)>>),
       Node("or", <<AnyOf("d"), ClauseOf(Word("abd"), "prefix", <<"body">>)>>),
       Node("optional", <<AnyOf("b"), Boost("other", AnyOf("d"))>>),
       Node("and", <<AnyOf("b"), ClauseOf(Phrase2("b", "b"), "phrase", <<>>)>>),
       Node("not", <<Node("not", <<ClauseOf(Word("badb"), "fuzzy", <<>>)>>)>>)}}
  \cup {[kind |-> "trace", expression |-> AnyOf("b"), candidates |-> c,
         records |-> <<Record(Doc1), Record(Doc2)>>, recovery |-> r] :
          c \in {<<<<>>>>, <<<<2>>>>}, r \in BOOLEAN}
  \cup {[kind |-> "trace", expression |-> AnyOf("b"), candidates |-> <<>>,
         records |-> <<[id |-> 7, fields |-> <<[field |-> "unknown", values |-> <<>>]>>]>>, recovery |-> FALSE],
        [kind |-> "trace", expression |-> AnyOf("b"), candidates |-> <<>>,
         records |-> <<Record(Doc1), Record(Doc1)>>, recovery |-> TRUE]}

MCRequests == WindowRequests \cup TraversalRequests \cup ExpressionRequests \cup CatalogRequests \cup TraceRequests

=============================================================================
