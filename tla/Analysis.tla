------------------------------ MODULE Analysis ------------------------------
(* The english@2 analyzers of src/src/engine.rs: compatibility normalisation *)
(* with source spans, tokenisation, the possessive filter, the length, stop  *)
(* word and stemming filters and synonym expansion.  A text is a sequence of *)
(* characters of a small alphabet whose members stand for the classes the    *)
(* code tells apart: letters, a digit, a blank, the ASCII and the            *)
(* typographic apostrophe, a combining mark, the composed letter it makes,   *)
(* and a compatibility character that decomposes into several characters.    *)
EXTENDS Naturals, Sequences, SequencesExt

CONSTANTS MaxNonstarters,        \* nonstarters in a row before a joiner is put in
          MaxTokenCharacters,    \* characters kept of one token
          LongToken,             \* tokens of this many characters are removed
          StopWords              \* the English stop words, as texts

Letters == {"a", "b", "d", "s"}

Digits == {"1"}

Blank == " "

Apostrophes == {"'", "rquote"}

Mark == "acute"

Joiner == "joiner"

NoCharacter == "none"

Ascii(c) == c \in Letters \cup Digits \cup {Blank, "'"}

Alphanumeric(c) == c \in Letters \cup Digits \cup {"aacute"}

Decompose(c) ==
  CASE c = "half" -> <<"1", Blank, "1">>
    [] c = "aacute" -> <<"a", Mark>>
    [] OTHER -> <<c>>

Compose(first, second) ==
  IF first = "a" /\ second = Mark THEN "aacute" ELSE NoCharacter

(* A character of the normalised text with the source characters it covers.  *)
Mapped(c, from, to) == [ch |-> c, from |-> from, to |-> to]

Spanning(x, y) == [x EXCEPT !.from = IF y.from < @ THEN y.from ELSE @,
                            !.to = IF y.to > @ THEN y.to ELSE @]

(* One decomposed character enters the recomposition.  "blocked" says that a *)
(* mark which composed with nothing is already waiting: marks of the one     *)
(* combining class modelled here do not compose past it.                     *)
Composed(st, x) ==
  IF st.composee = <<>> \/ st.waiting # <<>> THEN NoCharacter ELSE Compose(st.composee[1].ch, x.ch)

Entered(st, x, composed) ==
  CASE composed # NoCharacter ->
         [st EXCEPT !.composee = <<[Spanning(@[1], x) EXCEPT !.ch = composed]>>]
    [] composed = NoCharacter /\ x.ch # Mark ->
         [st EXCEPT !.out = @ \o st.composee \o st.waiting,
                    !.composee = <<x>>, !.waiting = <<>>]
    [] composed = NoCharacter /\ x.ch = Mark /\ st.composee = <<>> ->
         [st EXCEPT !.out = Append(@, x)]
    [] OTHER -> [st EXCEPT !.waiting = Append(@, x)]

PushRecomposition(st, x) == Entered(st, x, Composed(st, x))

LeadingMarks(cs) ==
  IF \A k \in DOMAIN cs : cs[k] = Mark THEN Len(cs)
  ELSE (CHOOSE k \in DOMAIN cs : cs[k] # Mark /\ \A j \in 1..(k-1) : cs[j] = Mark) - 1

(* One source character: decomposed, preceded by a joiner when it would make *)
(* too long a run of nonstarters, and pushed character by character.         *)
Separated(st, i, lead) ==
  IF st.marks + lead <= MaxNonstarters THEN st
  ELSE [PushRecomposition(st, Mapped(Joiner, i - 1, i)) EXCEPT !.marks = 0]

Counted(st, cs, lead) ==
  [st EXCEPT !.marks = IF lead = Len(cs) THEN @ + lead ELSE LeadingMarks(Reverse(cs))]

PushAll(st, i, cs) == FoldLeft(LAMBDA s, d : PushRecomposition(s, Mapped(d, i - 1, i)), st, cs)

NormaliseNext(st, i, c) ==
  LET cs == Decompose(c)
      lead == LeadingMarks(cs)
  IN PushAll(Counted(Separated(st, i, lead), cs, lead), i, cs)

Flushed(st) == st.out \o st.composee \o st.waiting

Normalised(text) ==
  Flushed(FoldLeftDomain(LAMBDA s, i : NormaliseNext(s, i, text[i]),
                         [out |-> <<>>, composee |-> <<>>, waiting |-> <<>>, marks |-> 0], text))

(* Text that is already in normal form is read as it is: no decomposable     *)
(* character, no mark that would compose, no run of marks over the limit.    *)
StreamSafe(text) ==
  /\ \A k \in DOMAIN text : text[k] # "half"
  /\ \A k \in 2..Len(text) : Compose(text[k-1], text[k]) = NoCharacter
  /\ \A k \in DOMAIN text : k + MaxNonstarters <= Len(text)
        => \E j \in k..(k + MaxNonstarters) : text[j] # Mark

Characters(text) ==
  IF (\A k \in DOMAIN text : Ascii(text[k])) \/ StreamSafe(text)
  THEN [k \in DOMAIN text |-> Mapped(text[k], k - 1, k)]
  ELSE Normalised(text)

(* Maximal runs of alphanumeric characters, each with the span of the source *)
(* it came from and its position; only the first characters of a long run    *)
(* are kept.                                                                 *)
Tokenize(text) ==
  LET step(st, x) ==
        IF ~ Alphanumeric(x.ch) THEN [st EXCEPT !.open = FALSE]
        ELSE IF ~ st.open
        THEN [open |-> TRUE,
              tokens |-> Append(st.tokens, [text |-> <<x.ch>>, from |-> x.from, to |-> x.to,
                                            position |-> Len(st.tokens)])]
        ELSE [st EXCEPT !.tokens[Len(st.tokens)] =
                [Spanning(@, x) EXCEPT !.text = IF Len(@) < MaxTokenCharacters
                                                THEN Append(@, x.ch) ELSE @]]
  IN FoldLeft(step, [open |-> FALSE, tokens |-> <<>>], Characters(text)).tokens

PossessiveSuffix(text, token) ==
  /\ token.text = <<"s">>
  /\ token.from >= 2
  /\ text[token.from] \in Apostrophes
  /\ Alphanumeric(text[token.from - 1])

(* A possessive suffix is dropped and the tokens after it move up by one     *)
(* position.                                                                 *)
EnglishPossessiveFilter(text, tokens) ==
  LET step(st, t) ==
        IF PossessiveSuffix(text, t) THEN [st EXCEPT !.dropped = @ + 1]
        ELSE [st EXCEPT !.kept = Append(@, [t EXCEPT !.position = @ - st.dropped])]
  IN FoldLeft(step, [dropped |-> 0, kept |-> <<>>], tokens).kept

AsciiFolded(word) == [k \in DOMAIN word |-> IF word[k] = "aacute" THEN "a" ELSE word[k]]

(* The English stemmer, as far as the model's words show it.                 *)
Stem(word) == IF Len(word) > 2 /\ Last(word) = "s" THEN Front(word) ELSE word

Folded(tokens) == [k \in DOMAIN tokens |-> [tokens[k] EXCEPT !.text = AsciiFolded(@)]]

Stemmed(tokens) == [k \in DOMAIN tokens |-> [tokens[k] EXCEPT !.text = Stem(@)]]

SurfaceTokens(text) ==
  SelectSeq(Folded(EnglishPossessiveFilter(text, Tokenize(text))), LAMBDA t : Len(t.text) < LongToken)

(* The analyzer of queries: surface tokens without stop words, stemmed.      *)
AnalyzedTokens(text, stopWords) ==
  Stemmed(SelectSeq(SurfaceTokens(text), LAMBDA t : ~ stopWords \/ t.text \notin StopWords))

(* The analyzers of documents also put a term's replacements after it, at    *)
(* its position.                                                             *)
SynonymFilter(tokens, rules) ==
  FlattenSeq([k \in DOMAIN tokens |->
    <<tokens[k]>> \o
      (IF tokens[k].text \notin DOMAIN rules THEN <<>>
       ELSE [j \in DOMAIN rules[tokens[k].text] |->
               [tokens[k] EXCEPT !.text = rules[tokens[k].text][j]]])])

Terms(tokens) == [k \in DOMAIN tokens |-> tokens[k].text]

=============================================================================
