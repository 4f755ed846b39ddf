---------------------------- MODULE QueryParser ----------------------------
(***************************************************************************)
(* From the text of a query to a query plan: search_adapter.rs of          *)
(* hanimo-find.  Text is a sequence of characters, what the core gets is   *)
(* bytes; characters from 128 on take two bytes, those from 192 on stand   *)
(* for the letters among them.                                             *)
(***************************************************************************)
EXTENDS QueryPlan

CONSTANTS Queries   \* texts of queries

ASSUME QueriesAssumption == Queries \subseteq Seq(Nat)

VARIABLES
  query,
  pc,              \* bytes -> chars -> tokens -> done
  next,            \* index of the next character, or of the next token
  in_quote, outside, phrase,
  literal_count,
  quoted, identifiers, terms,
  outcome

text == <<in_quote, outside, phrase>>
literals == <<literal_count, quoted, identifiers, terms>>
vars == <<query, pc, next, text, literals, outcome>>

Quote == 34
Blank(c) == c \in {32, 10}
Uppercase(c) == c \in 65 .. 90
Digit(c)     == c \in 48 .. 57
Alphanumeric(c) == Uppercase(c) \/ Digit(c) \/ c \in 97 .. 122 \/ c >= 192
Underscore == 95
Kept(c) == Alphanumeric(c) \/ c \in {Underscore, 45}

UTF8(characters) ==
  FlattenSeq([k \in DOMAIN characters |->
                IF characters[k] < 128 THEN <<characters[k]>>
                ELSE <<192 + (characters[k] \div 64), 128 + (characters[k] % 64)>>])

(***************************************************************************)
(* Tokens: split_whitespace, trim_matches, is_identifier.                  *)
(***************************************************************************)

Words(s) ==
  LET first == Ascending({i \in DOMAIN s : ~Blank(s[i]) /\ (i = 1 \/ Blank(s[i - 1]))})
      last  == Ascending({i \in DOMAIN s : ~Blank(s[i]) /\ (i = Len(s) \/ Blank(s[i + 1]))})
  IN  [k \in DOMAIN first |-> SubSeq(s, first[k], last[k])]

\* Mutant: only the front is trimmed.
TrimmedFront(word) ==
  LET kept == {i \in DOMAIN word : Kept(word[i])}
      first == CHOOSE i \in kept : \A j \in kept : i <= j
  IN  IF kept = {} THEN <<>> ELSE SubSeq(word, first, Len(word))

Trimmed(word) ==
  LET kept == {i \in DOMAIN word : Kept(word[i])}
      first == CHOOSE i \in kept : \A j \in kept : i <= j
      last  == CHOOSE i \in kept : \A j \in kept : i >= j
  IN  IF kept = {} THEN <<>> ELSE SubSeq(word, first, last)

is_identifier(literal) ==
  /\ \A c \in ToSet(literal) : Uppercase(c) \/ Digit(c) \/ c = Underscore
  /\ \E c \in ToSet(literal) : Uppercase(c)

(***************************************************************************)
(* The parser.                                                             *)
(***************************************************************************)

Init ==
  /\ query \in Queries
  /\ pc = "bytes" /\ next = 1
  /\ in_quote = FALSE /\ outside = <<>> /\ phrase = <<>>
  /\ literal_count = 0 /\ quoted = <<>> /\ identifiers = <<>> /\ terms = <<>>
  /\ outcome = "none"

Stop(result) ==
  /\ pc' = "done" /\ outcome' = result
  /\ UNCHANGED <<query, next, text, literals>>

\* Mutant: characters are counted, not bytes.
CheckCharacters ==
  /\ pc = "bytes"
  /\ IF Len(query) > MAX_QUERY_BYTES THEN Stop("query_limit")
     ELSE pc' = "chars" /\ UNCHANGED <<query, next, text, literals, outcome>>

CheckBytes ==
  /\ pc = "bytes"
  /\ IF Len(UTF8(query)) > MAX_QUERY_BYTES THEN Stop("query_limit")
     ELSE pc' = "chars" /\ UNCHANGED <<query, next, text, literals, outcome>>

AtCharacter == pc = "chars" /\ next <= Len(query)
Character == query[next]

\* An opening quote ends a token.
OpenQuote ==
  /\ AtCharacter /\ Character = Quote /\ ~in_quote
  /\ in_quote' = TRUE /\ outside' = Append(outside, 32) /\ next' = next + 1
  /\ UNCHANGED <<query, pc, phrase, literals, outcome>>

EmptyPhrase ==
  AtCharacter /\ Character = Quote /\ in_quote /\ phrase = <<>> /\ Stop("empty_query")

Full == literal_count + 1 > MAX_QUERY_LITERALS

\* Mutant: a phrase is not counted.
CloseQuoteUncounted ==
  /\ AtCharacter /\ Character = Quote /\ in_quote /\ phrase # <<>>
  /\ quoted' = Append(quoted, phrase) /\ phrase' = <<>>
  /\ in_quote' = FALSE /\ next' = next + 1
  /\ UNCHANGED <<query, pc, outside, literal_count, identifiers, terms, outcome>>

CloseQuote ==
  /\ AtCharacter /\ Character = Quote /\ in_quote /\ phrase # <<>>
  /\ \/ Full /\ Stop("query_limit")
     \/ /\ ~Full
        /\ literal_count' = literal_count + 1
        /\ quoted' = Append(quoted, phrase) /\ phrase' = <<>>
        /\ in_quote' = FALSE /\ next' = next + 1
        /\ UNCHANGED <<query, pc, outside, identifiers, terms, outcome>>

TakeCharacter ==
  /\ AtCharacter /\ Character # Quote
  /\ IF in_quote THEN phrase' = Append(phrase, Character) /\ UNCHANGED outside
     ELSE outside' = Append(outside, Character) /\ UNCHANGED phrase
  /\ next' = next + 1
  /\ UNCHANGED <<query, pc, in_quote, literals, outcome>>

CharactersEnd ==
  /\ pc = "chars" /\ next > Len(query)
  /\ IF in_quote THEN Stop("unterminated_quote")
     ELSE pc' = "tokens" /\ next' = 1 /\ UNCHANGED <<query, text, literals, outcome>>

AtToken == pc = "tokens" /\ next <= Len(Words(outside))
Literal == Trimmed(Words(outside)[next])

SkipToken ==
  /\ AtToken /\ Literal = <<>>
  /\ next' = next + 1
  /\ UNCHANGED <<query, pc, text, literals, outcome>>

TakeToken ==
  /\ AtToken /\ Literal # <<>>
  /\ \/ Full /\ Stop("query_limit")
     \/ /\ ~Full
        /\ literal_count' = literal_count + 1 /\ next' = next + 1
        /\ IF is_identifier(Literal)
           THEN identifiers' = Append(identifiers, Literal) /\ UNCHANGED terms
           ELSE terms' = Append(terms, Literal) /\ UNCHANGED identifiers
        /\ UNCHANGED <<query, pc, text, quoted, outcome>>

TokensEnd ==
  /\ pc = "tokens" /\ next > Len(Words(outside))
  /\ Stop(IF quoted \o identifiers \o terms = <<>> THEN "empty_query" ELSE "parsed")

Done == pc = "done" /\ UNCHANGED vars

Next == \/ CheckBytes \/ OpenQuote \/ EmptyPhrase \/ CloseQuote \/ TakeCharacter
        \/ CharactersEnd \/ SkipToken \/ TakeToken \/ TokensEnd \/ Done

Spec == Init /\ [][Next]_vars

(***************************************************************************)
(* What search_evidence makes of the parts.                                *)
(***************************************************************************)

Bytewise(parts) == [k \in DOMAIN parts |-> UTF8(parts[k])]

Plan == [query |-> UTF8(query), quoted_phrases |-> Bytewise(quoted),
         identifiers |-> Bytewise(identifiers), terms |-> Bytewise(terms)]

(***************************************************************************)
(* Properties.                                                             *)
(***************************************************************************)

\* A query that parses is one the core admits, and asks for something: the
\* limits counted while parsing are those the core counts in the plan, so
\* that a query over a limit is a usage error and never a failed search
\* (parse_query, validate_limits, is_usage).
CoreAdmitsThePlan ==
  outcome = "parsed" =>
    /\ ValidLimits(Plan)
    /\ Literals(Plan) # <<>> /\ <<>> \notin ToSet(Literals(Plan))

(***************************************************************************)
(* What a query says, without a machine to read it.                        *)
(***************************************************************************)

Quotes == Ascending({i \in DOMAIN query : query[i] = Quote})
Pairs  == 1 .. (Len(Quotes) \div 2)
Phrases == [k \in Pairs |-> SubSeq(query, Quotes[2 * k - 1] + 1, Quotes[2 * k] - 1)]

\* Characters of tokens: neither blank nor quoted.
Loose == {i \in DOMAIN query : /\ query[i] # Quote /\ ~Blank(query[i])
                              /\ \A k \in Pairs : i \notin Quotes[2 * k - 1] .. Quotes[2 * k]}

\* The longest stretches of them that begin and end with a character to keep.
Inside  == LET kept == {i \in Loose : Kept(query[i])}
           IN  {p \in kept \X kept : p[1] <= p[2] /\ p[1] .. p[2] \subseteq Loose}
Longest == LET inside == Inside
           IN  {p \in inside : \A q \in inside : p[1] .. p[2] \subseteq q[1] .. q[2] => p = q}
Stretches ==
  LET longest == Longest
      from == Ascending({p[1] : p \in longest})
  IN  [k \in DOMAIN from |->
         SubSeq(query, from[k], (CHOOSE p \in longest : p[1] = from[k])[2])]

\* The stretches that are identifiers, and the others, in order.
Those(stretches, named) ==
  LET at == Ascending({k \in DOMAIN stretches : is_identifier(stretches[k]) <=> named})
  IN  [k \in DOMAIN at |-> stretches[at[k]]]

\* A query parses exactly when it is within the limits and its quotes are
\* closed and none is empty; the phrases are what the quotes enclose, and
\* every token outside is found, once, trimmed, in order, as identifier or as
\* term (parse_query).
ParsedExactly ==
  pc = "done" =>
    /\ outcome = "parsed" <=>
         /\ Len(UTF8(query)) <= MAX_QUERY_BYTES
         /\ (Len(Quotes) % 2) = 0 /\ <<>> \notin ToSet(Phrases)
         /\ Len(Phrases) + Len(Stretches) \in 1 .. MAX_QUERY_LITERALS
    /\ outcome = "parsed" =>
         /\ quoted = Phrases
         /\ identifiers = Those(Stretches, TRUE) /\ terms = Those(Stretches, FALSE)
=============================================================================
