---------------------------- MODULE KeywordIndex ----------------------------
(***************************************************************************)
(* The keyword index (src/native/src/inverted_index.rs): which chunks have *)
(* a term, how often, and the number of all tokens.  A text is a bag of    *)
(* terms.                                                                  *)
(***************************************************************************)
EXTENDS Naturals, FiniteSets, Functions, FiniteSetsExt

NoChunks == [postings |-> <<>>, tokens |-> <<>>, total |-> 0]

TermsOf(text) == DOMAIN text
TokenCount(text) == MapThenSumSet(LAMBDA t : text[t], DOMAIN text)

\* add_chunk: what the chunk had before is replaced in chunk_tokens and nowhere else.
Indexed(words, chunk, text) ==
  [postings |-> [t \in DOMAIN words.postings \cup TermsOf(text) |->
                   (IF t \in DOMAIN words.postings THEN words.postings[t] ELSE {})
                   \cup (IF t \in TermsOf(text) THEN {chunk} ELSE {})],
   tokens |-> [c \in DOMAIN words.tokens \cup {chunk} |-> IF c = chunk THEN text ELSE words.tokens[c]],
   total |-> words.total + TokenCount(text)]

\* remove_chunk: its terms' entries, and terms without entries; the total stops at zero.
Unindexed(words, chunk) ==
  IF chunk \notin DOMAIN words.tokens THEN words
  ELSE LET text == words.tokens[chunk]
           left == [t \in DOMAIN words.postings |->
                      IF t \in TermsOf(text) THEN words.postings[t] \ {chunk} ELSE words.postings[t]]
           spent == TokenCount(text)
       IN [postings |-> Restrict(left, {t \in DOMAIN left : t \notin TermsOf(text) \/ left[t] # {}}),
           tokens |-> Restrict(words.tokens, DOMAIN words.tokens \ {chunk}),
           total |-> IF spent < words.total THEN words.total - spent ELSE 0]

\* The chunks that search scores above zero: those of the postings whose own tokens
\* have a term of the query.
FoundBy(words, query) ==
  {c \in DOMAIN words.tokens : \E t \in query \cap DOMAIN words.postings :
     c \in words.postings[t] /\ t \in TermsOf(words.tokens[c])}

\* A posting's length is the document frequency the scores are computed from, and the
\* total gives the average length of a text: both are those of the chunks that are there,
\* and a query finds those that have one of its terms.
Exact(words) ==
  /\ DOMAIN words.postings = UNION {TermsOf(words.tokens[c]) : c \in DOMAIN words.tokens}
  /\ \A t \in DOMAIN words.postings :
       words.postings[t] = {c \in DOMAIN words.tokens : t \in TermsOf(words.tokens[c])}
  /\ words.total = MapThenSumSet(LAMBDA c : TokenCount(words.tokens[c]), DOMAIN words.tokens)
  /\ \A t \in DOMAIN words.postings :
       FoundBy(words, {t}) = {c \in DOMAIN words.tokens : t \in TermsOf(words.tokens[c])}
=============================================================================
