---------------------------- MODULE KaraokeMatcher ----------------------------
(***************************************************************************)
(* Answering a search from the karaoke index: KaraokeIndex of                *)
(* lib/karaoke-index/matcher.ts and decideTier of lib/karaoke-index/tier.ts. *)
(*                                                                           *)
(* A word is a sequence of letters, as normalizeQuery leaves it, and a title *)
(* or a query is a sequence of words.  A quality is counted in tenths, and a *)
(* row's score is the sum over the query's words: the mean is compared as    *)
(* score >= threshold * words, so the rounding of the division is left out.  *)
(***************************************************************************)
EXTENDS Integers, Sequences, SequencesExt, FiniteSets, FiniteSetsExt

CONSTANTS
  Shards,             \* the shards in channel rank order: sequences of [id, title]
  Queries,            \* the queries a patron may type
  NonDiscriminating,  \* articles and karaoke boilerplate
  Karaoke,            \* the word sing mode appends
  NoPage, DeepPage, INDEX_MORE_TOKEN,
  LIMIT,              \* INDEX_RESULT_LIMIT
  MAX_QUERY_TOKENS, MAX_FUZZY_TOKENS

KaraokeMatcherAssumption ==
  /\ {LIMIT, MAX_QUERY_TOKENS, MAX_FUZZY_TOKENS} \subseteq Nat
  /\ Cardinality({NoPage, DeepPage, INDEX_MORE_TOKEN}) = 3

VARIABLES query, page, answer

vars == <<query, page, answer>>

EXACT_Q == 10
PREFIX_Q == 8
FUZZY_Q == 5
MIN_PREFIX == 2
MIN_FUZZY == 4
GOOD_MATCH == 8
MIN_INDEX_QUERY_CHARS == 4

\* discriminatingTokens, as a set: the matcher keeps one of each
Discriminating(text) == ToSet(text) \ NonDiscriminating

-----------------------------------------------------------------------------
\* boundedLevenshtein: the rows of the edit matrix, row i a function of 0..Len(b);
\* it gives up on the first row that is over the bound everywhere.

Least3(x, y, z) == CHOOSE m \in {x, y, z} : m <= x /\ m <= y /\ m <= z

Cells(prev, i, a, b) ==
  LET cur[j \in 0 .. Len(b)] ==
        IF j = 0 THEN i
        ELSE Least3(prev[j] + 1, cur[j - 1] + 1,
                    prev[j - 1] + (IF a[i] = b[j] THEN 0 ELSE 1))
  IN  cur

\* a plausible slip: a swap for free
FreeSwapCells(prev, i, a, b) ==
  LET cur[j \in 0 .. Len(b)] ==
        IF j = 0 THEN i ELSE Least3(prev[j] + 1, cur[j - 1] + 1, prev[j - 1])
  IN  cur

NextRow(prev, i, a, b) == Cells(prev, i, a, b)

BoundedLevenshtein(a, b, bound) ==
  LET rows[i \in 0 .. Len(a)] ==
        IF i = 0 THEN [j \in 0 .. Len(b) |-> j] ELSE NextRow(rows[i - 1], i, a, b)
      over(i) == \A j \in 0 .. Len(b) : rows[i][j] > bound
  IN  IF \/ Len(a) - Len(b) > bound \/ Len(b) - Len(a) > bound
         \/ \E i \in 1 .. Len(a) : over(i)
      THEN bound + 1
      ELSE rows[Len(a)][Len(b)]

FuzzyBudget(token) == IF Len(token) >= 7 THEN 2 ELSE 1

-----------------------------------------------------------------------------
\* The index: the first row of each video, its channel's rank, its words.

AllRows ==
  UNION {{[id |-> Shards[r][i].id, title |-> Shards[r][i].title, rank |-> r, at |-> i] :
            i \in DOMAIN Shards[r]} : r \in DOMAIN Shards}
Before(x, y) == x.rank < y.rank \/ (x.rank = y.rank /\ x.at < y.at)
Videos == {v \in AllRows : \A o \in AllRows : o.id = v.id /\ o # v => Before(v, o)}
Vocab == UNION {ToSet(v.title) : v \in Videos}
TitleWords(v) == LET n == Cardinality(Discriminating(v.title)) IN IF n = 0 THEN 1 ELSE n

Strict(token) ==
  {w \in Vocab : w = token \/ (Len(token) >= MIN_PREFIX /\ IsPrefix(token, w))}
Near(token, w) ==
  \/ BoundedLevenshtein(token, w, FuzzyBudget(token)) <= FuzzyBudget(token)
  \/ /\ Len(w) > Len(token)
     /\ BoundedLevenshtein(token, SubSeq(w, 1, Len(token)), 1) <= 1

\* The tokens that cost a scan of the vocabulary, in the order they are met.
Scans(tokens) == SelectSeq(tokens, LAMBDA t : Strict(t) = {} /\ Len(t) >= MIN_FUZZY)
Scanned(t, tokens) == \E i \in DOMAIN Scans(tokens) : i <= MAX_FUZZY_TOKENS /\ Scans(tokens)[i] = t

\* wordMatches
Matches(t, tokens) ==
  IF Strict(t) # {} THEN Strict(t)
  ELSE {w \in Vocab : Scanned(t, tokens) /\ Near(t, w)}

QualityOf(t, w) == IF w = t THEN EXACT_Q ELSE IF IsPrefix(t, w) THEN PREFIX_Q ELSE FUZZY_Q

\* 0 when no word of the title matches
Quality(t, v, tokens) ==
  Max({0} \cup {QualityOf(t, w) : w \in Matches(t, tokens) \cap ToSet(v.title)})

Score(v, tokens) ==
  FoldLeft(LAMBDA sum, t : sum + Quality(t, v, tokens), 0, tokens)

\* search: rows every token matches, the best first
Distinct(text) ==
  FoldLeft(LAMBDA seen, w : IF w \in ToSet(seen) THEN seen ELSE Append(seen, w), <<>>, text)
Tokens(q) == Distinct(SelectSeq(q, LAMBDA w : w \notin NonDiscriminating))

Hits(tokens) ==
  IF tokens = <<>> \/ Len(tokens) > MAX_QUERY_TOKENS THEN {}
  ELSE {v \in Videos : \A t \in ToSet(tokens) : Quality(t, v, tokens) > 0}

Ranked(tokens) ==
  LET hits == Hits(tokens)
      score == [v \in hits |-> Score(v, tokens)]
      Better(v, w) ==
        \/ score[v] > score[w]
        \/ /\ score[v] = score[w]
           /\ \/ TitleWords(v) < TitleWords(w)
              \/ TitleWords(v) = TitleWords(w) /\ v.rank < w.rank
              \/ TitleWords(v) = TitleWords(w) /\ v.rank = w.rank /\ v.id < w.id
  IN  SetToSortSeq(hits, Better)

-----------------------------------------------------------------------------
\* decideTier

Live(reason) == [tier |-> "live", reason |-> reason, rows |-> <<>>]
Chars(tokens) == FoldLeft(LAMBDA n, t : n + Len(t), 0, tokens)
Confident(tokens, ranked) == Score(ranked[1], tokens) >= GOOD_MATCH * Len(tokens)

DecideTier(q, p) ==
  LET tokens == Tokens(q)
      ranked == Ranked(tokens)
  IN  CASE p = INDEX_MORE_TOKEN -> Live("index-escape")
        [] p = DeepPage -> Live("deep-page")
        [] Karaoke \notin ToSet(q) -> Live("not-sing-mode")
        [] Videos = {} -> Live("index-unavailable")
        [] Chars(tokens) < MIN_INDEX_QUERY_CHARS -> Live("query-too-short")
        [] Len(tokens) > MAX_QUERY_TOKENS -> Live("query-too-long")
        [] ranked = <<>> \/ ~Confident(tokens, ranked) -> Live("weak-match")
        [] OTHER -> [tier |-> "index", reason |-> "", 
                     rows |-> SubSeq(ranked, 1, IF Len(ranked) < LIMIT THEN Len(ranked) ELSE LIMIT)]

NoAnswer == [tier |-> "none", reason |-> "", rows |-> <<>>]

Init == query = <<>> /\ page = NoPage /\ answer = NoAnswer

\* A search on an empty screen; "load more" past the rows of an answer; the screen
\* cleared.
Search ==
  /\ answer = NoAnswer
  /\ query' \in Queries
  /\ answer' = DecideTier(query', NoPage)
  /\ UNCHANGED page

LoadMore ==
  /\ answer # NoAnswer /\ page = NoPage
  /\ page' = IF answer.tier = "index" THEN INDEX_MORE_TOKEN ELSE DeepPage
  /\ answer' = DecideTier(query, page')
  /\ UNCHANGED query

Clear ==
  /\ answer # NoAnswer
  /\ query' = <<>> /\ page' = NoPage /\ answer' = NoAnswer

Next == Search \/ LoadMore \/ Clear

Spec == Init /\ [][Next]_vars

-----------------------------------------------------------------------------

\* The reference for a typo: words one or two edits apart, an edit being a letter
\* put in, left out or changed.
Letters == UNION {ToSet(w) : w \in Vocab \cup UNION {ToSet(q) : q \in Queries}}
Edited(w) ==
  {RemoveAt(w, i) : i \in DOMAIN w}
    \cup {[w EXCEPT ![i] = l] : i \in DOMAIN w, l \in Letters}
    \cup {InsertAt(w, i, l) : i \in 1 .. Len(w) + 1, l \in Letters}
WithinEdits(w, n) ==
  IF n = 1 THEN {w} \cup Edited(w) ELSE {w} \cup Edited(w) \cup UNION {Edited(x) : x \in Edited(w)}

\* Every row the index answers with instead of a live search has, for each word that
\* matters in the query, that word, a word it begins, or a word (or the beginning of
\* one) that is at most its allowance of typing errors away: the matrix with its
\* early exits trusts no row a count of edits would not (matcher.ts:16, :88, tier.ts:15).
RowsHaveEveryWord ==
  answer.tier = "index" =>
    \A i \in DOMAIN answer.rows : \A t \in Discriminating(query) :
      \E w \in ToSet(answer.rows[i].title) :
        \/ IsPrefix(t, w)
        \/ Len(t) >= MIN_FUZZY /\ w \in WithinEdits(t, FuzzyBudget(t))
        \/ Len(t) >= MIN_FUZZY /\ Len(w) > Len(t) /\ SubSeq(w, 1, Len(t)) \in WithinEdits(t, 1)

\* What tier.ts:20-22 says the threshold of 0.8 means: every word is there and the only
\* imperfect matches are words still being typed or, in a query of three or more words,
\* a single typo.
SingleTypo ==
  answer.tier = "index" =>
    Cardinality({t \in Discriminating(query) :
                   \A w \in ToSet(answer.rows[1].title) : ~IsPrefix(t, w)}) <= 1
=============================================================================
