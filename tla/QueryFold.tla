------------------------------- MODULE QueryFold -------------------------------
(***************************************************************************)
(* Which searches share a cache entry: augmentQuery of lib/search-query.ts   *)
(* and foldSearchKey of lib/search-prefix.ts.  A query is a sequence of      *)
(* characters that are already lower case and without accents; what matters  *)
(* of one is whether it belongs to a word or can be a search operator of     *)
(* Google's.  The word "karaoke" is the single letter Karaoke.               *)
(***************************************************************************)
EXTENDS Integers, Sequences, SequencesExt

CONSTANTS
  Letters, Karaoke, Space, Dash, Bar, Quote, Sign,
  MaxLength          \* bound on what is typed

QueryFoldAssumption == Karaoke \in Letters /\ MaxLength \in Nat

VARIABLES typed, sent, key

vars == <<typed, sent, key>>

Characters == Letters \cup {Space, Dash, Bar, Quote, Sign}
IsWordChar(ch) == ch \in Letters

-----------------------------------------------------------------------------
\* foldKeyTokens: one pass, with the word being read and whether a dash excludes it.

Start == [out |-> <<>>, word |-> <<>>, minus |-> FALSE]

Flush(s) ==
  IF s.word = <<>> THEN s
  ELSE [out |-> Append(s.out, IF s.minus THEN <<Dash>> \o s.word ELSE s.word),
        word |-> <<>>, minus |-> FALSE]

WordAt(q, i) == i \in DOMAIN q /\ IsWordChar(q[i])

\* A dash glued to what follows and to no word before it.
Excludes(q, i) == ~WordAt(q, i - 1) /\ i < Len(q) /\ (WordAt(q, i + 1) \/ q[i + 1] = Quote)

Read(s, q, i) ==
  LET f == Flush(s)
      marker(t) == [f EXCEPT !.out = Append(@, t)]
  IN  CASE IsWordChar(q[i]) -> [s EXCEPT !.word = Append(@, q[i])]
        [] q[i] = Bar -> IF f.out # <<>> /\ Last(f.out) = <<Bar>> THEN f ELSE marker(<<Bar>>)
        [] q[i] = Quote -> [marker(IF f.minus THEN <<Dash, Quote>> ELSE <<Quote>>)
                              EXCEPT !.minus = FALSE]
        [] q[i] = Sign -> marker(<<Sign>>)
        [] q[i] = Dash /\ Excludes(q, i) -> [f EXCEPT !.minus = TRUE]
        [] OTHER -> f

Scan(q) == FoldLeftDomain(LAMBDA s, i : Read(s, q, i), Start, q)
KeyTokens(q) == Flush(Scan(q)).out

\* foldTokens: words only, whatever is between them.
Blanked(q) == [i \in DOMAIN q |-> IF IsWordChar(q[i]) THEN q[i] ELSE Space]
FoldTokens(q) == Flush(FoldLeftDomain(LAMBDA s, i : Read(s, Blanked(q), i), Start, q)).out

Markers == {<<Bar>>, <<Quote>>, <<Dash, Quote>>, <<Sign>>}

\* foldSearchKey: karaoke goes to the end, unless an operator is there.
KeyOf(tokens) ==
  LET words == SelectSeq(tokens, LAMBDA t : t # <<Karaoke>>)
  IN  IF ToSet(tokens) \cap Markers # {} THEN tokens
      ELSE IF Len(words) < Len(tokens) THEN Append(words, <<Karaoke>>) ELSE words

PlainKey(q) == KeyOf(FoldTokens(q))
FoldSearchKey(q) == KeyOf(KeyTokens(q))

\* augmentQuery, in sing mode
ContainsKaraoke(q) == <<Karaoke>> \in ToSet(FoldTokens(q))
Augment(q) == IF ContainsKaraoke(q) THEN q ELSE q \o <<Space, Karaoke>>

-----------------------------------------------------------------------------

Init == typed = <<>> /\ sent = <<>> /\ key = <<>>

Type(ch) ==
  /\ sent = <<>> /\ Len(typed) < MaxLength
  /\ typed' = Append(typed, ch)
  /\ UNCHANGED <<sent, key>>

\* The search, in sing mode or another; a query of blanks is not sent.
Search(sing) ==
  /\ sent = <<>> /\ \E i \in DOMAIN typed : typed[i] # Space
  /\ sent' = IF sing THEN Augment(typed) ELSE typed
  /\ key' = FoldSearchKey(sent')
  /\ UNCHANGED typed

Next == (\E ch \in Characters : Type(ch)) \/ (\E sing \in BOOLEAN : Search(sing))

Spec == Init /\ [][Next]_vars

-----------------------------------------------------------------------------

\* What Google is asked, read off the text without scanning it: the words and the
\* operators, each where it stands, an operator or a word with the dash that excludes
\* it.  Where nothing but words is asked for, karaoke may stand anywhere.
WordsOf(q) ==
  {<<i, j>> \in (DOMAIN q) \X (DOMAIN q) :
     /\ i <= j /\ \A m \in i .. j : IsWordChar(q[m])
     /\ ~WordAt(q, i - 1) /\ ~WordAt(q, j + 1)}
Excluded(q, i) == i > 1 /\ q[i - 1] = Dash /\ ~WordAt(q, i - 2)
Items(q) ==
  {[at |-> w[1], is |-> SubSeq(q, w[1], w[2]), out |-> Excluded(q, w[1])] : w \in WordsOf(q)}
    \cup {[at |-> i, is |-> <<q[i]>>, out |-> q[i] = Quote /\ Excluded(q, i)] :
            i \in {m \in DOMAIN q : q[m] \in {Quote, Sign, Bar}}}
Question(q) ==
  LET items == SetToSortSeq(Items(q), LAMBDA x, y : x.at < y.at)
      bare == [i \in DOMAIN items |-> [is |-> items[i].is, out |-> items[i].out]]
      again(i) == i > 1 /\ bare[i].is = <<Bar>> /\ bare[i - 1].is = <<Bar>>
      karaoke == [is |-> <<Karaoke>>, out |-> FALSE]
      operators == \E i \in DOMAIN bare : bare[i].is[1] \in {Quote, Sign, Bar}
      once == FoldLeftDomain(LAMBDA s, i : IF again(i) THEN s ELSE Append(s, bare[i]), <<>>, bare)
  IN  IF operators
      THEN [asks |-> once, karaoke |-> FALSE]
      ELSE [asks |-> SelectSeq(bare, LAMBDA x : x # karaoke), karaoke |-> karaoke \in ToSet(bare)]

Text(tokens) ==
  FoldLeft(LAMBDA s, t : IF s = <<>> THEN t ELSE s \o <<Space>> \o t, <<>>, tokens)

\* A cache key, read as a query, asks Google the question the patron asked: two
\* searches that share an entry, and so one billed answer for seven days, never
\* differ in a word, an exclusion or an operator, and a key folds to itself
\* (search-prefix.ts:169).
KeyAsksTheQuestion ==
  sent # <<>> => Question(Text(key)) = Question(sent) /\ FoldSearchKey(Text(key)) = key
=============================================================================
