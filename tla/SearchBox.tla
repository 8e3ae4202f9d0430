------------------------------- MODULE SearchBox -------------------------------
(***************************************************************************)
(* The patron's search box, components/SongSearch.tsx, with the trigger of *)
(* billed searches (lib/search-trigger.ts) and the plan that answers from  *)
(* rows already held (lib/search-prefix.ts).                               *)
(*                                                                         *)
(* seqRef orders the answers: a response whose number has been passed is   *)
(* dropped.  So the model keeps only the one search whose answer will be   *)
(* heeded (`asked`) and the one load-more (`more`, heeded or not); a bump  *)
(* of the number forgets the former and marks the latter.                  *)
(*                                                                         *)
(* Rows are the text and the mode they were searched for, and the text     *)
(* they are narrowed to.  What a text matches is data: Narrows says which  *)
(* pools answer which longer texts.  Revealing rows that are already held  *)
(* has no effect on the rest and is left out, and so is the selection.     *)
(***************************************************************************)
EXTENDS Integers

CONSTANTS
  Queries,     \* texts long enough to search
  Shorts,      \* texts that are not
  Links,       \* pasted links
  Empty,
  Modes,
  Narrows,     \* pairs <<longer, held>>: held's page still answers the longer text
  MAX_SEARCH_PAGES,
  None,
  MaxEdits, MaxAsks   \* bounds on edits and on requests

Texts == Queries \cup Shorts \cup Links \cup {Empty}

\* What is on the screen and what is in flight: rows, cursors, searches, load-mores.
Shown == [q : Queries \cup {None}, mode : Modes \cup {None}, for : Texts]
Cursors == [of : Queries \X Modes, page : Nat]
Searches == [q : Queries, mode : Modes, live : BOOLEAN, retried : BOOLEAN]
Deeper == [q : Queries \X Modes, token : Cursors, page : Nat, fresh : BOOLEAN]

SearchBoxAssumption ==
  /\ {None, Empty} \cap (Queries \cup Shorts \cup Links) = {} /\ None # Empty
  /\ Queries \cap Shorts = {} /\ Queries \cap Links = {} /\ Shorts \cap Links = {}
  /\ None \notin (Queries \X Modes) \cup Shown \cup Cursors \cup Searches \cup Deeper
  /\ Narrows \subseteq Queries \X Queries
  /\ MAX_SEARCH_PAGES \in Nat \ {0} /\ MaxEdits \in Nat /\ MaxAsks \in Nat

VARIABLES
  input, mode,
  shown,       \* the rows on the screen
  held,        \* the pool: what it was fetched for, and whether it has rows
  filterQuery, \* the text the rows on the screen answer
  resultsOf,   \* the text and mode the cursor belongs to
  token,       \* the cursor of the next page
  pages,       \* server pages this query has spent
  awaiting,    \* the text the hint "press Enter" is for
  loading,     \* the skeleton
  debounce, retry,          \* the texts their timers will search for
  pending, timer, idleElapsed, missed, lastFired,   \* LiveSearchTrigger
  asked, more, \* requests in flight
  edits, asks  \* so far

trigger == <<pending, timer, idleElapsed, missed, lastFired>>
screen == <<shown, held, filterQuery, resultsOf, token, pages>>
requests == <<asked, more, asks>>
vars == <<input, mode, screen, awaiting, loading, debounce, retry, trigger, requests, edits>>

NoRows == None
Rows(q, m, text) == [q |-> q, mode |-> m, for |-> text]
NoPool == [q |-> None, mode |-> None, rows |-> FALSE]

Init ==
  /\ input = Empty /\ mode \in Modes
  /\ shown = NoRows /\ held = NoPool /\ filterQuery = None
  /\ resultsOf = None /\ token = None /\ pages = 1
  /\ awaiting = None /\ loading = FALSE
  /\ debounce = None /\ retry = None
  /\ pending = None /\ timer = FALSE /\ idleElapsed = FALSE /\ missed = FALSE
  /\ lastFired = None
  /\ asked = None /\ more = None
  /\ edits = 0 /\ asks = 0

-----------------------------------------------------------------------------
\* LiveSearchTrigger.

Key(text) == <<mode, text>>
Cancel ==
  /\ pending' = None /\ timer' = FALSE /\ idleElapsed' = FALSE /\ missed' = FALSE
  /\ UNCHANGED lastFired
Edited(text) ==
  /\ pending' = text /\ timer' = TRUE /\ idleElapsed' = FALSE /\ missed' = FALSE
  /\ UNCHANGED lastFired
\* maybeFire
Fires(elapsed, miss) == elapsed /\ miss /\ pending # None /\ Key(pending) # lastFired
AllowRetry(text) == IF lastFired = Key(text) THEN None ELSE lastFired

\* A newer answer than any that is in flight: ++seqRef.
Stale == IF more = None THEN None ELSE [more EXCEPT !.fresh = FALSE]
Bump == asked' = None /\ more' = Stale

\* runSearch up to its fetch.
RunSearch(q, live, retried) ==
  /\ asks < MaxAsks /\ asks' = asks + 1
  /\ asked' = [q |-> q, mode |-> mode, live |-> live, retried |-> retried]
  /\ more' = Stale
  /\ retry' = None /\ loading' = TRUE
  /\ awaiting' = IF live THEN None ELSE awaiting

-----------------------------------------------------------------------------
\* The input effect.

\* Nothing to search for: no rows, no pool, no cursor.
ClearRows ==
  /\ shown' = NoRows /\ held' = NoPool /\ filterQuery' = None
  /\ resultsOf' = None /\ token' = None /\ pages' = 1
Edit(text) ==
  /\ edits < MaxEdits /\ edits' = edits + 1
  /\ input' = text
  /\ debounce' = None /\ retry' = None /\ awaiting' = None
  /\ UNCHANGED <<mode, asks>>

\* The empty and the too short input.
TypeLittle(text) ==
  /\ text \in Shorts \cup {Empty}
  /\ Edit(text)
  /\ Cancel /\ ClearRows /\ loading' = FALSE
  /\ UNCHANGED <<asked, more>>

\* Mutant: a pasted link does not end the search in flight.
PasteUnbumped(text) ==
  /\ text \in Links
  /\ Edit(text)
  /\ Cancel /\ loading' = FALSE
  /\ held' = NoPool /\ filterQuery' = None
  /\ resultsOf' = None /\ token' = None /\ pages' = 1
  /\ shown' = Rows(None, None, text)
  /\ UNCHANGED <<asked, more>>

Paste(text) ==
  /\ text \in Links
  /\ Edit(text)
  /\ Cancel /\ Bump /\ loading' = FALSE
  /\ held' = NoPool /\ filterQuery' = None
  /\ resultsOf' = None /\ token' = None /\ pages' = 1
  /\ shown' = Rows(None, None, text)

\* planSearch: the same text, or a longer one the pool still answers.
Filter(text) == held.rows /\ held.q # None /\ (text = held.q \/ <<text, held.q>> \in Narrows)

\* Mutant: narrowing leaves the trigger armed for an earlier text.
TypeNarrowingArmed(text) ==
  /\ text \in Queries /\ Filter(text)
  /\ Edit(text)
  /\ Bump /\ loading' = FALSE
  /\ shown' = Rows(held.q, held.mode, text) /\ filterQuery' = text
  /\ UNCHANGED <<held, resultsOf, token, pages, trigger>>

TypeNarrowing(text) ==
  /\ text \in Queries /\ Filter(text)
  /\ Edit(text)
  /\ Cancel /\ Bump /\ loading' = FALSE
  /\ shown' = Rows(held.q, held.mode, text) /\ filterQuery' = text
  /\ UNCHANGED <<held, resultsOf, token, pages>>

TypeMore(text) ==
  /\ text \in Queries /\ ~Filter(text)
  /\ input' = text
  /\ edits < MaxEdits /\ edits' = edits + 1
  /\ debounce' = text /\ retry' = None /\ awaiting' = None
  /\ Edited(text)
  /\ UNCHANGED <<mode, screen, loading, requests>>

\* The chooser: setScope, and nothing is searched.
SetMode ==
  /\ mode' \in Modes \ {mode}
  /\ UNCHANGED <<input, screen, awaiting, loading, debounce, retry, trigger, requests, edits>>

\* Timers and taps that search.
Debounced ==
  /\ debounce # None
  /\ RunSearch(debounce, FALSE, FALSE) /\ debounce' = None
  /\ UNCHANGED <<input, mode, screen, trigger, edits>>

\* The idle timer: a billed search if the free tiers have missed meanwhile.
Idle ==
  /\ timer
  /\ timer' = FALSE /\ idleElapsed' = TRUE
  /\ IF Fires(TRUE, missed)
       THEN /\ lastFired' = Key(pending) /\ debounce' = None
            /\ RunSearch(pending, TRUE, FALSE)
       ELSE UNCHANGED <<lastFired, debounce, retry, loading, awaiting, requests>>
  /\ UNCHANGED <<input, mode, screen, pending, missed, edits>>

\* handleKeyDown and enter.
Enter ==
  /\ input \in Queries
  /\ pending' = input /\ timer' = FALSE /\ idleElapsed' = FALSE /\ missed' = FALSE
  /\ IF Key(input) # lastFired
       THEN /\ lastFired' = Key(input) /\ debounce' = None
            /\ RunSearch(input, TRUE, FALSE)
       ELSE UNCHANGED <<lastFired, debounce, retry, loading, awaiting, requests>>
  /\ UNCHANGED <<input, mode, screen, edits>>

\* The retry of a deferred search, if the patron has not moved on.
Retry ==
  /\ retry # None
  /\ IF input = retry
       THEN RunSearch(retry, TRUE, TRUE)
       ELSE retry' = None /\ UNCHANGED <<loading, awaiting, requests>>
  /\ UNCHANGED <<input, mode, screen, debounce, trigger, edits>>

\* "Search again" under rows of the other mode.
SearchAgain ==
  /\ ~loading /\ shown # NoRows /\ resultsOf # None /\ resultsOf[2] # mode
  /\ input \in Queries
  /\ RunSearch(input, TRUE, FALSE)
  /\ UNCHANGED <<input, mode, screen, debounce, trigger, edits>>

-----------------------------------------------------------------------------
\* The answers of runSearch.  Each first restarts the pages.

Restarted == token' = None /\ pages' = 1
Landed ==
  /\ asked # None /\ asked' = None /\ loading' = FALSE
  /\ UNCHANGED <<input, mode, debounce, more, asks, edits>>

\* liveRequired: the free tiers have nothing.  The pool is kept.  The idle deadline
\* may already have passed: then the billed search follows at once.
LiveRequired ==
  /\ asked # None /\ ~asked.live
  /\ Restarted /\ shown' = NoRows /\ resultsOf' = None
  /\ LET q == asked.q
         heard == q = pending IN
     /\ missed' = (missed \/ heard)
     /\ IF heard /\ Fires(idleElapsed, TRUE)
          THEN /\ lastFired' = Key(q) /\ debounce' = None
               /\ RunSearch(q, TRUE, FALSE)
          ELSE /\ awaiting' = q /\ asked' = None /\ loading' = FALSE
               /\ UNCHANGED <<lastFired, debounce, retry, more, asks>>
  /\ UNCHANGED <<input, mode, held, filterQuery, pending, timer, idleElapsed, edits>>

\* Deferred, by the cooldown or behind another flight.
Deferred ==
  /\ Landed /\ asked.live
  /\ Restarted /\ UNCHANGED <<shown, held, filterQuery, resultsOf>>
  /\ lastFired' = AllowRetry(asked.q)
  /\ awaiting' = asked.q
  /\ retry' = IF asked.retried THEN retry ELSE asked.q
  /\ UNCHANGED <<pending, timer, idleElapsed, missed>>

\* A page, with a cursor or without, empty or not.
Answered ==
  /\ Landed
  /\ LET q == asked.q
         m == asked.mode IN
     /\ IF ~asked.live /\ q = pending THEN Cancel ELSE UNCHANGED trigger
     /\ \E rows \in BOOLEAN :
          /\ held' = [q |-> q, mode |-> m, rows |-> rows]
          /\ shown' = IF rows THEN Rows(q, m, q) ELSE NoRows
     /\ token' \in {None, [of |-> <<q, m>>, page |-> 2]} /\ pages' = 1
     /\ resultsOf' = <<q, m>>
     /\ filterQuery' = q
  /\ awaiting' = None
  /\ UNCHANGED retry

\* Too many requests, degraded, or a network error, which leaves the cursor.
Refused ==
  /\ Landed
  /\ shown' = NoRows /\ held' = NoPool /\ filterQuery' = None /\ resultsOf' = None
  /\ Restarted \/ UNCHANGED <<token, pages>>
  /\ IF asked.live
       THEN lastFired' = AllowRetry(asked.q) /\ UNCHANGED <<pending, timer, idleElapsed, missed>>
       ELSE Cancel
  /\ UNCHANGED <<awaiting, retry>>

\* Mutant: the cursor goes with the text in the box.
LoadMoreOfInput ==
  /\ token # None /\ more = None /\ pages < MAX_SEARCH_PAGES /\ resultsOf # None
  /\ asks < MaxAsks /\ asks' = asks + 1
  /\ more' = [q |-> <<input, mode>>, token |-> token, page |-> pages + 1, fresh |-> TRUE]
  /\ UNCHANGED <<input, mode, screen, awaiting, loading, debounce, retry, trigger, asked, edits>>

\* "Load more", once every held row is shown, unless the text has moved on (queryDirty).
LoadMore ==
  /\ shown # NoRows /\ ~loading
  /\ filterQuery \in {None, input}
  /\ token # None /\ more = None /\ pages < MAX_SEARCH_PAGES /\ resultsOf # None
  /\ asks < MaxAsks /\ asks' = asks + 1
  /\ more' = [q |-> resultsOf, token |-> token, page |-> pages + 1, fresh |-> TRUE]
  /\ UNCHANGED <<input, mode, screen, awaiting, loading, debounce, retry, trigger, asked, edits>>

\* Its answer: passed over, refused, or merged into the pool, which is narrowed again.
MoreLands ==
  /\ more # None /\ more' = None
  /\ \/ UNCHANGED screen
     \/ more.fresh /\ token' = None /\ UNCHANGED <<shown, held, filterQuery, resultsOf, pages>>
     \/ /\ more.fresh
        /\ held' = [held EXCEPT !.rows = TRUE]
        /\ shown' = Rows(held.q, held.mode, IF held.q # None /\ filterQuery # None
                                              THEN filterQuery ELSE more.q[1])
        /\ token' \in {None, [of |-> more.q, page |-> more.page + 1]}
        /\ pages' = pages + 1
        /\ UNCHANGED <<filterQuery, resultsOf>>
  /\ UNCHANGED <<input, mode, awaiting, loading, debounce, retry, trigger, asked, asks, edits>>

Lands == LiveRequired \/ Deferred \/ Answered \/ Refused
Next ==
  \/ \E text \in Texts : TypeLittle(text) \/ Paste(text) \/ TypeNarrowing(text) \/ TypeMore(text)
  \/ SetMode \/ Debounced \/ Idle \/ Enter \/ Retry \/ SearchAgain
  \/ Lands \/ LoadMore \/ MoreLands

Spec == Init /\ [][Next]_vars
-----------------------------------------------------------------------------
\* Properties.

\* Nothing is under way that would still change the screen by itself.
Settled == asked = None /\ debounce = None /\ retry = None /\ (more = None \/ ~more.fresh)

\* Whatever order edits, timers and answers come in, a link's row stays, and the rows
\* under a searchable text answer that text, or the search that will replace them is
\* under way, or the hint says that they do not.  And no skeleton is left behind.
RowsAnswerTheInput ==
  /\ input \in Links => shown = Rows(None, None, input)
  /\ input \in Queries /\ shown # NoRows /\ Settled /\ awaiting # input => shown.for = input
  /\ loading => asked # None

\* A billed search is for the text in the box at that moment, whichever timer, tap or
\* late answer sets it off; and choosing a mode never searches.
BillsOnlyWhatIsTyped ==
  [][/\ asked' # asked /\ asked' # None /\ asked'.live => asked'.q = input
     /\ mode' # mode => UNCHANGED requests]_vars

\* A load-more pairs a cursor with the query and the page it was given for, although
\* the text, the mode and the rows may have changed since, and never goes deeper than
\* the cap.
CursorBelongsToItsQuery ==
  more # None => /\ more.token.of = more.q /\ more.token.page = more.page
                 /\ more.page <= MAX_SEARCH_PAGES

\* SongSearch.tsx says of the emptied input "Empty -> reset everything", and of seqRef
\* that it "guards against out-of-order responses".
LittleInputShowsNothing == input \in Shorts \cup {Empty} => shown = NoRows

\* And of a free miss: "show the hint and let Enter / the idle timer decide whether to
\* spend a live call".  While the hint is shown, Enter searches.
HintMeansEnterSearches ==
  awaiting # None /\ awaiting = input /\ asked = None => Key(input) # lastFired
=============================================================================
