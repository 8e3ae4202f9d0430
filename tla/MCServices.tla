----------------------------- MODULE MCServices -----------------------------
(***************************************************************************)
(* For TLC: the components that answer a request by computing, or from a   *)
(* state of their own.  They share nothing, so a behaviour is one of a     *)
(* single component, chosen at the start; the others do not move.          *)
(***************************************************************************)
EXTENDS Naturals, TLC, Sequences

CONSTANTS Parts,   \* which components
          NoPage, DeepPage, IDXLIVE,
          p1, p2, p3, t1, NoTable, NoCap,
          u1, u2, u3, ip1, ip2

VARIABLES part,
  queue, venueMode, laidAt, submitted,
  query, page, answer,
  typed, sent, cacheKey,
  events, day,
  limiter, now, hits, granted, evicted, calls

-----------------------------------------------------------------------------
\* Two at a table and one without; small caps leave every queue open to submit to.
Everyone == {p1, p2, p3}
Seating == (p1 :> t1) @@ (p2 :> t1) @@ (p3 :> NoTable)
OneTable == {t1}
Requested == {<<p1, "sing">>, <<p1, "listen">>, <<p2, "sing">>, <<p3, "sing">>}
Layouts == INSTANCE QueueLayouts WITH
  Participants <- Everyone, Tables <- OneTable, PER_TABLE_CAP <- 4, PER_PERSON_CAP <- 2,
  LISTEN_CAP_PER_UUID <- 3, TableOf <- Seating, Submissions <- Requested,
  MaxSubmissions <- 4, mode <- venueMode, now <- laidAt

\* The words of the titles, and what is typed of them.
k == <<"k">>
o == <<"o">>
abab == <<"a", "b", "a", "b">>
bbaab == <<"b", "b", "a", "a", "b">>
cacac == <<"c", "a", "c", "a", "c">>
dddd == <<"d", "d", "d", "d">>
Words ==
  {abab, cacac,
   <<"b", "b">>,                                    \* still being typed
   <<"a", "b", "b", "b">>, <<"a", "b", "c", "c">>,  \* one error, two errors
   <<"c", "a", "a", "c", "c">>}
Titles == <<
  <<[id |-> 1, title |-> <<abab, o, bbaab, cacac, k>>], [id |-> 2, title |-> <<cacac, k>>]>>,
  <<[id |-> 2, title |-> <<cacac, abab>>], [id |-> 3, title |-> <<dddd, abab, cacac>>],
    [id |-> 4, title |-> <<dddd, abab, bbaab, cacac>>]>> >>
Typed ==
  {<<w, v, u, k>> : w, v, u \in Words} \cup {<<k, o, w>> : w \in Words}
    \cup {<<w, o>> : w \in Words}
    \cup {<<abab, bbaab, <<"c", "a", "c", "a", "a">>, <<"d", "d", "d", "c">>, dddd, k>>}
Boilerplate == {k, o}
Matcher == INSTANCE KaraokeMatcher WITH
  Shards <- Titles, Queries <- Typed, NonDiscriminating <- Boilerplate, Karaoke <- k,
  INDEX_MORE_TOKEN <- IDXLIVE, LIMIT <- 2, MAX_QUERY_TOKENS <- 4, MAX_FUZZY_TOKENS <- 2

Alphabet == {"x", "k"}
Fold == INSTANCE QueryFold WITH
  Letters <- Alphabet, Karaoke <- "k", Space <- " ", Dash <- "-", Bar <- "|",
  Quote <- "'", Sign <- "+", MaxLength <- 5, key <- cacheKey

Said ==
  {[event |-> "search_performed", room |-> "bar", uuid |-> "ana", hash |-> "k"],
   [event |-> "song_queued", room |-> "bar", uuid |-> "ana", hash |-> "k"],
   [event |-> "song_played", room |-> "bar", uuid |-> "none", hash |-> "k"],
   [event |-> "song_played", room |-> "club", uuid |-> "none", hash |-> "m"]}
Spans == {1, 2}
\* The days are from April 2019 to June 2047: every kind of year, on every weekday.
Rollups == INSTANCE Reports WITH
  Shapes <- Said, DAY <- 2, SESSION_GAP <- 1, SUBMIT_WINDOW <- 1, REPEAT_WINDOWS <- Spans,
  TOP <- 1, FirstDay <- 18000, LastDay <- 28300, MaxTime <- 3, MaxEvents <- 3

Patrons == {u1, u2, u3}
Addresses == {ip1, ip2}
Skips == {u1}
Windows == INSTANCE SlidingWindows WITH
  Subjects <- Patrons, Places <- Addresses, Unplayables <- Skips,
  SUBJECT_MAX <- 2, PLACE_MAX <- 1, SKIP_MAX <- 1, BUCKETS_MAX <- 4, WINDOW <- 2,
  MaxTime <- 3, MaxCalls <- 5

ASSUME ServicesAssumption ==
  /\ Matcher!KaraokeMatcherAssumption /\ Fold!QueryFoldAssumption
  /\ Rollups!ReportsAssumption
  /\ Windows!SlidingWindowsAssumption

-----------------------------------------------------------------------------
layoutsVars == <<queue, venueMode, laidAt, submitted>>
matcherVars == <<query, page, answer>>
foldVars == <<typed, sent, cacheKey>>
reportsVars == <<events, day>>
windowsVars == <<limiter, now, hits, granted, evicted, calls>>

Init ==
  /\ part \in Parts
  /\ Layouts!Init /\ (part # "layouts" => venueMode = "full-karaoke")
  /\ Matcher!Init /\ Fold!Init /\ Rollups!Init
  /\ Windows!Init /\ (part # "windows" => limiter = "advance")

Others(p) ==
  /\ part = p /\ UNCHANGED part
  /\ IF p = "layouts" THEN TRUE ELSE UNCHANGED layoutsVars
  /\ IF p = "matcher" THEN TRUE ELSE UNCHANGED matcherVars
  /\ IF p = "fold" THEN TRUE ELSE UNCHANGED foldVars
  /\ IF p = "reports" THEN TRUE ELSE UNCHANGED reportsVars
  /\ IF p = "windows" THEN TRUE ELSE UNCHANGED windowsVars

Next ==
  \/ Others("layouts") /\ Layouts!Next
  \/ Others("matcher") /\ Matcher!Next
  \/ Others("fold") /\ Fold!Next
  \/ Others("reports") /\ Rollups!Next
  \/ Others("windows") /\ Windows!Next

Spec ==
  Init /\ [][Next]_<<part, layoutsVars, matcherVars, foldVars, reportsVars, windowsVars>>

-----------------------------------------------------------------------------
\* A newcomer is slotted into a stable order, in which the stage counts (see
\* QueueLayouts).
LaidOutFairly ==
  /\ [](part = "layouts" => Layouts!OrderIsStable /\ Layouts!StageTurnCountsAsServed)
  /\ Layouts!NewcomerNeverReshuffles

\* What a cache or the index answers is an answer to what was typed (QueryFold,
\* KaraokeMatcher).
AnswersTheQuestion ==
  /\ part = "fold" => Fold!KeyAsksTheQuestion
  /\ part = "matcher" => Matcher!RowsHaveEveryWord

\* Two reports over one list of events agree, and their weeks cover it once
\* (Reports).
ReportsAgree ==
  part = "reports" => Rollups!ReportsAgree /\ Rollups!WeeksPartitionTheDays

\* However callers are spread over keys, and whatever the maps forget, no limit lets
\* more through than it says (SlidingWindows).
LimitsHold == part = "windows" => Windows!WindowsHold
=============================================================================
