----------------------------- MODULE VideoLookup -----------------------------
(***************************************************************************)
(* What the server knows of one video before a song is queued: may it be   *)
(* embedded (lib/embed-cache.ts, "ec") and what is it called               *)
(* (lib/video-meta.ts, "vm").  Each answer is kept in the warm instance    *)
(* that asked and in Redis, for a long while when it is definite and a     *)
(* short one when it is not; every cache failure is a miss.                *)
(*                                                                         *)
(* Instances stay warm and share Redis only.  Requests are short against   *)
(* the lifetimes: time does not pass while one is being served.            *)
(***************************************************************************)
EXTENDS Naturals, FiniteSets

CONSTANTS Instances, Requests,
          Statuses,               \* the verdicts: of the definite ones, one is enough
          LONG_TTL, SHORT_TTL     \* 24 hours and 10 minutes, in ticks

VideoLookupAssumption ==
  LONG_TTL \in Nat /\ SHORT_TTL \in Nat \ {0} /\ SHORT_TTL <= LONG_TTL

Caches == {"ec", "vm"}

VARIABLES key,       \* is there an API key for videos.list?
          l1,        \* per instance and cache, what its process remembers
          redis,     \* per cache, the shared entry
          req        \* per request, where it is and what it has found

vars == <<key, l1, redis, req>>

Miss == [value |-> "none", left |-> 0, age |-> 0]
ttlFor(v) == IF v \in {"unknown", "missing"} THEN SHORT_TTL ELSE LONG_TTL

\* An entry made now: how long it has left to live, and how long ago the answer
\* it holds was obtained (the age is not in the code: the properties are about it).
Entry(v, age) == [value |-> v, left |-> ttlFor(v), age |-> age]

\* Mutant: the touch of a read starts the lifetime again.
L1GetTouching(i, c) ==
  LET hit == l1[i][c] IN IF hit.left = 0 THEN Miss ELSE Entry(hit.value, hit.age)

\* An expired entry is no hit; a hit keeps its lifetime.
L1Get(i, c) == IF l1[i][c].left = 0 THEN Miss ELSE l1[i][c]

Idle == [pc |-> "idle", inst |-> CHOOSE i \in Instances : TRUE, wants |-> {},
         ec |-> Miss, vm |-> Miss, preview |-> FALSE]

Init ==
  /\ key \in BOOLEAN
  /\ l1 = [i \in Instances |-> [c \in Caches |-> Miss]]
  /\ redis = [c \in Caches |-> Miss]
  /\ req = [r \in Requests |-> Idle]

Goes(r, pc) == req' = [req EXCEPT ![r].pc = pc]
InL1(r, c, e) == l1' = [l1 EXCEPT ![req[r].inst][c] = e]

-----------------------------------------------------------------------------
(* lookupForSubmit: both caches at once, the in-process one first.          *)

Looked(i, c) == L1Get(i, c).value # "none"

Submit(r) ==
  \E i \in Instances :
    LET asked == IF key THEN Caches ELSE {"vm"}
        here == {c \in asked : Looked(i, c)}
    IN /\ req[r].pc = "idle"
       /\ req' = [req EXCEPT ![r] =
            [Idle EXCEPT !.pc = "read", !.inst = i, !.wants = asked \ here,
                         !.ec = IF "ec" \in here THEN L1Get(i, "ec") ELSE Miss,
                         !.vm = IF "vm" \in here THEN L1Get(i, "vm") ELSE Miss]]
       /\ l1' = [l1 EXCEPT ![i] = [c \in Caches |-> IF c \in asked THEN L1Get(i, c) ELSE @[c]]]
       /\ UNCHANGED <<key, redis>>

\* A Redis read answers; a hit warms the instance for a whole lifetime more.
Read(r, c) ==
  /\ req[r].pc = "read" /\ c \in req[r].wants
  /\ \/ /\ redis[c].value # "none"
        /\ InL1(r, c, Entry(redis[c].value, redis[c].age))
        /\ req' = [req EXCEPT ![r].wants = @ \ {c}, ![r][c] = redis[c]]
     \/ /\ req' = [req EXCEPT ![r].wants = @ \ {c}]     \* absent, or it failed
        /\ UNCHANGED l1
  /\ UNCHANGED <<key, redis>>

\* No verdict and a key: one videos.list call.  Every failure is "unknown".
Details(r) ==
  /\ req[r].pc = "read" /\ req[r].wants = {} /\ req[r].ec = Miss /\ key
  /\ \E status \in Statuses, title \in {"title", "none"} :
       /\ req' = [req EXCEPT ![r].pc = "storeStatus", ![r].ec = Entry(status, 0),
                             ![r].wants = {title}]
       /\ InL1(r, "ec", Entry(status, 0))
  /\ UNCHANGED <<key, redis>>

\* The verdict goes to Redis, then the title the same call brought.
StoreStatus(r) ==
  /\ req[r].pc = "storeStatus"
  /\ redis' \in {redis, [redis EXCEPT !["ec"] = req[r].ec]}
  /\ IF "title" \in req[r].wants
       THEN /\ req' = [req EXCEPT ![r].pc = "storeTitle", ![r].vm = Entry("title", 0)]
            /\ InL1(r, "vm", Entry("title", 0))
       ELSE /\ Goes(r, "resolve") /\ UNCHANGED l1
  /\ UNCHANGED <<key>>

StoreTitle(r) ==
  /\ req[r].pc = "storeTitle"
  /\ redis' \in {redis, [redis EXCEPT !["vm"] = req[r].vm]}
  /\ Goes(r, "done")
  /\ UNCHANGED <<key, l1>>

\* A cached verdict, or no key: on to the title.
Known(r) ==
  /\ req[r].pc = "read" /\ req[r].wants = {} /\ (req[r].ec # Miss \/ ~key)
  /\ Goes(r, "resolve")
  /\ UNCHANGED <<key, l1, redis>>

-----------------------------------------------------------------------------
(* resolveVideoTitle, for a submit without a title and for the preview.     *)

Preview(r) ==
  /\ req[r].pc = "idle"
  /\ \E i \in Instances :
       req' = [req EXCEPT ![r] = [Idle EXCEPT !.pc = "resolve", !.inst = i, !.preview = TRUE]]
  /\ UNCHANGED <<key, l1, redis>>

\* A cached title, or a cached "missing" a submit found: nothing to resolve.
Resolved(r) ==
  /\ req[r].pc = "resolve" /\ req[r].vm # Miss
  /\ Goes(r, "done")
  /\ UNCHANGED <<key, l1, redis>>

\* Otherwise the caches once more, in process and then in Redis.
Again(r) ==
  LET i == req[r].inst
  IN /\ req[r].pc = "resolve" /\ req[r].vm = Miss
     /\ \/ /\ Looked(i, "vm")
           /\ req' = [req EXCEPT ![r].pc = "done", ![r].vm = L1Get(i, "vm")]
           /\ InL1(r, "vm", L1Get(i, "vm"))
        \/ /\ ~Looked(i, "vm") /\ redis["vm"].value # "none"
           /\ req' = [req EXCEPT ![r].pc = "done", ![r].vm = redis["vm"]]
           /\ InL1(r, "vm", Entry(redis["vm"].value, redis["vm"].age))
        \/ /\ ~Looked(i, "vm")
           /\ Goes(r, "oembed") /\ UNCHANGED l1
     /\ UNCHANGED <<key, redis>>

\* One oEmbed call: a title, a definite "missing", or an error, which is not kept.
OEmbed(r) ==
  /\ req[r].pc = "oembed"
  /\ \/ \E v \in {"title", "missing"} :
          /\ req' = [req EXCEPT ![r].pc = "storeTitle", ![r].vm = Entry(v, 0)]
          /\ InL1(r, "vm", Entry(v, 0))
     \/ Goes(r, "done") /\ UNCHANGED l1
  /\ UNCHANGED <<key, redis>>

Answer(r) ==
  /\ req[r].pc = "done"
  /\ req' = [req EXCEPT ![r] = Idle]
  /\ UNCHANGED <<key, l1, redis>>

\* Other videos push this one out of an instance's 500 entries.
Evict(i) ==
  /\ \E c \in Caches : l1[i][c] # Miss /\ l1' = [l1 EXCEPT ![i][c] = Miss]
  /\ UNCHANGED <<key, redis, req>>

\* Time passes: what has no time left is dropped, by Redis, or by the next read
\* of the instance that remembers it.
Older(e) == IF e.left <= 1 THEN Miss ELSE [e EXCEPT !.left = @ - 1, !.age = @ + 1]

Tick ==
  /\ \A r \in Requests : req[r].pc = "idle"
  /\ redis' = [c \in Caches |-> Older(redis[c])]
  /\ l1' = [i \in Instances |-> [c \in Caches |-> Older(l1[i][c])]]
  /\ UNCHANGED <<key, req>>

Next ==
  \/ \E r \in Requests : \/ Submit(r) \/ Details(r) \/ StoreStatus(r) \/ StoreTitle(r)
                         \/ Known(r) \/ Preview(r) \/ Resolved(r) \/ Again(r)
                         \/ OEmbed(r) \/ Answer(r)
                         \/ \E c \in Caches : Read(r, c)
  \/ \E i \in Instances : Evict(i)
  \/ Tick

Spec == Init /\ [][Next]_vars

-----------------------------------------------------------------------------
\* However many instances pass an answer on, what is served was obtained less
\* than two lifetimes ago: Redis keeps it for one and an instance it warms for
\* one more, and an instance never passes it back (getCachedEmbeddable,
\* embed-cache.ts:152, getCachedMeta, video-meta.ts:127).
StaleAtMostTwice ==
  \A r \in Requests, c \in Caches :
    req[r].pc = "done" /\ req[r][c] # Miss =>
      req[r][c].age < 2 * ttlFor(req[r][c].value)
=============================================================================
