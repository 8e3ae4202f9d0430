---------------------------- MODULE FailureCounter ----------------------------
(***************************************************************************)
(* The fixed-window counters of lib/rate-limit-counter.ts and the three      *)
(* throttles of lib/host-auth.ts that use them: host login, the claim of a   *)
(* room's admin page, "sign out other devices".  A key of the first two is   *)
(* the caller's address as lib/client-ip.ts derives it.  RoomCreation has    *)
(* the room-creation throttle over the same counter.                         *)
(*                                                                           *)
(* A step is one awaited call.  An address is [kind, net, host]; a client    *)
(* owns a network and chooses the host part of it, and every header that no  *)
(* trusted proxy writes.                                                     *)
(***************************************************************************)
EXTENDS Integers, FiniteSets

CONSTANTS
  Calls,                       \* requests that may be in flight
  Clients, AddressesOf,        \* the addresses a client can really send from
  Forged,                      \* addresses anyone can put into a header
  MAX_FAILURES, REVOKE_MAX, WINDOW,
  MAX_TRACKED_KEYS,
  None,
  MaxTime, MaxFaults           \* bounds

VARIABLES
  host,                        \* "vercel", "proxy" (TRUSTED_CLIENT_IP_HEADER), "elsewhere"
  driver,                      \* "redis" or "memory"
  now,
  count, ends,                 \* a counter, and when its window ends (None: never)
  call,
  guesses, revokes,            \* wrong codes tried by a client, revokes done, in a window
  faults

env == <<host, driver>>
counters == <<count, ends>>
said == <<guesses, revokes>>
vars == <<env, now, counters, call, said, faults>>

-----------------------------------------------------------------------------
\* lib/client-ip.ts

Unknown == [kind |-> "unknown", net |-> None, host |-> None]

\* normaliseIpBucket: IPv6 by its /64, a mapped address as the IPv4 it maps.
Normalise(a) ==
  CASE a.kind = "v6" -> [a EXCEPT !.host = None]
    [] a.kind = "mapped" -> [a EXCEPT !.kind = "v4"]
    [] OTHER -> a

\* A client's addresses are of one network, so of one bucket.
FailureCounterAssumption ==
  /\ {MAX_FAILURES, REVOKE_MAX, WINDOW, MAX_TRACKED_KEYS, MaxTime, MaxFaults} \subseteq Nat
  /\ MAX_FAILURES > 0 /\ WINDOW > 0 /\ MAX_TRACKED_KEYS > 0
  /\ IsFiniteSet(Calls) /\ None \notin Nat
  /\ \A c \in Clients : /\ AddressesOf[c] # {}
                       /\ \A a, b \in AddressesOf[c] : Normalise(a) = Normalise(b)

Headers == {"real-ip", "vercel-forwarded-for", "forwarded-for"}

\* What a client's request carries: what the edge writes, and else what it likes.
Carries(client) ==
  {h \in [Headers -> AddressesOf[client] \cup Forged] :
     /\ host = "vercel" => h["real-ip"] \in AddressesOf[client]
     /\ host = "proxy" => h["forwarded-for"] \in AddressesOf[client]}

FirstTyped(h) == h["forwarded-for"]
FirstTrusted(h) == h["real-ip"]

ClientIpFrom(h) ==
  CASE host = "proxy" -> Normalise(h["forwarded-for"])
    [] host = "vercel" -> Normalise(FirstTrusted(h))
    [] OTHER -> Unknown

Buckets == {Normalise(a) : a \in Forged \cup UNION {AddressesOf[c] : c \in Clients}} \cup {Unknown}
Keys == ({"login", "hostclaim"} \X Buckets) \cup {<<"hostrevoke", Unknown>>}

-----------------------------------------------------------------------------

NoCall == [at |-> "idle", kind |-> None, client |-> None, key |-> None]

Init ==
  /\ host \in {"vercel", "proxy", "elsewhere"} /\ driver \in {"redis", "memory"}
  /\ now = 0
  /\ count = [k \in Keys |-> 0] /\ ends = [k \in Keys |-> None]
  /\ call = [p \in Calls |-> NoCall]
  /\ guesses = [c \in Clients |-> 0] /\ revokes = 0
  /\ faults = 0

\* The clients whose guesses a counter counts, whatever they send.
CountedBy(k) ==
  {c \in Clients : k[1] = "login" /\
     k[2] = (IF host = "elsewhere" THEN Unknown ELSE Normalise(CHOOSE a \in AddressesOf[c] : TRUE))}

\* The counters of `gone' are no more: what was counted in their windows starts again.
Forgiven(gone) ==
  /\ guesses' = [c \in Clients |-> IF \E k \in gone : c \in CountedBy(k) THEN 0 ELSE guesses[c]]
  /\ revokes' = IF <<"hostrevoke", Unknown>> \in gone THEN 0 ELSE revokes

Tick ==
  /\ now < MaxTime /\ now' = now + 1
  /\ LET gone == {k \in Keys : ends[k] # None /\ ends[k] <= now'}
     IN  /\ count' = [k \in Keys |-> IF k \in gone THEN 0 ELSE count[k]]
         /\ ends' = [k \in Keys |-> IF k \in gone THEN None ELSE ends[k]]
         /\ Forgiven(gone)
  /\ UNCHANGED <<env, call, faults>>

\* A Redis error opens the throttle: nothing is counted and nobody is refused.
Fault == driver = "redis" /\ faults < MaxFaults /\ faults' = faults + 1

Goto(p, step) == call' = [call EXCEPT ![p].at = step]
Answered(p) == call' = [call EXCEPT ![p] = NoCall]

\* REGISTER_FAILURE_SCRIPT: the count, and its end with the first one.
\* In memory a new key evicts the oldest at the cap.
Evicted(k) ==
  LET live == {x \in Keys : count[x] > 0}
  IN  IF driver = "memory" /\ count[k] = 0 /\ Cardinality(live) >= MAX_TRACKED_KEYS
      THEN {CHOOSE x \in live : \A y \in live : ends[x] <= ends[y]} ELSE {}

Increment(k) ==
  /\ count' = [x \in Keys |-> IF x = k THEN count[x] + 1
                              ELSE IF x \in Evicted(k) THEN 0 ELSE count[x]]
  /\ ends' = [x \in Keys |-> IF x = k /\ count[x] = 0 THEN now + WINDOW
                             ELSE IF x \in Evicted(k) THEN None ELSE ends[x]]

\* The same in two commands: the second may be lost.
IncrementThenExpire(k) ==
  \/ Increment(k)
  \/ count' = [count EXCEPT ![k] = @ + 1] /\ UNCHANGED ends
RegisterFailure(k) == Increment(k)

\* resetKey
ResetKey(k) ==
  /\ count' = [count EXCEPT ![k] = 0] /\ ends' = [ends EXCEPT ![k] = None]
  /\ Forgiven({k})

\* ---- host login: check, verify, count a failure ----

Login(p, client) ==
  /\ call[p].at = "idle"
  /\ \E h \in Carries(client) :
       call' = [call EXCEPT ![p] = [at |-> "check", kind |-> "login", client |-> client,
                                    key |-> <<"login", ClientIpFrom(h)>>]]
  /\ UNCHANGED <<env, now, counters, said, faults>>

\* ---- the admin page's claim: verify, and only then the throttle ----

Claim(p, client) ==
  /\ call[p].at = "idle"
  /\ \E h \in Carries(client) :
       call' = [call EXCEPT ![p] = [at |-> "verify", kind |-> "claim", client |-> client,
                                    key |-> <<"hostclaim", ClientIpFrom(h)>>]]
  /\ UNCHANGED <<env, now, counters, said, faults>>

\* isThrottled
Check(p) ==
  /\ call[p].at = "check"
  /\ \/ count[call[p].key] >= MAX_FAILURES /\ Answered(p)
     \/ /\ count[call[p].key] < MAX_FAILURES
        /\ Goto(p, IF call[p].kind = "login" THEN "verify" ELSE "register")
  /\ UNCHANGED <<env, now, counters, said, faults>>

CheckFails(p) ==
  /\ call[p].at = "check" /\ Fault
  /\ Goto(p, IF call[p].kind = "login" THEN "verify" ELSE "register")
  /\ UNCHANGED <<env, now, counters, said>>

\* A right code or a valid claim clears the caller's counter.
Verified(p) ==
  /\ call[p].at = "verify" /\ Goto(p, "reset")
  /\ UNCHANGED <<env, now, counters, said, faults>>

Wrong(p) ==
  /\ call[p].at = "verify"
  /\ Goto(p, IF call[p].kind = "login" THEN "register" ELSE "check")
  /\ guesses' = IF call[p].kind = "login" THEN [guesses EXCEPT ![call[p].client] = @ + 1]
                ELSE guesses
  /\ UNCHANGED <<env, now, counters, revokes, faults>>

Register(p) ==
  /\ call[p].at = "register"
  /\ RegisterFailure(call[p].key) /\ Forgiven(Evicted(call[p].key))
  /\ Answered(p)
  /\ UNCHANGED <<env, now, faults>>

Reset(p) ==
  /\ call[p].at = "reset"
  /\ ResetKey(call[p].key) /\ Answered(p)
  /\ UNCHANGED <<env, now, faults>>

CommandFails(p) ==
  /\ call[p].at \in {"register", "reset"} /\ Fault /\ Answered(p)
  /\ UNCHANGED <<env, now, counters, said>>

\* ---- chargeRevoke: count, then look at the count ----

RevokeKey == <<"hostrevoke", Unknown>>
OfAnotherRead(n) == n - 1 <= REVOKE_MAX
OfItsOwn(n) == n <= REVOKE_MAX

Revoke ==
  /\ RegisterFailure(RevokeKey)
  /\ LET granted == OfItsOwn(count'[RevokeKey])
         gone == Evicted(RevokeKey)
     IN  /\ guesses' = [c \in Clients |-> IF \E k \in gone : c \in CountedBy(k) THEN 0 ELSE guesses[c]]
         /\ revokes' = IF granted THEN revokes + 1 ELSE revokes
  /\ count[RevokeKey] <= REVOKE_MAX   \* bound: a further refusal changes nothing else
  /\ UNCHANGED <<env, now, call, faults>>

RevokeUncounted ==
  /\ Fault /\ revokes' = revokes + 1
  /\ UNCHANGED <<env, now, counters, call, guesses>>

Next ==
  \/ Tick \/ Revoke \/ RevokeUncounted
  \/ \E p \in Calls :
       \/ Check(p) \/ CheckFails(p) \/ Verified(p) \/ Wrong(p)
       \/ Register(p) \/ Reset(p) \/ CommandFails(p)
       \/ \E c \in Clients : Login(p, c) \/ Claim(p, c)

Spec == Init /\ [][Next]_vars

-----------------------------------------------------------------------------

\* In one window a client gets at most MAX_FAILURES wrong host codes looked at, and one
\* more for every other request it has in flight or every failed Redis command, from
\* whichever host of its network it sends them and whatever it writes into the headers
\* (host-auth.ts:480, client-ip.ts:26).
GuessesBounded ==
  \A c \in Clients : guesses[c] <= MAX_FAILURES + Cardinality(Calls) - 1 + faults

\* Nobody stays refused: every counter that counts has an end (rate-limit-counter.ts:20).
CountersEnd == \A k \in Keys : count[k] > 0 => ends[k] # None /\ ends[k] > now

\* A room's owner signs out the other devices at most three times in ten minutes,
\* though requests are counted before they are looked at (host-auth.ts:585).
RevokesWithinBudget == revokes <= REVOKE_MAX + faults

ThrottlesHold == GuessesBounded /\ CountersEnd /\ RevokesWithinBudget
=============================================================================
