----------------------------- MODULE RoomRecord -----------------------------
(***************************************************************************)
(* The room record and who may host: lib/rooms.ts, lib/host-auth.ts and    *)
(* the routes under app/api/host that read or change credentials.  One     *)
(* room, its record and its epoch counter in Redis, the devices' cookies   *)
(* and the requests in flight.  A Redis command, or a script, is one step. *)
(*                                                                         *)
(* A record is changed by mutateRoom: read, compute, compare-and-set on    *)
(* the revision, again on a conflict, a bounded number of times.  The      *)
(* epoch counter is a key of its own that the revision does not cover.     *)
(*                                                                         *)
(* A session value is the epoch it was derived from: the host code never   *)
(* changes, so the epoch decides alone whether it is still valid.  Left    *)
(* out: throttles, the cookies' lifetimes, the deletion of the room, and   *)
(* the loss of the counter's key (so INCR suffices where the code would    *)
(* follow it with INCRBY).                                                 *)
(***************************************************************************)
EXTENDS Lists, TLC

CONSTANTS
  Tokens,               \* admin-claim tokens; a token stands for its hash
  NoToken,              \* an absent token
  Modes,                \* values of the settings
  MAX_CLAIM_TOKENS,     \* tokens a room holds, 5 in the code
  Clients,              \* requests in flight, one per client at a time
  Devices,              \* browsers
  Creator,              \* the device that made the room
  FirstToken,           \* the token it got, pinned as the owner's
  DEFAULT_ROOM_MODE,    \* the settings a room starts with
  ROOM_WRITE_ATTEMPTS,  \* 32 in the code
  EPOCH_BOUND,          \* bound on the epochs revocations start from
  REV_BOUND             \* bound on the revisions writers start from

ASSUME NoTokenAssumption == NoToken \notin Tokens
ASSUME MaxClaimTokensAssumption == MAX_CLAIM_TOKENS \in Nat \ {0}
ASSUME CreatorAssumption == Creator \in Devices /\ FirstToken \in Tokens
ASSUME DefaultModeAssumption == DEFAULT_ROOM_MODE \in Modes
ASSUME AttemptsAssumption == ROOM_WRITE_ATTEMPTS \in Nat \ {0}
ASSUME BoundsAssumption == EPOCH_BOUND \in Nat /\ REV_BOUND \in Nat

-----------------------------------------------------------------------------
(* The record: the part that several writers share.  epoch is its          *)
(* sessionEpoch (the record's copy, or the effective one in a snapshot),   *)
(* tag its claimTokenEpoch, hashes its claimTokenHashes oldest first,      *)
(* owner its ownerClaimTokenHash and mode its settings.  An absent epoch   *)
(* reads as 0 (normaliseSessionEpoch), an absent list as an empty one.     *)

Rooms == [epoch : Nat, tag : Nat, hashes : Seq(Tokens),
          owner : Tokens \cup {NoToken}, mode : Modes]

Larger(m, n) == IF m >= n THEN m ELSE n

\* withEffectiveEpoch: a snapshot reports the larger of the copy and the counter.
WithEpoch(record, n) == [record EXCEPT !.epoch = Larger(@, n)]

-----------------------------------------------------------------------------
(* What a snapshot grants.                                                 *)

\* A list that was written for an earlier epoch grants nothing.
ClaimListIsLive(record) == record.tag = record.epoch

Live(record, token) == ClaimListIsLive(record) /\ token \in Range(record.hashes)

IsOwner(record, token) == Live(record, token) /\ token = record.owner

-----------------------------------------------------------------------------
(* The list of hashes.                                                     *)

\* The newest n of the items of s that are in T.
Newest(s, T, n) ==
  {s[i] : i \in {i \in 1..Len(s) : /\ s[i] \in T
                                    /\ Cardinality({j \in (i + 1)..Len(s) : s[j] \in T}) < n}}

\* Mutant of CapClaimHashes: the oldest hash goes, the owner's or not.
CapOldest(hashes, owner) ==
  Kept(hashes, Newest(hashes, Range(hashes), MAX_CLAIM_TOKENS))

\* Mutant of CapClaimHashes: the owner's hash takes no place.
CapOthers(hashes, owner) ==
  Kept(hashes, {owner} \cup Newest(hashes, Range(hashes) \ {owner}, MAX_CLAIM_TOKENS))

\* The owner's hash and the newest others.
CapClaimHashes(hashes, owner) ==
  IF Len(hashes) <= MAX_CLAIM_TOKENS THEN hashes
  ELSE LET pinned == {owner} \cap Range(hashes)
           others == Newest(hashes, Range(hashes) \ pinned,
                            MAX_CLAIM_TOKENS - Cardinality(pinned))
       IN  Kept(hashes, pinned \cup others)

-----------------------------------------------------------------------------
(* Changes.                                                                *)

NoChange == [kind |-> "none"]

\* issueRoomClaimToken: a login's token, or one pinned as the owner's.
Mint(token, asOwner) == [kind |-> "mint", token |-> token, asOwner |-> asOwner]

\* revokeRoomClaimToken: the token of the device that logs out.
Drop(token) == [kind |-> "drop", token |-> token]

\* The second half of revokeRoomHostSessions, for the epoch it read before.
Rebind(token, before) == [kind |-> "rebind", token |-> token, before |-> before]

\* setRoomMode, setRoomLanguage, setRoomModeration
SetMode(mode) == [kind |-> "mode", mode |-> mode]

Changes ==
  [kind : {"mint"}, token : Tokens, asOwner : BOOLEAN] \cup [kind : {"drop"}, token : Tokens]
    \cup [kind : {"rebind"}, token : Tokens, before : Nat] \cup [kind : {"mode"}, mode : Modes]

Minted(record, token, asOwner) ==
  LET bound == ClaimListIsLive(record)
      base  == IF bound THEN record.hashes ELSE <<>>
      owner == IF asOwner THEN token ELSE IF bound THEN record.owner ELSE NoToken
  IN  [record EXCEPT !.hashes = CapClaimHashes(Append(base, token), owner),
                     !.owner = owner, !.tag = record.epoch]

Dropped(record, token) ==
  [record EXCEPT !.hashes = Without(@, token), !.owner = IF @ = token THEN NoToken ELSE @]

\* Mutant of Rebound: every hash is kept, whenever it was written.
ReboundKeepingAll(record, token, before) ==
  [record EXCEPT !.hashes = CapClaimHashes(<<token>> \o Without(@, token), token),
                 !.owner = token, !.tag = record.epoch]

\* The owner's hash, and those already written for an epoch after the bump.
Rebound(record, token, before) ==
  LET postBump == IF record.epoch > before /\ ClaimListIsLive(record)
                  THEN Without(record.hashes, token) ELSE <<>>
  IN  [record EXCEPT !.hashes = CapClaimHashes(<<token>> \o postBump, token),
                     !.owner = token, !.tag = record.epoch]

Changed(change, record) ==
  CASE change.kind = "mint"   -> Minted(record, change.token, change.asOwner)
    [] change.kind = "drop"   -> Dropped(record, change.token)
    [] change.kind = "rebind" -> Rebound(record, change.token, change.before)
    [] change.kind = "mode"   -> [record EXCEPT !.mode = change.mode]

\* A logout with a token that is not in the list writes nothing.
Writes(change, record) == change.kind = "drop" => change.token \in Range(record.hashes)

-----------------------------------------------------------------------------
(* The requests.                                                           *)

VARIABLES
  room,       \* the record
  rev,        \* its revision
  counter,    \* the session epoch counter
  pc,         \* per client: what its request does next
  call,       \* per client: the request's locals
  session,    \* per device: the epoch of its session cookie, or NoSession
  claim,      \* per device: its claim cookie, or NoToken
  entitled,   \* history: devices that may be in, see OutstandingAccessEnds
  loggedOut,  \* history: tokens a logout has removed
  gaveUp      \* history: some write has lost all its attempts

store == <<room, rev, counter>>
cookies == <<session, claim>>
history == <<entitled, loggedOut, gaveUp>>
vars == <<store, pc, call, cookies, history>>

NoSession == -1

Labels == {"idle", "status", "before", "bump", "read", "write", "last", "answer"}

\* The record as createRoom writes it.
NewRoom == [epoch |-> 0, tag |-> 0, hashes |-> <<>>, owner |-> NoToken,
            mode |-> DEFAULT_ROOM_MODE]

\* The locals of a request: the device and the claim token it presents, the change
\* it makes, the attempts it has lost, the snapshot it read with its revision, and
\* the cookies its answer sets.
NoCall == [dev |-> Creator, token |-> NoToken, change |-> NoChange, tries |-> 0,
           seen |-> NewRoom, seenRev |-> 0, session |-> NoSession, claim |-> NoToken]

Calls == [dev : Devices, token : Tokens \cup {NoToken}, change : Changes \cup {NoChange},
          tries : 0..(ROOM_WRITE_ATTEMPTS - 1), seen : Rooms, seenRev : Nat,
          session : Nat \cup {NoSession}, claim : Tokens \cup {NoToken}]

-----------------------------------------------------------------------------
(* Reads.                                                                  *)

\* One MGET of the record and the counter.
GetRoom == WithEpoch(room, counter)

Effective == GetRoom.epoch

RequireHost(d) == session[d] = Effective

\* 256 fresh random bits: nobody holds the token or has held it.
Fresh(t) ==
  /\ t \notin Range(room.hashes) \cup loggedOut \cup {room.owner, FirstToken}
  /\ \A d \in Devices : claim[d] # t
  /\ \A c \in Clients : /\ t \notin {call[c].token, call[c].claim}
                        /\ call[c].change.kind = "mint" => call[c].change.token # t
                        /\ pc[c] = "write" => t \notin Range(call[c].seen.hashes)

-----------------------------------------------------------------------------
(* The life of a request.                                                  *)

Init ==
  /\ room = Minted(NewRoom, FirstToken, TRUE)
  /\ rev = 1 /\ counter = 0
  /\ pc = [c \in Clients |-> "idle"]
  /\ call = [c \in Clients |-> NoCall]
  /\ session = [d \in Devices |-> NoSession]
  /\ claim = [d \in Devices |-> IF d = Creator THEN FirstToken ELSE NoToken]
  /\ entitled = {Creator} /\ loggedOut = {} /\ gaveUp = FALSE

Request(d) == [NoCall EXCEPT !.dev = d, !.token = claim[d]]

Step(c, label, locals) ==
  /\ pc' = [pc EXCEPT ![c] = label]
  /\ call' = [call EXCEPT ![c] = locals]

Return(c) == Step(c, "idle", NoCall)

\* An attempt of mutateRoom is over and its snapshot is gone.
Forget(locals) == [locals EXCEPT !.seen = NewRoom, !.seenRev = 0]

Start(c, label, locals) ==
  /\ pc[c] = "idle"
  /\ Step(c, label, locals)

\* The host code has been checked; the session is derived now, from a read of its own.
Login(c, d) ==
  /\ rev < REV_BOUND
  /\ Start(c, "status", [Request(d) EXCEPT !.session = Effective])
  /\ entitled' = entitled \cup {d}
  /\ UNCHANGED <<store, cookies, loggedOut, gaveUp>>

\* A device that presents a live token keeps it; another gets a new one.
LoginStatus(c) ==
  /\ pc[c] = "status"
  /\ \/ /\ Live(GetRoom, call[c].token)
        /\ Step(c, "answer", [call[c] EXCEPT !.claim = call[c].token])
     \/ /\ ~Live(GetRoom, call[c].token)
        /\ \E t \in Tokens : /\ Fresh(t)
                             /\ Step(c, "read", [call[c] EXCEPT !.change = Mint(t, FALSE)])
  /\ UNCHANGED <<store, cookies, history>>

\* The claim route: the session comes from the read the token was checked on.
Claim(c, d) ==
  /\ Live(GetRoom, claim[d])
  /\ Start(c, "answer", [Request(d) EXCEPT !.session = Effective, !.claim = claim[d]])
  /\ UNCHANGED <<store, cookies, history>>

\* Without a token there is nothing to revoke.
Logout(c, d) ==
  /\ RequireHost(d) /\ rev < REV_BOUND
  /\ IF claim[d] = NoToken
     THEN Start(c, "answer", Request(d))
     ELSE Start(c, "read", [Request(d) EXCEPT !.change = Drop(claim[d])])
  /\ UNCHANGED <<store, cookies, history>>

ChangeSetting(c, d, m) ==
  /\ RequireHost(d) /\ rev < REV_BOUND
  /\ Start(c, "read", [Request(d) EXCEPT !.change = SetMode(m)])
  /\ UNCHANGED <<store, cookies, history>>

\* The route's own owner check is a read of its own before the authoritative one; it
\* refuses nobody that one would not refuse as well, so RevokeBefore stands for both.
Revoke(c, d) ==
  /\ RequireHost(d) /\ counter < EPOCH_BOUND
  /\ Start(c, "before", Request(d))
  /\ UNCHANGED <<store, cookies, history>>

\* The authoritative owner check, on the snapshot that gives the epoch before.
RevokeBefore(c) ==
  /\ pc[c] = "before"
  /\ IF IsOwner(GetRoom, call[c].token)
     THEN Step(c, "bump", [call[c] EXCEPT !.change = Rebind(call[c].token, Effective)])
     ELSE Return(c)
  /\ UNCHANGED <<store, cookies, history>>

\* The devices whose host is typing the code or acting as the owner right now.
Entering ==
  {call[c].dev : c \in {c \in Clients :
     \/ pc[c] = "status"
     \/ pc[c] \in {"bump", "read", "write", "last"} /\ call[c].change.kind \in {"mint", "rebind"}}}

\* Mutant of NextEpoch: SET instead of INCR.
EpochAfter(before) == before + 1

\* INCR, past the epoch the caller read.
NextEpoch(before) == Larger(counter, before) + 1

Bump(c) ==
  /\ pc[c] = "bump"
  /\ counter' = NextEpoch(call[c].change.before)
  /\ Step(c, "read", [call[c] EXCEPT !.session = counter'])
  /\ entitled' = Entering
  /\ UNCHANGED <<room, rev, cookies, loggedOut, gaveUp>>

-----------------------------------------------------------------------------
(* mutateRoom.                                                             *)

ReadRoom(c) ==
  /\ pc[c] = "read"
  /\ IF Writes(call[c].change, GetRoom)
     THEN Step(c, "write", [call[c] EXCEPT !.seen = GetRoom, !.seenRev = rev])
     ELSE Step(c, "answer", call[c])
  /\ UNCHANGED <<store, cookies, history>>

\* What a request does once its change is written: a setting's answer carries no
\* cookie, a mint's the new token, a rebind's the presented one and a session at
\* the epoch of the snapshot.
Committed(c) ==
  CASE call[c].change.kind = "mode"   -> Return(c)
    [] call[c].change.kind = "drop"   -> Step(c, "answer", Forget(call[c]))
    [] call[c].change.kind = "mint"   ->
         Step(c, "answer", [Forget(call[c]) EXCEPT !.claim = call[c].change.token])
    [] call[c].change.kind = "rebind" ->
         Step(c, "answer", [Forget(call[c]) EXCEPT !.claim = call[c].token,
                                                   !.session = call[c].seen.epoch])

AnyRevision(c) == TRUE   \* mutant of Current: a plain SET

\* The revision the compare-and-set compares.
Current(c) == rev = call[c].seenRev

\* ROOM_CAS_SCRIPT finds the revision it was given.
WriteRoom(c) ==
  /\ pc[c] = "write" /\ Current(c)
  /\ room' = Changed(call[c].change, call[c].seen)
  /\ rev' = rev + 1
  /\ Committed(c)
  /\ loggedOut' = loggedOut \cup (IF call[c].change.kind = "drop" THEN {call[c].token} ELSE {})
  /\ UNCHANGED <<counter, cookies, entitled, gaveUp>>

\* Mutant of Retry: one attempt too many.
RetryOnceMore(c) ==
  /\ pc[c] = "write" /\ ~Current(c)
  /\ call[c].tries < ROOM_WRITE_ATTEMPTS
  /\ Step(c, "read", [Forget(call[c]) EXCEPT !.tries = @ + 1])
  /\ UNCHANGED <<store, cookies, history>>

\* It does not: read and compute again.
Retry(c) ==
  /\ pc[c] = "write" /\ ~Current(c)
  /\ call[c].tries + 1 < ROOM_WRITE_ATTEMPTS
  /\ Step(c, "read", [Forget(call[c]) EXCEPT !.tries = @ + 1])
  /\ UNCHANGED <<store, cookies, history>>

\* RoomWriteConflictError.  A login goes on without a claim token, a revocation with
\* its second half missing; a logout or a setting fails and sets no cookie.
GiveUp(c) ==
  /\ pc[c] = "write" /\ ~Current(c)
  /\ call[c].tries + 1 = ROOM_WRITE_ATTEMPTS
  /\ CASE call[c].change.kind \in {"mode", "drop"} -> Return(c)
       [] call[c].change.kind = "mint"   -> Step(c, "answer", Forget(call[c]))
       [] call[c].change.kind = "rebind" -> Step(c, "last", Forget(call[c]))
  /\ gaveUp' = TRUE
  /\ UNCHANGED <<store, cookies, entitled, loggedOut>>

\* The revocation stands: its session is at the latest epoch, and the device tries to
\* get a new owner's token.
LastRead(c) ==
  /\ pc[c] = "last"
  /\ \E t \in Tokens :
       /\ Fresh(t)
       /\ Step(c, "read", [call[c] EXCEPT !.session = Larger(@, Effective),
                                          !.change = Mint(t, TRUE), !.tries = 0])
  /\ UNCHANGED <<store, cookies, history>>

-----------------------------------------------------------------------------
(* Answers.                                                                *)

\* A logout clears both cookies.  Any other answer sets the session cookie, and the
\* claim cookie when it has one to set.
SetCookies(d, locals) ==
  IF locals.change.kind = "drop" \/ locals.session = NoSession
  THEN /\ session' = [session EXCEPT ![d] = NoSession]
       /\ claim' = [claim EXCEPT ![d] = NoToken]
  ELSE /\ session' = [session EXCEPT ![d] = locals.session]
       /\ claim' = [claim EXCEPT ![d] = IF locals.claim = NoToken THEN @ ELSE locals.claim]

\* The answer reaches the device, or is lost.
Answer(c) ==
  /\ pc[c] = "answer"
  /\ \/ SetCookies(call[c].dev, call[c])
     \/ UNCHANGED cookies
  /\ Return(c)
  /\ UNCHANGED <<store, history>>

Next ==
  \/ \E c \in Clients, d \in Devices :
       \/ Login(c, d) \/ Claim(c, d) \/ Logout(c, d) \/ Revoke(c, d)
       \/ \E m \in Modes : ChangeSetting(c, d, m)
  \/ \E c \in Clients :
       \/ LoginStatus(c) \/ RevokeBefore(c) \/ Bump(c) \/ LastRead(c)
       \/ ReadRoom(c) \/ WriteRoom(c) \/ Retry(c) \/ GiveUp(c) \/ Answer(c)

Spec == Init /\ [][Next]_vars

-----------------------------------------------------------------------------
(* Properties.                                                             *)

\* Every variable has its type.
TypeOK ==
  /\ room \in Rooms /\ rev \in Nat /\ counter \in Nat
  /\ pc \in [Clients -> Labels] /\ call \in [Clients -> Calls]
  /\ session \in [Devices -> Nat \cup {NoSession}]
  /\ claim \in [Devices -> Tokens \cup {NoToken}]
  /\ entitled \subseteq Devices /\ loggedOut \subseteq Tokens /\ gaveUp \in BOOLEAN

\* "The cap counts devices, not issues": a room holds no more tokens than it may,
\* and none of them twice, whatever logins and revocations append at once.
DevicesBounded == Len(room.hashes) <= MAX_CLAIM_TOKENS /\ IsInjective(room.hashes)

\* A revocation ends what it says it ends ("END EVERY OUTSTANDING HOST SESSION for a
\* room, and every admin-claim credential except the owner's"): since the last bump
\* only those can be in, by a valid session or by a claim token that is live, who
\* have entered the host code since, or were entering it or acting as the owner when
\* the epoch was bumped.  No claim, late answer or stale write lets another back in.
OutstandingAccessEnds ==
  \A d \in Devices : session[d] = Effective \/ Live(GetRoom, claim[d]) => d \in entitled

\* A revocation between its bump and its rebind.
Rebinding == \E c \in Clients : pc[c] \in {"read", "write"} /\ call[c].change.kind = "rebind"

\* Other people's logins never push out the owner's token, no settings write drops
\* it, and no revocation costs the owner the pin: outside a revocation's two
\* halves it is live and pinned, unless its device logged out or a write gave up.
OwnerStaysPinned ==
  Rebinding \/ gaveUp \/ FirstToken \in loggedOut \/ IsOwner(GetRoom, FirstToken)

\* A token that was logged out, evicted or revoked does not come back with a stale
\* write: it becomes live in a write of its own only, the one that mints it or a rebind
\* of the owner who presents it.
NothingRevives ==
  [][\A t \in Tokens : ~Live(GetRoom, t) /\ Live(GetRoom, t)' =>
       \E c \in Clients : /\ pc[c] = "write"
                          /\ call[c].change.kind \in {"mint", "rebind"}
                          /\ call[c].change.token = t]_vars

\* "It can NOT undo the session half: the counter only goes up": no write, however
\* stale, lowers the epoch that readers see, and each bump raises it.
EpochOnlyGrows ==
  [][Effective' >= Effective /\ (counter' # counter => Effective' > Effective)]_vars

Asked == [c \in Clients |->
            IF pc[c] \in {"read", "write"} THEN call[c].change ELSE NoChange]

Contract == INSTANCE RoomContract WITH asked <- Asked

\* Read, compute, compare-and-set keeps the promise of mutateRoom: each change is
\* made to the latest record in one step and undoes no other.
ImplementsContract == Contract!Spec

\* "a revoked credential must stay dead, including any copy"
RevokedStaysDead == \A t \in loggedOut : ~Live(GetRoom, t)

\* The cap on devices holds, and making room under it never costs the owner the pin.
CapSparesTheOwner == DevicesBounded /\ OwnerStaysPinned

\* For TLC: requests, and the tokens not yet given out, are interchangeable.
Symmetry == Permutations(Clients) \cup Permutations(Tokens \ {FirstToken})
=============================================================================
