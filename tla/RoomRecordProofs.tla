-------------------------- MODULE RoomRecordProofs --------------------------
(***************************************************************************)
(* Proofs about RoomRecord, for any number of devices, requests, tokens    *)
(* and attempts: type correctness, an epoch that only grows, no dead token *)
(* revived, no access that a revocation ended, a cap that spares the       *)
(* owner's pin, and that mutateRoom implements RoomContract.               *)
(***************************************************************************)
EXTENDS RoomRecord, ListTheorems

-----------------------------------------------------------------------------
(* The inductive invariant.                                                *)

\* The counter is the effective epoch: copies and tags never get ahead of it.
EpochsOK == room.tag <= room.epoch /\ room.epoch <= counter

\* What a request relies on at a label: its change and, when it is about to write, a
\* snapshot that differs from the record in its epoch only if the revision is current.
\* That is all the revision does not cover.
Fits(label, locals) ==
  /\ label \in {"read", "write"} => locals.change \in Changes
  /\ label = "bump" => locals.change.kind = "rebind"
  /\ locals.change.kind = "rebind" => locals.change.before <= counter
  /\ locals.change.kind \in {"drop", "rebind"} => locals.token = locals.change.token
  /\ label = "write" =>
       /\ locals.seenRev <= rev
       /\ locals.seen.epoch <= counter
       /\ locals.seenRev = rev => /\ locals.seen = [room EXCEPT !.epoch = locals.seen.epoch]
                                  /\ room.epoch <= locals.seen.epoch

CallsOK == \A c \in Clients : Fits(pc[c], call[c])

IInv == TypeOK /\ EpochsOK /\ CallsOK

-----------------------------------------------------------------------------
(* What the changes make of a room.                                        *)

LEMMA CapProperties ==
  ASSUME NEW s \in Seq(Tokens), NEW owner
  PROVE  /\ CapClaimHashes(s, owner) \in Seq(Tokens)
         /\ Range(CapClaimHashes(s, owner)) \subseteq Range(s)
  BY KeptProperties DEF CapClaimHashes

LEMMA EpochIsCounter ==
  ASSUME NEW r \in Rooms, NEW e \in Nat
  PROVE  /\ WithEpoch(r, e) \in Rooms
         /\ WithEpoch(r, e) = [r EXCEPT !.epoch = WithEpoch(r, e).epoch]
         /\ r.epoch <= WithEpoch(r, e).epoch /\ e <= WithEpoch(r, e).epoch
         /\ r.epoch <= e => WithEpoch(r, e).epoch = e
  BY DEF WithEpoch, Larger, Rooms

\* A mint keeps a live list and adds its token; a list of an earlier epoch goes.
LEMMA MintedProperties ==
  ASSUME NEW r \in Rooms, NEW t \in Tokens, NEW o \in BOOLEAN
  PROVE  /\ Minted(r, t, o) \in Rooms
         /\ Minted(r, t, o).epoch = r.epoch /\ Minted(r, t, o).tag = r.epoch
         /\ \A u \in Tokens : Live(Minted(r, t, o), u) => u = t \/ Live(r, u)
<1> DEFINE base == IF ClaimListIsLive(r) THEN r.hashes ELSE <<>>
           owner == IF o THEN t ELSE IF ClaimListIsLive(r) THEN r.owner ELSE NoToken
           capped == CapClaimHashes(Append(base, t), owner)
<1>1. Minted(r, t, o) = [r EXCEPT !.hashes = capped, !.owner = owner, !.tag = r.epoch]
  BY DEF Minted
<1>2. base \in Seq(Tokens) /\ owner \in Tokens \cup {NoToken} /\ r.epoch \in Nat
  BY DEF Rooms
<1>3. \A u \in Range(base) : Live(r, u)
  BY DEF Live, Range
<1> HIDE DEF base, owner
<1>4. Append(base, t) \in Seq(Tokens) /\ Range(Append(base, t)) = Range(base) \cup {t}
  BY <1>2, AppendProperties
<1>5. capped \in Seq(Tokens) /\ Range(capped) \subseteq Range(base) \cup {t}
  BY <1>4, CapProperties
<1> HIDE DEF capped
<1>6. Minted(r, t, o) \in Rooms
  BY <1>1, <1>2, <1>5 DEF Rooms
<1>7. /\ Minted(r, t, o).epoch = r.epoch /\ Minted(r, t, o).tag = r.epoch
      /\ Minted(r, t, o).hashes = capped
  BY <1>1 DEF Rooms
<1>8. \A u \in Tokens : Live(Minted(r, t, o), u) => u = t \/ Live(r, u)
  BY <1>3, <1>5, <1>7 DEF Live
<1> QED
  BY <1>6, <1>7, <1>8

LEMMA DroppedProperties ==
  ASSUME NEW r \in Rooms, NEW t \in Tokens
  PROVE  /\ Dropped(r, t) \in Rooms
         /\ Dropped(r, t).epoch = r.epoch /\ Dropped(r, t).tag = r.tag
         /\ Range(Dropped(r, t).hashes) = Range(r.hashes) \ {t}
<1>1. Without(r.hashes, t) \in Seq(Tokens)
      /\ Range(Without(r.hashes, t)) = Range(r.hashes) \ {t}
  BY WithoutProperties DEF Rooms
<1>2. Dropped(r, t) = [r EXCEPT !.hashes = Without(r.hashes, t),
                                !.owner = IF r.owner = t THEN NoToken ELSE r.owner]
  BY DEF Dropped
<1> QED
  BY <1>1, <1>2 DEF Rooms

\* A rebind keeps the owner's token and those of a list that is already live.
LEMMA ReboundProperties ==
  ASSUME NEW r \in Rooms, NEW t \in Tokens, NEW before \in Nat
  PROVE  /\ Rebound(r, t, before) \in Rooms
         /\ Rebound(r, t, before).epoch = r.epoch /\ Rebound(r, t, before).tag = r.epoch
         /\ \A u \in Tokens : Live(Rebound(r, t, before), u) => u = t \/ Live(r, u)
<1> DEFINE postBump == IF r.epoch > before /\ ClaimListIsLive(r)
                       THEN Without(r.hashes, t) ELSE <<>>
           own == <<t>>
           capped == CapClaimHashes(own \o postBump, t)
<1>1. Rebound(r, t, before) = [r EXCEPT !.hashes = capped, !.owner = t, !.tag = r.epoch]
  BY DEF Rebound
<1>2. Without(r.hashes, t) \in Seq(Tokens)
      /\ Range(Without(r.hashes, t)) = Range(r.hashes) \ {t}
  BY WithoutProperties DEF Rooms
<1>3. postBump \in Seq(Tokens) /\ r.epoch \in Nat
  BY <1>2 DEF Rooms
<1>4. \A u \in Range(postBump) : Live(r, u)
  BY <1>2 DEF Live, Range
<1> HIDE DEF postBump
<1>5. own \in Seq(Tokens) /\ Range(own) = {t}
  BY DEF Range
<1> HIDE DEF own
<1>6. own \o postBump \in Seq(Tokens) /\ Range(own \o postBump) = {t} \cup Range(postBump)
  BY <1>3, <1>5, ConcatProperties
<1>7. capped \in Seq(Tokens) /\ Range(capped) \subseteq {t} \cup Range(postBump)
  BY <1>6, CapProperties
<1> HIDE DEF capped
<1>8. Rebound(r, t, before) \in Rooms
  BY <1>1, <1>3, <1>7 DEF Rooms
<1>9. /\ Rebound(r, t, before).epoch = r.epoch /\ Rebound(r, t, before).tag = r.epoch
      /\ Rebound(r, t, before).hashes = capped
  BY <1>1 DEF Rooms
<1>10. \A u \in Tokens : Live(Rebound(r, t, before), u) => u = t \/ Live(r, u)
  BY <1>4, <1>7, <1>9 DEF Live
<1> QED
  BY <1>8, <1>9, <1>10

\* Any change: it keeps the epoch, tags the list with it or leaves the tag, and brings
\* no token to life but the one it is about.
LEMMA ChangedProperties ==
  ASSUME NEW change \in Changes, NEW r \in Rooms
  PROVE  /\ Changed(change, r) \in Rooms
         /\ Changed(change, r).epoch = r.epoch
         /\ Changed(change, r).tag \in {r.tag, r.epoch}
         /\ \A t \in Tokens : Live(Changed(change, r), t) =>
              Live(r, t) \/ (change.kind \in {"mint", "rebind"} /\ change.token = t)
<1>1. CASE change \in [kind : {"mint"}, token : Tokens, asOwner : BOOLEAN]
  <2>1. change.kind = "mint" /\ change.token \in Tokens /\ change.asOwner \in BOOLEAN
    BY <1>1
  <2>2. Changed(change, r) = Minted(r, change.token, change.asOwner)
    BY <2>1 DEF Changed
  <2> QED
    BY <2>1, <2>2, MintedProperties
<1>2. CASE change \in [kind : {"drop"}, token : Tokens]
  <2>1. change.kind = "drop" /\ change.token \in Tokens
    BY <1>2
  <2>2. Changed(change, r) = Dropped(r, change.token)
    BY <2>1 DEF Changed
  <2>3. \A t \in Tokens : Live(Changed(change, r), t) => Live(r, t)
    BY <2>1, <2>2, DroppedProperties DEF Live, ClaimListIsLive
  <2> QED
    BY <2>1, <2>2, <2>3, DroppedProperties
<1>3. CASE change \in [kind : {"rebind"}, token : Tokens, before : Nat]
  <2>1. change.kind = "rebind" /\ change.token \in Tokens /\ change.before \in Nat
    BY <1>3
  <2>2. Changed(change, r) = Rebound(r, change.token, change.before)
    BY <2>1 DEF Changed
  <2> QED
    BY <2>1, <2>2, ReboundProperties
<1>4. CASE change \in [kind : {"mode"}, mode : Modes]
  <2>1. change.kind = "mode" /\ change.mode \in Modes
    BY <1>4
  <2>2. Changed(change, r) = [r EXCEPT !.mode = change.mode]
    BY <2>1 DEF Changed
  <2> QED
    BY <2>1, <2>2 DEF Rooms, Live, ClaimListIsLive
<1> QED
  BY <1>1, <1>2, <1>3, <1>4 DEF Changes

-----------------------------------------------------------------------------
(* Steps.                                                                  *)

LEMMA CountersGiveEpoch ==
  ASSUME IInv
  PROVE  /\ GetRoom \in Rooms /\ Effective = counter
         /\ GetRoom = [room EXCEPT !.epoch = counter]
         /\ room.epoch \in Nat /\ room.tag \in Nat /\ counter \in Nat
<1>1. room \in Rooms /\ counter \in Nat /\ room.epoch <= counter
  BY DEF IInv, TypeOK, EpochsOK
<1>2. room.epoch \in Nat /\ room.tag \in Nat
  BY <1>1 DEF Rooms
<1> QED
  BY <1>1, <1>2, EpochIsCounter DEF Effective, GetRoom

\* A step changes the label and the locals of its own request.
LEMMA StepProperties ==
  ASSUME TypeOK, NEW c \in Clients, NEW label \in Labels, NEW locals \in Calls,
         Step(c, label, locals)
  PROVE  /\ pc' \in [Clients -> Labels] /\ pc'[c] = label
         /\ call' \in [Clients -> Calls] /\ call'[c] = locals
         /\ \A d \in Clients \ {c} : pc'[d] = pc[d] /\ call'[d] = call[d]
  BY DEF TypeOK, Step

\* The other requests do not notice: the counter does not fall, and a record that
\* changes changes its revision.
LEMMA OthersFit ==
  ASSUME IInv, NEW d \in Clients, rev' \in Nat, counter' \in Nat, counter <= counter',
         UNCHANGED <<room, rev>> \/ rev' = rev + 1,
         pc'[d] = pc[d], call'[d] = call[d]
  PROVE  Fits(pc[d], call[d])'
<1>1. /\ Fits(pc[d], call[d]) /\ rev \in Nat /\ counter \in Nat
      /\ call[d] \in Calls
  BY DEF IInv, TypeOK, CallsOK
<1>2. call[d].seenRev \in Nat /\ call[d].seen.epoch \in Nat
  BY <1>1 DEF Calls, Rooms
<1>3. call[d].change.kind = "rebind" => call[d].change.before \in Nat
  BY <1>1 DEF Calls, Changes, NoChange
<1> QED
  BY <1>1, <1>2, <1>3 DEF Fits

\* A step that leaves the store alone keeps the invariant if what it stores fits.
LEMMA LocalStep ==
  ASSUME IInv, NEW c \in Clients, NEW label \in Labels, NEW locals \in Calls,
         Step(c, label, locals), Fits(label, locals), UNCHANGED store,
         session' \in [Devices -> Nat \cup {NoSession}],
         claim' \in [Devices -> Tokens \cup {NoToken}],
         entitled' \subseteq Devices, loggedOut' \subseteq Tokens, gaveUp' \in BOOLEAN
  PROVE  IInv'
<1>1. TypeOK /\ EpochsOK /\ rev \in Nat /\ counter \in Nat
  BY DEF IInv, TypeOK
<1>2. /\ pc' \in [Clients -> Labels] /\ pc'[c] = label
      /\ call' \in [Clients -> Calls] /\ call'[c] = locals
      /\ \A d \in Clients \ {c} : pc'[d] = pc[d] /\ call'[d] = call[d]
  BY <1>1, StepProperties
<1>3. TypeOK'
  BY <1>1, <1>2 DEF TypeOK, store
<1>4. EpochsOK'
  BY <1>1 DEF EpochsOK, store
<1>5. Fits(pc[c], call[c])'
  BY <1>2 DEF Fits, store
<1>6. ASSUME NEW d \in Clients \ {c} PROVE Fits(pc[d], call[d])'
  BY <1>1, <1>2, OthersFit DEF store
<1>7. CallsOK'
  BY <1>5, <1>6 DEF CallsOK
<1> QED
  BY <1>3, <1>4, <1>7 DEF IInv

\* The locals of a new request, and of one that returns.
LEMMA NoCallFits ==
  ASSUME IInv
  PROVE  NoCall \in Calls /\ Fits("idle", NoCall) /\ NewRoom \in Rooms
<1>1. NewRoom \in Rooms
  BY DefaultModeAssumption DEF NewRoom, Rooms
<1>2. 0 \in 0..(ROOM_WRITE_ATTEMPTS - 1)
  BY AttemptsAssumption
<1>3. NoCall \in Calls
  BY <1>1, <1>2, CreatorAssumption DEF NoCall, Calls
<1> QED
  BY <1>1, <1>3 DEF NoCall, NoChange, Fits

LEMMA RequestFits ==
  ASSUME IInv, NEW d \in Devices
  PROVE  /\ Request(d) \in Calls /\ Request(d).token = claim[d]
         /\ Request(d).change = NoChange
         /\ \A label \in Labels \ {"read", "write", "bump"} : Fits(label, Request(d))
<1>1. claim[d] \in Tokens \cup {NoToken}
  BY DEF IInv, TypeOK
<1>2. NoCall \in Calls
  BY NoCallFits
<1>3. Request(d) \in Calls /\ Request(d).token = claim[d] /\ Request(d).change = NoChange
  BY <1>1, <1>2 DEF Request, Calls, NoCall
<1> QED
  BY <1>3 DEF Fits, NoChange

\* An attempt that is over.
LEMMA ForgetFits ==
  ASSUME IInv, NEW locals \in Calls
  PROVE  /\ Forget(locals) \in Calls
         /\ Forget(locals).change = locals.change /\ Forget(locals).token = locals.token
         /\ Forget(locals).session = locals.session /\ Forget(locals).tries = locals.tries
  BY NoCallFits DEF Forget, Calls

-----------------------------------------------------------------------------
(* The invariant, action by action.                                        *)

LEMMA InitInv == Init => IInv
<1> SUFFICES ASSUME Init PROVE IInv
  OBVIOUS
<1>1. NewRoom \in Rooms /\ NewRoom.epoch = 0
  <2>1. NewRoom \in Rooms
    BY DefaultModeAssumption DEF NewRoom, Rooms
  <2> QED
    BY <2>1 DEF NewRoom
<1>2. /\ room \in Rooms /\ room.epoch = 0 /\ room.tag = 0
  BY <1>1, CreatorAssumption, MintedProperties DEF Init
<1>3. NoCall \in Calls
  BY <1>1, CreatorAssumption, AttemptsAssumption DEF NoCall, Calls
<1>4. TypeOK
  BY <1>2, <1>3, CreatorAssumption DEF Init, TypeOK, Labels, NoSession
<1>5. CallsOK
  BY DEF Init, CallsOK, Fits, NoCall, NoChange
<1>6. counter = 0
  BY DEF Init
<1>7. EpochsOK
  BY <1>2, <1>6 DEF EpochsOK
<1> QED
  BY <1>4, <1>5, <1>7 DEF IInv

\* Requests come in.
LEMMA StartsKeepInv ==
  ASSUME IInv, NEW c \in Clients, NEW d \in Devices,
         Login(c, d) \/ Claim(c, d) \/ Logout(c, d) \/ Revoke(c, d)
           \/ \E m \in Modes : ChangeSetting(c, d, m)
  PROVE  IInv'
<1>1. /\ TypeOK /\ Effective \in Nat /\ claim[d] \in Tokens \cup {NoToken}
  BY CountersGiveEpoch DEF IInv, TypeOK
<1>2. /\ Request(d) \in Calls /\ Request(d).token = claim[d] /\ Request(d).change = NoChange
      /\ \A label \in Labels \ {"read", "write", "bump"} : Fits(label, Request(d))
  BY RequestFits
<1>3. CASE Login(c, d)
  <2> DEFINE locals == [Request(d) EXCEPT !.session = Effective]
  <2>1. locals \in Calls /\ locals.change = NoChange
    BY <1>1, <1>2 DEF Calls
  <2>2. Fits("status", locals)
    BY <2>1 DEF Fits, NoChange
  <2>3. /\ Step(c, "status", locals) /\ UNCHANGED <<store, cookies, loggedOut, gaveUp>>
        /\ entitled' \subseteq Devices
    BY <1>1, <1>3 DEF Login, Start, TypeOK
  <2> QED
    BY <1>1, <2>1, <2>2, <2>3, LocalStep DEF Labels, cookies, TypeOK
<1>4. CASE Claim(c, d)
  <2> DEFINE locals == [Request(d) EXCEPT !.session = Effective, !.claim = claim[d]]
  <2>1. locals \in Calls /\ locals.change = NoChange
    BY <1>1, <1>2 DEF Calls
  <2>2. Fits("answer", locals)
    BY <2>1 DEF Fits, NoChange
  <2>3. Step(c, "answer", locals) /\ UNCHANGED <<store, cookies, history>>
    BY <1>4 DEF Claim, Start
  <2> QED
    BY <1>1, <2>1, <2>2, <2>3, LocalStep DEF Labels, cookies, history, TypeOK
<1>5. CASE Logout(c, d)
  <2>1. CASE claim[d] = NoToken
    <3>1. Step(c, "answer", Request(d)) /\ UNCHANGED <<store, cookies, history>>
      BY <1>5, <2>1 DEF Logout, Start
    <3> QED
      BY <1>1, <1>2, <3>1, LocalStep DEF Labels, cookies, history, TypeOK
  <2>2. CASE claim[d] # NoToken
    <3> DEFINE locals == [Request(d) EXCEPT !.change = Drop(claim[d])]
    <3>1. Drop(claim[d]) \in Changes /\ Drop(claim[d]).kind = "drop" /\ Drop(claim[d]).token = claim[d]
      BY <1>1, <2>2 DEF Drop, Changes
    <3>2. locals \in Calls /\ locals.change = Drop(claim[d]) /\ locals.token = claim[d]
      BY <1>2, <3>1 DEF Calls
    <3>3. Fits("read", locals)
      BY <3>1, <3>2 DEF Fits
    <3>4. Step(c, "read", locals) /\ UNCHANGED <<store, cookies, history>>
      BY <1>5, <2>2 DEF Logout, Start
    <3> QED
      BY <1>1, <3>2, <3>3, <3>4, LocalStep DEF Labels, cookies, history, TypeOK
  <2> QED
    BY <2>1, <2>2
<1>6. CASE Revoke(c, d)
  <2>1. Step(c, "before", Request(d)) /\ UNCHANGED <<store, cookies, history>>
    BY <1>6 DEF Revoke, Start
  <2> QED
    BY <1>1, <1>2, <2>1, LocalStep DEF Labels, cookies, history, TypeOK
<1>7. ASSUME NEW m \in Modes, ChangeSetting(c, d, m) PROVE IInv'
  <2> DEFINE locals == [Request(d) EXCEPT !.change = SetMode(m)]
  <2>1. SetMode(m) \in Changes /\ SetMode(m).kind = "mode"
    BY DEF SetMode, Changes
  <2>2. locals \in Calls /\ locals.change = SetMode(m)
    BY <1>2, <2>1 DEF Calls
  <2>3. Fits("read", locals)
    BY <2>1, <2>2 DEF Fits
  <2>4. Step(c, "read", locals) /\ UNCHANGED <<store, cookies, history>>
    BY <1>7 DEF ChangeSetting, Start
  <2> QED
    BY <1>1, <2>2, <2>3, <2>4, LocalStep DEF Labels, cookies, history, TypeOK
<1> QED
  BY <1>3, <1>4, <1>5, <1>6, <1>7

\* Requests that read, decide or answer.
LEMMA LocalStepsKeepInv ==
  ASSUME IInv, NEW c \in Clients,
         LoginStatus(c) \/ RevokeBefore(c) \/ LastRead(c) \/ ReadRoom(c) \/ Retry(c)
           \/ GiveUp(c) \/ Answer(c)
  PROVE  IInv'
<1>1. /\ TypeOK /\ call[c] \in Calls /\ Fits(pc[c], call[c]) /\ rev \in Nat /\ counter \in Nat
      /\ call[c].dev \in Devices /\ call[c].token \in Tokens \cup {NoToken}
      /\ call[c].tries \in 0..(ROOM_WRITE_ATTEMPTS - 1)
      /\ call[c].session \in Nat \cup {NoSession} /\ call[c].claim \in Tokens \cup {NoToken}
  BY DEF IInv, TypeOK, CallsOK, Calls
<1>2. /\ GetRoom \in Rooms /\ Effective = counter /\ GetRoom = [room EXCEPT !.epoch = counter]
      /\ room.epoch \in Nat /\ room.epoch <= counter /\ room \in Rooms /\ GetRoom.epoch = counter
  BY CountersGiveEpoch DEF IInv, EpochsOK, TypeOK, Effective
<1>3. NoCall \in Calls /\ Fits("idle", NoCall)
  BY NoCallFits
<1>4. ASSUME Return(c), UNCHANGED store,
             session' \in [Devices -> Nat \cup {NoSession}],
             claim' \in [Devices -> Tokens \cup {NoToken}],
             entitled' \subseteq Devices, loggedOut' \subseteq Tokens, gaveUp' \in BOOLEAN
      PROVE  IInv'
  BY <1>3, <1>4, LocalStep DEF Return, Labels
<1>5. ASSUME UNCHANGED <<cookies, history>>
      PROVE  /\ session' \in [Devices -> Nat \cup {NoSession}]
             /\ claim' \in [Devices -> Tokens \cup {NoToken}]
             /\ entitled' \subseteq Devices /\ loggedOut' \subseteq Tokens /\ gaveUp' \in BOOLEAN
  BY <1>1, <1>5 DEF cookies, history, TypeOK
<1>6. CASE LoginStatus(c)
  <2>0. UNCHANGED <<store, cookies, history>> /\ pc[c] = "status"
    BY <1>6 DEF LoginStatus
  <2>1. CASE Step(c, "answer", [call[c] EXCEPT !.claim = call[c].token])
    <3> DEFINE locals == [call[c] EXCEPT !.claim = call[c].token]
    <3>1. locals \in Calls /\ locals.change = call[c].change /\ locals.token = call[c].token
      BY <1>1 DEF Calls
    <3>2. Fits("answer", locals)
      BY <1>1, <3>1 DEF Fits
    <3> QED
      BY <1>5, <2>0, <2>1, <3>1, <3>2, LocalStep DEF Labels
  <2>2. ASSUME NEW t \in Tokens, Step(c, "read", [call[c] EXCEPT !.change = Mint(t, FALSE)])
        PROVE  IInv'
    <3> DEFINE locals == [call[c] EXCEPT !.change = Mint(t, FALSE)]
    <3>1. Mint(t, FALSE) \in Changes /\ Mint(t, FALSE).kind = "mint"
      BY DEF Mint, Changes
    <3>2. locals \in Calls /\ locals.change = Mint(t, FALSE)
      BY <1>1, <3>1 DEF Calls
    <3>3. Fits("read", locals)
      BY <3>1, <3>2 DEF Fits
    <3> QED
      BY <1>5, <2>0, <2>2, <3>2, <3>3, LocalStep DEF Labels
  <2> QED
    BY <1>6, <2>1, <2>2 DEF LoginStatus
<1>7. CASE RevokeBefore(c)
  <2>0. UNCHANGED <<store, cookies, history>>
    BY <1>7 DEF RevokeBefore
  <2>1. CASE IsOwner(GetRoom, call[c].token)
    <3> DEFINE change == Rebind(call[c].token, Effective)
               locals == [call[c] EXCEPT !.change = change]
    <3>1. call[c].token \in Tokens
      BY <1>2, <2>1 DEF IsOwner, Live, Range, Rooms
    <3>2. /\ change \in Changes /\ change.kind = "rebind" /\ change.before = counter
          /\ change.token = call[c].token
      BY <1>1, <1>2, <3>1 DEF Rebind, Changes
    <3>3. locals \in Calls /\ locals.change = change /\ locals.token = call[c].token
      BY <1>1, <3>2 DEF Calls
    <3>4. Fits("bump", locals)
      BY <1>1, <3>2, <3>3 DEF Fits
    <3>5. Step(c, "bump", locals)
      BY <1>7, <2>1 DEF RevokeBefore
    <3> QED
      BY <1>5, <2>0, <3>3, <3>4, <3>5, LocalStep DEF Labels
  <2>2. CASE ~IsOwner(GetRoom, call[c].token)
    BY <1>4, <1>5, <1>7, <2>0, <2>2 DEF RevokeBefore
  <2> QED
    BY <2>1, <2>2
<1>8. CASE LastRead(c)
  <2>0. UNCHANGED <<store, cookies, history>>
    BY <1>8, Zenon DEF LastRead
  <2>1. PICK t \in Tokens :
          Step(c, "read", [call[c] EXCEPT !.session = Larger(call[c].session, Effective),
                                          !.change = Mint(t, TRUE), !.tries = 0])
    BY <1>8, Zenon DEF LastRead
  <2> DEFINE locals == [call[c] EXCEPT !.session = Larger(call[c].session, Effective),
                                       !.change = Mint(t, TRUE), !.tries = 0]
  <2>2. Mint(t, TRUE) \in Changes /\ Mint(t, TRUE).kind = "mint"
    BY DEF Mint, Changes
  <2>3. Larger(call[c].session, Effective) \in Nat /\ 0 \in 0..(ROOM_WRITE_ATTEMPTS - 1)
    BY <1>1, <1>2, AttemptsAssumption DEF Larger, NoSession
  <2>4. locals \in Calls /\ locals.change = Mint(t, TRUE)
    BY <1>1, <2>2, <2>3 DEF Calls
  <2>5. Fits("read", locals)
    BY <2>2, <2>4 DEF Fits
  <2> QED
    BY <1>5, <2>0, <2>1, <2>4, <2>5, LocalStep DEF Labels
<1>9. CASE ReadRoom(c)
  <2>0. UNCHANGED <<store, cookies, history>> /\ pc[c] = "read"
    BY <1>9 DEF ReadRoom
  <2>1. CASE Writes(call[c].change, GetRoom)
    <3> DEFINE locals == [call[c] EXCEPT !.seen = GetRoom, !.seenRev = rev]
    <3>1. /\ locals \in Calls /\ locals.change = call[c].change /\ locals.token = call[c].token
          /\ locals.seen = GetRoom /\ locals.seenRev = rev
      BY <1>1, <1>2 DEF Calls
    <3>2. Step(c, "write", locals)
      BY <1>9, <2>1 DEF ReadRoom
    <3> HIDE DEF locals
    <3>3. locals.seen.epoch = counter /\ locals.seen = [room EXCEPT !.epoch = locals.seen.epoch]
      BY <1>2, <3>1
    <3>4. Fits("write", locals)
      BY <1>1, <1>2, <2>0, <3>1, <3>3 DEF Fits
    <3> QED
      BY <1>5, <2>0, <3>1, <3>2, <3>4, LocalStep DEF Labels
  <2>2. CASE ~Writes(call[c].change, GetRoom)
    <3>1. Step(c, "answer", call[c])
      BY <1>9, <2>2 DEF ReadRoom
    <3>2. Fits("answer", call[c])
      BY <1>1 DEF Fits
    <3> QED
      BY <1>1, <1>5, <2>0, <3>1, <3>2, LocalStep DEF Labels
  <2> QED
    BY <2>1, <2>2
<1>10. CASE Retry(c)
  <2> DEFINE locals == [Forget(call[c]) EXCEPT !.tries = Forget(call[c]).tries + 1]
  <2>0. UNCHANGED <<store, cookies, history>> /\ pc[c] = "write"
    BY <1>10 DEF Retry
  <2>1. call[c].tries + 1 \in 0..(ROOM_WRITE_ATTEMPTS - 1)
    BY <1>1, <1>10, AttemptsAssumption DEF Retry
  <2>2. /\ Forget(call[c]) \in Calls /\ Forget(call[c]).tries = call[c].tries
        /\ Forget(call[c]).change = call[c].change /\ Forget(call[c]).token = call[c].token
    BY <1>1, ForgetFits
  <2>3. locals \in Calls /\ locals.change = call[c].change /\ locals.token = call[c].token
    BY <2>1, <2>2 DEF Calls
  <2>4. Fits("read", locals)
    BY <1>1, <2>0, <2>3 DEF Fits
  <2>5. Step(c, "read", locals)
    BY <1>10 DEF Retry
  <2> QED
    BY <1>5, <2>0, <2>3, <2>4, <2>5, LocalStep DEF Labels
<1>11. CASE GiveUp(c)
  <2>0. /\ UNCHANGED <<store, cookies, entitled, loggedOut>> /\ gaveUp' \in BOOLEAN
        /\ pc[c] = "write"
    BY <1>11 DEF GiveUp
  <2>1. /\ session' \in [Devices -> Nat \cup {NoSession}]
        /\ claim' \in [Devices -> Tokens \cup {NoToken}]
        /\ entitled' \subseteq Devices /\ loggedOut' \subseteq Tokens
    BY <1>1, <2>0 DEF cookies, TypeOK
  <2>2. /\ Forget(call[c]) \in Calls
        /\ Forget(call[c]).change = call[c].change /\ Forget(call[c]).token = call[c].token
    BY <1>1, ForgetFits
  <2>3. Fits("answer", Forget(call[c])) /\ Fits("last", Forget(call[c]))
    BY <1>1, <2>2 DEF Fits
  <2>4. Return(c) \/ Step(c, "answer", Forget(call[c])) \/ Step(c, "last", Forget(call[c]))
    <3>1. call[c].change.kind \in {"mint", "drop", "rebind", "mode"}
      BY <1>1, <2>0 DEF Fits, Changes
    <3> QED
      BY <1>11, <3>1 DEF GiveUp
  <2> QED
    BY <1>4, <2>0, <2>1, <2>2, <2>3, <2>4, LocalStep DEF Labels
<1>12. CASE Answer(c)
  <2>1. Return(c) /\ UNCHANGED <<store, history>>
    BY <1>12 DEF Answer
  <2>2. SetCookies(call[c].dev, call[c]) \/ UNCHANGED cookies
    BY <1>12 DEF Answer
  <2>3. /\ session' \in [Devices -> Nat \cup {NoSession}]
        /\ claim' \in [Devices -> Tokens \cup {NoToken}]
    BY <1>1, <2>2 DEF SetCookies, cookies, TypeOK
  <2> QED
    BY <1>1, <1>4, <2>1, <2>3 DEF history, TypeOK
<1> QED
  BY <1>6, <1>7, <1>8, <1>9, <1>10, <1>11, <1>12

\* The counter goes up, past every copy and tag.
LEMMA BumpKeepsInv ==
  ASSUME IInv, NEW c \in Clients, Bump(c)
  PROVE  /\ IInv'
         /\ UNCHANGED <<room, rev>> /\ counter' \in Nat /\ counter' > counter
<1>1. /\ TypeOK /\ call[c] \in Calls /\ Fits(pc[c], call[c]) /\ rev \in Nat /\ counter \in Nat
      /\ room \in Rooms /\ room.epoch <= counter /\ room.tag <= room.epoch
  BY DEF IInv, TypeOK, CallsOK, EpochsOK
<1>2. /\ call[c].change.kind = "rebind" /\ call[c].change.before \in Nat
      /\ call[c].change.before <= counter /\ call[c].change \in Changes
  BY <1>1 DEF Bump, Fits, Calls, Changes, NoChange
<1>3. counter' \in Nat /\ counter' = counter + 1
  BY <1>1, <1>2 DEF Bump, NextEpoch, Larger
<1> DEFINE locals == [call[c] EXCEPT !.session = counter']
<1>4. /\ locals \in Calls /\ locals.change = call[c].change /\ locals.token = call[c].token
  BY <1>1, <1>3 DEF Calls
<1>5. Step(c, "read", locals)
  BY DEF Bump
<1> HIDE DEF locals
<1>6. /\ pc' \in [Clients -> Labels] /\ pc'[c] = "read"
      /\ call' \in [Clients -> Calls] /\ call'[c] = locals
      /\ \A d \in Clients \ {c} : pc'[d] = pc[d] /\ call'[d] = call[d]
  BY <1>1, <1>4, <1>5, StepProperties DEF Labels
<1>7. UNCHANGED <<room, rev, session, claim, loggedOut, gaveUp>> /\ entitled' = Entering
  BY DEF Bump, cookies
<1>8. Entering \subseteq Devices
  BY <1>1 DEF Entering, TypeOK, Calls
<1>9. TypeOK'
  BY <1>1, <1>3, <1>6, <1>7, <1>8 DEF TypeOK
<1>10. EpochsOK'
  BY <1>1, <1>3, <1>7 DEF EpochsOK, Rooms
<1>11. Fits(pc[c], call[c])'
  BY <1>1, <1>2, <1>3, <1>4, <1>6 DEF Fits
<1>12. ASSUME NEW d \in Clients \ {c} PROVE Fits(pc[d], call[d])'
  BY <1>1, <1>3, <1>6, <1>7, OthersFit
<1>13. CallsOK'
  BY <1>11, <1>12 DEF CallsOK
<1> QED
  BY <1>1, <1>3, <1>7, <1>9, <1>10, <1>13 DEF IInv

\* A compare-and-set that goes through changes the record it read, but for its epoch.
LEMMA WriteRoomKeepsInv ==
  ASSUME IInv, NEW c \in Clients, WriteRoom(c)
  PROVE  /\ IInv'
         /\ UNCHANGED counter /\ pc[c] = "write" /\ call[c].change \in Changes
         /\ call[c].seen \in Rooms /\ call[c].seen = [room EXCEPT !.epoch = call[c].seen.epoch]
         /\ room.epoch <= call[c].seen.epoch /\ call[c].seen.epoch <= counter
         /\ room' = Changed(call[c].change, call[c].seen)
         /\ pc'[c] \in {"idle", "answer"}
         /\ \A d \in Clients \ {c} : pc'[d] = pc[d] /\ call'[d] = call[d]
<1>1. /\ TypeOK /\ call[c] \in Calls /\ Fits(pc[c], call[c]) /\ rev \in Nat /\ counter \in Nat
      /\ room \in Rooms /\ room.epoch <= counter /\ room.tag <= room.epoch
      /\ call[c].seen \in Rooms /\ call[c].session \in Nat \cup {NoSession}
      /\ call[c].token \in Tokens \cup {NoToken}
  BY DEF IInv, TypeOK, CallsOK, EpochsOK, Calls
<1>2. /\ pc[c] = "write" /\ call[c].seenRev = rev /\ UNCHANGED counter
      /\ room' = Changed(call[c].change, call[c].seen) /\ rev' = rev + 1
  BY DEF WriteRoom, Current
<1>3. /\ call[c].change \in Changes
      /\ call[c].seen = [room EXCEPT !.epoch = call[c].seen.epoch]
      /\ room.epoch <= call[c].seen.epoch /\ call[c].seen.epoch <= counter
  BY <1>1, <1>2 DEF Fits
<1>4. /\ room' \in Rooms /\ room'.epoch = call[c].seen.epoch
      /\ room'.tag \in {call[c].seen.tag, call[c].seen.epoch}
  BY <1>1, <1>2, <1>3, ChangedProperties
<1>5. call[c].seen.tag = room.tag /\ call[c].seen.epoch \in Nat /\ room.epoch \in Nat
      /\ room.tag \in Nat
  BY <1>1, <1>3 DEF Rooms
<1>6. EpochsOK'
  BY <1>1, <1>2, <1>3, <1>4, <1>5 DEF EpochsOK
<1>7. /\ Forget(call[c]) \in Calls
      /\ Forget(call[c]).change = call[c].change /\ Forget(call[c]).token = call[c].token
  BY <1>1, ForgetFits
<1>8. NoCall \in Calls /\ NoCall.change = NoChange
  BY NoCallFits DEF NoCall
<1>9. \E label \in {"idle", "answer"}, locals \in Calls :
        /\ Step(c, label, locals)
        /\ \/ locals.change = NoChange
           \/ locals.change = call[c].change /\ locals.token = call[c].token
  <2>1. CASE call[c].change.kind = "mode"
    BY <1>8, <2>1 DEF WriteRoom, Committed, Return
  <2>2. CASE call[c].change.kind = "drop"
    BY <1>7, <2>2 DEF WriteRoom, Committed
  <2>3. CASE call[c].change.kind = "mint"
    <3> DEFINE locals == [Forget(call[c]) EXCEPT !.claim = call[c].change.token]
    <3>1. call[c].change.token \in Tokens
      BY <1>3, <2>3 DEF Changes
    <3>2. locals \in Calls /\ locals.change = call[c].change /\ locals.token = call[c].token
      BY <1>7, <3>1 DEF Calls
    <3>3. Step(c, "answer", locals)
      BY <2>3 DEF WriteRoom, Committed
    <3> QED
      BY <3>2, <3>3
  <2>4. CASE call[c].change.kind = "rebind"
    <3> DEFINE locals == [Forget(call[c]) EXCEPT !.claim = call[c].token,
                                                 !.session = call[c].seen.epoch]
    <3>1. locals \in Calls /\ locals.change = call[c].change /\ locals.token = call[c].token
      BY <1>1, <1>5, <1>7 DEF Calls
    <3>2. Step(c, "answer", locals)
      BY <2>4 DEF WriteRoom, Committed
    <3> QED
      BY <3>1, <3>2
  <2> QED
    BY <1>3, <2>1, <2>2, <2>3, <2>4 DEF Changes
<1>10. PICK label \in {"idle", "answer"}, locals \in Calls :
        /\ Step(c, label, locals)
        /\ \/ locals.change = NoChange
           \/ locals.change = call[c].change /\ locals.token = call[c].token
  BY <1>9
<1>11. /\ pc' \in [Clients -> Labels] /\ pc'[c] = label
       /\ call' \in [Clients -> Calls] /\ call'[c] = locals
       /\ \A d \in Clients \ {c} : pc'[d] = pc[d] /\ call'[d] = call[d]
  BY <1>1, <1>10, StepProperties DEF Labels
<1>12. TypeOK'
  <2>1. UNCHANGED <<session, claim, entitled, gaveUp>>
    BY DEF WriteRoom, cookies
  <2>2. loggedOut' \subseteq Tokens
    <3>1. call[c].change.kind = "drop" => call[c].token \in Tokens
      BY <1>1, <1>2, <1>3 DEF Fits, Changes
    <3> QED
      BY <1>1, <3>1 DEF WriteRoom, TypeOK
  <2> QED
    BY <1>1, <1>2, <1>4, <1>11, <2>1, <2>2 DEF TypeOK
<1>13. Fits(pc[c], call[c])'
  BY <1>1, <1>2, <1>10, <1>11 DEF Fits, NoChange
<1>14. ASSUME NEW d \in Clients \ {c} PROVE Fits(pc[d], call[d])'
  BY <1>1, <1>2, <1>11, OthersFit
<1>15. CallsOK'
  BY <1>13, <1>14 DEF CallsOK
<1> QED
  BY <1>1, <1>2, <1>3, <1>6, <1>10, <1>11, <1>12, <1>15 DEF IInv

LEMMA NextInv == IInv /\ [Next]_vars => IInv'
<1> SUFFICES ASSUME IInv, [Next]_vars PROVE IInv'
  OBVIOUS
<1>1. CASE UNCHANGED vars
  <2>1. UNCHANGED <<room, rev, counter, pc, call, session, claim, entitled, loggedOut, gaveUp>>
    BY <1>1 DEF vars, store, cookies, history
  <2> QED
    BY <2>1 DEF IInv, TypeOK, EpochsOK, CallsOK, Fits
<1>2. CASE Next
  <2>1. ASSUME NEW c \in Clients, NEW d \in Devices,
               Login(c, d) \/ Claim(c, d) \/ Logout(c, d) \/ Revoke(c, d)
                 \/ \E m \in Modes : ChangeSetting(c, d, m)
        PROVE  IInv'
    BY <2>1, StartsKeepInv
  <2>2. ASSUME NEW c \in Clients,
               LoginStatus(c) \/ RevokeBefore(c) \/ LastRead(c) \/ ReadRoom(c) \/ Retry(c)
                 \/ GiveUp(c) \/ Answer(c)
        PROVE  IInv'
    BY <2>2, LocalStepsKeepInv
  <2>3. ASSUME NEW c \in Clients, Bump(c) PROVE IInv'
    BY <2>3, BumpKeepsInv
  <2>4. ASSUME NEW c \in Clients, WriteRoom(c) PROVE IInv'
    BY <2>4, WriteRoomKeepsInv, Zenon
  <2> QED
    BY <1>2, <2>1, <2>2, <2>3, <2>4 DEF Next
<1> QED
  BY <1>1, <1>2

\* What the proofs rest on: types, epochs that never get ahead of the counter, and
\* snapshots that are the record's, up to its epoch, as long as the revision is current.
THEOREM Invariance == Spec => []IInv
  BY InitInv, NextInv, PTL DEF Spec

\* Type correctness of the record, the requests and the cookies.
THEOREM TypeCorrect == Spec => []TypeOK
<1>1. IInv => TypeOK
  BY DEF IInv
<1> QED
  BY <1>1, Invariance, PTL

-----------------------------------------------------------------------------
(* The epoch, and dead tokens.                                             *)

\* The record and the counter change by a compare-and-set and a bump only.
LEMMA StoreSteps ==
  ASSUME [Next]_vars
  PROVE  UNCHANGED <<room, counter>> \/ \E c \in Clients : Bump(c) \/ WriteRoom(c)
<1>1. CASE UNCHANGED vars
  BY <1>1 DEF vars, store
<1>2. ASSUME NEW c \in Clients, NEW d \in Devices,
             \/ Login(c, d) \/ Claim(c, d) \/ Logout(c, d) \/ Revoke(c, d)
             \/ \E m \in Modes : ChangeSetting(c, d, m)
      PROVE  UNCHANGED <<room, counter>>
  BY <1>2 DEF Login, Claim, Logout, Revoke, ChangeSetting, store
<1>3. ASSUME NEW c \in Clients,
             LoginStatus(c) \/ RevokeBefore(c) \/ LastRead(c) \/ ReadRoom(c) \/ Retry(c)
               \/ GiveUp(c) \/ Answer(c)
      PROVE  UNCHANGED <<room, counter>>
  BY <1>3, Zenon DEF LoginStatus, RevokeBefore, LastRead, ReadRoom, Retry, GiveUp, Answer, store
<1> QED
  BY <1>1, <1>2, <1>3, Zenon DEF Next

\* The effective epoch is the counter, and only a bump changes it.
LEMMA NextGrows ==
  ASSUME IInv, IInv', [Next]_vars
  PROVE  Effective' >= Effective /\ (counter' # counter => Effective' > Effective)
<1>1. Effective = counter /\ counter \in Nat
  BY CountersGiveEpoch
<1>2. Effective' = counter' /\ counter' \in Nat
  <2>1. room' \in Rooms /\ room'.epoch <= counter' /\ counter' \in Nat
    BY DEF IInv, TypeOK, EpochsOK
  <2>2. WithEpoch(room', counter').epoch = counter'
    BY <2>1, EpochIsCounter
  <2> QED
    BY <2>1, <2>2 DEF Effective, GetRoom
<1>3. CASE UNCHANGED <<room, counter>>
  BY <1>1, <1>2, <1>3
<1>4. ASSUME NEW c \in Clients, Bump(c) PROVE counter' > counter
  BY <1>4, BumpKeepsInv
<1>5. ASSUME NEW c \in Clients, WriteRoom(c) PROVE counter' = counter
  BY <1>5, WriteRoomKeepsInv
<1> QED
  BY <1>1, <1>2, <1>3, <1>4, <1>5, StoreSteps

\* The session epoch that readers see never falls, and every bump raises it.
THEOREM EpochGrows == Spec => EpochOnlyGrows
<1>1. IInv /\ IInv' /\ [Next]_vars
        => [Effective' >= Effective /\ (counter' # counter => Effective' > Effective)]_vars
  BY NextGrows
<1> QED
  BY <1>1, Invariance, PTL DEF Spec, EpochOnlyGrows

\* A list is live under the counter only if it was tagged with it.  A bump gets past
\* every tag, and a write from a snapshot at an older epoch gives no live list.
LEMMA NextRevivesNothing ==
  ASSUME IInv, IInv', [Next]_vars, NEW t \in Tokens, ~Live(GetRoom, t), Live(GetRoom, t)'
  PROVE  \E c \in Clients : /\ pc[c] = "write"
                            /\ call[c].change.kind \in {"mint", "rebind"}
                            /\ call[c].change.token = t
<1>1. /\ GetRoom = [room EXCEPT !.epoch = counter] /\ room \in Rooms
      /\ room.epoch \in Nat /\ room.tag \in Nat /\ counter \in Nat
      /\ room.tag <= room.epoch /\ room.epoch <= counter
  BY CountersGiveEpoch DEF IInv, TypeOK, EpochsOK
<1>2. /\ room' \in Rooms /\ counter' \in Nat /\ room'.epoch <= counter'
      /\ room'.epoch \in Nat /\ room'.tag \in Nat
  BY DEF IInv, TypeOK, EpochsOK, Rooms
<1>3. GetRoom' = [room' EXCEPT !.epoch = counter']
  <2>1. WithEpoch(room', counter') = [room' EXCEPT !.epoch = counter']
    BY <1>2, EpochIsCounter
  <2> QED
    BY <2>1 DEF GetRoom
<1>4. t \in Range(room'.hashes) /\ room'.tag = counter'
  BY <1>2, <1>3 DEF Live, ClaimListIsLive, Rooms
<1>5. ~(t \in Range(room.hashes) /\ room.tag = counter)
  BY <1>1 DEF Live, ClaimListIsLive, Rooms
<1>6. CASE UNCHANGED <<room, counter>>
  BY <1>4, <1>5, <1>6
<1>7. ASSUME NEW c \in Clients, Bump(c) PROVE FALSE
  <2>1. room' = room /\ counter' > counter
    BY <1>7, BumpKeepsInv
  <2> QED
    BY <1>1, <1>4, <2>1
<1>8. ASSUME NEW c \in Clients, WriteRoom(c)
      PROVE  /\ pc[c] = "write" /\ call[c].change.kind \in {"mint", "rebind"}
             /\ call[c].change.token = t
  <2> DEFINE seen == call[c].seen
             change == call[c].change
  <2>1. /\ counter' = counter /\ pc[c] = "write" /\ change \in Changes
        /\ seen \in Rooms /\ seen = [room EXCEPT !.epoch = seen.epoch]
        /\ room.epoch <= seen.epoch /\ seen.epoch <= counter
        /\ room' = Changed(change, seen)
    BY <1>8, WriteRoomKeepsInv
  <2> HIDE DEF seen, change
  <2>2. /\ room'.epoch = seen.epoch /\ room'.tag \in {seen.tag, seen.epoch}
        /\ Live(room', t) => Live(seen, t) \/ (change.kind \in {"mint", "rebind"} /\ change.token = t)
    BY <2>1, ChangedProperties
  <2>3. /\ seen.tag = room.tag /\ seen.hashes = room.hashes /\ seen.epoch \in Nat
    BY <1>1, <2>1 DEF Rooms
  <2>4. seen.epoch = counter
    BY <1>1, <1>4, <2>1, <2>2, <2>3
  <2>5. Live(room', t)
    BY <1>4, <2>1, <2>2, <2>4 DEF Live, ClaimListIsLive
  <2>6. ~Live(seen, t)
    BY <1>5, <2>3, <2>4 DEF Live, ClaimListIsLive
  <2>7. change.kind \in {"mint", "rebind"} /\ change.token = t
    BY <2>2, <2>5, <2>6
  <2> QED
    BY <2>1, <2>7 DEF change
<1> QED
  BY <1>6, <1>7, <1>8, <1>4, <1>5, StoreSteps

\* No stale write, and no interleaving of requests, brings a dead token back.
THEOREM NeverRevived == Spec => NothingRevives
<1>1. IInv /\ IInv' /\ [Next]_vars =>
        [\A t \in Tokens : ~Live(GetRoom, t) /\ Live(GetRoom, t)' =>
           \E c \in Clients : /\ pc[c] = "write"
                              /\ call[c].change.kind \in {"mint", "rebind"}
                              /\ call[c].change.token = t]_vars
  BY NextRevivesNothing
<1> QED
  BY <1>1, Invariance, PTL DEF Spec, NothingRevives

-----------------------------------------------------------------------------
(* mutateRoom implements the contract.                                     *)

\* What a request that gets to a label asks for.
Asks(label, locals) == IF label \in {"read", "write"} THEN locals.change ELSE NoChange

LEMMA StepAsks ==
  ASSUME TypeOK, NEW c \in Clients, NEW label, NEW locals, Step(c, label, locals)
  PROVE  Asked' = [Asked EXCEPT ![c] = Asks(label, locals)]
  BY DEF TypeOK, Step, Asked, Asks

\* A step that leaves the record and the counter alone withdraws a change, brings one
\* up or goes on with the one it has.
LEMMA LocalStepRefines ==
  ASSUME TypeOK, NEW c \in Clients, NEW label, NEW locals, Step(c, label, locals),
         UNCHANGED <<room, counter>>,
         \/ label \notin {"read", "write"}
         \/ pc[c] \notin {"read", "write"} /\ locals.change \in Changes
         \/ pc[c] \in {"read", "write"} /\ locals.change = call[c].change
  PROVE  [Contract!Next]_<<room, counter, Asked>>
<1>1. Asked' = [Asked EXCEPT ![c] = Asks(label, locals)] /\ Asked \in [Clients -> Changes \cup {NoChange}]
  <2>1. Asked \in [Clients -> Changes \cup {NoChange}]
    BY DEF TypeOK, Calls, Asked
  <2> QED
    BY <2>1, StepAsks
<1>2. CASE label \notin {"read", "write"}
  <2>1. Contract!Withdraw(c)
    BY <1>1, <1>2 DEF Contract!Withdraw, Asks
  <2> QED
    BY <2>1 DEF Contract!Next
<1>3. CASE label \in {"read", "write"} /\ pc[c] \notin {"read", "write"} /\ locals.change \in Changes
  <2>1. Asked[c] = NoChange /\ Asks(label, locals) = locals.change
    BY <1>3 DEF Asked, Asks
  <2>2. Contract!Request(c)
    BY <1>1, <1>3, <2>1 DEF Contract!Request, Contract!Ask
  <2> QED
    BY <2>2 DEF Contract!Next
<1>4. CASE label \in {"read", "write"} /\ pc[c] \in {"read", "write"} /\ locals.change = call[c].change
  <2>1. Asks(label, locals) = Asked[c]
    BY <1>4 DEF Asked, Asks
  <2>2. Asked' = Asked
    BY <1>1, <2>1
  <2> QED
    BY <2>2
<1> QED
  BY <1>2, <1>3, <1>4

\* The actions of the whole specification.
LEMMA NextImplementsContract ==
  ASSUME IInv, [Next]_vars
  PROVE  [Contract!Next]_<<room, counter, Asked>>
<1>1. /\ TypeOK /\ room.epoch \in Nat /\ counter \in Nat /\ room.epoch <= counter
      /\ Contract!Effective = counter
  BY CountersGiveEpoch DEF IInv, EpochsOK, Contract!Effective
<1>2. CASE UNCHANGED vars
  BY <1>2 DEF vars, store, Asked
<1>3. ASSUME NEW c \in Clients, NEW d \in Devices, Login(c, d) \/ Claim(c, d) \/ Revoke(c, d)
      PROVE  [Contract!Next]_<<room, counter, Asked>>
  <2>1. \E label \in {"status", "answer", "before"} : \E locals : Step(c, label, locals)
    BY <1>3 DEF Login, Claim, Revoke, Start
  <2>2. UNCHANGED <<room, counter>>
    BY <1>3 DEF Login, Claim, Revoke, store
  <2> QED
    BY <1>1, <2>1, <2>2, LocalStepRefines
<1>4. ASSUME NEW c \in Clients, NEW d \in Devices, Logout(c, d)
      PROVE  [Contract!Next]_<<room, counter, Asked>>
  <2>1. UNCHANGED <<room, counter>> /\ pc[c] = "idle"
    BY <1>4 DEF Logout, Start, store
  <2>2. CASE claim[d] = NoToken
    <3>1. Step(c, "answer", Request(d))
      BY <1>4, <2>2 DEF Logout, Start
    <3> QED
      BY <1>1, <2>1, <3>1, LocalStepRefines
  <2>3. CASE claim[d] # NoToken
    <3> DEFINE locals == [Request(d) EXCEPT !.change = Drop(claim[d])]
    <3>1. Step(c, "read", locals)
      BY <1>4, <2>3 DEF Logout, Start
    <3>2. Drop(claim[d]) \in Changes
      BY <1>1, <2>3 DEF TypeOK, Drop, Changes
    <3>3. locals.change \in Changes
      BY <3>2, RequestFits DEF Calls
    <3> QED
      BY <1>1, <2>1, <3>1, <3>3, LocalStepRefines
  <2> QED
    BY <2>2, <2>3
<1>5. ASSUME NEW c \in Clients, NEW d \in Devices, NEW m \in Modes, ChangeSetting(c, d, m)
      PROVE  [Contract!Next]_<<room, counter, Asked>>
  <2> DEFINE locals == [Request(d) EXCEPT !.change = SetMode(m)]
  <2>1. UNCHANGED <<room, counter>> /\ pc[c] = "idle" /\ Step(c, "read", locals)
    BY <1>5 DEF ChangeSetting, Start, store
  <2>2. SetMode(m) \in Changes
    BY DEF SetMode, Changes
  <2>3. locals.change \in Changes
    BY <2>2, RequestFits DEF Calls
  <2> QED
    BY <1>1, <2>1, <2>3, LocalStepRefines
<1>6. ASSUME NEW c \in Clients, LoginStatus(c) PROVE [Contract!Next]_<<room, counter, Asked>>
  <2>1. UNCHANGED <<room, counter>> /\ pc[c] = "status" /\ call[c] \in Calls
    BY <1>1, <1>6 DEF LoginStatus, store, TypeOK
  <2>2. \A t \in Tokens : [call[c] EXCEPT !.change = Mint(t, FALSE)].change \in Changes
    BY <2>1 DEF Calls, Mint, Changes
  <2>3. \/ Step(c, "answer", [call[c] EXCEPT !.claim = call[c].token])
        \/ \E t \in Tokens : Step(c, "read", [call[c] EXCEPT !.change = Mint(t, FALSE)])
    BY <1>6 DEF LoginStatus
  <2> QED
    BY <1>1, <2>1, <2>2, <2>3, LocalStepRefines
<1>7. ASSUME NEW c \in Clients, RevokeBefore(c) \/ GiveUp(c) \/ Answer(c)
      PROVE  [Contract!Next]_<<room, counter, Asked>>
  <2>1. \E label \in {"idle", "bump", "last", "answer"} : \E locals : Step(c, label, locals)
    <3>1. CASE RevokeBefore(c)
      BY <3>1 DEF RevokeBefore, Return
    <3>2. CASE GiveUp(c)
      <4>1. call[c].change.kind \in {"mint", "drop", "rebind", "mode"}
        BY <3>2 DEF GiveUp, IInv, CallsOK, Fits, Changes
      <4> QED
        BY <3>2, <4>1 DEF GiveUp, Return
    <3>3. CASE Answer(c)
      BY <3>3 DEF Answer, Return
    <3> QED
      BY <1>7, <3>1, <3>2, <3>3
  <2>2. UNCHANGED <<room, counter>>
    BY <1>7 DEF RevokeBefore, GiveUp, Answer, store
  <2> QED
    BY <1>1, <2>1, <2>2, LocalStepRefines
<1>8. ASSUME NEW c \in Clients, LastRead(c) PROVE [Contract!Next]_<<room, counter, Asked>>
  <2>0. \E t \in Tokens :
          Step(c, "read", [call[c] EXCEPT !.session = Larger(call[c].session, Effective),
                                          !.change = Mint(t, TRUE), !.tries = 0])
    BY <1>8, Zenon DEF LastRead
  <2>1. UNCHANGED <<room, counter>> /\ pc[c] = "last" /\ call[c] \in Calls
    <3>1. UNCHANGED store /\ pc[c] = "last"
      BY <1>8, Zenon DEF LastRead
    <3> QED
      BY <1>1, <3>1 DEF store, TypeOK
  <2>2. \A t \in Tokens : [call[c] EXCEPT !.session = Larger(call[c].session, Effective),
                                          !.change = Mint(t, TRUE), !.tries = 0].change \in Changes
    <3>1. \A t \in Tokens : Mint(t, TRUE) \in Changes
      BY DEF Mint, Changes
    <3> QED
      BY <2>1, <3>1 DEF Calls
  <2> QED
    BY <1>1, <2>0, <2>1, <2>2, LocalStepRefines
<1>9. ASSUME NEW c \in Clients, ReadRoom(c) \/ Retry(c)
      PROVE  [Contract!Next]_<<room, counter, Asked>>
  <2>1. UNCHANGED <<room, counter>> /\ pc[c] \in {"read", "write"} /\ call[c] \in Calls
    BY <1>1, <1>9 DEF ReadRoom, Retry, store, TypeOK
  <2>2. [call[c] EXCEPT !.seen = GetRoom, !.seenRev = rev].change = call[c].change
    BY <2>1 DEF Calls
  <2>3. [Forget(call[c]) EXCEPT !.tries = Forget(call[c]).tries + 1].change = call[c].change
    BY <2>1, ForgetFits DEF Calls
  <2>4. \/ Step(c, "write", [call[c] EXCEPT !.seen = GetRoom, !.seenRev = rev])
        \/ Step(c, "answer", call[c])
        \/ Step(c, "read", [Forget(call[c]) EXCEPT !.tries = Forget(call[c]).tries + 1])
    BY <1>9 DEF ReadRoom, Retry
  <2> QED
    BY <1>1, <2>1, <2>2, <2>3, <2>4, LocalStepRefines
<1>10. ASSUME NEW c \in Clients, Bump(c) PROVE Contract!Revoke(c)
  <2> DEFINE locals == [call[c] EXCEPT !.session = counter']
  <2>1. /\ Step(c, "read", locals) /\ pc[c] = "bump" /\ call[c] \in Calls
    BY <1>1, <1>10 DEF Bump, TypeOK
  <2>2. locals.change = call[c].change /\ call[c].change \in Changes
    <3>1. Fits(pc[c], call[c])
      BY DEF IInv, CallsOK
    <3>2. call[c].change # NoChange
      BY <2>1, <3>1 DEF Fits, NoChange
    <3> QED
      BY <2>1, <3>2 DEF Calls
  <2> HIDE DEF locals
  <2>3. Asked' = [Asked EXCEPT ![c] = call[c].change]
    <3>1. Asks("read", locals) = call[c].change
      BY <2>2 DEF Asks
    <3>2. Asked' = [Asked EXCEPT ![c] = Asks("read", locals)]
      BY <1>1, <2>1, StepAsks
    <3> QED
      BY <3>1, <3>2
  <2>4. Asked[c] = NoChange
    BY <2>1 DEF Asked
  <2>5. counter' \in Nat /\ counter' > counter /\ room' = room
    BY <1>10, BumpKeepsInv
  <2>6. Asked'[c] = call[c].change
    BY <2>3 DEF Asked
  <2> QED
    BY <1>1, <2>2, <2>3, <2>4, <2>5, <2>6 DEF Contract!Revoke, Contract!Ask
<1>11. ASSUME NEW c \in Clients, WriteRoom(c)
       PROVE  \E epoch \in room.epoch..Contract!Effective : Contract!Commit(c, epoch)
  <2>1. /\ UNCHANGED counter /\ pc[c] = "write" /\ call[c].change \in Changes
        /\ call[c].seen \in Rooms /\ call[c].seen = [room EXCEPT !.epoch = call[c].seen.epoch]
        /\ room.epoch <= call[c].seen.epoch /\ call[c].seen.epoch <= counter
        /\ room' = Changed(call[c].change, call[c].seen)
        /\ pc'[c] \in {"idle", "answer"}
        /\ \A d \in Clients \ {c} : pc'[d] = pc[d] /\ call'[d] = call[d]
    BY <1>11, WriteRoomKeepsInv
  <2>2. call[c].seen.epoch \in room.epoch..Contract!Effective
    BY <1>1, <2>1 DEF Rooms
  <2>3. Asked[c] = call[c].change /\ call[c].change # NoChange
    BY <2>1 DEF Asked, Changes, NoChange
  <2>4. Asked' = [Asked EXCEPT ![c] = NoChange]
    BY <2>1 DEF Asked
  <2>5. Contract!Commit(c, call[c].seen.epoch)
    BY <2>1, <2>3, <2>4 DEF Contract!Commit
  <2> QED
    BY <2>2, <2>5
<1> QED
  BY <1>2, <1>3, <1>4, <1>5, <1>6, <1>7, <1>8, <1>9, <1>10, <1>11 DEF Next, Contract!Next

\* mutateRoom's read, compute, compare-and-set, over a record whose epoch counter lives
\* in a key of its own, makes every change to the latest record in one step.
THEOREM Refinement == Spec => ImplementsContract
<1>1. Init => Contract!Init
  <2> SUFFICES ASSUME Init PROVE Contract!Init
    OBVIOUS
  <2>1. room \in Rooms /\ counter = 0
    BY InitInv DEF Init, IInv, TypeOK
  <2>2. Asked = [c \in Clients |-> NoChange]
    BY DEF Init, Asked
  <2> QED
    BY <2>1, <2>2 DEF Contract!Init
<1>2. IInv /\ [Next]_vars => [Contract!Next]_<<room, counter, Asked>>
  BY NextImplementsContract
<1> QED
  BY <1>1, <1>2, Invariance, PTL DEF Spec, ImplementsContract, Contract!Spec

-----------------------------------------------------------------------------
(* The cap.                                                                *)

\* The newest n items are n at most: each has a different number of wanted items
\* after it.
LEMMA NewestBound ==
  ASSUME NEW S, NEW s \in Seq(S), NEW T, NEW n \in Nat
  PROVE  IsFiniteSet(Newest(s, T, n)) /\ Cardinality(Newest(s, T, n)) <= n
<1> DEFINE above(i) == {j \in (i + 1)..Len(s) : s[j] \in T}
           at == {i \in 1..Len(s) : s[i] \in T /\ Cardinality(above(i)) < n}
           f == [i \in at |-> Cardinality(above(i)) + 1]
           g == [i \in at |-> s[i]]
<1>1. Len(s) \in Nat
  OBVIOUS
<1>2. \A i \in 1..Len(s) : IsFiniteSet(above(i)) /\ Cardinality(above(i)) \in Nat
  <2> TAKE i \in 1..Len(s)
  <2>1. IsFiniteSet((i + 1)..Len(s)) /\ above(i) \in SUBSET ((i + 1)..Len(s))
    BY <1>1, FS_Interval
  <2> HIDE DEF above
  <2> QED
    BY <2>1, FS_Subset, FS_CardinalityType
<1>3. \A i, j \in at : i < j => Cardinality(above(j)) < Cardinality(above(i))
  <2> TAKE i, j \in at
  <2> HAVE i < j
  <2>1. i \in 1..Len(s) /\ j \in 1..Len(s) /\ s[j] \in T
    OBVIOUS
  <2>2. above(j) \in SUBSET above(i) /\ j \in above(i) /\ j \notin above(j)
    BY <1>1, <2>1
  <2> HIDE DEF above, at
  <2>3. /\ Cardinality(above(j)) <= Cardinality(above(i))
        /\ Cardinality(above(i)) = Cardinality(above(j)) => above(i) = above(j)
    BY <1>2, <2>1, <2>2, FS_Subset, Zenon
  <2> QED
    BY <1>2, <2>1, <2>2, <2>3
<1> HIDE DEF above
<1>4. f \in Injection(at, 1..n)
  <2>1. f \in [at -> 1..n]
    BY <1>2
  <2>2. ASSUME NEW i \in at, NEW j \in at, f[i] = f[j] PROVE i = j
    <3>1. Cardinality(above(i)) = Cardinality(above(j))
      BY <1>2, <2>2
    <3>2. ~(i < j) /\ ~(j < i)
      BY <1>2, <1>3, <3>1
    <3> QED
      BY <3>2
  <2> QED
    BY <2>1, <2>2 DEF Injection, IsInjective
<1>5. IsFiniteSet(at) /\ Cardinality(at) <= n /\ Cardinality(at) \in Nat
  <2> HIDE DEF f, at
  <2>1. IsFiniteSet(1..n) /\ Cardinality(1..n) = n
    BY FS_Interval
  <2> QED
    BY <1>4, <2>1, FS_Injection, FS_CardinalityType
<1>6. g \in Surjection(at, Newest(s, T, n))
  BY DEF Surjection, Newest, above
<1> HIDE DEF g, at
<1>7. /\ IsFiniteSet(Newest(s, T, n))
      /\ Cardinality(Newest(s, T, n)) <= Cardinality(at)
  BY <1>5, <1>6, FS_Surjection
<1> QED
  BY <1>5, <1>7, FS_CardinalityType

\* A capped list without duplicates holds no more than it may, and the owner's token
\* if it was there.
LEMMA CapBound ==
  ASSUME NEW s \in Seq(Tokens), NEW owner, IsInjective(s)
  PROVE  /\ IsInjective(CapClaimHashes(s, owner))
         /\ Len(CapClaimHashes(s, owner)) <= MAX_CLAIM_TOKENS
         /\ owner \in Range(s) => owner \in Range(CapClaimHashes(s, owner))
<1> DEFINE pinned == {owner} \cap Range(s)
           free == MAX_CLAIM_TOKENS - Cardinality(pinned)
           others == Newest(s, Range(s) \ pinned, free)
           kept == Kept(s, pinned \cup others)
<1>1. CASE Len(s) <= MAX_CLAIM_TOKENS
  BY <1>1 DEF CapClaimHashes
<1>2. CASE ~(Len(s) <= MAX_CLAIM_TOKENS)
  <2>1. CapClaimHashes(s, owner) = kept
    BY <1>2 DEF CapClaimHashes
  <2>2. IsFiniteSet(pinned) /\ Cardinality(pinned) \in Nat /\ Cardinality(pinned) <= 1
    <3>1. IsFiniteSet({owner}) /\ Cardinality({owner}) = 1 /\ pinned \in SUBSET {owner}
      BY FS_Singleton
    <3> HIDE DEF pinned
    <3> QED
      BY <3>1, FS_Subset, FS_CardinalityType
  <2>3. free \in Nat
    BY <2>2, MaxClaimTokensAssumption
  <2> HIDE DEF pinned, free
  <2>4. IsFiniteSet(others) /\ Cardinality(others) <= free
    BY <2>3, NewestBound
  <2> HIDE DEF others
  <2>5. /\ kept \in Seq(Tokens) /\ IsInjective(kept)
        /\ Range(kept) = Range(s) \cap (pinned \cup others)
    BY KeptProperties
  <2> HIDE DEF kept
  <2>6. /\ IsFiniteSet(pinned \cup others)
        /\ Cardinality(pinned \cup others) <= MAX_CLAIM_TOKENS
    <3>1. /\ IsFiniteSet(pinned \cup others)
          /\ Cardinality(pinned \cup others)
               = Cardinality(pinned) + Cardinality(others) - Cardinality(pinned \cap others)
      BY <2>2, <2>4, FS_Union, Zenon
    <3>2. /\ Cardinality(others) \in Nat /\ IsFiniteSet(pinned \cap others)
          /\ Cardinality(pinned \cap others) \in Nat
      BY <2>2, <2>4, FS_CardinalityType, FS_Intersection
    <3> QED
      BY <2>2, <2>3, <2>4, <3>1, <3>2, MaxClaimTokensAssumption DEF free
  <2>7. Cardinality(Range(kept)) <= MAX_CLAIM_TOKENS
    <3>1. Range(kept) \in SUBSET (pinned \cup others)
      BY <2>5
    <3>2. /\ Cardinality(Range(kept)) <= Cardinality(pinned \cup others)
          /\ Cardinality(Range(kept)) \in Nat /\ Cardinality(pinned \cup others) \in Nat
      BY <2>6, <3>1, FS_Subset, FS_CardinalityType
    <3> QED
      BY <2>6, <3>2, MaxClaimTokensAssumption
  <2>8. Cardinality(Range(kept)) = Len(kept)
    BY <2>5, InjectiveLen
  <2>9. owner \in Range(s) => owner \in Range(kept)
    BY <2>5 DEF pinned
  <2> QED
    BY <2>1, <2>5, <2>7, <2>8, <2>9
<1> QED
  BY <1>1, <1>2

\* A room that holds no more devices than it may.
Bounded(r) == IsInjective(r.hashes) /\ Len(r.hashes) <= MAX_CLAIM_TOKENS

\* A new token's mint keeps the bound and does not take the pin from an owner whose
\* token is live.
LEMMA MintKeepsBound ==
  ASSUME NEW r \in Rooms, NEW t \in Tokens, NEW o \in BOOLEAN,
         IsInjective(r.hashes), t \notin Range(r.hashes)
  PROVE  /\ Bounded(Minted(r, t, o))
         /\ Range(Minted(r, t, o).hashes) \subseteq Range(r.hashes) \cup {t}
         /\ Minted(r, t, o).owner \in {r.owner, NoToken} \cup (IF o THEN {t} ELSE {})
         /\ \A u \in Tokens : ~o /\ IsOwner(r, u) => IsOwner(Minted(r, t, o), u)
         /\ o => IsOwner(Minted(r, t, o), t)
<1> DEFINE base == IF ClaimListIsLive(r) THEN r.hashes ELSE <<>>
           owner == IF o THEN t ELSE IF ClaimListIsLive(r) THEN r.owner ELSE NoToken
           list == Append(base, t)
<1>1. Minted(r, t, o) = [r EXCEPT !.hashes = CapClaimHashes(list, owner),
                                  !.owner = owner, !.tag = r.epoch]
  BY DEF Minted
<1>2. Minted(r, t, o).hashes = CapClaimHashes(list, owner) /\ Minted(r, t, o).owner = owner
      /\ Minted(r, t, o).tag = r.epoch /\ Minted(r, t, o).epoch = r.epoch
  BY <1>1 DEF Rooms
<1>3. /\ base \in Seq(Tokens) /\ IsInjective(base) /\ Range(base) \subseteq Range(r.hashes)
      /\ r.hashes \in Seq(Tokens) /\ owner \in {r.owner, NoToken} \cup (IF o THEN {t} ELSE {})
  <2>1. <<>> \in Seq(Tokens) /\ IsInjective(<<>>) /\ Range(<<>>) = {}
    BY DEF IsInjective, Range
  <2> QED
    BY <2>1 DEF Rooms
<1>4. /\ \A u \in Tokens : ~o /\ IsOwner(r, u) => owner = u /\ u \in Range(base)
      /\ o => owner = t
  BY DEF IsOwner, Live
<1> HIDE DEF base, owner
<1>5. /\ list \in Seq(Tokens) /\ IsInjective(list) /\ Range(list) = Range(base) \cup {t}
  <2>1. t \notin Range(base)
    BY <1>3
  <2> QED
    BY <1>3, <2>1, AppendProperties
<1> HIDE DEF list
<1>6. /\ IsInjective(CapClaimHashes(list, owner))
      /\ Len(CapClaimHashes(list, owner)) <= MAX_CLAIM_TOKENS
      /\ owner \in Range(list) => owner \in Range(CapClaimHashes(list, owner))
      /\ Range(CapClaimHashes(list, owner)) \subseteq Range(list)
  BY <1>5, CapBound, CapProperties
<1>7. /\ \A u \in Tokens : ~o /\ IsOwner(r, u) => IsOwner(Minted(r, t, o), u)
      /\ o => IsOwner(Minted(r, t, o), t)
  BY <1>2, <1>4, <1>5, <1>6 DEF IsOwner, Live, ClaimListIsLive
<1> QED
  BY <1>2, <1>3, <1>5, <1>6, <1>7 DEF Bounded

LEMMA DropKeepsBound ==
  ASSUME NEW r \in Rooms, NEW t \in Tokens, Bounded(r)
  PROVE  /\ Bounded(Dropped(r, t))
         /\ Range(Dropped(r, t).hashes) \subseteq Range(r.hashes)
         /\ Dropped(r, t).owner \in {r.owner, NoToken}
         /\ \A u \in Tokens \ {t} : IsOwner(r, u) => IsOwner(Dropped(r, t), u)
<1> DEFINE list == Without(r.hashes, t)
<1>1. Dropped(r, t) = [r EXCEPT !.hashes = list,
                                !.owner = IF r.owner = t THEN NoToken ELSE r.owner]
  BY DEF Dropped
<1>2. r.hashes \in Seq(Tokens) /\ IsInjective(r.hashes) /\ Len(r.hashes) <= MAX_CLAIM_TOKENS
  BY DEF Rooms, Bounded
<1>3. list \in Seq(Tokens) /\ IsInjective(list) /\ Range(list) = Range(r.hashes) \ {t}
  BY <1>2, WithoutProperties
<1> HIDE DEF list
<1>4. Len(list) <= Len(r.hashes) /\ Len(list) \in Nat /\ Len(r.hashes) \in Nat
  <2>1. /\ IsFiniteSet(Range(r.hashes)) /\ Cardinality(Range(r.hashes)) = Len(r.hashes)
        /\ Cardinality(Range(list)) = Len(list)
    BY <1>2, <1>3, InjectiveLen
  <2>2. Cardinality(Range(list)) <= Cardinality(Range(r.hashes))
    BY <1>3, <2>1, FS_Subset
  <2> QED
    BY <1>2, <1>3, <2>1, <2>2
<1>5. /\ Dropped(r, t).hashes = list /\ Dropped(r, t).tag = r.tag /\ Dropped(r, t).epoch = r.epoch
      /\ Dropped(r, t).owner = IF r.owner = t THEN NoToken ELSE r.owner
  BY <1>1 DEF Rooms
<1> QED
  BY <1>2, <1>3, <1>4, <1>5, MaxClaimTokensAssumption DEF Bounded, IsOwner, Live, ClaimListIsLive

LEMMA RebindKeepsBound ==
  ASSUME NEW r \in Rooms, NEW t \in Tokens, NEW before \in Nat, IsInjective(r.hashes)
  PROVE  /\ Bounded(Rebound(r, t, before))
         /\ Range(Rebound(r, t, before).hashes) \subseteq Range(r.hashes) \cup {t}
         /\ IsOwner(Rebound(r, t, before), t)
<1> DEFINE postBump == IF r.epoch > before /\ ClaimListIsLive(r)
                       THEN Without(r.hashes, t) ELSE <<>>
           own == <<t>>
           list == own \o postBump
<1>1. Rebound(r, t, before) = [r EXCEPT !.hashes = CapClaimHashes(list, t), !.owner = t,
                                        !.tag = r.epoch]
  BY DEF Rebound
<1>2. /\ Rebound(r, t, before).hashes = CapClaimHashes(list, t) /\ Rebound(r, t, before).owner = t
      /\ Rebound(r, t, before).tag = r.epoch /\ Rebound(r, t, before).epoch = r.epoch
  BY <1>1 DEF Rooms
<1>3. /\ postBump \in Seq(Tokens) /\ IsInjective(postBump)
      /\ Range(postBump) \subseteq Range(r.hashes) \ {t}
  <2>1. <<>> \in Seq(Tokens) /\ IsInjective(<<>>) /\ Range(<<>>) = {}
    BY DEF IsInjective, Range
  <2>2. /\ Without(r.hashes, t) \in Seq(Tokens) /\ IsInjective(Without(r.hashes, t))
        /\ Range(Without(r.hashes, t)) = Range(r.hashes) \ {t}
    BY WithoutProperties DEF Rooms
  <2> QED
    BY <2>1, <2>2
<1> HIDE DEF postBump
<1>4. own \in Seq(Tokens) /\ Range(own) = {t} /\ IsInjective(own)
  BY DEF Range, IsInjective
<1> HIDE DEF own
<1>5. /\ list \in Seq(Tokens) /\ Range(list) = {t} \cup Range(postBump) /\ IsInjective(list)
  <2>1. Range(own) \cap Range(postBump) = {}
    BY <1>3, <1>4
  <2> QED
    BY <1>3, <1>4, <2>1, ConcatProperties
<1> HIDE DEF list
<1>6. /\ IsInjective(CapClaimHashes(list, t)) /\ Len(CapClaimHashes(list, t)) <= MAX_CLAIM_TOKENS
      /\ t \in Range(CapClaimHashes(list, t))
      /\ Range(CapClaimHashes(list, t)) \subseteq Range(list)
  BY <1>5, CapBound, CapProperties
<1> QED
  BY <1>2, <1>3, <1>5, <1>6 DEF Bounded, IsOwner, Live, ClaimListIsLive

\* Any change keeps the bound, adds no token but its own, and leaves the pin to an
\* owner unless it is the owner's logout or pins another.
LEMMA ChangedKeepsBound ==
  ASSUME NEW change \in Changes, NEW r \in Rooms, Bounded(r),
         change.kind = "mint" => change.token \notin Range(r.hashes)
  PROVE  /\ Bounded(Changed(change, r))
         /\ \A t \in Range(Changed(change, r).hashes) :
              t \in Range(r.hashes) \/ (change.kind \in {"mint", "rebind"} /\ t = change.token)
         /\ change.kind = "mint" /\ ~change.asOwner =>
              /\ Changed(change, r).owner \in {r.owner, NoToken}
              /\ \A u \in Tokens : IsOwner(r, u) => IsOwner(Changed(change, r), u)
         /\ change.kind \in {"drop", "mode"} => Changed(change, r).owner \in {r.owner, NoToken}
         /\ change.kind = "mode" => \A u \in Tokens : IsOwner(r, u) => IsOwner(Changed(change, r), u)
         /\ change.kind = "drop" => \A u \in Tokens \ {change.token} :
                                       IsOwner(r, u) => IsOwner(Changed(change, r), u)
         /\ change.kind = "rebind" => IsOwner(Changed(change, r), change.token)
<1>1. CASE change \in [kind : {"mint"}, token : Tokens, asOwner : BOOLEAN]
  <2>1. change.kind = "mint" /\ change.token \in Tokens /\ change.asOwner \in BOOLEAN
    BY <1>1
  <2>2. Changed(change, r) = Minted(r, change.token, change.asOwner)
    BY <2>1 DEF Changed
  <2>3. /\ Bounded(Minted(r, change.token, change.asOwner))
        /\ Range(Minted(r, change.token, change.asOwner).hashes) \subseteq Range(r.hashes) \cup {change.token}
        /\ Minted(r, change.token, change.asOwner).owner
             \in {r.owner, NoToken} \cup (IF change.asOwner THEN {change.token} ELSE {})
        /\ \A u \in Tokens : ~change.asOwner /\ IsOwner(r, u) =>
             IsOwner(Minted(r, change.token, change.asOwner), u)
    BY <2>1, MintKeepsBound DEF Bounded
  <2> QED
    BY <2>1, <2>2, <2>3
<1>2. CASE change \in [kind : {"drop"}, token : Tokens]
  <2>1. change.kind = "drop" /\ change.token \in Tokens
    BY <1>2
  <2>2. Changed(change, r) = Dropped(r, change.token)
    BY <2>1 DEF Changed
  <2> QED
    BY <2>1, <2>2, DropKeepsBound
<1>3. CASE change \in [kind : {"rebind"}, token : Tokens, before : Nat]
  <2>1. change.kind = "rebind" /\ change.token \in Tokens /\ change.before \in Nat
    BY <1>3
  <2>2. Changed(change, r) = Rebound(r, change.token, change.before)
    BY <2>1 DEF Changed
  <2>3. /\ Bounded(Rebound(r, change.token, change.before))
        /\ Range(Rebound(r, change.token, change.before).hashes) \subseteq Range(r.hashes) \cup {change.token}
        /\ IsOwner(Rebound(r, change.token, change.before), change.token)
    BY <2>1, RebindKeepsBound DEF Bounded
  <2> QED
    BY <2>1, <2>2, <2>3 DEF IsOwner
<1>4. CASE change \in [kind : {"mode"}, mode : Modes]
  <2>1. change.kind = "mode" /\ change.mode \in Modes
    BY <1>4
  <2>2. Changed(change, r) = [r EXCEPT !.mode = change.mode]
    BY <2>1 DEF Changed
  <2> QED
    BY <2>1, <2>2 DEF Rooms, Bounded, IsOwner, Live, ClaimListIsLive
<1> QED
  BY <1>1, <1>2, <1>3, <1>4 DEF Changes

-----------------------------------------------------------------------------
(* The second inductive invariant: who has which token, and who is in.     *)

\* A device has a token in its cookie or in a request of its own.
Holds(d, t) ==
  claim[d] = t \/ \E c \in Clients : call[c].dev = d /\ t \in {call[c].token, call[c].claim}

Minting(c) == pc[c] \in {"read", "write"} /\ call[c].change.kind = "mint"

\* Until it is written a minted token is the secret of its request.
MintsAreFresh ==
  \A c \in Clients : Minting(c) =>
    /\ call[c].change.token \notin Range(room.hashes)
    /\ \A d \in Devices : ~Holds(d, call[c].change.token)
    /\ \A b \in Clients \ {c} : Minting(b) => call[b].change.token # call[c].change.token

OneHolder == \A t \in Tokens : \A d, e \in Devices : Holds(d, t) /\ Holds(e, t) => d = e

\* The host code has been entered, or the epoch bumped by the owner.
Admits(label, locals) ==
  \/ label \in {"status", "last"}
  \/ label \in {"read", "write"} /\ locals.change.kind \in {"mint", "rebind"}

\* No cookie, and no cookie under way, gets anybody in who is not entitled.
AccessOK ==
  /\ \A d \in Devices : session[d] <= counter /\ (session[d] = counter => d \in entitled)
  /\ \A c \in Clients : call[c].session <= counter
                          /\ (call[c].session = counter => call[c].dev \in entitled)
  /\ \A c \in Clients : Admits(pc[c], call[c]) => call[c].dev \in entitled
  /\ \A c \in Clients : pc[c] = "last" => call[c].change.kind = "rebind"
  /\ \A d \in Devices, t \in Tokens : Holds(d, t) /\ Live(GetRoom, t) => d \in entitled

\* The third, of the pin: without a lost write only the first token is ever pinned, and a
\* snapshot that missed a bump but no write is followed by that revocation's rebind.
Rebinds(label, locals) == label \in {"read", "write"} /\ locals.change.kind = "rebind"

OnlyTheOwner ==
  /\ room.owner \in {FirstToken, NoToken}
  /\ \A c \in Clients : /\ pc[c] # "last"
                        /\ call[c].change.kind = "mint" => ~call[c].change.asOwner
                        /\ call[c].change.kind = "rebind" => call[c].change.token = FirstToken

StaleIsRebound ==
  \A c \in Clients : pc[c] = "write" /\ call[c].seenRev = rev /\ call[c].seen.epoch # counter =>
    \E b \in Clients \ {c} : Rebinds(pc[b], call[b])

TokenInv == MintsAreFresh /\ OneHolder /\ AccessOK
PinInv == Bounded(room) /\ OwnerStaysPinned /\ (~gaveUp => OnlyTheOwner /\ StaleIsRebound)
SInv == IInv /\ TokenInv /\ PinInv

\* What a step that leaves the store alone may make of a request: it keeps to tokens and
\* sessions that the device has, or takes a session that it is entitled to, or a fresh
\* token.
Goes(c, label, locals) ==
  /\ \A t \in {locals.token, locals.claim} : t = NoToken \/ Holds(locals.dev, t)
  /\ locals.session <= counter /\ (locals.session = counter => locals.dev \in entitled')
  /\ Admits(label, locals) => locals.dev \in entitled'
  /\ label = "last" => locals.change.kind = "rebind"
  /\ label \in {"read", "write"} /\ locals.change.kind = "mint" =>
       \/ Minting(c) /\ locals.change = call[c].change
       \/ Fresh(locals.change.token)

\* And, as long as no write has lost all its attempts, a revocation goes on to its rebind
\* and nothing but the first token is pinned.
KeepsPin(c, label, locals) ==
  ~gaveUp' =>
    /\ label # "last"
    /\ locals.change.kind = "mint" => ~locals.change.asOwner
    /\ locals.change.kind = "rebind" => locals.change.token = FirstToken
    /\ label = "write" => locals.seen.epoch = counter
    /\ Rebinds(pc[c], call[c]) => Rebinds(label, locals)

LEMMA LocalStepKeepsTokens ==
  ASSUME SInv, NEW c \in Clients, NEW label \in Labels, NEW locals \in Calls,
         Step(c, label, locals), Goes(c, label, locals), UNCHANGED store,
         entitled \subseteq entitled',
         \A d \in Devices : claim'[d] = NoToken \/ Holds(d, claim'[d]),
         \A d \in Devices : session'[d] <= counter /\ (session'[d] = counter => d \in entitled')
  PROVE  TokenInv'
<1>1. TypeOK /\ TokenInv /\ UNCHANGED <<room, rev, counter, GetRoom>>
  BY DEF SInv, IInv, store, GetRoom
<1>2. /\ pc' \in [Clients -> Labels] /\ pc'[c] = label
      /\ call' \in [Clients -> Calls] /\ call'[c] = locals
      /\ \A d \in Clients \ {c} : pc'[d] = pc[d] /\ call'[d] = call[d]
  BY <1>1, StepProperties
<1>3. \A d \in Devices, t \in Tokens : Holds(d, t)' => Holds(d, t)
  <2> SUFFICES ASSUME NEW d \in Devices, NEW t \in Tokens, Holds(d, t)' PROVE Holds(d, t)
    OBVIOUS
  <2>1. CASE claim'[d] = t
    BY <2>1, NoTokenAssumption
  <2>2. ASSUME NEW b \in Clients, call'[b].dev = d, t \in {call'[b].token, call'[b].claim}
        PROVE  Holds(d, t)
    <3>1. CASE b = c
      BY <1>2, <2>2, <3>1, NoTokenAssumption DEF Goes
    <3>2. CASE b # c
      BY <1>2, <2>2, <3>2 DEF Holds
    <3> QED
      BY <3>1, <3>2
  <2> QED
    BY <2>1, <2>2 DEF Holds
<1>4. \A b \in Clients \ {c} : Minting(b)' => Minting(b) /\ call'[b] = call[b]
  BY <1>2 DEF Minting
<1>5. MintsAreFresh'
  <2> SUFFICES ASSUME NEW b \in Clients, Minting(b)'
               PROVE  /\ call'[b].change.token \notin Range(room.hashes)
                      /\ \A d \in Devices : ~Holds(d, call'[b].change.token)
                      /\ \A a \in Clients \ {b} : Minting(a)' =>
                           call'[a].change.token # call'[b].change.token
                      /\ call'[b].change.token \in Tokens
    BY <1>1, <1>3 DEF MintsAreFresh
  <2>1. \A a \in Clients : Minting(a)' => call'[a].change.token \in Tokens
    BY <1>2 DEF Minting, Calls, Changes, NoChange
  <2>2. \A a \in Clients : Minting(a)' =>
          \/ Minting(a) /\ call'[a].change = call[a].change
          \/ a = c /\ Fresh(call'[a].change.token)
    BY <1>2, <1>4 DEF Goes, Minting
  <2>3. \A t \in Tokens : Fresh(t) =>
          /\ t \notin Range(room.hashes)
          /\ \A d \in Devices : ~Holds(d, t)
          /\ \A a \in Clients : Minting(a) => call[a].change.token # t
    BY DEF Fresh, Holds, Minting
  <2>4. CASE Minting(b) /\ call'[b].change = call[b].change
    BY <1>1, <2>1, <2>2, <2>3, <2>4 DEF TokenInv, MintsAreFresh
  <2>5. CASE b = c /\ Fresh(call'[b].change.token)
    BY <1>4, <2>1, <2>3, <2>5
  <2> QED
    BY <2>2, <2>4, <2>5
<1>6. OneHolder'
  BY <1>1, <1>3 DEF TokenInv, OneHolder
<1>7. AccessOK'
  <2>1. \A b \in Clients : /\ call'[b].session <= counter
                          /\ (call'[b].session = counter => call'[b].dev \in entitled')
    BY <1>1, <1>2 DEF TokenInv, AccessOK, Goes
  <2>2. \A b \in Clients : Admits(pc'[b], call'[b]) => call'[b].dev \in entitled'
    BY <1>1, <1>2 DEF TokenInv, AccessOK, Goes
  <2>3. \A d \in Devices, t \in Tokens : Holds(d, t)' /\ Live(GetRoom, t) => d \in entitled'
    BY <1>1, <1>3 DEF TokenInv, AccessOK
  <2>4. \A b \in Clients : pc'[b] = "last" => call'[b].change.kind = "rebind"
    BY <1>1, <1>2 DEF TokenInv, AccessOK, Goes
  <2> QED
    BY <1>1, <2>1, <2>2, <2>3, <2>4 DEF AccessOK
<1> QED
  BY <1>5, <1>6, <1>7 DEF TokenInv

LEMMA LocalStepKeepsPin ==
  ASSUME SInv, NEW c \in Clients, NEW label \in Labels, NEW locals \in Calls,
         Step(c, label, locals), KeepsPin(c, label, locals),
         UNCHANGED <<store, loggedOut>>, gaveUp => gaveUp'
  PROVE  PinInv'
<1>1. TypeOK /\ PinInv /\ UNCHANGED <<room, rev, counter, GetRoom>>
  BY DEF SInv, IInv, store, GetRoom
<1>2. /\ pc'[c] = label /\ call'[c] = locals
      /\ \A d \in Clients \ {c} : pc'[d] = pc[d] /\ call'[d] = call[d]
  BY <1>1, StepProperties
<1>3. \A b \in Clients : Rebinds(pc[b], call[b]) => gaveUp' \/ Rebinds(pc'[b], call'[b])
  BY <1>2 DEF KeepsPin
<1>4. Bounded(room')
  BY <1>1 DEF PinInv
<1>5. OwnerStaysPinned'
  <2>1. Rebinding => gaveUp' \/ Rebinding'
    BY <1>3 DEF Rebinding, Rebinds
  <2> QED
    BY <1>1, <2>1 DEF PinInv, OwnerStaysPinned
<1>6. ASSUME ~gaveUp' PROVE OnlyTheOwner' /\ StaleIsRebound'
  <2>1. OnlyTheOwner /\ StaleIsRebound /\ ~gaveUp
    BY <1>1, <1>6 DEF PinInv
  <2>2. OnlyTheOwner'
    BY <1>1, <1>2, <1>6, <2>1 DEF OnlyTheOwner, KeepsPin
  <2>3. ASSUME NEW b \in Clients, pc'[b] = "write", call'[b].seenRev = rev, call'[b].seen.epoch # counter
        PROVE  \E a \in Clients \ {b} : Rebinds(pc'[a], call'[a])
    <3>1. b # c
      BY <1>2, <1>6, <2>3 DEF KeepsPin
    <3>2. pc[b] = "write" /\ call[b].seenRev = rev /\ call[b].seen.epoch # counter
      BY <1>2, <2>3, <3>1
    <3>3. PICK a \in Clients \ {b} : Rebinds(pc[a], call[a])
      BY <2>1, <3>2 DEF StaleIsRebound
    <3> QED
      BY <1>3, <1>6, <3>3
  <2> QED
    BY <1>1, <2>2, <2>3 DEF StaleIsRebound
<1> QED
  BY <1>4, <1>5, <1>6 DEF PinInv

\* Both, for a step that leaves the store and the history alone but for who is entitled.
LEMMA LocalStepKeepsSInv ==
  ASSUME SInv, [Next]_vars, NEW c \in Clients, NEW label \in Labels, NEW locals \in Calls,
         Step(c, label, locals), Goes(c, label, locals), KeepsPin(c, label, locals),
         UNCHANGED <<store, loggedOut>>, gaveUp => gaveUp', entitled \subseteq entitled',
         \/ UNCHANGED cookies
         \/ SetCookies(call[c].dev, call[c])
  PROVE  SInv'
<1>1. IInv' /\ TypeOK /\ AccessOK
  BY NextInv DEF SInv, IInv, TokenInv
<1>2. \A d \in Devices : claim'[d] = NoToken \/ Holds(d, claim'[d])
  BY <1>1 DEF Holds, SetCookies, cookies, TypeOK
<1>3. \A d \in Devices : session'[d] <= counter /\ (session'[d] = counter => d \in entitled')
  <2>1. counter \in Nat
    BY <1>1 DEF TypeOK
  <2> QED
    BY <1>1, <2>1 DEF AccessOK, SetCookies, cookies, TypeOK, NoSession
<1>4. TokenInv' /\ PinInv'
  BY <1>2, <1>3, LocalStepKeepsTokens, LocalStepKeepsPin
<1> QED
  BY <1>1, <1>4 DEF SInv

LEMMA RequestGoes ==
  ASSUME SInv, NEW d \in Devices
  PROVE  /\ Request(d) \in Calls /\ Request(d).dev = d /\ Request(d).token = claim[d]
         /\ Request(d).claim = NoToken /\ Request(d).session = NoSession
         /\ Request(d).change = NoChange /\ claim[d] \in Tokens \cup {NoToken}
         /\ Holds(d, claim[d]) /\ counter \in Nat /\ Effective = counter
<1>1. TypeOK /\ Request(d) \in Calls /\ Effective = counter
  BY RequestFits, CountersGiveEpoch DEF SInv, IInv
<1>2. /\ Request(d).dev = d /\ Request(d).token = claim[d] /\ Request(d).claim = NoToken
      /\ Request(d).session = NoSession /\ Request(d).change = NoChange
  BY DEF Request, NoCall
<1> QED
  BY <1>1, <1>2 DEF TypeOK, Holds

\* Requests come in.
LEMMA StartsKeepSInv ==
  ASSUME SInv, [Next]_vars, NEW c \in Clients, NEW d \in Devices,
         Login(c, d) \/ Claim(c, d) \/ Logout(c, d) \/ Revoke(c, d)
           \/ \E m \in Modes : ChangeSetting(c, d, m)
  PROVE  SInv'
<1>1. /\ Request(d) \in Calls /\ Request(d).dev = d /\ Request(d).token = claim[d]
      /\ Request(d).claim = NoToken /\ Request(d).session = NoSession
      /\ Request(d).change = NoChange /\ claim[d] \in Tokens \cup {NoToken}
      /\ Holds(d, claim[d]) /\ counter \in Nat /\ Effective = counter
  BY RequestGoes
<1>2. ASSUME pc[c] = "idle", UNCHANGED <<store, cookies, history>>,
             NEW label \in Labels, NEW locals \in Calls, Step(c, label, locals),
             Goes(c, label, locals), KeepsPin(c, label, locals)
      PROVE  SInv'
  BY <1>2, LocalStepKeepsSInv DEF history
<1>3. CASE Login(c, d)
  <2> DEFINE locals == [Request(d) EXCEPT !.session = Effective]
  <2>1. /\ locals \in Calls /\ locals.dev = d /\ locals.token = claim[d] /\ locals.claim = NoToken
        /\ locals.session = counter /\ locals.change = NoChange
    BY <1>1 DEF Calls
  <2> HIDE DEF locals
  <2>2. /\ Step(c, "status", locals) /\ UNCHANGED <<store, cookies, loggedOut, gaveUp>>
        /\ entitled' = entitled \cup {d} /\ pc[c] = "idle"
    BY <1>3 DEF Login, Start, locals
  <2>3. Goes(c, "status", locals)
    BY <1>1, <2>1, <2>2 DEF Goes, NoChange
  <2>4. KeepsPin(c, "status", locals)
    BY <2>1, <2>2 DEF KeepsPin, Rebinds, NoChange
  <2> QED
    BY <2>1, <2>2, <2>3, <2>4, LocalStepKeepsSInv DEF Labels
<1>4. CASE Claim(c, d)
  <2> DEFINE locals == [Request(d) EXCEPT !.session = Effective, !.claim = claim[d]]
  <2>1. /\ locals \in Calls /\ locals.dev = d /\ locals.token = claim[d] /\ locals.claim = claim[d]
        /\ locals.session = counter /\ locals.change = NoChange
    BY <1>1 DEF Calls
  <2> HIDE DEF locals
  <2>2. Step(c, "answer", locals) /\ UNCHANGED <<store, cookies, history>> /\ pc[c] = "idle"
        /\ Live(GetRoom, claim[d])
    BY <1>4 DEF Claim, Start, locals
  <2>3. d \in entitled /\ entitled' = entitled
    <3>1. AccessOK /\ claim[d] \in Tokens
      <4>1. GetRoom \in Rooms
        BY CountersGiveEpoch DEF SInv
      <4> QED
        BY <1>1, <2>2, <4>1 DEF SInv, TokenInv, Live, Range, Rooms
    <3> QED
      BY <1>1, <2>2, <3>1 DEF AccessOK, history
  <2>4. Goes(c, "answer", locals)
    BY <1>1, <2>1, <2>3 DEF Goes, NoChange, Admits
  <2>5. KeepsPin(c, "answer", locals)
    BY <2>1, <2>2 DEF KeepsPin, Rebinds, NoChange
  <2> QED
    BY <1>2, <2>1, <2>2, <2>4, <2>5 DEF Labels
<1>5. ASSUME UNCHANGED <<store, cookies, history>>, pc[c] = "idle",
             NEW label \in Labels, NEW locals \in Calls, Step(c, label, locals),
             locals.dev = d, locals.token = claim[d], locals.claim = NoToken,
             locals.session = NoSession,
             \/ label \in {"answer", "before"} /\ locals.change = NoChange
             \/ label = "read" /\ locals.change.kind \in {"drop", "mode"}
      PROVE  SInv'
  <2>1. Goes(c, label, locals)
    BY <1>1, <1>5 DEF Goes, NoChange, NoSession, Admits
  <2>2. KeepsPin(c, label, locals)
    BY <1>5 DEF KeepsPin, Rebinds, NoChange
  <2> QED
    BY <1>2, <1>5, <2>1, <2>2
<1>6. CASE Logout(c, d)
  <2>1. UNCHANGED <<store, cookies, history>> /\ pc[c] = "idle"
    BY <1>6 DEF Logout, Start
  <2>2. CASE claim[d] = NoToken
    <3>1. Step(c, "answer", Request(d))
      BY <1>6, <2>2 DEF Logout, Start
    <3> QED
      BY <1>1, <1>5, <2>1, <3>1 DEF Labels
  <2>3. CASE claim[d] # NoToken
    <3> DEFINE locals == [Request(d) EXCEPT !.change = Drop(claim[d])]
    <3>1. Drop(claim[d]) \in Changes /\ Drop(claim[d]).kind = "drop"
      BY <1>1, <2>3 DEF Drop, Changes
    <3>2. /\ locals \in Calls /\ locals.dev = d /\ locals.token = claim[d] /\ locals.claim = NoToken
          /\ locals.session = NoSession /\ locals.change.kind = "drop"
      BY <1>1, <3>1 DEF Calls
    <3>3. Step(c, "read", locals)
      BY <1>6, <2>3 DEF Logout, Start
    <3> QED
      BY <1>5, <2>1, <3>2, <3>3 DEF Labels
  <2> QED
    BY <2>2, <2>3
<1>7. CASE Revoke(c, d)
  <2>1. UNCHANGED <<store, cookies, history>> /\ pc[c] = "idle" /\ Step(c, "before", Request(d))
    BY <1>7 DEF Revoke, Start
  <2> QED
    BY <1>1, <1>5, <2>1 DEF Labels
<1>8. ASSUME NEW m \in Modes, ChangeSetting(c, d, m) PROVE SInv'
  <2> DEFINE locals == [Request(d) EXCEPT !.change = SetMode(m)]
  <2>1. SetMode(m) \in Changes /\ SetMode(m).kind = "mode"
    BY DEF SetMode, Changes
  <2>2. /\ locals \in Calls /\ locals.dev = d /\ locals.token = claim[d] /\ locals.claim = NoToken
        /\ locals.session = NoSession /\ locals.change.kind = "mode"
    BY <1>1, <2>1 DEF Calls
  <2>3. UNCHANGED <<store, cookies, history>> /\ pc[c] = "idle" /\ Step(c, "read", locals)
    BY <1>8 DEF ChangeSetting, Start
  <2> QED
    BY <1>5, <2>2, <2>3 DEF Labels
<1> QED
  BY <1>3, <1>4, <1>6, <1>7, <1>8

\* A request that goes on with what it has.
LEMMA GoesOn ==
  ASSUME SInv, NEW c \in Clients, NEW label, NEW locals, entitled' = entitled,
         locals.dev = call[c].dev, locals.token = call[c].token,
         locals.claim \in {call[c].claim, call[c].token}, locals.session = call[c].session,
         Admits(label, locals) => Admits(pc[c], call[c]),
         label = "last" => locals.change.kind = "rebind",
         label \in {"read", "write"} /\ locals.change.kind = "mint" =>
           \/ Minting(c) /\ locals.change = call[c].change
           \/ Fresh(locals.change.token)
  PROVE  Goes(c, label, locals)
<1>1. AccessOK /\ TypeOK /\ call[c] \in Calls
  BY DEF SInv, TokenInv, IInv, TypeOK
<1>2. \A t \in {call[c].token, call[c].claim} : Holds(call[c].dev, t)
  BY DEF Holds
<1> QED
  BY <1>1, <1>2 DEF Goes, AccessOK

\* The request that is over.
LEMMA ReturnKeepsSInv ==
  ASSUME SInv, [Next]_vars, NEW c \in Clients, Return(c), UNCHANGED <<store, entitled, loggedOut>>,
         gaveUp => gaveUp', gaveUp' \/ ~Rebinds(pc[c], call[c]),
         UNCHANGED cookies \/ SetCookies(call[c].dev, call[c])
  PROVE  SInv'
<1>1. /\ NoCall \in Calls /\ counter \in Nat
  BY NoCallFits DEF SInv, IInv, TypeOK
<1>2. Goes(c, "idle", NoCall)
  BY <1>1 DEF Goes, NoCall, NoSession, Admits
<1>3. KeepsPin(c, "idle", NoCall)
  BY DEF KeepsPin, NoCall, NoChange
<1> QED
  BY <1>1, <1>2, <1>3, LocalStepKeepsSInv DEF Return, Labels

\* Requests that read, decide or answer.
LEMMA LocalStepsKeepSInv ==
  ASSUME SInv, [Next]_vars, NEW c \in Clients,
         LoginStatus(c) \/ RevokeBefore(c) \/ LastRead(c) \/ ReadRoom(c) \/ Retry(c)
           \/ GiveUp(c) \/ Answer(c)
  PROVE  SInv'
<1>1. /\ TypeOK /\ IInv /\ AccessOK /\ call[c] \in Calls /\ Fits(pc[c], call[c]) /\ rev \in Nat
      /\ call[c].dev \in Devices /\ call[c].token \in Tokens \cup {NoToken}
      /\ call[c].session \in Nat \cup {NoSession} /\ call[c].claim \in Tokens \cup {NoToken}
      /\ call[c].tries \in 0..(ROOM_WRITE_ATTEMPTS - 1)
  BY DEF SInv, TokenInv, IInv, TypeOK, CallsOK, Calls
<1>2. /\ GetRoom \in Rooms /\ Effective = counter /\ GetRoom = [room EXCEPT !.epoch = counter]
      /\ counter \in Nat /\ room \in Rooms /\ GetRoom.epoch = counter
  BY <1>1, CountersGiveEpoch DEF TypeOK, Effective
<1>3. ~gaveUp => OnlyTheOwner
  BY DEF SInv, PinInv
<1>4. CASE LoginStatus(c)
  <2>1. UNCHANGED <<store, cookies, entitled, loggedOut, gaveUp>> /\ pc[c] = "status"
    BY <1>4 DEF LoginStatus, history
  <2>2. CASE Step(c, "answer", [call[c] EXCEPT !.claim = call[c].token])
    <3> DEFINE locals == [call[c] EXCEPT !.claim = call[c].token]
    <3>1. /\ locals \in Calls /\ locals.dev = call[c].dev /\ locals.token = call[c].token
          /\ locals.claim = call[c].token /\ locals.session = call[c].session
          /\ locals.change = call[c].change
      BY <1>1 DEF Calls
    <3> HIDE DEF locals
    <3>2. Goes(c, "answer", locals)
      BY <2>1, <3>1, GoesOn DEF Admits
    <3>3. KeepsPin(c, "answer", locals)
      BY <1>3, <2>1, <3>1 DEF KeepsPin, OnlyTheOwner, Rebinds
    <3> QED
      BY <2>1, <2>2, <3>1, <3>2, <3>3, LocalStepKeepsSInv DEF Labels, locals
  <2>3. ASSUME NEW t \in Tokens, Fresh(t), Step(c, "read", [call[c] EXCEPT !.change = Mint(t, FALSE)])
        PROVE  SInv'
    <3> DEFINE locals == [call[c] EXCEPT !.change = Mint(t, FALSE)]
    <3>1. /\ Mint(t, FALSE) \in Changes /\ Mint(t, FALSE).kind = "mint" /\ Mint(t, FALSE).token = t
          /\ ~Mint(t, FALSE).asOwner
      BY DEF Mint, Changes
    <3>2. /\ locals \in Calls /\ locals.dev = call[c].dev /\ locals.token = call[c].token
          /\ locals.claim = call[c].claim /\ locals.session = call[c].session
          /\ locals.change = Mint(t, FALSE)
      BY <1>1, <3>1 DEF Calls
    <3> HIDE DEF locals
    <3>3. Goes(c, "read", locals)
      BY <2>1, <2>3, <3>1, <3>2, GoesOn DEF Admits
    <3>4. KeepsPin(c, "read", locals)
      BY <2>1, <3>1, <3>2 DEF KeepsPin, Rebinds
    <3> QED
      BY <2>1, <2>3, <3>2, <3>3, <3>4, LocalStepKeepsSInv DEF Labels, locals
  <2> QED
    BY <1>4, <2>2, <2>3 DEF LoginStatus
<1>5. CASE RevokeBefore(c)
  <2>1. UNCHANGED <<store, cookies, entitled, loggedOut, gaveUp>> /\ pc[c] = "before"
    BY <1>5 DEF RevokeBefore, history
  <2>2. CASE IsOwner(GetRoom, call[c].token)
    <3> DEFINE change == Rebind(call[c].token, Effective)
               locals == [call[c] EXCEPT !.change = change]
    <3>1. call[c].token \in Tokens /\ (~gaveUp => call[c].token = FirstToken)
      <4>1. call[c].token \in Tokens /\ call[c].token = room.owner
        BY <1>2, <2>2 DEF IsOwner, Live, Range, Rooms
      <4> QED
        BY <1>3, <4>1, NoTokenAssumption DEF OnlyTheOwner
    <3>2. change \in Changes /\ change.kind = "rebind" /\ change.token = call[c].token
      BY <1>2, <3>1 DEF Rebind, Changes
    <3> HIDE DEF change
    <3>3. /\ locals \in Calls /\ locals.dev = call[c].dev /\ locals.token = call[c].token
          /\ locals.claim = call[c].claim /\ locals.session = call[c].session
          /\ locals.change = change
      BY <1>1, <3>2 DEF Calls
    <3>4. Step(c, "bump", locals)
      BY <1>5, <2>2 DEF RevokeBefore, change
    <3> HIDE DEF locals
    <3>5. Goes(c, "bump", locals)
      BY <2>1, <3>3, GoesOn DEF Admits
    <3>6. KeepsPin(c, "bump", locals)
      BY <2>1, <3>1, <3>2, <3>3 DEF KeepsPin, Rebinds
    <3> QED
      BY <2>1, <3>3, <3>4, <3>5, <3>6, LocalStepKeepsSInv DEF Labels
  <2>3. CASE ~IsOwner(GetRoom, call[c].token)
    <3>1. Return(c)
      BY <1>5, <2>3 DEF RevokeBefore
    <3> QED
      BY <2>1, <3>1, ReturnKeepsSInv DEF Rebinds
  <2> QED
    BY <2>2, <2>3
<1>6. CASE LastRead(c)
  <2>0. UNCHANGED <<store, cookies, history>> /\ pc[c] = "last"
    BY <1>6, Zenon DEF LastRead
  <2>1. UNCHANGED <<store, cookies, entitled, loggedOut, gaveUp>> /\ pc[c] = "last"
    BY <2>0 DEF history
  <2>2. PICK t \in Tokens :
          /\ Fresh(t)
          /\ Step(c, "read", [call[c] EXCEPT !.session = Larger(call[c].session, Effective),
                                             !.change = Mint(t, TRUE), !.tries = 0])
    BY <1>6, Zenon DEF LastRead
  <2> DEFINE locals == [call[c] EXCEPT !.session = Larger(call[c].session, Effective),
                                       !.change = Mint(t, TRUE), !.tries = 0]
  <2>3. Mint(t, TRUE) \in Changes /\ Mint(t, TRUE).kind = "mint" /\ Mint(t, TRUE).token = t
    BY DEF Mint, Changes
  <2>4. Larger(call[c].session, Effective) = counter /\ 0 \in 0..(ROOM_WRITE_ATTEMPTS - 1)
    BY <1>1, <1>2, AttemptsAssumption DEF Larger, NoSession, AccessOK
  <2>5. /\ locals \in Calls /\ locals.dev = call[c].dev /\ locals.token = call[c].token
        /\ locals.claim = call[c].claim /\ locals.session = counter
        /\ locals.change = Mint(t, TRUE)
    BY <1>1, <1>2, <2>3, <2>4 DEF Calls
  <2> HIDE DEF locals
  <2>6. Goes(c, "read", locals)
    <3>1. call[c].dev \in entitled
      BY <1>1, <2>1 DEF AccessOK, Admits
    <3>2. \A u \in {call[c].token, call[c].claim} : Holds(call[c].dev, u)
      BY DEF Holds
    <3>3. Fresh(locals.change.token)
      BY <2>2, <2>3, <2>5, Zenon
    <3>4. counter \in Nat /\ entitled' = entitled /\ locals.dev = call[c].dev
          /\ locals.token = call[c].token /\ locals.claim = call[c].claim /\ locals.session = counter
      BY <1>2, <2>1, <2>5
    <3> QED
      BY <3>1, <3>2, <3>3, <3>4 DEF Goes
  <2>7. KeepsPin(c, "read", locals)
    BY <1>3, <2>1 DEF KeepsPin, OnlyTheOwner
  <2> QED
    BY <2>1, <2>2, <2>5, <2>6, <2>7, LocalStepKeepsSInv DEF Labels, locals
<1>7. CASE ReadRoom(c)
  <2>1. UNCHANGED <<store, cookies, entitled, loggedOut, gaveUp>> /\ pc[c] = "read"
    BY <1>7 DEF ReadRoom, history
  <2>2. CASE Writes(call[c].change, GetRoom)
    <3> DEFINE locals == [call[c] EXCEPT !.seen = GetRoom, !.seenRev = rev]
    <3>1. /\ locals \in Calls /\ locals.dev = call[c].dev /\ locals.token = call[c].token
          /\ locals.claim = call[c].claim /\ locals.session = call[c].session
          /\ locals.change = call[c].change /\ locals.seen.epoch = counter
      BY <1>1, <1>2 DEF Calls
    <3>2. Step(c, "write", locals)
      BY <1>7, <2>2 DEF ReadRoom
    <3> HIDE DEF locals
    <3>3. Goes(c, "write", locals)
      BY <2>1, <3>1, GoesOn DEF Admits, Minting
    <3>4. KeepsPin(c, "write", locals)
      BY <1>3, <2>1, <3>1 DEF KeepsPin, OnlyTheOwner, Rebinds
    <3> QED
      BY <2>1, <3>1, <3>2, <3>3, <3>4, LocalStepKeepsSInv DEF Labels
  <2>3. CASE ~Writes(call[c].change, GetRoom)
    <3>1. Step(c, "answer", call[c]) /\ call[c].change.kind = "drop"
      BY <1>7, <2>3 DEF ReadRoom, Writes
    <3>2. Goes(c, "answer", call[c])
      BY <2>1, GoesOn DEF Admits
    <3>3. KeepsPin(c, "answer", call[c])
      BY <3>1 DEF KeepsPin, Rebinds
    <3> QED
      BY <1>1, <2>1, <3>1, <3>2, <3>3, LocalStepKeepsSInv DEF Labels
  <2> QED
    BY <2>2, <2>3
<1>8. /\ Forget(call[c]) \in Calls /\ Forget(call[c]).dev = call[c].dev
      /\ Forget(call[c]).token = call[c].token /\ Forget(call[c]).claim = call[c].claim
      /\ Forget(call[c]).session = call[c].session /\ Forget(call[c]).change = call[c].change
      /\ Forget(call[c]).tries = call[c].tries
  BY <1>1, NoCallFits DEF Forget, Calls
<1>9. CASE Retry(c)
  <2> DEFINE locals == [Forget(call[c]) EXCEPT !.tries = Forget(call[c]).tries + 1]
  <2>1. UNCHANGED <<store, cookies, entitled, loggedOut, gaveUp>> /\ pc[c] = "write"
    BY <1>9 DEF Retry, history
  <2>2. call[c].tries + 1 \in 0..(ROOM_WRITE_ATTEMPTS - 1)
    BY <1>1, <1>9, AttemptsAssumption DEF Retry
  <2>3. /\ locals \in Calls /\ locals.dev = call[c].dev /\ locals.token = call[c].token
        /\ locals.claim = call[c].claim /\ locals.session = call[c].session
        /\ locals.change = call[c].change
    BY <1>8, <2>2 DEF Calls
  <2>4. Step(c, "read", locals)
    BY <1>9 DEF Retry
  <2> HIDE DEF locals
  <2>5. Goes(c, "read", locals)
    BY <2>1, <2>3, GoesOn DEF Admits, Minting
  <2>6. KeepsPin(c, "read", locals)
    BY <1>3, <2>1, <2>3 DEF KeepsPin, OnlyTheOwner, Rebinds
  <2> QED
    BY <2>1, <2>3, <2>4, <2>5, <2>6, LocalStepKeepsSInv DEF Labels
<1>10. CASE GiveUp(c)
  <2>1. UNCHANGED <<store, cookies, entitled, loggedOut>> /\ gaveUp' /\ pc[c] = "write"
    BY <1>10 DEF GiveUp
  <2>2. call[c].change.kind \in {"mint", "drop", "rebind", "mode"}
    BY <1>1, <2>1 DEF Fits, Changes
  <2>3. CASE Return(c)
    BY <2>1, <2>3, ReturnKeepsSInv
  <2>4. ASSUME NEW label \in {"answer", "last"}, Step(c, label, Forget(call[c])),
               label = "last" => call[c].change.kind = "rebind"
        PROVE  SInv'
    <3>1. Goes(c, label, Forget(call[c]))
      BY <1>8, <2>1, <2>4, GoesOn DEF Admits
    <3>2. KeepsPin(c, label, Forget(call[c]))
      BY <2>1 DEF KeepsPin
    <3> QED
      BY <1>8, <2>1, <2>4, <3>1, <3>2, LocalStepKeepsSInv DEF Labels
  <2> QED
    BY <1>10, <2>2, <2>3, <2>4 DEF GiveUp
<1>11. CASE Answer(c)
  <2>1. /\ Return(c) /\ UNCHANGED <<store, entitled, loggedOut, gaveUp>> /\ pc[c] = "answer"
        /\ SetCookies(call[c].dev, call[c]) \/ UNCHANGED cookies
    BY <1>11 DEF Answer, history
  <2> QED
    BY <2>1, ReturnKeepsSInv DEF Rebinds
<1> QED
  BY <1>4, <1>5, <1>6, <1>7, <1>9, <1>10, <1>11

\* A bump ends every session and every token, but the bumping request's session.
LEMMA BumpKeepsSInv ==
  ASSUME SInv, NEW c \in Clients, Bump(c)
  PROVE  SInv'
<1>1. /\ IInv /\ TypeOK /\ TokenInv /\ PinInv /\ call \in [Clients -> Calls]
      /\ pc \in [Clients -> Labels] /\ Fits(pc[c], call[c])
      /\ \A d \in Devices : session[d] <= counter /\ session[d] \in Int
      /\ \A b \in Clients : call[b].session <= counter /\ call[b].session \in Int
      /\ counter \in Nat
  BY DEF SInv, TokenInv, AccessOK, IInv, TypeOK, CallsOK, Calls, NoSession
<1>2. IInv' /\ UNCHANGED <<room, rev>> /\ counter' \in Nat /\ counter' > counter
  BY <1>1, BumpKeepsInv
<1>3. /\ UNCHANGED <<session, claim, loggedOut, gaveUp>> /\ entitled' = Entering
      /\ pc[c] = "bump" /\ pc'[c] = "read" /\ call[c].change.kind = "rebind"
      /\ \A b \in Clients \ {c} : pc'[b] = pc[b] /\ call'[b] = call[b]
      /\ call'[c].dev = call[c].dev /\ call'[c].token = call[c].token
      /\ call'[c].claim = call[c].claim /\ call'[c].change = call[c].change
      /\ call'[c].session = counter'
  BY <1>1 DEF Bump, Step, cookies, Fits, Calls
<1>4. \A d \in Devices, t \in Tokens : Holds(d, t)' => Holds(d, t)
  BY <1>3 DEF Holds
<1>5. \A b \in Clients : Minting(b)' => /\ Minting(b) /\ call'[b].change = call[b].change
                                        /\ call[b].change.token \in Tokens
  BY <1>1, <1>3 DEF Minting, Calls, Changes, NoChange
<1>6. MintsAreFresh'
  BY <1>1, <1>2, <1>4, <1>5 DEF TokenInv, MintsAreFresh
<1>7. OneHolder'
  BY <1>1, <1>4 DEF TokenInv, OneHolder
<1>8. AccessOK'
  <2>1. \A d \in Devices : session'[d] <= counter' /\ session'[d] # counter'
    BY <1>1, <1>2, <1>3
  <2>2. \A b \in Clients \ {c} : call'[b].session <= counter' /\ call'[b].session # counter'
    BY <1>1, <1>2, <1>3
  <2>3. \A b \in Clients : Admits(pc'[b], call'[b]) => call'[b].dev \in entitled'
    BY <1>1, <1>3 DEF Admits, Entering, TokenInv, AccessOK
  <2>4. Admits(pc'[c], call'[c])
    BY <1>3 DEF Admits
  <2>5. \A b \in Clients : pc'[b] = "last" => call'[b].change.kind = "rebind"
    BY <1>1, <1>3 DEF TokenInv, AccessOK
  <2>6. \A t \in Tokens : ~Live(GetRoom, t)'
    <3>1. /\ room' \in Rooms /\ room'.epoch <= counter' /\ room'.tag <= counter
          /\ room'.tag \in Nat /\ room'.epoch \in Nat
      BY <1>1, <1>2 DEF IInv, TypeOK, EpochsOK, Rooms
    <3>2. /\ WithEpoch(room', counter').epoch = counter'
          /\ WithEpoch(room', counter') = [room' EXCEPT !.epoch = WithEpoch(room', counter').epoch]
      BY <1>2, <3>1, EpochIsCounter
    <3>3. WithEpoch(room', counter').tag = room'.tag
      BY <3>1, <3>2 DEF Rooms
    <3> QED
      BY <1>1, <1>2, <3>1, <3>2, <3>3 DEF Live, ClaimListIsLive, GetRoom
  <2> QED
    BY <1>2, <1>3, <2>1, <2>2, <2>3, <2>4, <2>5, <2>6 DEF AccessOK
<1>9. PinInv'
  <2>1. Rebinds(pc'[c], call'[c]) /\ Rebinding'
    BY <1>3 DEF Rebinds, Rebinding
  <2>2. Bounded(room') /\ OwnerStaysPinned'
    BY <1>1, <1>2, <2>1 DEF PinInv, OwnerStaysPinned
  <2>3. ASSUME ~gaveUp' PROVE OnlyTheOwner' /\ StaleIsRebound'
    <3>1. OnlyTheOwner
      BY <1>1, <1>3, <2>3 DEF PinInv
    <3>2. OnlyTheOwner'
      BY <1>2, <1>3, <3>1 DEF OnlyTheOwner
    <3>3. StaleIsRebound'
      BY <1>3, <2>1 DEF StaleIsRebound
    <3> QED
      BY <3>2, <3>3
  <2> QED
    BY <2>2, <2>3 DEF PinInv
<1> QED
  BY <1>2, <1>6, <1>7, <1>8, <1>9 DEF SInv, TokenInv

\* What a request has after its write: what it had, or a minted token, or, after a
\* rebind, a session at the epoch of its snapshot.
LEMMA WriteRoomLocals ==
  ASSUME SInv, NEW c \in Clients, WriteRoom(c)
  PROVE  \E label \in {"idle", "answer"}, locals \in Calls :
           /\ Step(c, label, locals)
           /\ \A t \in {locals.token, locals.claim} :
                \/ t = NoToken
                \/ locals.dev = call[c].dev /\ t \in {call[c].token, call[c].claim}
                \/ locals.dev = call[c].dev /\ call[c].change.kind = "mint" /\ t = call[c].change.token
           /\ \/ locals.session = NoSession
              \/ locals.dev = call[c].dev /\ locals.session = call[c].session
              \/ locals.dev = call[c].dev /\ call[c].change.kind = "rebind"
                 /\ locals.session = call[c].seen.epoch
           /\ locals.change \in {NoChange, call[c].change}
<1>1. /\ call[c] \in Calls /\ IInv /\ call[c].seen.epoch \in Nat
      /\ call[c].token \in Tokens \cup {NoToken} /\ pc[c] = "write" /\ Fits(pc[c], call[c])
  BY DEF SInv, IInv, TypeOK, CallsOK, Calls, Rooms, WriteRoom
<1>2. /\ Forget(call[c]) \in Calls /\ Forget(call[c]).dev = call[c].dev
      /\ Forget(call[c]).token = call[c].token /\ Forget(call[c]).claim = call[c].claim
      /\ Forget(call[c]).session = call[c].session /\ Forget(call[c]).change = call[c].change
      /\ NoCall \in Calls
  BY <1>1, NoCallFits DEF Forget, Calls
<1>3. call[c].change \in Changes
  BY <1>1 DEF Fits
<1>4. CASE call[c].change.kind = "mode"
  <2>1. Step(c, "idle", NoCall)
    BY <1>4 DEF WriteRoom, Committed, Return
  <2> QED
    BY <1>2, <2>1 DEF NoCall
<1>5. CASE call[c].change.kind = "drop"
  <2>1. Step(c, "answer", Forget(call[c]))
    BY <1>5 DEF WriteRoom, Committed
  <2> QED
    BY <1>2, <2>1
<1>6. CASE call[c].change.kind = "mint"
  <2> DEFINE locals == [Forget(call[c]) EXCEPT !.claim = call[c].change.token]
  <2>1. call[c].change.token \in Tokens
    BY <1>3, <1>6 DEF Changes
  <2>2. /\ locals \in Calls /\ locals.dev = call[c].dev /\ locals.token = call[c].token
        /\ locals.claim = call[c].change.token /\ locals.session = call[c].session
        /\ locals.change = call[c].change
    BY <1>2, <2>1 DEF Calls
  <2>3. Step(c, "answer", locals)
    BY <1>6 DEF WriteRoom, Committed
  <2> QED
    BY <1>6, <2>2, <2>3
<1>7. CASE call[c].change.kind = "rebind"
  <2> DEFINE locals == [Forget(call[c]) EXCEPT !.claim = call[c].token, !.session = call[c].seen.epoch]
  <2>1. /\ locals \in Calls /\ locals.dev = call[c].dev /\ locals.token = call[c].token
        /\ locals.claim = call[c].token /\ locals.session = call[c].seen.epoch
        /\ locals.change = call[c].change
    BY <1>1, <1>2 DEF Calls
  <2>2. Step(c, "answer", locals)
    BY <1>7 DEF WriteRoom, Committed
  <2> QED
    BY <1>7, <2>1, <2>2
<1> QED
  BY <1>3, <1>4, <1>5, <1>6, <1>7 DEF Changes

\* A write gives a fresh token to its own device, or the owner's back to the owner.
LEMMA WriteRoomKeepsTokens ==
  ASSUME SInv, [Next]_vars, NEW c \in Clients, WriteRoom(c)
  PROVE  TokenInv'
<1>1. /\ IInv /\ TypeOK /\ TokenInv /\ call[c] \in Calls /\ Fits(pc[c], call[c]) /\ counter \in Nat
      /\ \A b \in Clients : call[b] \in Calls /\ Fits(pc[b], call[b])
  BY DEF SInv, IInv, TypeOK, CallsOK
<1>2. /\ IInv' /\ UNCHANGED counter /\ pc[c] = "write" /\ call[c].change \in Changes
      /\ call[c].seen \in Rooms /\ call[c].seen = [room EXCEPT !.epoch = call[c].seen.epoch]
      /\ call[c].seen.epoch <= counter /\ room' = Changed(call[c].change, call[c].seen)
      /\ UNCHANGED <<session, claim, entitled, gaveUp>>
  BY <1>1, WriteRoomKeepsInv DEF WriteRoom, cookies
<1>3. PICK label \in {"idle", "answer"}, locals \in Calls :
        /\ Step(c, label, locals)
        /\ \A t \in {locals.token, locals.claim} :
             \/ t = NoToken
             \/ locals.dev = call[c].dev /\ t \in {call[c].token, call[c].claim}
             \/ locals.dev = call[c].dev /\ call[c].change.kind = "mint" /\ t = call[c].change.token
        /\ \/ locals.session = NoSession
           \/ locals.dev = call[c].dev /\ locals.session = call[c].session
           \/ locals.dev = call[c].dev /\ call[c].change.kind = "rebind"
              /\ locals.session = call[c].seen.epoch
        /\ locals.change \in {NoChange, call[c].change}
  BY WriteRoomLocals
<1>4. /\ pc'[c] = label /\ call'[c] = locals
      /\ \A b \in Clients \ {c} : pc'[b] = pc[b] /\ call'[b] = call[b]
  BY <1>1, <1>3, StepProperties DEF Labels
<1>5. \A d \in Devices, t \in Tokens : Holds(d, t)' =>
        \/ Holds(d, t)
        \/ d = call[c].dev /\ call[c].change.kind = "mint" /\ t = call[c].change.token
  BY <1>2, <1>3, <1>4, NoTokenAssumption DEF Holds
<1>6. \A b \in Clients : Minting(b) => call[b].change.token \in Tokens
  BY <1>1 DEF Minting, Calls, Changes, NoChange
<1>7. \A b \in Clients : Minting(b)' => b # c /\ Minting(b) /\ call'[b] = call[b]
  BY <1>3, <1>4 DEF Minting
<1>8. \A t \in Range(room'.hashes) :
        \/ t \in Range(room.hashes)
        \/ t = call[c].change.token /\ call[c].change.kind = "mint"
        \/ t = call[c].token /\ t \in Tokens /\ Holds(call[c].dev, t)
  <2>1. Bounded(call[c].seen) /\ call[c].seen.hashes = room.hashes
    BY <1>1, <1>2 DEF SInv, PinInv, Bounded, Rooms, TypeOK
  <2>2. call[c].change.kind = "mint" => call[c].change.token \notin Range(call[c].seen.hashes)
    BY <1>1, <1>2, <2>1 DEF TokenInv, MintsAreFresh, Minting
  <2>3. \A t \in Range(room'.hashes) :
          \/ t \in Range(call[c].seen.hashes)
          \/ call[c].change.kind \in {"mint", "rebind"} /\ t = call[c].change.token
    BY <1>2, <2>1, <2>2, ChangedKeepsBound
  <2>4. call[c].change.kind = "rebind" => call[c].change.token = call[c].token /\ call[c].token \in Tokens
    BY <1>1, <1>2 DEF Fits, Changes
  <2> QED
    BY <2>1, <2>3, <2>4 DEF Holds
<1>9. MintsAreFresh'
  <2> SUFFICES ASSUME NEW b \in Clients, Minting(b)'
               PROVE  /\ call[b].change.token \notin Range(room'.hashes)
                      /\ \A d \in Devices : ~Holds(d, call[b].change.token)'
                      /\ \A a \in Clients \ {b} : Minting(a)' =>
                           call'[a].change.token # call[b].change.token
    BY <1>7 DEF MintsAreFresh
  <2>1. /\ b # c /\ Minting(b) /\ call[b].change.token \in Tokens
        /\ call[b].change.token \notin Range(room.hashes)
        /\ \A d \in Devices : ~Holds(d, call[b].change.token)
        /\ \A a \in Clients \ {b} : Minting(a) => call[a].change.token # call[b].change.token
    BY <1>1, <1>6, <1>7 DEF TokenInv, MintsAreFresh
  <2>2. call[c].change.kind = "mint" => call[c].change.token # call[b].change.token
    BY <1>2, <2>1 DEF Minting
  <2>3. call[c].dev \in Devices
    BY <1>1 DEF Calls
  <2>4. call[b].change.token \notin Range(room'.hashes)
    BY <1>8, <2>1, <2>2, <2>3
  <2>5. \A d \in Devices : ~Holds(d, call[b].change.token)'
    BY <1>5, <1>7, <2>1, <2>2
  <2>6. \A a \in Clients \ {b} : Minting(a)' => call'[a].change.token # call[b].change.token
    BY <1>7, <2>1
  <2> QED
    BY <2>4, <2>5, <2>6
<1>10. call[c].change.kind = "mint" => \A d \in Devices : ~Holds(d, call[c].change.token)
  BY <1>1, <1>2 DEF TokenInv, MintsAreFresh, Minting
<1>11. OneHolder'
  BY <1>1, <1>5, <1>10 DEF TokenInv, OneHolder
<1>12. AccessOK'
  <2>1. /\ \A b \in Clients : Admits(pc[b], call[b]) => call[b].dev \in entitled
        /\ \A b \in Clients : call[b].session <= counter
                                /\ (call[b].session = counter => call[b].dev \in entitled)
    BY <1>1 DEF TokenInv, AccessOK
  <2>2. call[c].change.kind \in {"mint", "rebind"} => call[c].dev \in entitled
    BY <1>2, <2>1 DEF Admits
  <2>3. \A b \in Clients : /\ call'[b].session <= counter
                          /\ (call'[b].session = counter => call'[b].dev \in entitled)
    <3>1. call'[c].session <= counter /\ (call'[c].session = counter => call'[c].dev \in entitled)
      BY <1>1, <1>2, <1>3, <1>4, <2>1, <2>2 DEF NoSession
    <3> QED
      BY <1>4, <2>1, <3>1
  <2>4. \A b \in Clients : Admits(pc'[b], call'[b]) => call'[b].dev \in entitled
    BY <1>4, <2>1 DEF Admits
  <2>5. \A b \in Clients : pc'[b] = "last" => call'[b].change.kind = "rebind"
    BY <1>1, <1>4 DEF TokenInv, AccessOK
  <2>6. ASSUME NEW d \in Devices, NEW t \in Tokens, Holds(d, t)', Live(GetRoom, t)'
        PROVE  d \in entitled
    <3>1. CASE d = call[c].dev /\ call[c].change.kind = "mint"
      BY <2>2, <3>1
    <3>2. CASE Holds(d, t) /\ Live(GetRoom, t)
      BY <1>1, <3>2 DEF TokenInv, AccessOK
    <3>3. CASE Holds(d, t) /\ ~Live(GetRoom, t)
      <4>1. PICK b \in Clients : /\ pc[b] = "write"
                                 /\ call[b].change.kind \in {"mint", "rebind"}
                                 /\ call[b].change.token = t
        BY <1>1, <1>2, <2>6, <3>3, NextRevivesNothing
      <4>2. call[b].change.kind # "mint"
        BY <1>1, <3>3, <4>1 DEF TokenInv, MintsAreFresh, Minting
      <4>3. call[b].token = t /\ call[b].dev \in Devices
        BY <1>1, <4>1, <4>2 DEF Fits, Calls
      <4>4. d = call[b].dev
        BY <1>1, <3>3, <4>3 DEF TokenInv, OneHolder, Holds
      <4> QED
        BY <2>1, <4>1, <4>4 DEF Admits
    <3> QED
      BY <1>5, <2>6, <3>1, <3>2, <3>3
  <2>7. \A d \in Devices : session[d] <= counter /\ (session[d] = counter => d \in entitled)
    BY <1>1 DEF TokenInv, AccessOK
  <2> QED
    BY <1>2, <2>3, <2>4, <2>5, <2>6, <2>7 DEF AccessOK
<1> QED
  BY <1>9, <1>11, <1>12 DEF TokenInv

\* A write from a snapshot that missed a bump leaves the pin to that revocation's rebind;
\* one from the record as it is keeps the owner pinned.
LEMMA WriteRoomKeepsPin ==
  ASSUME SInv, NEW c \in Clients, WriteRoom(c)
  PROVE  PinInv'
<1>1. /\ IInv /\ TypeOK /\ TokenInv /\ PinInv /\ call[c] \in Calls /\ Fits(pc[c], call[c])
      /\ rev \in Nat /\ counter \in Nat /\ \A b \in Clients : Fits(pc[b], call[b])
      /\ \A b \in Clients : call[b].seenRev \in Nat
  BY DEF SInv, IInv, TypeOK, CallsOK, Calls
<1>2. /\ IInv' /\ UNCHANGED counter /\ pc[c] = "write" /\ call[c].change \in Changes
      /\ call[c].seen \in Rooms /\ call[c].seen = [room EXCEPT !.epoch = call[c].seen.epoch]
      /\ room' = Changed(call[c].change, call[c].seen)
  BY <1>1, WriteRoomKeepsInv
<1>3. /\ rev' = rev + 1 /\ call[c].seenRev = rev /\ UNCHANGED gaveUp /\ loggedOut \subseteq loggedOut'
      /\ call[c].change.kind = "drop" => call[c].change.token \in loggedOut'
  BY <1>1, <1>2 DEF WriteRoom, Current, Fits
<1>4. PICK label \in {"idle", "answer"}, locals \in Calls :
        Step(c, label, locals) /\ locals.change \in {NoChange, call[c].change}
  BY WriteRoomLocals
<1>5. /\ pc'[c] = label /\ call'[c] = locals
      /\ \A b \in Clients \ {c} : pc'[b] = pc[b] /\ call'[b] = call[b]
  BY <1>1, <1>4, StepProperties DEF Labels
<1>6. /\ call[c].seen.hashes = room.hashes /\ call[c].seen.owner = room.owner
      /\ call[c].seen.tag = room.tag /\ Bounded(call[c].seen)
      /\ call[c].change.kind = "mint" => call[c].change.token \notin Range(call[c].seen.hashes)
  <2>1. /\ call[c].seen.hashes = room.hashes /\ call[c].seen.owner = room.owner
        /\ call[c].seen.tag = room.tag
    BY <1>1, <1>2 DEF Rooms, TypeOK
  <2> QED
    BY <1>1, <1>2, <2>1 DEF PinInv, Bounded, TokenInv, MintsAreFresh, Minting
<1> DEFINE change == call[c].change
           seen == call[c].seen
<1>7. /\ Bounded(room')
      /\ change.kind \in {"drop", "mode"} => room'.owner \in {room.owner, NoToken}
      /\ change.kind = "mint" /\ ~change.asOwner =>
           /\ room'.owner \in {room.owner, NoToken}
           /\ \A u \in Tokens : IsOwner(seen, u) => IsOwner(room', u)
      /\ change.kind = "mode" => \A u \in Tokens : IsOwner(seen, u) => IsOwner(room', u)
      /\ change.kind = "drop" => \A u \in Tokens \ {change.token} : IsOwner(seen, u) => IsOwner(room', u)
      /\ change.kind = "rebind" => IsOwner(room', change.token)
  BY <1>2, <1>6, ChangedKeepsBound
<1>8. change.kind \in {"mint", "drop", "rebind", "mode"}
  BY <1>2 DEF Changes
<1>9. OwnerStaysPinned'
  <2> SUFFICES ASSUME ~Rebinding', ~gaveUp, FirstToken \notin loggedOut'
               PROVE  IsOwner(GetRoom, FirstToken)'
    BY <1>3 DEF OwnerStaysPinned
  <2>1. OnlyTheOwner /\ StaleIsRebound
    BY <1>1 DEF PinInv
  <2>2. \A b \in Clients \ {c} : ~Rebinds(pc[b], call[b])
    BY <1>5 DEF Rebinding, Rebinds
  <2>3. seen.epoch = counter
    BY <1>2, <1>3, <2>1, <2>2 DEF StaleIsRebound
  <2>4. seen = GetRoom
    BY <1>1, <1>2, <2>3, CountersGiveEpoch
  <2>5. IsOwner(room', FirstToken)
    <3>1. CASE change.kind = "rebind"
      BY <1>7, <2>1, <3>1 DEF OnlyTheOwner
    <3>2. CASE change.kind # "rebind"
      <4>1. ~Rebinding
        BY <2>2, <3>2 DEF Rebinding, Rebinds
      <4>2. IsOwner(seen, FirstToken)
        BY <1>1, <1>3, <2>4, <4>1 DEF PinInv, OwnerStaysPinned
      <4>3. change.kind = "mint" => ~change.asOwner
        BY <2>1 DEF OnlyTheOwner
      <4>4. change.kind = "drop" => FirstToken # change.token
        BY <1>3
      <4> QED
        BY <1>7, <1>8, <3>2, <4>2, <4>3, <4>4, CreatorAssumption
    <3> QED
      BY <3>1, <3>2
  <2>6. room'.epoch = counter /\ room' \in Rooms
    BY <1>2, <2>3, ChangedProperties
  <2>7. WithEpoch(room', counter) = room'
    <3>1. /\ WithEpoch(room', counter).epoch = counter
          /\ WithEpoch(room', counter) = [room' EXCEPT !.epoch = WithEpoch(room', counter).epoch]
      BY <1>1, <2>6, EpochIsCounter
    <3> QED
      BY <2>6, <3>1 DEF Rooms
  <2> QED
    BY <1>2, <2>5, <2>7 DEF GetRoom
<1>10. ASSUME ~gaveUp PROVE OnlyTheOwner' /\ StaleIsRebound'
  <2>1. OnlyTheOwner
    BY <1>1, <1>10 DEF PinInv
  <2>2. room'.owner \in {FirstToken, NoToken}
    BY <1>7, <1>8, <2>1 DEF OnlyTheOwner, IsOwner
  <2>3. OnlyTheOwner'
    BY <1>4, <1>5, <2>1, <2>2 DEF OnlyTheOwner, NoChange
  <2>4. \A b \in Clients : pc'[b] = "write" => call'[b].seenRev # rev'
    <3>1. \A b \in Clients \ {c} : pc[b] = "write" => call[b].seenRev <= rev
      BY <1>1 DEF Fits
    <3> QED
      BY <1>1, <1>3, <1>4, <1>5, <3>1
  <2> QED
    BY <2>3, <2>4 DEF StaleIsRebound
<1> QED
  BY <1>3, <1>7, <1>9, <1>10 DEF PinInv

LEMMA InitTokens == Init => SInv
<1> SUFFICES ASSUME Init PROVE SInv
  OBVIOUS
<1>1. IInv /\ counter = 0
  BY InitInv DEF Init
<1>2. \A d \in Devices, t \in Tokens : Holds(d, t) => d = Creator
  BY NoTokenAssumption DEF Init, Holds, NoCall
<1>3. TokenInv
  <2>1. \A c \in Clients : call[c] = NoCall /\ pc[c] = "idle"
    BY DEF Init
  <2>2. MintsAreFresh
    BY <2>1 DEF MintsAreFresh, Minting
  <2>3. OneHolder
    BY <1>2 DEF OneHolder
  <2>4. AccessOK
    BY <1>1, <1>2, <2>1 DEF Init, AccessOK, NoCall, NoSession, Admits
  <2> QED
    BY <2>2, <2>3, <2>4 DEF TokenInv
<1>4. PinInv
  <2>1. NewRoom \in Rooms /\ NewRoom.hashes = <<>> /\ NewRoom.owner = NoToken
    <3>1. NewRoom \in Rooms
      BY DefaultModeAssumption DEF NewRoom, Rooms
    <3> QED
      BY <3>1 DEF NewRoom
  <2>2. IsInjective(NewRoom.hashes) /\ FirstToken \notin Range(NewRoom.hashes)
    BY <2>1 DEF IsInjective, Range
  <2>3. room = Minted(NewRoom, FirstToken, TRUE) /\ FirstToken \in Tokens
    BY CreatorAssumption DEF Init
  <2>4. Bounded(room) /\ room.owner \in {FirstToken, NoToken} /\ IsOwner(room, FirstToken)
    BY <2>1, <2>2, <2>3, MintKeepsBound
  <2>5. GetRoom = room
    <3>1. room \in Rooms /\ room.epoch = 0
      <4>1. NewRoom.epoch = 0
        BY DEF NewRoom
      <4> QED
        BY <2>1, <2>3, <4>1, MintedProperties
    <3>2. GetRoom = [room EXCEPT !.epoch = 0]
      BY <1>1, CountersGiveEpoch
    <3> QED
      BY <3>1, <3>2 DEF Rooms
  <2>6. OnlyTheOwner /\ StaleIsRebound
    BY <2>4 DEF Init, OnlyTheOwner, StaleIsRebound, NoCall, NoChange
  <2> QED
    BY <2>4, <2>5, <2>6 DEF PinInv, OwnerStaysPinned
<1> QED
  BY <1>1, <1>3, <1>4 DEF SInv

LEMMA NextKeepsSInv == SInv /\ [Next]_vars => SInv'
<1> SUFFICES ASSUME SInv, [Next]_vars PROVE SInv'
  OBVIOUS
<1>1. CASE UNCHANGED vars
  <2>1. IInv'
    BY NextInv DEF SInv
  <2>2. UNCHANGED <<room, rev, counter, pc, call, session, claim, entitled, loggedOut, gaveUp>>
    BY <1>1 DEF vars, store, cookies, history
  <2>3. UNCHANGED GetRoom
    BY <2>2 DEF GetRoom
  <2>4. TokenInv'
    BY <2>2, <2>3 DEF SInv, TokenInv, MintsAreFresh, OneHolder, AccessOK, Holds, Minting
  <2>5. UNCHANGED Rebinding
    BY <2>2 DEF Rebinding
  <2>6. PinInv'
    BY <2>2, <2>3, <2>5 DEF SInv, PinInv, OwnerStaysPinned, OnlyTheOwner, StaleIsRebound
  <2> QED
    BY <2>1, <2>4, <2>6 DEF SInv
<1>2. CASE Next
  <2>1. ASSUME NEW c \in Clients, NEW d \in Devices,
               Login(c, d) \/ Claim(c, d) \/ Logout(c, d) \/ Revoke(c, d)
                 \/ \E m \in Modes : ChangeSetting(c, d, m)
        PROVE  SInv'
    BY <2>1, StartsKeepSInv
  <2>2. ASSUME NEW c \in Clients,
               LoginStatus(c) \/ RevokeBefore(c) \/ LastRead(c) \/ ReadRoom(c) \/ Retry(c)
                 \/ GiveUp(c) \/ Answer(c)
        PROVE  SInv'
    BY <2>2, LocalStepsKeepSInv
  <2>3. ASSUME NEW c \in Clients, Bump(c) PROVE SInv'
    BY <2>3, BumpKeepsSInv
  <2>4. ASSUME NEW c \in Clients, WriteRoom(c) PROVE SInv'
    <3>1. IInv'
      BY NextInv DEF SInv
    <3> QED
      BY <2>4, <3>1, WriteRoomKeepsTokens, WriteRoomKeepsPin DEF SInv
  <2> QED
    BY <1>2, <2>1, <2>2, <2>3, <2>4 DEF Next
<1> QED
  BY <1>1, <1>2

\* A token is in one device's hands, a minted one in its request's alone; no cookie that
\* could let a device in is held or under way but to one entitled; and a revocation that
\* has yet to rebind is the only reason for which the owner's token is not pinned.
THEOREM TokensInvariance == Spec => []SInv
  BY InitTokens, NextKeepsSInv, PTL DEF Spec

\* "END EVERY OUTSTANDING HOST SESSION for a room, and every admin-claim credential except
\* the owner's" (lib/rooms.ts): whatever claims, late answers and stale writes interleave
\* with a revocation, nobody is in who has not entered the code since, or was about to.
THEOREM AccessEnds == Spec => []OutstandingAccessEnds
<1>1. SInv => OutstandingAccessEnds
  <2> SUFFICES ASSUME SInv, NEW d \in Devices, session[d] = Effective \/ Live(GetRoom, claim[d])
               PROVE  d \in entitled
    BY DEF OutstandingAccessEnds
  <2>1. AccessOK /\ Effective = counter /\ GetRoom \in Rooms
    BY CountersGiveEpoch DEF SInv, TokenInv
  <2>2. CASE session[d] = Effective
    BY <2>1, <2>2 DEF AccessOK
  <2>3. CASE Live(GetRoom, claim[d])
    <3>1. claim[d] \in Tokens /\ Holds(d, claim[d])
      BY <2>1, <2>3 DEF Live, Range, Rooms, Holds
    <3> QED
      BY <2>1, <2>3, <3>1 DEF AccessOK
  <2> QED
    BY <2>2, <2>3
<1> QED
  BY <1>1, TokensInvariance, PTL

\* "The cap counts devices, not issues", and "the owner's hash is pinned": whatever logins,
\* logouts and revocations race, the list stays within its bound and without duplicates,
\* and no other device's login and no stale write costs the owner the pin.
THEOREM CapIsSafe == Spec => []CapSparesTheOwner
<1>1. SInv => CapSparesTheOwner
  BY DEF SInv, PinInv, Bounded, CapSparesTheOwner, DevicesBounded
<1> QED
  BY <1>1, TokensInvariance, PTL

=============================================================================
