------------------------------ MODULE HostAccess ------------------------------
(***************************************************************************)
(* How the owner's device gets into a room's admin page and out of it: the   *)
(* session probe, the one claim behind it, the code gate, logout and "sign    *)
(* out other devices" of AdminRoom.tsx, over requests that may be served and  *)
(* answered in any order, or lost, beside probes other tabs make.             *)
(*                                                                           *)
(* A request carries the cookies of the moment it is sent, and cookies change  *)
(* when an answer arrives.  A session value is the epoch it was derived from   *)
(* and each route is one step of the server here: RoomRecord has their         *)
(* commands.                                                                  *)
(***************************************************************************)
EXTENDS Naturals, FiniteSets

CONSTANTS
  None, Cleared,   \* no cookie; a cookie the answer clears
  MaxEpoch, MaxProbes,  \* bounds: revocations, probes of other tabs
  MaxInFlight           \* bound: requests under way at once

HostAccessAssumption ==
  /\ {MaxEpoch, MaxProbes, MaxInFlight} \subseteq Nat
  /\ None \notin Nat /\ Cleared \notin Nat \cup {None, "owner", "staff"}

VARIABLES
  epoch,       \* the room's session epoch
  live,        \* this device's claim tokens the room honours
  jar,         \* the device's cookies
  requests,
  auth, isOwner, claimThrottled,
  panel,       \* the confirmation that is open
  revokeMsg,
  probes,      \* probes other tabs made so far
  asked,       \* the epoch when "sign out other devices" was confirmed (history)
  gaveUp       \* whether a logout was served, and confirmed since the last load (history)

server == <<epoch, live>>
page == <<auth, isOwner, claimThrottled, panel, revokeMsg, asked>>
vars == <<server, jar, requests, page, probes, gaveUp>>

\* "owner" came with the room's creation; a login mints "staff".
NoAnswer == [status |-> 0]
Request(kind) == [kind |-> kind, cookies |-> jar, answer |-> NoAnswer]
Sending(kind) == \E r \in requests : r.kind = kind
Send(kind) == Cardinality(requests) < MaxInFlight /\ requests' = requests \cup {Request(kind)}

\* An answer: its status, whether the device is the owner's, the cookies it sets.
Answer(status, owner, session, claim) ==
  [status |-> status, owner |-> owner, session |-> session, claim |-> claim]
Refused(status) == Answer(status, FALSE, None, None)
Kept(claim) == IF claim \in live THEN claim ELSE None
Owner(claim) == claim = "owner" /\ claim \in live

Init ==
  /\ epoch = 0 /\ live = {"owner"} /\ gaveUp = "no"
  /\ jar \in [session : {0, None}, claim : {"owner"}]
  /\ requests = {Request("session")}
  /\ auth = "checking" /\ isOwner = FALSE /\ claimThrottled = FALSE
  /\ panel = "none" /\ revokeMsg = "none" /\ asked = 0
  /\ probes = 0

\* ---- what the page sends ----

\* A full load of the page: the answers of its earlier requests reach nobody.
Reload ==
  /\ auth # "checking"
  /\ requests' = {r \in requests : r.kind = "elsewhere"} \cup {Request("session")}
  /\ auth' = "checking" /\ isOwner' = FALSE /\ claimThrottled' = FALSE
  /\ panel' = "none" /\ revokeMsg' = "none"
  /\ gaveUp' = IF gaveUp = "told" THEN "served" ELSE gaveUp
  /\ UNCHANGED <<server, jar, probes, asked>>

Login ==
  /\ auth = "gate" /\ ~Sending("login")
  /\ Send("login")
  /\ UNCHANGED <<server, jar, page, probes, gaveUp>>

\* The header's two buttons open one confirmation and close the other.
Toggle(which) ==
  /\ auth = "authed" /\ ~Sending(which)
  /\ which = "revoke" => isOwner
  /\ panel' = IF panel = which THEN "none" ELSE which
  /\ revokeMsg' = IF which = "revoke" THEN "none" ELSE revokeMsg
  /\ UNCHANGED <<server, jar, requests, auth, isOwner, claimThrottled, asked, probes, gaveUp>>

ConfirmLogout ==
  /\ auth = "authed" /\ panel = "logout" /\ ~Sending("logout")
  /\ Send("logout")
  /\ UNCHANGED <<server, jar, page, probes, gaveUp>>

ConfirmRevoke ==
  /\ auth = "authed" /\ panel = "revoke" /\ ~Sending("revoke")
  /\ Send("revoke")
  /\ revokeMsg' = "none" /\ asked' = epoch
  /\ UNCHANGED <<server, jar, auth, isOwner, claimThrottled, panel, probes, gaveUp>>

\* The landing page, or a second admin tab, on the same device.
ProbeElsewhere ==
  /\ probes < MaxProbes /\ ~Sending("elsewhere")
  /\ probes' = probes + 1
  /\ Send("elsewhere")
  /\ UNCHANGED <<server, jar, page, gaveUp>>

SessionExpires ==
  /\ jar.session # None
  /\ jar' = [jar EXCEPT !.session = None]
  /\ UNCHANGED <<server, requests, page, probes, gaveUp>>

\* ---- the server ----

Replies(r, answer) ==
  /\ r.answer = NoAnswer
  /\ requests' = (requests \ {r}) \cup {[r EXCEPT !.answer = answer]}
  /\ UNCHANGED <<jar, page, probes>>

SignedIn(r) == r.cookies.session = epoch

\* GET /api/host/session: the session presented is sent again, and so is a live claim.
ServeSession(r) ==
  /\ r.kind \in {"session", "elsewhere"}
  /\ Replies(r, IF SignedIn(r)
                THEN Answer(200, Owner(r.cookies.claim), r.cookies.session, Kept(r.cookies.claim))
                ELSE Refused(401))
  /\ UNCHANGED <<server, gaveUp>>

\* POST /api/host/claim: the failure budget is asked only once the claim has failed.
ServeClaim(r) ==
  /\ r.kind = "claim"
  /\ \/ /\ r.cookies.claim \in live
        /\ Replies(r, Answer(200, Owner(r.cookies.claim), epoch, r.cookies.claim))
     \/ /\ r.cookies.claim \notin live
        /\ \E status \in {401} \cup (IF r.cookies.claim = None THEN {} ELSE {429}) : Replies(r, Refused(status))
  /\ UNCHANGED <<server, gaveUp>>

\* POST /api/host/login, with the room's code or another.
ServeLogin(r) ==
  /\ r.kind = "login"
  /\ \/ /\ Replies(r, Answer(200, Owner(r.cookies.claim), epoch,
                             IF r.cookies.claim \in live THEN r.cookies.claim ELSE "staff"))
        /\ live' = IF r.cookies.claim \in live THEN live ELSE live \cup {"staff"}
     \/ Replies(r, Refused(401)) /\ UNCHANGED live
  /\ UNCHANGED <<epoch, gaveUp>>

\* POST /api/host/session: this device's token is revoked, both cookies are cleared.
ServeLogout(r) ==
  /\ r.kind = "logout"
  /\ IF SignedIn(r)
     THEN /\ live' = live \ {r.cookies.claim} /\ gaveUp' = "served"
          /\ Replies(r, Answer(200, FALSE, Cleared, Cleared))
     ELSE Replies(r, Refused(401)) /\ UNCHANGED <<live, gaveUp>>
  /\ UNCHANGED epoch

RevokeRefused(r) ==
  \/ ~SignedIn(r) /\ Replies(r, Refused(401))
  \/ SignedIn(r) /\ ~Owner(r.cookies.claim) /\ Replies(r, Refused(403))
  \/ SignedIn(r) /\ Owner(r.cookies.claim) /\ Replies(r, Refused(429))

\* The mistake of keeping the acting device in by its new session alone.
ServeRevokeOfAll(r) ==
  /\ r.kind = "revoke" /\ UNCHANGED gaveUp
  /\ \/ RevokeRefused(r) /\ UNCHANGED server
     \/ /\ SignedIn(r) /\ Owner(r.cookies.claim) /\ epoch < MaxEpoch
        /\ epoch' = epoch + 1 /\ live' = {}
        /\ Replies(r, Answer(200, TRUE, epoch', None))

\* POST /api/host/revoke-sessions: the epoch goes up, every claim but the presented
\* one ends.
ServeRevoke(r) ==
  /\ r.kind = "revoke" /\ UNCHANGED gaveUp
  /\ \/ RevokeRefused(r) /\ UNCHANGED server
     \/ /\ SignedIn(r) /\ Owner(r.cookies.claim) /\ epoch < MaxEpoch
        /\ epoch' = epoch + 1 /\ live' = {r.cookies.claim}
        /\ Replies(r, Answer(200, TRUE, epoch', r.cookies.claim))

\* ---- what the page makes of the answers ----

Cookie(old, set) == IF set = None THEN old ELSE IF set = Cleared THEN None ELSE set
Arrives(r, kind) ==
  /\ r.kind = kind /\ r.answer # NoAnswer
  /\ jar' = [session |-> Cookie(jar.session, r.answer.session), claim |-> Cookie(jar.claim, r.answer.claim)]
  /\ gaveUp' = IF kind = "logout" /\ r.answer.status = 200 THEN "told" ELSE gaveUp
  /\ UNCHANGED <<server, probes>>
Ok(r) == r.answer.status = 200
Gone(r) == requests' = requests \ {r}

\* checkSession: one claim follows a failed probe.
SessionLands(r) ==
  /\ Arrives(r, "session")
  /\ IF Ok(r)
     THEN /\ Gone(r) /\ auth' = "authed" /\ isOwner' = r.answer.owner
     ELSE /\ requests' = (requests \ {r}) \cup {[kind |-> "claim", cookies |-> jar', answer |-> NoAnswer]}
          /\ UNCHANGED <<auth, isOwner>>
  /\ UNCHANGED <<claimThrottled, panel, revokeMsg, asked>>

ClaimEnds(ok, throttled, owner) ==
  /\ claimThrottled' = throttled /\ isOwner' = owner
  /\ auth' = IF ok THEN "authed" ELSE "gate"
  /\ UNCHANGED <<panel, revokeMsg, asked>>

ClaimLands(r) ==
  /\ Arrives(r, "claim") /\ Gone(r)
  /\ ClaimEnds(Ok(r), r.answer.status = 429, r.answer.owner)

LoginLands(r) ==
  /\ Arrives(r, "login") /\ Gone(r)
  /\ IF Ok(r) THEN auth' = "authed" /\ isOwner' = r.answer.owner ELSE UNCHANGED <<auth, isOwner>>
  /\ UNCHANGED <<claimThrottled, panel, revokeMsg, asked>>

LogoutLands(r) ==
  /\ Arrives(r, "logout") /\ Gone(r)
  /\ auth' = IF Ok(r) THEN "gate" ELSE auth
  /\ panel' = IF panel = "logout" THEN "none" ELSE panel
  /\ UNCHANGED <<isOwner, claimThrottled, revokeMsg, asked>>

ClosePanel == panel' = IF panel = "revoke" THEN "none" ELSE panel

\* The mistake of reporting every answer but a refusal as success.
RevokeLandsAsDone(r) ==
  /\ Arrives(r, "revoke") /\ Gone(r) /\ ClosePanel
  /\ revokeMsg' = IF r.answer.status = 403 THEN "ownerOnly" ELSE "done"
  /\ UNCHANGED <<auth, isOwner, claimThrottled, asked>>

RevokeLands(r) ==
  /\ Arrives(r, "revoke") /\ ClosePanel
  /\ requests' = (requests \ {r}) \cup
       (IF r.answer.status = 401 THEN {[kind |-> "session", cookies |-> jar', answer |-> NoAnswer]} ELSE {})
  /\ revokeMsg' = CASE Ok(r) -> "done"
                    [] r.answer.status = 403 -> "ownerOnly"
                    [] r.answer.status = 429 -> "throttled"
                    [] OTHER -> "error"
  /\ isOwner' = (isOwner /\ r.answer.status # 403)
  /\ UNCHANGED <<auth, claimThrottled, asked>>

LandsElsewhere(r) ==
  /\ Arrives(r, "elsewhere") /\ Gone(r)
  /\ UNCHANGED page

\* The request, or its answer, is lost.
Fails(r) ==
  /\ Gone(r)
  /\ CASE r.kind = "session" ->
            auth' = "gate" /\ UNCHANGED <<isOwner, claimThrottled, panel, revokeMsg, asked>>
       [] r.kind = "claim" -> ClaimEnds(FALSE, FALSE, FALSE)
       [] r.kind = "logout" ->
            /\ panel' = IF panel = "logout" THEN "none" ELSE panel
            /\ UNCHANGED <<auth, isOwner, claimThrottled, revokeMsg, asked>>
       [] r.kind = "revoke" ->
            ClosePanel /\ revokeMsg' = "error" /\ UNCHANGED <<auth, isOwner, claimThrottled, asked>>
       [] OTHER -> UNCHANGED page
  /\ UNCHANGED <<server, jar, probes, gaveUp>>

Serve(r) == ServeSession(r) \/ ServeClaim(r) \/ ServeLogin(r) \/ ServeLogout(r) \/ ServeRevoke(r)
Lands(r) ==
  \/ SessionLands(r) \/ ClaimLands(r) \/ LoginLands(r) \/ LogoutLands(r) \/ RevokeLands(r)
  \/ LandsElsewhere(r)

Next ==
  \/ Reload \/ Login \/ ConfirmLogout \/ ConfirmRevoke \/ ProbeElsewhere \/ SessionExpires
  \/ \E which \in {"logout", "revoke"} : Toggle(which)
  \/ \E r \in requests : Serve(r) \/ Lands(r) \/ Fails(r)

Spec == Init /\ [][Next]_vars

\* ---- properties ----

\* "Telling a venue owner the other devices are out when they may not be is the
\* worst failure this screen can have": the success message appears only when the
\* epoch went up since the owner confirmed, through lost and late answers.
DoneMeansOthersOut == revokeMsg = "done" => epoch > asked

\* "The acting device cannot be locked out by its own successful use": until it logs
\* out, the owner's device holds a session or a claim the room honours, whichever
\* answers were lost and whichever old cookie a late probe put back.
OwnerGetsBackIn == gaveUp = "no" => jar.session = epoch \/ jar.claim \in live

\* "... rather than falsely claiming they're logged out while the cookie lingers":
\* behind the gate a confirmed logout opened, no session the room honours is left.
LoggedOutMeansOut == auth = "gate" /\ gaveUp = "told" => jar.session # epoch
=============================================================================
