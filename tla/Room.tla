-------------------------------- MODULE Room --------------------------------
(***************************************************************************)
(* The room of a play session: its seats, the roles they hold, the sockets *)
(* that serve them and the token map selkies enforces.                     *)
(*                                                                         *)
(* The broker is one asyncio event loop, so a step here is what one task   *)
(* runs between two awaits that really suspend: a websocket handshake, a   *)
(* websocket close, and a token push.  Broadcasts only queue (Outbox) and  *)
(* never suspend.                                                          *)
(*                                                                         *)
(* Left out: user and display strings beyond what matching a rejoin needs, *)
(* chat and media relays (they change nothing here), the invite tokens     *)
(* (an invite arrival is a Join of an anonymous user), rate limits.        *)
(***************************************************************************)
EXTENDS Naturals, FiniteSets

CONSTANTS
  Token,          \* bearer credentials; each is minted at most once
  Conn,           \* room sockets, each with the handler task that serves it
  Pad,            \* gamepad slots, 1 .. settings.GAMEPAD_SLOTS
  User,           \* what a join can say of its user, records [id, name]
  Nickname,       \* names a member may choose with set_username
  Input,          \* what clients and the clock do: a subset of Inputs
  MaxRoomViewers, \* settings.MAX_ROOM_VIEWERS
  Attempts,       \* POSTs one push makes before it gives up
  SelkiesRefuses, \* whether a POST may be refused or go unanswered
  NoToken, NoConn, NoPad, NoId, NoName, Api

Inputs == {"assign_slot", "assign_mk", "set_designated_speaker", "set_username", "grace"}

ASSUME NullAssumption ==
  /\ NoToken \notin Token
  /\ NoConn \notin Conn
  /\ NoPad \notin Pad
  /\ Api \notin Conn \cup {NoConn}

ASSUME SizeAssumption ==
  /\ 1 \in Pad
  /\ Input \subseteq Inputs
  /\ MaxRoomViewers \in Nat
  /\ Attempts \in Nat \ {0}
  /\ SelkiesRefuses \in BOOLEAN

VARIABLES
  \* session.SESSION; it is None exactly when ctl = NoToken
  ctl,         \* SESSION["controller_token"]
  viewers,     \* the tokens of SESSION["viewers"]
  pad,         \* controller_slot and each seat's "slot"
  mk,          \* SESSION["mk_owner_token"]
  speaker,     \* SESSION["designated_speaker"]
  profile,     \* user_id, username, anonymous of each seat
  idle,        \* seats last seen SEAT_RECLAIM_GRACE_SECONDS ago or more
  minted,      \* every token drawn so far
  \* session.ROOM
  roomCtl,     \* ROOM["controller"]
  roomViewers, \* ROOM["viewers"]
  informed,    \* sockets whose last state_update shows the present room
  \* the websocket handlers
  pc,          \* where each handler is suspended
  tok,         \* the token it was opened with
  asCtl,       \* is_controller, decided before accept()
  open,        \* sockets neither side has closed
  \* the control plane
  push,        \* the one token push each task may have outstanding
  selkies,     \* the map selkies enforces
  \* the API operation that holds _SESSION_LOCK
  op,          \* "none" when nobody holds it
  opTok,       \* the token it will answer with
  opConns      \* the connections notify_session_ended took out of ROOM

sessVars == <<ctl, viewers, pad, mk, speaker, profile, idle>>
roomVars == <<roomCtl, roomViewers>>
connVars == <<pc, tok, asCtl, open>>
pushVars == <<push, selkies>>
opVars   == <<op, opTok, opConns>>
vars == <<sessVars, minted, roomVars, informed, connVars, pushVars, opVars>>

-----------------------------------------------------------------------------
(* Seats, users and token maps. *)

Active == ctl # NoToken
Seats == viewers \cup ({ctl} \ {NoToken})

\* The seats whose token some client has been given: all but the one the
\* operation in flight has yet to answer with.
Told == Seats \ {opTok}

Profile == [id : {u.id : u \in User} \cup {NoId},
            name : {u.name : u \in User} \cup Nickname \cup {NoName},
            anonymous : BOOLEAN]

Nobody == [id |-> NoId, name |-> NoName, anonymous |-> TRUE]

\* add_viewer's _same_user: by id when both sides have one, else by the name
\* the seat goes by now.  A generated "User-123" is NoName and matches nobody.
SameUser(seat, user) ==
  IF user.id # NoId /\ seat.id # NoId
  THEN seat.id = user.id
  ELSE user.name # NoName /\ seat.name = user.name

Entry == [role : {"controller", "viewer"}, pad : Pad \cup {NoPad}, mk : BOOLEAN]
TokenMaps == UNION {[S -> Entry] : S \in SUBSET Token}
EmptyMap == [t \in {} |-> [role |-> "viewer", pad |-> NoPad, mk |-> FALSE]]

\* Variant of build_token_map: control that nobody holds until it is handed out.
TokenMapNoDefault(c, vs, pads, owner) ==
  [t \in vs \cup {c} |->
     [role |-> IF t = c THEN "controller" ELSE "viewer",
      pad  |-> pads[t],
      mk   |-> t = owner]]

\* selkies.build_token_map, from the parts of the session it reads.
TokenMap(c, vs, pads, owner) ==
  [t \in vs \cup {c} |->
     [role |-> IF t = c THEN "controller" ELSE "viewer",
      pad  |-> pads[t],
      mk   |-> t = IF owner = NoToken THEN c ELSE owner]]

NoPush == [map |-> EmptyMap, left |-> 0]
Pushing(map) == [map |-> map, left |-> Attempts]
Settled(p) == push[p].left = 0

RegisteredIn(rc, rv) == ({rc} \cup {rv[t] : t \in Token}) \ {NoConn}
Registered == RegisteredIn(roomCtl, roomViewers)

\* A variant: the room is told before it changes.
BroadcastTooEarly ==
  informed' = IF Active THEN Registered ELSE informed

\* broadcast_state: nothing without a session, else a full update to everyone
\* in the room.
BroadcastState ==
  informed' = IF Active THEN RegisteredIn(roomCtl', roomViewers') ELSE informed

\* The check every frame is put to: the session and seat as they stand now.
Current(c) == Active /\ IF asCtl[c] THEN tok[c] = ctl ELSE tok[c] \in viewers

Live(c) == IF asCtl[c] THEN roomCtl = c ELSE roomViewers[tok[c]] = c

Without(f, S, none) == [t \in Token |-> IF t \in S THEN none ELSE f[t]]

\* A role (mouse and keyboard, speaker) once the seats in gone give it up, and
\* a variant in which they do not.
RoleKept(role, gone) == role
RoleAfter(role, gone) == IF role \in gone THEN NoToken ELSE role

-----------------------------------------------------------------------------
Init ==
  /\ ctl = NoToken /\ viewers = {} /\ mk = NoToken /\ speaker = NoToken
  /\ pad = [t \in Token |-> NoPad]
  /\ profile = [t \in Token |-> Nobody]
  /\ idle = {} /\ minted = {}
  /\ roomCtl = NoConn /\ roomViewers = [t \in Token |-> NoConn]
  /\ informed = {}
  /\ pc = [c \in Conn |-> "new"]
  /\ tok = [c \in Conn |-> NoToken]
  /\ asCtl = [c \in Conn |-> FALSE]
  /\ open = {}
  /\ push = [p \in Conn \cup {Api} |-> NoPush]
  /\ selkies = EmptyMap
  /\ op = "none" /\ opTok = NoToken /\ opConns = {}

-----------------------------------------------------------------------------
(* Activate, under _SESSION_LOCK. *)

\* session.new_session.  Everything _start_session does before it leaves the
\* room alone.
NewSession ==
  /\ op = "none" /\ ~Active
  /\ \E t \in Token \ minted :
       /\ ctl' = t
       /\ minted' = minted \cup {t}
       /\ pad' = [pad EXCEPT ![t] = 1]
       /\ opTok' = t
  /\ viewers' = {} /\ mk' = NoToken /\ speaker' = NoToken
  /\ op' = "launching"
  /\ informed' = {}
  /\ UNCHANGED <<profile, idle, roomVars, connVars, pushVars, opConns>>

\* session.retire_session: SESSION = None.
Retire ==
  /\ ctl' = NoToken /\ viewers' = {} /\ mk' = NoToken /\ speaker' = NoToken
  /\ pad' = [t \in Token |-> NoPad]
  /\ profile' = [t \in Token |-> Nobody]
  /\ idle' = {}

FreeLock == op' = "none" /\ opTok' = NoToken /\ opConns' = {}

\* emulator.launch raised: the session is retired and the caller gets the error.
LaunchFails ==
  /\ op = "launching"
  /\ Retire /\ FreeLock
  /\ UNCHANGED <<minted, roomVars, informed, connVars, pushVars>>

Launched ==
  /\ op = "launching"
  /\ op' = "activate push"
  /\ push' = [push EXCEPT ![Api] = Pushing(TokenMap(ctl, viewers, pad, mk))]
  /\ UNCHANGED <<sessVars, minted, roomVars, informed, connVars, selkies,
                 opTok, opConns>>

\* The answer to activate carries the controller's URL, so only from here on
\* does a client hold its token.  A refused push does not fail the activate.
Activated ==
  /\ op = "activate push" /\ Settled(Api)
  /\ push' = [push EXCEPT ![Api] = NoPush]
  /\ FreeLock
  /\ UNCHANGED <<sessVars, minted, roomVars, informed, connVars, selkies>>

-----------------------------------------------------------------------------
(* Taking a seat: _mint_viewer and add_viewer, under _SESSION_LOCK. *)

Replaced(user) == {v \in viewers : SameUser(profile[v], user)}

\* A variant that does not ask whether the guest is connected.
ReclaimableIdle(kept) == {v \in kept : profile[v].anonymous /\ v \in idle}

\* The seats one of which is given up when the room is full.  The code takes
\* the one seen longest ago; here any of them.
Reclaimable(kept) ==
  {v \in kept : profile[v].anonymous /\ roomViewers[v] = NoConn /\ v \in idle}

\* A variant of the cap, one seat too generous.
HasRoomInclusive(seated) == Cardinality(seated) <= MaxRoomViewers
HasRoom(seated) == Cardinality(seated) < MaxRoomViewers

\* The seats an arrival may push out: its user's own, and when that leaves the
\* room full one reclaimable seat.  Empty when the room refuses the arrival.
Evictions(user) ==
  LET kept == viewers \ Replaced(user)
  IN  IF HasRoom(kept)
      THEN {Replaced(user)}
      ELSE {Replaced(user) \cup {v} : v \in Reclaimable(kept)}

\* The whole admission runs without a suspension; only then are the evicted
\* seats' sockets closed.  A refused arrival (429) changes nothing: whoever
\* replaces a seat of its own has made room for itself.
AddViewer(user) ==
  /\ op = "none" /\ Active
  /\ \E gone \in Evictions(user), t \in Token \ minted :
       LET live == {roomViewers[v] : v \in gone} \ {NoConn} IN
       /\ viewers' = (viewers \ gone) \cup {t}
       /\ pad' = Without(pad, gone \cup {t}, NoPad)
       /\ mk' = RoleAfter(mk, gone)
       /\ speaker' = RoleAfter(speaker, gone)
       /\ profile' = [Without(profile, gone, Nobody) EXCEPT ![t] =
            [id |-> user.id, name |-> user.name,
             anonymous |-> user.id = NoId /\ user.name = NoName]]
       /\ idle' = idle \ gone
       /\ minted' = minted \cup {t}
       /\ roomViewers' = Without(roomViewers, gone, NoConn)
       /\ open' = open \ live
       /\ opTok' = t
       /\ IF live = {}
          THEN /\ op' = "join push"
               /\ push' = [push EXCEPT ![Api] =
                             Pushing(TokenMap(ctl, viewers', pad', mk'))]
          ELSE op' = "join close" /\ UNCHANGED push
  /\ informed' = {}
  /\ UNCHANGED <<ctl, roomCtl, pc, tok, asCtl, selkies, opConns>>

JoinPush ==
  /\ op = "join close"
  /\ op' = "join push"
  /\ push' = [push EXCEPT ![Api] = Pushing(TokenMap(ctl, viewers, pad, mk))]
  /\ UNCHANGED <<sessVars, minted, roomVars, informed, connVars, selkies,
                 opTok, opConns>>

Joined ==
  /\ op = "join push" /\ Settled(Api)
  /\ push' = [push EXCEPT ![Api] = NoPush]
  /\ UNCHANGED roomVars
  /\ BroadcastState
  /\ FreeLock
  /\ UNCHANGED <<sessVars, minted, connVars, selkies>>

-----------------------------------------------------------------------------
(* Exit, under _SESSION_LOCK. *)

\* Capture, dump and upload: the room goes on playing.
ExitBegin ==
  /\ op = "none" /\ Active
  /\ op' = "exiting"
  /\ UNCHANGED <<sessVars, minted, roomVars, informed, connVars, pushVars,
                 opTok, opConns>>

\* notify_session_ended up to its flush: every connection is forgotten first.
NotifySessionEnded ==
  /\ op = "exiting"
  /\ op' = "ending"
  /\ opConns' = Registered
  /\ roomCtl' = NoConn
  /\ roomViewers' = [t \in Token |-> NoConn]
  /\ informed' = {}
  /\ UNCHANGED <<sessVars, minted, connVars, pushVars, opTok>>

\* The flush is over and every connection taken out is closed.  Then comes the
\* wait of TOKEN_CLEAR_GRACE_SECONDS, with SESSION still active.
CloseAtSessionEnd ==
  /\ op = "ending"
  /\ op' = "grace"
  /\ open' = open \ opConns
  /\ opConns' = {}
  /\ UNCHANGED <<sessVars, minted, roomVars, informed, pc, tok, asCtl, pushVars,
                 opTok>>

ClearTokens ==
  /\ op = "grace"
  /\ op' = "clear push"
  /\ push' = [push EXCEPT ![Api] = Pushing(EmptyMap)]
  /\ UNCHANGED <<sessVars, minted, roomVars, informed, connVars, selkies,
                 opTok, opConns>>

\* A variant forgets the lock on its way out.
ExitedHoldingLock ==
  /\ op = "clear push" /\ Settled(Api)
  /\ push' = [push EXCEPT ![Api] = NoPush]
  /\ Retire
  /\ UNCHANGED <<minted, roomVars, informed, connVars, selkies, opVars>>
Exited ==
  /\ op = "clear push" /\ Settled(Api)
  /\ push' = [push EXCEPT ![Api] = NoPush]
  /\ Retire /\ FreeLock
  /\ UNCHANGED <<minted, roomVars, informed, connVars, selkies>>

-----------------------------------------------------------------------------
(* Token pushes: selkies._post.  Nothing orders two pushes in flight. *)

\* An endpoint applies the map and its answer comes back.
PushLands(p) ==
  /\ push[p].left > 0
  /\ selkies' = push[p].map
  /\ push' = [push EXCEPT ![p].left = 0]
  /\ UNCHANGED <<sessVars, minted, roomVars, informed, connVars, opVars>>

\* The map is applied but the answer is lost, so the push is tried again.
PushUnanswered(p) ==
  /\ SelkiesRefuses
  /\ push[p].left > 0
  /\ selkies' = push[p].map
  /\ push' = [push EXCEPT ![p].left = @ - 1]
  /\ UNCHANGED <<sessVars, minted, roomVars, informed, connVars, opVars>>

PushRefused(p) ==
  /\ SelkiesRefuses
  /\ push[p].left > 0
  /\ push' = [push EXCEPT ![p].left = @ - 1]
  /\ UNCHANGED <<sessVars, minted, roomVars, informed, connVars, selkies, opVars>>

-----------------------------------------------------------------------------
(* A room socket: room.room_websocket. *)

\* The handler returns, and its locals with it.
HandlerReturns(c) ==
  /\ pc' = [pc EXCEPT ![c] = "done"]
  /\ tok' = [tok EXCEPT ![c] = NoToken]
  /\ asCtl' = [asCtl EXCEPT ![c] = FALSE]

\* The credential is looked up, then accept() suspends.
Connect(c, t) ==
  /\ pc[c] = "new"
  /\ t \in Told
  /\ pc' = [pc EXCEPT ![c] = "accepting"]
  /\ tok' = [tok EXCEPT ![c] = t]
  /\ asCtl' = [asCtl EXCEPT ![c] = t = ctl]
  /\ open' = open \cup {c}
  /\ UNCHANGED <<sessVars, minted, roomVars, informed, pushVars, opVars>>

\* A controller's socket takes ROOM["controller"] whatever happened meanwhile.
RegisterController(c) ==
  /\ pc[c] = "accepting" /\ asCtl[c]
  /\ roomCtl' = c
  /\ pc' = [pc EXCEPT ![c] = "reading"]
  /\ UNCHANGED roomViewers
  /\ BroadcastState
  /\ UNCHANGED <<sessVars, minted, tok, asCtl, open, pushVars, opVars>>

\* The socket a viewer's new one takes the place of, and a variant that leaves
\* it open.
NoneSuperseded(c) == {}
Superseded(c) == {roomViewers[tok[c]]} \ {NoConn}

\* A viewer's seat is looked up again, and the socket it replaces is closed,
\* which suspends before the room is told.
RegisterViewer(c) ==
  /\ pc[c] = "accepting" /\ ~asCtl[c] /\ tok[c] \in viewers
  /\ roomViewers' = [roomViewers EXCEPT ![tok[c]] = c]
  /\ open' = open \ Superseded(c)
  /\ UNCHANGED roomCtl
  /\ IF Superseded(c) = {}
     THEN pc' = [pc EXCEPT ![c] = "reading"] /\ BroadcastState
     ELSE pc' = [pc EXCEPT ![c] = "joining"] /\ informed' = {}
  /\ UNCHANGED <<sessVars, minted, tok, asCtl, pushVars, opVars>>

\* The seat went while the handshake was in flight, or the handshake failed:
\* the handler returns before it holds anything.
RefuseSocket(c) ==
  /\ pc[c] = "accepting"
  /\ c \notin open \/ (~asCtl[c] /\ tok[c] \notin viewers)
  /\ HandlerReturns(c)
  /\ open' = open \ {c}
  /\ UNCHANGED <<sessVars, minted, roomVars, informed, pushVars, opVars>>

AnnounceJoin(c) ==
  /\ pc[c] = "joining"
  /\ pc' = [pc EXCEPT ![c] = "reading"]
  /\ UNCHANGED roomVars
  /\ BroadcastState
  /\ UNCHANGED <<sessVars, minted, tok, asCtl, open, pushVars, opVars>>

\* The peer went away, or the outbox gave up on it and closed the socket.
PeerGone(c) ==
  /\ c \in open
  /\ open' = open \ {c}
  /\ UNCHANGED <<sessVars, minted, roomVars, informed, pc, tok, asCtl, pushVars, opVars>>

-----------------------------------------------------------------------------
(* Frames.  One is served only if Current(c) holds as it is read. *)

Reading(c) == pc[c] = "reading" /\ Current(c)

\* A variant that forgets the controller may hold the slot.
DisplacedViewer(target, s) ==
  IF s = NoPad THEN {} ELSE {{v} : v \in {w \in viewers : pad[w] = s /\ w # target}}

\* Who gives its pad up when target is assigned pad s: the controller when it
\* holds it, else the first viewer that does.
Displaced(target, s) ==
  IF s = NoPad THEN {}
  ELSE IF pad[ctl] = s /\ ctl # target THEN {{ctl}}
  ELSE {{v} : v \in {w \in viewers : pad[w] = s /\ w # target}}

\* handle_assign_slot up to its push.  The room hears of it after the push.
HandleAssignSlot(c, target, s) ==
  /\ "assign_slot" \in Input
  /\ Reading(c) /\ asCtl[c]
  /\ target \in Seats
  /\ \E gone \in IF Displaced(target, s) = {} THEN {{}} ELSE Displaced(target, s) :
       pad' = [Without(pad, gone, NoPad) EXCEPT ![target] = s]
  /\ pc' = [pc EXCEPT ![c] = "pushing"]
  /\ push' = [push EXCEPT ![c] = Pushing(TokenMap(ctl, viewers, pad', mk))]
  /\ informed' = IF pad' = pad THEN informed ELSE {}
  /\ UNCHANGED <<ctl, viewers, mk, speaker, profile, idle, minted, roomVars,
                 tok, asCtl, open, selkies, opVars>>

\* handle_assign_mk: NoToken, the controller's own id and an id nobody holds
\* all hand control back to the controller.
HandleAssignMk(c, owner) ==
  /\ "assign_mk" \in Input
  /\ Reading(c) /\ asCtl[c]
  /\ owner \in viewers \cup {NoToken}
  /\ owner # mk
  /\ mk' = owner
  /\ pc' = [pc EXCEPT ![c] = "pushing"]
  /\ push' = [push EXCEPT ![c] = Pushing(TokenMap(ctl, viewers, pad, owner))]
  /\ informed' = {}
  /\ UNCHANGED <<ctl, viewers, pad, speaker, profile, idle, minted, roomVars,
                 tok, asCtl, open, selkies, opVars>>

AnnounceAssignment(c) ==
  /\ pc[c] = "pushing" /\ Settled(c)
  /\ pc' = [pc EXCEPT ![c] = "reading"]
  /\ push' = [push EXCEPT ![c] = NoPush]
  /\ UNCHANGED roomVars
  /\ BroadcastState
  /\ UNCHANGED <<sessVars, minted, tok, asCtl, open, selkies, opVars>>

SetDesignatedSpeaker(c, target) ==
  /\ "set_designated_speaker" \in Input
  /\ Reading(c) /\ asCtl[c]
  /\ target \in Seats \cup {NoToken}
  /\ speaker' = target
  /\ UNCHANGED roomVars
  /\ BroadcastState
  /\ UNCHANGED <<ctl, viewers, pad, mk, profile, idle, minted, connVars, pushVars, opVars>>

SetUsername(c, name) ==
  /\ "set_username" \in Input
  /\ Reading(c) /\ ~asCtl[c]
  /\ profile[tok[c]].name # name
  /\ profile' = [profile EXCEPT ![tok[c]].name = name]
  /\ UNCHANGED roomVars
  /\ BroadcastState
  /\ UNCHANGED <<ctl, viewers, pad, mk, speaker, idle, minted, connVars, pushVars, opVars>>

-----------------------------------------------------------------------------
(* Leaving. *)

\* The socket is gone; or an oversized frame arrived, or the frame just read finds
\* its session or seat gone, and the handler closes the socket itself, which suspends.
LeaveLoop(c) ==
  /\ pc[c] = "reading"
  /\ pc' = [pc EXCEPT ![c] = IF c \in open THEN "hanging up" ELSE "closing"]
  /\ open' = open \ {c}
  /\ UNCHANGED <<sessVars, minted, roomVars, informed, tok, asCtl, pushVars, opVars>>

HungUp(c) ==
  /\ pc[c] = "hanging up"
  /\ pc' = [pc EXCEPT ![c] = "closing"]
  /\ UNCHANGED <<sessVars, minted, roomVars, informed, tok, asCtl, open, pushVars, opVars>>

\* A variant that leaves the dead socket registered, and one that does not ask
\* whether it is still the registered one.
ControllerStays(c) == roomCtl
ControllerCleared(c) == IF asCtl[c] THEN NoConn ELSE roomCtl
ControllerAfter(c) == IF asCtl[c] /\ Live(c) THEN NoConn ELSE roomCtl

\* The outbox is shut.  Only the socket ROOM still holds has anything to clean
\* up; a controller's gives back nothing but its place.
DepartQuietly(c) ==
  /\ pc[c] = "closing"
  /\ asCtl[c] \/ ~Live(c)
  /\ roomCtl' = ControllerAfter(c)
  /\ UNCHANGED roomViewers
  /\ HandlerReturns(c)
  /\ BroadcastState
  /\ UNCHANGED <<sessVars, minted, open, pushVars, opVars>>

\* session._release_seat's pads, and a variant that keeps the pad for a return.
PadsKept(t) == pad
PadsAfter(t) == IF t \in viewers THEN [pad EXCEPT ![t] = NoPad] ELSE pad

\* A viewer's live socket gives up the speaker role, the pad and mouse and
\* keyboard; when it held either input the new map is pushed before the room
\* is told.
ReleaseSeat(c) ==
  LET t == tok[c]
      released == t \in viewers /\ (pad[t] # NoPad \/ mk = t)
  IN
  /\ pc[c] = "closing" /\ ~asCtl[c] /\ Live(c)
  /\ roomViewers' = [roomViewers EXCEPT ![t] = NoConn]
  /\ UNCHANGED roomCtl
  /\ speaker' = RoleAfter(speaker, {t})
  /\ pad' = PadsAfter(t)
  /\ mk' = RoleAfter(mk, {t} \cap viewers)
  /\ idle' = idle \ {t}
  /\ IF released
     THEN /\ pc' = [pc EXCEPT ![c] = "leaving"]
          /\ push' = [push EXCEPT ![c] = Pushing(TokenMap(ctl, viewers, pad', mk'))]
          /\ informed' = {}
          /\ UNCHANGED <<tok, asCtl>>
     ELSE /\ HandlerReturns(c)
          /\ UNCHANGED push
          /\ BroadcastState
  /\ UNCHANGED <<ctl, viewers, profile, minted, open, selkies, opVars>>

AnnounceDeparture(c) ==
  /\ pc[c] = "leaving" /\ Settled(c)
  /\ HandlerReturns(c)
  /\ push' = [push EXCEPT ![c] = NoPush]
  /\ UNCHANGED roomVars
  /\ BroadcastState
  /\ UNCHANGED <<sessVars, minted, open, selkies, opVars>>

\* SEAT_RECLAIM_GRACE_SECONDS pass since a seat was minted or last went offline.
GraceElapses(v) ==
  /\ "grace" \in Input
  /\ v \in viewers \ idle
  /\ idle' = idle \cup {v}
  /\ UNCHANGED <<ctl, viewers, pad, mk, speaker, profile, minted, roomVars,
                 informed, connVars, pushVars, opVars>>

-----------------------------------------------------------------------------
Operation ==
  \/ NewSession \/ LaunchFails \/ Launched \/ Activated
  \/ \E user \in User : AddViewer(user)
  \/ JoinPush \/ Joined
  \/ ExitBegin \/ NotifySessionEnded \/ CloseAtSessionEnd \/ ClearTokens \/ Exited

PushStep(p) == PushLands(p) \/ PushUnanswered(p) \/ PushRefused(p)

Handler(c) ==
  \/ RegisterController(c) \/ RegisterViewer(c) \/ RefuseSocket(c) \/ AnnounceJoin(c)
  \/ \E t \in Seats, s \in Pad \cup {NoPad} : HandleAssignSlot(c, t, s)
  \/ \E t \in viewers \cup {NoToken} : HandleAssignMk(c, t)
  \/ \E t \in Seats \cup {NoToken} : SetDesignatedSpeaker(c, t)
  \/ \E n \in Nickname : SetUsername(c, n)
  \/ AnnounceAssignment(c)
  \/ LeaveLoop(c) \/ HungUp(c)
  \/ DepartQuietly(c) \/ ReleaseSeat(c) \/ AnnounceDeparture(c)

Environment ==
  \/ \E c \in Conn : (\E t \in Told : Connect(c, t)) \/ PeerGone(c)
  \/ \E v \in viewers : GraceElapses(v)

Next ==
  \/ Operation
  \/ \E p \in Conn \cup {Api} : PushStep(p)
  \/ \E c \in Conn : Handler(c)
  \/ Environment

Spec == Init /\ [][Next]_vars

-----------------------------------------------------------------------------
(* Fairness: the event loop runs every task that can go on, and each POST   *)
(* has a timeout.  So has the close of a socket at the end of the session,  *)
(* but not that of a socket a join pushes out (add_viewer), of one that was *)
(* replaced, or of a handler's own: what comes after those need never come. *)
(* A closed socket holds finitely many frames, so a handler reading it gets *)
(* to the disconnect.  Nobody has to join, play or exit.                    *)

OperationContinues ==
  LaunchFails \/ Launched \/ Activated \/ Joined \/
  NotifySessionEnded \/ CloseAtSessionEnd \/ ClearTokens \/ Exited

HandlerContinues(c) ==
  \/ RegisterController(c) \/ RegisterViewer(c)
  \/ AnnounceAssignment(c) \/ DepartQuietly(c) \/ ReleaseSeat(c) \/ AnnounceDeparture(c)

Fairness ==
  /\ WF_vars(OperationContinues)
  /\ \A p \in Conn \cup {Api} : WF_vars(PushStep(p))
  /\ \A c \in Conn : /\ WF_vars(HandlerContinues(c))
                     /\ SF_vars(c \notin open /\ LeaveLoop(c))

FairSpec == Spec /\ Fairness

-----------------------------------------------------------------------------
(* Types. *)

Pcs == {"new", "accepting", "joining", "reading", "pushing", "hanging up", "closing",
        "leaving", "done"}
Ops == {"none", "launching", "activate push", "join close", "join push",
        "exiting", "ending", "grace", "clear push"}

\* Every variable keeps its type.
TypeOK ==
  /\ ctl \in Token \cup {NoToken}
  /\ viewers \in SUBSET Token
  /\ pad \in [Token -> Pad \cup {NoPad}]
  /\ mk \in Token \cup {NoToken}
  /\ speaker \in Token \cup {NoToken}
  /\ profile \in [Token -> Profile]
  /\ idle \in SUBSET Token
  /\ minted \in SUBSET Token
  /\ roomCtl \in Conn \cup {NoConn}
  /\ roomViewers \in [Token -> Conn \cup {NoConn}]
  /\ informed \in SUBSET Conn
  /\ pc \in [Conn -> Pcs]
  /\ tok \in [Conn -> Token \cup {NoToken}]
  /\ asCtl \in [Conn -> BOOLEAN]
  /\ open \in SUBSET Conn
  /\ push \in [Conn \cup {Api} -> [map : TokenMaps, left : 0 .. Attempts]]
  /\ selkies \in TokenMaps
  /\ op \in Ops
  /\ opTok \in Token \cup {NoToken}
  /\ opConns \in SUBSET Conn

-----------------------------------------------------------------------------
(* Safety. *)

\* No gamepad slot has two holders, the controller included
\* (session.handle_assign_slot, "a slot can only be held by one member").
PadsExclusive ==
  \A s, t \in Seats : pad[s] = pad[t] /\ pad[s] # NoPad => s = t

\* Mouse and keyboard and the speaker role are held by somebody who has a seat:
\* whichever way a seat goes (rejoin, reclaim, disconnect, session end), what it
\* held goes with it.  A dangling owner would leave nobody in control.
RolesNameSeats ==
  /\ mk \in viewers \cup {NoToken}
  /\ speaker \in Seats \cup {NoToken}

\* The room never seats more than MAX_ROOM_VIEWERS (session.add_viewer).
WithinCap == Cardinality(viewers) <= MaxRoomViewers

\* However people come, go, rejoin and hand input round, the seats, what they hold and
\* how many there are agree: the three together.
SeatingSound == PadsExclusive /\ RolesNameSeats /\ WithinCap

\* What selkies can route input by: no pad to two tokens, and mouse and
\* keyboard to exactly one.
Sound(map) ==
  /\ \A s, t \in DOMAIN map : map[s].pad = map[t].pad /\ map[s].pad # NoPad => s = t
  /\ DOMAIN map # {} => \E t \in DOMAIN map : \A s \in DOMAIN map : map[s].mk <=> s = t

\* Every map selkies enforces or is about to be sent is sound, however the
\* pushes that carry the maps overtake one another.
SelkiesRoutesSoundly ==
  Sound(selkies) /\ \A p \in Conn \cup {Api} : Sound(push[p].map)

\* Handlers past the handshake whose socket is still open, other than those
\* exit has already taken out of the room.
Serving == {c \in open \ opConns : pc[c] \in {"joining", "reading", "pushing"}}

\* A viewer's seat is served by one socket at most: a reconnect closes the one
\* before it, a rejoin or a reclaim closes the old seat's
\* (room.room_websocket, session.add_viewer).
OneSocketPerSeat ==
  \A c, d \in Serving : tok[c] = tok[d] /\ tok[c] \in viewers => c = d

\* Nobody still owes the room a broadcast.
Quiet ==
  /\ op \notin {"join close", "join push"}
  /\ \A c \in Conn : pc[c] \notin {"joining", "pushing", "leaving"}

\* When nobody is about to broadcast, every member's socket has been sent the
\* room as it is: no path that changes seats, pads, roles or presence forgets
\* its broadcast_state, and none sends it too early.
InformedWhenQuiet ==
  Quiet => \A c \in Registered : Current(c) => c \in informed

\* The sockets of a room and its seats agree, and what is shown on them: no seat has two,
\* and a room at rest has told every one of them how it is.
SocketsServeSeats == OneSocketPerSeat /\ InformedWhenQuiet

-----------------------------------------------------------------------------
(* Action properties. *)

SameSession == Active /\ ctl' = ctl

\* A viewer who drops out of the room in the middle of a session keeps the seat
\* but no input and no speaker role, so no pad stays with somebody who is gone.
LeavingGivesUpInput ==
  [][\A t \in viewers :
       (SameSession /\ op' # "ending" /\ roomViewers[t] # NoConn
          /\ roomViewers'[t] = NoConn /\ t \in viewers')
         => pad'[t] = NoPad /\ mk' # t /\ speaker' # t]_vars

\* A handler that winds up after its socket was replaced takes nothing from the
\* socket that replaced it: neither its place in the room nor what it holds.
ReplacedHandlerTakesNothing ==
  [][\A c \in Conn :
       (pc[c] = "closing" /\ pc'[c] # "closing" /\ c \notin Registered)
         => UNCHANGED <<roomVars, viewers, pad, mk, speaker>>]_vars

\* Input is given up by whoever drops out, and by nobody on a predecessor's account.
InputFollowsTheSocket == LeavingGivesUpInput /\ ReplacedHandlerTakesNothing

\* A connected guest is never the one whose seat a full room gives away.
ConnectedGuestKeepsSeat ==
  [][\A t \in viewers :
       (SameSession /\ profile[t].anonymous /\ profile[t].name = NoName
          /\ roomViewers[t] # NoConn)
         => t \in viewers']_vars

-----------------------------------------------------------------------------
(* Liveness, under FairSpec. *)

\* Where a task waits for a close that has no timeout.
ClosingOps == {"join close"}
ClosingPcs == {"joining", "hanging up"}

\* _SESSION_LOCK comes free again, so no activate, join or exit is refused for
\* ever, unless it is by a join that closes the socket of the seat it took the
\* place of: nowhere else can an operation stay.
LockComesFree == op # "none" ~> op \in {"none"} \cup ClosingOps

\* A dead socket does not keep its place in the room, unless its handler is in a
\* close, its own or that of the socket it replaced.
DeadSocketLeaves ==
  \A c \in Conn :
    (c \in Registered /\ c \notin open) ~> (c \notin Registered \/ pc[c] \in ClosingPcs)

\* Nothing is waited for for ever but a close that the code gives no timeout:
\* neither the lock nor a dead socket's place.
NothingStays == LockComesFree /\ DeadSocketLeaves

-----------------------------------------------------------------------------
(* Claims of the repository that do not hold. *)

\* selkies.py: "The broker just keeps that map in sync with room state."  With
\* every push accepted and none in flight, the map is the room's.
SelkiesInSync ==
  (Active /\ op \in {"none", "exiting"} /\ \A p \in Conn \cup {Api} : push[p] = NoPush)
    => selkies = TokenMap(ctl, viewers, pad, mk)
=============================================================================
