----------------------------- MODULE RoomProofs -----------------------------
(***************************************************************************)
(* Proofs about Room for every set of tokens, sockets, pads and users.     *)
(***************************************************************************)
EXTENDS Room, FiniteSetTheorems, TLAPS

USE NullAssumption, SizeAssumption

-----------------------------------------------------------------------------
(* Token maps. *)

\* build_token_map returns a token map.
LEMMA TokenMapType ==
  ASSUME NEW c \in Token, NEW vs \in SUBSET Token,
         NEW pads \in [Token -> Pad \cup {NoPad}], NEW owner
  PROVE  TokenMap(c, vs, pads, owner) \in TokenMaps
<1> DEFINE m == TokenMap(c, vs, pads, owner)
<1>1. m \in [vs \cup {c} -> Entry]
  BY DEF TokenMap, Entry
<1>2. vs \cup {c} \in SUBSET Token
  OBVIOUS
<1> QED
  BY <1>1, <1>2 DEF TokenMaps

LEMMA EmptyMapType == EmptyMap \in TokenMaps
<1>1. EmptyMap \in [{} -> Entry]
  BY DEF EmptyMap
<1> QED
  BY <1>1 DEF TokenMaps

\* The type of the push table survives starting a push, settling one and
\* dropping one.
PushTable == [Conn \cup {Api} -> [map : TokenMaps, left : 0 .. Attempts]]

LEMMA PushTableType ==
  ASSUME push \in PushTable, NEW p \in Conn \cup {Api}
  PROVE  /\ \A m \in TokenMaps : [push EXCEPT ![p] = Pushing(m)] \in PushTable
         /\ [push EXCEPT ![p] = NoPush] \in PushTable
         /\ [push EXCEPT ![p].left = 0] \in PushTable
         /\ push[p].left > 0 => [push EXCEPT ![p].left = @ - 1] \in PushTable
         /\ push[p].map \in TokenMaps
<1>1. \A m \in TokenMaps : Pushing(m) \in [map : TokenMaps, left : 0 .. Attempts]
  BY DEF Pushing
<1>2. NoPush \in [map : TokenMaps, left : 0 .. Attempts]
  BY EmptyMapType DEF NoPush
<1>3. push[p] \in [map : TokenMaps, left : 0 .. Attempts]
  BY DEF PushTable
<1>4. push[p].left > 0 => push[p].left - 1 \in 0 .. Attempts
  BY <1>3
<1> QED
  BY <1>1, <1>2, <1>3, <1>4 DEF PushTable

-----------------------------------------------------------------------------
(* Types. *)

\* The seats and the lock belong to a session: an operation in flight and a
\* seated viewer both imply one.
SessionInv ==
  /\ op # "none" => Active
  /\ viewers # {} => Active

LEMMA InitType == Init => TypeOK /\ SessionInv
<1>1. NoPush \in [map : TokenMaps, left : 0 .. Attempts]
  BY EmptyMapType DEF NoPush
<1>2. Nobody \in Profile
  BY DEF Nobody, Profile
<1> QED
  BY <1>1, <1>2, EmptyMapType DEF Init, TypeOK, SessionInv, Pcs, Ops

\* broadcast_state reaches sockets and nothing else.
LEMMA BroadcastType ==
  ASSUME TypeOK, BroadcastState,
         roomCtl' \in Conn \cup {NoConn}, roomViewers' \in [Token -> Conn \cup {NoConn}]
  PROVE  informed' \in SUBSET Conn
<1>1. RegisteredIn(roomCtl', roomViewers') \in SUBSET Conn
  BY DEF RegisteredIn
<1> QED
  BY <1>1 DEF BroadcastState, TypeOK

LEMMA OperationType == TypeOK /\ SessionInv /\ Operation => TypeOK' /\ SessionInv'
<1> SUFFICES ASSUME TypeOK, SessionInv, Operation PROVE TypeOK' /\ SessionInv'
  OBVIOUS
<1> USE DEF TypeOK, SessionInv, Active, Ops, sessVars, roomVars, connVars, pushVars, opVars
<1>a. Nobody \in Profile
  BY DEF Nobody, Profile
<1>b. Active => TokenMap(ctl, viewers, pad, mk) \in TokenMaps
  BY TokenMapType
<1>c. /\ \A m \in TokenMaps : [push EXCEPT ![Api] = Pushing(m)] \in PushTable
      /\ [push EXCEPT ![Api] = NoPush] \in PushTable
  BY PushTableType DEF PushTable
<1>1. CASE NewSession
  BY <1>1 DEF NewSession
<1>2. CASE LaunchFails
  BY <1>a, <1>2 DEF LaunchFails, Retire, FreeLock
<1>3. CASE Launched
  <2>1. push' \in PushTable
    BY <1>b, <1>c, <1>3 DEF Launched
  <2> QED
    BY <1>3, <2>1 DEF Launched, PushTable
<1>4. CASE Activated
  BY <1>c, <1>4 DEF Activated, FreeLock, PushTable
<1>5. ASSUME NEW user \in User, AddViewer(user)
      PROVE  TypeOK' /\ SessionInv'
  <2>1. PICK gone \in Evictions(user), t \in Token \ minted :
          /\ viewers' = (viewers \ gone) \cup {t}
          /\ pad' = Without(pad, gone \cup {t}, NoPad)
          /\ mk' = IF mk \in gone THEN NoToken ELSE mk
          /\ speaker' = IF speaker \in gone THEN NoToken ELSE speaker
          /\ profile' = [Without(profile, gone, Nobody) EXCEPT ![t] =
               [id |-> user.id, name |-> user.name,
                anonymous |-> user.id = NoId /\ user.name = NoName]]
          /\ idle' = idle \ gone
          /\ minted' = minted \cup {t}
          /\ roomViewers' = Without(roomViewers, gone, NoConn)
          /\ open' = open \ ({roomViewers[v] : v \in gone} \ {NoConn})
          /\ opTok' = t
          /\ \/ /\ op' = "join push"
                /\ push' = [push EXCEPT ![Api] =
                              Pushing(TokenMap(ctl, viewers', pad', mk'))]
             \/ op' = "join close" /\ UNCHANGED push
    BY <1>5 DEF AddViewer, RoleAfter
  <2>2. pad' \in [Token -> Pad \cup {NoPad}] /\ roomViewers' \in [Token -> Conn \cup {NoConn}]
    BY <2>1 DEF Without
  <2>3. profile' \in [Token -> Profile]
    <3>1. [id |-> user.id, name |-> user.name,
           anonymous |-> user.id = NoId /\ user.name = NoName] \in Profile
      BY DEF Profile
    <3>2. Without(profile, gone, Nobody) \in [Token -> Profile]
      BY <1>a DEF Without
    <3> QED
      BY <2>1, <3>1, <3>2
  <2>4. /\ ctl \in Token /\ ctl' = ctl /\ informed' = {} /\ selkies' = selkies
        /\ UNCHANGED <<roomCtl, pc, tok, asCtl, opConns>>
    BY <1>5 DEF AddViewer
  <2>5. viewers' \in SUBSET Token
    BY <2>1
  <2>6. push' \in PushTable
    <3>1. TokenMap(ctl, viewers', pad', mk') \in TokenMaps
      BY <2>2, <2>4, <2>5, TokenMapType
    <3>2. push \in PushTable
      BY DEF PushTable
    <3>3. \/ push' = [push EXCEPT ![Api] = Pushing(TokenMap(ctl, viewers', pad', mk'))]
          \/ push' = push
      BY <2>1
    <3>4. [push EXCEPT ![Api] = Pushing(TokenMap(ctl, viewers', pad', mk'))] \in PushTable
      BY ONLY <1>c, <3>1
    <3> QED
      BY ONLY <3>2, <3>3, <3>4
  <2> QED
    BY <2>1, <2>2, <2>3, <2>4, <2>5, <2>6 DEF PushTable
<1>6. CASE JoinPush
  <2>1. push' \in PushTable
    BY <1>b, <1>c, <1>6 DEF JoinPush
  <2> QED
    BY <1>6, <2>1 DEF JoinPush, PushTable
<1>7. CASE Joined
  <2>1. informed' \in SUBSET Conn
    BY <1>7, BroadcastType DEF Joined
  <2> QED
    BY <1>c, <1>7, <2>1 DEF Joined, FreeLock, PushTable
<1>8. CASE ExitBegin
  BY <1>8 DEF ExitBegin
<1>9. CASE NotifySessionEnded
  BY <1>9 DEF NotifySessionEnded, Registered, RegisteredIn
<1>10. CASE CloseAtSessionEnd
  BY <1>10 DEF CloseAtSessionEnd
<1>11. CASE ClearTokens
  BY <1>c, <1>11, EmptyMapType DEF ClearTokens, PushTable
<1>12. CASE Exited
  BY <1>a, <1>c, <1>12 DEF Exited, Retire, FreeLock, PushTable
<1> QED
  BY <1>1, <1>2, <1>3, <1>4, <1>5, <1>6, <1>7, <1>8, <1>9, <1>10, <1>11, <1>12
  DEF Operation

LEMMA HandlerType ==
  ASSUME TypeOK, SessionInv, NEW c \in Conn, Handler(c)
  PROVE  TypeOK' /\ SessionInv'
<1> USE DEF TypeOK, SessionInv, Active, Pcs, sessVars, roomVars, connVars, pushVars, opVars
<1>c. /\ \A m \in TokenMaps : [push EXCEPT ![c] = Pushing(m)] \in PushTable
      /\ [push EXCEPT ![c] = NoPush] \in PushTable
  BY PushTableType DEF PushTable
<1>1. CASE RegisterController(c)
  <2>1. informed' \in SUBSET Conn
    BY <1>1, BroadcastType DEF RegisterController
  <2> QED
    BY <1>1, <2>1 DEF RegisterController
<1>2. CASE RegisterViewer(c)
  <2>1. informed' \in SUBSET Conn
    BY <1>2, BroadcastType DEF RegisterViewer
  <2> QED
    BY <1>2, <2>1 DEF RegisterViewer
<1>3. CASE RefuseSocket(c)
  BY <1>3 DEF RefuseSocket, HandlerReturns
<1>4. CASE AnnounceJoin(c)
  BY <1>4, BroadcastType DEF AnnounceJoin
<1>5. ASSUME NEW t \in Seats, NEW s \in Pad \cup {NoPad}, HandleAssignSlot(c, t, s)
      PROVE  TypeOK' /\ SessionInv'
  <2>1. pad' \in [Token -> Pad \cup {NoPad}]
    BY <1>5 DEF HandleAssignSlot, Without
  <2>2. push' \in PushTable
    <3>1. TokenMap(ctl, viewers, pad', mk) \in TokenMaps
      BY <1>5, <2>1, TokenMapType DEF HandleAssignSlot, Reading, Current
    <3> QED
      BY <1>c, <1>5, <3>1 DEF HandleAssignSlot
  <2> QED
    BY <1>5, <2>1, <2>2 DEF HandleAssignSlot, PushTable
<1>6. ASSUME NEW t \in viewers \cup {NoToken}, HandleAssignMk(c, t)
      PROVE  TypeOK' /\ SessionInv'
  <2>1. push' \in PushTable
    <3>1. TokenMap(ctl, viewers, pad, t) \in TokenMaps
      BY <1>6, TokenMapType DEF HandleAssignMk, Reading, Current
    <3> QED
      BY <1>c, <1>6, <3>1 DEF HandleAssignMk
  <2> QED
    BY <1>6, <2>1 DEF HandleAssignMk, PushTable
<1>7. ASSUME NEW t \in Seats \cup {NoToken}, SetDesignatedSpeaker(c, t)
      PROVE  TypeOK' /\ SessionInv'
  BY <1>7, BroadcastType DEF SetDesignatedSpeaker, Seats
<1>8. ASSUME NEW n \in Nickname, SetUsername(c, n)
      PROVE  TypeOK' /\ SessionInv'
  <2>1. informed' \in SUBSET Conn
    BY <1>8, BroadcastType DEF SetUsername
  <2>2. profile' \in [Token -> Profile]
    <3>1. tok[c] \in Token
      BY <1>8 DEF SetUsername, Reading, Current
    <3> DEFINE p == profile[tok[c]]
    <3>a. p \in Profile
      BY <3>1
    <3> HIDE DEF p
    <3>b. n \in {u.name : u \in User} \cup Nickname \cup {NoName}
      OBVIOUS
    <3>c. [p EXCEPT !.name = n] \in Profile
      BY <3>a, <3>b DEF Profile
    <3>2. [profile[tok[c]] EXCEPT !.name = n] \in Profile
      BY <3>c DEF p
    <3> QED
      BY <1>8, <3>1, <3>2 DEF SetUsername
  <2> QED
    BY <1>8, <2>1, <2>2 DEF SetUsername
<1>9. CASE AnnounceAssignment(c)
  <2>1. informed' \in SUBSET Conn
    BY <1>9, BroadcastType DEF AnnounceAssignment
  <2> QED
    BY <1>c, <1>9, <2>1 DEF AnnounceAssignment, PushTable
<1>10. CASE LeaveLoop(c) \/ HungUp(c)
  BY <1>10 DEF LeaveLoop, HungUp
<1>11. CASE DepartQuietly(c)
  <2>1. informed' \in SUBSET Conn
    BY <1>11, BroadcastType DEF DepartQuietly, ControllerAfter
  <2> QED
    BY <1>11, <2>1 DEF DepartQuietly, HandlerReturns, ControllerAfter
<1>12. CASE ReleaseSeat(c)
  <2>1. /\ roomViewers' \in [Token -> Conn \cup {NoConn}]
        /\ speaker' \in Token \cup {NoToken}
        /\ pad' \in [Token -> Pad \cup {NoPad}]
        /\ mk' \in Token \cup {NoToken}
        /\ idle' \in SUBSET Token
    BY <1>12 DEF ReleaseSeat, PadsAfter, RoleAfter
  <2>2. informed' \in SUBSET Conn
    BY <1>12, <2>1, BroadcastType DEF ReleaseSeat
  <2>3. push' \in PushTable
    <3> DEFINE m == TokenMap(ctl, viewers, pad', mk')
    <3>1. tok[c] \in viewers => m \in TokenMaps
      BY <2>1, TokenMapType
    <3>2. push' = push \/ (tok[c] \in viewers /\ push' = [push EXCEPT ![c] = Pushing(m)])
      BY <1>12 DEF ReleaseSeat
    <3> HIDE DEF m, TypeOK, SessionInv
    <3>3. tok[c] \in viewers => [push EXCEPT ![c] = Pushing(m)] \in PushTable
      BY <1>c, <3>1
    <3>4. push \in PushTable
      BY DEF TypeOK, PushTable
    <3> QED
      BY <3>2, <3>3, <3>4
  <2>4. /\ pc' \in [Conn -> Pcs] /\ tok' \in [Conn -> Token \cup {NoToken}]
        /\ asCtl' \in [Conn -> BOOLEAN]
    <3>1. \/ pc' = [pc EXCEPT ![c] = "leaving"] /\ UNCHANGED <<tok, asCtl>>
          \/ HandlerReturns(c)
      BY <1>12 DEF ReleaseSeat
    <3> QED
      BY <3>1 DEF HandlerReturns
  <2> QED
    BY <1>12, <2>1, <2>2, <2>3, <2>4 DEF ReleaseSeat, PushTable
<1>13. CASE AnnounceDeparture(c)
  <2>1. informed' \in SUBSET Conn
    BY <1>13, BroadcastType DEF AnnounceDeparture
  <2> QED
    BY <1>c, <1>13, <2>1 DEF AnnounceDeparture, HandlerReturns, PushTable
<1> QED
  BY <1>1, <1>2, <1>3, <1>4, <1>5, <1>6, <1>7, <1>8, <1>9, <1>10, <1>11, <1>12, <1>13
  DEF Handler

LEMMA NextType == TypeOK /\ SessionInv /\ [Next]_vars => TypeOK' /\ SessionInv'
<1> SUFFICES ASSUME TypeOK, SessionInv, [Next]_vars PROVE TypeOK' /\ SessionInv'
  OBVIOUS
<1> USE DEF sessVars, roomVars, connVars, pushVars, opVars
<1>1. CASE Operation
  BY <1>1, OperationType
<1>2. ASSUME NEW p \in Conn \cup {Api}, PushStep(p) PROVE TypeOK' /\ SessionInv'
  <2>1. push \in PushTable
    BY DEF TypeOK, PushTable
  <2>2. push' \in PushTable /\ selkies' \in TokenMaps
    <3>1. CASE PushLands(p)
      BY <2>1, <3>1, PushTableType DEF PushLands
    <3>2. CASE PushUnanswered(p)
      BY <2>1, <3>2, PushTableType DEF PushUnanswered
    <3>3. CASE PushRefused(p)
      BY <2>1, <3>3, PushTableType DEF PushRefused, TypeOK
    <3> QED
      BY <1>2, <3>1, <3>2, <3>3 DEF PushStep
  <2>3. UNCHANGED <<sessVars, minted, roomVars, informed, connVars, opVars>>
    BY <1>2 DEF PushStep, PushLands, PushUnanswered, PushRefused
  <2> QED
    BY <2>2, <2>3 DEF TypeOK, SessionInv, Active, PushTable
<1>3. ASSUME NEW c \in Conn, Handler(c) PROVE TypeOK' /\ SessionInv'
  BY <1>3, HandlerType
<1>4. CASE Environment
  <2>1. ASSUME NEW c \in Conn, NEW t \in Told, Connect(c, t) PROVE TypeOK' /\ SessionInv'
    BY <2>1 DEF TypeOK, SessionInv, Active, Connect, Told, Seats, Pcs
  <2>2. ASSUME NEW c \in Conn, PeerGone(c) PROVE TypeOK' /\ SessionInv'
    BY <2>2 DEF TypeOK, SessionInv, Active, PeerGone
  <2>3. ASSUME NEW v \in viewers, GraceElapses(v) PROVE TypeOK' /\ SessionInv'
    BY <2>3 DEF TypeOK, SessionInv, Active, GraceElapses
  <2> QED
    BY <1>4, <2>1, <2>2, <2>3 DEF Environment
<1>5. CASE UNCHANGED vars
  BY <1>5 DEF TypeOK, SessionInv, Active, vars
<1> QED
  BY <1>1, <1>2, <1>3, <1>4, <1>5 DEF Next

\* Every variable of the room keeps its type, whatever clients, pushes and
\* session operations interleave.
THEOREM TypeCorrect == Spec => [](TypeOK /\ SessionInv)
BY InitType, NextType, PTL DEF Spec

-----------------------------------------------------------------------------
(* What a step may do to the seats and to the pushes. *)

\* Only these actions touch who is seated and what they hold.
LEMMA SeatSteps ==
  ASSUME [Next]_vars
  PROVE  \/ NewSession
         \/ Retire
         \/ \E user \in User : AddViewer(user)
         \/ \E c \in Conn, t \in Seats, s \in Pad \cup {NoPad} : HandleAssignSlot(c, t, s)
         \/ \E c \in Conn, t \in viewers \cup {NoToken} : HandleAssignMk(c, t)
         \/ \E c \in Conn, t \in Seats \cup {NoToken} : SetDesignatedSpeaker(c, t)
         \/ \E c \in Conn : ReleaseSeat(c)
         \/ UNCHANGED <<ctl, viewers, pad, mk, speaker>>
<1> USE DEF sessVars
<1>1. CASE Operation
  BY <1>1
  DEF Operation, LaunchFails, Launched, Activated, JoinPush, Joined, ExitBegin,
      NotifySessionEnded, CloseAtSessionEnd, ClearTokens, Exited
<1>2. ASSUME NEW p \in Conn \cup {Api}, PushStep(p)
      PROVE  UNCHANGED <<ctl, viewers, pad, mk, speaker>>
  BY <1>2 DEF PushStep, PushLands, PushUnanswered, PushRefused
<1>3. ASSUME NEW c \in Conn, Handler(c)
      PROVE  \/ \E t \in Seats, s \in Pad \cup {NoPad} : HandleAssignSlot(c, t, s)
             \/ \E t \in viewers \cup {NoToken} : HandleAssignMk(c, t)
             \/ \E t \in Seats \cup {NoToken} : SetDesignatedSpeaker(c, t)
             \/ ReleaseSeat(c)
             \/ UNCHANGED <<ctl, viewers, pad, mk, speaker>>
  BY <1>3
  DEF Handler, RegisterController, RegisterViewer, RefuseSocket, AnnounceJoin,
      SetUsername, AnnounceAssignment, LeaveLoop, HungUp, DepartQuietly, AnnounceDeparture
<1>4. CASE Environment
  BY <1>4 DEF Environment, Connect, PeerGone, GraceElapses
<1>5. CASE UNCHANGED vars
  BY <1>5 DEF vars
<1> QED
  BY <1>1, <1>2, <1>3, <1>4, <1>5 DEF Next

-----------------------------------------------------------------------------
(* Roles. *)

LEMMA RolesStep == SessionInv /\ RolesNameSeats /\ [Next]_vars => RolesNameSeats'
<1> SUFFICES ASSUME SessionInv, RolesNameSeats, [Next]_vars PROVE RolesNameSeats'
  OBVIOUS
<1> USE DEF RolesNameSeats, Seats
<1>1. CASE NewSession
  BY <1>1 DEF NewSession
<1>2. CASE Retire
  BY <1>2 DEF Retire
<1>3. ASSUME NEW user \in User, AddViewer(user)
      PROVE  RolesNameSeats'
  BY <1>3 DEF AddViewer, RoleAfter
<1>4. ASSUME NEW c \in Conn, NEW t \in Seats, NEW s \in Pad \cup {NoPad},
             HandleAssignSlot(c, t, s)
      PROVE  RolesNameSeats'
  BY <1>4 DEF HandleAssignSlot
<1>5. ASSUME NEW c \in Conn, NEW t \in viewers \cup {NoToken}, HandleAssignMk(c, t)
      PROVE  RolesNameSeats'
  BY <1>5 DEF HandleAssignMk
<1>6. ASSUME NEW c \in Conn, NEW t \in Seats \cup {NoToken}, SetDesignatedSpeaker(c, t)
      PROVE  RolesNameSeats'
  BY <1>6 DEF SetDesignatedSpeaker
<1>7. ASSUME NEW c \in Conn, ReleaseSeat(c)
      PROVE  RolesNameSeats'
  BY <1>7 DEF ReleaseSeat, RoleAfter
<1>8. CASE UNCHANGED <<ctl, viewers, pad, mk, speaker>>
  BY <1>8
<1> QED
  BY <1>1, <1>2, <1>3, <1>4, <1>5, <1>6, <1>7, <1>8, SeatSteps

\* The mouse-and-keyboard owner and the designated speaker always have a seat
\* in the running session, however seats are lost.
THEOREM RolesNameSeatsHolds == Spec => []RolesNameSeats
<1>1. Init => RolesNameSeats
  BY DEF Init, RolesNameSeats
<1> QED
  BY <1>1, RolesStep, TypeCorrect, PTL DEF Spec

-----------------------------------------------------------------------------
(* Pads. *)

LEMMA PadsStep ==
  TypeOK /\ SessionInv /\ PadsExclusive /\ [Next]_vars => PadsExclusive'
<1> SUFFICES ASSUME TypeOK, SessionInv, PadsExclusive, [Next]_vars PROVE PadsExclusive'
  OBVIOUS
<1> USE DEF PadsExclusive, Seats, TypeOK
<1>1. CASE NewSession
  BY <1>1 DEF NewSession
<1>2. CASE Retire
  BY <1>2 DEF Retire
<1>3. ASSUME NEW user \in User, AddViewer(user)
      PROVE  PadsExclusive'
  <2>1. PICK gone \in Evictions(user), t \in Token \ minted :
          /\ viewers' = (viewers \ gone) \cup {t}
          /\ pad' = Without(pad, gone \cup {t}, NoPad)
    BY <1>3 DEF AddViewer
  <2>2. ctl' = ctl
    BY <1>3 DEF AddViewer
  <2>3. \A s \in Seats' : pad'[s] = NoPad \/ (s \in Seats /\ pad'[s] = pad[s])
    BY <2>1, <2>2 DEF Without
  <2> QED
    BY <2>3
<1>4. ASSUME NEW c \in Conn, NEW t \in Seats, NEW s \in Pad \cup {NoPad},
             HandleAssignSlot(c, t, s)
      PROVE  PadsExclusive'
  <2>1. PICK gone \in IF Displaced(t, s) = {} THEN {{}} ELSE Displaced(t, s) :
          pad' = [Without(pad, gone, NoPad) EXCEPT ![t] = s]
    BY <1>4 DEF HandleAssignSlot
  <2>2. ctl' = ctl /\ viewers' = viewers /\ ctl \in Token
    BY <1>4 DEF HandleAssignSlot, Reading, Current, Active
  <2>3. \A x \in Token : pad'[x] = IF x = t THEN s ELSE IF x \in gone THEN NoPad ELSE pad[x]
    BY <2>1 DEF Without
  <2>4. \A x \in Seats : x # t /\ s # NoPad /\ pad[x] = s => x \in gone
    <3> SUFFICES ASSUME NEW x \in Seats, x # t, s # NoPad, pad[x] = s
                 PROVE  x \in gone
      OBVIOUS
    <3>1. CASE x = ctl
      BY <2>1, <3>1 DEF Displaced
    <3>2. CASE x # ctl
      <4>1. pad[ctl] # s \/ ctl = t
        BY <2>2, <3>2
      <4>2. x \in viewers /\ \A w \in viewers : pad[w] = s => w = x
        BY <3>2
      <4>3. Displaced(t, s) = {{x}}
        BY <4>1, <4>2 DEF Displaced
      <4> QED
        BY <2>1, <4>3
    <3> QED
      BY <3>1, <3>2
  <2> QED
    BY <2>2, <2>3, <2>4
<1>5. ASSUME NEW c \in Conn, NEW t \in viewers \cup {NoToken}, HandleAssignMk(c, t)
      PROVE  PadsExclusive'
  BY <1>5 DEF HandleAssignMk
<1>6. ASSUME NEW c \in Conn, NEW t \in Seats \cup {NoToken}, SetDesignatedSpeaker(c, t)
      PROVE  PadsExclusive'
  BY <1>6 DEF SetDesignatedSpeaker
<1>7. ASSUME NEW c \in Conn, ReleaseSeat(c)
      PROVE  PadsExclusive'
  <2>1. ctl' = ctl /\ viewers' = viewers
    BY <1>7 DEF ReleaseSeat
  <2>2. \A x \in Seats : pad'[x] = NoPad \/ pad'[x] = pad[x]
    BY <1>7 DEF ReleaseSeat, PadsAfter
  <2> QED
    BY <2>1, <2>2
<1>8. CASE UNCHANGED <<ctl, viewers, pad, mk, speaker>>
  BY <1>8
<1> QED
  BY <1>1, <1>2, <1>3, <1>4, <1>5, <1>6, <1>7, <1>8, SeatSteps

\* No gamepad slot ever has two holders.
THEOREM PadsExclusiveHolds == Spec => []PadsExclusive
<1>1. Init => PadsExclusive
  BY DEF Init, PadsExclusive, Seats
<1> QED
  BY <1>1, PadsStep, TypeCorrect, PTL DEF Spec

-----------------------------------------------------------------------------
(* The seat cap. *)

CapInv == IsFiniteSet(viewers) /\ WithinCap

LEMMA CapStep == CapInv /\ [Next]_vars => CapInv'
<1> SUFFICES ASSUME CapInv, [Next]_vars PROVE CapInv'
  OBVIOUS
<1> USE DEF CapInv, WithinCap
<1>1. CASE NewSession \/ Retire
  BY <1>1, FS_EmptySet DEF NewSession, Retire
<1>2. ASSUME NEW user \in User, AddViewer(user)
      PROVE  CapInv'
  <2> DEFINE kept == viewers \ Replaced(user)
  <2>1. PICK gone \in Evictions(user), t \in Token \ minted :
          viewers' = (viewers \ gone) \cup {t}
    BY <1>2 DEF AddViewer
  <2>2. /\ IsFiniteSet(kept)
        /\ Cardinality(kept) \in Nat
        /\ Cardinality(viewers) \in Nat
        /\ Cardinality(kept) <= Cardinality(viewers)
    BY FS_Subset, FS_CardinalityType
  <2>3. IsFiniteSet(viewers \ gone)
    BY FS_Subset
  <2>4. Cardinality(viewers \ gone) < MaxRoomViewers
    <3>1. CASE Cardinality(kept) < MaxRoomViewers
      BY <2>1, <3>1 DEF Evictions, HasRoom
    <3>2. CASE ~(Cardinality(kept) < MaxRoomViewers)
      <4>1. PICK v \in Reclaimable(kept) : gone = Replaced(user) \cup {v}
        BY <2>1, <3>2 DEF Evictions, HasRoom
      <4>2. v \in kept /\ viewers \ gone = kept \ {v}
        BY <4>1 DEF Reclaimable
      <4>3. Cardinality(kept \ {v}) = Cardinality(kept) - 1
        BY <2>2, <4>2, FS_RemoveElement
      <4>4. Cardinality(viewers \ gone) = Cardinality(kept) - 1
        BY <4>2, <4>3
      <4>5. Cardinality(viewers) <= MaxRoomViewers
        OBVIOUS
      <4> HIDE DEF kept
      <4> QED
        BY <2>2, <4>4, <4>5
    <3> QED
      BY <3>1, <3>2
  <2>5. /\ IsFiniteSet(viewers')
        /\ Cardinality(viewers') = Cardinality(viewers \ gone)
           \/ Cardinality(viewers') = Cardinality(viewers \ gone) + 1
    BY <2>1, <2>3, FS_AddElement
  <2>6. Cardinality(viewers \ gone) \in Nat
    BY <2>3, FS_CardinalityType
  <2> QED
    BY <2>4, <2>5, <2>6
<1>3. CASE UNCHANGED viewers
  BY <1>3
<1>4. ASSUME NEW c \in Conn, NEW t \in Seats, NEW s \in Pad \cup {NoPad},
             HandleAssignSlot(c, t, s)
      PROVE  UNCHANGED viewers
  BY <1>4 DEF HandleAssignSlot
<1>5. ASSUME NEW c \in Conn, NEW t \in viewers \cup {NoToken}, HandleAssignMk(c, t)
      PROVE  UNCHANGED viewers
  BY <1>5 DEF HandleAssignMk
<1>6. ASSUME NEW c \in Conn, NEW t \in Seats \cup {NoToken}, SetDesignatedSpeaker(c, t)
      PROVE  UNCHANGED viewers
  BY <1>6 DEF SetDesignatedSpeaker
<1>7. ASSUME NEW c \in Conn, ReleaseSeat(c)
      PROVE  UNCHANGED viewers
  BY <1>7 DEF ReleaseSeat
<1> QED
  BY <1>1, <1>2, <1>3, <1>4, <1>5, <1>6, <1>7, SeatSteps

\* The room never seats more viewers than its cap.
THEOREM WithinCapHolds == Spec => []WithinCap
<1>1. Init => CapInv
  BY FS_EmptySet DEF Init, CapInv, WithinCap
<1>2. Spec => []CapInv
  BY <1>1, CapStep, PTL DEF Spec
<1> QED
  BY <1>2, PTL DEF CapInv

-----------------------------------------------------------------------------
(* What selkies is sent. *)

\* A map built from exclusive pads and an owner with a seat is sound.
LEMMA SoundMap ==
  ASSUME NEW c \in Token, NEW vs \in SUBSET Token,
         NEW pads \in [Token -> Pad \cup {NoPad}], NEW owner \in vs \cup {NoToken},
         \A s, t \in vs \cup {c} : pads[s] = pads[t] /\ pads[s] # NoPad => s = t
  PROVE  Sound(TokenMap(c, vs, pads, owner))
<1> DEFINE m == TokenMap(c, vs, pads, owner)
           o == IF owner = NoToken THEN c ELSE owner
<1>1. /\ DOMAIN m = vs \cup {c}
      /\ \A t \in vs \cup {c} : m[t].pad = pads[t] /\ (m[t].mk <=> t = o)
  BY DEF TokenMap
<1>2. o \in vs \cup {c}
  OBVIOUS
<1> HIDE DEF m, o
<1>3. Sound(m)
  BY <1>1, <1>2 DEF Sound
<1> QED
  BY <1>3 DEF m

LEMMA SoundEmpty == Sound(EmptyMap)
BY DEF Sound, EmptyMap

\* The session's own map, when there is a session.
OwnMap == TokenMap(ctl, viewers, pad, mk)

LEMMA OwnMapSound ==
  TypeOK /\ RolesNameSeats /\ PadsExclusive /\ Active => Sound(OwnMap)
<1> SUFFICES ASSUME TypeOK, RolesNameSeats, PadsExclusive, Active PROVE Sound(OwnMap)
  OBVIOUS
<1>1. /\ ctl \in Token /\ viewers \in SUBSET Token
      /\ pad \in [Token -> Pad \cup {NoPad}] /\ mk \in viewers \cup {NoToken}
  BY DEF TypeOK, RolesNameSeats, Active
<1>2. \A s, t \in viewers \cup {ctl} : pad[s] = pad[t] /\ pad[s] # NoPad => s = t
  BY <1>1 DEF PadsExclusive, Seats
<1> QED
  BY <1>1, <1>2, SoundMap DEF OwnMap

\* A push that starts carries the map of the session as this step leaves it, or
\* nothing; a push that lands carries what it was started with.
LEMMA PushSteps ==
  ASSUME TypeOK, SessionInv, [Next]_vars
  PROVE  /\ selkies' = selkies \/ \E p \in Conn \cup {Api} : selkies' = push[p].map
         /\ \A p \in Conn \cup {Api} :
              \/ push'[p].map = push[p].map
              \/ push'[p].map = EmptyMap
              \/ Active' /\ push'[p].map = OwnMap'
<1> DEFINE Fine(p) == \/ push'[p].map = push[p].map
                      \/ push'[p].map = EmptyMap
                      \/ Active' /\ push'[p].map = OwnMap'
<1> USE DEF sessVars, roomVars, connVars, pushVars, opVars, OwnMap, Active
<1>0. DOMAIN push = Conn \cup {Api}
  BY DEF TypeOK
<1>1. CASE Operation
  <2>1. CASE UNCHANGED pushVars
    BY <2>1
  <2>2. CASE Launched \/ JoinPush
    <3>1. /\ push' = [push EXCEPT ![Api] = Pushing(TokenMap(ctl, viewers, pad, mk))]
          /\ UNCHANGED <<ctl, viewers, pad, mk, selkies>>
      BY <2>2 DEF Launched, JoinPush
    <3>2. Active
      BY <2>2 DEF Launched, JoinPush, SessionInv
    <3> QED
      BY <1>0, <3>1, <3>2 DEF Pushing
  <2>3. CASE Activated \/ Joined \/ Exited
    <3>1. push' = [push EXCEPT ![Api] = NoPush] /\ selkies' = selkies
      BY <2>3 DEF Activated, Joined, Exited
    <3> QED
      BY <1>0, <3>1 DEF NoPush
  <2>4. CASE ClearTokens
    BY <1>0, <2>4 DEF ClearTokens, Pushing
  <2>5. ASSUME NEW user \in User, AddViewer(user)
        PROVE  selkies' = selkies /\ \A p \in Conn \cup {Api} : Fine(p)
    <3>1. \/ push' = [push EXCEPT ![Api] = Pushing(TokenMap(ctl, viewers', pad', mk'))]
          \/ push' = push
      BY <2>5 DEF AddViewer
    <3>2. ctl' = ctl /\ Active /\ selkies' = selkies
      BY <2>5 DEF AddViewer
    <3> QED
      BY <1>0, <3>1, <3>2 DEF Pushing
  <2> QED
    BY <1>1, <2>1, <2>2, <2>3, <2>4, <2>5
    DEF Operation, NewSession, LaunchFails, ExitBegin, NotifySessionEnded, CloseAtSessionEnd
<1>2. ASSUME NEW q \in Conn \cup {Api}, PushStep(q)
      PROVE  /\ selkies' = selkies \/ selkies' = push[q].map
             /\ \A p \in Conn \cup {Api} : push'[p].map = push[p].map
  <2>1. push[q] \in [map : TokenMaps, left : 0 .. Attempts]
    BY DEF TypeOK
  <2>2. \A n : [push[q] EXCEPT !.left = n].map = push[q].map
    BY <2>1
  <2>3. \E n : push' = [push EXCEPT ![q] = [push[q] EXCEPT !.left = n]]
    BY <1>2 DEF PushStep, PushLands, PushUnanswered, PushRefused
  <2>4. \A p \in Conn \cup {Api} : push'[p].map = push[p].map
    BY <1>0, <2>2, <2>3
  <2> QED
    BY <1>2, <2>4 DEF PushStep, PushLands, PushUnanswered, PushRefused
<1>3. ASSUME NEW c \in Conn, Handler(c)
      PROVE  selkies' = selkies /\ \A p \in Conn \cup {Api} : Fine(p)
  <2>1. CASE UNCHANGED pushVars
    BY <2>1
  <2>2. ASSUME NEW t \in Seats, NEW s \in Pad \cup {NoPad}, HandleAssignSlot(c, t, s)
        PROVE  selkies' = selkies /\ \A p \in Conn \cup {Api} : Fine(p)
    <3>1. /\ push' = [push EXCEPT ![c] = Pushing(TokenMap(ctl, viewers, pad', mk))]
          /\ UNCHANGED <<ctl, viewers, mk, selkies>>
          /\ Active
      BY <2>2 DEF HandleAssignSlot, Reading, Current
    <3> QED
      BY <1>0, <3>1 DEF Pushing
  <2>3. ASSUME NEW t \in viewers \cup {NoToken}, HandleAssignMk(c, t)
        PROVE  selkies' = selkies /\ \A p \in Conn \cup {Api} : Fine(p)
    <3>1. /\ push' = [push EXCEPT ![c] = Pushing(TokenMap(ctl, viewers, pad, mk'))]
          /\ UNCHANGED <<ctl, viewers, pad, selkies>>
          /\ Active
      BY <2>3 DEF HandleAssignMk, Reading, Current
    <3> QED
      BY <1>0, <3>1 DEF Pushing
  <2>4. CASE AnnounceAssignment(c) \/ AnnounceDeparture(c)
    BY <1>0, <2>4 DEF AnnounceAssignment, AnnounceDeparture, NoPush
  <2>5. CASE ReleaseSeat(c)
    <3>1. \/ /\ push' = [push EXCEPT ![c] = Pushing(TokenMap(ctl, viewers, pad', mk'))]
             /\ tok[c] \in viewers
          \/ push' = push
      BY <2>5 DEF ReleaseSeat
    <3>2. UNCHANGED <<ctl, viewers, selkies>>
      BY <2>5 DEF ReleaseSeat
    <3>3. tok[c] \in viewers => Active
      BY DEF SessionInv
    <3> QED
      BY <1>0, <3>1, <3>2, <3>3 DEF Pushing
  <2> QED
    BY <1>3, <2>1, <2>2, <2>3, <2>4, <2>5
    DEF Handler, RegisterController, RegisterViewer, RefuseSocket, AnnounceJoin,
        SetDesignatedSpeaker, SetUsername, LeaveLoop, HungUp, DepartQuietly
<1>4. CASE Environment \/ UNCHANGED vars
  BY <1>4 DEF Environment, Connect, PeerGone, GraceElapses, vars
<1> QED
  BY <1>1, <1>2, <1>3, <1>4 DEF Next

\* Pads have one holder each, mouse, keyboard and speaker are with a seat, and there are
\* no more seats than the cap allows: the three invariants above together.
THEOREM SeatingSoundHolds == Spec => []SeatingSound
<1> QED
  BY PadsExclusiveHolds, RolesNameSeatsHolds, WithinCapHolds, PTL DEF SeatingSound

\* Whatever order pushes land in, and whichever are refused or sent twice,
\* selkies never routes one pad to two tokens and always routes mouse and
\* keyboard to exactly one, until an exit empties the map.
THEOREM SelkiesRoutesSoundlyHolds == Spec => []SelkiesRoutesSoundly
<1> DEFINE IInv == TypeOK /\ SessionInv /\ RolesNameSeats /\ PadsExclusive /\ SelkiesRoutesSoundly
<1>1. Init => SelkiesRoutesSoundly
  BY SoundEmpty DEF Init, SelkiesRoutesSoundly, NoPush
<1>2. ASSUME IInv, [Next]_vars, TypeOK', RolesNameSeats', PadsExclusive'
      PROVE  SelkiesRoutesSoundly'
  <2>1. Active' => Sound(OwnMap')
    <3>1. (TypeOK /\ RolesNameSeats /\ PadsExclusive /\ Active => Sound(OwnMap))'
      BY OwnMapSound, PTL
    <3> QED
      BY <1>2, <3>1 DEF Sound
  <2> QED
    BY <1>2, <2>1, PushSteps, SoundEmpty DEF SelkiesRoutesSoundly, Sound
<1> QED
  BY <1>1, <1>2, TypeCorrect, RolesNameSeatsHolds, PadsExclusiveHolds, PTL DEF Spec

-----------------------------------------------------------------------------
(* Tokens and the handlers that hold them. *)

\* A token is drawn once, a handler at work has one, and a controller's socket holds a
\* token no viewer has.
TokenInv ==
  /\ viewers \subseteq minted /\ ctl \in minted \cup {NoToken} /\ ctl \notin viewers
  /\ \A c \in Conn : /\ tok[c] \in minted \cup {NoToken}
                     /\ pc[c] \notin {"new", "done"} => tok[c] \in Token
                     /\ asCtl[c] => tok[c] \notin viewers

\* What a step may do to the handlers' own state and to the tokens.
LEMMA ConnSteps ==
  ASSUME [Next]_vars
  PROVE  \/ NewSession
         \/ Retire /\ UNCHANGED <<minted, pc, tok, asCtl>>
         \/ \E user \in User : AddViewer(user)
         \/ \E c \in Conn, t \in Told : Connect(c, t)
         \/ /\ UNCHANGED <<ctl, viewers, minted>>
            /\ \/ \E c \in Conn : pc[c] # "new" /\ HandlerReturns(c)
               \/ /\ \E c \in Conn, p \in Pcs \ {"new", "accepting", "done"} :
                       pc[c] \notin {"new", "done"} /\ pc' = [pc EXCEPT ![c] = p]
                  /\ UNCHANGED <<tok, asCtl>>
               \/ UNCHANGED <<pc, tok, asCtl>>
<1> USE DEF sessVars, connVars
<1>1. CASE Operation
  BY <1>1
  DEF Operation, LaunchFails, Launched, Activated, JoinPush, Joined, ExitBegin,
      NotifySessionEnded, CloseAtSessionEnd, ClearTokens, Exited
<1>2. ASSUME NEW p \in Conn \cup {Api}, PushStep(p)
      PROVE  UNCHANGED <<ctl, viewers, minted, pc, tok, asCtl>>
  BY <1>2 DEF PushStep, PushLands, PushUnanswered, PushRefused
<1>3. ASSUME NEW c \in Conn, Handler(c)
      PROVE  /\ UNCHANGED <<ctl, viewers, minted>>
             /\ \/ pc[c] # "new" /\ HandlerReturns(c)
                \/ /\ \E p \in Pcs \ {"new", "accepting", "done"} :
                        pc[c] \notin {"new", "done"} /\ pc' = [pc EXCEPT ![c] = p]
                   /\ UNCHANGED <<tok, asCtl>>
                \/ UNCHANGED <<pc, tok, asCtl>>
  <2>1. CASE RegisterController(c) \/ RegisterViewer(c) \/ AnnounceJoin(c)
    BY <2>1 DEF RegisterController, RegisterViewer, AnnounceJoin, Pcs
  <2>2. CASE \/ \E t \in Seats, s \in Pad \cup {NoPad} : HandleAssignSlot(c, t, s)
             \/ \E t \in viewers \cup {NoToken} : HandleAssignMk(c, t)
             \/ AnnounceAssignment(c)
    BY <2>2 DEF HandleAssignSlot, HandleAssignMk, AnnounceAssignment, Reading, Pcs
  <2>3. CASE LeaveLoop(c) \/ HungUp(c) \/ ReleaseSeat(c)
    BY <2>3 DEF LeaveLoop, HungUp, ReleaseSeat, Pcs
  <2>4. CASE RefuseSocket(c) \/ DepartQuietly(c) \/ AnnounceDeparture(c)
    BY <2>4 DEF RefuseSocket, DepartQuietly, AnnounceDeparture
  <2>5. CASE \/ \E t \in Seats \cup {NoToken} : SetDesignatedSpeaker(c, t)
             \/ \E n \in Nickname : SetUsername(c, n)
    BY <2>5 DEF SetDesignatedSpeaker, SetUsername
  <2> QED
    BY <1>3, <2>1, <2>2, <2>3, <2>4, <2>5 DEF Handler
<1>4. CASE Environment
  BY <1>4 DEF Environment, PeerGone, GraceElapses
<1>5. CASE UNCHANGED vars
  BY <1>5 DEF vars
<1> QED
  BY <1>1, <1>2, <1>3, <1>4, <1>5 DEF Next

LEMMA TokenStep ==
  ASSUME TypeOK, TokenInv, [Next]_vars
  PROVE  TokenInv'
<1> USE DEF TokenInv, TypeOK
<1>1. CASE NewSession
  BY <1>1 DEF NewSession, connVars
<1>2. CASE Retire /\ UNCHANGED <<minted, pc, tok, asCtl>>
  BY <1>2 DEF Retire
<1>3. ASSUME NEW user \in User, AddViewer(user)
      PROVE  TokenInv'
  <2>1. PICK gone \in Evictions(user), t \in Token \ minted :
          viewers' = (viewers \ gone) \cup {t} /\ minted' = minted \cup {t}
    BY <1>3 DEF AddViewer
  <2>2. UNCHANGED <<ctl, pc, tok, asCtl>>
    BY <1>3 DEF AddViewer
  <2> QED
    BY <2>1, <2>2
<1>4. ASSUME NEW c \in Conn, NEW t \in Told, Connect(c, t)
      PROVE  TokenInv'
  <2>1. t \in minted /\ t \in Token
    BY DEF Told, Seats
  <2>2. UNCHANGED <<ctl, viewers, minted>>
    BY <1>4 DEF Connect, sessVars
  <2>3. /\ pc' = [pc EXCEPT ![c] = "accepting"] /\ tok' = [tok EXCEPT ![c] = t]
        /\ asCtl' = [asCtl EXCEPT ![c] = t = ctl]
    BY <1>4 DEF Connect
  <2> QED
    BY <2>1, <2>2, <2>3
<1>5. ASSUME UNCHANGED <<ctl, viewers, minted>>, NEW c \in Conn, HandlerReturns(c)
      PROVE  TokenInv'
  BY <1>5 DEF HandlerReturns
<1>6. ASSUME UNCHANGED <<ctl, viewers, minted>>, UNCHANGED <<tok, asCtl>>, NEW c \in Conn,
             NEW p \in Pcs, pc[c] \notin {"new", "done"}, pc' = [pc EXCEPT ![c] = p]
      PROVE  TokenInv'
  BY <1>6
<1>7. CASE UNCHANGED <<ctl, viewers, minted>> /\ UNCHANGED <<pc, tok, asCtl>>
  BY <1>7
<1> QED
  BY <1>1, <1>2, <1>3, <1>4, <1>5, <1>6, <1>7, ConnSteps

LEMMA TokenHolds == Spec => []TokenInv
<1>1. Init => TokenInv
  BY DEF Init, TokenInv
<1> QED
  BY <1>1, TokenStep, TypeCorrect, PTL DEF Spec

-----------------------------------------------------------------------------
(* A guest's seat, and what leaving gives up. *)

\* A member without a name was seated without an id.
GuestInv == \A t \in Token : profile[t].anonymous => profile[t].id = NoId

LEMMA GuestStep ==
  ASSUME TypeOK, GuestInv, [Next]_vars
  PROVE  GuestInv'
<1> USE DEF GuestInv, TypeOK
<1>1. CASE Retire
  BY <1>1 DEF Retire, Nobody
<1>2. ASSUME NEW user \in User, AddViewer(user)
      PROVE  GuestInv'
  <2>1. PICK gone \in Evictions(user), t \in Token \ minted :
          profile' = [Without(profile, gone, Nobody) EXCEPT ![t] =
                        [id |-> user.id, name |-> user.name,
                         anonymous |-> user.id = NoId /\ user.name = NoName]]
    BY <1>2 DEF AddViewer
  <2>2. ASSUME NEW s \in Token, s # t
        PROVE  profile'[s] = Nobody \/ profile'[s] = profile[s]
    BY <2>1, <2>2 DEF Without
  <2>3. profile'[t] = [id |-> user.id, name |-> user.name,
                       anonymous |-> user.id = NoId /\ user.name = NoName]
    BY <2>1 DEF Without
  <2>4. Nobody.id = NoId
    BY DEF Nobody
  <2>5. profile'[t].id = user.id
    BY <2>3
  <2>6. profile'[t].anonymous => user.id = NoId
    <3> DEFINE nameless == user.id = NoId /\ user.name = NoName
    <3>1. nameless \in BOOLEAN
      OBVIOUS
    <3>2. profile'[t] = [id |-> user.id, name |-> user.name, anonymous |-> nameless]
      BY <2>3
    <3>3. nameless => user.id = NoId
      OBVIOUS
    <3> HIDE DEF nameless
    <3>4. profile'[t].anonymous = nameless
      BY <3>2
    <3> QED
      BY <3>3, <3>4, Zenon
  <2>7. ASSUME NEW s \in Token, profile'[s].anonymous
        PROVE  profile'[s].id = NoId
    <3>1. CASE s = t
      BY <2>5, <2>6, <2>7, <3>1
    <3>2. CASE s # t
      BY <2>2, <2>4, <2>7, <3>2
    <3> QED
      BY <3>1, <3>2
  <2> QED
    BY <2>7
<1>3. ASSUME NEW c \in Conn, NEW n \in Nickname, SetUsername(c, n)
      PROVE  GuestInv'
  <2>1. profile' = [profile EXCEPT ![tok[c]].name = n]
    BY <1>3 DEF SetUsername
  <2>2. ASSUME NEW t \in Token
        PROVE  profile'[t].id = profile[t].id /\ profile'[t].anonymous = profile[t].anonymous
    <3>1. profile[t] \in Profile
      OBVIOUS
    <3>2. profile'[t] = profile[t] \/ profile'[t] = [profile[t] EXCEPT !.name = n]
      BY <2>1
    <3> HIDE DEF TypeOK
    <3> QED
      BY <3>1, <3>2 DEF Profile
  <2> QED
    BY <2>2
<1>4. CASE UNCHANGED profile
  BY <1>4
<1> QED
  <2> USE DEF sessVars
  <2>1. CASE Operation
    BY <1>1, <1>2, <1>4, <2>1
    DEF Operation, NewSession, LaunchFails, Launched, Activated, JoinPush, Joined, ExitBegin,
        NotifySessionEnded, CloseAtSessionEnd, ClearTokens, Exited
  <2>2. ASSUME NEW p \in Conn \cup {Api}, PushStep(p)
        PROVE  UNCHANGED profile
    BY <2>2 DEF PushStep, PushLands, PushUnanswered, PushRefused
  <2>3. ASSUME NEW c \in Conn, Handler(c)
        PROVE  UNCHANGED profile \/ \E n \in Nickname : SetUsername(c, n)
    BY <2>3
    DEF Handler, RegisterController, RegisterViewer, RefuseSocket, AnnounceJoin,
        HandleAssignSlot, HandleAssignMk, SetDesignatedSpeaker, AnnounceAssignment, LeaveLoop,
        HungUp, DepartQuietly, ReleaseSeat, AnnounceDeparture
  <2>4. CASE Environment \/ UNCHANGED vars
    BY <2>4 DEF Environment, Connect, PeerGone, GraceElapses, vars
  <2> QED
    BY <1>3, <1>4, <2>1, <2>2, <2>3, <2>4 DEF Next

LEMMA GuestHolds == Spec => []GuestInv
<1>1. Init => GuestInv
  BY DEF Init, GuestInv, Nobody
<1> QED
  BY <1>1, GuestStep, TypeCorrect, PTL DEF Spec

\* Within a session only an arrival takes seats away.
LEMMA GuestKept ==
  ASSUME TypeOK, GuestInv, [Next]_vars, SameSession, NEW t \in viewers,
         profile[t].anonymous, profile[t].name = NoName, roomViewers[t] # NoConn
  PROVE  t \in viewers'
<1>1. CASE NewSession \/ Retire
  BY <1>1 DEF NewSession, Retire, SameSession, Active
<1>2. ASSUME NEW user \in User, AddViewer(user)
      PROVE  t \in viewers'
  <2>1. PICK gone \in Evictions(user), s \in Token \ minted : viewers' = (viewers \ gone) \cup {s}
    BY <1>2 DEF AddViewer
  <2>2. profile[t].id = NoId
    BY DEF GuestInv, TypeOK
  <2>3. t \notin Replaced(user)
    BY <2>2 DEF Replaced, SameUser
  <2>4. \A kept : t \notin Reclaimable(kept)
    BY DEF Reclaimable
  <2>5. t \notin gone
    BY <2>1, <2>3, <2>4 DEF Evictions
  <2> QED
    BY <2>1, <2>5
<1>3. CASE UNCHANGED viewers
  BY <1>3
<1> QED
  BY <1>1, <1>2, <1>3, ConnSteps DEF Connect, sessVars

\* A connected guest is never the one a full room gives up.
THEOREM ConnectedGuestKeepsSeatHolds == Spec => ConnectedGuestKeepsSeat
<1>1. TypeOK /\ GuestInv /\ [Next]_vars =>
        [\A t \in viewers :
           (SameSession /\ profile[t].anonymous /\ profile[t].name = NoName
              /\ roomViewers[t] # NoConn) => t \in viewers']_vars
  BY GuestKept
<1> QED
  BY <1>1, GuestHolds, TypeCorrect, PTL DEF Spec, ConnectedGuestKeepsSeat

\* What a step may do to the sockets the room has for its seats.
LEMMA RoomSteps ==
  ASSUME [Next]_vars
  PROVE  \/ \E user \in User : AddViewer(user)
         \/ NotifySessionEnded
         \/ \E c \in Conn : RegisterController(c) \/ RegisterViewer(c)
         \/ \E c \in Conn : DepartQuietly(c) \/ ReleaseSeat(c)
         \/ UNCHANGED <<roomCtl, roomViewers>>
<1> USE DEF roomVars
<1>1. CASE Operation
  BY <1>1
  DEF Operation, NewSession, LaunchFails, Launched, Activated, JoinPush, Joined, ExitBegin,
      CloseAtSessionEnd, ClearTokens, Exited
<1>2. ASSUME NEW p \in Conn \cup {Api}, PushStep(p)
      PROVE  UNCHANGED <<roomCtl, roomViewers>>
  BY <1>2 DEF PushStep, PushLands, PushUnanswered, PushRefused
<1>3. ASSUME NEW c \in Conn, Handler(c)
      PROVE  \/ RegisterController(c) \/ RegisterViewer(c) \/ DepartQuietly(c) \/ ReleaseSeat(c)
             \/ UNCHANGED <<roomCtl, roomViewers>>
  BY <1>3
  DEF Handler, RefuseSocket, AnnounceJoin, HandleAssignSlot, HandleAssignMk,
      SetDesignatedSpeaker, SetUsername, AnnounceAssignment, LeaveLoop, HungUp,
      AnnounceDeparture
<1>4. CASE Environment \/ UNCHANGED vars
  BY <1>4 DEF Environment, Connect, PeerGone, GraceElapses, vars
<1> QED
  BY <1>1, <1>2, <1>3, <1>4 DEF Next

LEMMA LeavingStep ==
  ASSUME TypeOK, TokenInv, [Next]_vars, NEW t \in viewers, op' # "ending",
         roomViewers[t] # NoConn, roomViewers'[t] = NoConn, t \in viewers'
  PROVE  pad'[t] = NoPad /\ mk' # t /\ speaker' # t
<1> USE DEF TypeOK
<1>1. ASSUME NEW user \in User, AddViewer(user)
      PROVE  FALSE
  <2>1. PICK gone \in Evictions(user), s \in Token \ minted :
          /\ viewers' = (viewers \ gone) \cup {s}
          /\ roomViewers' = Without(roomViewers, gone, NoConn)
    BY <1>1 DEF AddViewer
  <2> QED
    BY <2>1 DEF TokenInv, Without
<1>2. ASSUME NEW c \in Conn, RegisterController(c) \/ RegisterViewer(c)
      PROVE  FALSE
  BY <1>2 DEF RegisterController, RegisterViewer
<1>3. ASSUME NEW c \in Conn, DepartQuietly(c)
      PROVE  FALSE
  BY <1>3 DEF DepartQuietly
<1>4. ASSUME NEW c \in Conn, ReleaseSeat(c)
      PROVE  pad'[t] = NoPad /\ mk' # t /\ speaker' # t
  <2>1. /\ roomViewers' = [roomViewers EXCEPT ![tok[c]] = NoConn]
        /\ speaker' = RoleAfter(speaker, {tok[c]})
        /\ pad' = PadsAfter(tok[c])
        /\ mk' = RoleAfter(mk, {tok[c]} \cap viewers)
    BY <1>4 DEF ReleaseSeat
  <2>2. t = tok[c]
    BY <2>1
  <2> QED
    BY <2>1, <2>2 DEF RoleAfter, PadsAfter
<1> QED
  BY <1>1, <1>2, <1>3, <1>4, RoomSteps DEF NotifySessionEnded

LEMMA ReplacedStep ==
  ASSUME TypeOK, TokenInv, [Next]_vars, NEW c \in Conn, pc[c] = "closing", pc'[c] # "closing",
         c \notin Registered
  PROVE  UNCHANGED <<roomVars, viewers, pad, mk, speaker>>
<1>1. DepartQuietly(c) \/ ReleaseSeat(c)
  <2> USE DEF sessVars, roomVars, connVars, TypeOK
  <2>1. CASE Operation
    BY <2>1
    DEF Operation, NewSession, LaunchFails, Launched, Activated, AddViewer, JoinPush, Joined,
        ExitBegin, NotifySessionEnded, CloseAtSessionEnd, ClearTokens, Exited
  <2>2. ASSUME NEW p \in Conn \cup {Api}, PushStep(p)
        PROVE  FALSE
    BY <2>2 DEF PushStep, PushLands, PushUnanswered, PushRefused
  <2>3. ASSUME NEW d \in Conn, Handler(d)
        PROVE  DepartQuietly(c) \/ ReleaseSeat(c)
    <3>1. CASE RegisterController(d) \/ RegisterViewer(d) \/ AnnounceJoin(d)
      BY <3>1 DEF RegisterController, RegisterViewer, AnnounceJoin
    <3>2. CASE \/ \E t \in Seats, s \in Pad \cup {NoPad} : HandleAssignSlot(d, t, s)
               \/ \E t \in viewers \cup {NoToken} : HandleAssignMk(d, t)
               \/ AnnounceAssignment(d)
      BY <3>2 DEF HandleAssignSlot, HandleAssignMk, AnnounceAssignment, Reading
    <3>3. CASE LeaveLoop(d) \/ HungUp(d) \/ RefuseSocket(d) \/ AnnounceDeparture(d)
      BY <3>3 DEF LeaveLoop, HungUp, RefuseSocket, AnnounceDeparture, HandlerReturns
    <3>4. CASE DepartQuietly(d) \/ ReleaseSeat(d)
      <4>1. pc'[c] = pc[c] \/ c = d
        BY <3>4 DEF DepartQuietly, ReleaseSeat, HandlerReturns
      <4> QED
        BY <3>4, <4>1
    <3>5. CASE \/ \E t \in Seats \cup {NoToken} : SetDesignatedSpeaker(d, t)
               \/ \E n \in Nickname : SetUsername(d, n)
      BY <3>5 DEF SetDesignatedSpeaker, SetUsername
    <3> QED
      BY <2>3, <3>1, <3>2, <3>3, <3>4, <3>5 DEF Handler
  <2>4. CASE Environment \/ UNCHANGED vars
    BY <2>4 DEF Environment, Connect, PeerGone, GraceElapses, vars
  <2> QED
    BY <2>1, <2>2, <2>3, <2>4 DEF Next
<1>2. ~Live(c)
  BY DEF TokenInv, Live, Registered, RegisteredIn, TypeOK
<1> QED
  BY <1>1, <1>2 DEF DepartQuietly, ReleaseSeat, ControllerAfter, sessVars, roomVars

\* Whoever drops out gives up pad, mouse and keyboard and the speaker role, and nobody
\* gives up anything on a replaced socket's account.
THEOREM InputFollowsTheSocketHolds == Spec => InputFollowsTheSocket
<1>1. TypeOK /\ TokenInv /\ [Next]_vars =>
        [\A t \in viewers :
           (SameSession /\ op' # "ending" /\ roomViewers[t] # NoConn
              /\ roomViewers'[t] = NoConn /\ t \in viewers')
             => pad'[t] = NoPad /\ mk' # t /\ speaker' # t]_vars
  BY LeavingStep
<1>2. TypeOK /\ TokenInv /\ [Next]_vars =>
        [\A c \in Conn :
           (pc[c] = "closing" /\ pc'[c] # "closing" /\ c \notin Registered)
             => UNCHANGED <<roomVars, viewers, pad, mk, speaker>>]_vars
  BY ReplacedStep
<1> QED
  BY <1>1, <1>2, TokenHolds, TypeCorrect, PTL
  DEF Spec, InputFollowsTheSocket, LeavingGivesUpInput, ReplacedHandlerTakesNothing

-----------------------------------------------------------------------------
(* Sockets and seats. *)

\* The connections an exit takes out of the room are closed before it goes on, a socket is
\* registered only once it is up, and the seat of a viewer whose socket serves has it.
EndingInv == opConns # {} => op = "ending"
NewInv == \A c \in Conn : pc[c] = "new" => c \notin Registered
ServeInv == \A c \in Serving : tok[c] \in viewers => roomViewers[tok[c]] = c

LEMMA EndingStep ==
  ASSUME EndingInv, [Next]_vars
  PROVE  EndingInv'
<1> USE DEF EndingInv, opVars
<1>1. CASE Operation
  BY <1>1
  DEF Operation, NewSession, LaunchFails, Launched, Activated, AddViewer, JoinPush, Joined,
      ExitBegin, NotifySessionEnded, CloseAtSessionEnd, ClearTokens, Exited, FreeLock
<1>2. ASSUME NEW p \in Conn \cup {Api}, PushStep(p)
      PROVE  UNCHANGED opVars
  BY <1>2 DEF PushStep, PushLands, PushUnanswered, PushRefused
<1>3. ASSUME NEW c \in Conn, Handler(c)
      PROVE  UNCHANGED opVars
  BY <1>3
  DEF Handler, RegisterController, RegisterViewer, RefuseSocket, AnnounceJoin,
      HandleAssignSlot, HandleAssignMk, SetDesignatedSpeaker, SetUsername,
      AnnounceAssignment, LeaveLoop, HungUp, DepartQuietly, ReleaseSeat,
      AnnounceDeparture
<1>4. CASE Environment \/ UNCHANGED vars
  BY <1>4 DEF Environment, Connect, PeerGone, GraceElapses, vars
<1> QED
  BY <1>1, <1>2, <1>3, <1>4 DEF Next

\* A step adds at most one socket to the room, which has had its handshake.
LEMMA Registers ==
  ASSUME TypeOK, [Next]_vars
  PROVE  \/ Registered' \subseteq Registered
         \/ \E c \in Conn : /\ RegisterController(c) \/ RegisterViewer(c)
                            /\ Registered' \subseteq Registered \cup {c}
<1> USE DEF Registered, RegisteredIn, TypeOK
<1>1. ASSUME NEW user \in User, AddViewer(user)
      PROVE  Registered' \subseteq Registered
  <2>1. PICK gone : roomViewers' = Without(roomViewers, gone, NoConn)
    BY <1>1 DEF AddViewer
  <2>2. roomCtl' = roomCtl
    BY <1>1 DEF AddViewer
  <2> QED
    BY <2>1, <2>2 DEF Without
<1>2. CASE NotifySessionEnded
  BY <1>2 DEF NotifySessionEnded
<1>3. ASSUME NEW c \in Conn, RegisterController(c) \/ RegisterViewer(c)
      PROVE  Registered' \subseteq Registered \cup {c}
  <2>1. CASE RegisterController(c)
    BY <2>1 DEF RegisterController
  <2>2. CASE RegisterViewer(c)
    <3>1. roomViewers' = [roomViewers EXCEPT ![tok[c]] = c] /\ roomCtl' = roomCtl
      BY <2>2 DEF RegisterViewer
    <3>2. \A t \in Token : roomViewers'[t] \in {roomViewers[t], c}
      BY <3>1
    <3> QED
      BY <3>1, <3>2
  <2> QED
    BY <1>3, <2>1, <2>2
<1>4. ASSUME NEW c \in Conn, DepartQuietly(c) \/ ReleaseSeat(c)
      PROVE  Registered' \subseteq Registered
  <2>1. /\ roomCtl' \in {roomCtl, NoConn}
        /\ \A t \in Token : roomViewers'[t] \in {roomViewers[t], NoConn}
    BY <1>4 DEF DepartQuietly, ReleaseSeat, ControllerAfter
  <2> QED
    BY <2>1
<1>5. CASE UNCHANGED <<roomCtl, roomViewers>>
  BY <1>5
<1> QED
  BY <1>1, <1>2, <1>3, <1>4, <1>5, RoomSteps

LEMMA NewStep ==
  ASSUME TypeOK, NewInv, [Next]_vars
  PROVE  NewInv'
<1>1. \A c \in Conn : pc'[c] = "new" => pc[c] = "new"
  BY ConnSteps DEF NewSession, AddViewer, Connect, HandlerReturns, connVars, TypeOK
<1>2. ASSUME NEW c \in Conn, RegisterController(c) \/ RegisterViewer(c)
      PROVE  pc'[c] # "new"
  BY <1>2 DEF RegisterController, RegisterViewer, TypeOK
<1> QED
  BY <1>1, <1>2, Registers DEF NewInv

\* The invariant survives a step that gives no socket a seat to serve and takes no seat
\* its socket serves from the room.
LEMMA ServeKept ==
  ASSUME ServeInv, Serving' \subseteq Serving,
         \A c \in Serving' : tok'[c] \in viewers' =>
           tok[c] \in viewers /\ tok'[c] = tok[c] /\ roomViewers'[tok[c]] = roomViewers[tok[c]]
  PROVE  ServeInv'
BY DEF ServeInv

LEMMA ServeStep ==
  ASSUME TypeOK, TokenInv, EndingInv, ServeInv, [Next]_vars
  PROVE  ServeInv'
<1> USE DEF TypeOK, sessVars, roomVars, connVars, opVars
<1>1. CASE NewSession \/ Retire
  BY <1>1 DEF NewSession, Retire, ServeInv
<1>2. ASSUME NEW user \in User, AddViewer(user)
      PROVE  ServeInv'
  <2>1. PICK gone \in Evictions(user), s \in Token \ minted :
          /\ viewers' = (viewers \ gone) \cup {s}
          /\ roomViewers' = Without(roomViewers, gone, NoConn)
          /\ open' \subseteq open
    BY <1>2 DEF AddViewer
  <2>2. UNCHANGED <<pc, tok, opConns>>
    BY <1>2 DEF AddViewer
  <2>3. \A c \in Conn : tok[c] # s
    BY DEF TokenInv
  <2> QED
    BY <2>1, <2>2, <2>3, ServeKept DEF Serving, Without
<1>3. CASE NotifySessionEnded
  <2>1. /\ opConns = {} /\ opConns' = Registered
        /\ UNCHANGED <<pc, tok, open, viewers>>
    BY <1>3 DEF NotifySessionEnded, EndingInv
  <2>2. \A c \in Serving : tok[c] \in viewers => c \in Registered
    BY DEF ServeInv, Registered, RegisteredIn, Serving
  <2> QED
    BY <2>1, <2>2 DEF ServeInv, Serving
<1>4. CASE CloseAtSessionEnd
  BY <1>4, ServeKept DEF CloseAtSessionEnd, Serving
<1>5. CASE Activated \/ Joined
  <2>1. opConns = {} /\ opConns' = {}
    BY <1>5 DEF Activated, Joined, FreeLock, EndingInv
  <2>2. UNCHANGED <<pc, tok, open, viewers, roomViewers>>
    BY <1>5 DEF Activated, Joined
  <2> QED
    BY <2>1, <2>2, ServeKept DEF Serving
<1>6. CASE UNCHANGED <<pc, tok, open, viewers, roomViewers, opConns>>
  BY <1>6, ServeKept DEF Serving
<1>7. CASE Operation
  BY <1>1, <1>2, <1>3, <1>4, <1>5, <1>6, <1>7
  DEF Operation, LaunchFails, Launched, JoinPush, ExitBegin, ClearTokens, Exited
<1>8. ASSUME NEW p \in Conn \cup {Api}, PushStep(p)
      PROVE  ServeInv'
  BY <1>6, <1>8 DEF PushStep, PushLands, PushUnanswered, PushRefused
<1>9. ASSUME NEW c \in Conn, Handler(c)
      PROVE  ServeInv'
  <2>1. CASE RegisterController(c)
    <3>1. /\ UNCHANGED <<tok, open, viewers, roomViewers, opConns>>
          /\ pc' = [pc EXCEPT ![c] = "reading"] /\ tok[c] \notin viewers
      BY <2>1 DEF RegisterController, TokenInv
    <3> QED
      BY <3>1 DEF ServeInv, Serving
  <2>2. CASE RegisterViewer(c)
    <3>1. /\ roomViewers' = [roomViewers EXCEPT ![tok[c]] = c]
          /\ open' = open \ ({roomViewers[tok[c]]} \ {NoConn})
          /\ pc' \in {[pc EXCEPT ![c] = "reading"], [pc EXCEPT ![c] = "joining"]}
          /\ UNCHANGED <<tok, viewers, opConns>> /\ tok[c] \in viewers
      BY <2>2 DEF RegisterViewer, Superseded
    <3>2. \A d \in Serving' : d # c => d \in Serving
      BY <3>1 DEF Serving
    <3>3. ASSUME NEW d \in Serving', d # c, tok[d] \in viewers
          PROVE  roomViewers'[tok[d]] = d
      <4>1. roomViewers[tok[d]] = d
        BY <3>2, <3>3 DEF ServeInv
      <4>2. d \in open'
        BY <3>3 DEF Serving
      <4>3. d \in Conn
        BY <3>2, <3>3 DEF Serving
      <4>4. tok[d] # tok[c]
        BY <3>1, <4>1, <4>2, <4>3
      <4> QED
        BY <3>1, <4>1, <4>4
    <3> QED
      BY <3>1, <3>3 DEF ServeInv
  <2>3. CASE ReleaseSeat(c)
    <3>1. /\ pc[c] = "closing" /\ roomViewers[tok[c]] = c
          /\ roomViewers' = [roomViewers EXCEPT ![tok[c]] = NoConn]
          /\ UNCHANGED <<viewers, open, opConns>>
      BY <2>3 DEF ReleaseSeat, Live
    <3>2. /\ \A d \in Conn : d # c => tok'[d] = tok[d] /\ pc'[d] = pc[d]
          /\ pc'[c] \in {"leaving", "done"}
      BY <2>3 DEF ReleaseSeat, HandlerReturns
    <3>3. Serving' \subseteq Serving \ {c}
      BY <3>1, <3>2 DEF Serving
    <3>4. \A d \in Serving : tok[d] \in viewers /\ d # c => tok[d] # tok[c]
      BY <3>1 DEF ServeInv
    <3>5. \A d \in Serving : d \in Conn
      BY DEF Serving
    <3> QED
      BY <3>1, <3>2, <3>3, <3>4, <3>5, ServeKept
  <2>4. CASE \/ RefuseSocket(c) \/ DepartQuietly(c) \/ AnnounceDeparture(c)
             \/ LeaveLoop(c) \/ HungUp(c)
    <3>1. /\ \A d \in Conn : d # c => tok'[d] = tok[d] /\ pc'[d] = pc[d]
          /\ pc'[c] \in {"hanging up", "closing", "done"} /\ open' \subseteq open
          /\ UNCHANGED <<viewers, roomViewers, opConns>>
      BY <2>4
      DEF RefuseSocket, DepartQuietly, AnnounceDeparture, LeaveLoop, HungUp, HandlerReturns
    <3>2. \A d \in Serving' : d \in Conn /\ d # c /\ d \in Serving
      BY <3>1 DEF Serving
    <3> QED
      BY <3>1, <3>2, ServeKept
  <2>5. CASE \/ AnnounceJoin(c) \/ AnnounceAssignment(c)
             \/ \E t \in Seats, s \in Pad \cup {NoPad} : HandleAssignSlot(c, t, s)
             \/ \E t \in viewers \cup {NoToken} : HandleAssignMk(c, t)
    <3>1. /\ \A d \in Conn : d # c => pc'[d] = pc[d]
          /\ pc[c] \in {"joining", "reading", "pushing"}
          /\ UNCHANGED <<tok, open, viewers, roomViewers, opConns>>
      BY <2>5 DEF AnnounceJoin, AnnounceAssignment, HandleAssignSlot, HandleAssignMk, Reading
    <3> QED
      BY <3>1, ServeKept DEF Serving
  <2>6. CASE \/ \E t \in Seats \cup {NoToken} : SetDesignatedSpeaker(c, t)
             \/ \E n \in Nickname : SetUsername(c, n)
    BY <1>6, <2>6 DEF SetDesignatedSpeaker, SetUsername
  <2> QED
    BY <1>9, <2>1, <2>2, <2>3, <2>4, <2>5, <2>6 DEF Handler
<1>10. CASE Environment
  <2>1. ASSUME NEW c \in Conn, NEW t \in Told, Connect(c, t)
        PROVE  ServeInv'
    <3>1. /\ open' = open \cup {c} /\ pc' = [pc EXCEPT ![c] = "accepting"]
          /\ tok' = [tok EXCEPT ![c] = t]
          /\ UNCHANGED <<viewers, roomViewers, opConns>>
      BY <2>1 DEF Connect
    <3> QED
      BY <3>1, ServeKept DEF Serving
  <2>2. ASSUME NEW c \in Conn, PeerGone(c)
        PROVE  ServeInv'
    BY <2>2, ServeKept DEF PeerGone, Serving
  <2>3. ASSUME NEW v \in viewers, GraceElapses(v)
        PROVE  ServeInv'
    BY <1>6, <2>3 DEF GraceElapses
  <2> QED
    BY <1>10, <2>1, <2>2, <2>3 DEF Environment
<1>11. CASE UNCHANGED vars
  BY <1>6, <1>11 DEF vars
<1> QED
  BY <1>7, <1>8, <1>9, <1>10, <1>11 DEF Next

\* A step that ends a broadcast's delay broadcasts: whoever is in the room after it knows it.
LEMMA BroadcastInforms ==
  ASSUME BroadcastState, UNCHANGED ctl
  PROVE  InformedWhenQuiet'
BY DEF BroadcastState, InformedWhenQuiet, Registered, RegisteredIn, Current, Active

\* A step keeps everyone informed that adds nobody to the room, keeps what it shows them and
\* leaves no broadcast less to be made.
LEMMA InformedKept ==
  ASSUME InformedWhenQuiet, Quiet' => Quiet, informed \subseteq informed',
         \A c \in Registered' : Current(c)' => c \in Registered /\ Current(c)
  PROVE  InformedWhenQuiet'
BY DEF InformedWhenQuiet

LEMMA InformedStep ==
  ASSUME TypeOK, SessionInv, TokenInv, NewInv, InformedWhenQuiet, [Next]_vars
  PROVE  InformedWhenQuiet'
<1> USE DEF TypeOK, sessVars, roomVars, connVars, opVars
<1>0. \A c \in Registered : c \in Conn
  BY DEF Registered, RegisteredIn
<1>1. CASE NewSession
  <2>1. ASSUME NEW c \in Conn
        PROVE  ~Current(c)'
    <3>1. PICK t \in Token \ minted : ctl' = t
      BY <1>1 DEF NewSession
    <3>2. viewers' = {} /\ UNCHANGED <<tok, asCtl>>
      BY <1>1 DEF NewSession
    <3>3. tok[c] # t
      BY DEF TokenInv
    <3> QED
      BY <3>1, <3>2, <3>3 DEF Current
  <2>2. \A c \in Registered' : c \in Conn
    BY <1>1 DEF NewSession, Registered, RegisteredIn
  <2> QED
    BY <2>1, <2>2 DEF InformedWhenQuiet
<1>2. CASE Retire
  BY <1>2 DEF Retire, InformedWhenQuiet, Current, Active
<1>3. ASSUME NEW user \in User, AddViewer(user)
      PROVE  InformedWhenQuiet'
  BY <1>3 DEF AddViewer, InformedWhenQuiet, Quiet
<1>4. CASE NotifySessionEnded
  BY <1>4 DEF NotifySessionEnded, InformedWhenQuiet, Registered, RegisteredIn
<1>5. CASE Joined
  BY <1>5, BroadcastInforms DEF Joined
<1>6. CASE /\ UNCHANGED <<ctl, viewers, roomCtl, roomViewers, informed, pc, tok, asCtl>>
           /\ op \in {"join close", "join push"} => op' \in {"join close", "join push"}
  BY <1>6, InformedKept DEF Quiet, Registered, RegisteredIn, Current, Active
<1>7. CASE Operation
  <2>1. CASE Launched \/ Activated \/ ExitBegin \/ CloseAtSessionEnd \/ ClearTokens
    BY <1>6, <2>1 DEF Launched, Activated, ExitBegin, CloseAtSessionEnd, ClearTokens
  <2>2. CASE JoinPush
    BY <1>6, <2>2 DEF JoinPush
  <2> QED
    BY <1>1, <1>2, <1>3, <1>4, <1>5, <1>7, <2>1, <2>2 DEF Operation, LaunchFails, Exited
<1>8. ASSUME NEW p \in Conn \cup {Api}, PushStep(p)
      PROVE  InformedWhenQuiet'
  <2>1. UNCHANGED <<ctl, viewers, roomCtl, roomViewers, informed, pc, tok, asCtl, op>>
    BY <1>8 DEF PushStep, PushLands, PushUnanswered, PushRefused
  <2> QED
    BY <1>6, <2>1, InformedKept DEF Quiet, Registered, RegisteredIn, Current, Active
<1>9. ASSUME NEW c \in Conn, Handler(c)
      PROVE  InformedWhenQuiet'
  <2>1. CASE \/ RegisterController(c) \/ AnnounceJoin(c) \/ AnnounceAssignment(c)
             \/ DepartQuietly(c) \/ AnnounceDeparture(c)
             \/ \E t \in Seats \cup {NoToken} : SetDesignatedSpeaker(c, t)
             \/ \E n \in Nickname : SetUsername(c, n)
    BY <2>1, BroadcastInforms
    DEF RegisterController, AnnounceJoin, AnnounceAssignment, DepartQuietly,
        AnnounceDeparture, SetDesignatedSpeaker, SetUsername
  <2>2. CASE RegisterViewer(c)
    <3>1. CASE Superseded(c) = {}
      BY <2>2, <3>1, BroadcastInforms DEF RegisterViewer
    <3>2. CASE Superseded(c) # {}
      <4>1. pc' = [pc EXCEPT ![c] = "joining"]
        BY <2>2, <3>2 DEF RegisterViewer
      <4>2. pc'[c] = "joining"
        BY <4>1
      <4> QED
        BY <4>2 DEF InformedWhenQuiet, Quiet
    <3> QED
      BY <3>1, <3>2
  <2>3. CASE \/ \E t \in Seats, s \in Pad \cup {NoPad} : HandleAssignSlot(c, t, s)
             \/ \E t \in viewers \cup {NoToken} : HandleAssignMk(c, t)
    <3>1. pc' = [pc EXCEPT ![c] = "pushing"]
      BY <2>3 DEF HandleAssignSlot, HandleAssignMk
    <3>2. pc'[c] = "pushing"
      BY <3>1
    <3> QED
      BY <3>2 DEF InformedWhenQuiet, Quiet
  <2>4. CASE ReleaseSeat(c)
    <3>1. CASE pc' = [pc EXCEPT ![c] = "leaving"]
      <4>1. pc'[c] = "leaving"
        BY <3>1
      <4> QED
        BY <4>1 DEF InformedWhenQuiet, Quiet
    <3>2. CASE pc' # [pc EXCEPT ![c] = "leaving"]
      BY <2>4, <3>2, BroadcastInforms DEF ReleaseSeat
    <3> QED
      BY <3>1, <3>2
  <2>5. CASE LeaveLoop(c) \/ HungUp(c)
    <3>1. /\ pc[c] \in {"reading", "hanging up"}
          /\ pc' \in {[pc EXCEPT ![c] = q] : q \in {"hanging up", "closing"}}
          /\ UNCHANGED <<ctl, viewers, roomCtl, roomViewers, informed, tok, asCtl, op>>
      BY <2>5 DEF LeaveLoop, HungUp
    <3>a. PICK q \in {"hanging up", "closing"} : pc' = [pc EXCEPT ![c] = q]
      BY <3>1
    <3>b. \A d \in Conn : pc'[d] = pc[d] \/ pc[d] \notin {"joining", "pushing", "leaving"}
      BY <3>1, <3>a
    <3>2. Quiet' => Quiet
      BY <3>1, <3>b DEF Quiet
    <3> QED
      BY <3>1, <3>2, InformedKept DEF Registered, RegisteredIn, Current, Active
  <2>6. CASE RefuseSocket(c)
    <3>1. /\ pc[c] = "accepting" /\ HandlerReturns(c)
          /\ UNCHANGED <<ctl, viewers, roomCtl, roomViewers, informed, op>>
      BY <2>6 DEF RefuseSocket
    <3>2. Quiet' => Quiet
      BY <3>1 DEF Quiet, HandlerReturns
    <3>3. ~Current(c)'
      BY <3>1 DEF HandlerReturns, Current
    <3>4. \A d \in Conn : d # c => tok'[d] = tok[d] /\ asCtl'[d] = asCtl[d]
      BY <3>1 DEF HandlerReturns
    <3>5. \A d \in Registered' : Current(d)' => d \in Registered /\ Current(d)
      BY <1>0, <3>1, <3>3, <3>4 DEF Registered, RegisteredIn, Current, Active
    <3> QED
      BY <3>1, <3>2, <3>5, InformedKept
  <2> QED
    BY <1>9, <2>1, <2>2, <2>3, <2>4, <2>5, <2>6 DEF Handler
<1>10. CASE Environment
  <2>1. ASSUME NEW c \in Conn, NEW t \in Told, Connect(c, t)
        PROVE  InformedWhenQuiet'
    <3>1. /\ pc[c] = "new" /\ pc' = [pc EXCEPT ![c] = "accepting"]
          /\ UNCHANGED <<ctl, viewers, roomCtl, roomViewers, informed, op>>
      BY <2>1 DEF Connect
    <3>2. Quiet' => Quiet
      BY <3>1 DEF Quiet
    <3>3. c \notin Registered
      BY <3>1 DEF NewInv
    <3>4. \A d \in Conn : d # c => tok'[d] = tok[d] /\ asCtl'[d] = asCtl[d]
      BY <2>1 DEF Connect
    <3>5. \A d \in Registered' : Current(d)' => d \in Registered /\ Current(d)
      BY <1>0, <3>1, <3>3, <3>4 DEF Registered, RegisteredIn, Current, Active
    <3> QED
      BY <3>1, <3>2, <3>5, InformedKept
  <2>2. ASSUME NEW c \in Conn, PeerGone(c)
        PROVE  InformedWhenQuiet'
    BY <2>2, InformedKept DEF PeerGone, Quiet, Registered, RegisteredIn, Current, Active
  <2>3. ASSUME NEW v \in viewers, GraceElapses(v)
        PROVE  InformedWhenQuiet'
    BY <2>3, InformedKept DEF GraceElapses, Quiet, Registered, RegisteredIn, Current, Active
  <2> QED
    BY <1>10, <2>1, <2>2, <2>3 DEF Environment
<1>11. CASE UNCHANGED vars
  BY <1>11, InformedKept DEF vars, Quiet, Registered, RegisteredIn, Current, Active
<1> QED
  BY <1>7, <1>8, <1>9, <1>10, <1>11 DEF Next

LEMMA OneSocket == TokenInv /\ ServeInv => OneSocketPerSeat
BY DEF ServeInv, OneSocketPerSeat

\* No seat is served by two sockets, and a room at rest has told every member's socket how
\* it is, whatever reconnects, rejoins, evictions and exits interleave.
THEOREM SocketsServeSeatsHolds == Spec => []SocketsServeSeats
<1>1. Init => EndingInv /\ NewInv /\ ServeInv /\ InformedWhenQuiet
  BY DEF Init, EndingInv, NewInv, ServeInv, InformedWhenQuiet, Registered, RegisteredIn,
         Serving
<1>2. TypeOK /\ TokenInv /\ EndingInv /\ ServeInv /\ [Next]_vars => EndingInv' /\ ServeInv'
  BY EndingStep, ServeStep
<1>3. TypeOK /\ SessionInv /\ TokenInv /\ NewInv /\ InformedWhenQuiet /\ [Next]_vars =>
        NewInv' /\ InformedWhenQuiet'
  BY NewStep, InformedStep
<1>4. Spec => [](EndingInv /\ ServeInv)
  BY <1>1, <1>2, TokenHolds, TypeCorrect, PTL DEF Spec
<1>5. Spec => [](NewInv /\ InformedWhenQuiet)
  BY <1>1, <1>3, TokenHolds, TypeCorrect, PTL DEF Spec
<1>6. TokenInv /\ ServeInv /\ InformedWhenQuiet => SocketsServeSeats
  BY OneSocket DEF SocketsServeSeats
<1> QED
  BY <1>4, <1>5, <1>6, TokenHolds, PTL
=============================================================================
