------------------------------- MODULE Outbox -------------------------------
(***************************************************************************)
(* One recipient's outbound queue in the room: three lanes (JSON, audio,   *)
(* video) filled by broadcasts, one drain task that sends from them, and   *)
(* the handler that waits on the socket.                                   *)
(*                                                                         *)
(* A step is what one task runs between two awaits that suspend.  A frame  *)
(* is its kind, its sender and whether it is still fresh; all frames have  *)
(* one size, so that one append evicts one frame at most.                  *)
(***************************************************************************)
EXTENDS Naturals, Sequences, FiniteSets

CONSTANTS
  Message,  \* JSON messages
  Sender,   \* the members whose video reaches this recipient
  MaxJson,  \* MAX_JSON_BACKLOG
  MaxMedia, \* MAX_MEDIA_BACKLOG_BYTES, in frames
  Numbers,  \* a bound: senders number their frames modulo this
  Configs,  \* a bound: configs that wait in the video lane at once
  NoItem, NoMessage

ASSUME OutboxAssumption ==
  /\ MaxJson \in Nat \ {0}
  /\ MaxMedia \in Nat
  /\ Numbers \in Nat \ {0}
  /\ NoMessage \notin Message

VARIABLES
  json, audio, video, \* the lanes, oldest first; of audio, whether each frame is fresh
  bytes,       \* _media_bytes
  gaps,        \* _gaps: senders whose deltas wait for a keyframe
  wake, idle,  \* the two events
  drain,       \* the drain task: "none", "parked" in wake.wait(), "sending", "stopped"
  item,        \* what it is sending
  closed,      \* _closed
  abandoned,   \* set once the recipient is given up on
  connected,   \* both states of the socket are CONNECTED
  watching,    \* the reader's watcher waits for abandoned
  handler,     \* the socket's handler: "busy", "reading" or "gone"
  asked,       \* senders a keyframe request is on its way to
  cool,        \* senders asked for one less than KEYFRAME_REQUEST_GAP ago
  made,        \* of each sender, the number and config of its next frame, and
               \* whether that starts its stream afresh
  heard, seen  \* what the socket was last given while connected: the message, and
               \* whether that send raised; of each sender, the number and the config

lanes   == <<json, audio, video, bytes, gaps>>
events  == <<wake, idle>>
task    == <<drain, item>>
conn    == <<closed, abandoned, connected, watching, handler>>
requests == <<asked, cool>>
got     == <<heard, seen>>
vars == <<lanes, events, task, conn, requests, made, got>>

Frame == [kind : {"config", "key", "delta"}, from : Sender,
          number : 0 .. Numbers - 1, config : {0, 1}, fresh : BOOLEAN]
JsonItem(m) == [kind |-> "json", message |-> m]
AudioItem == [kind |-> "audio"]

\* A connection opens before its senders' first frames, which are keyframes.
Init ==
  /\ json = <<>> /\ audio = <<>> /\ video = <<>> /\ bytes = 0 /\ gaps = {}
  /\ wake = FALSE /\ idle = TRUE
  /\ drain = "none" /\ item = NoItem
  /\ closed = FALSE /\ abandoned = FALSE
  /\ connected = TRUE /\ watching = TRUE /\ handler = "busy"
  /\ asked = {} /\ cool = {}
  /\ made = [s \in Sender |-> [number |-> 0, config |-> 0, first |-> TRUE]]
  /\ heard = [message |-> NoMessage, lost |-> FALSE]
  /\ seen = [s \in Sender |-> [number |-> Numbers - 1, config |-> 0]]

-----------------------------------------------------------------------------
(* Parts of several operations. *)

\* session.request_keyframe for the senders in S: at most one request to a
\* sender in KEYFRAME_REQUEST_GAP.  The requests in sent are on their way already.
Ask(S, sent) == asked' = sent \cup (S \ cool) /\ cool' = cool \cup S

\* Frames of the senders in S are dropped: _drop_video.  A variant asks at the
\* first drop only.
DropVideoAskOnce(S, sent) == Ask(S \ gaps, sent)
DropVideo(S, sent) == Ask(S, sent)

\* _clear, and a variant that leaves the byte count.
ClearUncounted ==
  /\ json' = <<>> /\ audio' = <<>> /\ video' = <<>> /\ idle' = TRUE
  /\ UNCHANGED bytes
Clear ==
  /\ json' = <<>> /\ audio' = <<>> /\ video' = <<>> /\ bytes' = 0
  /\ idle' = TRUE

StopDrain ==
  /\ drain' = IF drain = "none" THEN "none" ELSE "stopped"
  /\ item' = NoItem

\* _kick: the drain task starts with the first message and finds wake set.  A
\* variant leaves the outbox looking idle.
KickStillIdle ==
  /\ wake' = TRUE
  /\ drain' = IF drain = "none" THEN "parked" ELSE drain
  /\ UNCHANGED <<idle, item>>
Kick ==
  /\ idle' = FALSE /\ wake' = TRUE
  /\ drain' = IF drain = "none" THEN "parked" ELSE drain
  /\ UNCHANGED item

\* _shut: the recipient is given up on.
Shut ==
  /\ closed' = TRUE
  /\ Clear /\ StopDrain
  /\ abandoned' = TRUE
  /\ UNCHANGED <<gaps, wake>>

-----------------------------------------------------------------------------
(* Queueing.  A closed outbox takes nothing. *)

\* The message does not fit.  A variant makes room by dropping the oldest.
OverflowDropsOldest(m) ==
  /\ json' = Append(Tail(json), m)
  /\ Kick
  /\ UNCHANGED <<audio, video, bytes, gaps, closed, abandoned>>
Overflow(m) == Shut

SendJson(m) ==
  /\ ~closed
  /\ IF Len(json) >= MaxJson
     THEN Overflow(m)
     ELSE /\ json' = Append(json, m)
          /\ Kick
          /\ UNCHANGED <<audio, video, bytes, gaps, closed, abandoned>>
  /\ UNCHANGED <<connected, watching, handler, requests, made, got>>

\* The oldest video frame that may be evicted.
Evictable(v) ==
  {i \in DOMAIN v : v[i].kind # "config" /\ \A j \in 1 .. i - 1 : v[j].kind = "config"}

\* _media_bytes with the new frame; a variant does not count it.
GrownUncounted == bytes
Grown == bytes + 1

\* The while loop of send_media, with a and v the lanes after the append.
\* _evict_oldest takes video before audio.
MakeRoom(a, v, sent) ==
  \/ /\ Grown <= MaxMedia \/ (Evictable(v) = {} /\ a = <<>>)
     /\ audio' = a /\ video' = v /\ bytes' = Grown
     /\ asked' = sent
     /\ UNCHANGED <<gaps, cool>>
  \/ /\ Grown > MaxMedia
     /\ \E i \in Evictable(v) :
          /\ video' = SubSeq(v, 1, i - 1) \o SubSeq(v, i + 1, Len(v))
          /\ gaps' = gaps \cup {v[i].from}
          /\ DropVideo({v[i].from}, sent)
     /\ audio' = a
     /\ UNCHANGED bytes
  \/ /\ Grown > MaxMedia /\ Evictable(v) = {} /\ a # <<>>
     /\ audio' = Tail(a) /\ video' = v /\ asked' = sent
     /\ UNCHANGED <<bytes, gaps, cool>>

SendAudio ==
  /\ ~closed
  /\ MakeRoom(Append(audio, TRUE), video, asked)
  /\ Kick
  /\ UNCHANGED <<json, conn, made, got>>

\* Sender s encodes a frame: a keyframe if it starts afresh, was asked for one or
\* of its own accord, or a delta.
SendVideo(s, kind) ==
  /\ ~closed
  /\ kind \in {"key", "delta"}
  /\ made[s].first => kind = "key"
  /\ MakeRoom(audio,
              Append(video, [kind |-> kind, from |-> s, number |-> made[s].number,
                             config |-> made[s].config, fresh |-> TRUE]),
              IF kind = "key" THEN asked \ {s} ELSE asked)
  /\ made' = [made EXCEPT ![s].number = (@ + 1) % Numbers, ![s].first = FALSE]
  /\ Kick
  /\ UNCHANGED <<json, conn, got>>

\* Sender s sends another decoder config, which its next keyframe needs.
SendConfig(s) ==
  /\ ~closed
  /\ ~made[s].first
  /\ Cardinality({i \in DOMAIN video : video[i].kind = "config"}) < Configs
  /\ LET config == 1 - made[s].config
     IN  /\ made' = [made EXCEPT ![s].config = config, ![s].first = TRUE]
         /\ MakeRoom(audio, Append(video, [kind |-> "config", from |-> s, number |-> 0,
                                           config |-> config, fresh |-> TRUE]), asked)
  /\ Kick
  /\ UNCHANGED <<json, conn, got>>

-----------------------------------------------------------------------------
(* Time.  The oldest fresh frame of a lane outlives MAX_MEDIA_AGE. *)

AgeAudio ==
  \E i \in DOMAIN audio :
    /\ audio[i] /\ \A j \in 1 .. i - 1 : ~audio[j]
    /\ audio' = [audio EXCEPT ![i] = FALSE]
    /\ UNCHANGED <<json, video, bytes, gaps, events, task, conn, requests, made, got>>

Late(f) == f.kind # "config" /\ ~f.fresh

AgeVideo ==
  \E i \in DOMAIN video :
    /\ video[i].kind # "config" /\ video[i].fresh
    /\ \A j \in 1 .. i - 1 : video[j].kind = "config" \/ Late(video[j])
    /\ video' = [video EXCEPT ![i].fresh = FALSE]
    /\ UNCHANGED <<json, audio, bytes, gaps, events, task, conn, requests, made, got>>

\* KEYFRAME_REQUEST_GAP passes.
CoolDown(s) ==
  /\ s \in cool
  /\ cool' = cool \ {s}
  /\ UNCHANGED <<lanes, events, task, conn, asked, made, got>>

-----------------------------------------------------------------------------
(* The drain task. *)

\* Whether _next_media drops the i-th video frame: it is stale, or a delta whose
\* sender is in a gap when its turn comes.  A variant forgets the gap.
DropsLateOnly(i) == Late(video[i])
Drops(i) ==
  \/ Late(video[i])
  \/ /\ video[i].kind = "delta"
     /\ \/ video[i].from \in gaps
        \/ \E j \in 1 .. i - 1 : Late(video[j]) /\ video[j].from = video[i].from
     /\ ~\E j \in 1 .. i - 1 :
           video[j].kind = "key" /\ video[j].fresh /\ video[j].from = video[i].from

\* _next_media goes over the first n video frames.
PassOver(n) ==
  LET dropped == {video[i].from : i \in {j \in 1 .. n : Drops(j)}}
      healed  == {video[i].from : i \in {j \in 1 .. n : video[j].kind = "key" /\ video[j].fresh}}
  IN  /\ video' = SubSeq(video, n + 1, Len(video))
      /\ gaps' = (gaps \cup dropped) \ healed
      /\ DropVideo(dropped, asked)

Take(it) == item' = it /\ drain' = "sending" /\ UNCHANGED idle

TakeJson ==
  /\ json # <<>>
  /\ Take(JsonItem(Head(json)))
  /\ json' = Tail(json)
  /\ UNCHANGED <<audio, video, bytes, gaps, requests>>

TakeAudio ==
  \E i \in DOMAIN audio :
    /\ json = <<>> /\ audio[i] /\ \A j \in 1 .. i - 1 : ~audio[j]
    /\ Take(AudioItem)
    /\ audio' = SubSeq(audio, i + 1, Len(audio))
    /\ bytes' = bytes - i
    /\ UNCHANGED <<json, video, gaps, requests>>

TakeVideo ==
  \E n \in DOMAIN video :
    /\ json = <<>> /\ \A i \in DOMAIN audio : ~audio[i]
    /\ ~Drops(n) /\ \A i \in 1 .. n - 1 : Drops(i)
    /\ Take(video[n])
    /\ audio' = <<>>
    /\ PassOver(n)
    /\ bytes' = bytes - Len(audio) - n
    /\ UNCHANGED json

\* Nothing is left, or a socket that is not connected has it all discarded.
RunDry(live) ==
  /\ live => /\ json = <<>>
             /\ \A i \in DOMAIN audio : ~audio[i]
             /\ \A i \in DOMAIN video : Drops(i)
  /\ json' = <<>> /\ audio' = <<>> /\ PassOver(Len(video))
  /\ bytes' = bytes - Len(audio) - Len(video)
  /\ item' = NoItem /\ drain' = "parked" /\ idle' = TRUE

\* The inner loop of _drain up to its next send.
TakeNext(live) ==
  \/ RunDry(live)
  \/ live /\ (TakeJson \/ TakeAudio \/ TakeVideo)

DrainWakes ==
  /\ drain = "parked" /\ wake
  /\ wake' = FALSE
  /\ TakeNext(connected)
  /\ UNCHANGED <<conn, made, got>>

\* A send returns, or raises on a socket that stays connected: the drain logs
\* that and goes on, and opens no gap for a frame lost like this.
SendEnds(lost) ==
  /\ drain = "sending"
  /\ TakeNext(connected)
  /\ IF ~connected \/ item.kind = "audio" THEN UNCHANGED got
     ELSE IF item.kind = "json"
          THEN heard' = [message |-> item.message, lost |-> lost] /\ UNCHANGED seen
     ELSE /\ seen' = [seen EXCEPT ![item.from] =
                        IF item.kind = "config" THEN [@ EXCEPT !.config = item.config]
                        ELSE [@ EXCEPT !.number = item.number]]
          /\ UNCHANGED heard
  /\ UNCHANGED <<wake, conn, made>>

\* The recipient is gone: the failing send marks the socket disconnected.
SendFails ==
  /\ drain = "sending"
  /\ connected' = FALSE
  /\ TakeNext(FALSE)
  /\ UNCHANGED <<wake, closed, abandoned, watching, handler, made, got>>

\* A send outlasts SEND_STALL_LIMIT.
SendStalls ==
  /\ drain = "sending"
  /\ Shut
  /\ UNCHANGED <<connected, watching, handler, requests, made, got>>

-----------------------------------------------------------------------------
(* The socket and its handler. *)

\* The broker closes the socket: _close_socket, or another task.
Closes ==
  /\ connected
  /\ connected' = FALSE
  /\ UNCHANGED <<lanes, events, task, closed, abandoned, watching, handler, requests, made, got>>

\* The handler leaves its loop: reader.close() and aclose().
Leave ==
  /\ handler' = "gone" /\ watching' = FALSE
  /\ closed' = TRUE
  /\ Clear /\ StopDrain
  /\ UNCHANGED <<gaps, wake, abandoned, requests, made, got>>

\* receive() sees that the outbox gave up; a variant trusts the watcher to tell.
GivenUpUnseen == FALSE
GivenUp == abandoned

HandlerReads ==
  /\ handler = "busy"
  /\ ~GivenUp
  /\ handler' = "reading"
  /\ UNCHANGED <<lanes, events, task, closed, abandoned, connected, watching,
                 requests, made, got>>

HandlerSeesGivenUp == handler = "busy" /\ GivenUp /\ Leave /\ UNCHANGED connected

FrameArrives ==
  /\ handler = "reading"
  /\ handler' = "busy"
  /\ UNCHANGED <<lanes, events, task, closed, abandoned, connected, watching,
                 requests, made, got>>

\* The peer disconnects, or a stale session makes a busy handler break.
HandlerLeaves ==
  /\ handler # "gone"
  /\ Leave
  /\ connected' = FALSE

\* _watch: interrupts the handler if it is reading, and is done either way.
WatcherFires ==
  /\ watching /\ abandoned
  /\ IF handler = "reading"
     THEN Leave
     ELSE /\ watching' = FALSE
          /\ UNCHANGED <<lanes, events, task, closed, abandoned, handler,
                         requests, made, got>>
  /\ UNCHANGED connected

-----------------------------------------------------------------------------

SenderActs(s) ==
  \/ SendConfig(s) \/ CoolDown(s)
  \/ \E kind \in {"key", "delta"} : SendVideo(s, kind)
DrainActs ==
  DrainWakes \/ (\E lost \in BOOLEAN : SendEnds(lost)) \/ SendFails \/ SendStalls
HandlerActs ==
  HandlerReads \/ HandlerSeesGivenUp \/ FrameArrives \/ HandlerLeaves \/ WatcherFires
Next ==
  \/ \E m \in Message : SendJson(m)
  \/ \E s \in Sender : SenderActs(s)
  \/ SendAudio \/ AgeAudio \/ AgeVideo
  \/ DrainActs \/ HandlerActs \/ Closes

Spec == Init /\ [][Next]_vars

\* A task that can run does; a send ends within SEND_STALL_LIMIT, one way or
\* another.  Nothing makes a message or a client's frame come, or time pass; only
\* senders that stream go on streaming.
FairSpec ==
  /\ Spec
  /\ WF_vars(DrainActs) /\ WF_vars(HandlerReads \/ HandlerSeesGivenUp) /\ WF_vars(WatcherFires)
  /\ \A s \in Sender : /\ WF_vars(\E kind \in {"key", "delta"} : SendVideo(s, kind))
                       /\ WF_vars(s \in asked /\ SendVideo(s, "key"))
                       /\ WF_vars(CoolDown(s))

-----------------------------------------------------------------------------
(* Properties. *)

TypeOK ==
  /\ json \in Seq(Message) /\ audio \in Seq(BOOLEAN) /\ video \in Seq(Frame)
  /\ bytes \in Nat /\ gaps \subseteq Sender
  /\ wake \in BOOLEAN /\ idle \in BOOLEAN
  /\ drain \in {"none", "parked", "sending", "stopped"}
  /\ item \in {NoItem, AudioItem} \cup Frame \cup {JsonItem(m) : m \in Message}
  /\ closed \in BOOLEAN /\ abandoned \in BOOLEAN /\ connected \in BOOLEAN
  /\ watching \in BOOLEAN /\ handler \in {"busy", "reading", "gone"}
  /\ asked \subseteq Sender /\ cool \subseteq Sender
  /\ made \in [Sender -> [number : 0 .. Numbers - 1, config : {0, 1}, first : BOOLEAN]]
  /\ heard \in [message : Message \cup {NoMessage}, lost : BOOLEAN]
  /\ seen \in [Sender -> [number : 0 .. Numbers - 1, config : {0, 1}]]

\* Every video frame the socket is given can be decoded by those it was given
\* before: its sender's config is the last one, and a delta follows the very frame
\* it depends on (the gaps of _drop_video and _next_media, and the configs that
\* _evict_oldest spares).  Only a send that raises on a connected socket loses a
\* frame behind the back of that.
Decodable ==
  drain = "sending" /\ item \in Frame /\ item.kind # "config" =>
    /\ item.config = seen[item.from].config
    /\ item.kind = "delta" => item.number = (seen[item.from].number + 1) % Numbers

\* flush may trust the idle event: on an open outbox it means that everything
\* queued was sent or dropped, the message in flight included.
IdleMeansFlushed ==
  idle /\ ~closed => json = <<>> /\ audio = <<>> /\ video = <<>> /\ drain # "sending"

\* What a recipient can make the broker hold is bounded: the byte count is that
\* of the two lanes, and over the backstop there are only configs.
BacklogBounded ==
  /\ Len(json) <= MaxJson
  /\ bytes = Len(audio) + Len(video)
  /\ bytes > MaxMedia => audio = <<>> /\ \A i \in DOMAIN video : video[i].kind = "config"

\* JSON is delivered as JsonChannel says: in order, each message handed to the
\* socket once, and while the connection lives none lost but in a send that raises
\* and none left behind (the JSON lane of _drain, and _shut when it overflows).
Alive == connected /\ ~closed
Channel == INSTANCE JsonChannel WITH
  queue <- IF ~Alive THEN <<>>
           ELSE IF drain = "sending" /\ item \in {JsonItem(m) : m \in Message}
           THEN <<item.message>> \o json ELSE json,
  alive <- Alive
ImplementsJsonChannel == Channel!FairSpec

\* A recipient that is given up on leaves the room, whatever its handler was
\* doing at the time (abandoned, _watch and receive).
AbandonedLeaves == abandoned ~> handler = "gone"

\* Once a recipient keeps up, with nothing stale, the backlog under its limit and
\* the queue running dry again and again, no sender's video stays frozen on it
\* (the request _drop_video makes with every frame dropped).
KeepsUp ==
  /\ <>[](bytes < MaxMedia /\ \A i \in DOMAIN video : ~Late(video[i]))
  /\ []<>idle
VideoThaws ==
  KeepsUp => \A s \in Sender : s \in gaps ~> (s \notin gaps \/ ~Alive)
=============================================================================
