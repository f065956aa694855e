---------------------------- MODULE OutboxProofs ----------------------------
(* Theorems about Outbox, for any members, limits and numbering.             *)
EXTENDS Outbox, Integers, SequenceTheorems, WellFoundedInduction, TLAPS

-----------------------------------------------------------------------------
(* The lanes as sequences.                                                   *)

LEMMA Least ==
  ASSUME NEW T \in SUBSET Nat, T # {}
  PROVE  \E x \in T : \A y \in T : x <= y
<1> DEFINE R == OpToRel(<, Nat)
<1>1. IsWellFoundedOn(R, Nat)
  BY NatLessThanWellFounded
<1>2. \A x, y \in Nat : <<x, y>> \in R <=> x < y
  BY DEF OpToRel
<1> HIDE DEF R
<1>3. PICK x \in T : \A y \in T : ~ (<<y, x>> \in R)
  BY <1>1, WFMin
<1>4. ASSUME NEW y \in T PROVE x <= y
  <2>1. x \in Nat /\ y \in Nat /\ ~ (<<y, x>> \in R)
    BY <1>3
  <2>2. ~ (y < x)
    BY <1>2, <2>1
  <2> QED
    BY <2>1, <2>2
<1> QED
  BY <1>4

\* Where nothing may be evicted there are only configs.
LEMMA OnlyConfigs ==
  ASSUME NEW v \in Seq(Frame), Evictable(v) = {}
  PROVE  \A i \in DOMAIN v : v[i].kind = "config"
<1> SUFFICES ASSUME NEW T, T = {i \in DOMAIN v : v[i].kind # "config"}, T # {}
             PROVE  FALSE
  OBVIOUS
<1>1. DOMAIN v = 1 .. Len(v) /\ Len(v) \in Nat
  BY LenProperties
<1>2. PICK x \in T : \A y \in T : x <= y
  BY <1>1, Least
<1>3. x \in DOMAIN v /\ v[x].kind # "config" /\ x \in Nat
  BY <1>1
<1>4. \A j \in 1 .. x - 1 : v[j].kind = "config"
  BY <1>1, <1>2, <1>3
<1> QED
  BY <1>3, <1>4 DEF Evictable

LEMMA Cut ==
  ASSUME NEW S, NEW s \in Seq(S), NEW n \in 0 .. Len(s)
  PROVE  /\ SubSeq(s, n + 1, Len(s)) \in Seq(S)
         /\ Len(SubSeq(s, n + 1, Len(s))) = Len(s) - n
         /\ \A i \in 1 .. Len(s) - n : SubSeq(s, n + 1, Len(s))[i] = s[n + i]
<1>1. Len(s) \in Nat /\ \A i \in 1 .. Len(s) : s[i] \in S
  BY LenProperties, ElementOfSeq
<1>2. \A i \in n + 1 .. Len(s) : s[i] \in S
  BY <1>1
<1> QED
  BY <1>1, <1>2, SubSeqProperties

Without(s, i) == SubSeq(s, 1, i - 1) \o SubSeq(s, i + 1, Len(s))

LEMMA Evicted ==
  ASSUME NEW S, NEW s \in Seq(S), NEW i \in 1 .. Len(s)
  PROVE  /\ Without(s, i) \in Seq(S) /\ Len(Without(s, i)) = Len(s) - 1
         /\ \A k \in 1 .. i - 1 : Without(s, i)[k] = s[k]
<1>1. Len(s) \in Nat /\ i \in 1 .. Len(s) /\ \A k \in 1 .. Len(s) : s[k] \in S
  BY LenProperties, ElementOfSeq
<1> DEFINE a == SubSeq(s, 1, i - 1)
           b == SubSeq(s, i + 1, Len(s))
<1>2. a \in Seq(S) /\ Len(a) = i - 1 /\ \A k \in 1 .. i - 1 : a[k] = s[k]
  BY <1>1, SubSeqProperties
<1>3. b \in Seq(S) /\ Len(b) = Len(s) - i
  BY <1>1, Cut
<1> HIDE DEF a, b
<1>4. /\ a \o b \in Seq(S) /\ Len(a \o b) = Len(a) + Len(b)
      /\ \A k \in 1 .. Len(a) + Len(b) :
           (a \o b)[k] = IF k <= Len(a) THEN a[k] ELSE b[k - Len(a)]
  BY <1>2, <1>3, ConcatProperties
<1>5. Without(s, i) = a \o b
  BY DEF a, b, Without
<1> DEFINE c == a \o b
<1> HIDE DEF c
<1>6. c \in Seq(S) /\ Len(c) = Len(s) - 1
  BY <1>1, <1>2, <1>3, <1>4 DEF c
<1>7. ASSUME NEW k \in 1 .. i - 1 PROVE c[k] = s[k]
  <2>1. k \in 1 .. Len(a) + Len(b) /\ k <= Len(a)
    BY <1>1, <1>2, <1>3
  <2>2. c[k] = a[k]
    BY <1>4, <2>1 DEF c
  <2> QED
    BY <1>2, <2>2
<1> QED
  BY <1>5, <1>6, <1>7 DEF c

-----------------------------------------------------------------------------
(* The invariant.  Its parts are about the lanes, the events and the rest.    *)

LaneType ==
  /\ json \in Seq(Message) /\ audio \in Seq(BOOLEAN) /\ video \in Seq(Frame)
  /\ bytes \in Nat /\ gaps \subseteq Sender
  /\ asked \subseteq Sender /\ cool \subseteq Sender

RestType ==
  /\ wake \in BOOLEAN /\ idle \in BOOLEAN
  /\ drain \in {"none", "parked", "sending", "stopped"}
  /\ item \in {NoItem, AudioItem} \cup Frame \cup {JsonItem(m) : m \in Message}
  /\ closed \in BOOLEAN /\ abandoned \in BOOLEAN /\ connected \in BOOLEAN
  /\ watching \in BOOLEAN /\ handler \in {"busy", "reading", "gone"}
  /\ made \in [Sender -> [number : 0 .. Numbers - 1, config : {0, 1}, first : BOOLEAN]]
  /\ heard \in [message : Message \cup {NoMessage}, lost : BOOLEAN]
  /\ seen \in [Sender -> [number : 0 .. Numbers - 1, config : {0, 1}]]

Item == {AudioItem} \cup Frame \cup {JsonItem(m) : m \in Message}
SendingInv == drain = "sending" => item \in Item
ClosedInv == closed => drain \in {"none", "stopped"}

Within(b, a, v) ==
  /\ b = Len(a) + Len(v)
  /\ b > MaxMedia => a = <<>> /\ \A i \in DOMAIN v : v[i].kind = "config"

OutboxInv ==
  LaneType /\ RestType /\ Len(json) <= MaxJson /\ Within(bytes, audio, video)
    /\ IdleMeansFlushed /\ SendingInv /\ ClosedInv

LEMMA Initially == Init => OutboxInv
<1> SUFFICES ASSUME Init PROVE OutboxInv
  OBVIOUS
<1> USE OutboxAssumption DEF Init
<1>1. LaneType
  BY DEF LaneType
<1>2. RestType
  <2>1. 0 \in 0 .. Numbers - 1 /\ Numbers - 1 \in 0 .. Numbers - 1
    OBVIOUS
  <2>2. /\ made \in [Sender -> [number : 0 .. Numbers - 1, config : {0, 1}, first : BOOLEAN]]
        /\ seen \in [Sender -> [number : 0 .. Numbers - 1, config : {0, 1}]]
    BY <2>1
  <2> QED
    BY <2>2 DEF RestType
<1>3. Len(json) <= MaxJson /\ Within(bytes, audio, video)
  BY DEF Within
<1> QED
  BY <1>1, <1>2, <1>3 DEF OutboxInv, IdleMeansFlushed, SendingInv, ClosedInv

\* The lanes with the frame that was queued: a and v.
Queued(a, v) ==
  /\ a \in Seq(BOOLEAN) /\ v \in Seq(Frame)
  /\ Len(a) + Len(v) = bytes + 1
  /\ bytes > MaxMedia =>
       /\ a = <<>> \/ (Len(a) = 1 /\ \A k \in DOMAIN v : v[k].kind = "config")
       /\ a = <<>> => \A k \in 1 .. Len(v) - 1 : v[k].kind = "config"

LEMMA QueuedAudio ==
  ASSUME LaneType, Within(bytes, audio, video)
  PROVE  Queued(Append(audio, TRUE), video)
<1> DEFINE a == Append(audio, TRUE)
<1>1. a \in Seq(BOOLEAN) /\ Len(a) = Len(audio) + 1 /\ a # <<>>
  BY AppendProperties DEF LaneType
<1>2. Len(audio) \in Nat /\ Len(video) \in Nat /\ video \in Seq(Frame)
  BY LenProperties DEF LaneType
<1>3. audio = <<>> => Len(audio) = 0
  BY EmptySeq
<1> HIDE DEF a
<1>4. Queued(a, video)
  BY <1>1, <1>2, <1>3 DEF Within, Queued
<1> QED
  BY <1>4 DEF a

LEMMA QueuedVideo ==
  ASSUME LaneType, Within(bytes, audio, video), NEW f \in Frame
  PROVE  Queued(audio, Append(video, f))
<1> DEFINE v == Append(video, f)
<1>1. v \in Seq(Frame) /\ Len(v) = Len(video) + 1 /\ \A k \in 1 .. Len(video) : v[k] = video[k]
  BY AppendProperties DEF LaneType
<1>2. /\ Len(audio) \in Nat /\ Len(video) \in Nat /\ audio \in Seq(BOOLEAN)
      /\ DOMAIN video = 1 .. Len(video)
  BY LenProperties DEF LaneType
<1> HIDE DEF v
<1>3. Len(audio) + Len(v) = bytes + 1 /\ Len(v) - 1 = Len(video)
  BY <1>1, <1>2 DEF Within
<1>4. bytes > MaxMedia => audio = <<>> /\ \A k \in 1 .. Len(v) - 1 : v[k].kind = "config"
  BY <1>1, <1>2, <1>3 DEF Within
<1>5. Queued(audio, v)
  BY <1>1, <1>2, <1>3, <1>4 DEF Queued
<1> QED
  BY <1>5 DEF v

\* What send_media makes room for stays within the backstop.
LEMMA RoomMade ==
  ASSUME LaneType, NEW sent \in SUBSET Sender, NEW a, NEW v, Queued(a, v), MakeRoom(a, v, sent)
  PROVE  /\ audio' \in Seq(BOOLEAN) /\ video' \in Seq(Frame) /\ bytes' \in Nat
         /\ gaps' \subseteq Sender /\ asked' \subseteq Sender /\ cool' \subseteq Sender
         /\ Within(bytes, audio, video)'
<1> USE OutboxAssumption
<1>1. /\ a \in Seq(BOOLEAN) /\ v \in Seq(Frame) /\ Len(a) \in Nat /\ Len(v) \in Nat
      /\ DOMAIN v = 1 .. Len(v) /\ Grown = bytes + 1 /\ bytes \in Nat
      /\ Len(a) + Len(v) = bytes + 1
      /\ gaps \subseteq Sender /\ asked \subseteq Sender /\ cool \subseteq Sender
  BY LenProperties DEF LaneType, Queued, Grown
<1>2. bytes > MaxMedia => /\ a = <<>> \/ (Len(a) = 1 /\ \A k \in DOMAIN v : v[k].kind = "config")
                          /\ a = <<>> => \A k \in 1 .. Len(v) - 1 : v[k].kind = "config"
  BY DEF Queued
<1>3. CASE /\ Grown <= MaxMedia \/ (Evictable(v) = {} /\ a = <<>>)
           /\ audio' = a /\ video' = v /\ bytes' = Grown
           /\ asked' = sent
           /\ UNCHANGED <<gaps, cool>>
  <2>1. Evictable(v) = {} => \A k \in DOMAIN v : v[k].kind = "config"
    BY <1>1, OnlyConfigs
  <2>2. bytes' > MaxMedia => audio' = <<>> /\ \A k \in DOMAIN video' : video'[k].kind = "config"
    BY <1>1, <1>3, <2>1
  <2>3. bytes' = Len(audio') + Len(video') /\ bytes' \in Nat
    BY <1>1, <1>3
  <2> QED
    BY <1>1, <1>3, <2>2, <2>3 DEF Within
<1>4. CASE /\ Grown > MaxMedia
           /\ \E i \in Evictable(v) :
                /\ video' = SubSeq(v, 1, i - 1) \o SubSeq(v, i + 1, Len(v))
                /\ gaps' = gaps \cup {v[i].from}
                /\ DropVideo({v[i].from}, sent)
           /\ audio' = a
           /\ UNCHANGED bytes
  <2>1. PICK i \in Evictable(v) :
                /\ video' = SubSeq(v, 1, i - 1) \o SubSeq(v, i + 1, Len(v))
                /\ gaps' = gaps \cup {v[i].from}
                /\ DropVideo({v[i].from}, sent)
    BY <1>4
  <2>2. i \in 1 .. Len(v) /\ i \in DOMAIN v /\ v[i].kind # "config"
    BY <1>1 DEF Evictable
  <2>3. v[i] \in Frame
    BY <1>1, <2>2, ElementOfSeq
  <2>4. v[i].from \in Sender
    BY <2>3 DEF Frame
  <2>5. gaps' \subseteq Sender /\ asked' \subseteq Sender /\ cool' \subseteq Sender
    BY <1>1, <2>1, <2>4 DEF DropVideo, Ask
  <2>7. /\ video' \in Seq(Frame) /\ Len(video') = Len(v) - 1
        /\ \A k \in 1 .. i - 1 : video'[k] = v[k]
    <3>1. video' = Without(v, i)
      BY <2>1 DEF Without
    <3> QED
      BY <1>1, <2>2, <3>1, Evicted
  <2>8. DOMAIN video' = 1 .. Len(video')
    BY <2>7, LenProperties
  <2>9. bytes > MaxMedia => a = <<>> /\ i = Len(v) /\ \A k \in 1 .. i - 1 : v[k].kind = "config"
    BY <1>1, <1>2, <2>2
  <2>10. bytes > MaxMedia => a = <<>> /\ \A k \in DOMAIN video' : video'[k].kind = "config"
    BY <2>7, <2>8, <2>9
  <2>11. bytes = Len(a) + Len(video')
    BY <1>1, <2>7
  <2> QED
    BY <1>1, <1>4, <2>5, <2>7, <2>10, <2>11 DEF Within
<1>5. CASE /\ Grown > MaxMedia /\ Evictable(v) = {} /\ a # <<>>
           /\ audio' = Tail(a) /\ video' = v /\ asked' = sent
           /\ UNCHANGED <<bytes, gaps, cool>>
  <2>1. Tail(a) \in Seq(BOOLEAN) /\ Len(Tail(a)) = Len(a) - 1
    BY <1>1, <1>5, HeadTailProperties
  <2>2. \A k \in DOMAIN v : v[k].kind = "config"
    BY <1>1, <1>5, OnlyConfigs
  <2>3. bytes > MaxMedia => Tail(a) = <<>>
    <3>1. bytes > MaxMedia => Len(Tail(a)) = 0
      BY <1>2, <1>5, <2>1
    <3> QED
      BY <2>1, <3>1, EmptySeq
  <2>4. bytes = Len(Tail(a)) + Len(v)
    BY <1>1, <2>1
  <2> QED
    BY <1>1, <1>5, <2>1, <2>2, <2>3, <2>4 DEF Within
<1> QED
  BY <1>3, <1>4, <1>5 DEF MakeRoom

\* The parts of the operations.
LEMMA Kicked ==
  ASSUME RestType, Kick
  PROVE  /\ wake' \in BOOLEAN /\ idle' = FALSE /\ item' = item
         /\ drain' \in {"none", "parked", "sending", "stopped"}
         /\ drain' = "sending" => drain = "sending"
  BY DEF RestType, Kick

LEMMA ShutDown ==
  ASSUME OutboxInv, Clear, StopDrain, closed' = TRUE, gaps' = gaps,
         UNCHANGED <<asked, cool>>
  PROVE  /\ LaneType' /\ Len(json') <= MaxJson /\ Within(bytes, audio, video)'
         /\ IdleMeansFlushed' /\ idle' = TRUE /\ item' = NoItem
         /\ drain' \in {"none", "stopped"}
  BY OutboxAssumption DEF OutboxInv, LaneType, Clear, StopDrain, Within, IdleMeansFlushed

LEMMA QueueStep ==
  ASSUME OutboxInv,
         \/ \E m \in Message : SendJson(m)
         \/ \E s \in Sender : SendConfig(s) \/ \E kind \in {"key", "delta"} : SendVideo(s, kind)
         \/ SendAudio
  PROVE  OutboxInv'
<1> USE OutboxAssumption
<1>0. /\ LaneType /\ RestType /\ Len(json) <= MaxJson /\ Within(bytes, audio, video)
      /\ IdleMeansFlushed /\ SendingInv /\ ClosedInv
  BY DEF OutboxInv
<1>1. ASSUME NEW m \in Message, SendJson(m) PROVE OutboxInv'
  <2>1. CASE Len(json) >= MaxJson
    <3>1. /\ Clear /\ StopDrain /\ closed' = TRUE /\ abandoned' = TRUE
          /\ UNCHANGED <<gaps, wake, connected, watching, handler, asked, cool, made, heard, seen>>
      BY <1>1, <2>1 DEF SendJson, Overflow, Shut, requests, got
    <3> QED
      BY <1>0, <3>1, ShutDown DEF OutboxInv, RestType, SendingInv, ClosedInv
  <2>2. CASE ~(Len(json) >= MaxJson)
    <3>1. /\ json' = Append(json, m) /\ Kick
          /\ UNCHANGED <<audio, video, bytes, gaps, closed, abandoned, connected, watching,
                         handler, asked, cool, made, heard, seen>>
      BY <1>1, <2>2 DEF SendJson, requests, got
    <3>2. json' \in Seq(Message) /\ Len(json') <= MaxJson
      <4>1. Append(json, m) \in Seq(Message) /\ Len(Append(json, m)) = Len(json) + 1
            /\ Len(json) \in Nat
        BY <1>0, AppendProperties, LenProperties DEF LaneType
      <4> QED
        BY <2>2, <3>1, <4>1
    <3>3. /\ wake' \in BOOLEAN /\ idle' = FALSE /\ item' = item
          /\ drain' \in {"none", "parked", "sending", "stopped"}
          /\ drain' = "sending" => drain = "sending"
      BY <1>0, <3>1, Kicked
    <3> QED
      <4>1. LaneType'
        BY <1>0, <3>1, <3>2 DEF LaneType
      <4>2. RestType' /\ SendingInv' /\ IdleMeansFlushed'
        BY <1>0, <3>1, <3>3 DEF RestType, SendingInv, IdleMeansFlushed
      <4>4. ClosedInv'
        BY <3>1, <1>1 DEF SendJson, ClosedInv
      <4>3. Within(bytes, audio, video)'
        BY <1>0, <3>1 DEF Within
      <4> QED
        BY <3>2, <4>1, <4>2, <4>3, <4>4 DEF OutboxInv
  <2> QED
    BY <2>1, <2>2
<1>2. ASSUME NEW a, NEW v, NEW sent \in SUBSET Sender, Queued(a, v), MakeRoom(a, v, sent), Kick,
             ~closed,
             UNCHANGED <<json, closed, abandoned, connected, watching, handler, heard, seen>>,
             made' \in [Sender -> [number : 0 .. Numbers - 1, config : {0, 1}, first : BOOLEAN]]
      PROVE  OutboxInv'
  <2>1. /\ audio' \in Seq(BOOLEAN) /\ video' \in Seq(Frame) /\ bytes' \in Nat
        /\ gaps' \subseteq Sender /\ asked' \subseteq Sender /\ cool' \subseteq Sender
        /\ Within(bytes, audio, video)'
    BY <1>0, <1>2, RoomMade
  <2>2. /\ wake' \in BOOLEAN /\ idle' = FALSE /\ item' = item
        /\ drain' \in {"none", "parked", "sending", "stopped"}
        /\ drain' = "sending" => drain = "sending"
    BY <1>0, <1>2, Kicked
  <2> QED
    BY <1>0, <1>2, <2>1, <2>2 DEF OutboxInv, LaneType, RestType, IdleMeansFlushed, SendingInv,
         ClosedInv
<1>3. CASE SendAudio
  <2>1. /\ MakeRoom(Append(audio, TRUE), video, asked) /\ Kick /\ ~closed /\ asked \in SUBSET Sender
        /\ UNCHANGED <<json, closed, abandoned, connected, watching, handler, made, heard, seen>>
    BY <1>0, <1>3 DEF SendAudio, conn, got, LaneType
  <2>2. made' \in [Sender -> [number : 0 .. Numbers - 1, config : {0, 1}, first : BOOLEAN]]
    BY <1>0, <2>1 DEF RestType
  <2> QED
    BY <1>0, <1>2, <2>1, <2>2, QueuedAudio
<1>4. ASSUME NEW s \in Sender, NEW kind \in {"key", "delta"}, SendVideo(s, kind)
      PROVE  OutboxInv'
  <2> DEFINE f == [kind |-> kind, from |-> s, number |-> made[s].number,
                   config |-> made[s].config, fresh |-> TRUE]
             sent == IF kind = "key" THEN asked \ {s} ELSE asked
  <2>1. /\ MakeRoom(audio, Append(video, f), sent) /\ Kick /\ ~closed
        /\ UNCHANGED <<json, closed, abandoned, connected, watching, handler, heard, seen>>
        /\ made' = [made EXCEPT ![s].number = (made[s].number + 1) % Numbers, ![s].first = FALSE]
    BY <1>4 DEF SendVideo, conn, got
  <2>2. /\ made[s].number \in 0 .. Numbers - 1 /\ made[s].config \in {0, 1}
        /\ f \in Frame /\ sent \in SUBSET Sender
    BY <1>0 DEF RestType, LaneType, Frame
  <2>3. (made[s].number + 1) % Numbers \in 0 .. Numbers - 1
    BY <2>2
  <2>4. made' \in [Sender -> [number : 0 .. Numbers - 1, config : {0, 1}, first : BOOLEAN]]
    <3>1. made \in [Sender -> [number : 0 .. Numbers - 1, config : {0, 1}, first : BOOLEAN]]
      BY <1>0 DEF RestType
    <3> QED
      BY <2>1, <2>3, <3>1
  <2> HIDE DEF f, sent
  <2>5. Queued(audio, Append(video, f))
    BY <1>0, <2>2, QueuedVideo
  <2> QED
    BY <1>2, <2>1, <2>2, <2>4, <2>5
<1>5. ASSUME NEW s \in Sender, SendConfig(s) PROVE OutboxInv'
  <2> DEFINE c == 1 - made[s].config
             f == [kind |-> "config", from |-> s, number |-> 0, config |-> c, fresh |-> TRUE]
  <2>1. /\ MakeRoom(audio, Append(video, f), asked) /\ Kick /\ ~closed
        /\ UNCHANGED <<json, closed, abandoned, connected, watching, handler, heard, seen>>
        /\ made' = [made EXCEPT ![s].config = c, ![s].first = TRUE]
    BY <1>5 DEF SendConfig, conn, got
  <2>2. c \in {0, 1}
    BY <1>0 DEF RestType
  <2>3. f \in Frame /\ asked \in SUBSET Sender
    BY <1>0, <2>2 DEF Frame, LaneType
  <2>4. made' \in [Sender -> [number : 0 .. Numbers - 1, config : {0, 1}, first : BOOLEAN]]
    <3>1. made \in [Sender -> [number : 0 .. Numbers - 1, config : {0, 1}, first : BOOLEAN]]
      BY <1>0 DEF RestType
    <3> QED
      BY <2>1, <2>2, <3>1
  <2> HIDE DEF c, f
  <2>5. Queued(audio, Append(video, f))
    BY <1>0, <2>3, QueuedVideo
  <2> QED
    BY <1>2, <2>1, <2>3, <2>4, <2>5
<1> QED
  BY <1>1, <1>3, <1>4, <1>5

\* Time passes over a lane: a frame grows stale where it stands.
LEMMA AgeStep ==
  ASSUME OutboxInv, AgeAudio \/ AgeVideo \/ \E s \in Sender : CoolDown(s)
  PROVE  OutboxInv'
<1>0. /\ LaneType /\ RestType /\ Len(json) <= MaxJson /\ Within(bytes, audio, video)
      /\ IdleMeansFlushed /\ SendingInv /\ ClosedInv
  BY DEF OutboxInv
<1>1. CASE AgeAudio
  <2>1. PICK i \in DOMAIN audio : audio' = [audio EXCEPT ![i] = FALSE]
    BY <1>1 DEF AgeAudio
  <2>2. UNCHANGED <<json, video, bytes, gaps, events, task, conn, requests, made, got>>
    BY <1>1 DEF AgeAudio
  <2>3. audio \in Seq(BOOLEAN) /\ i \in 1 .. Len(audio) /\ Len(audio) > 0
    BY <1>0, LenProperties DEF LaneType
  <2>4. audio' \in Seq(BOOLEAN) /\ Len(audio') = Len(audio)
    BY <2>1, <2>3, ExceptSeq
  <2>5. audio # <<>>
    BY <2>3, EmptySeq
  <2> QED
    BY <1>0, <2>2, <2>4, <2>5
    DEF OutboxInv, LaneType, RestType, Within, IdleMeansFlushed, SendingInv, ClosedInv, events,
         task, conn,
        requests, got
<1>2. CASE AgeVideo
  <2>1. PICK i \in DOMAIN video :
          video[i].kind # "config" /\ video' = [video EXCEPT ![i].fresh = FALSE]
    BY <1>2 DEF AgeVideo
  <2>2. UNCHANGED <<json, audio, bytes, gaps, events, task, conn, requests, made, got>>
    BY <1>2 DEF AgeVideo
  <2>3. video \in Seq(Frame) /\ i \in 1 .. Len(video) /\ Len(video) > 0
    BY <1>0, LenProperties DEF LaneType
  <2> DEFINE f == [video[i] EXCEPT !.fresh = FALSE]
  <2>4. f \in Frame
    <3>1. video[i] \in Frame
      BY <2>3, ElementOfSeq
    <3> QED
      BY <3>1 DEF Frame
  <2>5. video' = [video EXCEPT ![i] = f]
    BY <2>1
  <2> HIDE DEF f
  <2>6. video' \in Seq(Frame) /\ Len(video') = Len(video)
    BY <2>3, <2>4, <2>5, ExceptSeq
  <2>7. video # <<>> /\ bytes <= MaxMedia
    BY <1>0, <2>1, <2>3, EmptySeq, OutboxAssumption DEF Within, LaneType
  <2> QED
    BY <1>0, <2>2, <2>6, <2>7, OutboxAssumption
    DEF OutboxInv, LaneType, RestType, Within, IdleMeansFlushed, SendingInv, ClosedInv, events,
         task, conn,
        requests, got
<1>3. ASSUME NEW s \in Sender, CoolDown(s) PROVE OutboxInv'
  BY <1>0, <1>3
  DEF CoolDown, OutboxInv, LaneType, RestType, Within, IdleMeansFlushed, SendingInv, ClosedInv,
       lanes,
      events, task, conn, got
<1> QED
  BY <1>1, <1>2, <1>3

\* The drain goes over the first n frames of the video lane.
LEMMA PassedOver ==
  ASSUME LaneType, NEW n \in 0 .. Len(video), PassOver(n)
  PROVE  /\ video' \in Seq(Frame) /\ Len(video') = Len(video) - n
         /\ \A i \in DOMAIN video' : video'[i] = video[n + i] /\ n + i \in DOMAIN video
         /\ gaps' \subseteq Sender /\ asked' \subseteq Sender /\ cool' \subseteq Sender
<1> DEFINE dropped == {video[i].from : i \in {j \in 1 .. n : Drops(j)}}
           healed == {video[i].from
              : i \in {j \in 1 .. n : video[j].kind = "key" /\ video[j].fresh}}
<1>1. /\ video' = SubSeq(video, n + 1, Len(video)) /\ gaps' = (gaps \cup dropped) \ healed
      /\ DropVideo(dropped, asked)
  BY DEF PassOver
<1>2. video \in Seq(Frame) /\ Len(video) \in Nat /\ DOMAIN video = 1 .. Len(video)
  BY LenProperties DEF LaneType
<1>3. \A i \in 1 .. n : video[i] \in Frame /\ video[i].from \in Sender
  <2> SUFFICES ASSUME NEW i \in 1 .. n PROVE video[i] \in Frame /\ video[i].from \in Sender
    OBVIOUS
  <2>1. i \in 1 .. Len(video)
    BY <1>2
  <2>2. video[i] \in Frame
    BY <1>2, <2>1, ElementOfSeq
  <2> QED
    BY <2>2 DEF Frame
<1>4. dropped \subseteq Sender
  BY <1>3
<1> HIDE DEF dropped, healed
<1>5. gaps' \subseteq Sender /\ asked' \subseteq Sender /\ cool' \subseteq Sender
  BY <1>1, <1>4 DEF LaneType, DropVideo, Ask
<1>6. /\ video' \in Seq(Frame) /\ Len(video') = Len(video) - n
      /\ \A i \in 1 .. Len(video) - n : video'[i] = video[n + i]
  BY <1>1, <1>2, Cut
<1>7. DOMAIN video' = 1 .. Len(video')
  BY <1>6, LenProperties
<1> QED
  BY <1>2, <1>5, <1>6, <1>7

\* What one round of the drain leaves, whether it found something to send or not.
LEMMA TakeKeeps ==
  ASSUME OutboxInv, NEW live \in BOOLEAN, TakeNext(live)
  PROVE  /\ LaneType' /\ Len(json') <= MaxJson /\ Within(bytes, audio, video)'
         /\ drain' \in {"parked", "sending"} /\ idle' \in BOOLEAN
         /\ item' \in Item \cup {NoItem} /\ SendingInv'
         /\ idle' => \/ json' = <<>> /\ audio' = <<>> /\ video' = <<>> /\ drain' # "sending"
                     \/ idle /\ (json # <<>> \/ audio # <<>> \/ video # <<>>)
<1> USE OutboxAssumption
<1>0. /\ LaneType /\ RestType /\ Len(json) <= MaxJson /\ Within(bytes, audio, video)
  BY DEF OutboxInv
<1>1. /\ json \in Seq(Message) /\ audio \in Seq(BOOLEAN) /\ video \in Seq(Frame) /\ bytes \in Nat
      /\ Len(json) \in Nat /\ Len(audio) \in Nat /\ Len(video) \in Nat
      /\ DOMAIN audio = 1 .. Len(audio) /\ DOMAIN video = 1 .. Len(video)
      /\ gaps \subseteq Sender /\ asked \subseteq Sender /\ cool \subseteq Sender
      /\ bytes = Len(audio) + Len(video)
      /\ bytes > MaxMedia => audio = <<>> /\ \A i \in DOMAIN video : video[i].kind = "config"
      /\ idle \in BOOLEAN
  BY <1>0, LenProperties DEF LaneType, Within, RestType
<1>2. CASE RunDry(live)
  <2>1. /\ json' = <<>> /\ audio' = <<>> /\ PassOver(Len(video)) /\ item' = NoItem
        /\ bytes' = bytes - Len(audio) - Len(video) /\ drain' = "parked" /\ idle' = TRUE
    BY <1>2 DEF RunDry
  <2>2. /\ video' \in Seq(Frame) /\ Len(video') = 0
        /\ gaps' \subseteq Sender /\ asked' \subseteq Sender /\ cool' \subseteq Sender
    <3> DEFINE n == Len(video)
    <3>1. n \in 0 .. Len(video) /\ PassOver(n) /\ Len(video) - n = 0
      BY <1>1, <2>1
    <3> HIDE DEF n
    <3> QED
      BY <1>0, <3>1, PassedOver
  <2>3. video' = <<>>
    BY <2>2, EmptySeq
  <2>4. bytes' = 0
    BY <1>1, <2>1
  <2> QED
    BY <2>1, <2>2, <2>3, <2>4 DEF LaneType, Within, SendingInv
<1>3. CASE TakeJson
  <2>1. /\ json # <<>> /\ item' = JsonItem(Head(json)) /\ drain' = "sending" /\ idle' = idle
        /\ json' = Tail(json) /\ UNCHANGED <<audio, video, bytes, gaps, asked, cool>>
    BY <1>3 DEF TakeJson, Take, requests
  <2>2. /\ Head(json) \in Message /\ Tail(json) \in Seq(Message)
        /\ Len(Tail(json)) = Len(json) - 1
    BY <1>1, <2>1, HeadTailProperties
  <2> QED
    BY <1>0, <1>1, <2>1, <2>2 DEF LaneType, Within, SendingInv, Item
<1>4. CASE TakeAudio
  <2>1. PICK i \in DOMAIN audio :
          /\ item' = AudioItem /\ drain' = "sending" /\ idle' = idle
          /\ audio' = SubSeq(audio, i + 1, Len(audio)) /\ bytes' = bytes - i
          /\ UNCHANGED <<json, video, gaps, asked, cool>>
    BY <1>4 DEF TakeAudio, Take, requests
  <2>2. audio' \in Seq(BOOLEAN) /\ Len(audio') = Len(audio) - i
    BY <1>1, <2>1, Cut
  <2>3. audio # <<>>
    BY <1>1, EmptySeq
  <2>4. bytes' = Len(audio') + Len(video) /\ bytes' \in Nat /\ bytes <= MaxMedia
        /\ bytes' <= MaxMedia
    BY <1>1, <2>1, <2>2, <2>3, LenProperties
  <2> QED
    <3>1. LaneType' /\ Len(json') <= MaxJson
      BY <1>0, <1>1, <2>1, <2>2, <2>4 DEF LaneType
    <3>2. Within(bytes, audio, video)'
      BY <2>1, <2>2, <2>4, <1>1 DEF Within
    <3>3. item' \in Item \cup {NoItem} /\ SendingInv'
      BY <2>1 DEF SendingInv, Item
    <3> QED
      BY <1>1, <2>1, <2>3, <3>1, <3>2, <3>3
<1>5. CASE TakeVideo
  <2>1. PICK n \in DOMAIN video :
          /\ item' = video[n] /\ drain' = "sending" /\ idle' = idle
          /\ audio' = <<>> /\ PassOver(n)
          /\ bytes' = bytes - Len(audio) - n /\ json' = json
    BY <1>5 DEF TakeVideo, Take
  <2>2. /\ video' \in Seq(Frame) /\ Len(video') = Len(video) - n
        /\ \A i \in DOMAIN video' : video'[i] = video[n + i] /\ n + i \in DOMAIN video
        /\ gaps' \subseteq Sender /\ asked' \subseteq Sender /\ cool' \subseteq Sender
    <3>1. n \in 0 .. Len(video) /\ PassOver(n)
      BY <1>1, <2>1
    <3> QED
      BY <1>0, <3>1, PassedOver
  <2>3. video[n] \in Frame /\ video # <<>>
    BY <1>1, ElementOfSeq, EmptySeq
  <2>4. bytes' = Len(video') /\ bytes' \in Nat /\ (bytes' > MaxMedia => bytes > MaxMedia)
    BY <1>1, <2>1, <2>2
  <2>5. bytes' > MaxMedia => \A i \in DOMAIN video' : video'[i].kind = "config"
    BY <1>1, <2>2, <2>4
  <2> QED
    BY <1>0, <1>1, <2>1, <2>2, <2>3, <2>4, <2>5 DEF LaneType, Within, SendingInv, Item
<1> QED
  BY <1>2, <1>3, <1>4, <1>5 DEF TakeNext

LEMMA DrainStep ==
  ASSUME OutboxInv, NEW lost \in BOOLEAN, DrainWakes \/ SendEnds(lost) \/ SendFails
  PROVE  OutboxInv'
<1>0. RestType /\ IdleMeansFlushed /\ SendingInv /\ ClosedInv
  BY DEF OutboxInv
<1>1. \E live \in BOOLEAN : TakeNext(live)
  BY <1>0 DEF DrainWakes, SendEnds, SendFails, RestType
<1>2. /\ LaneType' /\ Len(json') <= MaxJson /\ Within(bytes, audio, video)'
      /\ drain' \in {"parked", "sending"} /\ idle' \in BOOLEAN
      /\ item' \in Item \cup {NoItem} /\ SendingInv'
      /\ idle' => \/ json' = <<>> /\ audio' = <<>> /\ video' = <<>> /\ drain' # "sending"
                  \/ idle /\ (json # <<>> \/ audio # <<>> \/ video # <<>>)
  BY <1>1, TakeKeeps
<1>3. /\ UNCHANGED <<closed, abandoned, watching, handler, made>>
      /\ wake' \in BOOLEAN /\ connected' \in BOOLEAN
  BY <1>0 DEF DrainWakes, SendEnds, SendFails, conn, RestType
<1>4. IdleMeansFlushed' /\ ClosedInv'
  BY <1>0, <1>2, <1>3 DEF IdleMeansFlushed, ClosedInv, DrainWakes, SendEnds, SendFails
<1>5. heard' \in [message : Message \cup {NoMessage}, lost : BOOLEAN]
      /\ seen' \in [Sender -> [number : 0 .. Numbers - 1, config : {0, 1}]]
  <2>1. CASE UNCHANGED <<heard, seen>>
    BY <1>0, <2>1 DEF RestType
  <2>2. CASE /\ SendEnds(lost)
             /\ heard' = [message |-> item.message, lost |-> lost]
             /\ seen' = seen /\ item.kind = "json"
    <3>1. item \in Item
      BY <1>0, <2>2 DEF SendEnds, SendingInv
    <3>2. PICK m \in Message : item = JsonItem(m)
      BY <2>2, <3>1 DEF Item, AudioItem, Frame
    <3> QED
      BY <1>0, <2>2, <3>2 DEF JsonItem, RestType
  <2>3. CASE /\ SendEnds(lost) /\ heard' = heard /\ item.kind \notin {"json", "audio"}
             /\ seen' = [seen EXCEPT ![item.from] =
                           IF item.kind = "config" THEN [@ EXCEPT !.config = item.config]
                           ELSE [@ EXCEPT !.number = item.number]]
    <3>1. item \in Item
      BY <1>0, <2>3 DEF SendEnds, SendingInv
    <3>2. item \in Frame
      BY <2>3, <3>1 DEF Item, AudioItem, JsonItem
    <3>3. item.config \in {0, 1} /\ item.number \in 0 .. Numbers - 1 /\ item.from \in Sender
      BY <3>2 DEF Frame
    <3> QED
      BY <1>0, <2>3, <3>3 DEF RestType
  <2> QED
    BY <2>1, <2>2, <2>3 DEF DrainWakes, SendEnds, SendFails, got
<1> QED
  BY <1>0, <1>2, <1>3, <1>4, <1>5 DEF OutboxInv, RestType, Item

LEMMA ConnectionStep ==
  ASSUME OutboxInv, SendStalls \/ HandlerActs \/ Closes
  PROVE  OutboxInv'
<1>0. /\ LaneType /\ RestType /\ Len(json) <= MaxJson /\ Within(bytes, audio, video)
      /\ IdleMeansFlushed /\ SendingInv /\ ClosedInv
  BY DEF OutboxInv
<1>1. ASSUME Clear, StopDrain, closed' = TRUE, gaps' = gaps,
             UNCHANGED <<wake, asked, cool, made, heard, seen>>,
             abandoned' \in BOOLEAN, connected' \in BOOLEAN, watching' \in BOOLEAN,
             handler' \in {"busy", "reading", "gone"}
      PROVE  OutboxInv'
  BY <1>0, <1>1, ShutDown DEF OutboxInv, RestType, SendingInv, ClosedInv
<1>2. ASSUME UNCHANGED <<lanes, events, task, closed, abandoned, requests, made, got>>,
             connected' \in BOOLEAN, watching' \in BOOLEAN,
             handler' \in {"busy", "reading", "gone"}
      PROVE  OutboxInv'
  BY <1>0, <1>2
  DEF OutboxInv, LaneType, RestType, Within, IdleMeansFlushed, SendingInv, ClosedInv, lanes,
       events, task,
      requests, got
<1>3. CASE SendStalls
  BY <1>0, <1>1, <1>3 DEF SendStalls, Shut, RestType, requests, got
<1>4. CASE HandlerReads \/ FrameArrives \/ Closes
  BY <1>0, <1>2, <1>4 DEF HandlerReads, FrameArrives, Closes, RestType
<1>5. CASE HandlerSeesGivenUp \/ HandlerLeaves
  BY <1>0, <1>1, <1>5 DEF HandlerSeesGivenUp, HandlerLeaves, Leave, RestType, requests, got
<1>6. CASE WatcherFires
  <2>1. CASE handler = "reading"
    BY <1>0, <1>1, <1>6, <2>1 DEF WatcherFires, Leave, RestType, requests, got
  <2>2. CASE handler # "reading"
    BY <1>0, <1>2, <1>6, <2>2 DEF WatcherFires, RestType
  <2> QED
    BY <2>1, <2>2
<1> QED
  BY <1>3, <1>4, <1>5, <1>6 DEF HandlerActs

-----------------------------------------------------------------------------
LEMMA OutboxStep == OutboxInv /\ [Next]_vars => OutboxInv'
<1>1. OutboxInv /\ Next => OutboxInv'
  BY QueueStep, AgeStep, DrainStep, ConnectionStep DEF Next, SenderActs, DrainActs
<1>2. OutboxInv /\ UNCHANGED vars => OutboxInv'
  BY DEF OutboxInv, LaneType, RestType, Within, IdleMeansFlushed, SendingInv, ClosedInv, vars,
       lanes, events,
     task, conn, requests, got
<1> QED
  BY <1>1, <1>2

THEOREM OutboxInvHolds == Spec => []OutboxInv
  BY Initially, OutboxStep, PTL DEF Spec

\* Every variable of an outbox keeps its type.
THEOREM TypeCorrect == Spec => []TypeOK
<1>1. OutboxInv => TypeOK
  BY DEF OutboxInv, LaneType, RestType, TypeOK
<1> QED
  BY <1>1, OutboxInvHolds, PTL

\* However broadcasts, the drain, its failures and the handler interleave, the byte count is
\* that of the lanes, the JSON lane keeps its limit, and over the backstop there is nothing
\* left to evict (send_json, send_media and _evict_oldest).
THEOREM BacklogBoundedHolds == Spec => []BacklogBounded
<1>1. OutboxInv => BacklogBounded
  BY DEF OutboxInv, Within, BacklogBounded
<1> QED
  BY <1>1, OutboxInvHolds, PTL

\* On an open outbox the idle event means that nothing is queued or in flight (_kick, _drain).
THEOREM IdleMeansFlushedHolds == Spec => []IdleMeansFlushed
<1>1. OutboxInv => IdleMeansFlushed
  BY DEF OutboxInv
<1> QED
  BY <1>1, OutboxInvHolds, PTL

-----------------------------------------------------------------------------
(* The outbox implements its channel.                                        *)
JsonItems == {JsonItem(m) : m \in Message}
InFlight == drain = "sending" /\ item \in JsonItems
Queue == IF ~Alive THEN <<>>
         ELSE IF InFlight THEN <<item.message>> \o json ELSE json

LEMMA Items ==
  /\ AudioItem \notin JsonItems /\ Frame \cap JsonItems = {}
  /\ \A m \in Message : JsonItem(m).message = m
<1>1. \A x \in JsonItems : x.kind = "json"
  BY DEF JsonItems, JsonItem
<1>2. AudioItem.kind = "audio" /\ \A f \in Frame : f.kind # "json"
  BY DEF AudioItem, Frame
<1>3. \A m \in Message : JsonItem(m).message = m
  BY DEF JsonItem
<1> QED
  BY <1>1, <1>2, <1>3

\* A step is one of the channel's, or none, whose effect on the three is this.
LEMMA Maps ==
  ASSUME \/ Alive' = Alive /\ heard' = heard /\ Queue' = Queue
         \/ Alive /\ ~Alive' /\ heard' = heard
         \/ /\ Alive /\ Alive' /\ heard' = heard
            /\ \E m \in Message : Queue' = Append(Queue, m)
         \/ /\ Alive /\ Alive' /\ Queue # <<>> /\ Queue' = Tail(Queue)
            /\ \E lost \in BOOLEAN : heard' = [message |-> Head(Queue), lost |-> lost]
  PROVE  [Channel!Next]_Channel!vars
<1>1. CASE Alive' = Alive /\ heard' = heard /\ Queue' = Queue
  BY <1>1 DEF Channel!vars, Queue, InFlight, JsonItems
<1>2. CASE Alive /\ ~Alive' /\ heard' = heard
  <2>1. Queue' = <<>> /\ Alive' = FALSE
    BY <1>2 DEF Queue, Alive
  <2>2. Channel!Fail
    BY <1>2, <2>1 DEF Channel!Fail, Queue, InFlight, JsonItems
  <2> QED
    BY <2>2 DEF Channel!Next
<1>3. ASSUME NEW m \in Message, Alive, Alive', heard' = heard, Queue' = Append(Queue, m)
      PROVE  [Channel!Next]_Channel!vars
  <2>1. Channel!Send(m)
    BY <1>3 DEF Channel!Send, Queue, InFlight, JsonItems, Alive
  <2> QED
    BY <2>1 DEF Channel!Next
<1>4. ASSUME Alive, Alive', Queue # <<>>, Queue' = Tail(Queue),
             NEW lost \in BOOLEAN, heard' = [message |-> Head(Queue), lost |-> lost]
      PROVE  [Channel!Next]_Channel!vars
  <2>1. Channel!Deliver(lost)
    BY <1>4 DEF Channel!Deliver, Queue, InFlight, JsonItems, Alive
  <2> QED
    BY <2>1 DEF Channel!Next
<1> QED
  BY <1>1, <1>2, <1>3, <1>4

\* What the drain takes next was first in the queue, and the rest is as it was.
LEMMA TakesFirst ==
  ASSUME OutboxInv, Alive', TakeNext(TRUE)
  PROVE  Queue' = json
<1>1. json \in Seq(Message)
  BY DEF OutboxInv, LaneType
<1>2. CASE RunDry(TRUE)
  BY <1>2 DEF RunDry, Queue, InFlight
<1>3. CASE TakeJson
  <2>1. /\ json # <<>> /\ item' = JsonItem(Head(json)) /\ drain' = "sending" /\ json' = Tail(json)
    BY <1>3 DEF TakeJson, Take
  <2>2. Head(json) \in Message
    BY <1>1, <2>1, HeadTailProperties
  <2>3. item' \in JsonItems /\ item'.message = Head(json)
    BY <2>1, <2>2, Items DEF JsonItems
  <2>4. Queue' = <<Head(json)>> \o Tail(json)
    BY <2>1, <2>3 DEF Queue, InFlight
  <2>5. <<Head(json)>> \o Tail(json) = json
    BY <1>1, <2>1
  <2> QED
    BY <2>4, <2>5
<1>4. CASE TakeAudio
  <2>1. json = <<>> /\ json' = json /\ item' = AudioItem
    BY <1>4 DEF TakeAudio, Take
  <2> QED
    BY <2>1, Items DEF Queue, InFlight
<1>5. CASE TakeVideo
  <2>1. PICK n \in DOMAIN video : item' = video[n] /\ json = <<>> /\ json' = json
    BY <1>5 DEF TakeVideo, Take
  <2>2. video[n] \in Frame
    BY <2>1, LenProperties, ElementOfSeq DEF OutboxInv, LaneType
  <2> QED
    BY <2>1, <2>2, Items DEF Queue, InFlight
<1> QED
  BY <1>2, <1>3, <1>4, <1>5 DEF TakeNext

LEMMA QueueGrows ==
  ASSUME NEW m \in Message, NEW first \in Message, json \in Seq(Message)
  PROVE  <<first>> \o Append(json, m) = Append(<<first>> \o json, m)
<1>1. <<first>> \in Seq(Message) /\ <<m>> \in Seq(Message)
  OBVIOUS
<1>2. Append(json, m) = json \o <<m>>
  BY AppendIsConcat
<1>3. <<first>> \o json \in Seq(Message)
  BY <1>1, ConcatProperties
<1>4. Append(<<first>> \o json, m) = (<<first>> \o json) \o <<m>>
  BY <1>3, AppendIsConcat
<1>5. (<<first>> \o json) \o <<m>> = <<first>> \o (json \o <<m>>)
  BY <1>1, ConcatAssociative
<1> QED
  BY <1>2, <1>4, <1>5

LEMMA SendsMap ==
  ASSUME OutboxInv, NEW m \in Message, SendJson(m)
  PROVE  [Channel!Next]_Channel!vars
<1>0. json \in Seq(Message)
  BY DEF OutboxInv, LaneType
<1>1. ~closed /\ heard' = heard /\ connected' = connected
  BY DEF SendJson, got
<1>2. CASE Len(json) >= MaxJson
  <2>1. ~Alive'
    BY <1>2 DEF SendJson, Overflow, Shut, Alive
  <2> QED
    BY <1>1, <2>1, Maps DEF Queue, Alive
<1>3. CASE ~(Len(json) >= MaxJson)
  <2>1. /\ json' = Append(json, m) /\ Kick /\ closed' = closed
    BY <1>3 DEF SendJson
  <2>2. Alive' = Alive /\ item' = item /\ (drain' = "sending" <=> drain = "sending")
    BY <1>1, <2>1 DEF Alive, Kick
  <2>3. CASE Alive /\ InFlight
    <3>1. PICK first \in Message : item = JsonItem(first)
      BY <2>3 DEF InFlight, JsonItems
    <3>2. Queue = <<first>> \o json /\ Queue' = <<first>> \o Append(json, m)
      BY <2>1, <2>2, <2>3, <3>1, Items DEF Queue, InFlight, JsonItems
    <3> QED
      BY <1>0, <1>1, <2>2, <2>3, <3>2, QueueGrows, Maps
  <2>4. CASE Alive /\ ~InFlight
    <3>1. Queue = json /\ Queue' = Append(json, m)
      BY <2>1, <2>2, <2>4 DEF Queue, InFlight, JsonItems
    <3> QED
      BY <1>1, <2>2, <2>4, <3>1, Maps
  <2>5. CASE ~Alive
    BY <1>1, <2>2, <2>5, Maps DEF Queue
  <2> QED
    BY <2>3, <2>4, <2>5
<1> QED
  BY <1>2, <1>3

LEMMA SentMaps ==
  ASSUME OutboxInv, NEW lost \in BOOLEAN, SendEnds(lost)
  PROVE  [Channel!Next]_Channel!vars
<1>0. json \in Seq(Message) /\ SendingInv
  BY DEF OutboxInv, LaneType
<1>1. drain = "sending" /\ TakeNext(connected) /\ Alive' = Alive
  BY DEF SendEnds, conn, Alive
<1>2. CASE ~Alive
  <2>1. heard' = heard \/ connected
    BY DEF SendEnds, got
  <2>2. ~closed \/ heard' = heard
    BY <1>1 DEF OutboxInv, ClosedInv
  <2> QED
    BY <1>1, <1>2, <2>1, <2>2, Maps DEF Queue, Alive
<1>3. CASE Alive
  <2>1. connected = TRUE /\ Queue' = json
    BY <1>1, <1>3, TakesFirst DEF Alive, OutboxInv, RestType
  <2>2. CASE item \in JsonItems
    <3>1. PICK first \in Message : item = JsonItem(first)
      BY <2>2 DEF JsonItems
    <3>2. heard' = [message |-> first, lost |-> lost]
      BY <2>1, <3>1, Items DEF SendEnds, JsonItem
    <3>3. Queue = <<first>> \o json
      BY <1>1, <1>3, <2>2, <3>1, Items DEF Queue, InFlight
    <3>4. <<first>> \o json # <<>> /\ Head(<<first>> \o json) = first
          /\ Tail(<<first>> \o json) = json
      BY <1>0
    <3> QED
      BY <1>1, <1>3, <2>1, <3>2, <3>3, <3>4, Maps
  <2>3. CASE item \notin JsonItems
    <3>1. item \in {AudioItem} \cup Frame
      BY <1>0, <1>1, <2>3 DEF SendingInv, Item, JsonItems
    <3>2. item.kind # "json"
      BY <3>1 DEF AudioItem, Frame
    <3>3. heard' = heard /\ Queue = json
      BY <1>3, <2>3, <3>2 DEF SendEnds, got, Queue, InFlight
    <3> QED
      BY <1>1, <2>1, <3>3, Maps
  <2> QED
    BY <2>2, <2>3
<1> QED
  BY <1>2, <1>3

LEMMA WakesMap ==
  ASSUME OutboxInv, DrainWakes
  PROVE  [Channel!Next]_Channel!vars
<1>1. TakeNext(connected) /\ Alive' = Alive /\ heard' = heard /\ drain = "parked"
  BY DEF DrainWakes, conn, got, Alive
<1>2. CASE Alive
  <2>1. connected = TRUE
    BY <1>2 DEF Alive, OutboxInv, RestType
  <2>2. Queue' = json /\ Queue = json
    BY <1>1, <1>2, <2>1, TakesFirst DEF Queue, InFlight
  <2> QED
    BY <1>1, <2>2, Maps
<1>3. CASE ~Alive
  BY <1>1, <1>3, Maps DEF Queue
<1> QED
  BY <1>2, <1>3

\* Video and audio only queue behind what is in flight, and whoever ends the connection
\* loses the whole queue at once.
LEMMA OthersMap ==
  ASSUME OutboxInv,
         \/ \E s \in Sender : SenderActs(s)
         \/ SendAudio \/ AgeAudio \/ AgeVideo
         \/ SendFails \/ SendStalls \/ HandlerActs \/ Closes
  PROVE  [Channel!Next]_Channel!vars
<1>1. ASSUME UNCHANGED <<json, item, closed, connected, heard>>,
             drain' = "sending" <=> drain = "sending"
      PROVE  [Channel!Next]_Channel!vars
  BY <1>1, Maps DEF Queue, InFlight, JsonItems, Alive
<1>2. ASSUME heard' = heard, ~Alive'
      PROVE  [Channel!Next]_Channel!vars
  BY <1>2, Maps DEF Queue, Alive
<1>3. CASE \E s \in Sender : SenderActs(s)
  BY <1>1, <1>3 DEF SenderActs, SendConfig, SendVideo, CoolDown, Kick, lanes, events, task, conn,
       got
<1>4. CASE SendAudio \/ AgeAudio \/ AgeVideo
  BY <1>1, <1>4 DEF SendAudio, AgeAudio, AgeVideo, Kick, lanes, events, task, conn, got
<1>5. CASE SendFails \/ SendStalls \/ Closes
  BY <1>2, <1>5 DEF SendFails, SendStalls, Closes, Shut, Alive, got
<1>6. CASE HandlerReads \/ FrameArrives
  BY <1>1, <1>6 DEF HandlerReads, FrameArrives, lanes, task, got
<1>7. CASE HandlerSeesGivenUp \/ HandlerLeaves \/ (WatcherFires /\ handler = "reading")
  BY <1>2, <1>7 DEF HandlerSeesGivenUp, HandlerLeaves, WatcherFires, Leave, Alive, got
<1>8. CASE WatcherFires /\ handler # "reading"
  BY <1>1, <1>8 DEF WatcherFires, lanes, task, got
<1> QED
  BY <1>3, <1>4, <1>5, <1>6, <1>7, <1>8 DEF HandlerActs

\* JSON messages are delivered in order, each once, and none is lost while the connection
\* lives: every step of the outbox is a step of JsonChannel or none of its business
\* (send_json, _drain, _shut).
THEOREM ImplementsChannelSteps == Spec => Channel!Spec
<1>1. Init => Channel!Init
  BY DEF Init, Channel!Init, Alive
<1>2. OutboxInv /\ [Next]_vars => [Channel!Next]_Channel!vars
  <2>1. OutboxInv /\ Next => [Channel!Next]_Channel!vars
    BY SendsMap, SentMaps, WakesMap, OthersMap DEF Next, DrainActs
  <2>2. UNCHANGED vars => UNCHANGED Channel!vars
    BY DEF vars, lanes, task, conn, got, Channel!vars, Alive
  <2> QED
    BY <2>1, <2>2
<1> QED
  BY <1>1, <1>2, OutboxInvHolds, PTL DEF Spec, Channel!Spec

-----------------------------------------------------------------------------
(* Video that can be decoded.                                                *)

\* The number after n.
Succ(n) == (n + 1) % Numbers

\* What went out of sender s, with what is being sent.
Went(s) ==
  IF drain = "sending" /\ item \in Frame /\ item.from = s
  THEN IF item.kind = "config" THEN [seen[s] EXCEPT !.config = item.config]
                               ELSE [seen[s] EXCEPT !.number = item.number]
  ELSE seen[s]

\* The places of a lane v, with what went out of sender s before it as place 0 and what s makes
\* next behind it; which of them are a config or a frame of s, where these two are both.
Place(v, last, next, i) == IF i = 0 THEN last ELSE IF i = Len(v) + 1 THEN next ELSE v[i]
ConfigAt(v, s, i) == i \in 1 .. Len(v) => v[i].from = s /\ v[i].kind = "config"
VideoAt(v, s, i) == i \in 1 .. Len(v) => v[i].from = s /\ v[i].kind # "config"

\* Frame i of s needs the config before it, and depends on the frame before it, which may be
\* missing at the head of the lane if s is in a gap.
LinkedAt(v, s, gap, last, next, i, j) ==
  /\ ConfigAt(v, s, j) /\ (\A l \in j + 1 .. i - 1 : ~ConfigAt(v, s, l)) =>
       Place(v, last, next, i).config = Place(v, last, next, j).config
  /\ VideoAt(v, s, j) /\ (\A l \in j + 1 .. i - 1 : ~VideoAt(v, s, l)) =>
       \/ Place(v, last, next, i).number = Succ(Place(v, last, next, j).number)
       \/ j = 0 /\ gap
Linked(v, s, gap, last, next) ==
  \A i \in 1 .. Len(v) + 1 : VideoAt(v, s, i) =>
    \A j \in 0 .. i - 1 : LinkedAt(v, s, gap, last, next, i, j)

LinkInv == Alive => \A s \in Sender : Linked(video, s, s \in gaps, Went(s), made[s])

\* A frame joins the lane.
LEMMA AppendLinks ==
  ASSUME NEW v \in Seq(Frame), NEW f \in Frame, NEW s, NEW gap, NEW last, NEW next,
         NEW after, Linked(v, s, gap, last, next),
         \/ f.from # s /\ after.number = next.number /\ after.config = next.config
         \/ /\ f.from = s /\ f.kind # "config"
            /\ f.number = next.number /\ f.config = next.config
            /\ after.number = Succ(next.number) /\ after.config = next.config
         \/ /\ f.from = s /\ f.kind = "config"
            /\ after.number = next.number /\ after.config = f.config
  PROVE  Linked(Append(v, f), s, gap, last, after)
<1> DEFINE w == Append(v, f)
           n == Len(v)
<1>1. /\ n \in Nat /\ Len(w) = n + 1 /\ w[n + 1] = f
      /\ \A k \in 1 .. n : w[k] = v[k]
  BY AppendProperties, LenProperties
<1> HIDE DEF w, n
<1>2. \A k \in 0 .. n : /\ ConfigAt(w, s, k) <=> ConfigAt(v, s, k)
                        /\ VideoAt(w, s, k) <=> VideoAt(v, s, k)
                        /\ Place(w, last, after, k) = Place(v, last, next, k)
  BY <1>1 DEF ConfigAt, VideoAt, Place, n
<1>3. ConfigAt(v, s, n + 1) /\ VideoAt(v, s, n + 1) /\ Place(v, last, next, n + 1) = next
  BY <1>1 DEF ConfigAt, VideoAt, Place, n
<1>4. /\ ConfigAt(w, s, n + 1) <=> f.from = s /\ f.kind = "config"
      /\ VideoAt(w, s, n + 1) <=> f.from = s /\ f.kind # "config"
      /\ Place(w, last, after, n + 1) = f /\ Place(w, last, after, n + 2) = after
  BY <1>1 DEF ConfigAt, VideoAt, Place
<1>5. \A i \in 1 .. n + 1 : VideoAt(v, s, i) =>
        \A j \in 0 .. i - 1 : LinkedAt(v, s, gap, last, next, i, j)
  BY DEF Linked, n
<1>6. ASSUME NEW i \in 1 .. n + 1, VideoAt(w, s, i), NEW j \in 0 .. i - 1
      PROVE  LinkedAt(w, s, gap, last, after, i, j)
  <2>1. VideoAt(v, s, i)
    BY <1>1, <1>2, <1>3, <1>6
  <2>2. LinkedAt(v, s, gap, last, next, i, j)
    BY <1>5, <1>6, <2>1
  <2>3. /\ Place(w, last, after, i).config = Place(v, last, next, i).config
        /\ Place(w, last, after, i).number = Place(v, last, next, i).number
    BY <1>1, <1>2, <1>3, <1>4, <1>6
  <2> QED
    BY <1>1, <1>2, <2>2, <2>3 DEF LinkedAt
<1>7. ASSUME NEW j \in 0 .. n + 1
      PROVE  LinkedAt(w, s, gap, last, after, n + 2, j)
  <2>1. j \in 0 .. n => LinkedAt(v, s, gap, last, next, n + 1, j)
    BY <1>1, <1>3, <1>5
  <2>2. CASE f.from # s
    BY <1>1, <1>2, <1>3, <1>4, <2>1, <2>2 DEF LinkedAt
  <2>3. CASE f.from = s /\ f.kind # "config"
    BY <1>1, <1>2, <1>3, <1>4, <2>1, <2>3 DEF LinkedAt
  <2>4. CASE f.from = s /\ f.kind = "config"
    BY <1>1, <1>2, <1>3, <1>4, <2>1, <2>4 DEF LinkedAt
  <2> QED
    BY <2>2, <2>3, <2>4
<1>8. Linked(w, s, gap, last, after)
  <2> SUFFICES ASSUME NEW i \in 1 .. n + 2, VideoAt(w, s, i), NEW j \in 0 .. i - 1
               PROVE  LinkedAt(w, s, gap, last, after, i, j)
    BY <1>1 DEF Linked
  <2>1. CASE i \in 1 .. n + 1
    BY <1>6, <2>1
  <2>2. CASE i = n + 2
    BY <1>1, <1>7, <2>2
  <2> QED
    BY <1>1, <2>1, <2>2
<1> QED
  BY <1>8 DEF w

\* The oldest frame is evicted, and its sender is in a gap.
LEMMA EvictLinks ==
  ASSUME NEW v \in Seq(Frame), NEW e \in Evictable(v), NEW s, NEW gap, NEW last,
         NEW next, Linked(v, s, gap, last, next)
  PROVE  Linked(Without(v, e), s, gap \/ v[e].from = s, last, next)
<1> DEFINE w == Without(v, e)
           n == Len(v)
           Up(k) == IF k < e THEN k ELSE k + 1
           hole == gap \/ v[e].from = s
<1>1. /\ n \in Nat /\ e \in 1 .. n /\ v[e].kind # "config"
      /\ \A k \in 1 .. e - 1 : v[k].kind = "config"
  BY LenProperties DEF Evictable
<1>2. Len(w) = n - 1 /\ \A k \in 1 .. n - 1 : w[k] = v[Up(k)]
  <2> DEFINE a == SubSeq(v, 1, e - 1)
             b == SubSeq(v, e + 1, n)
  <2>0. \A k \in 1 .. n : v[k] \in Frame
    BY ElementOfSeq, LenProperties
  <2>1. a \in Seq(Frame) /\ Len(a) = e - 1 /\ \A k \in 1 .. e - 1 : a[k] = v[k]
    BY <1>1, <2>0, SubSeqProperties
  <2>2. b \in Seq(Frame) /\ Len(b) = n - e /\ \A k \in 1 .. n - e : b[k] = v[e + k]
    BY <1>1, Cut
  <2>3. w = a \o b
    BY DEF Without
  <2> HIDE DEF a, b, w
  <2>4. /\ Len(w) = Len(a) + Len(b)
        /\ \A k \in 1 .. Len(a) + Len(b) : w[k] = IF k <= Len(a) THEN a[k] ELSE b[k - Len(a)]
    BY <2>1, <2>2, <2>3, ConcatProperties
  <2>5. Len(a) = e - 1 /\ Len(b) = n - e /\ Len(w) = n - 1 /\ n \in Nat
    BY <1>1, <2>1, <2>2, <2>4
  <2>6. ASSUME NEW k \in 1 .. n - 1
        PROVE  w[k] = v[Up(k)]
    <3>1. k \in 1 .. Len(a) + Len(b)
      BY <1>1, <2>5
    <3>2. w[k] = IF k <= Len(a) THEN a[k] ELSE b[k - Len(a)]
      BY <2>4, <3>1
    <3>3. CASE k < e
      <4>1. k \in 1 .. e - 1 /\ k <= Len(a)
        BY <1>1, <2>5, <3>3
      <4> QED
        BY <2>1, <3>2, <3>3, <4>1
    <3>4. CASE k >= e
      <4>1. k - (e - 1) \in 1 .. n - e /\ ~(k <= Len(a)) /\ e + (k - (e - 1)) = k + 1
        BY <1>1, <2>5, <3>4
      <4>2. b[k - (e - 1)] = v[k + 1]
        BY <2>2, <4>1
      <4> QED
        BY <1>1, <2>5, <3>2, <3>4, <4>1, <4>2
    <3> QED
      BY <1>1, <3>3, <3>4
  <2> QED
    BY <2>5, <2>6
<1> HIDE DEF w, n
<1>3. \A k \in 0 .. n : /\ ConfigAt(w, s, k) <=> ConfigAt(v, s, Up(k))
                        /\ VideoAt(w, s, k) <=> VideoAt(v, s, Up(k))
                        /\ Place(w, last, next, k) = Place(v, last, next, Up(k))
  BY <1>1, <1>2 DEF ConfigAt, VideoAt, Place, n
<1>4. /\ ~ConfigAt(v, s, e)
      /\ VideoAt(v, s, e) <=> v[e].from = s
      /\ \A k \in 1 .. e - 1 : ~VideoAt(v, s, k)
  BY <1>1 DEF ConfigAt, VideoAt, n
<1>5. \A k \in 0 .. n : /\ k < e => Up(k) = k
                        /\ k >= e => Up(k) = k + 1
  BY <1>1
<1> HIDE DEF Up
<1>6. ASSUME NEW i \in 1 .. n, VideoAt(w, s, i), NEW j \in 0 .. i - 1
      PROVE  LinkedAt(w, s, hole, last, next, i, j)
  <2>0. i \in 0 .. n /\ j \in 0 .. n /\ \A k \in j + 1 .. i - 1 : k \in 0 .. n
    BY <1>1, <1>6
  <2>1. Up(i) \in 1 .. n + 1 /\ Up(j) \in 0 .. Up(i) - 1 /\ VideoAt(v, s, Up(i))
    BY <1>1, <1>3, <1>6, <1>5, <2>0
  <2>2. LinkedAt(v, s, gap, last, next, Up(i), Up(j))
    BY <2>1 DEF Linked, n
  <2>3. \A l \in Up(j) + 1 .. Up(i) - 1 : l = e \/ \E k \in j + 1 .. i - 1 : l = Up(k)
    <3> SUFFICES ASSUME NEW l \in Up(j) + 1 .. Up(i) - 1, l # e
                 PROVE  \E k \in j + 1 .. i - 1 : l = Up(k)
      OBVIOUS
    <3>1. CASE l < e
      <4>1. l \in j + 1 .. i - 1 /\ l = Up(l)
        BY <1>1, <1>6, <1>5, <2>0, <3>1
      <4> QED
        BY <4>1
    <3>2. CASE l > e
      <4>1. l - 1 \in j + 1 .. i - 1 /\ l = Up(l - 1)
        BY <1>1, <1>6, <1>5, <2>0, <3>2
      <4> QED
        BY <4>1
    <3> QED
      BY <1>1, <1>6, <3>1, <3>2
  <2>4. ASSUME ConfigAt(w, s, j), \A k \in j + 1 .. i - 1 : ~ConfigAt(w, s, k)
        PROVE  Place(w, last, next, i).config = Place(w, last, next, j).config
    <3>1. \A k \in j + 1 .. i - 1 : ~ConfigAt(v, s, Up(k))
      BY <1>3, <2>0, <2>4
    <3>2. \A l \in Up(j) + 1 .. Up(i) - 1 : ~ConfigAt(v, s, l)
      BY <1>4, <2>3, <3>1
    <3> QED
      BY <1>3, <2>0, <2>2, <2>4, <3>2, <1>1, <1>5 DEF LinkedAt
  <2>5. ASSUME VideoAt(w, s, j), \A k \in j + 1 .. i - 1 : ~VideoAt(w, s, k)
        PROVE  \/ Place(w, last, next, i).number = Succ(Place(w, last, next, j).number)
               \/ j = 0 /\ hole
    <3>1. CASE j # 0 \/ v[e].from # s
      <4>1. \A k \in j + 1 .. i - 1 : ~VideoAt(v, s, Up(k))
        BY <1>3, <2>0, <2>5
      <4>2. e \in Up(j) + 1 .. Up(i) - 1 => ~VideoAt(v, s, e)
        <5>1. j # 0 /\ j < e => j \in 1 .. e - 1 /\ VideoAt(v, s, j)
          BY <1>1, <1>3, <1>5, <1>6, <2>0, <2>5
        <5>2. j >= e => ~(e \in Up(j) + 1 .. Up(i) - 1)
          BY <1>1, <1>5, <1>6, <2>0
        <5>3. j # 0 => ~(e \in Up(j) + 1 .. Up(i) - 1)
          BY <1>1, <1>4, <1>6, <5>1, <5>2
        <5> QED
          BY <1>4, <3>1, <5>3
      <4>3. \A l \in Up(j) + 1 .. Up(i) - 1 : ~VideoAt(v, s, l)
        BY <2>3, <4>1, <4>2
      <4> QED
        BY <1>3, <2>0, <2>2, <2>5, <4>3, <1>1, <1>5 DEF LinkedAt
    <3> QED
      BY <3>1
  <2> HIDE DEF hole
  <2> QED
    BY <2>4, <2>5 DEF LinkedAt
<1>7. Linked(w, s, hole, last, next)
  BY <1>1, <1>2, <1>6 DEF Linked
<1> QED
  BY <1>7 DEF w

\* The first n places leave the lane: c and d are the config and the frame last before what
\* is left of it, unless s is in a gap.
LEMMA CutLinks ==
  ASSUME NEW v \in Seq(Frame), NEW n \in Nat, n <= Len(v), NEW s, NEW gap,
         NEW hole, NEW last, NEW left, NEW next, Linked(v, s, gap, last, next),
         NEW c \in 0 .. n, ConfigAt(v, s, c), \A l \in c + 1 .. n : ~ConfigAt(v, s, l),
         left.config = Place(v, last, next, c).config,
         hole \/ \E d \in 0 .. n :
           /\ VideoAt(v, s, d) /\ \A l \in d + 1 .. n : ~VideoAt(v, s, l)
           /\ left.number = Place(v, last, next, d).number
           /\ d = 0 => ~gap
  PROVE  Linked(SubSeq(v, n + 1, Len(v)), s, hole, left, next)
<1> DEFINE w == SubSeq(v, n + 1, Len(v))
           m == Len(v)
           Up(k) == n + k
<1>1. /\ m \in Nat /\ n \in Nat /\ n <= m /\ Len(w) = m - n
      /\ \A k \in 1 .. m - n : w[k] = v[Up(k)]
  BY Cut, LenProperties
<1> HIDE DEF w, m
<1>2. \A k \in 1 .. m - n + 1 : /\ ConfigAt(w, s, k) <=> ConfigAt(v, s, Up(k))
                                /\ VideoAt(w, s, k) <=> VideoAt(v, s, Up(k))
                                /\ Place(w, left, next, k) = Place(v, last, next, Up(k))
  <2> SUFFICES ASSUME NEW k \in 1 .. m - n + 1
               PROVE  /\ ConfigAt(w, s, k) <=> ConfigAt(v, s, Up(k))
                      /\ VideoAt(w, s, k) <=> VideoAt(v, s, Up(k))
                      /\ Place(w, left, next, k) = Place(v, last, next, Up(k))
    OBVIOUS
  <2>1. /\ k # 0 /\ Up(k) # 0 /\ Len(v) = m
        /\ k \in 1 .. Len(w) <=> Up(k) \in 1 .. Len(v)
        /\ k = Len(w) + 1 <=> Up(k) = Len(v) + 1
    BY <1>1 DEF m
  <2>2. k \in 1 .. Len(w) => w[k] = v[Up(k)]
    BY <1>1
  <2>3. k \notin 1 .. Len(w) => k = Len(w) + 1
    BY <1>1
  <2> HIDE DEF Up
  <2> QED
    BY <2>1, <2>2, <2>3 DEF ConfigAt, VideoAt, Place
<1>3. /\ \A i \in 1 .. m - n + 1 : Up(i) \in 1 .. m + 1 /\ Up(i) # 0
      /\ \A i \in 1 .. m - n + 1 : \A j \in 1 .. i - 1 : Up(j) \in 0 .. Up(i) - 1
      /\ \A i \in 1 .. m - n + 1 : \A j \in 0 .. n : j \in 0 .. Up(i) - 1
  BY <1>1
<1>4. \A i \in 1 .. m - n + 1 : \A j \in 0 .. i - 1 : \A l \in Up(j) + 1 .. Up(i) - 1 :
        \E k \in j + 1 .. i - 1 : k \in 1 .. m - n + 1 /\ l = Up(k)
  <2> SUFFICES ASSUME NEW i \in 1 .. m - n + 1, NEW j \in 0 .. i - 1,
                      NEW l \in Up(j) + 1 .. Up(i) - 1
               PROVE  \E k \in j + 1 .. i - 1 : k \in 1 .. m - n + 1 /\ l = Up(k)
    OBVIOUS
  <2>1. l - n \in j + 1 .. i - 1 /\ l - n \in 1 .. m - n + 1 /\ l = Up(l - n)
    BY <1>1
  <2> QED
    BY <2>1
<1>5. Up(0) = n
  OBVIOUS
<1>6. \A i \in 1 .. m - n + 1 : \A j \in 0 .. n : \A l \in j + 1 .. Up(i) - 1 :
        l \in j + 1 .. n \/ l \in Up(0) + 1 .. Up(i) - 1
  BY <1>1
<1> HIDE DEF Up
<1>7. ASSUME NEW i \in 1 .. m - n + 1, VideoAt(w, s, i), NEW j \in 0 .. i - 1
      PROVE  LinkedAt(w, s, hole, left, next, i, j)
  <2>0. /\ j # 0 => j \in 1 .. m - n + 1 /\ j \in 1 .. i - 1
        /\ \A k \in j + 1 .. i - 1 : k \in 1 .. m - n + 1
    BY <1>1, <1>7
  <2>1. Up(i) \in 1 .. m + 1 /\ VideoAt(v, s, Up(i))
    BY <1>1, <1>2, <1>3, <1>7
  <2>2. \A k \in 0 .. Up(i) - 1 : LinkedAt(v, s, gap, last, next, Up(i), k)
    BY <2>1 DEF Linked, m
  <2>3. (\A k \in j + 1 .. i - 1 : ~ConfigAt(w, s, k)) =>
          \A l \in Up(j) + 1 .. Up(i) - 1 : ~ConfigAt(v, s, l)
    BY <1>1, <1>2, <1>4, <1>7
  <2>4. (\A k \in j + 1 .. i - 1 : ~VideoAt(w, s, k)) =>
          \A l \in Up(j) + 1 .. Up(i) - 1 : ~VideoAt(v, s, l)
    BY <1>1, <1>2, <1>4, <1>7
  <2>5. Place(w, left, next, i) = Place(v, last, next, Up(i))
    BY <1>1, <1>2, <1>7
  <2>6. CASE j # 0
    <3>1. /\ LinkedAt(v, s, gap, last, next, Up(i), Up(j)) /\ Up(j) # 0
          /\ ConfigAt(w, s, j) <=> ConfigAt(v, s, Up(j))
          /\ VideoAt(w, s, j) <=> VideoAt(v, s, Up(j))
          /\ Place(w, left, next, j) = Place(v, last, next, Up(j))
      BY <1>1, <1>2, <1>3, <1>7, <2>0, <2>2, <2>6
    <3> QED
      BY <2>3, <2>4, <2>5, <3>1 DEF LinkedAt
  <2>7. CASE j = 0
    <3>1. Place(w, left, next, j) = left
      BY <2>7 DEF Place
    <3>2. ASSUME \A k \in j + 1 .. i - 1 : ~ConfigAt(w, s, k)
          PROVE  Place(w, left, next, i).config = left.config
      <4>1. \A l \in c + 1 .. Up(i) - 1 : ~ConfigAt(v, s, l)
        BY <1>6, <1>7, <2>3, <2>7, <3>2
      <4>2. LinkedAt(v, s, gap, last, next, Up(i), c)
        BY <1>3, <1>7, <2>2
      <4> QED
        BY <2>5, <4>1, <4>2 DEF LinkedAt
    <3>3. ASSUME \A k \in j + 1 .. i - 1 : ~VideoAt(w, s, k), ~hole
          PROVE  Place(w, left, next, i).number = Succ(left.number)
      <4>1. PICK d \in 0 .. n :
              /\ VideoAt(v, s, d) /\ \A l \in d + 1 .. n : ~VideoAt(v, s, l)
              /\ left.number = Place(v, last, next, d).number
              /\ d = 0 => ~gap
        BY <3>3
      <4>2. \A l \in d + 1 .. Up(i) - 1 : ~VideoAt(v, s, l)
        BY <1>6, <1>7, <2>4, <2>7, <3>3, <4>1
      <4>3. LinkedAt(v, s, gap, last, next, Up(i), d)
        BY <1>3, <1>7, <2>2
      <4> QED
        BY <2>5, <4>1, <4>2, <4>3 DEF LinkedAt
    <3> QED
      BY <2>7, <3>1, <3>2, <3>3 DEF LinkedAt
  <2> QED
    BY <2>6, <2>7
<1>8. Linked(w, s, hole, left, next)
  BY <1>1, <1>7 DEF Linked
<1> QED
  BY <1>8 DEF w

\* send_media: what it evicts leaves a gap.
LEMMA RoomLinks ==
  ASSUME gaps \subseteq Sender, NEW v \in Seq(Frame), NEW a, NEW sent, MakeRoom(a, v, sent),
         NEW s \in Sender, NEW last, NEW next, Linked(v, s, s \in gaps, last, next)
  PROVE  Linked(video', s, s \in gaps', last, next)
<1>1. CASE video' = v /\ gaps' = gaps
  BY <1>1
<1>2. ASSUME NEW e \in Evictable(v), video' = SubSeq(v, 1, e - 1) \o SubSeq(v, e + 1, Len(v)),
             gaps' = gaps \cup {v[e].from}
      PROVE  Linked(video', s, s \in gaps', last, next)
  <2>1. video' = Without(v, e)
    BY <1>2 DEF Without
  <2>2. Linked(Without(v, e), s, s \in gaps \/ v[e].from = s, last, next)
    BY EvictLinks
  <2>3. (s \in gaps') = (s \in gaps \/ v[e].from = s)
    BY <1>2
  <2> QED
    BY <2>1, <2>2, <2>3
<1> QED
  BY <1>1, <1>2 DEF MakeRoom

\* What went out of sender s once frame f did too.
Past(last, f) == IF f.kind = "config" THEN [last EXCEPT !.config = f.config]
                                      ELSE [last EXCEPT !.number = f.number]

\* A dropped frame is no config and no fresh keyframe, and a frame of s after nothing but
\* dropped ones goes out only if s is in no gap and lost none of them.
LEMMA DroppedFrames ==
  ASSUME video \in Seq(Frame), NEW n \in 0 .. Len(video), \A i \in 1 .. n - 1 : Drops(i)
  PROVE  /\ \A i \in 1 .. n : Drops(i) =>
              video[i].kind # "config" /\ ~(video[i].kind = "key" /\ video[i].fresh)
         /\ n # 0 /\ ~Drops(n) /\ video[n].kind = "delta" =>
              /\ video[n].from \notin gaps
              /\ \A i \in 1 .. n - 1 : video[i].from # video[n].from
         /\ n # 0 /\ ~Drops(n) /\ video[n].kind = "key" => video[n].fresh
<1>1. \A i \in 1 .. n : Drops(i) =>
        video[i].kind # "config" /\ ~(video[i].kind = "key" /\ video[i].fresh)
  BY DEF Drops, Late
<1>2. ASSUME n # 0, ~Drops(n), video[n].kind = "delta"
      PROVE  /\ video[n].from \notin gaps
             /\ \A i \in 1 .. n - 1 : video[i].from # video[n].from
  <2>1. ~\E j \in 1 .. n - 1 :
           video[j].kind = "key" /\ video[j].fresh /\ video[j].from = video[n].from
    BY <1>1
  <2>2. /\ video[n].from \notin gaps
        /\ \A j \in 1 .. n - 1 : ~(Late(video[j]) /\ video[j].from = video[n].from)
    BY <1>2, <2>1 DEF Drops
  <2>3. ASSUME NEW i \in 1 .. n - 1, video[i].from = video[n].from
        PROVE  FALSE
    <3>1. ~Late(video[i]) /\ Drops(i)
      BY <2>2, <2>3
    <3>2. \E j \in 1 .. i - 1 : Late(video[j]) /\ video[j].from = video[i].from
      BY <2>2, <2>3, <3>1 DEF Drops
    <3>3. \A j \in 1 .. i - 1 : j \in 1 .. n - 1
      OBVIOUS
    <3> QED
      BY <2>2, <2>3, <3>2, <3>3
  <2> QED
    BY <2>2, <2>3
<1>3. n # 0 /\ ~Drops(n) /\ video[n].kind = "key" => video[n].fresh
  BY DEF Drops, Late
<1> QED
  BY <1>1, <1>2, <1>3

\* _next_media drops what is before frame n, and that one too if it finds nothing to send.
LEMMA PassLinks ==
  ASSUME video \in Seq(Frame), NEW n \in 0 .. Len(video), \A i \in 1 .. n - 1 : Drops(i),
         PassOver(n), NEW s \in Sender, NEW next,
         NEW last \in [number : 0 .. Numbers - 1, config : {0, 1}],
         Linked(video, s, s \in gaps, last, next)
  PROVE  Linked(video', s, s \in gaps',
                IF n # 0 /\ ~Drops(n) /\ video[n].from = s THEN Past(last, video[n]) ELSE last,
                next)
<1> DEFINE sends == n # 0 /\ ~Drops(n) /\ video[n].from = s
           left == IF sends THEN Past(last, video[n]) ELSE last
           dropped == {video[i].from : i \in {j \in 1 .. n : Drops(j)}}
           healed == {video[i].from
              : i \in {j \in 1 .. n : video[j].kind = "key" /\ video[j].fresh}}
           c == IF sends /\ video[n].kind = "config" THEN n ELSE 0
           d == IF sends /\ video[n].kind # "config" THEN n ELSE 0
<1>0. Len(video) \in Nat /\ n \in Nat /\ n <= Len(video)
  BY LenProperties
<1>1. /\ \A i \in 1 .. n : Drops(i) =>
           video[i].kind # "config" /\ ~(video[i].kind = "key" /\ video[i].fresh)
      /\ n # 0 /\ ~Drops(n) /\ video[n].kind = "key" => video[n].fresh
  BY DroppedFrames
<1>2. \A i \in 1 .. n : Drops(i) \/ i = n
  BY <1>0
<1>3. video' = SubSeq(video, n + 1, Len(video)) /\ gaps' = (gaps \cup dropped) \ healed
  BY DEF PassOver
<1>4. c \in 0 .. n /\ d \in 0 .. n
  BY <1>0
<1>5. ConfigAt(video, s, c) /\ \A l \in c + 1 .. n : ~ConfigAt(video, s, l)
  <2>1. ConfigAt(video, s, c)
    BY <1>0 DEF ConfigAt
  <2>2. ASSUME NEW l \in c + 1 .. n PROVE ~ConfigAt(video, s, l)
    <3>1. l \in 1 .. n /\ l \in 1 .. Len(video)
      BY <1>0, <1>4
    <3>2. CASE Drops(l)
      BY <1>1, <3>1, <3>2 DEF ConfigAt
    <3>3. CASE l = n /\ ~Drops(n)
      BY <1>0, <3>1, <3>3 DEF ConfigAt
    <3> QED
      BY <1>2, <3>1, <3>2, <3>3
  <2> QED
    BY <2>1, <2>2
<1>6. left.config = Place(video, last, next, c).config
  <2>1. CASE sends /\ video[n].kind = "config"
    BY <1>0, <2>1 DEF Past, Place
  <2>2. CASE ~(sends /\ video[n].kind = "config")
    BY <1>0, <2>2 DEF Past, Place
  <2> QED
    BY <2>1, <2>2
<1>7. \/ s \in gaps'
      \/ /\ VideoAt(video, s, d) /\ \A l \in d + 1 .. n : ~VideoAt(video, s, l)
         /\ left.number = Place(video, last, next, d).number
         /\ d = 0 => ~(s \in gaps)
  <2>1. CASE sends /\ video[n].kind # "config"
    <3>1. d = n /\ VideoAt(video, s, d) /\ left.number = video[n].number
      BY <2>1 DEF VideoAt, Past
    <3> QED
      BY <1>0, <2>1, <3>1 DEF Place
  <2>2. CASE ~(sends /\ video[n].kind # "config")
    <3>1. d = 0 /\ VideoAt(video, s, 0) /\ left.number = last.number
      BY <2>2 DEF VideoAt, Past
    <3>2. s \notin healed
      <4> SUFFICES ASSUME NEW i \in 1 .. n, video[i].kind = "key", video[i].fresh,
                          video[i].from = s
                   PROVE  FALSE
        OBVIOUS
      <4>1. i = n /\ ~Drops(n) /\ n # 0
        BY <1>0, <1>1, <1>2
      <4> QED
        BY <2>2, <4>1
    <3>3. CASE s \in dropped \/ s \in gaps
      BY <1>3, <3>2, <3>3
    <3>4. CASE s \notin dropped /\ s \notin gaps
      <4>1. ASSUME NEW l \in 1 .. n PROVE ~VideoAt(video, s, l)
        <5>1. l \in 1 .. Len(video)
          BY <1>0
        <5>2. CASE Drops(l)
          BY <3>4, <5>1, <5>2 DEF VideoAt
        <5>3. CASE l = n /\ ~Drops(n)
          BY <1>0, <2>2, <5>1, <5>3 DEF VideoAt
        <5> QED
          BY <1>2, <5>2, <5>3
      <4> QED
        BY <3>1, <3>4, <4>1 DEF Place
    <3> QED
      BY <3>3, <3>4
  <2> QED
    BY <2>1, <2>2
<1> HIDE DEF left, c, d, dropped, healed
<1> DEFINE gap == s \in gaps
           hole == s \in gaps'
<1>8. Linked(video, s, gap, last, next)
  OBVIOUS
<1>9. hole \/ \E e \in 0 .. n :
        /\ VideoAt(video, s, e) /\ \A l \in e + 1 .. n : ~VideoAt(video, s, l)
        /\ left.number = Place(video, last, next, e).number
        /\ e = 0 => ~gap
  BY <1>4, <1>7
<1>10. Linked(video', s, hole, left, next)
  <2>1. n \in Nat /\ n <= Len(video) /\ video \in Seq(Frame)
    BY <1>0
  <2> HIDE DEF gap, hole
  <2> QED
    BY ONLY <1>3, <1>4, <1>5, <1>6, <1>8, <1>9, <2>1, CutLinks
<1> QED
  BY <1>10 DEF left, hole

LEMMA WentType ==
  ASSUME RestType, NEW s \in Sender
  PROVE  Went(s) \in [number : 0 .. Numbers - 1, config : {0, 1}]
<1>1. seen[s] \in [number : 0 .. Numbers - 1, config : {0, 1}]
  BY DEF RestType
<1>2. item \in Frame => item.number \in 0 .. Numbers - 1 /\ item.config \in {0, 1}
  BY DEF Frame
<1> QED
  BY <1>1, <1>2 DEF Went

\* Of what the drain takes, only a video frame is one.
LEMMA NoFrames == AudioItem \notin Frame /\ \A m \in Message : JsonItem(m) \notin Frame
<1>1. \A f \in Frame : f.kind # "audio" /\ f.kind # "json"
  BY DEF Frame
<1>2. AudioItem.kind = "audio" /\ \A m \in Message : JsonItem(m).kind = "json"
  BY DEF AudioItem, JsonItem
<1> QED
  BY <1>1, <1>2

\* A frame that is taken can be decoded, and what stays behind it is linked to it.
LEMMA TakeLinks ==
  ASSUME OutboxInv, TakeNext(TRUE), made' = made,
         \A s \in Sender : /\ seen'[s] = Went(s)
                           /\ Linked(video, s, s \in gaps, Went(s), made[s])
  PROVE  /\ \A s \in Sender : Linked(video', s, s \in gaps', Went(s)', made'[s])
         /\ Decodable'
<1>0. /\ LaneType /\ RestType
      /\ video \in Seq(Frame) /\ Len(video) \in Nat /\ DOMAIN video = 1 .. Len(video)
  BY LenProperties DEF OutboxInv, LaneType
<1>1. \A s \in Sender : Went(s) \in [number : 0 .. Numbers - 1, config : {0, 1}]
  BY <1>0, WentType
<1>2. ASSUME video' = video, gaps' = gaps, item' \notin Frame
      PROVE  /\ \A s \in Sender : Linked(video', s, s \in gaps', Went(s)', made'[s])
             /\ Decodable'
  <2>1. \A s \in Sender : Went(s)' = Went(s)
    BY <1>2 DEF Went
  <2> QED
    BY <1>2, <2>1 DEF Decodable
<1>3. CASE RunDry(TRUE)
  <2>1. /\ drain' = "parked" /\ PassOver(Len(video)) /\ \A i \in 1 .. Len(video) : Drops(i)
    BY <1>0, <1>3 DEF RunDry
  <2>2. \A s \in Sender : Went(s)' = Went(s)
    BY <2>1 DEF Went
  <2>3. ASSUME NEW s \in Sender
        PROVE  Linked(video', s, s \in gaps', Went(s), made[s])
    <3>1. /\ Len(video) \in 0 .. Len(video) /\ Linked(video, s, s \in gaps, Went(s), made[s])
          /\ \A i \in 1 .. Len(video) - 1 : Drops(i)
          /\ Len(video) # 0 => Drops(Len(video))
      BY <1>0, <2>1
    <3>2. Linked(video', s, s \in gaps', IF Len(video) # 0 /\ ~Drops(Len(video))
                                            /\ video[Len(video)].from = s
                                         THEN Past(Went(s), video[Len(video)]) ELSE Went(s),
                 made[s])
      BY <1>0, <1>1, <2>1, <3>1, PassLinks
    <3> QED
      BY <3>1, <3>2
  <2> QED
    BY <2>1, <2>2, <2>3 DEF Decodable
<1>4. CASE TakeJson
  <2>1. /\ json # <<>> /\ json \in Seq(Message) /\ item' = JsonItem(Head(json))
        /\ video' = video /\ gaps' = gaps
    BY <1>0, <1>4 DEF TakeJson, Take, LaneType
  <2>2. item' \notin Frame
    BY <2>1, HeadTailProperties, NoFrames
  <2> QED
    BY <1>2, <2>1, <2>2
<1>5. CASE TakeAudio
  BY <1>2, <1>5, NoFrames DEF TakeAudio, Take
<1>6. CASE TakeVideo
  <2>1. PICK n \in 1 .. Len(video) :
          /\ ~Drops(n) /\ (\A i \in 1 .. n - 1 : Drops(i)) /\ PassOver(n)
          /\ item' = video[n] /\ drain' = "sending"
    BY <1>0, <1>6 DEF TakeVideo, Take
  <2>2. n \in 0 .. Len(video) /\ n # 0 /\ video[n] \in Frame
    BY <1>0, <2>1, ElementOfSeq
  <2> DEFINE f == video[n]
  <2>3. \A s \in Sender : Went(s)' = IF f.from = s THEN Past(Went(s), f) ELSE Went(s)
    BY <2>1, <2>2 DEF Went, Past
  <2>4. ASSUME NEW s \in Sender
        PROVE  Linked(video', s, s \in gaps', Went(s)', made'[s])
    <3>1. Linked(video, s, s \in gaps, Went(s), made[s])
      OBVIOUS
    <3>2. Linked(video', s, s \in gaps', IF n # 0 /\ ~Drops(n) /\ video[n].from = s
                                         THEN Past(Went(s), video[n]) ELSE Went(s), made[s])
      BY <1>0, <1>1, <2>1, <2>2, <3>1, PassLinks
    <3> QED
      BY <2>1, <2>2, <2>3, <3>2
  <2>5. ASSUME f.kind # "config"
        PROVE  /\ f.config = Went(f.from).config
               /\ f.kind = "delta" => f.number = Succ(Went(f.from).number)
    <3> DEFINE s == f.from
               last == Went(s)
    <3>1. s \in Sender /\ f.kind \in {"key", "delta"}
      BY <2>2, <2>5 DEF Frame
    <3>2. VideoAt(video, s, n) /\ LinkedAt(video, s, s \in gaps, last, made[s], n, 0)
      <4>1. Linked(video, s, s \in gaps, last, made[s])
        BY <3>1
      <4>2. VideoAt(video, s, n) /\ n \in 1 .. Len(video) + 1 /\ 0 \in 0 .. n - 1
        BY <1>0, <2>1, <2>5 DEF VideoAt
      <4> QED
        BY <4>1, <4>2 DEF Linked
    <3>3. /\ ConfigAt(video, s, 0) /\ VideoAt(video, s, 0)
          /\ Place(video, last, made[s], 0) = last /\ Place(video, last, made[s], n) = f
      BY <1>0, <2>1 DEF ConfigAt, VideoAt, Place
    <3>4. /\ \A i \in 1 .. n : Drops(i) => video[i].kind # "config"
          /\ f.kind = "delta" => /\ s \notin gaps
                                 /\ \A i \in 1 .. n - 1 : video[i].from # s
      BY <1>0, <2>1, <2>2, DroppedFrames
    <3>5. \A l \in 0 + 1 .. n - 1 : ~ConfigAt(video, s, l)
      BY <1>0, <2>1, <3>4 DEF ConfigAt
    <3>6. f.kind = "delta" => \A l \in 0 + 1 .. n - 1 : ~VideoAt(video, s, l)
      BY <1>0, <2>1, <3>4 DEF VideoAt
    <3> HIDE DEF f
    <3> QED
      BY <3>2, <3>3, <3>4, <3>5, <3>6 DEF LinkedAt
  <2>6. f.from \in Sender
    BY <2>2 DEF Frame
  <2> QED
    BY <2>1, <2>4, <2>5, <2>6 DEF Decodable, Succ
<1> QED
  BY <1>3, <1>4, <1>5, <1>6 DEF TakeNext

MediaInv == LinkInv /\ Decodable

LEMMA MediaStart == Init => MediaInv
<1> SUFFICES ASSUME Init PROVE MediaInv
  OBVIOUS
<1>1. video = <<>> /\ Len(video) = 0 /\ drain # "sending"
  BY DEF Init
<1>2. ASSUME NEW s \in Sender PROVE Linked(video, s, s \in gaps, Went(s), made[s])
  <2>1. Went(s).number = Numbers - 1 /\ Went(s).config = 0
        /\ made[s].number = 0 /\ made[s].config = 0
    BY <1>1 DEF Init, Went
  <2>2. Succ(Numbers - 1) = 0
    BY OutboxAssumption DEF Succ
  <2>3. LinkedAt(video, s, s \in gaps, Went(s), made[s], 1, 0)
    BY <1>1, <2>1, <2>2 DEF LinkedAt, Place
  <2>4. \A i \in 1 .. Len(video) + 1 : i = 1 /\ \A j \in 0 .. i - 1 : j = 0
    BY <1>1
  <2> QED
    BY <2>3, <2>4 DEF Linked
<1> QED
  BY <1>1, <1>2 DEF MediaInv, LinkInv, Decodable

\* What stays as it is stays linked, and so does a connection that ends.
LEMMA MediaStays ==
  ASSUME MediaInv, UNCHANGED seen,
         drain' = "sending" => drain = "sending" /\ item' = item,
         \/ ~Alive'
         \/ Alive /\ UNCHANGED <<video, gaps, made>> /\ (drain' = "sending" <=> drain = "sending")
  PROVE  MediaInv'
<1>1. Decodable'
  BY DEF MediaInv, Decodable
<1>2. CASE ~Alive'
  BY <1>1, <1>2 DEF MediaInv, LinkInv
<1>3. CASE /\ Alive /\ UNCHANGED <<video, gaps, made>>
           /\ drain' = "sending" <=> drain = "sending"
  <2>1. \A s \in Sender : Went(s)' = Went(s)
    BY <1>3 DEF Went
  <2>2. \A s \in Sender : Linked(video, s, s \in gaps, Went(s), made[s])
    BY <1>3 DEF MediaInv, LinkInv
  <2> QED
    BY <1>1, <1>3, <2>1, <2>2 DEF MediaInv, LinkInv
<1> QED
  BY <1>2, <1>3

\* send_media queues a frame behind those before it.
LEMMA SendLinks ==
  ASSUME OutboxInv, MediaInv, SendAudio \/ \E s \in Sender : SenderActs(s)
  PROVE  MediaInv'
<1>0. LaneType /\ RestType /\ video \in Seq(Frame) /\ gaps \subseteq Sender
  BY DEF OutboxInv, LaneType
<1>1. ASSUME NEW a, NEW sent, NEW f \in Frame, MakeRoom(a, Append(video, f), sent), Kick,
             UNCHANGED conn, UNCHANGED got,
             \A s \in Sender :
               \/ /\ f.from # s
                  /\ made'[s].number = made[s].number /\ made'[s].config = made[s].config
               \/ /\ f.from = s /\ f.kind # "config"
                  /\ f.number = made[s].number /\ f.config = made[s].config
                  /\ made'[s].number = Succ(made[s].number) /\ made'[s].config = made[s].config
               \/ /\ f.from = s /\ f.kind = "config"
                  /\ made'[s].number = made[s].number /\ made'[s].config = f.config
      PROVE  MediaInv'
  <2>1. item' = item /\ seen' = seen /\ (drain' = "sending" <=> drain = "sending")
    BY <1>1 DEF Kick, got
  <2>2. \A s \in Sender : Went(s)' = Went(s)
    BY <2>1 DEF Went
  <2>3. ASSUME Alive, NEW s \in Sender
        PROVE  Linked(video', s, s \in gaps', Went(s), made'[s])
    <3>1. Linked(video, s, s \in gaps, Went(s), made[s])
      BY <2>3 DEF MediaInv, LinkInv
    <3>2. Linked(Append(video, f), s, s \in gaps, Went(s), made'[s])
      BY <1>0, <1>1, <3>1, AppendLinks
    <3>3. Append(video, f) \in Seq(Frame)
      BY <1>0, AppendProperties
    <3> QED
      BY <1>0, <1>1, <3>2, <3>3, RoomLinks
  <2>4. Alive' = Alive
    BY <1>1 DEF Alive, conn
  <2>5. Decodable'
    BY <2>1 DEF MediaInv, Decodable
  <2> QED
    BY <2>2, <2>3, <2>4, <2>5 DEF MediaInv, LinkInv
<1>2. CASE SendAudio
  <2>1. /\ MakeRoom(Append(audio, TRUE), video, asked) /\ made' = made
        /\ item' = item /\ seen' = seen /\ (drain' = "sending" <=> drain = "sending")
        /\ Alive' = Alive
    BY <1>2 DEF SendAudio, Kick, got, conn, Alive
  <2>2. \A s \in Sender : Went(s)' = Went(s)
    BY <2>1 DEF Went
  <2>3. ASSUME Alive, NEW s \in Sender
        PROVE  Linked(video', s, s \in gaps', Went(s), made[s])
    <3>1. Linked(video, s, s \in gaps, Went(s), made[s])
      BY <2>3 DEF MediaInv, LinkInv
    <3> QED
      BY <1>0, <2>1, <3>1, RoomLinks
  <2>4. Decodable'
    BY <2>1 DEF MediaInv, Decodable
  <2> QED
    BY <2>1, <2>2, <2>3, <2>4 DEF MediaInv, LinkInv
<1>3. ASSUME NEW r \in Sender, NEW kind, SendVideo(r, kind)
      PROVE  MediaInv'
  <2> DEFINE f == [kind |-> kind, from |-> r, number |-> made[r].number,
                   config |-> made[r].config, fresh |-> TRUE]
             sent == IF kind = "key" THEN asked \ {r} ELSE asked
  <2>1. /\ MakeRoom(audio, Append(video, f), sent) /\ Kick /\ UNCHANGED conn /\ UNCHANGED got
        /\ made' = [made EXCEPT ![r].number = (@ + 1) % Numbers, ![r].first = FALSE]
        /\ kind \in {"key", "delta"}
    BY <1>3 DEF SendVideo
  <2>2. made[r] \in [number : 0 .. Numbers - 1, config : {0, 1}, first : BOOLEAN]
    BY <1>0 DEF RestType
  <2>3. f \in Frame
    BY <2>1, <2>2 DEF Frame
  <2>4. ASSUME NEW s \in Sender
        PROVE  \/ /\ f.from # s
                  /\ made'[s].number = made[s].number /\ made'[s].config = made[s].config
               \/ /\ f.from = s /\ f.kind # "config"
                  /\ f.number = made[s].number /\ f.config = made[s].config
                  /\ made'[s].number = Succ(made[s].number) /\ made'[s].config = made[s].config
    BY <1>0, <2>1, <2>2 DEF Succ, RestType
  <2> HIDE DEF f, sent
  <2>5. MakeRoom(audio, Append(video, f), sent) /\ Kick /\ UNCHANGED conn /\ UNCHANGED got
    BY <2>1
  <2> QED
    BY ONLY <1>1, <2>3, <2>4, <2>5
<1>4. ASSUME NEW r \in Sender, SendConfig(r)
      PROVE  MediaInv'
  <2> DEFINE f == [kind |-> "config", from |-> r, number |-> 0,
                   config |-> 1 - made[r].config, fresh |-> TRUE]
  <2>1. /\ MakeRoom(audio, Append(video, f), asked) /\ Kick /\ UNCHANGED conn /\ UNCHANGED got
        /\ made' = [made EXCEPT ![r].config = 1 - made[r].config, ![r].first = TRUE]
    BY <1>4 DEF SendConfig
  <2>2. made[r] \in [number : 0 .. Numbers - 1, config : {0, 1}, first : BOOLEAN]
    BY <1>0 DEF RestType
  <2>3. f \in Frame
    BY <2>2, OutboxAssumption DEF Frame
  <2>4. ASSUME NEW s \in Sender
        PROVE  \/ f.from # s /\ made'[s] = made[s]
               \/ /\ f.from = s /\ f.kind = "config"
                  /\ made'[s].number = made[s].number /\ made'[s].config = f.config
    BY <1>0, <2>1, <2>2 DEF RestType
  <2> HIDE DEF f
  <2> QED
    BY <1>1, <2>1, <2>3, <2>4
<1>5. ASSUME NEW r \in Sender, CoolDown(r)
      PROVE  MediaInv'
  <2>1. UNCHANGED <<video, gaps, drain, item, made, seen>> /\ Alive' = Alive
    BY <1>5 DEF CoolDown, lanes, task, conn, got, Alive
  <2> QED
    BY <2>1, MediaStays
<1> QED
  BY <1>2, <1>3, <1>4, <1>5 DEF SenderActs

\* A frame that is late is still where it was.
LEMMA AgeLinks ==
  ASSUME OutboxInv, MediaInv, AgeAudio \/ AgeVideo
  PROVE  MediaInv'
<1>1. CASE AgeAudio
  <2>1. UNCHANGED <<video, gaps, drain, item, made, seen>> /\ Alive' = Alive
    BY <1>1 DEF AgeAudio, task, conn, got, Alive
  <2> QED
    BY <2>1, MediaStays
<1>2. CASE AgeVideo
  <2>1. PICK k \in DOMAIN video : video' = [video EXCEPT ![k].fresh = FALSE]
    BY <1>2 DEF AgeVideo
  <2>2. UNCHANGED <<gaps, drain, item, made, seen>> /\ Alive' = Alive
    BY <1>2 DEF AgeVideo, task, conn, got, Alive
  <2>3. video \in Seq(Frame) /\ DOMAIN video = 1 .. Len(video) /\ Len(video) \in Nat
    BY LenProperties DEF OutboxInv, LaneType
  <2>4. Len(video') = Len(video)
    BY <2>1, <2>3, ExceptSeq
  <2>5. ASSUME NEW l \in 1 .. Len(video)
        PROVE  /\ video'[l].kind = video[l].kind /\ video'[l].from = video[l].from
               /\ video'[l].number = video[l].number /\ video'[l].config = video[l].config
    <3>1. video[l] \in Frame
      BY <2>3, ElementOfSeq
    <3> QED
      BY <2>1, <2>3, <3>1 DEF Frame
  <2>6. ASSUME NEW s \in Sender, NEW last, NEW next, NEW gap, Linked(video, s, gap, last, next)
        PROVE  Linked(video', s, gap, last, next)
    <3>1. \A m \in Nat : /\ ConfigAt(video', s, m) <=> ConfigAt(video, s, m)
                         /\ VideoAt(video', s, m) <=> VideoAt(video, s, m)
      BY <2>4, <2>5 DEF ConfigAt, VideoAt
    <3>2. \A m \in 0 .. Len(video) + 1 :
            /\ Place(video', last, next, m).number = Place(video, last, next, m).number
            /\ Place(video', last, next, m).config = Place(video, last, next, m).config
      BY <2>3, <2>4, <2>5 DEF Place
    <3>3. ASSUME NEW i \in 1 .. Len(video) + 1, VideoAt(video', s, i), NEW j \in 0 .. i - 1
          PROVE  LinkedAt(video', s, gap, last, next, i, j)
      <4>1. VideoAt(video, s, i) /\ LinkedAt(video, s, gap, last, next, i, j)
        BY <2>3, <2>6, <3>1, <3>3 DEF Linked
      <4>2. j \in 0 .. Len(video) + 1 /\ j \in Nat /\ \A l \in j + 1 .. i - 1 : l \in Nat
        BY <2>3
      <4> QED
        BY <2>3, <3>1, <3>2, <4>1, <4>2 DEF LinkedAt
    <3> QED
      BY <2>4, <3>3 DEF Linked
  <2>7. \A s \in Sender : Went(s)' = Went(s)
    BY <2>2 DEF Went
  <2>8. ASSUME Alive, NEW s \in Sender
        PROVE  Linked(video', s, s \in gaps, Went(s), made[s])
    <3>1. Linked(video, s, s \in gaps, Went(s), made[s])
      BY <2>8 DEF MediaInv, LinkInv
    <3> QED
      BY <2>6, <3>1
  <2>9. Decodable'
    BY <2>2 DEF MediaInv, Decodable
  <2> QED
    BY <2>2, <2>7, <2>8, <2>9 DEF MediaInv, LinkInv
<1> QED
  BY <1>1, <1>2

\* A drain that goes on has sent what it took; one whose socket is gone takes nothing.
LEMMA DrainLinks ==
  ASSUME OutboxInv, MediaInv, NEW lost \in BOOLEAN,
         DrainWakes \/ SendEnds(lost) \/ SendFails
  PROVE  MediaInv'
<1>0. RestType /\ SendingInv /\ ClosedInv
  BY DEF OutboxInv
<1>1. CASE (DrainWakes \/ SendEnds(lost)) /\ connected = TRUE
  <2>1. TakeNext(TRUE) /\ made' = made /\ connected' = connected /\ closed' = closed
    BY <1>1 DEF DrainWakes, SendEnds, conn
  <2>2. Alive
    BY <1>0, <1>1 DEF Alive, ClosedInv, DrainWakes, SendEnds
  <2>3. ASSUME NEW s \in Sender PROVE seen'[s] = Went(s)
    <3>1. CASE DrainWakes
      BY <3>1 DEF DrainWakes, Went, got
    <3>2. CASE SendEnds(lost) /\ item \in Frame
      <4>1. item.kind \in {"config", "key", "delta"} /\ item.from \in Sender
        BY <3>2 DEF Frame
      <4>2. drain = "sending"
            /\ seen' = [seen EXCEPT ![item.from] =
                         IF item.kind = "config" THEN [@ EXCEPT !.config = item.config]
                         ELSE [@ EXCEPT !.number = item.number]]
        BY <1>1, <3>2, <4>1 DEF SendEnds
      <4> QED
        BY <1>0, <3>2, <4>1, <4>2 DEF Went, RestType
    <3>3. CASE SendEnds(lost) /\ item \notin Frame
      <4>1. item \in {AudioItem} \cup {JsonItem(m) : m \in Message}
        BY <1>0, <3>3 DEF SendEnds, SendingInv, Item
      <4>2. item.kind \in {"audio", "json"}
        BY <4>1 DEF AudioItem, JsonItem
      <4>3. seen' = seen
        BY <3>3, <4>2 DEF SendEnds, got
      <4> QED
        BY <3>3, <4>3 DEF Went
    <3> QED
      BY <1>1, <3>1, <3>2, <3>3
  <2>4. \A s \in Sender : Linked(video, s, s \in gaps, Went(s), made[s])
    BY <2>2 DEF MediaInv, LinkInv
  <2>5. /\ \A s \in Sender : Linked(video', s, s \in gaps', Went(s)', made'[s])
        /\ Decodable'
    BY <2>1, <2>3, <2>4, TakeLinks
  <2> QED
    BY <2>5 DEF MediaInv, LinkInv
<1>2. CASE SendFails \/ connected = FALSE
  <2>1. TakeNext(FALSE) /\ connected' = FALSE
    BY <1>2 DEF DrainWakes, SendEnds, SendFails, conn
  <2>2. drain' = "parked"
    BY <2>1 DEF TakeNext, RunDry
  <2> QED
    BY <2>1, <2>2 DEF MediaInv, LinkInv, Decodable, Alive
<1> QED
  BY <1>0, <1>1, <1>2 DEF RestType

LEMMA ConnectionLinks ==
  ASSUME OutboxInv, MediaInv,
         (\E m \in Message : SendJson(m)) \/ SendStalls \/ HandlerActs \/ Closes
  PROVE  MediaInv'
<1>1. ASSUME StopDrain, closed' = TRUE, seen' = seen PROVE MediaInv'
  BY <1>1, MediaStays DEF StopDrain, Alive
<1>2. ASSUME UNCHANGED <<video, gaps, drain, item, made, seen>>, ~Alive' \/ Alive
      PROVE  MediaInv'
  BY <1>2, MediaStays
<1>3. ASSUME NEW m \in Message, SendJson(m)
      PROVE  MediaInv'
  <2>1. CASE Len(json) >= MaxJson
    BY <1>1, <1>3, <2>1 DEF SendJson, Overflow, Shut, got
  <2>2. CASE ~(Len(json) >= MaxJson)
    <3>1. /\ UNCHANGED <<video, gaps, item, made, seen>> /\ Alive' = Alive
          /\ drain' = "sending" <=> drain = "sending"
      BY <1>3, <2>2 DEF SendJson, Kick, got, Alive
    <3> QED
      BY <3>1, MediaStays
  <2> QED
    BY <2>1, <2>2
<1>4. CASE SendStalls
  BY <1>1, <1>4 DEF SendStalls, Shut, got
<1>5. CASE HandlerReads \/ FrameArrives \/ Closes
  BY <1>2, <1>5 DEF HandlerReads, FrameArrives, Closes, lanes, task, got, Alive
<1>6. CASE HandlerSeesGivenUp \/ HandlerLeaves \/ (WatcherFires /\ handler = "reading")
  BY <1>1, <1>6 DEF HandlerSeesGivenUp, HandlerLeaves, WatcherFires, Leave, got
<1>7. CASE WatcherFires /\ handler # "reading"
  BY <1>2, <1>7 DEF WatcherFires, lanes, task, got, Alive
<1> QED
  BY <1>3, <1>4, <1>5, <1>6, <1>7 DEF HandlerActs

LEMMA MediaStep == OutboxInv /\ MediaInv /\ [Next]_vars => MediaInv'
<1>1. OutboxInv /\ MediaInv /\ Next => MediaInv'
  BY SendLinks, AgeLinks, DrainLinks, ConnectionLinks DEF Next, DrainActs
<1>2. MediaInv /\ UNCHANGED vars => MediaInv'
  <2> SUFFICES ASSUME MediaInv, UNCHANGED vars PROVE MediaInv'
    OBVIOUS
  <2>1. UNCHANGED <<video, gaps, drain, item, made, seen>> /\ Alive' = Alive
    BY DEF vars, lanes, task, conn, got, Alive
  <2> QED
    BY <2>1, MediaStays
<1> QED
  BY <1>1, <1>2

\* Whatever is evicted, late or dropped in a gap, a frame that is being sent can be decoded: its
\* config went out, and so did the frame a delta depends on (_next_media, _drop_video,
\* _evict_oldest).
THEOREM DecodableHolds == Spec => []Decodable
<1>1. MediaInv => Decodable
  BY DEF MediaInv
<1> QED
  BY <1>1, MediaStart, MediaStep, OutboxInvHolds, PTL DEF Spec
=============================================================================
