-------------------------- MODULE RetroarchProofs --------------------------
(* Theorems about Retroarch, for any discs, requests and bounds.              *)
EXTENDS Retroarch, Integers, SequenceTheorems, TLAPS

-----------------------------------------------------------------------------
(* The inductive invariant.                                                   *)

Core == [up : BOOLEAN, playing : BOOLEAN, menu : BOOLEAN, slot : Slot,
         disc : 0 .. Discs - 1, open : BOOLEAN, asked : BOOLEAN, drifted : BOOLEAN]
Known == [homed : BOOLEAN, disc : 0 .. Discs - 1]
Write == [to : Slot, by : {"save", "probe", "player", "old"}, age : 0 .. 1]
Files == [Slot -> 0 .. MaxWrites]
Op == [kind : Requests \cup {"none"},
       pc : {"idle", "lock", "settle", "home", "send", "wait", "toggle", "load", "replace",
             "read", "playing", "copy", "eject", "step", "close", "flush", "quit"},
       stage : {"first", "rehomed", "past", "check", "probe", "again", "sure"},
       since : 0 .. MaxWrites, before : Files, menu : BOOLEAN,
       hands : BOOLEAN, to : 0 .. Discs - 1, steps : 0 .. Discs]
Load == [pc : {"idle", "mark", "echo", "wait", "yes", "no"}, file : 0 .. MaxWrites,
         moved : BOOLEAN, tainted : BOOLEAN, game : BOOLEAN, tries : 0 .. TaintRetries + 1]
Resume == [pc : {"off", "boot", "lock", "find", "settle", "load", "gap", "done", "failed"},
           ready : 0 .. MaxWrites, loaded : 0 .. MaxWrites, attempts : Nat]

TypeInv ==
  /\ core \in Core /\ files \in Files /\ aside \in Files
  /\ made \in Seq(Origin) /\ writing \in Seq(Write)
  /\ tray \in {"free", "op", "resume"}
  /\ known \in Known
  /\ op \in Op /\ load \in Load /\ resume \in Resume
  /\ handout \in BOOLEAN

\* There is room for the writes the request at work may still ask for.
WritesLeft ==
  /\ RoomFor(0)
  /\ op.kind \in {"save", "exit", "swap"} /\ op.pc \in {"lock", "settle", "playing", "copy"} =>
       RoomFor(3)
  /\ op.stage \in {"first", "probe"} /\ op.pc \in {"home", "send"} => RoomFor(3)
  /\ op.stage \in {"first", "probe"} /\ op.pc \in {"wait", "toggle"} => RoomFor(2)
  /\ op.stage \in {"past", "again"} /\ op.pc \in {"home", "send"} => RoomFor(2)
  /\ op.stage \in {"past", "again"} /\ op.pc = "wait" => RoomFor(1)
  /\ op.stage \in {"rehomed", "check", "sure"} /\ op.pc \in {"home", "send"} => RoomFor(1)
  /\ op.kind = "push" /\ op.pc \in {"lock", "replace"} => RoomFor(1)

\* No file is newer than the last write.
NewestInv ==
  /\ \A x \in Slot : files[x] <= Len(made) /\ aside[x] <= Len(made)
  /\ op.since <= Len(made) /\ load.file <= Len(made)

\* Who holds the tray, and which phases belong to which request.
OpTray == op.pc \in {"settle", "home", "send", "wait", "toggle", "load", "replace", "playing",
                     "copy", "eject", "step", "close"}
ResumeTray == resume.pc \in {"find", "settle", "load"}
TrayInv ==
  /\ OpTray <=> tray = "op"
  /\ ResumeTray <=> tray = "resume"
  /\ load.pc # "idle" <=> op.pc = "load" \/ resume.pc = "load"
PhaseInv ==
  /\ op.pc = "idle" <=> op = NoOp
  /\ op.pc \in {"settle", "home"} => op.kind \in {"save", "exit"}
  /\ op.pc \in {"send", "wait", "toggle"} => op.kind \in {"save", "exit", "swap"}
  /\ op.pc \in {"playing", "copy", "eject", "step", "close"} => op.kind = "swap"
  /\ op.pc = "load" => op.kind = "load"
  /\ op.pc = "replace" => op.kind = "push"
  /\ op.pc = "read" => op.kind = "get"
  /\ op.pc = "flush" => op = [NoOp EXCEPT !.kind = "exit", !.pc = "flush"]
  /\ op.stage \in {"rehomed", "past", "check"} =>
       /\ op.kind \in {"save", "exit"}
       /\ op.pc \in {"home", "send", "wait"}
  /\ op.stage \in {"probe", "again", "sure"} =>
       /\ op.kind = "swap"
       /\ op.pc \in {"send", "wait", "toggle", "eject", "step", "close"}
  /\ op.stage = "first" /\ op.pc \in {"send", "wait", "toggle"} => op.kind \in {"save", "exit"}
  /\ op.stage = "first" => op.pc \notin {"eject", "step", "close"}
  /\ op.stage \in {"check", "sure"} => op.pc \in {"send", "wait", "eject", "step", "close"}
  /\ op.pc = "toggle" => op.stage \in {"first", "probe"}
  /\ op.pc = "home" => op.stage \in {"first", "rehomed", "past"}
  /\ op.stage = "again" => op.pc \in {"send", "wait"}

\* What the core has accepted of the request at work.
Own(i) == writing[i].by \notin {"player", "old"}
OwnInv ==
  /\ ~core.up => writing = <<>> /\ ~core.menu
  /\ \A i \in DOMAIN writing :
       /\ Own(i) => op.pc \in {"home", "send", "wait", "toggle"}
       /\ writing[i].by = "old" => writing[i].age = 1

\* A newer file confirms a save.
SaveInv ==
  op.kind \in {"save", "exit"} =>
    /\ op.pc = "wait" /\ files.home # op.before.home => files.home > op.since
    /\ op.stage = "check" => files.home > op.since

\* A read the core did not make is the GET route's, which is in its grace.
ReadInv ==
  /\ op.pc = "read" => handout
  /\ load.pc \in {"echo", "wait"} /\ load.moved /\ ~load.game /\ ~load.tainted => handout

\* What the resume may load.
NotARequests(f) == f \in 1 .. Len(made) /\ made[f] \in {"late", "player"}
ResumeInv ==
  /\ resume.pc = "load" => files.home = resume.ready \/ NotARequests(files.home)
  /\ resume.pc = "load" /\ load.pc \in {"echo", "wait", "yes"} =>
       load.file = resume.ready \/ NotARequests(load.file)
  /\ resume.pc = "done" => resume.loaded = resume.ready \/ NotARequests(resume.loaded)

\* The menu, when nobody else touched it and it was closed when the request came.
Alone == op.pc \notin {"idle", "flush"} /\ ~op.menu /\ ~op.hands
OneOwn == \A i, j \in DOMAIN writing : Own(i) /\ Own(j) => i = j
NoOwn == \A i \in DOMAIN writing : ~Own(i)
MenuInv ==
  Alone =>
    /\ op.stage \in {"first", "rehomed", "probe"} => ~core.menu
    /\ op.stage \in {"past", "again", "check", "sure"} => core.menu \/ ~core.up
    /\ op.stage \in {"first", "probe"} /\ op.pc \in {"home", "send"} => NoOwn
    /\ op.stage \in {"first", "probe", "past", "again"} => OneOwn
    /\ op.stage \in {"past", "again"} /\ op.pc = "wait" /\ files # op.before => NoOwn
    /\ op.stage \in {"check", "sure"} => NoOwn /\ op.pc \in {"send", "wait"}
    /\ op.stage \in {"check", "sure"} /\ op.pc = "wait" => files = op.before

CoreInv == TypeInv /\ WritesLeft /\ NewestInv /\ TrayInv /\ PhaseInv
CoreFacts == CoreInv /\ OwnInv
RetroInv == CoreFacts /\ SaveInv /\ ResumeInv /\ MenuInv /\ SavedForReal /\ MenuAsFound
HonestInv == RetroInv /\ ReadInv /\ LoadedForReal

\* The probes of a swap are its own, and gone once it has looked.
Looking == op.kind = "swap" /\ op.pc \in {"send", "wait", "toggle"}
ProbeInv ==
  /\ \A i \in DOMAIN writing : writing[i].by = "probe" => Looking
  /\ \A x \in Slot : aside[x] # 0 => made[aside[x]] # "probe"
  /\ ProbesUndone

\* A swap nobody got into: what its probes tell of the menu, and where its steps take the tray.
Steady == core.up /\ ~core.drifted
LookInv ==
  Steady /\ op.kind = "swap" =>
    /\ op.stage \in {"probe", "sure"} /\ op.pc = "send" => NoOwn
    /\ op.stage \in {"probe", "sure"} /\ op.pc = "wait" =>
         (files # op.before \/ ~NoOwn => ~core.menu)
    /\ op.stage = "probe" /\ op.pc = "toggle" /\ ~NoOwn => ~core.menu
    /\ op.stage \in {"probe", "again"} => OneOwn
    /\ op.stage = "again" /\ op.pc = "send" /\ ~NoOwn => core.menu
    /\ op.stage = "again" /\ op.pc = "wait" /\ files # op.before => NoOwn
DiscInv ==
  Steady =>
    /\ op.pc \notin {"step", "close"} => core.disc = known.disc /\ ~core.open
    /\ op.pc \in {"eject", "step", "close"} => ~core.menu
    /\ op.pc \in {"step", "close"} => core.open
    /\ op.pc = "step" => core.disc + op.steps \in {op.to, op.to + Discs}
    /\ op.pc = "close" => core.disc = op.to
SwapInv == ProbeInv /\ LookInv /\ DiscInv


-----------------------------------------------------------------------------
(* The lists of writes.                                                       *)

LEMMA Lists ==
  ASSUME TypeInv
  PROVE  /\ Len(made) \in Nat /\ Len(writing) \in Nat
         /\ DOMAIN writing = 1 .. Len(writing)
         /\ \A i \in DOMAIN writing : writing[i] \in Write
BY DEF TypeInv

\* Ageing and abandoning keep what is written, in its order.
LEMMA Ages ==
  ASSUME TypeInv
  PROVE  /\ Aged \in Seq(Write) /\ Len(Aged) = Len(writing) /\ DOMAIN Aged = DOMAIN writing
         /\ \A i \in DOMAIN writing : Aged[i].by = writing[i].by /\ Aged[i].age = 1
<1>1. \A i \in 1 .. Len(writing) : [writing[i] EXCEPT !.age = 1] \in Write
  BY Lists DEF Write
<1>2. Aged = [i \in 1 .. Len(writing) |-> [writing[i] EXCEPT !.age = 1]]
  BY Lists DEF Aged
<1>3. Aged \in Seq(Write) /\ Len(Aged) = Len(writing)
  BY <1>1, <1>2, Lists, IsASeq, LenProperties
<1>4. \A i \in DOMAIN writing : Aged[i].by = writing[i].by /\ Aged[i].age = 1
  BY <1>2, Lists DEF Write
<1> QED BY <1>3, <1>4 DEF Aged

LEMMA Abandons ==
  ASSUME TypeInv
  PROVE  /\ Abandoned \in Seq(Write) /\ Len(Abandoned) = Len(writing)
         /\ DOMAIN Abandoned = DOMAIN writing
         /\ \A i \in DOMAIN writing : Abandoned[i].by = "old" /\ Abandoned[i].age = 1
<1>1. \A i \in 1 .. Len(writing) : [writing[i] EXCEPT !.age = 1, !.by = "old"] \in Write
  <2> SUFFICES ASSUME NEW i \in 1 .. Len(writing)
               PROVE  [writing[i] EXCEPT !.age = 1, !.by = "old"] \in Write
    OBVIOUS
  <2>1. writing[i] \in Write
    BY Lists
  <2>2. [writing[i] EXCEPT !.age = 1] \in Write
    BY <2>1 DEF Write
  <2> QED BY <2>2 DEF Write
<1>2. Abandoned = [i \in 1 .. Len(writing) |-> [writing[i] EXCEPT !.age = 1, !.by = "old"]]
  BY Lists DEF Abandoned
<1>3. Abandoned \in Seq(Write) /\ Len(Abandoned) = Len(writing)
  <2>1. Abandoned \in [1 .. Len(writing) -> Write]
    BY <1>1, <1>2, Zenon
  <2> QED BY <2>1, Lists
<1>4. \A i \in DOMAIN writing : Abandoned[i].by = "old" /\ Abandoned[i].age = 1
  BY <1>2, Lists DEF Write
<1> QED BY <1>3, <1>4 DEF Abandoned

\* An accepted save goes to the end of the list.
LEMMA Accepts ==
  ASSUME TypeInv, NEW by \in {"save", "probe", "player"}, TakesSave(by)
  PROVE  /\ writing' \in Seq(Write)
         /\ \/ core.menu /\ writing' = writing
            \/ /\ ~core.menu /\ Len(writing') = Len(writing) + 1
               /\ DOMAIN writing' = 1 .. Len(writing) + 1
               /\ \A i \in 1 .. Len(writing) : writing'[i] = writing[i]
               /\ writing'[Len(writing) + 1].by = by /\ writing'[Len(writing) + 1].age = 0
<1> DEFINE w == [to |-> core.slot, by |-> by, age |-> 0]
<1>1. w \in Write
  BY DEF TypeInv, Core, Write
<1>2. w.by = by /\ w.age = 0
  OBVIOUS
<1> HIDE DEF w
<1>3. /\ writing \in Seq(Write)
      /\ writing' = IF core.menu THEN writing ELSE Append(writing, w)
  BY DEF TypeInv, TakesSave, w
<1>4. CASE core.menu
  BY <1>3, <1>4
<1>5. CASE ~core.menu
  <2>1. writing' = Append(writing, w)
    BY <1>3, <1>5
  <2>2. /\ Append(writing, w) \in Seq(Write) /\ Len(Append(writing, w)) = Len(writing) + 1
        /\ \A i \in 1 .. Len(writing) : Append(writing, w)[i] = writing[i]
        /\ Append(writing, w)[Len(writing) + 1] = w
    BY <1>1, <1>3
  <2>3. DOMAIN Append(writing, w) = 1 .. Len(writing) + 1
    BY <2>2, LenProperties
  <2> QED BY <1>2, <1>5, <2>1, <2>2, <2>3
<1> QED BY <1>4, <1>5

\* A save that lands leaves the list at its head.
LEMMA Lists2 ==
  ASSUME TypeInv, writing # <<>>
  PROVE  /\ Head(writing) = writing[1] /\ writing[1] \in Write /\ 1 \in DOMAIN writing
         /\ Tail(writing) \in Seq(Write) /\ Len(Tail(writing)) = Len(writing) - 1
         /\ DOMAIN Tail(writing) = 1 .. Len(writing) - 1
         /\ \A i \in 1 .. Len(writing) - 1 : Tail(writing)[i] = writing[i + 1]
<1>1. writing \in Seq(Write) /\ Len(writing) > 0
  BY Lists DEF TypeInv
<1> QED BY <1>1, Lists

LEMMA Adds ==
  ASSUME TypeInv, NEW by \in Origin
  PROVE  /\ Append(made, by) \in Seq(Origin) /\ Len(Append(made, by)) = Len(made) + 1
         /\ \A i \in 1 .. Len(made) : Append(made, by)[i] = made[i]
         /\ Append(made, by)[Len(made) + 1] = by
<1>1. made \in Seq(Origin)
  BY DEF TypeInv
<1> QED BY <1>1

-----------------------------------------------------------------------------
(* The types, the bound, the tray and the phases.                             *)

LEMMA InitCore == Init => CoreFacts
<1> SUFFICES ASSUME Init PROVE CoreFacts
  OBVIOUS
<1> USE RetroarchAssumption
<1>1. 0 \in 0 .. Discs - 1 /\ 0 \in 0 .. Discs
  OBVIOUS
<1>2. NoFiles \in Files
  BY DEF NoFiles, Files, Slot
<1>3. PICK archived \in {0, 1} :
        /\ files = [home |-> archived, other |-> 0]
        /\ made = [n \in 1 .. archived |-> "push"]
  BY DEF Init
<1>4. files \in Files
  BY <1>3 DEF Files, Slot
<1>5. made \in Seq(Origin) /\ Len(made) = archived
  BY <1>3 DEF Origin
<1>6. TypeInv
  <2>1. op \in Op
    BY <1>1, <1>2 DEF Init, Op, NoOp
  <2>2. load \in Load
    BY DEF Init, Load, NoLoad
  <2>3. core \in Core
    BY <1>1 DEF Init, Core, Slot
  <2>4. resume \in Resume
    BY DEF Init, Resume
  <2>5. aside \in Files /\ handout \in BOOLEAN /\ tray \in {"free", "op", "resume"}
    BY <1>2 DEF Init
  <2>6. known \in Known
    BY <1>1 DEF Init, Known
  <2>7. writing \in Seq(Write)
    BY DEF Init
  <2> QED BY <1>4, <1>5, <2>1, <2>2, <2>3, <2>4, <2>5, <2>6, <2>7 DEF TypeInv
<1>7. WritesLeft
  BY <1>3, <1>5 DEF Init, WritesLeft, NoOp, RoomFor
<1>8. NewestInv
  BY <1>3, <1>5 DEF Init, NewestInv, NoOp, NoLoad, NoFiles, Slot
<1>9. TrayInv /\ PhaseInv /\ OwnInv
  BY DEF Init, TrayInv, OpTray, ResumeTray, PhaseInv, OwnInv, NoOp, NoLoad
<1> QED BY <1>6, <1>7, <1>8, <1>9 DEF CoreFacts, CoreInv

\* What a step outside the request keeps when it leaves the state files alone.
LEMMA Aloof ==
  ASSUME CoreFacts, TypeInv', TrayInv', UNCHANGED <<files, made, writing, op, aside>>,
         core'.up = core.up, core'.menu = core.menu, load'.file <= Len(made)
  PROVE  CoreFacts'
<1>1. WritesLeft'
  BY DEF CoreFacts, CoreInv, WritesLeft, RoomFor
<1>2. NewestInv'
  BY DEF CoreFacts, CoreInv, NewestInv
<1>3. PhaseInv' /\ OwnInv'
  BY DEF CoreFacts, CoreInv, PhaseInv, OwnInv, Own
<1> QED BY <1>1, <1>2, <1>3 DEF CoreFacts, CoreInv

LEMMA CoreMoves ==
  ASSUME CoreFacts, StartsPlaying \/ Reads \/ GraceEnds
  PROVE  CoreFacts'
<1>1. UNCHANGED <<files, made, writing, op, aside, tray, known, resume>>
  BY DEF StartsPlaying, Reads, GraceEnds
<1>2. core' \in Core /\ core'.up = core.up /\ core'.menu = core.menu
  BY DEF StartsPlaying, Reads, GraceEnds, CoreFacts, CoreInv, TypeInv, Core
<1>3. load' \in Load /\ load'.pc = load.pc /\ load'.file = load.file
  BY DEF StartsPlaying, Reads, GraceEnds, CoreFacts, CoreInv, TypeInv, Load
<1>4. handout' \in BOOLEAN
  BY DEF StartsPlaying, Reads, GraceEnds, CoreFacts, CoreInv, TypeInv
<1>5. TypeInv'
  BY <1>1, <1>2, <1>3, <1>4 DEF CoreFacts, CoreInv, TypeInv
<1>6. TrayInv' /\ load'.file <= Len(made)
  BY <1>1, <1>3 DEF CoreFacts, CoreInv, TrayInv, OpTray, ResumeTray, NewestInv
<1> QED BY <1>1, <1>2, <1>5, <1>6, Aloof

LEMMA LoadMoves ==
  ASSUME CoreFacts, LoadMark \/ LoadEcho \/ Poll \/ LoadTimesOut
  PROVE  CoreFacts'
<1>1. UNCHANGED <<files, made, writing, op, aside, tray, known, resume, handout>>
  BY DEF LoadMark, LoadEcho, Poll, LoadTimesOut
<1>2. core' \in Core /\ core'.up = core.up /\ core'.menu = core.menu
  BY DEF LoadMark, LoadEcho, Poll, LoadTimesOut, CoreFacts, CoreInv, TypeInv, Core
<1>3. /\ load' \in Load /\ load'.file \in {load.file, files.home}
      /\ load.pc # "idle" /\ load'.pc # "idle"
  <2>1. files.home \in 0 .. MaxWrites /\ load \in Load
    BY DEF CoreFacts, CoreInv, TypeInv, Files, Slot
  <2>2. CASE LoadMark
    BY <2>1, <2>2 DEF LoadMark, Load
  <2>3. CASE LoadEcho
    BY <2>1, <2>3 DEF LoadEcho, Load
  <2>4. CASE Poll
    BY <2>1, <2>4 DEF Poll, Load
  <2>5. CASE LoadTimesOut
    <3>1. load.tries < TaintRetries => load.tries + 1 \in 0 .. TaintRetries + 1
      BY <2>1, RetroarchAssumption DEF Load
    <3> QED BY <2>1, <2>5, <3>1 DEF LoadTimesOut, Load
  <2> QED BY <2>2, <2>3, <2>4, <2>5
<1>4. TypeInv'
  BY <1>1, <1>2, <1>3 DEF CoreFacts, CoreInv, TypeInv
<1>5. TrayInv' /\ load'.file <= Len(made)
  BY <1>1, <1>3 DEF CoreFacts, CoreInv, TrayInv, OpTray, ResumeTray, NewestInv, Slot
<1> QED BY <1>1, <1>2, <1>4, <1>5, Aloof

LEMMA ResumeMoves ==
  ASSUME CoreFacts, Resuming
  PROVE  CoreFacts'
<1> USE DEF others
<1>1. UNCHANGED <<core, files, made, writing, op, aside, known, handout>>
  BY DEF Resuming, ResumeBoots, ResumeTakesTray, ResumeWaitsInVain, ResumeFinds, ResumeSettles,
         ResumeAttempted, ResumeRetries
<1>2. /\ files.home \in 0 .. MaxWrites /\ load \in Load /\ resume \in Resume
      /\ load.file <= Len(made) /\ NoLoad.file <= Len(made)
      /\ tray \in {"free", "op", "resume"}
      /\ NoLoad \in Load /\ [NoLoad EXCEPT !.pc = "mark"] \in Load
  <2>1. /\ files.home \in 0 .. MaxWrites /\ load \in Load /\ resume \in Resume
        /\ tray \in {"free", "op", "resume"}
    BY DEF CoreFacts, CoreInv, TypeInv, Files, Slot
  <2>2. NoLoad \in Load /\ [NoLoad EXCEPT !.pc = "mark"] \in Load
    <3>1. NoLoad \in Load
      BY RetroarchAssumption DEF NoLoad, Load
    <3> QED BY <3>1 DEF Load
  <2>3. load.file <= Len(made)
    BY DEF CoreFacts, CoreInv, NewestInv
  <2>4. NoLoad.file <= Len(made)
    BY Lists DEF CoreFacts, CoreInv, NoLoad
  <2> QED BY <2>1, <2>2, <2>3, <2>4
<1>3. /\ resume' \in Resume
      /\ load' \in {load, NoLoad, [NoLoad EXCEPT !.pc = "mark"]}
      /\ tray' \in {"free", "op", "resume"}
      /\ TrayInv'
  <2>1. CASE ResumeBoots
    BY <1>2, <2>1 DEF ResumeBoots, Resume, CoreFacts, CoreInv, TrayInv, OpTray, ResumeTray
  <2>2. CASE ResumeTakesTray
    BY <1>2, <2>2 DEF ResumeTakesTray, Resume, CoreFacts, CoreInv, TrayInv, OpTray, ResumeTray,
                      NoLoad
  <2>3. CASE ResumeWaitsInVain
    BY <1>2, <2>3 DEF ResumeWaitsInVain, Resume, CoreFacts, CoreInv, TrayInv, OpTray, ResumeTray
  <2>4. CASE ResumeFinds
    BY <1>2, <2>4 DEF ResumeFinds, Resume, CoreFacts, CoreInv, TrayInv, OpTray, ResumeTray
  <2>5. CASE ResumeSettles
    BY <1>2, <2>5 DEF ResumeSettles, Resume, CoreFacts, CoreInv, TrayInv, OpTray, ResumeTray,
                      NoLoad
  <2>6. CASE ResumeAttempted
    BY <1>2, <2>6 DEF ResumeAttempted, Resume, Load, CoreFacts, CoreInv, TrayInv, OpTray,
                      ResumeTray, NoLoad
  <2>7. CASE ResumeRetries
    <3>1. resume.attempts + 1 \in Nat
      BY <1>2 DEF Resume
    <3> QED BY <1>2, <2>7, <3>1
            DEF ResumeRetries, Resume, CoreFacts, CoreInv, TrayInv, OpTray, ResumeTray
  <2> QED BY <2>1, <2>2, <2>3, <2>4, <2>5, <2>6, <2>7 DEF Resuming
<1>4. TypeInv'
  BY <1>1, <1>2, <1>3 DEF CoreFacts, CoreInv, TypeInv
<1>5. load'.file <= Len(made)
  BY <1>2, <1>3 DEF NoLoad
<1> QED BY <1>1, <1>3, <1>4, <1>5, Aloof

\* The request in progress, when it ends.
Flush == [NoOp EXCEPT !.kind = "exit", !.pc = "flush"]

LEMMA Ended ==
  ASSUME TypeInv
  PROVE  /\ NoOp \in Op
         /\ op.kind = "exit" => Flush \in Op
         /\ Flush.kind = "exit" /\ Flush.pc = "flush" /\ Flush.stage = "first"
         /\ Flush.since = 0 /\ ~Flush.menu /\ ~Flush.hands
<1>1. NoFiles \in Files
  BY RetroarchAssumption DEF NoFiles, Files, Slot
<1>2. NoOp \in Op
  BY <1>1, RetroarchAssumption DEF NoOp, Op
<1>3. op.kind = "exit" => "exit" \in Requests \cup {"none"}
  BY DEF TypeInv, Op
<1>4. op.kind = "exit" => Flush \in Op
  BY <1>2, <1>3 DEF Flush, Op
<1>5. /\ Flush.kind = "exit" /\ Flush.pc = "flush" /\ Flush.stage = "first"
      /\ Flush.since = 0 /\ ~Flush.menu /\ ~Flush.hands
  BY DEF Flush, NoOp
<1> QED BY <1>2, <1>4, <1>5

\* A step that ends the request, and has the core write nothing of it any more.
LEMMA Ends ==
  ASSUME CoreFacts, TypeInv', TrayInv', NewestInv', op' \in {NoOp, Flush},
         Len(made') + Len(writing') <= Len(made) + Len(writing) \/ RoomFor(0)',
         core'.up => core.up, ~core'.up => writing' = <<>> /\ ~core'.menu,
         \A i \in DOMAIN writing' : Own(i)' => FALSE,
         \A i \in DOMAIN writing' : writing'[i].by = "old" => writing'[i].age = 1
  PROVE  CoreFacts'
<1>1. /\ op'.kind \in {"none", "exit"} /\ op'.pc \in {"idle", "flush"} /\ op'.stage = "first"
      /\ op' = NoOp <=> op'.pc = "idle"
  BY Ended DEF CoreFacts, CoreInv, NoOp
<1>2. RoomFor(0)'
  <2>1. Len(made) + Len(writing) + 0 <= MaxWrites
    BY DEF CoreFacts, CoreInv, WritesLeft, RoomFor
  <2>2. /\ Len(made) \in Nat /\ Len(writing) \in Nat
        /\ Len(made') \in Nat /\ Len(writing') \in Nat
    BY DEF CoreFacts, CoreInv, TypeInv
  <2> QED BY <2>1, <2>2, RetroarchAssumption DEF RoomFor
<1>3. WritesLeft'
  BY <1>1, <1>2 DEF WritesLeft
<1>4. PhaseInv'
  BY <1>1 DEF PhaseInv, Flush
<1>5. OwnInv'
  BY DEF OwnInv
<1> QED BY <1>3, <1>4, <1>5 DEF CoreFacts, CoreInv

\* Outside of saving the core writes nothing of the request.
LEMMA NothingOwn ==
  ASSUME CoreFacts, op.pc \notin {"home", "send", "wait", "toggle"}
  PROVE  /\ \A i \in DOMAIN writing : ~Own(i)
         /\ \A i \in DOMAIN writing : writing[i].by = "old" => writing[i].age = 1
BY DEF CoreFacts, OwnInv

\* An answer ends the request and frees its tray.
LEMMA Answers ==
  ASSUME CoreFacts, NEW ok, NEW menu, NEW stray, Answered(ok, menu, stray)
  PROVE  /\ op' \in {NoOp, Flush} /\ op' \in Op /\ op'.since = 0
         /\ tray' = IF tray = "op" THEN "free" ELSE tray
         /\ op'.pc \in {"idle", "flush"}
<1>1. op' = (IF op.kind = "exit" THEN Flush ELSE NoOp)
  BY DEF Answered, Flush
<1> QED BY <1>1, Ended DEF CoreFacts, CoreInv, Answered, NoOp

LEMMA PlainAnswer ==
  ASSUME CoreFacts, NEW ok, Answer(ok), op.pc # "load", op.pc # "idle"
  PROVE  CoreFacts'
<1>1. /\ UNCHANGED <<core, files, made, known, load, resume, aside, handout>>
      /\ writing' = Abandoned /\ Answered(ok, core.menu, FALSE)
  BY DEF Answer
<1>2. /\ op' \in {NoOp, Flush} /\ op' \in Op /\ op'.since = 0
      /\ tray' = IF tray = "op" THEN "free" ELSE tray
      /\ op'.pc \in {"idle", "flush"}
  BY <1>1, Answers
<1>3. /\ writing' \in Seq(Write) /\ Len(writing') = Len(writing)
      /\ DOMAIN writing' = DOMAIN writing
      /\ \A i \in DOMAIN writing : writing'[i].by = "old" /\ writing'[i].age = 1
  BY <1>1, Abandons DEF CoreFacts, CoreInv
<1>4. TypeInv'
  BY <1>1, <1>2, <1>3 DEF CoreFacts, CoreInv, TypeInv
<1>5. TrayInv'
  BY <1>1, <1>2 DEF CoreFacts, CoreInv, TrayInv, OpTray, ResumeTray
<1>6. NewestInv'
  BY <1>1, <1>2, Lists DEF CoreFacts, CoreInv, NewestInv
<1>7. ~core'.up => writing' = <<>> /\ ~core'.menu
  <2>1. ~core.up => writing = <<>> /\ ~core.menu
    BY DEF CoreFacts, OwnInv
  <2>2. writing = <<>> => Len(writing') = 0
    BY <1>3
  <2> QED BY <1>1, <1>3, <2>1, <2>2
<1>8. Len(made') + Len(writing') <= Len(made) + Len(writing)
  BY <1>1, <1>3, Lists DEF CoreFacts, CoreInv
<1>9. \A i \in DOMAIN writing' : ~Own(i)' /\ (writing'[i].by = "old" => writing'[i].age = 1)
  BY <1>3 DEF Own
<1> QED BY <1>1, <1>2, <1>4, <1>5, <1>6, <1>7, <1>8, <1>9, Ends

\* A step of the request at work that keeps the tray, and is no load.
LEMMA Goes ==
  ASSUME CoreFacts, UNCHANGED <<made, tray, load, resume, handout>>,
         files' \in {files, aside}, aside' \in {aside, files, NoFiles},
         core' \in Core, known' \in Known, writing' \in Seq(Write), op' \in Op,
         op'.since = op.since, OpTray, OpTray', op.pc # "load", op'.pc # "load"
  PROVE  TypeInv' /\ NewestInv' /\ TrayInv'
<1>1. NoFiles \in Files /\ \A x \in Slot : NoFiles[x] = 0
  BY RetroarchAssumption DEF NoFiles, Files, Slot
<1>2. TypeInv'
  BY <1>1 DEF CoreFacts, CoreInv, TypeInv
<1>3. Len(made) \in Nat
  BY Lists DEF CoreFacts, CoreInv
<1>4. NewestInv'
  BY <1>1, <1>3 DEF CoreFacts, CoreInv, NewestInv
<1>5. TrayInv'
  BY DEF CoreFacts, CoreInv, TrayInv, ResumeTray
<1> QED BY <1>2, <1>4, <1>5

\* The end of a request, whoever answers it.
LEMMA Over ==
  ASSUME CoreFacts, UNCHANGED <<made, resume, handout>>,
         op' \in {NoOp, Flush}, op' \in Op, op'.since = 0,
         tray' = IF tray = "op" THEN "free" ELSE tray,
         files' \in {files, aside}, aside' \in {aside, NoFiles},
         core' \in Core, core'.up => core.up, core'.menu => core'.up, known' \in Known,
         load' \in Load, load'.file <= Len(made),
         load'.pc # "idle" <=> load.pc # "idle" /\ op.pc # "load",
         ~core'.up => writing' = <<>>,
         \/ writing' \in {Abandoned, <<>>}
         \/ /\ writing' = writing
            /\ op.pc \notin {"home", "send", "wait", "toggle"}
  PROVE  CoreFacts'
<1>1. NoFiles \in Files /\ \A x \in Slot : NoFiles[x] = 0
  BY RetroarchAssumption DEF NoFiles, Files, Slot
<1>2. /\ TypeInv /\ op'.pc \in {"idle", "flush"}
      /\ Len(made) \in Nat /\ Len(writing) \in Nat /\ Len(<<>>) = 0
  BY Ended, Lists DEF CoreFacts, CoreInv, NoOp
<1>3. /\ Abandoned \in Seq(Write) /\ Len(Abandoned) = Len(writing)
      /\ DOMAIN Abandoned = DOMAIN writing
      /\ \A i \in DOMAIN writing : Abandoned[i].by = "old" /\ Abandoned[i].age = 1
  BY <1>2, Abandons
<1>4. writing' \in Seq(Write) /\ Len(writing') <= Len(writing)
  <2>1. writing \in Seq(Write) /\ <<>> \in Seq(Write)
    BY <1>2 DEF TypeInv
  <2>2. CASE writing' = <<>>
    BY <1>2, <2>1, <2>2
  <2>3. CASE writing' # <<>>
    BY <1>2, <1>3, <2>1, <2>3
  <2> QED BY <2>2, <2>3
<1>5. TypeInv'
  BY <1>1, <1>2, <1>4 DEF TypeInv
<1>6. NewestInv'
  BY <1>1, <1>2 DEF CoreFacts, CoreInv, NewestInv
<1>7. TrayInv'
  BY <1>2 DEF CoreFacts, CoreInv, TrayInv, OpTray, ResumeTray
<1>8. Len(made') + Len(writing') <= Len(made) + Len(writing)
  BY <1>2, <1>4, <1>5 DEF TypeInv
<1>9. \A i \in DOMAIN writing' : ~Own(i)' /\ (writing'[i].by = "old" => writing'[i].age = 1)
  <2>1. CASE writing' = Abandoned
    BY <1>3, <2>1 DEF Own
  <2>2. CASE writing' = <<>>
    BY <2>2
  <2>3. CASE writing' = writing /\ op.pc \notin {"home", "send", "wait", "toggle"}
    BY <2>3, NothingOwn DEF Own
  <2> QED BY <2>1, <2>2, <2>3
<1> QED BY <1>5, <1>6, <1>7, <1>8, <1>9, Ends

LEMMA TrayTimesOutCore == ASSUME CoreFacts, TrayTimesOut PROVE CoreFacts'
BY PlainAnswer DEF TrayTimesOut

LEMMA SeesDeathCore == ASSUME CoreFacts, SeesDeath PROVE CoreFacts'
<1>1. /\ UNCHANGED <<core, made, writing, known, load, resume, handout>>
      /\ Answered(op.stage = "check", core.menu, FALSE) /\ ~core.up /\ op.pc # "load"
  BY DEF SeesDeath
<1>2. /\ op' \in {NoOp, Flush} /\ op' \in Op /\ op'.since = 0
      /\ tray' = IF tray = "op" THEN "free" ELSE tray
  BY <1>1, Answers
<1>3. files' \in {files, aside} /\ aside' \in {aside, NoFiles}
  BY DEF SeesDeath, Undo
<1>4. ~core.menu /\ writing = <<>>
  BY <1>1 DEF CoreFacts, OwnInv
<1>5. core \in Core /\ known \in Known /\ load \in Load /\ load.file <= Len(made)
  BY DEF CoreFacts, CoreInv, TypeInv, NewestInv
<1> QED BY <1>1, <1>2, <1>3, <1>4, <1>5, Over

LEMMA ToggleMenuCore == ASSUME CoreFacts, ToggleMenu PROVE CoreFacts'
<1>1. /\ UNCHANGED <<files, made, writing, tray, known, load, resume, aside, handout>>
      /\ op' = NoOp /\ op.pc = "lock"
  BY DEF ToggleMenu
<1>2. core' \in Core /\ core'.up = core.up /\ (core'.menu => core.menu \/ core.up)
  BY DEF ToggleMenu, CoreFacts, CoreInv, TypeInv, Core
<1>3. tray # "op"
  BY <1>1 DEF CoreFacts, CoreInv, TrayInv, OpTray
<1>4. ~core.up => writing = <<>> /\ ~core.menu
  BY DEF CoreFacts, OwnInv
<1>5. known \in Known /\ load \in Load /\ load.file <= Len(made) /\ TypeInv
  BY DEF CoreFacts, CoreInv, TypeInv, NewestInv
<1>6. NoOp \in Op /\ NoOp.since = 0
  BY <1>5, Ended DEF NoOp
<1> QED BY <1>1, <1>2, <1>3, <1>4, <1>5, <1>6, Over

LEMMA CloseTrayCore == ASSUME CoreFacts, CloseTray PROVE CoreFacts'
<1>1. /\ UNCHANGED <<files, made, writing, load, resume, aside, handout>>
      /\ op' = NoOp /\ op.pc = "close" /\ core.up /\ tray' = "free"
  BY DEF CloseTray
<1>2. core' \in Core /\ core'.up = core.up
  BY DEF CloseTray, CoreFacts, CoreInv, TypeInv, Core
<1>3. tray = "op"
  BY <1>1 DEF CoreFacts, CoreInv, TrayInv, OpTray
<1>4. load \in Load /\ load.file <= Len(made) /\ TypeInv
  BY DEF CoreFacts, CoreInv, TypeInv, NewestInv
<1>5. known' \in Known
  BY DEF CloseTray, CoreFacts, CoreInv, TypeInv, Known, Op
<1>6. NoOp \in Op /\ NoOp.since = 0
  BY <1>4, Ended DEF NoOp
<1> QED BY <1>1, <1>2, <1>3, <1>4, <1>5, <1>6, Over

LEMMA LoadAnswersCore == ASSUME CoreFacts, LoadAnswers PROVE CoreFacts'
<1>1. /\ UNCHANGED <<core, files, made, writing, known, resume, aside, handout>>
      /\ Answered(load.pc = "yes", core.menu, FALSE) /\ op.pc = "load" /\ load' = NoLoad
  BY DEF LoadAnswers
<1>2. /\ op' \in {NoOp, Flush} /\ op' \in Op /\ op'.since = 0
      /\ tray' = IF tray = "op" THEN "free" ELSE tray
  BY <1>1, Answers
<1>3. ~core.up => writing = <<>> /\ ~core.menu
  BY DEF CoreFacts, OwnInv
<1>4. core \in Core /\ known \in Known /\ TypeInv
  BY DEF CoreFacts, CoreInv, TypeInv
<1>5. NoLoad \in Load /\ NoLoad.pc = "idle" /\ NoLoad.file <= Len(made)
  BY <1>4, Lists, RetroarchAssumption DEF NoLoad, Load
<1> QED BY <1>1, <1>2, <1>3, <1>4, <1>5, Over

LEMMA GetReadsCore == ASSUME CoreFacts, GetReads PROVE CoreFacts'
<1>1. /\ UNCHANGED <<core, files, made, writing, tray, known, resume, aside, handout>>
      /\ op' = NoOp /\ op.pc = "read"
  BY DEF GetReads
<1>2. tray # "op"
  BY <1>1 DEF CoreFacts, CoreInv, TrayInv, OpTray
<1>3. ~core.up => writing = <<>> /\ ~core.menu
  BY DEF CoreFacts, OwnInv
<1>4. core \in Core /\ known \in Known /\ TypeInv /\ load.file <= Len(made)
  BY DEF CoreFacts, CoreInv, TypeInv, NewestInv
<1>5. load' \in Load /\ load'.pc = load.pc /\ load'.file = load.file
  BY DEF GetReads, CoreFacts, CoreInv, TypeInv, Load
<1>6. NoOp \in Op /\ NoOp.since = 0
  BY <1>4, Ended DEF NoOp
<1> QED BY <1>1, <1>2, <1>3, <1>4, <1>5, <1>6, Over

LEMMA ExitWithoutStateCore == ASSUME CoreFacts, ExitWithoutState PROVE CoreFacts'
<1>1. /\ UNCHANGED <<core, files, made, writing, tray, known, load, resume, aside, handout>>
      /\ op' = Flush /\ op.pc = "lock" /\ op.kind = "exit"
  BY DEF ExitWithoutState, Flush
<1>2. tray # "op"
  BY <1>1 DEF CoreFacts, CoreInv, TrayInv, OpTray
<1>3. ~core.up => writing = <<>> /\ ~core.menu
  BY DEF CoreFacts, OwnInv
<1>4. core \in Core /\ known \in Known /\ TypeInv /\ load.file <= Len(made) /\ load \in Load
  BY DEF CoreFacts, CoreInv, TypeInv, NewestInv
<1>5. Flush \in Op /\ Flush.since = 0
  BY <1>1, <1>4, Ended
<1> QED BY <1>1, <1>2, <1>3, <1>4, <1>5, Over

LEMMA QuitCore == ASSUME CoreFacts, Quit PROVE CoreFacts'
<1>1. /\ UNCHANGED <<files, made, tray, known, load, resume, aside, handout>>
      /\ op' = NoOp /\ op.pc = "flush" /\ writing' = <<>>
  BY DEF Quit
<1>2. tray # "op"
  BY <1>1 DEF CoreFacts, CoreInv, TrayInv, OpTray
<1>3. core' \in Core /\ ~core'.up /\ ~core'.menu
  BY DEF Quit, CoreFacts, CoreInv, TypeInv, Core
<1>4. known \in Known /\ TypeInv /\ load.file <= Len(made) /\ load \in Load
  BY DEF CoreFacts, CoreInv, TypeInv, NewestInv
<1>5. NoOp \in Op /\ NoOp.since = 0
  BY <1>4, Ended DEF NoOp
<1> QED BY <1>1, <1>2, <1>3, <1>4, <1>5, Over

LEMMA PushCore == ASSUME CoreFacts, Push PROVE CoreFacts'
<1>1. /\ UNCHANGED <<core, writing, known, load, resume, aside, handout>>
      /\ op' = NoOp /\ op.pc = "replace" /\ tray' = "free"
      /\ made' = Append(made, "push") /\ files' = [files EXCEPT !.home = Len(made) + 1]
  BY DEF Push
<1>2. /\ TypeInv /\ tray = "op" /\ RoomFor(1) /\ RoomFor(0)
      /\ Len(made) \in Nat /\ Len(writing) \in Nat
  BY <1>1, Lists DEF CoreFacts, CoreInv, TrayInv, OpTray, WritesLeft, PhaseInv
<1>3. /\ made' \in Seq(Origin) /\ Len(made') = Len(made) + 1 /\ Len(made) + 1 \in 0 .. MaxWrites
  BY <1>1, <1>2, Adds, RetroarchAssumption DEF Origin, RoomFor
<1>4. /\ NoOp \in Op /\ NoOp.since = 0 /\ NoOp.pc = "idle"
  BY <1>2, Ended DEF NoOp
<1>5. files' \in Files /\ \A x \in Slot : files'[x] <= Len(made) + 1
  BY <1>1, <1>2, <1>3 DEF TypeInv, Files, Slot, CoreFacts, CoreInv, NewestInv
<1>6. TypeInv'
  BY <1>1, <1>2, <1>3, <1>4, <1>5 DEF TypeInv
<1>7. TrayInv'
  BY <1>1, <1>2, <1>4 DEF CoreFacts, CoreInv, TrayInv, OpTray, ResumeTray
<1>8. NewestInv'
  <2>1. \A x \in Slot : aside[x] \in Nat
    BY <1>2 DEF TypeInv, Files
  <2>2. load.file \in Nat
    BY <1>2 DEF TypeInv, Load
  <2> QED BY <1>1, <1>2, <1>3, <1>4, <1>5, <2>1, <2>2 DEF CoreFacts, CoreInv, NewestInv
<1>9. RoomFor(0)'
  BY <1>1, <1>2, <1>3, RetroarchAssumption DEF RoomFor
<1>10. \A i \in DOMAIN writing' : ~Own(i)' /\ (writing'[i].by = "old" => writing'[i].age = 1)
  BY <1>1, NothingOwn DEF Own
<1>11. ~core'.up => writing' = <<>> /\ ~core'.menu
  BY <1>1 DEF CoreFacts, OwnInv
<1> QED BY <1>1, <1>6, <1>7, <1>8, <1>9, <1>10, <1>11, Ends

LEMMA TakeTrayCore == ASSUME CoreFacts, TakeTray PROVE CoreFacts'
<1>1. /\ UNCHANGED <<core, files, made, writing, known, resume, aside, handout>>
      /\ op.pc = "lock" /\ tray = "free" /\ tray' = "op"
      /\ op.kind \in {"save", "load", "push", "exit"}
      /\ load' = IF op.kind = "load" THEN [NoLoad EXCEPT !.pc = "mark"] ELSE load
  BY DEF TakeTray
<1>2. op \in Op /\ load \in Load /\ load.file <= Len(made) /\ Len(made) \in Nat
  BY Lists DEF CoreFacts, CoreInv, TypeInv, NewestInv
<1>3. /\ op' \in Op /\ op'.kind = op.kind /\ op'.stage = op.stage /\ op'.since = op.since
      /\ op'.pc \in {"load", "replace", "send", "settle"}
      /\ op'.pc = "load" <=> op.kind = "load"
      /\ op'.pc = "replace" <=> op.kind = "push"
  <2>1. op' = [op EXCEPT !.pc = CASE op.kind = "load" -> "load" [] op.kind = "push" -> "replace"
                               [] OTHER -> IF known.homed THEN "send" ELSE "settle"]
    BY DEF TakeTray
  <2>2. PICK pc \in {"load", "replace", "send", "settle"} :
          /\ op' = [op EXCEPT !.pc = pc]
          /\ pc = "load" <=> op.kind = "load"
          /\ pc = "replace" <=> op.kind = "push"
    BY <1>1, <2>1
  <2> QED BY <1>2, <2>2 DEF Op
<1>4. op.stage = "first"
  BY <1>1, <1>2 DEF CoreFacts, CoreInv, PhaseInv, Op
<1>5. /\ load' \in Load /\ load'.file <= Len(made)
      /\ op.kind = "load" => load'.pc = "mark"
      /\ op.kind # "load" => load' = load
  <2>1. [NoLoad EXCEPT !.pc = "mark"] \in Load
    <3>1. NoLoad \in Load
      BY RetroarchAssumption DEF NoLoad, Load
    <3> QED BY <3>1 DEF Load
  <2>2. [NoLoad EXCEPT !.pc = "mark"].file = 0 /\ [NoLoad EXCEPT !.pc = "mark"].pc = "mark"
    BY DEF NoLoad
  <2> QED BY <1>1, <1>2, <2>1, <2>2
<1>6. TypeInv'
  BY <1>1, <1>3, <1>5 DEF CoreFacts, CoreInv, TypeInv
<1>7. WritesLeft'
  BY <1>1, <1>3, <1>4 DEF CoreFacts, CoreInv, WritesLeft, RoomFor
<1>8. NewestInv'
  BY <1>1, <1>3, <1>5 DEF CoreFacts, CoreInv, NewestInv
<1>9. TrayInv'
  BY <1>1, <1>3, <1>5 DEF CoreFacts, CoreInv, TrayInv, OpTray, ResumeTray
<1>10. PhaseInv'
  BY <1>1, <1>3, <1>4 DEF PhaseInv, NoOp
<1>11. OwnInv'
  BY <1>1, <1>3, NothingOwn DEF CoreFacts, OwnInv, Own
<1> QED BY <1>6, <1>7, <1>8, <1>9, <1>10, <1>11 DEF CoreFacts, CoreInv

LEMMA SettleCore == ASSUME CoreFacts, Settle PROVE CoreFacts'
<1>1. /\ UNCHANGED <<core, files, made, writing, tray, known, load, resume, aside, handout>>
      /\ op \in Op /\ op' = [op EXCEPT !.pc = "home"] /\ op.pc = "settle"
  BY DEF Settle, CoreFacts, CoreInv, TypeInv
<1>2. /\ op' \in Op /\ op'.kind = op.kind /\ op'.stage = op.stage /\ op'.since = op.since
      /\ op'.pc = "home"
  BY <1>1 DEF Op
<1>3. TypeInv' /\ NewestInv' /\ TrayInv'
  BY <1>1, <1>2, Goes DEF CoreFacts, CoreInv, TypeInv, OpTray
<1>4. PhaseInv' /\ WritesLeft'
  BY <1>1, <1>2 DEF CoreFacts, CoreInv, PhaseInv, NoOp, WritesLeft, RoomFor, Op
<1>5. OwnInv'
  BY <1>1, <1>2, NothingOwn DEF CoreFacts, OwnInv, Own
<1> QED BY <1>3, <1>4, <1>5 DEF CoreFacts, CoreInv

LEMMA HomeSlotCore == ASSUME CoreFacts, HomeSlot PROVE CoreFacts'
<1>1. /\ UNCHANGED <<files, made, writing, tray, load, resume, aside, handout>>
      /\ op \in Op /\ op' = [op EXCEPT !.pc = "send"] /\ op.pc = "home"
  BY DEF HomeSlot, CoreFacts, CoreInv, TypeInv
<1>2. /\ op' \in Op /\ op'.kind = op.kind /\ op'.stage = op.stage /\ op'.since = op.since
      /\ op'.pc = "send"
  BY <1>1 DEF Op
<1>3. /\ core' \in Core /\ core'.up = core.up /\ core'.menu = core.menu /\ known' \in Known
      /\ writing \in Seq(Write)
  BY DEF HomeSlot, CoreFacts, CoreInv, TypeInv, Core, Slot, Known
<1>4. TypeInv' /\ NewestInv' /\ TrayInv'
  BY <1>1, <1>2, <1>3, Goes DEF OpTray
<1>5. PhaseInv' /\ WritesLeft'
  BY <1>1, <1>2 DEF CoreFacts, CoreInv, PhaseInv, NoOp, WritesLeft, RoomFor, Op
<1>6. OwnInv'
  BY <1>1, <1>2, <1>3 DEF CoreFacts, OwnInv, Own
<1> QED BY <1>4, <1>5, <1>6 DEF CoreFacts, CoreInv

LEMMA ToggleCore == ASSUME CoreFacts, Toggle PROVE CoreFacts'
<1>1. /\ UNCHANGED <<files, made, writing, tray, known, load, resume, aside, handout>>
      /\ op \in Op /\ op.pc = "toggle" /\ core.up
      /\ core \in Core /\ known \in Known /\ writing \in Seq(Write)
  BY DEF Toggle, CoreFacts, CoreInv, TypeInv
<1>2. /\ op' \in Op /\ op'.kind = op.kind /\ op'.since = op.since
      /\ op.kind = "swap" => op'.pc = "send" /\ op'.stage = "again"
      /\ op.kind # "swap" => op'.pc = "home" /\ op'.stage = "past"
  BY <1>1 DEF Toggle, Op
<1>3. core' \in Core /\ core'.up = core.up
  BY <1>1 DEF Toggle, Core
<1>4. TypeInv' /\ NewestInv' /\ TrayInv'
  BY <1>1, <1>2, <1>3, Goes DEF OpTray
<1>5. op.stage \in {"first", "probe"} /\ op.kind \in {"save", "exit", "swap"}
  BY <1>1 DEF CoreFacts, CoreInv, PhaseInv
<1>6. PhaseInv' /\ WritesLeft'
  BY <1>1, <1>2, <1>5 DEF CoreFacts, CoreInv, PhaseInv, NoOp, WritesLeft, RoomFor
<1>7. OwnInv'
  BY <1>1, <1>2, <1>3 DEF CoreFacts, OwnInv, Own
<1> QED BY <1>4, <1>6, <1>7 DEF CoreFacts, CoreInv

\* SAVE_STATE takes one of the writes there is room for.
LEMMA SendSaveCore == ASSUME CoreFacts, SendSave PROVE CoreFacts'
<1> DEFINE by == IF op.kind = "swap" THEN "probe" ELSE "save"
<1>1. /\ UNCHANGED <<core, files, made, tray, known, load, resume, aside, handout>>
      /\ op \in Op /\ files \in Files /\ op.pc = "send" /\ core.up
      /\ op' = [op EXCEPT !.pc = "wait", !.before = files] /\ TakesSave(by) /\ TypeInv
      /\ core \in Core /\ known \in Known
  BY DEF SendSave, CoreFacts, CoreInv, TypeInv
<1>2. by \in {"save", "probe", "player"}
  OBVIOUS
<1> HIDE DEF by
<1>3. /\ op' \in Op /\ op'.kind = op.kind /\ op'.stage = op.stage /\ op'.since = op.since
      /\ op'.pc = "wait"
  BY <1>1 DEF Op
<1>4. /\ writing' \in Seq(Write)
      /\ \/ core.menu /\ writing' = writing
         \/ /\ ~core.menu /\ Len(writing') = Len(writing) + 1
            /\ DOMAIN writing' = 1 .. Len(writing) + 1
            /\ \A i \in 1 .. Len(writing) : writing'[i] = writing[i]
            /\ writing'[Len(writing) + 1].by = by /\ writing'[Len(writing) + 1].age = 0
  BY <1>1, <1>2, Accepts
<1>5. TypeInv' /\ NewestInv' /\ TrayInv'
  BY <1>1, <1>3, <1>4, Goes DEF OpTray
<1>6. PhaseInv'
  BY <1>1, <1>3 DEF CoreFacts, CoreInv, PhaseInv, NoOp
<1>7. /\ Len(writing') \in Nat /\ Len(writing) \in Nat /\ Len(made) \in Nat
      /\ Len(writing') <= Len(writing) + 1
  BY <1>1, <1>4, Lists
<1>8. WritesLeft'
  <2>1. /\ op.kind \in {"save", "exit", "swap"}
        /\ op.stage \in {"first", "probe"} => RoomFor(3)
        /\ op.stage \in {"past", "again"} => RoomFor(2)
        /\ op.stage \in {"rehomed", "check", "sure"} => RoomFor(1)
    BY <1>1 DEF CoreFacts, CoreInv, PhaseInv, WritesLeft
  <2>2. /\ RoomFor(3) => RoomFor(2)' /\ RoomFor(0)'
        /\ RoomFor(2) => RoomFor(1)' /\ RoomFor(0)'
        /\ RoomFor(1) => RoomFor(0)'
    BY <1>1, <1>7, RetroarchAssumption DEF RoomFor
  <2>3. op.stage \in {"first", "rehomed", "past", "check", "probe", "again", "sure"}
    BY <1>1 DEF Op
  <2> QED BY <1>3, <2>1, <2>2, <2>3 DEF WritesLeft
<1>9. OwnInv'
  <2>1. DOMAIN writing = 1 .. Len(writing)
    BY <1>1, Lists
  <2>2. \A i \in DOMAIN writing' : writing'[i].by = "old" => writing'[i].age = 1
    BY <1>2, <1>4, <1>7, <2>1 DEF CoreFacts, OwnInv
  <2> QED BY <1>1, <1>3, <2>2 DEF OwnInv
<1> QED BY <1>5, <1>6, <1>8, <1>9 DEF CoreFacts, CoreInv

LEMMA SavedCore == ASSUME CoreFacts, Saved PROVE CoreFacts'
<1>1. op.pc = "wait" /\ op.kind \in {"save", "exit"} /\ op \in Op
  BY DEF Saved, Confirmed, CoreFacts, CoreInv, TypeInv
<1>2. CASE op.stage # "past"
  BY <1>1, <1>2, PlainAnswer DEF Saved
<1>3. CASE op.stage = "past"
  <2>1. /\ UNCHANGED <<core, files, made, writing, tray, known, load, resume, aside, handout>>
        /\ op' = [op EXCEPT !.stage = "check", !.pc = "send"]
    BY <1>3 DEF Saved
  <2>2. /\ op' \in Op /\ op'.kind = op.kind /\ op'.since = op.since
        /\ op'.pc = "send" /\ op'.stage = "check"
    BY <1>1, <2>1 DEF Op
  <2>3. TypeInv' /\ NewestInv' /\ TrayInv'
    BY <1>1, <2>1, <2>2, Goes DEF OpTray, CoreFacts, CoreInv, TypeInv
  <2>4. PhaseInv'
    BY <1>1, <2>1, <2>2 DEF CoreFacts, CoreInv, PhaseInv, NoOp
  <2>5. WritesLeft'
    BY <1>1, <1>3, <2>1, <2>2 DEF CoreFacts, CoreInv, WritesLeft, RoomFor
  <2>6. OwnInv'
    BY <1>1, <2>1, <2>2 DEF CoreFacts, OwnInv, Own
  <2> QED BY <2>3, <2>4, <2>5, <2>6 DEF CoreFacts, CoreInv
<1> QED BY <1>2, <1>3

LEMMA SaveTimesOutCore == ASSUME CoreFacts, SaveTimesOut PROVE CoreFacts'
<1>1. /\ op.pc = "wait" /\ op.kind \in {"save", "exit"} /\ core.up /\ op \in Op /\ core \in Core
      /\ writing' = IF op.stage = "first" THEN Aged ELSE Abandoned
      /\ UNCHANGED <<files, made, known, load, resume, aside, handout>>
      /\ known \in Known /\ load \in Load /\ load.file <= Len(made) /\ TypeInv
  BY DEF SaveTimesOut, CoreFacts, CoreInv, TypeInv, NewestInv
<1>2. op.stage \in {"first", "rehomed", "past", "check"}
  BY <1>1 DEF CoreFacts, CoreInv, PhaseInv, Op
<1>3. CASE op.stage = "first"
  <2>1. /\ UNCHANGED <<core, tray>> /\ writing' = Aged
        /\ op' \in {[op EXCEPT !.pc = "toggle"], [op EXCEPT !.pc = "home", !.stage = "rehomed"]}
    BY <1>3 DEF SaveTimesOut
  <2>2. /\ op' \in Op /\ op'.kind = op.kind /\ op'.since = op.since
        /\ \/ op'.pc = "toggle" /\ op'.stage = "first"
           \/ op'.pc = "home" /\ op'.stage = "rehomed"
    BY <1>1, <1>3, <2>1 DEF Op
  <2>3. /\ Aged \in Seq(Write) /\ Len(Aged) = Len(writing) /\ DOMAIN Aged = DOMAIN writing
        /\ \A i \in DOMAIN writing : Aged[i].by = writing[i].by /\ Aged[i].age = 1
    BY <1>1, Ages
  <2>4. TypeInv' /\ NewestInv' /\ TrayInv'
    BY <1>1, <2>1, <2>2, <2>3, Goes DEF OpTray
  <2>5. PhaseInv'
    BY <1>1, <2>2 DEF PhaseInv, NoOp
  <2>6. WritesLeft'
    BY <1>1, <1>3, <2>1, <2>2, <2>3, Lists, RetroarchAssumption
       DEF CoreFacts, CoreInv, WritesLeft, RoomFor
  <2>7. OwnInv'
    BY <1>1, <2>1, <2>2, <2>3 DEF OwnInv
  <2> QED BY <2>4, <2>5, <2>6, <2>7 DEF CoreFacts, CoreInv
<1>4. CASE op.stage # "first"
  <2>1. /\ \E ok, menu, stray \in BOOLEAN : Answered(ok, menu, stray)
        /\ writing' = Abandoned /\ core' \in {core, [core EXCEPT !.menu = ~@]}
    BY <1>1, <1>2, <1>4 DEF SaveTimesOut, ToggleBack, Core
  <2>2. /\ op' \in {NoOp, Flush} /\ op' \in Op /\ op'.since = 0
        /\ tray' = IF tray = "op" THEN "free" ELSE tray
    BY <2>1, Answers
  <2>3. core' \in Core /\ core'.up
    BY <1>1, <2>1 DEF Core
  <2> QED BY <1>1, <2>1, <2>2, <2>3, Over
<1> QED BY <1>3, <1>4

LEMMA SwapTakesTrayCore == ASSUME CoreFacts, SwapTakesTray PROVE CoreFacts'
<1>1. op.pc = "lock" /\ op.kind = "swap" /\ op \in Op
  BY DEF SwapTakesTray, CoreFacts, CoreInv, TypeInv
<1>2. CASE tray # "free"
  BY <1>1, <1>2, PlainAnswer DEF SwapTakesTray
<1>3. CASE tray = "free"
  <2>1. /\ UNCHANGED <<core, files, made, writing, known, load, resume, aside, handout>>
        /\ tray' = "op" /\ op' = [op EXCEPT !.pc = "playing"]
    BY <1>3 DEF SwapTakesTray
  <2>2. /\ op' \in Op /\ op'.kind = "swap" /\ op'.since = op.since
        /\ op'.stage = op.stage /\ op'.pc = "playing"
    BY <1>1, <2>1 DEF Op
  <2>3. TypeInv' /\ NewestInv'
    BY <2>1, <2>2 DEF CoreFacts, CoreInv, TypeInv, NewestInv
  <2>4. TrayInv'
    BY <1>1, <1>3, <2>1, <2>2 DEF CoreFacts, CoreInv, TrayInv, OpTray, ResumeTray
  <2>5. PhaseInv' /\ WritesLeft'
    BY <1>1, <2>1, <2>2 DEF CoreFacts, CoreInv, PhaseInv, NoOp, WritesLeft, RoomFor
  <2>6. OwnInv'
    BY <1>1, <2>1, NothingOwn DEF CoreFacts, OwnInv, Own
  <2> QED BY <2>3, <2>4, <2>5, <2>6 DEF CoreFacts, CoreInv
<1> QED BY <1>2, <1>3

LEMMA SwapPlayingCore == ASSUME CoreFacts, SwapPlaying PROVE CoreFacts'
<1>1. op.pc = "playing" /\ op \in Op
  BY DEF SwapPlaying, CoreFacts, CoreInv, TypeInv
<1>2. CASE Answer(FALSE)
  BY <1>1, <1>2, PlainAnswer
<1>3. CASE ~Answer(FALSE)
  <2>1. /\ UNCHANGED <<core, files, made, writing, tray, known, load, resume, aside, handout>>
        /\ op' = [op EXCEPT !.pc = "copy"]
    BY <1>3 DEF SwapPlaying
  <2>2. /\ op' \in Op /\ op'.kind = op.kind /\ op'.since = op.since
        /\ op'.stage = op.stage /\ op'.pc = "copy"
    BY <1>1, <2>1 DEF Op
  <2>3. TypeInv' /\ NewestInv' /\ TrayInv'
    BY <1>1, <2>1, <2>2, Goes DEF OpTray, CoreFacts, CoreInv, TypeInv
  <2>4. PhaseInv' /\ WritesLeft'
    BY <1>1, <2>1, <2>2 DEF CoreFacts, CoreInv, PhaseInv, NoOp, WritesLeft, RoomFor
  <2>5. OwnInv'
    BY <1>1, <2>1, NothingOwn DEF CoreFacts, OwnInv, Own
  <2> QED BY <2>3, <2>4, <2>5 DEF CoreFacts, CoreInv
<1> QED BY <1>2, <1>3

LEMMA CopyAsideCore == ASSUME CoreFacts, CopyAside PROVE CoreFacts'
<1>1. op.pc = "copy" /\ op \in Op /\ op.kind = "swap"
  BY DEF CopyAside, CoreFacts, CoreInv, TypeInv, PhaseInv
<1>2. CASE Answer(FALSE)
  BY <1>1, <1>2, PlainAnswer
<1>3. CASE ~Answer(FALSE)
  <2>1. /\ UNCHANGED <<core, files, made, writing, tray, known, load, resume, handout>>
        /\ op' = [op EXCEPT !.pc = "send", !.stage = "probe"] /\ aside' = files
    BY <1>3 DEF CopyAside
  <2>2. /\ op' \in Op /\ op'.kind = op.kind /\ op'.since = op.since
        /\ op'.stage = "probe" /\ op'.pc = "send"
    BY <1>1, <2>1 DEF Op
  <2>3. TypeInv' /\ NewestInv' /\ TrayInv'
    BY <1>1, <2>1, <2>2, Goes DEF OpTray, CoreFacts, CoreInv, TypeInv
  <2>4. PhaseInv' /\ WritesLeft'
    BY <1>1, <2>1, <2>2 DEF CoreFacts, CoreInv, PhaseInv, NoOp, WritesLeft, RoomFor
  <2>5. OwnInv'
    BY <1>1, <2>1, NothingOwn DEF CoreFacts, OwnInv, Own
  <2> QED BY <2>3, <2>4, <2>5 DEF CoreFacts, CoreInv
<1> QED BY <1>2, <1>3

LEMMA ProbedCore == ASSUME CoreFacts, Probed PROVE CoreFacts'
<1>1. /\ op.pc = "wait" /\ op \in Op /\ op.kind = "swap" /\ TypeInv
      /\ UNCHANGED <<core, made, tray, known, load, resume, handout>>
      /\ core \in Core /\ known \in Known /\ writing \in Seq(Write)
  BY DEF Probed, CoreFacts, CoreInv, TypeInv
<1>2. op.stage \in {"probe", "again", "sure"}
  BY <1>1 DEF CoreFacts, CoreInv, PhaseInv, Op
<1>3. CASE op.stage = "again"
  <2>1. UNCHANGED <<files, writing, aside>> /\ op' = [op EXCEPT !.stage = "sure", !.pc = "send"]
    BY <1>3 DEF Probed
  <2>2. /\ op' \in Op /\ op'.kind = op.kind /\ op'.since = op.since
        /\ op'.stage = "sure" /\ op'.pc = "send"
    BY <1>1, <2>1 DEF Op
  <2>3. TypeInv' /\ NewestInv' /\ TrayInv'
    BY <1>1, <2>1, <2>2, Goes DEF OpTray
  <2>4. PhaseInv' /\ WritesLeft'
    BY <1>1, <1>3, <2>1, <2>2 DEF CoreFacts, CoreInv, PhaseInv, NoOp, WritesLeft, RoomFor
  <2>5. OwnInv'
    BY <1>1, <2>1, <2>2 DEF CoreFacts, OwnInv, Own
  <2> QED BY <2>3, <2>4, <2>5 DEF CoreFacts, CoreInv
<1>4. CASE op.stage # "again"
  <2>1. op' = [op EXCEPT !.pc = "eject"] /\ writing' = Abandoned /\ files' = aside
        /\ aside' = NoFiles
    BY <1>4 DEF Probed, Undo
  <2>2. /\ op' \in Op /\ op'.kind = op.kind /\ op'.since = op.since
        /\ op'.stage = op.stage /\ op'.pc = "eject"
    BY <1>1, <2>1 DEF Op
  <2>3. /\ Abandoned \in Seq(Write) /\ Len(Abandoned) = Len(writing)
        /\ DOMAIN Abandoned = DOMAIN writing
        /\ \A i \in DOMAIN writing : Abandoned[i].by = "old" /\ Abandoned[i].age = 1
    BY <1>1, Abandons
  <2>4. TypeInv' /\ NewestInv' /\ TrayInv'
    BY <1>1, <2>1, <2>2, <2>3, Goes DEF OpTray
  <2>5. PhaseInv' /\ WritesLeft'
    BY <1>1, <1>2, <1>4, <2>1, <2>2, <2>3
       DEF CoreFacts, CoreInv, PhaseInv, NoOp, WritesLeft, RoomFor
  <2>6. OwnInv'
    <3>1. ~core.up => writing = <<>> /\ ~core.menu
      BY DEF CoreFacts, OwnInv
    <3>2. writing = <<>> => Abandoned = <<>>
      BY <2>3
    <3>3. \A i \in DOMAIN writing' : ~Own(i)' /\ writing'[i].age = 1
      BY <2>1, <2>3 DEF Own
    <3> QED BY <1>1, <2>1, <3>1, <3>2, <3>3 DEF OwnInv
  <2> QED BY <2>4, <2>5, <2>6 DEF CoreFacts, CoreInv
<1> QED BY <1>3, <1>4

LEMMA ProbeTimesOutCore == ASSUME CoreFacts, ProbeTimesOut PROVE CoreFacts'
<1>1. /\ op.pc = "wait" /\ op.kind = "swap" /\ core.up /\ op \in Op /\ core \in Core
      /\ writing' = IF op.stage = "probe" THEN Aged ELSE Abandoned
      /\ UNCHANGED <<made, known, load, resume, handout>>
      /\ known \in Known /\ load \in Load /\ load.file <= Len(made) /\ TypeInv
  BY DEF ProbeTimesOut, CoreFacts, CoreInv, TypeInv, NewestInv
<1>2. CASE op.stage = "probe"
  <2>1. /\ UNCHANGED <<core, files, aside, tray>> /\ writing' = Aged
        /\ op' = [op EXCEPT !.pc = "toggle"]
    BY <1>2 DEF ProbeTimesOut
  <2>2. /\ op' \in Op /\ op'.kind = op.kind /\ op'.since = op.since
        /\ op'.pc = "toggle" /\ op'.stage = "probe"
    BY <1>1, <1>2, <2>1 DEF Op
  <2>3. /\ Aged \in Seq(Write) /\ Len(Aged) = Len(writing) /\ DOMAIN Aged = DOMAIN writing
        /\ \A i \in DOMAIN writing : Aged[i].by = writing[i].by /\ Aged[i].age = 1
    BY <1>1, Ages
  <2>4. TypeInv' /\ NewestInv' /\ TrayInv'
    BY <1>1, <2>1, <2>2, <2>3, Goes DEF OpTray
  <2>5. PhaseInv'
    BY <1>1, <2>2 DEF PhaseInv, NoOp
  <2>6. WritesLeft'
    BY <1>1, <1>2, <2>1, <2>2, <2>3 DEF CoreFacts, CoreInv, WritesLeft, RoomFor
  <2>7. OwnInv'
    BY <1>1, <2>1, <2>2, <2>3 DEF OwnInv
  <2> QED BY <2>4, <2>5, <2>6, <2>7 DEF CoreFacts, CoreInv
<1>3. CASE op.stage # "probe"
  <2>1. /\ core' = [core EXCEPT !.menu = ~@] /\ files' = aside /\ aside' = NoFiles
        /\ op' = NoOp /\ tray' = "free" /\ writing' = Abandoned
    BY <1>1, <1>3 DEF ProbeTimesOut, ToggleBack, Undo
  <2>2. tray = "op"
    BY <1>1 DEF CoreFacts, CoreInv, TrayInv, OpTray
  <2>3. core' \in Core /\ core'.up
    BY <1>1, <2>1 DEF Core
  <2>4. NoOp \in Op /\ NoOp.since = 0
    BY <1>1, Ended DEF NoOp
  <2> QED BY <1>1, <2>1, <2>2, <2>3, <2>4, Over
<1> QED BY <1>2, <1>3

LEMMA EjectCore == ASSUME CoreFacts, Eject PROVE CoreFacts'
<1>1. /\ UNCHANGED <<files, made, writing, tray, known, load, resume, aside, handout>>
      /\ op \in Op /\ op.pc = "eject" /\ core.up /\ core \in Core /\ known \in Known
      /\ writing \in Seq(Write)
      /\ op' = [op EXCEPT !.pc = "step", !.steps = (op.to + Discs - known.disc) % Discs]
  BY DEF Eject, CoreFacts, CoreInv, TypeInv
<1>2. (op.to + Discs - known.disc) % Discs \in 0 .. Discs
  <2>1. op.to + Discs - known.disc \in Int
    BY <1>1, RetroarchAssumption DEF Op, Known
  <2> QED BY <2>1, RetroarchAssumption
<1>3. /\ op' \in Op /\ op'.kind = op.kind /\ op'.since = op.since /\ op'.stage = op.stage
      /\ op'.pc = "step"
  BY <1>1, <1>2 DEF Op
<1>4. core' \in Core /\ core'.up = core.up /\ core'.menu = core.menu
  BY <1>1 DEF Eject, Core
<1>5. TypeInv' /\ NewestInv' /\ TrayInv'
  BY <1>1, <1>3, <1>4, Goes DEF OpTray
<1>6. PhaseInv' /\ WritesLeft'
  BY <1>1, <1>3 DEF CoreFacts, CoreInv, PhaseInv, NoOp, WritesLeft, RoomFor
<1>7. OwnInv'
  BY <1>1, <1>4, NothingOwn DEF CoreFacts, OwnInv, Own
<1> QED BY <1>5, <1>6, <1>7 DEF CoreFacts, CoreInv

LEMMA DiskNextCore == ASSUME CoreFacts, DiskNext PROVE CoreFacts'
<1>1. /\ UNCHANGED <<files, made, writing, tray, known, load, resume, aside, handout>>
      /\ op \in Op /\ op.pc = "step" /\ core.up /\ core \in Core /\ known \in Known
      /\ writing \in Seq(Write)
  BY DEF DiskNext, CoreFacts, CoreInv, TypeInv
<1>2. (core.disc + 1) % Discs \in 0 .. Discs - 1
  <2>1. core.disc + 1 \in Int
    BY <1>1, RetroarchAssumption DEF Core
  <2> QED BY <2>1, RetroarchAssumption
<1>3. op.steps # 0 => op.steps - 1 \in 0 .. Discs
  BY <1>1, RetroarchAssumption DEF Op
<1>4. /\ op' \in Op /\ op'.kind = op.kind /\ op'.since = op.since /\ op'.stage = op.stage
      /\ op'.pc \in {"step", "close"}
  BY <1>1, <1>3 DEF DiskNext, Op
<1>5. core' \in Core /\ core'.up = core.up /\ core'.menu = core.menu
  BY <1>1, <1>2 DEF DiskNext, Core
<1>6. TypeInv' /\ NewestInv' /\ TrayInv'
  BY <1>1, <1>4, <1>5, Goes DEF OpTray
<1>7. PhaseInv' /\ WritesLeft'
  BY <1>1, <1>4 DEF CoreFacts, CoreInv, PhaseInv, NoOp, WritesLeft, RoomFor
<1>8. OwnInv'
  BY <1>1, <1>5, NothingOwn DEF CoreFacts, OwnInv, Own
<1> QED BY <1>6, <1>7, <1>8 DEF CoreFacts, CoreInv

LEMMA HandOutCore == ASSUME CoreFacts, HandOut PROVE CoreFacts'
<1>1. /\ UNCHANGED <<core, files, made, writing, tray, known, load, resume, aside>>
      /\ op \in Op /\ op.pc = "lock" /\ op.kind = "get" /\ handout' = TRUE
      /\ op' = [op EXCEPT !.pc = "read"]
  BY DEF HandOut, CoreFacts, CoreInv, TypeInv
<1>2. /\ op' \in Op /\ op'.kind = op.kind /\ op'.since = op.since /\ op'.stage = op.stage
      /\ op'.pc = "read"
  BY <1>1 DEF Op
<1>3. TypeInv' /\ NewestInv'
  BY <1>1, <1>2 DEF CoreFacts, CoreInv, TypeInv, NewestInv
<1>4. TrayInv'
  BY <1>1, <1>2 DEF CoreFacts, CoreInv, TrayInv, OpTray, ResumeTray
<1>5. PhaseInv' /\ WritesLeft'
  BY <1>1, <1>2 DEF CoreFacts, CoreInv, PhaseInv, NoOp, WritesLeft, RoomFor
<1>6. OwnInv'
  BY <1>1, NothingOwn DEF CoreFacts, OwnInv, Own
<1> QED BY <1>3, <1>4, <1>5, <1>6 DEF CoreFacts, CoreInv

LEMMA BeginCore == ASSUME CoreFacts, NEW kind \in Requests, Begin(kind) PROVE CoreFacts'
<1>1. /\ UNCHANGED <<core, files, made, writing, tray, known, load, resume, aside, handout>>
      /\ op = NoOp /\ core.up /\ TypeInv /\ core \in Core /\ files \in Files
      /\ Len(made) \in Nat /\ Len(writing) \in Nat /\ RoomFor(0)
  BY Lists DEF Begin, CoreFacts, CoreInv, TypeInv, WritesLeft
<1>2. Len(made) \in 0 .. MaxWrites
  BY <1>1, RetroarchAssumption DEF RoomFor
<1>3. /\ op'.kind = kind /\ op'.pc = "lock" /\ op'.stage = "first" /\ op'.since = Len(made)
      /\ op' \in Op
  <2>1. op' \in [kind : {kind}, pc : {"lock"}, stage : {"first"}, since : {Len(made)},
                 before : {files}, menu : {core.menu}, hands : {FALSE}, to : 0 .. Discs - 1,
                 steps : {0}]
    BY DEF Begin
  <2>2. core.menu \in BOOLEAN /\ 0 \in 0 .. Discs /\ kind \in Requests \cup {"none"}
    BY <1>1, RetroarchAssumption DEF Core
  <2> QED BY <1>1, <1>2, <2>1, <2>2 DEF Op
<1>4. /\ kind \in {"save", "exit", "swap"} => RoomFor(3)
      /\ kind = "push" => RoomFor(1)
  BY DEF Begin
<1>5. TypeInv'
  BY <1>1, <1>3 DEF TypeInv
<1>6. WritesLeft'
  BY <1>1, <1>3, <1>4 DEF WritesLeft, RoomFor
<1>7. NewestInv'
  BY <1>1, <1>3 DEF CoreFacts, CoreInv, NewestInv
<1>8. TrayInv' /\ PhaseInv'
  BY <1>1, <1>3 DEF CoreFacts, CoreInv, TrayInv, OpTray, ResumeTray, PhaseInv, NoOp
<1>9. OwnInv'
  <2>1. op.pc = "idle"
    BY <1>1 DEF NoOp
  <2> QED BY <1>1, <2>1, NothingOwn DEF CoreFacts, OwnInv, Own
<1> QED BY <1>5, <1>6, <1>7, <1>8, <1>9 DEF CoreFacts, CoreInv

\* Whoever meddles with a request changes none of its phases.
LEMMA Meddles ==
  ASSUME CoreFacts, NEW so \in BOOLEAN, NEW c \in Core, Meddled(so, c)
  PROVE  /\ op' \in Op /\ op'.kind = op.kind /\ op'.pc = op.pc /\ op'.stage = op.stage
         /\ op'.since = op.since /\ op'.before = op.before /\ op'.menu = op.menu
         /\ op'.hands = (op.pc \notin {"idle", "flush"} /\ (so \/ op.hands))
         /\ op'.to = op.to /\ op'.steps = op.steps
         /\ core' \in Core /\ core'.up = c.up /\ core'.menu = c.menu
         /\ PhaseInv'
<1>1. op \in Op /\ core' = [c EXCEPT !.drifted = @ \/ (so /\ op.kind = "swap")]
      /\ op' = [op EXCEPT !.hands = op.pc \notin {"idle", "flush"} /\ (so \/ @)]
  BY DEF Meddled, CoreFacts, CoreInv, TypeInv
<1>2. /\ op' \in Op /\ op'.kind = op.kind /\ op'.pc = op.pc /\ op'.stage = op.stage
      /\ op'.since = op.since /\ op'.before = op.before /\ op'.menu = op.menu
      /\ op'.hands = (op.pc \notin {"idle", "flush"} /\ (so \/ op.hands))
      /\ op'.to = op.to /\ op'.steps = op.steps
  BY <1>1 DEF Op
<1>3. core' \in Core /\ core'.up = c.up /\ core'.menu = c.menu
  BY <1>1 DEF Core
<1>4. op.pc \in {"idle", "flush"} => op' = op
  <2>1. op.pc = "idle" => op = NoOp
    BY DEF CoreFacts, CoreInv, PhaseInv
  <2>2. op.pc = "flush" => op = Flush
    BY DEF CoreFacts, CoreInv, PhaseInv, Flush
  <2>3. ~op.hands => [op EXCEPT !.hands = FALSE] = op
    BY <1>1 DEF Op
  <2>4. op.pc \in {"idle", "flush"} => op' = [op EXCEPT !.hands = FALSE]
    BY <1>1
  <2>5. ~NoOp.hands /\ ~Flush.hands
    BY Ended DEF NoOp, CoreFacts, CoreInv
  <2>6. op.pc \in {"idle", "flush"} => ~op.hands
    BY <2>1, <2>2, <2>5
  <2> QED BY <2>3, <2>4, <2>6
<1>5. PhaseInv'
  <2>1. op'.pc = "idle" <=> op' = NoOp
    BY <1>2, <1>4 DEF CoreFacts, CoreInv, PhaseInv, NoOp
  <2>2. op'.pc = "flush" => op' = [NoOp EXCEPT !.kind = "exit", !.pc = "flush"]
    BY <1>2, <1>4 DEF CoreFacts, CoreInv, PhaseInv
  <2> QED BY <1>2, <2>1, <2>2 DEF CoreFacts, CoreInv, PhaseInv
<1> QED BY <1>2, <1>3, <1>5

\* What landing does to the state files.
LEMMA Landing ==
  ASSUME CoreFacts, Lands
  PROVE  /\ made' \in Seq(Origin) /\ Len(made') = Len(made) + 1
         /\ \A i \in 1 .. Len(made) : made'[i] = made[i]
         /\ made'[Len(made) + 1] = IF writing[1].age = 0 THEN writing[1].by ELSE "late"
         /\ files' = [files EXCEPT ![writing[1].to] = Len(made) + 1]
         /\ files' \in Files /\ \A x \in Slot : files'[x] \in {files[x], Len(made) + 1}
         /\ writing' \in Seq(Write) /\ Len(writing') = Len(writing) - 1
         /\ DOMAIN writing' = 1 .. Len(writing) - 1 /\ DOMAIN writing = 1 .. Len(writing)
         /\ \A i \in 1 .. Len(writing) - 1 : writing'[i] = writing[i + 1]
         /\ Len(made) \in Nat /\ Len(writing) \in Nat /\ writing[1] \in Write
         /\ 1 \in DOMAIN writing /\ Len(writing) > 0
         /\ Meddled(writing[1].by \in {"player", "old"}, core)
<1>1. /\ TypeInv /\ writing # <<>> /\ files \in Files /\ core.up
      /\ Len(made) \in Nat /\ Len(writing) \in Nat /\ DOMAIN writing = 1 .. Len(writing)
      /\ RoomFor(0)
  BY Lists DEF Lands, CoreFacts, CoreInv, TypeInv, WritesLeft
<1>2. /\ Head(writing) = writing[1] /\ writing[1] \in Write /\ 1 \in DOMAIN writing
      /\ Tail(writing) \in Seq(Write) /\ Len(Tail(writing)) = Len(writing) - 1
      /\ DOMAIN Tail(writing) = 1 .. Len(writing) - 1
      /\ \A i \in 1 .. Len(writing) - 1 : Tail(writing)[i] = writing[i + 1]
  BY <1>1, Lists2
<1> DEFINE by == IF writing[1].age = 0 THEN writing[1].by ELSE "late"
<1>3. by \in Origin
  <2>1. writing[1].age = 0 => writing[1].by # "old"
    BY <1>2 DEF CoreFacts, OwnInv
  <2> QED BY <1>2, <2>1 DEF Write, Origin
<1>4. /\ made' = Append(made, by)
      /\ files' = [files EXCEPT ![writing[1].to] = Len(made) + 1]
      /\ writing' = Tail(writing) /\ Meddled(writing[1].by \in {"player", "old"}, core)
  BY <1>2, Zenon DEF Lands
<1> HIDE DEF by
<1>5. /\ made' \in Seq(Origin) /\ Len(made') = Len(made) + 1
      /\ \A i \in 1 .. Len(made) : made'[i] = made[i]
      /\ made'[Len(made) + 1] = by
  BY <1>1, <1>3, <1>4, Adds
<1>6. Len(made) + 1 \in 0 .. MaxWrites
  BY <1>1, <1>2, RetroarchAssumption DEF RoomFor
<1>7. files' \in Files /\ \A x \in Slot : files'[x] \in {files[x], Len(made) + 1}
  BY <1>1, <1>2, <1>4, <1>6 DEF Files, Write
<1> QED BY <1>1, <1>2, <1>4, <1>5, <1>7 DEF by

LEMMA LandsCore == ASSUME CoreFacts, Lands PROVE CoreFacts'
<1>1. /\ UNCHANGED <<tray, known, load, resume, aside, handout>> /\ core.up
      /\ TypeInv /\ core \in Core
  BY DEF Lands, CoreFacts, CoreInv, TypeInv
<1>2. /\ made' \in Seq(Origin) /\ Len(made') = Len(made) + 1
      /\ files' \in Files /\ \A x \in Slot : files'[x] \in {files[x], Len(made) + 1}
      /\ writing' \in Seq(Write) /\ Len(writing') = Len(writing) - 1
      /\ DOMAIN writing' = 1 .. Len(writing) - 1 /\ DOMAIN writing = 1 .. Len(writing)
      /\ \A i \in 1 .. Len(writing) - 1 : writing'[i] = writing[i + 1]
      /\ Len(made) \in Nat /\ Len(writing) \in Nat /\ Len(writing) > 0
      /\ Meddled(writing[1].by \in {"player", "old"}, core)
  BY Landing
<1>3. /\ op' \in Op /\ op'.kind = op.kind /\ op'.pc = op.pc /\ op'.stage = op.stage
      /\ op'.since = op.since /\ core' \in Core /\ core'.up = core.up /\ core'.menu = core.menu
      /\ PhaseInv'
  <2> DEFINE so == writing[1].by \in {"player", "old"}
  <2>1. so \in BOOLEAN /\ Meddled(so, core)
    BY <1>2
  <2> HIDE DEF so
  <2> QED BY <1>1, <2>1, Meddles
<1>4. TypeInv'
  BY <1>1, <1>2, <1>3 DEF TypeInv
<1>5. WritesLeft'
  <2>1. Len(made') + Len(writing') = Len(made) + Len(writing)
    BY <1>2
  <2>2. RoomFor(0)' = RoomFor(0) /\ RoomFor(1)' = RoomFor(1)
        /\ RoomFor(2)' = RoomFor(2) /\ RoomFor(3)' = RoomFor(3)
    BY <2>1 DEF RoomFor
  <2> QED BY <1>3, <2>2 DEF CoreFacts, CoreInv, WritesLeft
<1>6. NewestInv'
  <2>1. \A x \in Slot : files[x] \in Nat /\ aside[x] \in Nat
    BY <1>1 DEF TypeInv, Files
  <2>2. op.since \in Nat /\ load.file \in Nat
    BY <1>1 DEF TypeInv, Op, Load
  <2>3. /\ \A x \in Slot : files[x] <= Len(made) /\ aside[x] <= Len(made)
        /\ op.since <= Len(made) /\ load.file <= Len(made)
    BY DEF CoreFacts, CoreInv, NewestInv
  <2>4. \A x \in Slot : files'[x] <= Len(made') /\ aside'[x] <= Len(made')
    BY <1>1, <1>2, <2>1, <2>3
  <2>5. op'.since <= Len(made') /\ load'.file <= Len(made')
    BY <1>1, <1>2, <1>3, <2>2, <2>3
  <2> QED BY <2>4, <2>5 DEF NewestInv
<1>7. TrayInv'
  BY <1>1, <1>3 DEF CoreFacts, CoreInv, TrayInv, OpTray, ResumeTray
<1>8. OwnInv'
  BY <1>1, <1>2, <1>3 DEF CoreFacts, OwnInv, Own
<1> QED BY <1>3, <1>4, <1>5, <1>6, <1>7, <1>8 DEF CoreFacts, CoreInv

LEMMA DiesCore == ASSUME CoreFacts, Dies PROVE CoreFacts'
<1>1. /\ UNCHANGED <<files, made, tray, known, op, load, resume, aside, handout>>
      /\ writing' = <<>> /\ core' = [core EXCEPT !.up = FALSE, !.asked = FALSE, !.menu = FALSE]
  BY DEF Dies
<1>2. core' \in Core /\ ~core'.up /\ ~core'.menu
  BY <1>1 DEF CoreFacts, CoreInv, TypeInv, Core
<1>3. writing' \in Seq(Write) /\ Len(writing') = 0 /\ DOMAIN writing' = {}
  BY <1>1
<1>4. TypeInv' /\ NewestInv' /\ TrayInv' /\ PhaseInv'
  BY <1>1, <1>2, <1>3
     DEF CoreFacts, CoreInv, TypeInv, NewestInv, TrayInv, OpTray, ResumeTray, PhaseInv
<1>5. WritesLeft'
  <2>1. Len(made) \in Nat /\ Len(writing) \in Nat
    BY Lists DEF CoreFacts, CoreInv
  <2>2. /\ RoomFor(0) => RoomFor(0)'
        /\ RoomFor(1) => RoomFor(1)'
        /\ RoomFor(2) => RoomFor(2)'
        /\ RoomFor(3) => RoomFor(3)'
    BY <1>1, <1>3, <2>1, RetroarchAssumption DEF RoomFor
  <2> QED BY <1>1, <2>2 DEF CoreFacts, CoreInv, WritesLeft
<1>6. OwnInv'
  BY <1>1, <1>2, <1>3 DEF OwnInv
<1> QED BY <1>4, <1>5, <1>6 DEF CoreFacts, CoreInv

\* What the player's hands do, case by case.
LEMMA Presses ==
  ASSUME CoreFacts, PlayerPresses
  PROVE  /\ UNCHANGED <<files, made, tray, known, said, load, resume, aside, handout>> /\ core.up
         /\ \/ Meddled(TRUE, [core EXCEPT !.menu = ~@]) /\ UNCHANGED writing
            \/ /\ UNCHANGED <<op, writing>> /\ core' \in Core
               /\ core'.up = core.up /\ core'.menu = core.menu
            \/ ~core.menu /\ RoomFor(4) /\ TakesSave("player") /\ UNCHANGED <<core, op>>
<1>1. core \in Core
  BY DEF CoreFacts, CoreInv, TypeInv
<1>2. ASSUME NEW s \in Slot, core' = [core EXCEPT !.slot = s]
      PROVE  core' \in Core /\ core'.up = core.up /\ core'.menu = core.menu
  BY <1>1, <1>2 DEF Core
<1> QED BY <1>2 DEF PlayerPresses

LEMMA PlayerPressesCore == ASSUME CoreFacts, PlayerPresses PROVE CoreFacts'
<1>1. /\ UNCHANGED <<files, made, tray, known, said, load, resume, aside, handout>> /\ core.up
      /\ TypeInv /\ core \in Core /\ Len(made) \in Nat /\ Len(writing) \in Nat
  BY Presses, Lists DEF CoreFacts, CoreInv, TypeInv
<1>2. CASE Meddled(TRUE, [core EXCEPT !.menu = ~@]) /\ UNCHANGED writing
  <2>1. [core EXCEPT !.menu = ~@] \in Core /\ [core EXCEPT !.menu = ~@].up
    BY <1>1 DEF Core
  <2>2. /\ op' \in Op /\ op'.kind = op.kind /\ op'.pc = op.pc /\ op'.stage = op.stage
        /\ op'.since = op.since /\ core' \in Core /\ core'.up
        /\ PhaseInv'
    BY <1>2, <2>1, Meddles
  <2>3. TypeInv' /\ NewestInv' /\ TrayInv'
    BY <1>1, <1>2, <2>2
       DEF CoreFacts, CoreInv, TypeInv, NewestInv, TrayInv, OpTray, ResumeTray
  <2>4. WritesLeft' /\ OwnInv'
    BY <1>1, <1>2, <2>2 DEF CoreFacts, CoreInv, WritesLeft, RoomFor, OwnInv, Own
  <2> QED BY <2>2, <2>3, <2>4 DEF CoreFacts, CoreInv
<1>3. CASE /\ UNCHANGED <<op, writing>> /\ core' \in Core
           /\ core'.up = core.up /\ core'.menu = core.menu
  <2>1. TypeInv' /\ TrayInv' /\ load'.file <= Len(made)
    BY <1>1, <1>3 DEF CoreFacts, CoreInv, TypeInv, NewestInv, TrayInv, OpTray, ResumeTray
  <2> QED BY <1>1, <1>3, <2>1, Aloof
<1>4. CASE ~core.menu /\ RoomFor(4) /\ TakesSave("player") /\ UNCHANGED <<core, op>>
  <2>1. /\ writing' \in Seq(Write) /\ Len(writing') = Len(writing) + 1
        /\ DOMAIN writing' = 1 .. Len(writing) + 1
        /\ \A i \in 1 .. Len(writing) : writing'[i] = writing[i]
        /\ writing'[Len(writing) + 1].by = "player"
    BY <1>1, <1>4, Accepts
  <2>2. TypeInv' /\ NewestInv' /\ TrayInv' /\ PhaseInv'
    BY <1>1, <1>4, <2>1
       DEF CoreFacts, CoreInv, TypeInv, NewestInv, TrayInv, OpTray, ResumeTray, PhaseInv
  <2>3. WritesLeft'
    <3>1. /\ RoomFor(0)' /\ RoomFor(1)' /\ RoomFor(2)' /\ RoomFor(3)'
      BY <1>1, <1>4, <2>1, RetroarchAssumption DEF RoomFor
    <3> QED BY <3>1 DEF WritesLeft
  <2>4. OwnInv'
    <3>1. DOMAIN writing = 1 .. Len(writing)
      BY <1>1, Lists
    <3> QED BY <1>1, <1>4, <2>1, <3>1 DEF CoreFacts, OwnInv, Own
  <2> QED BY <2>2, <2>3, <2>4 DEF CoreFacts, CoreInv
<1> QED BY <1>2, <1>3, <1>4, Presses

LEMMA StutterCore == ASSUME CoreFacts, UNCHANGED vars PROVE CoreFacts'
BY DEF vars, CoreFacts, CoreInv, TypeInv, WritesLeft, RoomFor, NewestInv, TrayInv, OpTray,
       ResumeTray, PhaseInv, OwnInv, Own

\* Every step keeps the types, the bound, the tray and the phases.
LEMMA NextCore == ASSUME CoreFacts, [Next]_vars PROVE CoreFacts'
<1>1. CASE Saving
  BY <1>1, TakeTrayCore, TrayTimesOutCore, SeesDeathCore, SettleCore, HomeSlotCore,
     SendSaveCore, SavedCore, SaveTimesOutCore, ToggleCore, ToggleMenuCore DEF Saving
<1>2. CASE Swapping
  BY <1>2, SwapTakesTrayCore, SwapPlayingCore, CopyAsideCore, ProbedCore, ProbeTimesOutCore,
     EjectCore, DiskNextCore, CloseTrayCore DEF Swapping
<1>3. CASE Loading
  BY <1>3, LoadMoves, LoadAnswersCore DEF Loading
<1>4. CASE Routes
  BY <1>4, PushCore, HandOutCore, GetReadsCore, ExitWithoutStateCore, QuitCore DEF Routes
<1>5. CASE Resuming
  BY <1>5, ResumeMoves
<1>6. CASE Lands \/ StartsPlaying \/ Reads \/ Dies \/ PlayerPresses \/ GraceEnds
  BY <1>6, LandsCore, DiesCore, PlayerPressesCore, CoreMoves
<1>7. CASE \E kind \in Requests : Begin(kind)
  BY <1>7, BeginCore
<1>8. CASE UNCHANGED vars
  BY <1>8, StutterCore
<1> QED BY <1>1, <1>2, <1>3, <1>4, <1>5, <1>6, <1>7, <1>8 DEF Next

-----------------------------------------------------------------------------
(* The answers.                                                               *)

\* A request is at its first stage until its first save.
LEMMA FirstStage ==
  ASSUME CoreFacts, op.pc \in {"lock", "settle", "load", "playing", "copy"}
  PROVE  op.stage = "first"
BY DEF CoreFacts, CoreInv, TypeInv, PhaseInv, Op

\* An answer is honest about the save and the menu.
LEMMA AnswerSays ==
  ASSUME NEW ok, NEW menu, NEW stray, Answered(ok, menu, stray),
         ~op.menu /\ ~op.hands => ~menu \/ stray,
         op.kind \in {"save", "exit"} /\ ok => files.home > op.since
  PROVE  SavedForReal' /\ MenuAsFound' /\ (said'.kind = op.kind) /\ (said'.ok = ok)
         /\ (op.kind = "load" => said'.real = load.game)
<1>1. said' = [kind |-> op.kind, ok |-> ok, menu |-> MenuLeft(menu, stray),
               real |-> IF op.kind = "load" THEN load.game ELSE files.home > op.since]
  BY DEF Answered
<1>2. MenuLeft(menu, stray) # "opened"
  BY DEF MenuLeft
<1> QED BY <1>1, <1>2 DEF SavedForReal, MenuAsFound

\* One that claims nothing while no menu can be of its making.
LEMMA RefusalSays ==
  ASSUME RetroInv, Answer(FALSE), op.stage = "first", op.pc \notin {"idle", "flush"}
  PROVE  SavedForReal' /\ MenuAsFound' /\ ~said'.ok
<1>1. Answered(FALSE, core.menu, FALSE)
  BY DEF Answer
<1>2. ~op.menu /\ ~op.hands => ~core.menu
  BY DEF RetroInv, MenuInv, Alone
<1> QED BY <1>1, <1>2, AnswerSays

LEMMA SavedSays ==
  ASSUME RetroInv, Saved, op.stage # "past"
  PROVE  SavedForReal' /\ MenuAsFound' /\ said'.kind \in {"save", "exit"}
<1>1. /\ op.pc = "wait" /\ op.kind \in {"save", "exit"} /\ files.home # op.before.home
      /\ Answered(TRUE, core.menu, FALSE)
  BY DEF Saved, Confirmed, HomeChanged, Answer
<1>2. files.home > op.since
  BY <1>1 DEF RetroInv, SaveInv
<1>3. op.stage \in {"first", "rehomed", "check"}
  BY <1>1 DEF RetroInv, CoreFacts, CoreInv, TypeInv, PhaseInv, Op
<1>4. ~op.menu /\ ~op.hands => ~core.menu
  BY <1>1, <1>3 DEF RetroInv, MenuInv, Alone
<1> QED BY <1>1, <1>2, <1>4, AnswerSays

LEMMA SaveTimesOutSays ==
  ASSUME RetroInv, SaveTimesOut, op.stage # "first"
  PROVE  SavedForReal' /\ MenuAsFound' /\ said'.kind \in {"save", "exit"}
<1>1. op.pc = "wait" /\ op.kind \in {"save", "exit"} /\ core.up
  BY DEF SaveTimesOut
<1>2. op.stage \in {"rehomed", "past", "check"}
  BY <1>1 DEF RetroInv, CoreFacts, CoreInv, TypeInv, PhaseInv, Op
<1>3. op.stage = "check" => files.home > op.since
  BY <1>1 DEF RetroInv, SaveInv
<1>4. CASE op.stage = "rehomed"
  <2>1. Answered(FALSE, core.menu, FALSE)
    BY <1>4 DEF SaveTimesOut
  <2>2. ~op.menu /\ ~op.hands => ~core.menu
    BY <1>1, <1>4 DEF RetroInv, MenuInv, Alone
  <2> QED BY <1>1, <2>1, <2>2, AnswerSays
<1>5. CASE op.stage # "rehomed" /\ files = op.before
  <2>1. Answered(op.stage = "check", ~core.menu, FALSE)
    BY <1>2, <1>5 DEF SaveTimesOut
  <2>2. ~op.menu /\ ~op.hands => core.menu
    BY <1>1, <1>2, <1>5 DEF RetroInv, MenuInv, Alone
  <2> QED BY <1>1, <1>3, <2>1, <2>2, AnswerSays
<1>6. CASE op.stage # "rehomed" /\ files # op.before
  <2>1. Answered(op.stage = "check", core.menu, TRUE)
    BY <1>2, <1>6 DEF SaveTimesOut
  <2> QED BY <1>1, <1>3, <2>1, AnswerSays
<1> QED BY <1>4, <1>5, <1>6

LEMMA SeesDeathSays ==
  ASSUME RetroInv, SeesDeath
  PROVE  SavedForReal' /\ MenuAsFound' /\ said'.kind \in {"save", "exit", "swap"}
<1>1. /\ Answered(op.stage = "check", core.menu, FALSE) /\ ~core.up
      /\ op.kind \in {"save", "exit", "swap"}
  BY DEF SeesDeath
<1>2. ~core.menu
  BY <1>1 DEF RetroInv, CoreFacts, OwnInv
<1>3. op.kind \in {"save", "exit"} /\ op.stage = "check" => files.home > op.since
  BY DEF RetroInv, SaveInv
<1> QED BY <1>1, <1>2, <1>3, AnswerSays

LEMMA ProbeTimesOutSays ==
  ASSUME RetroInv, ProbeTimesOut, op.stage # "probe"
  PROVE  SavedForReal' /\ MenuAsFound' /\ ~said'.ok
<1>1. /\ op.pc = "wait" /\ op.kind = "swap" /\ core.up
      /\ said' = [Unsaid EXCEPT !.kind = "swap", !.menu = MenuLeft(~core.menu, FALSE)]
  BY DEF ProbeTimesOut
<1>2. op.stage \in {"again", "sure"}
  BY <1>1 DEF RetroInv, CoreFacts, CoreInv, TypeInv, PhaseInv, Op
<1>3. ~op.menu /\ ~op.hands => core.menu
  BY <1>1, <1>2 DEF RetroInv, MenuInv, Alone
<1>4. MenuLeft(~core.menu, FALSE) # "opened"
  BY <1>3 DEF MenuLeft
<1> QED BY <1>1, <1>4 DEF Unsaid, SavedForReal, MenuAsFound

LEMMA CloseTraySays ==
  ASSUME RetroInv, CloseTray
  PROVE  SavedForReal' /\ MenuAsFound' /\ said'.kind = "swap"
<1>1. /\ op.pc = "close" /\ core.up
      /\ said' = [kind |-> "swap", ok |-> TRUE, real |-> TRUE,
                  menu |-> MenuLeft(core.menu, FALSE)]
  BY DEF CloseTray
<1>2. op.stage \in {"probe", "sure"}
  BY <1>1 DEF RetroInv, CoreFacts, CoreInv, TypeInv, PhaseInv, Op
<1>3. ~op.menu /\ ~op.hands => ~core.menu
  BY <1>1, <1>2 DEF RetroInv, MenuInv, Alone
<1>4. MenuLeft(core.menu, FALSE) # "opened"
  BY <1>3 DEF MenuLeft
<1> QED BY <1>1, <1>4 DEF SavedForReal, MenuAsFound

LEMMA LoadAnswersSays ==
  ASSUME RetroInv, LoadAnswers
  PROVE  /\ SavedForReal' /\ MenuAsFound' /\ said'.kind = "load"
         /\ said'.ok = (load.pc = "yes") /\ said'.real = load.game
<1>1. Answered(load.pc = "yes", core.menu, FALSE) /\ op.pc = "load" /\ op.kind = "load"
  BY DEF LoadAnswers, RetroInv, CoreFacts, CoreInv, PhaseInv
<1>2. ~op.menu /\ ~op.hands => ~core.menu
  BY <1>1, FirstStage DEF RetroInv, MenuInv, Alone
<1> QED BY <1>1, <1>2, AnswerSays

\* Nobody claims a load but the request that made it.
LoadSaid == said.kind = "load" /\ said.ok => said.real
Says == SavedForReal /\ MenuAsFound

LEMMA SaysNext ==
  ASSUME RetroInv, [Next]_vars
  PROVE  /\ Says'
         /\ (TracksAtime /\ load.pc = "yes" => load.game) /\ (TracksAtime => LoadSaid)
              => (TracksAtime => LoadSaid')
<1> USE DEF Says, LoadSaid
<1>1. CASE UNCHANGED said
  BY <1>1 DEF RetroInv, SavedForReal, MenuAsFound
<1>2. CASE said' = Unsaid
  BY <1>2 DEF Unsaid, SavedForReal, MenuAsFound
<1>3. CASE Answer(FALSE) /\ op.pc \in {"lock", "playing", "copy"}
  BY <1>3, FirstStage, RefusalSays DEF RetroInv
<1>4. CASE Saved
  <2>1. op.stage = "past" => UNCHANGED said
    BY <1>4 DEF Saved
  <2> QED BY <1>1, <1>4, <2>1, SavedSays
<1>5. CASE SaveTimesOut
  <2>1. op.stage = "first" => UNCHANGED said
    BY <1>5 DEF SaveTimesOut
  <2> QED BY <1>1, <1>5, <2>1, SaveTimesOutSays
<1>6. CASE SeesDeath
  BY <1>6, SeesDeathSays
<1>7. CASE ProbeTimesOut
  <2>1. op.stage = "probe" => UNCHANGED said
    BY <1>7 DEF ProbeTimesOut
  <2> QED BY <1>1, <1>7, <2>1, ProbeTimesOutSays
<1>8. CASE CloseTray
  BY <1>8, CloseTraySays
<1>9. CASE LoadAnswers
  BY <1>9, LoadAnswersSays
<1>10. CASE ToggleMenu \/ Push
  <2>1. \E kind \in {"menu", "push"}, ok \in BOOLEAN :
          said' = [Unsaid EXCEPT !.kind = kind, !.ok = ok]
    BY <1>10 DEF ToggleMenu, Push, RetroInv, CoreFacts, CoreInv, TypeInv, Core
  <2> QED BY <2>1 DEF Unsaid, SavedForReal, MenuAsFound
<1>11. CASE TrayTimesOut \/ SwapTakesTray \/ SwapPlaying \/ CopyAside
  <2>1. UNCHANGED said \/ (Answer(FALSE) /\ op.pc \in {"lock", "playing", "copy"})
    BY <1>11 DEF TrayTimesOut, SwapTakesTray, SwapPlaying, CopyAside
  <2> QED BY <1>1, <1>3, <2>1
<1>12. CASE Loading /\ ~LoadAnswers
  BY <1>1, <1>12 DEF Loading, LoadMark, LoadEcho, Poll, LoadTimesOut
<1>13. CASE Resuming
  BY <1>1, <1>13 DEF Resuming, ResumeBoots, ResumeTakesTray, ResumeWaitsInVain, ResumeFinds,
     ResumeSettles, ResumeAttempted, ResumeRetries, others
<1>14. CASE TakeTray \/ Settle \/ HomeSlot \/ SendSave \/ Toggle \/ Probed \/ Eject \/ DiskNext
  BY <1>1, <1>14 DEF TakeTray, Settle, HomeSlot, SendSave, Toggle, Probed, Eject, DiskNext
<1>15. CASE HandOut \/ GetReads \/ ExitWithoutState \/ Quit
  BY <1>1, <1>15 DEF HandOut, GetReads, ExitWithoutState, Quit
<1>16. CASE Lands \/ StartsPlaying \/ Reads \/ Dies \/ PlayerPresses \/ GraceEnds
  BY <1>1, <1>16 DEF Lands, StartsPlaying, Reads, Dies, PlayerPresses, GraceEnds
<1>17. CASE \E kind \in Requests : Begin(kind)
  BY <1>2, <1>17 DEF Begin
<1>18. CASE UNCHANGED vars
  BY <1>1, <1>18 DEF vars
<1> QED BY <1>4, <1>5, <1>6, <1>7, <1>8, <1>9, <1>10, <1>11, <1>12, <1>13, <1>14, <1>15, <1>16,
           <1>17, <1>18 DEF Next, Saving, Swapping, Loading, Routes

-----------------------------------------------------------------------------
(* The saves.                                                                 *)

\* A step that keeps the request and the files, or is done waiting, has nothing to show.
LEMMA SaveKeeps ==
  ASSUME SaveInv, \/ UNCHANGED <<op, files>>
                  \/ op'.kind \notin {"save", "exit"}
                  \/ op'.pc # "wait" /\ op'.stage # "check"
  PROVE  SaveInv'
BY DEF SaveInv

LEMMA SaveNext ==
  ASSUME RetroInv, [Next]_vars
  PROVE  SaveInv'
<1>1. SaveInv /\ TypeInv /\ op \in Op /\ files \in Files
  BY DEF RetroInv, CoreFacts, CoreInv, TypeInv
<1>2. CASE UNCHANGED <<op, files>>
  BY <1>1, <1>2, SaveKeeps
<1>3. CASE op' \in {NoOp, Flush}
  BY <1>1, <1>3, SaveKeeps, Ended DEF NoOp
<1>4. CASE \E kind \in Requests : Begin(kind)
  BY <1>1, <1>4, SaveKeeps DEF Begin
<1>5. CASE TakeTray
  <2>1. op'.pc # "wait" /\ op'.stage = op.stage
    BY <1>1, <1>5 DEF TakeTray, Op
  <2> QED BY <1>1, <1>5, <2>1, SaveKeeps, FirstStage DEF TakeTray, RetroInv
<1>6. CASE Settle \/ HomeSlot \/ Toggle
  <2>1. op'.pc # "wait"
    BY <1>1, <1>6 DEF Settle, HomeSlot, Toggle, Op
  <2>2. op'.stage # "check"
    BY <1>1, <1>6 DEF Settle, HomeSlot, Toggle, Op, RetroInv, CoreFacts, CoreInv, PhaseInv
  <2> QED BY <1>1, <2>1, <2>2, SaveKeeps
<1>7. CASE SendSave
  <2>1. /\ op'.kind = op.kind /\ op'.since = op.since /\ op'.stage = op.stage
        /\ op'.before = files /\ files' = files
    BY <1>1, <1>7 DEF SendSave, Op
  <2> QED BY <1>1, <2>1 DEF SaveInv
<1>8. CASE Saved /\ op.stage = "past"
  <2>1. /\ op.pc = "wait" /\ op.kind \in {"save", "exit"} /\ files.home # op.before.home
        /\ op' = [op EXCEPT !.stage = "check", !.pc = "send"] /\ files' = files
    BY <1>8 DEF Saved, Confirmed, HomeChanged
  <2>2. op'.since = op.since /\ op'.pc = "send"
    BY <1>1, <2>1 DEF Op
  <2> QED BY <1>1, <2>1, <2>2 DEF SaveInv
<1>9. CASE SaveTimesOut /\ op.stage = "first"
  <2>1. op' \in {[op EXCEPT !.pc = "toggle"], [op EXCEPT !.pc = "home", !.stage = "rehomed"]}
    BY <1>9 DEF SaveTimesOut
  <2>2. op'.pc # "wait" /\ op'.stage # "check"
    BY <1>1, <1>9, <2>1 DEF Op
  <2> QED BY <1>1, <2>2, SaveKeeps
<1>10. CASE Answer(TRUE) \/ Answer(FALSE) \/ SeesDeath \/ LoadAnswers
            \/ (SaveTimesOut /\ op.stage # "first")
  <2>1. \E ok, menu, stray \in BOOLEAN : Answered(ok, menu, stray)
    BY <1>1, <1>10 DEF Answer, SeesDeath, LoadAnswers, SaveTimesOut, TypeInv, Core,
                       RetroInv, CoreFacts, CoreInv, PhaseInv, Op
  <2> QED BY <1>3, <2>1, Answers DEF RetroInv
<1>11. CASE ToggleMenu \/ CloseTray \/ Push \/ GetReads \/ ExitWithoutState \/ Quit
  BY <1>3, <1>11 DEF ToggleMenu, CloseTray, Push, GetReads, ExitWithoutState, Quit, Flush
<1>12. CASE op' # NoOp /\ op.kind = "swap"
            /\ (SwapTakesTray \/ SwapPlaying \/ CopyAside \/ Probed \/ ProbeTimesOut
                \/ Eject \/ DiskNext)
            /\ ~Answer(FALSE)
  <2>1. op'.kind = "swap"
    BY <1>1, <1>12
       DEF SwapTakesTray, SwapPlaying, CopyAside, Probed, ProbeTimesOut, Eject, DiskNext, Op
  <2> QED BY <1>1, <2>1, SaveKeeps
<1>13. CASE HandOut
  <2>1. op'.kind = "get"
    BY <1>1, <1>13 DEF HandOut, Op
  <2> QED BY <1>1, <2>1, SaveKeeps
<1>14. CASE Lands
  <2>1. /\ op'.kind = op.kind /\ op'.pc = op.pc /\ op'.stage = op.stage
        /\ op'.since = op.since /\ op'.before = op.before
    <3> DEFINE so == writing[1].by \in {"player", "old"}
    <3>1. so \in BOOLEAN /\ Meddled(so, core) /\ CoreFacts /\ core \in Core
      BY <1>1, <1>14, Landing DEF RetroInv, TypeInv
    <3> HIDE DEF so
    <3> QED BY <3>1, Meddles
  <2>2. files'.home \in {files.home, Len(made) + 1} /\ Len(made) \in Nat
    BY <1>14, Landing DEF RetroInv, Slot
  <2>3. op.since <= Len(made) /\ op.since \in Nat
    BY <1>1 DEF RetroInv, CoreFacts, CoreInv, NewestInv, Op
  <2> QED BY <1>1, <2>1, <2>2, <2>3 DEF SaveInv
<1>15. CASE PlayerPresses
  <2>1. files' = files
    BY <1>15 DEF PlayerPresses
  <2>2. \/ UNCHANGED op
        \/ /\ op'.kind = op.kind /\ op'.pc = op.pc /\ op'.stage = op.stage
           /\ op'.since = op.since /\ op'.before = op.before
    BY <1>1, <1>15, Presses DEF RetroInv, Meddled, Op
  <2> QED BY <1>1, <2>1, <2>2 DEF SaveInv
<1>16. CASE StartsPlaying \/ Reads \/ Dies \/ GraceEnds
  BY <1>2, <1>16 DEF StartsPlaying, Reads, Dies, GraceEnds
<1>17. CASE LoadMark \/ LoadEcho \/ Poll \/ LoadTimesOut
  BY <1>2, <1>17 DEF LoadMark, LoadEcho, Poll, LoadTimesOut
<1>18. CASE Resuming
  BY <1>2, <1>18 DEF Resuming, ResumeBoots, ResumeTakesTray, ResumeWaitsInVain, ResumeFinds,
     ResumeSettles, ResumeAttempted, ResumeRetries, others
<1>19. CASE UNCHANGED vars
  BY <1>2, <1>19 DEF vars
<1>20. CASE Saving
  BY <1>5, <1>6, <1>7, <1>8, <1>9, <1>10, <1>11, <1>20 DEF Saving, Saved, TrayTimesOut
<1>21. CASE Swapping
  <2>1. CloseTray \/ op.kind = "swap"
    BY <1>21 DEF Swapping, SwapTakesTray, SwapPlaying, CopyAside, Probed, ProbeTimesOut, Eject,
                 DiskNext, RetroInv, CoreFacts, CoreInv, PhaseInv
  <2> QED BY <1>3, <1>10, <1>11, <1>12, <1>21, <2>1 DEF Swapping
<1> QED BY <1>4, <1>10, <1>11, <1>13, <1>14, <1>15, <1>16, <1>17, <1>18, <1>19, <1>20, <1>21
        DEF Next, Loading, Routes

-----------------------------------------------------------------------------
(* The loads.                                                                 *)

\* Requests other than loads and reads leave the load, the resume and the handout alone, and
\* write no state while the resume loads.
RequestSteps ==
  \/ \E kind \in Requests : Begin(kind)
  \/ Saving /\ ~TakeTray
  \/ Swapping \/ Push \/ ExitWithoutState \/ Quit \/ Dies \/ PlayerPresses \/ StartsPlaying

LEMMA RequestsAside ==
  ASSUME CoreFacts, RequestSteps
  PROVE  /\ UNCHANGED <<load, resume, handout>>
         /\ op'.pc = "read" => op.pc = "read"
         /\ resume.pc = "load" => UNCHANGED <<files, made>>
<1>1. op \in Op
  BY DEF CoreFacts, CoreInv, TypeInv
<1>2. UNCHANGED <<load, resume, handout>>
  <2>1. CASE Saving /\ ~TakeTray
    BY <2>1 DEF Saving, TrayTimesOut, Answer, SeesDeath, Settle, HomeSlot, SendSave, Saved,
                SaveTimesOut, Toggle, ToggleMenu
  <2>2. CASE Swapping
    BY <2>2 DEF Swapping, SwapTakesTray, Answer, SwapPlaying, CopyAside, Probed, ProbeTimesOut,
                Eject, DiskNext, CloseTray
  <2>3. CASE \/ \E kind \in Requests : Begin(kind)
             \/ Push \/ ExitWithoutState \/ Quit \/ Dies \/ PlayerPresses \/ StartsPlaying
    BY <2>3 DEF Begin, Push, ExitWithoutState, Quit, Dies, PlayerPresses, StartsPlaying
  <2> QED BY <2>1, <2>2, <2>3 DEF RequestSteps
<1>3. op'.pc = "read" => op.pc = "read"
  <2>1. CASE op' \in {NoOp, Flush} \/ op'.pc = "lock"
    BY <2>1, Ended DEF NoOp, CoreFacts, CoreInv
  <2>2. CASE \E ok, menu, stray \in BOOLEAN : Answered(ok, menu, stray)
    BY <2>1, <2>2, Answers
  <2>3. CASE Saving /\ ~TakeTray
    <3>1. CASE TrayTimesOut \/ (Saved /\ op.stage # "past") \/ SeesDeath
      BY <2>2, <3>1 DEF TrayTimesOut, Saved, SeesDeath, Answer, CoreFacts, CoreInv, TypeInv, Core
    <3>2. CASE Settle \/ HomeSlot \/ SendSave \/ (Saved /\ op.stage = "past") \/ Toggle
      BY <1>1, <3>2 DEF Settle, HomeSlot, SendSave, Saved, Toggle, Op
    <3>3. CASE SaveTimesOut
      <4>1. op.stage = "first" => op'.pc # "read"
        BY <1>1, <3>3 DEF SaveTimesOut, Op
      <4>2. op.stage # "first" => \E ok, menu, stray \in BOOLEAN : Answered(ok, menu, stray)
        BY <1>1, <3>3 DEF SaveTimesOut, CoreFacts, CoreInv, TypeInv, Core, PhaseInv, Op
      <4> QED BY <2>2, <4>1, <4>2
    <3>4. CASE ToggleMenu
      BY <2>1, <3>4 DEF ToggleMenu
    <3> QED BY <2>3, <3>1, <3>2, <3>3, <3>4 DEF Saving
  <2>4. CASE Swapping
    <3>1. CASE Answer(FALSE)
      BY <2>2, <3>1 DEF Answer, CoreFacts, CoreInv, TypeInv, Core
    <3>2. CASE ~Answer(FALSE)
      BY <1>1, <2>1, <2>4, <3>2
         DEF Swapping, SwapTakesTray, SwapPlaying, CopyAside, Probed, ProbeTimesOut, Eject,
             DiskNext, CloseTray, Op
    <3> QED BY <3>1, <3>2
  <2>5. CASE \/ \E kind \in Requests : Begin(kind)
             \/ Push \/ ExitWithoutState \/ Quit
    BY <2>1, <2>5 DEF Begin, Push, ExitWithoutState, Quit, Flush
  <2>6. CASE Dies \/ StartsPlaying
    BY <2>6 DEF Dies, StartsPlaying
  <2>7. CASE PlayerPresses
    BY <1>1, <2>7, Presses DEF Meddled, Op
  <2> QED BY <2>3, <2>4, <2>5, <2>6, <2>7 DEF RequestSteps
<1>4. resume.pc = "load" => UNCHANGED <<files, made>>
  <2>1. resume.pc = "load" => ~OpTray
    BY DEF CoreFacts, CoreInv, TrayInv, ResumeTray
  <2>2. CASE Saving
    BY <2>1, <2>2 DEF Saving, TakeTray, TrayTimesOut, Answer, SeesDeath, Settle, HomeSlot,
                      SendSave, Saved, SaveTimesOut, Toggle, ToggleMenu, OpTray
  <2>3. CASE Swapping
    BY <2>1, <2>3 DEF Swapping, SwapTakesTray, Answer, SwapPlaying, CopyAside, Probed,
                      ProbeTimesOut, Eject, DiskNext, CloseTray, OpTray
  <2>4. CASE \/ \E kind \in Requests : Begin(kind)
             \/ Push \/ ExitWithoutState \/ Quit \/ Dies \/ PlayerPresses \/ StartsPlaying
    BY <2>1, <2>4
       DEF Begin, Push, ExitWithoutState, Quit, Dies, PlayerPresses, StartsPlaying, OpTray
  <2> QED BY <2>2, <2>3, <2>4 DEF RequestSteps
<1> QED BY <1>2, <1>3, <1>4

\* What reads and loads: an echo no slower than the grace never misses the GET route's read.
LEMMA ReadNext ==
  ASSUME CoreFacts, ReadInv, LoadedForReal, ~SlowEcho, [Next]_vars
  PROVE  ReadInv' /\ (TracksAtime /\ load.pc = "yes" => load.game)'
<1> USE DEF ReadInv, LoadedForReal
<1>1. op \in Op /\ load \in Load /\ TypeInv
  BY DEF CoreFacts, CoreInv, TypeInv
<1>2. CASE RequestSteps
  BY <1>2, RequestsAside
<1>3. CASE TakeTray
  <2>1. op'.pc # "read"
    BY <1>1, <1>3 DEF TakeTray, Op
  <2>2. load' = load \/ load'.pc = "mark"
    BY <1>3 DEF TakeTray, NoLoad
  <2> QED BY <1>3, <2>1, <2>2 DEF TakeTray
<1>4. CASE LoadMark
  <2>1. /\ UNCHANGED <<op, handout>>
        /\ load'.pc = "no" \/ (load'.pc = "echo" /\ load'.moved = FALSE)
    <3>1. \/ load' = [load EXCEPT !.pc = "no"]
          \/ load' = [load EXCEPT !.pc = "echo", !.file = files.home, !.moved = FALSE,
                                  !.tainted = FALSE, !.game = FALSE]
      BY <1>4 DEF LoadMark
    <3> QED BY <1>1, <1>4, <3>1 DEF LoadMark, Load
  <2> QED BY <2>1
<1>5. CASE LoadEcho
  BY <1>1, <1>5 DEF LoadEcho, Load
<1>6. CASE Poll
  BY <1>1, <1>6 DEF Poll, Load
<1>7. CASE LoadTimesOut
  BY <1>1, <1>7 DEF LoadTimesOut, Load
<1>8. CASE LoadAnswers
  <2>1. op'.pc # "read" /\ load'.pc = "idle" /\ UNCHANGED handout
    BY <1>8, Answers DEF LoadAnswers, NoLoad
  <2> QED BY <2>1
<1>9. CASE HandOut
  BY <1>9 DEF HandOut
<1>10. CASE GetReads
  <2>1. /\ op'.pc # "read" /\ handout' = handout /\ handout
        /\ load'.game = load.game /\ load'.pc = load.pc
    BY <1>1, <1>10 DEF GetReads, NoOp, Load
  <2> QED BY <2>1
<1>11. CASE GraceEnds
  BY <1>1, <1>11 DEF GraceEnds
<1>12. CASE Reads
  BY <1>1, <1>12 DEF Reads, Load
<1>13. CASE Lands
  <2>1. UNCHANGED <<load, handout>> /\ op'.pc = op.pc
    BY <1>1, <1>13 DEF Lands, Meddled, Op
  <2> QED BY <2>1
<1>14. CASE Resuming
  <2>1. UNCHANGED <<op, handout>> /\ (load' = load \/ load'.pc \in {"mark", "idle"})
    BY <1>14 DEF Resuming, ResumeBoots, ResumeTakesTray, ResumeWaitsInVain, ResumeFinds,
                 ResumeSettles, ResumeAttempted, ResumeRetries, others, NoLoad
  <2> QED BY <2>1
<1>15. CASE UNCHANGED vars
  BY <1>15 DEF vars
<1> QED BY <1>2, <1>3, <1>4, <1>5, <1>6, <1>7, <1>8, <1>9, <1>10, <1>11, <1>12, <1>13, <1>14,
           <1>15 DEF Next, Loading, Routes, RequestSteps

-----------------------------------------------------------------------------
(* The resume.                                                                *)

\* What was nobody's request stays so.
LEMMA ResumeKeeps ==
  ASSUME ResumeInv, \/ UNCHANGED <<resume, load, made, files>>
                    \/ /\ resume.pc # "load" /\ UNCHANGED resume
                       /\ \A f : NotARequests(f) => NotARequests(f)'
  PROVE  ResumeInv'
BY DEF ResumeInv, NotARequests

LEMMA ResumeNext ==
  ASSUME CoreFacts, ResumeInv, [Next]_vars
  PROVE  ResumeInv'
<1>1. /\ op \in Op /\ load \in Load /\ resume \in Resume /\ TypeInv
      /\ made \in Seq(Origin) /\ Len(made) \in Nat
  BY Lists DEF CoreFacts, CoreInv, TypeInv
<1>2. CASE RequestSteps /\ ~Push
  <2>1. UNCHANGED <<load, resume>> /\ (resume.pc = "load" => UNCHANGED <<files, made>>)
    BY <1>2, RequestsAside
  <2>2. made' = made
    BY <1>2 DEF RequestSteps, Saving, Swapping, Begin, ExitWithoutState, Quit, Dies,
       PlayerPresses, StartsPlaying, TakeTray, TrayTimesOut, Answer, SeesDeath, Settle, HomeSlot,
       SendSave, Saved, SaveTimesOut, Toggle, ToggleMenu, SwapTakesTray, SwapPlaying, CopyAside,
       Probed, ProbeTimesOut, Eject, DiskNext, CloseTray
  <2>3. \A f : NotARequests(f) => NotARequests(f)'
    BY <2>2 DEF NotARequests
  <2> QED BY <2>1, <2>3, ResumeKeeps
<1>3. CASE Push
  <2>1. resume.pc # "load"
    BY <1>3 DEF Push, CoreFacts, CoreInv, TrayInv, OpTray, ResumeTray
  <2>2. /\ Len(made') = Len(made) + 1 /\ \A i \in 1 .. Len(made) : made'[i] = made[i]
    BY <1>1, <1>3, Adds DEF Push, Origin
  <2>3. \A f : NotARequests(f) => NotARequests(f)'
    BY <1>1, <2>2 DEF NotARequests
  <2> QED BY <1>3, <2>1, <2>3, ResumeKeeps DEF Push
<1>4. CASE Lands
  <2>1. /\ Len(made') = Len(made) + 1 /\ \A i \in 1 .. Len(made) : made'[i] = made[i]
        /\ made'[Len(made) + 1] = IF writing[1].age = 0 THEN writing[1].by ELSE "late"
        /\ files'.home \in {files.home, Len(made) + 1}
        /\ 1 \in DOMAIN writing /\ writing[1] \in Write
    BY <1>4, Landing DEF Slot
  <2>2. \A f : NotARequests(f) => NotARequests(f)'
    BY <1>1, <2>1 DEF NotARequests
  <2>3. resume.pc = "load" =>
          Len(made) + 1 \in 1 .. Len(made') /\ made'[Len(made) + 1] \in {"late", "player"}
    <3>1. resume.pc = "load" => op.pc \notin {"home", "send", "wait", "toggle"}
      BY DEF CoreFacts, CoreInv, TrayInv, OpTray, ResumeTray
    <3>2. resume.pc = "load" => writing[1].by \in {"player", "old"}
      BY <2>1, <3>1, NothingOwn DEF Own
    <3>3. writing[1].by = "old" => writing[1].age = 1
      BY <2>1 DEF CoreFacts, OwnInv
    <3>4. resume.pc = "load" => made'[Len(made) + 1] \in {"late", "player"}
      BY <2>1, <3>2, <3>3
    <3>5. Len(made) + 1 \in 1 .. Len(made')
      BY <1>1, <2>1
    <3> QED BY <3>4, <3>5 DEF NotARequests
  <2> QED BY <1>1, <1>4, <2>1, <2>2, <2>3 DEF Lands, ResumeInv, NotARequests
<1>5. CASE LoadMark
  <2>1. UNCHANGED <<resume, files, made>>
    BY <1>5 DEF LoadMark
  <2>2. load'.pc = "no" \/ (load'.pc = "echo" /\ load'.file = files.home)
    <3>1. \/ load' = [load EXCEPT !.pc = "no"]
          \/ load' = [load EXCEPT !.pc = "echo", !.file = files.home, !.moved = FALSE,
                                  !.tainted = FALSE, !.game = FALSE]
      BY <1>5 DEF LoadMark
    <3> QED BY <1>1, <3>1 DEF Load
  <2> QED BY <2>1, <2>2 DEF ResumeInv, NotARequests
<1>6. CASE LoadEcho \/ Poll \/ LoadTimesOut
  <2>1. UNCHANGED <<resume, files, made>>
    BY <1>6 DEF LoadEcho, Poll, LoadTimesOut
  <2>2. /\ load'.file = load.file /\ load.pc \in {"echo", "wait"}
    BY <1>1, <1>6 DEF LoadEcho, Poll, LoadTimesOut, Load
  <2> QED BY <2>1, <2>2 DEF ResumeInv, NotARequests
<1>7. CASE LoadAnswers \/ TakeTray
  <2>1. UNCHANGED <<resume, files, made>>
    BY <1>7 DEF LoadAnswers, TakeTray
  <2>2. resume.pc # "load"
    BY <1>7 DEF LoadAnswers, TakeTray, CoreFacts, CoreInv, TrayInv, OpTray, ResumeTray
  <2>3. \A f : NotARequests(f) => NotARequests(f)'
    BY <2>1 DEF NotARequests
  <2> QED BY <2>1, <2>2, <2>3, ResumeKeeps
<1>8. CASE HandOut \/ GetReads \/ GraceEnds \/ Reads
  <2>1. UNCHANGED <<resume, files, made>>
    BY <1>8 DEF HandOut, GetReads, GraceEnds, Reads
  <2>2. load'.pc = load.pc /\ load'.file = load.file
    BY <1>1, <1>8 DEF HandOut, GetReads, GraceEnds, Reads, Load
  <2> QED BY <2>1, <2>2 DEF ResumeInv, NotARequests
<1>9. CASE Resuming
  <2>1. UNCHANGED <<files, made>>
    BY <1>9 DEF Resuming, ResumeBoots, ResumeTakesTray, ResumeWaitsInVain, ResumeFinds,
                ResumeSettles, ResumeAttempted, ResumeRetries, others
  <2>2. CASE ResumeBoots \/ ResumeWaitsInVain \/ ResumeFinds \/ ResumeRetries
    <3>1. resume'.pc \notin {"load", "done"}
      BY <1>1, <2>2 DEF ResumeBoots, ResumeWaitsInVain, ResumeFinds, ResumeRetries, Resume
    <3> QED BY <3>1 DEF ResumeInv
  <2>3. CASE ResumeTakesTray
    <3>1. /\ resume'.pc # "done"
          /\ resume'.pc = "load" => resume'.ready = files.home /\ load'.pc = "mark"
      BY <1>1, <2>3 DEF ResumeTakesTray, Resume, NoLoad
    <3> QED BY <2>1, <3>1 DEF ResumeInv
  <2>4. CASE ResumeSettles
    <3>1. resume'.pc = "load" /\ resume'.ready = files.home /\ load'.pc = "mark"
      BY <1>1, <2>4 DEF ResumeSettles, Resume, NoLoad
    <3> QED BY <2>1, <3>1 DEF ResumeInv
  <2>5. CASE ResumeAttempted
    <3>1. \/ resume'.pc = "gap"
          \/ /\ resume.pc = "load" /\ load.pc = "yes" /\ resume'.pc = "done"
             /\ resume'.loaded = load.file /\ resume'.ready = resume.ready
      BY <1>1, <2>5 DEF ResumeAttempted, Resume
    <3> QED BY <2>1, <3>1 DEF ResumeInv, NotARequests
  <2> QED BY <1>9, <2>2, <2>3, <2>4, <2>5 DEF Resuming
<1>10. CASE UNCHANGED vars
  BY <1>10, ResumeKeeps DEF vars
<1> QED BY <1>2, <1>3, <1>4, <1>5, <1>6, <1>7, <1>8, <1>9, <1>10
        DEF Next, Loading, Routes, RequestSteps

-----------------------------------------------------------------------------
(* The menu.                                                                  *)

LEMMA MenuKeeps ==
  ASSUME MenuInv, UNCHANGED <<op, files, writing>>, core'.menu = core.menu, core'.up = core.up
  PROVE  MenuInv'
BY DEF MenuInv, Alone, NoOwn, OneOwn, Own

LEMMA MenuOver == ASSUME op'.pc \in {"idle", "flush"} PROVE MenuInv'
BY DEF MenuInv, Alone

\* Before its first save the core has nothing of the request, and it stays at that.
LEMMA MenuEarly ==
  ASSUME CoreFacts, MenuInv, UNCHANGED <<core, writing>>,
         op.pc \in {"lock", "settle", "playing", "copy"},
         op'.stage \in {"first", "probe"}, op'.menu = op.menu, op'.hands = op.hands
  PROVE  MenuInv'
<1>1. op.stage = "first"
  BY FirstStage
<1>2. NoOwn
  BY NothingOwn DEF NoOwn
<1>3. NoOwn' /\ OneOwn'
  BY <1>2 DEF NoOwn, OneOwn, Own
<1> QED BY <1>1, <1>3 DEF MenuInv, Alone

LEMMA SendSaveMenu == ASSUME CoreFacts, MenuInv, SendSave PROVE MenuInv'
<1> DEFINE by == IF op.kind = "swap" THEN "probe" ELSE "save"
<1>1. /\ UNCHANGED <<core, files>> /\ op \in Op /\ op.pc = "send" /\ core.up /\ TypeInv
      /\ op' = [op EXCEPT !.pc = "wait", !.before = files] /\ TakesSave(by)
      /\ DOMAIN writing = 1 .. Len(writing) /\ Len(writing) \in Nat
  BY Lists DEF SendSave, CoreFacts, CoreInv, TypeInv
<1>2. by \in {"save", "probe", "player"}
  OBVIOUS
<1> HIDE DEF by
<1>3. /\ op'.stage = op.stage /\ op'.pc = "wait" /\ op'.menu = op.menu /\ op'.hands = op.hands
      /\ op'.before = files
  BY <1>1 DEF Op
<1>4. \/ core.menu /\ writing' = writing
      \/ /\ ~core.menu /\ DOMAIN writing' = 1 .. Len(writing) + 1
         /\ \A i \in 1 .. Len(writing) : writing'[i] = writing[i]
  BY <1>1, <1>2, Accepts
<1>5. CASE core.menu
  BY <1>1, <1>3, <1>4, <1>5 DEF MenuInv, Alone, NoOwn, OneOwn, Own
<1>6. CASE ~core.menu
  <2>1. NoOwn => OneOwn'
    BY <1>1, <1>4, <1>6 DEF NoOwn, OneOwn, Own
  <2> QED BY <1>1, <1>3, <1>6, <2>1 DEF MenuInv, Alone
<1> QED BY <1>5, <1>6

\* The first wait that runs out keeps what the core accepted.
LEMMA TimesOutMenu ==
  ASSUME CoreFacts, MenuInv, UNCHANGED <<core, files>>, writing' = Aged,
         op.stage \in {"first", "probe"}, op'.menu = op.menu, op'.hands = op.hands,
         op.pc = "wait",
         \/ op'.pc = "toggle" /\ op'.stage = op.stage
         \/ op'.stage = "rehomed"
  PROVE  MenuInv'
<1>1. /\ DOMAIN Aged = DOMAIN writing
      /\ \A i \in DOMAIN writing : Aged[i].by = writing[i].by
  BY Ages DEF CoreFacts, CoreInv
<1>2. OneOwn => OneOwn'
  BY <1>1 DEF OneOwn, Own
<1> QED BY <1>2 DEF MenuInv, Alone

LEMMA ToggleMenuInv == ASSUME CoreFacts, MenuInv, Toggle PROVE MenuInv'
<1>1. /\ UNCHANGED <<files, writing>> /\ op \in Op /\ op.pc = "toggle" /\ core \in Core
      /\ core' = [core EXCEPT !.menu = ~@]
  BY DEF Toggle, CoreFacts, CoreInv, TypeInv
<1>2. op.stage \in {"first", "probe"}
  BY <1>1 DEF CoreFacts, CoreInv, PhaseInv
<1>3. /\ op'.menu = op.menu /\ op'.hands = op.hands
      /\ \/ op'.pc = "send" /\ op'.stage = "again"
         \/ op'.pc = "home" /\ op'.stage = "past"
  BY <1>1 DEF Toggle, Op
<1>4. core'.menu = ~core.menu /\ core'.up = core.up
  BY <1>1 DEF Core
<1>5. OneOwn => OneOwn'
  BY <1>1 DEF OneOwn, Own
<1> QED BY <1>1, <1>2, <1>3, <1>4, <1>5 DEF MenuInv, Alone

LEMMA HomeSlotMenu == ASSUME CoreFacts, MenuInv, HomeSlot PROVE MenuInv'
<1>1. /\ UNCHANGED <<files, writing>> /\ op \in Op /\ op.pc = "home" /\ core \in Core
      /\ op' = [op EXCEPT !.pc = "send"]
  BY DEF HomeSlot, CoreFacts, CoreInv, TypeInv
<1>2. op'.menu = op.menu /\ op'.hands = op.hands /\ op'.pc = "send" /\ op'.stage = op.stage
  BY <1>1 DEF Op
<1>3. core'.menu = core.menu /\ core'.up = core.up
  BY <1>1 DEF HomeSlot, Core
<1>4. (OneOwn => OneOwn') /\ (NoOwn => NoOwn')
  BY <1>1 DEF OneOwn, NoOwn, Own
<1> QED BY <1>1, <1>2, <1>3, <1>4 DEF MenuInv, Alone

\* A save the retry confirms is checked once more.
LEMMA SavedMenu == ASSUME CoreFacts, MenuInv, Saved, op.stage = "past" PROVE MenuInv'
<1>1. /\ UNCHANGED <<core, files, writing>> /\ op \in Op /\ op.pc = "wait"
      /\ op' = [op EXCEPT !.stage = "check", !.pc = "send"] /\ files # op.before
  BY DEF Saved, Confirmed, HomeChanged, CoreFacts, CoreInv, TypeInv
<1>2. op'.menu = op.menu /\ op'.hands = op.hands /\ op'.pc = "send" /\ op'.stage = "check"
  BY <1>1 DEF Op
<1>3. NoOwn => NoOwn'
  BY <1>1 DEF NoOwn, Own
<1> QED BY <1>1, <1>2, <1>3 DEF MenuInv, Alone

LEMMA ProbedMenu == ASSUME CoreFacts, MenuInv, Probed PROVE MenuInv'
<1>1. /\ UNCHANGED core /\ op \in Op /\ op.pc = "wait" /\ op.kind = "swap" /\ files # op.before
      /\ TypeInv
  BY DEF Probed, CoreFacts, CoreInv, TypeInv
<1>2. op.stage \in {"probe", "again", "sure"}
  BY <1>1 DEF CoreFacts, CoreInv, PhaseInv, Op
<1>3. CASE op.stage = "again"
  <2>1. UNCHANGED <<files, writing>> /\ op' = [op EXCEPT !.stage = "sure", !.pc = "send"]
    BY <1>3 DEF Probed
  <2>2. op'.menu = op.menu /\ op'.hands = op.hands /\ op'.pc = "send" /\ op'.stage = "sure"
    BY <1>1, <2>1 DEF Op
  <2>3. NoOwn => NoOwn'
    BY <2>1 DEF NoOwn, Own
  <2> QED BY <1>1, <1>3, <2>2, <2>3 DEF MenuInv, Alone
<1>4. CASE op.stage = "probe"
  <2>1. writing' = Abandoned /\ op' = [op EXCEPT !.pc = "eject"]
    BY <1>4 DEF Probed
  <2>2. op'.menu = op.menu /\ op'.hands = op.hands /\ op'.pc = "eject" /\ op'.stage = "probe"
    BY <1>1, <1>4, <2>1 DEF Op
  <2>3. OneOwn'
    BY <1>1, <2>1, Abandons DEF OneOwn, Own
  <2> QED BY <1>1, <1>4, <2>2, <2>3 DEF MenuInv, Alone
<1>5. CASE op.stage = "sure"
  <2>1. op' = [op EXCEPT !.pc = "eject"]
    BY <1>5 DEF Probed
  <2>2. op'.menu = op.menu /\ op'.hands = op.hands /\ op'.pc = "eject"
    BY <1>1, <2>1 DEF Op
  <2> QED BY <1>1, <1>5, <2>2 DEF MenuInv, Alone
<1> QED BY <1>2, <1>3, <1>4, <1>5

\* While the tray is driven nothing touches the menu.
LEMMA DrivingMenu == ASSUME CoreFacts, MenuInv, Eject \/ DiskNext PROVE MenuInv'
<1>1. /\ UNCHANGED <<files, writing>> /\ op \in Op /\ op.pc \in {"eject", "step"} /\ core \in Core
  BY DEF Eject, DiskNext, CoreFacts, CoreInv, TypeInv
<1>2. core'.menu = core.menu /\ core'.up = core.up
  BY <1>1 DEF Eject, DiskNext, Core
<1>3. /\ op'.menu = op.menu /\ op'.hands = op.hands /\ op'.pc \in {"step", "close"}
      /\ op'.stage = op.stage
  BY <1>1 DEF Eject, DiskNext, Op
<1>4. op.stage \in {"probe", "sure"}
  BY <1>1 DEF CoreFacts, CoreInv, PhaseInv, Op
<1>5. OneOwn => OneOwn'
  BY <1>1 DEF OneOwn, Own
<1> QED BY <1>1, <1>2, <1>3, <1>4, <1>5 DEF MenuInv, Alone

\* The core's only accepted save of the request lands, or one that is nobody's.
LEMMA LandsMenu == ASSUME CoreFacts, MenuInv, Lands PROVE MenuInv'
<1>1. /\ DOMAIN writing' = 1 .. Len(writing) - 1 /\ DOMAIN writing = 1 .. Len(writing)
      /\ \A i \in 1 .. Len(writing) - 1 : writing'[i] = writing[i + 1]
      /\ Len(writing) \in Nat /\ Len(writing) > 0
      /\ Meddled(writing[1].by \in {"player", "old"}, core)
  BY Landing
<1>2. core \in Core
  BY DEF CoreFacts, CoreInv, TypeInv
<1>3. /\ op'.pc = op.pc /\ op'.stage = op.stage /\ op'.before = op.before /\ op'.menu = op.menu
      /\ op'.hands = (op.pc \notin {"idle", "flush"} /\ (~Own(1) \/ op.hands))
      /\ core'.up = core.up /\ core'.menu = core.menu
  <2> DEFINE so == writing[1].by \in {"player", "old"}
  <2>1. so \in BOOLEAN /\ Meddled(so, core) /\ (so <=> ~Own(1))
    BY <1>1 DEF Own
  <2> HIDE DEF so
  <2> QED BY <1>2, <2>1, Meddles
<1>4. Alone' => Alone /\ Own(1)
  BY <1>3 DEF Alone
<1>5. Own(1) => ~NoOwn
  BY <1>1 DEF NoOwn
<1>6. OneOwn /\ Own(1) => NoOwn'
  <2> SUFFICES ASSUME OneOwn, Own(1), NEW i \in DOMAIN writing', Own(i)'
               PROVE  FALSE
    BY DEF NoOwn
  <2>1. i + 1 \in DOMAIN writing /\ 1 \in DOMAIN writing /\ i + 1 # 1 /\ Own(i + 1)
    BY <1>1 DEF Own
  <2> QED BY <2>1 DEF OneOwn
<1>7. NoOwn' => OneOwn'
  BY DEF NoOwn, OneOwn
<1> QED BY <1>3, <1>4, <1>5, <1>6, <1>7 DEF MenuInv

LEMMA PressesMenu == ASSUME CoreFacts, MenuInv, PlayerPresses PROVE MenuInv'
<1>1. files' = files /\ core \in Core /\ op \in Op /\ TypeInv /\ DOMAIN writing = 1 .. Len(writing)
      /\ Len(writing) \in Nat
  BY Presses, Lists DEF CoreFacts, CoreInv, TypeInv
<1>2. CASE Meddled(TRUE, [core EXCEPT !.menu = ~@])
  <2>1. op'.pc = op.pc /\ op'.hands = (op.pc \notin {"idle", "flush"})
    BY <1>1, <1>2 DEF Meddled, Op
  <2> QED BY <2>1 DEF MenuInv, Alone
<1>3. CASE UNCHANGED <<op, writing>> /\ core'.up = core.up /\ core'.menu = core.menu
  BY <1>1, <1>3, MenuKeeps
<1>4. CASE ~core.menu /\ TakesSave("player") /\ UNCHANGED <<core, op>>
  <2>1. /\ DOMAIN writing' = 1 .. Len(writing) + 1
        /\ \A i \in 1 .. Len(writing) : writing'[i] = writing[i]
        /\ writing'[Len(writing) + 1].by = "player"
    BY <1>1, <1>4, Accepts
  <2>2. (OneOwn => OneOwn') /\ (NoOwn => NoOwn')
    BY <1>1, <2>1 DEF OneOwn, NoOwn, Own
  <2> QED BY <1>1, <1>4, <2>2 DEF MenuInv, Alone
<1> QED BY <1>2, <1>3, <1>4, Presses

LEMMA BeginMenu == ASSUME CoreFacts, NEW kind \in Requests, Begin(kind) PROVE MenuInv'
<1>1. /\ UNCHANGED <<core, files, writing>> /\ op = NoOp
      /\ op'.menu = core.menu /\ op'.pc = "lock" /\ op'.stage = "first"
  BY DEF Begin
<1>2. NoOwn
  <2>1. op.pc = "idle"
    BY <1>1 DEF NoOp
  <2> QED BY <2>1, NothingOwn DEF NoOwn
<1>3. OneOwn'
  BY <1>1, <1>2 DEF OneOwn, NoOwn, Own
<1> QED BY <1>1, <1>3 DEF MenuInv, Alone

LEMMA MenuNext ==
  ASSUME CoreFacts, MenuInv, [Next]_vars
  PROVE  MenuInv'
<1>1. op \in Op /\ core \in Core /\ TypeInv
  BY DEF CoreFacts, CoreInv, TypeInv
<1>2. CASE UNCHANGED <<op, files, writing>> /\ core'.menu = core.menu /\ core'.up = core.up
  BY <1>2, MenuKeeps
<1>3. CASE op' \in {NoOp, Flush}
  BY <1>1, <1>3, MenuOver, Ended DEF NoOp
<1>4. CASE Answer(TRUE) \/ Answer(FALSE) \/ SeesDeath \/ LoadAnswers
           \/ (SaveTimesOut /\ op.stage # "first")
  <2>1. \E ok, menu, stray \in BOOLEAN : Answered(ok, menu, stray)
    BY <1>1, <1>4 DEF Answer, SeesDeath, LoadAnswers, SaveTimesOut, TypeInv, Core,
                      CoreFacts, CoreInv, PhaseInv, Op
  <2> QED BY <1>3, <2>1, Answers
<1>5. CASE ToggleMenu \/ CloseTray \/ Push \/ GetReads \/ ExitWithoutState \/ Quit
           \/ (ProbeTimesOut /\ op.stage # "probe")
  BY <1>3, <1>5
     DEF ToggleMenu, CloseTray, Push, GetReads, ExitWithoutState, Quit, Flush, ProbeTimesOut
<1>6. CASE (TakeTray \/ Settle \/ SwapTakesTray \/ SwapPlaying \/ CopyAside \/ HandOut)
           /\ ~Answer(FALSE)
  <2>1. UNCHANGED <<core, writing>> /\ op.pc \in {"lock", "settle", "playing", "copy"}
    BY <1>6 DEF TakeTray, Settle, SwapTakesTray, SwapPlaying, CopyAside, HandOut
  <2>2. op.stage = "first"
    BY <2>1, FirstStage
  <2>3. op'.stage \in {"first", "probe"} /\ op'.menu = op.menu /\ op'.hands = op.hands
    BY <1>1, <1>6, <2>2
       DEF TakeTray, Settle, SwapTakesTray, SwapPlaying, CopyAside, HandOut, Op
  <2> QED BY <2>1, <2>3, MenuEarly
<1>7. CASE SaveTimesOut /\ op.stage = "first"
  <2>1. /\ UNCHANGED <<core, files>> /\ writing' = Aged /\ op.pc = "wait"
        /\ op'.menu = op.menu /\ op'.hands = op.hands
        /\ \/ op'.pc = "toggle" /\ op'.stage = op.stage
           \/ op'.stage = "rehomed"
    BY <1>1, <1>7 DEF SaveTimesOut, Op
  <2> QED BY <1>7, <2>1, TimesOutMenu
<1>8. CASE ProbeTimesOut /\ op.stage = "probe"
  <2>1. /\ UNCHANGED <<core, files>> /\ writing' = Aged /\ op.pc = "wait"
        /\ op'.menu = op.menu /\ op'.hands = op.hands
        /\ op'.pc = "toggle" /\ op'.stage = op.stage
    BY <1>1, <1>8 DEF ProbeTimesOut, Op
  <2> QED BY <1>8, <2>1, TimesOutMenu
<1>9. CASE Dies
  <2>1. /\ core'.up = FALSE /\ core'.menu = FALSE /\ DOMAIN writing' = {} /\ UNCHANGED <<op, files>>
    BY <1>1, <1>9 DEF Dies, Core
  <2> QED BY <2>1 DEF MenuInv, Alone, NoOwn, OneOwn
<1>10. CASE StartsPlaying \/ Reads \/ GraceEnds
  BY <1>1, <1>2, <1>10 DEF StartsPlaying, Reads, GraceEnds, Core
<1>11. CASE LoadMark \/ LoadEcho \/ Poll \/ LoadTimesOut
  BY <1>1, <1>2, <1>11 DEF LoadMark, LoadEcho, Poll, LoadTimesOut, Core
<1>12. CASE Resuming
  BY <1>2, <1>12 DEF Resuming, ResumeBoots, ResumeTakesTray, ResumeWaitsInVain, ResumeFinds,
     ResumeSettles, ResumeAttempted, ResumeRetries, others
<1>13. CASE UNCHANGED vars
  BY <1>2, <1>13 DEF vars
<1>14. CASE Saving
  <2>1. CASE Saved
    BY <1>4, <2>1, SavedMenu DEF Saved
  <2> QED BY <1>4, <1>5, <1>6, <1>7, <1>14, <2>1, HomeSlotMenu, SendSaveMenu, ToggleMenuInv
          DEF Saving, TrayTimesOut
<1>15. CASE Swapping
  BY <1>4, <1>5, <1>6, <1>8, <1>15, ProbedMenu, DrivingMenu DEF Swapping
<1>16. CASE Loading \/ Routes
  BY <1>4, <1>5, <1>6, <1>11, <1>16 DEF Loading, Routes, HandOut, Answer
<1>17. CASE \E kind \in Requests : Begin(kind)
  BY <1>17, BeginMenu
<1> QED BY <1>9, <1>10, <1>12, <1>13, <1>14, <1>15, <1>16, <1>17, LandsMenu, PressesMenu DEF Next

-----------------------------------------------------------------------------
(* The probes of a swap.                                                      *)

\* A step that writes no file, however it moves the copies.
LEMMA ProbeStep ==
  ASSUME ProbeInv, UNCHANGED made,
         \/ Looking /\ Looking' /\ UNCHANGED <<files, aside>>
         \/ ~Looking /\ files' = files /\ aside' \in {aside, files}
         \/ files' = aside /\ aside' = NoFiles,
         \A i \in DOMAIN writing' : writing'[i].by = "probe" => Looking'
  PROVE  ProbeInv'
<1>1. \A x \in Slot : NoFiles[x] = 0
  BY DEF NoFiles, Slot
<1>2. CASE Looking /\ Looking' /\ UNCHANGED <<files, aside>>
  <2>1. \A x \in Slot : aside'[x] # 0 => made'[aside'[x]] # "probe"
    BY <1>2 DEF ProbeInv
  <2>2. ProbesUndone'
    BY <1>2 DEF ProbesUndone, Looking
  <2> QED BY <2>1, <2>2 DEF ProbeInv
<1>3. CASE ~Looking /\ files' = files /\ aside' \in {aside, files}
  <2>1. \A x \in Slot : files[x] # 0 => made[files[x]] # "probe"
    BY <1>3 DEF ProbeInv, ProbesUndone, Looking
  <2>2. \A x \in Slot : aside'[x] # 0 => made'[aside'[x]] # "probe"
    BY <1>3, <2>1 DEF ProbeInv
  <2>3. ProbesUndone'
    BY <1>3, <2>1 DEF ProbesUndone
  <2> QED BY <2>2, <2>3 DEF ProbeInv
<1>4. CASE files' = aside /\ aside' = NoFiles
  <2>1. \A x \in Slot : aside'[x] # 0 => made'[aside'[x]] # "probe"
    BY <1>1, <1>4
  <2>2. ProbesUndone'
    BY <1>4 DEF ProbeInv, ProbesUndone
  <2> QED BY <2>1, <2>2 DEF ProbeInv
<1> QED BY <1>2, <1>3, <1>4

\* Nothing the core goes on writing is a probe.
LEMMA ProbeFree ==
  ASSUME TypeInv, ProbeInv,
         \/ writing' = writing /\ ~Looking
         \/ writing' = Aged /\ ~Looking
         \/ writing' = Abandoned
         \/ writing' = <<>>
  PROVE  \A i \in DOMAIN writing' : writing'[i].by # "probe"
<1>1. /\ DOMAIN Aged = DOMAIN writing
      /\ \A i \in DOMAIN writing : Aged[i].by = writing[i].by
  BY Ages
<1>2. /\ DOMAIN Abandoned = DOMAIN writing
      /\ \A i \in DOMAIN writing : Abandoned[i].by = "old"
  BY Abandons
<1>3. ~Looking => \A i \in DOMAIN writing : writing[i].by # "probe"
  BY DEF ProbeInv
<1>4. CASE writing' = <<>>
  BY <1>4
<1> QED BY <1>1, <1>2, <1>3, <1>4

\* Files written go to the end of the list, and change nothing before.
LEMMA ProbeWrites ==
  ASSUME CoreFacts, ProbeInv, Len(made') = Len(made) + 1, UNCHANGED aside,
         \A i \in 1 .. Len(made) : made'[i] = made[i],
         \A x \in Slot : files'[x] \in {files[x], Len(made) + 1},
         Looking' <=> Looking,
         ~Looking => made'[Len(made) + 1] # "probe",
         \A i \in DOMAIN writing' : writing'[i].by = "probe" => Looking
  PROVE  ProbeInv'
<1>1. /\ Len(made) \in Nat
      /\ \A x \in Slot : files[x] \in 0 .. Len(made) /\ aside[x] \in 0 .. Len(made)
  <2>1. \A x \in Slot : files[x] \in Nat /\ aside[x] \in Nat
    BY DEF CoreFacts, CoreInv, TypeInv, Files
  <2> QED BY <2>1, Lists DEF CoreFacts, CoreInv, NewestInv
<1>2. \A x \in Slot : aside'[x] # 0 => made'[aside'[x]] # "probe"
  BY <1>1 DEF ProbeInv
<1>3. ProbesUndone'
  <2>1. CASE Looking
    BY <2>1 DEF ProbesUndone, Looking
  <2>2. CASE ~Looking
    <3>1. \A x \in Slot : files[x] # 0 => made[files[x]] # "probe"
      BY <2>2 DEF ProbeInv, ProbesUndone, Looking
    <3>2. \A x \in Slot : files'[x] # 0 => made'[files'[x]] # "probe"
      BY <1>1, <2>2, <3>1
    <3> QED BY <3>2 DEF ProbesUndone
  <2> QED BY <2>1, <2>2
<1> QED BY <1>2, <1>3 DEF ProbeInv

LEMMA ProbeNext ==
  ASSUME CoreFacts, ProbeInv, [Next]_vars
  PROVE  ProbeInv'
<1>1. /\ op \in Op /\ TypeInv /\ Len(made) \in Nat /\ Len(writing) \in Nat
      /\ DOMAIN writing = 1 .. Len(writing)
  BY Lists DEF CoreFacts, CoreInv, TypeInv
<1>2. CASE /\ UNCHANGED <<files, made>> /\ aside' \in {aside, files} /\ ~Looking
           /\ writing' \in {writing, Aged, Abandoned, <<>>}
  BY <1>1, <1>2, ProbeFree, ProbeStep
<1>3. CASE UNCHANGED <<op, files, made, aside, writing>>
  <2>1. Looking' = Looking
    BY <1>3 DEF Looking
  <2> QED BY <1>3, <2>1, ProbeStep DEF ProbeInv
<1>4. CASE Answer(FALSE) /\ op.pc \in {"lock", "playing", "copy"}
  BY <1>2, <1>4 DEF Answer, Looking
<1>5. CASE Saving /\ op.kind # "swap" /\ ~SendSave
  BY <1>2, <1>5 DEF Saving, TakeTray, TrayTimesOut, Answer, SeesDeath, Settle, HomeSlot,
     Saved, SaveTimesOut, Toggle, ToggleMenu, Looking
<1>6. CASE SendSave /\ op.kind # "swap"
  <2>1. /\ UNCHANGED <<files, made, aside>> /\ TakesSave("save")
    BY <1>6 DEF SendSave
  <2>2. ~Looking
    BY <1>6 DEF Looking
  <2>3. \/ writing' = writing
        \/ /\ DOMAIN writing' = 1 .. Len(writing) + 1
           /\ \A i \in 1 .. Len(writing) : writing'[i] = writing[i]
           /\ writing'[Len(writing) + 1].by = "save"
    BY <1>1, <2>1, Accepts
  <2>4. \A i \in DOMAIN writing' : writing'[i].by # "probe"
    BY <1>1, <2>2, <2>3 DEF ProbeInv
  <2> QED BY <2>1, <2>2, <2>4, ProbeStep
<1>7. CASE (SendSave \/ Toggle) /\ op.kind = "swap"
  <2>1. /\ UNCHANGED <<files, made, aside>> /\ op.pc \in {"send", "toggle"}
        /\ op'.kind = "swap" /\ op'.pc \in {"send", "wait"}
    BY <1>1, <1>7 DEF SendSave, Toggle, Op
  <2> QED BY <1>7, <2>1, ProbeStep DEF Looking
<1>8. CASE SeesDeath /\ op.kind = "swap"
  <2>1. /\ UNCHANGED <<made, writing>> /\ ~core.up
        /\ \/ Looking /\ files' = aside /\ aside' = NoFiles
           \/ ~Looking /\ UNCHANGED <<files, aside>>
    BY <1>8 DEF SeesDeath, Undo, Looking
  <2>2. writing' = <<>>
    BY <2>1 DEF CoreFacts, OwnInv
  <2>3. \A i \in DOMAIN writing' : writing'[i].by # "probe"
    BY <1>1, <2>2, ProbeFree
  <2> QED BY <2>1, <2>3, ProbeStep
<1>9. CASE Saving
  <2>1. op.kind = "swap" => SendSave \/ Toggle \/ SeesDeath
    BY <1>9 DEF Saving, TakeTray, TrayTimesOut, Settle, HomeSlot, Saved, Confirmed, SaveTimesOut,
                ToggleMenu, CoreFacts, CoreInv, PhaseInv
  <2> QED BY <1>5, <1>6, <1>7, <1>8, <1>9, <2>1
<1>10. CASE \/ (SwapTakesTray \/ SwapPlaying \/ CopyAside) /\ ~Answer(FALSE)
            \/ Eject \/ DiskNext \/ CloseTray
  BY <1>2, <1>10 DEF SwapTakesTray, SwapPlaying, CopyAside, Eject, DiskNext, CloseTray, Looking
<1>11. CASE Probed \/ ProbeTimesOut
  <2>1. /\ Looking /\ made' = made
        /\ \/ UNCHANGED <<files, aside>> /\ writing' \in {writing, Aged} /\ Looking'
           \/ files' = aside /\ aside' = NoFiles /\ writing' = Abandoned
    <3>1. CASE Probed
      BY <1>1, <3>1 DEF Probed, Undo, Looking, Op
    <3>2. CASE ProbeTimesOut
      BY <1>1, <3>2 DEF ProbeTimesOut, Undo, Looking, Op
    <3> QED BY <1>11, <3>1, <3>2
  <2>2. CASE UNCHANGED <<files, aside>> /\ Looking'
    BY <2>1, <2>2, ProbeStep
  <2>3. CASE files' = aside /\ aside' = NoFiles /\ writing' = Abandoned
    <3>1. \A i \in DOMAIN writing' : writing'[i].by # "probe"
      BY <1>1, <2>3, ProbeFree
    <3> QED BY <2>1, <2>3, <3>1, ProbeStep
  <2> QED BY <2>1, <2>2, <2>3
<1>12. CASE Swapping
  BY <1>4, <1>10, <1>11, <1>12 DEF Swapping, SwapTakesTray, SwapPlaying, CopyAside
<1>13. CASE HandOut \/ GetReads \/ ExitWithoutState \/ Quit \/ LoadAnswers
            \/ \E kind \in Requests : Begin(kind)
  <2>1. UNCHANGED <<files, made, aside>> /\ writing' \in {writing, <<>>}
    BY <1>13 DEF HandOut, GetReads, ExitWithoutState, Quit, LoadAnswers, Begin
  <2>2. op.pc \notin {"send", "wait", "toggle"}
    <3>1. NoOp.pc = "idle"
      BY DEF NoOp
    <3> QED BY <1>13, <3>1 DEF HandOut, GetReads, ExitWithoutState, Quit, LoadAnswers, Begin
  <2> QED BY <1>2, <2>1, <2>2 DEF Looking
<1>14. CASE Push
  <2>1. /\ Len(made') = Len(made) + 1 /\ \A i \in 1 .. Len(made) : made'[i] = made[i]
        /\ made'[Len(made) + 1] = "push"
    BY <1>1, <1>14, Adds DEF Push, Origin
  <2>2. /\ \A x \in Slot : files'[x] \in {files[x], Len(made) + 1}
    BY <1>1, <1>14 DEF Push, TypeInv, Files, Slot
  <2>3. ~Looking /\ ~Looking' /\ UNCHANGED <<aside, writing>>
    BY <1>14 DEF Push, Looking, NoOp
  <2>4. \A i \in DOMAIN writing' : writing'[i].by # "probe"
    BY <1>1, <2>3, ProbeFree
  <2> QED BY <2>1, <2>2, <2>3, <2>4, ProbeWrites
<1>15. CASE Lands
  <2>1. /\ Len(made') = Len(made) + 1 /\ \A i \in 1 .. Len(made) : made'[i] = made[i]
        /\ made'[Len(made) + 1] = IF writing[1].age = 0 THEN writing[1].by ELSE "late"
        /\ \A x \in Slot : files'[x] \in {files[x], Len(made) + 1}
        /\ DOMAIN writing' = 1 .. Len(writing) - 1 /\ 1 \in DOMAIN writing
        /\ \A i \in 1 .. Len(writing) - 1 : writing'[i] = writing[i + 1]
    BY <1>15, Landing
  <2>2. Looking' = Looking /\ aside' = aside
    BY <1>1, <1>15 DEF Lands, Meddled, Looking, Op
  <2>3. \A i \in DOMAIN writing' : writing'[i].by = "probe" => Looking
    BY <1>1, <2>1 DEF ProbeInv
  <2>4. ~Looking => made'[Len(made) + 1] # "probe"
    BY <2>1 DEF ProbeInv
  <2> QED BY <2>1, <2>2, <2>3, <2>4, ProbeWrites
<1>16. CASE PlayerPresses
  <2>1. UNCHANGED <<files, made, aside>> /\ Looking' = Looking
    BY <1>1, <1>16, Presses DEF Meddled, Looking, Op
  <2>2. \A i \in DOMAIN writing' : writing'[i].by = "probe" => Looking
    <3>1. CASE writing' = writing
      BY <3>1 DEF ProbeInv
    <3>2. CASE TakesSave("player")
      <4>1. \/ writing' = writing
            \/ /\ DOMAIN writing' = 1 .. Len(writing) + 1
               /\ \A i \in 1 .. Len(writing) : writing'[i] = writing[i]
               /\ writing'[Len(writing) + 1].by = "player"
        BY <1>1, <3>2, Accepts
      <4> QED BY <1>1, <3>1, <4>1 DEF ProbeInv
    <3> QED BY <1>16, <3>1, <3>2, Presses
  <2> QED BY <2>1, <2>2, ProbeStep
<1>17. CASE Dies
  <2>1. UNCHANGED <<op, files, made, aside>> /\ writing' = <<>>
    BY <1>17 DEF Dies
  <2>2. Looking' = Looking
    BY <2>1 DEF Looking
  <2> QED BY <1>1, <2>1, <2>2, ProbeFree, ProbeStep
<1>18. CASE StartsPlaying \/ Reads \/ GraceEnds
  BY <1>3, <1>18 DEF StartsPlaying, Reads, GraceEnds
<1>19. CASE LoadMark \/ LoadEcho \/ Poll \/ LoadTimesOut
  BY <1>3, <1>19 DEF LoadMark, LoadEcho, Poll, LoadTimesOut
<1>20. CASE Resuming
  BY <1>3, <1>20 DEF Resuming, ResumeBoots, ResumeTakesTray, ResumeWaitsInVain, ResumeFinds,
     ResumeSettles, ResumeAttempted, ResumeRetries, others
<1>21. CASE UNCHANGED vars
  BY <1>3, <1>21 DEF vars
<1> QED BY <1>9, <1>12, <1>13, <1>14, <1>15, <1>16, <1>17, <1>18, <1>19, <1>20, <1>21
        DEF Next, Loading, Routes

-----------------------------------------------------------------------------
(* The disc in the tray.                                                      *)

LEMMA Gone == ASSUME ~core'.up \/ core'.drifted PROVE LookInv' /\ DiscInv'
BY DEF LookInv, DiscInv, Steady

\* Away from a swap's own steps the disc and what is known of it stay.
LEMMA Away ==
  ASSUME DiscInv, op'.kind # "swap" \/ op'.stage \notin {"probe", "again", "sure"},
         op.pc \notin {"step", "close"}, op'.pc \notin {"eject", "step", "close"},
         core'.disc = core.disc, core'.open = core.open,
         core'.drifted = core.drifted, core'.up => core.up,
         known'.disc = known.disc
  PROVE  LookInv' /\ DiscInv'
<1>1. LookInv'
  BY DEF LookInv
<1>2. DiscInv'
  BY DEF DiscInv, Steady
<1> QED BY <1>1, <1>2

LEMMA StillSwap ==
  ASSUME LookInv, DiscInv, UNCHANGED <<op, files, writing, known>>,
         core'.disc = core.disc, core'.open = core.open, core'.menu = core.menu,
         core'.drifted = core.drifted, core'.up = core.up
  PROVE  LookInv' /\ DiscInv'
BY DEF LookInv, DiscInv, Steady, NoOwn, OneOwn, Own

LEMMA CopySwap == ASSUME CoreFacts, DiscInv, CopyAside, ~Answer(FALSE) PROVE LookInv' /\ DiscInv'
<1>1. /\ UNCHANGED <<core, files, writing, known>> /\ op \in Op /\ op.pc = "copy"
      /\ op' = [op EXCEPT !.pc = "send", !.stage = "probe"]
  BY DEF CopyAside, CoreFacts, CoreInv, TypeInv
<1>2. op'.pc = "send" /\ op'.stage = "probe"
  BY <1>1 DEF Op
<1>3. NoOwn' /\ OneOwn'
  BY <1>1, NothingOwn DEF NoOwn, OneOwn, Own
<1> QED BY <1>1, <1>2, <1>3 DEF LookInv, DiscInv, Steady

LEMMA SendSwap ==
  ASSUME CoreFacts, LookInv, DiscInv, SendSave, op.kind = "swap"
  PROVE  LookInv' /\ DiscInv'
<1>1. /\ UNCHANGED <<core, files, known>> /\ op \in Op /\ op.pc = "send" /\ TypeInv
      /\ op' = [op EXCEPT !.pc = "wait", !.before = files] /\ TakesSave("probe")
      /\ DOMAIN writing = 1 .. Len(writing) /\ Len(writing) \in Nat
  BY Lists DEF SendSave, CoreFacts, CoreInv, TypeInv
<1>2. op'.pc = "wait" /\ op'.stage = op.stage /\ op'.before = files /\ op'.kind = "swap"
  BY <1>1 DEF Op
<1>3. op.stage \in {"probe", "again", "sure"}
  BY <1>1 DEF CoreFacts, CoreInv, PhaseInv, Op
<1>4. \/ core.menu /\ writing' = writing
      \/ /\ ~core.menu /\ DOMAIN writing' = 1 .. Len(writing) + 1
         /\ \A i \in 1 .. Len(writing) : writing'[i] = writing[i]
  BY <1>1, Accepts
<1>5. (core.menu /\ NoOwn => NoOwn') /\ (core.menu /\ OneOwn => OneOwn')
  BY <1>4 DEF NoOwn, OneOwn, Own
<1>6. NoOwn => OneOwn'
  BY <1>1, <1>4 DEF NoOwn, OneOwn, Own
<1>7. LookInv'
  BY <1>1, <1>2, <1>3, <1>5, <1>6 DEF LookInv, Steady
<1>8. DiscInv'
  BY <1>1, <1>2 DEF DiscInv, Steady
<1> QED BY <1>7, <1>8

LEMMA ToggleSwap ==
  ASSUME CoreFacts, LookInv, DiscInv, Toggle, op.kind = "swap"
  PROVE  LookInv' /\ DiscInv'
<1>1. /\ UNCHANGED <<files, writing, known>> /\ op \in Op /\ op.pc = "toggle" /\ core \in Core
      /\ op' = [op EXCEPT !.pc = "send", !.stage = "again"]
      /\ core' = [core EXCEPT !.menu = ~@]
  BY DEF Toggle, CoreFacts, CoreInv, TypeInv
<1>2. op'.pc = "send" /\ op'.stage = "again"
  BY <1>1 DEF Op
<1>3. op.stage = "probe"
  BY <1>1 DEF CoreFacts, CoreInv, PhaseInv
<1>4. /\ core'.menu = ~core.menu /\ core'.up = core.up /\ core'.drifted = core.drifted
      /\ core'.disc = core.disc /\ core'.open = core.open
  BY <1>1 DEF Core
<1>5. (OneOwn => OneOwn') /\ (NoOwn => NoOwn')
  BY <1>1 DEF OneOwn, NoOwn, Own
<1> QED BY <1>1, <1>2, <1>3, <1>4, <1>5 DEF LookInv, DiscInv, Steady

LEMMA ProbedSwap == ASSUME CoreFacts, LookInv, DiscInv, Probed PROVE LookInv' /\ DiscInv'
<1>1. /\ UNCHANGED <<core, known>> /\ op \in Op /\ op.pc = "wait" /\ op.kind = "swap"
      /\ files # op.before /\ TypeInv
  BY DEF Probed, CoreFacts, CoreInv, TypeInv
<1>2. op.stage \in {"probe", "again", "sure"}
  BY <1>1 DEF CoreFacts, CoreInv, PhaseInv, Op
<1>3. CASE op.stage = "again"
  <2>1. UNCHANGED <<files, writing>> /\ op' = [op EXCEPT !.stage = "sure", !.pc = "send"]
    BY <1>3 DEF Probed
  <2>2. op'.pc = "send" /\ op'.stage = "sure"
    BY <1>1, <2>1 DEF Op
  <2>3. NoOwn => NoOwn'
    BY <2>1 DEF NoOwn, Own
  <2> QED BY <1>1, <1>3, <2>2, <2>3 DEF LookInv, DiscInv, Steady
<1>4. CASE op.stage # "again"
  <2>1. writing' = Abandoned /\ op' = [op EXCEPT !.pc = "eject"]
    BY <1>4 DEF Probed
  <2>2. op'.pc = "eject" /\ op'.stage \in {"probe", "sure"}
    BY <1>1, <1>2, <1>4, <2>1 DEF Op
  <2>3. OneOwn'
    BY <1>1, <2>1, Abandons DEF OneOwn, Own
  <2> QED BY <1>1, <1>2, <1>4, <2>2, <2>3 DEF LookInv, DiscInv, Steady
<1> QED BY <1>3, <1>4

LEMMA TimesOutSwap ==
  ASSUME CoreFacts, LookInv, DiscInv, ProbeTimesOut, op.stage = "probe"
  PROVE  LookInv' /\ DiscInv'
<1>1. /\ UNCHANGED <<core, files, known>> /\ op \in Op /\ op.pc = "wait" /\ op.kind = "swap"
      /\ files = op.before /\ writing' = Aged /\ op' = [op EXCEPT !.pc = "toggle"]
      /\ TypeInv
  BY DEF ProbeTimesOut, CoreFacts, CoreInv, TypeInv
<1>2. op'.pc = "toggle" /\ op'.stage = "probe" /\ op'.kind = "swap"
  BY <1>1 DEF Op
<1>3. /\ DOMAIN Aged = DOMAIN writing
      /\ \A i \in DOMAIN writing : Aged[i].by = writing[i].by
  BY <1>1, Ages
<1>4. (OneOwn => OneOwn') /\ (NoOwn => NoOwn')
  BY <1>1, <1>3 DEF OneOwn, NoOwn, Own
<1> QED BY <1>1, <1>2, <1>4 DEF LookInv, DiscInv, Steady

\* What modulus does to one turn of the tray, and to the steps there are to go.
LEMMA Turns ==
  ASSUME NEW d \in 0 .. Discs - 1, NEW t \in 0 .. Discs - 1
  PROVE  /\ (d + 1) % Discs = IF d + 1 = Discs THEN 0 ELSE d + 1
         /\ d + ((t + Discs - d) % Discs) \in {t, t + Discs}
<1> USE RetroarchAssumption
<1>1. ASSUME NEW n \in 0 .. Discs - 1 PROVE n % Discs = n
  BY <1>1
<1>2. ASSUME NEW n \in 0 .. Discs - 1 PROVE (n + Discs) % Discs = n
  BY <1>2
<1>3. CASE d + 1 = Discs
  BY <1>2, <1>3
<1>4. CASE t < d
  <2>1. t + Discs - d \in 0 .. Discs - 1
    BY <1>4
  <2>2. (t + Discs - d) % Discs = t + Discs - d
    BY <1>1, <2>1
  <2> QED BY <1>1, <1>2, <2>2, <1>3
<1>5. CASE t >= d
  <2>1. t - d \in 0 .. Discs - 1 /\ t + Discs - d = (t - d) + Discs
    BY <1>5
  <2>2. (t + Discs - d) % Discs = t - d
    BY <1>2, <2>1
  <2> QED BY <1>1, <1>2, <2>2, <1>3
<1> QED BY <1>4, <1>5

LEMMA EjectSwap == ASSUME CoreFacts, LookInv, DiscInv, Eject PROVE LookInv' /\ DiscInv'
<1>1. /\ UNCHANGED <<files, writing, known>> /\ op \in Op /\ op.pc = "eject" /\ core.up
      /\ core \in Core /\ known \in Known
      /\ op' = [op EXCEPT !.pc = "step", !.steps = (op.to + Discs - known.disc) % Discs]
  BY DEF Eject, CoreFacts, CoreInv, TypeInv
<1>2. /\ op'.stage = op.stage /\ op'.pc = "step" /\ op'.kind = op.kind /\ op'.to = op.to
      /\ op'.steps = (op.to + Discs - known.disc) % Discs
  BY <1>1 DEF Op
<1>3. /\ core'.disc = core.disc /\ core'.drifted = core.drifted /\ core'.menu = core.menu
      /\ ~core.menu => core'.open
  BY <1>1 DEF Eject, Core
<1>4. known.disc + op'.steps \in {op.to, op.to + Discs}
  BY <1>1, <1>2, Turns DEF Op, Known
<1>5. OneOwn => OneOwn'
  BY <1>1 DEF OneOwn, Own
<1>6. LookInv'
  BY <1>1, <1>2, <1>3, <1>5 DEF LookInv, Steady
<1>7. DiscInv'
  <2>1. Steady' => core.disc = known.disc /\ ~core.menu
    BY <1>1, <1>3 DEF DiscInv, Steady
  <2> QED BY <1>2, <1>3, <1>4, <2>1 DEF DiscInv
<1> QED BY <1>6, <1>7

LEMMA NextSwap == ASSUME CoreFacts, LookInv, DiscInv, DiskNext PROVE LookInv' /\ DiscInv'
<1>1. /\ UNCHANGED <<files, writing, known>> /\ op \in Op /\ op.pc = "step" /\ core.up
      /\ core \in Core /\ known \in Known
  BY DEF DiskNext, CoreFacts, CoreInv, TypeInv
<1>2. /\ op'.stage = op.stage /\ op'.kind = op.kind /\ op'.to = op.to
      /\ op.steps = 0 => op'.pc = "close"
      /\ op.steps # 0 => op'.pc = "step" /\ op'.steps = op.steps - 1
  BY <1>1 DEF DiskNext, Op
<1>3. /\ core'.drifted = core.drifted /\ core'.menu = core.menu /\ core'.open = core.open
      /\ op.steps = 0 => core'.disc = core.disc
      /\ op.steps # 0 /\ ~core.menu /\ core.open => core'.disc = (core.disc + 1) % Discs
  BY <1>1 DEF DiskNext, Core
<1>4. OneOwn => OneOwn'
  BY <1>1 DEF OneOwn, Own
<1>5. LookInv'
  BY <1>1, <1>2, <1>3, <1>4 DEF LookInv, Steady
<1>6. ASSUME Steady PROVE DiscInv'
  <2>1. /\ ~core.menu /\ core.open /\ core.disc + op.steps \in {op.to, op.to + Discs}
    BY <1>1, <1>6 DEF DiscInv
  <2>2. /\ core.disc \in 0 .. Discs - 1 /\ op.to \in 0 .. Discs - 1 /\ op.steps \in 0 .. Discs
    BY <1>1 DEF Core, Op
  <2>3. CASE op.steps = 0
    <3>1. core.disc = op.to
      BY <2>1, <2>2, <2>3, RetroarchAssumption
    <3> QED BY <1>2, <1>3, <2>1, <2>3, <3>1 DEF DiscInv
  <2>4. CASE op.steps # 0
    <3>1. core'.disc = IF core.disc + 1 = Discs THEN 0 ELSE core.disc + 1
      BY <1>3, <2>1, <2>2, <2>4, Turns
    <3>2. core'.disc + (op.steps - 1) \in {op.to, op.to + Discs}
      BY <2>1, <2>2, <2>4, <3>1, RetroarchAssumption
    <3> QED BY <1>2, <1>3, <2>1, <2>4, <3>2 DEF DiscInv
  <2> QED BY <2>3, <2>4
<1>7. ASSUME ~Steady PROVE DiscInv'
  BY <1>1, <1>3, <1>7 DEF DiscInv, Steady
<1> QED BY <1>5, <1>6, <1>7

LEMMA CloseSwap == ASSUME CoreFacts, LookInv, DiscInv, CloseTray PROVE LookInv' /\ DiscInv'
<1>1. /\ op' = NoOp /\ op.pc = "close" /\ core.up /\ core \in Core /\ known \in Known
      /\ known' = [known EXCEPT !.disc = op.to]
      /\ core' = IF core.menu THEN core ELSE [core EXCEPT !.open = ~@]
  BY DEF CloseTray, CoreFacts, CoreInv, TypeInv
<1>2. /\ core'.disc = core.disc /\ core'.drifted = core.drifted /\ known'.disc = op.to
      /\ ~core.menu => core'.open = ~core.open
  BY <1>1 DEF Core, Known
<1>3. op'.kind = "none" /\ op'.pc = "idle"
  BY <1>1 DEF NoOp
<1> QED BY <1>1, <1>2, <1>3 DEF LookInv, DiscInv, Steady

LEMMA LandsSwap == ASSUME CoreFacts, LookInv, DiscInv, Lands PROVE LookInv' /\ DiscInv'
<1>1. /\ DOMAIN writing' = 1 .. Len(writing) - 1 /\ DOMAIN writing = 1 .. Len(writing)
      /\ \A i \in 1 .. Len(writing) - 1 : writing'[i] = writing[i + 1]
      /\ Len(writing) \in Nat /\ Len(writing) > 0
      /\ Meddled(writing[1].by \in {"player", "old"}, core)
  BY Landing
<1>2. core \in Core /\ op \in Op /\ known' = known /\ core.up
  BY DEF Lands, CoreFacts, CoreInv, TypeInv
<1>3. /\ op'.pc = op.pc /\ op'.stage = op.stage /\ op'.before = op.before /\ op'.kind = op.kind
      /\ op'.to = op.to /\ op'.steps = op.steps
      /\ core'.up = core.up /\ core'.menu = core.menu /\ core'.disc = core.disc
      /\ core'.open = core.open
      /\ ~core'.drifted => ~core.drifted /\ (op.kind = "swap" => Own(1))
  BY <1>1, <1>2 DEF Meddled, Op, Core, Own
<1>4. Own(1) => ~NoOwn
  BY <1>1 DEF NoOwn
<1>5. OneOwn /\ Own(1) => NoOwn'
  <2> SUFFICES ASSUME OneOwn, Own(1), NEW i \in DOMAIN writing', Own(i)'
               PROVE  FALSE
    BY DEF NoOwn
  <2>1. i + 1 \in DOMAIN writing /\ 1 \in DOMAIN writing /\ i + 1 # 1 /\ Own(i + 1)
    BY <1>1 DEF Own
  <2> QED BY <2>1 DEF OneOwn
<1>6. NoOwn' => OneOwn'
  BY DEF NoOwn, OneOwn
<1>7. LookInv'
  BY <1>2, <1>3, <1>4, <1>5, <1>6 DEF LookInv, Steady
<1>8. DiscInv'
  BY <1>2, <1>3 DEF DiscInv, Steady
<1> QED BY <1>7, <1>8

LEMMA PressesSwap == ASSUME CoreFacts, LookInv, DiscInv, PlayerPresses PROVE LookInv' /\ DiscInv'
<1>1. /\ UNCHANGED <<files, known>> /\ core \in Core /\ op \in Op /\ TypeInv /\ core.up
      /\ DOMAIN writing = 1 .. Len(writing) /\ Len(writing) \in Nat
  BY Presses, Lists DEF CoreFacts, CoreInv, TypeInv
<1>2. CASE Meddled(TRUE, [core EXCEPT !.menu = ~@])
  <2>1. /\ op'.kind = op.kind /\ op'.pc = op.pc /\ op'.stage = op.stage
        /\ core'.up = core.up /\ core'.disc = core.disc /\ core'.open = core.open
        /\ core'.drifted = (core.drifted \/ op.kind = "swap")
    BY <1>1, <1>2 DEF Meddled, Op, Core
  <2>2. op.kind = "swap" => core'.drifted
    BY <2>1
  <2>3. op.kind # "swap" => op.pc \notin {"eject", "step", "close"}
    BY DEF CoreFacts, CoreInv, PhaseInv
  <2>4. op.kind # "swap" => core'.drifted = core.drifted
    BY <1>1, <2>1 DEF Core
  <2> QED BY <1>1, <2>1, <2>2, <2>3, <2>4, Gone, Away
<1>3. CASE \E s \in Slot : core' = [core EXCEPT !.slot = s] /\ UNCHANGED <<op, writing>>
  <2>1. /\ core'.up = core.up /\ core'.disc = core.disc /\ core'.open = core.open
        /\ core'.drifted = core.drifted /\ core'.menu = core.menu
    BY <1>1, <1>3 DEF Core
  <2> QED BY <1>1, <1>3, <2>1, StillSwap
<1>4. CASE TakesSave("player") /\ UNCHANGED <<core, op>>
  <2>1. \/ writing' = writing
        \/ /\ DOMAIN writing' = 1 .. Len(writing) + 1
           /\ \A i \in 1 .. Len(writing) : writing'[i] = writing[i]
           /\ writing'[Len(writing) + 1].by = "player"
    BY <1>1, <1>4, Accepts
  <2>2. OneOwn => OneOwn'
    BY <1>1, <2>1 DEF OneOwn, Own
  <2>3. NoOwn <=> NoOwn'
    <3>1. CASE writing' = writing
      BY <3>1 DEF NoOwn, Own
    <3>2. CASE writing' # writing
      BY <1>1, <2>1, <3>2 DEF NoOwn, Own
    <3> QED BY <3>1, <3>2
  <2> QED BY <1>1, <1>4, <2>2, <2>3 DEF LookInv, DiscInv, Steady
<1> QED BY <1>2, <1>3, <1>4 DEF PlayerPresses

LEMMA SwapNext ==
  ASSUME CoreFacts, LookInv, DiscInv, [Next]_vars
  PROVE  LookInv' /\ DiscInv'
<1>1. op \in Op /\ core \in Core /\ TypeInv /\ known \in Known
  BY DEF CoreFacts, CoreInv, TypeInv
<1>2. CASE /\ UNCHANGED <<op, files, writing, known>>
           /\ core'.disc = core.disc /\ core'.open = core.open /\ core'.menu = core.menu
           /\ core'.drifted = core.drifted /\ core'.up = core.up
  BY <1>2, StillSwap
<1>3. CASE /\ op' \in {NoOp, Flush} /\ op.pc \notin {"step", "close"} /\ UNCHANGED known
           /\ core'.disc = core.disc /\ core'.open = core.open
           /\ core'.drifted = core.drifted /\ core'.up = core.up
  <2>1. op'.kind # "swap" /\ op'.pc \notin {"eject", "step", "close"}
    BY <1>1, <1>3, Ended DEF NoOp
  <2> QED BY <1>3, <2>1, Away
<1>4. CASE /\ UNCHANGED <<core, known>>
           /\ \E ok, menu, stray : Answered(ok, menu, stray)
           /\ op.pc \notin {"step", "close"}
  BY <1>3, <1>4, Answers
<1>5. CASE Answer(FALSE) /\ op.pc \in {"lock", "playing", "copy"}
  BY <1>4, <1>5 DEF Answer
<1>6. CASE SeesDeath \/ Dies \/ Quit
  <2>1. ~core'.up
    BY <1>1, <1>6 DEF SeesDeath, Dies, Quit, Core
  <2> QED BY <2>1, Gone
<1>7. CASE \/ TakeTray \/ Settle \/ HomeSlot \/ HandOut
           \/ (SwapTakesTray \/ SwapPlaying) /\ ~Answer(FALSE)
  <2>1. /\ core'.disc = core.disc /\ core'.open = core.open
        /\ core'.drifted = core.drifted /\ core'.up = core.up /\ known'.disc = known.disc
    BY <1>1, <1>7
       DEF TakeTray, Settle, HomeSlot, SwapTakesTray, SwapPlaying, HandOut, Core, Known
  <2>2. /\ op.pc \in {"lock", "settle", "home", "playing"} /\ op'.stage = op.stage
        /\ op'.pc \notin {"eject", "step", "close"}
    BY <1>1, <1>7 DEF TakeTray, Settle, HomeSlot, SwapTakesTray, SwapPlaying, HandOut, Op
  <2>3. op.stage \notin {"probe", "again", "sure"}
    BY <2>2 DEF CoreFacts, CoreInv, PhaseInv
  <2> QED BY <2>1, <2>2, <2>3, Away
<1>8. CASE (SendSave \/ Toggle) /\ op.kind # "swap"
  <2>1. /\ core'.disc = core.disc /\ core'.open = core.open
        /\ core'.drifted = core.drifted /\ core'.up = core.up /\ known' = known
    BY <1>1, <1>8 DEF SendSave, Toggle, Core
  <2>2. /\ op.pc \in {"send", "toggle"} /\ op'.kind = op.kind
        /\ op'.pc \notin {"eject", "step", "close"}
    BY <1>1, <1>8 DEF SendSave, Toggle, Op
  <2> QED BY <1>8, <2>1, <2>2, Away
<1>9. CASE Saved
  <2>1. op.pc = "wait" /\ op.kind # "swap" /\ UNCHANGED <<core, known>>
    BY <1>9 DEF Saved, Confirmed, Answer
  <2>2. CASE Answer(TRUE)
    BY <1>4, <2>1, <2>2 DEF Answer
  <2>3. CASE ~Answer(TRUE)
    <3>1. op' = [op EXCEPT !.stage = "check", !.pc = "send"]
      BY <1>9, <2>3 DEF Saved
    <3>2. op'.kind # "swap" /\ op'.pc = "send"
      BY <1>1, <2>1, <3>1 DEF Op
    <3> QED BY <2>1, <3>2, Away
  <2> QED BY <2>2, <2>3
<1>10. CASE SaveTimesOut
  <2>1. /\ op.pc = "wait" /\ op.kind # "swap" /\ known' = known
        /\ core'.disc = core.disc /\ core'.open = core.open
        /\ core'.drifted = core.drifted /\ core'.up = core.up
    <3>1. op.stage \in {"first", "rehomed", "past", "check"}
      BY <1>10 DEF SaveTimesOut, CoreFacts, CoreInv, TypeInv, PhaseInv, Op
    <3>2. core' \in {core, [core EXCEPT !.menu = ~@]}
      BY <1>10, <3>1 DEF SaveTimesOut, ToggleBack
    <3> QED BY <1>1, <1>10, <3>2 DEF SaveTimesOut, Core
  <2>2. CASE op.stage = "first"
    <3>1. op' \in {[op EXCEPT !.pc = "toggle"], [op EXCEPT !.pc = "home", !.stage = "rehomed"]}
      BY <1>10, <2>2 DEF SaveTimesOut
    <3>2. op'.kind # "swap" /\ op'.pc \in {"toggle", "home"}
      BY <1>1, <2>1, <3>1 DEF Op
    <3> QED BY <2>1, <3>2, Away
  <2>3. CASE op.stage # "first"
    <3>1. \E ok, menu, stray : Answered(ok, menu, stray)
      BY <1>10, <2>3 DEF SaveTimesOut, CoreFacts, CoreInv, TypeInv, PhaseInv, Op
    <3>2. op' \in {NoOp, Flush}
      BY <3>1, Answers
    <3> QED BY <1>3, <2>1, <3>2
  <2> QED BY <2>2, <2>3
<1>11. CASE ToggleMenu \/ Push \/ GetReads \/ ExitWithoutState
            \/ (ProbeTimesOut /\ op.stage # "probe")
  <2>1. /\ op' \in {NoOp, Flush} /\ op.pc \notin {"step", "close"} /\ UNCHANGED known
    BY <1>11 DEF ToggleMenu, Push, GetReads, ExitWithoutState, ProbeTimesOut, Flush
  <2>2. /\ core'.disc = core.disc /\ core'.open = core.open
        /\ core'.drifted = core.drifted /\ core'.up = core.up
    BY <1>1, <1>11 DEF ToggleMenu, Push, GetReads, ExitWithoutState, ProbeTimesOut, ToggleBack,
                       Core
  <2> QED BY <1>3, <2>1, <2>2
<1>12. CASE LoadAnswers
  BY <1>4, <1>12 DEF LoadAnswers
<1>13. CASE \E kind \in Requests : Begin(kind)
  <2>1. /\ UNCHANGED <<core, known>> /\ op.pc = "idle" /\ op'.pc = "lock"
        /\ op'.stage = "first"
    BY <1>13 DEF Begin, NoOp
  <2> QED BY <2>1, Away
<1>14. CASE StartsPlaying \/ Reads \/ GraceEnds
  BY <1>1, <1>2, <1>14 DEF StartsPlaying, Reads, GraceEnds, Core
<1>15. CASE LoadMark \/ LoadEcho \/ Poll \/ LoadTimesOut
  BY <1>1, <1>2, <1>15 DEF LoadMark, LoadEcho, Poll, LoadTimesOut, Core
<1>16. CASE Resuming
  BY <1>2, <1>16 DEF Resuming, ResumeBoots, ResumeTakesTray, ResumeWaitsInVain, ResumeFinds,
     ResumeSettles, ResumeAttempted, ResumeRetries, others
<1>17. CASE UNCHANGED vars
  BY <1>2, <1>17 DEF vars
<1>18. CASE Saving
  BY <1>5, <1>6, <1>7, <1>8, <1>9, <1>10, <1>11, <1>18, SendSwap, ToggleSwap
     DEF Saving, TrayTimesOut
<1>19. CASE Swapping
  BY <1>5, <1>7, <1>11, <1>19, CopySwap, ProbedSwap, TimesOutSwap, EjectSwap, NextSwap, CloseSwap
     DEF Swapping, SwapTakesTray, SwapPlaying, CopyAside
<1>20. CASE Loading \/ Routes
  BY <1>6, <1>7, <1>11, <1>12, <1>15, <1>20 DEF Loading, Routes, HandOut, Answer
<1> QED BY <1>6, <1>13, <1>14, <1>16, <1>17, <1>18, <1>19, <1>20, LandsSwap, PressesSwap DEF Next

-----------------------------------------------------------------------------
(* The theorems.                                                              *)

LEMMA InitRetro == Init => RetroInv /\ ReadInv /\ LoadedForReal
<1> SUFFICES ASSUME Init PROVE RetroInv /\ ReadInv /\ LoadedForReal
  OBVIOUS
<1>1. CoreFacts
  BY InitCore
<1>2. SaveInv /\ MenuInv /\ SavedForReal /\ MenuAsFound /\ ReadInv /\ LoadedForReal
  BY DEF Init, SaveInv, MenuInv, Alone, SavedForReal, MenuAsFound, ReadInv, LoadedForReal,
         NoOp, NoLoad, Unsaid
<1>3. ResumeInv
  BY DEF Init, ResumeInv
<1> QED BY <1>1, <1>2, <1>3 DEF RetroInv

LEMMA NextRetro == RetroInv /\ [Next]_vars => RetroInv'
<1> SUFFICES ASSUME RetroInv, [Next]_vars PROVE RetroInv'
  OBVIOUS
<1> QED BY NextCore, SaveNext, ResumeNext, MenuNext, SaysNext DEF RetroInv, Says

LEMMA NextHonest == ASSUME ~SlowEcho PROVE HonestInv /\ [Next]_vars => HonestInv'
<1> SUFFICES ASSUME HonestInv, [Next]_vars PROVE HonestInv'
  OBVIOUS
<1>1. RetroInv'
  BY NextRetro DEF HonestInv
<1>2. ReadInv' /\ (TracksAtime /\ load.pc = "yes" => load.game)'
  BY ReadNext DEF HonestInv, RetroInv
<1>3. (TracksAtime => LoadSaid)'
  <2>1. (TracksAtime /\ load.pc = "yes" => load.game) /\ (TracksAtime => LoadSaid)
    BY DEF HonestInv, LoadedForReal, LoadSaid
  <2> QED BY <2>1, SaysNext DEF HonestInv
<1> QED BY <1>1, <1>2, <1>3 DEF HonestInv, LoadedForReal, LoadSaid

\* The inductive invariant, of every behaviour.
THEOREM RetroSafe == Spec => []RetroInv
<1>1. Init => RetroInv
  BY InitRetro
<1> QED BY <1>1, NextRetro, PTL DEF Spec

\* A save answered with success is on disk.
THEOREM SavedForRealHolds == Spec => []SavedForReal
<1>1. RetroInv => SavedForReal
  BY DEF RetroInv
<1> QED BY <1>1, RetroSafe, PTL

\* A deferred resume loads the state it found ready, or one nobody asked the broker for.
THEOREM ResumeLoadsWhatItFoundHolds == Spec => []ResumeLoadsWhatItFound
<1>1. RetroInv => ResumeLoadsWhatItFound
  BY DEF RetroInv, ResumeInv, NotARequests, ResumeLoadsWhatItFound
<1> QED BY <1>1, RetroSafe, PTL

\* No save and no swap opens a menu on a player who left it alone.
THEOREM MenuAsFoundHolds == Spec => []MenuAsFound
<1>1. RetroInv => MenuAsFound
  BY DEF RetroInv
<1> QED BY <1>1, RetroSafe, PTL

\* As long as an echo comes within the grace of a handout, saves and loads are as answered.
THEOREM AnswersHonestHolds == ASSUME ~SlowEcho PROVE Spec => []AnswersHonest
<1>1. Init => HonestInv
  BY InitRetro DEF HonestInv
<1>2. HonestInv /\ [Next]_vars => HonestInv'
  BY NextHonest
<1>3. HonestInv => AnswersHonest
  BY DEF HonestInv, RetroInv, CoreFacts, CoreInv, TypeInv, AnswersHonest, TypeOK, Core, Files,
         Write, Known, Op, Load, Resume
<1> QED BY <1>1, <1>2, <1>3, PTL DEF Spec

LEMMA InitSwap == Init => CoreFacts /\ SwapInv
<1> SUFFICES ASSUME Init PROVE CoreFacts /\ SwapInv
  OBVIOUS
<1>1. CoreFacts
  BY InitCore
<1>2. /\ op = NoOp /\ writing = <<>> /\ aside = NoFiles
      /\ core.disc = 0 /\ ~core.open /\ known.disc = 0
  BY DEF Init
<1>3. \A x \in Slot : files[x] # 0 => made[files[x]] = "push"
  BY DEF Init, Slot
<1>4. ProbeInv
  BY <1>2, <1>3 DEF ProbeInv, ProbesUndone, Slot, NoFiles
<1>5. LookInv /\ DiscInv
  BY <1>2 DEF LookInv, DiscInv, NoOp
<1> QED BY <1>1, <1>4, <1>5 DEF SwapInv

\* The disc is the one the broker believes in, and the probes that tell cost nothing.
THEOREM SwapsSoundHolds == Spec => []SwapsSound
<1>1. Init => CoreFacts /\ SwapInv
  BY InitSwap
<1>2. (CoreFacts /\ SwapInv) /\ [Next]_vars => (CoreFacts /\ SwapInv)'
  BY NextCore, ProbeNext, SwapNext DEF SwapInv
<1>3. CoreFacts /\ SwapInv => SwapsSound
  BY DEF SwapInv, DiscInv, ProbeInv, SwapsSound, DiscTracked, Driving, Steady
<1> QED BY <1>1, <1>2, <1>3, PTL DEF Spec
=============================================================================
