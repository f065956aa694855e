-------------------------- MODULE StateSlotProofs --------------------------
(* Theorems about StateSlot, for any launchers, games and bounds.           *)
EXTENDS StateSlot, Integers, FiniteSetTheorems, TLAPS

-----------------------------------------------------------------------------
(* The inductive invariant.                                                 *)

File == [n : 0 .. MaxWrites, whole : BOOLEAN]
Name == Game \cup {"none"}
Cmd == [do : {"save", "load"}, by : 0 .. MaxLaunches, file : Name]

\* What a request holds; which state a load looks for does not matter here.
OpInv ==
  /\ op = [kind |-> op.kind, pc |-> op.pc, before |-> op.before, file |-> op.file,
           game |-> op.game, marked |-> op.marked, read |-> op.read,
           stirred |-> op.stirred, loaded |-> op.loaded, died |-> op.died]
  /\ op.kind \in {"none", "save", "exit", "load", "push"}
  /\ op.pc \in {"idle", "wait", "stop"}
  /\ op.before \in [Game -> File]
  /\ op.marked \in BOOLEAN /\ op.read \in BOOLEAN /\ op.stirred \in BOOLEAN
  /\ op.loaded \in BOOLEAN /\ op.died \in BOOLEAN

TypeInv ==
  /\ host \in [kind : Kind, tells : BOOLEAN]
  /\ files \in [Game -> File]
  /\ writing \in [to : Name, there : BOOLEAN]
  /\ stamp \in 0 .. MaxWrites /\ requests \in 0 .. MaxRequests
  /\ emu \in [launch : 0 .. MaxLaunches, game : Name,
              at : {"off", "boot", "game", "dialog"}, todo : Seq(Cmd)]
  /\ failed \subseteq Launches
  /\ OpInv

\* A load a thread asked for waits in the emulator of its own launch.
TodoInv ==
  \A i \in 1 .. Len(emu.todo) :
    emu.todo[i].by # 0 => /\ emu.todo[i].by = emu.launch
                          /\ host.tells => emu.todo[i].file \in {"none", emu.game}

\* While a save is waited for, a new file that is not whole is still written,
\* unless the emulator died over it.
WriteInv ==
  Saving /\ ~op.died =>
    \A g \in Game : Changed(g) /\ ~files[g].whole => HeldOpen(g)

\* An access time moves with a load, or because somebody stirred it.
ReadInv == op.read => op.loaded \/ op.stirred

SlotInv ==
  /\ TypeInv /\ TodoInv /\ WriteInv /\ ReadInv
  /\ ResumesRightly /\ SavedIsWhole /\ LoadedForReal

-----------------------------------------------------------------------------
LEMMA Initially == Init => SlotInv
<1> SUFFICES ASSUME Init PROVE SlotInv
  OBVIOUS
<1> USE StateSlotAssumption DEF Init
<1>1. NoFile \in File
  BY DEF NoFile, File
<1>2. OpInv
  BY <1>1 DEF OpInv, NoOp
<1>3. TypeInv
  BY <1>1, <1>2 DEF TypeInv, NoWrite, NoGame, Name
<1>4. TodoInv
  BY DEF TodoInv, NoGame
<1>5. WriteInv /\ ReadInv
  BY DEF WriteInv, ReadInv, Saving, NoOp
<1>6. ResumesRightly /\ SavedIsWhole /\ LoadedForReal
  BY DEF ResumesRightly, SavedIsWhole, LoadedForReal, Unsaid
<1> QED
  BY <1>3, <1>4, <1>5, <1>6 DEF SlotInv

\* An archive holds one state at most: the one it was asked for.
LEMMA OneState ==
  ASSUME NEW archive \in SUBSET Game, Cardinality(archive) <= 1, NEW g \in archive
  PROVE  archive = {g}
<1>1. IsFiniteSet(archive)
  BY StateSlotAssumption, FS_Subset
<1>2. Cardinality(archive) \in Nat /\ Cardinality(archive) # 0
  BY <1>1, FS_CardinalityType, FS_EmptySet
<1>3. Cardinality(archive) = 1
  BY <1>2
<1> QED
  BY <1>1, <1>3, FS_Singleton

-----------------------------------------------------------------------------
(* What is said to the emulator.                                              *)
Told1(cmd) == emu' = [emu EXCEPT !.todo = Append(emu.todo, cmd)]

LEMMA SayTells ==
  ASSUME TypeInv, NEW cmd \in Cmd, NEW n, NEW sent, Say(cmd, n, sent)
  PROVE  /\ emu' = emu \/ Told1(cmd)
         /\ Hotkeys /\ Told1(cmd) /\ emu' # emu => emu.launch = n
  BY DEF TypeInv, Say, SayByKeys, SayOverPine, OwnWindow, Told1

LEMMA Telling ==
  ASSUME TypeInv, TodoInv, host' = host, NEW cmd \in Cmd,
         cmd.by # 0 => cmd.by = emu.launch /\ cmd.file = "none",
         emu' = emu \/ Told1(cmd)
  PROVE  emu' \in [launch : 0 .. MaxLaunches, game : Name,
                   at : {"off", "boot", "game", "dialog"}, todo : Seq(Cmd)] /\ TodoInv'
<1>1. CASE emu' = emu
  BY <1>1 DEF TypeInv, TodoInv
<1>2. CASE Told1(cmd)
  <2> DEFINE t == Append(emu.todo, cmd)
  <2>1. /\ emu.todo \in Seq(Cmd) /\ t \in Seq(Cmd) /\ Len(t) = Len(emu.todo) + 1
        /\ \A i \in 1 .. Len(emu.todo) : t[i] = emu.todo[i]
        /\ t[Len(emu.todo) + 1] = cmd
    BY DEF TypeInv
  <2>2. emu' = [emu EXCEPT !.todo = t]
    BY <1>2 DEF Told1
  <2> HIDE DEF t
  <2>3. /\ emu'.todo = t /\ emu'.launch = emu.launch /\ emu'.game = emu.game
        /\ emu' \in [launch : 0 .. MaxLaunches, game : Name,
                     at : {"off", "boot", "game", "dialog"}, todo : Seq(Cmd)]
    BY <2>1, <2>2 DEF TypeInv
  <2>4. ASSUME NEW i \in 1 .. Len(t), t[i].by # 0
        PROVE  t[i].by = emu.launch /\ (host.tells => t[i].file \in {"none", emu.game})
    <3>1. CASE i = Len(emu.todo) + 1
      BY <2>1, <2>4, <3>1
    <3>2. CASE i \in 1 .. Len(emu.todo)
      BY <2>1, <2>4, <3>2 DEF TodoInv
    <3> QED
      BY <2>1, <3>1, <3>2
  <2> QED
    BY <2>3, <2>4 DEF TodoInv
<1> QED
  BY <1>1, <1>2

\* Doing what stands first leaves the rest.
LEMMA Doing ==
  ASSUME TypeInv, TodoInv, host' = host, NEW do, Told(do)
  PROVE  /\ emu' \in [launch : 0 .. MaxLaunches, game : Name,
                      at : {"off", "boot", "game", "dialog"}, todo : Seq(Cmd)]
         /\ TodoInv' /\ UNCHANGED <<emu.launch, emu.game, emu.at>>
         /\ Head(emu.todo) = emu.todo[1] /\ Len(emu.todo) > 0
<1> DEFINE t == Tail(emu.todo)
<1>1. emu.todo \in Seq(Cmd) /\ emu.todo # <<>>
  BY DEF TypeInv, Told
<1>2. /\ t \in Seq(Cmd) /\ Len(t) = Len(emu.todo) - 1 /\ Len(emu.todo) \in Nat
      /\ \A i \in 1 .. Len(t) : t[i] = emu.todo[i + 1]
      /\ Head(emu.todo) = emu.todo[1] /\ Len(emu.todo) > 0
  BY <1>1
<1>3. emu' = [emu EXCEPT !.todo = t]
  BY DEF Told
<1> HIDE DEF t
<1>4. /\ emu'.todo = t /\ UNCHANGED <<emu.launch, emu.game, emu.at>>
      /\ emu' \in [launch : 0 .. MaxLaunches, game : Name,
                   at : {"off", "boot", "game", "dialog"}, todo : Seq(Cmd)]
  BY <1>2, <1>3 DEF TypeInv
<1>5. TodoInv'
  <2> SUFFICES ASSUME NEW i \in 1 .. Len(t), t[i].by # 0
               PROVE  /\ t[i].by = emu.launch
                      /\ host.tells => t[i].file \in {"none", emu.game}
    BY <1>4 DEF TodoInv
  <2>1. i + 1 \in 1 .. Len(emu.todo)
    BY <1>2
  <2> QED
    BY <1>2, <2>1 DEF TodoInv
<1> QED
  BY <1>2, <1>4, <1>5

-----------------------------------------------------------------------------
(* The emulator's steps.                                                      *)
LEMMA EmulatorStep ==
  ASSUME SlotInv, Boots \/ Hangs \/ Dies
  PROVE  SlotInv'
<1>0. /\ TypeInv /\ TodoInv /\ WriteInv /\ ReadInv
      /\ ResumesRightly /\ SavedIsWhole /\ LoadedForReal
  BY DEF SlotInv
<1>1. CASE Boots \/ Hangs
  <2>1. /\ \/ emu' = [emu EXCEPT !.at = "game"]
           \/ emu' = [emu EXCEPT !.at = "dialog"]
        /\ emu.at = "boot"
        /\ UNCHANGED <<host, files, writing, stamp, op, said, failed, resumed, requests>>
    BY <1>1 DEF Boots, Hangs
  <2>2. /\ emu' \in [launch : 0 .. MaxLaunches, game : Name,
                     at : {"off", "boot", "game", "dialog"}, todo : Seq(Cmd)]
        /\ UNCHANGED <<emu.launch, emu.game, emu.todo>> /\ emu'.at # "off"
    BY <1>0, <2>1 DEF TypeInv
  <2>3. TypeInv'
    BY <1>0, <2>1, <2>2 DEF TypeInv, OpInv
  <2>4. TodoInv'
    BY <1>0, <2>1, <2>2 DEF TodoInv
  <2>5. WriteInv'
    BY <1>0, <2>1, <2>2 DEF WriteInv, Saving, Changed, HeldOpen, Beside, Up
  <2> QED
    BY <1>0, <2>1, <2>3, <2>4, <2>5
    DEF SlotInv, ReadInv, ResumesRightly, SavedIsWhole, LoadedForReal, CanTell
<1>2. CASE Dies
  <2>1. /\ emu' = [emu EXCEPT !.at = "off", !.todo = <<>>]
        /\ op' = IF Idle THEN op ELSE [op EXCEPT !.died = TRUE]
        /\ writing' \in {writing, NoWrite}
        /\ UNCHANGED <<host, files, stamp, said, failed, resumed, requests>>
    BY <1>2 DEF Dies, CutShort
  <2>2. /\ emu' \in [launch : 0 .. MaxLaunches, game : Name,
                     at : {"off", "boot", "game", "dialog"}, todo : Seq(Cmd)]
        /\ emu'.todo = <<>>
    <3> DEFINE none == <<>>
    <3>1. none \in Seq(Cmd)
      OBVIOUS
    <3>2. emu' = [emu EXCEPT !.at = "off", !.todo = none]
      BY <2>1
    <3> HIDE DEF none
    <3>3. emu' \in [launch : 0 .. MaxLaunches, game : Name,
                    at : {"off", "boot", "game", "dialog"}, todo : Seq(Cmd)]
          /\ emu'.todo = none
      BY <1>0, <3>1, <3>2 DEF TypeInv
    <3> QED
      BY <3>3 DEF none
  <2>3. OpInv' /\ op.pc = op'.pc /\ UNCHANGED <<op.read, op.stirred, op.loaded>>
        /\ (op'.pc = "idle" \/ op'.died)
    BY <1>0, <2>1 DEF TypeInv, OpInv, Idle
  <2>4. TypeInv'
    <3>1. writing' \in [to : Name, there : BOOLEAN]
      <4>1. NoWrite \in [to : Name, there : BOOLEAN]
        BY DEF NoWrite, Name
      <4> QED
        BY <1>0, <2>1, <4>1 DEF TypeInv
    <3> QED
      BY <1>0, <2>1, <2>2, <2>3, <3>1 DEF TypeInv
  <2>5. TodoInv'
    BY <2>2 DEF TodoInv
  <2>6. WriteInv'
    BY <2>3 DEF WriteInv, Saving
  <2> QED
    BY <1>0, <2>1, <2>3, <2>4, <2>5, <2>6
    DEF SlotInv, ReadInv, ResumesRightly, SavedIsWhole, LoadedForReal, CanTell
<1> QED
  BY <1>1, <1>2

LEMMA Stirring ==
  ASSUME OpInv, ReadInv, NEW state, Stirs(state)
  PROVE  OpInv' /\ ReadInv' /\ UNCHANGED <<op.kind, op.pc, op.before, op.died>>
<1>1. CASE op' = op
  BY <1>1 DEF OpInv, ReadInv
<1>2. CASE op' = [op EXCEPT !.read = TRUE, !.stirred = TRUE]
  BY <1>2 DEF OpInv, ReadInv
<1> QED
  BY <1>1, <1>2 DEF Stirs

LEMMA WritingStep ==
  ASSUME SlotInv, StartsWriting \/ FinishesWriting
  PROVE  SlotInv'
<1> USE StateSlotAssumption
<1>0. /\ TypeInv /\ TodoInv /\ WriteInv /\ ReadInv
      /\ ResumesRightly /\ SavedIsWhole /\ LoadedForReal
  BY DEF SlotInv
<1>1. CASE StartsWriting
  <2>1. /\ Told("save") /\ writing = NoWrite /\ writing' = [to |-> emu.game, there |-> TRUE]
        /\ Up
        /\ UNCHANGED <<host, op, said, failed, resumed, requests>>
    BY <1>1 DEF StartsWriting, Told, Running, Up
  <2>2. /\ emu' \in [launch : 0 .. MaxLaunches, game : Name,
                     at : {"off", "boot", "game", "dialog"}, todo : Seq(Cmd)]
        /\ TodoInv' /\ UNCHANGED <<emu.launch, emu.game, emu.at>>
    BY <1>0, <2>1, Doing
  <2>3. \/ Beside /\ UNCHANGED <<files, stamp>>
        \/ /\ ~Beside
           /\ stamp < MaxWrites /\ stamp' = stamp + 1
           /\ files' = [files EXCEPT ![emu.game] = [n |-> stamp + 1, whole |-> FALSE]]
    BY <1>1 DEF StartsWriting
  <2>4. stamp' \in 0 .. MaxWrites
    BY <1>0, <2>3 DEF TypeInv
  <2>5. files' \in [Game -> File]
    <3>1. CASE UNCHANGED files
      BY <1>0, <3>1 DEF TypeInv
    <3>2. CASE stamp < MaxWrites /\ files' =
                 [files EXCEPT ![emu.game] = [n |-> stamp + 1, whole |-> FALSE]]
      <4>1. [n |-> stamp + 1, whole |-> FALSE] \in File
        BY <1>0, <3>2 DEF TypeInv, File
      <4> QED
        BY <1>0, <3>2, <4>1 DEF TypeInv
    <3> QED
      BY <2>3, <3>1, <3>2
  <2>6. TypeInv'
    BY <1>0, <2>1, <2>2, <2>4, <2>5 DEF TypeInv, OpInv
  <2>7. WriteInv'
    <3> SUFFICES ASSUME Saving, ~op.died, NEW g \in Game, Changed(g)', ~files'[g].whole
                 PROVE  HeldOpen(g)'
      BY <2>1 DEF WriteInv, Saving
    <3>1. CASE files'[g] = files[g]
      <4>1. Changed(g) /\ ~files[g].whole
        BY <2>1, <3>1 DEF Changed
      <4> QED
        BY <1>0, <2>1, <4>1 DEF WriteInv, HeldOpen, Beside, NoWrite
    <3>2. CASE files'[g] # files[g]
      <4>1. g = emu.game /\ ~Beside
        BY <1>0, <2>3, <3>2 DEF TypeInv
      <4> QED
        BY <2>1, <2>2, <4>1 DEF HeldOpen, Beside, Up
    <3> QED
      BY <3>1, <3>2
  <2> QED
    BY <1>0, <2>1, <2>2, <2>6, <2>7
    DEF SlotInv, ReadInv, ResumesRightly, SavedIsWhole, LoadedForReal, CanTell
<1>2. CASE FinishesWriting
  <2>1. /\ writing' = NoWrite /\ Up
        /\ UNCHANGED <<host, emu, said, failed, resumed, requests>>
        /\ Stirs(writing.to) \/ UNCHANGED op
    BY <1>2 DEF FinishesWriting
  <2>10. OpInv' /\ ReadInv' /\ UNCHANGED <<op.kind, op.pc, op.before, op.died>>
    <3>1. CASE UNCHANGED op
      BY <1>0, <3>1 DEF TypeInv, OpInv, ReadInv
    <3>2. CASE Stirs(writing.to)
      BY <1>0, <3>2, Stirring DEF TypeInv
    <3> QED
      BY <2>1, <3>1, <3>2
  <2>2. \/ /\ Beside /\ stamp < MaxWrites /\ stamp' = stamp + 1
           /\ files' = [files EXCEPT ![writing.to] = [n |-> stamp + 1, whole |-> TRUE]]
        \/ /\ ~Beside /\ writing.there /\ stamp' = stamp
           /\ files' = [files EXCEPT ![writing.to].whole = TRUE]
        \/ /\ ~Beside /\ ~writing.there
           /\ UNCHANGED <<files, stamp>>
    BY <1>2 DEF FinishesWriting
  <2>3. stamp' \in 0 .. MaxWrites
    BY <1>0, <2>2 DEF TypeInv
  <2>4. files' \in [Game -> File]
    <3>1. CASE stamp < MaxWrites /\ files' =
                 [files EXCEPT ![writing.to] = [n |-> stamp + 1, whole |-> TRUE]]
      <4>1. [n |-> stamp + 1, whole |-> TRUE] \in File
        BY <1>0, <3>1 DEF TypeInv, File
      <4> QED
        BY <1>0, <3>1, <4>1 DEF TypeInv
    <3>2. CASE files' = [files EXCEPT ![writing.to].whole = TRUE]
      BY <1>0, <3>2 DEF TypeInv, File
    <3>3. CASE UNCHANGED files
      BY <1>0, <3>3 DEF TypeInv
    <3> QED
      BY <2>2, <3>1, <3>2, <3>3
  <2>5. TypeInv'
    BY <1>0, <2>1, <2>3, <2>4, <2>10 DEF TypeInv, NoWrite, Name
  <2>6. \A g \in Game : files'[g] = files[g] \/ files'[g].whole
    BY <1>0, <2>2 DEF TypeInv, File
  <2>7. WriteInv'
    <3> SUFFICES ASSUME Saving, ~op.died, NEW g \in Game, Changed(g)', ~files'[g].whole
                 PROVE  FALSE
      BY <2>10 DEF WriteInv, Saving
    <3>1. files'[g] = files[g] /\ Changed(g) /\ ~files[g].whole
      BY <2>10, <2>6 DEF Changed
    <3>2. HeldOpen(g)
      BY <1>0, <3>1 DEF WriteInv
    <3>3. files'[g].whole
      BY <1>0, <2>2, <3>2 DEF HeldOpen, Beside, TypeInv, File
    <3> QED
      BY <3>3
  <2> QED
    BY <1>0, <2>1, <2>5, <2>7, <2>10
    DEF SlotInv, TodoInv, ResumesRightly, SavedIsWhole, LoadedForReal, CanTell
<1> QED
  BY <1>1, <1>2

LEMMA LoadsStep ==
  ASSUME SlotInv, Loads
  PROVE  SlotInv'
<1>0. /\ TypeInv /\ TodoInv /\ WriteInv /\ ReadInv
      /\ ResumesRightly /\ SavedIsWhole /\ LoadedForReal
  BY DEF SlotInv
<1> DEFINE cmd == Head(emu.todo)
           state == IF cmd.file = "none" THEN emu.game ELSE cmd.file
<1>1. /\ Told("load")
      /\ UNCHANGED <<host, files, writing, stamp, said, failed, requests>>
  BY DEF Loads
<1>2. /\ emu' \in [launch : 0 .. MaxLaunches, game : Name,
                   at : {"off", "boot", "game", "dialog"}, todo : Seq(Cmd)]
      /\ TodoInv' /\ UNCHANGED <<emu.launch, emu.game, emu.at>>
      /\ cmd = emu.todo[1] /\ 1 \in 1 .. Len(emu.todo)
  <2>1. Len(emu.todo) \in Nat
    BY <1>0 DEF TypeInv
  <2> QED
    BY <1>0, <1>1, <2>1, Doing
<1>3. \/ UNCHANGED <<resumed, op>>
      \/ /\ resumed' = IF cmd.by = 0 THEN resumed
                       ELSE [own |-> cmd.by = emu.launch, fits |-> state = emu.game]
         /\ op' = IF op.kind # "load" THEN op
                  ELSE [op EXCEPT !.loaded = TRUE, !.read = op.read \/ state = op.game]
  BY DEF Loads
<1>4. cmd.by # 0 => cmd.by = emu.launch /\ (host.tells => state = emu.game)
  BY <1>0, <1>2 DEF TodoInv
<1> HIDE DEF cmd, state
<1>5. ResumesRightly'
  <2>1. CASE resumed' = resumed
    BY <1>0, <1>1, <2>1 DEF ResumesRightly
  <2>2. CASE /\ cmd.by # 0
             /\ resumed' = [own |-> cmd.by = emu.launch, fits |-> state = emu.game]
    <3>1. resumed'.own = (cmd.by = emu.launch) /\ resumed'.fits = (state = emu.game)
      BY <2>2
    <3> QED
      BY <1>1, <1>4, <2>2, <3>1 DEF ResumesRightly
  <2> QED
    BY <1>3, <2>1, <2>2
<1>6. OpInv' /\ ReadInv' /\ UNCHANGED <<op.kind, op.pc, op.before, op.died>>
  BY <1>0, <1>3 DEF TypeInv, OpInv, ReadInv
<1>7. TypeInv'
  BY <1>0, <1>1, <1>2, <1>6 DEF TypeInv
<1>8. WriteInv'
  BY <1>0, <1>1, <1>2, <1>6 DEF WriteInv, Saving, Changed, HeldOpen, Beside, Up
<1> QED
  BY <1>0, <1>1, <1>2, <1>5, <1>6, <1>7, <1>8 DEF SlotInv, SavedIsWhole, LoadedForReal, CanTell

LEMMA LaunchStep ==
  ASSUME SlotInv, Launch
  PROVE  SlotInv'
<1> USE StateSlotAssumption
<1>0. /\ TypeInv /\ ReadInv /\ ResumesRightly
  BY DEF SlotInv
<1>1. PICK n \in Launches, asked \in BOOLEAN,
           archive \in {s \in SUBSET Game : Cardinality(s) <= 1} :
        /\ stamp' = Cardinality(archive) /\ files' = Restored(archive)
        /\ emu' = [launch |-> n, game |-> Rom[n], at |-> "boot",
                   todo |-> IF asked /\ AtBoot(archive, Rom[n]) # {}
                              THEN <<Command("load", n, CHOOSE g \in archive : TRUE)>>
                              ELSE <<>>]
  BY DEF Launch
<1>2. /\ op.pc = "idle" /\ writing' = NoWrite /\ said' = Unsaid
      /\ UNCHANGED <<host, op, failed, resumed, requests>>
  BY DEF Launch, Idle
<1>3. stamp' \in 0 .. MaxWrites
  <2>1. IsFiniteSet(archive)
    BY FS_Subset
  <2> QED
    BY <1>1, <2>1, FS_CardinalityType
<1>4. files' \in [Game -> File]
  BY <1>1 DEF Restored, File, NoFile
<1>5. Rom[n] \in Game /\ n \in 0 .. MaxLaunches /\ n # 0
  BY DEF Launches
<1> DEFINE todo == emu'.todo
<1>6. emu'.launch = n /\ emu'.game = Rom[n] /\ emu'.at = "boot"
      /\ emu' = [launch |-> n, game |-> Rom[n], at |-> "boot", todo |-> todo]
  BY <1>1
<1>7. /\ todo \in Seq(Cmd)
      /\ \A i \in 1 .. Len(todo) :
           todo[i].by # 0 => todo[i].by = n /\ (host.tells => todo[i].file = Rom[n])
  <2>1. CASE asked /\ AtBoot(archive, Rom[n]) # {}
    <3>1. archive # {} /\ (host.tells => Rom[n] \in archive)
      BY <2>1 DEF AtBoot, SaveSlot, StateAsTarget, ByName
    <3> DEFINE g == CHOOSE g \in archive : TRUE
    <3>2. g \in archive /\ g \in Game
      BY <3>1
    <3>3. host.tells => g = Rom[n]
      BY <3>1, OneState
    <3> HIDE DEF g
    <3>4. Command("load", n, g) \in Cmd /\ Command("load", n, g).by = n
          /\ Command("load", n, g).file = g
      BY <1>5, <3>2 DEF Command, Cmd, Name
    <3>5. todo = <<Command("load", n, g)>>
      BY <1>1, <2>1 DEF g
    <3> QED
      BY <3>3, <3>4, <3>5
  <2>2. CASE ~(asked /\ AtBoot(archive, Rom[n]) # {})
    <3>1. todo = <<>>
      BY <1>1, <2>2
    <3> QED
      BY <3>1
  <2> QED
    BY <2>1, <2>2
<1> HIDE DEF todo
<1>8. emu' \in [launch : 0 .. MaxLaunches, game : Name,
                at : {"off", "boot", "game", "dialog"}, todo : Seq(Cmd)]
  BY <1>5, <1>6, <1>7 DEF Name
<1>9. TodoInv'
  BY <1>2, <1>6, <1>7 DEF TodoInv, todo
<1>10. TypeInv'
  <2>1. writing' \in [to : Name, there : BOOLEAN]
    BY <1>2 DEF NoWrite, Name
  <2> QED
    BY <1>0, <1>2, <1>3, <1>4, <1>8, <2>1 DEF TypeInv, OpInv
<1>11. WriteInv'
  BY <1>2 DEF WriteInv, Saving
<1> QED
  BY <1>0, <1>2, <1>9, <1>10, <1>11
  DEF SlotInv, ReadInv, ResumesRightly, SavedIsWhole, LoadedForReal, Unsaid

-----------------------------------------------------------------------------
(* The requests: none has read or loaded anything when it begins.             *)
Request(kind, pc, before, file, game, marked) ==
  [kind |-> kind, pc |-> pc, before |-> before, file |-> file, game |-> game,
   marked |-> marked, read |-> FALSE, stirred |-> FALSE, loaded |-> FALSE, died |-> FALSE]

Never == [g \in Game |-> NoFile]

LEMMA NoRequest ==
  Never \in [Game -> File] /\ NoOp = Request("none", "idle", Never, NoFile, "none", FALSE)
  BY StateSlotAssumption DEF NoFile, File, Never, NoOp, Request

LEMMA Begun ==
  ASSUME NEW kind \in {"none", "save", "exit", "load", "push"},
         NEW pc \in {"idle", "wait", "stop"}, NEW before \in [Game -> File],
         NEW file, NEW game, NEW marked \in BOOLEAN,
         op' = Request(kind, pc, before, file, game, marked)
  PROVE  /\ OpInv' /\ ~op'.read
         /\ op'.kind = kind /\ op'.pc = pc /\ op'.before = before
<1>1. /\ op'.kind = kind /\ op'.pc = pc /\ op'.before = before /\ op'.file = file
      /\ op'.game = game /\ op'.marked = marked /\ op'.read = FALSE /\ op'.stirred = FALSE
      /\ op'.loaded = FALSE /\ op'.died = FALSE
  BY DEF Request
<1> QED
  BY <1>1 DEF OpInv, Request

LEMMA BegunOver ==
  ASSUME NEW kind \in {"none", "save", "exit"},
         op' = NoOp \/ op' = [NoOp EXCEPT !.kind = kind, !.pc = "stop"]
  PROVE  OpInv' /\ ~op'.read /\ op'.pc # "wait"
<1>1. CASE op' = NoOp
  BY <1>1, NoRequest, Begun
<1>2. CASE op' = [NoOp EXCEPT !.kind = kind, !.pc = "stop"]
  <2>1. op' = Request(kind, "stop", Never, NoFile, "none", FALSE)
    BY <1>2, NoRequest DEF Request
  <2> QED
    BY <2>1, NoRequest, Begun
<1> QED
  BY <1>1, <1>2

LEMMA BegunSave ==
  ASSUME NEW kind \in {"save", "exit"}, NEW before \in [Game -> File],
         op' = [NoOp EXCEPT !.kind = kind, !.pc = "wait", !.before = before]
  PROVE  OpInv' /\ ~op'.read /\ op'.before = before
<1>1. op' = Request(kind, "wait", before, NoFile, "none", FALSE)
  BY NoRequest DEF Request
<1>2. FALSE \in BOOLEAN
  OBVIOUS
<1> QED
  BY <1>1, <1>2, Begun

LEMMA BegunOther ==
  ASSUME NEW kind \in {"load", "push"}, NEW file, NEW game, NEW marked \in BOOLEAN,
         \/ op' = [NoOp EXCEPT !.kind = kind, !.pc = "wait", !.game = game]
         \/ op' = [NoOp EXCEPT !.kind = kind, !.pc = "wait", !.marked = marked,
                               !.file = file, !.game = game]
  PROVE  OpInv' /\ ~op'.read /\ ~Saving'
<1>1. CASE op' = [NoOp EXCEPT !.kind = kind, !.pc = "wait", !.game = game]
  <2>1. op' = Request(kind, "wait", Never, NoFile, game, FALSE)
    BY <1>1, NoRequest DEF Request
  <2> QED
    BY <2>1, NoRequest, Begun DEF Saving
<1>2. CASE op' = [NoOp EXCEPT !.kind = kind, !.pc = "wait", !.marked = marked,
                              !.file = file, !.game = game]
  <2>1. op' = Request(kind, "wait", Never, file, game, marked)
    BY <1>2, NoRequest DEF Request
  <2> QED
    BY <2>1, NoRequest, Begun DEF Saving
<1> QED
  BY <1>1, <1>2

LEMMA SaveStep ==
  ASSUME SlotInv, SaveState \/ Exit
  PROVE  SlotInv'
<1>0. /\ TypeInv /\ TodoInv /\ WriteInv /\ ReadInv
      /\ ResumesRightly /\ SavedIsWhole /\ LoadedForReal
  BY DEF SlotInv
<1>1. /\ UNCHANGED <<host, files, writing, stamp, failed, resumed>>
      /\ requests' \in 0 .. MaxRequests
  BY <1>0, StateSlotAssumption DEF SaveState, Exit, ExitSave, Asked, TypeInv
<1>2. \/ \E kind \in {"save", "exit"} : SendSave(kind)
      \/ Over("exit") /\ said' = Unsaid /\ UNCHANGED emu
  BY DEF SaveState, Exit, ExitSave
<1>3. \/ said' = Unsaid
      \/ said' = [kind |-> "save", ok |-> FALSE, real |-> TRUE]
  BY <1>2 DEF SendSave, Answer
<1>4. \E kind \in {"save", "exit"} :
        \/ op' = [NoOp EXCEPT !.kind = kind, !.pc = "wait", !.before = files]
        \/ op' = [NoOp EXCEPT !.kind = kind, !.pc = "stop"]
        \/ op' = NoOp
  BY <1>2 DEF SendSave, Snapshot, Over
<1>5. PICK k \in {"save", "exit"} :
        \/ op' = [NoOp EXCEPT !.kind = k, !.pc = "wait", !.before = files]
        \/ op' = [NoOp EXCEPT !.kind = k, !.pc = "stop"]
        \/ op' = NoOp
  BY <1>4
<1>6. OpInv' /\ (op'.pc = "wait" => op'.before = files) /\ ~op'.read
  BY <1>0, <1>5, BegunSave, BegunOver DEF TypeInv
<1>7. emu' \in [launch : 0 .. MaxLaunches, game : Name,
                at : {"off", "boot", "game", "dialog"}, todo : Seq(Cmd)] /\ TodoInv'
  <2>1. CASE UNCHANGED emu
    BY <1>0, <1>1, <2>1 DEF TypeInv, TodoInv
  <2>2. CASE \E kind \in {"save", "exit"} : SendSave(kind)
    <3> DEFINE cmd == Command("save", 0, "none")
    <3>1. cmd \in Cmd /\ cmd.by = 0
      BY StateSlotAssumption DEF Command, Cmd, Name
    <3>2. PICK sent \in BOOLEAN : Say(cmd, emu.launch, sent)
      BY <2>2 DEF SendSave
    <3> HIDE DEF cmd
    <3>3. emu' = emu \/ Told1(cmd)
      BY <1>0, <3>1, <3>2, SayTells
    <3> QED
      BY <1>0, <1>1, <3>1, <3>3, Telling
  <2> QED
    BY <1>2, <2>1, <2>2
<1>8. TypeInv'
  BY <1>0, <1>1, <1>6, <1>7 DEF TypeInv
<1>9. WriteInv'
  BY <1>1, <1>6 DEF WriteInv, Saving, Changed
<1>10. SavedIsWhole' /\ LoadedForReal'
  BY <1>3 DEF SavedIsWhole, LoadedForReal, Unsaid
<1> QED
  BY <1>0, <1>1, <1>6, <1>7, <1>8, <1>9, <1>10 DEF SlotInv, ReadInv, ResumesRightly

\* A save counts when a file has changed and nobody writes it any more.
LEMMA SavedStep ==
  ASSUME SlotInv, StateWritten \/ SaveTimesOut
  PROVE  SlotInv'
<1>0. /\ TypeInv /\ TodoInv /\ WriteInv /\ ReadInv
      /\ ResumesRightly /\ SavedIsWhole /\ LoadedForReal
  BY DEF SlotInv
<1>1. /\ UNCHANGED <<host, emu, stamp, failed, resumed, requests>>
      /\ op' \in {NoOp, [NoOp EXCEPT !.kind = "exit", !.pc = "stop"]}
  BY DEF StateWritten, SaveTimesOut, Over
<1>2. NoFile \in File
  BY StateSlotAssumption DEF NoFile, File
<1>3. OpInv' /\ op'.pc # "wait" /\ ~op'.read
  BY <1>1, BegunOver
<1>4. /\ files' \in [Game -> File] /\ writing' \in [to : Name, there : BOOLEAN]
  BY <1>0, <1>2 DEF StateWritten, SaveTimesOut, TypeInv
<1>5. TypeInv' /\ TodoInv'
  BY <1>0, <1>1, <1>3, <1>4 DEF TypeInv, TodoInv
<1>6. WriteInv'
  BY <1>3 DEF WriteInv, Saving
<1>7. SavedIsWhole' /\ LoadedForReal'
  <2>1. CASE StateWritten
    <3>1. PICK g \in Game : /\ Settled(g) /\ Saving
                            /\ said' = [kind |-> "save", ok |-> TRUE,
                                        real |-> files[g].whole \/ op.died]
      BY <2>1 DEF StateWritten, Answer
    <3>2. files[g].whole \/ op.died
      BY <1>0, <3>1 DEF WriteInv, Settled, Growing
    <3>3. said'.kind = "save" /\ said'.real = (files[g].whole \/ op.died)
      BY <3>1
    <3> QED
      BY <3>2, <3>3 DEF SavedIsWhole, LoadedForReal
  <2>2. CASE SaveTimesOut
    BY <2>2 DEF SaveTimesOut, Answer, SavedIsWhole, LoadedForReal
  <2> QED
    BY <2>1, <2>2
<1> QED
  BY <1>0, <1>1, <1>3, <1>5, <1>6, <1>7 DEF SlotInv, ReadInv, ResumesRightly

LEMMA LoadStep ==
  ASSUME SlotInv, LoadState
  PROVE  SlotInv'
<1>0. /\ TypeInv /\ TodoInv /\ WriteInv /\ ReadInv
      /\ ResumesRightly /\ SavedIsWhole /\ LoadedForReal
  BY DEF SlotInv
<1>1. /\ UNCHANGED <<host, files, writing, stamp, failed, resumed>>
      /\ requests' \in 0 .. MaxRequests /\ op.pc = "idle"
  BY <1>0, StateSlotAssumption DEF LoadState, Asked, TypeInv, Idle
<1> DEFINE cmd == Command("load", 0, "none")
<1>2. cmd \in Cmd /\ cmd.by = 0
  BY StateSlotAssumption DEF Command, Cmd, Name
<1> HIDE DEF cmd
<1>3. \/ Answer("load", FALSE, TRUE) /\ UNCHANGED <<emu, op>>
      \/ /\ ~Mismatch
         /\ \E sent \in BOOLEAN :
              /\ Say(cmd, emu.launch, sent)
              /\ \/ (\E marked \in BOOLEAN : op' = Marked(marked)) /\ said' = Unsaid
                 \/ /\ Answer("load", sent, sent => Newest(emu.game) = emu.game)
                    /\ UNCHANGED op
                    /\ sent => host.kind \notin {"dolphin", "ppsspp"}
  BY DEF LoadState, AnswersAtOnce, cmd
<1>4. emu' \in [launch : 0 .. MaxLaunches, game : Name,
                at : {"off", "boot", "game", "dialog"}, todo : Seq(Cmd)] /\ TodoInv'
  <2>1. emu' = emu \/ Told1(cmd)
    BY <1>0, <1>2, <1>3, SayTells
  <2> QED
    BY <1>0, <1>1, <1>2, <2>1, Telling
<1>5. OpInv' /\ ReadInv' /\ ~Saving'
  <2>1. CASE op' = op
    BY <1>0, <1>1, <2>1 DEF TypeInv, OpInv, ReadInv, Saving
  <2>2. ASSUME NEW marked \in BOOLEAN, op' = Marked(marked)
        PROVE  OpInv' /\ ReadInv' /\ ~Saving'
    BY <2>2, BegunOther DEF Marked, ReadInv
  <2> QED
    BY <1>3, <2>1, <2>2
<1>6. SavedIsWhole' /\ LoadedForReal'
  <2>1. CASE said' = Unsaid \/ Answer("load", FALSE, TRUE)
    BY <2>1 DEF SavedIsWhole, LoadedForReal, Unsaid, Answer
  <2>2. CASE /\ ~Mismatch /\ host.kind \notin {"dolphin", "ppsspp"}
             /\ Answer("load", TRUE, Newest(emu.game) = emu.game)
    <3>1. host.kind = "pcsx2" /\ host.tells => Newest(emu.game) = emu.game
      BY <2>2 DEF Mismatch, SerialKnown
    <3>2. /\ said'.kind = "load" /\ said'.ok /\ said'.real = (Newest(emu.game) = emu.game)
      BY <2>2 DEF Answer
    <3>3. CanTell' => host.kind = "pcsx2" /\ host.tells
      BY <1>1, <2>2 DEF CanTell
    <3> QED
      BY <3>1, <3>2, <3>3 DEF SavedIsWhole, LoadedForReal
  <2>3. \/ said' = Unsaid \/ Answer("load", FALSE, TRUE)
        \/ /\ ~Mismatch /\ host.kind \notin {"dolphin", "ppsspp"}
           /\ Answer("load", TRUE, Newest(emu.game) = emu.game)
    BY <1>3 DEF Answer
  <2> QED
    BY <2>1, <2>2, <2>3
<1>7. TypeInv'
  BY <1>0, <1>1, <1>4, <1>5 DEF TypeInv
<1>8. WriteInv'
  BY <1>5 DEF WriteInv
<1> QED
  BY <1>0, <1>1, <1>4, <1>5, <1>6, <1>7, <1>8 DEF SlotInv, ReadInv, ResumesRightly

\* A load counts when reading the state is what was seen.
LEMMA LoadedStep ==
  ASSUME SlotInv, LoadConfirmed \/ LoadTimesOut \/ BeginPush \/ PushFails
  PROVE  SlotInv'
<1>0. /\ TypeInv /\ TodoInv /\ WriteInv /\ ReadInv
      /\ ResumesRightly /\ SavedIsWhole /\ LoadedForReal
  BY DEF SlotInv
<1>1. /\ UNCHANGED <<host, emu, files, writing, stamp, failed, resumed>>
      /\ requests' \in 0 .. MaxRequests
  <2>1. CASE BeginPush
    <3>1. /\ requests < MaxRequests /\ requests' = requests + 1
          /\ UNCHANGED <<host, emu, files, writing, stamp, failed, resumed>>
      BY <2>1 DEF BeginPush, Asked
    <3> QED
      BY <1>0, <3>1, StateSlotAssumption DEF TypeInv
  <2>2. CASE LoadConfirmed \/ LoadTimesOut \/ PushFails
    BY <1>0, <2>2 DEF LoadConfirmed, LoadTimesOut, PushFails, TypeInv
  <2> QED
    BY <2>1, <2>2
<1>2. \/ op' = NoOp
      \/ op' = op /\ op.pc = "idle"
      \/ \E g : op' = [NoOp EXCEPT !.kind = "push", !.pc = "wait", !.game = g]
  BY DEF LoadConfirmed, LoadTimesOut, BeginPush, PushFails, Asked, Idle
<1>3. OpInv' /\ ReadInv' /\ ~Saving'
  <2>1. CASE op' = op /\ op.pc = "idle"
    BY <1>0, <2>1 DEF TypeInv, OpInv, ReadInv, Saving
  <2>2. CASE op' = NoOp
    BY <2>2, BegunOver DEF Saving, ReadInv
  <2>3. ASSUME NEW g, op' = [NoOp EXCEPT !.kind = "push", !.pc = "wait", !.game = g]
        PROVE  OpInv' /\ ReadInv' /\ ~Saving'
    BY <2>3, BegunOther DEF ReadInv
  <2> QED
    BY <1>2, <2>1, <2>2, <2>3
<1>4. SavedIsWhole' /\ LoadedForReal'
  <2>1. CASE LoadConfirmed
    <3> DEFINE real == op.loaded \/ op.stirred \/ OnTrust
    <3>1. Confirmed /\ said' = [kind |-> "load", ok |-> TRUE, real |-> real]
      BY <2>1 DEF LoadConfirmed, Answer
    <3>2. real
      BY <1>0, <3>1 DEF Confirmed, ReadBack, UndoRewritten, ReadInv
    <3> HIDE DEF real
    <3>3. said'.kind = "load" /\ said'.real = real
      BY <3>1
    <3> QED
      BY <3>2, <3>3 DEF SavedIsWhole, LoadedForReal
  <2>2. CASE LoadTimesOut \/ BeginPush \/ PushFails
    <3>1. \/ said' = Unsaid
          \/ \E kind \in {"load", "push"} : said' = [kind |-> kind, ok |-> FALSE, real |-> TRUE]
          \/ said' = [kind |-> "push", ok |-> TRUE, real |-> TRUE]
      BY <2>2 DEF LoadTimesOut, BeginPush, PushFails, Answer
    <3> QED
      BY <3>1 DEF Unsaid, SavedIsWhole, LoadedForReal
  <2> QED
    BY <2>1, <2>2
<1>5. TypeInv' /\ TodoInv'
  BY <1>0, <1>1, <1>3 DEF TypeInv, TodoInv
<1>6. WriteInv'
  BY <1>3 DEF WriteInv
<1> QED
  BY <1>0, <1>1, <1>3, <1>4, <1>5, <1>6 DEF SlotInv, ReadInv, ResumesRightly

LEMMA LandsStep ==
  ASSUME SlotInv, PushLands \/ Stop
  PROVE  SlotInv'
<1> USE StateSlotAssumption
<1>0. /\ TypeInv /\ TodoInv /\ ResumesRightly /\ SavedIsWhole /\ LoadedForReal
  BY DEF SlotInv
<1>1. /\ op' = NoOp /\ UNCHANGED <<host, failed, resumed, requests>>
      /\ said' \in {said, [kind |-> "push", ok |-> TRUE, real |-> TRUE]}
  BY DEF PushLands, Stop, Answer
<1>2. OpInv' /\ ~op'.read /\ op'.pc # "wait"
  BY <1>1, BegunOver
<1>3. SavedIsWhole' /\ LoadedForReal'
  BY <1>0, <1>1 DEF SavedIsWhole, LoadedForReal, CanTell
<1>4. stamp' \in 0 .. MaxWrites /\ files' \in [Game -> File]
  <2>1. CASE PushLands
    <3>1. [n |-> stamp + 1, whole |-> TRUE] \in File /\ stamp + 1 \in 0 .. MaxWrites
      BY <1>0, <2>1 DEF PushLands, TypeInv, File
    <3> QED
      BY <1>0, <2>1, <3>1 DEF PushLands, TypeInv
  <2>2. CASE Stop
    BY <1>0, <2>2 DEF Stop, TypeInv
  <2> QED
    BY <2>1, <2>2
<1>5. writing' \in [to : Name, there : BOOLEAN]
  <2>1. NoWrite \in [to : Name, there : BOOLEAN]
    BY DEF NoWrite, Name
  <2>2. writing' \in {writing, NoWrite, [writing EXCEPT !.there = FALSE]}
    BY DEF PushLands, Stop, CutShort
  <2> QED
    BY <1>0, <2>1, <2>2 DEF TypeInv
<1>6. emu' \in [launch : 0 .. MaxLaunches, game : Name,
                at : {"off", "boot", "game", "dialog"}, todo : Seq(Cmd)] /\ TodoInv'
  <2>1. CASE PushLands
    BY <1>0, <1>1, <2>1 DEF PushLands, TypeInv, TodoInv
  <2>2. CASE Stop
    <3>1. emu' = [launch |-> 0, game |-> "none", at |-> "off", todo |-> <<>>]
      BY <2>2 DEF Stop, NoGame
    <3> QED
      BY <3>1 DEF Name, TodoInv
  <2> QED
    BY <2>1, <2>2
<1>7. TypeInv'
  BY <1>0, <1>1, <1>2, <1>4, <1>5, <1>6 DEF TypeInv
<1> QED
  BY <1>0, <1>1, <1>2, <1>3, <1>6, <1>7 DEF SlotInv, WriteInv, Saving, ReadInv, ResumesRightly

\* A thread sends its load to the launch it is of, or to none.
LEMMA ThreadStep ==
  ASSUME SlotInv, NEW n \in Launches, Thread(n)
  PROVE  SlotInv'
<1>0. /\ TypeInv /\ TodoInv /\ WriteInv /\ ReadInv
      /\ ResumesRightly /\ SavedIsWhole /\ LoadedForReal
  BY DEF SlotInv
<1>1. /\ UNCHANGED <<host, files, writing, stamp, said, resumed, requests>>
      /\ failed' \in SUBSET Launches
  BY <1>0 DEF TypeInv, Thread, FileFound, FileNever, WindowFound, WindowNever, SeesBoot, Abandons,
     BootDeadline, ResumeLooks, ResumeLoads, OnlyWatch
<1>2. CASE ResumeLoads(n) /\ ~(UNCHANGED <<emu, op>>)
  <2> DEFINE cmd == Command("load", n, "none")
  <2>1. ~Superseded(n) /\ ~Mismatch
    BY <1>2 DEF ResumeLoads, ResumeSends
  <2>2. cmd \in Cmd /\ cmd.by = n /\ cmd.file = "none"
    BY StateSlotAssumption DEF Command, Cmd, Name, Launches
  <2>3. \E sent \in BOOLEAN : Say(cmd, n, sent)
    BY <1>2 DEF ResumeLoads, ResumeSends
  <2> HIDE DEF cmd
  <2>4. emu' = emu \/ Told1(cmd)
    BY <1>0, <2>2, <2>3, SayTells
  <2>5. emu' \in [launch : 0 .. MaxLaunches, game : Name,
                  at : {"off", "boot", "game", "dialog"}, todo : Seq(Cmd)] /\ TodoInv'
    <3>1. CASE n = emu.launch
      BY <1>0, <1>1, <2>2, <2>4, <3>1, Telling
    <3>2. CASE n # emu.launch  \* ScummVM's thread: the window is not that of its process
      <4>1. ByName /\ Hotkeys
        BY <2>1, <3>2 DEF Superseded, ByName, Hotkeys
      <4>2. emu' = emu
        BY <1>0, <2>2, <2>3, <2>4, <3>2, <4>1, SayTells
      <4> QED
        BY <1>0, <1>1, <4>2 DEF TypeInv, TodoInv
    <3> QED
      BY <3>1, <3>2
  <2>6. /\ Up' = Up
    BY <1>0, <2>4 DEF TypeInv, Told1, Up
  <2>7. \/ op' \in {op, [op EXCEPT !.read = FALSE, !.stirred = FALSE]}
        \/ \E state : Stirs(state)
    BY <1>2 DEF ResumeLoads, ResumeSends, Backdated
  <2>8. OpInv' /\ ReadInv' /\ UNCHANGED <<op.kind, op.pc, op.before, op.died>>
    <3>1. ASSUME NEW state, Stirs(state)
          PROVE  OpInv' /\ ReadInv' /\ UNCHANGED <<op.kind, op.pc, op.before, op.died>>
      BY <1>0, <3>1, Stirring DEF TypeInv
    <3>2. CASE op' \in {op, [op EXCEPT !.read = FALSE, !.stirred = FALSE]}
      BY <1>0, <3>2 DEF TypeInv, OpInv, ReadInv
    <3> QED
      BY <2>7, <3>1, <3>2
  <2>9. TypeInv'
    BY <1>0, <1>1, <2>5, <2>8 DEF TypeInv
  <2>10. WriteInv'
    BY <1>0, <1>1, <2>6, <2>8 DEF WriteInv, Saving, Changed, HeldOpen, Beside
  <2> QED
    BY <1>0, <1>1, <2>5, <2>8, <2>9, <2>10
    DEF SlotInv, ResumesRightly, SavedIsWhole, LoadedForReal, CanTell
<1>3. CASE UNCHANGED emu /\ (UNCHANGED op \/ \E state : Stirs(state))
  <2>0. OpInv' /\ ReadInv' /\ UNCHANGED <<op.kind, op.pc, op.before, op.died>>
    <3>1. ASSUME NEW state, Stirs(state)
          PROVE  OpInv' /\ ReadInv' /\ UNCHANGED <<op.kind, op.pc, op.before, op.died>>
      BY <1>0, <3>1, Stirring DEF TypeInv
    <3>2. CASE UNCHANGED op
      BY <1>0, <3>2 DEF TypeInv, OpInv, ReadInv
    <3> QED
      BY <1>3, <3>1, <3>2
  <2>1. TypeInv' /\ TodoInv'
    BY <1>0, <1>1, <1>3, <2>0 DEF TypeInv, TodoInv
  <2>2. WriteInv' /\ ReadInv'
    BY <1>0, <1>1, <1>3, <2>0 DEF WriteInv, Saving, Changed, HeldOpen, Beside, Up
  <2> QED
    BY <1>0, <1>1, <2>1, <2>2 DEF SlotInv, ResumesRightly, SavedIsWhole, LoadedForReal, CanTell
<1>4. \/ ResumeLoads(n)
      \/ UNCHANGED emu /\ (UNCHANGED op \/ \E state : Stirs(state))
  BY DEF Thread, FileFound, FileNever, WindowFound, WindowNever, SeesBoot, Abandons,
     BootDeadline, ResumeLooks, OnlyWatch
<1> QED
  BY <1>2, <1>3, <1>4

-----------------------------------------------------------------------------
LEMMA SlotStep == SlotInv /\ [Next]_vars => SlotInv'
<1>1. SlotInv /\ Next => SlotInv'
  BY EmulatorStep, WritingStep, LoadsStep, LaunchStep, SaveStep, SavedStep, LoadStep,
     LoadedStep, LandsStep, ThreadStep
  DEF Next
<1>2. SlotInv /\ UNCHANGED vars => SlotInv'
  BY DEF vars, SlotInv, TypeInv, OpInv, TodoInv, WriteInv, ReadInv, ResumesRightly,
     SavedIsWhole, LoadedForReal, CanTell, Saving, Changed, HeldOpen, Beside, Up
<1> QED
  BY <1>1, <1>2

THEOREM SlotInvHolds == Spec => []SlotInv
  BY Initially, SlotStep, PTL DEF Spec

\* A save that is reported as done left a whole file, unless the emulator died over it; and
\* a load that is reported as done was done wherever the launcher can tell, unless a header
\* read or a late save stirred the access time it went by, or PPSSPP had no mark to go by:
\* whatever the emulator does with what it was told (the waits of the five launchers).
THEOREM AnswersHonestHolds == Spec => []AnswersHonest
<1>1. SlotInv => AnswersHonest
  BY DEF SlotInv, TypeInv, OpInv, File, AnswersHonest, TypeOK
<1> QED
  BY <1>1, SlotInvHolds, PTL

\* However many launches come and go while its thread waits, a resume goes into the launch
\* it was asked for, with a state of its game where the launcher can tell
\* (_deferred_load_state, _boot_watchdog).
THEOREM ResumesRightlyHolds == Spec => []ResumesRightly
<1>1. SlotInv => ResumesRightly
  BY DEF SlotInv
<1> QED
  BY <1>1, SlotInvHolds, PTL
=============================================================================
