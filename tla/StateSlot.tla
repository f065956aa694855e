----------------------------- MODULE StateSlot ------------------------------
(***************************************************************************)
(* Save states in the launchers that drive their emulator from outside:    *)
(* Dolphin, PPSSPP, ScummVM and RPCS3 over hotkeys, PCSX2 over PINE.       *)
(*                                                                         *)
(* A hotkey is not answered and PINE acknowledges before it acts, so the   *)
(* broker judges a save by the file in the working slot and a load by what *)
(* reading it leaves behind.  Requests hold the session lock; the thread   *)
(* that resumes a launch, or watches it boot, does not, and may outlive    *)
(* the launch it belongs to.                                               *)
(*                                                                         *)
(* A wait is a step that ends when what it waits for is there, or in vain. *)
(* Between the last look at the launch number and the load it allows, the  *)
(* state's header read or not, there is no time for an exit and another    *)
(* boot.                                                                   *)
(***************************************************************************)
EXTENDS Naturals, Sequences, FiniteSets

CONSTANTS
  Kind,        \* launchers to model
  Game,
  Rom,         \* the game of each activation
  MaxLaunches, \* activations
  MaxRequests, \* requests, of all launches
  MaxWrites    \* state files that come into being in a launch

ASSUME StateSlotAssumption ==
  /\ Kind \subseteq {"dolphin", "ppsspp", "pcsx2", "scummvm", "rpcs3"}
  /\ Rom \in [1 .. MaxLaunches -> Game]
  /\ IsFiniteSet(Game)
  /\ MaxLaunches \in Nat /\ MaxRequests \in Nat /\ MaxWrites \in Nat \ {0}

VARIABLES
  host,     \* launcher, and whether the broker can tell which game runs
  emu,      \* the emulator: the launch it is of (0: stopped), its game, where its
            \* boot is, and what it was told and has not done yet
  files,    \* the working slot: each game's state file
  writing,  \* the state being written: its file, and whether that is still in the slot
  stamp,    \* state files of this launch so far, which orders them
  op,       \* the request being served
  said,     \* the last answer, and whether it is true
  watch,    \* each launch's thread: where it is, and whether a resume was asked for
  failed,   \* launches whose boot_failed is set
  resumed,  \* the last load a thread ordered: whether it went into the launch of the
            \* thread, and was of the game running there
  requests

vars == <<host, emu, files, writing, stamp, op, said, watch, failed, resumed, requests>>

Launches == 1 .. MaxLaunches

NoFile == [n |-> 0, whole |-> TRUE]
NoWrite == [to |-> "none", there |-> FALSE]
NoOp == [kind |-> "none", pc |-> "idle", before |-> [g \in Game |-> NoFile],
         file |-> NoFile, game |-> "none", marked |-> FALSE, read |-> FALSE,
         stirred |-> FALSE, loaded |-> FALSE, died |-> FALSE]
Unsaid == [kind |-> "none", ok |-> FALSE, real |-> TRUE]
NoGame == [launch |-> 0, game |-> "none", at |-> "off", todo |-> <<>>]

Up == emu.at # "off"
Running == emu.at = "game"
Hotkeys == host.kind # "pcsx2"
Idle == op.pc = "idle"

\* ScummVM's slot is a name made of the target, so another game's state is not in it.
ByName == host.kind = "scummvm"

\* These write a state beside its name, which it gets when it is whole.
Beside == host.kind \in {"ppsspp", "rpcs3"}

\* A thread makes sure that these reach a running game.
Watched == host.kind \in {"pcsx2", "rpcs3"}

\* RPCS3 saves at the exit and takes no request.
ExitOnly == host.kind = "rpcs3"

\* state_path: the newest state of the slot, whichever game's when the name is not told.
Held(game) == {g \in Game : files[g].n # 0 /\ (ByName => g = game)}
Newest(game) == CHOOSE g \in Held(game) : \A h \in Held(game) : files[h].n <= files[g].n

Init ==
  /\ host \in [kind : Kind, tells : BOOLEAN]
  /\ ByName => host.tells
  /\ emu = NoGame
  /\ files = [g \in Game |-> NoFile] /\ writing = NoWrite /\ stamp = 0
  /\ op = NoOp /\ said = Unsaid
  /\ watch = [n \in Launches |-> [pc |-> "off", asked |-> FALSE]]
  /\ failed = {}
  /\ resumed = [own |-> TRUE, fits |-> TRUE]
  /\ requests = 0

TypeOK ==
  /\ files \in [Game -> [n : 0 .. MaxWrites, whole : BOOLEAN]]
  /\ stamp \in 0 .. MaxWrites /\ requests \in 0 .. MaxRequests
  /\ emu.launch \in 0 .. MaxLaunches /\ emu.at \in {"off", "boot", "game", "dialog"}
  /\ op.pc \in {"idle", "wait", "stop"}
  /\ failed \subseteq Launches

-----------------------------------------------------------------------------
(* What the emulator does. *)

Command(do, by, file) == [do |-> do, by |-> by, file |-> file]

\* A dead process holds nothing open; PPSSPP's staging file stays when it dies.
HeldOpen(g) == ~Beside /\ Up /\ writing.to = g /\ writing.there
StagingThere(g) == host.kind = "ppsspp" /\ writing.to = g

Boots ==
  /\ emu.at = "boot"
  /\ emu' = [emu EXCEPT !.at = "game"]
  /\ UNCHANGED <<host, files, writing, stamp, op, said, watch, failed, resumed, requests>>

\* PCSX2 and RPCS3 stay up behind an error dialog.
Hangs ==
  /\ emu.at = "boot" /\ Watched
  /\ emu' = [emu EXCEPT !.at = "dialog"]
  /\ UNCHANGED <<host, files, writing, stamp, op, said, watch, failed, resumed, requests>>

\* A write in place that is cut short leaves what was written.
CutShort == writing' = IF Beside THEN writing ELSE NoWrite

Dies ==
  /\ Up
  /\ emu' = [emu EXCEPT !.at = "off", !.todo = <<>>]
  /\ op' = IF Idle THEN op ELSE [op EXCEPT !.died = TRUE]
  /\ CutShort
  /\ UNCHANGED <<host, files, stamp, said, watch, failed, resumed, requests>>

Told(do) ==
  /\ Running /\ emu.todo # <<>> /\ Head(emu.todo).do = do
  /\ writing = NoWrite
  /\ emu' = [emu EXCEPT !.todo = Tail(@)]

\* In place, or beside it.
StartsWriting ==
  /\ Told("save") /\ stamp < MaxWrites
  /\ writing' = [to |-> emu.game, there |-> TRUE]
  /\ IF Beside
       THEN UNCHANGED <<files, stamp>>
       ELSE /\ stamp' = stamp + 1
            /\ files' = [files EXCEPT ![emu.game] = [n |-> stamp + 1, whole |-> FALSE]]
  /\ UNCHANGED <<host, op, said, watch, failed, resumed, requests>>

\* The access time a load waits on moves, with nothing loaded.
Stirs(state) ==
  op' = IF op.kind = "load" /\ state = op.game
          THEN [op EXCEPT !.read = TRUE, !.stirred = TRUE] ELSE op

\* A new file in the state's place has an access time of its own, later than the mark.
FinishesWriting ==
  /\ Up /\ writing # NoWrite
  /\ writing' = NoWrite
  /\ IF Beside THEN Stirs(writing.to) ELSE UNCHANGED op
  /\ \/ /\ Beside /\ stamp < MaxWrites
        /\ stamp' = stamp + 1
        /\ files' = [files EXCEPT ![writing.to] = [n |-> stamp + 1, whole |-> TRUE]]
     \/ /\ ~Beside /\ writing.there
        /\ files' = [files EXCEPT ![writing.to].whole = TRUE]
        /\ UNCHANGED stamp
     \/ /\ ~Beside /\ ~writing.there
        /\ UNCHANGED <<files, stamp>>
  /\ UNCHANGED <<host, emu, said, watch, failed, resumed, requests>>

\* On a hotkey, or over PINE, the state of the running game; at the boot, the one named.
Loads ==
  /\ Told("load")
  /\ LET cmd == Head(emu.todo)
         state == IF cmd.file = "none" THEN emu.game ELSE cmd.file
     IN IF files[state].n = 0
          THEN UNCHANGED <<resumed, op>>
          ELSE /\ resumed' = IF cmd.by = 0 THEN resumed
                             ELSE [own |-> cmd.by = emu.launch, fits |-> state = emu.game]
               /\ op' = IF op.kind # "load" THEN op
                        ELSE [op EXCEPT !.loaded = TRUE, !.read = @ \/ state = op.game]
  /\ UNCHANGED <<host, files, writing, stamp, said, watch, failed, requests>>

-----------------------------------------------------------------------------
(* Launch. *)

\* The working slot was emptied, and the archive restored into it.
Restored(archive) ==
  [g \in Game |-> IF g \in archive THEN [n |-> 1, whole |-> TRUE] ELSE NoFile]

\* --save-slot, when the slot holds a state of the target.
SaveSlot(archive, game) == archive \cap {game}

\* RPCS3 boots the state instead of the game, when the game's title is known.
StateAsTarget(archive, game) == IF host.tells THEN archive \cap {game} ELSE {}

\* Dolphin hands the state over at the boot when it belongs to the disc, or may.
AtBoot(archive, game) ==
  CASE host.kind = "dolphin" -> IF host.tells THEN archive \cap {game} ELSE archive
    [] ByName -> SaveSlot(archive, game)
    [] ExitOnly -> StateAsTarget(archive, game)
    [] OTHER -> {}

Waits(archive, game, asked) ==
  CASE Watched -> "boot"
    [] ~Watched /\ asked /\ AtBoot(archive, game) = {} -> "file"
    [] OTHER -> "done"

Launch ==
  /\ Idle /\ emu.launch = 0
  /\ \E n \in Launches, asked \in BOOLEAN,
        archive \in {s \in SUBSET Game : Cardinality(s) <= 1} :
       /\ watch[n].pc = "off" /\ \A m \in 1 .. n - 1 : watch[m].pc # "off"
       /\ stamp' = Cardinality(archive)
       /\ files' = Restored(archive)
       /\ emu' = [launch |-> n, game |-> Rom[n], at |-> "boot",
                  todo |-> IF asked /\ AtBoot(archive, Rom[n]) # {}
                             THEN <<Command("load", n, CHOOSE g \in archive : TRUE)>>
                             ELSE <<>>]
       /\ watch' = [watch EXCEPT ![n] =
            [pc |-> Waits(archive, Rom[n], asked), asked |-> asked]]
  /\ writing' = NoWrite
  /\ said' = Unsaid
  /\ UNCHANGED <<host, op, failed, resumed, requests>>

-----------------------------------------------------------------------------
(* Telling the emulator something. *)

\* A hotkey goes to the game window of the launcher's own process.
OwnWindow(launch) == Running /\ emu.launch = launch

\* A key may fail to go out, and one that did be lost on the way into the emulator; a
\* macro of several, or an xdotool that ran out of time, may have worked all the same.
SayByKeys(cmd, launch, sent) ==
  /\ sent => OwnWindow(launch)
  /\ \/ emu' = emu
     \/ OwnWindow(launch) /\ emu' = [emu EXCEPT !.todo = Append(@, cmd)]

\* PCSX2 answers whoever connects, once it runs a game, but the answer may be lost.
SayOverPine(cmd, sent) ==
  \/ Running /\ emu' = [emu EXCEPT !.todo = Append(@, cmd)]
  \/ ~sent /\ emu' = emu

Say(cmd, launch, sent) ==
  IF Hotkeys THEN SayByKeys(cmd, launch, sent) ELSE SayOverPine(cmd, sent)

Answer(kind, ok, real) == said' = [kind |-> kind, ok |-> ok, real |-> real]

\* _capable_emulator, under the session lock.
Asked ==
  /\ Idle /\ emu.launch # 0 /\ requests < MaxRequests
  /\ ~ExitOnly
  /\ requests' = requests + 1

-----------------------------------------------------------------------------
(* Saving, for the route and for the exit. *)

Snapshot == files

\* After the save an exit goes on to the stop.
Over(kind) == op' = IF kind = "exit" THEN [NoOp EXCEPT !.kind = "exit", !.pc = "stop"] ELSE NoOp

SendSave(kind) ==
  \E sent \in BOOLEAN :
    /\ Say(Command("save", 0, "none"), emu.launch, sent)
    /\ IF sent
         THEN /\ op' = [NoOp EXCEPT !.kind = kind, !.pc = "wait", !.before = Snapshot]
              /\ said' = Unsaid
         ELSE Over(kind) /\ Answer("save", FALSE, TRUE)

SaveState ==
  /\ Asked /\ Up
  /\ SendSave("save")
  /\ UNCHANGED <<host, files, writing, stamp, watch, failed, resumed>>

Saving == op.pc = "wait" /\ op.kind \in {"save", "exit"}
Changed(g) == files[g] # op.before[g] /\ files[g].n # 0

\* A file whose size sits still counts as written once nobody holds it open.
SettledFlatly(g) == Changed(g)

\* ScummVM's broker goes by size and time, which no write leaves alone for STATE_STABLE.
Growing(g) == HeldOpen(g)
Settled(g) ==
  /\ Changed(g)
  /\ IF ByName THEN ~Growing(g) ELSE ~HeldOpen(g) /\ ~StagingThere(g)

StateWritten ==
  /\ Saving
  /\ \E g \in Game :
       /\ Settled(g)
       /\ Answer("save", TRUE, files[g].whole \/ op.died)
  /\ Over(op.kind)
  /\ UNCHANGED <<host, emu, files, writing, stamp, watch, failed, resumed, requests>>

\* PCSX2 takes what a failed save wrote off the disk.
Discarded == {g \in Game : host.kind = "pcsx2" /\ Changed(g)}

SaveTimesOut ==
  /\ Saving
  /\ files' = [g \in Game |-> IF g \in Discarded THEN NoFile ELSE files[g]]
  /\ writing' = IF writing.to \in Discarded THEN [writing EXCEPT !.there = FALSE] ELSE writing
  /\ Answer("save", FALSE, TRUE)
  /\ Over(op.kind)
  /\ UNCHANGED <<host, emu, stamp, watch, failed, resumed, requests>>

-----------------------------------------------------------------------------
(* Loading, for the route and for the threads. *)

\* PCSX2 compares serials before it asks.
SerialKnown == host.tells
Mismatch == host.kind = "pcsx2" /\ SerialKnown /\ Newest(emu.game) # emu.game

\* The state to look for, its access time set back: unless none is kept, the stamp fails,
\* or so does the probe, whose scratch file a thread that loads at the same time shares.
Marked(marked) ==
  [NoOp EXCEPT !.kind = "load", !.pc = "wait", !.marked = marked,
               !.file = files[Newest(emu.game)], !.game = Newest(emu.game)]

\* A load PCSX2 acknowledges counts, and one whose keys went out to ScummVM.
AnswersAtOnce(sent) ==
  /\ Answer("load", sent, sent => Newest(emu.game) = emu.game)
  /\ UNCHANGED op

LoadState ==
  /\ Asked /\ Up
  /\ IF Held(emu.game) = {} \/ Mismatch
       THEN Answer("load", FALSE, TRUE) /\ UNCHANGED <<emu, op>>
       ELSE \E sent \in BOOLEAN :
              /\ Say(Command("load", 0, "none"), emu.launch, sent)
              /\ IF sent /\ host.kind \in {"dolphin", "ppsspp"}
                   THEN (\E marked \in BOOLEAN : op' = Marked(marked)) /\ said' = Unsaid
                   ELSE AnswersAtOnce(sent)
  /\ UNCHANGED <<host, files, writing, stamp, watch, failed, resumed>>

\* Without a mark Dolphin goes by its undo buffer, which only a load rewrites, and PPSSPP
\* takes the load on trust.
ReadBack == op.marked /\ op.read
UndoRewritten == ~op.marked /\ host.kind = "dolphin" /\ op.loaded
OnTrust == ~op.marked /\ host.kind = "ppsspp"

ConfirmedBySending == TRUE
Confirmed == ReadBack \/ UndoRewritten \/ OnTrust

Loading == op.pc = "wait" /\ op.kind = "load"

LoadConfirmed ==
  /\ Loading /\ Confirmed
  /\ Answer("load", TRUE, op.loaded \/ op.stirred \/ OnTrust)
  /\ op' = NoOp
  /\ UNCHANGED <<host, emu, files, writing, stamp, watch, failed, resumed, requests>>

LoadTimesOut ==
  /\ Loading /\ ~OnTrust
  /\ Answer("load", FALSE, TRUE)
  /\ op' = NoOp
  /\ UNCHANGED <<host, emu, files, writing, stamp, watch, failed, resumed, requests>>

-----------------------------------------------------------------------------
(* A pushed state. *)

\* state_target and check_state_bytes: the name must be that of the state already there,
\* and the game the session's when the broker knows that one.
NameFits(g) == Held(emu.game) # {} => g = Newest(emu.game)
GameFits(g) == host.tells => g = emu.game
Target(g) == ByName \/ (NameFits(g) /\ GameFits(g))

\* ScummVM's takes a state of any name and gives it the target's.
Filed(g) == IF ByName THEN emu.game ELSE g

BeginPush ==
  /\ Asked /\ Up
  /\ \E g \in Game :
       IF Target(g)
         THEN /\ op' = [NoOp EXCEPT !.kind = "push", !.pc = "wait", !.game = Filed(g)]
              /\ said' = Unsaid
         ELSE UNCHANGED op /\ Answer("push", FALSE, TRUE)
  /\ UNCHANGED <<host, emu, files, writing, stamp, watch, failed, resumed>>

Pushing == op.pc = "wait" /\ op.kind = "push"

\* The rename takes the name from a write under way.
PushLands ==
  /\ Pushing /\ stamp < MaxWrites
  /\ stamp' = stamp + 1
  /\ files' = [files EXCEPT ![op.game] = [n |-> stamp + 1, whole |-> TRUE]]
  /\ writing' = IF writing.to = op.game /\ ~Beside
                  THEN [writing EXCEPT !.there = FALSE] ELSE writing
  /\ op' = NoOp
  /\ Answer("push", TRUE, TRUE)
  /\ UNCHANGED <<host, emu, watch, failed, resumed, requests>>

PushFails ==
  /\ Pushing
  /\ op' = NoOp
  /\ Answer("push", FALSE, TRUE)
  /\ UNCHANGED <<host, emu, files, writing, stamp, watch, failed, resumed, requests>>

-----------------------------------------------------------------------------
(* Exit, with a state or without. *)

\* RPCS3's is not sent either while nothing has named the title.
ExitSave == Up /\ SendSave("exit")

Exit ==
  /\ Idle /\ emu.launch # 0
  /\ \/ ExitSave
     \/ Over("exit") /\ said' = Unsaid /\ UNCHANGED emu
  /\ UNCHANGED <<host, files, writing, stamp, watch, failed, resumed, requests>>

\* The stop makes the launch number stale first, but ScummVM's.
Stop ==
  /\ op.pc = "stop"
  /\ emu' = NoGame
  /\ CutShort
  /\ op' = NoOp
  /\ UNCHANGED <<host, files, stamp, said, watch, failed, resumed, requests>>

-----------------------------------------------------------------------------
(* The threads. *)

NeverSuperseded(n) == FALSE
Superseded(n) == ~ByName /\ emu.launch # n

At(n, pc) == watch[n].pc = pc
Goes(n, pc) == watch' = [watch EXCEPT ![n].pc = pc]
OnlyWatch == UNCHANGED <<host, emu, files, writing, stamp, op, said, failed, resumed, requests>>

\* Dolphin is given time before its state is looked into, PPSSPP's window is waited for.
AfterFile ==
  CASE host.kind = "dolphin" -> "look"
    [] host.kind = "ppsspp" -> "window"
    [] OTHER -> "load"

\* A state is there, or the wait ran out.
FileFound(n) ==
  /\ At(n, "file") /\ Held(Rom[n]) # {}
  /\ Goes(n, IF Superseded(n) THEN "done" ELSE AfterFile)
  /\ OnlyWatch

FileNever(n) == At(n, "file") /\ Held(Rom[n]) = {} /\ Goes(n, "done") /\ OnlyWatch

WindowFound(n) ==
  /\ At(n, "window") /\ OwnWindow(n)
  /\ Goes(n, "load")
  /\ OnlyWatch

WindowNever(n) == At(n, "window") /\ Goes(n, "done") /\ OnlyWatch

SeesBoot(n) ==
  /\ At(n, "boot") /\ ~Superseded(n) /\ Running
  /\ Goes(n, IF watch[n].asked /\ ~ExitOnly THEN "file" ELSE "done")
  /\ OnlyWatch

Abandons(n) == At(n, "boot") /\ Superseded(n) /\ Goes(n, "done") /\ OnlyWatch

BootDeadlineQuietly(n) == At(n, "boot") /\ ~Superseded(n) /\ Goes(n, "done") /\ OnlyWatch

BootDeadline(n) ==
  /\ At(n, "boot") /\ ~Superseded(n)
  /\ Goes(n, "done")
  /\ failed' = IF Up THEN failed \cup {n} ELSE failed
  /\ UNCHANGED <<host, emu, files, writing, stamp, op, said, resumed, requests>>

\* _resume_state, in the thread: where the disc's id is known the state's header is read,
\* from the file whose access time a request may be waiting on.
Belongs == host.tells => Newest(emu.game) = emu.game

ResumeLooks(n) ==
  /\ At(n, "look")
  /\ IF Superseded(n) \/ Held(Rom[n]) = {}
       THEN Goes(n, "done") /\ UNCHANGED op
       ELSE /\ Goes(n, IF Belongs THEN "load" ELSE "done")
            /\ IF host.tells THEN Stirs(Newest(emu.game)) ELSE UNCHANGED op
  /\ UNCHANGED <<host, emu, files, writing, stamp, said, failed, resumed, requests>>

\* Another load of the same state: its access time goes back again, or behind a later
\* write of it, which is past the first mark; or the stamp fails.
Waited == op.kind = "load" /\ Newest(emu.game) = op.game
Rewritten == files[op.game] # op.file \/ HeldOpen(op.game)

Backdated ==
  \/ UNCHANGED op
  \/ /\ Waited /\ files[op.game] = op.file
     /\ op' = [op EXCEPT !.read = FALSE, !.stirred = FALSE]
  \/ /\ Waited /\ Rewritten
     /\ Stirs(op.game)

ResumeSends(n) ==
  IF Mismatch
    THEN UNCHANGED <<emu, op>>
    ELSE /\ \E sent \in BOOLEAN : Say(Command("load", n, "none"), n, sent)
         /\ IF host.kind \in {"dolphin", "ppsspp"} THEN Backdated ELSE UNCHANGED op

ResumeLoads(n) ==
  /\ At(n, "load")
  /\ Goes(n, "done")
  /\ IF Superseded(n) \/ Held(Rom[n]) = {}
       THEN UNCHANGED <<emu, op>>
       ELSE ResumeSends(n)
  /\ UNCHANGED <<host, files, writing, stamp, said, failed, resumed, requests>>

-----------------------------------------------------------------------------
Thread(n) ==
  \/ FileFound(n) \/ FileNever(n)
  \/ WindowFound(n) \/ WindowNever(n)
  \/ SeesBoot(n) \/ Abandons(n) \/ BootDeadline(n)
  \/ ResumeLooks(n) \/ ResumeLoads(n)

Next ==
  \/ Boots \/ Hangs \/ Dies \/ StartsWriting \/ FinishesWriting \/ Loads
  \/ Launch
  \/ SaveState \/ StateWritten \/ SaveTimesOut
  \/ LoadState \/ LoadConfirmed \/ LoadTimesOut
  \/ BeginPush \/ PushLands \/ PushFails
  \/ Exit \/ Stop
  \/ \E n \in Launches : Thread(n)

\* The broker's threads go on; the emulator owes nothing.
Fairness == \A n \in Launches : WF_vars(Thread(n))

Spec == Init /\ [][Next]_vars /\ Fairness

-----------------------------------------------------------------------------
(* Properties. *)

\* A save is confirmed only by a whole file, unless the emulator died over it: the waits
\* of dolphin.py, ppsspp.py, pcsx2.py, scummvm.py and rpcs3.py never take a file for
\* written that still is being written.
SavedIsWhole == said.kind = "save" /\ said.ok => said.real

\* A load that is reported as done was done, wherever the broker has the means to tell:
\* access times or Dolphin's undo buffer, or the serial PCSX2 reports.  ScummVM's answers
\* when the keys are out, and can tell nothing; PPSSPP's takes a load it could not mark on
\* trust.  And nothing but a load may have moved the access time the answer goes by, which
\* the header read of Dolphin's own resume and the rename of a late save of PPSSPP do.
CanTell ==
  CASE host.kind \in {"dolphin", "ppsspp"} -> TRUE
    [] host.kind = "pcsx2" -> host.tells
    [] OTHER -> FALSE

LoadedForReal == said.kind = "load" /\ said.ok /\ CanTell => said.real

\* What the launchers answer, of saves and of loads, is so: both together.
AnswersHonest == TypeOK /\ SavedIsWhole /\ LoadedForReal

\* A thread loads into the launch it was started for and into no later one, although
\* ScummVM's is never told that its launch is over; and no emulator is handed a state of
\* another game where the game can be told.
ResumesRightly ==
  /\ resumed.own
  /\ host.tells => resumed.fits

\* A launch that stays behind an error dialog is reported as a failed boot, unless it is
\* stopped or dies first: the _boot_watchdog of PCSX2 and of RPCS3 does not lose it.
BootFailureNoticed ==
  \A n \in Launches :
    emu.launch = n /\ emu.at = "dialog" ~> n \in failed \/ emu.launch # n \/ ~Up
=============================================================================
