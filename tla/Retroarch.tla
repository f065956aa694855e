----------------------------- MODULE Retroarch -----------------------------
(* One RetroArch session (emulators/retroarch.py): the save, load, menu, disc *)
(* and exit requests of the API, the resume thread launch leaves behind, the  *)
(* core that answers to few of the commands it is sent, and the player.       *)
(*                                                                            *)
(* The API runs one request at a time; the tray (_disc_lock) keeps it and the *)
(* resume thread apart.  A wait that may time out is a step that may be taken *)
(* at any time.  A state file is the number of the write that made it: its    *)
(* inode and mtime tell versions apart.  A save the core took is on disk      *)
(* before the second wait after it runs out.                                  *)
EXTENDS Naturals, Sequences

CONSTANTS
  Discs,         \* how many discs the playlist lists
  Requests,      \* the kinds of request the API makes
  TaintRetries,  \* LOAD_TAINT_RETRY_LIMIT
  TracksAtime,   \* whether the mount keeps access times
  SlowEcho,      \* whether an echo may take longer than STATE_READ_HANDOUT_GRACE
  MaxWrites,     \* bound: how many state files are written
  MaxRequests,   \* bound: how many requests are made
  MaxAttempts,   \* bound: the load attempts RESUME_LOAD_WAIT has room for
  MaxHands       \* bound: how often the player presses a hotkey

ASSUME RetroarchAssumption ==
  /\ Discs \in Nat \ {0}
  /\ Requests \subseteq {"save", "load", "menu", "swap", "push", "get", "exit"}
  /\ TaintRetries \in Nat
  /\ TracksAtime \in BOOLEAN
  /\ SlowEcho \in BOOLEAN
  /\ MaxWrites \in Nat \ {0}
  /\ MaxRequests \in Nat
  /\ MaxAttempts \in Nat
  /\ MaxHands \in Nat

VARIABLES
  core,     \* the process: what its menu, slot and disc tray are at
  files,    \* the state files: the write each slot's file is from, 0 for none
  made,     \* of every write, what asked for it
  writing,  \* the saves the core took and has not written yet
  tray,     \* who holds _disc_lock
  known,    \* what the broker believes: _slot_homed and _disc_index
  op,       \* the API request in progress
  said,     \* the answer to the last one
  load,     \* _load_state_locked, which runs under the tray
  resume,   \* the deferred resume thread
  aside,    \* the state files a disc swap copied aside
  handout,  \* whether the state-file GET read the state a moment ago
  spent     \* the requests and the hotkeys there have been

vars == <<core, files, made, writing, tray, known, op, said, load, resume, aside, handout, spent>>

-----------------------------------------------------------------------------
Slot == {"home", "other"}
Origin == {"push", "save", "probe", "late", "player"}
NoFiles == [home |-> 0, other |-> 0]

NoOp == [kind |-> "none", pc |-> "idle", stage |-> "first", since |-> 0, before |-> NoFiles,
         menu |-> FALSE, hands |-> FALSE, to |-> 0, steps |-> 0]
NoLoad == [pc |-> "idle", file |-> 0, moved |-> FALSE,
           tainted |-> FALSE, game |-> FALSE, tries |-> 0]
Unsaid == [kind |-> "none", ok |-> FALSE, real |-> FALSE, menu |-> "found"]

TypeOK ==
  /\ core \in [up : BOOLEAN, playing : BOOLEAN, menu : BOOLEAN, slot : Slot,
               disc : 0 .. Discs - 1, open : BOOLEAN, asked : BOOLEAN, drifted : BOOLEAN]
  /\ files \in [Slot -> 0 .. MaxWrites]
  /\ made \in Seq(Origin)
  /\ writing \in Seq([to : Slot, by : {"save", "probe", "player", "old"}, age : 0 .. 1])
  /\ tray \in {"free", "op", "resume"}
  /\ known \in [homed : BOOLEAN, disc : 0 .. Discs - 1]
  /\ op \in [kind : Requests \cup {"none"},
             pc : {"idle", "lock", "settle", "home", "send", "wait", "toggle", "load", "replace",
                   "read", "playing", "copy", "eject", "step", "close", "flush", "quit"},
             stage : {"first", "rehomed", "past", "check", "probe", "again", "sure"},
             since : 0 .. MaxWrites, before : [Slot -> 0 .. MaxWrites], menu : BOOLEAN,
             hands : BOOLEAN, to : 0 .. Discs - 1, steps : 0 .. Discs]
  /\ load \in [pc : {"idle", "mark", "echo", "wait", "yes", "no"}, file : 0 .. MaxWrites,
               moved : BOOLEAN, tainted : BOOLEAN, game : BOOLEAN, tries : 0 .. TaintRetries + 1]
  /\ resume.pc \in {"off", "boot", "lock", "find", "settle", "load", "gap", "done", "failed"}

Init ==
  /\ \E slot \in Slot :
       core = [up |-> TRUE, playing |-> FALSE, menu |-> FALSE, slot |-> slot, disc |-> 0,
               open |-> FALSE, asked |-> FALSE, drifted |-> FALSE]
  /\ \E archived \in {0, 1} :
       /\ files = [home |-> archived, other |-> 0]
       /\ made = [n \in 1 .. archived |-> "push"]
  /\ writing = <<>>
  /\ tray = "free"
  /\ known = [homed |-> FALSE, disc |-> 0]
  /\ op = NoOp /\ said = Unsaid /\ load = NoLoad
  /\ \E pc \in {"off", "boot"} :
       resume = [pc |-> pc, ready |-> 0, loaded |-> 0, attempts |-> 0]
  /\ aside = NoFiles
  /\ handout = FALSE
  /\ spent = [requests |-> 0, hands |-> 0]

-----------------------------------------------------------------------------
(* The core.                                                                  *)

\* SAVE_STATE: an open menu swallows it.
TakesSave(by) ==
  writing' = IF core.menu THEN writing
             ELSE Append(writing, [to |-> core.slot, by |-> by, age |-> 0])

\* Somebody else got into the request, if so: what becomes of op and core.
Meddled(so, c) ==
  /\ op' = [op EXCEPT !.hands = op.pc \notin {"idle", "flush"} /\ (so \/ @)]
  /\ core' = [c EXCEPT !.drifted = @ \/ (so /\ op.kind = "swap")]

\* A save lands, late if its wait is over by then.  One that is not the
\* request's own may pass for it.
Lands ==
  /\ core.up
  /\ writing # <<>>
  /\ LET w == Head(writing)
     IN /\ made' = Append(made, IF w.age = 0 THEN w.by ELSE "late")
        /\ files' = [files EXCEPT ![w.to] = Len(made) + 1]
        /\ Meddled(w.by \in {"player", "old"}, core)
  /\ writing' = Tail(writing)
  /\ UNCHANGED <<tray, known, said, load, resume, aside, handout, spent>>

\* Room for n more state files under the bound.
RoomFor(n) == Len(made) + Len(writing) + n <= MaxWrites

\* A wait runs out: no save the core took has outlived one before.
MayTimeOut == \A i \in DOMAIN writing : writing[i].age = 0
Aged == [i \in DOMAIN writing |-> [writing[i] EXCEPT !.age = 1]]
\* The request that asked for them is over.
Abandoned == [i \in DOMAIN writing |-> [writing[i] EXCEPT !.age = 1, !.by = "old"]]

StartsPlaying ==
  /\ core.up /\ ~core.playing
  /\ core' = [core EXCEPT !.playing = TRUE]
  /\ UNCHANGED <<files, made, writing, tray, known, op, said, load, resume, aside, handout,
                 spent>>

\* The core reads the state it was told to load, which moves the access time
\* of a file stamped behind its mtime; or it never does.
Reads ==
  /\ core.up /\ core.asked
  /\ core' = [core EXCEPT !.asked = FALSE]
  /\ \/ UNCHANGED load
     \/ load' = IF load.pc \in {"echo", "wait"} /\ files.home = load.file
                THEN [load EXCEPT !.game = TRUE, !.moved = TRUE] ELSE load
  /\ UNCHANGED <<files, made, writing, tray, known, op, said, resume, aside, handout, spent>>

Dies ==
  /\ core.up
  /\ core' = [core EXCEPT !.up = FALSE, !.asked = FALSE, !.menu = FALSE]
  /\ writing' = <<>>
  /\ UNCHANGED <<files, made, tray, known, op, said, load, resume, aside, handout, spent>>

Driving == op.pc \in {"eject", "step", "close"}

\* The player's hotkeys: the menu, the state slot, a save of their own.
PlayerPresses ==
  /\ core.up /\ core.playing
  /\ op # NoOp \/ resume.pc \notin {"off", "done", "failed"} \/ spent.requests < MaxRequests
  /\ spent.hands < MaxHands
  /\ spent' = [spent EXCEPT !.hands = @ + 1]
  /\ \/ Meddled(TRUE, [core EXCEPT !.menu = ~@]) /\ UNCHANGED writing
     \/ /\ ~core.menu
        /\ \E s \in Slot \ {core.slot} : core' = [core EXCEPT !.slot = s]
        /\ UNCHANGED <<op, writing>>
     \/ /\ ~core.menu /\ RoomFor(4)
        /\ TakesSave("player")
        /\ UNCHANGED <<core, op>>
  /\ UNCHANGED <<files, made, tray, known, said, load, resume, aside, handout>>

-----------------------------------------------------------------------------
(* Requests.                                                                  *)

Begin(kind) ==
  /\ op = NoOp /\ core.up
  /\ spent.requests < MaxRequests
  /\ spent' = [spent EXCEPT !.requests = @ + 1]
  /\ op' \in [kind : {kind}, pc : {"lock"}, stage : {"first"}, since : {Len(made)},
               before : {files}, menu : {core.menu}, hands : {FALSE}, to : 0 .. Discs - 1,
               steps : {0}]
  /\ CASE kind \in {"save", "exit"} -> RoomFor(3) /\ op'.to = 0
       [] kind = "swap" -> RoomFor(3) /\ op'.to # known.disc
       [] kind = "push" -> RoomFor(1) /\ op'.to = 0
       [] kind = "get" -> files.home # 0 /\ op'.to = 0
       [] OTHER -> op'.to = 0
  /\ said' = Unsaid
  /\ UNCHANGED <<core, files, made, writing, tray, known, load, resume, aside, handout>>

\* Whether the request leaves a menu open that was not, and nobody else's doing.
MenuLeft(open, stray) ==
  IF ~open \/ op.menu \/ op.hands THEN "found" ELSE IF stray THEN "stray" ELSE "opened"

\* The request is answered, and gives the tray back if it has it.  What the
\* answer claims is real if the slot is a newer state, or the core read it.
Answered(ok, menu, stray) ==
  /\ said' = [kind |-> op.kind, ok |-> ok, menu |-> MenuLeft(menu, stray),
              real |-> IF op.kind = "load" THEN load.game ELSE files.home > op.since]
  /\ op' = IF op.kind = "exit" THEN [NoOp EXCEPT !.kind = "exit", !.pc = "flush"] ELSE NoOp
  /\ tray' = IF tray = "op" THEN "free" ELSE tray

Answer(ok) ==
  /\ Answered(ok, core.menu, FALSE)
  /\ writing' = Abandoned
  /\ UNCHANGED <<core, files, made, known, load, resume, aside, handout, spent>>

\* _save_into_slot, load_state and lock_for_state_write wait for the tray ...
TakeTray ==
  /\ op.pc = "lock" /\ op.kind \in {"save", "load", "push", "exit"}
  /\ tray = "free"
  /\ tray' = "op"
  /\ op' = [op EXCEPT !.pc = CASE op.kind = "load" -> "load" [] op.kind = "push" -> "replace"
                               [] OTHER -> IF known.homed THEN "send" ELSE "settle"]
  /\ load' = IF op.kind = "load" THEN [NoLoad EXCEPT !.pc = "mark"] ELSE load
  /\ UNCHANGED <<core, files, made, writing, known, said, resume, aside, handout, spent>>

\* ... but not for ever.
TrayTimesOut ==
  /\ op.pc = "lock" /\ op.kind \in {"save", "load", "push", "exit"}
  /\ tray = "resume"
  /\ Answer(FALSE)

\* Variant: a file the check created stays.
UndoKeepsNew ==
  /\ files' = [x \in Slot |-> IF aside[x] = 0 THEN files[x] ELSE aside[x]]
  /\ aside' = NoFiles

\* _undo_state_writes: every file back the way it was, the created ones deleted.
Undo == files' = aside /\ aside' = NoFiles

\* The process is gone: a command cannot be written, or its wait runs out.
SeesDeath ==
  /\ ~core.up
  /\ \/ /\ op.kind \in {"save", "exit"}
        /\ op.pc \in {"settle", "home", "send", "wait", "toggle"}
        /\ UNCHANGED <<files, aside>>
     \/ /\ op.kind = "swap"
        /\ op.pc \in {"playing", "copy", "send", "wait", "toggle", "eject", "step", "close"}
        /\ IF op.pc \in {"send", "wait", "toggle"} THEN Undo ELSE UNCHANGED <<files, aside>>
  /\ Answered(op.stage = "check", core.menu, FALSE)
  /\ UNCHANGED <<core, made, writing, known, load, resume, handout, spent>>

-----------------------------------------------------------------------------
(* Saving: _save_into_slot and _save_past_menu.                               *)

\* The first save waits for the game to be past its boot, for so long.
Settle ==
  /\ op.pc = "settle" /\ core.up
  /\ op' = [op EXCEPT !.pc = "home"]
  /\ UNCHANGED <<core, files, made, writing, tray, known, said, load, resume, aside, handout,
                 spent>>

\* _home_state_slot: an open menu swallows the presses, and nothing says so.
HomeSlot ==
  /\ op.pc = "home" /\ core.up
  /\ core' = [core EXCEPT !.slot = IF core.menu THEN @ ELSE "home"]
  /\ known' = [known EXCEPT !.homed = TRUE]
  /\ op' = [op EXCEPT !.pc = "send"]
  /\ UNCHANGED <<files, made, writing, tray, said, load, resume, aside, handout, spent>>

\* _try_save and _probe_save: a snapshot, then SAVE_STATE.
SendSave ==
  /\ op.pc = "send" /\ core.up
  /\ op' = [op EXCEPT !.pc = "wait", !.before = files]
  /\ TakesSave(IF op.kind = "swap" THEN "probe" ELSE "save")
  /\ UNCHANGED <<core, files, made, tray, known, said, load, resume, aside, handout, spent>>

\* Variant: any state file that changed confirms the save.
AnySlotChanged == files # op.before

\* _wait_for_state_file: the slot's own file is another.
HomeChanged == files.home # op.before.home

Confirmed ==
  /\ op.kind \in {"save", "exit"} /\ op.pc = "wait"
  /\ HomeChanged

\* Variant: the retry's confirmation is taken at its word.
SavedPlainly ==
  /\ Confirmed
  /\ Answer(TRUE)

\* The save is on disk.  After the menu was toggled it takes one more to tell
\* that from a first save that was only slow.
Saved ==
  /\ Confirmed
  /\ IF op.stage = "past"
     THEN /\ op' = [op EXCEPT !.stage = "check", !.pc = "send"]
          /\ UNCHANGED <<core, files, made, writing, tray, known, said, load, resume, aside,
                         handout, spent>>
     ELSE Answer(TRUE)

ToggleBack == core' = [core EXCEPT !.menu = ~@]

\* The wait ran out: the player moved the slot, or a menu swallows the saves.
SaveTimesOut ==
  /\ op.kind \in {"save", "exit"} /\ op.pc = "wait" /\ core.up
  /\ MayTimeOut
  /\ writing' = IF op.stage = "first" THEN Aged ELSE Abandoned
  /\ CASE op.stage = "first" ->
            /\ op' = IF files = op.before THEN [op EXCEPT !.pc = "toggle"]
                     ELSE [op EXCEPT !.pc = "home", !.stage = "rehomed"]
            /\ UNCHANGED <<core, tray, said>>
       [] op.stage = "rehomed" -> Answered(FALSE, core.menu, FALSE) /\ UNCHANGED core
       [] op.stage \in {"past", "check"} ->
            IF files = op.before
            THEN ToggleBack /\ Answered(op.stage = "check", ~core.menu, FALSE)
            ELSE UNCHANGED core /\ Answered(op.stage = "check", core.menu, TRUE)
  /\ UNCHANGED <<files, made, known, load, resume, aside, handout, spent>>

\* MENU_TOGGLE, and what the retry does next.
Toggle ==
  /\ op.pc = "toggle" /\ core.up
  /\ core' = [core EXCEPT !.menu = ~@]
  /\ op' = IF op.kind = "swap" THEN [op EXCEPT !.pc = "send", !.stage = "again"]
           ELSE [op EXCEPT !.pc = "home", !.stage = "past"]
  /\ UNCHANGED <<files, made, writing, tray, known, said, load, resume, aside, handout, spent>>

\* toggle_menu is refused while the tray is held.
ToggleMenu ==
  /\ op.kind = "menu" /\ op.pc = "lock"
  /\ core' = IF tray = "free" /\ core.up THEN [core EXCEPT !.menu = ~@] ELSE core
  /\ said' = [Unsaid EXCEPT !.kind = "menu", !.ok = tray = "free" /\ core.up]
  /\ op' = NoOp
  /\ UNCHANGED <<files, made, writing, tray, known, load, resume, aside, handout, spent>>

-----------------------------------------------------------------------------
(* Swapping discs: swap_disc and _close_menu_before_tray.                     *)
SwapTakesTray ==
  /\ op.kind = "swap" /\ op.pc = "lock"
  /\ IF tray = "free"
     THEN /\ tray' = "op" /\ op' = [op EXCEPT !.pc = "playing"]
          /\ UNCHANGED <<core, files, made, writing, known, said, load, resume, aside, handout,
                         spent>>
     ELSE Answer(FALSE)

SwapPlaying ==
  /\ op.pc = "playing" /\ core.up
  /\ \/ /\ core.playing
        /\ op' = [op EXCEPT !.pc = "copy"]
        /\ UNCHANGED <<core, files, made, writing, tray, known, said, load, resume, aside,
                       handout, spent>>
     \/ Answer(FALSE)

\* The states are copied aside, or cannot be.
CopyAside ==
  /\ op.pc = "copy" /\ core.up
  /\ \/ /\ aside' = files
        /\ op' = [op EXCEPT !.pc = "send", !.stage = "probe"]
        /\ UNCHANGED <<core, files, made, writing, tray, known, said, load, resume, handout,
                       spent>>
     \/ Answer(FALSE)

\* Variant: one probe after the toggle is enough.
ProbedOnce ==
  /\ op.kind = "swap" /\ op.pc = "wait"
  /\ files # op.before
  /\ op' = [op EXCEPT !.pc = "eject"] /\ writing' = Abandoned /\ Undo
  /\ UNCHANGED <<core, made, tray, known, said, load, resume, handout, spent>>

\* A probe wrote: no menu is up, once the probe after it wrote as well.
Probed ==
  /\ op.kind = "swap" /\ op.pc = "wait"
  /\ files # op.before
  /\ IF op.stage = "again"
     THEN op' = [op EXCEPT !.stage = "sure", !.pc = "send"] /\ UNCHANGED <<files, writing, aside>>
     ELSE op' = [op EXCEPT !.pc = "eject"] /\ writing' = Abandoned /\ Undo
  /\ UNCHANGED <<core, made, tray, known, said, load, resume, handout, spent>>

ProbeTimesOut ==
  /\ op.kind = "swap" /\ op.pc = "wait" /\ core.up
  /\ files = op.before
  /\ MayTimeOut
  /\ writing' = IF op.stage = "probe" THEN Aged ELSE Abandoned
  /\ IF op.stage = "probe"
     THEN op' = [op EXCEPT !.pc = "toggle"] /\ UNCHANGED <<core, files, aside, tray, said>>
     ELSE /\ ToggleBack /\ Undo
          /\ said' = [Unsaid EXCEPT !.kind = "swap", !.menu = MenuLeft(~core.menu, FALSE)]
          /\ op' = NoOp /\ tray' = "free"
  /\ UNCHANGED <<made, known, load, resume, handout, spent>>

\* DISK_EJECT_TOGGLE, a DISK_NEXT for every step, DISK_EJECT_TOGGLE: a menu
\* drops them.
Eject ==
  /\ op.pc = "eject" /\ core.up
  /\ core' = IF core.menu THEN core ELSE [core EXCEPT !.open = TRUE]
  /\ op' = [op EXCEPT !.pc = "step", !.steps = (op.to + Discs - known.disc) % Discs]
  /\ UNCHANGED <<files, made, writing, tray, known, said, load, resume, aside, handout, spent>>

DiskNext ==
  /\ op.pc = "step" /\ core.up
  /\ IF op.steps = 0
     THEN op' = [op EXCEPT !.pc = "close"] /\ UNCHANGED core
     ELSE /\ op' = [op EXCEPT !.steps = @ - 1]
          /\ core' = IF core.menu \/ ~core.open THEN core
                     ELSE [core EXCEPT !.disc = (@ + 1) % Discs]
  /\ UNCHANGED <<files, made, writing, tray, known, said, load, resume, aside, handout, spent>>

CloseTray ==
  /\ op.pc = "close" /\ core.up
  /\ core' = IF core.menu THEN core ELSE [core EXCEPT !.open = ~@]
  /\ known' = [known EXCEPT !.disc = op.to]
  /\ said' = [kind |-> "swap", ok |-> TRUE, real |-> TRUE, menu |-> MenuLeft(core.menu, FALSE)]
  /\ op' = NoOp /\ tray' = "free"
  /\ UNCHANGED <<files, made, writing, load, resume, aside, handout, spent>>

-----------------------------------------------------------------------------
(* Loading: _load_state_locked, for load_state and for the resume.            *)
LoadMark ==
  /\ load.pc = "mark"
  /\ IF ~core.up \/ files.home = 0
     THEN load' = [load EXCEPT !.pc = "no"] /\ UNCHANGED core
     ELSE /\ load' = [load EXCEPT !.pc = "echo", !.file = files.home, !.moved = FALSE,
                                  !.tainted = FALSE, !.game = FALSE]
          /\ core' = [core EXCEPT !.asked = TRUE]
  /\ UNCHANGED <<files, made, writing, tray, known, op, said, resume, aside, handout, spent>>

\* LOAD_STATE_SLOT is echoed, or is not, or the file could not be stamped.
LoadEcho ==
  /\ load.pc = "echo"
  /\ \E pc \in {IF TracksAtime THEN "wait" ELSE "yes", "no"} :
       /\ core.up \/ pc = "no"
       /\ load' = [load EXCEPT !.pc = pc]
  /\ UNCHANGED <<core, files, made, writing, tray, known, op, said, resume, aside, handout,
                 spent>>

\* Variant: any read is the load's.
PollTrusting ==
  /\ load.pc = "wait"
  /\ load.moved \/ files.home # load.file
  /\ load' = [load EXCEPT !.pc = IF files.home # load.file THEN "no" ELSE "yes"]
  /\ UNCHANGED <<core, files, made, writing, tray, known, op, said, resume, aside, handout,
                 spent>>

\* _wait_for_state_read: the file was replaced; or it was read, which counts
\* unless the GET route handed it out a moment ago.
Poll ==
  /\ load.pc = "wait"
  /\ \/ files.home # load.file /\ load' = [load EXCEPT !.pc = "no"]
     \/ /\ files.home = load.file /\ load.moved /\ ~load.tainted
        /\ load' = IF handout THEN [load EXCEPT !.tainted = TRUE] ELSE [load EXCEPT !.pc = "yes"]
  /\ UNCHANGED <<core, files, made, writing, tray, known, op, said, resume, aside, handout,
                 spent>>

\* A load that was tainted is tried again with a fresh stamp.
LoadTimesOut ==
  /\ load.pc = "wait"
  /\ load' = IF load.tainted /\ load.tries < TaintRetries
             THEN [load EXCEPT !.pc = "mark", !.tries = @ + 1] ELSE [load EXCEPT !.pc = "no"]
  /\ UNCHANGED <<core, files, made, writing, tray, known, op, said, resume, aside, handout,
                 spent>>

LoadAnswers ==
  /\ op.pc = "load" /\ load.pc \in {"yes", "no"}
  /\ Answered(load.pc = "yes", core.menu, FALSE)
  /\ load' = NoLoad
  /\ UNCHANGED <<core, files, made, writing, known, resume, aside, handout, spent>>

-----------------------------------------------------------------------------
(* The state-file routes, and the exit.                                       *)

\* put_state_file: os.replace, under the tray.
Push ==
  /\ op.pc = "replace"
  /\ made' = Append(made, "push")
  /\ files' = [files EXCEPT !.home = Len(made) + 1]
  /\ said' = [Unsaid EXCEPT !.kind = "push", !.ok = TRUE]
  /\ op' = NoOp /\ tray' = "free"
  /\ UNCHANGED <<core, writing, known, load, resume, aside, handout, spent>>

\* get_state_file notes the handout, then reads the file.
HandOut ==
  /\ op.kind = "get" /\ op.pc = "lock"
  /\ handout' = TRUE
  /\ op' = [op EXCEPT !.pc = "read"]
  /\ UNCHANGED <<core, files, made, writing, tray, known, said, load, resume, aside, spent>>

GetReads ==
  /\ op.pc = "read"
  /\ load' = IF load.pc \in {"echo", "wait"} /\ files.home = load.file
             THEN [load EXCEPT !.moved = TRUE] ELSE load
  /\ op' = NoOp
  /\ UNCHANGED <<core, files, made, writing, tray, known, said, resume, aside, handout, spent>>

\* STATE_READ_HANDOUT_GRACE is over.  A poll comes sooner, and an echo does
\* unless it is slow.
GraceEnds ==
  /\ handout /\ op.pc # "read"
  /\ load.moved /\ ~load.tainted => load.pc # "wait" /\ (SlowEcho \/ load.pc # "echo")
  /\ handout' = FALSE
  /\ UNCHANGED <<core, files, made, writing, tray, known, op, said, load, resume, aside, spent>>

\* An exit that writes no state.
ExitWithoutState ==
  /\ op.kind = "exit" /\ op.pc = "lock"
  /\ op' = [NoOp EXCEPT !.kind = "exit", !.pc = "flush"]
  /\ UNCHANGED <<core, files, made, writing, tray, known, said, load, resume, aside, handout,
                 spent>>

\* _flush_sram and _quit: whatever the core answers, it is gone afterwards.
Quit ==
  /\ op.pc = "flush"
  /\ core' = [core EXCEPT !.up = FALSE, !.asked = FALSE, !.menu = FALSE]
  /\ writing' = <<>>
  /\ op' = NoOp
  /\ UNCHANGED <<files, made, tray, known, said, load, resume, aside, handout, spent>>

-----------------------------------------------------------------------------
(* The resume thread: _deferred_load_state and _load_until_confirmed.         *)
others == <<core, files, made, writing, known, op, said, aside, handout, spent>>

ResumeBoots ==
  /\ resume.pc = "boot"
  /\ \E pc \in {"lock", "failed"} :
       /\ pc = "lock" => core.up /\ core.playing
       /\ resume' = [resume EXCEPT !.pc = pc]
  /\ UNCHANGED <<others, tray, load>>

\* Variant: only the first attempt looks at the file.
ResumeTakesTrayBlindly ==
  /\ resume.pc = "lock" /\ tray = "free"
  /\ IF ~core.up
     THEN resume' = [resume EXCEPT !.pc = "failed"] /\ UNCHANGED <<tray, load>>
     ELSE /\ tray' = "resume"
          /\ IF resume.ready = 0
             THEN resume' = [resume EXCEPT !.pc = "find"] /\ UNCHANGED load
             ELSE resume' = [resume EXCEPT !.pc = "load"] /\ load' = [NoLoad EXCEPT !.pc = "mark"]
  /\ UNCHANGED others

\* An attempt takes the tray; a later one goes on only if the file found ready
\* is still there.
ResumeTakesTray ==
  /\ resume.pc = "lock" /\ tray = "free"
  /\ IF ~core.up \/ resume.ready \notin {0, files.home}
     THEN resume' = [resume EXCEPT !.pc = "failed"] /\ UNCHANGED <<tray, load>>
     ELSE /\ tray' = "resume"
          /\ IF resume.ready = 0
             THEN resume' = [resume EXCEPT !.pc = "find"] /\ UNCHANGED load
             ELSE resume' = [resume EXCEPT !.pc = "load"] /\ load' = [NoLoad EXCEPT !.pc = "mark"]
  /\ UNCHANGED others

ResumeWaitsInVain ==
  /\ resume.pc = "lock" /\ tray = "op"
  /\ resume' = [resume EXCEPT !.pc = "gap"]
  /\ UNCHANGED <<others, tray, load>>

\* The slot holds a state, or the attempt's share of the wait is over.
ResumeFinds ==
  /\ resume.pc = "find"
  /\ IF files.home # 0
     THEN resume' = [resume EXCEPT !.pc = "settle"] /\ UNCHANGED tray
     ELSE resume' = [resume EXCEPT !.pc = "gap"] /\ tray' = "free"
  /\ UNCHANGED <<others, load>>

\* After the settle the file is fingerprinted and loaded.
ResumeSettles ==
  /\ resume.pc = "settle"
  /\ resume' = [resume EXCEPT !.pc = "load", !.ready = files.home]
  /\ load' = [NoLoad EXCEPT !.pc = "mark"]
  /\ UNCHANGED <<others, tray>>

\* Variant: an attempt that failed keeps the tray.
ResumeKeepsTray ==
  /\ resume.pc = "load" /\ load.pc \in {"yes", "no"}
  /\ resume' = IF load.pc = "yes" THEN [resume EXCEPT !.pc = "done", !.loaded = load.file]
               ELSE [resume EXCEPT !.pc = "gap"]
  /\ tray' = IF load.pc = "yes" THEN "free" ELSE tray
  /\ load' = NoLoad
  /\ UNCHANGED others

ResumeAttempted ==
  /\ resume.pc = "load" /\ load.pc \in {"yes", "no"}
  /\ resume' = IF load.pc = "yes" THEN [resume EXCEPT !.pc = "done", !.loaded = load.file]
               ELSE [resume EXCEPT !.pc = "gap"]
  /\ tray' = "free"
  /\ load' = NoLoad
  /\ UNCHANGED others

\* The next attempt comes after RESUME_LOAD_RETRY_GAP, if there is time for it.
ResumeRetries ==
  /\ resume.pc = "gap"
  /\ \/ resume' = [resume EXCEPT !.pc = "failed"]
     \/ /\ core.up /\ resume.attempts + 1 < MaxAttempts
        /\ resume' = [resume EXCEPT !.pc = "lock", !.attempts = @ + 1]
  /\ UNCHANGED <<others, tray, load>>

-----------------------------------------------------------------------------
Saving == TakeTray \/ TrayTimesOut \/ SeesDeath \/ Settle \/ HomeSlot \/ SendSave \/ Saved
          \/ SaveTimesOut \/ Toggle \/ ToggleMenu
Swapping == SwapTakesTray \/ SwapPlaying \/ CopyAside \/ Probed \/ ProbeTimesOut \/ Eject
            \/ DiskNext \/ CloseTray
Loading == LoadMark \/ LoadEcho \/ Poll \/ LoadTimesOut \/ LoadAnswers
Routes == Push \/ HandOut \/ GetReads \/ ExitWithoutState \/ Quit
Resuming == ResumeBoots \/ ResumeTakesTray \/ ResumeWaitsInVain \/ ResumeFinds \/ ResumeSettles
            \/ ResumeAttempted \/ ResumeRetries

Next ==
  \/ \E kind \in Requests : Begin(kind)
  \/ Saving \/ Swapping \/ Loading \/ Routes \/ Resuming
  \/ Lands \/ StartsPlaying \/ Reads \/ Dies \/ PlayerPresses \/ GraceEnds

\* While one of the broker's threads can go on, one does, and its waits run out; a save the
\* core took is written.  Nothing is asked of the rest of the core, nor of the player.
Fairness == WF_vars(Saving \/ Swapping \/ Routes \/ Loading \/ Resuming) /\ WF_vars(Lands)

Spec == Init /\ [][Next]_vars /\ Fairness

-----------------------------------------------------------------------------
(* A save answered with success is on disk: the slot the broker reads back is *)
(* a state written since the request came, and not the one that was there     *)
(* (retroarch.py _try_save and _wait_for_state_file).                         *)
SavedForReal ==
  said.kind \in {"save", "exit"} /\ said.ok => said.real

(* A load answered with success was made: on a mount with access times the    *)
(* core has read the state, and not only the GET route                        *)
(* (retroarch.py _load_state_locked and _wait_for_state_read).                *)
LoadedForReal ==
  /\ TracksAtime /\ said.kind = "load" /\ said.ok => said.real
  /\ TracksAtime /\ load.pc = "yes" => load.game

(* Of saves and of loads, what the broker answers is what the core did: both   *)
(* together.                                                                   *)
AnswersHonest == TypeOK /\ SavedForReal /\ LoadedForReal

(* The resume loads the state it found ready, and nothing a request wrote     *)
(* between its attempts: only a save given up on, or one the player's own     *)
(* hotkey made, can get in (retroarch.py _load_until_confirmed).              *)
ResumeLoadsWhatItFound ==
  resume.pc = "done" =>
    resume.loaded = resume.ready \/ made[resume.loaded] \in {"late", "player"}

(* As long as the player leaves the menu alone while a swap is at work, and no *)
(* other save lands in it, the index the next swap counts from is the disc in  *)
(* the tray, whether the swaps so far worked, were refused or failed, and      *)
(* whatever menu was open (retroarch.py swap_disc, _close_menu_before_tray).   *)
DiscTracked ==
  core.up /\ ~core.drifted /\ ~Driving => core.disc = known.disc /\ ~core.open

(* The saves a swap makes to look for a menu are gone after the look, for     *)
(* the exit dump ships every state file (retroarch.py _undo_state_writes).    *)
ProbesUndone ==
  ~(op.kind = "swap" /\ op.pc \in {"send", "wait", "toggle"}) =>
    \A x \in Slot : files[x] # 0 => made[files[x]] # "probe"

(* Finding the disc in the tray costs nothing else: both together.             *)
SwapsSound == DiscTracked /\ ProbesUndone

(* A save or a swap leaves no menu open that was not, unless the player or an  *)
(* older save got into it, or its first save landed too late in the retry to   *)
(* be seen by it and too early to be missed                                    *)
(* (retroarch.py _save_past_menu and _close_menu_before_tray).                 *)
MenuAsFound == said.menu # "opened"

(* Whoever takes the tray gives it back, whatever the core does and wherever   *)
(* it dies (retroarch.py _disc_lock).                                          *)
TrayComesFree == tray # "free" ~> tray = "free"
=============================================================================
