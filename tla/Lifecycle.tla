----------------------------- MODULE Lifecycle -----------------------------
(***************************************************************************)
(* One broker process driving one emulator at a time through a session:    *)
(* activate, launch, save states, state pushes, exit, the upload of the    *)
(* session's saves, and what happens when the emulator dies, refuses to    *)
(* die, or the broker itself restarts.                                     *)
(*                                                                         *)
(* A save tree is one save file: who wrote it, which of its saves it is,   *)
(* and whether its mtime is past the launch baseline.  A state is a number.*)
(* Session s's emulator process is s itself.  Two launchers are modelled:  *)
(* "direct" (the emulator writes the tree the dump walks) and "staged"     *)
(* (xemu: it writes a disk image that is injected before the boot and      *)
(* extracted after it).                                                    *)
(***************************************************************************)
EXTENDS Naturals, FiniteSets

CONSTANTS
    MaxSessions,  \* bound: sessions one behaviour may start
    MaxSaves,     \* bound: in-game saves per session
    MaxStates,    \* bound: states ever written into the working slot
    MaxFaults,    \* bound: faults per behaviour
    Launchers,    \* the launchers to start from
    Fault         \* the faults the environment may inject

ASSUME BoundsAssumption ==
    /\ MaxSessions \in Nat \ {0}
    /\ MaxSaves \in Nat
    /\ MaxStates \in Nat
    /\ MaxFaults \in Nat
ASSUME LaunchersAssumption == Launchers \subseteq {"direct", "staged"}

Sid == 1..MaxSessions
Nobody == 0
NoState == 0
Brought == MaxStates + 1  \* a state that came with an archive, not written here

Version == [by : 0..MaxSessions, n : 0..MaxSaves]
NoSave == [by |-> 0, n |-> 0]

Mode == {"none", "uploaded", "skipped", "failed"}
Warning == {"exit_error", "forced_exit", "restore_failed"}
Archive == [from : Sid, v : Version]

\* The locals of _do_exit: what was asked, and what its report says so far.
NoExit == [want |-> FALSE, frame |-> FALSE, state |-> NoState, told |-> {},
           zip |-> NoSave, mode |-> "none", kept |-> FALSE]

\* Where the holder of _SESSION_LOCK stands; "idle" when no such operation runs.
Phase == {"idle", "starting", "activating", "reaped", "cleared", "restored",
          "injecting", "spawning", "spawned", "launched", "saving", "exiting",
          "stopping", "extracting", "confirming", "dumping", "uploading",
          "keeping", "retiring"}

VARIABLES
    launcher,  \* what the sessions of this behaviour launch
    at,        \* the phase of the operation holding _SESSION_LOCK
    pushing,   \* a state push streams its body under _SESSION_LOCK
    ex,        \* the locals of the exit in flight
    session,   \* SESSION: its id, or Nobody
    served,    \* LAST_EXIT: the session whose emulator the read routes use
    last,      \* the newest session id
    emu,       \* each session's Emulator object, while it lives: frame, restoreFailed
    reported,  \* the session the emulator watch has logged
    running,   \* the emulator processes alive
    record,    \* PID_FILE: the process it names, or Nobody
    tree,      \* the save tree the dump walks (xemu: the staging dir)
    image,     \* xemu's disk image: the title's save on it
    slot,      \* the state file in the working slot
    states,    \* states written so far
    wrote,     \* in-game saves each emulator has written
    given,     \* the save RomM sent to restore into each session
    library,   \* the archives RomM has received
    kept,      \* the archives in EXPORT_DIR
    outcome,   \* the exit report RomM got for each session
    cleared,   \* history: an activate has cleared the slot since the last exit
    died,      \* history: emulators that exited on their own
    missed,    \* history: emulators the broker gave up on or never recorded
    haunted,   \* history: sessions another session's emulator wrote into
    faults     \* faults injected so far

brokerVars == <<at, pushing, ex, session, served, last, emu, reported>>
processVars == <<running, record, died, missed>>
diskVars == <<tree, image, slot, states>>
saveVars == <<wrote, given, haunted, cleared>>
rommVars == <<library, kept, outcome>>
vars == <<launcher, brokerVars, processVars, diskVars, saveVars, rommVars, faults>>

Staged == launcher = "staged"
Free == at = "idle" /\ ~pushing
Alive == session \in running

Works == faults' = faults
Fails(f) == f \in Fault /\ faults < MaxFaults /\ faults' = faults + 1

\* The Emulator objects as they are built.
NewObjects == [s \in Sid |-> [frame |-> NoState, restoreFailed |-> FALSE]]

Init ==
    /\ launcher \in Launchers
    /\ at = "starting" /\ pushing = FALSE /\ ex = NoExit
    /\ session = Nobody /\ served = Nobody /\ last = 0 /\ reported = Nobody
    /\ emu = NewObjects
    /\ running = {} /\ record = Nobody /\ died = {} /\ missed = {}
    /\ tree = [v |-> NoSave, fresh |-> FALSE] /\ image = NoSave
    /\ slot = NoState /\ states = 0
    /\ wrote = [s \in Sid |-> 0] /\ given = [s \in Sid |-> NoSave] /\ haunted = {}
    /\ cleared = FALSE
    /\ library = {} /\ kept = {}
    /\ outcome = [s \in Sid |-> NoExit]
    /\ faults = 0

-----------------------------------------------------------------------------
(* Activate: _start_session, under _SESSION_LOCK.                          *)

Activate ==
    /\ Free /\ session = Nobody /\ last < MaxSessions
    /\ at' = "activating"
    /\ UNCHANGED <<launcher, pushing, ex, session, served, last, emu, reported,
                   processVars, diskVars, saveVars, rommVars, faults>>

\* A variant: the startup leaves the orphan to the next activate.
ReapAtActivateOnly ==
    /\ at \in {"starting", "activating"}
    /\ at' = IF at = "starting" THEN "idle" ELSE "reaped"
    /\ IF at = "starting" THEN UNCHANGED <<record, running>>
       ELSE record' = Nobody /\ running' = running \ {record}
    /\ UNCHANGED <<launcher, pushing, ex, session, served, last, emu, reported, died,
                   missed, diskVars, saveVars, rommVars, faults>>

\* reap_orphan, at startup and at every activate: the record goes whatever
\* happens to the process it names ("reap": the process outlives the kill, or
\* the record could not be read).
ReapOrphan ==
    /\ at \in {"starting", "activating"}
    /\ at' = IF at = "starting" THEN "idle" ELSE "reaped"
    /\ record' = Nobody
    /\ \/ /\ running' = running \ {record}
          /\ UNCHANGED missed /\ Works
       \/ /\ record \in running /\ Fails("reap")
          /\ missed' = missed \cup {record}
          /\ UNCHANGED running
    /\ UNCHANGED <<launcher, pushing, ex, session, served, last, emu, reported, died,
                   diskVars, saveVars, rommVars>>

\* Every refusal up to the working slot's clear: core, rom, archive, imports.
Refuse ==
    /\ at = "reaped"
    /\ at' = "idle"
    /\ UNCHANGED <<launcher, pushing, ex, session, served, last, emu, reported,
                   processVars, diskVars, saveVars, rommVars, faults>>

\* clear_working_slot then prepare_restore: xemu's also stops every stray xemu.
ClearWorkingSlot ==
    /\ at = "reaped"
    /\ at' = "cleared"
    /\ slot' = NoState /\ tree' = [v |-> NoSave, fresh |-> FALSE]
    /\ cleared' = TRUE
    /\ \/ running' = (IF Staged THEN {} ELSE running) /\ Works
       \/ Staged /\ running # {} /\ Fails("outlive") /\ running' = running
    /\ UNCHANGED <<launcher, pushing, ex, session, served, last, emu, reported,
                   record, died, missed, image, states, wrote, given, haunted, rommVars>>

\* write_save_archive, of whichever archive RomM names, or of none: the members
\* keep their archived mtimes, so nothing restored is past the baseline to come,
\* and the states among them go into the working slot.  A member that cannot be
\* written refuses the activate, with the others written.
Restore ==
    /\ at = "cleared"
    /\ \E v \in {a.v : a \in library} \cup {NoSave} :
         LET restored == [v |-> v, fresh |-> FALSE] IN
         /\ slot' \in (IF Staged \/ v = NoSave THEN {slot} ELSE {slot, Brought})
         /\ \/ /\ tree' = restored
               /\ given' = [given EXCEPT ![last + 1] = v]
               /\ at' = "restored" /\ Works
            \/ /\ v # NoSave /\ Fails("restore")
               /\ tree' \in {tree, restored}
               /\ at' = "idle"
               /\ UNCHANGED given
    /\ UNCHANGED <<launcher, pushing, ex, session, served, last, emu, reported,
                   processVars, image, states, wrote, haunted, cleared, rommVars>>

\* _resolve_callback refuses a base_url only now, with the slot already cleared.
RefuseCallback ==
    /\ at = "restored"
    /\ at' = "idle"
    /\ UNCHANGED <<launcher, pushing, ex, session, served, last, emu, reported,
                   processVars, diskVars, saveVars, rommVars, faults>>

\* new_session drops LAST_EXIT, and with it the only earlier Emulator object left.
NewSession ==
    /\ at = "restored"
    /\ last' = last + 1 /\ session' = last + 1 /\ served' = Nobody
    /\ emu' = NewObjects
    /\ at' = IF Staged THEN "injecting" ELSE "spawning"
    /\ UNCHANGED <<launcher, pushing, ex, reported, processVars, diskVars,
                   saveVars, rommVars, faults>>

\* xemu's launch, before the boot: empty the title's trees on the image, then
\* write the staged files.  Either part failing leaves the session flagged.
InjectSaves ==
    /\ at = "injecting"
    /\ at' = "spawning"
    /\ \/ image' = tree.v /\ UNCHANGED emu /\ Works
       \/ /\ Fails("inject")
          /\ image' \in {image, NoSave}
          /\ emu' = [emu EXCEPT ![session].restoreFailed = TRUE]
    /\ UNCHANGED <<launcher, pushing, ex, session, served, last, reported, processVars,
                   tree, slot, states, saveVars, rommVars>>

RetireSession == served' = session /\ session' = Nobody

\* boot_path, then _spawn's Popen.
Spawn ==
    /\ at = "spawning"
    /\ at' = "spawned"
    /\ running' = running \cup {session}
    /\ UNCHANGED <<launcher, pushing, ex, session, served, last, emu, reported, record,
                   died, missed, diskVars, saveVars, rommVars, faults>>

LaunchFails ==
    /\ at = "spawning" /\ Fails("launch")
    /\ RetireSession
    /\ at' = "idle"
    /\ UNCHANGED <<launcher, pushing, ex, last, emu, reported, processVars,
                   diskVars, saveVars, rommVars>>

RecordPid ==
    /\ at = "spawned"
    /\ record' = session
    /\ at' = "launched"
    /\ UNCHANGED <<launcher, pushing, ex, session, served, last, emu, reported, running,
                   died, missed, diskVars, saveVars, rommVars, faults>>

\* The record cannot be written: Emulator.stop puts the process down, and the
\* raise retires the session.  A process that outlives that has no record.
RecordFails ==
    /\ at = "spawned" /\ Fails("record")
    /\ \/ running' = running \ {session} /\ record' = Nobody /\ UNCHANGED missed
       \/ /\ "outlive" \in Fault /\ Alive
          /\ missed' = missed \cup {session}
          /\ UNCHANGED <<running, record>>
    /\ RetireSession
    /\ at' = "idle"
    /\ UNCHANGED <<launcher, pushing, ex, last, emu, reported, died,
                   diskVars, saveVars, rommVars>>

\* save_baseline is taken after the launch; its two seconds of slack count what
\* the game wrote while booting as this session's.
TakeBaseline ==
    /\ at = "launched"
    /\ at' = "idle"
    /\ UNCHANGED <<launcher, pushing, ex, session, served, last, emu, reported,
                   processVars, diskVars, saveVars, rommVars, faults>>

-----------------------------------------------------------------------------
(* States: the save-state route and the state-file push.                   *)

CanStates == session # Nobody /\ ~Staged /\ Alive

\* capture_frame, which gives None when it fails.
Capture(wanted) ==
    \/ ex' = [NoExit EXCEPT !.want = wanted, !.frame = wanted] /\ Works
    \/ wanted /\ Fails("capture") /\ ex' = [NoExit EXCEPT !.want = TRUE]

BeginSaveState ==
    /\ Free /\ CanStates /\ states < MaxStates
    /\ Capture(TRUE)
    /\ at' = "saving"
    /\ UNCHANGED <<launcher, pushing, session, served, last, emu, reported,
                   processVars, diskVars, saveVars, rommVars>>

\* The emulator writes a state: the slot holds it.
WriteState == states < MaxStates /\ states' = states + 1 /\ slot' = states + 1

\* The frame of a confirmed state is kept; a failed capture leaves it none.
KeepFrame ==
    emu' = [emu EXCEPT ![session].frame = IF ex.frame THEN slot' ELSE NoState]

\* "unsure": the launcher could not confirm the state it asked for.  Most leave
\* what was written in the slot; PCSX2 deletes it.
WriteUnconfirmed == WriteState \/ (slot' = NoState /\ UNCHANGED states)

SaveState ==
    /\ at = "saving"
    /\ \/ Alive /\ WriteState /\ KeepFrame /\ Works
       \/ UNCHANGED <<states, slot, emu>> /\ Works
       \/ Alive /\ Fails("unsure") /\ WriteUnconfirmed /\ UNCHANGED emu
    /\ ex' = NoExit /\ at' = "idle"
    /\ UNCHANGED <<launcher, pushing, session, served, last, reported, processVars,
                   tree, image, saveVars, rommVars>>

\* A variant: the push takes its hold on the slot without _SESSION_LOCK.
PushUnlocked ==
    /\ ~pushing /\ CanStates /\ states < MaxStates
    /\ pushing' = TRUE
    /\ UNCHANGED <<launcher, at, ex, session, served, last, emu, reported,
                   processVars, diskVars, saveVars, rommVars, faults>>

BeginPush ==
    /\ Free /\ CanStates /\ states < MaxStates
    /\ pushing' = TRUE
    /\ UNCHANGED <<launcher, at, ex, session, served, last, emu, reported,
                   processVars, diskVars, saveVars, rommVars, faults>>

PushLands ==
    /\ pushing /\ WriteState
    /\ pushing' = FALSE
    /\ UNCHANGED <<launcher, at, ex, session, served, last, emu, reported,
                   processVars, tree, image, saveVars, rommVars, faults>>

\* Too large, empty, another game's, or an OSError: the slot is as it was.
PushFails ==
    /\ pushing
    /\ pushing' = FALSE
    /\ UNCHANGED <<launcher, at, ex, session, served, last, emu, reported,
                   processVars, diskVars, saveVars, rommVars, faults>>

-----------------------------------------------------------------------------
(* Exit: _do_exit, under _SESSION_LOCK to the end.                         *)

\* The frame is captured before anything is asked of the emulator.
BeginExit ==
    /\ Free /\ session # Nobody
    /\ \E want \in BOOLEAN : Capture(want)
    /\ at' = "exiting"
    /\ UNCHANGED <<launcher, pushing, session, served, last, emu, reported,
                   processVars, diskVars, saveVars, rommVars>>

\* save_and_exit up to its stop.  A raise is reported and the teardown goes on.
SaveAtExit ==
    /\ at = "exiting"
    /\ \/ /\ ex.want /\ CanStates /\ WriteState /\ KeepFrame
          /\ ex' = [ex EXCEPT !.state = slot'] /\ Works
       \/ UNCHANGED <<states, slot, emu, ex>> /\ Works
       \/ /\ ex.want /\ CanStates /\ Fails("unsure") /\ WriteUnconfirmed
          /\ UNCHANGED <<emu, ex>>
       \/ /\ Fails("raise")
          /\ ex' = [ex EXCEPT !.told = @ \cup {"exit_error"}]
          /\ UNCHANGED <<states, slot, emu>>
    /\ at' = "stopping"
    /\ UNCHANGED <<launcher, pushing, session, served, last, reported, processVars,
                   tree, image, saveVars, rommVars>>

\* The rest of save_and_exit runs only when it did not raise.
Extracts == Staged /\ "exit_error" \notin ex.told

\* A variant: stop forgets an emulator that outlived it.
StopForgets ==
    /\ at = "stopping"
    /\ at' = IF Extracts THEN "extracting" ELSE "confirming"
    /\ \/ running' = running \ {session} /\ Works
       \/ UNCHANGED running /\ Fails("outlive")
    /\ record' = Nobody
    /\ UNCHANGED <<launcher, pushing, ex, session, served, last, emu, reported, died,
                   missed, diskVars, saveVars, rommVars>>

\* Emulator.stop: handle and record are dropped once the process is confirmed
\* gone.  xemu's exit then stops every stray xemu, its own survivor included.
StopAtExit ==
    /\ at = "stopping"
    /\ at' = IF Extracts THEN "extracting" ELSE "confirming"
    /\ \/ /\ running' = (IF Extracts THEN {} ELSE running \ {session})
          /\ record' = Nobody /\ UNCHANGED ex /\ Works
       \/ /\ Alive /\ Fails("outlive")
          /\ running' \in {running, IF Extracts THEN {} ELSE running}
          /\ ex' = IF Staged THEN [ex EXCEPT !.told = @ \cup {"forced_exit"}] ELSE ex
          /\ UNCHANGED record
       \/ /\ Extracts /\ running \ {session} # {} /\ Fails("outlive")
          /\ running' = running \ {session}
          /\ record' = Nobody /\ UNCHANGED ex
    /\ UNCHANGED <<launcher, pushing, session, served, last, emu, reported, died, missed,
                   diskVars, saveVars, rommVars>>

\* A variant: the extraction does not ask whether the restore reached the image.
ExtractsAnyway ==
    /\ at = "extracting"
    /\ at' = "confirming"
    /\ tree' = IF image = NoSave THEN tree ELSE [v |-> image, fresh |-> TRUE]
    /\ UNCHANGED <<launcher, pushing, ex, session, served, last, emu, reported,
                   processVars, image, slot, states, saveVars, rommVars, faults>>

\* xemu's save_and_exit: the title's saves off the image replace the staging
\* dir, with fresh mtimes.  A session whose restore never reached the image
\* extracts nothing and says so; an image that cannot be read extracts nothing.
ExtractSaves ==
    /\ at = "extracting"
    /\ at' = "confirming"
    /\ \/ /\ emu[session].restoreFailed
          /\ ex' = [ex EXCEPT !.told = @ \cup {"restore_failed"}]
          /\ UNCHANGED tree /\ Works
       \/ /\ ~emu[session].restoreFailed
          /\ tree' = IF image = NoSave THEN tree ELSE [v |-> image, fresh |-> TRUE]
          /\ UNCHANGED ex /\ Works
       \/ /\ ~emu[session].restoreFailed /\ Fails("extract")
          /\ UNCHANGED <<tree, ex>>
    /\ UNCHANGED <<launcher, pushing, session, served, last, emu, reported,
                   processVars, image, slot, states, saveVars, rommVars>>

\* A variant: stop's return is taken as proof.
TrustsStop ==
    /\ at = "confirming"
    /\ at' = "dumping"
    /\ UNCHANGED <<launcher, pushing, ex, session, served, last, emu, reported,
                   processVars, diskVars, saveVars, rommVars, faults>>

\* _confirm_stopped: one more stop; an emulator still running is not dumped.
ConfirmStopped ==
    /\ at = "confirming"
    /\ \/ /\ ~Alive
          /\ at' = "dumping"
          /\ UNCHANGED <<ex, running, record>> /\ Works
       \/ /\ Alive
          /\ running' = running \ {session} /\ record' = Nobody
          /\ at' = "dumping"
          /\ UNCHANGED ex /\ Works
       \/ /\ Alive /\ Fails("outlive")
          /\ ex' = [ex EXCEPT !.mode = "failed"]
          /\ at' = "retiring"
          /\ UNCHANGED <<running, record>>
    /\ UNCHANGED <<launcher, pushing, session, served, last, emu, reported, died, missed,
                   diskVars, saveVars, rommVars>>

\* _dump_saves: what changed since the baseline, nothing, or an error.
DumpSaves ==
    /\ at = "dumping"
    /\ \/ /\ tree.fresh
          /\ ex' = [ex EXCEPT !.zip = tree.v]
          /\ at' = "uploading" /\ Works
       \/ /\ ~tree.fresh
          /\ ex' = [ex EXCEPT !.mode = "skipped"]
          /\ at' = "retiring" /\ Works
       \/ /\ Fails("dump")
          /\ ex' = [ex EXCEPT !.mode = "failed"]
          /\ at' = "retiring"
    /\ UNCHANGED <<launcher, pushing, session, served, last, emu, reported,
                   processVars, diskVars, saveVars, rommVars>>

Dumped == [from |-> session, v |-> ex.zip]

\* push_save_archive: refused, unreachable, or stored with the answer lost.
UploadSaves ==
    /\ at = "uploading"
    /\ \/ /\ library' = library \cup {Dumped}
          /\ ex' = [ex EXCEPT !.mode = "uploaded"]
          /\ at' = "retiring" /\ Works
       \/ /\ Fails("upload")
          /\ library' \in {library, library \cup {Dumped}}
          /\ ex' = [ex EXCEPT !.mode = "failed"]
          /\ at' = "keeping"
    /\ UNCHANGED <<launcher, pushing, session, served, last, emu, reported,
                   processVars, diskVars, saveVars, kept, outcome>>

\* A variant: a failed write of the export takes the teardown with it.
KeepRaises ==
    /\ at = "keeping"
    /\ \/ /\ kept' = kept \cup {Dumped} /\ ex' = [ex EXCEPT !.kept = TRUE]
          /\ at' = "retiring" /\ Works
       \/ /\ Fails("keep") /\ ex' = NoExit /\ at' = "idle"
          /\ UNCHANGED kept
    /\ UNCHANGED <<launcher, pushing, session, served, last, emu, reported,
                   processVars, diskVars, saveVars, library, outcome>>

\* _keep_archive, after a failed push only.
KeepArchive ==
    /\ at = "keeping"
    /\ at' = "retiring"
    /\ \/ /\ kept' = kept \cup {Dumped}
          /\ ex' = [ex EXCEPT !.kept = TRUE] /\ Works
       \/ Fails("keep") /\ UNCHANGED <<kept, ex>>
    /\ UNCHANGED <<launcher, pushing, session, served, last, emu, reported,
                   processVars, diskVars, saveVars, library, outcome>>

\* The room is told, the tokens are cleared, the session is retired and the
\* report is the answer RomM gets.
RetireAtExit ==
    /\ at = "retiring"
    /\ outcome' = [outcome EXCEPT ![session] = ex]
    /\ RetireSession
    /\ ex' = NoExit /\ at' = "idle" /\ cleared' = FALSE
    /\ UNCHANGED <<launcher, pushing, last, emu, reported, processVars, diskVars,
                   wrote, given, haunted, library, kept, faults>>

-----------------------------------------------------------------------------
(* Everything that runs beside the operations.                             *)

\* A variant: the watch does not look at the lock.
WatchUnlocked ==
    /\ session # Nobody /\ session # reported /\ ~Alive
    /\ reported' = session
    /\ UNCHANGED <<launcher, at, pushing, ex, session, served, last, emu, processVars,
                   diskVars, saveVars, rommVars, faults>>

\* A variant: one report ever, not one for each session record.
WatchOnce ==
    /\ Free /\ session # Nobody /\ reported = Nobody /\ ~Alive
    /\ reported' = session
    /\ UNCHANGED <<launcher, at, pushing, ex, session, served, last, emu, processVars,
                   diskVars, saveVars, rommVars, faults>>

\* check_emulator_alive: skipped while an operation holds the lock.
Watch ==
    /\ Free /\ session # Nobody /\ session # reported /\ ~Alive
    /\ reported' = session
    /\ UNCHANGED <<launcher, at, pushing, ex, session, served, last, emu, processVars,
                   diskVars, saveVars, rommVars, faults>>

\* The session whose files an emulator writes into now: from the clear on, the
\* one being activated.
Owner == IF session # Nobody THEN session
         ELSE IF at \in {"cleared", "restored"} THEN last + 1 ELSE Nobody

\* The game p runs saves.
GameSaves(p) ==
    /\ p \in running /\ wrote[p] < MaxSaves
    /\ wrote' = [wrote EXCEPT ![p] = @ + 1]
    /\ LET v == [by |-> p, n |-> wrote[p] + 1] IN
         IF Staged THEN image' = v /\ UNCHANGED tree
                   ELSE tree' = [v |-> v, fresh |-> TRUE] /\ UNCHANGED image
    /\ haunted' = haunted \cup ({Owner} \ {p, Nobody})
    /\ UNCHANGED <<launcher, brokerVars, processVars, slot, states, given, cleared,
                   rommVars, faults>>

\* A crash, or the player quitting from the emulator's own menu.
EmulatorDies(p) ==
    /\ p \in running
    /\ running' = running \ {p} /\ died' = died \cup {p}
    /\ UNCHANGED <<launcher, brokerVars, record, missed, diskVars, saveVars, rommVars, faults>>

\* The broker process goes; the emulator, its record and the disk stay.
BrokerCrashes ==
    /\ Fails("crash")
    /\ session' = Nobody /\ served' = Nobody /\ reported' = Nobody
    /\ emu' = NewObjects
    /\ pushing' = FALSE /\ ex' = NoExit /\ cleared' = FALSE
    /\ at' = "starting"
    /\ missed' = missed \cup (IF at = "spawned" THEN {session} \cap running ELSE {})
    /\ UNCHANGED <<launcher, last, running, record, died, diskVars, wrote, given,
                   haunted, rommVars>>

Operation ==
    \/ ReapOrphan \/ Refuse \/ ClearWorkingSlot \/ Restore \/ RefuseCallback
    \/ NewSession \/ InjectSaves \/ Spawn \/ LaunchFails \/ RecordPid
    \/ RecordFails \/ TakeBaseline \/ SaveState \/ SaveAtExit \/ StopAtExit
    \/ ExtractSaves \/ ConfirmStopped \/ DumpSaves \/ UploadSaves
    \/ KeepArchive \/ RetireAtExit

Next ==
    \/ Operation
    \/ Activate \/ BeginSaveState \/ BeginPush \/ PushLands \/ PushFails \/ BeginExit
    \/ Watch
    \/ \E p \in Sid : GameSaves(p) \/ EmulatorDies(p)
    \/ BrokerCrashes

Spec == Init /\ [][Next]_vars

\* An accepted operation runs on; the watch wakes every interval.  No fairness
\* on RomM (its requests, the body of its push), the game, or faults.
Fairness == WF_vars(Operation) /\ WF_vars(Watch)

FairSpec == Spec /\ Fairness

-----------------------------------------------------------------------------
(* Properties.                                                             *)

File == [v : Version, fresh : BOOLEAN]
Exit == [want : BOOLEAN, frame : BOOLEAN, state : 0..MaxStates, told : SUBSET Warning,
         zip : Version, mode : Mode, kept : BOOLEAN]

\* The type of every variable.
TypeOK ==
    /\ launcher \in {"direct", "staged"}
    /\ at \in Phase /\ pushing \in BOOLEAN /\ ex \in Exit
    /\ session \in 0..MaxSessions /\ served \in 0..MaxSessions
    /\ last \in 0..MaxSessions /\ reported \in 0..MaxSessions
    /\ emu \in [Sid -> [frame : 0..MaxStates, restoreFailed : BOOLEAN]]
    /\ running \subseteq Sid /\ record \in 0..MaxSessions
    /\ died \subseteq Sid /\ missed \subseteq Sid
    /\ tree \in File /\ image \in Version
    /\ slot \in 0..Brought /\ states \in 0..MaxStates
    /\ wrote \in [Sid -> 0..MaxSaves] /\ given \in [Sid -> Version]
    /\ haunted \subseteq Sid /\ cleared \in BOOLEAN
    /\ library \subseteq Archive /\ kept \subseteq Archive
    /\ outcome \in [Sid -> Exit]
    /\ faults \in 0..MaxFaults

\* The last save of session s's game, as an archive of s.
LastSave(s) == [from |-> s, v |-> [by |-> s, n |-> wrote[s]]]

\* An exit that warns of nothing and reports success has shipped the last save
\* the session's game made, and one that reports a kept archive has it on disk,
\* however the emulator died and whatever else failed: _do_exit's confirm, dump,
\* upload and keep, with the launch's baseline.
NoSilentLoss ==
    \A s \in Sid :
        outcome[s].told = {} /\ s \notin haunted /\ wrote[s] > 0
        => /\ outcome[s].mode \in {"uploaded", "skipped"} => LastSave(s) \in library
           /\ outcome[s].kept => LastSave(s) \in kept

\* What ships as a session's saves was written by its own emulator, or is what
\* RomM sent to restore into it: never another session's (clear_working_slot,
\* xemu's _restore_failed).  An emulator no one could kill may break this.
ShipsItsOwn ==
    \A a \in library \cup kept :
        a.from \in haunted \/ a.v.by = a.from \/ a.v = given[a.from]

\* After an exit the read routes serve the very state the exit reported until an
\* activate has cleared the slot: retire_session, and the push's hold on the lock.
\* LAST_EXIT stands until the activate has a session, so from the clear on, and
\* after an activate refused that late, they find no state or one the archive
\* brought: never one written by an emulator or pushed since the exit.
ServesTheExitState ==
    session = Nobody /\ served # Nobody /\ outcome[served].state # NoState
        => \/ slot = outcome[served].state
           \/ cleared /\ slot \in {NoState, Brought}

\* An emulator that runs is the one PID_FILE names, so a restarted broker finds
\* it: Emulator.stop keeps the record of a survivor.  The exceptions are the one
\* between its Popen and its record, and those the broker gave up on.
Findable ==
    \A p \in running \ missed :
        record = p \/ (session = p /\ at = "spawned")

\* The watch reports only emulators that exited on their own, never one that an
\* exit or a failed launch put down: check_emulator_alive under the lock.
WatchBlamesTheDead == reported # Nobody => reported \in died

\* What the broker believes of emulators, on disk and in the log, is so: both together.
EmulatorsAccountedFor == Findable /\ WatchBlamesTheDead

\* An accepted exit ends with the session retired, whatever fails on the way.
ExitRetires == at = "exiting" ~> (at = "idle" /\ session = Nobody)

\* No emulator a crashed broker left behind outlives the next startup, unless it was given
\* up on or never recorded: reap_orphan.
OrphanGoes == at = "starting" ~> running \subseteq missed

\* An emulator that exits under an open, quiet session is reported, unless the
\* session ends first: watch_emulator_forever.
DeathNoticed ==
    (Free /\ session # Nobody /\ ~Alive) ~> (session = Nobody \/ reported = session)

\* Whatever a session has come to, it is seen through: an exit to its end, an orphan to
\* its death, a death to its report.
SeenThrough == ExitRetires /\ OrphanGoes /\ DeathNoticed
=============================================================================
