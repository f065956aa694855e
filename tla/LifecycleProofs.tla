-------------------------- MODULE LifecycleProofs --------------------------
(***************************************************************************)
(* Proofs about Lifecycle, for any number of sessions, saves, states and   *)
(* faults and for both launchers.  What is said of the session's last save *)
(* holds as long as an image can be read back ("extract" \notin Fault).    *)
(***************************************************************************)
EXTENDS Lifecycle, TLAPS

USE BoundsAssumption, LaunchersAssumption

-----------------------------------------------------------------------------
(* Where an operation stands, and what session it works on. *)

Opening == {"activating", "reaped", "cleared", "restored"}
Launching == {"injecting", "spawning", "spawned", "launched"}
Exiting == {"exiting", "stopping", "extracting", "confirming", "dumping", "uploading",
            "keeping", "retiring"}

\* A session has a number, an activate has one to give, and only an operation
\* on a session goes past the opening.
PhaseInv ==
  /\ session \in {Nobody, last}
  /\ at \in Opening \cup {"starting"} => session = Nobody
  /\ at \in Opening => last < MaxSessions
  /\ at \in Launching \cup Exiting \cup {"saving"} => session # Nobody
  /\ pushing => at = "idle" /\ session # Nobody
  /\ at \in {"injecting", "extracting"} => Staged

\* Sessions to come, and the one being played, have no exit report.
ReportInv ==
  /\ served \in 0..last
  /\ session # Nobody => served = Nobody
  /\ \A s \in Sid : s > last \/ s = session => outcome[s] = NoExit

\* Only the session's emulator runs that the broker has not given up on.
RunningInv ==
  /\ running \subseteq 1..last
  /\ at \in {"reaped", "cleared", "restored"} => running \subseteq missed
  /\ at \in {"injecting", "spawning"} => running \subseteq missed /\ session \notin running
  /\ session # Nobody => running \subseteq missed \cup {session}

\* The emulator of a session nobody is ending has died if it does not run.
DeathInv ==
  at \in {"idle", "spawned", "launched", "saving"} /\ session # Nobody
    => session \in running \cup died

\* The state an exit is about to report is the one in the slot, and stays there
\* until an activate clears it; what an activate then puts there an archive brought.
StateInv ==
  /\ at = "exiting" => ex.state = NoState
  /\ at \in Exiting => ex.state \in {NoState, slot}
  /\ served # Nobody =>
       \/ outcome[served].state \in {NoState, slot}
       \/ cleared /\ slot \in {NoState, Brought}
  /\ at \in {"cleared", "restored"} => cleared /\ slot \in {NoState, Brought}

-----------------------------------------------------------------------------
(* The session's last save, from the game to RomM. *)

\* Session s has a save, and only its own emulator has written where it is.
Saved(s) == s \notin haunted /\ wrote[s] > 0
Whole(s) == [v |-> [by |-> s, n |-> wrote[s]], fresh |-> TRUE]

\* It is where the emulator writes, then in the tree, then in the archive.
SaveInv ==
  /\ \A s \in Sid : s > last => wrote[s] = 0
  /\ at \in {"injecting", "spawning"} => wrote[session] = 0
  /\ session # Nobody /\ Saved(session) =>
       /\ ~Staged => tree = Whole(session)
       /\ Staged => image = Whole(session).v
       /\ at \in {"confirming", "dumping"} /\ ex.told = {} /\ Staged => tree = Whole(session)
       /\ at \in {"uploading", "keeping"} /\ ex.told = {} => Dumped = LastSave(session)

\* An exit dumps, ships or keeps only once the emulator is gone; on xemu an
\* exit with nothing to warn of extracts only then.
GoneInv ==
  /\ at \in {"dumping", "uploading", "keeping"} => ~Alive
  /\ at \in {"extracting", "confirming"} /\ Staged /\ ex.told = {} => ~Alive
  /\ at = "retiring" /\ (ex.kept \/ ex.mode # "failed") => ~Alive
  /\ at \in Exiting \ {"retiring"} => ~ex.kept
  /\ at = "extracting" => "exit_error" \notin ex.told
  /\ \A s \in running : ~outcome[s].kept /\ outcome[s].mode \in {"none", "failed"}

\* What an exit is about to report of the save is so, and what it reported is.
ShippedInv ==
  /\ at = "keeping" => ex.mode = "failed"
  /\ at = "retiring" /\ Saved(session) /\ ex.told = {} =>
       /\ ex.mode \in {"uploaded", "skipped"} => LastSave(session) \in library
       /\ ex.kept => LastSave(session) \in kept
  /\ NoSilentLoss

-----------------------------------------------------------------------------
(* Whose save is in an archive. *)

\* A save session s may ship: its own, or what RomM sent it.
Own(s, v) == v.by = s \/ v = given[s]

OwnInv ==
  /\ \A a \in library \cup kept : a.from \in 1..last
  /\ at = "restored" /\ last + 1 \notin haunted => tree = [v |-> given[last + 1], fresh |-> FALSE]
  /\ at \in {"injecting"} => tree.v = given[session] \/ session \in haunted
  /\ session # Nobody /\ session \notin haunted =>
       /\ tree.fresh => Own(session, tree.v)
       /\ Staged /\ at # "injecting" /\ ~emu[session].restoreFailed => Own(session, image)
       /\ at \in {"uploading", "keeping"} => Own(session, ex.zip)
  /\ ShipsItsOwn

-----------------------------------------------------------------------------
(* Types, a part at a time: what an action leaves alone costs it no proof. *)

PlaceType ==
  /\ launcher \in {"direct", "staged"}
  /\ at \in Phase
  /\ pushing \in BOOLEAN
  /\ session \in 0..MaxSessions
  /\ served \in 0..MaxSessions
  /\ last \in 0..MaxSessions
  /\ reported \in 0..MaxSessions

ExitType ==
  ex \in Exit

EmuType ==
  emu \in [Sid -> [frame : 0..MaxStates, restoreFailed : BOOLEAN]]

ProcessType ==
  /\ running \subseteq Sid
  /\ record \in 0..MaxSessions
  /\ died \subseteq Sid
  /\ missed \subseteq Sid

DiskType ==
  /\ tree \in File
  /\ image \in Version
  /\ slot \in 0..Brought
  /\ states \in 0..MaxStates

SaveType ==
  /\ wrote \in [Sid -> 0..MaxSaves]
  /\ given \in [Sid -> Version]
  /\ haunted \subseteq Sid
  /\ cleared \in BOOLEAN

RommType ==
  /\ library \subseteq Archive
  /\ kept \subseteq Archive
  /\ outcome \in [Sid -> Exit]

FaultsType ==
  faults \in 0..MaxFaults

-----------------------------------------------------------------------------
(* The inductive invariant. *)

LifeInv ==
  /\ TypeOK
  /\ PhaseInv
  /\ ReportInv
  /\ RunningInv
  /\ DeathInv
  /\ Findable
  /\ WatchBlamesTheDead
  /\ StateInv
  /\ GoneInv
  /\ OwnInv

USE DEF brokerVars, processVars, diskVars, saveVars, rommVars, Sid, Nobody, NoState,
    Brought, Free, Staged, Alive, Works, Fails

\* An exit's report stays a report, whichever of its fields is set.
LEMMA ExitUpdates ==
  ASSUME NEW e \in Exit
  PROVE  /\ NoExit \in Exit
         /\ \A b \in BOOLEAN : [e EXCEPT !.kept = b] \in Exit
         /\ \A b \in BOOLEAN : [e EXCEPT !.want = b] \in Exit
         /\ \A b \in BOOLEAN, c \in BOOLEAN : [e EXCEPT !.want = b, !.frame = c] \in Exit
         /\ \A m \in Mode : [e EXCEPT !.mode = m] \in Exit
         /\ \A w \in Warning : [e EXCEPT !.told = @ \cup {w}] \in Exit
         /\ \A v \in Version : [e EXCEPT !.zip = v] \in Exit
         /\ \A n \in 0..MaxStates : [e EXCEPT !.state = n] \in Exit
<1>1. NoExit \in Exit
  BY BoundsAssumption DEF NoExit, Exit, NoState, NoSave, Version, Mode
<1>2. \A b \in BOOLEAN : [e EXCEPT !.kept = b] \in Exit
  BY DEF Exit
<1>3. \A b \in BOOLEAN : [e EXCEPT !.want = b] \in Exit
  BY DEF Exit
<1>4. \A b \in BOOLEAN, c \in BOOLEAN : [e EXCEPT !.want = b, !.frame = c] \in Exit
  BY DEF Exit
<1>5. \A m \in Mode : [e EXCEPT !.mode = m] \in Exit
  BY DEF Exit
<1>6. \A w \in Warning : [e EXCEPT !.told = @ \cup {w}] \in Exit
  BY DEF Exit
<1>7. \A v \in Version : [e EXCEPT !.zip = v] \in Exit
  BY DEF Exit
<1>8. \A n \in 0..MaxStates : [e EXCEPT !.state = n] \in Exit
  BY DEF Exit
<1> QED
  BY <1>1, <1>2, <1>3, <1>4, <1>5, <1>6, <1>7, <1>8

\* An Emulator object stays one, whichever of its fields is set.
LEMMA EmuUpdates ==
  ASSUME NEW E, E = [Sid -> [frame : 0..MaxStates, restoreFailed : BOOLEAN]],
         NEW e \in E, NEW s \in Sid
  PROVE  /\ [e EXCEPT ![s].restoreFailed = TRUE] \in E
         /\ \A n \in 0..MaxStates : [e EXCEPT ![s].frame = n] \in E
  OBVIOUS

\* The phase and the session numbers.
LEMMA PlaceTypeStep ==
  ASSUME LifeInv, Next
  PROVE  PlaceType'
<1> USE DEF LifeInv, TypeOK, PlaceType, Phase, PhaseInv, Opening, Launching, Exiting
<1>1. CASE ReapOrphan
  BY <1>1 DEF ReapOrphan
<1>2. CASE Refuse
  BY <1>2 DEF Refuse
<1>3. CASE ClearWorkingSlot
  BY <1>3 DEF ClearWorkingSlot
<1>4. CASE Restore
  BY <1>4 DEF Restore
<1>5. CASE RefuseCallback
  BY <1>5 DEF RefuseCallback
<1>6. CASE NewSession
  BY <1>6 DEF NewSession
<1>7. CASE InjectSaves
  BY <1>7 DEF InjectSaves
<1>8. CASE Spawn
  BY <1>8 DEF Spawn
<1>9. CASE LaunchFails
  BY <1>9 DEF LaunchFails, RetireSession
<1>10. CASE RecordPid
  BY <1>10 DEF RecordPid
<1>11. CASE RecordFails
  BY <1>11 DEF RecordFails, RetireSession
<1>12. CASE TakeBaseline
  BY <1>12 DEF TakeBaseline
<1>13. CASE SaveState
  BY <1>13 DEF SaveState, WriteState, WriteUnconfirmed, KeepFrame
<1>14. CASE SaveAtExit
  BY <1>14 DEF SaveAtExit, WriteState, WriteUnconfirmed, KeepFrame, CanStates
<1>15. CASE StopAtExit
  BY <1>15 DEF StopAtExit, Extracts
<1>16. CASE ExtractSaves
  BY <1>16 DEF ExtractSaves
<1>17. CASE ConfirmStopped
  BY <1>17 DEF ConfirmStopped
<1>18. CASE DumpSaves
  BY <1>18 DEF DumpSaves
<1>19. CASE UploadSaves
  BY <1>19 DEF UploadSaves, Dumped
<1>20. CASE KeepArchive
  BY <1>20 DEF KeepArchive, Dumped
<1>21. CASE RetireAtExit
  BY <1>21 DEF RetireAtExit, RetireSession
<1>22. CASE Activate
  BY <1>22 DEF Activate
<1>23. CASE BeginSaveState
  BY <1>23 DEF BeginSaveState, Capture, CanStates
<1>24. CASE BeginPush
  BY <1>24 DEF BeginPush, CanStates
<1>25. CASE PushLands
  BY <1>25 DEF PushLands, WriteState
<1>26. CASE PushFails
  BY <1>26 DEF PushFails
<1>27. CASE BeginExit
  BY <1>27 DEF BeginExit, Capture
<1>28. CASE Watch
  BY <1>28 DEF Watch
<1>29. CASE BrokerCrashes
  <2>1. /\ at' = "starting" /\ pushing' \in BOOLEAN /\ UNCHANGED <<launcher, last>>
        /\ session' = Nobody /\ served' = Nobody /\ reported' = Nobody
    BY <1>29 DEF BrokerCrashes
  <2>2. "starting" \in Phase
    OBVIOUS
  <2> HIDE DEF LifeInv, Phase
  <2>3. TypeOK
    BY DEF LifeInv
  <2> QED
    BY <2>1, <2>2, <2>3
<1>30. CASE \E p \in Sid : GameSaves(p) \/ EmulatorDies(p)
  <2>1. UNCHANGED <<launcher, at, pushing, session, served, last, reported>>
    BY <1>30 DEF GameSaves, EmulatorDies
  <2> QED
    BY <2>1
<1> QED
  BY <1>1, <1>2, <1>3, <1>4, <1>5, <1>6, <1>7, <1>8, <1>9, <1>10, <1>11, <1>12, <1>13,
     <1>14, <1>15, <1>16, <1>17, <1>18, <1>19, <1>20, <1>21, <1>22, <1>23, <1>24, <1>25,
     <1>26, <1>27, <1>28, <1>29, <1>30
  DEF Next, Operation

\* The report of the exit in flight.
LEMMA ExitTypeStep ==
  ASSUME LifeInv, Next
  PROVE  ExitType'
<1> USE DEF LifeInv, TypeOK, ExitType
<1>1. CASE SaveState
  <2>1. ex' = NoExit
    BY <1>1 DEF SaveState
  <2> QED
    BY <2>1, ExitUpdates
<1>2. CASE SaveAtExit
  <2> SUFFICES ex' \in Exit
    OBVIOUS
  <2>a. ex \in Exit
    OBVIOUS
  <2>1. \/ WriteState /\ ex' = [ex EXCEPT !.state = slot']
        \/ ex' = ex
        \/ ex' = [ex EXCEPT !.told = ex.told \cup {"exit_error"}]
    BY <1>2 DEF SaveAtExit
  <2>2. WriteState => slot' \in 0..MaxStates
    BY DEF WriteState
  <2>3. "exit_error" \in Warning
    BY DEF Warning
  <2>5. [ex EXCEPT !.told = ex.told \cup {"exit_error"}] \in Exit
    BY <2>a, <2>3, ExitUpdates, Zenon
  <2>6. WriteState => [ex EXCEPT !.state = slot'] \in Exit
    BY <2>a, <2>2, ExitUpdates, Zenon
  <2> QED
    BY <2>1, <2>a, <2>5, <2>6, Zenon
<1>3. CASE StopAtExit
  <2> SUFFICES ex' \in Exit
    OBVIOUS
  <2>a. ex \in Exit
    OBVIOUS
  <2>1. ex' = ex \/ ex' = [ex EXCEPT !.told = ex.told \cup {"forced_exit"}]
    BY <1>3 DEF StopAtExit
  <2>2. "forced_exit" \in Warning
    BY DEF Warning
  <2>5. [ex EXCEPT !.told = ex.told \cup {"forced_exit"}] \in Exit
    BY <2>a, <2>2, ExitUpdates, Zenon
  <2> QED
    BY <2>1, <2>a, <2>5, Zenon
<1>4. CASE ExtractSaves
  <2> SUFFICES ex' \in Exit
    OBVIOUS
  <2>a. ex \in Exit
    OBVIOUS
  <2>1. ex' = ex \/ ex' = [ex EXCEPT !.told = ex.told \cup {"restore_failed"}]
    BY <1>4 DEF ExtractSaves
  <2>2. "restore_failed" \in Warning
    BY DEF Warning
  <2>5. [ex EXCEPT !.told = ex.told \cup {"restore_failed"}] \in Exit
    BY <2>a, <2>2, ExitUpdates, Zenon
  <2> QED
    BY <2>1, <2>a, <2>5, Zenon
<1>5. CASE ConfirmStopped
  <2> SUFFICES ex' \in Exit
    OBVIOUS
  <2>a. ex \in Exit
    OBVIOUS
  <2>1. ex' = ex \/ ex' = [ex EXCEPT !.mode = "failed"]
    BY <1>5 DEF ConfirmStopped
  <2>2. "failed" \in Mode
    BY DEF Mode
  <2>5. [ex EXCEPT !.mode = "failed"] \in Exit
    BY <2>a, <2>2, ExitUpdates, Zenon
  <2> QED
    BY <2>1, <2>a, <2>5, Zenon
<1>6. CASE DumpSaves
  <2> SUFFICES ex' \in Exit
    OBVIOUS
  <2>a. ex \in Exit
    OBVIOUS
  <2>1. \/ ex' = [ex EXCEPT !.zip = tree.v]
        \/ \E m \in {"skipped", "failed"} : ex' = [ex EXCEPT !.mode = m]
    BY <1>6 DEF DumpSaves
  <2>2. tree.v \in Version
    BY DEF File
  <2>3. {"skipped", "failed"} \subseteq Mode
    BY DEF Mode
  <2>5. [ex EXCEPT !.zip = tree.v] \in Exit
    BY <2>a, <2>2, ExitUpdates, Zenon
  <2>6. \A m \in {"skipped", "failed"} : [ex EXCEPT !.mode = m] \in Exit
    BY <2>a, <2>3, ExitUpdates, Zenon
  <2> QED
    BY <2>1, <2>a, <2>5, <2>6, Zenon
<1>7. CASE UploadSaves
  <2> SUFFICES ex' \in Exit
    OBVIOUS
  <2>a. ex \in Exit
    OBVIOUS
  <2>1. \E m \in {"uploaded", "failed"} : ex' = [ex EXCEPT !.mode = m]
    BY <1>7 DEF UploadSaves
  <2>2. {"uploaded", "failed"} \subseteq Mode
    BY DEF Mode
  <2>5. \A m \in {"uploaded", "failed"} : [ex EXCEPT !.mode = m] \in Exit
    BY <2>a, <2>2, ExitUpdates, Zenon
  <2> QED
    BY <2>1, <2>a, <2>5, Zenon
<1>8. CASE KeepArchive
  <2>1. ex' = ex \/ ex' = [ex EXCEPT !.kept = TRUE]
    BY <1>8 DEF KeepArchive
  <2> QED
    BY <2>1, ExitUpdates
<1>9. CASE RetireAtExit
  <2>1. ex' = NoExit
    BY <1>9 DEF RetireAtExit
  <2> QED
    BY <2>1, ExitUpdates
<1>10. CASE BeginSaveState
  <2>1. NoExit \in Exit
    BY ExitUpdates
  <2>2. PICK want \in BOOLEAN : Capture(want)
    BY <1>10 DEF BeginSaveState
  <2>3. \/ ex' = [NoExit EXCEPT !.want = want, !.frame = want]
        \/ ex' = [NoExit EXCEPT !.want = TRUE]
    BY <2>2 DEF Capture
  <2> QED
    BY <2>1, <2>3, ExitUpdates
<1>11. CASE BeginExit
  <2>1. NoExit \in Exit
    BY ExitUpdates
  <2>2. PICK want \in BOOLEAN : Capture(want)
    BY <1>11 DEF BeginExit
  <2>3. \/ ex' = [NoExit EXCEPT !.want = want, !.frame = want]
        \/ ex' = [NoExit EXCEPT !.want = TRUE]
    BY <2>2 DEF Capture
  <2> QED
    BY <2>1, <2>3, ExitUpdates
<1>12. CASE BrokerCrashes
  <2>1. ex' = NoExit
    BY <1>12 DEF BrokerCrashes
  <2> QED
    BY <2>1, ExitUpdates
<1>13. CASE ReapOrphan \/ Refuse \/ ClearWorkingSlot \/ Restore \/ RefuseCallback \/
           NewSession \/ InjectSaves \/ Spawn \/ LaunchFails \/ RecordPid \/ RecordFails
           \/ TakeBaseline \/ Activate \/ BeginPush \/ PushLands \/ PushFails \/ Watch
           \/ \E p \in Sid : GameSaves(p) \/ EmulatorDies(p)
  <2>1. UNCHANGED <<ex>>
    BY <1>13 DEF ReapOrphan, Refuse, ClearWorkingSlot, Restore, RefuseCallback,
      NewSession, InjectSaves, Spawn, LaunchFails, RecordPid, RecordFails, TakeBaseline,
      Activate, BeginPush, PushLands, PushFails, Watch, GameSaves, EmulatorDies
  <2> QED
    BY <2>1
<1> QED
  BY <1>1, <1>2, <1>3, <1>4, <1>5, <1>6, <1>7, <1>8, <1>9, <1>10, <1>11, <1>12, <1>13
  DEF Next, Operation

\* The Emulator objects.
LEMMA EmuTypeStep ==
  ASSUME LifeInv, Next
  PROVE  EmuType'
<1> USE DEF LifeInv, TypeOK, EmuType, PhaseInv, Opening, Launching, Exiting
<1>1. CASE InjectSaves
  <2>1. session \in Sid
    BY <1>1 DEF InjectSaves
  <2>2. CASE UNCHANGED emu
    BY <2>2
  <2>3. CASE emu' = [emu EXCEPT ![session].restoreFailed = TRUE]
    BY <2>1, <2>3, EmuUpdates
  <2> QED
    BY <1>1, <2>2, <2>3 DEF InjectSaves
<1>2. CASE SaveState
  <2>1. session \in Sid
    BY <1>2 DEF SaveState
  <2>2. CASE UNCHANGED emu
    BY <2>2
  <2>3. CASE WriteState /\ KeepFrame
    <3>1. slot' \in 0..MaxStates
      BY <2>3 DEF WriteState
    <3>2. (IF ex.frame THEN slot' ELSE NoState) \in 0..MaxStates
      BY <3>1
    <3> DEFINE f == IF ex.frame THEN slot' ELSE NoState
    <3>3. emu' = [emu EXCEPT ![session].frame = f]
      BY <2>3 DEF KeepFrame
    <3> HIDE DEF f
    <3> QED
      BY <2>1, <3>2, <3>3, EmuUpdates DEF f
  <2> QED
    BY <1>2, <2>2, <2>3 DEF SaveState
<1>3. CASE SaveAtExit
  <2>1. session \in Sid
    BY <1>3 DEF SaveAtExit
  <2>2. CASE UNCHANGED emu
    BY <2>2
  <2>3. CASE WriteState /\ KeepFrame
    <3>1. slot' \in 0..MaxStates
      BY <2>3 DEF WriteState
    <3>2. (IF ex.frame THEN slot' ELSE NoState) \in 0..MaxStates
      BY <3>1
    <3> DEFINE f == IF ex.frame THEN slot' ELSE NoState
    <3>3. emu' = [emu EXCEPT ![session].frame = f]
      BY <2>3 DEF KeepFrame
    <3> HIDE DEF f
    <3> QED
      BY <2>1, <3>2, <3>3, EmuUpdates DEF f
  <2> QED
    BY <1>3, <2>2, <2>3 DEF SaveAtExit
<1>5. CASE NewSession \/ BrokerCrashes
  <2>1. emu' = NewObjects
    BY <1>5 DEF NewSession, BrokerCrashes
  <2> QED
    BY <2>1 DEF NewObjects
<1>4. CASE ReapOrphan \/ Refuse \/ ClearWorkingSlot \/ Restore \/ RefuseCallback \/
           Spawn \/ LaunchFails \/ RecordPid \/ RecordFails \/
           TakeBaseline \/ StopAtExit \/ ExtractSaves \/ ConfirmStopped \/ DumpSaves \/
           UploadSaves \/ KeepArchive \/ RetireAtExit \/ Activate \/ BeginSaveState \/
           BeginPush \/ PushLands \/ PushFails \/ BeginExit \/ Watch \/
           \E p \in Sid : GameSaves(p) \/ EmulatorDies(p)
  <2>1. UNCHANGED <<emu>>
    BY <1>4 DEF ReapOrphan, Refuse, ClearWorkingSlot, Restore, RefuseCallback,
      Spawn, LaunchFails, RecordPid, RecordFails, TakeBaseline, StopAtExit,
      ExtractSaves, ConfirmStopped, DumpSaves, UploadSaves, KeepArchive, RetireAtExit,
      Activate, BeginSaveState, BeginPush, PushLands, PushFails, BeginExit, Watch,
      GameSaves, EmulatorDies
  <2> QED
    BY <2>1
<1> QED
  BY <1>1, <1>2, <1>3, <1>4, <1>5
  DEF Next, Operation

\* Processes and their record.
LEMMA ProcessTypeStep ==
  ASSUME LifeInv, Next
  PROVE  ProcessType'
<1> USE DEF LifeInv, TypeOK, ProcessType, PhaseInv, Opening, Launching, Exiting
<1>1. CASE ReapOrphan
  BY <1>1 DEF ReapOrphan
<1>2. CASE ClearWorkingSlot
  BY <1>2 DEF ClearWorkingSlot
<1>3. CASE Spawn
  BY <1>3 DEF Spawn
<1>4. CASE RecordPid
  BY <1>4 DEF RecordPid
<1>5. CASE RecordFails
  <2>1. session \in Sid
    BY <1>5 DEF RecordFails
  <2>2. /\ running' \subseteq running /\ record' \in {Nobody, record}
        /\ missed' \subseteq missed \cup {session} /\ died' = died
    BY <1>5 DEF RecordFails
  <2> QED
    BY <2>1, <2>2
<1>6. CASE StopAtExit
  BY <1>6 DEF StopAtExit, Extracts
<1>7. CASE ConfirmStopped
  BY <1>7 DEF ConfirmStopped
<1>8. CASE BrokerCrashes
  BY <1>8 DEF BrokerCrashes
<1>9. ASSUME NEW p \in Sid, EmulatorDies(p)
      PROVE  ProcessType'
  BY <1>9 DEF EmulatorDies
<1>10. CASE Refuse \/ Restore \/ RefuseCallback \/ NewSession \/ InjectSaves \/
           LaunchFails \/ TakeBaseline \/ SaveState \/ SaveAtExit \/ ExtractSaves \/
           DumpSaves \/ UploadSaves \/ KeepArchive \/ RetireAtExit \/ Activate \/
           BeginSaveState \/ BeginPush \/ PushLands \/ PushFails \/ BeginExit \/ Watch
           \/ \E p \in Sid : GameSaves(p)
  <2>1. UNCHANGED <<running, record, died, missed>>
    BY <1>10 DEF Refuse, Restore, RefuseCallback, NewSession, InjectSaves, LaunchFails,
      TakeBaseline, SaveState, SaveAtExit, ExtractSaves, DumpSaves, UploadSaves,
      KeepArchive, RetireAtExit, Activate, BeginSaveState, BeginPush, PushLands,
      PushFails, BeginExit, Watch, GameSaves
  <2> QED
    BY <2>1
<1> QED
  BY <1>1, <1>2, <1>3, <1>4, <1>5, <1>6, <1>7, <1>8, <1>9, <1>10
  DEF Next, Operation

\* The tree, the image and the slot.
LEMMA DiskTypeStep ==
  ASSUME LifeInv, Next
  PROVE  DiskType'
<1> USE DEF LifeInv, TypeOK, DiskType, PhaseInv, Opening, Launching, Exiting
<1>1. CASE ClearWorkingSlot
  <2>1. /\ UNCHANGED <<image, states>> /\ slot' = NoState
        /\ tree' = [v |-> NoSave, fresh |-> FALSE]
    BY <1>1 DEF ClearWorkingSlot
  <2> QED
    BY <2>1 DEF File, Version, NoSave
<1>2. CASE Restore
  <2>1. UNCHANGED <<image, states>> /\ slot' \in {slot, Brought}
    BY <1>2 DEF Restore
  <2>2. CASE UNCHANGED tree
    BY <2>1, <2>2
  <2>3. ASSUME NEW v \in {a.v : a \in library} \cup {NoSave}, tree' = [v |-> v, fresh |-> FALSE]
        PROVE  DiskType'
    <3>1. v \in Version
      BY DEF Archive, NoSave, Version
    <3> QED
      BY <2>1, <2>3, <3>1 DEF File
  <2> QED
    BY <1>2, <2>2, <2>3 DEF Restore
<1>3. CASE InjectSaves
  <2>1. UNCHANGED <<tree, slot, states>>
    BY <1>3 DEF InjectSaves
  <2>2. image' \in {tree.v, image, NoSave}
    BY <1>3 DEF InjectSaves
  <2> QED
    BY <2>1, <2>2 DEF File, Version, NoSave
<1>4. CASE SaveState
  <2>1. UNCHANGED <<tree, image>>
    BY <1>4 DEF SaveState
  <2>2. CASE UNCHANGED <<states, slot>>
    BY <2>1, <2>2
  <2>3. CASE WriteState
    BY <2>1, <2>3 DEF WriteState
  <2>4. CASE slot' = NoState /\ UNCHANGED states
    BY <2>1, <2>4 DEF NoState
  <2> QED
    BY <1>4, <2>2, <2>3, <2>4 DEF SaveState, WriteUnconfirmed
<1>5. CASE SaveAtExit
  <2>1. UNCHANGED <<tree, image>>
    BY <1>5 DEF SaveAtExit
  <2>2. CASE UNCHANGED <<states, slot>>
    BY <2>1, <2>2
  <2>3. CASE WriteState
    BY <2>1, <2>3 DEF WriteState
  <2>4. CASE slot' = NoState /\ UNCHANGED states
    BY <2>1, <2>4 DEF NoState
  <2> QED
    BY <1>5, <2>2, <2>3, <2>4 DEF SaveAtExit, WriteUnconfirmed
<1>6. CASE ExtractSaves
  <2>1. UNCHANGED <<image, slot, states>>
    BY <1>6 DEF ExtractSaves
  <2>2. tree' = tree \/ tree' = [v |-> image, fresh |-> TRUE]
    BY <1>6 DEF ExtractSaves
  <2>3. [v |-> image, fresh |-> TRUE] \in File
    BY DEF File
  <2> QED
    BY <2>1, <2>2, <2>3
<1>7. CASE PushLands
  BY <1>7 DEF PushLands, WriteState
<1>8. ASSUME NEW p \in Sid, GameSaves(p)
      PROVE  DiskType'
  <2>1. UNCHANGED <<slot, states>>
    BY <1>8 DEF GameSaves
  <2> DEFINE v == [by |-> p, n |-> wrote[p] + 1]
  <2>2. v \in Version
    <3>1. p \in 0..MaxSessions /\ wrote[p] + 1 \in 0..MaxSaves
      BY <1>8 DEF GameSaves
    <3> QED
      BY <3>1 DEF Version
  <2>3. \/ tree' = [v |-> v, fresh |-> TRUE] /\ UNCHANGED image
        \/ UNCHANGED tree /\ image' = v
    <3>1. CASE Staged
      BY <1>8, <3>1 DEF GameSaves
    <3>2. CASE ~Staged
      BY <1>8, <3>2 DEF GameSaves
    <3> QED
      BY <3>1, <3>2
  <2> HIDE DEF v
  <2>4. [v |-> v, fresh |-> TRUE] \in File
    BY <2>2 DEF File
  <2> QED
    BY <2>1, <2>2, <2>3, <2>4
<1>9. CASE ReapOrphan \/ Refuse \/ RefuseCallback \/ NewSession \/ Spawn \/ LaunchFails
           \/ RecordPid \/ RecordFails \/ TakeBaseline \/ StopAtExit \/ ConfirmStopped
           \/ DumpSaves \/ UploadSaves \/ KeepArchive \/ RetireAtExit \/ Activate \/
           BeginSaveState \/ BeginPush \/ PushFails \/ BeginExit \/ Watch \/
           BrokerCrashes \/ \E p \in Sid : EmulatorDies(p)
  <2>1. UNCHANGED <<tree, image, slot, states>>
    BY <1>9 DEF ReapOrphan, Refuse, RefuseCallback, NewSession, Spawn, LaunchFails,
      RecordPid, RecordFails, TakeBaseline, StopAtExit, ConfirmStopped, DumpSaves,
      UploadSaves, KeepArchive, RetireAtExit, Activate, BeginSaveState, BeginPush,
      PushFails, BeginExit, Watch, BrokerCrashes, EmulatorDies
  <2> QED
    BY <2>1
<1> QED
  BY <1>1, <1>2, <1>3, <1>4, <1>5, <1>6, <1>7, <1>8, <1>9
  DEF Next, Operation

\* The games' saves and what was restored.
LEMMA SaveTypeStep ==
  ASSUME LifeInv, Next
  PROVE  SaveType'
<1> USE DEF LifeInv, TypeOK, SaveType, PhaseInv, Opening, Launching, Exiting
<1>1. CASE Restore
  <2>1. UNCHANGED <<wrote, haunted, cleared>>
    BY <1>1 DEF Restore
  <2>2. CASE UNCHANGED given
    BY <2>1, <2>2
  <2>3. ASSUME NEW v \in {a.v : a \in library} \cup {NoSave},
               given' = [given EXCEPT ![last + 1] = v]
        PROVE  SaveType'
    <3>1. v \in Version
      BY DEF Archive, NoSave, Version
    <3> QED
      BY <2>1, <2>3, <3>1
  <2> QED
    BY <1>1, <2>2, <2>3 DEF Restore
<1>2. ASSUME NEW p \in Sid, GameSaves(p)
      PROVE  SaveType'
  <2>1. /\ given' = given /\ wrote' = [wrote EXCEPT ![p] = wrote[p] + 1]
        /\ cleared' = cleared
    BY <1>2 DEF GameSaves
  <2>2. wrote[p] + 1 \in 0..MaxSaves
    BY <1>2 DEF GameSaves
  <2>3. haunted' \subseteq haunted \cup ({Owner} \ {p, Nobody})
    BY <1>2 DEF GameSaves
  <2>4. Owner \in 0..MaxSessions
    BY DEF Owner
  <2>5. haunted' \subseteq Sid
    BY <2>3, <2>4
  <2> QED
    BY <2>1, <2>2, <2>5
<1>3. CASE ClearWorkingSlot \/ RetireAtExit \/ BrokerCrashes
  <2>1. UNCHANGED <<wrote, given, haunted>> /\ cleared' \in BOOLEAN
    BY <1>3 DEF ClearWorkingSlot, RetireAtExit, BrokerCrashes
  <2> QED
    BY <2>1
<1>4. CASE ReapOrphan \/ Refuse \/ RefuseCallback \/ NewSession \/ InjectSaves \/ Spawn \/
           LaunchFails \/ RecordPid \/ RecordFails \/ TakeBaseline \/ SaveState \/
           SaveAtExit \/ StopAtExit \/ ExtractSaves \/ ConfirmStopped \/ DumpSaves \/
           UploadSaves \/ KeepArchive \/ Activate \/ BeginSaveState \/ BeginPush \/
           PushLands \/ PushFails \/ BeginExit \/ Watch \/ \E p \in Sid : EmulatorDies(p)
  <2>1. UNCHANGED <<wrote, given, haunted, cleared>>
    BY <1>4 DEF ReapOrphan, Refuse, RefuseCallback, NewSession, InjectSaves, Spawn,
      LaunchFails, RecordPid, RecordFails, TakeBaseline, SaveState, SaveAtExit, StopAtExit,
      ExtractSaves, ConfirmStopped, DumpSaves, UploadSaves, KeepArchive, Activate,
      BeginSaveState, BeginPush, PushLands, PushFails, BeginExit, Watch, EmulatorDies
  <2> QED
    BY <2>1
<1> QED
  BY <1>1, <1>2, <1>3, <1>4
  DEF Next, Operation

\* What RomM and EXPORT_DIR hold.
LEMMA RommTypeStep ==
  ASSUME LifeInv, Next
  PROVE  RommType'
<1> USE DEF LifeInv, TypeOK, RommType, PhaseInv, Opening, Launching, Exiting
<1>1. CASE UploadSaves
  <2>1. UNCHANGED <<kept, outcome>> /\ session \in Sid
    BY <1>1 DEF UploadSaves
  <2>2. library' \subseteq library \cup {Dumped}
    BY <1>1 DEF UploadSaves
  <2>3. Dumped \in Archive
    BY <2>1 DEF Dumped, Archive, Exit
  <2> QED
    BY <2>1, <2>2, <2>3
<1>2. CASE KeepArchive
  <2>1. UNCHANGED <<library, outcome>> /\ session \in Sid
    BY <1>2 DEF KeepArchive
  <2>2. kept' \subseteq kept \cup {Dumped}
    BY <1>2 DEF KeepArchive
  <2>3. Dumped \in Archive
    BY <2>1 DEF Dumped, Archive, Exit
  <2> QED
    BY <2>1, <2>2, <2>3
<1>3. CASE RetireAtExit
  BY <1>3 DEF RetireAtExit, RetireSession
<1>4. CASE ReapOrphan \/ Refuse \/ ClearWorkingSlot \/ Restore \/ RefuseCallback \/
           NewSession \/ InjectSaves \/ Spawn \/ LaunchFails \/ RecordPid \/ RecordFails
           \/ TakeBaseline \/ SaveState \/ SaveAtExit \/ StopAtExit \/ ExtractSaves \/
           ConfirmStopped \/ DumpSaves \/ Activate \/ BeginSaveState \/ BeginPush \/
           PushLands \/ PushFails \/ BeginExit \/ Watch \/ BrokerCrashes \/ \E p \in Sid
           : GameSaves(p) \/ EmulatorDies(p)
  <2>1. UNCHANGED <<library, kept, outcome>>
    BY <1>4 DEF ReapOrphan, Refuse, ClearWorkingSlot, Restore, RefuseCallback,
      NewSession, InjectSaves, Spawn, LaunchFails, RecordPid, RecordFails, TakeBaseline,
      SaveState, SaveAtExit, StopAtExit, ExtractSaves, ConfirmStopped, DumpSaves,
      Activate, BeginSaveState, BeginPush, PushLands, PushFails, BeginExit, Watch,
      BrokerCrashes, GameSaves, EmulatorDies
  <2> QED
    BY <2>1
<1> QED
  BY <1>1, <1>2, <1>3, <1>4
  DEF Next, Operation

\* The count of faults.
LEMMA FaultsTypeStep ==
  ASSUME LifeInv, Next
  PROVE  FaultsType'
<1> USE DEF LifeInv, TypeOK, FaultsType
<1>1. CASE ReapOrphan
  BY <1>1 DEF ReapOrphan
<1>2. CASE ClearWorkingSlot
  BY <1>2 DEF ClearWorkingSlot
<1>3. CASE Restore
  BY <1>3 DEF Restore
<1>4. CASE InjectSaves
  BY <1>4 DEF InjectSaves
<1>5. CASE LaunchFails
  BY <1>5 DEF LaunchFails, RetireSession
<1>6. CASE RecordFails
  BY <1>6 DEF RecordFails, RetireSession
<1>7. CASE SaveState
  BY <1>7 DEF SaveState, WriteState, WriteUnconfirmed, KeepFrame
<1>8. CASE SaveAtExit
  BY <1>8 DEF SaveAtExit, WriteState, WriteUnconfirmed, KeepFrame, CanStates
<1>9. CASE StopAtExit
  BY <1>9 DEF StopAtExit, Extracts
<1>10. CASE ExtractSaves
  BY <1>10 DEF ExtractSaves
<1>11. CASE ConfirmStopped
  BY <1>11 DEF ConfirmStopped
<1>12. CASE DumpSaves
  BY <1>12 DEF DumpSaves
<1>13. CASE UploadSaves
  BY <1>13 DEF UploadSaves, Dumped
<1>14. CASE KeepArchive
  BY <1>14 DEF KeepArchive, Dumped
<1>15. CASE BeginSaveState
  BY <1>15 DEF BeginSaveState, Capture, CanStates
<1>16. CASE BeginExit
  BY <1>16 DEF BeginExit, Capture
<1>17. CASE BrokerCrashes
  BY <1>17 DEF BrokerCrashes
<1>18. CASE Refuse \/ RefuseCallback \/ NewSession \/ Spawn \/ RecordPid \/ TakeBaseline
           \/ RetireAtExit \/ Activate \/ BeginPush \/ PushLands \/ PushFails \/ Watch
           \/ \E p \in Sid : GameSaves(p) \/ EmulatorDies(p)
  <2>1. UNCHANGED <<faults>>
    BY <1>18 DEF Refuse, RefuseCallback, NewSession, Spawn, RecordPid, TakeBaseline,
      RetireAtExit, Activate, BeginPush, PushLands, PushFails, Watch, GameSaves,
      EmulatorDies
  <2> QED
    BY <2>1
<1> QED
  BY <1>1, <1>2, <1>3, <1>4, <1>5, <1>6, <1>7, <1>8, <1>9, <1>10, <1>11, <1>12, <1>13,
     <1>14, <1>15, <1>16, <1>17, <1>18
  DEF Next, Operation

\* Every step keeps the types.
LEMMA TypeStep ==
  ASSUME LifeInv, Next
  PROVE  TypeOK'
<1>1. PlaceType' /\ ExitType' /\ EmuType' /\ ProcessType' /\ DiskType' /\ SaveType' /\
      RommType' /\ FaultsType'
  BY PlaceTypeStep, ExitTypeStep, EmuTypeStep, ProcessTypeStep, DiskTypeStep,
     SaveTypeStep, RommTypeStep, FaultsTypeStep
<1> QED
  BY <1>1 DEF TypeOK, PlaceType, ExitType, EmuType, ProcessType, DiskType, SaveType,
     RommType, FaultsType

\* What each phase knows of the session.
LEMMA PhaseStep ==
  ASSUME LifeInv, Next
  PROVE  PhaseInv'
<1> USE DEF LifeInv, PhaseInv, Opening, Launching, Exiting, TypeOK
<1>1. CASE ReapOrphan
  BY <1>1 DEF ReapOrphan
<1>2. CASE Refuse
  BY <1>2 DEF Refuse
<1>3. CASE ClearWorkingSlot
  BY <1>3 DEF ClearWorkingSlot
<1>4. CASE Restore
  BY <1>4 DEF Restore
<1>5. CASE RefuseCallback
  BY <1>5 DEF RefuseCallback
<1>6. CASE NewSession
  BY <1>6 DEF NewSession
<1>7. CASE InjectSaves
  BY <1>7 DEF InjectSaves
<1>8. CASE Spawn
  BY <1>8 DEF Spawn
<1>9. CASE LaunchFails
  BY <1>9 DEF LaunchFails, RetireSession
<1>10. CASE RecordPid
  BY <1>10 DEF RecordPid
<1>11. CASE RecordFails
  BY <1>11 DEF RecordFails, RetireSession
<1>12. CASE TakeBaseline
  BY <1>12 DEF TakeBaseline
<1>13. CASE SaveState
  BY <1>13 DEF SaveState, WriteState, WriteUnconfirmed, KeepFrame
<1>14. CASE SaveAtExit
  BY <1>14 DEF SaveAtExit, WriteState, WriteUnconfirmed, KeepFrame, CanStates
<1>15. CASE StopAtExit
  BY <1>15 DEF StopAtExit, Extracts
<1>16. CASE ExtractSaves
  BY <1>16 DEF ExtractSaves
<1>17. CASE ConfirmStopped
  BY <1>17 DEF ConfirmStopped
<1>18. CASE DumpSaves
  BY <1>18 DEF DumpSaves
<1>19. CASE UploadSaves
  BY <1>19 DEF UploadSaves, Dumped
<1>20. CASE KeepArchive
  BY <1>20 DEF KeepArchive, Dumped
<1>21. CASE RetireAtExit
  BY <1>21 DEF RetireAtExit, RetireSession
<1>22. CASE Activate
  BY <1>22 DEF Activate
<1>23. CASE BeginSaveState
  BY <1>23 DEF BeginSaveState, Capture, CanStates
<1>24. CASE BeginPush
  BY <1>24 DEF BeginPush, CanStates
<1>25. CASE PushLands
  BY <1>25 DEF PushLands, WriteState
<1>26. CASE PushFails
  BY <1>26 DEF PushFails
<1>27. CASE BeginExit
  BY <1>27 DEF BeginExit, Capture
<1>28. CASE BrokerCrashes
  BY <1>28 DEF BrokerCrashes
<1>29. CASE Watch \/ \E p \in Sid : GameSaves(p) \/ EmulatorDies(p)
  <2>1. UNCHANGED <<session, last, at, pushing, launcher>>
    BY <1>29 DEF Watch, GameSaves, EmulatorDies
  <2> QED
    BY <2>1
<1> QED
  BY <1>1, <1>2, <1>3, <1>4, <1>5, <1>6, <1>7, <1>8, <1>9, <1>10, <1>11, <1>12, <1>13,
     <1>14, <1>15, <1>16, <1>17, <1>18, <1>19, <1>20, <1>21, <1>22, <1>23, <1>24, <1>25,
     <1>26, <1>27, <1>28, <1>29
  DEF Next, Operation

\* A session gets its report as it ends.
LEMMA ReportStep ==
  ASSUME LifeInv, Next
  PROVE  ReportInv'
<1> USE DEF LifeInv, ReportInv, PhaseInv, Opening, Launching, Exiting, TypeOK
<1>1. CASE NewSession
  BY <1>1 DEF NewSession
<1>2. CASE LaunchFails
  BY <1>2 DEF LaunchFails, RetireSession
<1>3. CASE RecordFails
  BY <1>3 DEF RecordFails, RetireSession
<1>4. CASE RetireAtExit
  BY <1>4 DEF RetireAtExit, RetireSession
<1>5. CASE BrokerCrashes
  BY <1>5 DEF BrokerCrashes
<1>6. CASE ReapOrphan \/ Refuse \/ ClearWorkingSlot \/ Restore \/ RefuseCallback \/
           InjectSaves \/ Spawn \/ RecordPid \/ TakeBaseline \/ SaveState \/ SaveAtExit
           \/ StopAtExit \/ ExtractSaves \/ ConfirmStopped \/ DumpSaves \/ UploadSaves
           \/ KeepArchive \/ Activate \/ BeginSaveState \/ BeginPush \/ PushLands \/
           PushFails \/ BeginExit \/ Watch \/ \E p \in Sid : GameSaves(p) \/
           EmulatorDies(p)
  <2>1. UNCHANGED <<session, last, served, outcome>>
    BY <1>6 DEF ReapOrphan, Refuse, ClearWorkingSlot, Restore, RefuseCallback,
      InjectSaves, Spawn, RecordPid, TakeBaseline, SaveState, SaveAtExit, StopAtExit,
      ExtractSaves, ConfirmStopped, DumpSaves, UploadSaves, KeepArchive, Activate,
      BeginSaveState, BeginPush, PushLands, PushFails, BeginExit, Watch, GameSaves,
      EmulatorDies
  <2> QED
    BY <2>1
<1> QED
  BY <1>1, <1>2, <1>3, <1>4, <1>5, <1>6
  DEF Next, Operation

\* Nothing the broker has not given up on runs beside the session.
LEMMA RunningStep ==
  ASSUME LifeInv, Next
  PROVE  RunningInv'
<1> USE DEF LifeInv, RunningInv, PhaseInv, Opening, Launching, Exiting, TypeOK
<1>1. CASE ReapOrphan
  BY <1>1 DEF ReapOrphan, Findable
<1>2. CASE Refuse
  BY <1>2 DEF Refuse
<1>3. CASE ClearWorkingSlot
  BY <1>3 DEF ClearWorkingSlot
<1>4. CASE Restore
  BY <1>4 DEF Restore
<1>5. CASE RefuseCallback
  BY <1>5 DEF RefuseCallback
<1>6. CASE NewSession
  BY <1>6 DEF NewSession
<1>7. CASE InjectSaves
  BY <1>7 DEF InjectSaves
<1>8. CASE Spawn
  BY <1>8 DEF Spawn
<1>9. CASE LaunchFails
  BY <1>9 DEF LaunchFails, RetireSession
<1>10. CASE RecordPid
  BY <1>10 DEF RecordPid
<1>11. CASE RecordFails
  BY <1>11 DEF RecordFails, RetireSession
<1>12. CASE TakeBaseline
  BY <1>12 DEF TakeBaseline
<1>13. CASE SaveState
  BY <1>13 DEF SaveState, WriteState, WriteUnconfirmed, KeepFrame
<1>14. CASE SaveAtExit
  BY <1>14 DEF SaveAtExit, WriteState, WriteUnconfirmed, KeepFrame, CanStates
<1>15. CASE StopAtExit
  BY <1>15 DEF StopAtExit, Extracts
<1>16. CASE ExtractSaves
  BY <1>16 DEF ExtractSaves
<1>17. CASE ConfirmStopped
  BY <1>17 DEF ConfirmStopped
<1>18. CASE DumpSaves
  BY <1>18 DEF DumpSaves
<1>19. CASE UploadSaves
  BY <1>19 DEF UploadSaves, Dumped
<1>20. CASE KeepArchive
  BY <1>20 DEF KeepArchive, Dumped
<1>21. CASE RetireAtExit
  BY <1>21 DEF RetireAtExit, RetireSession
<1>22. CASE Activate
  BY <1>22 DEF Activate
<1>23. CASE BeginSaveState
  BY <1>23 DEF BeginSaveState, Capture, CanStates
<1>24. CASE BeginExit
  BY <1>24 DEF BeginExit, Capture
<1>25. CASE BrokerCrashes
  BY <1>25 DEF BrokerCrashes
<1>26. ASSUME NEW p \in Sid, EmulatorDies(p)
      PROVE  RunningInv'
  BY <1>26 DEF EmulatorDies
<1>27. CASE BeginPush \/ PushLands \/ PushFails \/ Watch \/ \E p \in Sid : GameSaves(p)
  <2>1. UNCHANGED <<session, last, at, running, missed>>
    BY <1>27 DEF BeginPush, PushLands, PushFails, Watch, GameSaves
  <2> QED
    BY <2>1
<1> QED
  BY <1>1, <1>2, <1>3, <1>4, <1>5, <1>6, <1>7, <1>8, <1>9, <1>10, <1>11, <1>12, <1>13,
     <1>14, <1>15, <1>16, <1>17, <1>18, <1>19, <1>20, <1>21, <1>22, <1>23, <1>24, <1>25,
     <1>26, <1>27
  DEF Next, Operation

\* A session is only left open with its emulator running or dead.
LEMMA DeathStep ==
  ASSUME LifeInv, Next
  PROVE  DeathInv'
<1> USE DEF LifeInv, DeathInv, RunningInv, PhaseInv, Opening, Launching, Exiting
<1>1. CASE ReapOrphan
  BY <1>1 DEF ReapOrphan
<1>2. CASE Refuse
  BY <1>2 DEF Refuse
<1>3. CASE ClearWorkingSlot
  BY <1>3 DEF ClearWorkingSlot
<1>4. CASE Restore
  BY <1>4 DEF Restore
<1>5. CASE RefuseCallback
  BY <1>5 DEF RefuseCallback
<1>6. CASE NewSession
  BY <1>6 DEF NewSession
<1>7. CASE InjectSaves
  BY <1>7 DEF InjectSaves
<1>8. CASE Spawn
  BY <1>8 DEF Spawn
<1>9. CASE LaunchFails
  BY <1>9 DEF LaunchFails, RetireSession
<1>10. CASE RecordPid
  BY <1>10 DEF RecordPid
<1>11. CASE RecordFails
  BY <1>11 DEF RecordFails, RetireSession
<1>12. CASE TakeBaseline
  BY <1>12 DEF TakeBaseline
<1>13. CASE SaveState
  BY <1>13 DEF SaveState, WriteState, WriteUnconfirmed, KeepFrame
<1>14. CASE SaveAtExit
  BY <1>14 DEF SaveAtExit, WriteState, WriteUnconfirmed, KeepFrame, CanStates
<1>15. CASE StopAtExit
  BY <1>15 DEF StopAtExit, Extracts
<1>16. CASE ExtractSaves
  BY <1>16 DEF ExtractSaves
<1>17. CASE ConfirmStopped
  BY <1>17 DEF ConfirmStopped
<1>18. CASE DumpSaves
  BY <1>18 DEF DumpSaves
<1>19. CASE UploadSaves
  BY <1>19 DEF UploadSaves, Dumped
<1>20. CASE KeepArchive
  BY <1>20 DEF KeepArchive, Dumped
<1>21. CASE RetireAtExit
  BY <1>21 DEF RetireAtExit, RetireSession
<1>22. CASE Activate
  BY <1>22 DEF Activate
<1>23. CASE BeginSaveState
  BY <1>23 DEF BeginSaveState, Capture, CanStates
<1>24. CASE BeginExit
  BY <1>24 DEF BeginExit, Capture
<1>25. CASE BrokerCrashes
  BY <1>25 DEF BrokerCrashes
<1>26. ASSUME NEW p \in Sid, EmulatorDies(p)
      PROVE  DeathInv'
  BY <1>26 DEF EmulatorDies
<1>27. CASE BeginPush \/ PushLands \/ PushFails \/ Watch \/ \E p \in Sid : GameSaves(p)
  <2>1. UNCHANGED <<session, at, running, died>>
    BY <1>27 DEF BeginPush, PushLands, PushFails, Watch, GameSaves
  <2> QED
    BY <2>1
<1> QED
  BY <1>1, <1>2, <1>3, <1>4, <1>5, <1>6, <1>7, <1>8, <1>9, <1>10, <1>11, <1>12, <1>13,
     <1>14, <1>15, <1>16, <1>17, <1>18, <1>19, <1>20, <1>21, <1>22, <1>23, <1>24, <1>25,
     <1>26, <1>27
  DEF Next, Operation

\* The record follows the process.
LEMMA FindableStep ==
  ASSUME LifeInv, Next
  PROVE  Findable'
<1> USE DEF LifeInv, Findable, RunningInv, PhaseInv, Opening, Launching, Exiting
<1>1. CASE ReapOrphan
  BY <1>1 DEF ReapOrphan
<1>2. CASE Refuse
  BY <1>2 DEF Refuse
<1>3. CASE ClearWorkingSlot
  BY <1>3 DEF ClearWorkingSlot
<1>4. CASE Restore
  BY <1>4 DEF Restore
<1>5. CASE RefuseCallback
  BY <1>5 DEF RefuseCallback
<1>6. CASE NewSession
  BY <1>6 DEF NewSession
<1>7. CASE InjectSaves
  BY <1>7 DEF InjectSaves
<1>8. CASE Spawn
  BY <1>8 DEF Spawn
<1>9. CASE LaunchFails
  BY <1>9 DEF LaunchFails, RetireSession
<1>10. CASE RecordPid
  BY <1>10 DEF RecordPid
<1>11. CASE RecordFails
  BY <1>11 DEF RecordFails, RetireSession
<1>12. CASE TakeBaseline
  BY <1>12 DEF TakeBaseline
<1>13. CASE SaveState
  BY <1>13 DEF SaveState, WriteState, WriteUnconfirmed, KeepFrame
<1>14. CASE SaveAtExit
  BY <1>14 DEF SaveAtExit, WriteState, WriteUnconfirmed, KeepFrame, CanStates
<1>15. CASE StopAtExit
  BY <1>15 DEF StopAtExit, Extracts
<1>16. CASE ExtractSaves
  BY <1>16 DEF ExtractSaves
<1>17. CASE ConfirmStopped
  BY <1>17 DEF ConfirmStopped
<1>18. CASE DumpSaves
  BY <1>18 DEF DumpSaves
<1>19. CASE UploadSaves
  BY <1>19 DEF UploadSaves, Dumped
<1>20. CASE KeepArchive
  BY <1>20 DEF KeepArchive, Dumped
<1>21. CASE RetireAtExit
  BY <1>21 DEF RetireAtExit, RetireSession
<1>22. CASE Activate
  BY <1>22 DEF Activate
<1>23. CASE BeginSaveState
  BY <1>23 DEF BeginSaveState, Capture, CanStates
<1>24. CASE BeginExit
  BY <1>24 DEF BeginExit, Capture
<1>25. CASE BrokerCrashes
  BY <1>25 DEF BrokerCrashes
<1>26. ASSUME NEW p \in Sid, EmulatorDies(p)
      PROVE  Findable'
  BY <1>26 DEF EmulatorDies
<1>27. CASE BeginPush \/ PushLands \/ PushFails \/ Watch \/ \E p \in Sid : GameSaves(p)
  <2>1. UNCHANGED <<session, at, running, record, missed>>
    BY <1>27 DEF BeginPush, PushLands, PushFails, Watch, GameSaves
  <2> QED
    BY <2>1
<1> QED
  BY <1>1, <1>2, <1>3, <1>4, <1>5, <1>6, <1>7, <1>8, <1>9, <1>10, <1>11, <1>12, <1>13,
     <1>14, <1>15, <1>16, <1>17, <1>18, <1>19, <1>20, <1>21, <1>22, <1>23, <1>24, <1>25,
     <1>26, <1>27
  DEF Next, Operation

\* The watch finds a session without its emulator only when that has died.
LEMMA BlameStep ==
  ASSUME LifeInv, Next
  PROVE  WatchBlamesTheDead'
<1> USE DEF LifeInv, WatchBlamesTheDead, DeathInv, PhaseInv, Opening, Launching, Exiting
<1>1. CASE Watch
  BY <1>1 DEF Watch
<1>2. CASE BrokerCrashes
  BY <1>2 DEF BrokerCrashes
<1>3. ASSUME NEW p \in Sid, EmulatorDies(p)
      PROVE  WatchBlamesTheDead'
  BY <1>3 DEF EmulatorDies
<1>4. CASE ReapOrphan \/ Refuse \/ ClearWorkingSlot \/ Restore \/ RefuseCallback \/
           NewSession \/ InjectSaves \/ Spawn \/ LaunchFails \/ RecordPid \/ RecordFails
           \/ TakeBaseline \/ SaveState \/ SaveAtExit \/ StopAtExit \/ ExtractSaves \/
           ConfirmStopped \/ DumpSaves \/ UploadSaves \/ KeepArchive \/ RetireAtExit \/
           Activate \/ BeginSaveState \/ BeginPush \/ PushLands \/ PushFails \/
           BeginExit \/ \E p \in Sid : GameSaves(p)
  <2>1. UNCHANGED <<reported, died>>
    BY <1>4 DEF ReapOrphan, Refuse, ClearWorkingSlot, Restore, RefuseCallback,
      NewSession, InjectSaves, Spawn, LaunchFails, RecordPid, RecordFails, TakeBaseline,
      SaveState, SaveAtExit, StopAtExit, ExtractSaves, ConfirmStopped, DumpSaves,
      UploadSaves, KeepArchive, RetireAtExit, Activate, BeginSaveState, BeginPush,
      PushLands, PushFails, BeginExit, GameSaves
  <2> QED
    BY <2>1
<1> QED
  BY <1>1, <1>2, <1>3, <1>4
  DEF Next, Operation

\* The slot from the state an exit saves to its report, and from there on.
LEMMA StateStep ==
  ASSUME LifeInv, Next
  PROVE  StateInv'
<1> USE DEF LifeInv, StateInv, ReportInv, NoExit, TypeOK, Exit, PhaseInv, Opening,
    Launching, Exiting
<1>1. CASE ReapOrphan
  BY <1>1 DEF ReapOrphan
<1>2. CASE Refuse
  BY <1>2 DEF Refuse
<1>3. CASE ClearWorkingSlot
  BY <1>3 DEF ClearWorkingSlot
<1>4. CASE Restore
  BY <1>4 DEF Restore
<1>5. CASE RefuseCallback
  BY <1>5 DEF RefuseCallback
<1>6. CASE NewSession
  BY <1>6 DEF NewSession
<1>7. CASE InjectSaves
  BY <1>7 DEF InjectSaves
<1>8. CASE Spawn
  BY <1>8 DEF Spawn
<1>9. CASE LaunchFails
  BY <1>9 DEF LaunchFails, RetireSession
<1>10. CASE RecordPid
  BY <1>10 DEF RecordPid
<1>11. CASE RecordFails
  BY <1>11 DEF RecordFails, RetireSession
<1>12. CASE TakeBaseline
  BY <1>12 DEF TakeBaseline
<1>13. CASE SaveState
  BY <1>13 DEF SaveState, WriteState, WriteUnconfirmed, KeepFrame
<1>14. CASE SaveAtExit
  BY <1>14 DEF SaveAtExit, WriteState, WriteUnconfirmed, KeepFrame, CanStates
<1>15. CASE StopAtExit
  BY <1>15 DEF StopAtExit, Extracts
<1>16. CASE ExtractSaves
  BY <1>16 DEF ExtractSaves
<1>17. CASE ConfirmStopped
  BY <1>17 DEF ConfirmStopped
<1>18. CASE DumpSaves
  BY <1>18 DEF DumpSaves
<1>19. CASE UploadSaves
  BY <1>19 DEF UploadSaves, Dumped
<1>20. CASE KeepArchive
  BY <1>20 DEF KeepArchive, Dumped
<1>21. CASE RetireAtExit
  BY <1>21 DEF RetireAtExit, RetireSession
<1>22. CASE Activate
  BY <1>22 DEF Activate
<1>23. CASE BeginSaveState
  BY <1>23 DEF BeginSaveState, Capture, CanStates
<1>24. CASE PushLands
  BY <1>24 DEF PushLands, WriteState
<1>25. CASE BeginExit
  BY <1>25 DEF BeginExit, Capture
<1>26. CASE BrokerCrashes
  BY <1>26 DEF BrokerCrashes
<1>27. CASE BeginPush \/ PushFails \/ Watch \/ \E p \in Sid : GameSaves(p) \/
           EmulatorDies(p)
  <2>1. UNCHANGED <<at, ex, slot, session, served, outcome, cleared>>
    BY <1>27 DEF BeginPush, PushFails, Watch, GameSaves, EmulatorDies
  <2> QED
    BY <2>1
<1> QED
  BY <1>1, <1>2, <1>3, <1>4, <1>5, <1>6, <1>7, <1>8, <1>9, <1>10, <1>11, <1>12, <1>13,
     <1>14, <1>15, <1>16, <1>17, <1>18, <1>19, <1>20, <1>21, <1>22, <1>23, <1>24, <1>25,
     <1>26, <1>27
  DEF Next, Operation

\* No exit dumps, ships or keeps while its emulator runs.
LEMMA GoneStep ==
  ASSUME LifeInv, Next
  PROVE  GoneInv'
<1> USE DEF LifeInv, GoneInv, ReportInv, RunningInv, NoExit, TypeOK, Exit, PhaseInv,
    Opening, Launching, Exiting
<1>1. CASE ReapOrphan
  BY <1>1 DEF ReapOrphan
<1>2. CASE Refuse
  BY <1>2 DEF Refuse
<1>3. CASE ClearWorkingSlot
  BY <1>3 DEF ClearWorkingSlot
<1>4. CASE Restore
  BY <1>4 DEF Restore
<1>5. CASE RefuseCallback
  BY <1>5 DEF RefuseCallback
<1>6. CASE NewSession
  BY <1>6 DEF NewSession
<1>7. CASE InjectSaves
  BY <1>7 DEF InjectSaves
<1>8. CASE Spawn
  BY <1>8 DEF Spawn
<1>9. CASE LaunchFails
  BY <1>9 DEF LaunchFails, RetireSession
<1>10. CASE RecordPid
  BY <1>10 DEF RecordPid
<1>11. CASE RecordFails
  BY <1>11 DEF RecordFails, RetireSession
<1>12. CASE TakeBaseline
  BY <1>12 DEF TakeBaseline
<1>13. CASE SaveState
  BY <1>13 DEF SaveState, WriteState, WriteUnconfirmed, KeepFrame
<1>14. CASE SaveAtExit
  BY <1>14 DEF SaveAtExit, WriteState, WriteUnconfirmed, KeepFrame, CanStates
<1>15. CASE StopAtExit
  <2> HIDE DEF LifeInv
  <2>a. TypeOK
    BY DEF LifeInv
  <2>1. /\ at = "stopping" /\ at' \in {"extracting", "confirming"}
        /\ at' = "extracting" <=> Extracts
        /\ UNCHANGED <<session, outcome, launcher>>
    BY <1>15, <2>a DEF StopAtExit, LifeInv
  <2>2. ex'.kept = ex.kept /\ ex'.told \in {ex.told, ex.told \cup {"forced_exit"}}
    BY <1>15, <2>a DEF StopAtExit
  <2>3. running' \subseteq running
    BY <1>15, <2>a DEF StopAtExit
  <2>4. Staged /\ session \in running' => "forced_exit" \in ex'.told
    BY <1>15, <2>a DEF StopAtExit, Extracts
  <2> QED
    BY <2>1, <2>2, <2>3, <2>4 DEF Extracts, LifeInv
<1>16. CASE ExtractSaves
  <2> HIDE DEF LifeInv
  <2>a. TypeOK
    BY DEF LifeInv
  <2>1. /\ at = "extracting" /\ at' = "confirming"
        /\ UNCHANGED <<session, outcome, launcher, running>>
    BY <1>16, <2>a DEF ExtractSaves, LifeInv
  <2>2. ex'.kept = ex.kept /\ ex'.told \in {ex.told, ex.told \cup {"restore_failed"}}
    BY <1>16, <2>a DEF ExtractSaves
  <2> QED
    BY <2>1, <2>2 DEF LifeInv
<1>17. CASE ConfirmStopped
  BY <1>17 DEF ConfirmStopped
<1>18. CASE DumpSaves
  BY <1>18 DEF DumpSaves
<1>19. CASE UploadSaves
  BY <1>19 DEF UploadSaves, Dumped
<1>20. CASE KeepArchive
  BY <1>20 DEF KeepArchive, Dumped
<1>21. CASE RetireAtExit
  BY <1>21 DEF RetireAtExit, RetireSession
<1>22. CASE Activate
  BY <1>22 DEF Activate
<1>23. CASE BeginSaveState
  BY <1>23 DEF BeginSaveState, Capture, CanStates
<1>24. CASE BeginExit
  BY <1>24 DEF BeginExit, Capture
<1>25. CASE BrokerCrashes
  BY <1>25 DEF BrokerCrashes
<1>26. ASSUME NEW p \in Sid, EmulatorDies(p)
      PROVE  GoneInv'
  BY <1>26 DEF EmulatorDies
<1>27. CASE BeginPush \/ PushLands \/ PushFails \/ Watch \/ \E p \in Sid : GameSaves(p)
  <2>1. UNCHANGED <<at, ex, running, session, outcome, launcher>>
    BY <1>27 DEF BeginPush, PushLands, PushFails, Watch, GameSaves
  <2> QED
    BY <2>1
<1> QED
  BY <1>1, <1>2, <1>3, <1>4, <1>5, <1>6, <1>7, <1>8, <1>9, <1>10, <1>11, <1>12, <1>13,
     <1>14, <1>15, <1>16, <1>17, <1>18, <1>19, <1>20, <1>21, <1>22, <1>23, <1>24, <1>25,
     <1>26, <1>27
  DEF Next, Operation

\* Whose save is where.
LEMMA OwnStep ==
  ASSUME LifeInv, Next
  PROVE  OwnInv'
<1> USE DEF LifeInv, OwnInv, Own, ShipsItsOwn, RunningInv, TypeOK, Exit, Version,
    NoSave, Archive, File, PhaseInv, Opening, Launching, Exiting
<1>1. CASE ReapOrphan
  BY <1>1 DEF ReapOrphan
<1>2. CASE Refuse
  BY <1>2 DEF Refuse
<1>3. CASE ClearWorkingSlot
  BY <1>3 DEF ClearWorkingSlot
<1>4. CASE Restore
  <2> HIDE DEF LifeInv
  <2>a. TypeOK
    BY DEF LifeInv
  <2>b. \A a \in library \cup kept : a.from \in 1..last
    <3> HIDE DEF ShipsItsOwn, Own
    <3> QED
      BY DEF LifeInv
  <2>1. /\ at = "cleared" /\ at' \in {"restored", "idle"} /\ last + 1 \in Sid /\ session = Nobody
        /\ UNCHANGED <<last, session, image, emu, haunted, library, kept, launcher>>
    BY <1>4, <2>a DEF Restore, LifeInv
  <2>2. CASE UNCHANGED given /\ at' = "idle"
    BY <2>1, <2>2 DEF LifeInv
  <2>3. ASSUME NEW v, tree' = [v |-> v, fresh |-> FALSE], at' = "restored",
               given' = [given EXCEPT ![last + 1] = v]
        PROVE  OwnInv'
    <3>1. given'[last + 1] = v
      BY <2>a, <2>1, <2>3
    <3>2. ASSUME NEW a \in library \cup kept
          PROVE  a.from \in 1..last /\ given'[a.from] = given[a.from]
      <4>1. a.from \in 1..last
        BY <3>2, <2>b
      <4>2. \A s \in 1..last : s \in Sid /\ s # last + 1
        BY <2>1, <2>a
      <4>3. a.from \in Sid /\ a.from # last + 1
        BY <4>1, <4>2, Zenon
      <4> QED
        BY <4>1, <4>3, <2>a, <2>3
    <3>3. ShipsItsOwn'
      BY <2>1, <3>2 DEF LifeInv
    <3> QED
      BY <2>1, <2>3, <3>1, <3>2, <3>3
  <2> QED
    BY <1>4, <2>2, <2>3 DEF Restore
<1>5. CASE RefuseCallback
  BY <1>5 DEF RefuseCallback
<1>6. CASE NewSession
  <2> HIDE DEF LifeInv
  <2>a. TypeOK
    BY DEF LifeInv
  <2>1. /\ at = "restored" /\ at' \in {"injecting", "spawning"} /\ session' = last + 1
        /\ last' = last + 1
        /\ at' = "spawning" => ~Staged
        /\ UNCHANGED <<ex, tree, image, given, haunted, library, kept, launcher>>
    BY <1>6, <2>a DEF NewSession, LifeInv
  <2>2. session' \notin haunted => ~tree.fresh /\ tree.v = given[session']
    BY <2>1 DEF LifeInv
  <2>3. ShipsItsOwn'
    BY <2>1 DEF LifeInv
  <2>4. \A a \in library \cup kept : a.from \in 1..(last + 1)
    <3>1. \A a \in library \cup kept : a.from \in 1..last
      <4> HIDE DEF ShipsItsOwn, Own
      <4> QED
        BY DEF LifeInv
    <3>2. 1..last \subseteq 1..(last + 1)
      BY <2>a
    <3> QED
      BY <3>1, <3>2, Zenon
  <2> QED
    BY <2>1, <2>2, <2>3, <2>4
<1>7. CASE InjectSaves
  <2> HIDE DEF LifeInv
  <2>a. TypeOK
    BY DEF LifeInv
  <2>0. /\ at = "injecting" /\ at' = "spawning"
        /\ UNCHANGED <<last, ex, session, tree, given, haunted, library, kept, launcher>>
    BY <1>7 DEF InjectSaves
  <2>b. session \in Sid
    <3> HIDE DEF OwnInv, ShipsItsOwn, Own
    <3> QED
      BY <2>0, <2>a DEF LifeInv
  <2>1. /\ at = "injecting" /\ at' = "spawning" /\ session \in Sid
        /\ UNCHANGED <<last, ex, session, tree, given, haunted, library, kept, launcher>>
    BY <2>0, <2>b
  <2>2. CASE image' = tree.v /\ UNCHANGED emu
    BY <2>1, <2>2 DEF LifeInv
  <2>3. CASE emu' = [emu EXCEPT ![session].restoreFailed = TRUE]
    <3>1. emu'[session].restoreFailed
      BY <2>a, <2>1, <2>3
    <3> QED
      BY <2>1, <3>1 DEF LifeInv
  <2> QED
    BY <1>7, <2>2, <2>3 DEF InjectSaves
<1>8. CASE Spawn
  BY <1>8 DEF Spawn
<1>9. CASE LaunchFails
  BY <1>9 DEF LaunchFails, RetireSession
<1>10. CASE RecordPid
  BY <1>10 DEF RecordPid
<1>11. CASE RecordFails
  BY <1>11 DEF RecordFails, RetireSession
<1>12. CASE TakeBaseline
  BY <1>12 DEF TakeBaseline
<1>13. CASE SaveState
  <2> HIDE DEF LifeInv
  <2>a. TypeOK
    BY DEF LifeInv
  <2>1. /\ at = "saving" /\ at' = "idle" /\ session \in Sid
        /\ UNCHANGED <<last, session, tree, image, given, haunted, library, kept, launcher>>
    BY <1>13, <2>a DEF SaveState, LifeInv
  <2>2. emu'[session].restoreFailed = emu[session].restoreFailed
    <3>1. CASE UNCHANGED emu
      BY <3>1
    <3>2. CASE KeepFrame
      BY <2>a, <2>1, <3>2 DEF KeepFrame
    <3> QED
      BY <1>13, <3>1, <3>2 DEF SaveState
  <2> QED
    BY <2>1, <2>2 DEF LifeInv
<1>14. CASE SaveAtExit
  BY <1>14 DEF SaveAtExit, WriteState, WriteUnconfirmed, KeepFrame, CanStates
<1>15. CASE StopAtExit
  BY <1>15 DEF StopAtExit, Extracts
<1>16. CASE ExtractSaves
  <2> HIDE DEF LifeInv
  <2>a. TypeOK
    BY DEF LifeInv
  <2>1. /\ at = "extracting" /\ at' = "confirming" /\ Staged /\ session # Nobody
        /\ UNCHANGED <<last, session, image, emu, given, haunted, library, kept, launcher>>
    BY <1>16, <2>a DEF ExtractSaves, LifeInv
  <2>2. tree' = tree \/ (~emu[session].restoreFailed /\ tree'.v = image)
    BY <1>16, <2>a DEF ExtractSaves
  <2> QED
    BY <2>1, <2>2 DEF LifeInv
<1>17. CASE ConfirmStopped
  BY <1>17 DEF ConfirmStopped
<1>18. CASE DumpSaves
  BY <1>18 DEF DumpSaves
<1>19. CASE UploadSaves
  <2> HIDE DEF LifeInv
  <2>a. TypeOK
    BY DEF LifeInv
  <2>0. /\ at = "uploading" /\ at' \in {"retiring", "keeping"}
        /\ UNCHANGED <<last, session, tree, image, emu, given, haunted, kept, launcher>>
    BY <1>19 DEF UploadSaves
  <2>1. session \in 1..last
    BY <2>a, <2>0 DEF LifeInv
  <2>2. ex'.zip = ex.zip /\ library' \in {library, library \cup {Dumped}}
    BY <1>19, <2>a DEF UploadSaves
  <2>3. Dumped.from = session /\ Dumped.v = ex.zip
    BY DEF Dumped
  <2>4. session \in haunted \/ Own(session, ex.zip)
    BY <2>0, <2>1 DEF LifeInv
  <2>5. (library \cup kept)' \subseteq (library \cup kept) \cup {Dumped}
    BY <2>0, <2>1, <2>2
  <2>6. ShipsItsOwn'
    BY <2>0, <2>1, <2>3, <2>4, <2>5 DEF LifeInv
  <2>7. \A a \in (library \cup kept)' : a.from \in 1..last
    BY <2>a, <2>0, <2>1, <2>3, <2>5 DEF LifeInv
  <2> HIDE DEF ShipsItsOwn, Own
  <2> QED
    BY <2>0, <2>1, <2>2, <2>4, <2>6, <2>7 DEF LifeInv, Own
<1>20. CASE KeepArchive
  <2> HIDE DEF LifeInv
  <2>a. TypeOK
    BY DEF LifeInv
  <2>0. /\ at = "keeping" /\ at' = "retiring"
        /\ UNCHANGED <<last, session, tree, image, emu, given, haunted, library, launcher>>
    BY <1>20 DEF KeepArchive
  <2>1. session \in 1..last
    BY <2>a, <2>0 DEF LifeInv
  <2>2. ex'.zip = ex.zip /\ kept' \in {kept, kept \cup {Dumped}}
    BY <1>20, <2>a DEF KeepArchive
  <2>3. Dumped.from = session /\ Dumped.v = ex.zip
    BY DEF Dumped
  <2>4. session \in haunted \/ Own(session, ex.zip)
    BY <2>0, <2>1 DEF LifeInv
  <2>5. (library \cup kept)' \subseteq (library \cup kept) \cup {Dumped}
    BY <2>0, <2>1, <2>2
  <2>6. ShipsItsOwn'
    BY <2>0, <2>1, <2>3, <2>4, <2>5 DEF LifeInv
  <2>7. \A a \in (library \cup kept)' : a.from \in 1..last
    BY <2>a, <2>0, <2>1, <2>3, <2>5 DEF LifeInv
  <2> HIDE DEF ShipsItsOwn, Own
  <2> QED
    BY <2>0, <2>1, <2>2, <2>4, <2>6, <2>7 DEF LifeInv, Own
<1>21. CASE RetireAtExit
  BY <1>21 DEF RetireAtExit, RetireSession
<1>22. CASE Activate
  BY <1>22 DEF Activate
<1>23. CASE BeginSaveState
  BY <1>23 DEF BeginSaveState, Capture, CanStates
<1>24. CASE BeginExit
  BY <1>24 DEF BeginExit, Capture
<1>25. CASE BrokerCrashes
  BY <1>25 DEF BrokerCrashes
<1>26. ASSUME NEW p \in Sid, GameSaves(p)
      PROVE  OwnInv'
  <2> HIDE DEF LifeInv
  <2>a. TypeOK
    BY DEF LifeInv
  <2>1. /\ p \in running /\ p <= last /\ p # Nobody
        /\ UNCHANGED <<last, at, ex, session, emu, given, library, kept, launcher>>
    BY <1>26, <2>a DEF GameSaves, LifeInv
  <2>2. haunted' = haunted \cup ({Owner} \ {p, Nobody})
    BY <1>26, <2>a DEF GameSaves
  <2>3. \/ tree'.v.by = p /\ tree'.fresh /\ ~Staged
        \/ UNCHANGED tree /\ image'.by = p
    <3>1. CASE Staged
      BY <1>26, <3>1 DEF GameSaves
    <3>2. CASE ~Staged
      BY <1>26, <3>2 DEF GameSaves
    <3> QED
      BY <3>1, <3>2
  <2>4. CASE session = Nobody
    <3>1. at = "restored" => last + 1 \in haunted'
      BY <2>1, <2>2, <2>4 DEF Owner, LifeInv
    <3> QED
      BY <2>1, <2>2, <2>4, <3>1 DEF LifeInv
  <2>5. CASE session # Nobody /\ p # session
    <3>1. session \in haunted'
      BY <2>2, <2>5 DEF Owner, LifeInv
    <3> QED
      BY <2>1, <2>2, <2>5, <3>1 DEF LifeInv
  <2>6. CASE p = session
    <3>1. at \notin {"uploading", "keeping", "injecting", "restored"}
      BY <2>1, <2>6 DEF GoneInv, LifeInv
    <3> QED
      BY <2>1, <2>2, <2>3, <2>6, <3>1 DEF LifeInv
  <2> QED
    BY <2>4, <2>5, <2>6 DEF LifeInv
<1>27. CASE BeginPush \/ PushLands \/ PushFails \/ Watch \/ \E p \in Sid :
           EmulatorDies(p)
  <2>1. UNCHANGED <<last, at, ex, session, tree, image, emu, given, haunted, library, kept,
                    launcher>>
    BY <1>27 DEF BeginPush, PushLands, PushFails, Watch, EmulatorDies
  <2> QED
    BY <2>1
<1> QED
  BY <1>1, <1>2, <1>3, <1>4, <1>5, <1>6, <1>7, <1>8, <1>9, <1>10, <1>11, <1>12, <1>13,
     <1>14, <1>15, <1>16, <1>17, <1>18, <1>19, <1>20, <1>21, <1>22, <1>23, <1>24, <1>25,
     <1>26, <1>27
  DEF Next, Operation

\* The last save on its way.
LEMMA SaveStep ==
  ASSUME LifeInv, SaveInv, Next, "extract" \notin Fault
  PROVE  SaveInv'
<1> USE DEF LifeInv, SaveInv, Saved, Whole, LastSave, Dumped, RunningInv, GoneInv,
    TypeOK, Exit, NoExit, PhaseInv, Opening, Launching, Exiting
<1>1. CASE ReapOrphan
  BY <1>1 DEF ReapOrphan
<1>2. CASE Refuse
  BY <1>2 DEF Refuse
<1>3. CASE ClearWorkingSlot
  BY <1>3 DEF ClearWorkingSlot
<1>4. CASE Restore
  BY <1>4 DEF Restore
<1>5. CASE RefuseCallback
  BY <1>5 DEF RefuseCallback
<1>6. CASE NewSession
  BY <1>6 DEF NewSession
<1>7. CASE InjectSaves
  BY <1>7 DEF InjectSaves
<1>8. CASE Spawn
  BY <1>8 DEF Spawn
<1>9. CASE LaunchFails
  BY <1>9 DEF LaunchFails, RetireSession
<1>10. CASE RecordPid
  BY <1>10 DEF RecordPid
<1>11. CASE RecordFails
  BY <1>11 DEF RecordFails, RetireSession
<1>12. CASE TakeBaseline
  BY <1>12 DEF TakeBaseline
<1>13. CASE SaveState
  BY <1>13 DEF SaveState, WriteState, WriteUnconfirmed, KeepFrame
<1>14. CASE SaveAtExit
  BY <1>14 DEF SaveAtExit, WriteState, WriteUnconfirmed, KeepFrame, CanStates
<1>15. CASE StopAtExit
  BY <1>15 DEF StopAtExit, Extracts
<1>16. CASE ExtractSaves
  <2> HIDE DEF LifeInv
  <2>a. TypeOK
    BY DEF LifeInv
  <2>1. /\ at = "extracting" /\ at' = "confirming" /\ Staged /\ session # Nobody
        /\ UNCHANGED <<last, session, image, wrote, haunted, launcher>>
    BY <1>16, <2>a DEF ExtractSaves, LifeInv
  <2>2. ex'.told = {} => tree' = IF image = NoSave THEN tree ELSE [v |-> image, fresh |-> TRUE]
    BY <1>16, <2>a DEF ExtractSaves
  <2>3. Saved(session) => image = Whole(session).v /\ image # NoSave
    BY <2>1 DEF NoSave, LifeInv
  <2> QED
    BY <2>1, <2>2, <2>3 DEF LifeInv
<1>17. CASE ConfirmStopped
  BY <1>17 DEF ConfirmStopped
<1>18. CASE DumpSaves
  <2> HIDE DEF LifeInv
  <2>a. TypeOK
    BY DEF LifeInv
  <2>1. /\ at = "dumping" /\ at' \in {"uploading", "retiring"} /\ session # Nobody
        /\ UNCHANGED <<last, session, tree, image, wrote, haunted, launcher>>
    BY <1>18, <2>a DEF DumpSaves, LifeInv
  <2>2. at' = "uploading" => ex'.told = ex.told /\ ex'.zip = tree.v
    BY <1>18, <2>a DEF DumpSaves
  <2>3. Saved(session) /\ ex.told = {} => tree.v = Whole(session).v
    BY <2>1 DEF LifeInv
  <2> QED
    BY <2>1, <2>2, <2>3 DEF LifeInv
<1>19. CASE UploadSaves
  BY <1>19 DEF UploadSaves, Dumped
<1>20. CASE KeepArchive
  BY <1>20 DEF KeepArchive, Dumped
<1>21. CASE RetireAtExit
  BY <1>21 DEF RetireAtExit, RetireSession
<1>22. CASE Activate
  BY <1>22 DEF Activate
<1>23. CASE BeginSaveState
  BY <1>23 DEF BeginSaveState, Capture, CanStates
<1>24. CASE BeginExit
  BY <1>24 DEF BeginExit, Capture
<1>25. CASE BrokerCrashes
  BY <1>25 DEF BrokerCrashes
<1>26. ASSUME NEW p \in Sid, GameSaves(p)
      PROVE  SaveInv'
  <2> HIDE DEF LifeInv
  <2>a. TypeOK
    BY DEF LifeInv
  <2>1. /\ p \in running /\ wrote' = [wrote EXCEPT ![p] = wrote[p] + 1]
        /\ UNCHANGED <<last, at, ex, session, launcher>>
    BY <1>26, <2>a DEF GameSaves, LifeInv
  <2>2. haunted' = haunted \cup ({Owner} \ {p, Nobody})
    BY <1>26, <2>a DEF GameSaves
  <2>3. CASE session = Nobody
    BY <2>1, <2>3 DEF LifeInv
  <2>4. CASE session # Nobody /\ p # session
    <3> HIDE DEF SaveInv, Saved, Whole, LastSave, Dumped, RunningInv, GoneInv, PhaseInv,
                 Exit, TypeOK
    <3>1. session \in haunted'
      BY <2>2, <2>4 DEF Owner, LifeInv
    <3>b. /\ wrote \in [Sid -> 0..MaxSaves]
          /\ last \in Nat /\ p <= last
      BY <2>a, <2>1 DEF TypeOK, LifeInv, RunningInv
    <3>2. (\A s \in Sid : s > last => wrote[s] = 0)'
      BY <2>1, <3>b DEF SaveInv
    <3>3. (at \in {"injecting", "spawning"} => wrote[session] = 0)'
      BY <2>1, <2>4, <3>b DEF SaveInv
    <3>4. ~Saved(session)'
      BY <2>1, <3>1 DEF Saved
    <3> QED
      BY <3>2, <3>3, <3>4 DEF SaveInv
  <2>5. CASE session # Nobody /\ p = session
    <3>1. at \notin {"injecting", "spawning", "dumping", "uploading", "keeping"}
      BY <2>1, <2>5 DEF LifeInv
    <3>2. at = "confirming" /\ Staged => ex.told # {}
      BY <2>1, <2>5 DEF LifeInv
    <3>3. /\ ~Staged => tree' = Whole(session)'
          /\ Staged => image' = Whole(session)'.v
      BY <1>26, <2>a, <2>1, <2>5 DEF GameSaves
    <3> QED
      BY <2>1, <2>5, <3>1, <3>2, <3>3 DEF LifeInv
  <2> QED
    BY <2>3, <2>4, <2>5 DEF LifeInv
<1>27. CASE BeginPush \/ PushLands \/ PushFails \/ Watch \/ \E p \in Sid :
           EmulatorDies(p)
  <2>1. UNCHANGED <<last, at, ex, session, tree, image, wrote, haunted, launcher>>
    BY <1>27 DEF BeginPush, PushLands, PushFails, Watch, EmulatorDies
  <2> QED
    BY <2>1
<1> QED
  BY <1>1, <1>2, <1>3, <1>4, <1>5, <1>6, <1>7, <1>8, <1>9, <1>10, <1>11, <1>12, <1>13,
     <1>14, <1>15, <1>16, <1>17, <1>18, <1>19, <1>20, <1>21, <1>22, <1>23, <1>24, <1>25,
     <1>26, <1>27
  DEF Next, Operation

\* What is reported of the last save is so.
LEMMA ShippedStep ==
  ASSUME LifeInv, SaveInv, ShippedInv, Next
  PROVE  ShippedInv'
<1> USE DEF LifeInv, ShippedInv, NoSilentLoss, Saved, Whole, LastSave, SaveInv, GoneInv,
    RunningInv, ReportInv, TypeOK, Exit, NoExit, PhaseInv, Opening, Launching, Exiting
<1>1. CASE ReapOrphan
  BY <1>1 DEF ReapOrphan
<1>2. CASE Refuse
  BY <1>2 DEF Refuse
<1>3. CASE ClearWorkingSlot
  BY <1>3 DEF ClearWorkingSlot
<1>4. CASE Restore
  BY <1>4 DEF Restore
<1>5. CASE RefuseCallback
  BY <1>5 DEF RefuseCallback
<1>6. CASE NewSession
  BY <1>6 DEF NewSession
<1>7. CASE InjectSaves
  BY <1>7 DEF InjectSaves
<1>8. CASE Spawn
  BY <1>8 DEF Spawn
<1>9. CASE LaunchFails
  BY <1>9 DEF LaunchFails, RetireSession
<1>10. CASE RecordPid
  BY <1>10 DEF RecordPid
<1>11. CASE RecordFails
  BY <1>11 DEF RecordFails, RetireSession
<1>12. CASE TakeBaseline
  BY <1>12 DEF TakeBaseline
<1>13. CASE SaveState
  BY <1>13 DEF SaveState, WriteState, WriteUnconfirmed, KeepFrame
<1>14. CASE SaveAtExit
  BY <1>14 DEF SaveAtExit, WriteState, WriteUnconfirmed, KeepFrame, CanStates
<1>15. CASE StopAtExit
  BY <1>15 DEF StopAtExit, Extracts
<1>16. CASE ExtractSaves
  BY <1>16 DEF ExtractSaves
<1>17. CASE ConfirmStopped
  <2> HIDE DEF LifeInv
  <2>a. TypeOK
    BY DEF LifeInv
  <2>1. /\ at = "confirming" /\ at' \in {"dumping", "retiring"} /\ ~ex.kept
        /\ UNCHANGED <<session, wrote, haunted, library, kept, outcome>>
    BY <1>17, <2>a DEF ConfirmStopped, LifeInv
  <2>2. at' = "retiring" => ex'.mode = "failed" /\ ex'.kept = ex.kept
    BY <1>17, <2>a DEF ConfirmStopped
  <2> QED
    BY <2>1, <2>2 DEF LifeInv
<1>18. CASE DumpSaves
  <2> HIDE DEF LifeInv
  <2>a. TypeOK
    BY DEF LifeInv
  <2>1. /\ at = "dumping" /\ at' \in {"uploading", "retiring"} /\ ~ex.kept /\ session # Nobody
        /\ UNCHANGED <<session, wrote, haunted, library, kept, outcome>>
    BY <1>18, <2>a DEF DumpSaves, LifeInv
  <2>2. ex'.kept = ex.kept /\ ex'.told = ex.told
    BY <1>18, <2>a DEF DumpSaves
  <2>3. Saved(session) /\ ex.told = {} => tree.fresh
    BY <2>1 DEF LifeInv
  <2>4. at' = "retiring" => ex'.mode = "failed" \/ (~tree.fresh /\ ex'.mode = "skipped")
    BY <1>18, <2>a DEF DumpSaves
  <2> QED
    BY <2>1, <2>2, <2>3, <2>4 DEF LifeInv
<1>19. CASE UploadSaves
  BY <1>19 DEF UploadSaves, Dumped
<1>20. CASE KeepArchive
  <2> HIDE DEF LifeInv
  <2>a. TypeOK
    BY DEF LifeInv
  <2>1. /\ at = "keeping" /\ at' = "retiring" /\ ~ex.kept /\ session # Nobody
        /\ UNCHANGED <<session, wrote, haunted, library, outcome>>
    BY <1>20, <2>a DEF KeepArchive, LifeInv
  <2>2. ex'.mode = ex.mode /\ ex'.told = ex.told /\ kept \subseteq kept'
    BY <1>20, <2>a DEF KeepArchive
  <2>3. ex'.kept => Dumped \in kept'
    BY <1>20, <2>1, <2>a DEF KeepArchive
  <2>4. Saved(session) /\ ex.told = {} => Dumped = LastSave(session)
    BY <2>1 DEF LifeInv
  <2> HIDE DEF Dumped
  <2> QED
    BY <2>1, <2>2, <2>3, <2>4 DEF LifeInv
<1>21. CASE RetireAtExit
  <2>1. /\ at = "retiring" /\ at' = "idle" /\ session' = Nobody
        /\ outcome' = [outcome EXCEPT ![session] = ex]
        /\ UNCHANGED <<wrote, haunted, library, kept>>
    BY <1>21 DEF RetireAtExit, RetireSession
  <2> HIDE DEF LifeInv
  <2>2. session \in Sid /\ outcome \in [Sid -> Exit]
    <3> HIDE DEF ShippedInv, SaveInv, GoneInv, NoSilentLoss
    <3> QED
      BY <2>1 DEF LifeInv
  <2>3. outcome'[session] = ex /\ \A s \in Sid : s # session => outcome'[s] = outcome[s]
    BY <2>1, <2>2
  <2>4. Saved(session) /\ ex.told = {}
        => (/\ ex.mode \in {"uploaded", "skipped"} => LastSave(session) \in library
            /\ ex.kept => LastSave(session) \in kept)
    BY <2>1
  <2> HIDE DEF LastSave, Exit
  <2>5. NoSilentLoss'
    BY <2>1, <2>2, <2>3, <2>4 DEF NoSilentLoss, LastSave
  <2> QED
    BY <2>1, <2>5
<1>22. CASE Activate
  BY <1>22 DEF Activate
<1>23. CASE BeginSaveState
  BY <1>23 DEF BeginSaveState, Capture, CanStates
<1>24. CASE BeginExit
  BY <1>24 DEF BeginExit, Capture
<1>25. CASE BrokerCrashes
  BY <1>25 DEF BrokerCrashes
<1>26. ASSUME NEW p \in Sid, GameSaves(p)
      PROVE  ShippedInv'
  <2>1. /\ p \in running /\ wrote' = [wrote EXCEPT ![p] = wrote[p] + 1]
        /\ haunted \subseteq haunted'
        /\ UNCHANGED <<at, ex, session, library, kept, outcome>>
    BY <1>26 DEF GameSaves
  <2>2. \A s \in Sid : s # p => wrote'[s] = wrote[s]
    BY <2>1
  <2>3. NoSilentLoss'
    <3>1. ~outcome[p].kept /\ outcome[p].mode \notin {"uploaded", "skipped"}
      BY <2>1
    <3> QED
      BY <2>1, <2>2, <3>1
  <2>4. CASE at # "retiring"
    BY <2>1, <2>3, <2>4
  <2>5. CASE at = "retiring" /\ p = session
    <3>1. ~ex.kept /\ ex.mode = "failed"
      BY <2>1, <2>5
    <3> QED
      BY <2>1, <2>3, <2>5, <3>1
  <2>6. CASE at = "retiring" /\ p # session
    <3>1. session \in Sid
      BY <2>6
    <3>2. wrote'[session] = wrote[session]
      BY <2>2, <2>6, <3>1
    <3> HIDE DEF NoSilentLoss, LifeInv, SaveInv, Next
    <3>3. at' = "retiring" /\ at' # "keeping"
      BY <2>1, <2>6
    <3>4. Saved(session)' => Saved(session)
      BY <2>1, <3>2
    <3>5. LastSave(session)' = LastSave(session)
      BY <2>1, <3>2
    <3>6. Saved(session) /\ ex.told = {}
          => (/\ ex.mode \in {"uploaded", "skipped"} => LastSave(session) \in library
              /\ ex.kept => LastSave(session) \in kept)
      BY <2>6
    <3> HIDE DEF Saved, LastSave
    <3> QED
      BY <2>1, <2>3, <3>3, <3>4, <3>5, <3>6
  <2> QED
    BY <2>4, <2>5, <2>6
<1>27. CASE BeginPush \/ PushLands \/ PushFails \/ Watch \/ \E p \in Sid :
           EmulatorDies(p)
  <2>1. UNCHANGED <<at, ex, session, wrote, haunted, library, kept, outcome>>
    BY <1>27 DEF BeginPush, PushLands, PushFails, Watch, EmulatorDies
  <2> QED
    BY <2>1
<1> QED
  BY <1>1, <1>2, <1>3, <1>4, <1>5, <1>6, <1>7, <1>8, <1>9, <1>10, <1>11, <1>12, <1>13,
     <1>14, <1>15, <1>16, <1>17, <1>18, <1>19, <1>20, <1>21, <1>22, <1>23, <1>24, <1>25,
     <1>26, <1>27
  DEF Next, Operation

\* A fresh broker has no session, no emulator, no save and no report.
LEMMA InitInv ==
  ASSUME Init
  PROVE  LifeInv /\ SaveInv /\ ShippedInv
<1> USE DEF Init
<1>1. TypeOK
  <2>1. NoExit \in Exit
    BY DEF NoExit, Exit, Version, NoSave, Mode
  <2>2. NoSave \in Version /\ [v |-> NoSave, fresh |-> FALSE] \in File
    BY DEF NoSave, Version, File
  <2>3. [frame |-> NoState, restoreFailed |-> FALSE] \in
       [frame : 0..MaxStates, restoreFailed : BOOLEAN]
    OBVIOUS
  <2>4. PlaceType
    <3>1. launcher \in {"direct", "staged"} /\ at \in Phase
      BY DEF Phase
    <3>2. pushing \in BOOLEAN
      OBVIOUS
    <3>3. /\ session \in 0..MaxSessions /\ served \in 0..MaxSessions
          /\ last \in 0..MaxSessions /\ reported \in 0..MaxSessions
      OBVIOUS
    <3> QED
      BY <3>1, <3>2, <3>3 DEF PlaceType
  <2>5. ExitType /\ ProcessType /\ FaultsType
    BY <2>1 DEF ExitType, ProcessType, FaultsType
  <2>6. DiskType
    BY <2>2 DEF DiskType
  <2>7. EmuType
    BY <2>3 DEF EmuType, NewObjects
  <2>8. SaveType
    <3>1. wrote \in [Sid -> 0..MaxSaves]
      OBVIOUS
    <3>2. given \in [Sid -> Version]
      BY <2>2
    <3>3. haunted \subseteq Sid /\ cleared \in BOOLEAN
      OBVIOUS
    <3> QED
      BY <3>1, <3>2, <3>3 DEF SaveType
  <2>9. RommType
    BY <2>1 DEF RommType
  <2> QED
    BY <2>4, <2>5, <2>6, <2>7, <2>8, <2>9 DEF TypeOK, PlaceType, ExitType, ProcessType,
         DiskType, FaultsType, EmuType, SaveType, RommType
<1>2. PhaseInv /\ RunningInv /\ DeathInv /\ Findable /\ WatchBlamesTheDead
  BY DEF PhaseInv, Opening, Launching, Exiting, RunningInv, DeathInv, Findable,
         WatchBlamesTheDead
<1>3. ReportInv /\ StateInv /\ GoneInv
  BY DEF ReportInv, StateInv, GoneInv, Exiting, NoExit
<1>4. OwnInv
  BY DEF OwnInv, ShipsItsOwn, Own
<1>5. SaveInv
  BY DEF SaveInv, Saved, Exiting
<1>6. ShippedInv
  BY DEF ShippedInv, NoSilentLoss
<1> QED
  BY <1>1, <1>2, <1>3, <1>4, <1>5, <1>6 DEF LifeInv

\* The inductive step.
LEMMA LifeStep ==
  ASSUME LifeInv, [Next]_vars
  PROVE  LifeInv'
<1>1. CASE Next
  BY <1>1, TypeStep, PhaseStep, ReportStep, RunningStep, DeathStep, FindableStep,
     BlameStep, StateStep, GoneStep, OwnStep DEF LifeInv
<1>2. CASE UNCHANGED vars
  <2> USE <1>2 DEF LifeInv, vars
  <2>1. TypeOK'
    BY DEF TypeOK
  <2>2. (PhaseInv /\ ReportInv /\ RunningInv /\ DeathInv)'
    BY DEF PhaseInv, ReportInv, RunningInv, DeathInv
  <2>3. (Findable /\ WatchBlamesTheDead /\ StateInv /\ GoneInv)'
    BY DEF Findable, WatchBlamesTheDead, StateInv, GoneInv
  <2>4. OwnInv'
    BY DEF OwnInv, Own, ShipsItsOwn
  <2> QED
    BY <2>1, <2>2, <2>3, <2>4
<1> QED
  BY <1>1, <1>2

\* The inductive step of what is said of the last save.
LEMMA LosslessStep ==
  ASSUME LifeInv, SaveInv, ShippedInv, [Next]_vars, "extract" \notin Fault
  PROVE  (SaveInv /\ ShippedInv)'
<1>1. CASE Next
  BY <1>1, SaveStep, ShippedStep
<1>2. CASE UNCHANGED vars
  <2>1. SaveInv'
    BY <1>2 DEF vars, SaveInv, Saved, Whole, Dumped, LastSave
  <2>2. ShippedInv'
    BY <1>2 DEF vars, ShippedInv, Saved, LastSave, NoSilentLoss
  <2> QED
    BY <2>1, <2>2
<1> QED
  BY <1>1, <1>2

\* The invariant holds of every behaviour.
THEOREM Invariance == Spec => []LifeInv
<1>1. Init => LifeInv
  BY InitInv
<1>2. LifeInv /\ [Next]_vars => LifeInv'
  BY LifeStep
<1> QED
  BY <1>1, <1>2, PTL DEF Spec

-----------------------------------------------------------------------------
(* The results. *)

\* Every variable keeps its type, for any bounds and whatever faults.
THEOREM TypeCorrect == Spec => []TypeOK
<1>1. LifeInv => TypeOK
  BY DEF LifeInv
<1> QED
  BY <1>1, Invariance, PTL

\* A running emulator the broker has not given up on is the one PID_FILE names,
\* but between its Popen and its record.
THEOREM AlwaysFindable == Spec => []Findable
<1>1. LifeInv => Findable
  BY DEF LifeInv
<1> QED
  BY <1>1, Invariance, PTL

\* The watch never reports an emulator the broker itself put down.
THEOREM OnlyTheDeadAreBlamed == Spec => []WatchBlamesTheDead
<1>1. LifeInv => WatchBlamesTheDead
  BY DEF LifeInv
<1> QED
  BY <1>1, Invariance, PTL

\* The pid record and the watch's log tell the truth about emulators.
THEOREM EmulatorsAccountedForHolds == Spec => []EmulatorsAccountedFor
BY AlwaysFindable, OnlyTheDeadAreBlamed, PTL DEF EmulatorsAccountedFor

\* The read routes serve the state the exit reported until an activate has cleared
\* the slot, and then none or one an archive brought.
THEOREM ExitStateServed == Spec => []ServesTheExitState
<1>1. LifeInv => ServesTheExitState
  BY DEF LifeInv, StateInv, ServesTheExitState
<1> QED
  BY <1>1, Invariance, PTL

\* No session ships another's save, unless an emulator nobody could stop wrote
\* into it.
THEOREM OwnSavesShipped == Spec => []ShipsItsOwn
<1>1. LifeInv => ShipsItsOwn
  BY DEF LifeInv, OwnInv
<1> QED
  BY <1>1, Invariance, PTL

\* With an image that can be read back, an exit with nothing to warn of that
\* reports success has shipped the session's last save, and one that reports a
\* kept archive holds it.
THEOREM NothingSilentlyLost ==
  ASSUME "extract" \notin Fault
  PROVE  Spec => []NoSilentLoss
<1> DEFINE Lossless == LifeInv /\ SaveInv /\ ShippedInv
<1>1. Init => Lossless
  BY InitInv
<1>2. Lossless /\ [Next]_vars => Lossless'
  BY LifeStep, LosslessStep
<1>3. Lossless => NoSilentLoss
  BY DEF ShippedInv
<1> HIDE DEF Lossless
<1> QED
  BY <1>1, <1>2, <1>3, PTL DEF Spec
=============================================================================
