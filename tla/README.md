# Specifications of romm-broker

The broker runs one emulator container. It starts a game RomM asks for, seats a
controller and viewers in a room around it, hands selkies the tokens that decide who
may play, and gives RomM the saves back when the session ends. These modules specify
the parts of it where steps of several tasks, failures or crashes interleave. They are
translated from `src/webstation_broker`; line references below are into that directory.

## The system

| Component | State | Operations | What is hard |
|---|---|---|---|
| Session API (`api.py`, `session.py`) | `SESSION`, `_SESSION_LOCK`, `LAST_EXIT` | activate, join, invite, exit, state routes | one lock for all of them; awaits between check and use; partial failure of activate and exit |
| Room (`room.py`, `session.py`) | `ROOM`, seats, pads, mouse and keyboard, speaker | connect, frames, disconnect | a handler per socket, suspended while the session changes under it |
| Token map (`selkies.py`) | the map selkies enforces | push, clear | pushes are retried and not ordered |
| Outbox (`outbox.py`) | three lanes, two events, one drain task per socket | `send_json`, `send_media`, `flush`, `aclose` | a slow recipient, ageing, eviction, stalls, a handler that must be told |
| Memory card (`memcard.py`, `api.py`) | card, staging, backup | GET, PUT | crash or disk failure between file system calls; saves lost |
| Process control (`emulators/base.py`) | the process, its pid record | launch, stop, reap | crash between spawn and record, pid reuse, a process that will not die |
| Caches (`emulators/rom_cache.py`, `extraction_cache.py`) | entries, scratch, `_active` | copy, boot, evict, sweep | threads, timeouts, restart in the middle |
| Archives and imports (`saves.py`, `imports.py`) | none | pack, restore, place | pure selection rules, then writes |
| Callback (`callback.py`) | none | upload | a lost answer |
| Launchers (`emulators/*`) | configuration, states, save trees | launch, save, load, swap, resume | an emulator that answers late, to something else, or not at all |
| Room page (`frontend/`) | browser | - | environment of the room |

The broker is one asyncio event loop plus threads for launches and archives. An HTTP
operation takes `_SESSION_LOCK` and keeps it over its awaits; a room handler takes no
lock. A handler changes `SESSION` and `ROOM`, pushes the token map to selkies (a POST,
which suspends) and broadcasts (which only queues in each member's outbox). The exit
tells the room, closes its sockets and clears the token map. RomM captures and replaces
the memory card between sessions, under the same lock.

A launch may leave a thread behind (a copy into the ROM cache, a deferred resume, a boot
watchdog) which holds no session lock and may outlive its session.

What makes each correct: of the room, that seats, sockets, pads, roles and the map at
selkies agree however tasks interleave; of an outbox, that JSON is reliable, that what
is sent can be decoded, and that a slow member costs a bounded backlog; of the card,
that no failure loses a save or leaves half a card; of a session's life, that what its game
saved reaches RomM or is reported as not having done so, and that no emulator runs that
nothing can find; of the caches, that only whole copies
boot and that a bounded disk suffices; of a launcher, that what it answers is what the
emulator did, and that nothing torn or foreign is resumed; of the locks, that they come
free.

## Modules

**`Room`** is the session, its room and the token map. A step is what one task runs
between two awaits that really suspend: a websocket handshake, a websocket close, a
token push. `ctl`, `viewers`, `pad`, `mk`, `speaker` and `profile` are the fields of
`SESSION`; `roomCtl` and `roomViewers` are `ROOM`; `pc`, `tok`, `asCtl` and `open`
describe the handlers and their sockets; `push` is the one push each task may have
outstanding and `selkies` the map enforced; `op` is the API operation that holds the
lock. Actions carry the names of the code: `HandleAssignSlot`, `ReleaseSeat`,
`RegisterViewer`, `NotifySessionEnded`. `informed` is a history of which sockets have
been sent the room as it is.
`MCRoom` gives it small instances, `RoomProofs` its theorems.

**`CardRegister`** is what the card is from outside: a register that changes as a whole, by
the game that has it open or by RomM while none has, and that a swap cut short can at
worst set aside, whole. The next game then gets a blank card, and the next swap deletes
what was set aside.
**`MemoryCard`** is the card of a pooled container, with every file system call of
`memcard.replace` an action that can fail or be the last before a crash. A card is the
image it holds, or `Partial`. RomM is part of it: it captures a card before it sends
another. `owed`, `written`, `before` and `hasty` are history variables; `hasty` says
that RomM activated with a PUT of its own unanswered, which `NoSaveLost` leaves out:
the broker cannot tell that the upload it is reading is one nobody waits for.
`MCMemoryCard` and `MemoryCardProofs` go with it.

**`JsonChannel`** is what an outbox promises of JSON: a queue from which a message
leaves only by being handed to the socket, or when the connection is over. The send that
hands it over may raise, and then the message is lost (see the observations).
**`Outbox`** is one outbox with its drain task, the reader of its socket
(`room._RoomReader`) and the keyframe requests it raises. The inner loop of `_drain`
runs without suspending from one send to the next, so `TakeNext` is that whole loop:
it takes the next JSON message, else the first fresh audio frame, else the first video
frame that `_next_media` does not drop, dropping those before it; or it runs dry.
`Drops` says which those are. Frames have one size. A frame's age is one bit,
set by `AgeVideo` and `AgeAudio`. Senders number their frames, so that a delta can
tell whether its predecessor was sent; `heard` and `seen` record what was. A send ends
well, raises on a socket that stays connected and is logged (`SendEnds`), raises with the
connection over (`SendFails`), or stalls and is given up (`SendStalls`).
`MCOutbox` instantiates it and `OutboxProofs` has its theorems.

**`Lifecycle`** is one broker driving one emulator at a time from activate to the
answer of the exit, its own restarts included. `at` is where the operation that holds
`_SESSION_LOCK` stands, one value for each await of `_start_session`, `save_state` and
`_do_exit`; `pushing` is a `put_state_file` that streams its body under the same lock.
`session`, `served` and `reported` are `SESSION`, `LAST_EXIT` and the record the watch
last logged; `running` and `record` the processes alive and what `PID_FILE` names;
`slot` the state in the working slot (`Brought` is one an archive restored into it); `ex` the locals of the exit and `outcome` the
report RomM got for each session. The session's saves are one file, known by who wrote
it: `tree` is what the dump walks. Two launchers stand for all. With `direct` the
emulator writes `tree` itself. With `staged`, which is xemu, it writes `image`; `tree`
is the staging dir injected into it before the boot and extracted from it at the exit.
A step can fail by a fault, of which a behaviour has `MaxFaults`: a process that
outlives its stop, a reap, restore, injection, launch, record, capture, extraction,
dump, upload or kept archive that fails, a save state that cannot be confirmed, an exit
that raises, a broker that crashes. `died`, `missed` and `haunted` are histories: the
emulators that exited on their own, those the broker gave up on, and the sessions some
other session's emulator wrote into.
`MCLifecycle` instantiates it and `LifecycleProofs` has its theorems.

**`RomCache`** is `boot_path`, the copy thread it may leave running, eviction and the
startup after a crash. A ROM is a set of parts and the library holds one version of
each; a fingerprint is the versions of all parts. `entry` is the cache, `order` the
launches by age, `active` is `_active`, `copy` the thread that owns the copy slot,
`launch` the `boot_path` call, `game` what runs and from where. The state lock covers
what `CopyDiscard` and `CopySwap` do together, so nothing that takes it goes between
them. `MCRomCache` instantiates it and `CacheProofs` has its theorems.

**`ExtractionCache`** is `ExtractionCache.extract` and what shadPS4 makes of it: reuse,
the budget, eviction file by file, staging file by file, placing, the startup sweep. An
archive is a set of files of one size, one of them its boot target; `dir` is what each
entry's folder holds. shadPS4 unpacks an archive into its scratch folder to find the
package, of `Pkg` files' size, before it extracts that beside it (`unpacked`). `cut` and `short` are histories: the entries an eviction left
half deleted, and whether a size estimate fell short. Its specification is
`ExtractionSpec`; its names differ from those of `RomCache`, so that one module,
`CacheProofs`, can have the theorems about both. `MCExtractionCache` instantiates it.

**`Retroarch`** is one RetroArch session: the requests that go through `_disc_lock` (the
tray), the resume thread that shares it, the core, and the player's hotkeys. A state
file is the number of the write that made it, `made` says what asked for that write,
`writing` is what the core has accepted and not written. A wait that may run out is a
step that may be taken at any time, except that a save the core took is on disk before
the second wait after it runs out. `MCRetroarch` and `RetroarchProofs` go with it.

**`SaveArchive`** has the pure rules of `saves.py` and `imports.py`: one operator for each
check of `plan_v1`, of the import preflight and its plan, what a restore writes and keeps,
and what a dump finds changed. **`SaveCycle`** runs them over sessions of a pooled
container on DuckStation or Flycast: activate checks, clears, writes, and launches; the
game saves; the exit settles the resume state, marker and all, and dumps. RomM is part of
it and files the newest of each file per player. `wrote` and `clean` are histories, and
`tended` in a state is one too: the exit or import that made it could settle it, and its
marker was shipped with it (`Refiled`). A step of activate is a pass over the tree, and
between two sessions everything in the tree grows old (`Left`). A member has any stamp
there is; what RomM files of one player it sends back under one date of `Dates`, whichever
that is. Two assumptions say what
the constants may be: `CycleAssumption`, that the slack of a dump covers the file system's
grain and that sessions are further apart than it, and `ExtrasAssumption`, that an archive
no exit shipped is nobody's progress, has one card, and holds no settled state but
a whole import. `MCSaveCycle` gives it its archives and `SaveCycleProofs` has its
theorems.

**`StateSlot`** is the working slot of the launchers that drive their emulator from
outside: Dolphin, PPSSPP, ScummVM and RPCS3 by hotkeys nobody answers, PCSX2 by PINE,
which acknowledges before it acts. Saves are confirmed by the file and who holds it open,
loads by access times or Dolphin's undo buffer, and a thread of each launch resumes it or
watches it boot. `read` in a request is that the access time it waits on is past its mark:
an emulator that reads the state moves it, and so do the header read and the mark of a
resume thread and PPSSPP's rename of a late save (`Stirs`, `Backdated`), which `stirred`
records. A request may have got no `marked` access time at all. They differ in a few
named ways: ScummVM's slot is a name made of its target (`ByName`), PPSSPP and RPCS3
write a state beside its name (`Beside`), PCSX2 and RPCS3 watch the boot (`Watched`),
RPCS3 saves only at the exit and boots its state (`ExitOnly`), and a thread of ScummVM is
never told that its launch is over (`Superseded`). A menu macro is one step. `host` is
the launcher and whether its disc tells the broker the game; `said` is the last answer,
and whether it is true. `MCStateSlot` and `StateSlotProofs` go with it.

Each property is preceded by what it says and the code it is about. Some are the
conjunction of two or three that answer one question together. Beside a definition there
may be a variant of it, named for a slip in the code it models and used by nothing: each
property fails when such a variant stands in for the definition, which shows that it
depends on the code. `PROJECT.json` names one for each property a run checks; the others
break another conjunct of it: `HasRoomInclusive` breaks `WithinCap`, `NoneSuperseded`
`OneSocketPerSeat`, `ControllerCleared` `ReplacedHandlerTakesNothing`, `ControllerStays`
`DeadSocketLeaves`, `MoveInByCopying` `NeverHalfWiped`, `WatchUnlocked`
`WatchBlamesTheDead`, `ReapAtActivateOnly` `OrphanGoes`, `WatchOnce` `DeathNoticed`,
`CopyEndsWell` `SlotComesFree`, `TrustEviction` `CapKept`, `ProbedOnce` `DiscTracked`,
and `PollTrusting` and `ConfirmedBySending` the `LoadedForReal` of their modules.

## Runs

| Run | Instance | Shows |
|---|---|---|
| `room` | 3 tokens, 2 sockets, 1 pad, cap 1, rejoins by id and by name, a nickname, grace | `SeatingSound`, `SocketsServeSeats`, `InputFollowsTheSocket`, `ConnectedGuestKeepsSeat` |
| `room_liveness` | 3 tokens, 1 socket, a user who rejoins, 2 attempts, refusals | `SelkiesRoutesSoundly`, `NothingStays` |
| `card_swap` | 2 PUTs, 2 images, crashes, failing staging, renames and reads | `CardWhole`, `ImplementsCardRegister`, `NoSaveLost`, `AnswersAreTrue`, `LockComesFree` |
| `outbox_media` | 1 sender, backlog of 2 frames | `Decodable`, `BacklogBounded`, `VideoThaws` |
| `outbox_json` | 2 messages, lane of 3, audio backlog of 2 | `ImplementsJsonChannel`, `IdleMeansFlushed`, `AbandonedLeaves` |
| `lifecycle` | 2 sessions, 1 save each, 2 states, 2 faults, both launchers | `NoSilentLoss`, `ShipsItsOwn`, `ServesTheExitState`, `EmulatorsAccountedFor`, `SeenThrough` |
| `rom_cache` | 3 ROMs of 2 parts, 2 versions of one, limits of 2 entries and 3 bytes | `RunsOneVersion`, `LimitsKept`, `EvictionSparesTheGame`, `NobodyWaitsForEver` |
| `extraction` | 3 archives, packages of up to 2, cap of 3 files | `CacheSound`, `ExtractionEnds` |
| `retroarch` | 2 requests, 4 writes, 2 discs, 2 resume attempts, 1 hotkey | `AnswersHonest`, `ResumeLoadsWhatItFound`, `SwapsSound`, `MenuAsFound`, `TrayComesFree` |
| `save_cycle` | 2 sessions, 2 players, 2 discs, 13 archives, 2 dates, 1 fault, both launchers | `RestoreHonest`, `ProgressKept`, `SessionSound`, `ShipsTheSession` |
| `state_slot` | 5 launchers, 2 launches, 2 requests, 2 files a launch | `AnswersHonest`, `ResumesRightly`, `BootFailureNoticed` |

The conjoined properties are `SeatingSound` (`PadsExclusive`, `RolesNameSeats`,
`WithinCap`), `SocketsServeSeats` (`OneSocketPerSeat`, `InformedWhenQuiet`),
`InputFollowsTheSocket` (`LeavingGivesUpInput`, `ReplacedHandlerTakesNothing`),
`NothingStays` (`LockComesFree`, `DeadSocketLeaves`), `CardWhole` (`EitherCardWhole`,
`NeverHalfWiped`), `EmulatorsAccountedFor` (`Findable`, `WatchBlamesTheDead`),
`SeenThrough` (`ExitRetires`, `OrphanGoes`, `DeathNoticed`), `NobodyWaitsForEver`
(`LaunchGetsThrough`, `SlotComesFree`), `CacheSound` (`OnlyEvictionHalves`, `CapKept`),
`SwapsSound` (`DiscTracked`, `ProbesUndone`), `SessionSound` (`ResumesSafely`), and the
two `AnswersHonest`. `CacheSound`, `SessionSound` and the two `AnswersHonest` carry the
type invariant of their modules.

One more run shows a disagreement between the code and what it says of itself:
`room_map_in_sync`: pushes are not ordered, and selkies may keep the older map with
nothing left to correct it (`selkies.py:138`).

### Observations

Behaviour met while modelling that some comment or caller would not expect. No run is
about these; where a property would meet one, the property or the instance says so.

- A controller whose handshake spans the exit registers in the room afterwards: a viewer
  is looked up again after `accept()`, a controller is not (`room.py:251`). A second
  controller socket takes the first one's place in `ROOM` without closing it
  (`room.py:251`, against `room.py:193`).
- A push that outlives the exit puts the retired session's tokens back at selkies
  (`api.py:1496`). The broker hands a read-only seat a pad, which only the web page
  declines to offer (`session.py:590`).
- The close of the socket whose seat a join takes has no timeout (`session.py:440`), though
  the join holds the session lock meanwhile; nor have those a handler makes, of the socket
  it replaced (`room.py:261`) and of its own (`room.py:301`, `room.py:313`). The closes at
  a session's end and of an outbox have one (`session.py:722`, `outbox.py:224`).
  `NothingStays` excepts the four.
- A send that raises on a socket that is still connected is logged and the drain goes on
  (`outbox.py:336`): a JSON message is lost like that, though `send_json` says that none
  is dropped (`outbox.py:121`; `tests/test_outbox.py:443` has the loss), and a video frame
  without opening a gap, so that the next delta goes out without the frame it depends on.
  `Decodable` and `JsonChannel` are about what the socket is given.
- After a crash between the two renames of a card, a delete that stops half way and then
  a failing rename put half a card in the slot (`memcard.py:270`).
- xemu's disk image cannot be read at the exit, and the report is that of a session that
  changed nothing (`emulators/xemu.py:1500`).
- A state pushed into the slot is served with the frame of the state it replaced
  (`api.py:2042`).
- `LAST_EXIT` stands until the activate has a session. One that is refused after the clear,
  by a member that cannot be written or by its callback (`api.py:954`), leaves the state
  routes serving the last exit's emulator with the state its own archive restored into the
  slot (`emulators/base.py:838`, `api.py:904`), or none.
- The ROM cache looks for a hit before it takes the copy slot and does not look again:
  a copy that another thread finished in between is made once more, and its swap can then
  replace the entry a later launch is running from (`emulators/rom_cache.py:370`). The
  parts are the planned ones, so `RunsOneVersion` holds, and
  `EvictionSparesTheGame` names the case. A read of the library that hangs keeps the copy
  slot for good.
- An eviction cut short leaves a folder that may still hold its boot target, and boots as
  it is (`emulators/extraction_cache.py:541`); `cut` marks these. A title too large for the
  cap evicts everything before it is refused (`emulators/extraction_cache.py:553`). While
  shadPS4 extracts a package out of an archive, the archive's content lies beside the
  result (`emulators/shadps4.py:597`) and is in no reservation (`emulators/shadps4.py:614`):
  cache and scratch pass the cap by it.
- RetroArch: a first save that lands between the retry's toggle and its look leaves the
  menu open (`emulators/retroarch.py:3873`); a resume whose first look finds a state a
  given-up save made takes that for the one to resume (`emulators/retroarch.py:3411`).
- Restores: an archive the checks accept may still fail to be written, when a subtree is
  read-only or Flycast's clear left a directory in the way; the slot is empty then
  (`saves.py:1177`). A state without its marker, after a clear or a dump that could not
  finish, is resumed as a lone unmarked one. A quarantined state stays through other
  players' sessions. What an archive dates to the two seconds before the baseline rides
  along in the dump: a stamp later than the restore is set back (`saves.py:1261`), one just
  before it is not, and the dump goes by the baseline less the slack (`saves.py:392`).
- A dump of more than `SAVE_FILE_MAX_BYTES` ships nothing and names nothing
  (`saves.py:423`): the session's saves are gone, and only the error says so.
- An imported state is accepted with a name of up to 255 bytes (`imports.py:627`), and
  staged under one that is 22 longer (`saves.py:112`, `saves.py:1180`): longer than 233, the
  write fails after the clear. DuckStation and Flycast keep room for their own suffix only
  (`emulators/duckstation.py:651`, `emulators/flycast.py:559`). A Flycast ROM with such a
  name also has its own filed states refused, since an archive of the broker's own is held
  to the staged length (`saves.py:934`).
- A dump that cannot read a state and ships its new marker leaves RomM with the state of
  an earlier exit under that marker, and if the two exits were of different discs of one
  state name, the next session resumes the wrong one's (`saves.py:432`). It takes three
  sessions, and the proof of `ResumesSafely` is what found it; a pair shipped in part
  counts as not settled (`Refiled`).
- Flycast names a state after the ROM alone, and two regions of a game share it; the
  marker tells them apart only when there is one (`emulators/flycast.py:255`).
- PCSX2: when the acknowledgement of a save is lost, `save_state` answers no and does not
  discard the file, and the stop cuts the write short (`emulators/pcsx2.py:1219`). An
  emulator that dies over a write leaves a file that passes for whole, since nobody holds
  it open any more. Dolphin discards no unfinished state. A boot between the
  watchdog's last look and its deadline is reported as failed (`emulators/pcsx2.py:1185`).
- A load is confirmed by the state's access time, and not only a load moves it. Dolphin's
  resume thread reads the state's header (`emulators/dolphin.py:1337`, `:467`), and marks a
  state written since later than a request's own mark; PPSSPP renames a late save over the
  state, whose access time is then new. A request that waits at that moment is answered yes
  with nothing loaded (`emulators/dolphin.py:701`, `emulators/ppsspp.py:672`). The probe for
  access times is one scratch file for the process (`emulators/dolphin.py:620`): of two
  loads at a time one may take the file system for `noatime`, and PPSSPP then answers yes
  on trust. `LoadedForReal` excepts these.
- ScummVM: the thread that resumes a launch does not see that its launch is over
  (`emulators/scummvm.py:1862`): `stop` does not touch the number the thread compares. What
  keeps it out of a later game is that it sends its keys to its own process's window only.

### Bounds

Tokens, sockets, PUTs and images are sets; an instance stops when it has used them up,
and such runs do not check for deadlock. Three tokens make a controller and two
guests, or a session and its successor with a guest; two sockets make a reconnect race
its predecessor, and one of each of two members. One pad is enough to dispute. The cap
is set to be reached. A push makes one attempt where only order matters, two where a
retry does. Two images tell the old card from the new one, two PUTs a card from its
successor and a replace from the one that follows a crash.
Outbox frames are numbered modulo 3: with at most two in the lane, a frame that follows
one dropped cannot pass for its successor unless three in a row were dropped. One
config waits at a time, and one sender is enough for `Decodable` since a sender's
frames are told apart only by gaps of its own. `MaxJson` 3 with two messages overflows
with repeated and with distinct messages.

Two sessions let one inherit what the other left: its files, its emulator, its state.
One save tells a session's own from what was restored into it. Two states tell the
exit's from one before or after it. Two faults make a failure meet another, or a crash;
`extract` is not among those of `lifecycle` (see the observations).

In `rom_cache` three ROMs make room for a game, a copy and a victim, two parts can be of
two versions, and the limits are such that a copy must evict. `r2` may be immovable. In
`extraction` archives are of two, three and four files under a cap of three: two never
fit together, one never fits, and a delete or a staging can stop half way; a package is
smaller than its game, as large, or the archive is a package itself. In
`retroarch` two requests race the resume and follow one another; four writes are a
request's three and one that was there. In `save_cycle` two sessions of two players or
two discs tell what one leaves to the other; one fault meets any one operation; its
times are an old stamp, a leftover, one at the restore, which is within the slack of the
baseline, and a clock ahead; `Grain` 2 is FAT's. In `state_slot` two
launches let a thread outlive its own; two writes tell a state from its successor; an
archive holds at most one state.

### Fairness

Every POST of the room has a timeout (`selkies._post`), and so has the close of a socket at
the end of a session (`CLOSE_WAIT`); handshakes end with their socket. What continues an
operation or a handler after one of these is weakly fair. The close a join makes of the
socket it takes the seat of, and those a handler makes, have none: `JoinPush`,
`AnnounceJoin`, `RefuseSocket` and `HungUp`, which follow them, are granted nothing, and
`NothingStays` excepts who waits there. `LeaveLoop` is strongly
fair: a dead socket has finitely many frames buffered, but a handler may be in the
middle of one again and again. File system calls return, so `ReplaceStep` is weakly
fair. In `Outbox` the drain task is weakly fair, since a send ends within
`SEND_STALL_LIMIT`; so are the reader and its watcher. Nothing makes frames or messages
come, except that `VideoThaws` is about senders that go on streaming, and it assumes a
recipient that keeps up (`KeepsUp`): what the code promises is that it then recovers.
In `Lifecycle` an operation that was accepted runs on, every wait in it having a
timeout, and so does the watch. A state push is granted nothing: it holds the lock
while it reads a body without a timeout (`api.py:2011`), so the properties are about
accepted operations. The game, RomM's requests and faults need never happen.

In `RomCache` the broker's steps run and a join times out; a read of the library may
hang, so `LaunchGetsThrough` assumes nothing of `CopyPart` and `SlotComesFree` does. In
`ExtractionCache` a tool runs under a timeout, a `.zip` is unpacked in a loop over its
finitely many members, and a delete returns. In
`Retroarch` and `StateSlot` every wait of a thread or request has a deadline, and so
these are weakly fair (in `Retroarch` together, since none of them goes on for ever); a
save the core took is written (`Lands`); otherwise the emulator and the player owe
nothing.

## Proofs

Each `...Proofs` module proves, for every value of the constants allowed by the
assumptions of the module it is about.

`RoomProofs`. `TypeCorrect` proves `TypeOK`; its inductive invariant adds `SessionInv`
(no seats without a session, tokens minted before they seat anyone), without which an
activate would seat a token somebody has. `RolesNameSeatsHolds` needs, beside that,
only that every way of losing a seat goes through `RoleAfter`. `PadsExclusiveHolds`
needs that a fresh seat has no pad and that `Displaced` names every other holder.
`WithinCapHolds` counts seats, with lemmas on cardinality. `SeatingSoundHolds` puts the
three together. `SelkiesRoutesSoundlyHolds`
shows that every map ever built routes soundly, that a push only repeats a map that was
built, and that selkies only holds a map that was pushed, so that losses, retries and
reordering cannot matter.
The other three rest on `TokenInv`: a token is drawn once, a handler at work has one, and
a controller's socket holds none of a viewer's. `SocketsServeSeatsHolds` adds that a
serving handler of a seat is the socket the room has for it (`ServeInv`), that a socket
is registered only once it is up (`NewInv`) and that those an exit takes out are its own
to close (`EndingInv`); a member lacks news only while a handler that will broadcast is
at work, and only a broadcast ends that.
`ConnectedGuestKeepsSeatHolds` needs that a nameless member has no id (`GuestInv`).

`MemoryCardProofs`. The inductive invariant ties the phase of a replace to what is in
the three directories, and the lock to the phase. `TypeCorrect` and
`NoSwapUnderTheGameHolds` are unconditional, and so is `NoSaveLostHolds`: by `SaveInv`
RomM holds the last save once the slot is accounted for, hence while a PUT uploads and
while a replace takes the card apart. `CardWholeHolds` and `AnswersAreTrueHolds` assume
`"remove" \notin Fault`, that a delete is not cut short: without it half a card can
reach the slot (see the observations). So does `ImplementsCardRegisterHolds`, which maps
every step to one of `CardRegister` or to none: the card is the one in the slot, else a
whole one in the backup, and it is aside when no replace is there to put it back. Each
of the calls of a replace is invisible but the one that moves the new card in, the one
that deletes a backup left aside, and a restore that fails. It adds `Opened`, that a
game has a card open.

`LifecycleProofs`. `LifeInv` ties each phase to what the variables may hold in it:
whose session is open, what the exit's report may say so far, which processes may be
alive and what the record names, and who wrote the files that are there. `Findable`
rests on the phase in which a process exists without a record; `WatchBlamesTheDead` on
the fact that under a free lock a session's emulator is running or has died by itself;
`ServesTheExitState` on the slot changing, while no session is open, only by an activate:
its clear empties it (`cleared`) and its restore puts nothing there but what the archive
brought (`Brought`), which needs the push to hold the lock; `ShipsItsOwn` on the working slot being cleared before a session
owns it, and on the flag xemu raises when its image may be another's.
`NothingSilentlyLost` adds two invariants, that while the game's last save is unshipped
it is in the tree with a fresh time (or on the image, or a warning says so), and that
what was shipped is the last save since no game runs past the dump. It assumes
`"extract" \notin Fault`, without which it fails (see the observations).

`OutboxProofs`. `OutboxInv` says what holds whenever no loop is half way: the byte count
is the number of frames in the lanes, over the limit there are only configs, a set idle
event means empty lanes and no send, and a closed outbox has no drain. Its lemmas are
about cutting and evicting from a lane; what a loop does to the lanes (`Drops`,
`Evicted`) is what they are for. `DecodableHolds` rests on `LinkInv`: every frame of the
video lane has the config last queued before it and follows the frame of its sender
queued before it, what went out counting as before the lane and what the sender makes
next as behind it; only the first frame of a sender may follow nothing, and then the
sender is in a gap. Appending, evicting and cutting a lane keep that, in a lemma each.
Went out means handed to the socket: a send that raises on a live socket loses its frame
unrecorded, and `Decodable` says nothing of what such a loss does to the frames after. `ImplementsChannelSteps` maps every step to one of `JsonChannel` under the
mapping of `Outbox`, safety only, a send that raises to a delivery that loses its message.

`CacheProofs`, of the ROM cache. `CacheInv` rests on versions only growing: an entry's
is at most that of a copy under way, which is at most that of a launch, which is at most
the library's. A copy verified against the library is therefore the version planned, and
a hit the one the launch saw. `JoinInv` carries that over the wait of a launch for its
copy, and `GameInv` over a copy that replaces the entry under the game, which has the
same plan. `LimitsKeptHolds` adds `RoomInv`: from its eviction on, a copy has made room
for the entry it will install, since only its own swap adds one and the active entry
cannot be taken. Sizes of a set of ROMs are the cardinality of their bytes, and lemmas
say that they add up and shrink with the set.

`CacheProofs`, of the extraction cache. The invariant says that only unpacking fills the
scratch folder, that what is placed is the whole game, and that from the check of the
cap to the placing, the cache, its orphans and the reservation together fit under the cap
and, for shadPS4, one package more (`Overhang`), which lies unpacked in scratch beside
what the extractor writes and is in no reservation. Lemmas on
cardinality say what deleting and placing do to the size. `CacheSoundHolds` needs the
second check of the cap, since an eviction may have given up before there was room.

`SaveCycleProofs`. `IInv` follows a file through tree, archive and library. A stamp says
where a file is from (`StampInv`): what a clear could not remove is older than the
baseline less the slack, and so is what came with the archive, unless its own stamp is in
the slack (`Dated`) and it ships again. What a dump finds changed was therefore written
or imported here or is so dated, and `ShipsTheSessionHolds` follows with `WroteInv`.
`OwnInv` says that while clears go through all progress in sight is the player's,
except in what was set aside, which is too old to be shipped; `ProgressKeptHolds` takes from
it whose progress is filed, and from `CardInv` that the cards an archive brought are in
the mounted one. For that, `CardsInv` says of what is filed, sent and restored that a
game's card is the only one and that the mounted card holds all of it, so that a card
that ships again for its stamp brings nothing back, and `ArchiveInv` that whatever the
player has filed is in the archive served.
`RestoreHonestHolds` rests on `ArchiveInv`, that what is served passed the checks, and on
lemmas on what each check rules out: two members at one path, one below another, one that
lands where a link or a spared directory is. A state of an import whose name is too long
to be staged is the one thing they let through. `LandedInv` keeps what was written until the
launch. `SettledInv` says that a settled state is whole and has beside it, wherever it is
filed, sent or restored, the marker of its own disc; `ResumesSafely` is what the launch
makes of it. Nothing is assumed of the players, discs, names or faults, and of archives only
`ExtrasAssumption`.

`StateSlotProofs`. `SlotInv` adds three facts to the properties: a load a thread asked for
waits in the emulator of the thread's own launch (`TodoInv`), while a save is waited for
a new file that is not whole is still held open, unless the emulator died over it
(`WriteInv`), and an access time moves only with a load or because the broker or a rename
stirred it (`ReadInv`).

`RetroarchProofs`. `CoreFacts` says which phases belong to which request, who holds the
tray in them, and that what the core writes of a request is only ever the request at
work's. Three groups of facts rest on it. `RetroInv`: a newer file is what confirms a
save, a resume's file is nobody's request as long as it holds the tray, and what the
menu must be at each stage of the retry when nobody else touched it. `HonestInv`: a read
that is not the core's is the GET route's, and in its grace; `AnswersHonestHolds`
therefore assumes `~SlowEcho`, that no echo takes longer than the grace. `SwapInv`: a
probe that wrote proves the menu closed at the eject, and from then on the disc and the
steps to go make up the disc asked for.

Only model-checked: all liveness, which needs fairness and ENABLED, out of the prover's
reach (`NothingStays`, `LockComesFree`, `VideoThaws`, `AbandonedLeaves`, `SeenThrough`,
`NobodyWaitsForEver`, `ExtractionEnds`, `TrayComesFree`, `BootFailureNoticed`, and the
fairness in `ImplementsJsonChannel`). Every other property of a passing run is a theorem.

## Not modelled

Of the room: chat, resolution and media relays, cooldowns and rate limits, invite tokens
(an arrival by invite is a `Join`), and a seat's permission, which the broker only
relays. Of the lifecycle: developer mode; the read
routes, which change no modelled state; reuse of a pid; several files in
a save tree (`SaveCycle` has them), and the slack of the baseline (likewise); guest
writes lost by killing xemu; the processes a desktop session detaches.

Of RetroArch: cores without states, which swap discs without a probe; the configuration
and core tables; a write that pauses mid-file for longer than the half second the broker
waits; the player's own save during a swap, which the swap undoes. A launch is a new
launcher instance, so nothing carries over. Of save archives: the zip format, size
limits, excluded and retired subtrees (empty for the two launchers), how an import's
name is refined or suggested, imports for a disc other than the one declared. Of the
working slot: a GET of a state, whose false confirmation only a log line records; the
moment between a thread's last look at the launch number and its load; a write that pauses
mid-file for longer than the broker waits; the keys of a ScummVM macro one by one, any of
which may get lost; the states RPCS3 clears of a title it cannot tell.

Of the launchers, Xenia, Cemu, Eden, Azahar and the desktop are file layouts,
configuration and command lines with no state or concurrency beyond `base.py`; so is
what is left out of the others. The room page is the environment of `Room`, the
scripts are run by hand. `PROJECT.json` lists every component with the reason.

## Plan

Done: all modules and proofs above. What is left, most important first:

1. The pid record against pid reuse and process groups, composed with the stop and reap
   of `Lifecycle`: nothing foreign is killed.
2. An abstract specification of a session's saves, at the level of what RomM is told,
   which `Lifecycle` and `SaveCycle` both implement.
3. The placement rules of further launchers in `SaveArchive`.
