------------------------------ MODULE RomCache ------------------------------
(* The local copies of slow library ROMs (emulators/rom_cache.py): the         *)
(* boot_path a launch goes through, the copy thread it may leave running, the  *)
(* eviction under the limits, and the startup after a broker that died.        *)
(*                                                                             *)
(* A ROM is a set of parts (the files of its folder) and the library holds one *)
(* version of each; a fingerprint is the versions of all parts, because sizes  *)
(* and nanosecond mtimes tell versions apart.  Versions only grow.  Activates  *)
(* are serialised by the session lock, so one launch runs at a time; the copy  *)
(* slot allows one copy at a time.  What lies in the scratch directory is only *)
(* ever read by the copy that made it, so it is the field `got` of that copy.  *)
EXTENDS Naturals, Sequences, FiniteSets

CONSTANTS
  Rom, Part,      \* the cacheable ROMs, and the files each is made of
  MaxVersion,     \* bound: how often the library replaces a file
  Synced,         \* bound: the ROMs it replaces files of
  CanStick,       \* bound: the ROMs whose entry may turn out immovable
  Size,           \* bytes of each ROM
  MaxCount,       \* ROM_CACHE_MAX_COUNT, 0 for no limit
  MaxSize,        \* ROM_CACHE_MAX_GB, 0 for no limit
  AgeLimit,       \* whether ROM_CACHE_MAX_AGE_DAYS is set
  NoRom           \* the None of _active

ASSUME RomCacheAssumption ==
  /\ NoRom \notin Rom
  /\ IsFiniteSet(Rom)
  /\ Part \subseteq Nat /\ Part # {}
  /\ Synced \subseteq Rom
  /\ CanStick \subseteq Rom
  /\ MaxVersion \in Nat
  /\ Size \in [Rom -> Nat]
  /\ MaxCount \in Nat
  /\ MaxSize \in Nat
  /\ AgeLimit \in BOOLEAN

VARIABLES
  lib,       \* the library: the version of each part of each ROM
  entry,     \* the cache: what each ROM's entry holds, or NoEntry
  order,     \* the ROMs from the least to the most recently launched
  active,    \* _active
  copy,      \* the copy thread, which owns the copy slot while it runs
  launch,    \* the boot_path call of the activate in progress
  game,      \* what the emulator runs, and from where
  up,        \* whether the broker runs
  blocking,  \* whether ROM_CACHE_MODE is "blocking"
  stuck      \* the entries whose folder cannot be moved

vars == <<lib, entry, order, active, copy, launch, game, up, blocking, stuck>>

-----------------------------------------------------------------------------
Gone == MaxVersion + 1
Fingerprint == [Part -> 0 .. MaxVersion]
Parts == [Part -> 0 .. Gone]
NoPlan == [p \in Part |-> Gone]

NoEntry == [parts |-> NoPlan, print |-> NoPlan]
NoCopy == [pc |-> "idle", rom |-> NoRom, plan |-> NoPlan, got |-> NoPlan, ok |-> FALSE]
NoLaunch == [pc |-> "idle", rom |-> NoRom, plan |-> NoPlan]
NoGame == [from |-> "none", rom |-> NoRom, plan |-> NoPlan, got |-> NoPlan]
FromLibrary == [NoGame EXCEPT !.from = "library"]

Entries == {r \in Rom : entry[r] # NoEntry}

Orders == {s \in [1 .. Cardinality(Rom) -> Rom] : \A r \in Rom : \E i \in DOMAIN s : s[i] = r}
Older(a, b) == \E i, j \in DOMAIN order : i < j /\ order[i] = a /\ order[j] = b
\* _touch: the ROM becomes the most recently launched one.
Touched(r) == Append(SelectSeq(order, LAMBDA x : x # r), r)

TypeOK ==
  /\ lib \in [Rom -> Fingerprint]
  /\ entry \in [Rom -> [parts : Parts, print : Parts]]
  /\ order \in [1 .. Cardinality(Rom) -> Rom]
  /\ active \in Rom \cup {NoRom}
  /\ copy \in [pc : {"idle", "evict", "copy", "verify", "install", "swap", "done", "failed"},
               rom : Rom \cup {NoRom}, plan : Parts, got : Parts, ok : BOOLEAN]
  /\ launch \in [pc : {"idle", "planned", "missed", "joining"},
                 rom : Rom \cup {NoRom}, plan : Parts]
  /\ game \in [from : {"none", "library", "cache"}, rom : Rom \cup {NoRom},
               plan : Parts, got : Parts]
  /\ up \in BOOLEAN
  /\ blocking \in BOOLEAN
  /\ stuck \in SUBSET Rom

Init ==
  /\ lib = [r \in Rom |-> [p \in Part |-> 0]]
  /\ entry = [r \in Rom |-> NoEntry]
  /\ order = (CHOOSE s \in Orders : TRUE)
  /\ active = NoRom
  /\ copy = NoCopy
  /\ launch = NoLaunch
  /\ game = NoGame
  /\ up = TRUE
  /\ blocking \in BOOLEAN
  /\ stuck \in SUBSET CanStick

-----------------------------------------------------------------------------
(* Eviction.                                                                  *)
\* The bytes of the ROMs in S, each byte named by its ROM and its place.
Total(S) == Cardinality(UNION {{r} \X (1 .. Size[r]) : r \in S})

\* Variant: the copy about to be made is left out of the limits.
FitsToday(S, count, bytes) ==
  /\ MaxCount > 0 => Cardinality(S) <= MaxCount
  /\ MaxSize > 0 => Total(S) <= MaxSize

Fits(S, count, bytes) ==
  /\ MaxCount > 0 => Cardinality(S) + count <= MaxCount
  /\ MaxSize > 0 => Total(S) + bytes <= MaxSize

\* Variant: the entry the last launch booted is not protected.
PicksActiveToo(V, keep, count, bytes) ==
  LET free == Entries \ {keep}
  IN /\ V \subseteq free
     /\ \A v \in V, w \in free \ V : Older(v, w)
     /\ V = free \/ Fits(free \ V, count, bytes)
     /\ AgeLimit \/ \A v \in V :
          (\A w \in V \ {v} : Older(w, v)) => ~Fits(free \ (V \ {v}), count, bytes)

\* _evict_locked picks V: oldest first, never the entry being copied nor the
\* active one, and no more than the count and size limits ask for, unless the
\* age limit takes some as well.
PicksVictims(V, keep, count, bytes) ==
  LET pool == Entries \ {keep}
      free == pool \ {active}
  IN /\ V \subseteq free
     /\ \A v \in V, w \in free \ V : Older(v, w)
     /\ V = free \/ Fits(pool \ V, count, bytes)
     /\ AgeLimit \/ \A v \in V :
          (\A w \in V \ {v} : Older(w, v)) => ~Fits(pool \ (V \ {v}), count, bytes)

\* _discard moves the entry aside in one rename; the delete that follows works
\* outside the entries.
Discarded(r) == NoEntry

\* _remove of every victim; one that cannot be moved stays, with a warning.
AfterRemoval(V) == [r \in Rom |-> IF r \in V \ stuck THEN Discarded(r) ELSE entry[r]]

-----------------------------------------------------------------------------
(* The launch: _boot_path, called by activate under the session lock.         *)
\* _plan fingerprints the ROM, or refuses it (a symlink, a lone sheet, a boot
\* file that is staged elsewhere), or cannot read it: boot_path never fails.
Plan(r) ==
  /\ up
  /\ launch = NoLaunch
  /\ game = NoGame
  /\ \/ /\ launch' = [pc |-> "planned", rom |-> r, plan |-> lib[r]]
        /\ UNCHANGED <<active, game>>
     \/ /\ \/ copy.pc # "swap" /\ active' = NoRom
           \/ UNCHANGED active
        /\ game' = FromLibrary
        /\ UNCHANGED launch
  /\ UNCHANGED <<lib, entry, order, copy, up, blocking, stuck>>

\* Under the state lock: the manifest's fingerprint is the plan's and the boot
\* file is there.
IsHit(r, plan) == entry[r].print = plan

Check ==
  /\ launch.pc = "planned"
  /\ copy.pc # "swap"
  /\ IF IsHit(launch.rom, launch.plan)
     THEN /\ active' = launch.rom
          /\ order' \in {order, Touched(launch.rom)}
          /\ game' = [from |-> "cache", rom |-> launch.rom, plan |-> launch.plan,
                      got |-> entry[launch.rom].parts]
          /\ launch' = NoLaunch
     ELSE /\ active' = NoRom
          /\ launch' = [launch EXCEPT !.pc = "missed"]
          /\ UNCHANGED <<order, game>>
  /\ UNCHANGED <<lib, entry, copy, up, blocking, stuck>>

\* The copy slot is taken without waiting; without it, or when the thread does
\* not start, the game boots from the library.
TakeSlot ==
  /\ launch.pc = "missed"
  /\ \/ /\ launch' = NoLaunch
        /\ game' = FromLibrary
        /\ UNCHANGED copy
     \/ /\ copy.pc = "idle"
        /\ copy' = [pc |-> "evict", rom |-> launch.rom, plan |-> launch.plan,
                    got |-> NoPlan, ok |-> FALSE]
        /\ IF blocking
           THEN launch' = [launch EXCEPT !.pc = "joining"] /\ UNCHANGED game
           ELSE launch' = NoLaunch /\ game' = FromLibrary
  /\ UNCHANGED <<lib, entry, order, active, up, blocking, stuck>>

\* thread.join returned with the thread dead.
JoinDone ==
  /\ launch.pc = "joining"
  /\ copy.pc = "idle"
  /\ IF copy.ok
     THEN /\ active' = launch.rom
          /\ game' = [from |-> "cache", rom |-> launch.rom, plan |-> launch.plan,
                      got |-> entry[launch.rom].parts]
     ELSE game' = FromLibrary /\ UNCHANGED active
  /\ copy' = NoCopy
  /\ launch' = NoLaunch
  /\ UNCHANGED <<lib, entry, order, up, blocking, stuck>>

\* Variant: the join has no timeout.
NeverTimesOut == copy.pc = "done" /\ copy.pc = "idle" /\ UNCHANGED vars

\* thread.join timed out: the copy goes on behind the game.
JoinTimeout ==
  /\ launch.pc = "joining"
  /\ copy.pc # "idle"
  /\ game' = FromLibrary
  /\ launch' = NoLaunch
  /\ UNCHANGED <<lib, entry, order, active, copy, up, blocking, stuck>>

-----------------------------------------------------------------------------
(* The copy thread: _populate, and the release of the slot behind it.         *)
CopyEvict ==
  /\ copy.pc = "evict"
  /\ IF MaxSize > 0 /\ Size[copy.rom] > MaxSize
     THEN copy' = [copy EXCEPT !.pc = "failed"] /\ UNCHANGED entry
     ELSE /\ \E V \in SUBSET Entries :
               /\ PicksVictims(V, copy.rom, 1, Size[copy.rom])
               /\ entry' = AfterRemoval(V)
          /\ \E room \in {"copy", "failed"} : copy' = [copy EXCEPT !.pc = room]
  /\ UNCHANGED <<lib, order, active, launch, game, up, blocking, stuck>>

\* The files are copied in the order of their names.
CopyPart ==
  /\ copy.pc = "copy"
  /\ \E p \in Part :
       /\ copy.got[p] = Gone
       /\ \A q \in Part : q < p => copy.got[q] # Gone
       /\ copy' = [copy EXCEPT !.got[p] = lib[copy.rom][p],
                               !.pc = IF \A q \in Part \ {p} : copy.got[q] # Gone
                                      THEN "verify" ELSE "copy"]
  /\ UNCHANGED <<lib, entry, order, active, launch, game, up, blocking, stuck>>

\* Variant: the copy is not compared with the plan.
CopyUnverified ==
  /\ copy.pc = "verify"
  /\ copy' = [copy EXCEPT !.pc = "install"]
  /\ UNCHANGED <<lib, entry, order, active, launch, game, up, blocking, stuck>>

\* The ROM is fingerprinted again: a copy of two versions is thrown away.
CopyVerify ==
  /\ copy.pc = "verify"
  /\ copy' = [copy EXCEPT !.pc = IF lib[copy.rom] = copy.plan THEN "install" ELSE "failed"]
  /\ UNCHANGED <<lib, entry, order, active, launch, game, up, blocking, stuck>>

\* Under the state lock, which "swap" keeps: the old entry goes aside...
CopyDiscard ==
  /\ copy.pc = "install"
  /\ IF copy.rom \in Entries \cap stuck
     THEN copy' = [copy EXCEPT !.pc = "failed"] /\ UNCHANGED entry
     ELSE /\ copy' = [copy EXCEPT !.pc = "swap"]
          /\ entry' = [entry EXCEPT ![copy.rom] = Discarded(copy.rom)]
  /\ UNCHANGED <<lib, order, active, launch, game, up, blocking, stuck>>

\* ... and the scratch directory is renamed to the entry.
CopySwap ==
  /\ copy.pc = "swap"
  /\ entry' = [entry EXCEPT ![copy.rom] = [parts |-> copy.got, print |-> copy.plan]]
  /\ order' = Touched(copy.rom)
  /\ copy' = [copy EXCEPT !.pc = "done"]
  /\ UNCHANGED <<lib, active, launch, game, up, blocking, stuck>>

\* An OSError or the deadline of the budget ends the copy anywhere.
CopyFails ==
  /\ copy.pc \in {"evict", "copy", "verify", "install", "swap"}
  /\ copy' = [copy EXCEPT !.pc = "failed"]
  /\ UNCHANGED <<lib, entry, order, active, launch, game, up, blocking, stuck>>

\* Variant: only a copy that worked releases the slot.
CopyEndsWell ==
  /\ copy.pc = "done"
  /\ copy' = [NoCopy EXCEPT !.ok = launch.pc = "joining"]
  /\ UNCHANGED <<lib, entry, order, active, launch, game, up, blocking, stuck>>

CopyEnds ==
  /\ copy.pc \in {"done", "failed"}
  /\ copy' = [NoCopy EXCEPT !.ok = copy.pc = "done" /\ launch.pc = "joining"]
  /\ UNCHANGED <<lib, entry, order, active, launch, game, up, blocking, stuck>>

-----------------------------------------------------------------------------
(* The rest of the world.                                                     *)
LibraryChanges(r, p) ==
  /\ lib[r][p] < MaxVersion
  /\ lib' = [lib EXCEPT ![r][p] = @ + 1]
  /\ UNCHANGED <<entry, order, active, copy, launch, game, up, blocking, stuck>>

GameEnds ==
  /\ game # NoGame
  /\ game' = NoGame
  /\ UNCHANGED <<lib, entry, order, active, copy, launch, up, blocking, stuck>>

\* The broker dies, its threads with it; the emulator it leaves is reaped
\* before anything is launched again.
Crash ==
  /\ up
  /\ up' = FALSE
  /\ active' = NoRom
  /\ copy' = NoCopy
  /\ launch' = NoLaunch
  /\ game' = NoGame
  /\ UNCHANGED <<lib, entry, order, blocking, stuck>>

Startup ==
  /\ ~up
  /\ up' = TRUE
  /\ \E V \in SUBSET Entries :
       /\ PicksVictims(V, NoRom, 0, 0)
       /\ entry' = AfterRemoval(V)
  /\ UNCHANGED <<lib, order, active, copy, launch, game, blocking, stuck>>

Next ==
  \/ \E r \in Rom : Plan(r)
  \/ Check \/ TakeSlot \/ JoinDone \/ JoinTimeout
  \/ CopyEvict \/ CopyPart \/ CopyVerify \/ CopyDiscard \/ CopySwap \/ CopyFails \/ CopyEnds
  \/ \E r \in Synced, p \in Part : LibraryChanges(r, p)
  \/ GameEnds \/ Crash \/ Startup

\* The broker's own steps run; a read from the library (CopyPart) may hang.
Fairness ==
  /\ WF_vars(Check) /\ WF_vars(TakeSlot) /\ WF_vars(JoinDone) /\ WF_vars(JoinTimeout)
  /\ WF_vars(CopyEvict) /\ WF_vars(CopyVerify) /\ WF_vars(CopyDiscard) /\ WF_vars(CopySwap)
  /\ WF_vars(CopyEnds) /\ WF_vars(Startup)

Spec == Init /\ [][Next]_vars /\ Fairness

-----------------------------------------------------------------------------
(* A game that boots from the cache gets every part at the version its launch *)
(* planned, and whatever stands in its entry while it runs is that version:   *)
(* no half copy, no mix of two syncs, no newer copy slipped under it          *)
(* (rom_cache.py _boot_path and _populate).                                   *)
RunsOneVersion ==
  game.from = "cache" =>
    /\ game.got = game.plan
    /\ game.rom \in Entries => entry[game.rom].parts = game.plan

(* Making room never takes the entry a game runs from: while the game runs,   *)
(* only a copy of the same ROM ever moves it (rom_cache.py _evict_locked).    *)
EvictionSparesTheGame ==
  [][ /\ game.from = "cache" /\ game' = game
      /\ game.rom \in Entries /\ entry'[game.rom] = NoEntry
      => copy.pc = "install" /\ copy.rom = game.rom ]_vars

(* The limits hold whatever the order of launches, copies and crashes.  What  *)
(* may be over them is an entry that cannot be moved, and the entry a game    *)
(* may be running from beside the one just copied (rom_cache.py               *)
(* _evict_locked).                                                            *)
LimitsKept ==
  LET movable == Entries \ stuck IN Fits(movable, 0, 0) \/ Cardinality(movable) <= 2

(* A launch ends even when the library hangs under the copy it waits for: the *)
(* join is bounded (rom_cache.py _boot_path).                                 *)
LaunchGetsThrough == launch.pc # "idle" ~> launch.pc = "idle"

(* As long as reads of the library return, the copy slot comes free again,    *)
(* whether the copy worked, failed, or outlived the launch that started it    *)
(* (rom_cache.py _start_copy and _copy_in_background).                        *)
SlotComesFree == WF_vars(CopyPart) => (copy.pc # "idle" ~> copy.pc = "idle")

(* Neither a launch nor the copy slot waits on the other for ever: both       *)
(* together.                                                                  *)
NobodyWaitsForEver == LaunchGetsThrough /\ SlotComesFree
=============================================================================
