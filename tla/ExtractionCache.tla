--------------------------- MODULE ExtractionCache ---------------------------
(* The caches archived games are unpacked into (emulators/extraction_cache.py *)
(* and its five owners: PPSSPP, ScummVM and RetroArch's MSU-1 through         *)
(* extract(), RPCS3 and shadPS4 through the same steps in functions of their  *)
(* own).  An entry is the set of files its folder holds; the lookup of a boot *)
(* target sees one of them, Boot.  A re-upload has another key and so is      *)
(* another archive.  Which entry is least recently used depends on markers    *)
(* that a cut-short delete may take with it: any entry may be the one.        *)
EXTENDS Naturals, FiniteSets

CONSTANTS
  Archive,   \* the archived games, by cache key
  Files,     \* what each unpacks to; every file is one unit of size
  Boot,      \* the file a boot target is
  Pkg,       \* shadPS4: the size of the .pkg in each archive, 0 for a bare .pkg
  LargestPkg,  \* no .pkg is larger
  Cap,       \* max_gb
  Kinds,     \* which of "shared", "rpcs3" and "shadps4" owns the cache
  Absent     \* a folder that is not there

ASSUME ExtractionAssumption ==
  /\ IsFiniteSet(Archive)
  /\ \A a \in Archive : IsFiniteSet(Files[a]) /\ Boot \in Files[a]
  /\ LargestPkg \in Nat /\ Pkg \in [Archive -> 0 .. LargestPkg]
  /\ Absent \notin Archive
  /\ \A a \in Archive : \A held \in SUBSET Files[a] : held # Absent
  /\ Cap \in Nat
  /\ Kinds \subseteq {"shared", "rpcs3", "shadps4"}

VARIABLES
  kind,     \* the owner of this cache
  dir,      \* what each entry's folder holds, or Absent
  staged,   \* the game's files in the running extraction's scratch folder
  unpacked, \* shadPS4: how much of the archive's .pkg lies beside them
  orphans,  \* the size of what dead extractions left in scratch
  ext,      \* the extraction in progress, which holds the cache lock
  booted,   \* the entry the emulator boots from, or Absent
  running,  \* whether the broker runs
  cut,      \* history: the entries an eviction began to delete and did not finish
  short     \* history: whether an extraction outgrew the room reserved for it

scratchVars == <<staged, unpacked, orphans>>
extractionVars == <<kind, dir, scratchVars, ext, booted, running, cut, short>>

-----------------------------------------------------------------------------
AllFiles == UNION {Files[a] : a \in Archive}
IsThere(a) == dir[a] # Absent
HoldsBoot(a) == IsThere(a) /\ Boot \in dir[a]

\* _cache_size_bytes: every folder counts, the scratch folder included.
Stored == {p \in Archive \X AllFiles : IsThere(p[1]) /\ p[2] \in dir[p[1]]}
CacheSize == Cardinality(Stored) + Cardinality(staged) + unpacked + orphans

FilesIn(a) == IF IsThere(a) THEN Cardinality(dir[a]) ELSE 0

Idle == [pc |-> "idle", key |-> Absent, kept |-> 0, victim |-> Absent]
At(pc) == ext.pc = pc

\* What a delete that may fail on any file leaves of a folder.
Leftovers(a) == (SUBSET dir[a]) \cup {Absent}

ExtractionTypeOK ==
  /\ kind \in Kinds
  /\ \A a \in Archive : dir[a] = Absent \/ dir[a] \subseteq Files[a]
  /\ staged \subseteq AllFiles /\ unpacked \in Nat
  /\ orphans \in Nat
  /\ ext \in [pc : {"idle", "budget", "evict", "delete", "room", "stage", "place", "relook"},
              key : Archive \cup {Absent}, kept : Nat, victim : Archive \cup {Absent}]
  /\ booted \in Archive \cup {Absent}
  /\ running \in BOOLEAN
  /\ cut \subseteq Archive
  /\ short \in BOOLEAN

ExtractionInit ==
  /\ kind \in Kinds
  /\ dir = [a \in Archive |-> Absent]
  /\ staged = {} /\ unpacked = 0
  /\ orphans = 0
  /\ ext = Idle
  /\ booted = Absent
  /\ running = TRUE
  /\ cut = {}
  /\ short = FALSE

-----------------------------------------------------------------------------
(* The launch resolves its archive: a folder with a boot target is a hit, one *)
(* without is deleted, errors ignored, and extracted again.                   *)
Extract(a) ==
  /\ running /\ ext = Idle /\ booted = Absent
  /\ IF HoldsBoot(a)
     THEN booted' = a /\ UNCHANGED <<dir, ext, cut>>
     ELSE /\ ext' = [Idle EXCEPT !.pc = "budget", !.key = a]
          /\ IF IsThere(a)
             THEN dir' \in {[dir EXCEPT ![a] = rest] : rest \in Leftovers(a)}
             ELSE UNCHANGED dir
          /\ UNCHANGED <<booted, cut>>
  /\ UNCHANGED <<kind, scratchVars, running, short>>

\* The room to reserve: what the member listing adds up to, or, unlisted and
\* for a .pkg, a multiple of the compressed size that may fall short.  Scratch
\* left by a dead extraction is cleared first, as far as it can be.
Budget ==
  /\ At("budget")
  /\ \E kept \in 0 .. Cardinality(Files[ext.key]) :
       /\ ext' = [ext EXCEPT !.pc = "evict", !.kept = kept]
       /\ short' = (short \/ kept < Cardinality(Files[ext.key]))
  /\ orphans' \in 0 .. orphans
  /\ UNCHANGED <<kind, dir, staged, unpacked, booted, running, cut>>

\* _evict_lru goes on until the room is there, or nothing is left to evict.
Evict ==
  /\ At("evict")
  /\ LET victims == {a \in Archive \ {ext.key} : IsThere(a)}
     IN IF CacheSize + ext.kept <= Cap \/ victims = {}
        THEN ext' = [ext EXCEPT !.pc = "room"]
        ELSE \E a \in victims : ext' = [ext EXCEPT !.pc = "delete", !.victim = a]
  /\ UNCHANGED <<kind, dir, scratchVars, booted, running, cut, short>>

\* rmtree deletes the victim where it stands, a file at a time, in any order.
DeleteFile ==
  /\ At("delete")
  /\ \E f \in dir[ext.victim] : dir' = [dir EXCEPT ![ext.victim] = @ \ {f}]
  /\ cut' = cut \cup {ext.victim}
  /\ UNCHANGED <<kind, scratchVars, ext, booted, running, short>>

DeleteDone ==
  /\ At("delete")
  /\ dir[ext.victim] = {}
  /\ dir' = [dir EXCEPT ![ext.victim] = Absent]
  /\ cut' = cut \ {ext.victim}
  /\ ext' = [ext EXCEPT !.pc = "evict", !.victim = Absent]
  /\ UNCHANGED <<kind, scratchVars, booted, running, short>>

\* Variant: the next candidate is tried after a delete that failed.
DeleteFailsAndGoesOn ==
  /\ At("delete")
  /\ ext' = [ext EXCEPT !.pc = "evict", !.victim = Absent]
  /\ UNCHANGED <<kind, dir, scratchVars, booted, running, cut, short>>

\* A file that cannot be deleted ends the eviction.
DeleteFails ==
  /\ At("delete")
  /\ ext' = [ext EXCEPT !.pc = "room", !.victim = Absent]
  /\ UNCHANGED <<kind, dir, scratchVars, booted, running, cut, short>>

-----------------------------------------------------------------------------
\* A failed launch: the scratch folder goes with it.
GiveUp ==
  /\ ext' = Idle
  /\ staged' = {} /\ unpacked' = 0

\* Variant: the cap is not checked again after an eviction that gave up.
TrustEviction ==
  /\ At("room")
  /\ \/ GiveUp
     \/ ext' = [ext EXCEPT !.pc = "stage"] /\ UNCHANGED <<staged, unpacked>>
  /\ UNCHANGED <<kind, dir, orphans, booted, running, cut, short>>

\* _require_room: the cap is checked again, and then the free space.
RequireRoom ==
  /\ At("room")
  /\ \/ GiveUp
     \/ /\ CacheSize + ext.kept <= Cap
        /\ ext' = [ext EXCEPT !.pc = "stage"]
        /\ UNCHANGED <<staged, unpacked>>
  /\ UNCHANGED <<kind, dir, orphans, booted, running, cut, short>>

\* shadPS4 first unpacks the whole archive into a scratch folder of its own, to
\* find the .pkg in it; the reservation counts the result only.
UnpackArchive ==
  /\ At("stage") /\ kind = "shadps4"
  /\ unpacked < Pkg[ext.key]
  /\ unpacked' = unpacked + 1
  /\ UNCHANGED <<kind, dir, staged, orphans, ext, booted, running, cut, short>>

\* The tool unpacks file by file; shadPS4's from a .pkg that is whole.
StageFile ==
  /\ At("stage")
  /\ kind = "shadps4" => unpacked = Pkg[ext.key]
  /\ \E f \in Files[ext.key] \ staged : staged' = staged \cup {f}
  /\ UNCHANGED <<kind, dir, unpacked, orphans, ext, booted, running, cut, short>>

\* Variant: a tool that was cut short is not told from one that finished, as
\* long as it got to the boot target.
StageEndsEarly ==
  /\ At("stage")
  /\ Boot \in staged
  /\ ext' = [ext EXCEPT !.pc = "place"]
  /\ UNCHANGED <<kind, dir, scratchVars, booted, running, cut, short>>

\* The tool returned and the boot target is there; shadPS4 refuses a result
\* that outgrew its reservation and does not fit the cap on its own.
StageDone ==
  /\ At("stage")
  /\ staged = Files[ext.key]
  /\ IF kind = "shadps4" /\ Cardinality(staged) > ext.kept /\ Cardinality(staged) > Cap
     THEN GiveUp
     ELSE ext' = [ext EXCEPT !.pc = "place"] /\ UNCHANGED <<staged, unpacked>>
  /\ UNCHANGED <<kind, dir, orphans, booted, running, cut, short>>

\* An unsafe or escaping member, a tool that exits non-zero or times out.
StageFails ==
  /\ At("stage")
  /\ GiveUp
  /\ UNCHANGED <<kind, dir, orphans, booted, running, cut, short>>

\* The scratch folder is renamed to the entry, which an empty folder allows and
\* a leftover that could not be deleted does not.
Place ==
  /\ At("place")
  /\ IF dir[ext.key] \in {Absent, {}}
     THEN /\ dir' = [dir EXCEPT ![ext.key] = staged]
          /\ ext' = [ext EXCEPT !.pc = "relook"]
          /\ cut' = cut \ {ext.key}
          /\ staged' = {} /\ UNCHANGED unpacked
     ELSE GiveUp /\ UNCHANGED <<dir, cut>>
  /\ UNCHANGED <<kind, orphans, booted, running, short>>

\* The rest of the scratch folder goes, and the boot target is looked up again
\* where the folder now is.
Relook ==
  /\ At("relook")
  /\ booted' = ext.key
  /\ ext' = Idle
  /\ unpacked' = 0
  /\ UNCHANGED <<kind, dir, staged, orphans, running, cut, short>>

-----------------------------------------------------------------------------
EmulatorEnds ==
  /\ booted # Absent
  /\ booted' = Absent
  /\ UNCHANGED <<kind, dir, scratchVars, ext, running, cut, short>>

BrokerDies ==
  /\ running
  /\ running' = FALSE
  /\ orphans' = orphans + Cardinality(staged) + unpacked
  /\ staged' = {} /\ unpacked' = 0
  /\ ext' = Idle
  /\ booted' = Absent
  /\ UNCHANGED <<kind, dir, cut, short>>

\* The startup sweep of scratch, which can leave what it cannot delete.
SweepStale ==
  /\ ~running
  /\ running' = TRUE
  /\ orphans' \in 0 .. orphans
  /\ UNCHANGED <<kind, dir, staged, unpacked, ext, booted, cut, short>>

ExtractionNext ==
  \/ \E a \in Archive : Extract(a)
  \/ Budget \/ Evict \/ DeleteFile \/ DeleteDone \/ DeleteFails
  \/ RequireRoom \/ UnpackArchive \/ StageFile \/ StageDone \/ StageFails \/ Place \/ Relook
  \/ EmulatorEnds \/ BrokerDies \/ SweepStale

\* A tool runs under a timeout and a .zip's members are finitely many: staging
\* goes on, or is ended.  Deletes return.
ExtractionFairness ==
  /\ WF_extractionVars(Budget)
  /\ WF_extractionVars(Evict)
  /\ WF_extractionVars(DeleteFile \/ DeleteDone)
  /\ WF_extractionVars(RequireRoom)
  /\ WF_extractionVars(UnpackArchive \/ StageFile \/ StageDone \/ StageFails)
  /\ WF_extractionVars(Place)
  /\ WF_extractionVars(Relook)

ExtractionSpec == ExtractionInit /\ [][ExtractionNext]_extractionVars /\ ExtractionFairness

-----------------------------------------------------------------------------
(* Whatever dies or fails while an archive is unpacked, a folder that has a   *)
(* boot target but not the whole game is one whose eviction was cut short:    *)
(* extracting never makes one (extraction_cache.py extract).                  *)
OnlyEvictionHalves ==
  \A a \in Archive : HoldsBoot(a) /\ dir[a] # Files[a] => a \in cut

\* What shadPS4's scratch holds beyond the game: it is not in the reservation,
\* and a crash leaves it there.
Overhang == IF kind = "shadps4" THEN LargestPkg ELSE 0

(* At every step, after crashes, failed deletes and orphaned scratch, and     *)
(* unless a size estimate fell short: the games, the one being unpacked with  *)
(* them, stay under the cap, and with all that lies in scratch, the orphans   *)
(* of dead extractions included, they pass it by no more than one .pkg that   *)
(* shadPS4 had to unpack first, for the other owners by nothing.  shadPS4     *)
(* keeps no title that is larger than the cap by itself (extraction_cache.py  *)
(* _evict_lru and _require_room; shadps4.py _stage_pkg, _check_expansion).    *)
CapKept ==
  /\ ~short => /\ Cardinality(Stored) + Cardinality(staged) <= Cap
               /\ CacheSize <= Cap + Overhang
  /\ kind = "shadps4" => \A a \in Archive : FilesIn(a) <= Cap

(* The cache is what it should be on disk: no folder is half of a game but by *)
(* an eviction cut short, and all of it is within its limits.                 *)
CacheSound == ExtractionTypeOK /\ OnlyEvictionHalves /\ CapKept

(* An extraction ends, with the game or with an error: evicting does not go   *)
(* round in circles over an entry that cannot be deleted, so the activate     *)
(* that waits for it answers (extraction_cache.py _evict_lru).                *)
ExtractionEnds == ext # Idle ~> ext = Idle
=============================================================================
