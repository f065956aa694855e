----------------------------- MODULE SaveCycle ------------------------------
(***************************************************************************)
(* The save tree of one container over several sessions: activate refuses  *)
(* an archive or clears the tree, restores and launches; the game writes;  *)
(* the exit settles the resume state and ships what the session wrote.     *)
(*                                                                         *)
(* The container is pooled: each session is one player's, and RomM sends   *)
(* back, per player, the newest of each file that player's exits shipped.  *)
(* A step of activate is one pass over the tree.  Within a session times   *)
(* are seconds around the restore; sessions are further apart than the     *)
(* slack of the dump, so what an earlier one left is old.                  *)
(*                                                                         *)
(* Left out: the emulator writing while the dump reads (both launchers     *)
(* have confirmed it gone), and uploads that fail (Outbox, Lifecycle).     *)
(***************************************************************************)
EXTENDS SaveArchive

CONSTANTS
  Player, Disc,
  Extras,       \* what an archive may hold besides what exits shipped
  Dates,        \* what RomM's archives may date a player's files
  MaxSessions,  \* activations that are not refused
  MaxFaults,    \* disk operations that fail
  Grain         \* seconds to which the file system keeps a modification time

VARIABLES
  setup,     \* launcher, names of the discs' states, whether RomM knows their
             \* serials, and the subtrees that lead outside or are read-only
  tree,      \* the save tree
  library,   \* what RomM has filed for each player
  phase,     \* where the session is
  by, disc, ctx, archive, \* the activation being served
  baseline, imports,      \* save_baseline and import_paths
  proc,      \* the emulator: "down", "up", or "gone" by itself
  resumed,   \* the state the emulator was told to load, or NoBody
  outcome,   \* how the last activation went
  report,    \* of the last dump: what it shipped and skipped, and its error
  wrote,     \* paths this session's game or exit wrote
  clean,     \* every clear removed all it should
  faults, sessions

server == <<tree, library, phase, by, disc, ctx, archive, baseline, imports>>
vars == <<setup, server, proc, resumed, outcome, report, wrote, clean, faults, sessions>>

Left == 6      \* times: a leftover from an earlier session,
Restore == 10  \* and the restore.

NoBody == [is |-> "none"]
NoReport == [shipped |-> {}, skipped |-> {}, error |-> FALSE]
State(d, marks, whole, tended) ==
  [is |-> "state", disc |-> d, marks |-> marks, whole |-> whole, tended |-> tended]
Other == [is |-> "other", disc |-> "any", marks |-> {}, whole |-> TRUE]
CardWith(marks) == [is |-> "card", disc |-> "any", marks |-> marks, whole |-> TRUE]

Marks == (Player \cup {"library"}) \X Nat
Body ==
  [is : {"state"}, disc : Disc \cup {"another"}, marks : SUBSET Marks,
   whole : BOOLEAN, tended : BOOLEAN]
  \cup [is : {"card", "other", "marker"}, disc : Disc \cup {"any"}, marks : SUBSET Marks,
        whole : BOOLEAN]

l == setup.launcher
Name(d) == setup.name[d]
StatePath(d) == <<StateDir(l), Name(d)>>
StateFile(f) == Len(f) = 2 /\ f[1] = StateDir(l) /\ f[2] \in StateNames
Mtime(t) == t - (t % Grain)
Put(t, path, body, when) ==
  [f \in DOMAIN t \cup {path} |->
     IF f = path THEN [body |-> body, mtime |-> Mtime(when)] ELSE t[f]]

First(set) == CHOOSE x \in set : TRUE

\* Two paths of two components are equal when these are.
IsPath(p) == Len(p) \in Nat /\ (Len(p) = 2 => p = <<p[1], p[2]>>)

\* A card of one game, and where a card may be.
PerGame(f) == Len(f) = 2 /\ f[1] = "memcards" /\ f[2] \in {"old", "old2"}
CardFile(f) == PerGame(f) \/ f \in {CardPath(x) : x \in Launchers}

\* A member of an archive: states and cards are where states and cards belong,
\* and no directory has the name of a state that was set aside.
WellFormed(m) ==
  /\ m.import \in BOOLEAN /\ IsPath(m.path) /\ m.serial \in StateNames
  /\ m.stamp \in Nat /\ m.body \in Body
  /\ m.import /\ m.shape = "state" => m.body.is = "state"
  /\ ~m.import =>
       /\ Len(m.path) > 2 => ~Quarantined(m.path)
       /\ Len(m.path) = 2 /\ m.path[2] \in StateNames => m.body.is = "state"
       /\ m.body.is = "card" => CardFile(m.path)

ASSUME CycleAssumption ==
  /\ Player # {} /\ Disc # {} /\ "none" \notin Disc
  /\ MaxSessions \in Nat /\ MaxFaults \in Nat
  /\ Dates \subseteq Nat
  \* The slack covers the grain, and sessions are further apart than the slack.
  /\ Grain \in Nat \ {0} /\ Grain <= BaseSlack + 1
  /\ Left + BaseSlack < Restore

\* What no exit shipped has one card, is nobody's progress, and holds no state an
\* exit settled.
ASSUME ExtrasAssumption ==
  \A extra \in Extras :
    /\ \A m \in extra :
         /\ WellFormed(m)
         /\ \A mark \in m.body.marks : mark[1] = "library"
         /\ m.body.is = "state" /\ m.body.tended => m.import /\ m.body.whole
    /\ \A a, b \in V1Of(extra) : CardFile(a.path) /\ CardFile(b.path) => a = b

\* One thing at a time is out of the ordinary.
Setups ==
  {s \in [launcher : Launchers, name : [Disc -> StateNames], known : BOOLEAN,
          linked : {{}, {"savestates"}}, locked : {{}, {"memcards"}}] :
     /\ s.linked \cup s.locked \subseteq Subtrees(s.launcher)
     /\ s.name[First(Disc)] = "s1"
     /\ s.linked = {} \/ s.locked = {}
     /\ s.linked \cup s.locked # {} => \A d \in Disc : s.name[d] = "s1"
     /\ s.known <=> /\ s.launcher = "duckstation"
                    /\ s.linked \cup s.locked = {} /\ \E d \in Disc : s.name[d] # "s1"}

Init ==
  /\ setup \in Setups
  /\ tree = <<>> /\ library = [p \in Player |-> <<>>]
  /\ phase = "idle" /\ by = First(Player) /\ disc = First(Disc)
  /\ ctx = NoBody /\ archive = {}
  /\ baseline = 0 /\ imports = {}
  /\ proc = "down" /\ resumed = NoBody /\ outcome = "none"
  /\ report = NoReport
  /\ wrote = {} /\ clean = TRUE /\ faults = 0 /\ sessions = 0

-----------------------------------------------------------------------------
(* Activate. *)

\* What RomM sends back of a player's files, all stamped alike.
Filed(p, age) ==
  {[import |-> FALSE, path |-> f, kind |-> "save", shape |-> "any", serial |-> "s1",
    flaw |-> "none", stamp |-> age, body |-> library[p][f]] : f \in DOMAIN library[p]}

\* Between two sessions times pass: to this one, what the tree holds is Left.
Activate(p, d, slot, extra, age) ==
  LET sent == Filed(p, age) \cup extra
      c == [slot |-> slot, known |-> setup.known, name |-> Name(d), disc |-> d, when |-> Restore]
  IN  /\ phase = "idle" /\ sessions < MaxSessions
      /\ sessions = 0 => p = by  \* whoever comes first
      \* Imports ride along; other members come from before RomM had filed any.
      /\ library[p] # <<>> => extra \subseteq ImportsOf(extra)
      /\ library[p] = <<>> => age = First(Dates)
      /\ IF Accepted(l, sent, c, setup.linked, setup.locked)
         THEN /\ phase' = "clearing" /\ by' = p /\ disc' = d
              /\ archive' = sent /\ ctx' = c
              /\ outcome' = "accepted" /\ sessions' = sessions + 1
              /\ resumed' = NoBody /\ imports' = {} /\ wrote' = {} /\ report' = NoReport
              /\ tree' = [f \in DOMAIN tree |-> [tree[f] EXCEPT !.mtime = Left]]
         ELSE /\ outcome' = "refused"
              /\ UNCHANGED <<tree, phase, by, disc, archive, ctx, sessions,
                             resumed, imports, wrote, report>>
      /\ UNCHANGED <<setup, library, baseline, proc, clean, faults>>

\* The session ends here, and the broker forgets it.
Forgotten ==
  /\ by' = First(Player) /\ disc' = First(Disc) /\ ctx' = NoBody /\ archive' = {}
  /\ baseline' = 0 /\ imports' = {} /\ resumed' = NoBody /\ wrote' = {}

\* Up to MaxFaults disk operations fail: any of these, at most one at a time.
MayFail(set) == {{}} \cup (IF faults < MaxFaults THEN {{x} : x \in set} ELSE {})
Counted(failing) == faults' = faults + Cardinality(failing)

\* clear_working_slot: all but what is quarantined.  DuckStation does not follow
\* a subtree that leads outside, Flycast leaves directories.
Spared(path) ==
  \/ Len(path) = 2 /\ Quarantined(path)
  \/ path[1] \in setup.locked
  \/ IF l = "duckstation" THEN path[1] \in setup.linked ELSE Len(path) > 2

Clear ==
  /\ phase = "clearing" /\ phase' = "restoring"
  /\ \E stuck \in MayFail({f \in DOMAIN tree : ~Spared(f)}) :
       LET left == {f \in DOMAIN tree : Spared(f)} \cup stuck
       IN  /\ tree' = [f \in left |-> tree[f]]
           /\ clean' = (clean /\ \A f \in left : Len(f) = 2 /\ Quarantined(f))
           /\ Counted(stuck)
  /\ UNCHANGED <<setup, library, by, disc, ctx, archive, baseline, imports,
                 proc, resumed, outcome, wrote, sessions, report>>

\* One failed write refuses the activation, the rest is written all the same.
Write ==
  /\ phase = "restoring"
  /\ LET all == Writes(l, archive, ctx)
         long == {w \in all : StagesLong(l, w, ctx)}
         hopeless ==
           long \cup {w \in all : CannotWrite(w, all, tree, setup.linked, setup.locked)}
     IN  \E bad \in MayFail(all \ hopeless) :
           /\ tree' = Landed(tree, all \ (bad \cup hopeless), ctx.when)
           /\ IF bad \cup hopeless = {}
              THEN /\ phase' = "launching"
                   /\ UNCHANGED <<outcome, by, disc, ctx, archive, baseline, imports,
                                  resumed, wrote>>
              ELSE /\ phase' = "idle" /\ Forgotten
                   /\ outcome' = IF bad # {} THEN "disk failed"
                                 ELSE IF hopeless = long THEN "name too long" ELSE "lost"
           /\ Counted(bad)
  /\ UNCHANGED <<setup, library, proc, clean, sessions, report>>

-----------------------------------------------------------------------------
(* Launch. *)

Newest(paths) == CHOOSE p \in paths : \A q \in paths : tree[q].mtime <= tree[p].mtime

\* _migrate_memory_card: the newest per-game card, while no card is pinned.
OldCards == {f \in DOMAIN tree : PerGame(f)}
NeedsCard == l = "duckstation" /\ CardPath(l) \notin DOMAIN tree /\ OldCards # {}
CardBlocked == \E f \in DOMAIN tree : Below(f, CardPath(l))

Owner(state) ==
  IF Beside(state, RomMark) \in DOMAIN tree THEN tree[Beside(state, RomMark)].body.disc
  ELSE "none"

\* _resume_state_for (DuckStation), _state_belongs_to (Flycast): a set of at
\* most one.
Resumable ==
  LET states == {f \in DOMAIN tree : StateFile(f)}
      owned  == {f \in states : Owner(f) = disc}
  IN  IF l = "flycast"
      THEN {f \in states : f = StatePath(disc) /\ Owner(f) \in {disc, "none"}}
      ELSE IF owned # {} THEN {Newest(owned)}
      ELSE IF Cardinality(states) = 1 THEN {f \in states : Owner(f) = "none"} ELSE {}

\* The baseline is taken as the emulator is started, a second after the restore.
Delay == 1

Launch ==
  /\ phase = "launching" /\ ~(NeedsCard /\ CardBlocked)
  /\ tree' = IF NeedsCard
             THEN Put(tree, CardPath(l), tree[Newest(OldCards)].body, ctx.when + Delay)
             ELSE tree
  /\ resumed' = IF ctx.slot = "none" \/ Resumable = {} THEN NoBody
                ELSE tree[CHOOSE f \in Resumable : TRUE].body
  /\ baseline' = ctx.when + Delay
  /\ imports' = UNION {Lands(p) : p \in Plan(l, archive, ctx)}
  /\ phase' = "playing" /\ proc' = "up" /\ outcome' = "playing" /\ wrote' = {}
  /\ UNCHANGED <<setup, library, by, disc, ctx, archive, clean, faults, sessions, report>>

\* The card could not be carried over, or DuckStation's settings not written:
\* the session is retired.
LaunchFails ==
  /\ phase = "launching" /\ l = "duckstation"
  /\ (NeedsCard /\ CardBlocked) \/ faults < MaxFaults
  /\ faults' = IF NeedsCard /\ CardBlocked THEN faults ELSE faults + 1
  /\ phase' = "idle" /\ outcome' = "launch failed"
  /\ Forgotten
  /\ UNCHANGED <<setup, tree, library, proc, clean, sessions, report>>

-----------------------------------------------------------------------------
(* The emulator. *)

Mark == <<by, sessions>>

\* The game saves to the card it mounted, or to a blank one.
Save ==
  LET card == CardPath(l)
      had == IF card \in DOMAIN tree THEN tree[card].body.marks ELSE {}
  IN  /\ phase = "playing" /\ proc = "up" /\ Mark \notin had /\ ~CardBlocked
      /\ tree' = Put(tree, card, CardWith(had \cup {Mark}), baseline)
      /\ wrote' = wrote \cup {card}
      /\ UNCHANGED <<setup, library, phase, by, disc, ctx, archive, baseline, imports,
                     proc, resumed, outcome, clean, faults, sessions, report>>

\* The resume state a shutdown writes, if a directory is not in its way.
CanShut == \A f \in DOMAIN tree : ~Below(f, StatePath(disc))
Shut(body) == Put(tree, StatePath(disc), body, baseline + 1)

\* It ends by itself, saving on the way out, cut short or not at all.
EndsByItself ==
  /\ phase = "playing" /\ proc = "up" /\ proc' = "gone"
  /\ \/ UNCHANGED <<tree, wrote>>
     \/ \E whole \in BOOLEAN :
          /\ CanShut
          /\ tree' = Shut(State(disc, {Mark}, whole, FALSE))
          /\ wrote' = wrote \cup {StatePath(disc)}
  /\ UNCHANGED <<setup, library, phase, by, disc, ctx, archive, baseline, imports,
                 resumed, outcome, clean, faults, sessions, report>>

-----------------------------------------------------------------------------
(* Exit. *)

\* _set_aside_untrusted_state: the state, then its marker.
Renamed(t, from, to) ==
  [f \in (DOMAIN t \ {from}) \cup {to} |-> IF f = to THEN t[from] ELSE t[f]]
SetAside(t, state, failing) ==
  LET aside  == Renamed(t, state, Beside(state, Untrusted))
      marker == Beside(state, RomMark)
  IN  IF "state" \in failing THEN t
      ELSE IF marker \notin DOMAIN t \/ "marker" \in failing THEN aside
      ELSE Renamed(aside, marker, Beside(state, AsideMark))

\* The emulator was stopped cleanly and wrote its state.  Flycast's is left
\* alone when no slot was asked for.
Confirmed(asked) ==
  \E failing \in MayFail({"marker"}) :
    LET marked == failing = {} /\ (l = "duckstation" \/ asked)
        shut   == Shut(State(disc, {Mark}, TRUE, marked))
        marker == Beside(StatePath(disc), RomMark)
    IN  /\ tree' = IF marked THEN Put(shut, marker, Marker(disc), baseline + 1) ELSE shut
        /\ wrote' = wrote \cup {StatePath(disc)} \cup (IF marked THEN {marker} ELSE {})
        /\ Counted(failing)

\* It was killed with its state changed.  Variant: the state left where it is.
KilledLeft(whole) ==
  /\ tree' = Shut(State(disc, {Mark}, whole, TRUE))
  /\ wrote' = wrote \cup {StatePath(disc)}
  /\ UNCHANGED faults
Killed(whole) ==
  \E failing \in MayFail({"state", "marker"}) :
    LET state == StatePath(disc)
    IN  /\ tree' = SetAside(Shut(State(disc, {Mark}, whole, "state" \notin failing)),
                            state, failing)
        /\ wrote' = wrote \cup {IF "state" \in failing THEN state ELSE Beside(state, Untrusted)}
        /\ Counted(failing)

\* save_and_exit.
Exit(asked) ==
  /\ phase = "playing" /\ phase' = "dumping" /\ proc' = "down"
  /\ \/ UNCHANGED <<tree, wrote, faults>>  \* gone already, or it wrote nothing
     \/ proc = "up" /\ CanShut /\ (Confirmed(asked) \/ \E whole \in BOOLEAN : Killed(whole))
  /\ UNCHANGED <<setup, library, by, disc, ctx, archive, baseline, imports,
                 resumed, outcome, clean, sessions, report>>

\* A state whose marker stays behind is as good as unmarked, and so is a filed
\* one whose marker is shipped without it.
Refiled(filed, files) ==
  [f \in DOMAIN filed \cup files |->
     LET body == IF f \in files THEN tree[f].body ELSE filed[f]
         lone == IF f \in files THEN DOMAIN tree \ files ELSE files
     IN  IF StateFile(f) /\ Beside(f, RomMark) \in lone
         THEN [body EXCEPT !.tended = FALSE] ELSE body]

\* _dump_saves: what cannot be read is left out, and named.  Files that together
\* exceed SAVE_FILE_MAX_BYTES are neither shipped nor named.
Dump ==
  /\ phase = "dumping" /\ phase' = "idle"
  /\ LET changed == Changed(tree, baseline, imports)
     IN  \/ \E skipped \in MayFail(changed) :
              /\ library' = [library EXCEPT ![by] = Refiled(@, changed \ skipped)]
              /\ report' = [shipped |-> changed \ skipped, skipped |-> skipped,
                            error |-> changed # {} /\ changed = skipped]
              /\ Counted(skipped)
         \/ /\ changed # {}  \* too large
            /\ report' = [NoReport EXCEPT !.error = TRUE]
            /\ UNCHANGED <<library, faults>>
  /\ outcome' = "none" /\ Forgotten
  /\ UNCHANGED <<setup, tree, proc, clean, sessions>>

Done == phase = "idle" /\ sessions = MaxSessions /\ UNCHANGED vars

Next ==
  \/ \E p \in Player, d \in Disc, slot \in {"none", "asked"} :
       \E extra \in Extras, age \in Dates : Activate(p, d, slot, extra, age)
  \/ Clear \/ Write
  \/ Launch \/ LaunchFails \/ Save \/ EndsByItself
  \/ \E asked \in BOOLEAN : Exit(asked)
  \/ Dump \/ Done

Spec == Init /\ [][Next]_vars

-----------------------------------------------------------------------------
(* Properties. *)

TypeOK ==
  /\ setup.launcher \in Launchers /\ by \in Player /\ disc \in Disc
  /\ phase \in {"idle", "clearing", "restoring", "launching", "playing", "dumping"}
  /\ proc \in {"down", "up", "gone"} /\ clean \in BOOLEAN
  /\ outcome \in {"none", "refused", "accepted", "lost", "disk failed", "name too long",
                  "launch failed", "playing"}
  /\ faults \in 0..MaxFaults /\ sessions \in 0..MaxSessions

\* An archive that passed the checks goes on to be written, each member where it
\* belongs: an activate that emptied the working slot fails only with the disk,
\* or with an imported state whose name fits and the staging name for it does not.
\* (What was set aside is left as an earlier session left it.)
RestoreHonest ==
  /\ outcome = "lost" /\ clean => setup.locked # {}
  /\ phase = "launching" /\ clean =>
       \A w \in Writes(l, archive, ctx) :
         \/ Len(w.path) = 2 /\ Quarantined(w.path)
         \/ tree[w.path].body = w.body

\* What a session wrote, and every import it placed, is shipped or named as
\* skipped, or the dump is one that says it failed.  Of what it only restored,
\* nothing is, a clock ahead or behind notwithstanding, but what the archive dates
\* to the last seconds before the launch, from which a save cannot be told.
DumpHonest ==
  LET named == report'.shipped \cup report'.skipped
  IN  /\ \/ wrote \cup (imports \cap DOMAIN tree) \subseteq named
         \/ report'.error /\ named = {}
      /\ \A f \in named \ (wrote \cup imports) :
           \/ f = CardPath(l) /\ OldCards # {}
           \/ f[2] \in ImageOf(AsideMark)
           \/ \E m \in V1Of(archive) :
                m.path = f /\ m.stamp + BaseSlack >= baseline /\ m.stamp <= ctx.when
ShipsTheSession == [][phase = "dumping" => DumpHonest]_vars

\* A pooled container mixes no two players: what is filed for one was played by
\* that one or came in that one's archives, as long as the clears went through.
\* And a card never loses what the archive brought.
ProgressKept ==
  /\ clean => \A p \in Player : \A f \in DOMAIN library[p] :
       \A mark \in library[p][f].marks : mark[1] \in {p, "library"}
  /\ clean /\ phase = "playing" =>
       \A m \in archive : m.body.is = "card" => m.body.marks \subseteq tree[CardPath(l)].body.marks

\* The emulator is told to load a state only whole, and only of the disc it
\* boots, when the exit that wrote it could settle it and shipped the state and
\* its marker both or neither.
ResumesSafely ==
  clean /\ resumed # NoBody /\ resumed.tended => resumed.whole /\ resumed.disc = disc

\* A session starts as it should: its variables in range, and no state it may not load.
SessionSound == TypeOK /\ ResumesSafely
=============================================================================
