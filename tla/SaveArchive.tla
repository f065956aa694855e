---------------------------- MODULE SaveArchive -----------------------------
(***************************************************************************)
(* What the broker makes of a save archive: whether a restore is refused   *)
(* before anything is cleared, what it writes, and what a dump ships.      *)
(*                                                                         *)
(* A path is a sequence of components below the save root.  An archive is  *)
(* a set of members; a v1 member's path is where it lands, an import's is  *)
(* what follows .import/<kind>/.  A tree maps the paths of its files to    *)
(* what they hold; a directory is there when a file is below it.           *)
(*                                                                         *)
(* The launchers are DuckStation and Flycast, which clear their save tree  *)
(* and take imported states.  Neither excludes or retires a subtree.       *)
(***************************************************************************)
EXTENDS Naturals, FiniteSets, Sequences

CONSTANTS
  MaxFiles,   \* SAVE_FILE_MAX_ENTRIES
  SaveSlack,  \* _SAVE_MTIME_SLACK
  BaseSlack,  \* _BASELINE_MTIME_SLACK
  Backdate    \* _FUTURE_MEMBER_BACKDATE

ASSUME ArchiveAssumption ==
  /\ MaxFiles \in Nat /\ SaveSlack \in Nat /\ BaseSlack \in Nat
  /\ Backdate = 2 * BaseSlack

Launchers == {"duckstation", "flycast"}

Subtrees(l) == IF l = "duckstation" THEN {"memcards", "savestates"} ELSE {"data"}

\* Where the mounted card and the states are, and the names beside a state's.
CardPath(l) == IF l = "duckstation" THEN <<"memcards", "card">> ELSE <<"data", "card">>
StateDir(l) == IF l = "duckstation" THEN "savestates" ELSE "data"
StateNames == {"s1", "s2"}
RomMark   == [s1 |-> "s1.rom", s2 |-> "s2.rom"]
Untrusted == [s1 |-> "s1.untrusted", s2 |-> "s2.untrusted"]
AsideMark == [s1 |-> "s1.untrusted.rom", s2 |-> "s2.untrusted.rom"]
Beside(state, names) == <<state[1], names[state[2]]>>
ImageOf(names) == {names[s] : s \in StateNames}

Marker(disc) == [is |-> "marker", disc |-> disc, marks |-> {}, whole |-> TRUE]

\* _is_quarantined: a state set aside as possibly torn, or its marker.
Quarantined(path) == path[2] \in ImageOf(Untrusted) \cup ImageOf(AsideMark)

-----------------------------------------------------------------------------
(* saves.plan_v1: one operator per check. *)

Below(path, dir) == Len(dir) < Len(path) /\ SubSeq(path, 1, Len(dir)) = dir

InSubtree(l, path) == \E sub \in Subtrees(l) : Below(path, <<sub>>)

V1Of(archive) == {m \in archive : ~m.import}
ImportsOf(archive) == archive \ V1Of(archive)

Escapes(m) == \E i \in DOMAIN m.path : m.path[i] = ".."
Outside(l, m) == ~InSubtree(l, m.path)  \* naming a subtree itself included
Scratch(m) == m.flaw = "scratch"
Unreadable(m) == m.flaw = "encrypted"
TooLong(m) == m.flaw \in {"long", "staged long"}
Linked(m, linked) == m.path[1] \in linked
Locked(m, locked) == m.path[1] \in locked
Duplicate(m, archive) ==
  \E o \in V1Of(archive) \ {m} : o.path = m.path
Collides(m, archive) == \E o \in V1Of(archive) : Below(o.path, m.path)

\* Variant: no look at the directories other members need.
V1RefusedFlat(l, m, archive, linked, locked) ==
  \/ Escapes(m) \/ Outside(l, m) \/ Scratch(m) \/ Unreadable(m) \/ TooLong(m)
  \/ Linked(m, linked) \/ Locked(m, locked)
  \/ Duplicate(m, archive)
V1Refused(l, m, archive, linked, locked) ==
  \/ Escapes(m) \/ Outside(l, m) \/ Scratch(m) \/ Unreadable(m) \/ TooLong(m)
  \/ Linked(m, linked) \/ Locked(m, locked)
  \/ Duplicate(m, archive) \/ Collides(m, archive)

\* saves.verify_members: bad data shows only when a member is read.
Corrupt(m) == m.flaw = "corrupt"

-----------------------------------------------------------------------------
(* imports.preflight: manifest, hygiene, kind gate, placement, plan. *)

\* parse_manifest_v2: each import declared once, as the kind its path says.
Declared(m) == m.flaw \notin {"undeclared", "declared twice", "other kind"}

\* normalise_member, and its repeated-name check.  A name is measured as it is,
\* not as the longer one it is staged under.
Hygienic(m) == m.flaw \notin {"hidden", "encrypted", "long", "repeated"}

\* gate_kind: both launchers take every kind, a state only to resume from it.
GatedOut(m, slot) == m.kind = "state" /\ slot = "none"

\* The state's name: DuckStation's serial, RomM's word for it before the
\* member's; Flycast's rom stem.
StateFor(l, m, ctx) ==
  <<StateDir(l), IF l = "duckstation" /\ ~ctx.known THEN m.serial ELSE ctx.name>>

\* check_member_identity, under DuckStation's strict policy.
Foreign(l, m, ctx) == l = "duckstation" /\ ctx.known /\ m.serial # ctx.name

\* place_import: {} when the launcher refuses the member.
Placed(l, m, ctx) ==
  IF m.kind = "state"
  THEN IF m.shape = "state" /\ ~Foreign(l, m, ctx)
       THEN {[m |-> m, dest |-> StateFor(l, m, ctx),
              sidecars |-> {Beside(StateFor(l, m, ctx), RomMark)}]}
       ELSE {}
  ELSE CASE m.shape = "card" -> {[m |-> m, dest |-> CardPath(l), sidecars |-> {}]}
         [] m.shape = "marker" ->
              {[m |-> m, dest |-> <<StateDir(l), RomMark[ctx.name]>>, sidecars |-> {}]}
         [] OTHER -> {}

Lands(p) == {p.dest} \cup p.sidecars

\* destination_conflicts: two on one file, or one on another's directory.
Clash(a, b) == a = b \/ Below(a, b) \/ Below(b, a)
Conflicted(p, plan, archive) ==
  \E a \in Lands(p) :
    \/ \E o \in V1Of(archive) : Clash(a, o.path)
    \/ \E q \in plan \ {p} : \E b \in Lands(q) : Clash(a, b)

\* _is_protected: only the broker writes a marker or sets a state aside.
Protected(path) ==
  path[Len(path)] \in ImageOf(RomMark) \cup ImageOf(Untrusted) \cup ImageOf(AsideMark)

V1States(l, archive) ==
  {o \in V1Of(archive) : o.path[1] = StateDir(l) /\ o.path[Len(o.path)] \in StateNames}

OverCount(l, plan, archive) ==
  LET states == {p \in plan : p.m.kind = "state"}
  IN  states # {} /\ Cardinality(states) + Cardinality(V1States(l, archive)) > 1

\* validate_import_plan: an imported card would hide the one the archive carries.
HidesCard(l, plan, archive) ==
  /\ l = "duckstation"
  /\ \E p \in plan : p.dest = CardPath(l)
  /\ \E o \in V1Of(archive) : Below(o.path, <<"memcards">>)

\* check_plan.  Variant: without the launcher's own check.
PlanRefusedPlainly(l, plan, archive, linked) ==
  \/ \E p \in plan : Conflicted(p, plan, archive)
  \/ OverCount(l, plan, archive)
  \/ \E p \in plan : Protected(p.dest)
  \/ \E p \in plan, path \in UNION {Lands(q) : q \in plan} :
       path \in Lands(p) /\ (~InSubtree(l, path) \/ path[1] \in linked)
  \/ Cardinality(V1Of(archive)) + Cardinality(UNION {Lands(p) : p \in plan}) > MaxFiles
PlanRefused(l, plan, archive, linked) ==
  \/ PlanRefusedPlainly(l, plan, archive, linked)
  \/ HidesCard(l, plan, archive)

Plan(l, archive, ctx) == UNION {Placed(l, m, ctx) : m \in ImportsOf(archive)}

Preflight(l, archive, ctx, linked) ==
  /\ \A m \in ImportsOf(archive) :
       Declared(m) /\ Hygienic(m) /\ ~GatedOut(m, ctx.slot) /\ Placed(l, m, ctx) # {}
  /\ ~PlanRefused(l, Plan(l, archive, ctx), archive, linked)

\* The checks activate makes before it clears anything.
Accepted(l, archive, ctx, linked, locked) ==
  /\ Cardinality(archive) <= MaxFiles
  /\ \A m \in V1Of(archive) : ~V1Refused(l, m, archive, linked, locked)
  /\ Preflight(l, archive, ctx, linked)
  /\ \A m \in archive : ~Corrupt(m)

-----------------------------------------------------------------------------
(* saves.write_save_archive. *)

\* What to write where: v1 under the newer-file guard, imports and sidecars not.
\* An imported state is taken to be the booted disc's, unless its name says
\* otherwise; only a launcher that knows the disc's serial can tell.
Imported(l, m, ctx) ==
  IF m.kind # "state" THEN m.body
  ELSE IF l = "flycast" \/ m.serial = ctx.name THEN [m.body EXCEPT !.disc = ctx.disc]
  ELSE [m.body EXCEPT !.disc = "another", !.tended = ctx.known]
Writes(l, archive, ctx) ==
  {[path |-> m.path, body |-> m.body, stamp |-> m.stamp, guard |-> TRUE, m |-> m]
     : m \in V1Of(archive)}
  \cup UNION {{[path |-> p.dest, body |-> Imported(l, p.m, ctx), stamp |-> ctx.when,
                guard |-> FALSE, m |-> p.m]}
              \cup {[path |-> s, body |-> Marker(ctx.disc), stamp |-> ctx.when,
                     guard |-> FALSE, m |-> p.m] : s \in p.sidecars}
              : p \in Plan(l, archive, ctx)}

\* A member from the future would ship again from every session.
Stamp(w, when) == IF w.stamp > when THEN when - Backdate ELSE w.stamp

Kept(w, tree, when) ==
  w.guard /\ w.path \in DOMAIN tree /\ tree[w.path].mtime > Stamp(w, when) + SaveSlack

\* A card goes to a fixed name and DuckStation's state to the serial RomM knows;
\* another state keeps its own, or takes the rom's, and either may be such that
\* it fits as a name and does not once it is staged.
StagesLong(l, w, ctx) ==
  /\ w.m.flaw = "staged long" /\ w.m.import /\ w.m.kind = "state"
  /\ ~(l = "duckstation" /\ ctx.known)

\* _write_member fails for what the disk or the member makes impossible.
CannotWrite(w, writes, tree, linked, locked) ==
  \/ w.m.flaw \in {"encrypted", "corrupt", "long"}
  \/ w.path[1] \in linked \cup locked
  \/ \E i \in DOMAIN w.path : w.path[i] = ".."
  \/ \E o \in {v.path : v \in writes} \cup DOMAIN tree :
       Below(o, w.path) \/ Below(w.path, o)

\* The tree once these writes landed.
Landed(tree, writes, when) ==
  LET wins == {w \in writes : ~Kept(w, tree, when)}
  IN  [p \in DOMAIN tree \cup {w.path : w \in wins} |->
         IF \E w \in wins : w.path = p
         THEN LET w == CHOOSE w \in wins : w.path = p
              IN  [body |-> w.body, mtime |-> Stamp(w, when)]
         ELSE tree[p]]

-----------------------------------------------------------------------------
(* saves.build_save_archive. *)

\* Variant: to the second.
ChangedToTheSecond(tree, baseline, always) ==
  {p \in DOMAIN tree : tree[p].mtime >= baseline \/ p \in always}
Changed(tree, baseline, always) ==
  {p \in DOMAIN tree : tree[p].mtime + BaseSlack >= baseline \/ p \in always}
=============================================================================
