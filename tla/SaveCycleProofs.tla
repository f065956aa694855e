--------------------------- MODULE SaveCycleProofs ---------------------------
(* Theorems about SaveCycle, for any players, discs, archives and faults.     *)
EXTENDS SaveCycle, Integers, FiniteSetTheorems, SequenceTheorems, TLAPS

-----------------------------------------------------------------------------
(* The inductive invariant.                                                   *)

\* Nobody's progress but this player's.
Own(p, body) == \A mark \in body.marks : mark[1] \in {p, "library"}

\* What a clear spares for its own sake.
Aside(f) == Len(f) = 2 /\ Quarantined(f)

\* Stamped too early for the dump of the session to take it for changed.
Stale(f) == tree[f].mtime + BaseSlack < Restore + Delay

\* Where the imports of the archive go.
Brought == UNION {Lands(p) : p \in Plan(l, archive, ctx)}

Restored == phase \in {"launching", "playing", "dumping"}

SetupInv ==
  /\ setup.launcher \in Launchers
  /\ setup.name \in [Disc -> StateNames]
  /\ setup.known \in BOOLEAN

\* What may be at a path: states and cards where they belong.
Fits(f, body) ==
  /\ IsPath(f) /\ body \in Body
  /\ Len(f) > 2 => ~Quarantined(f)
  /\ Len(f) = 2 /\ f[2] \in StateNames => body.is = "state"
  /\ body.is = "card" => CardFile(f)

TreeInv ==
  \A f \in DOMAIN tree :
    Fits(f, tree[f].body) /\ tree[f] \in [body : Body, mtime : Int]

LibraryInv ==
  /\ DOMAIN library = Player
  /\ library = [p \in Player |-> library[p]]
  /\ \A p \in Player : \A f \in DOMAIN library[p] : Fits(f, library[p][f])

\* The activation being served passed the checks, and brings what is filed.
ArchiveInv ==
  phase # "idle" =>
    /\ ctx = [slot |-> ctx.slot, known |-> setup.known, name |-> Name(disc),
              disc |-> disc, when |-> Restore]
    /\ Accepted(l, archive, ctx, setup.linked, setup.locked)
    /\ \A m \in archive :
         /\ WellFormed(m)
         /\ m.import /\ m.body.is = "state" /\ m.body.tended => m.body.whole
    /\ \A f \in DOMAIN library[by] :
         \E m \in V1Of(archive) : m.path = f /\ m.body = library[by][f]

\* The archive dates it so late that the dump takes it for changed.
Dated(f) ==
  \E m \in V1Of(archive) :
    m.path = f /\ m.stamp + BaseSlack >= Restore + Delay /\ m.stamp <= Restore

\* What a file's stamp says of where the file is from.
StampInv ==
  /\ phase \in {"clearing", "restoring"} => \A f \in DOMAIN tree : Stale(f)
  /\ phase = "launching" => \A f \in DOMAIN tree : Stale(f) \/ f \in Brought \/ Dated(f)
  /\ phase \in {"playing", "dumping"} =>
       /\ baseline = Restore + Delay
       /\ imports = Brought
       /\ \A f \in DOMAIN tree :
            \/ Stale(f)
            \/ f \in imports \cup wrote
            \/ f = CardPath(l) /\ OldCards # {}
            \/ f[2] \in ImageOf(AsideMark)
            \/ Dated(f)

\* What the session wrote.
WroteInv ==
  /\ phase \in {"playing", "dumping"} =>
       /\ \A f \in wrote : f \in DOMAIN tree /\ tree[f].mtime + BaseSlack >= baseline
       /\ wrote \subseteq {CardPath(l), StatePath(disc), Beside(StatePath(disc), RomMark),
                           Beside(StatePath(disc), Untrusted)}
  /\ phase = "playing" => wrote \subseteq {CardPath(l), StatePath(disc)}
  /\ phase = "playing" /\ proc = "up" => wrote \subseteq {CardPath(l)}

\* As long as the clears go through, what is in the tree is this player's, but
\* for what was set aside, and that is old.
OwnInv ==
  clean =>
    /\ \A p \in Player : \A f \in DOMAIN library[p] : Own(p, library[p][f])
    /\ phase # "idle" => \A m \in archive : Own(by, m.body)
    /\ phase = "restoring" => \A f \in DOMAIN tree : Aside(f)
    /\ Restored => \A f \in DOMAIN tree :
                     Own(by, tree[f].body) \/ (Aside(f) /\ Stale(f) /\ f \notin Brought)

\* A state an exit settled has its marker beside it, of the same disc.
SettledInv ==
  clean =>
    /\ \A p \in Player : \A f \in DOMAIN library[p] :
         StateFile(f) /\ library[p][f].tended =>
           /\ library[p][f].whole
           /\ Beside(f, RomMark) \in DOMAIN library[p]
           /\ library[p][Beside(f, RomMark)].disc = library[p][f].disc
    /\ phase # "idle" => \A m \in V1Of(archive) :
         StateFile(m.path) /\ m.body.tended =>
           /\ m.body.whole
           /\ \E o \in V1Of(archive) : o.path = Beside(m.path, RomMark) /\ o.body.disc = m.body.disc
    /\ Restored => \A f \in DOMAIN tree :
         StateFile(f) /\ tree[f].body.tended =>
           /\ tree[f].body.whole
           /\ Beside(f, RomMark) \in DOMAIN tree
           /\ tree[Beside(f, RomMark)].body.disc = tree[f].body.disc

\* A card of one game is the only one, and what it holds the mounted card holds,
\* where there is one: among what is filed, in the archive and in the tree, which
\* has the one the archive brought.
CardsFit(filed) ==
  \A f \in DOMAIN filed : PerGame(f) =>
    /\ \A g \in DOMAIN filed : PerGame(g) => f = g
    /\ CardPath(l) \in DOMAIN filed => filed[f].marks \subseteq filed[CardPath(l)].marks
SentFit(sent) ==
  \A a, b \in V1Of(sent) : PerGame(a.path) =>
    /\ PerGame(b.path) => a = b
    /\ b.path = CardPath(l) => a.body.marks \subseteq b.body.marks
Brings(sent, t) ==
  \A m \in V1Of(sent) : PerGame(m.path) => m.path \in DOMAIN t /\ t[m.path].body = m.body
IsBrought(sent, t, f) == \E m \in V1Of(sent) : m.path = f /\ m.body = t[f].body
Covered(t, f) ==
  CardPath(l) \in DOMAIN t => t[f].body.marks \subseteq t[CardPath(l)].body.marks
CardsInv ==
  clean =>
    /\ \A p \in Player : CardsFit(library[p])
    /\ phase # "idle" => SentFit(archive)
    /\ Restored =>
         /\ Brings(archive, tree)
         /\ \A f \in DOMAIN tree : PerGame(f) =>
              /\ IsBrought(archive, tree, f) /\ Covered(tree, f)
              /\ phase # "launching" => CardPath(l) \in DOMAIN tree

\* The cards the archive brought are in the card of the session.
CardInv ==
  clean /\ phase = "playing" =>
    \A m \in archive : m.body.is = "card" =>
      CardPath(l) \in DOMAIN tree /\ m.body.marks \subseteq tree[CardPath(l)].body.marks

\* What was restored is all there is, but for what was set aside.
LandedInv ==
  clean /\ phase = "launching" =>
    /\ \A w \in Writes(l, archive, ctx) :
         Aside(w.path) \/ (w.path \in DOMAIN tree /\ tree[w.path].body = w.body)
    /\ \A f \in DOMAIN tree : Aside(f) \/ \E w \in Writes(l, archive, ctx) : w.path = f

IInv ==
  /\ TypeOK /\ SetupInv /\ TreeInv /\ LibraryInv /\ ArchiveInv /\ StampInv /\ WroteInv
  /\ OwnInv /\ SettledInv /\ CardsInv /\ CardInv /\ LandedInv
  /\ RestoreHonest /\ ResumesSafely

-----------------------------------------------------------------------------
(* Constants, names and paths.                                                *)

LEMMA Times ==
  /\ Left = 6 /\ Restore = 10 /\ Delay = 1
  /\ BaseSlack \in Nat /\ BaseSlack < 4 /\ Backdate = 2 * BaseSlack
  /\ Grain \in Nat \ {0} /\ Grain <= BaseSlack + 1
  BY ArchiveAssumption, CycleAssumption DEF Left, Restore, Delay

\* Rounding to the grain stays within the slack of the dump.
LEMMA Rounding ==
  ASSUME NEW t \in Nat
  PROVE  Mtime(t) \in Int /\ Mtime(t) + BaseSlack >= t
<1>1. t % Grain \in 0 .. (Grain - 1)
  BY Times
<1> QED
  BY <1>1, Times DEF Mtime

\* The names of states, of what is beside them, and of cards are told apart.
LEMMA NamesDiffer ==
  ASSUME NEW s \in StateNames, NEW t \in StateNames
  PROVE  /\ RomMark[s] = RomMark[t] => s = t
         /\ AsideMark[s] = AsideMark[t] => s = t
         /\ Untrusted[s] = Untrusted[t] => s = t
         /\ RomMark[s] \notin StateNames /\ Untrusted[s] \notin StateNames
         /\ AsideMark[s] \notin StateNames
         /\ RomMark[s] # Untrusted[t] /\ RomMark[s] # AsideMark[t] /\ Untrusted[s] # AsideMark[t]
         /\ {s, RomMark[s], Untrusted[s], AsideMark[s]} \cap {"card", "old", "old2", ".."} = {}
  BY DEF StateNames, RomMark, Untrusted, AsideMark

LEMMA PathOfTwo ==
  ASSUME NEW a, NEW b
  PROVE  /\ Len(<<a, b>>) = 2 /\ <<a, b>>[1] = a /\ <<a, b>>[2] = b
         /\ IsPath(<<a, b>>)
  BY DEF IsPath

LEMMA PrefixOfOne == ASSUME NEW p, NEW a, SubSeq(p, 1, 1) = <<a>> PROVE p[1] = a
<1> DEFINE q == SubSeq(p, 1, 1)
<1>1. \A i \in 1 .. 1 : p[i] \in {p[1]}
  OBVIOUS
<1>2. \A i \in 1 .. 1 - 1 + 1 : q[i] = p[1 + i - 1]
  BY ONLY <1>1, SubSeqProperties
<1>3. q = <<a>>
  OBVIOUS
<1> HIDE DEF q
<1>4. q[1] = p[1]
  BY ONLY <1>2
<1> QED
  BY ONLY <1>3, <1>4

LEMMA PrefixOfTwo ==
  ASSUME NEW p, NEW a, NEW b, SubSeq(p, 1, 2) = <<a, b>>
  PROVE  p[1] = a /\ p[2] = b
<1> DEFINE q == SubSeq(p, 1, 2)
<1>1. \A i \in 1 .. 2 : p[i] \in {p[1], p[2]}
  OBVIOUS
<1>2. \A i \in 1 .. 2 - 1 + 1 : q[i] = p[1 + i - 1]
  BY ONLY <1>1, SubSeqProperties
<1>3. q = <<a, b>>
  OBVIOUS
<1> HIDE DEF q
<1>4. q[1] = p[1] /\ q[2] = p[2]
  BY ONLY <1>2
<1> QED
  BY ONLY <1>3, <1>4

\* What a clear spares is no state, marker or card.
LEMMA AsideNames ==
  ASSUME NEW f, f[2] \in StateNames \cup ImageOf(RomMark) \cup {"card", "old", "old2"}
  PROVE  ~Quarantined(f)
<1>1. CASE f[2] \in StateNames \cup {"card", "old", "old2"}
  BY <1>1, NamesDiffer DEF Quarantined, ImageOf
<1>2. CASE f[2] \in ImageOf(RomMark)
  BY <1>2, NamesDiffer DEF Quarantined, ImageOf
<1> QED
  BY <1>1, <1>2

LEMMA Places ==
  ASSUME SetupInv, NEW d \in Disc
  PROVE  /\ StateDir(l) \in {"savestates", "data"}
         /\ Name(d) \in StateNames
         /\ StatePath(d) = <<StateDir(l), Name(d)>> /\ StateFile(StatePath(d))
         /\ Beside(StatePath(d), RomMark) = <<StateDir(l), RomMark[Name(d)]>>
         /\ Beside(StatePath(d), Untrusted) = <<StateDir(l), Untrusted[Name(d)]>>
         /\ Beside(StatePath(d), AsideMark) = <<StateDir(l), AsideMark[Name(d)]>>
         /\ CardPath(l) \in {<<"memcards", "card">>, <<"data", "card">>}
         /\ CardFile(CardPath(l)) /\ ~PerGame(CardPath(l))
         /\ ~StateFile(CardPath(l))
<1>1. StateDir(l) \in {"savestates", "data"} /\ l \in Launchers
  BY DEF SetupInv, StateDir, l, Launchers
<1>2. Name(d) \in StateNames
  BY DEF SetupInv, Name
<1>3. CardPath(l) \in {<<"memcards", "card">>, <<"data", "card">>}
  BY DEF CardPath
<1>4. CardPath(l)[2] = "card"
  BY <1>3
<1>5. ~PerGame(CardPath(l)) /\ ~StateFile(CardPath(l))
  BY <1>4, NamesDiffer DEF PerGame, StateFile
<1>6. CardFile(CardPath(l))
  BY <1>1 DEF CardFile
<1>7. StatePath(d) = <<StateDir(l), Name(d)>> /\ StateFile(StatePath(d))
  BY <1>2, PathOfTwo DEF StatePath, StateFile
<1> QED
  BY <1>1, <1>2, <1>3, <1>5, <1>6, <1>7, PathOfTwo DEF Beside

\* A state is told by its marker.
LEMMA MarkerTells ==
  ASSUME NEW f, NEW g, StateFile(f), StateFile(g), IsPath(f), IsPath(g),
         Beside(f, RomMark) = Beside(g, RomMark)
  PROVE  f = g
<1>1. RomMark[f[2]] = RomMark[g[2]] /\ f[1] = g[1]
  BY PathOfTwo DEF Beside, StateFile
<1> QED
  BY <1>1, NamesDiffer DEF StateFile, IsPath

-----------------------------------------------------------------------------
(* An archive that passed the checks.                                         *)

Serving == phase # "idle" /\ SetupInv /\ ArchiveInv /\ disc \in Disc /\ by \in Player

Import(p) == p.m \in archive /\ p.m.import
StateImport(p) ==
  /\ p.m.kind = "state" /\ p.m.shape = "state"
  /\ p.dest = StateFor(l, p.m, ctx) /\ p.sidecars = {Beside(p.dest, RomMark)}
  /\ IsPath(p.dest) /\ StateFile(p.dest)
  /\ l = "duckstation" /\ setup.known => p.m.serial = Name(disc)
CardImport(p) ==
  /\ p.m.kind # "state" /\ p.m.shape = "card"
  /\ p.dest = CardPath(l) /\ p.sidecars = {}

LEMMA Context ==
  ASSUME Serving
  PROVE  /\ ctx.known = setup.known /\ ctx.name = Name(disc) /\ ctx.disc = disc
         /\ ctx.when = Restore
         /\ Name(disc) \in StateNames
         /\ Accepted(l, archive, ctx, setup.linked, setup.locked)
  BY Places DEF Serving, ArchiveInv

\* A placed import is a state beside its marker, or the card; a marker alone is refused.
LEMMA PlanKinds ==
  ASSUME Serving, NEW p \in Plan(l, archive, ctx)
  PROVE  Import(p) /\ (StateImport(p) \/ CardImport(p))
<1>1. PICK m \in ImportsOf(archive) : p \in Placed(l, m, ctx)
  BY DEF Plan
<1>2. m \in archive /\ m.import /\ WellFormed(m)
  BY <1>1 DEF ImportsOf, V1Of, Serving, ArchiveInv
<1>3. ctx.known = setup.known /\ ctx.name = Name(disc) /\ Name(disc) \in StateNames
  BY Context
<1>4. CASE m.kind = "state"
  <2> DEFINE d == StateFor(l, m, ctx)
  <2>1. m.shape = "state" /\ ~Foreign(l, m, ctx)
    BY <1>1, <1>4 DEF Placed
  <2>2. p = [m |-> m, dest |-> d, sidecars |-> {Beside(d, RomMark)}]
    BY <1>1, <1>4, <2>1 DEF Placed
  <2>3. p.m = m /\ p.dest = d /\ p.sidecars = {Beside(d, RomMark)}
    BY <2>2
  <2>4. PICK n \in StateNames : d = <<StateDir(l), n>>
    BY <1>2, <1>3 DEF StateFor, WellFormed
  <2>5. IsPath(d) /\ StateFile(d)
    BY <2>4, PathOfTwo DEF StateFile
  <2>6. l = "duckstation" /\ setup.known => m.serial = Name(disc)
    BY <1>3, <2>1 DEF Foreign
  <2> QED
    BY <1>2, <1>4, <2>1, <2>3, <2>5, <2>6 DEF Import, StateImport
<1>5. CASE m.kind # "state" /\ m.shape = "card"
  BY <1>1, <1>2, <1>5 DEF Placed, Import, CardImport
<1>6. CASE m.kind # "state" /\ m.shape = "marker"
  <2>1. p.dest = <<StateDir(l), RomMark[Name(disc)]>>
    BY <1>1, <1>3, <1>6 DEF Placed
  <2>2. Len(p.dest) = 2 /\ p.dest[2] = RomMark[Name(disc)]
    BY <2>1, PathOfTwo
  <2>3. Protected(p.dest)
    BY <1>3, <2>2 DEF Protected, ImageOf
  <2>4. PlanRefused(l, Plan(l, archive, ctx), archive, setup.linked)
    BY <2>3 DEF PlanRefused, PlanRefusedPlainly
  <2> QED
    BY <2>4, Context DEF Accepted, Preflight
<1>7. m.kind = "state" \/ m.shape \in {"card", "marker"}
  BY <1>1 DEF Placed
<1> QED
  BY <1>4, <1>5, <1>6, <1>7

LEMMA V1Passed ==
  ASSUME Serving, NEW m \in V1Of(archive)
  PROVE  /\ m \in archive /\ ~m.import /\ WellFormed(m)
         /\ ~Escapes(m) /\ m.flaw \notin {"encrypted", "long", "corrupt"}
         /\ m.path[1] \notin setup.linked \cup setup.locked
         /\ Len(m.path) > 1 /\ m.path[1] \in Subtrees(l)
         /\ \A o \in V1Of(archive) :
              (o.path = m.path => o = m) /\ ~Below(o.path, m.path)
<1>1. ~V1Refused(l, m, archive, setup.linked, setup.locked) /\ ~Corrupt(m)
  BY Context DEF Accepted, V1Of
<1>2. PICK sub \in Subtrees(l) : Below(m.path, <<sub>>)
  BY <1>1 DEF V1Refused, Outside, InSubtree
<1>3. Len(<<sub>>) = 1 /\ <<sub>>[1] = sub
  OBVIOUS
<1>4. SubSeq(m.path, 1, 1) = <<sub>> /\ 1 < Len(m.path)
  BY <1>2, <1>3 DEF Below
<1>5. m.path[1] = sub
  BY <1>4, PrefixOfOne
<1>6. m \in archive /\ ~m.import /\ WellFormed(m)
  BY DEF V1Of, Serving, ArchiveInv
<1>7. Len(m.path) > 1
  BY <1>4, <1>6 DEF WellFormed, IsPath
<1>8. m.path[1] \notin setup.linked /\ m.path[1] \notin setup.locked
  BY <1>1 DEF V1Refused, Linked, Locked
<1> QED
  BY <1>1, <1>5, <1>6, <1>7, <1>8
  DEF V1Refused, Unreadable, TooLong, Corrupt, Duplicate, Collides

LEMMA V1Below ==
  ASSUME Serving, NEW m \in V1Of(archive)
  PROVE  Below(m.path, <<m.path[1]>>)
<1>1. ~V1Refused(l, m, archive, setup.linked, setup.locked)
  BY Context DEF Accepted
<1>2. PICK sub \in Subtrees(l) : Below(m.path, <<sub>>)
  BY <1>1 DEF V1Refused, Outside, InSubtree
<1>3. Len(<<sub>>) = 1
  OBVIOUS
<1>4. SubSeq(m.path, 1, 1) = <<sub>>
  BY <1>2, <1>3 DEF Below
<1>5. m.path[1] = sub
  BY <1>4, PrefixOfOne
<1> QED
  BY <1>2, <1>5

\* No import meets another one, or a member, on one file or on a directory.
LEMMA PlanPassed ==
  ASSUME Serving, NEW p \in Plan(l, archive, ctx), NEW a \in Lands(p)
  PROVE  /\ p.m.flaw \notin {"encrypted", "long", "corrupt"}
         /\ a[1] \notin setup.linked
         /\ \A o \in V1Of(archive) : ~Clash(a, o.path)
         /\ \A q \in Plan(l, archive, ctx) \ {p} : \A b \in Lands(q) : ~Clash(a, b)
<1>1. p.m \in ImportsOf(archive) /\ p.m \in archive
  BY PlanKinds DEF Import, ImportsOf, V1Of
<1>2. Hygienic(p.m) /\ ~Corrupt(p.m)
  BY <1>1, Context DEF Accepted, Preflight
<1>3. ~PlanRefusedPlainly(l, Plan(l, archive, ctx), archive, setup.linked)
  BY Context DEF Accepted, Preflight, PlanRefused
<1>4. ~Conflicted(p, Plan(l, archive, ctx), archive)
  BY <1>3 DEF PlanRefusedPlainly
<1>5. a \in UNION {Lands(q) : q \in Plan(l, archive, ctx)}
  OBVIOUS
<1>6. a[1] \notin setup.linked
  BY <1>3, <1>5 DEF PlanRefusedPlainly
<1> QED
  BY <1>2, <1>4, <1>6 DEF Hygienic, Corrupt, Conflicted

-----------------------------------------------------------------------------
(* What a restore writes.                                                     *)

V1Write(w, m) ==
  w = [path |-> m.path, body |-> m.body, stamp |-> m.stamp, guard |-> TRUE, m |-> m]
ImportWrite(w, p) ==
  w = [path |-> p.dest, body |-> Imported(l, p.m, ctx), stamp |-> ctx.when, guard |-> FALSE,
       m |-> p.m]
SidecarWrite(w, p, s) ==
  w = [path |-> s, body |-> Marker(ctx.disc), stamp |-> ctx.when, guard |-> FALSE, m |-> p.m]

LEMMA WriteKinds ==
  ASSUME NEW w
  PROVE  w \in Writes(l, archive, ctx) <=>
           \/ \E m \in V1Of(archive) : V1Write(w, m)
           \/ \E p \in Plan(l, archive, ctx) :
                ImportWrite(w, p) \/ \E s \in p.sidecars : SidecarWrite(w, p, s)
  BY DEF Writes, V1Write, ImportWrite, SidecarWrite

\* An imported state is settled as one of the disc that is booted, or not at all.
LEMMA ImportedBody ==
  ASSUME Serving, NEW p \in Plan(l, archive, ctx)
  PROVE  LET b == Imported(l, p.m, ctx)
         IN  /\ b \in Body /\ b.marks = p.m.body.marks
             /\ StateImport(p) => /\ b.is = "state"
                                  /\ b.tended => b.whole /\ b.disc = disc
             /\ CardImport(p) => b = p.m.body
<1> DEFINE b == Imported(l, p.m, ctx)
           m == p.m
<1>1. m \in archive /\ m.import /\ (StateImport(p) \/ CardImport(p))
  BY PlanKinds DEF Import
<1>2. /\ WellFormed(m) /\ m.body \in Body
      /\ m.body.is = "state" /\ m.body.tended => m.body.whole
  BY <1>1 DEF Serving, ArchiveInv, WellFormed
<1>3. CASE CardImport(p)
  BY <1>2, <1>3 DEF CardImport, StateImport, Imported
<1>4. CASE StateImport(p)
  <2>1. m.kind = "state" /\ m.shape = "state" /\ ~CardImport(p)
    BY <1>4 DEF StateImport, CardImport
  <2>2. m.body.is = "state"
    BY <1>1, <1>2, <2>1 DEF WellFormed
  <2>3. m.body \in [is : {"state"}, disc : Disc \cup {"another"}, marks : SUBSET Marks,
                    whole : BOOLEAN, tended : BOOLEAN]
    BY <1>2, <2>2 DEF Body
  <2>4. ctx.disc = disc /\ ctx.known = setup.known /\ ctx.name = Name(disc) /\ disc \in Disc
        /\ setup.known \in BOOLEAN /\ l \in {"duckstation", "flycast"}
    BY Context DEF Serving, SetupInv, l, Launchers
  <2>5. CASE l = "flycast" \/ m.serial = ctx.name
    <3>1. b = [m.body EXCEPT !.disc = disc]
      BY <2>1, <2>4, <2>5 DEF Imported
    <3> QED
      BY <1>2, <2>1, <2>2, <2>3, <2>4, <3>1 DEF Body
  <2>6. CASE ~(l = "flycast" \/ m.serial = ctx.name)
    <3>1. b = [m.body EXCEPT !.disc = "another", !.tended = setup.known]
      BY <2>1, <2>4, <2>6 DEF Imported
    <3>2. ~setup.known
      BY <1>4, <2>4, <2>6 DEF StateImport
    <3> QED
      BY <2>1, <2>2, <2>3, <2>4, <3>1, <3>2 DEF Body
  <2> QED
    BY <2>5, <2>6
<1> QED
  BY <1>1, <1>3, <1>4

LEMMA MarkerBody == ASSUME Serving PROVE Marker(ctx.disc) \in Body
  BY Context DEF Serving, Marker, Body

\* What an archive brings is well formed, v1 or placed.
LEMMA WriteForm ==
  ASSUME Serving, NEW w \in Writes(l, archive, ctx)
  PROVE  /\ Fits(w.path, w.body) /\ w.m \in archive
         /\ w.body.marks \in {w.m.body.marks, {}}
         /\ \/ w.guard /\ w.m \in V1Of(archive) /\ V1Write(w, w.m) /\ w.stamp \in Nat
            \/ /\ ~w.guard /\ w.path \in Brought /\ w.stamp = Restore
               /\ Len(w.path) = 2
               /\ w.path[2] \in StateNames \cup ImageOf(RomMark) \cup {"card"}
<1>1. ASSUME NEW m \in V1Of(archive), V1Write(w, m)
      PROVE  /\ Fits(w.path, w.body) /\ w.m \in archive
             /\ w.body.marks \in {w.m.body.marks, {}}
             /\ w.guard /\ w.m \in V1Of(archive) /\ V1Write(w, w.m) /\ w.stamp \in Nat
  <2>1. m \in archive /\ ~m.import /\ WellFormed(m)
    BY V1Passed
  <2>2. w.path = m.path /\ w.body = m.body /\ w.m = m /\ w.guard /\ w.stamp = m.stamp
    BY <1>1 DEF V1Write
  <2> QED
    BY <1>1, <2>1, <2>2 DEF WellFormed, Fits
<1>2. ASSUME NEW p \in Plan(l, archive, ctx), ImportWrite(w, p)
      PROVE  /\ Fits(w.path, w.body) /\ w.m \in archive
             /\ w.body.marks \in {w.m.body.marks, {}}
             /\ ~w.guard /\ w.path \in Brought /\ w.stamp = Restore
             /\ Len(w.path) = 2
             /\ w.path[2] \in StateNames \cup ImageOf(RomMark) \cup {"card"}
  <2>1. p.m \in archive /\ (StateImport(p) \/ CardImport(p))
    BY PlanKinds DEF Import
  <2>2. /\ w.path = p.dest /\ w.body = Imported(l, p.m, ctx) /\ w.m = p.m /\ ~w.guard
        /\ w.stamp = Restore
    BY <1>2, Context DEF ImportWrite
  <2>3. p.dest \in Brought
    BY DEF Brought, Lands
  <2>4. CASE StateImport(p)
    <3>1. IsPath(w.path) /\ Len(w.path) = 2 /\ w.path[2] \in StateNames
      BY <2>2, <2>4 DEF StateImport, StateFile
    <3>2. w.body \in Body /\ w.body.is = "state" /\ w.body.marks = w.m.body.marks
      BY <2>2, <2>4, ImportedBody
    <3> QED
      BY <2>1, <2>2, <2>3, <3>1, <3>2 DEF Fits
  <2>5. CASE CardImport(p)
    <3>1. /\ IsPath(w.path) /\ CardFile(w.path)
          /\ Len(w.path) = 2 /\ w.path[2] = "card" /\ "card" \notin StateNames
      BY <2>2, <2>5, Places, PathOfTwo DEF Serving, CardImport, StateNames
    <3>2. w.body \in Body /\ w.body.marks = w.m.body.marks
      BY <2>2, ImportedBody
    <3> QED
      BY <2>1, <2>2, <2>3, <3>1, <3>2 DEF Fits
  <2> QED
    BY <2>1, <2>4, <2>5
<1>3. ASSUME NEW p \in Plan(l, archive, ctx), NEW s \in p.sidecars, SidecarWrite(w, p, s)
      PROVE  /\ Fits(w.path, w.body) /\ w.m \in archive
             /\ w.body.marks \in {w.m.body.marks, {}}
             /\ ~w.guard /\ w.path \in Brought /\ w.stamp = Restore
             /\ Len(w.path) = 2
             /\ w.path[2] \in StateNames \cup ImageOf(RomMark) \cup {"card"}
  <2>1. p.m \in archive /\ StateImport(p) /\ s = Beside(p.dest, RomMark)
    BY PlanKinds DEF Import, StateImport, CardImport
  <2>2. /\ w.path = s /\ w.body = Marker(ctx.disc) /\ w.m = p.m /\ ~w.guard
        /\ w.stamp = Restore
    BY <1>3, Context DEF SidecarWrite
  <2>3. s \in Brought
    BY DEF Brought, Lands
  <2>4. p.dest[2] \in StateNames
    BY <2>1 DEF StateImport, StateFile
  <2>5. IsPath(s) /\ Len(s) = 2 /\ s[2] = RomMark[p.dest[2]]
    BY <2>1, PathOfTwo DEF Beside
  <2>6. s[2] \notin StateNames /\ s[2] \in ImageOf(RomMark)
    BY <2>4, <2>5, NamesDiffer DEF ImageOf
  <2>7. w.body \in Body /\ w.body.marks = {} /\ w.body.is = "marker"
    BY <2>2, MarkerBody DEF Marker
  <2> QED
    BY <2>1, <2>2, <2>3, <2>5, <2>6, <2>7 DEF Fits
<1> QED
  BY <1>1, <1>2, <1>3, WriteKinds

LEMMA PlacedWrite ==
  ASSUME Serving, NEW w \in Writes(l, archive, ctx), ~w.guard
  PROVE  \E p \in Plan(l, archive, ctx) :
           /\ w.path \in Lands(p) /\ w.m = p.m
           /\ ImportWrite(w, p) \/ \E s \in p.sidecars : SidecarWrite(w, p, s)
  BY WriteKinds DEF V1Write, ImportWrite, SidecarWrite, Lands

\* Where imports go: to states, their markers and the card, which no clear spares.
LEMMA BroughtNames ==
  ASSUME Serving, NEW f \in Brought
  PROVE  /\ IsPath(f) /\ Len(f) = 2
         /\ f[1] \in {"savestates", "data", "memcards"}
         /\ f[2] \in StateNames \cup ImageOf(RomMark) \cup {"card"}
         /\ ~Quarantined(f) /\ ~PerGame(f)
         /\ f[2] \in StateNames => StateFile(f) /\ Beside(f, RomMark) \in Brought
<1>1. PICK p \in Plan(l, archive, ctx) : f \in Lands(p)
  BY DEF Brought
<1>2. /\ IsPath(f) /\ Len(f) = 2
      /\ f[1] \in {"savestates", "data", "memcards"}
      /\ f[2] \in StateNames \cup ImageOf(RomMark) \cup {"card"}
      /\ f[2] \in StateNames => StateFile(f) /\ Beside(f, RomMark) \in Brought
  <2>1. CASE CardImport(p)
    <3>1. f \in {<<"memcards", "card">>, <<"data", "card">>}
      BY <1>1, <2>1, Places DEF CardImport, Lands, Serving
    <3>2. f[2] = "card" /\ "card" \notin StateNames
      BY <3>1 DEF StateNames
    <3> QED
      BY <3>1, <3>2, PathOfTwo
  <2>2. CASE StateImport(p)
    <3>1. f \in {p.dest, Beside(p.dest, RomMark)}
      BY <1>1, <2>2 DEF StateImport, Lands
    <3>2. p.dest[1] = StateDir(l) /\ p.dest[2] \in StateNames /\ IsPath(p.dest) /\ Len(p.dest) = 2
      BY <2>2 DEF StateImport, StateFile
    <3>3. StateDir(l) \in {"savestates", "data"}
      BY Places DEF Serving
    <3>4. /\ Beside(p.dest, RomMark) = <<StateDir(l), RomMark[p.dest[2]]>>
          /\ RomMark[p.dest[2]] \in ImageOf(RomMark)
      BY <3>2 DEF Beside, ImageOf
    <3>5. f[2] \in StateNames => f = p.dest
      BY <3>1, <3>2, <3>4, PathOfTwo, NamesDiffer
    <3>6. Beside(p.dest, RomMark) \in Brought
      BY <2>2 DEF StateImport, Lands, Brought
    <3> QED
      BY <2>2, <3>1, <3>2, <3>3, <3>4, <3>5, <3>6, PathOfTwo DEF StateImport
  <2> QED
    BY <2>1, <2>2, PlanKinds
<1>3. ~Quarantined(f)
  BY <1>2, AsideNames
<1>4. ~PerGame(f)
  BY <1>2, NamesDiffer DEF PerGame, ImageOf
<1> QED
  BY <1>2, <1>3, <1>4

\* No two writes go to one file, nor one where another needs a directory.
LEMMA WritesApart ==
  ASSUME Serving, NEW v \in Writes(l, archive, ctx), NEW w \in Writes(l, archive, ctx)
  PROVE  (v.path = w.path => v = w) /\ ~Below(v.path, w.path)
<1>1. CASE v.guard /\ w.guard
  <2>1. v.m \in V1Of(archive) /\ V1Write(v, v.m) /\ w.m \in V1Of(archive) /\ V1Write(w, w.m)
    BY <1>1, WriteForm
  <2>2. v.path = v.m.path /\ w.path = w.m.path
    BY <2>1 DEF V1Write
  <2>3. (v.m.path = w.m.path => v.m = w.m) /\ ~Below(v.m.path, w.m.path)
    BY <2>1, V1Passed
  <2>4. v.m = w.m => v = w
    BY <2>1 DEF V1Write
  <2> QED
    BY <2>2, <2>3, <2>4
<1>2. ASSUME NEW u \in Writes(l, archive, ctx), ~u.guard
      PROVE  \E p \in Plan(l, archive, ctx) :
               /\ u.path \in Lands(p)
               /\ ImportWrite(u, p) \/ \E s \in p.sidecars : SidecarWrite(u, p, s)
  BY <1>2, PlacedWrite
<1>3. ASSUME NEW u \in Writes(l, archive, ctx), NEW x \in Writes(l, archive, ctx),
             u.guard, ~x.guard
      PROVE  ~Clash(x.path, u.path)
  <2>1. u.m \in V1Of(archive) /\ u.path = u.m.path
    BY <1>3, WriteForm DEF V1Write
  <2>2. PICK p \in Plan(l, archive, ctx) : x.path \in Lands(p)
    BY <1>2, <1>3
  <2> QED
    BY <2>1, <2>2, PlanPassed
<1>4. CASE (v.guard /\ ~w.guard) \/ (~v.guard /\ w.guard)
  BY <1>3, <1>4 DEF Clash
<1>5. CASE ~v.guard /\ ~w.guard
  <2>1. PICK p \in Plan(l, archive, ctx) :
               /\ v.path \in Lands(p)
               /\ ImportWrite(v, p) \/ \E s \in p.sidecars : SidecarWrite(v, p, s)
    BY <1>2, <1>5
  <2>2. PICK q \in Plan(l, archive, ctx) :
               /\ w.path \in Lands(q)
               /\ ImportWrite(w, q) \/ \E s \in q.sidecars : SidecarWrite(w, q, s)
    BY <1>2, <1>5
  <2>3. Len(v.path) = 2 /\ Len(w.path) = 2
    BY <1>5, WriteForm
  <2>4. ~Below(v.path, w.path)
    BY <2>3 DEF Below
  <2>5. CASE p # q
    BY <2>1, <2>2, <2>4, <2>5, PlanPassed DEF Clash
  <2>6. CASE p = q
    <3>1. CASE CardImport(p)
      BY <2>1, <2>2, <2>4, <2>6, <3>1 DEF CardImport, ImportWrite
    <3>2. CASE StateImport(p)
      <4>1. p.sidecars = {Beside(p.dest, RomMark)} /\ Beside(p.dest, RomMark) # p.dest
        <5>1. Beside(p.dest, RomMark)[2] = RomMark[p.dest[2]] /\ p.dest[2] \in StateNames
          BY <3>2, PathOfTwo DEF StateImport, StateFile, Beside
        <5> QED
          BY <3>2, <5>1, NamesDiffer DEF StateImport
      <4>2. /\ ImportWrite(v, p) \/ SidecarWrite(v, p, Beside(p.dest, RomMark))
            /\ ImportWrite(w, p) \/ SidecarWrite(w, p, Beside(p.dest, RomMark))
        BY <2>1, <2>2, <2>6, <4>1
      <4>3. ASSUME NEW u, ImportWrite(u, p) PROVE u.path = p.dest
        BY <4>3 DEF ImportWrite
      <4>4. ASSUME NEW u, SidecarWrite(u, p, Beside(p.dest, RomMark))
            PROVE  u.path = Beside(p.dest, RomMark)
        BY <4>4 DEF SidecarWrite
      <4>5. ImportWrite(v, p) /\ ImportWrite(w, p) => v = w
        BY DEF ImportWrite
      <4>6. SidecarWrite(v, p, Beside(p.dest, RomMark))
            /\ SidecarWrite(w, p, Beside(p.dest, RomMark)) => v = w
        BY DEF SidecarWrite
      <4>7. v.path = w.path => v = w
        BY <4>1, <4>2, <4>3, <4>4, <4>5, <4>6
      <4> QED
        BY <2>4, <4>7
    <3> QED
      BY <3>1, <3>2, PlanKinds
  <2> QED
    BY <2>5, <2>6
<1> QED
  BY <1>1, <1>4, <1>5

\* Once the clear went through, nothing but the disk can stop a write.
LEMMA WritesGoThrough ==
  ASSUME Serving, setup.locked = {}, \A f \in DOMAIN tree : Aside(f) /\ IsPath(f),
         NEW w \in Writes(l, archive, ctx)
  PROVE  ~CannotWrite(w, Writes(l, archive, ctx), tree, setup.linked, setup.locked)
<1>1. w.guard => /\ w.m \in V1Of(archive) /\ w.path = w.m.path
                 /\ WellFormed(w.m) /\ ~w.m.import /\ ~Escapes(w.m) /\ Len(w.path) > 1
                 /\ w.m.flaw \notin {"encrypted", "long", "corrupt"}
                 /\ w.path[1] \notin setup.linked
  BY WriteForm, V1Passed DEF V1Write
<1>2. ~w.guard => /\ w.path \in Brought
                  /\ w.m.flaw \notin {"encrypted", "long", "corrupt"}
                  /\ w.path[1] \notin setup.linked
  BY PlacedWrite, PlanPassed DEF Brought
<1>3. IsPath(w.path) /\ Len(w.path) > 1 /\ Len(w.path) \in Nat
  BY <1>1, <1>2, BroughtNames, WriteForm DEF IsPath, Fits
<1>4. ASSUME NEW i \in DOMAIN w.path PROVE w.path[i] # ".."
  <2>1. CASE w.guard
    BY <1>1, <2>1 DEF Escapes
  <2>2. CASE ~w.guard
    <3>1. /\ w.path = <<w.path[1], w.path[2]>>
          /\ w.path[1] \in {"savestates", "data", "memcards"}
          /\ w.path[2] \in StateNames \cup ImageOf(RomMark) \cup {"card"}
      BY <1>2, <2>2, BroughtNames DEF IsPath
    <3>2. i \in {1, 2}
      BY <3>1
    <3>3. w.path[2] # ".."
      BY <3>1, NamesDiffer DEF ImageOf
    <3> QED
      BY <3>1, <3>2, <3>3
  <2> QED
    BY <2>1, <2>2
<1>5. ASSUME NEW o \in DOMAIN tree PROVE ~Below(o, w.path) /\ ~Below(w.path, o)
  <2>1. Len(o) = 2 /\ Quarantined(o) /\ o = <<o[1], o[2]>>
    BY DEF Aside, IsPath
  <2>2. ~Below(o, w.path)
    BY <1>3, <2>1 DEF Below
  <2>3. ASSUME Below(w.path, o) PROVE FALSE
    <3>1. Len(w.path) > 2 /\ SubSeq(w.path, 1, 2) = <<o[1], o[2]>>
      BY <2>1, <2>3 DEF Below
    <3>2. w.path[2] = o[2]
      BY <3>1, PrefixOfTwo
    <3>3. Quarantined(w.path)
      BY <2>1, <3>2 DEF Quarantined
    <3> QED
      BY <1>1, <1>2, <3>1, <3>3, BroughtNames DEF WellFormed
  <2> QED
    BY <2>2, <2>3
<1>6. \A v \in Writes(l, archive, ctx) : ~Below(v.path, w.path) /\ ~Below(w.path, v.path)
  BY WritesApart
<1> QED
  BY <1>1, <1>2, <1>4, <1>5, <1>6 DEF CannotWrite

IsLanded(u, t, W, when) == u = Landed(t, W, when)

LEMMA LandedIs ==
  ASSUME NEW t, NEW W, NEW when, NEW u, IsLanded(u, t, W, when)
  PROVE  /\ DOMAIN t \subseteq DOMAIN u
         /\ \A f \in DOMAIN u :
              \/ f \in DOMAIN t /\ u[f] = t[f]
              \/ \E w \in W : /\ w.path = f
                              /\ u[f] = [body |-> w.body, mtime |-> Stamp(w, when)]
         /\ \A w \in W : /\ w.path \in DOMAIN u
                         /\ w.path \notin DOMAIN t =>
                              \E v \in W : v.path = w.path /\ u[w.path].body = v.body
<1> DEFINE wins == {w \in W : ~Kept(w, t, when)}
           at(f) == CHOOSE w \in wins : w.path = f
<1>0. u = Landed(t, W, when)
  BY DEF IsLanded
<1>1. DOMAIN u = DOMAIN t \cup {w.path : w \in wins}
  BY <1>0 DEF Landed
<1>2. ASSUME NEW f \in DOMAIN u, \E w \in wins : w.path = f
      PROVE  /\ at(f) \in W /\ at(f).path = f
             /\ u[f] = [body |-> at(f).body, mtime |-> Stamp(at(f), when)]
  BY <1>0, <1>1, <1>2 DEF Landed
<1>3. ASSUME NEW f \in DOMAIN u, ~\E w \in wins : w.path = f
      PROVE  f \in DOMAIN t /\ u[f] = t[f]
  BY <1>0, <1>1, <1>3 DEF Landed
<1>4. ASSUME NEW w \in W, w.path \notin DOMAIN t PROVE w \in wins
  BY <1>4 DEF Kept
<1>5. ASSUME NEW w \in W PROVE w.path \in DOMAIN u
  BY <1>1 DEF Kept
<1>6. ASSUME NEW f \in DOMAIN u
      PROVE  \/ f \in DOMAIN t /\ u[f] = t[f]
             \/ \E w \in W : /\ w.path = f
                             /\ u[f] = [body |-> w.body, mtime |-> Stamp(w, when)]
  BY <1>2, <1>3
<1>7. ASSUME NEW w \in W, w.path \notin DOMAIN t
      PROVE  \E v \in W : v.path = w.path /\ u[w.path].body = v.body
  <2>1. at(w.path) \in W /\ at(w.path).path = w.path /\ u[w.path].body = at(w.path).body
    BY <1>2, <1>4, <1>5, <1>7
  <2> QED
    BY <2>1
<1>8. DOMAIN t \subseteq DOMAIN u
  BY <1>1
<1> HIDE DEF wins, at
<1> QED
  BY <1>5, <1>6, <1>7, <1>8

-----------------------------------------------------------------------------
(* What the emulator and the exit make of the tree.                           *)

Entry(body, when) == [body |-> body, mtime |-> Mtime(when)]

LEMMA EntryIs ==
  ASSUME NEW body, NEW when
  PROVE  /\ Entry(body, when).body = body /\ Entry(body, when).mtime = Mtime(when)
         /\ Entry(body, when) = [body |-> Entry(body, when).body,
                                 mtime |-> Entry(body, when).mtime]
  BY DEF Entry

IsPut(u, t, path, body, when) == u = Put(t, path, body, when)
IsRenamed(u, t, from, to) == u = Renamed(t, from, to)

LEMMA PutIs ==
  ASSUME NEW t, NEW path, NEW body, NEW when, NEW u, IsPut(u, t, path, body, when)
  PROVE  /\ \A f : f \in DOMAIN u <=> f \in DOMAIN t \/ f = path
         /\ u[path] = Entry(body, when)
         /\ \A f \in DOMAIN t \ {path} : u[f] = t[f]
  BY DEF Put, Entry, IsPut

LEMMA RenamedIs ==
  ASSUME NEW t, NEW from, NEW to, NEW u, IsRenamed(u, t, from, to)
  PROVE  /\ \A f : f \in DOMAIN u <=> (f \in DOMAIN t /\ f # from) \/ f = to
         /\ u[to] = t[from]
         /\ \A f \in DOMAIN t \ {from, to} : u[f] = t[f]
  BY DEF Renamed, IsRenamed

TheState == StatePath(disc)
TheMark == Beside(TheState, RomMark)
TheUntrusted == Beside(TheState, Untrusted)
TheAside == Beside(TheState, AsideMark)

Fresh(t, f) ==
  /\ t[f] = [body |-> t[f].body, mtime |-> t[f].mtime]
  /\ t[f].mtime \in Int /\ t[f].mtime + BaseSlack >= baseline

\* The state is written and nothing settles it.
LeavesUnsettled ==
  /\ DOMAIN tree' = DOMAIN tree \cup {TheState}
  /\ \E whole \in BOOLEAN : tree'[TheState].body = State(disc, {Mark}, whole, FALSE)
  /\ Fresh(tree', TheState)
  /\ \A f \in DOMAIN tree \ {TheState} : tree'[f] = tree[f]
  /\ wrote' = wrote \cup {TheState}

\* The state is written with its marker.
LeavesMarked ==
  /\ DOMAIN tree' = DOMAIN tree \cup {TheState, TheMark}
  /\ tree'[TheState].body = State(disc, {Mark}, TRUE, TRUE)
  /\ tree'[TheMark].body = Marker(disc)
  /\ Fresh(tree', TheState) /\ Fresh(tree', TheMark)
  /\ \A f \in DOMAIN tree \ {TheState, TheMark} : tree'[f] = tree[f]
  /\ wrote' = wrote \cup {TheState, TheMark}

\* The state is set aside, without its marker or with it.
SetsAside ==
  /\ DOMAIN tree' = (DOMAIN tree \ {TheState}) \cup {TheUntrusted}
  /\ \E whole \in BOOLEAN : tree'[TheUntrusted].body = State(disc, {Mark}, whole, TRUE)
  /\ Fresh(tree', TheUntrusted)
  /\ \A f \in DOMAIN tree \ {TheState, TheUntrusted} : tree'[f] = tree[f]
  /\ wrote' = wrote \cup {TheUntrusted}
SetsBothAside ==
  /\ TheMark \in DOMAIN tree
  /\ DOMAIN tree' = (DOMAIN tree \ {TheState, TheMark}) \cup {TheUntrusted, TheAside}
  /\ \E whole \in BOOLEAN : tree'[TheUntrusted].body = State(disc, {Mark}, whole, TRUE)
  /\ Fresh(tree', TheUntrusted)
  /\ tree'[TheAside] = tree[TheMark]
  /\ \A f \in DOMAIN tree \ {TheState, TheMark, TheUntrusted, TheAside} : tree'[f] = tree[f]
  /\ wrote' = wrote \cup {TheUntrusted}

Ends == EndsByItself \/ \E asked \in BOOLEAN : Exit(asked)

LEMMA FourPaths ==
  ASSUME SetupInv, disc \in Disc
  PROVE  /\ TheState # TheMark /\ TheState # TheUntrusted /\ TheState # TheAside
         /\ TheMark # TheUntrusted /\ TheMark # TheAside /\ TheUntrusted # TheAside
         /\ StateFile(TheState) /\ ~StateFile(TheMark) /\ ~StateFile(TheUntrusted)
         /\ ~StateFile(TheAside)
         /\ \A f \in {TheState, TheMark, TheUntrusted, TheAside} :
              IsPath(f) /\ Len(f) = 2 /\ ~CardFile(f) /\ ~PerGame(f)
         /\ ~Quarantined(TheState) /\ ~Quarantined(TheMark)
         /\ Quarantined(TheUntrusted) /\ Quarantined(TheAside)
         /\ TheAside[2] \in ImageOf(AsideMark) /\ TheMark[2] \in ImageOf(RomMark)
         /\ TheUntrusted[2] \notin ImageOf(AsideMark)
         /\ TheMark[2] \notin StateNames /\ TheAside[2] \notin StateNames
<1> DEFINE d == StateDir(l)
           n == Name(disc)
<1>1. /\ TheState = <<d, n>> /\ TheMark = <<d, RomMark[n]>> /\ TheUntrusted = <<d, Untrusted[n]>>
      /\ TheAside = <<d, AsideMark[n]>> /\ n \in StateNames
  BY Places DEF TheState, TheMark, TheUntrusted, TheAside
<1> HIDE DEF d, n
<1>2. /\ TheState[2] = n /\ TheMark[2] = RomMark[n] /\ TheUntrusted[2] = Untrusted[n]
      /\ TheAside[2] = AsideMark[n]
  BY <1>1, PathOfTwo
<1>3. /\ TheState # TheMark /\ TheState # TheUntrusted /\ TheState # TheAside
      /\ TheMark # TheUntrusted /\ TheMark # TheAside /\ TheUntrusted # TheAside
      /\ ~StateFile(TheMark) /\ ~StateFile(TheUntrusted) /\ ~StateFile(TheAside)
  BY <1>1, <1>2, NamesDiffer DEF StateFile
<1>4. StateFile(TheState)
  BY Places DEF TheState
<1>5. ASSUME NEW f \in {TheState, TheMark, TheUntrusted, TheAside}
      PROVE  IsPath(f) /\ Len(f) = 2 /\ ~CardFile(f) /\ ~PerGame(f)
  <2>1. IsPath(f) /\ Len(f) = 2
    BY <1>1, PathOfTwo
  <2>2. f[2] \notin {"card", "old", "old2"}
    BY <1>1, <1>2, NamesDiffer
  <2>3. \A x \in Launchers : CardPath(x)[2] = "card"
    BY DEF CardPath
  <2>4. ~PerGame(f)
    BY <2>2 DEF PerGame
  <2> QED
    BY <2>1, <2>2, <2>3, <2>4 DEF CardFile
<1>6. ~Quarantined(TheState) /\ ~Quarantined(TheMark)
  BY <1>1, <1>2, AsideNames DEF ImageOf
<1>7. Quarantined(TheUntrusted) /\ Quarantined(TheAside)
  BY <1>1, <1>2 DEF Quarantined, ImageOf
<1>8. TheUntrusted[2] \notin ImageOf(AsideMark)
  BY <1>1, <1>2, NamesDiffer DEF ImageOf
<1>9. TheMark[2] \notin StateNames /\ TheAside[2] \notin StateNames
  BY <1>1, <1>2, NamesDiffer
<1> QED
  BY <1>1, <1>2, <1>3, <1>4, <1>5, <1>6, <1>7, <1>8, <1>9 DEF ImageOf

LEMMA EndKinds ==
  ASSUME SetupInv, disc \in Disc, baseline \in Nat, Ends
  PROVE  /\ phase = "playing"
         /\ phase' = "dumping" \/ (phase' = "playing" /\ proc' = "gone")
         /\ UNCHANGED <<setup, library, by, disc, ctx, archive, baseline, imports, resumed,
                        outcome, clean, sessions>>
         /\ \/ UNCHANGED <<tree, wrote>>
            \/ /\ proc = "up" /\ CanShut
               /\ \/ LeavesUnsettled
                  \/ phase' = "dumping" /\ (LeavesMarked \/ SetsAside \/ SetsBothAside)
<1> DEFINE at == baseline + 1
<1>1. Mtime(at) \in Int /\ Mtime(at) + BaseSlack >= baseline
  BY Rounding, Times
<1>3. ASSUME NEW b, NEW u, u = Shut(b)
      PROVE  /\ DOMAIN u = DOMAIN tree \cup {TheState}
             /\ u[TheState] = Entry(b, at)
             /\ \A f \in DOMAIN tree \ {TheState} : u[f] = tree[f]
  <2>1. IsPut(u, tree, TheState, b, at)
    BY <1>3 DEF Shut, TheState, IsPut
  <2> QED
    BY <2>1, PutIs
<1>b. TheState # TheMark /\ TheState # TheUntrusted /\ TheMark # TheUntrusted
      /\ TheAside # TheUntrusted /\ TheAside # TheState /\ TheAside # TheMark
  BY FourPaths
<1>c. ASSUME NEW t, NEW f, NEW b, t[f] = Entry(b, at) PROVE t[f].body = b /\ Fresh(t, f)
  BY <1>1, <1>c, EntryIs DEF Fresh
<1> HIDE DEF at
<1>4. ASSUME NEW whole \in BOOLEAN, tree' = Shut(State(disc, {Mark}, whole, FALSE)),
             wrote' = wrote \cup {TheState}
      PROVE  LeavesUnsettled
  <2> DEFINE b == State(disc, {Mark}, whole, FALSE)
  <2>2. b = State(disc, {Mark}, whole, FALSE)
    OBVIOUS
  <2> HIDE DEF b
  <2>1. /\ DOMAIN tree' = DOMAIN tree \cup {TheState}
        /\ tree'[TheState] = Entry(b, at)
        /\ \A f \in DOMAIN tree \ {TheState} : tree'[f] = tree[f]
    BY <1>3, <1>4, <2>2
  <2>3. tree'[TheState].body = b /\ Fresh(tree', TheState)
    BY <1>c, <2>1
  <2> QED
    BY <1>4, <2>1, <2>2, <2>3 DEF LeavesUnsettled
<1>5. ASSUME NEW asked \in BOOLEAN, Confirmed(asked) PROVE LeavesUnsettled \/ LeavesMarked
  <2>1. PICK failing \in MayFail({"marker"}) :
          LET marked == failing = {} /\ (l = "duckstation" \/ asked)
              shut   == Shut(State(disc, {Mark}, TRUE, marked))
              marker == Beside(StatePath(disc), RomMark)
          IN  /\ tree' = IF marked THEN Put(shut, marker, Marker(disc), baseline + 1) ELSE shut
              /\ wrote' = wrote \cup {StatePath(disc)} \cup (IF marked THEN {marker} ELSE {})
    BY <1>5 DEF Confirmed
  <2>2. CASE failing = {} /\ (l = "duckstation" \/ asked)
    <3> DEFINE b == State(disc, {Mark}, TRUE, TRUE)
               shut == Shut(b)
    <3>1. tree' = Put(shut, TheMark, Marker(disc), at) /\ wrote' = wrote \cup {TheState, TheMark}
      BY <2>1, <2>2 DEF TheState, TheMark, at
    <3>6. b = State(disc, {Mark}, TRUE, TRUE) /\ shut = Shut(b)
      OBVIOUS
    <3> HIDE DEF b, shut
    <3>2. /\ DOMAIN shut = DOMAIN tree \cup {TheState}
          /\ shut[TheState] = Entry(b, at)
          /\ \A f \in DOMAIN tree \ {TheState} : shut[f] = tree[f]
      BY <1>3, <3>6
    <3>3. /\ DOMAIN tree' = DOMAIN shut \cup {TheMark}
          /\ tree'[TheMark] = Entry(Marker(disc), at)
          /\ \A f \in DOMAIN shut \ {TheMark} : tree'[f] = shut[f]
      <4>1. IsPut(tree', shut, TheMark, Marker(disc), at)
        BY <3>1 DEF IsPut
      <4> QED
        BY <4>1, PutIs
    <3>4. tree'[TheState] = Entry(b, at)
      BY ONLY <3>2, <3>3, <1>b
    <3>5. /\ DOMAIN tree' = DOMAIN tree \cup {TheState, TheMark}
          /\ \A f \in DOMAIN tree \ {TheState, TheMark} : tree'[f] = tree[f]
      BY ONLY <3>2, <3>3
    <3>7. /\ tree'[TheState].body = b /\ Fresh(tree', TheState)
          /\ tree'[TheMark].body = Marker(disc) /\ Fresh(tree', TheMark)
      BY <1>c, <3>3, <3>4
    <3> QED
      BY ONLY <3>1, <3>5, <3>6, <3>7 DEF LeavesMarked
  <2>3. CASE ~(failing = {} /\ (l = "duckstation" \/ asked))
    <3>1. tree' = Shut(State(disc, {Mark}, TRUE, FALSE)) /\ wrote' = wrote \cup {TheState}
      BY <2>1, <2>3 DEF TheState
    <3> QED
      BY <1>4, <3>1
  <2> QED
    BY <2>2, <2>3
<1>6. ASSUME NEW whole \in BOOLEAN, Killed(whole)
      PROVE  LeavesUnsettled \/ SetsAside \/ SetsBothAside
  <2>1. PICK failing \in MayFail({"state", "marker"}) :
          /\ tree' = SetAside(Shut(State(disc, {Mark}, whole, "state" \notin failing)),
                              TheState, failing)
          /\ wrote' = wrote \cup {IF "state" \in failing THEN TheState ELSE TheUntrusted}
    BY <1>6 DEF Killed, TheState, TheUntrusted
  <2>2. CASE "state" \in failing
    <3>1. tree' = Shut(State(disc, {Mark}, whole, FALSE)) /\ wrote' = wrote \cup {TheState}
      BY <2>1, <2>2 DEF SetAside
    <3> QED
      BY <1>4, <3>1
  <2>3. CASE "state" \notin failing
    <3> DEFINE body == State(disc, {Mark}, whole, TRUE)
               shut == Shut(body)
               aside == Renamed(shut, TheState, TheUntrusted)
    <3>1. /\ tree' = SetAside(shut, TheState, failing)
          /\ wrote' = wrote \cup {TheUntrusted}
      BY <2>1, <2>3
    <3>8. body = State(disc, {Mark}, whole, TRUE) /\ shut = Shut(body)
          /\ aside = Renamed(shut, TheState, TheUntrusted)
      OBVIOUS
    <3>3. tree' = IF TheMark \notin DOMAIN shut \/ "marker" \in failing THEN aside
                  ELSE Renamed(aside, TheMark, TheAside)
      BY <2>3, <3>1 DEF SetAside, TheMark, TheAside, TheUntrusted
    <3> HIDE DEF body, shut, aside
    <3>2. /\ DOMAIN shut = DOMAIN tree \cup {TheState}
          /\ shut[TheState] = Entry(body, at)
          /\ \A f \in DOMAIN tree \ {TheState} : shut[f] = tree[f]
      BY <1>3, <3>8
    <3>4. /\ DOMAIN aside = (DOMAIN shut \ {TheState}) \cup {TheUntrusted}
          /\ aside[TheUntrusted] = shut[TheState]
          /\ \A f \in DOMAIN shut \ {TheState, TheUntrusted} : aside[f] = shut[f]
      <4>1. IsRenamed(aside, shut, TheState, TheUntrusted)
        BY <3>8 DEF IsRenamed
      <4> QED
        BY <4>1, RenamedIs
    <3>5. /\ DOMAIN aside = (DOMAIN tree \ {TheState}) \cup {TheUntrusted}
          /\ aside[TheUntrusted] = Entry(body, at)
          /\ \A f \in DOMAIN tree \ {TheState, TheUntrusted} : aside[f] = tree[f]
      BY ONLY <3>2, <3>4, <1>b
    <3>6. CASE tree' = aside
      <4>1. Fresh(tree', TheUntrusted) /\ tree'[TheUntrusted].body = body
        BY <1>c, <3>5, <3>6
      <4> QED
        BY ONLY <3>1, <3>5, <3>6, <3>8, <4>1, whole \in BOOLEAN DEF SetsAside
    <3>7. CASE TheMark \in DOMAIN shut /\ tree' = Renamed(aside, TheMark, TheAside)
      <4>1. /\ DOMAIN tree' = (DOMAIN aside \ {TheMark}) \cup {TheAside}
            /\ tree'[TheAside] = aside[TheMark]
            /\ \A f \in DOMAIN aside \ {TheMark, TheAside} : tree'[f] = aside[f]
        <5>1. IsRenamed(tree', aside, TheMark, TheAside)
          BY <3>7 DEF IsRenamed
        <5> QED
          BY <5>1, RenamedIs
      <4>2. TheMark \in DOMAIN tree
        BY ONLY <1>b, <3>2, <3>7
      <4>3. tree'[TheAside] = tree[TheMark] /\ tree'[TheUntrusted] = Entry(body, at)
        BY ONLY <1>b, <3>5, <4>1, <4>2
      <4>4. DOMAIN tree' = (DOMAIN tree \ {TheState, TheMark}) \cup {TheUntrusted, TheAside}
        BY ONLY <1>b, <3>5, <4>1
      <4>5. \A f \in DOMAIN tree \ {TheState, TheMark, TheUntrusted, TheAside} : tree'[f] = tree[f]
        BY ONLY <3>5, <4>1
      <4>6. Fresh(tree', TheUntrusted) /\ tree'[TheUntrusted].body = body
        BY <1>c, <4>3
      <4> QED
        BY ONLY <3>1, <3>8, <4>2, <4>3, <4>4, <4>5, <4>6, whole \in BOOLEAN DEF SetsBothAside
    <3> QED
      BY <3>3, <3>6, <3>7
  <2> QED
    BY <2>2, <2>3
<1>7. CASE EndsByItself
  BY <1>4, <1>7 DEF EndsByItself, TheState
<1>8. ASSUME NEW asked \in BOOLEAN, Exit(asked)
      PROVE  /\ phase = "playing" /\ phase' = "dumping"
             /\ UNCHANGED <<setup, library, by, disc, ctx, archive, baseline, imports, resumed,
                            outcome, clean, sessions>>
             /\ \/ UNCHANGED <<tree, wrote>>
                \/ proc = "up" /\ CanShut
                   /\ (LeavesUnsettled \/ LeavesMarked \/ SetsAside \/ SetsBothAside)
  BY <1>5, <1>6, <1>8 DEF Exit
<1> QED
  BY <1>7, <1>8 DEF Ends, EndsByItself

-----------------------------------------------------------------------------
(* The steps.                                                                 *)

\* Nothing happens, or an activation is refused.
Still ==
  /\ UNCHANGED <<setup, server, proc, resumed, report, wrote, clean, faults, sessions>>
  /\ outcome' \in {outcome, "refused"}
  /\ phase = "idle" \/ UNCHANGED vars

\* An activation is accepted.
Begins(p, d, extra, age) ==
  /\ phase = "idle" /\ phase' = "clearing" /\ sessions < MaxSessions
  /\ p \in Player /\ d \in Disc /\ extra \in Extras /\ age \in Dates
  /\ library[p] # <<>> => extra \subseteq ImportsOf(extra)
  /\ by' = p /\ disc' = d /\ archive' = Filed(p, age) \cup extra
  /\ ctx' = [slot |-> ctx'.slot, known |-> setup.known, name |-> Name(d), disc |-> d,
             when |-> Restore]
  /\ Accepted(l, archive', ctx', setup.linked, setup.locked)
  /\ tree' = [f \in DOMAIN tree |-> [tree[f] EXCEPT !.mtime = Left]]
  /\ outcome' = "accepted" /\ sessions' = sessions + 1 /\ resumed' = NoBody
  /\ UNCHANGED <<setup, library, proc, clean, faults>>

LEMMA NextSteps ==
  ASSUME [Next]_vars
  PROVE  \/ Still
         \/ \E p, d, extra, age : Begins(p, d, extra, age)
         \/ Clear \/ Write \/ Launch \/ LaunchFails \/ Save \/ Ends \/ Dump
<1>1. ASSUME NEW p \in Player, NEW d \in Disc, NEW slot \in {"none", "asked"},
             NEW extra \in Extras, NEW age \in Dates, Activate(p, d, slot, extra, age)
      PROVE  Still \/ Begins(p, d, extra, age)
  <2> DEFINE sent == Filed(p, age) \cup extra
             c == [slot |-> slot, known |-> setup.known, name |-> Name(d), disc |-> d,
                   when |-> Restore]
             ok == Accepted(l, sent, c, setup.linked, setup.locked)
  <2>1. c = [slot |-> c.slot, known |-> setup.known, name |-> Name(d), disc |-> d,
             when |-> Restore]
    OBVIOUS
  <2>2. /\ phase = "idle" /\ sessions < MaxSessions
        /\ library[p] # <<>> => extra \subseteq ImportsOf(extra)
        /\ ok => /\ phase' = "clearing" /\ by' = p /\ disc' = d /\ archive' = sent /\ ctx' = c
                 /\ outcome' = "accepted" /\ sessions' = sessions + 1 /\ resumed' = NoBody
                 /\ tree' = [f \in DOMAIN tree |-> [tree[f] EXCEPT !.mtime = Left]]
        /\ ~ok => /\ outcome' = "refused"
                  /\ UNCHANGED <<tree, phase, by, disc, archive, ctx, sessions, resumed, imports,
                                 wrote, report>>
        /\ UNCHANGED <<setup, library, baseline, proc, clean, faults>>
    BY <1>1 DEF Activate
  <2> HIDE DEF c, sent
  <2>3. CASE ok
    BY <1>1, <2>1, <2>2, <2>3 DEF Begins, sent
  <2>4. CASE ~ok
    BY <2>2, <2>4 DEF Still, server
  <2> QED
    BY <2>3, <2>4
<1>2. CASE UNCHANGED vars
  BY <1>2 DEF vars, Still, server
<1>3. CASE Done
  BY <1>2, <1>3 DEF Done
<1>4. CASE \E p \in Player, d \in Disc, slot \in {"none", "asked"} :
             \E extra \in Extras, age \in Dates : Activate(p, d, slot, extra, age)
  BY <1>1, <1>4
<1> QED
  BY <1>2, <1>3, <1>4 DEF Next, Ends

LEMMA MayFailKinds ==
  ASSUME NEW set, NEW failing \in MayFail(set), faults \in 0 .. MaxFaults, Counted(failing)
  PROVE  failing \subseteq set /\ faults' \in 0 .. MaxFaults
<1>1. CASE failing = {}
  <2>1. Cardinality(failing) = 0
    BY <1>1, FS_EmptySet
  <2> QED
    BY <1>1, <2>1 DEF Counted
<1>2. CASE failing # {}
  <2>1. faults < MaxFaults /\ \E x \in set : failing = {x}
    BY <1>2 DEF MayFail
  <2>2. PICK x \in set : failing = {x}
    BY <2>1
  <2>3. Cardinality(failing) = 1
    BY <2>2, FS_Singleton
  <2> QED
    BY <2>1, <2>2, <2>3, CycleAssumption DEF Counted
<1> QED
  BY <1>1, <1>2

LEMMA MayFailIn == ASSUME NEW set, NEW failing \in MayFail(set) PROVE failing \subseteq set
  BY DEF MayFail

\* A clear removes, and went through when what it left is set aside.
LEMMA Clears ==
  ASSUME Clear
  PROVE  \A f \in DOMAIN tree' : /\ f \in DOMAIN tree /\ tree'[f] = tree[f]
                                 /\ clean' => clean /\ Aside(f)
<1>1. PICK stuck \in MayFail({f \in DOMAIN tree : ~Spared(f)}) :
        LET left == {f \in DOMAIN tree : Spared(f)} \cup stuck
        IN  /\ tree' = [f \in left |-> tree[f]]
            /\ clean' = (clean /\ \A f \in left : Len(f) = 2 /\ Quarantined(f))
  BY DEF Clear
<1> DEFINE left == {f \in DOMAIN tree : Spared(f)} \cup stuck
<1>2. left \subseteq DOMAIN tree
  BY MayFailIn
<1>3. tree' = [f \in left |-> tree[f]]
  BY <1>1
<1>4. clean' => clean /\ \A f \in left : Aside(f)
  BY <1>1 DEF Aside
<1> HIDE DEF left
<1> QED
  BY <1>2, <1>3, <1>4

\* A write leaves out what cannot be written, and is then refused.
LEMMA WritesAll ==
  ASSUME Write
  PROVE  \E bad \in SUBSET Writes(l, archive, ctx) :
           /\ IsLanded(tree', tree, Writes(l, archive, ctx) \ bad, ctx.when)
           /\ \/ /\ phase' = "launching" /\ bad = {}
                 /\ UNCHANGED <<outcome, by, disc, ctx, archive, resumed>>
              \/ /\ phase' = "idle" /\ Forgotten
                 /\ outcome' \in {"lost", "disk failed", "name too long"}
                 /\ outcome' = "lost" =>
                      \E w \in Writes(l, archive, ctx) :
                        CannotWrite(w, Writes(l, archive, ctx), tree, setup.linked, setup.locked)
<1> DEFINE all == Writes(l, archive, ctx)
           long == {w \in all : StagesLong(l, w, ctx)}
           cannot == {w \in all : CannotWrite(w, all, tree, setup.linked, setup.locked)}
           hopeless == long \cup cannot
<1>1. PICK failed \in MayFail(all \ hopeless) :
        /\ tree' = Landed(tree, all \ (failed \cup hopeless), ctx.when)
        /\ IF failed \cup hopeless = {}
           THEN phase' = "launching" /\ UNCHANGED <<outcome, by, disc, ctx, archive, resumed>>
           ELSE /\ phase' = "idle" /\ Forgotten
                /\ outcome' = IF failed # {} THEN "disk failed"
                              ELSE IF hopeless = long THEN "name too long" ELSE "lost"
  BY DEF Write
<1>2. failed \cup hopeless \in SUBSET all
  BY MayFailIn
<1>3. hopeless # long => \E w \in all : CannotWrite(w, all, tree, setup.linked, setup.locked)
  OBVIOUS
<1>4. IsLanded(tree', tree, all \ (failed \cup hopeless), ctx.when)
  BY <1>1 DEF IsLanded
<1> HIDE DEF all, long, hopeless
<1>5. CASE failed \cup hopeless = {}
  BY <1>1, <1>2, <1>4, <1>5 DEF all
<1>6. CASE failed \cup hopeless # {}
  BY <1>1, <1>2, <1>3, <1>4, <1>6 DEF all
<1> QED
  BY <1>5, <1>6

LEMMA Counts ==
  ASSUME IInv, phase = "playing"
  PROVE  /\ baseline = Restore + Delay /\ baseline \in Nat /\ sessions \in Nat
         /\ by \in Player /\ disc \in Disc
<1>1. baseline = Restore + Delay
  BY DEF IInv, StampInv
<1>2. sessions \in 0 .. MaxSessions /\ by \in Player /\ disc \in Disc
  BY DEF IInv, TypeOK
<1> QED
  BY <1>1, <1>2, Times, CycleAssumption

-----------------------------------------------------------------------------
(* Types, and what the files of the tree are.                                 *)

LEMMA SomeOne == First(Player) \in Player /\ First(Disc) \in Disc
<1>1. Player # {} /\ Disc # {}
  BY CycleAssumption
<1> QED
  BY <1>1 DEF First

LEMMA SetupStep == ASSUME IInv, [Next]_vars PROVE SetupInv' /\ setup' = setup
<1>1. setup' = setup
  BY NextSteps, EndKinds DEF Still, Begins, Clear, Write, Launch, LaunchFails, Save, Ends,
     EndsByItself, Exit, Dump
<1> QED
  BY <1>1 DEF IInv, SetupInv

LEMMA TypeStep == ASSUME IInv, [Next]_vars PROVE TypeOK'
<1>11. TypeOK /\ SetupInv
  BY DEF IInv
<1>12. setup' = setup
  BY SetupStep
<1>13. MaxSessions \in Nat /\ MaxFaults \in Nat
  BY CycleAssumption
<1> USE DEF TypeOK
<1>14. faults \in 0 .. MaxFaults /\ sessions \in 0 .. MaxSessions
  BY <1>11
<1>15. faults \in Nat /\ sessions \in Nat
  BY <1>13, <1>14
<1>0. TypeOK /\ SetupInv /\ faults \in 0 .. MaxFaults /\ faults \in Nat /\ sessions \in Nat
      /\ MaxSessions \in Nat /\ MaxFaults \in Nat /\ setup' = setup
  BY <1>11, <1>12, <1>13, <1>14, <1>15
<1>1. CASE Still
  BY <1>0, <1>1 DEF Still, server
<1>2. ASSUME NEW p, NEW d, NEW extra, NEW age, Begins(p, d, extra, age) PROVE TypeOK'
  <2>1. /\ phase' = "clearing" /\ by' \in Player /\ disc' \in Disc /\ outcome' = "accepted"
        /\ proc' = proc /\ clean' = clean /\ faults' = faults
    BY <1>2 DEF Begins
  <2>2. sessions' \in 0 .. MaxSessions
    <3>1. sessions < MaxSessions /\ sessions' = sessions + 1
      BY <1>2 DEF Begins
    <3> QED
      BY ONLY <1>13, <1>15, <3>1
  <2> QED
    BY <1>0, <2>1, <2>2
<1>3. CASE Clear
  <2>1. PICK stuck \in MayFail({f \in DOMAIN tree : ~Spared(f)}) :
          Counted(stuck) /\ clean' \in BOOLEAN
    BY <1>3 DEF Clear
  <2>2. faults' \in 0 .. MaxFaults
    BY <1>0, <2>1, MayFailKinds
  <2> QED
    BY <1>0, <1>3, <2>1, <2>2 DEF Clear
<1>4. CASE Write
  <2> DEFINE all == Writes(l, archive, ctx)
             hopeless == {w \in all : StagesLong(l, w, ctx)} \cup
                         {w \in all : CannotWrite(w, all, tree, setup.linked, setup.locked)}
  <2>1. PICK bad \in MayFail(all \ hopeless) :
          /\ Counted(bad)
          /\ \/ phase' = "launching" /\ UNCHANGED <<outcome, by, disc>>
             \/ /\ phase' = "idle" /\ Forgotten
                /\ outcome' \in {"lost", "disk failed", "name too long"}
    BY <1>4 DEF Write
  <2>2. faults' \in 0 .. MaxFaults
    BY <1>0, <2>1, MayFailKinds
  <2> HIDE DEF all, hopeless
  <2>3. setup' = setup /\ proc' = proc /\ clean' = clean /\ sessions' = sessions
    BY <1>4 DEF Write
  <2> QED
    BY <1>0, <2>1, <2>2, <2>3, SomeOne DEF Forgotten
<1>5. CASE Launch
  BY <1>0, <1>5 DEF Launch
<1>6. CASE LaunchFails
  <2>1. /\ phase' = "idle" /\ outcome' = "launch failed"
        /\ proc' = proc /\ clean' = clean /\ sessions' = sessions
    BY <1>6 DEF LaunchFails
  <2>2. faults' \in 0 .. MaxFaults
    <3>1. CASE NeedsCard /\ CardBlocked
      BY <1>0, <1>6, <3>1 DEF LaunchFails
    <3>2. CASE ~(NeedsCard /\ CardBlocked)
      <4>1. faults < MaxFaults /\ faults' = faults + 1
        BY <1>6, <3>2 DEF LaunchFails
      <4> QED
        BY ONLY <1>13, <1>15, <4>1
    <3> QED
      BY <3>1, <3>2
  <2>3. by' \in Player /\ disc' \in Disc
    BY <1>6, SomeOne DEF LaunchFails, Forgotten
  <2> QED
    BY <1>0, <2>1, <2>2, <2>3
<1>7. CASE Save
  BY <1>0, <1>7 DEF Save
<1>8. CASE EndsByItself
  BY <1>0, <1>8 DEF EndsByItself
<1>9. ASSUME NEW asked \in BOOLEAN, Exit(asked) PROVE TypeOK'
  <2>1. faults' \in 0 .. MaxFaults
    <3>1. CASE Confirmed(asked)
      <4>1. PICK failing \in MayFail({"marker"}) : Counted(failing)
        BY <3>1 DEF Confirmed
      <4> QED
        BY <1>0, <4>1, MayFailKinds
    <3>2. CASE \E whole \in BOOLEAN : Killed(whole)
      <4>1. PICK failing \in MayFail({"state", "marker"}) : Counted(failing)
        BY <3>2 DEF Killed
      <4> QED
        BY <1>0, <4>1, MayFailKinds
    <3> QED
      BY <1>0, <1>9, <3>1, <3>2 DEF Exit
  <2> QED
    BY <1>0, <1>9, <2>1 DEF Exit
<1>10. CASE Dump
  <2>1. \/ \E skipped \in MayFail(Changed(tree, baseline, imports)) : Counted(skipped)
        \/ faults' = faults
    BY <1>10 DEF Dump
  <2>2. faults' \in 0 .. MaxFaults
    BY <1>0, <2>1, MayFailKinds
  <2> QED
    BY <1>0, <1>10, <2>2, SomeOne DEF Dump, Forgotten
<1> QED
  BY <1>1, <1>2, <1>3, <1>4, <1>5, <1>6, <1>7, <1>8, <1>9, <1>10, NextSteps DEF Ends

\* A launcher finds the newest of two files, or of one.
LEMMA NewestIn ==
  ASSUME TreeInv, NEW paths, paths # {}, paths \subseteq DOMAIN tree,
         NEW a, NEW b, paths \subseteq {a, b}
  PROVE  Newest(paths) \in paths
<1>1. \A f \in paths : tree[f].mtime \in Int
  BY DEF TreeInv
<1>2. \E p \in paths : \A q \in paths : tree[q].mtime <= tree[p].mtime
  <2>1. CASE ~(a \in paths /\ b \in paths)
    BY <1>1, <2>1
  <2>2. CASE a \in paths /\ b \in paths
    <3>1. tree[a].mtime <= tree[b].mtime \/ tree[b].mtime <= tree[a].mtime
      BY <1>1, <2>2
    <3> QED
      BY <1>1, <2>2, <3>1
  <2> QED
    BY <2>1, <2>2
<1> QED
  BY <1>2 DEF Newest

LEMMA OldestCard ==
  ASSUME TreeInv, OldCards # {}
  PROVE  Newest(OldCards) \in OldCards
<1>1. OldCards \subseteq {<<"memcards", "old">>, <<"memcards", "old2">>}
  BY DEF OldCards, PerGame, TreeInv, Fits, IsPath
<1>2. OldCards \subseteq DOMAIN tree
  BY DEF OldCards
<1> QED
  BY <1>1, <1>2, NewestIn

LEMMA NewestState ==
  ASSUME TreeInv, NEW paths, paths # {}, paths \subseteq {f \in DOMAIN tree : StateFile(f)}
  PROVE  Newest(paths) \in paths
<1>1. paths \subseteq {<<StateDir(l), "s1">>, <<StateDir(l), "s2">>}
  BY DEF StateFile, StateNames, TreeInv, Fits, IsPath
<1>2. paths \subseteq DOMAIN tree
  OBVIOUS
<1> QED
  BY <1>1, <1>2, NewestIn

LEMMA InService == ASSUME IInv, phase # "idle" PROVE Serving
  BY DEF IInv, Serving, TypeOK

LEMMA Bodies ==
  ASSUME SetupInv, by \in Player, disc \in Disc, sessions \in Nat
  PROVE  /\ \A marks \in SUBSET Marks :
              /\ CardWith(marks) \in Body /\ CardWith(marks).is = "card"
              /\ CardWith(marks).marks = marks
         /\ Marker(disc) \in Body /\ Marker(disc).is = "marker" /\ Marker(disc).disc = disc
         /\ Marker(disc).marks = {}
         /\ Mark \in Marks /\ Mark[1] = by
<1>1. Mark \in Marks /\ Mark[1] = by
  BY DEF Mark, Marks
<1>3. ASSUME NEW marks \in SUBSET Marks
      PROVE  /\ CardWith(marks) \in Body /\ CardWith(marks).is = "card"
             /\ CardWith(marks).marks = marks
  BY DEF CardWith, Body
<1>4. /\ Marker(disc) \in Body /\ Marker(disc).is = "marker" /\ Marker(disc).disc = disc
      /\ Marker(disc).marks = {}
  BY DEF Marker, Body
<1> QED
  BY <1>1, <1>3, <1>4

LEMMA StateBody ==
  ASSUME SetupInv, by \in Player, disc \in Disc, sessions \in Nat,
         NEW whole \in BOOLEAN, NEW tended \in BOOLEAN,
         NEW b, b = State(disc, {Mark}, whole, tended)
  PROVE  /\ b \in Body /\ b.is = "state" /\ b.disc = disc /\ b.marks = {Mark}
         /\ b.whole = whole /\ b.tended = tended
<1>1. Mark \in Marks
  BY Bodies
<1> QED
  BY <1>1 DEF State, Body

\* What a tree may hold at a path.
Proper(t, f) == Fits(f, t[f].body) /\ t[f] \in [body : Body, mtime : Int]

LEMMA Stamped ==
  ASSUME Serving, NEW w \in Writes(l, archive, ctx)
  PROVE  /\ Stamp(w, ctx.when) \in Int
         /\ w.guard =>
              \/ Stamp(w, ctx.when) + BaseSlack < Restore + Delay
              \/ w.stamp + BaseSlack >= Restore + Delay /\ w.stamp <= Restore
<1>1. w.stamp \in Nat
  BY WriteForm, Times
<1>2. ctx.when = Restore
  BY Context
<1> QED
  BY <1>1, <1>2, Times DEF Stamp

LEMMA CardFits ==
  ASSUME SetupInv, disc \in Disc, NEW body \in Body
  PROVE  Fits(CardPath(l), body)
<1>1. IsPath(CardPath(l)) /\ Len(CardPath(l)) = 2 /\ CardFile(CardPath(l))
  BY Places, PathOfTwo
<1>2. CardPath(l)[2] = "card" /\ "card" \notin StateNames
  BY Places, PathOfTwo DEF StateNames
<1> QED
  BY <1>1, <1>2 DEF Fits

LEMMA TreeStep == ASSUME IInv, [Next]_vars PROVE TreeInv'
<1>0. TreeInv /\ SetupInv /\ setup' = setup
  BY SetupStep DEF IInv
<1> SUFFICES ASSUME NEW f \in DOMAIN tree' PROVE Proper(tree', f)
  BY DEF TreeInv, Proper
<1>a. ASSUME f \in DOMAIN tree, tree'[f] = tree[f] PROVE Proper(tree', f)
  BY <1>0, <1>a DEF TreeInv, Proper
<1>1. CASE UNCHANGED tree
  BY <1>a, <1>1
<1>2. ASSUME NEW p, NEW d, NEW extra, NEW age, Begins(p, d, extra, age) PROVE Proper(tree', f)
  <2>1. f \in DOMAIN tree /\ tree'[f] = [tree[f] EXCEPT !.mtime = Left]
    BY <1>2 DEF Begins
  <2>2. Proper(tree, f) /\ Left \in Int
    BY <1>0, <2>1, Times DEF TreeInv, Proper
  <2>3. tree'[f].body = tree[f].body /\ tree'[f] \in [body : Body, mtime : Int]
    BY <2>1, <2>2 DEF Proper
  <2> QED
    BY <2>2, <2>3 DEF Proper
<1>3. CASE Clear
  BY <1>a, <1>3, Clears
<1>4. CASE Write
  <2>0. Serving
    BY <1>4, InService DEF Write
  <2>1. PICK bad \in SUBSET Writes(l, archive, ctx) :
          IsLanded(tree', tree, Writes(l, archive, ctx) \ bad, ctx.when)
    BY <1>4, WritesAll
  <2>2. \/ f \in DOMAIN tree /\ tree'[f] = tree[f]
        \/ \E w \in Writes(l, archive, ctx) :
             w.path = f /\ tree'[f] = [body |-> w.body, mtime |-> Stamp(w, ctx.when)]
    BY <2>1, LandedIs
  <2>3. ASSUME NEW w \in Writes(l, archive, ctx), w.path = f,
               tree'[f] = [body |-> w.body, mtime |-> Stamp(w, ctx.when)]
        PROVE  Proper(tree', f)
    <3>1. Fits(w.path, w.body) /\ w.body \in Body /\ Stamp(w, ctx.when) \in Int
      BY <2>0, WriteForm, Stamped DEF Fits
    <3> QED
      BY <2>3, <3>1 DEF Proper
  <2> QED
    BY <1>a, <2>2, <2>3
<1>5. CASE Launch
  <2>0. Serving /\ ctx.when + Delay \in Nat
    BY <1>5, InService, Context, Times DEF Launch
  <2>1. CASE NeedsCard
    <3> DEFINE body == tree[Newest(OldCards)].body
    <3>1. Newest(OldCards) \in OldCards
      BY <1>0, <2>1, OldestCard DEF NeedsCard
    <3>2. body \in Body
      BY <1>0, <3>1 DEF OldCards, TreeInv
    <3>3. IsPut(tree', tree, CardPath(l), body, ctx.when + Delay)
      BY <1>5, <2>1 DEF Launch, IsPut
    <3> HIDE DEF body
    <3>4. CASE f = CardPath(l)
      <4>1. tree'[f] = Entry(body, ctx.when + Delay)
        BY <3>3, <3>4, PutIs
      <4>2. tree'[f] \in [body : Body, mtime : Int] /\ tree'[f].body \in Body
        BY <2>0, <3>2, <4>1, Rounding DEF Entry
      <4> QED
        BY <1>0, <2>0, <3>4, <4>2, CardFits DEF Proper, Serving
    <3> QED
      BY <1>a, <3>3, <3>4, PutIs
  <2> QED
    BY <1>1, <1>5, <2>1 DEF Launch
<1>6. CASE Save
  <2> DEFINE card == CardPath(l)
             had == IF card \in DOMAIN tree THEN tree[card].body.marks ELSE {}
  <2>0. Serving /\ baseline \in Nat /\ sessions \in Nat
    BY <1>6, InService, Counts DEF Save
  <2>1. had \subseteq Marks
    BY <1>0 DEF TreeInv, Body
  <2>2. IsPut(tree', tree, card, CardWith(had \cup {Mark}), baseline)
    BY <1>6 DEF Save, IsPut
  <2>3. CardWith(had \cup {Mark}) \in Body
    BY <2>0, <2>1, Bodies DEF Serving
  <2> HIDE DEF had
  <2>4. CASE f = card
    <3>1. tree'[f] = Entry(CardWith(had \cup {Mark}), baseline)
      BY <2>2, <2>4, PutIs
    <3>2. tree'[f] \in [body : Body, mtime : Int] /\ tree'[f].body \in Body
      BY <2>0, <2>3, <3>1, Rounding DEF Entry
    <3> QED
      BY <1>0, <2>0, <2>4, <3>2, CardFits DEF Proper, Serving
  <2> QED
    BY <1>a, <2>2, <2>4, PutIs
<1>7. CASE Ends
  <2>0. phase = "playing"
    BY <1>7 DEF Ends, EndsByItself, Exit
  <2>1. Serving /\ baseline \in Nat /\ sessions \in Nat /\ by \in Player /\ disc \in Disc
    BY <2>0, InService, Counts
  <2>2. ASSUME NEW whole \in BOOLEAN, NEW tended \in BOOLEAN, IsPath(f), Len(f) = 2,
               Fresh(tree', f), tree'[f].body = State(disc, {Mark}, whole, tended)
        PROVE  Proper(tree', f)
    <3>1. tree'[f].body \in Body /\ tree'[f].body.is = "state"
      BY <1>0, <2>1, <2>2, StateBody
    <3> QED
      BY <2>2, <3>1 DEF Fresh, Proper, Fits
  <2>3. ASSUME IsPath(f), Len(f) = 2, Fresh(tree', f), f[2] \notin StateNames,
               tree'[f].body = Marker(disc)
        PROVE  Proper(tree', f)
    <3>1. tree'[f].body \in Body /\ tree'[f].body.is = "marker"
      BY <1>0, <2>1, <2>3, Bodies
    <3> QED
      BY <2>3, <3>1 DEF Fresh, Proper, Fits
  <2>4. CASE LeavesUnsettled
    BY <1>0, <1>a, <2>1, <2>2, <2>4, FourPaths DEF LeavesUnsettled
  <2>5. CASE LeavesMarked
    BY <1>0, <1>a, <2>1, <2>2, <2>3, <2>5, FourPaths DEF LeavesMarked
  <2>6. CASE SetsAside
    BY <1>0, <1>a, <2>1, <2>2, <2>6, FourPaths DEF SetsAside
  <2>7. CASE SetsBothAside
    <3>1. CASE f = TheAside
      <4>1. TheMark \in DOMAIN tree /\ tree'[f] = tree[TheMark]
        BY <2>7, <3>1 DEF SetsBothAside
      <4>2. /\ Proper(tree, TheMark) /\ ~CardFile(TheMark)
            /\ IsPath(f) /\ Len(f) = 2 /\ f[2] \notin StateNames
        BY <1>0, <2>1, <3>1, <4>1, FourPaths DEF TreeInv, Proper
      <4> QED
        BY <4>1, <4>2 DEF Proper, Fits
    <3>2. CASE f # TheAside
      BY <1>0, <1>a, <2>1, <2>2, <2>7, <3>2, FourPaths DEF SetsBothAside
    <3> QED
      BY <3>1, <3>2
  <2> QED
    BY <1>0, <1>1, <1>7, <2>1, <2>4, <2>5, <2>6, <2>7, EndKinds
<1> QED
  BY <1>1, <1>2, <1>3, <1>4, <1>5, <1>6, <1>7, NextSteps DEF Still, server, LaunchFails, Dump

-----------------------------------------------------------------------------
(* What is filed, and what is sent back.                                      *)

LEMMA Carried ==
  ASSUME IInv, [Next]_vars, phase # "idle", phase' # "idle"
  PROVE  UNCHANGED <<setup, by, disc, ctx, archive>>
<1>1. CASE Write
  BY <1>1, WritesAll, SetupStep
<1>2. CASE Ends
  BY <1>2 DEF Ends, EndsByItself, Exit
<1> QED
  BY <1>1, <1>2, NextSteps, SetupStep
  DEF Still, server, Begins, Clear, Launch, LaunchFails, Save, Dump

LEMMA LibraryKept ==
  ASSUME [Next]_vars, phase # "dumping"
  PROVE  library' = library
<1>1. CASE Write
  BY <1>1 DEF Write
<1>2. CASE Ends
  BY <1>2 DEF Ends, EndsByItself, Exit
<1> QED
  BY <1>1, <1>2, NextSteps
  DEF Still, server, Begins, Clear, Launch, LaunchFails, Save, Dump

\* Only the dump follows the exit.
LEMMA AfterDumping ==
  ASSUME [Next]_vars, phase = "dumping"
  PROVE  UNCHANGED vars \/ Dump
  BY NextSteps DEF Still, Begins, Clear, Write, Launch, LaunchFails, Save, Ends, EndsByItself, Exit

FiledBody(files, f) == IF f \in files THEN tree[f].body ELSE library[by][f]
Lone(files, f) == IF f \in files THEN DOMAIN tree \ files ELSE files
Untended(body) == [body EXCEPT !.tended = FALSE]

LEMMA Dumps ==
  ASSUME Dump, library' # library, LibraryInv, by \in Player
  PROVE  \E files \in SUBSET Changed(tree, baseline, imports) :
           /\ DOMAIN library' = Player /\ library' = [p \in Player |-> library'[p]]
           /\ \A p \in Player : p # by => library'[p] = library[p]
           /\ \A f : f \in DOMAIN library'[by] <=> f \in DOMAIN library[by] \/ f \in files
           /\ \A f \in DOMAIN library'[by] :
                library'[by][f] = IF StateFile(f) /\ Beside(f, RomMark) \in Lone(files, f)
                                  THEN Untended(FiledBody(files, f)) ELSE FiledBody(files, f)
<1> DEFINE changed == Changed(tree, baseline, imports)
<1>1. PICK skipped : library' = [library EXCEPT ![by] = Refiled(@, changed \ skipped)]
  BY DEF Dump
<1> DEFINE files == changed \ skipped
           filed == Refiled(library[by], files)
<1>2. library' = [p \in Player |-> IF p = by THEN filed ELSE library[p]]
  BY <1>1 DEF LibraryInv
<1>3. filed = [f \in DOMAIN library[by] \cup files |->
                 IF StateFile(f) /\ Beside(f, RomMark) \in Lone(files, f)
                 THEN Untended(FiledBody(files, f)) ELSE FiledBody(files, f)]
  BY DEF Refiled, Lone, Untended, FiledBody
<1>4. files \in SUBSET changed
  OBVIOUS
<1> HIDE DEF files, filed
<1>5. library'[by] = filed
  BY <1>2
<1>6. \A f : f \in DOMAIN filed <=> f \in DOMAIN library[by] \/ f \in files
  BY <1>3
<1>7. ASSUME NEW f \in DOMAIN filed
      PROVE  filed[f] = IF StateFile(f) /\ Beside(f, RomMark) \in Lone(files, f)
                        THEN Untended(FiledBody(files, f)) ELSE FiledBody(files, f)
  BY <1>3
<1>8. DOMAIN library' = Player /\ library' = [p \in Player |-> library'[p]]
  BY <1>2
<1>9. \A p \in Player : p # by => library'[p] = library[p]
  BY <1>2
<1> QED
  BY <1>4, <1>5, <1>6, <1>7, <1>8, <1>9

\* What a dump takes for changed was written by the session or imported, is the
\* card it carried over or a marker it set aside, or is dated so by the archive.
LEMMA ChangedKinds ==
  ASSUME IInv, phase = "dumping", NEW f \in Changed(tree, baseline, imports)
  PROVE  /\ f \in DOMAIN tree /\ (~Stale(f) \/ f \in Brought)
         /\ \/ f \in imports \cup wrote
            \/ f = CardPath(l) /\ OldCards # {}
            \/ f[2] \in ImageOf(AsideMark)
            \/ Dated(f)
<1>1. StampInv /\ TreeInv
  BY DEF IInv
<1>2. baseline = Restore + Delay /\ imports = Brought
  BY <1>1 DEF StampInv
<1>3. f \in DOMAIN tree /\ (tree[f].mtime + BaseSlack >= baseline \/ f \in imports)
  BY DEF Changed
<1>4. tree[f].mtime \in Int
  BY <1>1, <1>3 DEF TreeInv
<1>5. ~Stale(f) \/ f \in Brought
  BY <1>2, <1>3, <1>4, Times DEF Stale
<1> QED
  BY <1>1, <1>2, <1>3, <1>5 DEF StampInv

LEMMA UntendedIs ==
  ASSUME NEW b \in Body, b.is = "state"
  PROVE  /\ Untended(b) \in Body /\ Untended(b).is = "state" /\ ~Untended(b).tended
         /\ Untended(b).marks = b.marks
  BY DEF Untended, Body

LEMMA LibraryStep == ASSUME IInv, [Next]_vars PROVE LibraryInv'
<1>0. LibraryInv /\ TreeInv /\ setup' = setup /\ by \in Player
  BY SetupStep DEF IInv, TypeOK
<1>1. CASE library' = library
  BY <1>0, <1>1 DEF LibraryInv
<1>2. CASE phase = "dumping" /\ Dump /\ library' # library
  <2>1. PICK files \in SUBSET Changed(tree, baseline, imports) :
           /\ DOMAIN library' = Player /\ library' = [p \in Player |-> library'[p]]
           /\ \A p \in Player : p # by => library'[p] = library[p]
           /\ \A f : f \in DOMAIN library'[by] <=> f \in DOMAIN library[by] \/ f \in files
           /\ \A f \in DOMAIN library'[by] :
                library'[by][f] = IF StateFile(f) /\ Beside(f, RomMark) \in Lone(files, f)
                                  THEN Untended(FiledBody(files, f)) ELSE FiledBody(files, f)
    BY <1>0, <1>2, Dumps
  <2>2. ASSUME NEW f \in DOMAIN library'[by] PROVE Fits(f, library'[by][f])
    <3> DEFINE b == FiledBody(files, f)
    <3>1. Fits(f, b)
      <4>1. CASE f \in files
        <5>1. f \in DOMAIN tree
          BY <1>2, <2>1, <4>1, ChangedKinds
        <5> QED
          BY <1>0, <4>1, <5>1 DEF TreeInv, FiledBody
      <4>2. CASE f \notin files
        BY <1>0, <2>1, <4>2 DEF LibraryInv, FiledBody
      <4> QED
        BY <4>1, <4>2
    <3> HIDE DEF b
    <3>2. library'[by][f] = IF StateFile(f) /\ Beside(f, RomMark) \in Lone(files, f)
                            THEN Untended(b) ELSE b
      BY <2>1 DEF b
    <3>3. CASE StateFile(f) /\ Beside(f, RomMark) \in Lone(files, f)
      <4>1. b \in Body /\ b.is = "state"
        BY <3>1, <3>3 DEF Fits, StateFile
      <4>2. Untended(b) \in Body /\ Untended(b).is = "state"
        BY <4>1, UntendedIs
      <4> QED
        BY <3>1, <3>2, <3>3, <4>2 DEF Fits
    <3>4. CASE ~(StateFile(f) /\ Beside(f, RomMark) \in Lone(files, f))
      BY <3>1, <3>2, <3>4
    <3> QED
      BY <3>3, <3>4
  <2>3. ASSUME NEW p \in Player, NEW f \in DOMAIN library'[p] PROVE Fits(f, library'[p][f])
    <3>1. CASE p = by
      BY <2>2, <2>3, <3>1
    <3>2. CASE p # by
      BY <1>0, <2>1, <2>3, <3>2 DEF LibraryInv
    <3> QED
      BY <3>1, <3>2
  <2> QED
    BY <2>1, <2>3 DEF LibraryInv
<1> QED
  BY <1>1, <1>2, LibraryKept, AfterDumping DEF vars, server

FiledMember(p, age, f) ==
  [import |-> FALSE, path |-> f, kind |-> "save", shape |-> "any", serial |-> "s1",
   flaw |-> "none", stamp |-> age, body |-> library[p][f]]

\* A member of an archive that is accepted is one of RomM's, or comes from before.
LEMMA Members ==
  ASSUME IInv, NEW p, NEW d, NEW extra, NEW age, Begins(p, d, extra, age)
  PROVE  /\ \A m \in archive' :
              \/ \E f \in DOMAIN library[p] : m = FiledMember(p, age, f)
              \/ m \in extra
         /\ \A f \in DOMAIN library[p] :
              FiledMember(p, age, f) \in archive' /\ FiledMember(p, age, f) \in V1Of(archive')
         /\ \/ \A m \in V1Of(archive') : \E f \in DOMAIN library[p] : m = FiledMember(p, age, f)
            \/ V1Of(archive') = V1Of(extra)
<1>1. archive' = Filed(p, age) \cup extra
      /\ (library[p] # <<>> => extra \subseteq ImportsOf(extra))
  BY DEF Begins
<1>2. Filed(p, age) = {FiledMember(p, age, f) : f \in DOMAIN library[p]}
  BY DEF Filed, FiledMember
<1>3. \A f : ~FiledMember(p, age, f).import
  BY DEF FiledMember
<1>4. CASE library[p] = <<>>
  <2>1. DOMAIN library[p] = {}
    BY <1>4
  <2>2. archive' = extra
    BY <1>1, <1>2, <2>1
  <2> QED
    BY <2>1, <2>2
<1>5. CASE library[p] # <<>>
  <2>1. \A m \in extra : m.import
    BY <1>1, <1>5 DEF ImportsOf, V1Of
  <2> QED
    BY <1>1, <1>2, <1>3, <2>1 DEF V1Of
<1> QED
  BY <1>4, <1>5

LEMMA MemberIs ==
  ASSUME NEW p, NEW age, NEW f, NEW m, m = FiledMember(p, age, f)
  PROVE  /\ ~m.import /\ m.import \in BOOLEAN /\ m.path = f /\ m.serial = "s1" /\ m.stamp = age
         /\ m.body = library[p][f]
  BY DEF FiledMember

LEMMA ArchiveStep == ASSUME IInv, [Next]_vars PROVE ArchiveInv'
<1>0. ArchiveInv /\ LibraryInv /\ setup' = setup
  BY SetupStep DEF IInv
<1>1. CASE phase' = "idle"
  BY <1>1 DEF ArchiveInv
<1>2. CASE phase # "idle" /\ phase' # "idle"
  <2>1. library' = library
    BY <1>2, LibraryKept, AfterDumping DEF Dump, vars, server
  <2> QED
    BY <1>0, <1>2, <2>1, Carried DEF ArchiveInv, l, Name
<1>3. ASSUME NEW p, NEW d, NEW extra, NEW age, Begins(p, d, extra, age) PROVE ArchiveInv'
  <2>1. /\ p \in Player /\ age \in Dates /\ extra \in Extras /\ disc' = d
        /\ ctx' = [slot |-> ctx'.slot, known |-> setup.known, name |-> Name(d), disc |-> d,
                   when |-> Restore]
        /\ Accepted(l, archive', ctx', setup.linked, setup.locked)
    BY <1>3 DEF Begins
  <2>2. \A m \in extra :
          WellFormed(m) /\ (m.body.is = "state" /\ m.body.tended => m.import /\ m.body.whole)
    BY <2>1, ExtrasAssumption
  <2>3. ASSUME NEW f \in DOMAIN library[p], NEW m, m = FiledMember(p, age, f)
        PROVE  WellFormed(m) /\ ~m.import
    <3>1. /\ ~m.import /\ m.import \in BOOLEAN /\ m.path = f /\ m.serial = "s1"
          /\ m.stamp \in Nat /\ m.body = library[p][f]
      BY <2>1, <2>3, MemberIs, CycleAssumption
    <3>2. Fits(f, library[p][f])
      BY <1>0, <2>1 DEF LibraryInv
    <3> QED
      BY <3>1, <3>2 DEF WellFormed, StateNames, Fits
  <2>4. ASSUME NEW m \in archive'
        PROVE  WellFormed(m) /\ (m.import /\ m.body.is = "state" /\ m.body.tended => m.body.whole)
    BY <1>3, <2>2, <2>3, Members
  <2>5. ASSUME NEW f \in DOMAIN library'[by']
        PROVE  \E m \in V1Of(archive') : m.path = f /\ m.body = library'[by'][f]
    <3> DEFINE m == FiledMember(p, age, f)
    <3>1. library' = library /\ by' = p
      BY <1>3 DEF Begins
    <3>2. m \in V1Of(archive') /\ m.path = f /\ m.body = library[p][f]
      BY <1>3, <2>5, <3>1, Members, MemberIs
    <3> HIDE DEF m
    <3> QED
      BY <3>1, <3>2
  <2>6. Name(d)' = Name(d) /\ l' = l
    BY <1>0 DEF Name, l
  <2> QED
    BY <1>0, <2>1, <2>4, <2>5, <2>6 DEF ArchiveInv, Name
<1> QED
  BY <1>1, <1>2, <1>3, NextSteps
  DEF Still, server, Clear, Write, Launch, LaunchFails, Save, Ends, EndsByItself, Exit, Dump

-----------------------------------------------------------------------------
(* Stamps, and what the session wrote.                                        *)

LEMMA BroughtSame ==
  ASSUME IInv, [Next]_vars, phase # "idle", phase' # "idle"
  PROVE  Brought' = Brought /\ l' = l /\ StatePath(disc)' = StatePath(disc)
  BY Carried DEF Brought, l, StatePath, Name

LEMMA DatedSame ==
  ASSUME IInv, [Next]_vars, phase # "idle", phase' # "idle"
  PROVE  \A f : Dated(f)' = Dated(f)
  BY Carried DEF Dated

\* Every old per-game card outlives the session.
LEMMA CardsStay ==
  ASSUME IInv, [Next]_vars, phase \in {"launching", "playing"}, phase' \in {"playing", "dumping"}
  PROVE  OldCards \subseteq OldCards'
<1>1. TreeInv /\ SetupInv /\ disc \in Disc
  BY DEF IInv, TypeOK
<1>2. SUFFICES \A f \in DOMAIN tree : PerGame(f) => f \in DOMAIN tree'
  BY DEF OldCards
<1>3. CASE Launch
  <2>1. CASE NeedsCard
    <3>1. IsPut(tree', tree, CardPath(l), tree[Newest(OldCards)].body, ctx.when + Delay)
      BY <1>3, <2>1 DEF Launch, IsPut
    <3> QED
      BY <3>1, PutIs
  <2> QED
    BY <1>3, <2>1 DEF Launch
<1>4. CASE Save
  <2>1. PICK body : IsPut(tree', tree, CardPath(l), body, baseline)
    BY <1>4 DEF Save, IsPut
  <2> QED
    BY <2>1, PutIs
<1>5. CASE Ends
  <2>1. phase = "playing" /\ baseline \in Nat
    BY <1>5, Counts DEF Ends, EndsByItself, Exit
  <2>2. ~PerGame(TheState) /\ ~PerGame(TheMark)
    BY <1>1, FourPaths
  <2> QED
    BY <1>1, <1>5, <2>1, <2>2, EndKinds DEF LeavesUnsettled, LeavesMarked, SetsAside, SetsBothAside
<1>6. CASE UNCHANGED tree
  BY <1>6
<1> QED
  BY <1>3, <1>4, <1>5, <1>6, NextSteps
  DEF Still, server, Begins, Clear, Write, LaunchFails, Dump

LEMMA StampStep == ASSUME IInv, [Next]_vars PROVE StampInv'
<1>0. StampInv /\ SetupInv /\ TreeInv /\ disc \in Disc
  BY DEF IInv, TypeOK
<1>1. CASE Still
  <2>1. /\ phase' = phase /\ tree' = tree /\ setup' = setup /\ archive' = archive /\ ctx' = ctx
        /\ baseline' = baseline /\ imports' = imports /\ wrote' = wrote
    BY <1>1 DEF Still, server
  <2> QED
    BY <1>0, <2>1 DEF StampInv, Stale, Brought, Dated, l, OldCards
<1>2. ASSUME NEW p, NEW d, NEW extra, NEW age, Begins(p, d, extra, age) PROVE StampInv'
  <2>1. phase' = "clearing" /\ tree' = [f \in DOMAIN tree |-> [tree[f] EXCEPT !.mtime = Left]]
    BY <1>2 DEF Begins
  <2>2. ASSUME NEW f \in DOMAIN tree' PROVE tree'[f].mtime + BaseSlack < Restore + Delay
    <3>1. f \in DOMAIN tree /\ tree'[f] = [tree[f] EXCEPT !.mtime = Left]
      BY <2>1, <2>2
    <3>2. tree[f] \in [body : Body, mtime : Int]
      BY <1>0, <3>1 DEF TreeInv
    <3>3. tree'[f].mtime = Left
      BY <3>1, <3>2
    <3> QED
      BY <3>3, Times
  <2> QED
    BY <2>1, <2>2 DEF StampInv, Stale
<1>3. CASE Clear
  <2>1. phase = "clearing" /\ phase' = "restoring"
    BY <1>3 DEF Clear
  <2> QED
    BY <1>0, <1>3, <2>1, Clears DEF StampInv, Stale
<1>4. CASE Write
  <2>0. Serving /\ phase = "restoring"
    BY <1>4, InService DEF Write
  <2>1. PICK bad \in SUBSET Writes(l, archive, ctx) :
          /\ IsLanded(tree', tree, Writes(l, archive, ctx) \ bad, ctx.when)
          /\ phase' \in {"launching", "idle"}
    BY <1>4, WritesAll
  <2>2. ASSUME NEW f \in DOMAIN tree', phase' = "launching"
        PROVE  Stale(f)' \/ f \in Brought' \/ Dated(f)'
    <3>1. Brought' = Brought /\ Dated(f)' = Dated(f)
      BY <2>0, <2>2, BroughtSame, DatedSame
    <3>2. CASE f \in DOMAIN tree /\ tree'[f] = tree[f]
      BY <1>0, <2>0, <3>2 DEF StampInv, Stale
    <3>3. ASSUME NEW w \in Writes(l, archive, ctx), w.path = f,
                 tree'[f] = [body |-> w.body, mtime |-> Stamp(w, ctx.when)]
          PROVE  Stale(f)' \/ f \in Brought \/ Dated(f)
      <4>1. tree'[f].mtime = Stamp(w, ctx.when)
        BY <3>3
      <4>2. CASE w.guard
        <5>1. w.m \in V1Of(archive) /\ w.m.path = f /\ w.m.stamp = w.stamp
          BY <2>0, <3>3, <4>2, WriteForm DEF V1Write
        <5> QED
          BY <2>0, <4>1, <4>2, <5>1, Stamped DEF Stale, Dated
      <4>3. CASE ~w.guard
        BY <2>0, <3>3, <4>3, WriteForm
      <4> QED
        BY <4>2, <4>3
    <3> QED
      BY <2>1, <3>1, <3>2, <3>3, LandedIs
  <2> QED
    BY <2>1, <2>2 DEF StampInv
<1>5. CASE Launch
  <2>0. Serving /\ phase = "launching" /\ phase' = "playing"
    BY <1>5, InService DEF Launch
  <2>1. Brought' = Brought /\ l' = l /\ OldCards \subseteq OldCards' /\ \A f : Dated(f)' = Dated(f)
    BY <2>0, BroughtSame, CardsStay, DatedSame
  <2>2. baseline' = Restore + Delay /\ imports' = Brought
    BY <1>5, <2>0, Context DEF Launch, Brought
  <2>3. ASSUME NEW f \in DOMAIN tree'
        PROVE  Stale(f)' \/ f \in Brought \/ Dated(f) \/ (f = CardPath(l) /\ OldCards # {})
    <3>1. CASE NeedsCard
      <4>1. IsPut(tree', tree, CardPath(l), tree[Newest(OldCards)].body, ctx.when + Delay)
        BY <1>5, <3>1 DEF Launch, IsPut
      <4>2. f = CardPath(l) \/ (f \in DOMAIN tree /\ tree'[f] = tree[f])
        BY <2>3, <4>1, PutIs
      <4> QED
        BY <1>0, <2>0, <3>1, <4>2 DEF StampInv, Stale, NeedsCard
    <3>2. CASE ~NeedsCard
      BY <1>0, <1>5, <2>0, <2>3, <3>2 DEF Launch, StampInv, Stale
    <3> QED
      BY <3>1, <3>2
  <2> QED
    BY <2>0, <2>1, <2>2, <2>3 DEF StampInv
<1>6. CASE Save
  <2>0. phase = "playing" /\ phase' = "playing" /\ baseline' = baseline /\ imports' = imports
        /\ wrote' = wrote \cup {CardPath(l)}
    BY <1>6 DEF Save
  <2>1. Brought' = Brought /\ l' = l /\ OldCards \subseteq OldCards' /\ \A f : Dated(f)' = Dated(f)
    BY <2>0, BroughtSame, CardsStay, DatedSame
  <2>2. PICK body : IsPut(tree', tree, CardPath(l), body, baseline)
    BY <1>6 DEF Save, IsPut
  <2>3. ASSUME NEW f \in DOMAIN tree'
        PROVE  f = CardPath(l) \/ (f \in DOMAIN tree /\ tree'[f] = tree[f])
    BY <2>2, <2>3, PutIs
  <2> QED
    BY <1>0, <2>0, <2>1, <2>3 DEF StampInv, Stale
<1>7. CASE Ends
  <2>0. phase = "playing" /\ phase' \in {"playing", "dumping"} /\ baseline \in Nat
        /\ baseline' = baseline /\ imports' = imports
    BY <1>7, Counts DEF Ends, EndsByItself, Exit
  <2>1. Brought' = Brought /\ l' = l /\ OldCards \subseteq OldCards' /\ \A f : Dated(f)' = Dated(f)
    BY <2>0, BroughtSame, CardsStay, DatedSame
  <2>2. ASSUME NEW f \in DOMAIN tree'
        PROVE  \/ f \in DOMAIN tree /\ tree'[f] = tree[f] /\ wrote \subseteq wrote'
               \/ f \in wrote'
               \/ f[2] \in ImageOf(AsideMark)
    <3>1. TheAside[2] \in ImageOf(AsideMark)
      BY <1>0, FourPaths
    <3> QED
      BY <1>0, <1>7, <2>0, <2>2, <3>1, EndKinds
      DEF LeavesUnsettled, LeavesMarked, SetsAside, SetsBothAside
  <2> QED
    BY <1>0, <2>0, <2>1, <2>2 DEF StampInv, Stale
<1>8. CASE phase' = "idle"
  BY <1>8 DEF StampInv
<1> QED
  BY <1>1, <1>2, <1>3, <1>4, <1>5, <1>6, <1>7, <1>8, NextSteps DEF LaunchFails, Dump

LEMMA WroteStep == ASSUME IInv, [Next]_vars PROVE WroteInv'
<1>0. WroteInv /\ SetupInv /\ TreeInv /\ disc \in Disc
  BY DEF IInv, TypeOK
<1>1. CASE Still
  <2>1. /\ phase' = phase /\ tree' = tree /\ setup' = setup /\ disc' = disc
        /\ baseline' = baseline /\ wrote' = wrote /\ proc' = proc
    BY <1>1 DEF Still, server
  <2> QED
    BY <1>0, <2>1 DEF WroteInv, l, StatePath, Name
<1>2. CASE phase' \notin {"playing", "dumping"}
  BY <1>2 DEF WroteInv
<1>3. CASE Launch
  BY <1>3 DEF Launch, WroteInv
<1>4. CASE Save
  <2>1. /\ phase = "playing" /\ phase' = "playing" /\ proc = "up" /\ proc' = "up"
        /\ baseline' = baseline /\ wrote' = wrote \cup {CardPath(l)}
    BY <1>4 DEF Save
  <2>2. PICK body : IsPut(tree', tree, CardPath(l), body, baseline)
    BY <1>4 DEF Save, IsPut
  <2>3. l' = l /\ baseline \in Nat
    BY <2>1, BroughtSame, Counts
  <2>4. wrote' \subseteq {CardPath(l)}
    BY <1>0, <2>1 DEF WroteInv
  <2>5. CardPath(l) \in DOMAIN tree' /\ tree'[CardPath(l)].mtime = Mtime(baseline)
    BY <2>2, PutIs, EntryIs
  <2>6. Mtime(baseline) + BaseSlack >= baseline
    BY <2>3, Rounding
  <2> QED
    BY <2>1, <2>3, <2>4, <2>5, <2>6 DEF WroteInv
<1>5. CASE Ends
  <2>1. /\ phase = "playing" /\ baseline' = baseline /\ baseline \in Nat
        /\ phase' = "dumping" \/ (phase' = "playing" /\ proc' = "gone")
    BY <1>0, <1>5, EndKinds, Counts DEF Ends, EndsByItself, Exit
  <2>2. l' = l /\ StatePath(disc)' = TheState
    BY <2>1, BroughtSame DEF TheState
  <2>3. CASE UNCHANGED <<tree, wrote>>
    BY <1>0, <2>1, <2>2, <2>3 DEF WroteInv, TheState
  <2>4. CASE proc = "up"
    <3>1. /\ wrote \subseteq {CardPath(l)}
          /\ CardPath(l) \notin {TheState, TheMark, TheUntrusted, TheAside}
      <4>1. CardFile(CardPath(l))
        BY <1>0, Places
      <4> QED
        BY <1>0, <2>1, <2>4, <4>1, FourPaths DEF WroteInv
    <3>2. \A f \in wrote : f \in DOMAIN tree /\ tree[f].mtime + BaseSlack >= baseline
      BY <1>0, <2>1 DEF WroteInv
    <3>3. CASE LeavesUnsettled
      BY <1>0, <2>1, <2>2, <3>1, <3>2, <3>3 DEF LeavesUnsettled, Fresh, WroteInv, TheState
    <3>4. CASE phase' = "dumping" /\ LeavesMarked
      BY <1>0, <2>1, <2>2, <3>1, <3>2, <3>4 DEF LeavesMarked, Fresh, WroteInv, TheMark
    <3>5. CASE phase' = "dumping" /\ SetsAside
      BY <1>0, <2>1, <2>2, <3>1, <3>2, <3>5 DEF SetsAside, Fresh, WroteInv, TheUntrusted
    <3>6. CASE phase' = "dumping" /\ SetsBothAside
      BY <1>0, <2>1, <2>2, <3>1, <3>2, <3>6 DEF SetsBothAside, Fresh, WroteInv, TheUntrusted
    <3> QED
      BY <1>0, <1>5, <2>1, <2>3, <3>3, <3>4, <3>5, <3>6, EndKinds
  <2> QED
    BY <1>0, <1>5, <2>1, <2>3, <2>4, EndKinds
<1> QED
  BY <1>1, <1>2, <1>3, <1>4, <1>5, NextSteps DEF Begins, Clear, Write, LaunchFails, Dump

-----------------------------------------------------------------------------
(* Whose progress.                                                            *)

\* Only a clear that left something behind is not clean.
LEMMA CleanBefore == ASSUME [Next]_vars, clean' PROVE clean
<1>1. CASE Clear
  BY <1>1 DEF Clear
<1>2. CASE Write
  BY <1>2 DEF Write
<1> QED
  BY <1>1, <1>2, NextSteps
  DEF Still, Begins, Launch, LaunchFails, Save, Ends, EndsByItself, Exit, Dump

OwnFile(f) == Own(by, tree[f].body) \/ (Aside(f) /\ Stale(f) /\ f \notin Brought)

LEMMA OwnStep == ASSUME IInv, [Next]_vars PROVE OwnInv'
<1>0. /\ OwnInv /\ SetupInv /\ TreeInv /\ LibraryInv /\ ArchiveInv /\ StampInv
      /\ disc \in Disc /\ by \in Player
  BY DEF IInv, TypeOK
<1> SUFFICES ASSUME clean' PROVE OwnInv'
  BY DEF OwnInv
<1>1. clean
  BY CleanBefore
<1>2. /\ \A p \in Player : \A f \in DOMAIN library[p] : Own(p, library[p][f])
      /\ phase # "idle" => \A m \in archive : Own(by, m.body)
      /\ phase = "restoring" => \A f \in DOMAIN tree : Aside(f)
      /\ Restored => \A f \in DOMAIN tree : OwnFile(f)
  BY <1>0, <1>1 DEF OwnInv, OwnFile
<1>3. \A p \in Player : \A f \in DOMAIN library'[p] : Own(p, library'[p][f])
  <2>1. CASE library' = library
    BY <1>2, <2>1
  <2>2. CASE phase = "dumping" /\ Dump /\ library' # library
    <3>1. PICK files \in SUBSET Changed(tree, baseline, imports) :
             /\ \A p \in Player : p # by => library'[p] = library[p]
             /\ \A f : f \in DOMAIN library'[by] <=> f \in DOMAIN library[by] \/ f \in files
             /\ \A f \in DOMAIN library'[by] :
                  library'[by][f] = IF StateFile(f) /\ Beside(f, RomMark) \in Lone(files, f)
                                    THEN Untended(FiledBody(files, f)) ELSE FiledBody(files, f)
      BY <1>0, <2>2, Dumps
    <3>2. ASSUME NEW f \in DOMAIN library'[by] PROVE Own(by, library'[by][f])
      <4> DEFINE b == FiledBody(files, f)
      <4>1. Own(by, b) /\ b \in Body /\ (StateFile(f) => b.is = "state")
        <5>1. CASE f \in files
          <6>1. f \in DOMAIN tree /\ (~Stale(f) \/ f \in Brought)
            BY <2>2, <3>1, <5>1, ChangedKinds
          <6>2. OwnFile(f)
            BY <1>2, <2>2, <6>1 DEF Restored
          <6>3. Own(by, tree[f].body)
            BY <6>1, <6>2 DEF OwnFile
          <6> QED
            BY <1>0, <5>1, <6>1, <6>3 DEF FiledBody, TreeInv, Fits, StateFile
        <5>2. CASE f \notin files
          BY <1>0, <1>2, <3>1, <5>2 DEF LibraryInv, FiledBody, StateFile, Fits
        <5> QED
          BY <5>1, <5>2
      <4> HIDE DEF b
      <4>2. library'[by][f] = b \/ (StateFile(f) /\ library'[by][f] = Untended(b))
        BY <3>1 DEF b
      <4>3. StateFile(f) => Untended(b).marks = b.marks
        BY <4>1, UntendedIs
      <4> QED
        BY <4>1, <4>2, <4>3 DEF Own
    <3>3. ASSUME NEW p \in Player, NEW f \in DOMAIN library'[p] PROVE Own(p, library'[p][f])
      <4>1. CASE p = by
        BY <3>2, <3>3, <4>1
      <4>2. CASE p # by
        BY <1>2, <3>1, <3>3, <4>2
      <4> QED
        BY <4>1, <4>2
    <3> QED
      BY <3>3
  <2> QED
    BY <2>1, <2>2, LibraryKept, AfterDumping DEF vars, server
<1>4. CASE Still
  <2>1. UNCHANGED <<setup, tree, library, phase, by, archive, ctx, clean>>
    BY <1>4 DEF Still, server
  <2> QED
    BY <1>0, <2>1 DEF OwnInv, Restored, Own, Aside, Stale, Brought, l
<1>5. CASE phase' = "idle"
  BY <1>3, <1>5 DEF OwnInv, Restored
<1>6. ASSUME NEW p, NEW d, NEW extra, NEW age, Begins(p, d, extra, age) PROVE OwnInv'
  <2>1. p \in Player /\ extra \in Extras /\ by' = p /\ phase' = "clearing"
    BY <1>6 DEF Begins
  <2>2. ASSUME NEW m \in archive' PROVE Own(p, m.body)
    <3>1. CASE m \in extra
      BY <2>1, <3>1, ExtrasAssumption DEF Own
    <3>2. ASSUME NEW f \in DOMAIN library[p], m = FiledMember(p, age, f) PROVE Own(p, m.body)
      BY <1>2, <2>1, <3>2, MemberIs
    <3> QED
      BY <1>6, <3>1, <3>2, Members
  <2> QED
    BY <1>3, <2>1, <2>2 DEF OwnInv, Restored, Own
<1>7. ASSUME phase # "idle", phase' # "idle"
      PROVE  /\ by' = by /\ archive' = archive /\ Brought' = Brought
             /\ \A m \in archive' : Own(by, m.body)
  BY <1>2, <1>7, Carried, BroughtSame
<1>8. CASE Clear
  <2>1. phase = "clearing" /\ phase' = "restoring"
    BY <1>8 DEF Clear
  <2>2. \A f \in DOMAIN tree' : Aside(f)
    BY <1>8, Clears
  <2> QED
    BY <1>3, <1>7, <2>1, <2>2 DEF OwnInv, Restored, Own, Aside
<1>9. ASSUME phase # "idle", phase' \in {"launching", "playing", "dumping"},
             \A f \in DOMAIN tree' :
               \/ Own(by, tree'[f].body)
               \/ Aside(f) /\ f \notin Brought /\ tree'[f].mtime + BaseSlack < Restore + Delay
      PROVE  OwnInv'
  BY <1>3, <1>7, <1>9 DEF OwnInv, Restored, Own, Aside, Stale
<1>10. CASE Write
  <2>0. Serving /\ phase = "restoring"
    BY <1>10, InService DEF Write
  <2>1. PICK bad \in SUBSET Writes(l, archive, ctx) :
          /\ IsLanded(tree', tree, Writes(l, archive, ctx) \ bad, ctx.when)
          /\ phase' \in {"launching", "idle"}
    BY <1>10, WritesAll
  <2>2. ASSUME NEW f \in DOMAIN tree'
        PROVE  \/ Own(by, tree'[f].body)
               \/ Aside(f) /\ f \notin Brought /\ tree'[f].mtime + BaseSlack < Restore + Delay
    <3>1. CASE f \in DOMAIN tree /\ tree'[f] = tree[f]
      <4>1. Aside(f) /\ Stale(f)
        BY <1>0, <1>2, <2>0, <3>1 DEF StampInv
      <4>2. f \notin Brought
        BY <2>0, <4>1, BroughtNames DEF Aside
      <4> QED
        BY <3>1, <4>1, <4>2 DEF Stale
    <3>2. ASSUME NEW w \in Writes(l, archive, ctx), w.path = f,
                 tree'[f] = [body |-> w.body, mtime |-> Stamp(w, ctx.when)]
          PROVE  Own(by, tree'[f].body)
      <4>1. w.m \in archive /\ w.body.marks \in {w.m.body.marks, {}}
        BY <2>0, WriteForm
      <4>2. Own(by, w.m.body)
        BY <1>2, <2>0, <4>1
      <4> QED
        BY <3>2, <4>1, <4>2 DEF Own
    <3> QED
      BY <2>1, <3>1, <3>2, LandedIs
  <2>3. CASE phase' = "launching"
    BY <1>9, <2>0, <2>2, <2>3
  <2> QED
    BY <1>5, <2>1, <2>3
<1>11. ASSUME Restored, NEW f \in DOMAIN tree, tree'[f] = tree[f]
       PROVE  \/ Own(by, tree'[f].body)
              \/ Aside(f) /\ f \notin Brought /\ tree'[f].mtime + BaseSlack < Restore + Delay
  BY <1>2, <1>11 DEF OwnFile, Stale
<1>12. CASE Launch
  <2>0. phase = "launching" /\ phase' = "playing" /\ Restored
    BY <1>12 DEF Launch, Restored
  <2>1. ASSUME NEW f \in DOMAIN tree'
        PROVE  \/ Own(by, tree'[f].body)
               \/ Aside(f) /\ f \notin Brought /\ tree'[f].mtime + BaseSlack < Restore + Delay
    <3>1. CASE NeedsCard
      <4> DEFINE old == Newest(OldCards)
      <4>1. IsPut(tree', tree, CardPath(l), tree[old].body, ctx.when + Delay)
        BY <1>12, <3>1 DEF Launch, IsPut
      <4>2. old \in OldCards
        BY <1>0, <3>1, OldestCard DEF NeedsCard
      <4>3. old \in DOMAIN tree /\ ~Quarantined(old)
        BY <4>2, AsideNames DEF OldCards, PerGame
      <4>4. Own(by, tree[old].body)
        BY <1>2, <2>0, <4>3 DEF OwnFile, Aside
      <4> HIDE DEF old
      <4>5. CASE f = CardPath(l)
        BY <4>1, <4>4, <4>5, PutIs, EntryIs
      <4> QED
        BY <1>11, <2>0, <2>1, <4>1, <4>5, PutIs
    <3>2. CASE ~NeedsCard
      BY <1>11, <1>12, <2>0, <2>1, <3>2 DEF Launch
    <3> QED
      BY <3>1, <3>2
  <2> QED
    BY <1>9, <2>0, <2>1
<1>13. CASE Save
  <2>0. phase = "playing" /\ phase' = "playing" /\ Restored
    BY <1>13 DEF Save, Restored
  <2> DEFINE card == CardPath(l)
             had == IF card \in DOMAIN tree THEN tree[card].body.marks ELSE {}
  <2>1. IsPut(tree', tree, card, CardWith(had \cup {Mark}), baseline)
    BY <1>13 DEF Save, IsPut
  <2>2. \A mark \in had : mark[1] \in {by, "library"}
    <3>1. ~Quarantined(card)
      BY <1>0, Places, AsideNames DEF CardPath
    <3> QED
      BY <1>2, <2>0, <3>1 DEF OwnFile, Aside, Own
  <2>3. Mark[1] = by
    BY DEF Mark
  <2> HIDE DEF had
  <2>4. CardWith(had \cup {Mark}).marks = had \cup {Mark}
    BY DEF CardWith
  <2>5. ASSUME NEW f \in DOMAIN tree'
        PROVE  \/ Own(by, tree'[f].body)
               \/ Aside(f) /\ f \notin Brought /\ tree'[f].mtime + BaseSlack < Restore + Delay
    <3>1. CASE f = card
      <4>1. tree'[f].body = CardWith(had \cup {Mark})
        BY <2>1, <3>1, PutIs, EntryIs
      <4> QED
        BY <2>2, <2>3, <2>4, <4>1 DEF Own
    <3> QED
      BY <1>11, <2>0, <2>1, <2>5, <3>1, PutIs
  <2> QED
    BY <1>9, <2>0, <2>5
<1>14. CASE Ends
  <2>0. phase = "playing" /\ phase' \in {"playing", "dumping"} /\ Restored /\ baseline \in Nat
        /\ sessions \in Nat
    BY <1>14, Counts DEF Ends, EndsByItself, Exit, Restored
  <2>1. ASSUME NEW f, NEW whole \in BOOLEAN, NEW tended \in BOOLEAN,
               tree'[f].body = State(disc, {Mark}, whole, tended)
        PROVE  Own(by, tree'[f].body)
    <3>1. tree'[f].body.marks = {Mark}
      BY <2>1 DEF State
    <3>2. Mark[1] = by
      BY DEF Mark
    <3> QED
      BY <3>1, <3>2 DEF Own
  <2>2. ASSUME NEW f, tree'[f].body = Marker(disc) PROVE Own(by, tree'[f].body)
    BY <2>2 DEF Own, Marker
  <2>3. ASSUME NEW f \in DOMAIN tree'
        PROVE  \/ Own(by, tree'[f].body)
               \/ Aside(f) /\ f \notin Brought /\ tree'[f].mtime + BaseSlack < Restore + Delay
    <3>1. CASE UNCHANGED tree
      BY <1>11, <2>0, <2>3, <3>1
    <3>2. CASE LeavesUnsettled
      BY <1>11, <2>0, <2>1, <2>3, <3>2 DEF LeavesUnsettled
    <3>3. CASE LeavesMarked
      BY <1>11, <2>0, <2>1, <2>2, <2>3, <3>3 DEF LeavesMarked
    <3>4. CASE SetsAside
      BY <1>11, <2>0, <2>1, <2>3, <3>4 DEF SetsAside
    <3>5. CASE SetsBothAside
      <4>1. CASE f = TheAside
        <5>1. TheMark \in DOMAIN tree /\ ~Quarantined(TheMark)
          BY <1>0, <3>5, FourPaths DEF SetsBothAside
        <5>2. Own(by, tree[TheMark].body)
          BY <1>2, <2>0, <5>1 DEF OwnFile, Aside
        <5> QED
          BY <3>5, <4>1, <5>2 DEF SetsBothAside
      <4>2. CASE f # TheAside
        BY <1>11, <2>0, <2>1, <2>3, <3>5, <4>2 DEF SetsBothAside
      <4> QED
        BY <4>1, <4>2
    <3> QED
      BY <1>0, <1>14, <2>0, <3>1, <3>2, <3>3, <3>4, <3>5, EndKinds
  <2> QED
    BY <1>9, <2>0, <2>3
<1> QED
  BY <1>4, <1>5, <1>6, <1>8, <1>10, <1>12, <1>13, <1>14, NextSteps DEF LaunchFails, Dump

-----------------------------------------------------------------------------
(* States an exit settled.                                                    *)

\* The state at f, if it is settled, has its marker beside it.
Settled(t, f) ==
  StateFile(f) /\ t[f].body.tended =>
    /\ t[f].body.whole
    /\ Beside(f, RomMark) \in DOMAIN t
    /\ t[Beside(f, RomMark)].body.disc = t[f].body.disc

SettledFiled(filed, f) ==
  StateFile(f) /\ filed[f].tended =>
    /\ filed[f].whole
    /\ Beside(f, RomMark) \in DOMAIN filed
    /\ filed[Beside(f, RomMark)].disc = filed[f].disc

SettledSent(sent, m) ==
  StateFile(m.path) /\ m.body.tended =>
    /\ m.body.whole
    /\ \E o \in V1Of(sent) : o.path = Beside(m.path, RomMark) /\ o.body.disc = m.body.disc

LEMMA SettledParts ==
  SettledInv <=>
    (clean =>
      /\ \A p \in Player : \A f \in DOMAIN library[p] : SettledFiled(library[p], f)
      /\ phase # "idle" => \A m \in V1Of(archive) : SettledSent(archive, m)
      /\ Restored => \A f \in DOMAIN tree : Settled(tree, f))
  BY DEF SettledInv, SettledFiled, SettledSent, Settled

\* The marker of a state is no state, no card, and nothing set aside.
LEMMA MarkerName ==
  ASSUME SetupInv, disc \in Disc, NEW f, StateFile(f)
  PROVE  /\ ~StateFile(Beside(f, RomMark)) /\ ~Quarantined(Beside(f, RomMark)) /\ ~Quarantined(f)
         /\ Beside(f, RomMark) # CardPath(l) /\ f # CardPath(l)
         /\ Beside(f, RomMark) \notin {TheState, TheUntrusted, TheAside}
         /\ IsPath(f) /\ f # TheState => Beside(f, RomMark) # TheMark
<1> DEFINE g == Beside(f, RomMark)
<1>1. g[2] = RomMark[f[2]] /\ f[2] \in StateNames
  BY PathOfTwo DEF Beside, StateFile
<1>2. g[2] \in ImageOf(RomMark)
  BY <1>1 DEF ImageOf
<1>3. g[2] \notin StateNames /\ g[2] # "card"
  BY <1>1, NamesDiffer
<1>4. ~Quarantined(g) /\ ~Quarantined(f)
  BY <1>1, <1>2, AsideNames
<1>5. CardPath(l)[2] = "card" /\ ~StateFile(CardPath(l))
  BY Places DEF CardPath
<1>6. ~Quarantined(TheState) /\ Quarantined(TheUntrusted) /\ Quarantined(TheAside)
      /\ StateFile(TheState)
  BY FourPaths
<1>7. IsPath(f) /\ f # TheState => g # TheMark
  BY FourPaths, MarkerTells DEF TheMark
<1> HIDE DEF g
<1>8. ~StateFile(g)
  BY <1>3 DEF StateFile
<1> QED
  BY <1>3, <1>4, <1>5, <1>6, <1>7, <1>8 DEF g

\* Settled states stay so where neither they nor their markers change.
LEMMA SettledStays ==
  ASSUME NEW t, NEW u, NEW f, Settled(t, f), f \in DOMAIN t, u[f] = t[f],
         Beside(f, RomMark) \in DOMAIN t =>
           Beside(f, RomMark) \in DOMAIN u /\ u[Beside(f, RomMark)] = t[Beside(f, RomMark)]
  PROVE  Settled(u, f)
  BY DEF Settled

LEMMA SettledFiledStep ==
  ASSUME IInv, [Next]_vars, clean,
         NEW p \in Player, NEW f \in DOMAIN library'[p]
  PROVE  SettledFiled(library'[p], f)
<1>0. /\ LibraryInv /\ TreeInv /\ SetupInv /\ by \in Player /\ disc \in Disc
      /\ \A q \in Player : \A g \in DOMAIN library[q] : SettledFiled(library[q], g)
  BY SettledParts DEF IInv, TypeOK
<1>1. CASE library' = library
  BY <1>0, <1>1
<1>2. CASE phase = "dumping" /\ Dump /\ library' # library
  <2>1. PICK files \in SUBSET Changed(tree, baseline, imports) :
           /\ \A q \in Player : q # by => library'[q] = library[q]
           /\ \A g : g \in DOMAIN library'[by] <=> g \in DOMAIN library[by] \/ g \in files
           /\ \A g \in DOMAIN library'[by] :
                library'[by][g] = IF StateFile(g) /\ Beside(g, RomMark) \in Lone(files, g)
                                  THEN Untended(FiledBody(files, g)) ELSE FiledBody(files, g)
    BY <1>0, <1>2, Dumps
  <2>2. CASE p # by
    BY <1>0, <2>1, <2>2
  <2>3. CASE p = by /\ StateFile(f) /\ library'[p][f].tended
    <3> DEFINE g == Beside(f, RomMark)
               b == FiledBody(files, f)
    <3>1. /\ b \in Body /\ b.is = "state" /\ f \in DOMAIN library'[by]
          /\ f \in files => f \in DOMAIN tree
      <4>1. CASE f \in files
        <5>1. f \in DOMAIN tree
          BY <1>2, <2>1, <4>1, ChangedKinds
        <5> QED
          BY <1>0, <2>3, <4>1, <5>1 DEF TreeInv, FiledBody, Fits, StateFile
      <4>2. CASE f \notin files
        BY <1>0, <2>1, <2>3, <4>2 DEF LibraryInv, FiledBody, StateFile, Fits
      <4> QED
        BY <4>1, <4>2
    <3>2. g \notin Lone(files, f) /\ library'[by][f] = b
      <4>1. CASE g \in Lone(files, f)
        BY <2>1, <2>3, <3>1, <4>1, UntendedIs
      <4> QED
        BY <2>1, <3>1, <4>1
    <3>3. ~StateFile(g)
      BY <1>0, <2>3, MarkerName
    <3>4. ASSUME g \in DOMAIN library[by] \/ g \in files
          PROVE  g \in DOMAIN library'[by] /\ library'[by][g] = FiledBody(files, g)
      BY <2>1, <3>3, <3>4
    <3> HIDE DEF b, g
    <3>5. CASE f \in files
      <4>1. Settled(tree, f)
        BY <1>2, <3>1, <3>5, SettledParts DEF IInv, Restored
      <4>2. b = tree[f].body
        BY <3>5 DEF b, FiledBody
      <4>3. tree[f].body.whole /\ g \in DOMAIN tree /\ tree[g].body.disc = tree[f].body.disc
        BY <2>3, <3>2, <4>1, <4>2 DEF Settled, g
      <4>5. g \in files
        BY <3>2, <3>5, <4>3 DEF Lone
      <4>6. g \in DOMAIN library'[by] /\ library'[by][g] = tree[g].body
        BY <3>4, <4>5 DEF FiledBody
      <4> QED
        BY <2>3, <3>2, <4>2, <4>3, <4>6 DEF SettledFiled, g
    <3>6. CASE f \notin files
      <4>1. f \in DOMAIN library[by] /\ b = library[by][f] /\ g \notin files
        BY <2>1, <3>1, <3>2, <3>6 DEF b, FiledBody, Lone
      <4>2. /\ library[by][f].whole /\ g \in DOMAIN library[by]
            /\ library[by][g].disc = library[by][f].disc
        BY <1>0, <2>3, <3>2, <4>1 DEF SettledFiled, g
      <4>3. g \in DOMAIN library'[by] /\ library'[by][g] = library[by][g]
        BY <3>4, <4>1, <4>2 DEF FiledBody
      <4> QED
        BY <2>3, <3>2, <4>1, <4>2, <4>3 DEF SettledFiled, g
    <3> QED
      BY <3>5, <3>6
  <2> QED
    BY <2>2, <2>3 DEF SettledFiled
<1> QED
  BY <1>1, <1>2, LibraryKept, AfterDumping DEF vars, server

\* After a clean clear, a restore leaves what it wrote and what was set aside.
LEMMA Landing ==
  ASSUME IInv, Write, clean, phase' = "launching"
  PROVE  /\ \A w \in Writes(l, archive, ctx) :
              Aside(w.path) \/ (w.path \in DOMAIN tree' /\ tree'[w.path].body = w.body)
         /\ \A f \in DOMAIN tree' :
              \/ f \in DOMAIN tree /\ tree'[f] = tree[f] /\ Aside(f)
              \/ \E w \in Writes(l, archive, ctx) : w.path = f /\ tree'[f].body = w.body
<1>0. Serving /\ phase = "restoring"
  BY InService DEF Write
<1>1. \A f \in DOMAIN tree : Aside(f)
  BY <1>0 DEF IInv, OwnInv
<1>2. IsLanded(tree', tree, Writes(l, archive, ctx), ctx.when)
  <2>1. PICK bad \in SUBSET Writes(l, archive, ctx) :
          /\ IsLanded(tree', tree, Writes(l, archive, ctx) \ bad, ctx.when)
          /\ (phase' = "launching" /\ bad = {}) \/ phase' = "idle"
    BY WritesAll
  <2>2. bad = {}
    BY <2>1
  <2>3. Writes(l, archive, ctx) \ bad = Writes(l, archive, ctx)
    BY <2>2
  <2> QED
    BY <2>1, <2>3
<1>3. ASSUME NEW w \in Writes(l, archive, ctx), ~Aside(w.path)
      PROVE  w.path \in DOMAIN tree' /\ tree'[w.path].body = w.body
  <2>1. w.path \notin DOMAIN tree
    BY <1>1, <1>3
  <2>2. w.path \in DOMAIN tree'
    BY <1>2, LandedIs
  <2>3. PICK v \in Writes(l, archive, ctx) : v.path = w.path /\ tree'[w.path].body = v.body
    BY <1>2, <2>1, LandedIs
  <2>4. v = w
    BY <1>0, <2>3, WritesApart
  <2> QED
    BY <2>2, <2>3, <2>4
<1>4. ASSUME NEW f \in DOMAIN tree'
      PROVE  \/ f \in DOMAIN tree /\ tree'[f] = tree[f] /\ Aside(f)
             \/ \E w \in Writes(l, archive, ctx) : w.path = f /\ tree'[f].body = w.body
  <2>1. \/ f \in DOMAIN tree /\ tree'[f] = tree[f]
        \/ \E w \in Writes(l, archive, ctx) :
             w.path = f /\ tree'[f] = [body |-> w.body, mtime |-> Stamp(w, ctx.when)]
    BY <1>2, LandedIs
  <2>2. ASSUME NEW w \in Writes(l, archive, ctx),
               tree'[f] = [body |-> w.body, mtime |-> Stamp(w, ctx.when)]
        PROVE  tree'[f].body = w.body
    BY <2>2
  <2> QED
    BY <1>1, <2>1, <2>2
<1> QED
  BY <1>3, <1>4

LEMMA LandedStep == ASSUME IInv, [Next]_vars PROVE LandedInv'
<1> SUFFICES ASSUME clean', phase' = "launching" PROVE LandedInv'
  BY DEF LandedInv
<1>1. clean
  BY CleanBefore
<1>2. CASE Still
  <2>1. UNCHANGED <<setup, tree, phase, archive, ctx, clean>>
    BY <1>2 DEF Still, server
  <2> QED
    BY <1>1, <2>1 DEF IInv, LandedInv, Aside, l
<1>3. CASE Write
  <2>1. phase # "idle"
    BY <1>3 DEF Write
  <2>2. archive' = archive /\ ctx' = ctx /\ l' = l
    BY <2>1, Carried DEF l
  <2> QED
    BY <1>1, <1>3, <2>2, Landing DEF LandedInv, Aside
<1> QED
  BY <1>2, <1>3, NextSteps
  DEF Begins, Clear, Launch, LaunchFails, Save, Ends, EndsByItself, Exit, Dump

LEMMA SettledSentStep ==
  ASSUME IInv, [Next]_vars, clean, phase' # "idle", NEW m \in V1Of(archive')
  PROVE  SettledSent(archive', m)
<1>0. LibraryInv
  BY DEF IInv
<1>1. CASE phase # "idle"
  BY <1>1, Carried, SettledParts DEF IInv
<1>2. ASSUME NEW p, NEW d, NEW extra, NEW age, Begins(p, d, extra, age)
      PROVE  SettledSent(archive', m)
  <2>0. p \in Player /\ extra \in Extras /\ m \in archive' /\ ~m.import
    BY <1>2 DEF Begins, V1Of
  <2> SUFFICES ASSUME StateFile(m.path), m.body.tended
               PROVE  /\ m.body.whole
                      /\ \E o \in V1Of(archive') :
                           o.path = Beside(m.path, RomMark) /\ o.body.disc = m.body.disc
    BY DEF SettledSent
  <2>1. CASE m \in extra
    <3>1. WellFormed(m) /\ (m.body.is = "state" /\ m.body.tended => m.import)
      BY <2>0, <2>1, ExtrasAssumption
    <3>2. m.body.is = "state"
      BY <2>0, <3>1 DEF WellFormed, StateFile
    <3> QED
      BY <2>0, <3>1, <3>2
  <2>2. ASSUME NEW f \in DOMAIN library[p], m = FiledMember(p, age, f)
        PROVE  /\ m.body.whole
               /\ \E o \in V1Of(archive') :
                    o.path = Beside(m.path, RomMark) /\ o.body.disc = m.body.disc
    <3> DEFINE o == FiledMember(p, age, Beside(f, RomMark))
    <3>1. m.path = f /\ m.body = library[p][f]
      BY <2>2, MemberIs
    <3>2. SettledFiled(library[p], f)
      BY <2>0, SettledParts DEF IInv
    <3>3. /\ library[p][f].whole /\ Beside(f, RomMark) \in DOMAIN library[p]
          /\ library[p][Beside(f, RomMark)].disc = library[p][f].disc
      BY <3>1, <3>2 DEF SettledFiled
    <3>4. o \in V1Of(archive') /\ o.path = Beside(f, RomMark)
          /\ o.body = library[p][Beside(f, RomMark)]
      BY <1>2, <3>3, Members, MemberIs
    <3> HIDE DEF o
    <3> QED
      BY <3>1, <3>3, <3>4
  <2> QED
    BY <1>2, <2>0, <2>1, <2>2, Members
<1> QED
  BY <1>1, <1>2, NextSteps
  DEF Still, server, Clear, Write, Launch, LaunchFails, Save, Ends, EndsByItself, Exit, Dump

LEMMA SettledTreeStep ==
  ASSUME IInv, [Next]_vars, clean, Restored', NEW f \in DOMAIN tree', StateFile(f)
  PROVE  Settled(tree', f)
<1> DEFINE g == Beside(f, RomMark)
<1>0. /\ TreeInv /\ SetupInv /\ disc \in Disc /\ by \in Player
      /\ Restored => \A x \in DOMAIN tree : Settled(tree, x)
  BY SettledParts DEF IInv, TypeOK
<1>1. /\ ~StateFile(g) /\ ~Quarantined(g) /\ ~Quarantined(f)
      /\ g # CardPath(l) /\ f # CardPath(l)
      /\ g \notin {TheState, TheUntrusted, TheAside}
      /\ IsPath(f) /\ f # TheState => g # TheMark
  BY <1>0, MarkerName
<1> HIDE DEF g
<1>2. ASSUME Restored, f \in DOMAIN tree, tree'[f] = tree[f],
             g \in DOMAIN tree => g \in DOMAIN tree' /\ tree'[g] = tree[g]
      PROVE  Settled(tree', f)
  BY <1>0, <1>2, SettledStays DEF g
<1>3. CASE Still
  <2>1. tree' = tree /\ phase' = phase
    BY <1>3 DEF Still, server
  <2> QED
    BY <1>2, <2>1 DEF g, Restored
<1>4. CASE Write
  <2>0. Serving /\ phase' = "launching"
    BY <1>4, InService, WritesAll DEF Write, Restored
  <2>1. PICK w \in Writes(l, archive, ctx) : w.path = f /\ tree'[f].body = w.body
    BY <1>1, <1>4, <2>0, Landing DEF Aside
  <2>2. ASSUME NEW v \in Writes(l, archive, ctx), v.path = g
        PROVE  g \in DOMAIN tree' /\ tree'[g].body = v.body
    BY <1>1, <1>4, <2>0, <2>2, Landing DEF Aside
  <2>3. CASE w.guard
    <3>1. w.m \in V1Of(archive) /\ V1Write(w, w.m)
      BY <2>0, <2>3, WriteForm
    <3>2. w.path = w.m.path /\ w.body = w.m.body
      BY <3>1 DEF V1Write
    <3>3. SettledSent(archive, w.m)
      BY <2>0, <3>1, SettledParts DEF IInv, Serving
    <3>4. CASE tree'[f].body.tended
      <4>1. PICK o \in V1Of(archive) : o.path = g /\ o.body.disc = w.body.disc
        BY <2>1, <3>2, <3>3, <3>4 DEF SettledSent, g
      <4>2. PICK v \in Writes(l, archive, ctx) : v.path = g /\ v.body = o.body
        <5> DEFINE v == [path |-> o.path, body |-> o.body, stamp |-> o.stamp, guard |-> TRUE,
                         m |-> o]
        <5>1. V1Write(v, o) /\ v.path = o.path /\ v.body = o.body
          BY DEF V1Write
        <5> HIDE DEF v
        <5>2. v \in Writes(l, archive, ctx)
          BY <5>1, WriteKinds
        <5> QED
          BY <4>1, <5>1, <5>2
      <4>3. w.body.whole
        BY <2>1, <3>2, <3>3, <3>4 DEF SettledSent
      <4> QED
        BY <2>0, <2>1, <2>2, <4>1, <4>2, <4>3 DEF Settled, g
    <3> QED
      BY <2>0, <3>4 DEF Settled
  <2>4. CASE ~w.guard
    <3>1. PICK p \in Plan(l, archive, ctx) :
            /\ w.path \in Lands(p)
            /\ ImportWrite(w, p) \/ \E s \in p.sidecars : SidecarWrite(w, p, s)
      BY <2>0, <2>4, PlacedWrite
    <3>2. StateImport(p) \/ CardImport(p)
      BY <2>0, PlanKinds
    <3>3. CASE CardImport(p)
      BY <1>1, <2>1, <3>1, <3>3 DEF CardImport, Lands
    <3>4. CASE StateImport(p)
      <4>1. p.sidecars = {Beside(p.dest, RomMark)} /\ StateFile(p.dest)
        BY <3>4 DEF StateImport
      <4>2. ~StateFile(Beside(p.dest, RomMark))
        BY <1>0, <4>1, MarkerName
      <4>3. f = p.dest
        BY <2>1, <3>1, <4>1, <4>2 DEF Lands
      <4>4. ImportWrite(w, p)
        BY <2>1, <3>1, <4>1, <4>2 DEF SidecarWrite
      <4>5. tree'[f].body = Imported(l, p.m, ctx)
        BY <2>1, <4>4 DEF ImportWrite
      <4>6. tree'[f].body.tended => tree'[f].body.whole /\ tree'[f].body.disc = disc
        BY <2>0, <3>4, <4>5, ImportedBody
      <4>7. PICK v \in Writes(l, archive, ctx) : v.path = g /\ v.body = Marker(ctx.disc)
        <5> DEFINE v == [path |-> g, body |-> Marker(ctx.disc), stamp |-> ctx.when,
                         guard |-> FALSE, m |-> p.m]
        <5>1. SidecarWrite(v, p, g) /\ v.path = g /\ v.body = Marker(ctx.disc)
          BY DEF SidecarWrite
        <5>2. g \in p.sidecars
          BY <4>1, <4>3 DEF g
        <5> HIDE DEF v
        <5>3. v \in Writes(l, archive, ctx)
          BY <5>1, <5>2, WriteKinds
        <5> QED
          BY <5>1, <5>3
      <4>8. g \in DOMAIN tree' /\ tree'[g].body.disc = disc
        BY <2>0, <2>2, <4>7, Context DEF Marker
      <4> QED
        BY <2>0, <4>6, <4>8 DEF Settled, g
    <3> QED
      BY <3>2, <3>3, <3>4
  <2> QED
    BY <2>3, <2>4
<1>5. CASE Launch
  <2>0. Restored
    BY <1>5 DEF Launch, Restored
  <2>1. \A x \in DOMAIN tree' \ {CardPath(l)} : x \in DOMAIN tree /\ tree'[x] = tree[x]
    <3>1. CASE NeedsCard
      <4>1. IsPut(tree', tree, CardPath(l), tree[Newest(OldCards)].body, ctx.when + Delay)
        BY <1>5, <3>1 DEF Launch, IsPut
      <4> QED
        BY <4>1, PutIs
    <3> QED
      BY <1>5, <3>1 DEF Launch
  <2>2. g \in DOMAIN tree => g \in DOMAIN tree'
    <3>1. CASE NeedsCard
      <4>1. IsPut(tree', tree, CardPath(l), tree[Newest(OldCards)].body, ctx.when + Delay)
        BY <1>5, <3>1 DEF Launch, IsPut
      <4> QED
        BY <4>1, PutIs
    <3> QED
      BY <1>5, <3>1 DEF Launch
  <2> QED
    BY <1>1, <1>2, <2>0, <2>1, <2>2
<1>6. CASE Save
  <2>0. Restored
    BY <1>6 DEF Save, Restored
  <2>1. PICK body : IsPut(tree', tree, CardPath(l), body, baseline)
    BY <1>6 DEF Save, IsPut
  <2>2. /\ f \in DOMAIN tree /\ tree'[f] = tree[f]
        /\ g \in DOMAIN tree => g \in DOMAIN tree' /\ tree'[g] = tree[g]
    BY <1>1, <2>1, PutIs
  <2> QED
    BY <1>1, <1>2, <2>0, <2>2 DEF g
<1>7. CASE Ends
  <2>0. Restored /\ phase = "playing" /\ baseline \in Nat
    BY <1>7, Counts DEF Ends, EndsByItself, Exit, Restored
  <2>1. ASSUME f \in DOMAIN tree, tree'[f] = tree[f],
               g \in DOMAIN tree => g \in DOMAIN tree' /\ tree'[g] = tree[g]
        PROVE  Settled(tree', f)
    BY <1>2, <2>0, <2>1
  <2>a. f \in DOMAIN tree => IsPath(f)
    BY <1>0 DEF TreeInv, Fits
  <2>b. /\ TheState # TheMark /\ StateFile(TheState)
        /\ ~StateFile(TheMark) /\ ~StateFile(TheUntrusted) /\ ~StateFile(TheAside)
    BY <1>0, FourPaths
  <2>2. CASE UNCHANGED <<tree, wrote>>
    BY <2>1, <2>2 DEF g
  <2>3. CASE LeavesUnsettled
    <3>1. CASE f = TheState
      <4>1. ~tree'[f].body.tended
        BY <2>3, <3>1 DEF LeavesUnsettled, State
      <4> QED
        BY <4>1 DEF Settled
    <3>2. CASE f # TheState
      BY <1>1, <2>1, <2>3, <3>2 DEF LeavesUnsettled, g
    <3> QED
      BY <3>1, <3>2
  <2>4. CASE LeavesMarked
    <3>1. CASE f = TheState
      <4>1. tree'[f].body.whole /\ tree'[f].body.disc = disc
        BY <2>4, <3>1 DEF LeavesMarked, State
      <4>2. g = TheMark /\ g \in DOMAIN tree' /\ tree'[g].body.disc = disc
        BY <2>4, <3>1 DEF LeavesMarked, Marker, g, TheMark
      <4> QED
        BY <4>1, <4>2 DEF Settled, g
    <3>2. CASE f # TheState
      BY <1>1, <2>1, <2>4, <2>a, <2>b, <3>2 DEF LeavesMarked, g
    <3> QED
      BY <3>1, <3>2
  <2>5. CASE SetsAside
    BY <1>1, <2>1, <2>5, <2>b DEF SetsAside, g
  <2>6. CASE SetsBothAside
    BY <1>1, <2>1, <2>6, <2>a, <2>b DEF SetsBothAside, g
  <2> QED
    BY <1>0, <1>7, <2>0, <2>2, <2>3, <2>4, <2>5, <2>6, EndKinds
<1> QED
  BY <1>3, <1>4, <1>5, <1>6, <1>7, NextSteps DEF Begins, Clear, LaunchFails, Dump, Restored

LEMMA SettledStep == ASSUME IInv, [Next]_vars PROVE SettledInv'
<1>1. clean' => clean
  BY CleanBefore
<1>2. \A f : StateFile(f)' <=> StateFile(f)
  BY SetupStep DEF StateFile, l
<1>3. clean' => \A p \in Player : \A f \in DOMAIN library'[p] : SettledFiled(library'[p], f)
  BY <1>1, SettledFiledStep
<1>4. clean' /\ phase' # "idle" => \A m \in V1Of(archive') : SettledSent(archive', m)
  BY <1>1, SettledSentStep
<1>5. clean' /\ Restored' => \A f \in DOMAIN tree' : StateFile(f) => Settled(tree', f)
  BY <1>1, SettledTreeStep
<1> QED
  BY <1>2, <1>3, <1>4, <1>5 DEF SettledInv, SettledFiled, SettledSent, Settled, Restored

-----------------------------------------------------------------------------
(* The card.                                                                  *)

\* A card of one game is no state, not the mounted card, and never set aside.
LEMMA GameCard ==
  ASSUME SetupInv, disc \in Disc, NEW f, PerGame(f)
  PROVE  /\ f[1] = "memcards" /\ ~Quarantined(f) /\ ~StateFile(f) /\ f # CardPath(l)
         /\ ~Quarantined(CardPath(l)) /\ ~StateFile(CardPath(l))
         /\ f \notin {TheState, TheMark, TheUntrusted, TheAside}
<1>1. f[1] = "memcards" /\ f[2] \in {"old", "old2"}
  BY DEF PerGame
<1>2. ~Quarantined(f)
  BY <1>1, AsideNames
<1>3. f[2] \notin StateNames
  BY <1>1, NamesDiffer
<1>4. CardPath(l)[2] = "card" /\ ~PerGame(CardPath(l)) /\ ~StateFile(CardPath(l))
  BY Places DEF CardPath
<1>5. ~Quarantined(CardPath(l))
  BY <1>4, AsideNames
<1>6. f \notin {TheState, TheMark, TheUntrusted, TheAside}
  BY FourPaths
<1> QED
  BY <1>1, <1>2, <1>3, <1>4, <1>5, <1>6 DEF StateFile

\* Only DuckStation's archives bring one, and then no card to mount beside it.
LEMMA GameCardSent ==
  ASSUME Serving, NEW m \in V1Of(archive), PerGame(m.path)
  PROVE  /\ l = "duckstation"
         /\ \A w \in Writes(l, archive, ctx) : w.path = CardPath(l) => w.guard
<1>1. m.path[1] \in Subtrees(l) /\ Below(m.path, <<m.path[1]>>) /\ m.path[1] = "memcards"
  BY V1Passed, V1Below DEF PerGame
<1>2. l = "duckstation"
  BY <1>1 DEF Subtrees
<1>3. ASSUME NEW w \in Writes(l, archive, ctx), w.path = CardPath(l), ~w.guard PROVE FALSE
  <2>1. PICK p \in Plan(l, archive, ctx) : w.path \in Lands(p)
    BY <1>3, PlacedWrite
  <2>2. p.dest = CardPath(l)
    <3>1. CASE CardImport(p)
      BY <3>1 DEF CardImport
    <3>2. CASE StateImport(p)
      <4>1. Beside(p.dest, RomMark)[2] = RomMark[p.dest[2]] /\ p.dest[2] \in StateNames
        BY <3>2, PathOfTwo DEF StateImport, StateFile, Beside
      <4>2. CardPath(l)[2] = "card"
        BY DEF CardPath
      <4>3. CardPath(l) # Beside(p.dest, RomMark)
        BY <4>1, <4>2, NamesDiffer
      <4> QED
        BY <1>3, <2>1, <3>2, <4>3 DEF StateImport, Lands
    <3> QED
      BY <3>1, <3>2, PlanKinds
  <2>3. HidesCard(l, Plan(l, archive, ctx), archive)
    BY <1>1, <1>2, <2>2 DEF HidesCard
  <2> QED
    BY <2>3, Context DEF Accepted, Preflight, PlanRefused
<1> QED
  BY <1>2, <1>3

LEMMA CardsFiledStep ==
  ASSUME IInv, [Next]_vars, clean, NEW p \in Player
  PROVE  CardsFit(library'[p])
<1>0. /\ LibraryInv /\ SetupInv /\ ArchiveInv /\ by \in Player /\ disc \in Disc
      /\ CardsFit(library[p])
  BY DEF IInv, TypeOK, CardsInv
<1>1. CASE library'[p] = library[p]
  BY <1>0, <1>1
<1>2. CASE phase = "dumping" /\ Dump /\ library' # library /\ p = by
  <2>0. /\ SentFit(archive) /\ Brings(archive, tree) /\ Restored
        /\ \A f \in DOMAIN tree : PerGame(f) => IsBrought(archive, tree, f) /\ Covered(tree, f)
    BY <1>2 DEF IInv, CardsInv, Restored
  <2>1. PICK files \in SUBSET Changed(tree, baseline, imports) :
           /\ \A f : f \in DOMAIN library'[by] <=> f \in DOMAIN library[by] \/ f \in files
           /\ \A f \in DOMAIN library'[by] :
                library'[by][f] = IF StateFile(f) /\ Beside(f, RomMark) \in Lone(files, f)
                                  THEN Untended(FiledBody(files, f)) ELSE FiledBody(files, f)
    BY <1>0, <1>2, Dumps
  \* What stands for the card of one game afterwards is the one of the archive.
  <2>2. ASSUME NEW f \in DOMAIN library'[by], PerGame(f)
        PROVE  \E m \in V1Of(archive) :
                 /\ m.path = f /\ m.body = library'[by][f]
                 /\ f \in DOMAIN tree /\ tree[f].body = library'[by][f]
    <3>1. library'[by][f] = FiledBody(files, f)
      BY <1>0, <2>1, <2>2, GameCard
    <3>2. CASE f \in files
      <4>1. f \in DOMAIN tree
        BY <1>2, <2>1, <3>2, ChangedKinds
      <4> QED
        BY <2>0, <2>2, <3>1, <3>2, <4>1 DEF IsBrought, FiledBody
    <3>3. CASE f \notin files
      <4>1. PICK m \in V1Of(archive) : m.path = f /\ m.body = library[by][f]
        BY <1>0, <1>2, <2>1, <3>3 DEF ArchiveInv
      <4> QED
        BY <2>0, <2>2, <3>1, <3>3, <4>1 DEF Brings, FiledBody
    <3> QED
      BY <3>2, <3>3
  <2>3. ASSUME NEW f \in DOMAIN library'[by], PerGame(f), NEW g \in DOMAIN library'[by],
               PerGame(g)
        PROVE  f = g
    BY <2>0, <2>2, <2>3 DEF SentFit
  <2>4. ASSUME NEW f \in DOMAIN library'[by], PerGame(f), CardPath(l) \in DOMAIN library'[by]
        PROVE  library'[by][f].marks \subseteq library'[by][CardPath(l)].marks
    <3> DEFINE card == CardPath(l)
    <3>1. library'[by][card] = FiledBody(files, card)
      BY <1>0, <2>1, <2>4, GameCard
    <3>2. PICK m \in V1Of(archive) :
            /\ m.path = f /\ m.body = library'[by][f]
            /\ f \in DOMAIN tree /\ tree[f].body = library'[by][f]
      BY <2>2, <2>4
    <3> HIDE DEF card
    <3>3. CASE card \in files
      <4>1. card \in DOMAIN tree
        BY <1>2, <2>1, <3>3, ChangedKinds
      <4> QED
        BY <2>0, <2>4, <3>1, <3>2, <3>3, <4>1 DEF Covered, FiledBody, card
    <3>4. CASE card \notin files
      <4>1. PICK o \in V1Of(archive) : o.path = card /\ o.body = library[by][card]
        BY <1>0, <1>2, <2>1, <2>4, <3>4 DEF ArchiveInv, card
      <4> QED
        BY <2>0, <2>4, <3>1, <3>2, <3>4, <4>1 DEF SentFit, FiledBody, card
    <3> QED
      BY <3>3, <3>4
  <2> QED
    BY <1>2, <2>3, <2>4 DEF CardsFit
<1>3. library' # library => phase = "dumping" /\ Dump
  BY LibraryKept, AfterDumping DEF vars, server
<1>4. CASE library' # library /\ p # by
  BY <1>0, <1>1, <1>3, <1>4, Dumps
<1> QED
  BY <1>1, <1>2, <1>3, <1>4

LEMMA CardsSentStep ==
  ASSUME IInv, [Next]_vars, clean, phase' # "idle"
  PROVE  SentFit(archive')
<1>1. CASE phase # "idle"
  BY <1>1, Carried DEF IInv, CardsInv
<1>2. ASSUME NEW p, NEW d, NEW extra, NEW age, Begins(p, d, extra, age)
      PROVE  SentFit(archive')
  <2>0. p \in Player /\ extra \in Extras
    BY <1>2 DEF Begins
  <2>1. CASE V1Of(archive') = V1Of(extra)
    <3>1. \A a, b \in V1Of(extra) : CardFile(a.path) /\ CardFile(b.path) => a = b
      BY <2>0, ExtrasAssumption
    <3>2. SetupInv /\ disc \in Disc
      BY DEF IInv, TypeOK
    <3>3. CardFile(CardPath(l)) /\ ~PerGame(CardPath(l))
      BY <3>2, Places
    <3> QED
      BY <2>1, <3>1, <3>3 DEF SentFit, CardFile
  <2>2. CASE \A m \in V1Of(archive') : \E f \in DOMAIN library[p] : m = FiledMember(p, age, f)
    <3>1. CardsFit(library[p])
      BY <2>0 DEF IInv, CardsInv
    <3>2. ASSUME NEW m \in V1Of(archive')
          PROVE  m.path \in DOMAIN library[p] /\ m.body = library[p][m.path]
                 /\ m = FiledMember(p, age, m.path)
      BY <2>2, MemberIs
    <3>3. ASSUME NEW a \in V1Of(archive'), NEW b \in V1Of(archive'), a.path = b.path
          PROVE  a = b
      BY <3>2, <3>3
    <3> QED
      BY <3>1, <3>2, <3>3 DEF SentFit, CardsFit
  <2> QED
    BY <1>2, <2>1, <2>2, Members
<1> QED
  BY <1>1, <1>2, NextSteps
  DEF Still, server, Clear, Write, Launch, LaunchFails, Save, Ends, EndsByItself, Exit, Dump

\* The tree has the card of one game that the archive brought, and no other, and
\* once the emulator is up a card is mounted that holds what that one does.
CardsLie(t, mounted) ==
  /\ Brings(archive, t)
  /\ \A f \in DOMAIN t : PerGame(f) =>
       IsBrought(archive, t, f) /\ Covered(t, f) /\ (mounted => CardPath(l) \in DOMAIN t)

LEMMA CardsLieStep ==
  ASSUME IInv, [Next]_vars, clean, Restored'
  PROVE  CardsLie(tree', phase' # "launching")
<1>0. /\ TreeInv /\ SetupInv /\ disc \in Disc /\ phase # "idle"
      /\ Restored => CardsLie(tree, phase # "launching")
  BY NextSteps DEF IInv, TypeOK, CardsInv, CardsLie, Restored, Still, server, Begins, Clear,
     Write, Launch, LaunchFails, Save, Ends, EndsByItself, Exit, Dump
<1>1. Serving /\ SentFit(archive)
  BY <1>0, InService DEF IInv, CardsInv
<1>2. ASSUME Restored, phase # "launching" \/ phase' = "launching",
             \A f : PerGame(f) => /\ f \in DOMAIN tree' <=> f \in DOMAIN tree
                                  /\ f \in DOMAIN tree => tree'[f].body = tree[f].body,
             CardPath(l) \in DOMAIN tree => CardPath(l) \in DOMAIN tree',
             \A f \in DOMAIN tree' : PerGame(f) => Covered(tree', f)
      PROVE  CardsLie(tree', phase' # "launching")
  BY <1>0, <1>2 DEF CardsLie, Brings, IsBrought
<1>3. CASE Write
  <2>0. phase' = "launching"
    BY <1>3, WritesAll DEF Restored
  <2>1. /\ \A w \in Writes(l, archive, ctx) :
              Aside(w.path) \/ (w.path \in DOMAIN tree' /\ tree'[w.path].body = w.body)
        /\ \A f \in DOMAIN tree' :
              \/ f \in DOMAIN tree /\ tree'[f] = tree[f] /\ Aside(f)
              \/ \E w \in Writes(l, archive, ctx) : w.path = f /\ tree'[f].body = w.body
    BY <1>3, <2>0, Landing
  <2>2. ASSUME NEW w \in Writes(l, archive, ctx), w.guard
        PROVE  w.m \in V1Of(archive) /\ w.m.path = w.path /\ w.m.body = w.body
    BY <1>1, <2>2, WriteForm DEF V1Write
  <2>3. ASSUME NEW m \in V1Of(archive), PerGame(m.path)
        PROVE  m.path \in DOMAIN tree' /\ tree'[m.path].body = m.body
    <3> DEFINE w == [path |-> m.path, body |-> m.body, stamp |-> m.stamp, guard |-> TRUE, m |-> m]
    <3>1. V1Write(w, m) /\ w.path = m.path /\ w.body = m.body
      BY DEF V1Write
    <3> HIDE DEF w
    <3>2. w \in Writes(l, archive, ctx)
      BY <3>1, WriteKinds
    <3> QED
      BY <1>0, <2>1, <2>3, <3>1, <3>2, GameCard DEF Aside
  <2>4. ASSUME NEW f \in DOMAIN tree', PerGame(f)
        PROVE  IsBrought(archive, tree', f) /\ Covered(tree', f)
    <3>1. PICK w \in Writes(l, archive, ctx) : w.path = f /\ tree'[f].body = w.body
      BY <1>0, <2>1, <2>4, GameCard DEF Aside
    <3>2. w.guard
      BY <1>1, <2>4, <3>1, WriteForm, BroughtNames
    <3>3. w.m \in V1Of(archive) /\ w.m.path = f /\ w.m.body = tree'[f].body
      BY <2>2, <3>1, <3>2
    <3>4. ASSUME CardPath(l) \in DOMAIN tree'
          PROVE  tree'[f].body.marks \subseteq tree'[CardPath(l)].body.marks
      <4>1. PICK v \in Writes(l, archive, ctx) :
              v.path = CardPath(l) /\ tree'[CardPath(l)].body = v.body
        BY <1>0, <2>1, <2>4, <3>4, GameCard DEF Aside
      <4>2. v.guard
        BY <1>1, <2>4, <3>3, <4>1, GameCardSent
      <4>3. v.m \in V1Of(archive) /\ v.m.path = CardPath(l) /\ v.m.body = v.body
        BY <2>2, <4>1, <4>2
      <4> QED
        BY <1>1, <2>4, <3>3, <4>1, <4>3 DEF SentFit
    <3> QED
      BY <3>3, <3>4 DEF IsBrought, Covered
  <2> QED
    BY <2>0, <2>3, <2>4 DEF CardsLie, Brings
<1>4. CASE Launch
  <2>0. Restored /\ phase = "launching"
    BY <1>4 DEF Launch, Restored
  <2>1. CASE ~(\E f \in DOMAIN tree : PerGame(f))
    <3>1. ~NeedsCard /\ tree' = tree
      BY <1>4, <2>1 DEF NeedsCard, OldCards, Launch
    <3> QED
      BY <1>0, <2>0, <2>1, <3>1 DEF CardsLie
  <2>2. CASE \E f \in DOMAIN tree : PerGame(f)
    <3>1. PICK f \in DOMAIN tree : PerGame(f)
      BY <2>2
    <3>2. PICK m \in V1Of(archive) : m.path = f /\ m.body = tree[f].body
      BY <1>0, <2>0, <3>1 DEF CardsLie, IsBrought
    <3>3. l = "duckstation" /\ OldCards # {}
      BY <1>1, <3>1, <3>2, GameCardSent DEF OldCards
    <3>4. \A g \in DOMAIN tree : PerGame(g) => g = f
      BY <1>0, <1>1, <2>0, <3>1, <3>2 DEF CardsLie, IsBrought, SentFit
    <3>5. CASE NeedsCard
      <4>1. IsPut(tree', tree, CardPath(l), tree[Newest(OldCards)].body, ctx.when + Delay)
        BY <1>4, <3>5 DEF Launch, IsPut
      <4>2. Newest(OldCards) = f
        BY <1>0, <3>3, <3>4, OldestCard DEF OldCards
      <4>3. CardPath(l) \in DOMAIN tree' /\ tree'[CardPath(l)].body = tree[f].body
        BY <4>1, <4>2, PutIs, EntryIs
      <4>4. CardPath(l) # f
        BY <1>0, <3>1, GameCard
      <4>5. /\ f \in DOMAIN tree' /\ tree'[f] = tree[f]
            /\ \A g \in DOMAIN tree' : PerGame(g) => g = f
        BY <1>0, <3>1, <3>4, <4>1, <4>4, PutIs, GameCard
      <4>6. Brings(archive, tree')
        BY <1>0, <2>0, <3>4, <4>5 DEF CardsLie, Brings
      <4>7. IsBrought(archive, tree', f) /\ Covered(tree', f)
        BY <3>2, <4>3, <4>5 DEF IsBrought, Covered
      <4> QED
        BY <4>3, <4>5, <4>6, <4>7 DEF CardsLie
    <3>6. CASE ~NeedsCard
      <4>1. tree' = tree /\ CardPath(l) \in DOMAIN tree
        BY <1>4, <3>3, <3>6 DEF Launch, NeedsCard
      <4> QED
        BY <1>0, <2>0, <4>1 DEF CardsLie
    <3> QED
      BY <3>5, <3>6
  <2> QED
    BY <2>1, <2>2
<1>5. CASE Save
  <2> DEFINE card == CardPath(l)
             had == IF card \in DOMAIN tree THEN tree[card].body.marks ELSE {}
  <2>0. Restored /\ phase = "playing"
    BY <1>5 DEF Save, Restored
  <2>1. IsPut(tree', tree, card, CardWith(had \cup {Mark}), baseline)
    BY <1>5 DEF Save, IsPut
  <2>2. \A f : PerGame(f) => f # card
    BY <1>0, GameCard
  <2>3. \A f \in DOMAIN tree : PerGame(f) => tree[f].body.marks \subseteq had
    BY <1>0, <2>0 DEF CardsLie, Covered
  <2> HIDE DEF card, had
  <2>4. card \in DOMAIN tree' /\ tree'[card].body.marks = had \cup {Mark}
    BY <2>1, PutIs, EntryIs DEF CardWith
  <2>5. \A f : f # card => /\ f \in DOMAIN tree' <=> f \in DOMAIN tree
                           /\ f \in DOMAIN tree => tree'[f] = tree[f]
    BY <2>1, PutIs
  <2>6. \A f \in DOMAIN tree' : PerGame(f) => Covered(tree', f)
    BY <2>2, <2>3, <2>4, <2>5 DEF Covered, card
  <2> QED
    BY <1>2, <2>0, <2>2, <2>4, <2>5, <2>6 DEF card
<1>6. CASE Ends
  <2>0. Restored /\ phase = "playing" /\ baseline \in Nat
    BY <1>6, Counts DEF Ends, EndsByItself, Exit, Restored
  <2>1. \A f : PerGame(f) => f \notin {TheState, TheMark, TheUntrusted, TheAside}
    BY <1>0, GameCard
  <2>2. CardPath(l) \notin {TheState, TheMark, TheUntrusted, TheAside}
    BY <1>0, Places, FourPaths
  <2>3. ASSUME NEW f, f \notin {TheState, TheMark, TheUntrusted, TheAside}
        PROVE  /\ f \in DOMAIN tree' <=> f \in DOMAIN tree
               /\ f \in DOMAIN tree => tree'[f] = tree[f]
    <3>1. CASE UNCHANGED tree
      BY <3>1
    <3>2. CASE LeavesUnsettled
      BY <2>3, <3>2 DEF LeavesUnsettled
    <3>3. CASE LeavesMarked
      BY <2>3, <3>3 DEF LeavesMarked
    <3>4. CASE SetsAside
      BY <2>3, <3>4 DEF SetsAside
    <3>5. CASE SetsBothAside
      BY <2>3, <3>5 DEF SetsBothAside
    <3> QED
      BY <1>0, <1>6, <2>0, <3>1, <3>2, <3>3, <3>4, <3>5, EndKinds
  <2>4. \A f \in DOMAIN tree' : PerGame(f) => Covered(tree', f)
    BY <1>0, <2>0, <2>1, <2>2, <2>3 DEF CardsLie, Covered
  <2> QED
    BY <1>2, <2>0, <2>1, <2>2, <2>3, <2>4
<1>7. CASE Still
  <2>1. tree' = tree /\ phase' = phase
    BY <1>7 DEF Still, server
  <2> QED
    BY <1>0, <2>1 DEF Restored
<1> QED
  BY <1>3, <1>4, <1>5, <1>6, <1>7, NextSteps DEF Begins, Clear, LaunchFails, Dump, Restored

LEMMA CardsStep == ASSUME IInv, [Next]_vars PROVE CardsInv'
<1> SUFFICES ASSUME clean' PROVE CardsInv'
  BY DEF CardsInv
<1>1. clean /\ l' = l
  BY CleanBefore, SetupStep DEF l
<1>2. \A p \in Player : CardsFit(library'[p])
  BY <1>1, CardsFiledStep
<1>3. phase' # "idle" => SentFit(archive')
  BY <1>1, CardsSentStep
<1>4. Restored' => archive' = archive /\ CardsLie(tree', phase' # "launching")
  <2>1. ASSUME Restored' PROVE archive' = archive
    <3>1. phase # "idle" /\ phase' # "idle"
      BY <2>1, NextSteps DEF Restored, Still, server, Begins, Clear, Write, Launch, LaunchFails,
         Save, Ends, EndsByItself, Exit, Dump
    <3> QED
      BY <3>1, Carried
  <2> QED
    BY <1>1, <2>1, CardsLieStep
<1> QED
  BY <1>1, <1>2, <1>3, <1>4
  DEF CardsInv, CardsFit, SentFit, CardsLie, Brings, IsBrought, Covered, Restored

\* At the launch, a card that came with the archive is where the emulator mounts it
\* or in what is, or is the one old card there is, and nothing is mounted yet.
LEMMA CardsCame ==
  ASSUME IInv, clean, phase = "launching", NEW m \in archive, m.body.is = "card"
  PROVE  \/ /\ CardPath(l) \in DOMAIN tree
            /\ m.body.marks \subseteq tree[CardPath(l)].body.marks
         \/ /\ NeedsCard /\ OldCards = {m.path} /\ tree[m.path].body = m.body
<1> DEFINE card == CardPath(l)
<1>0. /\ Serving /\ TreeInv /\ ArchiveInv /\ SetupInv /\ disc \in Disc
      /\ \A w \in Writes(l, archive, ctx) :
           Aside(w.path) \/ (w.path \in DOMAIN tree /\ tree[w.path].body = w.body)
      /\ \A f \in DOMAIN tree : Aside(f) \/ \E w \in Writes(l, archive, ctx) : w.path = f
  BY InService DEF IInv, LandedInv, TypeOK
<1>1. /\ ~Quarantined(card) /\ card[2] = "card" /\ ~PerGame(card) /\ ~StateFile(card)
      /\ CardFile(card) /\ l \in Launchers /\ card[2] \notin StateNames \cup ImageOf(RomMark)
  <2>1. card[2] = "card"
    BY DEF CardPath
  <2>2. card[2] \notin StateNames \cup ImageOf(RomMark)
    BY <2>1, NamesDiffer DEF ImageOf, StateNames
  <2> QED
    BY <1>0, <2>1, <2>2, Places, AsideNames DEF SetupInv, l
<1> HIDE DEF card
<1>2. ASSUME NEW w \in Writes(l, archive, ctx), w.path = card
      PROVE  card \in DOMAIN tree /\ tree[card].body = w.body
  BY <1>0, <1>1, <1>2 DEF Aside
<1>3. CASE m.import
  <2>1. m \in ImportsOf(archive) /\ WellFormed(m)
    BY <1>0, <1>3 DEF ImportsOf, V1Of, ArchiveInv, Serving
  <2>2. Placed(l, m, ctx) # {}
    BY <1>0, <2>1, Context DEF Accepted, Preflight
  <2>3. PICK p : p \in Placed(l, m, ctx)
    BY <2>2
  <2>4. p.m = m
    BY <2>3 DEF Placed
  <2>5. p \in Plan(l, archive, ctx)
    BY <2>1, <2>3 DEF Plan
  <2>6. CardImport(p)
    BY <1>0, <1>3, <2>1, <2>4, <2>5, PlanKinds DEF StateImport, WellFormed
  <2>7. Imported(l, p.m, ctx) = m.body /\ p.dest = card
    BY <1>0, <2>4, <2>5, <2>6, ImportedBody DEF CardImport, card
  <2>8. PICK w \in Writes(l, archive, ctx) : w.path = card /\ w.body = m.body
    <3> DEFINE w == [path |-> p.dest, body |-> Imported(l, p.m, ctx), stamp |-> ctx.when,
                     guard |-> FALSE, m |-> p.m]
    <3>1. ImportWrite(w, p) /\ w.path = p.dest /\ w.body = Imported(l, p.m, ctx)
      BY DEF ImportWrite
    <3> HIDE DEF w
    <3>2. w \in Writes(l, archive, ctx)
      BY <2>5, <3>1, WriteKinds
    <3> QED
      BY <2>7, <3>1, <3>2
  <2> QED
    BY <1>2, <2>8 DEF card
<1>4. CASE ~m.import
  <2>1. m \in V1Of(archive) /\ WellFormed(m) /\ CardFile(m.path) /\ IsPath(m.path)
    BY <1>0, <1>4 DEF V1Of, ArchiveInv, Serving, WellFormed
  <2>2. m.path[1] \in Subtrees(l) /\ Below(m.path, <<m.path[1]>>)
    BY <1>0, <2>1, V1Passed, V1Below
  <2>3. PICK own \in Writes(l, archive, ctx) : own.path = m.path /\ own.body = m.body
    <3> DEFINE rec == [path |-> m.path, body |-> m.body, stamp |-> m.stamp, guard |-> TRUE, m |-> m]
    <3>1. V1Write(rec, m) /\ rec.path = m.path /\ rec.body = m.body
      BY DEF V1Write
    <3> HIDE DEF rec
    <3>2. rec \in Writes(l, archive, ctx)
      BY <2>1, <3>1, WriteKinds
    <3> QED
      BY <3>1, <3>2
  <2>4. CASE ~PerGame(m.path)
    <3>1. PICK x \in Launchers : m.path = CardPath(x)
      BY <2>1, <2>4 DEF CardFile
    <3>2. x = "duckstation" => m.path[1] = "memcards"
      BY <3>1 DEF CardPath
    <3>3. x # "duckstation" => m.path[1] = "data"
      BY <3>1 DEF CardPath
    <3>4. l = "duckstation" => m.path[1] \in {"memcards", "savestates"}
      BY <2>2 DEF Subtrees
    <3>5. l # "duckstation" => m.path[1] = "data"
      BY <2>2 DEF Subtrees
    <3>6. m.path = card
      BY <1>1, <3>1, <3>2, <3>3, <3>4, <3>5 DEF Launchers, card
    <3> QED
      BY <1>2, <2>3, <3>6 DEF card
  <2>5. CASE PerGame(m.path)
    <3>1. SentFit(archive) /\ CardsLie(tree, FALSE)
      BY DEF IInv, CardsInv, CardsLie, Restored
    <3>2. m.path \in DOMAIN tree /\ tree[m.path].body = m.body
      BY <2>1, <2>5, <3>1 DEF CardsLie, Brings
    <3>3. CASE card \in DOMAIN tree
      BY <2>5, <3>1, <3>2, <3>3 DEF CardsLie, Covered, card
    <3>4. CASE card \notin DOMAIN tree
      <4>1. l = "duckstation"
        BY <1>0, <2>1, <2>5, GameCardSent
      <4>2. \A f \in DOMAIN tree : PerGame(f) => f = m.path
        BY <2>1, <2>5, <3>1 DEF CardsLie, IsBrought, SentFit
      <4>3. OldCards = {m.path}
        BY <2>5, <3>2, <4>2 DEF OldCards
      <4> QED
        BY <3>2, <3>4, <4>1, <4>3 DEF NeedsCard, card
    <3> QED
      BY <3>3, <3>4 DEF card
  <2> QED
    BY <2>4, <2>5
<1> QED
  BY <1>3, <1>4

LEMMA CardStep == ASSUME IInv, [Next]_vars PROVE CardInv'
<1>0. CardInv /\ TreeInv /\ SetupInv /\ disc \in Disc
  BY DEF IInv, TypeOK
<1> SUFFICES ASSUME clean', phase' = "playing", NEW m \in archive', m.body.is = "card"
             PROVE  /\ CardPath(l)' \in DOMAIN tree'
                    /\ m.body.marks \subseteq tree'[CardPath(l)'].body.marks
  BY DEF CardInv
<1>1. clean
  BY CleanBefore
<1>2. CASE Launch
  <2>1. phase = "launching"
    BY <1>2 DEF Launch
  <2>2. archive' = archive /\ CardPath(l)' = CardPath(l)
    BY <2>1, Carried, BroughtSame
  <2>3. CASE ~NeedsCard
    <3>1. tree' = tree
      BY <1>2, <2>3 DEF Launch
    <3>2. CardPath(l) \in DOMAIN tree /\ m.body.marks \subseteq tree[CardPath(l)].body.marks
      BY <1>1, <2>1, <2>2, <2>3, CardsCame
    <3> QED
      BY <2>2, <3>1, <3>2
  <2>4. CASE NeedsCard
    <3> DEFINE old == Newest(OldCards)
    <3>1. IsPut(tree', tree, CardPath(l), tree[old].body, ctx.when + Delay)
      BY <1>2, <2>4 DEF Launch, IsPut
    <3>2. old \in OldCards
      BY <1>0, <2>4, OldestCard DEF NeedsCard
    <3>3. OldCards = {m.path} /\ tree[m.path].body = m.body
      BY <1>1, <2>1, <2>2, <2>4, CardsCame DEF NeedsCard
    <3> HIDE DEF old
    <3>4. tree[old].body = m.body
      BY <3>2, <3>3
    <3>5. CardPath(l) \in DOMAIN tree' /\ tree'[CardPath(l)].body = tree[old].body
      BY <3>1, PutIs, EntryIs
    <3> QED
      BY <2>2, <3>4, <3>5
  <2> QED
    BY <2>3, <2>4
<1>3. ASSUME phase = "playing"
      PROVE  /\ archive' = archive /\ CardPath(l)' = CardPath(l)
             /\ CardPath(l) \in DOMAIN tree /\ m.body.marks \subseteq tree[CardPath(l)].body.marks
  <2>1. archive' = archive /\ CardPath(l)' = CardPath(l)
    BY <1>3, Carried, BroughtSame
  <2> QED
    BY <1>0, <1>1, <1>3, <2>1 DEF CardInv
<1>4. CASE Still
  BY <1>3, <1>4 DEF Still, server
<1>5. CASE Save
  <2> DEFINE card == CardPath(l)
             had == IF card \in DOMAIN tree THEN tree[card].body.marks ELSE {}
  <2>1. IsPut(tree', tree, card, CardWith(had \cup {Mark}), baseline) /\ phase = "playing"
    BY <1>5 DEF Save, IsPut
  <2>2. m.body.marks \subseteq had /\ card' = card
    BY <1>3, <2>1
  <2> HIDE DEF had
  <2>3. CardWith(had \cup {Mark}).marks = had \cup {Mark}
    BY DEF CardWith
  <2>4. card \in DOMAIN tree' /\ tree'[card].body = CardWith(had \cup {Mark})
    BY <2>1, PutIs, EntryIs
  <2> QED
    BY <2>2, <2>3, <2>4
<1>6. CASE Ends
  <2>1. phase = "playing" /\ baseline \in Nat
    BY <1>6, Counts DEF Ends, EndsByItself, Exit
  <2>2. CardPath(l) # TheState
    BY <1>0, Places, FourPaths
  <2>3. UNCHANGED <<tree, wrote>> \/ LeavesUnsettled
    BY <1>0, <1>6, <2>1, EndKinds
  <2>4. CardPath(l) \in DOMAIN tree /\ m.body.marks \subseteq tree[CardPath(l)].body.marks
        /\ CardPath(l)' = CardPath(l)
    BY <1>3, <2>1
  <2> QED
    BY <2>2, <2>3, <2>4 DEF LeavesUnsettled
<1> QED
  BY <1>2, <1>4, <1>5, <1>6, NextSteps, WritesAll DEF Begins, Clear, LaunchFails, Dump

-----------------------------------------------------------------------------
(* The restore, and the resume.                                               *)

LEMMA RestoreStep == ASSUME IInv, [Next]_vars PROVE RestoreHonest'
<1>0. /\ RestoreHonest /\ OwnInv /\ TreeInv /\ setup' = setup /\ LandedInv'
  BY SetupStep, LandedStep DEF IInv
<1>1. outcome' = "lost" /\ clean' => setup'.locked # {}
  <2> SUFFICES ASSUME outcome' = "lost", clean' PROVE setup.locked # {}
    BY <1>0
  <2>1. clean
    BY CleanBefore
  <2>2. CASE outcome' = outcome
    BY <1>0, <2>1, <2>2 DEF RestoreHonest
  <2>3. CASE Write
    <3>0. Serving /\ phase = "restoring"
      BY <2>3, InService DEF Write
    <3>1. \A f \in DOMAIN tree : Aside(f) /\ IsPath(f)
      BY <1>0, <2>1, <3>0 DEF OwnInv, TreeInv, Fits
    <3>2. \/ outcome' = outcome
          \/ \E w \in Writes(l, archive, ctx) :
               CannotWrite(w, Writes(l, archive, ctx), tree, setup.linked, setup.locked)
      BY <2>3, WritesAll
    <3> QED
      BY <2>2, <3>0, <3>1, <3>2, WritesGoThrough
  <2>4. CASE Clear
    BY <2>2, <2>4 DEF Clear
  <2>5. CASE Ends
    BY <2>2, <2>5 DEF Ends, EndsByItself, Exit
  <2> QED
    BY <2>2, <2>3, <2>4, <2>5, NextSteps DEF Still, Begins, Launch, LaunchFails, Save, Dump
<1>2. phase' = "launching" /\ clean' =>
        \A w \in Writes(l', archive', ctx') :
          (Len(w.path) = 2 /\ Quarantined(w.path)) \/ tree'[w.path].body = w.body
  BY <1>0 DEF LandedInv, Aside
<1> QED
  BY <1>1, <1>2 DEF RestoreHonest

\* What may be resumed from, if it is settled, is whole and of the disc.
LEMMA ResumableSettled ==
  ASSUME IInv, clean, phase = "launching", NEW f \in Resumable
  PROVE  tree[f].body.tended => tree[f].body.whole /\ tree[f].body.disc = disc
<1>0. TreeInv /\ disc \in Disc
  BY DEF IInv, TypeOK
<1> DEFINE states == {x \in DOMAIN tree : StateFile(x)}
           owned == {x \in states : Owner(x) = disc}
<1>1. f \in states /\ Owner(f) \in {disc, "none"}
  <2>1. CASE l = "flycast"
    BY <2>1 DEF Resumable
  <2>2. CASE l # "flycast" /\ owned # {}
    <3>1. f = Newest(owned)
      BY <2>2 DEF Resumable
    <3>2. Newest(owned) \in owned
      BY <1>0, <2>2, NewestState
    <3> QED
      BY <3>1, <3>2
  <2>3. CASE l # "flycast" /\ owned = {}
    BY <2>3 DEF Resumable
  <2> QED
    BY <2>1, <2>2, <2>3
<1>2. Settled(tree, f)
  BY <1>1, SettledParts DEF IInv, Restored
<1> SUFFICES ASSUME tree[f].body.tended PROVE tree[f].body.whole /\ tree[f].body.disc = disc
  OBVIOUS
<1>3. /\ tree[f].body.whole /\ Beside(f, RomMark) \in DOMAIN tree
      /\ tree[Beside(f, RomMark)].body.disc = tree[f].body.disc
  BY <1>1, <1>2 DEF Settled
<1>4. Owner(f) = tree[f].body.disc
  BY <1>3 DEF Owner
<1>5. tree[f].body.disc # "none"
  <2>1. tree[f].body.disc \in Disc \cup {"another", "any"}
    BY <1>0, <1>1 DEF TreeInv, Body
  <2> QED
    BY <2>1, CycleAssumption
<1> QED
  BY <1>1, <1>3, <1>4, <1>5

LEMMA ResumesStep == ASSUME IInv, [Next]_vars PROVE ResumesSafely'
<1> SUFFICES ASSUME clean', resumed' # NoBody, resumed'.tended
             PROVE  resumed'.whole /\ resumed'.disc = disc'
  BY DEF ResumesSafely, NoBody
<1>1. clean
  BY CleanBefore
<1>2. CASE resumed' = resumed /\ disc' = disc
  BY <1>1, <1>2 DEF IInv, ResumesSafely
<1>3. CASE Launch
  <2>1. phase = "launching" /\ disc' = disc /\ Resumable # {}
        /\ resumed' = tree[CHOOSE f \in Resumable : TRUE].body
    BY <1>3 DEF Launch
  <2>2. (CHOOSE f \in Resumable : TRUE) \in Resumable
    BY <2>1
  <2> QED
    BY <1>1, <2>1, <2>2, ResumableSettled
<1>4. CASE Write
  BY <1>2, <1>4, WritesAll DEF Forgotten
<1>5. CASE Ends
  BY <1>2, <1>5 DEF Ends, EndsByItself, Exit
<1> QED
  BY <1>2, <1>3, <1>4, <1>5, NextSteps
  DEF Still, server, Begins, Clear, LaunchFails, Save, Dump, Forgotten

-----------------------------------------------------------------------------
(* The theorems.                                                              *)

LEMMA IInvInit == Init => IInv
<1> SUFFICES ASSUME Init PROVE IInv
  OBVIOUS
<1>1. /\ tree = <<>> /\ DOMAIN tree = {} /\ phase = "idle" /\ outcome = "none"
      /\ resumed = NoBody /\ wrote = {} /\ clean = TRUE /\ faults = 0 /\ sessions = 0
      /\ proc = "down" /\ by = First(Player) /\ disc = First(Disc)
      /\ library = [p \in Player |-> <<>>]
  BY DEF Init
<1>2. SetupInv
  BY DEF Init, Setups, SetupInv
<1>3. TypeOK
  BY <1>1, <1>2, SomeOne, CycleAssumption DEF TypeOK, SetupInv
<1>4. \A p \in Player : DOMAIN library[p] = {}
  BY <1>1
<1>5. LibraryInv
  BY <1>1, <1>4 DEF LibraryInv
<1>6. TreeInv /\ ArchiveInv /\ StampInv /\ WroteInv /\ CardInv /\ LandedInv /\ RestoreHonest
      /\ ResumesSafely
  BY <1>1 DEF TreeInv, ArchiveInv, StampInv, WroteInv, CardInv, LandedInv, RestoreHonest,
     ResumesSafely
<1>7. OwnInv /\ SettledInv /\ CardsInv
  BY <1>1, <1>4 DEF OwnInv, SettledInv, CardsInv, CardsFit, Restored
<1> QED
  BY <1>2, <1>3, <1>5, <1>6, <1>7 DEF IInv

LEMMA IInvNext == IInv /\ [Next]_vars => IInv'
<1> SUFFICES ASSUME IInv, [Next]_vars PROVE IInv'
  OBVIOUS
<1>1. TypeOK' /\ SetupInv' /\ TreeInv' /\ LibraryInv'
  BY TypeStep, SetupStep, TreeStep, LibraryStep
<1>2. ArchiveInv' /\ StampInv' /\ WroteInv' /\ OwnInv'
  BY ArchiveStep, StampStep, WroteStep, OwnStep
<1>3. SettledInv' /\ CardsInv' /\ CardInv' /\ LandedInv' /\ RestoreHonest' /\ ResumesSafely'
  BY SettledStep, CardsStep, CardStep, LandedStep, RestoreStep, ResumesStep
<1> QED
  BY <1>1, <1>2, <1>3 DEF IInv

\* The inductive invariant: whose every file is and how old, in the tree, the archive and
\* what RomM has filed, and which states are settled (saves.py, imports.py and the two
\* launchers together).
THEOREM IInvHolds == Spec => []IInv
  BY IInvInit, IInvNext, PTL DEF Spec

\* Whatever is in the tree and in the archives, an activate that emptied the working
\* slot writes every member where it belongs, or the disk failed, or an imported state
\* has a name that fits and a staging name that does not (saves.plan_v1 and
\* imports.preflight refuse the rest before anything is cleared).
THEOREM RestoreHonestHolds == Spec => []RestoreHonest
<1>1. IInv => RestoreHonest
  BY DEF IInv
<1> QED
  BY <1>1, IInvHolds, PTL

\* No player's progress reaches another player's files through the pooled container,
\* and the memory card a session plays on holds what its archive brought.
THEOREM ProgressKeptHolds == Spec => []ProgressKept
<1>1. IInv => ProgressKept
  BY DEF IInv, OwnInv, Own, CardInv, ProgressKept
<1> QED
  BY <1>1, IInvHolds, PTL

\* The emulator never resumes from a state an exit settled that is torn or of another
\* disc: the marker beside it is shipped, filed, restored and looked at with it.
THEOREM SessionSoundHolds == Spec => []SessionSound
<1>1. IInv => SessionSound
  BY DEF IInv, SessionSound
<1> QED
  BY <1>1, IInvHolds, PTL

\* A dump ships or names everything the session wrote or imported, or says it failed;
\* and nothing else but a card it carried over, the marker of a state it set aside, and
\* what the archive dates to the last seconds before the launch.
THEOREM ShipsTheSessionHolds == Spec => ShipsTheSession
<1>1. ASSUME IInv, Next, phase = "dumping" PROVE DumpHonest \/ UNCHANGED vars
  <2> DEFINE changed == Changed(tree, baseline, imports)
  <2>1. CASE Dump /\ \E skipped \in MayFail(changed) :
                       report' = [shipped |-> changed \ skipped, skipped |-> skipped,
                                  error |-> changed # {} /\ changed = skipped]
    <3>1. PICK skipped \in MayFail(changed) :
            report' = [shipped |-> changed \ skipped, skipped |-> skipped,
                       error |-> changed # {} /\ changed = skipped]
      BY <2>1
    <3>2. report'.shipped \cup report'.skipped = changed
      <4>1. report'.shipped = changed \ skipped /\ report'.skipped = skipped
        BY <3>1
      <4>2. skipped \subseteq changed
        BY MayFailIn
      <4> QED
        BY <4>1, <4>2
    <3>3. wrote \cup (imports \cap DOMAIN tree) \subseteq changed
      BY <1>1 DEF IInv, WroteInv, Changed
    <3>4. baseline = Restore + Delay /\ ctx.when = Restore
      BY <1>1, InService, Context DEF IInv, StampInv
    <3>5. \A f \in changed \ (wrote \cup imports) :
            \/ f = CardPath(l) /\ OldCards # {}
            \/ f[2] \in ImageOf(AsideMark)
            \/ \E m \in V1Of(archive) :
                 m.path = f /\ m.stamp + BaseSlack >= baseline /\ m.stamp <= ctx.when
      BY <1>1, <3>4, ChangedKinds DEF Dated
    <3> HIDE DEF changed
    <3> QED
      BY <3>2, <3>3, <3>5 DEF DumpHonest
  <2>2. CASE report' = [NoReport EXCEPT !.error = TRUE]
    <3>1. report'.shipped = {} /\ report'.skipped = {} /\ report'.error
      BY <2>2 DEF NoReport
    <3> QED
      BY <3>1 DEF DumpHonest
  <2>3. CASE Dump
    BY <2>1, <2>2, <2>3 DEF Dump
  <2> QED
    BY <1>1, <2>3, AfterDumping
<1>2. IInv /\ [Next]_vars => [phase = "dumping" => DumpHonest]_vars
  BY <1>1
<1> QED
  BY <1>2, IInvHolds, PTL DEF Spec, ShipsTheSession
=============================================================================
