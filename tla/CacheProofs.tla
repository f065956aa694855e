---------------------------- MODULE CacheProofs ----------------------------
(* Theorems about the two caches a launch boots from, each with a folder per  *)
(* game, a limit it evicts under and entries a dying broker may leave half    *)
(* done: RomCache, for any ROMs, versions and limits, and ExtractionCache,    *)
(* for any archives, files and cap.  They share no state.                     *)
EXTENDS RomCache, ExtractionCache, Integers, FunctionTheorems, FiniteSetTheorems, TLAPS

-----------------------------------------------------------------------------
(* ROM cache: the inductive invariant.                                        *)

Leq(a, b) == \A p \in Part : a[p] <= b[p]

\* The types the invariant needs (that of `order` is not one of them).
TypeInv ==
  /\ lib \in [Rom -> Fingerprint]
  /\ entry \in [Rom -> [parts : Parts, print : Parts]]
  /\ copy \in [pc : {"idle", "evict", "copy", "verify", "install", "swap", "done", "failed"},
               rom : Rom \cup {NoRom}, plan : Parts, got : Parts, ok : BOOLEAN]
  /\ launch \in [pc : {"idle", "planned", "missed", "joining"},
                 rom : Rom \cup {NoRom}, plan : Parts]
  /\ game \in [from : {"none", "library", "cache"}, rom : Rom \cup {NoRom},
               plan : Parts, got : Parts]

\* A dead broker leaves nothing running.
DownInv == ~up => launch = NoLaunch /\ copy = NoCopy /\ game = NoGame

\* What a launch planned is a version the library had.
LaunchInv ==
  /\ launch.pc = "idle" => launch = NoLaunch
  /\ launch.pc # "idle" =>
       /\ launch.rom \in Rom
       /\ launch.plan \in Fingerprint
       /\ Leq(launch.plan, lib[launch.rom])
       /\ game = NoGame

\* So is what a copy is made from, which comes from a launch no later than the one at work.
CopyInv ==
  copy.pc # "idle" =>
    /\ copy.rom \in Rom
    /\ copy.plan \in Fingerprint
    /\ Leq(copy.plan, lib[copy.rom])
    /\ ~copy.ok
    /\ launch.pc # "idle" /\ launch.rom = copy.rom => Leq(copy.plan, launch.plan)

\* What was copied lies between the plan and the library, and what is installed is the plan.
GotInv ==
  /\ copy.pc \in {"evict", "copy", "verify"} =>
       \A p \in Part : copy.got[p] # Gone =>
         copy.plan[p] <= copy.got[p] /\ copy.got[p] <= lib[copy.rom][p]
  /\ copy.pc = "verify" => \A p \in Part : copy.got[p] # Gone
  /\ copy.pc \in {"install", "swap"} => copy.got = copy.plan

\* An entry is what its manifest says, and no newer than any launch or copy at work.
EntryInv ==
  \A r \in Rom : entry[r] # NoEntry =>
    /\ entry[r].parts = entry[r].print
    /\ entry[r].print \in Fingerprint
    /\ Leq(entry[r].print, lib[r])
    /\ copy.pc # "idle" /\ copy.rom = r => Leq(entry[r].print, copy.plan)
    /\ launch.pc # "idle" /\ launch.rom = r => Leq(entry[r].print, launch.plan)

\* A launch that joins a copy joins its own.
JoinInv ==
  /\ copy.ok => launch.pc = "joining"
  /\ launch.pc = "joining" =>
       /\ copy.pc # "idle" => copy.rom = launch.rom /\ copy.plan = launch.plan
       /\ copy.ok \/ copy.pc = "done" =>
            entry[launch.rom].parts = launch.plan

\* A game that runs from its entry was planned at the version of any copy still at work.
GameInv ==
  game.from = "cache" =>
    /\ game.rom \in Rom
    /\ active = game.rom
    /\ game.plan \in Fingerprint
    /\ game.got = game.plan
    /\ entry[game.rom] # NoEntry => entry[game.rom].parts = game.plan
    /\ copy.pc # "idle" /\ copy.rom = game.rom => copy.plan = game.plan

CacheInv ==
  TypeInv /\ DownInv /\ LaunchInv /\ CopyInv /\ GotInv /\ EntryInv /\ JoinInv /\ GameInv

-----------------------------------------------------------------------------
LEMMA Versions ==
  /\ MaxVersion \in Nat /\ Gone \in Nat /\ Gone \notin 0 .. MaxVersion
  /\ Fingerprint \subseteq Parts
  /\ NoPlan \in Parts /\ NoPlan \notin Fingerprint
  /\ NoRom \notin Rom
<1>1. PICK p \in Part : TRUE
  BY RomCacheAssumption
<1>2. Gone \in Nat /\ Gone \notin 0 .. MaxVersion /\ 0 .. MaxVersion \subseteq 0 .. Gone
  BY RomCacheAssumption DEF Gone
<1>3. NoPlan \in Parts
  BY <1>2 DEF NoPlan, Parts
<1>4. NoPlan \notin Fingerprint
  BY <1>1, <1>2 DEF NoPlan, Fingerprint
<1>5. Fingerprint \subseteq Parts
  BY <1>2 DEF Fingerprint, Parts
<1> QED
  BY <1>2, <1>3, <1>4, <1>5, RomCacheAssumption

LEMMA LeqTrans ==
  ASSUME NEW a \in Parts, NEW b \in Parts, NEW c \in Parts, Leq(a, b), Leq(b, c)
  PROVE  Leq(a, c)
<1> SUFFICES ASSUME NEW p \in Part PROVE a[p] <= c[p]
  BY DEF Leq
<1> a[p] \in Int /\ b[p] \in Int /\ c[p] \in Int
  BY Versions DEF Parts
<1> a[p] <= b[p] /\ b[p] <= c[p]
  BY DEF Leq
<1> QED
  OBVIOUS

LEMMA LeqAntisym ==
  ASSUME NEW a \in Parts, NEW b \in Parts, Leq(a, b), Leq(b, a)
  PROVE  a = b
<1> \A p \in Part : a[p] \in Int /\ b[p] \in Int /\ a[p] <= b[p] /\ b[p] <= a[p]
  BY Versions DEF Parts, Leq
<1> \A p \in Part : a[p] = b[p]
  OBVIOUS
<1> QED
  BY DEF Parts

LEMMA LeqRefl == ASSUME NEW a \in Parts PROVE Leq(a, a)
<1> \A p \in Part : a[p] \in Int
  BY Versions DEF Parts
<1> QED
  BY DEF Leq

LEMMA LibraryGrows ==
  ASSUME TypeInv, NEW r \in Rom, NEW p \in Part, LibraryChanges(r, p),
         NEW q \in Rom, NEW a \in Parts, Leq(a, lib[q])
  PROVE  Leq(a, lib'[q])
<1> SUFFICES ASSUME NEW x \in Part PROVE a[x] <= lib'[q][x]
  BY DEF Leq
<1>1. a[x] \in Int /\ lib[q][x] \in Int /\ a[x] <= lib[q][x]
  BY Versions DEF Parts, TypeInv, Fingerprint, Leq
<1>2. lib' = [lib EXCEPT ![r] = [lib[r] EXCEPT ![p] = lib[r][p] + 1]]
  BY DEF LibraryChanges, TypeInv, Fingerprint
<1>3. lib'[q][x] \in {lib[q][x], lib[q][x] + 1}
  BY <1>2 DEF TypeInv, Fingerprint
<1> QED
  BY <1>1, <1>3

LEMMA Initially == Init => CacheInv
<1> SUFFICES ASSUME Init PROVE CacheInv
  OBVIOUS
<1> USE Versions DEF Init
<1>1. (\A r \in Rom : lib[r] \in Fingerprint) /\ lib \in [Rom -> Fingerprint]
  BY RomCacheAssumption DEF Fingerprint
<1>2. TypeInv
  BY <1>1 DEF TypeInv, NoEntry, NoCopy, NoLaunch, NoGame
<1>3. LaunchInv /\ CopyInv /\ GotInv /\ JoinInv /\ GameInv /\ DownInv /\ EntryInv
  BY DEF LaunchInv, CopyInv, GotInv, JoinInv, GameInv, DownInv, EntryInv,
     NoCopy, NoLaunch, NoGame
<1> QED
  BY <1>2, <1>3 DEF CacheInv

-----------------------------------------------------------------------------
(* Every step keeps the invariant: first the types, then the rest.            *)
LEMMA TypeStep == CacheInv /\ Next => TypeInv'
<1> SUFFICES ASSUME CacheInv, Next PROVE TypeInv'
  OBVIOUS
<1> USE Versions
<1>0. TypeInv /\ LaunchInv /\ CopyInv
  BY DEF CacheInv
<1>1. ASSUME NEW r \in Rom, Plan(r) PROVE TypeInv'
  <2>1. lib[r] \in Parts
    BY <1>0, <1>1 DEF TypeInv
  <2> QED
    BY <1>0, <1>1, <2>1 DEF Plan, TypeInv, FromLibrary, NoGame
<1>2. CASE Check
  BY <1>0, <1>2 DEF Check, TypeInv, LaunchInv, NoLaunch
<1>3. CASE TakeSlot
  <2>1. launch' \in {NoLaunch, [launch EXCEPT !.pc = "joining"]}
    BY <1>3 DEF TakeSlot
  <2>2. game' \in {game, FromLibrary}
    BY <1>3 DEF TakeSlot
  <2>3. copy' \in {copy, [pc |-> "evict", rom |-> launch.rom, plan |-> launch.plan,
                          got |-> NoPlan, ok |-> FALSE]}
    BY <1>3 DEF TakeSlot
  <2>4. lib' = lib /\ entry' = entry
    BY <1>3 DEF TakeSlot
  <2>5. launch' \in [pc : {"idle", "planned", "missed", "joining"},
                     rom : Rom \cup {NoRom}, plan : Parts]
    BY <1>0, <2>1 DEF TypeInv, NoLaunch
  <2>6. game' \in [from : {"none", "library", "cache"}, rom : Rom \cup {NoRom},
                   plan : Parts, got : Parts]
    BY <1>0, <2>2 DEF TypeInv, FromLibrary, NoGame
  <2>7. copy' \in [pc : {"idle", "evict", "copy", "verify", "install", "swap", "done", "failed"},
                   rom : Rom \cup {NoRom}, plan : Parts, got : Parts, ok : BOOLEAN]
    <3>1. launch.rom \in Rom \cup {NoRom} /\ launch.plan \in Parts
      BY <1>0 DEF TypeInv
    <3>2. CASE copy' = copy
      BY <1>0, <3>2 DEF TypeInv
    <3>3. CASE copy' = [pc |-> "evict", rom |-> launch.rom, plan |-> launch.plan,
                        got |-> NoPlan, ok |-> FALSE]
      BY <3>1, <3>3
    <3> QED
      BY <2>3, <3>2, <3>3
  <2> QED
    BY <1>0, <2>4, <2>5, <2>6, <2>7 DEF TypeInv
<1>4. CASE JoinDone
  BY <1>0, <1>4 DEF JoinDone, TypeInv, LaunchInv, NoLaunch, FromLibrary, NoCopy
<1>5. CASE JoinTimeout
  BY <1>0, <1>5 DEF JoinTimeout, TypeInv, NoLaunch, FromLibrary, NoGame
<1>6. CASE CopyEvict
  BY <1>0, <1>6 DEF CopyEvict, TypeInv, AfterRemoval, Discarded, NoEntry
<1>7. CASE CopyPart
  <2>1. PICK p \in Part : CopyPart!2!(p)
    BY <1>7 DEF CopyPart
  <2>2. lib[copy.rom][p] \in 0 .. Gone
    BY <1>0, <1>7 DEF CopyPart, TypeInv, CopyInv, Fingerprint, Parts
  <2> DEFINE got == [copy.got EXCEPT ![p] = lib[copy.rom][p]]
             pc == IF \A q \in Part \ {p} : copy.got[q] # Gone THEN "verify" ELSE "copy"
  <2>3. got \in Parts
    BY <1>0, <2>2 DEF TypeInv, Parts
  <2>4. copy' = [copy EXCEPT !.got = got, !.pc = pc]
    BY <1>0, <2>1 DEF TypeInv
  <2>5. pc \in {"verify", "copy"}
    OBVIOUS
  <2> HIDE DEF got, pc
  <2> QED
    BY <1>0, <1>7, <2>3, <2>4, <2>5 DEF CopyPart, TypeInv
<1>8. CASE CopyVerify
  BY <1>0, <1>8 DEF CopyVerify, TypeInv
<1>9. CASE CopyDiscard
  BY <1>0, <1>9 DEF CopyDiscard, TypeInv, Discarded, NoEntry
<1>10. CASE CopySwap
  BY <1>0, <1>10 DEF CopySwap, TypeInv
<1>11. CASE CopyFails
  BY <1>0, <1>11 DEF CopyFails, TypeInv
<1>12. CASE CopyEnds
  BY <1>0, <1>12 DEF CopyEnds, TypeInv, NoCopy
<1>13. ASSUME NEW r \in Rom, NEW p \in Part, LibraryChanges(r, p) PROVE TypeInv'
  BY <1>0, <1>13 DEF LibraryChanges, TypeInv, Fingerprint
<1>14. CASE GameEnds
  BY <1>0, <1>14 DEF GameEnds, TypeInv, NoGame
<1>15. CASE Crash
  BY <1>0, <1>15 DEF Crash, TypeInv, NoGame, NoCopy, NoLaunch
<1>16. CASE Startup
  BY <1>0, <1>16 DEF Startup, TypeInv, AfterRemoval, Discarded, NoEntry
<1> QED
  BY <1>1, <1>2, <1>3, <1>4, <1>5, <1>6, <1>7, <1>8, <1>9, <1>10, <1>11, <1>12, <1>13,
     <1>14, <1>15, <1>16, RomCacheAssumption
  DEF Next

\* A dead broker starts nothing.
LEMMA DownStep == CacheInv /\ Next => DownInv'
<1> SUFFICES ASSUME CacheInv, Next PROVE DownInv'
  OBVIOUS
<1> USE Versions DEF DownInv
<1>0. /\ TypeInv /\ DownInv /\ LaunchInv /\ CopyInv /\ GotInv /\ EntryInv /\ JoinInv /\ GameInv
      /\ TypeInv'
  BY TypeStep DEF CacheInv
<1>1. ASSUME NEW r \in Rom, Plan(r) PROVE DownInv'
  BY <1>0, <1>1 DEF Plan
<1>2. CASE Check
  BY <1>0, <1>2 DEF Check, IsHit, NoLaunch
<1>3. CASE TakeSlot
  BY <1>0, <1>3 DEF TakeSlot, NoLaunch
<1>4. CASE JoinDone
  BY <1>0, <1>4 DEF JoinDone, NoLaunch
<1>5. CASE JoinTimeout
  BY <1>0, <1>5 DEF JoinTimeout, NoLaunch
<1>6. CASE CopyEvict
  BY <1>0, <1>6 DEF CopyEvict, NoCopy
<1>7. CASE CopyPart
  BY <1>0, <1>7 DEF CopyPart, NoCopy
<1>8. CASE CopyVerify
  BY <1>0, <1>8 DEF CopyVerify, NoCopy
<1>9. CASE CopyDiscard
  BY <1>0, <1>9 DEF CopyDiscard, NoCopy
<1>10. CASE CopySwap
  BY <1>0, <1>10 DEF CopySwap, NoCopy
<1>11. CASE CopyFails
  BY <1>0, <1>11 DEF CopyFails, NoCopy
<1>12. CASE CopyEnds
  BY <1>0, <1>12 DEF CopyEnds, NoCopy
<1>13. ASSUME NEW r \in Rom, NEW p \in Part, LibraryChanges(r, p) PROVE DownInv'
  BY <1>0, <1>13 DEF LibraryChanges
<1>14. CASE GameEnds
  BY <1>0, <1>14 DEF GameEnds
<1>15. CASE Crash
  BY <1>0, <1>15 DEF Crash
<1>16. CASE Startup
  BY <1>0, <1>16 DEF Startup
<1> QED
  BY <1>1, <1>2, <1>3, <1>4, <1>5, <1>6, <1>7, <1>8, <1>9, <1>10, <1>11, <1>12, <1>13,
     <1>14, <1>15, <1>16, RomCacheAssumption
  DEF Next

\* Planning reads the library, whose versions only grow.
LEMMA LaunchStep == CacheInv /\ Next => LaunchInv'
<1> SUFFICES ASSUME CacheInv, Next PROVE LaunchInv'
  OBVIOUS
<1> USE Versions DEF LaunchInv
<1>0. /\ TypeInv /\ DownInv /\ LaunchInv /\ CopyInv /\ GotInv /\ EntryInv /\ JoinInv /\ GameInv
      /\ TypeInv'
  BY TypeStep DEF CacheInv
<1>1. ASSUME NEW r \in Rom, Plan(r) PROVE LaunchInv'
  <2>1. lib[r] \in Fingerprint /\ Leq(lib[r], lib[r])
    BY <1>0, LeqRefl DEF TypeInv
  <2> QED
    BY <1>0, <1>1, <2>1 DEF Plan, LaunchInv, NoLaunch
<1>2. CASE Check
  BY <1>0, <1>2 DEF TypeInv, Check, IsHit, NoLaunch
<1>3. CASE TakeSlot
  BY <1>0, <1>3 DEF TypeInv, TakeSlot, NoLaunch
<1>4. CASE JoinDone
  BY <1>0, <1>4 DEF JoinDone, NoLaunch
<1>5. CASE JoinTimeout
  BY <1>0, <1>5 DEF JoinTimeout, NoLaunch
<1>6. CASE CopyEvict
  BY <1>0, <1>6 DEF CopyEvict
<1>7. CASE CopyPart
  BY <1>0, <1>7 DEF CopyPart
<1>8. CASE CopyVerify
  BY <1>0, <1>8 DEF CopyVerify
<1>9. CASE CopyDiscard
  BY <1>0, <1>9 DEF CopyDiscard
<1>10. CASE CopySwap
  BY <1>0, <1>10 DEF CopySwap
<1>11. CASE CopyFails
  BY <1>0, <1>11 DEF CopyFails
<1>12. CASE CopyEnds
  BY <1>0, <1>12 DEF CopyEnds
<1>13. ASSUME NEW r \in Rom, NEW p \in Part, LibraryChanges(r, p) PROVE LaunchInv'
  <2>1. UNCHANGED <<launch, game>>
    BY <1>13 DEF LibraryChanges
  <2>2. launch.pc # "idle" => Leq(launch.plan, lib'[launch.rom])
    BY <1>0, <1>13, LibraryGrows DEF LaunchInv
  <2> QED
    BY <1>0, <2>1, <2>2 DEF LaunchInv
<1>14. CASE GameEnds
  BY <1>0, <1>14 DEF GameEnds
<1>15. CASE Crash
  BY <1>0, <1>15 DEF Crash, NoLaunch
<1>16. CASE Startup
  BY <1>0, <1>16 DEF Startup
<1> QED
  BY <1>1, <1>2, <1>3, <1>4, <1>5, <1>6, <1>7, <1>8, <1>9, <1>10, <1>11, <1>12, <1>13,
     <1>14, <1>15, <1>16, RomCacheAssumption
  DEF Next

\* A copy is made from the launch that takes the slot.
LEMMA CopyStep == CacheInv /\ Next => CopyInv'
<1> SUFFICES ASSUME CacheInv, Next PROVE CopyInv'
  OBVIOUS
<1> USE Versions DEF CopyInv
<1>0. /\ TypeInv /\ DownInv /\ LaunchInv /\ CopyInv /\ GotInv /\ EntryInv /\ JoinInv /\ GameInv
      /\ TypeInv'
  BY TypeStep DEF CacheInv
<1>1. ASSUME NEW r \in Rom, Plan(r) PROVE CopyInv'
  BY <1>0, <1>1 DEF Plan
<1>2. CASE Check
  BY <1>0, <1>2 DEF TypeInv, Check, IsHit, NoLaunch
<1>3. CASE TakeSlot
  <2>1. CASE copy' = copy /\ launch' = NoLaunch
    BY <1>0, <1>3, <2>1 DEF TakeSlot, CopyInv, NoLaunch
  <2>2. CASE copy' = [pc |-> "evict", rom |-> launch.rom, plan |-> launch.plan,
                      got |-> NoPlan, ok |-> FALSE]
    <3>1. launch.rom \in Rom /\ launch.plan \in Fingerprint /\ Leq(launch.plan, lib[launch.rom])
      BY <1>0, <1>3 DEF TakeSlot, LaunchInv
    <3>2. Leq(launch.plan, launch.plan)
      BY <3>1, LeqRefl
    <3>3. lib' = lib
      BY <1>3 DEF TakeSlot
    <3>4. launch' \in {NoLaunch, [launch EXCEPT !.pc = "joining"]}
      BY <1>3 DEF TakeSlot
    <3>5. launch'.pc # "idle" => launch'.plan = launch.plan
      BY <1>0, <3>4 DEF TypeInv, NoLaunch
    <3> QED
      BY <2>2, <3>1, <3>2, <3>3, <3>5 DEF CopyInv
  <2> QED
    BY <1>3, <2>1, <2>2 DEF TakeSlot
<1>4. CASE JoinDone
  BY <1>0, <1>4 DEF JoinDone, NoCopy
<1>5. CASE JoinTimeout
  BY <1>0, <1>5 DEF JoinTimeout, NoLaunch
<1>6. CASE CopyEvict
  BY <1>0, <1>6 DEF TypeInv, CopyEvict
<1>7. CASE CopyPart
  BY <1>0, <1>7 DEF CopyPart
<1>8. CASE CopyVerify
  BY <1>0, <1>8 DEF CopyVerify
<1>9. CASE CopyDiscard
  BY <1>0, <1>9 DEF TypeInv, CopyDiscard
<1>10. CASE CopySwap
  BY <1>0, <1>10 DEF CopySwap
<1>11. CASE CopyFails
  BY <1>0, <1>11 DEF CopyFails
<1>12. CASE CopyEnds
  BY <1>0, <1>12 DEF CopyEnds, NoCopy
<1>13. ASSUME NEW r \in Rom, NEW p \in Part, LibraryChanges(r, p) PROVE CopyInv'
  <2>1. UNCHANGED <<launch, copy>>
    BY <1>13 DEF LibraryChanges
  <2>2. copy.pc # "idle" => Leq(copy.plan, lib'[copy.rom])
    BY <1>0, <1>13, LibraryGrows DEF CopyInv
  <2> QED
    BY <1>0, <2>1, <2>2 DEF CopyInv
<1>14. CASE GameEnds
  BY <1>0, <1>14 DEF GameEnds
<1>15. CASE Crash
  BY <1>0, <1>15 DEF Crash, NoCopy
<1>16. CASE Startup
  BY <1>0, <1>16 DEF Startup
<1> QED
  BY <1>1, <1>2, <1>3, <1>4, <1>5, <1>6, <1>7, <1>8, <1>9, <1>10, <1>11, <1>12, <1>13,
     <1>14, <1>15, <1>16, RomCacheAssumption
  DEF Next

\* The parts copied are compared with the plan before they are installed.
LEMMA GotStep == CacheInv /\ Next => GotInv'
<1> SUFFICES ASSUME CacheInv, Next PROVE GotInv'
  OBVIOUS
<1> USE Versions DEF GotInv
<1>0. /\ TypeInv /\ DownInv /\ LaunchInv /\ CopyInv /\ GotInv /\ EntryInv /\ JoinInv /\ GameInv
      /\ TypeInv'
  BY TypeStep DEF CacheInv
<1>1. ASSUME NEW r \in Rom, Plan(r) PROVE GotInv'
  BY <1>0, <1>1 DEF Plan
<1>2. CASE Check
  BY <1>0, <1>2 DEF Check, IsHit
<1>3. CASE TakeSlot
  <2>1. lib' = lib
    BY <1>3 DEF TakeSlot
  <2>2. CASE copy' = copy
    BY <1>0, <2>1, <2>2 DEF GotInv
  <2>3. CASE copy' = [pc |-> "evict", rom |-> launch.rom, plan |-> launch.plan,
                      got |-> NoPlan, ok |-> FALSE]
    BY <2>1, <2>3 DEF GotInv, NoPlan
  <2> QED
    BY <1>3, <2>2, <2>3 DEF TakeSlot
<1>4. CASE JoinDone
  BY <1>0, <1>4 DEF JoinDone, NoCopy
<1>5. CASE JoinTimeout
  BY <1>0, <1>5 DEF JoinTimeout
<1>6. CASE CopyEvict
  BY <1>0, <1>6 DEF TypeInv, DownInv, CopyEvict, NoCopy
<1>7. CASE CopyPart
  <2>1. PICK p \in Part : CopyPart!2!(p)
    BY <1>7 DEF CopyPart
  <2>2. /\ lib' = lib /\ copy.pc = "copy" /\ copy'.plan = copy.plan /\ copy'.rom = copy.rom
        /\ copy'.got = [copy.got EXCEPT ![p] = lib[copy.rom][p]]
        /\ copy'.pc \in {"copy", "verify"}
        /\ copy'.pc = "verify" => \A q \in Part \ {p} : copy.got[q] # Gone
    BY <1>0, <1>7, <2>1 DEF CopyPart, TypeInv
  <2>3. /\ \A q \in Part : lib[copy.rom][q] \in 0 .. MaxVersion /\ copy.plan[q] \in 0 .. MaxVersion
        /\ copy.got \in Parts
    BY <1>0, <2>2 DEF TypeInv, CopyInv, Fingerprint
  <2>4. copy.plan[p] <= lib[copy.rom][p] /\ lib[copy.rom][p] <= lib[copy.rom][p]
    BY <1>0, <2>2, <2>3 DEF CopyInv, Leq
  <2>5. copy'.got[p] = lib[copy.rom][p] /\ copy'.got[p] # Gone
    BY <2>2, <2>3 DEF Parts
  <2>6. \A q \in Part \ {p} : copy'.got[q] = copy.got[q]
    BY <2>2, <2>3 DEF Parts
  <2> QED
    BY <1>0, <2>2, <2>4, <2>5, <2>6 DEF GotInv
<1>8. CASE CopyVerify
  <2>1. /\ lib' = lib /\ copy.pc = "verify" /\ copy'.plan = copy.plan /\ copy'.got = copy.got
        /\ copy'.pc \in {"install", "failed"}
        /\ copy'.pc = "install" => lib[copy.rom] = copy.plan
    BY <1>0, <1>8 DEF CopyVerify
  <2>2. copy'.pc = "install" => Leq(copy.plan, copy.got) /\ Leq(copy.got, copy.plan)
    BY <1>0, <2>1 DEF GotInv, Leq
  <2>3. copy'.pc = "install" => copy.got = copy.plan
    BY <1>0, <2>2, LeqAntisym DEF TypeInv
  <2> QED
    BY <2>1, <2>3 DEF GotInv
<1>9. CASE CopyDiscard
  BY <1>0, <1>9 DEF TypeInv, CopyDiscard
<1>10. CASE CopySwap
  BY <1>0, <1>10 DEF CopySwap
<1>11. CASE CopyFails
  BY <1>0, <1>11 DEF CopyFails
<1>12. CASE CopyEnds
  BY <1>0, <1>12 DEF CopyEnds, NoCopy
<1>13. ASSUME NEW r \in Rom, NEW p \in Part, LibraryChanges(r, p) PROVE GotInv'
  <2>1. copy' = copy
    BY <1>13 DEF LibraryChanges
  <2>2. CASE copy.pc \in {"evict", "copy", "verify"}
    <3> DEFINE a == [q \in Part |-> IF copy.got[q] = Gone THEN 0 ELSE copy.got[q]]
    <3>1. copy.rom \in Rom /\ \A q \in Part : lib[copy.rom][q] \in Nat /\ copy.got[q] \in 0 .. Gone
      BY <1>0, <2>2 DEF TypeInv, CopyInv, Fingerprint, Parts
    <3>2. a \in Parts /\ Leq(a, lib[copy.rom])
      BY <1>0, <2>2, <3>1 DEF GotInv, Leq, Parts
    <3>3. Leq(a, lib'[copy.rom])
      BY <1>0, <1>13, <3>1, <3>2, LibraryGrows
    <3>4. \A q \in Part : copy.got[q] # Gone => copy.got[q] <= lib'[copy.rom][q]
      BY <3>3 DEF Leq
    <3> QED
      BY <1>0, <2>1, <2>2, <3>4 DEF GotInv
  <2>3. CASE copy.pc \notin {"evict", "copy", "verify"}
    BY <1>0, <2>1, <2>3 DEF GotInv
  <2> QED
    BY <2>2, <2>3
<1>14. CASE GameEnds
  BY <1>0, <1>14 DEF GameEnds
<1>15. CASE Crash
  BY <1>0, <1>15 DEF Crash, NoCopy
<1>16. CASE Startup
  BY <1>0, <1>16 DEF Startup
<1> QED
  BY <1>1, <1>2, <1>3, <1>4, <1>5, <1>6, <1>7, <1>8, <1>9, <1>10, <1>11, <1>12, <1>13,
     <1>14, <1>15, <1>16, RomCacheAssumption
  DEF Next

\* Nothing but a compared copy becomes an entry.
LEMMA EntryStep == CacheInv /\ Next => EntryInv'
<1> SUFFICES ASSUME CacheInv, Next PROVE EntryInv'
  OBVIOUS
<1> USE Versions DEF EntryInv
<1>0. /\ TypeInv /\ DownInv /\ LaunchInv /\ CopyInv /\ GotInv /\ EntryInv /\ JoinInv /\ GameInv
      /\ TypeInv'
  BY TypeStep DEF CacheInv
<1>1. ASSUME NEW r \in Rom, Plan(r) PROVE EntryInv'
  BY <1>0, <1>1 DEF Plan
<1>2. CASE Check
  BY <1>0, <1>2 DEF TypeInv, Check, IsHit, NoLaunch
<1>3. CASE TakeSlot
  BY <1>0, <1>3 DEF TypeInv, TakeSlot, NoLaunch
<1>4. CASE JoinDone
  BY <1>0, <1>4 DEF JoinDone, NoLaunch, NoCopy
<1>5. CASE JoinTimeout
  BY <1>0, <1>5 DEF JoinTimeout, NoLaunch
<1>6. CASE CopyEvict
  BY <1>0, <1>6 DEF TypeInv, CopyEvict, AfterRemoval, Discarded
<1>7. CASE CopyPart
  BY <1>0, <1>7 DEF CopyPart
<1>8. CASE CopyVerify
  BY <1>0, <1>8 DEF CopyVerify
<1>9. CASE CopyDiscard
  BY <1>0, <1>9 DEF TypeInv, CopyDiscard, Discarded
<1>10. CASE CopySwap
  <2>1. /\ lib' = lib /\ launch' = launch /\ copy.pc = "swap" /\ copy'.plan = copy.plan
        /\ copy'.rom = copy.rom /\ copy.rom \in Rom /\ copy.plan \in Fingerprint
        /\ copy.got = copy.plan
        /\ entry' = [entry EXCEPT ![copy.rom] = [parts |-> copy.got, print |-> copy.plan]]
    BY <1>0, <1>10 DEF CopySwap, CopyInv, GotInv
  <2>2. /\ entry'[copy.rom].parts = copy.plan /\ entry'[copy.rom].print = copy.plan
        /\ \A r \in Rom \ {copy.rom} : entry'[r] = entry[r]
    BY <1>0, <2>1 DEF TypeInv
  <2>3. Leq(copy.plan, lib[copy.rom]) /\ Leq(copy.plan, copy.plan)
    BY <1>0, <2>1, LeqRefl DEF CopyInv
  <2>4. launch.pc # "idle" /\ launch.rom = copy.rom => Leq(copy.plan, launch.plan)
    BY <1>0, <2>1 DEF CopyInv
  <2> QED
    BY <1>0, <2>1, <2>2, <2>3, <2>4 DEF EntryInv
<1>11. CASE CopyFails
  BY <1>0, <1>11 DEF CopyFails
<1>12. CASE CopyEnds
  BY <1>0, <1>12 DEF CopyEnds, NoCopy
<1>13. ASSUME NEW r \in Rom, NEW p \in Part, LibraryChanges(r, p) PROVE EntryInv'
  <2>1. UNCHANGED <<entry, copy, launch>>
    BY <1>13 DEF LibraryChanges
  <2>2. \A q \in Rom : entry[q] # NoEntry => Leq(entry[q].print, lib'[q])
    BY <1>0, <1>13, LibraryGrows DEF EntryInv
  <2> QED
    BY <1>0, <2>1, <2>2 DEF EntryInv
<1>14. CASE GameEnds
  BY <1>0, <1>14 DEF GameEnds
<1>15. CASE Crash
  BY <1>0, <1>15 DEF Crash, NoLaunch, NoCopy
<1>16. CASE Startup
  BY <1>0, <1>16 DEF Startup, AfterRemoval, Discarded
<1> QED
  BY <1>1, <1>2, <1>3, <1>4, <1>5, <1>6, <1>7, <1>8, <1>9, <1>10, <1>11, <1>12, <1>13,
     <1>14, <1>15, <1>16, RomCacheAssumption
  DEF Next

\* A joined copy is installed when it says so.
LEMMA JoinStep == CacheInv /\ Next => JoinInv'
<1> SUFFICES ASSUME CacheInv, Next PROVE JoinInv'
  OBVIOUS
<1> USE Versions DEF JoinInv
<1>0. /\ TypeInv /\ DownInv /\ LaunchInv /\ CopyInv /\ GotInv /\ EntryInv /\ JoinInv /\ GameInv
      /\ TypeInv'
  BY TypeStep DEF CacheInv
<1>1. ASSUME NEW r \in Rom, Plan(r) PROVE JoinInv'
  <2>1. copy' = copy /\ entry' = entry /\ launch.pc = "idle" /\ launch'.pc # "joining"
    BY <1>0, <1>1 DEF Plan, NoLaunch
  <2> QED
    BY <1>0, <2>1 DEF JoinInv
<1>2. CASE Check
  BY <1>0, <1>2 DEF TypeInv, Check, IsHit, NoLaunch
<1>3. CASE TakeSlot
  BY <1>0, <1>3 DEF TypeInv, TakeSlot, NoLaunch
<1>4. CASE JoinDone
  BY <1>0, <1>4 DEF JoinDone, NoCopy
<1>5. CASE JoinTimeout
  BY <1>0, <1>5 DEF CopyInv, JoinTimeout, NoLaunch
<1>6. CASE CopyEvict
  BY <1>0, <1>6 DEF TypeInv, CopyInv, CopyEvict
<1>7. CASE CopyPart
  BY <1>0, <1>7 DEF CopyPart
<1>8. CASE CopyVerify
  BY <1>0, <1>8 DEF CopyVerify
<1>9. CASE CopyDiscard
  BY <1>0, <1>9 DEF TypeInv, CopyInv, CopyDiscard
<1>10. CASE CopySwap
  BY <1>0, <1>10 DEF TypeInv, GotInv, CopySwap
<1>11. CASE CopyFails
  BY <1>0, <1>11 DEF CopyFails
<1>12. CASE CopyEnds
  BY <1>0, <1>12 DEF CopyEnds, NoCopy
<1>13. ASSUME NEW r \in Rom, NEW p \in Part, LibraryChanges(r, p) PROVE JoinInv'
  BY <1>0, <1>13 DEF LibraryChanges
<1>14. CASE GameEnds
  BY <1>0, <1>14 DEF GameEnds
<1>15. CASE Crash
  BY <1>0, <1>15 DEF Crash, NoCopy
<1>16. CASE Startup
  <2>1. copy' = copy /\ launch' = launch /\ launch.pc # "joining"
    BY <1>0, <1>16 DEF Startup, DownInv, NoLaunch
  <2> QED
    BY <1>0, <2>1 DEF JoinInv
<1> QED
  BY <1>1, <1>2, <1>3, <1>4, <1>5, <1>6, <1>7, <1>8, <1>9, <1>10, <1>11, <1>12, <1>13,
     <1>14, <1>15, <1>16, RomCacheAssumption
  DEF Next

\* A hit is no older than what the launch planned, so it is that.
LEMMA GameStep == CacheInv /\ Next => GameInv'
<1> SUFFICES ASSUME CacheInv, Next PROVE GameInv'
  OBVIOUS
<1> USE Versions DEF GameInv
<1>0. /\ TypeInv /\ DownInv /\ LaunchInv /\ CopyInv /\ GotInv /\ EntryInv /\ JoinInv /\ GameInv
      /\ TypeInv'
  BY TypeStep DEF CacheInv
<1>1. ASSUME NEW r \in Rom, Plan(r) PROVE GameInv'
  BY <1>0, <1>1 DEF Plan, FromLibrary, NoGame
<1>2. CASE Check
  <2> DEFINE r == launch.rom
  <2>1. /\ r \in Rom /\ launch.plan \in Fingerprint /\ game.from # "cache"
        /\ UNCHANGED <<entry, copy>>
    BY <1>0, <1>2 DEF Check, LaunchInv, NoGame
  <2>2. CASE entry[r].print = launch.plan
    <3>1. /\ active' = r
          /\ game' = [from |-> "cache", rom |-> r, plan |-> launch.plan, got |-> entry[r].parts]
      BY <1>2, <2>2 DEF Check, IsHit
    <3>2. entry[r] # NoEntry
      BY <2>1, <2>2 DEF NoEntry
    <3>3. entry[r].parts = launch.plan
      BY <1>0, <2>1, <2>2, <3>2 DEF EntryInv
    <3>4. copy.pc # "idle" /\ copy.rom = r => copy.plan = launch.plan
      BY <1>0, <1>2, <2>1, <2>2, <3>2, LeqAntisym DEF Check, EntryInv, CopyInv, TypeInv
    <3> QED
      BY <2>1, <3>1, <3>3, <3>4 DEF GameInv
  <2>3. CASE entry[r].print # launch.plan
    BY <1>2, <2>1, <2>3 DEF Check, IsHit, GameInv
  <2> QED
    BY <2>2, <2>3
<1>3. CASE TakeSlot
  BY <1>0, <1>3 DEF LaunchInv, TakeSlot, FromLibrary, NoGame
<1>4. CASE JoinDone
  BY <1>0, <1>4 DEF LaunchInv, JoinInv, JoinDone, FromLibrary, NoGame, NoCopy
<1>5. CASE JoinTimeout
  BY <1>0, <1>5 DEF JoinTimeout, FromLibrary
<1>6. CASE CopyEvict
  BY <1>0, <1>6 DEF TypeInv, CopyEvict, AfterRemoval, Discarded
<1>7. CASE CopyPart
  BY <1>0, <1>7 DEF CopyPart
<1>8. CASE CopyVerify
  BY <1>0, <1>8 DEF CopyVerify
<1>9. CASE CopyDiscard
  BY <1>0, <1>9 DEF TypeInv, CopyDiscard, Discarded
<1>10. CASE CopySwap
  BY <1>0, <1>10 DEF GotInv, CopySwap
<1>11. CASE CopyFails
  BY <1>0, <1>11 DEF CopyFails
<1>12. CASE CopyEnds
  BY <1>0, <1>12 DEF CopyEnds, NoCopy
<1>13. ASSUME NEW r \in Rom, NEW p \in Part, LibraryChanges(r, p) PROVE GameInv'
  BY <1>0, <1>13 DEF LibraryChanges
<1>14. CASE GameEnds
  BY <1>0, <1>14 DEF GameEnds, NoGame
<1>15. CASE Crash
  BY <1>0, <1>15 DEF Crash, NoGame
<1>16. CASE Startup
  BY <1>0, <1>16 DEF Startup, AfterRemoval, Discarded
<1> QED
  BY <1>1, <1>2, <1>3, <1>4, <1>5, <1>6, <1>7, <1>8, <1>9, <1>10, <1>11, <1>12, <1>13,
     <1>14, <1>15, <1>16, RomCacheAssumption
  DEF Next

-----------------------------------------------------------------------------
LEMMA CacheStep == CacheInv /\ [Next]_vars => CacheInv'
<1>1. CacheInv /\ Next => CacheInv'
  BY TypeStep, DownStep, LaunchStep, CopyStep, GotStep, EntryStep, JoinStep, GameStep
  DEF CacheInv
<1>2. CacheInv /\ UNCHANGED vars => CacheInv'
  BY DEF vars, CacheInv, TypeInv, DownInv, LaunchInv, CopyInv, GotInv, EntryInv, JoinInv,
     GameInv
<1> QED
  BY <1>1, <1>2

THEOREM CacheInvHolds == Spec => []CacheInv
  BY Initially, CacheStep, PTL DEF Spec

\* Whatever the library changes to while a copy is made, joined, abandoned or
\* installed, and however launches and copies interleave, a game that boots from
\* the cache gets one version, the one its launch planned (_boot_path, _populate).
THEOREM RunsOneVersionHolds == Spec => []RunsOneVersion
<1>1. CacheInv => RunsOneVersion
  BY DEF CacheInv, GameInv, RunsOneVersion, Entries
<1> QED
  BY <1>1, CacheInvHolds, PTL

\* No eviction, not even the one of a startup, takes the entry a game runs from
\* (_evict_locked): the entry is the active one as long as the game runs.
THEOREM EvictionSparesTheGameHolds == Spec => EvictionSparesTheGame
<1> DEFINE Spared == /\ game.from = "cache" /\ game' = game
                     /\ game.rom \in Entries /\ entry'[game.rom] = NoEntry
                     => copy.pc = "install" /\ copy.rom = game.rom
<1>1. ASSUME CacheInv, Next, game.from = "cache", game' = game, game.rom \in Entries,
             entry'[game.rom] = NoEntry
      PROVE  copy.pc = "install" /\ copy.rom = game.rom
  <2> USE Versions
  <2>0. /\ TypeInv /\ DownInv /\ GotInv /\ CopyInv
        /\ game.rom \in Rom /\ active = game.rom /\ entry[game.rom] # NoEntry
    BY <1>1 DEF CacheInv, GameInv, Entries
  <2>1. entry' # entry
    BY <1>1, <2>0
  <2>2. CASE CopyEvict
    <3>1. PICK V \in SUBSET Entries : /\ PicksVictims(V, copy.rom, 1, Size[copy.rom])
                                      /\ entry' = AfterRemoval(V)
      BY <2>1, <2>2 DEF CopyEvict
    <3>2. game.rom \notin V
      BY <2>0, <3>1 DEF PicksVictims
    <3> QED
      BY <1>1, <2>0, <3>1, <3>2 DEF AfterRemoval
  <2>3. CASE CopyDiscard
    BY <1>1, <2>0, <2>1, <2>3 DEF CopyDiscard, TypeInv
  <2>4. CASE CopySwap
    <3>1. copy.rom \in Rom /\ copy.plan \in Fingerprint
      BY <2>0, <2>4 DEF CopySwap, CopyInv
    <3>2. entry'[game.rom] \in {entry[game.rom], [parts |-> copy.got, print |-> copy.plan]}
      BY <2>0, <2>4 DEF CopySwap, TypeInv
    <3> QED
      BY <1>1, <2>0, <3>1, <3>2 DEF NoEntry
  <2>5. CASE Startup
    BY <1>1, <2>0, <2>5 DEF Startup, DownInv, NoGame
  <2> QED
    BY <1>1, <2>1, <2>2, <2>3, <2>4, <2>5
    DEF Next, Plan, Check, TakeSlot, JoinDone, JoinTimeout, CopyPart, CopyVerify, CopyFails,
        CopyEnds, LibraryChanges, GameEnds, Crash
<1>2. CacheInv /\ [Next]_vars => [Spared]_vars
  BY <1>1 DEF vars
<1> QED
  BY <1>2, CacheInvHolds, PTL DEF Spec, EvictionSparesTheGame
-----------------------------------------------------------------------------
(* The limits.                                                                *)

\* Within the limits, or no more than the two entries the limits cannot touch.
Small(S) == Fits(S, 0, 0) \/ Cardinality(S) <= 2

\* From its eviction on, a copy has made room for the entry it will install.
RoomInv ==
  /\ Small(Entries \ stuck)
  /\ copy.pc \in {"copy", "verify", "install", "swap"} =>
       Small((Entries \ stuck) \cup {copy.rom})

LEMMA BytesFinite ==
  ASSUME NEW S \in SUBSET Rom
  PROVE  /\ IsFiniteSet(S) /\ Cardinality(S) \in Nat
         /\ IsFiniteSet(UNION {{r} \X (1 .. Size[r]) : r \in S})
         /\ Total(S) \in Nat
<1> DEFINE Bytes(r) == {r} \X (1 .. Size[r])
<1>1. IsFiniteSet(S) /\ Cardinality(S) \in Nat
  BY RomCacheAssumption, FS_Subset, FS_CardinalityType
<1>2. ASSUME NEW r \in S PROVE IsFiniteSet(Bytes(r))
  <2>1. Size[r] \in Int
    BY RomCacheAssumption
  <2>2. IsFiniteSet(1 .. Size[r])
    BY <2>1, FS_Interval
  <2>3. IsFiniteSet({r})
    BY FS_Singleton
  <2> QED
    BY <2>2, <2>3, FS_Product
<1>3. IsFiniteSet({Bytes(r) : r \in S})
  <2> DEFINE image == {Bytes(r) : r \in S}
             bytes == [r \in S |-> Bytes(r)]
  <2>1. bytes \in [S -> image] /\ \A t \in image : \E r \in S : bytes[r] = t
    OBVIOUS
  <2>2. bytes \in Surjection(S, image)
    BY <2>1 DEF Surjection
  <2> HIDE DEF bytes, image
  <2>3. IsFiniteSet(image)
    BY <1>1, <2>2, FS_Surjection
  <2> QED
    BY <2>3 DEF image
<1>4. IsFiniteSet(UNION {Bytes(r) : r \in S})
  BY <1>2, <1>3, FS_UNION
<1> QED
  BY <1>1, <1>4, FS_CardinalityType DEF Total

LEMMA TotalMonotone ==
  ASSUME NEW T \in SUBSET Rom, NEW S \in SUBSET T
  PROVE  Cardinality(S) <= Cardinality(T) /\ Total(S) <= Total(T)
<1>1. /\ IsFiniteSet(T)
      /\ IsFiniteSet(UNION {{r} \X (1 .. Size[r]) : r \in T})
  BY BytesFinite
<1>2. UNION {{r} \X (1 .. Size[r]) : r \in S} \subseteq UNION {{r} \X (1 .. Size[r]) : r \in T}
  OBVIOUS
<1> QED
  BY <1>1, <1>2, FS_Subset DEF Total

LEMMA TotalAdds ==
  ASSUME NEW S \in SUBSET Rom, NEW r \in Rom \ S
  PROVE  /\ Cardinality(S \cup {r}) = Cardinality(S) + 1
         /\ Total(S \cup {r}) = Total(S) + Size[r]
<1> DEFINE Bytes(x) == {x} \X (1 .. Size[x])
           A == UNION {Bytes(x) : x \in S}
<1>1. IsFiniteSet(S) /\ IsFiniteSet(A)
  BY BytesFinite
<1>2. IsFiniteSet({r}) /\ Cardinality({r}) = 1
  BY FS_Singleton
<1>3. Size[r] \in Nat
  BY RomCacheAssumption
<1>4. IsFiniteSet(1 .. Size[r]) /\ Cardinality(1 .. Size[r]) = Size[r]
  BY <1>3, FS_Interval
<1>5. IsFiniteSet(Bytes(r)) /\ Cardinality(Bytes(r)) = Size[r]
  <2>1. /\ IsFiniteSet({r} \X (1 .. Size[r]))
        /\ Cardinality({r} \X (1 .. Size[r])) = Cardinality({r}) * Cardinality(1 .. Size[r])
    BY ONLY <1>2, <1>4, FS_Product
  <2> QED
    BY <1>2, <1>3, <1>4, <2>1
<1>6. UNION {Bytes(x) : x \in S \cup {r}} = A \cup Bytes(r)
  OBVIOUS
<1>7. A \cap Bytes(r) = {}
  OBVIOUS
<1>8. Cardinality(A \cap Bytes(r)) = 0
  BY <1>7, FS_EmptySet
<1>9. Cardinality(A \cup Bytes(r)) = Cardinality(A) + Size[r]
  <2>1. Cardinality(A) \in Nat
    BY <1>1, FS_CardinalityType
  <2> HIDE DEF A, Bytes
  <2>2. Cardinality(A \cup Bytes(r)) =
          Cardinality(A) + Cardinality(Bytes(r)) - Cardinality(A \cap Bytes(r))
    BY <1>1, <1>5, FS_Union
  <2> QED
    BY <1>3, <1>5, <1>8, <2>1, <2>2
<1> QED
  BY <1>1, <1>6, <1>9, FS_AddElement DEF Total

LEMMA SmallSubset ==
  ASSUME NEW T \in SUBSET Rom, NEW S \in SUBSET T, Small(T)
  PROVE  Small(S)
<1>1. Cardinality(S) <= Cardinality(T) /\ Total(S) <= Total(T)
  BY TotalMonotone
<1>2. /\ Cardinality(S) \in Nat /\ Cardinality(T) \in Nat
      /\ Total(S) \in Nat /\ Total(T) \in Nat /\ MaxCount \in Nat /\ MaxSize \in Nat
  BY BytesFinite, RomCacheAssumption
<1> QED
  BY <1>1, <1>2 DEF Small, Fits

LEMMA PairIsSmall == ASSUME NEW a, NEW b, NEW S \in SUBSET {a, b} PROVE Small(S)
<1>1. IsFiniteSet({a}) /\ Cardinality({a}) = 1
  BY FS_Singleton
<1>2. {a} \cup {b} = {a, b}
  OBVIOUS
<1>3. IsFiniteSet({a, b}) /\ Cardinality({a, b}) <= 2 /\ Cardinality({a, b}) \in Nat
  BY <1>1, <1>2, FS_AddElement, FS_CardinalityType
<1>4. Cardinality(S) <= Cardinality({a, b}) /\ Cardinality(S) \in Nat
  BY <1>3, FS_Subset, FS_CardinalityType
<1> QED
  BY <1>3, <1>4 DEF Small

\* An eviction leaves what can be moved, with the entry it makes room for, small.
LEMMA EvictionMakesRoom ==
  ASSUME NEW keep \in Rom, NEW V \in SUBSET Entries,
         PicksVictims(V, keep, 1, Size[keep])
  PROVE  Small(((Entries \ V) \ stuck) \cup {keep})
<1> DEFINE left == (Entries \ {keep}) \ V
<1>1. left \in SUBSET Rom /\ keep \in Rom \ left /\ Entries \subseteq Rom
  BY DEF Entries
<1>2. ((Entries \ V) \ stuck) \cup {keep} \subseteq left \cup {keep}
  OBVIOUS
<1>3. CASE Fits(left, 1, Size[keep])
  <2>1. /\ Cardinality(left \cup {keep}) = Cardinality(left) + 1
        /\ Total(left \cup {keep}) = Total(left) + Size[keep]
    BY <1>1, TotalAdds
  <2>2. /\ Cardinality(left) \in Nat /\ Total(left) \in Nat /\ Size[keep] \in Nat
    BY <1>1, BytesFinite, RomCacheAssumption
  <2>3. Small(left \cup {keep})
    BY <1>3, <2>1, <2>2 DEF Small, Fits
  <2> QED
    BY <1>1, <1>2, <2>3, SmallSubset
<1>4. CASE V = (Entries \ {keep}) \ {active}
  <2>1. ((Entries \ V) \ stuck) \cup {keep} \subseteq {active, keep}
    BY <1>4
  <2> QED
    BY <2>1, PairIsSmall
<1> QED
  BY <1>3, <1>4 DEF PicksVictims

LEMMA EntriesAfterRemoval ==
  ASSUME TypeInv, NEW V \in SUBSET Entries, entry' = AfterRemoval(V), stuck' = stuck
  PROVE  Entries' \ stuck' = (Entries \ V) \ stuck
  BY DEF AfterRemoval, Discarded, Entries, TypeInv

LEMMA RoomStep == CacheInv /\ RoomInv /\ [Next]_vars => RoomInv'
<1> SUFFICES ASSUME CacheInv, RoomInv, [Next]_vars PROVE RoomInv'
  OBVIOUS
<1>0. TypeInv /\ CopyInv /\ DownInv /\ Entries \subseteq Rom
  BY DEF CacheInv, Entries
<1>s. stuck' = stuck
  BY DEF Next, vars, Plan, Check, TakeSlot, JoinDone, JoinTimeout, CopyEvict, CopyPart,
         CopyVerify, CopyDiscard, CopySwap, CopyFails, CopyEnds, LibraryChanges, GameEnds,
         Crash, Startup
<1>1. CASE CopyEvict
  <2>1. copy.rom \in Rom
    BY <1>0, <1>1 DEF CopyEvict, CopyInv
  <2>2. CASE entry' = entry /\ copy'.pc = "failed"
    BY <1>s, <2>2 DEF RoomInv, Entries
  <2>3. CASE \E V \in SUBSET Entries : /\ PicksVictims(V, copy.rom, 1, Size[copy.rom])
                                       /\ entry' = AfterRemoval(V)
    <3>1. PICK V \in SUBSET Entries : /\ PicksVictims(V, copy.rom, 1, Size[copy.rom])
                                      /\ entry' = AfterRemoval(V)
      BY <2>3
    <3>2. Small(((Entries \ V) \ stuck) \cup {copy.rom})
      BY <2>1, <3>1, EvictionMakesRoom
    <3>3. Entries' \ stuck' = (Entries \ V) \ stuck
      BY <1>0, <1>s, <3>1, EntriesAfterRemoval
    <3>4. copy'.rom = copy.rom
      BY <1>0, <1>1 DEF CopyEvict, TypeInv
    <3>5. (Entries \ V) \ stuck \in SUBSET (((Entries \ V) \ stuck) \cup {copy.rom})
      OBVIOUS
    <3>6. ((Entries \ V) \ stuck) \cup {copy.rom} \in SUBSET Rom
      BY <1>0, <2>1
    <3>7. Small((Entries \ V) \ stuck)
      BY <3>2, <3>5, <3>6, SmallSubset
    <3> QED
      BY <3>2, <3>3, <3>4, <3>7 DEF RoomInv, Small, Fits, Total
  <2>4. \/ entry' = entry /\ copy'.pc = "failed"
        \/ \E V \in SUBSET Entries : /\ PicksVictims(V, copy.rom, 1, Size[copy.rom])
                                     /\ entry' = AfterRemoval(V)
    BY <1>0, <1>1 DEF CopyEvict, TypeInv
  <2> QED
    BY <2>2, <2>3, <2>4
<1>2. CASE CopyDiscard
  <2>1. Entries' \subseteq Entries
    BY <1>0, <1>2 DEF CopyDiscard, TypeInv, Entries, Discarded
  <2>2. copy'.rom = copy.rom /\ copy.rom \in Rom /\ copy.pc = "install"
    BY <1>0, <1>2 DEF CopyDiscard, TypeInv, CopyInv
  <2>3. Small(Entries' \ stuck)
    <3>1. Entries' \ stuck \in SUBSET (Entries \ stuck) /\ Entries \ stuck \in SUBSET Rom
      BY <1>0, <2>1
    <3> QED
      BY <3>1, SmallSubset DEF RoomInv
  <2>4. Small((Entries' \ stuck) \cup {copy.rom})
    <3>1. /\ (Entries' \ stuck) \cup {copy.rom} \in SUBSET ((Entries \ stuck) \cup {copy.rom})
          /\ (Entries \ stuck) \cup {copy.rom} \in SUBSET Rom
      BY <1>0, <2>1, <2>2
    <3> QED
      BY <2>2, <3>1, SmallSubset DEF RoomInv
  <2> QED
    BY <1>s, <2>2, <2>3, <2>4 DEF RoomInv, Small, Fits, Total
<1>3. CASE CopySwap
  <2>1. Entries' \subseteq Entries \cup {copy.rom}
    BY <1>0, <1>3 DEF CopySwap, TypeInv, Entries
  <2>2. copy'.pc = "done" /\ copy.rom \in Rom /\ copy.pc = "swap"
    BY <1>0, <1>3 DEF CopySwap, TypeInv, CopyInv
  <2>3. Small(Entries' \ stuck)
    <3>1. /\ Entries' \ stuck \in SUBSET ((Entries \ stuck) \cup {copy.rom})
          /\ (Entries \ stuck) \cup {copy.rom} \in SUBSET Rom
      BY <1>0, <2>1, <2>2
    <3> QED
      BY <2>2, <3>1, SmallSubset DEF RoomInv
  <2> QED
    BY <1>s, <2>2, <2>3 DEF RoomInv, Small, Fits, Total
<1>4. CASE Startup
  <2>1. PICK V \in SUBSET Entries : PicksVictims(V, NoRom, 0, 0) /\ entry' = AfterRemoval(V)
    BY <1>4 DEF Startup
  <2>2. Entries' \ stuck' = (Entries \ V) \ stuck
    BY <1>0, <1>s, <2>1, EntriesAfterRemoval
  <2>3. copy' = NoCopy
    BY <1>0, <1>4 DEF Startup, DownInv
  <2>4. (Entries \ V) \ stuck \in SUBSET (Entries \ stuck) /\ Entries \ stuck \in SUBSET Rom
    BY <1>0
  <2>5. Small((Entries \ V) \ stuck)
    BY <2>4, SmallSubset DEF RoomInv
  <2> QED
    BY <2>2, <2>3, <2>5 DEF RoomInv, Small, Fits, Total, NoCopy
<1>5. ASSUME entry' = entry,
             copy'.pc \in {"copy", "verify", "install", "swap"} =>
               copy.pc \in {"copy", "verify", "install", "swap"} /\ copy'.rom = copy.rom
      PROVE  RoomInv'
  <2>1. Entries' = Entries
    BY <1>5 DEF Entries
  <2> QED
    BY <1>5, <1>s, <2>1 DEF RoomInv, Small, Fits, Total
<1>6. CASE CopyPart \/ CopyVerify \/ CopyFails
  BY <1>0, <1>5, <1>6 DEF CopyPart, CopyVerify, CopyFails, TypeInv
<1>7. CASE TakeSlot \/ JoinDone \/ CopyEnds \/ Crash
  BY <1>0, <1>5, <1>7 DEF TakeSlot, JoinDone, CopyEnds, Crash, TypeInv, NoCopy
<1>8. CASE entry' = entry /\ copy' = copy
  BY <1>5, <1>8
<1> QED
  BY <1>1, <1>2, <1>3, <1>4, <1>6, <1>7, <1>8
  DEF Next, vars, Plan, Check, JoinTimeout, LibraryChanges, GameEnds

\* The limits hold whatever the order of launches, copies and crashes, but for
\* entries that cannot be moved and the pair of the active and the copied one
\* (_evict_locked).
THEOREM LimitsKeptHolds == Spec => []LimitsKept
<1>1. Init => RoomInv
  <2> SUFFICES ASSUME Init PROVE RoomInv
    OBVIOUS
  <2>1. Entries \ stuck \in SUBSET {NoRom, NoRom} /\ copy = NoCopy
    BY DEF Init, Entries
  <2> QED
    BY <2>1, PairIsSmall DEF RoomInv, NoCopy
<1>2. RoomInv => LimitsKept
  BY DEF RoomInv, LimitsKept, Small
<1> QED
  BY <1>1, <1>2, RoomStep, CacheInvHolds, PTL DEF Spec

-----------------------------------------------------------------------------
(* Extraction cache: the inductive invariant.                                 *)

DirType == dir \in [Archive -> (SUBSET AllFiles) \cup {Absent}]

\* What the extraction at work is about.
ExtInv ==
  /\ ext.pc = "idle" => ext = Idle
  /\ ext.pc # "idle" => ext.key \in Archive
  /\ ext.pc = "delete" => ext.victim \in Archive /\ IsThere(ext.victim)

\* Only unpacking fills the scratch folder, and only the whole game is placed.
StagedInv ==
  /\ ext.pc \notin {"stage", "place"} => staged = {}
  /\ ext.pc = "stage" => staged \subseteq Files[ext.key]
  /\ ext.pc = "place" => staged = Files[ext.key]

\* Only shadPS4 unpacks an archive beside the game, and no more than its .pkg.
UnpackedInv ==
  /\ ext.pc \notin {"stage", "place", "relook"} => unpacked = 0
  /\ unpacked # 0 => kind = "shadps4" /\ unpacked <= Pkg[ext.key]

\* Unless an estimate fell short the reservation covers the game, and what is reserved fits.
ReservedInv ==
  /\ ext.pc \in {"evict", "delete", "room", "stage"} /\ ~short =>
       Cardinality(Files[ext.key]) <= ext.kept
  /\ ext.pc = "stage" =>
       /\ ext.kept <= Cap
       /\ ~short => Cardinality(Stored) + orphans + ext.kept <= Cap
  /\ ext.pc = "place" /\ kind = "shadps4" => Cardinality(staged) <= Cap

ExtractionInv ==
  /\ ExtractionTypeOK /\ OnlyEvictionHalves /\ CapKept
  /\ DirType /\ ExtInv /\ StagedInv /\ UnpackedInv /\ ReservedInv

USE DEF scratchVars

-----------------------------------------------------------------------------
(* Sizes.                                                                     *)

\* Every size is a number: the files of all archives are finitely many.
LEMMA FilesFinite ==
  /\ IsFiniteSet(AllFiles)
  /\ \A S \in SUBSET AllFiles : IsFiniteSet(S) /\ Cardinality(S) \in Nat
  /\ \A a \in Archive : Files[a] \subseteq AllFiles
<1> DEFINE F == [a \in Archive |-> Files[a]]
           S == {Files[a] : a \in Archive}
<1>1. F \in Surjection(Archive, S)
  BY DEF Surjection
<1>2. IsFiniteSet(S)
  <2>1. IsFiniteSet(Archive)
    BY ExtractionAssumption
  <2> HIDE DEF F, S
  <2> QED BY <1>1, <2>1, FS_Surjection
<1>3. \A T \in S : IsFiniteSet(T)
  BY ExtractionAssumption
<1>4. IsFiniteSet(UNION S)
  <2> HIDE DEF S
  <2> QED BY <1>2, <1>3, FS_UNION
<1>5. IsFiniteSet(AllFiles)
  BY <1>4 DEF AllFiles
<1>6. \A T \in SUBSET AllFiles : IsFiniteSet(T) /\ Cardinality(T) \in Nat
  BY <1>5, FS_Subset, FS_CardinalityType
<1>7. \A a \in Archive : Files[a] \subseteq AllFiles
  BY DEF AllFiles
<1> QED BY <1>5, <1>6, <1>7

\* A set of files within another is no larger.
LEMMA FewerFiles ==
  ASSUME NEW T \in SUBSET AllFiles, NEW S \in SUBSET T
  PROVE  Cardinality(S) <= Cardinality(T)
BY FilesFinite, FS_Subset

\* What is stored is finite, and the product of its parts.
LEMMA StoredFinite ==
  /\ IsFiniteSet(Stored)
  /\ Cardinality(Stored) \in Nat
<1>1. IsFiniteSet(Archive \X AllFiles)
  BY FilesFinite, ExtractionAssumption, FS_Product
<1>2. Stored \in SUBSET (Archive \X AllFiles)
  BY DEF Stored
<1> QED BY <1>1, <1>2, FS_Subset, FS_CardinalityType

LEMMA StoredFiniteNext ==
  /\ IsFiniteSet(Stored')
  /\ Cardinality(Stored') \in Nat
<1>1. IsFiniteSet(Archive \X AllFiles)
  BY FilesFinite, ExtractionAssumption, FS_Product
<1>2. Stored' \in SUBSET (Archive \X AllFiles)
  BY DEF Stored, AllFiles
<1> QED BY <1>1, <1>2, FS_Subset, FS_CardinalityType

\* A step that only deletes makes the cache no larger.
LEMMA Deleting ==
  ASSUME DirType, DirType', NEW a \in Archive,
         \A b \in Archive \ {a} : dir'[b] = dir[b],
         dir'[a] = Absent \/ (IsThere(a) /\ dir'[a] \subseteq dir[a])
  PROVE  /\ Cardinality(Stored') <= Cardinality(Stored)
         /\ \A b \in Archive : (FilesIn(b))' <= FilesIn(b)
<1>1. Stored' \in SUBSET Stored
  BY DEF Stored, IsThere, AllFiles
<1>2. Cardinality(Stored') <= Cardinality(Stored)
  BY <1>1, StoredFinite, FS_Subset
<1>3. ASSUME NEW b \in Archive PROVE (FilesIn(b))' <= FilesIn(b)
  <2>1. CASE dir'[b] = dir[b]
    <3>1. FilesIn(b) \in Nat
      BY FilesFinite DEF FilesIn, IsThere, DirType
    <3> QED BY <2>1, <3>1 DEF FilesIn, IsThere
  <2>2. CASE dir'[b] = Absent
    <3>1. FilesIn(b) \in Nat
      BY FilesFinite DEF FilesIn, IsThere, DirType
    <3> QED BY <2>2, <3>1 DEF FilesIn, IsThere
  <2>3. CASE dir'[b] # Absent /\ dir[b] # Absent /\ dir'[b] \subseteq dir[b]
    <3>1. dir[b] \in SUBSET AllFiles
      BY <2>3 DEF DirType
    <3> QED BY <2>3, <3>1, FewerFiles DEF FilesIn, IsThere
  <2> QED BY <2>1, <2>2, <2>3 DEF IsThere
<1> QED BY <1>2, <1>3

\* Placing adds the placed files and nothing else.
LEMMA Placing ==
  ASSUME NEW a \in Archive, NEW files \in SUBSET AllFiles, DirType,
         dir' = [dir EXCEPT ![a] = files]
  PROVE  Cardinality(Stored') <= Cardinality(Stored) + Cardinality(files)
<1> DEFINE new == {a} \X files
<1>1. IsFiniteSet({a}) /\ Cardinality({a}) = 1
  BY FS_Singleton
<1>2. IsFiniteSet(files) /\ Cardinality(files) \in Nat
  BY FilesFinite
<1>3. IsFiniteSet(new) /\ Cardinality(new) = Cardinality(files)
  <2>1. IsFiniteSet(new) /\ Cardinality(new) = Cardinality({a}) * Cardinality(files)
    BY <1>1, <1>2, FS_Product
  <2>2. 1 * Cardinality(files) = Cardinality(files)
    BY <1>2
  <2> QED BY <1>1, <2>1, <2>2
<1>4. Stored' \in SUBSET (Stored \cup new)
  BY DEF Stored, IsThere, AllFiles, DirType
<1> HIDE DEF new
<1>5. /\ IsFiniteSet(Stored \cup new)
      /\ Cardinality(Stored \cup new) =
           Cardinality(Stored) + Cardinality(new) - Cardinality(Stored \cap new)
  BY <1>3, StoredFinite, FS_Union
<1>6. Cardinality(Stored \cap new) \in Nat
  BY StoredFinite, FS_Subset, FS_CardinalityType
<1>7. Cardinality(Stored') <= Cardinality(Stored \cup new)
  BY <1>4, <1>5, FS_Subset
<1>8. Cardinality(Stored \cup new) \in Nat
  BY <1>5, FS_CardinalityType
<1> QED BY <1>2, <1>3, <1>5, <1>6, <1>7, <1>8, StoredFinite, StoredFiniteNext

\* A step that leaves the folders alone leaves what they hold alone.
LEMMA SameFolders ==
  ASSUME dir' = dir
  PROVE  /\ Stored' = Stored
         /\ \A a \in Archive : (FilesIn(a))' = FilesIn(a)
         /\ DirType => DirType'
         /\ \A a \in Archive : (HoldsBoot(a))' = HoldsBoot(a)
BY DEF Stored, FilesIn, DirType, HoldsBoot, IsThere, AllFiles

-----------------------------------------------------------------------------
(* Every step keeps the invariant.                                            *)

LEMMA ExtractionInitially == ExtractionInit => ExtractionInv
<1> SUFFICES ASSUME ExtractionInit PROVE ExtractionInv
  OBVIOUS
<1>1. ExtractionTypeOK
  BY ExtractionAssumption DEF ExtractionInit, ExtractionTypeOK, Idle
<1>2. DirType /\ ExtInv /\ StagedInv /\ UnpackedInv /\ OnlyEvictionHalves
  BY DEF ExtractionInit, DirType, ExtInv, StagedInv, UnpackedInv, Idle, OnlyEvictionHalves,
         HoldsBoot, IsThere
<1>3. Stored = {}
  BY DEF ExtractionInit, Stored, IsThere
<1>4. CapKept
  BY <1>3, FS_EmptySet, ExtractionAssumption
     DEF ExtractionInit, CapKept, CacheSize, Overhang, FilesIn, IsThere
<1>5. ReservedInv
  BY DEF ExtractionInit, ReservedInv, Idle
<1> QED BY <1>1, <1>2, <1>4, <1>5 DEF ExtractionInv

\* The sizes of a state of the invariant are numbers.
LEMMA Numbers ==
  ASSUME ExtractionInv
  PROVE  /\ Cardinality(staged) \in Nat
         /\ Cardinality(Stored) \in Nat
         /\ orphans \in Nat /\ Cap \in Nat /\ ext.kept \in Nat
         /\ unpacked \in Nat /\ Overhang \in Nat
         /\ \A a \in Archive : Cardinality(Files[a]) \in Nat /\ FilesIn(a) \in Nat
         /\ CacheSize \in Nat
<1>1. Cardinality(staged) \in Nat /\ Cardinality(Stored) \in Nat
  BY FilesFinite, StoredFinite DEF ExtractionInv, ExtractionTypeOK
<1>2. /\ orphans \in Nat /\ Cap \in Nat /\ ext.kept \in Nat
      /\ unpacked \in Nat /\ Overhang \in Nat
  BY ExtractionAssumption DEF ExtractionInv, ExtractionTypeOK, Overhang
<1>3. \A a \in Archive : Cardinality(Files[a]) \in Nat /\ FilesIn(a) \in Nat
  BY FilesFinite DEF ExtractionInv, DirType, FilesIn, IsThere
<1> QED BY <1>1, <1>2, <1>3 DEF CacheSize

LEMMA ExtractInv ==
  ASSUME ExtractionInv, NEW a \in Archive, Extract(a)
  PROVE  ExtractionInv'
<1>1. CASE HoldsBoot(a)
  <2>1. UNCHANGED <<dir, ext, cut, kind, scratchVars, running, short>> /\ booted' = a
    BY <1>1 DEF Extract
  <2> QED BY <2>1, SameFolders
          DEF ExtractionInv, ExtractionTypeOK, OnlyEvictionHalves, CapKept, ExtInv, StagedInv,
              UnpackedInv, ReservedInv, CacheSize, Overhang, IsThere, scratchVars
<1>2. CASE ~HoldsBoot(a)
  <2>1. /\ UNCHANGED <<cut, kind, scratchVars, running, short, booted>>
        /\ ext = Idle
        /\ ext' = [Idle EXCEPT !.pc = "budget", !.key = a]
    BY <1>2 DEF Extract
  <2>2. /\ dir' = [dir EXCEPT ![a] = dir'[a]]
        /\ dir'[a] = Absent \/ (IsThere(a) /\ dir'[a] \subseteq dir[a])
        /\ DirType'
    <3>1. CASE IsThere(a)
      <4>1. PICK rest \in Leftovers(a) : dir' = [dir EXCEPT ![a] = rest]
        BY <1>2, <3>1 DEF Extract
      <4> QED BY <3>1, <4>1 DEF Leftovers, ExtractionInv, DirType, IsThere, AllFiles
    <3>2. CASE ~IsThere(a)
      <4>1. dir' = dir
        BY <1>2, <3>2 DEF Extract
      <4> QED BY <3>2, <4>1, SameFolders DEF IsThere, ExtractionInv, DirType
    <3> QED BY <3>1, <3>2
  <2>3. /\ Cardinality(Stored') <= Cardinality(Stored)
        /\ \A b \in Archive : (FilesIn(b))' <= FilesIn(b)
    <3>1. \A b \in Archive \ {a} : dir'[b] = dir[b]
      BY <2>2 DEF ExtractionInv, DirType
    <3> QED BY <2>2, <3>1, Deleting DEF ExtractionInv
  <2>4. /\ Cardinality(Stored') \in Nat
        /\ \A b \in Archive : (FilesIn(b))' \in Nat
    BY <2>2, StoredFiniteNext, FilesFinite DEF FilesIn, DirType, IsThere, AllFiles
  <2>5. ExtractionTypeOK'
    BY <2>1, <2>2, ExtractionAssumption DEF ExtractionInv, ExtractionTypeOK, DirType, Idle, IsThere
  <2>6. OnlyEvictionHalves'
    BY <1>2, <2>1, <2>2 DEF ExtractionInv, OnlyEvictionHalves, HoldsBoot, IsThere, DirType
  <2>7. CapKept'
    BY <2>1, <2>3, <2>4, Numbers DEF ExtractionInv, CapKept, CacheSize, Overhang
  <2>8. ExtInv' /\ StagedInv' /\ UnpackedInv' /\ ReservedInv'
    BY <2>1 DEF ExtractionInv, ExtInv, StagedInv, UnpackedInv, ReservedInv, Idle
  <2> QED BY <2>2, <2>5, <2>6, <2>7, <2>8 DEF ExtractionInv
<1> QED BY <1>1, <1>2

LEMMA BudgetInv ==
  ASSUME ExtractionInv, Budget
  PROVE  ExtractionInv'
<1>1. /\ ext.pc = "budget" /\ ext.key \in Archive
      /\ UNCHANGED <<kind, dir, staged, unpacked, booted, running, cut>>
  BY DEF Budget, At, ExtractionInv, ExtInv
<1>2. PICK kept \in 0 .. Cardinality(Files[ext.key]) :
        /\ ext' = [ext EXCEPT !.pc = "evict", !.kept = kept]
        /\ short' = (short \/ kept < Cardinality(Files[ext.key]))
  BY DEF Budget
<1>3. orphans' \in Nat /\ orphans' <= orphans
  BY Numbers DEF Budget
<1>8. kept \in Nat /\ Cardinality(Files[ext.key]) \in Nat
  BY <1>1, Numbers
<1>9. /\ ext'.pc = "evict" /\ ext'.key = ext.key /\ ext'.kept = kept
      /\ ext'.victim = ext.victim
  BY <1>2 DEF ExtractionInv, ExtractionTypeOK
<1>4. ExtractionTypeOK' /\ ExtInv' /\ StagedInv' /\ UnpackedInv'
  <2>1. ExtractionTypeOK'
    BY <1>1, <1>2, <1>3, <1>8 DEF ExtractionInv, ExtractionTypeOK
  <2>2. ExtInv' /\ StagedInv' /\ UnpackedInv'
    BY <1>1, <1>9 DEF ExtractionInv, ExtInv, StagedInv, UnpackedInv
  <2> QED BY <2>1, <2>2
<1>5. OnlyEvictionHalves' /\ DirType'
  BY <1>1, SameFolders DEF ExtractionInv, OnlyEvictionHalves
<1>6. CapKept'
  <2>1. short => short'
    BY <1>2
  <2> QED BY <1>1, <1>3, <2>1, Numbers, SameFolders DEF ExtractionInv, CapKept, CacheSize, Overhang
<1>7. ReservedInv'
  <2>1. ~short' => ~(kept < Cardinality(Files[ext.key]))
    BY <1>2
  <2>2. ~short' => Cardinality(Files[ext'.key]) <= ext'.kept
    BY <1>8, <1>9, <2>1
  <2> QED BY <1>9, <2>2 DEF ReservedInv
<1> QED BY <1>4, <1>5, <1>6, <1>7 DEF ExtractionInv

LEMMA EvictInv ==
  ASSUME ExtractionInv, Evict
  PROVE  ExtractionInv'
<1>1. /\ ext.pc = "evict" /\ ext.key \in Archive
      /\ UNCHANGED <<kind, dir, scratchVars, booted, running, cut, short>>
  BY DEF Evict, At, ExtractionInv, ExtInv
<1>2. \/ ext' = [ext EXCEPT !.pc = "room"]
      \/ \E a \in Archive : IsThere(a) /\ ext' = [ext EXCEPT !.pc = "delete", !.victim = a]
  BY DEF Evict
<1>3. ExtractionTypeOK' /\ ExtInv' /\ StagedInv' /\ UnpackedInv' /\ ReservedInv'
  BY <1>1, <1>2
     DEF ExtractionInv, ExtractionTypeOK, ExtInv, StagedInv, UnpackedInv, ReservedInv, IsThere
<1>4. OnlyEvictionHalves' /\ DirType' /\ CapKept'
  BY <1>1, SameFolders DEF ExtractionInv, OnlyEvictionHalves, CapKept, CacheSize, Overhang
<1> QED BY <1>3, <1>4 DEF ExtractionInv

LEMMA DeleteFileInv ==
  ASSUME ExtractionInv, DeleteFile
  PROVE  ExtractionInv'
<1> DEFINE a == ext.victim
<1>1. /\ ext.pc = "delete" /\ a \in Archive /\ IsThere(a)
      /\ UNCHANGED <<kind, scratchVars, ext, booted, running, short>>
      /\ cut' = cut \cup {a}
  BY DEF DeleteFile, At, ExtractionInv, ExtInv
<1>2. PICK f \in dir[a] : dir' = [dir EXCEPT ![a] = dir[a] \ {f}]
  BY DEF DeleteFile
<1>3. /\ DirType'
      /\ \A b \in Archive \ {a} : dir'[b] = dir[b]
      /\ dir'[a] \subseteq dir[a] /\ dir'[a] # Absent
  <2>1. dir[a] \subseteq Files[a]
    BY <1>1 DEF ExtractionInv, ExtractionTypeOK, IsThere
  <2>2. dir[a] \ {f} # Absent
    BY <1>1, <2>1, ExtractionAssumption
  <2> QED BY <1>1, <1>2, <2>1, <2>2 DEF ExtractionInv, DirType, AllFiles
<1> HIDE DEF a
<1>4. /\ Cardinality(Stored') <= Cardinality(Stored)
      /\ \A b \in Archive : (FilesIn(b))' <= FilesIn(b)
  BY <1>1, <1>3, Deleting DEF ExtractionInv
<1>5. /\ Cardinality(Stored') \in Nat
      /\ \A b \in Archive : (FilesIn(b))' \in Nat
  BY <1>3, StoredFiniteNext, FilesFinite DEF FilesIn, DirType, IsThere, AllFiles
<1>6. ExtractionTypeOK'
  BY <1>1, <1>3 DEF ExtractionInv, ExtractionTypeOK, IsThere
<1>7. OnlyEvictionHalves'
  BY <1>1, <1>3 DEF ExtractionInv, OnlyEvictionHalves, HoldsBoot, IsThere
<1>8. CapKept'
  BY <1>1, <1>4, <1>5, Numbers DEF ExtractionInv, CapKept, CacheSize, Overhang
<1>9. ExtInv' /\ StagedInv' /\ UnpackedInv' /\ ReservedInv'
  BY <1>1, <1>3 DEF ExtractionInv, ExtInv, StagedInv, UnpackedInv, ReservedInv, IsThere, a
<1> QED BY <1>3, <1>6, <1>7, <1>8, <1>9 DEF ExtractionInv

LEMMA DeleteDoneInv ==
  ASSUME ExtractionInv, DeleteDone
  PROVE  ExtractionInv'
<1> DEFINE a == ext.victim
<1>1. /\ ext.pc = "delete" /\ a \in Archive /\ ext.key \in Archive
      /\ UNCHANGED <<kind, scratchVars, booted, running, short>>
      /\ cut' = cut \ {a}
      /\ ext' = [ext EXCEPT !.pc = "evict", !.victim = Absent]
      /\ dir' = [dir EXCEPT ![a] = Absent]
  BY DEF DeleteDone, At, ExtractionInv, ExtInv
<1> HIDE DEF a
<1>2. /\ DirType'
      /\ \A b \in Archive \ {a} : dir'[b] = dir[b]
      /\ dir'[a] = Absent
  BY <1>1 DEF ExtractionInv, DirType, AllFiles
<1>3. /\ Cardinality(Stored') <= Cardinality(Stored)
      /\ \A b \in Archive : (FilesIn(b))' <= FilesIn(b)
  BY <1>1, <1>2, Deleting DEF ExtractionInv
<1>4. /\ Cardinality(Stored') \in Nat
      /\ \A b \in Archive : (FilesIn(b))' \in Nat
  BY <1>2, StoredFiniteNext, FilesFinite DEF FilesIn, DirType, IsThere, AllFiles
<1>5. ExtractionTypeOK'
  BY <1>1, <1>2 DEF ExtractionInv, ExtractionTypeOK, IsThere
<1>6. OnlyEvictionHalves'
  BY <1>1, <1>2 DEF ExtractionInv, OnlyEvictionHalves, HoldsBoot, IsThere
<1>7. CapKept'
  BY <1>1, <1>3, <1>4, Numbers DEF ExtractionInv, CapKept, CacheSize, Overhang
<1>8. ExtInv' /\ StagedInv' /\ UnpackedInv' /\ ReservedInv'
  BY <1>1 DEF ExtractionInv, ExtractionTypeOK, ExtInv, StagedInv, UnpackedInv, ReservedInv
<1> QED BY <1>2, <1>5, <1>6, <1>7, <1>8 DEF ExtractionInv

LEMMA DeleteFailsInv ==
  ASSUME ExtractionInv, DeleteFails
  PROVE  ExtractionInv'
<1>1. /\ ext.pc = "delete" /\ ext.key \in Archive
      /\ UNCHANGED <<kind, dir, scratchVars, booted, running, cut, short>>
      /\ ext' = [ext EXCEPT !.pc = "room", !.victim = Absent]
  BY DEF DeleteFails, At, ExtractionInv, ExtInv
<1>2. ExtractionTypeOK' /\ ExtInv' /\ StagedInv' /\ UnpackedInv' /\ ReservedInv'
  BY <1>1 DEF ExtractionInv, ExtractionTypeOK, ExtInv, StagedInv, UnpackedInv, ReservedInv, IsThere
<1>3. OnlyEvictionHalves' /\ DirType' /\ CapKept'
  BY <1>1, SameFolders DEF ExtractionInv, OnlyEvictionHalves, CapKept, CacheSize, Overhang
<1> QED BY <1>2, <1>3 DEF ExtractionInv

\* Giving an extraction up empties its scratch folder, and leaves the rest.
LEMMA GiveUpInv ==
  ASSUME ExtractionInv, GiveUp, UNCHANGED <<kind, dir, orphans, booted, running, cut, short>>
  PROVE  ExtractionInv'
<1>1. ext' = Idle /\ staged' = {} /\ unpacked' = 0
  BY DEF GiveUp
<1>2. ExtractionTypeOK' /\ ExtInv' /\ StagedInv' /\ UnpackedInv' /\ ReservedInv'
  BY <1>1, ExtractionAssumption
     DEF ExtractionInv, ExtractionTypeOK, ExtInv, StagedInv, UnpackedInv, ReservedInv, IsThere, Idle
<1>3. OnlyEvictionHalves' /\ DirType'
  BY SameFolders DEF ExtractionInv, OnlyEvictionHalves
<1>4. CapKept'
  <2>1. Cardinality(staged') = 0
    BY <1>1, FS_EmptySet
  <2>2. Cardinality(staged') + unpacked' = 0 /\ Overhang' = Overhang /\ orphans' = orphans
    BY <1>1, <2>1 DEF Overhang
  <2>3. Cardinality(Stored') = Cardinality(Stored)
    BY SameFolders
  <2>4. CacheSize' <= CacheSize
    BY <1>1, <2>1, <2>3, Numbers DEF CacheSize
  <2>5. CacheSize' \in Nat
    BY <1>1, <2>1, <2>3, Numbers DEF CacheSize
  <2>6. ~short => /\ Cardinality(Stored) + Cardinality(staged) <= Cap
                  /\ CacheSize <= Cap + Overhang
    BY DEF ExtractionInv, CapKept
  <2>7. ~short => /\ Cardinality(Stored') + Cardinality(staged') <= Cap
                  /\ CacheSize' <= Cap + Overhang
    BY <2>1, <2>3, <2>4, <2>5, <2>6, Numbers
  <2>8. kind = "shadps4" => \A a \in Archive : (FilesIn(a))' <= Cap
    BY SameFolders DEF ExtractionInv, CapKept
  <2> QED BY <2>2, <2>7, <2>8 DEF CapKept
<1> QED BY <1>2, <1>3, <1>4 DEF ExtractionInv

LEMMA RequireRoomInv ==
  ASSUME ExtractionInv, RequireRoom
  PROVE  ExtractionInv'
<1>1. /\ ext.pc = "room" /\ ext.key \in Archive
      /\ UNCHANGED <<kind, dir, orphans, booted, running, cut, short>>
  BY DEF RequireRoom, At, ExtractionInv, ExtInv
<1>2. CASE GiveUp
  BY <1>1, <1>2, GiveUpInv
<1>3. CASE /\ CacheSize + ext.kept <= Cap
           /\ ext' = [ext EXCEPT !.pc = "stage"]
           /\ UNCHANGED <<staged, unpacked>>
  <2>1. /\ ext'.pc = "stage" /\ ext'.key = ext.key /\ ext'.kept = ext.kept
        /\ staged = {} /\ staged' = {} /\ unpacked = 0 /\ unpacked' = 0
    BY <1>1, <1>3 DEF ExtractionInv, ExtractionTypeOK, StagedInv, UnpackedInv
  <2>2. ExtractionTypeOK'
    BY <1>1, <1>3 DEF ExtractionInv, ExtractionTypeOK, IsThere
  <2>3. ExtInv' /\ StagedInv' /\ UnpackedInv'
    BY <1>1, <2>1 DEF ExtInv, StagedInv, UnpackedInv
  <2>4. OnlyEvictionHalves' /\ DirType' /\ CapKept'
    BY <1>1, <1>3, SameFolders DEF ExtractionInv, OnlyEvictionHalves, CapKept, CacheSize, Overhang
  <2>5. ReservedInv'
    <3>1. ext.kept <= Cap /\ Cardinality(Stored) + orphans + ext.kept <= Cap
      BY <1>3, Numbers DEF CacheSize
    <3>2. Stored' = Stored
      BY <1>1, SameFolders
    <3> QED BY <1>1, <2>1, <3>1, <3>2 DEF ExtractionInv, ReservedInv
  <2> QED BY <2>2, <2>3, <2>4, <2>5 DEF ExtractionInv
<1> QED BY <1>2, <1>3 DEF RequireRoom

\* What is unpacked beside the game is within the overhang.
LEMMA PkgFits ==
  ASSUME ExtractionInv
  PROVE  unpacked <= Overhang
<1>1. CASE unpacked = 0
  BY <1>1, Numbers
<1>2. CASE unpacked # 0
  <2>1. kind = "shadps4" /\ unpacked <= Pkg[ext.key] /\ ext.key \in Archive
    BY <1>2 DEF ExtractionInv, UnpackedInv, ExtInv
  <2> QED BY <2>1, Numbers, ExtractionAssumption DEF Overhang
<1> QED BY <1>1, <1>2

\* Unpacking the archive costs what the overhang allows.
LEMMA UnpackArchiveInv ==
  ASSUME ExtractionInv, UnpackArchive
  PROVE  ExtractionInv'
<1>1. /\ ext.pc = "stage" /\ ext.key \in Archive /\ kind = "shadps4"
      /\ unpacked < Pkg[ext.key] /\ unpacked' = unpacked + 1
      /\ UNCHANGED <<kind, dir, staged, orphans, ext, booted, running, cut, short>>
  BY DEF UnpackArchive, At, ExtractionInv, ExtInv
<1>2. /\ Pkg[ext.key] \in Nat /\ Pkg[ext.key] <= LargestPkg /\ unpacked \in Nat
      /\ unpacked' <= Pkg[ext.key] /\ unpacked' \in Nat /\ LargestPkg \in Nat
  BY <1>1, Numbers, ExtractionAssumption
<1>3. ExtractionTypeOK'
  BY <1>1, <1>2 DEF ExtractionInv, ExtractionTypeOK, IsThere, AllFiles
<1>4. ExtInv' /\ StagedInv' /\ UnpackedInv' /\ ReservedInv'
  BY <1>1, <1>2, SameFolders
     DEF ExtractionInv, ExtInv, StagedInv, UnpackedInv, ReservedInv, IsThere
<1>5. OnlyEvictionHalves' /\ DirType'
  BY <1>1, SameFolders DEF ExtractionInv, OnlyEvictionHalves
<1>6. CapKept'
  <2>1. ~short => CacheSize' <= Cap + LargestPkg
    <3>1. staged \subseteq Files[ext.key] /\ Files[ext.key] \in SUBSET AllFiles
      BY <1>1, FilesFinite DEF ExtractionInv, StagedInv
    <3>2. Cardinality(staged) <= Cardinality(Files[ext.key])
      BY <3>1, FewerFiles
    <3>3. ~short => /\ Cardinality(Files[ext.key]) <= ext.kept
                    /\ Cardinality(Stored) + orphans + ext.kept <= Cap
      BY <1>1 DEF ExtractionInv, ReservedInv
    <3> QED BY <1>1, <1>2, <3>2, <3>3, Numbers, SameFolders DEF CacheSize
  <2> QED BY <1>1, <2>1, SameFolders DEF ExtractionInv, CapKept, Overhang
<1> QED BY <1>3, <1>4, <1>5, <1>6 DEF ExtractionInv

LEMMA StageFileInv ==
  ASSUME ExtractionInv, StageFile
  PROVE  ExtractionInv'
<1>1. /\ ext.pc = "stage" /\ ext.key \in Archive
      /\ UNCHANGED <<kind, dir, unpacked, orphans, ext, booted, running, cut, short>>
  BY DEF StageFile, At, ExtractionInv, ExtInv
<1>2. staged' \subseteq Files[ext.key]
  BY <1>1 DEF StageFile, ExtractionInv, StagedInv
<1>3. /\ Files[ext.key] \in SUBSET AllFiles
      /\ staged' \in SUBSET Files[ext.key]
  BY <1>1, <1>2, FilesFinite
<1>4. Cardinality(staged') <= Cardinality(Files[ext.key])
  BY <1>3, FewerFiles
<1>5. Cardinality(staged') \in Nat
  BY <1>3, FilesFinite
<1>6. ExtractionTypeOK'
  BY <1>1, <1>3 DEF ExtractionInv, ExtractionTypeOK, IsThere, AllFiles
<1>7. ExtInv' /\ StagedInv' /\ UnpackedInv' /\ ReservedInv'
  BY <1>1, <1>2, SameFolders DEF ExtractionInv, ExtInv, StagedInv, UnpackedInv, ReservedInv, IsThere
<1>8. OnlyEvictionHalves' /\ DirType'
  BY <1>1, SameFolders DEF ExtractionInv, OnlyEvictionHalves
<1>9. CapKept'
  <2>1. ~short => /\ Cardinality(Stored') + Cardinality(staged') <= Cap
                  /\ CacheSize' <= Cap + Overhang'
    <3>1. ~short => /\ Cardinality(Files[ext.key]) <= ext.kept
                    /\ Cardinality(Stored) + orphans + ext.kept <= Cap
      BY <1>1 DEF ExtractionInv, ReservedInv
    <3>2. unpacked <= Overhang /\ Overhang' = Overhang
      BY <1>1, Numbers, PkgFits DEF Overhang
    <3> QED BY <1>1, <1>4, <1>5, <3>1, <3>2, Numbers, SameFolders DEF CacheSize
  <2> QED BY <1>1, <2>1, SameFolders DEF ExtractionInv, CapKept
<1> QED BY <1>6, <1>7, <1>8, <1>9 DEF ExtractionInv

LEMMA StageDoneInv ==
  ASSUME ExtractionInv, StageDone
  PROVE  ExtractionInv'
<1>1. /\ ext.pc = "stage" /\ ext.key \in Archive /\ staged = Files[ext.key]
      /\ UNCHANGED <<kind, dir, orphans, booted, running, cut, short>>
  BY DEF StageDone, At, ExtractionInv, ExtInv
<1>2. CASE GiveUp
  BY <1>1, <1>2, GiveUpInv
<1>3. CASE ~GiveUp
  <2>1. /\ ext' = [ext EXCEPT !.pc = "place"] /\ UNCHANGED <<staged, unpacked>>
        /\ ~(kind = "shadps4" /\ Cardinality(staged) > ext.kept /\ Cardinality(staged) > Cap)
    BY <1>3 DEF StageDone
  <2>2. ext'.pc = "place" /\ ext'.key = ext.key
    BY <2>1 DEF ExtractionInv, ExtractionTypeOK
  <2>3. ExtractionTypeOK'
    BY <1>1, <2>1 DEF ExtractionInv, ExtractionTypeOK, IsThere, AllFiles
  <2>4. ExtInv' /\ StagedInv' /\ UnpackedInv'
    BY <1>1, <2>1, <2>2 DEF ExtractionInv, ExtInv, StagedInv, UnpackedInv, IsThere
  <2>5. OnlyEvictionHalves' /\ DirType' /\ CapKept'
    BY <1>1, <2>1, SameFolders DEF ExtractionInv, OnlyEvictionHalves, CapKept, CacheSize, Overhang
  <2>6. ReservedInv'
    <3>1. ext.kept <= Cap
      BY <1>1 DEF ExtractionInv, ReservedInv
    <3> QED BY <1>1, <2>1, <2>2, <3>1, Numbers DEF ReservedInv
  <2> QED BY <2>3, <2>4, <2>5, <2>6 DEF ExtractionInv
<1> QED BY <1>2, <1>3

LEMMA PlaceInv ==
  ASSUME ExtractionInv, Place
  PROVE  ExtractionInv'
<1>1. /\ ext.pc = "place" /\ ext.key \in Archive /\ staged = Files[ext.key]
      /\ UNCHANGED <<kind, orphans, booted, running, short>>
  BY DEF Place, At, ExtractionInv, ExtInv, StagedInv, UnpackedInv
<1>2. CASE dir[ext.key] \notin {Absent, {}}
  BY <1>1, <1>2, GiveUpInv DEF Place
<1>3. CASE dir[ext.key] \in {Absent, {}}
  <2>1. /\ dir' = [dir EXCEPT ![ext.key] = staged]
        /\ ext' = [ext EXCEPT !.pc = "relook"]
        /\ cut' = cut \ {ext.key}
        /\ staged' = {} /\ UNCHANGED unpacked
    BY <1>3 DEF Place
  <2>2. staged \in SUBSET AllFiles
    BY <1>1, FilesFinite
  <2>3. /\ DirType'
        /\ \A b \in Archive \ {ext.key} : dir'[b] = dir[b]
        /\ dir'[ext.key] = Files[ext.key]
        /\ dir'[ext.key] # Absent
    BY <1>1, <2>1, <2>2, ExtractionAssumption DEF ExtractionInv, DirType, AllFiles
  <2>4. Cardinality(Stored') <= Cardinality(Stored) + Cardinality(staged)
    BY <1>1, <2>1, <2>2, Placing DEF ExtractionInv
  <2>5. Cardinality(Stored') \in Nat /\ Cardinality(staged') = 0
    BY <2>1, StoredFiniteNext, FS_EmptySet
  <2>6. ExtractionTypeOK'
    BY <1>1, <2>1, <2>3 DEF ExtractionInv, ExtractionTypeOK, AllFiles
  <2>7. OnlyEvictionHalves'
    BY <1>1, <2>1, <2>3 DEF ExtractionInv, OnlyEvictionHalves, HoldsBoot, IsThere
  <2>8. CapKept'
    <3>1. ~short => /\ Cardinality(Stored') + Cardinality(staged') <= Cap
                    /\ CacheSize' <= Cap + Overhang'
      BY <1>1, <2>1, <2>4, <2>5, Numbers DEF ExtractionInv, CapKept, CacheSize, Overhang
    <3>2. kind = "shadps4" => \A a \in Archive : (FilesIn(a))' <= Cap
      <4> SUFFICES ASSUME kind = "shadps4", NEW a \in Archive PROVE (FilesIn(a))' <= Cap
        OBVIOUS
      <4>1. CASE a = ext.key
        <5>1. Cardinality(staged) <= Cap
          BY <1>1 DEF ExtractionInv, ReservedInv
        <5> QED BY <1>1, <4>1, <2>3, <5>1 DEF FilesIn, IsThere
      <4>2. CASE a # ext.key
        BY <4>2, <2>3 DEF FilesIn, IsThere, ExtractionInv, CapKept
      <4> QED BY <4>1, <4>2
    <3> QED BY <1>1, <3>1, <3>2, ExtractionAssumption DEF CapKept
  <2>9. ExtInv' /\ StagedInv' /\ UnpackedInv' /\ ReservedInv'
    BY <1>1, <2>1 DEF ExtractionInv, ExtractionTypeOK, ExtInv, StagedInv, UnpackedInv, ReservedInv
  <2> QED BY <2>3, <2>6, <2>7, <2>8, <2>9 DEF ExtractionInv
<1> QED BY <1>2, <1>3

LEMMA RelookInv ==
  ASSUME ExtractionInv, Relook
  PROVE  ExtractionInv'
<1>1. /\ ext.pc = "relook" /\ ext.key \in Archive /\ staged = {}
      /\ ext' = Idle /\ booted' = ext.key /\ unpacked' = 0
      /\ UNCHANGED <<kind, dir, staged, orphans, running, cut, short>>
  BY DEF Relook, At, ExtractionInv, ExtInv, StagedInv
<1>2. ExtractionTypeOK' /\ ExtInv' /\ StagedInv' /\ UnpackedInv' /\ ReservedInv'
  BY <1>1
     DEF ExtractionInv, ExtractionTypeOK, ExtInv, StagedInv, UnpackedInv, ReservedInv, IsThere, Idle
<1>3. OnlyEvictionHalves' /\ DirType' /\ CapKept'
  BY <1>1, Numbers, SameFolders
     DEF ExtractionInv, OnlyEvictionHalves, CapKept, CacheSize, Overhang
<1> QED BY <1>2, <1>3 DEF ExtractionInv

LEMMA EmulatorEndsInv ==
  ASSUME ExtractionInv, EmulatorEnds
  PROVE  ExtractionInv'
<1>1. booted' = Absent /\ UNCHANGED <<kind, dir, scratchVars, ext, running, cut, short>>
  BY DEF EmulatorEnds
<1>2. ExtractionTypeOK' /\ ExtInv' /\ StagedInv' /\ UnpackedInv' /\ ReservedInv'
  BY <1>1, SameFolders
     DEF ExtractionInv, ExtractionTypeOK, ExtInv, StagedInv, UnpackedInv, ReservedInv, IsThere
<1>3. OnlyEvictionHalves' /\ DirType' /\ CapKept'
  BY <1>1, SameFolders DEF ExtractionInv, OnlyEvictionHalves, CapKept, CacheSize, Overhang
<1> QED BY <1>2, <1>3 DEF ExtractionInv

\* What was unpacked when the broker died stays, as an orphan.
LEMMA BrokerDiesInv ==
  ASSUME ExtractionInv, BrokerDies
  PROVE  ExtractionInv'
<1>1. /\ running' = FALSE /\ staged' = {} /\ ext' = Idle /\ booted' = Absent
      /\ orphans' = orphans + Cardinality(staged) + unpacked /\ unpacked' = 0
      /\ UNCHANGED <<kind, dir, cut, short>>
  BY DEF BrokerDies
<1>2. ExtractionTypeOK' /\ ExtInv' /\ StagedInv' /\ UnpackedInv' /\ ReservedInv'
  <2>1. orphans' \in Nat
    BY <1>1, Numbers
  <2>2. ExtractionTypeOK'
    BY <1>1, <2>1, ExtractionAssumption DEF ExtractionInv, ExtractionTypeOK, IsThere, Idle
  <2> QED BY <1>1, <2>2 DEF ExtInv, StagedInv, UnpackedInv, ReservedInv, Idle
<1>3. OnlyEvictionHalves' /\ DirType'
  BY <1>1, SameFolders DEF ExtractionInv, OnlyEvictionHalves
<1>4. CapKept'
  <2>1. Cardinality(staged') = 0
    BY <1>1, FS_EmptySet
  <2> QED BY <1>1, <2>1, Numbers, SameFolders DEF ExtractionInv, CapKept, CacheSize, Overhang
<1> QED BY <1>2, <1>3, <1>4 DEF ExtractionInv

LEMMA SweepStaleInv ==
  ASSUME ExtractionInv, SweepStale
  PROVE  ExtractionInv'
<1>1. /\ running' = TRUE
      /\ UNCHANGED <<kind, dir, staged, unpacked, ext, booted, cut, short>>
  BY DEF SweepStale
<1>2. orphans' \in Nat /\ orphans' <= orphans
  BY Numbers DEF SweepStale
<1>3. Stored' = Stored
  BY <1>1, SameFolders
<1>4. ExtractionTypeOK' /\ ExtInv' /\ StagedInv' /\ UnpackedInv'
  BY <1>1, <1>2 DEF ExtractionInv, ExtractionTypeOK, ExtInv, StagedInv, UnpackedInv, IsThere
<1>5. ReservedInv'
  BY <1>1, <1>2, <1>3, Numbers DEF ExtractionInv, ReservedInv
<1>6. OnlyEvictionHalves' /\ DirType'
  BY <1>1, SameFolders DEF ExtractionInv, OnlyEvictionHalves
<1>7. CapKept'
  BY <1>1, <1>2, <1>3, Numbers, SameFolders DEF ExtractionInv, CapKept, CacheSize, Overhang
<1> QED BY <1>4, <1>5, <1>6, <1>7 DEF ExtractionInv

LEMMA ExtractionStep == ExtractionInv /\ [ExtractionNext]_extractionVars => ExtractionInv'
<1> SUFFICES ASSUME ExtractionInv, [ExtractionNext]_extractionVars PROVE ExtractionInv'
  OBVIOUS
<1>1. CASE \E a \in Archive : Extract(a)
  BY <1>1, ExtractInv
<1>2. CASE StageFails
  BY <1>2, GiveUpInv DEF StageFails
<1>3. CASE UNCHANGED extractionVars
  BY <1>3
     DEF extractionVars, scratchVars, ExtractionInv, ExtractionTypeOK, OnlyEvictionHalves, CapKept,
         DirType, ExtInv, StagedInv, UnpackedInv, ReservedInv, HoldsBoot, IsThere, FilesIn,
         CacheSize, Stored, AllFiles, Overhang
<1> QED
  BY <1>1, <1>2, <1>3, BudgetInv, EvictInv, DeleteFileInv, DeleteDoneInv, DeleteFailsInv,
     RequireRoomInv, UnpackArchiveInv, StageFileInv, StageDoneInv, PlaceInv, RelookInv,
     EmulatorEndsInv, BrokerDiesInv, SweepStaleInv
     DEF ExtractionNext

-----------------------------------------------------------------------------
(* The extraction cache is sound whatever dies or fails while an archive is   *)
(* unpacked: no folder with a boot target is half of a game but by an         *)
(* eviction cut short; unless an estimate fell short the games stay under the *)
(* cap, and all of the cache with its scratch under the cap and, for shadPS4, *)
(* one .pkg more; no shadPS4 title is larger than the cap                     *)
(* (extraction_cache.py extract, _evict_lru, _require_room; shadps4.py        *)
(* _stage_pkg).                                                               *)
THEOREM CacheSoundHolds == ExtractionSpec => []CacheSound
<1>1. ExtractionInv => CacheSound
  BY DEF ExtractionInv, CacheSound
<1> QED BY <1>1, ExtractionInitially, ExtractionStep, PTL DEF ExtractionSpec
=============================================================================
