----------------------------- MODULE MemoryCard -----------------------------
(***************************************************************************)
(* The Slot 1 memory card of a pooled container: RomM captures it and lays *)
(* another player's card down in its place, between sessions.              *)
(*                                                                         *)
(* A card is one value: the image it holds, or Partial once some of its    *)
(* files are gone.  A step is one file system call of memcard.replace, so  *)
(* that the broker can die, or the disk fail, between any two.             *)
(*                                                                         *)
(* Left out: single-file cards (both routes refuse them and change         *)
(* nothing), placing members (a misplaced one refuses the card before      *)
(* anything is touched), and size limits.                                  *)
(***************************************************************************)
EXTENDS Naturals

CONSTANTS
  Image,    \* what a game writes to its card; each written at most once
  Request,  \* PUTs of a card
  Fault,    \* what may fail on disk: a subset of Faults
  NoCard, Blank, Partial

Faults == {"stage", "rename", "remove", "read"}

ASSUME CardAssumption ==
  /\ NoCard \notin Image \cup {Blank, Partial}
  /\ Blank \notin Image \cup {Partial}
  /\ Partial \notin Image
  /\ "free" \notin Request
  /\ {"absent", "failed"} \cap (Image \cup {Partial}) = {} \* an answer is no card
  /\ Fault \subseteq Faults

VARIABLES
  card, staging, backup, \* the card, .<card>.new and .<card>.old
  lock,      \* the PUT that holds _SESSION_LOCK and memcard.LOCK, or "free"
  phase,     \* what its memcard.replace does next, "idle" outside one
  before,    \* the card that replace found
  put,       \* how far each PUT got, or how it was answered
  image,     \* the card each PUT carries
  session,   \* a session is up, and its emulator has the card open
  captured,  \* RomM captured the slot since the last session, or heard it is absent
  library,   \* the cards RomM has filed
  owed,      \* the last card a game wrote, NoCard before any
  written,   \* every image a game has written
  hasty      \* RomM has activated with a PUT of its own not answered

diskVars == <<card, staging, backup>>
putVars  == <<lock, phase, before, put, image>>
romm     == <<captured, library>>
play     == <<session, owed, written, hasty>>
vars     == <<diskVars, putVars, romm, play>>

Content == Image \cup {Blank, Partial}
Dir == Content \cup {NoCard}

Init ==
  /\ card = NoCard /\ staging = NoCard /\ backup = NoCard
  /\ lock = "free" /\ phase = "idle" /\ before = NoCard
  /\ put = [r \in Request |-> "new"]
  /\ image = [r \in Request |-> Blank]
  /\ session = FALSE
  /\ captured = FALSE /\ library = {}
  /\ owed = NoCard /\ written = {} /\ hasty = FALSE

-----------------------------------------------------------------------------
(* Sessions, as far as the card goes. *)

\* Activate with the card synced on its own routes; launch sees to it that
\* there is a card to open (memcard.ensure_card).
Activate ==
  /\ ~session /\ lock = "free"
  /\ session' = TRUE
  /\ card' = IF card = NoCard THEN Blank ELSE card
  /\ captured' = FALSE
  /\ hasty' = (hasty \/ \E r \in Request : put[r] = "uploading")
  /\ UNCHANGED <<staging, backup, putVars, library, owed, written>>

\* The game saves.
Play(i) ==
  /\ session /\ i \notin written
  /\ card' = i /\ owed' = i
  /\ written' = written \cup {i}
  /\ UNCHANGED <<staging, backup, putVars, romm, session, hasty>>

Exit ==
  /\ session
  /\ session' = FALSE
  /\ UNCHANGED <<diskVars, putVars, romm, owed, written, hasty>>

-----------------------------------------------------------------------------
(* GET: memcard.build_archive, refused while a session or a PUT is at work. *)

\* What RomM makes of the answer: a card, nothing there, or not captured.
\* Variant: an unreadable card is answered as none.
AnswersSwallowingErrors ==
  IF card \in {NoCard, Blank} THEN {"absent"}
  ELSE {card} \cup IF "read" \in Fault THEN {"absent"} ELSE {}
Answers ==
  IF card \in {NoCard, Blank} THEN {"absent"}
  ELSE {card} \cup IF "read" \in Fault THEN {"failed"} ELSE {}

Capture ==
  /\ ~session /\ lock = "free"
  /\ \E answer \in Answers :
       /\ captured' = (captured \/ answer # "failed")
       /\ library' = IF answer \in {"absent", "failed"} THEN library
                     ELSE library \cup {answer}
  /\ UNCHANGED <<diskVars, putVars, play>>

-----------------------------------------------------------------------------
(* PUT. *)

\* RomM sends a card it has filed, or an empty one, once the slot's own card is
\* accounted for.  The body is staged on disk before any lock is taken.
Send(r, i) ==
  /\ put[r] = "new" /\ captured /\ ~session
  /\ i \in library \cup {Blank}
  /\ put' = [put EXCEPT ![r] = "uploading"]
  /\ image' = [image EXCEPT ![r] = i]
  /\ UNCHANGED <<diskVars, lock, phase, before, romm, play>>

\* A card that cannot be read, or a lock or a session in the way (400, 409).
Refuse(r) ==
  /\ put[r] = "uploading"
  /\ put' = [put EXCEPT ![r] = "refused"]
  /\ UNCHANGED <<diskVars, lock, phase, before, image, romm, play>>

\* _refuse_while_session_active, and a variant that trusts the lock alone.
MayReplaceUnchecked == lock = "free"
MayReplace == lock = "free" /\ ~session

Begin(r) ==
  /\ put[r] = "uploading" /\ MayReplace
  /\ put' = [put EXCEPT ![r] = "replacing"]
  /\ lock' = r /\ phase' = "clear staging" /\ before' = card
  /\ UNCHANGED <<diskVars, image, romm, play>>

\* shutil.rmtree(dir, ignore_errors=True): all of it, or what the disk let go.
Removed(dir) ==
  {NoCard} \cup IF "remove" \in Fault /\ dir # NoCard THEN {Partial} ELSE {}

ClearStaging ==
  /\ phase = "clear staging"
  /\ staging' \in Removed(staging)
  /\ phase' = "clear backup"
  /\ UNCHANGED <<card, backup, lock, before, put, image, romm, play>>

ClearBackup ==
  /\ phase = "clear backup"
  /\ backup' \in Removed(backup)
  /\ phase' = "stage"
  /\ UNCHANGED <<card, staging, lock, before, put, image, romm, play>>

\* Staging the image; mkdir refuses a staging directory that is still there.
Stage ==
  /\ phase = "stage" /\ staging = NoCard
  /\ staging' = image[lock]
  /\ phase' = "move aside"
  /\ UNCHANGED <<card, backup, lock, before, put, image, romm, play>>

StageFails ==
  /\ phase = "stage" /\ (staging # NoCard \/ "stage" \in Fault)
  /\ staging' \in {staging, Partial}
  /\ phase' = "undo staging"
  /\ UNCHANGED <<card, backup, lock, before, put, image, romm, play>>

\* A variant that deletes the old card to make room.
MoveAsideByDeleting ==
  /\ phase = "move aside"
  /\ card' = NoCard
  /\ phase' = "move in"
  /\ UNCHANGED <<staging, backup, lock, before, put, image, romm, play>>

MoveAside ==
  /\ phase = "move aside"
  /\ IF card = NoCard THEN UNCHANGED <<card, backup>>
     ELSE backup = NoCard /\ backup' = card /\ card' = NoCard
  /\ phase' = "move in"
  /\ UNCHANGED <<staging, lock, before, put, image, romm, play>>

\* os.replace onto a directory that is not empty fails as well.
MoveAsideFails ==
  /\ phase = "move aside" /\ card # NoCard
  /\ backup # NoCard \/ "rename" \in Fault
  /\ phase' = "undo staging"
  /\ UNCHANGED <<diskVars, lock, before, put, image, romm, play>>

\* A variant that copies the new card in, file by file.
MoveInByCopying ==
  /\ phase = "move in"
  /\ card' = IF card = Partial THEN staging ELSE Partial
  /\ phase' = IF card = Partial THEN "drop backup" ELSE "move in"
  /\ UNCHANGED <<staging, backup, lock, before, put, image, romm, play>>

MoveIn ==
  /\ phase = "move in"
  /\ card' = staging /\ staging' = NoCard
  /\ phase' = "drop backup"
  /\ UNCHANGED <<backup, lock, before, put, image, romm, play>>

MoveInFails ==
  /\ phase = "move in" /\ "rename" \in Fault
  /\ phase' = "undo staging"
  /\ UNCHANGED <<diskVars, lock, before, put, image, romm, play>>

\* The PUT is answered and both locks are let go, and a variant that keeps them.
AnswerHoldingLock(a) ==
  /\ put' = [put EXCEPT ![lock] = a]
  /\ phase' = "idle" /\ UNCHANGED lock
Answer(a) ==
  /\ put' = [put EXCEPT ![lock] = a]
  /\ phase' = "idle" /\ lock' = "free"

DropBackup ==
  /\ phase = "drop backup"
  /\ backup' \in Removed(backup)
  /\ Answer("ok")
  /\ UNCHANGED <<card, staging, before, image, romm, play>>

UndoStaging ==
  /\ phase = "undo staging"
  /\ staging' \in Removed(staging)
  /\ phase' = "undo backup"
  /\ UNCHANGED <<card, backup, lock, before, put, image, romm, play>>

\* The old card goes back where it was.  When it cannot, it stays in backup.
NothingToRestore == FALSE \* a variant: the backup goes, the card there or not
MustRestore == card = NoCard /\ backup # NoCard

Restore ==
  /\ phase = "undo backup" /\ MustRestore
  /\ card' = backup /\ backup' = NoCard
  /\ Answer("error")
  /\ UNCHANGED <<staging, before, image, romm, play>>

RestoreFails ==
  /\ phase = "undo backup" /\ MustRestore /\ "rename" \in Fault
  /\ Answer("error")
  /\ UNCHANGED <<diskVars, before, image, romm, play>>

UndoBackup ==
  /\ phase = "undo backup" /\ ~MustRestore
  /\ backup' \in Removed(backup)
  /\ Answer("error")
  /\ UNCHANGED <<card, staging, before, image, romm, play>>

-----------------------------------------------------------------------------
\* The broker dies, in the middle of a file system call or between two, and
\* comes back with nothing in memory; an orphaned emulator is killed as it does.
\* Torn(dir, phases): what is left of a directory the call was working on.
Torn(dir, phases) ==
  {dir} \cup IF phase \in phases THEN {Partial} ELSE {}

Crash ==
  /\ staging' \in IF staging = NoCard /\ phase # "stage" THEN {NoCard}
                  ELSE Torn(staging, {"clear staging", "stage", "undo staging"})
  /\ backup' \in IF backup = NoCard \/ (phase = "undo backup" /\ MustRestore) THEN {backup}
                 ELSE Torn(backup, {"clear backup", "drop backup", "undo backup"})
  /\ lock' = "free" /\ phase' = "idle"
  /\ put' = [r \in Request |-> IF put[r] \in {"uploading", "replacing"}
                                THEN "dropped" ELSE put[r]]
  /\ session' = FALSE
  /\ UNCHANGED <<card, before, image, romm, owed, written, hasty>>

ReplaceStep ==
  \/ ClearStaging \/ ClearBackup \/ Stage \/ StageFails
  \/ MoveAside \/ MoveAsideFails \/ MoveIn \/ MoveInFails \/ DropBackup
  \/ UndoStaging \/ Restore \/ RestoreFails \/ UndoBackup

Next ==
  \/ Activate \/ Exit \/ Capture \/ Crash \/ ReplaceStep
  \/ \E i \in Image : Play(i)
  \/ \E r \in Request : Refuse(r) \/ Begin(r)
                        \/ \E i \in library \cup {Blank} : Send(r, i)

Spec == Init /\ [][Next]_vars

\* Each file system call returns.
FairSpec == Spec /\ WF_vars(ReplaceStep)

-----------------------------------------------------------------------------
Phases == {"idle", "clear staging", "clear backup", "stage", "move aside", "move in",
           "drop backup", "undo staging", "undo backup"}

\* Every variable keeps its type.
TypeOK ==
  /\ card \in Dir /\ staging \in Dir /\ backup \in Dir /\ before \in Dir
  /\ lock \in Request \cup {"free"}
  /\ phase \in Phases
  /\ put \in [Request -> {"new", "uploading", "replacing", "ok", "error",
                          "refused", "dropped"}]
  /\ image \in [Request -> Content]
  /\ session \in BOOLEAN /\ captured \in BOOLEAN /\ hasty \in BOOLEAN
  /\ library \in SUBSET Content
  /\ owed \in Image \cup {NoCard}
  /\ written \in SUBSET Image

\* At every moment of a replace, and so wherever it is cut short, either the old
\* card or the new one is whole: in place, or the old one in backup
\* (memcard.replace, "a failure part way through never leaves a half-wiped card").
EitherCardWhole ==
  phase # "idle" =>
    \/ card = before \/ card = image[lock]
    \/ card = NoCard /\ backup = before

\* Of the card itself no part is ever missing.
NeverHalfWiped == card # Partial

\* However a replace is cut short or fails, nobody ever finds half a card: the two together.
CardWhole == EitherCardWhole /\ NeverHalfWiped

\* The card is not swapped under a game that has it open, however late a PUT's
\* upload ends (put_memory_card, "Refused while a session is up").
NoSwapUnderTheGame == session => phase = "idle"

\* To whoever looks at it from outside, the card is the register of CardRegister: it
\* changes as a whole and never under a game, wherever a replace is cut short; what a cut
\* short replace can do is leave the old card in backup (memcard.replace, "the renames are
\* atomic").
Held == IF card # NoCard THEN card ELSE IF backup = Partial THEN NoCard ELSE backup
Swapping == phase \notin {"idle", "clear staging", "clear backup"}
Aside == card = NoCard /\ Held # NoCard /\ ~Swapping
Register == INSTANCE CardRegister WITH
  Card <- Image \cup {Blank}, held <- Held, aside <- Aside, playing <- session
ImplementsCardRegister == Register!Spec

\* The last thing a game saved is on the card or filed with RomM, as long as
\* RomM keeps its order: capture after exit, hydrate before activate
\* (put_memory_card, "RomM hydrates before activate and evacuates after exit").
NoSaveLost == ~hasty /\ owed # NoCard => owed \in library \cup {card}

\* What a PUT is answered is what became of the card.
AnswersAreTrue ==
  [][\A r \in Request :
       /\ put[r] = "replacing" /\ put'[r] = "ok" => card' = image[r]
       /\ put[r] = "replacing" /\ put'[r] = "error" =>
            card' = before \/ (card' = NoCard /\ backup' = before)]_vars

\* A replace ends, and the locks it holds come free.
LockComesFree == lock # "free" ~> lock = "free"

=============================================================================
