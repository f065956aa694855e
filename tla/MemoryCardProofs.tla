-------------------------- MODULE MemoryCardProofs --------------------------
(***************************************************************************)
(* Proofs about MemoryCard, for any number of PUTs and images, a broker    *)
(* that dies anywhere and a disk that fails; what is said of the card's    *)
(* content holds as long as what is deleted goes away ("remove" \notin     *)
(* Fault): a replace starts from an empty backup only then.                *)
(***************************************************************************)
EXTENDS MemoryCard, TLAPS

USE CardAssumption

-----------------------------------------------------------------------------
(* The inductive invariant. *)

\* Who holds the lock is the PUT that replaces, and no session is up meanwhile.
LockInv ==
  /\ lock = "free" <=> phase = "idle"
  /\ \A r \in Request : put[r] = "replacing" <=> r = lock
  /\ session => phase = "idle"

\* Nothing RomM files or sends is a card with a file missing.
WholeInv ==
  /\ card # Partial /\ before # Partial
  /\ Partial \notin library
  /\ \A r \in Request : image[r] # Partial

\* Where the old and the new card are, by the call memcard.replace makes next.
SwapInv ==
  /\ phase \in {"clear staging", "clear backup"} => card = before
  /\ phase = "stage" => card = before /\ backup = NoCard
  /\ phase = "move aside" => card = before /\ backup = NoCard /\ staging = image[lock]
  /\ phase = "move in" => card = NoCard /\ backup = before /\ staging = image[lock]
  /\ phase = "drop backup" => card = image[lock]
  /\ phase \in {"undo staging", "undo backup"} =>
       \/ card = before /\ backup = NoCard
       \/ card = NoCard /\ backup = before

CardInv == TypeOK /\ LockInv /\ WholeInv /\ SwapInv

LEMMA InitInv == Init => CardInv
BY DEF Init, CardInv, TypeOK, LockInv, WholeInv, SwapInv, Dir, Content, Phases

\* What is deleted goes away.
LEMMA RemovedAll ==
  ASSUME "remove" \notin Fault, NEW dir
  PROVE  Removed(dir) = {NoCard}
BY DEF Removed

-----------------------------------------------------------------------------
(* Types. *)

PutTable == [Request -> {"new", "uploading", "replacing", "ok", "error", "refused", "dropped"}]

\* What the sessions and RomM keep, and what the disk and the locks keep.
TypePlay ==
  /\ session \in BOOLEAN /\ captured \in BOOLEAN /\ hasty \in BOOLEAN
  /\ library \in SUBSET Content /\ owed \in Image \cup {NoCard} /\ written \in SUBSET Image
TypeSwap ==
  /\ card \in Dir /\ staging \in Dir /\ backup \in Dir /\ before \in Dir
  /\ lock \in Request \cup {"free"} /\ phase \in Phases
TypePuts == put \in PutTable /\ image \in [Request -> Content]

LEMMA TypeParts == TypeOK <=> TypePlay /\ TypeSwap /\ TypePuts
BY DEF TypeOK, TypePlay, TypeSwap, TypePuts, PutTable

LEMMA TypeReplace ==
  ASSUME TypePlay, TypeSwap, TypePuts, LockInv, ReplaceStep
  PROVE  TypePlay' /\ TypeSwap' /\ TypePuts'
<1>1. TypePlay'
  <2>1. UNCHANGED <<captured, library>> /\ UNCHANGED <<session, owed, written, hasty>>
    BY DEF ReplaceStep, ClearStaging, ClearBackup, Stage, StageFails, MoveAside, MoveAsideFails,
           MoveIn, MoveInFails, DropBackup, UndoStaging, Restore, RestoreFails, UndoBackup,
           romm, play
  <2> QED
    BY <2>1 DEF TypePlay
<1>2. TypePuts'
  <2>1. UNCHANGED image
    BY DEF ReplaceStep, ClearStaging, ClearBackup, Stage, StageFails, MoveAside, MoveAsideFails,
           MoveIn, MoveInFails, DropBackup, UndoStaging, Restore, RestoreFails, UndoBackup
  <2>2. UNCHANGED put \/ Answer("ok") \/ Answer("error")
    BY DEF ReplaceStep, ClearStaging, ClearBackup, Stage, StageFails, MoveAside, MoveAsideFails,
           MoveIn, MoveInFails, DropBackup, UndoStaging, Restore, RestoreFails, UndoBackup
  <2> QED
    BY <2>1, <2>2 DEF TypePuts, PutTable, Answer
<1>3. TypeSwap'
  <2> USE DEF TypeSwap, Dir, Phases, Removed
  <2>1. CASE ClearStaging \/ ClearBackup \/ UndoStaging
    BY <2>1 DEF ClearStaging, ClearBackup, UndoStaging, Content
  <2>2. CASE Stage
    <3>1. image[lock] \in Content
      BY <2>2 DEF Stage, TypePuts, LockInv
    <3> QED
      BY <2>2, <3>1 DEF Stage
  <2>3. CASE StageFails \/ MoveAsideFails \/ MoveInFails
    BY <2>3 DEF StageFails, MoveAsideFails, MoveInFails, diskVars, Content
  <2>4. CASE MoveAside \/ MoveIn
    BY <2>4 DEF MoveAside, MoveIn
  <2>5. CASE DropBackup \/ UndoBackup
    BY <2>5 DEF DropBackup, UndoBackup, Answer, Content
  <2>6. CASE Restore \/ RestoreFails
    BY <2>6 DEF Restore, RestoreFails, Answer, diskVars
  <2> QED
    BY <2>1, <2>2, <2>3, <2>4, <2>5, <2>6 DEF ReplaceStep
<1> QED
  BY <1>1, <1>2, <1>3

LEMMA TypeStep ==
  ASSUME TypePlay, TypeSwap, TypePuts, LockInv, [Next]_vars
  PROVE  TypePlay' /\ TypeSwap' /\ TypePuts'
<1>1. CASE Activate
  BY <1>1 DEF Activate, putVars, TypePlay, TypeSwap, TypePuts, Dir, Content
<1>2. ASSUME NEW i \in Image, Play(i)
      PROVE  TypePlay' /\ TypeSwap' /\ TypePuts'
  BY <1>2 DEF Play, putVars, romm, TypePlay, TypeSwap, TypePuts, Dir, Content
<1>3. CASE Exit
  BY <1>3 DEF Exit, diskVars, putVars, romm, TypePlay, TypeSwap, TypePuts
<1>4. CASE Capture
  <2>1. Answers \subseteq Dir \cup {"absent", "failed"}
    BY DEF Answers, TypeSwap
  <2>2. UNCHANGED <<card, staging, backup, lock, phase, before>> /\ UNCHANGED <<put, image>>
    BY <1>4 DEF Capture, diskVars, putVars
  <2>3. UNCHANGED <<session, owed, written, hasty>> /\ captured' \in BOOLEAN
    BY <1>4 DEF Capture, play, TypePlay
  <2>4. library' \in SUBSET Content
    BY <1>4, <2>1 DEF Capture, Answers, TypeSwap, TypePlay, Dir
  <2> QED
    BY <2>2, <2>3, <2>4 DEF TypePlay, TypeSwap, TypePuts
<1>5. ASSUME NEW r \in Request, NEW i \in library \cup {Blank}, Send(r, i)
      PROVE  TypePlay' /\ TypeSwap' /\ TypePuts'
  <2>1. i \in Content
    BY DEF TypePlay, Content
  <2>2. TypePuts'
    BY <1>5, <2>1 DEF Send, TypePuts, PutTable
  <2> QED
    BY <1>5, <2>2 DEF Send, diskVars, romm, play, TypePlay, TypeSwap
<1>6. ASSUME NEW r \in Request, Refuse(r) \/ Begin(r)
      PROVE  TypePlay' /\ TypeSwap' /\ TypePuts'
  <2>1. TypePuts'
    BY <1>6 DEF Refuse, Begin, TypePuts, PutTable
  <2>2. TypeSwap'
    BY <1>6 DEF Refuse, Begin, diskVars, TypeSwap, Phases
  <2> QED
    BY <1>6, <2>1, <2>2 DEF Refuse, Begin, romm, play, TypePlay
<1>7. CASE Crash
  <2>1. TypeSwap'
    BY <1>7 DEF Crash, Torn, TypeSwap, Dir, Content, Phases
  <2>2. TypePuts'
    BY <1>7 DEF Crash, TypePuts, PutTable
  <2> QED
    BY <1>7, <2>1, <2>2 DEF Crash, romm, TypePlay
<1>8. CASE ReplaceStep
  BY <1>8, TypeReplace
<1>9. CASE UNCHANGED vars
  BY <1>9 DEF vars, diskVars, putVars, romm, play, TypePlay, TypeSwap, TypePuts
<1> QED
  BY <1>1, <1>2, <1>3, <1>4, <1>5, <1>6, <1>7, <1>8, <1>9 DEF Next

-----------------------------------------------------------------------------
(* The locks. *)

\* A step of a replace goes on holding the lock or answers and lets it go.
LEMMA ReplaceHoldsLock ==
  ASSUME ReplaceStep
  PROVE  /\ phase # "idle" /\ UNCHANGED session
         /\ \/ UNCHANGED <<lock, put>> /\ phase' # "idle"
            \/ \E a \in {"ok", "error"} : Answer(a)
BY DEF ReplaceStep, ClearStaging, ClearBackup, Stage, StageFails, MoveAside, MoveAsideFails,
       MoveIn, MoveInFails, DropBackup, UndoStaging, Restore, RestoreFails, UndoBackup, play

LEMMA LockStep ==
  ASSUME TypePuts, TypeSwap, LockInv, [Next]_vars
  PROVE  LockInv'
<1> USE DEF LockInv
<1>1. CASE ReplaceStep
  <2>1. CASE UNCHANGED <<lock, put>> /\ phase' # "idle"
    BY <1>1, <2>1, ReplaceHoldsLock
  <2>2. ASSUME NEW a \in {"ok", "error"}, Answer(a)
        PROVE  LockInv'
    <3>1. \A r \in Request : put'[r] # "replacing"
      BY <2>2 DEF Answer, TypePuts, PutTable
    <3> QED
      BY <1>1, <2>2, <3>1, ReplaceHoldsLock DEF Answer
  <2> QED
    BY <1>1, <2>1, <2>2, ReplaceHoldsLock
<1>2. CASE Activate \/ Exit \/ Capture
  BY <1>2 DEF Activate, Exit, Capture, putVars, play
<1>3. ASSUME NEW i \in Image, Play(i)
      PROVE  LockInv'
  BY <1>3 DEF Play, putVars
<1>4. ASSUME NEW r \in Request, Refuse(r) \/ \E i \in library \cup {Blank} : Send(r, i)
      PROVE  LockInv'
  BY <1>4 DEF Refuse, Send, TypePuts, PutTable, play
<1>5. ASSUME NEW r \in Request, Begin(r)
      PROVE  LockInv'
  BY <1>5 DEF Begin, MayReplace, TypePuts, PutTable, play
<1>6. CASE Crash
  BY <1>6 DEF Crash
<1>7. CASE UNCHANGED vars
  BY <1>7 DEF vars, putVars, play
<1> QED
  BY <1>1, <1>2, <1>3, <1>4, <1>5, <1>6, <1>7 DEF Next

-----------------------------------------------------------------------------
(* Whole cards, and where they are. *)

\* Outside a replace nothing but a game touches the card, and no replace starts
\* from a card that is not whole.
LEMMA WholeStep ==
  ASSUME TypePlay, TypeSwap, TypePuts, LockInv, WholeInv, SwapInv, [Next]_vars,
         "remove" \notin Fault
  PROVE  WholeInv'
<1> USE DEF WholeInv
<1>1. CASE ReplaceStep
  <2>1. UNCHANGED <<before, image>> /\ UNCHANGED library
    BY <1>1 DEF ReplaceStep, ClearStaging, ClearBackup, Stage, StageFails, MoveAside,
       MoveAsideFails, MoveIn, MoveInFails, DropBackup, UndoStaging, Restore, RestoreFails,
       UndoBackup, romm
  <2>2. \/ UNCHANGED card \/ card' = NoCard
        \/ MoveIn \/ Restore
    BY <1>1 DEF ReplaceStep, ClearStaging, ClearBackup, Stage, StageFails, MoveAside,
       MoveAsideFails, MoveInFails, DropBackup, UndoStaging, RestoreFails, UndoBackup, diskVars
  <2>3. MoveIn => card' # Partial
    BY DEF MoveIn, SwapInv, LockInv, TypeSwap
  <2>4. Restore => card' # Partial
    BY DEF Restore, MustRestore, SwapInv
  <2> QED
    BY <2>1, <2>2, <2>3, <2>4
<1>2. CASE Activate \/ Exit \/ Crash
  BY <1>2 DEF Activate, Exit, Crash, putVars, romm, diskVars
<1>3. ASSUME NEW i \in Image, Play(i)
      PROVE  WholeInv'
  BY <1>3 DEF Play, putVars, romm
<1>4. CASE Capture
  BY <1>4 DEF Capture, Answers, diskVars, putVars
<1>5. ASSUME NEW r \in Request, NEW i \in library \cup {Blank}, Send(r, i)
      PROVE  WholeInv'
  BY <1>5 DEF Send, TypePuts, diskVars, romm
<1>6. ASSUME NEW r \in Request, Refuse(r) \/ Begin(r)
      PROVE  WholeInv'
  BY <1>6 DEF Refuse, Begin, diskVars, romm
<1>7. CASE UNCHANGED vars
  BY <1>7 DEF vars, diskVars, putVars, romm
<1> QED
  BY <1>1, <1>2, <1>3, <1>4, <1>5, <1>6, <1>7 DEF Next

LEMMA SwapStep ==
  ASSUME TypePlay, TypeSwap, TypePuts, LockInv, WholeInv, SwapInv, [Next]_vars,
         "remove" \notin Fault
  PROVE  SwapInv'
<1> USE DEF SwapInv
<1>1. CASE ReplaceStep
  <2> USE DEF Answer
  <2>1. CASE ClearStaging \/ ClearBackup
    <3>1. CASE ClearStaging
      BY <3>1, RemovedAll DEF ClearStaging
    <3>2. CASE ClearBackup
      <4>1. /\ phase = "clear backup" /\ phase' = "stage"
            /\ UNCHANGED <<card, before>> /\ backup' \in Removed(backup)
        BY <3>2 DEF ClearBackup
      <4>2. backup' = NoCard
        BY <4>1 DEF Removed
      <4> QED
        BY <4>1, <4>2
    <3> QED
      BY <2>1, <3>1, <3>2
  <2>2. CASE Stage
    BY <2>2 DEF Stage
  <2>3. CASE StageFails
    BY <2>3 DEF StageFails
  <2>4. CASE MoveAside \/ MoveAsideFails
    BY <2>4 DEF MoveAside, MoveAsideFails, diskVars
  <2>5. CASE MoveIn \/ MoveInFails
    BY <2>5 DEF MoveIn, MoveInFails, diskVars
  <2>6. CASE UndoStaging
    BY <2>6, RemovedAll DEF UndoStaging
  <2>7. CASE DropBackup \/ Restore \/ RestoreFails \/ UndoBackup
    BY <2>7, RemovedAll DEF DropBackup, Restore, RestoreFails, UndoBackup
  <2> QED
    BY <1>1, <2>1, <2>2, <2>3, <2>4, <2>5, <2>6, <2>7 DEF ReplaceStep
<1>2. CASE Activate \/ Crash
  BY <1>2 DEF Activate, Crash, putVars, LockInv
<1>3. CASE Exit \/ Capture \/ UNCHANGED vars
  BY <1>3 DEF Exit, Capture, vars, diskVars, putVars
<1>4. ASSUME NEW i \in Image, Play(i)
      PROVE  SwapInv'
  BY <1>4 DEF Play, putVars, LockInv
<1>5. ASSUME NEW r \in Request, NEW i \in library \cup {Blank}, Send(r, i)
      PROVE  SwapInv'
  <2>1. lock \in Request => image'[lock] = image[lock]
    BY <1>5 DEF Send, LockInv, TypePuts
  <2>2. phase # "idle" => lock \in Request
    BY DEF LockInv, TypeSwap
  <2> QED
    BY <1>5, <2>1, <2>2 DEF Send, diskVars
<1>6. ASSUME NEW r \in Request, Refuse(r) \/ Begin(r)
      PROVE  SwapInv'
  BY <1>6 DEF Refuse, Begin, diskVars
<1> QED
  BY <1>1, <1>2, <1>3, <1>4, <1>5, <1>6 DEF Next

-----------------------------------------------------------------------------
(* The invariant is inductive: types and locks whatever fails, the rest as   *)
(* long as what is deleted goes away.                                        *)

LEMMA BaseNext ==
  ASSUME TypeOK, LockInv, [Next]_vars
  PROVE  TypeOK' /\ LockInv'
<1>1. TypePlay /\ TypeSwap /\ TypePuts
  BY TypeParts
<1>2. TypePlay' /\ TypeSwap' /\ TypePuts'
  BY <1>1, TypeStep
<1>3. TypeOK'
  BY <1>2 DEF TypeOK, TypePlay, TypeSwap, TypePuts, PutTable
<1> QED
  BY <1>1, <1>3, LockStep

LEMMA NextInv ==
  ASSUME CardInv, [Next]_vars, "remove" \notin Fault
  PROVE  CardInv'
BY TypeParts, BaseNext, WholeStep, SwapStep DEF CardInv

\* What the inductive invariant is for.
LEMMA InvImplies == CardInv => EitherCardWhole /\ NeverHalfWiped
BY DEF CardInv, TypeOK, SwapInv, WholeInv, EitherCardWhole, NeverHalfWiped, Phases

\* An answer reports what the swap left: the new card in place, or the old one
\* in place or in backup.
LEMMA AnswerStep ==
  ASSUME CardInv, [Next]_vars, "remove" \notin Fault, NEW r \in Request, put[r] = "replacing"
  PROVE  /\ put'[r] = "ok" => card' = image[r]
         /\ put'[r] = "error" => card' = before \/ (card' = NoCard /\ backup' = before)
<1> USE DEF CardInv, TypeOK, SwapInv
<1>1. CASE DropBackup
  BY <1>1 DEF DropBackup, Answer
<1>2. CASE Restore \/ RestoreFails
  BY <1>2 DEF Restore, RestoreFails, MustRestore, Answer, diskVars
<1>3. CASE UndoBackup
  BY <1>3 DEF UndoBackup, MustRestore, Answer
<1>4. ASSUME NEW q \in Request, \/ Refuse(q) \/ Begin(q)
                               \/ \E i \in library \cup {Blank} : Send(q, i)
      PROVE  put'[r] \notin {"ok", "error"}
  BY <1>4 DEF Refuse, Begin, Send
<1>5. CASE Crash
  BY <1>5 DEF Crash
<1>6. CASE UNCHANGED put
  BY <1>6
<1> QED
  BY <1>1, <1>2, <1>3, <1>4, <1>5, <1>6
  DEF Next, ReplaceStep, Activate, Exit, Capture, Play, ClearStaging, ClearBackup, Stage,
      StageFails, MoveAside, MoveAsideFails, MoveIn, MoveInFails, UndoStaging,
      vars, putVars

-----------------------------------------------------------------------------
(* What a game saved is not lost.  This does not rest on the disk.           *)

\* RomM holds the last thing a game wrote.
Filed == owed = NoCard \/ owed \in library

\* As long as RomM keeps its order: the last save is filed once the slot is accounted
\* for, hence while a PUT is on its way and while a replace takes the card apart.
SaveInv ==
  ~hasty =>
    /\ NoSaveLost
    /\ captured \/ phase # "idle" => Filed
    /\ session => ~captured
    /\ \A r \in Request : put[r] = "uploading" => Filed /\ ~session

LEMMA SaveReplace ==
  ASSUME TypeOK, LockInv, SaveInv, ReplaceStep
  PROVE  SaveInv'
<1>1. phase # "idle" /\ UNCHANGED <<captured, library>> /\ UNCHANGED <<session, owed, hasty>>
  BY DEF ReplaceStep, ClearStaging, ClearBackup, Stage, StageFails, MoveAside, MoveAsideFails,
         MoveIn, MoveInFails, DropBackup, UndoStaging, Restore, RestoreFails, UndoBackup,
         romm, play
<1>2. \A r \in Request : put'[r] = "uploading" => put[r] = "uploading"
  <2>1. CASE UNCHANGED put
    BY <2>1
  <2>2. ASSUME NEW a \in {"ok", "error"}, Answer(a)
        PROVE  \A r \in Request : put'[r] = "uploading" => put[r] = "uploading"
    BY <2>2 DEF Answer, TypeOK
  <2> QED
    BY <2>1, <2>2, ReplaceHoldsLock
<1>3. ASSUME ~hasty
      PROVE  Filed
  BY <1>1, <1>3 DEF SaveInv
<1> QED
  BY <1>1, <1>2, <1>3 DEF SaveInv, NoSaveLost, Filed

LEMMA SaveStep ==
  ASSUME TypeOK, LockInv, SaveInv, [Next]_vars
  PROVE  SaveInv'
<1> USE DEF SaveInv, NoSaveLost, Filed
<1>1. CASE Activate
  BY <1>1 DEF Activate, putVars, LockInv
<1>2. ASSUME NEW i \in Image, Play(i)
      PROVE  SaveInv'
  BY <1>2 DEF Play, putVars, romm, LockInv
<1>3. CASE Exit
  BY <1>3 DEF Exit, diskVars, putVars, romm
<1>4. CASE Capture
  <2>1. UNCHANGED <<card, phase, put, session, owed, hasty>> /\ ~session /\ phase = "idle"
    BY <1>4 DEF Capture, diskVars, putVars, play, LockInv
  <2>2. PICK answer \in Answers :
          /\ captured' = (captured \/ answer # "failed")
          /\ library' = IF answer \in {"absent", "failed"} THEN library
                        ELSE library \cup {answer}
    BY <1>4 DEF Capture
  <2>3. library \subseteq library'
    BY <2>2
  <2>4. ASSUME ~hasty, captured'
        PROVE  Filed'
    <3>1. CASE captured
      BY <2>1, <2>3, <2>4, <3>1
    <3>2. CASE card \in {NoCard, Blank}
      <4>1. owed = NoCard \/ owed \in library
        BY <2>4, <3>2 DEF TypeOK
      <4> QED
        BY <2>1, <2>3, <4>1
    <3>3. CASE ~captured /\ card \notin {NoCard, Blank}
      <4>1. answer # "failed" /\ answer \in {card, "failed"}
        BY <2>2, <2>4, <3>3 DEF Answers
      <4>2. card # "absent"
        BY <3>3 DEF TypeOK, Dir, Content
      <4> QED
        BY <2>1, <2>2, <2>4, <4>1, <4>2
    <3> QED
      BY <3>1, <3>2, <3>3
  <2> QED
    BY <2>1, <2>3, <2>4
<1>5. ASSUME NEW r \in Request, NEW i \in library \cup {Blank}, Send(r, i)
      PROVE  SaveInv'
  BY <1>5 DEF Send, TypeOK, diskVars, romm, play
<1>6. ASSUME NEW r \in Request, Refuse(r) \/ Begin(r)
      PROVE  SaveInv'
  <2>1. put[r] = "uploading" /\ UNCHANGED <<card, captured, library, session, owed, hasty>>
    BY <1>6 DEF Refuse, Begin, diskVars, romm, play
  <2>2. \A q \in Request : put'[q] = "uploading" => put[q] = "uploading"
    BY <1>6 DEF Refuse, Begin, TypeOK
  <2> QED
    BY <2>1, <2>2
<1>7. CASE Crash
  BY <1>7 DEF Crash, romm
<1>8. CASE ReplaceStep
  BY <1>8, SaveReplace
<1>9. CASE UNCHANGED vars
  BY <1>9 DEF vars, diskVars, putVars, romm, play
<1> QED
  BY <1>1, <1>2, <1>3, <1>4, <1>5, <1>6, <1>7, <1>8, <1>9 DEF Next

-----------------------------------------------------------------------------
(* The card is the register of CardRegister.                                 *)

\* While a game has it open there is a card, so none is aside.
Opened == session => card # NoCard

LEMMA OpenedStep ==
  ASSUME LockInv, Opened, [Next]_vars
  PROVE  Opened'
<1> USE DEF Opened
<1>1. CASE ReplaceStep
  BY <1>1, ReplaceHoldsLock DEF LockInv
<1>2. CASE Activate \/ Exit \/ Capture \/ Crash
  BY <1>2 DEF Activate, Exit, Capture, Crash, diskVars, play
<1>3. ASSUME NEW i \in Image, Play(i)
      PROVE  Opened'
  BY <1>3 DEF Play
<1>4. ASSUME NEW r \in Request, \/ Refuse(r) \/ Begin(r)
                               \/ \E i \in library \cup {Blank} : Send(r, i)
      PROVE  Opened'
  BY <1>4 DEF Refuse, Begin, Send, diskVars, play
<1>5. CASE UNCHANGED vars
  BY <1>5 DEF vars, diskVars, play
<1> QED
  BY <1>1, <1>2, <1>3, <1>4, <1>5 DEF Next

\* Whoever leaves the card, its backup, the phase and the session alone is not seen.
LEMMA Unseen ==
  ASSUME UNCHANGED <<card, backup, phase, session>>
  PROVE  UNCHANGED Register!vars
BY DEF Register!vars, Held, Aside, Swapping

\* A replace is seen twice at most: as it deletes what was set aside, and as the
\* new card moves in or the old one cannot move back.
LEMMA RegisterReplace ==
  ASSUME CardInv, ReplaceStep, "remove" \notin Fault
  PROVE  [Register!Next]_Register!vars
<1> USE DEF Held, Aside, Swapping
<1>1. ~session /\ UNCHANGED session
  BY ReplaceHoldsLock DEF CardInv, LockInv
<1>2. CASE ClearStaging
  BY <1>1, <1>2 DEF ClearStaging, Register!vars
<1>3. CASE ClearBackup
  <2>1. UNCHANGED card /\ backup' = NoCard /\ phase = "clear backup" /\ phase' = "stage"
    BY <1>3, RemovedAll DEF ClearBackup
  <2>2. CASE Aside
    <3>1. Register!Forget
      BY <1>1, <2>1, <2>2 DEF Register!Forget
    <3> QED
      BY <3>1 DEF Register!Next
  <2>3. CASE ~Aside
    BY <1>1, <2>1, <2>3 DEF Register!vars
  <2> QED
    BY <2>2, <2>3
<1>4. CASE Stage \/ StageFails \/ UndoStaging
  <2>1. UNCHANGED <<card, backup>>
    BY <1>4 DEF Stage, StageFails, UndoStaging
  <2>2. Swapping /\ Swapping'
    BY <1>4 DEF Stage, StageFails, UndoStaging
  <2> QED
    BY <1>1, <2>1, <2>2 DEF Register!vars
<1>5. CASE MoveAside
  BY <1>1, <1>5 DEF MoveAside, Register!vars, CardInv, WholeInv, SwapInv
<1>6. CASE MoveAsideFails \/ MoveInFails
  <2>1. UNCHANGED <<card, backup>> /\ Swapping /\ Swapping'
    BY <1>6 DEF MoveAsideFails, MoveInFails, diskVars
  <2> QED
    BY <1>1, <2>1 DEF Register!vars
<1>7. CASE MoveIn
  <2>1. lock \in Request /\ image[lock] \in Image \cup {Blank}
    BY <1>7 DEF MoveIn, CardInv, TypeOK, LockInv, WholeInv, Content
  <2>2. Held' = image[lock] /\ ~Aside /\ ~Aside'
    BY <1>7, <2>1 DEF MoveIn, CardInv, SwapInv
  <2>3. Register!Swap(image[lock])
    BY <1>1, <2>2 DEF Register!Swap
  <2> QED
    BY <2>1, <2>3 DEF Register!Next
<1>8. CASE DropBackup
  <2>1. card # NoCard
    BY <1>8 DEF DropBackup, CardInv, TypeOK, LockInv, SwapInv, Content
  <2> QED
    BY <1>1, <1>8, <2>1 DEF DropBackup, Register!vars
<1>9. CASE Restore
  BY <1>1, <1>9 DEF Restore, MustRestore, Register!vars, CardInv, WholeInv, SwapInv
<1>10. CASE RestoreFails
  <2>1. ~Aside /\ Aside' /\ Held # NoCard /\ UNCHANGED Held
    BY <1>10 DEF RestoreFails, MustRestore, Answer, diskVars, CardInv, WholeInv, SwapInv
  <2>2. Register!SetAside
    BY <1>1, <2>1 DEF Register!SetAside
  <2> QED
    BY <2>2 DEF Register!Next
<1>11. CASE UndoBackup
  <2>1. UNCHANGED card /\ backup' = NoCard /\ (card # NoCard \/ backup = NoCard)
    <3>1. UNCHANGED card /\ backup' \in Removed(backup) /\ ~MustRestore
      BY <1>11 DEF UndoBackup
    <3> QED
      BY <3>1, RemovedAll DEF MustRestore
  <2> QED
    BY <1>1, <2>1 DEF Register!vars
<1> QED
  BY <1>2, <1>3, <1>4, <1>5, <1>6, <1>7, <1>8, <1>9, <1>10, <1>11 DEF ReplaceStep

\* A crash takes the card from its game, sets it aside or tears what was.
LEMMA RegisterCrash ==
  ASSUME CardInv, Opened, Crash
  PROVE  [Register!Next]_Register!vars
<1> USE DEF Held, Aside, Swapping
<1>1. /\ UNCHANGED card /\ session' = FALSE /\ ~Swapping'
      /\ backup' \in IF backup = NoCard \/ (phase = "undo backup" /\ MustRestore) THEN {backup}
                      ELSE Torn(backup, {"clear backup", "drop backup", "undo backup"})
  BY DEF Crash
<1>2. session \in BOOLEAN
  BY DEF CardInv, TypeOK
<1>3. CASE session
  <2>1. Register!Close
    BY <1>1, <1>2, <1>3 DEF Opened, Register!Close
  <2> QED
    BY <2>1 DEF Register!Next
<1>4. CASE ~session /\ card # NoCard
  BY <1>1, <1>2, <1>4 DEF Register!vars
<1>5. CASE ~session /\ card = NoCard
  <2>1. phase # "drop backup"
    BY <1>5 DEF CardInv, TypeOK, LockInv, SwapInv, Content
  <2>2. CASE backup' = backup
    <3>1. UNCHANGED <<Held, session>>
      BY <1>1, <1>2, <1>5, <2>2
    <3>2. CASE Swapping /\ Held # NoCard
      <4>1. Register!SetAside
        BY <1>1, <1>5, <3>1, <3>2 DEF Register!SetAside
      <4> QED
        BY <4>1 DEF Register!Next
    <3>3. CASE ~(Swapping /\ Held # NoCard)
      BY <1>1, <3>1, <3>3 DEF Register!vars
    <3> QED
      BY <3>2, <3>3
  <2>3. CASE backup' # backup
    <3>1. backup' = Partial /\ phase = "clear backup" /\ backup # NoCard
      BY <1>1, <1>5, <2>1, <2>3 DEF Torn, MustRestore
    <3>2. Held' = NoCard /\ ~Aside' /\ UNCHANGED session
      BY <1>1, <1>2, <1>5, <3>1
    <3>3. CASE backup = Partial
      BY <2>3, <3>1, <3>3
    <3>4. CASE backup # Partial
      <4>1. Register!Forget
        BY <1>5, <3>1, <3>2, <3>4 DEF Register!Forget
      <4> QED
        BY <4>1 DEF Register!Next
    <3> QED
      BY <3>3, <3>4
  <2> QED
    BY <2>2, <2>3
<1> QED
  BY <1>3, <1>4, <1>5

LEMMA RegisterStep ==
  ASSUME CardInv, Opened, [Next]_vars, "remove" \notin Fault
  PROVE  [Register!Next]_Register!vars
<1>1. CASE Activate
  <2>1. ~session /\ session' /\ phase = "idle" /\ UNCHANGED <<backup, phase>>
        /\ card' = IF card = NoCard THEN Blank ELSE card
    BY <1>1 DEF Activate, putVars, CardInv, LockInv
  <2>2. session' = TRUE /\ ~Aside' /\ Aside' = FALSE
    BY <1>1, <2>1 DEF Activate, Aside
  <2>3. Held' = IF Aside \/ Held = NoCard THEN Blank ELSE Held
    BY <2>1 DEF Held, Aside, Swapping
  <2>4. Register!Open
    BY <2>1, <2>2, <2>3 DEF Register!Open
  <2> QED
    BY <2>4 DEF Register!Next
<1>2. ASSUME NEW i \in Image, Play(i)
      PROVE  [Register!Next]_Register!vars
  <2>1. session /\ card' = i /\ i # NoCard /\ UNCHANGED session
    BY <1>2 DEF Play
  <2>2. Register!Save(i)
    BY <2>1 DEF Opened, Register!Save, Held, Aside
  <2> QED
    BY <2>2 DEF Register!Next
<1>3. CASE Exit
  <2>1. Register!Close
    BY <1>3 DEF Exit, diskVars, putVars, Register!Close, Held, Aside, Swapping
  <2> QED
    BY <2>1 DEF Register!Next
<1>4. CASE Capture
  BY <1>4, Unseen DEF Capture, diskVars, putVars, play
<1>5. ASSUME NEW r \in Request, Refuse(r) \/ \E i \in library \cup {Blank} : Send(r, i)
      PROVE  [Register!Next]_Register!vars
  BY <1>5, Unseen DEF Refuse, Send, diskVars, play
<1>6. ASSUME NEW r \in Request, Begin(r)
      PROVE  [Register!Next]_Register!vars
  BY <1>6 DEF Begin, MayReplace, diskVars, play, Register!vars, Held, Aside, Swapping, CardInv,
     LockInv
<1>7. CASE Crash
  BY <1>7, RegisterCrash
<1>8. CASE ReplaceStep
  BY <1>8, RegisterReplace
<1>9. CASE UNCHANGED vars
  BY <1>9, Unseen DEF vars, diskVars, putVars, play
<1> QED
  BY <1>1, <1>2, <1>3, <1>4, <1>5, <1>6, <1>7, <1>8, <1>9 DEF Next

-----------------------------------------------------------------------------
(* The theorems. *)

LEMMA BaseHolds == Spec => [](TypeOK /\ LockInv)
<1>1. Init => TypeOK /\ LockInv
  BY InitInv DEF CardInv
<1>2. TypeOK /\ LockInv /\ [Next]_vars => (TypeOK /\ LockInv)'
  BY BaseNext
<1> QED
  BY <1>1, <1>2, PTL DEF Spec

LEMMA InvHolds == ASSUME "remove" \notin Fault PROVE Spec => []CardInv
<1>1. CardInv /\ [Next]_vars => CardInv'
  BY NextInv
<1> QED
  BY <1>1, InitInv, PTL DEF Spec

\* Every variable keeps its type.
THEOREM TypeCorrect == Spec => []TypeOK
BY BaseHolds, PTL

\* However a replace is cut short, the old card or the new one is whole.
THEOREM EitherCardWholeHolds == ASSUME "remove" \notin Fault PROVE Spec => []EitherCardWhole
BY InvHolds, InvImplies, PTL

\* The card itself is never half wiped.
THEOREM NeverHalfWipedHolds == ASSUME "remove" \notin Fault PROVE Spec => []NeverHalfWiped
BY InvHolds, InvImplies, PTL

\* Nobody ever finds half a card, as long as what is deleted goes away.
THEOREM CardWholeHolds == ASSUME "remove" \notin Fault PROVE Spec => []CardWhole
BY EitherCardWholeHolds, NeverHalfWipedHolds, PTL DEF CardWhole

\* The card is never swapped under a running game.
THEOREM NoSwapUnderTheGameHolds == Spec => []NoSwapUnderTheGame
<1>1. LockInv => NoSwapUnderTheGame
  BY DEF LockInv, NoSwapUnderTheGame
<1> QED
  BY <1>1, BaseHolds, PTL

\* A PUT's answer tells what became of the card.
THEOREM AnswersAreTrueHolds == ASSUME "remove" \notin Fault PROVE Spec => AnswersAreTrue
<1>1. CardInv /\ [Next]_vars =>
        [\A r \in Request :
           /\ put[r] = "replacing" /\ put'[r] = "ok" => card' = image[r]
           /\ put[r] = "replacing" /\ put'[r] = "error" =>
                card' = before \/ (card' = NoCard /\ backup' = before)]_vars
  BY AnswerStep
<1> QED
  BY <1>1, InvHolds, PTL DEF Spec, AnswersAreTrue

\* The last thing a game saved is on the card or with RomM, whatever fails on disk
\* and wherever the broker dies.
THEOREM NoSaveLostHolds == Spec => []NoSaveLost
<1>1. Init => SaveInv
  BY DEF Init, SaveInv, NoSaveLost, Filed
<1>2. TypeOK /\ LockInv /\ SaveInv /\ [Next]_vars => SaveInv'
  BY SaveStep
<1>3. SaveInv /\ TypeOK => NoSaveLost
  BY DEF SaveInv, NoSaveLost
<1> QED
  BY <1>1, <1>2, <1>3, BaseHolds, PTL DEF Spec

\* From outside the card is a register: it changes as a whole, never under a game, and a
\* replace that is cut short leaves the old card, the new one, or the old one set aside
\* (memcard.replace).
THEOREM ImplementsCardRegisterHolds ==
  ASSUME "remove" \notin Fault PROVE Spec => ImplementsCardRegister
<1>1. Init => Opened /\ Register!Init
  BY DEF Init, Opened, Register!Init, Held, Aside
<1>2. LockInv /\ Opened /\ [Next]_vars => Opened'
  BY OpenedStep
<1>3. CardInv /\ Opened /\ [Next]_vars => [Register!Next]_Register!vars
  BY RegisterStep
<1> QED
  BY <1>1, <1>2, <1>3, BaseHolds, InvHolds, PTL DEF Spec, ImplementsCardRegister, Register!Spec
=============================================================================
