---------------------------- MODULE CardRegister ----------------------------
(***************************************************************************)
(* What MemoryCard promises: the card is a register that changes as a      *)
(* whole, by the game that has it open or, while none has, by RomM.  When  *)
(* the broker dies or the disk fails in the middle of a swap the card may  *)
(* be set aside; it is whole there, but nobody looks for it.               *)
(***************************************************************************)

CONSTANTS Card, Blank, NoCard

VARIABLES
  held,    \* the card, wherever it is
  aside,   \* it is where no game will open it
  playing  \* a game has it open

Init == held = NoCard /\ aside = FALSE /\ playing = FALSE

\* A game that finds no card gets a blank one.
Open ==
  /\ ~playing /\ playing' = TRUE
  /\ held' = IF aside \/ held = NoCard THEN Blank ELSE held
  /\ aside' = FALSE

Save(c) ==
  /\ playing
  /\ held' = c
  /\ UNCHANGED <<aside, playing>>

Close ==
  /\ playing /\ playing' = FALSE
  /\ UNCHANGED <<held, aside>>

Swap(c) ==
  /\ ~playing /\ ~aside
  /\ held' = c
  /\ UNCHANGED <<aside, playing>>

SetAside ==
  /\ ~playing /\ held # NoCard /\ ~aside
  /\ aside' = TRUE
  /\ UNCHANGED <<held, playing>>

\* The next swap starts by deleting what was set aside.
Forget ==
  /\ aside /\ aside' = FALSE
  /\ held' = NoCard
  /\ UNCHANGED playing

Next == Open \/ Close \/ SetAside \/ Forget \/ \E c \in Card : Save(c) \/ Swap(c)

vars == <<held, aside, playing>>
Spec == Init /\ [][Next]_vars
=============================================================================
