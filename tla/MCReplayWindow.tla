--------------------------- MODULE MCReplayWindow ---------------------------
(***************************************************************************)
(* Model-checking instance of ReplayWindow, and a check that the closed    *)
(* form of the three clearing loops is what the loops compute.             *)
(***************************************************************************)
EXTENDS ReplayWindow, TLC

Symmetry == Permutations(Receivers)

\* The loops of mark_did_receive, one iteration at a time: the bits they clear.
RECURSIVE HeadLoop(_, _, _), WordLoop(_, _, _), TailLoop(_, _, _)
TailLoop(i, last, cleared) ==
  IF i < last THEN TailLoop(i + 1, last, cleared \union {Bit(i)}) ELSE cleared
WordLoop(i, last, cleared) ==
  IF i + WORD_SIZE < last
  THEN WordLoop(AlignDown(i + WORD_SIZE), last, cleared \union WordOf(i))
  ELSE TailLoop(i, last, cleared)
HeadLoop(i, last, cleared) ==
  IF i % WORD_SIZE # 0 /\ i < last
  THEN HeadLoop(i + 1, last, cleared \union {Bit(i)})
  ELSE WordLoop(i, last, cleared)

ASSUME LoopsAssumption ==
  \A first \in 0..(2 * N_BITS) : \A gap \in 0..(N_BITS - 1) :
    HeadLoop(first, first + gap, {}) = ClearedBits(first, first + gap)
=============================================================================
