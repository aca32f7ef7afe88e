-------------------------- MODULE MCTurnLifecycle --------------------------
(* Small instances of TurnLifecycle for TLC.                               *)
EXTENDS TurnLifecycle, TLC

CONSTANTS t1, t2

MCTwoTurns == {t1, t2}
MCOneTurn == {t1}

MCSymmetry == Permutations(MCTwoTurns)
=============================================================================
