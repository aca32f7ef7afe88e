------------------------------ MODULE MCUpkeep ------------------------------
(* What follows a turn: the distillation of its memory, and the            *)
(* observations about it. They write different tables, so that one run     *)
(* checks both: the first state says which of them moves.                  *)
EXTENDS MemoryDistill, Observations

VARIABLE side

MCInit == side \in {"memory", "observations"} /\ Init /\ ObsInit
MCNext ==
    \/ side = "memory" /\ Next /\ UNCHANGED <<obsVars, side>>
    \/ side = "observations" /\ ObsNext /\ UNCHANGED <<vars, side>>
mcVars == <<vars, obsVars, side>>
MCSpec == MCInit /\ [][MCNext]_mcVars

\* Types of the distillation and of the observations.
TypesOK == TypeOK /\ ObsTypeOK

-----------------------------------------------------------------------------
CONSTANTS th1

MCOneThread == {th1}

-----------------------------------------------------------------------------
CONSTANTS ch1, ch2, shell, rust

MCChats == {ch1, ch2}
MCTools == {shell}
MCBatches == {<<shell, shell, shell>>}
MCWordsOf == [t \in MCChats |-> <<rust>>]
MCSymmetry == Permutations(MCChats)
=============================================================================
