--------------------------- MODULE MCThreadStore ---------------------------
(* Small instances of ThreadStore for TLC.                                 *)
EXTENDS ThreadStore, TLC

CONSTANTS h1, h2

MCHandlers == {h1, h2}
MCSymmetry == Permutations(MCHandlers)

Msg(channel, meta) == [channel |-> channel, id |-> "x", meta |-> meta]

\* A message of a channel, its replay, and one of the web page, of one thread.
MCInbound == {Msg("discord", "guild"), Msg("discord", "NULL"), Msg("web", "NULL")}
=============================================================================
