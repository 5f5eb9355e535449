--------------------------- MODULE MCPaperTrading ----------------------------
(***************************************************************************)
(* Instances of PaperTrading for TLC and a claim of the repository that does *)
(* not hold (PT_restored.cfg).                                             *)
(***************************************************************************)
EXTENDS PaperTrading

\* Recovery restores the positions at the exchange "to keep the exchange side consistent"
\* (recover_state): an exchange that knows the price takes the order that closes one.
RestoredCloses == cmd # NoOrder /\ cmd.kind = "close" /\ price # 0 => Takes(cmd, lev)
=============================================================================
