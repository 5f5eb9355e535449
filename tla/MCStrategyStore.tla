--------------------------- MODULE MCStrategyStore ---------------------------
(***************************************************************************)
(* Instances of StrategyStore for TLC and a claim of writer.rs that does not *)
(* hold (SS_version.cfg).                                                  *)
(***************************************************************************)
EXTENDS StrategyStore

\* save_new_version "reads the current version number and adds 1" (writer.rs:71): the
\* version a save of the optimizer makes current follows the one that was stored before.
NextVersion ==
  [][\A n \in Names :
       job["optimizer"].pc = "meta" /\ job["optimizer"].name = n
         /\ folder[n].meta \in Versions /\ folder'[n].meta = Torn
       => job["optimizer"].tpl.version = folder[n].meta + 1]_vars
=============================================================================
