----------------------------- MODULE MCLifecycle -----------------------------
(***************************************************************************)
(* Instances of Lifecycle for TLC and two claims of the repository that do *)
(* not hold: the first in run paper_mode, the second in LC_stuck.cfg.      *)
(***************************************************************************)
EXTENDS Lifecycle

\* In paper mode the real exchange is wrapped and no real funds are touched
\* (ensure_started): a bot of paper mode has no worker on live engines.
PaperStaysPaper == \A b \in Bots : alive[b] > 0 /\ mode[b] = "paper" => engine = "paper"

\* The engines "will start on first bot creation" (restore_inner): there is no bot whose
\* engines cannot be started by any request.
NotStuck ==
  ~\E b \in Bots : /\ phase = "serving" /\ engine = "none" /\ row[b] # "none" /\ delete[b] # "sent"
                   /\ \A c \in Bots : create[c] \in {"no", "over"}
=============================================================================
