---------------------------- MODULE WsConnection ----------------------------
(***************************************************************************)
(* The connection task ws_main of virs-ws (manager.rs): connect, read,     *)
(* lose the connection, back off, connect again, until too many failures   *)
(* in a row trip the circuit breaker.  MarketStream and UserDataStream add *)
(* what their handlers do at each step.                                    *)
(*                                                                         *)
(* Every way a connection ends (closed by the server, read error, pong     *)
(* timeout, end of its lifetime) is one action, and so is every way an     *)
(* attempt to connect fails.  The delays of the backoff are abstracted     *)
(* away, the number of retries is not.                                     *)
(***************************************************************************)
EXTENDS Integers

CONSTANTS
  MaxRetries,   \* WS_MAX_RETRIES: failures in a row that trip the circuit breaker
  MaxDrops,     \* number of connections that are lost (model bound)
  MaxRefusals   \* number of attempts that fail (model bound)

ASSUME ConnectionAssumption ==
  MaxRetries \in Nat \ {0} /\ MaxDrops \in Nat /\ MaxRefusals \in Nat

VARIABLES
  ws,          \* ws_main: off, connecting, up, backoff, or broken: it has ended
  retries,     \* retry_count
  reconnect,   \* ~is_first_connect
  drops, refusals

connection == <<ws, retries, reconnect, drops, refusals>>

ConnectionTypeOK ==
  /\ ws \in {"off", "connecting", "up", "backoff", "broken"}
  /\ retries \in 0..MaxRetries
  /\ reconnect \in BOOLEAN
  /\ drops \in 0..MaxDrops /\ refusals \in 0..MaxRefusals

ConnectionInit ==
  /\ ws = "off" /\ retries = 0 /\ reconnect = FALSE
  /\ drops = 0 /\ refusals = 0

\* WsManager::start spawns ws_main, once.
StartConnection ==
  /\ ws' = IF ws = "off" THEN "connecting" ELSE ws
  /\ UNCHANGED <<retries, reconnect, drops, refusals>>

\* The connection stands: retries start over.
Establish ==
  /\ ws = "connecting"
  /\ ws' = "up" /\ retries' = 0 /\ reconnect' = TRUE
  /\ UNCHANGED <<drops, refusals>>

\* backoff_with_cancel: one more failure, and the breaker trips or a delay starts.
Backoff ==
  /\ retries' = retries + 1
  /\ ws' = IF retries' >= MaxRetries THEN "broken" ELSE "backoff"

\* The handler asks for a new connection (MessageOutcome::Reconnect).
Leave ==
  /\ ws = "up"
  /\ Backoff
  /\ UNCHANGED <<reconnect, drops, refusals>>

\* The connection ends.
Lose ==
  /\ ws = "up" /\ drops < MaxDrops
  /\ Backoff
  /\ drops' = drops + 1
  /\ UNCHANGED <<reconnect, refusals>>

\* refresh_url fails, or the attempt to connect fails or takes longer than
\* WS_CONNECT_TIMEOUT_SECS.
FailToConnect ==
  /\ ws = "connecting" /\ refusals < MaxRefusals
  /\ Backoff
  /\ refusals' = refusals + 1
  /\ UNCHANGED <<reconnect, drops>>

\* The delay is over.
Again ==
  /\ ws = "backoff"
  /\ ws' = "connecting"
  /\ UNCHANGED <<retries, reconnect, drops, refusals>>

=============================================================================
