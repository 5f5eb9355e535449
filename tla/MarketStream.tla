---------------------------- MODULE MarketStream ----------------------------
(***************************************************************************)
(* The stream of market data: the handler of the Binance kline stream      *)
(* (kline_ws.rs) on a connection (WsConnection), which subscribes again on *)
(* every connection.  Whoever subscribes runs beside the task; KlineEngine *)
(* says who that is and what happens to what arrives.                      *)
(*                                                                         *)
(* One symbol.  A request on the socket is taken by the exchange at once.  *)
(***************************************************************************)
EXTENDS WsConnection

VARIABLES
  wanted,      \* the symbol is in handler.subscriptions
  asked,       \* number of Subscribe commands in the command channel
  streaming    \* the exchange sends the symbol's candles on this connection

stream == <<connection, wanted, asked, streaming>>

StreamTypeOK ==
  /\ ConnectionTypeOK
  /\ wanted \in BOOLEAN /\ streaming \in BOOLEAN
  /\ asked \in 0..1

StreamInit ==
  /\ ConnectionInit
  /\ asked = 0 /\ wanted = FALSE /\ streaming = FALSE

StartStream == StartConnection /\ UNCHANGED <<wanted, asked, streaming>>

\* subscribe: the symbol is added to what every new connection asks for ...
Want ==
  /\ wanted' = TRUE
  /\ UNCHANGED <<connection, asked, streaming>>

\* ... and asked for on the present one, or on the next if there is none.
Ask ==
  /\ asked' = asked + 1
  /\ UNCHANGED <<connection, wanted, streaming>>

\* Mutant of Connected: a new connection asks for nothing.
ConnectedMute == Establish /\ UNCHANGED <<wanted, asked, streaming>>

\* The connection stands, and all subscriptions are sent.
Connected ==
  /\ Establish
  /\ streaming' = wanted
  /\ UNCHANGED <<wanted, asked>>

\* A command is read off the channel and sent.
SendCommand ==
  /\ ws = "up" /\ asked > 0
  /\ asked' = asked - 1 /\ streaming' = TRUE
  /\ UNCHANGED <<connection, wanted>>

Disconnected ==
  /\ Lose
  /\ streaming' = FALSE
  /\ UNCHANGED <<wanted, asked>>

Refused == FailToConnect /\ UNCHANGED <<wanted, asked, streaming>>
Retry == Again /\ UNCHANGED <<wanted, asked, streaming>>

=============================================================================
