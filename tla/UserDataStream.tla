--------------------------- MODULE UserDataStream ---------------------------
(***************************************************************************)
(* How the order updates of Binance reach the position engine: the user    *)
(* data stream (virs-ccxt, user_data_ws.rs) on a connection of virs-ws     *)
(* (WsConnection), the listen key that names the account, its keepalive    *)
(* (mod.rs, start_listenkey_order_ws) and ws_feed_loop at the other end.   *)
(*                                                                         *)
(* Three tasks: ws_main creates a key for every connection and reads it,   *)
(* the keepalive renews the key that is current when it looks, and the     *)
(* engine takes the events off the channel.  The forwarding task between   *)
(* two channels is part of one FIFO.                                       *)
(*                                                                         *)
(* Time is counted in ticks of the keepalive; connecting and the calls     *)
(* take no time on that scale.  What an update says and what becomes of it *)
(* is PositionEngine's, updates that do not parse included (LossyFeed).    *)
(***************************************************************************)
EXTENDS WsConnection, Sequences

CONSTANTS
  KeyLife,     \* ticks after which a key expires (60 minutes, a tick every 30)
  MaxQueue,    \* capacity of the channel to the engine
  MaxUpdates,  \* number of order updates (model bound)
  MaxTicks,    \* number of ticks (model bound)
  MaxFaults    \* number of failing calls for the key (model bound)

ASSUME StreamAssumption ==
  /\ KeyLife \in Nat /\ KeyLife > 1
  /\ MaxQueue \in Nat /\ MaxUpdates \in Nat /\ MaxTicks \in Nat /\ MaxFaults \in Nat

VARIABLES
  \* the exchange
  made,     \* number of order updates so far
  key,      \* the listen key it knows, 0 if none
  age,      \* ticks since the key was created or renewed
  keys,     \* number of keys so far; keys are 1..keys
  \* the adapter
  current,  \* current_key
  used,     \* the key the present connection was opened with
  wire,     \* messages of the present connection that are not read yet
  due,      \* the keepalive has to run
  put,      \* the key the keepalive is renewing, 0 if none
  chan,     \* WsFeedEvents on their way to the engine
  \* the engine
  feed,     \* ws_feed_loop: waiting for the subscription, running, over
  heard,    \* the last update it has read
  told,     \* it has read a ConnectionChanged since
  ticks, faults

listen == <<key, age, keys, current>>
keepalive == <<due, put>>
engine == <<feed, heard, told>>
vars == <<connection, made, listen, used, wire, keepalive, chan, engine, ticks, faults>>

Expired == 0   \* listenKeyExpired on the wire; updates are 1..made
Changed == 0   \* ConnectionChanged in the channel; updates are 1..made

TypeOK ==
  /\ ConnectionTypeOK
  /\ made \in 0..MaxUpdates
  /\ keys \in Nat /\ key \in 0..keys /\ current \in 0..keys /\ used \in 0..keys
  /\ age \in 0..KeyLife
  /\ wire \in Seq(0..MaxUpdates)
  /\ due \in BOOLEAN /\ put \in 0..keys
  /\ chan \in Seq(0..MaxUpdates) /\ Len(chan) <= MaxQueue
  /\ feed \in {"waiting", "running", "over"}
  /\ heard \in 0..MaxUpdates /\ told \in BOOLEAN
  /\ ticks \in 0..MaxTicks /\ faults \in 0..MaxFaults

Init ==
  /\ ConnectionInit
  /\ made = 0 /\ key = 0 /\ age = 0 /\ keys = 0 /\ current = 0 /\ used = 0
  /\ wire = <<>> /\ due = FALSE /\ put = 0 /\ chan = <<>>
  /\ feed = "waiting" /\ heard = 0 /\ told = FALSE
  /\ ticks = 0 /\ faults = 0

-----------------------------------------------------------------------------
(* The exchange *)

\* The connection is that of a key which is valid.
Listening == ws = "up" /\ key # 0 /\ used = key

\* Something happens to an order; it is told to whoever listens, and to nobody later.
Produce ==
  /\ made < MaxUpdates
  /\ made' = made + 1
  /\ wire' = IF Listening THEN Append(wire, made + 1) ELSE wire
  /\ UNCHANGED <<connection, listen, used, keepalive, chan, engine, ticks, faults>>

\* A key that was not renewed for long expires, which the connection is told last.
Expire ==
  /\ key # 0 /\ age >= KeyLife
  /\ key' = 0
  /\ wire' = IF Listening THEN Append(wire, Expired) ELSE wire
  /\ UNCHANGED <<connection, made, age, keys, current, used, keepalive, chan, engine, ticks, faults>>

\* create_listen_key: the exchange renews the key it knows, or makes a new one.
MakeKey ==
  /\ keys' = IF key # 0 THEN keys ELSE keys + 1
  /\ key' = IF key # 0 THEN key ELSE keys'
  /\ age' = 0
CreateKey == MakeKey /\ current' = key'

\* A call fails: the exchange has not taken it, or its answer is lost.
CallFails == faults < MaxFaults /\ faults' = faults + 1
CreateKeyFails ==
  /\ CallFails
  /\ MakeKey \/ UNCHANGED <<key, age, keys>>
  /\ UNCHANGED current

-----------------------------------------------------------------------------
(* ws_main with UserDataWsHandler *)

\* Mutant of Events: the forwarder passes messages on and nothing else.
EventsOfMessages(n) == <<>>
\* What the engine is sent of n changes of the connection, the breaker among them.
Events(n) == [i \in 1..n |-> Changed]
\* A send waits for room.
Send(es) == chan' = chan \o es /\ Len(chan') <= MaxQueue

\* run: the engine subscribes before it takes commands, and ends when that fails.
Subscribe ==
  /\ feed = "waiting"
  /\ \/ /\ StartConnection /\ CreateKey
        /\ feed' = "running"
        /\ UNCHANGED faults
     \/ /\ CreateKeyFails
        /\ feed' = "over"
        /\ UNCHANGED connection
  /\ UNCHANGED <<made, used, wire, keepalive, chan, heard, told, ticks>>

\* refresh_url: every connection is opened with a key asked for just before.
Connect ==
  /\ Establish
  /\ CreateKey
  /\ used' = current' /\ wire' = <<>>
  /\ Send(Events(1))
  /\ UNCHANGED <<made, keepalive, engine, ticks, faults>>

\* The breaker and the end of ws_main are changes of the connection, too.
Ends(n) == /\ Send(Events(IF ws' = "broken" THEN n + 2 ELSE n))
           /\ wire' = <<>>
           /\ UNCHANGED <<made, used, keepalive, engine, ticks>>

\* No key, or a key and no connection.
ConnectFails ==
  /\ FailToConnect
  /\ Ends(0)
  /\ CreateKeyFails \/ (CreateKey /\ UNCHANGED faults)

Drop ==
  /\ Lose
  /\ Ends(1)
  /\ UNCHANGED <<listen, faults>>

Reconnect == Again /\ UNCHANGED <<made, listen, used, wire, keepalive, chan, engine, ticks, faults>>

\* Mutant of OnMessage: the notice is one of the events that are ignored.
OnMessageIgnores ==
  /\ ws = "up" /\ wire # <<>>
  /\ wire' = Tail(wire)
  /\ Send(IF Head(wire) = Expired THEN <<>> ELSE <<Head(wire)>>)
  /\ UNCHANGED <<connection, made, listen, used, keepalive, engine, ticks, faults>>

\* on_message: an update is passed on; when the key has expired, a new connection is due.
OnMessage ==
  /\ ws = "up" /\ wire # <<>>
  /\ IF Head(wire) = Expired THEN Leave /\ Ends(1)
     ELSE /\ wire' = Tail(wire)
          /\ Send(<<Head(wire)>>)
          /\ UNCHANGED <<connection, made, used, keepalive, engine, ticks>>
  /\ UNCHANGED <<listen, faults>>

-----------------------------------------------------------------------------
(* listenkey_keepalive *)

\* Half an hour passes.  The exchange is punctual, and so is the keepalive.
Tick ==
  /\ ticks < MaxTicks /\ ws # "off"
  /\ ~due /\ put = 0
  /\ key # 0 => age < KeyLife
  /\ ticks' = ticks + 1 /\ due' = TRUE
  /\ age' = IF key # 0 THEN age + 1 ELSE age
  /\ UNCHANGED <<connection, made, key, keys, current, used, wire, put, chan, engine, faults>>

\* Mutant of TakeKey: the key of the first connection.
TakeKeyFirst == due' = FALSE /\ put' = 1

\* The key is read, ...
TakeKey == due' = FALSE /\ put' = current
Look ==
  /\ due /\ TakeKey
  /\ UNCHANGED <<connection, made, listen, used, wire, chan, engine, ticks, faults>>

\* keepalive_listen_key
RenewKey == age' = IF put = key THEN 0 ELSE age

\* ... and renewed if it is still the one; a failure is logged and waits for the next tick.
Renew ==
  /\ put # 0 /\ put' = 0
  /\ \/ RenewKey /\ UNCHANGED faults
     \/ CallFails /\ (RenewKey \/ UNCHANGED age)
  /\ UNCHANGED <<connection, made, key, keys, current, used, wire, due, chan, engine, ticks>>

-----------------------------------------------------------------------------
(* ws_feed_loop *)

\* An update is handled (PositionEngine); of a change of the connection nothing is made.
Hear ==
  /\ feed = "running" /\ chan # <<>>
  /\ chan' = Tail(chan)
  /\ IF Head(chan) = Changed THEN told' = TRUE /\ UNCHANGED heard
                             ELSE told' = FALSE /\ heard' = Head(chan)
  /\ UNCHANGED <<connection, made, listen, used, wire, keepalive, feed, ticks, faults>>

\* The stream ends with ws_main, and with it both loops and the position engine.
FeedOver ==
  /\ feed = "running" /\ ws = "broken" /\ chan = <<>>
  /\ feed' = "over"
  /\ UNCHANGED <<connection, made, listen, used, wire, keepalive, chan, heard, told, ticks, faults>>

-----------------------------------------------------------------------------
Main == Connect \/ ConnectFails \/ Reconnect \/ OnMessage
Next == \/ Produce \/ Expire \/ Subscribe \/ Main \/ Drop
        \/ Tick \/ Look \/ Renew \/ Hear \/ FeedOver

Spec == Init /\ [][Next]_vars

\* ws_main and ws_feed_loop run on: a connection is tried, and ended by the network at
\* will only.
FairSpec == Spec /\ WF_vars(Main) /\ WF_vars(Hear \/ FeedOver)

-----------------------------------------------------------------------------
(* Properties *)

\* No order update is missed in silence: the engine reads them in order, and where one is
\* missing it has read a change of the connection before (UserDataWs::start).  What an
\* expired key swallows is no exception.
NoSilentGap ==
  [][heard' # heard => heard' > heard /\ (heard' = heard + 1 \/ told)]_vars

\* The keys that have expired.
Lapsed == IF key = 0 THEN keys ELSE keys - 1

\* The keepalive follows the key: a key is lost by a failing call of its own and never by
\* renewing one that a reconnect has just replaced (listen_key_handle).
LapseNeedsFault == Lapsed <= faults

\* The position engine does not wait for ever on a stream that says nothing: a connection
\* is replaced when its key has expired, or the engine ends (on_message, run).
HearsAgain == feed = "running" /\ ~Listening ~> Listening \/ feed = "over"
=============================================================================
