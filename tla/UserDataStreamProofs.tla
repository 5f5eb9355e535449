------------------------ MODULE UserDataStreamProofs ------------------------
(***************************************************************************)
(* Proofs about UserDataStream for all constants: that no listen key       *)
(* lapses unless a call for it has failed, and that the engine misses no   *)
(* update in silence.                                                      *)
(*                                                                         *)
(* The first is inductive with what the keepalive owes a key: one that has *)
(* aged and is not about to be renewed, one that has aged twice, and one   *)
(* the adapter does not know has had a failing call that no lapse has used *)
(* up.                                                                     *)
(*                                                                         *)
(* The second looks at the events in the channel and on the connection as  *)
(* one queue (Pipe): each update in it is the one after the event before   *)
(* it, or that event is a change of the connection; and as long as the     *)
(* exchange tells the connection at all, the next update will be, too.     *)
(* Every step adds to the end of the queue, cuts it off and tells so, or   *)
(* reads its head.                                                         *)
(***************************************************************************)
EXTENDS UserDataStream, SequenceTheorems, TLAPS

\* A failing call that no lapse has used up.
Spare == Lapsed + 1 <= faults

KeyTypes ==
  /\ keys \in Nat /\ key \in 0..keys /\ current \in 0..keys /\ put \in 0..keys
  /\ age \in 0..KeyLife /\ due \in BOOLEAN /\ faults \in 0..MaxFaults

Owed ==
  /\ put # 0 => ~due
  /\ key # 0 /\ current # key => Spare
  /\ key # 0 /\ age > 0 /\ ~due /\ put # key => Spare
  /\ key # 0 /\ age > 1 => Spare

IInv == KeyTypes /\ Owed /\ LapseNeedsFault

LEMMA InitKeys == Init => IInv
<1> SUFFICES ASSUME Init PROVE IInv
  OBVIOUS
<1>1. KeyTypes
  <2>1. due \in BOOLEAN
    BY DEF Init
  <2> QED BY <2>1, StreamAssumption DEF Init, KeyTypes
<1>2. Owed
  BY DEF Init, Owed
<1>3. LapseNeedsFault
  BY DEF Init, LapseNeedsFault, Lapsed
<1> QED BY <1>1, <1>2, <1>3 DEF IInv

\* A new key, or an old one renewed, owes nothing.
LEMMA MakeKeyKeeps ==
  ASSUME IInv, MakeKey, current' = key' \/ CallFails, current' \in {current, key'},
         faults' = faults \/ CallFails, UNCHANGED keepalive
  PROVE  IInv'
BY StreamAssumption
DEF IInv, KeyTypes, Owed, LapseNeedsFault, Lapsed, Spare, MakeKey, CallFails, keepalive

LEMMA SameKeysKeep ==
  ASSUME IInv, UNCHANGED <<key, age, keys, current, due, put>>, faults' = faults \/ CallFails
  PROVE  IInv'
BY StreamAssumption DEF IInv, KeyTypes, Owed, LapseNeedsFault, Lapsed, Spare, CallFails

LEMMA StepKeys == IInv /\ [Next]_vars => IInv'
<1> SUFFICES ASSUME IInv, [Next]_vars PROVE IInv'
  OBVIOUS
<1>1. CASE Subscribe
  <2>1. CASE CreateKey /\ UNCHANGED <<faults, keepalive>>
    BY <2>1, MakeKeyKeeps DEF CreateKey
  <2>2. CASE CreateKeyFails /\ UNCHANGED keepalive
    BY <2>2, MakeKeyKeeps, SameKeysKeep DEF CreateKeyFails, keepalive
  <2> QED BY <1>1, <2>1, <2>2 DEF Subscribe
<1>2. CASE Connect
  BY <1>2, MakeKeyKeeps DEF Connect, CreateKey
<1>3. CASE ConnectFails
  <2>1. UNCHANGED keepalive
    BY <1>3 DEF ConnectFails, Ends
  <2>2. CASE CreateKey /\ UNCHANGED faults
    BY <2>1, <2>2, MakeKeyKeeps DEF CreateKey
  <2>3. CASE CreateKeyFails
    BY <2>1, <2>3, MakeKeyKeeps, SameKeysKeep DEF CreateKeyFails, keepalive
  <2> QED BY <1>3, <2>2, <2>3 DEF ConnectFails
<1>4. CASE Expire
  BY <1>4, StreamAssumption
  DEF Expire, IInv, KeyTypes, Owed, LapseNeedsFault, Lapsed, Spare, keepalive
<1>5. CASE Tick
  BY <1>5, StreamAssumption DEF Tick, IInv, KeyTypes, Owed, LapseNeedsFault, Lapsed, Spare
<1>6. CASE Look
  BY <1>6, StreamAssumption
  DEF Look, TakeKey, listen, IInv, KeyTypes, Owed, LapseNeedsFault, Lapsed, Spare
<1>7. CASE Renew
  <2>1. CASE UNCHANGED faults
    BY <1>7, <2>1, StreamAssumption
    DEF Renew, RenewKey, IInv, KeyTypes, Owed, LapseNeedsFault, Lapsed, Spare, CallFails
  <2>2. CASE CallFails
    BY <1>7, <2>2, StreamAssumption
    DEF Renew, RenewKey, IInv, KeyTypes, Owed, LapseNeedsFault, Lapsed, Spare, CallFails
  <2> QED BY <1>7, <2>1, <2>2 DEF Renew
<1>8. CASE UNCHANGED <<listen, keepalive, faults>>
  BY <1>8, SameKeysKeep DEF listen, keepalive
<1>9. CASE Produce \/ Reconnect \/ OnMessage \/ Drop \/ Hear \/ FeedOver \/ UNCHANGED vars
  BY <1>8, <1>9 DEF Produce, Reconnect, OnMessage, Drop, Hear, FeedOver, Ends, vars
<1> QED BY <1>1, <1>2, <1>3, <1>4, <1>5, <1>6, <1>7, <1>9 DEF Next, Main

\* A listen key lapses only when a call for it has failed: as many keys have been lost as
\* calls have failed, at most (start_listenkey_order_ws, refresh_url).
THEOREM KeysKept == Spec => []LapseNeedsFault
<1>1. IInv => LapseNeedsFault
  BY DEF IInv
<1> QED BY InitKeys, StepKeys, <1>1, PTL DEF Spec
-----------------------------------------------------------------------------
(* The events on their way, p, follow what the engine has read: the updates come in order, *)
(* above h, and each is the one after the event before it unless that was a change of the  *)
(* connection (0).  The first one is n, any one if n = 0; m were made.                     *)
Flow(p, h, n, m) ==
  /\ h <= m
  /\ \A i \in 1..Len(p) : p[i] # 0 => h < p[i] /\ p[i] <= m
  /\ \A i \in 1..Len(p) : p[i] # 0 /\ i = 1 => n = 0 \/ p[i] = n
  /\ \A i \in 1..Len(p) : p[i] # 0 /\ i > 1 => p[i - 1] = 0 \/ p[i] = p[i - 1] + 1
  /\ \A i, j \in 1..Len(p) : i < j /\ p[i] # 0 /\ p[j] # 0 => p[i] < p[j]

\* The next update will follow, too.
UpToDate(p, n, m) == IF p = <<>> THEN n \in {0, m + 1} ELSE p[Len(p)] \in {0, m}

\* The same for what p begins with and what q adds.
LEMMA FlowExtends ==
  ASSUME NEW p \in Seq(Nat), NEW q \in Seq(Nat), NEW h \in Nat, NEW n \in Nat, NEW m \in Nat,
         Flow(p, h, n, m), Len(q) = Len(p) + 1,
         \A i \in 1..Len(p) : q[i] = p[i]
  PROVE  /\ q[Len(q)] = 0 => Flow(q, h, n, m) /\ UpToDate(q, n, m)
         /\ q[Len(q)] = m + 1 /\ UpToDate(p, n, m) =>
              Flow(q, h, n, m + 1) /\ UpToDate(q, n, m + 1)
<1>1. Len(p) \in Nat /\ q # <<>> /\ (Len(p) = 0 => p = <<>>)
  OBVIOUS
<1>2. ASSUME q[Len(q)] = 0 PROVE Flow(q, h, n, m) /\ UpToDate(q, n, m)
  <2>1. \A i \in 1..Len(q) : q[i] # 0 => i \in 1..Len(p) /\ q[i] = p[i]
    BY <1>1, <1>2
  <2>2. ASSUME NEW i \in 1..Len(q), i > 1 PROVE i - 1 \in 1..Len(p) /\ q[i - 1] = p[i - 1]
    <3>1. i - 1 \in 1..Len(p)
      BY <1>1, <2>2
    <3> QED BY <3>1
  <2>3. Flow(q, h, n, m)
    BY <2>1, <2>2 DEF Flow
  <2> QED BY <1>1, <1>2, <2>3 DEF UpToDate
<1>3. ASSUME q[Len(q)] = m + 1, UpToDate(p, n, m)
      PROVE  Flow(q, h, n, m + 1) /\ UpToDate(q, n, m + 1)
  <2>1. \A i \in 1..Len(p) : p[i] # 0 => q[i] < m + 1
    BY <1>3 DEF Flow
  <2>2. Len(p) > 0 => p # <<>> /\ p[Len(p)] \in {0, m}
    BY <1>1, <1>3 DEF UpToDate
  <2>3. Len(p) = 0 => n \in {0, m + 1}
    BY <1>1, <1>3 DEF UpToDate
  <2>4. Flow(q, h, n, m + 1)
    <3>0. h <= m
      BY DEF Flow
    <3>1. ASSUME NEW i \in 1..Len(q), q[i] # 0 PROVE h < q[i] /\ q[i] <= m + 1
      <4>1. CASE i = Len(q)
        BY <1>3, <3>0, <4>1
      <4>2. CASE i \in 1..Len(p)
        BY SMTT(20), <3>1, <4>2 DEF Flow
      <4> QED BY <1>1, <4>1, <4>2
    <3>2. \A i \in 1..Len(q) : q[i] # 0 /\ i = 1 => n = 0 \/ q[i] = n
      BY <1>1, <1>3, <2>3 DEF Flow
    <3>3. ASSUME NEW i \in 1..Len(q), q[i] # 0, i > 1
          PROVE  q[i - 1] = 0 \/ q[i] = q[i - 1] + 1
      <4>0. i - 1 \in 1..Len(p)
        BY <1>1, <3>3
      <4>1. q[i - 1] = p[i - 1]
        BY <4>0
      <4>2. CASE i = Len(q)
        <5>1. i - 1 = Len(p) /\ Len(p) > 0
          BY <1>1, <3>3, <4>2
        <5> QED BY <1>3, <2>2, <4>1, <4>2, <5>1
      <4>3. CASE i \in 1..Len(p)
        BY <3>3, <4>0, <4>1, <4>3 DEF Flow
      <4> QED BY <1>1, <4>2, <4>3
    <3>4. ASSUME NEW i \in 1..Len(q), NEW j \in 1..Len(q), i < j, q[i] # 0, q[j] # 0
          PROVE  q[i] < q[j]
      <4>1. i \in 1..Len(p) /\ q[i] = p[i]
        BY SMTT(20), <1>1, <3>4
      <4>2. CASE j = Len(q)
        BY <1>3, <2>1, <3>4, <4>1, <4>2
      <4>3. CASE j \in 1..Len(p)
        BY <3>4, <4>1, <4>3 DEF Flow
      <4> QED BY <1>1, <4>2, <4>3
    <3> QED BY <3>0, <3>1, <3>2, <3>3, <3>4 DEF Flow
  <2> QED BY <1>1, <1>3, <2>4 DEF UpToDate
<1> QED BY <1>2, <1>3

LEMMA FlowMade ==
  ASSUME NEW p \in Seq(Nat), NEW h \in Nat, NEW n \in Nat, NEW m \in Nat, Flow(p, h, n, m)
  PROVE  Flow(p, h, n, m + 1)
BY DEF Flow

\* What is left of p when a connection ends.
LEMMA FlowPrefix ==
  ASSUME NEW p \in Seq(Nat), NEW q \in Seq(Nat), NEW h \in Nat, NEW n \in Nat, NEW m \in Nat,
         Flow(p, h, n, m), Len(q) <= Len(p),
         \A i \in 1..Len(q) : q[i] = p[i]
  PROVE  Flow(q, h, n, m)
<1>1. Len(p) \in Nat /\ Len(q) \in Nat
  OBVIOUS
<1>2. \A i \in 1..Len(q) : i \in 1..Len(p) /\ (i > 1 => i - 1 \in 1..Len(q))
  BY <1>1
<1> QED BY <1>2 DEF Flow

\* Changes of the connection are added.
LEMMA FlowZeros ==
  ASSUME NEW c \in Seq(Nat), NEW z \in Seq({0}), NEW h \in Nat, NEW n \in Nat, NEW m \in Nat,
         Flow(c, h, n, m)
  PROVE  Flow(c \o z, h, n, m) /\ (z # <<>> => UpToDate(c \o z, n, m))
<1> DEFINE q == c \o z
<1>1. /\ Len(c) \in Nat /\ Len(z) \in Nat /\ Len(q) = Len(c) + Len(z) /\ q \in Seq(Nat)
      /\ \A i \in 1..Len(q) : q[i] = IF i <= Len(c) THEN c[i] ELSE z[i - Len(c)]
  BY ConcatProperties
<1>2. \A i \in 1..Len(z) : z[i] = 0
  OBVIOUS
<1>3. z # <<>> => Len(z) > 0
  BY <1>1
<1> HIDE DEF q
<1>4. ASSUME NEW i \in 1..Len(q) PROVE q[i] = IF i <= Len(c) THEN c[i] ELSE 0
  <2>1. CASE i <= Len(c)
    BY <1>1, <2>1
  <2>2. CASE i > Len(c)
    <3>1. i - Len(c) \in 1..Len(z)
      BY <1>1, <2>2
    <3> QED BY <1>1, <1>2, <2>2, <3>1
  <2> QED BY <1>1, <2>1, <2>2
<1>5. \A i \in 1..Len(q) : q[i] # 0 => i \in 1..Len(c) /\ q[i] = c[i]
  BY <1>1, <1>4
<1>6. ASSUME NEW i \in 1..Len(q), q[i] # 0, i > 1 PROVE q[i - 1] = 0 \/ q[i] = q[i - 1] + 1
  <2>1. i \in 1..Len(c) /\ q[i] = c[i]
    BY <1>5, <1>6
  <2>2. i - 1 \in 1..Len(q) /\ i - 1 <= Len(c)
    BY SMTT(20), <1>1, <1>6, <2>1
  <2>3. q[i - 1] = c[i - 1]
    BY <1>4, <2>2
  <2>4. c[i - 1] = 0 \/ c[i] = c[i - 1] + 1
    BY <1>6, <2>1 DEF Flow
  <2> QED BY <2>1, <2>3, <2>4
<1>7. Flow(q, h, n, m)
  BY <1>5, <1>6 DEF Flow
<1>8. ASSUME z # <<>> PROVE UpToDate(q, n, m)
  <2>1. Len(q) \in 1..Len(q) /\ ~(Len(q) <= Len(c))
    BY <1>1, <1>3, <1>8
  <2>2. q[Len(q)] = 0 /\ q # <<>>
    BY <1>1, <1>4, <2>1
  <2> QED BY <2>2 DEF UpToDate
<1> QED BY <1>7, <1>8 DEF q

\* The engine reads an event.
LEMMA FlowRead ==
  ASSUME NEW p \in Seq(Nat), NEW q \in Seq(Nat), NEW h \in Nat, NEW n \in Nat, NEW m \in Nat,
         Flow(p, h, n, m), Len(p) = Len(q) + 1,
         \A i \in 1..Len(q) : q[i] = p[i + 1]
  PROVE  /\ p[1] = 0 => Flow(q, h, 0, m) /\ (UpToDate(p, n, m) => UpToDate(q, 0, m))
         /\ p[1] # 0 => /\ Flow(q, p[1], p[1] + 1, m)
                        /\ UpToDate(p, n, m) => UpToDate(q, p[1] + 1, m)
<1>1. /\ Len(q) \in Nat /\ p # <<>> /\ p[1] \in Nat
      /\ q # <<>> => Len(q) > 0
  OBVIOUS
<1>2. \A i \in 1..Len(q) : i + 1 \in 1..Len(p) /\ i + 1 > 1 /\ (i + 1) - 1 = i
  BY <1>1
<1>3. /\ \A i \in 1..Len(q) : q[i] # 0 /\ i > 1 => q[i - 1] = 0 \/ q[i] = q[i - 1] + 1
      /\ \A i, j \in 1..Len(q) : i < j /\ q[i] # 0 /\ q[j] # 0 => q[i] < q[j]
  <2>1. ASSUME NEW i \in 1..Len(q), q[i] # 0, i > 1
        PROVE  q[i - 1] = 0 \/ q[i] = q[i - 1] + 1
    <3>1. i - 1 \in 1..Len(q)
      BY <1>1, <2>1
    <3>2. q[i - 1] = p[i]
      <4>1. PICK j \in 1..Len(q) : j = i - 1
        BY <3>1
      <4>2. j + 1 = i
        BY <4>1
      <4>3. q[j] = p[j + 1]
        OBVIOUS
      <4> QED BY <4>1, <4>2, <4>3
    <3>3. i + 1 \in 1..Len(p) /\ i + 1 > 1 /\ (i + 1) - 1 = i /\ q[i] = p[i + 1]
      BY <1>2
    <3>4. p[i + 1] # 0 /\ i + 1 > 1 => p[(i + 1) - 1] = 0 \/ p[i + 1] = p[(i + 1) - 1] + 1
      BY <3>3 DEF Flow
    <3> QED BY <2>1, <3>2, <3>3, <3>4
  <2>2. ASSUME NEW i \in 1..Len(q), NEW j \in 1..Len(q), i < j, q[i] # 0, q[j] # 0
        PROVE  q[i] < q[j]
    <3>1. /\ q[i] = p[i + 1] /\ q[j] = p[j + 1] /\ i + 1 < j + 1
          /\ i + 1 \in 1..Len(p) /\ j + 1 \in 1..Len(p)
      BY <1>2, <2>2
    <3> QED BY <2>2, <3>1 DEF Flow
  <2> QED BY <2>1, <2>2
<1>4. ASSUME p[1] = 0 PROVE Flow(q, h, 0, m)
  <2>1. h <= m /\ \A i \in 1..Len(q) : q[i] # 0 => h < q[i] /\ q[i] <= m
    BY <1>2 DEF Flow
  <2> QED BY <1>3, <2>1 DEF Flow
<1>9. ASSUME p[1] # 0 PROVE Flow(q, p[1], p[1] + 1, m)
  <2>1. 1 \in 1..Len(p) /\ p[1] <= m
    BY <1>1, <1>9 DEF Flow
  <2>2. ASSUME NEW i \in 1..Len(q), q[i] # 0 PROVE p[1] < q[i] /\ q[i] <= m
    BY <1>1, <1>2, <1>9, <2>1, <2>2 DEF Flow
  <2>3. ASSUME 1 \in 1..Len(q), q[1] # 0 PROVE q[1] = p[1] + 1
    <3>1. q[1] = p[2] /\ 2 \in 1..Len(p)
      BY <1>2, <2>3
    <3>2. p[2] # 0 /\ 2 > 1 => p[2 - 1] = 0 \/ p[2] = p[2 - 1] + 1
      BY <3>1 DEF Flow
    <3> QED BY <1>9, <2>3, <3>1, <3>2
  <2> QED BY <1>3, <2>1, <2>2, <2>3 DEF Flow
<1>5. ASSUME UpToDate(p, n, m) PROVE p[Len(p)] \in {0, m}
  BY <1>1, <1>5 DEF UpToDate
<1>6. q # <<>> => q[Len(q)] = p[Len(p)]
  BY <1>1
<1>7. q = <<>> => Len(p) = 1
  OBVIOUS
<1>8. UpToDate(p, n, m) => (p[1] = 0 => UpToDate(q, 0, m)) /\ (p[1] # 0 => UpToDate(q, p[1] + 1, m))
  BY <1>1, <1>5, <1>6, <1>7 DEF UpToDate
<1> QED BY <1>4, <1>9, <1>8

\* The events of the channel and of the connection are one queue for the engine.
Pipe == chan \o wire
\* The update that must be next for the engine, 0 if any may be.
Due == IF told THEN 0 ELSE heard + 1

FlowTypes ==
  /\ made \in Nat /\ heard \in Nat /\ keys \in Nat
  /\ told \in BOOLEAN
  /\ chan \in Seq(Nat) /\ wire \in Seq(Nat)
  /\ used \in 0..keys

FlowInv ==
  /\ FlowTypes
  /\ Flow(Pipe, heard, Due, made)
  /\ Listening => UpToDate(Pipe, Due, made)
  /\ ws # "up" => wire = <<>>

LEMMA InitFlow == Init => FlowInv
<1> SUFFICES ASSUME Init PROVE FlowInv
  OBVIOUS
<1>1. FlowTypes
  <2>1. told \in BOOLEAN
    BY DEF Init
  <2> QED BY <2>1 DEF Init, FlowTypes
<1>2. Pipe = <<>>
  BY DEF Init, Pipe
<1>3. Flow(Pipe, heard, Due, made)
  BY <1>2 DEF Init, Flow
<1>4. ~Listening /\ wire = <<>>
  BY DEF Init, ConnectionInit, Listening
<1> QED BY <1>1, <1>3, <1>4 DEF FlowInv

\* Steps that move nothing and make no connection.
LEMMA SameFlow ==
  ASSUME FlowInv, UNCHANGED <<made, heard, told, used>>, keys' \in Nat, keys' >= keys,
         UNCHANGED Pipe, chan' \in Seq(Nat), wire' \in Seq(Nat),
         Listening' => Listening, ws' # "up" => wire' = <<>>
  PROVE  FlowInv'
<1>1. FlowTypes'
  <2>1. told' \in BOOLEAN
    BY DEF FlowInv, FlowTypes
  <2> QED BY <2>1 DEF FlowInv, FlowTypes
<1>2. Due' = Due
  BY DEF Due
<1>3. Flow(Pipe, heard, Due, made)' /\ (Listening' => UpToDate(Pipe, Due, made)')
  BY <1>2 DEF FlowInv
<1> QED BY <1>1, <1>3 DEF FlowInv

\* A message is added at the end.
LEMMA MoreFlow ==
  ASSUME FlowInv, UNCHANGED <<chan, heard, told, used, keys, ws>>, ws = "up",
         NEW e \in Nat, wire' = Append(wire, e),
         \/ e = 0 /\ UNCHANGED made
         \/ e = made + 1 /\ made' = made + 1 /\ Listening
  PROVE  FlowInv'
<1>1. FlowTypes'
  <2>1. wire' \in Seq(Nat) /\ made' \in Nat
    BY AppendProperties DEF FlowInv, FlowTypes
  <2>2. told' \in BOOLEAN
    BY DEF FlowInv, FlowTypes
  <2> QED BY <2>1, <2>2 DEF FlowInv, FlowTypes
<1>2. Due' = Due /\ Due \in Nat
  BY DEF Due, FlowInv, FlowTypes
<1>3. /\ Pipe \in Seq(Nat) /\ Pipe' \in Seq(Nat) /\ Len(Pipe') = Len(Pipe) + 1
      /\ Pipe'[Len(Pipe')] = e
      /\ \A i \in 1..Len(Pipe) : Pipe'[i] = Pipe[i]
  <2>1. chan \in Seq(Nat) /\ wire \in Seq(Nat)
    BY DEF FlowInv, FlowTypes
  <2>2. Pipe' = Append(Pipe, e) /\ Pipe \in Seq(Nat)
    BY SMTT(20), <2>1, ConcatAssociative, AppendIsConcat, ConcatProperties, AppendProperties DEF Pipe
  <2> QED BY <2>2, AppendProperties
<1>4. Flow(Pipe, heard, Due, made) /\ (Listening => UpToDate(Pipe, Due, made))
  BY DEF FlowInv
<1>5. Flow(Pipe', heard, Due, made') /\ UpToDate(Pipe', Due, made')
  <2>1. heard \in Nat /\ made \in Nat
    BY DEF FlowInv, FlowTypes
  <2>2. CASE e = 0 /\ UNCHANGED made
    BY <1>2, <1>3, <1>4, <2>1, <2>2, FlowExtends
  <2>3. CASE e = made + 1 /\ made' = made + 1 /\ Listening
    BY <1>2, <1>3, <1>4, <2>1, <2>3, FlowExtends
  <2> QED BY <2>2, <2>3
<1> QED BY <1>1, <1>2, <1>5 DEF FlowInv

\* A connection ends or begins: its messages are gone, and the engine is told.
LEMMA CutFlow ==
  ASSUME FlowInv, UNCHANGED <<made, heard, told>>, keys' \in Nat, used' \in 0..keys',
         NEW z \in Seq({0}), chan' = chan \o z, wire' = <<>>,
         Listening' => z # <<>>
  PROVE  FlowInv'
<1>1. chan \in Seq(Nat) /\ wire \in Seq(Nat) /\ z \in Seq(Nat) /\ heard \in Nat /\ made \in Nat
  BY DEF FlowInv, FlowTypes
<1>2. Pipe' = chan \o z /\ Pipe' \in Seq(Nat)
  BY <1>1, ConcatProperties, ConcatEmptySeq DEF Pipe
<1>3. FlowTypes'
  <2>1. chan' \in Seq(Nat) /\ wire' \in Seq(Nat)
    BY <1>1, ConcatProperties
  <2>2. told' \in BOOLEAN
    BY DEF FlowInv, FlowTypes
  <2> QED BY <1>1, <2>1, <2>2 DEF FlowTypes
<1>4. Due' = Due /\ Due \in Nat
  BY <1>1 DEF Due
<1>5. Flow(chan, heard, Due, made)
  <2>1. /\ Pipe \in Seq(Nat) /\ Len(chan) <= Len(Pipe)
        /\ \A i \in 1..Len(chan) : chan[i] = Pipe[i]
    BY <1>1, ConcatProperties DEF Pipe
  <2>2. Flow(Pipe, heard, Due, made)
    BY DEF FlowInv
  <2> QED BY <1>1, <1>4, <2>1, <2>2, FlowPrefix
<1>6. Flow(chan \o z, heard, Due, made) /\ (z # <<>> => UpToDate(chan \o z, Due, made))
  BY <1>1, <1>4, <1>5, FlowZeros
<1> QED BY <1>2, <1>3, <1>4, <1>6 DEF FlowInv

\* The engine reads an event.
LEMMA ReadFlow ==
  ASSUME FlowInv, Hear
  PROVE  FlowInv' /\ (heard' # heard => heard' > heard /\ (heard' = heard + 1 \/ told))
<1>1. /\ chan \in Seq(Nat) /\ wire \in Seq(Nat) /\ heard \in Nat /\ made \in Nat
      /\ chan # <<>> /\ chan' = Tail(chan) /\ wire' = wire
  BY DEF FlowInv, FlowTypes, Hear
<1>2. /\ Pipe \in Seq(Nat) /\ Pipe' \in Seq(Nat)
      /\ Len(Pipe) = Len(Pipe') + 1 /\ Pipe[1] = Head(chan)
      /\ \A i \in 1..Len(Pipe') : Pipe'[i] = Pipe[i + 1]
  <2>1. /\ chan' \in Seq(Nat) /\ Len(chan') \in Nat /\ Len(chan) = Len(chan') + 1
        /\ \A i \in 1..Len(chan') : chan'[i] = chan[i + 1]
    BY <1>1, HeadTailProperties
  <2>2. /\ Pipe \in Seq(Nat) /\ Len(Pipe) = Len(chan) + Len(wire)
        /\ \A i \in 1..Len(Pipe) :
             Pipe[i] = IF i <= Len(chan) THEN chan[i] ELSE wire[i - Len(chan)]
    BY <1>1, ConcatProperties DEF Pipe
  <2>3. /\ Pipe' \in Seq(Nat) /\ Len(Pipe') = Len(chan') + Len(wire)
        /\ \A i \in 1..Len(Pipe') :
             Pipe'[i] = IF i <= Len(chan') THEN chan'[i] ELSE wire[i - Len(chan')]
    BY <1>1, <2>1, ConcatProperties DEF Pipe
  <2>4. Len(wire) \in Nat
    BY <1>1
  <2>5. Pipe[1] = Head(chan)
    BY <1>1, <2>1, <2>2, <2>4
  <2>6. ASSUME NEW i \in 1..Len(Pipe') PROVE Pipe'[i] = Pipe[i + 1]
    <3>1. i + 1 \in 1..Len(Pipe)
      <4>1. Len(Pipe) = Len(Pipe') + 1 /\ Len(Pipe') \in Nat
        BY <2>1, <2>2, <2>3, <2>4
      <4> QED BY <4>1
    <3>2. CASE i <= Len(chan')
      <4>1. i \in 1..Len(chan') /\ i + 1 <= Len(chan)
        BY <2>1, <3>2
      <4> QED BY <2>1, <2>2, <2>3, <3>1, <3>2, <4>1
    <3>3. CASE ~(i <= Len(chan'))
      <4>1. ~(i + 1 <= Len(chan)) /\ (i + 1) - Len(chan) = i - Len(chan')
        BY <2>1, <3>3
      <4> QED BY <2>2, <2>3, <3>1, <3>3, <4>1
    <3> QED BY <3>2, <3>3
  <2> QED BY <2>1, <2>2, <2>3, <2>4, <2>5, <2>6
<1>3. Due \in Nat /\ Flow(Pipe, heard, Due, made) /\ (Listening => UpToDate(Pipe, Due, made))
  BY <1>1 DEF FlowInv, Due
<1>4. UNCHANGED <<made, used, keys, ws, key>> /\ (Listening' <=> Listening)
  BY DEF Hear, connection, listen, Listening
<1>5. CASE Head(chan) = Changed
  <2>1. told' = TRUE /\ heard' = heard /\ Due' = 0
    BY <1>5 DEF Hear, Due
  <2>2. Flow(Pipe', heard', Due', made') /\ (Listening' => UpToDate(Pipe', Due', made'))
    BY <1>1, <1>2, <1>3, <1>4, <1>5, <2>1, FlowRead DEF Changed
  <2>3. FlowTypes'
    BY <1>1, <1>4, <2>1, HeadTailProperties DEF FlowInv, FlowTypes
  <2> QED BY <1>1, <1>4, <2>1, <2>2, <2>3 DEF FlowInv
<1>6. CASE Head(chan) # Changed
  <2>1. told' = FALSE /\ heard' = Head(chan) /\ Due' = Head(chan) + 1
    BY <1>6 DEF Hear, Due
  <2>2. Head(chan) \in Nat
    BY <1>1, HeadTailProperties
  <2>3. Flow(Pipe', heard', Due', made') /\ (Listening' => UpToDate(Pipe', Due', made'))
    <3>1. Pipe[1] # 0
      BY <1>2, <1>6 DEF Changed
    <3>2. /\ Flow(Pipe', Pipe[1], Pipe[1] + 1, made)
          /\ UpToDate(Pipe, Due, made) => UpToDate(Pipe', Pipe[1] + 1, made)
      BY <1>1, <1>2, <1>3, <3>1, FlowRead
    <3> QED BY <1>2, <1>3, <1>4, <2>1, <3>2
  <2>4. FlowTypes'
    BY <1>1, <1>4, <2>1, <2>2, HeadTailProperties DEF FlowInv, FlowTypes
  <2>5. heard' > heard /\ (Due = 0 \/ heard' = Due)
    <3>1. 1 \in 1..Len(Pipe) /\ Pipe[1] # 0
      BY <1>2, <1>6 DEF Changed
    <3> QED BY <1>2, <1>3, <2>1, <3>1 DEF Flow
  <2>6. heard' = heard + 1 \/ told
    BY <1>1, <2>5 DEF Due
  <2> QED BY <1>1, <1>4, <2>3, <2>4, <2>5, <2>6 DEF FlowInv
<1> QED BY <1>5, <1>6

LEMMA EventsAreChanges ==
  ASSUME NEW n \in Nat
  PROVE  Events(n) \in Seq({0}) /\ (n > 0 => Events(n) # <<>>)
<1>1. Events(n) \in Seq({0})
  BY DEF Events, Changed
<1>2. Len(Events(n)) = n
  BY DEF Events
<1> QED BY <1>1, <1>2

\* A key that is made is not the one of a connection that no longer listens.
LEMMA NoNewListening ==
  ASSUME KeyTypes, FlowTypes, MakeKey, ws' = "up" => ws = "up", used' = used
  PROVE  keys' \in Nat /\ keys' >= keys /\ (Listening' => Listening)
BY DEF KeyTypes, FlowTypes, MakeKey, Listening

LEMMA StepFlow ==
  IInv /\ FlowInv /\ [Next]_vars =>
    FlowInv' /\ (heard' # heard => heard' > heard /\ (heard' = heard + 1 \/ told))
<1> SUFFICES ASSUME IInv, FlowInv, [Next]_vars
             PROVE  FlowInv' /\ (heard' # heard => heard' > heard /\ (heard' = heard + 1 \/ told))
  OBVIOUS
<1>1. /\ KeyTypes /\ FlowTypes
      /\ chan \in Seq(Nat) /\ wire \in Seq(Nat) /\ made \in Nat /\ heard \in Nat
      /\ keys \in Nat /\ used \in 0..keys /\ (ws # "up" => wire = <<>>)
  BY DEF IInv, FlowInv, FlowTypes
<1>2. ASSUME UNCHANGED <<made, heard, told, used, chan, wire>>,
             keys' \in Nat, keys' >= keys, Listening' => Listening, ws' # "up" => ws # "up"
      PROVE  FlowInv'
  <2>1. Pipe' = Pipe
    BY <1>2 DEF Pipe
  <2> QED BY <1>1, <1>2, <2>1, SameFlow
<1>3. CASE Produce
  <2>1. /\ UNCHANGED <<chan, heard, told, used, keys, key, ws>> /\ made' = made + 1
        /\ wire' = IF Listening THEN Append(wire, made + 1) ELSE wire
    BY <1>3 DEF Produce, connection, listen, engine
  <2>2. CASE Listening
    <3>1. ws = "up"
      BY <2>2 DEF Listening
    <3> QED BY <1>1, <2>1, <2>2, <3>1, MoreFlow
  <2>3. CASE ~Listening
    <3>1. Pipe' = Pipe /\ Due' = Due /\ ~Listening' /\ Due \in Nat /\ Pipe \in Seq(Nat)
      BY <1>1, <2>1, <2>3, ConcatProperties DEF Pipe, Due, Listening
    <3>2. Flow(Pipe, heard, Due, made + 1)
      BY <1>1, <3>1, FlowMade DEF FlowInv
    <3>3. FlowTypes'
      <4>1. told' \in BOOLEAN
        BY <2>1 DEF FlowInv, FlowTypes
      <4> QED BY <1>1, <2>1, <2>3, <4>1 DEF FlowTypes
    <3> QED BY <1>1, <2>1, <2>3, <3>1, <3>2, <3>3 DEF FlowInv
  <2> QED BY <2>1, <2>2, <2>3
<1>4. CASE Expire
  <2>1. /\ UNCHANGED <<made, chan, heard, told, used, keys, ws>> /\ key' = 0
        /\ wire' = IF Listening THEN Append(wire, 0) ELSE wire
    BY <1>4 DEF Expire, connection, engine, Expired
  <2>2. CASE Listening
    <3>1. ws = "up"
      BY <2>2 DEF Listening
    <3> QED BY <1>1, <2>1, <2>2, <3>1, MoreFlow
  <2>3. CASE ~Listening
    <3>1. ~Listening'
      BY <2>1 DEF Listening
    <3> QED BY <1>1, <1>2, <2>1, <2>3, <3>1
  <2> QED BY <2>1, <2>2, <2>3
<1>5. CASE Subscribe
  <2>1. /\ UNCHANGED <<made, heard, told, used, chan, wire>>
        /\ ws' = "up" <=> ws = "up"
        /\ MakeKey \/ UNCHANGED <<key, keys>>
    BY <1>5 DEF Subscribe, StartConnection, CreateKey, CreateKeyFails, connection
  <2>2. keys' \in Nat /\ keys' >= keys /\ (Listening' => Listening)
    <3>1. CASE MakeKey
      BY <1>1, <2>1, <3>1, NoNewListening
    <3>2. CASE UNCHANGED <<key, keys>>
      BY <1>1, <2>1, <3>2 DEF Listening
    <3> QED BY <2>1, <3>1, <3>2
  <2> QED BY <1>2, <2>1, <2>2
<1>6. CASE Connect
  <2>1. /\ UNCHANGED <<made, heard, told>> /\ chan' = chan \o Events(1) /\ wire' = <<>>
        /\ MakeKey /\ used' = key'
    BY <1>6 DEF Connect, CreateKey, Send, engine
  <2>2. keys' \in Nat /\ used' \in 0..keys'
    BY <1>1, <2>1 DEF MakeKey, KeyTypes
  <2>3. Events(1) \in Seq({0}) /\ Events(1) # <<>>
    BY EventsAreChanges
  <2> QED BY <2>1, <2>2, <2>3, CutFlow
<1>7. ASSUME NEW n \in Nat, Ends(n), ws' # "up", keys' \in Nat, keys' >= keys
      PROVE  FlowInv'
  <2>1. /\ UNCHANGED <<made, heard, told, used>> /\ wire' = <<>>
        /\ chan' = chan \o Events(IF ws' = "broken" THEN n + 2 ELSE n)
    BY <1>7 DEF Ends, Send, engine
  <2>2. ~Listening'
    BY <1>7 DEF Listening
  <2>3. used' \in 0..keys'
    BY <1>1, <1>7, <2>1
  <2>4. Events(IF ws' = "broken" THEN n + 2 ELSE n) \in Seq({0})
    BY EventsAreChanges
  <2> QED BY <1>7, <2>1, <2>2, <2>3, <2>4, CutFlow
<1>8. CASE ConnectFails
  <2>1. Ends(0) /\ ws' # "up"
    BY <1>8 DEF ConnectFails, FailToConnect, Backoff
  <2>2. keys' \in Nat /\ keys' >= keys
    BY <1>1, <1>8 DEF ConnectFails, CreateKey, CreateKeyFails, MakeKey
  <2> QED BY <1>7, <2>1, <2>2 DEF Ends, engine
<1>9. CASE Drop
  <2>1. Ends(1) /\ ws' # "up" /\ UNCHANGED keys
    BY <1>9 DEF Drop, Lose, Backoff, listen
  <2> QED BY <1>1, <1>7, <2>1 DEF Ends, engine
<1>10. CASE OnMessage
  <2>1. CASE Head(wire) = Expired
    <3>1. Ends(1) /\ ws' # "up" /\ UNCHANGED keys
      BY <1>10, <2>1 DEF OnMessage, Leave, Backoff, listen
    <3> QED BY <1>1, <1>7, <3>1 DEF Ends, engine
  <2>2. CASE Head(wire) # Expired
    <3>1. /\ UNCHANGED <<made, heard, told, used, keys, key, ws>> /\ ws = "up"
          /\ wire # <<>> /\ wire' = Tail(wire) /\ chan' = chan \o <<Head(wire)>>
      BY <1>10, <2>2 DEF OnMessage, Send, connection, listen, engine
    <3>2. /\ <<Head(wire)>> \in Seq(Nat) /\ Tail(wire) \in Seq(Nat)
          /\ wire = <<Head(wire)>> \o Tail(wire)
      <4>1. Head(wire) \in Nat /\ Tail(wire) \in Seq(Nat)
        BY <1>1, <3>1, HeadTailProperties
      <4>2. <<Head(wire)>> \in Seq(Nat)
        BY <4>1
      <4> QED BY <1>1, <3>1, <4>1, <4>2
    <3>3. Pipe' = Pipe /\ chan' \in Seq(Nat) /\ wire' \in Seq(Nat)
      <4>1. (chan \o <<Head(wire)>>) \o Tail(wire) = chan \o (<<Head(wire)>> \o Tail(wire))
        BY SMTT(20), <1>1, <3>2, ConcatAssociative
      <4>2. Pipe' = Pipe
        BY <3>1, <3>2, <4>1 DEF Pipe
      <4>3. chan \o <<Head(wire)>> \in Seq(Nat)
        BY <1>1, <3>2, ConcatProperties
      <4> QED BY <3>1, <3>2, <4>2, <4>3
    <3>4. Listening' => Listening
      BY <3>1 DEF Listening
    <3> QED BY <1>1, <3>1, <3>3, <3>4, SameFlow
  <2> QED BY <2>1, <2>2
<1>11. CASE Reconnect \/ Tick \/ Look \/ Renew \/ FeedOver \/ UNCHANGED vars
  <2>1. /\ UNCHANGED <<made, heard, told, used, chan, wire, key, keys>>
        /\ ws' = "up" <=> ws = "up"
    BY <1>11 DEF Reconnect, Again, Tick, Look, Renew, FeedOver, vars, connection, listen,
       keepalive, engine
  <2>2. Listening' => Listening
    BY <2>1 DEF Listening
  <2> QED BY <1>1, <1>2, <2>1, <2>2
<1>12. CASE Hear
  BY <1>12, ReadFlow
<1> QED BY <1>3, <1>4, <1>5, <1>6, <1>8, <1>9, <1>10, <1>11, <1>12 DEF Next, Main

\* The engine reads the updates in order and is told of a change of the connection wherever
\* one is missing, for any capacity of the channel and any number of lost connections, lost
\* keys and failing calls (UserDataWs::start, ws_feed_loop).
THEOREM NoUpdateMissedInSilence == Spec => NoSilentGap
<1>1. IInv /\ FlowInv /\ [Next]_vars =>
        [heard' # heard => heard' > heard /\ (heard' = heard + 1 \/ told)]_vars
  BY StepFlow
<1> QED BY InitKeys, StepKeys, InitFlow, StepFlow, <1>1, PTL DEF Spec, NoSilentGap
=============================================================================
