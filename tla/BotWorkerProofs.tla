--------------------------- MODULE BotWorkerProofs ---------------------------
(***************************************************************************)
(* Proofs about BotWorker: type correctness and one order in flight, for   *)
(* any number of orders and restarts and any behaviour of the engine and   *)
(* the queues; and, for a worker that is not stopped and whose orders do   *)
(* not outlive their timeout, no second opening order at the engine.       *)
(***************************************************************************)
EXTENDS BotWorker, FiniteSetTheorems, WellFoundedInduction, TLAPS

-----------------------------------------------------------------------------
(* Lemmas about the operators *)

\* A nonempty set of orders has a newest one, and LatestOpen is one.
LEMMA LatestOpenTyped ==
  /\ LatestOpen \in Cids \cup {NoCid}
  /\ OpenRecords # {} => LatestOpen \in OpenRecords
<1>1. CASE OpenRecords = {}
  BY <1>1 DEF LatestOpen
<1>2. CASE OpenRecords # {}
  <2> DEFINE T == {MaxOrders - c : c \in OpenRecords}
             R == OpToRel(<, Nat)
  <2>1. OpenRecords \subseteq Cids
    BY DEF OpenRecords
  <2>2. T \subseteq Nat /\ T # {}
    <3>1. \A c \in OpenRecords : MaxOrders - c \in Nat
      BY <2>1, BoundsAssumption DEF Cids
    <3>2. PICK c \in OpenRecords : TRUE
      BY <1>2
    <3>3. MaxOrders - c \in T
      BY <3>2
    <3> QED
      BY <3>1, <3>3
  <2>3. IsWellFoundedOn(R, Nat)
    BY NatLessThanWellFounded
  <2>4. \E x \in T : \A y \in T : ~(<<y, x>> \in R)
    <3> HIDE DEF T, R
    <3> QED BY <2>2, <2>3, WFMin
  <2>5. PICK x \in T : \A y \in T : ~(y < x)
    BY <2>4, <2>2 DEF OpToRel
  <2>6. PICK c \in OpenRecords : x = MaxOrders - c
    BY <2>5
  <2>7. ASSUME NEW d \in OpenRecords PROVE d <= c
    <3>1. ~(MaxOrders - d < MaxOrders - c)
      BY <2>5, <2>6
    <3> QED BY <3>1, <2>1, BoundsAssumption DEF Cids
  <2>8. \E e \in OpenRecords : \A d \in OpenRecords : d <= e
    BY <2>7
  <2> QED
    BY <2>8, <2>1, <1>2 DEF LatestOpen
<1> QED
  BY <1>1, <1>2

\* A nonempty set of sides has at least one element, and every side its order id.
LEMMA CloseIdTyped ==
  ASSUME NEW T \in SUBSET Sides, NEW s \in T, sent \in 0..MaxOrders,
         sent + Cardinality(T) <= MaxOrders
  PROVE  CloseId(s, T) \in Cids
<1>1. IsFiniteSet(T)
  BY SidesAssumption, FS_Subset
<1>2. Cardinality(T) \in Nat /\ Cardinality(T) # 0
  BY <1>1, FS_CardinalityType, FS_EmptySet
<1> QED
  BY <1>2, BoundsAssumption DEF CloseId, Cids

\* A set of sides is finite.
LEMMA CardinalityTyped ==
  ASSUME NEW T \in SUBSET Sides
  PROVE  Cardinality(T) \in Nat
  BY SidesAssumption, FS_Subset, FS_CardinalityType

-----------------------------------------------------------------------------
(* Type correctness *)

\* TypeOK is not inductive: the engine applies a trade of a real order.
TypeInv == TypeOK /\ (applying # NoTrade => applying.cid \in Cids)

\* The state of a side in a new worker.
LEMMA BlankTyped == Blank \in SideState
  BY DEF SideState, Blank

\* What the handlers do to a side keeps it typed.
LEMMA SidesTyped ==
  ASSUME NEW x \in SideState
  PROVE  /\ ClearPosition(x) \in SideState
         /\ \A r \in Reasons : ClearOnClose(x, r) \in SideState
         /\ \A c \in Cids \cup {NoCid} : /\ [x EXCEPT !.pendingOpen = c] \in SideState
                                         /\ [x EXCEPT !.pendingClose = c] \in SideState
         /\ \A p \in {"Opening", "Open", "Closing", "Closed"} : [x EXCEPT !.position = p] \in SideState
         /\ [x EXCEPT !.pendingOpen = NoCid, !.pendingClose = NoCid] \in SideState
         /\ [x EXCEPT !.cooling = FALSE] \in SideState
         /\ \A b \in BOOLEAN : [x EXCEPT !.openedAt = b] \in SideState
         /\ \A l \in Reasons \cup {"none"}, b \in BOOLEAN :
               [x EXCEPT !.lastClose = l, !.cooling = b] \in SideState
         /\ \A c \in Cids : [x EXCEPT !.pendingOpen = NoCid, !.armed = TRUE, !.openedAt = TRUE,
                                       !.openFee = TRUE, !.openCid = c] \in SideState
  BY ZenonT(60) DEF SideState, ClearPosition, ClearOnClose

\* refresh_position_from_pe keeps the cache and the ids typed.
LEMMA RefreshedTyped ==
  ASSUME NEW sd \in [Sides -> SideState], known \in [Sides -> BOOLEAN]
  PROVE  Refreshed(sd) \in [Sides -> SideState] /\ KnownRefreshed \in [Sides -> BOOLEAN]
  BY DEF Refreshed, KnownRefreshed, SideState

\* Sending closes: every order gets an id of its own bounds, and stays typed.
LEMMA SendCloseTyped ==
  ASSUME TypeOK, NEW T \in SUBSET Sides, NEW reason \in Reasons, SendClose(T, reason)
  PROVE  /\ sent' \in 0..MaxOrders
         /\ order' \in [Cids -> Order]
         /\ cmds' \in Seq(Cids)
         /\ \A sd \in [Sides -> SideState] : WithClose(sd, T) \in [Sides -> SideState]
<1>1. Cardinality(T) \in Nat
  BY CardinalityTyped
<1>2. sent \in 0..MaxOrders /\ sent + Cardinality(T) <= MaxOrders
  BY DEF TypeOK, SendClose
<1>3. sent' \in 0..MaxOrders
  BY <1>1, <1>2, BoundsAssumption DEF SendClose
<1>4. order' \in [Cids -> Order]
  <2>1. ASSUME NEW c \in Cids, \E s \in T : c = CloseId(s, T)
        PROVE  (CHOOSE s \in T : c = CloseId(s, T)) \in Sides
    BY <2>1
  <2> QED
    BY <2>1 DEF TypeOK, SendClose, Order
<1>5. cmds' \in Seq(Cids)
  <2>1. [i \in 1..Cardinality(T) |-> sent + i] \in Seq(Cids)
    BY <1>1, <1>2, BoundsAssumption DEF Cids
  <2> QED
    BY <2>1 DEF TypeOK, SendClose
<1>6. ASSUME NEW sd \in [Sides -> SideState]
      PROVE  WithClose(sd, T) \in [Sides -> SideState]
  <2>1. ASSUME NEW s \in T PROVE CloseId(s, T) \in Cids
    BY <1>2, CloseIdTyped
  <2> QED
    BY <2>1, SidesTyped DEF WithClose
<1> QED
  BY <1>3, <1>4, <1>5, <1>6

\* close_trade keeps the trade records typed.
LEMMA CloseRecordTyped ==
  ASSUME TypeOK, NEW o \in Cids, NEW c \in Cids, CloseRecord(o, c)
  PROVE  record' \in [Cids -> TradeRecord] /\ closes' \in Seq(CloseRow)
  BY DEF TypeOK, CloseRecord, TradeRecord, CloseRow

\* What the engine says is made of events.
LEMMA TellTyped ==
  ASSUME TypeOK, NEW p \in Seq(PosEvent), NEW o \in Seq(OrdEvent), Tell(p, o)
  PROVE  posq' \in Seq(PosEvent) /\ ordq' \in Seq(OrdEvent)
  BY DEF TypeOK, Tell

\* The events the engine emits, one by one.
LEMMA EventsTyped ==
  /\ \A type \in {"Opened", "Updated", "Closed"}, s \in Sides,
        st \in {"Opening", "Open", "Closing", "Closed"} : Event(type, s, st) \in Seq(PosEvent)
  /\ \A type \in {"Filled", "Failed", "Canceled"}, c \in Cids : OrderEvent(type, c) \in Seq(OrdEvent)
  /\ <<>> \in Seq(PosEvent) /\ <<>> \in Seq(OrdEvent)
  BY DEF Event, OrderEvent, PosEvent, OrdEvent

\* A new worker, an idle engine.
LEMMA InitTyped == Init => TypeInv
<1> SUFFICES ASSUME Init PROVE TypeInv
  OBVIOUS
<1>1. Blank \in SideState /\ NoOrder \in Order /\ NoPosition \in PePosition
  BY SidesAssumption DEF Blank, SideState, NoOrder, Order, Reasons, NoPosition, PePosition
<1>2. NoTrade \in [cid: Cids \cup {NoCid}, qty: Int]
  BY DEF NoTrade
<1> QED
  BY <1>1, <1>2, BoundsAssumption DEF Init, TypeInv, TypeOK, TradeRecord

\* The newest closing row names orders.
LEMMA RestoredTyped ==
  ASSUME TypeOK, NEW s \in Sides
  PROVE  RestoredClose(s) \in Reasons \cup {"none"}
<1>1. CASE closes # <<>> /\ order[closes[Len(closes)].open].side = s
  <2>1. closes[Len(closes)] \in CloseRow
    BY <1>1 DEF TypeOK
  <2>2. closes[Len(closes)].by \in Cids
    BY <2>1 DEF CloseRow
  <2>3. order[closes[Len(closes)].by] \in Order
    BY <2>2 DEF TypeOK
  <2> QED
    BY <2>3, <1>1 DEF RestoredClose, Order
<1>2. CASE ~(closes # <<>> /\ order[closes[Len(closes)].open].side = s)
  BY <1>2 DEF RestoredClose
<1> QED
  BY <1>1, <1>2

\* Recovery, the first exits, stop and start.
LEMMA RecoveryTyped == TypeInv /\ (Recovery \/ StopWorker) => TypeInv'
<1> SUFFICES ASSUME TypeInv, Recovery \/ StopWorker PROVE TypeInv'
  OBVIOUS
<1> USE DEF TypeInv
<1>1. ASSUME NEW C \in SUBSET Sides, Boot(C) PROVE TypeInv'
  <2> DEFINE restored(s) == IF /\ \E u \in Sides : KnownRefreshed[u]
                               /\ LatestOpen # NoCid
                               /\ order[LatestOpen].side = s
                            THEN [Blank EXCEPT !.openCid = LatestOpen, !.armed = TRUE, !.openedAt = TRUE]
                            ELSE Blank
             booted == [s \in Sides |-> [restored(s) EXCEPT !.lastClose = RestoredClose(s), !.cooling = s \in C]]
  <2>1. ASSUME NEW s \in Sides PROVE restored(s) \in SideState
    BY LatestOpenTyped DEF SideState, Blank
  <2>2. booted \in [Sides -> SideState]
    <3> HIDE DEF restored
    <3>1. ASSUME NEW s \in Sides
          PROVE  [restored(s) EXCEPT !.lastClose = RestoredClose(s), !.cooling = s \in C] \in SideState
      <4>1. (s \in C) \in BOOLEAN
        OBVIOUS
      <4> QED BY <2>1, <4>1, RestoredTyped, SidesTyped
    <3> QED BY <3>1
  <2>3. side' = Refreshed(booted)
    BY <1>1 DEF Boot
  <2>4. side' \in [Sides -> SideState] /\ known' \in [Sides -> BOOLEAN]
    <3> HIDE DEF booted
    <3> QED BY <1>1, <2>2, <2>3, RefreshedTyped DEF Boot, TypeOK
  <2>5. record' \in [Cids -> TradeRecord]
    BY <1>1 DEF Boot, TypeOK, TradeRecord
  <2> QED
    BY <1>1, <2>4, <2>5 DEF Boot, TypeOK, engineVars
<1>2. CASE WaitOver
  BY <1>2 DEF WaitOver, TypeOK, engineVars, books
<1>3. ASSUME NEW P \in SUBSET Sides, Begin(P) PROVE TypeInv'
  <2> DEFINE timed == [s \in Sides |-> [side[s] EXCEPT !.openedAt = @ \/ Has(s)]]
  <2>1. timed \in [Sides -> SideState]
    <3>1. ASSUME NEW s \in Sides
          PROVE  [side[s] EXCEPT !.openedAt = @ \/ Has(s)] \in SideState
      <4>1. (side[s].openedAt \/ Has(s)) \in BOOLEAN
        OBVIOUS
      <4> QED BY <4>1, SidesTyped DEF TypeOK
    <3> QED BY <3>1
  <2>2. SendClose(P, "exit") /\ side' = WithClose(timed, P)
    BY <1>3 DEF Begin
  <2>3. "exit" \in Reasons
    BY DEF Reasons
  <2>4. /\ sent' \in 0..MaxOrders /\ order' \in [Cids -> Order] /\ cmds' \in Seq(Cids)
        /\ side' \in [Sides -> SideState]
    <3> HIDE DEF timed
    <3> QED BY <2>1, <2>2, <2>3, SendCloseTyped
  <2> QED
    BY <1>3, <2>4 DEF Begin, TypeOK, engineVars, books
<1>4. CASE StopWorker
  BY <1>4, BoundsAssumption DEF StopWorker, TypeOK, engineVars, books
<1>5. CASE StartWorker
  <2>1. side' \in [Sides -> SideState] /\ posq' \in Seq(PosEvent) /\ ordq' \in Seq(OrdEvent)
    BY <1>5, BlankTyped, EventsTyped DEF StartWorker
  <2> QED
    BY <1>5, <2>1 DEF StartWorker, TypeOK, engineVars, books
<1> QED
  BY <1>1, <1>2, <1>3, <1>4, <1>5 DEF Recovery

\* The handlers of position and order events.
LEMMA EventsStepTyped == TypeInv /\ Events => TypeInv'
<1> SUFFICES ASSUME TypeInv, Events PROVE TypeInv'
  OBVIOUS
<1> USE DEF TypeInv
<1>1. ASSUME posq # <<>> PROVE Head(posq) \in PosEvent /\ Tail(posq) \in Seq(PosEvent)
  BY <1>1 DEF TypeOK
<1>2. ASSUME ordq # <<>> PROVE Head(ordq) \in OrdEvent /\ Tail(ordq) \in Seq(OrdEvent)
  BY <1>2 DEF TypeOK
<1>3. CASE OnPositionUpdated
  <2> DEFINE e == Head(posq)
  <2>1. e \in PosEvent
    BY <1>3, <1>1 DEF OnPositionUpdated, TakePosEvent
  <2>2. e.side \in Sides /\ e.status \in {"Opening", "Open", "Closing", "Closed"}
    BY <2>1 DEF PosEvent
  <2>3. [side[e.side] EXCEPT !.position = e.status] \in SideState
    BY <2>2, SidesTyped DEF TypeOK
  <2>4. [side EXCEPT ![e.side].position = e.status] \in [Sides -> SideState]
    BY <2>3 DEF TypeOK
  <2>5. side' \in [Sides -> SideState] /\ known' \in [Sides -> BOOLEAN]
    BY <1>3, <2>4 DEF OnPositionUpdated, TypeOK
  <2> QED
    BY SMTT(40), <1>3, <1>1, <2>5 DEF OnPositionUpdated, TakePosEvent, TypeOK, engineVars, books
<1>4. CASE OnPositionOpened
  <2> DEFINE e == Head(posq)
  <2>1. e \in PosEvent
    BY <1>4, <1>1 DEF OnPositionOpened, TakePosEvent
  <2>2. e.side \in Sides /\ e.status \in {"Opening", "Open", "Closing", "Closed"}
    BY <2>1 DEF PosEvent
  <2>3. [side[e.side] EXCEPT !.position = e.status] \in SideState
    BY <2>2, SidesTyped DEF TypeOK
  <2>4. side' \in [Sides -> SideState] /\ known' \in [Sides -> BOOLEAN]
    BY <1>4, <2>3 DEF OnPositionOpened, TypeOK
  <2> QED
    BY <1>4, <1>1, <2>4 DEF OnPositionOpened, TakePosEvent, TypeOK, engineVars, books
<1>5. CASE OnPositionClosed
  <2>1. posq # <<>> /\ Head(posq).side \in Sides
    BY <1>5, <1>1 DEF OnPositionClosed, TakePosEvent, PosEvent
  <2>2. ClearOnClose(side[Head(posq).side], "external") \in SideState
    BY <2>1, SidesTyped DEF TypeOK, Reasons
  <2>3. side' \in [Sides -> SideState] /\ known' \in [Sides -> BOOLEAN]
    BY <1>5, <2>1, <2>2 DEF OnPositionClosed, TypeOK
  <2> QED
    BY <1>5, <1>1, <2>1, <2>3 DEF OnPositionClosed, TakePosEvent, TypeOK, engineVars, books
<1>6. CASE OnOrderUnmatched
  BY <1>6, <1>2 DEF OnOrderUnmatched, TakeOrdEvent, TypeOK, engineVars, books
<1>7. ASSUME NEW s \in Sides, OnOpenFilled(s) PROVE TypeInv'
  <2> DEFINE c == Head(ordq).cid
             armed == [side[s] EXCEPT !.pendingOpen = NoCid, !.armed = TRUE, !.openedAt = TRUE,
                                      !.openFee = TRUE, !.openCid = c]
  <2>1. c \in Cids
    BY <1>7, <1>2 DEF OnOpenFilled, TakeOrdEvent, OrdEvent
  <2>2. armed \in SideState
    BY <2>1, SidesTyped DEF TypeOK
  <2>3. side' = [side EXCEPT ![s] = armed]
    BY <1>7 DEF OnOpenFilled, TypeOK, SideState
  <2>4. side' \in [Sides -> SideState]
    <3> HIDE DEF armed
    <3> QED BY <2>2, <2>3 DEF TypeOK
  <2>5. record' \in [Cids -> TradeRecord]
    BY <1>7, <2>1 DEF OnOpenFilled, TypeOK, TradeRecord
  <2> QED
    BY SMTT(40), <1>7, <1>2, <2>4, <2>5 DEF OnOpenFilled, TakeOrdEvent, TypeOK, engineVars
<1>8. ASSUME NEW s \in Sides, OnCloseFilled(s) PROVE TypeInv'
  <2> DEFINE c == Head(ordq).cid
             opened == IF side[s].openCid # NoCid THEN side[s].openCid ELSE LatestOpen
  <2>1. ordq # <<>> /\ c \in Cids /\ order[c].reason \in Reasons
    BY SMTT(40), <1>8, <1>2 DEF OnCloseFilled, TakeOrdEvent, OrdEvent, TypeOK, Order
  <2>2. [ClearOnClose(side[s], order[c].reason) EXCEPT !.pendingClose = NoCid] \in SideState
    <3>1. ClearOnClose(side[s], order[c].reason) \in SideState
      BY <2>1, SidesTyped DEF TypeOK
    <3> QED BY ZenonT(60), <3>1, SidesTyped
  <2>3. side' \in [Sides -> SideState] /\ known' \in [Sides -> BOOLEAN] /\ trades' \in Nat
    BY <1>8, <2>2 DEF OnCloseFilled, TypeOK
  <2>4. opened \in Cids \cup {NoCid}
    BY LatestOpenTyped DEF TypeOK, SideState
  <2>5. IF opened # NoCid THEN CloseRecord(opened, c) ELSE UNCHANGED <<record, closes>>
    BY <1>8 DEF OnCloseFilled
  <2>6. record' \in [Cids -> TradeRecord] /\ closes' \in Seq(CloseRow)
    <3> HIDE DEF opened, c
    <3> QED BY <2>1, <2>4, <2>5, CloseRecordTyped DEF TypeOK
  <2> QED
    BY <1>8, <1>2, <2>1, <2>3, <2>6 DEF OnCloseFilled, TakeOrdEvent, TypeOK, engineVars
<1>9. ASSUME NEW s \in Sides, OnOrderEnded(s) PROVE TypeInv'
  <2> DEFINE c == Head(ordq).cid
             o == IF side[s].pendingOpen = c THEN NoCid ELSE side[s].pendingOpen
             l == IF side[s].pendingClose = c THEN NoCid ELSE side[s].pendingClose
             ended == [[side[s] EXCEPT !.pendingOpen = o] EXCEPT !.pendingClose = l]
  <2>1. o \in Cids \cup {NoCid} /\ l \in Cids \cup {NoCid}
    BY DEF TypeOK, SideState
  <2>2. ended \in SideState
    <3> HIDE DEF o, l
    <3> QED BY <2>1, SidesTyped DEF TypeOK
  <2>3. side' = [side EXCEPT ![s] = ended]
    BY <1>9 DEF OnOrderEnded, TypeOK, SideState
  <2>4. side' \in [Sides -> SideState]
    <3> HIDE DEF ended
    <3> QED BY <2>2, <2>3 DEF TypeOK
  <2> QED
    BY SMTT(40), <1>9, <1>2, <2>4 DEF OnOrderEnded, TakeOrdEvent, TypeOK, engineVars, books
<1> QED
  BY <1>3, <1>4, <1>5, <1>6, <1>7, <1>8, <1>9 DEF Events

\* Price ticks, decisions and the end of a cooldown.
LEMMA DecisionsTyped == TypeInv /\ (Tick \/ LlmAsk \/ Decision \/ Cooldown) => TypeInv'
<1> SUFFICES ASSUME TypeInv, Tick \/ LlmAsk \/ Decision \/ Cooldown PROVE TypeInv'
  OBVIOUS
<1> USE DEF TypeInv
<1>1. ASSUME NEW T \in SUBSET Sides, NEW X \in SUBSET Sides, NEW P \in SUBSET Sides,
             PriceTick(T, X, P)
      PROVE  TypeInv'
  <2> DEFINE cleared == [s \in Sides |->
               IF s \in T THEN [side[s] EXCEPT !.pendingOpen = NoCid, !.pendingClose = NoCid] ELSE side[s]]
             due == IF X # {} THEN {s \in X : Has(s)} ELSE P
             reason == IF X # {} THEN "timeout" ELSE "exit"
  <2>1. cleared \in [Sides -> SideState]
    <3>1. \A s \in Sides : [side[s] EXCEPT !.pendingOpen = NoCid, !.pendingClose = NoCid] \in SideState
      BY SidesTyped DEF TypeOK
    <3> QED BY <3>1 DEF TypeOK
  <2>2. due \in SUBSET Sides /\ reason \in Reasons
    BY DEF Reasons
  <2>3. SendClose(due, reason) /\ side' = WithClose(cleared, due)
    BY <1>1 DEF PriceTick
  <2>4. /\ sent' \in 0..MaxOrders /\ order' \in [Cids -> Order] /\ cmds' \in Seq(Cids)
        /\ side' \in [Sides -> SideState]
    <3> HIDE DEF cleared, due, reason
    <3> QED BY <2>1, <2>2, <2>3, SendCloseTyped
  <2> QED
    BY <1>1, <2>4 DEF PriceTick, TypeOK, engineVars, books
<1>2. CASE LlmAsk
  <2>1. side' \in [Sides -> SideState] /\ known' \in [Sides -> BOOLEAN]
    BY <1>2, RefreshedTyped DEF LlmAsk, TypeOK
  <2> QED
    BY <1>2, <2>1 DEF LlmAsk, TypeOK, engineVars, books
<1>3. CASE DecideHold
  BY <1>3 DEF DecideHold, TypeOK, engineVars, books
<1>4. CASE DecideClose
  <2> DEFINE held == {s \in Sides : Has(s)}
  <2>1. held \in SUBSET Sides /\ "llm" \in Reasons
    BY DEF Reasons
  <2>2. SendClose(held, "llm") /\ side' = WithClose(side, held)
    BY <1>4 DEF DecideClose
  <2>3. /\ sent' \in 0..MaxOrders /\ order' \in [Cids -> Order] /\ cmds' \in Seq(Cids)
        /\ side' \in [Sides -> SideState]
    <3> HIDE DEF held
    <3>1. side \in [Sides -> SideState]
      BY DEF TypeOK
    <3> QED BY <2>1, <2>2, <3>1, SendCloseTyped
  <2> QED
    BY <1>4, <2>3 DEF DecideClose, TypeOK, engineVars, books
<1>5. ASSUME NEW s \in Sides, DecideOpen(s) PROVE TypeInv'
  <2>1. sent' \in Cids /\ sent' \in 0..MaxOrders
    BY SMTT(20), <1>5, BoundsAssumption DEF DecideOpen, TypeOK, Cids
  <2>2. order' \in [Cids -> Order]
    <3> DEFINE o == [kind |-> "open", side |-> s, reason |-> "llm", st |-> "queued",
                     left |-> Amount, alone |-> Alone(s)]
    <3>1. Alone(s) \in BOOLEAN
      BY DEF Alone
    <3>2. o \in Order
      BY <3>1, BoundsAssumption DEF Order, Reasons
    <3>3. order' = [order EXCEPT ![sent'] = o]
      BY <1>5 DEF DecideOpen
    <3> HIDE DEF o
    <3> QED BY <3>2, <3>3 DEF TypeOK
  <2>3. side' \in [Sides -> SideState]
    <3>1. [side[s] EXCEPT !.pendingOpen = sent'] \in SideState
      BY <2>1, SidesTyped DEF TypeOK
    <3> QED BY SMTT(40), <1>5, <3>1 DEF DecideOpen, TypeOK
  <2> QED
    BY <1>5, <2>1, <2>2, <2>3 DEF DecideOpen, TypeOK, engineVars, books
<1>6. ASSUME NEW s \in Sides, CooldownOver(s) PROVE TypeInv'
  <2>1. [side[s] EXCEPT !.cooling = FALSE] \in SideState
    BY SidesTyped DEF TypeOK
  <2>2. side' \in [Sides -> SideState]
    BY <1>6, <2>1 DEF CooldownOver, TypeOK
  <2> QED
    BY SMTT(40), <1>6, <2>2 DEF CooldownOver, TypeOK, engineVars, books
<1> QED
  BY <1>1, <1>2, <1>3, <1>4, <1>5, <1>6 DEF Tick, Decision, Cooldown

\* What the engine does to an order and to a position keeps them typed.
LEMMA OrderTyped ==
  ASSUME NEW o \in Order, NEW q \in Int,
         NEW st \in {"queued", "live", "filled", "failed", "canceled"}
  PROVE  [o EXCEPT !.st = st] \in Order /\ [o EXCEPT !.left = q, !.st = st] \in Order
         /\ [o EXCEPT !.st = st, !.left = q] \in Order /\ o.st \in {"none", "queued", "live", "filled", "failed", "canceled"}
         /\ o.left \in Int /\ o.side \in Sides
  BY DEF Order

\* What the engine does to a position keeps it typed.
LEMMA PositionTyped ==
  ASSUME NEW p \in PePosition, NEW st \in {"Open", "Closing"}
  PROVE  [p EXCEPT !.status = st] \in PePosition /\ NoPosition \in PePosition /\ p.qty \in Int
  BY DEF PePosition, NoPosition

\* The engine's commands, trades and ends of orders, and a lagging queue.
LEMMA EngineTyped == TypeInv /\ (Engine \/ Lag) => TypeInv'
<1> SUFFICES ASSUME TypeInv, Engine \/ Lag PROVE TypeInv'
  OBVIOUS
<1> USE DEF TypeInv
<1>0. ASSUME cmds # <<>> PROVE Head(cmds) \in Cids /\ Tail(cmds) \in Seq(Cids)
  BY <1>0 DEF TypeOK
<1>1. CASE PeOpen
  <2> DEFINE c == Head(cmds)
             s == order[c].side
  <2>1. c \in Cids /\ cmds' \in Seq(Cids)
    BY <1>1, <1>0 DEF PeOpen
  <2>2. s \in Sides
    BY <2>1 DEF TypeOK, Order
  <2>3. order' \in [Cids -> Order]
    <3>1. [order[c] EXCEPT !.st = "live"] \in Order /\ [order[c] EXCEPT !.st = "failed"] \in Order
      BY <2>1, OrderTyped DEF TypeOK
    <3>2. \/ order' = [order EXCEPT ![c] = [order[c] EXCEPT !.st = "live"]]
          \/ order' = [order EXCEPT ![c] = [order[c] EXCEPT !.st = "failed"]]
      BY <1>1 DEF PeOpen, Accepted, Refused
    <3> QED BY SMTT(40), <3>1, <3>2 DEF TypeOK
  <2>4. pe' \in [Sides -> PePosition]
    BY SMTT(40), <1>1, <2>2 DEF PeOpen, TypeOK, PePosition
  <2>5. /\ Event("Opened", s, "Opening") \o Event("Updated", s, "Opening") \in Seq(PosEvent)
        /\ OrderEvent("Failed", c) \in Seq(OrdEvent) /\ <<>> \in Seq(PosEvent) /\ <<>> \in Seq(OrdEvent)
    BY SMTT(40), <2>1, <2>2, EventsTyped
  <2>6. posq' \in Seq(PosEvent) /\ ordq' \in Seq(OrdEvent)
    <3> HIDE DEF c, s
    <3>1. \/ Tell(Event("Opened", s, "Opening") \o Event("Updated", s, "Opening"), <<>>)
          \/ Tell(<<>>, OrderEvent("Failed", c))
          \/ UNCHANGED <<posq, ordq>>
      BY <1>1 DEF PeOpen, c, s
    <3> QED BY <2>5, <3>1, TellTyped DEF TypeOK
  <2> QED
    BY <1>1, <2>1, <2>3, <2>4, <2>6 DEF PeOpen, TypeOK, workerVars, books
<1>2. CASE PeClose
  <2> DEFINE c == Head(cmds)
             s == order[c].side
  <2>1. c \in Cids /\ cmds' \in Seq(Cids)
    BY <1>2, <1>0 DEF PeClose
  <2>2. s \in Sides
    BY <2>1 DEF TypeOK, Order
  <2>3. order' \in [Cids -> Order]
    <3>1. /\ [order[c] EXCEPT !.st = "live", !.left = pe[s].qty] \in Order
          /\ [order[c] EXCEPT !.st = "failed"] \in Order
      BY <2>1, <2>2, OrderTyped, PositionTyped DEF TypeOK
    <3>2. \/ order' = [order EXCEPT ![c] = [order[c] EXCEPT !.st = "live", !.left = pe[s].qty]]
          \/ order' = [order EXCEPT ![c] = [order[c] EXCEPT !.st = "failed"]]
      <4>1. order[c] \in Order /\ order \in [Cids -> Order]
        BY <2>1 DEF TypeOK
      <4>2. CASE order' = [order EXCEPT ![c].st = "live", ![c].left = pe[s].qty]
        <5> HIDE DEF s, c
        <5> QED BY <2>1, <4>1, <4>2
      <4>3. CASE order' = [order EXCEPT ![c].st = "failed"]
        BY <4>3
      <4> QED BY <1>2, <4>2, <4>3 DEF PeClose, Refused
    <3> QED BY <3>1, <3>2 DEF TypeOK
  <2>4. pe' \in [Sides -> PePosition]
    <3>1. [pe[s] EXCEPT !.status = "Closing"] \in PePosition
      BY <2>2, PositionTyped DEF TypeOK
    <3> QED BY <1>2, <3>1 DEF PeClose, TypeOK
  <2>5. /\ Event("Updated", s, "Closing") \in Seq(PosEvent)
        /\ OrderEvent("Failed", c) \in Seq(OrdEvent) /\ <<>> \in Seq(PosEvent) /\ <<>> \in Seq(OrdEvent)
    BY <2>1, <2>2, EventsTyped
  <2>6. posq' \in Seq(PosEvent) /\ ordq' \in Seq(OrdEvent)
    <3> HIDE DEF c, s
    <3>1. \/ Tell(Event("Updated", s, "Closing"), <<>>)
          \/ Tell(<<>>, OrderEvent("Failed", c))
      BY <1>2 DEF PeClose, c, s
    <3> QED BY <2>5, <3>1, TellTyped DEF TypeOK
  <2> QED
    BY <1>2, <2>1, <2>3, <2>4, <2>6 DEF PeClose, TypeOK, workerVars, books
<1>3. ASSUME NEW c \in Cids, NEW q \in 1..(Amount * MaxOrders), PeTrade(c, q) PROVE TypeInv'
  <2>1. q \in Int
    OBVIOUS
  <2>2. order' \in [Cids -> Order]
    <3> DEFINE left == order[c].left - q
               st == IF q = order[c].left THEN "filled" ELSE order[c].st
    <3>1. left \in Int /\ st \in {"queued", "live", "filled", "failed", "canceled"}
      <4>1. order[c].left \in Int /\ order[c].st = "live"
        BY <1>3 DEF PeTrade, TypeOK, Order
      <4> QED BY <2>1, <4>1
    <3>2. [order[c] EXCEPT !.left = left, !.st = st] \in Order
      <4> HIDE DEF left, st
      <4> QED BY <3>1, OrderTyped DEF TypeOK
    <3>3. order' = [order EXCEPT ![c] = [order[c] EXCEPT !.left = left, !.st = st]]
      BY <1>3 DEF PeTrade, TypeOK, Order
    <3> HIDE DEF left, st
    <3> QED BY <3>2, <3>3 DEF TypeOK
  <2>3. applying' \in [cid: Cids \cup {NoCid}, qty: Int] /\ applying'.cid \in Cids
    BY <1>3, <2>1 DEF PeTrade
  <2>4. posq' \in Seq(PosEvent) /\ ordq' \in Seq(OrdEvent)
    <3>1. Tell(<<>>, OrderEvent("Filled", c)) \/ Tell(<<>>, <<>>)
      BY <1>3 DEF PeTrade
    <3> QED BY <3>1, TellTyped, EventsTyped
  <2> QED
    BY <1>3, <2>2, <2>3, <2>4 DEF PeTrade, TypeOK, workerVars, books
<1>4. CASE PeApply
  <2> DEFINE c == applying.cid
             s == order[c].side
             left == pe[s].qty + (IF order[c].kind = "open" THEN applying.qty ELSE 0 - applying.qty)
  <2>1. c \in Cids /\ applying' = NoTrade
    BY <1>4 DEF PeApply
  <2>2. s \in Sides
    BY <2>1 DEF TypeOK, Order
  <2>3. left \in Int
    BY <2>2 DEF TypeOK, PePosition
  <2>4. \/ UNCHANGED <<pe, posq, ordq>>
        \/ /\ pe' = [pe EXCEPT ![s] = [status |-> "Open", qty |-> left]]
           /\ Tell(Event("Updated", s, "Open"), <<>>)
        \/ /\ pe' = [pe EXCEPT ![s] = NoPosition]
           /\ Tell(Event("Closed", s, "Closed") \o Event("Updated", s, "Closed"), <<>>)
    BY <1>4 DEF PeApply
  <2>5. pe' \in [Sides -> PePosition]
    <3> HIDE DEF left, s, c
    <3>1. [status |-> "Open", qty |-> left] \in PePosition /\ NoPosition \in PePosition
      BY <2>3 DEF PePosition, NoPosition
    <3> QED BY <2>4, <3>1 DEF TypeOK
  <2>6. posq' \in Seq(PosEvent) /\ ordq' \in Seq(OrdEvent)
    <3> HIDE DEF left, s, c
    <3>1. /\ Event("Updated", s, "Open") \in Seq(PosEvent)
          /\ Event("Closed", s, "Closed") \o Event("Updated", s, "Closed") \in Seq(PosEvent)
      BY <2>2, EventsTyped
    <3> QED BY <2>4, <3>1, EventsTyped, TellTyped DEF TypeOK
  <2>7. applying' \in [cid: Cids \cup {NoCid}, qty: Int]
    BY <2>1 DEF NoTrade
  <2> QED
    BY <1>4, <2>1, <2>5, <2>6, <2>7 DEF PeApply, TypeOK, workerVars, books
<1>5. ASSUME NEW c \in Cids, NEW how \in {"failed", "canceled"}, PeEnd(c, how) PROVE TypeInv'
  <2> DEFINE s == order[c].side
             type == IF how = "failed" THEN "Failed" ELSE "Canceled"
  <2>1. s \in Sides
    BY DEF TypeOK, Order
  <2>2. order' \in [Cids -> Order]
    <3>1. [order[c] EXCEPT !.st = how] \in Order
      BY OrderTyped DEF TypeOK
    <3> QED BY SMTT(40), <1>5, <3>1 DEF PeEnd, TypeOK
  <2>3. pe' \in [Sides -> PePosition]
    <3>1. \/ pe' = [pe EXCEPT ![s] = NoPosition]
          \/ pe' = [pe EXCEPT ![s].status = "Open"]
          \/ pe' = pe
      BY <1>5 DEF PeEnd
    <3>2. [pe[s] EXCEPT !.status = "Open"] \in PePosition /\ NoPosition \in PePosition
      BY <2>1, PositionTyped DEF TypeOK
    <3> HIDE DEF s
    <3> QED BY <3>1, <3>2 DEF TypeOK
  <2>4. posq' \in Seq(PosEvent) /\ ordq' \in Seq(OrdEvent)
    <3>1. Tell(Event("Updated", s, "Open"), OrderEvent(type, c)) \/ Tell(<<>>, OrderEvent(type, c))
      BY <1>5 DEF PeEnd
    <3>2. Event("Updated", s, "Open") \in Seq(PosEvent) /\ OrderEvent(type, c) \in Seq(OrdEvent)
      BY <2>1, EventsTyped
    <3> HIDE DEF s, type
    <3> QED BY <3>1, <3>2, EventsTyped, TellTyped
  <2> QED
    BY <1>5, <2>2, <2>3, <2>4 DEF PeEnd, TypeOK, workerVars, books
<1>6. CASE Lag
  <2>1. posq' \in Seq(PosEvent) /\ ordq' \in Seq(OrdEvent)
    <3>1. CASE posq # <<>> /\ posq' = Tail(posq) /\ UNCHANGED ordq
      BY <3>1 DEF TypeOK
    <3>2. CASE ordq # <<>> /\ ordq' = Tail(ordq) /\ UNCHANGED posq
      BY <3>2 DEF TypeOK
    <3> QED BY <1>6, <3>1, <3>2 DEF Lag
  <2> QED
    BY <1>6, <2>1 DEF Lag, TypeOK, workerVars, engineVars, books
<1> QED
  BY <1>1, <1>2, <1>3, <1>4, <1>5, <1>6 DEF Engine

\* Every step of the system keeps its variables typed.
LEMMA StepTyped == TypeInv /\ [Next]_vars => TypeInv'
<1>1. TypeInv /\ UNCHANGED vars => TypeInv'
  BY DEF TypeInv, TypeOK, vars
<1> QED
  BY <1>1, RecoveryTyped, EventsStepTyped, DecisionsTyped, EngineTyped DEF Next

\* Type correctness: every variable of the worker, the orders, the engine and the
\* queues keeps its type, for any number of orders and restarts.
THEOREM TypeCorrect == Spec => []TypeOK
<1>1. TypeInv => TypeOK
  BY DEF TypeInv
<1> QED
  BY <1>1, InitTyped, StepTyped, PTL DEF Spec

-----------------------------------------------------------------------------
(* One order in flight *)

\* OneInFlight is not inductive: the handlers that send orders rely on nothing being
\* pending before the main loop and while the LLM is asked.
Early == {"price", "wait", "begin", "ask", "llm"}
Quiet == pc \in Early => ~IsPending(side)
FlightInv == TypeInv /\ OneInFlight /\ Quiet

\* Handlers that only take pending orders away.
LEMMA PendingShrinks ==
  ASSUME FlightInv, pc' \in Early => ~IsPending(side),
         \A s \in Sides : /\ side'[s].pendingOpen \in {NoCid, side[s].pendingOpen}
                          /\ side'[s].pendingClose \in {NoCid, side[s].pendingClose}
  PROVE  OneInFlight' /\ Quiet'
  BY DEF FlightInv, OneInFlight, Quiet, IsPending, PendingOn

\* Handlers that send closes do so when nothing is pending.
LEMMA ClosesAlone ==
  ASSUME NEW sd \in [Sides -> SideState], ~IsPending(sd), NEW T \in SUBSET Sides,
         side' = WithClose(sd, T), pc' = "main" \/ T = {}
  PROVE  OneInFlight' /\ Quiet'
<1>1. \A s \in Sides : side'[s].pendingOpen = NoCid
  BY DEF WithClose, IsPending, PendingOn, SideState
<1>2. T = {} => \A s \in Sides : side'[s].pendingClose = NoCid
  BY DEF WithClose, IsPending, PendingOn, SideState
<1> QED
  BY <1>1, <1>2 DEF OneInFlight, Quiet, IsPending, PendingOn, Early

\* What the handlers that are not about orders do to what is pending.
LEMMA PendingKept ==
  ASSUME NEW x \in SideState
  PROVE  /\ \A r \in Reasons : /\ ClearOnClose(x, r).pendingOpen = x.pendingOpen
                               /\ ClearOnClose(x, r).pendingClose = x.pendingClose
         /\ \A p \in {"none", "Opening", "Open", "Closing", "Closed"} :
               /\ [x EXCEPT !.position = p].pendingOpen = x.pendingOpen
               /\ [x EXCEPT !.position = p].pendingClose = x.pendingClose
         /\ [x EXCEPT !.cooling = FALSE].pendingOpen = x.pendingOpen
         /\ [x EXCEPT !.cooling = FALSE].pendingClose = x.pendingClose
  BY DEF SideState, ClearOnClose, ClearPosition

\* Position events keep what is pending.
LEMMA PositionEventsKeep ==
  ASSUME TypeOK, OnPositionUpdated \/ OnPositionOpened \/ OnPositionClosed
  PROVE  /\ pc' = pc
         /\ \A s \in Sides : /\ side'[s].pendingOpen = side[s].pendingOpen
                             /\ side'[s].pendingClose = side[s].pendingClose
<1> DEFINE h == Head(posq).side
           st == Head(posq).status
           moved == [side[h] EXCEPT !.position = st]
           closed == ClearOnClose(side[h], "external")
<1>1. pc' = pc /\ posq # <<>> /\ Head(posq) \in PosEvent
  BY DEF OnPositionUpdated, OnPositionOpened, OnPositionClosed, TakePosEvent, TypeOK
<1>2. h \in Sides /\ st \in {"Opening", "Open", "Closing", "Closed"}
  BY <1>1 DEF PosEvent
<1>3. side' = side \/ side' = [side EXCEPT ![h] = moved] \/ side' = [side EXCEPT ![h] = closed]
  BY DEF OnPositionUpdated, OnPositionOpened, OnPositionClosed
<1>4. side[h] \in SideState /\ "external" \in Reasons
  BY <1>2 DEF TypeOK, Reasons
<1>5. moved.pendingOpen = side[h].pendingOpen /\ moved.pendingClose = side[h].pendingClose
  <2> HIDE DEF h, st
  <2> QED BY <1>2, <1>4, PendingKept
<1>6. closed.pendingOpen = side[h].pendingOpen /\ closed.pendingClose = side[h].pendingClose
  <2> HIDE DEF h
  <2> QED BY <1>4, PendingKept
<1>7. ASSUME NEW s \in Sides
      PROVE  side'[s].pendingOpen = side[s].pendingOpen /\ side'[s].pendingClose = side[s].pendingClose
  <2> HIDE DEF moved, closed, h
  <2> QED BY <1>3, <1>5, <1>6 DEF TypeOK
<1> QED
  BY <1>1, <1>7

\* Order events take the pending orders they name away, and no other.
LEMMA OrderEventsShrink ==
  ASSUME TypeOK, NEW t \in Sides, OnOpenFilled(t) \/ OnCloseFilled(t) \/ OnOrderEnded(t)
  PROVE  /\ pc' = pc /\ ordq # <<>>
         /\ \A s \in Sides :
              /\ \/ side'[s].pendingOpen = side[s].pendingOpen
                 \/ side'[s].pendingOpen = NoCid /\ side[s].pendingOpen = Head(ordq).cid
              /\ side'[s].pendingClose \in {NoCid, side[s].pendingClose}
<1>1. pc' = pc /\ ordq # <<>>
  BY DEF OnOpenFilled, OnCloseFilled, OnOrderEnded, TakeOrdEvent
<1>2. Head(ordq).cid \in Cids
  <2>1. Head(ordq) \in OrdEvent
    BY <1>1 DEF TypeOK
  <2> QED BY <2>1 DEF OrdEvent
<1>3. CASE OnOpenFilled(t)
  BY <1>1, <1>3 DEF OnOpenFilled, SideState, TypeOK
<1>4. CASE OnCloseFilled(t)
  <2> DEFINE x == ClearOnClose(side[t], order[Head(ordq).cid].reason)
  <2>1. order[Head(ordq).cid].reason \in Reasons
    BY SMTT(40), <1>2 DEF TypeOK, Order
  <2>2. x \in SideState /\ x.pendingOpen = side[t].pendingOpen
    BY <2>1, SidesTyped, PendingKept DEF TypeOK
  <2>3. side' = [side EXCEPT ![t] = [x EXCEPT !.pendingClose = NoCid]]
    BY <1>4 DEF OnCloseFilled
  <2> HIDE DEF x
  <2> QED BY <1>1, <2>2, <2>3 DEF SideState, TypeOK
<1>5. CASE OnOrderEnded(t)
  BY <1>1, <1>5 DEF OnOrderEnded, SideState, TypeOK
<1> QED
  BY <1>3, <1>4, <1>5

\* Every step keeps the orders in flight apart: one case per action.
LEMMA StepFlight == FlightInv /\ [Next]_vars => FlightInv'
<1> SUFFICES ASSUME FlightInv, [Next]_vars PROVE FlightInv'
  OBVIOUS
<1>0. TypeInv /\ TypeOK /\ TypeInv' /\ side \in [Sides -> SideState]
  BY StepTyped DEF FlightInv, TypeInv, TypeOK
<1> SUFFICES OneInFlight' /\ Quiet'
  BY <1>0 DEF FlightInv
<1>1. CASE side' = side /\ (pc' \in Early => pc \in Early)
  BY <1>1, PendingShrinks DEF FlightInv, Quiet
<1>2. ASSUME NEW C \in SUBSET Sides, Boot(C) PROVE OneInFlight' /\ Quiet'
  <2>1. \A s \in Sides : side'[s].pendingOpen = NoCid /\ side'[s].pendingClose = NoCid
    BY <1>2 DEF Boot, Refreshed, Blank
  <2> QED
    BY <2>1 DEF OneInFlight, Quiet, IsPending, PendingOn
<1>3. CASE WaitOver
  BY <1>3, <1>1 DEF WaitOver, Early
<1>4. ASSUME NEW P \in SUBSET Sides, Begin(P) PROVE OneInFlight' /\ Quiet'
  <2> DEFINE timed == [s \in Sides |-> [side[s] EXCEPT !.openedAt = @ \/ Has(s)]]
  <2>1. timed \in [Sides -> SideState]
    <3>1. ASSUME NEW s \in Sides
          PROVE  [side[s] EXCEPT !.openedAt = @ \/ Has(s)] \in SideState
      <4>1. (side[s].openedAt \/ Has(s)) \in BOOLEAN
        OBVIOUS
      <4> QED BY <1>0, <4>1, SidesTyped
    <3> QED BY SMTT(40), <3>1
  <2>2. ~IsPending(side)
    BY <1>4 DEF FlightInv, Quiet, Early, Begin
  <2>3. ~IsPending(timed)
    BY <1>0, <2>2 DEF IsPending, PendingOn, SideState
  <2>4. side' = WithClose(timed, P) /\ (pc' = "main" \/ P = {})
    BY <1>4 DEF Begin
  <2> HIDE DEF timed
  <2> QED BY <2>1, <2>3, <2>4, ClosesAlone
<1>5. CASE StopWorker
  BY <1>5, <1>1 DEF StopWorker, Early
<1>6. CASE StartWorker
  BY <1>6 DEF StartWorker, OneInFlight, Quiet, IsPending, PendingOn, Blank
<1>7. CASE OnPositionUpdated \/ OnPositionOpened \/ OnPositionClosed
  BY <1>0, <1>7, PositionEventsKeep, PendingShrinks DEF FlightInv, Quiet
<1>8. CASE OnOrderUnmatched
  BY <1>8, <1>1 DEF OnOrderUnmatched, TakeOrdEvent
<1>9. ASSUME NEW t \in Sides, OnOpenFilled(t) \/ OnCloseFilled(t) \/ OnOrderEnded(t)
      PROVE  OneInFlight' /\ Quiet'
  BY <1>0, <1>9, OrderEventsShrink, PendingShrinks DEF FlightInv, Quiet
<1>10. ASSUME NEW T \in SUBSET Sides, NEW X \in SUBSET Sides, NEW P \in SUBSET Sides,
              PriceTick(T, X, P)
       PROVE  OneInFlight' /\ Quiet'
  <2> DEFINE cleared == [s \in Sides |->
               IF s \in T THEN [side[s] EXCEPT !.pendingOpen = NoCid, !.pendingClose = NoCid] ELSE side[s]]
             due == IF X # {} THEN {s \in X : Has(s)} ELSE P
  <2>1. pc' = "main" /\ pc = "main" /\ side' = WithClose(cleared, due) /\ due \in SUBSET Sides
    BY ZenonT(60), <1>10 DEF PriceTick
  <2>2. cleared \in [Sides -> SideState]
    BY <1>0, SidesTyped
  <2>3. CASE X \cup P = {}
    <3>1. due = {}
      BY <2>3
    <3>2. side' = cleared
      <4> HIDE DEF cleared, due
      <4> QED BY <2>1, <2>2, <3>1 DEF WithClose
    <3>3. \A s \in Sides : /\ side'[s].pendingOpen \in {NoCid, side[s].pendingOpen}
                           /\ side'[s].pendingClose \in {NoCid, side[s].pendingClose}
      BY ZenonT(60), <1>0, <3>2 DEF SideState
    <3> QED BY <2>1, <3>3, PendingShrinks DEF Early
  <2>4. CASE X \cup P # {}
    <3>1. ~IsPending(cleared)
      BY <1>10, <2>4 DEF PriceTick
    <3> HIDE DEF cleared, due
    <3> QED BY <2>1, <2>2, <3>1, ClosesAlone
  <2> QED
    BY <2>3, <2>4
<1>11. CASE LlmAsk
  <2>1. ~IsPending(side)
    BY <1>11 DEF LlmAsk, FlightInv, Quiet, Early
  <2>2. \A s \in Sides : side'[s].pendingOpen = side[s].pendingOpen /\ side'[s].pendingClose = side[s].pendingClose
    BY <1>0, <1>11 DEF LlmAsk, Refreshed, SideState
  <2> QED
    BY <2>1, <2>2, PendingShrinks
<1>12. CASE DecideHold
  BY <1>12, <1>1 DEF DecideHold, Early
<1>13. CASE DecideClose
  <2>1. ~IsPending(side) /\ pc' = "main" /\ side' = WithClose(side, {s \in Sides : Has(s)})
    BY <1>13 DEF DecideClose, FlightInv, Quiet, Early
  <2> QED
    BY <1>0, <2>1, ClosesAlone
<1>14. ASSUME NEW t \in Sides, DecideOpen(t) PROVE OneInFlight' /\ Quiet'
  <2>1. ~IsPending(side) /\ pc' = "main" /\ side' = [side EXCEPT ![t].pendingOpen = sent']
    BY <1>14 DEF DecideOpen, FlightInv, Quiet, Early
  <2> QED
    BY <1>0, <2>1 DEF OneInFlight, Quiet, IsPending, PendingOn, Early, SideState
<1>15. ASSUME NEW t \in Sides, CooldownOver(t) PROVE OneInFlight' /\ Quiet'
  <2>1. pc' = pc /\ side' = [side EXCEPT ![t] = [side[t] EXCEPT !.cooling = FALSE]]
    BY <1>15 DEF CooldownOver
  <2>2. \A s \in Sides : side'[s].pendingOpen = side[s].pendingOpen /\ side'[s].pendingClose = side[s].pendingClose
    BY <1>0, <2>1, PendingKept
  <2> QED
    BY <2>1, <2>2, PendingShrinks DEF FlightInv, Quiet
<1>16. CASE Engine \/ Lag \/ UNCHANGED vars
  BY <1>16, <1>1 DEF Engine, PeOpen, PeClose, PeTrade, PeApply, PeEnd, Lag, workerVars, vars
<1> QED
  BY <1>2, <1>3, <1>4, <1>5, <1>6, <1>7, <1>8, <1>9, <1>10, <1>11, <1>12, <1>13, <1>14, <1>15, <1>16
     DEF Next, Recovery, Events, Tick, Decision, Cooldown

\* Decisions, ticks and recovery never send an order while an opening order is pending
\* on either side: for any number of orders and restarts, even when events are lost
\* and orders outlive their timeout.
THEOREM OneOrderInFlight == Spec => []OneInFlight
<1>1. Init => FlightInv
  BY InitTyped DEF Init, FlightInv, OneInFlight, Quiet, IsPending, PendingOn, Blank
<1>2. FlightInv => OneInFlight
  BY DEF FlightInv
<1> QED
  BY <1>1, <1>2, StepFlight, PTL DEF Spec

-----------------------------------------------------------------------------
(* No second opening order of a side *)

\* The bookkeeping of orders: ids are used once, a queued order has one command, and
\* an order whose end has been told has ended, as it was told.
Ended == {"filled", "failed", "canceled"}
EndTold(e) == CASE e.type = "Filled" -> "filled" [] e.type = "Failed" -> "failed"
                [] e.type = "Canceled" -> "canceled"
Bookkeeping ==
  /\ \A c \in Cids : c > sent => order[c].st = "none"
  /\ \A i \in DOMAIN cmds : order[cmds[i]].st = "queued"
  /\ \A i, j \in DOMAIN cmds : cmds[i] = cmds[j] => i = j
  /\ \A i \in DOMAIN ordq : order[ordq[i].cid].st = EndTold(ordq[i])

\* The worker knows of every opening order that may still fill.
OpenKnown ==
  \A c \in Cids : order[c].kind = "open" /\ order[c].st \in {"queued", "live"} =>
    side[order[c].side].pendingOpen = c

DuplicateInv == FlightInv /\ Bookkeeping /\ OpenKnown /\ pc # "stopped" /\ restarts = 0

OpensKept == \A s \in Sides : side'[s].pendingOpen = side[s].pendingOpen

\* An order event tells of an end, of the order it names.
LEMMA EndsTyped ==
  ASSUME NEW e \in OrdEvent
  PROVE  EndTold(e) \in Ended /\ e.cid \in Cids /\ (EndTold(e) = "filled" <=> e.type = "Filled")
  BY DEF OrdEvent, EndTold, Ended

\* The event of an order that is not the one e is about.
LEMMA EventEnded ==
  ASSUME TypeInv, Bookkeeping, NEW i \in DOMAIN ordq
  PROVE  /\ ordq[i] \in OrdEvent /\ ordq[i].cid \in Cids
         /\ order[ordq[i].cid].st = EndTold(ordq[i]) /\ order[ordq[i].cid].st \in Ended
<1>1. ordq[i] \in OrdEvent
  BY DEF TypeInv, TypeOK
<1> QED
  BY <1>1, EndsTyped DEF Bookkeeping

\* A step that touches no order, no command and no order event.
LEMMA BooksUntouched ==
  ASSUME TypeInv, Bookkeeping, UNCHANGED <<sent, order, cmds, ordq>>
  PROVE  Bookkeeping' /\ (OpenKnown /\ OpensKept => OpenKnown')
<1>1. Bookkeeping'
  BY DEF Bookkeeping
<1>2. OpenKnown /\ OpensKept => OpenKnown'
  BY ZenonT(60) DEF OpenKnown, OpensKept, TypeInv, TypeOK, Order
<1> QED
  BY <1>1, <1>2

\* An order event is taken, and with it at most the pending order it names.
LEMMA EventTaken ==
  ASSUME TypeInv, Bookkeeping, UNCHANGED <<sent, order, cmds>>, ordq # <<>>, ordq' = Tail(ordq)
  PROVE  /\ Bookkeeping'
         /\ OpenKnown /\ (\A s \in Sides : side'[s].pendingOpen # side[s].pendingOpen =>
                                              side[s].pendingOpen = Head(ordq).cid) => OpenKnown'
<1>0. ordq \in Seq(OrdEvent) /\ order \in [Cids -> Order]
  BY DEF TypeInv, TypeOK
<1>1. order[Head(ordq).cid].st \in Ended
  <2>1. 1 \in DOMAIN ordq /\ Head(ordq) = ordq[1]
    BY <1>0
  <2> QED BY <2>1, EventEnded
<1>2. \A i \in DOMAIN Tail(ordq) : \E j \in DOMAIN ordq : Tail(ordq)[i] = ordq[j]
  BY <1>0
<1>3. Bookkeeping'
  BY <1>2 DEF Bookkeeping
<1>4. ASSUME OpenKnown, \A s \in Sides : side'[s].pendingOpen # side[s].pendingOpen =>
                                             side[s].pendingOpen = Head(ordq).cid
      PROVE  OpenKnown'
  BY <1>0, <1>1, <1>4 DEF OpenKnown, Ended, Order
<1> QED
  BY <1>3, <1>4

\* The tail of a queue is the queue moved on by one.
LEMMA TailShifts ==
  ASSUME NEW S, NEW q \in Seq(S), q # <<>>
  PROVE  \A i \in DOMAIN Tail(q) : i + 1 \in DOMAIN q /\ Tail(q)[i] = q[i + 1] /\ i \in Nat /\ i # 0
<1>1. Len(q) \in Nat /\ Len(q) # 0 /\ DOMAIN q = 1..Len(q)
  OBVIOUS
<1>2. Tail(q) \in Seq(S) /\ Len(Tail(q)) = Len(q) - 1 /\ DOMAIN Tail(q) = 1..(Len(q) - 1)
  OBVIOUS
<1>3. ASSUME NEW i \in 1..(Len(q) - 1) PROVE Tail(q)[i] = q[i + 1]
  OBVIOUS
<1>4. ASSUME NEW i \in 1..(Len(q) - 1) PROVE i + 1 \in 1..Len(q) /\ i \in Nat /\ i # 0
  BY <1>1
<1> QED
  BY <1>1, <1>2, <1>3, <1>4

\* The engine moves a queued or live order on, and tells of its end.
LEMMA OrderMoves ==
  ASSUME TypeInv, Bookkeeping, NEW c \in Cids, NEW o \in Order, order' = [order EXCEPT ![c] = o],
         o.kind = order[c].kind, o.side = order[c].side, o.st \in {"live"} \cup Ended,
         UNCHANGED <<sent, side>>,
         \/ order[c].st = "live" /\ cmds' = cmds
         \/ cmds # <<>> /\ c = Head(cmds) /\ cmds' = Tail(cmds),
         \/ ordq' = ordq
         \/ \E type \in {"Filled", "Failed", "Canceled"} :
              /\ ordq' = ordq \o OrderEvent(type, c)
              /\ o.st = EndTold([type |-> type, cid |-> c])
  PROVE  Bookkeeping' /\ (OpenKnown => OpenKnown')
<1>0. /\ ordq \in Seq(OrdEvent) /\ order \in [Cids -> Order] /\ cmds \in Seq(Cids) /\ sent \in 0..MaxOrders
      /\ Bookkeeping
  BY DEF TypeInv, TypeOK
<1>1. order[c].st \in {"queued", "live"}
  BY <1>0 DEF Bookkeeping
<1>2. \A d \in Cids : d # c => order'[d] = order[d]
  BY <1>0
<1>3. order'[c] = o
  BY <1>0
<1>4. \A d \in Cids : d > sent' => order'[d].st = "none"
  BY <1>0, <1>1, <1>2 DEF Bookkeeping
<1>5. /\ \A i \in DOMAIN cmds' : cmds'[i] \in Cids /\ cmds'[i] # c /\ order[cmds'[i]].st = "queued"
      /\ \A i, j \in DOMAIN cmds' : cmds'[i] = cmds'[j] => i = j
  <2>1. \A i \in DOMAIN cmds : cmds[i] \in Cids
    BY <1>0
  <2>2. CASE order[c].st = "live" /\ cmds' = cmds
    BY <1>0, <2>1, <2>2 DEF Bookkeeping
  <2>3. CASE cmds # <<>> /\ c = Head(cmds) /\ cmds' = Tail(cmds)
    <3>1. ASSUME NEW i \in DOMAIN cmds'
          PROVE  i + 1 \in DOMAIN cmds /\ cmds'[i] = cmds[i + 1] /\ i \in Nat /\ i # 0
      BY <1>0, <2>3, <3>1, TailShifts
    <3>2. 1 \in DOMAIN cmds /\ c = cmds[1]
      BY <1>0, <2>3
    <3>3. ASSUME NEW i \in DOMAIN cmds'
          PROVE  cmds'[i] \in Cids /\ cmds'[i] # c /\ order[cmds'[i]].st = "queued"
      <4>1. i + 1 # 1
        BY <3>1
      <4> QED BY <1>0, <2>1, <3>1, <3>2, <4>1 DEF Bookkeeping
    <3>4. ASSUME NEW i \in DOMAIN cmds', NEW j \in DOMAIN cmds', cmds'[i] = cmds'[j]
          PROVE  i = j
      <4>1. i + 1 = j + 1
        BY <1>0, <3>1, <3>4 DEF Bookkeeping
      <4> QED BY <3>1, <4>1
    <3> QED BY <3>3, <3>4
  <2> QED BY <2>2, <2>3
<1>6. ASSUME NEW i \in DOMAIN ordq
      PROVE  ordq[i].cid \in Cids /\ ordq[i].cid # c /\ order[ordq[i].cid].st = EndTold(ordq[i])
  BY <1>1, EventEnded DEF Ended
<1>7. \A i \in DOMAIN ordq' : order'[ordq'[i].cid].st = EndTold(ordq'[i])
  <2>1. CASE ordq' = ordq
    BY <1>2, <1>6, <2>1
  <2>2. ASSUME NEW type \in {"Filled", "Failed", "Canceled"}, ordq' = ordq \o OrderEvent(type, c),
               o.st = EndTold([type |-> type, cid |-> c])
        PROVE  \A i \in DOMAIN ordq' : order'[ordq'[i].cid].st = EndTold(ordq'[i])
    <3>1. ordq' = Append(ordq, [type |-> type, cid |-> c])
      BY <1>0, <2>2 DEF OrderEvent, OrdEvent
    <3>2. ASSUME NEW i \in DOMAIN ordq'
          PROVE  ordq'[i] = [type |-> type, cid |-> c] \/ (i \in DOMAIN ordq /\ ordq'[i] = ordq[i])
      BY <1>0, <3>1
    <3> QED BY <1>2, <1>3, <1>6, <2>2, <3>2
  <2> QED BY <2>1, <2>2
<1>8. Bookkeeping'
  BY <1>2, <1>4, <1>5, <1>7 DEF Bookkeeping
<1>9. OpenKnown => OpenKnown'
  BY <1>0, <1>1, <1>2, <1>3 DEF OpenKnown
<1> QED
  BY <1>8, <1>9

\* The ids of the closes are the next ones, in the order of the commands.
LEMMA CloseIds ==
  ASSUME NEW T \in SUBSET Sides, sent \in Nat
  PROVE  /\ \A s \in T : CloseId(s, T) \in (sent + 1)..(sent + Cardinality(T))
         /\ \A i \in 1..Cardinality(T) : \E s \in T : CloseId(s, T) = sent + i
<1>1. IsFiniteSet(T) /\ Cardinality(T) \in Nat /\ Cardinality(T) <= Cardinality(Sides)
  BY SidesAssumption, FS_Subset, FS_CardinalityType
<1>2. Cardinality(Sides) \in Nat /\ Cardinality(Sides) <= 2
  BY SidesAssumption, FS_CardinalityType
<1>3. T # {} => Cardinality(T) # 0
  BY <1>1, FS_EmptySet
<1>4. \A s \in T : CloseId(s, T) \in (sent + 1)..(sent + Cardinality(T))
  BY <1>1, <1>3 DEF CloseId
<1>5. ASSUME NEW i \in 1..Cardinality(T) PROVE \E s \in T : CloseId(s, T) = sent + i
  <2>1. CASE Cardinality(T) = 1
    <3>1. PICK t \in T : TRUE
      BY <2>1, FS_EmptySet
    <3> QED BY <2>1, <3>1 DEF CloseId
  <2>2. CASE Cardinality(T) = 2
    <3>1. T = Sides
      BY <1>1, <1>2, <2>2, SidesAssumption, FS_Subset
    <3>2. PICK t \in T : t # Long
      <4>1. CASE T = {Long}
        BY <2>2, <4>1, FS_Singleton
      <4> QED BY <3>1, <4>1, SidesAssumption
    <3> QED BY <2>2, <3>1, <3>2, SidesAssumption DEF CloseId
  <2> QED BY <1>1, <1>2, <2>1, <2>2
<1> QED
  BY <1>4, <1>5

\* Closes are sent under ids nothing has used before.
LEMMA ClosesKept ==
  ASSUME TypeInv, Bookkeeping, NEW T \in SUBSET Sides, NEW reason, SendClose(T, reason), ordq' = ordq
  PROVE  Bookkeeping' /\ (OpenKnown /\ OpensKept => OpenKnown')
<1> DEFINE n == Cardinality(T)
<1>0. /\ sent \in Nat /\ order \in [Cids -> Order] /\ cmds \in Seq(Cids) /\ ordq \in Seq(OrdEvent)
      /\ Bookkeeping /\ n \in Nat
  BY CardinalityTyped DEF TypeInv, TypeOK
<1>1. /\ sent' = sent + n /\ sent' <= MaxOrders
      /\ cmds' = cmds \o [i \in 1..n |-> sent + i]
  BY DEF SendClose
<1>2. ASSUME NEW c \in Cids, c <= sent PROVE order'[c] = order[c]
  <2>1. ~\E s \in T : c = CloseId(s, T)
    BY <1>0, <1>2, CloseIds DEF Cids
  <2> QED BY <2>1 DEF SendClose
<1>3. ASSUME NEW c \in Cids, c > sent
      PROVE  /\ c > sent' => order'[c].st = "none"
             /\ c <= sent' => order'[c].st = "queued"
             /\ order'[c].kind = "close" \/ order'[c].st = "none"
  <2>1. CASE c > sent'
    <3>1. ~\E s \in T : c = CloseId(s, T)
      BY <1>0, <1>1, <2>1, CloseIds DEF Cids
    <3>2. order'[c] = order[c]
      BY <3>1 DEF SendClose
    <3> QED BY <1>0, <1>1, <1>3, <2>1, <3>2 DEF Bookkeeping, Cids
  <2>2. CASE c <= sent'
    <3>1. \E s \in T : c = CloseId(s, T)
      <4>1. c - sent \in 1..n /\ sent + (c - sent) = c
        BY <1>0, <1>1, <1>3, <2>2 DEF Cids
      <4> QED BY <1>0, <4>1, CloseIds
    <3>2. order'[c].kind = "close" /\ order'[c].st = "queued"
      BY <3>1 DEF SendClose
    <3> QED BY <1>0, <1>1, <2>2, <3>2 DEF Cids
  <2> QED BY <1>0, <1>1, <2>1, <2>2 DEF Cids
<1>4. \A c \in Cids : order[c].st # "none" => c <= sent /\ order'[c] = order[c]
  BY <1>0, <1>2 DEF Bookkeeping, Cids
<1>5. ASSUME NEW i \in DOMAIN cmds'
      PROVE  \/ i \in DOMAIN cmds /\ cmds'[i] = cmds[i]
             \/ i \in (Len(cmds) + 1)..(Len(cmds) + n) /\ cmds'[i] = sent + (i - Len(cmds))
  BY SMTT(40), <1>0, <1>1
<1>6. ASSUME NEW i \in DOMAIN cmds
      PROVE  cmds[i] \in Cids /\ cmds[i] <= sent /\ order'[cmds[i]].st = "queued"
  BY <1>0, <1>4 DEF Bookkeeping
<1>7. \A i \in DOMAIN cmds' : order'[cmds'[i]].st = "queued"
  <2>1. ASSUME NEW i \in (Len(cmds) + 1)..(Len(cmds) + n)
        PROVE  order'[sent + (i - Len(cmds))].st = "queued"
    <3>1. /\ sent + (i - Len(cmds)) \in Cids
          /\ sent + (i - Len(cmds)) > sent /\ sent + (i - Len(cmds)) <= sent'
      BY <1>0, <1>1, BoundsAssumption DEF Cids
    <3> QED BY <1>3, <3>1
  <2>2. ASSUME NEW i \in DOMAIN cmds' PROVE order'[cmds'[i]].st = "queued"
    <3>1. CASE i \in DOMAIN cmds /\ cmds'[i] = cmds[i]
      BY <1>6, <3>1
    <3>2. CASE i \in (Len(cmds) + 1)..(Len(cmds) + n) /\ cmds'[i] = sent + (i - Len(cmds))
      BY <2>1, <3>2
    <3> QED BY <1>5, <3>1, <3>2
  <2> QED BY <2>2
<1>8. \A i, j \in DOMAIN cmds' : cmds'[i] = cmds'[j] => i = j
  <2>1. \A i, j \in DOMAIN cmds : cmds[i] = cmds[j] => i = j
    BY <1>0 DEF Bookkeeping
  <2>2. Len(cmds) \in Nat /\ \A i \in DOMAIN cmds : cmds[i] \in Int /\ cmds[i] <= sent
    BY <1>0, <1>6 DEF Cids
  <2>3. ASSUME NEW i \in DOMAIN cmds', NEW j \in DOMAIN cmds', cmds'[i] = cmds'[j] PROVE i = j
    <3>1. CASE i \in DOMAIN cmds /\ cmds'[i] = cmds[i]
      <4>1. cmds'[j] <= sent
        BY <2>2, <2>3, <3>1
      <4>2. j \in DOMAIN cmds /\ cmds'[j] = cmds[j]
        BY <1>0, <1>5, <2>2, <4>1
      <4> QED BY <2>1, <2>3, <3>1, <4>2
    <3>2. CASE i \in (Len(cmds) + 1)..(Len(cmds) + n) /\ cmds'[i] = sent + (i - Len(cmds))
      <4>1. cmds'[j] > sent
        BY <1>0, <2>2, <2>3, <3>2
      <4>2. j \in (Len(cmds) + 1)..(Len(cmds) + n) /\ cmds'[j] = sent + (j - Len(cmds))
        BY <1>0, <1>5, <2>2, <4>1
      <4>3. sent + (i - Len(cmds)) = sent + (j - Len(cmds))
        BY <2>3, <3>2, <4>2
      <4>4. i \in Int /\ j \in Int /\ Len(cmds) \in Int /\ sent \in Int
        BY <1>0, <3>2, <4>2
      <4> QED BY <4>3, <4>4
    <3> QED BY <1>5, <3>1, <3>2
  <2> QED BY <2>3
<1>9. ASSUME NEW i \in DOMAIN ordq PROVE order'[ordq[i].cid].st = EndTold(ordq[i])
  <2>1. ordq[i].cid \in Cids /\ order[ordq[i].cid].st = EndTold(ordq[i]) /\ order[ordq[i].cid].st # "none"
    BY EventEnded DEF Ended
  <2> QED BY <1>4, <2>1
<1>10. Bookkeeping'
  <2>1. \A c \in Cids : c > sent' => order'[c].st = "none"
    BY <1>0, <1>1, <1>3 DEF Cids
  <2> QED BY <1>7, <1>8, <1>9, <2>1 DEF Bookkeeping
<1>11. ASSUME OpenKnown, OpensKept
       PROVE  OpenKnown'
  <2>1. ASSUME NEW c \in Cids, order'[c].kind = "open", order'[c].st \in {"queued", "live"}
        PROVE  side'[order'[c].side].pendingOpen = c
    <3>1. c <= sent
      BY <1>0, <1>3, <2>1 DEF Cids
    <3>2. order'[c] = order[c] /\ order[c].side \in Sides
      BY <1>0, <1>2, <3>1 DEF Order
    <3> QED BY <1>11, <2>1, <3>2 DEF OpenKnown, OpensKept
  <2> QED BY <2>1 DEF OpenKnown
<1> QED
  BY <1>10, <1>11

\* A decision to open: nothing is pending, so no opening order can fill any more.
LEMMA OpenDecided ==
  ASSUME TypeInv, Bookkeeping, NEW s \in Sides, DecideOpen(s)
  PROVE  Bookkeeping' /\ (OpenKnown /\ ~IsPending(side) => OpenKnown')
<1>0. /\ sent \in Nat /\ order \in [Cids -> Order] /\ cmds \in Seq(Cids) /\ ordq \in Seq(OrdEvent)
      /\ side \in [Sides -> SideState] /\ Bookkeeping
  BY DEF TypeInv, TypeOK
<1>1. sent' = sent + 1 /\ sent' \in Cids /\ cmds' = Append(cmds, sent') /\ ordq' = ordq
  BY <1>0, BoundsAssumption DEF DecideOpen, Cids
<1>2. /\ order'[sent'].kind = "open" /\ order'[sent'].side = s /\ order'[sent'].st = "queued"
      /\ \A c \in Cids : c # sent' => order'[c] = order[c]
      /\ side'[s].pendingOpen = sent'
  BY <1>0, <1>1 DEF DecideOpen, SideState
<1>3. order[sent'].st = "none"
  BY <1>0, <1>1 DEF Bookkeeping, Cids
<1>4. \A c \in Cids : c > sent' => order'[c].st = "none"
  BY <1>0, <1>1, <1>2 DEF Bookkeeping, Cids
<1>5. ASSUME NEW i \in DOMAIN cmds'
      PROVE  (i \in DOMAIN cmds /\ cmds'[i] = cmds[i]) \/ (i = Len(cmds) + 1 /\ cmds'[i] = sent')
  BY <1>0, <1>1
<1>6. \A i \in DOMAIN cmds : cmds[i] \in Cids /\ cmds[i] # sent' /\ order[cmds[i]].st = "queued"
  BY <1>0, <1>3 DEF Bookkeeping
<1>7. \A i \in DOMAIN cmds' : order'[cmds'[i]].st = "queued"
  BY <1>2, <1>5, <1>6
<1>8. \A i, j \in DOMAIN cmds' : cmds'[i] = cmds'[j] => i = j
  BY <1>0, <1>5, <1>6 DEF Bookkeeping
<1>9. ASSUME NEW i \in DOMAIN ordq PROVE order'[ordq[i].cid].st = EndTold(ordq[i])
  <2>1. ordq[i].cid \in Cids /\ order[ordq[i].cid].st = EndTold(ordq[i]) /\ order[ordq[i].cid].st # "none"
    BY EventEnded DEF Ended
  <2> QED BY <1>2, <1>3, <2>1
<1>10. Bookkeeping'
  BY <1>1, <1>4, <1>7, <1>8, <1>9 DEF Bookkeeping
<1>11. ASSUME OpenKnown, ~IsPending(side),
              NEW c \in Cids, c # sent', order[c].kind = "open", order[c].st \in {"queued", "live"}
       PROVE  FALSE
  <2>1. side[order[c].side].pendingOpen = c /\ order[c].side \in Sides
    BY <1>0, <1>11 DEF OpenKnown, Order
  <2> QED BY <1>11, <2>1 DEF IsPending, PendingOn, Cids, NoCid
<1>12. OpenKnown /\ ~IsPending(side) => OpenKnown'
  BY <1>2, <1>11 DEF OpenKnown
<1> QED
  BY <1>10, <1>12

\* What the engine tells, while the worker listens or not.
LEMMA TellOrders ==
  ASSUME TypeOK, NEW p, NEW o, Tell(p, o)
  PROVE  ordq' \in {ordq, ordq \o o} /\ (o = <<>> => ordq' = ordq)
<1>1. ordq \o <<>> = ordq
  BY DEF TypeOK
<1> QED
  BY <1>1 DEF Tell

\* The commands the engine takes, the trades and the ends it tells.
LEMMA EngineKeepsBooks ==
  ASSUME TypeInv, Bookkeeping, Engine
  PROVE  Bookkeeping' /\ (OpenKnown => OpenKnown')
<1>0. /\ order \in [Cids -> Order] /\ cmds \in Seq(Cids) /\ ordq \in Seq(OrdEvent) /\ pe \in [Sides -> PePosition]
      /\ TypeOK
  BY DEF TypeInv, TypeOK
<1>1. CASE PeOpen
  <2> DEFINE c == Head(cmds)
             s == order[c].side
             live == [order[c] EXCEPT !.st = "live"]
             failed == [order[c] EXCEPT !.st = "failed"]
  <2>1. c \in Cids /\ cmds # <<>> /\ cmds' = Tail(cmds) /\ UNCHANGED <<sent, side>>
    BY <1>0, <1>1 DEF PeOpen, workerVars
  <2>2. order[c] \in Order /\ 0 \in Int
    BY <1>0, <2>1
  <2>3. /\ live \in Order /\ live.kind = order[c].kind /\ live.side = order[c].side /\ live.st = "live"
        /\ failed \in Order /\ failed.kind = order[c].kind /\ failed.side = order[c].side
        /\ failed.st = "failed"
    BY <2>2 DEF Order
  <2>4. \/ Accepted(c) /\ Tell(Event("Opened", s, "Opening") \o Event("Updated", s, "Opening"), <<>>)
        \/ Refused(c) /\ Tell(<<>>, OrderEvent("Failed", c))
        \/ Accepted(c) /\ UNCHANGED ordq
    BY <1>1 DEF PeOpen
  <2>5. \/ order' = [order EXCEPT ![c] = live] /\ ordq' = ordq
        \/ order' = [order EXCEPT ![c] = failed] /\ ordq' \in {ordq, ordq \o OrderEvent("Failed", c)}
    <3> HIDE DEF c, s
    <3> QED BY <1>0, <2>4, TellOrders DEF Accepted, Refused
  <2>6. failed.st = EndTold([type |-> "Failed", cid |-> c])
    BY <2>3 DEF EndTold
  <2> HIDE DEF c, s, live, failed
  <2> QED BY <2>1, <2>3, <2>5, <2>6, OrderMoves DEF Ended, c
<1>2. CASE PeClose
  <2> DEFINE c == Head(cmds)
             s == order[c].side
             q == pe[s].qty
             live == [order[c] EXCEPT !.st = "live", !.left = q]
             failed == [order[c] EXCEPT !.st = "failed"]
  <2>1. c \in Cids /\ cmds # <<>> /\ cmds' = Tail(cmds) /\ UNCHANGED <<sent, side>>
    BY <1>0, <1>2 DEF PeClose, workerVars
  <2>2. order[c] \in Order /\ q \in Int
    BY <1>0, <2>1 DEF Order, PePosition
  <2>3. /\ live \in Order /\ live.kind = order[c].kind /\ live.side = order[c].side /\ live.st = "live"
        /\ failed \in Order /\ failed.kind = order[c].kind /\ failed.side = order[c].side
        /\ failed.st = "failed"
    <3> HIDE DEF c, q
    <3> QED BY <2>2 DEF Order
  <2>4. \/ /\ order' = [order EXCEPT ![c].st = "live", ![c].left = q]
           /\ Tell(Event("Updated", s, "Closing"), <<>>)
        \/ Refused(c) /\ Tell(<<>>, OrderEvent("Failed", c))
    BY <1>2 DEF PeClose
  <2>5. [order EXCEPT ![c].st = "live", ![c].left = q] = [order EXCEPT ![c] = live]
    <3> HIDE DEF c, q
    <3> QED BY <1>0, <2>1 DEF Order
  <2>6. \/ order' = [order EXCEPT ![c] = live] /\ ordq' = ordq
        \/ order' = [order EXCEPT ![c] = failed] /\ ordq' \in {ordq, ordq \o OrderEvent("Failed", c)}
    <3>1. Refused(c) => order' = [order EXCEPT ![c] = failed]
      BY DEF Refused
    <3> HIDE DEF c, s, q, live, failed
    <3> QED BY <1>0, <2>4, <2>5, <3>1, TellOrders
  <2>7. failed.st = EndTold([type |-> "Failed", cid |-> c])
    BY <2>3 DEF EndTold
  <2> HIDE DEF c, s, q, live, failed
  <2> QED BY <2>1, <2>3, <2>6, <2>7, OrderMoves DEF Ended, c
<1>3. ASSUME NEW c \in Cids, NEW q \in 1..(Amount * MaxOrders), PeTrade(c, q)
      PROVE  Bookkeeping' /\ (OpenKnown => OpenKnown')
  <2> DEFINE all == q = order[c].left
             rest == order[c].left - q
             st == IF all THEN "filled" ELSE order[c].st
             o == [order[c] EXCEPT !.left = rest, !.st = st]
  <2>1. order[c].st = "live" /\ UNCHANGED <<sent, side, cmds>>
    BY <1>3 DEF PeTrade, workerVars
  <2>2. order[c] \in Order /\ rest \in Int /\ st \in {"live", "filled"} /\ (all <=> st = "filled")
    BY <1>0, <2>1 DEF Order
  <2>3. o \in Order /\ o.kind = order[c].kind /\ o.side = order[c].side /\ o.st = st
    <3> HIDE DEF all, rest, st
    <3> QED BY <2>2 DEF Order
  <2>4. order' = [order EXCEPT ![c] = o]
    BY <1>0, <1>3 DEF PeTrade, Order
  <2>5. ordq' = ordq \/ (all /\ ordq' = ordq \o OrderEvent("Filled", c))
    <3>1. Tell(<<>>, IF all THEN OrderEvent("Filled", c) ELSE <<>>)
      BY <1>3 DEF PeTrade
    <3> HIDE DEF all
    <3> QED BY <1>0, <3>1, TellOrders
  <2>6. all => o.st = EndTold([type |-> "Filled", cid |-> c])
    BY <2>2, <2>3 DEF EndTold
  <2> HIDE DEF all, rest, st, o
  <2> QED BY <2>1, <2>2, <2>3, <2>4, <2>5, <2>6, OrderMoves DEF Ended
<1>4. CASE PeApply
  <2> DEFINE s == order[applying.cid].side
  <2>1. \/ UNCHANGED ordq
        \/ Tell(Event("Updated", s, "Open"), <<>>)
        \/ Tell(Event("Closed", s, "Closed") \o Event("Updated", s, "Closed"), <<>>)
    BY <1>4 DEF PeApply
  <2>2. UNCHANGED ordq
    <3> HIDE DEF s
    <3> QED BY <1>0, <2>1, TellOrders
  <2>3. UNCHANGED <<sent, order, cmds, side>>
    BY <1>4 DEF PeApply, workerVars
  <2>4. OpensKept
    BY <2>3 DEF OpensKept
  <2> QED BY <2>2, <2>3, <2>4, BooksUntouched
<1>5. ASSUME NEW c \in Cids, NEW how \in {"failed", "canceled"}, PeEnd(c, how)
      PROVE  Bookkeeping' /\ (OpenKnown => OpenKnown')
  <2> DEFINE o == [order[c] EXCEPT !.st = how]
  <2>1. order[c].st = "live" /\ UNCHANGED <<sent, side, cmds>> /\ order' = [order EXCEPT ![c] = o]
    BY <1>5 DEF PeEnd, workerVars
  <2>2. o \in Order /\ o.kind = order[c].kind /\ o.side = order[c].side /\ o.st = how
    <3>1. order[c] \in Order
      BY <1>0
    <3> QED BY <3>1 DEF Order
  <2> DEFINE type == IF how = "failed" THEN "Failed" ELSE "Canceled"
  <2>3. \E p : Tell(p, OrderEvent(type, c))
    BY <1>5 DEF PeEnd
  <2>4. ordq' = ordq \/ ordq' = ordq \o OrderEvent(type, c)
    <3> HIDE DEF type
    <3> QED BY <1>0, <2>3, TellOrders
  <2>5. type \in {"Filled", "Failed", "Canceled"} /\ o.st = EndTold([type |-> type, cid |-> c])
    BY <2>2 DEF EndTold
  <2> HIDE DEF o, type
  <2> QED BY <2>1, <2>2, <2>4, <2>5, OrderMoves DEF Ended
<1> QED
  BY <1>1, <1>2, <1>3, <1>4, <1>5 DEF Engine

\* Every step of the system keeps the bookkeeping.
LEMMA StepBooks == TypeInv /\ Bookkeeping /\ [Next]_vars => Bookkeeping'
<1> SUFFICES ASSUME TypeInv, Bookkeeping, [Next]_vars PROVE Bookkeeping'
  OBVIOUS
<1>1. CASE UNCHANGED <<sent, order, cmds, ordq>>
  BY <1>1, BooksUntouched
<1>2. CASE UNCHANGED <<sent, order, cmds>> /\ ordq # <<>> /\ ordq' = Tail(ordq)
  BY <1>2, EventTaken
<1>3. ASSUME NEW T \in SUBSET Sides, NEW reason, SendClose(T, reason), ordq' = ordq
      PROVE  Bookkeeping'
  BY <1>3, ClosesKept
<1>4. CASE Recovery \/ StopWorker
  <2>1. CASE StartWorker
    BY <2>1 DEF StartWorker, Bookkeeping
  <2>2. ASSUME NEW C \in SUBSET Sides, Boot(C) PROVE Bookkeeping'
    BY <1>1, <2>2 DEF Boot
  <2>3. ASSUME NEW P \in SUBSET Sides, Begin(P) PROVE Bookkeeping'
    BY <1>3, <2>3 DEF Begin
  <2>4. CASE WaitOver \/ StopWorker
    BY <1>1, <2>4 DEF WaitOver, StopWorker
  <2> QED BY <1>4, <2>1, <2>2, <2>3, <2>4 DEF Recovery
<1>5. CASE Events
  BY <1>1, <1>2, <1>5 DEF Events, OnPositionUpdated, OnPositionOpened, OnPositionClosed, TakePosEvent,
     OnOrderUnmatched, OnOpenFilled, OnCloseFilled, OnOrderEnded, TakeOrdEvent
<1>6. CASE Tick
  BY <1>3, <1>6 DEF Tick, PriceTick
<1>7. CASE Decision
  <2>1. CASE DecideHold
    BY <1>1, <2>1 DEF DecideHold
  <2>2. CASE DecideClose
    BY <1>3, <2>2 DEF DecideClose
  <2>3. ASSUME NEW s \in Sides, DecideOpen(s) PROVE Bookkeeping'
    BY <2>3, OpenDecided
  <2> QED BY <1>7, <2>1, <2>2, <2>3 DEF Decision
<1>8. CASE LlmAsk \/ Cooldown \/ UNCHANGED vars
  BY <1>1, <1>8 DEF LlmAsk, Cooldown, CooldownOver, vars
<1>9. CASE Engine
  BY <1>9, EngineKeepsBooks
<1>10. CASE Lag
  BY <1>1, <1>2, <1>10 DEF Lag, workerVars
<1> QED
  BY <1>4, <1>5, <1>6, <1>7, <1>8, <1>9, <1>10 DEF Next

\* Every step of the worker, the engine and the queues preserves the invariant: a
\* worker that is never stopped forgets a pending opening order only when it hears of
\* its end.
LEMMA StepDuplicate ==
  ASSUME ~Timeouts, MaxRestarts = 0, DuplicateInv, [Next]_vars
  PROVE  DuplicateInv'
<1>0. /\ FlightInv /\ FlightInv' /\ TypeOK /\ TypeInv /\ Bookkeeping /\ OpenKnown
      /\ side \in [Sides -> SideState]
      /\ sent \in Nat /\ ordq \in Seq(OrdEvent) /\ pc # "stopped" /\ restarts = 0
  BY SMTT(20), StepFlight DEF DuplicateInv, FlightInv, TypeInv, TypeOK
<1> SUFFICES Bookkeeping' /\ OpenKnown' /\ pc' # "stopped" /\ restarts' = 0
  BY <1>0 DEF DuplicateInv
<1> DEFINE Goal == Bookkeeping' /\ OpenKnown' /\ pc' # "stopped" /\ restarts' = 0
           Kept == \A s \in Sides : side'[s].pendingOpen = side[s].pendingOpen
<1>00. Kept => OpensKept
  BY DEF OpensKept
<1>1. CASE UNCHANGED <<sent, order, cmds, ordq, restarts>> /\ pc' # "stopped" /\ Kept
  BY <1>0, <1>00, <1>1, BooksUntouched
<1>2. ASSUME NEW C \in SUBSET Sides, Boot(C) PROVE Goal
  <2>1. \A s \in Sides : side'[s].pendingOpen = NoCid
    BY <1>2 DEF Boot, Refreshed, Blank
  <2>2. \A s \in Sides : side[s].pendingOpen = NoCid
    BY <1>0, <1>2 DEF Boot, FlightInv, Quiet, Early, IsPending, PendingOn
  <2> QED BY <1>1, <1>2, <2>1, <2>2 DEF Boot
<1>3. CASE WaitOver \/ DecideHold
  BY <1>1, <1>3 DEF WaitOver, DecideHold
<1>4. ASSUME NEW P \in SUBSET Sides, Begin(P) PROVE Goal
  <2> DEFINE timed == [s \in Sides |-> [side[s] EXCEPT !.openedAt = @ \/ Has(s)]]
  <2>1. \A s \in Sides : timed[s].pendingOpen = side[s].pendingOpen /\ timed[s] \in SideState
    <3>1. ASSUME NEW s \in Sides
          PROVE  [side[s] EXCEPT !.openedAt = @ \/ Has(s)] \in SideState
      <4>1. (side[s].openedAt \/ Has(s)) \in BOOLEAN
        OBVIOUS
      <4> QED BY <1>0, <4>1, SidesTyped
    <3> QED BY <1>0, <3>1 DEF SideState
  <2>2. side' = WithClose(timed, P) /\ SendClose(P, "exit") /\ UNCHANGED <<ordq, restarts>> /\ pc' # "stopped"
    BY <1>4 DEF Begin
  <2>3. Kept
    <3> HIDE DEF timed
    <3> QED BY <2>1, <2>2 DEF WithClose, SideState
  <2> QED BY <1>0, <1>00, <2>2, <2>3, ClosesKept
<1>5. CASE StopWorker \/ StartWorker
  BY <1>0, <1>5 DEF StopWorker, StartWorker
<1>6. CASE OnPositionUpdated \/ OnPositionOpened \/ OnPositionClosed
  <2>1. pc' # "stopped" /\ Kept
    BY <1>0, <1>6, PositionEventsKeep
  <2> QED
    BY <1>1, <1>6, <2>1 DEF OnPositionUpdated, OnPositionOpened, OnPositionClosed, TakePosEvent
<1>7. CASE OnOrderUnmatched
  <2>1. UNCHANGED <<sent, order, cmds, restarts, pc, side>> /\ ordq # <<>> /\ ordq' = Tail(ordq)
    BY <1>7 DEF OnOrderUnmatched, TakeOrdEvent
  <2> QED BY <1>0, <2>1, EventTaken
<1>8. ASSUME NEW s \in Sides, OnOpenFilled(s) \/ OnCloseFilled(s) \/ OnOrderEnded(s) PROVE Goal
  <2>1. UNCHANGED <<sent, order, cmds, restarts, pc>> /\ ordq # <<>> /\ ordq' = Tail(ordq)
    BY <1>8 DEF OnOpenFilled, OnCloseFilled, OnOrderEnded, TakeOrdEvent
  <2>2. \A t \in Sides : side'[t].pendingOpen # side[t].pendingOpen =>
                           side[t].pendingOpen = Head(ordq).cid
    BY <1>0, <1>8, OrderEventsShrink
  <2> QED BY <1>0, <2>1, <2>2, EventTaken
<1>9. ASSUME NEW T \in SUBSET Sides, NEW X \in SUBSET Sides, NEW P \in SUBSET Sides,
             PriceTick(T, X, P)
      PROVE  Goal
  <2> DEFINE cleared == [s \in Sides |->
               IF s \in T THEN [side[s] EXCEPT !.pendingOpen = NoCid, !.pendingClose = NoCid] ELSE side[s]]
             due == IF X # {} THEN {s \in X : Has(s)} ELSE P
             reason == IF X # {} THEN "timeout" ELSE "exit"
  <2>1. T = {}
    BY <1>9 DEF PriceTick
  <2>2. cleared = side
    BY <1>0, <2>1
  <2>3. /\ side' = WithClose(cleared, due) /\ SendClose(due, reason) /\ due \in SUBSET Sides
        /\ UNCHANGED <<ordq, restarts, pc>>
    BY <1>9 DEF PriceTick
  <2>4. Kept
    <3> HIDE DEF cleared, due
    <3> QED BY <1>0, <2>2, <2>3 DEF WithClose, SideState
  <2> HIDE DEF cleared, due, reason
  <2> QED BY <1>0, <1>00, <2>3, <2>4, ClosesKept
<1>10. CASE LlmAsk
  <2>1. Kept
    BY <1>0, <1>10 DEF LlmAsk, Refreshed, SideState
  <2> QED BY <1>1, <1>10, <2>1 DEF LlmAsk
<1>11. CASE DecideClose
  <2> DEFINE held == {s \in Sides : Has(s)}
  <2>1. side' = WithClose(side, held) /\ SendClose(held, "llm") /\ UNCHANGED <<ordq, restarts>> /\ pc' = "main"
    BY <1>11 DEF DecideClose
  <2>2. held \in SUBSET Sides
    OBVIOUS
  <2> HIDE DEF held
  <2>3. Kept
    BY <1>0, <2>1 DEF WithClose, SideState
  <2> QED BY <1>0, <1>00, <2>1, <2>2, <2>3, ClosesKept
<1>12. ASSUME NEW s \in Sides, DecideOpen(s) PROVE Goal
  <2>1. pc' = "main" /\ restarts' = restarts /\ ~IsPending(side)
    BY <1>0, <1>12 DEF DecideOpen, FlightInv, Quiet, Early
  <2> QED BY <1>0, <1>12, <2>1, OpenDecided
<1>13. ASSUME NEW s \in Sides, CooldownOver(s) PROVE Goal
  <2>1. Kept
    BY <1>0, <1>13 DEF CooldownOver, SideState
  <2> QED BY <1>0, <1>1, <1>13, <2>1 DEF CooldownOver
<1>14. CASE Engine
  <2>1. UNCHANGED <<pc, restarts>>
    BY <1>14 DEF Engine, PeOpen, PeClose, PeTrade, PeApply, PeEnd, workerVars
  <2> QED BY SMTT(40), <1>0, <1>14, <2>1, EngineKeepsBooks
<1>15. CASE Lag
  <2>1. UNCHANGED <<pc, side, sent, restarts, order, cmds>>
    BY <1>15 DEF Lag, workerVars
  <2>2. CASE UNCHANGED ordq
    BY <1>1, <1>0, <2>1, <2>2
  <2>3. CASE ordq # <<>> /\ ordq' = Tail(ordq)
    BY <1>0, <2>1, <2>3, EventTaken
  <2> QED BY <1>15, <2>2, <2>3 DEF Lag
<1>16. CASE UNCHANGED vars
  BY <1>0, <1>1, <1>16 DEF vars
<1> QED
  BY <1>2, <1>3, <1>4, <1>5, <1>6, <1>7, <1>8, <1>9, <1>10, <1>11, <1>12, <1>13, <1>14, <1>15, <1>16
     DEF Next, Recovery, Events, Tick, Decision, Cooldown

\* The invariant does not let two opening orders of any sides be under way.
LEMMA OneOpenUnderWay == DuplicateInv => NoDuplicateOpen
<1> SUFFICES ASSUME DuplicateInv, NEW c \in Cids, NEW d \in Cids,
                    order[c].kind = "open", order[c].st \in {"queued", "live"},
                    order[d].kind = "open", order[d].st \in {"queued", "live"}
             PROVE  c = d
  BY DEF NoDuplicateOpen
<1> DEFINE s == order[c].side
           t == order[d].side
<1>1. s \in Sides /\ t \in Sides
  BY DEF DuplicateInv, FlightInv, TypeInv, TypeOK, Order
<1>2. side[s].pendingOpen = c /\ side[t].pendingOpen = d
  BY DEF DuplicateInv, OpenKnown
<1>3. c # NoCid /\ d # NoCid
  BY DEF Cids, NoCid
<1>4. s = t
  <2> HIDE DEF s, t
  <2> QED BY <1>1, <1>2, <1>3 DEF DuplicateInv, FlightInv, OneInFlight
<1> QED
  BY <1>2, <1>4

\* Without timeouts and restarts the engine never has two opening orders to fill, for
\* any number of orders, whatever the exchange does with them and although the worker
\* may lose events: losing one only keeps it from opening again.
THEOREM NoSecondOpen ==
  ASSUME ~Timeouts, MaxRestarts = 0
  PROVE  Spec => []NoDuplicateOpen
<1>1. Init => DuplicateInv
  <2> SUFFICES ASSUME Init PROVE DuplicateInv
    OBVIOUS
  <2>1. FlightInv
    BY InitTyped DEF Init, FlightInv, OneInFlight, Quiet, IsPending, PendingOn, Blank
  <2> QED
    BY <2>1 DEF Init, DuplicateInv, Bookkeeping, OpenKnown, NoOrder
<1>2. DuplicateInv /\ [Next]_vars => DuplicateInv'
  BY StepDuplicate
<1> QED
  BY <1>1, <1>2, OneOpenUnderWay, PTL DEF Spec
=============================================================================
