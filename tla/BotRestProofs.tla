----------------------------- MODULE BotRestProofs -----------------------------
(***************************************************************************)
(* The worker and the position engine at rest: the worker's cache of       *)
(* positions agrees with the engine that holds them, a held position has   *)
(* its watch, every watch can reach its close, and the books balance.      *)
(* Each holds for any number of orders, when no event is lost and an order *)
(* fills in one trade; the last three also need that nothing times out and *)
(* the process does not restart.  The last section needs none of this: a   *)
(* bot that trades one side closes no trade record twice.                  *)
(***************************************************************************)
EXTENDS BotWorkerProofs

-----------------------------------------------------------------------------
(* What stays of an order, and what is pending *)

UnderWay == {"queued", "live"}
On(s) == applying # NoTrade /\ order[applying.cid].side = s

\* Ids that have not been used name no order yet, and what is pending or applied is one.
Fresh == \A c \in Cids : c > sent => order[c].alone
ClosesNamed ==
  \A s \in Sides : side[s].pendingClose # NoCid =>
    /\ side[s].pendingClose <= sent
    /\ order[side[s].pendingClose].kind = "close" /\ order[side[s].pendingClose].side = s
LiveKinds == \A c \in Cids : order[c].st = "live" => order[c].kind # "none"
Named == Fresh /\ ClosesNamed /\ LiveKinds /\ (applying # NoTrade => applying.cid <= sent)

OrderStays(c) == order'[c].kind = order[c].kind /\ order'[c].side = order[c].side
                 /\ order'[c].alone = order[c].alone

\* Two sides send two closes.
LEMMA CloseIdsDiffer ==
  ASSUME NEW T \in SUBSET Sides, NEW s \in T, NEW t \in T, CloseId(s, T) = CloseId(t, T), sent \in Nat
  PROVE  s = t
<1>1. IsFiniteSet(T) /\ Cardinality(T) \in Nat /\ IsFiniteSet(Sides) /\ Cardinality(Sides) \in Nat
  BY SidesAssumption, FS_Subset, FS_CardinalityType
<1>2. SUFFICES ASSUME s # t PROVE FALSE
  OBVIOUS
<1>3. Cardinality({s, t}) = 2 /\ IsFiniteSet({s, t})
  <2>1. IsFiniteSet({s}) /\ Cardinality({s}) = 1 /\ t \notin {s}
    BY <1>2, FS_Singleton
  <2>2. {s, t} = {s} \cup {t}
    OBVIOUS
  <2>3. IsFiniteSet({s} \cup {t}) /\ Cardinality({s} \cup {t}) = Cardinality({s}) + 1
    BY <2>1, FS_AddElement
  <2> QED BY <2>1, <2>2, <2>3
<1>4. {s, t} \subseteq T /\ {s, t} \subseteq Sides
  OBVIOUS
<1>5. Cardinality(T) >= 2 /\ Cardinality(Sides) >= 2
  BY <1>1, <1>3, <1>4, FS_Subset
<1>6. {s, t} = Sides
  BY <1>1, <1>3, <1>4, <1>5, SidesAssumption, FS_Subset
<1>7. s = Long \/ t = Long
  BY <1>6, SidesAssumption
<1> QED
  BY <1>1, <1>2, <1>5, <1>7 DEF CloseId

\* What SendClose does to the orders: new closes, one for each side.
LEMMA ClosesSent ==
  ASSUME TypeInv, NEW T \in SUBSET Sides, NEW reason, SendClose(T, reason)
  PROVE  /\ sent' >= sent /\ sent' \in Nat
         /\ \A c \in Cids : c <= sent => order'[c] = order[c]
         /\ \A c \in Cids : c > sent => \/ order'[c] = order[c]
                                        \/ /\ order'[c].kind = "close" /\ order'[c].st = "queued"
                                           /\ order'[c].alone
         /\ \A s \in T : LET d == CloseId(s, T) IN
              /\ d \in Cids /\ d > sent /\ d <= sent'
              /\ order'[d].kind = "close" /\ order'[d].st = "queued" /\ order'[d].side = s
<1>0. sent \in Nat /\ sent \in 0..MaxOrders /\ Cardinality(T) \in Nat
  BY CardinalityTyped DEF TypeInv, TypeOK
<1>1. sent' = sent + Cardinality(T) /\ sent + Cardinality(T) <= MaxOrders
  BY DEF SendClose
<1>2. \A s \in T : CloseId(s, T) \in (sent + 1)..(sent + Cardinality(T))
  BY <1>0, CloseIds
<1>3. ASSUME NEW c \in Cids, ~\E s \in T : c = CloseId(s, T) PROVE order'[c] = order[c]
  BY <1>3 DEF SendClose
<1>4. ASSUME NEW s \in T
      PROVE  LET d == CloseId(s, T) IN
              /\ d \in Cids /\ d > sent /\ d <= sent'
              /\ order'[d].kind = "close" /\ order'[d].st = "queued" /\ order'[d].side = s
              /\ order'[d].alone
  <2> DEFINE d == CloseId(s, T)
             u == CHOOSE t \in T : d = CloseId(t, T)
  <2>1. d \in Cids
    BY <1>0, <1>1, CloseIdTyped
  <2>2. order'[d] = [kind |-> "close", side |-> u, reason |-> reason, st |-> "queued", left |-> 0, alone |-> TRUE]
    BY <2>1 DEF SendClose
  <2>3. u \in T /\ d = CloseId(u, T)
    OBVIOUS
  <2>4. u = s
    <3> HIDE DEF u
    <3> QED BY <1>0, <2>3, CloseIdsDiffer
  <2>5. d > sent /\ d <= sent'
    BY <1>0, <1>1, <1>2
  <2> HIDE DEF u, d
  <2> QED BY <2>1, <2>2, <2>4, <2>5 DEF d
<1>5. \A c \in Cids : c <= sent => order'[c] = order[c]
  BY <1>0, <1>2, <1>3 DEF Cids
<1>6. \A c \in Cids : c > sent => \/ order'[c] = order[c]
                                  \/ order'[c].kind = "close" /\ order'[c].st = "queued" /\ order'[c].alone
  BY <1>3, <1>4
<1>7. sent' >= sent /\ sent' \in Nat
  BY <1>0, <1>1
<1> HIDE DEF CloseId
<1> QED
  BY <1>4, <1>5, <1>6, <1>7

\* What the worker does but for opening: orders, positions and trades stay as they are, new
\* closes may be sent, and a close that is pending is one of these or was pending before.
WorkerMove ==
  /\ UNCHANGED <<pe, applying>>
  /\ sent' >= sent /\ sent' \in Nat
  /\ \A c \in Cids : c <= sent => order'[c] = order[c]
  /\ \A c \in Cids : c > sent => \/ order'[c] = order[c]
                                 \/ /\ order'[c].kind = "close" /\ order'[c].st = "queued"
                                    /\ order'[c].alone
  /\ \A s \in Sides : LET d == side'[s].pendingClose IN
       \/ d \in {NoCid, side[s].pendingClose}
       \/ /\ d \in Cids /\ d > sent /\ d <= sent'
          /\ order'[d].kind = "close" /\ order'[d].st = "queued" /\ order'[d].side = s

\* A handler that sends nothing.
LEMMA NothingSent ==
  ASSUME TypeInv, UNCHANGED <<pe, applying, sent, order>>,
         \A s \in Sides : side'[s].pendingClose \in {NoCid, side[s].pendingClose}
  PROVE  WorkerMove
<1>1. sent \in Nat
  BY DEF TypeInv, TypeOK
<1> QED
  BY <1>1 DEF WorkerMove

\* A handler that sends closes.
LEMMA OnlyCloses ==
  ASSUME TypeInv, NEW T \in SUBSET Sides, NEW reason, SendClose(T, reason), UNCHANGED <<pe, applying>>,
         NEW sd \in [Sides -> SideState], side' = WithClose(sd, T),
         \A s \in Sides : sd[s].pendingClose \in {NoCid, side[s].pendingClose}
  PROVE  WorkerMove
<1>1. ASSUME NEW s \in Sides
      PROVE  side'[s].pendingClose = IF s \in T THEN CloseId(s, T) ELSE sd[s].pendingClose
  <2> HIDE DEF CloseId
  <2> QED BY DEF WithClose, SideState
<1>2. ASSUME NEW s \in T
      PROVE  LET d == CloseId(s, T) IN
              /\ d \in Cids /\ d > sent /\ d <= sent'
              /\ order'[d].kind = "close" /\ order'[d].st = "queued" /\ order'[d].side = s
  <2> HIDE DEF CloseId
  <2> QED BY ClosesSent
<1>3. /\ sent' >= sent /\ sent' \in Nat
      /\ \A c \in Cids : c <= sent => order'[c] = order[c]
      /\ \A c \in Cids : c > sent => \/ order'[c] = order[c]
                                     \/ order'[c].kind = "close" /\ order'[c].st = "queued" /\ order'[c].alone
  BY ClosesSent
<1> HIDE DEF CloseId
<1> QED
  BY <1>1, <1>2, <1>3 DEF WorkerMove

\* Every step is one of the worker's, a decision to open or one of the engine's.
LEMMA StepKinds ==
  ASSUME TypeInv, [Next]_vars
  PROVE  WorkerMove \/ (\E s \in Sides : DecideOpen(s)) \/ Engine
<1>0. TypeOK /\ side \in [Sides -> SideState]
  BY DEF TypeInv, TypeOK
<1>1. ASSUME UNCHANGED <<pe, applying, sent, order, side>> PROVE WorkerMove
  BY <1>1, NothingSent
<1>2. ASSUME NEW C \in SUBSET Sides, Boot(C) PROVE WorkerMove
  <2>1. \A s \in Sides : side'[s].pendingClose = NoCid
    BY <1>2 DEF Boot, Refreshed, Blank
  <2> QED BY <1>2, <2>1, NothingSent DEF Boot, engineVars
<1>3. ASSUME NEW P \in SUBSET Sides, Begin(P) PROVE WorkerMove
  <2> DEFINE timed == [s \in Sides |-> [side[s] EXCEPT !.openedAt = @ \/ Has(s)]]
  <2>1. timed \in [Sides -> SideState] /\ \A s \in Sides : timed[s].pendingClose = side[s].pendingClose
    <3>1. ASSUME NEW s \in Sides
          PROVE  [side[s] EXCEPT !.openedAt = @ \/ Has(s)] \in SideState
      <4>1. (side[s].openedAt \/ Has(s)) \in BOOLEAN
        OBVIOUS
      <4> QED BY <1>0, <4>1, SidesTyped
    <3> QED BY <1>0, <3>1 DEF SideState
  <2>2. SendClose(P, "exit") /\ side' = WithClose(timed, P) /\ UNCHANGED <<pe, applying>>
    BY <1>3 DEF Begin, engineVars
  <2> HIDE DEF timed
  <2> QED BY <2>1, <2>2, OnlyCloses
<1>4. CASE WaitOver \/ StopWorker
  BY <1>1, <1>4 DEF WaitOver, StopWorker, engineVars
<1>5. CASE StartWorker
  <2>1. \A s \in Sides : side'[s].pendingClose = NoCid
    BY <1>5 DEF StartWorker, Blank
  <2> QED BY <1>5, <2>1, NothingSent DEF StartWorker, engineVars
<1>6. CASE OnPositionUpdated \/ OnPositionOpened \/ OnPositionClosed
  <2>1. UNCHANGED <<pe, applying, sent, order>>
    BY <1>6 DEF OnPositionUpdated, OnPositionOpened, OnPositionClosed, TakePosEvent, engineVars
  <2> QED BY <1>0, <1>6, <2>1, PositionEventsKeep, NothingSent
<1>7. CASE OnOrderUnmatched
  BY <1>1, <1>7 DEF OnOrderUnmatched, TakeOrdEvent, engineVars
<1>8. ASSUME NEW t \in Sides, OnOpenFilled(t) \/ OnCloseFilled(t) \/ OnOrderEnded(t) PROVE WorkerMove
  <2>1. UNCHANGED <<pe, applying, sent, order>>
    BY <1>8 DEF OnOpenFilled, OnCloseFilled, OnOrderEnded, TakeOrdEvent, engineVars
  <2> QED BY <1>0, <1>8, <2>1, OrderEventsShrink, NothingSent
<1>9. ASSUME NEW T \in SUBSET Sides, NEW X \in SUBSET Sides, NEW P \in SUBSET Sides, PriceTick(T, X, P)
      PROVE  WorkerMove
  <2> DEFINE cleared == [s \in Sides |->
               IF s \in T THEN [side[s] EXCEPT !.pendingOpen = NoCid, !.pendingClose = NoCid] ELSE side[s]]
             due == IF X # {} THEN {s \in X : Has(s)} ELSE P
             reason == IF X # {} THEN "timeout" ELSE "exit"
  <2>1. cleared \in [Sides -> SideState] /\ \A s \in Sides : cleared[s].pendingClose \in {NoCid, side[s].pendingClose}
    <3>1. \A s \in Sides : [side[s] EXCEPT !.pendingOpen = NoCid, !.pendingClose = NoCid] \in SideState
      BY <1>0, SidesTyped
    <3>2. cleared \in [Sides -> SideState]
      BY <1>0, <3>1
    <3>3. \A s \in Sides : cleared[s].pendingClose \in {NoCid, side[s].pendingClose}
      BY ZenonT(60), <1>0 DEF SideState
    <3> QED BY <3>2, <3>3
  <2>2. SendClose(due, reason) /\ side' = WithClose(cleared, due) /\ UNCHANGED <<pe, applying>>
        /\ due \in SUBSET Sides
    BY <1>9 DEF PriceTick, engineVars
  <2> HIDE DEF cleared, due, reason
  <2> QED BY <2>1, <2>2, OnlyCloses
<1>10. CASE LlmAsk
  <2>1. \A s \in Sides : side'[s].pendingClose = side[s].pendingClose
    BY <1>0, <1>10 DEF LlmAsk, Refreshed, SideState
  <2> QED BY <1>10, <2>1, NothingSent DEF LlmAsk, engineVars
<1>11. CASE DecideHold
  BY <1>1, <1>11 DEF DecideHold, engineVars
<1>12. CASE DecideClose
  <2> DEFINE held == {s \in Sides : Has(s)}
  <2>1. side' = WithClose(side, held) /\ SendClose(held, "llm") /\ UNCHANGED <<pe, applying>>
    BY <1>12 DEF DecideClose, engineVars
  <2>2. held \in SUBSET Sides
    OBVIOUS
  <2> HIDE DEF held
  <2> QED BY <1>0, <2>1, <2>2, OnlyCloses
<1>13. ASSUME NEW s \in Sides, CooldownOver(s) PROVE WorkerMove
  <2>1. \A t \in Sides : side'[t].pendingClose = side[t].pendingClose
    BY <1>0, <1>13 DEF CooldownOver, SideState
  <2> QED BY <1>13, <2>1, NothingSent DEF CooldownOver, engineVars
<1>14. CASE Lag
  BY <1>1, <1>14 DEF Lag, workerVars, engineVars
<1>15. CASE UNCHANGED vars
  BY <1>1, <1>15 DEF vars
<1> QED
  BY <1>2, <1>3, <1>4, <1>5, <1>6, <1>7, <1>8, <1>9, <1>10, <1>11, <1>12, <1>13, <1>14, <1>15
     DEF Next, Recovery, Events, Tick, Decision, Cooldown

\* The engine keeps what an order is, and touches nothing of the worker.
LEMMA EngineMoves ==
  ASSUME TypeInv, Engine
  PROVE  /\ UNCHANGED <<sent, side, known, pc>>
         /\ \A c \in Cids : OrderStays(c)
         /\ applying' \in {applying, NoTrade} \/ order[applying'.cid].st = "live"
<1>0. order \in [Cids -> Order]
  BY DEF TypeInv, TypeOK
<1>1. UNCHANGED <<sent, side, known, pc>>
  BY DEF Engine, PeOpen, PeClose, PeTrade, PeApply, PeEnd, workerVars
<1>2. ASSUME NEW c \in Cids, NEW st, NEW left,
             \/ order' = [order EXCEPT ![c].st = st]
             \/ order' = [order EXCEPT ![c].st = st, ![c].left = left]
             \/ order' = [order EXCEPT ![c].left = left, ![c].st = st]
             \/ order' = order
      PROVE  \A d \in Cids : OrderStays(d)
  BY <1>0, <1>2 DEF OrderStays, Order
<1>3. CASE PeOpen
  <2>1. Head(cmds) \in Cids
    BY <1>3 DEF PeOpen, TypeInv, TypeOK
  <2>2. applying' = applying
    BY <1>3 DEF PeOpen
  <2> QED BY <1>1, <1>2, <1>3, <2>1, <2>2 DEF PeOpen, Accepted, Refused
<1>4. CASE PeClose
  <2> DEFINE c == Head(cmds)
             q == pe[order[c].side].qty
  <2>1. c \in Cids
    BY <1>4 DEF PeClose, TypeInv, TypeOK
  <2>2. applying' = applying
    BY <1>4 DEF PeClose
  <2>3. \/ order' = [order EXCEPT ![c].st = "live", ![c].left = q]
        \/ order' = [order EXCEPT ![c].st = "failed"]
    BY <1>4 DEF PeClose, Refused
  <2> HIDE DEF c, q
  <2>4. \A d \in Cids : OrderStays(d)
    <3>1. CASE order' = [order EXCEPT ![c].st = "live", ![c].left = q]
      BY <1>0, <2>1, <3>1 DEF OrderStays, Order
    <3>2. CASE order' = [order EXCEPT ![c].st = "failed"]
      BY <1>0, <2>1, <3>2 DEF OrderStays, Order
    <3> QED BY <2>3, <3>1, <3>2
  <2> QED BY <1>1, <2>2, <2>4
<1>5. ASSUME NEW c \in Cids, NEW q \in 1..(Amount * MaxOrders), PeTrade(c, q)
      PROVE  /\ \A d \in Cids : OrderStays(d)
             /\ order[applying'.cid].st = "live"
  <2> DEFINE left == order[c].left - q
             st == IF q = order[c].left THEN "filled" ELSE order[c].st
  <2>1. order' = [order EXCEPT ![c].left = left, ![c].st = st]
    BY <1>0, <1>5 DEF PeTrade, Order
  <2>2. order[applying'.cid].st = "live"
    BY <1>5 DEF PeTrade
  <2> HIDE DEF left, st
  <2> QED BY <1>2, <2>1, <2>2
<1>6. CASE PeApply
  BY <1>1, <1>2, <1>6 DEF PeApply, OrderStays
<1>7. ASSUME NEW c \in Cids, NEW how \in {"failed", "canceled"}, PeEnd(c, how)
      PROVE  (\A d \in Cids : OrderStays(d)) /\ applying' = applying
  <2>1. order' = [order EXCEPT ![c].st = how] /\ applying' = applying
    BY <1>7 DEF PeEnd
  <2> QED BY <1>2, <2>1
<1> QED
  BY <1>1, <1>3, <1>4, <1>5, <1>6, <1>7 DEF Engine

\* What goes to the exchange is an opening or a closing order.
LEMMA BecomesLive ==
  ASSUME TypeInv, Engine, NEW d \in Cids, order'[d].st = "live"
  PROVE  order[d].st = "live" \/ order[d].kind # "none"
<1>0. order \in [Cids -> Order]
  BY DEF TypeInv, TypeOK
<1>1. CASE PeOpen
  <2>1. Head(cmds) \in Cids /\ order[Head(cmds)].kind = "open"
    BY <1>1 DEF PeOpen, TypeInv, TypeOK
  <2>2. d # Head(cmds) => order'[d] = order[d]
    BY <1>0, <1>1 DEF PeOpen, Accepted, Refused
  <2> QED BY <2>1, <2>2
<1>2. CASE PeClose
  <2>1. Head(cmds) \in Cids /\ order[Head(cmds)].kind = "close"
    BY <1>2 DEF PeClose, TypeInv, TypeOK
  <2>2. d # Head(cmds) => order'[d] = order[d]
    BY <1>0, <1>2 DEF PeClose, Accepted, Refused
  <2> QED BY <2>1, <2>2
<1>3. ASSUME NEW c \in Cids, NEW q, PeTrade(c, q) PROVE order[d].st = "live"
  <2>1. d # c => order'[d] = order[d]
    BY <1>0, <1>3 DEF PeTrade
  <2> QED BY <1>3, <2>1 DEF PeTrade
<1>4. CASE PeApply
  BY <1>4 DEF PeApply
<1>5. ASSUME NEW c \in Cids, NEW how, PeEnd(c, how) PROVE order[d].st = "live"
  <2>1. d # c => order'[d] = order[d]
    BY <1>0, <1>5 DEF PeEnd
  <2> QED BY <1>5, <2>1 DEF PeEnd
<1> QED
  BY <1>1, <1>2, <1>3, <1>4, <1>5 DEF Engine

\* Every step keeps what has been sent, and its ids.
LEMMA StepNamed ==
  ASSUME TypeInv, Bookkeeping, Named, [Next]_vars
  PROVE  Named' /\ (OnePerPosition' => OnePerPosition)
<1>0. /\ sent \in Nat /\ order \in [Cids -> Order] /\ side \in [Sides -> SideState]
      /\ applying # NoTrade => applying.cid \in Cids
      /\ \A s \in Sides : side[s].pendingClose \in Cids \cup {NoCid}
  BY DEF TypeInv, TypeOK, SideState
<1>1. ASSUME \A c \in Cids : c <= sent => OrderStays(c)
      PROVE  OnePerPosition' => OnePerPosition
  <2>1. ASSUME NEW c \in Cids, OnePerPosition' PROVE order[c].alone
    <3>1. CASE c <= sent
      BY <1>1, <2>1, <3>1 DEF OrderStays, OnePerPosition
    <3>2. CASE c > sent
      BY <3>2 DEF Named, Fresh
    <3> QED BY <1>0, <3>1, <3>2 DEF Cids
  <2> QED BY <2>1 DEF OnePerPosition
<1>2. CASE WorkerMove
  <2>1. \A c \in Cids : c <= sent => OrderStays(c)
    BY <1>2 DEF WorkerMove, OrderStays
  <2>2. \A c \in Cids : c > sent' => order'[c].alone
    BY <1>0, <1>2 DEF WorkerMove, Named, Fresh, Cids
  <2>3. applying' # NoTrade => applying'.cid <= sent'
    BY <1>0, <1>2 DEF WorkerMove, Named, Cids
  <2>4. ASSUME NEW s \in Sides, side'[s].pendingClose # NoCid
        PROVE  /\ side'[s].pendingClose <= sent'
               /\ order'[side'[s].pendingClose].kind = "close" /\ order'[side'[s].pendingClose].side = s
    <3>1. CASE side'[s].pendingClose = side[s].pendingClose
      <4>1. side[s].pendingClose \in Cids /\ side[s].pendingClose <= sent
            /\ order[side[s].pendingClose].kind = "close" /\ order[side[s].pendingClose].side = s
        BY <1>0, <2>4, <3>1 DEF Named, ClosesNamed
      <4> QED BY <1>0, <1>2, <2>1, <3>1, <4>1 DEF WorkerMove, OrderStays, Cids
    <3>2. CASE side'[s].pendingClose # side[s].pendingClose
      BY <1>2, <2>4, <3>2 DEF WorkerMove
    <3> QED BY <3>1, <3>2
  <2>5. LiveKinds'
    BY <1>0, <1>2 DEF WorkerMove, Named, LiveKinds, Cids
  <2> QED BY <1>1, <2>1, <2>2, <2>3, <2>4, <2>5 DEF Named, Fresh, ClosesNamed
<1>3. ASSUME NEW u \in Sides, DecideOpen(u) PROVE Named' /\ (OnePerPosition' => OnePerPosition)
  <2>1. sent' = sent + 1 /\ \A c \in Cids : c # sent' => order'[c] = order[c]
    BY <1>0, <1>3 DEF DecideOpen
  <2>2. \A c \in Cids : c <= sent => order'[c] = order[c]
    BY <1>0, <2>1 DEF Cids
  <2>3. \A s \in Sides : side'[s].pendingClose = side[s].pendingClose
    BY <1>0, <1>3 DEF DecideOpen, SideState
  <2>4. \A c \in Cids : c > sent' => order'[c].alone
    BY <1>0, <2>1 DEF Named, Fresh, Cids
  <2>5. applying' # NoTrade => applying'.cid <= sent'
    BY <1>0, <1>3, <2>1 DEF DecideOpen, engineVars, Named, Cids
  <2>8. LiveKinds'
    BY <1>0, <1>3, <2>1 DEF DecideOpen, Named, LiveKinds
  <2>6. ASSUME NEW s \in Sides, side[s].pendingClose # NoCid
        PROVE  /\ side[s].pendingClose <= sent'
               /\ order'[side[s].pendingClose].kind = "close" /\ order'[side[s].pendingClose].side = s
    <3>1. side[s].pendingClose \in Cids /\ side[s].pendingClose <= sent
          /\ order[side[s].pendingClose].kind = "close" /\ order[side[s].pendingClose].side = s
      BY <1>0, <2>6 DEF Named, ClosesNamed
    <3> QED BY <1>0, <2>1, <2>2, <3>1 DEF Cids
  <2>7. \A c \in Cids : c <= sent => OrderStays(c)
    BY <2>2 DEF OrderStays
  <2> QED BY <1>1, <2>3, <2>4, <2>5, <2>6, <2>7, <2>8 DEF Named, Fresh, ClosesNamed
<1>4. CASE Engine
  <2>1. UNCHANGED <<sent, side>> /\ \A c \in Cids : OrderStays(c)
    BY <1>4, EngineMoves
  <2>2. applying' # NoTrade => applying'.cid <= sent'
    <3>1. CASE applying' \in {applying, NoTrade}
      BY <2>1, <3>1 DEF Named
    <3>2. CASE order[applying'.cid].st = "live" /\ applying' # NoTrade
      <4>1. applying'.cid \in Cids
        BY <3>2, StepTyped DEF TypeInv
      <4> QED BY <1>0, <2>1, <3>2, <4>1 DEF Bookkeeping, Cids
    <3> QED BY <1>4, <3>1, <3>2, EngineMoves
  <2>3. Fresh'
    BY <2>1 DEF Named, Fresh, OrderStays
  <2>4. ClosesNamed'
    BY <1>0, <2>1 DEF Named, ClosesNamed, OrderStays
  <2>5. LiveKinds'
    BY <1>4, <2>1, BecomesLive DEF Named, LiveKinds, OrderStays
  <2> QED BY <1>1, <2>1, <2>2, <2>3, <2>4, <2>5 DEF Named
<1> QED
  BY <1>2, <1>3, <1>4, StepKinds

-----------------------------------------------------------------------------
(* What the position events on their way tell *)

LastOf(s, i) == posq[i].side = s /\ \A j \in DOMAIN posq : j > i => posq[j].side # s
Unheard(s) == \E i \in DOMAIN posq : posq[i].side = s
Open(s) == pe[s].status = "Open"

\* The last event of a side on its way tells whether the engine holds it as Open.
Told == pc # "stopped" => \A s \in Sides, i \in DOMAIN posq :
          LastOf(s, i) => (posq[i].status = "Open" <=> Open(s))
ClosedEvents == \A i \in DOMAIN posq : posq[i].type = "Closed" => posq[i].status = "Closed"
QueueInv == Told /\ ClosedEvents

\* A step that puts nothing into the queue and opens and closes nothing.
LEMMA NothingTold ==
  ASSUME QueueInv, posq' = posq, \A s \in Sides : Open(s)' = Open(s), pc' # "stopped" => pc # "stopped"
  PROVE  QueueInv' /\ \A s \in Sides : Unheard(s)' = Unheard(s)
  BY DEF QueueInv, Told, ClosedEvents, LastOf, Unheard

\* The engine tells of a side, last whether it is Open now.
LEMMA SideTold ==
  ASSUME TypeInv, QueueInv, NEW s \in Sides, NEW p \in Seq(PosEvent), NEW o, Tell(p, o),
         p # <<>>, \A i \in DOMAIN p : p[i].side = s /\ (p[i].type = "Closed" => p[i].status = "Closed"),
         p[Len(p)].status = "Open" <=> Open(s)',
         \A t \in Sides \ {s} : Open(t)' = Open(t), pc' = pc
  PROVE  /\ QueueInv'
         /\ pc # "stopped" => Unheard(s)' /\ \A t \in Sides \ {s} : Unheard(t)' = Unheard(t)
<1>0. posq \in Seq(PosEvent)
  BY DEF TypeInv, TypeOK
<1>1. CASE pc = "stopped"
  BY <1>1 DEF Tell, QueueInv, Told, ClosedEvents
<1>2. CASE pc # "stopped"
  <2>1. posq' = posq \o p
    BY <1>2 DEF Tell
  <2> DEFINE n == Len(posq)
             m == Len(p)
  <2>2. n \in Nat /\ m \in Nat /\ m > 0 /\ DOMAIN posq = 1..n /\ DOMAIN p = 1..m /\ DOMAIN posq' = 1..(n + m)
    BY <1>0, <2>1
  <2>3. \A i \in 1..n : posq'[i] = posq[i]
    BY <1>0, <2>1
  <2>4. \A i \in (n + 1)..(n + m) : posq'[i] = p[i - n] /\ i - n \in 1..m
    BY <1>0, <2>1, <2>2
  <2>5. \A i \in (n + 1)..(n + m) : posq'[i].side = s /\ (posq'[i].type = "Closed" => posq'[i].status = "Closed")
    BY <2>2, <2>4
  <2>6. n + m \in (n + 1)..(n + m) /\ posq'[n + m] = p[m]
    <3>1. n + m \in (n + 1)..(n + m) /\ (n + m) - n = m
      BY <2>2
    <3> QED BY <2>4, <3>1
  <2> HIDE DEF n, m
  <2>7. ClosedEvents'
    <3>1. \A i \in 1..n : posq[i].type = "Closed" => posq[i].status = "Closed"
      BY <2>2 DEF QueueInv, ClosedEvents
    <3>2. \A i \in 1..(n + m) : i \in 1..n \/ i \in (n + 1)..(n + m)
      BY <2>2
    <3> QED BY <2>2, <2>3, <2>5, <3>1, <3>2 DEF ClosedEvents
  <2>8. ASSUME NEW t \in Sides, NEW i \in 1..(n + m), posq'[i].side = t,
               \A j \in 1..(n + m) : j > i => posq'[j].side # t
        PROVE  posq'[i].status = "Open" <=> Open(t)'
    <3>1. CASE t = s
      <4>1. ~(n + m > i)
        BY <2>2, <2>5, <2>6, <2>8, <3>1
      <4>2. i = n + m
        BY <2>2, <4>1
      <4> QED BY <2>6, <3>1, <4>2 DEF m
    <3>2. CASE t # s
      <4>1. i \in 1..n
        BY <2>2, <2>5, <2>8, <3>2
      <4>2. posq[i].side = t /\ \A j \in 1..n : j > i => posq[j].side # t
        BY <2>2, <2>3, <2>8, <4>1
      <4>3. posq[i].status = "Open" <=> Open(t)
        BY <1>2, <2>2, <4>1, <4>2 DEF QueueInv, Told, LastOf
      <4> QED BY <2>3, <3>2, <4>1, <4>3
    <3> QED BY <3>1, <3>2
  <2>9. Told'
    BY <2>2, <2>8 DEF Told, LastOf
  <2>10. Unheard(s)'
    BY <2>2, <2>5, <2>6 DEF Unheard
  <2>11. ASSUME NEW t \in Sides, t # s PROVE Unheard(t)' = Unheard(t)
    <3>1. Unheard(t)' <=> \E i \in 1..(n + m) : posq'[i].side = t
      BY <2>2 DEF Unheard
    <3>2. Unheard(t) <=> \E i \in 1..n : posq[i].side = t
      BY <2>2 DEF Unheard
    <3>3. \A i \in 1..(n + m) : posq'[i].side = t => i \in 1..n
      BY <2>2, <2>5, <2>11
    <3>4. Unheard(t)' <=> Unheard(t)
      BY <2>2, <2>3, <3>1, <3>2, <3>3
    <3>5. Unheard(t) \in BOOLEAN /\ Unheard(t)' \in BOOLEAN
      BY DEF Unheard
    <3> QED BY <3>4, <3>5
  <2> QED BY <2>7, <2>9, <2>10, <2>11 DEF QueueInv
<1> QED
  BY <1>1, <1>2

\* The worker takes an event; when it was the last of its side it tells what the engine holds.
LEMMA HeadTaken ==
  ASSUME TypeInv, QueueInv, posq # <<>>, posq' = Tail(posq), pe' = pe, pc' = pc, pc # "stopped"
  PROVE  LET e == Head(posq) IN
         /\ QueueInv'
         /\ e \in PosEvent /\ (e.type = "Closed" => e.status = "Closed")
         /\ \A t \in Sides \ {e.side} : Unheard(t) => Unheard(t)'
         /\ \A t \in Sides : t = e.side /\ ~Unheard(t)' => (e.status = "Open" <=> Open(t))
<1> DEFINE e == Head(posq)
           n == Len(posq)
<1>0. posq \in Seq(PosEvent)
  BY DEF TypeInv, TypeOK
<1>1. n \in Nat /\ n > 0 /\ DOMAIN posq = 1..n /\ DOMAIN posq' = 1..(n - 1) /\ e = posq[1] /\ e \in PosEvent
  BY <1>0
<1>2. \A i \in 1..(n - 1) : posq'[i] = posq[i + 1] /\ i + 1 \in 1..n
  BY <1>0, <1>1, TailShifts
<1>3. \A j \in 2..n : j - 1 \in 1..(n - 1) /\ posq[j] = posq'[j - 1]
  <2>1. ASSUME NEW j \in 2..n PROVE j - 1 \in 1..(n - 1) /\ (j - 1) + 1 = j
    BY <1>1
  <2> QED BY <1>2, <2>1
<1>4. e.side \in Sides
  BY <1>1 DEF PosEvent
<1> HIDE DEF n, e
<1>5. ClosedEvents' /\ (e.type = "Closed" => e.status = "Closed")
  BY <1>1, <1>2 DEF QueueInv, ClosedEvents
<1>6. ASSUME NEW t \in Sides, NEW i \in 1..(n - 1), posq'[i].side = t,
             \A j \in 1..(n - 1) : j > i => posq'[j].side # t
      PROVE  posq'[i].status = "Open" <=> Open(t)'
  <2>1. posq[i + 1].side = t
    BY <1>2, <1>6
  <2>2. ASSUME NEW j \in 1..n, j > i + 1 PROVE posq[j].side # t
    <3>1. j \in 2..n /\ j - 1 > i
      BY <1>1, <2>2
    <3> QED BY <1>3, <1>6, <3>1
  <2>3. posq[i + 1].status = "Open" <=> Open(t)
    BY <1>1, <1>2, <2>1, <2>2 DEF QueueInv, Told, LastOf
  <2> QED BY <1>2, <2>3 DEF Open
<1>7. Told'
  BY <1>1, <1>6 DEF Told, LastOf
<1>8. ASSUME NEW t \in Sides, t # e.side, Unheard(t) PROVE Unheard(t)'
  <2>1. PICK j \in 1..n : posq[j].side = t
    BY <1>1, <1>8 DEF Unheard
  <2>2. j # 1
    BY <1>1, <1>8, <2>1
  <2>3. j \in 2..n
    BY <1>1, <2>2
  <2> QED BY <1>1, <1>3, <2>1, <2>3 DEF Unheard
<1>9. ASSUME NEW t \in Sides, t = e.side, ~Unheard(t)' PROVE e.status = "Open" <=> Open(t)
  <2>1. ASSUME NEW j \in 1..n, j > 1 PROVE posq[j].side # t
    <3>1. j \in 2..n
      BY <1>1, <2>1
    <3>2. posq'[j - 1].side # t
      BY <1>1, <1>3, <1>9, <3>1 DEF Unheard
    <3> QED BY <1>3, <3>1, <3>2
  <2>2. 1 \in 1..n
    BY <1>1
  <2> QED BY <1>1, <1>9, <2>1, <2>2 DEF QueueInv, Told, LastOf
<1> QED
  BY <1>1, <1>5, <1>7, <1>8, <1>9 DEF QueueInv, e

-----------------------------------------------------------------------------
(* Orders that fill in one trade and positions of one unit *)

\* A position has the unit of the order that opened it, or none.
Sized == \A s \in Sides : pe[s].qty = IF pe[s].status \in {"Open", "Closing"} THEN 1 ELSE 0

\* While an opening order is under way its side has no position, no trade and nothing else
\* that could fill.
OpensAlone ==
  \A c \in Cids : order[c].kind = "open" /\ order[c].st \in UnderWay =>
    LET s == order[c].side IN
    /\ order[c].left = 1 /\ ~On(s)
    /\ pe[s].status = IF order[c].st = "queued" THEN "none" ELSE "Opening"
    /\ \A d \in Cids : order[d].side = s /\ d # c =>
         order[d].st # "live" /\ (order[d].st = "queued" => order[d].kind = "close")

\* The trade that is applied is that of the order that opens the position, or closes all of it.
TradeFits ==
  applying # NoTrade =>
    LET s == order[applying.cid].side IN
    /\ applying.qty = 1
    /\ order[applying.cid].kind # "open" => pe[s].qty = 1
    /\ order[applying.cid].kind = "open" =>
         /\ pe[s].status = "Opening"
         /\ \A d \in Cids : order[d].side = s => order[d].st # "live"

\* A close that has filled and is still pending has closed the position or is about to,
\* and nothing can open it again before the worker knows.
Opening(s) == \E c \in Cids : order[c].kind = "open" /\ order[c].side = s /\ order[c].st \in UnderWay
ClosedOut ==
  \A s \in Sides :
    LET d == side[s].pendingClose IN
    d # NoCid /\ order[d].st = "filled" =>
      /\ applying.cid = d \/ (pe[s].status = "none" /\ ~On(s))
      /\ ~Opening(s)

EngineInv == Sized /\ OpensAlone /\ TradeFits /\ ClosedOut

\* The facts about types that the steps below rest on.
LEMMA Typed ==
  ASSUME TypeInv
  PROVE  /\ order \in [Cids -> Order] /\ pe \in [Sides -> PePosition] /\ side \in [Sides -> SideState]
         /\ sent \in Nat /\ cmds \in Seq(Cids) /\ ordq \in Seq(OrdEvent)
         /\ \A c \in Cids : order[c].side \in Sides /\ order[c].left \in Int
         /\ \A s \in Sides : pe[s].qty \in Int /\ pe[s].status \in {"none", "Opening", "Open", "Closing"}
         /\ applying # NoTrade => applying.cid \in Cids
         /\ \A s \in Sides : side[s].pendingClose \in Cids \cup {NoCid}
         /\ NoTrade.cid = NoCid /\ NoCid \notin Cids
<1>1. \A c \in Cids : order[c].side \in Sides /\ order[c].left \in Int
  BY DEF TypeInv, TypeOK, Order
<1>2. \A s \in Sides : pe[s].qty \in Int /\ pe[s].status \in {"none", "Opening", "Open", "Closing"}
  BY DEF TypeInv, TypeOK, PePosition
<1>3. \A s \in Sides : side[s].pendingClose \in Cids \cup {NoCid}
  BY DEF TypeInv, TypeOK, SideState
<1> QED
  BY <1>1, <1>2, <1>3 DEF TypeInv, TypeOK, NoTrade, NoCid, Cids

\* A step of the worker: a close it sends is queued, all other orders stay as they are.
LEMMA WorkerMoveEngine ==
  ASSUME TypeInv, Bookkeeping, Named, EngineInv, WorkerMove
  PROVE  EngineInv'
<1>0. /\ order \in [Cids -> Order] /\ sent \in Nat
      /\ \A c \in Cids : order[c].side \in Sides
      /\ applying # NoTrade => applying.cid \in Cids /\ applying.cid <= sent
      /\ \A s \in Sides : side[s].pendingClose \in Cids \cup {NoCid}
      /\ \A c \in Cids : c > sent => order[c].st = "none"
  BY Typed DEF Named, Bookkeeping
<1>1. pe' = pe /\ applying' = applying /\ \A c \in Cids : c <= sent => order'[c] = order[c]
  BY DEF WorkerMove
<1>2. \A s \in Sides : On(s)' <=> On(s)
  BY <1>0, <1>1 DEF On
<1>3. ASSUME NEW c \in Cids, order'[c].st \in UnderWay, order'[c].kind = "open"
      PROVE  c <= sent /\ order'[c] = order[c]
  BY <1>0, <1>1, <1>3 DEF WorkerMove, UnderWay, Cids
<1>4. ASSUME NEW d \in Cids
      PROVE  \/ order'[d] = order[d]
             \/ order'[d].kind = "close" /\ order'[d].st = "queued"
  BY <1>0, <1>1 DEF WorkerMove, Cids
<1>5. Sized'
  BY <1>1 DEF EngineInv, Sized
<1>6. OpensAlone'
  <2>1. ASSUME NEW c \in Cids, order'[c].kind = "open", order'[c].st \in UnderWay
        PROVE  LET s == order'[c].side IN
               /\ order'[c].left = 1 /\ ~On(s)
               /\ pe[s].status = IF order'[c].st = "queued" THEN "none" ELSE "Opening"
               /\ \A d \in Cids : order'[d].side = s /\ d # c =>
                    order'[d].st # "live" /\ (order'[d].st = "queued" => order'[d].kind = "close")
    <3>1. order'[c] = order[c]
      BY <1>3, <2>1
    <3> QED BY <1>4, <2>1, <3>1 DEF EngineInv, OpensAlone
  <2>2. \A c \in Cids : order'[c].kind = "open" /\ order'[c].st \in UnderWay => order'[c].side \in Sides
    BY <1>0, <1>3
  <2> QED BY <1>1, <1>2, <2>1, <2>2 DEF OpensAlone
<1>7. TradeFits'
  <2>1. ASSUME applying # NoTrade
        PROVE  LET s == order[applying.cid].side IN
               /\ applying.qty = 1
               /\ order[applying.cid].kind # "open" => pe[s].qty = 1
               /\ order[applying.cid].kind = "open" =>
                    /\ pe[s].status = "Opening"
                    /\ \A d \in Cids : order'[d].side = s => order'[d].st # "live"
    BY <1>4, <2>1 DEF EngineInv, TradeFits
  <2>2. applying # NoTrade => order'[applying.cid] = order[applying.cid]
    BY <1>0, <1>1
  <2> QED BY <1>1, <2>1, <2>2 DEF TradeFits
<1>8. ClosedOut'
  <2>1. ASSUME NEW s \in Sides, side'[s].pendingClose # NoCid, order'[side'[s].pendingClose].st = "filled"
        PROVE  /\ side'[s].pendingClose = side[s].pendingClose
               /\ order[side[s].pendingClose].st = "filled"
    <3>1. side'[s].pendingClose = side[s].pendingClose
      BY <2>1 DEF WorkerMove
    <3>2. side[s].pendingClose <= sent /\ side[s].pendingClose \in Cids
      BY <1>0, <2>1, <3>1 DEF Named, ClosesNamed
    <3> QED BY <1>1, <2>1, <3>1, <3>2
  <2>2. \A s \in Sides : Opening(s)' => Opening(s)
    BY <1>3 DEF Opening
  <2> QED BY <1>1, <1>2, <2>1, <2>2 DEF EngineInv, ClosedOut
<1> QED
  BY <1>5, <1>6, <1>7, <1>8 DEF EngineInv

\* A decision to open, when nothing is under way on its side.
LEMMA DecideOpenEngine ==
  ASSUME Amount = 1, TypeInv, Bookkeeping, Named, Quiet, EngineInv, OnePerPosition',
         NEW u \in Sides, DecideOpen(u)
  PROVE  EngineInv'
<1> DEFINE n == sent + 1
<1>0. /\ order \in [Cids -> Order] /\ sent \in Nat /\ side \in [Sides -> SideState]
      /\ \A c \in Cids : order[c].side \in Sides
      /\ applying # NoTrade => applying.cid \in Cids /\ applying.cid <= sent
  BY Typed DEF Named
<1>1. pe' = pe /\ applying' = applying /\ sent' = n /\ n \in Cids
  BY <1>0, BoundsAssumption DEF DecideOpen, engineVars, Cids
<1>2. /\ \A c \in Cids : c # n => order'[c] = order[c]
      /\ order'[n].kind = "open" /\ order'[n].side = u /\ order'[n].st = "queued" /\ order'[n].left = 1
      /\ order'[n].alone = Alone(u)
  BY <1>0, <1>1 DEF DecideOpen
<1>3. /\ pe[u].status = "none" /\ ~On(u)
      /\ \A c \in Cids : order[c].side = u => order[c].st \notin {"queued", "live"}
  BY <1>1, <1>2 DEF OnePerPosition, Alone, On
<1> HIDE DEF n
<1>4. applying # NoTrade => applying.cid # n
  BY <1>0 DEF n
<1>5. \A s \in Sides : On(s)' <=> On(s)
  BY <1>0, <1>1, <1>2, <1>4 DEF On
<1>6. Sized'
  BY <1>1 DEF EngineInv, Sized
<1>7. OpensAlone'
  <2>1. ASSUME NEW c \in Cids, order'[c].kind = "open", order'[c].st \in UnderWay
        PROVE  LET s == order'[c].side IN
               /\ order'[c].left = 1 /\ ~On(s) /\ s \in Sides
               /\ pe[s].status = IF order'[c].st = "queued" THEN "none" ELSE "Opening"
               /\ \A d \in Cids : order'[d].side = s /\ d # c =>
                    order'[d].st # "live" /\ (order'[d].st = "queued" => order'[d].kind = "close")
    <3>1. CASE c = n
      BY <1>2, <1>3, <3>1
    <3>2. CASE c # n
      <4>1. order'[c] = order[c] /\ order[c].side # u
        BY <1>2, <1>3, <2>1, <3>2 DEF UnderWay
      <4> QED BY <1>0, <1>2, <2>1, <4>1 DEF EngineInv, OpensAlone
    <3> QED BY <3>1, <3>2
  <2> QED BY <1>1, <1>5, <2>1 DEF OpensAlone
<1>8. TradeFits'
  <2>1. ASSUME applying # NoTrade
        PROVE  LET s == order[applying.cid].side IN
               /\ applying.qty = 1
               /\ order[applying.cid].kind # "open" => pe[s].qty = 1
               /\ order[applying.cid].kind = "open" =>
                    /\ pe[s].status = "Opening"
                    /\ \A d \in Cids : order'[d].side = s => order'[d].st # "live"
    BY <1>2, <2>1 DEF EngineInv, TradeFits
  <2>2. applying # NoTrade => order'[applying.cid] = order[applying.cid]
    BY <1>0, <1>2, <1>4
  <2> QED BY <1>1, <2>1, <2>2 DEF TradeFits
<1>9. ClosedOut'
  <2>1. \A s \in Sides : side'[s].pendingClose = NoCid
    BY <1>0 DEF DecideOpen, Quiet, Early, IsPending, PendingOn, SideState
  <2> QED BY <2>1 DEF ClosedOut
<1> QED
  BY <1>6, <1>7, <1>8, <1>9 DEF EngineInv

\* The engine takes an opening order: the side is free, since the order was sent alone.
LEMMA PeOpenEngine ==
  ASSUME TypeInv, Bookkeeping, Named, EngineInv, PeOpen
  PROVE  EngineInv'
<1> DEFINE c == Head(cmds)
           s == order[c].side
<1>0. /\ order \in [Cids -> Order] /\ pe \in [Sides -> PePosition]
      /\ \A d \in Cids : order[d].side \in Sides
      /\ applying # NoTrade => applying.cid \in Cids
      /\ \A t \in Sides : side[t].pendingClose \in Cids \cup {NoCid}
      /\ \A d \in Cids : OrderStays(d)
  BY Typed, EngineMoves DEF Engine
<1>1. c \in Cids /\ s \in Sides /\ order[c].kind = "open" /\ order[c].st = "queued"
  <2>1. cmds # <<>> /\ order[c].kind = "open"
    BY DEF PeOpen
  <2>2. 1 \in DOMAIN cmds /\ cmds[1] = c /\ c \in Cids
    BY <2>1, Typed
  <2> QED BY <1>0, <2>1, <2>2 DEF Bookkeeping
<1>2. /\ order[c].left = 1 /\ ~On(s) /\ pe[s].status = "none"
      /\ \A d \in Cids : order[d].side = s /\ d # c =>
           order[d].st # "live" /\ (order[d].st = "queued" => order[d].kind = "close")
  BY <1>1 DEF EngineInv, OpensAlone, UnderWay
<1>3. /\ applying' = applying /\ side' = side
      /\ \/ order' = [order EXCEPT ![c].st = "live"] /\ pe' = [pe EXCEPT ![s] = [status |-> "Opening", qty |-> 0]]
         \/ order' = [order EXCEPT ![c].st = "failed"] /\ pe' = pe
  BY <1>2 DEF PeOpen, Accepted, Refused, workerVars
<1> HIDE DEF c, s
<1>4. /\ \A d \in Cids : d # c => order'[d] = order[d]
      /\ order'[c].left = 1
      /\ \A t \in Sides : t # s => pe'[t] = pe[t]
      /\ \/ order'[c].st = "live" /\ pe'[s].status = "Opening" /\ pe'[s].qty = 0
         \/ order'[c].st = "failed" /\ pe'[s] = pe[s]
  <2>1. CASE order' = [order EXCEPT ![c].st = "live"] /\ pe' = [pe EXCEPT ![s] = [status |-> "Opening", qty |-> 0]]
    <3>1. order'[c].st = "live" /\ order'[c].left = 1 /\ \A d \in Cids : d # c => order'[d] = order[d]
      BY <1>0, <1>1, <1>2, <2>1 DEF Order
    <3>2. pe'[s].status = "Opening" /\ pe'[s].qty = 0 /\ \A t \in Sides : t # s => pe'[t] = pe[t]
      BY <1>0, <1>1, <2>1
    <3> QED BY <3>1, <3>2
  <2>2. CASE order' = [order EXCEPT ![c].st = "failed"] /\ pe' = pe
    BY <1>0, <1>1, <1>2, <2>2 DEF Order
  <2> QED BY <1>3, <2>1, <2>2
<1>5. \A d \in Cids : order'[d].side = order[d].side /\ order'[d].kind = order[d].kind
  BY <1>0 DEF OrderStays
<1>6. \A t \in Sides : On(t)' <=> On(t)
  BY <1>0, <1>3, <1>5 DEF On
<1>7. Sized'
  BY <1>1, <1>4 DEF EngineInv, Sized
<1>8. ASSUME NEW e \in Cids, e # c, order[e].kind = "open", order[e].st \in UnderWay PROVE order[e].side # s
  BY <1>1, <1>2, <1>8 DEF UnderWay
<1>9. OpensAlone'
  <2>1. ASSUME NEW e \in Cids, order[e].kind = "open", order'[e].st \in UnderWay
        PROVE  LET t == order[e].side IN
               /\ order'[e].left = 1 /\ ~On(t) /\ t \in Sides
               /\ pe'[t].status = IF order'[e].st = "queued" THEN "none" ELSE "Opening"
               /\ \A d \in Cids : order[d].side = t /\ d # e =>
                    order'[d].st # "live" /\ (order'[d].st = "queued" => order[d].kind = "close")
    <3>1. CASE e = c
      BY <1>1, <1>2, <1>4, <2>1, <3>1 DEF UnderWay, s
    <3>2. CASE e # c
      <4>1. order'[e] = order[e] /\ order[e].side # s
        BY <1>4, <1>8, <2>1, <3>2
      <4>2. \A d \in Cids : order[d].side = order[e].side => order'[d] = order[d]
        BY <1>4, <4>1 DEF s
      <4> QED BY <1>0, <1>4, <2>1, <4>1, <4>2 DEF EngineInv, OpensAlone
    <3> QED BY <3>1, <3>2
  <2> QED BY <1>5, <1>6, <2>1 DEF OpensAlone
<1>10. TradeFits'
  <2>1. ASSUME applying # NoTrade
        PROVE  LET t == order[applying.cid].side IN
               /\ applying.qty = 1
               /\ order[applying.cid].kind # "open" => pe'[t].qty = 1
               /\ order[applying.cid].kind = "open" =>
                    /\ pe'[t].status = "Opening"
                    /\ \A d \in Cids : order[d].side = t => order'[d].st # "live"
    <3>1. order[applying.cid].side # s /\ order[applying.cid].side \in Sides
      BY <1>0, <1>2, <2>1 DEF On
    <3>2. \A d \in Cids : order[d].side = order[applying.cid].side => order'[d] = order[d]
      BY <1>4, <3>1 DEF s
    <3> QED BY <1>4, <2>1, <3>1, <3>2 DEF EngineInv, TradeFits
  <2> QED BY <1>0, <1>3, <1>5, <2>1 DEF TradeFits
<1>11. ClosedOut'
  <2>1. ASSUME NEW t \in Sides, side[t].pendingClose # NoCid, order'[side[t].pendingClose].st = "filled"
        PROVE  /\ order[side[t].pendingClose].st = "filled" /\ t # s
    <3>1. side[t].pendingClose \in Cids /\ side[t].pendingClose # c
      BY <1>0, <1>1, <2>1 DEF Named, ClosesNamed
    <3>2. order[side[t].pendingClose].st = "filled"
      BY <1>4, <2>1, <3>1
    <3>3. ~Opening(t)
      BY <2>1, <3>2 DEF EngineInv, ClosedOut
    <3> QED BY <1>1, <3>2, <3>3 DEF Opening, UnderWay, s
  <2>2. ASSUME NEW t \in Sides, Opening(t)' PROVE Opening(t)
    <3>1. PICK e \in Cids : order[e].kind = "open" /\ order[e].side = t /\ order'[e].st \in UnderWay
      BY <1>5, <2>2 DEF Opening
    <3>2. order[e].st \in UnderWay
      BY <1>1, <1>4, <3>1 DEF UnderWay
    <3> QED BY <3>1, <3>2 DEF Opening
  <2> QED BY <1>3, <1>4, <1>6, <2>1, <2>2 DEF EngineInv, ClosedOut
<1> QED
  BY <1>7, <1>9, <1>10, <1>11 DEF EngineInv

\* The engine takes a close: it works on a position of one unit, or fails.
LEMMA PeCloseEngine ==
  ASSUME TypeInv, Bookkeeping, Named, EngineInv, PeClose
  PROVE  EngineInv'
<1> DEFINE c == Head(cmds)
           s == order[c].side
           q == pe[s].qty
<1>0. /\ order \in [Cids -> Order] /\ pe \in [Sides -> PePosition]
      /\ \A d \in Cids : order[d].side \in Sides
      /\ applying # NoTrade => applying.cid \in Cids
      /\ \A t \in Sides : side[t].pendingClose \in Cids \cup {NoCid}
      /\ \A d \in Cids : OrderStays(d)
  BY Typed, EngineMoves DEF Engine
<1>1. c \in Cids /\ s \in Sides /\ order[c].kind = "close" /\ order[c].st = "queued"
  <2>1. cmds # <<>> /\ order[c].kind = "close"
    BY DEF PeClose
  <2>2. 1 \in DOMAIN cmds /\ cmds[1] = c /\ c \in Cids
    BY <2>1, Typed
  <2> QED BY <1>0, <2>1, <2>2 DEF Bookkeeping
<1>3. /\ applying' = applying /\ side' = side
      /\ \/ q # 0 /\ order' = [order EXCEPT ![c].st = "live", ![c].left = q] /\ pe' = [pe EXCEPT ![s].status = "Closing"]
         \/ order' = [order EXCEPT ![c].st = "failed"] /\ pe' = pe
  BY DEF PeClose, Refused, workerVars
<1> HIDE DEF c, s, q
<1>4. /\ \A d \in Cids : d # c => order'[d] = order[d]
      /\ \A t \in Sides : t # s => pe'[t] = pe[t]
      /\ \/ order'[c].st = "live" /\ pe[s].status \in {"Open", "Closing"} /\ pe'[s].status = "Closing" /\ pe'[s].qty = pe[s].qty
         \/ order'[c].st = "failed" /\ pe'[s] = pe[s]
  <2>1. CASE order' = [order EXCEPT ![c].st = "failed"] /\ pe' = pe
    BY <1>0, <1>1, <2>1
  <2>2. CASE q # 0 /\ order' = [order EXCEPT ![c].st = "live", ![c].left = q] /\ pe' = [pe EXCEPT ![s].status = "Closing"]
    <3>1. pe[s].status \in {"Open", "Closing"}
      BY <1>1, <2>2 DEF EngineInv, Sized, q
    <3>2. order'[c].st = "live" /\ \A d \in Cids : d # c => order'[d] = order[d]
      BY <1>0, <1>1, <2>2 DEF Order
    <3>3. pe'[s].status = "Closing" /\ pe'[s].qty = pe[s].qty /\ \A t \in Sides : t # s => pe'[t] = pe[t]
      BY <1>0, <1>1, <2>2 DEF PePosition
    <3> QED BY <3>1, <3>2, <3>3
  <2> QED BY <1>3, <2>1, <2>2
<1>5. \A d \in Cids : order'[d].side = order[d].side /\ order'[d].kind = order[d].kind
  BY <1>0 DEF OrderStays
<1>6. \A t \in Sides : On(t)' <=> On(t)
  BY <1>0, <1>3, <1>5 DEF On
<1>7. Sized'
  BY <1>1, <1>4 DEF EngineInv, Sized
<1>9. OpensAlone'
  <2>1. ASSUME NEW e \in Cids, order[e].kind = "open", order'[e].st \in UnderWay
        PROVE  LET t == order[e].side IN
               /\ order'[e].left = 1 /\ ~On(t) /\ t \in Sides
               /\ pe'[t].status = IF order'[e].st = "queued" THEN "none" ELSE "Opening"
               /\ \A d \in Cids : order[d].side = t /\ d # e =>
                    order'[d].st # "live" /\ (order'[d].st = "queued" => order[d].kind = "close")
    <3>1. e # c /\ order'[e] = order[e]
      BY <1>1, <1>4, <2>1
    <3>2. /\ order[e].left = 1 /\ ~On(order[e].side)
          /\ pe[order[e].side].status = IF order[e].st = "queued" THEN "none" ELSE "Opening"
          /\ \A d \in Cids : order[d].side = order[e].side /\ d # e =>
               order[d].st # "live" /\ (order[d].st = "queued" => order[d].kind = "close")
      BY <2>1, <3>1 DEF EngineInv, OpensAlone
    <3>3. order[e].side = s => order'[c].st = "failed"
      BY <1>4, <3>2
    <3>4. pe'[order[e].side] = pe[order[e].side]
      BY <1>0, <1>4, <3>2
    <3>5. \A d \in Cids : order[d].side = order[e].side /\ d # e => order'[d] = order[d] \/ order'[d].st = "failed"
      BY <1>4, <3>3 DEF s
    <3> QED BY <1>0, <3>1, <3>2, <3>4, <3>5
  <2> QED BY <1>5, <1>6, <2>1 DEF OpensAlone
<1>10. TradeFits'
  <2>1. ASSUME applying # NoTrade
        PROVE  LET t == order[applying.cid].side IN
               /\ applying.qty = 1
               /\ order[applying.cid].kind # "open" => pe'[t].qty = 1
               /\ order[applying.cid].kind = "open" =>
                    /\ pe'[t].status = "Opening"
                    /\ \A d \in Cids : order[d].side = t => order'[d].st # "live"
    <3> DEFINE t == order[applying.cid].side
    <3>1. t \in Sides
      BY <1>0, <2>1
    <3>2. /\ applying.qty = 1 /\ (order[applying.cid].kind # "open" => pe[t].qty = 1)
          /\ order[applying.cid].kind = "open" =>
                    /\ pe[t].status = "Opening"
                    /\ \A d \in Cids : order[d].side = t => order[d].st # "live"
      BY <2>1 DEF EngineInv, TradeFits
    <3> HIDE DEF t
    <3>3. pe'[t].qty = pe[t].qty
      BY <1>4, <3>1
    <3>4. pe[t].status = "Opening" => pe'[t] = pe[t] /\ (t = s => order'[c].st = "failed")
      BY <1>4, <3>1
    <3>5. pe[t].status = "Opening" => \A d \in Cids : order[d].side = t => order'[d] = order[d] \/ order'[d].st = "failed"
      BY <1>4, <3>4 DEF s
    <3> QED BY <3>2, <3>3, <3>4, <3>5 DEF t
  <2> QED BY <1>0, <1>3, <1>5, <2>1 DEF TradeFits
<1>11. ClosedOut'
  <2>1. ASSUME NEW t \in Sides, side[t].pendingClose # NoCid, order'[side[t].pendingClose].st = "filled"
        PROVE  /\ order[side[t].pendingClose].st = "filled"
               /\ applying.cid = side[t].pendingClose \/ (pe'[t].status = "none" /\ ~On(t))
    <3>1. side[t].pendingClose \in Cids
      BY <1>0, <2>1
    <3>2. order[side[t].pendingClose].st = "filled"
      BY <1>4, <2>1, <3>1
    <3>3. applying.cid = side[t].pendingClose \/ (pe[t].status = "none" /\ ~On(t))
      BY <2>1, <3>2 DEF EngineInv, ClosedOut
    <3> QED BY <1>4, <3>2, <3>3
  <2>2. ASSUME NEW t \in Sides, Opening(t)' PROVE Opening(t)
    <3>1. PICK e \in Cids : order[e].kind = "open" /\ order[e].side = t /\ order'[e].st \in UnderWay
      BY <1>5, <2>2 DEF Opening
    <3>2. order[e].st \in UnderWay
      BY <1>1, <1>4, <3>1
    <3> QED BY <3>1, <3>2 DEF Opening
  <2> QED BY <1>3, <1>6, <2>1, <2>2 DEF EngineInv, ClosedOut
<1> QED
  BY <1>7, <1>9, <1>10, <1>11 DEF EngineInv

\* A trade of a live order: an opening fills at once, a close finds the one unit there is.
LEMMA PeTradeEngine ==
  ASSUME TypeInv, Bookkeeping, Named, EngineInv, NEW c \in Cids, NEW q \in 1..(Amount * MaxOrders), PeTrade(c, q)
  PROVE  EngineInv'
<1> DEFINE s == order[c].side
           st == IF q = order[c].left THEN "filled" ELSE order[c].st
<1>0. /\ order \in [Cids -> Order] /\ pe \in [Sides -> PePosition]
      /\ \A d \in Cids : order[d].side \in Sides /\ order[d].left \in Int
      /\ \A t \in Sides : pe[t].qty \in Int
      /\ \A t \in Sides : side[t].pendingClose \in Cids \cup {NoCid}
      /\ NoTrade.cid \notin Cids /\ q \in Int /\ q >= 1
      /\ \A d \in Cids : OrderStays(d)
  <2>1. \A d \in Cids : OrderStays(d)
    BY EngineMoves DEF Engine
  <2>2. Amount * MaxOrders \in Nat
    BY BoundsAssumption
  <2> QED BY Typed, <2>1, <2>2
<1>1. /\ order[c].st = "live" /\ applying = NoTrade
      /\ q <= order[c].left /\ (order[c].kind = "close" => q <= pe[s].qty)
      /\ order' = [order EXCEPT ![c].left = @ - q, ![c].st = st]
      /\ applying' = [cid |-> c, qty |-> q] /\ pe' = pe /\ side' = side
  BY <1>0 DEF PeTrade, workerVars, Order
<1>2. s \in Sides /\ order[c].kind \in {"open", "close"}
  BY <1>0, <1>1 DEF Named, LiveKinds, Order
<1> HIDE DEF s
<1>3. order[c].kind = "open" =>
        /\ order[c].left = 1 /\ pe[s].status = "Opening"
        /\ \A d \in Cids : order[d].side = s /\ d # c => order[d].st # "live"
  BY <1>1 DEF EngineInv, OpensAlone, UnderWay, s
<1>4. order[c].kind = "close" => q = 1 /\ pe[s].qty = 1 /\ pe[s].status # "none"
  BY <1>0, <1>1, <1>2 DEF EngineInv, Sized
<1>5. q = 1 /\ (order[c].kind = "open" => st = "filled") /\ st \in {"live", "filled"}
  BY <1>0, <1>1, <1>2, <1>3, <1>4
<1>6. (\A d \in Cids : d # c => order'[d] = order[d]) /\ order'[c].st = st
  BY <1>0, <1>1 DEF Order
<1> HIDE DEF st
<1>7. \A d \in Cids : order'[d].side = order[d].side /\ order'[d].kind = order[d].kind
  BY <1>0 DEF OrderStays
<1>8. applying' # NoTrade /\ applying'.cid = c /\ applying'.qty = 1
  BY <1>0, <1>1, <1>5
<1>9. \A t \in Sides : On(t)' <=> t = s
  BY <1>7, <1>8 DEF On, s
<1>10. ASSUME NEW e \in Cids, order[e].kind = "open", order'[e].st \in UnderWay
       PROVE  e # c /\ order'[e] = order[e] /\ order[e].side # s
  <2>1. e # c
    BY <1>5, <1>6, <1>10 DEF UnderWay
  <2>2. order'[e] = order[e]
    BY <1>6, <2>1
  <2> QED BY <1>1, <1>10, <2>1, <2>2 DEF EngineInv, OpensAlone, s
<1>11. Sized'
  BY <1>1 DEF EngineInv, Sized
<1>12. OpensAlone'
  <2>1. ASSUME NEW e \in Cids, order[e].kind = "open", order'[e].st \in UnderWay
        PROVE  LET t == order[e].side IN
               /\ order'[e].left = 1 /\ t \in Sides /\ t # s
               /\ pe[t].status = IF order'[e].st = "queued" THEN "none" ELSE "Opening"
               /\ \A d \in Cids : order[d].side = t /\ d # e =>
                    order'[d].st # "live" /\ (order'[d].st = "queued" => order[d].kind = "close")
    <3>1. \A d \in Cids : order[d].side = order[e].side => order'[d] = order[d]
      BY <1>6, <1>10, <2>1 DEF s
    <3> QED BY <1>0, <1>10, <2>1, <3>1 DEF EngineInv, OpensAlone
  <2>2. pe' = pe
    BY <1>1
  <2> QED BY <1>7, <1>9, <2>1, <2>2 DEF OpensAlone
<1>13. TradeFits'
  <2>1. order[c].kind # "open" => pe[s].qty = 1
    BY <1>2, <1>4
  <2>2. order[c].kind = "open" => pe[s].status = "Opening" /\ \A d \in Cids : order[d].side = s => order'[d].st # "live"
    BY <1>3, <1>5, <1>6
  <2>3. order'[c].side = s /\ order'[c].kind = order[c].kind
    BY <1>7 DEF s
  <2> QED BY <1>1, <1>7, <1>8, <2>1, <2>2, <2>3 DEF TradeFits
<1>14. ClosedOut'
  <2>1. ASSUME NEW t \in Sides, Opening(t)' PROVE Opening(t) /\ t # s
    <3>1. PICK e \in Cids : order[e].kind = "open" /\ order[e].side = t /\ order'[e].st \in UnderWay
      BY <1>7, <2>1 DEF Opening
    <3> QED BY <1>10, <3>1 DEF Opening
  <2>2. ASSUME NEW t \in Sides, side[t].pendingClose # NoCid, order'[side[t].pendingClose].st = "filled"
        PROVE  /\ applying'.cid = side[t].pendingClose \/ (pe[t].status = "none" /\ t # s)
               /\ ~Opening(t)'
    <3>1. side[t].pendingClose \in Cids /\ order[side[t].pendingClose].side = t /\ order[side[t].pendingClose].kind = "close"
      BY <1>0, <2>2 DEF Named, ClosesNamed
    <3>2. CASE side[t].pendingClose = c
      <4>1. t = s
        BY <3>1, <3>2 DEF s
      <4> QED BY <1>8, <2>1, <3>2, <4>1
    <3>3. CASE side[t].pendingClose # c
      <4>1. order[side[t].pendingClose].st = "filled"
        BY <1>6, <2>2, <3>1, <3>3
      <4>2. pe[t].status = "none" /\ ~Opening(t)
        BY <1>0, <1>1, <2>2, <3>1, <4>1 DEF EngineInv, ClosedOut
      <4>3. t # s
        BY <1>1, <1>2, <1>3, <1>4, <4>2
      <4> QED BY <2>1, <4>2, <4>3
    <3> QED BY <3>2, <3>3
  <2> QED BY <1>1, <1>9, <2>2 DEF ClosedOut
<1> QED
  BY <1>11, <1>12, <1>13, <1>14 DEF EngineInv

\* What the engine does with the trade it has announced: it opens the position or closes it.
LEMMA TradeApplied ==
  ASSUME TypeInv, EngineInv, PeApply
  PROVE  LET c == applying.cid
             s == order[c].side
         IN /\ c \in Cids /\ s \in Sides /\ On(s) /\ applying' = NoTrade
            /\ \A t \in Sides : t # s => pe'[t] = pe[t]
            /\ \/ /\ order[c].kind = "open" /\ pe[s].status = "Opening"
                  /\ pe'[s] = [status |-> "Open", qty |-> 1]
                  /\ Tell(Event("Updated", s, "Open"), <<>>)
               \/ /\ order[c].kind # "open" /\ pe[s].status \in {"Open", "Closing"}
                  /\ pe'[s] = NoPosition
                  /\ Tell(Event("Closed", s, "Closed") \o Event("Updated", s, "Closed"), <<>>)
<1> DEFINE c == applying.cid
           s == order[c].side
           left == pe[s].qty + (IF order[c].kind = "open" THEN applying.qty ELSE 0 - applying.qty)
<1>1. applying # NoTrade /\ applying' = NoTrade
  BY DEF PeApply
<1>2. c \in Cids /\ s \in Sides /\ On(s) /\ pe \in [Sides -> PePosition]
  BY <1>1, Typed DEF On
<1>3. /\ applying.qty = 1
      /\ order[c].kind # "open" => pe[s].qty = 1
      /\ order[c].kind = "open" => pe[s].status = "Opening"
  BY <1>1 DEF EngineInv, TradeFits
<1>4. /\ order[c].kind = "open" => left = 1
      /\ order[c].kind # "open" => left = 0 /\ pe[s].status \in {"Open", "Closing"}
  BY <1>2, <1>3 DEF EngineInv, Sized
<1>6. /\ pe[s].status # "none" /\ left # 0 => /\ pe' = [pe EXCEPT ![s] = [status |-> "Open", qty |-> left]]
                                              /\ Tell(Event("Updated", s, "Open"), <<>>)
      /\ pe[s].status # "none" /\ left = 0 => /\ pe' = [pe EXCEPT ![s] = NoPosition]
                                              /\ Tell(Event("Closed", s, "Closed") \o Event("Updated", s, "Closed"), <<>>)
  <2> HIDE DEF left
  <2> QED BY DEF PeApply, left
<1> HIDE DEF left, s, c
<1>7. CASE order[c].kind = "open"
  <2>1. pe' = [pe EXCEPT ![s] = [status |-> "Open", qty |-> 1]] /\ Tell(Event("Updated", s, "Open"), <<>>)
    BY <1>3, <1>4, <1>6, <1>7
  <2>2. pe'[s] = [status |-> "Open", qty |-> 1] /\ \A t \in Sides : t # s => pe'[t] = pe[t]
    BY <1>2, <2>1
  <2> QED BY <1>1, <1>2, <1>3, <1>7, <2>1, <2>2 DEF c, s
<1>8. CASE order[c].kind # "open"
  <2>1. pe' = [pe EXCEPT ![s] = NoPosition] /\ Tell(Event("Closed", s, "Closed") \o Event("Updated", s, "Closed"), <<>>)
    BY <1>3, <1>4, <1>6, <1>8
  <2>2. pe'[s] = NoPosition /\ \A t \in Sides : t # s => pe'[t] = pe[t]
    BY <1>2, <2>1
  <2> QED BY <1>1, <1>2, <1>4, <1>8, <2>1, <2>2 DEF c, s
<1> QED
  BY <1>7, <1>8

\* The trade is applied: nothing is under way on its side that the change could concern.
LEMMA PeApplyEngine ==
  ASSUME TypeInv, Bookkeeping, Named, EngineInv, PeApply
  PROVE  EngineInv'
<1> DEFINE c == applying.cid
           s == order[c].side
<1>1. /\ c \in Cids /\ s \in Sides /\ On(s) /\ applying' = NoTrade
      /\ \A t \in Sides : t # s => pe'[t] = pe[t]
      /\ pe'[s] = [status |-> "Open", qty |-> 1] \/ (order[c].kind # "open" /\ pe'[s] = NoPosition)
  BY TradeApplied
<1>2. order' = order /\ side' = side
  BY DEF PeApply, workerVars
<1>3. \A t \in Sides : ~On(t)' /\ (On(t) => t = s)
  BY <1>1 DEF On
<1>4. \A e \in Cids : order[e].side \in Sides
  BY Typed
<1> HIDE DEF c, s
<1>5. Sized'
  BY <1>1 DEF EngineInv, Sized, NoPosition
<1>6. OpensAlone'
  <2>1. ASSUME NEW e \in Cids, order[e].kind = "open", order[e].st \in UnderWay PROVE pe'[order[e].side] = pe[order[e].side]
    BY <1>1, <1>4, <2>1 DEF EngineInv, OpensAlone
  <2> QED BY <1>2, <1>3, <1>4, <2>1 DEF EngineInv, OpensAlone
<1>7. TradeFits'
  BY <1>1 DEF TradeFits
<1>8. ClosedOut'
  <2>1. ASSUME NEW t \in Sides, side[t].pendingClose # NoCid, order[side[t].pendingClose].st = "filled"
        PROVE  pe'[t].status = "none"
    <3>1. /\ side[t].pendingClose = applying.cid \/ (pe[t].status = "none" /\ ~On(t))
          /\ order[side[t].pendingClose].kind = "close" /\ order[side[t].pendingClose].side = t
      BY <2>1 DEF EngineInv, ClosedOut, Named, ClosesNamed
    <3>2. CASE side[t].pendingClose = applying.cid
      <4>1. t = s /\ order[c].kind = "close"
        BY <3>1, <3>2 DEF s, c
      <4>2. pe'[s] = NoPosition
        <5>1. pe'[s] = NoPosition \/ order[c].kind = "open"
          BY TradeApplied DEF s, c
        <5> QED BY <4>1, <5>1
      <4> QED BY <4>1, <4>2 DEF NoPosition
    <3>3. CASE side[t].pendingClose # applying.cid
      <4>1. pe[t].status = "none" /\ t # s
        BY <1>1, <3>1, <3>3
      <4> QED BY <1>1, <4>1
    <3> QED BY <3>2, <3>3
  <2>2. \A t \in Sides : Opening(t)' <=> Opening(t)
    BY <1>2 DEF Opening
  <2> QED BY <1>2, <1>3, <2>1, <2>2 DEF EngineInv, ClosedOut
<1> QED
  BY <1>5, <1>6, <1>7, <1>8 DEF EngineInv

\* What the end of an order does to its position.
LEMMA OrderEnds ==
  ASSUME TypeInv, EngineInv, NEW c \in Cids, NEW how \in {"failed", "canceled"}, PeEnd(c, how)
  PROVE  LET s == order[c].side IN
         /\ s \in Sides /\ order[c].st = "live" /\ side' = side /\ applying' = applying
         /\ order'[c].st = how /\ \A d \in Cids : d # c => order'[d] = order[d]
         /\ applying # NoTrade => applying.cid # c
         /\ \A t \in Sides : t # s => pe'[t] = pe[t]
         /\ \/ pe[s].status = "Opening" /\ pe'[s] = NoPosition
               /\ Tell(<<>>, OrderEvent(IF how = "failed" THEN "Failed" ELSE "Canceled", c))
            \/ pe[s].status = "Closing" /\ pe'[s].status = "Open" /\ pe'[s].qty = pe[s].qty
               /\ Tell(Event("Updated", s, "Open"), OrderEvent(IF how = "failed" THEN "Failed" ELSE "Canceled", c))
            \/ pe[s].status \in {"none", "Open"} /\ pe'[s] = pe[s]
               /\ Tell(<<>>, OrderEvent(IF how = "failed" THEN "Failed" ELSE "Canceled", c))
<1> DEFINE s == order[c].side
           ends == OrderEvent(IF how = "failed" THEN "Failed" ELSE "Canceled", c)
<1>0. order \in [Cids -> Order] /\ pe \in [Sides -> PePosition] /\ s \in Sides
      /\ pe[s].status \in {"none", "Opening", "Open", "Closing"}
  BY Typed
<1>1. /\ order[c].st = "live" /\ side' = side /\ applying' = applying
      /\ order' = [order EXCEPT ![c].st = how]
      /\ applying # NoTrade => applying.cid # c
  BY DEF PeEnd, workerVars
<1>2. order'[c].st = how /\ \A d \in Cids : d # c => order'[d] = order[d]
  BY <1>0, <1>1 DEF Order
<1>3. pe[s].status = "Opening" => pe[s].qty = 0
  BY <1>0 DEF EngineInv, Sized
<1>4. /\ pe[s].status = "Opening" => pe' = [pe EXCEPT ![s] = NoPosition] /\ Tell(<<>>, ends)
      /\ pe[s].status = "Closing" => pe' = [pe EXCEPT ![s].status = "Open"] /\ Tell(Event("Updated", s, "Open"), ends)
      /\ pe[s].status \notin {"Opening", "Closing"} => pe' = pe /\ Tell(<<>>, ends)
  <2> HIDE DEF ends
  <2>1. Tell(IF pe[s].status = "Closing" THEN Event("Updated", s, "Open") ELSE <<>>, ends)
    BY DEF PeEnd, ends
  <2>2. /\ pe[s].status = "Opening" => pe' = [pe EXCEPT ![s] = NoPosition]
        /\ pe[s].status = "Closing" => pe' = [pe EXCEPT ![s].status = "Open"]
        /\ pe[s].status \notin {"Opening", "Closing"} => pe' = pe
    BY <1>3 DEF PeEnd
  <2> QED BY <2>1, <2>2
<1> HIDE DEF s, ends
<1>5. \A t \in Sides : t # s => pe'[t] = pe[t]
  BY <1>0, <1>4
<1>6. /\ pe[s].status = "Opening" => pe'[s] = NoPosition
      /\ pe[s].status = "Closing" => pe'[s].status = "Open" /\ pe'[s].qty = pe[s].qty
      /\ pe[s].status \notin {"Opening", "Closing"} => pe'[s] = pe[s]
  BY <1>0, <1>4 DEF PePosition
<1>7. \/ pe[s].status = "Opening" /\ pe'[s] = NoPosition /\ Tell(<<>>, ends)
      \/ pe[s].status = "Closing" /\ pe'[s].status = "Open" /\ pe'[s].qty = pe[s].qty /\ Tell(Event("Updated", s, "Open"), ends)
      \/ pe[s].status \in {"none", "Open"} /\ pe'[s] = pe[s] /\ Tell(<<>>, ends)
  BY <1>0, <1>4, <1>6
<1> QED
  BY <1>0, <1>1, <1>2, <1>5, <1>7 DEF s, ends

\* An order ends without filling: a position that was to be closed stays, one that was to
\* be opened goes.
LEMMA PeEndEngine ==
  ASSUME TypeInv, Bookkeeping, Named, EngineInv, NEW c \in Cids, NEW how \in {"failed", "canceled"}, PeEnd(c, how)
  PROVE  EngineInv'
<1> DEFINE s == order[c].side
<1>0. /\ \A d \in Cids : order[d].side \in Sides
      /\ applying # NoTrade => applying.cid \in Cids
      /\ \A t \in Sides : side[t].pendingClose \in Cids \cup {NoCid}
      /\ \A d \in Cids : OrderStays(d)
  BY Typed, EngineMoves DEF Engine
<1>1. /\ s \in Sides /\ order[c].st = "live" /\ side' = side /\ applying' = applying
      /\ order'[c].st = how /\ \A d \in Cids : d # c => order'[d] = order[d]
      /\ applying # NoTrade => applying.cid # c
      /\ \A t \in Sides : t # s => pe'[t] = pe[t]
      /\ \/ pe[s].status = "Opening" /\ pe'[s] = NoPosition
         \/ pe[s].status = "Closing" /\ pe'[s].status = "Open" /\ pe'[s].qty = pe[s].qty
         \/ pe[s].status \in {"none", "Open"} /\ pe'[s] = pe[s]
  BY OrderEnds
<1> HIDE DEF s
<1>2. \A d \in Cids : order'[d].side = order[d].side /\ order'[d].kind = order[d].kind
  BY <1>0 DEF OrderStays
<1>3. \A t \in Sides : On(t)' <=> On(t)
  BY <1>0, <1>1, <1>2 DEF On
<1>4. Sized'
  BY <1>1 DEF EngineInv, Sized, NoPosition
<1>5. ASSUME NEW e \in Cids, order[e].kind = "open", order'[e].st \in UnderWay
      PROVE  order'[e] = order[e] /\ order[e].side # s
  <2>1. e # c
    BY <1>1, <1>5 DEF UnderWay
  <2>2. order'[e] = order[e]
    BY <1>1, <2>1
  <2> QED BY <1>1, <1>5, <2>1, <2>2 DEF EngineInv, OpensAlone, s
<1>6. OpensAlone'
  <2>1. ASSUME NEW e \in Cids, order[e].kind = "open", order'[e].st \in UnderWay
        PROVE  LET t == order[e].side IN
               /\ order'[e].left = 1 /\ t \in Sides /\ ~On(t)
               /\ pe'[t].status = IF order'[e].st = "queued" THEN "none" ELSE "Opening"
               /\ \A d \in Cids : order[d].side = t /\ d # e =>
                    order'[d].st # "live" /\ (order'[d].st = "queued" => order[d].kind = "close")
    <3>1. \A d \in Cids : order[d].side = order[e].side => order'[d] = order[d]
      BY <1>1, <1>5, <2>1 DEF s
    <3> QED BY <1>0, <1>1, <1>5, <2>1, <3>1 DEF EngineInv, OpensAlone
  <2> QED BY <1>2, <1>3, <2>1 DEF OpensAlone
<1>7. TradeFits'
  <2>1. ASSUME applying # NoTrade
        PROVE  LET t == order[applying.cid].side IN
               /\ applying.qty = 1
               /\ order[applying.cid].kind # "open" => pe'[t].qty = 1
               /\ order[applying.cid].kind = "open" =>
                    /\ pe'[t].status = "Opening"
                    /\ \A d \in Cids : order[d].side = t => order'[d].st # "live"
    <3> DEFINE t == order[applying.cid].side
    <3>1. /\ t \in Sides /\ applying.qty = 1 /\ (order[applying.cid].kind # "open" => pe[t].qty = 1)
          /\ order[applying.cid].kind = "open" =>
                    /\ pe[t].status = "Opening"
                    /\ \A d \in Cids : order[d].side = t => order[d].st # "live"
      BY <1>0, <2>1 DEF EngineInv, TradeFits
    <3> HIDE DEF t
    <3>2. pe[t].qty = 1 => pe'[t].qty = 1
      BY <1>1, <3>1 DEF EngineInv, Sized
    <3>3. order[applying.cid].kind = "open" => t # s
      BY <1>1, <3>1 DEF s
    <3>4. order[applying.cid].kind = "open" => pe'[t] = pe[t] /\ \A d \in Cids : order[d].side = t => order'[d] = order[d]
      BY <1>1, <3>1, <3>3 DEF s
    <3> QED BY <3>1, <3>2, <3>4 DEF t
  <2> QED BY <1>0, <1>1, <1>2, <2>1 DEF TradeFits
<1>8. ClosedOut'
  <2>1. ASSUME NEW t \in Sides, Opening(t)' PROVE Opening(t)
    <3>1. PICK e \in Cids : order[e].kind = "open" /\ order[e].side = t /\ order'[e].st \in UnderWay
      BY <1>2, <2>1 DEF Opening
    <3> QED BY <1>5, <3>1 DEF Opening
  <2>2. ASSUME NEW t \in Sides, side[t].pendingClose # NoCid, order'[side[t].pendingClose].st = "filled"
        PROVE  order[side[t].pendingClose].st = "filled"
    <3>1. side[t].pendingClose \in Cids /\ side[t].pendingClose # c
      BY <1>0, <1>1, <2>2
    <3> QED BY <1>1, <2>2, <3>1
  <2>3. \A t \in Sides : pe[t].status = "none" => pe'[t].status = "none"
    BY <1>1
  <2> QED BY <1>1, <1>3, <2>1, <2>2, <2>3 DEF EngineInv, ClosedOut
<1> QED
  BY <1>4, <1>6, <1>7, <1>8 DEF EngineInv

\* As long as every opening order is sent alone, the engine has one position of one unit
\* per side.
EngineKept == Bookkeeping /\ FlightInv /\ Named /\ (OnePerPosition => EngineInv)

LEMMA StepEngine ==
  ASSUME Amount = 1, EngineKept, [Next]_vars
  PROVE  EngineKept' /\ (OnePerPosition' => OnePerPosition)
<1>0. TypeInv /\ Bookkeeping /\ Named /\ Quiet
  BY DEF EngineKept, FlightInv
<1>1. Bookkeeping' /\ FlightInv' /\ Named' /\ (OnePerPosition' => OnePerPosition)
  BY <1>0, StepBooks, StepFlight, StepNamed DEF EngineKept
<1>2. ASSUME OnePerPosition', EngineInv PROVE EngineInv'
  <2>1. CASE WorkerMove
    BY <1>0, <1>2, <2>1, WorkerMoveEngine
  <2>2. ASSUME NEW s \in Sides, DecideOpen(s) PROVE EngineInv'
    BY <1>0, <1>2, <2>2, DecideOpenEngine
  <2>3. CASE Engine
    BY <1>0, <1>2, <2>3, PeOpenEngine, PeCloseEngine, PeTradeEngine, PeApplyEngine, PeEndEngine DEF Engine
  <2> QED BY <1>0, <2>1, <2>2, <2>3, StepKinds
<1> QED
  BY <1>1, <1>2 DEF EngineKept

-----------------------------------------------------------------------------
(* The cache *)

\* Once a side's events have all been heard the cache holds it as the engine does, but for a
\* close that has filled and is not applied yet.
Heard ==
  pc \notin {"price", "stopped"} =>
    \A s \in Sides : ~Unheard(s) => /\ Has(s) => Open(s)
                                    /\ Open(s) => Has(s) \/ On(s)
KnownHeld == \A s \in Sides : Has(s) => known[s]

\* What a step does to the cache.
CacheKept ==
  /\ posq' = posq
  /\ \A s \in Sides : side'[s].position = side[s].position
  /\ known' = known \/ ~HasAny
  /\ pc' \notin {"price", "stopped"} => pc \notin {"price", "stopped"}
  /\ pc' # "stopped" => pc # "stopped"
CacheRefreshed ==
  /\ posq' = posq /\ pc # "stopped"
  /\ \A s \in Sides : (Has(s)' <=> Open(s)) /\ (Open(s) => known'[s])

\* Sending closes leaves the positions alone.
LEMMA PositionsKept ==
  ASSUME NEW sd \in [Sides -> SideState], NEW T \in SUBSET Sides, side' = WithClose(sd, T)
  PROVE  \A s \in Sides : side'[s].position = sd[s].position
<1>1. ASSUME NEW s \in Sides, NEW d PROVE [sd[s] EXCEPT !.pendingClose = d].position = sd[s].position
  BY DEF SideState
<1> HIDE DEF CloseId
<1> QED
  BY <1>1 DEF WithClose

LEMMA CacheSteps ==
  ASSUME TypeInv, [Next]_vars
  PROVE  \/ CacheKept \/ CacheRefreshed \/ StartWorker
         \/ OnPositionUpdated \/ OnPositionOpened \/ OnPositionClosed
         \/ (\E s \in Sides : OnCloseFilled(s)) \/ Engine \/ Lag
<1>0. TypeOK /\ side \in [Sides -> SideState] /\ known \in [Sides -> BOOLEAN]
  BY DEF TypeInv, TypeOK
<1>1. ASSUME UNCHANGED <<side, known, posq, pc>> PROVE CacheKept
  BY <1>1 DEF CacheKept
<1>2. ASSUME NEW C \in SUBSET Sides, Boot(C) PROVE CacheRefreshed
  <2>1. posq' = posq /\ pc = "price" /\ known' = KnownRefreshed
    BY <1>2 DEF Boot
  <2>2. PICK sd : side' = Refreshed(sd) /\ \A s \in Sides : sd[s] \in SideState
    <3> DEFINE restored(s) == IF /\ \E t \in Sides : KnownRefreshed[t]
                                 /\ LatestOpen # NoCid
                                 /\ order[LatestOpen].side = s
                              THEN [Blank EXCEPT !.openCid = LatestOpen, !.armed = TRUE, !.openedAt = TRUE]
                              ELSE Blank
               booted == [s \in Sides |-> [restored(s) EXCEPT !.lastClose = RestoredClose(s), !.cooling = s \in C]]
    <3>1. side' = Refreshed(booted)
      BY <1>2 DEF Boot
    <3>2. ASSUME NEW s \in Sides PROVE booted[s] \in SideState
      <4>1. restored(s) \in SideState
        BY LatestOpenTyped DEF SideState, Blank
      <4>2. (s \in C) \in BOOLEAN
        OBVIOUS
      <4> HIDE DEF restored
      <4> QED BY <1>0, <4>1, <4>2, RestoredTyped, SidesTyped
    <3> HIDE DEF booted
    <3> QED BY <3>1, <3>2
  <2>3. \A s \in Sides : side'[s].position = IF pe[s].status = "Open" THEN "Open" ELSE "none"
    BY <2>2 DEF Refreshed, SideState
  <2> QED BY <2>1, <2>3 DEF CacheRefreshed, Has, Open, KnownRefreshed
<1>3. ASSUME NEW P \in SUBSET Sides, Begin(P) PROVE CacheKept
  <2> DEFINE timed == [s \in Sides |-> [side[s] EXCEPT !.openedAt = @ \/ Has(s)]]
  <2>1. timed \in [Sides -> SideState] /\ \A s \in Sides : timed[s].position = side[s].position
    <3>1. ASSUME NEW s \in Sides
          PROVE  [side[s] EXCEPT !.openedAt = @ \/ Has(s)] \in SideState
      <4>1. (side[s].openedAt \/ Has(s)) \in BOOLEAN
        OBVIOUS
      <4> QED BY <1>0, <4>1, SidesTyped
    <3> QED BY <1>0, <3>1 DEF SideState
  <2>2. side' = WithClose(timed, P) /\ posq' = posq /\ known' = known /\ pc = "begin" /\ pc' \in {"ask", "main"}
    BY <1>3 DEF Begin
  <2> HIDE DEF timed
  <2> QED BY <2>1, <2>2, PositionsKept DEF CacheKept
<1>4. CASE WaitOver
  BY <1>4 DEF WaitOver, CacheKept
<1>5. CASE StopWorker
  BY <1>5 DEF StopWorker, CacheKept
<1>6. CASE OnOrderUnmatched
  BY <1>1, <1>6 DEF OnOrderUnmatched, TakeOrdEvent
<1>7. ASSUME NEW t \in Sides, OnOpenFilled(t) \/ OnOrderEnded(t) PROVE CacheKept
  <2>1. posq' = posq /\ pc' = pc /\ known' = known
    BY <1>7 DEF OnOpenFilled, OnOrderEnded, TakeOrdEvent
  <2>2. \A s \in Sides : side'[s].position = side[s].position
    <3>1. CASE OnOpenFilled(t)
      BY <1>0, <3>1 DEF OnOpenFilled, SideState
    <3>2. CASE OnOrderEnded(t)
      BY <1>0, <3>2 DEF OnOrderEnded, SideState
    <3> QED BY <1>7, <3>1, <3>2
  <2> QED BY <2>1, <2>2 DEF CacheKept
<1>8. ASSUME NEW T \in SUBSET Sides, NEW X \in SUBSET Sides, NEW P \in SUBSET Sides, PriceTick(T, X, P)
      PROVE  CacheKept
  <2> DEFINE cleared == [s \in Sides |->
               IF s \in T THEN [side[s] EXCEPT !.pendingOpen = NoCid, !.pendingClose = NoCid] ELSE side[s]]
             due == IF X # {} THEN {s \in X : Has(s)} ELSE P
  <2>1. cleared \in [Sides -> SideState] /\ \A s \in Sides : cleared[s].position = side[s].position
    <3>1. ASSUME NEW s \in Sides
          PROVE  LET x == [side[s] EXCEPT !.pendingOpen = NoCid, !.pendingClose = NoCid] IN
                 x \in SideState /\ x.position = side[s].position
      <4>1. side[s] \in SideState
        BY <1>0
      <4>2. [side[s] EXCEPT !.pendingOpen = NoCid, !.pendingClose = NoCid] \in SideState
        BY <4>1, SidesTyped
      <4>3. [side[s] EXCEPT !.pendingOpen = NoCid, !.pendingClose = NoCid].position = side[s].position
        BY <4>1 DEF SideState
      <4> QED BY <4>2, <4>3
    <3> QED BY <1>0, <3>1
  <2>2. side' = WithClose(cleared, due) /\ posq' = posq /\ known' = known /\ pc' = pc /\ due \in SUBSET Sides
    BY <1>8 DEF PriceTick
  <2> HIDE DEF cleared, due
  <2> QED BY <2>1, <2>2, PositionsKept DEF CacheKept
<1>9. CASE LlmAsk
  <2>1. posq' = posq /\ pc \in {"ask", "main"} /\ known' = KnownRefreshed
    BY <1>9 DEF LlmAsk
  <2>2. \A s \in Sides : side'[s].position = IF pe[s].status = "Open" THEN "Open" ELSE "none"
    BY <1>0, <1>9 DEF LlmAsk, Refreshed, SideState
  <2> QED BY <2>1, <2>2 DEF CacheRefreshed, Has, Open, KnownRefreshed
<1>10. CASE DecideHold
  BY <1>10 DEF DecideHold, CacheKept
<1>11. CASE DecideClose
  <2> DEFINE held == {s \in Sides : Has(s)}
  <2>1. side' = WithClose(side, held) /\ posq' = posq /\ known' = known /\ pc = "llm" /\ held \in SUBSET Sides
    BY <1>11 DEF DecideClose
  <2> HIDE DEF held
  <2> QED BY <1>0, <2>1, PositionsKept DEF CacheKept
<1>12. ASSUME NEW s \in Sides, DecideOpen(s) PROVE CacheKept
  <2>1. \A t \in Sides : side'[t].position = side[t].position
    BY <1>0, <1>12 DEF DecideOpen, SideState
  <2> QED BY <1>12, <2>1 DEF DecideOpen, CacheKept
<1>13. ASSUME NEW s \in Sides, CooldownOver(s) PROVE CacheKept
  <2>1. \A t \in Sides : side'[t].position = side[t].position
    BY <1>0, <1>13 DEF CooldownOver, SideState
  <2> QED BY <1>13, <2>1 DEF CooldownOver, CacheKept
<1>14. CASE UNCHANGED vars
  BY <1>1, <1>14 DEF vars
<1> QED
  BY <1>2, <1>3, <1>4, <1>5, <1>6, <1>7, <1>8, <1>9, <1>10, <1>11, <1>12, <1>13, <1>14
     DEF Next, Recovery, Events, Tick, Decision, Cooldown

\* Events about side s, the last of which tells the status st.
About(p, s, st) ==
  /\ p \in Seq(PosEvent) /\ p # <<>>
  /\ \A i \in DOMAIN p : p[i].side = s /\ (p[i].type = "Closed" => p[i].status = "Closed")
  /\ p[Len(p)].status = st

LEMMA EventsAbout ==
  ASSUME NEW s \in Sides
  PROVE  /\ \A st \in {"Open", "Closing"} : About(Event("Updated", s, st), s, st)
         /\ About(Event("Opened", s, "Opening") \o Event("Updated", s, "Opening"), s, "Opening")
         /\ About(Event("Closed", s, "Closed") \o Event("Updated", s, "Closed"), s, "Closed")
<1>1. ASSUME NEW e \in PosEvent, e.side = s, e.type = "Closed" => e.status = "Closed"
      PROVE  About(<<e>>, s, e.status)
  BY <1>1 DEF About
<1>2. ASSUME NEW e \in PosEvent, e.side = s, e.type = "Closed" => e.status = "Closed",
             NEW f \in PosEvent, f.side = s, f.type = "Closed" => f.status = "Closed"
      PROVE  About(<<e>> \o <<f>>, s, f.status)
  <2> DEFINE p == <<e>> \o <<f>>
  <2>1. p \in Seq(PosEvent) /\ Len(p) = 2 /\ p[1] = e /\ p[2] = f
    OBVIOUS
  <2>2. DOMAIN p = 1..2 /\ p # <<>>
    BY <2>1
  <2>3. \A i \in 1..2 : i = 1 \/ i = 2
    OBVIOUS
  <2> HIDE DEF p
  <2>4. About(p, s, f.status)
    BY <1>2, <2>1, <2>2, <2>3 DEF About
  <2> QED BY <2>4 DEF p
<1>3. ASSUME NEW type \in {"Opened", "Updated", "Closed"}, NEW st \in {"Opening", "Open", "Closing", "Closed"}
      PROVE  LET e == [type |-> type, side |-> s, status |-> st] IN
             e \in PosEvent /\ e.side = s /\ e.type = type /\ e.status = st /\ Event(type, s, st) = <<e>>
  BY <1>3 DEF PosEvent, Event
<1>4. ASSUME NEW st \in {"Open", "Closing"} PROVE About(Event("Updated", s, st), s, st)
  BY <1>1, <1>3
<1>5. About(Event("Opened", s, "Opening") \o Event("Updated", s, "Opening"), s, "Opening")
  BY <1>2, <1>3
<1>6. About(Event("Closed", s, "Closed") \o Event("Updated", s, "Closed"), s, "Closed")
  BY <1>2, <1>3
<1> QED
  BY <1>4, <1>5, <1>6

\* What the engine does to a side it tells of, or leaves it as it was.
TellsOrLeaves ==
  pc # "stopped" => \A t \in Sides :
    \/ Unheard(t)'
    \/ (Open(t)' <=> Open(t)) /\ (Unheard(t) => Unheard(t)') /\ (On(t) => On(t)')

LEMMA EngineTells ==
  ASSUME TypeInv, EngineInv, Bookkeeping, QueueInv, Engine
  PROVE  QueueInv' /\ TellsOrLeaves
<1>0. /\ order \in [Cids -> Order] /\ pe \in [Sides -> PePosition] /\ posq \in Seq(PosEvent)
      /\ \A c \in Cids : order[c].side \in Sides
      /\ applying # NoTrade => applying.cid \in Cids
      /\ \A c \in Cids : order'[c].side = order[c].side
      /\ pc' = pc
  BY Typed, EngineMoves DEF TypeInv, TypeOK, OrderStays
<1>2. ASSUME applying' = applying PROVE \A t \in Sides : On(t) => On(t)'
  BY <1>0, <1>2 DEF On
<1>3. ASSUME posq' = posq, \A t \in Sides : (Open(t)' <=> Open(t)) /\ (On(t) => On(t)')
      PROVE  QueueInv' /\ TellsOrLeaves
  <2>1. \A t \in Sides : Open(t)' = Open(t)
    BY <1>3 DEF Open
  <2> QED BY <1>0, <1>3, <2>1, NothingTold DEF TellsOrLeaves
<1>4. ASSUME NEW s \in Sides, NEW p, NEW st, About(p, s, st), NEW o, Tell(p, o),
             st = "Open" <=> pe'[s].status = "Open",
             \A t \in Sides : t # s => pe'[t] = pe[t] /\ (On(t) => On(t)')
      PROVE  QueueInv' /\ TellsOrLeaves
  <2>1. \A t \in Sides \ {s} : Open(t)' = Open(t)
    BY <1>4 DEF Open
  <2>2. st = "Open" <=> Open(s)'
    BY <1>4 DEF Open
  <2>3. /\ p \in Seq(PosEvent) /\ p # <<>>
        /\ \A i \in DOMAIN p : p[i].side = s /\ (p[i].type = "Closed" => p[i].status = "Closed")
        /\ p[Len(p)].status = "Open" <=> Open(s)'
    BY <1>4, <2>2 DEF About
  <2>4. /\ QueueInv'
        /\ pc # "stopped" => Unheard(s)' /\ \A t \in Sides \ {s} : Unheard(t)' = Unheard(t)
    BY <1>0, <1>4, <2>1, <2>3, SideTold
  <2> QED BY <1>4, <2>1, <2>4 DEF TellsOrLeaves
<1>5. ASSUME NEW o, Tell(<<>>, o) PROVE posq' = posq
  BY <1>0, <1>5 DEF Tell
<1>7. CASE PeOpen
  <2>1. PICK s \in Sides : s = order[Head(cmds)].side
    BY <1>0, <1>7, Typed DEF PeOpen
  <2> DEFINE p == Event("Opened", s, "Opening") \o Event("Updated", s, "Opening")
  <2>2. /\ applying' = applying
        /\ \/ pe[s].status = "none" /\ pe' = [pe EXCEPT ![s] = [status |-> "Opening", qty |-> 0]] /\ Tell(p, <<>>)
           \/ pe' = pe /\ Tell(<<>>, OrderEvent("Failed", Head(cmds)))
           \/ pe' = pe /\ posq' = posq
    BY <1>7, <2>1 DEF PeOpen
  <2>3. About(p, s, "Opening")
    BY EventsAbout
  <2> HIDE DEF p
  <2>4. CASE pe[s].status = "none" /\ pe' = [pe EXCEPT ![s] = [status |-> "Opening", qty |-> 0]] /\ Tell(p, <<>>)
    <3>1. pe'[s].status = "Opening" /\ \A t \in Sides : t # s => pe'[t] = pe[t]
      BY <1>0, <2>4
    <3> QED BY <1>2, <1>4, <2>2, <2>3, <2>4, <3>1
  <2>5. CASE pe' = pe /\ posq' = posq
    BY <1>2, <1>3, <2>2, <2>5 DEF Open
  <2> QED BY <1>5, <2>2, <2>4, <2>5
<1>8. CASE PeClose
  <2>1. PICK s \in Sides : s = order[Head(cmds)].side
    BY <1>0, <1>8, Typed DEF PeClose
  <2> DEFINE p == Event("Updated", s, "Closing")
  <2>2. /\ applying' = applying
        /\ \/ pe' = [pe EXCEPT ![s].status = "Closing"] /\ Tell(p, <<>>)
           \/ pe' = pe /\ Tell(<<>>, OrderEvent("Failed", Head(cmds)))
    BY <1>8, <2>1 DEF PeClose
  <2>3. About(p, s, "Closing")
    BY EventsAbout
  <2> HIDE DEF p
  <2>4. CASE pe' = [pe EXCEPT ![s].status = "Closing"] /\ Tell(p, <<>>)
    <3>1. pe'[s].status = "Closing" /\ \A t \in Sides : t # s => pe'[t] = pe[t]
      BY <1>0, <2>4 DEF PePosition
    <3> QED BY <1>2, <1>4, <2>2, <2>3, <2>4, <3>1
  <2>5. CASE pe' = pe /\ posq' = posq
    BY <1>2, <1>3, <2>2, <2>5 DEF Open
  <2> QED BY <1>5, <2>2, <2>4, <2>5
<1>9. ASSUME NEW c \in Cids, NEW q, PeTrade(c, q) PROVE QueueInv' /\ TellsOrLeaves
  <2>1. pe' = pe /\ posq' = posq /\ applying = NoTrade
    BY <1>0, <1>9 DEF PeTrade, Tell
  <2> QED BY <1>3, <2>1 DEF Open, On
<1>10. CASE PeApply
  <2>1. PICK s \in Sides : s = order[applying.cid].side
    BY <1>10, TradeApplied
  <2> DEFINE p == Event("Updated", s, "Open")
             r == Event("Closed", s, "Closed") \o Event("Updated", s, "Closed")
  <2>2. /\ \A t \in Sides : t # s => pe'[t] = pe[t]
        /\ \/ pe'[s] = [status |-> "Open", qty |-> 1] /\ Tell(p, <<>>)
           \/ pe'[s] = NoPosition /\ Tell(r, <<>>)
    BY <1>10, <2>1, TradeApplied
  <2>3. About(p, s, "Open") /\ About(r, s, "Closed")
    BY EventsAbout
  <2>4. \A t \in Sides : t # s => ~On(t)
    BY <2>1 DEF On
  <2> HIDE DEF p, r
  <2>5. CASE pe'[s] = [status |-> "Open", qty |-> 1] /\ Tell(p, <<>>)
    BY <1>4, <2>2, <2>3, <2>4, <2>5
  <2>6. CASE pe'[s] = NoPosition /\ Tell(r, <<>>)
    BY <1>4, <2>2, <2>3, <2>4, <2>6 DEF NoPosition
  <2> QED BY <2>2, <2>5, <2>6
<1>11. ASSUME NEW c \in Cids, NEW how \in {"failed", "canceled"}, PeEnd(c, how) PROVE QueueInv' /\ TellsOrLeaves
  <2>1. PICK s \in Sides : s = order[c].side
    BY <1>0
  <2> DEFINE p == Event("Updated", s, "Open")
             o == OrderEvent(IF how = "failed" THEN "Failed" ELSE "Canceled", c)
  <2>2. /\ applying' = applying
        /\ \A t \in Sides : t # s => pe'[t] = pe[t]
        /\ \/ pe[s].status = "Opening" /\ pe'[s] = NoPosition /\ Tell(<<>>, o)
           \/ pe'[s].status = "Open" /\ Tell(p, o)
           \/ pe'[s] = pe[s] /\ Tell(<<>>, o)
    BY <1>11, <2>1, OrderEnds
  <2>3. About(p, s, "Open")
    BY EventsAbout
  <2> HIDE DEF p, o
  <2>4. CASE pe'[s].status = "Open" /\ Tell(p, o)
    BY <1>2, <1>4, <2>2, <2>3, <2>4
  <2>5. CASE Tell(<<>>, o) /\ (pe'[s] = pe[s] \/ (pe[s].status = "Opening" /\ pe'[s] = NoPosition))
    <3>1. \A t \in Sides : Open(t)' <=> Open(t)
      BY <2>2, <2>5 DEF Open, NoPosition
    <3>2. posq' = posq
      BY <1>5, <2>5
    <3> QED BY <1>2, <1>3, <2>2, <3>1, <3>2
  <2> QED BY <2>2, <2>4, <2>5
<1> QED
  BY <1>7, <1>8, <1>9, <1>10, <1>11 DEF Engine

\* A position event: the side it is about is as the engine holds it when it is the last one.
LEMMA EventHeard ==
  ASSUME TypeInv, KnownHeld, OnPositionUpdated \/ OnPositionOpened \/ OnPositionClosed
  PROVE  LET e == Head(posq) IN
         /\ pc # "stopped" /\ pc' = pc /\ posq # <<>> /\ posq' = Tail(posq) /\ e \in PosEvent
         /\ UNCHANGED <<pe, order, applying>>
         /\ KnownHeld'
         /\ \A t \in Sides : t # e.side => Has(t)' = Has(t)
         /\ (e.type = "Closed" => e.status = "Closed") =>
              \A t \in Sides : t = e.side => (Has(t)' <=> e.status = "Open")
<1> DEFINE e == Head(posq)
<1>0. side \in [Sides -> SideState] /\ known \in [Sides -> BOOLEAN] /\ posq \in Seq(PosEvent)
  BY DEF TypeInv, TypeOK
<1>1. /\ pc # "stopped" /\ pc' = pc /\ posq # <<>> /\ posq' = Tail(posq)
      /\ UNCHANGED <<pe, order, applying>>
  BY DEF OnPositionUpdated, OnPositionOpened, OnPositionClosed, TakePosEvent, engineVars
<1>2. e \in PosEvent
  BY <1>0, <1>1
<1>3. PICK u \in Sides : u = e.side
  BY <1>2 DEF PosEvent
<1>4. PICK st \in {"Opening", "Open", "Closing", "Closed"} : st = e.status
  BY <1>2 DEF PosEvent
<1>5. /\ side[u] \in SideState
      /\ [side[u] EXCEPT !.position = st].position = st
      /\ ClearOnClose(side[u], "external").position = "none"
  BY <1>0 DEF SideState, ClearOnClose, ClearPosition
<1>6. \/ side' = [side EXCEPT ![u] = [side[u] EXCEPT !.position = st]] /\ known' = [known EXCEPT ![u] = TRUE]
      \/ /\ side' = [side EXCEPT ![u] = ClearOnClose(side[u], "external")] /\ known' = [known EXCEPT ![u] = FALSE]
         /\ e.type = "Closed"
      \/ /\ side' = side /\ known' = known /\ side[u].position = "none"
         /\ e.type = "Closed" \/ st # "Open"
  <2>1. CASE OnPositionUpdated
    BY <1>3, <1>4, <2>1 DEF OnPositionUpdated
  <2>2. CASE OnPositionOpened
    BY <1>3, <1>4, <2>2 DEF OnPositionOpened
  <2>3. CASE OnPositionClosed
    BY <1>3, <1>4, <2>3 DEF OnPositionClosed, TakePosEvent
  <2> QED BY <2>1, <2>2, <2>3
<1> HIDE DEF e
<1>7. /\ \A t \in Sides : t # u => side'[t] = side[t] /\ known'[t] = known[t]
      /\ \/ side'[u].position = st /\ known'[u]
         \/ side'[u].position = "none" /\ (e.type = "Closed" \/ st # "Open")
  <2>1. CASE side' = [side EXCEPT ![u] = [side[u] EXCEPT !.position = st]] /\ known' = [known EXCEPT ![u] = TRUE]
    BY <1>0, <1>5, <2>1
  <2>2. CASE /\ side' = [side EXCEPT ![u] = ClearOnClose(side[u], "external")] /\ known' = [known EXCEPT ![u] = FALSE]
             /\ e.type = "Closed"
    BY <1>0, <1>5, <2>2
  <2>3. CASE /\ side' = side /\ known' = known /\ side[u].position = "none"
             /\ e.type = "Closed" \/ st # "Open"
    BY <2>3
  <2> QED BY <1>6, <2>1, <2>2, <2>3
<1>8. KnownHeld'
  BY <1>7 DEF KnownHeld, Has
<1>9. \A t \in Sides : t # u => Has(t)' = Has(t)
  BY <1>7 DEF Has
<1>10. (e.type = "Closed" => e.status = "Closed") => (Has(u)' <=> e.status = "Open")
  BY <1>4, <1>7 DEF Has
<1> QED
  BY <1>1, <1>2, <1>3, <1>8, <1>9, <1>10 DEF e

\* The fill of a close clears its side, which the engine has closed or is about to.
LEMMA CloseHeard ==
  ASSUME TypeInv, Bookkeeping, ClosesNamed, KnownHeld, NEW u \in Sides, OnCloseFilled(u)
  PROVE  /\ pc' = pc /\ posq' = posq /\ KnownHeld' /\ ~Has(u)'
         /\ \A t \in Sides : t # u => Has(t)' = Has(t)
         /\ EngineInv => (Open(u) => On(u))
<1> DEFINE c == side[u].pendingClose
           x == ClearOnClose(side[u], order[Head(ordq).cid].reason)
<1>0. side \in [Sides -> SideState] /\ known \in [Sides -> BOOLEAN] /\ ordq \in Seq(OrdEvent)
  BY DEF TypeInv, TypeOK
<1>1. /\ pc' = pc /\ posq' = posq /\ ordq # <<>> /\ Head(ordq).type = "Filled" /\ c = Head(ordq).cid
      /\ side' = [side EXCEPT ![u] = [x EXCEPT !.pendingClose = NoCid]]
      /\ known' = [known EXCEPT ![u] = FALSE]
  BY DEF OnCloseFilled, TakeOrdEvent
<1>2. c \in Cids /\ order[c].st = "filled"
  <2>1. 1 \in DOMAIN ordq /\ ordq[1] = Head(ordq)
    BY <1>0, <1>1
  <2> QED BY <1>1, <2>1, EventEnded, EndsTyped
<1>3. [x EXCEPT !.pendingClose = NoCid].position = "none"
  <2>1. x \in SideState /\ x.position = "none"
    <3>1. order[Head(ordq).cid].reason \in Reasons
      BY SMTT(40), <1>1, <1>2 DEF TypeInv, TypeOK, Order
    <3>2. x.position = "none"
      BY <1>0 DEF ClearOnClose, ClearPosition, SideState
    <3> QED BY <1>0, <3>1, <3>2, SidesTyped
  <2> HIDE DEF x
  <2> QED BY <2>1 DEF SideState
<1> HIDE DEF x
<1>4. /\ side'[u].position = "none"
      /\ \A t \in Sides : t # u => side'[t] = side[t] /\ known'[t] = known[t]
  BY <1>0, <1>1, <1>3
<1>5. ~Has(u)' /\ \A t \in Sides : t # u => Has(t)' = Has(t)
  BY <1>4 DEF Has
<1>6. KnownHeld'
  BY <1>4 DEF KnownHeld, Has
<1>7. ASSUME EngineInv, Open(u) PROVE On(u)
  <2>1. c # NoCid /\ order[c].side = u
    BY <1>2, Typed DEF ClosesNamed
  <2>2. applying.cid = c
    BY <1>2, <1>7, <2>1 DEF EngineInv, ClosedOut, Open
  <2>3. applying # NoTrade
    BY <1>2, <2>2, Typed
  <2> QED BY <2>1, <2>2, <2>3 DEF On
<1> QED
  BY <1>1, <1>5, <1>6, <1>7

\* Only the engine touches its positions and the trade it applies.
LEMMA WorkerKeepsTrade ==
  ASSUME TypeInv, Named, [Next]_vars, ~Engine
  PROVE  /\ pe' = pe /\ applying' = applying
         /\ \A s \in Sides : (On(s)' <=> On(s)) /\ Open(s)' = Open(s)
<1>1. pe' = pe /\ applying' = applying
  BY StepKinds DEF WorkerMove, DecideOpen, engineVars
<1>2. \A c \in Cids : c <= sent => order'[c] = order[c]
  <2>1. CASE WorkerMove
    BY <2>1 DEF WorkerMove
  <2>2. ASSUME NEW s \in Sides, DecideOpen(s) PROVE \A c \in Cids : c <= sent => order'[c] = order[c]
    <3>1. order \in [Cids -> Order] /\ sent \in Nat
      BY Typed
    <3> QED BY <2>2, <3>1 DEF DecideOpen, Cids
  <2> QED BY <2>1, <2>2, StepKinds
<1>3. applying # NoTrade => applying.cid \in Cids /\ applying.cid <= sent
  BY Typed DEF Named
<1> QED
  BY <1>1, <1>2, <1>3 DEF On, Open

CacheInv == EngineKept /\ KnownHeld /\ (OnePerPosition => QueueInv /\ Heard)

LEMMA StepCache ==
  ASSUME ~Lossy, Amount = 1, CacheInv, [Next]_vars
  PROVE  CacheInv'
<1>0. /\ TypeInv /\ EngineKept /\ KnownHeld /\ Bookkeeping /\ Named
      /\ posq \in Seq(PosEvent)
      /\ EngineKept' /\ (OnePerPosition' => OnePerPosition)
  <2>1. EngineKept' /\ (OnePerPosition' => OnePerPosition)
    BY StepEngine DEF CacheInv
  <2> QED BY <2>1 DEF CacheInv, EngineKept, FlightInv, TypeInv, TypeOK
<1>1. SUFFICES KnownHeld' /\ (EngineInv /\ QueueInv /\ Heard => QueueInv' /\ Heard')
  BY <1>0 DEF CacheInv, EngineKept
<1>2. CASE Engine
  <2>1. UNCHANGED <<side, known, pc>>
    BY <1>0, <1>2, EngineMoves
  <2>2. KnownHeld' /\ \A s \in Sides : Has(s)' <=> Has(s)
    BY <1>0, <2>1 DEF KnownHeld, Has
  <2>3. ASSUME EngineInv, QueueInv, Heard PROVE QueueInv' /\ Heard'
    <3>1. QueueInv' /\ TellsOrLeaves
      BY <1>0, <1>2, <2>3, EngineTells
    <3> QED BY <2>1, <2>2, <2>3, <3>1 DEF TellsOrLeaves, Heard
  <2> QED BY <2>2, <2>3
<1>3. ASSUME ~Engine
      PROVE  /\ pe' = pe
             /\ \A s \in Sides : (On(s)' <=> On(s)) /\ Open(s)' = Open(s)
  BY <1>0, <1>3, WorkerKeepsTrade
<1>4. CASE CacheKept /\ ~Engine
  <2>1. \A s \in Sides : Has(s)' <=> Has(s)
    BY <1>4 DEF CacheKept, Has
  <2>2. KnownHeld'
    BY <1>0, <1>4, <2>1 DEF CacheKept, KnownHeld, HasAny
  <2>3. ASSUME QueueInv, Heard PROVE QueueInv' /\ Heard'
    <3>1. QueueInv' /\ \A s \in Sides : Unheard(s)' = Unheard(s)
      BY <1>3, <1>4, <2>3, NothingTold DEF CacheKept
    <3> QED BY <1>3, <1>4, <2>1, <2>3, <3>1 DEF CacheKept, Heard
  <2> QED BY <2>2, <2>3
<1>5. CASE CacheRefreshed /\ ~Engine
  <2>1. KnownHeld'
    BY <1>5 DEF CacheRefreshed, KnownHeld
  <2>2. ASSUME QueueInv PROVE QueueInv' /\ Heard'
    <3>1. QueueInv'
      BY <1>3, <1>5, <2>2, NothingTold DEF CacheRefreshed
    <3> QED BY <1>3, <1>5, <3>1 DEF CacheRefreshed, Heard
  <2> QED BY <2>1, <2>2
<1>6. CASE StartWorker
  <2>1. pc' = "price" /\ posq' = <<>> /\ \A s \in Sides : side'[s].position = "none"
    BY <1>6 DEF StartWorker, Blank
  <2> QED BY <2>1 DEF KnownHeld, Has, QueueInv, Told, ClosedEvents, Heard
<1>7. CASE (OnPositionUpdated \/ OnPositionOpened \/ OnPositionClosed) /\ ~Engine
  <2> DEFINE e == Head(posq)
  <2>1. /\ pc # "stopped" /\ pc' = pc /\ posq # <<>> /\ posq' = Tail(posq) /\ e \in PosEvent
        /\ KnownHeld'
        /\ \A t \in Sides : t # e.side => Has(t)' = Has(t)
        /\ (e.type = "Closed" => e.status = "Closed") =>
              \A t \in Sides : t = e.side => (Has(t)' <=> e.status = "Open")
    BY <1>0, <1>7, EventHeard
  <2>2. ASSUME QueueInv, Heard PROVE QueueInv' /\ Heard'
    <3>1. /\ QueueInv'
          /\ (e.type = "Closed" => e.status = "Closed")
          /\ \A t \in Sides \ {e.side} : Unheard(t) => Unheard(t)'
          /\ \A t \in Sides : t = e.side /\ ~Unheard(t)' => (e.status = "Open" <=> Open(t))
      BY <1>0, <1>3, <1>7, <2>1, <2>2, HeadTaken
    <3> HIDE DEF e
    <3>2. ASSUME NEW t \in Sides, ~Unheard(t)', pc' \notin {"price", "stopped"}
          PROVE  (Has(t)' => Open(t)') /\ (Open(t)' => Has(t)' \/ On(t)')
      <4>1. CASE t = e.side
        BY <1>3, <1>7, <2>1, <3>1, <3>2, <4>1
      <4>2. CASE t # e.side
        BY <1>3, <1>7, <2>1, <2>2, <3>1, <3>2, <4>2 DEF Heard
      <4> QED BY <4>1, <4>2
    <3> QED BY <3>1, <3>2 DEF Heard
  <2> QED BY <2>1, <2>2
<1>8. ASSUME NEW u \in Sides, OnCloseFilled(u), ~Engine
      PROVE  KnownHeld' /\ (EngineInv /\ QueueInv /\ Heard => QueueInv' /\ Heard')
  <2>1. /\ pc' = pc /\ posq' = posq /\ KnownHeld' /\ ~Has(u)'
        /\ \A t \in Sides : t # u => Has(t)' = Has(t)
        /\ EngineInv => (Open(u) => On(u))
    BY <1>0, <1>8, CloseHeard DEF Named
  <2>2. ASSUME EngineInv, QueueInv, Heard PROVE QueueInv' /\ Heard'
    <3>1. QueueInv' /\ \A s \in Sides : Unheard(s)' = Unheard(s)
      BY <1>3, <1>8, <2>1, <2>2, NothingTold
    <3> QED BY <1>3, <1>8, <2>1, <2>2, <3>1 DEF Heard
  <2> QED BY <2>1, <2>2
<1>9. ~Lag
  BY DEF Lag
<1> QED
  BY <1>0, <1>2, <1>4, <1>5, <1>6, <1>7, <1>8, <1>9, CacheSteps

-----------------------------------------------------------------------------
(* The theorem *)

\* A new worker and an idle engine agree.
LEMMA InitCache == Init => CacheInv
<1> SUFFICES ASSUME Init PROVE CacheInv
  OBVIOUS
<1>1. TypeInv /\ FlightInv
  BY InitTyped DEF Init, FlightInv, OneInFlight, Quiet, IsPending, PendingOn, Blank
<1>2. Bookkeeping
  BY DEF Init, Bookkeeping, NoOrder
<1>3. Named
  BY DEF Init, Named, Fresh, ClosesNamed, LiveKinds, NoOrder, Blank
<1>4. EngineInv
  BY DEF Init, EngineInv, Sized, OpensAlone, TradeFits, ClosedOut, NoOrder, NoPosition, Blank
<1>5. KnownHeld /\ QueueInv /\ Heard
  BY DEF Init, KnownHeld, Has, Blank, QueueInv, Told, ClosedEvents, Heard
<1> QED
  BY <1>1, <1>2, <1>3, <1>4, <1>5 DEF CacheInv, EngineKept

LEMMA CacheAtRest == CacheInv => CacheConverges
<1> SUFFICES ASSUME CacheInv, AtRest, OnePerPosition, NEW s \in Sides
             PROVE  (Has(s) <=> Open(s)) /\ (Has(s) => known[s])
  BY DEF CacheConverges, Open
<1>1. ~Unheard(s) /\ ~On(s)
  BY DEF AtRest, Unheard, On
<1> QED
  BY <1>1 DEF CacheInv, Heard, KnownHeld, AtRest

\* Whatever the interleaving of the events, the refreshes, the timeouts and the restarts, the
\* worker that has heard everything holds as open what the engine holds as Open, and knows
\* its id: the cache of SideState against the positions of the engine.
THEOREM CacheAgrees ==
  ASSUME ~Lossy, Amount = 1
  PROVE  Spec => []CacheConverges
<1>1. CacheInv /\ [Next]_vars => CacheInv'
  BY StepCache
<1> QED
  BY <1>1, InitCache, CacheAtRest, PTL DEF Spec

-----------------------------------------------------------------------------
(* A worker that is not restarted, that hears every event and whose orders end in time *)

Idle(x) ==
  /\ x.position = "none" /\ x.pendingOpen = NoCid /\ x.pendingClose = NoCid /\ x.openCid = NoCid
  /\ x.armed = FALSE /\ x.openedAt = FALSE /\ x.cooling = FALSE

\* Before its first decision the worker has done nothing, and neither has the engine for it.
Untouched ==
  pc \in {"price", "wait", "begin", "ask"} =>
    /\ pc # "wait" /\ sent = 0 /\ OpenRecords = {} /\ closes = <<>>
    /\ \A s \in Sides : pe[s] = NoPosition /\ ~known[s] /\ Idle(side[s])

\* What a step leaves of a side: the orders that are pending but for a new close, and the watch.
WatchKept(s) ==
  /\ side'[s].armed = side[s].armed /\ side'[s].openedAt = side[s].openedAt
  /\ side'[s].openCid = side[s].openCid /\ side'[s].cooling = side[s].cooling
  /\ side'[s].pendingOpen = side[s].pendingOpen
SideKept(s) == WatchKept(s) /\ side'[s].pendingClose = side[s].pendingClose

\* A step that sends nothing, and closes when nothing is pending.
Calm ==
  /\ UNCHANGED <<books, sent, order, pe, applying, ordq>>
  /\ posq' = posq \/ (posq # <<>> /\ posq' = Tail(posq))
  /\ \A s \in Sides : SideKept(s)
SendsCloses(T, reason) ==
  /\ ~IsPending(side) /\ SendClose(T, reason)
  /\ UNCHANGED <<books, pe, applying, posq, ordq>>
  /\ \A s \in Sides : /\ WatchKept(s)
                      /\ side'[s].pendingClose = IF s \in T THEN CloseId(s, T) ELSE side[s].pendingClose

\* Sending closes changes nothing else of a side.
LEMMA WatchUnmoved ==
  ASSUME side \in [Sides -> SideState], NEW sd \in [Sides -> SideState], NEW T \in SUBSET Sides, side' = WithClose(sd, T),
         \A s \in Sides : /\ sd[s].armed = side[s].armed /\ sd[s].openedAt = side[s].openedAt
                          /\ sd[s].openCid = side[s].openCid /\ sd[s].cooling = side[s].cooling
                          /\ sd[s].pendingOpen = side[s].pendingOpen /\ sd[s].pendingClose = side[s].pendingClose
  PROVE  \A s \in Sides : /\ WatchKept(s)
                          /\ side'[s].pendingClose = IF s \in T THEN CloseId(s, T) ELSE side[s].pendingClose
<1>1. ASSUME NEW s \in Sides, NEW d
      PROVE  LET x == [sd[s] EXCEPT !.pendingClose = d] IN
             /\ x.armed = sd[s].armed /\ x.openedAt = sd[s].openedAt /\ x.openCid = sd[s].openCid
             /\ x.cooling = sd[s].cooling /\ x.pendingOpen = sd[s].pendingOpen /\ x.pendingClose = d
  BY DEF SideState
<1>2. ASSUME NEW s \in Sides
      PROVE  /\ WatchKept(s)
             /\ side'[s].pendingClose = IF s \in T THEN CloseId(s, T) ELSE side[s].pendingClose
  <2> DEFINE d == CloseId(s, T)
             x == [sd[s] EXCEPT !.pendingClose = d]
  <2>1. side'[s] = IF s \in T THEN x ELSE sd[s]
    BY DEF WithClose
  <2>2. /\ x.armed = sd[s].armed /\ x.openedAt = sd[s].openedAt /\ x.openCid = sd[s].openCid
        /\ x.cooling = sd[s].cooling /\ x.pendingOpen = sd[s].pendingOpen /\ x.pendingClose = d
    <3> HIDE DEF d
    <3> QED BY <1>1
  <2> HIDE DEF d, x
  <2> QED BY <2>1, <2>2 DEF WatchKept, d
<1> QED
  BY <1>2

\* A worker of a bot that has traded nothing starts idle.
LEMMA BootIdle ==
  ASSUME TypeInv, Untouched, NEW C \in SUBSET Sides, Boot(C)
  PROVE  /\ UNCHANGED <<books, sent, order, pe, applying, ordq, posq>> /\ pc = "price" /\ pc' = "begin"
         /\ \A s \in Sides : SideKept(s) /\ Idle(side[s])' /\ ~known'[s]
<1>1. /\ pc = "price" /\ OpenRecords = {} /\ closes = <<>>
      /\ \A s \in Sides : pe[s] = NoPosition /\ ~known[s] /\ Idle(side[s])
  BY DEF Boot, Untouched
<1>2. ASSUME NEW s \in Sides PROVE ~KnownRefreshed[s] /\ RestoredClose(s) = "none"
  <2>1. ~(closes # <<>>) /\ pe[s].status # "Open" /\ ~known[s]
    BY <1>1 DEF NoPosition
  <2>2. RestoredClose(s) = "none"
    BY Zenon, <2>1 DEF RestoredClose
  <2> QED BY <2>1, <2>2 DEF KnownRefreshed
<1>3. C = {}
  BY <1>2 DEF Boot
<1>4. LatestOpen = NoCid
  BY <1>1 DEF LatestOpen
<1>5. UNCHANGED <<books, sent, order, pe, applying, ordq, posq>> /\ pc' = "begin" /\ known' = KnownRefreshed
  BY <1>2, <1>4 DEF Boot, books, engineVars
<1>6. ASSUME NEW s \in Sides PROVE SideKept(s) /\ Idle(side[s])' /\ ~known'[s]
  <2> DEFINE x == [Blank EXCEPT !.lastClose = RestoredClose(s), !.cooling = s \in C]
             y == [x EXCEPT !.position = IF pe[s].status = "Open" THEN "Open" ELSE "none"]
  <2>1. side'[s] = y
    BY <1>2 DEF Boot, Refreshed
  <2>2. /\ x.pendingOpen = NoCid /\ x.pendingClose = NoCid /\ x.openCid = NoCid
        /\ x.armed = FALSE /\ x.openedAt = FALSE /\ x.cooling = FALSE /\ x \in SideState
    <3>1. (s \in C) = FALSE /\ RestoredClose(s) = "none"
      BY <1>2, <1>3
    <3>2. [Blank EXCEPT !.lastClose = "none", !.cooling = FALSE] \in SideState
      BY BlankTyped, SidesTyped
    <3> QED BY <3>1, <3>2 DEF Blank
  <2>3. pe[s].status # "Open"
    BY <1>1 DEF NoPosition
  <2> HIDE DEF x
  <2>4. Idle(y)
    BY <2>2, <2>3 DEF Idle, SideState
  <2> HIDE DEF y
  <2>5. Idle(side[s]) /\ ~known'[s]
    BY <1>1, <1>2, <1>5
  <2> QED BY <2>1, <2>4, <2>5 DEF Idle, SideKept, WatchKept
<1> QED
  BY <1>1, <1>5, <1>6

LEMMA RestSteps ==
  ASSUME ~Timeouts, ~Lossy, MaxRestarts = 0, TypeInv, Quiet, Untouched, pc # "stopped", [Next]_vars
  PROVE  \/ Calm
         \/ \E T \in SUBSET Sides, reason \in Reasons : SendsCloses(T, reason)
         \/ OnPositionClosed \/ OnOrderUnmatched
         \/ \E s \in Sides : \/ OnOpenFilled(s) \/ OnCloseFilled(s) \/ OnOrderEnded(s)
                             \/ DecideOpen(s) \/ CooldownOver(s)
         \/ Engine
<1>0. /\ TypeOK /\ side \in [Sides -> SideState] /\ known \in [Sides -> BOOLEAN] /\ restarts \in 0..0
      /\ posq \in Seq(PosEvent)
  BY DEF TypeInv, TypeOK
<1>1. ASSUME UNCHANGED <<side, books, sent, order, pe, applying, ordq, posq>> PROVE Calm
  BY <1>1 DEF Calm, SideKept, WatchKept, books
<1>2. ASSUME NEW C \in SUBSET Sides, Boot(C) PROVE Calm
  BY <1>2, BootIdle DEF Calm
<1>3. ASSUME NEW P \in SUBSET Sides, Begin(P) PROVE \E T \in SUBSET Sides, reason \in Reasons : SendsCloses(T, reason)
  <2> DEFINE timed == [s \in Sides |-> [side[s] EXCEPT !.openedAt = @ \/ Has(s)]]
  <2>1. \A s \in Sides : Idle(side[s]) /\ ~Has(s)
    BY <1>3 DEF Begin, Untouched, Has, Idle
  <2>2. timed \in [Sides -> SideState]
        /\ \A s \in Sides : /\ timed[s].armed = side[s].armed /\ timed[s].openedAt = side[s].openedAt
                            /\ timed[s].openCid = side[s].openCid /\ timed[s].cooling = side[s].cooling
                            /\ timed[s].pendingOpen = side[s].pendingOpen /\ timed[s].pendingClose = side[s].pendingClose
    <3>1. ASSUME NEW s \in Sides
          PROVE  /\ [side[s] EXCEPT !.openedAt = @ \/ Has(s)] \in SideState
                 /\ (side[s].openedAt \/ Has(s)) = side[s].openedAt
      <4>1. (side[s].openedAt \/ Has(s)) = FALSE
        BY <2>1 DEF Idle
      <4> QED BY <1>0, <2>1, <4>1, SidesTyped DEF Idle
    <3> QED BY <1>0, <3>1 DEF SideState
  <2>3. side' = WithClose(timed, P) /\ SendClose(P, "exit") /\ UNCHANGED <<books, pe, applying, posq, ordq>>
    BY <1>3 DEF Begin, engineVars
  <2>4. ~IsPending(side) /\ "exit" \in Reasons
    BY <2>1 DEF IsPending, PendingOn, Idle, Reasons
  <2>5. \A s \in Sides : /\ WatchKept(s)
                         /\ side'[s].pendingClose = IF s \in P THEN CloseId(s, P) ELSE side[s].pendingClose
    <3> HIDE DEF timed, CloseId
    <3> QED BY <1>0, <2>2, <2>3, WatchUnmoved
  <2> HIDE DEF CloseId
  <2> QED BY <2>3, <2>4, <2>5 DEF SendsCloses
<1>4. ~WaitOver /\ ~StopWorker /\ ~StartWorker /\ ~Lag
  BY <1>0 DEF WaitOver, StopWorker, StartWorker, Lag, Untouched
<1>5. CASE OnPositionUpdated \/ OnPositionOpened
  <2> DEFINE h == Head(posq).side
             st == Head(posq).status
  <2>1. /\ posq # <<>> /\ posq' = Tail(posq) /\ UNCHANGED <<books, sent, order, pe, applying, ordq>>
        /\ side' = side \/ side' = [side EXCEPT ![h] = [side[h] EXCEPT !.position = st]]
    BY <1>5 DEF OnPositionUpdated, OnPositionOpened, TakePosEvent, engineVars
  <2>2. h \in Sides
    <3>1. Head(posq) \in PosEvent
      BY <1>0, <2>1
    <3> QED BY <3>1 DEF PosEvent
  <2> HIDE DEF h, st
  <2>3. ASSUME NEW s \in Sides PROVE SideKept(s)
    BY <1>0, <2>1, <2>2 DEF SideKept, WatchKept, SideState
  <2> QED BY <2>1, <2>3 DEF Calm
<1>6. ASSUME NEW T \in SUBSET Sides, NEW X \in SUBSET Sides, NEW P \in SUBSET Sides, PriceTick(T, X, P)
      PROVE  \E U \in SUBSET Sides, reason \in Reasons : SendsCloses(U, reason)
  <2> DEFINE cleared == [s \in Sides |->
               IF s \in T THEN [side[s] EXCEPT !.pendingOpen = NoCid, !.pendingClose = NoCid] ELSE side[s]]
             due == IF X # {} THEN {s \in X : Has(s)} ELSE P
             reason == IF X # {} THEN "timeout" ELSE "exit"
  <2>1. T = {} /\ due # {}
    BY <1>6 DEF PriceTick
  <2>2. cleared = side
    BY <1>0, <2>1
  <2>3. /\ side' = WithClose(side, due) /\ SendClose(due, reason) /\ due \in SUBSET Sides
        /\ UNCHANGED <<books, pe, applying, posq, ordq>> /\ ~IsPending(side) /\ reason \in Reasons
    <3>1. X \cup P # {} => ~IsPending(side)
      BY <1>6, <2>2 DEF PriceTick
    <3>2. X \cup P # {}
      BY <2>1
    <3>3. side' = WithClose(cleared, due) /\ SendClose(due, reason) /\ due \in SUBSET Sides
          /\ UNCHANGED <<books, pe, applying, posq, ordq>>
      BY <1>6 DEF PriceTick, engineVars
    <3>4. reason \in Reasons
      BY DEF Reasons
    <3> HIDE DEF cleared, due, reason
    <3> QED BY <2>2, <3>1, <3>2, <3>3, <3>4
  <2> HIDE DEF due, reason, cleared
  <2>4. \A s \in Sides : /\ WatchKept(s)
                         /\ side'[s].pendingClose = IF s \in due THEN CloseId(s, due) ELSE side[s].pendingClose
    <3> HIDE DEF CloseId
    <3> QED BY <1>0, <2>3, WatchUnmoved
  <2> HIDE DEF CloseId
  <2> QED BY <2>3, <2>4 DEF SendsCloses
<1>7. CASE LlmAsk
  <2>1. \A s \in Sides : SideKept(s)
    BY <1>0, <1>7 DEF LlmAsk, Refreshed, SideState, SideKept, WatchKept
  <2> QED BY <1>7, <2>1 DEF LlmAsk, Calm, engineVars
<1>8. CASE DecideHold
  BY <1>1, <1>8 DEF DecideHold, engineVars
<1>9. CASE DecideClose
  <2> DEFINE held == {s \in Sides : Has(s)}
  <2>1. side' = WithClose(side, held) /\ SendClose(held, "llm") /\ UNCHANGED <<books, pe, applying, posq, ordq>>
        /\ held \in SUBSET Sides
    BY <1>9 DEF DecideClose, engineVars
  <2>2. ~IsPending(side) /\ "llm" \in Reasons
    BY <1>9 DEF DecideClose, Quiet, Early, Reasons
  <2> HIDE DEF held, CloseId
  <2>3. \A s \in Sides : /\ WatchKept(s)
                         /\ side'[s].pendingClose = IF s \in held THEN CloseId(s, held) ELSE side[s].pendingClose
    BY <1>0, <2>1, WatchUnmoved
  <2> QED BY <2>1, <2>2, <2>3 DEF SendsCloses
<1>10. CASE UNCHANGED vars
  BY <1>1, <1>10 DEF vars, books
<1> QED
  BY <1>2, <1>3, <1>4, <1>5, <1>6, <1>7, <1>8, <1>9, <1>10
     DEF Next, Recovery, Events, Tick, Decision, Cooldown

\* Nothing happens before the first decision.
LEMMA StepUntouched ==
  ASSUME TypeInv, Bookkeeping, Named, Untouched, [Next]_vars, pc # "stopped"
  PROVE  Untouched' \/ pc' = "stopped"
<1>0. /\ sent \in Nat /\ order \in [Cids -> Order] /\ cmds \in Seq(Cids) /\ side \in [Sides -> SideState]
      /\ applying # NoTrade => applying.cid \in Cids
  BY Typed
<1>1. SUFFICES ASSUME pc' \in {"price", "wait", "begin", "ask"}
               PROVE  Untouched'
  BY DEF Untouched
<1>2. ASSUME pc \in {"price", "begin", "ask"}, Engine PROVE FALSE
  <2>1. sent = 0
    BY <1>2 DEF Untouched
  <2>2. \A c \in Cids : order[c].st = "none"
    BY <2>1 DEF Bookkeeping, Cids
  <2>3. cmds = <<>>
    <3>1. ASSUME cmds # <<>> PROVE FALSE
      <4>1. 1 \in DOMAIN cmds /\ cmds[1] \in Cids
        BY <1>0, <3>1
      <4> QED BY <2>2, <4>1 DEF Bookkeeping
    <3> QED BY <3>1
  <2>4. applying = NoTrade
    BY <1>0, <2>1 DEF Named, Cids
  <2> QED BY <1>2, <2>2, <2>3, <2>4 DEF Engine, PeOpen, PeClose, PeApply, PeTrade, PeEnd
<1>3. ASSUME UNCHANGED <<side, known, record, closes, sent, pe, pc>> PROVE Untouched'
  BY <1>3 DEF Untouched, OpenRecords
<1>4. ASSUME NEW C \in SUBSET Sides, Boot(C) PROVE Untouched'
  BY <1>4, BootIdle DEF Untouched, OpenRecords, books
<1>5. ASSUME NEW P \in SUBSET Sides, Begin(P) PROVE Untouched'
  <2>1. /\ pc = "begin" /\ OpenRecords = {} /\ closes = <<>> /\ sent = 0
        /\ \A s \in Sides : pe[s] = NoPosition /\ ~known[s] /\ Idle(side[s])
    BY <1>5 DEF Begin, Untouched
  <2>2. pc' = "ask" /\ P = {}
    BY <1>1, <1>5 DEF Begin
  <2>3. sent' = 0 /\ UNCHANGED <<record, closes, pe, known>>
    <3>1. Cardinality({}) = 0
      BY FS_EmptySet
    <3> QED BY <1>5, <2>1, <2>2, <3>1 DEF Begin, SendClose, books, engineVars
  <2>4. ASSUME NEW s \in Sides PROVE Idle(side[s])'
    <3>1. (side[s].openedAt \/ Has(s)) = FALSE
      BY <2>1 DEF Has, Idle
    <3>2. side'[s] = [side[s] EXCEPT !.openedAt = @ \/ Has(s)]
      BY <1>5, <2>2 DEF Begin, WithClose
    <3> QED BY <1>0, <2>1, <3>1, <3>2 DEF Idle, SideState
  <2> QED BY <2>1, <2>2, <2>3, <2>4 DEF Untouched, OpenRecords
<1>6. ASSUME pc \in {"price", "begin", "ask"}, NEW s \in Sides, CooldownOver(s) PROVE FALSE
  BY <1>6 DEF CooldownOver, Untouched, Idle
<1>7. pc # "wait"
  BY DEF Untouched
<1>8. ASSUME pc' = pc PROVE pc \in {"price", "begin", "ask"}
  BY <1>1, <1>7, <1>8
<1>9. ~(WaitOver \/ StopWorker \/ StartWorker)
  BY <1>1, <1>7 DEF WaitOver, StopWorker, StartWorker
<1>10. ~Events
  BY <1>7, <1>8 DEF Events, OnPositionUpdated, OnPositionOpened, OnPositionClosed, TakePosEvent, OnOrderUnmatched,
                    OnOpenFilled, OnCloseFilled, OnOrderEnded, TakeOrdEvent
<1>11. ~Tick /\ ~LlmAsk /\ ~Decision
  BY ZenonT(30), <1>1, <1>8 DEF Tick, PriceTick, LlmAsk, Decision, DecideHold, DecideClose, DecideOpen
<1>12. CASE Lag \/ UNCHANGED vars
  BY <1>3, <1>12 DEF Lag, workerVars, engineVars, books, vars
<1>13. CASE Engine
  <2>1. pc' = pc
    BY <1>13, EngineMoves
  <2> QED BY <1>2, <1>8, <1>13, <2>1
<1>14. ASSUME NEW s \in Sides, CooldownOver(s) PROVE FALSE
  <2>1. pc' = pc
    BY <1>14 DEF CooldownOver
  <2> QED BY <1>6, <1>8, <1>14, <2>1
<1> QED
  BY <1>4, <1>5, <1>9, <1>10, <1>11, <1>12, <1>13, <1>14 DEF Next, Recovery, Cooldown

-----------------------------------------------------------------------------
(* What is pending *)

OpensNamed ==
  \A s \in Sides : side[s].pendingOpen # NoCid =>
    /\ side[s].pendingOpen <= sent
    /\ order[side[s].pendingOpen].kind = "open" /\ order[side[s].pendingOpen].side = s

\* A close that may still fill is pending, and the end of a pending order is on its way.
ClosesKnown ==
  \A c \in Cids : order[c].kind = "close" /\ order[c].st \in UnderWay => side[order[c].side].pendingClose = c
Coming(c) == \E i \in DOMAIN ordq : ordq[i].cid = c
ToHear ==
  \A s \in Sides :
    /\ side[s].pendingOpen # NoCid /\ order[side[s].pendingOpen].st \in Ended => Coming(side[s].pendingOpen)
    /\ side[s].pendingClose # NoCid /\ order[side[s].pendingClose].st \in Ended => Coming(side[s].pendingClose)
Pendings == OpensNamed /\ ClosesKnown /\ ToHear

PendingsKept == \A s \in Sides : /\ side'[s].pendingOpen = side[s].pendingOpen
                                 /\ side'[s].pendingClose = side[s].pendingClose

LEMMA PendingsStay ==
  ASSUME TypeInv, Pendings, UNCHANGED <<sent, order, ordq>>, PendingsKept
  PROVE  Pendings'
<1>1. \A c \in Cids : order[c].side \in Sides
  BY Typed
<1>2. OpensNamed' /\ ClosesKnown'
  BY <1>1 DEF Pendings, OpensNamed, ClosesKnown, PendingsKept
<1>3. ToHear'
  BY DEF Pendings, ToHear, Coming, PendingsKept
<1> QED
  BY <1>2, <1>3 DEF Pendings

\* An order event is heard: the order it names is not pending any more, all others are.
LEMMA EndHeard ==
  ASSUME TypeInv, Bookkeeping, Pendings, UNCHANGED <<sent, order>>, ordq # <<>>, ordq' = Tail(ordq),
         NEW h, h = Head(ordq).cid,
         \A s \in Sides : /\ side'[s].pendingOpen = IF side[s].pendingOpen = h THEN NoCid ELSE side[s].pendingOpen
                          /\ side'[s].pendingClose = IF side[s].pendingClose = h THEN NoCid ELSE side[s].pendingClose
  PROVE  Pendings'
<1> DEFINE n == Len(ordq)
<1>0. ordq \in Seq(OrdEvent) /\ \A c \in Cids : order[c].side \in Sides
  BY Typed
<1>1. n \in Nat /\ n > 0 /\ DOMAIN ordq = 1..n /\ DOMAIN ordq' = 1..(n - 1) /\ h = ordq[1].cid
  BY <1>0
<1>2. \A i \in 1..(n - 1) : ordq'[i] = ordq[i + 1] /\ i + 1 \in 1..n
  BY <1>0, <1>1, TailShifts
<1>3. \A j \in 2..n : j - 1 \in 1..(n - 1) /\ ordq[j] = ordq'[j - 1]
  <2>1. ASSUME NEW j \in 2..n PROVE j - 1 \in 1..(n - 1) /\ (j - 1) + 1 = j
    BY <1>1
  <2> QED BY <1>2, <2>1
<1> HIDE DEF n
<1>4. ASSUME NEW c, c # h, Coming(c) PROVE Coming(c)'
  <2>1. PICK j \in 1..n : ordq[j].cid = c
    BY <1>1, <1>4 DEF Coming
  <2>2. j \in 2..n
    BY <1>1, <1>4, <2>1
  <2> QED BY <1>1, <1>3, <2>1, <2>2 DEF Coming
<1>5. h \in Cids /\ order[h].st \in Ended
  <2>1. 1 \in DOMAIN ordq
    BY <1>1
  <2> QED BY <1>1, <2>1, EventEnded
<1>6. OpensNamed'
  BY DEF Pendings, OpensNamed
<1>7. ClosesKnown'
  <2>1. ASSUME NEW c \in Cids, order[c].kind = "close", order[c].st \in UnderWay
        PROVE  side'[order[c].side].pendingClose = c
    <3>1. side[order[c].side].pendingClose = c /\ c # h
      BY <1>5, <2>1 DEF Pendings, ClosesKnown, UnderWay, Ended
    <3> QED BY <1>0, <3>1
  <2> QED BY <2>1 DEF ClosesKnown
<1>8. ToHear'
  <2>1. ASSUME NEW s \in Sides, NEW c, c # NoCid, order[c].st \in Ended,
               c = side'[s].pendingOpen \/ c = side'[s].pendingClose
        PROVE  Coming(c)'
    <3>1. c # h /\ (c = side[s].pendingOpen \/ c = side[s].pendingClose)
      BY <2>1
    <3>2. Coming(c)
      BY <2>1, <3>1 DEF Pendings, ToHear
    <3> QED BY <1>4, <3>1, <3>2
  <2>2. ASSUME NEW s \in Sides, side'[s].pendingOpen # NoCid, order[side'[s].pendingOpen].st \in Ended
        PROVE  \E i \in DOMAIN ordq' : ordq'[i].cid = side'[s].pendingOpen
    <3>1. PICK c : c = side'[s].pendingOpen
      OBVIOUS
    <3> QED BY <2>1, <2>2, <3>1 DEF Coming
  <2>3. ASSUME NEW s \in Sides, side'[s].pendingClose # NoCid, order[side'[s].pendingClose].st \in Ended
        PROVE  \E i \in DOMAIN ordq' : ordq'[i].cid = side'[s].pendingClose
    <3>1. PICK c : c = side'[s].pendingClose
      OBVIOUS
    <3> QED BY <2>1, <2>3, <3>1 DEF Coming
  <2> QED BY <2>2, <2>3 DEF ToHear, Coming
<1> QED
  BY <1>6, <1>7, <1>8 DEF Pendings

\* What the engine does to orders: it ends them, and says so.
LEMMA EngineEnds ==
  ASSUME TypeInv, Bookkeeping, Engine, pc # "stopped"
  PROVE  /\ \A c \in Cids : order'[c].st \in UnderWay => order[c].st \in UnderWay
         /\ \A c : Coming(c) => Coming(c)'
         /\ \A c \in Cids : order'[c].st \in Ended => order[c].st \in Ended \/ Coming(c)'
<1> DEFINE P == /\ \A c \in Cids : order'[c].st \in UnderWay => order[c].st \in UnderWay
                /\ \A c : Coming(c) => Coming(c)'
                /\ \A c \in Cids : order'[c].st \in Ended => order[c].st \in Ended \/ Coming(c)'
<1>0. order \in [Cids -> Order] /\ cmds \in Seq(Cids) /\ ordq \in Seq(OrdEvent)
  BY Typed
<1>1. ASSUME NEW p, NEW o \in Seq(OrdEvent), Tell(p, o)
      PROVE  /\ \A c : Coming(c) => Coming(c)'
             /\ \A c : (\E i \in DOMAIN o : o[i].cid = c) => Coming(c)'
  <2>1. ordq' = ordq \o o
    BY <1>1 DEF Tell
  <2>2. \A i \in DOMAIN ordq : i \in DOMAIN ordq' /\ ordq'[i] = ordq[i]
    BY <1>0, <2>1
  <2>3. \A i \in DOMAIN o : Len(ordq) + i \in DOMAIN ordq' /\ ordq'[Len(ordq) + i] = o[i]
    BY <1>0, <2>1
  <2> QED BY <2>2, <2>3 DEF Coming
<1>2. ASSUME NEW c \in Cids, NEW type \in {"Filled", "Failed", "Canceled"}
      PROVE  OrderEvent(type, c) \in Seq(OrdEvent) /\ \E i \in DOMAIN OrderEvent(type, c) : OrderEvent(type, c)[i].cid = c
  <2> DEFINE e == [type |-> type, cid |-> c]
  <2>1. OrderEvent(type, c) = <<e>> /\ e \in OrdEvent /\ e.cid = c
    BY DEF OrderEvent, OrdEvent
  <2> HIDE DEF e
  <2> QED BY <2>1
<1>3. <<>> \in Seq(OrdEvent)
  OBVIOUS
<1>4. ASSUME NEW c \in Cids, order[c].st \in UnderWay, \A d \in Cids : d # c => order'[d] = order[d],
             \A d : Coming(d) => Coming(d)', order'[c].st \in UnderWay \/ Coming(c)'
      PROVE  P
  BY <1>4 DEF UnderWay, Ended
<1>5. ASSUME cmds # <<>> PROVE Head(cmds) \in Cids /\ order[Head(cmds)].st \in UnderWay
  <2>1. 1 \in DOMAIN cmds /\ cmds[1] = Head(cmds) /\ Head(cmds) \in Cids
    BY <1>0, <1>5
  <2> QED BY <2>1 DEF Bookkeeping, UnderWay
<1>6. ASSUME UNCHANGED order, NEW p, Tell(p, <<>>) PROVE P
  <2>1. \A c : Coming(c) => Coming(c)'
    BY <1>1, <1>3, <1>6
  <2> QED BY <1>6, <2>1
<1>7. ASSUME PeOpen \/ PeClose PROVE P
  <2>1. PICK c \in Cids : c = Head(cmds) /\ order[c].st \in UnderWay
    BY <1>5, <1>7 DEF PeOpen, PeClose
  <2>2. \A d \in Cids : d # c => order'[d] = order[d]
    BY <1>0, <1>7, <2>1 DEF PeOpen, PeClose, Accepted, Refused
  <2>3. \/ (\E p : Tell(p, <<>>)) /\ order'[c].st = "live"
        \/ (\E p : Tell(p, OrderEvent("Failed", c)))
        \/ ordq' = ordq /\ order'[c].st = "live"
    <3>1. order' = [order EXCEPT ![c].st = "live"] => order'[c].st = "live"
      BY <1>0 DEF Order
    <3>2. order' = [order EXCEPT ![c].st = "live", ![c].left = pe[order[c].side].qty] => order'[c].st = "live"
      BY <1>0 DEF Order
    <3> QED BY <1>7, <2>1, <3>1, <3>2 DEF PeOpen, PeClose, Accepted
  <2>4. CASE (\E p : Tell(p, <<>>)) /\ order'[c].st = "live"
    <3>1. \A d : Coming(d) => Coming(d)'
      BY <1>1, <1>3, <2>4
    <3> QED BY <1>4, <2>1, <2>2, <2>4, <3>1 DEF UnderWay
  <2>5. CASE \E p : Tell(p, OrderEvent("Failed", c))
    <3>1. (\A d : Coming(d) => Coming(d)') /\ Coming(c)'
      BY <1>1, <1>2, <2>5
    <3> QED BY <1>4, <2>1, <2>2, <3>1
  <2>6. CASE ordq' = ordq /\ order'[c].st = "live"
    <3>1. \A d : Coming(d) => Coming(d)'
      BY <2>6 DEF Coming
    <3> QED BY <1>4, <2>1, <2>2, <2>6, <3>1 DEF UnderWay
  <2> QED BY <2>3, <2>4, <2>5, <2>6
<1>8. ASSUME NEW c \in Cids, NEW q \in 1..(Amount * MaxOrders), PeTrade(c, q) PROVE P
  <2>1. /\ order[c].st = "live" /\ \A d \in Cids : d # c => order'[d] = order[d]
        /\ Tell(<<>>, IF q = order[c].left THEN OrderEvent("Filled", c) ELSE <<>>)
    BY <1>0, <1>8 DEF PeTrade
  <2>2. CASE q = order[c].left
    <3>1. (\A d : Coming(d) => Coming(d)') /\ Coming(c)'
      BY <1>1, <1>2, <2>1, <2>2
    <3> QED BY <1>4, <2>1, <3>1 DEF UnderWay
  <2>3. CASE q # order[c].left
    <3>1. \A d : Coming(d) => Coming(d)'
      BY <1>1, <1>3, <2>1, <2>3
    <3>2. order'[c].st = "live"
      BY <1>0, <1>8, <2>3 DEF PeTrade, Order
    <3> QED BY <1>4, <2>1, <3>1, <3>2 DEF UnderWay
  <2> QED BY <2>2, <2>3
<1>9. ASSUME PeApply PROVE P
  <2>1. order' = order /\ ((\E p : Tell(p, <<>>)) \/ ordq' = ordq)
    BY <1>9 DEF PeApply
  <2> QED BY <1>6, <2>1 DEF Coming
<1>10. ASSUME NEW c \in Cids, NEW how \in {"failed", "canceled"}, PeEnd(c, how) PROVE P
  <2>1. /\ order[c].st = "live" /\ \A d \in Cids : d # c => order'[d] = order[d]
        /\ \E p : Tell(p, OrderEvent(IF how = "failed" THEN "Failed" ELSE "Canceled", c))
    BY <1>0, <1>10 DEF PeEnd
  <2>2. (\A d : Coming(d) => Coming(d)') /\ Coming(c)'
    BY <1>1, <1>2, <2>1
  <2> QED BY <1>4, <2>1, <2>2 DEF UnderWay
<1> HIDE DEF P
<1>11. P
  <2>1. \A c \in Cids : \A q \in 1..(Amount * MaxOrders) : PeTrade(c, q) => P
    BY <1>8
  <2>2. \A c \in Cids : \A how \in {"failed", "canceled"} : PeEnd(c, how) => P
    BY <1>10
  <2> QED BY <1>7, <1>9, <2>1, <2>2 DEF Engine
<1> QED
  BY <1>11 DEF P

\* A pending order is one of its kind and side, so an order is pending in one place.
LEMMA PendingNamed ==
  ASSUME TypeInv, Named, OpensNamed, NEW t \in Sides, NEW h \in Cids
  PROVE  /\ side[t].pendingOpen = h => order[h].kind = "open" /\ order[h].side = t
         /\ side[t].pendingClose = h => order[h].kind = "close" /\ order[h].side = t
<1>1. h # NoCid
  BY Typed
<1> QED
  BY <1>1 DEF Named, ClosesNamed, OpensNamed

\* The handlers of order events take the pending order away that the event names.
LEMMA EndTaken ==
  ASSUME TypeInv, Bookkeeping, Named, OpensNamed, NEW u \in Sides, OnOpenFilled(u) \/ OnCloseFilled(u) \/ OnOrderEnded(u)
  PROVE  LET h == Head(ordq).cid IN
         /\ h \in Cids /\ order[h].side = u /\ UNCHANGED <<sent, order, pe, applying, posq>>
         /\ ordq # <<>> /\ ordq' = Tail(ordq)
         /\ \A s \in Sides : /\ side'[s].pendingOpen = IF side[s].pendingOpen = h THEN NoCid ELSE side[s].pendingOpen
                             /\ side'[s].pendingClose = IF side[s].pendingClose = h THEN NoCid ELSE side[s].pendingClose
         /\ \A s \in Sides : s # u => side'[s] = side[s]
         /\ IF OnOrderEnded(u) THEN order[h].st \in {"failed", "canceled"} ELSE order[h].st = "filled"
<1> DEFINE h == Head(ordq).cid
<1>0. /\ side \in [Sides -> SideState] /\ ordq # <<>> /\ ordq' = Tail(ordq) /\ UNCHANGED <<sent, order, pe, applying, posq>>
      /\ Head(ordq).type \in (IF OnOrderEnded(u) THEN {"Failed", "Canceled"} ELSE {"Filled"})
  BY Typed DEF OnOpenFilled, OnCloseFilled, OnOrderEnded, TakeOrdEvent, engineVars
<1>1. h \in Cids /\ order[h].st = EndTold(Head(ordq))
  <2>1. 1 \in DOMAIN ordq /\ Head(ordq) = ordq[1]
    BY <1>0, Typed
  <2> QED BY <2>1, EventEnded
<1>2. h # NoCid
  BY <1>1, Typed
<1> HIDE DEF h
<1>3. \A s \in Sides : s # u => side'[s] = side[s]
  BY <1>0 DEF OnOpenFilled, OnCloseFilled, OnOrderEnded
<1>4. /\ side'[u].pendingOpen = IF side[u].pendingOpen = h THEN NoCid ELSE side[u].pendingOpen
      /\ side'[u].pendingClose = IF side[u].pendingClose = h THEN NoCid ELSE side[u].pendingClose
      /\ side[u].pendingOpen = h \/ side[u].pendingClose = h
  <2>1. CASE OnOpenFilled(u)
    <3>1. side[u].pendingOpen = h /\ order[h].kind = "open"
      BY <1>1, <2>1, PendingNamed DEF OnOpenFilled, h
    <3>2. side[u].pendingClose # h
      BY <1>1, <3>1, PendingNamed
    <3>3. side'[u] = [side[u] EXCEPT !.pendingOpen = NoCid, !.armed = TRUE, !.openedAt = TRUE, !.openFee = TRUE, !.openCid = h]
      BY <1>0, <2>1 DEF OnOpenFilled, h
    <3> QED BY <1>0, <3>1, <3>2, <3>3 DEF SideState
  <2>2. CASE OnCloseFilled(u)
    <3>1. side[u].pendingClose = h /\ order[h].kind = "close"
      BY <1>1, <2>2, PendingNamed DEF OnCloseFilled, h
    <3>2. side[u].pendingOpen # h
      BY <1>1, <3>1, PendingNamed
    <3>3. side'[u] = [ClearOnClose(side[u], order[h].reason) EXCEPT !.pendingClose = NoCid]
      BY <1>0, <2>2 DEF OnCloseFilled, h
    <3>4. side'[u].pendingOpen = side[u].pendingOpen /\ side'[u].pendingClose = NoCid
      BY <1>0, <3>3 DEF ClearOnClose, ClearPosition, SideState
    <3> QED BY <3>1, <3>2, <3>4
  <2>3. CASE OnOrderEnded(u)
    <3>1. side[u].pendingOpen = h \/ side[u].pendingClose = h
      BY <2>3 DEF OnOrderEnded, h
    <3>2. side'[u] = [side[u] EXCEPT !.pendingOpen = IF @ = h THEN NoCid ELSE @, !.pendingClose = IF @ = h THEN NoCid ELSE @]
      BY <1>0, <2>3 DEF OnOrderEnded, h
    <3> QED BY <1>0, <3>1, <3>2 DEF SideState
  <2> QED BY <2>1, <2>2, <2>3
<1>5. order[h].side = u
  BY <1>1, <1>4, PendingNamed
<1>6. ASSUME NEW s \in Sides, s # u PROVE side[s].pendingOpen # h /\ side[s].pendingClose # h
  BY <1>1, <1>5, <1>6, PendingNamed
<1>7. \A s \in Sides : /\ side'[s].pendingOpen = IF side[s].pendingOpen = h THEN NoCid ELSE side[s].pendingOpen
                       /\ side'[s].pendingClose = IF side[s].pendingClose = h THEN NoCid ELSE side[s].pendingClose
  BY <1>3, <1>4, <1>6
<1>8. IF OnOrderEnded(u) THEN order[h].st \in {"failed", "canceled"} ELSE order[h].st = "filled"
  BY <1>0, <1>1 DEF EndTold
<1> QED
  BY <1>0, <1>1, <1>3, <1>5, <1>7, <1>8 DEF h

\* What is pending is what may still fill or whose end is on its way, at every step of a
\* worker that forgets no order and misses no event.
LEMMA StepPendings ==
  ASSUME ~Timeouts, ~Lossy, MaxRestarts = 0, FlightInv, Bookkeeping, Named, Untouched, Pendings, pc # "stopped",
         [Next]_vars
  PROVE  Pendings'
<1>0. /\ TypeInv /\ OneInFlight /\ Quiet /\ order \in [Cids -> Order] /\ side \in [Sides -> SideState] /\ sent \in Nat
      /\ OpensNamed /\ \A c \in Cids : order[c].side \in Sides
  BY Typed DEF FlightInv, Pendings
<1>1. ASSUME UNCHANGED <<sent, order, ordq>>, PendingsKept PROVE Pendings'
  BY <1>0, <1>1, PendingsStay
<1>2. CASE Calm
  BY <1>1, <1>2 DEF Calm, SideKept, WatchKept, PendingsKept
<1>3. ASSUME NEW T \in SUBSET Sides, NEW reason \in Reasons, SendsCloses(T, reason) PROVE Pendings'
  <2>1. \A s \in Sides : side[s].pendingOpen = NoCid /\ side[s].pendingClose = NoCid /\ side'[s].pendingOpen = NoCid
    BY <1>3 DEF SendsCloses, IsPending, PendingOn, WatchKept
  <2>2. \A s \in Sides : side'[s].pendingClose = IF s \in T THEN CloseId(s, T) ELSE NoCid
    BY <1>3, <2>1 DEF SendsCloses
  <2>3. ASSUME NEW c \in Cids, order[c].kind = "close", order[c].st \in UnderWay PROVE FALSE
    <3>1. c # NoCid
      BY <1>0, Typed
    <3> QED BY <1>0, <2>1, <2>3, <3>1 DEF Pendings, ClosesKnown
  <2>4. ASSUME NEW c \in Cids, ~\E s \in T : c = CloseId(s, T) PROVE order'[c] = order[c]
    BY <1>3, <2>4 DEF SendsCloses, SendClose
  <2>5. \A s \in T : LET d == CloseId(s, T) IN d \in Cids /\ order'[d].kind = "close" /\ order'[d].st = "queued" /\ order'[d].side = s
    BY <1>0, <1>3, ClosesSent DEF SendsCloses
  <2> HIDE DEF CloseId
  <2>6. ASSUME NEW c \in Cids, order'[c].kind = "close", order'[c].st \in UnderWay
        PROVE  side'[order'[c].side].pendingClose = c
    <3>1. PICK s \in T : c = CloseId(s, T)
      BY <2>3, <2>4, <2>6
    <3> QED BY <2>2, <2>5, <3>1
  <2>7. ASSUME NEW s \in Sides, side'[s].pendingClose # NoCid PROVE order'[side'[s].pendingClose].st \notin Ended
    BY <2>2, <2>5, <2>7 DEF Ended
  <2>8. OpensNamed' /\ ClosesKnown'
    BY <2>1, <2>6 DEF OpensNamed, ClosesKnown
  <2>9. ToHear'
    BY <2>1, <2>7 DEF ToHear
  <2> QED BY <2>8, <2>9 DEF Pendings
<1>4. CASE OnPositionClosed
  <2>1. UNCHANGED <<sent, order, ordq>>
    BY <1>4 DEF OnPositionClosed, TakePosEvent
  <2>2. PendingsKept
    BY <1>0, <1>4, PositionEventsKeep DEF PendingsKept, TypeInv
  <2> QED BY <1>1, <2>1, <2>2
<1>5. CASE OnOrderUnmatched
  <2>1. /\ UNCHANGED <<sent, order, side>> /\ ordq # <<>> /\ ordq' = Tail(ordq)
        /\ \A s \in Sides : side[s].pendingOpen # Head(ordq).cid /\ side[s].pendingClose # Head(ordq).cid
    BY <1>5 DEF OnOrderUnmatched, TakeOrdEvent
  <2>2. PICK h : h = Head(ordq).cid
    OBVIOUS
  <2> QED BY <1>0, <2>1, <2>2, EndHeard
<1>6. ASSUME NEW u \in Sides, OnOpenFilled(u) \/ OnCloseFilled(u) \/ OnOrderEnded(u) PROVE Pendings'
  <2>1. PICK h : h = Head(ordq).cid
    OBVIOUS
  <2>2. /\ UNCHANGED <<sent, order>> /\ ordq # <<>> /\ ordq' = Tail(ordq)
        /\ \A s \in Sides : /\ side'[s].pendingOpen = IF side[s].pendingOpen = h THEN NoCid ELSE side[s].pendingOpen
                            /\ side'[s].pendingClose = IF side[s].pendingClose = h THEN NoCid ELSE side[s].pendingClose
    BY <1>0, <1>6, <2>1, EndTaken
  <2> QED BY <1>0, <2>1, <2>2, EndHeard
<1>7. ASSUME NEW u \in Sides, DecideOpen(u) PROVE Pendings'
  <2>1. \A s \in Sides : side[s].pendingOpen = NoCid /\ side[s].pendingClose = NoCid
    BY <1>0, <1>7 DEF DecideOpen, Quiet, Early, IsPending, PendingOn
  <2>2. /\ sent' = sent + 1 /\ sent' \in Cids /\ sent' # NoCid
        /\ \A c \in Cids : c # sent' => order'[c] = order[c]
        /\ order'[sent'].kind = "open" /\ order'[sent'].side = u /\ order'[sent'].st = "queued"
    <3>1. sent' = sent + 1 /\ sent' \in Cids
      BY <1>0, <1>7, BoundsAssumption DEF DecideOpen, Cids
    <3> QED BY <1>0, <1>7, <3>1 DEF DecideOpen, Order, NoCid
  <2>3. /\ side'[u].pendingOpen = sent' /\ side'[u].pendingClose = NoCid
        /\ \A s \in Sides : s # u => side'[s] = side[s]
    BY <1>0, <1>7, <2>1 DEF DecideOpen, SideState
  <2>4. OpensNamed'
    BY <1>0, <2>1, <2>2, <2>3 DEF OpensNamed
  <2>5. ClosesKnown'
    <3>1. ASSUME NEW c \in Cids, order'[c].kind = "close", order'[c].st \in UnderWay PROVE FALSE
      <4>1. order[c].kind = "close" /\ order[c].st \in UnderWay /\ c # NoCid
        BY <2>2, <3>1, Typed, <1>0
      <4> QED BY <1>0, <2>1, <4>1 DEF Pendings, ClosesKnown
    <3> QED BY <3>1 DEF ClosesKnown
  <2>6. ToHear'
    <3>1. "queued" \notin Ended
      BY DEF Ended
    <3> QED BY <2>1, <2>2, <2>3, <3>1 DEF ToHear
  <2> QED BY <2>4, <2>5, <2>6 DEF Pendings
<1>8. ASSUME NEW u \in Sides, CooldownOver(u) PROVE Pendings'
  <2>1. PendingsKept
    BY <1>0, <1>8 DEF CooldownOver, PendingsKept, SideState
  <2> QED BY <1>1, <1>8, <2>1 DEF CooldownOver
<1>9. CASE Engine
  <2>1. UNCHANGED <<sent, side>> /\ \A c \in Cids : order'[c].kind = order[c].kind /\ order'[c].side = order[c].side
    BY <1>0, <1>9, EngineMoves DEF OrderStays
  <2>2. /\ \A c \in Cids : order'[c].st \in UnderWay => order[c].st \in UnderWay
        /\ \A c : Coming(c) => Coming(c)'
        /\ \A c \in Cids : order'[c].st \in Ended => order[c].st \in Ended \/ Coming(c)'
    BY <1>0, <1>9, EngineEnds
  <2>3. \A s \in Sides : side[s].pendingOpen \in Cids \cup {NoCid} /\ side[s].pendingClose \in Cids \cup {NoCid}
    BY <1>0 DEF SideState
  <2>4. OpensNamed'
    BY <1>0, <2>1, <2>3 DEF OpensNamed
  <2>5. ClosesKnown'
    BY <1>0, <2>1, <2>2 DEF Pendings, ClosesKnown
  <2>6. ASSUME NEW s \in Sides, NEW c \in Cids, c = side[s].pendingOpen \/ c = side[s].pendingClose, order'[c].st \in Ended
        PROVE  Coming(c)'
    <3>1. CASE order[c].st \in Ended
      <4>1. c # NoCid
        BY <1>0, Typed
      <4>2. Coming(c)
        BY <2>6, <3>1, <4>1 DEF Pendings, ToHear
      <4> QED BY <2>2, <4>2
    <3> QED BY <2>2, <2>6, <3>1
  <2>7. ToHear'
    <3>1. ASSUME NEW s \in Sides, side'[s].pendingOpen # NoCid, order'[side'[s].pendingOpen].st \in Ended
          PROVE  \E i \in DOMAIN ordq' : ordq'[i].cid = side'[s].pendingOpen
      <4>1. PICK c \in Cids : c = side[s].pendingOpen
        BY <2>1, <2>3, <3>1
      <4> QED BY <2>1, <2>6, <3>1, <4>1 DEF Coming
    <3>2. ASSUME NEW s \in Sides, side'[s].pendingClose # NoCid, order'[side'[s].pendingClose].st \in Ended
          PROVE  \E i \in DOMAIN ordq' : ordq'[i].cid = side'[s].pendingClose
      <4>1. PICK c \in Cids : c = side[s].pendingClose
        BY <2>1, <2>3, <3>2
      <4> QED BY <2>1, <2>6, <3>2, <4>1 DEF Coming
    <3> QED BY <3>1, <3>2 DEF ToHear, Coming
  <2> QED BY <2>4, <2>5, <2>7 DEF Pendings
<1>10. Quiet /\ pc # "stopped"
  BY <1>0
<1> QED
  BY <1>0, <1>2, <1>3, <1>4, <1>5, <1>6, <1>7, <1>8, <1>9, RestSteps

-----------------------------------------------------------------------------
(* The watch of a position: stop-loss, take-profit and holding time *)

Filled(s) == side[s].pendingClose # NoCid /\ order[side[s].pendingClose].st = "filled"
FilledOpen(s) == side[s].pendingOpen # NoCid /\ order[side[s].pendingOpen].st = "filled"
OpenOn(s) == On(s) /\ order[applying.cid].kind = "open"
CloseOn(s) == On(s) /\ order[applying.cid].kind # "open"
Holding(s) == pe[s].status \in {"Open", "Closing"}
ClosedTold(s) == \E i \in DOMAIN posq : posq[i].side = s /\ posq[i].type = "Closed"
LiveClose(s) == \E c \in Cids : order[c].kind = "close" /\ order[c].side = s /\ order[c].st = "live"

\* A close works on the one unit of its position.
CloseOfOne == \A c \in Cids : order[c].kind = "close" /\ order[c].st = "live" => order[c].left = 1

\* A position is watched from the fill of its opening to that of its close, whichever of the
\* events of the two queues comes first.
Watch(s) ==
  /\ side[s].openedAt = side[s].armed /\ (side[s].armed <=> side[s].openCid # NoCid)
  /\ Holding(s) => side[s].armed \/ FilledOpen(s) \/ On(s)
  /\ side[s].armed \/ FilledOpen(s) => Holding(s) \/ On(s) \/ Filled(s)
  /\ OpenOn(s) => FilledOpen(s) \/ side[s].armed
  /\ CloseOn(s) => Filled(s) \/ side[s].cooling
  /\ ClosedTold(s) => (side[s].cooling \/ Filled(s)) /\ pe[s].status = "none" /\ ~On(s) /\ ~Opening(s)
  /\ pe[s].status = "Closing" => On(s) \/ LiveClose(s)
  /\ side[s].cooling => side[s].pendingOpen = NoCid
  /\ side[s].cooling \/ side[s].pendingOpen # NoCid => ~side[s].armed
Watched == CloseOfOne /\ \A s \in Sides : Watch(s)

\* What is watched, and what the watch is about, stays.
OrdersKept(s) ==
  /\ Filled(s)' <=> Filled(s)
  /\ FilledOpen(s)' <=> FilledOpen(s)
TradeKept(s) ==
  /\ OpenOn(s)' <=> OpenOn(s)
  /\ CloseOn(s)' <=> CloseOn(s)
TimerKept(s) ==
  /\ side'[s].armed = side[s].armed /\ side'[s].openedAt = side[s].openedAt
  /\ side'[s].openCid = side[s].openCid /\ side'[s].cooling = side[s].cooling
  /\ side'[s].pendingOpen \in {side[s].pendingOpen, NoCid}
ViewKept(s) ==
  /\ TimerKept(s) /\ OrdersKept(s) /\ TradeKept(s)
  /\ pe'[s].status = pe[s].status
  /\ ClosedTold(s)' => ClosedTold(s)
  /\ Opening(s)' => Opening(s)
  /\ LiveClose(s) => LiveClose(s)'

LEMMA OnSplit == \A s : On(s) <=> OpenOn(s) \/ CloseOn(s)
  BY DEF OpenOn, CloseOn

LEMMA ViewWatched ==
  ASSUME NEW s \in Sides, Watch(s), ViewKept(s)
  PROVE  Watch(s)'
<1>1. On(s)' <=> On(s)
  <2>1. (On(s) <=> OpenOn(s) \/ CloseOn(s)) /\ (On(s)' <=> OpenOn(s)' \/ CloseOn(s)')
    BY DEF OpenOn, CloseOn
  <2> QED BY <2>1 DEF ViewKept, TradeKept
<1>2. Holding(s)' <=> Holding(s)
  BY DEF ViewKept, Holding
<1> QED
  BY <1>1, <1>2 DEF Watch, ViewKept, TimerKept, OrdersKept, TradeKept

\* A queue loses a close event only at its head, and gets one only from PeApply.
LEMMA ToldTail ==
  ASSUME TypeInv, posq' = posq \/ (posq # <<>> /\ posq' = Tail(posq))
  PROVE  \A s : ClosedTold(s)' => ClosedTold(s)
<1>1. CASE posq' = posq
  BY <1>1 DEF ClosedTold
<1>2. CASE posq # <<>> /\ posq' = Tail(posq)
  <2>1. posq \in Seq(PosEvent)
    BY DEF TypeInv, TypeOK
  <2>2. \A i \in DOMAIN posq' : i + 1 \in DOMAIN posq /\ posq'[i] = posq[i + 1]
    BY <1>2, <2>1, TailShifts
  <2> QED BY <2>2 DEF ClosedTold
<1> QED
  BY <1>1, <1>2

LEMMA ToldAppended ==
  ASSUME TypeInv, NEW p \in Seq(PosEvent), NEW o, Tell(p, o), NEW s, \A i \in DOMAIN p : p[i].side # s \/ p[i].type # "Closed"
  PROVE  ClosedTold(s)' => ClosedTold(s)
<1>1. posq \in Seq(PosEvent)
  BY DEF TypeInv, TypeOK
<1>2. CASE posq' = posq
  BY <1>2 DEF ClosedTold
<1>3. CASE posq' = posq \o p
  <2>1. ASSUME NEW i \in DOMAIN posq' PROVE \/ i \in DOMAIN posq /\ posq'[i] = posq[i]
                                            \/ i - Len(posq) \in DOMAIN p /\ posq'[i] = p[i - Len(posq)]
    BY <1>1, <1>3
  <2> QED BY <2>1 DEF ClosedTold
<1> QED
  BY <1>2, <1>3 DEF Tell

LEMMA NoCloseTold ==
  ASSUME NEW s \in Sides
  PROVE  /\ \A type \in {"Opened", "Updated"}, st \in {"Opening", "Open", "Closing", "Closed"} :
              /\ Event(type, s, st) \in Seq(PosEvent)
              /\ \A i \in DOMAIN Event(type, s, st) : Event(type, s, st)[i].type # "Closed"
         /\ LET p == Event("Opened", s, "Opening") \o Event("Updated", s, "Opening") IN
              p \in Seq(PosEvent) /\ \A i \in DOMAIN p : p[i].type # "Closed"
         /\ LET p == Event("Closed", s, "Closed") \o Event("Updated", s, "Closed") IN
              p \in Seq(PosEvent) /\ \A i \in DOMAIN p : p[i].side = s
         /\ <<>> \in Seq(PosEvent)
<1>1. ASSUME NEW type \in {"Opened", "Updated", "Closed"}, NEW st \in {"Opening", "Open", "Closing", "Closed"}
      PROVE  /\ Event(type, s, st) \in Seq(PosEvent) /\ Len(Event(type, s, st)) = 1
             /\ Event(type, s, st)[1].type = type /\ Event(type, s, st)[1].side = s
  <2> DEFINE e == [type |-> type, side |-> s, status |-> st]
  <2>1. e \in PosEvent /\ e.type = type /\ e.side = s /\ Event(type, s, st) = <<e>>
    BY DEF PosEvent, Event
  <2> HIDE DEF e
  <2> QED BY <2>1
<1>2. ASSUME NEW a \in Seq(PosEvent), NEW b \in Seq(PosEvent), Len(a) = 1, Len(b) = 1
      PROVE  LET p == a \o b IN p \in Seq(PosEvent) /\ DOMAIN p = {1, 2} /\ p[1] = a[1] /\ p[2] = b[1]
  <2> DEFINE p == a \o b
  <2>1. p \in Seq(PosEvent) /\ Len(p) = 2
    BY SMTT(20), <1>2
  <2>2. p[1] = a[1] /\ p[2] = b[1]
    <3>1. \A i \in 1..Len(a) : (a \o b)[i] = a[i]
      OBVIOUS
    <3>2. \A i \in (Len(a) + 1)..(Len(a) + Len(b)) : (a \o b)[i] = b[i - Len(a)]
      OBVIOUS
    <3>3. 1 \in 1..Len(a) /\ 2 \in (Len(a) + 1)..(Len(a) + Len(b)) /\ 2 - Len(a) = 1
      BY <1>2
    <3> QED BY <3>1, <3>2, <3>3
  <2> HIDE DEF p
  <2>3. DOMAIN p = {1, 2}
    BY <2>1
  <2> QED BY <2>1, <2>2, <2>3 DEF p
<1>3. \A type \in {"Opened", "Updated"}, st \in {"Opening", "Open", "Closing", "Closed"} :
        DOMAIN Event(type, s, st) = {1}
  BY <1>1
<1>4. /\ Event("Opened", s, "Opening") \in Seq(PosEvent) /\ Len(Event("Opened", s, "Opening")) = 1
      /\ Event("Opened", s, "Opening")[1].type = "Opened"
  BY <1>1
<1>5. /\ Event("Updated", s, "Opening") \in Seq(PosEvent) /\ Len(Event("Updated", s, "Opening")) = 1
      /\ Event("Updated", s, "Opening")[1].type = "Updated"
  BY <1>1
<1>6. /\ Event("Updated", s, "Closed") \in Seq(PosEvent) /\ Len(Event("Updated", s, "Closed")) = 1
      /\ Event("Updated", s, "Closed")[1].side = s
  BY <1>1
<1>7. /\ Event("Closed", s, "Closed") \in Seq(PosEvent) /\ Len(Event("Closed", s, "Closed")) = 1
      /\ Event("Closed", s, "Closed")[1].side = s
  BY <1>1
<1>8. LET p == Event("Opened", s, "Opening") \o Event("Updated", s, "Opening") IN
              p \in Seq(PosEvent) /\ \A i \in DOMAIN p : p[i].type # "Closed"
  BY <1>2, <1>4, <1>5
<1>9. LET p == Event("Closed", s, "Closed") \o Event("Updated", s, "Closed") IN
              p \in Seq(PosEvent) /\ \A i \in DOMAIN p : p[i].side = s
  BY <1>2, <1>6, <1>7
<1> QED
  BY <1>1, <1>3, <1>8, <1>9

\* The engine works on an order: the view of the other sides stays.
LEMMA OtherSides ==
  ASSUME TypeInv, Named, OpensNamed, side' = side, NEW c \in Cids, OrderStays(c),
         \A d \in Cids : d # c => order'[d] = order[d],
         NEW t \in Sides, t # order[c].side, pe'[t] = pe[t],
         applying' = applying \/ (applying = NoTrade /\ applying'.cid = c) \/ (applying.cid = c /\ applying' = NoTrade),
         NEW p \in Seq(PosEvent), NEW o, Tell(p, o) \/ posq' = posq, \A i \in DOMAIN p : p[i].side = order[c].side \/ p[i].type # "Closed"
  PROVE  ViewKept(t)
<1>0. /\ \A s \in Sides : side[s].pendingOpen \in Cids \cup {NoCid} /\ side[s].pendingClose \in Cids \cup {NoCid}
      /\ applying # NoTrade => applying.cid \in Cids
  BY Typed DEF SideState
<1>1. side[t].pendingOpen # c /\ side[t].pendingClose # c
  BY PendingNamed
<1>2. OrdersKept(t)
  BY <1>0, <1>1 DEF OrdersKept, Filled, FilledOpen
<1>3. \A d \in Cids : order'[d].kind = order[d].kind /\ order'[d].side = order[d].side
  BY DEF OrderStays
<1>4. TradeKept(t)
  <2>1. CASE applying' = applying
    BY <1>0, <1>3, <2>1 DEF TradeKept, OpenOn, CloseOn, On
  <2>2. CASE applying = NoTrade /\ applying'.cid = c
    BY <1>3, <2>2 DEF TradeKept, OpenOn, CloseOn, On
  <2>3. CASE applying.cid = c /\ applying' = NoTrade
    BY <2>3 DEF TradeKept, OpenOn, CloseOn, On
  <2> QED BY <2>1, <2>2, <2>3
<1>5. TimerKept(t) /\ pe'[t].status = pe[t].status
  BY DEF TimerKept
<1>6. (Opening(t)' => Opening(t)) /\ (LiveClose(t) => LiveClose(t)')
  <2>1. \A d \in Cids : order'[d].side = t \/ order[d].side = t => order'[d] = order[d]
    BY <1>3
  <2> QED BY <2>1 DEF Opening, LiveClose
<1>7. ClosedTold(t)' => ClosedTold(t)
  <2>1. CASE posq' = posq
    BY <2>1 DEF ClosedTold
  <2>2. CASE Tell(p, o)
    BY <2>2, ToldAppended
  <2> QED BY <2>1, <2>2
<1> QED
  BY <1>2, <1>4, <1>5, <1>6, <1>7 DEF ViewKept

\* An order that is under way is no filled one, before and after what the engine does to it,
\* unless it fills.
LEMMA OrderView ==
  ASSUME TypeInv, Named, OpensNamed, side' = side, NEW c \in Cids, OrderStays(c),
         \A d \in Cids : d # c => order'[d] = order[d], order[c].st # "filled", order'[c].st # "filled"
  PROVE  \A s \in Sides : OrdersKept(s) /\ TimerKept(s)
<1>1. \A s \in Sides : side[s].pendingOpen \in Cids \cup {NoCid} /\ side[s].pendingClose \in Cids \cup {NoCid}
  BY Typed DEF SideState
<1> QED
  BY <1>1 DEF OrdersKept, Filled, FilledOpen, TimerKept

LEMMA TradeView ==
  ASSUME TypeInv, applying' = applying, \A d \in Cids : OrderStays(d)
  PROVE  \A s \in Sides : TradeKept(s)
<1>1. applying # NoTrade => applying.cid \in Cids
  BY Typed
<1> QED
  BY <1>1 DEF TradeKept, OpenOn, CloseOn, On, OrderStays

LEMMA PeOpenWatched ==
  ASSUME TypeInv, Bookkeeping, Named, OpensNamed, EngineInv, Watched, PeOpen
  PROVE  Watched'
<1>a. /\ order \in [Cids -> Order] /\ pe \in [Sides -> PePosition] /\ \A d \in Cids : order[d].side \in Sides
      /\ cmds \in Seq(Cids) /\ cmds # <<>>
  BY Typed DEF PeOpen
<1>1. PICK c \in Cids : c = Head(cmds) /\ order[c].st = "queued"
  <2>1. 1 \in DOMAIN cmds /\ cmds[1] = Head(cmds) /\ Head(cmds) \in Cids
    BY <1>a
  <2> QED BY <2>1 DEF Bookkeeping
<1>2. PICK u \in Sides : u = order[c].side
  BY <1>a
<1>0. /\ order \in [Cids -> Order] /\ pe \in [Sides -> PePosition] /\ \A d \in Cids : order[d].side \in Sides
      /\ order[c].kind = "open"
  BY <1>a, <1>1 DEF PeOpen
<1>3. PICK p, o :
        /\ p \in Seq(PosEvent) /\ Tell(p, o) /\ (\A i \in DOMAIN p : p[i].type # "Closed")
        /\ pe'[u].status \in {"none", "Opening"} /\ (\A t \in Sides : t # u => pe'[t] = pe[t])
        /\ pe[u].status = "none"
  <2>1. pe[u].status = "none"
    BY <1>0, <1>1, <1>2 DEF EngineInv, OpensAlone, UnderWay
  <2>2. CASE /\ pe' = [pe EXCEPT ![u] = [status |-> "Opening", qty |-> 0]]
             /\ Tell(Event("Opened", u, "Opening") \o Event("Updated", u, "Opening"), <<>>)
    <3>1. pe'[u].status = "Opening" /\ \A t \in Sides : t # u => pe'[t] = pe[t]
      BY <1>0, <1>2, <2>2
    <3> QED BY <1>2, <2>1, <2>2, <3>1, NoCloseTold
  <2>3. CASE Tell(<<>>, OrderEvent("Failed", c)) /\ pe' = pe
    <3>1. PICK p : p = <<>>
      OBVIOUS
    <3>2. PICK o : o = OrderEvent("Failed", c)
      OBVIOUS
    <3>3. p \in Seq(PosEvent) /\ \A i \in DOMAIN p : p[i].type # "Closed"
      BY <3>1
    <3>4. Tell(p, o)
      BY <2>3, <3>1, <3>2
    <3>5. pe'[u].status \in {"none", "Opening"} /\ \A t \in Sides : t # u => pe'[t] = pe[t]
      BY <2>1, <2>3
    <3> QED BY <2>1, <3>3, <3>4, <3>5
  <2> QED BY <1>1, <1>2, <2>1, <2>2, <2>3 DEF PeOpen
<1>4. /\ side' = side /\ applying' = applying
      /\ OrderStays(c) /\ order'[c].st \in {"live", "failed"} /\ \A d \in Cids : d # c => order'[d] = order[d]
  BY <1>0, <1>1, <1>2 DEF PeOpen, Accepted, Refused, OrderStays, workerVars, Order
<1>5. ASSUME NEW t \in Sides, t # u PROVE Watch(t)'
  <2>1. ViewKept(t)
    BY <1>1, <1>3, <1>4, <1>5, <1>2, OtherSides
  <2> QED BY <2>1, ViewWatched DEF Watched
<1>6. Watch(u)'
  <2>1. OrdersKept(u) /\ TimerKept(u)
    BY <1>1, <1>2, <1>4, OrderView
  <2>2. TradeKept(u)
    <3>1. \A d \in Cids : OrderStays(d)
      BY <1>4 DEF OrderStays
    <3> QED BY <1>2, <1>4, <3>1, TradeView
  <2>3. Opening(u)
    BY <1>0, <1>1, <1>2 DEF Opening, UnderWay
  <2>4. ~ClosedTold(u)'
    <3>1. ~ClosedTold(u)
      BY <1>2, <2>3 DEF Watched, Watch
    <3> QED BY <1>3, <3>1, ToldAppended
  <2>5. (On(u)' <=> On(u)) /\ ~Holding(u) /\ ~Holding(u)'
    <3>1. (On(u) <=> OpenOn(u) \/ CloseOn(u)) /\ (On(u)' <=> OpenOn(u)' \/ CloseOn(u)')
      BY DEF OpenOn, CloseOn
    <3>2. ~Holding(u) /\ ~Holding(u)'
      BY <1>3 DEF Holding
    <3> QED BY <2>2, <3>1, <3>2 DEF TradeKept
  <2>6. pe'[u].status # "Closing"
    BY <1>3
  <2>7. Watch(u)
    BY <1>2 DEF Watched
  <2>8. side' = side
    BY <1>4
  <2> QED BY <2>1, <2>2, <2>4, <2>5, <2>6, <2>7, <2>8 DEF Watch, OrdersKept, TradeKept
<1>7. CloseOfOne'
  BY <1>0, <1>4 DEF CloseOfOne, Watched, OrderStays
<1> QED
  BY <1>5, <1>6, <1>7 DEF Watched

LEMMA PeCloseWatched ==
  ASSUME TypeInv, Bookkeeping, Named, OpensNamed, EngineInv, Watched, PeClose
  PROVE  Watched'
<1>a. /\ order \in [Cids -> Order] /\ pe \in [Sides -> PePosition] /\ \A d \in Cids : order[d].side \in Sides
      /\ cmds \in Seq(Cids) /\ cmds # <<>>
  BY Typed DEF PeClose
<1>1. PICK c \in Cids : c = Head(cmds) /\ order[c].st = "queued"
  <2>1. 1 \in DOMAIN cmds /\ cmds[1] = Head(cmds) /\ Head(cmds) \in Cids
    BY <1>a
  <2> QED BY <2>1 DEF Bookkeeping
<1>2. PICK u \in Sides : u = order[c].side
  BY <1>a
<1>0. /\ order \in [Cids -> Order] /\ pe \in [Sides -> PePosition] /\ \A d \in Cids : order[d].side \in Sides
      /\ order[c].kind = "close"
  BY <1>a, <1>1 DEF PeClose
<1>3. \/ /\ pe[u].qty # 0 /\ pe' = [pe EXCEPT ![u].status = "Closing"]
         /\ order' = [order EXCEPT ![c].st = "live", ![c].left = pe[u].qty]
         /\ Tell(Event("Updated", u, "Closing"), <<>>)
      \/ /\ pe' = pe /\ order' = [order EXCEPT ![c].st = "failed"]
         /\ Tell(<<>>, OrderEvent("Failed", c))
  BY <1>1, <1>2 DEF PeClose, Refused
<1>4. /\ side' = side /\ applying' = applying
      /\ OrderStays(c) /\ order'[c].st \in {"live", "failed"} /\ \A d \in Cids : d # c => order'[d] = order[d]
  <2>1. side' = side /\ applying' = applying
    BY DEF PeClose, workerVars
  <2>2. /\ OrderStays(c) /\ order'[c].st \in {"live", "failed"} /\ \A d \in Cids : d # c => order'[d] = order[d]
    BY <1>0, <1>1, <1>3 DEF OrderStays, Order
  <2> QED BY <2>1, <2>2
<1>5. PICK p, o :
        p \in Seq(PosEvent) /\ Tell(p, o) /\ (\A i \in DOMAIN p : p[i].type # "Closed")
  <2>1. <<>> \in Seq(PosEvent) /\ \A i \in DOMAIN <<>> : <<>>[i].type # "Closed"
    OBVIOUS
  <2>2. Event("Updated", u, "Closing") \in Seq(PosEvent)
        /\ \A i \in DOMAIN Event("Updated", u, "Closing") : Event("Updated", u, "Closing")[i].type # "Closed"
    BY <1>2, NoCloseTold
  <2> QED BY <1>3, <2>1, <2>2
<1>6. \A t \in Sides : t # u => pe'[t] = pe[t]
  BY <1>0, <1>2, <1>3
<1>7. /\ order'[c].st = "live" => order'[c].left = 1 /\ Holding(u) /\ pe'[u].status = "Closing"
      /\ order'[c].st = "failed" => pe'[u] = pe[u]
  <2>1. CASE pe' = pe /\ order' = [order EXCEPT ![c].st = "failed"]
    BY <1>0, <1>1, <2>1 DEF Order
  <2>2. CASE /\ pe[u].qty # 0 /\ pe' = [pe EXCEPT ![u].status = "Closing"]
             /\ order' = [order EXCEPT ![c].st = "live", ![c].left = pe[u].qty]
    <3>1. order'[c].left = pe[u].qty /\ order'[c].st = "live" /\ pe'[u].status = "Closing"
      BY <1>0, <1>1, <1>2, <2>2 DEF Order, PePosition
    <3>2. pe[u].qty = 1 /\ Holding(u)
      BY <1>2, <2>2 DEF EngineInv, Sized, Holding
    <3> QED BY <3>1, <3>2
  <2> QED BY <1>3, <2>1, <2>2
<1>8. ASSUME NEW t \in Sides, t # u PROVE Watch(t)'
  <2>1. ViewKept(t)
    BY <1>1, <1>4, <1>5, <1>6, <1>8, <1>2, OtherSides
  <2> QED BY <2>1, ViewWatched DEF Watched
<1>9. Watch(u)'
  <2>1. OrdersKept(u) /\ TimerKept(u)
    BY <1>1, <1>2, <1>4, OrderView
  <2>2. TradeKept(u)
    <3>1. \A d \in Cids : OrderStays(d)
      BY <1>4 DEF OrderStays
    <3> QED BY <1>2, <1>4, <3>1, TradeView
  <2>3. ClosedTold(u)' => ClosedTold(u)
    BY <1>5, ToldAppended
  <2>4. Watch(u) /\ side' = side
    BY <1>2, <1>4 DEF Watched
  <2>5. On(u)' <=> On(u)
    <3>1. (On(u) <=> OpenOn(u) \/ CloseOn(u)) /\ (On(u)' <=> OpenOn(u)' \/ CloseOn(u)')
      BY DEF OpenOn, CloseOn
    <3> QED BY <2>2, <3>1 DEF TradeKept
  <2>6. CASE order'[c].st = "live"
    <3>1. LiveClose(u)'
      BY <1>0, <1>1, <1>2, <1>4, <2>6 DEF LiveClose, OrderStays
    <3>2. Holding(u) /\ Holding(u)' /\ pe[u].status # "none"
      BY <1>7, <2>6 DEF Holding
    <3> QED BY <2>1, <2>2, <2>3, <2>4, <2>5, <3>1, <3>2 DEF Watch, OrdersKept, TradeKept
  <2>7. CASE order'[c].st = "failed"
    <3>1. Opening(u)' => Opening(u)
      BY <1>0, <1>1, <1>4, <2>7 DEF Opening, OrderStays, UnderWay
    <3>2. LiveClose(u) => LiveClose(u)'
      BY <1>0, <1>1, <1>4, <2>7 DEF LiveClose, OrderStays
    <3>3. pe'[u].status = pe[u].status
      BY <1>7, <2>7
    <3>4. ViewKept(u)
      BY <2>1, <2>2, <2>3, <3>1, <3>2, <3>3 DEF ViewKept
    <3> QED BY <1>2, <2>4, <3>4, ViewWatched
  <2> QED BY <1>4, <2>6, <2>7
<1>10. CloseOfOne'
  BY <1>0, <1>4, <1>7 DEF CloseOfOne, Watched, OrderStays
<1> QED
  BY <1>8, <1>9, <1>10 DEF Watched

LEMMA PeTradeWatched ==
  ASSUME TypeInv, Bookkeeping, Named, Pendings, OpenKnown, OneInFlight, EngineInv, Watched,
         NEW c \in Cids, NEW q \in 1..(Amount * MaxOrders), PeTrade(c, q)
  PROVE  Watched'
<1>0. /\ order \in [Cids -> Order] /\ pe \in [Sides -> PePosition] /\ \A d \in Cids : order[d].side \in Sides
      /\ c # NoCid /\ NoTrade.cid = NoCid
  BY Typed
<1>1. PICK u \in Sides : u = order[c].side
  BY <1>0
<1>2. /\ order[c].st = "live" /\ applying = NoTrade /\ UNCHANGED <<side, pe>> /\ applying'.cid = c
      /\ order[c].kind = "close" => q <= pe[u].qty
      /\ Tell(<<>>, IF q = order[c].left THEN OrderEvent("Filled", c) ELSE <<>>) /\ q <= order[c].left
  BY <1>1 DEF PeTrade, workerVars
<1>3. order[c].kind \in {"open", "close"}
  BY <1>0, <1>2 DEF Named, LiveKinds, Order
<1>4. order[c].left = 1
  BY <1>1, <1>2, <1>3 DEF Watched, CloseOfOne, EngineInv, OpensAlone, UnderWay
<1>5. q = 1 /\ q = order[c].left
  BY <1>2, <1>4
<1>6. order'[c].st = "filled" /\ OrderStays(c) /\ \A d \in Cids : d # c => order'[d] = order[d]
  <2>1. order' = [order EXCEPT ![c].left = @ - q, ![c].st = "filled"]
    BY <1>5 DEF PeTrade
  <2> QED BY <1>0, <2>1 DEF Order, OrderStays
<1>7. <<>> \in Seq(PosEvent) /\ \A i \in DOMAIN <<>> : <<>>[i].type # "Closed"
  OBVIOUS
<1>8. ASSUME NEW t \in Sides, t # u PROVE Watch(t)'
  <2>1. OpensNamed
    BY DEF Pendings
  <2>2. ViewKept(t)
    BY <1>1, <1>2, <1>6, <1>7, <1>8, <2>1, OtherSides
  <2> QED BY <2>2, ViewWatched DEF Watched
<1>9. Watch(u)'
  <2>1. Watch(u)
    BY DEF Watched
  <2>2. On(u)' /\ ~On(u)
    BY <1>0, <1>1, <1>2, <1>6 DEF On, OrderStays
  <2>3. ClosedTold(u)' => ClosedTold(u)
    BY <1>2, <1>7, ToldAppended
  <2>4. Holding(u)' = Holding(u) /\ pe' = pe /\ side' = side
    BY <1>2 DEF Holding
  <2>5. CASE order[c].kind = "open"
    <3>1. side[u].pendingOpen = c
      BY <1>1, <1>2, <2>5 DEF OpenKnown
    <3>2. FilledOpen(u)' /\ OpenOn(u)' /\ ~CloseOn(u)'
      BY <1>0, <1>2, <1>6, <2>2, <2>5, <3>1 DEF FilledOpen, OpenOn, CloseOn, OrderStays
    <3>3. ~ClosedTold(u) /\ pe[u].status = "Opening"
      <4>1. Opening(u)
        BY <1>1, <1>2, <2>5 DEF Opening, UnderWay
      <4> QED BY <1>1, <1>2, <2>1, <2>5, <4>1 DEF Watch, EngineInv, OpensAlone, UnderWay
    <3> QED BY <2>1, <2>2, <2>3, <2>4, <3>2, <3>3 DEF Watch
  <2>6. CASE order[c].kind = "close"
    <3>1. side[u].pendingClose = c
      BY <1>1, <1>2, <2>6 DEF Pendings, ClosesKnown, UnderWay
    <3>2. Filled(u)' /\ CloseOn(u)' /\ ~OpenOn(u)'
      BY <1>0, <1>2, <1>6, <2>2, <2>6, <3>1 DEF Filled, OpenOn, CloseOn, OrderStays
    <3>3. Holding(u) /\ ~ClosedTold(u)
      <4>1. pe[u].qty # 0
        BY <1>2, <1>5, <2>6
      <4>2. Holding(u)
        BY <4>1 DEF EngineInv, Sized, Holding
      <4> QED BY <2>1, <4>2 DEF Watch, Holding
    <3> QED BY <2>1, <2>2, <2>3, <2>4, <3>2, <3>3 DEF Watch
  <2> QED BY <1>3, <2>5, <2>6
<1>10. CloseOfOne'
  BY <1>6 DEF CloseOfOne, Watched
<1> QED
  BY <1>8, <1>9, <1>10 DEF Watched

LEMMA PeApplyWatched ==
  ASSUME TypeInv, Bookkeeping, Named, Pendings, EngineInv, Watched, PeApply
  PROVE  Watched'
<1>0. /\ order \in [Cids -> Order] /\ pe \in [Sides -> PePosition] /\ \A d \in Cids : order[d].side \in Sides
      /\ OpensNamed /\ order' = order /\ side' = side
  BY Typed DEF PeApply, workerVars, Pendings
<1>1. PICK c \in Cids : c = applying.cid
  BY TradeApplied
<1>2. PICK u \in Sides : u = order[c].side
  BY <1>0
<1>3. /\ On(u) /\ applying' = NoTrade
      /\ \A t \in Sides : t # u => pe'[t] = pe[t]
      /\ \/ /\ order[c].kind = "open" /\ pe[u].status = "Opening" /\ pe'[u] = [status |-> "Open", qty |-> 1]
            /\ Tell(Event("Updated", u, "Open"), <<>>)
         \/ /\ order[c].kind # "open" /\ pe[u].status \in {"Open", "Closing"} /\ pe'[u] = NoPosition
            /\ Tell(Event("Closed", u, "Closed") \o Event("Updated", u, "Closed"), <<>>)
  BY <1>1, <1>2, TradeApplied
<1>4. PICK p, o : p \in Seq(PosEvent) /\ Tell(p, o) /\ \A i \in DOMAIN p : p[i].side = u \/ p[i].type # "Closed"
  <2>1. PICK a : a = Event("Updated", u, "Open")
    OBVIOUS
  <2>2. PICK b : b = Event("Closed", u, "Closed") \o Event("Updated", u, "Closed")
    OBVIOUS
  <2>3. a \in Seq(PosEvent) /\ \A i \in DOMAIN a : a[i].type # "Closed"
    BY <1>2, <2>1, NoCloseTold
  <2>4. b \in Seq(PosEvent) /\ \A i \in DOMAIN b : b[i].side = u
    BY <1>2, <2>2, NoCloseTold
  <2>5. Tell(a, <<>>) \/ Tell(b, <<>>)
    BY <1>3, <2>1, <2>2
  <2> QED BY <2>3, <2>4, <2>5
<1>5. OrderStays(c) /\ \A d \in Cids : d # c => order'[d] = order[d]
  BY <1>0 DEF OrderStays
<1>6. ASSUME NEW t \in Sides, t # u PROVE Watch(t)'
  <2>1. ViewKept(t)
    BY <1>0, <1>1, <1>2, <1>3, <1>4, <1>5, <1>6, OtherSides
  <2> QED BY <2>1, ViewWatched DEF Watched
<1>7. Watch(u)'
  <2>1. Watch(u)
    BY DEF Watched
  <2>2. ~On(u)' /\ ~OpenOn(u)' /\ ~CloseOn(u)'
    BY <1>3 DEF On, OpenOn, CloseOn
  <2>3. (Filled(u)' <=> Filled(u)) /\ (FilledOpen(u)' <=> FilledOpen(u)) /\ (Opening(u)' <=> Opening(u))
    BY <1>0 DEF Filled, FilledOpen, Opening
  <2>4. CASE order[c].kind = "open"
    <3>1. pe'[u].status = "Open" /\ Holding(u)'
      BY <1>3, <2>4 DEF Holding
    <3>2. FilledOpen(u) \/ side[u].armed
      BY <1>1, <1>3, <2>1, <2>4 DEF Watch, OpenOn
    <3>3. ~ClosedTold(u)'
      <4>1. ~ClosedTold(u)
        BY <1>3, <2>1 DEF Watch
      <4>2. Event("Updated", u, "Open") \in Seq(PosEvent)
            /\ \A i \in DOMAIN Event("Updated", u, "Open") : Event("Updated", u, "Open")[i].type # "Closed"
        BY <1>2, NoCloseTold
      <4> QED BY <1>3, <2>4, <4>1, <4>2, ToldAppended
    <3>4. side[u].armed = side'[u].armed
      BY <1>0
    <3> QED BY <1>0, <2>1, <2>2, <2>3, <3>1, <3>2, <3>3, <3>4 DEF Watch
  <2>5. CASE order[c].kind # "open"
    <3>1. pe'[u].status = "none" /\ ~Holding(u)'
      BY <1>3, <2>5 DEF Holding, NoPosition
    <3>2. Filled(u) \/ side[u].cooling
      BY <1>1, <1>3, <2>1, <2>5 DEF Watch, CloseOn
    <3>3. ~Opening(u)
      BY <1>3 DEF Opening, EngineInv, OpensAlone
    <3>4. side[u].cooling => ~side[u].armed /\ ~FilledOpen(u)
      BY <2>1 DEF Watch, FilledOpen
    <3> QED BY <1>0, <2>1, <2>2, <2>3, <3>1, <3>2, <3>3, <3>4 DEF Watch
  <2> QED BY <2>4, <2>5
<1>8. CloseOfOne'
  BY <1>0 DEF CloseOfOne, Watched
<1> QED
  BY <1>6, <1>7, <1>8 DEF Watched

LEMMA PeEndWatched ==
  ASSUME TypeInv, Bookkeeping, Named, Pendings, EngineInv, Watched, NEW c \in Cids, NEW how \in {"failed", "canceled"},
         PeEnd(c, how)
  PROVE  Watched'
<1>0. /\ order \in [Cids -> Order] /\ pe \in [Sides -> PePosition] /\ \A d \in Cids : order[d].side \in Sides
      /\ OpensNamed
  BY Typed DEF Pendings
<1>1. PICK u \in Sides : u = order[c].side
  BY <1>0
<1>2. /\ order[c].st = "live" /\ side' = side /\ applying' = applying
      /\ order'[c].st = how /\ \A d \in Cids : d # c => order'[d] = order[d]
      /\ \A t \in Sides : t # u => pe'[t] = pe[t]
  BY <1>1, OrderEnds
<1>3. \/ pe[u].status = "Opening" /\ pe'[u] = NoPosition
      \/ pe[u].status = "Closing" /\ pe'[u].status = "Open"
      \/ pe[u].status \in {"none", "Open"} /\ pe'[u] = pe[u]
  BY <1>1, OrderEnds
<1>4. PICK p, o : p \in Seq(PosEvent) /\ Tell(p, o) /\ \A i \in DOMAIN p : p[i].type # "Closed"
  <2>1. <<>> \in Seq(PosEvent) /\ \A i \in DOMAIN <<>> : <<>>[i].type # "Closed"
    OBVIOUS
  <2>2. Event("Updated", u, "Open") \in Seq(PosEvent)
        /\ \A i \in DOMAIN Event("Updated", u, "Open") : Event("Updated", u, "Open")[i].type # "Closed"
    BY <1>1, NoCloseTold
  <2>3. \E o : Tell(<<>>, o) \/ Tell(Event("Updated", u, "Open"), o)
    BY <1>1, OrderEnds
  <2> QED BY <2>1, <2>2, <2>3
<1>5. \A d \in Cids : OrderStays(d)
  BY <1>0, <1>2 DEF PeEnd, OrderStays, Order
<1>6. ASSUME NEW t \in Sides, t # u PROVE Watch(t)'
  <2>1. ViewKept(t)
    BY <1>0, <1>1, <1>2, <1>4, <1>5, <1>6, OtherSides
  <2> QED BY <2>1, ViewWatched DEF Watched
<1>7. Watch(u)'
  <2>1. OrdersKept(u) /\ TimerKept(u) /\ TradeKept(u)
    BY <1>0, <1>2, <1>5, OrderView, TradeView
  <2>2. ClosedTold(u)' => ClosedTold(u)
    BY <1>4, ToldAppended
  <2>3. Watch(u) /\ side' = side
    BY <1>2 DEF Watched
  <2>4. On(u)' <=> On(u)
    <3>1. (On(u) <=> OpenOn(u) \/ CloseOn(u)) /\ (On(u)' <=> OpenOn(u)' \/ CloseOn(u)')
      BY DEF OpenOn, CloseOn
    <3> QED BY <2>1, <3>1 DEF TradeKept
  <2>5. Opening(u)' => Opening(u)
    BY <1>0, <1>2, <1>5 DEF Opening, OrderStays, UnderWay
  <2>6. pe'[u].status # "Closing" /\ (Holding(u)' <=> Holding(u)) /\ (pe[u].status = "none" => pe'[u].status = "none")
    BY <1>3 DEF Holding, NoPosition
  <2> QED BY <2>1, <2>2, <2>3, <2>4, <2>5, <2>6 DEF Watch, OrdersKept, TradeKept
<1>8. CloseOfOne'
  BY <1>0, <1>2, <1>5 DEF CloseOfOne, Watched, OrderStays
<1> QED
  BY <1>6, <1>7, <1>8 DEF Watched

LEMMA EngineWatched ==
  ASSUME TypeInv, Bookkeeping, Named, Pendings, OpenKnown, OneInFlight, EngineInv, Watched, Engine
  PROVE  Watched'
<1>1. OpensNamed
  BY DEF Pendings
<1>2. CASE PeOpen
  BY <1>1, <1>2, PeOpenWatched
<1>3. CASE PeClose
  BY <1>1, <1>3, PeCloseWatched
<1>4. ASSUME NEW c \in Cids, NEW q \in 1..(Amount * MaxOrders), PeTrade(c, q) PROVE Watched'
  BY <1>4, PeTradeWatched
<1>5. CASE PeApply
  BY <1>5, PeApplyWatched
<1>6. ASSUME NEW c \in Cids, NEW how \in {"failed", "canceled"}, PeEnd(c, how) PROVE Watched'
  BY <1>6, PeEndWatched
<1> QED
  BY <1>2, <1>3, <1>4, <1>5, <1>6 DEF Engine

\* A step of the worker that leaves the orders alone and what is pending of a side.
LEMMA QuietView ==
  ASSUME TypeInv, UNCHANGED <<order, pe, applying>>, posq' = posq \/ (posq # <<>> /\ posq' = Tail(posq)),
         NEW s \in Sides, TimerKept(s), OrdersKept(s)
  PROVE  ViewKept(s)
<1>1. TradeKept(s)
  BY DEF TradeKept, OpenOn, CloseOn, On
<1>2. ClosedTold(s)' => ClosedTold(s)
  BY ToldTail
<1>3. (Opening(s)' <=> Opening(s)) /\ (LiveClose(s)' <=> LiveClose(s))
  BY DEF Opening, LiveClose
<1> QED
  BY <1>1, <1>2, <1>3 DEF ViewKept

LEMMA SameOrders ==
  ASSUME order' = order, NEW s, side'[s].pendingOpen = side[s].pendingOpen, side'[s].pendingClose = side[s].pendingClose
  PROVE  OrdersKept(s)
  BY DEF OrdersKept, Filled, FilledOpen

\* Closes are sent when nothing is pending, for what nothing watches any less.
LEMMA SendsWatched ==
  ASSUME TypeInv, Bookkeeping, Named, Watched, NEW T \in SUBSET Sides, NEW reason, SendsCloses(T, reason)
  PROVE  Watched'
<1>0. /\ sent \in Nat /\ \A c \in Cids : c \in Nat
      /\ applying # NoTrade => applying.cid \in Cids /\ applying.cid <= sent
      /\ UNCHANGED <<pe, applying, posq>>
  BY Typed DEF Named, Cids, SendsCloses
<1>1. \A s \in Sides : /\ side[s].pendingOpen = NoCid /\ side[s].pendingClose = NoCid /\ WatchKept(s)
                       /\ side'[s].pendingClose = IF s \in T THEN CloseId(s, T) ELSE NoCid
  BY DEF SendsCloses, IsPending, PendingOn
<1>2. /\ \A c \in Cids : c <= sent => order'[c] = order[c]
      /\ \A c \in Cids : c > sent => \/ order'[c] = order[c]
                                     \/ order'[c].kind = "close" /\ order'[c].st = "queued"
      /\ \A s \in T : order'[CloseId(s, T)].st = "queued"
  BY ClosesSent DEF SendsCloses
<1> HIDE DEF CloseId
<1>3. ASSUME NEW s \in Sides PROVE ViewKept(s)
  <2>1. TimerKept(s)
    BY <1>1 DEF TimerKept, WatchKept
  <2>2. OrdersKept(s)
    BY <1>1, <1>2 DEF OrdersKept, Filled, FilledOpen, WatchKept
  <2>3. TradeKept(s)
    BY <1>0, <1>2 DEF TradeKept, OpenOn, CloseOn, On
  <2>4. \A c \in Cids : order[c].st # "none" => order'[c] = order[c]
    BY <1>0, <1>2 DEF Bookkeeping
  <2>5. Opening(s)' => Opening(s)
    <3>1. \A c \in Cids : order'[c].kind = "open" => order'[c] = order[c]
      BY <1>0, <1>2
    <3> QED BY <3>1 DEF Opening
  <2>6. LiveClose(s) => LiveClose(s)'
    BY <2>4 DEF LiveClose
  <2>7. ClosedTold(s)' => ClosedTold(s)
    BY <1>0 DEF ClosedTold
  <2> QED BY <1>0, <2>1, <2>2, <2>3, <2>5, <2>6, <2>7 DEF ViewKept
<1>4. CloseOfOne'
  <2>1. \A c \in Cids : order'[c].st = "live" => order'[c] = order[c]
    BY <1>0, <1>2
  <2> QED BY <2>1 DEF CloseOfOne, Watched
<1> QED
  BY <1>3, <1>4, ViewWatched DEF Watched

\* The engine has told the close of a position that the worker watches no longer, or has
\* yet to account for.
LEMMA ClosedWatched ==
  ASSUME TypeInv, OneInFlight, Watched, OnPositionClosed
  PROVE  Watched'
<1>0. /\ side \in [Sides -> SideState] /\ posq \in Seq(PosEvent)
      /\ UNCHANGED <<order, pe, applying>> /\ posq # <<>> /\ posq' = Tail(posq) /\ Head(posq).type = "Closed"
  BY DEF OnPositionClosed, TakePosEvent, engineVars, TypeInv, TypeOK
<1>1. PICK u \in Sides : u = Head(posq).side
  <2>1. Head(posq) \in PosEvent
    BY <1>0
  <2> QED BY <2>1 DEF PosEvent
<1>2. ASSUME NEW s \in Sides, side'[s] = side[s] PROVE Watch(s)'
  <2>1. TimerKept(s) /\ OrdersKept(s)
    BY <1>0, <1>2, SameOrders DEF TimerKept
  <2>2. ViewKept(s)
    BY <1>0, <2>1, QuietView
  <2> QED BY <2>2, ViewWatched DEF Watched
<1>3. CloseOfOne'
  BY <1>0 DEF CloseOfOne, Watched
<1>4. CASE side' = side
  BY <1>2, <1>3, <1>4 DEF Watched
<1>5. CASE side' = [side EXCEPT ![u] = ClearOnClose(side[u], "external")]
  <2>1. \A s \in Sides : s # u => side'[s] = side[s]
    BY <1>0, <1>5
  <2>2. /\ side'[u].armed = FALSE /\ side'[u].openedAt = FALSE /\ side'[u].openCid = NoCid /\ side'[u].cooling = TRUE
        /\ side'[u].pendingOpen = side[u].pendingOpen /\ side'[u].pendingClose = side[u].pendingClose
    BY <1>0, <1>5 DEF ClearOnClose, ClearPosition, SideState
  <2>3. ClosedTold(u)
    <3>1. 1 \in DOMAIN posq /\ posq[1] = Head(posq)
      BY <1>0
    <3> QED BY <1>0, <1>1, <3>1 DEF ClosedTold
  <2>4. (side[u].cooling \/ Filled(u)) /\ pe[u].status = "none" /\ ~On(u) /\ ~Opening(u)
    BY <2>3 DEF Watched, Watch
  <2>5. side[u].pendingOpen = NoCid
    <3>1. Filled(u) => side[u].pendingOpen = NoCid
      BY DEF Filled, OneInFlight
    <3> QED BY <2>4, <3>1 DEF Watched, Watch
  <2>6. OrdersKept(u) /\ ~FilledOpen(u)'
    <3>1. OrdersKept(u)
      BY <1>0, <2>2, SameOrders
    <3> QED BY <2>2, <2>5, <3>1 DEF FilledOpen
  <2>7. ~On(u)' /\ ~OpenOn(u)' /\ ~CloseOn(u)' /\ ~Holding(u)' /\ pe'[u].status = "none" /\ ~Opening(u)'
    BY <1>0, <2>4 DEF On, OpenOn, CloseOn, Holding, Opening
  <2>8. Watch(u)'
    BY <2>2, <2>5, <2>6, <2>7 DEF Watch
  <2> QED BY <1>2, <1>3, <2>1, <2>8 DEF Watched
<1> QED
  BY <1>0, <1>1, <1>4, <1>5 DEF OnPositionClosed

\* The fill of the opening order starts the watch.
LEMMA OpenFillWatched ==
  ASSUME TypeInv, Bookkeeping, Named, Pendings, OneInFlight, Watched, NEW u \in Sides, OnOpenFilled(u)
  PROVE  Watched'
<1>0. side \in [Sides -> SideState] /\ OpensNamed /\ ordq \in Seq(OrdEvent) /\ ordq # <<>>
  BY Typed DEF Pendings, OnOpenFilled, TakeOrdEvent
<1>1. PICK h : h = Head(ordq).cid
  OBVIOUS
<1>2. /\ h \in Cids /\ order[h].side = u /\ UNCHANGED <<order, pe, applying, posq>>
      /\ (\A s \in Sides : s # u => side'[s] = side[s]) /\ order[h].st = "filled" /\ h # NoCid
  <2>1. ~OnOrderEnded(u)
    BY DEF OnOpenFilled, OnOrderEnded, TakeOrdEvent
  <2>2. h \in Cids => h # NoCid
    BY Typed
  <2> QED BY <1>0, <1>1, <2>1, <2>2, EndTaken
<1>3. ASSUME NEW s \in Sides, s # u PROVE Watch(s)'
  <2>1. TimerKept(s) /\ OrdersKept(s)
    BY <1>2, <1>3, SameOrders DEF TimerKept
  <2>2. ViewKept(s)
    BY <1>2, <2>1, QuietView
  <2> QED BY <2>2, <1>3, ViewWatched DEF Watched
<1>4. Watch(u)'
  <2>1. Watch(u)
    BY DEF Watched
  <2>2. side[u].pendingOpen = h
    BY <1>1 DEF OnOpenFilled
  <2>3. FilledOpen(u) /\ ~side[u].cooling
    BY <1>2, <2>1, <2>2 DEF FilledOpen, Watch
  <2>4. /\ side'[u].armed = TRUE /\ side'[u].openedAt = TRUE /\ side'[u].openCid = h /\ side'[u].cooling = side[u].cooling
        /\ side'[u].pendingOpen = NoCid /\ side'[u].pendingClose = side[u].pendingClose
    BY <1>0, <1>1 DEF OnOpenFilled, SideState
  <2>5. /\ (Filled(u)' <=> Filled(u)) /\ (On(u)' <=> On(u)) /\ (OpenOn(u)' <=> OpenOn(u)) /\ (CloseOn(u)' <=> CloseOn(u))
        /\ (Holding(u)' <=> Holding(u)) /\ (Opening(u)' <=> Opening(u)) /\ (LiveClose(u)' <=> LiveClose(u))
        /\ (ClosedTold(u)' <=> ClosedTold(u)) /\ pe' = pe
    BY <1>2, <2>4 DEF Filled, On, OpenOn, CloseOn, Holding, Opening, LiveClose, ClosedTold
  <2>6. ~FilledOpen(u)'
    BY <2>4 DEF FilledOpen
  <2> QED BY <1>2, <2>1, <2>3, <2>4, <2>5, <2>6 DEF Watch
<1>5. CloseOfOne'
  BY <1>2 DEF CloseOfOne, Watched
<1> QED
  BY <1>3, <1>4, <1>5 DEF Watched

\* The fill of a close ends it.
LEMMA CloseFillWatched ==
  ASSUME TypeInv, Bookkeeping, Named, Pendings, OneInFlight, EngineInv, Watched, NEW u \in Sides, OnCloseFilled(u)
  PROVE  Watched'
<1>0. side \in [Sides -> SideState] /\ OpensNamed /\ ordq \in Seq(OrdEvent) /\ ordq # <<>>
  BY Typed DEF Pendings, OnCloseFilled, TakeOrdEvent
<1>1. PICK h : h = Head(ordq).cid
  OBVIOUS
<1>2. /\ h \in Cids /\ order[h].side = u /\ UNCHANGED <<order, pe, applying, posq>>
      /\ (\A s \in Sides : s # u => side'[s] = side[s]) /\ order[h].st = "filled" /\ h # NoCid /\ NoTrade.cid = NoCid
  <2>1. ~OnOrderEnded(u)
    BY DEF OnCloseFilled, OnOrderEnded, TakeOrdEvent
  <2>2. h \in Cids => h # NoCid /\ NoTrade.cid = NoCid
    BY Typed
  <2> QED BY <1>0, <1>1, <2>1, <2>2, EndTaken
<1>3. ASSUME NEW s \in Sides, s # u PROVE Watch(s)'
  <2>1. TimerKept(s) /\ OrdersKept(s)
    BY <1>2, <1>3, SameOrders DEF TimerKept
  <2>2. ViewKept(s)
    BY <1>2, <2>1, QuietView
  <2> QED BY <2>2, <1>3, ViewWatched DEF Watched
<1>4. Watch(u)'
  <2>1. Watch(u)
    BY DEF Watched
  <2>2. side[u].pendingClose = h /\ order[h].kind = "close" /\ side[u].pendingOpen = NoCid
    <3>1. side[u].pendingClose = h
      BY <1>1 DEF OnCloseFilled
    <3> QED BY <1>0, <1>2, <3>1, PendingNamed DEF OneInFlight
  <2>3. applying.cid = h \/ (pe[u].status = "none" /\ ~On(u))
    BY <1>2, <2>2 DEF EngineInv, ClosedOut
  <2>4. (Holding(u) => On(u)) /\ ~OpenOn(u)
    BY <1>2, <2>2, <2>3 DEF Holding, On, OpenOn
  <2>5. /\ side'[u].armed = FALSE /\ side'[u].openedAt = FALSE /\ side'[u].openCid = NoCid /\ side'[u].cooling = TRUE
        /\ side'[u].pendingOpen = NoCid /\ side'[u].pendingClose = NoCid
    <3>1. side'[u] = [ClearOnClose(side[u], order[h].reason) EXCEPT !.pendingClose = NoCid]
      BY <1>0, <1>1 DEF OnCloseFilled
    <3> QED BY <1>0, <2>2, <3>1 DEF ClearOnClose, ClearPosition, SideState
  <2>6. /\ (On(u)' <=> On(u)) /\ (OpenOn(u)' <=> OpenOn(u)) /\ (CloseOn(u)' <=> CloseOn(u))
        /\ (Holding(u)' <=> Holding(u)) /\ (Opening(u)' <=> Opening(u)) /\ (LiveClose(u)' <=> LiveClose(u))
        /\ (ClosedTold(u)' <=> ClosedTold(u)) /\ pe' = pe
    BY <1>2 DEF On, OpenOn, CloseOn, Holding, Opening, LiveClose, ClosedTold
  <2>7. ~FilledOpen(u)' /\ ~Filled(u)'
    BY <2>5 DEF FilledOpen, Filled
  <2> QED BY <2>1, <2>4, <2>5, <2>6, <2>7 DEF Watch
<1>5. CloseOfOne'
  BY <1>2 DEF CloseOfOne, Watched
<1> QED
  BY <1>3, <1>4, <1>5 DEF Watched

\* An order that ended otherwise changes nothing of the watch.
LEMMA EndWatched ==
  ASSUME TypeInv, Bookkeeping, Named, Pendings, Watched, NEW u \in Sides, OnOrderEnded(u)
  PROVE  Watched'
<1>0. side \in [Sides -> SideState] /\ OpensNamed
  BY Typed DEF Pendings
<1>1. PICK h : h = Head(ordq).cid
  OBVIOUS
<1>2. /\ UNCHANGED <<order, pe, applying, posq>> /\ order[h].st # "filled"
      /\ \A s \in Sides : /\ side'[s].pendingOpen = IF side[s].pendingOpen = h THEN NoCid ELSE side[s].pendingOpen
                          /\ side'[s].pendingClose = IF side[s].pendingClose = h THEN NoCid ELSE side[s].pendingClose
  BY <1>0, <1>1, EndTaken
<1>3. ASSUME NEW s \in Sides PROVE Watch(s)'
  <2>1. OrdersKept(s)
    BY <1>2 DEF OrdersKept, Filled, FilledOpen
  <2>2. TimerKept(s)
    <3>1. /\ side'[s].armed = side[s].armed /\ side'[s].openedAt = side[s].openedAt
          /\ side'[s].openCid = side[s].openCid /\ side'[s].cooling = side[s].cooling
      <4>1. CASE s = u
        <5>1. side'[u] = [side[u] EXCEPT !.pendingOpen = IF @ = h THEN NoCid ELSE @, !.pendingClose = IF @ = h THEN NoCid ELSE @]
          BY <1>0, <1>1 DEF OnOrderEnded
        <5> QED BY <1>0, <4>1, <5>1 DEF SideState
      <4>2. CASE s # u
        BY <1>0, <4>2 DEF OnOrderEnded
      <4> QED BY <4>1, <4>2
    <3> QED BY <1>2, <3>1 DEF TimerKept
  <2>3. ViewKept(s)
    BY <1>2, <2>1, <2>2, QuietView
  <2> QED BY <2>3, ViewWatched DEF Watched
<1>4. CloseOfOne'
  BY <1>2 DEF CloseOfOne, Watched
<1> QED
  BY <1>3, <1>4 DEF Watched

\* A decision to open, when nothing is pending and nothing of the side is left.
LEMMA OpenWatched ==
  ASSUME TypeInv, Bookkeeping, Named, Quiet, Watched, NEW u \in Sides, DecideOpen(u), OnePerPosition'
  PROVE  Watched'
<1>0. /\ side \in [Sides -> SideState] /\ order \in [Cids -> Order] /\ sent \in Nat
      /\ applying # NoTrade => applying.cid \in Cids /\ applying.cid <= sent
      /\ \A s \in Sides : side[s].pendingClose \in Cids \cup {NoCid} /\ side[s].pendingClose # NoCid => side[s].pendingClose <= sent
  BY Typed DEF Named, ClosesNamed
<1>1. \A s \in Sides : side[s].pendingOpen = NoCid /\ side[s].pendingClose = NoCid
  BY DEF DecideOpen, Quiet, Early, IsPending, PendingOn
<1>2. PICK c \in Cids : c = sent'
  BY <1>0, BoundsAssumption DEF DecideOpen, Cids
<1>3. /\ c > sent /\ order[c].st = "none" /\ UNCHANGED <<pe, applying, posq>>
      /\ \A d \in Cids : d # c => order'[d] = order[d]
      /\ order'[c].kind = "open" /\ order'[c].side = u /\ order'[c].st = "queued" /\ order'[c].alone = Alone(u)
  BY <1>0, <1>2 DEF DecideOpen, engineVars, Bookkeeping
<1>4. /\ \A s \in Sides : s # u => side'[s] = side[s]
      /\ side'[u].pendingOpen = c /\ side'[u].pendingClose = NoCid
      /\ side'[u].armed = side[u].armed /\ side'[u].openedAt = side[u].openedAt
      /\ side'[u].openCid = side[u].openCid /\ side'[u].cooling = side[u].cooling
  BY <1>0, <1>1, <1>2 DEF DecideOpen, SideState
<1>5. \A s \in Sides : TradeKept(s) /\ (LiveClose(s)' <=> LiveClose(s)) /\ (ClosedTold(s)' <=> ClosedTold(s)) /\ (On(s)' <=> On(s))
  <2>1. applying # NoTrade => order'[applying.cid] = order[applying.cid]
    BY <1>0, <1>3 DEF Cids
  <2>2. \A s \in Sides : TradeKept(s) /\ (On(s)' <=> On(s))
    BY <1>3, <2>1 DEF TradeKept, OpenOn, CloseOn, On
  <2>3. \A s \in Sides : LiveClose(s)' <=> LiveClose(s)
    BY <1>3 DEF LiveClose
  <2>4. \A s \in Sides : ClosedTold(s)' <=> ClosedTold(s)
    BY <1>3 DEF ClosedTold
  <2> QED BY <2>2, <2>3, <2>4
<1>6. ASSUME NEW s \in Sides, s # u PROVE Watch(s)'
  <2>1. OrdersKept(s) /\ TimerKept(s) /\ pe'[s].status = pe[s].status
    BY <1>1, <1>3, <1>4, <1>6 DEF OrdersKept, Filled, FilledOpen, TimerKept
  <2>2. Opening(s)' => Opening(s)
    BY <1>3, <1>6 DEF Opening
  <2>3. ViewKept(s)
    BY <1>5, <2>1, <2>2 DEF ViewKept
  <2> QED BY <1>6, <2>3, ViewWatched DEF Watched
<1>7. Watch(u)'
  <2>1. Watch(u) /\ ~side[u].cooling
    BY DEF Watched, DecideOpen
  <2>2. ~Filled(u) /\ ~FilledOpen(u) /\ ~Filled(u)' /\ ~FilledOpen(u)'
    BY <1>1, <1>3, <1>4 DEF Filled, FilledOpen
  <2>3. pe[u].status = "none" /\ ~On(u)
    BY <1>3 DEF OnePerPosition, Alone, On
  <2>4. ~side[u].armed /\ ~ClosedTold(u)
    BY <2>1, <2>2, <2>3 DEF Watch, Holding
  <2>5. ~Holding(u)' /\ pe'[u].status = "none" /\ ~OpenOn(u)' /\ ~CloseOn(u)'
    BY <1>3, <1>5, <2>3 DEF Holding, OpenOn, CloseOn
  <2> QED BY <1>4, <1>5, <2>1, <2>2, <2>4, <2>5 DEF Watch
<1>8. CloseOfOne'
  BY <1>3 DEF CloseOfOne, Watched
<1> QED
  BY <1>6, <1>7, <1>8 DEF Watched

\* The cooldown ends when nothing is on its way.
LEMMA CooldownWatched ==
  ASSUME TypeInv, Watched, NEW u \in Sides, CooldownOver(u)
  PROVE  Watched'
<1>0. side \in [Sides -> SideState] /\ UNCHANGED <<order, pe, applying, posq>> /\ applying = NoTrade /\ posq = <<>>
  BY Typed DEF CooldownOver, engineVars
<1>1. /\ \A s \in Sides : s # u => side'[s] = side[s]
      /\ side'[u].armed = side[u].armed /\ side'[u].openedAt = side[u].openedAt /\ side'[u].openCid = side[u].openCid
      /\ side'[u].pendingOpen = side[u].pendingOpen /\ side'[u].pendingClose = side[u].pendingClose
      /\ side[u].cooling /\ side'[u].cooling = FALSE
  BY <1>0 DEF CooldownOver, SideState
<1>2. ASSUME NEW s \in Sides, s # u PROVE Watch(s)'
  <2>1. TimerKept(s) /\ OrdersKept(s)
    BY <1>0, <1>1, <1>2, SameOrders DEF TimerKept
  <2>2. ViewKept(s)
    BY <1>0, <2>1, QuietView
  <2> QED BY <2>2, <1>2, ViewWatched DEF Watched
<1>3. Watch(u)'
  <2>1. Watch(u)
    BY DEF Watched
  <2>2. /\ OrdersKept(u) /\ (Holding(u)' <=> Holding(u)) /\ (LiveClose(u)' <=> LiveClose(u)) /\ pe' = pe
    BY <1>0, <1>1, SameOrders DEF Holding, LiveClose
  <2>3. ~On(u) /\ ~On(u)' /\ ~OpenOn(u)' /\ ~CloseOn(u)' /\ ~ClosedTold(u)'
    BY <1>0 DEF On, OpenOn, CloseOn, ClosedTold
  <2> QED BY <1>1, <2>1, <2>2, <2>3 DEF Watch, OrdersKept
<1>4. CloseOfOne'
  BY <1>0 DEF CloseOfOne, Watched
<1> QED
  BY <1>2, <1>3, <1>4 DEF Watched

\* Every step keeps the watch.
LEMMA StepWatched ==
  ASSUME ~Timeouts, ~Lossy, MaxRestarts = 0, DuplicateInv, Named, Untouched, Pendings, EngineInv, Watched,
         OnePerPosition', [Next]_vars
  PROVE  Watched'
<1>0. TypeInv /\ Bookkeeping /\ OneInFlight /\ Quiet /\ pc # "stopped" /\ OpenKnown
  BY DEF DuplicateInv, FlightInv
<1>1. CASE Calm
  <2>1. UNCHANGED <<order, pe, applying>> /\ (posq' = posq \/ (posq # <<>> /\ posq' = Tail(posq)))
    BY <1>1 DEF Calm
  <2>2. ASSUME NEW s \in Sides PROVE Watch(s)'
    <3>1. TimerKept(s) /\ OrdersKept(s)
      BY <1>1, <2>1, SameOrders DEF Calm, SideKept, WatchKept, TimerKept
    <3> QED BY <1>0, <2>1, <3>1, QuietView, ViewWatched DEF Watched
  <2> QED BY <2>1, <2>2 DEF Watched, CloseOfOne
<1>2. ASSUME NEW T \in SUBSET Sides, NEW reason \in Reasons, SendsCloses(T, reason) PROVE Watched'
  BY <1>0, <1>2, SendsWatched
<1>3. CASE OnPositionClosed
  BY <1>0, <1>3, ClosedWatched
<1>4. CASE OnOrderUnmatched
  <2>1. UNCHANGED <<order, pe, applying, posq, side>>
    BY <1>4 DEF OnOrderUnmatched, TakeOrdEvent, engineVars
  <2>2. ASSUME NEW s \in Sides PROVE Watch(s)'
    <3>1. TimerKept(s) /\ OrdersKept(s)
      BY <2>1, SameOrders DEF TimerKept
    <3> QED BY <1>0, <2>1, <3>1, QuietView, ViewWatched DEF Watched
  <2> QED BY <2>1, <2>2 DEF Watched, CloseOfOne
<1>5. ASSUME NEW u \in Sides, OnOpenFilled(u) PROVE Watched'
  BY <1>0, <1>5, OpenFillWatched
<1>6. ASSUME NEW u \in Sides, OnCloseFilled(u) PROVE Watched'
  BY <1>0, <1>6, CloseFillWatched
<1>7. ASSUME NEW u \in Sides, OnOrderEnded(u) PROVE Watched'
  BY <1>0, <1>7, EndWatched
<1>8. ASSUME NEW u \in Sides, DecideOpen(u) PROVE Watched'
  BY <1>0, <1>8, OpenWatched
<1>9. ASSUME NEW u \in Sides, CooldownOver(u) PROVE Watched'
  BY <1>0, <1>9, CooldownWatched
<1>10. CASE Engine
  BY <1>0, <1>10, EngineWatched
<1> QED
  BY <1>0, <1>1, <1>2, <1>3, <1>4, <1>5, <1>6, <1>7, <1>8, <1>9, <1>10, RestSteps

-----------------------------------------------------------------------------
(* What is watched at rest *)

RestInv == DuplicateInv /\ CacheInv /\ Untouched /\ Pendings /\ (OnePerPosition => Watched)

LEMMA InitRest ==
  ASSUME Init
  PROVE  RestInv
<1>1. CacheInv
  BY InitCache
<1>2. DuplicateInv
  BY <1>1 DEF CacheInv, EngineKept, DuplicateInv, OpenKnown, Init, NoOrder
<1>3. Untouched
  BY DEF Init, Untouched, Idle, Blank, OpenRecords
<1>4. Pendings
  BY DEF Init, Pendings, OpensNamed, ClosesKnown, ToHear, Blank, NoOrder
<1>5. Watched
  <2>1. CloseOfOne
    BY DEF Init, CloseOfOne, NoOrder
  <2>2. \A s \in Sides : ~Filled(s) /\ ~FilledOpen(s) /\ ~On(s) /\ ~OpenOn(s) /\ ~CloseOn(s) /\ ~ClosedTold(s) /\ ~Holding(s)
    BY DEF Init, Filled, FilledOpen, On, OpenOn, CloseOn, ClosedTold, Holding, Blank, NoPosition
  <2> QED BY <2>1, <2>2 DEF Init, Watched, Watch, Blank, NoPosition
<1> QED
  BY <1>1, <1>2, <1>3, <1>4, <1>5 DEF RestInv

LEMMA StepRest ==
  ASSUME ~Timeouts, ~Lossy, MaxRestarts = 0, Amount = 1, RestInv, [Next]_vars
  PROVE  RestInv'
<1>0. /\ DuplicateInv /\ CacheInv /\ Untouched /\ Pendings /\ TypeInv /\ FlightInv /\ Bookkeeping /\ Named /\ EngineKept
      /\ pc # "stopped"
  BY DEF RestInv, CacheInv, EngineKept, DuplicateInv, FlightInv
<1>1. DuplicateInv' /\ pc' # "stopped"
  <2>1. DuplicateInv'
    BY <1>0, StepDuplicate
  <2> QED BY <2>1 DEF DuplicateInv
<1>2. CacheInv' /\ (OnePerPosition' => OnePerPosition)
  BY <1>0, StepCache, StepEngine
<1>3. Untouched'
  BY <1>0, <1>1, StepUntouched
<1>4. Pendings'
  BY <1>0, StepPendings
<1>5. ASSUME OnePerPosition' PROVE Watched'
  <2>1. EngineInv /\ Watched
    BY <1>0, <1>2, <1>5 DEF RestInv, EngineKept
  <2> QED BY <1>0, <1>5, <2>1, StepWatched
<1> QED
  BY <1>1, <1>2, <1>3, <1>4, <1>5 DEF RestInv

\* Nothing that is pending at rest has filled, so a side is watched when the engine holds it.
LEMMA WatchedAtRest ==
  ASSUME RestInv, AtRest, OnePerPosition, NEW s \in Sides
  PROVE  (side[s].armed <=> Open(s)) /\ (Has(s) <=> Open(s)) /\ side[s].openedAt = side[s].armed
<1>1. \A c : ~Coming(c)
  BY DEF AtRest, Coming
<1>2. ~Filled(s) /\ ~FilledOpen(s) /\ ~On(s)
  BY <1>1 DEF RestInv, Pendings, ToHear, Filled, FilledOpen, Ended, AtRest, On
<1>3. ~LiveClose(s)
  BY DEF AtRest, LiveClose
<1>4. Watch(s)
  BY DEF RestInv, Watched
<1>5. pe[s].status \in {"none", "Opening", "Open", "Closing"} /\ side[s].armed \in BOOLEAN
  <2>1. TypeInv /\ side \in [Sides -> SideState]
    BY Typed DEF RestInv, DuplicateInv, FlightInv
  <2> QED BY <2>1, Typed DEF SideState
<1>6. side[s].armed <=> Open(s)
  BY <1>2, <1>3, <1>4, <1>5 DEF Watch, Holding, Open
<1>7. Has(s) <=> Open(s)
  BY CacheAtRest DEF RestInv, CacheConverges, Open
<1> QED
  BY <1>4, <1>6, <1>7 DEF Watch

\* A held position is watched: it has its stop-loss, its take-profit and its opening time,
\* whichever of the two queues told the worker first.
THEOREM HeldIsProtected ==
  ASSUME ~Timeouts, ~Lossy, MaxRestarts = 0, Amount = 1
  PROVE  Spec => []Protected
<1>1. RestInv /\ [Next]_vars => RestInv'
  BY StepRest
<1>2. RestInv => Protected
  BY WatchedAtRest DEF Protected
<1> QED
  BY <1>1, <1>2, InitRest, PTL DEF Spec

\* No side without a position is still timed, so that a tick gets as far as the stop-loss and
\* the take-profit of the side that has one.
THEOREM ExitsAreReached ==
  ASSUME ~Timeouts, ~Lossy, MaxRestarts = 0, Amount = 1
  PROVE  Spec => []ExitsReached
<1>1. RestInv /\ [Next]_vars => RestInv'
  BY StepRest
<1>2. RestInv => ExitsReached
  BY WatchedAtRest DEF ExitsReached
<1> QED
  BY <1>1, <1>2, InitRest, PTL DEF Spec

-----------------------------------------------------------------------------
(* The books *)

\* The closes that have filled and been counted, and the sides whose trade record is to be closed.
Counted == {c \in Cids : order[c].kind = "close" /\ order[c].st = "filled" /\ side[order[c].side].pendingClose # c}
Owing(s) == side[s].armed \/ Filled(s)

\* Every filled order is in the books or about to be put there.
OpensBooked ==
  \A c \in Cids : order[c].kind = "open" /\ order[c].st = "filled" =>
    record[c] # "none" \/ side[order[c].side].pendingOpen = c
ClosesBooked ==
  \A c \in Cids : order[c].kind # "open" /\ order[c].st = "filled" =>
    (\E i \in DOMAIN closes : closes[i].by = c) \/ side[order[c].side].pendingClose = c

\* There is an open record for each side that will close one, whichever it finds.
RecordsOwed == \A s, t \in Sides : Owing(s) /\ Owing(t) => \E c, d \in OpenRecords : s # t => c # d
RecordsNew ==
  /\ \A s \in Sides : side[s].pendingOpen # NoCid => record[side[s].pendingOpen] = "none"
  /\ \A c \in Cids : record[c] # "none" => c <= sent
Books == /\ trades = Cardinality(Counted)
         /\ OpensBooked /\ ClosesBooked /\ RecordsOwed /\ RecordsNew

LEMMA TwoSides == \A s, t, u \in Sides : s # u /\ t # u => s = t
<1> SUFFICES ASSUME NEW s \in Sides, NEW t \in Sides, NEW u \in Sides, s # u, t # u, s # t PROVE FALSE
  OBVIOUS
<1>1. IsFiniteSet({s, t}) /\ Cardinality({s, t}) = 2
  <2>1. {s, t} = {s} \cup {t} /\ t \notin {s}
    OBVIOUS
  <2>2. IsFiniteSet({s}) /\ Cardinality({s}) = 1
    BY FS_Singleton
  <2> QED BY <2>1, <2>2, FS_AddElement
<1>2. IsFiniteSet({s, t, u}) /\ Cardinality({s, t, u}) = 3
  <2>1. {s, t, u} = {s, t} \cup {u} /\ u \notin {s, t}
    OBVIOUS
  <2> QED BY <1>1, <2>1, FS_AddElement
<1>3. {s, t, u} \subseteq Sides
  OBVIOUS
<1>4. Cardinality(Sides) \in Nat /\ IsFiniteSet(Sides) /\ Cardinality(Sides) <= 2
  BY SidesAssumption, FS_CardinalityType
<1>5. Cardinality({s, t, u}) <= Cardinality(Sides)
  BY <1>3, <1>4, FS_Subset
<1> QED
  BY <1>2, <1>4, <1>5

\* A step that books nothing: what fills is pending, and what is pending stays or has failed.
LEMMA BooksStay ==
  ASSUME TypeInv, Books, UNCHANGED books, sent' \in Nat, sent' >= sent,
         \A c \in Cids : order'[c].st = "filled" =>
           /\ order'[c].kind = order[c].kind /\ order'[c].side = order[c].side
           /\ order'[c].kind = "open" =>
                \/ side'[order[c].side].pendingOpen = c
                \/ order[c].st = "filled" /\ side[order[c].side].pendingOpen # c
           /\ order'[c].kind # "open" =>
                \/ side'[order[c].side].pendingClose = c
                \/ order[c].st = "filled" /\ side[order[c].side].pendingClose # c,
         \A c \in Counted : order'[c] = order[c] /\ side'[order[c].side].pendingClose # c,
         \A s \in Sides : /\ Owing(s)' => Owing(s)
                          /\ side'[s].pendingOpen # NoCid => record[side'[s].pendingOpen] = "none"
  PROVE  Books'
<1>0. sent \in Nat /\ \A c \in Cids : c \in Nat
  BY Typed DEF Cids
<1>1. record' = record /\ closes' = closes /\ trades' = trades
  BY DEF books
<1>2. Counted' = Counted
  BY DEF Counted
<1>3. trades' = Cardinality(Counted)'
  BY <1>1, <1>2 DEF Books
<1>4. OpensBooked' /\ ClosesBooked'
  BY <1>1 DEF Books, OpensBooked, ClosesBooked
<1>5. RecordsOwed'
  BY <1>1 DEF Books, RecordsOwed, OpenRecords
<1>6. RecordsNew'
  BY <1>0, <1>1 DEF Books, RecordsNew
<1> QED
  BY <1>3, <1>4, <1>5, <1>6 DEF Books

\* No order changes.
LEMMA BooksQuiet ==
  ASSUME TypeInv, Books, UNCHANGED <<books, sent, order>>,
         \A s \in Sides :
           /\ \/ side'[s].pendingOpen = side[s].pendingOpen
              \/ order[side[s].pendingOpen].st # "filled" /\ side'[s].pendingOpen = NoCid
           /\ \/ side'[s].pendingClose = side[s].pendingClose
              \/ order[side[s].pendingClose].st # "filled" /\ side'[s].pendingClose = NoCid
           /\ side'[s].armed => side[s].armed
  PROVE  Books'
<1>0. sent \in Nat /\ NoCid \notin Cids /\ \A c \in Cids : order[c].side \in Sides
  BY Typed
<1>1. sent' \in Nat /\ sent' >= sent
  BY <1>0
<1>2. ASSUME NEW c \in Cids, order'[c].st = "filled"
      PROVE  /\ order'[c] = order[c]
             /\ side'[order[c].side].pendingOpen = c <=> side[order[c].side].pendingOpen = c
             /\ side'[order[c].side].pendingClose = c <=> side[order[c].side].pendingClose = c
  BY <1>0, <1>2
<1>3. \A c \in Counted : order'[c] = order[c] /\ side'[order[c].side].pendingClose # c
  BY <1>2 DEF Counted
<1>4. ASSUME NEW s \in Sides
      PROVE  /\ Owing(s)' => Owing(s)
             /\ side'[s].pendingOpen # NoCid => record[side'[s].pendingOpen] = "none"
  BY DEF Owing, Filled, Books, RecordsNew
<1> QED
  BY <1>1, <1>2, <1>3, <1>4, BooksStay

\* The fill of an opening order opens its record.
LEMMA OpenBooked ==
  ASSUME TypeInv, Bookkeeping, Named, Pendings, OneInFlight, Books, NEW u \in Sides, OnOpenFilled(u)
  PROVE  Books'
<1>0. /\ side \in [Sides -> SideState] /\ OpensNamed /\ ordq \in Seq(OrdEvent) /\ ordq # <<>> /\ record \in [Cids -> TradeRecord]
      /\ sent \in Nat /\ NoCid \notin Cids /\ \A c \in Cids : c \in Nat /\ order[c].side \in Sides
  BY SMTT(20), Typed DEF Pendings, OnOpenFilled, TakeOrdEvent, Cids, TypeInv, TypeOK
<1>1. PICK h : h = Head(ordq).cid
  OBVIOUS
<1>2. /\ h \in Cids /\ order[h].side = u /\ UNCHANGED <<order, sent, trades, closes>>
      /\ (\A s \in Sides : s # u => side'[s] = side[s]) /\ order[h].st = "filled" /\ h # NoCid
      /\ record' = [record EXCEPT ![h] = "open"] /\ side[u].pendingOpen = h
  <2>1. ~OnOrderEnded(u)
    BY DEF OnOpenFilled, OnOrderEnded, TakeOrdEvent
  <2> QED BY <1>0, <1>1, <2>1, EndTaken DEF OnOpenFilled
<1>3. /\ side'[u].pendingOpen = NoCid /\ side'[u].pendingClose = side[u].pendingClose
  BY <1>0, <1>1 DEF OnOpenFilled, SideState
<1>4. /\ record'[h] = "open" /\ \A c \in Cids : c # h => record'[c] = record[c]
      /\ record[h] = "none" /\ h <= sent /\ \A s \in Sides : s # u => side[s].pendingOpen = NoCid
  BY <1>0, <1>2 DEF Books, RecordsNew, OpensNamed, OneInFlight
<1>5. Counted' = Counted
  BY <1>0, <1>2, <1>3 DEF Counted
<1>6. OpensBooked'
  BY <1>0, <1>2, <1>3, <1>4 DEF Books, OpensBooked
<1>7. ClosesBooked'
  BY <1>0, <1>2, <1>3 DEF Books, ClosesBooked
<1>8. RecordsOwed'
  <2>1. OpenRecords' = OpenRecords \cup {h} /\ h \notin OpenRecords
    BY <1>2, <1>4 DEF OpenRecords
  <2>2. \A s \in Sides : s # u => Owing(s)' = Owing(s)
    BY <1>2 DEF Owing, Filled
  <2>3. ASSUME NEW s \in Sides, NEW t \in Sides, Owing(s)', Owing(t)'
        PROVE  \E c, d \in OpenRecords' : s # t => c # d
    <3>1. CASE s # u /\ t # u
      <4>1. PICK c, d \in OpenRecords : s # t => c # d
        BY <2>2, <2>3, <3>1 DEF Books, RecordsOwed
      <4> QED BY <2>1, <4>1
    <3>2. CASE s # u /\ t = u
      <4>1. PICK c \in OpenRecords : TRUE
        BY <2>2, <2>3, <3>2 DEF Books, RecordsOwed
      <4> QED BY <2>1, <4>1
    <3>3. CASE s = u /\ t # u
      <4>1. PICK c \in OpenRecords : TRUE
        BY <2>2, <2>3, <3>3 DEF Books, RecordsOwed
      <4> QED BY <2>1, <4>1
    <3>4. CASE s = u /\ t = u
      BY <2>1, <3>4
    <3> QED BY <3>1, <3>2, <3>3, <3>4
  <2> QED BY <2>3 DEF RecordsOwed
<1>9. RecordsNew'
  BY <1>0, <1>2, <1>3, <1>4 DEF Books, RecordsNew
<1>10. trades' = Cardinality(Counted)'
  BY <1>2, <1>5 DEF Books
<1> QED
  BY <1>6, <1>7, <1>8, <1>9, <1>10 DEF Books

\* The fill of a close is counted, and closes a record: that of its side or the newest open one.
LEMMA CloseBooked ==
  ASSUME TypeInv, Bookkeeping, Named, Pendings, OneInFlight, Books, NEW u \in Sides, OnCloseFilled(u)
  PROVE  Books'
<1>0. /\ side \in [Sides -> SideState] /\ OpensNamed /\ ordq \in Seq(OrdEvent) /\ ordq # <<>> /\ record \in [Cids -> TradeRecord]
      /\ sent \in Nat /\ NoCid \notin Cids /\ \A c \in Cids : c \in Nat /\ order[c].side \in Sides
      /\ closes \in Seq(CloseRow) /\ trades \in Nat
  BY SMTT(20), Typed DEF Pendings, OnCloseFilled, TakeOrdEvent, Cids, TypeInv, TypeOK
<1>1. PICK h : h = Head(ordq).cid
  OBVIOUS
<1>2. /\ h \in Cids /\ order[h].side = u /\ UNCHANGED <<order, sent>> /\ trades' = trades + 1
      /\ (\A s \in Sides : s # u => side'[s] = side[s]) /\ order[h].st = "filled" /\ h # NoCid
      /\ side[u].pendingClose = h /\ order[h].kind = "close" /\ \A s \in Sides : side[s].pendingOpen = NoCid
  <2>1. ~OnOrderEnded(u)
    BY DEF OnCloseFilled, OnOrderEnded, TakeOrdEvent
  <2>2. h \in Cids /\ order[h].side = u /\ (\A s \in Sides : s # u => side'[s] = side[s]) /\ order[h].st = "filled"
    BY <1>0, <1>1, <2>1, EndTaken
  <2>3. side[u].pendingClose = h /\ trades' = trades + 1 /\ UNCHANGED <<order, sent>>
    BY <1>1 DEF OnCloseFilled, TakeOrdEvent
  <2>4. h # NoCid /\ order[h].kind = "close"
    BY <1>0, <2>2, <2>3, PendingNamed
  <2>5. \A s \in Sides : side[s].pendingOpen = NoCid
    BY <2>3, <2>4 DEF OneInFlight
  <2> QED BY <2>2, <2>3, <2>4, <2>5
<1>3. side'[u].pendingOpen = NoCid /\ side'[u].pendingClose = NoCid /\ side'[u].armed = FALSE
  <2>1. side'[u] = [ClearOnClose(side[u], order[h].reason) EXCEPT !.pendingClose = NoCid]
    BY <1>0, <1>1 DEF OnCloseFilled
  <2> QED BY <1>0, <1>2, <2>1 DEF ClearOnClose, ClearPosition, SideState
<1>4. PICK r \in Cids : CloseRecord(r, h) 
  <2>1. OpenRecords # {}
    <3>1. Owing(u)
      BY <1>2 DEF Owing, Filled
    <3> QED BY <3>1 DEF Books, RecordsOwed
  <2>2. LatestOpen \in Cids
    BY <2>1, LatestOpenTyped DEF OpenRecords
  <2>3. PICK r : r = IF side[u].openCid # NoCid THEN side[u].openCid ELSE LatestOpen
    OBVIOUS
  <2>4. side[u].openCid \in Cids \cup {NoCid}
    BY <1>0 DEF SideState
  <2>5. r \in Cids /\ r # NoCid
    BY <1>0, <2>2, <2>3, <2>4
  <2>6. IF r # NoCid THEN CloseRecord(r, h) ELSE UNCHANGED <<record, closes>>
    BY <1>1, <2>3 DEF OnCloseFilled
  <2> QED BY <2>5, <2>6
<1>5. /\ \A c \in Cids : c # r => record'[c] = record[c]
      /\ \A c \in Cids : record'[c] = "none" <=> record[c] = "none"
      /\ OpenRecords \ {r} \subseteq OpenRecords'
  BY <1>0, <1>4 DEF CloseRecord, OpenRecords
<1>6. /\ \A i \in DOMAIN closes : i \in DOMAIN closes' /\ closes'[i] = closes[i]
      /\ \E i \in DOMAIN closes' : closes'[i].by = h
  <2>1. PICK row : row = [open |-> r, by |-> h]
    OBVIOUS
  <2>2. closes' = Append(closes, row) /\ row.by = h
    BY <1>4, <2>1 DEF CloseRecord
  <2>3. Len(closes) + 1 \in DOMAIN closes' /\ closes'[Len(closes) + 1] = row
    BY <1>0, <2>2
  <2>4. \A i \in DOMAIN closes : i \in DOMAIN closes' /\ closes'[i] = closes[i]
    BY <1>0, <2>2
  <2> QED BY <2>2, <2>3, <2>4
<1>7. trades' = Cardinality(Counted)'
  <2>1. Counted' = Counted \cup {h} /\ h \notin Counted
    <3>1. \A c \in Cids : c # h => (side'[order[c].side].pendingClose = c <=> side[order[c].side].pendingClose = c)
      BY <1>0, <1>2, <1>3
    <3> QED BY <1>0, <1>2, <1>3, <3>1 DEF Counted
  <2>2. IsFiniteSet(Counted)
    <3>1. IsFiniteSet(Cids)
      BY FS_Interval, BoundsAssumption DEF Cids
    <3> QED BY <3>1, FS_Subset DEF Counted
  <2>3. Cardinality(Counted \cup {h}) = Cardinality(Counted) + 1
    BY <2>1, <2>2, FS_AddElement
  <2>4. trades' = Cardinality(Counted) + 1
    BY <1>2 DEF Books
  <2> QED BY <2>1, <2>3, <2>4
<1>8. OpensBooked'
  BY <1>0, <1>2, <1>5 DEF Books, OpensBooked
<1>9. ClosesBooked'
  <2>1. ASSUME NEW c \in Cids, order[c].kind # "open", order[c].st = "filled"
        PROVE  (\E i \in DOMAIN closes' : closes'[i].by = c) \/ side'[order[c].side].pendingClose = c
    <3>1. CASE c = h
      BY <1>6, <3>1
    <3>2. CASE c # h
      <4>1. side[order[c].side].pendingClose = c => order[c].side # u
        BY <1>2, <3>2
      <4>2. side[order[c].side].pendingClose = c => side'[order[c].side].pendingClose = c
        BY <1>0, <1>2, <4>1
      <4> QED BY <1>6, <2>1, <4>2 DEF Books, ClosesBooked
    <3> QED BY <3>1, <3>2
  <2> QED BY <1>2, <2>1 DEF ClosesBooked
<1>10. RecordsOwed'
  <2>1. ~Owing(u)'
    BY <1>3 DEF Owing, Filled
  <2>2. Owing(u)
    BY <1>2 DEF Owing, Filled
  <2>3. ASSUME NEW s \in Sides, NEW t \in Sides, Owing(s)', Owing(t)'
        PROVE  \E c, d \in OpenRecords' : s # t => c # d
    <3>1. s # u /\ t # u
      BY <2>1, <2>3
    <3>2. s = t
      BY <3>1, TwoSides
    <3>3. Owing(s)
      BY <1>2, <2>3, <3>1 DEF Owing, Filled
    <3>4. PICK c, d \in OpenRecords : c # d
      BY <2>2, <3>1, <3>3 DEF Books, RecordsOwed
    <3>5. c \in OpenRecords' \/ d \in OpenRecords'
      BY <1>5, <3>4
    <3> QED BY <3>2, <3>5
  <2> QED BY <2>3 DEF RecordsOwed
<1>11. RecordsNew'
  <2>1. \A s \in Sides : side'[s].pendingOpen = NoCid
    BY <1>2, <1>3
  <2> QED BY <1>2, <1>5, <2>1 DEF Books, RecordsNew
<1> QED
  BY <1>7, <1>8, <1>9, <1>10, <1>11 DEF Books

\* What fills was live and had nothing traded before it, and a close has a position to close.
LEMMA EngineFills ==
  ASSUME TypeInv, Bookkeeping, Engine, NEW c \in Cids
  PROVE  /\ order[c].st = "filled" => order'[c] = order[c]
         /\ order'[c].st = "filled" /\ order[c].st # "filled" =>
              /\ order[c].st = "live" /\ applying = NoTrade
              /\ order[c].kind = "close" => pe[order[c].side].qty # 0
<1>0. order \in [Cids -> Order] /\ pe \in [Sides -> PePosition] /\ cmds \in Seq(Cids) /\ order[c].side \in Sides
  BY Typed
<1>1. CASE PeOpen \/ PeClose
  <2>1. PICK d : d = Head(cmds)
    OBVIOUS
  <2>2. d \in Cids /\ order[d].st = "queued"
    <3>1. 1 \in DOMAIN cmds /\ cmds[1] = d /\ d \in Cids
      BY SMTT(20), <1>0, <1>1, <2>1 DEF PeOpen, PeClose
    <3> QED BY <3>1 DEF Bookkeeping
  <2>3. order'[d].st # "filled" /\ \A b \in Cids : b # d => order'[b] = order[b]
    BY <1>0, <1>1, <2>1, <2>2 DEF PeOpen, PeClose, Accepted, Refused, Order
  <2> QED BY <2>2, <2>3
<1>2. ASSUME NEW d \in Cids, NEW q \in 1..(Amount * MaxOrders), PeTrade(d, q)
      PROVE  /\ order[c].st = "filled" => order'[c] = order[c]
             /\ order'[c].st = "filled" /\ order[c].st # "filled" =>
                  /\ order[c].st = "live" /\ applying = NoTrade
                  /\ order[c].kind = "close" => pe[order[c].side].qty # 0
  <2>1. order[d].st = "live" /\ applying = NoTrade /\ \A b \in Cids : b # d => order'[b] = order[b]
    BY <1>0, <1>2 DEF PeTrade
  <2>2. order[d].kind = "close" => pe[order[d].side].qty # 0
    <3>1. order[d].kind = "close" => q <= pe[order[d].side].qty
      BY <1>2 DEF PeTrade
    <3>2. q # 0 /\ ~(q <= 0) /\ q \in Nat
      BY <1>2, BoundsAssumption
    <3> QED BY <3>1, <3>2
  <2> QED BY <2>1, <2>2
<1>3. CASE PeApply
  BY <1>3 DEF PeApply
<1>4. ASSUME NEW d \in Cids, NEW how \in {"failed", "canceled"}, PeEnd(d, how)
      PROVE  /\ order[c].st = "filled" => order'[c] = order[c]
             /\ order'[c].st = "filled" => order[c].st = "filled"
  <2>1. order[d].st = "live" /\ order'[d].st # "filled" /\ \A b \in Cids : b # d => order'[b] = order[b]
    BY <1>0, <1>4 DEF PeEnd, Order
  <2> QED BY <2>1
<1> QED
  BY <1>1, <1>2, <1>3, <1>4 DEF Engine

\* The engine fills orders that are pending, and a close only of a side that owes a record.
LEMMA EngineBooked ==
  ASSUME TypeInv, Bookkeeping, Named, Pendings, OpenKnown, OneInFlight, EngineInv, Watched, Books, Engine
  PROVE  Books'
<1>0. sent \in Nat /\ NoCid \notin Cids /\ \A s \in Sides : side[s].pendingClose \in Cids \cup {NoCid}
  BY Typed
<1>1. UNCHANGED <<sent, side>> /\ \A c \in Cids : order'[c].kind = order[c].kind /\ order'[c].side = order[c].side
  BY <1>0, EngineMoves DEF OrderStays
<1>2. UNCHANGED books
  BY DEF Engine, PeOpen, PeClose, PeTrade, PeApply, PeEnd, workerVars
<1>3. ASSUME NEW c \in Cids, order'[c].st = "filled", order[c].st # "filled"
      PROVE  /\ order[c].kind = "open" => side[order[c].side].pendingOpen = c
             /\ order[c].kind # "open" => side[order[c].side].pendingClose = c /\ order[c].kind = "close"
             /\ applying = NoTrade /\ (order[c].kind = "close" => pe[order[c].side].qty # 0)
  <2>1. order[c].st = "live" /\ applying = NoTrade /\ (order[c].kind = "close" => pe[order[c].side].qty # 0)
    BY <1>3, EngineFills
  <2>2. order[c].kind \in {"open", "close"}
    <3>1. order[c] \in Order /\ order[c].kind # "none"
      BY <2>1, Typed DEF Named, LiveKinds
    <3> QED BY <3>1 DEF Order
  <2> QED BY <2>1, <2>2 DEF OpenKnown, Pendings, ClosesKnown, UnderWay
<1>4. ASSUME NEW c \in Cids, order'[c].st = "filled"
      PROVE  /\ order'[c].kind = order[c].kind /\ order'[c].side = order[c].side
             /\ order'[c].kind = "open" =>
                  \/ side'[order[c].side].pendingOpen = c
                  \/ order[c].st = "filled" /\ side[order[c].side].pendingOpen # c
             /\ order'[c].kind # "open" =>
                  \/ side'[order[c].side].pendingClose = c
                  \/ order[c].st = "filled" /\ side[order[c].side].pendingClose # c
  BY <1>1, <1>3, <1>4
<1>5. \A c \in Counted : order'[c] = order[c] /\ side'[order[c].side].pendingClose # c
  BY <1>1, EngineFills DEF Counted
<1>6. ASSUME NEW s \in Sides, Owing(s)' PROVE Owing(s)
  <2>1. CASE side'[s].armed
    BY <1>1, <2>1 DEF Owing
  <2>2. CASE Filled(s)'
    <3>1. PICK c \in Cids : c = side[s].pendingClose /\ order'[c].st = "filled"
      BY <1>0, <1>1, <2>2 DEF Filled
    <3>2. CASE order[c].st = "filled"
      BY <1>0, <3>1, <3>2 DEF Owing, Filled
    <3>3. CASE order[c].st # "filled"
      <4>1. order[c].kind = "close" /\ order[c].side = s /\ c # NoCid
        BY <1>0, <3>1 DEF Named, ClosesNamed
      <4>2. applying = NoTrade /\ pe[s].qty # 0
        BY <1>3, <3>1, <3>3, <4>1
      <4>3. Holding(s) /\ ~On(s)
        BY <4>2 DEF EngineInv, Sized, Holding, On
      <4>4. ~FilledOpen(s)
        BY <3>1, <4>1 DEF OneInFlight, FilledOpen
      <4>5. side[s].armed
        BY <4>3, <4>4 DEF Watched, Watch
      <4> QED BY <4>5 DEF Owing
    <3> QED BY <3>2, <3>3
  <2> QED BY <1>6, <2>1, <2>2 DEF Owing
<1>7. \A s \in Sides : side'[s].pendingOpen # NoCid => record[side'[s].pendingOpen] = "none"
  BY <1>1 DEF Books, RecordsNew
<1>8. sent' \in Nat /\ sent' >= sent
  BY <1>0, <1>1
<1> QED
  BY <1>2, <1>4, <1>5, <1>6, <1>7, <1>8, BooksStay

\* Every step keeps the books.
LEMMA StepBooked ==
  ASSUME ~Timeouts, ~Lossy, MaxRestarts = 0, DuplicateInv, Named, Untouched, Pendings, EngineInv, Watched, Books,
         [Next]_vars
  PROVE  Books'
<1>0. /\ TypeInv /\ Bookkeeping /\ OneInFlight /\ Quiet /\ pc # "stopped" /\ OpenKnown /\ OpensNamed
      /\ sent \in Nat /\ NoCid \notin Cids /\ \A c \in Cids : c \in Nat /\ order[c].side \in Sides
      /\ side \in [Sides -> SideState] /\ order \in [Cids -> Order]
  BY Typed DEF DuplicateInv, FlightInv, Pendings, Cids
<1>1. CASE Calm
  BY <1>0, <1>1, BooksQuiet DEF Calm, SideKept, WatchKept
<1>2. ASSUME NEW T \in SUBSET Sides, NEW reason \in Reasons, SendsCloses(T, reason) PROVE Books'
  <2>1. UNCHANGED books
    BY <1>2 DEF SendsCloses
  <2>2. \A s \in Sides : /\ side[s].pendingOpen = NoCid /\ side[s].pendingClose = NoCid /\ WatchKept(s)
                         /\ side'[s].pendingClose = IF s \in T THEN CloseId(s, T) ELSE NoCid
    BY <1>2 DEF SendsCloses, IsPending, PendingOn
  <2>3. /\ sent' \in Nat /\ sent' >= sent
        /\ \A c \in Cids : c <= sent => order'[c] = order[c]
        /\ \A c \in Cids : c > sent => \/ order'[c] = order[c]
                                       \/ order'[c].kind = "close" /\ order'[c].st = "queued"
        /\ \A s \in T : CloseId(s, T) > sent /\ order'[CloseId(s, T)].st = "queued"
    BY <1>0, <1>2, ClosesSent DEF SendsCloses
  <2> HIDE DEF CloseId
  <2>4. ASSUME NEW c \in Cids, order'[c].st = "filled" \/ order[c].st = "filled"
        PROVE  c <= sent /\ order'[c] = order[c]
    BY <1>0, <2>3, <2>4 DEF Bookkeeping
  <2>5. ASSUME NEW c \in Cids, c <= sent PROVE \A s \in Sides : side'[s].pendingClose # c
    BY <1>0, <2>2, <2>3, <2>5
  <2>6. ASSUME NEW c \in Cids, order'[c].st = "filled"
        PROVE  order'[c] = order[c] /\ side[order[c].side].pendingOpen # c /\ side[order[c].side].pendingClose # c
    BY <1>0, <2>2, <2>4, <2>6
  <2>7. \A c \in Counted : order'[c] = order[c] /\ side'[order[c].side].pendingClose # c
    BY <1>0, <2>4, <2>5 DEF Counted
  <2>8. ASSUME NEW s \in Sides
        PROVE  (Owing(s)' => Owing(s)) /\ side'[s].pendingOpen = NoCid
    <3>1. ~Filled(s)'
      BY <2>2, <2>3 DEF Filled
    <3> QED BY <2>2, <3>1 DEF Owing, WatchKept
  <2> QED BY <1>0, <2>1, <2>3, <2>6, <2>7, <2>8, BooksStay DEF DuplicateInv
<1>3. CASE OnPositionClosed
  <2>1. UNCHANGED <<books, sent, order>>
    BY <1>3 DEF OnPositionClosed, TakePosEvent
  <2>2. \A s \in Sides : /\ side'[s].pendingOpen = side[s].pendingOpen
                         /\ side'[s].pendingClose = side[s].pendingClose
    BY <1>0, <1>3, PositionEventsKeep DEF TypeInv
  <2>3. \A s \in Sides : side'[s].armed => side[s].armed
    <3>1. PICK u : u = Head(posq).side
      OBVIOUS
    <3>2. \/ side' = side
          \/ side' = [side EXCEPT ![u] = ClearOnClose(side[u], "external")]
      BY <1>3, <3>1 DEF OnPositionClosed
    <3>3. \A s \in Sides : ClearOnClose(side[s], "external").armed = FALSE
      BY <1>0 DEF ClearOnClose, ClearPosition, SideState
    <3> QED BY <1>0, <3>2, <3>3
  <2> QED BY <1>0, <2>1, <2>2, <2>3, BooksQuiet
<1>4. CASE OnOrderUnmatched
  <2>1. UNCHANGED <<books, sent, order, side>>
    BY <1>4 DEF OnOrderUnmatched, TakeOrdEvent, books
  <2> QED BY <1>0, <2>1, BooksQuiet
<1>5. ASSUME NEW u \in Sides, OnOpenFilled(u) PROVE Books'
  BY <1>0, <1>5, OpenBooked
<1>6. ASSUME NEW u \in Sides, OnCloseFilled(u) PROVE Books'
  BY <1>0, <1>6, CloseBooked
<1>7. ASSUME NEW u \in Sides, OnOrderEnded(u) PROVE Books'
  <2>1. PICK h : h = Head(ordq).cid
    OBVIOUS
  <2>2. /\ UNCHANGED <<books, order, sent>> /\ order[h].st # "filled"
        /\ \A s \in Sides : /\ side'[s].pendingOpen = IF side[s].pendingOpen = h THEN NoCid ELSE side[s].pendingOpen
                            /\ side'[s].pendingClose = IF side[s].pendingClose = h THEN NoCid ELSE side[s].pendingClose
    <3>1. UNCHANGED books
      BY <1>7 DEF OnOrderEnded
    <3>2. order[h].st \in {"failed", "canceled"} /\ UNCHANGED <<order, sent>>
          /\ \A s \in Sides : /\ side'[s].pendingOpen = IF side[s].pendingOpen = h THEN NoCid ELSE side[s].pendingOpen
                              /\ side'[s].pendingClose = IF side[s].pendingClose = h THEN NoCid ELSE side[s].pendingClose
      BY <1>0, <1>7, <2>1, EndTaken
    <3> QED BY <3>1, <3>2
  <2>3. \A s \in Sides : side'[s].armed = side[s].armed
    <3>1. side'[u] = [side[u] EXCEPT !.pendingOpen = IF @ = h THEN NoCid ELSE @, !.pendingClose = IF @ = h THEN NoCid ELSE @]
      BY <1>0, <1>7, <2>1 DEF OnOrderEnded
    <3>2. side'[u].armed = side[u].armed
      BY <1>0, <3>1 DEF SideState
    <3>3. \A s \in Sides : s # u => side'[s] = side[s]
      BY <1>0, <1>7 DEF OnOrderEnded
    <3> QED BY <3>2, <3>3
  <2> QED BY <1>0, <2>2, <2>3, BooksQuiet
<1>8. ASSUME NEW u \in Sides, DecideOpen(u) PROVE Books'
  <2>1. \A s \in Sides : side[s].pendingOpen = NoCid /\ side[s].pendingClose = NoCid
    BY <1>0, <1>8 DEF DecideOpen, Quiet, Early, IsPending, PendingOn
  <2>2. /\ sent' = sent + 1 /\ sent' \in Cids /\ UNCHANGED books
        /\ \A c \in Cids : c # sent' => order'[c] = order[c]
        /\ order'[sent'].st = "queued" /\ order[sent'].st = "none"
    <3>1. sent' = sent + 1 /\ sent' \in Cids
      BY <1>0, <1>8, BoundsAssumption DEF DecideOpen, Cids
    <3> QED BY <1>0, <1>8, <3>1 DEF DecideOpen, Bookkeeping
  <2>3. /\ side'[u].pendingOpen = sent' /\ side'[u].pendingClose = NoCid /\ side'[u].armed = side[u].armed
        /\ \A s \in Sides : s # u => side'[s] = side[s]
    BY <1>0, <1>8, <2>1 DEF DecideOpen, SideState
  <2>4. \A s \in Sides : ~Filled(s) /\ ~Filled(s)' /\ side'[s].armed = side[s].armed /\ side'[s].pendingClose = NoCid
    BY <2>1, <2>3 DEF Filled
  <2>5. record[sent'] = "none"
    <3>1. ~(sent' <= sent)
      BY <1>0, <2>2
    <3> QED BY <2>2, <3>1 DEF Books, RecordsNew
  <2>6. ASSUME NEW s \in Sides
        PROVE  (Owing(s)' => Owing(s)) /\ (side'[s].pendingOpen # NoCid => record[side'[s].pendingOpen] = "none")
    BY <2>1, <2>3, <2>4, <2>5 DEF Owing
  <2>7. ASSUME NEW c \in Cids, order'[c].st = "filled" \/ order[c].st = "filled"
        PROVE  order'[c] = order[c] /\ side[order[c].side].pendingOpen # c /\ side[order[c].side].pendingClose # c
               /\ side'[order[c].side].pendingClose # c
    BY <1>0, <2>1, <2>2, <2>4, <2>7
  <2>8. \A c \in Counted : order'[c] = order[c] /\ side'[order[c].side].pendingClose # c
    BY <2>7 DEF Counted
  <2>9. sent' \in Nat /\ sent' >= sent
    BY <1>0, <2>2
  <2> QED BY <1>0, <2>2, <2>6, <2>7, <2>8, <2>9, BooksStay DEF DuplicateInv
<1>9. ASSUME NEW u \in Sides, CooldownOver(u) PROVE Books'
  <2>1. UNCHANGED <<books, sent, order>>
    BY <1>9 DEF CooldownOver
  <2>2. \A s \in Sides : /\ side'[s].pendingOpen = side[s].pendingOpen
                         /\ side'[s].pendingClose = side[s].pendingClose /\ side'[s].armed = side[s].armed
    BY <1>0, <1>9 DEF CooldownOver, SideState
  <2> QED BY <1>0, <2>1, <2>2, BooksQuiet
<1>10. CASE Engine
  BY <1>0, <1>10, EngineBooked
<1> QED
  BY <1>0, <1>1, <1>2, <1>3, <1>4, <1>5, <1>6, <1>7, <1>8, <1>9, <1>10, RestSteps

BooksInv == RestInv /\ (OnePerPosition => Books)

\* Every filled order is in the books of a worker that has heard everything: an opening has its
\* trade record, a close is counted and has a closing row, although the record it closes is
\* looked up by recency when the engine's Closed event came before the fill.
THEOREM BooksAreBalanced ==
  ASSUME ~Timeouts, ~Lossy, MaxRestarts = 0, Amount = 1
  PROVE  Spec => []BooksBalance
<1>1. Init => BooksInv
  <2> SUFFICES ASSUME Init PROVE BooksInv
    OBVIOUS
  <2>1. Counted = {} /\ Cardinality({}) = 0
    BY FS_EmptySet DEF Init, Counted, NoOrder
  <2>2. \A s \in Sides : ~Owing(s)
    BY DEF Init, Owing, Filled, Blank
  <2>3. Books
    BY <2>1, <2>2 DEF Init, Books, OpensBooked, ClosesBooked, RecordsOwed, RecordsNew, NoOrder, Blank
  <2> QED BY <2>3, InitRest DEF BooksInv
<1>2. BooksInv /\ [Next]_vars => BooksInv'
  <2> SUFFICES ASSUME BooksInv, [Next]_vars PROVE BooksInv'
    OBVIOUS
  <2>1. RestInv /\ RestInv'
    BY StepRest DEF BooksInv
  <2>2. ASSUME OnePerPosition' PROVE Books'
    <3>1. /\ DuplicateInv /\ Untouched /\ Pendings /\ EngineKept /\ Named
      BY <2>1 DEF RestInv, CacheInv, EngineKept
    <3>2. OnePerPosition
      BY <2>2, <3>1, StepEngine
    <3>3. EngineInv /\ Watched /\ Books
      BY <2>1, <3>1, <3>2 DEF BooksInv, RestInv, EngineKept
    <3> QED BY <3>1, <3>3, StepBooked
  <2> QED BY <2>1, <2>2 DEF BooksInv
<1>3. BooksInv => BooksBalance
  <2> SUFFICES ASSUME BooksInv, AtRest, OnePerPosition
               PROVE  /\ trades = Cardinality({c \in Cids : order[c].kind = "close" /\ order[c].st = "filled"})
                      /\ \A c \in Cids : order[c].st = "filled" =>
                           IF order[c].kind = "open" THEN record[c] # "none" ELSE \E i \in DOMAIN closes : closes[i].by = c
    BY DEF BooksBalance
  <2>1. \A c : ~Coming(c)
    BY DEF AtRest, Coming
  <2>2. \A s \in Sides : ~Filled(s) /\ ~FilledOpen(s)
    BY <2>1 DEF BooksInv, RestInv, Pendings, ToHear, Filled, FilledOpen, Ended
  <2>3. TypeInv /\ Books
    BY DEF BooksInv, RestInv, DuplicateInv, FlightInv
  <2>4. NoCid \notin Cids /\ \A c \in Cids : order[c].side \in Sides
    BY <2>3, Typed
  <2>5. \A c \in Cids : order[c].st = "filled" =>
          side[order[c].side].pendingClose # c /\ side[order[c].side].pendingOpen # c
    BY <2>2, <2>4 DEF Filled, FilledOpen
  <2>6. Counted = {c \in Cids : order[c].kind = "close" /\ order[c].st = "filled"}
    BY <2>5 DEF Counted
  <2> QED BY <2>3, <2>5, <2>6 DEF Books, OpensBooked, ClosesBooked
<1> QED
  BY <1>1, <1>2, <1>3, PTL DEF Spec

-----------------------------------------------------------------------------
(* No trade record is closed twice by one side *)

\* The end of an order is told once; an order that has a record has filled, and its fill
\* has been heard; the record a side refers to is one this side has not closed (the other
\* side may have), and what has a closing row is closed, by an order that has filled.
EndsOnce == \A i, j \in DOMAIN ordq : ordq[i].cid = ordq[j].cid => i = j
FillHeard(c) == order[c].st = "filled" /\ \A i \in DOMAIN ordq : ordq[i].cid # c
RecordsHeard == \A c \in Cids : record[c] # "none" => FillHeard(c)
ClosedFor(s, c) == \E i \in DOMAIN closes : closes[i].open = c /\ order[closes[i].by].side = s
OwnRecord == \A s \in Sides : side[s].openCid # NoCid =>
  record[side[s].openCid] \in {"open", "closed"} /\ ~ClosedFor(s, side[s].openCid)
RowsClosed == \A i \in DOMAIN closes : record[closes[i].open] = "closed" /\ order[closes[i].by].st = "filled"
RecordInv == EndsOnce /\ RecordsHeard /\ OwnRecord /\ RowsClosed /\ ClosedOncePerSide

\* What a step does to the order events and to the orders that have ended.
EndsMove ==
  /\ \A c \in Cids : order[c].st = "filled" => order'[c] = order[c]
  /\ \/ ordq' = ordq \/ ordq' = <<>> \/ (ordq # <<>> /\ ordq' = Tail(ordq))
     \/ \E e \in OrdEvent : order[e.cid].st \notin Ended /\ ordq' = Append(ordq, e)

\* The engine tells the end of an order that has not ended, once.
LEMMA EngineTellsEnds == ASSUME TypeInv, Bookkeeping, Engine PROVE EndsMove
<1>0. /\ order \in [Cids -> Order] /\ cmds \in Seq(Cids) /\ ordq \in Seq(OrdEvent) /\ TypeOK
  BY Typed DEF TypeInv
<1>1. ASSUME NEW c \in Cids, order[c].st \notin Ended, \A d \in Cids : d # c => order'[d] = order[d],
             \/ ordq' = ordq
             \/ \E type \in {"Filled", "Failed", "Canceled"} : ordq' \in {ordq, ordq \o OrderEvent(type, c)}
      PROVE  EndsMove
  <2>1. \A d \in Cids : order[d].st = "filled" => order'[d] = order[d]
    BY <1>1 DEF Ended
  <2>2. ASSUME NEW type \in {"Filled", "Failed", "Canceled"}, ordq' = ordq \o OrderEvent(type, c)
        PROVE  \E e \in OrdEvent : order[e.cid].st \notin Ended /\ ordq' = Append(ordq, e)
    <3>1. PICK e \in OrdEvent : e = [type |-> type, cid |-> c]
      BY DEF OrdEvent
    <3>2. ordq' = Append(ordq, e) /\ e.cid = c
      BY <1>0, <2>2, <3>1 DEF OrderEvent
    <3> QED BY <1>1, <3>2
  <2> QED BY <1>1, <2>1, <2>2 DEF EndsMove
<1>2. ASSUME cmds # <<>> PROVE Head(cmds) \in Cids /\ order[Head(cmds)].st \notin Ended
  <2>1. 1 \in DOMAIN cmds /\ cmds[1] = Head(cmds) /\ Head(cmds) \in Cids
    BY <1>0, <1>2
  <2> QED BY <2>1 DEF Bookkeeping, Ended
<1>3. CASE PeOpen
  <2> DEFINE c == Head(cmds)
             s == order[c].side
  <2>1. cmds # <<>> /\ \A d \in Cids : d # c => order'[d] = order[d]
    BY <1>0, <1>2, <1>3 DEF PeOpen, Accepted, Refused
  <2>2. \/ Tell(Event("Opened", s, "Opening") \o Event("Updated", s, "Opening"), <<>>)
        \/ Tell(<<>>, OrderEvent("Failed", c))
        \/ UNCHANGED ordq
    BY <1>3 DEF PeOpen
  <2>3. ordq' = ordq \/ ordq' \in {ordq, ordq \o OrderEvent("Failed", c)}
    <3> HIDE DEF c, s
    <3> QED BY <1>0, <2>2, TellOrders
  <2> HIDE DEF c, s
  <2> QED BY <1>1, <1>2, <2>1, <2>3 DEF c
<1>4. CASE PeClose
  <2> DEFINE c == Head(cmds)
             s == order[c].side
             q == pe[s].qty
  <2>1. cmds # <<>> /\ \A d \in Cids : d # c => order'[d] = order[d]
    BY <1>0, <1>2, <1>4 DEF PeClose, Refused
  <2>2. \/ Tell(Event("Updated", s, "Closing"), <<>>)
        \/ Tell(<<>>, OrderEvent("Failed", c))
    BY <1>4 DEF PeClose
  <2>3. ordq' = ordq \/ ordq' \in {ordq, ordq \o OrderEvent("Failed", c)}
    <3> HIDE DEF c, s
    <3> QED BY <1>0, <2>2, TellOrders
  <2> HIDE DEF c, s
  <2> QED BY <1>1, <1>2, <2>1, <2>3 DEF c
<1>5. ASSUME NEW c \in Cids, NEW q, PeTrade(c, q) PROVE EndsMove
  <2>1. order[c].st \notin Ended /\ \A d \in Cids : d # c => order'[d] = order[d]
    BY <1>0, <1>5 DEF PeTrade, Ended
  <2>2. Tell(<<>>, OrderEvent("Filled", c)) \/ Tell(<<>>, <<>>)
    BY <1>5 DEF PeTrade
  <2>3. ordq' = ordq \/ ordq' \in {ordq, ordq \o OrderEvent("Filled", c)}
    BY <1>0, <2>2, TellOrders
  <2> QED BY <1>1, <2>1, <2>3
<1>6. CASE PeApply
  <2> DEFINE s == order[applying.cid].side
  <2>1. \/ UNCHANGED ordq
        \/ Tell(Event("Updated", s, "Open"), <<>>)
        \/ Tell(Event("Closed", s, "Closed") \o Event("Updated", s, "Closed"), <<>>)
    BY <1>6 DEF PeApply
  <2>2. UNCHANGED ordq
    <3> HIDE DEF s
    <3> QED BY <1>0, <2>1, TellOrders
  <2> QED BY <1>6, <2>2 DEF PeApply, EndsMove
<1>7. ASSUME NEW c \in Cids, NEW how \in {"failed", "canceled"}, PeEnd(c, how) PROVE EndsMove
  <2>1. order[c].st \notin Ended /\ \A d \in Cids : d # c => order'[d] = order[d]
    BY <1>0, <1>7 DEF PeEnd, Ended
  <2>2. \E p : Tell(p, OrderEvent("Failed", c)) \/ Tell(p, OrderEvent("Canceled", c))
    BY <1>7 DEF PeEnd
  <2>3. ordq' \in {ordq, ordq \o OrderEvent("Failed", c)} \/ ordq' \in {ordq, ordq \o OrderEvent("Canceled", c)}
    BY <1>0, <2>2, TellOrders
  <2> QED BY <1>1, <2>1, <2>3
<1> QED
  BY <1>3, <1>4, <1>5, <1>6, <1>7 DEF Engine

\* So does every step, whether events are lost, orders time out or the worker restarts.
LEMMA StepEnds == ASSUME TypeInv, Bookkeeping, [Next]_vars PROVE EndsMove
<1>0. order \in [Cids -> Order] /\ sent \in Nat
  BY Typed
<1>1. \A c \in Cids : c > sent => order[c].st # "filled"
  BY DEF Bookkeeping
<1>2. CASE Engine
  BY <1>2, EngineTellsEnds
<1>3. CASE WorkerMove \/ \E s \in Sides : DecideOpen(s)
  <2>1. ASSUME NEW c \in Cids, order[c].st = "filled" PROVE order'[c] = order[c]
    <3>1. c <= sent
      BY <1>0, <1>1, <2>1 DEF Cids
    <3>2. ASSUME NEW s \in Sides, DecideOpen(s) PROVE order'[c] = order[c]
      <4>1. c # sent'
        BY <1>0, <3>1, <3>2 DEF DecideOpen, Cids
      <4> QED BY <1>0, <3>2, <4>1 DEF DecideOpen
    <3> QED BY <1>3, <3>1, <3>2 DEF WorkerMove
  <2>2. CASE Recovery \/ StopWorker \/ Tick \/ LlmAsk \/ Decision \/ Cooldown \/ UNCHANGED vars
    <3>1. ordq' = ordq \/ ordq' = <<>>
      BY <2>2 DEF Recovery, WaitOver, StartWorker, Boot, Begin, StopWorker, Tick, PriceTick, LlmAsk, Decision,
         DecideHold, DecideClose, DecideOpen, Cooldown, CooldownOver, vars
    <3> QED BY <2>1, <3>1 DEF EndsMove
  <2>3. CASE Events \/ Lag
    <3>1. ordq' = ordq \/ (ordq # <<>> /\ ordq' = Tail(ordq))
      BY <2>3 DEF Events, OnPositionUpdated, OnPositionOpened, OnPositionClosed, TakePosEvent, OnOrderUnmatched,
         OnOpenFilled, OnCloseFilled, OnOrderEnded, TakeOrdEvent, Lag
    <3> QED BY <2>1, <3>1 DEF EndsMove
  <2> QED BY <1>2, <2>2, <2>3 DEF Next
<1> QED
  BY <1>2, <1>3, StepKinds

\* What has been heard of is not told again.
LEMMA EndsKept ==
  ASSUME TypeInv, Bookkeeping, EndsOnce, EndsMove
  PROVE  EndsOnce' /\ \A c \in Cids : FillHeard(c) => FillHeard(c)'
<1>0. ordq \in Seq(OrdEvent) /\ Len(ordq) \in Nat /\ DOMAIN ordq = 1..Len(ordq)
  BY Typed
<1>1. CASE ordq' = ordq \/ ordq' = <<>>
  BY <1>1 DEF EndsOnce, FillHeard, EndsMove
<1>2. CASE ordq # <<>> /\ ordq' = Tail(ordq)
  <2>1. \A i \in DOMAIN ordq' : i + 1 \in DOMAIN ordq /\ ordq'[i] = ordq[i + 1] /\ i \in Nat
    BY <1>0, <1>2, TailShifts
  <2>2. ASSUME NEW i \in DOMAIN ordq', NEW j \in DOMAIN ordq', ordq'[i].cid = ordq'[j].cid PROVE i = j
    <3>1. i + 1 = j + 1
      BY <2>1, <2>2 DEF EndsOnce
    <3> QED BY <2>1, <3>1
  <2>3. EndsOnce'
    BY <2>2 DEF EndsOnce
  <2> QED BY <2>1, <2>3 DEF FillHeard, EndsMove
<1>3. ASSUME NEW e \in OrdEvent, order[e.cid].st \notin Ended, ordq' = Append(ordq, e)
      PROVE  EndsOnce' /\ \A c \in Cids : FillHeard(c) => FillHeard(c)'
  <2>1. \A i \in DOMAIN ordq' : (i \in DOMAIN ordq /\ ordq'[i] = ordq[i]) \/ (i = Len(ordq) + 1 /\ ordq'[i] = e)
    BY <1>0, <1>3
  <2>2. \A i \in DOMAIN ordq : ordq[i].cid # e.cid
    BY <1>3, EventEnded
  <2>3. EndsOnce'
    BY <2>1, <2>2 DEF EndsOnce
  <2>4. \A c \in Cids : FillHeard(c) => FillHeard(c)'
    BY <1>3, <2>1 DEF FillHeard, EndsMove, Ended
  <2> QED BY <2>3, <2>4
<1> QED
  BY <1>1, <1>2, <1>3 DEF EndsMove

\* The rows there are keep what they say.
LEMMA RowsKept ==
  ASSUME TypeInv, RecordInv, EndsMove
  PROVE  \A i \in DOMAIN closes : /\ closes[i].open \in Cids /\ closes[i].by \in Cids
                                  /\ order'[closes[i].by] = order[closes[i].by]
<1>1. \A i \in DOMAIN closes : closes[i] \in CloseRow
  BY DEF TypeInv, TypeOK
<1>2. \A i \in DOMAIN closes : closes[i].open \in Cids /\ closes[i].by \in Cids
  BY <1>1 DEF CloseRow
<1> QED
  BY <1>2 DEF RecordInv, RowsClosed, EndsMove

\* A step that books nothing.
LEMMA RecordsStay ==
  ASSUME TypeInv, Bookkeeping, RecordInv, EndsMove, UNCHANGED <<record, closes>>,
         \A s \in Sides : side'[s].openCid \in {NoCid, side[s].openCid}
  PROVE  RecordInv'
<1>1. EndsOnce' /\ RecordsHeard'
  BY EndsKept DEF RecordInv, RecordsHeard
<1>2. RowsClosed' /\ ClosedOncePerSide'
  BY RowsKept DEF RecordInv, RowsClosed, ClosedOncePerSide
<1>3. OwnRecord'
  BY RowsKept DEF RecordInv, OwnRecord, ClosedFor
<1> QED
  BY <1>1, <1>2, <1>3 DEF RecordInv

\* The fill of an opening order, which has no record before.
LEMMA RecordOpened ==
  ASSUME TypeInv, Bookkeeping, RecordInv, EndsMove, NEW s \in Sides, OnOpenFilled(s)
  PROVE  RecordInv'
<1>0. /\ ordq \in Seq(OrdEvent) /\ ordq # <<>> /\ side \in [Sides -> SideState] /\ record \in [Cids -> TradeRecord]
      /\ closes \in Seq(CloseRow)
  BY Typed DEF OnOpenFilled, TakeOrdEvent, TypeInv, TypeOK
<1>1. PICK c : c = Head(ordq).cid
  OBVIOUS
<1>2. /\ ordq' = Tail(ordq) /\ UNCHANGED <<order, closes>> /\ Head(ordq).type = "Filled"
      /\ record' = [record EXCEPT ![c] = "open"]
      /\ side' = [side EXCEPT ![s].pendingOpen = NoCid, ![s].armed = TRUE,
                              ![s].openedAt = TRUE, ![s].openFee = TRUE, ![s].openCid = c]
  BY <1>1 DEF OnOpenFilled, TakeOrdEvent
<1>3. 1 \in DOMAIN ordq /\ ordq[1] = Head(ordq) /\ ordq[1].cid = c
  BY <1>0, <1>1
<1>4. c \in Cids /\ order[c].st = "filled"
  BY <1>2, <1>3, EventEnded, EndsTyped
<1>5. record[c] = "none"
  BY <1>3, <1>4 DEF RecordInv, RecordsHeard, FillHeard
<1>6. FillHeard(c)'
  <2>1. \A i \in DOMAIN ordq' : i + 1 \in DOMAIN ordq /\ ordq'[i] = ordq[i + 1] /\ i \in Nat /\ i # 0
    BY <1>0, <1>2, TailShifts
  <2>2. ASSUME NEW i \in DOMAIN ordq' PROVE ordq'[i].cid # c
    <3>1. i + 1 # 1
      BY <2>1
    <3> QED BY <1>3, <2>1, <3>1 DEF RecordInv, EndsOnce
  <2> QED BY <1>2, <1>4, <2>2 DEF FillHeard
<1>7. RecordsHeard' /\ EndsOnce'
  BY <1>0, <1>2, <1>6, EndsKept DEF RecordInv, RecordsHeard
<1>8. OwnRecord'
  <2>1. side'[s].openCid = c /\ \A t \in Sides : t # s => side'[t] = side[t]
    BY <1>0, <1>2 DEF SideState
  <2>2. record'[c] = "open" /\ \A d \in Cids : d # c => record'[d] = record[d]
    BY <1>0, <1>2, <1>4
  <2>3. \A t \in Sides : ~ClosedFor(t, c)
    BY <1>5 DEF RecordInv, RowsClosed, ClosedFor
  <2>4. \A t \in Sides, d \in Cids : ClosedFor(t, d)' = ClosedFor(t, d)
    BY <1>2 DEF ClosedFor
  <2>5. ASSUME NEW t \in Sides, t # s, NEW d, d = side[t].openCid, d # NoCid
        PROVE  record'[d] \in {"open", "closed"} /\ ~ClosedFor(t, d)'
    <3>1. d \in Cids /\ record[d] \in {"open", "closed"} /\ ~ClosedFor(t, d)
      BY <1>0, <2>5 DEF SideState, RecordInv, OwnRecord
    <3> QED BY <1>5, <2>2, <2>4, <3>1
  <2>6. c \in Cids /\ record'[c] \in {"open", "closed"} /\ ~ClosedFor(s, c)'
    BY <1>4, <2>2, <2>3, <2>4
  <2>7. ASSUME NEW t \in Sides, NEW d, d = side'[t].openCid, d # NoCid
        PROVE  record'[d] \in {"open", "closed"} /\ ~ClosedFor(t, d)'
    BY <2>1, <2>5, <2>6, <2>7
  <2> QED BY <2>7 DEF OwnRecord
<1>9. RowsClosed' /\ ClosedOncePerSide'
  BY <1>0, <1>2, <1>5 DEF RecordInv, RowsClosed, ClosedOncePerSide
<1> QED
  BY <1>7, <1>8, <1>9 DEF RecordInv

\* The fill of a close: this side has not closed the record before, and lets go of it.
LEMMA RecordClosed ==
  ASSUME TypeInv, Bookkeeping, Named, RecordInv, EndsMove, NEW s \in Sides, OnCloseFilled(s)
  PROVE  RecordInv'
<1>0. /\ ordq \in Seq(OrdEvent) /\ ordq # <<>> /\ side \in [Sides -> SideState] /\ record \in [Cids -> TradeRecord]
      /\ closes \in Seq(CloseRow)
  BY Typed DEF OnCloseFilled, TakeOrdEvent, TypeInv, TypeOK
<1>1. PICK c, open : c = Head(ordq).cid /\ open = IF side[s].openCid # NoCid THEN side[s].openCid ELSE LatestOpen
  OBVIOUS
<1>2. /\ IF open # NoCid THEN CloseRecord(open, c) ELSE UNCHANGED <<record, closes>>
      /\ side' = [side EXCEPT ![s] = [ClearOnClose(@, order[c].reason) EXCEPT !.pendingClose = NoCid]]
  BY <1>1 DEF OnCloseFilled
<1>3. side'[s].openCid = NoCid /\ \A t \in Sides : t # s => side'[t] = side[t]
  BY <1>0, <1>2 DEF ClearOnClose, ClearPosition, SideState
<1>4. CASE open = NoCid
  BY <1>2, <1>3, <1>4, RecordsStay
<1>6. c \in Cids /\ order[c].side = s /\ order[c].st = "filled" /\ UNCHANGED order
  <2>1. UNCHANGED order /\ Head(ordq).type = "Filled" /\ side[s].pendingClose = c
    BY <1>1 DEF OnCloseFilled, TakeOrdEvent
  <2>2. 1 \in DOMAIN ordq /\ ordq[1] = Head(ordq)
    BY <1>0
  <2>3. c \in Cids /\ order[c].st = "filled"
    BY <1>1, <2>1, <2>2, EventEnded, EndsTyped
  <2> QED BY <2>1, <2>3, Typed DEF Named, ClosesNamed
<1>5. CASE open # NoCid
  <2>1. /\ record' = [record EXCEPT ![open] = IF @ = "open" THEN "closed" ELSE @]
        /\ closes' = Append(closes, [open |-> open, by |-> c])
    BY <1>2, <1>5 DEF CloseRecord
  <2>2. open \in Cids /\ record[open] \in {"open", "closed"} /\ ~ClosedFor(s, open)
    <3>1. CASE side[s].openCid # NoCid
      BY <1>0, <1>1, <3>1 DEF RecordInv, OwnRecord, SideState
    <3>2. CASE side[s].openCid = NoCid
      <4>1. open = LatestOpen /\ OpenRecords # {}
        BY <1>1, <1>5, <3>2 DEF LatestOpen
      <4>2. open \in Cids /\ record[open] = "open"
        BY <4>1, LatestOpenTyped DEF OpenRecords
      <4> QED BY <4>2 DEF RecordInv, RowsClosed, ClosedFor
    <3> QED BY <3>1, <3>2
  <2>3. record'[open] = "closed" /\ \A d \in Cids : d # open => record'[d] = record[d]
    BY <1>0, <2>1, <2>2
  <2>4. \A i \in DOMAIN closes : closes[i].open \in Cids /\ (closes[i].open = open => order[closes[i].by].side # s)
    BY <2>2, RowsKept DEF ClosedFor
  <2>5. \A i \in DOMAIN closes' : \/ i \in DOMAIN closes /\ closes'[i] = closes[i]
                                  \/ i = Len(closes) + 1 /\ closes'[i] = [open |-> open, by |-> c]
    BY <1>0, <2>1
  <2>6. RowsClosed' /\ ClosedOncePerSide'
    <3>1. RowsClosed'
      BY <1>6, <2>3, <2>4, <2>5 DEF RecordInv, RowsClosed
    <3>2. ClosedOncePerSide'
      BY <1>6, <2>4, <2>5 DEF RecordInv, ClosedOncePerSide
    <3> QED BY <3>1, <3>2
  <2>7. RecordsHeard' /\ EndsOnce'
    BY <2>2, <2>3, EndsKept DEF RecordInv, RecordsHeard
  <2>8. OwnRecord'
    <3>1. ASSUME NEW t \in Sides, t # s, NEW d, d = side[t].openCid, d # NoCid
          PROVE  record'[d] \in {"open", "closed"} /\ ~ClosedFor(t, d)'
      <4>1. d \in Cids /\ record[d] \in {"open", "closed"} /\ ~ClosedFor(t, d)
        BY <1>0, <3>1 DEF RecordInv, OwnRecord, SideState
      <4>2. ~ClosedFor(t, d)'
        BY <1>6, <2>5, <3>1, <4>1 DEF ClosedFor
      <4> QED BY <2>3, <4>1, <4>2
    <3>2. ASSUME NEW t \in Sides, NEW d, d = side'[t].openCid, d # NoCid
          PROVE  record'[d] \in {"open", "closed"} /\ ~ClosedFor(t, d)'
      BY <1>3, <3>1, <3>2
    <3> QED BY <3>2 DEF OwnRecord
  <2> QED BY <2>6, <2>7, <2>8 DEF RecordInv
<1> QED
  BY <1>4, <1>5

\* A new worker takes the newest open record for its own, or marks it orphaned.
LEMMA RecordsRestored ==
  ASSUME TypeInv, Bookkeeping, RecordInv, EndsMove, NEW C \in SUBSET Sides, Boot(C)
  PROVE  RecordInv'
<1>0. record \in [Cids -> TradeRecord] /\ closes \in Seq(CloseRow)
  BY DEF TypeInv, TypeOK
<1>1. closes' = closes
  BY DEF Boot
<1>2. LatestOpen # NoCid => LatestOpen \in Cids /\ record[LatestOpen] = "open"
  BY LatestOpenTyped DEF LatestOpen, OpenRecords
<1>3. \/ record' = record
      \/ (\A s \in Sides : ~KnownRefreshed[s]) /\ LatestOpen # NoCid /\ record' = [record EXCEPT ![LatestOpen] = "orphaned"]
  BY DEF Boot
<1>4. ASSUME NEW s \in Sides
      PROVE  side'[s].openCid = NoCid \/ (side'[s].openCid = LatestOpen /\ \E t \in Sides : KnownRefreshed[t])
  <2> DEFINE r == IF (\E t \in Sides : KnownRefreshed[t]) /\ LatestOpen # NoCid /\ order[LatestOpen].side = s
                  THEN [Blank EXCEPT !.openCid = LatestOpen, !.armed = TRUE, !.openedAt = TRUE] ELSE Blank
             x == [r EXCEPT !.lastClose = RestoredClose(s), !.cooling = s \in C]
             p == IF pe[s].status = "Open" THEN "Open" ELSE "none"
  <2>1. side'[s] = [x EXCEPT !.position = p]
    BY DEF Boot, Refreshed
  <2>2. r.openCid = NoCid \/ (r.openCid = LatestOpen /\ \E t \in Sides : KnownRefreshed[t])
    BY DEF Blank
  <2>3. [x EXCEPT !.position = p].openCid = r.openCid
    BY DEF Blank
  <2> HIDE DEF r, x, p
  <2> QED BY <2>1, <2>2, <2>3
<1>5. OwnRecord'
  <2>1. UNCHANGED order
    BY DEF Boot
  <2>2. ASSUME NEW t \in Sides, NEW d, d = side'[t].openCid, d # NoCid
        PROVE  record'[d] \in {"open", "closed"} /\ ~ClosedFor(t, d)'
    <3>1. d = LatestOpen /\ record[d] = "open" /\ record' = record
      BY <1>2, <1>3, <1>4, <2>2
    <3>2. ~ClosedFor(t, d)'
      BY <1>1, <2>1, <3>1 DEF RecordInv, RowsClosed, ClosedFor
    <3> QED BY <3>1, <3>2
  <2> QED BY <2>2 DEF OwnRecord
<1>6. RowsClosed' /\ ClosedOncePerSide'
  <2>1. UNCHANGED order
    BY DEF Boot
  <2>2. \A i \in DOMAIN closes : closes[i].open \in Cids /\ record[closes[i].open] = "closed"
    BY RowsKept DEF RecordInv, RowsClosed
  <2>3. \A d \in Cids : record[d] = "closed" => record'[d] = "closed"
    BY <1>0, <1>2, <1>3
  <2>4. RowsClosed'
    BY <1>1, <2>1, <2>2, <2>3 DEF RecordInv, RowsClosed
  <2> QED BY <1>1, <2>1, <2>4 DEF RecordInv, ClosedOncePerSide
<1>7. RecordsHeard' /\ EndsOnce'
  BY <1>0, <1>2, <1>3, EndsKept DEF RecordInv, RecordsHeard
<1> QED
  BY <1>5, <1>6, <1>7 DEF RecordInv

\* The handlers that are not about fills let go of a record at most.
LEMMA RecordsLeft ==
  ASSUME TypeInv, [Next]_vars
  PROVE  \/ /\ UNCHANGED <<record, closes>>
            /\ \A s \in Sides : side'[s].openCid \in {NoCid, side[s].openCid}
         \/ (\E C \in SUBSET Sides : Boot(C)) \/ (\E s \in Sides : OnOpenFilled(s) \/ OnCloseFilled(s))
<1> DEFINE Left == /\ UNCHANGED <<record, closes>>
                   /\ \A s \in Sides : side'[s].openCid \in {NoCid, side[s].openCid}
<1>0. side \in [Sides -> SideState] /\ TypeOK /\ posq \in Seq(PosEvent)
  BY DEF TypeInv, TypeOK
<1>1. ASSUME UNCHANGED <<record, closes, side>> PROVE Left
  BY <1>1
<1>2. ASSUME NEW sd \in [Sides -> SideState], NEW T \in SUBSET Sides, side' = WithClose(sd, T),
             \A s \in Sides : sd[s].openCid = side[s].openCid, UNCHANGED <<record, closes>>
      PROVE  Left
  <2>1. ASSUME NEW s \in Sides PROVE side'[s].openCid = sd[s].openCid
    <3>1. \A d : [sd[s] EXCEPT !.pendingClose = d].openCid = sd[s].openCid
      BY DEF SideState
    <3> HIDE DEF CloseId
    <3> QED BY <1>2, <3>1 DEF WithClose
  <2> QED BY <1>2, <2>1
<1>3. ASSUME NEW P \in SUBSET Sides, Begin(P) PROVE Left
  <2> DEFINE timed == [s \in Sides |-> [side[s] EXCEPT !.openedAt = @ \/ Has(s)]]
  <2>1. ASSUME NEW s \in Sides PROVE timed[s] \in SideState /\ timed[s].openCid = side[s].openCid
    <3>1. [side[s] EXCEPT !.openedAt = side[s].openedAt \/ Has(s)] \in SideState
      BY <1>0, SidesTyped
    <3> QED BY <1>0, <3>1 DEF SideState
  <2>2. timed \in [Sides -> SideState]
    BY <2>1
  <2>3. side' = WithClose(timed, P) /\ UNCHANGED <<record, closes>>
    BY <1>3 DEF Begin, books
  <2> HIDE DEF timed
  <2> QED BY <1>2, <2>1, <2>2, <2>3
<1>4. CASE WaitOver \/ StopWorker \/ DecideHold \/ Engine \/ Lag \/ UNCHANGED vars \/ OnOrderUnmatched
  BY <1>1, <1>4 DEF WaitOver, StopWorker, DecideHold, Engine, PeOpen, PeClose, PeTrade, PeApply, PeEnd, Lag,
     workerVars, books, vars, OnOrderUnmatched
<1>5. CASE StartWorker
  BY <1>5 DEF StartWorker, books, Blank
<1>6. CASE OnPositionUpdated \/ OnPositionOpened \/ OnPositionClosed
  <2> DEFINE h == Head(posq).side
             st == Head(posq).status
  <2>1. /\ UNCHANGED <<record, closes>>
        /\ \/ side' = side \/ side' = [side EXCEPT ![h] = [side[h] EXCEPT !.position = st]]
           \/ side' = [side EXCEPT ![h] = ClearOnClose(side[h], "external")]
    BY <1>6 DEF OnPositionUpdated, OnPositionOpened, OnPositionClosed, TakePosEvent, books
  <2>2. \A x \in SideState : /\ [x EXCEPT !.position = st].openCid = x.openCid
                             /\ ClearOnClose(x, "external").openCid = NoCid
    BY DEF SideState, ClearOnClose, ClearPosition
  <2> HIDE DEF h, st
  <2> QED BY ZenonT(30), <1>0, <2>1, <2>2
<1>7. ASSUME NEW t \in Sides, OnOrderEnded(t) PROVE Left
  <2> DEFINE x == side'[t]
  <2>1. UNCHANGED <<record, closes>> /\ \A s \in Sides : s # t => side'[s] = side[s]
    BY <1>0, <1>7 DEF OnOrderEnded, books
  <2>2. side'[t].openCid = side[t].openCid
    BY <1>0, <1>7 DEF OnOrderEnded, SideState
  <2> QED BY <2>1, <2>2
<1>8. ASSUME NEW T \in SUBSET Sides, NEW X \in SUBSET Sides, NEW P \in SUBSET Sides, PriceTick(T, X, P)
      PROVE  Left
  <2> DEFINE cleared == [s \in Sides |->
               IF s \in T THEN [side[s] EXCEPT !.pendingOpen = NoCid, !.pendingClose = NoCid] ELSE side[s]]
             due == IF X # {} THEN {s \in X : Has(s)} ELSE P
  <2>1. cleared \in [Sides -> SideState] /\ \A s \in Sides : cleared[s].openCid = side[s].openCid
    <3>1. \A x \in SideState : [x EXCEPT !.pendingOpen = NoCid, !.pendingClose = NoCid] \in SideState
      BY <1>0, SidesTyped
    <3>2. \A x \in SideState : [x EXCEPT !.pendingOpen = NoCid, !.pendingClose = NoCid].openCid = x.openCid
      BY DEF SideState
    <3> QED BY <1>0, <3>1, <3>2
  <2>2. side' = WithClose(cleared, due) /\ due \in SUBSET Sides /\ UNCHANGED <<record, closes>>
    BY <1>8 DEF PriceTick, books
  <2> HIDE DEF cleared, due
  <2> QED BY <1>2, <2>1, <2>2
<1>9. CASE LlmAsk
  <2>1. \A s \in Sides : side'[s].openCid = side[s].openCid
    BY <1>0, <1>9 DEF LlmAsk, Refreshed, SideState
  <2> QED BY <1>9, <2>1 DEF LlmAsk, books
<1>10. CASE DecideClose
  <2> DEFINE held == {s \in Sides : Has(s)}
  <2>1. side' = WithClose(side, held) /\ held \in SUBSET Sides /\ UNCHANGED <<record, closes>>
    BY <1>10 DEF DecideClose, books
  <2> HIDE DEF held
  <2> QED BY <1>0, <1>2, <2>1
<1>11. ASSUME NEW s \in Sides, DecideOpen(s) PROVE Left
  <2>1. \A t \in Sides : side'[t].openCid = side[t].openCid
    BY <1>0, <1>11 DEF DecideOpen, SideState
  <2> QED BY <1>11, <2>1 DEF DecideOpen, books
<1>12. ASSUME NEW s \in Sides, CooldownOver(s) PROVE Left
  <2>1. \A t \in Sides : side'[t].openCid = side[t].openCid
    BY <1>0, <1>12 DEF CooldownOver, SideState
  <2> QED BY <1>12, <2>1 DEF CooldownOver, books
<1> QED
  BY <1>3, <1>4, <1>5, <1>6, <1>7, <1>8, <1>9, <1>10, <1>11, <1>12
     DEF Next, Recovery, Events, Tick, Decision, Cooldown

\* No trade record is closed twice by closes of one side, for a bot of one side or of two,
\* although the worker finds a record by recency when it has read PositionClosed before
\* the fill or has been restarted, and whatever is filled in parts, lost, times out or
\* restarts (ClosedOncePerSide; apply_pending_close, find_open_trade, restore at start).
THEOREM RecordsClosedOnce == Spec => []ClosedOncePerSide
<1> DEFINE Inv == TypeInv /\ Bookkeeping /\ Named /\ RecordInv
<1>1. Init => Inv
  <2> SUFFICES ASSUME Init PROVE Inv
    OBVIOUS
  <2>1. TypeInv
    BY InitTyped
  <2>2. Bookkeeping
    BY DEF Init, Bookkeeping, NoOrder
  <2>3. Named
    BY DEF Init, Named, Fresh, ClosesNamed, LiveKinds, NoOrder, Blank
  <2>4. RecordInv
    BY DEF Init, RecordInv, EndsOnce, RecordsHeard, OwnRecord, RowsClosed, ClosedOncePerSide, Blank
  <2> QED BY <2>1, <2>2, <2>3, <2>4
<1>2. Inv /\ [Next]_vars => Inv'
  <2> SUFFICES ASSUME TypeInv, Bookkeeping, Named, RecordInv, [Next]_vars PROVE Inv'
    OBVIOUS
  <2>1. TypeInv' /\ Bookkeeping' /\ Named' /\ EndsMove
    BY StepTyped, StepBooks, StepNamed, StepEnds
  <2>2. RecordInv'
    BY <2>1, RecordsLeft, RecordsStay, RecordOpened, RecordClosed, RecordsRestored
  <2> QED BY <2>1, <2>2
<1>3. Inv => ClosedOncePerSide
  BY DEF RecordInv
<1> QED
  BY <1>1, <1>2, <1>3, PTL DEF Spec

=============================================================================
