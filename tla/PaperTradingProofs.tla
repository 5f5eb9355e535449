-------------------------- MODULE PaperTradingProofs --------------------------
(***************************************************************************)
(* Paper trading over restarts, for all sets of orders, prices, leverages  *)
(* and quantities, an update channel of any size and any number of         *)
(* restarts.                                                               *)
(*                                                                         *)
(* What get_positions_from_orders computes is recursive over the stored    *)
(* trades.  The library's induction theorems have an operator parameter,   *)
(* which the provers cannot instantiate; the first section proves          *)
(* induction for sets, and what a function that is defined by recursion    *)
(* is, from the well-foundedness of finite sets.  With it, the replay of   *)
(* rows and one row is a step from the replay of the rows (Sensible).      *)
(*                                                                         *)
(* Typed and Inv are inductive whatever order is sent when.  The others    *)
(* need the workers' rule that one order is in flight (OneInFlight), so    *)
(* that a closing order is for all that is held: Consistent relates the    *)
(* engine, the fills under way, the exchange and the rows, Money the       *)
(* balance and the trades.                                                 *)
(***************************************************************************)
EXTENDS PaperTrading, FiniteSetTheorems, WellFoundedInduction, TLAPS

-----------------------------------------------------------------------------
(* Induction over the rows *)

\* A set of naturals has a least element: the subsets of Nat that are finite are well-founded.
LEMMA LeastNat ==
  ASSUME NEW S \in SUBSET Nat, S # {}
  PROVE  \E m \in S : \A k \in S : m <= k
<1> DEFINE T == {0..m : m \in S}
           R == StrictSubsetOrdering(Nat)
           F == FiniteSubsetsOf(Nat)
<1>1. IsWellFoundedOn(R, F)
  BY FS_StrictSubsetOrderingWellFounded
<1>2. T \subseteq F /\ T # {}
  <2>1. \A m \in S : IsFiniteSet(0..m) /\ 0..m \subseteq Nat
    BY FS_Interval
  <2> QED BY <2>1 DEF FiniteSubsetsOf
<1>3. \E x \in T : \A y \in T : ~(<<y, x>> \in R)
  <2> HIDE DEF R, F, T
  <2> QED BY <1>1, <1>2, WFMin
<1>4. PICK x \in T : \A y \in T : ~(<<y, x>> \in R)
  BY <1>3
<1>5. PICK m \in S : x = 0..m
  BY <1>4
<1>6. ASSUME NEW k \in S, k < m PROVE FALSE
  <2>1. 0..k \subseteq 0..m /\ m \in 0..m /\ m \notin 0..k
    BY <1>6
  <2>2. <<0..k, 0..m>> \in R
    BY <2>1, <1>2 DEF StrictSubsetOrdering
  <2> QED BY <1>4, <1>5, <2>2
<1> QED BY <1>6

\* Induction, with a set in place of a predicate.
LEMMA SetInduction ==
  ASSUME NEW S, 0 \in S, \A n \in Nat : n \in S => n + 1 \in S
  PROVE  Nat \subseteq S
<1> SUFFICES ASSUME Nat \ S # {} PROVE FALSE
  OBVIOUS
<1>1. PICK m \in Nat \ S : \A k \in Nat \ S : m <= k
  BY LeastNat
<1>2. m # 0 /\ m - 1 \in Nat
  BY <1>1
<1>3. m - 1 \in S
  BY <1>1, <1>2
<1> QED BY <1>1, <1>2, <1>3

\* h begins with v, and each next value is a step from the one before.
Steps(step, N, V) == step \in [(1..N) \X V -> V]
Follows(h, N, v, step) == h[0] = v /\ \A i \in 1..N : h[i] = step[<<i, h[i - 1]>>]

\* A function that is defined by recursion up to N exists ...
LEMMA Recursion ==
  ASSUME NEW N \in Nat, NEW V, NEW v \in V, NEW step, Steps(step, N, V)
  PROVE  \E h \in [0..N -> V] : Follows(h, N, v, step)
<1> USE DEF Steps, Follows
<1> DEFINE Upto(n, h) == h[0] = v /\ \A i \in 1..n : h[i] = step[<<i, h[i - 1]>>]
           S == {n \in Nat : n <= N => \E h \in [0..n -> V] : Upto(n, h)}
<1>1. 0 \in S
  <2>1. [i \in 0..0 |-> v] \in [0..0 -> V] /\ Upto(0, [i \in 0..0 |-> v])
    OBVIOUS
  <2> QED BY <2>1
<1>2. ASSUME NEW n \in Nat, n \in S PROVE n + 1 \in S
  <2> SUFFICES ASSUME n + 1 <= N PROVE \E h \in [0..(n + 1) -> V] : Upto(n + 1, h)
    OBVIOUS
  <2>1. PICK h \in [0..n -> V] : Upto(n, h)
    BY <1>2
  <2> DEFINE g == [i \in 0..(n + 1) |-> IF i = n + 1 THEN step[<<n + 1, h[n]>>] ELSE h[i]]
  <2>2. step[<<n + 1, h[n]>>] \in V
    <3>1. h[n] \in V /\ n + 1 \in 1..N
      BY <2>1
    <3> QED BY <3>1
  <2>3. g \in [0..(n + 1) -> V]
    BY <2>1, <2>2
  <2>4. ASSUME NEW i \in 1..(n + 1) PROVE g[i] = step[<<i, g[i - 1]>>]
    <3>1. i - 1 \in 0..n /\ g[i - 1] = h[i - 1]
      OBVIOUS
    <3>2. CASE i = n + 1
      <4>1. g[i] = step[<<n + 1, h[n]>>] /\ i - 1 = n
        BY <3>2
      <4> QED BY <3>1, <3>2, <4>1
    <3>3. CASE i # n + 1
      <4>1. i \in 1..n /\ g[i] = h[i]
        BY <3>3
      <4> QED BY <2>1, <3>1, <4>1
    <3> QED BY <3>2, <3>3
  <2>5. g[0] = v
    BY <2>1
  <2> QED BY <2>3, <2>4, <2>5
<1>3. Nat \subseteq S
  <2> HIDE DEF S
  <2> QED BY <1>1, <1>2, SetInduction
<1> QED BY <1>3

Alike(g, h, N) == g[0] = h[0] /\ \A i \in 1..N : g[i - 1] = h[i - 1] => g[i] = h[i]

\* ... and there is one only.
LEMMA SameRecursion ==
  ASSUME NEW N \in Nat, NEW g, NEW h, Alike(g, h, N)
  PROVE  \A i \in 0..N : g[i] = h[i]
<1> USE DEF Alike
<1> DEFINE S == {n \in Nat : n <= N => g[n] = h[n]}
<1>1. 0 \in S
  OBVIOUS
<1>2. ASSUME NEW n \in Nat, n \in S PROVE n + 1 \in S
  <2>1. n + 1 <= N => n + 1 \in 1..N /\ (n + 1) - 1 = n /\ n <= N
    OBVIOUS
  <2> QED BY <1>2, <2>1
<1>3. Nat \subseteq S
  <2> HIDE DEF S
  <2> QED BY <1>1, <1>2, SetInduction
<1> QED BY <1>3

-----------------------------------------------------------------------------
(* What is computed from the rows *)

Positive == Nat \ {0}
Row == [cid: Cids, side: Sides, kind: {"open", "close"}, qty: Positive, price: Positive]

LEMMA SignedInt == ASSUME NEW f \in Row, NEW s PROVE Signed(f, s) \in Int
BY DEF Signed, Row, Positive

\* running_qty, row by row.
LEMMA RunningDef ==
  ASSUME NEW r \in Seq(Row), NEW s
  PROVE  /\ Running(r, s) \in [0..Len(r) -> Int]
         /\ Running(r, s)[0] = 0
         /\ \A i \in 1..Len(r) : Running(r, s)[i] = Running(r, s)[i - 1] + Signed(r[i], s)
<1> DEFINE Def(g) == [i \in 0..Len(r) |-> IF i = 0 THEN 0 ELSE g[i - 1] + Signed(r[i], s)]
           step == [p \in (1..Len(r)) \X Int |-> p[2] + Signed(r[p[1]], s)]
<1>0. Len(r) \in Nat
  OBVIOUS
<1>1. \A i \in 1..Len(r) : Signed(r[i], s) \in Int
  BY SignedInt
<1>2. step \in [(1..Len(r)) \X Int -> Int]
  BY <1>1
<1>3. \A i \in 1..Len(r), n \in Int : step[<<i, n>>] = n + Signed(r[i], s)
  OBVIOUS
<1>4. PICK h \in [0..Len(r) -> Int] : h[0] = 0 /\ \A i \in 1..Len(r) : h[i] = step[<<i, h[i - 1]>>]
  <2>1. PICK N \in Nat : N = Len(r)
    BY <1>0
  <2>2. 0 \in Int /\ Steps(step, N, Int)
    BY <1>2, <2>1 DEF Steps
  <2> HIDE DEF step
  <2>3. \E h \in [0..N -> Int] : Follows(h, N, 0, step)
    BY <2>2, Recursion
  <2> QED BY <2>1, <2>3 DEF Follows
<1>5. \A i \in 1..Len(r) : h[i] = h[i - 1] + Signed(r[i], s)
  <2>1. \A i \in 1..Len(r) : i - 1 \in 0..Len(r)
    OBVIOUS
  <2> QED BY <1>3, <1>4, <2>1
<1>6. h = Def(h)
  BY <1>4, <1>5
<1>7. Running(r, s) = CHOOSE g : g = Def(g)
  BY DEF Running
<1>8. Running(r, s) = Def(Running(r, s))
  <2> HIDE DEF Def
  <2> QED BY <1>6, <1>7
<1>9. /\ Running(r, s)[0] = 0 /\ DOMAIN Running(r, s) = 0..Len(r)
      /\ \A i \in 1..Len(r) : Running(r, s)[i] = Running(r, s)[i - 1] + Signed(r[i], s)
  BY <1>8
<1>10. \A i \in 0..Len(r) : Running(r, s)[i] = h[i]
  <2>1. \A i \in 1..Len(r) : Running(r, s)[i - 1] = h[i - 1] => Running(r, s)[i] = h[i]
    BY <1>5, <1>9
  <2>2. PICK g : g = Running(r, s)
    OBVIOUS
  <2>3. Alike(g, h, Len(r))
    BY <1>4, <1>9, <2>1, <2>2 DEF Alike
  <2>4. \A i \in 0..Len(r) : g[i] = h[i]
    BY <1>0, <2>3, SameRecursion
  <2> QED BY <2>2, <2>4
<1>11. Running(r, s) = [i \in 0..Len(r) |-> Running(r, s)[i]]
  BY <1>8
<1>12. \A i \in 0..Len(r) : Running(r, s)[i] \in Int
  BY <1>4, <1>10
<1> QED BY <1>9, <1>11, <1>12

\* The replayed position, row by row.
LEMMA ReplayedDef ==
  ASSUME NEW r \in Seq(Row), NEW s, NEW z \in Nat
  PROVE  \A i \in 0..Len(r) :
           Replayed(r, s, z)[i] = IF i <= z THEN NoPosition
                                  ELSE IF r[i].side = s THEN Applied(Replayed(r, s, z)[i - 1], r[i])
                                  ELSE Replayed(r, s, z)[i - 1]
<1> DEFINE Next1(x, i) == IF r[i].side = s THEN Applied(x, r[i]) ELSE x
           Def(g, n) == [i \in 0..n |-> IF i <= z THEN NoPosition ELSE Next1(g[i - 1], i)]
           S == {n \in Nat : \E h : h = Def(h, n)}
<1>0. Len(r) \in Nat
  OBVIOUS
<1>1. 0 \in S
  <2>1. [i \in 0..0 |-> NoPosition] = Def([i \in 0..0 |-> NoPosition], 0)
    <3> HIDE DEF Next1
    <3> QED OBVIOUS
  <2> QED BY <2>1
<1>2. ASSUME NEW n \in Nat, n \in S PROVE n + 1 \in S
  <2>1. PICK h : h = Def(h, n)
    BY <1>2
  <2> HIDE DEF Next1
  <2>2. PICK v : v = IF n + 1 <= z THEN NoPosition ELSE Next1(h[n], n + 1)
    OBVIOUS
  <2> DEFINE g == [i \in 0..(n + 1) |-> IF i = n + 1 THEN v ELSE h[i]]
  <2>3. ASSUME NEW i \in 0..(n + 1) PROVE g[i] = IF i <= z THEN NoPosition ELSE Next1(g[i - 1], i)
    <3>1. CASE i = n + 1
      <4>1. g[i] = v /\ i - 1 = n /\ g[n] = h[n]
        BY <3>1
      <4> QED BY <2>2, <3>1, <4>1
    <3>2. CASE i # n + 1
      <4>1. i \in 0..n /\ g[i] = h[i]
        BY <3>2
      <4>2. h[i] = IF i <= z THEN NoPosition ELSE Next1(h[i - 1], i)
        BY <2>1, <4>1
      <4>3. i <= z \/ (i - 1 \in 0..n /\ g[i - 1] = h[i - 1])
        BY <4>1
      <4> QED BY <4>1, <4>2, <4>3
    <3> QED BY <3>1, <3>2
  <2>4. g = Def(g, n + 1)
    BY <2>3
  <2>5. \E m : m = Def(m, n + 1)
    <3> HIDE DEF g, Def
    <3> QED BY <2>4
  <2> QED BY <2>5
<1>3. Nat \subseteq S
  <2> HIDE DEF S
  <2> QED BY <1>1, <1>2, SetInduction
<1>4. \E h : h = Def(h, Len(r))
  BY <1>0, <1>3
<1>5. Replayed(r, s, z) = CHOOSE g : g = Def(g, Len(r))
  BY DEF Replayed
<1>6. Replayed(r, s, z) = Def(Replayed(r, s, z), Len(r))
  <2> HIDE DEF Def
  <2> QED BY <1>4, <1>5
<1> QED
  <2> HIDE DEF Next1
  <2>1. \A i \in 0..Len(r) : Replayed(r, s, z)[i] = IF i <= z THEN NoPosition
                                                   ELSE Next1(Replayed(r, s, z)[i - 1], i)
    <3>1. PICK x : x = Replayed(r, s, z)
      OBVIOUS
    <3>2. x = Def(x, Len(r))
      BY <1>6, <3>1
    <3>3. \A i \in 0..Len(r) : x[i] = IF i <= z THEN NoPosition ELSE Next1(x[i - 1], i)
      BY <3>2
    <3> QED BY <3>1, <3>3
  <2> QED BY <2>1 DEF Next1

\* A row that is appended leaves what was computed of the rows before it.
LEMMA RunningAppended ==
  ASSUME NEW r \in Seq(Row), NEW f \in Row, NEW s
  PROVE  LET sum == Running(r, s)
             new == Running(Append(r, f), s)
         IN /\ \A i \in 0..Len(r) : new[i] = sum[i]
            /\ new[Len(r) + 1] = sum[Len(r)] + Signed(f, s)
<1>1. PICK q \in Seq(Row) : q = Append(r, f)
  <2>1. Append(r, f) \in Seq(Row)
    OBVIOUS
  <2> QED BY <2>1
<1>2. Len(r) \in Nat /\ Len(q) = Len(r) + 1 /\ q[Len(r) + 1] = f /\ \A i \in 1..Len(r) : q[i] = r[i]
  BY <1>1
<1>3. /\ Running(q, s)[0] = 0
      /\ \A i \in 1..Len(q) : Running(q, s)[i] = Running(q, s)[i - 1] + Signed(q[i], s)
  BY RunningDef
<1>4. /\ Running(r, s)[0] = 0
      /\ \A i \in 1..Len(r) : Running(r, s)[i] = Running(r, s)[i - 1] + Signed(r[i], s)
  BY RunningDef
<1>5. Alike(Running(q, s), Running(r, s), Len(r))
  BY <1>2, <1>3, <1>4 DEF Alike
<1>6. \A i \in 0..Len(r) : Running(q, s)[i] = Running(r, s)[i]
  BY <1>2, <1>5, SameRecursion
<1>7. Running(q, s)[Len(r) + 1] = Running(r, s)[Len(r)] + Signed(f, s)
  <2>1. Len(r) + 1 \in 1..Len(q) /\ (Len(r) + 1) - 1 = Len(r) /\ Len(r) \in 0..Len(r)
    BY <1>2
  <2> QED BY <1>2, <1>3, <1>6, <2>1
<1> QED BY <1>1, <1>6, <1>7

\* A row that is stored is one more step of the replay.
LEMMA ReplayedAppended ==
  ASSUME NEW r \in Seq(Row), NEW f \in Row, NEW s, NEW z \in 0..Len(r)
  PROVE  Replayed(Append(r, f), s, z)[Len(r) + 1] =
           IF f.side = s THEN Applied(Replayed(r, s, z)[Len(r)], f) ELSE Replayed(r, s, z)[Len(r)]
<1>1. PICK q \in Seq(Row) : q = Append(r, f)
  <2>1. Append(r, f) \in Seq(Row)
    OBVIOUS
  <2> QED BY <2>1
<1>2. Len(r) \in Nat /\ z \in Nat /\ Len(q) = Len(r) + 1 /\ q[Len(r) + 1] = f /\ \A i \in 1..Len(r) : q[i] = r[i]
  BY <1>1
<1>3. PICK x, y : x = Replayed(r, s, z) /\ y = Replayed(q, s, z)
  OBVIOUS
<1>4. \A i \in 0..Len(r) : x[i] = IF i <= z THEN NoPosition
                                  ELSE IF r[i].side = s THEN Applied(x[i - 1], r[i]) ELSE x[i - 1]
  BY <1>2, <1>3, ReplayedDef
<1>5. \A i \in 0..Len(q) : y[i] = IF i <= z THEN NoPosition
                                  ELSE IF q[i].side = s THEN Applied(y[i - 1], q[i]) ELSE y[i - 1]
  BY <1>2, <1>3, ReplayedDef
<1>6. Alike(y, x, Len(r))
  <2>1. y[0] = x[0]
    BY <1>2, <1>4, <1>5
  <2>2. ASSUME NEW i \in 1..Len(r), y[i - 1] = x[i - 1] PROVE y[i] = x[i]
    <3>1. i \in 0..Len(q) /\ i \in 0..Len(r) /\ q[i] = r[i]
      BY <1>2
    <3> QED BY <1>4, <1>5, <2>2, <3>1
  <2> QED BY <2>1, <2>2 DEF Alike
<1>7. \A i \in 0..Len(r) : y[i] = x[i]
  BY <1>2, <1>6, SameRecursion
<1>8. y[Len(r) + 1] = IF f.side = s THEN Applied(y[Len(r)], f) ELSE y[Len(r)]
  <2>1. Len(r) + 1 \in 0..Len(q) /\ ~(Len(r) + 1 <= z) /\ (Len(r) + 1) - 1 = Len(r)
    BY <1>2
  <2> QED BY <1>2, <1>5, <2>1
<1>9. y[Len(r)] = x[Len(r)]
  BY <1>2, <1>7
<1> QED BY <1>1, <1>3, <1>8, <1>9

\* The last row after which nothing is held, when a row is stored.
LEMMA LastZeroAppended ==
  ASSUME NEW r \in Seq(Row), NEW f \in Row, NEW s
  PROVE  LastZero(Append(r, f), s) =
           IF f.side = s /\ Running(r, s)[Len(r)] + Signed(f, s) <= 0 THEN Len(r) + 1
           ELSE LastZero(r, s)
<1>1. PICK q \in Seq(Row) : q = Append(r, f)
  <2>1. Append(r, f) \in Seq(Row)
    OBVIOUS
  <2> QED BY <2>1
<1>2. Len(r) \in Nat /\ Len(q) = Len(r) + 1 /\ q[Len(r) + 1] = f /\ \A i \in 1..Len(r) : q[i] = r[i]
  BY <1>1
<1>3. DOMAIN q = 1..(Len(r) + 1) /\ DOMAIN r = 1..Len(r)
  BY <1>2
<1>4. /\ \A i \in 0..Len(r) : Running(q, s)[i] = Running(r, s)[i]
      /\ Running(q, s)[Len(r) + 1] = Running(r, s)[Len(r)] + Signed(f, s)
  BY <1>1, RunningAppended
<1> DEFINE Zeros(p) == {i \in DOMAIN p : p[i].side = s /\ Running(p, s)[i] <= 0}
<1>5. \A p : LastZero(p, s) = IF Zeros(p) = {} THEN 0
                              ELSE CHOOSE i \in Zeros(p) : \A j \in Zeros(p) : j <= i
  BY DEF LastZero
<1>6. Zeros(q) \ {Len(r) + 1} = Zeros(r)
  BY <1>2, <1>3, <1>4
<1>7. Len(r) + 1 \in Zeros(q) <=> f.side = s /\ Running(r, s)[Len(r)] + Signed(f, s) <= 0
  BY <1>2, <1>3, <1>4
<1>8. \A j \in Zeros(q) : j \in 1..(Len(r) + 1)
  BY <1>3
<1> HIDE DEF Zeros
<1>9. CASE Len(r) + 1 \in Zeros(q)
  <2>1. \A i \in Zeros(q) : (\A j \in Zeros(q) : j <= i) <=> i = Len(r) + 1
    BY <1>2, <1>8, <1>9
  <2>2. (CHOOSE i \in Zeros(q) : \A j \in Zeros(q) : j <= i) = Len(r) + 1
    BY <1>9, <2>1
  <2> QED BY <1>1, <1>5, <1>7, <1>9, <2>2
<1>10. CASE Len(r) + 1 \notin Zeros(q)
  <2>1. Zeros(q) = Zeros(r)
    BY <1>6, <1>10
  <2> QED BY <1>1, <1>5, <1>7, <1>10, <2>1
<1> QED BY <1>9, <1>10

-----------------------------------------------------------------------------
(* What the rows make of a position *)

\* Where something is held, it is what has been added up since the last zero; a unit of it
\* has cost at least one.
Sensible(r, s) ==
  LET z == LastZero(r, s)
      sum == Running(r, s)
      n == Len(r)
      x == Replayed(r, s, z)[n]
  IN /\ z \in 0..n /\ sum[z] <= 0
     /\ IF sum[n] <= 0 THEN x = NoPosition /\ sum[z] = sum[n]
        ELSE x \in Position /\ x.status = "Open" /\ x.qty = sum[n] - sum[z] /\ x.cost >= x.qty

\* No rows make no position.
LEMMA SensibleEmpty == \A s : Sensible(<<>>, s)
<1> SUFFICES ASSUME NEW s PROVE Sensible(<<>>, s)
  OBVIOUS
<1>1. PICK r \in Seq(Row) : r = <<>> /\ Len(r) = 0 /\ DOMAIN r = {}
  <2>1. <<>> \in Seq(Row) /\ Len(<<>>) = 0 /\ DOMAIN <<>> = {}
    OBVIOUS
  <2> QED BY <2>1
<1>2. LastZero(r, s) = 0
  BY <1>1 DEF LastZero
<1>3. Running(r, s)[0] = 0
  BY RunningDef
<1>4. Replayed(r, s, 0)[0] = NoPosition
  <2>1. 0 \in Nat /\ 0 \in 0..Len(r) /\ 0 <= 0
    BY <1>1
  <2> QED BY <2>1, ReplayedDef
<1>5. Sensible(r, s)
  BY <1>1, <1>2, <1>3, <1>4 DEF Sensible
<1> QED BY <1>1, <1>5

\* A share of a cost is no more than it, and as much is left for each unit.
LEMMA Shares ==
  ASSUME NEW x \in Position, NEW q \in Positive, x.qty > q, x.cost >= x.qty
  PROVE  /\ CostOf(x, q) \in Int
         /\ x.cost - CostOf(x, q) >= x.qty - q
<1>1. PICK c \in Nat, n \in Nat : c = x.cost /\ n = x.qty /\ n > q /\ c >= n
  BY DEF Position, Positive
<1>2. c - (c * q) \div n >= n - q /\ (c * q) \div n \in Int
  BY <1>1 DEF Positive
<1>3. CostOf(x, q) = (c * q) \div n
  <2>1. CostOf(x, q) = IF x.qty = 0 THEN 0 ELSE (x.cost * q) \div x.qty
    BY DEF CostOf
  <2>2. x.qty # 0
    BY <1>1 DEF Positive
  <2> QED BY <1>1, <2>1, <2>2, Zenon
<1> QED BY <1>1, <1>2, <1>3

\* An opening fill makes an open position; what it costs is at least its quantity.
LEMMA AppliedOpen ==
  ASSUME NEW x \in Position, NEW f \in Row, f.kind = "open", x.cost >= x.qty
  PROVE  /\ Applied(x, f) \in Position /\ Applied(x, f).status = "Open"
         /\ Applied(x, f).qty = x.qty + f.qty /\ Applied(x, f).cost >= Applied(x, f).qty
<1>1. PICK p \in Nat, q \in Nat : p = f.price /\ q = f.qty /\ p >= 1
  BY DEF Row, Positive
<1>2. p * q \in Nat /\ p * q >= q
  BY <1>1
<1>3. Applied(x, f) = [status |-> "Open", qty |-> x.qty + q, cost |-> x.cost + p * q]
  BY <1>1 DEF Applied
<1> HIDE DEF Applied
<1>4. x.qty \in Int /\ x.cost \in Int
  BY DEF Position
<1> QED BY <1>1, <1>2, <1>3, <1>4 DEF Position

\* So does a closing fill of less than is held.
LEMMA AppliedClose ==
  ASSUME NEW x \in Position, NEW f \in Row, f.kind = "close", x.qty > f.qty, x.cost >= x.qty
  PROVE  /\ Applied(x, f) \in Position /\ Applied(x, f).status = "Open"
         /\ Applied(x, f).qty = x.qty - f.qty /\ Applied(x, f).cost >= Applied(x, f).qty
<1>1. f.qty \in Positive /\ x.qty \in Int /\ x.cost \in Int
  BY DEF Row, Position
<1>2. CostOf(x, f.qty) \in Int /\ x.cost - CostOf(x, f.qty) >= x.qty - f.qty
  BY <1>1, Shares
<1>3. Applied(x, f) = [status |-> "Open", qty |-> x.qty - f.qty, cost |-> x.cost - CostOf(x, f.qty)]
  BY <1>1 DEF Applied, Positive
<1> QED BY <1>1, <1>2, <1>3 DEF Position, Positive

\* Whatever row is stored, the rows go on to make a position.
LEMMA SensibleAppended ==
  ASSUME NEW r \in Seq(Row), NEW f \in Row, NEW s, Sensible(r, s)
  PROVE  Sensible(Append(r, f), s)
<1> DEFINE n == Len(r)
           z == LastZero(r, s)
           x == Replayed(r, s, z)[n]
<1>1. PICK q, sum, new : q = Append(r, f) /\ sum = Running(r, s) /\ new = Running(q, s)
  OBVIOUS
<1>2. n \in Nat /\ Len(q) = n + 1 /\ z \in 0..n
  BY <1>1 DEF Sensible
<1>3. (\A i \in 0..n : new[i] = sum[i] /\ sum[i] \in Int) /\ new[n + 1] = sum[n] + Signed(f, s)
  BY <1>1, RunningAppended, RunningDef
<1>4. LastZero(q, s) = IF f.side = s /\ new[n + 1] <= 0 THEN n + 1 ELSE z
  BY <1>1, <1>3, LastZeroAppended
<1>5. Replayed(q, s, z)[n + 1] = IF f.side = s THEN Applied(x, f) ELSE x
  BY <1>1, <1>2, ReplayedAppended
<1>6. /\ sum[z] <= 0 /\ sum[z] \in Int /\ sum[n] \in Int
      /\ IF sum[n] <= 0 THEN x = NoPosition /\ sum[z] = sum[n]
         ELSE x \in Position /\ x.status = "Open" /\ x.qty = sum[n] - sum[z] /\ x.cost >= x.qty
  BY <1>1, <1>2, <1>3 DEF Sensible
<1>7. CASE f.side # s
  <2>1. Signed(f, s) = 0
    BY <1>7 DEF Signed
  <2>2. LastZero(q, s) = z /\ Replayed(q, s, z)[n + 1] = x /\ new[n + 1] = sum[n] /\ new[z] = sum[z] /\ z \in 0..(n + 1)
    BY <1>2, <1>3, <1>4, <1>5, <1>6, <1>7, <2>1
  <2> HIDE DEF x, z, n
  <2> QED BY <1>1, <1>2, <1>6, <2>2 DEF Sensible
<1>8. CASE f.side = s /\ new[n + 1] <= 0
  <2>1. PICK w \in Nat : w = n + 1
    BY <1>2
  <2>2. Replayed(q, s, w)[w] = NoPosition
    <3>1. Append(r, f) \in Seq(Row)
      OBVIOUS
    <3>2. q \in Seq(Row) /\ w \in 0..Len(q) /\ w <= w
      BY <1>1, <1>2, <2>1, <3>1
    <3> QED BY <3>2, ReplayedDef
  <2>3. LastZero(q, s) = w /\ Len(q) = w /\ new[w] <= 0 /\ w \in 0..w
    BY <1>2, <1>4, <1>8, <2>1
  <2> QED BY <1>1, <2>2, <2>3 DEF Sensible
<1>9. CASE f.side = s /\ ~(new[n + 1] <= 0)
  <2>1. /\ LastZero(q, s) = z /\ Replayed(q, s, z)[n + 1] = Applied(x, f)
        /\ new[z] = sum[z] /\ z \in 0..(n + 1)
    BY <1>2, <1>3, <1>4, <1>5, <1>9
  <2>2. PICK y : y = Applied(x, f)
    OBVIOUS
  <2>3. y \in Position /\ y.status = "Open" /\ y.qty = new[n + 1] - sum[z] /\ y.cost >= y.qty
    <3>1. CASE f.kind = "open"
      <4>1. Signed(f, s) = f.qty /\ f.qty \in Int
        BY <1>9, <3>1 DEF Signed, Row, Positive
      <4>2. x \in Position /\ x.qty = sum[n] - sum[z] /\ x.cost >= x.qty
        BY <1>6 DEF NoPosition, Position
      <4>3. y \in Position /\ y.status = "Open" /\ y.qty = x.qty + f.qty /\ y.cost >= y.qty
        BY <2>2, <3>1, <4>2, AppliedOpen
      <4> HIDE DEF x, z, n
      <4> QED BY <1>3, <1>6, <4>1, <4>2, <4>3
    <3>2. CASE f.kind = "close"
      <4>1. Signed(f, s) = -f.qty /\ f.qty \in Int /\ f.qty > 0
        BY <1>9, <3>2 DEF Signed, Row, Positive
      <4>2. sum[n] > f.qty
        BY <1>3, <1>6, <1>9, <4>1
      <4>3. x \in Position /\ x.qty = sum[n] - sum[z] /\ x.cost >= x.qty
        BY <1>6, <4>1, <4>2
      <4>4. x.qty > f.qty
        BY <1>6, <4>1, <4>2, <4>3
      <4>5. y \in Position /\ y.status = "Open" /\ y.qty = x.qty - f.qty /\ y.cost >= y.qty
        BY <2>2, <3>2, <4>3, <4>4, AppliedClose
      <4> HIDE DEF x, z, n
      <4> QED BY <1>3, <1>6, <4>1, <4>3, <4>5
    <3> QED BY <3>1, <3>2 DEF Row
  <2>4. new[n + 1] \in Int
    <3>1. Signed(f, s) \in Int
      BY SignedInt
    <3> QED BY <1>3, <1>6, <3>1
  <2>5. ~(new[n + 1] <= 0) /\ sum[z] <= 0
    BY <1>6, <1>9
  <2> HIDE DEF x, z, n
  <2> QED BY <1>1, <1>2, <2>1, <2>2, <2>3, <2>5 DEF Sensible
<1> QED BY <1>7, <1>8, <1>9

\* The recovered position is the one that has been replayed.
LEMMA Recovers ==
  ASSUME NEW r \in Seq(Row), NEW s, Sensible(r, s)
  PROVE  /\ Replay(r, s) = Replayed(r, s, LastZero(r, s))[Len(r)]
         /\ Replay(r, s) \in Position /\ Replay(r, s).qty \in Nat
         /\ Replay(r, s).cost >= Replay(r, s).qty
         /\ (Replay(r, s).qty > 0 /\ Replay(r, s).status = "Open") \/ Replay(r, s) = NoPosition
<1> DEFINE n == Len(r)
           z == LastZero(r, s)
           x == Replayed(r, s, z)[n]
<1>1. PICK sum : sum = Running(r, s)
  OBVIOUS
<1>2. n \in Nat /\ z \in 0..n /\ sum[n] \in Int /\ sum[z] \in Int
  BY <1>1, RunningDef DEF Sensible
<1>3. sum[z] <= 0
      /\ IF sum[n] <= 0 THEN x = NoPosition /\ sum[z] = sum[n]
         ELSE x \in Position /\ x.status = "Open" /\ x.qty = sum[n] - sum[z] /\ x.cost >= x.qty
  BY <1>1 DEF Sensible
<1>4. Replay(r, s) = IF x.qty > 0 THEN x ELSE NoPosition
  BY DEF Replay
<1> HIDE DEF x, z, n
<1>5. CASE sum[n] <= 0
  BY <1>3, <1>4, <1>5 DEF NoPosition, Position, x, z, n
<1>6. CASE ~(sum[n] <= 0)
  <2>1. x.qty > 0 /\ x.qty \in Nat
    BY <1>2, <1>3, <1>6
  <2> QED BY <1>3, <1>4, <1>6, <2>1 DEF x, z, n
<1> QED BY <1>5, <1>6

-----------------------------------------------------------------------------
(* Types that need no fill to be applied to a position that is there *)

Placed == [cid: Cids, side: Sides, kind: {"open", "close"}, qty: Positive, limit: Limits]

\* Whatever fills in which order, quantities are numbers.
PosTyped == DOMAIN pos = Sides /\ \A s \in Sides : "qty" \in DOMAIN pos[s] /\ pos[s].qty \in Int
PriceTyped == price \in Nat /\ (todo # {} => price # 0)
OrdersTyped ==
  /\ resting \subseteq Placed /\ todo \subseteq Placed /\ known \subseteq Placed
  /\ cmd \in Placed \cup {NoOrder}
  /\ sent \in 0..Cardinality(Cids)
FillsTyped ==
  /\ outbox \in Row \cup {NoFill} /\ feed \in Row \cup {NoFill}
  /\ chan \in Seq(Row)
RowsTyped == rows \in Seq(Row) /\ \A s \in Sides : Sensible(rows, s)
Typed == PosTyped /\ PriceTyped /\ OrdersTyped /\ FillsTyped /\ RowsTyped

LEMMA CidsCounted == Cardinality(Cids) \in Nat /\ Cids = 1..Cardinality(Cids)
BY TradingAssumption, FS_CardinalityType

LEMMA InitTyped == Init => Typed
<1> SUFFICES ASSUME Init PROVE Typed
  OBVIOUS
<1>1. PosTyped
  BY DEF Init, PosTyped, NoPosition
<1>2. PriceTyped /\ FillsTyped
  BY DEF Init, XInit, PriceTyped, FillsTyped
<1>3. OrdersTyped
  BY CidsCounted DEF Init, XInit, OrdersTyped
<1>4. RowsTyped
  BY SensibleEmpty DEF Init, RowsTyped
<1> QED BY <1>1, <1>2, <1>3, <1>4 DEF Typed

\* A command is for an order of the kind that is placed.
LEMMA IssueTyped ==
  ASSUME OrdersTyped, sent < Cardinality(Cids), UNCHANGED <<resting, todo>>,
         NEW s \in Sides, NEW kind \in {"open", "close"}, NEW q \in Positive, NEW limit \in Limits,
         Issue(NewOrder(s, kind, q, limit))
  PROVE  OrdersTyped'
<1>1. sent + 1 \in Cids /\ sent + 1 \in 0..Cardinality(Cids)
  BY CidsCounted DEF OrdersTyped
<1>2. NewOrder(s, kind, q, limit) \in Placed
  BY <1>1 DEF NewOrder, Placed
<1>3. PICK o \in Placed : o = NewOrder(s, kind, q, limit)
  BY <1>2
<1>4. cmd' = o /\ known' = known \cup {o} /\ sent' = sent + 1
  BY <1>3 DEF Issue
<1> QED BY <1>1, <1>3, <1>4 DEF OrdersTyped

LEMMA ExecutesTyped ==
  ASSUME NEW o \in Placed, price \in Nat, price # 0, Executes(o, price)
  PROVE  outbox' \in Row
BY DEF Executes, Placed, Row, Positive

LEMMA CommandsTyped ==
  ASSUME Typed, Commands
  PROVE  Typed'
<1>1. ASSUME NEW s \in Sides, NEW q \in Quantities, NEW limit \in Limits, OpenMore(s, q, limit)
      PROVE  Typed'
  <2>1. q \in Positive
    BY PaperAssumption DEF Positive
  <2>2. OrdersTyped'
    BY <1>1, <2>1, IssueTyped DEF OpenMore, MayOpen, xvars, Typed
  <2> QED BY <1>1, <2>2 DEF OpenMore, xvars, Issue, Typed, PosTyped, PriceTyped, FillsTyped, RowsTyped
<1>2. ASSUME NEW s \in Sides, NEW q \in Quantities, NEW limit \in Limits, NEW l \in Leverages,
             OpenNew(s, q, limit, l)
      PROVE  Typed'
  <2>1. q \in Positive
    BY PaperAssumption DEF Positive
  <2>2. OrdersTyped'
    BY <1>2, <2>1, IssueTyped DEF OpenNew, MayOpen, SetLeverage, Typed
  <2>3. PosTyped'
    BY <1>2 DEF OpenNew, Typed, PosTyped
  <2> QED BY <1>2, <2>2, <2>3 DEF OpenNew, SetLeverage, Issue, Typed, PriceTyped, FillsTyped, RowsTyped
<1>3. ASSUME NEW s \in Sides, NEW limit \in Limits, Close(s, limit)
      PROVE  Typed'
  <2>1. pos[s].qty \in Positive
    BY <1>3 DEF Close, Typed, PosTyped, Positive
  <2>2. OrdersTyped'
    BY <1>3, <2>1, IssueTyped DEF Close, MayClose, xvars, Typed
  <2>3. PosTyped'
    BY <1>3 DEF Close, Typed, PosTyped
  <2> QED BY <1>3, <2>2, <2>3 DEF Close, xvars, Issue, Typed, PriceTyped, FillsTyped, RowsTyped
<1>4. ASSUME CancelOrders
      PROVE  Typed'
  <2>1. OrdersTyped'
    BY <1>4 DEF CancelOrders, CancelAll, Typed, OrdersTyped
  <2> QED BY <1>4, <2>1 DEF CancelOrders, CancelAll, Typed, PosTyped, PriceTyped, FillsTyped, RowsTyped
<1>5. ASSUME NEW p \in Prices, PriceTick(p)
      PROVE  Typed'
  <2>1. OrdersTyped'
    BY <1>5 DEF PriceTick, Tick, Triggered, evars, Typed, OrdersTyped
  <2>2. PriceTyped'
    BY <1>5, PaperAssumption DEF PriceTick, Tick, PriceTyped
  <2> QED BY <1>5, <2>1, <2>2 DEF PriceTick, Tick, evars, Typed, PosTyped, FillsTyped, RowsTyped
<1> QED
  BY <1>1, <1>2, <1>3, <1>4, <1>5 DEF Commands

\* A trade that is stored leaves the rows as sensible as they were.
LEMMA StoredTyped ==
  ASSUME RowsTyped, NEW f \in Row, rows' = Append(rows, f)
  PROVE  RowsTyped'
<1>1. rows' \in Seq(Row)
  BY DEF RowsTyped
<1>2. \A s \in Sides : Sensible(rows', s)
  BY SensibleAppended DEF RowsTyped
<1> QED BY <1>1, <1>2 DEF RowsTyped

LEMMA AppliedQty ==
  ASSUME NEW x, x.qty \in Int, NEW f \in Row
  PROVE  "qty" \in DOMAIN Applied(x, f) /\ Applied(x, f).qty \in Int
BY DEF Applied, NoPosition, Row, Positive

LEMMA WorkingTyped ==
  ASSUME Typed, Working
  PROVE  Typed'
<1>1. ASSUME PlaceOrder
      PROVE  Typed'
  <2>1. cmd \in Placed
    BY <1>1 DEF PlaceOrder, Typed, OrdersTyped
  <2>2. OrdersTyped'
    BY <1>1, <2>1 DEF PlaceOrder, Place, Typed, OrdersTyped
  <2>3. FillsTyped'
    <3>1. CASE cmd.limit = 0
      <4>1. price # 0 /\ Executes(cmd, price)
        BY <1>1, <3>1 DEF PlaceOrder, Place, Takes
      <4>2. outbox' \in Row
        BY <2>1, <4>1, ExecutesTyped DEF Typed, PriceTyped
      <4> QED BY <1>1, <4>2 DEF PlaceOrder, Place, Typed, FillsTyped
    <3>2. CASE cmd.limit # 0
      BY <1>1, <3>2 DEF PlaceOrder, Place, Typed, FillsTyped
    <3> QED BY <3>1, <3>2
  <2> QED BY <1>1, <2>2, <2>3 DEF PlaceOrder, Place, Typed, PosTyped, PriceTyped, RowsTyped
<1>2. ASSUME RefuseOrder
      PROVE  Typed'
  <2>1. PosTyped'
    <3>1. cmd.side \in Sides
      BY <1>2 DEF RefuseOrder, Typed, OrdersTyped, Placed
    <3>2. "qty" \in DOMAIN RolledBack(pos[cmd.side]) /\ RolledBack(pos[cmd.side]).qty \in Int
      BY <3>1 DEF Typed, PosTyped, RolledBack, NoPosition
    <3>3. pos' = [pos EXCEPT ![cmd.side] = RolledBack(pos[cmd.side])]
      BY <1>2 DEF RefuseOrder
    <3> QED BY <3>1, <3>2, <3>3 DEF Typed, PosTyped
  <2>2. OrdersTyped'
    BY <1>2 DEF RefuseOrder, xvars, Typed, OrdersTyped
  <2> QED BY <1>2, <2>1, <2>2 DEF RefuseOrder, xvars, Typed, PriceTyped, FillsTyped, RowsTyped
<1>3. ASSUME FillTriggered
      PROVE  Typed'
  <2>1. PICK o \in todo : (FillNext(o) \/ DropNext(o)) /\ UNCHANGED evars
    BY <1>3 DEF FillTriggered
  <2>2. OrdersTyped'
    BY <2>1 DEF FillNext, DropNext, evars, Typed, OrdersTyped
  <2>3. price \in Nat /\ price # 0 /\ o \in Placed
    BY <2>1 DEF Typed, PriceTyped, OrdersTyped
  <2>4. FillsTyped'
    <3>1. CASE FillNext(o)
      <4>1. outbox' \in Row
        BY <2>3, <3>1, ExecutesTyped DEF FillNext
      <4> QED BY <2>1, <3>1, <4>1 DEF FillNext, evars, Typed, FillsTyped
    <3>2. CASE DropNext(o)
      BY <2>1, <3>2 DEF DropNext, evars, Typed, FillsTyped
    <3> QED BY <2>1, <3>1, <3>2
  <2>5. PriceTyped'
    BY <2>1, <2>3 DEF FillNext, DropNext, PriceTyped
  <2> QED BY <2>1, <2>2, <2>4, <2>5 DEF evars, Typed, PosTyped, RowsTyped
<1>4. ASSUME SendUpdate
      PROVE  Typed'
  <2>1. FillsTyped'
    BY <1>4 DEF SendUpdate, Send, evars, Typed, FillsTyped
  <2> QED BY <1>4, <2>1 DEF SendUpdate, Send, evars, Typed, PosTyped, PriceTyped, OrdersTyped, RowsTyped
<1>5. ASSUME Persist
      PROVE  Typed'
  <2>1. Head(chan) \in Row /\ Tail(chan) \in Seq(Row)
    BY <1>5 DEF Persist, Take, Typed, FillsTyped
  <2>2. PICK f \in Row : f = Head(chan)
    BY <2>1
  <2>3. FillsTyped'
    BY <1>5, <2>1, <2>2 DEF Persist, Take, Typed, FillsTyped
  <2>4. RowsTyped'
    <3>1. rows' = Append(rows, f) \/ rows' = rows
      BY <1>5, <2>2 DEF Persist
    <3> QED BY <3>1, StoredTyped DEF Typed, RowsTyped
  <2> QED BY <1>5, <2>3, <2>4 DEF Persist, Take, Typed, PosTyped, PriceTyped, OrdersTyped
<1>6. ASSUME Apply
      PROVE  Typed'
  <2>1. PICK f \in Row : f = feed
    BY <1>6 DEF Apply, Typed, FillsTyped
  <2>2. f.side \in Sides
    BY DEF Row
  <2>3. pos' = [pos EXCEPT ![f.side] = IF pos[f.side].status = "none" THEN pos[f.side]
                                       ELSE Applied(pos[f.side], f)]
    BY <1>6, <2>1 DEF Apply
  <2>4. PosTyped'
    <3>1. "qty" \in DOMAIN Applied(pos[f.side], f) /\ Applied(pos[f.side], f).qty \in Int
      BY <2>2, AppliedQty DEF Typed, PosTyped
    <3> QED BY <2>2, <2>3, <3>1 DEF Typed, PosTyped
  <2>5. OrdersTyped'
    BY <1>6 DEF Apply, xvars, Typed, OrdersTyped
  <2> QED BY <1>6, <2>4, <2>5 DEF Apply, xvars, Typed, PriceTyped, FillsTyped, RowsTyped
<1> QED
  BY <1>1, <1>2, <1>3, <1>4, <1>5, <1>6 DEF Working

LEMMA RestartTyped ==
  ASSUME Typed, Restart
  PROVE  Typed'
<1>1. \A s \in Sides : Replay(rows, s) \in Position /\ Replay(rows, s).qty \in Nat
                       /\ Replay(rows, s).cost >= Replay(rows, s).qty
  BY Recovers DEF Typed, RowsTyped
<1>2. PosTyped'
  <2>1. pos' = [s \in Sides |-> Replay(rows, s)]
    BY DEF Restart
  <2>2. \A s \in Sides : "qty" \in DOMAIN Replay(rows, s)
    BY <1>1 DEF Position
  <2> QED BY <1>1, <2>1, <2>2 DEF PosTyped
<1>3. PriceTyped'
  <2> DEFINE held == [s \in Sides |-> HoldingOf(Replay(rows, s))]
  <2>1. todo' = {} /\ (price' = 0 \/ \E s \in Sides : held[s].qty > 0 /\ price' = held[s].cost \div held[s].qty)
    BY DEF Restart, Restore
  <2>2. ASSUME NEW s \in Sides, held[s].qty > 0 PROVE held[s].cost \div held[s].qty \in Nat
    <3>1. PICK c \in Nat, n \in Nat : c = held[s].cost /\ n = held[s].qty /\ n > 0
      BY <1>1, <2>2 DEF HoldingOf, Position
    <3>2. c \div n \in Nat
      BY <3>1
    <3> QED BY <3>1, <3>2
  <2> HIDE DEF held
  <2> QED BY <2>1, <2>2 DEF PriceTyped
<1> QED
  BY <1>2, <1>3 DEF Restart, Restore, Typed, OrdersTyped, FillsTyped, RowsTyped

LEMMA StepTyped == Typed /\ [Next]_vars => Typed'
<1>1. ASSUME Typed, UNCHANGED vars PROVE Typed'
  BY <1>1 DEF vars, xvars, evars, accounts, Typed, PosTyped, PriceTyped, OrdersTyped, FillsTyped, RowsTyped
<1> QED
  BY <1>1, CommandsTyped, WorkingTyped, RestartTyped DEF Next

-----------------------------------------------------------------------------
(* The balance *)

Asked == [cid: Int, side: Sides, kind: {"open", "close"}, qty: Nat, limit: Nat]
Held == [qty: Nat, cost: Int]

\* The inductive invariant.
Accounts ==
  /\ cash \in [free: Int, used: Int]
  /\ realized \in Int
  /\ xpos \in [Sides -> Held]
  /\ lev \in Nat
  /\ Balanced
Orders ==
  /\ resting \subseteq Asked
  /\ todo \subseteq Asked
  /\ cmd \in Asked \cup {NoOrder}
  /\ sent \in Nat
Inv == Accounts /\ Orders

\* What a closing order closes is at most what is held.
LEMMA ClosedNat ==
  ASSUME xpos \in [Sides -> Held], NEW o \in Asked
  PROVE  Closed(o) \in Nat /\ Closed(o) <= xpos[o.side].qty
BY DEF Closed, Lesser, Asked, Held

\* A share of the cost is a number.
LEMMA CostInt ==
  ASSUME NEW h \in Held, NEW n \in Nat
  PROVE  CostOf(h, n) \in Int
<1>1. CASE h.qty = 0
  BY <1>1 DEF CostOf
<1>2. CASE h.qty # 0
  <2>1. h.qty \in Nat /\ h.qty > 0 /\ h.cost * n \in Int
    BY <1>2 DEF Held
  <2>2. (h.cost * n) \div h.qty \in Int
    BY <2>1
  <2> QED
    BY <1>2, <2>2 DEF CostOf
<1> QED
  BY <1>1, <1>2

\* The PnL of a fill is a number.
LEMMA PnlInt ==
  ASSUME xpos \in [Sides -> Held], NEW o \in Asked, NEW p \in Nat
  PROVE  Pnl(o, p) \in Int
<1>1. Closed(o) \in Nat
  BY ClosedNat
<1>2. CostOf(xpos[o.side], Closed(o)) \in Int
  BY <1>1, CostInt DEF Asked
<1>3. Sign(o.side) \in Int
  BY DEF Sign
<1>4. p * Closed(o) \in Int
  BY <1>1
<1> DEFINE gain == p * Closed(o) - CostOf(xpos[o.side], Closed(o))
<1>5. gain \in Int
  BY <1>2, <1>4
<1> HIDE DEF gain
<1>6. Sign(o.side) * gain \in Int
  BY <1>3, <1>5
<1> QED
  BY <1>6 DEF Pnl, gain

\* The margin of an order is not negative.
LEMMA MarginNat ==
  ASSUME NEW o \in Asked, NEW p \in Nat, lev \in Nat, lev # 0
  PROVE  Margin(o, p) \in Nat
<1>1. p * o.qty \in Nat
  BY DEF Asked
<1> QED
  BY <1>1 DEF Margin

\* A fill keeps the holdings holdings.
LEMMA AfterHeld ==
  ASSUME NEW h \in Held, NEW o \in Asked, NEW p \in Nat
  PROVE  After(h, o, p) \in Held
<1>1. p * o.qty \in Int
  BY DEF Asked
<1>2. CostOf(h, o.qty) \in Int
  BY CostInt DEF Asked
<1> QED
  BY <1>1, <1>2 DEF After, Held, Asked, Nothing

\* A fill keeps the accounts.
LEMMA FillAccounts ==
  ASSUME Accounts, price \in Nat, lev # 0, NEW o \in Asked, Executes(o, price), lev' = lev
  PROVE  Accounts'
<1>1. xpos' \in [Sides -> Held]
  <2>1. \A h \in Held : After(h, o, price) \in Held
    BY AfterHeld
  <2> QED
    BY <2>1 DEF Executes, Accounts
<1> DEFINE m == Margin(o, price)
           g == Pnl(o, price)
<1>2. m \in Nat
  BY MarginNat DEF Accounts
<1>3. g \in Int
  BY PnlInt DEF Accounts
<1>4. o.kind = "open" => g = 0
  <2>1. ASSUME o.kind = "open" PROVE g = 0
    <3>1. Closed(o) = 0
      BY <2>1 DEF Closed
    <3>2. CostOf(xpos[o.side], 0) = 0
      <4>1. xpos[o.side] \in Held
        BY DEF Accounts, Asked
      <4>2. xpos[o.side].cost * 0 = 0
        BY <4>1 DEF Held
      <4>3. xpos[o.side].qty # 0 => 0 \div xpos[o.side].qty = 0
        BY <4>1 DEF Held
      <4> QED
        BY <4>2, <4>3 DEF CostOf
    <3>3. Sign(o.side) * (price * 0 - 0) = 0
      BY DEF Sign
    <3> QED
      BY <3>1, <3>2, <3>3 DEF Pnl
  <2> QED
    BY <2>1
<1>5. cash' = CashAfter(o, price) /\ realized' = realized + g
  BY DEF Executes
<1> HIDE DEF g
<1>6. CASE o.kind = "open"
  BY <1>1, <1>2, <1>3, <1>4, <1>5, <1>6 DEF Accounts, Balanced, CashAfter
<1>7. CASE o.kind # "open"
  <2> DEFINE r == Lesser(m, cash.used)
  <2>1. cash' = [free |-> cash.free + r + g, used |-> cash.used - r]
    BY <1>5, <1>7 DEF CashAfter, g
  <2> HIDE DEF m
  <2>2. r \in Nat /\ r <= cash.used
    BY <1>2 DEF Accounts, Balanced, Lesser
  <2> HIDE DEF r
  <2> QED
    BY <1>1, <1>3, <1>5, <2>1, <2>2, PaperAssumption DEF Accounts, Balanced
<1> QED
  BY <1>6, <1>7

\* Initially nothing is booked.
LEMMA InitInv == Init => Inv
BY PaperAssumption DEF Init, XInit, Inv, Accounts, Orders, Balanced, Held, Nothing, Asked, NoOrder

\* A command makes an order of the kind the exchange is asked for.
LEMMA IssueOrders ==
  ASSUME Orders, NEW s \in Sides, NEW kind \in {"open", "close"}, NEW q \in Nat,
         NEW limit \in Limits, Issue(NewOrder(s, kind, q, limit)), UNCHANGED <<resting, todo>>
  PROVE  Orders'
<1>1. limit \in Nat
  BY PaperAssumption DEF Limits
<1>2. cmd' \in Asked
  BY <1>1 DEF Issue, NewOrder, Asked, Orders
<1> QED
  BY <1>2 DEF Orders, Issue, Asked

\* A command keeps the invariant.
LEMMA CommandInv ==
  ASSUME Inv, Typed, Commands
  PROVE  Inv'
<1> USE DEF Inv
<1>1. ASSUME NEW s \in Sides, NEW q \in Quantities, NEW limit \in Limits, OpenMore(s, q, limit)
      PROVE  Inv'
  <2>1. Accounts'
    BY <1>1 DEF OpenMore, xvars, accounts, Accounts, Balanced
  <2>2. q \in Nat
    BY PaperAssumption
  <2> QED
    BY <1>1, <2>1, <2>2, IssueOrders DEF OpenMore, xvars
<1>2. ASSUME NEW s \in Sides, NEW q \in Quantities, NEW limit \in Limits, NEW l \in Leverages,
             OpenNew(s, q, limit, l)
      PROVE  Inv'
  <2>1. Accounts'
    BY <1>2, PaperAssumption DEF OpenNew, SetLeverage, accounts, Accounts, Balanced
  <2>2. q \in Nat
    BY PaperAssumption
  <2> QED
    BY <1>2, <2>1, <2>2, IssueOrders DEF OpenNew, SetLeverage
<1>3. ASSUME NEW s \in Sides, NEW limit \in Limits, Close(s, limit)
      PROVE  Inv'
  <2>1. Accounts'
    BY <1>3 DEF Close, xvars, accounts, Accounts, Balanced
  <2>2. pos[s].qty \in Nat
    BY <1>3 DEF Close, Typed, PosTyped
  <2> QED
    BY <1>3, <2>1, <2>2, IssueOrders DEF Close, xvars
<1>4. ASSUME CancelOrders
      PROVE  Inv'
  <2>1. Accounts'
    BY <1>4 DEF CancelOrders, CancelAll, accounts, Accounts, Balanced
  <2> QED
    BY <1>4, <2>1 DEF CancelOrders, CancelAll, Orders
<1>5. ASSUME NEW p \in Prices, PriceTick(p)
      PROVE  Inv'
  <2>1. Accounts'
    BY <1>5 DEF PriceTick, Tick, accounts, Accounts, Balanced
  <2>2. todo' \subseteq Asked
    BY <1>5 DEF PriceTick, Tick, Triggered, Orders
  <2> QED
    BY <1>5, <2>1, <2>2 DEF PriceTick, Tick, evars, Orders
<1> QED
  BY <1>1, <1>2, <1>3, <1>4, <1>5 DEF Commands

\* What the two loops do to an order that is under way keeps the invariant.
LEMMA WorkingInv ==
  ASSUME Inv, Typed, Working
  PROVE  Inv'
<1> USE DEF Inv
<1>1. ASSUME PlaceOrder
      PROVE  Inv'
  <2>1. cmd \in Asked
    BY <1>1 DEF PlaceOrder, Orders
  <2>2. Orders'
    BY <1>1, <2>1 DEF PlaceOrder, Place, Orders
  <2>3. CASE cmd.limit = 0
    <3>1. lev # 0 /\ Executes(cmd, price) /\ lev' = lev
      BY <1>1, <2>3 DEF PlaceOrder, Place, Takes
    <3>2. Accounts'
      BY <2>1, <3>1, FillAccounts DEF Typed, PriceTyped
    <3> QED
      BY <2>2, <3>2
  <2>4. CASE cmd.limit # 0
    <3>1. UNCHANGED <<accounts, lev>>
      BY <1>1, <2>4 DEF PlaceOrder, Place
    <3>2. Accounts'
      BY <3>1 DEF accounts, Accounts, Balanced
    <3> QED
      BY <2>2, <3>2
  <2> QED
    BY <2>3, <2>4
<1>2. ASSUME RefuseOrder
      PROVE  Inv'
  BY <1>2 DEF RefuseOrder, xvars, accounts, Accounts, Balanced, Orders
<1>3. ASSUME FillTriggered
      PROVE  Inv'
  <2>1. PICK o \in todo : (FillNext(o) \/ DropNext(o)) /\ UNCHANGED evars
    BY <1>3 DEF FillTriggered
  <2>2. Orders'
    BY <2>1 DEF FillNext, DropNext, evars, Orders
  <2>3. CASE FillNext(o)
    <3>1. o \in Asked /\ lev # 0 /\ Executes(o, price) /\ lev' = lev
      BY <2>1, <2>3 DEF FillNext, Orders
    <3>2. Accounts'
      BY <3>1, FillAccounts DEF Typed, PriceTyped
    <3> QED
      BY <2>2, <3>2
  <2>4. CASE DropNext(o)
    BY <2>2, <2>4 DEF DropNext, accounts, Accounts, Balanced
  <2> QED
    BY <2>1, <2>3, <2>4
<1>4. ASSUME SendUpdate
      PROVE  Inv'
  BY <1>4 DEF SendUpdate, Send, evars, accounts, Accounts, Balanced, Orders
<1>5. ASSUME Persist
      PROVE  Inv'
  BY <1>5 DEF Persist, Take, accounts, Accounts, Balanced, Orders
<1>6. ASSUME Apply
      PROVE  Inv'
  BY <1>6 DEF Apply, xvars, accounts, Accounts, Balanced, Orders
<1> QED
  BY <1>1, <1>2, <1>3, <1>4, <1>5, <1>6 DEF Working

\* A restart begins new accounts from the recovered positions.
LEMMA RestartInv ==
  ASSUME Inv, Typed, Restart
  PROVE  Inv'
<1>1. xpos' \in [Sides -> Held]
  <2>1. ASSUME NEW s \in Sides
        PROVE  HoldingOf(Replay(rows, s)) \in Held
    <3>1. Replay(rows, s) \in Position /\ Replay(rows, s).qty \in Nat
      BY Recovers DEF Typed, RowsTyped
    <3> QED
      BY <3>1 DEF Position, HoldingOf, Held
  <2> QED
    BY <2>1 DEF Restart, Restore
<1>2. Accounts'
  BY <1>1, PaperAssumption DEF Restart, Restore, Accounts, Balanced
<1>3. Orders'
  BY DEF Restart, Restore, Inv, Orders
<1> QED
  BY <1>2, <1>3 DEF Inv

LEMMA StepInv ==
  ASSUME Typed, Inv, [Next]_vars
  PROVE  Inv'
<1>1. CASE Commands
  BY <1>1, CommandInv
<1>2. CASE Working
  BY <1>2, WorkingInv
<1>3. CASE Restart
  BY <1>3, RestartInv
<1>4. CASE UNCHANGED vars
  BY <1>4 DEF vars, xvars, evars, accounts, Inv, Accounts, Balanced, Orders
<1> QED BY <1>1, <1>2, <1>3, <1>4 DEF Next

\* The simulated exchange's balance is the initial one and the PnL realized since, and no
\* more margin is released than is used, whatever orders, fills and restarts there are
\* (update_position_on_fill).
THEOREM BalanceAddsUp == Spec => []Balanced
<1>1. Typed /\ Inv /\ [Next]_vars => Inv'
  BY StepInv
<1>2. Inv => Balanced
  BY DEF Inv, Accounts
<1> QED
  BY InitTyped, StepTyped, InitInv, <1>1, <1>2, PTL DEF Spec

-----------------------------------------------------------------------------
(* One order in flight *)

Well(x) == /\ x \in Position /\ x.qty \in Nat /\ x.qty <= x.cost
           /\ x.qty = 0 => x.cost = 0
           /\ x.status = "none" => x.qty = 0
Positions == pos \in [Sides -> Position] /\ \A s \in Sides : Well(pos[s])

\* At most one order of a side is known, and no other next to an opening order; a closing
\* order is for all that is held.
Known ==
  /\ cmd # NoOrder => cmd \in known /\ cmd \notin resting
  /\ resting \subseteq known /\ todo \subseteq resting
  /\ \A o \in known : o.cid <= sent
  /\ \A o, q \in known : (o.side = q.side \/ o.cid = q.cid \/ o.kind = "open") => o = q
  /\ \A o \in known : IF o.kind = "open" THEN pos[o.side].status # "none" /\ o.qty \in Quantities
                      ELSE o.qty = pos[o.side].qty

Matches(f, o) == f.cid = o.cid /\ f.side = o.side /\ f.kind = o.kind /\ f.qty = o.qty
Out(s) == outbox # NoFill /\ outbox.side = s
InChan(s) == \E i \in DOMAIN chan : chan[i].side = s
Fed(s) == feed # NoFill /\ feed.side = s
Filled(s) == Out(s) \/ InChan(s) \/ Fed(s)

\* A fill under way to the engine is that of an order the engine knows, and the exchange
\* holds what the engine will hold when it has applied it.
Gone(o) == o \in known /\ o # cmd /\ o \notin resting
Sound(f) == /\ \E o \in known : Gone(o) /\ Matches(f, o)
            /\ xpos[f.side] = HoldingOf(Applied(pos[f.side], f))
Flights ==
  /\ outbox # NoFill => Sound(outbox) /\ ~InChan(outbox.side) /\ ~Fed(outbox.side)
  /\ \A i \in DOMAIN chan : /\ Sound(chan[i]) /\ ~Fed(chan[i].side)
                            /\ \A j \in DOMAIN chan : chan[j].side = chan[i].side => i = j
  /\ feed # NoFill => Sound(feed)
  /\ \A s \in Sides : ~Filled(s) => xpos[s] = HoldingOf(pos[s])

\* The rows make what is on record.
Stored == \A s \in Sides : /\ Running(rows, s)[LastZero(rows, s)] = 0
                           /\ Recorded[s] = HoldingOf(Replay(rows, s))

Consistent == Positions /\ Known /\ Flights /\ Stored

\* What a fill makes of a position depends on what it holds.
LEMMA AppliedHolding ==
  ASSUME NEW x, NEW y, HoldingOf(x) = HoldingOf(y), NEW f
  PROVE  Applied(x, f) = Applied(y, f)
<1>1. x.qty = y.qty /\ x.cost = y.cost
  BY DEF HoldingOf
<1> QED BY <1>1 DEF Applied, CostOf

\* All units of a holding have all its cost.
LEMMA WholeCost ==
  ASSUME NEW h, h.qty \in Positive, h.cost \in Int
  PROVE  CostOf(h, h.qty) = h.cost
<1>1. PICK n \in Nat, c \in Int : n = h.qty /\ c = h.cost /\ n > 0
  BY DEF Positive
<1>2. (c * n) \div n = c
  BY <1>1
<1>3. CostOf(h, h.qty) = IF h.qty = 0 THEN 0 ELSE (h.cost * h.qty) \div h.qty
  BY DEF CostOf
<1>4. h.qty # 0
  BY DEF Positive
<1> QED BY <1>1, <1>2, <1>3, <1>4, Zenon

\* What the exchange makes of a fill is what the engine makes of it.
LEMMA AfterApplied ==
  ASSUME NEW x, Well(x), NEW o \in Placed, NEW p \in Positive, NEW f,
         f = [cid |-> o.cid, side |-> o.side, kind |-> o.kind, qty |-> o.qty, price |-> p],
         o.kind = "close" => o.qty = x.qty
  PROVE  After(HoldingOf(x), o, p) = HoldingOf(Applied(x, f)) /\ Well(Applied(x, f))
<1>1. o.qty \in Positive /\ o.kind \in {"open", "close"}
  BY DEF Placed
<1>2. PICK q \in Nat, m \in Nat : q = o.qty /\ q > 0 /\ p * q = m /\ m >= q
  <2>1. p * o.qty \in Nat /\ p * o.qty >= o.qty
    BY <1>1 DEF Positive
  <2> QED BY <1>1, <2>1 DEF Positive
<1>3. x.qty \in Nat /\ x.cost \in Int /\ x.qty <= x.cost /\ (x.qty = 0 => x.cost = 0)
  BY DEF Well, Position
<1>4. CASE o.kind = "open"
  <2>1. Applied(x, f) = [status |-> "Open", qty |-> x.qty + q, cost |-> x.cost + m]
    BY <1>2, <1>4 DEF Applied
  <2>2. After(HoldingOf(x), o, p) = [qty |-> x.qty + q, cost |-> x.cost + m]
    BY <1>2, <1>3, <1>4 DEF After, HoldingOf
  <2>3. Well(Applied(x, f))
    BY <1>2, <1>3, <2>1 DEF Well, Position
  <2> QED BY <2>1, <2>2, <2>3 DEF HoldingOf
<1>5. CASE o.kind = "close"
  <2>1. Applied(x, f) = NoPosition
    BY <1>5 DEF Applied
  <2>2. After(HoldingOf(x), o, p) = Nothing
    BY <1>2, <1>3, <1>5 DEF After, HoldingOf
  <2> QED BY <2>1, <2>2 DEF Nothing, NoPosition, HoldingOf, Well, Position
<1> QED BY <1>1, <1>4, <1>5

\* Nothing that is under way is disturbed by what leaves its orders and the holdings alone.
LEMMA FlightsStay ==
  ASSUME Typed, Flights, UNCHANGED <<outbox, chan, feed, xpos>>,
         \A s \in Sides : HoldingOf(pos'[s]) = HoldingOf(pos[s]),
         \A o \in known : Gone(o) => Gone(o)'
  PROVE  Flights'
<1>1. ASSUME NEW f \in Row, Sound(f) PROVE Sound(f)'
  <2>1. PICK o \in known : Gone(o) /\ Matches(f, o)
    BY <1>1 DEF Sound
  <2>2. o \in known' /\ Gone(o)' /\ Matches(f, o)'
    BY <2>1 DEF Gone, Matches
  <2>3. f.side \in Sides
    BY DEF Row
  <2>4. Applied(pos'[f.side], f) = Applied(pos[f.side], f)
    BY <2>3, AppliedHolding
  <2> QED BY <1>1, <2>2, <2>4 DEF Sound
<1>2. \A s : (Out(s)' <=> Out(s)) /\ (InChan(s)' <=> InChan(s)) /\ (Fed(s)' <=> Fed(s))
  BY DEF Out, InChan, Fed
<1>3. outbox # NoFill => outbox \in Row
  BY DEF Typed, FillsTyped
<1>4. feed # NoFill => feed \in Row
  BY DEF Typed, FillsTyped
<1>5. \A i \in DOMAIN chan : chan[i] \in Row
  BY DEF Typed, FillsTyped
<1>6. outbox' # NoFill => Sound(outbox)' /\ ~InChan(outbox.side)' /\ ~Fed(outbox.side)'
  BY <1>1, <1>2, <1>3 DEF Flights
<1>7. feed' # NoFill => Sound(feed)'
  BY <1>1, <1>4 DEF Flights
<1>8. \A i \in DOMAIN chan' : /\ Sound(chan[i])' /\ ~Fed(chan[i].side)'
                              /\ \A j \in DOMAIN chan' : chan'[j].side = chan'[i].side => i = j
  <2> SUFFICES ASSUME NEW i \in DOMAIN chan
               PROVE  /\ Sound(chan[i])' /\ ~Fed(chan[i].side)'
                      /\ \A j \in DOMAIN chan : chan[j].side = chan[i].side => i = j
    OBVIOUS
  <2>1. PICK f \in Row : f = chan[i]
    BY <1>5
  <2>2. Sound(f)'
    BY <1>1, <2>1 DEF Flights
  <2>3. Sound(chan[i])'
    BY <2>1, <2>2 DEF Sound, Matches
  <2> QED BY <1>2, <2>3 DEF Flights
<1>9. \A s \in Sides : ~Filled(s)' => xpos'[s] = HoldingOf(pos'[s])
  BY <1>2 DEF Flights, Filled
<1> QED BY <1>6, <1>7, <1>8, <1>9 DEF Flights

\* The orders the engine waits for are orders.
LEMMA KnownTyped ==
  ASSUME Typed
  PROVE  /\ known \subseteq Placed /\ \A o \in known : o # NoOrder /\ o.side \in Sides /\ o.qty \in Positive
         /\ NoOrder \notin Placed
<1>1. \A o \in Placed : o.cid \in Cids /\ o.side \in Sides /\ o.qty \in Positive
  BY DEF Placed
<1>2. NoOrder \notin Placed
  BY <1>1 DEF NoOrder, Positive
<1> QED BY <1>1, <1>2 DEF Typed, OrdersTyped

\* What a command knows of the order it makes.
LEMMA IssueKnown ==
  ASSUME Typed, Known, cmd = NoOrder, UNCHANGED <<resting, todo>>,
         NEW o \in Placed, o.cid = sent + 1, Issue(o),
         \A q \in known : q.side # o.side /\ q.kind # "open",
         o.kind = "open" => known = {},
         \A s \in Sides : s # o.side => pos'[s] = pos[s],
         IF o.kind = "open" THEN pos'[o.side].status # "none" /\ o.qty \in Quantities
         ELSE o.qty = pos'[o.side].qty
  PROVE  Known'
<1>1. known' = known \cup {o} /\ cmd' = o /\ sent' = sent + 1 /\ sent \in Nat
  BY CidsCounted DEF Issue, Typed, OrdersTyped
<1>2. \A q \in known : q.cid <= sent /\ q.cid \in Nat /\ q.side \in Sides
  BY KnownTyped, CidsCounted DEF Known, Placed
<1>3. o \notin known /\ \A q \in known : q.cid # o.cid
  BY <1>1, <1>2
<1>4. cmd' # NoOrder => cmd' \in known' /\ cmd' \notin resting'
  BY <1>1, <1>3 DEF Known
<1>5. resting' \subseteq known' /\ todo' \subseteq resting' /\ \A q \in known' : q.cid <= sent'
  BY <1>1, <1>2 DEF Known
<1>6. \A p, q \in known' : (p.side = q.side \/ p.cid = q.cid \/ p.kind = "open") => p = q
  BY <1>1, <1>3 DEF Known
<1>7. \A q \in known' : IF q.kind = "open" THEN pos'[q.side].status # "none" /\ q.qty \in Quantities
                        ELSE q.qty = pos'[q.side].qty
  BY <1>1, <1>2 DEF Known
<1> QED BY <1>4, <1>5, <1>6, <1>7 DEF Known

LEMMA IssueFlights ==
  ASSUME Typed, Known, Flights, cmd = NoOrder, UNCHANGED <<outbox, chan, feed, xpos, resting>>,
         NEW o, o.cid = sent + 1, Issue(o),
         \A s \in Sides : HoldingOf(pos'[s]) = HoldingOf(pos[s])
  PROVE  Flights'
<1>1. known' = known \cup {o} /\ cmd' = o /\ sent \in Nat
  BY CidsCounted DEF Issue, Typed, OrdersTyped
<1>2. \A q \in known : q # o
  <2>1. \A q \in known : q.cid <= sent /\ q.cid \in Nat
    BY KnownTyped, CidsCounted DEF Known, Placed
  <2> QED BY <1>1, <2>1
<1>3. \A q \in known : Gone(q) => Gone(q)'
  BY <1>1, <1>2 DEF Gone
<1> QED BY <1>3, FlightsStay

LEMMA CommandsConsistent ==
  ASSUME OneInFlight, Typed, Positions, Known, Flights, Commands
  PROVE  Positions' /\ Known' /\ Flights'
<1>0. \A s \in Sides : pos[s] \in Position /\ Well(pos[s])
  BY DEF Positions
<1>1. ASSUME NEW s \in Sides, NEW q \in Quantities, NEW limit \in Limits, OpenMore(s, q, limit)
      PROVE  Positions' /\ Known' /\ Flights'
  <2>1. PICK o : o = NewOrder(s, "open", q, limit)
    OBVIOUS
  <2>2. /\ Issue(o) /\ known = {} /\ cmd = NoOrder /\ UNCHANGED <<xvars, pos>>
        /\ o.cid = sent + 1 /\ o.kind = "open" /\ o.side = s /\ o.qty = q /\ pos[s].status # "none"
        /\ sent < Cardinality(Cids)
    BY <1>1, <2>1 DEF OpenMore, Ready, MayOpen, NewOrder
  <2>3. o \in Placed
    BY <2>1, <2>2, CidsCounted, PaperAssumption DEF NewOrder, Placed, Positive, Typed, OrdersTyped
  <2>4. UNCHANGED <<outbox, chan, feed, xpos, resting, todo>>
    BY <2>2 DEF xvars, accounts, Issue
  <2>5. Known'
    BY <2>2, <2>3, <2>4, IssueKnown
  <2>6. Flights'
    BY <2>2, <2>4, IssueFlights
  <2> QED BY <2>2, <2>5, <2>6 DEF Positions
<1>2. ASSUME NEW s \in Sides, NEW q \in Quantities, NEW limit \in Limits, NEW l \in Leverages,
             OpenNew(s, q, limit, l)
      PROVE  Positions' /\ Known' /\ Flights'
  <2>1. PICK o : o = NewOrder(s, "open", q, limit)
    OBVIOUS
  <2>2. /\ Issue(o) /\ known = {} /\ cmd = NoOrder
        /\ o.cid = sent + 1 /\ o.kind = "open" /\ o.side = s /\ o.qty = q
        /\ sent < Cardinality(Cids)
    BY <1>2, <2>1 DEF OpenNew, Ready, MayOpen, NewOrder
  <2>3. o \in Placed
    BY <2>1, <2>2, CidsCounted, PaperAssumption DEF NewOrder, Placed, Positive, Typed, OrdersTyped
  <2>4. UNCHANGED <<outbox, chan, feed, xpos, resting, todo>>
    BY <1>2, <2>2 DEF OpenNew, SetLeverage, accounts, Issue
  <2>5. pos' = [pos EXCEPT ![s] = [pos[s] EXCEPT !.status = "Opening"]]
    BY <1>2 DEF OpenNew
  <2>6. PICK y : y = [pos[s] EXCEPT !.status = "Opening"]
    OBVIOUS
  <2>7. y \in Position /\ y.status = "Opening" /\ y.qty = pos[s].qty /\ y.cost = pos[s].cost
    BY <1>0, <2>6 DEF Position
  <2>8. Well(y) /\ HoldingOf(y) = HoldingOf(pos[s])
    BY <1>0, <2>7 DEF Well, HoldingOf
  <2>9. pos'[s] = y /\ (\A t \in Sides : t # s => pos'[t] = pos[t]) /\ pos' \in [Sides -> Position]
    BY <2>5, <2>6, <2>7 DEF Positions
  <2>10. Positions'
    BY <1>0, <2>8, <2>9 DEF Positions
  <2>11. Known'
    BY <2>2, <2>3, <2>4, <2>7, <2>9, IssueKnown
  <2>12. Flights'
    BY <2>2, <2>4, <2>8, <2>9, IssueFlights
  <2> QED BY <2>10, <2>11, <2>12
<1>3. ASSUME NEW s \in Sides, NEW limit \in Limits, Close(s, limit)
      PROVE  Positions' /\ Known' /\ Flights'
  <2>1. PICK o : o = NewOrder(s, "close", pos[s].qty, limit)
    OBVIOUS
  <2>2. /\ Issue(o) /\ cmd = NoOrder /\ \A q \in known : q.side # s /\ q.kind # "open"
        /\ o.cid = sent + 1 /\ o.kind = "close" /\ o.side = s /\ o.qty = pos[s].qty /\ pos[s].qty > 0
        /\ sent < Cardinality(Cids)
    BY <1>3, <2>1 DEF Close, Ready, MayClose, NewOrder
  <2>3. o \in Placed
    <3>1. pos[s].qty \in Positive /\ sent + 1 \in Cids
      BY <1>0, <2>2, CidsCounted DEF Well, Positive, Typed, OrdersTyped
    <3> QED BY <2>1, <3>1 DEF NewOrder, Placed
  <2>4. UNCHANGED <<outbox, chan, feed, xpos, resting, todo>>
    BY <1>3, <2>2 DEF Close, xvars, accounts, Issue
  <2>5. pos' = [pos EXCEPT ![s] = [pos[s] EXCEPT !.status = "Closing"]]
    BY <1>3 DEF Close
  <2>6. PICK y : y = [pos[s] EXCEPT !.status = "Closing"]
    OBVIOUS
  <2>7. y \in Position /\ y.status = "Closing" /\ y.qty = pos[s].qty /\ y.cost = pos[s].cost
    BY <1>0, <2>6 DEF Position
  <2>8. Well(y) /\ HoldingOf(y) = HoldingOf(pos[s])
    BY <1>0, <2>7 DEF Well, HoldingOf
  <2>9. pos'[s] = y /\ (\A t \in Sides : t # s => pos'[t] = pos[t]) /\ pos' \in [Sides -> Position]
    BY <2>5, <2>6, <2>7 DEF Positions
  <2>10. Positions'
    BY <1>0, <2>8, <2>9 DEF Positions
  <2>11. Known'
    BY <2>2, <2>3, <2>4, <2>7, <2>9, IssueKnown
  <2>12. Flights'
    BY <2>2, <2>4, <2>8, <2>9, IssueFlights
  <2> QED BY <2>10, <2>11, <2>12
<1>4. ASSUME CancelOrders
      PROVE  Positions' /\ Known' /\ Flights'
  <2>1. /\ UNCHANGED <<pos, cmd, feed, sent, outbox, chan, xpos, todo>> /\ resting' = {} /\ known' = known \ resting
        /\ todo = {} /\ cmd = NoOrder
    BY <1>4 DEF CancelOrders, CancelAll, Ready, Idle, accounts
  <2>2. Known'
    BY <2>1 DEF Known
  <2>3. \A q \in known : Gone(q) => Gone(q)'
    BY <2>1 DEF Gone
  <2>4. Flights'
    BY <2>1, <2>3, FlightsStay
  <2> QED BY <2>1, <2>2, <2>4 DEF Positions
<1>5. ASSUME NEW p \in Prices, PriceTick(p)
      PROVE  Positions' /\ Known' /\ Flights'
  <2>1. UNCHANGED <<pos, known, cmd, feed, sent, outbox, chan, xpos, resting>> /\ todo' \subseteq resting
    BY <1>5 DEF PriceTick, Tick, Triggered, evars, accounts
  <2>2. Known'
    BY <2>1 DEF Known
  <2>3. \A q \in known : Gone(q) => Gone(q)'
    BY <2>1 DEF Gone
  <2>4. Flights'
    BY <2>1, <2>3, FlightsStay
  <2> QED BY <2>1, <2>2, <2>4 DEF Positions
<1> QED
  BY <1>1, <1>2, <1>3, <1>4, <1>5 DEF Commands

\* The exchange fills an order: the fill is on its way, alone on its side.
LEMMA ExecutesConsistent ==
  ASSUME Typed, Positions, Known, Flights, xpos \in [Sides -> Held], outbox = NoFill,
         NEW o \in known, o = cmd \/ o \in resting, price # 0, Executes(o, price),
         UNCHANGED <<pos, known, feed, sent, chan>>, todo' \subseteq resting',
         \/ o = cmd /\ cmd' = NoOrder /\ resting' = resting
         \/ o \in resting /\ cmd' = cmd /\ resting' = resting \ {o}
  PROVE  Positions' /\ Known' /\ Flights'
<1> DEFINE u == o.side
<1>0. PICK f : f = [cid |-> o.cid, side |-> o.side, kind |-> o.kind, qty |-> o.qty, price |-> price]
  OBVIOUS
<1>1. o \in Placed /\ u \in Sides /\ price \in Positive /\ o # NoOrder
  BY KnownTyped DEF Typed, PriceTyped, Positive
<1>2. outbox' = f /\ f \in Row /\ f # NoFill
  BY <1>0, <1>1 DEF Executes, Placed, Row, Positive, NoFill
<1>3. Positions'
  BY DEF Positions
<1>4. Known'
  BY DEF Known
<1>5. ASSUME NEW g \in Row, Sound(g) PROVE g.side # u /\ g.side \in Sides
  <2>1. PICK q \in known : Gone(q) /\ Matches(g, q)
    BY <1>5 DEF Sound
  <2>2. q # o
    BY <2>1 DEF Gone
  <2>3. q.side # o.side
    BY <2>2 DEF Known
  <2> QED BY <2>1, <2>3 DEF Matches, Row
<1>6. ~InChan(u) /\ ~Fed(u)
  <2>1. \A i \in DOMAIN chan : chan[i] \in Row /\ Sound(chan[i])
    BY DEF Typed, FillsTyped, Flights
  <2>2. feed # NoFill => feed \in Row /\ Sound(feed)
    BY DEF Typed, FillsTyped, Flights
  <2> QED BY <1>5, <2>1, <2>2 DEF InChan, Fed
<1>7. xpos[u] = HoldingOf(pos[u])
  BY <1>1, <1>6 DEF Flights, Filled, Out
<1>8. xpos'[u] = After(xpos[u], o, price) /\ \A s \in Sides : s # u => xpos'[s] = xpos[s]
  BY <1>1 DEF Executes
<1>9. After(HoldingOf(pos[u]), o, price) = HoldingOf(Applied(pos[u], f))
  <2>1. o.kind = "close" => o.qty = pos[u].qty
    BY <1>1 DEF Known
  <2>2. Well(pos[u])
    BY <1>1 DEF Positions
  <2> QED BY <1>0, <1>1, <2>1, <2>2, AfterApplied
<1>10. \A q \in known : Gone(q) => Gone(q)'
  BY <1>1, KnownTyped DEF Gone
<1>11. Gone(o)'
  BY <1>1 DEF Gone, Known
<1>12. ASSUME NEW g \in Row, Sound(g), xpos'[g.side] = xpos[g.side] PROVE Sound(g)'
  <2>1. PICK q \in known : Gone(q) /\ Matches(g, q)
    BY <1>12 DEF Sound
  <2>2. Gone(q)' /\ Matches(g, q)' /\ q \in known'
    BY <1>10, <2>1 DEF Matches
  <2> QED BY <1>12, <2>2 DEF Sound
<1>13. f.side = u /\ Sound(f)'
  <2>1. Matches(f, o)' /\ f.side = u
    BY <1>0 DEF Matches
  <2>2. xpos'[u] = HoldingOf(Applied(pos'[u], f))
    BY <1>7, <1>8, <1>9
  <2> QED BY <1>11, <2>1, <2>2 DEF Sound
<1>14. \A s : (InChan(s)' <=> InChan(s)) /\ (Fed(s)' <=> Fed(s)) /\ (Out(s)' <=> s = u)
  BY <1>2, <1>13 DEF InChan, Fed, Out
<1>15. outbox' # NoFill => Sound(outbox)' /\ ~InChan(outbox.side)' /\ ~Fed(outbox.side)'
  <2>1. ~InChan(u)' /\ ~Fed(u)'
    BY <1>6, <1>14
  <2>2. Sound(outbox)'
    BY <1>2, <1>13 DEF Sound, Matches
  <2> QED BY <1>2, <1>13, <2>1, <2>2
<1>16. \A i \in DOMAIN chan' : /\ Sound(chan[i])' /\ ~Fed(chan[i].side)'
                               /\ \A j \in DOMAIN chan' : chan'[j].side = chan'[i].side => i = j
  <2> SUFFICES ASSUME NEW i \in DOMAIN chan
               PROVE  /\ Sound(chan[i])' /\ ~Fed(chan[i].side)'
                      /\ \A j \in DOMAIN chan : chan[j].side = chan[i].side => i = j
    OBVIOUS
  <2>1. PICK g \in Row : g = chan[i]
    BY DEF Typed, FillsTyped
  <2>2. Sound(g)
    BY <2>1 DEF Flights
  <2>3. Sound(g)'
    <3>1. g.side # u /\ g.side \in Sides
      BY <1>5, <2>2
    <3> QED BY <1>8, <1>12, <2>2, <3>1
  <2>4. Sound(chan[i])'
    BY <2>1, <2>3 DEF Sound, Matches
  <2> QED BY <1>14, <2>4 DEF Flights
<1>17. feed' # NoFill => Sound(feed)'
  <2> SUFFICES ASSUME feed # NoFill PROVE Sound(feed)'
    OBVIOUS
  <2>1. PICK g \in Row : g = feed
    BY DEF Typed, FillsTyped
  <2>2. Sound(g)
    BY <2>1 DEF Flights
  <2>3. Sound(g)'
    <3>1. g.side # u /\ g.side \in Sides
      BY <1>5, <2>2
    <3> QED BY <1>8, <1>12, <2>2, <3>1
  <2> QED BY <2>1, <2>3 DEF Sound, Matches
<1>18. \A s \in Sides : ~Filled(s)' => xpos'[s] = HoldingOf(pos'[s])
  <2> SUFFICES ASSUME NEW s \in Sides, ~Filled(s)' PROVE xpos'[s] = HoldingOf(pos[s])
    OBVIOUS
  <2>1. s # u /\ ~InChan(s) /\ ~Fed(s)
    BY <1>14 DEF Filled
  <2> QED BY <1>8, <2>1 DEF Flights, Filled, Out
<1> QED BY <1>3, <1>4, <1>15, <1>16, <1>17, <1>18 DEF Flights

LEMMA PlaceConsistent ==
  ASSUME Typed, Positions, Known, Flights, xpos \in [Sides -> Held], PlaceOrder
  PROVE  Positions' /\ Known' /\ Flights'
<1>1. cmd \in known /\ outbox = NoFill /\ todo = {} /\ cmd # NoOrder
  BY DEF PlaceOrder, Place, Idle, Known
<1>2. CASE cmd.limit = 0
  <2>1. /\ price # 0 /\ Executes(cmd, price) /\ resting' = resting /\ todo' = {}
        /\ cmd' = NoOrder /\ UNCHANGED <<pos, known, feed, sent, chan>>
    BY <1>1, <1>2 DEF PlaceOrder, Place, Takes
  <2> QED BY <1>1, <2>1, ExecutesConsistent
<1>3. CASE cmd.limit # 0
  <2>1. /\ resting' = resting \cup {cmd} /\ UNCHANGED <<outbox, xpos, chan, todo>>
        /\ cmd' = NoOrder /\ UNCHANGED <<pos, known, feed, sent>>
    BY <1>3 DEF PlaceOrder, Place, accounts
  <2>2. Known'
    BY <1>1, <2>1 DEF Known
  <2>3. \A q \in known : Gone(q) => Gone(q)'
    BY <2>1, KnownTyped DEF Gone
  <2>4. Flights'
    BY <2>1, <2>3, FlightsStay
  <2> QED BY <2>1, <2>2, <2>4 DEF Positions
<1> QED BY <1>2, <1>3

LEMMA RefuseConsistent ==
  ASSUME Typed, Positions, Known, Flights, RefuseOrder
  PROVE  Positions' /\ Known' /\ Flights'
<1>1. PICK o \in known : o = cmd /\ o \notin resting
  BY DEF RefuseOrder, Known
<1>2. PICK u \in Sides : u = o.side
  BY KnownTyped
<1>3. PICK x : x = pos[u] /\ x \in Position /\ Well(x)
  BY <1>2 DEF Positions
<1>4. PICK y : y = RolledBack(x)
  OBVIOUS
<1>5. y \in Position /\ Well(y) /\ HoldingOf(y) = HoldingOf(x)
  BY <1>3, <1>4 DEF RolledBack, Well, Position, NoPosition, HoldingOf
<1>6. /\ pos' = [pos EXCEPT ![u] = y] /\ known' = known \ {o} /\ cmd' = NoOrder
      /\ UNCHANGED <<outbox, chan, xpos, resting, todo, feed, sent>>
  BY <1>1, <1>2, <1>3, <1>4 DEF RefuseOrder, xvars, accounts
<1>7. pos'[u] = y /\ (\A s \in Sides : s # u => pos'[s] = pos[s]) /\ pos' \in [Sides -> Position]
  BY <1>5, <1>6 DEF Positions
<1>8. Positions'
  BY <1>5, <1>7 DEF Positions
<1>9. \A q \in known' : q \in known /\ q.side \in Sides /\ q.side # u
  BY <1>1, <1>2, <1>6, KnownTyped DEF Known
<1>10. Known'
  <2>1. resting' \subseteq known' /\ todo' \subseteq resting'
    BY <1>1, <1>6 DEF Known
  <2>2. \A q \in known' : IF q.kind = "open" THEN pos'[q.side].status # "none" /\ q.qty \in Quantities
                          ELSE q.qty = pos'[q.side].qty
    BY <1>7, <1>9 DEF Known
  <2> QED BY <1>6, <1>9, <2>1, <2>2 DEF Known
<1>11. \A q \in known : Gone(q) => Gone(q)'
  BY <1>1, <1>6, KnownTyped DEF Gone
<1>12. Flights'
  <2>1. \A s \in Sides : HoldingOf(pos'[s]) = HoldingOf(pos[s])
    BY <1>3, <1>5, <1>7
  <2> QED BY <1>6, <1>11, <2>1, FlightsStay
<1> QED BY <1>8, <1>10, <1>12

LEMMA TriggeredConsistent ==
  ASSUME Typed, Positions, Known, Flights, xpos \in [Sides -> Held], FillTriggered
  PROVE  Positions' /\ Known' /\ Flights'
<1>1. PICK o \in todo : (FillNext(o) \/ DropNext(o)) /\ UNCHANGED evars
  BY DEF FillTriggered
<1>2. o \in known /\ o \in resting /\ price # 0
  BY <1>1 DEF Known, Typed, PriceTyped
<1>3. /\ UNCHANGED <<pos, known, feed, sent, chan>> /\ cmd' = cmd /\ resting' = resting \ {o}
      /\ todo' = todo \ {o} /\ outbox = NoFill
  BY <1>1 DEF FillNext, DropNext, evars
<1>4. todo' \subseteq resting'
  BY <1>3 DEF Known
<1>5. CASE FillNext(o)
  <2>1. Executes(o, price)
    BY <1>5 DEF FillNext
  <2> QED BY <1>2, <1>3, <1>4, <2>1, ExecutesConsistent
<1>6. CASE DropNext(o)
  <2>1. UNCHANGED <<outbox, xpos>>
    BY <1>6 DEF DropNext, accounts
  <2>2. Known'
    BY <1>3, <1>4, <2>1 DEF Known
  <2>3. \A q \in known : Gone(q) => Gone(q)'
    BY <1>3 DEF Gone
  <2>4. Flights'
    BY <1>3, <2>1, <2>3, FlightsStay
  <2> QED BY <1>3, <2>2, <2>4 DEF Positions
<1> QED BY <1>1, <1>5, <1>6

LEMMA SendConsistent ==
  ASSUME Typed, Positions, Known, Flights, SendUpdate
  PROVE  Positions' /\ Known' /\ Flights'
<1>1. /\ outbox # NoFill /\ chan' = Append(chan, outbox) /\ outbox' = NoFill
      /\ UNCHANGED <<pos, known, cmd, feed, sent, resting, todo, xpos>>
  BY DEF SendUpdate, Send, evars, accounts
<1>2. PICK f \in Row : f = outbox
  BY <1>1 DEF Typed, FillsTyped
<1>3. Sound(f) /\ ~InChan(f.side) /\ ~Fed(f.side)
  BY <1>1, <1>2 DEF Flights
<1>4. /\ chan \in Seq(Row) /\ Len(chan) \in Nat /\ DOMAIN chan = 1..Len(chan)
      /\ DOMAIN chan' = 1..(Len(chan) + 1) /\ chan'[Len(chan) + 1] = f
      /\ \A i \in DOMAIN chan : chan'[i] = chan[i] /\ chan[i] \in Row
  BY <1>1, <1>2 DEF Typed, FillsTyped
<1>5. ASSUME NEW g, Sound(g) PROVE Sound(g)'
  BY <1>1, <1>5 DEF Sound, Gone, Matches
<1>6. \A i \in DOMAIN chan' : /\ Sound(chan[i])' /\ ~Fed(chan[i].side)'
                              /\ \A j \in DOMAIN chan' : chan'[j].side = chan'[i].side => i = j
  <2> SUFFICES ASSUME NEW i \in DOMAIN chan'
               PROVE  /\ Sound(chan[i])' /\ ~Fed(chan[i].side)'
                      /\ \A j \in DOMAIN chan' : chan'[j].side = chan'[i].side => i = j
    OBVIOUS
  <2>1. PICK g : g = chan'[i]
    OBVIOUS
  <2>2. Sound(g) /\ ~Fed(g.side)
    <3>1. i \in DOMAIN chan \/ i = Len(chan) + 1
      BY <1>4
    <3> QED BY <1>3, <1>4, <2>1, <3>1 DEF Flights
  <2>3. Sound(g)'
    BY <1>5, <2>2
  <2>4. Sound(chan[i])' /\ ~Fed(chan[i].side)'
    BY <1>1, <2>1, <2>2, <2>3 DEF Sound, Matches, Fed
  <2>5. \A j \in DOMAIN chan' : chan'[j].side = chan'[i].side => i = j
    <3> SUFFICES ASSUME NEW j \in DOMAIN chan', chan'[j].side = chan'[i].side PROVE i = j
      OBVIOUS
    <3>1. (i \in DOMAIN chan \/ i = Len(chan) + 1) /\ (j \in DOMAIN chan \/ j = Len(chan) + 1)
      BY <1>4
    <3>2. \A k \in DOMAIN chan : chan[k].side # f.side
      BY <1>3 DEF InChan
    <3> QED BY <1>4, <3>1, <3>2 DEF Flights
  <2> QED BY <2>4, <2>5
<1>7. feed' # NoFill => Sound(feed)'
  <2> SUFFICES ASSUME feed # NoFill PROVE Sound(feed)'
    BY <1>1
  <2>1. PICK g : g = feed
    OBVIOUS
  <2>2. Sound(g)'
    BY <1>5, <2>1 DEF Flights
  <2> QED BY <1>1, <2>1, <2>2 DEF Sound, Matches
<1>8. \A s \in Sides : ~Filled(s)' => xpos'[s] = HoldingOf(pos'[s])
  <2> SUFFICES ASSUME NEW s \in Sides, ~Filled(s)' PROVE xpos[s] = HoldingOf(pos[s])
    BY <1>1
  <2>1. \A i \in DOMAIN chan : chan[i].side # s
    BY <1>4 DEF Filled, InChan
  <2>2. f.side # s
    <3>1. Len(chan) + 1 \in DOMAIN chan'
      BY <1>4
    <3> QED BY <1>4, <3>1 DEF Filled, InChan
  <2>3. ~Fed(s)
    BY <1>1 DEF Filled, Fed
  <2>4. ~Filled(s)
    BY <1>2, <2>1, <2>2, <2>3 DEF Filled, InChan, Out
  <2> QED BY <2>4 DEF Flights
<1>9. Known' /\ Positions'
  BY <1>1 DEF Known, Positions
<1> QED BY <1>1, <1>6, <1>7, <1>8, <1>9 DEF Flights

\* The feed loop takes the oldest fill, which is that of a known order.
LEMMA PersistTakes ==
  ASSUME Typed, Flights, Persist
  PROVE  \E f \in Row : /\ f # NoFill /\ feed = NoFill /\ feed' = f /\ rows' = Append(rows, f)
                        /\ chan # <<>> /\ f = Head(chan) /\ f = chan[1] /\ chan' = Tail(chan) /\ Sound(f)
<1>1. /\ feed = NoFill /\ chan # <<>> /\ chan' = Tail(chan)
      /\ OrderOf(Head(chan)) # {} => feed' = Head(chan) /\ rows' = Append(rows, Head(chan))
  BY DEF Persist, Take
<1>2. chan \in Seq(Row) /\ 1 \in DOMAIN chan /\ Head(chan) = chan[1] /\ chan[1] \in Row
  BY <1>1 DEF Typed, FillsTyped
<1>3. PICK f \in Row : f = chan[1]
  BY <1>2
<1>4. Sound(f)
  BY <1>2, <1>3 DEF Flights
<1>5. OrderOf(f) # {}
  BY <1>4 DEF Sound, Matches, OrderOf
<1>6. f # NoFill
  BY DEF Row, Positive, NoFill
<1> QED BY <1>1, <1>2, <1>3, <1>4, <1>5, <1>6

LEMMA PersistConsistent ==
  ASSUME Typed, Positions, Known, Flights, Persist
  PROVE  Positions' /\ Known' /\ Flights'
<1>1. PICK f \in Row : /\ f # NoFill /\ feed = NoFill /\ feed' = f /\ chan # <<>> /\ f = chan[1]
                       /\ chan' = Tail(chan) /\ Sound(f)
  BY PersistTakes
<1>2. UNCHANGED <<pos, known, cmd, sent, resting, todo, xpos, outbox>>
  BY DEF Persist, Take, accounts
<1>3. /\ chan \in Seq(Row) /\ Len(chan) \in Nat /\ 1 \in DOMAIN chan /\ DOMAIN chan = 1..Len(chan)
      /\ DOMAIN chan' = 1..(Len(chan) - 1) /\ \A i \in DOMAIN chan' : i + 1 \in DOMAIN chan /\ chan'[i] = chan[i + 1]
  BY <1>1 DEF Typed, FillsTyped
<1>4. ASSUME NEW g, Sound(g) PROVE Sound(g)'
  BY <1>2, <1>4 DEF Sound, Gone, Matches
<1>5. outbox' # NoFill => Sound(outbox)' /\ ~InChan(outbox.side)' /\ ~Fed(outbox.side)'
  <2> SUFFICES ASSUME outbox # NoFill PROVE Sound(outbox)' /\ ~InChan(outbox.side)' /\ ~Fed(outbox.side)'
    BY <1>2
  <2>1. PICK g : g = outbox
    OBVIOUS
  <2>2. Sound(g)' /\ ~InChan(g.side)
    BY <1>4, <2>1 DEF Flights
  <2>3. ~InChan(g.side)' /\ ~Fed(g.side)'
    BY <1>1, <1>3, <2>2 DEF InChan, Fed
  <2> QED BY <1>2, <2>1, <2>2, <2>3 DEF Sound, Matches, InChan, Fed
<1>6. \A i \in DOMAIN chan' : /\ Sound(chan[i])' /\ ~Fed(chan[i].side)'
                              /\ \A j \in DOMAIN chan' : chan'[j].side = chan'[i].side => i = j
  <2> SUFFICES ASSUME NEW i \in DOMAIN chan'
               PROVE  /\ Sound(chan[i])' /\ ~Fed(chan[i].side)'
                      /\ \A j \in DOMAIN chan' : chan'[j].side = chan'[i].side => i = j
    OBVIOUS
  <2>1. PICK g : g = chan'[i]
    OBVIOUS
  <2>2. i + 1 \in DOMAIN chan /\ g = chan[i + 1] /\ i + 1 # 1 /\ i \in Nat
    BY <1>3, <2>1
  <2>3. Sound(g)' /\ g.side # f.side
    BY <1>1, <1>3, <1>4, <2>2 DEF Flights
  <2>4. Sound(chan[i])' /\ ~Fed(chan[i].side)'
    BY <1>1, <2>1, <2>3 DEF Sound, Matches, Fed
  <2>5. \A j \in DOMAIN chan' : chan'[j].side = chan'[i].side => i = j
    <3> SUFFICES ASSUME NEW j \in DOMAIN chan', chan'[j].side = chan'[i].side PROVE i = j
      OBVIOUS
    <3>1. j + 1 \in DOMAIN chan /\ chan'[j] = chan[j + 1] /\ j \in Nat
      BY <1>3
    <3>2. i + 1 = j + 1
      BY <2>1, <2>2, <3>1 DEF Flights
    <3> QED BY <2>2, <3>1, <3>2
  <2> QED BY <2>4, <2>5
<1>7. feed' # NoFill => Sound(feed)'
  <2>1. Sound(f)'
    BY <1>1, <1>4
  <2> QED BY <1>1, <2>1 DEF Sound, Matches
<1>8. \A s \in Sides : ~Filled(s)' => xpos'[s] = HoldingOf(pos'[s])
  <2> SUFFICES ASSUME NEW s \in Sides, ~Filled(s)' PROVE xpos[s] = HoldingOf(pos[s])
    BY <1>2
  <2>1. f.side # s
    BY <1>1 DEF Filled, Fed
  <2>2. ~Out(s) /\ ~Fed(s)
    BY <1>1, <1>2 DEF Filled, Out, Fed
  <2>3. ~InChan(s)
    <3>1. ASSUME NEW i \in DOMAIN chan, chan[i].side = s PROVE FALSE
      <4>1. i # 1
        BY <1>1, <2>1, <3>1
      <4>2. i - 1 \in DOMAIN chan' /\ chan'[i - 1] = chan[i]
        BY <1>3, <4>1
      <4> QED BY <3>1, <4>2 DEF Filled, InChan
    <3> QED BY <3>1 DEF InChan
  <2> QED BY <2>2, <2>3 DEF Flights, Filled
<1>9. Known' /\ Positions'
  BY <1>2 DEF Known, Positions
<1> QED BY <1>5, <1>6, <1>7, <1>8, <1>9 DEF Flights

\* What Apply makes of the position of the trade.
LEMMA ApplyMakes ==
  ASSUME Typed, Positions, Known, Flights, Apply
  PROVE  \E f \in Row, o \in known :
           /\ f # NoFill /\ f = feed /\ Sound(f) /\ Gone(o) /\ Matches(f, o) /\ known' = known \ {o}
           /\ f.side \in Sides /\ Well(Applied(pos[f.side], f))
           /\ f.kind = "close" => f.qty = pos[f.side].qty
           /\ f.kind = "open" => f.qty \in Quantities
           /\ pos' = [pos EXCEPT ![f.side] = Applied(pos[f.side], f)]
<1>1. PICK f \in Row : f = feed /\ f # NoFill
  BY DEF Apply, Typed, FillsTyped
<1>2. Sound(f) /\ f.side \in Sides
  BY <1>1 DEF Flights, Row
<1>3. PICK o \in known : Gone(o) /\ Matches(f, o)
  BY <1>2 DEF Sound
<1>4. o \in Placed
  BY KnownTyped
<1>5. PICK x : x = pos[f.side] /\ Well(x)
  BY <1>2 DEF Positions
<1>6. (f.kind = "close" => f.qty = x.qty) /\ x.status # "none" /\ (f.kind = "open" => f.qty \in Quantities)
  <2>1. IF o.kind = "open" THEN x.status # "none" /\ o.qty \in Quantities ELSE o.qty = x.qty
    BY <1>3, <1>5 DEF Known, Matches
  <2>2. o.qty > 0
    BY <1>4 DEF Placed, Positive
  <2> QED BY <1>3, <1>5, <2>1, <2>2 DEF Matches, Well
<1>7. known' = known \ {o}
  <2>1. OrderOf(f) = {o}
    BY <1>3 DEF OrderOf, Matches, Known
  <2> QED BY <1>1, <2>1 DEF Apply
<1>8. Well(Applied(x, f))
  <2>1. f = [cid |-> f.cid, side |-> f.side, kind |-> f.kind, qty |-> f.qty, price |-> f.price] /\ f.price \in Positive
    BY DEF Row
  <2>2. f = [cid |-> o.cid, side |-> o.side, kind |-> o.kind, qty |-> o.qty, price |-> f.price]
    BY <1>3, <2>1 DEF Matches
  <2>3. o.kind = "close" => o.qty = x.qty
    BY <1>3, <1>6 DEF Matches
  <2> QED BY <1>4, <1>5, <2>1, <2>2, <2>3, AfterApplied
<1>9. pos' = [pos EXCEPT ![f.side] = Applied(pos[f.side], f)]
  BY <1>1, <1>2, <1>5, <1>6 DEF Apply
<1> QED BY <1>1, <1>2, <1>3, <1>5, <1>6, <1>7, <1>8, <1>9

LEMMA ApplyConsistent ==
  ASSUME Typed, Positions, Known, Flights, Apply
  PROVE  Positions' /\ Known' /\ Flights'
<1>1. PICK f \in Row, o \in known :
           /\ f # NoFill /\ f = feed /\ Sound(f) /\ Gone(o) /\ Matches(f, o) /\ known' = known \ {o}
           /\ f.side \in Sides /\ Well(Applied(pos[f.side], f))
           /\ pos' = [pos EXCEPT ![f.side] = Applied(pos[f.side], f)]
  BY ApplyMakes
<1>2. feed' = NoFill /\ UNCHANGED <<cmd, sent, resting, todo, xpos, outbox, chan>>
  BY DEF Apply, xvars, accounts
<1>3. PICK u \in Sides : u = f.side
  BY <1>1
<1>4. pos' \in [Sides -> Position] /\ pos'[u] = Applied(pos[u], f) /\ \A s \in Sides : s # u => pos'[s] = pos[s]
  BY <1>1, <1>3 DEF Positions, Well
<1>5. Positions'
  BY <1>1, <1>3, <1>4 DEF Positions
<1>6. \A q \in known' : q \in known /\ q.side \in Sides /\ q.side # u
  BY <1>1, <1>3, KnownTyped DEF Known, Matches
<1>7. Known'
  <2>1. cmd' # NoOrder => cmd' \in known' /\ cmd' \notin resting'
    BY <1>1, <1>2 DEF Known, Gone
  <2>2. resting' \subseteq known' /\ todo' \subseteq resting'
    BY <1>1, <1>2 DEF Known, Gone
  <2>3. \A q \in known' : IF q.kind = "open" THEN pos'[q.side].status # "none" /\ q.qty \in Quantities
                          ELSE q.qty = pos'[q.side].qty
    BY <1>4, <1>6 DEF Known
  <2> QED BY <1>2, <1>6, <2>1, <2>2, <2>3 DEF Known
<1>8. ASSUME NEW g \in Row, Sound(g), g.side # u PROVE Sound(g)'
  <2>1. PICK q \in known : Gone(q) /\ Matches(g, q)
    BY <1>8 DEF Sound
  <2>2. q # o /\ q \in known'
    BY <1>1, <1>3, <1>8, <2>1 DEF Matches
  <2>3. Gone(q)' /\ Matches(g, q)'
    BY <1>2, <2>1, <2>2 DEF Gone, Matches
  <2>4. g.side \in Sides /\ pos'[g.side] = pos[g.side]
    BY <1>4, <1>8 DEF Row
  <2> QED BY <1>2, <1>8, <2>2, <2>3, <2>4 DEF Sound
<1>9. Fed(u)
  BY <1>1, <1>3 DEF Fed
<1>10. \A s : (InChan(s)' <=> InChan(s)) /\ (Out(s)' <=> Out(s)) /\ ~Fed(s)'
  BY <1>2 DEF InChan, Out, Fed
<1>11. outbox' # NoFill => Sound(outbox)' /\ ~InChan(outbox.side)' /\ ~Fed(outbox.side)'
  <2> SUFFICES ASSUME outbox # NoFill PROVE Sound(outbox)' /\ ~InChan(outbox.side)' /\ ~Fed(outbox.side)'
    BY <1>2
  <2>1. PICK g \in Row : g = outbox
    BY DEF Typed, FillsTyped
  <2>2. Sound(g) /\ ~InChan(g.side) /\ g.side # u
    BY <1>9, <2>1 DEF Flights
  <2>3. Sound(g)'
    BY <1>8, <2>2
  <2> QED BY <1>2, <1>10, <2>1, <2>2, <2>3 DEF Sound, Matches, InChan, Fed
<1>12. \A i \in DOMAIN chan' : /\ Sound(chan[i])' /\ ~Fed(chan[i].side)'
                               /\ \A j \in DOMAIN chan' : chan'[j].side = chan'[i].side => i = j
  <2> SUFFICES ASSUME NEW i \in DOMAIN chan
               PROVE  /\ Sound(chan[i])' /\ ~Fed(chan[i].side)'
                      /\ \A j \in DOMAIN chan : chan[j].side = chan[i].side => i = j
    BY <1>2
  <2>1. PICK g \in Row : g = chan[i]
    BY DEF Typed, FillsTyped
  <2>2. Sound(g) /\ g.side # u
    BY <1>9, <2>1 DEF Flights
  <2>3. Sound(g)'
    BY <1>8, <2>2
  <2> QED BY <1>2, <1>10, <2>1, <2>3 DEF Flights, Sound, Matches
<1>13. \A s \in Sides : ~Filled(s)' => xpos'[s] = HoldingOf(pos'[s])
  <2> SUFFICES ASSUME NEW s \in Sides, ~Filled(s)' PROVE xpos[s] = HoldingOf(pos'[s])
    BY <1>2
  <2>1. CASE s = u
    BY <1>1, <1>3, <1>4, <2>1 DEF Sound
  <2>2. CASE s # u
    <3>1. ~Fed(s)
      BY <1>1, <1>3, <2>2 DEF Fed
    <3>2. ~Filled(s)
      BY <1>10, <3>1 DEF Filled
    <3> QED BY <1>4, <2>2, <3>2 DEF Flights
  <2> QED BY <2>1, <2>2
<1> QED BY <1>2, <1>5, <1>7, <1>11, <1>12, <1>13 DEF Flights

LEMMA RestartConsistent ==
  ASSUME Typed, Restart
  PROVE  Positions' /\ Known' /\ Flights'
<1>1. /\ pos' = [s \in Sides |-> Replay(rows, s)] /\ xpos' = [s \in Sides |-> HoldingOf(Replay(rows, s))]
      /\ cmd' = NoOrder /\ known' = {} /\ feed' = NoFill /\ resting' = {} /\ todo' = {}
      /\ outbox' = NoFill /\ chan' = <<>>
  BY DEF Restart, Restore
<1>2. \A s \in Sides : Replay(rows, s) \in Position /\ Well(Replay(rows, s))
  <2> SUFFICES ASSUME NEW s \in Sides PROVE Replay(rows, s) \in Position /\ Well(Replay(rows, s))
    OBVIOUS
  <2>1. PICK x : x = Replay(rows, s)
    OBVIOUS
  <2>2. /\ x \in Position /\ x.qty \in Nat /\ x.cost >= x.qty
        /\ (x.qty > 0 /\ x.status = "Open") \/ x = NoPosition
    BY <2>1, Recovers DEF Typed, RowsTyped
  <2> QED BY <2>1, <2>2 DEF Well, Position, NoPosition
<1>3. Positions'
  BY <1>1, <1>2 DEF Positions
<1>4. Known'
  BY <1>1 DEF Known
<1>5. Flights'
  BY <1>1 DEF Flights
<1> QED BY <1>3, <1>4, <1>5

-----------------------------------------------------------------------------
(* The positions on record *)

\* The recovered quantity is what the rows add up to.
LEMMA RecoversTheSum ==
  ASSUME NEW r \in Seq(Row), NEW s, Sensible(r, s), Running(r, s)[LastZero(r, s)] = 0
  PROVE  Running(r, s)[Len(r)] = Replay(r, s).qty
<1> DEFINE n == Len(r)
           z == LastZero(r, s)
           x == Replayed(r, s, z)[n]
<1>1. PICK sum : sum = Running(r, s)
  OBVIOUS
<1>2. n \in Nat /\ z \in 0..n /\ sum[n] \in Int /\ sum[z] = 0
  BY <1>1, RunningDef DEF Sensible
<1>3. IF sum[n] <= 0 THEN x = NoPosition /\ sum[z] = sum[n] ELSE x.qty = sum[n] - sum[z]
  BY <1>1 DEF Sensible
<1>4. Replay(r, s) = x
  BY Recovers
<1> HIDE DEF x, z, n
<1>5. x.qty = sum[n]
  BY <1>2, <1>3 DEF NoPosition
<1> QED BY <1>1, <1>4, <1>5 DEF n

\* The rows of the other side, an opening row and a closing row of all that is held.
LEMMA ReplayOther ==
  ASSUME NEW r \in Seq(Row), NEW f \in Row, NEW s, f.side # s, Sensible(r, s)
  PROVE  /\ Replay(Append(r, f), s) = Replay(r, s)
         /\ Running(Append(r, f), s)[LastZero(Append(r, f), s)] = Running(r, s)[LastZero(r, s)]
<1>1. PICK q \in Seq(Row) : q = Append(r, f) /\ Len(q) = Len(r) + 1
  <2>1. Append(r, f) \in Seq(Row) /\ Len(Append(r, f)) = Len(r) + 1
    OBVIOUS
  <2> QED BY <2>1
<1>2. LastZero(r, s) \in 0..Len(r)
  BY DEF Sensible
<1>3. LastZero(q, s) = LastZero(r, s)
  BY <1>1, LastZeroAppended
<1>4. Replayed(q, s, LastZero(r, s))[Len(r) + 1] = Replayed(r, s, LastZero(r, s))[Len(r)]
  BY <1>1, <1>2, ReplayedAppended
<1>5. Running(q, s)[LastZero(r, s)] = Running(r, s)[LastZero(r, s)]
  BY <1>1, <1>2, RunningAppended
<1>6. Replay(q, s) = Replay(r, s)
  BY <1>1, <1>3, <1>4 DEF Replay
<1> QED BY <1>1, <1>3, <1>5, <1>6

LEMMA ReplayOpen ==
  ASSUME NEW r \in Seq(Row), NEW f \in Row, f.kind = "open",
         Sensible(r, f.side), Running(r, f.side)[LastZero(r, f.side)] = 0
  PROVE  /\ Replay(Append(r, f), f.side) = Applied(Replay(r, f.side), f)
         /\ Running(Append(r, f), f.side)[LastZero(Append(r, f), f.side)] = 0
<1>1. PICK q \in Seq(Row) : q = Append(r, f) /\ Len(q) = Len(r) + 1
  <2>1. Append(r, f) \in Seq(Row) /\ Len(Append(r, f)) = Len(r) + 1
    OBVIOUS
  <2> QED BY <2>1
<1>2. PICK s : s = f.side
  OBVIOUS
<1>3. LastZero(r, s) \in 0..Len(r) /\ Sensible(r, s) /\ Running(r, s)[LastZero(r, s)] = 0
  BY <1>2 DEF Sensible
<1>4. Replay(r, s).qty \in Nat /\ Running(r, s)[Len(r)] = Replay(r, s).qty
  BY <1>3, Recovers, RecoversTheSum
<1>5. Signed(f, s) > 0 /\ Signed(f, s) \in Int
  BY <1>2 DEF Signed, Row, Positive
<1>6. LastZero(q, s) = LastZero(r, s)
  <2>1. ~(Running(r, s)[Len(r)] + Signed(f, s) <= 0)
    BY <1>4, <1>5
  <2> QED BY <1>1, <2>1, LastZeroAppended
<1>7. Running(q, s)[LastZero(r, s)] = 0
  BY <1>1, <1>3, RunningAppended
<1>8. Replay(q, s) = Replayed(q, s, LastZero(q, s))[Len(q)]
  BY <1>1, <1>3, SensibleAppended, Recovers
<1>9. Replay(r, s) = Replayed(r, s, LastZero(r, s))[Len(r)]
  BY <1>3, Recovers
<1>10. Replayed(q, s, LastZero(r, s))[Len(r) + 1] = Applied(Replayed(r, s, LastZero(r, s))[Len(r)], f)
  BY <1>1, <1>2, <1>3, ReplayedAppended
<1> QED BY <1>1, <1>2, <1>6, <1>7, <1>8, <1>9, <1>10

LEMMA ReplayClose ==
  ASSUME NEW r \in Seq(Row), NEW f \in Row, f.kind = "close",
         Sensible(r, f.side), Running(r, f.side)[LastZero(r, f.side)] = 0,
         f.qty = Replay(r, f.side).qty
  PROVE  /\ Replay(Append(r, f), f.side) = NoPosition
         /\ Running(Append(r, f), f.side)[LastZero(Append(r, f), f.side)] = 0
<1>1. PICK q \in Seq(Row) : q = Append(r, f) /\ Len(q) = Len(r) + 1
  <2>1. Append(r, f) \in Seq(Row) /\ Len(Append(r, f)) = Len(r) + 1
    OBVIOUS
  <2> QED BY <2>1
<1>2. PICK s : s = f.side
  OBVIOUS
<1>3. LastZero(r, s) \in 0..Len(r) /\ Sensible(r, s) /\ Running(r, s)[LastZero(r, s)] = 0
  BY <1>2 DEF Sensible
<1>4. Replay(r, s).qty \in Nat /\ Running(r, s)[Len(r)] = Replay(r, s).qty
  BY <1>3, Recovers, RecoversTheSum
<1>5. Running(r, s)[Len(r)] + Signed(f, s) = 0
  BY <1>2, <1>4 DEF Signed, Row, Positive
<1>6. LastZero(q, s) = Len(r) + 1
  BY <1>1, <1>2, <1>5, LastZeroAppended
<1>7. Running(q, s)[Len(r) + 1] = 0
  BY <1>1, <1>5, RunningAppended
<1>8. Replay(q, s) = Replayed(q, s, LastZero(q, s))[Len(q)]
  BY <1>1, <1>3, SensibleAppended, Recovers
<1>9. Replayed(q, s, Len(r) + 1)[Len(r) + 1] = NoPosition
  <2>1. PICK w \in Nat : w = Len(r) + 1
    OBVIOUS
  <2>2. w \in 0..Len(q) /\ w <= w
    BY <1>1, <2>1
  <2> QED BY <2>1, <2>2, ReplayedDef
<1> QED BY <1>1, <1>2, <1>6, <1>7, <1>8, <1>9

LEMMA RecordedIs ==
  ASSUME NEW s \in Sides
  PROVE  Recorded[s] = IF feed # NoFill /\ feed.side = s THEN HoldingOf(Applied(pos[s], feed))
                       ELSE HoldingOf(pos[s])
BY DEF Recorded

\* The record stays when the rows, the fill that is stored and the holdings do.
LEMMA RecordStays ==
  ASSUME UNCHANGED feed, \A s \in Sides : HoldingOf(pos'[s]) = HoldingOf(pos[s])
  PROVE  Recorded' = Recorded
<1>1. \A s \in Sides : Applied(pos'[s], feed) = Applied(pos[s], feed)
  BY AppliedHolding
<1> QED BY <1>1 DEF Recorded

\* Commands, the exchange and the end of an order without a fill leave the record alone.
LEMMA CommandsRecord ==
  ASSUME Positions, Commands
  PROVE  Recorded' = Recorded /\ rows' = rows
<1>1. \A s \in Sides : pos[s] \in Position
  BY DEF Positions
<1>2. ASSUME NEW s \in Sides, NEW v, pos' = [pos EXCEPT ![s] = [pos[s] EXCEPT !.status = v]]
      PROVE  \A t \in Sides : HoldingOf(pos'[t]) = HoldingOf(pos[t])
  <2>1. PICK y : y = [pos[s] EXCEPT !.status = v]
    OBVIOUS
  <2>2. y.qty = pos[s].qty /\ y.cost = pos[s].cost
    BY <1>1, <2>1 DEF Position
  <2>3. pos'[s] = y /\ \A t \in Sides : t # s => pos'[t] = pos[t]
    BY <1>2, <2>1 DEF Positions
  <2> QED BY <2>2, <2>3 DEF HoldingOf
<1>3. feed' = feed /\ rows' = rows
  BY DEF Commands, OpenMore, OpenNew, Close, Issue, CancelOrders, PriceTick, evars
<1>4. \A t \in Sides : HoldingOf(pos'[t]) = HoldingOf(pos[t])
  <2>1. \/ pos' = pos
        \/ \E s \in Sides, v \in {"Opening", "Closing"} : pos' = [pos EXCEPT ![s] = [pos[s] EXCEPT !.status = v]]
    BY DEF Commands, OpenMore, OpenNew, Close, Issue, CancelOrders, PriceTick, evars
  <2> QED BY <1>2, <2>1
<1> QED BY <1>3, <1>4, RecordStays

LEMMA QuietRecord ==
  ASSUME Typed, Positions, PlaceOrder \/ RefuseOrder \/ FillTriggered \/ SendUpdate
  PROVE  Recorded' = Recorded /\ rows' = rows
<1>1. CASE PlaceOrder \/ FillTriggered \/ SendUpdate
  <2>1. UNCHANGED <<pos, feed, rows>>
    BY <1>1 DEF PlaceOrder, FillTriggered, SendUpdate, evars
  <2> QED BY <2>1, RecordStays
<1>2. CASE RefuseOrder
  <2>1. PICK u \in Sides : u = cmd.side
    BY <1>2 DEF RefuseOrder, Typed, OrdersTyped, Placed
  <2>2. PICK x : x = pos[u] /\ x \in Position /\ Well(x)
    BY DEF Positions
  <2>3. HoldingOf(RolledBack(x)) = HoldingOf(x)
    BY <2>2 DEF RolledBack, Well, Position, NoPosition, HoldingOf
  <2>4. pos' = [pos EXCEPT ![u] = RolledBack(x)] /\ feed' = feed /\ rows' = rows
    BY <1>2, <2>1, <2>2 DEF RefuseOrder
  <2>5. \A s \in Sides : HoldingOf(pos'[s]) = HoldingOf(pos[s])
    BY <2>2, <2>3, <2>4 DEF Positions
  <2> QED BY <2>4, <2>5, RecordStays
<1> QED BY <1>1, <1>2

LEMMA ApplyRecord ==
  ASSUME Typed, Positions, Known, Flights, Apply
  PROVE  Recorded' = Recorded /\ rows' = rows
<1>1. PICK f \in Row :
        /\ f # NoFill /\ f = feed /\ f.side \in Sides
        /\ pos' = [pos EXCEPT ![f.side] = Applied(pos[f.side], f)]
  BY ApplyMakes
<1>2. feed' = NoFill /\ rows' = rows
  BY DEF Apply
<1>3. \A s \in Sides : HoldingOf(pos'[s]) = IF f.side = s THEN HoldingOf(Applied(pos[s], f)) ELSE HoldingOf(pos[s])
  BY <1>1 DEF Positions
<1>4. Recorded = [s \in Sides |-> IF f.side = s THEN HoldingOf(Applied(pos[s], f)) ELSE HoldingOf(pos[s])]
  BY <1>1 DEF Recorded
<1>5. Recorded' = [s \in Sides |-> HoldingOf(pos'[s])]
  BY <1>2 DEF Recorded
<1> QED BY <1>2, <1>3, <1>4, <1>5

\* A trade that is stored is on record.
LEMMA PersistRecord ==
  ASSUME Typed, Positions, Known, Flights, Stored, Persist
  PROVE  \E f \in Row : /\ f.side \in Sides /\ rows' = Append(rows, f)
                        /\ Recorded' = [Recorded EXCEPT ![f.side] = HoldingOf(Applied(pos[f.side], f))]
                        /\ HoldingOf(pos[f.side]) = Recorded[f.side]
                        /\ f.kind = "close" => f.qty = pos[f.side].qty
                        /\ f.kind = "open" => f.qty \in Quantities
                        /\ f = chan[1] /\ 1 \in DOMAIN chan
<1>1. PICK f \in Row : /\ f # NoFill /\ feed = NoFill /\ feed' = f /\ rows' = Append(rows, f) /\ Sound(f)
                       /\ f = chan[1] /\ chan # <<>>
  BY PersistTakes
<1>2. pos' = pos /\ f.side \in Sides
  BY DEF Persist, Row
<1>3. Recorded = [s \in Sides |-> HoldingOf(pos[s])]
  BY <1>1 DEF Recorded
<1>4. Recorded' = [s \in Sides |-> IF f.side = s THEN HoldingOf(Applied(pos[s], f)) ELSE HoldingOf(pos[s])]
  BY <1>1, <1>2 DEF Recorded
<1>5. Recorded' = [Recorded EXCEPT ![f.side] = HoldingOf(Applied(pos[f.side], f))]
  BY <1>2, <1>3, <1>4
<1>6. (f.kind = "close" => f.qty = pos[f.side].qty) /\ (f.kind = "open" => f.qty \in Quantities)
  <2>1. PICK o \in known : Matches(f, o)
    BY <1>1 DEF Sound
  <2> QED BY <2>1 DEF Known, Matches
<1>7. 1 \in DOMAIN chan
  BY <1>1 DEF Typed, FillsTyped
<1> QED BY <1>1, <1>2, <1>3, <1>5, <1>6, <1>7

LEMMA PersistStored ==
  ASSUME Typed, Positions, Known, Flights, Stored, Persist
  PROVE  Stored'
<1>1. PICK f \in Row : /\ f.side \in Sides /\ rows' = Append(rows, f)
                       /\ Recorded' = [Recorded EXCEPT ![f.side] = HoldingOf(Applied(pos[f.side], f))]
                       /\ HoldingOf(pos[f.side]) = Recorded[f.side]
                       /\ f.kind = "close" => f.qty = pos[f.side].qty
  BY PersistRecord
<1>2. rows \in Seq(Row) /\ \A s \in Sides : Sensible(rows, s)
  BY DEF Typed, RowsTyped
<1>3. ASSUME NEW s \in Sides, s # f.side
      PROVE  Running(rows', s)[LastZero(rows', s)] = 0 /\ Recorded'[s] = HoldingOf(Replay(rows', s))
  <2>1. Recorded'[s] = Recorded[s]
    BY <1>1, <1>3 DEF Recorded
  <2> QED BY <1>1, <1>2, <1>3, <2>1, ReplayOther DEF Stored
<1>4. Running(rows', f.side)[LastZero(rows', f.side)] = 0 /\ Recorded'[f.side] = HoldingOf(Replay(rows', f.side))
  <2>1. Recorded'[f.side] = HoldingOf(Applied(pos[f.side], f))
    BY <1>1 DEF Recorded
  <2>2. /\ Sensible(rows, f.side) /\ Running(rows, f.side)[LastZero(rows, f.side)] = 0
        /\ HoldingOf(pos[f.side]) = HoldingOf(Replay(rows, f.side))
    BY <1>1, <1>2 DEF Stored
  <2>3. CASE f.kind = "open"
    <3>1. /\ Replay(rows', f.side) = Applied(Replay(rows, f.side), f)
          /\ Running(rows', f.side)[LastZero(rows', f.side)] = 0
      BY <1>1, <1>2, <2>2, <2>3, ReplayOpen
    <3>2. Applied(Replay(rows, f.side), f) = Applied(pos[f.side], f)
      BY <2>2, AppliedHolding
    <3> QED BY <2>1, <3>1, <3>2
  <2>4. CASE f.kind = "close"
    <3>1. f.qty = pos[f.side].qty /\ f.qty = Replay(rows, f.side).qty
      BY <1>1, <2>2, <2>4 DEF HoldingOf
    <3>2. /\ Replay(rows', f.side) = NoPosition
          /\ Running(rows', f.side)[LastZero(rows', f.side)] = 0
      BY <1>1, <1>2, <2>2, <2>4, <3>1, ReplayClose
    <3>3. Applied(pos[f.side], f) = NoPosition
      BY <2>4, <3>1 DEF Applied
    <3> QED BY <2>1, <3>2, <3>3
  <2> QED BY <2>3, <2>4 DEF Row
<1>5. \A s \in Sides : Running(rows', s)[LastZero(rows', s)] = 0 /\ Recorded'[s] = HoldingOf(Replay(rows', s))
  BY <1>3, <1>4
<1> QED BY <1>5 DEF Stored

LEMMA RestartRecord ==
  ASSUME Typed, Stored, Restart
  PROVE  Recorded' = Recorded /\ rows' = rows
<1>1. pos' = [s \in Sides |-> Replay(rows, s)] /\ feed' = NoFill /\ rows' = rows
  BY DEF Restart
<1>2. Recorded' = [s \in Sides |-> HoldingOf(Replay(rows, s))]
  BY <1>1 DEF Recorded
<1>3. Recorded = [s \in Sides |-> Recorded[s]]
  BY DEF Recorded
<1> QED BY <1>1, <1>2, <1>3 DEF Stored

LEMMA RecordStored ==
  ASSUME Stored, Recorded' = Recorded, rows' = rows
  PROVE  Stored'
BY DEF Stored

LEMMA InitConsistent == Init => Consistent
<1> SUFFICES ASSUME Init PROVE Consistent
  OBVIOUS
<1>1. pos = [s \in Sides |-> NoPosition] /\ Positions
  BY DEF Init, Positions, Well, NoPosition, Position
<1>2. Known
  BY DEF Init, XInit, Known
<1>3. Flights
  <2>1. \A s \in Sides : xpos[s] = HoldingOf(pos[s])
    BY <1>1 DEF Init, XInit, Nothing, NoPosition, HoldingOf
  <2> QED BY <2>1 DEF Init, XInit, Flights
<1>4. Stored
  <2>1. rows \in Seq(Row) /\ rows = <<>> /\ Len(rows) = 0 /\ DOMAIN rows = {}
    BY DEF Init
  <2>2. ASSUME NEW s \in Sides
        PROVE  Running(rows, s)[LastZero(rows, s)] = 0 /\ Replay(rows, s) = NoPosition
    <3>1. LastZero(rows, s) = 0
      BY <2>1 DEF LastZero
    <3>2. Running(rows, s)[0] = 0
      BY <2>1, RunningDef
    <3>3. 0 \in Nat /\ 0 \in 0..Len(rows) /\ 0 <= 0
      BY <2>1
    <3>4. Replayed(rows, s, 0)[0] = NoPosition
      <4>1. PICK r \in Seq(Row) : r = rows
        BY <2>1
      <4>2. 0 \in 0..Len(r)
        BY <3>3, <4>1
      <4>3. Replayed(r, s, 0)[0] = NoPosition
        BY <3>3, <4>2, ReplayedDef
      <4> QED BY <4>1, <4>3
    <3> QED BY <2>1, <3>1, <3>2, <3>4 DEF Replay
  <2>3. \A s \in Sides : Recorded[s] = HoldingOf(NoPosition)
    BY <1>1 DEF Init, Recorded
  <2> QED BY <2>2, <2>3 DEF Stored
<1> QED BY <1>1, <1>2, <1>3, <1>4 DEF Consistent

LEMMA StepConsistent ==
  ASSUME OneInFlight, Typed, xpos \in [Sides -> Held], Consistent, [Next]_vars
  PROVE  Consistent' /\ (Persist \/ (Recorded' = Recorded /\ rows' = rows))
<1> USE DEF Consistent
<1>1. CASE Commands
  BY <1>1, CommandsConsistent, CommandsRecord, RecordStored
<1>2. CASE PlaceOrder
  BY <1>2, PlaceConsistent, QuietRecord, RecordStored
<1>3. CASE RefuseOrder
  BY <1>3, RefuseConsistent, QuietRecord, RecordStored
<1>4. CASE FillTriggered
  BY <1>4, TriggeredConsistent, QuietRecord, RecordStored
<1>5. CASE SendUpdate
  BY <1>5, SendConsistent, QuietRecord, RecordStored
<1>6. CASE Persist
  BY <1>6, PersistConsistent, PersistStored
<1>7. CASE Apply
  BY <1>7, ApplyConsistent, ApplyRecord, RecordStored
<1>8. CASE Restart
  BY <1>8, RestartConsistent, RestartRecord, RecordStored
<1>9. CASE UNCHANGED vars
  <2>1. UNCHANGED <<pos, cmd, known, feed, rows, sent, outbox, chan, xpos, resting, todo>>
    BY <1>9 DEF vars, xvars, evars, accounts
  <2>2. Known' /\ Positions'
    BY <2>1 DEF Known, Positions
  <2>3. \A q \in known : Gone(q) => Gone(q)'
    BY <2>1 DEF Gone
  <2>4. Flights'
    BY <2>1, <2>3, FlightsStay
  <2>5. Recorded' = Recorded /\ rows' = rows
    BY <2>1, RecordStays
  <2> QED BY <2>2, <2>4, <2>5, RecordStored
<1> QED BY <1>1, <1>2, <1>3, <1>4, <1>5, <1>6, <1>7, <1>8, <1>9 DEF Next, Working

-----------------------------------------------------------------------------
(* Equity *)

Money == flow \in Int /\ Equity
Bounds == lev \in Leverages \cup {0} /\ restarts \in 0..MaxRestarts

LEMMA FlowInt ==
  ASSUME NEW h \in [Sides -> Held]
  PROVE  FlowOf(h) \in Int
<1>1. \A s \in Sides : h[s].cost \in Int
  BY DEF Held
<1>2. ("Short" \in Sides => h["Short"].cost \in Int) /\ ("Long" \in Sides => h["Long"].cost \in Int)
  BY <1>1
<1> QED BY <1>2 DEF FlowOf

\* What changes on one side changes the flow by as much.
LEMMA FlowOfOne ==
  ASSUME NEW h \in [Sides -> Held], NEW u \in Sides, NEW x \in Held
  PROVE  FlowOf([h EXCEPT ![u] = x]) = FlowOf(h) - Sign(u) * (x.cost - h[u].cost)
<1>1. PICK g : g = [h EXCEPT ![u] = x]
  OBVIOUS
<1>2. g[u] = x /\ \A s \in Sides : s # u => g[s] = h[s]
  BY <1>1
<1>3. x.cost \in Int /\ \A s \in Sides : h[s].cost \in Int
  BY DEF Held
<1>4. PICK a \in Int, b \in Int : a = x.cost /\ b = h[u].cost
  BY <1>3
<1>5. CASE u = "Long"
  <2>1. PICK c \in Int : c = (IF "Short" \in Sides THEN h["Short"].cost ELSE 0)
    BY <1>3
  <2>2. FlowOf(g) = c - a
    BY <1>2, <1>4, <1>5, <2>1 DEF FlowOf
  <2>3. FlowOf(h) = c - b
    BY <1>4, <1>5, <2>1 DEF FlowOf
  <2>4. Sign(u) * (a - b) = a - b
    BY <1>5 DEF Sign
  <2> QED BY <1>1, <1>4, <2>2, <2>3, <2>4
<1>6. CASE u = "Short"
  <2>1. PICK c \in Int : c = (IF "Long" \in Sides THEN h["Long"].cost ELSE 0)
    BY <1>3
  <2>2. FlowOf(g) = a - c
    BY <1>2, <1>4, <1>6, <2>1 DEF FlowOf
  <2>3. FlowOf(h) = b - c
    BY <1>4, <1>6, <2>1 DEF FlowOf
  <2>4. Sign(u) * (a - b) = -(a - b)
    BY <1>6 DEF Sign
  <2> QED BY <1>1, <1>4, <2>2, <2>3, <2>4
<1> QED BY <1>5, <1>6, PaperAssumption

\* An order that is not on its way to the engine finds what the engine holds.
LEMMA Unfilled ==
  ASSUME Typed, Known, Flights, outbox = NoFill, NEW o \in known, o = cmd \/ o \in resting
  PROVE  xpos[o.side] = HoldingOf(pos[o.side])
<1>1. ASSUME NEW g, Sound(g) PROVE g.side # o.side
  <2>1. PICK q \in known : Gone(q) /\ Matches(g, q)
    BY <1>1 DEF Sound
  <2>2. q # o
    BY <2>1 DEF Gone
  <2> QED BY <2>1, <2>2 DEF Known, Matches
<1>2. ~InChan(o.side) /\ ~Fed(o.side) /\ ~Out(o.side)
  BY <1>1 DEF Flights, InChan, Fed, Out
<1> QED BY <1>2, KnownTyped DEF Flights, Filled

\* What a fill does to the sum of the balance: nothing, or its PnL.
LEMMA CashMoves ==
  ASSUME Accounts, price \in Nat, lev # 0, NEW o \in Asked, Executes(o, price)
  PROVE  cash'.free + cash'.used = cash.free + cash.used + (IF o.kind = "open" THEN 0 ELSE Pnl(o, price))
<1> DEFINE m == Margin(o, price)
           g == Pnl(o, price)
<1>1. m \in Nat /\ g \in Int
  BY MarginNat, PnlInt DEF Accounts
<1>2. cash' = CashAfter(o, price) /\ cash.free \in Int /\ cash.used \in Int
  BY DEF Executes, Accounts
<1>3. CASE o.kind = "open"
  <2>1. cash' = [free |-> cash.free - m, used |-> cash.used + m]
    BY <1>2, <1>3 DEF CashAfter
  <2> HIDE DEF m
  <2> QED BY <1>1, <1>2, <1>3, <2>1
<1>4. CASE o.kind # "open"
  <2> DEFINE r == Lesser(m, cash.used)
  <2>1. cash' = [free |-> cash.free + r + g, used |-> cash.used - r]
    BY <1>2, <1>4 DEF CashAfter
  <2> HIDE DEF m, g
  <2>2. r \in Int
    BY <1>1, <1>2 DEF Lesser
  <2> HIDE DEF r
  <2>3. cash'.free + cash'.used = cash.free + cash.used + g
    BY <1>1, <1>2, <2>1, <2>2
  <2> QED BY <1>4, <2>3 DEF g
<1> QED BY <1>3, <1>4

\* A fill changes balance, flow and holdings alike.
LEMMA ExecutesMoney ==
  ASSUME Typed, Inv, Positions, Known, Flights, Money, outbox = NoFill, price # 0, lev # 0,
         NEW o \in known, o = cmd \/ o \in resting, Executes(o, price)
  PROVE  Money'
<1> DEFINE u == o.side
           h == xpos[u]
           x == After(h, o, price)
<1>1. o \in Placed /\ u \in Sides /\ price \in Nat /\ price \in Positive /\ o \in Asked /\ o.qty \in Positive
  <2>1. o \in Placed /\ price \in Nat
    BY KnownTyped DEF Typed, PriceTyped
  <2>2. o.limit \in Nat
    <3>1. o.limit \in Prices \cup {0}
      BY <2>1 DEF Placed, Limits
    <3> HIDE DEF u, h, x
    <3>2. \A q \in Prices : q \in Nat
      BY PaperAssumption
    <3> QED BY <3>1, <3>2
  <2> QED BY <2>1, <2>2, CidsCounted DEF Placed, Asked, Positive
<1>2. xpos \in [Sides -> Held] /\ h \in Held /\ x \in Held
  <2>1. xpos \in [Sides -> Held]
    BY DEF Inv, Accounts
  <2>2. h \in Held
    BY <1>1, <2>1
  <2> HIDE DEF h
  <2>3. x \in Held
    BY <1>1, <2>2, AfterHeld
  <2> QED BY <2>1, <2>2, <2>3
<1>3. PICK y : y = pos[u] /\ Well(y)
  BY <1>1 DEF Positions
<1>4. h.qty = y.qty /\ h.cost = y.cost /\ y.qty \in Nat /\ y.cost \in Int /\ (y.qty = 0 => y.cost = 0)
  <2>1. h = HoldingOf(y)
    BY <1>3, Unfilled
  <2> QED BY <1>3, <2>1 DEF HoldingOf, Well, Position
<1>5. o.kind = "close" => o.qty = h.qty
  BY <1>3, <1>4 DEF Known
<1>6. /\ xpos' = [xpos EXCEPT ![u] = x]
      /\ flow' = flow + Sign(u) * price * (IF o.kind = "open" THEN -o.qty ELSE Closed(o))
  BY DEF Executes
<1>7. FlowOf(xpos') = FlowOf(xpos) - Sign(u) * (x.cost - h.cost)
  <2> HIDE DEF x
  <2> QED BY <1>1, <1>2, <1>6, FlowOfOne
<1>8. cash'.free + cash'.used = cash.free + cash.used + (IF o.kind = "open" THEN 0 ELSE Pnl(o, price))
  BY <1>1, CashMoves DEF Inv
<1>9. cash.free + cash.used = Initial + flow - FlowOf(xpos) /\ flow \in Int /\ FlowOf(xpos) \in Int /\ Initial \in Int
  BY <1>2, FlowInt, PaperAssumption DEF Money, Equity
<1>10. PICK q \in Nat, p \in Nat, m \in Nat, b \in Int : q = o.qty /\ p = price /\ m = p * q /\ q > 0 /\ b = h.cost
  <2>1. PICK q \in Nat : q = o.qty /\ q > 0
    BY <1>1 DEF Positive
  <2>2. PICK p \in Nat : p = price
    BY <1>1
  <2>3. PICK m \in Nat : m = p * q
    OBVIOUS
  <2>4. PICK b \in Int : b = h.cost
    BY <1>4
  <2> QED BY <2>1, <2>2, <2>3, <2>4
<1>11. Sign(u) = 1 \/ Sign(u) = -1
  BY DEF Sign
<1>12. PICK z \in Int : z = Sign(u)
  BY <1>11
<1>13. CASE o.kind = "open"
  <2>1. x.cost = b + m
    BY <1>4, <1>10, <1>13 DEF After
  <2>2. flow' = flow - z * m
    <3>1. z * p * (-q) = -(z * m)
      BY <1>10, <1>11, <1>12
    <3> QED BY <1>6, <1>9, <1>10, <1>12, <1>13, <3>1
  <2>3. FlowOf(xpos') = FlowOf(xpos) - z * m
    <3>1. x.cost - h.cost = m
      BY <1>10, <2>1
    <3> QED BY <1>7, <1>12, <3>1
  <2>4. cash'.free + cash'.used = Initial + flow' - FlowOf(xpos')
    <3>1. z * m \in Int
      BY <1>11, <1>12
    <3>2. cash'.free + cash'.used = Initial + flow - FlowOf(xpos)
      BY <1>8, <1>9, <1>13, PaperAssumption
    <3> QED BY <1>9, <2>2, <2>3, <3>1, <3>2
  <2>5. flow' \in Int
    BY <1>9, <1>11, <1>12, <2>2
  <2> QED BY <2>4, <2>5 DEF Money, Equity
<1>14. CASE o.kind = "close"
  <2>1. Closed(o) = q /\ h.qty = q
    BY <1>5, <1>10, <1>14 DEF Closed, Lesser
  <2>2. CostOf(h, q) = b
    <3>1. h.qty \in Positive /\ h.cost \in Int
      BY <1>1, <1>4, <1>5, <1>14
    <3> QED BY <1>10, <2>1, <3>1, WholeCost
  <2>3. Pnl(o, price) = z * (m - b)
    BY <1>10, <1>12, <2>1, <2>2 DEF Pnl
  <2>4. x.cost = 0
    BY <1>10, <1>14, <2>1 DEF After, Nothing
  <2>5. flow' = flow + z * m
    <3>1. z * p * q = z * m
      BY <1>10, <1>11, <1>12
    <3> QED BY <1>6, <1>10, <1>12, <1>14, <2>1, <3>1
  <2>6. FlowOf(xpos') = FlowOf(xpos) + z * b
    <3>1. z * (0 - b) = -(z * b)
      BY <1>10, <1>11, <1>12
    <3>2. z * b \in Int
      BY <1>11, <1>12
    <3> QED BY <1>7, <1>9, <1>10, <1>12, <2>4, <3>1, <3>2
  <2>7. cash'.free + cash'.used = Initial + flow' - FlowOf(xpos')
    <3>1. z * m \in Int /\ z * b \in Int /\ z * (m - b) = z * m - z * b
      BY <1>11, <1>12
    <3>2. cash'.free + cash'.used = Initial + flow - FlowOf(xpos) + z * (m - b)
      BY <1>8, <1>9, <1>14, <2>3
    <3> QED BY <1>9, <2>5, <2>6, <3>1, <3>2
  <2>8. flow' \in Int
    BY <1>9, <1>11, <1>12, <2>5
  <2> QED BY <2>7, <2>8 DEF Money, Equity
<1> QED BY <1>1, <1>13, <1>14 DEF Placed

LEMMA MoneyStays ==
  ASSUME Money, UNCHANGED accounts
  PROVE  Money'
BY DEF Money, Equity, accounts

LEMMA StepMoney ==
  ASSUME Typed, Inv, Positions, Known, Flights, Money, [Next]_vars
  PROVE  Money'
<1>1. CASE Commands \/ RefuseOrder \/ SendUpdate \/ Persist \/ Apply \/ UNCHANGED vars
  <2>1. UNCHANGED accounts
    BY <1>1 DEF Commands, OpenMore, OpenNew, SetLeverage, Close, CancelOrders, CancelAll, PriceTick, Tick,
       RefuseOrder, SendUpdate, Send, Persist, Take, Apply, vars, xvars
  <2> QED BY <2>1, MoneyStays
<1>2. CASE PlaceOrder
  <2>1. cmd \in known /\ outbox = NoFill
    BY <1>2 DEF PlaceOrder, Place, Idle, Known
  <2>2. CASE cmd.limit = 0
    <3>1. price # 0 /\ lev # 0 /\ Executes(cmd, price)
      BY <1>2, <2>2 DEF PlaceOrder, Place, Takes
    <3> QED BY <2>1, <3>1, ExecutesMoney
  <2>3. CASE cmd.limit # 0
    BY <1>2, <2>3, MoneyStays DEF PlaceOrder, Place
  <2> QED BY <2>2, <2>3
<1>3. CASE FillTriggered
  <2>1. PICK o \in todo : FillNext(o) \/ DropNext(o)
    BY <1>3 DEF FillTriggered
  <2>2. o \in known /\ o \in resting /\ price # 0
    BY <2>1 DEF Known, Typed, PriceTyped
  <2>3. CASE FillNext(o)
    <3>1. lev # 0 /\ Executes(o, price) /\ outbox = NoFill
      BY <2>3 DEF FillNext
    <3> QED BY <2>2, <3>1, ExecutesMoney
  <2>4. CASE DropNext(o)
    BY <2>4, MoneyStays DEF DropNext
  <2> QED BY <2>1, <2>3, <2>4
<1>4. CASE Restart
  <2>1. /\ flow' = FlowOf(xpos') /\ cash' = [free |-> Initial, used |-> 0]
    BY <1>4 DEF Restart, Restore
  <2>2. xpos' \in [Sides -> Held]
    <3>1. Inv'
      BY <1>4, RestartInv
    <3> QED BY <3>1 DEF Inv, Accounts
  <2>3. FlowOf(xpos') \in Int
    BY <2>2, FlowInt
  <2> QED BY <2>1, <2>3, PaperAssumption DEF Money, Equity
<1> QED BY <1>1, <1>2, <1>3, <1>4 DEF Next, Working

LEMMA InitMoney == Init => Money
<1> SUFFICES ASSUME Init PROVE Money
  OBVIOUS
<1>1. flow = 0 /\ cash = [free |-> Initial, used |-> 0] /\ xpos = [s \in Sides |-> Nothing]
  BY DEF Init, XInit
<1>2. FlowOf(xpos) = 0
  BY <1>1 DEF FlowOf, Nothing
<1> QED BY <1>1, <1>2, PaperAssumption DEF Money, Equity


LEMMA InitBounds == Init => Bounds
BY TradingAssumption DEF Init, XInit, Bounds

\* Restarts are counted, and leverages come from set_leverage.
LEMMA StepBounds ==
  ASSUME Bounds, [Next]_vars
  PROVE  Bounds'
<1>1. CASE Commands
  <2>1. restarts' = restarts /\ (lev' = lev \/ lev' \in Leverages)
    BY <1>1 DEF Commands, OpenMore, OpenNew, SetLeverage, Close, Issue, CancelOrders, CancelAll,
       PriceTick, Tick, xvars, evars
  <2> QED BY <2>1 DEF Bounds
<1>2. CASE Working \/ UNCHANGED vars
  <2>1. restarts' = restarts /\ lev' = lev
    BY <1>2 DEF Working, PlaceOrder, Place, RefuseOrder, FillTriggered, FillNext, DropNext, SendUpdate,
       Send, Persist, Take, Apply, vars, xvars, evars
  <2> QED BY <2>1 DEF Bounds
<1>3. CASE Restart
  <2>1. restarts' = restarts + 1 /\ restarts < MaxRestarts /\ lev' = 0
    BY <1>3 DEF Restart, Restore
  <2> QED BY <2>1, TradingAssumption DEF Bounds
<1> QED BY <1>1, <1>2, <1>3 DEF Next

\* What every state satisfies when the workers have one order in flight.
Whole == Typed /\ Inv /\ Consistent /\ Money /\ Bounds

\* The inductive invariant.
LEMMA WholeHolds ==
  ASSUME OneInFlight
  PROVE  Spec => []Whole
<1>1. Init => Whole
  BY InitTyped, InitInv, InitConsistent, InitMoney, InitBounds DEF Whole
<1>2. Whole /\ [Next]_vars => Whole'
  <2> SUFFICES ASSUME Whole, [Next]_vars PROVE Whole'
    OBVIOUS
  <2>1. Typed' /\ Inv' /\ Bounds'
    BY StepTyped, StepInv, StepBounds DEF Whole
  <2>2. Consistent'
    BY StepConsistent DEF Whole, Inv, Accounts
  <2>3. Money'
    BY StepMoney DEF Whole, Consistent
  <2> QED BY <2>1, <2>2, <2>3 DEF Whole
<1> QED BY <1>1, <1>2, PTL DEF Spec

\* The state of the engine and of the simulated exchange is well-formed for all sides,
\* prices, leverages, quantities and restarts: the recovery always makes a position of
\* the rows, every share of a cost is a number, and restarts and orders are counted.
THEOREM TypeCorrect ==
  ASSUME OneInFlight
  PROVE  Spec => []TypeOK
<1>1. Whole => TypeOK
  <2> SUFFICES ASSUME Whole PROVE TypeOK
    OBVIOUS
  <2>1. Row \subseteq Fill
    BY DEF Row, Fill, Positive
  <2>2. Placed \subseteq Order
    BY DEF Placed, Order, Limits, Positive
  <2>3. Held \subseteq Holding
    BY DEF Held, Holding
  <2>4. Seq(Row) \subseteq Seq(Fill)
    BY <2>1
  <2>5. /\ xpos \in [Sides -> Holding] /\ cash \in [free: Int, used: Int] /\ realized \in Int
    <3>1. xpos \in [Sides -> Held]
      BY DEF Whole, Inv, Accounts
    <3> QED BY <2>3, <3>1 DEF Whole, Inv, Accounts
  <2>6. lev \in Leverages \cup {0} /\ restarts \in 0..MaxRestarts /\ flow \in Int /\ price \in Nat
    BY DEF Whole, Bounds, Money, Typed, PriceTyped
  <2>7. /\ resting \subseteq Order /\ todo \subseteq Order /\ known \subseteq Order
        /\ cmd \in Order \cup {NoOrder} /\ sent \in 0..Cardinality(Cids)
    BY <2>2 DEF Whole, Typed, OrdersTyped
  <2>8. outbox \in Fill \cup {NoFill} /\ feed \in Fill \cup {NoFill} /\ chan \in Seq(Fill) /\ rows \in Seq(Fill)
    BY <2>1, <2>4 DEF Whole, Typed, FillsTyped, RowsTyped
  <2>9. pos \in [Sides -> Position]
    BY DEF Whole, Consistent, Positions
  <2> QED BY <2>5, <2>6, <2>7, <2>8, <2>9 DEF TypeOK, XTypeOK
<1> QED BY WholeHolds, <1>1, PTL

\* When nothing is under way, the engine holds what the simulated exchange holds, after
\* any number of restarts at any moment (recover_state).
THEOREM EngineAgrees ==
  ASSUME OneInFlight
  PROVE  Spec => []Agreement
<1>1. Whole => Agreement
  <2> SUFFICES ASSUME Whole, Settled, NEW s \in Sides PROVE HoldingOf(pos[s]) = xpos[s]
    BY DEF Agreement
  <2>1. ~Filled(s)
    BY DEF Settled, Idle, Filled, Out, InChan, Fed, NoFill
  <2> QED BY <2>1 DEF Whole, Consistent, Flights
<1> QED BY WholeHolds, <1>1, PTL

\* The balance is what the trades since the start have paid and received, with the
\* positions at their entry price: no fill, close or restart makes or loses money.
THEOREM EquityHolds ==
  ASSUME OneInFlight
  PROVE  Spec => []Equity
<1>1. Whole => Equity
  BY DEF Whole, Money
<1> QED BY WholeHolds, <1>1, PTL


-----------------------------------------------------------------------------
(* The durable positions *)

\* Prices have a bound: that of the known price, of the fills under way and of the
\* positions on record.
Bounded(b) ==
  /\ price <= b
  /\ outbox # NoFill => outbox.price <= b
  /\ \A i \in DOMAIN chan : chan[i].price <= b
  /\ \A s \in Sides : Recorded[s].cost <= b * Recorded[s].qty
Bounding(b) == b \in Nat /\ b \in Prices /\ \A p \in Prices : p <= b

LEMMA InitBounded ==
  ASSUME NEW b \in Nat, Init
  PROVE  Bounded(b)
<1>1. \A s \in Sides : Recorded[s].cost = 0 /\ Recorded[s].qty = 0
  BY DEF Init, Recorded, HoldingOf, NoPosition
<1>2. price = 0 /\ outbox = NoFill /\ DOMAIN chan = {}
  BY DEF Init, XInit
<1> QED BY <1>1, <1>2 DEF Bounded

\* An entry price is at most as high as the highest price of a trade.
LEMMA EntryPrice ==
  ASSUME NEW b \in Nat, NEW c \in Nat, NEW n \in Nat, n > 0, c <= b * n
  PROVE  c \div n <= b
<1>1. PICK d \in Nat : d = c \div n
  OBVIOUS
<1>2. n * d <= c
  BY <1>1
<1>3. n * d <= n * b
  <2>1. b * n = n * b
    OBVIOUS
  <2> QED BY <1>2, <2>1
<1>4. ASSUME d > b PROVE FALSE
  <2>1. d >= b + 1
    BY <1>4
  <2>2. n * d >= n * (b + 1)
    BY <2>1
  <2>3. n * (b + 1) = n * b + n
    OBVIOUS
  <2> QED BY <1>3, <2>2, <2>3
<1> QED BY <1>1, <1>4

\* A trade at a price within the bound keeps the cost within the bound.
LEMMA AddBounded ==
  ASSUME NEW b \in Nat, NEW c \in Int, NEW n \in Nat, c <= b * n,
         NEW q \in Nat, NEW p \in Nat, p <= b
  PROVE  c + p * q <= b * (n + q)
<1>1. p * q <= b * q
  OBVIOUS
<1>2. b * (n + q) = b * n + b * q
  OBVIOUS
<1>3. p * q \in Int /\ b * q \in Int /\ b * n \in Int
  OBVIOUS
<1> QED BY <1>1, <1>2, <1>3

\* A step that stores a trade is a step of DurablePosition.
LEMMA PersistTrades ==
  ASSUME Typed, Consistent, Persist, NEW b \in Nat, Bounded(b)
  PROVE  /\ \E s \in Sides : \/ \E q \in 1..Recorded[s].qty : Durable!Reduce(s, q)
                             \/ \E q \in Quantities, p \in 1..b : Durable!Add(s, q, p)
         /\ \A s \in Sides : Recorded'[s].cost <= b * Recorded'[s].qty
<1>1. PICK f \in Row : /\ f.side \in Sides
                       /\ Recorded' = [Recorded EXCEPT ![f.side] = HoldingOf(Applied(pos[f.side], f))]
                       /\ HoldingOf(pos[f.side]) = Recorded[f.side]
                       /\ f.kind = "close" => f.qty = pos[f.side].qty
                       /\ f.kind = "open" => f.qty \in Quantities
                       /\ f = chan[1] /\ 1 \in DOMAIN chan
  BY PersistRecord DEF Consistent
<1>2. PICK u \in Sides : u = f.side
  BY <1>1
<1>3. PICK x : x = pos[u] /\ Well(x)
  BY DEF Consistent, Positions
<1>4. PICK n \in Nat, c \in Int : n = x.qty /\ c = x.cost
  BY <1>3 DEF Well, Position
<1>5. PICK q \in Nat : q = f.qty /\ q > 0
  BY DEF Row, Positive
<1>6. PICK p \in Nat : p = f.price /\ p > 0 /\ p <= b
  BY <1>1 DEF Row, Positive, Bounded
<1>7. Recorded[u] = [qty |-> n, cost |-> c] /\ c <= b * n
  BY <1>1, <1>2, <1>3, <1>4 DEF HoldingOf, Bounded
<1>8. Recorded \in [Sides -> {Recorded[s] : s \in Sides}]
  BY DEF Recorded
<1>9. CASE f.kind = "open"
  <2>1. HoldingOf(Applied(x, f)) = [qty |-> n + q, cost |-> c + p * q]
    BY <1>4, <1>5, <1>6, <1>9 DEF Applied, HoldingOf
  <2>2. Recorded' = [Recorded EXCEPT ![u] = [qty |-> n + q, cost |-> c + p * q]]
    BY <1>1, <1>2, <1>3, <2>1
  <2>3. Durable!Add(u, q, p)
    BY <1>7, <2>2 DEF Durable!Add
  <2>4. q \in Quantities /\ p \in 1..b
    BY <1>1, <1>5, <1>6, <1>9
  <2>5. c + p * q <= b * (n + q)
    BY <1>6, <1>7, AddBounded
  <2>6. \A s \in Sides : Recorded'[s].cost <= b * Recorded'[s].qty
    <3> SUFFICES ASSUME NEW s \in Sides PROVE Recorded'[s].cost <= b * Recorded'[s].qty
      OBVIOUS
    <3>1. CASE s = u
      <4>1. Recorded'[s] = [qty |-> n + q, cost |-> c + p * q]
        BY <1>8, <2>2, <3>1
      <4> QED BY <2>5, <4>1
    <3>2. CASE s # u
      <4>1. Recorded'[s] = Recorded[s]
        BY <1>8, <2>2, <3>2
      <4> QED BY <4>1 DEF Bounded
    <3> QED BY <3>1, <3>2
  <2> QED BY <2>3, <2>4, <2>6
<1>10. CASE f.kind = "close"
  <2>1. q = n /\ n > 0 /\ n \in 1..n
    BY <1>1, <1>2, <1>3, <1>4, <1>5, <1>10
  <2>2. HoldingOf(Applied(x, f)) = [qty |-> 0, cost |-> 0]
    BY <1>4, <1>5, <1>10, <2>1 DEF Applied, NoPosition, HoldingOf
  <2>3. Recorded' = [Recorded EXCEPT ![u] = [qty |-> 0, cost |-> 0]]
    BY <1>1, <1>2, <1>3, <2>2
  <2>4. n - n = 0 /\ c - (c * n) \div n = 0
    <3>1. (c * n) \div n = c
      BY <2>1
    <3> QED BY <3>1
  <2>5. Durable!Reduce(u, n)
    <3>1. PICK r : r = Recorded[u]
      OBVIOUS
    <3>2. r.qty = n /\ r.cost = c
      BY <1>7, <3>1
    <3>3. r.qty - n = 0 /\ r.cost - (r.cost * n) \div r.qty = 0
      BY <2>4, <3>2, Zenon
    <3>4. Recorded' = [Recorded EXCEPT ![u] = [qty |-> r.qty - n, cost |-> r.cost - (r.cost * n) \div r.qty]]
      BY <2>3, <3>3, Zenon
    <3> QED BY <3>1, <3>4, Zenon DEF Durable!Reduce
  <2>6. \A s \in Sides : Recorded'[s].cost <= b * Recorded'[s].qty
    <3> SUFFICES ASSUME NEW s \in Sides PROVE Recorded'[s].cost <= b * Recorded'[s].qty
      OBVIOUS
    <3>1. CASE s = u
      <4>1. Recorded'[s] = [qty |-> 0, cost |-> 0]
        BY <1>8, <2>3, <3>1
      <4> QED BY <4>1
    <3>2. CASE s # u
      <4>1. Recorded'[s] = Recorded[s]
        BY <1>8, <2>3, <3>2
      <4> QED BY <4>1 DEF Bounded
    <3> QED BY <3>1, <3>2
  <2>7. n \in 1..Recorded[u].qty
    BY <1>7, <2>1
  <2> QED BY <2>5, <2>6, <2>7
<1> QED BY <1>9, <1>10 DEF Row

\* No step takes a price beyond the bound.
LEMMA StepBounded ==
  ASSUME OneInFlight, Whole, NEW b, Bounding(b), Bounded(b), [Next]_vars
  PROVE  Bounded(b)'
<1>1. b \in Nat
  BY DEF Bounding
<1>2. \A s \in Sides : Recorded'[s].cost <= b * Recorded'[s].qty
  <2>1. CASE Persist
    BY <1>1, <2>1, PersistTrades DEF Whole
  <2>2. CASE Recorded' = Recorded
    BY <2>2 DEF Bounded
  <2> QED BY <2>1, <2>2, StepConsistent DEF Whole, Inv, Accounts
<1>3. /\ chan \in Seq(Row) /\ price \in Nat
      /\ outbox \in Row \cup {NoFill}
  BY DEF Whole, Typed, FillsTyped, PriceTyped
<1>4. CASE Commands \/ RefuseOrder \/ Apply \/ UNCHANGED vars
  <2>1. UNCHANGED <<outbox, chan>>
    BY <1>4 DEF Commands, OpenMore, OpenNew, SetLeverage, Close, Issue, CancelOrders, CancelAll,
       PriceTick, Tick, RefuseOrder, Apply, vars, xvars
  <2>2. price' = price \/ price' \in Prices
    BY <1>4 DEF Commands, OpenMore, OpenNew, SetLeverage, Close, Issue, CancelOrders, CancelAll,
       PriceTick, Tick, RefuseOrder, Apply, vars, xvars
  <2>3. price' <= b
    BY <2>2 DEF Bounding, Bounded
  <2> QED BY <1>2, <2>1, <2>3 DEF Bounded
<1>5. CASE PlaceOrder \/ FillTriggered
  <2>1. UNCHANGED <<price, chan>>
    BY <1>5 DEF PlaceOrder, Place, FillTriggered, FillNext, DropNext
  <2>2. outbox' = outbox \/ outbox'.price = price
    BY <1>5 DEF PlaceOrder, Place, FillTriggered, FillNext, DropNext, Executes, accounts
  <2> QED BY <1>2, <2>1, <2>2 DEF Bounded
<1>6. CASE SendUpdate
  <2>1. price' = price /\ outbox # NoFill /\ outbox' = NoFill /\ chan' = Append(chan, outbox)
    BY <1>6 DEF SendUpdate, Send
  <2>2. PICK f \in Row : f = outbox /\ f.price <= b
    BY <1>3, <2>1 DEF Bounded
  <2>3. \A i \in DOMAIN chan' : chan'[i].price <= b
    <3>1. \A i \in DOMAIN chan' : chan'[i] = f \/ (i \in DOMAIN chan /\ chan'[i] = chan[i])
      BY <1>3, <2>1, <2>2
    <3> QED BY <2>2, <3>1 DEF Bounded
  <2> QED BY <1>2, <2>1, <2>3 DEF Bounded
<1>7. CASE Persist
  <2>1. UNCHANGED <<price, outbox>> /\ chan # <<>> /\ chan' = Tail(chan)
    BY <1>7 DEF Persist, Take
  <2>2. \A i \in DOMAIN chan' : i + 1 \in DOMAIN chan /\ chan'[i] = chan[i + 1]
    BY <1>3, <2>1
  <2> QED BY <1>2, <2>1, <2>2 DEF Bounded
<1>8. CASE Restart
  <2>1. outbox' = NoFill /\ chan' = <<>>
    BY <1>8 DEF Restart, Restore
  <2>2. price' <= b
    <3> DEFINE h == [s \in Sides |-> HoldingOf(Replay(rows, s))]
    <3>1. CASE price' = 0
      BY <1>1, <3>1
    <3>2. CASE \E s \in Sides : h[s].qty > 0 /\ price' = h[s].cost \div h[s].qty
      <4>1. PICK s \in Sides : h[s].qty > 0 /\ price' = h[s].cost \div h[s].qty
        BY <3>2
      <4>2. h[s] = Recorded[s] /\ h[s] = Recorded'[s]
        BY <1>8, RestartRecord DEF Whole, Consistent, Stored
      <4>3. h[s].qty \in Nat /\ h[s].cost \in Nat
        <5>1. Positions' /\ feed' = NoFill
          BY <1>8, StepConsistent DEF Whole, Inv, Accounts, Consistent, Restart
        <5>2. Recorded'[s] = HoldingOf(pos'[s]) /\ Well(pos'[s])
          BY <5>1 DEF Recorded, Positions
        <5>3. pos'[s].qty \in Nat /\ pos'[s].cost \in Int /\ pos'[s].qty <= pos'[s].cost
          BY <5>2 DEF Well, Position
        <5> QED BY <4>2, <5>2, <5>3 DEF HoldingOf
      <4>4. PICK n \in Nat, c \in Nat : n = h[s].qty /\ c = h[s].cost
        BY <4>3
      <4>5. c <= b * n
        BY <4>2, <4>4 DEF Bounded
      <4>6. c \div n <= b
        BY <1>1, <4>1, <4>4, <4>5, EntryPrice
      <4> QED BY <4>1, <4>4, <4>6, Zenon
    <3> QED BY <1>8, <3>1, <3>2 DEF Restart, Restore
  <2> QED BY <1>2, <2>1, <2>2 DEF Bounded
<1> QED BY <1>4, <1>5, <1>6, <1>7, <1>8 DEF Next, Working

\* The stored trades and the positions the engine makes of them are positions that
\* nothing but a trade changes: an opening one adds to a position, a closing one takes
\* from what is held, and no restart is visible (get_positions_from_orders).
THEOREM PositionsSurvive ==
  ASSUME OneInFlight, \E b \in Prices : \A p \in Prices : p <= b
  PROVE  Spec => PositionsDurable
<1>1. Highest \in Prices /\ (\A p \in Prices : p <= Highest) /\ Bounding(Highest)
  <2>1. Highest \in Prices /\ \A p \in Prices : p <= Highest
    BY DEF Highest
  <2> QED BY <2>1, PaperAssumption DEF Bounding
<1>2. Init => Durable!Init /\ Bounded(Highest)
  <2> SUFFICES ASSUME Init PROVE Durable!Init /\ Bounded(Highest)
    OBVIOUS
  <2>1. Highest \in Nat
    BY <1>1 DEF Bounding
  <2>2. Bounded(Highest)
    BY <2>1, InitBounded
  <2>3. Recorded = [s \in Sides |-> HoldingOf(NoPosition)]
    BY DEF Init, Recorded
  <2>4. HoldingOf(NoPosition) = Durable!None
    BY DEF HoldingOf, NoPosition, Durable!None
  <2> QED BY <2>2, <2>3, <2>4 DEF Durable!Init
<1>3. Whole /\ Bounded(Highest) /\ [Next]_vars => Bounded(Highest)'
  BY <1>1, StepBounded
<1>4. Whole /\ Bounded(Highest) /\ [Next]_vars => [Durable!Next]_Recorded
  <2> SUFFICES ASSUME Whole, Bounded(Highest), [Next]_vars PROVE [Durable!Next]_Recorded
    OBVIOUS
  <2>1. CASE Persist
    <3>1. Highest \in Nat
      BY <1>1 DEF Bounding
    <3>2. Durable!Next
      BY <2>1, <3>1, PersistTrades DEF Whole, Durable!Next
    <3> QED BY <3>2
  <2>2. CASE Recorded' = Recorded
    BY <2>2
  <2> QED BY <2>1, <2>2, StepConsistent DEF Whole, Inv, Accounts
<1> QED BY WholeHolds, <1>2, <1>3, <1>4, PTL DEF Spec, PositionsDurable, Durable!Spec
===============================================================================
