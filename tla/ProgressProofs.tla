--------------------------- MODULE ProgressProofs ---------------------------
(***************************************************************************)
(* The progress bar of module Progress is right for every set of threads,  *)
(* every total and every width of the terminal: the lock makes the steps   *)
(* of addProgress one step, no addition is lost, the cells and the lines   *)
(* printed are those of the count, and the full line is printed once.      *)
(***************************************************************************)
EXTENDS Progress, FiniteSetTheorems, TLAPS

(* The inductive invariant of Progress.  Who is inside the locked part. *)
InSection(t)  == pc[t] \in {"count", "store", "paint", "dump", "unlock"}
LockIsHeld    == \A t \in Workers : InSection(t) <=> holder = t
NothingToKeep == ~alive => Quiet

(* What the threads have announced and not yet stored, item by item. *)
Pending ==
  {p \in Workers \X (1 .. totalCount) :
     pc[p[1]] \in {"lock", "count", "store"} /\ p[2] <= amount[p[1]]}

AddsAddUp ==
  /\ IsFiniteSet(Pending)
  /\ claimed = progressCount + Cardinality(Pending)

(* A thread's locals belong to the count as it stands at its position. *)
LocalsFollow ==
  \A t \in Workers :
    /\ (pc[t] = "out") <=> (amount[t] = 0)
    /\ pc[t] = "out" => local[t] = Nothing
    /\ pc[t] = "store" =>
         local[t] = [count |-> progressCount + amount[t],
                     from |-> Filled(progressCount),
                     to |-> Filled(progressCount + amount[t])]
    /\ pc[t] \in {"paint", "dump"} =>
         /\ local[t].count = progressCount
         /\ local[t].to = Filled(progressCount)
         /\ local[t].from < local[t].to

PercentFollows ==
  /\ \A t \in Workers : pc[t] = "store" => percentOf = local[t].count
  /\ (\A t \in Workers : pc[t] # "store") => percentOf = progressCount

(* The cells full are those of the count, but for the ones still to paint. *)
BarFollows ==
  \A i \in DOMAIN bar :
    (bar[i] = "#") <=> /\ i < Filled(progressCount)
                       /\ \A t \in Workers : pc[t] = "paint" => i < local[t].from

(* The last line printed is as full as the bar, unless one is on its way. *)
LineFollows ==
  /\ printed \in [full : 0 .. barLength, count : 0 .. progressCount,
                  percentOf : 0 .. totalCount]
  /\ newlines = IF printed.count = totalCount /\ totalCount > 0 THEN 1 ELSE 0
  /\ (printed.count = 0) <=> (printed = NoLine)
  /\ alive =>
       IF \E t \in Workers : pc[t] \in {"paint", "dump"}
       THEN printed.count < progressCount
       ELSE Filled(printed.count) = Filled(progressCount)

BarIsBuilt ==
  /\ (totalCount = 0) <=> (barLength = 0)
  /\ alive => totalCount > 0

ProgressInv ==
  /\ BarIsBuilt
  /\ NothingToKeep
  /\ LockIsHeld
  /\ AddsAddUp
  /\ LocalsFollow
  /\ PercentFollows
  /\ BarFollows
  /\ LineFollows
  /\ LinesAreConsistent

-----------------------------------------------------------------------------

(* The number of positions below a length. *)
LEMMA CountBelow ==
  ASSUME NEW n \in Nat
  PROVE  IsFiniteSet(0 .. n - 1) /\ Cardinality(0 .. n - 1) = n
<1>1. 0 \in Int /\ n - 1 \in Int
  OBVIOUS
<1>2. /\ IsFiniteSet(0 .. n - 1)
      /\ Cardinality(0 .. n - 1) = IF 0 > n - 1 THEN 0 ELSE (n - 1) - 0 + 1
  BY <1>1, FS_Interval
<1> QED BY <1>2

(* A thread paired with each of the items it announced.                     *)
LEMMA CountPairs ==
  ASSUME NEW t, NEW n \in Nat
  PROVE  IsFiniteSet({t} \X (1 .. n)) /\ Cardinality({t} \X (1 .. n)) = n
<1>1. /\ IsFiniteSet(1 .. n)
      /\ Cardinality(1 .. n) = IF 1 > n THEN 0 ELSE n - 1 + 1
  <2>1. 1 \in Int /\ n \in Int
    OBVIOUS
  <2> QED BY <2>1, FS_Interval
<1>2. IsFiniteSet({t}) /\ Cardinality({t}) = 1
  BY FS_Singleton
<1>3. /\ IsFiniteSet({t} \X (1 .. n))
      /\ Cardinality({t} \X (1 .. n)) = 1 * Cardinality(1 .. n)
  BY <1>1, <1>2, FS_Product
<1> QED BY <1>1, <1>3

(* The length the constructor computes is that of a buffer it can allocate, *)
(* whatever the terminal and the total.                                     *)
LEMMA BarLengthBound ==
  ASSUME NEW columns \in Nat, NEW total
  PROVE  BarLengthFor(columns, total) \in 10 .. 160
<1> DEFINE short == {k \in 1 .. 9 : 10 ^ k <= total}
<1>1. Cardinality(short) \in Nat
  <2>1. 1 \in Int /\ 9 \in Int
    OBVIOUS
  <2>2. IsFiniteSet(1 .. 9)
    BY <2>1, FS_Interval
  <2>3. IsFiniteSet(short)
    BY <2>2, FS_Subset
  <2> QED BY <2>3, FS_CardinalityType
<1>2. Digits(total) \in Nat
  BY <1>1 DEF Digits
<1> QED BY <1>2 DEF BarLengthFor, SmallerOf

-----------------------------------------------------------------------------
(* What the integer division of two counts returns. *)
LEMMA Quotient ==
  ASSUME NEW a \in Nat, NEW b \in Nat \ {0}
  PROVE  /\ a \div b \in Nat
         /\ b * (a \div b) <= a
         /\ a < b * (a \div b) + b
  OBVIOUS

LEMMA ProductGrows ==
  ASSUME NEW a \in Nat, NEW b \in Nat, NEW c \in Nat, a <= b
  PROVE  c * a \in Nat /\ c * a <= c * b
  OBVIOUS

(* A smaller count is worth no more cells.                                  *)
LEMMA CellsGrow ==
  ASSUME NEW T \in Nat \ {0}, NEW L \in Nat, NEW c \in Nat, NEW d \in Nat,
         c <= d
  PROVE  /\ CellsFor(c, L, T) \in Nat
         /\ CellsFor(c, L, T) <= CellsFor(d, L, T)
<1> DEFINE p == c * L
           q == d * L
           m == p \div T
           n == q \div T
<1>1. p \in Nat /\ q \in Nat /\ p <= q
  BY ProductGrows
<1>2. m = CellsFor(c, L, T) /\ n = CellsFor(d, L, T)
  BY DEF CellsFor
<1> HIDE DEF p, q
<1>3. /\ m \in Nat /\ n \in Nat
      /\ T * m <= p /\ q < T * n + T
  BY <1>1, Quotient
<1> HIDE DEF m, n
<1>4. m <= n
  <2>1. SUFFICES ASSUME n + 1 <= m PROVE FALSE
    BY <1>3
  <2>2. T * (n + 1) <= T * m
    BY <1>3, <2>1, ProductGrows
  <2>3. T * (n + 1) = T * n + T
    BY <1>3
  <2> QED BY <1>1, <1>3, <2>2, <2>3, ProductGrows
<1> QED BY <1>2, <1>3, <1>4

(* The full count is worth the whole bar, and nothing less is.              *)
LEMMA CellsAtEnd ==
  ASSUME NEW T \in Nat \ {0}, NEW L \in Nat \ {0}
  PROVE  /\ CellsFor(0, L, T) = 0
         /\ CellsFor(T, L, T) = L
         /\ \A c \in Nat : c < T => CellsFor(c, L, T) < L
<1>1. CellsFor(0, L, T) = 0
  BY DEF CellsFor
<1>2. CellsFor(T, L, T) = L
  BY DEF CellsFor
<1>3. ASSUME NEW c \in Nat, c < T
      PROVE  CellsFor(c, L, T) < L
  <2> DEFINE p == c * L
             m == p \div T
  <2>1. p \in Nat /\ p + L <= T * L
    <3>1. L * (c + 1) <= L * T
      BY <1>3, ProductGrows
    <3> QED BY <3>1, ProductGrows
  <2>2. m = CellsFor(c, L, T)
    BY DEF CellsFor
  <2> HIDE DEF p
  <2>3. m \in Nat /\ T * m <= p
    BY <2>1, Quotient
  <2> HIDE DEF m
  <2>4. SUFFICES ASSUME L <= m PROVE FALSE
    BY <2>2, <2>3
  <2>5. T * L <= T * m
    BY <2>3, <2>4, ProductGrows
  <2> QED BY <2>1, <2>3, <2>5, ProductGrows
<1> QED BY <1>1, <1>2, <1>3

-----------------------------------------------------------------------------
(* The filled cells of a bar that has been built. *)
LEMMA FilledFacts ==
  ASSUME TypeOK, ProgressInv, totalCount > 0
  PROVE  /\ totalCount \in Nat \ {0} /\ barLength \in Nat \ {0}
         /\ barLength \in 10 .. 160
         /\ \A c \in 0 .. totalCount : Filled(c) \in 0 .. barLength
         /\ \A c, d \in 0 .. totalCount : c <= d => Filled(c) <= Filled(d)
         /\ \A c \in 0 .. totalCount : Filled(c) = barLength <=> c = totalCount
         /\ Filled(0) = 0
<1>1. totalCount \in Nat \ {0} /\ barLength \in Nat \ {0}
      /\ barLength \in 10 .. 160
  <2>1. totalCount \in Nat \ {0}
    BY ProgressAssumption DEF TypeOK
  <2>2. barLength # 0
    BY DEF ProgressInv, BarIsBuilt
  <2>3. barLength \in 10 .. 160
    BY <2>2 DEF TypeOK
  <2> QED BY <2>1, <2>3
<1>2. \A c, d \in 0 .. totalCount : c <= d =>
        /\ CellsFor(c, barLength, totalCount) \in Nat
        /\ CellsFor(c, barLength, totalCount) <= CellsFor(d, barLength, totalCount)
  BY <1>1, CellsGrow
<1>3. /\ CellsFor(0, barLength, totalCount) = 0
      /\ CellsFor(totalCount, barLength, totalCount) = barLength
      /\ \A c \in Nat : c < totalCount =>
           CellsFor(c, barLength, totalCount) < barLength
  BY <1>1, CellsAtEnd
<1> QED BY <1>1, <1>2, <1>3 DEF Filled

(* What a thread inside addProgress stands on. *)
LEMMA InsideFacts ==
  ASSUME TypeOK, ProgressInv, NEW t \in Workers, pc[t] # "out"
  PROVE  /\ alive /\ totalCount > 0 /\ totalCount \in Nat
         /\ amount[t] \in 1 .. totalCount
         /\ bar \in [0 .. barLength - 1 -> {"-", "#"}]
<1>1. alive
  BY DEF ProgressInv, NothingToKeep, Quiet
<1>2. totalCount > 0 /\ totalCount \in Nat
  BY <1>1, ProgressAssumption DEF TypeOK, ProgressInv, BarIsBuilt
<1>3. amount[t] \in 0 .. totalCount /\ amount[t] # 0
  BY DEF TypeOK, ProgressInv, LocalsFollow
<1> QED BY <1>1, <1>2, <1>3 DEF TypeOK

(* The lock admits one thread.                                              *)
LEMMA OneInSection ==
  ASSUME TypeOK, ProgressInv, NEW t \in Workers, InSection(t)
  PROVE  \A u \in Workers : u # t => ~InSection(u) /\ holder = t
BY DEF ProgressInv, LockIsHeld

(* What a thread owes is part of what all threads owe.                      *)
LEMMA OwedIsPending ==
  ASSUME TypeOK, ProgressInv, NEW t \in Workers,
         pc[t] \in {"lock", "count", "store"}
  PROVE  /\ {t} \X (1 .. amount[t]) \subseteq Pending
         /\ IsFiniteSet(Pending) /\ Cardinality(Pending) \in Nat
         /\ Cardinality({t} \X (1 .. amount[t])) = amount[t]
         /\ IsFiniteSet({t} \X (1 .. amount[t]))
         /\ amount[t] <= Cardinality(Pending)
         /\ progressCount + amount[t] \in 0 .. totalCount
<1>1. amount[t] \in 1 .. totalCount /\ totalCount \in Nat /\ amount[t] \in Nat
  BY InsideFacts
<1>2. {t} \X (1 .. amount[t]) \subseteq Pending
  BY <1>1 DEF Pending
<1>3. IsFiniteSet(Pending) /\ claimed = progressCount + Cardinality(Pending)
  BY DEF ProgressInv, AddsAddUp
<1>4. Cardinality({t} \X (1 .. amount[t])) = amount[t]
      /\ IsFiniteSet({t} \X (1 .. amount[t]))
  BY <1>1, CountPairs
<1>5. Cardinality(Pending) \in Nat /\ amount[t] <= Cardinality(Pending)
  BY <1>2, <1>3, <1>4, FS_CardinalityType, FS_Subset
<1>6. progressCount \in 0 .. totalCount /\ claimed \in 0 .. totalCount
  BY DEF TypeOK
<1> QED BY <1>1, <1>2, <1>3, <1>4, <1>5, <1>6

-----------------------------------------------------------------------------
LEMMA InitKeeps == Init => TypeOK /\ ProgressInv
<1> SUFFICES ASSUME Init PROVE TypeOK /\ ProgressInv
  OBVIOUS
<1>1. TypeOK
  <2>1. /\ alive = FALSE /\ totalCount = 0 /\ barLength = 0 /\ claimed = 0
        /\ progressCount = 0 /\ percentOf = 0 /\ holder = NoWorker
        /\ newlines = 0
    BY DEF Init
  <2>2. bar \in [(IF alive THEN 0 .. barLength - 1 ELSE {}) -> {"-", "#"}]
    <3>1. bar \in [{} -> {"-", "#"}]
      BY DEF Init
    <3> QED BY <2>1, <3>1
  <2>3. pc \in [Workers -> {"out", "lock", "count", "store", "paint", "dump",
                            "unlock"}]
    BY DEF Init
  <2>4. amount \in [Workers -> 0 .. totalCount]
    BY <2>1 DEF Init
  <2>5. local \in [Workers -> [count : 0 .. totalCount, from : 0 .. barLength,
                               to : 0 .. barLength]]
    BY <2>1 DEF Init, Nothing
  <2>6. alive \in BOOLEAN
    BY <2>1
  <2>7. /\ claimed \in 0 .. totalCount /\ progressCount \in 0 .. totalCount
        /\ percentOf \in 0 .. totalCount /\ newlines \in Nat
    BY <2>1
  <2> QED BY <2>1, <2>2, <2>3, <2>4, <2>5, <2>6, <2>7 DEF TypeOK
<1>2. BarIsBuilt /\ NothingToKeep /\ LocalsFollow
  BY DEF Init, BarIsBuilt, NothingToKeep, Quiet, LocalsFollow
<1>3. LockIsHeld
  BY ProgressAssumption DEF Init, LockIsHeld, InSection
<1>4. AddsAddUp
  <2>1. Pending = {} /\ claimed = 0 /\ progressCount = 0
    BY DEF Init, Pending
  <2> QED BY <2>1, FS_EmptySet DEF AddsAddUp
<1>5. PercentFollows /\ BarFollows
  BY DEF Init, PercentFollows, BarFollows
<1>6. LineFollows /\ LinesAreConsistent
  BY DEF Init, LineFollows, LinesAreConsistent, NoLine
<1> QED BY <1>1, <1>2, <1>3, <1>4, <1>5, <1>6 DEF ProgressInv

(* A bar is built: every count starts at nothing.                           *)
LEMMA ConstructKeeps ==
  ASSUME TypeOK, ProgressInv, NEW total \in Totals, NEW columns \in Terminals,
         Construct(total, columns)
  PROVE  TypeOK' /\ ProgressInv'
<1>1. total \in Nat \ {0} /\ columns \in Nat
  BY ProgressAssumption
<1>2. /\ ~alive /\ alive' = TRUE /\ totalCount' = total
      /\ barLength' \in 10 .. 160
      /\ bar' = [i \in 0 .. barLength' - 1 |-> "-"]
      /\ progressCount' = 0 /\ percentOf' = 0 /\ claimed' = 0
      /\ printed' = NoLine /\ newlines' = 0
      /\ holder' = holder /\ pc' = pc /\ amount' = amount /\ local' = local
  BY <1>1, BarLengthBound DEF Construct, threadVars
<1>3. \A t \in Workers : pc[t] = "out" /\ amount[t] = 0 /\ local[t] = Nothing
  BY <1>2 DEF ProgressInv, NothingToKeep, Quiet, LocalsFollow, TypeOK
<1>4. TypeOK'
  <2>1. amount' \in [Workers -> 0 .. totalCount']
    BY <1>1, <1>2, <1>3 DEF TypeOK
  <2>2. local' \in [Workers -> [count : 0 .. totalCount', from : 0 .. barLength',
                                to : 0 .. barLength']]
    BY <1>1, <1>2, <1>3 DEF TypeOK, Nothing
  <2> QED BY <1>1, <1>2, <2>1, <2>2 DEF TypeOK
<1>5. BarIsBuilt' /\ NothingToKeep' /\ LocalsFollow' /\ LockIsHeld'
  BY <1>1, <1>2, <1>3 DEF ProgressInv, BarIsBuilt, NothingToKeep, LocalsFollow,
                          LockIsHeld, InSection
<1>6. AddsAddUp'
  <2>1. Pending' = {}
    BY <1>2, <1>3 DEF Pending
  <2> QED BY <1>2, <2>1, FS_EmptySet DEF AddsAddUp
<1>7. Filled(0)' = 0
  BY <1>1, <1>2, CellsAtEnd DEF Filled
<1>8. PercentFollows' /\ BarFollows'
  <2>1. PercentFollows'
    BY <1>2, <1>3 DEF PercentFollows
  <2>2. DOMAIN bar' = 0 .. barLength' - 1 /\ \A i \in DOMAIN bar' : bar'[i] = "-"
    BY <1>2
  <2>3. Filled(progressCount)' = 0
    BY <1>2, <1>7 DEF Filled
  <2>4. BarFollows'
    BY <1>2, <2>2, <2>3 DEF BarFollows
  <2> QED BY <2>1, <2>4
<1>9. LineFollows' /\ LinesAreConsistent'
  BY <1>1, <1>2, <1>3, <1>7 DEF LineFollows, LinesAreConsistent, NoLine, Filled
<1> QED BY <1>4, <1>5, <1>6, <1>8, <1>9 DEF ProgressInv

(* A thread that moves outside the steps that touch the count, the bar and  *)
(* the line leaves what is said of them as it is.                           *)
LEMMA OutputUndisturbed ==
  ASSUME TypeOK, ProgressInv, NEW t \in Workers, NEW new,
         barVars' = barVars, bar' = bar, progressCount' = progressCount,
         percentOf' = percentOf, local' = local, outVars' = outVars,
         pc' = [pc EXCEPT ![t] = new],
         pc[t] \notin {"store", "paint", "dump"},
         new \notin {"store", "paint", "dump"}
  PROVE  /\ BarIsBuilt' /\ PercentFollows' /\ BarFollows' /\ LineFollows'
         /\ LinesAreConsistent'
<1>1. /\ alive' = alive /\ totalCount' = totalCount /\ barLength' = barLength
      /\ printed' = printed /\ newlines' = newlines
  BY DEF barVars, outVars
<1>2. \A u \in Workers :
        /\ (pc'[u] = "store") <=> (pc[u] = "store")
        /\ (pc'[u] = "paint") <=> (pc[u] = "paint")
        /\ (pc'[u] = "dump") <=> (pc[u] = "dump")
  BY DEF TypeOK
<1>3. BarIsBuilt' /\ LinesAreConsistent'
  BY <1>1 DEF ProgressInv, BarIsBuilt, LinesAreConsistent
<1>4. PercentFollows'
  BY <1>2 DEF ProgressInv, PercentFollows
<1>5. BarFollows'
  BY <1>1, <1>2 DEF ProgressInv, BarFollows, Filled
<1>6. LineFollows'
  <2>1. (\E u \in Workers : pc'[u] \in {"paint", "dump"})
          <=> (\E u \in Workers : pc[u] \in {"paint", "dump"})
    BY <1>2
  <2> QED BY <1>1, <2>1 DEF ProgressInv, LineFollows, Filled
<1> QED BY <1>3, <1>4, <1>5, <1>6

(* addProgress is called: its items are owed.                               *)
LEMMA BeginAddKeeps ==
  ASSUME TypeOK, ProgressInv, NEW t \in Workers, NEW n \in 1 .. totalCount,
         BeginAdd(t, n)
  PROVE  TypeOK' /\ ProgressInv'
<1>1. /\ alive /\ pc[t] = "out" /\ claimed + n <= totalCount
      /\ claimed' = claimed + n
      /\ amount' = [amount EXCEPT ![t] = n]
      /\ pc' = [pc EXCEPT ![t] = "lock"]
      /\ barVars' = barVars /\ bar' = bar /\ progressCount' = progressCount
      /\ percentOf' = percentOf /\ holder' = holder /\ local' = local
      /\ outVars' = outVars
  BY DEF BeginAdd
<1>2. /\ alive' = alive /\ totalCount' = totalCount /\ barLength' = barLength
      /\ printed' = printed /\ newlines' = newlines
  BY <1>1 DEF barVars, outVars
<1>3. /\ totalCount \in Nat /\ claimed \in Nat /\ n \in Nat \ {0}
      /\ progressCount \in Nat
  BY <1>1, FilledFacts DEF TypeOK, ProgressInv, BarIsBuilt
<1>4. TypeOK'
  <2>1. amount' \in [Workers -> 0 .. totalCount]
    BY <1>1, <1>3 DEF TypeOK
  <2>2. pc' \in [Workers -> {"out", "lock", "count", "store", "paint", "dump",
                             "unlock"}]
    BY <1>1 DEF TypeOK
  <2>3. claimed' \in 0 .. totalCount
    BY <1>1, <1>3
  <2> QED BY <1>1, <1>2, <2>1, <2>2, <2>3 DEF TypeOK
<1>5. \A u \in Workers : u # t => pc'[u] = pc[u] /\ amount'[u] = amount[u]
  BY <1>1 DEF TypeOK
<1>6. pc'[t] = "lock" /\ amount'[t] = n
  BY <1>1 DEF TypeOK
<1>7. NothingToKeep'
  BY <1>1, <1>2 DEF NothingToKeep
<1>8. LockIsHeld'
  BY <1>1, <1>5, <1>6 DEF ProgressInv, LockIsHeld, InSection
<1>9. LocalsFollow'
  BY <1>1, <1>2, <1>3, <1>5, <1>6 DEF ProgressInv, LocalsFollow, Filled
<1>10. AddsAddUp'
  <2> DEFINE new == {t} \X (1 .. n)
  <2>1. Pending' = Pending \union new
    BY <1>1, <1>2, <1>3, <1>5, <1>6 DEF Pending
  <2>2. Pending \cap new = {}
    BY <1>1 DEF Pending
  <2>3. IsFiniteSet(new) /\ Cardinality(new) = n
    BY <1>3, CountPairs
  <2>4. IsFiniteSet(Pending) /\ claimed = progressCount + Cardinality(Pending)
    BY DEF ProgressInv, AddsAddUp
  <2> HIDE DEF new
  <2>5. /\ IsFiniteSet(Pending')
        /\ Cardinality(Pending') = Cardinality(Pending) + n
    <3>1. /\ IsFiniteSet(Pending \union new)
          /\ Cardinality(Pending \union new) =
               Cardinality(Pending) + Cardinality(new)
                 - Cardinality(Pending \cap new)
      BY <2>3, <2>4, FS_Union
    <3>2. Cardinality(Pending) \in Nat
      BY <2>4, FS_CardinalityType
    <3>3. Cardinality(Pending \cap new) = 0
      BY <2>2, FS_EmptySet
    <3> QED BY <1>3, <2>1, <2>3, <3>1, <3>2, <3>3
  <2> QED BY <1>1, <1>3, <2>4, <2>5, FS_CardinalityType DEF AddsAddUp
<1>11. /\ BarIsBuilt' /\ PercentFollows' /\ BarFollows' /\ LineFollows'
       /\ LinesAreConsistent'
  BY <1>1, OutputUndisturbed
<1> QED BY <1>4, <1>7, <1>8, <1>9, <1>10, <1>11 DEF ProgressInv

(* The thread that gets the lock is alone in the section.                   *)
LEMMA LockKeeps ==
  ASSUME TypeOK, ProgressInv, NEW t \in Workers, Lock(t)
  PROVE  TypeOK' /\ ProgressInv'
<1>1. /\ pc[t] = "lock" /\ holder = NoWorker /\ holder' = t
      /\ pc' = [pc EXCEPT ![t] = "count"]
      /\ barVars' = barVars /\ bar' = bar /\ progressCount' = progressCount
      /\ percentOf' = percentOf /\ amount' = amount /\ local' = local
      /\ claimed' = claimed /\ outVars' = outVars
  BY DEF Lock, MayLock
<1>2. /\ alive' = alive /\ totalCount' = totalCount /\ barLength' = barLength
      /\ printed' = printed /\ newlines' = newlines /\ alive
  BY <1>1, InsideFacts DEF barVars, outVars
<1>3. pc'[t] = "count" /\ \A u \in Workers : u # t => pc'[u] = pc[u]
  BY <1>1 DEF TypeOK
<1>4. TypeOK'
  <2>1. pc' \in [Workers -> {"out", "lock", "count", "store", "paint", "dump",
                             "unlock"}]
    BY <1>1 DEF TypeOK
  <2> QED BY <1>1, <1>2, <2>1 DEF TypeOK
<1>5. NothingToKeep'
  BY <1>2 DEF NothingToKeep
<1>6. LockIsHeld'
  BY <1>1, <1>3, ProgressAssumption DEF ProgressInv, LockIsHeld, InSection
<1>7. LocalsFollow'
  BY <1>1, <1>2, <1>3 DEF ProgressInv, LocalsFollow, Filled
<1>8. AddsAddUp'
  <2>1. Pending' = Pending
    BY <1>1, <1>2, <1>3 DEF Pending
  <2> QED BY <1>1, <2>1 DEF ProgressInv, AddsAddUp
<1>9. /\ BarIsBuilt' /\ PercentFollows' /\ BarFollows' /\ LineFollows'
      /\ LinesAreConsistent'
  BY <1>1, OutputUndisturbed
<1> QED BY <1>4, <1>5, <1>6, <1>7, <1>8, <1>9 DEF ProgressInv

(* The new count and the cells are computed from the count as it is: no     *)
(* other thread can change it before this one stores it.                    *)
LEMMA CountKeeps ==
  ASSUME TypeOK, ProgressInv, NEW t \in Workers, Count(t)
  PROVE  TypeOK' /\ ProgressInv'
<1> DEFINE new == progressCount + amount[t]
           l   == [count |-> new, from |-> Filled(progressCount),
                   to |-> Filled(new)]
<1>1. /\ pc[t] = "count"
      /\ local' = [local EXCEPT ![t] = l]
      /\ percentOf' = new
      /\ pc' = [pc EXCEPT ![t] = "store"]
      /\ barVars' = barVars /\ bar' = bar /\ progressCount' = progressCount
      /\ holder' = holder /\ amount' = amount /\ claimed' = claimed
      /\ outVars' = outVars
  BY DEF Count, PercentOf
<1>2. /\ alive' = alive /\ totalCount' = totalCount /\ barLength' = barLength
      /\ printed' = printed /\ newlines' = newlines
      /\ alive /\ totalCount > 0
  BY <1>1, InsideFacts DEF barVars, outVars
<1>3. /\ new \in 0 .. totalCount /\ progressCount \in 0 .. totalCount
      /\ Filled(progressCount) \in 0 .. barLength
      /\ Filled(new) \in 0 .. barLength
  BY <1>1, <1>2, OwedIsPending, FilledFacts DEF TypeOK
<1>4. pc'[t] = "store" /\ \A u \in Workers : u # t => pc'[u] = pc[u]
  BY <1>1 DEF TypeOK
<1>5. local'[t] = l /\ \A u \in Workers : u # t => local'[u] = local[u]
  BY <1>1 DEF TypeOK
<1>6. \A u \in Workers : u # t => ~InSection(u)
  BY <1>1, OneInSection DEF InSection
<1>7. l.count = new /\ l.from = Filled(progressCount) /\ l.to = Filled(new)
  OBVIOUS
<1>8. TypeOK'
  <2>1. pc' \in [Workers -> {"out", "lock", "count", "store", "paint", "dump",
                             "unlock"}]
    BY <1>1 DEF TypeOK
  <2>2. l \in [count : 0 .. totalCount, from : 0 .. barLength,
               to : 0 .. barLength]
    BY <1>3
  <2> HIDE DEF l
  <2>3. local' \in [Workers -> [count : 0 .. totalCount, from : 0 .. barLength,
                                to : 0 .. barLength]]
    BY <1>1, <2>2 DEF TypeOK
  <2> HIDE DEF new
  <2> QED BY <1>1, <1>2, <1>3, <2>1, <2>3 DEF TypeOK
<1>9. NothingToKeep' /\ BarIsBuilt'
  BY <1>2 DEF NothingToKeep, ProgressInv, BarIsBuilt
<1>10. LockIsHeld'
  BY <1>1, <1>4 DEF ProgressInv, LockIsHeld, InSection
<1>11. LocalsFollow'
  BY <1>1, <1>2, <1>4, <1>5, <1>6
     DEF ProgressInv, LocalsFollow, Filled, InSection
<1>12. AddsAddUp'
  <2>1. Pending' = Pending
    BY <1>1, <1>2, <1>4 DEF Pending
  <2> QED BY <1>1, <2>1 DEF ProgressInv, AddsAddUp
<1>13. PercentFollows'
  BY <1>1, <1>4, <1>5, <1>6, <1>7 DEF PercentFollows, InSection
<1>14. BarFollows'
  BY <1>1, <1>2, <1>4, <1>5 DEF ProgressInv, BarFollows, Filled
<1>15. LineFollows' /\ LinesAreConsistent'
  <2>1. (\E u \in Workers : pc'[u] \in {"paint", "dump"})
          <=> (\E u \in Workers : pc[u] \in {"paint", "dump"})
    BY <1>1, <1>4
  <2> QED BY <1>1, <1>2, <2>1
          DEF ProgressInv, LineFollows, LinesAreConsistent, Filled
<1> QED BY <1>8, <1>9, <1>10, <1>11, <1>12, <1>13, <1>14, <1>15 DEF ProgressInv

(* The store pays what the thread owed.                                     *)
LEMMA StoreKeeps ==
  ASSUME TypeOK, ProgressInv, NEW t \in Workers, Store(t)
  PROVE  TypeOK' /\ ProgressInv'
<1> DEFINE new  == progressCount + amount[t]
           next == IF WorthPainting(local[t]) THEN "paint" ELSE "unlock"
<1>1. /\ pc[t] = "store"
      /\ progressCount' = local[t].count
      /\ pc' = [pc EXCEPT ![t] = next]
      /\ barVars' = barVars /\ bar' = bar /\ percentOf' = percentOf
      /\ holder' = holder /\ amount' = amount /\ local' = local
      /\ claimed' = claimed /\ outVars' = outVars
  BY DEF Store
<1>2. /\ alive' = alive /\ totalCount' = totalCount /\ barLength' = barLength
      /\ printed' = printed /\ newlines' = newlines
      /\ alive /\ totalCount > 0 /\ amount[t] \in Nat \ {0}
  BY <1>1, InsideFacts DEF barVars, outVars
<1>3. /\ local[t].count = new /\ local[t].from = Filled(progressCount)
      /\ local[t].to = Filled(new) /\ percentOf = new
  <2>1. local[t] = [count |-> new, from |-> Filled(progressCount),
                    to |-> Filled(new)]
    BY <1>1 DEF ProgressInv, LocalsFollow
  <2>2. percentOf = local[t].count
    BY <1>1 DEF ProgressInv, PercentFollows
  <2> HIDE DEF new
  <2> QED BY <2>1, <2>2
<1>4. /\ new \in 0 .. totalCount /\ progressCount \in 0 .. totalCount
      /\ Filled(progressCount) \in 0 .. barLength
      /\ Filled(new) \in 0 .. barLength
      /\ Filled(progressCount) <= Filled(new) /\ progressCount < new
  <2>1. new \in 0 .. totalCount /\ progressCount \in 0 .. totalCount
    BY <1>1, OwedIsPending DEF TypeOK
  <2>2. progressCount < new
    BY <1>2, <2>1
  <2> HIDE DEF new
  <2> QED BY <1>2, <2>1, <2>2, FilledFacts
<1>5. /\ next \in {"paint", "unlock"}
      /\ (next = "paint") <=> (Filled(new) > Filled(progressCount))
  BY <1>3 DEF WorthPainting
<1> HIDE DEF next
<1>6. pc'[t] = next /\ \A u \in Workers : u # t => pc'[u] = pc[u]
  BY <1>1 DEF TypeOK
<1>7. \A u \in Workers : u # t => ~InSection(u)
  BY <1>1, OneInSection DEF InSection
<1>8. progressCount' = new
  BY <1>1, <1>3
<1>9. TypeOK'
  <2>1. pc' \in [Workers -> {"out", "lock", "count", "store", "paint", "dump",
                             "unlock"}]
    BY <1>1, <1>5 DEF TypeOK
  <2> HIDE DEF new
  <2> QED BY <1>1, <1>2, <1>4, <1>8, <2>1 DEF TypeOK
<1>10. NothingToKeep' /\ BarIsBuilt'
  BY <1>2 DEF NothingToKeep, ProgressInv, BarIsBuilt
<1>11. LockIsHeld'
  BY <1>1, <1>5, <1>6 DEF ProgressInv, LockIsHeld, InSection
<1>12. Filled(progressCount)' = Filled(new)
  BY <1>2, <1>8 DEF Filled
<1>13. LocalsFollow'
  <2>1. ASSUME NEW u \in Workers, u # t
        PROVE  /\ pc'[u] \notin {"store", "paint", "dump"}
               /\ (pc'[u] = "out") <=> (amount'[u] = 0)
               /\ pc'[u] = "out" => local'[u] = Nothing
    BY <1>1, <1>6, <1>7, <2>1 DEF InSection, ProgressInv, LocalsFollow
  <2>2. /\ pc'[t] \in {"paint", "unlock"} /\ amount'[t] # 0
        /\ pc'[t] = "paint" =>
             /\ local'[t].count = progressCount'
             /\ local'[t].to = Filled(progressCount)'
             /\ local'[t].from < local'[t].to
    BY <1>1, <1>2, <1>3, <1>4, <1>5, <1>6, <1>8, <1>12
  <2> QED BY <2>1, <2>2 DEF LocalsFollow
<1>14. AddsAddUp'
  <2> DEFINE paid == {t} \X (1 .. amount[t])
  <2>1. Pending' = Pending \ paid
    BY <1>1, <1>2, <1>5, <1>6 DEF Pending
  <2>2. /\ paid \subseteq Pending /\ IsFiniteSet(Pending)
        /\ Cardinality(Pending) \in Nat /\ Cardinality(paid) = amount[t]
        /\ IsFiniteSet(paid)
    BY <1>1, OwedIsPending
  <2> HIDE DEF paid
  <2>3. /\ IsFiniteSet(Pending \ paid)
        /\ Cardinality(Pending \ paid) =
             Cardinality(Pending) - Cardinality(Pending \cap paid)
    BY <2>2, FS_Difference
  <2>4. Pending \cap paid = paid
    BY <2>2
  <2>5. claimed = progressCount + Cardinality(Pending)
    BY DEF ProgressInv, AddsAddUp
  <2>6. IsFiniteSet(Pending') /\ Cardinality(Pending')
                                   = Cardinality(Pending) - amount[t]
    BY <2>1, <2>2, <2>3, <2>4
  <2>7. progressCount + Cardinality(Pending)
          = (progressCount + amount[t]) + (Cardinality(Pending) - amount[t])
    BY <1>2, <1>4, <2>2
  <2> QED BY <1>1, <1>8, <2>5, <2>6, <2>7 DEF AddsAddUp
<1>15. PercentFollows'
  BY <1>1, <1>3, <1>5, <1>6, <1>7, <1>8 DEF PercentFollows, InSection
<1>16. BarFollows'
  <2>1. \A i \in DOMAIN bar : (bar[i] = "#") <=> i < Filled(progressCount)
    BY <1>1, <1>7 DEF ProgressInv, BarFollows, InSection
  <2>2. DOMAIN bar \subseteq Int
    <3>1. DOMAIN bar = 0 .. barLength - 1
      BY <1>1, InsideFacts
    <3> QED BY <3>1
  <2>3. \A u \in Workers : pc'[u] = "paint" => u = t
    BY <1>6, <1>7 DEF InSection
  <2> QED BY <1>1, <1>3, <1>4, <1>5, <1>6, <1>12, <2>1, <2>2, <2>3
          DEF BarFollows
<1>17. LineFollows'
  <2>1. \A u \in Workers : pc[u] \notin {"paint", "dump"}
    BY <1>1, <1>7 DEF InSection
  <2>2. (\E u \in Workers : pc'[u] \in {"paint", "dump"}) <=> next = "paint"
    BY <1>5, <1>6, <1>7 DEF InSection
  <2>3. /\ Filled(printed.count) = Filled(progressCount)
        /\ printed \in [full : 0 .. barLength, count : 0 .. progressCount,
                        percentOf : 0 .. totalCount]
        /\ newlines = IF printed.count = totalCount /\ totalCount > 0
                      THEN 1 ELSE 0
        /\ (printed.count = 0) <=> (printed = NoLine)
    BY <1>2, <2>1 DEF ProgressInv, LineFollows
  <2>4. printed.count \in 0 .. progressCount
    BY <2>3
  <2>5. printed \in [full : 0 .. barLength, count : 0 .. new,
                     percentOf : 0 .. totalCount]
    BY <1>4, <2>3
  <2>6. Filled(printed.count)' = Filled(printed.count)
    BY <1>2 DEF Filled
  <2>7. next # "paint" => Filled(printed.count)' = Filled(progressCount)'
    BY <1>4, <1>5, <1>12, <2>3, <2>6
  <2> HIDE DEF new
  <2> QED BY <1>1, <1>2, <1>4, <1>8, <2>2, <2>3, <2>4, <2>5, <2>7
          DEF LineFollows
<1>18. LinesAreConsistent'
  BY <1>2 DEF ProgressInv, LinesAreConsistent
<1> QED BY <1>9, <1>10, <1>11, <1>13, <1>14, <1>15, <1>16, <1>17, <1>18
        DEF ProgressInv

(* Where a thread that paints or prints stands.                             *)
LEMMA PaintFacts ==
  ASSUME TypeOK, ProgressInv, NEW t \in Workers, pc[t] \in {"paint", "dump"}
  PROVE  /\ progressCount \in 1 .. totalCount /\ amount[t] # 0
         /\ barLength \in 10 .. 160
         /\ Filled(progressCount) \in 0 .. barLength
         /\ local[t].count = progressCount
         /\ local[t].to = Filled(progressCount)
         /\ local[t].from \in 0 .. barLength /\ local[t].from < local[t].to
         /\ percentOf = progressCount
         /\ printed.count \in 0 .. progressCount
         /\ printed.count < progressCount
         /\ \A u \in Workers : u # t => ~InSection(u)
<1>1. /\ alive /\ totalCount > 0 /\ amount[t] # 0 /\ totalCount \in Nat
  BY InsideFacts
<1>2. progressCount \in 0 .. totalCount /\ local[t].from \in 0 .. barLength
  BY DEF TypeOK
<1>3. Filled(progressCount) \in 0 .. barLength /\ barLength \in 10 .. 160
  BY <1>1, <1>2, FilledFacts
<1>4. /\ local[t].count = progressCount
      /\ local[t].to = Filled(progressCount)
      /\ local[t].from < local[t].to
  BY DEF ProgressInv, LocalsFollow
<1>5. \A u \in Workers : u # t => ~InSection(u)
  BY OneInSection DEF InSection
<1>6. percentOf = progressCount
  BY <1>5 DEF ProgressInv, PercentFollows, InSection
<1>7. printed.count \in 0 .. progressCount /\ printed.count < progressCount
  BY <1>1 DEF ProgressInv, LineFollows
<1> QED BY <1>1, <1>2, <1>3, <1>4, <1>5, <1>6, <1>7

(* Painting stays inside the buffer and leaves as many full cells as the    *)
(* count is worth.                                                          *)
LEMMA PaintKeeps ==
  ASSUME TypeOK, ProgressInv, NEW t \in Workers, Paint(t)
  PROVE  TypeOK' /\ ProgressInv'
<1> DEFINE cells == PaintCells(local[t])
<1>1. /\ pc[t] = "paint"
      /\ bar' = [i \in DOMAIN bar \union cells |->
                   IF i \in cells THEN "#" ELSE bar[i]]
      /\ pc' = [pc EXCEPT ![t] = "dump"]
      /\ barVars' = barVars /\ progressCount' = progressCount
      /\ percentOf' = percentOf /\ holder' = holder /\ amount' = amount
      /\ local' = local /\ claimed' = claimed /\ outVars' = outVars
  BY DEF Paint
<1>2. /\ alive' = alive /\ totalCount' = totalCount /\ barLength' = barLength
      /\ printed' = printed /\ newlines' = newlines /\ alive
      /\ bar \in [0 .. barLength - 1 -> {"-", "#"}]
  BY <1>1, InsideFacts DEF barVars, outVars
<1>3. /\ barLength \in 10 .. 160 /\ Filled(progressCount) \in 0 .. barLength
      /\ local[t].to = Filled(progressCount) /\ local[t].from < local[t].to
      /\ local[t].from \in 0 .. barLength
      /\ \A u \in Workers : u # t => ~InSection(u)
  BY <1>1, PaintFacts
<1>4. pc'[t] = "dump" /\ \A u \in Workers : u # t => pc'[u] = pc[u]
  BY <1>1 DEF TypeOK
<1>5. /\ DOMAIN bar = 0 .. barLength - 1
      /\ DOMAIN bar \union cells = 0 .. barLength - 1
      /\ cells = local[t].from .. Filled(progressCount) - 1
  BY <1>2, <1>3 DEF PaintCells
<1> HIDE DEF cells
<1>6. bar' \in [0 .. barLength - 1 -> {"-", "#"}]
  BY <1>1, <1>2, <1>5
<1>7. TypeOK'
  <2>1. pc' \in [Workers -> {"out", "lock", "count", "store", "paint", "dump",
                             "unlock"}]
    BY <1>1 DEF TypeOK
  <2> QED BY <1>1, <1>2, <1>6, <2>1 DEF TypeOK
<1>8. NothingToKeep' /\ BarIsBuilt'
  BY <1>2 DEF NothingToKeep, ProgressInv, BarIsBuilt
<1>9. LockIsHeld'
  BY <1>1, <1>4 DEF ProgressInv, LockIsHeld, InSection
<1>10. LocalsFollow'
  BY <1>1, <1>2, <1>4 DEF ProgressInv, LocalsFollow, Filled
<1>11. AddsAddUp'
  <2>1. Pending' = Pending
    BY <1>1, <1>2, <1>4 DEF Pending
  <2> QED BY <1>1, <2>1 DEF ProgressInv, AddsAddUp
<1>12. PercentFollows'
  BY <1>1, <1>4 DEF ProgressInv, PercentFollows
<1>13. BarFollows'
  <2>1. Filled(progressCount)' = Filled(progressCount)
    BY <1>1, <1>2 DEF Filled
  <2>2. \A u \in Workers : pc'[u] # "paint"
    BY <1>3, <1>4 DEF InSection
  <2>3. \A i \in DOMAIN bar :
          (bar[i] = "#") <=> i < Filled(progressCount) /\ i < local[t].from
    BY <1>1, <1>3 DEF ProgressInv, BarFollows, InSection
  <2>4. ASSUME NEW i \in DOMAIN bar'
        PROVE  (bar'[i] = "#") <=> i < Filled(progressCount)
    <3>1. /\ i \in 0 .. barLength - 1
          /\ bar'[i] = IF i \in cells THEN "#" ELSE bar[i]
      BY <1>1, <1>5, <2>4
    <3> QED BY <1>3, <1>5, <2>3, <3>1
  <2> QED BY <2>1, <2>2, <2>4 DEF BarFollows
<1>14. LineFollows' /\ LinesAreConsistent'
  <2>1. (\E u \in Workers : pc[u] \in {"paint", "dump"})
        /\ (\E u \in Workers : pc'[u] \in {"paint", "dump"})
    BY <1>1, <1>4
  <2> QED BY <1>1, <1>2, <2>1
          DEF ProgressInv, LineFollows, LinesAreConsistent, Filled
<1> QED BY <1>7, <1>8, <1>9, <1>10, <1>11, <1>12, <1>13, <1>14 DEF ProgressInv

(* The cells counted for the line are those the count is worth.             *)
LEMMA FullCellsAtDump ==
  ASSUME TypeOK, ProgressInv, NEW t \in Workers, pc[t] = "dump"
  PROVE  FullCells = Filled(progressCount)
<1>1. /\ barLength \in 10 .. 160 /\ Filled(progressCount) \in 0 .. barLength
      /\ \A u \in Workers : u # t => ~InSection(u)
  BY PaintFacts
<1>2. DOMAIN bar = 0 .. barLength - 1
  BY InsideFacts
<1>3. \A i \in DOMAIN bar : (bar[i] = "#") <=> i < Filled(progressCount)
  BY <1>1 DEF ProgressInv, BarFollows, InSection
<1>4. {i \in DOMAIN bar : bar[i] = "#"} = 0 .. Filled(progressCount) - 1
  <2> DEFINE n == Filled(progressCount)
  <2>1. n \in Nat /\ n <= barLength
    BY <1>1
  <2>2. \A i \in DOMAIN bar : (bar[i] = "#") <=> i < n
    BY <1>3
  <2> HIDE DEF n
  <2>3. {i \in DOMAIN bar : bar[i] = "#"} = 0 .. n - 1
    BY <1>1, <1>2, <2>1, <2>2
  <2> QED BY <2>3 DEF n
<1>5. Cardinality(0 .. Filled(progressCount) - 1) = Filled(progressCount)
  BY <1>1, CountBelow
<1> QED BY <1>4, <1>5 DEF FullCells

(* The line that is printed belongs to the count of this addition.          *)
LEMMA DumpKeeps ==
  ASSUME TypeOK, ProgressInv, NEW t \in Workers, Dump(t)
  PROVE  TypeOK' /\ ProgressInv'
<1>1. /\ pc[t] = "dump"
      /\ printed' = [full |-> FullCells, count |-> progressCount,
                     percentOf |-> percentOf]
      /\ newlines' = IF EndsLine THEN newlines + 1 ELSE newlines
      /\ pc' = [pc EXCEPT ![t] = "unlock"]
      /\ barVars' = barVars /\ bar' = bar /\ progressCount' = progressCount
      /\ percentOf' = percentOf /\ holder' = holder /\ amount' = amount
      /\ local' = local /\ claimed' = claimed
  BY DEF Dump
<1>2. /\ alive' = alive /\ totalCount' = totalCount /\ barLength' = barLength
      /\ alive /\ totalCount > 0 /\ totalCount \in Nat
  BY <1>1, InsideFacts DEF barVars
<1>3. /\ progressCount \in 1 .. totalCount /\ amount[t] # 0
      /\ Filled(progressCount) \in 0 .. barLength
      /\ percentOf = progressCount
      /\ printed.count \in 0 .. progressCount /\ printed.count < progressCount
      /\ \A u \in Workers : u # t => ~InSection(u)
  BY <1>1, PaintFacts
<1>4. pc'[t] = "unlock" /\ \A u \in Workers : u # t => pc'[u] = pc[u]
  BY <1>1 DEF TypeOK
<1>5. FullCells = Filled(progressCount)
  BY <1>1, FullCellsAtDump
<1>6. /\ printed'.full = Filled(progressCount)
      /\ printed'.count = progressCount /\ printed'.percentOf = progressCount
      /\ printed' \in [full : 0 .. barLength, count : 0 .. progressCount,
                       percentOf : 0 .. totalCount]
  <2> HIDE DEF Filled
  <2> QED BY <1>1, <1>2, <1>3, <1>5
<1>7. newlines = 0
  BY <1>2, <1>3 DEF ProgressInv, LineFollows
<1>8. newlines' = IF progressCount = totalCount THEN 1 ELSE 0
  BY <1>1, <1>7 DEF EndsLine
<1>9. TypeOK'
  <2>1. pc' \in [Workers -> {"out", "lock", "count", "store", "paint", "dump",
                             "unlock"}]
    BY <1>1 DEF TypeOK
  <2> QED BY <1>1, <1>2, <1>8, <2>1 DEF TypeOK
<1>10. NothingToKeep' /\ BarIsBuilt'
  BY <1>2 DEF NothingToKeep, ProgressInv, BarIsBuilt
<1>11. LockIsHeld'
  BY <1>1, <1>4 DEF ProgressInv, LockIsHeld, InSection
<1>12. LocalsFollow'
  BY <1>1, <1>2, <1>3, <1>4 DEF ProgressInv, LocalsFollow, Filled
<1>13. AddsAddUp'
  <2>1. Pending' = Pending
    BY <1>1, <1>2, <1>4 DEF Pending
  <2> QED BY <1>1, <2>1 DEF ProgressInv, AddsAddUp
<1>14. PercentFollows' /\ BarFollows'
  BY <1>1, <1>2, <1>4 DEF ProgressInv, PercentFollows, BarFollows, Filled
<1>15. LineFollows'
  <2>1. \A u \in Workers : pc'[u] \notin {"paint", "dump"}
    BY <1>3, <1>4 DEF InSection
  <2>2. (printed'.count = 0) <=> (printed' = NoLine)
    BY <1>3, <1>6 DEF NoLine
  <2>3. Filled(printed.count)' = Filled(progressCount)'
    BY <1>1, <1>6 DEF Filled
  <2> QED BY <1>1, <1>2, <1>6, <1>8, <2>1, <2>2, <2>3 DEF LineFollows
<1>16. LinesAreConsistent'
  BY <1>1, <1>2, <1>6 DEF LinesAreConsistent, Filled, CellsFor
<1> QED BY <1>9, <1>10, <1>11, <1>12, <1>13, <1>14, <1>15, <1>16
        DEF ProgressInv

(* Leaving the section frees the lock and the thread's locals.              *)
LEMMA UnlockKeeps ==
  ASSUME TypeOK, ProgressInv, NEW t \in Workers, Unlock(t)
  PROVE  TypeOK' /\ ProgressInv'
<1>1. /\ pc[t] = "unlock" /\ holder' = NoWorker
      /\ pc' = [pc EXCEPT ![t] = "out"]
      /\ amount' = [amount EXCEPT ![t] = 0]
      /\ local' = [local EXCEPT ![t] = Nothing]
      /\ barVars' = barVars /\ bar' = bar /\ progressCount' = progressCount
      /\ percentOf' = percentOf /\ claimed' = claimed /\ outVars' = outVars
  BY DEF Unlock, AfterUnlock
<1>2. /\ alive' = alive /\ totalCount' = totalCount /\ barLength' = barLength
      /\ printed' = printed /\ newlines' = newlines
      /\ alive /\ totalCount > 0 /\ totalCount \in Nat
  BY <1>1, InsideFacts DEF barVars, outVars
<1>3. barLength \in Nat
  BY <1>2, FilledFacts
<1>4. pc'[t] = "out" /\ \A u \in Workers : u # t => pc'[u] = pc[u]
  BY <1>1 DEF TypeOK
<1>5. /\ amount'[t] = 0 /\ local'[t] = Nothing
      /\ \A u \in Workers : u # t =>
           amount'[u] = amount[u] /\ local'[u] = local[u]
  BY <1>1 DEF TypeOK
<1>6. \A u \in Workers : u # t => ~InSection(u)
  BY <1>1, OneInSection DEF InSection
<1>7. TypeOK'
  <2>1. pc' \in [Workers -> {"out", "lock", "count", "store", "paint", "dump",
                             "unlock"}]
    BY <1>1 DEF TypeOK
  <2>2. amount' \in [Workers -> 0 .. totalCount]
    BY <1>1, <1>2 DEF TypeOK
  <2>3. local' \in [Workers -> [count : 0 .. totalCount, from : 0 .. barLength,
                                to : 0 .. barLength]]
    BY <1>1, <1>2, <1>3 DEF TypeOK, Nothing
  <2> QED BY <1>1, <1>2, <2>1, <2>2, <2>3 DEF TypeOK
<1>8. NothingToKeep' /\ BarIsBuilt'
  BY <1>2 DEF NothingToKeep, ProgressInv, BarIsBuilt
<1>9. LockIsHeld'
  BY <1>1, <1>4, <1>6, ProgressAssumption DEF LockIsHeld, InSection
<1>10. LocalsFollow'
  BY <1>1, <1>2, <1>4, <1>5 DEF ProgressInv, LocalsFollow, Filled
<1>11. AddsAddUp'
  <2>1. Pending' = Pending
    BY <1>1, <1>2, <1>4, <1>5 DEF Pending
  <2> QED BY <1>1, <2>1 DEF ProgressInv, AddsAddUp
<1>12. PercentFollows'
  BY <1>1, <1>4, <1>5 DEF ProgressInv, PercentFollows
<1>13. BarFollows'
  BY <1>1, <1>2, <1>4, <1>5 DEF ProgressInv, BarFollows, Filled
<1>14. LineFollows' /\ LinesAreConsistent'
  <2>1. (\E u \in Workers : pc'[u] \in {"paint", "dump"})
          <=> (\E u \in Workers : pc[u] \in {"paint", "dump"})
    BY <1>1, <1>4
  <2> QED BY <1>1, <1>2, <2>1
          DEF ProgressInv, LineFollows, LinesAreConsistent, Filled
<1> QED BY <1>7, <1>8, <1>9, <1>10, <1>11, <1>12, <1>13, <1>14 DEF ProgressInv

(* A bar is destroyed when no thread is inside addProgress.                 *)
LEMMA DestroyKeeps ==
  ASSUME TypeOK, ProgressInv, Destroy
  PROVE  TypeOK' /\ ProgressInv'
<1>1. /\ alive' = FALSE /\ bar' = <<>> /\ Quiet
      /\ totalCount' = totalCount /\ barLength' = barLength
      /\ progressCount' = progressCount /\ percentOf' = percentOf
      /\ holder' = holder /\ pc' = pc /\ amount' = amount /\ local' = local
      /\ claimed' = claimed /\ printed' = printed /\ newlines' = newlines
  BY DEF Destroy, threadVars, outVars, Quiet
<1>2. TypeOK'
  <2>1. bar' \in [(IF alive' THEN 0 .. barLength' - 1 ELSE {}) -> {"-", "#"}]
    <3>1. <<>> \in [{} -> {"-", "#"}]
      OBVIOUS
    <3> QED BY <1>1, <3>1
  <2>2. alive' \in BOOLEAN
    BY <1>1
  <2> QED BY <1>1, <2>1, <2>2 DEF TypeOK
<1>3. NothingToKeep' /\ LockIsHeld' /\ LocalsFollow' /\ PercentFollows'
  BY <1>1 DEF ProgressInv, NothingToKeep, Quiet, LockIsHeld, InSection,
              LocalsFollow, PercentFollows, Filled
<1>4. AddsAddUp'
  <2>1. Pending' = Pending
    BY <1>1 DEF Pending
  <2> QED BY <1>1, <2>1 DEF ProgressInv, AddsAddUp
<1>5. BarFollows'
  BY <1>1 DEF BarFollows
<1>6. BarIsBuilt' /\ LineFollows' /\ LinesAreConsistent'
  BY <1>1 DEF ProgressInv, BarIsBuilt, LineFollows, LinesAreConsistent
<1> QED BY <1>2, <1>3, <1>4, <1>5, <1>6 DEF ProgressInv

LEMMA StutterKeeps ==
  ASSUME TypeOK, ProgressInv, UNCHANGED vars
  PROVE  TypeOK' /\ ProgressInv'
<1>1. /\ alive' = alive /\ bar' = bar
      /\ totalCount' = totalCount /\ barLength' = barLength
      /\ progressCount' = progressCount /\ percentOf' = percentOf
      /\ holder' = holder /\ pc' = pc /\ amount' = amount /\ local' = local
      /\ claimed' = claimed /\ printed' = printed /\ newlines' = newlines
  BY DEF vars, barVars, threadVars, outVars
<1>2. TypeOK'
  BY <1>1 DEF TypeOK
<1>3. Pending' = Pending
  BY <1>1 DEF Pending
<1> QED BY <1>1, <1>2, <1>3
        DEF ProgressInv, BarIsBuilt, NothingToKeep, Quiet, LockIsHeld,
            InSection, AddsAddUp, LocalsFollow, PercentFollows, BarFollows,
            LineFollows, LinesAreConsistent, Filled

-----------------------------------------------------------------------------
(* Every step keeps the type and the invariant. *)
LEMMA NextKeeps ==
  TypeOK /\ ProgressInv /\ [Next]_vars => TypeOK' /\ ProgressInv'
<1> SUFFICES ASSUME TypeOK, ProgressInv, [Next]_vars
             PROVE  TypeOK' /\ ProgressInv'
  OBVIOUS
<1>1. ASSUME NEW total \in Totals, NEW columns \in Terminals,
             Construct(total, columns)
      PROVE  TypeOK' /\ ProgressInv'
  BY <1>1, ConstructKeeps
<1>2. CASE Destroy
  BY <1>2, DestroyKeeps
<1>3. ASSUME NEW t \in Workers, NEW n \in 1 .. totalCount, BeginAdd(t, n)
      PROVE  TypeOK' /\ ProgressInv'
  BY <1>3, BeginAddKeeps
<1>4. ASSUME NEW t \in Workers, AddStep(t)
      PROVE  TypeOK' /\ ProgressInv'
  BY <1>4, LockKeeps, CountKeeps, StoreKeeps, PaintKeeps, DumpKeeps,
     UnlockKeeps DEF AddStep
<1>5. CASE UNCHANGED vars
  BY <1>5, StutterKeeps
<1> QED BY <1>1, <1>2, <1>3, <1>4, <1>5 DEF Next

(* The variables of the bar keep their types: no cell outside the buffer of *)
(* the constructor is painted, and no count exceeds the total.              *)
THEOREM ProgressTypeCorrect == Spec => []TypeOK
<1> QED BY InitKeeps, NextKeeps, PTL DEF Spec

(* The mutex serialises the steps of addProgress: what a thread computed    *)
(* from the count still holds when it stores, paints and prints.            *)
THEOREM ProgressInvariant == Spec => []ProgressInv
<1> QED BY InitKeeps, NextKeeps, PTL DEF Spec

(* With no thread inside there is nothing owed.                             *)
LEMMA InvGivesNoLoss == TypeOK /\ ProgressInv => NoLostProgress
<1> SUFFICES ASSUME TypeOK, ProgressInv, Quiet
             PROVE  progressCount = claimed
  BY DEF NoLostProgress
<1>1. Pending = {}
  BY DEF Quiet, Pending
<1>2. Cardinality(Pending) = 0
  BY <1>1, FS_EmptySet
<1> QED BY <1>2 DEF TypeOK, ProgressInv, AddsAddUp

(* No addition of any thread is lost.                                       *)
THEOREM NoLostProgressHolds == Spec => []NoLostProgress
<1> QED BY InitKeeps, NextKeeps, InvGivesNoLoss, PTL DEF Spec

(* With the lock free no cell is left to paint.                             *)
LEMMA InvGivesBar == TypeOK /\ ProgressInv => BarMatchesCount
<1> SUFFICES ASSUME TypeOK, ProgressInv, alive, holder = NoWorker,
                    NEW i \in DOMAIN bar
             PROVE  (bar[i] = "#") <=>
                      i < (progressCount * barLength) \div totalCount
  BY DEF BarMatchesCount
<1>1. \A t \in Workers : ~InSection(t)
  BY ProgressAssumption DEF ProgressInv, LockIsHeld
<1>2. (bar[i] = "#") <=> i < Filled(progressCount)
  BY <1>1 DEF ProgressInv, BarFollows, InSection
<1> QED BY <1>2 DEF Filled, CellsFor

(* However the additions fall between cells, the bar shows the count.       *)
THEOREM BarMatchesCountHolds == Spec => []BarMatchesCount
<1> QED BY InitKeeps, NextKeeps, InvGivesBar, PTL DEF Spec

(* No printed line mixes the numbers of two additions.                      *)
THEOREM LinesAreConsistentHolds == Spec => []LinesAreConsistent
<1>1. ProgressInv => LinesAreConsistent
  BY DEF ProgressInv
<1> QED BY <1>1, InitKeeps, NextKeeps, PTL DEF Spec

(* The line as full as the bar, at the full count, is the line of the full  *)
(* count: no smaller count is worth every cell.                             *)
LEMMA InvGivesFinalLine == TypeOK /\ ProgressInv => FinalLineOnce
<1> SUFFICES ASSUME TypeOK, ProgressInv
             PROVE  FinalLineOnce
  OBVIOUS
<1>1. newlines \in {0, 1}
  BY DEF ProgressInv, LineFollows
<1>2. ASSUME alive, Quiet
      PROVE  newlines = 1 <=> progressCount = totalCount
  <2>1. totalCount > 0 /\ totalCount \in Nat
    BY <1>2, ProgressAssumption DEF ProgressInv, BarIsBuilt, TypeOK
  <2>2. /\ printed.count \in 0 .. progressCount
        /\ progressCount \in 0 .. totalCount
        /\ newlines = IF printed.count = totalCount THEN 1 ELSE 0
    BY <2>1 DEF ProgressInv, LineFollows, TypeOK
  <2>3. Filled(printed.count) = Filled(progressCount)
    BY <1>2 DEF ProgressInv, LineFollows, Quiet
  <2>4. printed.count \in 0 .. totalCount
    BY <2>1, <2>2
  <2>5. /\ Filled(printed.count) = barLength <=> printed.count = totalCount
        /\ Filled(progressCount) = barLength <=> progressCount = totalCount
    BY <2>1, <2>2, <2>4, FilledFacts
  <2> QED BY <2>2, <2>3, <2>5
<1> QED BY <1>1, <1>2 DEF FinalLineOnce

(* The last addition prints the full line, and only it ends the line.       *)
THEOREM FinalLineOnceHolds == Spec => []FinalLineOnce
<1> QED BY InitKeeps, NextKeeps, InvGivesFinalLine, PTL DEF Spec

(* Only dumpProgress prints, and what it prints is newer.                   *)
LEMMA StepAdvances ==
  TypeOK /\ ProgressInv /\ [Next]_vars =>
    [alive /\ alive' /\ printed' # printed => printed'.count > printed.count]_vars
<1> SUFFICES ASSUME TypeOK, ProgressInv, Next, alive, alive',
                    printed' # printed
             PROVE  printed'.count > printed.count
  OBVIOUS
<1>1. PICK t \in Workers : Dump(t)
  BY DEF Next, Construct, Destroy, BeginAdd, AddStep, Lock, Count, Store,
         Paint, Unlock, outVars
<1>2. pc[t] = "dump" /\ printed'.count = progressCount
  BY <1>1 DEF Dump
<1> QED BY <1>2, PaintFacts

(* The count shown on the terminal only goes up while the bar lives.        *)
THEOREM LinesAdvanceHolds == Spec => LinesAdvance
<1> QED BY InitKeeps, NextKeeps, StepAdvances, PTL DEF Spec, LinesAdvance
=============================================================================
