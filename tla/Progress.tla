------------------------------ MODULE Progress ------------------------------
(***************************************************************************)
(* program_helper::Progress: the progress bar the workers of one parallel  *)
(* call share.  A bar is built for a number of items and for the width of  *)
(* the terminal; the workers add to it concurrently; the caller destroys   *)
(* it when the call returns.                                               *)
(*                                                                         *)
(* addProgress holds progressLock_ from its first line to its last.  Its   *)
(* reads and writes are separate steps here, so that what the lock buys is *)
(* a result and not an assumption: module WorkerPool uses addProgress as   *)
(* one step.  The callers never report more items than the bar was built   *)
(* for (ProgressIsHandledCount in WorkerPool) and join every worker before *)
(* the bar goes out of scope (NoWorkerOutlivesCall): those two are the     *)
(* guards of BeginAdd and Destroy.                                         *)
(***************************************************************************)
EXTENDS Integers, FiniteSets

CONSTANTS
  Workers,     \* the threads
  Totals,      \* the values of totalCount
  Terminals,   \* widths of the terminal; 0 stands for "no terminal"
  IntMax,      \* largest value of int
  NoWorker     \* no thread

(* count * 100 and count * barLength_ are products of ints: beyond IntMax   *)
(* they would overflow, and a total of 0 would divide by zero.  A bar has    *)
(* at most 160 cells.                                                       *)
ASSUME ProgressAssumption ==
  /\ NoWorker \notin Workers
  /\ Terminals \subseteq Nat
  /\ \A n \in Totals : n \in Nat \ {0} /\ n * 160 <= IntMax

VARIABLES
  alive,          \* is there a bar?
  totalCount,
  barLength,
  bar,            \* progressBar_: cell -> full or empty
  progressCount,
  percentOf,      \* the count percentage_ was computed from
  holder,         \* the thread that holds progressLock_
  pc,             \* thread -> where it is in addProgress
  amount,         \* thread -> newProgress
  local,          \* thread -> newProgressCount, and the cells left to paint
  claimed,        \* items announced by the callers of this bar
  printed,        \* the last line dumpProgress printed
  newlines        \* the number of lines ended by a newline

barVars    == <<alive, totalCount, barLength>>
threadVars == <<pc, amount, local>>
outVars    == <<printed, newlines>>
vars == <<barVars, bar, progressCount, percentOf, holder, threadVars, claimed,
          outVars>>

SmallerOf(a, b) == IF a < b THEN a ELSE b

(* std::to_string(n).length() *)
Digits(n) == 1 + Cardinality({k \in 1 .. 9 : 10 ^ k <= n})

(* The length the constructor gives the bar. *)
BarLengthFor(columns, total) ==
  LET width == IF columns = 0 THEN 80 ELSE SmallerOf(160, columns)
      free  == width - 14 - 2 * Digits(total)
  IN  IF free < 10 THEN 10 ELSE free

NoLine  == [full |-> 0, count |-> 0, percentOf |-> 0]
Nothing == [count |-> 0, from |-> 0, to |-> 0]

(* The slips the checks try on the helpers below. *)
BadMayLock(t)        == TRUE                       \* no lock_guard
BadFilled(count)     == 1 + (count * barLength) \div totalCount
BadPaintCells(l)     == l.from + 1 .. l.to         \* off by one
BadEndsLine          == progressCount >= totalCount - 1
BadPercentOf(l)      == progressCount              \* read before the update
BadAfterUnlock(t)    == holder                     \* the guard is leaked

(* oldFilledBarCount and newFilledBarCount *)
CellsFor(count, length, total) == (count * length) \div total
Filled(count) == CellsFor(count, barLength, totalCount)

MayLock(t)       == holder = NoWorker
AfterUnlock(t)   == NoWorker
PaintCells(l)    == l.from .. l.to - 1
WorthPainting(l) == l.to > l.from
PercentOf(l)     == l.count
EndsLine         == progressCount = totalCount
FullCells        == Cardinality({i \in DOMAIN bar : bar[i] = "#"})

-----------------------------------------------------------------------------
Init ==
  /\ alive = FALSE
  /\ totalCount = 0
  /\ barLength = 0
  /\ bar = <<>>
  /\ progressCount = 0
  /\ percentOf = 0
  /\ holder = NoWorker
  /\ pc = [t \in Workers |-> "out"]
  /\ amount = [t \in Workers |-> 0]
  /\ local = [t \in Workers |-> Nothing]
  /\ claimed = 0
  /\ printed = NoLine
  /\ newlines = 0

(* Progress::Progress *)
Construct(total, columns) ==
  /\ ~alive
  /\ alive' = TRUE
  /\ totalCount' = total
  /\ barLength' = BarLengthFor(columns, total)
  /\ bar' = [i \in 0 .. barLength' - 1 |-> "-"]
  /\ progressCount' = 0
  /\ percentOf' = 0
  /\ claimed' = 0
  /\ printed' = NoLine
  /\ newlines' = 0
  /\ UNCHANGED <<holder, threadVars>>

(* Progress::~Progress *)
Destroy ==
  /\ alive
  /\ \A t \in Workers : pc[t] = "out"
  /\ alive' = FALSE
  /\ bar' = <<>>
  /\ UNCHANGED <<totalCount, barLength, progressCount, percentOf, holder,
                 threadVars, claimed, outVars>>

(* A worker calls addProgress(n). *)
BeginAdd(t, n) ==
  /\ alive
  /\ pc[t] = "out"
  /\ claimed + n <= totalCount
  /\ claimed' = claimed + n
  /\ amount' = [amount EXCEPT ![t] = n]
  /\ pc' = [pc EXCEPT ![t] = "lock"]
  /\ UNCHANGED <<barVars, bar, progressCount, percentOf, holder, local,
                 outVars>>

Lock(t) ==
  /\ pc[t] = "lock"
  /\ MayLock(t)
  /\ holder' = t
  /\ pc' = [pc EXCEPT ![t] = "count"]
  /\ UNCHANGED <<barVars, bar, progressCount, percentOf, amount, local,
                 claimed, outVars>>

(* The new count, the percentage and the two bar counts. *)
Count(t) ==
  /\ pc[t] = "count"
  /\ LET new == progressCount + amount[t]
         l   == [count |-> new, from |-> Filled(progressCount),
                 to |-> Filled(new)]
     IN  /\ local' = [local EXCEPT ![t] = l]
         /\ percentOf' = PercentOf(l)
  /\ pc' = [pc EXCEPT ![t] = "store"]
  /\ UNCHANGED <<barVars, bar, progressCount, holder, amount, claimed,
                 outVars>>

Store(t) ==
  /\ pc[t] = "store"
  /\ progressCount' = local[t].count
  /\ pc' = [pc EXCEPT ![t] =
              IF WorthPainting(local[t]) THEN "paint" ELSE "unlock"]
  /\ UNCHANGED <<barVars, bar, percentOf, holder, amount, local, claimed,
                 outVars>>

(* The loop that fills the new cells. *)
Paint(t) ==
  /\ pc[t] = "paint"
  /\ bar' = [i \in DOMAIN bar \union PaintCells(local[t]) |->
               IF i \in PaintCells(local[t]) THEN "#" ELSE bar[i]]
  /\ pc' = [pc EXCEPT ![t] = "dump"]
  /\ UNCHANGED <<barVars, progressCount, percentOf, holder, amount, local,
                 claimed, outVars>>

(* dumpProgress *)
Dump(t) ==
  /\ pc[t] = "dump"
  /\ printed' = [full |-> FullCells, count |-> progressCount,
                 percentOf |-> percentOf]
  /\ newlines' = IF EndsLine THEN newlines + 1 ELSE newlines
  /\ pc' = [pc EXCEPT ![t] = "unlock"]
  /\ UNCHANGED <<barVars, bar, progressCount, percentOf, holder, amount,
                 local, claimed>>

Unlock(t) ==
  /\ pc[t] = "unlock"
  /\ holder' = AfterUnlock(t)
  /\ pc' = [pc EXCEPT ![t] = "out"]
  /\ amount' = [amount EXCEPT ![t] = 0]
  /\ local' = [local EXCEPT ![t] = Nothing]
  /\ UNCHANGED <<barVars, bar, progressCount, percentOf, claimed, outVars>>

AddStep(t) ==
  Lock(t) \/ Count(t) \/ Store(t) \/ Paint(t) \/ Dump(t) \/ Unlock(t)

Next ==
  \/ \E total \in Totals, columns \in Terminals : Construct(total, columns)
  \/ Destroy
  \/ \E t \in Workers :
       \/ \E n \in 1 .. totalCount : BeginAdd(t, n)
       \/ AddStep(t)

(* A thread inside addProgress is scheduled.  The mutex need not be fair: a *)
(* bar receives no more adds than it has items.                            *)
Spec ==
  /\ Init
  /\ [][Next]_vars
  /\ \A t \in Workers : WF_vars(AddStep(t))

-----------------------------------------------------------------------------
Quiet == \A t \in Workers : pc[t] = "out"

(* The bar's state stays within its types: the cells painted are cells of   *)
(* the buffer the constructor allocated.                                    *)
TypeOK ==
  /\ alive \in BOOLEAN
  /\ totalCount \in Totals \union {0}
  /\ barLength = 0 \/ barLength \in 10 .. 160
  /\ bar \in [(IF alive THEN 0 .. barLength - 1 ELSE {}) -> {"-", "#"}]
  /\ progressCount \in 0 .. totalCount
  /\ percentOf \in 0 .. totalCount
  /\ holder \in Workers \union {NoWorker}
  /\ pc \in [Workers -> {"out", "lock", "count", "store", "paint", "dump",
                         "unlock"}]
  /\ amount \in [Workers -> 0 .. totalCount]
  /\ local \in [Workers -> [count : 0 .. totalCount, from : 0 .. barLength,
                            to : 0 .. barLength]]
  /\ claimed \in 0 .. totalCount
  /\ newlines \in Nat

(* No addition is lost: when no thread is inside addProgress the count is   *)
(* the sum of what the threads added.                                       *)
NoLostProgress == Quiet => progressCount = claimed

(* Whenever the lock is free the cells filled are the first ones, and as    *)
(* many as the count is worth, however the additions fell between cells.    *)
BarMatchesCount ==
  alive /\ holder = NoWorker =>
    \A i \in DOMAIN bar :
      (bar[i] = "#") <=> i < (progressCount * barLength) \div totalCount

(* A printed line never mixes two additions: its cells and its percentage   *)
(* belong to the count it shows.                                            *)
LinesAreConsistent ==
  printed # NoLine =>
    /\ printed.full = (printed.count * barLength) \div totalCount
    /\ printed.percentOf = printed.count

(* The line that shows the full count is printed, ends the line, and is the *)
(* only one to: the last addition always fills at least one cell.           *)
FinalLineOnce ==
  /\ newlines <= 1
  /\ alive /\ Quiet =>
       (newlines = 1 <=> progressCount = totalCount)

(* On the terminal the count only goes up while the bar lives. *)
LinesAdvance ==
  [][alive /\ alive' /\ printed' # printed => printed'.count > printed.count]_vars

(* Every addProgress returns, although the mutex makes no promise about who *)
(* gets it next.                                                            *)
AddReturns == \A t \in Workers : pc[t] = "lock" ~> pc[t] = "out"
=============================================================================
