---------------------- MODULE DetectorPackage_proofs ----------------------
(***************************************************************************)
(* Proofs about the two parts of internal/detector: the rate limiter, for  *)
(* every set of keys, every limit and every positive interval, and the     *)
(* anomaly detector, for any calls, tools, baselines and memory.           *)
(*                                                                         *)
(* The limiter: its type invariant, the bounds on what any stretch of one  *)
(* interval and of any number of them can draw, and that it implements the *)
(* abstract fixed-window limiter.                                          *)
(*                                                                         *)
(* TwoWindowBound speaks of all calls ever granted, TypeOK only of the     *)
(* open window; History ties the two together.  Its last part is what      *)
(* carries the bound from one window to the next: whatever lies Budget     *)
(* calls or more before the opening of the latest window was granted more  *)
(* than Interval before that opening.  FarBack says the same of any number *)
(* of budgets and intervals.                                               *)
(*                                                                         *)
(* The detector: its type invariant and its three safety properties, from  *)
(* DetectorInv.  Learning is what makes UnknownToolsReported survive calls *)
(* that overtake each other, Baselines what keeps a rate of one from ever  *)
(* exceeding a mean, and Counting what finds the other call behind a       *)
(* higher one.                                                             *)
(***************************************************************************)
EXTENDS RateLimiter, Detector, TLAPS

HistoryOf(k) ==
  /\ opened[k] <= Len(grants[k])
  /\ Len(grants[k]) > 0 => opened[k] > 0
  /\ \A i \in 1..Len(grants[k]) : grants[k][i] <= now
  /\ \A i, j \in 1..Len(grants[k]) : i <= j => grants[k][i] <= grants[k][j]
  /\ Exists(k) => /\ opened[k] > 0
                  /\ windows[k].resetAt = grants[k][opened[k]] + Interval
                  /\ windows[k].count = Len(grants[k]) - opened[k] + 1
  /\ ~Exists(k) /\ opened[k] > 0 => now > grants[k][opened[k]] + Interval
  /\ opened[k] > 0 => Len(grants[k]) - opened[k] + 1 <= Budget
  /\ \A j \in 1..Len(grants[k]) :
       j <= opened[k] - Budget => grants[k][opened[k]] > grants[k][j] + Interval

BoundOf(k) ==
  \A i, j \in 1..Len(grants[k]) :
    j = i + 2 * Budget - 1 => grants[k][j] > grants[k][i] + Interval

History == \A k \in Keys : HistoryOf(k) /\ BoundOf(k)

\* The budget of a window is a positive integer, whatever the limit.
LEMMA BudgetPositive ==
  ASSUME limit \in Limits
  PROVE  Budget \in Nat \ {0}
BY RateLimiterAssumption DEF Budget

\* The value that stands for a missing map entry counts no call.
LEMMA NoBucketFields ==
  /\ NoBucket \in [count : Nat, resetAt : Nat]
  /\ NoBucket.count = 0
  /\ NoBucket.resetAt = 0
BY DEF NoBucket

-----------------------------------------------------------------------------
\* The limiter's state keeps its type: in particular no bucket ever counts
\* more calls than its budget (ratelimit.go:45-49).
THEOREM TypeCorrect == Spec => []TypeOK
<1>1. Init => TypeOK
  <2> SUFFICES ASSUME Init PROVE TypeOK
    OBVIOUS
  <2>0. limit \in Limits /\ limit \in Int /\ now = 0 /\ Interval \in Nat \ {0}
    BY RateLimiterAssumption DEF Init
  <2>1. /\ windows \in [Keys -> [count : Nat, resetAt : Nat]]
        /\ \A k \in Keys : windows[k] = NoBucket
    BY NoBucketFields DEF Init
  <2>2. grants \in [Keys -> Seq(Nat)] /\ opened \in [Keys -> Nat]
    BY DEF Init
  <2>3. Budget \in Nat
    BY <2>0, BudgetPositive
  <2>4. ASSUME NEW k \in Keys PROVE windows[k].count <= Budget
    BY <2>1, <2>3, NoBucketFields
  <2>5. ASSUME NEW k \in Keys PROVE windows[k].resetAt <= now + Interval
    BY <2>0, <2>1, NoBucketFields
  <2>6. \A k \in Keys : ~Exists(k)
    BY <2>1 DEF Exists
  <2>7. answer = <<>> /\ tickDue \in BOOLEAN
    BY DEF Init
  <2> QED
    BY <2>0, <2>1, <2>2, <2>4, <2>5, <2>6, <2>7 DEF TypeOK
<1>2. TypeOK /\ [Next]_vars => TypeOK'
  <2> SUFFICES ASSUME TypeOK, [Next]_vars PROVE TypeOK'
    OBVIOUS
  <2> USE RateLimiterAssumption
  <2>0. Budget \in Nat \ {0}
    BY BudgetPositive DEF TypeOK
  <2>1. ASSUME NEW k \in Keys, OpenWindow(k) PROVE TypeOK'
    <3>1. now + Interval \in Nat
      BY DEF TypeOK
    <3>2. windows' \in [Keys -> [count : Nat, resetAt : Nat]]
      BY <2>1, <3>1 DEF OpenWindow, TypeOK
    <3>3. grants' \in [Keys -> Seq(Nat)] /\ opened' \in [Keys -> Nat]
      BY <2>1 DEF OpenWindow, TypeOK
    <3>4. \A h \in Keys : windows'[h] = IF h = k THEN [count |-> 1, resetAt |-> now + Interval]
                                                 ELSE windows[h]
      BY <2>1 DEF OpenWindow, TypeOK
    <3>5. Budget' = Budget
      BY <2>1 DEF OpenWindow, Budget
    <3>6. /\ \A h \in Keys : windows'[h].count <= Budget'
          /\ \A h \in Keys : windows'[h].resetAt <= now' + Interval
      BY <2>0, <2>1, <3>4, <3>5 DEF OpenWindow, TypeOK
    <3>7. ASSUME NEW h \in Keys, Exists(h)' PROVE windows'[h].count >= 1
      <4>1. CASE h = k
        BY <3>4, <4>1
      <4>2. CASE h # k
        BY <3>4, <3>7, <4>2 DEF TypeOK, Exists, NoBucket
      <4> QED
        BY <4>1, <4>2
    <3> QED
      BY <2>1, <3>2, <3>3, <3>6, <3>7 DEF OpenWindow, TypeOK
  <2>2. ASSUME NEW k \in Keys, CountCall(k) PROVE TypeOK'
    <3>1. windows' \in [Keys -> [count : Nat, resetAt : Nat]]
      BY SMTT(40), <2>2 DEF CountCall, TypeOK
    <3>2. grants' \in [Keys -> Seq(Nat)]
      BY <2>2 DEF CountCall, TypeOK
    <3>3. \A h \in Keys :
            /\ windows'[h].count = IF h = k THEN windows[h].count + 1 ELSE windows[h].count
            /\ windows'[h].resetAt = windows[h].resetAt
      BY <2>2 DEF CountCall, TypeOK
    <3>4. windows[k].count + 1 <= Budget
      BY <2>2 DEF CountCall, TypeOK, Budget
    <3>5. \A h \in Keys : Exists(h)' => windows'[h].count >= 1
      BY <2>2, <3>1 DEF CountCall, TypeOK, Exists
    <3>6. Budget' = Budget
      BY <2>2 DEF CountCall, Budget
    <3> QED
      BY <2>2, <3>1, <3>2, <3>3, <3>4, <3>5, <3>6 DEF CountCall, TypeOK
  <2>3. ASSUME NEW k \in Keys, RefuseCall(k) PROVE TypeOK'
    BY <2>3 DEF RefuseCall, TypeOK, Exists, Budget
  <2>4. ASSUME NEW k \in Keys, Reset(k) PROVE TypeOK'
    <3>1. Budget' = Budget
      BY <2>4 DEF Reset, Budget
    <3> QED
      BY <2>0, <2>4, <3>1 DEF Reset, TypeOK, Exists, NoBucket
  <2>5. CASE Cleanup
    <3>1. Budget' = Budget
      BY <2>5 DEF Cleanup, Budget
    <3>2. \A h \in Keys : windows'[h] = NoBucket \/ windows'[h] = windows[h]
      BY <2>5 DEF Cleanup
    <3>3. windows' \in [Keys -> [count : Nat, resetAt : Nat]]
      BY <2>5, NoBucketFields DEF Cleanup, TypeOK
    <3>4. ASSUME NEW h \in Keys
          PROVE  windows'[h].count <= Budget /\ windows'[h].resetAt <= now + Interval
      <4>1. CASE windows'[h] = NoBucket
        BY <2>0, <4>1, NoBucketFields DEF TypeOK
      <4>2. CASE windows'[h] = windows[h]
        BY <4>2 DEF TypeOK
      <4> QED
        BY <3>2, <4>1, <4>2
    <3>5. \A h \in Keys : Exists(h)' => windows'[h].count >= 1
      <4>1. \A h \in Keys : Exists(h)' => windows'[h] = windows[h] /\ Exists(h)
        BY <3>2 DEF Exists, NoBucket
      <4> QED
        BY <4>1 DEF TypeOK
    <3> QED
      BY <2>5, <3>1, <3>3, <3>4, <3>5 DEF Cleanup, TypeOK
  <2>6. CASE Tick
    BY <2>6 DEF Tick, TypeOK, Exists, Budget
  <2>7. CASE UNCHANGED vars
    BY <2>7 DEF vars, TypeOK, Exists, Budget
  <2> QED
    BY <2>1, <2>2, <2>3, <2>4, <2>5, <2>6, <2>7 DEF Next, Allow
<1> QED
  BY <1>1, <1>2, PTL DEF Spec

-----------------------------------------------------------------------------
\* What no call touches keeps its history while time passes.
LEMMA KeyUntouched ==
  ASSUME TypeOK, TypeOK', NEW k \in Keys, HistoryOf(k), BoundOf(k),
         windows'[k] = windows[k], grants'[k] = grants[k],
         opened'[k] = opened[k], limit' = limit, now' >= now
  PROVE  HistoryOf(k)' /\ BoundOf(k)'
<1>1. now \in Nat /\ now' \in Nat /\ Budget' = Budget /\ Exists(k)' = Exists(k)
  BY DEF TypeOK, Budget, Exists
<1>2. grants[k] \in Seq(Nat) /\ opened[k] \in Nat /\ Interval \in Nat
  BY RateLimiterAssumption DEF TypeOK
<1>3. BoundOf(k)'
  BY <1>1 DEF BoundOf
<1>4. \A i \in 1..Len(grants[k]) : grants[k][i] \in Nat
  BY <1>2
<1>5. opened[k] > 0 => opened[k] \in 1..Len(grants[k])
  BY <1>2 DEF HistoryOf
<1>6. HistoryOf(k)'
  <2>1. /\ opened'[k] <= Len(grants'[k])
        /\ Len(grants'[k]) > 0 => opened'[k] > 0
    BY DEF HistoryOf
  <2>2. \A i \in 1..Len(grants'[k]) : grants'[k][i] <= now'
    BY <1>1, <1>4 DEF HistoryOf
  <2>3. ~Exists(k)' /\ opened'[k] > 0 => now' > grants'[k][opened'[k]] + Interval
    <3>1. SUFFICES ASSUME ~Exists(k)', opened'[k] > 0
                   PROVE  now' > grants'[k][opened'[k]] + Interval
      OBVIOUS
    <3>2. ~Exists(k) /\ opened[k] > 0
      BY <1>1, <3>1
    <3>3. now > grants[k][opened[k]] + Interval
      BY <3>2 DEF HistoryOf
    <3>4. grants[k][opened[k]] \in Nat /\ grants'[k][opened'[k]] = grants[k][opened[k]]
      BY <1>4, <1>5, <3>2
    <3> QED
      BY <1>1, <1>2, <3>3, <3>4
  <2>4. /\ \A i, j \in 1..Len(grants'[k]) : i <= j => grants'[k][i] <= grants'[k][j]
        /\ Exists(k)' => /\ opened'[k] > 0
                         /\ windows'[k].resetAt = grants'[k][opened'[k]] + Interval
                         /\ windows'[k].count = Len(grants'[k]) - opened'[k] + 1
    BY <1>1 DEF HistoryOf
  <2>5. /\ opened'[k] > 0 => Len(grants'[k]) - opened'[k] + 1 <= Budget'
        /\ \A j \in 1..Len(grants'[k]) :
             j <= opened'[k] - Budget' => grants'[k][opened'[k]] > grants'[k][j] + Interval
    BY <1>1 DEF HistoryOf
  <2> QED
    BY <2>1, <2>2, <2>3, <2>4, <2>5 DEF HistoryOf
<1> QED
  BY <1>3, <1>6

\* A granted call extends the bound: the call 2 * Budget - 1 before it lies at
\* least Budget calls before the opening of the latest window.
LEMMA BoundExtends ==
  ASSUME TypeOK, NEW k \in Keys, HistoryOf(k)', BoundOf(k), limit' = limit,
         opened'[k] \in Nat,
         grants'[k] = Append(grants[k], now)
  PROVE  BoundOf(k)'
<1> DEFINE g == grants[k]
           h == grants'[k]
<1>1. Budget \in Nat \ {0} /\ Budget' = Budget
  BY BudgetPositive DEF TypeOK, Budget
<1>2. /\ g \in Seq(Nat) /\ now \in Nat /\ Interval \in Nat
      /\ Len(h) = Len(g) + 1 /\ Len(g) \in Nat /\ h \in Seq(Nat)
      /\ \A i \in 1..Len(g) : h[i] = g[i]
  BY RateLimiterAssumption DEF TypeOK
<1>4. \A i \in 1..Len(h) : h[i] \in Nat
  BY <1>2
<1>3. ASSUME NEW i \in 1..Len(h), NEW j \in 1..Len(h), j = i + 2 * Budget - 1
      PROVE  h[j] > h[i] + Interval
  <2>1. CASE j <= Len(g)
    BY SMTT(40), <1>1, <1>2, <1>3, <2>1 DEF BoundOf
  <2>2. CASE j = Len(h)
    <3>1. /\ opened'[k] > 0 /\ opened'[k] \in 1..Len(h)
          /\ Len(h) - opened'[k] + 1 <= Budget
      BY <1>1, <1>2 DEF HistoryOf
    <3>2. i <= opened'[k] - Budget
      BY <1>1, <1>2, <1>3, <2>2, <3>1
    <3>3. h[opened'[k]] > h[i] + Interval
      BY <1>1, <3>2 DEF HistoryOf
    <3>4. h[opened'[k]] <= h[j]
      BY <1>2, <2>2, <3>1 DEF HistoryOf
    <3>5. h[opened'[k]] \in Nat /\ h[j] \in Nat /\ h[i] \in Nat
      BY <1>4, <3>1
    <3> HIDE DEF h
    <3> QED
      BY SMTT(40), <1>2, <3>3, <3>4, <3>5
  <2> QED
    BY <1>2, <2>1, <2>2
<1> QED
  BY <1>1, <1>3 DEF BoundOf

\* The call that opens a window: what came Budget calls earlier belongs to the
\* window before, or to an older one, and that window had expired.
LEMMA OpenWindowKeeps ==
  ASSUME TypeOK, TypeOK', NEW k \in Keys, HistoryOf(k), BoundOf(k), OpenWindow(k)
  PROVE  HistoryOf(k)' /\ BoundOf(k)'
<1> DEFINE g == grants[k]
           h == grants'[k]
           p == opened[k]
<1>1. Budget \in Nat \ {0} /\ Budget' = Budget
  BY BudgetPositive DEF TypeOK, Budget, OpenWindow
<1>2. /\ g \in Seq(Nat) /\ now \in Nat /\ now' = now
      /\ Interval \in Nat \ {0} /\ p \in Nat
  BY RateLimiterAssumption DEF TypeOK, OpenWindow
<1>3. /\ h = Append(g, now) /\ opened'[k] = Len(g) + 1
      /\ windows'[k] = [count |-> 1, resetAt |-> now + Interval]
  BY DEF OpenWindow, TypeOK
<1>4. /\ Len(g) \in Nat /\ Len(h) = Len(g) + 1 /\ h[Len(g) + 1] = now
      /\ \A i \in 1..Len(g) : h[i] = g[i]
  BY <1>2, <1>3
<1>4a. h \in Seq(Nat)
  BY <1>2, <1>3
<1>4b. /\ \A i \in 1..Len(g) : g[i] \in Nat
       /\ \A i \in 1..Len(h) : h[i] \in Nat
  BY <1>2, <1>4a
<1>5. Exists(k)'
  BY <1>2, <1>3 DEF Exists, NoBucket
<1>6. ASSUME NEW i \in 1..Len(h) PROVE h[i] <= now
  <2>1. CASE i \in 1..Len(g)
    BY <1>4, <2>1 DEF HistoryOf
  <2>2. CASE i = Len(g) + 1
    BY <1>2, <1>4, <2>2
  <2> QED
    BY <1>4, <2>1, <2>2
<1>7. \A i, j \in 1..Len(h) : i <= j => h[i] <= h[j]
  <2> SUFFICES ASSUME NEW i \in 1..Len(h), NEW j \in 1..Len(h), i <= j
               PROVE  h[i] <= h[j]
    OBVIOUS
  <2>1. CASE j <= Len(g)
    <3>1. i \in 1..Len(g) /\ j \in 1..Len(g)
      BY <1>4, <2>1
    <3> QED
      BY <1>4, <3>1 DEF HistoryOf
  <2>2. CASE j = Len(h)
    BY <1>4, <1>6, <2>2
  <2> QED
    BY <1>4, <2>1, <2>2
<1>8. ASSUME NEW j \in 1..Len(h), j <= opened'[k] - Budget
      PROVE  h[opened'[k]] > h[j] + Interval
  <2>1. /\ j \in 1..Len(g) /\ Len(g) > 0 /\ p > 0 /\ p \in 1..Len(g)
        /\ Len(g) - p + 1 <= Budget
    BY SMTT(40), <1>1, <1>2, <1>3, <1>4, <1>8 DEF HistoryOf
  <2>2. j <= p
    BY <1>1, <1>2, <1>3, <1>4, <1>8, <2>1
  <2>3. now > g[p] + Interval
    BY <1>2, <2>1 DEF HistoryOf, OpenWindow, Expired
  <2>4. g[j] <= g[p]
    BY <2>1, <2>2 DEF HistoryOf
  <2> QED
    <3>1. h[opened'[k]] = now /\ h[j] = g[j] /\ g[j] \in Nat /\ g[p] \in Nat
      BY <1>3, <1>4, <1>4b, <2>1
    <3> HIDE DEF g, h, p
    <3> QED
      BY <1>2, <2>3, <2>4, <3>1
<1>9. HistoryOf(k)'
  <2>1. /\ windows'[k].resetAt = h[opened'[k]] + Interval
        /\ windows'[k].count = Len(h) - opened'[k] + 1
    BY <1>2, <1>3, <1>4
  <2>2. opened'[k] <= Len(h) /\ opened'[k] > 0 /\ Len(h) - opened'[k] + 1 <= Budget
    BY <1>1, <1>3, <1>4
  <2> QED
    BY <1>1, <1>2, <1>5, <1>6, <1>7, <1>8, <2>1, <2>2 DEF HistoryOf
<1> QED
  BY <1>2, <1>3, <1>4, <1>9, BoundExtends DEF OpenWindow

\* A call counted in the open window moves nothing but the window's end.
LEMMA CountCallKeeps ==
  ASSUME TypeOK, TypeOK', NEW k \in Keys, HistoryOf(k), BoundOf(k), CountCall(k)
  PROVE  HistoryOf(k)' /\ BoundOf(k)'
<1> DEFINE g == grants[k]
           h == grants'[k]
           p == opened[k]
<1>1. Budget \in Nat \ {0} /\ Budget' = Budget
  BY BudgetPositive DEF TypeOK, Budget, CountCall
<1>2. /\ g \in Seq(Nat) /\ now \in Nat /\ now' = now
      /\ Interval \in Nat \ {0} /\ p \in Nat
  BY RateLimiterAssumption DEF TypeOK, CountCall
<1>3. /\ h = Append(g, now) /\ opened'[k] = p
      /\ windows'[k].resetAt = windows[k].resetAt
      /\ windows'[k].count = windows[k].count + 1
  BY DEF CountCall, TypeOK
<1>4. /\ Len(g) \in Nat /\ Len(h) = Len(g) + 1 /\ h[Len(g) + 1] = now
      /\ \A i \in 1..Len(g) : h[i] = g[i]
  BY <1>2, <1>3
<1>5. /\ p \in 1..Len(g)
      /\ windows[k].resetAt = g[p] + Interval
      /\ windows[k].count = Len(g) - p + 1
      /\ windows[k].count < Budget
  BY SMTT(40), <1>2 DEF HistoryOf, CountCall, TypeOK, Budget
<1>6. ASSUME NEW i \in 1..Len(h) PROVE h[i] <= now
  <2>1. CASE i \in 1..Len(g)
    BY <1>4, <2>1 DEF HistoryOf
  <2>2. CASE i = Len(g) + 1
    BY <1>2, <1>4, <2>2
  <2> QED
    BY <1>4, <2>1, <2>2
<1>7. \A i, j \in 1..Len(h) : i <= j => h[i] <= h[j]
  <2> SUFFICES ASSUME NEW i \in 1..Len(h), NEW j \in 1..Len(h), i <= j
               PROVE  h[i] <= h[j]
    OBVIOUS
  <2>1. CASE j <= Len(g)
    <3>1. i \in 1..Len(g) /\ j \in 1..Len(g)
      BY <1>4, <2>1
    <3> QED
      BY <1>4, <3>1 DEF HistoryOf
  <2>2. CASE j = Len(h)
    BY <1>4, <1>6, <2>2
  <2> QED
    BY <1>4, <2>1, <2>2
<1>8. ASSUME NEW j \in 1..Len(h), j <= p - Budget
      PROVE  h[p] > h[j] + Interval
  <2>1. j \in 1..Len(g)
    BY <1>1, <1>2, <1>4, <1>5, <1>8
  <2> QED
    BY <1>4, <1>5, <1>8, <2>1 DEF HistoryOf
<1>9. Exists(k)'
  BY <1>3, <1>5, <1>2, <1>4, NoBucketFields DEF Exists, NoBucket
<1>10. HistoryOf(k)'
  <2>1. /\ windows'[k].resetAt = h[opened'[k]] + Interval
        /\ windows'[k].count = Len(h) - opened'[k] + 1
    BY <1>2, <1>3, <1>4, <1>5
  <2>2. opened'[k] <= Len(h) /\ opened'[k] > 0 /\ Len(h) - opened'[k] + 1 <= Budget
    BY SMTT(40), <1>1, <1>2, <1>3, <1>4, <1>5
  <2> QED
    BY <1>1, <1>2, <1>3, <1>6, <1>7, <1>8, <1>9, <2>1, <2>2 DEF HistoryOf
<1> QED
  BY <1>2, <1>3, <1>10, BoundExtends DEF CountCall

\* Forgetting a key, by Reset or because its window is over, keeps the history.
LEMMA ResetKeeps ==
  ASSUME TypeOK, NEW k \in Keys, Reset(k)
  PROVE  HistoryOf(k)' /\ BoundOf(k)'
<1>1. grants'[k] = <<>> /\ opened'[k] = 0 /\ ~Exists(k)'
  BY DEF Reset, TypeOK, Exists, NoBucket
<1>2. 1..Len(grants'[k]) = {}
  BY <1>1
<1> QED
  BY <1>1, <1>2 DEF HistoryOf, BoundOf

\* A cleanup removes only windows that are over, and keeps the bound of each key.
LEMMA CleanupKeeps ==
  ASSUME TypeOK, TypeOK', NEW k \in Keys, HistoryOf(k), BoundOf(k), Cleanup
  PROVE  HistoryOf(k)' /\ BoundOf(k)'
<1>1. CASE windows'[k] = windows[k]
  BY <1>1, KeyUntouched DEF Cleanup, TypeOK
<1>2. CASE Expired(k) /\ windows'[k] = NoBucket /\ windows'[k] # windows[k]
  <2>1. Exists(k) /\ ~Exists(k)' /\ now > windows[k].resetAt
    BY <1>2 DEF Exists, NoBucket, Expired
  <2>2. Budget' = Budget /\ now' = now /\ grants' = grants /\ opened' = opened
    BY DEF Cleanup, Budget
  <2>3. opened[k] > 0 => now > grants[k][opened[k]] + Interval
    BY <2>1 DEF HistoryOf
  <2> QED
    BY <2>1, <2>2, <2>3 DEF HistoryOf, BoundOf
<1> QED
  BY <1>1, <1>2 DEF Cleanup

\* The strengthened invariant: the open window and the history agree.
THEOREM HistoryCorrect == Spec => [](TypeOK /\ History)
<1>1. Init => History
  <2> SUFFICES ASSUME Init, NEW k \in Keys PROVE HistoryOf(k) /\ BoundOf(k)
    BY DEF History
  <2>1. grants[k] = <<>> /\ opened[k] = 0 /\ ~Exists(k) /\ 1..Len(grants[k]) = {}
    BY DEF Init, Exists
  <2> QED
    BY <2>1 DEF HistoryOf, BoundOf
<1>2. TypeOK /\ TypeOK' /\ History /\ [Next]_vars => History'
  <2> SUFFICES ASSUME TypeOK, TypeOK', History, [Next]_vars, NEW k \in Keys
               PROVE  HistoryOf(k)' /\ BoundOf(k)'
    BY DEF History
  <2>0. HistoryOf(k) /\ BoundOf(k)
    BY DEF History
  <2>1. ASSUME NEW h \in Keys, Allow(h) \/ Reset(h), h # k
        PROVE  HistoryOf(k)' /\ BoundOf(k)'
    <3>1. /\ windows'[k] = windows[k] /\ grants'[k] = grants[k]
          /\ opened'[k] = opened[k] /\ limit' = limit /\ now' = now
      BY <2>1 DEF Allow, OpenWindow, CountCall, RefuseCall, Reset, TypeOK
    <3>2. now' >= now
      BY <3>1 DEF TypeOK
    <3> QED
      BY <2>0, <3>1, <3>2, KeyUntouched
  <2>2. ASSUME Allow(k) PROVE HistoryOf(k)' /\ BoundOf(k)'
    <3>1. CASE OpenWindow(k)
      BY <2>0, <3>1, OpenWindowKeeps
    <3>2. CASE CountCall(k)
      BY <2>0, <3>2, CountCallKeeps
    <3>3. CASE RefuseCall(k)
      BY <2>0, <3>3, KeyUntouched DEF RefuseCall, TypeOK
    <3> QED
      BY <2>2, <3>1, <3>2, <3>3 DEF Allow
  <2>3. CASE Reset(k)
    BY <2>3, ResetKeeps
  <2>4. CASE Cleanup
    BY <2>0, <2>4, CleanupKeeps
  <2>5. CASE Tick
    BY <2>0, <2>5, KeyUntouched DEF Tick, TypeOK
  <2>6. CASE UNCHANGED vars
    BY <2>0, <2>6, KeyUntouched DEF vars, TypeOK
  <2> QED
    BY <2>1, <2>2, <2>3, <2>4, <2>5, <2>6 DEF Next
<1> QED
  BY <1>1, <1>2, TypeCorrect, PTL DEF Spec

\* No stretch of one interval draws on more than two windows, whenever the
\* cleanup goroutine runs (ratelimit.go:30-51 and 75-89).
THEOREM TwoWindowBoundHolds == Spec => []TwoWindowBound
<1>1. History => TwoWindowBound
  BY DEF History, BoundOf, TwoWindowBound
<1> QED
  BY <1>1, HistoryCorrect, PTL

-----------------------------------------------------------------------------
(* What many intervals can draw.                                            *)

\* Whatever lies m budgets or more before the opening of the latest window was granted
\* more than m intervals before that opening.
FarBack(k) ==
  \A m \in Nat \ {0}, j \in 1..Len(grants[k]) :
    j <= opened[k] - m * Budget => grants[k][opened[k]] > grants[k][j] + m * Interval

LongRunOf(k) ==
  \A n \in Nat \ {0}, i, j \in 1..Len(grants[k]) :
    j = i + (n + 1) * Budget - 1 => grants[k][j] > grants[k][i] + n * Interval

\* However long the program runs, n + 1 budgets of calls, granted to a host since its
\* last Reset, take more than n intervals: no host is ever served at more
\* than one budget per interval, but for the budget it may draw at once (Allow,
\* ratelimit.go:30-51).  TwoWindowBound is the case of n = 1.
LongRunBound == \A k \in Keys : LongRunOf(k)

\* One factor more is one term more.
LEMMA OneMore ==
  ASSUME NEW m \in Nat, NEW b \in Nat
  PROVE  (m + 1) * b = m * b + b /\ m * b \in Nat
OBVIOUS

\* Any number but zero is one more than another.
LEMMA Before ==
  ASSUME NEW m \in Nat \ {0}
  PROVE  \E q \in Nat : m = q + 1
<1> WITNESS m - 1 \in Nat
<1> QED OBVIOUS

\* What no call touches stays as far back as it was.
LEMMA FarBackStays ==
  ASSUME NEW k \in Keys, FarBack(k), LongRunOf(k), grants'[k] = grants[k],
         opened'[k] = opened[k], limit' = limit
  PROVE  FarBack(k)' /\ LongRunOf(k)'
BY DEF FarBack, LongRunOf, Budget

\* A granted call extends the bound: the call n + 1 budgets back, itself included, lies at least n
\* budgets before the opening of the latest window.
LEMMA LongRunExtends ==
  ASSUME TypeOK, NEW k \in Keys, HistoryOf(k)', FarBack(k)', LongRunOf(k), limit' = limit,
         opened'[k] \in Nat, grants'[k] = Append(grants[k], now)
  PROVE  LongRunOf(k)'
<1> DEFINE g == grants[k]
           h == grants'[k]
           o == opened'[k]
<1>1. Budget \in Nat \ {0} /\ Budget' = Budget
  BY BudgetPositive DEF TypeOK, Budget
<1>2. /\ g \in Seq(Nat) /\ now \in Nat /\ Interval \in Nat
      /\ Len(h) = Len(g) + 1 /\ Len(g) \in Nat /\ h \in Seq(Nat)
      /\ \A i \in 1..Len(g) : h[i] = g[i]
  BY RateLimiterAssumption DEF TypeOK
<1>3. \A i \in 1..Len(h) : h[i] \in Nat
  BY <1>2
<1>4. ASSUME NEW n \in Nat \ {0}, NEW i \in 1..Len(h), NEW j \in 1..Len(h),
             j = i + (n + 1) * Budget - 1
      PROVE  h[j] > h[i] + n * Interval
  <2>1. PICK x \in Nat : x = n * Budget /\ (n + 1) * Budget = x + Budget
    BY <1>1, OneMore
  <2>2. PICK y \in Nat : y = n * Interval
    BY <1>2, OneMore
  <2>3. j = i + x + Budget - 1
    BY <1>4, <2>1, <1>1
  <2>4. CASE j <= Len(g)
    <3>1. i \in 1..Len(g) /\ j \in 1..Len(g)
      BY <1>1, <1>2, <2>3, <2>4
    <3>2. g[j] > g[i] + n * Interval
      BY <1>4, <3>1 DEF LongRunOf
    <3> QED BY <1>2, <3>1, <3>2
  <2>5. CASE j = Len(h)
    <3>1. /\ o > 0 /\ o \in 1..Len(h) /\ Len(h) - o + 1 <= Budget
      BY <1>1, <1>2 DEF HistoryOf
    <3>2. i <= o - x
      BY <1>1, <1>2, <2>3, <2>5, <3>1
    <3>3. h[o] > h[i] + n * Interval
      BY <1>1, <2>1, <3>2 DEF FarBack
    <3>4. h[o] <= h[j]
      <4>1. \A a, b \in 1..Len(h) : a <= b => h[a] <= h[b]
        BY DEF HistoryOf
      <4>2. o <= j
        BY <1>2, <2>5, <3>1
      <4> HIDE DEF h, o
      <4> QED BY <3>1, <4>1, <4>2
    <3>5. h[o] \in Nat /\ h[j] \in Nat /\ h[i] \in Nat
      BY <1>3, <3>1
    <3> HIDE DEF h, o
    <3> QED BY <2>2, <3>3, <3>4, <3>5
  <2> QED BY <1>2, <2>4, <2>5
<1> QED BY <1>1, <1>4 DEF LongRunOf

\* The call that opens a window puts what is m budgets back m intervals back: one
\* interval for the window before it, the others for those before that.
LEMMA OpenWindowFarBack ==
  ASSUME TypeOK, NEW k \in Keys, HistoryOf(k), HistoryOf(k)', FarBack(k), OpenWindow(k)
  PROVE  FarBack(k)'
<1> DEFINE g == grants[k]
           h == grants'[k]
           p == opened[k]
<1>1. Budget \in Nat \ {0} /\ Budget' = Budget
  BY BudgetPositive DEF TypeOK, Budget, OpenWindow
<1>2. g \in Seq(Nat) /\ now \in Nat /\ Interval \in Nat \ {0} /\ p \in Nat
  BY RateLimiterAssumption DEF TypeOK
<1>3. h = Append(g, now) /\ opened'[k] = Len(g) + 1
  BY DEF OpenWindow, TypeOK
<1>4. /\ Len(g) \in Nat /\ Len(h) = Len(g) + 1 /\ h[Len(g) + 1] = now
      /\ \A i \in 1..Len(g) : h[i] = g[i] /\ g[i] \in Nat
  BY <1>2, <1>3
<1>5. ASSUME NEW m \in Nat \ {0}, NEW j \in 1..Len(h), j <= opened'[k] - m * Budget
      PROVE  h[opened'[k]] > h[j] + m * Interval
  <2>1. PICK q \in Nat : m = q + 1
    BY Before
  <2>2. PICK x \in Nat : x = q * Budget /\ m * Budget = x + Budget
    BY <1>1, <2>1, OneMore
  <2>3. PICK y \in Nat : y = q * Interval /\ m * Interval = y + Interval
    BY <1>2, <2>1, OneMore
  <2>4. j <= Len(g) + 1 - (x + Budget)
    <3>1. j <= (Len(g) + 1) - m * Budget
      BY <1>3, <1>5, Zenon
    <3>2. m * Budget = x + Budget
      BY <2>2
    <3> HIDE DEF g
    <3> QED BY <1>1, <1>4, <3>1, <3>2, SMT
  <2>5. j \in 1..Len(g)
    BY <1>1, <1>4, <2>4
  <2>6. CASE q = 0
    <3>1. y = 0 /\ m = 1 /\ x = 0
      BY <1>1, <1>2, <2>1, <2>2, <2>3, <2>6
    <3>2. j <= opened'[k] - Budget'
      BY <1>1, <1>3, <2>4, <3>1
    <3>3. h[opened'[k]] > h[j] + Interval
      BY <3>2 DEF HistoryOf
    <3> QED BY <1>2, <2>3, <3>1, <3>3
  <2>7. CASE q # 0
    <3>1. /\ p > 0 /\ p \in 1..Len(g) /\ Len(g) - p + 1 <= Budget
          /\ now > g[p] + Interval
      <4>1. Len(g) > 0
        BY <1>4, <2>5
      <4>2. p > 0 /\ p \in 1..Len(g) /\ Len(g) - p + 1 <= Budget
        BY <1>2, <1>4, <4>1 DEF HistoryOf
      <4>3. now > g[p] + Interval
        BY <1>2, <4>2 DEF HistoryOf, OpenWindow, Expired
      <4> QED BY <4>2, <4>3
    <3>2. j <= p - q * Budget
      <4>1. j <= p - x
        <5>1. x \in Nat
          BY <2>2
        <5> HIDE DEF g, p
        <5> QED BY <1>1, <1>2, <1>4, <2>4, <3>1, <5>1
      <4>2. q * Budget = x
        BY <2>2
      <4> QED BY <4>1, <4>2, Zenon
    <3>3. g[p] > g[j] + q * Interval
      BY <2>5, <2>7, <3>2 DEF FarBack
    <3>4. g[p] \in Nat /\ g[j] \in Nat /\ h[j] = g[j] /\ h[opened'[k]] = now
      BY <1>3, <1>4, <2>5, <3>1
    <3>5. g[p] > g[j] + y
      <4>1. q * Interval = y
        BY <2>3
      <4> QED BY <3>3, <4>1, Zenon
    <3>6. now > g[j] + (y + Interval)
      <4>1. y \in Nat
        BY <2>3
      <4>2. now \in Nat /\ Interval \in Nat /\ now > g[p] + Interval
        BY <1>2, <3>1
      <4>3. g[p] \in Nat /\ g[j] \in Nat
        BY <3>4
      <4> HIDE DEF g, h, p
      <4> QED BY <3>5, <4>1, <4>2, <4>3
    <3>7. m * Interval = y + Interval
      BY <2>3
    <3>8. now > h[j] + m * Interval
      <4>1. h[j] = g[j]
        BY <3>4
      <4> HIDE DEF g, h
      <4> QED BY <3>6, <3>7, <4>1, Zenon
    <3> QED BY <3>4, <3>8, Zenon
  <2> QED BY <2>6, <2>7
<1> QED BY <1>1, <1>5 DEF FarBack

\* A call counted in the open window moves nothing before it.
LEMMA CountCallFarBack ==
  ASSUME TypeOK, NEW k \in Keys, HistoryOf(k), FarBack(k), CountCall(k)
  PROVE  FarBack(k)'
<1> DEFINE g == grants[k]
           h == grants'[k]
           p == opened[k]
<1>1. Budget \in Nat \ {0} /\ Budget' = Budget
  BY BudgetPositive DEF TypeOK, Budget, CountCall
<1>2. g \in Seq(Nat) /\ now \in Nat /\ Interval \in Nat \ {0} /\ p \in Nat
  BY RateLimiterAssumption DEF TypeOK
<1>3. h = Append(g, now) /\ opened'[k] = p
  BY DEF CountCall, TypeOK
<1>4. /\ Len(g) \in Nat /\ Len(h) = Len(g) + 1 /\ p <= Len(g)
      /\ \A i \in 1..Len(g) : h[i] = g[i]
  BY <1>2, <1>3 DEF HistoryOf
<1>5. ASSUME NEW m \in Nat \ {0}, NEW j \in 1..Len(h), j <= p - m * Budget
      PROVE  h[p] > h[j] + m * Interval
  <2>1. m * Budget \in Nat
    BY <1>1, OneMore
  <2>2. j \in 1..Len(g) /\ p \in 1..Len(g)
    BY <1>2, <1>4, <1>5, <2>1
  <2>3. g[p] > g[j] + m * Interval
    BY <1>5, <2>2 DEF FarBack
  <2> QED BY <1>4, <2>2, <2>3
<1> QED BY <1>1, <1>3, <1>5 DEF FarBack

\* Over any number of intervals the calls granted to a host are bounded by the budgets
\* of one window more, whenever the cleanup goroutine runs and however the windows
\* follow each other (ratelimit.go:30-51 and 75-89).
THEOREM LongRunBoundHolds == Spec => []LongRunBound
<1> DEFINE LongRunInv == \A k \in Keys : FarBack(k) /\ LongRunOf(k)
<1>1. Init => LongRunInv
  <2> SUFFICES ASSUME Init, NEW k \in Keys PROVE FarBack(k) /\ LongRunOf(k)
    OBVIOUS
  <2>1. grants[k] = <<>> /\ 1..Len(grants[k]) = {}
    BY DEF Init
  <2> QED BY <2>1 DEF FarBack, LongRunOf
<1>2. TypeOK /\ TypeOK' /\ History /\ History' /\ LongRunInv /\ [Next]_vars => LongRunInv'
  <2> SUFFICES ASSUME TypeOK, TypeOK', History, History', LongRunInv, [Next]_vars,
                      NEW k \in Keys
               PROVE  FarBack(k)' /\ LongRunOf(k)'
    OBVIOUS
  <2>0. HistoryOf(k) /\ HistoryOf(k)' /\ FarBack(k) /\ LongRunOf(k)
    BY DEF History
  <2>1. ASSUME NEW h \in Keys, Allow(h) \/ Reset(h), h # k
        PROVE  grants'[k] = grants[k] /\ opened'[k] = opened[k] /\ limit' = limit
    BY <2>1 DEF Allow, OpenWindow, CountCall, RefuseCall, Reset, TypeOK
  <2>2. CASE OpenWindow(k)
    <3>1. FarBack(k)'
      BY <2>0, <2>2, OpenWindowFarBack
    <3>2. /\ limit' = limit /\ opened'[k] \in Nat
          /\ grants'[k] = Append(grants[k], now)
      BY <2>2 DEF OpenWindow, TypeOK
    <3> QED BY <2>0, <3>1, <3>2, LongRunExtends
  <2>3. CASE CountCall(k)
    <3>1. FarBack(k)'
      BY <2>0, <2>3, CountCallFarBack
    <3>2. /\ limit' = limit /\ opened'[k] \in Nat
          /\ grants'[k] = Append(grants[k], now)
      BY <2>3 DEF CountCall, TypeOK
    <3> QED BY <2>0, <3>1, <3>2, LongRunExtends
  <2>4. CASE Reset(k)
    <3>1. 1..Len(grants'[k]) = {}
      BY <2>4 DEF Reset, TypeOK
    <3> QED BY <3>1 DEF FarBack, LongRunOf
  <2>5. CASE RefuseCall(k) \/ Cleanup \/ Tick \/ UNCHANGED vars
    <3>1. grants'[k] = grants[k] /\ opened'[k] = opened[k] /\ limit' = limit
      BY <2>5 DEF RefuseCall, Cleanup, Tick, vars, TypeOK
    <3> QED BY <2>0, <3>1, FarBackStays
  <2> QED
    BY <2>0, <2>1, <2>2, <2>3, <2>4, <2>5, FarBackStays DEF Next, Allow
<1>3. LongRunInv => LongRunBound
  BY DEF LongRunBound
<1> QED
  BY <1>1, <1>2, <1>3, HistoryCorrect, PTL DEF Spec

\* Remaining, out of date as it may be, promises no call that Allow would
\* refuse at this moment (ratelimit.go:53-67).
THEOREM RemainingSafe == Spec => []RemainingNeverOverstates
<1>1. TypeOK => RemainingNeverOverstates
  <2> SUFFICES ASSUME TypeOK, NEW k \in Keys
               PROVE  Remaining(k) <= IF Exists(k) /\ ~Expired(k)
                                      THEN Budget - windows[k].count
                                      ELSE Budget
    BY DEF RemainingNeverOverstates
  <2>1. limit \in Int /\ windows[k].count \in Nat /\ windows[k].count <= Budget
    BY RateLimiterAssumption DEF TypeOK
  <2> QED
    BY <2>1 DEF Remaining, Budget
<1> QED
  BY <1>1, TypeCorrect, PTL

-----------------------------------------------------------------------------
(* The refinement of the fixed-window limiter.                              *)

UsedOf(k) == IF Live(k) THEN windows[k].count ELSE 0
ClosesOf(k) == IF Live(k) THEN windows[k].resetAt ELSE 0

\* Nothing the abstract limiter sees of a key depends on more than its bucket
\* and the clock.
LEMMA SameView ==
  ASSUME NEW k \in Keys, windows'[k] = windows[k], now' = now
  PROVE  UsedOf(k)' = UsedOf(k) /\ ClosesOf(k)' = ClosesOf(k)
BY DEF UsedOf, ClosesOf, Live, Exists, Expired

\* The limiter that forgets late implements the one that forgets at once
\* (FixedWindow): every step of the code is one of its steps or is invisible.
THEOREM RefinesFixedWindow == Spec => ImplementsFixedWindow
<1> DEFINE U == [k \in Keys |-> UsedOf(k)]
           C == [k \in Keys |-> ClosesOf(k)]
<1>1. Init => FW!FWInit
  <2> SUFFICES ASSUME Init PROVE FW!FWInit
    OBVIOUS
  <2>1. \A k \in Keys : ~Live(k)
    BY DEF Init, Live, Exists
  <2> QED
    BY <2>1 DEF Init, FW!FWInit
<1>2. TypeOK /\ TypeOK' /\ [Next]_vars => [FW!FWNext]_(FW!fwVars)
  <2> SUFFICES ASSUME TypeOK, TypeOK', [Next]_vars
               PROVE  FW!FWNext \/ (U' = U /\ C' = C /\ UNCHANGED <<limit, now, answer>>)
    BY DEF FW!fwVars, UsedOf, ClosesOf
  <2>0. /\ now \in Nat /\ now' \in Nat /\ Interval \in Nat \ {0}
        /\ limit \in Int /\ Budget \in Nat \ {0} /\ FW!Budget = Budget
    BY RateLimiterAssumption, BudgetPositive DEF TypeOK, FW!Budget, Budget
  <2>1. ASSUME NEW k \in Keys, OpenWindow(k) PROVE FW!Grant(k)
    <3>1. \A h \in Keys : h # k => UsedOf(h)' = UsedOf(h) /\ ClosesOf(h)' = ClosesOf(h)
      BY <2>1, SameView DEF OpenWindow, TypeOK
    <3>2. UsedOf(k) = 0
      BY <2>1 DEF OpenWindow, UsedOf, Live
    <3>3. windows'[k] = [count |-> 1, resetAt |-> now + Interval] /\ now' = now
      BY <2>1 DEF OpenWindow, TypeOK
    <3>4. Live(k)'
      BY <2>0, <3>3 DEF Live, Exists, Expired, NoBucket
    <3>5. UsedOf(k)' = 1 /\ ClosesOf(k)' = now + Interval
      BY <3>3, <3>4 DEF UsedOf, ClosesOf
    <3>6. U' = [U EXCEPT ![k] = @ + 1]
      <4>1. U[k] = 0
        BY <3>2
      <4>2. [U EXCEPT ![k] = @ + 1] = [U EXCEPT ![k] = 1]
        BY <4>1
      <4>3. U' = [U EXCEPT ![k] = 1]
        BY <3>1, <3>5
      <4> QED
        BY <4>2, <4>3
    <3>7. C' = [C EXCEPT ![k] = IF U[k] = 0 THEN now + Interval ELSE @]
      BY <3>1, <3>2, <3>5
    <3>8. U[k] < FW!Budget
      BY <2>0, <3>2
    <3> QED
      BY <2>1, <3>6, <3>7, <3>8 DEF FW!Grant, OpenWindow, UsedOf, ClosesOf
  <2>2. ASSUME NEW k \in Keys, CountCall(k) PROVE FW!Grant(k)
    <3>1. \A h \in Keys : h # k => UsedOf(h)' = UsedOf(h) /\ ClosesOf(h)' = ClosesOf(h)
      BY <2>2, SameView DEF CountCall, TypeOK
    <3>2. /\ Live(k) /\ UsedOf(k) = windows[k].count /\ UsedOf(k) \in Nat \ {0}
          /\ UsedOf(k) < Budget
      BY <2>2, <2>0 DEF CountCall, UsedOf, Live, TypeOK, Budget
    <3>3. /\ windows'[k].count = windows[k].count + 1 /\ now' = now
          /\ windows'[k].resetAt = windows[k].resetAt
      BY <2>2 DEF CountCall, TypeOK
    <3>4. Live(k)'
      BY <2>0, <3>2, <3>3, NoBucketFields DEF Live, Exists, Expired, NoBucket
    <3>5. UsedOf(k)' = UsedOf(k) + 1 /\ ClosesOf(k)' = ClosesOf(k)
      BY <3>2, <3>3, <3>4 DEF UsedOf, ClosesOf
    <3>6. U' = [U EXCEPT ![k] = @ + 1]
      BY <3>1, <3>5
    <3>7. C' = [C EXCEPT ![k] = IF U[k] = 0 THEN now + Interval ELSE @]
      BY <3>1, <3>2, <3>5
    <3>8. U[k] < FW!Budget
      BY <2>0, <3>2
    <3> QED
      BY <2>2, <3>6, <3>7, <3>8 DEF FW!Grant, CountCall, UsedOf, ClosesOf
  <2>3. ASSUME NEW k \in Keys, RefuseCall(k) PROVE FW!Refuse(k)
    <3>1. U' = U /\ C' = C
      BY <2>3, SameView DEF RefuseCall
    <3>2. U[k] >= FW!Budget
      <4>1. U[k] = windows[k].count
        BY <2>3 DEF RefuseCall, UsedOf, Live
      <4>2. /\ windows[k].count >= limit /\ windows[k].count >= 1
            /\ windows[k].count \in Nat
        BY <2>3 DEF RefuseCall, TypeOK
      <4>3. windows[k].count >= Budget
        BY <2>0, <4>2 DEF Budget
      <4> QED
        BY <2>0, <4>1, <4>3
    <3> QED
      BY <2>3, <3>1, <3>2 DEF FW!Refuse, RefuseCall, UsedOf, ClosesOf
  <2>4. ASSUME NEW k \in Keys, Reset(k) PROVE FW!Forget(k)
    <3>1. \A h \in Keys : h # k => UsedOf(h)' = UsedOf(h) /\ ClosesOf(h)' = ClosesOf(h)
      BY <2>4, SameView DEF Reset, TypeOK
    <3>2. UsedOf(k)' = 0 /\ ClosesOf(k)' = 0
      BY <2>4 DEF Reset, TypeOK, UsedOf, ClosesOf, Live, Exists, NoBucket
    <3>3. U' = [U EXCEPT ![k] = 0] /\ C' = [C EXCEPT ![k] = 0]
      BY <3>1, <3>2
    <3> QED
      BY <2>4, <3>3 DEF FW!Forget, Reset, UsedOf, ClosesOf
  <2>5. CASE Cleanup
    <3>1. ASSUME NEW k \in Keys
          PROVE  UsedOf(k)' = UsedOf(k) /\ ClosesOf(k)' = ClosesOf(k)
      <4>1. CASE Expired(k)
        BY <2>5, <4>1 DEF Cleanup, UsedOf, ClosesOf, Live, Exists, NoBucket
      <4>2. CASE ~Expired(k)
        BY <2>5, <4>2, SameView DEF Cleanup
      <4> QED
        BY <4>1, <4>2
    <3> QED
      BY <2>5, <3>1 DEF Cleanup
  <2>6. CASE Tick
    <3>1. ASSUME NEW k \in Keys
          PROVE  /\ UsedOf(k)' = IF ClosesOf(k) < now + 1 THEN 0 ELSE UsedOf(k)
                 /\ ClosesOf(k)' = IF ClosesOf(k) < now + 1 THEN 0 ELSE ClosesOf(k)
      <4>1. windows'[k] = windows[k] /\ now' = now + 1 /\ windows[k].resetAt \in Nat
        BY <2>6 DEF Tick, TypeOK
      <4> QED
        BY <2>0, <4>1 DEF UsedOf, ClosesOf, Live, Exists, Expired, NoBucket
    <3>2. FW!TimePasses
      BY <2>6, <3>1 DEF FW!TimePasses, Tick, UsedOf, ClosesOf
    <3> QED
      BY <3>2 DEF FW!FWNext
  <2>7. CASE UNCHANGED vars
    BY <2>7, SameView DEF vars
  <2> QED
    BY <2>1, <2>2, <2>3, <2>4, <2>5, <2>6, <2>7 DEF Next, Allow, FW!FWNext
<1> QED
  BY <1>1, <1>2, TypeCorrect, PTL DEF Spec, ImplementsFixedWindow, FW!FWSpec

-----------------------------------------------------------------------------
(* The anomaly detector.                                                    *)

\* Every sample the baseline holds is at least one, in the copies of it too: Record
\* counts the call itself.
Baselines ==
  /\ rateBaseline.sum >= rateBaseline.count
  /\ \A c \in Calls : /\ mean[c].sum >= mean[c].count
                      /\ pc[c] # "record" => value[c] >= 1

\* What a call can have reported and looked at by its stage.
Stages ==
  \A c \in Calls :
    /\ pc[c] = "record" => reported[c] = {}
    /\ "suspicious_sequence" \in reported[c] => pc[c] \in {"learn", "done"}
    /\ pc[c] \in {"learn", "done"} => looked[c].learned <= Len(learned)

\* The calls recorded are over and their tools known; a tool once known stays so, so
\* that what a call saw of its own tool still holds when it is recorded.
LearningOf(c) ==
  /\ heard[c] \subseteq ToSet(learned)
  /\ pc[c] \in {"unknown", "sequence", "learn", "done"} /\ known[c]
       => ToolOf[c] \in knownTools
  /\ pc[c] = "unknown" /\ ~known[c] => \A b \in heard[c] : ToolOf[b] # ToolOf[c]
  /\ pc[c] \in {"sequence", "learn", "done"} =>
       known[c] \/ "unknown_tool" \in reported[c] \/ looked[c].count <= 5

Learning ==
  /\ \A b \in ToSet(learned) : pc[b] = "done" /\ ToolOf[b] \in knownTools
  /\ \A c \in Calls : LearningOf(c)

\* A count of more than one counts another call of the tool, made before in the same
\* interval: the window knows no tool that was not called in it.
CountedBefore(c) ==
  \E b \in Calls \ {c} :
    ToolOf[b] = ToolOf[c] /\ pc[b] # "record" /\ at[b] = at[c] /\ value[b] < value[c]

Counting ==
  /\ \A c \in Calls : pc[c] # "record" /\ value[c] >= 2 => CountedBefore(c)
  /\ \A t \in Tools : window[t] >= 1 =>
       \E b \in Calls : /\ ToolOf[b] = t /\ pc[b] # "record"
                        /\ at[b] = interval /\ value[b] <= window[t]

\* No call whose count is one is reported for it.
NeverFirst == \A c \in Calls : "high_rate" \in reported[c] => value[c] >= 2

DetectorInv ==
  /\ DetectorTypeOK /\ Baselines /\ Stages /\ Learning /\ Counting
  /\ UnknownToolsReported /\ SequencesReported /\ NeverFirst

\* The tools of the calls in a sequence.
ToolsOf(s) == [i \in 1..Len(s) |-> ToolOf[s[i]]]

\* A value of at most one never exceeds a mean of samples of at least one.
LEMMA OneIsNoExcess ==
  ASSUME NEW v \in Nat, v <= 1, NEW n \in Nat, NEW s \in Nat, s >= n
  PROVE  ~(v * n - s > 0)
<1>1. CASE v = 0
  BY <1>1
<1>2. CASE v = 1
  BY <1>2
<1> QED BY <1>1, <1>2

\* So a rate of one is never reported.
LEMMA OneDoesNotExceed ==
  ASSUME NEW v \in Nat, v <= 1, NEW m \in [count : Nat, sum : Nat, sq : Nat],
         m.sum >= m.count, NEW sp
  PROVE  ~Exceeds(v, sp, m)
<1>1. m.count \in Nat /\ m.sum \in Nat
  OBVIOUS
<1>2. ~(v * m.count - m.sum > 0)
  BY <1>1, OneIsNoExcess
<1> QED BY <1>2 DEF Exceeds

\* Appending a call leaves what was recorded before it in place.
LEMMA PrefixStays ==
  ASSUME NEW T, NEW s \in Seq(T), NEW e \in T, NEW k \in 0..Len(s)
  PROVE  SubSeq(Append(s, e), 1, k) = SubSeq(s, 1, k)
OBVIOUS

\* The whole of a sequence is a prefix of it.
LEMMA WholePrefix ==
  ASSUME NEW T, NEW s \in Seq(T)
  PROVE  SubSeq(s, 1, Len(s)) = s
OBVIOUS

\* Append adds its element to the set of them.
LEMMA AppendedSet ==
  ASSUME NEW T, NEW s \in Seq(T), NEW e \in T
  PROVE  ToSet(Append(s, e)) = ToSet(s) \cup {e}
<1>1. \A i \in 1..Len(s) : Append(s, e)[i] = s[i]
  OBVIOUS
<1>2. Append(s, e)[Len(s) + 1] = e /\ Len(Append(s, e)) = Len(s) + 1 /\ Len(s) \in Nat
  OBVIOUS
<1>3. ASSUME NEW x \in ToSet(Append(s, e)) PROVE x \in ToSet(s) \cup {e}
  <2>1. PICK i \in 1..(Len(s) + 1) : x = Append(s, e)[i]
    BY <1>2, <1>3 DEF ToSet
  <2>2. CASE i = Len(s) + 1
    BY <1>2, <2>1, <2>2
  <2>3. CASE i # Len(s) + 1
    <3>1. i \in 1..Len(s)
      BY <1>2, <2>3
    <3> QED BY <1>1, <2>1, <3>1 DEF ToSet
  <2> QED BY <2>2, <2>3
<1>4. ASSUME NEW x \in ToSet(s) PROVE x \in ToSet(Append(s, e))
  <2>1. PICK i \in 1..Len(s) : x = s[i]
    BY <1>4 DEF ToSet
  <2>2. i \in 1..(Len(s) + 1)
    BY <1>2
  <2> QED BY <1>1, <1>2, <2>1, <2>2 DEF ToSet
<1>5. e \in ToSet(Append(s, e))
  <2>1. Len(s) + 1 \in 1..(Len(s) + 1)
    BY <1>2
  <2> QED BY <1>2, <2>1 DEF ToSet
<1> QED BY <1>3, <1>4, <1>5

\* The elements of a sequence are in its set and in its type.
LEMMA Elements ==
  ASSUME NEW T, NEW s \in Seq(T)
  PROVE  /\ ToSet(s) \subseteq T
         /\ \A i \in 1..Len(s) : s[i] \in ToSet(s)
BY DEF ToSet

\* How many of l elements a queue of n keeps, and the queue of recordTool.
AtMost(l, n) == IF l <= n THEN l ELSE n
Push(p, e, n) == IF Len(p) + 1 > n THEN Tail(Append(p, e)) ELSE Append(p, e)

\* The last n elements are a sequence of their own, with the last of the whole.
LEMMA LastOfIs ==
  ASSUME NEW T, NEW s \in Seq(T), NEW n \in Nat
  PROVE  /\ LastOf(s, n) \in Seq(T)
         /\ Len(LastOf(s, n)) = AtMost(Len(s), n)
         /\ \A i \in 1..AtMost(Len(s), n) :
              LastOf(s, n)[i] = s[Len(s) - AtMost(Len(s), n) + i]
<1>1. CASE Len(s) <= n
  BY <1>1 DEF LastOf, AtMost
<1>2. CASE ~(Len(s) <= n)
  <2>1. Len(s) \in Nat /\ Len(s) - n + 1 \in 1..(Len(s) + 1)
    BY <1>2
  <2>2. /\ SubSeq(s, Len(s) - n + 1, Len(s)) \in Seq(T)
        /\ Len(SubSeq(s, Len(s) - n + 1, Len(s))) = n
    BY <1>2, <2>1
  <2>3. ASSUME NEW i \in 1..n
        PROVE  SubSeq(s, Len(s) - n + 1, Len(s))[i] = s[Len(s) - n + i]
    BY <1>2, <2>1
  <2>4. LastOf(s, n) = SubSeq(s, Len(s) - n + 1, Len(s))
    BY <1>2 DEF LastOf
  <2> QED BY <1>2, <2>2, <2>3, <2>4 DEF AtMost
<1> QED BY <1>1, <1>2

\* The tools of a sequence of calls, one for one.
LEMMA ToolsOfIs ==
  ASSUME NEW s \in Seq(Calls)
  PROVE  /\ ToolsOf(s) \in Seq(Tools) /\ Len(ToolsOf(s)) = Len(s)
         /\ \A i \in 1..Len(s) : ToolsOf(s)[i] = ToolOf[s[i]]
<1>1. \A i \in 1..Len(s) : s[i] \in Calls
  OBVIOUS
<1>2. \A i \in 1..Len(s) : ToolOf[s[i]] \in Tools
  BY <1>1 DEF Tools
<1>3. Len(s) \in Nat
  OBVIOUS
<1> QED BY <1>2, <1>3 DEF ToolsOf

\* Two sequences of one length and with the same elements are the same.
LEMMA SameSeq ==
  ASSUME NEW T, NEW s \in Seq(T), NEW t \in Seq(T), Len(s) = Len(t),
         \A i \in 1..Len(s) : s[i] = t[i]
  PROVE  s = t
OBVIOUS

\* Push drops one element of a full queue.
Over(l, n) == IF l + 1 > n THEN 1 ELSE 0

\* What Push makes of the elements of a queue.
LEMMA Pushed ==
  ASSUME NEW p \in Seq(Tools), NEW e \in Tools, NEW n \in Nat, NEW l \in Nat, Len(p) = l
  PROVE  /\ Push(p, e, n) \in Seq(Tools)
         /\ Len(Push(p, e, n)) = l + 1 - Over(l, n)
         /\ \A i \in 1..(l + 1 - Over(l, n)) :
              Push(p, e, n)[i] = IF i + Over(l, n) = l + 1 THEN e ELSE p[i + Over(l, n)]
<1> DEFINE a == Append(p, e)
<1>1. /\ a \in Seq(Tools) /\ Len(a) = l + 1
      /\ \A i \in 1..Len(a) : a[i] = IF i = l + 1 THEN e ELSE p[i]
  OBVIOUS
<1>2. a # <<>>
  OBVIOUS
<1>3. /\ Tail(a) \in Seq(Tools) /\ Len(Tail(a)) = l
      /\ \A i \in 1..l : Tail(a)[i] = a[i + 1]
  BY <1>1, <1>2
<1>4. CASE l + 1 > n
  <2>1. ASSUME NEW i \in 1..l
        PROVE  Tail(a)[i] = IF i + 1 = l + 1 THEN e ELSE p[i + 1]
    <3>1. i + 1 \in 1..Len(a)
      BY <1>1
    <3> QED BY <1>1, <1>3, <3>1
  <2>2. Push(p, e, n) = Tail(a)
    BY <1>4 DEF Push
  <2> HIDE DEF a
  <2>3. Over(l, n) = 1 /\ l + 1 - 1 = l
    BY <1>4 DEF Over
  <2> QED BY <1>3, <1>4, <2>1, <2>2, <2>3
<1>5. CASE ~(l + 1 > n)
  <2>1. Push(p, e, n) = a
    BY <1>5 DEF Push
  <2>2. \A i \in 1..(l + 1) : a[i] = IF i + 0 = l + 1 THEN e ELSE p[i + 0]
    BY <1>1
  <2> HIDE DEF a
  <2>3. Over(l, n) = 0 /\ l + 1 - 0 = l + 1
    BY <1>5 DEF Over
  <2> QED BY <1>1, <1>5, <2>1, <2>2, <2>3
<1> QED BY <1>4, <1>5

\* The queue of recordTool holds the tools of the n calls recorded last.
LEMMA Remembered ==
  ASSUME NEW s \in Seq(Calls), NEW c \in Calls, NEW n \in Nat
  PROVE  Push(ToolsOf(LastOf(s, n)), ToolOf[c], n) = ToolsOf(LastOf(Append(s, c), n))
<1>1. PICK k : k = AtMost(Len(s), n)
  OBVIOUS
<1>2. PICK t : t = Append(s, c)
  OBVIOUS
<1>3. PICK m : m = AtMost(Len(t), n)
  OBVIOUS
<1>4. PICK p : p = ToolsOf(LastOf(s, n))
  OBVIOUS
<1>5. PICK q : q = Push(p, ToolOf[c], n)
  OBVIOUS
<1>6. PICK r : r = ToolsOf(LastOf(t, n))
  OBVIOUS
<1>7. /\ p \in Seq(Tools) /\ Len(p) = k
      /\ \A i \in 1..k : p[i] = ToolOf[s[Len(s) - k + i]]
  <2>1. /\ LastOf(s, n) \in Seq(Calls) /\ Len(LastOf(s, n)) = k
        /\ \A i \in 1..k : LastOf(s, n)[i] = s[Len(s) - k + i]
    BY <1>1, LastOfIs
  <2>2. /\ p \in Seq(Tools) /\ Len(p) = Len(LastOf(s, n))
        /\ \A i \in 1..Len(LastOf(s, n)) : p[i] = ToolOf[LastOf(s, n)[i]]
    BY <1>4, <2>1, ToolsOfIs
  <2> QED BY <2>1, <2>2
<1>8. /\ t \in Seq(Calls) /\ Len(t) = Len(s) + 1 /\ Len(s) \in Nat
      /\ \A i \in 1..Len(t) : t[i] = IF i = Len(s) + 1 THEN c ELSE s[i]
  BY <1>2
<1>9. /\ r \in Seq(Tools) /\ Len(r) = m
      /\ \A i \in 1..m : r[i] = ToolOf[t[Len(t) - m + i]]
  <2>1. /\ LastOf(t, n) \in Seq(Calls) /\ Len(LastOf(t, n)) = m
        /\ \A i \in 1..m : LastOf(t, n)[i] = t[Len(t) - m + i]
    BY <1>3, <1>8, LastOfIs
  <2>2. /\ r \in Seq(Tools) /\ Len(r) = Len(LastOf(t, n))
        /\ \A i \in 1..Len(LastOf(t, n)) : r[i] = ToolOf[LastOf(t, n)[i]]
    BY <1>6, <2>1, ToolsOfIs
  <2> QED BY <2>1, <2>2
<1>10. k \in Nat /\ k <= Len(s) /\ m \in Nat
  BY <1>1, <1>3, <1>8 DEF AtMost
<1>11. PICK d \in {0, 1} : d = Over(k, n)
  BY DEF Over
<1>12. /\ q \in Seq(Tools) /\ Len(q) = k + 1 - d
       /\ \A i \in 1..(k + 1 - d) : q[i] = IF i + d = k + 1 THEN ToolOf[c] ELSE p[i + d]
  <2>1. ToolOf[c] \in Tools
    BY DEF Tools
  <2>2. p \in Seq(Tools) /\ Len(p) = k /\ k \in Nat
    BY <1>7, <1>10
  <2>3. /\ Push(p, ToolOf[c], n) \in Seq(Tools)
        /\ Len(Push(p, ToolOf[c], n)) = k + 1 - Over(k, n)
        /\ \A i \in 1..(k + 1 - Over(k, n)) :
             Push(p, ToolOf[c], n)[i]
               = IF i + Over(k, n) = k + 1 THEN ToolOf[c] ELSE p[i + Over(k, n)]
    BY <2>1, <2>2, Pushed
  <2> QED BY <1>5, <1>11, <2>3
<1>13. m = k + 1 - d /\ Len(t) - m = Len(s) - k + d
  <2>1. d \in {0, 1} /\ (d = 1 <=> k + 1 > n)
    BY <1>10, <1>11 DEF Over
  <2>2. Len(t) = Len(s) + 1 /\ Len(s) \in Nat
    BY <1>8
  <2>3. m = k + 1 - d
    <3>1. CASE Len(s) < n
      BY <1>1, <1>3, <2>1, <2>2, <3>1 DEF AtMost
    <3>2. CASE ~(Len(s) < n)
      BY <1>1, <1>3, <2>1, <2>2, <3>2 DEF AtMost
    <3> QED BY <3>1, <3>2
  <2> QED BY <1>10, <2>1, <2>2, <2>3
<1>14. ASSUME NEW i \in 1..m PROVE q[i] = r[i]
  <2>1. r[i] = ToolOf[t[Len(s) - k + d + i]]
    BY <1>9, <1>13
  <2>2. q[i] = IF i + d = k + 1 THEN ToolOf[c] ELSE p[i + d]
    BY <1>13, <1>12
  <2>3. CASE i + d = k + 1
    <3>1. Len(s) - k + d + i = Len(s) + 1
      BY <1>8, <1>10, <2>3
    <3>2. t[Len(s) - k + d + i] = c
      BY <1>8, <3>1
    <3> QED BY <2>1, <2>2, <2>3, <3>2
  <2>4. CASE i + d # k + 1
    <3>1. i + d \in 1..k
      BY <1>10, <1>13, <2>4
    <3>2. p[i + d] = ToolOf[s[Len(s) - k + (i + d)]]
      BY <1>7, <3>1
    <3>3. /\ Len(s) - k + (i + d) = Len(s) - k + d + i
          /\ Len(s) - k + d + i \in 1..Len(s)
      BY <1>8, <1>10, <3>1
    <3>4. t[Len(s) - k + d + i] = s[Len(s) - k + d + i]
      BY <1>8, <3>3
    <3> QED BY <2>1, <2>2, <2>4, <3>2, <3>3, <3>4
  <2> QED BY <2>3, <2>4
<1>15. q = r
  BY <1>9, <1>13, <1>14, <1>12, SameSeq
<1> QED BY <1>2, <1>4, <1>5, <1>6, <1>15

\* The tools of a sequence's calls, as a set.
LEMMA SetOfTools ==
  ASSUME NEW s \in Seq(Calls)
  PROVE  ToSet(ToolsOf(s)) = {ToolOf[b] : b \in ToSet(s)}
<1>1. DOMAIN ToolsOf(s) = 1..Len(s) /\ DOMAIN s = 1..Len(s)
  BY DEF ToolsOf
<1>2. \A i \in 1..Len(s) : ToolsOf(s)[i] = ToolOf[s[i]]
  BY DEF ToolsOf
<1> HIDE DEF ToolsOf
<1> QED BY <1>1, <1>2 DEF ToSet


\* What was reported of the sequences stays right where no call is recorded and none
\* makes its check.
LEMMA SequencesKept ==
  ASSUME SequencesReported, UNCHANGED <<previousTools, learned>>,
         \A d \in Calls : pc'[d] \in {"learn", "done"} =>
           /\ pc[d] \in {"learn", "done"}
           /\ "suspicious_sequence" \in reported'[d] <=> "suspicious_sequence" \in reported[d]
           /\ looked'[d].learned = looked[d].learned
  PROVE  SequencesReported'
BY DEF SequencesReported

\* What was reported of the tools stays right where none is recorded.
LEMMA UnknownKept ==
  ASSUME UnknownToolsReported, UNCHANGED <<knownTools, learned>>,
         \A b \in ToSet(learned) :
           /\ "unknown_tool" \in reported[b] => "unknown_tool" \in reported'[b]
           /\ looked'[b].count = looked[b].count,
         \A d \in Calls : "unknown_tool" \in reported'[d] =>
           \A b \in heard'[d] : ToolOf[b] # ToolOf[d]
  PROVE  UnknownToolsReported'
<1>1. ToSet(learned)' = ToSet(learned)
  BY DEF ToSet
<1> QED BY <1>1 DEF UnknownToolsReported

\* The calls recorded are calls, and over.
LEMMA RecordedAreOver ==
  ASSUME DetectorTypeOK, Learning
  PROVE  \A b \in ToSet(learned) : b \in Calls /\ pc[b] = "done"
<1>1. ToSet(learned) \subseteq Calls
  BY Elements DEF DetectorTypeOK
<1> QED BY <1>1 DEF Learning, LearningOf

\* The counts stay right where no call is counted.
LEMMA CountingKept ==
  ASSUME Counting, UNCHANGED <<value, at, interval, window>>,
         \A d \in Calls : pc'[d] = "record" <=> pc[d] = "record"
  PROVE  Counting'
BY DEF Counting, CountedBefore

\* Counting a call: what the window held was counted before it.
LEMMA RecordCounts ==
  ASSUME DetectorTypeOK, Counting, NEW c \in Calls, Record(c)
  PROVE  Counting'
<1>1. /\ pc[c] = "record" /\ pc'[c] = "update" /\ value'[c] = window[ToolOf[c]] + 1
      /\ at'[c] = interval /\ interval' = interval
      /\ window' = [window EXCEPT ![ToolOf[c]] = @ + 1]
      /\ \A d \in Calls \ {c} : pc'[d] = pc[d] /\ value'[d] = value[d] /\ at'[d] = at[d]
  BY DEF DetectorTypeOK, Record, Goto
<1>2. ToolOf[c] \in Tools /\ window \in [Tools -> Nat]
  BY DEF DetectorTypeOK, Tools
<1>3. \A d \in Calls : value[d] \in Nat
  BY DEF DetectorTypeOK
<1>4. ASSUME NEW d \in Calls, pc'[d] # "record", value'[d] >= 2
      PROVE  CountedBefore(d)'
  <2>1. CASE d = c
    <3>1. window[ToolOf[c]] >= 1 /\ window[ToolOf[c]] \in Nat
      BY <1>1, <1>2, <1>4, <2>1
    <3>2. PICK b \in Calls : /\ ToolOf[b] = ToolOf[c] /\ pc[b] # "record"
                             /\ at[b] = interval /\ value[b] <= window[ToolOf[c]]
      BY <1>2, <3>1 DEF Counting
    <3>3. b # c /\ value'[b] < value'[c]
      BY <1>1, <1>3, <3>1, <3>2
    <3> QED BY <1>1, <2>1, <3>2, <3>3 DEF CountedBefore
  <2>2. CASE d # c
    <3>1. CountedBefore(d)
      BY <1>1, <1>4, <2>2 DEF Counting
    <3>2. PICK b \in Calls \ {d} : /\ ToolOf[b] = ToolOf[d] /\ pc[b] # "record"
                                   /\ at[b] = at[d] /\ value[b] < value[d]
      BY <3>1 DEF CountedBefore
    <3>3. b # c
      BY <1>1, <3>2
    <3> QED BY <1>1, <2>2, <3>2, <3>3 DEF CountedBefore
  <2> QED BY <2>1, <2>2
<1>5. ASSUME NEW t \in Tools, window'[t] >= 1
      PROVE  \E b \in Calls : /\ ToolOf[b] = t /\ pc'[b] # "record"
                              /\ at'[b] = interval' /\ value'[b] <= window'[t]
  <2>1. CASE t = ToolOf[c]
    <3>1. value'[c] <= window'[t]
      BY <1>1, <1>2, <2>1
    <3> QED BY <1>1, <2>1, <3>1
  <2>2. CASE t # ToolOf[c]
    <3>1. window'[t] = window[t]
      BY <1>1, <1>2, <2>2
    <3>2. PICK b \in Calls : /\ ToolOf[b] = t /\ pc[b] # "record"
                             /\ at[b] = interval /\ value[b] <= window[t]
      BY <1>5, <3>1 DEF Counting
    <3>3. b # c
      BY <1>1, <3>2
    <3> QED BY <1>1, <3>1, <3>2, <3>3
  <2> QED BY <2>1, <2>2
<1> QED BY <1>4, <1>5 DEF Counting

\* Counting a call keeps the invariant.
LEMMA RecordKeeps ==
  ASSUME DetectorInv, NEW c \in Calls, Record(c)
  PROVE  DetectorInv'
<1> USE DEF DetectorInv, Record, Goto, shared, local, histories
<1>1. DetectorTypeOK'
  <2>1. ToolOf[c] \in Tools
    BY DEF Tools
  <2>2. window' \in [Tools -> Nat] /\ value' \in [Calls -> Nat]
    <3>1. window[ToolOf[c]] \in Nat
      BY <2>1 DEF DetectorTypeOK
    <3>2. window[ToolOf[c]] + 1 \in Nat
      BY <3>1
    <3> QED BY <2>1, <3>2 DEF DetectorTypeOK
  <2>3. heard' \in [Calls -> SUBSET Calls]
    BY Elements DEF DetectorTypeOK
  <2> QED BY <2>2, <2>3 DEF DetectorTypeOK, Steps
<1>2. Baselines'
  <2>1. ToolOf[c] \in Tools
    BY DEF Tools
  <2>2. window[ToolOf[c]] + 1 >= 1
    BY <2>1 DEF DetectorTypeOK
  <2> QED BY <2>2 DEF DetectorTypeOK, Baselines
<1>3. Stages'
  BY DEF DetectorTypeOK, Stages, Report
<1>4. Learning'
  <2>1. \A b \in ToSet(learned) : b \in Calls /\ b # c
    BY RecordedAreOver
  <2>2. ToSet(learned') = ToSet(learned)
    OBVIOUS
  <2> QED BY <2>1, <2>2 DEF DetectorTypeOK, Learning, LearningOf, Report
<1>5. UnknownToolsReported'
  <2>1. \A b \in ToSet(learned) : b \in Calls /\ b # c
    BY RecordedAreOver
  <2>2. \A d \in Calls : "unknown_tool" \in reported[d] =>
          \A b \in heard[d] : ToolOf[b] # ToolOf[d]
    BY DEF UnknownToolsReported
  <2> QED BY <2>1, <2>2, UnknownKept DEF DetectorTypeOK, Report, Stages
<1>6. SequencesReported'
  BY SequencesKept DEF DetectorTypeOK, Report
<1>7. NeverFirst'
  BY DEF DetectorTypeOK, NeverFirst, Report, Stages
<1>8. Counting'
  BY RecordCounts
<1> QED BY <1>1, <1>2, <1>3, <1>4, <1>5, <1>6, <1>7, <1>8 DEF DetectorInv

\* A sample of at least one keeps the invariant.
LEMMA UpdateKeeps ==
  ASSUME DetectorInv, NEW c \in Calls, Update(c)
  PROVE  DetectorInv'
<1> USE DEF DetectorInv, Update, Goto, shared, local, histories
<1>1. DetectorTypeOK'
  <2>1. /\ rateBaseline.count \in Nat /\ rateBaseline.sum \in Nat
        /\ rateBaseline.sq \in Nat /\ value[c] \in Nat
    BY DEF DetectorTypeOK
  <2>2. value[c] * value[c] \in Nat
    BY <2>1
  <2>3. rateBaseline' \in [count : Nat, sum : Nat, sq : Nat]
    BY <2>1, <2>2
  <2> QED BY <2>3 DEF DetectorTypeOK, Steps
<1>2. Baselines'
  <2>1. /\ rateBaseline.count \in Nat /\ rateBaseline.sum \in Nat
        /\ rateBaseline.sum >= rateBaseline.count /\ value[c] \in Nat /\ value[c] >= 1
    BY DEF DetectorTypeOK, Baselines
  <2>2. rateBaseline'.sum >= rateBaseline'.count
    BY <2>1
  <2> QED BY <2>2 DEF DetectorTypeOK, Baselines
<1>3. Stages'
  BY DEF DetectorTypeOK, Stages, Report
<1>4. Learning'
  <2>1. \A b \in ToSet(learned) : b \in Calls /\ b # c
    BY RecordedAreOver
  <2>2. ToSet(learned') = ToSet(learned)
    OBVIOUS
  <2> QED BY <2>1, <2>2 DEF DetectorTypeOK, Learning, LearningOf, Report
<1>5. UnknownToolsReported'
  <2>1. \A b \in ToSet(learned) : b \in Calls /\ b # c
    BY RecordedAreOver
  <2>2. \A d \in Calls : "unknown_tool" \in reported[d] =>
          \A b \in heard[d] : ToolOf[b] # ToolOf[d]
    BY DEF UnknownToolsReported
  <2> QED BY <2>1, <2>2, UnknownKept DEF DetectorTypeOK, Report, Stages
<1>6. SequencesReported'
  BY SequencesKept DEF DetectorTypeOK, Report
<1>7. NeverFirst'
  BY DEF DetectorTypeOK, NeverFirst, Report, Stages
<1>8. Counting'
  BY CountingKept DEF DetectorTypeOK
<1> QED BY <1>1, <1>2, <1>3, <1>4, <1>5, <1>6, <1>7, <1>8 DEF DetectorInv

\* Reading the deviation keeps the invariant.
LEMMA ReadStdKeeps ==
  ASSUME DetectorInv, NEW c \in Calls, ReadStd(c)
  PROVE  DetectorInv'
<1> USE DEF DetectorInv, ReadStd, Goto, shared, local, histories
<1>1. DetectorTypeOK'
  BY DEF DetectorTypeOK, Steps, Report
<1>2. Baselines'
  BY DEF DetectorTypeOK, Baselines, Report
<1>3. Stages'
  BY DEF DetectorTypeOK, Stages, Report
<1>4. Learning'
  <2>1. \A b \in ToSet(learned) : b \in Calls /\ b # c
    BY RecordedAreOver
  <2>2. ToSet(learned') = ToSet(learned)
    OBVIOUS
  <2> QED BY <2>1, <2>2 DEF DetectorTypeOK, Learning, LearningOf, Report
<1>5. UnknownToolsReported'
  <2>1. \A b \in ToSet(learned) : b \in Calls /\ b # c
    BY RecordedAreOver
  <2>2. \A d \in Calls : "unknown_tool" \in reported[d] =>
          \A b \in heard[d] : ToolOf[b] # ToolOf[d]
    BY DEF UnknownToolsReported
  <2> QED BY <2>1, <2>2, UnknownKept DEF DetectorTypeOK, Report, Stages
<1>6. SequencesReported'
  BY SequencesKept DEF DetectorTypeOK, Report
<1>7. NeverFirst'
  BY DEF DetectorTypeOK, NeverFirst, Report, Stages
<1>8. Counting'
  BY CountingKept DEF DetectorTypeOK
<1> QED BY <1>1, <1>2, <1>3, <1>4, <1>5, <1>6, <1>7, <1>8 DEF DetectorInv

\* Reading the mean keeps the invariant.
LEMMA ReadMeanKeeps ==
  ASSUME DetectorInv, NEW c \in Calls, ReadMean(c)
  PROVE  DetectorInv'
<1> USE DEF DetectorInv, ReadMean, Goto, shared, local, histories
<1>1. DetectorTypeOK'
  BY DEF DetectorTypeOK, Steps, Report
<1>2. Baselines'
  BY DEF DetectorTypeOK, Baselines, Report
<1>3. Stages'
  BY DEF DetectorTypeOK, Stages, Report
<1>4. Learning'
  <2>1. \A b \in ToSet(learned) : b \in Calls /\ b # c
    BY RecordedAreOver
  <2>2. ToSet(learned') = ToSet(learned)
    OBVIOUS
  <2> QED BY <2>1, <2>2 DEF DetectorTypeOK, Learning, LearningOf, Report
<1>5. UnknownToolsReported'
  <2>1. \A b \in ToSet(learned) : b \in Calls /\ b # c
    BY RecordedAreOver
  <2>2. \A d \in Calls : "unknown_tool" \in reported[d] =>
          \A b \in heard[d] : ToolOf[b] # ToolOf[d]
    BY DEF UnknownToolsReported
  <2> QED BY <2>1, <2>2, UnknownKept DEF DetectorTypeOK, Report, Stages
<1>6. SequencesReported'
  BY SequencesKept DEF DetectorTypeOK, Report
<1>7. NeverFirst'
  BY DEF DetectorTypeOK, NeverFirst, Report, Stages
<1>8. Counting'
  BY CountingKept DEF DetectorTypeOK
<1> QED BY <1>1, <1>2, <1>3, <1>4, <1>5, <1>6, <1>7, <1>8 DEF DetectorInv

\* The check of the rate keeps the invariant.
LEMMA CheckRateKeeps ==
  ASSUME DetectorInv, NEW c \in Calls, CheckRate(c)
  PROVE  DetectorInv'
<1> USE DEF DetectorInv, CheckRate, Goto, shared, local, histories
<1>1. DetectorTypeOK'
  BY DEF DetectorTypeOK, Steps, Report
<1>2. Baselines'
  BY DEF DetectorTypeOK, Baselines, Report
<1>3. Stages'
  BY DEF DetectorTypeOK, Stages, Report
<1>4. Learning'
  <2>1. \A b \in ToSet(learned) : b \in Calls /\ b # c
    BY RecordedAreOver
  <2>2. ToSet(learned') = ToSet(learned)
    OBVIOUS
  <2> QED BY <2>1, <2>2 DEF DetectorTypeOK, Learning, LearningOf, Report
<1>5. UnknownToolsReported'
  <2>1. \A b \in ToSet(learned) : b \in Calls /\ b # c
    BY RecordedAreOver
  <2>2. \A d \in Calls : "unknown_tool" \in reported[d] =>
          \A b \in heard[d] : ToolOf[b] # ToolOf[d]
    BY DEF UnknownToolsReported
  <2> QED BY <2>1, <2>2, UnknownKept DEF DetectorTypeOK, Report, Stages
<1>6. SequencesReported'
  BY SequencesKept DEF DetectorTypeOK, Report
<1>7. NeverFirst'
  <2>1. mean[c] \in [count : Nat, sum : Nat, sq : Nat] /\ mean[c].sum >= mean[c].count
    BY DEF DetectorTypeOK, Baselines
  <2>2. value[c] <= 1 => ~Exceeds(value[c], spread[c], mean[c])
    BY <2>1, OneDoesNotExceed DEF DetectorTypeOK
  <2> QED BY <2>2 DEF DetectorTypeOK, NeverFirst, Report
<1>8. Counting'
  BY CountingKept DEF DetectorTypeOK
<1> QED BY <1>1, <1>2, <1>3, <1>4, <1>5, <1>6, <1>7, <1>8 DEF DetectorInv

\* Reading the tools keeps the invariant.
LEMMA ReadKnownKeeps ==
  ASSUME DetectorInv, NEW c \in Calls, ReadKnown(c)
  PROVE  DetectorInv'
<1> USE DEF DetectorInv, ReadKnown, Goto, shared, local, histories
<1>1. DetectorTypeOK'
  <2>1. known' \in [Calls -> BOOLEAN]
    BY DEF DetectorTypeOK
  <2>2. pc' \in [Calls -> Steps]
    BY DEF DetectorTypeOK, Steps
  <2> HIDE DEF ReadKnown
  <2>3. UNCHANGED <<shared, value, spread, mean, reported, histories>>
    BY DEF ReadKnown
  <2> QED BY <2>1, <2>2, <2>3 DEF DetectorTypeOK
<1>2. Baselines'
  BY DEF DetectorTypeOK, Baselines, Report
<1>3. Stages'
  BY DEF DetectorTypeOK, Stages, Report
<1>4. Learning'
  <2>1. \A b \in ToSet(learned) : b \in Calls /\ b # c
    BY RecordedAreOver
  <2>2. ToSet(learned') = ToSet(learned)
    OBVIOUS
  <2> QED BY <2>1, <2>2 DEF DetectorTypeOK, Learning, LearningOf, Report
<1>5. UnknownToolsReported'
  <2>1. \A b \in ToSet(learned) : b \in Calls /\ b # c
    BY RecordedAreOver
  <2>2. \A d \in Calls : "unknown_tool" \in reported[d] =>
          \A b \in heard[d] : ToolOf[b] # ToolOf[d]
    BY DEF UnknownToolsReported
  <2> QED BY <2>1, <2>2, UnknownKept DEF DetectorTypeOK, Report, Stages
<1>6. SequencesReported'
  BY SequencesKept DEF DetectorTypeOK, Report
<1>7. NeverFirst'
  BY DEF DetectorTypeOK, NeverFirst, Report, Stages
<1>8. Counting'
  BY CountingKept DEF DetectorTypeOK
<1> QED BY <1>1, <1>2, <1>3, <1>4, <1>5, <1>6, <1>7, <1>8 DEF DetectorInv

\* The check of the tool keeps the invariant.
LEMMA CheckUnknownKeeps ==
  ASSUME DetectorInv, NEW c \in Calls, CheckUnknown(c)
  PROVE  DetectorInv'
<1> USE DEF DetectorInv, CheckUnknown, Goto, shared, local, histories
<1>1. DetectorTypeOK'
  BY DEF DetectorTypeOK, Steps, Report
<1>2. Baselines'
  BY DEF DetectorTypeOK, Baselines, Report
<1>3. Stages'
  BY DEF DetectorTypeOK, Stages, Report
<1>4. Learning'
  <2>1. \A b \in ToSet(learned) : b \in Calls /\ b # c
    BY RecordedAreOver
  <2>2. ToSet(learned') = ToSet(learned)
    OBVIOUS
  <2>3. known[c] \/ "unknown_tool" \in reported'[c] \/ looked'[c].count <= 5
    BY DEF DetectorTypeOK, Report
  <2>4. /\ \A d \in Calls : d # c => looked'[d] = looked[d] /\ reported'[d] = reported[d]
        /\ pc' = [pc EXCEPT ![c] = "sequence"]
        /\ pc[c] = "unknown" /\ known' = known /\ heard' = heard
    BY DEF DetectorTypeOK, Report
  <2>5. pc \in [Calls -> Steps] /\ UNCHANGED knownTools
    BY DEF DetectorTypeOK
  <2> HIDE DEF CheckUnknown
  <2>6. \A b \in ToSet(learned') : pc'[b] = "done" /\ ToolOf[b] \in knownTools'
    BY <2>1, <2>2, <2>4, <2>5 DEF Learning, LearningOf
  <2>7. ASSUME NEW d \in Calls PROVE LearningOf(d)'
    <3>1. CASE d = c
      BY <2>2, <2>3, <2>4, <2>5, <3>1 DEF Learning, LearningOf
    <3>2. CASE d # c
      BY <2>2, <2>4, <2>5, <3>2 DEF Learning, LearningOf
    <3> QED BY <3>1, <3>2
  <2> QED BY <2>6, <2>7 DEF Learning
<1>5. UnknownToolsReported'
  <2>1. \A b \in ToSet(learned) : b \in Calls /\ b # c
    BY RecordedAreOver
  <2>2. \A d \in Calls : "unknown_tool" \in reported[d] =>
          \A b \in heard[d] : ToolOf[b] # ToolOf[d]
    BY DEF UnknownToolsReported
  <2>3. ~known[c] => \A b \in heard[c] : ToolOf[b] # ToolOf[c]
    BY DEF Learning, LearningOf
  <2> QED BY <2>1, <2>2, <2>3, UnknownKept DEF DetectorTypeOK, Report, Stages
<1>6. SequencesReported'
  BY SequencesKept DEF DetectorTypeOK, Report
<1>7. NeverFirst'
  BY DEF DetectorTypeOK, NeverFirst, Report, Stages
<1>8. Counting'
  BY CountingKept DEF DetectorTypeOK
<1> QED BY <1>1, <1>2, <1>3, <1>4, <1>5, <1>6, <1>7, <1>8 DEF DetectorInv

\* The check of the sequence keeps the invariant: what it looks at is what is
\* remembered of all calls recorded so far.
LEMMA CheckSequenceKeeps ==
  ASSUME DetectorInv, NEW c \in Calls, CheckSequence(c)
  PROVE  DetectorInv'
<1> USE DEF DetectorInv, CheckSequence, Goto, shared, local, histories
<1>1. DetectorTypeOK'
  <2>1. Len(learned) \in Nat
    BY DEF DetectorTypeOK
  <2>2. looked' \in [Calls -> [count : Nat, learned : Nat]]
    BY <2>1 DEF DetectorTypeOK
  <2> QED BY <2>2 DEF DetectorTypeOK, Steps, Report
<1>2. Baselines'
  BY DEF DetectorTypeOK, Baselines, Report
<1>3. Stages'
  <2>1. Len(learned) \in Nat
    BY DEF DetectorTypeOK
  <2> QED BY <2>1 DEF DetectorTypeOK, Stages, Report
<1>4. Learning'
  <2>1. \A b \in ToSet(learned) : b \in Calls /\ b # c
    BY RecordedAreOver
  <2>2. ToSet(learned') = ToSet(learned)
    OBVIOUS
  <2>3. /\ pc \in [Calls -> Steps] /\ pc' = [pc EXCEPT ![c] = "learn"] /\ pc[c] = "sequence"
        /\ UNCHANGED <<knownTools, known, heard>>
    BY DEF DetectorTypeOK
  <2>4. ASSUME NEW d \in Calls
        PROVE  /\ "unknown_tool" \in reported[d] => "unknown_tool" \in reported'[d]
               /\ looked'[d].count = looked[d].count
    BY DEF DetectorTypeOK, Report
  <2> HIDE DEF CheckSequence
  <2>5. \A b \in ToSet(learned') : pc'[b] = "done" /\ ToolOf[b] \in knownTools'
    BY <2>1, <2>2, <2>3 DEF Learning, LearningOf
  <2>6. ASSUME NEW d \in Calls PROVE LearningOf(d)'
    BY <2>2, <2>3, <2>4 DEF Learning, LearningOf
  <2> QED BY <2>5, <2>6 DEF Learning, LearningOf
<1>5. UnknownToolsReported'
  <2>1. \A b \in ToSet(learned) : b \in Calls /\ b # c
    BY RecordedAreOver
  <2>2. \A d \in Calls : "unknown_tool" \in reported[d] =>
          \A b \in heard[d] : ToolOf[b] # ToolOf[d]
    BY DEF UnknownToolsReported
  <2> QED BY <2>1, <2>2, UnknownKept DEF DetectorTypeOK, Report
<1>6. SequencesReported'
  <2> DEFINE Dangerous == DangerousSequences(ToolOf[c])
             last == LastOf(learned, MaxPrevTools)
  <2>1. previousTools = ToolsOf(last) /\ learned \in Seq(Calls) /\ MaxPrevTools \in Nat
    BY DetectorAssumption DEF SequencesReported, ToolsOf, DetectorTypeOK
  <2>2. last \in Seq(Calls)
    BY <2>1, LastOfIs
  <2>3. ToSet(previousTools) = {ToolOf[b] : b \in ToSet(last)}
    BY <2>1, <2>2, SetOfTools
  <2>4. SubSeq(learned, 1, Len(learned)) = learned
    BY <2>1, WholePrefix
  <2>5. /\ looked'[c].learned = Len(learned)
        /\ \A d \in Calls : d # c => looked'[d] = looked[d] /\ reported'[d] = reported[d]
    BY DEF DetectorTypeOK, Report
  <2>6. "suspicious_sequence" \in reported'[c]
          <=> ToSet(previousTools) \cap Dangerous # {}
    BY DEF DetectorTypeOK, Report, Stages
  <2> HIDE DEF Dangerous, last
  <2>7. "suspicious_sequence" \in reported'[c]
          <=> \E b \in ToSet(last) : ToolOf[b] \in Dangerous
    BY <2>3, <2>6
  <2>8. "suspicious_sequence" \in reported'[c]
          <=> \E b \in ToSet(LastOf(SubSeq(learned, 1, looked'[c].learned),
                                       MaxPrevTools)) :
                ToolOf[b] \in DangerousSequences(ToolOf[c])
    BY <2>4, <2>5, <2>7 DEF Dangerous, last
  <2>9. ASSUME NEW d \in Calls, d # c, pc'[d] \in {"learn", "done"}
        PROVE  "suspicious_sequence" \in reported'[d]
                 <=> \E b \in ToSet(LastOf(SubSeq(learned, 1, looked'[d].learned),
                                              MaxPrevTools)) :
                       ToolOf[b] \in DangerousSequences(ToolOf[d])
    <3>1. pc[d] \in {"learn", "done"}
      BY <2>9 DEF DetectorTypeOK
    <3> QED BY <2>5, <2>9, <3>1 DEF SequencesReported
  <2>10. UNCHANGED <<previousTools, learned>>
    OBVIOUS
  <2> QED BY <2>8, <2>9, <2>10 DEF SequencesReported
<1>7. NeverFirst'
  BY DEF DetectorTypeOK, NeverFirst, Report
<1>8. Counting'
  BY CountingKept DEF DetectorTypeOK
<1> QED BY <1>1, <1>2, <1>3, <1>4, <1>5, <1>6, <1>7, <1>8 DEF DetectorInv

\* The recording of a tool keeps the invariant.
LEMMA RecordToolKeeps ==
  ASSUME DetectorInv, NEW c \in Calls, RecordTool(c)
  PROVE  DetectorInv'
<1> USE DEF DetectorInv
<1>1. /\ learned \in Seq(Calls) /\ learned' = Append(learned, c)
      /\ Len(learned') = Len(learned) + 1 /\ learned' \in Seq(Calls) /\ Len(learned) \in Nat
      /\ knownTools' = knownTools \cup {ToolOf[c]}
      /\ pc[c] = "learn" /\ pc' = [pc EXCEPT ![c] = "done"]
      /\ UNCHANGED <<interval, window, rateBaseline, local, heard, looked, at>>
  BY DEF DetectorTypeOK, RecordTool, Goto
<1>2. ToSet(learned') = ToSet(learned) \cup {c}
  BY <1>1, AppendedSet
<1>3. previousTools' = Push(previousTools, ToolOf[c], MaxPrevTools)
  BY DEF RecordTool, Push
<1>4. ToolOf[c] \in Tools /\ MaxPrevTools \in Nat
  BY DetectorAssumption DEF Tools
<1>5. \A b \in ToSet(learned) : b \in Calls /\ b # c
  BY <1>1, RecordedAreOver
<1>6. DetectorTypeOK'
  <2>1. PICK l \in Nat : Len(previousTools) = l /\ l <= MaxPrevTools
    BY DEF DetectorTypeOK
  <2>2. /\ previousTools' \in Seq(Tools)
        /\ Len(previousTools') = l + 1 - Over(l, MaxPrevTools)
    BY <1>3, <1>4, <2>1, Pushed DEF DetectorTypeOK
  <2>3. Len(previousTools') <= MaxPrevTools
    BY <1>4, <2>1, <2>2 DEF Over
  <2>4. knownTools' \subseteq Tools /\ pc' \in [Calls -> Steps]
    BY <1>1, <1>4 DEF DetectorTypeOK, Steps
  <2> QED BY <1>1, <2>2, <2>3, <2>4 DEF DetectorTypeOK, local
<1>7. Baselines'
  BY <1>1 DEF DetectorTypeOK, Baselines, local
<1>8. Stages'
  <2>1. UNCHANGED <<reported, looked>> /\ \A d \in Calls : looked[d].learned \in Nat
    BY <1>1 DEF DetectorTypeOK, local
  <2>2. ASSUME NEW d \in Calls, looked[d].learned <= Len(learned)
        PROVE  looked'[d].learned <= Len(learned')
    BY <1>1, <2>1, <2>2
  <2> QED BY <1>1, <2>1, <2>2 DEF DetectorTypeOK, Stages
<1>9. Learning'
  BY <1>1, <1>2, <1>5 DEF DetectorTypeOK, Learning, LearningOf, local
<1>10. UnknownToolsReported'
  <2>1. ASSUME NEW t \in knownTools'
        PROVE  \E b \in ToSet(learned') :
                 ToolOf[b] = t /\ ("unknown_tool" \in reported[b] \/ looked[b].count <= 5)
    <3>1. CASE t \in knownTools
      BY <1>2, <3>1 DEF UnknownToolsReported
    <3>2. CASE t \notin knownTools
      <4>1. t = ToolOf[c] /\ ~known[c]
        BY <1>1, <3>2 DEF Learning, LearningOf
      <4>2. "unknown_tool" \in reported[c] \/ looked[c].count <= 5
        BY <1>1, <4>1 DEF Learning, LearningOf
      <4> QED BY <1>2, <4>1, <4>2
    <3> QED BY <3>1, <3>2
  <2>2. reported' = reported /\ looked' = looked /\ heard' = heard
    BY <1>1 DEF local
  <2> QED BY <2>1, <2>2 DEF UnknownToolsReported
<1>11. SequencesReported'
  <2>1. previousTools' = ToolsOf(LastOf(learned', MaxPrevTools))
    <3>1. previousTools = ToolsOf(LastOf(learned, MaxPrevTools))
      BY DEF SequencesReported, ToolsOf
    <3> QED BY <1>1, <1>3, <1>4, <3>1, Remembered
  <2>2. reported' = reported /\ looked' = looked
    BY <1>1 DEF local
  <2>3. ASSUME NEW d \in Calls, pc'[d] \in {"learn", "done"}
        PROVE  "suspicious_sequence" \in reported[d]
                 <=> \E b \in ToSet(LastOf(SubSeq(learned', 1, looked[d].learned),
                                              MaxPrevTools)) :
                       ToolOf[b] \in DangerousSequences(ToolOf[d])
    <3>1. pc[d] \in {"learn", "done"}
      BY <1>1, <2>3 DEF DetectorTypeOK
    <3>2. looked[d].learned \in 0..Len(learned)
      BY <1>1, <3>1 DEF DetectorTypeOK, Stages
    <3>3. SubSeq(learned', 1, looked[d].learned) = SubSeq(learned, 1, looked[d].learned)
      BY <1>1, <3>2, PrefixStays
    <3> QED BY <3>1, <3>3 DEF SequencesReported
  <2> QED BY <2>1, <2>2, <2>3 DEF SequencesReported, ToolsOf
<1>12. NeverFirst'
  BY <1>1 DEF NeverFirst, local
<1>13. Counting'
  BY <1>1, CountingKept DEF DetectorTypeOK, local
<1> QED BY <1>6, <1>7, <1>8, <1>9, <1>10, <1>11, <1>12, <1>13 DEF DetectorInv

\* The clock keeps the invariant.
LEMMA NextIntervalKeeps ==
  ASSUME DetectorInv, NextInterval
  PROVE  DetectorInv'
<1> USE DEF DetectorInv, NextInterval, local, histories
<1>1. DetectorTypeOK'
  BY DetectorAssumption DEF DetectorTypeOK
<1>2. Baselines' /\ Stages' /\ Learning'
  BY DEF Baselines, Stages, Learning, LearningOf
<1>3. UnknownToolsReported' /\ SequencesReported' /\ NeverFirst'
  BY DEF UnknownToolsReported, SequencesReported, NeverFirst
<1>4. Counting'
  <2>1. \A t \in Tools : ~(window'[t] >= 1)
    BY DEF DetectorTypeOK
  <2>2. UNCHANGED <<pc, value, at>>
    OBVIOUS
  <2> QED BY <2>1, <2>2 DEF Counting, CountedBefore
<1> QED BY <1>1, <1>2, <1>3, <1>4

\* A new detector satisfies the invariant, whatever file it found.
LEMMA DetectorStarts ==
  ASSUME DetectorInit
  PROVE  DetectorInv
<1> USE DEF DetectorInit
<1>1. /\ NewBaseline \in [count : Nat, sum : Nat, sq : Nat]
      /\ NewBaseline.sum >= NewBaseline.count
  BY DEF NewBaseline
<1>2. /\ rateBaseline \in [count : Nat, sum : Nat, sq : Nat]
      /\ rateBaseline.sum >= rateBaseline.count
  BY DetectorAssumption, <1>1 DEF LoadBaseline
<1>3. ToSet(learned) = {}
  BY DEF ToSet
<1>4. DetectorTypeOK
  BY DetectorAssumption, <1>1, <1>2 DEF DetectorTypeOK, Steps
<1>5. Baselines
  BY <1>1, <1>2 DEF Baselines
<1>6. Stages /\ Learning
  BY <1>3 DEF Stages, Learning, LearningOf
<1>7. UnknownToolsReported /\ NeverFirst /\ Counting
  BY DEF UnknownToolsReported, NeverFirst, Counting
<1>8. SequencesReported
  BY DetectorAssumption DEF SequencesReported, LastOf
<1> QED BY <1>4, <1>5, <1>6, <1>7, <1>8 DEF DetectorInv


\* Every step of the detector keeps the invariant.
LEMMA DetectorSteps ==
  DetectorInv /\ [DetectorNext]_detectorVars => DetectorInv'
<1> SUFFICES ASSUME DetectorInv, [DetectorNext]_detectorVars PROVE DetectorInv'
  OBVIOUS
<1>1. CASE NextInterval
  BY <1>1, NextIntervalKeeps
<1>2. ASSUME NEW c \in Calls, Analyze(c) PROVE DetectorInv'
  BY <1>2, RecordKeeps, UpdateKeeps, ReadStdKeeps, ReadMeanKeeps, CheckRateKeeps,
     ReadKnownKeeps, CheckUnknownKeeps, CheckSequenceKeeps, RecordToolKeeps
     DEF Analyze
<1>3. CASE UNCHANGED detectorVars
  BY <1>3 DEF detectorVars, shared, local, histories, DetectorInv, DetectorTypeOK, Baselines,
     Stages, Learning, LearningOf, Counting, CountedBefore, UnknownToolsReported,
     SequencesReported, NeverFirst
<1> QED BY <1>1, <1>2, <1>3 DEF DetectorNext

\* Every reachable state of the detector satisfies the invariant: this is what makes the
\* three properties below hold however the calls' steps interleave (detector.go:61-78).
THEOREM DetectorInductive == DetectorSpec => []DetectorInv
<1>1. DetectorInit => DetectorInv
  BY DetectorStarts
<1>2. DetectorInv /\ [DetectorNext]_detectorVars => DetectorInv'
  BY DetectorSteps
<1> QED BY <1>1, <1>2, PTL DEF DetectorSpec

\* The detector's state keeps its type: in particular no more than MaxPrevTools tools
\* are ever remembered (detector.go:182-191).
THEOREM DetectorTypeCorrect == DetectorSpec => []DetectorTypeOK
<1>1. DetectorInv => DetectorTypeOK
  BY DEF DetectorInv
<1> QED BY <1>1, DetectorInductive, PTL

\* No tool becomes known in silence, and none that was recorded before a call began is
\* unknown to it, however many calls of however many tools overtake each other
\* (detector.go:131-147, 182-191).
THEOREM UnknownToolsAreReported == DetectorSpec => []UnknownToolsReported
<1>1. DetectorInv => UnknownToolsReported
  BY DEF DetectorInv
<1> QED BY <1>1, DetectorInductive, PTL

\* The tools remembered are those of the last MaxPrevTools calls, and a call is reported
\* for its sequence exactly when one of them is dangerous before it, for any length of
\* the memory, zero included (detector.go:149-180, 182-191).
THEOREM SequencesAreReported == DetectorSpec => []SequencesReported
<1>1. DetectorInv => SequencesReported
  BY DEF DetectorInv
<1> QED BY <1>1, DetectorInductive, PTL

\* A high rate is always one of a tool that another call had used before in the same
\* interval, for any threshold and any baseline saved (detector.go:81-107,
\* baseline.go:65-71).
THEOREM HighRatesAreRepeated == DetectorSpec => []HighRateIsRepeated
<1>1. DetectorInv => HighRateIsRepeated
  BY DEF DetectorInv, NeverFirst, Counting, CountedBefore, Stages, HighRateIsRepeated
<1> QED BY <1>1, DetectorInductive, PTL
====
