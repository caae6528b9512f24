---------------------------- MODULE RateLimiter ----------------------------
(***************************************************************************)
(* The per-host rate limiter of internal/detector/ratelimit.go.            *)
(*                                                                         *)
(* Allow, Remaining and Reset run under the limiter's mutex, and so does   *)
(* one pass of the cleanup goroutine, so each is one action.  time.Now()   *)
(* is the monotonic clock `now`, in ticks; the goroutine's time.Ticker     *)
(* fires every Interval ticks and buffers one firing (`tickDue`), which    *)
(* the goroutine may take up late.                                         *)
(*                                                                         *)
(* rl.windows is a total function: NoBucket stands for a missing entry,    *)
(* and no stored bucket has its count 0.                                   *)
(***************************************************************************)
EXTENDS Integers, Sequences

CONSTANTS
  Keys,      \* what calls are counted by: handleHTTP passes the request's host
  Limits,    \* the limits a configuration may give, zero and below included
  Interval,  \* rl.interval in clock ticks
  MaxNow     \* bound: the clock stops here

\* time.NewTicker panics on an interval that is not positive, so a running
\* limiter has a positive one; rate_limit may be any integer.
ASSUME RateLimiterAssumption ==
  /\ Limits \subseteq Int
  /\ Interval \in Nat \ {0}
  /\ MaxNow \in Nat

VARIABLES
  limit,     \* rl.limit, fixed by NewRateLimiter
  windows,   \* rl.windows
  now,       \* the clock
  tickDue,   \* the ticker has fired and the cleanup goroutine has not run yet
  answer,    \* the last result of Allow: <<key, granted>>, or <<>> before any
  grants,    \* history: the times of the calls granted for each key since its
             \* last Reset, in order
  opened     \* history: the index in grants[k] of the call that opened k's
             \* latest window, 0 before any

vars == <<limit, windows, now, tickDue, answer, grants, opened>>

NoBucket == [count |-> 0, resetAt |-> 0]
Exists(k) == windows[k] # NoBucket

\* now.After(bucket.resetAt)
Expired(k) == now > windows[k].resetAt

\* What one window can grant: the opening call never looks at the limit.
Budget == IF limit < 1 THEN 1 ELSE limit

Init ==
  /\ limit \in Limits
  /\ windows = [k \in Keys |-> NoBucket]
  /\ now = 0
  /\ tickDue = FALSE
  /\ answer = <<>>
  /\ grants = [k \in Keys |-> <<>>]
  /\ opened = [k \in Keys |-> 0]

-----------------------------------------------------------------------------
(* Allow: the three ways through it.                                        *)

\* Mutant of OpenWindow: the window is over at resetAt itself.
OpenWindowEarly(k) ==
  /\ ~Exists(k) \/ now >= windows[k].resetAt
  /\ windows' = [windows EXCEPT ![k] = [count |-> 1, resetAt |-> now + Interval]]
  /\ answer' = <<k, TRUE>>
  /\ grants' = [grants EXCEPT ![k] = Append(@, now)]
  /\ opened' = [opened EXCEPT ![k] = Len(grants[k]) + 1]
  /\ UNCHANGED <<limit, now, tickDue>>

OpenWindow(k) ==
  /\ ~Exists(k) \/ Expired(k)
  /\ windows' = [windows EXCEPT ![k] = [count |-> 1, resetAt |-> now + Interval]]
  /\ answer' = <<k, TRUE>>
  /\ grants' = [grants EXCEPT ![k] = Append(@, now)]
  /\ opened' = [opened EXCEPT ![k] = Len(grants[k]) + 1]
  /\ UNCHANGED <<limit, now, tickDue>>

\* Mutant of CountCall: the limit is compared one too late.
CountCallOffByOne(k) ==
  /\ Exists(k) /\ ~Expired(k)
  /\ windows[k].count <= limit
  /\ windows' = [windows EXCEPT ![k].count = @ + 1]
  /\ answer' = <<k, TRUE>>
  /\ grants' = [grants EXCEPT ![k] = Append(@, now)]
  /\ UNCHANGED <<limit, now, tickDue, opened>>

CountCall(k) ==
  /\ Exists(k) /\ ~Expired(k)
  /\ windows[k].count < limit
  /\ windows' = [windows EXCEPT ![k].count = @ + 1]
  /\ answer' = <<k, TRUE>>
  /\ grants' = [grants EXCEPT ![k] = Append(@, now)]
  /\ UNCHANGED <<limit, now, tickDue, opened>>

RefuseCall(k) ==
  /\ Exists(k) /\ ~Expired(k)
  /\ windows[k].count >= limit
  /\ answer' = <<k, FALSE>>
  /\ UNCHANGED <<limit, windows, now, tickDue, grants, opened>>

Allow(k) == OpenWindow(k) \/ CountCall(k) \/ RefuseCall(k)

\* Remaining changes nothing: it is the value this operator computes.  It does
\* not look at the clock.
Remaining(k) ==
  IF ~Exists(k) THEN limit
  ELSE IF windows[k].count > limit THEN 0
  ELSE limit - windows[k].count

Reset(k) ==
  /\ windows' = [windows EXCEPT ![k] = NoBucket]
  /\ grants' = [grants EXCEPT ![k] = <<>>]
  /\ opened' = [opened EXCEPT ![k] = 0]
  /\ UNCHANGED <<limit, now, tickDue, answer>>

\* Mutant of Cleanup: the pass clears the map without looking at resetAt.
CleanupEverything ==
  /\ tickDue
  /\ tickDue' = FALSE
  /\ windows' = [k \in Keys |-> NoBucket]
  /\ UNCHANGED <<limit, now, answer, grants, opened>>

\* One pass of the cleanup goroutine over the map.
Cleanup ==
  /\ tickDue
  /\ tickDue' = FALSE
  /\ windows' = [k \in Keys |-> IF Expired(k) THEN NoBucket ELSE windows[k]]
  /\ UNCHANGED <<limit, now, answer, grants, opened>>

\* The clock and the ticker it drives.
Tick ==
  /\ now < MaxNow
  /\ now' = now + 1
  /\ tickDue' = (tickDue \/ (now + 1) % Interval = 0)
  /\ UNCHANGED <<limit, windows, answer, grants, opened>>

Next ==
  \/ \E k \in Keys : Allow(k) \/ Reset(k)
  \/ Cleanup
  \/ Tick

Spec == Init /\ [][Next]_vars

-----------------------------------------------------------------------------
(* Properties.                                                              *)

\* Every stored bucket has counted at least its opening call and never more
\* than the budget, and closes no later than Interval from now.
TypeOK ==
  /\ limit \in Limits
  /\ now \in Nat
  /\ tickDue \in BOOLEAN
  /\ windows \in [Keys -> [count : Nat, resetAt : Nat]]
  /\ \A k \in Keys : windows[k].count <= Budget
  /\ \A k \in Keys : windows[k].resetAt <= now + Interval
  /\ \A k \in Keys : Exists(k) => windows[k].count >= 1
  /\ answer = <<>> \/ answer \in Keys \X BOOLEAN
  /\ grants \in [Keys -> Seq(Nat)]
  /\ opened \in [Keys -> Nat]

\* Two windows are the most that any stretch of Interval ticks can draw on, and the
\* earlier of them never in full: of any 2 * Budget consecutive granted calls for a
\* key, the last comes more than Interval after the first.  Cleanup running late,
\* early or between two calls (ratelimit.go:75-89) must not add to that.
TwoWindowBound ==
  \A k \in Keys : \A i, j \in 1..Len(grants[k]) :
    j = i + 2 * Budget - 1 => grants[k][j] > grants[k][i] + Interval

\* Remaining may be out of date, since it does not look at the clock
\* (ratelimit.go:53-67), but it never promises more calls than Allow would
\* grant at this moment.
RemainingNeverOverstates ==
  \A k \in Keys :
    Remaining(k) <= IF Exists(k) /\ ~Expired(k)
                    THEN Budget - windows[k].count
                    ELSE Budget

\* The limiter is a fixed-window limiter: leaving expired buckets in the map
\* until the cleanup goroutine or the next call meets them is invisible in
\* what Allow answers, and so is removing them.
Live(k) == Exists(k) /\ ~Expired(k)
FW == INSTANCE FixedWindow WITH
        used   <- [k \in Keys |-> IF Live(k) THEN windows[k].count ELSE 0],
        closes <- [k \in Keys |-> IF Live(k) THEN windows[k].resetAt ELSE 0]
ImplementsFixedWindow == FW!FWSpec
=============================================================================
