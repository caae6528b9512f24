---------------------------- MODULE FixedWindow ----------------------------
(***************************************************************************)
(* What a fixed-window rate limiter promises, without the data structure   *)
(* that keeps it: a key has at most one open window, the window lasts      *)
(* Interval ticks after the call that opened it, a call is granted exactly *)
(* when the window has budget left, and a window whose time has passed is  *)
(* forgotten at that very moment.  RateLimiter (internal/detector/         *)
(* ratelimit.go), which forgets late, implements this specification.       *)
(***************************************************************************)
EXTENDS Integers

CONSTANTS
  Keys,      \* what calls are counted by: the request's host
  Limits,    \* the limits a configuration may give, zero and below included
  Interval   \* the length of a window, in clock ticks

VARIABLES
  limit,     \* the configured limit
  now,       \* the clock
  used,      \* used[k]: calls granted in k's open window, 0 when none is open
  closes,    \* closes[k]: the last instant of k's open window, 0 when none
  answer     \* the last answer given: <<key, granted>>, or <<>> before any

fwVars == <<limit, now, used, closes, answer>>

\* The call that opens a window is granted whatever the limit says.
Budget == IF limit < 1 THEN 1 ELSE limit

FWInit ==
  /\ limit \in Limits
  /\ now = 0
  /\ used = [k \in Keys |-> 0]
  /\ closes = [k \in Keys |-> 0]
  /\ answer = <<>>

Grant(k) ==
  /\ used[k] < Budget
  /\ used' = [used EXCEPT ![k] = @ + 1]
  /\ closes' = [closes EXCEPT ![k] = IF used[k] = 0 THEN now + Interval ELSE @]
  /\ answer' = <<k, TRUE>>
  /\ UNCHANGED <<limit, now>>

Refuse(k) ==
  /\ used[k] >= Budget
  /\ answer' = <<k, FALSE>>
  /\ UNCHANGED <<limit, now, used, closes>>

Forget(k) ==
  /\ used' = [used EXCEPT ![k] = 0]
  /\ closes' = [closes EXCEPT ![k] = 0]
  /\ UNCHANGED <<limit, now, answer>>

TimePasses ==
  /\ now' = now + 1
  /\ used' = [k \in Keys |-> IF closes[k] < now + 1 THEN 0 ELSE used[k]]
  /\ closes' = [k \in Keys |-> IF closes[k] < now + 1 THEN 0 ELSE closes[k]]
  /\ UNCHANGED <<limit, answer>>

FWNext ==
  \/ \E k \in Keys : Grant(k) \/ Refuse(k) \/ Forget(k)
  \/ TimePasses

FWSpec == FWInit /\ [][FWNext]_fwVars
=============================================================================
