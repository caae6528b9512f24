------------------------------ MODULE Detector ------------------------------
(***************************************************************************)
(* The anomaly detector of internal/detector: Analyze, called by every     *)
(* request for every tool call that policy lets through.                   *)
(*                                                                         *)
(* Analyze takes no lock of its own.  Each of its steps locks what it      *)
(* reads or changes (the window, the baseline, the tools), and b.mean is   *)
(* read without a lock, so that other calls come in between any two.  The  *)
(* entropy check reads nothing but its argument and is left out.           *)
(*                                                                         *)
(* Arithmetic is exact: of the count, mean and m2 that Welford's           *)
(* recurrence keeps, the model keeps the equivalent count, sum and sum of  *)
(* squares.  Of the windows it keeps the one of the current interval,      *)
(* which is the only one Record reads; WindowMaxAge is not shorter than    *)
(* an interval, so that cleanup finds nothing in it.                       *)
(*                                                                         *)
(* Init, Next, Spec and TypeOK carry the detector's name, so that a module *)
(* can extend this one and RateLimiter, the other part of the package.     *)
(***************************************************************************)
EXTENDS Integers, Sequences, FiniteSets, SequencesExt

CONSTANTS
  Calls,          \* the calls of Analyze
  ToolOf,         \* ToolOf[c]: the name of the tool call c is about
  Saved,          \* the baseline files the program may find, each with its baseline
  RateThreshold,  \* of the z-score: 3 in the code
  MaxPrevTools,   \* how many tools are remembered in order
  MaxIntervals    \* bound: the intervals that may pass

Tools == {ToolOf[c] : c \in Calls}
NewBaseline == [count |-> 0, sum |-> 0, sq |-> 0]

\* NewPersistentBaseline: a file that is not there, or more than a day old, is no error,
\* and of one that cannot be read or parsed NewDetector throws the error away.
LoadBaseline(file) == IF file.kind = "recent" THEN file.baseline ELSE NewBaseline

ASSUME DetectorAssumption ==
  /\ RateThreshold \in Nat /\ MaxPrevTools \in Nat /\ MaxIntervals \in Nat
  /\ Saved \subseteq [kind : {"absent", "old", "broken", "recent"},
                      baseline : [count : Nat, sum : Nat, sq : Nat]]
  /\ \A f \in Saved : f.baseline.sum >= f.baseline.count

\* The tools after which a tool is suspicious.
DangerousSequences(tool) ==
  CASE tool = "exec"         -> {"read_file", "get_config", "list_files"}
    [] tool = "file_write"   -> {"read_file", "list_files"}
    [] tool = "shell"        -> {"read_file", "get_config"}
    [] tool = "bash"         -> {"read_file", "get_config"}
    [] tool = "http_request" -> {"read_file"}
    [] OTHER                 -> {}

VARIABLES
  interval,      \* how many intervals have passed
  window,        \* window[t]: the calls of t in this interval
  rateBaseline,  \* see above
  knownTools,
  previousTools,
  pc,            \* pc[c]: the step c comes to next
  value,         \* value[c]: its count in the window
  spread,        \* spread[c]: the baseline its standard deviation was read from
  mean,          \* mean[c]: the baseline its mean was read from
  known,         \* known[c]: the tool was in knownTools when c looked
  reported,      \* reported[c]: the anomalies of c
  learned,       \* history: the calls recorded, in order
  heard,         \* history: heard[c] holds the calls recorded when c began
  looked,        \* history: looked[c] says what c saw: the count it compared with
                 \* five, and how many calls were recorded at its sequence check
  at             \* history: at[c] is the interval c was counted in

shared == <<interval, window, rateBaseline, knownTools, previousTools>>
local == <<value, spread, mean, known, reported>>
histories == <<learned, heard, looked, at>>
detectorVars == <<shared, pc, local, histories>>

Steps == {"record", "update", "std", "mean", "rate", "known", "unknown",
          "sequence", "learn", "done"}

DetectorInit ==
  /\ interval = 0
  /\ window = [t \in Tools |-> 0]
  /\ rateBaseline \in {LoadBaseline(file) : file \in Saved}
  /\ knownTools = {}
  /\ previousTools = <<>>
  /\ pc = [c \in Calls |-> "record"]
  /\ value = [c \in Calls |-> 0]
  /\ spread = [c \in Calls |-> NewBaseline]
  /\ mean = [c \in Calls |-> NewBaseline]
  /\ known = [c \in Calls |-> FALSE]
  /\ reported = [c \in Calls |-> {}]
  /\ learned = <<>>
  /\ heard = [c \in Calls |-> {}]
  /\ looked = [c \in Calls |-> [count |-> 0, learned |-> 0]]
  /\ at = [c \in Calls |-> 0]

Goto(c, from, to) == pc[c] = from /\ pc' = [pc EXCEPT ![c] = to]

\* c reports an anomaly of this kind if the condition holds.
Report(c, kind, condition) ==
  reported' = IF condition THEN [reported EXCEPT ![c] = @ \cup {kind}] ELSE reported

\* value > mean + RateThreshold * standard deviation, where a standard deviation of
\* zero makes a z-score of zero.  With count n, sum s and sum of squares q the
\* variance is (n q - s^2) / (n (n - 1)), and zero while n < 2.
Exceeds(v, spreadOf, meanOf) ==
  LET n == spreadOf.count
      scaled == n * spreadOf.sq - spreadOf.sum * spreadOf.sum
      excess == v * meanOf.count - meanOf.sum
  IN  /\ n >= 2 /\ scaled > 0 /\ excess > 0
      /\ excess * excess * n * (n - 1)
           > RateThreshold * RateThreshold * meanOf.count * meanOf.count * scaled

-----------------------------------------------------------------------------
(* Analyze.                                                                 *)

\* Mutant of Record: the key of the window leaves out the tool.
RecordAnyTool(c) ==
  /\ Goto(c, "record", "update")
  /\ window' = [t \in Tools |-> window[t] + 1]
  /\ value' = [value EXCEPT ![c] = window[ToolOf[c]] + 1]
  /\ at' = [at EXCEPT ![c] = interval]
  /\ heard' = [heard EXCEPT ![c] = ToSet(learned)]
  /\ UNCHANGED <<interval, rateBaseline, knownTools, previousTools, spread, mean,
                 known, reported, learned, looked>>

\* d.window.Record, under the window's lock.
Record(c) ==
  /\ Goto(c, "record", "update")
  /\ window' = [window EXCEPT ![ToolOf[c]] = @ + 1]
  /\ value' = [value EXCEPT ![c] = window[ToolOf[c]] + 1]
  /\ at' = [at EXCEPT ![c] = interval]
  /\ heard' = [heard EXCEPT ![c] = ToSet(learned)]
  /\ UNCHANGED <<interval, rateBaseline, knownTools, previousTools, spread, mean,
                 known, reported, learned, looked>>

\* d.rateBaseline.Update.
Update(c) ==
  /\ Goto(c, "update", "std")
  /\ rateBaseline' = [count |-> rateBaseline.count + 1,
                      sum   |-> rateBaseline.sum + value[c],
                      sq    |-> rateBaseline.sq + value[c] * value[c]]
  /\ UNCHANGED <<interval, window, knownTools, previousTools, local, histories>>

\* ZScore: StdDev under the lock, and then b.mean without it.
ReadStd(c) ==
  /\ Goto(c, "std", "mean")
  /\ spread' = [spread EXCEPT ![c] = rateBaseline]
  /\ UNCHANGED <<shared, value, mean, known, reported, histories>>

ReadMean(c) ==
  /\ Goto(c, "mean", "rate")
  /\ mean' = [mean EXCEPT ![c] = rateBaseline]
  /\ UNCHANGED <<shared, value, spread, known, reported, histories>>

\* The rest of checkRate.
CheckRate(c) ==
  /\ Goto(c, "rate", "known")
  /\ Report(c, "high_rate",
            rateBaseline.count >= 10 /\ Exceeds(value[c], spread[c], mean[c]))
  /\ UNCHANGED <<shared, value, spread, mean, known, histories>>

\* checkUnknownTool reads the tools, and then the count.
ReadKnown(c) ==
  /\ Goto(c, "known", "unknown")
  /\ known' = [known EXCEPT ![c] = ToolOf[c] \in knownTools]
  /\ UNCHANGED <<shared, value, spread, mean, reported, histories>>

\* Mutant of CheckUnknown: the count must reach the ten of checkRate.
CheckUnknownLate(c) ==
  /\ Goto(c, "unknown", "sequence")
  /\ Report(c, "unknown_tool", ~known[c] /\ rateBaseline.count > 10)
  /\ looked' = [looked EXCEPT ![c].count = rateBaseline.count]
  /\ UNCHANGED <<shared, value, spread, mean, known, learned, heard, at>>

CheckUnknown(c) ==
  /\ Goto(c, "unknown", "sequence")
  /\ Report(c, "unknown_tool", ~known[c] /\ rateBaseline.count > 5)
  /\ looked' = [looked EXCEPT ![c].count = rateBaseline.count]
  /\ UNCHANGED <<shared, value, spread, mean, known, learned, heard, at>>

\* checkSuspiciousSequence, on a copy of the tools made under the lock.
CheckSequence(c) ==
  /\ Goto(c, "sequence", "learn")
  /\ Report(c, "suspicious_sequence",
            ToSet(previousTools) \cap DangerousSequences(ToolOf[c]) # {})
  /\ looked' = [looked EXCEPT ![c].learned = Len(learned)]
  /\ UNCHANGED <<shared, value, spread, mean, known, learned, heard, at>>

\* The last n elements of a sequence.
LastOf(s, n) == IF Len(s) <= n THEN s ELSE SubSeq(s, Len(s) - n + 1, Len(s))

\* Mutant of RecordTool: `>=` instead of `>` drops a tool too soon.
RecordToolTooFew(c) ==
  /\ Goto(c, "learn", "done")
  /\ knownTools' = knownTools \cup {ToolOf[c]}
  /\ previousTools' = IF Len(previousTools) + 1 >= MaxPrevTools
                      THEN Tail(Append(previousTools, ToolOf[c]))
                      ELSE Append(previousTools, ToolOf[c])
  /\ learned' = Append(learned, c)
  /\ UNCHANGED <<interval, window, rateBaseline, local, heard, looked, at>>

\* Mutant of RecordTool: nothing is ever dropped.
RecordToolUnbounded(c) ==
  /\ Goto(c, "learn", "done")
  /\ knownTools' = knownTools \cup {ToolOf[c]}
  /\ previousTools' = Append(previousTools, ToolOf[c])
  /\ learned' = Append(learned, c)
  /\ UNCHANGED <<interval, window, rateBaseline, local, heard, looked, at>>

\* d.recordTool.
RecordTool(c) ==
  /\ Goto(c, "learn", "done")
  /\ knownTools' = knownTools \cup {ToolOf[c]}
  /\ previousTools' = IF Len(previousTools) + 1 > MaxPrevTools
                      THEN Tail(Append(previousTools, ToolOf[c]))
                      ELSE Append(previousTools, ToolOf[c])
  /\ learned' = Append(learned, c)
  /\ UNCHANGED <<interval, window, rateBaseline, local, heard, looked, at>>

Analyze(c) ==
  \/ Record(c) \/ Update(c) \/ ReadStd(c) \/ ReadMean(c) \/ CheckRate(c)
  \/ ReadKnown(c) \/ CheckUnknown(c) \/ CheckSequence(c) \/ RecordTool(c)

\* The clock comes to the next interval, and with it to new window keys.
NextInterval ==
  /\ interval < MaxIntervals
  /\ interval' = interval + 1
  /\ window' = [t \in Tools |-> 0]
  /\ UNCHANGED <<rateBaseline, knownTools, previousTools, pc, local, histories>>

DetectorNext == NextInterval \/ \E c \in Calls : Analyze(c)

DetectorSpec == DetectorInit /\ [][DetectorNext]_detectorVars

-----------------------------------------------------------------------------
(* Properties.                                                              *)

DetectorTypeOK ==
  /\ interval \in 0..MaxIntervals
  /\ window \in [Tools -> Nat]
  /\ rateBaseline \in [count : Nat, sum : Nat, sq : Nat]
  /\ knownTools \subseteq Tools
  /\ previousTools \in Seq(Tools) /\ Len(previousTools) <= MaxPrevTools
  /\ pc \in [Calls -> Steps]
  /\ value \in [Calls -> Nat]
  /\ spread \in [Calls -> [count : Nat, sum : Nat, sq : Nat]]
  /\ mean \in [Calls -> [count : Nat, sum : Nat, sq : Nat]]
  /\ known \in [Calls -> BOOLEAN]
  /\ reported \in [Calls -> SUBSET {"high_rate", "unknown_tool", "suspicious_sequence"}]
  /\ learned \in Seq(Calls) /\ heard \in [Calls -> SUBSET Calls]
  /\ looked \in [Calls -> [count : Nat, learned : Nat]]
  /\ at \in [Calls -> 0..MaxIntervals]

\* No tool becomes a known one in silence: one of its calls has reported it as
\* unknown, or had at most five samples to go by, however calls of the same tool
\* overtake each other.  And none that was recorded before a call began is unknown
\* to that call (detector.go:131-147, 182-191).
UnknownToolsReported ==
  /\ \A t \in knownTools : \E c \in ToSet(learned) :
       ToolOf[c] = t /\ ("unknown_tool" \in reported[c] \/ looked[c].count <= 5)
  /\ \A c \in Calls : "unknown_tool" \in reported[c] =>
       \A b \in heard[c] : ToolOf[b] # ToolOf[c]

\* The tools remembered are those of the MaxPrevTools calls recorded last, in that
\* order, and a call is reported for its sequence if and only if one of those at the
\* time is one its tool must not follow (detector.go:149-180, 182-191).
SequencesReported ==
  /\ previousTools =
       LET last == LastOf(learned, MaxPrevTools)
       IN  [i \in 1..Len(last) |-> ToolOf[last[i]]]
  /\ \A c \in Calls : pc[c] \in {"learn", "done"} =>
       ("suspicious_sequence" \in reported[c] <=>
          \E b \in ToSet(LastOf(SubSeq(learned, 1, looked[c].learned), MaxPrevTools)) :
            ToolOf[b] \in DangerousSequences(ToolOf[c]))

\* A high rate is one of a tool called again: another call of it was counted in the
\* same interval, and before it.  The first call of a tool in an interval is never
\* reported, nor one next to calls of other tools only, whatever baseline the program
\* started with, whatever the other calls add to it, and although the two halves of
\* the z-score are read at different times (detector.go:81-107, baseline.go:65-71,
\* window.go).
HighRateIsRepeated ==
  \A c \in Calls : "high_rate" \in reported[c] =>
    \E b \in Calls \ {c} :
      ToolOf[b] = ToolOf[c] /\ pc[b] # "record" /\ at[b] = at[c] /\ value[b] < value[c]
=============================================================================
