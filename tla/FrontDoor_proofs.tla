--------------------------- MODULE FrontDoor_proofs ---------------------------
(***************************************************************************)
(* Proofs about FrontDoor and the tunnel in it: its types, that            *)
(* configurations are merged as told, that the tool calls of a             *)
(* conversation are all found or none, that a watched conversation runs    *)
(* one answer ahead of its policies, and that a tunnel delivers what it    *)
(* takes in.                                                               *)
(*                                                                         *)
(* The parsers put sequences together with FlattenSeq, whose definition    *)
(* is a recursive function.  What it yields is proved by induction over    *)
(* the number of parts, where the induction is stated for a set of         *)
(* numbers (NatSetInduction) and the function is shown to exist            *)
(* (FlattensExists).                                                       *)
(***************************************************************************)
EXTENDS FrontDoor, WellFoundedInduction, TLAPS

-----------------------------------------------------------------------------
(* Sequences.                                                               *)

\* The members of two sequences put together are those of either.
LEMMA ToSetConcat ==
  ASSUME NEW T, NEW s \in Seq(T), NEW t \in Seq(T)
  PROVE  ToSet(s \o t) = ToSet(s) \cup ToSet(t)
<1> DEFINE u == s \o t
<1>1. /\ Len(s) \in Nat /\ Len(t) \in Nat /\ Len(u) = Len(s) + Len(t)
      /\ \A i \in 1..Len(s) : u[i] = s[i]
      /\ \A i \in 1..Len(t) : u[Len(s) + i] = t[i]
      /\ DOMAIN u = 1..Len(u) /\ DOMAIN s = 1..Len(s) /\ DOMAIN t = 1..Len(t)
  OBVIOUS
<1> HIDE DEF u
<1>2. ASSUME NEW i \in 1..Len(u) PROVE u[i] \in ToSet(s) \cup ToSet(t)
  <2>1. CASE i \in 1..Len(s)
    BY <1>1, <2>1 DEF ToSet
  <2>2. CASE i \notin 1..Len(s)
    <3>1. i - Len(s) \in 1..Len(t) /\ u[i] = t[i - Len(s)]
      BY <1>1, <1>2, <2>2
    <3> QED
      BY <1>1, <3>1 DEF ToSet
  <2> QED
    BY <2>1, <2>2
<1>3. ASSUME NEW i \in 1..Len(s) PROVE s[i] \in ToSet(u)
  <2>1. i \in 1..Len(u)
    BY <1>1
  <2> QED
    BY <1>1, <2>1 DEF ToSet
<1>4. ASSUME NEW i \in 1..Len(t) PROVE t[i] \in ToSet(u)
  <2>1. Len(s) + i \in 1..Len(u)
    BY <1>1
  <2> QED
    BY <1>1, <2>1 DEF ToSet
<1>5. ToSet(u) = ToSet(s) \cup ToSet(t)
  BY <1>1, <1>2, <1>3, <1>4 DEF ToSet
<1> QED
  BY <1>5 DEF u
-----------------------------------------------------------------------------
(* FlattenSeq of the community modules is a recursive function.  What it    *)
(* computes is proved by induction over the length of its argument, with    *)
(* induction over the natural numbers stated for sets (an infinite descent  *)
(* in the complement of S is impossible) and not for predicates.            *)

\* Induction, for a set of numbers: a set that has 0, and with a number the next
\* one, has them all.
LEMMA NatSetInduction ==
  ASSUME NEW S, 0 \in S, \A n \in Nat : n \in S => n + 1 \in S
  PROVE  Nat \subseteq S
<1> SUFFICES ASSUME ~(Nat \subseteq S) PROVE FALSE
  OBVIOUS
<1> DEFINE R == OpToRel(<, Nat)
           T == Nat \ S
<1>1. IsWellFoundedOn(R, Nat)
  BY NatLessThanWellFounded
<1>2. PICK m \in T : \A y \in T : ~(<<y, m>> \in R)
  BY <1>1, WFMin
<1>3. m \in Nat /\ m # 0 /\ m \notin S
  BY <1>2
<1>4. m - 1 \in T /\ m - 1 < m
  BY <1>3
<1>5. <<m - 1, m>> \in R
  BY <1>3, <1>4 DEF OpToRel
<1> QED
  BY <1>2, <1>4, <1>5

\* f satisfies FlattenSeq's recursive definition for the first n sequences of s.
Flattens(f, s, n) ==
  f = [i \in 1..n |-> IF i = 1 THEN s[i] ELSE f[i-1] \o s[i]]

\* There is such a function.
LEMMA FlattensExists ==
  ASSUME NEW s, NEW n \in Nat PROVE \E f : Flattens(f, s, n)
<1> DEFINE S == {m \in Nat : \E f : Flattens(f, s, m)}
<1>1. 0 \in S
  <2>1. Flattens([i \in 1..0 |-> <<>>], s, 0)
    BY DEF Flattens
  <2> QED
    BY <2>1
<1>2. ASSUME NEW m \in Nat, m \in S PROVE m + 1 \in S
  <2>1. PICK f : Flattens(f, s, m)
    BY <1>2
  <2> DEFINE g == [i \in 1..m+1 |-> IF i <= m THEN f[i]
                                    ELSE IF i = 1 THEN s[i] ELSE f[m] \o s[i]]
  <2>2. ASSUME NEW i \in 1..m+1
        PROVE  g[i] = IF i = 1 THEN s[i] ELSE g[i-1] \o s[i]
    <3>1. CASE i <= m
      <4>1. i \in 1..m /\ g[i] = f[i]
        BY <3>1
      <4>2. f[i] = IF i = 1 THEN s[i] ELSE f[i-1] \o s[i]
        BY <2>1, <4>1 DEF Flattens
      <4>3. i # 1 => i - 1 \in 1..m+1 /\ i - 1 <= m /\ g[i-1] = f[i-1]
        BY <2>2, <3>1
      <4> QED
        BY <4>1, <4>2, <4>3
    <3>2. CASE ~(i <= m)
      <4>1. i = m + 1
        BY <2>2, <3>2
      <4>2. g[i] = IF i = 1 THEN s[i] ELSE f[m] \o s[i]
        BY <3>2
      <4>3. i # 1 => i - 1 = m /\ m \in 1..m+1 /\ g[m] = f[m]
        BY <4>1
      <4> QED
        BY <4>2, <4>3
    <3> QED
      BY <3>1, <3>2
  <2>3. g = [i \in 1..m+1 |-> g[i]]
    OBVIOUS
  <2> HIDE DEF g
  <2>4. [i \in 1..m+1 |-> g[i]] =
          [i \in 1..m+1 |-> IF i = 1 THEN s[i] ELSE g[i-1] \o s[i]]
    BY <2>2
  <2>5. Flattens(g, s, m+1)
    BY <2>3, <2>4 DEF Flattens
  <2> QED
    BY <2>5
<1> HIDE DEF S
<1>3. Nat \subseteq S
  BY <1>1, <1>2, NatSetInduction
<1>4. n \in S
  BY <1>3
<1> QED
  BY <1>4 DEF S

\* The first n values of f and g are the same.
Agree(f, g, n) == \A i \in 1..n : f[i] = g[i]

\* Two such functions agree as far as their arguments do.
LEMMA FlattensAgree ==
  ASSUME NEW s, NEW t, NEW f, NEW g, NEW m \in Nat, NEW n \in Nat, n <= m,
         Flattens(f, s, n), Flattens(g, t, m), Agree(s, t, n)
  PROVE  Agree(f, g, n)
<1> USE DEF Agree
<1> DEFINE S == {k \in Nat : k \in 1..n => f[k] = g[k]}
<1>1. /\ \A i \in 1..n : f[i] = IF i = 1 THEN s[i] ELSE f[i-1] \o s[i]
      /\ \A i \in 1..m : g[i] = IF i = 1 THEN t[i] ELSE g[i-1] \o t[i]
  BY DEF Flattens
<1>2. 0 \in S
  OBVIOUS
<1>3. ASSUME NEW k \in Nat, k \in S PROVE k + 1 \in S
  <2>1. SUFFICES ASSUME k + 1 \in 1..n PROVE f[k+1] = g[k+1]
    OBVIOUS
  <2>2. k + 1 \in 1..m /\ s[k+1] = t[k+1] /\ (k + 1) - 1 = k
    BY <2>1
  <2>3. CASE k = 0
    BY <1>1, <2>1, <2>2, <2>3
  <2>4. CASE k # 0
    <3>1. f[k] = g[k]
      BY <1>3, <2>1, <2>4
    <3>2. /\ f[k+1] = IF k + 1 = 1 THEN s[k+1] ELSE f[(k+1)-1] \o s[k+1]
          /\ g[k+1] = IF k + 1 = 1 THEN t[k+1] ELSE g[(k+1)-1] \o t[k+1]
      BY <1>1, <2>1, <2>2
    <3> QED
      BY <2>2, <2>4, <3>1, <3>2
  <2> QED
    BY <2>3, <2>4
<1> HIDE DEF S
<1>4. Nat \subseteq S
  BY <1>2, <1>3, NatSetInduction
<1>5. \A k \in Nat : k \in 1..n => f[k] = g[k]
  BY <1>4 DEF S
<1> QED
  BY <1>5

\* FlattenSeq is the last value of such a function.
LEMMA FlattenSeqIs ==
  ASSUME NEW s, Len(s) \in Nat \ {0}
  PROVE  \E f : Flattens(f, s, Len(s)) /\ FlattenSeq(s) = f[Len(s)]
<1> DEFINE F == CHOOSE f : Flattens(f, s, Len(s))
<1>1. \E f : Flattens(f, s, Len(s))
  BY FlattensExists
<1>2. Flattens(F, s, Len(s))
  BY <1>1
<1>3. FlattenSeq(s) = F[Len(s)]
  BY DEF FlattenSeq, Flattens
<1> QED
  BY <1>2, <1>3

\* The two equations by which FlattenSeq computes.
LEMMA FlattenEmpty == FlattenSeq(<<>>) = <<>>
BY DEF FlattenSeq

\* One part more at the end.
LEMMA FlattenAppend ==
  ASSUME NEW T, NEW s \in Seq(Seq(T)), NEW x \in Seq(T)
  PROVE  FlattenSeq(Append(s, x)) = FlattenSeq(s) \o x
<1> DEFINE t == Append(s, x)
           n == Len(s)
<1>1. /\ n \in Nat /\ Len(t) = n + 1 /\ t[n + 1] = x
      /\ \A i \in 1..n : s[i] = t[i]
  OBVIOUS
<1> HIDE DEF t, n
<1>2. PICK g : Flattens(g, t, n + 1) /\ FlattenSeq(t) = g[n + 1]
  BY <1>1, FlattenSeqIs
<1>3. g[n + 1] = IF n + 1 = 1 THEN t[n + 1] ELSE g[(n + 1) - 1] \o t[n + 1]
  <2>1. n + 1 \in 1..n + 1
    BY <1>1
  <2> QED
    BY <1>2, <2>1 DEF Flattens
<1>4. CASE n = 0
  <2>1. s = <<>> /\ <<>> \o x = x
    BY <1>4 DEF n
  <2> QED
    BY <1>1, <1>2, <1>3, <1>4, <2>1, FlattenEmpty DEF t
<1>5. CASE n # 0
  <2>1. PICK f : Flattens(f, s, n) /\ FlattenSeq(s) = f[n]
    BY <1>1, <1>5, FlattenSeqIs DEF n
  <2>2. Agree(f, g, n)
    <3>1. n + 1 \in Nat /\ n \in Nat /\ n <= n + 1 /\ Agree(s, t, n)
      BY <1>1 DEF Agree
    <3>2. Flattens(f, s, n) /\ Flattens(g, t, n + 1)
      BY <1>2, <2>1
    <3> QED
      BY <3>1, <3>2, FlattensAgree, SMTT(20)
  <2>3. f[n] = g[n] /\ n + 1 # 1 /\ (n + 1) - 1 = n
    BY <1>1, <1>5, <2>2 DEF Agree
  <2>4. g[n + 1] = f[n] \o x
    BY <1>1, <1>3, <2>3
  <2> QED
    BY <1>2, <2>1, <2>4 DEF t
<1> QED
  BY <1>4, <1>5

\* A sequence that is not empty is what one appends to its front.
LEMMA FrontAndLast ==
  ASSUME NEW T, NEW s \in Seq(T), NEW n \in Nat, Len(s) = n + 1
  PROVE  \E r \in Seq(T), x \in T :
           /\ s = Append(r, x) /\ Len(r) = n /\ x = s[n + 1]
           /\ \A i \in 1..n : r[i] = s[i]
<1> DEFINE r == [i \in 1..n |-> s[i]]
<1>1. r \in Seq(T) /\ Len(r) = n /\ s[n + 1] \in T
  OBVIOUS
<1>2. s = Append(r, s[n + 1])
  <2>1. Append(r, s[n + 1]) \in Seq(T) /\ Len(Append(r, s[n + 1])) = n + 1
    BY <1>1
  <2>2. \A i \in 1..n + 1 : s[i] = Append(r, s[n + 1])[i]
    BY <1>1
  <2> HIDE DEF r
  <2> QED
    BY <2>1, <2>2
<1> QED
  BY <1>1, <1>2

\* A flattened sequence is one of members of its parts.
LEMMA FlattenType ==
  ASSUME NEW T, NEW s \in Seq(Seq(T)) PROVE FlattenSeq(s) \in Seq(T)
<1> DEFINE S == {n \in Nat : \A r \in Seq(Seq(T)) : Len(r) = n => FlattenSeq(r) \in Seq(T)}
<1>1. 0 \in S
  <2>1. ASSUME NEW r \in Seq(Seq(T)), Len(r) = 0 PROVE FlattenSeq(r) \in Seq(T)
    <3>1. r = <<>> /\ <<>> \in Seq(T)
      BY <2>1
    <3>2. FlattenSeq(r) = <<>>
      BY <3>1, FlattenEmpty
    <3> QED
      BY <3>1, <3>2
  <2> QED
    BY <2>1
<1>2. ASSUME NEW n \in Nat, n \in S PROVE n + 1 \in S
  <2>1. ASSUME NEW r \in Seq(Seq(T)), Len(r) = n + 1 PROVE FlattenSeq(r) \in Seq(T)
    <3>1. PICK q \in Seq(Seq(T)), x \in Seq(T) :
            /\ r = Append(q, x) /\ Len(q) = n /\ x = r[n + 1]
            /\ \A i \in 1..n : q[i] = r[i]
      BY <2>1, FrontAndLast
    <3>2. FlattenSeq(q) \in Seq(T)
      BY <1>2, <3>1
    <3>3. FlattenSeq(r) = FlattenSeq(q) \o x
      BY <3>1, FlattenAppend
    <3> QED
      BY <3>2, <3>3
  <2> QED
    BY <2>1
<1> HIDE DEF S
<1>3. Nat \subseteq S
  BY <1>1, <1>2, NatSetInduction
<1>4. Len(s) \in S
  BY <1>3
<1> QED
  BY <1>4 DEF S

\* Nothing comes of parts that are all empty.
LEMMA FlattenNothing ==
  ASSUME NEW n \in Nat
  PROVE  FlattenSeq([i \in 1..n |-> <<>>]) = <<>>
<1> DEFINE N(m) == [i \in 1..m |-> <<>>]
           S == {m \in Nat : FlattenSeq(N(m)) = <<>>}
<1>1. 0 \in S
  <2>1. N(0) = <<>>
    OBVIOUS
  <2> QED
    BY <2>1, FlattenEmpty
<1>2. ASSUME NEW m \in Nat, m \in S PROVE m + 1 \in S
  <2>1. N(m) \in Seq(Seq({})) /\ <<>> \in Seq({}) /\ <<>> \o <<>> = <<>>
    OBVIOUS
  <2>2. N(m + 1) = Append(N(m), <<>>)
    OBVIOUS
  <2>3. FlattenSeq(N(m + 1)) = FlattenSeq(N(m)) \o <<>>
    <3> HIDE DEF N
    <3> QED
      BY <2>1, <2>2, FlattenAppend
  <2> QED
    BY <1>2, <2>1, <2>3
<1> HIDE DEF S
<1>3. Nat \subseteq S
  BY <1>1, <1>2, NatSetInduction
<1>4. n \in S
  BY <1>3
<1> QED
  BY <1>4 DEF S

\* Every member of a part is a member of the whole, and the other way round.
LEMMA FlattenMembers ==
  ASSUME NEW T, NEW s \in Seq(Seq(T))
  PROVE  ToSet(FlattenSeq(s)) = UNION {ToSet(s[i]) : i \in 1..Len(s)}
<1> DEFINE Whole(r) == ToSet(FlattenSeq(r))
           Parts(r) == UNION {ToSet(r[i]) : i \in 1..Len(r)}
           S == {n \in Nat : \A r \in Seq(Seq(T)) : Len(r) = n => Whole(r) = Parts(r)}
<1>1. 0 \in S
  <2>1. ASSUME NEW r \in Seq(Seq(T)), Len(r) = 0 PROVE Whole(r) = Parts(r)
    <3>1. r = <<>>
      BY <2>1
    <3>2. Whole(<<>>) = {}
      BY FlattenEmpty DEF ToSet
    <3>3. Parts(<<>>) = {}
      OBVIOUS
    <3> QED
      BY <3>1, <3>2, <3>3
  <2> QED
    BY <2>1
<1>2. ASSUME NEW n \in Nat, n \in S PROVE n + 1 \in S
  <2>1. ASSUME NEW r \in Seq(Seq(T)), Len(r) = n + 1 PROVE Whole(r) = Parts(r)
    <3>1. PICK q \in Seq(Seq(T)), x \in Seq(T) :
            /\ r = Append(q, x) /\ Len(q) = n /\ x = r[n + 1]
            /\ \A i \in 1..n : q[i] = r[i]
      BY <2>1, FrontAndLast
    <3>2. Whole(q) = Parts(q)
      BY <1>2, <3>1
    <3>3. Whole(r) = Whole(q) \cup ToSet(x)
      <4>1. FlattenSeq(r) = FlattenSeq(q) \o x
        BY <3>1, FlattenAppend
      <4>2. FlattenSeq(q) \in Seq(T)
        BY FlattenType
      <4> QED
        BY <4>1, <4>2, ToSetConcat
    <3>4. Parts(r) = Parts(q) \cup ToSet(x)
      <4>1. 1..Len(r) = 1..n \cup {n + 1}
        BY <2>1
      <4> QED
        BY <3>1, <4>1
    <3> QED
      BY <3>2, <3>3, <3>4
  <2> QED
    BY <2>1
<1> HIDE DEF S
<1>3. Nat \subseteq S
  BY <1>1, <1>2, NatSetInduction
<1>4. Len(s) \in S
  BY <1>3
<1> QED
  BY <1>4 DEF S

\* One-element parts, after an empty first one: the names of a message's calls.
LEMMA FlattenSingles ==
  ASSUME NEW T, NEW c \in Seq(T)
  PROVE  FlattenSeq([i \in 1..Len(c)+1 |-> IF i = 1 THEN <<>> ELSE <<c[i-1]>>]) = c
<1> DEFINE P(d) == [i \in 1..Len(d)+1 |-> IF i = 1 THEN <<>> ELSE <<d[i-1]>>]
           S == {n \in Nat : \A d \in Seq(T) : Len(d) = n => FlattenSeq(P(d)) = d}
<1>1. 0 \in S
  <2>1. ASSUME NEW d \in Seq(T), Len(d) = 0 PROVE FlattenSeq(P(d)) = d
    <3>1. d = <<>>
      BY <2>1
    <3>2. P(d) = [i \in 1..1 |-> <<>>]
      BY <2>1
    <3>3. FlattenSeq([i \in 1..1 |-> <<>>]) = <<>>
      BY FlattenNothing
    <3> QED
      BY <3>1, <3>2, <3>3
  <2> QED
    BY <2>1
<1>2. ASSUME NEW n \in Nat, n \in S PROVE n + 1 \in S
  <2>1. ASSUME NEW d \in Seq(T), Len(d) = n + 1 PROVE FlattenSeq(P(d)) = d
    <3>1. PICK q \in Seq(T), x \in T :
            /\ d = Append(q, x) /\ Len(q) = n /\ x = d[n + 1]
            /\ \A i \in 1..n : q[i] = d[i]
      BY <2>1, FrontAndLast
    <3>2. FlattenSeq(P(q)) = q
      BY <1>2, <3>1
    <3>3. P(q) \in Seq(Seq(T)) /\ <<x>> \in Seq(T)
      BY <3>1
    <3>4. P(d) = Append(P(q), <<x>>)
      BY <2>1, <3>1
    <3>5. FlattenSeq(P(d)) = q \o <<x>>
      <4> HIDE DEF P
      <4> QED
        BY <3>2, <3>3, <3>4, FlattenAppend
    <3>6. q \o <<x>> = Append(q, x)
      OBVIOUS
    <3> QED
      BY <3>1, <3>5, <3>6
  <2> QED
    BY <2>1
<1> HIDE DEF S
<1>3. Nat \subseteq S
  BY <1>1, <1>2, NatSetInduction
<1>4. Len(c) \in S
  BY <1>3
<1> QED
  BY <1>4 DEF S

-----------------------------------------------------------------------------
(* The tunnel.                                                              *)

\* Of what e sent: how much net/http has read, whether a unit is with the
\* goroutine that copies; and whether e still gets what is written to it.
Missing(e) == IF e = "client" THEN lost ELSE 0
Held(e) == IF copier[e] = "writing" THEN 1 ELSE 0
Listens(e) == peer[e] \in {"open", "half"}

\* What e has sent is, in this order: missing, written to the other end, held,
\* waiting.  The sum is short of what was sent only if the other end does not
\* listen or the copying is over, and then for a reason.
StreamOf(e) ==
  LET written == Len(into[Other(e)])
      waiting == Len(inbox[e]) IN
  /\ into[Other(e)] = [i \in 1..written |-> Missing(e) + i]
  /\ inbox[e] = [i \in 1..waiting |-> (sent[e] - waiting) + i]
  /\ copier[e] = "writing" => held[e] = sent[e] - waiting
  /\ copier[e] = "unborn" => written = 0
  /\ Missing(e) + written + Held(e) + waiting <= sent[e]
  /\ Listens(Other(e)) /\ copier[e] # "done" =>
       Missing(e) + written + Held(e) + waiting = sent[e]
  /\ copier[e] = "done" => peer[e] # "open" \/ peer[Other(e)] = "reset"
  /\ copier[e] = "done" /\ peer[e] \in {"half", "gone"} /\ Listens(Other(e)) =>
       Missing(e) + written = sent[e]
  /\ taken[Other(e)] <= written

TunnelInv ==
  /\ \A e \in Ends : copier[e] = "unborn" <=> stage \notin {"copy", "closed"}
  /\ stage = "closed" => \A e \in Ends : copier[e] = "done"
  /\ lost \in {buffered, buffered + 1}
  /\ \A e \in Ends : StreamOf(e)

\* A tunnel has two ends.
LEMMA TwoEnds ==
  /\ \A e \in Ends : Other(e) \in Ends /\ Other(e) # e /\ Other(Other(e)) = e
  /\ \A e, d \in Ends : d = e \/ d = Other(e)
BY DEF Ends, Other

\* Before there is a tunnel.
LEMMA TunnelInitInv == TunnelInit => TunnelTypeOK /\ TunnelInv
<1> SUFFICES ASSUME TunnelInit PROVE TunnelTypeOK /\ TunnelInv
  OBVIOUS
<1> USE TunnelAssumption
<1>1. TunnelTypeOK
  <2>1. sent \in [Ends -> 0..MaxUnits] /\ buffered \in 0..MaxUnits
    BY DEF TunnelInit
  <2>2. inbox \in [Ends -> Seq(1..MaxUnits)] /\ into \in [Ends -> Seq(1..MaxUnits)]
    BY DEF TunnelInit
  <2> QED
    BY <2>1, <2>2 DEF TunnelInit, TunnelTypeOK
<1>2. ASSUME NEW e \in Ends PROVE StreamOf(e)
  <2>1. Missing(e) = sent[e] /\ Missing(e) \in Nat
    BY DEF TunnelInit, Missing, Ends
  <2>2. /\ into[Other(e)] = <<>> /\ inbox[e] = <<>> /\ copier[e] = "unborn"
        /\ taken[Other(e)] = 0
    BY TwoEnds DEF TunnelInit
  <2> QED
    BY <2>1, <2>2 DEF StreamOf, Held
<1>3. lost \in {buffered, buffered + 1}
  BY DEF TunnelInit
<1> QED
  BY <1>1, <1>2, <1>3 DEF TunnelInv, TunnelInit

\* No part of a sum that is bounded is larger than the bound.
LEMMA PartBounded ==
  ASSUME NEW a \in Nat, NEW b \in Nat, NEW c \in Nat, NEW d \in Nat,
         NEW n \in Nat, NEW s \in 0..n, a + b + c + d <= s
  PROVE  b <= n /\ (d >= 1 => a + 1 <= n)
OBVIOUS

\* What was sent bounds what has become of it.
LEMMA SumBounded ==
  ASSUME NEW e \in Ends, StreamOf(e)
  PROVE  Missing(e) + Len(into[Other(e)]) + Held(e) + Len(inbox[e]) <= sent[e]
BY DEF StreamOf

\* The types, step by step.
LEMMA TunnelTypeStep ==
  ASSUME TunnelTypeOK, TunnelInv, TunnelNext \/ StartTunnel \/ UNCHANGED tunnelVars
  PROVE  TunnelTypeOK'
<1>0. /\ sent \in [Ends -> 0..MaxUnits] /\ taken \in [Ends -> 0..MaxUnits]
      /\ inbox \in [Ends -> Seq(1..MaxUnits)] /\ into \in [Ends -> Seq(1..MaxUnits)]
      /\ held \in [Ends -> 0..MaxUnits] /\ lost \in Nat /\ MaxUnits \in Nat
  BY TunnelAssumption DEF TunnelTypeOK
<1>1. CASE StartTunnel \/ Dial \/ CloseBoth \/ Hijack
  BY <1>1 DEF StartTunnel, Dial, CloseBoth, Hijack, TunnelTypeOK
<1>2. CASE BackgroundRead
  <2>1. inbox' \in [Ends -> Seq(1..MaxUnits)]
    BY <1>0, <1>2 DEF BackgroundRead, Ends
  <2>2. lost + 1 <= MaxUnits
    <3>1. "client" \in Ends /\ Len(inbox["client"]) >= 1
      BY <1>0, <1>2 DEF BackgroundRead, Ends
    <3>2. StreamOf("client")
      BY <3>1 DEF TunnelInv
    <3>3. Len(into[Other("client")]) \in Nat /\ Held("client") \in Nat
      BY <1>0, <3>1, TwoEnds DEF Held
    <3>4. Missing("client") = lost
      BY DEF Missing
    <3>5. Missing("client") + Len(into[Other("client")]) + Held("client")
            + Len(inbox["client"]) <= sent["client"]
      BY <3>1, <3>2, SumBounded
    <3>6. sent["client"] \in 0..MaxUnits /\ Len(inbox["client"]) \in Nat
      BY <1>0, <3>1
    <3>7. lost \in Nat /\ MaxUnits \in Nat
      BY <1>0
    <3> QED
      BY <3>1, <3>3, <3>4, <3>5, <3>6, <3>7, PartBounded
  <2> QED
    BY <1>0, <1>2, <2>1, <2>2 DEF BackgroundRead, TunnelTypeOK
<1>3. ASSUME NEW e \in Ends, Read(e) PROVE TunnelTypeOK'
  <2>1. ASSUME inbox[e] # <<>>
        PROVE  Head(inbox[e]) \in 0..MaxUnits /\ Tail(inbox[e]) \in Seq(1..MaxUnits)
    BY <1>0, <2>1
  <2>2. held' \in [Ends -> 0..MaxUnits]
    BY <1>0, <1>3, <2>1 DEF Read
  <2>3. inbox' \in [Ends -> Seq(1..MaxUnits)]
    BY <1>0, <1>3, <2>1 DEF Read
  <2>4. copier' \in [Ends -> {"unborn", "reading", "writing", "done"}]
    BY <1>3 DEF Read, TunnelTypeOK
  <2> QED
    BY <1>3, <2>2, <2>3, <2>4 DEF Read, TunnelTypeOK
<1>4. ASSUME NEW e \in Ends, Write(e) PROVE TunnelTypeOK'
  <2>1. held[e] \in 1..MaxUnits
    <3>1. StreamOf(e) /\ copier[e] = "writing"
      BY <1>4 DEF TunnelInv, Write
    <3>2. Missing(e) \in Nat /\ Held(e) = 1 /\ Len(into[Other(e)]) \in Nat /\ Len(inbox[e]) \in Nat
      BY <1>0, <3>1, TwoEnds DEF Missing, Held
    <3> QED
      BY <1>0, <3>1, <3>2 DEF StreamOf
  <2>2. into' \in [Ends -> Seq(1..MaxUnits)]
    <3>1. Append(into[Other(e)], held[e]) \in Seq(1..MaxUnits)
      BY <1>0, <2>1, TwoEnds
    <3> QED
      BY <1>0, <1>4, <3>1 DEF Write
  <2>3. peer' \in [Ends -> {"open", "half", "gone", "reset"}]
    <3>1. peer' \in {peer, [peer EXCEPT ![Other(e)] = "reset"]}
      BY <1>4 DEF Write
    <3> QED
      BY <3>1 DEF TunnelTypeOK
  <2>4. copier' \in [Ends -> {"unborn", "reading", "writing", "done"}]
    BY <1>4 DEF Write, TunnelTypeOK
  <2>5. held' \in [Ends -> 0..MaxUnits]
    BY <1>0, <1>4 DEF Write
  <2> QED
    BY <1>4, <2>2, <2>3, <2>4, <2>5 DEF Write, TunnelTypeOK
<1>5. ASSUME NEW e \in Ends, Send(e) PROVE TunnelTypeOK'
  <2>1. sent[e] + 1 \in 1..MaxUnits
    BY <1>0, <1>5 DEF Send
  <2>2. Append(inbox[e], sent[e] + 1) \in Seq(1..MaxUnits)
    BY <1>0, <2>1
  <2>3. sent' \in [Ends -> 0..MaxUnits] /\ inbox' \in [Ends -> Seq(1..MaxUnits)]
    BY <1>0, <1>5, <2>1, <2>2 DEF Send
  <2> QED
    BY <1>5, <2>3 DEF Send, TunnelTypeOK
<1>6. ASSUME NEW e \in Ends, Receive(e) PROVE TunnelTypeOK'
  <2>1. taken[e] + 1 \in 0..MaxUnits
    <3> DEFINE d == Other(e)
    <3>1. d \in Ends /\ Other(d) = e /\ StreamOf(d)
      BY TwoEnds DEF TunnelInv
    <3> HIDE DEF d
    <3>2. /\ Missing(d) \in Nat /\ Held(d) \in Nat
          /\ Len(into[e]) \in Nat /\ Len(inbox[d]) \in Nat
          /\ sent[d] \in 0..MaxUnits
      BY <1>0, <3>1 DEF Missing, Held
    <3>3. Len(into[e]) <= MaxUnits
      <4>1. Missing(d) + Len(into[e]) + Held(d) + Len(inbox[d]) <= sent[d]
        BY <3>1, SumBounded
      <4>2. MaxUnits \in Nat
        BY <1>0
      <4> QED
        BY <3>2, <4>1, <4>2, PartBounded
    <3>4. taken[e] \in Nat /\ taken[e] < Len(into[e]) /\ MaxUnits \in Nat
      BY <1>0, <1>6 DEF Receive
    <3> QED
      BY <3>2, <3>3, <3>4
  <2>2. taken' \in [Ends -> 0..MaxUnits]
    BY <1>0, <1>6, <2>1 DEF Receive
  <2> QED
    BY <1>6, <2>2 DEF Receive, TunnelTypeOK
<1>7. ASSUME NEW e \in Ends, Turn(e) PROVE TunnelTypeOK'
  <2>1. peer' \in [Ends -> {"open", "half", "gone", "reset"}]
    BY <1>7 DEF Turn, TunnelTypeOK
  <2> QED
    BY <1>7, <2>1 DEF Turn, TunnelTypeOK
<1>8. CASE UNCHANGED tunnelVars
  BY <1>8 DEF tunnelVars, TunnelTypeOK
<1> QED
  BY <1>1, <1>2, <1>3, <1>4, <1>5, <1>6, <1>7, <1>8 DEF TunnelNext, Proxying, Copying

\* A sequence is the function of its elements.
LEMMA SeqIsFunction ==
  ASSUME NEW T, NEW t \in Seq(T) PROVE t = [i \in 1..Len(t) |-> t[i]]
OBVIOUS

\* What is waiting is numbered, up to the last one sent; so it is when one is read
\* or one more sent.
LEMMA WaitingTail ==
  ASSUME NEW n \in Nat, NEW s \in Seq(Nat), s # <<>>,
         s = [i \in 1..Len(s) |-> (n - Len(s)) + i]
  PROVE  /\ Head(s) = (n - Len(s)) + 1
         /\ Len(s) \in Nat \ {0} /\ Len(Tail(s)) = Len(s) - 1
         /\ Tail(s) = [i \in 1..Len(Tail(s)) |-> (n - Len(Tail(s))) + i]
<1>1. /\ Len(s) \in Nat \ {0} /\ Tail(s) \in Seq(Nat) /\ Len(Tail(s)) = Len(s) - 1
      /\ Head(s) = s[1]
      /\ \A i \in 1..Len(s) - 1 : Tail(s)[i] = s[i + 1]
  OBVIOUS
<1>2. \A i \in 1..Len(s) : s[i] = (n - Len(s)) + i
  OBVIOUS
<1>3. ASSUME NEW i \in 1..Len(Tail(s)) PROVE Tail(s)[i] = (n - Len(Tail(s))) + i
  <2>1. i + 1 \in 1..Len(s) /\ i \in 1..Len(s) - 1
    BY <1>1
  <2> QED
    BY <1>1, <1>2, <2>1
<1>4. Tail(s) = [i \in 1..Len(Tail(s)) |-> (n - Len(Tail(s))) + i]
  BY <1>1, <1>3, SeqIsFunction
<1> QED
  BY <1>1, <1>2, <1>4

\* The same when one more is sent.
LEMMA WaitingAppend ==
  ASSUME NEW n \in Nat, NEW s \in Seq(Nat),
         s = [i \in 1..Len(s) |-> (n - Len(s)) + i]
  PROVE  /\ Len(Append(s, n + 1)) = Len(s) + 1
         /\ Append(s, n + 1) =
              [i \in 1..Len(s) + 1 |-> ((n + 1) - (Len(s) + 1)) + i]
<1>1. Append(s, n + 1) \in Seq(Nat) /\ Len(Append(s, n + 1)) = Len(s) + 1
  OBVIOUS
<1>2. ASSUME NEW i \in 1..Len(s) + 1
      PROVE  Append(s, n + 1)[i] = ((n + 1) - (Len(s) + 1)) + i
  <2>1. CASE i \in 1..Len(s)
    BY <2>1
  <2>2. CASE i = Len(s) + 1
    BY <2>2
  <2> QED
    BY <2>1, <2>2
<1>3. Append(s, n + 1) = [i \in 1..Len(s) + 1 |-> ((n + 1) - (Len(s) + 1)) + i]
  BY <1>1, <1>2, SeqIsFunction
<1> QED
  BY <1>1, <1>3

\* A run of consecutive numbers goes on with the next one.
LEMMA RunGoesOn ==
  ASSUME NEW q \in Seq(Nat), NEW m \in Nat, NEW n \in Nat, NEW x \in Nat,
         q = [i \in 1..n |-> m + i], Len(q) = n, x = m + n + 1
  PROVE  Append(q, x) = [i \in 1..n+1 |-> m + i]
<1> DEFINE t == Append(q, x)
<1>1. t \in Seq(Nat) /\ Len(t) = n + 1
  OBVIOUS
<1>2. \A i \in 1..n : t[i] = q[i]
  OBVIOUS
<1>3. t[n + 1] = x
  OBVIOUS
<1>4. \A i \in 1..n : q[i] = m + i
  OBVIOUS
<1> HIDE DEF t
<1>5. ASSUME NEW i \in 1..n+1 PROVE t[i] = m + i
  <2>1. CASE i \in 1..n
    BY <1>2, <1>4, <2>1
  <2>2. CASE i = n + 1
    BY <1>3, <2>2
  <2>3. i \in 1..n \/ i = n + 1
    OBVIOUS
  <2> QED
    BY <2>1, <2>2, <2>3
<1>6. t = [i \in 1..n+1 |-> m + i]
  BY <1>1, <1>5
<1> QED
  BY <1>6 DEF t

\* What a step leaves alone at one end, and what it may change at the other.
LEMMA StreamKept ==
  ASSUME NEW d \in Ends, StreamOf(d),
         UNCHANGED <<Missing(d), inbox[d], sent[d], copier[d], held[d],
                     into[Other(d)]>>,
         peer' = peer \/ \E e \in Ends :
                            \/ Turn(e)
                            \/ peer[e] = "gone" /\ peer' = [peer EXCEPT ![e] = "reset"],
         TunnelTypeOK, taken'[Other(d)] <= Len(into[Other(d)])
  PROVE  StreamOf(d)'
<1>1. Held(d)' = Held(d)
  BY DEF Held
<1>2. /\ Listens(Other(d))' => Listens(Other(d))
      /\ peer[d] # "open" => peer'[d] # "open"
      /\ peer[Other(d)] = "reset" => peer'[Other(d)] = "reset"
      /\ peer'[d] \in {"half", "gone"} => peer[d] \in {"open", "half", "gone"}
  BY TwoEnds DEF Listens, Turn, TunnelTypeOK
<1>3. Listens(Other(d)) => peer[Other(d)] # "reset"
  BY DEF Listens
<1> QED
  BY <1>1, <1>2, <1>3 DEF StreamOf, Listens

\* Every step of the tunnel keeps its invariant.
LEMMA TunnelInvStep ==
  ASSUME TunnelTypeOK, TunnelInv, TunnelNext \/ StartTunnel \/ UNCHANGED tunnelVars
  PROVE  TunnelInv'
<1>0. /\ sent \in [Ends -> 0..MaxUnits] /\ taken \in [Ends -> 0..MaxUnits]
      /\ inbox \in [Ends -> Seq(1..MaxUnits)] /\ into \in [Ends -> Seq(1..MaxUnits)]
      /\ held \in [Ends -> 0..MaxUnits] /\ MaxUnits \in Nat
      /\ buffered \in Nat /\ lost \in Nat
      /\ peer \in [Ends -> {"open", "half", "gone", "reset"}]
      /\ copier \in [Ends -> {"unborn", "reading", "writing", "done"}]
  BY TunnelAssumption DEF TunnelTypeOK
<1>1. \A e \in Ends : /\ StreamOf(e)
                     /\ Missing(e) \in Nat /\ Held(e) \in {0, 1}
                     /\ Len(into[Other(e)]) \in Nat /\ Len(inbox[e]) \in Nat
                     /\ taken[Other(e)] <= Len(into[Other(e)])
  <2>1. SUFFICES ASSUME NEW e \in Ends
                 PROVE  /\ StreamOf(e)
                        /\ Missing(e) \in Nat /\ Held(e) \in {0, 1}
                        /\ Len(into[Other(e)]) \in Nat /\ Len(inbox[e]) \in Nat
                        /\ taken[Other(e)] <= Len(into[Other(e)])
    OBVIOUS
  <2>2. StreamOf(e)
    BY DEF TunnelInv
  <2>3. Missing(e) \in Nat /\ Held(e) \in {0, 1}
    BY <1>0 DEF Missing, Held
  <2>4. Len(into[Other(e)]) \in Nat /\ Len(inbox[e]) \in Nat
    BY <1>0, TwoEnds
  <2> QED
    BY <2>2, <2>3, <2>4 DEF StreamOf
<1>2. CASE StartTunnel \/ Dial \/ CloseBoth \/ UNCHANGED tunnelVars
  <2>1. UNCHANGED <<peer, sent, inbox, buffered, lost, copier, held, into, taken>>
    BY <1>2 DEF StartTunnel, Dial, CloseBoth, tunnelVars
  <2>2. \A d \in Ends : Missing(d)' = Missing(d)
    BY <2>1 DEF Missing
  <2>3. \A d \in Ends : StreamOf(d)'
    BY <1>1, <2>1, <2>2, StreamKept
  <2>4. \A e \in Ends : copier[e] = "unborn" <=> stage' \notin {"copy", "closed"}
    BY <1>2 DEF StartTunnel, Dial, CloseBoth, tunnelVars, TunnelInv
  <2>5. stage' = "closed" => \A e \in Ends : copier[e] = "done"
    BY <1>2 DEF StartTunnel, Dial, CloseBoth, tunnelVars, TunnelInv
  <2> QED
    BY <2>1, <2>3, <2>4, <2>5 DEF TunnelInv
<1>3. CASE Hijack
  <2>1. /\ UNCHANGED <<peer, sent, inbox, lost, held, into, taken>>
        /\ \A e \in Ends : copier'[e] = "reading" /\ copier[e] = "unborn"
    BY <1>3 DEF Hijack, TunnelInv
  <2>2. ASSUME NEW d \in Ends PROVE StreamOf(d)'
    <3>1. Missing(d)' = Missing(d) /\ Held(d)' = Held(d) /\ Held(d) = 0
      BY <2>1 DEF Missing, Held
    <3> QED
      BY <1>1, <2>1, <3>1 DEF StreamOf, Listens
  <2> QED
    BY <1>3, <2>1, <2>2 DEF Hijack, TunnelInv
<1>4. CASE BackgroundRead
  <2>1. /\ UNCHANGED <<stage, peer, sent, buffered, copier, held, into, taken>>
        /\ lost' = buffered + 1 /\ lost = buffered
        /\ inbox["client"] # <<>> /\ inbox'["client"] = Tail(inbox["client"])
        /\ inbox'["target"] = inbox["target"]
        /\ copier["client"] = "unborn" /\ "client" \in Ends /\ "target" \in Ends
    BY <1>0, <1>4 DEF BackgroundRead, TunnelInv, Ends
  <2>2. StreamOf("target")'
    <3>1. Missing("target")' = Missing("target")
      BY DEF Missing
    <3> QED
      BY <1>1, <2>1, <3>1, StreamKept
  <2>3. StreamOf("client")'
    <3> DEFINE s == inbox["client"]
    <3>1. s \in Seq(Nat) /\ s # <<>> /\ sent["client"] \in Nat
      BY <1>0, <2>1
    <3>2. s = [i \in 1..Len(s) |-> (sent["client"] - Len(s)) + i]
      BY <1>1, <2>1 DEF StreamOf
    <3>3. /\ Len(Tail(s)) = Len(s) - 1 /\ Len(s) \in Nat \ {0}
          /\ Tail(s) = [i \in 1..Len(Tail(s)) |-> (sent["client"] - Len(Tail(s))) + i]
      BY <3>1, <3>2, WaitingTail
    <3>4. /\ Missing("client")' = Missing("client") + 1 /\ Missing("client") \in Nat
          /\ Held("client")' = Held("client") /\ Held("client") = 0
      BY <1>0, <2>1 DEF Missing, Held
    <3>5. /\ into'[Other("client")] = into[Other("client")]
          /\ into[Other("client")] \in Seq(1..MaxUnits)
          /\ Len(into[Other("client")]) = 0
      BY <1>0, <1>1, <2>1, TwoEnds DEF StreamOf
    <3>6. into'[Other("client")] =
            [i \in 1..Len(into'[Other("client")]) |-> Missing("client")' + i]
      BY <3>5
    <3>7. inbox'["client"] =
            [i \in 1..Len(inbox'["client"]) |->
               (sent'["client"] - Len(inbox'["client"])) + i]
      BY <2>1, <3>3
    <3>8. /\ copier'["client"] = "unborn"
          /\ taken'[Other("client")] <= Len(into'[Other("client")])
      BY <1>1, <2>1, <3>5
    <3>9. Missing("client") + 0 + 0 + Len(s) <= sent["client"]
      BY <1>1, <2>1, <3>4, <3>5 DEF StreamOf
    <3>10. Listens(Other("client")) =>
             Missing("client") + 0 + 0 + Len(s) = sent["client"]
      BY <1>1, <2>1, <3>4, <3>5 DEF StreamOf
    <3>11. /\ Missing("client")' + Len(into'[Other("client")]) + Held("client")' + Len(inbox'["client"])
                = Missing("client") + 0 + 0 + Len(s)
           /\ Len(into'[Other("client")]) = 0
           /\ sent'["client"] = sent["client"]
           /\ Listens(Other("client"))' = Listens(Other("client"))
      BY <2>1, <3>3, <3>4, <3>5 DEF Listens
    <3> QED
      BY <3>6, <3>7, <3>8, <3>9, <3>10, <3>11 DEF StreamOf
  <2> QED
    BY <2>1, <2>2, <2>3 DEF TunnelInv, Ends
<1>5. ASSUME NEW e \in Ends, Read(e) PROVE TunnelInv'
  <2>1. /\ UNCHANGED <<stage, peer, sent, buffered, lost, into, taken>>
        /\ stage = "copy" /\ copier[e] = "reading"
        /\ \A d \in Ends : copier'[d] = "unborn" <=> copier[d] = "unborn"
    BY <1>0, <1>5 DEF Read
  <2>2. StreamOf(Other(e))'
    <3>1. UNCHANGED <<inbox[Other(e)], copier[Other(e)], held[Other(e)]>>
      BY <1>0, <1>5, TwoEnds DEF Read
    <3>2. Missing(Other(e))' = Missing(Other(e)) /\ Other(e) \in Ends
      BY <2>1, TwoEnds DEF Missing
    <3> QED
      BY <1>1, <2>1, <3>1, <3>2, StreamKept
  <2>3. StreamOf(e)'
    <3> DEFINE s == inbox[e]
    <3>1. StreamOf(e) /\ s \in Seq(Nat) /\ sent[e] \in Nat /\ Missing(e)' = Missing(e) /\ Held(e) = 0
      BY <1>0, <1>1, <2>1 DEF Missing, Held
    <3>2. CASE copier'[e] = "writing"
      <4>1. s # <<>> /\ held'[e] = Head(s) /\ inbox'[e] = Tail(s)
        BY <1>0, <1>5, <3>2 DEF Read
      <4>2. s = [i \in 1..Len(s) |-> (sent[e] - Len(s)) + i]
        BY <3>1 DEF StreamOf
      <4>3. /\ Head(s) = (sent[e] - Len(s)) + 1
            /\ Len(s) \in Nat \ {0} /\ Len(Tail(s)) = Len(s) - 1
            /\ Tail(s) = [i \in 1..Len(Tail(s)) |-> (sent[e] - Len(Tail(s))) + i]
        BY <3>1, <4>1, <4>2, WaitingTail
      <4>4. Held(e)' = 1
        BY <3>2 DEF Held
      <4>5. held'[e] = sent[e] - Len(inbox'[e])
        BY <1>0, <4>1, <4>3
      <4>6. Held(e)' + Len(inbox'[e]) = Held(e) + Len(s)
        BY <3>1, <4>1, <4>3, <4>4
      <4>7. inbox'[e] = [i \in 1..Len(inbox'[e]) |-> (sent[e] - Len(inbox'[e])) + i]
        BY <4>1, <4>3
      <4> HIDE DEF s
      <4>8. /\ Missing(e) + Len(into[Other(e)]) + Held(e)' + Len(inbox'[e]) <= sent[e]
            /\ Listens(Other(e)) =>
                 Missing(e) + Len(into[Other(e)]) + Held(e)' + Len(inbox'[e]) = sent[e]
        <5>1. /\ Missing(e) + Len(into[Other(e)]) + Held(e) + Len(s) <= sent[e]
              /\ Listens(Other(e)) =>
                   Missing(e) + Len(into[Other(e)]) + Held(e) + Len(s) = sent[e]
          BY <1>1, <2>1 DEF StreamOf, s
        <5>2. Len(inbox'[e]) = Len(s) - 1 /\ Len(s) \in Nat
          BY <4>1, <4>3
        <5> QED
          BY <1>1, <3>1, <4>4, <5>1, <5>2
      <4> QED
        BY <2>1, <3>1, <3>2, <4>5, <4>7, <4>8 DEF StreamOf, Listens
    <3>3. CASE copier'[e] = "done"
      <4>1. /\ inbox'[e] = inbox[e] /\ held'[e] = held[e]
            /\ peer[e] # "open"
            /\ peer[e] # "reset" => inbox[e] = <<>>
        BY <1>0, <1>5, <3>3 DEF Read
      <4>2. Held(e)' = 0
        BY <3>3 DEF Held
      <4>3. Len(inbox[e]) \in Nat /\ (inbox[e] = <<>> => Len(inbox[e]) = 0)
        BY <1>1
      <4>4. /\ Missing(e) + Len(into[Other(e)]) + 0 + Len(inbox[e]) <= sent[e]
            /\ Listens(Other(e)) =>
                 Missing(e) + Len(into[Other(e)]) + 0 + Len(inbox[e]) = sent[e]
        BY <2>1, <3>1 DEF StreamOf
      <4>5. peer[e] # "reset" /\ Listens(Other(e)) =>
              Missing(e) + Len(into[Other(e)]) = sent[e]
        BY <1>1, <4>1, <4>3, <4>4
      <4> QED
        BY <2>1, <3>1, <3>3, <4>1, <4>2, <4>4, <4>5 DEF StreamOf, Listens
    <3> QED
      BY <1>0, <1>5, <3>2, <3>3 DEF Read
  <2>4. \A d \in Ends : StreamOf(d)'
    BY <2>2, <2>3, TwoEnds
  <2> QED
    BY <2>1, <2>4 DEF TunnelInv
<1>6. ASSUME NEW e \in Ends, Write(e) PROVE TunnelInv'
  <2>1. /\ UNCHANGED <<stage, sent, inbox, buffered, lost, taken>>
        /\ stage = "copy" /\ copier[e] = "writing" /\ copier'[e] \in {"reading", "done"}
        /\ \A d \in Ends : copier'[d] = "unborn" <=> copier[d] = "unborn"
    BY <1>0, <1>6 DEF Write
  <2>2. StreamOf(Other(e))'
    <3>1. UNCHANGED <<copier[Other(e)], held[Other(e)], into[e]>>
      BY <1>0, <1>6, TwoEnds DEF Write
    <3>2. Missing(Other(e))' = Missing(Other(e)) /\ Other(e) \in Ends /\ Other(Other(e)) = e
      BY <2>1, TwoEnds DEF Missing
    <3>3. peer' = peer \/ \E d \in Ends : peer[d] = "gone" /\ peer' = [peer EXCEPT ![d] = "reset"]
      BY <1>6, TwoEnds DEF Write
    <3> QED
      BY <1>1, <2>1, <3>1, <3>2, <3>3, StreamKept
  <2>3. StreamOf(e)'
    <3> DEFINE n == Len(into[Other(e)])
               w == Len(inbox[e])
    <3>1. /\ n \in Nat /\ w \in Nat /\ sent[e] \in Nat /\ Missing(e) \in Nat
          /\ Missing(e)' = Missing(e) /\ Held(e) = 1 /\ Held(e)' = 0
          /\ Other(e) \in Ends /\ taken[Other(e)] <= n
      BY <1>0, <1>1, <2>1, TwoEnds DEF Missing, Held
    <3>2. /\ into[Other(e)] = [i \in 1..n |-> Missing(e) + i]
          /\ inbox[e] = [i \in 1..w |-> (sent[e] - w) + i]
          /\ held[e] = sent[e] - w
          /\ Missing(e) + n + 1 + w <= sent[e]
          /\ Listens(Other(e)) => Missing(e) + n + 1 + w = sent[e]
      BY <1>1, <2>1, <3>1 DEF StreamOf
    <3> HIDE DEF n, w
    <3>3. CASE Listens(Other(e))
      <4>1. /\ peer' = peer /\ copier'[e] = "reading"
            /\ into'[Other(e)] = Append(into[Other(e)], held[e])
        BY <1>0, <1>6, <3>1, <3>3 DEF Write, Listens
      <4>2. held[e] = Missing(e) + n + 1
        BY <3>1, <3>2, <3>3
      <4>3. /\ Append(into[Other(e)], held[e]) = [i \in 1..n+1 |-> Missing(e) + i]
            /\ Len(Append(into[Other(e)], held[e])) = n + 1
        <5>1. into[Other(e)] \in Seq(Nat) /\ Len(into[Other(e)]) = n /\ held[e] \in Nat
          BY <1>0, <3>1 DEF n
        <5> QED
          BY <3>1, <3>2, <4>2, <5>1, RunGoesOn
      <4>4. Missing(e) + (n + 1) + 0 + w = sent[e]
        BY <3>1, <3>2, <3>3
      <4>5. Len(into'[Other(e)]) = n + 1
        BY <4>1, <4>3
      <4>6. taken'[Other(e)] <= n + 1
        BY <1>0, <2>1, <3>1
      <4> QED
        BY <2>1, <3>1, <3>2, <4>1, <4>3, <4>4, <4>5, <4>6 DEF StreamOf, w
    <3>4. CASE ~Listens(Other(e))
      <4>1. /\ into'[Other(e)] = into[Other(e)]
            /\ ~Listens(Other(e))'
            /\ copier'[e] = "done" => peer'[Other(e)] = "reset"
        BY <1>0, <1>6, <3>1, <3>4 DEF Write, Listens
      <4>2. Missing(e) + n + 0 + w <= sent[e]
        BY <3>1, <3>2
      <4> QED
        BY <2>1, <3>1, <3>2, <4>1, <4>2 DEF StreamOf, n, w
    <3> QED
      BY <3>3, <3>4
  <2>4. \A d \in Ends : StreamOf(d)'
    BY <2>2, <2>3, TwoEnds
  <2> QED
    BY <2>1, <2>4 DEF TunnelInv
<1>7. ASSUME NEW e \in Ends, Send(e) PROVE TunnelInv'
  <2>1. /\ UNCHANGED <<stage, peer, buffered, lost, copier, held, into, taken>>
        /\ stage # "closed" /\ peer[e] = "open"
    BY <1>7 DEF Send, Connected
  <2>2. StreamOf(Other(e))'
    <3>1. UNCHANGED <<inbox[Other(e)], sent[Other(e)]>>
      BY <1>0, <1>7, TwoEnds DEF Send
    <3>2. Missing(Other(e))' = Missing(Other(e)) /\ Other(e) \in Ends
      BY <2>1, TwoEnds DEF Missing
    <3> QED
      BY <1>1, <2>1, <3>1, <3>2, StreamKept
  <2>3. StreamOf(e)'
    <3> DEFINE s == inbox[e]
    <3>1. /\ StreamOf(e) /\ s \in Seq(Nat) /\ sent[e] \in Nat /\ Len(s) \in Nat
          /\ Missing(e)' = Missing(e) /\ Held(e)' = Held(e)
      BY <1>0, <1>1, <2>1 DEF Missing, Held
    <3>2. sent'[e] = sent[e] + 1 /\ inbox'[e] = Append(s, sent[e] + 1)
      BY <1>0, <1>7 DEF Send
    <3>3. /\ s = [i \in 1..Len(s) |-> (sent[e] - Len(s)) + i]
          /\ Missing(e) + Len(into[Other(e)]) + Held(e) + Len(s) <= sent[e]
          /\ Listens(Other(e)) /\ copier[e] # "done" =>
               Missing(e) + Len(into[Other(e)]) + Held(e) + Len(s) = sent[e]
          /\ Len(into[Other(e)]) \in Nat /\ Missing(e) \in Nat /\ Held(e) \in Nat
      <4>1. Len(into[Other(e)]) \in Nat /\ Missing(e) \in Nat /\ Held(e) \in Nat
        BY <1>1
      <4>2. /\ Missing(e) + Len(into[Other(e)]) + Held(e) + Len(s) <= sent[e]
            /\ Listens(Other(e)) /\ copier[e] # "done" =>
                 Missing(e) + Len(into[Other(e)]) + Held(e) + Len(s) = sent[e]
        BY <3>1 DEF StreamOf
      <4>3. s = [i \in 1..Len(s) |-> (sent[e] - Len(s)) + i]
        BY <3>1 DEF StreamOf
      <4> QED
        BY <4>1, <4>2, <4>3
    <3> HIDE DEF s
    <3>4. /\ Len(inbox'[e]) = Len(s) + 1
          /\ inbox'[e] = [i \in 1..Len(s) + 1 |-> ((sent[e] + 1) - (Len(s) + 1)) + i]
      <4>1. sent[e] \in Nat /\ s \in Seq(Nat)
        BY <3>1
      <4>2. s = [i \in 1..Len(s) |-> (sent[e] - Len(s)) + i]
        BY <3>3
      <4>3. /\ Len(Append(s, sent[e] + 1)) = Len(s) + 1
            /\ Append(s, sent[e] + 1) =
                 [i \in 1..Len(s) + 1 |-> ((sent[e] + 1) - (Len(s) + 1)) + i]
        BY <4>1, <4>2, WaitingAppend
      <4> QED
        BY <3>2, <4>3
    <3>5. inbox'[e] = [i \in 1..Len(inbox'[e]) |-> (sent'[e] - Len(inbox'[e])) + i]
      BY <3>2, <3>4
    <3>6. sent'[e] - Len(inbox'[e]) = sent[e] - Len(s)
      BY <3>1, <3>2, <3>4
    <3>7. /\ Missing(e) + Len(into[Other(e)]) + Held(e) + Len(inbox'[e]) <= sent'[e]
          /\ Listens(Other(e)) /\ copier[e] # "done" =>
               Missing(e) + Len(into[Other(e)]) + Held(e) + Len(inbox'[e]) = sent'[e]
      <4> DEFINE ahead == Missing(e) + Len(into[Other(e)]) + Held(e)
      <4>1. /\ ahead \in Nat /\ ahead + Len(s) <= sent[e]
            /\ Listens(Other(e)) /\ copier[e] # "done" => ahead + Len(s) = sent[e]
        BY <3>3
      <4>2. /\ Len(inbox'[e]) = Len(s) + 1 /\ sent'[e] = sent[e] + 1
            /\ Len(s) \in Nat /\ sent[e] \in Nat
        BY <3>1, <3>2, <3>4
      <4> HIDE DEF ahead
      <4>3. /\ ahead + Len(inbox'[e]) <= sent'[e]
            /\ Listens(Other(e)) /\ copier[e] # "done" =>
                 ahead + Len(inbox'[e]) = sent'[e]
        BY <4>1, <4>2
      <4> QED
        BY <4>3 DEF ahead
    <3> QED
      BY <2>1, <3>1, <3>5, <3>6, <3>7 DEF StreamOf, Listens, s
  <2>4. \A d \in Ends : StreamOf(d)'
    BY <2>2, <2>3, TwoEnds
  <2> QED
    BY <2>1, <2>4 DEF TunnelInv
<1>8. ASSUME NEW e \in Ends, Receive(e) \/ Turn(e) PROVE TunnelInv'
  <2>1. /\ UNCHANGED <<stage, sent, inbox, buffered, lost, copier, held, into>>
        /\ peer' = peer \/ Turn(e)
    BY <1>8 DEF Receive, Turn
  <2>2. \A d \in Ends : Missing(d)' = Missing(d)
    BY <2>1 DEF Missing
  <2>3. ASSUME NEW d \in Ends PROVE taken'[Other(d)] <= Len(into[Other(d)])
    <3>1. taken[Other(d)] \in Nat /\ Len(into[Other(d)]) \in Nat /\ Other(d) \in Ends
      BY <1>0, TwoEnds
    <3>2. taken'[Other(d)] = taken[Other(d)] \/ (Receive(e) /\ e = Other(d))
      BY <1>0, <1>8, <3>1 DEF Receive, Turn
    <3>3. taken[Other(d)] <= Len(into[Other(d)])
      BY <1>1
    <3>4. CASE taken'[Other(d)] = taken[Other(d)]
      BY <3>3, <3>4
    <3>5. CASE Receive(e) /\ e = Other(d)
      <4>1. taken[e] < Len(into[e]) /\ taken'[e] = taken[e] + 1
        BY <1>0, <3>5 DEF Receive
      <4> QED
        BY <3>1, <3>5, <4>1
    <3> QED
      BY <3>2, <3>4, <3>5
  <2>4. \A d \in Ends : StreamOf(d)'
    BY <1>1, <2>1, <2>2, <2>3, StreamKept
  <2> QED
    BY <2>1, <2>4 DEF TunnelInv
<1> QED
  BY <1>2, <1>3, <1>4, <1>5, <1>6, <1>7, <1>8 DEF TunnelNext, Proxying, Copying

\* The invariant says more than the property.
LEMMA StreamsAre ==
  ASSUME TunnelTypeOK, TunnelInv PROVE StreamsIntact
<1>0. /\ sent \in [Ends -> 0..MaxUnits] /\ into \in [Ends -> Seq(1..MaxUnits)]
      /\ MaxUnits \in Nat /\ buffered \in Nat /\ lost \in Nat
  BY TunnelAssumption DEF TunnelTypeOK
<1>1. ASSUME NEW e \in Ends
      PROVE  LET missing == IF e = "client" THEN lost ELSE 0 IN
             /\ into[Other(e)] = [i \in 1..Len(into[Other(e)]) |-> missing + i]
             /\ missing <= buffered + 1
             /\ /\ stage = "closed"
                /\ peer[e] \in {"half", "gone"} /\ peer[Other(e)] \in {"open", "half"}
                => Len(into[Other(e)]) = sent[e] - missing
  <2>1. StreamOf(e) /\ Missing(e) = IF e = "client" THEN lost ELSE 0
    BY DEF TunnelInv, Missing
  <2>2. Missing(e) <= buffered + 1 /\ Missing(e) \in Nat
    BY <1>0 DEF TunnelInv, Missing
  <2>3. Len(into[Other(e)]) \in Nat /\ sent[e] \in Nat
    BY <1>0, TwoEnds
  <2>4. stage = "closed" => copier[e] = "done"
    BY DEF TunnelInv
  <2>5. into[Other(e)] = [i \in 1..Len(into[Other(e)]) |-> Missing(e) + i]
    BY <2>1 DEF StreamOf
  <2>6. stage = "closed" /\ peer[e] \in {"half", "gone"} /\ peer[Other(e)] \in {"open", "half"}
        => Len(into[Other(e)]) = sent[e] - Missing(e)
    BY <2>1, <2>2, <2>3, <2>4 DEF StreamOf, Listens
  <2> QED
    BY <2>1, <2>2, <2>5, <2>6
<1> QED
  BY <1>1 DEF StreamsIntact

-----------------------------------------------------------------------------
(* The tool calls the proxy finds.                                          *)

Tools == UNION {ToSet(calls) : calls \in Answers \cup {s.client.resumed : s \in Setups}}
Messages ==
  [plain : {FALSE} \cup {s.client.plain : s \in Setups}, calls : Seq(Tools)]

\* A conversation starts with what the user asks, in plain text or not, and whatever
\* the client goes on with; there is no plain text in any other message.
Talk ==
  /\ history \in Seq(Messages) /\ Len(history) >= 2
  /\ history[1] = [plain |-> client.plain, calls |-> <<>>]
  /\ \A i \in 2..Len(history) : history[i].plain = FALSE

\* The sequence of the calls in each message.
CallsOf(h) == [i \in 1..Len(h) |-> h[i].calls]

\* Tools has all the calls there can be.
LEMMA ToolsAre ==
  /\ \A calls \in Answers : calls \in Seq(Tools)
  /\ \A s \in Setups : s.client.resumed \in Seq(Tools)
<1>1. ASSUME NEW calls, calls \in Seq(ToSet(calls)), ToSet(calls) \subseteq Tools
      PROVE  calls \in Seq(Tools)
  BY <1>1
<1>2. ASSUME NEW calls \in Answers PROVE calls \in Seq(Tools)
  BY <1>1, FrontDoorAssumption DEF FrontDoorAssumption, Tools
<1>3. ASSUME NEW s \in Setups PROVE s.client.resumed \in Seq(Tools)
  BY <1>1, FrontDoorAssumption DEF FrontDoorAssumption, Tools
<1> QED
  BY <1>2, <1>3

\* The calls of a message.
LEMMA CallsType == \A m \in Messages : m.calls \in Seq(Tools)
BY DEF Messages

\* The calls of a conversation, one after the other.
LEMMA RunType ==
  ASSUME NEW h \in Seq(Messages)
  PROVE  /\ CallsOf(h) \in Seq(Seq(Tools))
         /\ FlattenSeq(CallsOf(h)) \in Seq(Tools)
<1>1. \A i \in 1..Len(h) : h[i].calls \in Seq(Tools)
  BY CallsType
<1>2. CallsOf(h) \in Seq(Seq(Tools))
  BY <1>1 DEF CallsOf
<1> QED
  BY <1>2, FlattenType

\* What the OpenAI parser finds in a body.
LEMMA OpenAIFinds ==
  ASSUME Talk
  PROVE  ParseOpenAIToolCalls(Body) =
           IF ~client.encoded /\ client.api = "openai" THEN Run ELSE <<>>
<1> DEFINE n == Len(history)
<1>0. n \in Nat /\ Run \in Seq(Tools) /\ <<>> \o Run = Run /\ <<>> \o <<>> = <<>>
  BY RunType DEF Talk, Run, CallsOf
<1> DEFINE found == FlattenSeq([i \in 1..Len(Body.messages) |-> Body.messages[i].calls])
<1>1. CASE client.encoded
  BY <1>1 DEF Body, NotJSON, ParseOpenAIToolCalls
<1>2. ASSUME ~client.encoded
      PROVE  ParseOpenAIToolCalls(Body) = <<>> \o found
  BY <1>2 DEF Body, ParseOpenAIToolCalls
<1>3. CASE ~client.encoded /\ client.api = "openai"
  <2>1. Body.messages = [i \in 1..n |-> MessageOf(history[i])]
    BY <1>3 DEF Body
  <2>2. Len(Body.messages) = n /\ \A i \in 1..n : Body.messages[i].calls = history[i].calls
    BY <1>0, <1>3, <2>1 DEF MessageOf
  <2>3. [i \in 1..Len(Body.messages) |-> Body.messages[i].calls]
          = [i \in 1..n |-> history[i].calls]
    BY <2>2
  <2> QED
    BY <1>0, <1>2, <1>3, <2>3 DEF Run
<1>4. CASE ~client.encoded /\ client.api = "anthropic"
  <2>1. Body.messages = [i \in 1..n |-> MessageOf(history[i])]
    BY <1>4 DEF Body
  <2>2. Len(Body.messages) = n /\ \A i \in 1..n : Body.messages[i].calls = <<>>
    BY <1>0, <1>4, <2>1 DEF MessageOf
  <2>3. [i \in 1..Len(Body.messages) |-> Body.messages[i].calls] = [i \in 1..n |-> <<>>]
    BY <2>2
  <2>4. found = <<>>
    BY <1>0, <2>3, FlattenNothing
  <2> QED
    BY <1>0, <1>2, <1>4, <2>4
<1>5. CASE ~client.encoded /\ client.api \notin {"openai", "anthropic"}
  <2>1. Body.messages = <<>>
    BY <1>5 DEF Body
  <2>2. found = <<>>
    BY <2>1, FlattenEmpty
  <2> QED
    BY <1>0, <1>2, <1>5, <2>2
<1> QED
  BY <1>1, <1>3, <1>4, <1>5

\* Of the parts of a message, those of the type that calls have are the calls.
LEMMA NamedCalls ==
  ASSUME NEW T, NEW c \in Seq(T), NEW type, type # "text"
  PROVE  Named(<<[type |-> "text"]>> \o
               [i \in 1..Len(c) |-> [type |-> type, name |-> c[i]]], type) = c
<1> DEFINE b == <<[type |-> "text"]>> \o
                [i \in 1..Len(c) |-> [type |-> type, name |-> c[i]]]
           one == [i \in 1..Len(b) |-> IF b[i].type = type THEN <<b[i].name>> ELSE <<>>]
<1>1. /\ Len(b) = Len(c) + 1 /\ b[1] = [type |-> "text"]
      /\ \A i \in 2..Len(c) + 1 : b[i] = [type |-> type, name |-> c[i-1]]
  OBVIOUS
<1> HIDE DEF b
<1>2. one = [i \in 1..Len(c)+1 |-> IF i = 1 THEN <<>> ELSE <<c[i-1]>>]
  <2>1. ASSUME NEW i \in 1..Len(c)+1
        PROVE  (IF b[i].type = type THEN <<b[i].name>> ELSE <<>>)
                 = IF i = 1 THEN <<>> ELSE <<c[i-1]>>
    <3>1. CASE i = 1
      <4>1. b[i].type = "text"
        BY <1>1, <3>1
      <4> QED
        BY <3>1, <4>1
    <3>2. CASE i # 1
      <4>1. i \in 2..Len(c) + 1
        BY <3>2
      <4>2. b[i] = [type |-> type, name |-> c[i-1]]
        BY <1>1, <4>1
      <4>3. b[i].type = type /\ b[i].name = c[i-1]
        BY <4>2
      <4> QED
        BY <3>2, <4>3
    <3> QED
      BY <3>1, <3>2
  <2> QED
    BY <1>1, <2>1
<1>3. Named(b, type) = FlattenSeq(one)
  BY DEF Named
<1> QED
  BY <1>2, <1>3, FlattenSingles DEF b

\* What the Anthropic parser finds in a body.
LEMMA AnthropicFinds ==
  ASSUME Talk
  PROVE  ParseAnthropicToolCalls(Body) =
           IF ~client.encoded /\ client.api = "anthropic" /\ ~client.plain
           THEN Run ELSE <<>>
<1> DEFINE n == Len(history)
           m == Body.messages
           found == FlattenSeq([i \in 1..Len(m) |-> Named(m[i].blocks, "tool_use")])
<1>0. n \in Nat /\ n >= 2
  BY DEF Talk
<1>1. CASE client.encoded
  BY <1>1 DEF Body, NotJSON, ParseAnthropicToolCalls
<1>2. ASSUME ~client.encoded
      PROVE  ParseAnthropicToolCalls(Body) =
               IF \E i \in 1..Len(m) : m[i].plain THEN <<>> ELSE found
  BY <1>2 DEF Body, ParseAnthropicToolCalls
<1>3. CASE ~client.encoded /\ client.api = "anthropic"
  <2>1. m = [i \in 1..n |-> MessageOf(history[i])]
    BY <1>3 DEF Body
  <2>2. /\ Len(m) = n
        /\ \A i \in 1..n : /\ m[i].plain = history[i].plain
                           /\ m[i].blocks = <<[type |-> "text"]>> \o
                                [j \in 1..Len(history[i].calls) |->
                                   [type |-> "tool_use", name |-> history[i].calls[j]]]
    <3>1. ASSUME NEW i \in 1..n
          PROVE  /\ m[i].plain = history[i].plain
                 /\ m[i].blocks = <<[type |-> "text"]>> \o
                      [j \in 1..Len(history[i].calls) |->
                         [type |-> "tool_use", name |-> history[i].calls[j]]]
      <4>1. m[i] = MessageOf(history[i])
        BY <2>1
      <4> HIDE DEF m
      <4> QED
        BY <1>3, <4>1 DEF MessageOf
    <3>2. Len(m) = n
      BY <1>0, <2>1
    <3> QED
      BY <3>1, <3>2
  <2>3. (\E i \in 1..Len(m) : m[i].plain) <=> client.plain
    <3>1. 1 \in 1..n /\ history[1].plain = client.plain
      BY <1>0 DEF Talk
    <3>2. \A i \in 1..n : i # 1 => history[i].plain = FALSE
      BY <1>0 DEF Talk
    <3> QED
      BY <2>2, <3>1, <3>2
  <2>4. found = Run
    <3>1. \A i \in 1..n : history[i].calls \in Seq(Tools)
      BY CallsType DEF Talk
    <3>2. \A i \in 1..n : Named(m[i].blocks, "tool_use") = history[i].calls
      <4> HIDE DEF m
      <4>1. ASSUME NEW i \in 1..n
            PROVE  Named(m[i].blocks, "tool_use") = history[i].calls
        <5> DEFINE c == history[i].calls
        <5>1. c \in Seq(Tools) /\ "tool_use" # "text"
          BY <3>1
        <5>2. m[i].blocks = <<[type |-> "text"]>> \o
                       [j \in 1..Len(c) |-> [type |-> "tool_use", name |-> c[j]]]
          BY <2>2
        <5> HIDE DEF c
        <5>3. Named(m[i].blocks, "tool_use") = c
          BY <5>1, <5>2, NamedCalls
        <5> QED
          BY <5>3 DEF c
      <4> QED
        BY <4>1
    <3>3. [i \in 1..Len(m) |-> Named(m[i].blocks, "tool_use")]
            = [i \in 1..n |-> history[i].calls]
      BY <2>2, <3>2
    <3> QED
      BY <3>3 DEF Run
  <2> QED
    BY <1>2, <1>3, <2>3, <2>4
<1>4. CASE ~client.encoded /\ client.api = "openai"
  <2>1. m = [i \in 1..n |-> MessageOf(history[i])]
    BY <1>4 DEF Body
  <2>2. Len(m) = n /\ \A i \in 1..n : m[i].blocks = <<>>
    BY <1>0, <1>4, <2>1 DEF MessageOf
  <2>3. \A i \in 1..n : Named(m[i].blocks, "tool_use") = <<>>
    BY <2>2, FlattenEmpty DEF Named
  <2>4. [i \in 1..Len(m) |-> Named(m[i].blocks, "tool_use")] = [i \in 1..n |-> <<>>]
    BY <2>2, <2>3
  <2>5. found = <<>>
    BY <1>0, <2>4, FlattenNothing
  <2> QED
    BY <1>2, <1>4, <2>5
<1>5. CASE ~client.encoded /\ client.api \notin {"openai", "anthropic"}
  <2>1. m = <<>>
    BY <1>5 DEF Body
  <2>2. found = <<>>
    BY <2>1, FlattenEmpty
  <2> QED
    BY <1>2, <1>5, <2>1, <2>2
<1> QED
  BY <1>1, <1>3, <1>4, <1>5

\* What the Gemini parser finds in a body.
LEMMA GeminiFinds ==
  ASSUME Talk
  PROVE  ParseGeminiToolCalls(Body) =
           IF ~client.encoded /\ client.api = "gemini" THEN Run ELSE <<>>
<1> DEFINE n == Len(history)
           m == Body.contents
           found == FlattenSeq([i \in 1..Len(m) |-> Named(m[i], "functionCall")])
<1>0. n \in Nat
  BY DEF Talk
<1>1. CASE client.encoded
  BY <1>1 DEF Body, NotJSON, ParseGeminiToolCalls
<1>2. ASSUME ~client.encoded
      PROVE  ParseGeminiToolCalls(Body) = found
  BY <1>2 DEF Body, ParseGeminiToolCalls
<1>3. CASE ~client.encoded /\ client.api = "gemini"
  <2>1. m = [i \in 1..n |-> ContentOf(history[i])]
    BY <1>3 DEF Body
  <2>2. /\ Len(m) = n
        /\ \A i \in 1..n : m[i] = <<[type |-> "text"]>> \o
                                [j \in 1..Len(history[i].calls) |->
                                   [type |-> "functionCall", name |-> history[i].calls[j]]]
    BY <1>0, <1>3, <2>1 DEF ContentOf
  <2>3. \A i \in 1..n : history[i].calls \in Seq(Tools)
    BY CallsType DEF Talk
  <2>4. \A i \in 1..n : Named(m[i], "functionCall") = history[i].calls
    <3> HIDE DEF m
    <3>1. ASSUME NEW i \in 1..n PROVE Named(m[i], "functionCall") = history[i].calls
      <4> DEFINE c == history[i].calls
      <4>1. c \in Seq(Tools) /\ "functionCall" # "text"
        BY <2>3
      <4>2. m[i] = <<[type |-> "text"]>> \o
                     [j \in 1..Len(c) |-> [type |-> "functionCall", name |-> c[j]]]
        BY <2>2
      <4> HIDE DEF c
      <4>3. Named(m[i], "functionCall") = c
        BY <4>1, <4>2, NamedCalls
      <4> QED
        BY <4>3 DEF c
    <3> QED
      BY <3>1
  <2>5. [i \in 1..Len(m) |-> Named(m[i], "functionCall")] = [i \in 1..n |-> history[i].calls]
    BY <2>2, <2>4
  <2> QED
    BY <1>2, <1>3, <2>5 DEF Run
<1>4. CASE ~client.encoded /\ client.api # "gemini"
  <2>1. m = <<>>
    BY <1>4 DEF Body
  <2>2. found = <<>>
    BY <2>1, FlattenEmpty
  <2> QED
    BY <1>2, <1>4, <2>2
<1> QED
  BY <1>1, <1>3, <1>4

\* All the calls of a conversation, in their order, or none.
LEMMA AllOrNone ==
  ASSUME Talk
  PROVE  (IF AI THEN ExtractToolCalls(client.name, client.path, client.header, Body)
          ELSE <<>>) = IF Watched THEN Run ELSE <<>>
<1>0. /\ Run \in Seq(Tools)
      /\ Run \o <<>> = Run /\ <<>> \o Run = Run /\ <<>> \o <<>> = <<>>
  BY RunType DEF Talk, Run, CallsOf
<1> DEFINE opened == ~client.encoded
           openai == IF client.path \in ChatPaths
                     THEN ParseOpenAIToolCalls(Body) ELSE <<>>
           anthropic == IF client.path \in MessagePaths /\ client.header
                        THEN ParseAnthropicToolCalls(Body) ELSE <<>>
           gemini == IF client.name = Google THEN ParseGeminiToolCalls(Body) ELSE <<>>
<1>1. openai = IF client.path \in ChatPaths /\ opened /\ client.api = "openai"
               THEN Run ELSE <<>>
  BY OpenAIFinds
<1>2. anthropic = IF /\ client.path \in MessagePaths /\ client.header
                     /\ opened /\ client.api = "anthropic" /\ ~client.plain
                  THEN Run ELSE <<>>
  BY AnthropicFinds
<1>3. gemini = IF client.name = Google /\ opened /\ client.api = "gemini"
               THEN Run ELSE <<>>
  BY GeminiFinds
<1>4. ExtractToolCalls(client.name, client.path, client.header, Body)
        = (openai \o anthropic) \o gemini
  BY DEF ExtractToolCalls
<1> HIDE DEF openai, anthropic, gemini
<1>5. CASE client.api = "openai"
  BY <1>0, <1>1, <1>2, <1>3, <1>4, <1>5
     DEF Watched, AI, IsAIEndpoint, ChatPaths, V1ChatPaths, MessagePaths
<1>6. CASE client.api = "anthropic"
  BY <1>0, <1>1, <1>2, <1>3, <1>4, <1>6
     DEF Watched, AI, IsAIEndpoint, ChatPaths, V1ChatPaths, MessagePaths
<1>7. CASE client.api = "gemini"
  BY <1>0, <1>1, <1>2, <1>3, <1>4, <1>7 DEF Watched
<1>8. CASE client.api \notin {"openai", "anthropic", "gemini"}
  BY <1>0, <1>1, <1>2, <1>3, <1>4, <1>8 DEF Watched
<1> QED
  BY <1>5, <1>6, <1>7, <1>8

-----------------------------------------------------------------------------
(* The start.                                                               *)

InFile(s) == file.kind = "yaml" /\ s \in DOMAIN file.keys
Flag(s) == s \in DOMAIN flags /\ Overriding(s, flags[s]) # Zero(s)

\* Where a setting comes from.
From(s) == IF Flag(s) THEN Overriding(s, flags[s])
           ELSE IF InFile(s) THEN file.keys[s] ELSE DefaultConfig[s]

\* What cmdServe's flags can be.
LEMMA FlagsAre ==
  ASSUME setup \in Setups
  PROVE  /\ DOMAIN flags \subseteq FlagSettings
         /\ \A n \in Numbers \cap DOMAIN flags : flags[n] \in Int
         /\ "dry_run" \in DOMAIN flags => flags["dry_run"] \in BOOLEAN
         /\ "dry_run" \in DOMAIN file.keys => file.keys["dry_run"] \in BOOLEAN
         /\ client.form \in {"absolute", "origin"}
BY FrontDoorAssumption DEF FrontDoorAssumption, flags, file, client

\* Every setting comes from its flag, or the file, or the defaults.
LEMMA Merged ==
  ASSUME setup \in Setups, NEW s \in Settings
  PROVE  MergeConfig(LoadConfig(file), Overrides(flags))[s] = From(s)
<1>1. s \in DOMAIN flags => s \in Mergeable
  BY FlagsAre DEF Mergeable
<1>2. LoadConfig(file)[s] = IF InFile(s) THEN file.keys[s] ELSE DefaultConfig[s]
  BY DEF LoadConfig, InFile
<1>3. s \in Mergeable =>
        Overrides(flags)[s] = IF s \in DOMAIN flags THEN Overriding(s, flags[s]) ELSE Zero(s)
  BY DEF Overrides
<1>4. MergeConfig(LoadConfig(file), Overrides(flags))[s]
        = IF s \in Mergeable /\ Overrides(flags)[s] # Zero(s)
          THEN Overrides(flags)[s] ELSE LoadConfig(file)[s]
  BY DEF MergeConfig
<1>5. CASE Flag(s)
  BY <1>1, <1>3, <1>4, <1>5 DEF Flag, From
<1>6. CASE ~Flag(s)
  BY <1>2, <1>3, <1>4, <1>6 DEF Flag, From
<1> QED
  BY <1>5, <1>6

\* Each setting comes from where it should, and the process ended for a reason that
\* its configuration has.
Sources == \A s \in Settings : cfg[s] = From(s)
Explained ==
  /\ setup \in Setups /\ Sources
  /\ process = "panic" => TickerPanics(cfg)
  /\ process = "fatal" => LoadFails(file) \/ NewFails(cfg)

\* That is what StartsAsTold says in terms of the values.
LEMMA ToldBySources == Explained => StartsAsTold
<1> SUFFICES ASSUME setup \in Setups, Sources,
                    process = "panic" => TickerPanics(cfg),
                    process = "fatal" => LoadFails(file) \/ NewFails(cfg)
             PROVE  StartsAsTold
  BY DEF Explained
<1>1. {"dry_run", "dash_addr", "rate_window", "detector.window_interval"} \subseteq Settings
  BY DEF Settings, Mergeable, FlagSettings, Addresses, Numbers
<1>2. \A s \in Settings :
         /\ Flag(s) => cfg[s] = Overriding(s, flags[s])
         /\ ~Flag(s) /\ InFile(s) => cfg[s] = file.keys[s]
         /\ ~Flag(s) /\ ~InFile(s) => cfg[s] = DefaultConfig[s]
  BY DEF Sources, From
<1>3. cfg["dry_run"] <=> \/ Flag("dry_run")
                         \/ InFile("dry_run") /\ file.keys["dry_run"]
  <2>1. Overriding("dry_run", flags["dry_run"]) = flags["dry_run"] /\ Zero("dry_run") = FALSE
    BY DEF Overriding, Zero, Addresses, Numbers
  <2>2. DefaultConfig["dry_run"] = FALSE
    BY <1>1, <2>1 DEF DefaultConfig
  <2>3. CASE Flag("dry_run")
    <3>1. flags["dry_run"] = TRUE
      BY <2>1, <2>3, FlagsAre DEF Flag
    <3> QED
      BY <1>1, <1>2, <2>1, <2>3, <3>1
  <2>4. CASE ~Flag("dry_run")
    BY <1>1, <1>2, <2>2, <2>4
  <2> QED
    BY <2>3, <2>4
<1>4. ~HasDash(cfg) => InFile("dash_addr")
  <2>1. SUFFICES ASSUME cfg["dash_addr"] = NoAddr, ~InFile("dash_addr") PROVE FALSE
    BY DEF HasDash
  <2>2. Zero("dash_addr") = NoAddr
    <3>1. /\ "dash_addr" \in Addresses
          /\ "dash_addr" \notin Numbers \cup {"detector.window_interval"}
          /\ "dash_addr" # "target_hosts" /\ "dash_addr" # "dry_run"
      BY DEF Addresses, Numbers
    <3> QED
      BY <3>1, Zenon DEF Zero
  <2>3. ~Flag("dash_addr")
    BY <1>1, <1>2, <2>1, <2>2 DEF Flag
  <2>4. DefaultConfig["dash_addr"] = [ip |-> "", port |-> "9090"]
    BY <1>1 DEF DefaultConfig
  <2>5. [ip |-> "", port |-> "9090"].port # NoAddr.port
    BY DEF NoAddr
  <2> QED
    BY <1>1, <1>2, <2>1, <2>3, <2>4, <2>5
<1>5. process = "panic" => InFile("rate_window") \/ InFile("detector.window_interval")
  <2>1. SUFFICES ASSUME cfg["rate_window"] <= 0 \/ cfg["detector.window_interval"] <= 0,
                        ~InFile("rate_window"), ~InFile("detector.window_interval")
                 PROVE  FALSE
    BY DEF TickerPanics
  <2>2. Flag("rate_window") => cfg["rate_window"] \in Int /\ cfg["rate_window"] > 0
    <3>1. SUFFICES ASSUME Flag("rate_window")
                   PROVE  cfg["rate_window"] \in Int /\ cfg["rate_window"] > 0
      OBVIOUS
    <3> DEFINE v == flags["rate_window"]
    <3>2. v \in Int
      BY <3>1, FlagsAre DEF Flag, Numbers
    <3>3. Overriding("rate_window", v) = (IF v > 0 THEN v ELSE 0) /\ Zero("rate_window") = 0
      BY DEF Overriding, Zero, Addresses, Numbers
    <3>4. v > 0
      BY <3>1, <3>2, <3>3 DEF Flag
    <3> QED
      BY <1>1, <1>2, <3>1, <3>2, <3>3, <3>4
  <2>3. ~Flag("detector.window_interval")
    BY FlagsAre DEF Flag, FlagSettings, Addresses, Numbers
  <2>4. DefaultConfig["rate_window"] = 1 /\ DefaultConfig["detector.window_interval"] = 1
    BY <1>1 DEF DefaultConfig
  <2> QED
    BY <1>1, <1>2, <2>1, <2>2, <2>3, <2>4
<1>6. process = "fatal" => file.kind \in {"unreadable", "malformed"} \/ NewFails(cfg)
  BY DEF LoadFails
<1> QED
  BY <1>2, <1>3, <1>4, <1>5, <1>6 DEF StartsAsTold, Flag, InFile

-----------------------------------------------------------------------------
(* The door.                                                                *)

\* The part of the type invariant that is about the door.
DoorTypeOK ==
  /\ setup \in Setups
  /\ process \in {"new", "up", "fatal", "panic"}
  /\ DOMAIN cfg = Settings
  /\ at \in {"idle", "arrived", "judge", "forward", "tunnel"}
  /\ form \in {"absolute", "origin"}
  /\ hops \in 0..1
  /\ passed \in 0..Len(Run)
  /\ reply \in {"none", "page", "404", "429", "403", "502", "answer", "error"}

\* Nothing has happened before the start.
Fresh == process = "new" => at = "idle" /\ Len(history) = 2 /\ passed = 0

\* A request that has come back has lost its scheme and host, and that is what lets
\* it come back only once: the next time it goes out over TLS.
Returned == form = "absolute" => hops = 0

\* The calls found in a request are looked for in the conversation as it is.
SeenInRun == ToSet(seen) \subseteq ToSet(Run)

\* What has passed the policies, in a conversation that is watched, asks for no
\* denied tool.
Judged ==
  at = "forward" /\ Watched /\ ~cfg["dry_run"] => ToSet(Run) \cap Denied = {}

IInv ==
  /\ TunnelTypeOK /\ TunnelInv
  /\ DoorTypeOK /\ Talk /\ Fresh /\ Returned /\ StartsAsTold
  /\ SeenInRun /\ EveryCallSeen /\ Judged /\ OneAnswerAhead

\* Run is what they are.
LEMMA RunIs == ASSUME Talk PROVE Run = FlattenSeq(CallsOf(history)) /\ Run \in Seq(Tools)
BY RunType DEF Talk, Run, CallsOf

\* Every call of every message is in the run of the conversation.
LEMMA CallsInRun ==
  ASSUME Talk, NEW i \in 1..Len(history)
  PROVE  ToSet(history[i].calls) \subseteq ToSet(Run)
<1>1. CallsOf(history) \in Seq(Seq(Tools)) /\ Len(CallsOf(history)) = Len(history)
  <2>1. history \in Seq(Messages)
    BY DEF Talk
  <2>2. CallsOf(history) \in Seq(Seq(Tools))
    BY <2>1, RunType
  <2> QED
    BY <2>1, <2>2 DEF CallsOf
<1>2. ToSet(Run) = UNION {ToSet(CallsOf(history)[j]) : j \in 1..Len(history)}
  BY <1>1, RunIs, FlattenMembers
<1>3. CallsOf(history)[i] = history[i].calls
  BY DEF CallsOf
<1> QED
  BY <1>2, <1>3

\* A conversation that goes on.
LEMMA RunGrows ==
  ASSUME Talk, setup \in Setups, NEW calls \in Answers,
         history' = Append(history, [plain |-> FALSE, calls |-> calls]),
         UNCHANGED setup
  PROVE  /\ Talk' /\ Run' = Run \o calls
         /\ Run \in Seq(Tools) /\ calls \in Seq(Tools)
         /\ Len(Run') = Len(Run) + Len(calls)
         /\ \A i \in 1..Len(Run) : Run'[i] = Run[i]
         /\ ToSet(Run) \subseteq ToSet(Run')
<1> DEFINE m == [plain |-> FALSE, calls |-> calls]
<1>1. calls \in Seq(Tools)
  BY ToolsAre
<1>2. m \in Messages
  BY <1>1 DEF Messages
<1>3. history \in Seq(Messages) /\ Len(history) \in Nat /\ Len(history) >= 2
  BY DEF Talk
<1> HIDE DEF m
<1>4. /\ history' = Append(history, m) /\ history' \in Seq(Messages)
      /\ Len(history') = Len(history) + 1
      /\ history'[Len(history) + 1] = m
      /\ \A i \in 1..Len(history) : history'[i] = history[i]
  BY <1>2, <1>3 DEF m
<1>5. Talk'
  <2>1. history'[1] = [plain |-> client.plain, calls |-> <<>>]
    BY <1>3, <1>4 DEF Talk
  <2>2. ASSUME NEW i \in 2..Len(history') PROVE history'[i].plain = FALSE
    <3>1. CASE i \in 2..Len(history)
      BY <1>3, <1>4, <3>1 DEF Talk
    <3>2. CASE i = Len(history) + 1
      BY <1>4, <3>2 DEF m
    <3>3. i \in 2..Len(history) \/ i = Len(history) + 1
      BY <1>3, <1>4
    <3> QED
      BY <3>1, <3>2, <3>3
  <2> QED
    BY <1>3, <1>4, <2>1, <2>2 DEF Talk, client
<1>6. Run' = Run \o calls
  <2>1. CallsOf(history) \in Seq(Seq(Tools))
    BY <1>3, RunType
  <2>2. CallsOf(history') = Append(CallsOf(history), calls)
    <3>1. ASSUME NEW i \in 1..Len(history) + 1
          PROVE  history'[i].calls = Append(CallsOf(history), calls)[i]
      <4>1. CASE i \in 1..Len(history)
        <5>1. Append(CallsOf(history), calls)[i] = CallsOf(history)[i]
          BY <1>3, <4>1 DEF CallsOf
        <5>2. CallsOf(history)[i] = history[i].calls
          BY <4>1 DEF CallsOf
        <5> QED
          BY <1>4, <4>1, <5>1, <5>2
      <4>2. CASE i = Len(history) + 1
        <5>1. Len(CallsOf(history)) = Len(history)
          BY <1>3 DEF CallsOf
        <5>2. Append(CallsOf(history), calls)[i] = calls
          BY <2>1, <4>2, <5>1
        <5> QED
          BY <1>4, <4>2, <5>2 DEF m
      <4>3. i \in 1..Len(history) \/ i = Len(history) + 1
        BY <1>3
      <4> QED
        BY <4>1, <4>2, <4>3
    <3>2. /\ Append(CallsOf(history), calls) \in Seq(Seq(Tools))
          /\ Len(Append(CallsOf(history), calls)) = Len(history) + 1
      BY <1>1, <1>3, <2>1 DEF CallsOf
    <3>3. Append(CallsOf(history), calls)
            = [i \in 1..Len(history) + 1 |-> Append(CallsOf(history), calls)[i]]
      BY <3>2, SeqIsFunction
    <3> QED
      BY <1>4, <3>1, <3>3 DEF CallsOf
  <2>3. FlattenSeq(CallsOf(history')) = FlattenSeq(CallsOf(history)) \o calls
    BY <1>1, <2>1, <2>2, FlattenAppend
  <2> QED
    BY <2>3 DEF Run, CallsOf
<1>7. Run \in Seq(Tools)
  BY RunIs
<1>8. ToSet(Run') = ToSet(Run) \cup ToSet(calls)
  BY <1>1, <1>6, <1>7, ToSetConcat
<1> HIDE DEF Run
<1> DEFINE r == Run
<1> HIDE DEF r
<1>9. /\ Len(r \o calls) = Len(r) + Len(calls)
      /\ \A i \in 1..Len(r) : (r \o calls)[i] = r[i]
  BY <1>1, <1>7 DEF r
<1> QED
  BY <1>1, <1>5, <1>6, <1>7, <1>8, <1>9 DEF r

-----------------------------------------------------------------------------
(* The invariant.                                                           *)

\* At the start the invariant holds.
LEMMA DoorInit == ASSUME Init PROVE IInv
<1>1. TunnelTypeOK /\ TunnelInv
  BY TunnelInitInv DEF Init
<1>2. Talk
  <2>1. setup \in Setups /\ client.resumed \in Seq(Tools) /\ <<>> \in Seq(Tools)
    BY ToolsAre DEF Init, client
  <2>2. /\ [plain |-> client.plain, calls |-> <<>>] \in Messages
        /\ [plain |-> FALSE, calls |-> client.resumed] \in Messages
    BY <2>1 DEF Messages, client
  <2>3. history = <<[plain |-> client.plain, calls |-> <<>>],
                    [plain |-> FALSE, calls |-> client.resumed]>>
    BY DEF Init
  <2> QED
    BY <2>2, <2>3 DEF Talk
<1>3. DoorTypeOK
  <2>1. DOMAIN cfg = Settings
    BY DEF Init, DefaultConfig
  <2>2. passed \in 0..Len(Run)
    BY <1>2, RunIs DEF Init
  <2> QED
    BY <2>1, <2>2 DEF Init, DoorTypeOK
<1>4. Fresh /\ Returned /\ StartsAsTold /\ EveryCallSeen /\ Judged
  BY DEF Init, Fresh, Returned, StartsAsTold, EveryCallSeen, Judged
<1>5. SeenInRun
  BY DEF Init, SeenInRun, ToSet
<1>6. OneAnswerAhead
  <2>1. Len(history) = 2 /\ history[1].calls = <<>> /\ passed = 0
    BY DEF Init
  <2>2. ToSet(<<>>) = {}
    BY DEF ToSet
  <2> QED
    BY <2>1, <2>2 DEF OneAnswerAhead
<1> QED
  BY <1>1, <1>2, <1>3, <1>4, <1>5, <1>6 DEF IInv

\* What no step of a request changes, and what follows for what is said of it.
LEMMA SameTalk ==
  ASSUME UNCHANGED <<setup, cfg, history>>
  PROVE  Run' = Run /\ Watched' = Watched /\ (Talk => Talk')
BY DEF Run, Watched, AI, Talk, client

\* The tunnel's part of the invariant.
LEMMA SameTunnel ==
  ASSUME TunnelTypeOK, TunnelInv, UNCHANGED tunnelVars \/ TunnelNext \/ StartTunnel
  PROVE  TunnelTypeOK' /\ TunnelInv'
BY TunnelTypeStep, TunnelInvStep

\* Steps that leave the conversation, the configuration and the process alone.
LEMMA QuietStep ==
  ASSUME IInv, UNCHANGED <<setup, process, cfg, history, passed>>,
         process = "up" \/ UNCHANGED at,
         UNCHANGED tunnelVars \/ TunnelNext \/ StartTunnel,
         at' \in {"idle", "arrived", "judge", "forward", "tunnel"},
         form' \in {"absolute", "origin"}, hops' \in 0..1, Returned',
         reply' \in {"none", "page", "404", "429", "403", "502", "answer", "error"},
         SeenInRun', EveryCallSeen', Judged'
  PROVE  IInv'
<1>1. Run' = Run /\ Watched' = Watched /\ Talk'
  BY SameTalk DEF IInv
<1>2. TunnelTypeOK' /\ TunnelInv'
  BY SameTunnel DEF IInv
<1>3. DoorTypeOK'
  BY <1>1 DEF IInv, DoorTypeOK
<1>4. Fresh'
  BY DEF IInv, Fresh
<1>5. StartsAsTold'
  BY DEF IInv, StartsAsTold, file, flags
<1>6. OneAnswerAhead'
  BY <1>1 DEF IInv, OneAnswerAhead
<1> QED
  BY <1>1, <1>2, <1>3, <1>4, <1>5, <1>6 DEF IInv

\* The start: what was nothing becomes what file and flags say.
LEMMA StartKeeps == ASSUME IInv, Start PROVE IInv'
<1>0. /\ setup \in Setups /\ process = "new" /\ at = "idle" /\ Len(history) = 2
      /\ Talk /\ TunnelTypeOK /\ TunnelInv
      /\ cfg' = MergeConfig(LoadConfig(file), Overrides(flags))
      /\ process' = IF LoadFails(file) \/ NewFails(cfg') THEN "fatal" ELSE "up"
      /\ UNCHANGED <<setup, history, at, form, hops, seen, passed, reply>>
      /\ UNCHANGED tunnelVars
  BY DEF IInv, Start, DoorTypeOK, Fresh
<1>1. TunnelTypeOK' /\ TunnelInv'
  BY <1>0, SameTunnel
<1>2. Run' = Run /\ Talk'
  BY <1>0 DEF Run, Talk, client
<1>3. DoorTypeOK'
  <2>1. DOMAIN cfg' = Settings
    BY <1>0 DEF MergeConfig
  <2> QED
    BY <1>0, <1>2, <2>1 DEF IInv, DoorTypeOK
<1>4. Fresh' /\ Returned' /\ SeenInRun' /\ EveryCallSeen' /\ Judged'
  BY <1>0, <1>2 DEF IInv, Fresh, Returned, SeenInRun, EveryCallSeen, Judged
<1>5. StartsAsTold'
  <2>1. setup' \in Setups /\ file' = file
    BY <1>0 DEF file
  <2>2. Sources'
    <3>1. \A s \in Settings : From(s)' = From(s)
      BY <1>0 DEF From, Flag, InFile, file, flags
    <3>2. \A s \in Settings : cfg'[s] = From(s)
      BY <1>0, Merged
    <3> QED
      BY <3>1, <3>2 DEF Sources
  <2>3. /\ process' = "panic" => TickerPanics(cfg)'
        /\ process' = "fatal" => LoadFails(file)' \/ NewFails(cfg)'
    BY <1>0, <2>1
  <2> QED
    <3>1. Explained'
      BY <2>1, <2>2, <2>3 DEF Explained
    <3> QED
      BY <3>1, ToldBySources, PTL
<1>6. OneAnswerAhead'
  <2>1. Len(history') = 2 /\ history'[1].calls = <<>> /\ passed' = passed /\ ToSet(<<>>) = {}
    BY <1>0 DEF Talk, ToSet
  <2>2. passed = 0
    BY <1>0 DEF IInv, Fresh
  <2> QED
    BY <2>1, <2>2 DEF OneAnswerAhead
<1> QED
  BY <1>1, <1>2, <1>3, <1>4, <1>5, <1>6 DEF IInv

\* A ticker that panics has an interval that only the file can have given.
LEMMA PanicKeeps == ASSUME IInv, Panic PROVE IInv'
<1>0. /\ process = "up" /\ TickerPanics(cfg) /\ process' = "panic"
      /\ UNCHANGED <<setup, cfg, history, at, form, hops, seen, passed, reply>>
      /\ UNCHANGED tunnelVars /\ setup \in Setups
  BY DEF Panic, IInv, DoorTypeOK
<1>1. Run' = Run /\ Watched' = Watched /\ Talk'
  BY <1>0, SameTalk DEF IInv
<1>2. TunnelTypeOK' /\ TunnelInv'
  BY <1>0, SameTunnel DEF IInv
<1>3. DoorTypeOK' /\ Fresh' /\ Returned' /\ SeenInRun'
  BY <1>0, <1>1 DEF IInv, DoorTypeOK, Fresh, Returned, SeenInRun
<1>4. EveryCallSeen' /\ Judged' /\ OneAnswerAhead'
  BY <1>0, <1>1 DEF IInv, EveryCallSeen, Judged, OneAnswerAhead
<1>5. StartsAsTold'
  <2>1. Sources'
    <3>1. Sources
      BY <1>0 DEF IInv, StartsAsTold, Sources, From, Flag, InFile
    <3>2. \A s \in Settings : From(s)' = From(s)
      BY <1>0 DEF From, Flag, InFile, file, flags
    <3> QED
      BY <1>0, <3>1, <3>2 DEF Sources
  <2>2. /\ setup' \in Setups
        /\ process' = "panic" => TickerPanics(cfg)'
        /\ process' = "fatal" => LoadFails(file)' \/ NewFails(cfg)'
    BY <1>0
  <2> QED
    <3>1. Explained'
      BY <2>1, <2>2 DEF Explained
    <3> QED
      BY <3>1, ToldBySources, PTL
<1> QED
  BY <1>1, <1>2, <1>3, <1>4, <1>5 DEF IInv

\* A request that waits for its answer, and one that has it, is not judged.
LEMMA AskKeeps == ASSUME IInv, Ask PROVE IInv'
<1>1. /\ process = "up" /\ at' = "arrived" /\ form' = client.form /\ hops' = 0
      /\ reply' = "none"
      /\ UNCHANGED <<setup, process, cfg, history, seen, passed>> /\ UNCHANGED tunnelVars
  BY DEF Ask
<1>2. form' \in {"absolute", "origin"}
  BY <1>1, FlagsAre DEF IInv, DoorTypeOK
<1>3. Run' = Run /\ Watched' = Watched
  BY <1>1, SameTalk
<1>4. Returned' /\ SeenInRun' /\ EveryCallSeen' /\ Judged'
  BY <1>1, <1>3 DEF IInv, Returned, SeenInRun, EveryCallSeen, Judged
<1> QED
  BY <1>1, <1>2, <1>4, QuietStep

\* A page, or a tunnel: no request is under way any more.
LEMMA PageKeeps == ASSUME IInv, ServePage \/ Connect PROVE IInv'
<1>1. /\ process = "up" /\ at' \in {"idle", "tunnel"}
      /\ UNCHANGED <<setup, process, cfg, history, seen, passed, form, hops>>
      /\ UNCHANGED tunnelVars \/ StartTunnel
      /\ reply' = reply \/ reply' \in {"page", "404"}
  BY DEF ServePage, Connect, Reply
<1>2. /\ form' \in {"absolute", "origin"} /\ hops' \in 0..1
      /\ reply' \in {"none", "page", "404", "429", "403", "502", "answer", "error"}
  BY <1>1 DEF IInv, DoorTypeOK
<1>3. Run' = Run /\ Watched' = Watched
  BY <1>1, SameTalk
<1>4. Returned' /\ SeenInRun' /\ EveryCallSeen' /\ Judged'
  BY <1>1, <1>3 DEF IInv, Returned, SeenInRun, EveryCallSeen, Judged
<1> QED
  BY <1>1, <1>2, <1>4, QuietStep

\* The proxy looks into the request.
LEMMA ExtractKeeps == ASSUME IInv, Extract PROVE IInv'
<1>1. /\ process = "up" /\ at' = "judge"
      /\ UNCHANGED <<setup, process, cfg, history, passed, form, hops, reply>>
      /\ UNCHANGED tunnelVars
  BY DEF Extract
<1>2. /\ form' \in {"absolute", "origin"} /\ hops' \in 0..1
      /\ reply' \in {"none", "page", "404", "429", "403", "502", "answer", "error"}
  BY <1>1 DEF IInv, DoorTypeOK
<1>3. Run' = Run /\ Watched' = Watched
  BY <1>1, SameTalk
<1>4. seen' = IF Watched THEN Run ELSE <<>>
  BY AllOrNone DEF Extract, IInv
<1>5. SeenInRun'
  <2>1. ToSet(<<>>) = {}
    BY DEF ToSet
  <2> QED
    BY <1>3, <1>4, <2>1 DEF SeenInRun
<1>6. Returned' /\ EveryCallSeen' /\ Judged'
  BY <1>1, <1>3, <1>4 DEF IInv, Returned, EveryCallSeen, Judged
<1> QED
  BY <1>1, <1>2, <1>5, <1>6, QuietStep

\* What is let through has no denied call among those seen.
LEMMA JudgeKeeps == ASSUME IInv, Judge PROVE IInv'
<1>1. /\ process = "up" /\ at = "judge" /\ at' \in {"idle", "forward"}
      /\ UNCHANGED <<setup, process, cfg, history, seen, passed, form, hops>>
      /\ UNCHANGED tunnelVars
      /\ reply' = reply \/ reply' \in {"429", "403"}
      /\ at' = "forward" => ~(ToSet(seen) \cap Denied # {} /\ ~cfg["dry_run"])
  BY DEF Judge, Reply
<1>2. /\ form' \in {"absolute", "origin"} /\ hops' \in 0..1
      /\ reply' \in {"none", "page", "404", "429", "403", "502", "answer", "error"}
  BY <1>1 DEF IInv, DoorTypeOK
<1>3. Run' = Run /\ Watched' = Watched
  BY <1>1, SameTalk
<1>4. Returned' /\ SeenInRun' /\ EveryCallSeen'
  BY <1>1, <1>3 DEF IInv, Returned, SeenInRun, EveryCallSeen
<1>5. Judged'
  <2>1. Watched => seen = Run
    BY <1>1 DEF IInv, EveryCallSeen
  <2> QED
    BY <1>1, <1>3, <2>1 DEF Judged
<1> QED
  BY <1>1, <1>2, <1>4, <1>5, QuietStep

\* What comes back comes without a scheme, and what has come back goes out over TLS.
LEMMA ReturnKeeps == ASSUME IInv, Return PROVE IInv'
<1>1. /\ process = "up" /\ at' = "arrived" /\ form' = "origin" /\ hops' = hops + 1
      /\ UNCHANGED <<setup, process, cfg, history, seen, passed, reply>>
      /\ UNCHANGED tunnelVars
      /\ UpstreamURL.scheme = "http"
  BY DEF Return
<1>2. form = "absolute"
  BY <1>1 DEF UpstreamURL
<1>3. hops' \in 0..1
  BY <1>1, <1>2 DEF IInv, Returned
<1>4. reply' \in {"none", "page", "404", "429", "403", "502", "answer", "error"}
  BY <1>1 DEF IInv, DoorTypeOK
<1>5. Run' = Run /\ Watched' = Watched
  BY <1>1, SameTalk
<1>6. Returned' /\ SeenInRun' /\ EveryCallSeen' /\ Judged'
  BY <1>1, <1>5 DEF IInv, Returned, SeenInRun, EveryCallSeen, Judged
<1> QED
  BY <1>1, <1>3, <1>4, <1>6, QuietStep

\* A failure leaves the conversation as it was.
LEMMA FailKeeps == ASSUME IInv, Fail PROVE IInv'
<1>1. /\ process = "up" /\ at' = "idle" /\ reply' = "502"
      /\ UNCHANGED <<setup, process, cfg, history, seen, passed, form, hops>>
      /\ UNCHANGED tunnelVars
  BY DEF Fail, Reply
<1>2. form' \in {"absolute", "origin"} /\ hops' \in 0..1
  BY <1>1 DEF IInv, DoorTypeOK
<1>3. Run' = Run /\ Watched' = Watched
  BY <1>1, SameTalk
<1>4. Returned' /\ SeenInRun' /\ EveryCallSeen' /\ Judged'
  BY <1>1, <1>3 DEF IInv, Returned, SeenInRun, EveryCallSeen, Judged
<1> QED
  BY <1>1, <1>2, <1>4, QuietStep

\* The conversation has passed the policies as it is; the answer comes on top.
LEMMA DeliverKeeps == ASSUME IInv, Deliver PROVE IInv'
<1>0. /\ process = "up" /\ at = "forward" /\ at' = "idle" /\ passed' = Len(Run)
      /\ reply' \in {"answer", "error"}
      /\ UNCHANGED <<setup, process, cfg, form, hops, seen>> /\ UNCHANGED tunnelVars
      /\ \/ UNCHANGED history
         \/ \E calls \in Answers :
              history' = Append(history, [plain |-> FALSE, calls |-> calls])
  BY DEF Deliver, Reply
<1>1. /\ setup \in Setups /\ Talk /\ TunnelTypeOK /\ TunnelInv
      /\ Run \in Seq(Tools) /\ Len(Run) \in Nat
      /\ history \in Seq(Messages) /\ Len(history) \in Nat
  <2>1. setup \in Setups /\ Talk /\ TunnelTypeOK /\ TunnelInv
    BY DEF IInv, DoorTypeOK
  <2>2. Run \in Seq(Tools)
    BY <2>1, RunIs
  <2>3. Len(Run) \in Nat
    BY <2>2
  <2> QED
    BY <2>1, <2>2, <2>3 DEF Talk
<1>2. TunnelTypeOK' /\ TunnelInv'
  BY <1>0, <1>1, SameTunnel
<1>3. /\ Talk' /\ Len(Run) <= Len(Run') /\ Len(Run') \in Nat
      /\ \A i \in 1..Len(Run) : Run'[i] = Run[i]
      /\ ToSet(Run) \subseteq ToSet(Run')
  <2>1. CASE UNCHANGED history
    BY <1>0, <1>1, <2>1, SameTalk
  <2>2. ASSUME NEW calls \in Answers,
               history' = Append(history, [plain |-> FALSE, calls |-> calls])
        PROVE  /\ Talk' /\ Len(Run) <= Len(Run') /\ Len(Run') \in Nat
               /\ \A i \in 1..Len(Run) : Run'[i] = Run[i]
               /\ ToSet(Run) \subseteq ToSet(Run')
    <3>1. /\ Talk' /\ calls \in Seq(Tools) /\ Len(Run') = Len(Run) + Len(calls)
          /\ \A i \in 1..Len(Run) : Run'[i] = Run[i]
          /\ ToSet(Run) \subseteq ToSet(Run')
      BY <1>0, <1>1, <2>2, RunGrows
    <3>2. Len(calls) \in Nat
      BY <3>1
    <3> QED
      BY <1>1, <3>1, <3>2
  <2> QED
    BY <1>0, <2>1, <2>2
<1>4. DoorTypeOK'
  <2>1. passed' \in 0..Len(Run')
    BY <1>0, <1>1, <1>3
  <2> QED
    BY <1>0, <2>1 DEF IInv, DoorTypeOK
<1>5. Fresh' /\ Returned' /\ SeenInRun' /\ EveryCallSeen' /\ Judged'
  BY <1>0, <1>3 DEF IInv, Fresh, Returned, SeenInRun, EveryCallSeen, Judged
<1>6. StartsAsTold'
  BY <1>0 DEF IInv, StartsAsTold, file, flags
<1>7. OneAnswerAhead'
  <2>1. SUFFICES ASSUME Watched, ~cfg["dry_run"]
                 PROVE  /\ \A i \in 1..Len(history') - 1 :
                             ToSet(history'[i].calls) \cap Denied = {}
                        /\ \A i \in 1..passed' : Run'[i] \notin Denied
    <3>1. Watched' = Watched /\ cfg' = cfg
      BY <1>0 DEF Watched, AI, client
    <3> QED
      BY <3>1 DEF OneAnswerAhead
  <2>2. ToSet(Run) \cap Denied = {}
    BY <1>0, <2>1 DEF IInv, Judged
  <2>3. ASSUME NEW i \in 1..passed' PROVE Run'[i] \notin Denied
    <3>1. i \in 1..Len(Run) /\ Run'[i] = Run[i]
      BY <1>0, <1>3, <2>3
    <3>2. Run[i] \in ToSet(Run)
      BY <1>1, <3>1 DEF ToSet
    <3> QED
      BY <2>2, <3>1, <3>2
  <2>4. ASSUME NEW i \in 1..Len(history') - 1
        PROVE  ToSet(history'[i].calls) \cap Denied = {}
    <3>1. i \in 1..Len(history) /\ history'[i] = history[i]
      <4>1. CASE UNCHANGED history
        BY <1>1, <2>4, <4>1
      <4>2. ASSUME NEW m, history' = Append(history, m)
            PROVE  i \in 1..Len(history) /\ history'[i] = history[i]
        BY <1>1, <2>4, <4>2
      <4> QED
        BY <1>0, <4>1, <4>2
    <3>2. ToSet(history[i].calls) \subseteq ToSet(Run)
      BY <1>1, <3>1, CallsInRun
    <3> QED
      BY <2>2, <3>1, <3>2
  <2> QED
    BY <2>3, <2>4
<1> QED
  BY <1>2, <1>3, <1>4, <1>5, <1>6, <1>7 DEF IInv

\* A step of the tunnel, or none.
LEMMA TunnelKeeps ==
  ASSUME IInv, UNCHANGED doorVars, TunnelNext \/ UNCHANGED tunnelVars
  PROVE  IInv'
<1>1. UNCHANGED <<setup, process, cfg, history, at, form, hops, seen, passed, reply>>
  BY DEF doorVars
<1>2. Run' = Run /\ Watched' = Watched
  BY <1>1, SameTalk
<1>3. /\ at' \in {"idle", "arrived", "judge", "forward", "tunnel"}
      /\ form' \in {"absolute", "origin"} /\ hops' \in 0..1
      /\ reply' \in {"none", "page", "404", "429", "403", "502", "answer", "error"}
  BY <1>1 DEF IInv, DoorTypeOK
<1>4. Returned' /\ SeenInRun' /\ EveryCallSeen' /\ Judged'
  BY <1>1, <1>2 DEF IInv, Returned, SeenInRun, EveryCallSeen, Judged
<1> QED
  BY <1>1, <1>3, <1>4, QuietStep

-----------------------------------------------------------------------------
(* The theorems.                                                            *)

\* The invariant holds at the start and every step keeps it.
THEOREM Inductive == Spec => []IInv
<1>1. Init => IInv
  BY DoorInit
<1>2. IInv /\ [Next]_vars => IInv'
  <2> SUFFICES ASSUME IInv, [Next]_vars PROVE IInv'
    OBVIOUS
  <2>1. CASE Start
    BY <2>1, StartKeeps
  <2>2. CASE Panic
    BY <2>2, PanicKeeps
  <2>3. CASE Ask
    BY <2>3, AskKeeps
  <2>4. CASE ServePage \/ Connect
    BY <2>4, PageKeeps
  <2>5. CASE Extract
    BY <2>5, ExtractKeeps
  <2>6. CASE Judge
    BY <2>6, JudgeKeeps
  <2>7. CASE Return
    BY <2>7, ReturnKeeps
  <2>8. CASE Deliver
    BY <2>8, DeliverKeeps
  <2>9. CASE Fail
    BY <2>9, FailKeeps
  <2>10. CASE UNCHANGED doorVars /\ (TunnelNext \/ UNCHANGED tunnelVars)
    BY <2>10, TunnelKeeps
  <2> QED
    BY <2>1, <2>2, <2>3, <2>4, <2>5, <2>6, <2>7, <2>8, <2>9, <2>10
       DEF Next, Door, Forward, vars
<1> QED
  BY <1>1, <1>2, PTL DEF Spec

\* The types, among them that a request that names the proxy itself comes back to it
\* once at most, whatever the machine's names, the ports and the configuration.
THEOREM TypeCorrect == Spec => []TypeOK
<1>1. IInv => TypeOK
  BY DEF IInv, TypeOK, DoorTypeOK, SeenInRun
<1> QED
  BY <1>1, Inductive, PTL

\* Whatever file and flags cmdServe is started with, each setting is what the flag says,
\* or else the file, or else the defaults, and the process dies only for the reasons
\* that those give (main.go:90-130, proxy.go:53-120).
THEOREM StartsTold == Spec => []StartsAsTold
<1>1. IInv => StartsAsTold
  BY DEF IInv
<1> QED
  BY <1>1, Inductive, PTL

\* Of conversations of any length, with any number of calls in a message, the parsers
\* find all calls in their order, or none, and exactly for the requests that Watched
\* describes (intercept.go:175-320).
THEOREM EveryCallIsSeen == Spec => []EveryCallSeen
<1>1. IInv => EveryCallSeen
  BY DEF IInv
<1> QED
  BY <1>1, Inductive, PTL

\* A conversation that is watched runs ahead of its policies by one answer, for every
\* set of denied tools and every model (intercept.go:61-91).
THEOREM OneAnswer == Spec => []OneAnswerAhead
<1>1. IInv => OneAnswerAhead
  BY DEF IInv
<1> QED
  BY <1>1, Inductive, PTL

\* A tunnel delivers what it takes in, for streams of every length and a network of
\* every capacity (intercept.go:146-173).
THEOREM StreamsAreIntact == Spec => []StreamsIntact
<1>1. IInv => StreamsIntact
  BY StreamsAre DEF IInv
<1> QED
  BY <1>1, Inductive, PTL
=============================================================================
