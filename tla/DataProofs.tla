------------------------------ MODULE DataProofs ------------------------------
(* Theorems about the algorithms on data, for inputs of any length.        *)
(* Induction over them is by the least counterexample.                     *)
EXTENDS Intervals, MainboardRewrite, GcodeParser, UploadForm, FiniteSetTheorems,
        SequenceTheorems, WellFoundedInduction, TLAPS

(* A set of numbers has a least one. *)
LEMMA Least ==
  ASSUME NEW T, T \subseteq Nat, T # {}
  PROVE  \E x \in T : \A y \in T : x <= y
<1>1. PICK x \in T : \A y \in T : ~ (<<y, x>> \in OpToRel(<, Nat))
  BY WFMin, NatLessThanWellFounded
<1>2. \A y \in T : ~ (y < x)
  BY <1>1 DEF OpToRel
<1> QED BY <1>2

-----------------------------------------------------------------------------
(* Intervals: a session's intervals know which bytes have arrived. *)

Interval == {i \in Nat \X Nat : i[1] < i[2]}

(* The byte b lies in one of the intervals s. *)
Holds(s, b) == \E k \in 1 .. Len(s) : s[k][1] <= b /\ b < s[k][2]

(* Merged intervals: in order, and with a gap behind each. *)
Tidy(s) ==
  /\ s \in Seq(Interval)
  /\ \A j, k \in 1 .. Len(s) : j < k => s[j][2] < s[k][1]

(* Intervals in the order in which they start. *)
Rising(s) ==
  /\ s \in Seq(Interval)
  /\ \A j, k \in 1 .. Len(s) : j < k => s[j][1] <= s[k][1]

Inv ==
  /\ Tidy(intervals)
  /\ got \subseteq Nat
  /\ \A b \in Nat : b \in got <=> Holds(intervals, b)

-----------------------------------------------------------------------------
(* Joined(s) is the function its definition says. *)
LEMMA JoinedDef ==
  ASSUME NEW s \in Seq(Interval)
  PROVE  Joined(s) = [n \in 1 .. Len(s) |->
                        IF n = 1 THEN <<s[1]>> ELSE Join(Joined(s)[n - 1], s[n])]
<1> DEFINE Step(f, n) == IF n = 1 THEN <<s[1]>> ELSE Join(f[n - 1], s[n])
           Upto(n) == \E f : f = [k \in 1 .. n |-> Step(f, k)]
           Missing == {n \in 0 .. Len(s) : ~ Upto(n)}
<1>1. Upto(0)
  <2> DEFINE f == [k \in 1 .. 0 |-> {}]
  <2>1. f = [k \in 1 .. 0 |-> Step(f, k)]
    OBVIOUS
  <2> QED BY <2>1
<1>2. ASSUME NEW n \in 0 .. Len(s), n # 0, Upto(n - 1) PROVE Upto(n)
  <2>1. PICK f : f = [k \in 1 .. n - 1 |-> Step(f, k)]
    BY <1>2
  <2> DEFINE g == [k \in 1 .. n |-> IF k = n THEN Step(f, n) ELSE f[k]]
  <2>2. \A k \in 1 .. n : g[k] = Step(g, k)
    <3> TAKE k \in 1 .. n
    <3>1. k # 1 => g[k - 1] = f[k - 1]
      OBVIOUS
    <3>2. Step(g, k) = Step(f, k)
      BY <3>1
    <3>3. k # n => f[k] = Step(f, k)
      <4> HIDE DEF Step
      <4> QED BY <2>1
    <3> QED BY <3>2, <3>3
  <2>3. g = [k \in 1 .. n |-> Step(g, k)]
    <3> HIDE DEF Step
    <3>1. g = [k \in 1 .. n |-> g[k]]
      OBVIOUS
    <3> HIDE DEF g
    <3> QED BY <2>2, <3>1
  <2> QED BY <2>3
<1>3. Missing = {}
  <2> SUFFICES ASSUME Missing # {} PROVE FALSE
    OBVIOUS
  <2> HIDE DEF Upto
  <2>0. Missing \subseteq Nat
    OBVIOUS
  <2>1. PICK n \in Missing : \A k \in Missing : n <= k
    <3> HIDE DEF Missing
    <3> QED BY <2>0, Least
  <2>2. n # 0 /\ n - 1 \in 0 .. Len(s) /\ n - 1 \notin Missing
    BY <1>1, <2>1
  <2> QED BY <1>2, <2>2
<1>4. Upto(Len(s))
  <2> HIDE DEF Upto
  <2> QED BY <1>3
<1> QED BY <1>4 DEF Joined

LEMMA IntervalEnds ==
  ASSUME NEW i \in Interval
  PROVE  i[1] \in Nat /\ i[2] \in Nat /\ i[1] < i[2]
  BY DEF Interval

(* One more interval that starts no earlier than the last one. *)
LEMMA JoinTidy ==
  ASSUME NEW m, Tidy(m), Len(m) > 0, NEW i \in Interval, m[Len(m)][1] <= i[1]
  PROVE  /\ Tidy(Join(m, i)) /\ Len(Join(m, i)) > 0
         /\ Join(m, i)[Len(Join(m, i))][1] <= i[1]
         /\ \A b \in Nat : Holds(Join(m, i), b) <=> Holds(m, b) \/ (i[1] <= b /\ b < i[2])
<1> DEFINE n == Len(m)
           o == Join(m, i)
<1>0. m \in Seq(Interval) /\ n \in Nat \ {0} /\ \A k \in 1 .. n : m[k] \in Interval
  BY DEF Tidy
<1>1. CASE i[1] <= m[n][2]
  <2>1. o = [m EXCEPT ![n] = <<m[n][1], Larger(m[n][2], i[2])>>]
    BY <1>1 DEF Join
  <2> DEFINE e == <<m[n][1], Larger(m[n][2], i[2])>>
  <2>2. e \in Interval
    BY <1>0 DEF Larger, Interval
  <2>3. o \in Seq(Interval) /\ Len(o) = n
    BY <1>0, <2>1, <2>2
  <2>4. o[n] = e /\ \A k \in 1 .. n : k # n => o[k] = m[k]
    BY <1>0, <2>1
  <2>5. Tidy(o)
    <3> SUFFICES ASSUME NEW j \in 1 .. n, NEW k \in 1 .. n, j < k PROVE o[j][2] < o[k][1]
      BY <2>3 DEF Tidy
    <3>1. o[j] = m[j] /\ o[k][1] = m[k][1]
      BY <2>4, <1>0
    <3> QED BY <3>1 DEF Tidy
  <2>6. \A b \in Nat : Holds(o, b) <=> Holds(m, b) \/ (i[1] <= b /\ b < i[2])
    <3> TAKE b \in Nat
    <3>1. (e[1] <= b /\ b < e[2]) <=> (m[n][1] <= b /\ b < m[n][2]) \/ (i[1] <= b /\ b < i[2])
      BY <1>0, <1>1 DEF Larger, Interval
    <3>2. Holds(o, b) => Holds(m, b) \/ (i[1] <= b /\ b < i[2])
      BY <1>0, <2>3, <2>4, <3>1 DEF Holds
    <3>3. (i[1] <= b /\ b < i[2]) => Holds(o, b)
      BY <1>0, <2>3, <2>4, <3>1 DEF Holds
    <3>4. Holds(m, b) => Holds(o, b)
      <4> SUFFICES ASSUME NEW k \in 1 .. n, m[k][1] <= b, b < m[k][2] PROVE Holds(o, b)
        BY DEF Holds
      <4>1. o[k][1] <= b /\ b < o[k][2]
        BY <2>4, <3>1
      <4> QED BY <2>3, <4>1 DEF Holds
    <3> QED BY <3>2, <3>3, <3>4
  <2> QED BY <1>0, <2>3, <2>4, <2>5, <2>6
<1>2. CASE ~ (i[1] <= m[n][2])
  <2>1. o = Append(m, i)
    BY <1>2 DEF Join
  <2>2. o \in Seq(Interval) /\ Len(o) = n + 1
    BY <1>0, <2>1
  <2>3. o[n + 1] = i /\ \A k \in 1 .. n : o[k] = m[k]
    BY <1>0, <2>1
  <2>4. ASSUME NEW k \in 1 .. n PROVE m[k][2] \in Nat /\ m[k][2] <= m[n][2]
    <3>1. m[k] \in Interval /\ m[n] \in Interval
      BY <1>0
    <3>2. /\ m[k][2] \in Nat /\ m[n][1] \in Nat /\ m[n][2] \in Nat
          /\ m[n][1] < m[n][2]
      BY <3>1, IntervalEnds
    <3>3. k < n => m[k][2] < m[n][1]
      BY <1>0 DEF Tidy
    <3> QED BY <3>2, <3>3
  <2>5. Tidy(o)
    <3> SUFFICES ASSUME NEW j \in 1 .. n + 1, NEW k \in 1 .. n + 1, j < k PROVE o[j][2] < o[k][1]
      BY <2>2 DEF Tidy
    <3>1. CASE k = n + 1
      <4>1. j \in 1 .. n
        BY <3>1
      <4>2. m[n][2] \in Nat /\ i[1] \in Nat
        BY <1>0, IntervalEnds
      <4>3. o[j][2] = m[j][2] /\ o[k] = i
        BY <2>3, <3>1, <4>1
      <4> QED BY <1>2, <2>4, <4>1, <4>2, <4>3
    <3>2. CASE k # n + 1
      BY <2>3, <3>2 DEF Tidy
    <3> QED BY <3>1, <3>2
  <2>6. \A b \in Nat : Holds(o, b) <=> Holds(m, b) \/ (i[1] <= b /\ b < i[2])
    BY <1>0, <2>2, <2>3 DEF Holds
  <2>7. Len(o) > 0 /\ o[Len(o)][1] <= i[1]
    <3>1. i[1] \in Nat
      BY IntervalEnds
    <3>2. o[Len(o)] = i /\ Len(o) > 0
      BY <1>0, <2>2, <2>3
    <3> QED BY <3>1, <3>2
  <2> QED BY <2>5, <2>6, <2>7
<1> QED BY <1>1, <1>2

(* The intervals merged so far: tidy, and of the same bytes. *)
LEMMA Scan ==
  ASSUME NEW s, Rising(s), NEW n \in 1 .. Len(s)
  PROVE  /\ Tidy(Joined(s)[n])
         /\ \A b \in Nat : Holds(Joined(s)[n], b) <=>
                             \E k \in 1 .. n : s[k][1] <= b /\ b < s[k][2]
<1> DEFINE Good(k) ==
             /\ Tidy(Joined(s)[k]) /\ Len(Joined(s)[k]) > 0
             /\ Joined(s)[k][Len(Joined(s)[k])][1] <= s[k][1]
             /\ \A b \in Nat : Holds(Joined(s)[k], b) <=>
                                 \E j \in 1 .. k : s[j][1] <= b /\ b < s[j][2]
           Bad == {k \in 1 .. Len(s) : ~ Good(k)}
<1>0. s \in Seq(Interval) /\ \A k \in 1 .. Len(s) : s[k] \in Interval
  BY DEF Rising
<1>1. ASSUME 1 \in 1 .. Len(s) PROVE Good(1)
  <2>1. Joined(s)[1] = <<s[1]>>
    BY <1>0, <1>1, JoinedDef
  <2>2. Len(<<s[1]>>) = 1 /\ <<s[1]>>[1] = s[1]
    OBVIOUS
  <2>3. Tidy(<<s[1]>>)
    BY <1>0, <1>1, <2>2 DEF Tidy
  <2>4. \A b \in Nat : Holds(<<s[1]>>, b) <=> \E j \in 1 .. 1 : s[j][1] <= b /\ b < s[j][2]
    BY <2>2 DEF Holds
  <2>5. s[1][1] <= s[1][1]
    BY <1>0, <1>1 DEF Interval
  <2> QED BY <2>1, <2>2, <2>3, <2>4, <2>5
<1>2. ASSUME NEW k \in 1 .. Len(s), k # 1, Good(k - 1) PROVE Good(k)
  <2> DEFINE m == Joined(s)[k - 1]
  <2>1. Joined(s)[k] = Join(m, s[k])
    BY <1>0, <1>2, JoinedDef
  <2>2. m[Len(m)][1] <= s[k][1]
    <3>1. s[k - 1][1] <= s[k][1]
      BY <1>2 DEF Rising
    <3>2. m[Len(m)][1] \in Nat
      <4> HIDE DEF m
      <4>1. m \in Seq(Interval) /\ Len(m) > 0
        BY <1>2 DEF Tidy, m
      <4>2. m[Len(m)] \in Interval
        BY <4>1
      <4> QED BY <4>2, IntervalEnds
    <3>3. s[k - 1][1] \in Nat /\ s[k][1] \in Nat
      BY <1>0, <1>2, IntervalEnds
    <3>4. m[Len(m)][1] <= s[k - 1][1]
      BY <1>2
    <3> HIDE DEF m
    <3> QED BY <3>1, <3>2, <3>3, <3>4
  <2>3. /\ Tidy(Join(m, s[k])) /\ Len(Join(m, s[k])) > 0
        /\ Join(m, s[k])[Len(Join(m, s[k]))][1] <= s[k][1]
        /\ \A b \in Nat : Holds(Join(m, s[k]), b) <=> Holds(m, b) \/ (s[k][1] <= b /\ b < s[k][2])
    <3> HIDE DEF m
    <3>1. Tidy(m) /\ Len(m) > 0
      BY <1>2 DEF m
    <3> QED BY <1>0, <2>2, <3>1, JoinTidy
  <2>4. ASSUME NEW b \in Nat
        PROVE  Holds(m, b) \/ (s[k][1] <= b /\ b < s[k][2]) <=>
                 \E j \in 1 .. k : s[j][1] <= b /\ b < s[j][2]
    BY <1>2
  <2> QED BY <2>1, <2>3, <2>4
<1>3. Bad = {}
  <2> SUFFICES ASSUME Bad # {} PROVE FALSE
    OBVIOUS
  <2> HIDE DEF Good
  <2>0. Bad \subseteq Nat
    OBVIOUS
  <2>1. PICK k \in Bad : \A j \in Bad : k <= j
    <3> HIDE DEF Bad
    <3> QED BY <2>0, Least
  <2>2. k # 1
    BY <1>1
  <2>3. k - 1 \in 1 .. Len(s) /\ k - 1 \notin Bad
    BY <2>1, <2>2
  <2> QED BY <1>2, <2>2, <2>3
<1>4. Good(n)
  <2> HIDE DEF Good
  <2> QED BY <1>3
<1> QED BY <1>4

-----------------------------------------------------------------------------
(* Before orders intervals. *)
LEMMA BeforeOrders ==
  ASSUME NEW i \in Interval, NEW j \in Interval, NEW k \in Interval
  PROVE  /\ Before(i, i)
         /\ Before(i, j) \/ Before(j, i)
         /\ Before(i, j) /\ Before(j, k) => Before(i, k)
         /\ i[2] < j[1] => Before(i, j)
         /\ Before(i, j) => i[1] <= j[1]
  BY IntervalEnds DEF Before

(* Tidy intervals with one more have an order: the new one is put before   *)
(* the first that it is before, the ones behind it move by one.            *)
LEMMA OrderExists ==
  ASSUME NEW m, Tidy(m), NEW i \in Interval, NEW s, s = Append(m, i)
  PROVE  \E p \in Bijection(1 .. Len(s), 1 .. Len(s)) :
           \A j, k \in 1 .. Len(s) : j < k => Before(s[p[j]], s[p[k]])
<1> DEFINE n == Len(m) + 1
           After == {k \in 1 .. n : Before(i, s[k])}
<1>1. /\ Len(m) \in Nat /\ Len(s) = n /\ s[n] = i
      /\ \A k \in 1 .. n - 1 : s[k] = m[k] /\ m[k] \in Interval
  BY DEF Tidy
<1>2. \A k \in 1 .. n : s[k] \in Interval
  BY <1>1
<1>3. n \in After /\ After \subseteq Nat
  BY <1>1, BeforeOrders
<1>4. PICK at \in After : \A k \in After : at <= k
  <2> HIDE DEF After
  <2> QED BY <1>3, Least
<1> DEFINE p == [k \in 1 .. n |-> IF k < at THEN k ELSE IF k = at THEN n ELSE k - 1]
<1>5. at \in 1 .. n /\ Before(i, s[at]) /\ \A k \in 1 .. n : k < at => ~ Before(i, s[k])
  <2>1. at \in 1 .. n /\ Before(i, s[at])
    BY <1>4
  <2>2. ASSUME NEW k \in 1 .. n, k < at PROVE ~ Before(i, s[k])
    BY <1>4, <2>1, <2>2
  <2> QED BY <2>1, <2>2
<1> HIDE DEF After
<1>6. p \in Bijection(1 .. n, 1 .. n)
  <2>1. p \in [1 .. n -> 1 .. n]
    BY <1>1, <1>5
  <2>2. IsInjective(p)
    BY <1>1, <1>5 DEF IsInjective
  <2>3. ASSUME NEW t \in 1 .. n PROVE \E k \in 1 .. n : p[k] = t
    <3>1. CASE t = n
      <4>1. p[at] = t
        BY <1>5, <3>1
      <4> QED BY <1>5, <4>1
    <3>2. CASE t # n /\ t < at
      <4>1. p[t] = t
        BY <3>2
      <4> QED BY <4>1
    <3>3. CASE t # n /\ ~ (t < at)
      <4>1. t + 1 \in 1 .. n /\ p[t + 1] = t
        BY <1>1, <1>5, <3>3
      <4> QED BY <4>1
    <3> QED BY <3>1, <3>2, <3>3
  <2> HIDE DEF p
  <2> QED BY <2>1, <2>2, <2>3 DEF Bijection, Injection, Surjection
<1>7. ASSUME NEW j \in 1 .. n, NEW k \in 1 .. n, j < k PROVE Before(s[p[j]], s[p[k]])
  <2>0. ASSUME NEW a \in 1 .. n - 1, NEW b \in 1 .. n - 1, a < b PROVE Before(m[a], m[b])
    <3>1. m[a] \in Interval /\ m[b] \in Interval
      BY <1>1
    <3>2. m[a][2] < m[b][1]
      BY <1>1, <2>0 DEF Tidy
    <3> QED BY <3>1, <3>2, BeforeOrders
  <2>1. CASE k < at
    <3>1. p[j] = j /\ p[k] = k /\ j \in 1 .. n - 1 /\ k \in 1 .. n - 1
      BY <1>1, <1>5, <1>7, <2>1
    <3> QED BY <1>1, <1>7, <2>0, <3>1
  <2>2. CASE k = at
    <3>1. p[j] = j /\ p[k] = n
      BY <1>7, <2>2
    <3>2. ~ Before(i, s[j])
      BY <1>5, <1>7, <2>2
    <3> QED BY <1>1, <1>2, <3>1, <3>2, BeforeOrders
  <2>3. CASE k > at /\ j < at
    <3>1. p[j] = j /\ p[k] = k - 1 /\ j \in 1 .. n - 1 /\ k - 1 \in 1 .. n - 1
      BY <1>1, <1>5, <2>3
    <3>2. CASE j < k - 1
      BY <1>1, <2>0, <3>1, <3>2
    <3>3. CASE ~ (j < k - 1)
      BY <1>5, <2>3, <3>3
    <3> QED BY <3>2, <3>3
  <2>4. CASE k > at /\ j = at
    <3>1. p[j] = n /\ p[k] = k - 1 /\ k - 1 \in 1 .. n - 1 /\ at \in 1 .. n - 1
      BY <1>1, <1>5, <2>4
    <3>2. Before(i, m[at])
      BY <1>1, <1>5, <3>1
    <3>3. at = k - 1 \/ Before(m[at], m[k - 1])
      BY <2>0, <2>4, <3>1
    <3>4. i \in Interval /\ m[at] \in Interval /\ m[k - 1] \in Interval
      BY <1>1, <3>1
    <3>5. Before(i, m[k - 1])
      BY <3>2, <3>3, <3>4, BeforeOrders
    <3>6. s[n] = i /\ s[k - 1] = m[k - 1]
      BY <1>1, <3>1
    <3> QED BY <3>1, <3>5, <3>6
  <2>5. CASE k > at /\ j > at
    <3>1. /\ p[j] = j - 1 /\ p[k] = k - 1
          /\ j - 1 \in 1 .. n - 1 /\ k - 1 \in 1 .. n - 1 /\ j - 1 < k - 1
      BY <1>1, <1>5, <1>7, <2>5
    <3> QED BY <1>1, <2>0, <3>1
  <2>6. k < at \/ k = at \/ (k > at /\ (j < at \/ j = at \/ j > at))
    BY <1>5
  <2> QED BY <2>1, <2>2, <2>3, <2>4, <2>5, <2>6
<1> HIDE DEF p
<1> QED BY <1>1, <1>6, <1>7

(* Sorting orders the intervals and changes nothing else. *)
LEMMA SortedRises ==
  ASSUME NEW m, Tidy(m), NEW i \in Interval, NEW s, s = Append(m, i)
  PROVE  /\ Rising(Sorted(s)) /\ Len(Sorted(s)) = Len(s)
         /\ \A b \in Nat : Holds(Sorted(s), b) <=> Holds(m, b) \/ (i[1] <= b /\ b < i[2])
<1> DEFINE n == Len(m) + 1
           IsOrder(p) == /\ p \in Bijection(1 .. n, 1 .. n)
                         /\ \A j, k \in 1 .. n : j < k => Before(s[p[j]], s[p[k]])
           q == CHOOSE p \in Bijection(1 .. n, 1 .. n) :
                  \A j, k \in 1 .. n : j < k => Before(s[p[j]], s[p[k]])
           o == [k \in 1 .. n |-> s[q[k]]]
<1>1. /\ Len(m) \in Nat /\ Len(s) = n /\ DOMAIN s = 1 .. n /\ s[n] = i
      /\ \A k \in 1 .. n - 1 : s[k] = m[k] /\ m[k] \in Interval
  BY DEF Tidy
<1>2. \A k \in 1 .. n : s[k] \in Interval
  BY <1>1
<1>3. IsOrder(q)
  BY <1>1, OrderExists
<1>4. Sorted(s) = o
  BY <1>1 DEF Sorted
<1> HIDE DEF q
<1>5. q \in [1 .. n -> 1 .. n] /\ \A t \in 1 .. n : \E k \in 1 .. n : q[k] = t
  BY <1>3 DEF Bijection, Injection, Surjection
<1>6. o \in Seq(Interval) /\ Len(o) = n
  <2>1. \A k \in 1 .. n : s[q[k]] \in Interval
    <3> HIDE DEF Interval
    <3> QED BY <1>2, <1>5
  <2>2. n \in Nat
    BY <1>1
  <2>3. o \in [1 .. n -> Interval]
    <3> HIDE DEF n
    <3> QED BY <2>1
  <2> HIDE DEF o
  <2> QED BY <2>2, <2>3
<1>7. Rising(o)
  <2> SUFFICES ASSUME NEW j \in 1 .. n, NEW k \in 1 .. n, j < k PROVE o[j][1] <= o[k][1]
    BY <1>6 DEF Rising
  <2>1. Before(o[j], o[k])
    BY <1>3
  <2>2. o[j] \in Interval /\ o[k] \in Interval
    BY <1>2, <1>5
  <2> HIDE DEF o
  <2> QED BY <2>1, <2>2, BeforeOrders
<1>8. ASSUME NEW b \in Nat
      PROVE  Holds(o, b) <=> Holds(m, b) \/ (i[1] <= b /\ b < i[2])
  <2>1. Holds(o, b) <=> \E k \in 1 .. n : s[k][1] <= b /\ b < s[k][2]
    <3>1. ASSUME NEW k \in 1 .. n, s[k][1] <= b, b < s[k][2] PROVE Holds(o, b)
      <4>1. PICK t \in 1 .. n : q[t] = k
        BY <1>5
      <4> QED BY <1>6, <3>1, <4>1 DEF Holds
    <3>2. ASSUME NEW k \in 1 .. n, o[k][1] <= b, b < o[k][2]
          PROVE  \E t \in 1 .. n : s[t][1] <= b /\ b < s[t][2]
      BY <1>5, <3>2
    <3> QED BY <1>6, <3>1, <3>2 DEF Holds
  <2>2. (\E k \in 1 .. n : s[k][1] <= b /\ b < s[k][2]) <=> Holds(m, b) \/ (i[1] <= b /\ b < i[2])
    BY <1>1 DEF Holds
  <2> QED BY <2>1, <2>2
<1> HIDE DEF o
<1> QED BY <1>1, <1>4, <1>6, <1>7, <1>8

(* A chunk's interval is merged into tidy ones: they are tidy again, and   *)
(* hold its bytes as well.                                                 *)
LEMMA MergeKeeps ==
  ASSUME Tidy(intervals), NEW i \in Interval
  PROVE  /\ Tidy(Merge(i))
         /\ \A b \in Nat : Holds(Merge(i), b) <=> Holds(intervals, b) \/ (i[1] <= b /\ b < i[2])
<1> DEFINE s == Append(intervals, i)
           o == Sorted(s)
           n == Len(intervals) + 1
<1>1. /\ Rising(o) /\ Len(o) = n /\ n \in 1 .. n
      /\ \A b \in Nat : Holds(o, b) <=> Holds(intervals, b) \/ (i[1] <= b /\ b < i[2])
  <2>1. Len(s) = n /\ n \in 1 .. n
    BY DEF Tidy
  <2>2. /\ Rising(o) /\ Len(o) = Len(s)
        /\ \A b \in Nat : Holds(o, b) <=> Holds(intervals, b) \/ (i[1] <= b /\ b < i[2])
    BY SortedRises
  <2> QED BY <2>1, <2>2
<1>2. Merge(i) = Joined(o)[n]
  BY DEF Merge
<1> HIDE DEF o
<1>3. /\ Tidy(Joined(o)[n])
      /\ \A b \in Nat : Holds(Joined(o)[n], b) <=> \E k \in 1 .. n : o[k][1] <= b /\ b < o[k][2]
  BY <1>1, Scan
<1> QED BY <1>1, <1>2, <1>3 DEF Holds

-----------------------------------------------------------------------------
LEMMA InvInit == InitChunks => Inv
  BY DEF InitChunks, Inv, Tidy, Holds

LEMMA InvStep == Inv /\ [NextChunk]_chunkVars => Inv'
<1> SUFFICES ASSUME Inv, [NextChunk]_chunkVars PROVE Inv'
  OBVIOUS
<1>1. ASSUME NEW end \in 0 .. MaxEnd, NEW offset \in 0 .. end, RecordBytes(offset, end - offset)
      PROVE  Inv'
  <2> DEFINE i == <<offset, end>>
  <2>0. offset \in Nat /\ end \in Nat /\ offset + (end - offset) = end
    BY SizeAssumption
  <2>1. CASE offset = end
    <3>1. intervals' = intervals
      BY <1>1, <2>0, <2>1 DEF RecordBytes
    <3>2. got' = got
      BY <1>1, <2>0, <2>1 DEF RecordBytes
    <3> QED BY <3>1, <3>2 DEF Inv, Tidy, Holds
  <2>2. CASE offset < end
    <3>1. i \in Interval /\ i[1] = offset /\ i[2] = end
      BY <2>0, <2>2 DEF Interval
    <3>2. intervals' = Merge(i)
      BY <1>1, <2>0, <2>2 DEF RecordBytes
    <3>3. got' = got \cup (offset .. end - 1)
      BY <1>1, <2>0 DEF RecordBytes
    <3>4. /\ Tidy(Merge(i))
          /\ \A b \in Nat : Holds(Merge(i), b) <=> Holds(intervals, b) \/ (offset <= b /\ b < end)
      <4> HIDE DEF i
      <4> QED BY <3>1, MergeKeeps DEF Inv
    <3>5. Tidy(intervals')
      BY <3>2, <3>4
    <3>6. \A b \in Nat : b \in got' <=> Holds(intervals', b)
      BY <2>0, <3>2, <3>3, <3>4 DEF Inv
    <3>7. got' \subseteq Nat
      BY <2>0, <3>3 DEF Inv
    <3> QED BY <3>5, <3>6, <3>7 DEF Inv, Tidy, Holds
  <2> QED BY <2>1, <2>2, <2>0
<1>2. CASE UNCHANGED chunkVars
  BY <1>2 DEF chunkVars, Inv, Tidy, Holds
<1> QED BY <1>1, <1>2 DEF NextChunk

(* upload_session.py:46-73: the merged intervals are exactly the bytes     *)
(* that have arrived, and complete says whether all have, for an upload of *)
(* any size and chunks in any order, overlapping, repeated, or reaching    *)
(* behind its end.                                                         *)
THEOREM IntervalsKnowBytes == SpecChunks => []KnowsBytes
<1>1. Inv => KnowsBytes
  <2> SUFFICES ASSUME Inv PROVE KnowsBytes
    OBVIOUS
  <2> DEFINE n == Len(intervals)
  <2>1. /\ intervals \in Seq(Interval) /\ n \in Nat /\ DOMAIN intervals = 1 .. n
        /\ \A k \in 1 .. n : intervals[k][1] \in Nat /\ intervals[k][2] \in Nat
                             /\ intervals[k][1] < intervals[k][2]
    BY IntervalEnds DEF Inv, Tidy
  <2>2. got = UNION {i[1] .. i[2] - 1 : i \in Range(intervals)}
    <3>1. \A b \in got : \E k \in 1 .. n : b \in intervals[k][1] .. intervals[k][2] - 1
      BY <2>1 DEF Inv, Holds
    <3>2. \A k \in 1 .. n : \A b \in intervals[k][1] .. intervals[k][2] - 1 : b \in got
      BY <2>1 DEF Inv, Holds
    <3>3. Range(intervals) = {intervals[k] : k \in 1 .. n}
      BY <2>1 DEF Range
    <3> QED BY <3>1, <3>2, <3>3
  <2>3. intervals # <<>> => n > 0 /\ Head(intervals) = intervals[1]
    BY <2>1
  <2>4. ASSUME complete PROVE 0 .. TotalSize - 1 \subseteq got
    <3> SUFFICES ASSUME NEW b \in 0 .. TotalSize - 1 PROVE b \in got
      OBVIOUS
    <3>1. 1 \in 1 .. n /\ intervals[1][1] = 0 /\ intervals[1][2] >= TotalSize
      BY <2>1, <2>3, <2>4 DEF complete
    <3>2. b \in Nat /\ intervals[1][1] <= b /\ b < intervals[1][2]
      BY <2>1, <3>1, SizeAssumption
    <3> QED BY <3>1, <3>2 DEF Inv, Holds
  <2>5. ASSUME 0 .. TotalSize - 1 \subseteq got PROVE complete
    <3>1. 0 \in got
      BY <2>5, SizeAssumption
    <3>2. PICK k \in 1 .. n : intervals[k][1] <= 0 /\ 0 < intervals[k][2]
      BY <3>1 DEF Inv, Holds
    <3>3. 1 \in 1 .. n
      BY <2>1, <3>2
    <3>4. intervals[1][1] = 0
      <4>1. k # 1 => intervals[1][2] < intervals[k][1]
        BY <2>1, <3>2, <3>3 DEF Inv, Tidy
      <4> QED BY <2>1, <3>2, <3>3, <4>1
    <3>5. intervals[1][2] >= TotalSize
      <4> DEFINE b == intervals[1][2]
      <4> SUFFICES ASSUME b < TotalSize PROVE FALSE
        BY <2>1, <3>3, SizeAssumption
      <4>1. b \in Nat /\ b \in got
        BY <2>1, <2>5, <3>3, SizeAssumption
      <4>2. PICK j \in 1 .. n : intervals[j][1] <= b /\ b < intervals[j][2]
        BY <4>1 DEF Inv, Holds
      <4>3. j # 1 => b < intervals[j][1]
        BY <2>1, <3>3, <4>2 DEF Inv, Tidy
      <4> QED BY <2>1, <3>3, <4>1, <4>2, <4>3
    <3>6. intervals # <<>>
      BY <2>1, <3>3
    <3> QED BY <2>3, <3>4, <3>5, <3>6 DEF complete
  <2> QED BY <2>2, <2>4, <2>5 DEF KnowsBytes
<1> QED BY InvInit, InvStep, <1>1, PTL DEF SpecChunks

-----------------------------------------------------------------------------
(* MainboardRewrite: which fields of a value are replaced, at any depth.   *)

Depth == Len(Widths)

(* The values of depth n, given those of the depths before. *)
Deeper(nested, n) ==
  IF n = 0 THEN {Leaf(v) : v \in JsonValues}
  ELSE LET inner == nested[n - 1]
       IN inner \cup {Tree("dict", s) : s \in Entries(JsonKeys, inner, Widths[n])}
                \cup {Tree("list", s) : s \in Entries({""}, inner, Widths[n])}

(* Nested is the function its definition says. *)
LEMMA NestedDef ==
  Nested = [n \in 0 .. Depth |-> Deeper(Nested, n)]
<1> DEFINE Upto(n) == \E f : f = [k \in 0 .. n |-> Deeper(f, k)]
           Missing == {n \in 0 .. Depth : ~ Upto(n)}
<1>0. Depth \in Nat
  BY JsonAssumption DEF Depth
<1>1. Upto(0)
  <2> DEFINE f == [k \in 0 .. 0 |-> {Leaf(v) : v \in JsonValues}]
  <2>1. f = [k \in 0 .. 0 |-> Deeper(f, k)]
    BY DEF Deeper
  <2> QED BY <2>1
<1>2. ASSUME NEW n \in 0 .. Depth, n # 0, Upto(n - 1) PROVE Upto(n)
  <2>1. PICK f : f = [k \in 0 .. n - 1 |-> Deeper(f, k)]
    BY <1>2
  <2> DEFINE g == [k \in 0 .. n |-> IF k = n THEN Deeper(f, n) ELSE f[k]]
  <2>2. \A k \in 0 .. n : g[k] = Deeper(g, k)
    <3> TAKE k \in 0 .. n
    <3>1. k # 0 => g[k - 1] = f[k - 1]
      OBVIOUS
    <3>2. Deeper(g, k) = Deeper(f, k)
      <4> HIDE DEF g
      <4> QED BY <3>1 DEF Deeper
    <3>3. k # n => f[k] = Deeper(f, k)
      BY <2>1
    <3> QED BY <3>2, <3>3
  <2>3. g = [k \in 0 .. n |-> Deeper(g, k)]
    <3>1. g = [k \in 0 .. n |-> g[k]]
      OBVIOUS
    <3> HIDE DEF g
    <3> QED BY <2>2, <3>1
  <2> QED BY <2>3
<1>3. Missing = {}
  <2> SUFFICES ASSUME Missing # {} PROVE FALSE
    OBVIOUS
  <2> HIDE DEF Upto
  <2>0. Missing \subseteq Nat
    OBVIOUS
  <2>1. PICK n \in Missing : \A k \in Missing : n <= k
    <3> HIDE DEF Missing
    <3> QED BY <2>0, Least
  <2>2. n # 0 /\ n - 1 \in 0 .. Depth /\ n - 1 \notin Missing
    BY <1>0, <1>1, <2>1
  <2> QED BY <1>2, <2>2
<1>4. Upto(Depth)
  <2> HIDE DEF Upto
  <2> QED BY <1>0, <1>3
<1>5. Nested = CHOOSE f : f = [n \in 0 .. Depth |-> Deeper(f, n)]
  BY DEF Nested, Depth, Deeper
<1> QED BY <1>4, <1>5

AllKeys == JsonKeys \cup {""}

(* The keys of a dictionary differ; those of a list are empty. *)
Distinct(s) == \A i, j \in DOMAIN s : i # j => s[i].key # s[j].key \/ s[i].key = ""

LEMMA EntriesAre ==
  ASSUME NEW K, NEW Nodes, NEW width \in Nat, NEW s
  PROVE  s \in Entries(K, Nodes, width) <=>
           s \in Seq([key : K, node : Nodes]) /\ Len(s) <= width /\ Distinct(s)
<1> DEFINE Entry == [key : K, node : Nodes]
<1>1. BoundedSeq(Entry, width) = UNION {[1 .. m -> Entry] : m \in 0 .. width}
  BY DEF BoundedSeq, SeqOf
<1> HIDE DEF Entry
<1>2. s \in BoundedSeq(Entry, width) <=> s \in Seq(Entry) /\ Len(s) <= width
  <2>1. ASSUME s \in BoundedSeq(Entry, width) PROVE s \in Seq(Entry) /\ Len(s) <= width
    <3>1. PICK m \in 0 .. width : s \in [1 .. m -> Entry]
      BY <1>1, <2>1
    <3> QED BY <3>1
  <2>2. ASSUME s \in Seq(Entry), Len(s) <= width PROVE s \in BoundedSeq(Entry, width)
    <3>1. Len(s) \in 0 .. width /\ s \in [1 .. Len(s) -> Entry]
      BY <2>2
    <3> QED BY <1>1, <3>1
  <2> QED BY <2>1, <2>2
<1> QED BY <1>2 DEF Entries, Entry, Distinct

LEMMA MoreEntries ==
  ASSUME NEW K, NEW L, K \subseteq L, NEW A, NEW B, A \subseteq B
  PROVE  Seq([key : K, node : A]) \subseteq Seq([key : L, node : B])
<1> DEFINE S == [key : K, node : A]
           T == [key : L, node : B]
<1>1. S \subseteq T
  OBVIOUS
<1> HIDE DEF S, T
<1>2. Seq(S) \subseteq Seq(T)
  BY <1>1
<1> QED BY <1>2 DEF S, T

LEMMA EntryAt ==
  ASSUME NEW K, NEW Nodes, NEW s \in Seq([key : K, node : Nodes]), NEW i \in DOMAIN s
  PROVE  s[i].key \in K /\ s[i].node \in Nodes
<1> DEFINE Entry == [key : K, node : Nodes]
<1>1. s[i] \in Entry
  <2> HIDE DEF Entry
  <2>1. s \in Seq(Entry)
    BY DEF Entry
  <2> QED BY <2>1
<1> QED BY <1>1

(* A value of a depth is a leaf or holds values of the depth before. *)
HasEntries(t, Nodes) ==
  \E kind \in Containers, s \in Seq([key : AllKeys, node : Nodes]) : t = Tree(kind, s)

LEMMA NestedAre ==
  ASSUME NEW n \in 1 .. Depth, NEW inner, inner = Nested[n - 1],
         NEW width, width = Widths[n]
  PROVE  /\ width \in Nat
         /\ Nested[n] = inner \cup {Tree("dict", s) : s \in Entries(JsonKeys, inner, width)}
                              \cup {Tree("list", s) : s \in Entries({""}, inner, width)}
<1>1. n \in 0 .. Depth /\ n # 0 /\ width \in Nat
  BY JsonAssumption DEF Depth
<1> QED BY <1>1, NestedDef DEF Deeper

LEMMA NestedValues ==
  ASSUME NEW n \in 1 .. Depth
  PROVE  /\ Nested[n - 1] \subseteq Nested[n]
         /\ \A t \in Nested[n] : t \in Nested[n - 1] \/ HasEntries(t, Nested[n - 1])
<1> DEFINE inner == Nested[n - 1]
           width == Widths[n]
<1>0. inner = Nested[n - 1] /\ width = Widths[n]
  OBVIOUS
<1> HIDE DEF inner, width
<1>1. width \in Nat
  BY <1>0, NestedAre
<1>2. Nested[n] = inner \cup {Tree("dict", s) : s \in Entries(JsonKeys, inner, width)}
                       \cup {Tree("list", s) : s \in Entries({""}, inner, width)}
  BY <1>0, NestedAre
<1>3. /\ Entries(JsonKeys, inner, width) \subseteq Seq([key : AllKeys, node : inner])
      /\ Entries({""}, inner, width) \subseteq Seq([key : AllKeys, node : inner])
  <2>1. /\ Entries(JsonKeys, inner, width) \subseteq Seq([key : JsonKeys, node : inner])
        /\ Entries({""}, inner, width) \subseteq Seq([key : {""}, node : inner])
    BY <1>1, EntriesAre
  <2>2. JsonKeys \subseteq AllKeys /\ {""} \subseteq AllKeys
    BY DEF AllKeys
  <2>3. /\ Seq([key : JsonKeys, node : inner]) \subseteq Seq([key : AllKeys, node : inner])
        /\ Seq([key : {""}, node : inner]) \subseteq Seq([key : AllKeys, node : inner])
    BY <2>2, MoreEntries
  <2> QED BY <2>1, <2>3
<1>4. "dict" \in Containers /\ "list" \in Containers
  BY DEF Containers
<1> QED BY <1>2, <1>3, <1>4 DEF inner, HasEntries

LEMMA NestedGrows ==
  /\ \A n \in 0 .. Depth : Nested[n] \subseteq Json
  /\ Depth \in Nat /\ Json = Nested[Depth]
<1>1. Depth \in Nat /\ Json = Nested[Depth]
  BY JsonAssumption DEF Depth, Json
<1> DEFINE Outside == {k \in 0 .. Depth : ~ (Nested[Depth - k] \subseteq Json)}
<1>2. Outside = {}
  <2> SUFFICES ASSUME Outside # {} PROVE FALSE
    OBVIOUS
  <2>1. Outside \subseteq Nat
    OBVIOUS
  <2>2. PICK k \in Outside : \A j \in Outside : k <= j
    <3> HIDE DEF Outside
    <3> QED BY <2>1, Least
  <2>3. k \in 0 .. Depth /\ k # 0
    BY <1>1
  <2>4. k - 1 \in 0 .. Depth /\ k - 1 \notin Outside
    BY <1>1, <2>2, <2>3
  <2>5. Nested[Depth - (k - 1)] \subseteq Json
    BY <2>4
  <2>6. Depth - (k - 1) \in 1 .. Depth /\ (Depth - (k - 1)) - 1 = Depth - k
    BY <1>1, <2>3
  <2>7. Nested[Depth - k] \subseteq Nested[Depth - (k - 1)]
    BY <2>6, NestedValues
  <2> QED BY <2>2, <2>5, <2>7
<1>3. \A n \in 0 .. Depth : Depth - n \in 0 .. Depth /\ Depth - (Depth - n) = n
  BY <1>1
<1> QED BY <1>1, <1>2, <1>3

LEMMA NestedHolds ==
  ASSUME NEW n \in 0 .. Depth, NEW t \in Nested[n]
  PROVE  \/ \E v \in JsonValues : t = Leaf(v)
         \/ n # 0 /\ HasEntries(t, Nested[n - 1])
<1> DEFINE Fine(m) == \A u \in Nested[m] : \/ \E v \in JsonValues : u = Leaf(v)
                                           \/ m # 0 /\ HasEntries(u, Nested[m - 1])
           Wrong == {m \in 0 .. Depth : ~ Fine(m)}
<1>1. Fine(0)
  <2>1. 0 \in 0 .. Depth
    BY NestedGrows
  <2>2. Nested[0] = {Leaf(v) : v \in JsonValues}
    BY <2>1, NestedDef DEF Deeper
  <2> QED BY <2>2
<1>2. ASSUME NEW m \in 1 .. Depth, Fine(m - 1) PROVE Fine(m)
  <2> TAKE u \in Nested[m]
  <2>1. CASE HasEntries(u, Nested[m - 1])
    BY <2>1
  <2>2. CASE u \in Nested[m - 1] /\ m - 1 # 0 /\ HasEntries(u, Nested[(m - 1) - 1])
    <3>1. PICK kind \in Containers, s \in Seq([key : AllKeys, node : Nested[(m - 1) - 1]]) :
            u = Tree(kind, s)
      BY <2>2 DEF HasEntries
    <3>2. Nested[(m - 1) - 1] \subseteq Nested[m - 1]
      <4>1. m - 1 \in 1 .. Depth
        BY <2>2, NestedGrows
      <4> QED BY <4>1, NestedValues
    <3>3. s \in Seq([key : AllKeys, node : Nested[m - 1]])
      <4> DEFINE lower == Nested[(m - 1) - 1]
                 upper == Nested[m - 1]
      <4>1. lower \subseteq upper /\ AllKeys \subseteq AllKeys
        BY <3>2
      <4> HIDE DEF lower, upper
      <4>2. Seq([key : AllKeys, node : lower]) \subseteq Seq([key : AllKeys, node : upper])
        BY <4>1, MoreEntries
      <4> QED BY <4>2 DEF lower, upper
    <3> QED BY <3>1, <3>3 DEF HasEntries
  <2>3. u \in Nested[m - 1] \/ HasEntries(u, Nested[m - 1])
    BY NestedValues
  <2> QED BY <1>2, <2>1, <2>2, <2>3
<1> HIDE DEF Fine
<1>3. Wrong = {}
  <2> SUFFICES ASSUME Wrong # {} PROVE FALSE
    OBVIOUS
  <2>1. Wrong \subseteq Nat
    OBVIOUS
  <2>2. PICK m \in Wrong : \A k \in Wrong : m <= k
    <3> HIDE DEF Wrong
    <3> QED BY <2>1, Least
  <2>3. m \in 1 .. Depth /\ m - 1 \in 0 .. Depth /\ m - 1 \notin Wrong
    BY <1>1, <2>2, NestedGrows
  <2> QED BY <1>2, <2>2, <2>3
<1> QED BY <1>3 DEF Fine

(* What a value holds lies in the depth before, where there is one. *)
LEMMA NestedEntries ==
  ASSUME NEW n \in 0 .. Depth, NEW t \in Nested[n]
  PROVE  /\ n = 0 => t.entries = <<>> /\ t.kind \notin Containers
         /\ n # 0 => t.entries \in Seq([key : AllKeys, node : Nested[n - 1]])
         /\ t.kind \notin Containers => t.entries = <<>>
         /\ t.kind \in Containers => t = Tree(t.kind, t.entries)
<1>1. CASE \E v \in JsonValues : t = Leaf(v)
  <2>1. t.entries = <<>> /\ t.kind = "leaf"
    BY <1>1 DEF Leaf
  <2> QED BY <2>1 DEF Containers
<1>2. CASE n # 0 /\ HasEntries(t, Nested[n - 1])
  <2>1. PICK kind \in Containers, s \in Seq([key : AllKeys, node : Nested[n - 1]]) :
          t = Tree(kind, s)
    BY <1>2 DEF HasEntries
  <2>2. t.kind = kind /\ t.entries = s
    BY <2>1 DEF Tree
  <2> QED BY <1>2, <2>1, <2>2
<1> QED BY <1>1, <1>2, NestedHolds

(* What the recursive functions say of a value, given what they say of    *)
(* the values that it holds.                                               *)
Rewriting(f, t) ==
  IF t.kind \notin Containers THEN [tree |-> t, changed |-> FALSE]
  ELSE [tree |-> Tree(t.kind, [i \in DOMAIN t.entries |->
          [key  |-> t.entries[i].key,
           node |-> IF Matches(t.entries[i]) THEN Leaf("proxy")
                    ELSE f[t.entries[i].node].tree]]),
        changed |-> \E i \in DOMAIN t.entries :
                      Matches(t.entries[i]) \/ f[t.entries[i].node].changed]

Mentioning(f, t) ==
  \E i \in DOMAIN t.entries : t.entries[i].key = "MainboardIP" \/ f[t.entries[i].node]

Under(i, key, q) == <<<<<<i, key>>>> \o q[1], q[2]>>

Leading(f, t) ==
  IF t.entries = <<>> THEN {<<<<>>, t>>}
  ELSE UNION {{Under(i, t.entries[i].key, q) : q \in f[t.entries[i].node]} :
              i \in DOMAIN t.entries}

Recursion(which, f, t) ==
  IF which = "rewrite" THEN Rewriting(f, t)
  ELSE IF which = "mentions" THEN Mentioning(f, t) ELSE Leading(f, t)

LEMMA RecursionLocal ==
  ASSUME NEW which, NEW f, NEW g, NEW t,
         \A i \in DOMAIN t.entries : g[t.entries[i].node] = f[t.entries[i].node]
  PROVE  Recursion(which, g, t) = Recursion(which, f, t)
<1>1. Rewriting(g, t) = Rewriting(f, t)
  BY DEF Rewriting
<1>2. Mentioning(g, t) = Mentioning(f, t)
  BY DEF Mentioning
<1>3. Leading(g, t) = Leading(f, t)
  <2> DEFINE Part(h, i) == {Under(i, t.entries[i].key, q) : q \in h[t.entries[i].node]}
  <2>1. \A i \in DOMAIN t.entries : Part(g, i) = Part(f, i)
    OBVIOUS
  <2>2. \A h : Leading(h, t) = IF t.entries = <<>> THEN {<<<<>>, t>>}
                               ELSE UNION {Part(h, i) : i \in DOMAIN t.entries}
    BY DEF Leading
  <2> HIDE DEF Part
  <2>3. {Part(g, i) : i \in DOMAIN t.entries} = {Part(f, i) : i \in DOMAIN t.entries}
    BY <2>1
  <2> QED BY <2>2, <2>3
<1> QED BY <1>1, <1>2, <1>3 DEF Recursion

(* The recursion has a solution, whatever the depth of the values. *)
LEMMA RecursionSolved ==
  ASSUME NEW which
  PROVE  \E f : f = [t \in Json |-> Recursion(which, f, t)]
<1> DEFINE Upto(n) == \E f : f = [t \in Nested[n] |-> Recursion(which, f, t)]
           Missing == {n \in 0 .. Depth : ~ Upto(n)}
<1>1. Upto(0)
  <2> DEFINE f == [t \in Nested[0] |-> Recursion(which, <<>>, t)]
  <2>1. 0 \in 0 .. Depth
    BY NestedGrows
  <2>2. ASSUME NEW t \in Nested[0] PROVE Recursion(which, f, t) = Recursion(which, <<>>, t)
    <3>1. DOMAIN t.entries = {}
      <4>1. t.entries = <<>>
        BY <2>1, NestedEntries
      <4> QED BY <4>1
    <3> HIDE DEF f
    <3> QED BY <3>1, RecursionLocal
  <2>3. f = [t \in Nested[0] |-> Recursion(which, f, t)]
    BY <2>2
  <2> QED BY <2>3
<1>2. ASSUME NEW n \in 1 .. Depth, Upto(n - 1) PROVE Upto(n)
  <2> DEFINE lower == Nested[n - 1]
  <2>1. PICK f : f = [t \in lower |-> Recursion(which, f, t)]
    BY <1>2
  <2> DEFINE g == [t \in Nested[n] |-> IF t \in lower THEN f[t] ELSE Recursion(which, f, t)]
  <2>2. /\ lower \subseteq Nested[n]
        /\ \A t \in Nested[n] : t.entries \in Seq([key : AllKeys, node : lower])
    <3>1. n \in 0 .. Depth /\ n # 0
      BY NestedGrows
    <3> QED BY <3>1, NestedEntries, NestedValues
  <2>3. \A t \in lower : g[t] = f[t] /\ f[t] = Recursion(which, f, t)
    BY <2>1, <2>2
  <2>4. ASSUME NEW t \in Nested[n] PROVE g[t] = Recursion(which, g, t)
    <3>1. \A i \in DOMAIN t.entries : t.entries[i].node \in lower
      <4> HIDE DEF lower
      <4> QED BY <2>2, EntryAt
    <3>2. g[t] = Recursion(which, f, t)
      BY <2>3
    <3> HIDE DEF g
    <3> QED BY <2>3, <3>1, <3>2, RecursionLocal
  <2>5. g = [t \in Nested[n] |-> Recursion(which, g, t)]
    <3>1. g = [t \in Nested[n] |-> g[t]]
      OBVIOUS
    <3> HIDE DEF g
    <3> QED BY <2>4, <3>1
  <2> QED BY <2>5
<1> HIDE DEF Upto
<1>3. Missing = {}
  <2> SUFFICES ASSUME Missing # {} PROVE FALSE
    OBVIOUS
  <2>1. Missing \subseteq Nat
    OBVIOUS
  <2>2. PICK n \in Missing : \A k \in Missing : n <= k
    <3> HIDE DEF Missing
    <3> QED BY <2>1, Least
  <2>3. n \in 1 .. Depth /\ n - 1 \in 0 .. Depth /\ n - 1 \notin Missing
    BY <1>1, <2>2, NestedGrows
  <2> QED BY <1>2, <2>2, <2>3
<1>4. Upto(Depth)
  BY <1>3, NestedGrows
<1> QED BY <1>4, NestedGrows DEF Upto

LEMMA RewriteDef == Rewrite = [t \in Json |-> Rewriting(Rewrite, t)]
<1>1. PICK f : f = [t \in Json |-> Recursion("rewrite", f, t)]
  BY RecursionSolved
<1>2. f = [t \in Json |-> Rewriting(f, t)]
  BY <1>1 DEF Recursion
<1>3. Rewrite = CHOOSE g : g = [t \in Json |-> Rewriting(g, t)]
  BY DEF Rewrite, Rewriting
<1> QED BY <1>2, <1>3

LEMMA MentionsDef == Mentions = [t \in Json |-> Mentioning(Mentions, t)]
<1>1. PICK f : f = [t \in Json |-> Recursion("mentions", f, t)]
  BY RecursionSolved
<1>2. f = [t \in Json |-> Mentioning(f, t)]
  BY <1>1 DEF Recursion
<1>3. Mentions = CHOOSE g : g = [t \in Json |-> Mentioning(g, t)]
  BY DEF Mentions, Mentioning
<1> QED BY <1>2, <1>3

LEMMA PathsDef == Paths = [t \in Json |-> Leading(Paths, t)]
<1>1. PICK f : f = [t \in Json |-> Recursion("paths", f, t)]
  BY RecursionSolved
<1>2. f = [t \in Json |-> Leading(f, t)]
  BY <1>1 DEF Recursion
<1>3. Paths = CHOOSE g : g = [t \in Json |-> Leading(g, t)]
  BY DEF Paths, Leading, Under
<1> QED BY <1>2, <1>3

(* Where any value is bad, one is whose own values are not. *)
LEMMA SmallestBad ==
  ASSUME NEW Bad, Bad \subseteq Json, Bad # {}
  PROVE  \E t \in Bad : \A i \in DOMAIN t.entries : t.entries[i].node \in Json \ Bad
<1> DEFINE Depths == {n \in 0 .. Depth : \E t \in Bad : t \in Nested[n]}
<1>1. Depths \subseteq Nat /\ Depths # {}
  <2>1. Depth \in Depths
    BY NestedGrows
  <2> QED BY <2>1
<1>2. PICK n \in Depths : \A k \in Depths : n <= k
  <2> HIDE DEF Depths
  <2> QED BY <1>1, Least
<1>3. PICK t \in Bad : t \in Nested[n]
  BY <1>2
<1>4. CASE n = 0
  <2>1. t.entries = <<>>
    BY <1>2, <1>3, <1>4, NestedEntries
  <2>2. DOMAIN t.entries = {}
    BY <2>1
  <2> QED BY <2>2
<1>5. CASE n # 0
  <2>1. n - 1 \in 0 .. Depth /\ n - 1 \notin Depths
    BY <1>2, <1>5, NestedGrows
  <2>2. t.entries \in Seq([key : AllKeys, node : Nested[n - 1]])
    BY <1>2, <1>3, <1>5, NestedEntries
  <2>3. ASSUME NEW i \in DOMAIN t.entries PROVE t.entries[i].node \in Json \ Bad
    <3> DEFINE lower == Nested[n - 1]
    <3>1. t.entries \in Seq([key : AllKeys, node : lower])
      BY <2>2
    <3> HIDE DEF lower
    <3>2. t.entries[i].node \in lower
      BY <2>3, <3>1, EntryAt
    <3> QED BY <2>1, <3>2, NestedGrows DEF lower
  <2> QED BY <2>3
<1> QED BY <1>4, <1>5

(* The entries of a value. *)
LEMMA JsonEntries ==
  ASSUME NEW t \in Json
  PROVE  /\ t.entries = <<>> \/ t.entries \in Seq([key : AllKeys, node : Json])
         /\ \A i \in DOMAIN t.entries :
              i \in Nat /\ t.entries[i].key \in AllKeys /\ t.entries[i].node \in Json
         /\ t.kind \notin Containers => t.entries = <<>>
         /\ t.kind \in Containers => t = Tree(t.kind, t.entries)
<1>1. Depth \in 0 .. Depth /\ t \in Nested[Depth]
  BY NestedGrows
<1>2. CASE t.entries = <<>>
  <2>1. DOMAIN t.entries = {}
    BY <1>2
  <2> QED BY <1>1, <1>2, <2>1, NestedEntries
<1>3. CASE t.entries # <<>>
  <2> DEFINE lower == Nested[Depth - 1]
  <2>1. Depth # 0 /\ t.entries \in Seq([key : AllKeys, node : lower])
    BY <1>1, <1>3, NestedEntries
  <2>2. lower \subseteq Json /\ AllKeys \subseteq AllKeys
    BY <2>1, NestedGrows
  <2> HIDE DEF lower
  <2>3. t.entries \in Seq([key : AllKeys, node : Json])
    BY <2>1, <2>2, MoreEntries
  <2>4. \A i \in DOMAIN t.entries : i \in Nat
    BY <2>3
  <2> QED BY <1>1, <2>3, <2>4, EntryAt, NestedEntries
<1> QED BY <1>2, <1>3

(* A path and the keys on it; only that of a value without entries is empty. *)
PathOf(t, q) ==
  /\ q = <<q[1], q[2]>> /\ q[1] \in Seq(Nat \X AllKeys)
  /\ (q[1] = <<>>) <=> (t.entries = <<>>)
  /\ q[1] = <<>> => q[2] = t

(* The path p is q, whose keys are given, behind an entry i with the key. *)
Starts(p, i, key, q, keys) ==
  /\ p = <<p[1], q[2]>>
  /\ p[1] \in Seq(Nat \X AllKeys) /\ p[1] # <<>>
  /\ Last(p[1]) = IF keys = <<>> THEN <<i, key>> ELSE Last(keys)

LEMMA UnderPath ==
  ASSUME NEW i \in Nat, NEW key \in AllKeys, NEW q, NEW keys \in Seq(Nat \X AllKeys),
         q[1] = keys, NEW p, p = Under(i, key, q)
  PROVE  Starts(p, i, key, q, keys)
<1> DEFINE Step == Nat \X AllKeys
           step == <<i, key>>
           path == <<step>> \o keys
<1>1. p = <<path, q[2]>>
  BY DEF Under
<1>2. step \in Step
  OBVIOUS
<1> HIDE DEF Step, step
<1>3. <<step>> \in Seq(Step) /\ Len(<<step>>) = 1 /\ <<step>>[1] = step
  BY <1>2
<1>4. keys \in Seq(Step) /\ Len(keys) \in Nat
  BY DEF Step
<1>5. /\ path \in Seq(Step) /\ Len(path) = Len(keys) + 1 /\ path[1] = step
      /\ \A k \in 1 .. Len(keys) : path[k + 1] = keys[k]
  <2> DEFINE head == <<step>>
  <2>1. head \in Seq(Step) /\ keys \in Seq(Step) /\ path = head \o keys
    BY <1>3, <1>4
  <2>2. Len(head) = 1 /\ head[1] = step
    BY <1>3
  <2> HIDE DEF head, path
  <2>3. /\ path \in Seq(Step) /\ Len(path) = Len(head) + Len(keys)
        /\ \A k \in 1 .. Len(head) + Len(keys) :
             path[k] = IF k <= Len(head) THEN head[k] ELSE keys[k - Len(head)]
    BY <2>1, ConcatProperties
  <2>4. path[1] = step
    BY <1>4, <2>2, <2>3
  <2>5. ASSUME NEW k \in 1 .. Len(keys) PROVE path[k + 1] = keys[k]
    <3>1. k + 1 \in 1 .. 1 + Len(keys) /\ ~ (k + 1 <= 1) /\ (k + 1) - 1 = k
      BY <1>4
    <3> QED BY <2>2, <2>3, <3>1
  <2> QED BY <1>4, <2>2, <2>3, <2>4, <2>5
<1> HIDE DEF path
<1>6. Last(path) = IF keys = <<>> THEN step ELSE Last(keys)
  <2>1. CASE keys = <<>>
    <3>1. Len(keys) = 0
      BY <2>1
    <3> QED BY <1>5, <2>1, <3>1 DEF Last
  <2>2. CASE keys # <<>>
    <3>1. Len(keys) \in 1 .. Len(keys)
      BY <1>4, <2>2
    <3> QED BY <1>5, <2>2, <3>1 DEF Last
  <2> QED BY <2>1, <2>2
<1>7. path # <<>>
  BY <1>4, <1>5
<1>8. p[1] = path /\ p = <<p[1], q[2]>>
  BY <1>1
<1> QED BY <1>5, <1>6, <1>7, <1>8 DEF Starts, Step, step

(* The paths of a value: one if it holds nothing, else those of what it holds. *)
LEMMA PathsAre ==
  ASSUME NEW t \in Json
  PROVE  Paths[t] = IF t.entries = <<>> THEN {<<<<>>, t>>}
                    ELSE UNION {{Under(i, t.entries[i].key, q) : q \in Paths[t.entries[i].node]} :
                                i \in DOMAIN t.entries}
BY PathsDef DEF Leading

LEMMA PathsUnder ==
  ASSUME NEW t \in Json, t.entries # <<>>, NEW p
  PROVE  p \in Paths[t] <=>
           \E i \in DOMAIN t.entries : \E q \in Paths[t.entries[i].node] :
             p = Under(i, t.entries[i].key, q)
<1> DEFINE Part(i) == {Under(i, t.entries[i].key, q) : q \in Paths[t.entries[i].node]}
<1>1. Paths[t] = UNION {Part(i) : i \in DOMAIN t.entries}
  BY PathsAre
<1>2. \A i : p \in Part(i) <=> \E q \in Paths[t.entries[i].node] : p = Under(i, t.entries[i].key, q)
  OBVIOUS
<1> HIDE DEF Part
<1>3. p \in Paths[t] <=> \E i \in DOMAIN t.entries : p \in Part(i)
  BY <1>1
<1> QED BY <1>2, <1>3

(* The path p leads through one of the entries. *)
From(p, entries) ==
  \E i \in DOMAIN entries : \E q \in Paths[entries[i].node] : p = Under(i, entries[i].key, q)

LEMMA PathsFrom ==
  ASSUME NEW t \in Json, t.entries # <<>>, NEW p
  PROVE  p \in Paths[t] <=> From(p, t.entries)
BY PathsUnder DEF From

LEMMA PathsArePaths ==
  ASSUME NEW t \in Json
  PROVE  \A q \in Paths[t] : PathOf(t, q)
<1> DEFINE Bad == {u \in Json : \E q \in Paths[u] : ~ PathOf(u, q)}
<1>1. Bad = {}
  <2> SUFFICES ASSUME Bad # {} PROVE FALSE
    OBVIOUS
  <2>1. PICK u \in Bad : \A i \in DOMAIN u.entries : u.entries[i].node \in Json \ Bad
    <3>1. Bad \subseteq Json
      OBVIOUS
    <3> HIDE DEF Bad
    <3> QED BY <3>1, SmallestBad
  <2>2. PICK p \in Paths[u] : ~ PathOf(u, p)
    OBVIOUS
  <2>3. CASE u.entries = <<>>
    <3>1. p = <<<<>>, u>>
      BY <2>2, <2>3, PathsAre
    <3> QED BY <2>2, <2>3, <3>1 DEF PathOf
  <2>4. CASE u.entries # <<>>
    <3>1. PICK i \in DOMAIN u.entries : \E q \in Paths[u.entries[i].node] :
            p = Under(i, u.entries[i].key, q)
      BY <2>2, <2>4, PathsUnder
    <3>2. PICK q \in Paths[u.entries[i].node] : p = Under(i, u.entries[i].key, q)
      BY <3>1
    <3>3. u.entries[i].node \in Json /\ PathOf(u.entries[i].node, q)
      BY <2>1, <3>2
    <3>4. i \in Nat /\ u.entries[i].key \in AllKeys
      BY JsonEntries
    <3>5. q[1] \in Seq(Nat \X AllKeys)
      BY <3>3 DEF PathOf
    <3>6. p = <<p[1], q[2]>> /\ p[1] \in Seq(Nat \X AllKeys) /\ p[1] # <<>>
      <4> DEFINE key == u.entries[i].key
                 keys == q[1]
      <4>1. key \in AllKeys /\ keys \in Seq(Nat \X AllKeys) /\ q[1] = keys /\ p = Under(i, key, q)
        BY <3>2, <3>4, <3>5
      <4> HIDE DEF key, keys
      <4>2. Starts(p, i, key, q, keys)
        BY <3>4, <4>1, UnderPath
      <4> QED BY <4>2 DEF Starts
    <3>7. p[2] = q[2]
      BY <3>6
    <3> QED BY <2>2, <2>4, <3>6, <3>7 DEF PathOf
  <2> QED BY <2>3, <2>4
<1> QED BY <1>1

(* The proxy's address is a value of every depth. *)
LEMMA ProxyNested ==
  \A n \in 0 .. Depth : Leaf("proxy") \in Nested[n]
<1> DEFINE Without == {n \in 0 .. Depth : Leaf("proxy") \notin Nested[n]}
<1>1. Without = {}
  <2> SUFFICES ASSUME Without # {} PROVE FALSE
    OBVIOUS
  <2>1. Without \subseteq Nat
    OBVIOUS
  <2>2. PICK n \in Without : \A k \in Without : n <= k
    <3> HIDE DEF Without
    <3> QED BY <2>1, Least
  <2>3. CASE n = 0
    <3>1. Nested[0] = {Leaf(v) : v \in JsonValues}
      BY <2>2, <2>3, NestedDef DEF Deeper
    <3>2. "proxy" \in JsonValues
      BY JsonAssumption
    <3> QED BY <2>2, <2>3, <3>1, <3>2
  <2>4. CASE n # 0
    <3>1. n \in 1 .. Depth /\ n - 1 \in 0 .. Depth /\ n - 1 \notin Without
      BY <2>2, <2>4, NestedGrows
    <3> QED BY <2>2, <3>1, NestedValues
  <2> QED BY <2>3, <2>4
<1> QED BY <1>1

(* A rewritten value is a value of the same depth. *)
NewEntries(t) ==
  [i \in DOMAIN t.entries |->
     [key  |-> t.entries[i].key,
      node |-> IF Matches(t.entries[i]) THEN Leaf("proxy") ELSE Rewrite[t.entries[i].node].tree]]

LEMMA RewriteIs ==
  ASSUME NEW t \in Json
  PROVE  /\ t.kind \notin Containers => Rewrite[t].tree = t /\ ~ Rewrite[t].changed
         /\ t.kind \in Containers => Rewrite[t].tree = Tree(t.kind, NewEntries(t))
         /\ t.kind \in Containers =>
              (Rewrite[t].changed <=> \E i \in DOMAIN t.entries :
                 Matches(t.entries[i]) \/ Rewrite[t.entries[i].node].changed)
<1> DEFINE new == Tree(t.kind, NewEntries(t))
           some == \E i \in DOMAIN t.entries :
                     Matches(t.entries[i]) \/ Rewrite[t.entries[i].node].changed
<1>1. Rewriting(Rewrite, t) = IF t.kind \notin Containers THEN [tree |-> t, changed |-> FALSE]
                              ELSE [tree |-> new, changed |-> some]
  BY DEF Rewriting, NewEntries
<1>2. Rewrite[t] = Rewriting(Rewrite, t)
  BY RewriteDef
<1> HIDE DEF new, some
<1>3. CASE t.kind \notin Containers
  BY <1>1, <1>2, <1>3
<1>4. CASE t.kind \in Containers
  BY <1>1, <1>2, <1>4 DEF new, some
<1> QED BY <1>3, <1>4

LEMMA NewEntriesAre ==
  ASSUME NEW n \in 1 .. Depth, NEW inner, inner = Nested[n - 1], NEW K, NEW width \in Nat,
         NEW t, NEW entries \in Entries(K, inner, width), t.entries = entries,
         \A u \in inner : Rewrite[u].tree \in inner
  PROVE  NewEntries(t) \in Entries(K, inner, width)
<1> DEFINE Entry == [key : K, node : inner]
           new == NewEntries(t)
<1>1. entries \in Seq(Entry) /\ Len(entries) <= width /\ Distinct(entries)
  BY EntriesAre
<1>2. Leaf("proxy") \in inner
  <2>1. n - 1 \in 0 .. Depth
    BY NestedGrows
  <2> QED BY <2>1, ProxyNested
<1>3. \A i \in DOMAIN entries : entries[i].key \in K /\ entries[i].node \in inner
  BY <1>1, EntryAt
<1>4. /\ DOMAIN new = DOMAIN entries
      /\ \A i \in DOMAIN entries : new[i].key = entries[i].key /\ new[i] \in Entry
  BY <1>2, <1>3 DEF NewEntries
<1> HIDE DEF Entry, new
<1>5. new \in Seq(Entry) /\ Len(new) = Len(entries)
  <2>1. Len(entries) \in Nat /\ DOMAIN entries = 1 .. Len(entries)
    BY <1>1, LenProperties
  <2>2. new = [i \in DOMAIN new |-> new[i]]
    BY DEF new, NewEntries
  <2>3. new \in [1 .. Len(entries) -> Entry]
    BY <1>4, <2>1, <2>2
  <2> QED BY <2>1, <2>3
<1>6. Distinct(new)
  BY <1>1, <1>4 DEF Distinct
<1>7. new \in Seq([key : K, node : inner]) /\ Len(new) <= width
  BY <1>1, <1>5 DEF Entry
<1> QED BY <1>6, <1>7, EntriesAre DEF new

LEMMA RewriteNested ==
  \A n \in 0 .. Depth : \A t \in Nested[n] : Rewrite[t].tree \in Nested[n]
<1> DEFINE Stays(n) == \A t \in Nested[n] : Rewrite[t].tree \in Nested[n]
           Wrong == {n \in 0 .. Depth : ~ Stays(n)}
<1>1. Stays(0)
  <2> TAKE t \in Nested[0]
  <2>1. 0 \in 0 .. Depth
    BY NestedGrows
  <2>2. t \in Json /\ t.kind \notin Containers
    BY <2>1, NestedEntries, NestedGrows
  <2> QED BY <2>2, RewriteIs
<1>2. ASSUME NEW n \in 1 .. Depth, Stays(n - 1) PROVE Stays(n)
  <2> DEFINE inner == Nested[n - 1]
             width == Widths[n]
  <2>1. inner = Nested[n - 1] /\ width = Widths[n] /\ \A u \in inner : Rewrite[u].tree \in inner
    BY <1>2
  <2>2. Nested[n] \subseteq Json
    BY NestedGrows
  <2> HIDE DEF inner, width
  <2>3. width \in Nat
    BY <2>1, NestedAre
  <2>4. Nested[n] = inner \cup {Tree("dict", s) : s \in Entries(JsonKeys, inner, width)}
                         \cup {Tree("list", s) : s \in Entries({""}, inner, width)}
    BY <2>1, NestedAre
  <2>5. ASSUME NEW kind \in Containers, NEW K, NEW s \in Entries(K, inner, width),
               NEW t \in Json, t = Tree(kind, s)
        PROVE  Rewrite[t].tree \in {Tree(kind, e) : e \in Entries(K, inner, width)}
    <3>1. t.kind = kind /\ t.entries = s
      BY <2>5 DEF Tree
    <3>2. NewEntries(t) \in Entries(K, inner, width)
      BY <2>1, <2>3, <3>1, NewEntriesAre
    <3> QED BY <3>1, <3>2, RewriteIs
  <2>6. "dict" \in Containers /\ "list" \in Containers
    BY DEF Containers
  <2> TAKE t \in Nested[n]
  <2>7. CASE t \in inner
    BY <2>1, <2>4, <2>7
  <2>8. CASE t \in {Tree("dict", s) : s \in Entries(JsonKeys, inner, width)}
    BY <2>2, <2>4, <2>5, <2>6, <2>8
  <2>9. CASE t \in {Tree("list", s) : s \in Entries({""}, inner, width)}
    BY <2>2, <2>4, <2>5, <2>6, <2>9
  <2> QED BY <2>4, <2>7, <2>8, <2>9
<1> HIDE DEF Stays
<1>3. Wrong = {}
  <2> SUFFICES ASSUME Wrong # {} PROVE FALSE
    OBVIOUS
  <2>1. Wrong \subseteq Nat
    OBVIOUS
  <2>2. PICK n \in Wrong : \A k \in Wrong : n <= k
    <3> HIDE DEF Wrong
    <3> QED BY <2>1, Least
  <2>3. n \in 1 .. Depth /\ n - 1 \in 0 .. Depth /\ n - 1 \notin Wrong
    BY <1>1, <2>2, NestedGrows
  <2> QED BY <1>2, <2>2, <2>3
<1> QED BY <1>3 DEF Stays

(* A path as it is in the rewritten value. *)
Replaced(q) == IF AtMainboard(q) THEN <<q[1], Leaf("proxy")>> ELSE q

(* The address lies under an entry if the entry is the address or holds it. *)
LEMMA MainboardUnder ==
  ASSUME NEW t \in Json, NEW i \in DOMAIN t.entries,
         NEW e, e = t.entries[i], NEW q \in Paths[e.node]
  PROVE  /\ AtMainboard(Under(i, e.key, q)) <=> AtMainboard(q) \/ Matches(e)
         /\ Matches(e) => q = <<<<>>, e.node>>
         /\ ~ Matches(e) => Replaced(Under(i, e.key, q)) = Under(i, e.key, Replaced(q))
<1>1. i \in Nat /\ e.key \in AllKeys /\ e.node \in Json
  BY JsonEntries
<1>2. PathOf(e.node, q)
  BY <1>1, PathsArePaths
<1> DEFINE keys == q[1]
           key == e.key
           p == Under(i, e.key, q)
<1>3. keys \in Seq(Nat \X AllKeys) /\ q = <<keys, q[2]>> /\ q[1] = keys
  BY <1>2 DEF PathOf
<1>4. key \in AllKeys /\ p = Under(i, key, q) /\ key = e.key
  BY <1>1
<1> HIDE DEF keys, key, p
<1>5. /\ p = <<p[1], q[2]>> /\ p[1] # <<>>
      /\ Last(p[1]) = IF keys = <<>> THEN <<i, key>> ELSE Last(keys)
  <2>1. Starts(p, i, key, q, keys)
    BY <1>1, <1>3, <1>4, UnderPath
  <2> QED BY <2>1 DEF Starts
<1>6. p[2] = q[2]
  BY <1>5
<1>7. Matches(e) => q = <<<<>>, e.node>> /\ keys = <<>>
  <2> SUFFICES ASSUME Matches(e) PROVE q = <<<<>>, e.node>> /\ keys = <<>>
    OBVIOUS
  <2>1. e.node.entries = <<>>
    BY DEF Matches, Leaf
  <2>2. q = <<<<>>, e.node>>
    BY <1>1, <2>1, PathsAre
  <2> QED BY <1>3, <2>2
<1>8. AtMainboard(p) <=> AtMainboard(q) \/ Matches(e)
  <2>1. CASE keys = <<>>
    <3>1. q[2] = e.node /\ ~ AtMainboard(q)
      BY <1>2, <1>3, <2>1 DEF PathOf, AtMainboard
    <3>2. Last(p[1])[2] = e.key
      BY <1>5, <1>4, <2>1
    <3> QED BY <1>5, <1>6, <3>1, <3>2 DEF AtMainboard, Matches
  <2>2. CASE keys # <<>>
    <3>1. AtMainboard(p) <=> AtMainboard(q)
      BY <1>3, <1>5, <1>6, <2>2 DEF AtMainboard
    <3> QED BY <1>7, <2>2, <3>1
  <2> QED BY <2>1, <2>2
<1>9. ~ Matches(e) => Replaced(p) = Under(i, e.key, Replaced(q))
  <2> SUFFICES ASSUME ~ Matches(e) PROVE Replaced(p) = Under(i, e.key, Replaced(q))
    OBVIOUS
  <2>1. CASE AtMainboard(q)
    <3>1. Replaced(p) = <<p[1], Leaf("proxy")>> /\ Replaced(q) = <<keys, Leaf("proxy")>>
      BY <1>3, <1>8, <2>1 DEF Replaced
    <3>2. p[1] = <<<<i, e.key>>>> \o keys
      BY <1>3 DEF p, Under
    <3> QED BY <3>1, <3>2 DEF Under
  <2>2. CASE ~ AtMainboard(q)
    BY <1>8, <2>2 DEF Replaced, p
  <2> QED BY <2>1, <2>2
<1> QED BY <1>7, <1>8, <1>9 DEF p

(* What was to be replaced of a value is, and nothing else. *)
Exact(t) ==
  /\ Paths[Rewrite[t].tree] = {Replaced(q) : q \in Paths[t]}
  /\ Rewrite[t].changed <=> \E q \in Paths[t] : AtMainboard(q)
  /\ (\E q \in Paths[t] : AtMainboard(q)) => Mentions[t]

LEMMA ExactStep ==
  ASSUME NEW t \in Json, \A i \in DOMAIN t.entries : Exact(t.entries[i].node)
  PROVE  Exact(t)
<1> DEFINE E == t.entries
           N == NewEntries(t)
<1>1. CASE E = <<>>
  <2>1. Paths[t] = {<<<<>>, t>>}
    BY <1>1, PathsAre
  <2>2. ~ AtMainboard(<<<<>>, t>>)
    BY DEF AtMainboard
  <2>3. Rewrite[t].tree = t /\ ~ Rewrite[t].changed
    <3>1. CASE t.kind \in Containers
      <4>1. DOMAIN E = {}
        BY <1>1
      <4>2. N = <<>>
        <5>1. N \in [1 .. 0 -> Json]
          BY <4>1 DEF NewEntries
        <5>2. N \in Seq(Json) /\ Len(N) = 0
          BY <5>1
        <5> HIDE DEF N
        <5> QED BY <5>2
      <4> HIDE DEF N
      <4>3. Rewrite[t].tree = t
        BY <1>1, <3>1, <4>2, JsonEntries, RewriteIs DEF N
      <4>4. ~ Rewrite[t].changed
        BY <3>1, <4>1, RewriteIs
      <4> QED BY <4>3, <4>4
    <3>2. CASE t.kind \notin Containers
      BY <3>2, RewriteIs
    <3> QED BY <3>1, <3>2
  <2>4. Replaced(<<<<>>, t>>) = <<<<>>, t>>
    BY <2>2 DEF Replaced
  <2> QED BY <2>1, <2>2, <2>3, <2>4 DEF Exact
<1>2. CASE E # <<>>
  <2> DEFINE R == Rewrite[t].tree
  <2>1. t.kind \in Containers
    BY <1>2, JsonEntries
  <2>2. /\ R.entries = N /\ R \in Json
        /\ Rewrite[t].changed <=>
             \E i \in DOMAIN E : Matches(E[i]) \/ Rewrite[E[i].node].changed
    <3>1. R \in Json
      BY NestedGrows, RewriteNested
    <3>2. R = Tree(t.kind, N)
      BY <2>1, RewriteIs
    <3>3. R.entries = N
      <4> HIDE DEF R, N
      <4> QED BY <3>2 DEF Tree
    <3> QED BY <2>1, <3>1, <3>3, RewriteIs
  <2>3. /\ DOMAIN N = DOMAIN E
        /\ \A i \in DOMAIN E : /\ N[i].key = E[i].key
                               /\ N[i].node = IF Matches(E[i]) THEN Leaf("proxy")
                                              ELSE Rewrite[E[i].node].tree
    BY DEF NewEntries
  <2>4. DOMAIN E # {}
    <3>1. E \in Seq([key : AllKeys, node : Json])
      BY <1>2, JsonEntries
    <3> QED BY <1>2, <3>1
  <2>5. N # <<>>
    <3>1. DOMAIN <<>> = {}
      OBVIOUS
    <3> HIDE DEF N
    <3> QED BY <2>3, <2>4, <3>1
  <2>6. \A i \in DOMAIN E : \A q \in Paths[E[i].node] :
          /\ AtMainboard(Under(i, E[i].key, q)) <=> AtMainboard(q) \/ Matches(E[i])
          /\ Matches(E[i]) => q = <<<<>>, E[i].node>>
          /\ ~ Matches(E[i]) => Replaced(Under(i, E[i].key, q)) = Under(i, E[i].key, Replaced(q))
    BY MainboardUnder
  <2>7. \A i \in DOMAIN E : Matches(E[i]) => Paths[E[i].node] = {<<<<>>, Leaf("printer")>>}
    <3> TAKE i \in DOMAIN E
    <3> SUFFICES ASSUME Matches(E[i]) PROVE Paths[E[i].node] = {<<<<>>, Leaf("printer")>>}
      OBVIOUS
    <3>1. E[i].node = Leaf("printer") /\ E[i].node.entries = <<>> /\ E[i].node \in Json
      BY JsonEntries DEF Matches, Leaf
    <3> QED BY <3>1, PathsAre
  <2> HIDE DEF E, N, R
  <2>8. \A p : p \in Paths[t] <=> \E i \in DOMAIN E : \E q \in Paths[E[i].node] :
                                     p = Under(i, E[i].key, q)
    BY <1>2, PathsUnder DEF E
  <2>9. \A p : p \in Paths[R] <=> \E i \in DOMAIN E : \E q \in Paths[N[i].node] :
                                     p = Under(i, E[i].key, q)
    <3> TAKE p
    <3>1. p \in Paths[R] <=> \E i \in DOMAIN N : \E q \in Paths[N[i].node] :
                               p = Under(i, N[i].key, q)
      <4>1. p \in Paths[R] <=> From(p, R.entries)
        BY <2>2, <2>5, PathsFrom
      <4> QED BY <2>2, <4>1 DEF From
    <3>2. \A i \in DOMAIN E : \A q : Under(i, N[i].key, q) = Under(i, E[i].key, q)
      BY <2>3
    <3> QED BY <2>3, <3>1, <3>2
  <2>10. \A i \in DOMAIN E : Exact(E[i].node)
    BY DEF E
  <2>11. Rewrite[t].changed <=> \E q \in Paths[t] : AtMainboard(q)
    <3>1. \A i \in DOMAIN E : Matches(E[i]) \/ Rewrite[E[i].node].changed <=>
            \E q \in Paths[E[i].node] : AtMainboard(Under(i, E[i].key, q))
      <4> TAKE i \in DOMAIN E
      <4>1. Rewrite[E[i].node].changed <=> \E q \in Paths[E[i].node] : AtMainboard(q)
        BY <2>10 DEF Exact
      <4> QED BY <2>6, <2>7, <4>1
    <3> QED BY <2>2, <2>8, <3>1
  <2>12. ASSUME NEW p \in Paths[t], AtMainboard(p) PROVE Mentions[t]
    <3>1. PICK i \in DOMAIN E : \E q \in Paths[E[i].node] : p = Under(i, E[i].key, q)
      BY <2>8
    <3>2. PICK q \in Paths[E[i].node] : p = Under(i, E[i].key, q)
      BY <3>1
    <3>3. AtMainboard(q) \/ Matches(E[i])
      BY <2>6, <2>12, <3>2
    <3>4. E[i].key = "MainboardIP" \/ Mentions[E[i].node]
      BY <2>10, <3>3 DEF Exact, Matches
    <3>5. Mentions[t] = Mentioning(Mentions, t)
      BY MentionsDef
    <3> QED BY <3>4, <3>5 DEF Mentioning, E
  <2>13. ASSUME NEW i \in DOMAIN E, NEW p
         PROVE  (\E q \in Paths[N[i].node] : p = Under(i, E[i].key, q)) <=>
                (\E q \in Paths[E[i].node] : p = Replaced(Under(i, E[i].key, q)))
    <3>1. CASE Matches(E[i])
      <4>1. N[i].node = Leaf("proxy") /\ Leaf("proxy") \in Json /\ Leaf("proxy").entries = <<>>
        BY <2>3, <3>1, NestedGrows, ProxyNested DEF Leaf
      <4>2. Paths[N[i].node] = {<<<<>>, Leaf("proxy")>>}
        BY <4>1, PathsAre
      <4> DEFINE old == <<<<>>, Leaf("printer")>>
                 new == <<<<>>, Leaf("proxy")>>
      <4>3. Replaced(Under(i, E[i].key, old)) = Under(i, E[i].key, new)
        <5>1. AtMainboard(Under(i, E[i].key, old))
          BY <2>6, <2>7, <3>1
        <5> QED BY <5>1 DEF Replaced, Under
      <4>4. Paths[E[i].node] = {old} /\ Paths[N[i].node] = {new}
        BY <2>7, <3>1, <4>2
      <4> HIDE DEF old, new
      <4> QED BY <4>3, <4>4
    <3>2. CASE ~ Matches(E[i])
      <4>1. Paths[N[i].node] = {Replaced(q) : q \in Paths[E[i].node]}
        BY <2>3, <2>10, <3>2 DEF Exact
      <4>2. \A q \in Paths[E[i].node] :
              Replaced(Under(i, E[i].key, q)) = Under(i, E[i].key, Replaced(q))
        BY <2>6, <3>2
      <4> QED BY <4>1, <4>2
    <3> QED BY <3>1, <3>2
  <2>14. \A p : p \in Paths[R] <=> p \in {Replaced(q) : q \in Paths[t]}
    <3> TAKE p
    <3>1. p \in Paths[R] <=>
            \E i \in DOMAIN E : \E q \in Paths[E[i].node] : p = Replaced(Under(i, E[i].key, q))
      <4> DEFINE Now(i) == \E q \in Paths[N[i].node] : p = Under(i, E[i].key, q)
                 Was(i) == \E q \in Paths[E[i].node] : p = Replaced(Under(i, E[i].key, q))
      <4>1. p \in Paths[R] <=> \E i \in DOMAIN E : Now(i)
        BY <2>9
      <4>2. \A i \in DOMAIN E : Now(i) <=> Was(i)
        BY <2>13
      <4> HIDE DEF Now, Was
      <4>3. p \in Paths[R] <=> \E i \in DOMAIN E : Was(i)
        BY <4>1, <4>2
      <4> QED BY <4>3 DEF Was
    <3> QED BY <2>8, <3>1
  <2> QED BY <2>11, <2>12, <2>14 DEF Exact, R
<1> QED BY <1>1, <1>2

LEMMA AllExact == \A t \in Json : Exact(t)
<1> DEFINE Bad == {t \in Json : ~ Exact(t)}
<1>1. Bad = {}
  <2> SUFFICES ASSUME Bad # {} PROVE FALSE
    OBVIOUS
  <2>1. PICK t \in Bad : \A i \in DOMAIN t.entries : t.entries[i].node \in Json \ Bad
    <3>1. Bad \subseteq Json
      OBVIOUS
    <3> HIDE DEF Bad
    <3> QED BY <3>1, SmallestBad
  <2> QED BY <2>1, ExactStep
<1> QED BY <1>1

(* discovery_relay.py:78-83, ws_proxy.py:64-105: in a payload of any depth *)
(* each MainboardIP that holds the printer's address gets the proxy's and  *)
(* nothing else changes; a payload without one is passed on as it came,    *)
(* and the old length of one that was rewritten is not.                    *)
THEOREM PayloadsRewrittenExactly ==
  ASSUME payload \in Payload
  PROVE  RewriteExact
<1>1. payload.tree \in Json /\ Exact(payload.tree)
  BY AllExact DEF Payload
<1> DEFINE mine == {q \in Paths[payload.tree] : AtMainboard(q)}
           Out(advertise) == Outbound(payload, advertise)
<1>2. ASSUME NEW advertise \in BOOLEAN, advertise, payload.syntax = "json", mine # {}
      PROVE  Paths[Out(advertise).tree] =
               (Paths[payload.tree] \ mine) \cup {<<q[1], Leaf("proxy")>> : q \in mine}
  <2>1. Rewrite[payload.tree].changed /\ Mentions[payload.tree]
    BY <1>1, <1>2 DEF Exact
  <2>2. Out(advertise).tree = Rewrite[payload.tree].tree
    BY <1>2, <2>1 DEF Outbound, RewritePayload
  <2>3. Paths[Out(advertise).tree] = {Replaced(q) : q \in Paths[payload.tree]}
    BY <1>1, <2>2 DEF Exact
  <2> QED BY <2>3 DEF Replaced
<1>3. ASSUME NEW advertise \in BOOLEAN, ~ (advertise /\ payload.syntax = "json" /\ mine # {})
      PROVE  Out(advertise) = payload
  <2>1. mine = {} => ~ Rewrite[payload.tree].changed
    BY <1>1 DEF Exact
  <2> HIDE DEF mine
  <2> QED BY <1>3, <2>1 DEF Outbound, RewritePayload
<1> DEFINE response(advertise) == Response(payload, {"content-length"}, advertise)
<1>4. ASSUME NEW advertise \in BOOLEAN
      PROVE  /\ response(advertise).body = Out(advertise)
             /\ "content-length" \notin response(advertise).headers
  BY DEF Response, Passed
<1> HIDE DEF response, Out, mine
<1>5. ASSUME NEW advertise \in BOOLEAN
      PROVE  IF advertise /\ payload.syntax = "json" /\ mine # {}
             THEN /\ Paths[response(advertise).body.tree] =
                       (Paths[payload.tree] \ mine) \cup {<<q[1], Leaf("proxy")>> : q \in mine}
                  /\ "content-length" \notin response(advertise).headers
             ELSE response(advertise).body = payload
  BY <1>2, <1>3, <1>4
<1> QED BY <1>5 DEF RewriteExact, mine, response

-----------------------------------------------------------------------------
(* GcodeParser: the filament and the name, whatever the lines. *)

(* A line with a list of numbers. *)
UsageLine == [key : STRING, value : Seq(Int)]

Usage == [grams : Seq(Int), changes : Int, time : Seq(Int)]

(* Of the first n lines, i is the last one with the key. *)
IsLast(tail, key, n, i) ==
  /\ i \in 1 .. n /\ tail[i].key = key
  /\ \A j \in 1 .. n : tail[j].key = key => j <= i

(* The end of a file that is read, and the lines in it. *)
LEMMA TailLines ==
  ASSUME NEW Lines, file \in Seq(Lines),
         NEW first, first = Len(file) - Len(Tail64)
  PROVE  /\ Tail64 \in Seq(Lines) /\ first \in Nat
         /\ \A i \in 1 .. Len(Tail64) : Tail64[i] = file[first + i]
         /\ \A key : InReach(key) =
                       {first + i : i \in {j \in 1 .. Len(Tail64) : Tail64[j].key = key}}
<1> DEFINE k == MinOf(TailSize, Len(file))
<1>1. Len(file) \in Nat /\ k \in 0 .. Len(file)
  BY DEF MinOf, TailSize
<1>2. /\ Tail64 \in Seq(Lines) /\ Len(Tail64) = k
      /\ \A i \in 1 .. k : Tail64[i] = file[(Len(file) - k) + i]
  <2>1. Tail64 = SubSeq(file, Len(file) - k + 1, Len(file))
    BY DEF Tail64
  <2> HIDE DEF k
  <2>2. Len(file) - k + 1 \in 1 .. Len(file) + 1
    BY <1>1
  <2> QED BY <1>1, <2>1, <2>2
<1>3. ASSUME NEW key
      PROVE  InReach(key) = {first + i : i \in {j \in 1 .. Len(Tail64) : Tail64[j].key = key}}
  <2>1. \A i \in DOMAIN file : i > Len(file) - TailSize <=> i > Len(file) - k
    BY <1>1 DEF MinOf, TailSize
  <2>2. InReach(key) = {i \in 1 .. Len(file) : i > Len(file) - k /\ file[i].key = key}
    BY <2>1 DEF InReach
  <2> HIDE DEF k
  <2>3. ASSUME NEW i \in 1 .. Len(file), i > Len(file) - k, file[i].key = key
        PROVE  \E j \in 1 .. Len(Tail64) : Tail64[j].key = key /\ i = first + j
    <3>1. i - first \in 1 .. k /\ i = first + (i - first)
      BY <1>1, <1>2, <2>3
    <3> QED BY <1>2, <2>3, <3>1
  <2>4. ASSUME NEW j \in 1 .. Len(Tail64), Tail64[j].key = key
        PROVE  first + j \in InReach(key)
    BY <1>1, <1>2, <2>2, <2>4
  <2> QED BY <2>2, <2>3, <2>4
<1> HIDE DEF k
<1> QED BY <1>1, <1>2, <1>3

(* Parsed(tail) is the function its definition says. *)
LEMMA ParsedDef ==
  ASSUME NEW tail \in Seq(UsageLine)
  PROVE  Parsed(tail) = [n \in 0 .. Len(tail) |->
                           IF n = 0 THEN NoUsage ELSE ParseLine(Parsed(tail)[n - 1], tail[n])]
<1> DEFINE Step(f, n) == IF n = 0 THEN NoUsage ELSE ParseLine(f[n - 1], tail[n])
           Upto(n) == \E f : f = [k \in 0 .. n |-> Step(f, k)]
           Missing == {n \in 0 .. Len(tail) : ~ Upto(n)}
<1>1. Upto(0)
  <2> DEFINE f == [k \in 0 .. 0 |-> NoUsage]
  <2>1. f = [k \in 0 .. 0 |-> Step(f, k)]
    OBVIOUS
  <2> QED BY <2>1
<1>2. ASSUME NEW n \in 0 .. Len(tail), n # 0, Upto(n - 1) PROVE Upto(n)
  <2>1. PICK f : f = [k \in 0 .. n - 1 |-> Step(f, k)]
    BY <1>2
  <2> DEFINE g == [k \in 0 .. n |-> IF k = n THEN Step(f, n) ELSE f[k]]
  <2>2. \A k \in 0 .. n : g[k] = Step(g, k)
    <3> TAKE k \in 0 .. n
    <3>1. k # 0 => g[k - 1] = f[k - 1]
      OBVIOUS
    <3>2. Step(g, k) = Step(f, k)
      BY <3>1
    <3>3. k # n => f[k] = Step(f, k)
      <4> HIDE DEF Step
      <4> QED BY <2>1
    <3> QED BY <3>2, <3>3
  <2>3. g = [k \in 0 .. n |-> Step(g, k)]
    <3> HIDE DEF Step
    <3>1. g = [k \in 0 .. n |-> g[k]]
      OBVIOUS
    <3> HIDE DEF g
    <3> QED BY <2>2, <3>1
  <2> QED BY <2>3
<1>3. Missing = {}
  <2> SUFFICES ASSUME Missing # {} PROVE FALSE
    OBVIOUS
  <2> HIDE DEF Upto
  <2>0. Missing \subseteq Nat
    OBVIOUS
  <2>1. PICK n \in Missing : \A k \in Missing : n <= k
    <3> HIDE DEF Missing
    <3> QED BY <2>0, Least
  <2>2. n # 0 /\ n - 1 \in 0 .. Len(tail) /\ n - 1 \notin Missing
    BY <1>1, <2>1
  <2> QED BY <1>2, <2>2
<1>4. Upto(Len(tail))
  <2> HIDE DEF Upto
  <2> QED BY <1>3
<1> QED BY <1>4 DEF Parsed

LEMMA ParseLineType ==
  ASSUME NEW u \in Usage, NEW line \in UsageLine
  PROVE  /\ ParseLine(u, line) \in Usage
         /\ ParseLine(u, line).grams =
              IF line.key = "filament used [g]" THEN Csv(line.value) ELSE u.grams
         /\ ParseLine(u, line).changes =
              IF line.key = "total filament change" THEN Single(line.value) ELSE u.changes
<1>1. Csv(line.value) \in Seq(Int)
  BY DEF Csv, UsageLine
<1>2. Single(line.value) \in Int
  BY DEF Single, UsageLine
<1> QED BY <1>1, <1>2 DEF ParseLine, Usage, UsageLine

(* Of several lines with a key, the last one counts. *)
LEMMA LastLineCounts ==
  ASSUME NEW tail \in Seq(UsageLine), NEW n \in 0 .. Len(tail)
  PROVE  /\ Parsed(tail)[n] \in Usage
         /\ \A i : IsLast(tail, "filament used [g]", n, i) =>
                     Parsed(tail)[n].grams = Csv(tail[i].value)
         /\ \A i : IsLast(tail, "total filament change", n, i) =>
                     Parsed(tail)[n].changes = Single(tail[i].value)
         /\ (\A i \in 1 .. n : tail[i].key # "total filament change") => Parsed(tail)[n].changes = 0
<1> DEFINE Good(k) ==
             /\ Parsed(tail)[k] \in Usage
             /\ \A i : IsLast(tail, "filament used [g]", k, i) =>
                         Parsed(tail)[k].grams = Csv(tail[i].value)
             /\ \A i : IsLast(tail, "total filament change", k, i) =>
                         Parsed(tail)[k].changes = Single(tail[i].value)
             /\ (\A i \in 1 .. k : tail[i].key # "total filament change") =>
                  Parsed(tail)[k].changes = 0
           Bad == {k \in 0 .. Len(tail) : ~ Good(k)}
<1>1. Good(0)
  <2>1. Parsed(tail)[0] = NoUsage
    BY ParsedDef
  <2>2. NoUsage \in Usage /\ NoUsage.changes = 0
    BY DEF NoUsage, Usage
  <2> QED BY <2>1, <2>2 DEF IsLast
<1>2. ASSUME NEW k \in 0 .. Len(tail), k # 0, Good(k - 1) PROVE Good(k)
  <2> DEFINE u == Parsed(tail)[k - 1]
  <2>0. /\ k \in 1 .. Len(tail) /\ k - 1 \in 0 .. Len(tail) /\ k \in 1 .. k
        /\ \A j \in 1 .. k - 1 : j \in 1 .. k
    <3> HIDE DEF Good
    <3> QED BY <1>2
  <2>1. Parsed(tail)[k] = ParseLine(u, tail[k])
    <3> HIDE DEF Good
    <3> QED BY <1>2, ParsedDef
  <2>2. u \in Usage
    BY <1>2
  <2>8. tail[k] \in UsageLine
    BY <2>0
  <2>3. /\ ParseLine(u, tail[k]) \in Usage
        /\ ParseLine(u, tail[k]).grams =
             IF tail[k].key = "filament used [g]" THEN Csv(tail[k].value) ELSE u.grams
        /\ ParseLine(u, tail[k]).changes =
             IF tail[k].key = "total filament change" THEN Single(tail[k].value) ELSE u.changes
    <3> HIDE DEF u
    <3> QED BY <2>2, <2>8, ParseLineType
  <2>4. ASSUME NEW key, NEW i, IsLast(tail, key, k, i)
        PROVE  IF tail[k].key = key THEN i = k ELSE IsLast(tail, key, k - 1, i)
    <3>2. CASE tail[k].key = key
      <4>1. k <= i /\ i \in 1 .. k
        BY <2>0, <2>4, <3>2 DEF IsLast
      <4> QED BY <3>2, <4>1
    <3>3. CASE tail[k].key # key
      <4>1. i # k
        BY <2>4, <3>3 DEF IsLast
      <4>2. i \in 1 .. k - 1
        BY <2>4, <4>1 DEF IsLast
      <4> QED BY <2>0, <2>4, <3>3, <4>2 DEF IsLast
    <3> QED BY <3>2, <3>3
  <2>5. \A i : IsLast(tail, "filament used [g]", k, i) => Parsed(tail)[k].grams = Csv(tail[i].value)
    BY <1>2, <2>1, <2>3, <2>4
  <2>6. \A i : IsLast(tail, "total filament change", k, i) =>
                 Parsed(tail)[k].changes = Single(tail[i].value)
    BY <1>2, <2>1, <2>3, <2>4
  <2>7. (\A i \in 1 .. k : tail[i].key # "total filament change") => Parsed(tail)[k].changes = 0
    <3> SUFFICES ASSUME \A i \in 1 .. k : tail[i].key # "total filament change"
                 PROVE  Parsed(tail)[k].changes = 0
      OBVIOUS
    <3>1. tail[k].key # "total filament change"
      BY <2>0
    <3>2. u.changes = 0
      BY <1>2, <2>0
    <3> QED BY <2>1, <2>3, <3>1, <3>2
  <2> QED BY <2>1, <2>3, <2>5, <2>6, <2>7
<1>3. Bad = {}
  <2> SUFFICES ASSUME Bad # {} PROVE FALSE
    OBVIOUS
  <2> HIDE DEF Good
  <2>0. Bad \subseteq Nat
    OBVIOUS
  <2>1. PICK k \in Bad : \A j \in Bad : k <= j
    <3> HIDE DEF Bad
    <3> QED BY <2>0, Least
  <2>2. k # 0 /\ k - 1 \in 0 .. Len(tail) /\ k - 1 \notin Bad
    BY <1>1, <2>1
  <2> QED BY <1>2, <2>2
<1>4. Good(n)
  <2> HIDE DEF Good
  <2> QED BY <1>3
<1> QED BY <1>4

(* One less than the slots in use are the slots behind one in use. *)
LEMMA SlotsBehindAnother ==
  ASSUME NEW grams \in Seq(Int)
  PROVE  Cardinality({i \in DOMAIN grams : grams[i] > 0 /\ \E j \in 1 .. i - 1 : grams[j] > 0}) =
           IF UsedSlots(grams) = 0 THEN 0 ELSE UsedSlots(grams) - 1
<1> DEFINE S == {i \in DOMAIN grams : grams[i] > 0}
           B == {i \in DOMAIN grams : grams[i] > 0 /\ \E j \in 1 .. i - 1 : grams[j] > 0}
<1> SUFFICES Cardinality(B) = IF UsedSlots(grams) = 0 THEN 0 ELSE UsedSlots(grams) - 1
  OBVIOUS
<1>1. DOMAIN grams = 1 .. Len(grams) /\ Len(grams) \in Nat
  OBVIOUS
<1>2. IsFiniteSet(S) /\ S \subseteq Nat
  <2>1. IsFiniteSet(1 .. Len(grams))
    BY <1>1, FS_Interval
  <2>2. S \subseteq 1 .. Len(grams)
    BY <1>1
  <2>3. S \subseteq Nat
    BY <1>1
  <2> HIDE DEF S
  <2>4. S \in SUBSET (1 .. Len(grams))
    BY <2>2
  <2>5. IsFiniteSet(S)
    BY <2>1, <2>4, FS_Subset
  <2> QED BY <2>3, <2>5
<1>3. UsedSlots(grams) = Cardinality(S)
  BY DEF UsedSlots
<1>4. CASE S = {}
  <2>1. B = {}
    BY <1>4
  <2> HIDE DEF S, B
  <2> QED BY <1>3, <1>4, <2>1, FS_EmptySet
<1>5. CASE S # {}
  <2>1. PICK m \in S : \A i \in S : m <= i
    <3> HIDE DEF S
    <3> QED BY <1>2, <1>5, Least
  <2>2. B = S \ {m}
    <3>1. ASSUME NEW i \in B PROVE i \in S \ {m}
      <4>1. PICK j \in 1 .. i - 1 : grams[j] > 0
        OBVIOUS
      <4>2. j \in S /\ j < i
        BY <1>1, <4>1
      <4> QED BY <1>2, <2>1, <4>2
    <3>2. ASSUME NEW i \in S \ {m} PROVE i \in B
      <4>1. /\ i \in 1 .. Len(grams) /\ grams[i] > 0 /\ m # i
            /\ m \in 1 .. Len(grams) /\ grams[m] > 0
        BY <1>1
      <4>2. m <= i
        BY <2>1
      <4>3. m \in 1 .. i - 1
        BY <1>1, <4>1, <4>2
      <4> QED BY <1>1, <4>1, <4>3
    <3> QED BY <3>1, <3>2
  <2> HIDE DEF S, B
  <2>3. Cardinality(B) = Cardinality(S) - 1
    BY <1>2, <2>1, <2>2, FS_RemoveElement
  <2>4. Cardinality(S) # 0
    BY <1>2, <1>5, FS_EmptySet
  <2>5. UsedSlots(grams) # 0 /\ Cardinality(B) = UsedSlots(grams) - 1
    BY <1>3, <2>3, <2>4
  <2> QED BY <2>5
<1> QED BY <1>4, <1>5

(* gcode_parser.py:158-199: of several lines with a field the last one in  *)
(* reach counts, and the changes of filament that the slicer does not      *)
(* count are one less than the slots in use, for a file of any lines.      *)
THEOREM LastLinesGiveUsage ==
  ASSUME file \in Seq(UsageLine)
  PROVE  UsageFromLastLines
<1> DEFINE n == Len(Tail64)
           first == Len(file) - n
           last == Parsed(Tail64)[n]
           usage == ParseFilamentData(Tail64)
           counted == {Single(v) : v \in LastValues("total filament change")} \ {0}
<1>1. /\ Tail64 \in Seq(UsageLine) /\ n \in Nat /\ first \in Nat
      /\ \A i \in 1 .. n : Tail64[i] = file[first + i]
      /\ \A key : InReach(key) = {first + i : i \in {j \in 1 .. n : Tail64[j].key = key}}
  BY TailLines
<1> HIDE DEF n, first
<1>2. ASSUME NEW key, NEW v \in LastValues(key)
      PROVE  \E i : IsLast(Tail64, key, n, i) /\ v = Tail64[i].value
  <2>1. PICK j \in InReach(key) : v = file[j].value /\ \A k \in InReach(key) : k <= j
    BY DEF LastValues
  <2>2. PICK i \in 1 .. n : Tail64[i].key = key /\ j = first + i
    BY <1>1
  <2>3. ASSUME NEW k \in 1 .. n, Tail64[k].key = key PROVE k <= i
    <3>1. first + k <= first + i
      BY <1>1, <2>1, <2>2, <2>3
    <3> QED BY <1>1, <3>1
  <2> QED BY <1>1, <2>1, <2>2, <2>3 DEF IsLast
<1>3. ASSUME NEW key, NEW k \in 1 .. n, Tail64[k].key = key
      PROVE  LastValues(key) # {}
  <2> DEFINE at == {first + i : i \in {j \in 1 .. n : Tail64[j].key = key}}
             behind == {first + n - i : i \in at}
  <2>1. at = InReach(key) /\ at # {} /\ \A i \in at : i \in Nat /\ i <= first + n
    BY <1>1, <1>3
  <2> HIDE DEF at
  <2>2. behind \subseteq Nat /\ behind # {}
    <3>1. \A i \in at : first + n - i \in Nat
      BY <1>1, <2>1
    <3> QED BY <2>1, <3>1
  <2>3. PICK b \in behind : \A c \in behind : b <= c
    <3> HIDE DEF behind
    <3> QED BY <2>2, Least
  <2>4. PICK i \in at : b = first + n - i
    OBVIOUS
  <2>5. ASSUME NEW c \in at PROVE c <= i
    <3>1. b <= first + n - c
      BY <2>3
    <3>2. i \in Nat /\ c \in Nat
      BY <2>1
    <3> QED BY <1>1, <2>4, <3>1, <3>2
  <2> QED BY <2>1, <2>4, <2>5 DEF LastValues
<1>4. /\ last \in Usage
      /\ \A i : IsLast(Tail64, "filament used [g]", n, i) => last.grams = Csv(Tail64[i].value)
      /\ \A i : IsLast(Tail64, "total filament change", n, i) =>
                  last.changes = Single(Tail64[i].value)
      /\ (\A i \in 1 .. n : Tail64[i].key # "total filament change") => last.changes = 0
  <2>1. n \in 0 .. Len(Tail64)
    BY <1>1 DEF n
  <2> QED BY <1>1, <2>1, LastLineCounts
<1>5. usage = IF last.changes = 0 THEN [last EXCEPT !.changes = Inferred(last)] ELSE last
  BY DEF ParseFilamentData, n
<1> HIDE DEF last, usage
<1>6. /\ usage.grams = last.grams /\ last.grams \in Seq(Int)
      /\ usage.changes = IF last.changes = 0 THEN Inferred(last) ELSE last.changes
  BY <1>4, <1>5 DEF Usage
<1>7. \A v \in LastValues("filament used [g]") : usage.grams = Csv(v)
  <2> TAKE v \in LastValues("filament used [g]")
  <2>1. PICK i : IsLast(Tail64, "filament used [g]", n, i) /\ v = Tail64[i].value
    BY <1>2
  <2> QED BY <1>4, <1>6, <2>1
<1>8. \A v \in LastValues("total filament change") : last.changes = Single(v)
  <2> TAKE v \in LastValues("total filament change")
  <2>1. PICK i : IsLast(Tail64, "total filament change", n, i) /\ v = Tail64[i].value
    BY <1>2
  <2> QED BY <1>4, <2>1
<1>9. ASSUME last.changes # 0 PROVE usage.changes \in counted
  <2>1. PICK i \in 1 .. n : Tail64[i].key = "total filament change"
    BY <1>4, <1>9
  <2>2. PICK v \in LastValues("total filament change") : TRUE
    BY <1>3, <2>1
  <2> QED BY <1>6, <1>8, <1>9, <2>2
<1>10. ASSUME last.changes = 0
       PROVE  /\ counted = {}
              /\ usage.changes = Cardinality({i \in DOMAIN usage.grams :
                   usage.grams[i] > 0 /\ \E j \in 1 .. i - 1 : usage.grams[j] > 0})
  <2>1. counted = {}
    BY <1>8, <1>10
  <2>2. usage.changes = IF UsedSlots(usage.grams) = 0 THEN 0 ELSE UsedSlots(usage.grams) - 1
    BY <1>6, <1>10 DEF Inferred
  <2> QED BY <1>6, <2>1, <2>2, SlotsBehindAnother
<1> HIDE DEF counted
<1>11. IF counted # {} THEN usage.changes \in counted
       ELSE usage.changes = Cardinality({i \in DOMAIN usage.grams :
              usage.grams[i] > 0 /\ \E j \in 1 .. i - 1 : usage.grams[j] > 0})
  BY <1>9, <1>10
<1> QED BY <1>7, <1>11 DEF UsageFromLastLines, counted, usage

(* A line with words. *)
NamedLine == [key : STRING, value : Seq(STRING)]

Words == Seq(STRING) \ {<<>>}

LEMMA FlattenDef ==
  ASSUME NEW s \in Seq(Words), Len(s) > 0
  PROVE  \E f : /\ FlattenSeq(s) = f[Len(s)]
                /\ f = [n \in 1 .. Len(s) |-> IF n = 1 THEN s[n] ELSE f[n - 1] \o s[n]]
<1> DEFINE N == Len(s)
           Step(f, n) == IF n = 1 THEN s[n] ELSE f[n - 1] \o s[n]
           Upto(n) == \E f : f = [k \in 1 .. n |-> Step(f, k)]
           Missing == {n \in 0 .. N : ~ Upto(n)}
           flatten == CHOOSE f : f = [k \in 1 .. N |-> Step(f, k)]
<1>0. N \in Nat \ {0}
  OBVIOUS
<1>1. Upto(0)
  <2> DEFINE f == [k \in 1 .. 0 |-> {}]
  <2>1. f = [k \in 1 .. 0 |-> Step(f, k)]
    OBVIOUS
  <2> QED BY <2>1
<1>2. ASSUME NEW n \in 0 .. N, n # 0, Upto(n - 1) PROVE Upto(n)
  <2>0. n \in 1 .. N /\ n - 1 \in 0 .. N
    BY <1>0, <1>2
  <2>1. PICK f : f = [k \in 1 .. n - 1 |-> Step(f, k)]
    BY <1>2
  <2> DEFINE g == [k \in 1 .. n |-> IF k = n THEN Step(f, n) ELSE f[k]]
  <2>2. \A k \in 1 .. n : g[k] = Step(g, k)
    <3> TAKE k \in 1 .. n
    <3>1. k # 1 => g[k - 1] = f[k - 1]
      BY <2>0
    <3>2. Step(g, k) = Step(f, k)
      BY <3>1
    <3>3. k # n => f[k] = Step(f, k)
      <4>1. k # n => k \in 1 .. n - 1
        BY <2>0
      <4> HIDE DEF Step, g, Upto, Missing, flatten
      <4> QED BY <2>1, <4>1
    <3> QED BY <3>2, <3>3
  <2>3. g = [k \in 1 .. n |-> Step(g, k)]
    <3> HIDE DEF Step
    <3>1. g = [k \in 1 .. n |-> g[k]]
      OBVIOUS
    <3> HIDE DEF g
    <3> QED BY <2>2, <3>1
  <2> QED BY <2>3
<1>3. Missing = {}
  <2> SUFFICES ASSUME Missing # {} PROVE FALSE
    OBVIOUS
  <2> HIDE DEF Upto
  <2>0. Missing \subseteq Nat
    OBVIOUS
  <2>1. PICK n \in Missing : \A k \in Missing : n <= k
    <3> HIDE DEF Missing
    <3> QED BY <2>0, Least
  <2>2. n # 0 /\ n - 1 \in 0 .. N /\ n - 1 \notin Missing
    BY <1>1, <2>1
  <2> QED BY <1>2, <2>2
<1>4. Upto(N)
  <2> HIDE DEF Upto
  <2> QED BY <1>0, <1>3
<1>5. flatten = [k \in 1 .. N |-> Step(flatten, k)]
  <2> HIDE DEF Step
  <2> QED BY <1>4
<1>6. FlattenSeq(s) = flatten[N]
  BY <1>0 DEF FlattenSeq
<1> QED BY <1>5, <1>6

LEMMA FlattenWords ==
  ASSUME NEW s \in Seq(Words), Len(s) > 0
  PROVE  FlattenSeq(s) \in Words
<1>1. PICK f : /\ FlattenSeq(s) = f[Len(s)]
               /\ f = [n \in 1 .. Len(s) |-> IF n = 1 THEN s[n] ELSE f[n - 1] \o s[n]]
  BY FlattenDef
<1> DEFINE Bad == {k \in 1 .. Len(s) : f[k] \notin Words}
<1>2. Bad = {}
  <2> SUFFICES ASSUME Bad # {} PROVE FALSE
    OBVIOUS
  <2>1. Bad \subseteq Nat
    OBVIOUS
  <2>2. PICK k \in Bad : \A j \in Bad : k <= j
    <3> HIDE DEF Bad
    <3> QED BY <2>1, Least
  <2>3. k \in 1 .. Len(s) /\ f[k] \notin Words /\ s[k] \in Words
    OBVIOUS
  <2>4. k # 1 /\ f[k] = f[k - 1] \o s[k]
    BY <1>1, <2>3
  <2>5. f[k - 1] \in Words
    <3>1. k - 1 \in 1 .. Len(s) /\ k - 1 \notin Bad
      BY <2>2, <2>3, <2>4
    <3> QED BY <3>1
  <2>6. \A a, b \in Words : a \o b \in Words
    BY DEF Words
  <2> QED BY <2>3, <2>4, <2>5, <2>6
<1>3. Len(s) \in 1 .. Len(s)
  OBVIOUS
<1>4. f[Len(s)] \in Words
  BY <1>2, <1>3
<1> QED BY <1>1, <1>4

LEMMA OneWord ==
  ASSUME NEW S, NEW w \in S
  PROVE  <<w>> \in Seq(S) \ {<<>>}
  OBVIOUS

(* A format without variables but its base is a name, and so is its base. *)
LEMMA SubstitutedWords ==
  ASSUME NEW format \in Words, NEW base \in Words
  PROVE  Substituted(format, base) \in Words
<1> DEFINE s == [i \in DOMAIN format |-> IF format[i] = "{base}" THEN base ELSE <<format[i]>>]
<1>1. Len(format) \in Nat \ {0} /\ DOMAIN format = 1 .. Len(format)
      /\ \A i \in 1 .. Len(format) : format[i] \in STRING
  BY DEF Words
<1>2. ASSUME NEW w \in STRING PROVE <<w>> \in Words
  <2> QED BY OneWord DEF Words
<1>3. \A i \in DOMAIN format : s[i] \in Words
  BY <1>1, <1>2
<1>4. s \in Seq(Words) /\ Len(s) > 0
  <2>1. s \in [1 .. Len(format) -> Words]
    BY <1>1, <1>3
  <2> HIDE DEF s
  <2> QED BY <1>1, <2>1
<1> HIDE DEF s
<1>5. FlattenSeq(s) \in Words
  BY <1>4, FlattenWords
<1> QED BY <1>5 DEF Substituted, s

(* The first of the candidates that is one. *)
LEMMA FirstCandidate ==
  ASSUME NEW tail, NEW a, NEW b, NEW c,
         Candidates(Value("input_filename_base", tail), Value("filename_format", tail),
                    Value("output_filename_format", tail)) = <<a, b, c>>
  PROVE  ExtractFilename(tail) = IF a # <<>> THEN WithSuffix(a)
                                 ELSE IF b # <<>> THEN WithSuffix(b)
                                 ELSE IF c # <<>> THEN WithSuffix(c) ELSE <<>>
<1> DEFINE names == <<a, b, c>>
           known == {i \in DOMAIN names : names[i] # <<>>}
           best == CHOOSE i \in known : \A j \in known : i <= j
<1>1. DOMAIN names = {1, 2, 3} /\ names[1] = a /\ names[2] = b /\ names[3] = c
  OBVIOUS
<1>2. known = {i \in {1, 2, 3} : names[i] # <<>>}
  BY <1>1
<1> HIDE DEF names
<1>3. ExtractFilename(tail) = IF known = {} THEN <<>> ELSE WithSuffix(names[best])
  BY DEF ExtractFilename, names
<1>4. known # {} => best \in known /\ \A j \in known : best <= j
  <2> HIDE DEF known
  <2> SUFFICES ASSUME known # {} PROVE \E i \in known : \A j \in known : i <= j
    OBVIOUS
  <2>1. known \subseteq Nat
    BY <1>2
  <2> QED BY <2>1, Least
<1> HIDE DEF best, known
<1>5. CASE a # <<>>
  <2>1. 1 \in known /\ known \subseteq {1, 2, 3}
    BY <1>1, <1>2, <1>5
  <2>2. best = 1
    <3>1. best \in {1, 2, 3} /\ best <= 1
      BY <1>4, <2>1
    <3> QED BY <3>1
  <2> QED BY <1>1, <1>3, <1>5, <2>1, <2>2
<1>6. CASE a = <<>> /\ b # <<>>
  <2>1. 2 \in known /\ known \subseteq {2, 3}
    BY <1>1, <1>2, <1>6
  <2>2. best = 2
    <3>1. best \in {2, 3} /\ best <= 2
      BY <1>4, <2>1
    <3> QED BY <3>1
  <2> QED BY <1>1, <1>3, <1>6, <2>1, <2>2
<1>7. CASE a = <<>> /\ b = <<>> /\ c # <<>>
  <2>1. known = {3}
    BY <1>1, <1>2, <1>7
  <2>2. best = 3
    BY <1>4, <2>1
  <2> QED BY <1>1, <1>3, <1>7, <2>1, <2>2
<1>8. CASE a = <<>> /\ b = <<>> /\ c = <<>>
  <2>1. known = {}
    BY <1>1, <1>2, <1>8
  <2> QED BY <1>3, <1>8, <2>1
<1> QED BY <1>5, <1>6, <1>7, <1>8

LEMMA FirstValue ==
  ASSUME file \in Seq(NamedLine), NEW key,
         \A i \in DOMAIN file : file[i].key = key => file[i].value # <<>>
  PROVE  \/ FirstValues(key) = {} /\ Value(key, Tail64) = <<>>
         \/ Value(key, Tail64) \in Words /\ FirstValues(key) = {Value(key, Tail64)}
<1> DEFINE n == Len(Tail64)
           first == Len(file) - n
           at == {i \in DOMAIN Tail64 : Tail64[i].key = key}
           least == CHOOSE i \in at : \A j \in at : i <= j
<1>1. /\ Tail64 \in Seq(NamedLine) /\ n \in Nat /\ first \in Nat
      /\ \A i \in 1 .. n : Tail64[i] = file[first + i]
      /\ InReach(key) = {first + i : i \in {j \in 1 .. n : Tail64[j].key = key}}
  BY TailLines
<1>2. DOMAIN Tail64 = 1 .. n
  BY <1>1
<1> HIDE DEF n, first
<1>3. InReach(key) = {first + i : i \in at} /\ at \subseteq 1 .. n
  BY <1>1, <1>2
<1>4. CASE at = {}
  <2>1. Value(key, Tail64) = <<>>
    BY <1>4 DEF Value
  <2>2. FirstValues(key) = {}
    BY <1>3, <1>4 DEF FirstValues
  <2> QED BY <2>1, <2>2
<1>5. CASE at # {}
  <2>1. least \in at /\ \A j \in at : least <= j
    <3>1. at \subseteq Nat
      BY <1>1, <1>3
    <3> HIDE DEF at
    <3>2. \E i \in at : \A j \in at : i <= j
      BY <1>5, <3>1, Least
    <3> QED BY <3>2
  <2>2. Tail64[least] \in NamedLine /\ Tail64[least].key = key
    <3> HIDE DEF least
    <3> QED BY <1>1, <1>2, <2>1
  <2>3. Tail64[least].value # <<>> /\ Tail64[least] = file[first + least]
    <3> HIDE DEF least
    <3>1. least \in 1 .. n /\ Tail64[least] = file[first + least]
      BY <1>1, <1>2, <2>1
    <3>2. first + least \in DOMAIN file
      BY <1>1, <2>1, <1>3 DEF InReach
    <3> QED BY <2>2, <3>1, <3>2
  <2>4. Value(key, Tail64) = Tail64[least].value
    BY <1>5, <2>3 DEF Value
  <2> HIDE DEF least
  <2>5. FirstValues(key) = {file[first + least].value}
    <3>1. first + least \in InReach(key) /\ least \in 1 .. n
      BY <1>3, <2>1
    <3>2. \A j \in InReach(key) : j \in Nat /\ first + least <= j
      <4> TAKE j \in InReach(key)
      <4>1. PICK i \in at : j = first + i
        BY <1>3
      <4>2. i \in 1 .. n /\ least <= i
        BY <1>3, <2>1
      <4> HIDE DEF at
      <4> QED BY <1>1, <3>1, <4>1, <4>2
    <3>3. {j \in InReach(key) : \A k \in InReach(key) : j <= k} = {first + least}
      <4>1. first + least \in Nat
        BY <1>1, <3>1
      <4>2. ASSUME NEW j \in InReach(key), \A k \in InReach(key) : j <= k PROVE j = first + least
        <5>1. j <= first + least /\ first + least <= j /\ j \in Nat
          BY <3>1, <3>2, <4>2
        <5> QED BY <4>1, <5>1
      <4> QED BY <3>1, <3>2, <4>2
    <3> QED BY <3>3 DEF FirstValues
  <2>6. Tail64[least].value \in Words
    BY <2>2, <2>3 DEF NamedLine, Words
  <2> QED BY <2>3, <2>4, <2>5, <2>6
<1> QED BY <1>4, <1>5

LEMMA WithSuffixWords ==
  ASSUME NEW name \in Words
  PROVE  WithSuffix(name) # <<>>
<1>1. Append(name, ".gcode") # <<>>
  <2> DEFINE Letters == STRING \cup {".gcode"}
  <2>1. name \in Seq(Letters) /\ ".gcode" \in Letters
    BY DEF Words
  <2> HIDE DEF Letters
  <2>2. Append(name, ".gcode") \in Seq(Letters) /\ Len(Append(name, ".gcode")) = Len(name) + 1
    BY <2>1
  <2> QED BY <2>1, <2>2
<1> QED BY <1>1 DEF WithSuffix, Words

(* README.md:321, gcode_parser.py:113-155, storage.py:82-88: a file of any *)
(* lines, none of whose settings is empty, is archived under the name that *)
(* the best of its settings give, or under the hint if they give none.     *)
THEOREM NameFromBestSetting ==
  ASSUME file \in Seq(NamedLine), hint \in Seq(STRING),
         \A i \in DOMAIN file : file[i].key \in NameKeys => file[i].value # <<>>
  PROVE  NameAsEmbedded
<1> DEFINE base == Value("input_filename_base", Tail64)
           format == Value("filename_format", Tail64)
           output == Value("output_filename_format", Tail64)
           bases == FirstValues("input_filename_base")
           formats == FirstValues("filename_format")
           outputFormats == FirstValues("output_filename_format")
           closed == {f \in formats : ~HasVariable(f)}
           outputs == {f \in outputFormats : ~HasVariable(f)}
           first == IF base = <<>> \/ format = <<>> THEN base ELSE Substituted(format, base)
           name == ExtractFilename(Tail64)
<1>1. /\ (bases = {} /\ base = <<>>) \/ (base \in Words /\ bases = {base})
      /\ (formats = {} /\ format = <<>>) \/ (format \in Words /\ formats = {format})
      /\ (outputFormats = {} /\ output = <<>>) \/ (output \in Words /\ outputFormats = {output})
  BY FirstValue DEF NameKeys
<1>2. name = IF first # <<>> THEN WithSuffix(first)
             ELSE IF Closed(format) # <<>> THEN WithSuffix(Closed(format))
             ELSE IF Closed(output) # <<>> THEN WithSuffix(Closed(output)) ELSE <<>>
  <2>1. Candidates(base, format, output) = <<first, Closed(format), Closed(output)>>
    BY DEF Candidates
  <2> HIDE DEF first
  <2> QED BY <2>1, FirstCandidate
<1>3. ArchivedName = IF name = <<>> /\ hint # <<>> THEN WithSuffix(hint) ELSE name
  BY DEF ArchivedName
<1>4. \A w \in Words : w # <<>> /\ WithSuffix(w) # <<>>
  BY WithSuffixWords DEF Words
<1>5. BestNames = IF bases # {} /\ formats # {}
                  THEN {Substituted(f, b) : f \in formats, b \in bases}
                  ELSE IF bases # {} THEN bases
                  ELSE IF closed # {} THEN closed
                  ELSE IF outputs # {} THEN outputs ELSE {hint} \ {<<>>}
  BY DEF BestNames
<1> DEFINE Named == ArchivedName \in IF BestNames = {} THEN {<<>>}
                                    ELSE {WithSuffix(n) : n \in BestNames}
<1> SUFFICES Named
  BY DEF NameAsEmbedded
<1> HIDE DEF base, format, output, bases, formats, outputFormats, name
<1>6. ASSUME NEW n, BestNames = {n}, ArchivedName = WithSuffix(n) PROVE Named
  BY <1>6
<1>7. ASSUME BestNames = {hint} \ {<<>>},
             ArchivedName = IF hint # <<>> THEN WithSuffix(hint) ELSE <<>>
      PROVE  Named
  <2>1. CASE hint = <<>>
    BY <1>7, <2>1
  <2>2. CASE hint # <<>>
    BY <1>7, <2>2
  <2> QED BY <2>1, <2>2
<1> HIDE DEF Named
<1>8. CASE base # <<>> /\ format # <<>>
  <2>1. Substituted(format, base) \in Words
    BY <1>1, <1>8, SubstitutedWords
  <2>2. BestNames = {Substituted(format, base)}
    BY <1>1, <1>5, <1>8
  <2>3. ArchivedName = WithSuffix(Substituted(format, base))
    BY <1>2, <1>3, <1>4, <1>8, <2>1
  <2> QED BY <1>6, <2>2, <2>3
<1>9. CASE base # <<>> /\ format = <<>>
  <2>1. BestNames = {base}
    BY <1>1, <1>4, <1>5, <1>9
  <2>2. ArchivedName = WithSuffix(base)
    BY <1>1, <1>2, <1>3, <1>4, <1>9
  <2> QED BY <1>6, <2>1, <2>2
<1>10. CASE base = <<>>
  <2>1. bases = {} /\ first = <<>>
    BY <1>1, <1>4, <1>10
  <2>2. /\ closed = IF Closed(format) = <<>> THEN {} ELSE {Closed(format)}
        /\ Closed(format) \in Words \cup {<<>>}
    <3>1. CASE format = <<>>
      BY <1>1, <1>4, <3>1 DEF Closed
    <3>2. CASE format # <<>>
      BY <1>1, <3>2 DEF Closed
    <3> QED BY <3>1, <3>2
  <2>3. /\ outputs = IF Closed(output) = <<>> THEN {} ELSE {Closed(output)}
        /\ Closed(output) \in Words \cup {<<>>}
    <3>1. CASE output = <<>>
      BY <1>1, <1>4, <3>1 DEF Closed
    <3>2. CASE output # <<>>
      BY <1>1, <3>2 DEF Closed
    <3> QED BY <3>1, <3>2
  <2>4. CASE Closed(format) # <<>>
    <3>1. BestNames = {Closed(format)}
      <4>1. closed = {Closed(format)} /\ closed # {}
        BY <2>2, <2>4
      <4> HIDE DEF closed, outputs, first
      <4> QED BY <1>5, <2>1, <4>1
    <3>2. ArchivedName = WithSuffix(Closed(format))
      BY <1>2, <1>3, <1>4, <2>1, <2>2, <2>4
    <3> QED BY <1>6, <3>1, <3>2
  <2>5. CASE Closed(format) = <<>> /\ Closed(output) # <<>>
    <3>1. BestNames = {Closed(output)}
      BY <1>5, <2>1, <2>2, <2>3, <2>5
    <3>2. ArchivedName = WithSuffix(Closed(output))
      BY <1>2, <1>3, <1>4, <2>1, <2>3, <2>5
    <3> QED BY <1>6, <3>1, <3>2
  <2>6. CASE Closed(format) = <<>> /\ Closed(output) = <<>>
    <3>1. BestNames = {hint} \ {<<>>}
      BY <1>5, <2>1, <2>2, <2>3, <2>6
    <3>2. ArchivedName = IF hint # <<>> THEN WithSuffix(hint) ELSE <<>>
      BY <1>2, <1>3, <2>1, <2>6
    <3> QED BY <1>7, <3>1, <3>2
  <2> QED BY <2>4, <2>5, <2>6
<1> QED BY <1>8, <1>9, <1>10

-----------------------------------------------------------------------------
(* UploadForm: a chunk comes out of the form that carries it.              *)

(* Parts(body) is the function its definition says. *)
LEMMA PartsDef ==
  ASSUME NEW W, NEW body \in Seq(W)
  PROVE  Parts(body) = [n \in 0 .. Len(body) |->
                          IF n = 0 THEN << <<>> >> ELSE WithWord(Parts(body)[n - 1], body[n])]
<1> DEFINE Step(f, n) == IF n = 0 THEN << <<>> >> ELSE WithWord(f[n - 1], body[n])
           Upto(n) == \E f : f = [k \in 0 .. n |-> Step(f, k)]
           Missing == {n \in 0 .. Len(body) : ~ Upto(n)}
<1>1. Upto(0)
  <2> DEFINE f == [k \in 0 .. 0 |-> << <<>> >>]
  <2>1. f = [k \in 0 .. 0 |-> Step(f, k)]
    OBVIOUS
  <2> QED BY <2>1
<1>2. ASSUME NEW n \in 0 .. Len(body), n # 0, Upto(n - 1) PROVE Upto(n)
  <2>1. PICK f : f = [k \in 0 .. n - 1 |-> Step(f, k)]
    BY <1>2
  <2> DEFINE g == [k \in 0 .. n |-> IF k = n THEN Step(f, n) ELSE f[k]]
  <2>2. \A k \in 0 .. n : g[k] = Step(g, k)
    <3> TAKE k \in 0 .. n
    <3>1. k # 0 => g[k - 1] = f[k - 1]
      OBVIOUS
    <3>2. Step(g, k) = Step(f, k)
      BY <3>1
    <3>3. k # n => f[k] = Step(f, k)
      <4> HIDE DEF Step
      <4> QED BY <2>1
    <3> QED BY <3>2, <3>3
  <2>3. g = [k \in 0 .. n |-> Step(g, k)]
    <3> HIDE DEF Step
    <3>1. g = [k \in 0 .. n |-> g[k]]
      OBVIOUS
    <3> HIDE DEF g
    <3> QED BY <2>2, <3>1
  <2> QED BY <2>3
<1>3. Missing = {}
  <2> SUFFICES ASSUME Missing # {} PROVE FALSE
    OBVIOUS
  <2> HIDE DEF Upto
  <2>0. Missing \subseteq Nat
    OBVIOUS
  <2>1. PICK n \in Missing : \A k \in Missing : n <= k
    <3> HIDE DEF Missing
    <3> QED BY <2>0, Least
  <2>2. n # 0 /\ n - 1 \in 0 .. Len(body) /\ n - 1 \notin Missing
    BY <1>1, <2>1
  <2> QED BY <1>2, <2>2
<1>4. Upto(Len(body))
  <2> HIDE DEF Upto
  <2> QED BY <1>3
<1> QED BY <1>4 DEF Parts

(* A word that is no boundary lengthens the last part. *)
LEMMA WordJoinsLast ==
  ASSUME NEW W, NEW parts \in Seq(Seq(W)), NEW part \in Seq(W), NEW word \in W, word # "--b"
  PROVE  WithWord(Append(parts, part), word) = Append(parts, Append(part, word))
<1> DEFINE all == Append(parts, part)
<1>1. /\ all \in Seq(Seq(W)) /\ Len(all) = Len(parts) + 1 /\ Len(parts) \in Nat
      /\ \A i \in 1 .. Len(parts) : all[i] = parts[i]
      /\ all[Len(parts) + 1] = part
  BY AppendProperties
<1> HIDE DEF all
<1>2. Last(all) = part
  BY <1>1 DEF Last
<1>3. Front(all) = parts
  <2>1. Front(all) = SubSeq(all, 1, Len(parts))
    BY <1>1 DEF Front
  <2>2. /\ SubSeq(all, 1, Len(parts)) \in Seq(Seq(W))
        /\ Len(SubSeq(all, 1, Len(parts))) = Len(parts)
        /\ \A i \in 1 .. Len(parts) : SubSeq(all, 1, Len(parts))[i] = all[i]
    BY <1>1
  <2> QED BY <1>1, <2>1, <2>2, SeqEqual
<1> QED BY <1>2, <1>3 DEF WithWord, all

(* What lies behind a boundary, up to the next one, is a part of its own. *)
LEMMA PartBehindBoundary ==
  ASSUME NEW W, NEW body \in Seq(W), NEW n \in 1 .. Len(body), body[n] = "--b",
         Parts(body)[n - 1] \in Seq(Seq(W)),
         NEW m \in n .. Len(body), \A k \in n + 1 .. m : body[k] # "--b"
  PROVE  Parts(body)[m] = Append(Parts(body)[n - 1], SubSeq(body, n + 1, m))
<1> DEFINE before == Parts(body)[n - 1]
           Right(k) == Parts(body)[k] = Append(before, SubSeq(body, n + 1, k))
           Wrong == {k \in n .. m : ~ Right(k)}
<1>1. \A k \in 1 .. Len(body) : Parts(body)[k] = WithWord(Parts(body)[k - 1], body[k])
  <2> TAKE k \in 1 .. Len(body)
  <2>1. k \in 0 .. Len(body) /\ k # 0
    OBVIOUS
  <2> QED BY <2>1, PartsDef
<1>2. Right(n)
  <2>1. SubSeq(body, n + 1, n) = <<>>
    BY SubSeqEmpty
  <2>2. Parts(body)[n] = Append(before, <<>>)
    BY <1>1 DEF WithWord
  <2> QED BY <2>1, <2>2
<1>3. ASSUME NEW k \in n .. m, k # n, Right(k - 1) PROVE Right(k)
  <2> DEFINE part == SubSeq(body, n + 1, k - 1)
  <2>1. /\ n + 1 \in 1 .. Len(body) /\ k \in n + 1 .. Len(body) /\ k \in 1 .. Len(body)
        /\ \A i \in n + 1 .. k - 1 : body[i] \in W
        /\ body[k] # "--b" /\ body[k] \in W
    BY <1>3
  <2>2. part \in Seq(W) /\ SubSeq(body, n + 1, k) = Append(part, body[k])
    <3>1. part \in Seq(W)
      BY <2>1, SubSeqProperties
    <3>2. SubSeq(body, n + 1, k) = part \o <<body[k]>>
      BY <2>1, SubSeqRecursiveSecond
    <3> QED BY <2>1, <3>1, <3>2, AppendIsConcat
  <2>3. Parts(body)[k] = WithWord(Append(before, part), body[k])
    BY <1>1, <1>3, <2>1
  <2> HIDE DEF part, before
  <2>4. WithWord(Append(before, part), body[k]) = Append(before, Append(part, body[k]))
    <3>1. before \in Seq(Seq(W))
      BY DEF before
    <3> DEFINE word == body[k]
    <3>2. part \in Seq(W) /\ word \in W /\ word # "--b"
      BY <2>1, <2>2
    <3> HIDE DEF word
    <3>3. WithWord(Append(before, part), word) = Append(before, Append(part, word))
      BY <3>1, <3>2, WordJoinsLast
    <3> QED BY <3>3 DEF word
  <2> QED BY <2>2, <2>3, <2>4
<1> HIDE DEF Right
<1>4. Wrong = {}
  <2> SUFFICES ASSUME Wrong # {} PROVE FALSE
    OBVIOUS
  <2>1. Wrong \subseteq Nat
    OBVIOUS
  <2>2. PICK k \in Wrong : \A j \in Wrong : k <= j
    <3> HIDE DEF Wrong
    <3> QED BY <2>1, Least
  <2>3. k # n /\ k - 1 \in n .. m /\ k - 1 \notin Wrong
    BY <1>2, <2>2
  <2> QED BY <1>3, <2>2, <2>3
<1>5. Right(m)
  BY <1>4
<1> QED BY <1>5 DEF Right

(* The words of two sequences, one behind the other. *)
LEMMA WordsBehind ==
  ASSUME NEW S, NEW s \in Seq(S), NEW t \in Seq(S), NEW both, both = s \o t,
         NEW m, m = Len(s), NEW n, n = Len(t)
  PROVE  /\ both \in Seq(S) /\ Len(both) = m + n /\ m \in Nat /\ n \in Nat
         /\ \A i \in 1 .. m : both[i] = s[i]
         /\ \A i \in 1 .. n : both[m + i] = t[i]
<1>1. /\ s \o t \in Seq(S) /\ Len(s \o t) = m + n /\ m \in Nat /\ n \in Nat
      /\ \A i \in 1 .. m + n : (s \o t)[i] = IF i <= m THEN s[i] ELSE t[i - m]
  BY ConcatProperties
<1>2. \A i \in 1 .. m : both[i] = s[i]
  BY <1>1
<1>3. \A i \in 1 .. n : both[m + i] = t[i]
  <2> TAKE i \in 1 .. n
  <2>1. m + i \in 1 .. m + n /\ ~ (m + i <= m) /\ (m + i) - m = i
    BY <1>1
  <2> QED BY <1>1, <2>1
<1> QED BY <1>1, <1>2, <1>3

(* The words of a field. *)
HasWords(field, name, content, L) ==
  /\ Len(field) = L + 6 /\ L \in Nat
  /\ field[1] = "--b" /\ field[2] = "CRLF" /\ field[3] = name
  /\ field[4] = "CRLF" /\ field[5] = "CRLF" /\ field[L + 6] = "CRLF"
  /\ \A i \in 1 .. L : field[5 + i] = content[i]

LEMMA FieldWords ==
  ASSUME NEW W, "--b" \in W, "CRLF" \in W, NEW name \in W, NEW content \in Seq(W),
         NEW field, field = Field(name, content), NEW L, L = Len(content)
  PROVE  field \in Seq(W) /\ HasWords(field, name, content, L)
<1> DEFINE header == <<"--b", "CRLF", name, "CRLF", "CRLF">>
           end == <<"CRLF">>
           both == header \o content
<1>1. /\ header \in Seq(W) /\ Len(header) = 5
      /\ header[1] = "--b" /\ header[2] = "CRLF" /\ header[3] = name
      /\ header[4] = "CRLF" /\ header[5] = "CRLF"
  OBVIOUS
<1>2. end \in Seq(W) /\ Len(end) = 1 /\ end[1] = "CRLF"
  OBVIOUS
<1>3. field = both \o end
  BY DEF Field
<1> HIDE DEF header, end
<1>4. /\ both \in Seq(W) /\ Len(both) = 5 + L /\ L \in Nat
      /\ \A i \in 1 .. 5 : both[i] = header[i]
      /\ \A i \in 1 .. L : both[5 + i] = content[i]
  <2>1. header \in Seq(W)
    BY <1>1
  <2>2. /\ both \in Seq(W) /\ Len(both) = Len(header) + L /\ L \in Nat
        /\ \A i \in 1 .. Len(header) : both[i] = header[i]
        /\ \A i \in 1 .. L : both[Len(header) + i] = content[i]
    BY <2>1, WordsBehind
  <2> HIDE DEF both
  <2> QED BY <1>1, <2>2
<1> HIDE DEF both
<1>5. /\ field \in Seq(W) /\ Len(field) = 5 + L + 1
      /\ \A i \in 1 .. 5 + L : field[i] = both[i]
      /\ \A i \in 1 .. 1 : field[5 + L + i] = end[i]
  <2>1. both \in Seq(W) /\ end \in Seq(W)
    BY <1>2, <1>4
  <2>2. /\ field \in Seq(W) /\ Len(field) = Len(both) + Len(end)
        /\ \A i \in 1 .. Len(both) : field[i] = both[i]
        /\ \A i \in 1 .. Len(end) : field[Len(both) + i] = end[i]
    BY <1>3, <2>1, WordsBehind
  <2> QED BY <1>2, <1>4, <2>2
<1>6. \A i \in 1 .. L : field[5 + i] = content[i]
  <2> TAKE i \in 1 .. L
  <2>1. 5 + i \in 1 .. 5 + L
    BY <1>4
  <2> QED BY <1>4, <1>5, <2>1
<1>7. \A i \in 1 .. 5 : field[i] = header[i]
  BY <1>4, <1>5
<1>8. field[L + 6] = "CRLF" /\ Len(field) = L + 6
  <2>1. 5 + L + 1 = L + 6
    BY <1>4
  <2> QED BY <1>2, <1>5, <2>1
<1>9. 1 \in 1 .. 5 /\ 2 \in 1 .. 5 /\ 3 \in 1 .. 5 /\ 4 \in 1 .. 5 /\ 5 \in 1 .. 5
  OBVIOUS
<1> QED BY <1>1, <1>4, <1>5, <1>6, <1>7, <1>8, <1>9 DEF HasWords

(* A field between two boundaries: its name and its content, to the last word. *)
Gives(part, name, content) ==
  ~ Skipped(part) /\ NameOf(part) = {name} /\ Content(part) = content

LEMMA PartOfField ==
  ASSUME NEW W, NEW content \in Seq(W), NEW name, name # "CRLF", NEW L, L = Len(content),
         NEW part \in Seq(W), Len(part) = L + 5,
         part[1] = "CRLF", part[2] = name, part[3] = "CRLF", part[4] = "CRLF",
         part[L + 5] = "CRLF", \A i \in 1 .. L : part[4 + i] = content[i]
  PROVE  Gives(part, name, content)
<1>1. L \in Nat
  OBVIOUS
<1>2. 3 \in Blank(part) /\ \A i \in Blank(part) : 3 <= i /\ i \in Nat
  BY <1>1 DEF Blank
<1>3. HeaderEnd(part) = 3
  BY <1>2 DEF HeaderEnd
<1>4. ~ Skipped(part)
  <2>1. part # <<>> /\ part # <<"--">> /\ part # <<"--", "CRLF">>
    BY <1>1
  <2> QED BY <1>2, <2>1 DEF Skipped
<1>5. NameOf(part) = {name}
  BY <1>3 DEF NameOf
<1>6. Content(part) = content
  <2> DEFINE behind == SubSeq(part, 5, L + 5)
  <2>1. /\ behind \in Seq(W) /\ Len(behind) = L + 1
        /\ \A i \in 1 .. L + 1 : behind[i] = part[4 + i]
    <3>1. \A i \in 5 .. L + 5 : part[i] \in W
      BY <1>1
    <3> QED BY <1>1, <3>1, SubSeqProperties
  <2>2. Content(part) = WithoutLineEnd(behind)
    BY <1>3 DEF Content
  <2> HIDE DEF behind
  <2>3. behind # <<>> /\ Last(behind) = "CRLF"
    BY <1>1, <2>1 DEF Last
  <2>4. /\ Front(behind) \in Seq(W) /\ Len(Front(behind)) = L
        /\ \A i \in 1 .. L : Front(behind)[i] = behind[i]
    <3>1. Front(behind) = SubSeq(behind, 1, L)
      BY <1>1, <2>1 DEF Front
    <3>2. \A i \in 1 .. L : behind[i] \in W
      BY <1>1, <2>1
    <3> QED BY <1>1, <3>1, <3>2, SubSeqProperties
  <2>5. Front(behind) = content
    <3>1. \A i \in 1 .. L : Front(behind)[i] = content[i]
      <4> TAKE i \in 1 .. L
      <4>1. i \in 1 .. L + 1
        BY <1>1
      <4> QED BY <2>1, <2>4, <4>1
    <3> QED BY <2>4, <3>1, SeqEqual
  <2> QED BY <2>2, <2>3, <2>5 DEF WithoutLineEnd
<1> QED BY <1>4, <1>5, <1>6 DEF Gives

(* A field with a single word. *)
LEMMA ShortField ==
  ASSUME NEW W, "--b" \in W, "CRLF" \in W, NEW name \in W, NEW word \in W,
         NEW field, field = Field(name, <<word>>)
  PROVE  /\ field \in Seq(W) /\ Len(field) = 7
         /\ field[1] = "--b" /\ field[2] = "CRLF" /\ field[3] = name
         /\ field[4] = "CRLF" /\ field[5] = "CRLF" /\ field[6] = word /\ field[7] = "CRLF"
<1> DEFINE content == <<word>>
           n == Len(content)
<1>1. content \in Seq(W) /\ n = 1 /\ content[1] = word
  OBVIOUS
<1>2. content \in Seq(W) /\ n = Len(content) /\ field = Field(name, content)
  BY <1>1
<1> HIDE DEF content, n
<1>3. field \in Seq(W) /\ HasWords(field, name, content, n)
  BY <1>2, FieldWords
<1>4. field[5 + 1] = content[1]
  BY <1>1, <1>3 DEF HasWords
<1> QED BY <1>1, <1>3, <1>4 DEF HasWords

(* The words of the form. *)
UuidWords(body) ==
  /\ body[1] = "--b" /\ body[2] = "CRLF" /\ body[3] = "Uuid" /\ body[4] = "CRLF"
  /\ body[5] = "CRLF" /\ body[6] = "u" /\ body[7] = "CRLF"

OffsetWords(body) ==
  /\ body[8] = "--b" /\ body[9] = "CRLF" /\ body[10] = "Offset" /\ body[11] = "CRLF"
  /\ body[12] = "CRLF" /\ body[13] = "0" /\ body[14] = "CRLF"

FileWords(body, L) ==
  /\ body[15] = "--b" /\ body[16] = "CRLF" /\ body[17] = "File" /\ body[18] = "CRLF"
  /\ body[19] = "CRLF" /\ body[L + 20] = "CRLF"
  /\ \A i \in 1 .. L : body[19 + i] = data[i]

LastWords(body, L) == body[L + 21] = "--b" /\ body[L + 22] = "--" /\ body[L + 23] = "CRLF"

FormWords(body, L) ==
  UuidWords(body) /\ OffsetWords(body) /\ FileWords(body, L) /\ LastWords(body, L)

LEMMA WordsOfForm ==
  ASSUME NEW W, {"--b", "CRLF", "--", "Uuid", "Offset", "File", "u", "0"} \subseteq W,
         data \in Seq(W), NEW L, L = Len(data)
  PROVE  Form \in Seq(W) /\ Len(Form) = L + 23 /\ L \in Nat /\ FormWords(Form, L)
<1> DEFINE one == Field("Uuid", <<"u">>)
           two == Field("Offset", <<"0">>)
           three == Field("File", data)
           end == <<"--b", "--", "CRLF">>
           onetwo == one \o two
           fields == onetwo \o three
<1>1. /\ "--b" \in W /\ "CRLF" \in W /\ "--" \in W
      /\ "Uuid" \in W /\ "Offset" \in W /\ "File" \in W
      /\ "u" \in W /\ "0" \in W
  OBVIOUS
<1>2. /\ end \in Seq(W) /\ Len(end) = 3 /\ end[1] = "--b" /\ end[2] = "--" /\ end[3] = "CRLF"
  OBVIOUS
<1>3. Form = fields \o end
  BY DEF Form
<1>4. /\ one \in Seq(W) /\ Len(one) = 7
      /\ one[1] = "--b" /\ one[2] = "CRLF" /\ one[3] = "Uuid" /\ one[4] = "CRLF"
      /\ one[5] = "CRLF" /\ one[6] = "u" /\ one[7] = "CRLF"
  <2> DEFINE name == "Uuid"
             word == "u"
  <2>1. name \in W /\ word \in W /\ one = Field(name, <<word>>)
    BY <1>1
  <2> HIDE DEF name, word, one
  <2>2. /\ one \in Seq(W) /\ Len(one) = 7
        /\ one[1] = "--b" /\ one[2] = "CRLF" /\ one[3] = name /\ one[4] = "CRLF"
        /\ one[5] = "CRLF" /\ one[6] = word /\ one[7] = "CRLF"
    BY <1>1, <2>1, ShortField
  <2> QED BY <2>2 DEF name, word
<1>5. /\ two \in Seq(W) /\ Len(two) = 7
      /\ two[1] = "--b" /\ two[2] = "CRLF" /\ two[3] = "Offset" /\ two[4] = "CRLF"
      /\ two[5] = "CRLF" /\ two[6] = "0" /\ two[7] = "CRLF"
  <2> DEFINE name == "Offset"
             word == "0"
  <2>1. name \in W /\ word \in W /\ two = Field(name, <<word>>)
    BY <1>1
  <2> HIDE DEF name, word, two
  <2>2. /\ two \in Seq(W) /\ Len(two) = 7
        /\ two[1] = "--b" /\ two[2] = "CRLF" /\ two[3] = name /\ two[4] = "CRLF"
        /\ two[5] = "CRLF" /\ two[6] = word /\ two[7] = "CRLF"
    BY <1>1, <2>1, ShortField
  <2> QED BY <2>2 DEF name, word
<1>6. /\ three \in Seq(W) /\ Len(three) = L + 6 /\ L \in Nat
      /\ three[1] = "--b" /\ three[2] = "CRLF" /\ three[3] = "File" /\ three[4] = "CRLF"
      /\ three[5] = "CRLF" /\ three[L + 6] = "CRLF"
      /\ \A i \in 1 .. L : three[5 + i] = data[i]
  <2> DEFINE name == "File"
  <2>1. name \in W /\ three = Field(name, data) /\ name = "File"
    BY <1>1
  <2> HIDE DEF name, three
  <2>2. three \in Seq(W) /\ HasWords(three, name, data, L)
    BY <1>1, <2>1, FieldWords
  <2> QED BY <2>1, <2>2 DEF HasWords
<1> HIDE DEF one, two, three, end
<1>7. /\ onetwo \in Seq(W) /\ Len(onetwo) = 14
      /\ \A i \in 1 .. 7 : onetwo[i] = one[i]
      /\ \A i \in 1 .. 7 : onetwo[7 + i] = two[i]
  <2>1. one \in Seq(W) /\ two \in Seq(W)
    BY <1>4, <1>5
  <2>2. /\ onetwo \in Seq(W) /\ Len(onetwo) = Len(one) + Len(two)
        /\ \A i \in 1 .. Len(one) : onetwo[i] = one[i]
        /\ \A i \in 1 .. Len(two) : onetwo[Len(one) + i] = two[i]
    BY <2>1, WordsBehind
  <2> HIDE DEF onetwo
  <2> QED BY <1>4, <1>5, <2>2
<1> HIDE DEF onetwo
<1>8. /\ fields \in Seq(W) /\ Len(fields) = 14 + (L + 6)
      /\ \A i \in 1 .. 14 : fields[i] = onetwo[i]
      /\ \A i \in 1 .. L + 6 : fields[14 + i] = three[i]
  <2>1. onetwo \in Seq(W) /\ three \in Seq(W)
    BY <1>6, <1>7
  <2>2. /\ fields \in Seq(W) /\ Len(fields) = Len(onetwo) + Len(three)
        /\ \A i \in 1 .. Len(onetwo) : fields[i] = onetwo[i]
        /\ \A i \in 1 .. Len(three) : fields[Len(onetwo) + i] = three[i]
    BY <2>1, WordsBehind
  <2> HIDE DEF fields
  <2> QED BY <1>6, <1>7, <2>2
<1> HIDE DEF fields
<1>9. /\ Form \in Seq(W) /\ Len(Form) = (14 + (L + 6)) + 3
      /\ \A i \in 1 .. 14 + (L + 6) : Form[i] = fields[i]
      /\ \A i \in 1 .. 3 : Form[(14 + (L + 6)) + i] = end[i]
  <2>1. fields \in Seq(W) /\ end \in Seq(W)
    BY <1>2, <1>8
  <2>2. /\ Form \in Seq(W) /\ Len(Form) = Len(fields) + Len(end)
        /\ \A i \in 1 .. Len(fields) : Form[i] = fields[i]
        /\ \A i \in 1 .. Len(end) : Form[Len(fields) + i] = end[i]
    BY <1>3, <2>1, WordsBehind
  <2> QED BY <1>2, <1>6, <1>8, <2>2
<1>10. \A i \in 1 .. 7 : Form[i] = one[i] /\ Form[7 + i] = two[i]
  <2> TAKE i \in 1 .. 7
  <2>1. /\ i \in 1 .. 14 /\ i \in 1 .. 14 + (L + 6)
        /\ 7 + i \in 1 .. 14 /\ 7 + i \in 1 .. 14 + (L + 6)
    BY <1>6
  <2>2. fields[i] = one[i] /\ fields[7 + i] = two[i]
    BY <1>7, <1>8, <2>1
  <2> QED BY <1>9, <2>1, <2>2
<1>11. \A i \in 1 .. L + 6 : Form[14 + i] = three[i]
  <2> TAKE i \in 1 .. L + 6
  <2>1. 14 + i \in 1 .. 14 + (L + 6)
    BY <1>6
  <2> QED BY <1>8, <1>9, <2>1
<1>12. LastWords(Form, L)
  <2>1. /\ (14 + (L + 6)) + 1 = L + 21 /\ (14 + (L + 6)) + 2 = L + 22
        /\ (14 + (L + 6)) + 3 = L + 23
    BY <1>6
  <2> QED BY <1>2, <1>9, <2>1 DEF LastWords
<1>13. UuidWords(Form)
  BY <1>4, <1>10 DEF UuidWords
<1>14. OffsetWords(Form)
  <2>1. /\ Form[7 + 1] = two[1] /\ Form[7 + 2] = two[2] /\ Form[7 + 3] = two[3]
        /\ Form[7 + 4] = two[4] /\ Form[7 + 5] = two[5] /\ Form[7 + 6] = two[6]
        /\ Form[7 + 7] = two[7]
    BY <1>10
  <2> QED BY <1>5, <2>1 DEF OffsetWords
<1>15. FileWords(Form, L)
  <2>1. /\ Form[14 + 1] = three[1] /\ Form[14 + 2] = three[2] /\ Form[14 + 3] = three[3]
        /\ Form[14 + 4] = three[4] /\ Form[14 + 5] = three[5]
        /\ Form[14 + (L + 6)] = three[L + 6] /\ 14 + (L + 6) = L + 20
    BY <1>6, <1>11
  <2>2. \A i \in 1 .. L : Form[19 + i] = data[i]
    <3> TAKE i \in 1 .. L
    <3>1. 5 + i \in 1 .. L + 6 /\ 14 + (5 + i) = 19 + i
      BY <1>6
    <3> QED BY <1>6, <1>11, <3>1
  <2> QED BY <1>6, <2>1, <2>2 DEF FileWords
<1>16. Len(Form) = L + 23
  BY <1>6, <1>9
<1> QED BY <1>6, <1>9, <1>12, <1>13, <1>14, <1>15, <1>16 DEF FormWords

(* A field of a single word. *)
LEMMA PartOfShortField ==
  ASSUME NEW W, NEW word \in W, NEW name, name # "CRLF",
         NEW part \in Seq(W), Len(part) = 6,
         part[1] = "CRLF", part[2] = name, part[3] = "CRLF", part[4] = "CRLF",
         part[5] = word, part[6] = "CRLF"
  PROVE  Gives(part, name, <<word>>)
<1> DEFINE content == <<word>>
           n == Len(content)
<1>1. n = 1 /\ content[1] = word
  OBVIOUS
<1>2. content \in Seq(W) /\ n = Len(content)
  OBVIOUS
<1> HIDE DEF content, n
<1>3. /\ Len(part) = n + 5 /\ part[n + 5] = "CRLF"
      /\ \A i \in 1 .. n : part[4 + i] = content[i]
  BY <1>1
<1>4. Gives(part, name, content)
  BY <1>2, <1>3, PartOfField
<1> QED BY <1>4 DEF content

(* The words of body behind n and up to m are a part of it. *)
Between(body, n, m) == SubSeq(body, n + 1, m)

Repeats(W, part, body, n, d) ==
  part \in Seq(W) /\ Len(part) = d /\ \A i \in 1 .. d : part[i] = body[n + i]

LEMMA BetweenWords ==
  ASSUME NEW W, NEW body \in Seq(W), NEW n \in 1 .. Len(body), NEW m \in n .. Len(body),
         NEW d, d = m - n
  PROVE  Repeats(W, Between(body, n, m), body, n, d)
<1>1. \A i \in n + 1 .. m : body[i] \in W
  OBVIOUS
<1>2. /\ Between(body, n, m) \in Seq(W)
      /\ Len(Between(body, n, m)) = IF n + 1 <= m THEN m - (n + 1) + 1 ELSE 0
      /\ \A i \in 1 .. m - (n + 1) + 1 : Between(body, n, m)[i] = body[(n + 1) + i - 1]
  BY <1>1, SubSeqProperties DEF Between
<1>3. m - (n + 1) + 1 = m - n /\ \A i \in Int : (n + 1) + i - 1 = n + i
  OBVIOUS
<1> QED BY <1>2, <1>3 DEF Repeats

(* After the words up to m there is one part more than after those up to p. *)
Grown(W, body, p, n, m) ==
  /\ Parts(body)[m] \in Seq(Seq(W)) /\ Len(Parts(body)[m]) = Len(Parts(body)[p]) + 1
  /\ \A i \in 1 .. Len(Parts(body)[p]) : Parts(body)[m][i] = Parts(body)[p][i]
  /\ Parts(body)[m][Len(Parts(body)[p]) + 1] = Between(body, n, m)

LEMMA NextPart ==
  ASSUME NEW W, NEW body \in Seq(W), NEW n \in 1 .. Len(body), body[n] = "--b",
         NEW p, p = n - 1, Parts(body)[p] \in Seq(Seq(W)),
         NEW m \in n .. Len(body), \A k \in n + 1 .. m : body[k] # "--b"
  PROVE  Grown(W, body, p, n, m)
<1>1. Parts(body)[m] = Append(Parts(body)[p], Between(body, n, m))
  BY PartBehindBoundary DEF Between
<1>2. Between(body, n, m) \in Seq(W)
  BY BetweenWords DEF Repeats
<1> QED BY <1>1, <1>2, AppendProperties DEF Grown

(* The form's parts: an empty one, one for each field, and the rest. *)
FormParts(W, body, L) ==
  /\ Split(body) \in Seq(Seq(W)) /\ Len(Split(body)) = 5 /\ Split(body)[1] = <<>>
  /\ Split(body)[2] = Between(body, 1, 7)
  /\ Split(body)[3] = Between(body, 8, 14)
  /\ Split(body)[4] = Between(body, 15, L + 20)
  /\ Split(body)[5] = Between(body, L + 21, L + 23)

LEMMA PartsOfForm ==
  ASSUME NEW W, NEW body \in Seq(W), NEW L, L \in Nat, Len(body) = L + 23,
         FormWords(body, L), \A i \in 1 .. L : data[i] # "--b"
  PROVE  FormParts(W, body, L)
<1> DEFINE P(n) == Parts(body)[n]
<1>1. P(0) \in Seq(Seq(W)) /\ Len(P(0)) = 1 /\ P(0)[1] = <<>>
  <2>1. 0 \in 0 .. Len(body)
    OBVIOUS
  <2>2. P(0) = << <<>> >>
    BY <2>1, PartsDef
  <2> DEFINE nothing == <<>>
  <2>3. nothing \in Seq(W)
    OBVIOUS
  <2> HIDE DEF P, nothing
  <2>4. <<nothing>> \in Seq(Seq(W)) /\ Len(<<nothing>>) = 1 /\ <<nothing>>[1] = nothing
    BY <2>3
  <2> QED BY <2>2, <2>4 DEF nothing
<1>2. /\ P(7) \in Seq(Seq(W)) /\ Len(P(7)) = 2 /\ P(7)[1] = <<>>
      /\ P(7)[2] = Between(body, 1, 7)
  <2>1. /\ 1 \in 1 .. Len(body) /\ body[1] = "--b" /\ 0 = 1 - 1 /\ 7 \in 1 .. Len(body)
        /\ \A k \in 1 + 1 .. 7 : body[k] # "--b"
    <3>1. \A k \in 1 + 1 .. 7 : k = 2 \/ k = 3 \/ k = 4 \/ k = 5 \/ k = 6 \/ k = 7
      OBVIOUS
    <3>2. UuidWords(body)
      BY DEF FormWords
    <3> QED BY <3>1, <3>2 DEF UuidWords
  <2>2. Grown(W, body, 0, 1, 7)
    BY <1>1, <2>1, NextPart
  <2> QED BY <1>1, <2>2 DEF Grown
<1>3. /\ P(14) \in Seq(Seq(W)) /\ Len(P(14)) = 3 /\ P(14)[1] = <<>>
      /\ P(14)[2] = Between(body, 1, 7) /\ P(14)[3] = Between(body, 8, 14)
  <2>1. /\ 8 \in 1 .. Len(body) /\ body[8] = "--b" /\ 7 = 8 - 1 /\ 14 \in 8 .. Len(body)
        /\ \A k \in 8 + 1 .. 14 : body[k] # "--b"
    <3>1. \A k \in 8 + 1 .. 14 : k = 9 \/ k = 10 \/ k = 11 \/ k = 12 \/ k = 13 \/ k = 14
      OBVIOUS
    <3>2. OffsetWords(body)
      BY DEF FormWords
    <3> QED BY <3>1, <3>2 DEF OffsetWords
  <2>2. Grown(W, body, 7, 8, 14)
    BY <1>2, <2>1, NextPart
  <2>3. /\ P(14) \in Seq(Seq(W)) /\ Len(P(14)) = 2 + 1
        /\ \A i \in 1 .. 2 : P(14)[i] = P(7)[i]
        /\ P(14)[2 + 1] = Between(body, 8, 14)
    BY <1>2, <2>2 DEF Grown
  <2> HIDE DEF P
  <2> QED BY <1>2, <2>3
<1>4. /\ P(L + 20) \in Seq(Seq(W)) /\ Len(P(L + 20)) = 4 /\ P(L + 20)[1] = <<>>
      /\ P(L + 20)[2] = Between(body, 1, 7) /\ P(L + 20)[3] = Between(body, 8, 14)
      /\ P(L + 20)[4] = Between(body, 15, L + 20)
  <2>0. FileWords(body, L)
    BY DEF FormWords
  <2>1. \A k \in 15 + 1 .. L + 20 : body[k] # "--b"
    <3> TAKE k \in 15 + 1 .. L + 20
    <3>1. CASE k = 16 \/ k = 17 \/ k = 18 \/ k = 19 \/ k = L + 20
      BY <2>0, <3>1 DEF FileWords
    <3>2. CASE k \in 20 .. L + 19
      <4>1. k - 19 \in 1 .. L /\ 19 + (k - 19) = k
        BY <3>2
      <4>2. body[19 + (k - 19)] = data[k - 19]
        BY <2>0, <4>1 DEF FileWords
      <4> QED BY <4>1, <4>2
    <3> QED BY <3>1, <3>2
  <2>2. 15 \in 1 .. Len(body) /\ body[15] = "--b" /\ 14 = 15 - 1 /\ L + 20 \in 15 .. Len(body)
    BY <2>0 DEF FileWords
  <2>3. Grown(W, body, 14, 15, L + 20)
    BY <1>3, <2>1, <2>2, NextPart
  <2>4. /\ P(L + 20) \in Seq(Seq(W)) /\ Len(P(L + 20)) = 3 + 1
        /\ \A i \in 1 .. 3 : P(L + 20)[i] = P(14)[i]
        /\ P(L + 20)[3 + 1] = Between(body, 15, L + 20)
    BY <1>3, <2>3 DEF Grown
  <2> HIDE DEF P
  <2> QED BY <1>3, <2>4
<1>5. /\ P(L + 23) \in Seq(Seq(W)) /\ Len(P(L + 23)) = 5 /\ P(L + 23)[1] = <<>>
      /\ P(L + 23)[2] = Between(body, 1, 7) /\ P(L + 23)[3] = Between(body, 8, 14)
      /\ P(L + 23)[4] = Between(body, 15, L + 20)
      /\ P(L + 23)[5] = Between(body, L + 21, L + 23)
  <2>1. \A k \in (L + 21) + 1 .. L + 23 : body[k] # "--b"
    <3>1. \A k \in (L + 21) + 1 .. L + 23 : k = L + 22 \/ k = L + 23
      OBVIOUS
    <3> QED BY <3>1 DEF FormWords, LastWords
  <2>2. /\ L + 21 \in 1 .. Len(body) /\ body[L + 21] = "--b" /\ L + 20 = (L + 21) - 1
        /\ L + 23 \in L + 21 .. Len(body)
    BY DEF FormWords, LastWords
  <2>3. Grown(W, body, L + 20, L + 21, L + 23)
    BY <1>4, <2>1, <2>2, NextPart
  <2>4. /\ P(L + 23) \in Seq(Seq(W)) /\ Len(P(L + 23)) = 4 + 1
        /\ \A i \in 1 .. 4 : P(L + 23)[i] = P(L + 20)[i]
        /\ P(L + 23)[4 + 1] = Between(body, L + 21, L + 23)
    BY <1>4, <2>3 DEF Grown
  <2> HIDE DEF P
  <2> QED BY <1>4, <2>4
<1>6. Split(body) = P(L + 23)
  BY DEF Split
<1> HIDE DEF P
<1> QED BY <1>5, <1>6 DEF FormParts

(* cc1_upload.py:77-85: whatever the words of a chunk, if only they are no *)
(* boundary, the capture gets the chunk back from the form that carries it.*)
THEOREM FormKeepsData ==
  ASSUME NEW Bytes, data \in Seq(Bytes), \A i \in DOMAIN data : data[i] # "--b"
  PROVE  DataSurvivesForm
<1> DEFINE Needed == {"--b", "CRLF", "--", "Uuid", "Offset", "File", "u", "0"}
           W == Bytes \cup Needed
           L == Len(data)
           parts == Split(Form)
           fields == ParseMultipart(Form)
           one == Between(Form, 1, 7)
           two == Between(Form, 8, 14)
           three == Between(Form, 15, L + 20)
           rest == Between(Form, L + 21, L + 23)
<1>1. Needed \subseteq W /\ data \in Seq(W) /\ L \in Nat /\ \A i \in 1 .. L : data[i] # "--b"
  OBVIOUS
<1>2. "CRLF" \in W /\ "u" \in W /\ "0" \in W
  OBVIOUS
<1>3. L = Len(data)
  OBVIOUS
<1> HIDE DEF W, L
<1>4. Form \in Seq(W) /\ Len(Form) = L + 23 /\ FormWords(Form, L)
  BY <1>1, <1>3, WordsOfForm
<1>5. /\ parts \in Seq(Seq(W)) /\ Len(parts) = 5 /\ parts[1] = <<>> /\ parts[2] = one
      /\ parts[3] = two /\ parts[4] = three /\ parts[5] = rest
  <2>1. FormParts(W, Form, L)
    BY <1>1, <1>4, PartsOfForm
  <2> QED BY <2>1 DEF FormParts
<1>6. /\ one \in Seq(W) /\ Len(one) = 6 /\ \A i \in 1 .. 6 : one[i] = Form[1 + i]
      /\ two \in Seq(W) /\ Len(two) = 6 /\ \A i \in 1 .. 6 : two[i] = Form[8 + i]
  <2>1. /\ 1 \in 1 .. Len(Form) /\ 7 \in 1 .. Len(Form) /\ 6 = 7 - 1
        /\ 8 \in 1 .. Len(Form) /\ 14 \in 8 .. Len(Form) /\ 6 = 14 - 8
    BY <1>1, <1>4
  <2>2. Repeats(W, one, Form, 1, 6)
    BY <1>4, <2>1, BetweenWords
  <2>3. Repeats(W, two, Form, 8, 6)
    BY <1>4, <2>1, BetweenWords
  <2> QED BY <2>2, <2>3 DEF Repeats
<1>7. /\ three \in Seq(W) /\ Len(three) = L + 5
      /\ \A i \in 1 .. L + 5 : three[i] = Form[15 + i]
  <2>1. 15 \in 1 .. Len(Form) /\ L + 20 \in 15 .. Len(Form) /\ L + 5 = (L + 20) - 15
    BY <1>1, <1>4
  <2>2. Repeats(W, three, Form, 15, L + 5)
    BY <1>4, <2>1, BetweenWords
  <2> QED BY <2>2 DEF Repeats
<1>8. /\ rest \in Seq(W) /\ Len(rest) = 2
      /\ \A i \in 1 .. 2 : rest[i] = Form[(L + 21) + i]
  <2>1. L + 21 \in 1 .. Len(Form) /\ L + 23 \in L + 21 .. Len(Form) /\ 2 = (L + 23) - (L + 21)
    BY <1>1, <1>4
  <2>2. Repeats(W, rest, Form, L + 21, 2)
    BY <1>4, <2>1, BetweenWords
  <2> QED BY <2>2 DEF Repeats
<1> HIDE DEF parts, one, two, three, rest
<1>9. Gives(one, "Uuid", <<"u">>)
  <2>1. /\ one[1] = "CRLF" /\ one[2] = "Uuid" /\ one[3] = "CRLF" /\ one[4] = "CRLF"
        /\ one[5] = "u" /\ one[6] = "CRLF" /\ "Uuid" # "CRLF"
    <3>1. /\ one[1] = Form[1 + 1] /\ one[2] = Form[1 + 2] /\ one[3] = Form[1 + 3]
          /\ one[4] = Form[1 + 4] /\ one[5] = Form[1 + 5] /\ one[6] = Form[1 + 6]
      BY <1>6
    <3>2. UuidWords(Form)
      BY <1>4 DEF FormWords
    <3> QED BY <3>1, <3>2 DEF UuidWords
  <2> QED BY <1>2, <1>6, <2>1, PartOfShortField
<1>10. Gives(two, "Offset", <<"0">>)
  <2>1. /\ two[1] = "CRLF" /\ two[2] = "Offset" /\ two[3] = "CRLF" /\ two[4] = "CRLF"
        /\ two[5] = "0" /\ two[6] = "CRLF" /\ "Offset" # "CRLF"
    <3>1. /\ two[1] = Form[8 + 1] /\ two[2] = Form[8 + 2] /\ two[3] = Form[8 + 3]
          /\ two[4] = Form[8 + 4] /\ two[5] = Form[8 + 5] /\ two[6] = Form[8 + 6]
      BY <1>6
    <3>2. OffsetWords(Form)
      BY <1>4 DEF FormWords
    <3> QED BY <3>1, <3>2 DEF OffsetWords
  <2> QED BY <1>2, <1>6, <2>1, PartOfShortField
<1>11. Gives(three, "File", data)
  <2>4. FileWords(Form, L)
    BY <1>4 DEF FormWords
  <2>1. /\ three[1] = "CRLF" /\ three[2] = "File" /\ three[3] = "CRLF" /\ three[4] = "CRLF"
        /\ "File" # "CRLF"
    <3>1. 1 \in 1 .. L + 5 /\ 2 \in 1 .. L + 5 /\ 3 \in 1 .. L + 5 /\ 4 \in 1 .. L + 5
      BY <1>1
    <3>2. /\ three[1] = Form[15 + 1] /\ three[2] = Form[15 + 2] /\ three[3] = Form[15 + 3]
          /\ three[4] = Form[15 + 4]
      BY <1>7, <3>1
    <3> QED BY <2>4, <3>2 DEF FileWords
  <2>2. three[L + 5] = "CRLF"
    <3>1. L + 5 \in 1 .. L + 5 /\ 15 + (L + 5) = L + 20
      BY <1>1
    <3> QED BY <1>7, <2>4, <3>1 DEF FileWords
  <2>3. \A i \in 1 .. L : three[4 + i] = data[i]
    <3> TAKE i \in 1 .. L
    <3>1. 4 + i \in 1 .. L + 5 /\ 15 + (4 + i) = 19 + i
      BY <1>1
    <3>2. Form[19 + i] = data[i]
      BY <2>4 DEF FileWords
    <3> QED BY <1>7, <3>1, <3>2
  <2> QED BY <1>1, <1>3, <1>7, <2>1, <2>2, <2>3, PartOfField
<1>12. Skipped(parts[1]) /\ Skipped(parts[5])
  <2>1. rest[1] = "--" /\ rest[2] = "CRLF"
    <3>1. (L + 21) + 1 = L + 22 /\ (L + 21) + 2 = L + 23
      BY <1>1
    <3> QED BY <1>4, <1>8, <3>1 DEF FormWords, LastWords
  <2>2. rest = <<"--", "CRLF">>
    BY <1>8, <2>1
  <2> QED BY <1>5, <2>2 DEF Skipped
<1> DEFINE named == {i \in DOMAIN parts : ~Skipped(parts[i]) /\ NameOf(parts[i]) # {}}
           LastOf(name) == CHOOSE i \in named :
                             /\ name \in NameOf(parts[i])
                             /\ \A j \in named : name \in NameOf(parts[j]) => j <= i
           names == UNION {NameOf(parts[i]) : i \in named}
<1>13. /\ ~Skipped(parts[2]) /\ NameOf(parts[2]) = {"Uuid"} /\ Content(parts[2]) = <<"u">>
       /\ ~Skipped(parts[3]) /\ NameOf(parts[3]) = {"Offset"} /\ Content(parts[3]) = <<"0">>
       /\ ~Skipped(parts[4]) /\ NameOf(parts[4]) = {"File"} /\ Content(parts[4]) = data
  BY <1>5, <1>9, <1>10, <1>11 DEF Gives
<1>14. named = {2, 3, 4}
  <2>1. DOMAIN parts = 1 .. 5
    BY <1>5
  <2>2. 2 \in named /\ 3 \in named /\ 4 \in named
    BY <1>13, <2>1
  <2>3. \A i \in 1 .. 5 : i = 1 \/ i = 5 \/ i \in {2, 3, 4}
    OBVIOUS
  <2>4. \A i \in named : i \in {2, 3, 4}
    BY <1>12, <2>1, <2>3
  <2> HIDE DEF named
  <2> QED BY <2>2, <2>4
<1>15. fields = [name \in names |-> Content(parts[LastOf(name)])]
  BY DEF ParseMultipart, parts
<1> HIDE DEF fields, named
<1>16. names = {"Uuid", "Offset", "File"}
  BY <1>13, <1>14
<1>17. LastOf("Uuid") = 2 /\ LastOf("Offset") = 3 /\ LastOf("File") = 4
  <2>1. /\ "Uuid" \notin NameOf(parts[3]) /\ "Uuid" \notin NameOf(parts[4])
        /\ "Offset" \notin NameOf(parts[2]) /\ "Offset" \notin NameOf(parts[4])
        /\ "File" \notin NameOf(parts[2]) /\ "File" \notin NameOf(parts[3])
        /\ "Uuid" \in NameOf(parts[2]) /\ "Offset" \in NameOf(parts[3])
        /\ "File" \in NameOf(parts[4])
    BY <1>13
  <2> QED BY <1>14, <2>1
<1> HIDE DEF LastOf, names
<1>18. /\ DOMAIN fields = {"Uuid", "Offset", "File"}
       /\ fields["Uuid"] = <<"u">> /\ fields["Offset"] = <<"0">> /\ fields["File"] = data
  BY <1>13, <1>15, <1>16, <1>17
<1> QED BY <1>18 DEF DataSurvivesForm, fields

=============================================================================
