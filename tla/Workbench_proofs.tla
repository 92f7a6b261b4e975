--------------------------- MODULE Workbench_proofs ---------------------------
(***************************************************************************)
(* Theorems about the tools of Workbench: for texts, certificates, cron    *)
(* expressions and calendars of any length.                                *)
(***************************************************************************)
EXTENDS Workbench, FiniteSetTheorems, TLAPS


-----------------------------------------------------------------------------
(***************************************************************************)
(* Induction.  A set of numbers that is not empty has a least element; so  *)
(* one that holds 0 and with each number its successor holds them all.     *)
(***************************************************************************)
LEMMA LeastNat ==
    ASSUME NEW T \in SUBSET Nat, T # {}
    PROVE  \E n \in T : \A m \in T : n <= m
<1> DEFINE R == OpToRel(<, Nat)
<1>1. IsWellFoundedOn(R, Nat)
  BY NatLessThanWellFounded
<1>2. PICK n \in T : \A m \in T : <<m, n>> \notin R
  <2> HIDE DEF R
  <2> QED BY <1>1, WFMin
<1>3. ASSUME NEW m \in T, m < n PROVE FALSE
  <2>1. <<m, n>> \in R
    BY <1>3 DEF OpToRel
  <2> HIDE DEF R
  <2>2. QED
    BY <1>2, <2>1
<1>4. QED
  BY <1>3

LEMMA NatSetInduction ==
    ASSUME NEW T \in SUBSET Nat, 0 \in T, \A n \in T : n + 1 \in T
    PROVE  T = Nat
<1> SUFFICES ASSUME Nat \ T # {} PROVE FALSE
  OBVIOUS
<1>1. PICK n \in Nat \ T : \A m \in Nat \ T : n <= m
  BY LeastNat
<1>2. n # 0 /\ n - 1 \in Nat
  BY <1>1
<1>3. n - 1 \in T
  BY <1>1, <1>2
<1>4. QED
  BY <1>1, <1>2, <1>3

\* What is done again and again is a function of how often.
IsIteration(f, N, V, start, step) ==
    /\ f \in [0 .. N -> V]
    /\ f[0] = start
    /\ \A n \in 1 .. N : f[n] = step[f[n - 1]]

LEMMA Iterated ==
    ASSUME NEW N \in Nat, NEW V, NEW start \in V, NEW step \in [V -> V]
    PROVE  \E f : IsIteration(f, N, V, start, step)
<1> DEFINE Iterates(m) == \E f : IsIteration(f, m, V, start, step)
           T == {m \in Nat : Iterates(m)}
<1>1. 0 \in T
  <2> DEFINE g == [n \in 0 .. 0 |-> start]
  <2>1. g \in [0 .. 0 -> V] /\ g[0] = start
    OBVIOUS
  <2>2. \A n \in 1 .. 0 : FALSE
    OBVIOUS
  <2> HIDE DEF g
  <2>3. IsIteration(g, 0, V, start, step)
    BY <2>1, <2>2 DEF IsIteration
  <2>4. QED
    BY <2>3
<1>2. ASSUME NEW m \in Nat, Iterates(m) PROVE Iterates(m + 1)
  <2>1. PICK f : IsIteration(f, m, V, start, step)
    BY <1>2
  <2>2. f \in [0 .. m -> V] /\ f[0] = start /\ \A n \in 1 .. m : f[n] = step[f[n - 1]]
    BY <2>1 DEF IsIteration
  <2> DEFINE g == [n \in 0 .. m + 1 |-> IF n \in 0 .. m THEN f[n] ELSE step[f[m]]]
  <2>3. step[f[m]] \in V
    BY <2>2
  <2>4. g \in [0 .. m + 1 -> V]
    BY <2>2, <2>3
  <2>5. g[0] = start
    BY <2>2
  <2>6. ASSUME NEW n \in 1 .. m + 1 PROVE g[n] = step[g[n - 1]]
    <3>1. n - 1 \in 0 .. m /\ n \in 0 .. m + 1
      OBVIOUS
    <3>2. g[n - 1] = f[n - 1]
      BY <3>1
    <3>3. CASE n \in 1 .. m
      BY <2>2, <3>1, <3>2, <3>3
    <3>4. CASE n = m + 1
      <4>1. n \notin 0 .. m /\ n - 1 = m
        BY <3>4
      <4>2. QED
        BY <3>1, <3>2, <4>1
    <3>5. QED
      BY <3>3, <3>4
  <2> HIDE DEF g
  <2>7. IsIteration(g, m + 1, V, start, step)
    BY <2>4, <2>5, <2>6 DEF IsIteration
  <2>8. QED
    BY <2>7
<1>3. T = Nat
  <2> HIDE DEF Iterates
  <2>1. T \subseteq Nat /\ \A n \in T : n + 1 \in T
    BY <1>2
  <2> HIDE DEF T
  <2>2. QED
    BY <1>1, <2>1, NatSetInduction
<1>4. Iterates(N)
  <2> HIDE DEF Iterates
  <2>1. QED
    BY <1>3
<1>5. QED
  BY <1>4

\* next says what a function from S to V is at an argument, given what it is at
\* those of lower rank.
Recursion(S, V, N, rank, next) ==
    /\ N \in Nat /\ V # {}
    /\ rank \in [S -> 0 .. N]
    /\ next \in [S -> [[S -> V] -> V]]
    /\ \A x \in S : \A f, g \in [S -> V] :
         (\A y \in S : rank[y] < rank[x] => f[y] = g[y]) => next[x][f] = next[x][g]

Solves(f, S, V, next) == f \in [S -> V] /\ \A x \in S : f[x] = next[x][f]

\* Such a function exists: there is one up to each rank.
LEMMA RecursiveFunction ==
    ASSUME NEW S, NEW V, NEW N, NEW rank, NEW next, Recursion(S, V, N, rank, next)
    PROVE  \E f : Solves(f, S, V, next)
<1>0. /\ N \in Nat /\ V # {}
      /\ rank \in [S -> 0 .. N]
      /\ next \in [S -> [[S -> V] -> V]]
      /\ \A x \in S : \A f, g \in [S -> V] :
           (\A y \in S : rank[y] < rank[x] => f[y] = g[y]) => next[x][f] = next[x][g]
  BY DEF Recursion
<1> DEFINE Upto(n) == \E f \in [S -> V] : \A x \in S : rank[x] < n => f[x] = next[x][f]
           T == {n \in Nat : Upto(n)}
<1>1. 0 \in T
  <2>1. PICK v : v \in V
    BY <1>0
  <2>2. [x \in S |-> v] \in [S -> V]
    BY <2>1
  <2>3. \A x \in S : ~(rank[x] < 0)
    BY <1>0
  <2>4. QED
    BY <2>2, <2>3
<1>2. ASSUME NEW n \in Nat, Upto(n) PROVE Upto(n + 1)
  <2>1. PICK f \in [S -> V] : \A x \in S : rank[x] < n => f[x] = next[x][f]
    BY <1>2
  <2> DEFINE g == [x \in S |-> IF rank[x] < n + 1 THEN next[x][f] ELSE f[x]]
  <2>2. g \in [S -> V]
    BY <1>0
  <2>3. \A y \in S : rank[y] < n => f[y] = g[y]
    BY <1>0, <2>1
  <2>4. ASSUME NEW x \in S, rank[x] < n + 1 PROVE g[x] = next[x][g]
    <3>1. \A y \in S : rank[y] < rank[x] => f[y] = g[y]
      BY <1>0, <2>3, <2>4
    <3>2. next[x][f] = next[x][g]
      <4> HIDE DEF g
      <4> QED BY <1>0, <3>1, <2>2, <2>1
    <3>3. QED
      BY <3>2, <2>4
  <2>5. QED
    <3> HIDE DEF g
    <3> QED BY <2>2, <2>4
<1>3. T = Nat
  <2> HIDE DEF Upto
  <2>1. T \subseteq Nat /\ \A n \in T : n + 1 \in T
    BY <1>2
  <2> HIDE DEF T
  <2>2. QED
    BY <1>1, <2>1, NatSetInduction
<1>4. Upto(N + 1)
  <2>1. N + 1 \in T
    <3> HIDE DEF T
    <3>1. QED
      BY <1>0, <1>3
  <2>2. QED
    BY <2>1
<1>5. \A x \in S : rank[x] < N + 1
  BY <1>0
<1>6. PICK f \in [S -> V] : \A x \in S : rank[x] < N + 1 => f[x] = next[x][f]
  BY <1>4
<1>7. \A x \in S : f[x] = next[x][f]
  BY <1>5, <1>6
<1>8. QED
  BY <1>6, <1>7 DEF Solves
-----------------------------------------------------------------------------
(***************************************************************************)
(* Cron.                                                                   *)
(***************************************************************************)
LEMMA ModIs ==
    ASSUME NEW a \in Nat, NEW s \in Nat \ {0}
    PROVE  a % s = 0 <=> \E k \in 0 .. a : a = k * s
<1>1. ASSUME a % s = 0 PROVE \E k \in 0 .. a : a = k * s
  <2>1. a \div s \in Nat /\ a = (a \div s) * s
    BY <1>1
  <2>2. PICK q \in Nat : a = q * s
    BY <2>1
  <2>3. q * s = q + q * (s - 1) /\ q * (s - 1) \in Nat
    OBVIOUS
  <2>4. q <= a
    BY <2>2, <2>3
  <2>5. QED
    BY <2>2, <2>4
<1>2. ASSUME NEW k \in 0 .. a, a = k * s PROVE a % s = 0
  BY <1>2
<1>3. QED
  BY <1>1, <1>2

LEMMA FieldIs ==
    ASSUME NEW f \in FieldNames
    PROVE  /\ CronFields[f].minimum \in Nat /\ CronFields[f].maximum \in Nat
           /\ CronFields[f].minimum <= CronFields[f].maximum
BY CronAssumption

LEMMA ResolvedIs ==
    ASSUME NEW f \in FieldNames, NEW token, ResolveCronValue(token, f) # OutOfRange
    PROVE  ResolveCronValue(token, f) \in CronFields[f].minimum .. CronFields[f].maximum
BY DEF ResolveCronValue

\* A part that is not refused stands for what cron takes it to say.
LEMMA PartMeansIt ==
    ASSUME NEW f \in FieldNames, NEW part, ParseCronPart(part, f) # {}
    PROVE  ParseCronPart(part, f) = {v \in FullRange(f) : SaysCron(part, f, v)}
<1> DEFINE lo == CronFields[f].minimum
           hi == CronFields[f].maximum
           wild == part.from = Star
           step == IF part.step = Nothing THEN 1 ELSE part.step[1]
           start == IF wild THEN lo ELSE ResolveCronValue(part.from, f)
           end == IF wild THEN hi ELSE ResolveCronValue(part.to, f)
<1>0. lo \in Nat /\ hi \in Nat /\ lo <= hi
  BY FieldIs
<1>1. CASE part.to = Nothing /\ ~wild
  <2>1. /\ part.step = Nothing /\ start # OutOfRange
        /\ ParseCronPart(part, f) = {Sunday(f, start)}
    BY <1>1 DEF ParseCronPart
  <2>2. start \in lo .. hi
    BY <1>1, <2>1, ResolvedIs
  <2>3. ASSUME NEW v, SaysCron(part, f, v) PROVE v = Sunday(f, start)
    BY <1>1, <2>3 DEF SaysCron
  <2>4. SaysCron(part, f, Sunday(f, start))
    <3>1. 0 \in 0 .. start
      BY <1>0, <2>2
    <3>2. QED
      BY <1>1, <2>1, <2>2, <3>1 DEF SaysCron
  <2>5. Sunday(f, start) \in FullRange(f)
    BY <2>2 DEF FullRange
  <2>6. QED
    BY <2>1, <2>3, <2>4, <2>5
<1>2. CASE ~(part.to = Nothing /\ ~wild)
  <2>1. /\ start # OutOfRange /\ end # OutOfRange /\ start <= end
        /\ step \in 1 .. Cardinal(f)
        /\ ParseCronPart(part, f) = Strides(f, start, end, step)
    <3>1. ~(OutOfRange \in {start, end} \/ start > end \/ step \notin 1 .. Cardinal(f))
      BY <1>2 DEF ParseCronPart
    <3>2. start \in Int /\ end \in Int
      BY <1>0, <3>1, ResolvedIs
    <3>3. QED
      BY <1>2, <3>1, <3>2 DEF ParseCronPart
  <2>2. start \in lo .. hi /\ end \in lo .. hi
    BY <1>0, <2>1, ResolvedIs
  <2>3. step \in Nat \ {0}
    <3> HIDE DEF step
    <3>1. Cardinal(f) \in Nat
      BY <1>0 DEF Cardinal
    <3>2. QED
      BY <2>1, <3>1
  <2> DEFINE Among(w) == \/ part.from = Star
                         \/ part.to = Nothing /\ w = ResolveCronValue(part.from, f)
                         \/ /\ part.from # Star /\ part.to # Nothing
                            /\ w \in ResolveCronValue(part.from, f)
                                   .. ResolveCronValue(part.to, f)
             Stepped(w) == \E k \in 0 .. w : part.step = Nothing \/ w = start + k * part.step[1]
  <2>4. ASSUME NEW w \in lo .. hi PROVE Among(w) <=> w \in start .. end
    BY <1>0, <1>2, <2>2
  <2>5. ASSUME NEW w \in start .. end PROVE Stepped(w) <=> (w - start) % step = 0
    <3>1. w \in Nat /\ start \in Nat /\ w - start \in Nat /\ w - start <= w
      BY <1>0, <2>2, <2>5
    <3>2. CASE part.step = Nothing
      <4>1. Stepped(w)
        BY <3>1, <3>2
      <4>2. w - start = (w - start) * step /\ step = 1
        BY <3>1, <3>2
      <4>3. (w - start) % step = 0
        <5> HIDE DEF step
        <5>1. QED
          BY <2>3, <3>1, <4>2, ModIs
      <4>4. QED
        BY <4>1, <4>3
    <3>3. CASE part.step # Nothing
      <4>1. step = part.step[1]
        BY <3>3
      <4>2. Stepped(w) <=> \E k \in 0 .. w : w = start + k * step
        BY <3>3, <4>1
      <4> HIDE DEF step, start, Stepped
      <4>3. ASSUME NEW k \in 0 .. w, w = start + k * step
            PROVE  k \in 0 .. w - start /\ w - start = k * step
        <5>1. k * step = k + k * (step - 1) /\ k * (step - 1) \in Nat
          BY <2>3, <3>1
        <5>2. k * step \in Nat
          BY <2>3, <3>1
        <5>3. w - start = k * step
          BY <3>1, <4>3, <5>2
        <5>4. QED
          BY <3>1, <5>1, <5>2, <5>3
      <4>4. ASSUME NEW k \in 0 .. w - start, w - start = k * step
            PROVE  k \in 0 .. w /\ w = start + k * step
        <5>1. k * step \in Nat
          BY <2>3, <3>1
        <5>2. QED
          BY <3>1, <4>4, <5>1
      <4>5. (w - start) % step = 0 <=> \E k \in 0 .. w - start : w - start = k * step
        BY <2>3, <3>1, ModIs
      <4>6. QED
        BY <4>2, <4>3, <4>4, <4>5
    <3>4. QED
      BY <3>2, <3>3
  <2>6. \A v : SaysCron(part, f, v) <=>
                 \E w \in lo .. hi : Sunday(f, w) = v /\ Among(w) /\ Stepped(w)
    BY DEF SaysCron
  <2> HIDE DEF step, start, end, Among, Stepped
  <2>7. \A v : SaysCron(part, f, v) <=>
                 \E w \in start .. end : Sunday(f, w) = v /\ (w - start) % step = 0
    <3>1. start .. end \subseteq lo .. hi
      BY <1>0, <2>2
    <3>2. QED
      BY <2>4, <2>5, <2>6, <3>1
  <2>8. Strides(f, start, end, step) = {v \in FullRange(f) : SaysCron(part, f, v)}
    <3>1. start .. end \subseteq lo .. hi
      BY <1>0, <2>2
    <3>2. QED
      BY <2>7, <3>1 DEF Strides, FullRange
  <2>9. QED
    BY <2>1, <2>8
<1>3. QED
  BY <1>1, <1>2

LEMMA ListIs ==
    ASSUME NEW s, IsList(s)
    PROVE  /\ Len(s) \in Nat /\ DOMAIN s = 1 .. Len(s)
           /\ s = <<>> <=> Len(s) = 0
           /\ s \in Seq({s[i] : i \in DOMAIN s})
<1> DEFINE T == {s[i] : i \in DOMAIN s}
<1>1. s \in Seq(T)
  BY DEF IsList
<1> HIDE DEF T
<1>2. Len(s) \in Nat /\ DOMAIN s = 1 .. Len(s) /\ (s = <<>> <=> Len(s) = 0)
  BY <1>1
<1>3. QED
  BY <1>1, <1>2 DEF T

LEMMA MappedListIs ==
    ASSUME NEW s, IsList(s), NEW t, t = [i \in DOMAIN s |-> t[i]]
    PROVE  IsList(t) /\ DOMAIN t = DOMAIN s /\ Len(t) = Len(s)
<1> DEFINE T == {t[i] : i \in DOMAIN t}
<1>1. Len(s) \in Nat /\ DOMAIN s = 1 .. Len(s)
  BY ListIs
<1>2. DOMAIN t = 1 .. Len(s) /\ t = [i \in 1 .. Len(s) |-> t[i]]
  BY <1>1
<1>3. \A i \in 1 .. Len(s) : t[i] \in T
  BY <1>2
<1> HIDE DEF T
<1>4. t \in [1 .. Len(s) -> T]
  BY <1>2, <1>3
<1>5. t \in Seq(T)
  BY <1>1, <1>4
<1>6. Len(t) = Len(s)
  BY <1>1, <1>4, <1>5
<1>7. QED
  BY <1>1, <1>2, <1>5, <1>6 DEF IsList, T

\* What a field that is read stands for; refused is what is not read.
LEMMA FieldMeansIt ==
    ASSUME NEW f \in FieldNames, NEW source, IsList(source),
           ~ParseCronField(source, f).refused
    PROVE  LET made == ParseCronField(source, f) IN
           /\ source # <<>> /\ Len(source) <= MaxListParts
           /\ \A i \in DOMAIN source : ParseCronPart(source[i], f) # {}
           /\ made.values = UNION {ParseCronPart(source[i], f) : i \in DOMAIN source}
           /\ made.values = {v \in FullRange(f) :
                               \E i \in DOMAIN source : SaysCron(source[i], f, v)}
           /\ made.values # {}
           /\ made.refused = FALSE
           /\ made.unrestricted <=> made.values = FullRange(f)
           /\ made.normalized = [i \in DOMAIN source |-> NormalizedPart(source[i], f)]
           /\ made = [refused |-> FALSE, values |-> made.values,
                      unrestricted |-> made.values = FullRange(f),
                      normalized |-> [i \in DOMAIN source |-> NormalizedPart(source[i], f)]]
<1> DEFINE parts == {ParseCronPart(source[i], f) : i \in DOMAIN source}
           made == ParseCronField(source, f)
<1>1. /\ source # <<>> /\ Len(source) <= MaxListParts
      /\ \A i \in DOMAIN source : ParseCronPart(source[i], f) # {}
  <2>1. ~(source = <<>> \/ {} \in parts \/ Len(source) > MaxListParts)
    BY DEF ParseCronField, RefusedCron
  <2>2. Len(source) \in Nat /\ MaxListParts \in Nat
    BY CronAssumption, ListIs
  <2>3. QED
    BY <2>1, <2>2
<1>2. made = [refused |-> FALSE, values |-> UNION parts,
              unrestricted |-> UNION parts = FullRange(f),
              normalized |-> [i \in DOMAIN source |-> NormalizedPart(source[i], f)]]
  <2>1. ~(source = <<>> \/ {} \in parts \/ Len(source) > MaxListParts)
    BY DEF ParseCronField, RefusedCron
  <2>2. QED
    BY <2>1 DEF ParseCronField
<1>3. \A i \in DOMAIN source :
        ParseCronPart(source[i], f) = {v \in FullRange(f) : SaysCron(source[i], f, v)}
  BY <1>1, PartMeansIt
<1>4. UNION parts = {v \in FullRange(f) : \E i \in DOMAIN source : SaysCron(source[i], f, v)}
  BY <1>3
<1>5. UNION parts # {}
  <2>1. PICK i \in DOMAIN source : TRUE
    <3>1. Len(source) \in Nat /\ Len(source) # 0 /\ DOMAIN source = 1 .. Len(source)
      BY <1>1, ListIs
    <3>2. 1 \in DOMAIN source
      BY <3>1
    <3>3. QED
      BY <3>2
  <2>2. QED
    BY <1>1, <2>1
<1>6. /\ made.values = UNION parts /\ made.refused = FALSE
      /\ made.unrestricted <=> UNION parts = FullRange(f)
      /\ made.normalized = [i \in DOMAIN source |-> NormalizedPart(source[i], f)]
  <2> HIDE DEF made, parts
  <2>1. QED
    BY <1>2
<1> HIDE DEF parts, made
<1>7. QED
  BY <1>1, <1>2, <1>4, <1>5, <1>6 DEF parts, made

\* A lone 7 of the week is written 0, and both are Sunday.
LEMMA NormalizedIsSame ==
    ASSUME NEW f \in FieldNames, NEW part
    PROVE  /\ ParseCronPart(NormalizedPart(part, f), f) = ParseCronPart(part, f)
           /\ NormalizedPart(NormalizedPart(part, f), f) = NormalizedPart(part, f)
<1> DEFINE lone(v) == CronPart(Value(v), Nothing, Nothing)
<1>1. CASE IsWeek(f) /\ part = lone(7)
  <2>1. NormalizedPart(part, f) = lone(0)
    BY <1>1 DEF NormalizedPart
  <2>2. CronFields[f].minimum = 0 /\ CronFields[f].maximum = 7
    BY <1>1, CronAssumption DEF IsWeek
  <2>3. ResolveCronValue(Value(7), f) = 7 /\ ResolveCronValue(Value(0), f) = 0
    BY <2>2 DEF ResolveCronValue, Value
  <2>4. Value(7) # Star /\ Value(0) # Star
    BY DEF Value, Star
  <2>5. ParseCronPart(lone(7), f) = {Sunday(f, 7)}
    BY <2>3, <2>4 DEF ParseCronPart, CronPart, OutOfRange
  <2>6. ParseCronPart(lone(0), f) = {Sunday(f, 0)}
    BY <2>3, <2>4 DEF ParseCronPart, CronPart, OutOfRange
  <2>7. Sunday(f, 7) = Sunday(f, 0)
    BY <1>1 DEF Sunday
  <2>8. NormalizedPart(lone(0), f) = lone(0)
    BY DEF NormalizedPart, CronPart, Value
  <2>9. QED
    BY <1>1, <2>1, <2>5, <2>6, <2>7, <2>8
<1>2. CASE ~(IsWeek(f) /\ part = lone(7))
  BY <1>2 DEF NormalizedPart
<1>3. QED
  BY <1>1, <1>2

LEMMA CronFieldStep == SubmitCronField => CronFieldMeansIt'
<1> SUFFICES ASSUME SubmitCronField, ~work'.made.refused PROVE CronFieldMeansIt'
  BY DEF CronFieldMeansIt
<1>0. PICK f \in FieldNames, source \in CronSources :
        work' = [tool |-> "cron field", field |-> f, source |-> source,
                 made |-> ParseCronField(source, f)]
  BY DEF SubmitCronField
<1> DEFINE made == ParseCronField(source, f)
           again == ParseCronField(made.normalized, f)
           values == {v \in FullRange(f) : \E i \in DOMAIN source : SaysCron(source[i], f, v)}
<1>1. IsList(source)
  BY CronAssumption
<1>2. /\ source # <<>> /\ Len(source) <= MaxListParts
      /\ \A i \in DOMAIN source : ParseCronPart(source[i], f) # {}
      /\ made.values = UNION {ParseCronPart(source[i], f) : i \in DOMAIN source}
      /\ made.values = values
      /\ made.unrestricted <=> made.values = FullRange(f)
      /\ made.normalized = [i \in DOMAIN source |-> NormalizedPart(source[i], f)]
      /\ made = [refused |-> FALSE, values |-> made.values,
                 unrestricted |-> made.values = FullRange(f),
                 normalized |-> [i \in DOMAIN source |-> NormalizedPart(source[i], f)]]
  <2>1. ~made.refused
    BY <1>0
  <2>2. QED
    BY <1>1, <2>1, FieldMeansIt
<1> DEFINE normalized == [i \in DOMAIN source |-> NormalizedPart(source[i], f)]
<1>3. made.normalized = normalized
  BY <1>2
<1>4. /\ DOMAIN normalized = DOMAIN source /\ Len(normalized) = Len(source)
      /\ normalized # <<>> /\ Len(source) \in Nat
  <2> HIDE DEF normalized
  <2>1. IsList(normalized) /\ DOMAIN normalized = DOMAIN source
        /\ Len(normalized) = Len(source)
    <3>1. normalized = [i \in DOMAIN source |-> normalized[i]]
      BY DEF normalized
    <3>2. QED
      BY <1>1, <3>1, MappedListIs
  <2>2. Len(source) \in Nat /\ Len(source) # 0
    BY <1>1, <1>2, ListIs
  <2>3. QED
    BY <2>1, <2>2, ListIs
<1>5. /\ [i \in DOMAIN normalized |-> NormalizedPart(normalized[i], f)] = normalized
      /\ \A i \in DOMAIN source :
           ParseCronPart(normalized[i], f) = ParseCronPart(source[i], f)
  BY <1>4, NormalizedIsSame
<1>6. again = made
  <2> DEFINE parts == {ParseCronPart(normalized[i], f) : i \in DOMAIN normalized}
  <2>1. parts = {ParseCronPart(source[i], f) : i \in DOMAIN source}
    <3> HIDE DEF normalized
    <3>1. QED
      BY <1>4, <1>5
  <2>2. UNION parts = made.values /\ {} \notin parts
    BY <1>2, <2>1
  <2>3. ~(Len(normalized) > MaxListParts)
    <3> HIDE DEF normalized, made
    <3>1. QED
      BY <1>2, <1>4, CronAssumption
  <2>4. ParseCronField(normalized, f)
          = [refused |-> FALSE, values |-> UNION parts,
             unrestricted |-> UNION parts = FullRange(f),
             normalized |-> [i \in DOMAIN normalized |-> NormalizedPart(normalized[i], f)]]
    <3>1. ~(normalized = <<>> \/ {} \in parts \/ Len(normalized) > MaxListParts)
      BY <1>4, <2>2, <2>3
    <3> HIDE DEF normalized
    <3>2. QED
      BY <3>1 DEF ParseCronField
  <2> HIDE DEF parts, made, normalized
  <2>5. QED
    BY <1>2, <1>3, <1>5, <2>2, <2>4 DEF again, normalized
<1>7. made.unrestricted <=>
        \A w \in CronFields[f].minimum .. CronFields[f].maximum : Sunday(f, w) \in made.values
  <2>1. made.unrestricted <=> values = FullRange(f)
    BY <1>2
  <2>2. values = FullRange(f) <=> \A v \in FullRange(f) : v \in values
    OBVIOUS
  <2> HIDE DEF made, values
  <2>3. QED
    BY <1>2, <2>1, <2>2 DEF FullRange
<1>8. again = [made EXCEPT !.normalized = again.normalized]
  <2> HIDE DEF made, again
  <2>1. QED
    BY <1>2, <1>6
<1>9. /\ work'.field = f /\ work'.source = source /\ work'.made = made
  BY <1>0
<1> HIDE DEF made
<1>10. QED
  BY <1>2, <1>6, <1>7, <1>8, <1>9 DEF CronFieldMeansIt, again, values

\* A list without repeats has as many elements as places.
LEMMA NoRepeats ==
    ASSUME NEW X, NEW s \in Seq(X),
           \A i, j \in DOMAIN s : i < j => s[i] # s[j]
    PROVE  IsFiniteSet(ToSet(s)) /\ Cardinality(ToSet(s)) = Len(s)
<1>1. Len(s) \in Nat /\ DOMAIN s = 1 .. Len(s) /\ s \in [1 .. Len(s) -> ToSet(s)]
  BY DEF ToSet
<1>2. s \in Injection(1 .. Len(s), ToSet(s))
  BY <1>1 DEF Injection, IsInjective
<1>3. s \in Surjection(1 .. Len(s), ToSet(s))
  BY <1>1 DEF Surjection, ToSet
<1>4. ExistsBijection(1 .. Len(s), ToSet(s))
  BY <1>2, <1>3 DEF ExistsBijection, Bijection
<1>5. IsFiniteSet(1 .. Len(s)) /\ Cardinality(1 .. Len(s)) = Len(s)
  BY <1>1, FS_Interval
<1>6. QED
  BY <1>4, <1>5, FS_Bijection

LEMMA AppendIs ==
    ASSUME NEW X, NEW s \in Seq(X), NEW x \in X, NEW t, t = Append(s, x)
    PROVE  /\ t \in Seq(X) /\ Len(s) \in Nat /\ Len(t) = Len(s) + 1
           /\ DOMAIN s = 1 .. Len(s) /\ DOMAIN t = 1 .. Len(s) + 1
           /\ \A i \in DOMAIN s : i \in DOMAIN t /\ t[i] = s[i]
           /\ \A i \in DOMAIN t : i \in DOMAIN s \/ i = Len(s) + 1
           /\ t[Len(s) + 1] = x
OBVIOUS

SearchStates == [found : Seq(Nat), cursor : Nat, checked : Nat]

LEMMA SearchStepIs ==
    ASSUME NEW request, NEW s \in SearchStates
    PROVE  SearchStep(s, request) \in SearchStates
<1>1. CASE s.checked >= request.horizon \/ Len(s.found) >= MaxOccurrences
  BY <1>1 DEF SearchStep
<1>2. CASE ~(s.checked >= request.horizon \/ Len(s.found) >= MaxOccurrences)
  <2>1. s.found \in Seq(Nat) /\ s.cursor \in Nat /\ s.checked \in Nat
    BY DEF SearchStates
  <2>2. Append(s.found, s.cursor) \in Seq(Nat) /\ s.cursor + 1 \in Nat /\ s.checked + 1 \in Nat
    BY <2>1
  <2>3. QED
    BY <1>2, <2>1, <2>2 DEF SearchStep, SearchStates
<1>3. QED
  BY <1>1, <1>2

LEMMA SearchIs ==
    ASSUME NEW request, request.horizon \in Nat, request.from \in Nat
    PROVE  /\ Search(request) \in [0 .. request.horizon -> SearchStates]
           /\ Search(request)[0] = [found |-> <<>>, cursor |-> request.from + 1, checked |-> 0]
           /\ \A n \in 1 .. request.horizon :
                Search(request)[n] = SearchStep(Search(request)[n - 1], request)
<1> DEFINE S == 0 .. request.horizon
           start == [found |-> <<>>, cursor |-> request.from + 1, checked |-> 0]
           Body(f, n) == IF n = 0 THEN start ELSE SearchStep(f[n - 1], request)
           step == [s \in SearchStates |-> SearchStep(s, request)]
<1>1. start \in SearchStates
  BY DEF SearchStates
<1> HIDE DEF start
<1>2. PICK f \in [S -> SearchStates] : f = [n \in S |-> Body(f, n)]
  <2>1. step \in [SearchStates -> SearchStates]
    BY SearchStepIs
  <2>2. \E f : IsIteration(f, request.horizon, SearchStates, start, step)
    <3> HIDE DEF step
    <3>1. QED
      BY <1>1, <2>1, Iterated
  <2>2a. PICK f \in [S -> SearchStates] :
          f[0] = start /\ \A n \in 1 .. request.horizon : f[n] = step[f[n - 1]]
    <3> HIDE DEF step
    <3>1. QED
      BY <2>2 DEF IsIteration
  <2>3. ASSUME NEW n \in S PROVE f[n] = Body(f, n)
    <3>1. CASE n = 0
      BY <2>2a, <3>1
    <3>2. CASE n # 0
      <4>1. n \in 1 .. request.horizon /\ n - 1 \in S
        BY <3>2
      <4>2. f[n] = step[f[n - 1]] /\ f[n - 1] \in SearchStates
        BY <2>2a, <4>1
      <4>3. QED
        BY <3>2, <4>2
    <3>3. QED
      BY <3>1, <3>2
  <2> HIDE DEF Body
  <2>4. QED
    BY <2>3
<1>3. Search(request) = CHOOSE g : g = [n \in S |-> Body(g, n)]
  BY DEF Search, start
<1> DEFINE search == Search(request)
<1>4. search = [n \in S |-> Body(search, n)]
  <2> HIDE DEF Body
  <2>1. QED
    BY <1>2, <1>3
<1> HIDE DEF search
<1>5. \A n \in S : search[n] = Body(search, n)
  <2> HIDE DEF Body
  <2>1. QED
    BY <1>4
<1>6. search[0] = start /\ \A n \in 1 .. request.horizon : search[n] = SearchStep(search[n - 1], request)
  BY <1>5
<1>7. \A n \in S : search[n] \in SearchStates
  <2> DEFINE T == {n \in Nat : n \in S => search[n] \in SearchStates}
  <2>1. 0 \in T
    BY <1>1, <1>6
  <2>2. ASSUME NEW n \in T PROVE n + 1 \in T
    <3> SUFFICES ASSUME n + 1 \in S PROVE search[n + 1] \in SearchStates
      BY <2>2
    <3>1. n \in S /\ search[n] \in SearchStates /\ n + 1 \in 1 .. request.horizon
      BY <2>2
    <3>2. search[n + 1] = SearchStep(search[n], request)
      BY <1>6, <3>1
    <3>3. QED
      BY <3>1, <3>2, SearchStepIs
  <2>3. T = Nat
    <3>1. T \subseteq Nat
      OBVIOUS
    <3> HIDE DEF T
    <3>2. QED
      BY <2>1, <2>2, <3>1, NatSetInduction
  <2>4. QED
    BY <2>3
<1>8. search \in [S -> SearchStates]
  <2> HIDE DEF Body
  <2>1. QED
    BY <1>4, <1>7
<1>9. QED
  BY <1>6, <1>8 DEF search, start

\* What has been found after n turns: each minute looked at that matches, once,
\* in order; and nothing but having found enough ends the search before.
Due(m, request) == MatchesSchedule(Calendar[m], request)

LookedAt(s, request) == request.from + 1 .. request.from + s.checked

FoundAll(s, n, request) ==
    /\ s \in SearchStates
    /\ s.cursor = request.from + 1 + s.checked
    /\ s.checked <= n
    /\ s.checked = n \/ Len(s.found) = MaxOccurrences
    /\ Len(s.found) <= MaxOccurrences
    /\ \A i \in DOMAIN s.found : s.found[i] \in LookedAt(s, request) /\ Due(s.found[i], request)
    /\ \A m \in LookedAt(s, request) : Due(m, request) => \E i \in DOMAIN s.found : s.found[i] = m
    /\ \A i, j \in DOMAIN s.found : i < j => s.found[i] < s.found[j]

LEMMA SearchStepFinds ==
    ASSUME NEW request, request.horizon \in Nat, request.from \in Nat,
           NEW n \in Nat, n < request.horizon, NEW s, FoundAll(s, n, request)
    PROVE  FoundAll(SearchStep(s, request), n + 1, request)
<1> DEFINE t == SearchStep(s, request)
           enough == s.checked >= request.horizon \/ Len(s.found) >= MaxOccurrences
<1> SUFFICES FoundAll(t, n + 1, request)
  OBVIOUS
<1>1. /\ s \in SearchStates /\ s.found \in Seq(Nat) /\ s.cursor \in Nat /\ s.checked \in Nat
      /\ Len(s.found) \in Nat /\ MaxOccurrences \in Nat \ {0}
      /\ s.checked <= n /\ Len(s.found) <= MaxOccurrences
      /\ s.cursor = request.from + 1 + s.checked
  <2>1. s \in SearchStates
    BY DEF FoundAll
  <2>2. s.found \in Seq(Nat) /\ s.cursor \in Nat /\ s.checked \in Nat
    BY <2>1 DEF SearchStates
  <2>3. QED
    BY <2>1, <2>2, CronAssumption DEF FoundAll
<1>2. CASE enough
  <2>1. t = s /\ Len(s.found) = MaxOccurrences
    BY <1>1, <1>2 DEF SearchStep
  <2>2. QED
    BY <1>1, <2>1 DEF FoundAll
<1>3. CASE ~enough
  <2> DEFINE found == IF Due(s.cursor, request) THEN Append(s.found, s.cursor) ELSE s.found
  <2>1. t = [found |-> found, cursor |-> s.cursor + 1, checked |-> s.checked + 1]
    BY <1>3 DEF SearchStep, Due
  <2>2. t.found = found /\ t.cursor = s.cursor + 1 /\ t.checked = s.checked + 1
    BY <2>1
  <2> HIDE DEF found
  <2>3. s.checked = n /\ Len(s.found) < MaxOccurrences
    BY <1>1, <1>3 DEF FoundAll
  <2>4. t \in SearchStates
    BY <1>1, SearchStepIs DEF t
  <2> HIDE DEF t, enough
  <2>5. LookedAt(t, request) = LookedAt(s, request) \cup {s.cursor}
        /\ \A m \in LookedAt(s, request) : m \in Nat /\ m < s.cursor
    <3> DEFINE a == request.from
               k == s.checked
    <3>1. a \in Nat /\ k \in Nat /\ s.cursor = (a + 1) + k /\ t.checked = k + 1
      BY <1>1, <2>2
    <3>2. LookedAt(s, request) = (a + 1) .. (a + k) /\ LookedAt(t, request) = (a + 1) .. (a + t.checked)
      BY DEF LookedAt
    <3> HIDE DEF a, k
    <3>3. a + t.checked = (a + 1) + k
      BY <3>1
    <3>4. (a + 1) .. ((a + 1) + k) = ((a + 1) .. (a + k)) \cup {(a + 1) + k}
      BY <3>1
    <3>5. \A m \in (a + 1) .. (a + k) : m \in Nat /\ m < (a + 1) + k
      BY <3>1
    <3>6. QED
      BY <3>1, <3>2, <3>3, <3>4, <3>5
  <2>6. t.checked = n + 1 /\ t.cursor = request.from + 1 + t.checked
    <3>1. t.checked = n + 1 /\ s.cursor = request.from + 1 + n
      BY <1>1, <2>2, <2>3
    <3>2. request.from + 1 + (n + 1) = (request.from + 1 + n) + 1
      OBVIOUS
    <3>3. t.cursor = s.cursor + 1
      BY <2>2
    <3>4. t.cursor = request.from + 1 + (n + 1)
      BY <3>1, <3>2, <3>3
    <3>5. request.from + 1 + t.checked = request.from + 1 + (n + 1)
      BY <3>1
    <3>6. QED
      BY <3>1, <3>4, <3>5
  <2>7. CASE Due(s.cursor, request)
    <3>1. /\ t.found = Append(s.found, s.cursor)
          /\ Len(t.found) = Len(s.found) + 1
          /\ DOMAIN s.found = 1 .. Len(s.found)
          /\ DOMAIN t.found = 1 .. Len(s.found) + 1
          /\ \A i \in DOMAIN s.found : i \in DOMAIN t.found /\ t.found[i] = s.found[i]
          /\ t.found[Len(s.found) + 1] = s.cursor
      <4>1. t.found = Append(s.found, s.cursor)
        BY <2>2, <2>7 DEF found
      <4>2. s.found \in Seq(Nat) /\ s.cursor \in Nat
        BY <1>1
      <4>3. QED
        BY <4>1, <4>2, AppendIs
    <3>2. \A i \in DOMAIN t.found : i \in DOMAIN s.found \/ i = Len(s.found) + 1
      BY <1>1, <3>1
    <3>3. ASSUME NEW i \in DOMAIN t.found
          PROVE  t.found[i] \in LookedAt(t, request) /\ Due(t.found[i], request)
      <4>1. CASE i \in DOMAIN s.found
        <5>1. s.found[i] \in LookedAt(s, request) /\ Due(s.found[i], request)
          BY <4>1 DEF FoundAll
        <5>2. QED
          BY <2>5, <3>1, <4>1, <5>1
      <4>2. CASE i = Len(s.found) + 1
        BY <2>5, <2>7, <3>1, <4>2
      <4>3. QED
        BY <3>2, <4>1, <4>2
    <3>4. ASSUME NEW m \in LookedAt(t, request), Due(m, request)
          PROVE  \E i \in DOMAIN t.found : t.found[i] = m
      <4>1. CASE m = s.cursor
        <5>1. Len(s.found) + 1 \in DOMAIN t.found
          BY <1>1, <3>1
        <5>2. QED
          BY <3>1, <4>1, <5>1
      <4>2. CASE m \in LookedAt(s, request)
        <5>1. PICK i \in DOMAIN s.found : s.found[i] = m
          BY <3>4, <4>2 DEF FoundAll
        <5>2. QED
          BY <3>1, <5>1
      <4>3. QED
        BY <2>5, <4>1, <4>2
    <3>5. ASSUME NEW i \in DOMAIN t.found, NEW j \in DOMAIN t.found, i < j
          PROVE  t.found[i] < t.found[j]
      <4>1. i \in DOMAIN s.found
        BY <1>1, <3>1, <3>5
      <4>2. CASE j \in DOMAIN s.found
        BY <3>1, <3>5, <4>1, <4>2 DEF FoundAll
      <4>3. CASE j = Len(s.found) + 1
        BY <2>5, <3>1, <4>1, <4>3 DEF FoundAll
      <4>4. QED
        BY <3>2, <4>2, <4>3
    <3>6. Len(t.found) <= MaxOccurrences
      BY <1>1, <2>3, <3>1
    <3>7. QED
      BY <2>4, <2>6, <3>3, <3>4, <3>5, <3>6 DEF FoundAll
  <2>8. CASE ~Due(s.cursor, request)
    <3>1. t.found = s.found
      BY <2>2, <2>8 DEF found
    <3>2. Len(t.found) <= MaxOccurrences
      BY <1>1, <3>1
    <3>3. QED
      BY <2>4, <2>5, <2>6, <2>8, <3>1, <3>2 DEF FoundAll
  <2>9. QED
    BY <2>7, <2>8 DEF t
<1>4. QED
  BY <1>2, <1>3

LEMMA SearchFinds ==
    ASSUME NEW request, request.horizon \in Nat, request.from \in Nat
    PROVE  FoundAll(Search(request)[request.horizon], request.horizon, request)
<1> DEFINE T == {n \in Nat : n <= request.horizon => FoundAll(Search(request)[n], n, request)}
<1>1. 0 \in T
  <2> DEFINE s == [found |-> <<>>, cursor |-> request.from + 1, checked |-> 0]
  <2>1. Search(request)[0] = s
    BY SearchIs
  <2>2. s \in SearchStates /\ s.found = <<>> /\ s.checked = 0 /\ s.cursor = request.from + 1
    BY DEF SearchStates
  <2>3. Len(s.found) = 0 /\ DOMAIN s.found = {} /\ LookedAt(s, request) = {}
    BY <2>2 DEF LookedAt
  <2>4. FoundAll(s, 0, request)
    <3> HIDE DEF s
    <3>1. QED
      BY <2>2, <2>3, CronAssumption DEF FoundAll
  <2>5. QED
    BY <2>1, <2>4
<1>2. ASSUME NEW n \in T PROVE n + 1 \in T
  <2> SUFFICES ASSUME n + 1 <= request.horizon
               PROVE  FoundAll(Search(request)[n + 1], n + 1, request)
    BY <1>2
  <2>1. FoundAll(Search(request)[n], n, request) /\ n < request.horizon
    BY <1>2
  <2>2. Search(request)[n + 1] = SearchStep(Search(request)[n], request)
    <3>1. n + 1 \in 1 .. request.horizon /\ (n + 1) - 1 = n
      BY <1>2
    <3>2. QED
      BY <3>1, SearchIs
  <2>3. QED
    BY <2>1, <2>2, SearchStepFinds
<1>3. T = Nat
  <2>1. T \subseteq Nat
    OBVIOUS
  <2> HIDE DEF T
  <2>2. QED
    BY <1>1, <1>2, <2>1, NatSetInduction
<1>4. QED
  BY <1>3

\* An expression that is read is read field by field.
LEMMA ExpressionMeansIt ==
    ASSUME NEW typed \in CronExpressions, ~ParseCronExpression(typed).refused,
           NEW fields, fields = ParseCronExpression(typed).fields, NEW f \in FieldNames
    PROVE  /\ fields[f].values = {v \in FullRange(f) :
                                    \E i \in DOMAIN typed[f] : SaysCron(typed[f][i], f, v)}
           /\ fields[f].values # {}
           /\ fields[f].unrestricted <=> fields[f].values = FullRange(f)
<1> DEFINE all == [g \in FieldNames |-> ParseCronField(typed[g], g)]
<1>1. RefusedCron \notin {all[g] : g \in FieldNames} /\ ParseCronExpression(typed).fields = all
  BY DEF ParseCronExpression, RefusedCron
<1>2. fields[f] = ParseCronField(typed[f], f) /\ ParseCronField(typed[f], f) # RefusedCron
  BY <1>1
<1>3. ~ParseCronField(typed[f], f).refused
  BY <1>2 DEF ParseCronField
<1>4. IsList(typed[f])
  BY CronAssumption
<1> DEFINE made == ParseCronField(typed[f], f)
<1>5. /\ made.values = {v \in FullRange(f) :
                         \E i \in DOMAIN typed[f] : SaysCron(typed[f][i], f, v)}
      /\ made.values # {}
      /\ made.unrestricted <=> made.values = FullRange(f)
  BY <1>3, <1>4, FieldMeansIt
<1>6. fields[f] = made
  BY <1>2
<1> HIDE DEF made
<1>7. QED
  BY <1>5, <1>6

LEMMA FullRangeIs ==
    ASSUME NEW f \in FieldNames
    PROVE  FullRange(f) \subseteq
             CronFields[f].minimum .. (IF IsWeek(f) THEN 6 ELSE CronFields[f].maximum)
<1>1. CASE IsWeek(f)
  <2>1. CronFields[f].minimum = 0 /\ CronFields[f].maximum = 7
    BY <1>1, CronAssumption DEF IsWeek
  <2>2. \A w \in 0 .. 7 : Sunday(f, w) \in 0 .. 6
    BY <1>1 DEF Sunday
  <2>3. QED
    BY <1>1, <2>1, <2>2 DEF FullRange
<1>2. CASE ~IsWeek(f)
  BY <1>2 DEF FullRange, Sunday
<1>3. QED
  BY <1>1, <1>2

LEMMA CronStep == SubmitCron => PreviewIsRight'
<1> SUFFICES ASSUME SubmitCron, ~work'.refused PROVE PreviewIsRight'
  BY DEF PreviewIsRight
<1>1. PICK typed \in CronExpressions, start \in 0 .. 2, horizon \in {1, Len(Calendar) - 3} :
        LET read == ParseCronExpression(typed)
            request == CreateCronPreviewRequest(read.fields, start, horizon)
        IN work' = IF read.refused THEN [tool |-> "cron", typed |-> typed, refused |-> TRUE]
                   ELSE [tool |-> "cron", typed |-> typed, refused |-> FALSE,
                         request |-> request, accepted |-> ValidRequest(request),
                         made |-> Preview(request)]
  BY DEF SubmitCron
<1> DEFINE read == ParseCronExpression(typed)
           fields == read.fields
           request == CreateCronPreviewRequest(fields, start, horizon)
<1>2. /\ ~read.refused
      /\ work' = [tool |-> "cron", typed |-> typed, refused |-> FALSE,
                  request |-> request, accepted |-> ValidRequest(request),
                  made |-> Preview(request)]
  BY <1>1
<1>3. /\ work'.typed = typed /\ work'.request = request
      /\ work'.accepted = ValidRequest(request) /\ work'.made = Preview(request)
  BY <1>2
<1>4. /\ request.from = start /\ request.horizon = horizon
      /\ \A f \in FieldNames : request.values[f] = fields[f].values
      /\ request.dayOfMonthUnrestricted = fields["dayOfMonth"].unrestricted
      /\ request.dayOfWeekUnrestricted = fields["dayOfWeek"].unrestricted
  BY DEF CreateCronPreviewRequest
<1> DEFINE says(n, f) == \E i \in DOMAIN typed[f] : SaysCron(typed[f][i], f, Calendar[n][f])
           all(f) == \A v \in FullRange(f) :
                       \E i \in DOMAIN typed[f] : SaysCron(typed[f][i], f, v)
           due(n) == /\ \A f \in {"minute", "hour", "month"} : says(n, f)
                     /\ \/ \E f \in {"dayOfMonth", "dayOfWeek"} : says(n, f) /\ ~all(f)
                        \/ all("dayOfMonth") /\ all("dayOfWeek")
<1>5. ASSUME NEW f \in FieldNames
      PROVE  /\ \A v : v \in fields[f].values <=>
                         \E i \in DOMAIN typed[f] : SaysCron(typed[f][i], f, v)
             /\ fields[f].values # {} /\ fields[f].values \subseteq FullRange(f)
             /\ fields[f].unrestricted <=> all(f)
  <2>1. /\ fields[f].values = {v \in FullRange(f) :
                                 \E i \in DOMAIN typed[f] : SaysCron(typed[f][i], f, v)}
        /\ fields[f].values # {}
        /\ fields[f].unrestricted <=> fields[f].values = FullRange(f)
    BY <1>2, ExpressionMeansIt
  <2>2. \A part, v : SaysCron(part, f, v) => v \in FullRange(f)
    BY DEF SaysCron, FullRange
  <2>3. QED
    BY <2>1, <2>2
<1> HIDE DEF read, request
<1>6. horizon \in Nat /\ horizon >= 1 /\ start \in Nat
  BY CronAssumption
<1>7. ValidRequest(request)
  <2>1. ASSUME NEW f \in FieldNames
        PROVE  /\ request.values[f] # {}
               /\ request.values[f] \subseteq CronFields[f].minimum
                    .. (IF IsWeek(f) THEN 6 ELSE CronFields[f].maximum)
    BY <1>4, <1>5, FullRangeIs
  <2>2. QED
    BY <1>4, <1>6, <2>1 DEF ValidRequest
<1>8. \A n : Due(n, request) <=> due(n)
  <2> SUFFICES ASSUME NEW n PROVE Due(n, request) <=> due(n)
    OBVIOUS
  <2>1. \A f \in FieldNames : Calendar[n][f] \in request.values[f] <=> says(n, f)
    BY <1>4, <1>5
  <2>2. /\ request.dayOfMonthUnrestricted <=> all("dayOfMonth")
        /\ request.dayOfWeekUnrestricted <=> all("dayOfWeek")
    BY <1>4, <1>5 DEF FieldNames
  <2> HIDE DEF says, all
  <2>3. QED
    BY <2>1, <2>2 DEF Due, MatchesSchedule, FieldNames
<1> DEFINE s == Search(request)[horizon]
<1>9. /\ FoundAll(s, horizon, request)
      /\ Preview(request).occurrences = s.found /\ Preview(request).checked = s.checked
  BY <1>4, <1>6, SearchFinds DEF Preview
<1> HIDE DEF s, due
<1>10. s.found \in Seq(Nat) /\ s.checked \in Nat /\ Len(s.found) \in Nat
  BY <1>9 DEF FoundAll, SearchStates
<1>11. ToSet(s.found) = {n \in start + 1 .. start + s.checked : due(n)}
  <2>1. LookedAt(s, request) = start + 1 .. start + s.checked
    BY <1>4 DEF LookedAt
  <2>2. QED
    BY <1>8, <1>9, <2>1 DEF FoundAll, ToSet
<1>12. \A i, j \in DOMAIN s.found : i < j => s.found[i] < s.found[j]
  BY <1>9 DEF FoundAll
<1>13. Cardinality(ToSet(s.found)) = Len(s.found)
  <2>1. \A i, j \in DOMAIN s.found : i < j => s.found[i] # s.found[j]
    BY <1>10, <1>12
  <2>2. QED
    BY <1>10, <2>1, NoRepeats
<1>14. /\ s.checked = horizon \/ Len(s.found) = MaxOccurrences
       /\ Len(s.found) <= MaxOccurrences
  BY <1>9 DEF FoundAll
<1>15. /\ work'.made.occurrences = s.found /\ work'.made.checked = s.checked
       /\ work'.request.from = start /\ work'.request.horizon = horizon
  BY <1>3, <1>4, <1>9
<1>16. /\ work'.accepted
       /\ ToSet(work'.made.occurrences)
            = {n \in work'.request.from + 1 .. work'.request.from + work'.made.checked : due(n)}
       /\ \A i, j \in DOMAIN work'.made.occurrences :
            i < j => work'.made.occurrences[i] < work'.made.occurrences[j]
       /\ \/ work'.made.checked = work'.request.horizon
          \/ Cardinality(ToSet(work'.made.occurrences)) = MaxOccurrences
       /\ Cardinality(ToSet(work'.made.occurrences)) <= MaxOccurrences
  BY <1>3, <1>7, <1>11, <1>12, <1>13, <1>14, <1>15
<1>17. QED
  BY <1>3, <1>16 DEF PreviewIsRight, due, says, all

-----------------------------------------------------------------------------
(***************************************************************************)
(* The certificate chain.                                                  *)
(***************************************************************************)
\* A set of numbers has a first one.
LEMMA FirstOf ==
    ASSUME NEW X \in SUBSET Nat, X # {}
    PROVE  \E i \in X : \A j \in 1 .. i - 1 : j \notin X
<1>1. PICK i \in X : \A m \in X : i <= m
  BY LeastNat
<1>2. \A j \in 1 .. i - 1 : j \in Nat /\ ~(i <= j)
  BY <1>1
<1>3. QED
  BY <1>1, <1>2

AreCertificates(certs) == certs \in Seq([subject : Names, issuer : Names]) /\ Len(certs) > 1

Orders(certs) == Seq(DOMAIN certs) \ {<<>>}

LEMMA OrderIs ==
    ASSUME NEW certs, NEW order \in Orders(certs)
    PROVE  /\ order \in Seq(DOMAIN certs)
           /\ Len(order) \in Nat \ {0} /\ DOMAIN order = 1 .. Len(order)
           /\ Last(order) = order[Len(order)] /\ Last(order) \in DOMAIN certs
           /\ ToSet(order) = {order[i] : i \in 1 .. Len(order)}
           /\ ToSet(order) \subseteq DOMAIN certs
<1> DEFINE D == DOMAIN certs
<1>1. order \in Seq(D) /\ order # <<>>
  BY DEF Orders
<1> HIDE DEF D
<1>2. Len(order) \in Nat /\ DOMAIN order = 1 .. Len(order) /\ Len(order) # 0
  BY <1>1
<1>3. \A i \in 1 .. Len(order) : order[i] \in D
  BY <1>1
<1>4. Last(order) = order[Len(order)] /\ Last(order) \in D
  BY <1>2, <1>3 DEF Last
<1>5. ToSet(order) = {order[i] : i \in 1 .. Len(order)} /\ ToSet(order) \subseteq D
  BY <1>2, <1>3 DEF ToSet
<1>6. QED
  BY <1>1, <1>2, <1>4, <1>5 DEF D

LEMMA LeafIs ==
    ASSUME NEW certs, AreCertificates(certs)
    PROVE  /\ LeafOf(certs) \in DOMAIN certs
           /\ (\E i \in DOMAIN certs : ~IssuesAnother(certs, i)) => ~IssuesAnother(certs, LeafOf(certs))
<1> DEFINE D == DOMAIN certs
           IsStart(i) == ~Issues(certs, i) \/ SelfIssued(certs[i])
           IsLeaf(i) == ~IssuesAnother(certs, i)
           start == FirstThat(certs, LAMBDA i : ~Issues(certs, i) \/ SelfIssued(certs[i]))
           leaf == FirstThat(certs, LAMBDA i : ~IssuesAnother(certs, i))
<1>1. D = 1 .. Len(certs) /\ Len(certs) \in Nat /\ 1 \in D
  BY DEF AreCertificates
<1>2. start = IF \E i \in D : IsStart(i)
              THEN CHOOSE i \in D : IsStart(i) /\ \A j \in 1 .. i - 1 : ~IsStart(j) ELSE 0
  BY DEF FirstThat
<1>3. leaf = IF \E i \in D : IsLeaf(i)
             THEN CHOOSE i \in D : IsLeaf(i) /\ \A j \in 1 .. i - 1 : ~IsLeaf(j) ELSE 0
  BY DEF FirstThat
<1>4. LeafOf(certs) = IF leaf # 0 THEN leaf ELSE IF start # 0 THEN start ELSE 1
  BY DEF LeafOf
<1> HIDE DEF start, leaf, IsStart, IsLeaf
<1>5. start = 0 \/ start \in D
  <2>1. CASE \E i \in D : IsStart(i)
    <3> DEFINE X == {i \in D : IsStart(i)}
    <3>1. X \in SUBSET Nat /\ X # {}
      BY <1>1, <2>1
    <3>2. PICK i \in X : \A j \in 1 .. i - 1 : j \notin X
      <4> HIDE DEF X
      <4>1. QED
        BY <3>1, FirstOf
    <3>3. i \in D /\ IsStart(i) /\ \A j \in 1 .. i - 1 : ~IsStart(j)
      BY <1>1, <3>2
    <3>4. QED
      BY <1>2, <2>1, <3>3
  <2>2. QED
    BY <1>2, <2>1
<1>6. (leaf = 0 /\ ~\E i \in D : IsLeaf(i)) \/ (leaf \in D /\ IsLeaf(leaf))
  <2>1. CASE \E i \in D : IsLeaf(i)
    <3> DEFINE X == {i \in D : IsLeaf(i)}
    <3>1. X \in SUBSET Nat /\ X # {}
      BY <1>1, <2>1
    <3>2. PICK i \in X : \A j \in 1 .. i - 1 : j \notin X
      <4> HIDE DEF X
      <4>1. QED
        BY <3>1, FirstOf
    <3>3. i \in D /\ IsLeaf(i) /\ \A j \in 1 .. i - 1 : ~IsLeaf(j)
      BY <1>1, <3>2
    <3>4. QED
      BY <1>3, <2>1, <3>3
  <2>2. QED
    BY <1>3, <2>1
<1>7. LeafOf(certs) \in D /\ ((\E i \in D : IsLeaf(i)) => IsLeaf(LeafOf(certs)))
  BY <1>1, <1>4, <1>5, <1>6
<1>8. QED
  BY <1>7 DEF IsLeaf

\* Either the order stays, at a root or for want of an issuer, or one is added.
LEMMA NextIs ==
    ASSUME NEW certs, AreCertificates(certs), NEW order \in Orders(certs)
    PROVE  \/ /\ NextIssuer(certs, order) = order
              /\ \/ SelfIssued(certs[Last(order)])
                 \/ \A i \in DOMAIN certs \ ToSet(order) :
                      certs[i].subject # certs[Last(order)].issuer
           \/ /\ ~SelfIssued(certs[Last(order)])
              /\ \E i \in DOMAIN certs \ ToSet(order) :
                   /\ certs[i].subject = certs[Last(order)].issuer
                   /\ NextIssuer(certs, order) = Append(order, i)
<1> DEFINE D == DOMAIN certs
           last == Last(order)
           Fits(i) == i \notin ToSet(order) /\ certs[i].subject = certs[last].issuer
           next == FirstThat(certs, LAMBDA i : i \notin ToSet(order) /\ certs[i].subject = certs[last].issuer)
<1>1. D = 1 .. Len(certs) /\ Len(certs) \in Nat
  BY DEF AreCertificates
<1>2. next = IF \E i \in D : Fits(i)
             THEN CHOOSE i \in D : Fits(i) /\ \A j \in 1 .. i - 1 : ~Fits(j) ELSE 0
  BY DEF FirstThat
<1>3. NextIssuer(certs, order) =
        IF SelfIssued(certs[last]) \/ next = 0 THEN order ELSE Append(order, next)
  BY DEF NextIssuer
<1> HIDE DEF next, Fits
<1>4. (next = 0 /\ ~\E i \in D : Fits(i)) \/ (next \in D /\ Fits(next))
  <2>1. CASE \E i \in D : Fits(i)
    <3> DEFINE X == {i \in D : Fits(i)}
    <3>1. X \in SUBSET Nat /\ X # {}
      BY <1>1, <2>1
    <3>2. PICK i \in X : \A j \in 1 .. i - 1 : j \notin X
      <4> HIDE DEF X
      <4>1. QED
        BY <3>1, FirstOf
    <3>3. i \in D /\ Fits(i) /\ \A j \in 1 .. i - 1 : ~Fits(j)
      BY <1>1, <3>2
    <3>4. QED
      BY <1>2, <2>1, <3>3
  <2>2. QED
    BY <1>2, <2>1
<1>5. 0 \notin D
  BY <1>1
<1>6. CASE SelfIssued(certs[last])
  BY <1>3, <1>6
<1>7. CASE ~SelfIssued(certs[last]) /\ next = 0
  <2>1. \A i \in D \ ToSet(order) : certs[i].subject # certs[last].issuer
    BY <1>4, <1>5, <1>7 DEF Fits
  <2>2. QED
    BY <1>3, <1>7, <2>1
<1>8. CASE ~SelfIssued(certs[last]) /\ next # 0
  <2>1. next \in D \ ToSet(order) /\ certs[next].subject = certs[last].issuer
    BY <1>4, <1>8 DEF Fits
  <2>2. NextIssuer(certs, order) = Append(order, next)
    BY <1>3, <1>8
  <2>3. QED
    BY <1>8, <2>1, <2>2
<1>9. QED
  BY <1>6, <1>7, <1>8

LEMMA NextIsOrder ==
    ASSUME NEW certs, AreCertificates(certs), NEW order \in Orders(certs)
    PROVE  NextIssuer(certs, order) \in Orders(certs)
<1>1. \A i \in DOMAIN certs : Append(order, i) \in Orders(certs)
  <2> DEFINE D == DOMAIN certs
  <2>1. order \in Seq(D)
    BY OrderIs
  <2> HIDE DEF D
  <2>2. ASSUME NEW i \in D PROVE Append(order, i) \in Seq(D) /\ Append(order, i) # <<>>
    <3> DEFINE t == Append(order, i)
    <3>1. t \in Seq(D) /\ Len(order) \in Nat /\ Len(t) = Len(order) + 1
      BY <2>1, AppendIs
    <3>2. Len(<<>>) = 0
      OBVIOUS
    <3>3. QED
      BY <3>1, <3>2
  <2>3. QED
    BY <2>2 DEF Orders, D
<1>2. QED
  BY <1>1, NextIs

LEMMA ChainIs ==
    ASSUME NEW certs, AreCertificates(certs)
    PROVE  /\ \A n \in 0 .. Len(certs) : ChainOf(certs)[n] \in Orders(certs)
           /\ ChainOf(certs)[0] = <<LeafOf(certs)>>
           /\ \A n \in 1 .. Len(certs) :
                ChainOf(certs)[n] = NextIssuer(certs, ChainOf(certs)[n - 1])
<1> DEFINE N == Len(certs)
           S == 0 .. Len(certs)
           start == <<LeafOf(certs)>>
           V == Orders(certs)
           Body(f, n) == IF n = 0 THEN <<LeafOf(certs)>> ELSE NextIssuer(certs, f[n - 1])
           step == [order \in V |-> NextIssuer(certs, order)]
<1>0. N \in Nat
  BY DEF AreCertificates
<1>1. start \in V
  <2> DEFINE D == DOMAIN certs
  <2>1. LeafOf(certs) \in D
    BY LeafIs
  <2> HIDE DEF D
  <2>2. start \in Seq(D) /\ start # <<>>
    BY <2>1
  <2>3. QED
    BY <2>2 DEF Orders, D
<1>2. \A order \in V : NextIssuer(certs, order) \in V
  BY NextIsOrder
<1>2a. \A n, f : Body(f, n) = IF n = 0 THEN start ELSE NextIssuer(certs, f[n - 1])
  OBVIOUS
<1>3. ChainOf(certs) = CHOOSE g : g = [n \in S |-> Body(g, n)]
  BY DEF ChainOf
<1> HIDE DEF start, Body, V, N
<1>4. PICK f : f = [n \in S |-> Body(f, n)]
  <2>1. step \in [V -> V]
    BY <1>2
  <2>2. \E f : IsIteration(f, N, V, start, step)
    <3> HIDE DEF step
    <3>1. QED
      BY <1>0, <1>1, <2>1, Iterated
  <2>3. PICK f \in [S -> V] : f[0] = start /\ \A n \in 1 .. N : f[n] = step[f[n - 1]]
    <3> HIDE DEF step
    <3>1. QED
      BY <2>2 DEF IsIteration, N
  <2>4. ASSUME NEW n \in S PROVE f[n] = Body(f, n)
    <3>1. CASE n = 0
      BY <1>2a, <2>3, <3>1
    <3>2. CASE n # 0
      <4>1. n \in 1 .. N /\ n - 1 \in S
        BY <1>0, <3>2 DEF N
      <4>2. f[n] = step[f[n - 1]] /\ f[n - 1] \in V
        BY <2>3, <4>1
      <4>3. QED
        BY <1>2a, <3>2, <4>2
    <3>3. QED
      BY <3>1, <3>2
  <2>5. QED
    BY <2>3, <2>4
<1> DEFINE chain == ChainOf(certs)
<1>5. chain = [n \in S |-> Body(chain, n)]
  BY <1>3, <1>4
<1> HIDE DEF chain
<1>6. \A n \in S : chain[n] = Body(chain, n)
  BY <1>5
<1>7. chain[0] = start /\ \A n \in 1 .. N : chain[n] = NextIssuer(certs, chain[n - 1])
  <2>1. 0 \in S /\ \A n \in 1 .. N : n \in S /\ n # 0
    BY <1>0 DEF N
  <2>2. QED
    BY <1>2a, <1>6, <2>1
<1>8. \A n \in S : chain[n] \in V
  <2> DEFINE T == {n \in Nat : n \in S => chain[n] \in V}
  <2>1. 0 \in T
    BY <1>1, <1>7
  <2>2. ASSUME NEW n \in T PROVE n + 1 \in T
    <3> SUFFICES ASSUME n + 1 \in S PROVE chain[n + 1] \in V
      BY <2>2
    <3>1. n \in S /\ chain[n] \in V /\ n + 1 \in 1 .. N
      BY <1>0, <2>2 DEF N
    <3>2. chain[n + 1] = NextIssuer(certs, chain[n])
      BY <1>7, <3>1
    <3>3. QED
      BY <1>2, <3>1, <3>2
  <2>3. T = Nat
    <3>1. T \subseteq Nat
      OBVIOUS
    <3> HIDE DEF T
    <3>2. QED
      BY <2>1, <2>2, <3>1, NatSetInduction
  <2>4. QED
    BY <1>0, <2>3 DEF N
<1>9. QED
  BY <1>7, <1>8 DEF chain, start, V, N

\* What ChainIsFound asks of an order.
IsPath(certs, order) ==
    \A k \in 1 .. Len(order) - 1 :
      /\ certs[order[k]].issuer = certs[order[k + 1]].subject
      /\ ~SelfIssued(certs[order[k]])
      /\ \A l \in k + 1 .. Len(order) : order[l] # order[k]

IsWhole(certs, order) ==
    Len(order) = Len(certs) /\ IsPath(certs, order) /\ SelfIssued(certs[Last(order)])

LEMMA NextIsPath ==
    ASSUME NEW certs, AreCertificates(certs), NEW order \in Orders(certs), IsPath(certs, order)
    PROVE  IsPath(certs, NextIssuer(certs, order))
<1>1. CASE NextIssuer(certs, order) = order
  BY <1>1
<1>2. ASSUME NEW i \in DOMAIN certs \ ToSet(order),
             certs[i].subject = certs[Last(order)].issuer,
             ~SelfIssued(certs[Last(order)])
      PROVE  IsPath(certs, Append(order, i))
  <2> DEFINE D == DOMAIN certs
             t == Append(order, i)
             n == Len(order)
  <2>1. /\ order \in Seq(D) /\ n \in Nat \ {0} /\ DOMAIN order = 1 .. n
        /\ Last(order) = order[n] /\ ToSet(order) = {order[k] : k \in 1 .. n}
    BY OrderIs
  <2>2. i \in D /\ \A k \in 1 .. n : order[k] # i
    BY <1>2, <2>1
  <2> HIDE DEF D
  <2>3. Len(t) = n + 1 /\ t[n + 1] = i /\ \A k \in 1 .. n : t[k] = order[k]
    BY <2>1, <2>2
  <2> HIDE DEF t, n
  <2>4. \A k \in 1 .. n - 1 :
          /\ certs[order[k]].issuer = certs[order[k + 1]].subject
          /\ ~SelfIssued(certs[order[k]])
          /\ \A l \in k + 1 .. n : order[l] # order[k]
    BY DEF IsPath, n
  <2>5. ASSUME NEW k \in 1 .. n - 1
        PROVE  /\ certs[t[k]].issuer = certs[t[k + 1]].subject
               /\ ~SelfIssued(certs[t[k]])
               /\ \A l \in k + 1 .. n + 1 : t[l] # t[k]
    <3>1. k \in 1 .. n /\ k + 1 \in 1 .. n /\ t[k] = order[k] /\ t[k + 1] = order[k + 1]
      BY <2>1, <2>3
    <3>2. ASSUME NEW l \in k + 1 .. n + 1 PROVE t[l] # t[k]
      <4>1. CASE l \in k + 1 .. n
        <5>1. l \in 1 .. n /\ t[l] = order[l]
          BY <2>1, <2>3, <4>1
        <5>2. QED
          BY <2>4, <3>1, <4>1, <5>1
      <4>2. CASE l = n + 1
        BY <2>2, <2>3, <3>1, <4>2
      <4>3. QED
        BY <2>1, <4>1, <4>2
    <3>3. QED
      BY <2>4, <3>1, <3>2
  <2>6. ASSUME NEW k, k = n
        PROVE  /\ certs[t[k]].issuer = certs[t[k + 1]].subject
               /\ ~SelfIssued(certs[t[k]])
               /\ \A l \in k + 1 .. n + 1 : t[l] # t[k]
    <3>1. k \in 1 .. n /\ t[k] = order[n] /\ t[k + 1] = i
      BY <2>1, <2>3, <2>6
    <3>2. \A l \in k + 1 .. n + 1 : l = n + 1
      BY <2>1, <2>6
    <3>3. QED
      BY <1>2, <2>1, <2>2, <2>3, <3>1, <3>2
  <2>7. \A k \in 1 .. Len(t) - 1 : k \in 1 .. n - 1 \/ k = n
    BY <2>1, <2>3
  <2>8. IsPath(certs, t)
    BY <2>3, <2>5, <2>6, <2>7 DEF IsPath
  <2>9. QED
    BY <2>8 DEF t
<1>3. QED
  BY <1>1, <1>2, NextIs

LEMMA ChainIsPath ==
    ASSUME NEW certs, AreCertificates(certs), NEW n \in 0 .. Len(certs)
    PROVE  IsPath(certs, ChainOf(certs)[n])
<1> DEFINE chain == ChainOf(certs)
           T == {m \in Nat : m \in 0 .. Len(certs) => IsPath(certs, chain[m])}
<1>0. Len(certs) \in Nat
  BY DEF AreCertificates
<1>1. /\ \A m \in 0 .. Len(certs) : chain[m] \in Orders(certs)
      /\ chain[0] = <<LeafOf(certs)>>
      /\ \A m \in 1 .. Len(certs) : chain[m] = NextIssuer(certs, chain[m - 1])
  BY ChainIs
<1> HIDE DEF chain
<1>2. 0 \in T
  <2>1. Len(chain[0]) = 1
    BY <1>1
  <2>2. \A k \in 1 .. Len(chain[0]) - 1 : FALSE
    BY <2>1
  <2>3. QED
    BY <2>2 DEF IsPath
<1>3. ASSUME NEW m \in T PROVE m + 1 \in T
  <2> SUFFICES ASSUME m + 1 \in 0 .. Len(certs) PROVE IsPath(certs, chain[m + 1])
    BY <1>3
  <2>1. m \in 0 .. Len(certs) /\ m + 1 \in 1 .. Len(certs) /\ IsPath(certs, chain[m])
    BY <1>0, <1>3
  <2>2. chain[m] \in Orders(certs) /\ chain[m + 1] = NextIssuer(certs, chain[m])
    BY <1>1, <2>1
  <2>3. QED
    BY <2>1, <2>2, NextIsPath
<1>4. T = Nat
  <2>1. T \subseteq Nat
    OBVIOUS
  <2> HIDE DEF T
  <2>2. QED
    BY <1>2, <1>3, <2>1, NatSetInduction
<1>5. QED
  BY <1>0, <1>4 DEF chain

\* A path that is whole takes in every certificate.
TakesAll(certs, w) ==
    /\ w \in Seq(DOMAIN certs) /\ DOMAIN certs = 1 .. Len(certs)
    /\ Len(certs) \in Nat /\ Len(certs) > 1 /\ Len(w) = Len(certs)
    /\ SelfIssued(certs[w[Len(certs)]])
    /\ \A k \in 1 .. Len(certs) - 1 :
         certs[w[k]].issuer = certs[w[k + 1]].subject /\ ~SelfIssued(certs[w[k]])
    /\ \A k, l \in 1 .. Len(certs) : k # l => w[k] # w[l]
    /\ \A i \in DOMAIN certs : \E k \in 1 .. Len(certs) : w[k] = i

LEMMA WholeTakesAll ==
    ASSUME NEW certs, AreCertificates(certs),
           NEW w \in [DOMAIN certs -> DOMAIN certs], IsWhole(certs, w)
    PROVE  TakesAll(certs, w)
<1> DEFINE N == Len(certs)
           D == DOMAIN certs
<1>1. N \in Nat /\ N > 1 /\ D = 1 .. N
  BY DEF AreCertificates
<1>2. w \in [1 .. N -> 1 .. N]
  BY <1>1
<1> HIDE DEF N, D
<1>3. w \in Seq(D) /\ Len(w) = N /\ Last(w) = w[N]
  BY <1>1, <1>2 DEF Last
<1>4. SelfIssued(certs[w[N]])
  BY <1>3 DEF IsWhole
<1>5. \A k \in 1 .. N - 1 :
        /\ certs[w[k]].issuer = certs[w[k + 1]].subject
        /\ ~SelfIssued(certs[w[k]])
        /\ \A l \in k + 1 .. N : w[l] # w[k]
  BY <1>3 DEF IsWhole, IsPath
<1>6. ASSUME NEW k \in 1 .. N, NEW l \in 1 .. N, k # l PROVE w[k] # w[l]
  <2>1. CASE k < l
    <3>1. k \in 1 .. N - 1 /\ l \in k + 1 .. N
      BY <1>1, <2>1
    <3>2. QED
      BY <1>5, <3>1
  <2>2. CASE l < k
    <3>1. l \in 1 .. N - 1 /\ k \in l + 1 .. N
      BY <1>1, <2>2
    <3>2. QED
      BY <1>5, <3>1
  <2>3. QED
    BY <1>1, <1>6, <2>1, <2>2
<1>7. w \in Injection(1 .. N, 1 .. N)
  BY <1>2, <1>6 DEF Injection, IsInjective
<1>8. IsFiniteSet(1 .. N)
  BY <1>1, FS_Interval
<1>9. w \in Surjection(1 .. N, 1 .. N)
  BY <1>7, <1>8, FS_Injection
<1>10. \A i \in 1 .. N : \E k \in 1 .. N : w[k] = i
  BY <1>9 DEF Surjection
<1>11. QED
  BY <1>1, <1>3, <1>4, <1>5, <1>6, <1>10 DEF TakesAll, N, D

Told(certs) == \A i, j \in DOMAIN certs : i # j => certs[i].subject # certs[j].subject

\* Of a whole path only the first certificate issued no other.
LEMMA LeafIsFirst ==
    ASSUME NEW certs, AreCertificates(certs), Told(certs),
           NEW w \in [DOMAIN certs -> DOMAIN certs], IsWhole(certs, w)
    PROVE  LeafOf(certs) = w[1]
<1> DEFINE N == Len(certs)
           D == DOMAIN certs
<1>0. TakesAll(certs, w)
  BY WholeTakesAll
<1>1. /\ D = 1 .. N /\ N \in Nat /\ N > 1
      /\ SelfIssued(certs[w[N]])
      /\ \A k \in 1 .. N - 1 :
           certs[w[k]].issuer = certs[w[k + 1]].subject /\ ~SelfIssued(certs[w[k]])
      /\ \A k, l \in 1 .. N : k # l => w[k] # w[l]
      /\ \A i \in D : \E k \in 1 .. N : w[k] = i
  BY <1>0 DEF TakesAll
<1>2. \A k \in 1 .. N : w[k] \in D
  BY <1>1
<1> HIDE DEF N, D
<1>3. ASSUME IssuesAnother(certs, w[1]) PROVE FALSE
  <2>1. PICK j \in D \ {w[1]} : certs[j].issuer = certs[w[1]].subject
    BY <1>3 DEF IssuesAnother, D
  <2>2. PICK m \in 1 .. N : w[m] = j
    BY <1>1, <2>1
  <2>3. 1 \in 1 .. N /\ m # 1
    <3>1. w[m] # w[1]
      BY <2>1, <2>2
    <3>2. m # 1
      BY <3>1
    <3>3. 1 \in 1 .. N
      <4>1. N \in Nat /\ N > 1
        BY <1>1
      <4>2. QED
        BY <4>1
    <3>4. QED
      BY <3>2, <3>3
  <2>4. CASE m \in 1 .. N - 1
    <3>1. m + 1 \in 1 .. N /\ m + 1 # 1
      BY <1>1, <2>4
    <3>2. certs[w[m + 1]].subject = certs[w[1]].subject
      BY <1>1, <2>1, <2>2, <2>4
    <3>3. w[m + 1] # w[1] /\ w[m + 1] \in D /\ w[1] \in D
      BY <1>1, <1>2, <2>3, <3>1
    <3>4. QED
      BY <3>2, <3>3 DEF Told, D
  <2>5. CASE m = N
    <3>1. certs[w[N]].subject = certs[w[1]].subject
      BY <1>1, <2>1, <2>2, <2>5 DEF SelfIssued
    <3>2. w[N] # w[1] /\ w[N] \in D /\ w[1] \in D
      BY <1>1, <1>2, <2>2, <2>3, <2>5
    <3>3. QED
      BY <3>1, <3>2 DEF Told, D
  <2>6. QED
    BY <1>1, <2>4, <2>5
<1>4. LeafOf(certs) \in D /\ ~IssuesAnother(certs, LeafOf(certs))
  <2>1. 1 \in 1 .. N
    BY <1>1
  <2>2. QED
    BY <1>2, <1>3, <2>1, LeafIs DEF D
<1>5. PICK m \in 1 .. N : w[m] = LeafOf(certs)
  BY <1>1, <1>4
<1>6. ASSUME m # 1 PROVE FALSE
  <2>1. m - 1 \in 1 .. N - 1 /\ m - 1 \in 1 .. N /\ m - 1 # m /\ (m - 1) + 1 = m
    BY <1>1, <1>6
  <2>2. certs[w[m - 1]].issuer = certs[w[m]].subject
    BY <1>1, <2>1
  <2>3. w[m - 1] \in D \ {w[m]}
    BY <1>1, <1>2, <2>1
  <2>4. IssuesAnother(certs, w[m])
    BY <2>2, <2>3 DEF IssuesAnother, D
  <2>5. QED
    BY <1>4, <1>5, <2>4
<1>7. QED
  BY <1>5, <1>6

\* When subjects tell certificates apart the loop follows a whole path.
Follows(order, w, n) == Len(order) = n + 1 /\ \A k \in 1 .. n + 1 : order[k] = w[k]

LEMMA ChainFollows ==
    ASSUME NEW certs, AreCertificates(certs), Told(certs),
           NEW w \in [DOMAIN certs -> DOMAIN certs], IsWhole(certs, w),
           NEW n \in Nat, n < Len(certs)
    PROVE  Follows(ChainOf(certs)[n], w, n)
<1> DEFINE N == Len(certs)
           D == DOMAIN certs
           chain == ChainOf(certs)
           T == {m \in Nat : m < N => Follows(chain[m], w, m)}
<1>0. TakesAll(certs, w)
  BY WholeTakesAll
<1>1. /\ D = 1 .. N /\ N \in Nat /\ N > 1
      /\ \A k \in 1 .. N - 1 :
           certs[w[k]].issuer = certs[w[k + 1]].subject /\ ~SelfIssued(certs[w[k]])
      /\ \A k, l \in 1 .. N : k # l => w[k] # w[l]
  BY <1>0 DEF TakesAll
<1>2. /\ \A m \in 0 .. N : chain[m] \in Orders(certs)
      /\ chain[0] = <<LeafOf(certs)>>
      /\ \A m \in 1 .. N : chain[m] = NextIssuer(certs, chain[m - 1])
  BY ChainIs
<1>3. \A k \in 1 .. N : w[k] \in D
  BY <1>1
<1> HIDE DEF N, D, chain
<1>4. 0 \in T
  <2>1. chain[0] = <<w[1]>>
    BY <1>2, LeafIsFirst
  <2>2. Len(chain[0]) = 0 + 1 /\ \A k \in 1 .. 0 + 1 : chain[0][k] = w[k]
    BY <2>1
  <2>3. QED
    BY <2>2 DEF Follows
<1>5. ASSUME NEW m \in T PROVE m + 1 \in T
  <2> SUFFICES ASSUME m + 1 < N PROVE Follows(chain[m + 1], w, m + 1)
    BY <1>5
  <2>1. m \in Nat /\ m \in 0 .. N /\ m + 1 \in 1 .. N /\ m + 1 \in 1 .. N - 1 /\ m + 2 \in 1 .. N
        /\ (m + 1) + 1 = m + 2
    BY <1>1, <1>5
  <2>2. Follows(chain[m], w, m)
    BY <1>1, <1>5, <2>1
  <2> DEFINE order == chain[m]
  <2>3. order \in Orders(certs) /\ chain[m + 1] = NextIssuer(certs, order)
    BY <1>2, <2>1
  <2> HIDE DEF order
  <2>4. Len(order) = m + 1 /\ \A k \in 1 .. m + 1 : order[k] = w[k]
    BY <2>2 DEF Follows, order
  <2>5. /\ order \in Seq(D) /\ Last(order) = order[Len(order)]
        /\ ToSet(order) = {order[i] : i \in 1 .. Len(order)}
    BY <2>3, OrderIs DEF D
  <2>6. Last(order) = w[m + 1]
    BY <2>1, <2>4, <2>5
  <2>7. ~SelfIssued(certs[w[m + 1]]) /\ certs[w[m + 1]].issuer = certs[w[m + 2]].subject
    BY <1>1, <2>1
  <2>8. w[m + 2] \in D \ ToSet(order)
    <3>1. \A i \in 1 .. m + 1 : i \in 1 .. N /\ i # m + 2
      BY <1>1, <2>1
    <3>2. \A i \in 1 .. m + 1 : w[i] # w[m + 2]
      BY <1>1, <2>1, <3>1
    <3>3. \A i \in 1 .. Len(order) : order[i] # w[m + 2]
      BY <2>4, <3>2
    <3>4. w[m + 2] \in D
      BY <1>3, <2>1
    <3>5. QED
      BY <2>5, <3>3, <3>4
  <2>9. PICK i \in D \ ToSet(order) :
          /\ certs[i].subject = certs[Last(order)].issuer
          /\ NextIssuer(certs, order) = Append(order, i)
    <3>1. certs[w[m + 2]].subject = certs[Last(order)].issuer /\ ~SelfIssued(certs[Last(order)])
      BY <2>6, <2>7
    <3>2. QED
      BY <2>3, <2>8, <3>1, NextIs DEF D
  <2>10. i = w[m + 2]
    BY <2>6, <2>7, <2>8, <2>9 DEF Told, D
  <2>11. Len(Append(order, i)) = (m + 1) + 1 /\ Append(order, i)[m + 2] = i
         /\ \A k \in 1 .. m + 1 : Append(order, i)[k] = order[k]
    BY <2>4, <2>5, <2>9
  <2>12. Len(chain[m + 1]) = (m + 1) + 1
    BY <2>3, <2>9, <2>11
  <2>13. ASSUME NEW k \in 1 .. (m + 1) + 1 PROVE chain[m + 1][k] = w[k]
    <3>1. k \in 1 .. m + 1 \/ k = m + 2
      BY <2>1
    <3>2. QED
      BY <2>3, <2>4, <2>9, <2>10, <2>11, <3>1
  <2>14. QED
    BY <2>12, <2>13 DEF Follows
<1>6. T = Nat
  <2>1. T \subseteq Nat
    OBVIOUS
  <2> HIDE DEF T
  <2>2. QED
    BY <1>4, <1>5, <2>1, NatSetInduction
<1>7. QED
  BY <1>6 DEF N, chain

LEMMA WholeIsComplete ==
    ASSUME NEW certs, AreCertificates(certs), Told(certs),
           NEW w \in [DOMAIN certs -> DOMAIN certs], IsWhole(certs, w)
    PROVE  OrderChain(certs).complete
<1> DEFINE N == Len(certs)
           D == DOMAIN certs
           chain == ChainOf(certs)
           order == chain[N - 1]
<1>0. TakesAll(certs, w)
  BY WholeTakesAll
<1>1. /\ D = 1 .. N /\ N \in Nat /\ N > 1
      /\ SelfIssued(certs[w[N]])
      /\ \A i \in D : \E k \in 1 .. N : w[k] = i
  BY <1>0 DEF TakesAll
<1>2. order \in Orders(certs) /\ chain[N] = NextIssuer(certs, order)
  <2> HIDE DEF N
  <2>1. N - 1 \in 0 .. N /\ N \in 1 .. N
    BY <1>1
  <2>2. QED
    BY <2>1, ChainIs DEF N
<1>3. Follows(order, w, N - 1)
  <2>1. N - 1 \in Nat /\ N - 1 < N
    BY <1>1
  <2>2. QED
    BY <2>1, ChainFollows
<1>4. OrderChain(certs).complete = (ToSet(chain[N]) = D /\ SelfIssued(certs[Last(chain[N])]))
  <2>1. ~(Len(certs) <= 1)
    BY <1>1
  <2>2. QED
    BY <2>1 DEF OrderChain
<1> HIDE DEF N, D, chain, order
<1>5. Len(order) = N /\ \A k \in 1 .. N : order[k] = w[k]
  BY <1>1, <1>3 DEF Follows
<1>6. /\ Last(order) = order[Len(order)]
      /\ ToSet(order) = {order[i] : i \in 1 .. Len(order)} /\ ToSet(order) \subseteq D
  BY <1>2, OrderIs DEF D
<1>7. Last(order) = w[N]
  BY <1>1, <1>5, <1>6
<1>8. chain[N] = order
  <2>1. SelfIssued(certs[Last(order)])
    BY <1>1, <1>7
  <2>2. QED
    BY <1>2, <2>1 DEF NextIssuer
<1>9. ToSet(order) = D
  <2>1. ASSUME NEW i \in D PROVE i \in ToSet(order)
    <3>1. PICK k \in 1 .. N : w[k] = i
      BY <1>1
    <3>2. k \in 1 .. Len(order) /\ order[k] = i
      BY <1>5, <3>1
    <3>3. QED
      BY <1>6, <3>2
  <2>2. QED
    BY <1>6, <2>1
<1>10. QED
  BY <1>1, <1>4, <1>7, <1>8, <1>9

LEMMA CompleteIsWhole ==
    ASSUME NEW certs, AreCertificates(certs)
    PROVE  LET chain == OrderChain(certs)
           IN IsPath(certs, chain.order) /\ (chain.complete => IsWhole(certs, chain.order))
<1> DEFINE N == Len(certs)
           D == DOMAIN certs
           order == ChainOf(certs)[N]
<1>1. N \in Nat /\ D = 1 .. N /\ N \in 0 .. N /\ ~(N <= 1)
  BY DEF AreCertificates
<1>2. order \in Orders(certs) /\ IsPath(certs, order)
  BY <1>1, ChainIs, ChainIsPath
<1>3. OrderChain(certs) =
        [order |-> order, complete |-> ToSet(order) = D /\ SelfIssued(certs[Last(order)])]
  BY <1>1 DEF OrderChain
<1> HIDE DEF N, D, order
<1>4. ASSUME ToSet(order) = D PROVE Len(order) = N
  <2>1. order \in Seq(D) /\ DOMAIN order = 1 .. Len(order) /\ Len(order) \in Nat
    BY <1>2, OrderIs DEF D
  <2>2. ASSUME NEW i \in DOMAIN order, NEW j \in DOMAIN order, i < j PROVE order[i] # order[j]
    <3>1. i \in 1 .. Len(order) - 1 /\ j \in i + 1 .. Len(order)
      BY <2>1, <2>2
    <3>2. QED
      BY <1>2, <3>1 DEF IsPath
  <2>3. Cardinality(ToSet(order)) = Len(order)
    BY <2>1, <2>2, NoRepeats
  <2>4. Cardinality(D) = N
    BY <1>1, FS_Interval
  <2>5. QED
    BY <1>4, <2>3, <2>4
<1>5. OrderChain(certs).order = order
      /\ OrderChain(certs).complete = (ToSet(order) = D /\ SelfIssued(certs[Last(order)]))
  BY <1>3
<1>6. QED
  BY <1>2, <1>4, <1>5 DEF IsWhole, N

LEMMA ChainStep ==
    ASSUME SubmitCertificates PROVE ChainIsFound'
<1>1. PICK certs \in Bundles :
        work' = [tool |-> "chain", certs |-> certs, chain |-> OrderChain(certs)]
  BY DEF SubmitCertificates
<1>2. work'.certs = certs /\ work'.chain = OrderChain(certs)
  BY <1>1
<1> SUFFICES ASSUME Len(certs) > 1
             PROVE  /\ IsPath(certs, OrderChain(certs).order)
                    /\ OrderChain(certs).complete => IsWhole(certs, OrderChain(certs).order)
                    /\ Told(certs) /\ (\E order \in [DOMAIN certs -> DOMAIN certs] : IsWhole(certs, order))
                         => OrderChain(certs).complete
  BY <1>2 DEF ChainIsFound, IsPath, IsWhole, Told
<1>3. AreCertificates(certs)
  <2> DEFINE R == [subject : Names, issuer : Names]
  <2>1. PICK n \in 1 .. MaxCerts : certs \in [1 .. n -> R]
    BY DEF Bundles
  <2>2. n \in Nat
    BY WorkbenchAssumption
  <2> HIDE DEF R
  <2>3. certs \in Seq(R)
    BY <2>1, <2>2
  <2>4. QED
    BY <2>3 DEF AreCertificates, R
<1>4. QED
  BY <1>3, CompleteIsWhole, WholeIsComplete

-----------------------------------------------------------------------------
(***************************************************************************)
(* The line diff.                                                          *)
(***************************************************************************)
\* What each cell of a table has from its neighbours before it.
PassesOn(G, n, m) ==
    \A i \in 0 .. n, j \in 0 .. m :
      /\ i > 0 => <<i - 1, j>> \in G
      /\ j > 0 => <<i, j - 1>> \in G
      /\ i > 0 /\ j > 0 => <<i - 1, j - 1>> \in G
      => <<i, j>> \in G

LEMMA CellInduction ==
    ASSUME NEW n \in Nat, NEW m \in Nat, NEW G, PassesOn(G, n, m)
    PROVE  \A i \in 0 .. n, j \in 0 .. m : <<i, j>> \in G
<1> DEFINE X == {s \in Nat : \E i \in 0 .. n, j \in 0 .. m : s = i + j /\ <<i, j>> \notin G}
<1>1. ASSUME X # {} PROVE FALSE
  <2>1. X \in SUBSET Nat
    OBVIOUS
  <2>2. PICK s \in X : \A r \in X : s <= r
    <3> HIDE DEF X
    <3>1. QED
      BY <1>1, <2>1, LeastNat
  <2>3. PICK i \in 0 .. n, j \in 0 .. m : s = i + j /\ <<i, j>> \notin G
    BY <2>2
  <2>4. \A a \in 0 .. n, b \in 0 .. m : a + b < i + j => <<a, b>> \in G
    <3> SUFFICES ASSUME NEW a \in 0 .. n, NEW b \in 0 .. m, a + b < i + j, <<a, b>> \notin G
                 PROVE  FALSE
      OBVIOUS
    <3>1. a + b \in X
      <4>1. a + b \in Nat
        OBVIOUS
      <4>2. \E k \in 0 .. n, l \in 0 .. m : a + b = k + l /\ <<k, l>> \notin G
        OBVIOUS
      <4>3. QED
        BY <4>1, <4>2
    <3> HIDE DEF X
    <3>2. i + j <= a + b
      BY <2>2, <2>3, <3>1
    <3>3. QED
      BY <3>2
  <2>5. i > 0 => <<i - 1, j>> \in G
    BY <2>4
  <2>6. j > 0 => <<i, j - 1>> \in G
    BY <2>4
  <2>7. i > 0 /\ j > 0 => <<i - 1, j - 1>> \in G
    BY <2>4
  <2>8. QED
    BY <2>3, <2>5, <2>6, <2>7 DEF PassesOn
<1>2. ASSUME NEW i \in 0 .. n, NEW j \in 0 .. m, <<i, j>> \notin G PROVE FALSE
  <2>1. i + j \in X
    BY <1>2
  <2>2. QED
    BY <1>1, <2>1
<1>3. QED
  BY <1>2

AreTexts(from, to) == from \in Seq(Lines) /\ to \in Seq(Lines)

LEMMA TextsAre ==
    ASSUME NEW from, NEW to, AreTexts(from, to)
    PROVE  /\ Len(from) \in Nat /\ Len(to) \in Nat
           /\ \A i \in 1 .. Len(from) : from[i] \in Lines
           /\ \A j \in 1 .. Len(to) : to[j] \in Lines
BY DEF AreTexts

CommonAt(f, from, to, ignoring, i, j) ==
    IF i = 0 \/ j = 0 THEN 0
    ELSE IF SameLine(from, to, i, j, ignoring) THEN f[<<i - 1, j - 1>>] + 1
    ELSE IF Longer(f[<<i - 1, j>>], f[<<i, j - 1>>]) THEN f[<<i - 1, j>>] ELSE f[<<i, j - 1>>]

IsCommon(f, from, to, ignoring) ==
    \A i \in 0 .. Len(from), j \in 0 .. Len(to) :
      f[<<i, j>>] \in Nat /\ f[<<i, j>>] = CommonAt(f, from, to, ignoring, i, j)

\* The table of common lengths is filled by its rule.
LEMMA CommonIs ==
    ASSUME NEW from, NEW to, NEW ignoring, AreTexts(from, to)
    PROVE  IsCommon(CommonLengths(from, to, ignoring), from, to, ignoring)
<1> DEFINE n == Len(from)
           m == Len(to)
           S == (0 .. n) \X (0 .. m)
           At(f, i, j) == CommonAt(f, from, to, ignoring, i, j)
           Body(f, c) == CommonAt(f, from, to, ignoring, c[1], c[2])
           rank == [c \in S |-> c[1] + c[2]]
           next == [c \in S |-> [f \in [S -> Nat] |-> Body(f, c)]]
           common == CommonLengths(from, to, ignoring)
<1>1. n \in Nat /\ m \in Nat
  BY TextsAre
<1>2. \A f, i, j : At(f, i, j) =
        IF i = 0 \/ j = 0 THEN 0
        ELSE IF SameLine(from, to, i, j, ignoring) THEN f[<<i - 1, j - 1>>] + 1
        ELSE IF Longer(f[<<i - 1, j>>], f[<<i, j - 1>>]) THEN f[<<i - 1, j>>] ELSE f[<<i, j - 1>>]
  BY DEF CommonAt
<1>3. common = CHOOSE g : g = [c \in S |-> Body(g, c)]
  BY DEF CommonLengths, CommonAt, Cells
<1>4. \A f, c : Body(f, c) = At(f, c[1], c[2])
  OBVIOUS
<1> HIDE DEF At, Body, n, m, common
<1>5. ASSUME NEW f, NEW i \in 0 .. n, NEW j \in 0 .. m,
             i > 0 => f[<<i - 1, j>>] \in Nat,
             j > 0 => f[<<i, j - 1>>] \in Nat,
             i > 0 /\ j > 0 => f[<<i - 1, j - 1>>] \in Nat
      PROVE  At(f, i, j) \in Nat
  <2>1. CASE i = 0 \/ j = 0
    BY <1>2, <2>1
  <2>2. CASE i > 0 /\ j > 0
    BY <1>2, <1>5, <2>2
  <2>3. QED
    BY <1>1, <2>1, <2>2
<1>6. Recursion(S, Nat, n + m, rank, next)
  <2>1. n + m \in Nat /\ Nat # {} /\ rank \in [S -> 0 .. n + m]
    BY <1>1
  <2>2. ASSUME NEW c \in S, NEW f \in [S -> Nat] PROVE Body(f, c) \in Nat
    <3>1. PICK i \in 0 .. n, j \in 0 .. m : c = <<i, j>>
      OBVIOUS
    <3>2. /\ i > 0 => <<i - 1, j>> \in S
          /\ j > 0 => <<i, j - 1>> \in S
          /\ i > 0 /\ j > 0 => <<i - 1, j - 1>> \in S
      BY <1>1
    <3> HIDE DEF S
    <3>3. At(f, i, j) \in Nat
      BY <1>5, <3>2
    <3>4. QED
      BY <1>4, <3>1, <3>3
  <2>3. next \in [S -> [[S -> Nat] -> Nat]]
    <3> HIDE DEF S
    <3>1. QED
      BY <2>2
  <2>4. ASSUME NEW c \in S, NEW f \in [S -> Nat], NEW g \in [S -> Nat],
               \A y \in S : rank[y] < rank[c] => f[y] = g[y]
        PROVE  next[c][f] = next[c][g]
    <3>1. PICK i \in 0 .. n, j \in 0 .. m : c = <<i, j>>
      OBVIOUS
    <3>2. \A a \in 0 .. n, b \in 0 .. m : a + b < i + j => f[<<a, b>>] = g[<<a, b>>]
      <4> SUFFICES ASSUME NEW a \in 0 .. n, NEW b \in 0 .. m, a + b < i + j
                   PROVE  f[<<a, b>>] = g[<<a, b>>]
        OBVIOUS
      <4>1. <<a, b>> \in S /\ rank[<<a, b>>] = a + b /\ rank[c] = i + j
        BY <3>1
      <4> HIDE DEF S, rank
      <4>2. QED
        BY <2>4, <4>1
    <3>5. At(f, i, j) = At(g, i, j)
      <4>1. CASE i = 0 \/ j = 0
        BY <1>2, <4>1
      <4>2. CASE i > 0 /\ j > 0
        <5>1. f[<<i - 1, j>>] = g[<<i - 1, j>>] /\ f[<<i, j - 1>>] = g[<<i, j - 1>>]
              /\ f[<<i - 1, j - 1>>] = g[<<i - 1, j - 1>>]
          BY <1>1, <3>2, <4>2
        <5>2. QED
          BY <1>2, <4>2, <5>1
      <4>3. QED
        BY <1>1, <4>1, <4>2
    <3>6. Body(f, c) = Body(g, c)
      BY <1>4, <3>1, <3>5
    <3> HIDE DEF S
    <3>7. QED
      BY <3>6
  <2> HIDE DEF S, rank, next
  <2>5. QED
    BY <2>1, <2>3, <2>4 DEF Recursion
<1>7. PICK f : f = [c \in S |-> Body(f, c)]
  <2>1. PICK f : Solves(f, S, Nat, next)
    <3> HIDE DEF S, rank, next
    <3>1. QED
      BY <1>6, RecursiveFunction
  <2> HIDE DEF S
  <2>2. f \in [S -> Nat] /\ \A c \in S : f[c] = next[c][f]
    BY <2>1 DEF Solves
  <2>3. \A c \in S : f[c] = Body(f, c)
    BY <2>2
  <2>4. QED
    BY <2>2, <2>3
<1>8. common = [c \in S |-> Body(common, c)]
  <2> HIDE DEF S
  <2>1. QED
    BY <1>3, <1>7
<1>9. \A i \in 0 .. n, j \in 0 .. m : common[<<i, j>>] = At(common, i, j)
  <2> SUFFICES ASSUME NEW i \in 0 .. n, NEW j \in 0 .. m
               PROVE  common[<<i, j>>] = At(common, i, j)
    OBVIOUS
  <2>1. <<i, j>> \in S
    OBVIOUS
  <2> HIDE DEF S
  <2>2. common[<<i, j>>] = Body(common, <<i, j>>)
    BY <1>8, <2>1
  <2>3. QED
    BY <1>4, <2>2
<1> DEFINE G == {c \in S : common[c] \in Nat}
<1>10. PassesOn(G, n, m)
  <2> SUFFICES ASSUME NEW i \in 0 .. n, NEW j \in 0 .. m,
                      i > 0 => <<i - 1, j>> \in G,
                      j > 0 => <<i, j - 1>> \in G,
                      i > 0 /\ j > 0 => <<i - 1, j - 1>> \in G
               PROVE  <<i, j>> \in G
    <3> HIDE DEF G
    <3>1. QED
      BY DEF PassesOn
  <2>1. At(common, i, j) \in Nat
    BY <1>5
  <2>2. <<i, j>> \in S
    OBVIOUS
  <2>3. QED
    BY <1>9, <2>1, <2>2
<1>11. \A i \in 0 .. n, j \in 0 .. m : <<i, j>> \in G
  <2> HIDE DEF G
  <2>1. QED
    BY <1>1, <1>10, CellInduction
<1>12. QED
  BY <1>9, <1>11 DEF IsCommon, n, m, common, At

DiffLines == [kind : {"unchanged", "deletion", "addition"}, line : Lines]

WalkAt(w, common, from, to, ignoring, i, j) ==
    IF i = 0 /\ j = 0 THEN <<>>
    ELSE IF i > 0 /\ j > 0 /\ SameLine(from, to, i, j, ignoring)
    THEN Append(w[<<i - 1, j - 1>>], DiffLine("unchanged", from[i]))
    ELSE IF j = 0 \/ (i > 0 /\ Longer(common[<<i - 1, j>>], common[<<i, j - 1>>]))
    THEN Append(w[<<i - 1, j>>], DiffLine("deletion", from[i]))
    ELSE Append(w[<<i, j - 1>>], DiffLine("addition", to[j]))

IsWalk(w, common, from, to, ignoring) ==
    \A i \in 0 .. Len(from), j \in 0 .. Len(to) :
      /\ w[<<i, j>>] \in Seq(DiffLines)
      /\ w[<<i, j>>] = WalkAt(w, common, from, to, ignoring, i, j)

\* The way back is a walk from each cell.
LEMMA WalkIs ==
    ASSUME NEW from, NEW to, NEW ignoring, AreTexts(from, to)
    PROVE  IsWalk(WalkBack(from, to, ignoring), CommonLengths(from, to, ignoring), from, to, ignoring)
<1> DEFINE n == Len(from)
           m == Len(to)
           S == (0 .. n) \X (0 .. m)
           V == Seq(DiffLines)
           common == CommonLengths(from, to, ignoring)
           At(f, i, j) == WalkAt(f, common, from, to, ignoring, i, j)
           Body(f, c) == WalkAt(f, common, from, to, ignoring, c[1], c[2])
           rank == [c \in S |-> c[1] + c[2]]
           next == [c \in S |-> [f \in [S -> V] |-> Body(f, c)]]
           walk == WalkBack(from, to, ignoring)
           up(i, j) == Longer(common[<<i - 1, j>>], common[<<i, j - 1>>])
           same(i, j) == SameLine(from, to, i, j, ignoring)
           kept(i) == DiffLine("unchanged", from[i])
           gone(i) == DiffLine("deletion", from[i])
           came(j) == DiffLine("addition", to[j])
<1>1. /\ n \in Nat /\ m \in Nat
      /\ \A i \in 1 .. n : kept(i) \in DiffLines /\ gone(i) \in DiffLines
      /\ \A j \in 1 .. m : came(j) \in DiffLines
  <2>1. n \in Nat /\ m \in Nat
        /\ (\A i \in 1 .. n : from[i] \in Lines) /\ (\A j \in 1 .. m : to[j] \in Lines)
    BY TextsAre
  <2>2. QED
    BY <2>1 DEF DiffLine, DiffLines
<1>2. \A f, i, j : At(f, i, j) =
        IF i = 0 /\ j = 0 THEN <<>>
        ELSE IF i > 0 /\ j > 0 /\ same(i, j) THEN Append(f[<<i - 1, j - 1>>], kept(i))
        ELSE IF j = 0 \/ (i > 0 /\ up(i, j)) THEN Append(f[<<i - 1, j>>], gone(i))
        ELSE Append(f[<<i, j - 1>>], came(j))
  BY DEF WalkAt
<1>3. walk = CHOOSE g : g = [c \in S |-> Body(g, c)]
  BY DEF WalkBack, WalkAt, Cells
<1>4. \A f, c : Body(f, c) = At(f, c[1], c[2])
  OBVIOUS
<1> HIDE DEF At, Body, n, m, common, walk, V, up, same, kept, gone, came
<1>5. ASSUME NEW f, NEW i \in 0 .. n, NEW j \in 0 .. m,
             i > 0 => f[<<i - 1, j>>] \in V,
             j > 0 => f[<<i, j - 1>>] \in V,
             i > 0 /\ j > 0 => f[<<i - 1, j - 1>>] \in V
      PROVE  At(f, i, j) \in V
  <2>0. \A s \in V, x \in DiffLines : Append(s, x) \in V
    <3> HIDE DEF DiffLines
    <3>1. QED
      BY DEF V
  <2>1. CASE i = 0 /\ j = 0
    <3>1. At(f, i, j) = <<>>
      BY <1>2, <2>1
    <3>2. QED
      BY <3>1 DEF V
  <2>2. CASE i > 0 /\ j > 0 /\ same(i, j)
    <3>1. kept(i) \in DiffLines /\ f[<<i - 1, j - 1>>] \in V
      BY <1>1, <1>5, <2>2
    <3>2. At(f, i, j) = Append(f[<<i - 1, j - 1>>], kept(i))
      <4>1. ~(i = 0 /\ j = 0)
        BY <2>2
      <4>2. QED
        BY <1>2, <2>2, <4>1, Zenon
    <3>3. QED
      BY <2>0, <3>1, <3>2
  <2>3. CASE /\ ~(i = 0 /\ j = 0) /\ ~(i > 0 /\ j > 0 /\ same(i, j))
             /\ j = 0 \/ (i > 0 /\ up(i, j))
    <3>1. gone(i) \in DiffLines /\ f[<<i - 1, j>>] \in V
      BY <1>1, <1>5, <2>3
    <3>2. At(f, i, j) = Append(f[<<i - 1, j>>], gone(i))
      BY <1>2, <2>3
    <3>3. QED
      BY <2>0, <3>1, <3>2
  <2>4. CASE /\ ~(i > 0 /\ j > 0 /\ same(i, j))
             /\ ~(j = 0 \/ (i > 0 /\ up(i, j)))
    <3>1. came(j) \in DiffLines /\ f[<<i, j - 1>>] \in V
      BY <1>1, <1>5, <2>4
    <3>2. At(f, i, j) = Append(f[<<i, j - 1>>], came(j))
      BY <1>1, <1>2, <2>4
    <3>3. QED
      BY <2>0, <3>1, <3>2
  <2>5. QED
    BY <2>1, <2>2, <2>3, <2>4
<1>6. Recursion(S, V, n + m, rank, next)
  <2>1. n + m \in Nat /\ V # {} /\ rank \in [S -> 0 .. n + m]
    <3>1. <<>> \in V
      BY DEF V
    <3>2. QED
      BY <1>1, <3>1
  <2>2. ASSUME NEW c \in S, NEW f \in [S -> V] PROVE Body(f, c) \in V
    <3>1. PICK i \in 0 .. n, j \in 0 .. m : c = <<i, j>>
      OBVIOUS
    <3>2. /\ i > 0 => <<i - 1, j>> \in S
          /\ j > 0 => <<i, j - 1>> \in S
          /\ i > 0 /\ j > 0 => <<i - 1, j - 1>> \in S
      BY <1>1
    <3> HIDE DEF S
    <3>3. At(f, i, j) \in V
      BY <1>5, <3>2
    <3>4. QED
      BY <1>4, <3>1, <3>3
  <2>3. next \in [S -> [[S -> V] -> V]]
    <3> HIDE DEF S
    <3>1. QED
      BY <2>2
  <2>4. ASSUME NEW c \in S, NEW f \in [S -> V], NEW g \in [S -> V],
               \A y \in S : rank[y] < rank[c] => f[y] = g[y]
        PROVE  next[c][f] = next[c][g]
    <3>1. PICK i \in 0 .. n, j \in 0 .. m : c = <<i, j>>
      OBVIOUS
    <3>2. \A a \in 0 .. n, b \in 0 .. m : a + b < i + j => f[<<a, b>>] = g[<<a, b>>]
      <4> SUFFICES ASSUME NEW a \in 0 .. n, NEW b \in 0 .. m, a + b < i + j
                   PROVE  f[<<a, b>>] = g[<<a, b>>]
        OBVIOUS
      <4>1. <<a, b>> \in S /\ rank[<<a, b>>] = a + b /\ rank[c] = i + j
        BY <3>1
      <4> HIDE DEF S, rank
      <4>2. QED
        BY <2>4, <4>1
    <3>3. /\ i > 0 => f[<<i - 1, j>>] = g[<<i - 1, j>>]
          /\ j > 0 => f[<<i, j - 1>>] = g[<<i, j - 1>>]
          /\ i > 0 /\ j > 0 => f[<<i - 1, j - 1>>] = g[<<i - 1, j - 1>>]
      BY <1>1, <3>2
    <3>4. i > 0 \/ i = 0
      BY <1>1
    <3>5. j > 0 \/ j = 0
      BY <1>1
    <3>6. At(f, i, j) = At(g, i, j)
      BY <1>2, <3>3, <3>4, <3>5
    <3>7. Body(f, c) = Body(g, c)
      BY <1>4, <3>1, <3>6
    <3> HIDE DEF S
    <3>8. QED
      BY <3>7
  <2> HIDE DEF S, rank, next
  <2>5. QED
    BY <2>1, <2>3, <2>4 DEF Recursion
<1>7. PICK f : f = [c \in S |-> Body(f, c)]
  <2>1. PICK f : Solves(f, S, V, next)
    <3> HIDE DEF S, rank, next
    <3>1. QED
      BY <1>6, RecursiveFunction
  <2> HIDE DEF S
  <2>2. f \in [S -> V] /\ \A c \in S : f[c] = next[c][f]
    BY <2>1 DEF Solves
  <2>3. \A c \in S : f[c] = Body(f, c)
    BY <2>2
  <2>4. QED
    BY <2>2, <2>3
<1>8. walk = [c \in S |-> Body(walk, c)]
  <2> HIDE DEF S
  <2>1. QED
    BY <1>3, <1>7
<1>9. \A i \in 0 .. n, j \in 0 .. m : walk[<<i, j>>] = At(walk, i, j)
  <2> SUFFICES ASSUME NEW i \in 0 .. n, NEW j \in 0 .. m
               PROVE  walk[<<i, j>>] = At(walk, i, j)
    OBVIOUS
  <2>1. <<i, j>> \in S
    OBVIOUS
  <2> HIDE DEF S
  <2>2. walk[<<i, j>>] = Body(walk, <<i, j>>)
    BY <1>8, <2>1
  <2>3. QED
    BY <1>4, <2>2
<1> DEFINE G == {c \in S : walk[c] \in V}
<1>10. PassesOn(G, n, m)
  <2> SUFFICES ASSUME NEW i \in 0 .. n, NEW j \in 0 .. m,
                      i > 0 => <<i - 1, j>> \in G,
                      j > 0 => <<i, j - 1>> \in G,
                      i > 0 /\ j > 0 => <<i - 1, j - 1>> \in G
               PROVE  <<i, j>> \in G
    <3> HIDE DEF G
    <3>1. QED
      BY DEF PassesOn
  <2>1. At(walk, i, j) \in V
    BY <1>5
  <2>2. <<i, j>> \in S
    OBVIOUS
  <2>3. QED
    BY <1>9, <2>1, <2>2
<1>11. \A i \in 0 .. n, j \in 0 .. m : <<i, j>> \in G
  <2> HIDE DEF G
  <2>1. QED
    BY <1>1, <1>10, CellInduction
<1>12. QED
  BY <1>9, <1>11 DEF IsWalk, n, m, common, walk, At, V

\* No cell is shorter than a way to choose equal lines from what it stands for.
Chooses(from, to, ignoring, k, f, g, i, j) ==
    /\ f \in Ascending(k, i) /\ g \in Ascending(k, j)
    /\ \A l \in 1 .. k : SameLine(from, to, f[l], g[l], ignoring)

LEMMA ChoicesAre ==
    ASSUME NEW i \in Nat, NEW k \in Nat \ {0}, NEW f \in Ascending(k, i)
    PROVE  /\ i > 0 /\ f[k] \in 1 .. i
           /\ \A l \in 1 .. k : f[l] <= f[k]
           /\ f[k] # i => f \in Ascending(k, i - 1)
           /\ [l \in 1 .. k - 1 |-> f[l]] \in Ascending(k - 1, i - 1)
<1>1. f \in [1 .. k -> 1 .. i] /\ \A l, m \in 1 .. k : l < m => f[l] < f[m]
  BY DEF Ascending
<1>2. k \in 1 .. k /\ f[k] \in 1 .. i
  BY <1>1
<1>3. ASSUME NEW l \in 1 .. k PROVE f[l] \in 1 .. i /\ f[l] <= f[k] /\ (l < k => f[l] < f[k])
  <2>1. f[l] \in 1 .. i /\ (l < k => f[l] < f[k])
    BY <1>1, <1>2
  <2>2. l = k \/ l < k
    OBVIOUS
  <2>3. QED
    BY <1>2, <2>1, <2>2
<1>4. ASSUME f[k] # i PROVE f \in Ascending(k, i - 1)
  <2>1. \A l \in 1 .. k : f[l] \in 1 .. i - 1
    BY <1>2, <1>3, <1>4
  <2>2. f \in [1 .. k -> 1 .. i - 1]
    BY <1>1, <2>1
  <2>3. QED
    BY <1>1, <2>2 DEF Ascending
<1>5. [l \in 1 .. k - 1 |-> f[l]] \in Ascending(k - 1, i - 1)
  <2> DEFINE h == [l \in 1 .. k - 1 |-> f[l]]
  <2>1. \A l \in 1 .. k - 1 : l \in 1 .. k /\ f[l] \in 1 .. i - 1
    <3> SUFFICES ASSUME NEW l \in 1 .. k - 1 PROVE l \in 1 .. k /\ f[l] \in 1 .. i - 1
      OBVIOUS
    <3>1. l \in 1 .. k /\ l < k
      OBVIOUS
    <3>2. f[l] \in 1 .. i /\ f[l] < f[k]
      BY <1>3, <3>1
    <3>3. QED
      BY <1>2, <3>1, <3>2
  <2>2. h \in [1 .. k - 1 -> 1 .. i - 1]
    BY <2>1
  <2>3. \A l, m \in 1 .. k - 1 : l < m => h[l] < h[m]
    BY <1>1, <2>1
  <2> HIDE DEF h
  <2>4. h \in Ascending(k - 1, i - 1)
    BY <2>2, <2>3 DEF Ascending
  <2>5. QED
    BY <2>4 DEF h
<1>6. QED
  BY <1>2, <1>3, <1>4, <1>5

Optimal(common, from, to, ignoring, i, j) ==
    \A k \in Nat : \A f, g : Chooses(from, to, ignoring, k, f, g, i, j) => k <= common[<<i, j>>]

LEMMA CommonIsLongest ==
    ASSUME NEW from, NEW to, NEW ignoring, AreTexts(from, to),
           NEW common, IsCommon(common, from, to, ignoring)
    PROVE  \A i \in 0 .. Len(from), j \in 0 .. Len(to) : Optimal(common, from, to, ignoring, i, j)
<1> DEFINE n == Len(from)
           m == Len(to)
           S == (0 .. n) \X (0 .. m)
           Best(i, j) == Optimal(common, from, to, ignoring, i, j)
           same(i, j) == SameLine(from, to, i, j, ignoring)
           G == {c \in S : Best(c[1], c[2])}
           at(i, j) == common[<<i, j>>]
           Filled(i, j) ==
             at(i, j) = IF i = 0 \/ j = 0 THEN 0
                        ELSE IF same(i, j) THEN at(i - 1, j - 1) + 1
                        ELSE IF at(i - 1, j) > at(i, j - 1) THEN at(i - 1, j) ELSE at(i, j - 1)
<1>1. n \in Nat /\ m \in Nat
  BY TextsAre
<1>2. \A i \in 0 .. n, j \in 0 .. m : at(i, j) \in Nat /\ Filled(i, j)
  BY DEF IsCommon, CommonAt, Longer
<1> HIDE DEF n, m, same, at, Filled
<1>3. ASSUME NEW i \in 0 .. n, NEW j \in 0 .. m,
             i > 0 => Best(i - 1, j),
             j > 0 => Best(i, j - 1),
             i > 0 /\ j > 0 => Best(i - 1, j - 1)
      PROVE  Best(i, j)
  <2> SUFFICES ASSUME NEW k \in Nat, NEW f, NEW g, Chooses(from, to, ignoring, k, f, g, i, j)
               PROVE  k <= at(i, j)
    BY DEF Optimal, at
  <2>1. f \in Ascending(k, i) /\ g \in Ascending(k, j) /\ \A l \in 1 .. k : same(f[l], g[l])
    BY DEF Chooses, same
  <2>2. i \in Nat /\ j \in Nat /\ at(i, j) \in Nat /\ Filled(i, j)
    BY <1>1, <1>2
  <2>3. CASE k = 0
    BY <2>2, <2>3
  <2>4. CASE k # 0
    <3>1. k \in Nat \ {0} /\ k \in 1 .. k
      BY <2>4
    <3>2. /\ i > 0 /\ f[k] \in 1 .. i
          /\ f[k] # i => f \in Ascending(k, i - 1)
          /\ [l \in 1 .. k - 1 |-> f[l]] \in Ascending(k - 1, i - 1)
      BY <2>1, <2>2, <3>1, ChoicesAre
    <3>3. /\ j > 0 /\ g[k] \in 1 .. j
          /\ g[k] # j => g \in Ascending(k, j - 1)
          /\ [l \in 1 .. k - 1 |-> g[l]] \in Ascending(k - 1, j - 1)
      BY <2>1, <2>2, <3>1, ChoicesAre
    <3>4. i - 1 \in 0 .. n /\ j - 1 \in 0 .. m
      BY <1>1, <3>2, <3>3
    <3>5. CASE same(i, j)
      <4> DEFINE e == [l \in 1 .. k - 1 |-> f[l]]
                 h == [l \in 1 .. k - 1 |-> g[l]]
      <4>1. \A l \in 1 .. k - 1 : same(e[l], h[l])
        BY <2>1
      <4> HIDE DEF e, h
      <4>2. k - 1 \in Nat /\ Chooses(from, to, ignoring, k - 1, e, h, i - 1, j - 1)
        BY <3>1, <3>2, <3>3, <4>1 DEF Chooses, same, e, h
      <4>3. k - 1 <= at(i - 1, j - 1)
        BY <1>3, <3>2, <3>3, <4>2 DEF Optimal, at
      <4>4. at(i, j) = at(i - 1, j - 1) + 1 /\ at(i - 1, j - 1) \in Nat
        BY <1>2, <2>2, <3>2, <3>3, <3>4, <3>5 DEF Filled
      <4>5. QED
        BY <4>3, <4>4
    <3>6. CASE ~same(i, j)
      <4>1. /\ at(i, j) = IF at(i - 1, j) > at(i, j - 1)
                                  THEN at(i - 1, j) ELSE at(i, j - 1)
            /\ at(i - 1, j) \in Nat /\ at(i, j - 1) \in Nat
        BY <1>2, <2>2, <3>2, <3>3, <3>4, <3>6 DEF Filled
      <4>2. f[k] # i \/ g[k] # j
        BY <2>1, <3>1, <3>6
      <4>3. CASE f[k] # i
        <5>1. Chooses(from, to, ignoring, k, f, g, i - 1, j)
          BY <2>1, <3>2, <4>3 DEF Chooses, same
        <5>2. k <= at(i - 1, j)
          BY <1>3, <3>2, <5>1 DEF Optimal, at
        <5>3. QED
          BY <4>1, <5>2
      <4>4. CASE g[k] # j
        <5>1. Chooses(from, to, ignoring, k, f, g, i, j - 1)
          BY <2>1, <3>3, <4>4 DEF Chooses, same
        <5>2. k <= at(i, j - 1)
          BY <1>3, <3>3, <5>1 DEF Optimal, at
        <5>3. QED
          BY <4>1, <5>2
      <4>5. QED
        BY <4>2, <4>3, <4>4
    <3>7. QED
      BY <3>5, <3>6
  <2>5. QED
    BY <2>3, <2>4
<1> HIDE DEF Best
<1>4. PassesOn(G, n, m)
  <2> SUFFICES ASSUME NEW i \in 0 .. n, NEW j \in 0 .. m,
                      i > 0 => <<i - 1, j>> \in G,
                      j > 0 => <<i, j - 1>> \in G,
                      i > 0 /\ j > 0 => <<i - 1, j - 1>> \in G
               PROVE  <<i, j>> \in G
    <3> HIDE DEF G
    <3>1. QED
      BY DEF PassesOn
  <2>1. Best(i, j)
    BY <1>3
  <2>2. QED
    BY <2>1
<1>5. \A i \in 0 .. n, j \in 0 .. m : <<i, j>> \in G
  <2> HIDE DEF G
  <2>1. QED
    BY <1>1, <1>4, CellInduction
<1>6. QED
  BY <1>5 DEF Best, n, m

\* One line more: how the counts change.
CountsOne(d, x, t, kind) ==
    /\ CountKind(d, kind) \in Nat
    /\ CountKind(t, kind) = IF x.kind = kind THEN CountKind(d, kind) + 1 ELSE CountKind(d, kind)

LEMMA CountAppend ==
    ASSUME NEW d \in Seq(DiffLines), NEW x \in DiffLines, NEW t, t = Append(d, x), NEW kind
    PROVE  CountsOne(d, x, t, kind)
<1> DEFINE n == Len(d)
           old == {i \in DOMAIN d : d[i].kind = kind}
           new == {i \in DOMAIN t : t[i].kind = kind}
<1>1. /\ n \in Nat /\ DOMAIN d = 1 .. n /\ DOMAIN t = 1 .. n + 1
      /\ \A i \in DOMAIN d : i \in DOMAIN t /\ t[i] = d[i]
      /\ \A i \in DOMAIN t : i \in DOMAIN d \/ i = n + 1
      /\ t[n + 1] = x
  <2> HIDE DEF DiffLines
  <2>1. QED
    BY AppendIs
<1>2. CountKind(d, kind) = Cardinality(old) /\ CountKind(t, kind) = Cardinality(new)
  BY DEF CountKind
<1>3. IsFiniteSet(old) /\ n + 1 \notin old
  <2>1. IsFiniteSet(1 .. n)
    BY <1>1, FS_Interval
  <2>2. old \in SUBSET (1 .. n)
    BY <1>1
  <2>3. n + 1 \notin old
    BY <1>1, <2>2
  <2> HIDE DEF old
  <2>4. QED
    BY <2>1, <2>2, <2>3, FS_Subset
<1>4. new = IF x.kind = kind THEN old \cup {n + 1} ELSE old
  BY <1>1
<1> HIDE DEF old, new
<1>5. Cardinality(old) \in Nat /\ Cardinality(old \cup {n + 1}) = Cardinality(old) + 1
  BY <1>3, FS_CardinalityType, FS_AddElement
<1>6. QED
  BY <1>2, <1>4, <1>5 DEF CountsOne

OneMore(d, x, t, kind) ==
    /\ Without(d, kind, Len(d)) \in Nat
    /\ \A n \in 1 .. Len(d) : Without(t, kind, n) = Without(d, kind, n)
    /\ Without(t, kind, Len(t)) =
         IF x.kind = kind THEN Without(d, kind, Len(d)) ELSE Without(d, kind, Len(d)) + 1

LEMMA WithoutAppend ==
    ASSUME NEW d \in Seq(DiffLines), NEW x \in DiffLines, NEW t, t = Append(d, x), NEW kind
    PROVE  OneMore(d, x, t, kind)
<1> DEFINE n == Len(d)
           old == {i \in 1 .. n : d[i].kind # kind}
           new == {i \in 1 .. n + 1 : t[i].kind # kind}
<1>1. /\ n \in Nat /\ Len(t) = n + 1
      /\ \A i \in 1 .. n : t[i] = d[i]
      /\ t[n + 1] = x
  <2> HIDE DEF DiffLines
  <2>1. QED
    BY AppendIs
<1>2. Without(d, kind, n) = Cardinality(old) /\ Without(t, kind, Len(t)) = Cardinality(new)
  BY <1>1 DEF Without
<1>3. IsFiniteSet(old) /\ n + 1 \notin old
  <2>1. IsFiniteSet(1 .. n)
    BY <1>1, FS_Interval
  <2>2. old \in SUBSET (1 .. n)
    OBVIOUS
  <2>3. n + 1 \notin old
    BY <1>1, <2>2
  <2> HIDE DEF old
  <2>4. QED
    BY <2>1, <2>2, <2>3, FS_Subset
<1>4. new = IF x.kind = kind THEN old ELSE old \cup {n + 1}
  <2>1. \A i \in 1 .. n + 1 : i \in 1 .. n \/ i = n + 1
    BY <1>1
  <2>2. n + 1 \in 1 .. n + 1 /\ \A i \in 1 .. n : i \in 1 .. n + 1
    BY <1>1
  <2>3. QED
    BY <1>1, <2>1, <2>2
<1>5. ASSUME NEW l \in 1 .. n PROVE Without(t, kind, l) = Without(d, kind, l)
  <2>1. {m \in 1 .. l : t[m].kind # kind} = {m \in 1 .. l : d[m].kind # kind}
    BY <1>1
  <2>2. QED
    BY <2>1 DEF Without
<1> HIDE DEF old, new
<1>6. Cardinality(old) \in Nat /\ Cardinality(old \cup {n + 1}) = Cardinality(old) + 1
  BY <1>3, FS_CardinalityType, FS_AddElement
<1>7. QED
  BY <1>2, <1>4, <1>5, <1>6 DEF OneMore

\* Without its lines of one kind d is the first k lines of a text.
Reads(d, kind, text, ignoring, k) ==
    /\ Without(d, kind, Len(d)) = k
    /\ \A l \in DOMAIN d : d[l].kind # kind =>
         ComparisonLine(d[l].line, ignoring) = ComparisonLine(text[Without(d, kind, l)], ignoring)

LEMMA ReadsAppend ==
    ASSUME NEW d \in Seq(DiffLines), NEW x \in DiffLines, NEW t, t = Append(d, x),
           NEW kind, NEW text, NEW ignoring, NEW k, Reads(d, kind, text, ignoring, k),
           x.kind # kind => ComparisonLine(x.line, ignoring) = ComparisonLine(text[k + 1], ignoring)
    PROVE  Reads(t, kind, text, ignoring, IF x.kind = kind THEN k ELSE k + 1)
<1> DEFINE n == Len(d)
           same(line, l) == ComparisonLine(line, ignoring) = ComparisonLine(text[l], ignoring)
<1>1. /\ n \in Nat /\ Len(t) = n + 1 /\ DOMAIN t = 1 .. n + 1 /\ DOMAIN d = 1 .. n
      /\ \A i \in DOMAIN d : t[i] = d[i]
      /\ t[n + 1] = x
  <2> HIDE DEF DiffLines
  <2>1. QED
    BY AppendIs
<1>2. /\ \A l \in 1 .. n : Without(t, kind, l) = Without(d, kind, l)
      /\ Without(t, kind, Len(t)) = IF x.kind = kind THEN Without(d, kind, n) ELSE Without(d, kind, n) + 1
  <2>1. OneMore(d, x, t, kind)
    BY WithoutAppend
  <2>2. QED
    BY <2>1 DEF OneMore
<1>3. Without(d, kind, n) = k /\ \A l \in DOMAIN d : d[l].kind # kind => same(d[l].line, Without(d, kind, l))
  BY DEF Reads
<1>4. x.kind # kind => same(x.line, k + 1)
  OBVIOUS
<1> HIDE DEF same
<1>5. ASSUME NEW l \in 1 .. n + 1, t[l].kind # kind PROVE same(t[l].line, Without(t, kind, l))
  <2>1. CASE l \in 1 .. n
    BY <1>1, <1>2, <1>3, <1>5, <2>1
  <2>2. CASE l = n + 1
    <3>1. t[l] = x /\ x.kind # kind /\ Without(t, kind, l) = k + 1
      BY <1>1, <1>2, <1>3, <1>5, <2>2
    <3>2. QED
      BY <1>4, <3>1
  <2>3. QED
    BY <1>1, <2>1, <2>2
<1>6. Without(t, kind, Len(t)) = IF x.kind = kind THEN k ELSE k + 1
  BY <1>2, <1>3
<1>7. \A l \in DOMAIN t : t[l].kind # kind => same(t[l].line, Without(t, kind, l))
  BY <1>1, <1>5
<1>8. QED
  BY <1>6, <1>7 DEF Reads, same

\* d says how the first i lines of one text become the first j of the other.
IsRight(d, from, to, ignoring, i, j, unchanged) ==
    /\ Reads(d, "addition", from, FALSE, i)
    /\ Reads(d, "deletion", to, ignoring, j)
    /\ CountKind(d, "unchanged") = unchanged
    /\ unchanged + CountKind(d, "deletion") = i
    /\ unchanged + CountKind(d, "addition") = j

LEMMA EmptyIsRight ==
    ASSUME NEW from, NEW to, NEW ignoring
    PROVE  IsRight(<<>>, from, to, ignoring, 0, 0, 0)
<1>1. Len(<<>>) = 0 /\ \A l \in DOMAIN <<>> : FALSE
  OBVIOUS
<1>2. \A kind : CountKind(<<>>, kind) = 0 /\ Without(<<>>, kind, 0) = 0
  <2>1. Cardinality({}) = 0
    BY FS_EmptySet
  <2>2. ASSUME NEW kind
        PROVE  {m \in DOMAIN <<>> : <<>>[m].kind = kind} = {} /\ {m \in 1 .. 0 : <<>>[m].kind # kind} = {}
    OBVIOUS
  <2>3. QED
    BY <2>1, <2>2 DEF CountKind, Without
<1>3. QED
  BY <1>1, <1>2 DEF IsRight, Reads

LEMMA RightAppend ==
    ASSUME NEW d \in Seq(DiffLines), NEW x \in DiffLines, NEW t, t = Append(d, x),
           NEW from, NEW to, NEW ignoring, NEW i \in Nat, NEW j \in Nat, NEW u \in Nat,
           IsRight(d, from, to, ignoring, i, j, u)
    PROVE  /\ x = DiffLine("unchanged", from[i + 1]) /\ SameLine(from, to, i + 1, j + 1, ignoring)
                => IsRight(t, from, to, ignoring, i + 1, j + 1, u + 1)
           /\ x = DiffLine("deletion", from[i + 1]) => IsRight(t, from, to, ignoring, i + 1, j, u)
           /\ x = DiffLine("addition", to[j + 1]) => IsRight(t, from, to, ignoring, i, j + 1, u)
<1>1. /\ Reads(d, "addition", from, FALSE, i)
      /\ Reads(d, "deletion", to, ignoring, j)
      /\ CountKind(d, "unchanged") = u
      /\ u + CountKind(d, "deletion") = i
      /\ u + CountKind(d, "addition") = j
  BY DEF IsRight
<1>1a. u + CountKind(d, "deletion") = i /\ u + CountKind(d, "addition") = j
  BY <1>1
<1>2. \A kind : CountsOne(d, x, t, kind)
  BY CountAppend
<1>2a. CountKind(d, "deletion") \in Nat /\ CountKind(d, "addition") \in Nat
  BY <1>2 DEF CountsOne
<1>3. CASE x = DiffLine("unchanged", from[i + 1]) /\ SameLine(from, to, i + 1, j + 1, ignoring)
  <2>1. x.kind = "unchanged" /\ x.line = from[i + 1]
    BY <1>3 DEF DiffLine
  <2>2. ComparisonLine(x.line, ignoring) = ComparisonLine(to[j + 1], ignoring)
    BY <1>3, <2>1 DEF SameLine
  <2>3. Reads(t, "addition", from, FALSE, i + 1)
    <3>1. Reads(t, "addition", from, FALSE, IF x.kind = "addition" THEN i ELSE i + 1)
      BY <1>1, <2>1, ReadsAppend
    <3>2. QED
      BY <2>1, <3>1
  <2>4. Reads(t, "deletion", to, ignoring, j + 1)
    <3>1. Reads(t, "deletion", to, ignoring, IF x.kind = "deletion" THEN j ELSE j + 1)
      BY <1>1, <2>2, ReadsAppend
    <3>2. QED
      BY <2>1, <3>1
  <2>5. CountKind(t, "unchanged") = u + 1 /\ CountKind(t, "deletion") = CountKind(d, "deletion")
        /\ CountKind(t, "addition") = CountKind(d, "addition")
    BY <1>1, <1>2, <2>1 DEF CountsOne
  <2>6. IsRight(t, from, to, ignoring, i + 1, j + 1, u + 1)
    <3>1. (u + 1) + CountKind(t, "deletion") = i + 1 /\ (u + 1) + CountKind(t, "addition") = j + 1
      <4>1. ASSUME NEW a \in Nat, NEW k \in Nat, u + a = k PROVE (u + 1) + a = k + 1
        BY <4>1
      <4>2. (u + 1) + CountKind(d, "deletion") = i + 1
        BY <1>1a, <1>2a, <4>1
      <4>3. (u + 1) + CountKind(d, "addition") = j + 1
        BY <1>1a, <1>2a, <4>1
      <4>4. QED
        BY <2>5, <4>2, <4>3
    <3>2. QED
      BY <2>3, <2>4, <2>5, <3>1, Zenon DEF IsRight
  <2>7. x.kind # "deletion" /\ x.kind # "addition"
    BY <2>1
  <2>8. QED
    BY <2>6, <2>7 DEF DiffLine
<1>4. CASE x = DiffLine("deletion", from[i + 1])
  <2>1. x.kind = "deletion" /\ x.line = from[i + 1]
    BY <1>4 DEF DiffLine
  <2>2. Reads(t, "addition", from, FALSE, i + 1)
    <3>1. Reads(t, "addition", from, FALSE, IF x.kind = "addition" THEN i ELSE i + 1)
      BY <1>1, <2>1, ReadsAppend
    <3>2. QED
      BY <2>1, <3>1
  <2>3. Reads(t, "deletion", to, ignoring, j)
    <3>1. Reads(t, "deletion", to, ignoring, IF x.kind = "deletion" THEN j ELSE j + 1)
      BY <1>1, <2>1, ReadsAppend
    <3>2. QED
      BY <2>1, <3>1
  <2>4. CountKind(t, "unchanged") = u /\ CountKind(t, "deletion") = CountKind(d, "deletion") + 1
        /\ CountKind(t, "addition") = CountKind(d, "addition")
    BY <1>1, <1>2, <2>1 DEF CountsOne
  <2>5. IsRight(t, from, to, ignoring, i + 1, j, u)
    <3>1. u + CountKind(t, "deletion") = i + 1 /\ u + CountKind(t, "addition") = j
      BY <1>1a, <1>2a, <2>4
    <3>2. QED
      BY <2>2, <2>3, <2>4, <3>1, Zenon DEF IsRight
  <2>6. x.kind # "unchanged" /\ x.kind # "addition"
    BY <2>1
  <2>7. QED
    BY <2>5, <2>6 DEF DiffLine
<1>5. CASE x = DiffLine("addition", to[j + 1])
  <2>1. x.kind = "addition" /\ x.line = to[j + 1]
    BY <1>5 DEF DiffLine
  <2>2. Reads(t, "addition", from, FALSE, i)
    <3>1. Reads(t, "addition", from, FALSE, IF x.kind = "addition" THEN i ELSE i + 1)
      BY <1>1, <2>1, ReadsAppend
    <3>2. QED
      BY <2>1, <3>1
  <2>3. Reads(t, "deletion", to, ignoring, j + 1)
    <3>1. Reads(t, "deletion", to, ignoring, IF x.kind = "deletion" THEN j ELSE j + 1)
      BY <1>1, <2>1, ReadsAppend
    <3>2. QED
      BY <2>1, <3>1
  <2>4. CountKind(t, "unchanged") = u /\ CountKind(t, "deletion") = CountKind(d, "deletion")
        /\ CountKind(t, "addition") = CountKind(d, "addition") + 1
    BY <1>1, <1>2, <2>1 DEF CountsOne
  <2>5. IsRight(t, from, to, ignoring, i, j + 1, u)
    <3>1. u + CountKind(t, "deletion") = i /\ u + CountKind(t, "addition") = j + 1
      BY <1>1a, <1>2a, <2>4
    <3>2. QED
      BY <2>2, <2>3, <2>4, <3>1, Zenon DEF IsRight
  <2>6. x.kind # "unchanged" /\ x.kind # "deletion"
    BY <2>1
  <2>7. QED
    BY <2>5, <2>6 DEF DiffLine
<1>6. QED
  BY <1>3, <1>4, <1>5

LEMMA WalkIsRight ==
    ASSUME NEW from, NEW to, NEW ignoring, AreTexts(from, to),
           NEW common, IsCommon(common, from, to, ignoring),
           NEW walk, IsWalk(walk, common, from, to, ignoring)
    PROVE  \A i \in 0 .. Len(from), j \in 0 .. Len(to) :
             IsRight(walk[<<i, j>>], from, to, ignoring, i, j, common[<<i, j>>])
<1> DEFINE n == Len(from)
           m == Len(to)
           S == (0 .. n) \X (0 .. m)
           same(i, j) == SameLine(from, to, i, j, ignoring)
           at(i, j) == common[<<i, j>>]
           w(i, j) == walk[<<i, j>>]
           Good(i, j) == IsRight(w(i, j), from, to, ignoring, i, j, at(i, j))
           G == {c \in S : Good(c[1], c[2])}
           Filled(i, j) ==
             at(i, j) = IF i = 0 \/ j = 0 THEN 0
                        ELSE IF same(i, j) THEN at(i - 1, j - 1) + 1
                        ELSE IF Longer(at(i - 1, j), at(i, j - 1)) THEN at(i - 1, j) ELSE at(i, j - 1)
           Walked(i, j) ==
             w(i, j) = IF i = 0 /\ j = 0 THEN <<>>
                       ELSE IF i > 0 /\ j > 0 /\ same(i, j)
                       THEN Append(w(i - 1, j - 1), DiffLine("unchanged", from[i]))
                       ELSE IF j = 0 \/ (i > 0 /\ Longer(at(i - 1, j), at(i, j - 1)))
                       THEN Append(w(i - 1, j), DiffLine("deletion", from[i]))
                       ELSE Append(w(i, j - 1), DiffLine("addition", to[j]))
<1>1. /\ n \in Nat /\ m \in Nat
      /\ \A i \in 1 .. n : from[i] \in Lines
      /\ \A j \in 1 .. m : to[j] \in Lines
  BY TextsAre
<1>2. \A i \in 0 .. n, j \in 0 .. m : at(i, j) \in Nat /\ Filled(i, j)
  BY DEF IsCommon, CommonAt
<1>3. \A i \in 0 .. n, j \in 0 .. m : w(i, j) \in Seq(DiffLines) /\ Walked(i, j)
  BY DEF IsWalk, WalkAt
<1> HIDE DEF n, m, same, at, w, Filled, Walked
<1>4. ASSUME NEW i \in 0 .. n, NEW j \in 0 .. m,
             i > 0 => Good(i - 1, j),
             j > 0 => Good(i, j - 1),
             i > 0 /\ j > 0 => Good(i - 1, j - 1)
      PROVE  Good(i, j)
  <2>1. i \in Nat /\ j \in Nat /\ Filled(i, j) /\ Walked(i, j)
    BY <1>1, <1>2, <1>3
  <2>2. i > 0 => i - 1 \in 0 .. n /\ i - 1 \in Nat /\ (i - 1) + 1 = i /\ from[i] \in Lines
    BY <1>1
  <2>3. j > 0 => j - 1 \in 0 .. m /\ j - 1 \in Nat /\ (j - 1) + 1 = j /\ to[j] \in Lines
    BY <1>1
  <2>4. CASE i = 0 /\ j = 0
    <3>1. w(i, j) = <<>> /\ at(i, j) = 0
      BY <2>1, <2>4 DEF Filled, Walked
    <3>2. QED
      BY <2>4, <3>1, EmptyIsRight
  <2>5. CASE i > 0 /\ j > 0 /\ same(i, j)
    <3> DEFINE x == DiffLine("unchanged", from[i])
               d == w(i - 1, j - 1)
    <3>1. i # 0 /\ j # 0
      BY <2>5
    <3>2. w(i, j) = Append(d, x) /\ at(i, j) = at(i - 1, j - 1) + 1
      BY <2>1, <2>5, <3>1, Zenon DEF Filled, Walked
    <3>3. x \in DiffLines
      BY <2>2, <2>5 DEF DiffLines, DiffLine
    <3>4. d \in Seq(DiffLines) /\ at(i - 1, j - 1) \in Nat
      BY <1>2, <1>3, <2>2, <2>3, <2>5
    <3>5. x = DiffLine("unchanged", from[(i - 1) + 1])
          /\ SameLine(from, to, (i - 1) + 1, (j - 1) + 1, ignoring)
      BY <2>2, <2>3, <2>5 DEF same
    <3> HIDE DEF x, d
    <3>6. IsRight(d, from, to, ignoring, i - 1, j - 1, at(i - 1, j - 1))
      BY <1>4, <2>5 DEF d
    <3>7. IsRight(w(i, j), from, to, ignoring, (i - 1) + 1, (j - 1) + 1, at(i - 1, j - 1) + 1)
      BY <2>2, <2>3, <2>5, <3>2, <3>3, <3>4, <3>5, <3>6, RightAppend
    <3>8. QED
      BY <2>2, <2>3, <2>5, <3>2, <3>7
  <2>6. CASE /\ ~(i = 0 /\ j = 0) /\ ~(i > 0 /\ j > 0 /\ same(i, j))
             /\ j = 0 \/ (i > 0 /\ Longer(at(i - 1, j), at(i, j - 1)))
    <3> DEFINE x == DiffLine("deletion", from[i])
               d == w(i - 1, j)
    <3>1. i > 0 /\ i # 0 /\ i - 1 \in 0 .. n /\ i - 1 \in Nat /\ (i - 1) + 1 = i /\ from[i] \in Lines
      BY <2>1, <2>2, <2>6
    <3>2. w(i, j) = Append(d, x)
      BY <2>1, <2>6, Zenon DEF Walked
    <3>3. at(i, j) = at(i - 1, j)
      <4>1. CASE j = 0
        <5>1. Filled(i - 1, j)
          BY <1>2, <3>1
        <5>2. QED
          BY <2>1, <4>1, <5>1 DEF Filled
      <4>2. CASE j # 0
        <5>1. ~same(i, j) /\ Longer(at(i - 1, j), at(i, j - 1))
          BY <2>1, <2>6, <3>1, <4>2
        <5>2. QED
          BY <2>1, <3>1, <4>2, <5>1 DEF Filled
      <4>3. QED
        BY <4>1, <4>2
    <3>4. x \in DiffLines
      BY <3>1 DEF DiffLines, DiffLine
    <3>5. d \in Seq(DiffLines) /\ at(i - 1, j) \in Nat
      BY <1>2, <1>3, <3>1
    <3>6. x = DiffLine("deletion", from[(i - 1) + 1])
      BY <3>1
    <3> HIDE DEF x, d
    <3>7. IsRight(d, from, to, ignoring, i - 1, j, at(i - 1, j))
      BY <1>4, <3>1 DEF d
    <3>8. IsRight(w(i, j), from, to, ignoring, (i - 1) + 1, j, at(i - 1, j))
      BY <2>1, <3>1, <3>2, <3>4, <3>5, <3>6, <3>7, RightAppend
    <3>9. QED
      BY <3>1, <3>3, <3>8
  <2>7. CASE /\ ~(i > 0 /\ j > 0 /\ same(i, j))
             /\ ~(j = 0 \/ (i > 0 /\ Longer(at(i - 1, j), at(i, j - 1))))
    <3> DEFINE x == DiffLine("addition", to[j])
               d == w(i, j - 1)
    <3>1. j > 0 /\ j # 0 /\ j - 1 \in 0 .. m /\ j - 1 \in Nat /\ (j - 1) + 1 = j /\ to[j] \in Lines
      BY <2>1, <2>3, <2>7
    <3>2. w(i, j) = Append(d, x)
      BY <2>1, <2>7, <3>1, Zenon DEF Walked
    <3>3. at(i, j) = at(i, j - 1)
      <4>1. CASE i = 0
        <5>1. Filled(i, j - 1)
          BY <1>2, <3>1
        <5>2. QED
          BY <2>1, <4>1, <5>1 DEF Filled
      <4>2. CASE i # 0
        <5>1. ~same(i, j) /\ ~Longer(at(i - 1, j), at(i, j - 1))
          BY <2>1, <2>7, <3>1, <4>2
        <5>2. QED
          BY <2>1, <3>1, <4>2, <5>1 DEF Filled
      <4>3. QED
        BY <4>1, <4>2
    <3>4. x \in DiffLines
      BY <3>1 DEF DiffLines, DiffLine
    <3>5. d \in Seq(DiffLines) /\ at(i, j - 1) \in Nat
      BY <1>2, <1>3, <3>1
    <3>6. x = DiffLine("addition", to[(j - 1) + 1])
      BY <3>1
    <3> HIDE DEF x, d
    <3>7. IsRight(d, from, to, ignoring, i, j - 1, at(i, j - 1))
      BY <1>4, <3>1 DEF d
    <3>8. IsRight(w(i, j), from, to, ignoring, i, (j - 1) + 1, at(i, j - 1))
      BY <2>1, <3>1, <3>2, <3>4, <3>5, <3>6, <3>7, RightAppend
    <3>9. QED
      BY <3>1, <3>3, <3>8
  <2>8. QED
    BY <2>4, <2>5, <2>6, <2>7
<1> HIDE DEF Good
<1>5. PassesOn(G, n, m)
  <2> SUFFICES ASSUME NEW i \in 0 .. n, NEW j \in 0 .. m,
                      i > 0 => <<i - 1, j>> \in G,
                      j > 0 => <<i, j - 1>> \in G,
                      i > 0 /\ j > 0 => <<i - 1, j - 1>> \in G
               PROVE  <<i, j>> \in G
    <3> HIDE DEF G
    <3>1. QED
      BY DEF PassesOn
  <2>1. Good(i, j)
    BY <1>4
  <2>2. QED
    BY <2>1
<1>6. \A i \in 0 .. n, j \in 0 .. m : <<i, j>> \in G
  <2> HIDE DEF G
  <2>1. QED
    BY <1>1, <1>5, CellInduction
<1>7. QED
  BY <1>6 DEF Good, n, m, w, at

\* The groups lie between the unchanged lines.
LEMMA GroupsAre ==
    ASSUME NEW d \in Seq(DiffLines)
    PROVE  SummarizeDiff(d).groups <= CountKind(d, "unchanged") + 1
<1> DEFINE n == Len(d)
           group(i) == CountKind(SubSeq(d, 1, i), "unchanged")
           changes(i, kind) == d[i].kind = kind
           mixed == {g \in 0 .. Len(d) :
                       \E i, j \in DOMAIN d :
                         /\ group(i) = g /\ group(j) = g
                         /\ changes(i, "addition") /\ changes(j, "deletion")}
           all == {m \in DOMAIN d : d[m].kind = "unchanged"}
<1>1. n \in Nat /\ DOMAIN d = 1 .. n
  OBVIOUS
<1>2. IsFiniteSet(all) /\ CountKind(d, "unchanged") = Cardinality(all) /\ Cardinality(all) \in Nat
  <2>1. IsFiniteSet(1 .. n)
    BY <1>1, FS_Interval
  <2>2. all \in SUBSET (1 .. n) /\ CountKind(d, "unchanged") = Cardinality(all)
    BY <1>1 DEF CountKind
  <2> HIDE DEF all
  <2>3. QED
    BY <2>1, <2>2, FS_Subset, FS_CardinalityType
<1>3. ASSUME NEW i \in 1 .. n PROVE group(i) <= Cardinality(all)
  <2> DEFINE s == SubSeq(d, 1, i)
             some == {m \in DOMAIN s : s[m].kind = "unchanged"}
  <2>1. DOMAIN s = 1 .. i /\ \A m \in 1 .. i : m \in DOMAIN d /\ s[m] = d[m]
    <3> HIDE DEF DiffLines
    <3>1. Len(s) = i /\ DOMAIN s = 1 .. Len(s) /\ \A m \in 1 .. i : s[m] = d[m]
      BY <1>1
    <3>2. QED
      BY <1>1, <3>1
  <2>2. group(i) = Cardinality(some)
    BY DEF CountKind
  <2> HIDE DEF s
  <2>3. some \in SUBSET all
    BY <2>1
  <2> HIDE DEF some, all
  <2>4. QED
    BY <1>2, <2>2, <2>3, FS_Subset
<1>4. SummarizeDiff(d).groups = Cardinality(mixed)
  BY DEF SummarizeDiff
<1>5. mixed \subseteq 0 .. Cardinality(all)
  <2> HIDE DEF all, group, changes
  <2>1. QED
    BY <1>1, <1>2, <1>3
<1> HIDE DEF all, mixed
<1>6. IsFiniteSet(0 .. Cardinality(all)) /\ Cardinality(0 .. Cardinality(all)) = Cardinality(all) + 1
  BY <1>2, FS_Interval
<1>7. Cardinality(mixed) <= Cardinality(all) + 1
  BY <1>5, <1>6, FS_Subset
<1>8. QED
  BY <1>2, <1>4, <1>7

LEMMA ShortestIs ==
    ASSUME NEW from, NEW to, NEW ignoring, AreTexts(from, to), NEW diff,
           diff = CompareTextLines(from, to, ignoring)
    PROVE  /\ IsSide(diff, "addition", from, FALSE)
           /\ IsSide(diff, "deletion", to, ignoring)
           /\ \A k \in 0 .. Len(from) :
                \A f \in Ascending(k, Len(from)), g \in Ascending(k, Len(to)) :
                  (\A l \in 1 .. k : SameLine(from, to, f[l], g[l], ignoring))
                    => k <= SummarizeDiff(diff).unchanged
           /\ SummarizeDiff(diff).unchanged + SummarizeDiff(diff).deletions = Len(from)
           /\ SummarizeDiff(diff).unchanged + SummarizeDiff(diff).additions = Len(to)
           /\ SummarizeDiff(diff).groups <= SummarizeDiff(diff).unchanged + 1
<1> DEFINE n == Len(from)
           m == Len(to)
           common == CommonLengths(from, to, ignoring)
           walk == WalkBack(from, to, ignoring)
           sum == SummarizeDiff(diff)
<1>1. n \in Nat /\ m \in Nat /\ n \in 0 .. n /\ m \in 0 .. m
  BY TextsAre
<1>2. IsCommon(common, from, to, ignoring) /\ IsWalk(walk, common, from, to, ignoring)
  BY CommonIs, WalkIs
<1>3. diff = walk[<<n, m>>]
  BY DEF CompareTextLines
<1>4. /\ sum.unchanged = CountKind(diff, "unchanged")
      /\ sum.deletions = CountKind(diff, "deletion")
      /\ sum.additions = CountKind(diff, "addition")
  BY DEF SummarizeDiff
<1> HIDE DEF common, walk, sum
<1>5. diff \in Seq(DiffLines)
  BY <1>1, <1>2, <1>3 DEF IsWalk
<1>6. IsRight(diff, from, to, ignoring, n, m, common[<<n, m>>])
  BY <1>1, <1>2, <1>3, WalkIsRight
<1>7. Optimal(common, from, to, ignoring, n, m)
  BY <1>1, <1>2, CommonIsLongest
<1>8. sum.unchanged = common[<<n, m>>]
  BY <1>4, <1>6 DEF IsRight
<1>9. sum.unchanged + sum.deletions = n /\ sum.unchanged + sum.additions = m
  BY <1>4, <1>6 DEF IsRight
<1>10. ASSUME NEW k \in 0 .. n, NEW f \in Ascending(k, n), NEW g \in Ascending(k, m),
              \A l \in 1 .. k : SameLine(from, to, f[l], g[l], ignoring)
       PROVE  k <= sum.unchanged
  <2>1. k \in Nat /\ Chooses(from, to, ignoring, k, f, g, n, m)
    BY <1>1, <1>10 DEF Chooses
  <2>2. QED
    BY <1>7, <1>8, <2>1 DEF Optimal
<1>11. IsSide(diff, "addition", from, FALSE) /\ IsSide(diff, "deletion", to, ignoring)
  BY <1>6 DEF IsRight, Reads, IsSide
<1>12. sum.groups <= sum.unchanged + 1
  BY <1>4, <1>5, GroupsAre DEF sum
<1>13. QED
  BY <1>9, <1>10, <1>11, <1>12 DEF sum

LEMMA DiffStep ==
    ASSUME SubmitDiff PROVE DiffIsShortest'
<1>1. PICK from \in Texts, to \in Texts, ignoring \in BOOLEAN :
        work' = [tool |-> "diff", from |-> from, to |-> to, ignoring |-> ignoring,
                 diff |-> CompareTextLines(from, to, ignoring),
                 summary |-> SummarizeDiff(CompareTextLines(from, to, ignoring))]
  BY DEF SubmitDiff
<1>2. AreTexts(from, to)
  <2>1. MaxLines \in Nat
    BY WorkbenchAssumption
  <2>2. \A text \in Texts : text \in Seq(Lines)
    BY <2>1 DEF Texts
  <2>3. QED
    BY <2>2 DEF AreTexts
<1> DEFINE diff == CompareTextLines(from, to, ignoring)
           sum == SummarizeDiff(diff)
<1>3. /\ work'.from = from /\ work'.to = to /\ work'.ignoring = ignoring
      /\ work'.diff = diff /\ work'.summary = sum
  BY <1>1
<1>4. /\ IsSide(diff, "addition", from, FALSE)
      /\ IsSide(diff, "deletion", to, ignoring)
      /\ \A k \in 0 .. Len(from) :
           \A f \in Ascending(k, Len(from)), g \in Ascending(k, Len(to)) :
             (\A l \in 1 .. k : SameLine(from, to, f[l], g[l], ignoring))
               => k <= sum.unchanged
      /\ sum.unchanged + sum.deletions = Len(from)
      /\ sum.unchanged + sum.additions = Len(to)
      /\ sum.groups <= sum.unchanged + 1
  BY <1>2, ShortestIs
<1> HIDE DEF diff, sum
<1>5. QED
  BY <1>3, <1>4 DEF DiffIsShortest

-----------------------------------------------------------------------------
(***************************************************************************)
(* What the tools of the workbench compute is what it is defined to be:    *)
(* line diffs that are right and as short as they can be, certificate      *)
(* chains found whole, and cron expressions that mean what they say and    *)
(* are due when they say.                                                  *)
(***************************************************************************)
THEOREM ToolsComputeRight == WorkbenchSpec => []ToolsAnswerRight
<1>1. WorkbenchInit => ToolsAnswerRight
  BY DEF WorkbenchInit, NoWork, ToolsAnswerRight, DiffIsShortest, ChainIsFound,
         CronIsRight, CronFieldMeansIt, PreviewIsRight
<1>2. ASSUME ToolsAnswerRight, [WorkbenchNext]_work PROVE ToolsAnswerRight'
  <2>1. CASE SubmitDiff
    <3>1. work'.tool = "diff"
      BY <2>1 DEF SubmitDiff
    <3>2. DiffIsShortest'
      BY <2>1, DiffStep
    <3>3. (ChainIsFound /\ CronIsRight)'
      BY <3>1 DEF ChainIsFound, CronIsRight, CronFieldMeansIt, PreviewIsRight
    <3>4. QED
      BY <3>2, <3>3 DEF ToolsAnswerRight
  <2>2. CASE SubmitJsonToCsv \/ SubmitCsvToJson
    <3>1. work'.tool = "jsonToCsv" \/ work'.tool = "csvToJson"
      BY <2>2 DEF SubmitJsonToCsv, SubmitCsvToJson
    <3>2. QED
      BY <3>1 DEF ToolsAnswerRight, DiffIsShortest, ChainIsFound,
                  CronIsRight, CronFieldMeansIt, PreviewIsRight
  <2>3. CASE SubmitCertificates
    <3>1. work'.tool = "chain"
      BY <2>3 DEF SubmitCertificates
    <3>2. ChainIsFound'
      BY <2>3, ChainStep
    <3>3. (DiffIsShortest /\ CronIsRight)'
      BY <3>1 DEF DiffIsShortest, CronIsRight, CronFieldMeansIt, PreviewIsRight
    <3>4. QED
      BY <3>2, <3>3 DEF ToolsAnswerRight
  <2>4. CASE SubmitCronField
    <3>1. work'.tool = "cron field"
      <4>1. PICK f \in FieldNames, source \in CronSources :
              work' = [tool |-> "cron field", field |-> f, source |-> source,
                       made |-> ParseCronField(source, f)]
        BY <2>4 DEF SubmitCronField
      <4>2. QED
        BY <4>1
    <3>2. CronFieldMeansIt'
      BY <2>4, CronFieldStep
    <3>3. (DiffIsShortest /\ ChainIsFound /\ PreviewIsRight)'
      BY <3>1 DEF DiffIsShortest, ChainIsFound, PreviewIsRight
    <3>4. QED
      BY <3>2, <3>3 DEF ToolsAnswerRight, CronIsRight
  <2>5. CASE SubmitCron
    <3>1. work'.tool = "cron"
      BY <2>5 DEF SubmitCron
    <3>2. PreviewIsRight'
      BY <2>5, CronStep
    <3>3. (DiffIsShortest /\ ChainIsFound /\ CronFieldMeansIt)'
      BY <3>1 DEF DiffIsShortest, ChainIsFound, CronFieldMeansIt
    <3>4. QED
      BY <3>2, <3>3 DEF ToolsAnswerRight, CronIsRight
  <2>6. CASE ResetWork
    <3>1. work'.tool = "none"
      BY <2>6 DEF ResetWork, NoWork
    <3>2. QED
      BY <3>1 DEF ToolsAnswerRight, DiffIsShortest, ChainIsFound,
                  CronIsRight, CronFieldMeansIt, PreviewIsRight
  <2>7. CASE UNCHANGED work
    <3>1. work' = work /\ DiffIsShortest /\ ChainIsFound /\ CronFieldMeansIt /\ PreviewIsRight
      BY <1>2, <2>7 DEF ToolsAnswerRight, CronIsRight
    <3>2. DiffIsShortest'
      BY <3>1, Zenon DEF DiffIsShortest
    <3>3. ChainIsFound'
      BY <3>1, Zenon DEF ChainIsFound
    <3>4. CronFieldMeansIt'
      BY <3>1, Zenon DEF CronFieldMeansIt
    <3>5. PreviewIsRight'
      BY <3>1, Zenon DEF PreviewIsRight
    <3>6. QED
      BY <3>2, <3>3, <3>4, <3>5 DEF ToolsAnswerRight, CronIsRight
  <2>8. QED
    BY <1>2, <2>1, <2>2, <2>3, <2>4, <2>5, <2>6, <2>7 DEF WorkbenchNext
<1>3. QED
  BY <1>1, <1>2, PTL DEF WorkbenchSpec

===============================================================================
