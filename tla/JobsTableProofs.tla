------------------------- MODULE JobsTableProofs ----------------------------
(***************************************************************************)
(* Proofs about Jobs: what the table of o2s, and what the broker retains,  *)
(* tell of what the worker did; and that what is between is one line.      *)
(*                                                                         *)
(* Both are about one line of messages, from the app to o2s: Wire.  The    *)
(* worker adds to its end, o2s reads at its front, and whatever else       *)
(* happens takes something out of it (Thinned), or adds a report again.    *)
(* So each part of the invariant is a statement about a line, a sheet and a*)
(* table, and has one lemma for each of these four: messages dropped, a    *)
(* message appended, a start handled and an end handled.                   *)
(***************************************************************************)
EXTENDS JobsProofs, FiniteSetTheorems, FunctionTheorems, WellFoundedInduction

-----------------------------------------------------------------------------
(* Three sequences of messages in a row.                                   *)
LEMMA Joined ==
  ASSUME NEW s \in Seq(Messages), NEW t \in Seq(Messages), NEW u \in Seq(Messages)
  PROVE  (s \o t) \o u = s \o (t \o u)
  BY ConcatAssociative, SMTT(60)

(* Every set of natural numbers has a least element: its initial segments  *)
(* are finite sets, well-founded by inclusion.                             *)
LEMMA LeastNat ==
  ASSUME NEW S, S \subseteq Nat, S # {}
  PROVE  \E n \in S : \A m \in S : n <= m
  <1> DEFINE T == {0 .. n : n \in S}
  <1>1. T \subseteq FiniteSubsetsOf(Nat)
    <2> SUFFICES ASSUME NEW n \in S PROVE 0 .. n \in FiniteSubsetsOf(Nat)
      OBVIOUS
    <2>1. IsFiniteSet(0 .. n)
      BY FS_Interval
    <2>2. 0 .. n \subseteq Nat
      OBVIOUS
    <2> QED BY <2>1, <2>2 DEF FiniteSubsetsOf
  <1>2. PICK x \in T : \A y \in T : ~(<<y, x>> \in StrictSubsetOrdering(Nat))
    <2>1. T # {}
      OBVIOUS
    <2> HIDE DEF T
    <2> QED BY <1>1, <2>1, FS_StrictSubsetOrderingWellFounded, WFMin
  <1>3. PICK n \in S : x = 0 .. n
    BY <1>2
  <1>4. ASSUME NEW m \in S, m < n PROVE FALSE
    <2>1. 0 .. m \in T /\ 0 .. m \subseteq Nat /\ 0 .. n \subseteq Nat
      OBVIOUS
    <2>2. 0 .. m \subseteq 0 .. n /\ n \in 0 .. n /\ n \notin 0 .. m
      BY <1>4
    <2>3. <<0 .. m, x>> \in StrictSubsetOrdering(Nat)
      BY <1>3, <2>1, <2>2 DEF StrictSubsetOrdering
    <2> QED BY <1>2, <2>1, <2>3
  <1> QED BY <1>3, <1>4

(* The ends among s[a + 1], ..., s[b].                                     *)
EndsIn(s, a, b) == Cardinality({k \in a + 1 .. b : IsEnd(s[k])})

(* They are finitely many, and none when none of these is an end.          *)
LEMMA EndsFinite ==
  ASSUME NEW s, NEW a \in Nat, NEW b \in Nat
  PROVE  /\ IsFiniteSet({k \in a + 1 .. b : IsEnd(s[k])})
         /\ EndsIn(s, a, b) \in Nat
         /\ EndsIn(s, a, b) = 0 <=> \A k \in a + 1 .. b : ~IsEnd(s[k])
  <1>1. IsFiniteSet(a + 1 .. b)
    BY FS_Interval
  <1>2. IsFiniteSet({k \in a + 1 .. b : IsEnd(s[k])})
    BY <1>1, FS_Subset
  <1> QED BY <1>2, FS_CardinalityType, FS_EmptySet DEF EndsIn

(* One more position, and one more end if it holds one.                    *)
LEMMA EndsGrow ==
  ASSUME NEW s, NEW a \in Nat, NEW b \in Nat, a <= b
  PROVE  EndsIn(s, a, b + 1) = EndsIn(s, a, b) + IF IsEnd(s[b + 1]) THEN 1 ELSE 0
  <1> DEFINE S == {k \in a + 1 .. b : IsEnd(s[k])}
             T == {k \in a + 1 .. b + 1 : IsEnd(s[k])}
  <1>0. b + 1 \notin S
    OBVIOUS
  <1>1. IsFiniteSet(S) /\ b + 1 \notin S
    BY <1>0, EndsFinite
  <1>2. Cardinality(S) \in Nat /\ EndsIn(s, a, b) = Cardinality(S)
        /\ EndsIn(s, a, b + 1) = Cardinality(T)
    BY <1>1, FS_CardinalityType DEF EndsIn
  <1>3. CASE IsEnd(s[b + 1])
    <2>1. T = S \cup {b + 1}
      BY <1>3
    <2> HIDE DEF S, T
    <2>2. Cardinality(T) = Cardinality(S) + 1
      BY <1>1, <2>1, FS_AddElement
    <2> QED BY <1>2, <1>3, <2>2
  <1>4. CASE ~IsEnd(s[b + 1])
    <2>1. T = S
      BY <1>4
    <2> HIDE DEF S, T
    <2> QED BY <1>2, <1>4, <2>1
  <1> QED BY <1>3, <1>4

(* x is what stands in s after a and up to b.                              *)
Part(x, s, a, b) ==
    /\ a <= b /\ Len(x) = b - a
    /\ \A k \in 1 .. Len(x) : x[k] = s[a + k]

(* What Count counts in a part is what stands there in the whole.          *)
LEMMA EndsOfPart ==
  ASSUME NEW x \in Seq(Messages), NEW s, NEW a \in Nat, NEW b \in Nat, Part(x, s, a, b)
  PROVE  Count(x, IsEnd) = EndsIn(s, a, b)
  <1>1. /\ Len(x) \in Nat /\ DOMAIN x = 1 .. Len(x) /\ Len(x) = b - a
        /\ \A k \in 1 .. Len(x) : x[k] = s[a + k]
    BY LenProperties DEF Part
  <1>2. IsFiniteSet(1 .. Len(x)) /\ Cardinality(1 .. Len(x)) = Len(x)
    BY <1>1, FS_Interval, SMTT(30)
  <1>3. Count(x, IsEnd) = EndsIn(s, a, b)
    <2> DEFINE S == {k \in DOMAIN x : IsEnd(x[k])}
               T == {k \in a + 1 .. b : IsEnd(s[k])}
               f == [k \in S |-> a + k]
    <2>1. IsFiniteSet(S)
      BY <1>1, <1>2, FS_Subset
    <2>2. f \in [S -> T] /\ \A k, l \in S : f[k] = f[l] => k = l
      BY <1>1
    <2>3. ASSUME NEW t \in T PROVE \E k \in S : f[k] = t
      <3>1. t - a \in S /\ f[t - a] = t
        BY <1>1
      <3> QED BY <3>1
    <2>4. f \in Bijection(S, T)
      BY <2>2, <2>3, Fun_IsBij
    <2>5. ExistsBijection(S, T)
      BY <2>4 DEF ExistsBijection
    <2>6. Cardinality(T) = Cardinality(S)
      BY <2>1, <2>5, FS_Bijection
    <2> QED BY <2>6 DEF Count, EndsIn
  <1> QED BY <1>3

(* The same of reports, as far as Lose looks at them: is there any, and is *)
(* there anything else?                                                    *)
LEMMA PartCounts ==
  ASSUME NEW x \in Seq(Messages), NEW s, NEW a \in Nat, NEW b \in Nat, Part(x, s, a, b)
  PROVE  /\ Count(x, IsReport) \in Nat
         /\ Count(x, IsReport) > 0 <=> \E k \in a + 1 .. b : IsReport(s[k])
         /\ Count(x, IsReport) < Len(x) <=> \E k \in a + 1 .. b : ~IsReport(s[k])
  <1>1. /\ Len(x) \in Nat /\ DOMAIN x = 1 .. Len(x) /\ Len(x) = b - a
        /\ \A k \in 1 .. Len(x) : x[k] = s[a + k]
    BY LenProperties DEF Part
  <1>2. IsFiniteSet(1 .. Len(x)) /\ Cardinality(1 .. Len(x)) = Len(x)
    BY <1>1, FS_Interval, SMTT(30)
  <1>4. /\ Count(x, IsReport) \in Nat
        /\ Count(x, IsReport) > 0 <=> \E k \in 1 .. Len(x) : IsReport(x[k])
        /\ Count(x, IsReport) < Len(x) <=> \E k \in 1 .. Len(x) : ~IsReport(x[k])
    <2> DEFINE S == {k \in DOMAIN x : IsReport(x[k])}
    <2>1. S \subseteq 1 .. Len(x)
      BY <1>1
    <2>2. IsFiniteSet(S) /\ Cardinality(S) <= Len(x) /\ (Cardinality(S) = Len(x) => S = 1 .. Len(x))
      BY <1>2, <2>1, FS_Subset
    <2>3. Cardinality(S) \in Nat /\ (Cardinality(S) = 0 <=> S = {})
      BY <2>2, FS_CardinalityType, FS_EmptySet
    <2>4. Count(x, IsReport) = Cardinality(S)
      BY DEF Count
    <2>5. S = {} <=> ~\E k \in 1 .. Len(x) : IsReport(x[k])
      BY <1>1
    <2>6. S = 1 .. Len(x) <=> ~\E k \in 1 .. Len(x) : ~IsReport(x[k])
      BY <1>1
    <2>7. Cardinality(S) = Len(x) <=> S = 1 .. Len(x)
      BY <1>2, <2>2
    <2> HIDE DEF S
    <2> QED BY <1>1, <2>2, <2>3, <2>4, <2>5, <2>6, <2>7
  <1>5. ASSUME NEW t \in a + 1 .. b
        PROVE  t - a \in 1 .. Len(x) /\ s[t] = x[t - a]
    BY <1>1
  <1>6. ASSUME NEW k \in 1 .. Len(x)
        PROVE  a + k \in a + 1 .. b /\ x[k] = s[a + k]
    BY <1>1
  <1>7. /\ (\E k \in 1 .. Len(x) : IsReport(x[k])) <=> \E k \in a + 1 .. b : IsReport(s[k])
        /\ (\E k \in 1 .. Len(x) : ~IsReport(x[k])) <=> \E k \in a + 1 .. b : ~IsReport(s[k])
    BY <1>5, <1>6
  <1> QED BY <1>4, <1>7

-----------------------------------------------------------------------------
(* The report of a start.                                                  *)
IsStart(m) == IsReport(m) /\ m.job # noId

(* t is s without what stands after a and up to b. *)
Cut(s, t, a, b) ==
    /\ a <= b /\ b <= Len(s) /\ Len(t) = Len(s) - (b - a)
    /\ \A k \in 1 .. Len(t) : t[k] = s[IF k <= a THEN k ELSE k + (b - a)]

(* A sequence less its middle is a cut of it, and the middle a part.       *)
LEMMA Cutting ==
  ASSUME NEW x \in Seq(Messages), NEW y \in Seq(Messages), NEW z \in Seq(Messages),
         NEW s, s = x \o y \o z, NEW t, t = x \o z,
         NEW a, a = Len(x), NEW b, b = Len(x) + Len(y)
  PROVE  /\ s \in Seq(Messages) /\ t \in Seq(Messages) /\ a \in Nat /\ b \in Nat
         /\ Cut(s, t, a, b) /\ Part(y, s, a, b)
  <1> DEFINE xy == x \o y
  <1>1. /\ xy \in Seq(Messages) /\ Len(xy) = Len(x) + Len(y)
        /\ Len(x) \in Nat /\ Len(y) \in Nat /\ Len(z) \in Nat
        /\ \A k \in 1 .. Len(x) + Len(y) : xy[k] = IF k <= Len(x) THEN x[k] ELSE y[k - Len(x)]
    BY ConcatProperties, LenProperties
  <1> HIDE DEF xy
  <1>2. /\ s \in Seq(Messages) /\ Len(s) = Len(xy) + Len(z)
        /\ \A k \in 1 .. Len(xy) + Len(z) : s[k] = IF k <= Len(xy) THEN xy[k] ELSE z[k - Len(xy)]
    BY <1>1, ConcatProperties DEF xy
  <1>3. /\ t \in Seq(Messages) /\ Len(t) = Len(x) + Len(z)
        /\ \A k \in 1 .. Len(x) + Len(z) : t[k] = IF k <= Len(x) THEN x[k] ELSE z[k - Len(x)]
    BY ConcatProperties
  <1>4. Part(y, s, a, b)
    BY <1>1, <1>2 DEF Part
  <1>5. ASSUME NEW k \in 1 .. Len(t)
        PROVE  t[k] = s[IF k <= a THEN k ELSE k + (b - a)]
    <2>1. CASE k <= a
      BY <1>1, <1>2, <1>3, <2>1
    <2>2. CASE ~(k <= a)
      <3>1. t[k] = z[k - Len(x)] /\ k + (b - a) = k + Len(y)
        BY <1>1, <1>3, <2>2
      <3>2. k + Len(y) \in 1 .. Len(xy) + Len(z) /\ ~(k + Len(y) <= Len(xy))
            /\ k + Len(y) - Len(xy) = k - Len(x)
        BY <1>1, <1>3, <2>2
      <3>3. s[k + Len(y)] = z[k - Len(x)]
        BY <1>2, <3>2, SMTT(30)
      <3> QED BY <2>2, <3>1, <3>3
    <2> QED BY <2>1, <2>2
  <1>6. Cut(s, t, a, b)
    BY <1>1, <1>2, <1>3, <1>5, SMTT(30) DEF Cut
  <1> QED BY <1>1, <1>2, <1>3, <1>4, <1>6

-----------------------------------------------------------------------------
(* What answers a start.                                                   *)
(* A start of job, made at at, stands before position i + 1 of what is     *)
(* under way: the next end, or in its absence the present, ends the        *)
(* interval it begins, and there is no other start before that end.        *)
EndsAfter(s, i) == {m \in DOMAIN s : i < m /\ IsEnd(s[m])}

Answered(s, sh, i, job, at) ==
    /\ \A m \in EndsAfter(s, i) :
          (\A e \in EndsAfter(s, i) : m <= e) =>
              \E n \in DOMAIN sh : sh[n] = [job |-> job, start |-> at, end |-> s[m].at]
    /\ EndsAfter(s, i) = {} =>
          \E n \in DOMAIN sh : sh[n] = [job |-> job, start |-> at, end |-> None]
    /\ \A m \in DOMAIN s : i < m /\ IsStart(s[m]) => \E e \in EndsAfter(s, i) : e < m

(* t is made from s by g, which keeps the order. *)
Embeds(g, s, t) ==
    /\ g \in [0 .. Len(t) -> 0 .. Len(s)]
    /\ \A k \in 1 .. Len(t) : t[k] = s[g[k]]
    /\ \A k, l \in 0 .. Len(t) : k < l => g[k] < g[l]

(* A map that keeps the order reflects it, and stays within the sequences. *)
LEMMA Order ==
  ASSUME NEW s \in Seq(Messages), NEW t \in Seq(Messages), NEW g, Embeds(g, s, t)
  PROVE  /\ Len(t) \in Nat /\ Len(s) \in Nat
         /\ DOMAIN t = 1 .. Len(t) /\ DOMAIN s = 1 .. Len(s)
         /\ \A k \in 0 .. Len(t) : g[k] \in 0 .. Len(s)
         /\ \A k \in 1 .. Len(t) : g[k] \in DOMAIN s /\ t[k] = s[g[k]]
         /\ \A k, l \in 0 .. Len(t) : k < l <=> g[k] < g[l]
         /\ \A k, l \in 0 .. Len(t) : k <= l <=> g[k] <= g[l]
  <1>1. /\ Len(t) \in Nat /\ Len(s) \in Nat
        /\ DOMAIN t = 1 .. Len(t) /\ DOMAIN s = 1 .. Len(s)
    BY LenProperties
  <1>2. \A k \in 0 .. Len(t) : g[k] \in 0 .. Len(s)
    BY DEF Embeds
  <1>3. \A k, l \in 0 .. Len(t) : k < l => g[k] < g[l]
    BY DEF Embeds
  <1>4. ASSUME NEW k \in 0 .. Len(t), NEW l \in 0 .. Len(t)
        PROVE  (k < l <=> g[k] < g[l]) /\ (k <= l <=> g[k] <= g[l])
    <2>1. g[k] \in Int /\ g[l] \in Int /\ k \in Int /\ l \in Int
      BY <1>2
    <2>2. k < l \/ k = l \/ l < k
      BY <2>1
    <2> QED BY <1>3, <2>1, <2>2
  <1>5. ASSUME NEW k \in 1 .. Len(t)
        PROVE  g[k] \in DOMAIN s /\ t[k] = s[g[k]]
    <2>1. 0 \in 0 .. Len(t) /\ k \in 0 .. Len(t) /\ 0 < k
      BY <1>1
    <2>2. g[0] < g[k] /\ g[0] \in 0 .. Len(s) /\ g[k] \in 0 .. Len(s)
      BY <1>2, <1>3, <2>1
    <2> QED BY <1>1, <2>2 DEF Embeds
  <1> QED BY <1>1, <1>2, <1>4, <1>5

(* Messages may be dropped after a start: while the ends after it are      *)
(* kept, it stays answered. Starts that are lost do no harm.               *)
LEMMA AnsweredEmbeds ==
  ASSUME NEW s \in Seq(Messages), NEW t \in Seq(Messages), NEW g, Embeds(g, s, t),
         \A m \in DOMAIN s : g[0] < m /\ IsEnd(s[m]) => \E k \in DOMAIN t : m = g[k],
         NEW i \in 0 .. Len(t), NEW sh, NEW job, NEW at, Answered(s, sh, g[i], job, at)
  PROVE  Answered(t, sh, i, job, at)
  <1> USE Order
  <1>1. \A m \in EndsAfter(t, i) : g[m] \in EndsAfter(s, g[i]) /\ t[m] = s[g[m]]
    BY DEF EndsAfter
  <1>2. ASSUME NEW m \in EndsAfter(s, g[i])
        PROVE  \E k \in EndsAfter(t, i) : m = g[k]
    <2>1. g[0] <= g[i] /\ g[0] \in Int /\ g[i] \in Int
      OBVIOUS
    <2>2. m \in DOMAIN s /\ g[i] < m /\ IsEnd(s[m]) /\ m \in Int
      BY DEF EndsAfter
    <2>3. g[0] < m
      BY <2>1, <2>2
    <2>4. PICK k \in DOMAIN t : m = g[k]
      BY <2>2, <2>3
    <2>5. k \in 0 .. Len(t) /\ k \in 1 .. Len(t)
      OBVIOUS
    <2>6. i < k /\ IsEnd(t[k])
      BY <2>2, <2>4, <2>5
    <2> QED BY <2>4, <2>6 DEF EndsAfter
  <1>3. ASSUME NEW m \in EndsAfter(t, i), \A e \in EndsAfter(t, i) : m <= e
        PROVE  \E n \in DOMAIN sh : sh[n] = [job |-> job, start |-> at, end |-> t[m].at]
    <2>1. \A e \in EndsAfter(t, i) : e \in 0 .. Len(t)
      BY DEF EndsAfter
    <2>2. \A e \in EndsAfter(s, g[i]) : g[m] <= e
      BY <1>2, <1>3, <2>1
    <2> QED BY <1>1, <2>2 DEF Answered
  <1>4. EndsAfter(t, i) = {} =>
          \E n \in DOMAIN sh : sh[n] = [job |-> job, start |-> at, end |-> None]
    BY <1>2 DEF Answered
  <1>5. ASSUME NEW m \in DOMAIN t, i < m, IsStart(t[m])
        PROVE  \E e \in EndsAfter(t, i) : e < m
    <2>1. m \in 0 .. Len(t) /\ m \in 1 .. Len(t)
      OBVIOUS
    <2>2. g[i] < g[m] /\ g[m] \in DOMAIN s /\ IsStart(s[g[m]])
      BY <1>5, <2>1
    <2>3. PICK e \in EndsAfter(s, g[i]) : e < g[m]
      BY <2>2 DEF Answered
    <2>4. PICK k \in EndsAfter(t, i) : e = g[k]
      BY <1>2
    <2>5. k \in 0 .. Len(t)
      BY DEF EndsAfter
    <2> QED BY <2>1, <2>3, <2>4, <2>5
  <1> QED BY <1>3, <1>4, <1>5 DEF Answered

-----------------------------------------------------------------------------
(* What is appended.                                                       *)
(* The shape of Append, for the lemmas below.                              *)
LEMMA AppendedTo ==
  ASSUME NEW s \in Seq(Messages), NEW c \in Messages, NEW t, t = Append(s, c)
  PROVE  /\ t \in Seq(Messages) /\ Len(s) \in Nat /\ Len(t) = Len(s) + 1
         /\ DOMAIN s = 1 .. Len(s) /\ DOMAIN t = 1 .. Len(s) + 1
         /\ \A k \in 1 .. Len(s) : t[k] = s[k]
         /\ t[Len(s) + 1] = c
  <1>1. /\ t \in Seq(Messages) /\ Len(s) \in Nat /\ Len(t) = Len(s) + 1
        /\ \A k \in 1 .. Len(s) : t[k] = s[k]
        /\ t[Len(s) + 1] = c
    BY AppendProperties, LenProperties
  <1>2. DOMAIN s = 1 .. Len(s) /\ DOMAIN t = 1 .. Len(s) + 1
    BY <1>1, LenProperties
  <1> QED BY <1>1, <1>2

(* The ends after a position, when one message more is sent.               *)
LEMMA EndsAppended ==
  ASSUME NEW s \in Seq(Messages), NEW c \in Messages, NEW i \in 0 .. Len(s)
  PROVE  /\ IsEnd(c) => EndsAfter(Append(s, c), i) = EndsAfter(s, i) \cup {Len(s) + 1}
         /\ ~IsEnd(c) => EndsAfter(Append(s, c), i) = EndsAfter(s, i)
  <1> DEFINE t == Append(s, c)
  <1>1. /\ Len(s) \in Nat /\ DOMAIN s = 1 .. Len(s) /\ DOMAIN t = 1 .. Len(s) + 1
        /\ \A k \in 1 .. Len(s) : t[k] = s[k]
        /\ t[Len(s) + 1] = c
    BY AppendedTo
  <1> HIDE DEF t
  <1>2. \A m \in DOMAIN t : m \in DOMAIN s \/ m = Len(s) + 1
    BY <1>1
  <1>3. Len(s) + 1 \in DOMAIN t /\ i < Len(s) + 1 /\ Len(s) + 1 \notin DOMAIN s
    BY <1>1
  <1>4. \A m \in DOMAIN s : m \in DOMAIN t /\ t[m] = s[m]
    BY <1>1
  <1> QED BY <1>1, <1>2, <1>3, <1>4 DEF EndsAfter, t

(* What is neither a start nor an end answers nothing. *)
LEMMA AnsweredStill ==
  ASSUME NEW s \in Seq(Messages), NEW c \in Messages, ~IsReport(c),
         NEW t, t = Append(s, c), NEW i \in 0 .. Len(s),
         NEW sh, NEW job, NEW at, Answered(s, sh, i, job, at)
  PROVE  Answered(t, sh, i, job, at)
  <1>0. ~IsEnd(c)
    BY DEF IsEnd
  <1>1. EndsAfter(t, i) = EndsAfter(s, i)
    BY <1>0, EndsAppended
  <1>2. \A m \in EndsAfter(s, i) : t[m] = s[m]
    BY AppendedTo DEF EndsAfter
  <1>3. \A m \in DOMAIN t : IsStart(t[m]) => m \in DOMAIN s /\ t[m] = s[m]
    BY AppendedTo DEF IsStart
  <1> QED BY <1>1, <1>2, <1>3, ZenonT(30) DEF Answered

(* The sheet sh with what is open closed at a time. *)
ClosedAt(sh, time) ==
    [k \in DOMAIN sh |->
        IF sh[k].end # None THEN sh[k]
        ELSE [job |-> sh[k].job, start |-> sh[k].start, end |-> time]]

(* An end answers the last start, if nothing has. *)
LEMMA AnsweredByEnd ==
  ASSUME NEW s \in Seq(Messages), NEW c \in Reports, IsEnd(c),
         NEW t, t = Append(s, c), NEW i \in 0 .. Len(s),
         NEW sh \in Seq(Intervals), NEW job, NEW at, Answered(s, sh, i, job, at)
  PROVE  Answered(t, ClosedAt(sh, c.at), i, job, at)
  <1> DEFINE last == Len(s) + 1
             sh2  == ClosedAt(sh, c.at)
  <1>0. c \in Messages
    BY DEF Messages
  <1>a. EndsAfter(t, i) = EndsAfter(s, i) \cup {last}
    BY <1>0, EndsAppended
  <1>1. /\ EndsAfter(t, i) = EndsAfter(s, i) \cup {last}
        /\ t[last] = c /\ last \in Nat
        /\ \A m \in DOMAIN s : m < last /\ m \in Nat /\ t[m] = s[m]
        /\ \A m \in DOMAIN t : m = last \/ m \in DOMAIN s
    <2>1. /\ Len(s) \in Nat /\ DOMAIN s = 1 .. Len(s) /\ DOMAIN t = 1 .. Len(s) + 1
          /\ \A k \in 1 .. Len(s) : t[k] = s[k]
          /\ t[Len(s) + 1] = c
      BY <1>0, AppendedTo
    <2> QED BY <1>a, <2>1
  <1>2. \A m \in EndsAfter(s, i) : m < last /\ m \in Nat /\ t[m] = s[m] /\ t[m].at # None
    <2>1. ASSUME NEW m \in DOMAIN s, IsEnd(s[m]) PROVE s[m].at # None
      <3>1. s[m] \in Reports
        BY <2>1, ElementOfSeq, LenProperties DEF Messages, Current, IsEnd, IsReport
      <3> QED BY <3>1, JobsAssumption DEF Reports, Times
    <2> QED BY <1>1, <2>1 DEF EndsAfter
  <1>3. ASSUME NEW n \in DOMAIN sh
        PROVE  /\ n \in DOMAIN sh2
               /\ sh[n].end # None => sh2[n] = sh[n]
               /\ sh[n] = [job |-> job, start |-> at, end |-> None] =>
                     sh2[n] = [job |-> job, start |-> at, end |-> c.at]
    BY DEF ClosedAt
  <1> HIDE DEF sh2, last
  <1>4. ASSUME NEW m \in EndsAfter(t, i), \A e \in EndsAfter(t, i) : m <= e
        PROVE  \E n \in DOMAIN sh2 : sh2[n] = [job |-> job, start |-> at, end |-> t[m].at]
    <2>1. CASE EndsAfter(s, i) = {}
      <3>1. t[m] = c
        BY <1>1, <2>1
      <3>2. PICK n \in DOMAIN sh : sh[n] = [job |-> job, start |-> at, end |-> None]
        BY <2>1 DEF Answered
      <3> QED BY <1>3, <3>1, <3>2
    <2>2. CASE EndsAfter(s, i) # {}
      <3>1. PICK e \in EndsAfter(s, i) : TRUE
        BY <2>2
      <3>2. m <= e /\ e < last /\ m \in Nat /\ e \in Nat
        BY <1>1, <1>2, <1>4
      <3>3. m \in EndsAfter(s, i)
        BY <1>1, <3>2
      <3>4. \A l \in EndsAfter(s, i) : m <= l
        BY <1>1, <1>4
      <3>5. PICK n \in DOMAIN sh : sh[n] = [job |-> job, start |-> at, end |-> s[m].at]
        BY <3>3, <3>4 DEF Answered
      <3>6. sh[n].end = s[m].at
        BY <3>5
      <3>7. sh[n].end # None /\ t[m] = s[m]
        BY <1>2, <3>3, <3>6
      <3>8. sh2[n] = sh[n] /\ n \in DOMAIN sh2
        BY <1>3, <3>7
      <3> QED BY <3>5, <3>7, <3>8
    <2> QED BY <2>1, <2>2
  <1>5. ASSUME NEW m \in DOMAIN t, i < m, IsStart(t[m])
        PROVE  \E e \in EndsAfter(t, i) : e < m
    <2>1. m \in DOMAIN s /\ t[m] = s[m]
      BY <1>1, <1>5 DEF IsStart, IsEnd
    <2> QED BY <1>1, <1>5, <2>1 DEF Answered
  <1> QED BY <1>1, <1>4, <1>5 DEF Answered, sh2

(* A start that follows upon an end is answered by the present. *)
LEMMA AnsweredPastStart ==
  ASSUME NEW s \in Seq(Messages), NEW c \in Messages, IsStart(c),
         NEW t, t = Append(s, c), NEW i \in 0 .. Len(s),
         NEW sh \in Seq(Intervals), \A n \in DOMAIN sh : sh[n].end # None,
         NEW new \in Intervals, NEW sh2, sh2 = Append(sh, new),
         NEW job, NEW at, Answered(s, sh, i, job, at)
  PROVE  Answered(t, sh2, i, job, at)
  <1>0. ~IsEnd(c)
    BY DEF IsStart, IsEnd
  <1>1. EndsAfter(t, i) = EndsAfter(s, i)
    BY <1>0, EndsAppended
  <1>2. \A n \in DOMAIN sh : n \in DOMAIN sh2 /\ sh2[n] = sh[n]
    BY AppendProperties, LenProperties
  <1>3. EndsAfter(s, i) # {}
    BY DEF Answered
  <1>4. \A m \in EndsAfter(s, i) : m < Len(s) + 1 /\ t[m] = s[m]
    BY AppendedTo DEF EndsAfter
  <1>5. ASSUME NEW m \in DOMAIN t, i < m, IsStart(t[m])
        PROVE  \E e \in EndsAfter(t, i) : e < m
    <2>1. CASE m \in DOMAIN s
      BY <1>1, <1>5, <2>1, AppendedTo DEF Answered
    <2>2. CASE m = Len(s) + 1
      BY <1>1, <1>3, <1>4, <2>2
    <2> QED BY <2>1, <2>2, AppendedTo
  <1>6. ASSUME NEW m \in EndsAfter(t, i), \A e \in EndsAfter(t, i) : m <= e
        PROVE  \E n \in DOMAIN sh2 : sh2[n] = [job |-> job, start |-> at, end |-> t[m].at]
    <2>1. PICK n \in DOMAIN sh : sh[n] = [job |-> job, start |-> at, end |-> s[m].at]
      BY <1>1, <1>6 DEF Answered
    <2> QED BY <1>1, <1>2, <1>4, <2>1
  <1> QED BY <1>1, <1>3, <1>5, <1>6 DEF Answered

(* A start that was just sent is answered by the interval just opened.     *)
LEMMA AnsweredLast ==
  ASSUME NEW s \in Seq(Messages), NEW c \in Messages, NEW t, t = Append(s, c),
         NEW sh \in Seq(Intervals), NEW new \in Intervals, NEW sh2, sh2 = Append(sh, new),
         new.end = None
  PROVE  Answered(t, sh2, Len(s) + 1, new.job, new.start)
  <1>1. EndsAfter(t, Len(s) + 1) = {} /\ ~\E m \in DOMAIN t : Len(s) + 1 < m
    BY AppendedTo DEF EndsAfter
  <1>2. Len(sh) + 1 \in DOMAIN sh2 /\ sh2[Len(sh) + 1] = new
    BY AppendProperties, LenProperties
  <1>3. new = [job |-> new.job, start |-> new.start, end |-> None]
    BY DEF Intervals
  <1> QED BY <1>1, <1>2, <1>3 DEF Answered

-----------------------------------------------------------------------------
(* The table and what is under way.                                        *)
(* Every start under way and every open row is answered, and one row at    *)
(* most is open.                                                           *)
Matched(s, sh, rs) ==
    /\ \A i \in DOMAIN s : IsStart(s[i]) => Answered(s, sh, i, s[i].job, s[i].at)
    /\ \A k \in DOMAIN rs : IsOpen(rs[k]) => Answered(s, sh, 0, rs[k].job, rs[k].start)
    /\ \A k, l \in DOMAIN rs : IsOpen(rs[k]) /\ IsOpen(rs[l]) => k = l

(* What was lost, ends apart, leaves the rest matched.                     *)
LEMMA MatchedEmbeds ==
  ASSUME NEW s \in Seq(Messages), NEW t \in Seq(Messages), NEW g, Embeds(g, s, t), g[0] = 0,
         \A m \in DOMAIN s : IsEnd(s[m]) => \E k \in DOMAIN t : m = g[k],
         NEW sh, NEW rs, Matched(s, sh, rs)
  PROVE  Matched(t, sh, rs)
  <1>1. /\ DOMAIN t = 1 .. Len(t) /\ Len(t) \in Nat
        /\ \A k \in 1 .. Len(t) : g[k] \in DOMAIN s /\ t[k] = s[g[k]]
    BY Order
  <1>2. ASSUME NEW i \in DOMAIN t, IsStart(t[i])
        PROVE  Answered(t, sh, i, t[i].job, t[i].at)
    <2>1. Answered(s, sh, g[i], t[i].job, t[i].at)
      BY <1>1, <1>2 DEF Matched
    <2>2. i \in 0 .. Len(t)
      BY <1>1
    <2> QED BY <2>1, <2>2, AnsweredEmbeds
  <1>3. ASSUME NEW k \in DOMAIN rs, IsOpen(rs[k])
        PROVE  Answered(t, sh, 0, rs[k].job, rs[k].start)
    <2>1. Answered(s, sh, g[0], rs[k].job, rs[k].start)
      BY <1>3 DEF Matched
    <2>2. 0 \in 0 .. Len(t)
      BY <1>1
    <2> QED BY <2>1, <2>2, AnsweredEmbeds
  <1> QED BY <1>2, <1>3 DEF Matched

(* So does what is sent and is not a report.                               *)
LEMMA MatchedStill ==
  ASSUME NEW s \in Seq(Messages), NEW c \in Messages, ~IsReport(c),
         NEW sh, NEW rs, Matched(s, sh, rs)
  PROVE  Matched(Append(s, c), sh, rs)
  <1> DEFINE t == Append(s, c)
  <1>1. /\ DOMAIN s = 1 .. Len(s) /\ Len(s) \in Nat /\ DOMAIN t = 1 .. Len(s) + 1
        /\ \A k \in 1 .. Len(s) : t[k] = s[k]
        /\ t[Len(s) + 1] = c
    BY AppendedTo
  <1>2. \A i \in 0 .. Len(s) : \A job, at :
           Answered(s, sh, i, job, at) => Answered(t, sh, i, job, at)
    BY AnsweredStill
  <1> HIDE DEF t
  <1>3. ASSUME NEW i \in DOMAIN t, IsStart(t[i])
        PROVE  Answered(t, sh, i, t[i].job, t[i].at)
    <2>1. i \in 1 .. Len(s) /\ i \in 0 .. Len(s)
      BY <1>1, <1>3 DEF IsStart
    <2> QED BY <1>1, <1>2, <1>3, <2>1 DEF Matched
  <1>4. 0 \in 0 .. Len(s)
    BY <1>1
  <1> QED BY <1>2, <1>3, <1>4 DEF Matched, t

(* An end that is sent closes what is open, in the sheet as in what is     *)
(* under way.                                                              *)
LEMMA MatchedByEnd ==
  ASSUME NEW s \in Seq(Messages), NEW c \in Reports, IsEnd(c),
         NEW sh \in Seq(Intervals), NEW rs, Matched(s, sh, rs)
  PROVE  Matched(Append(s, c), ClosedAt(sh, c.at), rs)
  <1> DEFINE t == Append(s, c)
             sh2 == ClosedAt(sh, c.at)
  <1>0. c \in Messages
    BY DEF Messages
  <1>1. /\ DOMAIN s = 1 .. Len(s) /\ Len(s) \in Nat /\ DOMAIN t = 1 .. Len(s) + 1
        /\ \A k \in 1 .. Len(s) : t[k] = s[k]
        /\ t[Len(s) + 1] = c
    BY <1>0, AppendedTo
  <1>2. \A i \in 0 .. Len(s) : \A job, at :
           Answered(s, sh, i, job, at) => Answered(t, sh2, i, job, at)
    BY AnsweredByEnd
  <1> HIDE DEF t, sh2
  <1>3. ASSUME NEW i \in DOMAIN t, IsStart(t[i])
        PROVE  Answered(t, sh2, i, t[i].job, t[i].at)
    <2>1. i \in 1 .. Len(s) /\ i \in 0 .. Len(s)
      BY <1>1, <1>3 DEF IsStart, IsEnd
    <2> QED BY <1>1, <1>2, <1>3, <2>1 DEF Matched
  <1>4. 0 \in 0 .. Len(s)
    BY <1>1
  <1> QED BY <1>2, <1>3, <1>4 DEF Matched, t, sh2

(* A start that is sent opens an interval, when none is open.              *)
LEMMA MatchedByStart ==
  ASSUME NEW s \in Seq(Messages), NEW c \in Messages, IsStart(c),
         NEW sh \in Seq(Intervals), \A n \in DOMAIN sh : sh[n].end # None,
         NEW new \in Intervals, new.job = c.job, new.start = c.at, new.end = None,
         NEW rs, Matched(s, sh, rs)
  PROVE  Matched(Append(s, c), Append(sh, new), rs)
  <1> DEFINE t == Append(s, c)
             sh2 == Append(sh, new)
  <1>1. /\ DOMAIN s = 1 .. Len(s) /\ Len(s) \in Nat /\ DOMAIN t = 1 .. Len(s) + 1
        /\ \A k \in 1 .. Len(s) : t[k] = s[k]
        /\ t[Len(s) + 1] = c
    BY AppendedTo
  <1>2. \A i \in 0 .. Len(s) : \A job, at :
           Answered(s, sh, i, job, at) => Answered(t, sh2, i, job, at)
    BY AnsweredPastStart
  <1>3. Answered(t, sh2, Len(s) + 1, c.job, c.at)
    BY AnsweredLast
  <1> HIDE DEF t, sh2
  <1>4. ASSUME NEW i \in DOMAIN t, IsStart(t[i])
        PROVE  Answered(t, sh2, i, t[i].job, t[i].at)
    <2>1. CASE i \in 1 .. Len(s)
      <3>1. i \in 0 .. Len(s)
        BY <2>1
      <3> QED BY <1>1, <1>2, <1>4, <2>1, <3>1 DEF Matched
    <2>2. CASE i = Len(s) + 1
      BY <1>1, <1>3, <2>2
    <2> QED BY <1>1, <2>1, <2>2
  <1>5. 0 \in 0 .. Len(s)
    BY <1>1
  <1> QED BY <1>2, <1>4, <1>5 DEF Matched, t, sh2

(* The first of what is under way is handled. *)
LEMMA TailEmbeds ==
  ASSUME NEW s \in Seq(Messages), s # <<>>
  PROVE  /\ Tail(s) \in Seq(Messages)
         /\ Embeds([k \in 0 .. Len(Tail(s)) |-> k + 1], s, Tail(s))
         /\ \A m \in DOMAIN s : 1 < m => \E k \in DOMAIN Tail(s) : m = k + 1
         /\ 1 \in DOMAIN s /\ s[1] = Head(s) /\ s[1] \in Messages
         /\ DOMAIN Tail(s) = 1 .. Len(Tail(s)) /\ Len(Tail(s)) \in Nat
  <1> DEFINE t == Tail(s)
  <1>1. /\ t \in Seq(Messages) /\ Len(s) \in Nat /\ Len(t) = Len(s) - 1 /\ Len(s) # 0
        /\ \A k \in 1 .. Len(t) : t[k] = s[k + 1]
        /\ Head(s) \in Messages
    BY HeadTailProperties, EmptySeq, LenProperties
  <1>2. DOMAIN t = 1 .. Len(t) /\ DOMAIN s = 1 .. Len(s) /\ Len(t) \in Nat
    BY <1>1, LenProperties
  <1>3. s[1] = Head(s)
    BY <1>1
  <1> HIDE DEF t
  <1>4. Embeds([k \in 0 .. Len(t) |-> k + 1], s, t)
    BY <1>1, <1>2 DEF Embeds
  <1>5. ASSUME NEW m \in DOMAIN s, 1 < m PROVE \E k \in DOMAIN t : m = k + 1
    <2>1. m - 1 \in DOMAIN t /\ m = (m - 1) + 1
      BY <1>1, <1>2, <1>5
    <2> QED BY <2>1
  <1> QED BY <1>1, <1>2, <1>3, <1>4, <1>5 DEF t

(* What is after the head is answered when the head has gone.              *)
LEMMA AnsweredTail ==
  ASSUME NEW s \in Seq(Messages), s # <<>>, NEW i \in 0 .. Len(Tail(s)),
         NEW sh, NEW job, NEW at, Answered(s, sh, i + 1, job, at)
  PROVE  Answered(Tail(s), sh, i, job, at)
  <1> DEFINE t == Tail(s)
             g == [k \in 0 .. Len(t) |-> k + 1]
  <1>1. /\ t \in Seq(Messages) /\ Embeds(g, s, t) /\ DOMAIN t = 1 .. Len(t) /\ Len(t) \in Nat
        /\ \A m \in DOMAIN s : 1 < m => \E k \in DOMAIN t : m = k + 1
    BY TailEmbeds
  <1>2. g[0] = 1 /\ g[i] = i + 1 /\ \A k \in 1 .. Len(t) : g[k] = k + 1
    BY <1>1
  <1> HIDE DEF t, g
  <1>3. \A m \in DOMAIN s : g[0] < m /\ IsEnd(s[m]) => \E k \in DOMAIN t : m = g[k]
    BY <1>1, <1>2
  <1>4. Answered(s, sh, g[i], job, at)
    BY <1>2
  <1> QED BY <1>1, <1>3, <1>4, AnsweredEmbeds DEF t

(* In particular the starts are.                                           *)
LEMMA StartsTail ==
  ASSUME NEW s \in Seq(Messages), s # <<>>, NEW sh, NEW rs, Matched(s, sh, rs),
         NEW i \in DOMAIN Tail(s), IsStart(Tail(s)[i])
  PROVE  Answered(Tail(s), sh, i, Tail(s)[i].job, Tail(s)[i].at)
  <1>1. i \in 1 .. Len(Tail(s)) /\ i \in 0 .. Len(Tail(s))
    BY TailEmbeds
  <1>2. i + 1 \in DOMAIN s /\ Tail(s)[i] = s[i + 1]
    BY <1>1, HeadTailProperties, LenProperties
  <1>3. Answered(s, sh, i + 1, Tail(s)[i].job, Tail(s)[i].at)
    BY <1>2 DEF Matched
  <1> QED BY <1>1, <1>3, AnsweredTail

(* When a start is at the head no row is open. *)
LEMMA NoneOpen ==
  ASSUME NEW s \in Seq(Messages), s # <<>>, IsStart(s[1]), NEW sh, NEW rs, Matched(s, sh, rs)
  PROVE  \A k \in DOMAIN rs : ~IsOpen(rs[k])
  <1> SUFFICES ASSUME NEW k \in DOMAIN rs, IsOpen(rs[k]) PROVE FALSE
    OBVIOUS
  <1>1. 1 \in DOMAIN s
    BY TailEmbeds
  <1>2. PICK e \in EndsAfter(s, 0) : e < 1
    BY <1>1 DEF Matched, Answered
  <1>3. e \in Nat /\ 0 < e
    BY LenProperties DEF EndsAfter
  <1> QED BY <1>2, <1>3

-----------------------------------------------------------------------------
(* What the table holds of what was worked: closed rows are intervals of   *)
(* the sheet, with their length or none; of what is open, o2s remembers    *)
(* the start or nothing.                                                   *)
IntervalOf(sh, r) ==
    \E n \in DOMAIN sh : sh[n].job = r.job /\ sh[n].start = r.start /\ sh[n].end = r.end

Stored(sh, rs, js) ==
    \A k \in DOMAIN rs :
        IF IsOpen(rs[k]) THEN js \in {None, rs[k].start}
        ELSE IntervalOf(sh, rs[k]) /\ rs[k].duration \in {None, rs[k].end - rs[k].start}

(* The row that a start makes.                                             *)
LEMMA OpenStart ==
  ASSUME NEW r \in Reports, IsStart(r), NEW new,
         new = [job |-> r.job, start |-> r.at, end |-> None, duration |-> None]
  PROVE  new \in Rows /\ IsOpen(new)
  BY DEF IsStart, Reports, Rows, IsOpen

(* A start makes a row that the rest of the line answers; what o2s         *)
(* remembers is its time or nothing.                                       *)
LEMMA StartHandled ==
  ASSUME NEW s \in Seq(Messages), s # <<>>, s[1] \in Reports, IsStart(s[1]), StoreStart(s[1]),
         rows \in Seq(Rows), NEW sh, NEW js, NEW js2, Matched(s, sh, rows), Stored(sh, rows, js),
         js2 \in {None, s[1].at}
  PROVE  Matched(Tail(s), sh, rows') /\ Stored(sh, rows', js2)
  <1> DEFINE t   == Tail(s)
             new == [job |-> s[1].job, start |-> s[1].at, end |-> None, duration |-> None]
             z   == Len(rows) + 1
  <1>1. new \in Rows /\ IsOpen(new)
    BY OpenStart
  <1>2. rows' = Append(rows, new)
    BY DEF StoreStart
  <1>3. new.job = s[1].job /\ new.start = s[1].at
    OBVIOUS
  <1> HIDE DEF new
  <1>4. /\ Len(rows) \in Nat /\ DOMAIN rows = 1 .. Len(rows)
        /\ rows' \in Seq(Rows) /\ Len(rows') = Len(rows) + 1
        /\ \A k \in 1 .. Len(rows) : rows'[k] = rows[k]
        /\ rows'[Len(rows) + 1] = new
    BY <1>1, <1>2, AppendProperties, LenProperties
  <1>5. DOMAIN rows' = 1 .. Len(rows) + 1
    BY <1>4, LenProperties
  <1>6. \A k \in DOMAIN rows' : \/ k \in DOMAIN rows /\ rows'[k] = rows[k] /\ ~IsOpen(rows'[k])
                                \/ k = z /\ rows'[k] = new
    BY <1>4, <1>5, NoneOpen
  <1>7. Answered(t, sh, 0, new.job, new.start)
    <2>1. Answered(s, sh, 1, s[1].job, s[1].at)
      BY TailEmbeds DEF Matched
    <2>2. 0 \in 0 .. Len(t) /\ 0 + 1 = 1
      BY TailEmbeds
    <2>3. Answered(s, sh, 0 + 1, new.job, new.start)
      BY <1>3, <2>1, <2>2
    <2> HIDE DEF t
    <2>4. Answered(Tail(s), sh, 0, new.job, new.start)
      BY <2>2, <2>3, AnsweredTail DEF t
    <2> QED BY <2>4 DEF t
  <1>8. \A i \in DOMAIN t : IsStart(t[i]) => Answered(t, sh, i, t[i].job, t[i].at)
    BY StartsTail
  <1> HIDE DEF t, z
  <1>9. Matched(t, sh, rows')
    BY <1>1, <1>6, <1>7, <1>8 DEF Matched
  <1>10. ASSUME NEW k \in DOMAIN rows'
         PROVE  IF IsOpen(rows'[k]) THEN js2 \in {None, rows'[k].start}
                ELSE IntervalOf(sh, rows'[k])
                     /\ rows'[k].duration \in {None, rows'[k].end - rows'[k].start}
    <2>1. CASE k \in DOMAIN rows /\ rows'[k] = rows[k] /\ ~IsOpen(rows'[k])
      BY <2>1 DEF Stored
    <2>2. CASE k = z /\ rows'[k] = new
      BY <1>1, <1>3, <2>2
    <2> QED BY <1>6, <2>1, <2>2
  <1> QED BY <1>9, <1>10 DEF t, Stored

(* An end closes the one open row, whose start it answers. *)
LEMMA EndHandled ==
  ASSUME NEW s \in Seq(Messages), s # <<>>, s[1] \in Reports, IsEnd(s[1]), StoreEnd(s[1]),
         rows \in Seq(Rows), jobstart \in Times \cup {None},
         NEW sh, Matched(s, sh, rows), Stored(sh, rows, jobstart)
  PROVE  Matched(Tail(s), sh, rows') /\ Stored(sh, rows', jobstart)
  <1>1. \A i \in DOMAIN Tail(s) :
           IsStart(Tail(s)[i]) => Answered(Tail(s), sh, i, Tail(s)[i].job, Tail(s)[i].at)
    BY StartsTail
  <1>2. CASE Count(rows, IsOpen) = 0 /\ UNCHANGED rows
    <2> DEFINE S == {k \in DOMAIN rows : IsOpen(rows[k])}
    <2>1. IsFiniteSet(DOMAIN rows)
      BY LenProperties, FS_Interval
    <2>2. IsFiniteSet(S)
      BY <2>1, FS_Subset
    <2>3. Cardinality(S) = 0
      BY <1>2 DEF Count
    <2>4. S = {}
      BY <2>2, <2>3, FS_EmptySet
    <2>5. \A k \in DOMAIN rows : ~IsOpen(rows[k])
      BY <2>4
    <2> QED BY <1>1, <1>2, <2>5 DEF Matched, Stored
  <1>3. ASSUME NEW k \in DOMAIN rows, IsOpen(rows[k]),
               rows' = [rows EXCEPT ![k] = [job |-> rows[k].job, start |-> rows[k].start,
                                            end |-> s[1].at, duration |-> Duration(s[1].at)]]
        PROVE  Matched(Tail(s), sh, rows') /\ Stored(sh, rows', jobstart)
    <2> DEFINE new == [job |-> rows[k].job, start |-> rows[k].start,
                       end |-> s[1].at, duration |-> Duration(s[1].at)]
    <2>1. /\ DOMAIN rows' = DOMAIN rows /\ rows'[k] = new
          /\ \A n \in DOMAIN rows : n # k => rows'[n] = rows[n]
      BY <1>3
    <2>2. s[1].at \in Times /\ s[1].at # None
      BY JobsAssumption DEF Reports, Times
    <2>3. \A n \in DOMAIN rows : n # k => ~IsOpen(rows'[n])
      BY <1>3, <2>1 DEF Matched
    <2>4. ~IsOpen(rows'[k])
      BY <2>1, <2>2 DEF IsOpen
    <2>5. Matched(Tail(s), sh, rows')
      BY <1>1, <2>1, <2>3, <2>4 DEF Matched
    <2>6. IntervalOf(sh, new)
      <3>1. Answered(s, sh, 0, rows[k].job, rows[k].start)
        BY <1>3 DEF Matched
      <3>2. 1 \in EndsAfter(s, 0) /\ \A e \in EndsAfter(s, 0) : 1 <= e
        BY TailEmbeds, LenProperties DEF EndsAfter
      <3>3. PICK n \in DOMAIN sh :
                    sh[n] = [job |-> rows[k].job, start |-> rows[k].start, end |-> s[1].at]
        BY <3>1, <3>2 DEF Answered
      <3>4. sh[n].job = new.job /\ sh[n].start = new.start /\ sh[n].end = new.end
        BY <3>3
      <3> QED BY <3>4 DEF IntervalOf
    <2>7. new.duration \in {None, new.end - new.start}
      <3>1. jobstart \in {None, rows[k].start}
        BY <1>3 DEF Stored
      <3> QED BY <3>1 DEF Duration
    <2> HIDE DEF new
    <2>8. ASSUME NEW n \in DOMAIN rows'
          PROVE  IF IsOpen(rows'[n]) THEN jobstart \in {None, rows'[n].start}
                 ELSE IntervalOf(sh, rows'[n])
                      /\ rows'[n].duration \in {None, rows'[n].end - rows'[n].start}
      <3>1. CASE n = k
        BY <2>1, <2>4, <2>6, <2>7, <3>1
      <3>2. CASE n # k
        BY <2>1, <2>3, <3>2 DEF Stored
      <3> QED BY <3>1, <3>2
    <2> QED BY <2>5, <2>8 DEF Stored
  <1> QED BY <1>2, <1>3 DEF StoreEnd

-----------------------------------------------------------------------------
(* The order of the starts.                                                *)
(* The next start after position i is that of the interval after the k-th, *)
(* and when there is none, the k-th is the last.                           *)
StartsAfter(s, i) == {m \in DOMAIN s : i < m /\ IsStart(s[m])}

Follows(s, sh, i, k) ==
    /\ \A m \in StartsAfter(s, i) :
          (\A e \in StartsAfter(s, i) : m <= e) =>
              k + 1 \in DOMAIN sh /\ sh[k + 1].job = s[m].job /\ sh[k + 1].start = s[m].at
    /\ StartsAfter(s, i) = {} => k = Len(sh)

(* The table is a beginning of the sheet, and what is under way is the rest. *)
Lined(s, sh, rs) ==
    /\ Follows(s, sh, 0, Len(rs))
    /\ \A i \in DOMAIN s : IsStart(s[i]) =>
          \A k \in DOMAIN sh : sh[k].start = s[i].at => Follows(s, sh, i, k)
    /\ \A k \in DOMAIN rs :
          k \in DOMAIN sh /\ rs[k].job = sh[k].job /\ rs[k].start = sh[k].start

(* When starts are kept in their order, what follows follows.              *)
LEMMA FollowsEmbeds ==
  ASSUME NEW s \in Seq(Messages), NEW t \in Seq(Messages), NEW g, Embeds(g, s, t),
         \A m \in DOMAIN s : g[0] < m /\ IsStart(s[m]) => \E k \in DOMAIN t : m = g[k],
         NEW i \in 0 .. Len(t), NEW sh, NEW k, Follows(s, sh, g[i], k)
  PROVE  Follows(t, sh, i, k)
  <1> USE Order
  <1>1. \A m \in StartsAfter(t, i) : g[m] \in StartsAfter(s, g[i]) /\ t[m] = s[g[m]]
    BY SMTT(30) DEF StartsAfter
  <1>2. ASSUME NEW m \in StartsAfter(s, g[i])
        PROVE  \E l \in StartsAfter(t, i) : m = g[l]
    <2>1. g[0] <= g[i] /\ g[0] \in Int /\ g[i] \in Int
      OBVIOUS
    <2>2. m \in DOMAIN s /\ g[i] < m /\ IsStart(s[m]) /\ m \in Int
      BY DEF StartsAfter
    <2>3. g[0] < m
      BY <2>1, <2>2
    <2>4. PICK l \in DOMAIN t : m = g[l]
      BY <2>2, <2>3
    <2>5. l \in 0 .. Len(t) /\ l \in 1 .. Len(t)
      OBVIOUS
    <2>6. i < l /\ IsStart(t[l])
      BY <2>2, <2>4, <2>5
    <2> QED BY <2>4, <2>6 DEF StartsAfter
  <1>3. ASSUME NEW m \in StartsAfter(t, i), \A e \in StartsAfter(t, i) : m <= e
        PROVE  k + 1 \in DOMAIN sh /\ sh[k + 1].job = t[m].job /\ sh[k + 1].start = t[m].at
    <2>1. \A e \in StartsAfter(t, i) : e \in 0 .. Len(t)
      BY DEF StartsAfter
    <2>2. \A e \in StartsAfter(s, g[i]) : g[m] <= e
      BY <1>2, <1>3, <2>1
    <2> QED BY <1>1, <2>2 DEF Follows
  <1>4. StartsAfter(t, i) = {} => k = Len(sh)
    BY <1>2 DEF Follows
  <1> QED BY <1>3, <1>4 DEF Follows

(* When no start is lost the rest is lined up as it was.                   *)
LEMMA LinedEmbeds ==
  ASSUME NEW s \in Seq(Messages), NEW t \in Seq(Messages), NEW g, Embeds(g, s, t), g[0] = 0,
         \A m \in DOMAIN s : IsStart(s[m]) => \E k \in DOMAIN t : m = g[k],
         NEW sh, NEW rs, Lined(s, sh, rs)
  PROVE  Lined(t, sh, rs)
  <1>1. /\ DOMAIN t = 1 .. Len(t) /\ Len(t) \in Nat
        /\ \A k \in 1 .. Len(t) : g[k] \in DOMAIN s /\ t[k] = s[g[k]]
    BY Order
  <1>2. ASSUME NEW i \in DOMAIN t, IsStart(t[i]), NEW k \in DOMAIN sh, sh[k].start = t[i].at
        PROVE  Follows(t, sh, i, k)
    <2>1. Follows(s, sh, g[i], k)
      BY <1>1, <1>2 DEF Lined
    <2>2. i \in 0 .. Len(t)
      BY <1>1
    <2> QED BY <2>1, <2>2, FollowsEmbeds
  <1>3. Follows(t, sh, 0, Len(rs))
    <2>1. Follows(s, sh, g[0], Len(rs))
      BY DEF Lined
    <2>2. 0 \in 0 .. Len(t)
      BY <1>1
    <2> QED BY <2>1, <2>2, FollowsEmbeds
  <1> QED BY <1>2, <1>3 DEF Lined

(* The starts after a position, when one message more is sent.             *)
LEMMA StartsAppended ==
  ASSUME NEW s \in Seq(Messages), NEW c \in Messages, NEW i \in 0 .. Len(s)
  PROVE  /\ IsStart(c) => StartsAfter(Append(s, c), i) = StartsAfter(s, i) \cup {Len(s) + 1}
         /\ ~IsStart(c) => StartsAfter(Append(s, c), i) = StartsAfter(s, i)
  <1> DEFINE t == Append(s, c)
  <1>1. /\ Len(s) \in Nat /\ DOMAIN s = 1 .. Len(s) /\ DOMAIN t = 1 .. Len(s) + 1
        /\ \A k \in 1 .. Len(s) : t[k] = s[k]
        /\ t[Len(s) + 1] = c
    BY AppendedTo
  <1> HIDE DEF t
  <1>2. \A m \in DOMAIN t : m \in DOMAIN s \/ m = Len(s) + 1
    BY <1>1
  <1>3. Len(s) + 1 \in DOMAIN t /\ i < Len(s) + 1 /\ Len(s) + 1 \notin DOMAIN s
    BY <1>1
  <1>4. \A m \in DOMAIN s : m \in DOMAIN t /\ t[m] = s[m]
    BY <1>1
  <1> QED BY <1>1, <1>2, <1>3, <1>4 DEF StartsAfter, t

(* A sheet of which only the ends differ. *)
SameStarts(sh, sh2) ==
    /\ DOMAIN sh2 = DOMAIN sh /\ Len(sh2) = Len(sh)
    /\ \A k \in DOMAIN sh : sh2[k].job = sh[k].job /\ sh2[k].start = sh[k].start

(* What is sent and is no start, and an interval that is closed, change no *)
(* order.                                                                  *)
LEMMA LinedStill ==
  ASSUME NEW s \in Seq(Messages), NEW c \in Messages, ~IsStart(c),
         NEW sh, NEW sh2, SameStarts(sh, sh2), NEW rs, Lined(s, sh, rs)
  PROVE  Lined(Append(s, c), sh2, rs)
  <1> DEFINE t == Append(s, c)
  <1>1. /\ DOMAIN s = 1 .. Len(s) /\ Len(s) \in Nat /\ DOMAIN t = 1 .. Len(s) + 1
        /\ \A k \in 1 .. Len(s) : t[k] = s[k]
        /\ t[Len(s) + 1] = c
    BY AppendedTo
  <1>2. \A i \in 0 .. Len(s) : StartsAfter(t, i) = StartsAfter(s, i)
    BY StartsAppended
  <1> HIDE DEF t
  <1>3. ASSUME NEW i \in 0 .. Len(s), NEW k, Follows(s, sh, i, k)
        PROVE  Follows(t, sh2, i, k)
    <2>1. StartsAfter(t, i) = StartsAfter(s, i)
      BY <1>2
    <2>2. \A m \in StartsAfter(s, i) : t[m] = s[m]
      BY <1>1 DEF StartsAfter
    <2> QED BY <1>3, <2>1, <2>2 DEF Follows, SameStarts
  <1>4. ASSUME NEW i \in DOMAIN t, IsStart(t[i]), NEW k \in DOMAIN sh2, sh2[k].start = t[i].at
        PROVE  Follows(t, sh2, i, k)
    <2>1. i \in 1 .. Len(s) /\ i \in 0 .. Len(s)
      BY <1>1, <1>4
    <2>2. Follows(s, sh, i, k)
      BY <1>1, <1>4, <2>1 DEF Lined, SameStarts
    <2> QED BY <1>3, <2>1, <2>2
  <1>5. Follows(t, sh2, 0, Len(rs))
    <2>1. 0 \in 0 .. Len(s)
      BY <1>1
    <2> QED BY <1>3, <2>1 DEF Lined
  <1> QED BY <1>4, <1>5 DEF Lined, SameStarts, t

(* A start that is sent, at a time of its own, is the next interval.       *)
LEMMA LinedByStart ==
  ASSUME NEW s \in Seq(Messages), NEW c \in Messages, IsStart(c),
         NEW sh \in Seq(Intervals), NEW new \in Intervals, new.job = c.job, new.start = c.at,
         \A k \in DOMAIN sh : sh[k].start # c.at,
         \A i \in DOMAIN s : IsStart(s[i]) => s[i].at # c.at,
         NEW rs, Len(rs) \in Nat, Lined(s, sh, rs)
  PROVE  Lined(Append(s, c), Append(sh, new), rs)
  <1> DEFINE t == Append(s, c)
             sh2 == Append(sh, new)
             z == Len(sh) + 1
  <1>1. /\ DOMAIN s = 1 .. Len(s) /\ Len(s) \in Nat /\ DOMAIN t = 1 .. Len(s) + 1
        /\ \A k \in 1 .. Len(s) : t[k] = s[k]
        /\ t[Len(s) + 1] = c
    BY AppendedTo
  <1>2. \A i \in 0 .. Len(s) : StartsAfter(t, i) = StartsAfter(s, i) \cup {Len(s) + 1}
    BY StartsAppended
  <1>3. /\ Len(sh) \in Nat /\ DOMAIN sh = 1 .. Len(sh) /\ DOMAIN sh2 = 1 .. Len(sh) + 1
        /\ Len(sh2) = Len(sh) + 1
        /\ \A k \in DOMAIN sh : sh2[k] = sh[k]
        /\ sh2[z] = new
    BY AppendProperties, LenProperties
  <1> HIDE DEF t, sh2
  <1>4. ASSUME NEW i \in 0 .. Len(s), NEW k, Follows(s, sh, i, k)
        PROVE  Follows(t, sh2, i, k)
    <2>1. StartsAfter(t, i) = StartsAfter(s, i) \cup {Len(s) + 1}
      BY <1>2
    <2>2. \A m \in StartsAfter(s, i) : t[m] = s[m] /\ m < Len(s) + 1 /\ m \in Nat
      BY <1>1 DEF StartsAfter
    <2>3. ASSUME NEW m \in StartsAfter(t, i), \A e \in StartsAfter(t, i) : m <= e
          PROVE  k + 1 \in DOMAIN sh2 /\ sh2[k + 1].job = t[m].job /\ sh2[k + 1].start = t[m].at
      <3>1. CASE StartsAfter(s, i) = {}
        <4>1. m = Len(s) + 1 /\ k = Len(sh)
          BY <1>4, <2>1, <3>1 DEF Follows
        <4> QED BY <1>1, <1>3, <4>1
      <3>2. CASE StartsAfter(s, i) # {}
        <4>1. PICK e \in StartsAfter(s, i) : TRUE
          BY <3>2
        <4>2. m \in StartsAfter(s, i)
          BY <2>1, <2>2, <2>3, <4>1
        <4>3. k + 1 \in DOMAIN sh /\ sh[k + 1].job = s[m].job /\ sh[k + 1].start = s[m].at
          BY <1>4, <2>1, <2>3, <4>2 DEF Follows
        <4>4. k + 1 \in DOMAIN sh2 /\ sh2[k + 1] = sh[k + 1]
          BY <1>3, <4>3
        <4> QED BY <2>2, <4>2, <4>3, <4>4
      <3> QED BY <3>1, <3>2
    <2>4. StartsAfter(t, i) # {}
      BY <2>1
    <2> QED BY <2>3, <2>4 DEF Follows
  <1>5. Follows(t, sh2, Len(s) + 1, z)
    BY <1>1, <1>3 DEF Follows, StartsAfter
  <1>6. ASSUME NEW i \in DOMAIN t, IsStart(t[i]), NEW k \in DOMAIN sh2, sh2[k].start = t[i].at
        PROVE  Follows(t, sh2, i, k)
    <2>1. CASE i \in 1 .. Len(s)
      <3>1. t[i] = s[i] /\ t[i].at # c.at /\ i \in 0 .. Len(s)
        BY <1>1, <1>6, <2>1
      <3>2. k # z
        BY <1>3, <1>6, <3>1
      <3>3. k \in DOMAIN sh /\ sh2[k] = sh[k]
        BY <1>3, <3>2
      <3>4. Follows(s, sh, i, k)
        BY <1>1, <1>6, <2>1, <3>1, <3>3 DEF Lined
      <3> QED BY <1>4, <3>1, <3>4
    <2>2. CASE i = Len(s) + 1
      <3>1. k = z
        BY <1>1, <1>3, <1>6, <2>2
      <3> QED BY <1>5, <2>2, <3>1
    <2> QED BY <1>1, <2>1, <2>2
  <1>7. Follows(t, sh2, 0, Len(rs))
    <2>1. 0 \in 0 .. Len(s)
      BY <1>1
    <2> QED BY <1>4, <2>1 DEF Lined
  <1>8. \A k \in DOMAIN rs :
           k \in DOMAIN sh2 /\ rs[k].job = sh2[k].job /\ rs[k].start = sh2[k].start
    BY <1>3 DEF Lined
  <1> QED BY <1>6, <1>7, <1>8 DEF Lined, t, sh2

-----------------------------------------------------------------------------
(* What follows is the same when the head has gone.                        *)
LEMMA FollowsTail ==
  ASSUME NEW s \in Seq(Messages), s # <<>>, NEW i \in 0 .. Len(Tail(s)),
         NEW sh, NEW k, Follows(s, sh, i + 1, k)
  PROVE  Follows(Tail(s), sh, i, k)
  <1> DEFINE t == Tail(s)
             g == [l \in 0 .. Len(t) |-> l + 1]
  <1>1. /\ t \in Seq(Messages) /\ Embeds(g, s, t) /\ DOMAIN t = 1 .. Len(t) /\ Len(t) \in Nat
        /\ \A m \in DOMAIN s : 1 < m => \E l \in DOMAIN t : m = l + 1
    BY TailEmbeds
  <1>2. g[0] = 1 /\ g[i] = i + 1 /\ \A l \in 1 .. Len(t) : g[l] = l + 1
    BY <1>1
  <1> HIDE DEF t, g
  <1>3. \A m \in DOMAIN s : g[0] < m /\ IsStart(s[m]) => \E l \in DOMAIN t : m = g[l]
    BY <1>1, <1>2
  <1>4. Follows(s, sh, g[i], k)
    BY <1>2
  <1> QED BY <1>1, <1>3, <1>4, FollowsEmbeds DEF t

(* rs2 is rs when the first of s has been handled. *)
LEMMA LinedTail ==
  ASSUME NEW s \in Seq(Messages), s # <<>>, NEW sh, NEW rs, Lined(s, sh, rs),
         NEW rs2, Follows(s, sh, 1, Len(rs2)),
         \A k \in DOMAIN rs2 :
            k \in DOMAIN sh /\ rs2[k].job = sh[k].job /\ rs2[k].start = sh[k].start
  PROVE  Lined(Tail(s), sh, rs2)
  <1> DEFINE t == Tail(s)
  <1>1. DOMAIN t = 1 .. Len(t) /\ Len(t) \in Nat
    BY TailEmbeds
  <1>2. Follows(t, sh, 0, Len(rs2))
    <2>1. 0 \in 0 .. Len(t) /\ 0 + 1 = 1
      BY <1>1
    <2>2. Follows(s, sh, 0 + 1, Len(rs2))
      BY <2>1
    <2> QED BY <2>1, <2>2, FollowsTail
  <1>3. ASSUME NEW i \in DOMAIN t, IsStart(t[i]), NEW k \in DOMAIN sh, sh[k].start = t[i].at
        PROVE  Follows(t, sh, i, k)
    <2>1. i \in 1 .. Len(t) /\ i \in 0 .. Len(t)
      BY <1>1
    <2>2. i + 1 \in DOMAIN s /\ t[i] = s[i + 1]
      BY <2>1, HeadTailProperties, LenProperties
    <2>3. Follows(s, sh, i + 1, k)
      BY <1>3, <2>2 DEF Lined
    <2> QED BY <2>1, <2>3, FollowsTail
  <1> QED BY <1>2, <1>3 DEF Lined

(* When nothing was lost the table has every length. *)
Exact(rs, js) ==
    \A k \in DOMAIN rs :
        IF IsOpen(rs[k]) THEN js = IF jobtopic THEN rs[k].start ELSE None
        ELSE rs[k].duration = IF jobtopic THEN rs[k].end - rs[k].start ELSE None

(* A start that is handled makes the next row, and is remembered.          *)
LEMMA StartLined ==
  ASSUME NEW s \in Seq(Messages), s # <<>>, s[1] \in Reports, IsStart(s[1]), StoreStart(s[1]),
         rows \in Seq(Rows), NEW sh, NEW js, NEW js2,
         Matched(s, sh, rows), Lined(s, sh, rows), Exact(rows, js),
         js2 = IF jobtopic THEN s[1].at ELSE None
  PROVE  Lined(Tail(s), sh, rows') /\ Exact(rows', js2)
  <1> DEFINE new == [job |-> s[1].job, start |-> s[1].at, end |-> None, duration |-> None]
             z   == Len(rows) + 1
  <1>1. new \in Rows /\ IsOpen(new)
    BY OpenStart
  <1>2. rows' = Append(rows, new)
    BY DEF StoreStart
  <1>3. new.job = s[1].job /\ new.start = s[1].at
    OBVIOUS
  <1> HIDE DEF new
  <1>4. /\ Len(rows) \in Nat /\ DOMAIN rows = 1 .. Len(rows)
        /\ rows' \in Seq(Rows) /\ Len(rows') = Len(rows) + 1
        /\ \A k \in 1 .. Len(rows) : rows'[k] = rows[k]
        /\ rows'[Len(rows) + 1] = new
    BY <1>1, <1>2, AppendProperties, LenProperties
  <1>5. DOMAIN rows' = 1 .. Len(rows) + 1
    BY <1>4, LenProperties
  <1>6. \A k \in DOMAIN rows' : \/ k \in DOMAIN rows /\ rows'[k] = rows[k] /\ ~IsOpen(rows'[k])
                                \/ k = z /\ rows'[k] = new
    BY <1>4, <1>5, NoneOpen
  <1>7. z \in DOMAIN sh /\ sh[z].job = s[1].job /\ sh[z].start = s[1].at
    <2>1. 1 \in StartsAfter(s, 0) /\ \A e \in StartsAfter(s, 0) : 1 <= e
      BY TailEmbeds, LenProperties DEF StartsAfter
    <2> QED BY <2>1 DEF Lined, Follows
  <1>8. Follows(s, sh, 1, Len(rows'))
    <2>1. 1 \in DOMAIN s
      BY TailEmbeds
    <2>2. Follows(s, sh, 1, z)
      BY <1>7, <2>1 DEF Lined
    <2> QED BY <1>4, <2>2
  <1> HIDE DEF z
  <1>9. \A k \in DOMAIN rows' :
           k \in DOMAIN sh /\ rows'[k].job = sh[k].job /\ rows'[k].start = sh[k].start
    BY <1>3, <1>6, <1>7 DEF Lined
  <1>10. Lined(Tail(s), sh, rows')
    BY <1>8, <1>9, LinedTail
  <1>11. ASSUME NEW k \in DOMAIN rows'
         PROVE  IF IsOpen(rows'[k]) THEN js2 = IF jobtopic THEN rows'[k].start ELSE None
                ELSE rows'[k].duration = IF jobtopic THEN rows'[k].end - rows'[k].start ELSE None
    <2>1. CASE k \in DOMAIN rows /\ rows'[k] = rows[k] /\ ~IsOpen(rows'[k])
      BY <2>1 DEF Exact
    <2>2. CASE k = z /\ rows'[k] = new
      BY <1>1, <1>3, <2>2
    <2> QED BY <1>6, <2>1, <2>2
  <1> QED BY <1>10, <1>11 DEF Exact

(* An end that is handled gives its row the length; there is no new row.   *)
LEMMA EndLined ==
  ASSUME NEW s \in Seq(Messages), s # <<>>, s[1] \in Reports, IsEnd(s[1]), StoreEnd(s[1]),
         rows \in Seq(Rows), jobstart \in Times \cup {None},
         NEW sh, Lined(s, sh, rows), Exact(rows, jobstart)
  PROVE  Lined(Tail(s), sh, rows') /\ Exact(rows', jobstart)
  <1>1. Follows(s, sh, 1, Len(rows))
    <2>1. StartsAfter(s, 0) = StartsAfter(s, 1)
      <3>1. \A m \in StartsAfter(s, 0) : m > 1
        BY LenProperties DEF StartsAfter, IsStart, IsEnd
      <3>2. \A m \in StartsAfter(s, 1) : m > 0
        BY LenProperties DEF StartsAfter
      <3> QED BY <3>1, <3>2 DEF StartsAfter
    <2> QED BY <2>1 DEF Lined, Follows
  <1>2. CASE UNCHANGED rows
    <2>1. Lined(Tail(s), sh, rows)
      <3>1. \A k \in DOMAIN rows :
               k \in DOMAIN sh /\ rows[k].job = sh[k].job /\ rows[k].start = sh[k].start
        BY DEF Lined
      <3> QED BY <1>1, <3>1, LinedTail
    <2> QED BY <1>2, <2>1 DEF Exact
  <1>3. ASSUME NEW k \in DOMAIN rows, IsOpen(rows[k]),
               rows' = [rows EXCEPT ![k] = [job |-> rows[k].job, start |-> rows[k].start,
                                            end |-> s[1].at, duration |-> Duration(s[1].at)]]
        PROVE  Lined(Tail(s), sh, rows') /\ Exact(rows', jobstart)
    <2> DEFINE new == [job |-> rows[k].job, start |-> rows[k].start,
                       end |-> s[1].at, duration |-> Duration(s[1].at)]
    <2>1. /\ DOMAIN rows' = DOMAIN rows /\ rows'[k] = new
          /\ \A n \in DOMAIN rows : n # k => rows'[n] = rows[n]
      BY <1>3
    <2>2. s[1].at \in Times /\ s[1].at # None
      BY JobsAssumption DEF Reports, Times
    <2>3. Len(rows') = Len(rows)
      BY <1>3, ExceptSeq, LenProperties
    <2>4. ~IsOpen(new) /\ new.job = rows[k].job /\ new.start = rows[k].start
      BY <2>2 DEF IsOpen
    <2>5. new.duration = IF jobtopic THEN new.end - new.start ELSE None
      <3>1. jobstart = IF jobtopic THEN rows[k].start ELSE None
        BY <1>3 DEF Exact
      <3>2. rows[k] \in Rows
        BY ElementOfSeq, LenProperties
      <3>3. rows[k].start # None
        BY <3>2, JobsAssumption DEF Rows, Times
      <3> QED BY <3>1, <3>3, JobsAssumption DEF Duration
    <2> HIDE DEF new
    <2>6. \A n \in DOMAIN rows' :
             n \in DOMAIN sh /\ rows'[n].job = sh[n].job /\ rows'[n].start = sh[n].start
      BY <2>1, <2>4 DEF Lined
    <2>7. Lined(Tail(s), sh, rows')
      BY <1>1, <2>3, <2>6, LinedTail
    <2>8. ASSUME NEW n \in DOMAIN rows'
          PROVE  IF IsOpen(rows'[n]) THEN jobstart = IF jobtopic THEN rows'[n].start ELSE None
                 ELSE rows'[n].duration = IF jobtopic THEN rows'[n].end - rows'[n].start ELSE None
      <3>1. CASE n = k
        BY <2>1, <2>4, <2>5, <3>1
      <3>2. CASE n # k
        BY <2>1, <3>2 DEF Exact
      <3> QED BY <3>1, <3>2
    <2> QED BY <2>7, <2>8 DEF Exact
  <1> QED BY <1>2, <1>3 DEF StoreEnd

-----------------------------------------------------------------------------
(* How many rows can be open.                                              *)
(* N[k] bounds the number of open rows when the first k of what is under   *)
(* way have been handled: it rises with a start, and falls by one at most, *)
(* at an end.                                                              *)
Rising(N, s, top) ==
    /\ N \in [0 .. Len(s) -> 0 .. top]
    /\ \A k \in 1 .. Len(s) :
          /\ IsStart(s[k]) => N[k - 1] + 1 <= N[k]
          /\ IsEnd(s[k]) => N[k - 1] <= N[k] + 1
          /\ ~IsEnd(s[k]) => N[k - 1] <= N[k]

(* Such a bound exists: it covers the table now, and left when all is      *)
(* handled.                                                                *)
Bounded(s, rs, top, left) ==
    \E N : Rising(N, s, top) /\ Count(rs, IsOpen) <= N[0] /\ N[Len(s)] <= left

(* The open rows of a table are finitely many.                             *)
LEMMA OpenFinite ==
  ASSUME NEW rs \in Seq(Rows)
  PROVE  /\ IsFiniteSet({k \in DOMAIN rs : IsOpen(rs[k])})
         /\ Count(rs, IsOpen) = Cardinality({k \in DOMAIN rs : IsOpen(rs[k])})
         /\ Count(rs, IsOpen) \in Nat
  <1>1. IsFiniteSet(DOMAIN rs)
    BY LenProperties, FS_Interval
  <1>2. IsFiniteSet({k \in DOMAIN rs : IsOpen(rs[k])})
    BY <1>1, FS_Subset
  <1>3. Count(rs, IsOpen) = Cardinality({k \in DOMAIN rs : IsOpen(rs[k])})
    BY DEF Count
  <1> QED BY <1>2, <1>3, FS_CardinalityType

(* Between two positions the bound falls by the number of ends at most. By *)
(* the least position at which it would fall deeper.                       *)
LEMMA Fall ==
  ASSUME NEW s \in Seq(Messages), NEW top \in Nat, NEW N, Rising(N, s, top),
         NEW a \in 0 .. Len(s), NEW b \in a .. Len(s)
  PROVE  N[a] <= N[b] + EndsIn(s, a, b)
  <1> DEFINE Bad == {l \in Nat : a <= l /\ l <= Len(s) /\ ~(N[a] <= N[l] + EndsIn(s, a, l))}
  <1>0. Len(s) \in Nat /\ a \in Nat /\ b \in Nat /\ a <= b /\ b <= Len(s)
    BY LenProperties
  <1>1. \A l \in 0 .. Len(s) : N[l] \in Nat
    <2>1. N \in [0 .. Len(s) -> 0 .. top]
      BY DEF Rising
    <2> QED BY <2>1, SMTT(30)
  <1> SUFFICES ASSUME ~(N[a] <= N[b] + EndsIn(s, a, b)) PROVE FALSE
    OBVIOUS
  <1>z. b \in Bad
    BY <1>0
  <1>2. PICK n \in Bad : \A m \in Bad : n <= m
    <2>1. Bad \subseteq Nat
      OBVIOUS
    <2> HIDE DEF Bad
    <2> QED BY <1>z, <2>1, LeastNat
  <1>3. n \in Nat /\ a <= n /\ n <= Len(s) /\ ~(N[a] <= N[n] + EndsIn(s, a, n))
    BY <1>2
  <1>4. n # a
    <2>1. EndsIn(s, a, a) \in Nat
      BY <1>0, EndsFinite
    <2>2. N[a] \in Nat
      BY <1>1
    <2> QED BY <1>3, <2>1, <2>2
  <1>5. n - 1 \in Nat /\ a <= n - 1 /\ n - 1 <= Len(s) /\ n - 1 < n
    BY <1>0, <1>3, <1>4
  <1>6. n - 1 \notin Bad
    BY <1>2, <1>3, <1>5
  <1>7. N[a] <= N[n - 1] + EndsIn(s, a, n - 1)
    BY <1>5, <1>6
  <1>8. EndsIn(s, a, n) = EndsIn(s, a, n - 1) + IF IsEnd(s[n]) THEN 1 ELSE 0
    <2>1. (n - 1) + 1 = n
      BY <1>3
    <2>2. EndsIn(s, a, (n - 1) + 1) = EndsIn(s, a, n - 1) + IF IsEnd(s[(n - 1) + 1]) THEN 1 ELSE 0
      BY <1>0, <1>5, EndsGrow
    <2> QED BY <2>1, <2>2
  <1>9. EndsIn(s, a, n - 1) \in Nat /\ N[a] \in Nat /\ N[n - 1] \in Nat /\ N[n] \in Nat
    <2>1. EndsIn(s, a, n - 1) \in Nat
      BY <1>0, <1>5, EndsFinite
    <2>2. a \in 0 .. Len(s) /\ n - 1 \in 0 .. Len(s) /\ n \in 0 .. Len(s)
      BY <1>0, <1>3, <1>5
    <2> QED BY <1>1, <2>1, <2>2
  <1>10. n \in 1 .. Len(s)
    BY <1>0, <1>3, <1>5
  <1>11. N[n - 1] <= N[n] + IF IsEnd(s[n]) THEN 1 ELSE 0
    BY <1>9, <1>10 DEF Rising
  <1> HIDE DEF Bad
  <1>12. CASE IsEnd(s[n])
    BY <1>3, <1>7, <1>8, <1>9, <1>11, <1>12, SMTT(30)
  <1>13. CASE ~IsEnd(s[n])
    BY <1>3, <1>7, <1>8, <1>9, <1>11, <1>13, SMTT(30)
  <1> QED BY <1>12, <1>13

(* Ends that are lost are excuses. *)
LEMMA BoundedCut ==
  ASSUME NEW s \in Seq(Messages), NEW t \in Seq(Messages), NEW a \in Nat, NEW b \in Nat,
         Cut(s, t, a, b), NEW c \in Nat, c = EndsIn(s, a, b),
         NEW top \in Nat, NEW left \in Nat, NEW rs \in Seq(Rows), Bounded(s, rs, top, left)
  PROVE  Bounded(t, rs, top + c, left + c)
  <1>1. PICK N : Rising(N, s, top) /\ Count(rs, IsOpen) <= N[0] /\ N[Len(s)] <= left
    BY DEF Bounded
  <1> DEFINE M == [k \in 0 .. Len(t) |-> IF k <= a THEN N[k] ELSE N[k + (b - a)] + c]
  <1>2. /\ Len(s) \in Nat /\ Len(t) \in Nat /\ a <= b /\ b <= Len(s)
        /\ Len(t) = Len(s) - (b - a) /\ a <= Len(t)
        /\ \A k \in 1 .. Len(t) : t[k] = s[IF k <= a THEN k ELSE k + (b - a)]
    BY LenProperties DEF Cut
  <1>a. N \in [0 .. Len(s) -> 0 .. top]
    BY <1>1 DEF Rising
  <1>3. \A l \in 0 .. Len(s) : N[l] \in Nat /\ N[l] <= top
    <2> TAKE l \in 0 .. Len(s)
    <2>1. N[l] \in 0 .. top
      BY <1>a
    <2> QED BY <2>1
  <1>4. N[a] <= N[b] + c
    <2>1. a \in 0 .. Len(s) /\ b \in a .. Len(s)
      BY <1>2
    <2> QED BY <1>1, <2>1, Fall
  <1>5. ASSUME NEW k \in 0 .. Len(t) PROVE M[k] \in 0 .. top + c
    <2>1. CASE k <= a
      <3>1. k \in 0 .. Len(s) /\ M[k] = N[k]
        BY <1>2, <2>1
      <3>2. N[k] \in Nat /\ N[k] <= top
        BY <1>3, <3>1
      <3> QED BY <3>1, <3>2
    <2>2. CASE ~(k <= a)
      <3>1. k + (b - a) \in 0 .. Len(s) /\ M[k] = N[k + (b - a)] + c
        BY <1>2, <2>2
      <3>2. N[k + (b - a)] \in Nat /\ N[k + (b - a)] <= top
        BY <1>3, <3>1
      <3> QED BY <3>1, <3>2, SMTT(30)
    <2> QED BY <2>1, <2>2
  <1>6. ASSUME NEW k \in 1 .. Len(t)
        PROVE  /\ IsStart(t[k]) => M[k - 1] + 1 <= M[k]
               /\ IsEnd(t[k]) => M[k - 1] <= M[k] + 1
               /\ ~IsEnd(t[k]) => M[k - 1] <= M[k]
    <2>0. k \in Nat /\ k - 1 \in 0 .. Len(t) /\ k \in 0 .. Len(t)
      BY <1>2
    <2>1. CASE k <= a
      <3>1. M[k] = N[k] /\ M[k - 1] = N[k - 1] /\ t[k] = s[k] /\ k \in 1 .. Len(s)
        BY <1>2, <2>0, <2>1, SMTT(30)
      <3> QED BY <1>1, <3>1 DEF Rising
    <2>2. CASE ~(k <= a)
      <3> DEFINE l == k + (b - a)
      <3>a. l \in 1 .. Len(s) /\ l \in 0 .. Len(s) /\ l - 1 \in 0 .. Len(s)
        BY <1>2, <2>0, <2>2, SMTT(30)
      <3>b. M[k] = N[l] + c
        BY <2>0, <2>2
      <3>c. t[k] = s[l]
        BY <1>2, <2>2
      <3>1. M[k] = N[l] + c /\ t[k] = s[l] /\ l \in 1 .. Len(s) /\ l \in 0 .. Len(s)
            /\ l - 1 \in 0 .. Len(s)
        BY <3>a, <3>b, <3>c
      <3>2. M[k - 1] <= N[l - 1] + c
        <4>1. CASE k - 1 <= a
          <5>1. k - 1 = a /\ l - 1 = b
            BY <1>2, <2>0, <2>2, <4>1, SMTT(30)
          <5>2. M[k - 1] = N[a]
            BY <2>0, <5>1
          <5> QED BY <1>4, <5>1, <5>2
        <4>2. CASE ~(k - 1 <= a)
          <5>1. (k - 1) + (b - a) = l - 1
            BY <1>2, <2>0, SMTT(30)
          <5>2. M[k - 1] = N[l - 1] + c
            BY <2>0, <4>2, <5>1
          <5>3. N[l - 1] \in Nat
            BY <1>3, <3>1
          <5> QED BY <5>2, <5>3
        <4> QED BY <4>1, <4>2
      <3>d. M[k - 1] \in 0 .. top + c
        BY <1>5, <2>0
      <3>3. N[l] \in Nat /\ N[l - 1] \in Nat /\ M[k - 1] \in Nat
        <4>1. N[l] \in Nat /\ N[l - 1] \in Nat
          BY <1>3, <3>1
        <4> QED BY <3>d, <4>1
      <3>4. /\ IsStart(s[l]) => N[l - 1] + 1 <= N[l]
            /\ IsEnd(s[l]) => N[l - 1] <= N[l] + 1
            /\ ~IsEnd(s[l]) => N[l - 1] <= N[l]
        BY <1>1, <3>1 DEF Rising
      <3> HIDE DEF M, l
      <3>5. t[k] = s[l] /\ M[k] = N[l] + c
        BY <3>1
      <3>6. M[k] \in Nat
        BY <3>3, <3>5, SMTT(30)
      <3>7. /\ N[l - 1] + 1 <= N[l] => M[k - 1] + 1 <= M[k]
            /\ N[l - 1] <= N[l] + 1 => M[k - 1] <= M[k] + 1
            /\ N[l - 1] <= N[l] => M[k - 1] <= M[k]
        <4> DEFINE p == M[k - 1]
                   q == N[l - 1]
                   u == N[l]
                   v == M[k]
        <4>1. p \in Nat
          BY <3>3
        <4>2. q \in Nat
          BY <3>3
        <4>3. u \in Nat
          BY <3>3
        <4>4. v \in Nat
          BY <3>6
        <4>5. p <= q + c
          BY <3>2
        <4>6. v = u + c
          BY <3>5
        <4> HIDE DEF p, q, u, v
        <4>7. /\ q + 1 <= u => p + 1 <= v
              /\ q <= u + 1 => p <= v + 1
              /\ q <= u => p <= v
          BY ONLY <4>1, <4>2, <4>3, <4>4, <4>5, <4>6, c \in Nat
        <4> QED BY <4>7 DEF p, q, u, v
      <3> QED BY <3>4, <3>5, <3>7
    <2> QED BY <2>1, <2>2
  <1>7. M \in [0 .. Len(t) -> 0 .. top + c]
    BY <1>5
  <1>8. M[0] = N[0]
    BY <1>2
  <1>9. M[Len(t)] <= left + c
    <2>1. CASE Len(t) <= a
      <3> HIDE DEF M
      <3>a. Len(t) \in Nat /\ a <= Len(t)
        BY <1>2
      <3>b. Len(t) = a
        BY <2>1, <3>a
      <3>c. b = Len(s)
        BY <1>2, <3>b
      <3>1. Len(t) = a /\ b = Len(s)
        BY <3>b, <3>c
      <3> USE DEF M
      <3>2. M[Len(t)] = N[a] /\ N[b] \in Nat /\ N[a] \in Nat
        BY <1>2, <1>3, <3>1
      <3> QED BY <1>1, <1>4, <3>1, <3>2
    <2>2. CASE ~(Len(t) <= a)
      <3>1. M[Len(t)] = N[Len(s)] + c /\ N[Len(s)] \in Nat
        BY <1>2, <1>3, <2>2
      <3> QED BY <1>1, <3>1
    <2> QED BY <2>1, <2>2
  <1> HIDE DEF M
  <1> QED BY <1>1, <1>6, <1>7, <1>8, <1>9 DEF Rising, Bounded

-----------------------------------------------------------------------------
(* A bound is carried on by one message.                                   *)
LEMMA RisingOn ==
  ASSUME NEW s \in Seq(Messages), NEW c \in Messages, NEW top \in Nat, NEW N, Rising(N, s, top),
         NEW w \in 0 .. top,
         IsStart(c) => N[Len(s)] + 1 <= w,
         IsEnd(c) => N[Len(s)] <= w + 1,
         ~IsEnd(c) => N[Len(s)] <= w,
         NEW M, M = [k \in 0 .. Len(s) + 1 |-> IF k <= Len(s) THEN N[k] ELSE w]
  PROVE  /\ Rising(M, Append(s, c), top)
         /\ M[0] = N[0] /\ M[Len(Append(s, c))] = w
  <1> DEFINE t == Append(s, c)
  <1>1. /\ Len(s) \in Nat /\ Len(t) = Len(s) + 1
        /\ \A k \in 1 .. Len(s) : t[k] = s[k]
        /\ t[Len(s) + 1] = c
    BY AppendedTo
  <1> HIDE DEF t
  <1>2. \A k \in 0 .. Len(s) : M[k] = N[k]
    BY <1>1
  <1>3. M[Len(s) + 1] = w
    BY <1>1
  <1>4. N \in [0 .. Len(s) -> 0 .. top]
    BY DEF Rising
  <1>5. M \in [0 .. Len(s) + 1 -> 0 .. top]
    BY <1>1, <1>4
  <1>6. ASSUME NEW k \in 1 .. Len(t)
        PROVE  /\ IsStart(t[k]) => M[k - 1] + 1 <= M[k]
               /\ IsEnd(t[k]) => M[k - 1] <= M[k] + 1
               /\ ~IsEnd(t[k]) => M[k - 1] <= M[k]
    <2>1. CASE k \in 1 .. Len(s)
      <3>1. M[k] = N[k] /\ M[k - 1] = N[k - 1] /\ t[k] = s[k]
        BY <1>1, <1>2, <2>1
      <3> QED BY <2>1, <3>1 DEF Rising
    <2>2. CASE ~(k \in 1 .. Len(s))
      <3>1. k = Len(s) + 1 /\ k - 1 = Len(s) /\ Len(s) \in 0 .. Len(s)
        BY <1>1, <2>2
      <3>2. M[k] = w /\ M[k - 1] = N[Len(s)] /\ t[k] = c
        BY <1>1, <1>2, <1>3, <3>1
      <3> QED BY <3>2
    <2> QED BY <2>1, <2>2
  <1>7. M[0] = N[0]
    <2>1. 0 \in 0 .. Len(s)
      BY <1>1
    <2> QED BY <1>2, <2>1
  <1>8. Rising(M, t, top)
    BY <1>1, <1>5, <1>6 DEF Rising
  <1> QED BY <1>1, <1>3, <1>7, <1>8 DEF t

(* More may always be allowed.                                             *)
LEMMA BoundedRaised ==
  ASSUME NEW s \in Seq(Messages), NEW rs, NEW top \in Nat, NEW left \in Nat,
         Bounded(s, rs, top, left), NEW top2 \in Nat, top <= top2, NEW left2 \in Nat, left <= left2
  PROVE  Bounded(s, rs, top2, left2)
  <1>1. PICK N : Rising(N, s, top) /\ Count(rs, IsOpen) <= N[0] /\ N[Len(s)] <= left
    BY DEF Bounded
  <1>2. Len(s) \in Nat /\ Len(s) \in 0 .. Len(s)
    BY LenProperties
  <1>3. N \in [0 .. Len(s) -> 0 .. top2]
    BY <1>1 DEF Rising
  <1>4. Rising(N, s, top2)
    BY <1>1, <1>3 DEF Rising
  <1>5. N[Len(s)] <= left2
    <2>1. N[Len(s)] \in Nat
      BY <1>2, <1>3
    <2> QED BY <1>1, <2>1
  <1> QED BY <1>1, <1>4, <1>5 DEF Bounded

(* A message is sent: a start needs room for a row, an end leaves less.    *)
LEMMA BoundedAppend ==
  ASSUME NEW s \in Seq(Messages), NEW c \in Messages, NEW rs,
         NEW top \in Nat, NEW left \in Nat, NEW left2 \in Nat, Bounded(s, rs, top, left),
         IsStart(c) => left + 1 <= left2 /\ left + 1 <= top,
         IsEnd(c) => left <= left2 + 1,
         ~IsEnd(c) => left <= left2
  PROVE  Bounded(Append(s, c), rs, top, left2)
  <1>1. PICK N : Rising(N, s, top) /\ Count(rs, IsOpen) <= N[0] /\ N[Len(s)] <= left
    BY DEF Bounded
  <1> DEFINE n == N[Len(s)]
  <1>2. Len(s) \in Nat /\ Len(s) \in 0 .. Len(s)
    BY LenProperties
  <1>3. n \in 0 .. top
    BY <1>1, <1>2 DEF Rising
  <1>4. n <= left
    BY <1>1
  <1> HIDE DEF n
  <1>a. n \in Nat /\ n <= top
    BY <1>3
  <1>5. PICK w \in 0 .. top :
           /\ w <= left2
           /\ IsStart(c) => n + 1 <= w
           /\ IsEnd(c) => n <= w + 1
           /\ ~IsEnd(c) => n <= w
    <2>1. CASE IsStart(c)
      <3>1. ~IsEnd(c)
        BY <2>1 DEF IsStart, IsEnd
      <3>2. left + 1 <= left2 /\ left + 1 <= top
        BY <2>1
      <3>3. n + 1 \in 0 .. top /\ n + 1 <= left2 /\ n <= n + 1 /\ n + 1 <= n + 1
        BY <1>4, <1>a, <3>2
      <3> QED BY <3>1, <3>3
    <2>2. CASE IsEnd(c)
      <3>1. ~IsStart(c)
        BY <2>2 DEF IsStart, IsEnd
      <3>2. left <= left2 + 1
        BY <2>2
      <3>3. CASE n = 0
        <4>1. 0 \in 0 .. top /\ 0 <= left2 /\ n <= 0 + 1
          BY <3>3
        <4> QED BY <2>2, <3>1, <4>1
      <3>4. CASE n # 0
        <4>1. n - 1 \in 0 .. top /\ n - 1 <= left2 /\ n <= (n - 1) + 1
          BY <1>4, <1>a, <3>2, <3>4
        <4> QED BY <2>2, <3>1, <4>1
      <3> QED BY <3>3, <3>4
    <2>3. CASE ~IsStart(c) /\ ~IsEnd(c)
      <3>1. left <= left2
        BY <2>3
      <3>2. n \in 0 .. top /\ n <= left2 /\ n <= n
        BY <1>4, <1>a, <3>1
      <3> QED BY <2>3, <3>2
    <2> QED BY <2>1, <2>2, <2>3
  <1> DEFINE M == [k \in 0 .. Len(s) + 1 |-> IF k <= Len(s) THEN N[k] ELSE w]
  <1>6. Rising(M, Append(s, c), top) /\ M[0] = N[0] /\ M[Len(Append(s, c))] = w
    BY <1>1, <1>5, RisingOn, SMTT(30) DEF n
  <1> HIDE DEF M
  <1> QED BY <1>1, <1>5, <1>6 DEF Bounded

(* A message is handled: the bound for the rest starts where it stands     *)
(* after it.                                                               *)
LEMMA BoundedTail ==
  ASSUME NEW s \in Seq(Messages), s # <<>>, NEW top \in Nat, NEW left \in Nat,
         NEW rs, Count(rs, IsOpen) \in Nat, Bounded(s, rs, top, left),
         NEW rs2, Count(rs2, IsOpen) \in Nat,
         \/ IsStart(s[1]) /\ Count(rs2, IsOpen) <= Count(rs, IsOpen) + 1
         \/ IsEnd(s[1]) /\ (Count(rs2, IsOpen) = 0 \/ Count(rs2, IsOpen) + 1 <= Count(rs, IsOpen))
  PROVE  Bounded(Tail(s), rs2, top, left)
  <1>1. PICK N : Rising(N, s, top) /\ Count(rs, IsOpen) <= N[0] /\ N[Len(s)] <= left
    BY DEF Bounded
  <1> DEFINE t == Tail(s)
             M == [k \in 0 .. Len(t) |-> N[k + 1]]
             o == Count(rs, IsOpen)
             p == Count(rs2, IsOpen)
  <1>2. /\ t \in Seq(Messages) /\ Len(s) \in Nat /\ Len(t) \in Nat /\ Len(t) = Len(s) - 1
        /\ \A k \in 1 .. Len(t) : t[k] = s[k + 1]
    BY HeadTailProperties, LenProperties, EmptySeq
  <1>3. N \in [0 .. Len(s) -> 0 .. top]
    BY <1>1 DEF Rising
  <1> HIDE DEF t
  <1>4. M \in [0 .. Len(t) -> 0 .. top]
    BY <1>2, <1>3
  <1>5. ASSUME NEW k \in 1 .. Len(t)
        PROVE  /\ IsStart(t[k]) => M[k - 1] + 1 <= M[k]
               /\ IsEnd(t[k]) => M[k - 1] <= M[k] + 1
               /\ ~IsEnd(t[k]) => M[k - 1] <= M[k]
    <2>1. /\ k + 1 \in 1 .. Len(s) /\ (k + 1) - 1 = k /\ (k - 1) + 1 = k
          /\ k \in 0 .. Len(t) /\ k - 1 \in 0 .. Len(t)
      BY <1>2
    <2>2. M[k] = N[k + 1] /\ M[k - 1] = N[k] /\ t[k] = s[k + 1]
      BY <1>2, <2>1
    <2> QED BY <1>1, <2>1, <2>2 DEF Rising
  <1>6. Rising(M, t, top)
    BY <1>4, <1>5 DEF Rising
  <1>7. M[0] = N[1] /\ M[Len(t)] = N[Len(s)]
    <2>1. 0 \in 0 .. Len(t) /\ Len(t) \in 0 .. Len(t) /\ 0 + 1 = 1 /\ Len(t) + 1 = Len(s)
      BY <1>2
    <2> QED BY <2>1
  <1> HIDE DEF M
  <1>8. /\ 1 \in 1 .. Len(s) /\ 1 - 1 = 0
        /\ IsStart(s[1]) => N[0] + 1 <= N[1]
        /\ IsEnd(s[1]) => N[0] <= N[1] + 1
    <2>1. 1 \in 1 .. Len(s) /\ 1 - 1 = 0
      BY <1>2
    <2> QED BY <1>1, <2>1 DEF Rising
  <1>9. N[0] \in Nat /\ N[1] \in Nat
    <2>1. 0 \in 0 .. Len(s) /\ 1 \in 0 .. Len(s)
      BY <1>2
    <2> QED BY <1>3, <2>1
  <1>10. o \in Nat /\ p \in Nat /\ o <= N[0]
    BY <1>1
  <1>11. \/ IsStart(s[1]) /\ p <= o + 1
         \/ IsEnd(s[1]) /\ (p = 0 \/ p + 1 <= o)
    OBVIOUS
  <1> HIDE DEF o, p
  <1>12. p <= N[1]
    <2>1. CASE IsStart(s[1]) /\ p <= o + 1
      <3>1. p <= o + 1 /\ N[0] + 1 <= N[1]
        BY <1>8, <2>1
      <3> QED BY <1>9, <1>10, <3>1
    <2>2. CASE IsEnd(s[1]) /\ p = 0
      BY <1>9, <2>2
    <2>3. CASE IsEnd(s[1]) /\ p + 1 <= o
      <3>1. p + 1 <= o /\ N[0] <= N[1] + 1
        BY <1>8, <2>3
      <3> QED BY <1>9, <1>10, <3>1
    <2> QED BY <1>11, <2>1, <2>2, <2>3
  <1> QED BY <1>1, <1>6, <1>7, <1>12 DEF Bounded, t, p

(* A row that is added is one open row more at most.                       *)
LEMMA OpenAppended ==
  ASSUME NEW rs \in Seq(Rows), NEW r \in Rows
  PROVE  /\ Append(rs, r) \in Seq(Rows)
         /\ Count(Append(rs, r), IsOpen) \in Nat
         /\ Count(Append(rs, r), IsOpen) <= Count(rs, IsOpen) + 1
  <1> DEFINE t == Append(rs, r)
             S == {k \in DOMAIN rs : IsOpen(rs[k])}
             T == {k \in DOMAIN t : IsOpen(t[k])}
  <1>1. /\ t \in Seq(Rows) /\ Len(rs) \in Nat /\ DOMAIN rs = 1 .. Len(rs)
        /\ DOMAIN t = 1 .. Len(rs) + 1
        /\ \A k \in 1 .. Len(rs) : t[k] = rs[k]
    BY AppendProperties, LenProperties
  <1>2. IsFiniteSet(S) /\ Count(rs, IsOpen) = Cardinality(S) /\ Cardinality(S) \in Nat
    BY OpenFinite
  <1>3. IsFiniteSet(T) /\ Count(t, IsOpen) = Cardinality(T) /\ Count(t, IsOpen) \in Nat
    BY <1>1, OpenFinite
  <1> HIDE DEF t
  <1>4. T \subseteq S \cup {Len(rs) + 1}
    BY <1>1
  <1> HIDE DEF S, T
  <1>5. /\ IsFiniteSet(S \cup {Len(rs) + 1})
        /\ Cardinality(S \cup {Len(rs) + 1}) <= Cardinality(S) + 1
    <2>1. /\ IsFiniteSet(S \cup {Len(rs) + 1})
          /\ Cardinality(S \cup {Len(rs) + 1}) =
                IF Len(rs) + 1 \in S THEN Cardinality(S) ELSE Cardinality(S) + 1
      BY <1>2, FS_AddElement
    <2> QED BY <1>2, <2>1
  <1>6. Cardinality(T) <= Cardinality(S \cup {Len(rs) + 1})
    BY <1>4, <1>5, FS_Subset
  <1>7. Cardinality(S \cup {Len(rs) + 1}) \in Nat
    BY <1>5, FS_CardinalityType
  <1> QED BY <1>1, <1>2, <1>3, <1>5, <1>6, <1>7 DEF t

(* A row that is closed is one open row less.                              *)
LEMMA OpenClosed ==
  ASSUME NEW rs \in Seq(Rows), NEW k \in DOMAIN rs, IsOpen(rs[k]),
         NEW r \in Rows, ~IsOpen(r), NEW t, t = [rs EXCEPT ![k] = r]
  PROVE  /\ t \in Seq(Rows) /\ Count(t, IsOpen) \in Nat
         /\ Count(t, IsOpen) + 1 <= Count(rs, IsOpen)
  <1> DEFINE S == {i \in DOMAIN rs : IsOpen(rs[i])}
             T == {i \in DOMAIN t : IsOpen(t[i])}
  <1>1. t \in Seq(Rows)
    BY ExceptSeq
  <1>2. IsFiniteSet(S) /\ Count(rs, IsOpen) = Cardinality(S) /\ Cardinality(S) \in Nat
    BY OpenFinite
  <1>3. IsFiniteSet(T) /\ Count(t, IsOpen) = Cardinality(T) /\ Count(t, IsOpen) \in Nat
    BY <1>1, OpenFinite
  <1>4. T = S \ {k}
    OBVIOUS
  <1>5. k \in S
    OBVIOUS
  <1> HIDE DEF S, T
  <1>6. Cardinality(T) = Cardinality(S) - 1
    BY <1>2, <1>4, <1>5, FS_RemoveElement
  <1> QED BY <1>1, <1>2, <1>3, <1>6

-----------------------------------------------------------------------------
(* What the steps do to what is under way.                                 *)
(* What is under way: o2s reads it from the front, the app adds to its     *)
(* end.                                                                    *)
Wire == down \o up \o queue

(* The types of the history, which TypeOK leaves out.                      *)
HistTyped ==
    /\ excuses \in Nat
    /\ repeated \in BOOLEAN /\ harmed \in BOOLEAN /\ stale \in BOOLEAN

(* Some of what is under way is lost, or read by the broker alone. *)
Thinned ==
    /\ \E x, y, z \in Seq(Messages) :
          /\ Wire = x \o y \o z /\ Wire' = x \o z
          /\ excuses' = excuses + Count(y, IsEnd)
          /\ ~harmed' => ~harmed /\ Count(y, IsReport) = 0
    /\ HistTyped' /\ repeated' = repeated /\ UNCHANGED <<rows, sheet, now>>
    /\ \/ jobstart' = jobstart
       \/ harmed' /\ jobstart' = None
       \/ harmed' /\ jobtopic /\ Wire # <<>> /\ IsStart(Wire[1])
    /\ activity' = None => activity = None

(* What is under way is made of messages.                                  *)
LEMMA WireTyped ==
  ASSUME TypeOK
  PROVE  /\ down \in Seq(Messages) /\ up \in Seq(Messages) /\ queue \in Seq(Messages)
         /\ Wire \in Seq(Messages)
         /\ down \o up \in Seq(Messages) /\ up \o queue \in Seq(Messages)
         /\ Wire = down \o (up \o queue)
         /\ <<>> \in Seq(Messages)
  <1>1. down \in Seq(Reports) /\ up \in Seq(Messages) /\ queue \in Seq(Messages)
    BY DEF TypeOK
  <1>2. down \in Seq(Messages)
    BY <1>1, SeqMonotonic DEF Messages
  <1>3. down \o up \in Seq(Messages) /\ up \o queue \in Seq(Messages)
    BY <1>1, <1>2, ConcatProperties
  <1>4. Wire \in Seq(Messages)
    BY <1>1, <1>3, ConcatProperties DEF Wire
  <1>5. Wire = down \o (up \o queue)
    BY <1>1, <1>2, Joined DEF Wire
  <1>6. <<>> \in Seq(Messages)
    OBVIOUS
  <1> QED BY <1>1, <1>2, <1>3, <1>4, <1>5, <1>6

(* Counts are natural numbers.                                             *)
LEMMA CountsOf ==
  ASSUME NEW y \in Seq(Messages)
  PROVE  Count(y, IsEnd) \in Nat /\ Count(y, IsReport) \in Nat
  <1>1. Len(y) \in Nat /\ 0 \in Nat /\ Part(y, y, 0, Len(y))
    BY LenProperties DEF Part
  <1>2. EndsIn(y, 0, Len(y)) \in Nat
    BY <1>1, EndsFinite
  <1>3. Count(y, IsEnd) = EndsIn(y, 0, Len(y)) /\ Count(y, IsReport) \in Nat
    BY <1>1, EndsOfPart, PartCounts
  <1> QED BY <1>2, <1>3

(* Nothing holds no report.                                                *)
LEMMA NothingCounted ==
  Count(<<>>, IsEnd) = 0 /\ Count(<<>>, IsReport) = 0
  <1>1. {k \in DOMAIN <<>> : IsEnd(<<>>[k])} = {} /\ {k \in DOMAIN <<>> : IsReport(<<>>[k])} = {}
    OBVIOUS
  <1> QED BY <1>1, FS_EmptySet DEF Count

(* The counts of one message.                                              *)
LEMMA OneCounted ==
  ASSUME NEW m \in Messages
  PROVE  /\ <<m>> \in Seq(Messages)
         /\ ~IsReport(m) => Count(<<m>>, IsEnd) = 0 /\ Count(<<m>>, IsReport) = 0
         /\ IsReport(m) => Count(<<m>>, IsReport) = 1
         /\ ~IsEnd(m) => Count(<<m>>, IsEnd) = 0
  <1>1. DOMAIN <<m>> = {1} /\ <<m>>[1] = m /\ <<m>> \in Seq(Messages)
    OBVIOUS
  <1>2. Cardinality({1}) = 1 /\ Cardinality({}) = 0
    BY FS_Singleton, FS_EmptySet
  <1>3. CASE IsReport(m)
    <2>1. {k \in DOMAIN <<m>> : IsReport(<<m>>[k])} = {1}
      BY <1>1, <1>3
    <2>2. ASSUME ~IsEnd(m) PROVE {k \in DOMAIN <<m>> : IsEnd(<<m>>[k])} = {}
      BY <1>1, <2>2
    <2> QED BY <1>1, <1>2, <1>3, <2>1, <2>2 DEF Count
  <1>4. CASE ~IsReport(m)
    <2>1. ~IsEnd(m)
      BY <1>4 DEF IsEnd
    <2>2. /\ {k \in DOMAIN <<m>> : IsReport(<<m>>[k])} = {}
          /\ {k \in DOMAIN <<m>> : IsEnd(<<m>>[k])} = {}
      BY <1>1, <1>4, <2>1
    <2> QED BY <1>1, <1>2, <1>4, <2>2 DEF Count
  <1> QED BY <1>3, <1>4

(* Lose does to the history what Thinned asks.                             *)
LEMMA Losing ==
  ASSUME HistTyped, NEW x \in Seq(Messages), NEW y \in Seq(Messages), NEW z \in Seq(Messages),
         Wire = x \o y \o z, Wire' = x \o z, Lose(y), UNCHANGED <<rows, jobstart, sheet, now>>,
         activity' = None => activity = None
  PROVE  Thinned
  <1>1. Count(y, IsEnd) \in Nat /\ Count(y, IsReport) \in Nat
    BY CountsOf
  <1>2. excuses' = excuses + Count(y, IsEnd) /\ excuses' \in Nat
    BY <1>1 DEF Lose, HistTyped
  <1>3. ~(Count(y, IsReport) > 0) <=> Count(y, IsReport) = 0
    BY <1>1
  <1>4. ~harmed' => ~harmed /\ Count(y, IsReport) = 0
    BY <1>3 DEF Lose
  <1>5. HistTyped' /\ repeated' = repeated
    BY <1>2 DEF Lose, HistTyped
  <1> QED BY <1>2, <1>4, <1>5 DEF Thinned

(* A step that loses nothing thins by nothing.                             *)
LEMMA NothingLost ==
  ASSUME TypeOK, HistTyped, Wire' = Wire, UNCHANGED <<history, rows, jobstart, sheet, now>>,
         activity' = None => activity = None
  PROVE  Thinned
  <1>1. Wire = Wire \o <<>> \o <<>> /\ Wire' = Wire \o <<>> /\ Wire \in Seq(Messages)
        /\ <<>> \in Seq(Messages)
    BY WireTyped, ConcatEmptySeq
  <1>2. excuses' = excuses + Count(<<>>, IsEnd)
    BY NothingCounted DEF history, HistTyped
  <1>3. ~harmed' => ~harmed /\ Count(<<>>, IsReport) = 0
    BY NothingCounted DEF history
  <1>4. HistTyped' /\ repeated' = repeated
    BY DEF history, HistTyped
  <1> QED BY <1>1, <1>2, <1>3, <1>4 DEF Thinned

-----------------------------------------------------------------------------
(* The session.                                                            *)
(* A new session drops what was stored for it.                             *)
LEMMA QueueDropped ==
  ASSUME TypeOK, HistTyped, applicationDidBecomeActive \/ Launch
  PROVE  Thinned
  <1>1. /\ Lose(queue) /\ queue' = <<>> /\ up' = up
        /\ UNCHANGED <<activity, down, rows, jobstart, sheet, now>>
    BY DEF applicationDidBecomeActive, Launch, Connect, o2sVars
  <1>2. Wire = (down \o up) \o queue \o <<>>
    BY WireTyped, ConcatEmptySeq DEF Wire
  <1>3. Wire' = (down \o up) \o <<>>
    BY <1>1 DEF Wire
  <1> QED BY <1>1, <1>2, <1>3, WireTyped, Losing

(* What the network delivered, and the rest.                               *)
LEMMA PrefixAndRest ==
  ASSUME TypeOK, NEW k \in 0 .. Len(up)
  PROVE  /\ SubSeq(up, 1, k) \in Seq(Messages) /\ SubSeq(up, k + 1, Len(up)) \in Seq(Messages)
         /\ up = SubSeq(up, 1, k) \o SubSeq(up, k + 1, Len(up))
  <1>0. up \in Seq(Messages)
    BY WireTyped
  <1>1. Len(up) \in Nat /\ \A i \in 1 .. Len(up) : up[i] \in Messages
    BY <1>0, LenProperties, ElementOfSeq
  <1>2. SubSeq(up, 1, k) \in Seq(Messages)
    <2>1. \A i \in 1 .. k : up[i] \in Messages
      BY <1>1
    <2>2. 1 \in Int /\ k \in Int
      BY <1>1
    <2> QED BY <2>1, <2>2, SubSeqProperties
  <1>3. SubSeq(up, k + 1, Len(up)) \in Seq(Messages)
    <2>1. \A i \in k + 1 .. Len(up) : up[i] \in Messages
      BY <1>1
    <2>2. k + 1 \in Int /\ Len(up) \in Int
      BY <1>1, SMTT(30)
    <2> QED BY <2>1, <2>2, SubSeqProperties
  <1>4. SubSeq(up, 1, k) \o SubSeq(up, k + 1, Len(up)) = up
    <2>1. /\ 1 \in 1 .. Len(up) + 1 /\ k \in 1 - 1 .. Len(up) /\ Len(up) \in k .. Len(up)
      BY <1>1
    <2>2. SubSeq(up, 1, k) \o SubSeq(up, k + 1, Len(up)) = SubSeq(up, 1, Len(up))
      BY <1>0, <2>1, ConcatAdjacentSubSeq
    <2>3. SubSeq(up, 1, Len(up)) = up
      BY <1>0, SubSeqFull
    <2> QED BY <2>2, <2>3
  <1> QED BY <1>2, <1>3, <1>4

(* The line, taken apart where the connection broke.                       *)
LEMMA WireSplit ==
  ASSUME TypeOK, NEW p \in Seq(Messages), NEW r \in Seq(Messages)
  PROVE  up = p \o r => /\ down \o p \in Seq(Messages) /\ r \o queue \in Seq(Messages)
                        /\ Wire = (down \o p) \o r \o queue
                        /\ Wire = (down \o p) \o (r \o queue)
  <1>1. down \in Seq(Messages) /\ queue \in Seq(Messages)
    BY WireTyped
  <1>2. down \o p \in Seq(Messages) /\ r \o queue \in Seq(Messages)
    BY <1>1, ConcatProperties
  <1>3. down \o (p \o r) = (down \o p) \o r
    BY <1>1, Joined, SMTT(30)
  <1>4. (down \o p) \o r \o queue = (down \o p) \o (r \o queue)
    <2> DEFINE d == down \o p
    <2>1. d \in Seq(Messages)
      BY <1>2
    <2> HIDE DEF d
    <2>2. (d \o r) \o queue = d \o (r \o queue)
      BY <1>1, <2>1, Joined
    <2> QED BY <2>2 DEF d
  <1>5. up = p \o r => Wire = (down \o p) \o r \o queue
    BY <1>3 DEF Wire
  <1> QED BY <1>2, <1>4, <1>5

(* A connection that ends drops what was not delivered.                    *)
LEMMA RestDropped ==
  ASSUME TypeOK, HistTyped, applicationWillResignActive \/ ConnectionLost
  PROVE  Thinned
  <1>1. Break /\ UNCHANGED <<activity, down, rows, jobstart, sheet, now>>
    BY DEF applicationWillResignActive, ConnectionLost, o2sVars, appVars
  <1>2. PICK k \in 0 .. Len(up) :
           up' = SubSeq(up, 1, k) /\ Lose(SubSeq(up, k + 1, Len(up)))
    BY <1>1 DEF Break
  <1> DEFINE p == SubSeq(up, 1, k)
             r == SubSeq(up, k + 1, Len(up))
  <1>a. p \in Seq(Messages) /\ r \in Seq(Messages) /\ up = p \o r
    BY PrefixAndRest
  <1>4. up' = p /\ Lose(r)
    BY <1>2
  <1> HIDE DEF p, r
  <1>3. /\ p \in Seq(Messages) /\ r \in Seq(Messages) /\ down \o p \in Seq(Messages)
        /\ Wire = (down \o p) \o r \o queue
    BY <1>a, WireSplit
  <1>5. Wire' = (down \o p) \o queue
    BY <1>1, <1>4 DEF Wire, Break
  <1> QED BY <1>1, <1>3, <1>4, <1>5, WireTyped, Losing

(* A kill and a reconnection drop both. The app comes back with what was   *)
(* saved: when nothing ran before, nothing runs, by Truth.                 *)
LEMMA SessionDropped ==
  ASSUME TypeOK, Truth, HistTyped, Kill \/ reconnect
  PROVE  Thinned
  <1>1. UNCHANGED <<down, rows, jobstart, sheet, now>> /\ queue' = <<>>
    BY DEF Kill, reconnect, o2sVars
  <1>2. activity' = None => activity = None
    <2>1. CASE Kill
      BY <2>1 DEF Kill, Truth, SavedBehind
    <2>2. CASE reconnect
      BY <2>2 DEF reconnect, appVars
    <2> QED BY <2>1, <2>2
  <1>3. PICK k \in 0 .. Len(up) :
           up' = SubSeq(up, 1, k) /\ Lose(SubSeq(up, k + 1, Len(up)) \o queue)
    BY DEF Kill, reconnect
  <1> DEFINE p == SubSeq(up, 1, k)
             r == SubSeq(up, k + 1, Len(up))
  <1>a. p \in Seq(Messages) /\ r \in Seq(Messages) /\ up = p \o r
    BY PrefixAndRest
  <1>5. up' = p /\ Lose(r \o queue)
    BY <1>3
  <1> HIDE DEF p, r
  <1>4. /\ down \o p \in Seq(Messages) /\ r \o queue \in Seq(Messages)
        /\ Wire = (down \o p) \o (r \o queue)
    BY <1>a, WireSplit
  <1>6. Wire' = (down \o p) \o <<>>
    BY <1>1, <1>5 DEF Wire
  <1>7. Wire = (down \o p) \o (r \o queue) \o <<>>
    <2>1. Wire \in Seq(Messages)
      BY WireTyped
    <2> QED BY <1>4, <2>1, ConcatEmptySeq
  <1> QED BY <1>1, <1>2, <1>4, <1>5, <1>6, <1>7, WireTyped, Losing

(* What was stored is sent: it stays under way.                            *)
LEMMA QueueSent ==
  ASSUME TypeOK, HistTyped, connected \/ newMessage
  PROVE  Thinned
  <1>1. UNCHANGED <<activity, rows, jobstart, sheet, now, history>>
    BY DEF connected, newMessage, appVars, o2sVars
  <1>2. CASE connected
    <2>1. Wire' = down \o (up \o queue) \o <<>>
      BY <1>2 DEF connected, Wire, o2sVars
    <2>2. Wire = down \o (up \o queue) /\ Wire \in Seq(Messages)
      BY WireTyped
    <2>3. Wire' = Wire
      BY <2>1, <2>2, ConcatEmptySeq
    <2> QED BY <1>1, <2>3, NothingLost
  <1>3. CASE newMessage
    <2>1. Wire' = Wire
      BY <1>3 DEF newMessage, Wire, o2sVars, linkVars
    <2> QED BY <1>1, <2>1, NothingLost
  <1> QED BY <1>2, <1>3

-----------------------------------------------------------------------------
(* The broker, and what befalls o2s.                                       *)
(* A sequence is its head and its tail.                                    *)
LEMMA FirstAndRest ==
  ASSUME NEW s \in Seq(Messages), s # <<>>
  PROVE  /\ Head(s) \in Messages /\ Tail(s) \in Seq(Messages) /\ <<Head(s)>> \in Seq(Messages)
         /\ s = <<Head(s)>> \o Tail(s)
  <1>1. Head(s) \in Messages /\ Tail(s) \in Seq(Messages) /\ <<Head(s)>> \in Seq(Messages)
    BY HeadTailProperties, OneCounted
  <1>2. Len(s) \in Nat /\ 1 \in 1 .. Len(s) /\ Len(s) \in 1 .. Len(s)
    BY LenProperties, EmptySeq
  <1>3. SubSeq(s, 1, Len(s)) = <<s[1]>> \o SubSeq(s, 1 + 1, Len(s))
    BY <1>2, SubSeqRecursiveFirst
  <1>4. SubSeq(s, 1, Len(s)) = s /\ Tail(s) = SubSeq(s, 2, Len(s)) /\ Head(s) = s[1] /\ 1 + 1 = 2
    BY SubSeqFull, TailIsSubSeq
  <1> QED BY <1>1, <1>3, <1>4

(* The line, taken apart where the broker reads it.                        *)
LEMMA UpRead ==
  ASSUME TypeOK, up # <<>>
  PROVE  /\ Head(up) \in Messages /\ <<Head(up)>> \in Seq(Messages) /\ Tail(up) \in Seq(Messages)
         /\ Tail(up) \o queue \in Seq(Messages)
         /\ Wire = down \o <<Head(up)>> \o (Tail(up) \o queue)
         /\ down \o (Tail(up) \o queue) = down \o Tail(up) \o queue
         /\ Append(down, Head(up)) \o Tail(up) \o queue = Wire
  <1> DEFINE m == Head(up)
             r == Tail(up)
  <1>1. /\ down \in Seq(Messages) /\ up \in Seq(Messages) /\ queue \in Seq(Messages)
        /\ Wire = down \o (up \o queue)
    BY WireTyped
  <1>2. m \in Messages /\ r \in Seq(Messages) /\ <<m>> \in Seq(Messages) /\ up = <<m>> \o r
    BY <1>1, FirstAndRest
  <1> HIDE DEF m, r
  <1>3. r \o queue \in Seq(Messages) /\ down \o <<m>> \in Seq(Messages)
    BY <1>1, <1>2, ConcatProperties
  <1>4. up \o queue = <<m>> \o (r \o queue)
    BY <1>1, <1>2, Joined
  <1>5. Wire = down \o <<m>> \o (r \o queue)
    <2>1. (down \o <<m>>) \o (r \o queue) = down \o (<<m>> \o (r \o queue))
      BY <1>1, <1>2, <1>3, Joined, SMTT(30)
    <2> QED BY <1>1, <1>4, <2>1
  <1>6. down \o (r \o queue) = down \o r \o queue
    BY <1>1, <1>2, Joined, SMTT(30)
  <1>7. Append(down, m) = down \o <<m>>
    BY <1>1, <1>2, AppendIsConcat
  <1>8. Append(down, m) \o r \o queue = Wire
    BY <1>1, <1>2, <1>3, <1>5, <1>7, Joined, SMTT(30)
  <1> QED BY <1>2, <1>3, <1>5, <1>6, <1>8 DEF m, r

(* The broker forwards a report, keeps what is current, or loses a report  *)
(* that nobody subscribes to.                                              *)
LEMMA BrokerThins ==
  ASSUME TypeOK, HistTyped, BrokerReceives
  PROVE  Thinned
  <1> DEFINE m == Head(up)
             z == Tail(up) \o queue
  <1>0. /\ up # <<>> /\ up' = Tail(up)
        /\ UNCHANGED <<activity, queue, jobstart, rows, now, sheet>>
    BY DEF BrokerReceives, appVars
  <1>1. /\ m \in Messages /\ <<m>> \in Seq(Messages) /\ z \in Seq(Messages)
        /\ down \in Seq(Messages)
        /\ Wire = down \o <<m>> \o z
        /\ down \o z = down \o Tail(up) \o queue
        /\ Append(down, m) \o Tail(up) \o queue = Wire
    BY <1>0, UpRead, WireTyped
  <1>2. CASE ~IsReport(m) /\ UNCHANGED <<down, history>>
    <2>1. Wire' = down \o z
      BY <1>0, <1>1, <1>2 DEF Wire
    <2>2. Count(<<m>>, IsEnd) = 0 /\ Count(<<m>>, IsReport) = 0
      BY <1>1, <1>2, OneCounted
    <2>3. HistTyped' /\ repeated' = repeated /\ excuses' = excuses + Count(<<m>>, IsEnd)
      BY <1>2, <2>2 DEF history, HistTyped
    <2>4. ~harmed' => ~harmed /\ Count(<<m>>, IsReport) = 0
      BY <1>2, <2>2 DEF history
    <2> HIDE DEF m, z
    <2> QED BY <1>0, <1>1, <2>1, <2>3, <2>4 DEF Thinned
  <1>3. CASE IsReport(m) /\ down' = Append(down, m) /\ UNCHANGED history
    <2>1. Wire' = Wire
      BY <1>0, <1>1, <1>3 DEF Wire
    <2> QED BY <1>0, <1>3, <2>1, NothingLost
  <1>4. CASE IsReport(m) /\ Lose(<<m>>) /\ UNCHANGED down
    <2>1. Wire' = down \o z
      BY <1>0, <1>1, <1>4 DEF Wire
    <2> HIDE DEF m, z
    <2> QED BY <1>0, <1>1, <1>4, <2>1, Losing
  <1> QED BY <1>2, <1>3, <1>4 DEF BrokerReceives

(* The head and the tail of a sequence put together from them.             *)
LEMMA FirstOf ==
  ASSUME NEW m \in Messages, NEW z \in Seq(Messages)
  PROVE  /\ <<m>> \o z \in Seq(Messages) /\ <<m>> \o z # <<>>
         /\ (<<m>> \o z)[1] = m /\ Tail(<<m>> \o z) = z
  <1> DEFINE s == <<m>> \o z
  <1>5. <<m>> \in Seq(Messages)
    BY OneCounted
  <1>6. Len(<<m>>) = 1 /\ <<m>>[1] = m /\ Len(z) \in Nat
    BY LenProperties
  <1>7. /\ s \in Seq(Messages) /\ Len(s) = 1 + Len(z)
        /\ \A i \in 1 .. 1 + Len(z) : s[i] = IF i <= 1 THEN <<m>>[i] ELSE z[i - 1]
    BY <1>5, <1>6, ConcatProperties
  <1> HIDE DEF s
  <1>8. s[1] = m /\ s # <<>>
    <2>1. 1 \in 1 .. 1 + Len(z) /\ 1 <= 1 /\ 1 + Len(z) # 0
      BY <1>6
    <2> QED BY <1>6, <1>7, <2>1, EmptySeq
  <1>9. Tail(s) = z
    <2>1. /\ Tail(s) \in Seq(Messages) /\ Len(Tail(s)) = Len(s) - 1
          /\ \A i \in 1 .. Len(Tail(s)) : Tail(s)[i] = s[i + 1]
      BY <1>7, <1>8, HeadTailProperties
    <2>2. Len(Tail(s)) = Len(z)
      BY <1>6, <1>7, <2>1
    <2>3. ASSUME NEW i \in 1 .. Len(z) PROVE s[i + 1] = z[i]
      <3>1. i + 1 \in 1 .. 1 + Len(z) /\ ~(i + 1 <= 1) /\ (i + 1) - 1 = i
        BY <1>6
      <3> QED BY <1>7, <3>1
    <2> QED BY <2>1, <2>2, <2>3, SeqEqual
  <1> QED BY <1>7, <1>8, <1>9 DEF s

(* The line, taken apart where o2s reads it.                               *)
LEMMA DownRead ==
  ASSUME TypeOK, down # <<>>
  PROVE  /\ Head(down) \in Reports /\ <<Head(down)>> \in Seq(Messages)
         /\ Tail(down) \o up \o queue \in Seq(Messages)
         /\ Wire = <<Head(down)>> \o (Tail(down) \o up \o queue)
         /\ Wire # <<>> /\ Wire[1] = Head(down) /\ Tail(Wire) = Tail(down) \o up \o queue
  <1> DEFINE m == Head(down)
             r == Tail(down)
             z == r \o up \o queue
  <1>1. /\ down \in Seq(Messages) /\ up \in Seq(Messages) /\ queue \in Seq(Messages)
    BY WireTyped
  <1>2. m \in Messages /\ r \in Seq(Messages) /\ <<m>> \in Seq(Messages) /\ down = <<m>> \o r
    BY <1>1, FirstAndRest
  <1>a. m \in Reports
    BY HeadTailProperties DEF TypeOK
  <1> HIDE DEF m, r
  <1>3. r \o up \in Seq(Messages) /\ z \in Seq(Messages)
    BY <1>1, <1>2, ConcatProperties
  <1>4. down \o up = <<m>> \o (r \o up)
    BY <1>1, <1>2, Joined
  <1>5. Wire = <<m>> \o z
    BY <1>1, <1>2, <1>3, <1>4, Joined DEF Wire
  <1> HIDE DEF z
  <1>6. Wire # <<>> /\ Wire[1] = m /\ Tail(Wire) = z
    BY <1>2, <1>3, <1>5, FirstOf
  <1> QED BY <1>a, <1>2, <1>3, <1>5, <1>6 DEF m, r, z

(* A start that is not stored, a restart and a broken subscription lose    *)
(* what they lose.                                                         *)
LEMMA O2sThins ==
  ASSUME TypeOK, HistTyped, StoreStartFails \/ Crash \/ on_disconnect \/ on_connect
  PROVE  Thinned
  <1>1. UNCHANGED <<activity, up, queue, rows, now, sheet>>
    BY DEF StoreStartFails, Crash, on_disconnect, on_connect, appVars, linkVars
  <1>2. CASE StoreStartFails
    <2> DEFINE m == Head(down)
               z == Tail(down) \o up \o queue
    <2>1. /\ m \in Reports /\ <<m>> \in Seq(Messages) /\ z \in Seq(Messages)
          /\ Wire = <<m>> \o z /\ Wire # <<>> /\ Wire[1] = m
      BY <1>2, DownRead DEF StoreStartFails
    <2>2. /\ Lose(<<m>>) /\ ~IsEnd(m) /\ down' = Tail(down)
          /\ (jobstart' = jobstart \/ jobtopic)
      BY <1>2 DEF StoreStartFails, Remember
    <2>3. Wire' = z
      BY <1>1, <2>2 DEF Wire
    <2> HIDE DEF m, z
    <2>4. m \in Messages /\ IsReport(m) /\ IsStart(m)
      BY <2>1, <2>2 DEF Messages, Reports, IsReport, IsEnd, IsStart
    <2>5. Count(<<m>>, IsReport) = 1 /\ Count(<<m>>, IsEnd) = 0
      BY <2>2, <2>4, OneCounted
    <2>a. Count(<<m>>, IsReport) > 0
      BY <2>5
    <2>6. harmed' /\ repeated' = repeated /\ excuses' = excuses + Count(<<m>>, IsEnd)
      BY <2>2, <2>a DEF Lose
    <2>7. HistTyped'
      BY <2>2, <2>5, <2>6 DEF HistTyped, Lose
    <2>8. Wire = <<>> \o <<m>> \o z /\ Wire' = <<>> \o z /\ <<>> \in Seq(Messages)
      BY <2>1, <2>3, ConcatEmptySeq
    <2>9. \/ jobstart' = jobstart
          \/ harmed' /\ jobtopic /\ Wire # <<>> /\ IsStart(Wire[1])
      BY <2>1, <2>2, <2>4, <2>6
    <2> QED BY <1>1, <2>1, <2>6, <2>7, <2>8, <2>9 DEF Thinned
  <1>3. down \in Seq(Messages) /\ up \o queue \in Seq(Messages) /\ <<>> \in Seq(Messages)
        /\ up \in Seq(Messages) /\ queue \in Seq(Messages)
        /\ Wire = <<>> \o down \o (up \o queue)
    BY WireTyped, ConcatEmptySeq
  <1>4. ASSUME down' = <<>> PROVE Wire' = <<>> \o (up \o queue)
    BY <1>1, <1>3, <1>4, ConcatEmptySeq DEF Wire
  <1>5. CASE Crash
    <2>1. /\ excuses' = excuses + Count(down, IsEnd) /\ harmed' /\ jobstart' = None
          /\ repeated' = repeated /\ stale' = stale /\ down' = <<>> /\ harmed' \in BOOLEAN
      BY <1>5 DEF Crash
    <2>2. HistTyped'
      BY <1>3, <2>1, CountsOf DEF HistTyped
    <2> QED BY <1>1, <1>3, <1>4, <2>1, <2>2 DEF Thinned
  <1>6. CASE on_disconnect
    <2>1. Lose(down) /\ down' = <<>> /\ jobstart' = jobstart
      BY <1>6 DEF on_disconnect
    <2> QED BY <1>1, <1>3, <1>4, <2>1, Losing
  <1>7. CASE on_connect
    <2>1. Wire' = Wire /\ UNCHANGED <<jobstart, history>>
      BY <1>1, <1>7 DEF Wire, on_connect
    <2> QED BY <1>1, <2>1, NothingLost
  <1> QED BY <1>2, <1>5, <1>6, <1>7

-----------------------------------------------------------------------------
(* The invariant.                                                          *)
(* An interval is under way.                                               *)
HasOpen(sh) == \E n \in DOMAIN sh : sh[n].end = None

(* The rows that may be open when all has been handled.                    *)
Left(sh) == excuses + IF HasOpen(sh) THEN 1 ELSE 0

(* w is under way, and sh is the sheet. *)
Faithful(w, sh) ==
    excuses = 0 /\ ~repeated => Matched(w, sh, rows) /\ Stored(sh, rows, jobstart)

(* The order of the table and its lengths, as long as nothing was lost.    *)
Whole(w, sh) ==
    excuses = 0 /\ ~repeated /\ ~harmed => Lined(w, sh, rows) /\ Exact(rows, jobstart)

(* The bound on the open rows, always.                                     *)
Excused(w, sh) == Bounded(w, rows, 1 + excuses, Left(sh))

(* All three.                                                              *)
Good(w, sh) == Faithful(w, sh) /\ Whole(w, sh) /\ Excused(w, sh)

(* Without the option o2s remembers no start.                              *)
Deaf == ~jobtopic => jobstart = None

(* What is left after a cut is in the order it was, and misses the cut     *)
(* alone.                                                                  *)
LEMMA CutEmbeds ==
  ASSUME NEW s \in Seq(Messages), NEW t \in Seq(Messages), NEW a \in Nat, NEW b \in Nat,
         Cut(s, t, a, b)
  PROVE  \E g : /\ Embeds(g, s, t) /\ g[0] = 0
                /\ \A m \in DOMAIN s : m \notin a + 1 .. b => \E k \in DOMAIN t : m = g[k]
  <1> DEFINE g == [k \in 0 .. Len(t) |-> IF k <= a THEN k ELSE k + (b - a)]
  <1>1. /\ Len(s) \in Nat /\ Len(t) \in Nat /\ a <= b /\ b <= Len(s)
        /\ Len(t) = Len(s) - (b - a)
        /\ \A k \in 1 .. Len(t) : t[k] = s[IF k <= a THEN k ELSE k + (b - a)]
        /\ DOMAIN s = 1 .. Len(s) /\ DOMAIN t = 1 .. Len(t)
    BY LenProperties DEF Cut
  <1>2. ASSUME NEW k \in 0 .. Len(t)
        PROVE  /\ g[k] = IF k <= a THEN k ELSE k + (b - a)
               /\ g[k] \in 0 .. Len(s)
    BY <1>1
  <1>3. g \in [0 .. Len(t) -> 0 .. Len(s)]
    BY <1>2
  <1>4. ASSUME NEW k \in 1 .. Len(t) PROVE t[k] = s[g[k]]
    <2>1. k \in 0 .. Len(t)
      BY <1>1
    <2> QED BY <1>1, <1>2, <2>1
  <1>5. ASSUME NEW k \in 0 .. Len(t), NEW l \in 0 .. Len(t), k < l PROVE g[k] < g[l]
    BY <1>1, <1>5
  <1>6. g[0] = 0
    BY <1>1
  <1>7. ASSUME NEW m \in DOMAIN s, m \notin a + 1 .. b
        PROVE  \E k \in DOMAIN t : m = g[k]
    <2>1. CASE m <= a
      <3>1. m \in DOMAIN t /\ m \in 0 .. Len(t)
        BY <1>1, <2>1
      <3>2. g[m] = m
        BY <1>2, <2>1, <3>1
      <3> QED BY <3>1, <3>2
    <2>2. CASE ~(m <= a)
      <3>1. m - (b - a) \in DOMAIN t /\ m - (b - a) \in 0 .. Len(t) /\ ~(m - (b - a) <= a)
            /\ (m - (b - a)) + (b - a) = m
        BY <1>1, <1>7, <2>2
      <3>2. g[m - (b - a)] = m
        BY <1>2, <3>1
      <3> QED BY <3>1, <3>2
    <2> QED BY <2>1, <2>2
  <1> HIDE DEF g
  <1> QED BY <1>3, <1>4, <1>5, <1>6, <1>7 DEF Embeds

(* What o2s remembers may be forgotten; and when a start is at the head no *)
(* row is open that would miss it.                                         *)
LEMMA StoredAfterLoss ==
  ASSUME NEW s, NEW sh, NEW rs, NEW js, Matched(s, sh, rs), Stored(sh, rs, js),
         NEW js2, js2 = js \/ js2 = None \/ (s \in Seq(Messages) /\ s # <<>> /\ IsStart(s[1]))
  PROVE  Stored(sh, rs, js2)
  <1>1. CASE js2 = js
    BY <1>1
  <1>2. CASE js2 = None
    BY <1>2 DEF Stored
  <1>3. CASE s \in Seq(Messages) /\ s # <<>> /\ IsStart(s[1])
    <2>1. \A k \in DOMAIN rs : ~IsOpen(rs[k])
      BY <1>3, NoneOpen
    <2> QED BY <2>1 DEF Stored
  <1> QED BY <1>1, <1>2, <1>3

(* Losses keep the invariant: an end that is lost voids the claims about   *)
(* what is stored and counts as an excuse; a start, the claim about all of *)
(* it.                                                                     *)
LEMMA ThinnedGood ==
  ASSUME TypeOK, HistTyped, Thinned, Good(Wire, sheet)
  PROVE  Good(Wire, sheet)'
  <1>0. Wire \in Seq(Messages) /\ rows \in Seq(Rows)
    BY WireTyped DEF TypeOK
  <1>1. PICK x \in Seq(Messages), y \in Seq(Messages), z \in Seq(Messages) :
          /\ Wire = x \o y \o z /\ Wire' = x \o z
          /\ excuses' = excuses + Count(y, IsEnd)
          /\ ~harmed' => ~harmed /\ Count(y, IsReport) = 0
    BY DEF Thinned
  <1>2. /\ UNCHANGED <<rows, sheet>> /\ repeated' = repeated
        /\ \/ jobstart' = jobstart
           \/ harmed' /\ (jobstart' = None \/ (Wire # <<>> /\ IsStart(Wire[1])))
    BY DEF Thinned
  <1> DEFINE a == Len(x)
             b == Len(x) + Len(y)
             t == Wire'
             e == EndsIn(Wire, a, b)
  <1>3. /\ t \in Seq(Messages) /\ a \in Nat /\ b \in Nat
        /\ Cut(Wire, t, a, b) /\ Part(y, Wire, a, b)
    BY <1>1, Cutting
  <1> HIDE DEF a, b, t
  <1>4. /\ Count(y, IsEnd) = e
        /\ Count(y, IsReport) \in Nat
        /\ Count(y, IsReport) > 0 <=> \E k \in a + 1 .. b : IsReport(Wire[k])
        /\ e \in Nat
        /\ e = 0 <=> \A k \in a + 1 .. b : ~IsEnd(Wire[k])
    <2>1. Count(y, IsEnd) = EndsIn(Wire, a, b)
      BY <1>3, EndsOfPart
    <2>a. Count(y, IsReport) \in Nat
      BY <1>3, PartCounts
    <2>b. Count(y, IsReport) > 0 <=> \E k \in a + 1 .. b : IsReport(Wire[k])
      BY <1>3, PartCounts
    <2>2. /\ EndsIn(Wire, a, b) \in Nat
          /\ EndsIn(Wire, a, b) = 0 <=> \A k \in a + 1 .. b : ~IsEnd(Wire[k])
      BY <1>3, EndsFinite
    <2> QED BY <2>1, <2>2, <2>a, <2>b DEF e
  <1> HIDE DEF e
  <1>5. excuses \in Nat /\ excuses' = excuses + e
    BY <1>1, <1>4 DEF HistTyped
  <1>6. PICK g : /\ Embeds(g, Wire, t) /\ g[0] = 0
                 /\ \A m \in DOMAIN Wire : m \notin a + 1 .. b => \E k \in DOMAIN t : m = g[k]
    BY <1>0, <1>3, CutEmbeds
  <1>7. ASSUME excuses' = 0 /\ ~repeated'
        PROVE  Matched(t, sheet, rows) /\ Stored(sheet, rows, jobstart')
    <2>1. excuses = 0 /\ e = 0 /\ ~repeated
      BY <1>2, <1>4, <1>5, <1>7
    <2>2. Matched(Wire, sheet, rows) /\ Stored(sheet, rows, jobstart)
      BY <2>1 DEF Good, Faithful
    <2>3. \A m \in DOMAIN Wire : IsEnd(Wire[m]) => \E k \in DOMAIN t : m = g[k]
      BY <1>4, <1>6, <2>1
    <2>4. Matched(t, sheet, rows)
      BY <1>0, <1>3, <1>6, <2>2, <2>3, MatchedEmbeds
    <2>5. Stored(sheet, rows, jobstart')
      BY <1>0, <1>2, <2>2, StoredAfterLoss
    <2> QED BY <2>4, <2>5
  <1>8. ASSUME excuses' = 0 /\ ~repeated' /\ ~harmed'
        PROVE  Lined(t, sheet, rows) /\ Exact(rows, jobstart')
    <2>1. excuses = 0 /\ ~repeated /\ ~harmed /\ jobstart' = jobstart
          /\ Count(y, IsReport) = 0
      BY <1>1, <1>2, <1>4, <1>5, <1>8
    <2>2. Lined(Wire, sheet, rows) /\ Exact(rows, jobstart)
      BY <2>1 DEF Good, Whole
    <2>3. \A m \in DOMAIN Wire : IsStart(Wire[m]) => \E k \in DOMAIN t : m = g[k]
      <3>1. ~(Count(y, IsReport) > 0)
        BY <2>1
      <3> QED BY <1>4, <1>6, <3>1 DEF IsStart
    <2>4. Lined(t, sheet, rows)
      BY <1>0, <1>3, <1>6, <2>2, <2>3, LinedEmbeds
    <2> QED BY <2>1, <2>2, <2>4
  <1>9. Bounded(t, rows, 1 + excuses', excuses' + IF HasOpen(sheet) THEN 1 ELSE 0)
    <2> DEFINE o == IF HasOpen(sheet) THEN 1 ELSE 0
    <2>0. o \in Nat
      OBVIOUS
    <2>1. Bounded(Wire, rows, 1 + excuses, excuses + o)
      BY DEF Good, Excused, Left
    <2> HIDE DEF o
    <2>2. 1 + excuses \in Nat /\ excuses + o \in Nat
      BY <1>5, <2>0
    <2>3. Bounded(t, rows, (1 + excuses) + e, (excuses + o) + e)
      BY <1>0, <1>3, <1>4, <2>1, <2>2, BoundedCut DEF e
    <2>4. (1 + excuses) + e = 1 + excuses' /\ (excuses + o) + e = excuses' + o
      BY <1>4, <1>5, <2>0
    <2>5. Bounded(t, rows, 1 + excuses', excuses' + o)
      BY <2>3, <2>4
    <2> QED BY <2>5 DEF o
  <1> QED BY <1>2, <1>7, <1>8, <1>9 DEF Good, Faithful, Whole, Excused, Left, t

(* A report that is repeated goes to the end of the line.                  *)
LEMMA Again ==
  ASSUME TypeOK, status = "connected" => queue = <<>>, checkTxFlows
  PROVE  \E m \in unacked :
            /\ m \in Reports /\ m \in Messages /\ Wire' = Append(Wire, m)
            /\ excuses' = excuses + (IF IsEnd(m) THEN 0 ELSE 1)
            /\ repeated' = (repeated \/ IsEnd(m))
  <1>1. PICK m \in unacked :
          /\ up' = Append(up, m)
          /\ excuses' = excuses + (IF IsEnd(m) THEN 0 ELSE 1)
          /\ repeated' = (repeated \/ IsEnd(m))
    BY DEF checkTxFlows
  <1>2. /\ UNCHANGED <<down, queue, rows, sheet, harmed, stale>> /\ queue = <<>>
    BY DEF checkTxFlows, o2sVars
  <1>3. m \in Reports /\ m \in Messages
    BY DEF TypeOK, Messages
  <1>4. Wire \in Seq(Messages) /\ down \in Seq(Messages) /\ up \in Seq(Messages)
        /\ down \o up \in Seq(Messages)
    BY WireTyped
  <1>5. Wire' = Append(Wire, m)
    <2>1. Wire = down \o up
      BY <1>2, <1>4, ConcatEmptySeq DEF Wire
    <2>2. Append(up, m) = up \o <<m>> /\ <<m>> \in Seq(Messages)
      BY <1>3, <1>4, AppendIsConcat
    <2>3. up \o <<m>> \in Seq(Messages) /\ down \o (up \o <<m>>) \in Seq(Messages)
      BY <1>4, <2>2, ConcatProperties
    <2>4. Wire' = down \o (up \o <<m>>)
      BY <1>1, <1>2, <2>2, <2>3, ConcatEmptySeq DEF Wire
    <2>5. down \o (up \o <<m>>) = (down \o up) \o <<m>>
      BY <1>4, <2>2, Joined
    <2>6. Append(down \o up, m) = (down \o up) \o <<m>>
      BY <1>3, <1>4, AppendIsConcat
    <2> QED BY <2>1, <2>4, <2>5, <2>6
  <1> QED BY <1>1, <1>3, <1>5

(* A report that is repeated is an excuse, or voids the claim. *)
LEMMA Repeated ==
  ASSUME TypeOK, HistTyped, status = "connected" => queue = <<>>, checkTxFlows, Good(Wire, sheet)
  PROVE  Good(Wire, sheet)' /\ HistTyped'
  <1>1. PICK m \in unacked :
          /\ m \in Reports /\ m \in Messages /\ Wire' = Append(Wire, m)
          /\ excuses' = excuses + (IF IsEnd(m) THEN 0 ELSE 1)
          /\ repeated' = (repeated \/ IsEnd(m))
    BY Again
  <1>2. UNCHANGED <<down, queue, rows, jobstart, sheet, harmed, stale>>
    BY DEF checkTxFlows, o2sVars
  <1>3. m \in Reports /\ m \in Messages
    BY <1>1
  <1>4. Wire \in Seq(Messages)
    BY WireTyped
  <1>5. Wire' = Append(Wire, m)
    BY <1>1
  <1>6. excuses \in Nat /\ ~(excuses' = 0 /\ ~repeated')
    <2>1. CASE IsEnd(m)
      BY <1>1, <2>1 DEF HistTyped
    <2>2. CASE ~IsEnd(m)
      <3>1. excuses' = excuses + 1 /\ excuses \in Nat
        BY <1>1, <2>2 DEF HistTyped
      <3>2. excuses' # 0
        BY <3>1
      <3> QED BY <3>1, <3>2
    <2> QED BY <2>1, <2>2
  <1>7. HistTyped'
    BY <1>1, <1>2, <1>6 DEF HistTyped
  <1> DEFINE o == IF HasOpen(sheet) THEN 1 ELSE 0
             top == 1 + excuses
             left == excuses + o
  <1>8. o \in {0, 1} /\ Bounded(Wire, rows, top, left)
    BY DEF Good, Excused, Left
  <1> HIDE DEF o
  <1>9. top \in Nat /\ left \in Nat /\ left <= top
    BY <1>6, <1>8
  <1>10. Bounded(Append(Wire, m), rows, 1 + excuses', excuses' + o)
    <2>1. CASE IsEnd(m)
      <3>1. excuses' = excuses
        BY <1>1, <1>6, <2>1
      <3>2. ~IsStart(m) /\ left <= left + 1
        BY <1>9, <2>1 DEF IsStart, IsEnd
      <3>3. Bounded(Append(Wire, m), rows, top, left)
        BY <1>3, <1>4, <1>8, <1>9, <2>1, <3>2, BoundedAppend
      <3> QED BY <3>1, <3>3
    <2>2. CASE ~IsEnd(m)
      <3>1. excuses' = excuses + 1
        BY <1>1, <2>2
      <3>2. /\ top + 1 \in Nat /\ left + 1 \in Nat /\ top <= top + 1 /\ left <= left
            /\ left + 1 <= top + 1 /\ left + 1 <= left + 1 /\ left <= left + 1
        BY <1>9
      <3>3. Bounded(Wire, rows, top + 1, left)
        BY <1>4, <1>8, <1>9, <3>2, BoundedRaised
      <3> HIDE DEF top, left
      <3>4. Bounded(Append(Wire, m), rows, top + 1, left + 1)
        BY <1>3, <1>4, <1>9, <2>2, <3>2, <3>3, BoundedAppend
      <3>5. top + 1 = 1 + excuses' /\ left + 1 = excuses' + o
        BY <1>6, <1>8, <3>1 DEF top, left
      <3> QED BY <3>4, <3>5
    <2> QED BY <2>1, <2>2
  <1> QED BY <1>2, <1>5, <1>6, <1>7, <1>10 DEF Good, Faithful, Whole, Excused, Left, o

-----------------------------------------------------------------------------
(* o2s handles a report. *)
LEMMA Handled ==
  ASSUME TypeOK, HistTyped, Deaf, on_currentjob, Good(Wire, sheet)
  PROVE  Good(Wire, sheet)' /\ HistTyped' /\ Deaf'
  <1> DEFINE m == Head(down)
  <1>1. /\ down # <<>> /\ down' = Tail(down) /\ Remember(m)
        /\ StoreStart(m) \/ StoreEnd(m)
        /\ UNCHANGED <<up, queue, sheet, excuses, repeated, harmed, stale>>
    BY DEF on_currentjob, linkVars, history
  <1>2. /\ m \in Reports /\ Wire # <<>> /\ Wire[1] = m
        /\ Tail(Wire) = Tail(down) \o up \o queue
    BY <1>1, DownRead
  <1>3. Wire' = Tail(Wire)
    BY <1>1, <1>2 DEF Wire
  <1>4. HistTyped'
    BY <1>1 DEF HistTyped
  <1>5. Deaf'
    BY <1>1 DEF Deaf, Remember
  <1>6. /\ Wire \in Seq(Messages) /\ rows \in Seq(Rows) /\ jobstart \in Times \cup {None}
        /\ excuses \in Nat
    BY WireTyped DEF TypeOK, HistTyped
  <1> DEFINE o == IF HasOpen(sheet) THEN 1 ELSE 0
             n == Count(rows, IsOpen)
             n2 == Count(rows', IsOpen)
  <1>7. Bounded(Wire, rows, 1 + excuses, excuses + o)
    BY DEF Good, Excused, Left
  <1>8. o \in Nat
    OBVIOUS
  <1>9. n \in Nat
    BY <1>6, OpenFinite
  <1> SUFFICES /\ excuses = 0 /\ ~repeated => Matched(Tail(Wire), sheet, rows')
                                              /\ Stored(sheet, rows', jobstart')
               /\ excuses = 0 /\ ~repeated /\ ~harmed =>
                     Lined(Tail(Wire), sheet, rows') /\ Exact(rows', jobstart')
               /\ Bounded(Tail(Wire), rows', 1 + excuses, excuses + o)
    BY <1>1, <1>3, <1>4, <1>5 DEF Good, Faithful, Whole, Excused, Left
  <1> HIDE DEF o, n, n2
  <1>10. 1 + excuses \in Nat /\ excuses + o \in Nat
    BY <1>6, <1>8
  <1>11. CASE StoreStart(m)
    <2>1. IsStart(Wire[1]) /\ Wire[1] \in Reports /\ StoreStart(Wire[1]) /\ ~IsEnd(m)
      BY <1>2, <1>11 DEF StoreStart, IsStart, IsEnd, IsReport, Reports
    <2>2. jobstart' = IF jobtopic THEN Wire[1].at ELSE None
      BY <1>1, <1>2, <2>1 DEF Remember, Deaf
    <2>3. ASSUME excuses = 0 /\ ~repeated
          PROVE  Matched(Tail(Wire), sheet, rows') /\ Stored(sheet, rows', jobstart')
      <3>1. Matched(Wire, sheet, rows) /\ Stored(sheet, rows, jobstart)
        BY <2>3 DEF Good, Faithful
      <3>2. jobstart' \in {None, Wire[1].at}
        BY <2>2
      <3> QED BY <1>2, <1>6, <2>1, <3>1, <3>2, StartHandled
    <2>4. ASSUME excuses = 0 /\ ~repeated /\ ~harmed
          PROVE  Lined(Tail(Wire), sheet, rows') /\ Exact(rows', jobstart')
      <3>1. Matched(Wire, sheet, rows) /\ Lined(Wire, sheet, rows) /\ Exact(rows, jobstart)
        BY <2>4 DEF Good, Faithful, Whole
      <3> QED BY <1>2, <1>6, <2>1, <2>2, <3>1, StartLined
    <2>5. n2 \in Nat /\ n2 <= n + 1
      <3> DEFINE new == [job |-> m.job, start |-> m.at, end |-> None, duration |-> None]
      <3>1. rows' = Append(rows, new)
        BY <1>11 DEF StoreStart
      <3>2. new \in Rows
        BY <1>2, <2>1, OpenStart
      <3> HIDE DEF new
      <3> QED BY <1>6, <3>1, <3>2, OpenAppended DEF n, n2
    <2>6. Bounded(Tail(Wire), rows', 1 + excuses, excuses + o)
      BY <1>2, <1>6, <1>7, <1>9, <1>10, <2>1, <2>5, BoundedTail DEF n, n2
    <2> QED BY <2>3, <2>4, <2>6
  <1>12. CASE StoreEnd(m)
    <2>1. IsEnd(Wire[1]) /\ Wire[1] \in Reports /\ StoreEnd(Wire[1])
      BY <1>2, <1>12 DEF StoreEnd
    <2>2. jobstart' = jobstart
      BY <1>1, <1>2, <2>1 DEF Remember
    <2>3. ASSUME excuses = 0 /\ ~repeated
          PROVE  Matched(Tail(Wire), sheet, rows') /\ Stored(sheet, rows', jobstart')
      <3>1. Matched(Wire, sheet, rows) /\ Stored(sheet, rows, jobstart)
        BY <2>3 DEF Good, Faithful
      <3> QED BY <1>2, <1>6, <2>1, <2>2, <3>1, EndHandled
    <2>4. ASSUME excuses = 0 /\ ~repeated /\ ~harmed
          PROVE  Lined(Tail(Wire), sheet, rows') /\ Exact(rows', jobstart')
      <3>1. Lined(Wire, sheet, rows) /\ Exact(rows, jobstart)
        BY <2>4 DEF Good, Whole
      <3> QED BY <1>2, <1>6, <2>1, <2>2, <3>1, EndLined
    <2>5. n2 \in Nat /\ (n2 = 0 \/ n2 + 1 <= n)
      <3>1. CASE Count(rows, IsOpen) = 0 /\ UNCHANGED rows
        BY <3>1 DEF n2
      <3>2. ASSUME NEW k \in DOMAIN rows, IsOpen(rows[k]),
                   rows' = [rows EXCEPT ![k] = [job |-> @.job, start |-> @.start, end |-> m.at,
                                                 duration |-> Duration(m.at)]]
            PROVE  n2 \in Nat /\ n2 + 1 <= n
        <4> DEFINE new == [job |-> rows[k].job, start |-> rows[k].start, end |-> m.at,
                           duration |-> Duration(m.at)]
        <4>1. m.at \in Times /\ m.at # None
          BY <1>2, JobsAssumption DEF Reports, Times
        <4>2. Duration(m.at) \in ((- MaxTime) .. MaxTime) \cup {None}
          BY <1>6, <4>1, JobsAssumption DEF Duration, Times
        <4>3. rows[k] \in Rows
          BY <1>6, LenProperties, ElementOfSeq
        <4>4. new \in Rows /\ ~IsOpen(new)
          BY <4>1, <4>2, <4>3 DEF Rows, IsOpen
        <4>5. rows' = [rows EXCEPT ![k] = new]
          BY <3>2
        <4> HIDE DEF new
        <4> QED BY <1>6, <3>2, <4>4, <4>5, OpenClosed DEF n, n2
      <3> QED BY <1>12, <3>1, <3>2 DEF StoreEnd
    <2>6. Bounded(Tail(Wire), rows', 1 + excuses, excuses + o)
      BY <1>2, <1>6, <1>7, <1>9, <1>10, <2>1, <2>5, BoundedTail DEF n, n2
    <2> QED BY <2>3, <2>4, <2>6
  <1> QED BY <1>1, <1>11, <1>12

-----------------------------------------------------------------------------
(* What the worker's touches put under way.                                *)
(* What is current says nothing to the table.                              *)
LEMMA GoodCurrent ==
  ASSUME HistTyped, NEW w \in Seq(Messages), NEW c \in Messages, ~IsReport(c), NEW sh, Good(w, sh)
  PROVE  Good(Append(w, c), sh)
  <1>1. ~IsStart(c) /\ ~IsEnd(c)
    BY DEF IsStart, IsEnd
  <1>2. Faithful(Append(w, c), sh)
    BY MatchedStill DEF Good, Faithful
  <1>3. SameStarts(sh, sh)
    BY DEF SameStarts
  <1>4. Whole(Append(w, c), sh)
    BY <1>1, <1>3, LinedStill DEF Good, Whole
  <1>5. 1 + excuses \in Nat /\ Left(sh) \in Nat
    BY DEF HistTyped, Left
  <1>6. Left(sh) <= Left(sh)
    BY <1>5
  <1>7. Excused(Append(w, c), sh)
    BY <1>1, <1>5, <1>6, BoundedAppend DEF Good, Excused
  <1> QED BY <1>2, <1>4, <1>7 DEF Good

(* The sheet with what was open closed.                                    *)
LEMMA ClosedTypes ==
  ASSUME NEW sh \in Seq(Intervals), NEW at \in Times
  PROVE  /\ ClosedAt(sh, at) \in Seq(Intervals)
         /\ SameStarts(sh, ClosedAt(sh, at))
         /\ ~HasOpen(ClosedAt(sh, at))
         /\ ~HasOpen(sh) => ClosedAt(sh, at) = sh
  <1> DEFINE c == ClosedAt(sh, at)
  <1>1. /\ Len(sh) \in Nat /\ DOMAIN sh = 1 .. Len(sh) /\ sh \in [1 .. Len(sh) -> Intervals]
    BY LenProperties
  <1>2. at # None
    BY JobsAssumption DEF Times
  <1>3. c \in [1 .. Len(sh) -> Intervals]
    BY <1>1 DEF ClosedAt, Intervals
  <1>4. c \in Seq(Intervals)
    BY <1>1, <1>3, SeqDef
  <1>5. Len(c) = Len(sh) /\ DOMAIN c = DOMAIN sh
    BY <1>1, <1>3, <1>4, LenProperties
  <1>6. \A k \in DOMAIN sh : c[k].job = sh[k].job /\ c[k].start = sh[k].start /\ c[k].end # None
    BY <1>2 DEF ClosedAt
  <1>7. ASSUME ~HasOpen(sh) PROVE c = sh
    <2>1. \A k \in 1 .. Len(sh) : c[k] = sh[k]
      BY <1>1, <1>7 DEF ClosedAt, HasOpen
    <2> QED BY <1>4, <1>5, <2>1, SeqEqual
  <1> HIDE DEF c
  <1>8. SameStarts(sh, c) /\ ~HasOpen(c)
    BY <1>5, <1>6 DEF SameStarts, HasOpen
  <1> QED BY <1>4, <1>7, <1>8 DEF c

(* An interval that is closed stays. *)
LEMMA StoredOn ==
  ASSUME NEW sh, NEW sh2, NEW rs, NEW js, Stored(sh, rs, js),
         \A n \in DOMAIN sh : sh[n].end # None => n \in DOMAIN sh2 /\ sh2[n] = sh[n]
  PROVE  Stored(sh2, rs, js)
  <1>1. ASSUME NEW k \in DOMAIN rs, ~IsOpen(rs[k]), IntervalOf(sh, rs[k])
        PROVE  IntervalOf(sh2, rs[k])
    BY <1>1 DEF IntervalOf, IsOpen
  <1> QED BY <1>1 DEF Stored

(* The end of what is open is sent.                                        *)
LEMMA GoodEnd ==
  ASSUME HistTyped, NEW w \in Seq(Messages), NEW c \in Reports, IsEnd(c),
         NEW sh \in Seq(Intervals), Good(w, sh)
  PROVE  Good(Append(w, c), ClosedAt(sh, c.at))
  <1> DEFINE sh2 == ClosedAt(sh, c.at)
  <1>1. ~IsStart(c) /\ c \in Messages /\ c.at \in Times
    BY DEF IsStart, IsEnd, Messages, Reports
  <1>2. SameStarts(sh, sh2) /\ ~HasOpen(sh2)
    BY <1>1, ClosedTypes
  <1>3. \A n \in DOMAIN sh : sh[n].end # None => n \in DOMAIN sh2 /\ sh2[n] = sh[n]
    BY DEF ClosedAt
  <1>4. Faithful(Append(w, c), sh2)
    <2>1. ASSUME excuses = 0 /\ ~repeated
          PROVE  Matched(Append(w, c), sh2, rows) /\ Stored(sh2, rows, jobstart)
      <3>1. Matched(w, sh, rows) /\ Stored(sh, rows, jobstart)
        BY <2>1 DEF Good, Faithful
      <3>2. Matched(Append(w, c), sh2, rows)
        BY <3>1, MatchedByEnd
      <3> HIDE DEF sh2
      <3> QED BY <1>3, <3>1, <3>2, StoredOn
    <2> QED BY <2>1 DEF Faithful
  <1> HIDE DEF sh2
  <1>5. Whole(Append(w, c), sh2)
    BY <1>1, <1>2, LinedStill DEF Good, Whole
  <1>6. /\ 1 + excuses \in Nat /\ Left(sh) \in Nat /\ Left(sh2) \in Nat
        /\ Left(sh) <= Left(sh2) + 1
    BY <1>2 DEF HistTyped, Left
  <1>7. Excused(Append(w, c), sh2)
    BY <1>1, <1>6, BoundedAppend DEF Good, Excused
  <1> QED BY <1>4, <1>5, <1>7 DEF Good, sh2

(* A start that is answered is that of an interval of the sheet. *)
LEMMA AnsweredStarts ==
  ASSUME NEW s \in Seq(Messages), NEW sh, NEW i, NEW job, NEW at, Answered(s, sh, i, job, at)
  PROVE  \E n \in DOMAIN sh : sh[n].start = at
  <1> DEFINE E == EndsAfter(s, i)
  <1>1. CASE E = {}
    BY <1>1 DEF Answered
  <1>2. CASE E # {}
    <2>1. E \subseteq Nat
      BY LenProperties DEF EndsAfter
    <2>2. PICK m \in E : \A e \in E : m <= e
      <3> HIDE DEF E
      <3> QED BY <1>2, <2>1, LeastNat
    <2> QED BY <2>2 DEF Answered
  <1> QED BY <1>1, <1>2

(* A start is sent, later than every start before, when nothing is open.   *)
LEMMA GoodStart ==
  ASSUME HistTyped, rows \in Seq(Rows), NEW w \in Seq(Messages), NEW c \in Reports, IsStart(c),
         NEW sh \in Seq(Intervals), ~HasOpen(sh), \A n \in DOMAIN sh : sh[n].start < c.at,
         Good(w, sh)
  PROVE  /\ Append(sh, [job |-> c.job, start |-> c.at, end |-> None]) \in Seq(Intervals)
         /\ Good(Append(w, c), Append(sh, [job |-> c.job, start |-> c.at, end |-> None]))
  <1> DEFINE new == [job |-> c.job, start |-> c.at, end |-> None]
             sh2 == Append(sh, new)
  <1>1. /\ ~IsEnd(c) /\ c \in Messages /\ c.at \in Times
        /\ new \in Intervals /\ new.job = c.job /\ new.start = c.at /\ new.end = None
    BY DEF IsStart, IsEnd, Messages, Reports, Intervals
  <1> HIDE DEF new
  <1>2. /\ Len(sh) \in Nat /\ DOMAIN sh = 1 .. Len(sh)
        /\ sh2 \in Seq(Intervals) /\ Len(sh2) = Len(sh) + 1
        /\ \A n \in 1 .. Len(sh) : sh2[n] = sh[n]
        /\ sh2[Len(sh) + 1] = new
    BY <1>1, AppendProperties, LenProperties
  <1>3. DOMAIN sh2 = 1 .. Len(sh) + 1
    BY <1>2, LenProperties
  <1>4. \A n \in DOMAIN sh : sh[n].end # None
    BY DEF HasOpen
  <1>5. \A n \in DOMAIN sh : sh[n].start # c.at
    <2> TAKE n \in DOMAIN sh
    <2>1. sh[n] \in Intervals
      BY <1>2, ElementOfSeq
    <2>2. sh[n].start \in Int /\ c.at \in Int /\ sh[n].start < c.at
      BY <1>1, <2>1 DEF Intervals, Times
    <2> QED BY <2>2
  <1>6. Faithful(Append(w, c), sh2)
    <2>1. ASSUME excuses = 0 /\ ~repeated
          PROVE  Matched(Append(w, c), sh2, rows) /\ Stored(sh2, rows, jobstart)
      <3>1. Matched(w, sh, rows) /\ Stored(sh, rows, jobstart)
        BY <2>1 DEF Good, Faithful
      <3>2. Matched(Append(w, c), sh2, rows)
        BY <1>1, <1>4, <3>1, MatchedByStart
      <3> HIDE DEF sh2
      <3>3. \A n \in DOMAIN sh : sh[n].end # None => n \in DOMAIN sh2 /\ sh2[n] = sh[n]
        BY <1>2, <1>3
      <3> QED BY <3>1, <3>2, <3>3, StoredOn
    <2> QED BY <2>1 DEF Faithful
  <1>7. Whole(Append(w, c), sh2)
    <2>1. ASSUME excuses = 0 /\ ~repeated /\ ~harmed
          PROVE  Lined(Append(w, c), sh2, rows) /\ Exact(rows, jobstart)
      <3>1. Matched(w, sh, rows) /\ Lined(w, sh, rows) /\ Exact(rows, jobstart)
        BY <2>1 DEF Good, Faithful, Whole
      <3>2. ASSUME NEW i \in DOMAIN w, IsStart(w[i])
            PROVE  w[i].at # c.at
        <4>1. Answered(w, sh, i, w[i].job, w[i].at)
          BY <3>1, <3>2 DEF Matched
        <4>2. \E n \in DOMAIN sh : sh[n].start = w[i].at
          BY <4>1, AnsweredStarts
        <4> QED BY <1>5, <4>2
      <3>3. Len(rows) \in Nat
        BY LenProperties
      <3>4. Lined(Append(w, c), sh2, rows)
        BY <1>1, <1>5, <3>1, <3>2, <3>3, LinedByStart
      <3> QED BY <3>1, <3>4
    <2> QED BY <2>1 DEF Whole
  <1>8. HasOpen(sh2)
    <2>1. Len(sh) + 1 \in DOMAIN sh2
      BY <1>2, <1>3
    <2> QED BY <1>1, <1>2, <2>1 DEF HasOpen
  <1> HIDE DEF sh2
  <1>9. /\ 1 + excuses \in Nat /\ Left(sh) \in Nat /\ Left(sh2) \in Nat
        /\ Left(sh) + 1 <= Left(sh2) /\ Left(sh) + 1 <= 1 + excuses /\ Left(sh) <= Left(sh2)
    BY <1>8 DEF HistTyped, Left
  <1>10. Excused(Append(w, c), sh2)
    BY <1>1, <1>9, BoundedAppend DEF Good, Excused
  <1> QED BY <1>2, <1>6, <1>7, <1>10 DEF Good, sh2, new

-----------------------------------------------------------------------------
(* The starts of a sheet go up, as far as a time. *)
Rise(sh, time) ==
    /\ \A n, m \in DOMAIN sh : n < m => sh[n].start < sh[m].start
    /\ \A n \in DOMAIN sh : sh[n].start <= time

(* Nothing is stored for a session that is connected.                      *)
Flushed == status = "connected" => queue = <<>>

(* When no job is under way no interval is.                                *)
Idle == activity = None => ~HasOpen(sheet)

(* What is published goes to the end of the line, connected or not.        *)
LEMMA PublishWire ==
  ASSUME TypeOK, Flushed, NEW msgs \in Seq(Messages), Publish(msgs), down' = down
  PROVE  Wire' = Wire \o msgs /\ Flushed'
  <1>1. /\ down \in Seq(Messages) /\ up \in Seq(Messages) /\ queue \in Seq(Messages)
        /\ down \o up \in Seq(Messages)
    BY WireTyped
  <1>2. CASE status = "connected" /\ up' = up \o msgs /\ UNCHANGED <<status, queue>>
    <2>1. queue = <<>> /\ queue' = <<>>
      BY <1>2 DEF Flushed
    <2>2. Wire = down \o up
      BY <1>1, <2>1, ConcatEmptySeq DEF Wire
    <2>3. up \o msgs \in Seq(Messages) /\ down \o (up \o msgs) \in Seq(Messages)
      BY <1>1, ConcatProperties
    <2>4. Wire' = down \o (up \o msgs)
      BY <1>2, <2>1, <2>3, ConcatEmptySeq DEF Wire
    <2>5. down \o (up \o msgs) = (down \o up) \o msgs
      BY <1>1, Joined, SMTT(30)
    <2> QED BY <2>1, <2>2, <2>4, <2>5 DEF Flushed
  <1>3. CASE status # "connected" /\ queue' = queue \o msgs /\ UNCHANGED <<status, up>>
    <2>1. Wire' = (down \o up) \o (queue \o msgs)
      BY <1>3 DEF Wire
    <2>2. (down \o up) \o (queue \o msgs) = ((down \o up) \o queue) \o msgs
      <3> DEFINE d == down \o up
      <3>1. d \in Seq(Messages)
        BY <1>1
      <3> HIDE DEF d
      <3>2. (d \o queue) \o msgs = d \o (queue \o msgs)
        BY <1>1, <3>1, Joined, SMTT(30)
      <3> QED BY <3>2 DEF d
    <2> QED BY <1>3, <2>1, <2>2 DEF Wire, Flushed
  <1> QED BY <1>2, <1>3 DEF Publish

(* The two messages of a start, and those of an end.                       *)
LEMMA StartedIs ==
  ASSUME TypeOK, now < MaxTime, NEW j \in JobIds \cup {pauseId, noId}, NEW w \in Seq(Messages),
         NEW cur, cur = [kind |-> "current", job |-> j],
         NEW rep, rep = [kind |-> "report", job |-> j, at |-> now + 1]
  PROVE  /\ cur \in Messages /\ ~IsReport(cur) /\ rep \in Reports /\ rep \in Messages
         /\ rep.job = j /\ rep.at = now + 1 /\ now + 1 \in Times
         /\ j = noId => IsEnd(rep)
         /\ j # noId => IsStart(rep)
         /\ Append(w, cur) \in Seq(Messages)
         /\ w \o Started(j) = Append(Append(w, cur), rep) /\ w \o Started(j) \in Seq(Messages)
  <1>1. now + 1 \in Times
    BY JobsAssumption DEF TypeOK, Times
  <1>2. cur \in Messages /\ ~IsReport(cur)
    BY DEF Messages, Current, IsReport
  <1>3. rep \in Reports /\ IsReport(rep) /\ rep.job = j /\ rep.at = now + 1
    BY <1>1 DEF Reports, IsReport
  <1>4. rep \in Messages
    BY <1>3 DEF Messages
  <1>5. Started(j) = <<cur, rep>>
    BY DEF Started
  <1> HIDE DEF Started
  <1>6. /\ <<cur>> \in Seq(Messages) /\ <<rep>> \in Seq(Messages)
        /\ <<cur, rep>> = <<cur>> \o <<rep>>
    BY <1>2, <1>4
  <1>7. Append(w, cur) \in Seq(Messages) /\ Append(w, cur) = w \o <<cur>>
    BY <1>2, AppendProperties, AppendIsConcat
  <1>8. /\ Append(Append(w, cur), rep) = Append(w, cur) \o <<rep>>
        /\ Append(Append(w, cur), rep) \in Seq(Messages)
    BY <1>4, <1>7, AppendProperties, AppendIsConcat
  <1>9. w \o (<<cur>> \o <<rep>>) = (w \o <<cur>>) \o <<rep>>
    BY <1>6, Joined
  <1>10. w \o Started(j) = Append(Append(w, cur), rep)
    BY <1>5, <1>6, <1>7, <1>8, <1>9
  <1>11. j = noId => IsEnd(rep)
    BY <1>3 DEF IsEnd
  <1>12. j # noId => IsStart(rep)
    BY <1>3 DEF IsStart
  <1> QED BY <1>1, <1>2, <1>3, <1>4, <1>7, <1>8, <1>10, <1>11, <1>12

(* The part of a touch that ends what is under way.                        *)
LEMMA EndPart ==
  ASSUME TypeOK, HistTyped, now < MaxTime, NEW w \in Seq(Messages), Good(w, sheet)
  PROVE  /\ w \o Ended \in Seq(Messages)
         /\ Good(w \o Ended, Closed)
         /\ Closed \in Seq(Intervals) /\ SameStarts(sheet, Closed) /\ ~HasOpen(Closed)
         /\ ~HasOpen(sheet) => Closed = sheet
  <1> DEFINE cur == [kind |-> "current", job |-> noId]
             rep == [kind |-> "report", job |-> noId, at |-> now + 1]
  <1>1. sheet \in Seq(Intervals)
    BY DEF TypeOK
  <1>2. /\ cur \in Messages /\ ~IsReport(cur) /\ rep \in Reports /\ rep.at = now + 1
        /\ now + 1 \in Times /\ IsEnd(rep)
        /\ Append(w, cur) \in Seq(Messages)
        /\ w \o Started(noId) = Append(Append(w, cur), rep) /\ w \o Started(noId) \in Seq(Messages)
    BY StartedIs
  <1> HIDE DEF cur, rep
  <1>3. Good(Append(w, cur), sheet)
    BY <1>2, GoodCurrent
  <1>4. Good(Append(Append(w, cur), rep), ClosedAt(sheet, rep.at))
    BY <1>1, <1>2, <1>3, GoodEnd
  <1>5. Closed = ClosedAt(sheet, now + 1)
    BY DEF Closed, ClosedAt
  <1> QED BY <1>1, <1>2, <1>4, <1>5, ClosedTypes DEF Ended

(* The part of a touch that starts something.                              *)
LEMMA StartPart ==
  ASSUME TypeOK, HistTyped, now < MaxTime, NEW j \in JobIds \cup {pauseId}, NEW w \in Seq(Messages),
         NEW sh \in Seq(Intervals), ~HasOpen(sh), Rise(sh, now), Good(w, sh)
  PROVE  Good(w \o Started(j), Append(sh, [job |-> j, start |-> now + 1, end |-> None]))
  <1> DEFINE cur == [kind |-> "current", job |-> j]
             rep == [kind |-> "report", job |-> j, at |-> now + 1]
  <1>1. j \in JobIds \cup {pauseId, noId} /\ j # noId
    BY JobsAssumption
  <1>2. /\ cur \in Messages /\ ~IsReport(cur) /\ rep \in Reports /\ rep.at = now + 1 /\ rep.job = j
        /\ now + 1 \in Times /\ IsStart(rep)
        /\ Append(w, cur) \in Seq(Messages)
        /\ w \o Started(j) = Append(Append(w, cur), rep)
    BY <1>1, StartedIs, SMTT(30)
  <1> HIDE DEF cur, rep
  <1>3. Good(Append(w, cur), sh)
    BY <1>2, GoodCurrent
  <1>4. \A n \in DOMAIN sh : sh[n].start < rep.at
    <2> TAKE n \in DOMAIN sh
    <2>1. sh[n] \in Intervals
      BY LenProperties, ElementOfSeq
    <2>2. sh[n].start \in Int /\ sh[n].start <= now /\ now \in Int
      BY <2>1 DEF Intervals, Times, Rise, TypeOK
    <2> QED BY <1>2, <2>2
  <1>5. rows \in Seq(Rows)
    BY DEF TypeOK
  <1>6. Good(Append(Append(w, cur), rep),
              Append(sh, [job |-> rep.job, start |-> rep.at, end |-> None]))
    BY <1>2, <1>3, <1>4, <1>5, GoodStart
  <1> QED BY <1>2, <1>6

(* To close an interval moves no start.                                    *)
LEMMA RiseClosed ==
  ASSUME TypeOK, Rise(sheet, now), SameStarts(sheet, Closed)
  PROVE  Rise(Closed, now) /\ Rise(Closed, now + 1)
  <1>1. Rise(Closed, now)
    BY DEF Rise, SameStarts
  <1>2. ASSUME NEW n \in DOMAIN Closed PROVE Closed[n].start <= now + 1
    <2>1. n \in DOMAIN sheet /\ sheet[n] \in Intervals /\ Closed[n].start = sheet[n].start
      BY LenProperties, ElementOfSeq DEF SameStarts, TypeOK
    <2>2. Closed[n].start \in Int /\ now \in Int /\ Closed[n].start <= now
      BY <1>1, <2>1 DEF Intervals, Times, TypeOK, Rise
    <2> QED BY <2>2
  <1> QED BY <1>1, <1>2 DEF Rise

(* An interval that is opened is the latest.                               *)
LEMMA RiseStarted ==
  ASSUME TypeOK, now < MaxTime, NEW sh \in Seq(Intervals), Rise(sh, now),
         NEW j \in JobIds \cup {pauseId}
  PROVE  Rise(Append(sh, [job |-> j, start |-> now + 1, end |-> None]), now + 1)
  <1> DEFINE new == [job |-> j, start |-> now + 1, end |-> None]
             sh2 == Append(sh, new)
  <1>1. now \in Int /\ now + 1 \in Times /\ new \in Intervals /\ new.start = now + 1
    BY JobsAssumption DEF TypeOK, Times, Intervals
  <1> HIDE DEF new
  <1>2. /\ Len(sh) \in Nat /\ DOMAIN sh = 1 .. Len(sh)
        /\ sh2 \in Seq(Intervals) /\ Len(sh2) = Len(sh) + 1
        /\ \A n \in 1 .. Len(sh) : sh2[n] = sh[n]
        /\ sh2[Len(sh) + 1] = new
    BY <1>1, AppendProperties, LenProperties
  <1>3. DOMAIN sh2 = 1 .. Len(sh) + 1
    BY <1>2, LenProperties
  <1> HIDE DEF sh2
  <1>4. \A n \in 1 .. Len(sh) : sh2[n].start \in Int /\ sh2[n].start <= now
    <2> TAKE n \in 1 .. Len(sh)
    <2>1. sh[n] \in Intervals /\ sh2[n] = sh[n]
      BY <1>2, ElementOfSeq
    <2> QED BY <1>2, <2>1 DEF Intervals, Times, Rise
  <1>5. ASSUME NEW n \in DOMAIN sh2 PROVE sh2[n].start <= now + 1
    <2>1. CASE n \in 1 .. Len(sh)
      BY <1>1, <1>4, <2>1
    <2>2. CASE n = Len(sh) + 1
      BY <1>1, <1>2, <2>2
    <2> QED BY <1>2, <1>3, <2>1, <2>2
  <1>6. ASSUME NEW n \in DOMAIN sh2, NEW m \in DOMAIN sh2, n < m
        PROVE  sh2[n].start < sh2[m].start
    <2>1. CASE m \in 1 .. Len(sh)
      <3>1. n \in 1 .. Len(sh)
        BY <1>2, <1>3, <1>6, <2>1
      <3> QED BY <1>2, <1>6, <2>1, <3>1 DEF Rise
    <2>2. CASE m = Len(sh) + 1
      <3>1. n \in 1 .. Len(sh)
        BY <1>2, <1>3, <1>6, <2>2
      <3> QED BY <1>1, <1>2, <1>4, <2>2, <3>1
    <2> QED BY <1>2, <1>3, <2>1, <2>2
  <1> QED BY <1>5, <1>6 DEF Rise, sh2, new

-----------------------------------------------------------------------------
(* The worker's touches.                                                   *)
(* What the invariant needs beside Good.                                   *)
Rest == HistTyped /\ Flushed /\ Idle /\ Rise(sheet, now) /\ Deaf

(* What all touches have in common.                                        *)
LEMMA TouchRest ==
  ASSUME TypeOK, Rest, Touching, NEW msgs \in Seq(Messages), Publish(msgs)
  PROVE  /\ Wire' = Wire \o msgs /\ Flushed' /\ HistTyped' /\ Deaf' /\ now' = now + 1
         /\ now < MaxTime
         /\ Good(Wire', sheet') => Good(Wire, sheet)'
  <1>1. /\ now < MaxTime /\ now' = now + 1 /\ stale' = FALSE
        /\ UNCHANGED <<down, jobstart, rows, excuses, repeated, harmed>>
    BY DEF Touching, o2sVars
  <1>2. Wire' = Wire \o msgs /\ Flushed'
    BY <1>1, PublishWire DEF Rest
  <1>3. HistTyped' /\ Deaf'
    BY <1>1 DEF HistTyped, Deaf, Rest
  <1>4. Good(Wire', sheet') => Good(Wire, sheet)'
    BY <1>1 DEF Good, Faithful, Whole, Excused, Left
  <1> QED BY <1>1, <1>2, <1>3, <1>4

(* A job is started.                                                       *)
LEMMA StartJobGood ==
  ASSUME TypeOK, Rest, Good(Wire, sheet), NEW j \in JobIds, startJob(j)
  PROVE  Rest' /\ Good(Wire, sheet)'
  <1>1. /\ Touching /\ activity = None /\ Publish(Started(j)) /\ Note(j) /\ now < MaxTime
        /\ activity' = [job |-> j, running |-> TRUE]
    BY DEF startJob, Touch, Touching
  <1>2. Started(j) \in Seq(Messages)
    BY <1>1, StartedTyped, Parts
  <1>3. /\ Wire' = Wire \o Started(j) /\ Flushed' /\ HistTyped' /\ Deaf' /\ now' = now + 1
        /\ Good(Wire', sheet') => Good(Wire, sheet)'
    BY <1>1, <1>2, TouchRest
  <1>4. /\ Wire \in Seq(Messages) /\ HistTyped /\ Rise(sheet, now) /\ ~HasOpen(sheet)
        /\ sheet \in Seq(Intervals)
    BY <1>1, WireTyped DEF Rest, Idle, TypeOK
  <1>5. Closed = sheet
    BY <1>1, <1>4, EndPart
  <1>6. j # noId /\ j \in JobIds \cup {pauseId}
    BY JobsAssumption
  <1>7. sheet' = Append(sheet, [job |-> j, start |-> now + 1, end |-> None])
    BY <1>1, <1>5, <1>6 DEF Note
  <1>8. Good(Wire \o Started(j), sheet')
    BY <1>1, <1>4, <1>6, <1>7, StartPart
  <1>9. Rise(sheet', now')
    BY <1>1, <1>3, <1>4, <1>6, <1>7, RiseStarted
  <1>10. activity' # None
    BY <1>1, JobsAreNotNone
  <1> QED BY <1>3, <1>8, <1>9, <1>10 DEF Rest, Idle

(* One thing is ended and another started: a job resumed, or paused with   *)
(* something to stand for the pause.                                       *)
LEMMA EndAndStart ==
  ASSUME TypeOK, Rest, Good(Wire, sheet), Touching, NEW j \in JobIds \cup {pauseId},
         Publish(Ended \o Started(j)), Note(j), activity' # None
  PROVE  Rest' /\ Good(Wire, sheet)'
  <1>1. now < MaxTime /\ BookTyped /\ Wire \in Seq(Messages) /\ HistTyped /\ Rise(sheet, now)
        /\ sheet \in Seq(Intervals)
    BY Parts, WireTyped DEF Touching, Rest, TypeOK
  <1>2. Ended \in Seq(Messages) /\ Started(j) \in Seq(Messages)
        /\ Ended \o Started(j) \in Seq(Messages)
    BY <1>1, EndedTyped, StartedTyped, ConcatProperties
  <1>3. /\ Wire' = Wire \o (Ended \o Started(j)) /\ Flushed' /\ HistTyped' /\ Deaf' /\ now' = now + 1
        /\ Good(Wire', sheet') => Good(Wire, sheet)'
    BY <1>2, TouchRest
  <1>4. Wire \o (Ended \o Started(j)) = (Wire \o Ended) \o Started(j)
    BY <1>1, <1>2, Joined
  <1>5. /\ Wire \o Ended \in Seq(Messages) /\ Good(Wire \o Ended, Closed)
        /\ Closed \in Seq(Intervals) /\ SameStarts(sheet, Closed) /\ ~HasOpen(Closed)
    BY <1>1, EndPart
  <1>6. Rise(Closed, now)
    BY <1>1, <1>5, RiseClosed
  <1>7. sheet' = Append(Closed, [job |-> j, start |-> now + 1, end |-> None])
    BY JobsAssumption DEF Note
  <1>8. Good((Wire \o Ended) \o Started(j), sheet')
    BY <1>1, <1>5, <1>6, <1>7, StartPart
  <1>9. Rise(sheet', now')
    BY <1>1, <1>3, <1>5, <1>6, <1>7, RiseStarted
  <1> QED BY <1>3, <1>4, <1>8, <1>9 DEF Rest, Idle

(* Something is ended: a job stopped, or paused with nothing to stand for  *)
(* it.                                                                     *)
LEMMA EndAlone ==
  ASSUME TypeOK, Rest, Good(Wire, sheet), Touching, Publish(Ended), Note(noId)
  PROVE  Rest' /\ Good(Wire, sheet)'
  <1>1. now < MaxTime /\ BookTyped /\ Wire \in Seq(Messages) /\ HistTyped /\ Rise(sheet, now)
    BY Parts, WireTyped DEF Touching, Rest
  <1>2. Ended \in Seq(Messages)
    BY <1>1, EndedTyped
  <1>3. /\ Wire' = Wire \o Ended /\ Flushed' /\ HistTyped' /\ Deaf' /\ now' = now + 1
        /\ Good(Wire', sheet') => Good(Wire, sheet)'
    BY <1>2, TouchRest
  <1>4. Good(Wire \o Ended, Closed) /\ SameStarts(sheet, Closed) /\ ~HasOpen(Closed)
    BY <1>1, EndPart
  <1>5. sheet' = Closed
    BY DEF Note
  <1>6. Rise(sheet', now')
    BY <1>1, <1>3, <1>4, <1>5, RiseClosed
  <1> QED BY <1>3, <1>4, <1>5, <1>6 DEF Rest, Idle

(* A touch that is cut short leaves the activity halted.                   *)
LEMMA HaltedIs ==
  ASSUME TypeOK, CutShort
  PROVE  activity' # None /\ ~activity'.running
  <1>1. activity \in Activities
    BY DEF CutShort, TypeOK
  <1>2. activity' = [job |-> activity.job, running |-> FALSE] /\ activity.job \in JobIds
    BY <1>1 DEF CutShort, Activities
  <1> QED BY <1>2, JobsAreNotNone

(* Every touch of the worker keeps the invariant.                          *)
LEMMA WorkerGood ==
  ASSUME TypeOK, Rest, Good(Wire, sheet), Worker
  PROVE  Rest' /\ Good(Wire, sheet)'
  <1>1. CASE \E j \in JobIds : startJob(j)
    BY <1>1, StartJobGood
  <1>2. CASE Resume
    <2>1. /\ activity.job \in JobIds /\ activity \in Activities
          /\ activity' = [job |-> activity.job, running |-> TRUE]
      BY <1>2 DEF Resume, TypeOK, Activities
    <2>2. activity' # None
      BY <2>1, JobsAreNotNone
    <2> QED BY <1>2, <2>1, <2>2, EndAndStart DEF Resume, Touch
  <1>3. CASE pause
    <2>1. /\ activity.job \in JobIds /\ activity \in Activities
          /\ activity' = [job |-> activity.job, running |-> FALSE]
      BY <1>3 DEF pause, TypeOK, Activities
    <2>2. activity' # None
      BY <2>1, JobsAreNotNone
    <2>3. CASE pausable
      BY <1>3, <2>2, <2>3, EndAndStart DEF pause, Touch
    <2>4. CASE ~pausable
      <3>1. Ended \o <<>> = Ended
        <4>1. Ended \in Seq(Messages)
          BY <1>3, EndedTyped, Parts DEF pause, Touch, Touching
        <4> QED BY <4>1, ConcatEmptySeq
      <3> QED BY <1>3, <2>4, <3>1, EndAlone DEF pause, Touch
    <2> QED BY <2>3, <2>4
  <1>4. CASE stop
    BY <1>4, EndAlone DEF stop, Touch
  <1>5. CASE CutShort
    <2>1. activity' # None
      BY <1>5, HaltedIs
    <2> QED BY <1>5, <2>1, EndAlone, EndAndStart DEF CutShort
  <1> QED BY <1>1, <1>2, <1>3, <1>4, <1>5 DEF Worker

-----------------------------------------------------------------------------
(* The invariant is inductive.                                             *)
TableInv == Inv /\ Rest /\ Good(Wire, sheet)

(* At the start nothing is under way, and the table and the sheet are      *)
(* empty.                                                                  *)
LEMMA TableInit == Init => TableInv
  <1> SUFFICES ASSUME Init PROVE TableInv
    OBVIOUS
  <1>1. Inv
    BY InvInit
  <1>2. /\ down = <<>> /\ up = <<>> /\ queue = <<>> /\ rows = <<>> /\ sheet = <<>> /\ jobstart = None
        /\ excuses = 0 /\ ~repeated /\ ~harmed /\ ~stale /\ status = "connecting"
        /\ HistTyped /\ Deaf
    BY DEF Init, HistTyped, Deaf
  <1>3. ~HasOpen(sheet) /\ Rise(sheet, now)
    BY <1>2 DEF HasOpen, Rise
  <1>4. Rest
    BY <1>2, <1>3 DEF Rest, Flushed, Idle
  <1>5. <<>> \in Seq(Messages) /\ Len(<<>>) = 0 /\ DOMAIN <<>> = {}
    OBVIOUS
  <1>6. Wire = <<>>
    <2>1. <<>> \o <<>> = <<>>
      BY <1>5, ConcatEmptySeq
    <2> QED BY <1>2, <2>1 DEF Wire
  <1>7. Matched(<<>>, <<>>, <<>>) /\ Stored(<<>>, <<>>, None) /\ Exact(<<>>, None)
    BY <1>5 DEF Matched, Stored, Exact
  <1>8. Lined(<<>>, <<>>, <<>>)
    BY <1>5 DEF Lined, Follows, StartsAfter
  <1>9. Bounded(<<>>, <<>>, 1, 0)
    <2> DEFINE N == [k \in 0 .. 0 |-> 0]
    <2>1. N \in [0 .. Len(<<>>) -> 0 .. 1] /\ N[0] = 0 /\ N[Len(<<>>)] = 0
      BY <1>5
    <2>2. 1 .. Len(<<>>) = {}
      BY <1>5
    <2>3. Rising(N, <<>>, 1)
      BY <2>1, <2>2 DEF Rising
    <2>4. Count(<<>>, IsOpen) = 0
      <3>1. {k \in DOMAIN <<>> : IsOpen(<<>>[k])} = {}
        BY <1>5
      <3> QED BY <3>1, FS_EmptySet DEF Count
    <2> HIDE DEF N
    <2>5. Count(<<>>, IsOpen) <= N[0] /\ N[Len(<<>>)] <= 0
      BY <2>1, <2>4
    <2> QED BY <2>3, <2>5 DEF Bounded
  <1>10. 1 + excuses = 1 /\ Left(sheet) = 0
    BY <1>2, <1>3 DEF Left
  <1>11. Good(Wire, sheet)
    BY <1>2, <1>6, <1>7, <1>8, <1>9, <1>10 DEF Good, Faithful, Whole, Excused
  <1> QED BY <1>1, <1>4, <1>11 DEF TableInv

(* What the worker, a repeated report and a report that is handled do not  *)
(* account for thins what is under way.                                    *)
LEMMA OthersThin ==
  ASSUME TypeOK, Truth, HistTyped, [Next]_vars, ~Worker, ~checkTxFlows, ~on_currentjob
  PROVE  Thinned
  <1>1. CASE App
    BY <1>1, QueueDropped, RestDropped, SessionDropped, QueueSent DEF App
  <1>2. CASE BrokerReceives
    BY <1>2, BrokerThins
  <1>3. CASE O2s
    BY <1>3, O2sThins DEF O2s
  <1>4. CASE UNCHANGED vars
    <2>1. Wire' = Wire /\ UNCHANGED <<activity, history, rows, jobstart, sheet, now>>
      BY <1>4 DEF vars, appVars, linkVars, o2sVars, Wire
    <2> QED BY <2>1, NothingLost
  <1> QED BY <1>1, <1>2, <1>3, <1>4 DEF Next

(* Nothing is stored for a session that is connected. *)
LEMMA StaysFlushed ==
  ASSUME Flushed, [Next]_vars, ~Worker
  PROVE  Flushed'
  <1>1. CASE App
    BY <1>1 DEF App, applicationDidBecomeActive, applicationWillResignActive, Kill, Launch,
                reconnect, connected, ConnectionLost, newMessage, checkTxFlows, Connect, Break,
                Flushed, linkVars
  <1>2. CASE BrokerReceives
    BY <1>2 DEF BrokerReceives, Flushed
  <1>3. CASE O2s
    BY <1>3 DEF O2s, on_currentjob, StoreStartFails, Crash, on_disconnect, on_connect, Flushed,
                linkVars
  <1>4. CASE UNCHANGED vars
    BY <1>4 DEF vars, linkVars, Flushed
  <1> QED BY <1>1, <1>2, <1>3, <1>4 DEF Next

(* A step is a touch, a repetition, a report handled, or a loss.           *)
LEMMA TableNext == TableInv /\ [Next]_vars => TableInv'
  <1> SUFFICES ASSUME TableInv, [Next]_vars PROVE TableInv'
    OBVIOUS
  <1>1. /\ Inv /\ TypeOK /\ Truth /\ Rest /\ Good(Wire, sheet)
        /\ HistTyped /\ Flushed /\ Idle /\ Rise(sheet, now) /\ Deaf
    BY DEF TableInv, Inv, Rest
  <1>2. Inv'
    BY <1>1, InvNext
  <1>3. CASE Worker
    BY <1>1, <1>2, <1>3, WorkerGood DEF TableInv
  <1>4. ASSUME ~Worker
        PROVE  Flushed'
    BY <1>1, <1>4, StaysFlushed
  <1>5. CASE checkTxFlows /\ ~Worker
    <2>1. Good(Wire, sheet)' /\ HistTyped'
      BY <1>1, <1>5, Repeated DEF Flushed
    <2>2. UNCHANGED <<activity, sheet, now, jobstart>>
      BY <1>5 DEF checkTxFlows, appVars, o2sVars
    <2>3. Idle' /\ Rise(sheet, now)' /\ Deaf'
      BY <1>1, <2>2 DEF Idle, Rise, Deaf, HasOpen
    <2> QED BY <1>2, <1>4, <1>5, <2>1, <2>3 DEF TableInv, Rest
  <1>6. CASE on_currentjob /\ ~Worker
    <2>1. Good(Wire, sheet)' /\ HistTyped' /\ Deaf'
      BY <1>1, <1>6, Handled
    <2>2. UNCHANGED <<activity, sheet, now>>
      BY <1>6 DEF on_currentjob, appVars
    <2>3. Idle' /\ Rise(sheet, now)'
      BY <1>1, <2>2 DEF Idle, Rise, HasOpen
    <2> QED BY <1>2, <1>4, <1>6, <2>1, <2>3 DEF TableInv, Rest
  <1>7. CASE ~Worker /\ ~checkTxFlows /\ ~on_currentjob
    <2>1. Thinned
      BY <1>1, <1>7, OthersThin
    <2>2. Good(Wire, sheet)'
      BY <1>1, <2>1, ThinnedGood
    <2>3. /\ HistTyped' /\ UNCHANGED <<sheet, now>>
          /\ activity' = None => activity = None
          /\ jobstart' = jobstart \/ jobstart' = None \/ jobtopic
      BY <2>1 DEF Thinned
    <2>4. Idle' /\ Rise(sheet, now)' /\ Deaf'
      BY <1>1, <2>3 DEF Idle, Rise, HasOpen, Deaf
    <2> QED BY <1>2, <1>4, <1>7, <2>2, <2>3, <2>4 DEF TableInv, Rest
  <1> QED BY <1>3, <1>5, <1>6, <1>7

(* A start that is never ended leaves a row open, and an end closes one    *)
(* row only: there are never more rows open than the one of the job that   *)
(* runs and one for each end that was lost or start that was repeated.     *)
THEOREM OpenRowsAreExcused == Spec => []OpenRowsExcused
  <1>1. TableInv => OpenRowsExcused
    <2> SUFFICES ASSUME TableInv PROVE Count(rows, IsOpen) <= 1 + excuses
      BY DEF OpenRowsExcused
    <2>1. Wire \in Seq(Messages) /\ rows \in Seq(Rows) /\ excuses \in Nat
      BY WireTyped DEF TableInv, Inv, TypeOK, Rest, HistTyped
    <2>2. PICK N : Rising(N, Wire, 1 + excuses) /\ Count(rows, IsOpen) <= N[0]
      BY DEF TableInv, Good, Excused, Bounded
    <2>3. N[0] \in 0 .. 1 + excuses
      <3>1. 0 \in 0 .. Len(Wire)
        BY <2>1, LenProperties
      <3> QED BY <2>2, <3>1 DEF Rising
    <2>4. Count(rows, IsOpen) \in Nat
      BY <2>1, OpenFinite
    <2> QED BY <2>1, <2>2, <2>3, <2>4
  <1> QED BY TableInit, TableNext, <1>1, PTL DEF Spec

(* A row that is closed is an interval the worker worked or paused, with   *)
(* its length or with none, whatever starts are lost and however often o2s *)
(* is restarted, as long as no end was lost and no report repeated.        *)
THEOREM RowsAreTruthful == Spec => []RowsTruthful
  <1>1. TableInv => RowsTruthful
    BY DEF TableInv, Good, Faithful, Stored, IntervalOf, RowsTruthful
  <1> QED BY TableInit, TableNext, <1>1, PTL DEF Spec

-----------------------------------------------------------------------------
(* When all has arrived.                                                   *)
(* No report is among them.                                                *)
NoReport(s) == \A k \in DOMAIN s : ~IsReport(s[k])

(* Count says so.                                                          *)
LEMMA NoneCounted ==
  ASSUME NEW s \in Seq(Messages)
  PROVE  Count(s, IsReport) = 0 <=> NoReport(s)
  <1>1. Len(s) \in Nat /\ 0 \in Nat /\ DOMAIN s = 1 .. Len(s) /\ Part(s, s, 0, Len(s)) /\ 0 + 1 = 1
    BY LenProperties DEF Part
  <1>2. Count(s, IsReport) \in Nat
    BY CountsOf
  <1>3. Count(s, IsReport) > 0 <=> \E k \in 0 + 1 .. Len(s) : IsReport(s[k])
    BY <1>1, PartCounts
  <1>4. Count(s, IsReport) = 0 <=> ~(Count(s, IsReport) > 0)
    BY <1>2
  <1> QED BY <1>1, <1>3, <1>4 DEF NoReport

(* Two sequences hold none when neither does.                              *)
LEMMA NoReportConcat ==
  ASSUME NEW s \in Seq(Messages), NEW t \in Seq(Messages)
  PROVE  NoReport(s \o t) <=> NoReport(s) /\ NoReport(t)
  <1> DEFINE u == s \o t
  <1>1. /\ u \in Seq(Messages) /\ Len(s) \in Nat /\ Len(t) \in Nat /\ Len(u) = Len(s) + Len(t)
        /\ \A i \in 1 .. Len(s) + Len(t) : u[i] = IF i <= Len(s) THEN s[i] ELSE t[i - Len(s)]
    BY ConcatProperties, LenProperties
  <1> HIDE DEF u
  <1>2. DOMAIN u = 1 .. Len(s) + Len(t) /\ DOMAIN s = 1 .. Len(s) /\ DOMAIN t = 1 .. Len(t)
    BY <1>1, LenProperties
  <1>3. ASSUME NEW i \in DOMAIN s PROVE i \in DOMAIN u /\ u[i] = s[i]
    BY <1>1, <1>2
  <1>4. ASSUME NEW i \in DOMAIN t PROVE Len(s) + i \in DOMAIN u /\ u[Len(s) + i] = t[i]
    <2>1. Len(s) + i \in 1 .. Len(s) + Len(t) /\ ~(Len(s) + i <= Len(s)) /\ (Len(s) + i) - Len(s) = i
      BY <1>1, <1>2
    <2> QED BY <1>1, <1>2, <2>1
  <1>5. ASSUME NEW i \in DOMAIN u
        PROVE  \/ i \in DOMAIN s /\ u[i] = s[i]
               \/ i - Len(s) \in DOMAIN t /\ u[i] = t[i - Len(s)]
    BY <1>1, <1>2
  <1>6. NoReport(u) <=> NoReport(s) /\ NoReport(t)
    BY <1>3, <1>4, <1>5 DEF NoReport
  <1> QED BY <1>6 DEF u

(* The order in which RowsComplete looks at the line does not matter.      *)
LEMMA NothingOnTheWay ==
  ASSUME TypeOK, Count(queue \o up \o down, IsReport) = 0
  PROVE  NoReport(Wire)
  <1>1. down \in Seq(Messages) /\ up \in Seq(Messages) /\ queue \in Seq(Messages)
        /\ down \o up \in Seq(Messages)
    BY WireTyped
  <1>2. queue \o up \in Seq(Messages) /\ queue \o up \o down \in Seq(Messages)
    BY <1>1, ConcatProperties
  <1>3. NoReport(queue \o up \o down)
    BY <1>2, NoneCounted
  <1>4. NoReport(queue \o up) /\ NoReport(down)
    BY <1>1, <1>2, <1>3, NoReportConcat
  <1>5. NoReport(queue) /\ NoReport(up)
    BY <1>1, <1>4, NoReportConcat
  <1>6. NoReport(down \o up)
    BY <1>1, <1>4, <1>5, NoReportConcat
  <1> QED BY <1>1, <1>5, <1>6, NoReportConcat DEF Wire

(* When nothing is lost, repeated or restarted, and all has arrived, the   *)
(* table is the worker's time sheet.                                       *)
THEOREM RowsAreComplete == Spec => []RowsComplete
  <1>1. TableInv => RowsComplete
    <2> DEFINE duration(k) == IF sheet[k].end = None \/ ~jobtopic THEN None
                              ELSE sheet[k].end - sheet[k].start
               row(k) == [job |-> sheet[k].job, start |-> sheet[k].start, end |-> sheet[k].end,
                          duration |-> duration(k)]
    <2> SUFFICES ASSUME TableInv, excuses = 0, ~repeated, ~harmed,
                        Count(queue \o up \o down, IsReport) = 0
                 PROVE  rows = [k \in DOMAIN sheet |-> row(k)]
      BY DEF RowsComplete
    <2>1. /\ TypeOK /\ rows \in Seq(Rows) /\ sheet \in Seq(Intervals)
          /\ \A k \in DOMAIN rows : rows[k].end = None => rows[k].duration = None
          /\ Rise(sheet, now)
      BY DEF TableInv, Inv, TypeOK, Rest
    <2>2. /\ Matched(Wire, sheet, rows) /\ Stored(sheet, rows, jobstart)
          /\ Lined(Wire, sheet, rows) /\ Exact(rows, jobstart)
      BY DEF TableInv, Good, Faithful, Whole
    <2>3. EndsAfter(Wire, 0) = {} /\ StartsAfter(Wire, 0) = {}
      BY <2>1, NothingOnTheWay DEF NoReport, EndsAfter, StartsAfter, IsEnd, IsStart
    <2>4. Len(rows) = Len(sheet)
      BY <2>2, <2>3 DEF Lined, Follows
    <2>5. /\ DOMAIN rows = 1 .. Len(rows) /\ DOMAIN sheet = 1 .. Len(sheet) /\ Len(sheet) \in Nat
          /\ \A k \in DOMAIN rows : rows[k] \in Rows
          /\ \A k \in DOMAIN sheet : sheet[k] \in Intervals
          /\ rows \in [1 .. Len(rows) -> Rows]
      BY <2>1, LenProperties, ElementOfSeq
    <2>6. ASSUME NEW k \in DOMAIN sheet, NEW n \in DOMAIN sheet, sheet[n].start = sheet[k].start
          PROVE  n = k
      <3>1. n \in Int /\ k \in Int /\ sheet[n].start \in Int /\ sheet[k].start \in Int
        BY <2>5 DEF Intervals, Times
      <3>2. /\ n < k => sheet[n].start < sheet[k].start
            /\ k < n => sheet[k].start < sheet[n].start
        BY <2>1 DEF Rise
      <3> QED BY <2>6, <3>1, <3>2
    <2>7. ASSUME NEW k \in DOMAIN sheet PROVE rows[k] = row(k)
      <3>1. /\ k \in DOMAIN rows /\ rows[k] \in Rows
            /\ rows[k].job = sheet[k].job /\ rows[k].start = sheet[k].start
        BY <2>2, <2>4, <2>5 DEF Lined
      <3>2. CASE IsOpen(rows[k])
        <4>1. Answered(Wire, sheet, 0, rows[k].job, rows[k].start)
          BY <2>2, <3>1, <3>2 DEF Matched
        <4>2. PICK n \in DOMAIN sheet :
                 sheet[n] = [job |-> rows[k].job, start |-> rows[k].start, end |-> None]
          BY <2>3, <4>1 DEF Answered
        <4>3. n = k
          BY <2>6, <3>1, <4>2
        <4>4. sheet[k].end = None /\ rows[k].end = None /\ rows[k].duration = None
          BY <2>1, <3>1, <3>2, <4>2, <4>3 DEF IsOpen
        <4> QED BY <3>1, <4>4 DEF Rows
      <3>3. CASE ~IsOpen(rows[k])
        <4>1. IntervalOf(sheet, rows[k])
          BY <2>2, <3>1, <3>3 DEF Stored
        <4>2. PICK n \in DOMAIN sheet : sheet[n].start = rows[k].start /\ sheet[n].end = rows[k].end
          BY <4>1 DEF IntervalOf
        <4>3. n = k
          BY <2>6, <3>1, <4>2
        <4>4. sheet[k].end = rows[k].end /\ sheet[k].end # None
          BY <3>3, <4>2, <4>3 DEF IsOpen
        <4>5. rows[k].duration = IF jobtopic THEN rows[k].end - rows[k].start ELSE None
          BY <2>2, <3>1, <3>3 DEF Exact
        <4> QED BY <3>1, <4>4, <4>5 DEF Rows
      <3> QED BY <3>2, <3>3
    <2> HIDE DEF row
    <2> QED BY <2>4, <2>5, <2>7
  <1> QED BY TableInit, TableNext, <1>1, PTL DEF Spec

-----------------------------------------------------------------------------
(* What is retained.                                                       *)
NoCurrent(s) == \A k \in DOMAIN s : IsReport(s[k])

(* What will be retained once s has arrived, when it is r now, is j. *)
Settles(s, r, j) ==
    \/ j = r /\ NoCurrent(s)
    \/ \E k \in DOMAIN s : /\ ~IsReport(s[k]) /\ s[k].job = j
                           /\ \A i \in DOMAIN s : k < i => IsReport(s[i])

(* s, sent over r, tells what act is, or that it ended at und.             *)
Shown(s, r, act, und) ==
    /\ act = None => Settles(s, r, noId)
    /\ act # None /\ act.running /\ und = None => Settles(s, r, act.job)
    /\ act # None /\ ~(act.running /\ und = None) =>
          Settles(s, r, noId) \/ Settles(s, r, pauseId)

(* What is under way to the broker.                                        *)
Pending == up \o queue

(* Shown is what RetainedTruthful says.                                    *)
LEMMA RetainedIs ==
  ASSUME ~stale => Shown(Pending, retained, activity, undone)
  PROVE  RetainedTruthful
  <1>1. \A j : Settles(Pending, retained, j) <=> Coming(j)
    BY DEF Settles, NoCurrent, Coming, Pending
  <1> SUFFICES ASSUME ~stale
               PROVE  CASE activity = None -> Coming(noId)
                        [] activity # None /\ activity.running /\ undone = None ->
                              Coming(activity.job)
                        [] OTHER -> Coming(noId) \/ Coming(pauseId)
    BY DEF RetainedTruthful
  <1>2. CASE activity = None
    BY <1>1, <1>2 DEF Shown
  <1>3. CASE activity # None /\ activity.running /\ undone = None
    BY <1>1, <1>3 DEF Shown
  <1>4. CASE activity # None /\ ~(activity.running /\ undone = None)
    BY <1>1, <1>4 DEF Shown
  <1> QED BY <1>2, <1>3, <1>4

(* The test of Lose.                                                       *)
LEMMA NoCurrentOf ==
  ASSUME NEW y \in Seq(Messages), ~(Count(y, IsReport) < Len(y))
  PROVE  NoCurrent(y)
  <1>1. Len(y) \in Nat /\ 0 \in Nat /\ DOMAIN y = 1 .. Len(y) /\ Part(y, y, 0, Len(y)) /\ 0 + 1 = 1
    BY LenProperties DEF Part
  <1>2. Count(y, IsReport) < Len(y) <=> \E k \in 0 + 1 .. Len(y) : ~IsReport(y[k])
    BY <1>1, PartCounts
  <1> QED BY <1>1, <1>2 DEF NoCurrent

(* When only reports are lost the last of the others is the same.          *)
LEMMA LastCut ==
  ASSUME NEW x \in Seq(Messages), NEW y \in Seq(Messages), NEW z \in Seq(Messages), NoCurrent(y),
         NEW r, NEW j, Settles(x \o y \o z, r, j)
  PROVE  Settles(x \o z, r, j)
  <1> DEFINE s == x \o y \o z
             t == x \o z
             a == Len(x)
             b == Len(x) + Len(y)
  <1>1. /\ s \in Seq(Messages) /\ t \in Seq(Messages) /\ a \in Nat /\ b \in Nat
        /\ Cut(s, t, a, b) /\ Part(y, s, a, b)
    BY Cutting
  <1> HIDE DEF s, t, a, b
  <1>2. PICK g : /\ Embeds(g, s, t) /\ g[0] = 0
                 /\ \A m \in DOMAIN s : m \notin a + 1 .. b => \E k \in DOMAIN t : m = g[k]
    BY <1>1, CutEmbeds
  <1>3. /\ Len(t) \in Nat /\ DOMAIN t = 1 .. Len(t)
        /\ \A k \in 1 .. Len(t) : g[k] \in DOMAIN s /\ t[k] = s[g[k]]
        /\ \A k, l \in 0 .. Len(t) : k < l <=> g[k] < g[l]
    BY <1>1, <1>2, Order
  <1>4. \A m \in a + 1 .. b : IsReport(s[m])
    <2> TAKE m \in a + 1 .. b
    <2>1. /\ Len(y) \in Nat /\ DOMAIN y = 1 .. Len(y) /\ Len(y) = b - a
          /\ \A k \in 1 .. Len(y) : y[k] = s[a + k]
      BY <1>1, LenProperties DEF Part
    <2>2. m - a \in 1 .. Len(y) /\ a + (m - a) = m
      BY <1>1, <2>1
    <2> QED BY <2>1, <2>2 DEF NoCurrent
  <1>5. Settles(s, r, j)
    BY DEF s
  <1>6. CASE j = r /\ NoCurrent(s)
    BY <1>3, <1>6 DEF Settles, NoCurrent, t
  <1>7. ASSUME NEW m \in DOMAIN s, ~IsReport(s[m]), s[m].job = j,
               \A i \in DOMAIN s : m < i => IsReport(s[i])
        PROVE  Settles(t, r, j)
    <2>1. PICK k \in DOMAIN t : m = g[k]
      BY <1>2, <1>4, <1>7
    <2>2. ~IsReport(t[k]) /\ t[k].job = j
      BY <1>3, <1>7, <2>1
    <2>3. ASSUME NEW i \in DOMAIN t, k < i PROVE IsReport(t[i])
      <3>1. i \in 0 .. Len(t) /\ k \in 0 .. Len(t)
        BY <1>3
      <3>2. g[k] < g[i] /\ g[i] \in DOMAIN s /\ t[i] = s[g[i]]
        BY <1>3, <2>3, <3>1
      <3> QED BY <1>7, <2>1, <3>2
    <2> QED BY <2>2, <2>3 DEF Settles
  <1> QED BY <1>5, <1>6, <1>7 DEF Settles, t

(* A report that is sent changes nothing of it.                            *)
LEMMA LastAppend ==
  ASSUME NEW s \in Seq(Messages), NEW m \in Messages, IsReport(m), NEW r, NEW j, Settles(s, r, j)
  PROVE  Settles(Append(s, m), r, j)
  <1> DEFINE t == Append(s, m)
  <1>1. /\ Len(s) \in Nat /\ DOMAIN s = 1 .. Len(s) /\ DOMAIN t = 1 .. Len(s) + 1
        /\ \A k \in 1 .. Len(s) : t[k] = s[k]
        /\ t[Len(s) + 1] = m
    BY AppendedTo
  <1> HIDE DEF t
  <1>2. \A k \in DOMAIN t : (k \in DOMAIN s /\ t[k] = s[k]) \/ IsReport(t[k])
    BY <1>1
  <1>3. \A k \in DOMAIN s : k \in DOMAIN t /\ t[k] = s[k]
    BY <1>1
  <1> QED BY <1>2, <1>3 DEF Settles, NoCurrent, t

(* The broker reads the first: a report changes nothing, anything else is  *)
(* retained.                                                               *)
LEMMA LastRead ==
  ASSUME NEW s \in Seq(Messages), s # <<>>, NEW r, NEW j, Settles(s, r, j)
  PROVE  Settles(Tail(s), IF IsReport(s[1]) THEN r ELSE s[1].job, j)
  <1> DEFINE t == Tail(s)
             r2 == IF IsReport(s[1]) THEN r ELSE s[1].job
  <1>1. /\ t \in Seq(Messages) /\ Len(s) \in Nat /\ Len(t) \in Nat /\ Len(s) = Len(t) + 1
        /\ DOMAIN s = 1 .. Len(s) /\ DOMAIN t = 1 .. Len(t)
        /\ \A i \in 1 .. Len(t) : t[i] = s[i + 1]
    BY HeadTailProperties, LenProperties, EmptySeq
  <1> HIDE DEF t
  <1>2. \A i \in DOMAIN t : i + 1 \in DOMAIN s /\ t[i] = s[i + 1]
    BY <1>1
  <1>3. CASE j = r /\ NoCurrent(s)
    <2>1. NoCurrent(t) /\ IsReport(s[1])
      BY <1>1, <1>2, <1>3 DEF NoCurrent
    <2> QED BY <1>3, <2>1 DEF Settles, t
  <1>4. ASSUME NEW k \in DOMAIN s, ~IsReport(s[k]), s[k].job = j,
               \A i \in DOMAIN s : k < i => IsReport(s[i])
        PROVE  Settles(t, r2, j)
    <2>1. CASE k = 1
      <3>1. NoCurrent(t)
        <4>1. \A i \in DOMAIN t : 1 < i + 1
          BY <1>1
        <4> QED BY <1>2, <1>4, <2>1, <4>1 DEF NoCurrent
      <3> QED BY <1>4, <2>1, <3>1 DEF Settles
    <2>2. CASE k # 1
      <3>1. k - 1 \in DOMAIN t /\ (k - 1) + 1 = k
        BY <1>1, <2>2
      <3>2. t[k - 1] = s[k]
        BY <1>2, <3>1
      <3>3. ASSUME NEW i \in DOMAIN t, k - 1 < i PROVE IsReport(t[i])
        <4>1. k < i + 1
          BY <1>1, <3>3
        <4> QED BY <1>2, <1>4, <4>1
      <3> QED BY <1>4, <3>1, <3>2, <3>3 DEF Settles
    <2> QED BY <2>1, <2>2
  <1> QED BY <1>3, <1>4 DEF Settles, t

(* The messages of a touch settle what will be retained.                   *)
LEMMA LastStarted ==
  ASSUME TypeOK, now < MaxTime, NEW j \in JobIds \cup {pauseId, noId}, NEW w \in Seq(Messages), NEW r
  PROVE  w \o Started(j) \in Seq(Messages) /\ Settles(w \o Started(j), r, j)
  <1> DEFINE cur == [kind |-> "current", job |-> j]
             rep == [kind |-> "report", job |-> j, at |-> now + 1]
             v   == Append(w, cur)
  <1>1. /\ cur \in Messages /\ ~IsReport(cur) /\ rep \in Reports /\ rep \in Messages
        /\ v \in Seq(Messages)
        /\ w \o Started(j) = Append(v, rep) /\ w \o Started(j) \in Seq(Messages)
    BY StartedIs
  <1>2. cur.job = j /\ IsReport(rep)
    BY DEF IsReport
  <1> HIDE DEF cur, rep
  <1>3. /\ Len(w) \in Nat /\ DOMAIN v = 1 .. Len(w) + 1 /\ v[Len(w) + 1] = cur
    BY <1>1, AppendedTo
  <1> HIDE DEF v
  <1>4. Settles(v, r, j)
    <2>1. Len(w) + 1 \in DOMAIN v /\ \A i \in DOMAIN v : ~(Len(w) + 1 < i)
      BY <1>3
    <2> QED BY <1>1, <1>2, <1>3, <2>1 DEF Settles
  <1>5. Settles(Append(v, rep), r, j)
    BY <1>1, <1>2, <1>4, LastAppend
  <1> QED BY <1>1, <1>5

(* What settles the same shows the same.                                   *)
LEMMA ShownOn ==
  ASSUME NEW s, NEW r, NEW t, NEW q, \A j : Settles(s, r, j) => Settles(t, q, j),
         NEW act, NEW und, Shown(s, r, act, und)
  PROVE  Shown(t, q, act, und)
  BY DEF Shown

-----------------------------------------------------------------------------
(* What the steps do to it.                                                *)
(* The invariant: unless it is stale, what is pending tells what the       *)
(* activity is.                                                            *)
Known == ~stale => Shown(Pending, retained, activity, undone)

(* A loss leaves it told, or stale.                                        *)
LEMMA PendingLost ==
  ASSUME Known, NEW x \in Seq(Messages), NEW y \in Seq(Messages), NEW z \in Seq(Messages),
         Pending = x \o y \o z, Pending' = x \o z, Lose(y)
  PROVE  ~stale' => Shown(Pending', retained, activity, undone) /\ ~stale
  <1> SUFFICES ASSUME ~stale' PROVE Shown(Pending', retained, activity, undone) /\ ~stale
    OBVIOUS
  <1>1. ~stale /\ ~(Count(y, IsReport) < Len(y))
    BY DEF Lose
  <1>2. NoCurrent(y)
    BY <1>1, NoCurrentOf
  <1>3. \A r, j : Settles(x \o y \o z, r, j) => Settles(x \o z, r, j)
    BY <1>2, LastCut
  <1>4. Shown(Pending, retained, activity, undone)
    BY <1>1 DEF Known
  <1> QED BY <1>1, <1>3, <1>4, ShownOn

(* What is published is pending.                                           *)
LEMMA PublishPending ==
  ASSUME TypeOK, Flushed, NEW msgs \in Seq(Messages), Publish(msgs)
  PROVE  Pending' = Pending \o msgs
  <1>1. up \in Seq(Messages) /\ queue \in Seq(Messages)
    BY WireTyped
  <1>2. CASE status = "connected" /\ up' = up \o msgs /\ UNCHANGED <<status, queue>>
    <2>1. queue = <<>> /\ queue' = <<>>
      BY <1>2 DEF Flushed
    <2>2. up \o msgs \in Seq(Messages)
      BY <1>1, ConcatProperties
    <2> QED BY <1>1, <1>2, <2>1, <2>2, ConcatEmptySeq DEF Pending
  <1>3. CASE status # "connected" /\ queue' = queue \o msgs /\ UNCHANGED <<status, up>>
    <2>1. (up \o queue) \o msgs = up \o (queue \o msgs)
      BY <1>1, Joined
    <2> QED BY <1>3, <2>1 DEF Pending
  <1> QED BY <1>2, <1>3 DEF Publish

(* Every touch says what is current anew.                                  *)
LEMMA WorkerKnown ==
  ASSUME TypeOK, Flushed, Worker
  PROVE  Known'
  <1>1. /\ now < MaxTime /\ retained' = retained /\ BookTyped
        /\ Pending \in Seq(Messages)
    BY WireTyped, Parts DEF Worker, startJob, Resume, pause, stop, CutShort, Touch, Touching,
                            Pending
  <1>2. ASSUME NEW j \in JobIds, startJob(j)
        PROVE  Known'
    <2>1. Started(j) \in Seq(Messages)
      BY <1>1, StartedTyped
    <2>2. Pending' = Pending \o Started(j)
      BY <1>2, <2>1, PublishPending DEF startJob
    <2>3. Settles(Pending', retained', j)
      BY <1>1, <2>2, LastStarted
    <2>4. activity' = [job |-> j, running |-> TRUE] /\ activity' # None /\ undone' = None
      BY <1>2, JobsAreNotNone DEF startJob, Touch
    <2> QED BY <2>3, <2>4 DEF Known, Shown
  <1>3. Ended \in Seq(Messages) /\ Pending \o Ended \in Seq(Messages)
        /\ Settles(Pending \o Ended, retained, noId)
    BY <1>1, EndedTyped, ConcatProperties, LastStarted DEF Ended
  <1>4. ASSUME NEW j \in JobIds \cup {pauseId}, Publish(Ended \o Started(j))
        PROVE  Settles(Pending', retained', j)
    <2>1. Started(j) \in Seq(Messages) /\ Ended \o Started(j) \in Seq(Messages)
      BY <1>1, <1>3, StartedTyped, ConcatProperties
    <2>2. Pending' = Pending \o (Ended \o Started(j))
      BY <1>4, <2>1, PublishPending
    <2>3. (Pending \o Ended) \o Started(j) = Pending \o (Ended \o Started(j))
      BY <1>1, <1>3, <2>1, Joined
    <2>4. Settles((Pending \o Ended) \o Started(j), retained, j)
      BY <1>1, <1>3, LastStarted
    <2> QED BY <1>1, <2>2, <2>3, <2>4
  <1>5. ASSUME Publish(Ended) PROVE Settles(Pending', retained', noId)
    <2>1. Pending' = Pending \o Ended
      BY <1>3, <1>5, PublishPending
    <2> QED BY <1>1, <1>3, <2>1
  <1>6. CASE Resume
    <2>1. activity.job \in JobIds /\ activity \in Activities
          /\ activity' = [job |-> activity.job, running |-> TRUE]
      BY <1>6 DEF Resume, TypeOK, Activities
    <2>2. Settles(Pending', retained', activity.job)
      BY <1>4, <1>6, <2>1 DEF Resume
    <2>3. activity' # None /\ undone' = None
      BY <1>6, <2>1, JobsAreNotNone DEF Resume, Touch
    <2> QED BY <2>1, <2>2, <2>3 DEF Known, Shown
  <1>7. CASE pause
    <2>1. activity.job \in JobIds /\ activity \in Activities
          /\ activity' = [job |-> activity.job, running |-> FALSE]
      BY <1>7 DEF pause, TypeOK, Activities
    <2>2. activity' # None
      BY <2>1, JobsAreNotNone
    <2>3. Settles(Pending', retained', pauseId) \/ Settles(Pending', retained', noId)
      <3>1. CASE pausable
        BY <1>4, <1>7, <3>1 DEF pause
      <3>2. CASE ~pausable
        <4>1. Ended \o <<>> = Ended
          BY <1>3, ConcatEmptySeq
        <4> QED BY <1>5, <1>7, <3>2, <4>1 DEF pause
      <3> QED BY <3>1, <3>2
    <2> QED BY <2>1, <2>2, <2>3 DEF Known, Shown
  <1>8. CASE stop
    <2>1. Settles(Pending', retained', noId) /\ activity' = None
      BY <1>5, <1>8 DEF stop
    <2> QED BY <2>1 DEF Known, Shown
  <1>9. CASE CutShort
    <2>1. Settles(Pending', retained', pauseId) \/ Settles(Pending', retained', noId)
      BY <1>4, <1>5, <1>9 DEF CutShort
    <2>2. activity' # None /\ ~activity'.running
      BY <1>9, HaltedIs
    <2> QED BY <2>1, <2>2 DEF Known, Shown
  <1> QED BY <1>2, <1>6, <1>7, <1>8, <1>9 DEF Worker

(* The session ends and begins: what is lost is reports, or it is stale.   *)
(* After a kill the activity is the saved one, which shows the same, by    *)
(* Truth, or runs again after its end.                                     *)
LEMMA SessionKnown ==
  ASSUME TypeOK, Truth, Known,
         applicationDidBecomeActive \/ Launch \/ applicationWillResignActive \/ ConnectionLost
            \/ Kill \/ reconnect
  PROVE  Known'
  <1>1. up \in Seq(Messages) /\ queue \in Seq(Messages) /\ <<>> \in Seq(Messages)
        /\ up \o queue \in Seq(Messages)
    BY WireTyped
  <1>2. retained' = retained
    BY DEF applicationDidBecomeActive, Launch, applicationWillResignActive, ConnectionLost, Kill,
           reconnect
  <1>3. ~stale' => Shown(Pending', retained, activity, undone) /\ ~stale
    <2>1. CASE applicationDidBecomeActive \/ Launch
      <3>1. Lose(queue) /\ queue' = <<>> /\ up' = up
        BY <2>1 DEF applicationDidBecomeActive, Launch, Connect
      <3>2. Pending = up \o queue \o <<>> /\ Pending' = up \o <<>>
        BY <1>1, <3>1, ConcatEmptySeq DEF Pending
      <3> QED BY <1>1, <3>1, <3>2, PendingLost
    <2>2. CASE applicationWillResignActive \/ ConnectionLost
      <3>1. PICK k \in 0 .. Len(up) :
               up' = SubSeq(up, 1, k) /\ Lose(SubSeq(up, k + 1, Len(up)))
        BY <2>2 DEF applicationWillResignActive, ConnectionLost, Break
      <3> DEFINE p == SubSeq(up, 1, k)
                 r == SubSeq(up, k + 1, Len(up))
      <3>2. p \in Seq(Messages) /\ r \in Seq(Messages) /\ up = p \o r /\ up' = p /\ Lose(r)
        BY <3>1, PrefixAndRest
      <3>3. queue' = queue
        BY <2>2 DEF applicationWillResignActive, ConnectionLost, Break
      <3> HIDE DEF p, r
      <3>4. Pending = p \o r \o queue /\ Pending' = p \o queue
        BY <3>2, <3>3 DEF Pending
      <3> QED BY <1>1, <3>2, <3>4, PendingLost
    <2>3. CASE Kill \/ reconnect
      <3>1. PICK k \in 0 .. Len(up) :
               up' = SubSeq(up, 1, k) /\ Lose(SubSeq(up, k + 1, Len(up)) \o queue)
        BY <2>3 DEF Kill, reconnect
      <3> DEFINE p == SubSeq(up, 1, k)
                 r == SubSeq(up, k + 1, Len(up))
      <3>2. p \in Seq(Messages) /\ r \in Seq(Messages) /\ up = p \o r /\ up' = p
            /\ Lose(r \o queue)
        BY <3>1, PrefixAndRest
      <3>3. queue' = <<>>
        BY <2>3 DEF Kill, reconnect
      <3> HIDE DEF p, r
      <3>4. r \o queue \in Seq(Messages)
        BY <1>1, <3>2, ConcatProperties
      <3>5. (p \o r) \o queue = p \o (r \o queue)
        BY <1>1, <3>2, Joined, SMTT(30)
      <3>6. Pending = p \o (r \o queue) \o <<>>
        <4>1. Pending = p \o (r \o queue) /\ Pending \in Seq(Messages)
          BY <1>1, <3>2, <3>5 DEF Pending
        <4> QED BY <4>1, ConcatEmptySeq
      <3>7. Pending' = p \o <<>>
        BY <3>2, <3>3 DEF Pending
      <3> QED BY <1>1, <3>2, <3>4, <3>6, <3>7, PendingLost
    <2> QED BY <2>1, <2>2, <2>3
  <1>4. undone' = undone
    BY DEF applicationDidBecomeActive, Launch, applicationWillResignActive, ConnectionLost, Kill,
           reconnect
  <1>5. CASE activity' = activity
    BY <1>2, <1>3, <1>4, <1>5 DEF Known
  <1>6. CASE activity' = saved /\ activity = None /\ saved # None /\ ~saved.running
    BY <1>2, <1>3, <1>4, <1>6 DEF Known, Shown
  <1>7. CASE /\ activity' = saved /\ saved # None /\ undone # None
             /\ activity # None /\ ~activity.running
    BY <1>2, <1>3, <1>4, <1>7 DEF Known, Shown
  <1>8. \/ activity' = activity
        \/ activity' = saved /\ activity = None /\ saved # None /\ ~saved.running
        \/ /\ activity' = saved /\ saved # None /\ undone # None
           /\ activity # None /\ ~activity.running
    BY DEF applicationDidBecomeActive, Launch, applicationWillResignActive, ConnectionLost, Kill,
           reconnect, appVars, Truth, SavedBehind, EndUndone
  <1> QED BY <1>5, <1>6, <1>7, <1>8

(* What was stored is sent, and a report repeated.                         *)
LEMMA SentKnown ==
  ASSUME TypeOK, Flushed, Known, connected \/ newMessage \/ checkTxFlows
  PROVE  Known'
  <1>1. UNCHANGED <<retained, activity, stale, undone>>
    BY DEF connected, newMessage, checkTxFlows, appVars, history
  <1>2. up \in Seq(Messages) /\ queue \in Seq(Messages) /\ up \o queue \in Seq(Messages)
    BY WireTyped
  <1>3. CASE connected \/ newMessage
    <2>1. Pending' = Pending
      <3>1. CASE connected
        BY <1>2, <3>1, ConcatEmptySeq DEF connected, Pending
      <3>2. CASE newMessage
        BY <3>2 DEF newMessage, linkVars, Pending
      <3> QED BY <1>3, <3>1, <3>2
    <2> QED BY <1>1, <2>1 DEF Known
  <1>4. CASE checkTxFlows
    <2>1. PICK m \in unacked : up' = Append(up, m)
      BY <1>4 DEF checkTxFlows
    <2>2. m \in Messages /\ IsReport(m)
      BY DEF TypeOK, Messages, Reports, IsReport
    <2>3. queue = <<>> /\ queue' = <<>>
      BY <1>4 DEF checkTxFlows, Flushed
    <2>4. Append(up, m) \in Seq(Messages)
      BY <1>2, <2>2, AppendProperties
    <2>5. Pending = up /\ Pending' = Append(up, m)
      BY <1>2, <2>1, <2>3, <2>4, ConcatEmptySeq DEF Pending
    <2>6. \A r, j : Settles(up, r, j) => Settles(Append(up, m), r, j)
      BY <1>2, <2>2, LastAppend
    <2>7. ASSUME ~stale' PROVE Shown(Pending', retained', activity', undone')
      <3>1. Shown(Pending, retained, activity, undone)
        BY <1>1, <2>7 DEF Known
      <3>2. Shown(Append(up, m), retained, activity, undone)
        BY <2>5, <2>6, <3>1, ShownOn
      <3> QED BY <1>1, <2>5, <3>2
    <2> QED BY <2>7 DEF Known
  <1> QED BY <1>3, <1>4

(* The broker reads what is pending.                                       *)
LEMMA BrokerKnown ==
  ASSUME TypeOK, Known, BrokerReceives
  PROVE  Known'
  <1> DEFINE m == Head(up)
             t == Tail(up)
  <1>1. up # <<>> /\ up' = t /\ UNCHANGED <<queue, activity, undone>>
    BY DEF BrokerReceives, appVars
  <1>2. up \in Seq(Messages) /\ queue \in Seq(Messages)
    BY WireTyped
  <1>3. m \in Messages /\ t \in Seq(Messages) /\ <<m>> \in Seq(Messages) /\ up = <<m>> \o t
    BY <1>1, <1>2, FirstAndRest
  <1>4. retained' = IF IsReport(m) THEN retained ELSE m.job
    BY DEF BrokerReceives
  <1>5. ~stale' => ~stale
    BY DEF BrokerReceives, history, Lose
  <1> HIDE DEF m, t
  <1>6. /\ t \o queue \in Seq(Messages) /\ Pending = <<m>> \o (t \o queue)
        /\ Pending' = t \o queue
    BY <1>1, <1>2, <1>3, ConcatProperties, Joined DEF Pending
  <1>7. Pending \in Seq(Messages) /\ Pending # <<>> /\ Pending[1] = m /\ Tail(Pending) = t \o queue
    BY <1>3, <1>6, FirstOf
  <1>8. \A j : Settles(Pending, retained, j) => Settles(Pending', retained', j)
    BY <1>4, <1>6, <1>7, LastRead
  <1>9. ASSUME ~stale' PROVE Shown(Pending', retained', activity', undone')
    <2>1. Shown(Pending, retained, activity, undone)
      BY <1>5, <1>9 DEF Known
    <2>2. Shown(Pending', retained', activity, undone)
      BY <1>8, <2>1, ShownOn
    <2> QED BY <1>1, <2>2
  <1> QED BY <1>9 DEF Known

(* With what it needs.                                                     *)
RetainedInv == Inv /\ Flushed /\ Known

(* At the start nothing is retained and nothing runs.                      *)
LEMMA RetainedInit == Init => RetainedInv
  <1> SUFFICES ASSUME Init PROVE RetainedInv
    OBVIOUS
  <1>1. Inv
    BY InvInit
  <1>2. Flushed
    BY DEF Init, Flushed
  <1>3. Pending = <<>>
    <2>1. up = <<>> /\ queue = <<>> /\ <<>> \in Seq(Messages)
      BY DEF Init
    <2> QED BY <2>1, ConcatEmptySeq DEF Pending
  <1>4. Settles(<<>>, noId, noId)
    BY DEF Settles, NoCurrent
  <1>5. activity = None /\ retained = noId
    BY DEF Init
  <1>6. Known
    BY <1>3, <1>4, <1>5 DEF Known, Shown
  <1> QED BY <1>1, <1>2, <1>6 DEF RetainedInv

(* Every step keeps it.                                                    *)
LEMMA RetainedNext == RetainedInv /\ [Next]_vars => RetainedInv'
  <1> SUFFICES ASSUME RetainedInv, [Next]_vars PROVE RetainedInv'
    OBVIOUS
  <1>1. Inv /\ TypeOK /\ Truth /\ Flushed /\ Known
    BY DEF RetainedInv, Inv
  <1>2. Inv'
    BY <1>1, InvNext
  <1>3. ASSUME Worker PROVE Flushed'
    <2>1. PICK msgs : Publish(msgs)
      BY <1>3 DEF Worker, startJob, Resume, pause, stop, CutShort
    <2> QED BY <1>1, <2>1 DEF Publish, Flushed
  <1>4. ASSUME ~Worker PROVE Flushed'
    BY <1>1, <1>4, StaysFlushed
  <1>5. ASSUME App PROVE Known'
    BY <1>1, <1>5, SessionKnown, SentKnown DEF App
  <1>6. ASSUME BrokerReceives PROVE Known'
    BY <1>1, <1>6, BrokerKnown
  <1>7. ASSUME O2s \/ UNCHANGED vars PROVE Known'
    <2>1. UNCHANGED <<up, queue, retained, activity, undone>>
      BY <1>7 DEF O2s, on_currentjob, StoreStartFails, Crash, on_disconnect, on_connect, vars,
                  appVars, linkVars
    <2>2. ~stale' => ~stale
      BY <1>7 DEF O2s, on_currentjob, StoreStartFails, Crash, on_disconnect, on_connect, vars,
                  history, Lose
    <2> QED BY <1>1, <2>1, <2>2 DEF Known, Pending
  <1>8. Known'
    BY <1>1, <1>5, <1>6, <1>7, WorkerKnown DEF Next
  <1> QED BY <1>2, <1>3, <1>4, <1>8 DEF RetainedInv

(* What is retained, once what is under way has arrived, is what the app   *)
(* shows, unless what the last touch published was lost; while a job runs  *)
(* again whose end a touch that was cut short has published, it is that    *)
(* end, or the pause.                                                      *)
THEOREM RetainedIsTruthful == Spec => []RetainedTruthful
  <1>1. RetainedInv => RetainedTruthful
    BY RetainedIs DEF RetainedInv, Known
  <1> QED BY RetainedInit, RetainedNext, <1>1, PTL DEF Spec

-----------------------------------------------------------------------------
(* The line, seen from outside.                                            *)
Held == unacked \cup {m \in ToSet(queue) : IsReport(m)}

(* A row, without its length.                                              *)
Entry(r) == [job |-> r.job, start |-> r.start, end |-> r.end]

Book == [k \in DOMAIN rows |-> Entry(rows[k])]

(* What is taken out of the line is what Without leaves out.               *)
LEMMA CutWithout ==
  ASSUME NEW x \in Seq(Messages), NEW y \in Seq(Messages), NEW z \in Seq(Messages)
  PROVE  \E a \in 0 .. Len(x \o y \o z) : \E b \in a .. Len(x \o y \o z) :
            x \o z = Line!Without(x \o y \o z, a, b)
  <1> DEFINE s == x \o y \o z
             t == x \o z
             a == Len(x)
             b == Len(x) + Len(y)
  <1>1. /\ s \in Seq(Messages) /\ t \in Seq(Messages) /\ a \in Nat /\ b \in Nat
        /\ Cut(s, t, a, b)
    BY Cutting
  <1> HIDE DEF a, b, s, t
  <1>2. /\ a <= b /\ b <= Len(s) /\ Len(t) = Len(s) - (b - a) /\ Len(s) \in Nat
        /\ \A k \in 1 .. Len(t) : t[k] = s[IF k <= a THEN k ELSE k + (b - a)]
    BY <1>1, LenProperties DEF Cut
  <1>3. t = [k \in 1 .. Len(t) |-> t[k]]
    BY <1>1, LenProperties
  <1>4. t = Line!Without(s, a, b)
    BY <1>2, <1>3 DEF Line!Without
  <1>5. a \in 0 .. Len(s) /\ b \in a .. Len(s)
    BY <1>1, <1>2
  <1> QED BY <1>4, <1>5 DEF s, t

(* A step that thins the line and keeps no more than before loses.         *)
LEMMA ThinnedLoses ==
  ASSUME TypeOK, Thinned, Held' \subseteq Held
  PROVE  Line!Lose
  <1>1. PICK x \in Seq(Messages), y \in Seq(Messages), z \in Seq(Messages) :
           Wire = x \o y \o z /\ Wire' = x \o z
    BY DEF Thinned
  <1>2. \E a \in 0 .. Len(Wire) : \E b \in a .. Len(Wire) : Wire' = Line!Without(Wire, a, b)
    <2>1. PICK a \in 0 .. Len(x \o y \o z) : \E b \in a .. Len(x \o y \o z) :
             x \o z = Line!Without(x \o y \o z, a, b)
      BY CutWithout
    <2>2. PICK b \in a .. Len(x \o y \o z) : x \o z = Line!Without(x \o y \o z, a, b)
      BY <2>1
    <2>3. Wire' = Line!Without(Wire, a, b)
      BY <1>1, <2>2 DEF Line!Without
    <2> QED BY <1>1, <2>3
  <1>3. UNCHANGED <<now, rows>>
    BY DEF Thinned
  <1>4. Book' = Book
    BY <1>3 DEF Book
  <1> QED BY <1>2, <1>3, <1>4 DEF Line!Lose, Wire, Held, Book, Entry

(* Nothing that is dropped, sent or forwarded is kept anew.                *)
LEMMA KeptLess ==
  ASSUME TypeOK, [Next]_vars, ~Worker, ~checkTxFlows, ~on_currentjob
  PROVE  Held' \subseteq Held
  <1>0. ToSet(<<>>) = {}
    BY DEF ToSet
  <1>1. UNCHANGED <<queue, unacked>> => Held' = Held
    BY DEF Held
  <1>2. queue' = <<>> /\ unacked' = {} => Held' \subseteq Held
    BY <1>0 DEF Held
  <1>3. CASE connected
    <2>1. queue' = <<>> /\ unacked' = unacked \cup {m \in ToSet(queue) : IsReport(m)}
      BY <1>3 DEF connected
    <2> QED BY <1>0, <2>1 DEF Held
  <1>4. CASE App /\ ~connected
    BY <1>1, <1>2, <1>4 DEF App, applicationDidBecomeActive, applicationWillResignActive, Kill,
                Launch, reconnect, ConnectionLost, newMessage, Connect, Break, linkVars
  <1>5. CASE BrokerReceives
    BY <1>1, <1>5 DEF BrokerReceives
  <1>6. CASE O2s
    BY <1>1, <1>6 DEF O2s, StoreStartFails, Crash, on_disconnect, on_connect, linkVars
  <1>7. CASE UNCHANGED vars
    BY <1>1, <1>7 DEF vars, linkVars
  <1> QED BY <1>3, <1>4, <1>5, <1>6, <1>7 DEF Next

(* A report sent again is one that is kept.                                *)
LEMMA AgainRepeats ==
  ASSUME TypeOK, Flushed, checkTxFlows
  PROVE  Line!Repeat
  <1>1. \E m \in unacked : Wire' = Append(Wire, m)
    BY Again DEF Flushed
  <1>2. UNCHANGED <<now, rows, unacked, queue>>
    BY DEF checkTxFlows, o2sVars
  <1>3. Held' = Held /\ Book' = Book /\ unacked \subseteq Held
    BY <1>2 DEF Held, Book
  <1>4. \E m \in Held : Wire' = Append(Wire, m)
    BY <1>1, <1>3
  <1> QED BY <1>2, <1>3, <1>4 DEF Line!Repeat, Wire, Held, Book, Entry

-----------------------------------------------------------------------------
(* o2s handles the front of the line.                                      *)

(* A row appended is an entry appended.                                    *)
LEMMA BookAppended ==
  ASSUME rows \in Seq(Rows), NEW r, rows' = Append(rows, r)
  PROVE  Book' = Append(Book, Entry(r))
  <1>1. /\ Len(rows) \in Nat /\ DOMAIN rows = 1 .. Len(rows)
        /\ Len(Book) = Len(rows) /\ DOMAIN Book = 1 .. Len(rows)
    BY DEF Book
  <1>2. DOMAIN Book' = 1 .. Len(rows) + 1
    BY <1>1 DEF Book
  <1>3. ASSUME NEW k \in 1 .. Len(rows) + 1
        PROVE  Book'[k] = Append(Book, Entry(r))[k]
    BY <1>1 DEF Book
  <1> QED BY <1>1, <1>2, <1>3 DEF Book

(* A row closed is an entry closed.                                        *)
LEMMA BookClosed ==
  ASSUME rows \in Seq(Rows), NEW k \in DOMAIN rows, IsOpen(rows[k]), NEW at, NEW len,
         rows' = [rows EXCEPT ![k] = [job |-> @.job, start |-> @.start, end |-> at,
                                      duration |-> len]]
  PROVE  Book' = [Book EXCEPT ![k].end = at] /\ k \in DOMAIN Book /\ Book[k].end = None
  <1>1. DOMAIN Book' = DOMAIN rows /\ DOMAIN Book = DOMAIN rows
    BY DEF Book
  <1>2. \A i \in DOMAIN rows : i # k => Book'[i] = Book[i]
    BY DEF Book
  <1>3. Book'[k] = [job |-> rows[k].job, start |-> rows[k].start, end |-> at]
    BY DEF Book, Entry
  <1>4. Book[k] = [job |-> rows[k].job, start |-> rows[k].start, end |-> rows[k].end]
    BY DEF Book, Entry
  <1>5. [Book[k] EXCEPT !.end = at] = Book'[k]
    BY <1>3, <1>4
  <1>6. Book' = [Book EXCEPT ![k].end = at]
    <2> DEFINE E == [Book EXCEPT ![k].end = at]
    <2>1. DOMAIN E = DOMAIN rows /\ E = [i \in DOMAIN E |-> E[i]]
      BY <1>1
    <2>2. Book' = [i \in DOMAIN Book' |-> Book'[i]]
      BY DEF Book
    <2>3. ASSUME NEW i \in DOMAIN rows PROVE Book'[i] = E[i]
      <3>1. CASE i = k
        BY <1>1, <1>5, <3>1
      <3>2. CASE i # k
        BY <1>1, <1>2, <3>2
      <3> QED BY <3>1, <3>2
    <2> HIDE DEF E
    <2>4. Book' = E
      BY <1>1, <2>1, <2>2, <2>3
    <2> QED BY <2>4 DEF E
  <1>7. rows[k].end = None
    BY DEF IsOpen
  <1> QED BY <1>1, <1>4, <1>6, <1>7

(* on_currentjob is what Enter says of the report at the front.            *)
LEMMA HandledEnters ==
  ASSUME TypeOK, on_currentjob
  PROVE  Line!Handle
  <1> DEFINE m == Wire[1]
             Closes(k) == rows' = [rows EXCEPT ![k] = [job |-> @.job, start |-> @.start,
                                       end |-> m.at, duration |-> Duration(m.at)]]
  <1>1. rows \in Seq(Rows) /\ down # <<>>
    BY DEF TypeOK, on_currentjob
  <1>2. /\ m \in Reports /\ Wire # <<>> /\ m = Head(down)
        /\ Tail(Wire) = Tail(down) \o up \o queue
    BY <1>1, DownRead
  <1>3. UNCHANGED <<now, unacked, up, queue>> /\ down' = Tail(down)
    BY DEF on_currentjob, linkVars
  <1>4. Wire' = Tail(Wire) /\ Held' = Held
    BY <1>2, <1>3 DEF Wire, Held
  <1> HIDE DEF m
  <1>5. m.kind = "report" /\ (IsEnd(m) <=> m.job = noId)
    BY <1>2 DEF IsEnd, IsReport, Reports
  <1>6. \/ ~IsEnd(m) /\ rows' = Append(rows, [job |-> m.job, start |-> m.at, end |-> None,
                                              duration |-> None])
        \/ IsEnd(m) /\ Count(rows, IsOpen) = 0 /\ UNCHANGED rows
        \/ IsEnd(m) /\ \E k \in DOMAIN rows : IsOpen(rows[k]) /\ Closes(k)
    BY <1>2 DEF on_currentjob, StoreStart, StoreEnd
  <1>7. Line!Enter(m)
    <2>1. ASSUME ~IsEnd(m),
                 NEW r, r = [job |-> m.job, start |-> m.at, end |-> None, duration |-> None],
                 rows' = Append(rows, r)
          PROVE  Line!Enter(m)
      <3>1. Entry(r) = [job |-> m.job, start |-> m.at, end |-> None]
        BY <2>1 DEF Entry
      <3>2. Book' = Append(Book, [job |-> m.job, start |-> m.at, end |-> None])
        BY <1>1, <2>1, <3>1, BookAppended
      <3> QED BY <1>5, <2>1, <3>2 DEF Line!Enter, Book, Entry
    <2>2. CASE IsEnd(m) /\ Count(rows, IsOpen) = 0 /\ UNCHANGED rows
      <3>1. {k \in DOMAIN rows : IsOpen(rows[k])} = {}
        BY <1>1, <2>2, OpenFinite, FS_EmptySet
      <3>2. \A k \in DOMAIN Book : Book[k].end # None
        BY <3>1 DEF Book, Entry, IsOpen
      <3>3. Book' = Book
        BY <2>2 DEF Book
      <3> QED BY <1>5, <2>2, <3>2, <3>3 DEF Line!Enter, Book, Entry
    <2>3. ASSUME IsEnd(m), NEW k \in DOMAIN rows, IsOpen(rows[k]), Closes(k)
          PROVE  Line!Enter(m)
      <3>1. Book' = [Book EXCEPT ![k].end = m.at] /\ k \in DOMAIN Book /\ Book[k].end = None
        BY <1>1, <2>3, BookClosed
      <3> QED BY <1>5, <2>3, <3>1 DEF Line!Enter, Book, Entry
    <2> HIDE DEF Closes
    <2> QED BY <1>6, <2>1, <2>2, <2>3
  <1>8. Line!Enter(Wire[1])
    BY <1>7 DEF m
  <1> QED BY <1>2, <1>3, <1>4, <1>5, <1>8 DEF Line!Handle, Wire, Held, m

-----------------------------------------------------------------------------
(* The worker adds to the end of the line.                                 *)

(* What is published is kept, sent or stored.                              *)
LEMMA PublishHeld ==
  ASSUME TypeOK, NEW msgs \in Seq(Messages), Publish(msgs)
  PROVE  Held' = Held \cup {m \in ToSet(msgs) : IsReport(m)}
  <1>1. CASE unacked' = unacked \cup {m \in ToSet(msgs) : IsReport(m)} /\ UNCHANGED queue
    BY <1>1 DEF Held
  <1>2. CASE queue' = queue \o msgs /\ UNCHANGED unacked
    <2>1. queue \in Seq(Messages)
      BY WireTyped
    <2>2. /\ Len(queue) \in Nat /\ Len(msgs) \in Nat /\ Len(queue \o msgs) = Len(queue) + Len(msgs)
          /\ DOMAIN queue = 1 .. Len(queue) /\ DOMAIN msgs = 1 .. Len(msgs)
          /\ DOMAIN (queue \o msgs) = 1 .. Len(queue) + Len(msgs)
          /\ \A k \in 1 .. Len(queue) : (queue \o msgs)[k] = queue[k]
          /\ \A k \in 1 .. Len(msgs) : (queue \o msgs)[Len(queue) + k] = msgs[k]
      BY <2>1, ConcatProperties, LenProperties
    <2>3. ToSet(queue \o msgs) = ToSet(queue) \cup ToSet(msgs)
      <3> DEFINE s == queue \o msgs
      <3>1. ASSUME NEW k \in DOMAIN s PROVE s[k] \in ToSet(queue) \cup ToSet(msgs)
        <4>1. CASE k <= Len(queue)
          BY <2>2, <4>1 DEF ToSet
        <4>2. CASE ~(k <= Len(queue))
          <5>1. k - Len(queue) \in 1 .. Len(msgs) /\ Len(queue) + (k - Len(queue)) = k
            BY <2>2, <4>2
          <5>2. s[k] = msgs[k - Len(queue)]
            BY <2>2, <5>1
          <5> QED BY <2>2, <5>1, <5>2 DEF ToSet
        <4> QED BY <4>1, <4>2
      <3>2. ASSUME NEW k \in DOMAIN queue PROVE queue[k] \in ToSet(s)
        <4>1. k \in DOMAIN s /\ s[k] = queue[k]
          BY <2>2
        <4> QED BY <4>1 DEF ToSet
      <3>3. ASSUME NEW k \in DOMAIN msgs PROVE msgs[k] \in ToSet(s)
        <4>1. Len(queue) + k \in DOMAIN s /\ s[Len(queue) + k] = msgs[k]
          BY <2>2
        <4> QED BY <4>1 DEF ToSet
      <3> HIDE DEF s
      <3>4. ToSet(s) \subseteq ToSet(queue) \cup ToSet(msgs)
        BY <3>1 DEF ToSet
      <3>5. ToSet(queue) \subseteq ToSet(s) /\ ToSet(msgs) \subseteq ToSet(s)
        BY <3>2, <3>3 DEF ToSet
      <3> QED BY <3>4, <3>5 DEF s
    <2> QED BY <1>2, <2>3 DEF Held
  <1> QED BY <1>1, <1>2 DEF Publish

(* A touch of the worker is said.                                          *)
LEMMA TouchSays ==
  ASSUME TypeOK, Flushed, Touching, NEW msgs \in Seq(Messages), msgs \in Line!Touches,
         Publish(msgs)
  PROVE  Line!Say
  <1>1. now' = now + 1 /\ UNCHANGED <<down, rows>>
    BY DEF Touching, o2sVars
  <1>2. Wire' = Wire \o msgs
    BY <1>1, PublishWire
  <1>3. Held' = Held \cup {m \in ToSet(msgs) : IsReport(m)}
    BY PublishHeld
  <1>4. {m \in ToSet(msgs) : IsReport(m)}
           = {msgs[k] : k \in {l \in DOMAIN msgs : msgs[l].kind = "report"}}
    BY DEF ToSet, IsReport
  <1>5. Book' = Book
    BY <1>1 DEF Book
  <1> QED BY <1>1, <1>2, <1>3, <1>4, <1>5 DEF Line!Say, Wire, Held, Book, Entry

(* Every touch says something of what Touches allows.                      *)
LEMMA WorkerSays ==
  ASSUME TypeOK, Flushed, Worker
  PROVE  Line!Say
  <1> DEFINE Ids == JobIds \cup {pauseId}
  <1>0. now < MaxTime
    BY DEF Worker, startJob, Resume, pause, stop, CutShort, Touch, Touching
  <1>1. ASSUME NEW j \in Ids \cup {noId}
        PROVE  Started(j) \in Seq(Messages)
    BY <1>0, StartedTyped, Parts
  <1>2. Ended \in Seq(Messages) /\ \A j \in Ids : Ended \o Started(j) \in Seq(Messages)
    BY <1>1, ConcatProperties DEF Ended
  <1>3. /\ Ended \in Line!Touches
        /\ \A j \in Ids : Started(j) \in Line!Touches /\ Ended \o Started(j) \in Line!Touches
    BY DEF Line!Touches, Line!Says, Ended, Started
  <1>4. CASE \E j \in JobIds : startJob(j)
    BY <1>1, <1>3, <1>4, TouchSays DEF startJob, Touch
  <1>5. CASE Resume
    <2>1. activity.job \in Ids
      BY <1>5 DEF Resume, TypeOK, Activities
    <2> QED BY <1>2, <1>3, <1>5, <2>1, TouchSays DEF Resume, Touch
  <1>6. CASE pause
    <2>1. CASE pausable
      BY <1>2, <1>3, <1>6, <2>1, TouchSays DEF pause, Touch
    <2>2. CASE ~pausable
      <3>1. Ended \o <<>> = Ended
        BY <1>2, ConcatEmptySeq
      <3> QED BY <1>2, <1>3, <1>6, <2>2, <3>1, TouchSays DEF pause, Touch
    <2> QED BY <2>1, <2>2
  <1>7. CASE stop
    BY <1>2, <1>3, <1>7, TouchSays DEF stop, Touch
  <1>8. CASE CutShort
    BY <1>2, <1>3, <1>8, TouchSays DEF CutShort
  <1> QED BY <1>4, <1>5, <1>6, <1>7, <1>8 DEF Worker

(* From the app to the table there is one line, which loses messages and   *)
(* says reports again but never lets one overtake another: what was stored *)
(* for the session is sent before anything that is published later, and    *)
(* what o2s writes is what the front of the line says.                     *)
THEOREM LineIsImplemented == Spec => ImplementsLine
  <1>1. Init => Line!Init
    <2> SUFFICES ASSUME Init PROVE Line!Init
      OBVIOUS
    <2>1. /\ now = 0 /\ down = <<>> /\ up = <<>> /\ queue = <<>> /\ unacked = {} /\ rows = <<>>
      BY DEF Init
    <2>2. down \o up \o queue = <<>>
      BY <2>1
    <2>3. ToSet(queue) = {}
      BY <2>1 DEF ToSet
    <2>4. Book = <<>>
      BY <2>1 DEF Book
    <2> QED BY <2>1, <2>2, <2>3, <2>4 DEF Line!Init, Book, Entry
  <1>2. TableInv /\ [Next]_vars => [Line!Next]_(Line!vars)
    <2> SUFFICES ASSUME TableInv, [Next]_vars PROVE Line!Next
      OBVIOUS
    <2>1. TypeOK /\ Truth /\ HistTyped /\ Flushed
      BY DEF TableInv, Inv, Rest
    <2>2. CASE Worker
      BY <2>1, <2>2, WorkerSays DEF Line!Next
    <2>3. CASE checkTxFlows
      BY <2>1, <2>3, AgainRepeats DEF Line!Next
    <2>4. CASE on_currentjob
      BY <2>1, <2>4, HandledEnters DEF Line!Next
    <2>5. CASE ~Worker /\ ~checkTxFlows /\ ~on_currentjob
      <3>1. Thinned
        BY <2>1, <2>5, OthersThin
      <3>2. Held' \subseteq Held
        BY <2>1, <2>5, KeptLess
      <3> QED BY <2>1, <3>1, <3>2, ThinnedLoses DEF Line!Next
    <2> QED BY <2>2, <2>3, <2>4, <2>5
  <1> QED BY TableInit, TableNext, <1>1, <1>2, PTL DEF Spec, ImplementsLine, Line!Spec
=============================================================================
