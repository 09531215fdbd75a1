--------------------------- MODULE KvCache_proofs ---------------------------
(***************************************************************************)
(* The cache of the LLM executor, for any number of runs, shards, threads  *)
(* and passes and any cap: dict and list agree (CacheAlwaysIntact), a pass *)
(* attends to what was computed before it (AttentionIsExact), and evicted  *)
(* runs stay gone (EvictionIsFinal).                                       *)
(*                                                                         *)
(* None of the three is inductive.  CacheIntact needs that the list has no *)
(* key twice (OrderedOnce).  AttendsToPrefix needs to know what an entry   *)
(* stands for at each moment of its run (CacheFollowsSteps), which counts  *)
(* a pass from the moment it is stored, before its report, and this needs  *)
(* that a run has one pass at work (OneInFlight, TasksFollowSteps).  What  *)
(* an eviction may meet is in EvictedAreSignalled (no pass starts after    *)
(* the signal) and LateIsKnown (one may still be at work), and that it has *)
(* the cache for itself in ThreadShape.                                    *)
(***************************************************************************)
EXTENDS KvCache, TLAPS, SequenceTheorems, FiniteSetTheorems

\* No element twice.
Distinct(s) == \A i, j \in 1..Len(s) : s[i] = s[j] => i = j

\* A run's tasks follow its steps, and only one of them is at work.
TasksFollowSteps ==
    \A w \in Workers : job[w].run # NoRun =>
        /\ step[job[w].run] < NumPasses * NumShards
        /\ job[w].shard = ShardOf(step[job[w].run])
        /\ job[w].pass = PassOf(step[job[w].run])

OneInFlight ==
    \A w, v \in Workers :
        job[w].run = job[v].run /\ job[w].run # NoRun => w = v

\* What a thread has at each point of its task.
ThreadShape ==
    \A w \in Workers :
        /\ job[w].pc = "idle" => job[w].run = NoRun
        /\ job[w].pc \in {"start", "evicting", "load"} => job[w].past = << >>
        /\ job[w].pc = "evicting" <=> lock = w
        /\ job[w].pc = "evicting" => job[w].evict # NoRun
        /\ job[w].pc = "forward" => job[w].run # NoRun

\* A run is evicted after its end has been signalled, which happens once.
EvictedAreSignalled ==
    /\ \A w \in Workers :
          job[w].evict # NoRun => phase[job[w].evict] = "signalled"
    /\ \A r \in evicted : phase[r] = "signalled"

\* A pass that has still to store its keys after the eviction of its run is
\* known to be late.
LateIsKnown == \A r \in evicted : Unstored(r) => r \in late

\* The list holds the keys of the dict once each, at most MaxEntries.
OrderedOnce ==
    /\ Distinct(order)
    /\ ToSet(order) = DOMAIN cache
    /\ Len(order) <= MaxEntries

\* The passes of r that shard n has stored.
Passes(r, n) ==
    IF \/ n < ShardOf(step[r])
       \/ \E w \in Workers :
            /\ job[w].run = r /\ job[w].pc = "report"
            /\ job[w].shard = n
    THEN PassOf(step[r]) + 1 ELSE PassOf(step[r])

\* The tokens of passes 0 .. n - 1.
Prefix(n) == [i \in 1..n |-> i - 1]

\* Nothing has happened to the entries of r that its steps do not explain.
Undisturbed(r) ==
    /\ r \notin disturbed /\ r \notin late /\ r \notin evicted
    /\ \A w \in Workers : job[w].pc = "evicting" => job[w].evict # r

\* The entries of an undisturbed run are the passes its shards have stored.
Follows(r) ==
    \A n \in KvShards :
        /\ <<r, n>> \in DOMAIN cache <=> Passes(r, n) > 0
        /\ <<r, n>> \in DOMAIN cache => cache[<<r, n>>] = Prefix(Passes(r, n))

CacheFollowsSteps == \A r \in Runs : Undisturbed(r) => Follows(r)

Inv ==
    /\ KvTypeOK
    /\ TasksFollowSteps
    /\ OneInFlight
    /\ ThreadShape
    /\ EvictedAreSignalled
    /\ LateIsKnown
    /\ OrderedOnce
    /\ CacheFollowsSteps
    /\ AttendsToPrefix
    /\ EvictedRunsStayGone

-----------------------------------------------------------------------------
(* Sequences of distinct elements. *)

\* Removing an element of a sequence of distinct ones takes that one place out.
LEMMA RemoveFirstDistinct ==
    ASSUME NEW S, NEW s \in Seq(S), Distinct(s), NEW e \in ToSet(s)
    PROVE  /\ RemoveFirst(s, e) \in Seq(S)
           /\ Distinct(RemoveFirst(s, e))
           /\ ToSet(RemoveFirst(s, e)) = ToSet(s) \ {e}
           /\ Len(RemoveFirst(s, e)) = Len(s) - 1
<1>1. PICK p \in 1..Len(s) : s[p] = e
  BY DEF ToSet
<1>2. {i \in 1..Len(s) : s[i] = e} = {p}
  BY <1>1 DEF Distinct
<1>3. Min({p}) = p
  BY DEF Min
<1> DEFINE a == SubSeq(s, 1, p - 1)
           b == SubSeq(s, p + 1, Len(s))
           t == a \o b
<1>4. RemoveFirst(s, e) = t
  BY <1>1, <1>2, <1>3 DEF RemoveFirst, SelectInSeq, RemoveAt
<1>5. /\ a \in Seq(S) /\ Len(a) = p - 1
      /\ \A i \in 1..(p - 1) : a[i] = s[i]
  BY <1>1, ElementOfSeq, SubSeqProperties
<1>6. /\ b \in Seq(S) /\ Len(b) = Len(s) - p
      /\ \A i \in 1..(Len(s) - p) : b[i] = s[p + i]
  BY <1>1, ElementOfSeq, SubSeqProperties
<1>7. /\ t \in Seq(S) /\ Len(t) = Len(s) - 1
      /\ \A i \in 1..(Len(s) - 1) : t[i] = IF i < p THEN s[i] ELSE s[i + 1]
  <2> HIDE DEF a, b
  <2>1. /\ a \o b \in Seq(S) /\ Len(a \o b) = Len(a) + Len(b)
        /\ \A i \in 1..(Len(a) + Len(b)) :
             (a \o b)[i] = IF i <= Len(a) THEN a[i] ELSE b[i - Len(a)]
    BY <1>5, <1>6, ConcatProperties
  <2>2. Len(a) + Len(b) = Len(s) - 1 /\ Len(s) \in Nat
    BY <1>1, <1>5, <1>6
  <2>3. \A i \in 1..(Len(s) - 1) : i >= p => i - (p - 1) \in 1..(Len(s) - p)
    BY <1>1, <2>2
  <2> QED
    BY <1>1, <1>5, <1>6, <2>1, <2>2, <2>3
<1> HIDE DEF t
<1>8. Distinct(t)
  BY <1>1, <1>7 DEF Distinct
<1>9. ToSet(t) = ToSet(s) \ {e}
  <2>1. DOMAIN t = 1..(Len(s) - 1) /\ DOMAIN s = 1..Len(s)
    BY <1>7
  <2>2. ASSUME NEW x \in ToSet(t) PROVE x \in ToSet(s) \ {e}
    <3>1. PICK i \in 1..(Len(s) - 1) : x = t[i]
      BY <2>1, <2>2 DEF ToSet
    <3>2. PICK j \in 1..Len(s) : x = s[j] /\ j # p
      BY <1>1, <1>7, <3>1
    <3> QED
      BY <1>1, <2>1, <3>2 DEF ToSet, Distinct
  <2>3. ASSUME NEW x \in ToSet(s) \ {e} PROVE x \in ToSet(t)
    <3>1. PICK i \in 1..Len(s) : s[i] = x
      BY <2>1, <2>3 DEF ToSet
    <3>2. CASE i < p
      BY <1>1, <1>7, <2>1, <3>1, <3>2 DEF ToSet
    <3>3. CASE i > p
      <4>1. i - 1 \in 1..(Len(s) - 1) /\ t[i - 1] = s[i]
        BY <1>1, <1>7, <3>1, <3>3
      <4> QED
        BY <2>1, <3>1, <4>1 DEF ToSet
    <3> QED
      BY <1>1, <2>3, <3>1, <3>2, <3>3
  <2> QED
    BY <2>2, <2>3
<1> QED
  BY <1>4, <1>7, <1>8, <1>9

\* Appending a new element.
LEMMA AppendDistinct ==
    ASSUME NEW S, NEW s \in Seq(S), Distinct(s), NEW e \in S, e \notin ToSet(s)
    PROVE  /\ Append(s, e) \in Seq(S)
           /\ Distinct(Append(s, e))
           /\ ToSet(Append(s, e)) = ToSet(s) \cup {e}
           /\ Len(Append(s, e)) = Len(s) + 1
<1> DEFINE t == Append(s, e)
<1>1. /\ t \in Seq(S) /\ Len(t) = Len(s) + 1
      /\ \A i \in 1..Len(s) : t[i] = s[i]
      /\ t[Len(s) + 1] = e
  BY AppendProperties
<1>2. DOMAIN t = 1..(Len(s) + 1) /\ DOMAIN s = 1..Len(s) /\ Len(s) \in Nat
  BY <1>1
<1> HIDE DEF t
<1>3. \A i \in 1..Len(s) : s[i] # e
  BY <1>2 DEF ToSet
<1>4. Distinct(t)
  BY <1>1, <1>2, <1>3 DEF Distinct
<1>5. ToSet(t) = ToSet(s) \cup {e}
  BY <1>1, <1>2 DEF ToSet
<1> QED
  BY <1>1, <1>4, <1>5 DEF t

\* Dropping the first d elements of a sequence of distinct ones.
LEMMA DropDistinct ==
    ASSUME NEW S, NEW s \in Seq(S), Distinct(s), NEW d \in 0..Len(s)
    PROVE  LET t == SubSeq(s, d + 1, Len(s)) IN
           /\ t \in Seq(S)
           /\ Distinct(t)
           /\ ToSet(t) = ToSet(s) \ ToSet(SubSeq(s, 1, d))
           /\ Len(t) = Len(s) - d
<1> DEFINE t == SubSeq(s, d + 1, Len(s))
           a == SubSeq(s, 1, d)
<1>1. /\ t \in Seq(S) /\ Len(t) = Len(s) - d
      /\ \A i \in 1..(Len(s) - d) : t[i] = s[d + i]
  BY ElementOfSeq, SubSeqProperties
<1>2. /\ a \in Seq(S) /\ Len(a) = d
      /\ \A i \in 1..d : a[i] = s[i]
  BY ElementOfSeq, SubSeqProperties
<1>3. /\ DOMAIN t = 1..(Len(s) - d) /\ DOMAIN a = 1..d
      /\ DOMAIN s = 1..Len(s) /\ Len(s) \in Nat
  BY <1>1, <1>2
<1> HIDE DEF t, a
<1>4. Distinct(t)
  BY <1>1, <1>3 DEF Distinct
<1>5. ASSUME NEW x \in ToSet(t) PROVE x \in ToSet(s) \ ToSet(a)
  <2>1. PICK i \in 1..(Len(s) - d) : x = s[d + i]
    BY <1>1, <1>3, <1>5 DEF ToSet
  <2>2. \A j \in 1..d : a[j] # x
    BY <1>2, <1>3, <2>1 DEF Distinct
  <2> QED
    BY <1>3, <2>1, <2>2 DEF ToSet
<1>6. ASSUME NEW x \in ToSet(s) \ ToSet(a) PROVE x \in ToSet(t)
  <2>1. PICK i \in 1..Len(s) : x = s[i]
    BY <1>3, <1>6 DEF ToSet
  <2>2. i > d
    BY <1>2, <1>3, <1>6, <2>1 DEF ToSet
  <2>3. i - d \in 1..(Len(s) - d) /\ t[i - d] = x
    BY <1>1, <1>3, <2>1, <2>2
  <2> QED
    BY <1>3, <2>3 DEF ToSet
<1> QED
  BY <1>1, <1>4, <1>5, <1>6 DEF t, a

\* A sequence of distinct elements is as long as its set is large.
LEMMA DistinctCardinality ==
    ASSUME NEW S, NEW s \in Seq(S), Distinct(s)
    PROVE  IsFiniteSet(ToSet(s)) /\ Cardinality(ToSet(s)) = Len(s)
<1>1. DOMAIN s = 1..Len(s) /\ Len(s) \in Nat
  OBVIOUS
<1>2. s \in Bijection(1..Len(s), ToSet(s))
  BY <1>1 DEF Bijection, Injection, Surjection, IsInjective, ToSet, Distinct
<1>3. ExistsBijection(1..Len(s), ToSet(s))
  BY <1>2 DEF ExistsBijection
<1>4. IsFiniteSet(1..Len(s)) /\ Cardinality(1..Len(s)) = Len(s)
  BY <1>1, FS_Interval
<1> QED
  BY <1>3, <1>4, FS_Bijection

-----------------------------------------------------------------------------
(* Passes and shards. *)

\* A step is a pass of a shard.
LEMMA DivMod ==
    ASSUME NEW n \in Nat
    PROVE  /\ PassOf(n) \in Nat
           /\ ShardOf(n) \in KvShards
           /\ n = (NumShards * PassOf(n)) + ShardOf(n)
<1>1. ShardOf(n) \in KvShards
  BY KvCacheAssumption DEF ShardOf, KvShards
<1>2. n = (NumShards * PassOf(n)) + ShardOf(n)
  BY KvCacheAssumption DEF ShardOf, PassOf
<1>3. PassOf(n) \in Nat
  BY KvCacheAssumption DEF PassOf
<1> QED
  BY <1>1, <1>2, <1>3

\* Only one pair of pass and shard stands for a step.
LEMMA DivModUnique ==
    ASSUME NEW n \in Nat, NEW p \in Nat, NEW m \in KvShards,
           n = (NumShards * p) + m
    PROVE  PassOf(n) = p /\ ShardOf(n) = m
<1> DEFINE q == PassOf(n)
           k == ShardOf(n)
<1>1. q \in Nat /\ k \in KvShards /\ (NumShards * q) + k = (NumShards * p) + m
  BY DivMod
<1>2. NumShards \in Nat \ {0} /\ m \in 0..(NumShards - 1) /\ k \in 0..(NumShards - 1)
  BY <1>1, KvCacheAssumption DEF KvShards
<1> HIDE DEF q, k
<1>3. CASE q > p
  <2>1. NumShards * (q - p) >= NumShards
    BY <1>1, <1>2, <1>3
  <2>2. (NumShards * q) - (NumShards * p) >= NumShards
    BY <1>1, <1>2, <2>1
  <2> QED
    BY <1>1, <1>2, <2>2
<1>4. CASE p > q
  <2>1. NumShards * (p - q) >= NumShards
    BY <1>1, <1>2, <1>4
  <2>2. (NumShards * p) - (NumShards * q) >= NumShards
    BY <1>1, <1>2, <2>1
  <2> QED
    BY <1>1, <1>2, <2>2
<1>5. CASE p = q
  BY <1>1, <1>2, <1>5 DEF q, k
<1> QED
  BY <1>1, <1>3, <1>4, <1>5 DEF q, k

\* The next step is the next shard's, or the next pass of the first.
LEMMA NextStep ==
    ASSUME NEW n \in Nat
    PROVE  IF ShardOf(n) + 1 < NumShards
           THEN PassOf(n + 1) = PassOf(n) /\ ShardOf(n + 1) = ShardOf(n) + 1
           ELSE PassOf(n + 1) = PassOf(n) + 1 /\ ShardOf(n + 1) = 0
<1>0. PassOf(n) \in Nat /\ ShardOf(n) \in 0..(NumShards - 1)
  BY DivMod DEF KvShards
<1>1. n = (NumShards * PassOf(n)) + ShardOf(n)
  BY DivMod
<1>2. CASE ShardOf(n) + 1 < NumShards
  <2>1. n + 1 = (NumShards * PassOf(n)) + (ShardOf(n) + 1)
    BY <1>0, <1>1, KvCacheAssumption
  <2>2. ShardOf(n) + 1 \in KvShards
    BY <1>0, <1>2, KvCacheAssumption DEF KvShards
  <2> QED
    BY <1>0, <1>2, <2>1, <2>2, DivModUnique
<1>3. CASE ~(ShardOf(n) + 1 < NumShards)
  <2>1. n + 1 = (NumShards * (PassOf(n) + 1)) + 0
    <3> DEFINE q == PassOf(n)
    <3>1. ShardOf(n) = NumShards - 1
      BY <1>0, <1>3, KvCacheAssumption
    <3>2. n + 1 = (NumShards * q) + NumShards
      BY <1>0, <1>1, <3>1, KvCacheAssumption
    <3> HIDE DEF q
    <3>3. q \in Nat => NumShards * (q + 1) = (NumShards * q) + NumShards
      BY KvCacheAssumption
    <3> QED
      BY <1>0, <1>1, <3>2, <3>3 DEF q
  <2>2. 0 \in KvShards /\ PassOf(n) + 1 \in Nat
    BY <1>0, KvCacheAssumption DEF KvShards
  <2>3. PassOf(n + 1) = PassOf(n) + 1 /\ ShardOf(n + 1) = 0
    BY <2>1, <2>2, DivModUnique
  <2> QED
    BY <1>3, <2>3
<1> QED
  BY <1>2, <1>3

\* The steps of a run are passes of its shards.
LEMMA StepsAreTyped ==
    ASSUME NEW n \in Nat, n < NumPasses * NumShards
    PROVE  PassOf(n) \in 0..(NumPasses - 1) /\ ShardOf(n) \in KvShards
<1>1. PassOf(n) \in Nat /\ NumShards * PassOf(n) <= n /\ ShardOf(n) \in KvShards
  BY DivMod, KvCacheAssumption DEF KvShards
<1>2. PassOf(n) >= NumPasses => NumShards * PassOf(n) >= NumPasses * NumShards
  BY <1>1, KvCacheAssumption
<1>3. PassOf(n) < NumPasses
  BY <1>1, <1>2, KvCacheAssumption
<1> QED
  BY <1>1, <1>3, KvCacheAssumption

-----------------------------------------------------------------------------
(* Storing an entry. *)

\* A put moves its key to the end, or adds it there.
LEMMA BumpedDistinct ==
    ASSUME order \in Seq(Keys), Distinct(order), ToSet(order) = DOMAIN cache,
           NEW k \in Keys
    PROVE  /\ Bumped(k) \in Seq(Keys)
           /\ Distinct(Bumped(k))
           /\ ToSet(Bumped(k)) = DOMAIN cache \cup {k}
<1>1. CASE k \in DOMAIN cache
  <2> DEFINE s == RemoveFirst(order, k)
  <2>1. s \in Seq(Keys) /\ Distinct(s) /\ ToSet(s) = DOMAIN cache \ {k}
    BY <1>1, RemoveFirstDistinct
  <2>2. Bumped(k) = Append(s, k)
    BY <1>1 DEF Bumped
  <2> HIDE DEF s
  <2> QED
    BY <1>1, <2>1, <2>2, AppendDistinct
<1>2. CASE k \notin DOMAIN cache
  <2>1. Bumped(k) = Append(order, k)
    BY <1>2 DEF Bumped
  <2> QED
    BY <1>2, <2>1, AppendDistinct
<1> QED
  BY <1>1, <1>2

\* What _kv_cache_put does to dict and list: the entry is stored, and what
\* the cap takes disturbs its runs.
LEMMA StoreKeepsOrder ==
    ASSUME KvTypeOK, OrderedOnce, NEW w \in Workers, KeyOf(w) \in Keys, StorePast(w)
    PROVE  \E gone \in SUBSET Keys :
             /\ order' \in Seq(Keys)
             /\ OrderedOnce'
             /\ DOMAIN cache' = (DOMAIN cache \cup {KeyOf(w)}) \ gone
             /\ \A x \in DOMAIN cache' :
                  cache'[x] = IF x = KeyOf(w) THEN Extended(w) ELSE cache[x]
             /\ disturbed' = disturbed \cup {x[1] : x \in gone}
<1> DEFINE k == KeyOf(w)
           live == DOMAIN cache \cup {k}
           drop == IF Cardinality(live) > MaxEntries
                   THEN Cardinality(live) - MaxEntries ELSE 0
           s == Bumped(k)
           gone == ToSet(SubSeq(s, 1, drop))
<1>1. s \in Seq(Keys) /\ Distinct(s) /\ ToSet(s) = live
  BY BumpedDistinct DEF KvTypeOK, OrderedOnce
<1>2. /\ order' = SubSeq(s, drop + 1, Len(s))
      /\ cache' = [x \in live \ gone |-> IF x = k THEN Extended(w) ELSE cache[x]]
      /\ disturbed' = disturbed \cup {x[1] : x \in gone}
  BY DEF StorePast
<1> HIDE DEF k, s
<1>3. Cardinality(live) = Len(s) /\ Len(s) \in Nat
  <2> HIDE DEF live
  <2>1. Cardinality(ToSet(s)) = Len(s)
    BY <1>1, DistinctCardinality
  <2>2. Len(s) \in Nat
    BY <1>1, LenProperties
  <2> QED
    BY <1>1, <2>1, <2>2
<1>4. drop \in 0..Len(s) /\ Len(s) - drop <= MaxEntries
  BY <1>3, KvCacheAssumption
<1> HIDE DEF drop
<1>5. /\ order' \in Seq(Keys)
      /\ Distinct(order')
      /\ ToSet(order') = live \ gone
      /\ Len(order') = Len(s) - drop
  BY <1>1, <1>2, <1>4, DropDistinct
<1>6. gone \subseteq live
  <2>1. SubSeq(s, 1, drop) \in Seq(live)
    <3>1. \A i \in 1..drop : s[i] \in live
      BY <1>1, <1>4 DEF ToSet
    <3> QED
      BY <1>4, <3>1, SubSeqProperties
  <2> QED
    BY <2>1, ElementOfSeq DEF ToSet
<1>7. live \subseteq Keys
  BY DEF KvTypeOK, k
<1>8. DOMAIN cache' = live \ gone
  BY <1>2
<1> HIDE DEF gone
<1>9. OrderedOnce'
  BY <1>3, <1>4, <1>5, <1>8 DEF OrderedOnce
<1>10. \A x \in DOMAIN cache' : cache'[x] = IF x = k THEN Extended(w) ELSE cache[x]
  BY <1>2
<1> QED
  BY <1>2, <1>5, <1>6, <1>7, <1>8, <1>9, <1>10 DEF k

-----------------------------------------------------------------------------
(* The invariant. *)

\* Nothing is cached and nobody works.
LEMMA InitInv == KvInit => Inv
<1> SUFFICES ASSUME KvInit PROVE Inv
  OBVIOUS
<1> USE DEF KvInit
<1>1. DOMAIN cache = {} /\ order \in Seq(Keys) /\ Len(order) = 0
  OBVIOUS
<1>2. \A w \in Workers : job[w] = Idle
  OBVIOUS
<1>3. KvTypeOK
  <2>1. Idle \in [pc : TaskPcs, run : Runs \cup {NoRun}, shard : KvShards,
                  pass : 0..(NumPasses - 1), evict : Runs \cup {NoRun},
                  past : Seq(0..(NumPasses - 1))]
    BY KvCacheAssumption DEF Idle, TaskPcs, KvShards
  <2>2. 0 \in Steps /\ 0 \in 0..MaxLost
    BY KvCacheAssumption DEF Steps
  <2> QED
    BY <1>1, <2>1, <2>2 DEF KvTypeOK, Phases
<1>4. TasksFollowSteps /\ OneInFlight /\ ThreadShape
  BY <1>2, KvCacheAssumption DEF TasksFollowSteps, OneInFlight, ThreadShape,
     Idle
<1>5. EvictedAreSignalled /\ LateIsKnown /\ EvictedRunsStayGone
  BY <1>2 DEF EvictedAreSignalled, LateIsKnown, EvictedRunsStayGone, Idle
<1>6. OrderedOnce
  BY <1>1, KvCacheAssumption DEF OrderedOnce, Distinct, ToSet
<1>7. AttendsToPrefix
  BY <1>2 DEF AttendsToPrefix, Idle
<1>8. CacheFollowsSteps
  <2>1. PassOf(0) = 0 /\ ShardOf(0) = 0
    <3>1. 0 = (NumShards * 0) + 0 /\ 0 \in KvShards
      BY KvCacheAssumption DEF KvShards
    <3> QED
      BY <3>1, DivModUnique
  <2>2. \A r \in Runs, n \in KvShards : Passes(r, n) = 0
    BY <1>2, <2>1 DEF Passes, Idle, KvShards
  <2> QED
    BY <1>1, <2>2 DEF CacheFollowsSteps, Follows
<1> QED
  BY <1>3, <1>4, <1>5, <1>6, <1>7, <1>8 DEF Inv

\* What a step may do, with the values it ranges over.
LEMMA StepCases ==
    ASSUME [KvNext]_kvVars
    PROVE  \/ \E w \in Workers, r \in Runs, e \in Runs \cup {NoRun} :
                 IssuePass(w, r, e)
           \/ \E w \in Workers, e \in Runs : IssueEviction(w, e)
           \/ \E r \in Runs : StartRun(r) \/ EndRun(r)
           \/ \E w \in Workers : Thread(w)
           \/ UNCHANGED kvVars
BY DEF KvNext, Coordinator, Quiescent

\* What a thread may be executing.
Task == [pc : TaskPcs, run : Runs \cup {NoRun}, shard : KvShards,
         pass : 0..(NumPasses - 1), evict : Runs \cup {NoRun},
         past : Seq(0..(NumPasses - 1))]

\* A thread that moves on keeps its task; a look-up that hits gives it a past.
LEMMA TaskMoves ==
    ASSUME KvTypeOK, NEW w \in Workers, NEW p \in TaskPcs
    PROVE  [job EXCEPT ![w].pc = p] \in [Workers -> Task]
BY DEF KvTypeOK, Task

\* Taking an entry from the cache moves a task to its forward pass.
LEMMA TaskGetsPast ==
    ASSUME KvTypeOK, NEW w \in Workers, NEW h \in Seq(0..(NumPasses - 1))
    PROVE  [job EXCEPT ![w].pc = "forward", ![w].past = h] \in [Workers -> Task]
<1>1. job[w] \in Task
  BY DEF KvTypeOK, Task
<1>2. [job[w] EXCEPT !.pc = "forward", !.past = h] \in Task
  BY <1>1 DEF Task, TaskPcs
<1> QED
  BY <1>2 DEF KvTypeOK, Task

\* Types are kept, the numbers of passes and shards among them.
LEMMA NextTypeOK == Inv /\ [KvNext]_kvVars => KvTypeOK'
<1> SUFFICES ASSUME Inv, [KvNext]_kvVars PROVE KvTypeOK'
  OBVIOUS
<1> USE DEF Inv, KvTypeOK, TaskPcs, Phases
<1> USE DEF Task
<1>0. Idle \in Task
  BY KvCacheAssumption DEF Idle, KvShards
<1>1. ASSUME NEW w \in Workers, NEW r \in Runs, NEW e \in Runs \cup {NoRun},
             IssuePass(w, r, e)
      PROVE  KvTypeOK'
  <2>1. step[r] \in Nat /\ step[r] < NumPasses * NumShards
    BY <1>1 DEF IssuePass, Steps
  <2>2. PassOf(step[r]) \in 0..(NumPasses - 1) /\ ShardOf(step[r]) \in KvShards
    BY <2>1, StepsAreTyped
  <2>3. job' \in [Workers -> Task]
    BY <1>0, <1>1, <2>2 DEF IssuePass, Idle
  <2>4. phase' \in [Runs -> Phases]
    BY <1>1 DEF IssuePass, Signalled
  <2> QED
    BY <1>1, <2>3, <2>4 DEF IssuePass, cacheVars, history
<1>2. ASSUME NEW w \in Workers, NEW e \in Runs, IssueEviction(w, e)
      PROVE  KvTypeOK'
  <2>1. job' \in [Workers -> Task]
    BY <1>0, <1>2 DEF IssueEviction, Idle
  <2>2. phase' \in [Runs -> Phases]
    BY <1>2 DEF IssueEviction, Signalled
  <2> QED
    BY <1>2, <2>1, <2>2 DEF IssueEviction, cacheVars, history
<1>3. ASSUME NEW r \in Runs, StartRun(r) \/ EndRun(r)
      PROVE  KvTypeOK'
  BY <1>3 DEF StartRun, EndRun, cacheVars, history
<1>4. ASSUME NEW w \in Workers, SkipEvict(w) \/ BeginEvict(w)
      PROVE  KvTypeOK'
  <2>1. job' \in [Workers -> Task]
    <3>1. CASE SkipEvict(w)
      BY <3>1, TaskMoves DEF SkipEvict
    <3>2. CASE BeginEvict(w)
      BY <3>2, TaskMoves DEF BeginEvict
    <3> QED
      BY <1>4, <3>1, <3>2
  <2> QED
    BY <1>4, <2>1 DEF SkipEvict, BeginEvict, cacheVars, poolVars, history
<1>5. ASSUME NEW w \in Workers, NEW k \in Keys, EvictKey(w, k)
      PROVE  KvTypeOK'
  <2>1. order' \in Seq(Keys)
    BY <1>5, RemoveFirstDistinct DEF EvictKey, OrderedOnce
  <2>2. /\ DOMAIN cache' = DOMAIN cache \ {k}
        /\ \A x \in DOMAIN cache' : cache'[x] = cache[x]
    BY <1>5 DEF EvictKey, Without
  <2>3. /\ DOMAIN cache' \subseteq Keys
        /\ \A x \in DOMAIN cache' : cache'[x] \in Seq(0..(NumPasses - 1))
    BY <2>2
  <2> QED
    <3>1. UNCHANGED <<lock, job, step, phase, lost, evicted, disturbed, late>>
      BY <1>5 DEF EvictKey, poolVars, history
    <3> QED
      BY <2>1, <2>3, <3>1
<1>6. ASSUME NEW w \in Workers, EndEvict(w)
      PROVE  KvTypeOK'
  <2>1. job' \in [Workers -> Task]
    BY <1>6, TaskMoves DEF EndEvict
  <2>2. job[w].evict \in Runs
    BY <1>6 DEF EndEvict, ThreadShape
  <2>3. evicted' \subseteq Runs /\ late' \subseteq Runs
    BY <1>6, <2>2 DEF EndEvict
  <2> QED
    BY <1>6, <2>1, <2>3 DEF EndEvict, poolVars
<1>7. ASSUME NEW w \in Workers, RunUncached(w) \/ CacheMiss(w)
      PROVE  KvTypeOK'
  <2>1. job' \in [Workers -> Task]
    <3>1. CASE RunUncached(w)
      BY <3>1, TaskMoves DEF RunUncached
    <3>2. CASE CacheMiss(w)
      BY <3>2, TaskMoves DEF CacheMiss
    <3> QED
      BY <1>7, <3>1, <3>2
  <2> QED
    BY <1>7, <2>1 DEF RunUncached, CacheMiss, cacheVars, poolVars, history
<1>8. ASSUME NEW w \in Workers, CacheHit(w)
      PROVE  KvTypeOK'
  <2>1. KeyOf(w) \in Keys /\ cache[KeyOf(w)] \in Seq(0..(NumPasses - 1))
    BY <1>8 DEF CacheHit
  <2>2. RemoveFirst(order, KeyOf(w)) \in Seq(Keys)
    BY <1>8, <2>1, RemoveFirstDistinct DEF CacheHit, OrderedOnce
  <2>3. order' \in Seq(Keys)
    BY <1>8, <2>1, <2>2 DEF CacheHit
  <2>4. job' \in [Workers -> Task]
    <3> HIDE DEF Inv, KvTypeOK, TaskPcs, Phases, Task
    <3>1. [job EXCEPT ![w].pc = "forward", ![w].past = cache[KeyOf(w)]]
             \in [Workers -> Task]
      BY <2>1, TaskGetsPast DEF Inv
    <3> QED
      BY <1>8, <3>1 DEF CacheHit
  <2> QED
    BY <1>8, <2>3, <2>4 DEF CacheHit, poolVars, history
<1>9. ASSUME NEW w \in Workers, StorePast(w)
      PROVE  KvTypeOK'
  <2>1. job' \in [Workers -> Task]
    BY <1>9, TaskMoves DEF StorePast
  <2>2. job[w].run \in Runs /\ KeyOf(w) \in Keys
    BY <1>9 DEF StorePast, ThreadShape, KeyOf, Keys
  <2>3. Extended(w) \in Seq(0..(NumPasses - 1))
    BY DEF Extended
  <2>4. PICK gone \in SUBSET Keys :
          /\ order' \in Seq(Keys)
          /\ DOMAIN cache' = (DOMAIN cache \cup {KeyOf(w)}) \ gone
          /\ \A x \in DOMAIN cache' :
               cache'[x] = IF x = KeyOf(w) THEN Extended(w) ELSE cache[x]
          /\ disturbed' = disturbed \cup {x[1] : x \in gone}
    BY <1>9, <2>2, StoreKeepsOrder
  <2>5. /\ DOMAIN cache' \subseteq Keys
        /\ \A x \in DOMAIN cache' : cache'[x] \in Seq(0..(NumPasses - 1))
    BY <2>2, <2>3, <2>4
  <2>6. disturbed' \subseteq Runs
    BY <2>4 DEF Keys
  <2> QED
    BY <1>9, <2>1, <2>4, <2>5, <2>6 DEF StorePast, poolVars
<1>10. ASSUME NEW w \in Workers, Report(w)
       PROVE  KvTypeOK'
  <2>1. step' \in [Runs -> Steps]
    <3> DEFINE top == NumPasses * NumShards
    <3>1. top \in Nat /\ Steps = 0..top
      BY KvCacheAssumption DEF Steps
    <3>2. job[w].run \in Runs =>
            step[job[w].run] \in 0..top /\ step[job[w].run] < top
      BY KvCacheAssumption DEF TasksFollowSteps, Steps
    <3> HIDE DEF top
    <3>3. job[w].run \in Runs => step[job[w].run] + 1 \in Steps
      BY <3>1, <3>2
    <3> QED
      BY <1>10, <3>3 DEF Report
  <2> QED
    BY <1>0, <1>10, <2>1 DEF Report, cacheVars, history
<1>11. ASSUME NEW w \in Workers, ReportLost(w)
       PROVE  KvTypeOK'
  BY <1>0, <1>11, KvCacheAssumption DEF ReportLost, cacheVars
<1>12. ASSUME NEW w \in Workers, PassRaises(w)
       PROVE  KvTypeOK'
  BY <1>0, <1>12 DEF PassRaises, cacheVars, history
<1>13. CASE UNCHANGED kvVars
  BY <1>13 DEF kvVars, cacheVars
<1> QED
  BY <1>1, <1>2, <1>3, <1>4, <1>5, <1>6, <1>7, <1>8, <1>9, <1>10, <1>11,
     <1>12, <1>13, StepCases DEF Thread

\* A thread keeps its task until it is done with it, and changes no other's.
MovesOrEnds(w) ==
    /\ \A v \in Workers \ {w} : job'[v] = job[v]
    /\ \/ /\ job'[w].run = job[w].run
          /\ job'[w].shard = job[w].shard
          /\ job'[w].pass = job[w].pass
          /\ job'[w].evict = job[w].evict
          /\ job[w].pc # "report"
       \/ job'[w] = Idle

\* Every step of a thread is of this kind.
LEMMA ThreadMovesOrEnds ==
    ASSUME KvTypeOK, NEW w \in Workers, Thread(w)
    PROVE  MovesOrEnds(w)
<1> USE DEF KvTypeOK, MovesOrEnds
<1>1. CASE SkipEvict(w) \/ BeginEvict(w) \/ EndEvict(w)
  BY <1>1 DEF SkipEvict, BeginEvict, EndEvict
<1>2. ASSUME NEW k \in Keys, EvictKey(w, k) PROVE MovesOrEnds(w)
  BY <1>2 DEF EvictKey
<1>3. CASE RunUncached(w) \/ CacheMiss(w) \/ CacheHit(w)
  BY <1>3 DEF RunUncached, CacheMiss, CacheHit
<1>4. CASE StorePast(w)
  BY <1>4 DEF StorePast
<1>5. CASE Report(w) \/ ReportLost(w) \/ PassRaises(w)
  BY <1>5 DEF Report, ReportLost, PassRaises
<1> QED
  BY <1>1, <1>2, <1>3, <1>4, <1>5 DEF Thread

\* A pass is issued only when no other of its run is at work.
LEMMA NextOneInFlight == Inv /\ [KvNext]_kvVars => OneInFlight'
<1> SUFFICES ASSUME Inv, [KvNext]_kvVars PROVE OneInFlight'
  OBVIOUS
<1> USE DEF Inv, OneInFlight
<1>1. ASSUME NEW w \in Workers, NEW r \in Runs, NEW e \in Runs \cup {NoRun},
             IssuePass(w, r, e)
      PROVE  OneInFlight'
  BY <1>1 DEF IssuePass, InFlight, Idle, KvTypeOK
<1>2. ASSUME NEW w \in Workers, NEW e \in Runs, IssueEviction(w, e)
      PROVE  OneInFlight'
  BY <1>2 DEF IssueEviction, Idle, KvTypeOK
<1>3. ASSUME NEW r \in Runs, StartRun(r) \/ EndRun(r)
      PROVE  OneInFlight'
  BY <1>3 DEF StartRun, EndRun
<1>4. ASSUME NEW w \in Workers, Thread(w)
      PROVE  OneInFlight'
  BY <1>4, ThreadMovesOrEnds DEF MovesOrEnds, Idle
<1>5. CASE UNCHANGED kvVars
  BY <1>5 DEF kvVars
<1> QED
  BY <1>1, <1>2, <1>3, <1>4, <1>5, StepCases

\* A step counts when the one task of its run reports.
LEMMA NextTasksFollowSteps == Inv /\ [KvNext]_kvVars => TasksFollowSteps'
<1> SUFFICES ASSUME Inv, [KvNext]_kvVars PROVE TasksFollowSteps'
  OBVIOUS
<1> USE DEF Inv, TasksFollowSteps
<1>1. ASSUME NEW w \in Workers, NEW r \in Runs, NEW e \in Runs \cup {NoRun},
             IssuePass(w, r, e)
      PROVE  TasksFollowSteps'
  BY <1>1 DEF IssuePass, Idle, KvTypeOK
<1>2. ASSUME NEW w \in Workers, NEW e \in Runs, IssueEviction(w, e)
      PROVE  TasksFollowSteps'
  BY <1>2 DEF IssueEviction, Idle, KvTypeOK
<1>3. ASSUME NEW r \in Runs, StartRun(r) \/ EndRun(r)
      PROVE  TasksFollowSteps'
  BY <1>3 DEF StartRun, EndRun
<1>4. ASSUME NEW w \in Workers, Thread(w)
      PROVE  TasksFollowSteps'
  <2>1. CASE Report(w)
    <3>1. ASSUME NEW v \in Workers, job'[v].run # NoRun
          PROVE  /\ job'[v] = job[v]
                 /\ job[v].run # job[w].run
                 /\ step'[job[v].run] = step[job[v].run]
      BY <2>1, <3>1 DEF Report, KvTypeOK, Idle, OneInFlight
    <3> QED
      BY <3>1
  <2>2. CASE ~Report(w)
    <3>1. UNCHANGED step
      BY <1>4, <2>2 DEF Thread, SkipEvict, BeginEvict, EvictKey, EndEvict,
         RunUncached, CacheMiss, CacheHit, StorePast, ReportLost, PassRaises,
         poolVars
    <3> QED
      BY <1>4, <3>1, ThreadMovesOrEnds DEF MovesOrEnds, Idle
  <2> QED
    BY <2>1, <2>2
<1>5. CASE UNCHANGED kvVars
  BY <1>5 DEF kvVars
<1> QED
  BY <1>1, <1>2, <1>3, <1>4, <1>5, StepCases

\* Only the evicting thread holds the lock.
LEMMA NextThreadShape == Inv /\ [KvNext]_kvVars => ThreadShape'
<1> SUFFICES ASSUME Inv, [KvNext]_kvVars PROVE ThreadShape'
  OBVIOUS
<1> USE DEF Inv, ThreadShape, KvTypeOK
<1>1. ASSUME NEW w \in Workers, NEW r \in Runs, NEW e \in Runs \cup {NoRun},
             IssuePass(w, r, e)
      PROVE  ThreadShape'
  BY <1>1 DEF IssuePass, Idle, cacheVars
<1>2. ASSUME NEW w \in Workers, NEW e \in Runs, IssueEviction(w, e)
      PROVE  ThreadShape'
  BY <1>2 DEF IssueEviction, Idle, cacheVars
<1>3. ASSUME NEW r \in Runs, StartRun(r) \/ EndRun(r)
      PROVE  ThreadShape'
  BY <1>3 DEF StartRun, EndRun, cacheVars
<1>4. ASSUME NEW w \in Workers, SkipEvict(w) \/ BeginEvict(w)
      PROVE  ThreadShape'
  <2>1. CASE SkipEvict(w)
    BY <2>1, KvCacheAssumption DEF SkipEvict, cacheVars
  <2>2. CASE BeginEvict(w)
    BY <2>2, KvCacheAssumption DEF BeginEvict
  <2> QED
    BY <1>4, <2>1, <2>2
<1>5. ASSUME NEW w \in Workers, NEW k \in Keys, EvictKey(w, k)
      PROVE  ThreadShape'
  BY <1>5 DEF EvictKey
<1>6. ASSUME NEW w \in Workers, EndEvict(w)
      PROVE  ThreadShape'
  BY <1>6, KvCacheAssumption DEF EndEvict
<1>7. ASSUME NEW w \in Workers, RunUncached(w) \/ CacheMiss(w)
      PROVE  ThreadShape'
  <2>1. CASE RunUncached(w)
    BY <2>1 DEF RunUncached, cacheVars
  <2>2. CASE CacheMiss(w)
    BY <2>2 DEF CacheMiss, cacheVars
  <2> QED
    BY <1>7, <2>1, <2>2
<1>8. ASSUME NEW w \in Workers, CacheHit(w)
      PROVE  ThreadShape'
  BY <1>8 DEF CacheHit
<1>9. ASSUME NEW w \in Workers, StorePast(w)
      PROVE  ThreadShape'
  BY <1>9 DEF StorePast
<1>10. ASSUME NEW w \in Workers, Report(w) \/ ReportLost(w) \/ PassRaises(w)
       PROVE  ThreadShape'
  <2>1. CASE Report(w)
    BY <2>1 DEF Report, Idle, cacheVars
  <2>2. CASE ReportLost(w)
    BY <2>2 DEF ReportLost, Idle, cacheVars
  <2>3. CASE PassRaises(w)
    BY <2>3 DEF PassRaises, Idle, cacheVars
  <2> QED
    BY <1>10, <2>1, <2>2, <2>3
<1>11. CASE UNCHANGED kvVars
  BY <1>11 DEF kvVars, cacheVars
<1> QED
  BY <1>1, <1>2, <1>3, <1>4, <1>5, <1>6, <1>7, <1>8, <1>9, <1>10, <1>11,
     StepCases DEF Thread

\* Only a run that is over is signalled, and it stays so.
LEMMA NextEvictedAreSignalled == Inv /\ [KvNext]_kvVars => EvictedAreSignalled'
<1> SUFFICES ASSUME Inv, [KvNext]_kvVars PROVE EvictedAreSignalled'
  OBVIOUS
<1> USE DEF Inv, EvictedAreSignalled, KvTypeOK
<1>1. ASSUME NEW w \in Workers, NEW r \in Runs, NEW e \in Runs \cup {NoRun},
             IssuePass(w, r, e)
      PROVE  EvictedAreSignalled'
  BY <1>1 DEF IssuePass, Idle, Signalled
<1>2. ASSUME NEW w \in Workers, NEW e \in Runs, IssueEviction(w, e)
      PROVE  EvictedAreSignalled'
  BY <1>2 DEF IssueEviction, Idle, Signalled
<1>3. ASSUME NEW r \in Runs, StartRun(r) \/ EndRun(r)
      PROVE  EvictedAreSignalled'
  BY <1>3 DEF StartRun, EndRun
<1>4. ASSUME NEW w \in Workers, Thread(w)
      PROVE  EvictedAreSignalled'
  <2>1. \A v \in Workers : job'[v].evict \in {job[v].evict, NoRun}
    <3>1. MovesOrEnds(w)
      BY <1>4, ThreadMovesOrEnds
    <3> HIDE DEF Inv, EvictedAreSignalled, KvTypeOK
    <3> QED
      BY <3>1 DEF MovesOrEnds, Idle
  <2>2. \A r \in Runs : phase[r] = "signalled" => phase'[r] = "signalled"
    BY <1>4 DEF Thread, SkipEvict, BeginEvict, EvictKey, EndEvict, RunUncached,
       CacheMiss, CacheHit, StorePast, Report, ReportLost, PassRaises, poolVars
  <2>3. evicted' = evicted \/ \E v \in Workers :
           /\ job[v].evict # NoRun
           /\ evicted' = evicted \cup {job[v].evict}
    BY <1>4 DEF Thread, SkipEvict, BeginEvict, EvictKey, EndEvict, RunUncached,
       CacheMiss, CacheHit, StorePast, Report, ReportLost, PassRaises, ThreadShape
  <2>4. \A v \in Workers : job[v].evict \in Runs \cup {NoRun}
    OBVIOUS
  <2> QED
    BY <2>1, <2>2, <2>3, <2>4
<1>5. CASE UNCHANGED kvVars
  BY <1>5 DEF kvVars
<1> QED
  BY <1>1, <1>2, <1>3, <1>4, <1>5, StepCases

\* A thread's own step leaves no run with an unstored pass it did not have.
LEMMA UnstoredWas ==
    ASSUME KvTypeOK, NEW w \in Workers, Thread(w), NEW r \in Runs, Unstored(r)'
    PROVE  Unstored(r)
BY ThreadMovesOrEnds, KvCacheAssumption DEF MovesOrEnds, Unstored, Idle

\* An eviction notes the pass it has overtaken, and no pass starts after it.
LEMMA NextLateIsKnown == Inv /\ [KvNext]_kvVars => LateIsKnown'
<1> SUFFICES ASSUME Inv, [KvNext]_kvVars, NEW r \in evicted', Unstored(r)'
             PROVE  r \in late'
  BY DEF LateIsKnown
<1>0. r \in Runs
  BY NextTypeOK DEF KvTypeOK
<1>1. ASSUME NEW w \in Workers, NEW q \in Runs, NEW e \in Runs \cup {NoRun},
             IssuePass(w, q, e)
      PROVE  r \in late'
  <2>1. r \in evicted /\ UNCHANGED late /\ phase[q] # "signalled"
    BY <1>1 DEF IssuePass, history
  <2>2. q # r
    BY <2>1 DEF Inv, EvictedAreSignalled
  <2>3. Unstored(r)
    BY <1>1, <2>2 DEF Unstored, IssuePass, Inv, KvTypeOK, Idle
  <2> QED
    BY <2>1, <2>3 DEF Inv, LateIsKnown
<1>2. ASSUME NEW w \in Workers, NEW e \in Runs, IssueEviction(w, e)
      PROVE  r \in late'
  <2>1. Unstored(r)
    BY <1>0, <1>2, KvCacheAssumption DEF Unstored, IssueEviction, Inv, KvTypeOK,
       Idle
  <2> QED
    BY <1>2, <2>1 DEF Inv, LateIsKnown, IssueEviction, history
<1>3. ASSUME NEW q \in Runs, StartRun(q) \/ EndRun(q)
      PROVE  r \in late'
  BY <1>3 DEF StartRun, EndRun, Unstored, Inv, LateIsKnown, history
<1>4. ASSUME NEW w \in Workers, Thread(w)
      PROVE  r \in late'
  <2>1. Unstored(r)
    BY <1>0, <1>4, UnstoredWas DEF Inv
  <2>2. CASE EndEvict(w)
    BY <2>1, <2>2 DEF EndEvict, Inv, LateIsKnown
  <2>3. CASE ~EndEvict(w)
    <3>1. UNCHANGED <<evicted, late>>
      BY <1>4, <2>3 DEF Thread, SkipEvict, BeginEvict, EvictKey, RunUncached,
         CacheMiss, CacheHit, StorePast, Report, ReportLost, PassRaises, history
    <3> QED
      BY <2>1, <3>1 DEF Inv, LateIsKnown
  <2> QED
    BY <2>2, <2>3
<1>5. CASE UNCHANGED kvVars
  BY <1>5 DEF kvVars, Inv, LateIsKnown, Unstored
<1> QED
  BY <1>1, <1>2, <1>3, <1>4, <1>5, StepCases

\* Look-up, store and eviction keep dict and list in step.
LEMMA NextOrderedOnce == Inv /\ [KvNext]_kvVars => OrderedOnce'
<1> SUFFICES ASSUME Inv, [KvNext]_kvVars PROVE OrderedOnce'
  OBVIOUS
<1> USE DEF Inv
<1>1. ASSUME NEW w \in Workers, NEW k \in Keys, EvictKey(w, k)
      PROVE  OrderedOnce'
  <2>1. /\ Distinct(order') /\ ToSet(order') = DOMAIN cache \ {k}
        /\ Len(order') = Len(order) - 1
    BY <1>1, RemoveFirstDistinct DEF EvictKey, OrderedOnce, KvTypeOK
  <2>2. DOMAIN cache' = DOMAIN cache \ {k}
    BY <1>1 DEF EvictKey, Without
  <2>3. Len(order) \in Nat /\ Len(order) <= MaxEntries
    BY DEF OrderedOnce, KvTypeOK
  <2> QED
    BY <2>1, <2>2, <2>3, KvCacheAssumption DEF OrderedOnce
<1>2. ASSUME NEW w \in Workers, CacheHit(w)
      PROVE  OrderedOnce'
  <2> DEFINE k == KeyOf(w)
             s == RemoveFirst(order, k)
  <2>1. k \in Keys /\ k \in DOMAIN cache
    BY <1>2 DEF CacheHit, KvTypeOK
  <2>2. s \in Seq(Keys) /\ Distinct(s) /\ ToSet(s) = DOMAIN cache \ {k}
    BY <2>1, RemoveFirstDistinct DEF OrderedOnce, KvTypeOK
  <2>3. Len(s) = Len(order) - 1 /\ Len(order) \in Nat /\ Len(order) <= MaxEntries
    BY <2>1, RemoveFirstDistinct DEF OrderedOnce, KvTypeOK
  <2>4. order' = Append(s, k) /\ UNCHANGED cache
    BY <1>2 DEF CacheHit
  <2> HIDE DEF s, k
  <2> QED
    <3>1. /\ Distinct(order') /\ Len(order') = Len(s) + 1
          /\ ToSet(order') = (DOMAIN cache \ {k}) \cup {k}
      BY <2>1, <2>2, <2>4, AppendDistinct
    <3>2. ToSet(order') = DOMAIN cache'
      BY <2>1, <2>4, <3>1
    <3>3. Len(order') <= MaxEntries
      BY <2>3, <3>1
    <3> QED
      BY <3>1, <3>2, <3>3 DEF OrderedOnce
<1>3. ASSUME NEW w \in Workers, StorePast(w)
      PROVE  OrderedOnce'
  <2>1. KeyOf(w) \in Keys
    BY <1>3 DEF StorePast, ThreadShape, KeyOf, Keys, KvTypeOK
  <2> QED
    BY <1>3, <2>1, StoreKeepsOrder
<1>4. CASE UNCHANGED <<cache, order>>
  BY <1>4 DEF OrderedOnce, Distinct, ToSet
<1> QED
  BY <1>1, <1>2, <1>3, <1>4, StepCases DEF Thread, IssuePass, IssueEviction,
     StartRun, EndRun, SkipEvict, BeginEvict, EndEvict, RunUncached, CacheMiss,
     Report, ReportLost, PassRaises, cacheVars, kvVars

\* Only a pass that was at work brings an entry back.
LEMMA NextEvictedStayGone == Inv /\ [KvNext]_kvVars => EvictedRunsStayGone'
<1> SUFFICES ASSUME Inv, [KvNext]_kvVars, NEW r \in evicted' \ late', NEW k \in DOMAIN cache',
                    k[1] = r
             PROVE  FALSE
  BY DEF EvictedRunsStayGone
<1> USE DEF Inv
<1>1. CASE \E w \in Workers : EndEvict(w)
  BY <1>1 DEF EndEvict, EvictedRunsStayGone
<1>2. ASSUME NEW w \in Workers, StorePast(w)
      PROVE  FALSE
  <2>1. r \in evicted \ late
    BY <1>2 DEF StorePast
  <2>2. KeyOf(w) \in Keys
    BY <1>2 DEF StorePast, ThreadShape, KeyOf, Keys, KvTypeOK
  <2>3. k \in DOMAIN cache \cup {KeyOf(w)}
    BY <1>2, <2>2, StoreKeepsOrder
  <2>4. k # KeyOf(w)
    <3>1. Unstored(job[w].run) /\ KeyOf(w)[1] = job[w].run
      BY <1>2 DEF StorePast, Unstored, KeyOf
    <3> QED
      BY <2>1, <3>1 DEF LateIsKnown
  <2> QED
    BY <2>1, <2>3, <2>4 DEF EvictedRunsStayGone
<1>3. CASE UNCHANGED <<evicted, late>> /\ DOMAIN cache' \subseteq DOMAIN cache
  BY <1>3 DEF EvictedRunsStayGone
<1>4. ASSUME NEW w \in Workers, NEW q \in Keys, EvictKey(w, q)
      PROVE  DOMAIN cache' \subseteq DOMAIN cache /\ UNCHANGED <<evicted, late>>
  BY <1>4 DEF EvictKey, Without, history
<1> QED
  BY <1>1, <1>2, <1>3, <1>4, StepCases DEF Thread, IssuePass, IssueEviction,
     StartRun, EndRun, SkipEvict, BeginEvict, RunUncached, CacheMiss, CacheHit,
     Report, ReportLost, PassRaises, cacheVars, kvVars, history

-----------------------------------------------------------------------------
(* The cache follows the steps. *)

\* What disturbs a run does so for good.
LEMMA UndisturbedWas ==
    ASSUME Inv, [KvNext]_kvVars, NEW r \in Runs, Undisturbed(r)'
    PROVE  Undisturbed(r)
<1> USE DEF Inv, KvTypeOK, Undisturbed
<1>1. disturbed \subseteq disturbed' /\ late \subseteq late' /\ evicted \subseteq evicted'
  BY StepCases, StoreKeepsOrder DEF Thread, IssuePass, IssueEviction, StartRun,
     EndRun,
     SkipEvict, BeginEvict, EvictKey, EndEvict, RunUncached, CacheMiss,
     CacheHit, StorePast, Report, ReportLost, PassRaises, kvVars, history
<1>2. ASSUME NEW v \in Workers, job[v].pc = "evicting", job[v].evict = r
      PROVE  FALSE
  <2>1. CASE EndEvict(v)
    BY <1>2, <2>1 DEF EndEvict
  <2>2. CASE job'[v] = job[v]
    BY <1>2, <2>2
  <2>3. job'[v] = job[v] \/ EndEvict(v)
    <3>1. ASSUME NEW w \in Workers, NEW q \in Runs, NEW e \in Runs \cup {NoRun},
                 IssuePass(w, q, e)
          PROVE  job'[v] = job[v]
      BY <1>2, <3>1 DEF IssuePass
    <3>2. ASSUME NEW w \in Workers, NEW e \in Runs, IssueEviction(w, e)
          PROVE  job'[v] = job[v]
      BY <1>2, <3>2 DEF IssueEviction
    <3>3. ASSUME NEW w \in Workers, Thread(w)
          PROVE  job'[v] = job[v] \/ EndEvict(v)
      <4>1. CASE w # v
        BY <3>3, <4>1, ThreadMovesOrEnds DEF MovesOrEnds
      <4>2. CASE w = v
        BY <1>2, <3>3, <4>2 DEF Thread, SkipEvict, BeginEvict, EvictKey,
           RunUncached, CacheMiss, CacheHit, StorePast, Report, ReportLost,
           PassRaises
      <4> QED
        BY <4>1, <4>2
    <3> QED
      BY <3>1, <3>2, <3>3, StepCases DEF StartRun, EndRun, kvVars
  <2> QED
    BY <2>1, <2>2, <2>3
<1> QED
  BY <1>1, <1>2

\* The passes stored for r stay the same while r's step does and no thread of
\* r comes to its report.
LEMMA SamePasses ==
    ASSUME NEW r, step'[r] = step[r],
           \A w \in Workers :
              (job[w].run = r /\ job[w].pc = "report")
                 <=> (job'[w].run = r /\ job'[w].pc = "report"),
           \A w \in Workers : job[w].run = r /\ job'[w].run = r
                                => job'[w].shard = job[w].shard,
           NEW n
    PROVE  Passes(r, n)' = Passes(r, n)
BY DEF Passes

\* A reported pass counts for its shard as it did before.
LEMMA ReportKeepsPasses ==
    ASSUME Inv, NEW w \in Workers, Report(w), NEW r \in Runs, job[w].run = r,
           NEW n \in KvShards
    PROVE  Passes(r, n)' = Passes(r, n)
<1> DEFINE s == step[r]
           m == ShardOf(step[r])
           q == PassOf(step[r])
<1>1. s \in Nat /\ n \in 0..(NumShards - 1) /\ NumShards \in Nat
  BY KvCacheAssumption DEF Inv, KvTypeOK, Steps, KvShards
<1>2. q \in Nat /\ m \in 0..(NumShards - 1)
  BY <1>1, DivMod DEF KvShards
<1>3. step'[r] = s + 1 /\ job[w].shard = m /\ job[w].pc = "report"
  BY KvCacheAssumption DEF Report, Inv, KvTypeOK, TasksFollowSteps
<1>4. \A v \in Workers : job[v].run = r => v = w
  BY KvCacheAssumption DEF Inv, OneInFlight
<1>5. \A v \in Workers : job'[v].run # r
  BY <1>4, KvCacheAssumption DEF Report, Inv, KvTypeOK, Idle
<1>6. Passes(r, n) = IF n <= m THEN q + 1 ELSE q
  <2>1. (\E v \in Workers : /\ job[v].run = r /\ job[v].pc = "report"
                            /\ job[v].shard = n) <=> n = m
    BY <1>3, <1>4
  <2> QED
    BY <1>1, <1>2, <2>1 DEF Passes
<1>7. Passes(r, n)' = IF n < ShardOf(s + 1) THEN PassOf(s + 1) + 1 ELSE PassOf(s + 1)
  BY <1>3, <1>5 DEF Passes
<1>8. IF m + 1 < NumShards
      THEN PassOf(s + 1) = q /\ ShardOf(s + 1) = m + 1
      ELSE PassOf(s + 1) = q + 1 /\ ShardOf(s + 1) = 0
  BY <1>1, NextStep
<1> HIDE DEF s, m, q
<1> QED
  BY <1>1, <1>2, <1>6, <1>7, <1>8

\* One more pass makes a longer prefix.
LEMMA PrefixGrows ==
    ASSUME NEW n \in Nat
    PROVE  Append(Prefix(n), n) = Prefix(n + 1)
<1>1. Prefix(n) \in Seq(Nat) /\ Len(Prefix(n)) = n
  BY DEF Prefix
<1>2. Prefix(n + 1) \in Seq(Nat) /\ Len(Prefix(n + 1)) = n + 1
  BY DEF Prefix
<1>3. /\ Append(Prefix(n), n) \in Seq(Nat) /\ Len(Append(Prefix(n), n)) = n + 1
      /\ \A i \in 1..(n + 1) :
           Append(Prefix(n), n)[i] = IF i <= n THEN Prefix(n)[i] ELSE n
  BY <1>1, AppendProperties
<1>4. \A i \in 1..(n + 1) : Append(Prefix(n), n)[i] = Prefix(n + 1)[i]
  BY <1>3 DEF Prefix
<1> QED
  BY <1>2, <1>3, <1>4, SeqEqual

\* A thread at work has stored nothing of its pass yet.
LEMMA PassesAtWork ==
    ASSUME Inv, NEW w \in Workers, job[w].run # NoRun, job[w].pc # "report"
    PROVE  Passes(job[w].run, job[w].shard) = job[w].pass
<1>1. job[w].shard = ShardOf(step[job[w].run]) /\ job[w].pass = PassOf(step[job[w].run])
  BY DEF Inv, TasksFollowSteps
<1>2. \A v \in Workers : job[v].run = job[w].run => v = w
  BY DEF Inv, OneInFlight
<1>3. job[w].shard \in Int
  BY DEF Inv, KvTypeOK, KvShards
<1>4. ~(job[w].shard < ShardOf(step[job[w].run]))
  BY <1>1, <1>3
<1> QED
  BY <1>1, <1>2, <1>4 DEF Passes

\* A run with an unstored pass that is neither disturbed nor late is not being
\* evicted while the lock is free.
LEMMA FreeLockUndisturbed ==
    ASSUME Inv, NEW w \in Workers, job[w].run # NoRun, job[w].pc # "report",
           lock = NoWorker, job[w].run \notin disturbed \cup late
    PROVE  Undisturbed(job[w].run)
<1>1. job[w].run \notin evicted
  BY DEF Inv, LateIsKnown, Unstored
<1>2. \A v \in Workers : job[v].pc # "evicting"
  BY KvCacheAssumption DEF Inv, ThreadShape
<1> QED
  BY <1>1, <1>2 DEF Undisturbed

\* An entry gets longer by the pass that stores it and by nothing else.
LEMMA NextCacheFollowsSteps == Inv /\ [KvNext]_kvVars => CacheFollowsSteps'
<1> SUFFICES ASSUME Inv, [KvNext]_kvVars, NEW r \in Runs, Undisturbed(r)', NEW n \in KvShards
             PROVE  /\ <<r, n>> \in DOMAIN cache' <=> Passes(r, n)' > 0
                    /\ <<r, n>> \in DOMAIN cache' =>
                          cache'[<<r, n>>] = Prefix(Passes(r, n)')
  BY DEF CacheFollowsSteps, Follows, Prefix
<1> DEFINE k == <<r, n>>
           Kept == /\ Passes(r, n)' = Passes(r, n)
                   /\ k \in DOMAIN cache' <=> k \in DOMAIN cache
                   /\ k \in DOMAIN cache' => cache'[k] = cache[k]
           Goal == /\ k \in DOMAIN cache' <=> Passes(r, n)' > 0
                   /\ k \in DOMAIN cache' => cache'[k] = Prefix(Passes(r, n)')
<1>1. Undisturbed(r) /\ r # NoRun
  BY UndisturbedWas, KvCacheAssumption
<1>2. /\ k \in DOMAIN cache <=> Passes(r, n) > 0
      /\ k \in DOMAIN cache => cache[k] = Prefix(Passes(r, n))
  BY <1>1 DEF Inv, CacheFollowsSteps, Follows
<1>3. Kept => Goal
  BY <1>2
<1>4. \A w \in Workers : job[w] \in Task
  BY DEF Inv, KvTypeOK, Task
<1>5. CASE \E w \in Workers, q \in Runs, e \in Runs \cup {NoRun} : IssuePass(w, q, e)
  <2> PICK w \in Workers, q \in Runs, e \in Runs \cup {NoRun} : IssuePass(w, q, e)
    BY <1>5
  <2>1. UNCHANGED <<cache, step>>
    BY DEF IssuePass, cacheVars
  <2>2. \A v \in Workers : v # w => job'[v] = job[v]
    BY DEF IssuePass
  <2>3. job[w].run = NoRun /\ job'[w].pc = "start"
    BY DEF IssuePass, Idle, Inv, KvTypeOK, ThreadShape
  <2>4. Passes(r, n)' = Passes(r, n)
    BY <1>1, <2>1, <2>2, <2>3, SamePasses
  <2> QED
    BY <1>3, <2>1, <2>4
<1>6. CASE \E w \in Workers, e \in Runs : IssueEviction(w, e)
  <2> PICK w \in Workers, e \in Runs : IssueEviction(w, e)
    BY <1>6
  <2>1. UNCHANGED <<cache, step>>
    BY DEF IssueEviction, cacheVars
  <2>2. \A v \in Workers : v # w => job'[v] = job[v]
    BY DEF IssueEviction
  <2>3. job[w].run = NoRun /\ job'[w].pc = "start"
    BY DEF IssueEviction, Idle, Inv, KvTypeOK, ThreadShape
  <2>4. Passes(r, n)' = Passes(r, n)
    BY <1>1, <2>1, <2>2, <2>3, SamePasses
  <2> QED
    BY <1>3, <2>1, <2>4
<1>7. CASE (\E q \in Runs : StartRun(q) \/ EndRun(q)) \/ UNCHANGED kvVars
  <2>1. UNCHANGED <<cache, step, job>>
    BY <1>7 DEF StartRun, EndRun, kvVars, cacheVars
  <2> QED
    BY <1>3, <2>1, SamePasses
<1>8. ASSUME NEW w \in Workers, Thread(w), ~StorePast(w), ~Report(w)
      PROVE  Goal
  <2>1. UNCHANGED step
    BY <1>8 DEF Thread, SkipEvict, BeginEvict, EvictKey, EndEvict,
       RunUncached, CacheMiss, CacheHit, ReportLost, PassRaises, poolVars
  <2>2. \A v \in Workers \ {w} : job'[v] = job[v]
    BY <1>8, ThreadMovesOrEnds DEF MovesOrEnds, Inv
  <2>3. job[w].run = r => job[w].pc # "report"
    <3>1. CASE ReportLost(w)
      BY <3>1 DEF ReportLost, Undisturbed
    <3> QED
      BY <1>8, <3>1 DEF Thread, SkipEvict, BeginEvict, EvictKey, EndEvict,
         RunUncached, CacheMiss, CacheHit, PassRaises
  <2>4. job'[w].run = r => job'[w].pc # "report" /\ job[w].run = r
    <3>1. CASE RunUncached(w)
      BY <1>1, <1>4, <3>1 DEF RunUncached, Inv, KvTypeOK
    <3>2. CASE job'[w] = Idle
      BY <1>1, <3>2 DEF Idle
    <3>3. CASE ~RunUncached(w) /\ job'[w] # Idle
      <4>1. job'[w].run = job[w].run
        BY <1>8, <3>3, ThreadMovesOrEnds DEF MovesOrEnds, Inv
      <4>2. job'[w].pc # "report"
        <5>1. CASE SkipEvict(w) \/ BeginEvict(w) \/ EndEvict(w)
          BY <5>1 DEF SkipEvict, BeginEvict, EndEvict, Inv, KvTypeOK
        <5>2. CASE CacheMiss(w) \/ CacheHit(w)
          BY <5>2 DEF CacheMiss, CacheHit, Inv, KvTypeOK
        <5>3. CASE ReportLost(w) \/ PassRaises(w)
          BY <3>3, <5>3 DEF ReportLost, PassRaises, Inv, KvTypeOK
        <5> QED
          BY <1>8, <3>3, <5>1, <5>2, <5>3 DEF Thread, EvictKey
      <4> QED
        BY <4>1, <4>2
    <3> QED
      BY <3>1, <3>2, <3>3
  <2>5. job'[w].run = r => job'[w].shard = job[w].shard
    BY <1>1, <1>8, ThreadMovesOrEnds DEF MovesOrEnds, Idle, Inv
  <2>6. Passes(r, n)' = Passes(r, n)
    BY <2>1, <2>2, <2>3, <2>4, <2>5, SamePasses
  <2>7. CASE \E q \in Keys : EvictKey(w, q)
    <3>1. PICK q \in Keys : EvictKey(w, q)
      BY <2>7
    <3>2. q # k
      BY <1>1, <3>1 DEF EvictKey, Undisturbed
    <3> QED
      BY <1>3, <2>6, <3>1, <3>2 DEF EvictKey, Without
  <2>8. CASE UNCHANGED cache
    BY <1>3, <2>6, <2>8
  <2> QED
    BY <1>8, <2>7, <2>8 DEF Thread, SkipEvict, BeginEvict, EndEvict,
       RunUncached, CacheMiss, CacheHit, ReportLost, PassRaises, cacheVars
<1>9. ASSUME NEW w \in Workers, Report(w)
      PROVE  Goal
  <2>1. UNCHANGED cache
    BY <1>9 DEF Report, cacheVars
  <2>2. CASE job[w].run = r
    BY <1>3, <1>9, <2>1, <2>2, ReportKeepsPasses
  <2>3. CASE job[w].run # r
    <3>1. step'[r] = step[r] /\ \A v \in Workers \ {w} : job'[v] = job[v]
      BY <1>9, <2>3 DEF Report
    <3>2. job'[w].run # r
      BY <1>1, <1>9 DEF Report, Idle, Inv, KvTypeOK
    <3>3. Passes(r, n)' = Passes(r, n)
      BY <2>3, <3>1, <3>2, SamePasses
    <3> QED
      BY <1>3, <2>1, <3>3
  <2> QED
    BY <2>2, <2>3
<1>10. ASSUME NEW w \in Workers, StorePast(w)
       PROVE  Goal
  <2>1. /\ job[w].pc = "forward" /\ job[w].run \in Runs
        /\ KeyOf(w) = <<job[w].run, job[w].shard>> /\ KeyOf(w) \in Keys
    BY <1>10 DEF StorePast, Inv, ThreadShape, KvTypeOK, KeyOf, Keys
  <2>2. PICK gone \in SUBSET Keys :
          /\ DOMAIN cache' = (DOMAIN cache \cup {KeyOf(w)}) \ gone
          /\ \A x \in DOMAIN cache' :
               cache'[x] = IF x = KeyOf(w) THEN Extended(w) ELSE cache[x]
          /\ disturbed' = disturbed \cup {x[1] : x \in gone}
    BY <1>10, <2>1, StoreKeepsOrder DEF Inv
  <2>3. k \notin gone
    BY <2>2 DEF Undisturbed
  <2>4. /\ \A v \in Workers \ {w} : job'[v] = job[v]
        /\ job'[w].run = job[w].run /\ job'[w].shard = job[w].shard
        /\ job'[w].pc = "report" /\ UNCHANGED step
    BY <1>10 DEF StorePast, Inv, KvTypeOK, poolVars
  <2>5. CASE k = KeyOf(w)
    <3>1. job[w].run = r /\ job[w].shard = n
      BY <2>1, <2>5
    <3>2. Passes(r, n) = job[w].pass /\ job[w].pass = PassOf(step[r])
      BY <1>1, <2>1, <3>1, PassesAtWork DEF Inv, TasksFollowSteps
    <3>3. Passes(r, n)' = PassOf(step[r]) + 1
      BY <2>4, <3>1 DEF Passes
    <3>4. job[w].past = Prefix(job[w].pass)
      BY <1>1, <2>1, <3>1 DEF Inv, AttendsToPrefix, Prefix, Undisturbed
    <3>5. job[w].pass \in Nat
      BY <1>4 DEF Task
    <3>6. Extended(w) = Prefix(job[w].pass + 1)
      BY <3>4, <3>5, PrefixGrows DEF Extended
    <3> QED
      BY <2>2, <2>3, <2>5, <3>2, <3>3, <3>5, <3>6
  <2>6. CASE k # KeyOf(w)
    <3>1. Passes(r, n)' = Passes(r, n)
      BY <2>1, <2>4, <2>6 DEF Passes
    <3>2. /\ k \in DOMAIN cache' <=> k \in DOMAIN cache
          /\ k \in DOMAIN cache' => cache'[k] = cache[k]
      BY <2>2, <2>3, <2>6
    <3> QED
      BY <1>3, <3>1, <3>2
  <2> QED
    BY <2>5, <2>6
<1> QED
  BY <1>5, <1>6, <1>7, <1>8, <1>9, <1>10, StepCases

\* A look-up gives a pass what CacheFollowsSteps says is there.
LEMMA NextAttendsToPrefix == Inv /\ [KvNext]_kvVars => AttendsToPrefix'
<1> SUFFICES ASSUME Inv, [KvNext]_kvVars, NEW w \in Workers, job'[w].pc = "forward",
                    job'[w].run \notin disturbed' \cup late'
             PROVE  job'[w].past = Prefix(job'[w].pass)
  BY DEF AttendsToPrefix, Prefix
<1>1. job \in [Workers -> Task]
  BY DEF Inv, KvTypeOK, Task
<1>2. disturbed \subseteq disturbed' /\ late \subseteq late'
  BY StepCases DEF Thread, IssuePass, IssueEviction, StartRun, EndRun,
     SkipEvict,
     BeginEvict, EvictKey, EndEvict, RunUncached, CacheMiss, CacheHit,
     StorePast, Report, ReportLost, PassRaises, kvVars, history
<1>3. CASE CacheMiss(w) \/ CacheHit(w)
  <2> DEFINE r == job[w].run
             k == KeyOf(w)
  <2>1. /\ job[w].pc = "load" /\ r # NoRun /\ r \in Runs /\ lock = NoWorker
        /\ k = <<r, job[w].shard>> /\ job[w].shard \in KvShards
        /\ job[w].past = << >> /\ job[w].pass \in Nat
    BY <1>1, <1>3 DEF CacheMiss, CacheHit, KeyOf, Task, Inv, ThreadShape
  <2>2. job'[w].run = r /\ job'[w].pass = job[w].pass
    <3>1. CASE CacheMiss(w)
      BY <1>1, <3>1 DEF CacheMiss
    <3>2. CASE CacheHit(w)
      BY <1>1, <3>2 DEF CacheHit
    <3> QED
      BY <1>3, <3>1, <3>2
  <2>3. Undisturbed(r)
    BY <1>2, <2>1, <2>2, FreeLockUndisturbed
  <2>4. Passes(r, job[w].shard) = job[w].pass
    BY <2>1, PassesAtWork
  <2>5. /\ k \in DOMAIN cache <=> job[w].pass > 0
        /\ k \in DOMAIN cache => cache[k] = Prefix(job[w].pass)
    BY <2>1, <2>3, <2>4 DEF Inv, CacheFollowsSteps, Follows
  <2>6. CASE CacheHit(w)
    BY <1>1, <2>2, <2>5, <2>6 DEF CacheHit
  <2>7. CASE CacheMiss(w)
    <3>1. job[w].pass = 0 /\ job'[w].past = << >>
      BY <1>1, <2>1, <2>5, <2>7 DEF CacheMiss
    <3> QED
      BY <2>2, <3>1 DEF Prefix
  <2> QED
    BY <1>3, <2>6, <2>7
<1>4. CASE job'[w] = job[w]
  BY <1>2, <1>4 DEF Inv, AttendsToPrefix, Prefix
<1>5. ASSUME NEW v \in Workers, Thread(v), ~(CacheMiss(w) \/ CacheHit(w))
      PROVE  job'[w] = job[w]
  <2>1. CASE v # w
    BY <1>5, <2>1, ThreadMovesOrEnds DEF MovesOrEnds, Inv
  <2>2. CASE v = w
    <3>1. CASE SkipEvict(w) \/ BeginEvict(w) \/ EndEvict(w) \/ RunUncached(w)
      <4>1. job'[w].pc # "forward"
        <5>1. CASE SkipEvict(w)
          BY <1>1, <5>1 DEF SkipEvict
        <5>2. CASE BeginEvict(w)
          BY <1>1, <5>2 DEF BeginEvict
        <5>3. CASE EndEvict(w)
          BY <1>1, <5>3 DEF EndEvict
        <5>4. CASE RunUncached(w)
          BY <1>1, <5>4 DEF RunUncached
        <5> QED
          BY <3>1, <5>1, <5>2, <5>3, <5>4
      <4> QED
        BY <4>1
    <3>2. CASE StorePast(w)
      BY <1>1, <3>2 DEF StorePast
    <3>3. CASE Report(w) \/ ReportLost(w) \/ PassRaises(w)
      BY <1>1, <3>3 DEF Report, ReportLost, PassRaises, Idle
    <3> QED
      BY <1>5, <2>2, <3>1, <3>2, <3>3 DEF Thread, EvictKey
  <2> QED
    BY <2>1, <2>2
<1>6. ASSUME NEW v \in Workers, NEW q \in Runs, NEW e \in Runs \cup {NoRun},
             IssuePass(v, q, e)
      PROVE  job'[w] = job[w]
  BY <1>1, <1>6 DEF IssuePass, Idle
<1>7. ASSUME NEW v \in Workers, NEW e \in Runs, IssueEviction(v, e)
      PROVE  job'[w] = job[w]
  BY <1>1, <1>7 DEF IssueEviction, Idle
<1> QED
  BY <1>3, <1>4, <1>5, <1>6, <1>7, StepCases DEF StartRun, EndRun, kvVars

-----------------------------------------------------------------------------

\* The invariant is inductive ...
LEMMA NextInv == Inv /\ [KvNext]_kvVars => Inv'
BY NextTypeOK, NextTasksFollowSteps, NextOneInFlight, NextThreadShape,
   NextEvictedAreSignalled, NextLateIsKnown, NextOrderedOnce,
   NextCacheFollowsSteps, NextAttendsToPrefix, NextEvictedStayGone DEF Inv

\* ... so it holds.
LEMMA InvHolds == KvSpec => []Inv
BY InitInv, NextInv, PTL DEF KvSpec

\* Every variable keeps its type: passes and steps stay within the run, and
\* every entry of the cache stands for a sequence of passes.
THEOREM TypeCorrect == KvSpec => []KvTypeOK
<1>1. Inv => KvTypeOK
  BY DEF Inv
<1> QED
  BY <1>1, InvHolds, PTL

\* For any number of threads, runs, shards and any cap: the dict and the list
\* that orders it hold the same keys, each once, and never more than the cap.
THEOREM CacheAlwaysIntact == KvSpec => []CacheIntact
<1>1. Inv => CacheIntact
  <2> SUFFICES ASSUME Inv PROVE CacheIntact
    OBVIOUS
  <2>1. Cardinality(ToSet(order)) = Len(order)
    BY DistinctCardinality DEF Inv, KvTypeOK, OrderedOnce
  <2> QED
    BY <2>1 DEF Inv, OrderedOnce, CacheIntact
<1> QED
  BY <1>1, InvHolds, PTL

\* Whatever the other threads evict, store and look up, a pass of a run that
\* lost nothing attends to exactly the tokens before it, in order.
THEOREM AttentionIsExact == KvSpec => []AttendsToPrefix
<1>1. Inv => AttendsToPrefix
  BY DEF Inv
<1> QED
  BY <1>1, InvHolds, PTL

\* Nothing of an evicted run comes back, unless a pass of it was late.
THEOREM EvictionIsFinal == KvSpec => []EvictedRunsStayGone
<1>1. Inv => EvictedRunsStayGone
  BY DEF Inv
<1> QED
  BY <1>1, InvHolds, PTL
=============================================================================
