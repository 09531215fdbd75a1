------------------------ MODULE ShardExchange_proofs ------------------------
(***************************************************************************)
(* The shard tasks of a run, for any job: any number of shards, wherever   *)
(* they are cut, whatever is issued again and however much fails.          *)
(*                                                                         *)
(* The invariant says what each task holds at each point (Held), which is  *)
(* what makes the posted outputs right, repeated posts included; that only *)
(* a task that has failed, or is queued again after that, has a cause      *)
(* (CausesOfFailed); and that each unsuccessful post has been paid for     *)
(* with a fault (PostsCost).                                               *)
(***************************************************************************)
EXTENDS ShardExchange, WellFoundedInduction, SequenceTheorems, TLAPS

\* Where the layers a run really applies are cut: a command without an
\* executor to run it is echoed, so it applies none.
Applied ==
    IF job.workload = "command" /\ ~HasExecutor
    THEN [i \in 0..job.shards |-> 0] ELSE Cut

\* What a task posts.
Result(i) ==
    CASE i = Merge -> Layers(0, Applied[job.shards])
      [] job.topology = "pipeline" -> Layers(0, Applied[i + 1])
      [] OTHER -> Layers(Applied[i], Applied[i + 1])

\* What it is given.
Given(i) ==
    CASE i = Merge -> [k \in 1..job.shards |-> Result(k - 1)]
      [] job.topology = "pipeline" /\ i > 0 -> Result(i - 1)
      [] OTHER -> << >>

Held ==
    /\ DOMAIN value = Tasks
    /\ \A i \in Tasks :
         /\ pc[i] = "compute" => value[i] = Given(i)
         /\ pc[i] \in {"post", "done"} => value[i] = Result(i)
    /\ \A i \in DOMAIN exchange : exchange[i] = Result(i)

CausesOfFailed ==
    \A i \in Tasks : pc[i] \notin {"queued", "failed"} => why[i] = "none"

PostsCost == \A i \in Tasks : attempt[i] <= faults

\* What a task has got its input from stays at the exchange.
InputsStay ==
    /\ exchange = [i \in DOMAIN exchange |-> exchange[i]]
    /\ \A i \in Tasks : pc[i] \in {"compute", "post", "done"} => InputReady(i)

Inv ==
    /\ TypeOK
    /\ Held
    /\ CausesOfFailed
    /\ PostsCost
    /\ InputsStay
    /\ ReportedIsPosted
    /\ TransientFaultsAbsorbed

-----------------------------------------------------------------------------
(* Sequences of layers. *)

\* Every nonempty set of numbers has a least one.
LEMMA LeastNatural ==
    ASSUME NEW T, T \subseteq Nat, T # {}
    PROVE  \E x \in T : \A y \in T : x <= y
<1>1. PICK x \in T : \A y \in T : ~ (<<y, x>> \in OpToRel(<, Nat))
  BY NatLessThanWellFounded, WFMin
<1>2. \A y \in T : ~ (y < x)
  BY <1>1 DEF OpToRel
<1> QED
  BY <1>2

\* Cuts that rise from each shard to the next rise throughout: the least cut
\* below an earlier one would lie below its predecessor too.
LEMMA CutsRise ==
    ASSUME NEW n \in Nat, NEW c \in [0..n -> Nat],
           \A i \in 0..(n - 1) : c[i] <= c[i + 1]
    PROVE  \A k \in 0..n : \A i \in 0..k : c[i] <= c[k]
<1> DEFINE T == {k \in 0..n : \E i \in 0..k : c[i] > c[k]}
<1>1. T \subseteq Nat
  OBVIOUS
<1>2. ASSUME NEW k \in T, \A y \in T : k <= y
      PROVE  FALSE
  <2>1. PICK i \in 0..k : k \in 0..n /\ c[i] > c[k]
    OBVIOUS
  <2>2. c[i] \in Nat /\ c[k] \in Nat /\ i # k
    BY <2>1
  <2>3. k - 1 \in 0..(n - 1) /\ i \in 0..(k - 1) /\ k - 1 \in 0..n
    BY <2>1, <2>2
  <2>4. c[k - 1] <= c[k] /\ c[k - 1] \in Nat
    <3>1. (k - 1) + 1 = k
      BY <2>1
    <3> QED
      BY <2>3, <3>1
  <2>5. k - 1 \notin T
    BY <1>2, <2>1
  <2>6. ~(c[i] > c[k - 1])
    BY <2>3, <2>5
  <2> QED
    BY <2>1, <2>2, <2>4, <2>6
<1>3. T = {}
  <2> HIDE DEF T
  <2> QED
    BY <1>1, <1>2, LeastNatural
<1>4. ASSUME NEW k \in 0..n, NEW i \in 0..k
      PROVE  c[i] <= c[k]
  <2>1. c[i] \in Nat /\ c[k] \in Nat
    OBVIOUS
  <2>2. ~(c[i] > c[k])
    BY <1>3
  <2> QED
    BY <2>1, <2>2
<1> QED
  BY <1>4

LEMMA FunctionIsSeq ==
    ASSUME NEW S, NEW n \in Nat, NEW f \in [1..n -> S]
    PROVE  f \in Seq(S)
OBVIOUS

LEMMA LayersTyped ==
    ASSUME NEW a \in Nat, NEW b \in Nat, a <= b
    PROVE  /\ Layers(a, b) \in Seq(a..(b - 1))
           /\ Len(Layers(a, b)) = b - a
           /\ \A k \in 1..(b - a) : Layers(a, b)[k] = a + k - 1
<1> DEFINE m == b - a
<1>1. m \in Nat /\ \A k \in 1..m : a + k - 1 \in a..(b - 1)
  OBVIOUS
<1>2. Layers(a, b) = [k \in 1..m |-> a + k - 1]
  BY DEF Layers
<1> HIDE DEF m
<1>3. Layers(a, b) \in [1..m -> a..(b - 1)]
  BY <1>1, <1>2
<1>4. Layers(a, b) \in Seq(a..(b - 1)) /\ Len(Layers(a, b)) = m
  BY <1>1, <1>3
<1> QED
  BY <1>2, <1>4 DEF m

LEMMA NoLayers == \A a \in Nat : Layers(a, a) = << >>
<1> SUFFICES ASSUME NEW a \in Nat PROVE Layers(a, a) = << >>
  OBVIOUS
<1>1. Layers(a, a) \in Seq(a..(a - 1)) /\ Len(Layers(a, a)) = 0
  BY LayersTyped
<1> QED
  BY <1>1, EmptySeq

\* Running two adjacent shards is running the layers of both.
LEMMA LayersJoin ==
    ASSUME NEW a \in Nat, NEW b \in Nat, NEW c \in Nat, a <= b, b <= c
    PROVE  Layers(a, b) \o Layers(b, c) = Layers(a, c)
<1> DEFINE s == Layers(a, b)
           t == Layers(b, c)
           u == Layers(a, c)
<1>1. /\ s \in Seq(a..(b - 1)) /\ Len(s) = b - a
      /\ \A k \in 1..(b - a) : s[k] = a + k - 1
  BY LayersTyped
<1>2. /\ t \in Seq(b..(c - 1)) /\ Len(t) = c - b
      /\ \A k \in 1..(c - b) : t[k] = b + k - 1
  BY LayersTyped
<1>3. /\ u \in Seq(a..(c - 1)) /\ Len(u) = c - a
      /\ \A k \in 1..(c - a) : u[k] = a + k - 1
  BY LayersTyped
<1> HIDE DEF s, t, u
<1>4. s \in Seq(Nat) /\ t \in Seq(Nat) /\ u \in Seq(Nat)
  <2>1. a..(b - 1) \subseteq Nat /\ b..(c - 1) \subseteq Nat /\ a..(c - 1) \subseteq Nat
    OBVIOUS
  <2> QED
    BY <1>1, <1>2, <1>3, <2>1, SeqMonotonic
<1>5. /\ s \o t \in Seq(Nat)
      /\ Len(s \o t) = Len(s) + Len(t)
      /\ \A k \in 1..(Len(s) + Len(t)) :
            (s \o t)[k] = IF k <= Len(s) THEN s[k] ELSE t[k - Len(s)]
  BY <1>4, ConcatProperties
<1>6. Len(s \o t) = Len(u) /\ Len(u) = c - a
  BY <1>1, <1>2, <1>3, <1>5
<1>7. ASSUME NEW k \in 1..(c - a)
      PROVE  (s \o t)[k] = u[k]
  <2>1. CASE k <= b - a
    BY <1>1, <1>2, <1>3, <1>5, <2>1
  <2>2. CASE ~(k <= b - a)
    <3>1. k - (b - a) \in 1..(c - b)
      BY <2>2
    <3>2. t[k - (b - a)] = b + (k - (b - a)) - 1
      BY <1>2, <3>1
    <3>3. (s \o t)[k] = t[k - (b - a)]
      BY <1>1, <1>2, <1>5, <2>2
    <3>4. u[k] = a + k - 1
      BY <1>3
    <3>5. b + (k - (b - a)) - 1 = a + k - 1
      OBVIOUS
    <3> QED
      BY <3>2, <3>3, <3>4, <3>5
  <2> QED
    BY <2>1, <2>2
<1>8. s \o t = u
  BY <1>4, <1>5, <1>6, <1>7, SeqEqual
<1> QED
  BY <1>8 DEF s, t, u

\* Concatenating what all shards post is running all layers.  The recursion
\* of FlattenSeq has a solution, and the least place where two would differ
\* does not exist.
LEMMA ShardsFlatten ==
    ASSUME NEW n \in Nat \ {0}, NEW c \in [0..n -> Nat],
           \A i \in 0..(n - 1) : c[i] <= c[i + 1],
           NEW ss, ss = [k \in 1..n |-> Layers(c[k - 1], c[k])]
    PROVE  FlattenSeq(ss) = Layers(c[0], c[n])
<1> DEFINE Step(g) == [i \in 1..n |-> IF i = 1 THEN ss[i] ELSE g[i - 1] \o ss[i]]
           w == [i \in 1..n |-> Layers(c[0], c[i])]
           g == CHOOSE h : h = Step(h)
<1>1. Len(ss) = n
  OBVIOUS
<1>2. FlattenSeq(ss) = g[n]
  BY <1>1 DEF FlattenSeq
<1>3. \A i \in 1..n : /\ i - 1 \in 0..n /\ 0 \in 0..n /\ c[0] \in Nat
                      /\ c[i - 1] \in Nat /\ c[i] \in Nat
                      /\ c[0] <= c[i - 1] /\ c[i - 1] <= c[i]
                      /\ c[0] <= c[i]
  <2>1. \A k \in 0..n : \A i \in 0..k : c[i] <= c[k]
    BY CutsRise
  <2> SUFFICES ASSUME NEW i \in 1..n
               PROVE  /\ i - 1 \in 0..n /\ 0 \in 0..n /\ c[0] \in Nat
                      /\ c[i - 1] \in Nat /\ c[i] \in Nat
                      /\ c[0] <= c[i - 1] /\ c[i - 1] <= c[i]
                      /\ c[0] <= c[i]
    OBVIOUS
  <2>2. /\ i - 1 \in 0..n /\ i \in 0..n /\ 0 \in 0..(i - 1)
        /\ i - 1 \in 0..i /\ 0 \in 0..n /\ 0 \in 0..i
    OBVIOUS
  <2> QED
    BY <2>1, <2>2
<1>4. ASSUME NEW i \in 1..n, i # 1
      PROVE  w[i - 1] \o ss[i] = w[i]
  <2>1. i - 1 \in 1..n
    BY <1>4
  <2>2. w[i - 1] = Layers(c[0], c[i - 1]) /\ ss[i] = Layers(c[i - 1], c[i])
    BY <2>1
  <2>3. Layers(c[0], c[i - 1]) \o Layers(c[i - 1], c[i]) = Layers(c[0], c[i])
    BY <1>3, LayersJoin
  <2> QED
    BY <2>2, <2>3
<1>5. w[1] = ss[1]
  BY <1>3
<1>6. w = Step(w)
  <2>1. \A i \in 1..n : w[i] = IF i = 1 THEN ss[i] ELSE w[i - 1] \o ss[i]
    BY <1>4, <1>5
  <2> HIDE DEF w
  <2>2. w = [i \in 1..n |-> w[i]]
    BY DEF w
  <2> QED
    BY <2>1, <2>2
<1>7. g = Step(g)
  BY <1>6
<1> HIDE DEF g
<1>8. \A i \in 1..n : g[i] = IF i = 1 THEN ss[i] ELSE g[i - 1] \o ss[i]
  BY <1>7
<1>9. g[n] = w[n]
  <2> DEFINE T == {i \in 1..n : g[i] # w[i]}
  <2> HIDE DEF w
  <2>1. T \subseteq Nat
    OBVIOUS
  <2>2. ASSUME NEW i \in T, \A y \in T : i <= y
        PROVE  FALSE
    <3>1. i \in 1..n /\ g[i] # w[i]
      OBVIOUS
    <3>2. i # 1
      BY <1>5, <1>8, <3>1
    <3>3. i - 1 \in 1..n
      BY <3>1, <3>2
    <3>4. i - 1 \notin T
      BY <2>2, <3>1
    <3>5. g[i - 1] = w[i - 1]
      BY <3>3, <3>4
    <3> QED
      BY <1>4, <1>8, <3>1, <3>2, <3>5
  <2>3. T = {}
    <3> HIDE DEF T
    <3> QED
      BY <2>1, <2>2, LeastNatural
  <2>4. n \in 1..n
    OBVIOUS
  <2>5. n \in T <=> g[n] # w[n]
    BY <2>4
  <2> HIDE DEF T
  <2> QED
    BY <2>3, <2>5
<1> QED
  BY <1>2, <1>9

-----------------------------------------------------------------------------
(* The job and its results. *)

LEMMA JobShape ==
    ASSUME job \in Jobs
    PROVE  /\ job.shards \in Nat \ {0}
           /\ Applied \in [0..job.shards -> Nat] /\ Applied[0] = 0
           /\ \A i \in 0..(job.shards - 1) : Applied[i] <= Applied[i + 1]
           /\ Cut \in [0..job.shards -> Nat] /\ Cut[0] = 0
           /\ \A i \in 0..(job.shards - 1) : Cut[i] <= Cut[i + 1]
           /\ job.topology \in {"pipeline", "parallel", "reduce"}
           /\ Merge \in Tasks => job.topology = "reduce"
           /\ \A i \in Tasks : i # Merge => i \in 0..(job.shards - 1)
           /\ \A i \in 0..(job.shards - 1) : i # Merge /\ i \in Tasks
           /\ Tasks \subseteq Nat
<1>1. /\ job.shards \in Nat \ {0}
      /\ Cut \in [0..job.shards -> Nat] /\ Cut[0] = 0
      /\ \A i \in 0..(job.shards - 1) : Cut[i] <= Cut[i + 1]
      /\ job.topology \in {"pipeline", "parallel", "reduce"}
  BY ShardExchangeAssumption DEF Cut
<1>2. /\ Merge \in Tasks => job.topology = "reduce"
      /\ \A i \in Tasks : i # Merge => i \in 0..(job.shards - 1)
      /\ \A i \in 0..(job.shards - 1) : i # Merge /\ i \in Tasks
      /\ Tasks \subseteq Nat
  BY <1>1 DEF Tasks, Merge, Shards
<1>3. CASE job.workload = "command" /\ ~HasExecutor
  BY <1>1, <1>2, <1>3 DEF Applied
<1>4. CASE ~(job.workload = "command" /\ ~HasExecutor)
  BY <1>1, <1>2, <1>4 DEF Applied
<1> QED
  BY <1>3, <1>4

LEMMA AppliedWithinDepth ==
    ASSUME job \in Jobs
    PROVE  Depth \in Nat /\ \A i \in 0..job.shards : Applied[i] <= Depth
<1>1. /\ job.shards \in Nat /\ Cut \in [0..job.shards -> Nat]
      /\ \A i \in 0..(job.shards - 1) : Cut[i] <= Cut[i + 1]
  BY JobShape
<1>2. \A k \in 0..job.shards : \A i \in 0..k : Cut[i] <= Cut[k]
  BY <1>1, CutsRise
<1>3. Depth \in Nat /\ job.shards \in 0..job.shards
  BY <1>1 DEF Depth
<1>4. \A i \in 0..job.shards : Cut[i] <= Depth
  BY <1>2, <1>3 DEF Depth
<1>5. CASE job.workload = "command" /\ ~HasExecutor
  BY <1>3, <1>5 DEF Applied
<1>6. CASE ~(job.workload = "command" /\ ~HasExecutor)
  BY <1>3, <1>4, <1>6 DEF Applied
<1> QED
  BY <1>5, <1>6

LEMMA LayersInDepth ==
    ASSUME job \in Jobs, NEW a \in Nat, NEW b \in Nat, a <= b, b <= Depth
    PROVE  Layers(a, b) \in Seq(Layer)
<1>1. Depth \in Nat
  BY AppliedWithinDepth
<1>2. a..(b - 1) \subseteq Layer
  BY <1>1 DEF Layer
<1> QED
  BY <1>2, LayersTyped, SeqMonotonic

\* What a task posts is a sequence of the model's layers.
LEMMA ResultTyped ==
    ASSUME job \in Jobs, NEW i \in Tasks
    PROVE  Result(i) \in Seq(Layer)
<1>1. CASE i = Merge
  <2>0. job.topology = "reduce"
    BY <1>1, JobShape
  <2>1. job.shards \in 0..job.shards /\ Applied[job.shards] \in Nat /\ 0 <= Applied[job.shards]
    BY JobShape
  <2>2. Applied[job.shards] <= Depth
    BY <2>1, AppliedWithinDepth
  <2> QED
    BY <1>1, <2>0, <2>1, <2>2, LayersInDepth DEF Result
<1>2. CASE i # Merge
  <2>1. i \in 0..(job.shards - 1) /\ job.shards \in Nat
    BY <1>2, JobShape
  <2>2. i \in 0..job.shards /\ i + 1 \in 0..job.shards
    BY <2>1
  <2>3. /\ Applied[i] \in Nat /\ Applied[i + 1] \in Nat
        /\ Applied[i] <= Applied[i + 1] /\ Applied[i + 1] <= Depth
        /\ 0 <= Applied[i + 1]
    BY <2>1, <2>2, JobShape, AppliedWithinDepth
  <2>4. Layers(0, Applied[i + 1]) \in Seq(Layer)
    BY <2>3, LayersInDepth
  <2>5. Layers(Applied[i], Applied[i + 1]) \in Seq(Layer)
    BY <2>3, LayersInDepth
  <2>6. CASE job.topology = "pipeline"
    BY <1>2, <2>4, <2>6 DEF Result
  <2>7. CASE job.topology # "pipeline"
    BY <1>2, <2>5, <2>7 DEF Result
  <2> QED
    BY <2>6, <2>7
<1> QED
  BY <1>1, <1>2

\* What is posted by those a task waits for is what it is to be given.
LEMMA InputIsGiven ==
    ASSUME job \in Jobs, NEW i \in Tasks, InputReady(i),
           \A j \in DOMAIN exchange : exchange[j] = Result(j)
    PROVE  Input(i) = Given(i)
<1>1. job.shards \in Nat \ {0}
  BY JobShape
<1>2. CASE i = Merge
  <2>0. job.topology = "reduce"
    BY <1>2, JobShape
  <2>1. \A k \in 1..job.shards : k - 1 \in DOMAIN exchange
    <3>1. Shards \subseteq DOMAIN exchange
      BY <1>2, <2>0 DEF InputReady
    <3>2. \A k \in 1..job.shards : k - 1 \in Shards
      BY <1>1 DEF Shards
    <3> QED
      BY <3>1, <3>2
  <2>2. \A k \in 1..job.shards : exchange[k - 1] = Result(k - 1)
    BY <2>1
  <2>3. Input(i) = [k \in 1..job.shards |-> exchange[k - 1]]
    BY <1>2, <2>0 DEF Input
  <2>4. Given(i) = [k \in 1..job.shards |-> Result(k - 1)]
    BY <1>2, <2>0 DEF Given
  <2> QED
    BY <2>2, <2>3, <2>4
<1>3. CASE i # Merge
  BY <1>3 DEF InputReady, Input, Given
<1> QED
  BY <1>2, <1>3

\* What a task computes of it is what it is to post.
LEMMA ComputedIsResult ==
    ASSUME job \in Jobs, NEW i \in Tasks
    PROVE  (IF i = Merge THEN ComputeMerge(Given(i)) ELSE ComputeShard(i, Given(i)))
              = Result(i)
<1> USE JobShape
<1>1. CASE i = Merge
  <2>1. job.topology = "reduce"
    BY <1>1
  <2>2. ASSUME NEW k \in 1..job.shards
        PROVE  Result(k - 1) = Layers(Applied[k - 1], Applied[k])
    <3>1. k - 1 \in 0..(job.shards - 1) /\ (k - 1) + 1 = k
      OBVIOUS
    <3>2. k - 1 # Merge
      BY <3>1
    <3> QED
      BY <2>1, <3>1, <3>2 DEF Result
  <2>3. Given(i) = [k \in 1..job.shards |-> Layers(Applied[k - 1], Applied[k])]
    BY <1>1, <2>2 DEF Given
  <2>4. FlattenSeq(Given(i)) = Layers(Applied[0], Applied[job.shards])
    BY <2>3, ShardsFlatten
  <2> QED
    BY <1>1, <2>4 DEF ComputeMerge, Result
<1>2. CASE i # Merge
  <2>1. i \in 0..(job.shards - 1) /\ i \in 0..job.shards /\ i + 1 \in 0..job.shards
    BY <1>2
  <2>2. Applied[i] \in Nat /\ Applied[i + 1] \in Nat /\ Applied[i] <= Applied[i + 1]
    BY <2>1
  <2>3. Given(i) \o Layers(Applied[i], Applied[i + 1]) = Result(i)
    <3>1. << >> \o Layers(Applied[i], Applied[i + 1]) = Layers(Applied[i], Applied[i + 1])
      BY <2>2, LayersTyped, ConcatEmptySeq
    <3>2. CASE job.topology = "pipeline" /\ i > 0
      <4>1. i - 1 \in 0..(job.shards - 1) /\ (i - 1) + 1 = i
        BY <2>1, <3>2
      <4>2. Given(i) = Layers(0, Applied[i])
        BY <1>2, <3>2, <4>1 DEF Given, Result
      <4>3. Layers(0, Applied[i]) \o Layers(Applied[i], Applied[i + 1])
               = Layers(0, Applied[i + 1])
        <5>1. 0 \in Nat /\ 0 <= Applied[i]
          BY <2>2
        <5> QED
          BY <2>2, <5>1, LayersJoin
      <4> QED
        BY <1>2, <3>2, <4>2, <4>3 DEF Result
    <3>3. CASE ~(job.topology = "pipeline" /\ i > 0)
      <4>1. Given(i) = << >>
        BY <1>2, <3>3 DEF Given
      <4>2. job.topology = "pipeline" => Applied[i] = 0
        BY <2>1, <3>3
      <4>3. Result(i) = Layers(Applied[i], Applied[i + 1])
        BY <1>2, <4>2 DEF Result
      <4> QED
        BY <3>1, <4>1, <4>3
    <3> QED
      BY <3>2, <3>3
  <2>4. CASE job.workload = "command" /\ ~HasExecutor
    <3>1. Applied[i] = 0 /\ Applied[i + 1] = 0
      BY <2>1, <2>4 DEF Applied
    <3>2. Layers(Applied[i], Applied[i + 1]) = << >>
      BY <3>1, NoLayers
    <3>3. Given(i) \in Seq(Layer)
      <4>1. i > 0 => i - 1 \in Tasks
        BY <2>1
      <4>2. i > 0 => Result(i - 1) \in Seq(Layer)
        BY <4>1, ResultTyped
      <4> QED
        BY <1>2, <2>1, <4>2, EmptySeq DEF Given
    <3>4. Given(i) \o << >> = Given(i)
      BY <3>3, ConcatEmptySeq
    <3> QED
      BY <1>2, <2>3, <2>4, <3>2, <3>4 DEF ComputeShard, Echo
  <2>5. CASE ~(job.workload = "command" /\ ~HasExecutor)
    BY <1>2, <2>3, <2>5 DEF ComputeShard, Echo, RunLayers, Applied
  <2> QED
    BY <2>4, <2>5
<1> QED
  BY <1>1, <1>2

-----------------------------------------------------------------------------
(* What a step of one task does. *)

Pcs == Polling \cup {"queued", "compute", "post", "done", "failed"}
CausesOfFailure == {"none", "timeout", "answer", "compute", "post"}

TaskStep(i) == Take(i) \/ Reissue(i) \/ Worker(i)

\* The other tasks, and the types of what it changes.
Frame(i) ==
    /\ UNCHANGED job
    /\ pc' \in [Tasks -> Pcs]
    /\ elapsed' \in [Tasks -> 0..PollTimeout]
    /\ attempt' \in [Tasks -> 0..(Attempts - 1)]
    /\ why' \in [Tasks -> CausesOfFailure]
    /\ DOMAIN value' = Tasks
    /\ \A t \in Tasks : t # i => /\ pc'[t] = pc[t] /\ value'[t] = value[t]
                                 /\ why'[t] = why[t] /\ attempt'[t] = attempt[t]
    /\ faults' \in 0..MaxFaults /\ faults' >= faults
    /\ reissues' \in 0..MaxReissues

\* The value it holds comes from the exchange, then from the computation.
ValueStep(i) ==
    \/ /\ value'[i] = << >> /\ pc'[i] \notin {"compute", "post", "done"}
       /\ why'[i] # "compute"
    \/ /\ value'[i] = value[i] /\ pc'[i] \notin {"compute", "post", "done"}
       /\ why'[i] = "compute" <=> pc[i] = "compute" \/ why[i] = "compute"
    \/ /\ value'[i] = value[i] /\ pc[i] = "post" /\ pc'[i] \in {"post", "done"}
    \/ /\ pc'[i] = "compute" /\ InputReady(i) /\ value'[i] = Input(i)
    \/ /\ pc[i] = "compute" /\ pc'[i] = "post"
       /\ value'[i] = IF i = Merge THEN ComputeMerge(value[i])
                      ELSE ComputeShard(i, value[i])

\* Only a task that posts changes the exchange; it is done when it has.
ExchangeStep(i) ==
    \/ UNCHANGED exchange /\ pc'[i] # "done"
    \/ /\ exchange' = Stored(i) /\ pc[i] = "post" /\ value'[i] = value[i]

\* Each failed attempt is a fault, the third fails the task.
CauseStep(i) ==
    /\ pc'[i] \notin {"queued", "failed"} => why'[i] = "none"
    /\ attempt'[i] <= faults'
    /\ why'[i] = "post" => why[i] = "post" \/ faults' >= 3

LEMMA TaskSteps ==
    ASSUME TypeOK, CausesOfFailed, PostsCost, DOMAIN value = Tasks,
           NEW i \in Tasks, TaskStep(i)
    PROVE  Frame(i) /\ ValueStep(i) /\ ExchangeStep(i) /\ CauseStep(i)
<1> DEFINE Goal == Frame(i) /\ ValueStep(i) /\ ExchangeStep(i) /\ CauseStep(i)
<1>a. /\ pc \in [Tasks -> Pcs] /\ why \in [Tasks -> CausesOfFailure]
      /\ elapsed \in [Tasks -> 0..PollTimeout] /\ 0 \in 0..PollTimeout
      /\ attempt \in [Tasks -> 0..2] /\ 0 \in 0..2
      /\ DOMAIN value = Tasks
      /\ faults \in 0..MaxFaults /\ faults >= faults /\ faults \in Nat
      /\ reissues \in 0..MaxReissues
      /\ attempt[i] \in 0..2 /\ attempt[i] <= faults
      /\ MaxFaults \in Nat /\ MaxReissues \in Nat
      /\ pc[i] \notin {"queued", "failed"} => why[i] = "none"
  BY ShardExchangeAssumption
  DEF TypeOK, Pcs, CausesOfFailure, Attempts, PostsCost, CausesOfFailed
<1>b. ASSUME NEW p \in Pcs, Goto(i, p)
      PROVE  /\ pc' \in [Tasks -> Pcs] /\ pc'[i] = p
             /\ \A t \in Tasks : t # i => pc'[t] = pc[t]
  BY <1>a, <1>b DEF Goto
<1>c. ASSUME NEW y \in CausesOfFailure, Fail(i, y)
      PROVE  /\ pc' \in [Tasks -> Pcs] /\ pc'[i] = "failed"
             /\ \A t \in Tasks : t # i => pc'[t] = pc[t]
             /\ why' \in [Tasks -> CausesOfFailure] /\ why'[i] = y
             /\ \A t \in Tasks : t # i => why'[t] = why[t]
  <2>1. "failed" \in Pcs
    BY DEF Pcs
  <2> QED
    BY <1>a, <1>b, <1>c, <2>1 DEF Fail
<1>d. Fault => faults' \in 0..MaxFaults /\ faults' >= faults /\ faults' = faults + 1
  BY <1>a DEF Fault
<1> USE DEF Attempts
<1>1. CASE Take(i)
  BY <1>1, <1>a, <1>b
  DEF Take, Frame, ValueStep, ExchangeStep, CauseStep, Pcs, Polling,
      CausesOfFailure
<1>2. CASE Reissue(i)
  BY <1>2, <1>a, <1>b
  DEF Reissue, Frame, ValueStep, ExchangeStep, CauseStep, Pcs, Polling,
      CausesOfFailure
<1>3. CASE PollTest(i)
  BY <1>3, <1>a, <1>b
  DEF PollTest, Frame, ValueStep, ExchangeStep, CauseStep, Pcs, Polling,
      CausesOfFailure
<1>4. CASE PollTimesOut(i)
  BY <1>4, <1>a, <1>c
  DEF PollTimesOut, Frame, ValueStep, ExchangeStep, CauseStep, Pcs, Polling,
      CausesOfFailure
<1>5. CASE PollReady(i)
  BY <1>5, <1>a, <1>b
  DEF PollReady, Frame, ValueStep, ExchangeStep, CauseStep, Pcs, Polling,
      CausesOfFailure
<1>6. CASE PollNotReady(i)
  BY <1>6, <1>a, <1>b
  DEF PollNotReady, Frame, ValueStep, ExchangeStep, CauseStep, Pcs, Polling,
      CausesOfFailure
<1>7. CASE PollFails(i)
  BY <1>7, <1>a, <1>b, <1>d
  DEF PollFails, Frame, ValueStep, ExchangeStep, CauseStep, Pcs, Polling,
      CausesOfFailure
<1>8. CASE PollUnreadable(i)
  BY <1>8, <1>a, <1>c, <1>d
  DEF PollUnreadable, Frame, ValueStep, ExchangeStep, CauseStep, Pcs, Polling,
      CausesOfFailure
<1>9. CASE Wake(i)
  BY <1>9, <1>a, <1>b
  DEF Wake, Frame, ValueStep, ExchangeStep, CauseStep, Pcs, Polling,
      CausesOfFailure
<1>10. CASE Compute(i)
  BY <1>10, <1>a, <1>b
  DEF Compute, Frame, ValueStep, ExchangeStep, CauseStep, Pcs, Polling,
      CausesOfFailure
<1>11. CASE ComputeRaises(i)
  BY <1>11, <1>a, <1>c, <1>d
  DEF ComputeRaises, Frame, ValueStep, ExchangeStep, CauseStep, Pcs, Polling,
      CausesOfFailure
<1>12. CASE PostOk(i)
  BY <1>12, <1>a, <1>b
  DEF PostOk, Frame, ValueStep, ExchangeStep, CauseStep, Pcs, Polling,
      CausesOfFailure
<1>13. CASE PostFails(i)
  <2>0. /\ pc[i] = "post" /\ why[i] = "none" /\ faults' \in 0..MaxFaults
        /\ faults' = faults + 1 /\ exchange' \in {exchange, Stored(i)}
        /\ UNCHANGED <<job, elapsed, value, reissues>>
    BY <1>13, <1>a, <1>d DEF PostFails
  <2>1. CASE attempt[i] + 1 < 3
    <3>1. attempt' = [attempt EXCEPT ![i] = @ + 1] /\ UNCHANGED <<pc, why>>
      BY <1>13, <2>1 DEF PostFails, NextAttempt
    <3>2. attempt[i] + 1 \in 0..2 /\ attempt[i] + 1 <= faults'
      BY <1>a, <2>0, <2>1
    <3>3. /\ attempt' \in [Tasks -> 0..2] /\ attempt'[i] <= faults'
          /\ \A t \in Tasks : t # i => attempt'[t] = attempt[t]
      BY <1>a, <3>1, <3>2
    <3> QED
      BY <1>a, <2>0, <3>1, <3>3 DEF Frame, ValueStep, ExchangeStep, CauseStep
  <2>2. CASE ~(attempt[i] + 1 < 3)
    <3>1. Fail(i, "post") /\ UNCHANGED attempt
      BY <1>13, <2>2 DEF PostFails, NextAttempt
    <3>2. faults' >= 3 /\ attempt[i] <= faults'
      BY <1>a, <2>0, <2>2
    <3>3. "post" \in CausesOfFailure
      BY DEF CausesOfFailure
    <3> QED
      BY <1>a, <1>c, <2>0, <3>1, <3>2, <3>3 DEF Frame, ValueStep, ExchangeStep,
         CauseStep
  <2> QED
    BY <2>1, <2>2
<1> QED
  BY <1>1, <1>2, <1>3, <1>4, <1>5, <1>6, <1>7, <1>8, <1>9, <1>10, <1>11, <1>12,
     <1>13
  DEF TaskStep, Worker

-----------------------------------------------------------------------------
(* The invariant. *)

LEMMA SameJob ==
    ASSUME UNCHANGED job
    PROVE  /\ Tasks' = Tasks /\ Merge' = Merge /\ Layer' = Layer
           /\ \A i : Result(i)' = Result(i)
           /\ \A i : Given(i)' = Given(i)
<1>1. Tasks' = Tasks /\ Merge' = Merge /\ Layer' = Layer /\ Applied' = Applied
  BY DEF Tasks, Merge, Shards, Layer, Depth, Cut, Applied
<1>2. \A i : Result(i)' = Result(i)
  BY <1>1 DEF Result
<1>3. \A i : Given(i)' = Given(i)
  BY <1>1, <1>2 DEF Given
<1> QED
  BY <1>1, <1>2, <1>3

\* Time passes; nothing happens; or one task takes a step.
LEMMA StepShapes ==
    ASSUME TypeOK, [Next]_vars
    PROVE  \/ \E i \in Tasks : TaskStep(i)
           \/ /\ elapsed' \in [Tasks -> 0..PollTimeout]
              /\ UNCHANGED <<job, pc, value, attempt, why, exchange, faults, reissues>>
<1>1. CASE Tick
  <2>1. \A i \in Tasks :
           (IF pc[i] \in Polling /\ elapsed[i] < PollTimeout
            THEN elapsed[i] + 1 ELSE elapsed[i]) \in 0..PollTimeout
    BY ShardExchangeAssumption DEF TypeOK
  <2> QED
    BY <1>1, <2>1 DEF Tick
<1>2. CASE Terminated \/ UNCHANGED vars
  BY <1>2 DEF Terminated, vars, TypeOK
<1> QED
  BY <1>1, <1>2 DEF Next, TaskStep

LEMMA InvInit == Init => Inv
<1> SUFFICES ASSUME Init PROVE Inv
  OBVIOUS
<1>1. DOMAIN exchange = {}
  BY DEF Init
<1>2. TypeOK
  <2>1. /\ 0 \in 0..PollTimeout /\ 0 \in 0..2 /\ 0 \in 0..MaxFaults
        /\ 0 \in 0..MaxReissues
    BY ShardExchangeAssumption
  <2>2. << >> \in Seq(Layer) /\ << >> \in Seq(Seq(Layer))
    BY EmptySeq
  <2>3. \A i \in Tasks : value[i] = << >> /\ pc[i] = "queued" /\ why[i] = "none"
    BY DEF Init
  <2>4. /\ pc \in [Tasks -> Polling \cup {"queued", "compute", "post", "done", "failed"}]
        /\ elapsed \in [Tasks -> 0..PollTimeout]
        /\ attempt \in [Tasks -> 0..(Attempts - 1)]
        /\ why \in [Tasks -> {"none", "timeout", "answer", "compute", "post"}]
    BY <2>1 DEF Init, Attempts
  <2>5. job \in Jobs /\ faults \in 0..MaxFaults /\ reissues \in 0..MaxReissues
    BY <2>1 DEF Init
  <2> QED
    BY <1>1, <2>2, <2>3, <2>4, <2>5 DEF TypeOK
<1>3. Held
  BY <1>1 DEF Init, Held
<1>4. CausesOfFailed /\ ReportedIsPosted /\ TransientFaultsAbsorbed
  BY DEF Init, CausesOfFailed, ReportedIsPosted, TransientFaultsAbsorbed
<1>5. PostsCost
  BY DEF Init, PostsCost
<1>6. InputsStay
  BY DEF Init, InputsStay
<1> QED
  BY <1>2, <1>3, <1>4, <1>5, <1>6 DEF Inv

LEMMA NextHeld ==
    ASSUME Inv, [Next]_vars
    PROVE  Held'
<1> USE DEF Inv
<1>1. ASSUME NEW i \in Tasks, TaskStep(i)
      PROVE  Held'
  <2>1. Frame(i) /\ ValueStep(i) /\ ExchangeStep(i)
    BY <1>1, TaskSteps DEF Held
  <2>2. job \in Jobs /\ UNCHANGED job
    BY <2>1 DEF TypeOK, Frame
  <2>3. \A t \in Tasks : t # i => /\ pc'[t] = pc[t] /\ value'[t] = value[t]
    BY <2>1 DEF Frame
  <2>4. pc'[i] = "compute" => value'[i] = Given(i)
    <3>1. InputReady(i) => Input(i) = Given(i)
      BY <2>2, InputIsGiven DEF Held
    <3> QED
      BY <2>1, <3>1 DEF ValueStep
  <2>5. pc'[i] \in {"post", "done"} => value'[i] = Result(i)
    <3>1. CASE pc[i] = "compute" /\ value'[i] = IF i = Merge THEN ComputeMerge(value[i])
                                                ELSE ComputeShard(i, value[i])
      BY <2>2, <3>1, ComputedIsResult DEF Held
    <3> QED
      BY <2>1, <3>1 DEF ValueStep, Held
  <2>6. \A j \in DOMAIN exchange' : exchange'[j] = Result(j)
    <3>1. CASE UNCHANGED exchange
      BY <3>1 DEF Held
    <3>2. CASE exchange' = Stored(i) /\ pc[i] = "post"
      <4>1. value[i] = Result(i)
        BY <3>2 DEF Held
      <4> QED
        BY <3>2, <4>1 DEF Stored, Held
    <3> QED
      BY <2>1, <3>1, <3>2 DEF ExchangeStep
  <2>7. DOMAIN value' = Tasks
    BY <2>1 DEF Frame
  <2>8. \A t \in Tasks : /\ pc'[t] = "compute" => value'[t] = Given(t)
                         /\ pc'[t] \in {"post", "done"} => value'[t] = Result(t)
    BY <2>3, <2>4, <2>5 DEF Held
  <2> HIDE DEF Inv
  <2> QED
    BY <2>2, <2>6, <2>7, <2>8, SameJob DEF Held
<1>2. CASE UNCHANGED <<job, pc, value, attempt, why, exchange, faults, reissues>>
  BY <1>2, SameJob DEF Held
<1> QED
  BY <1>1, <1>2, StepShapes

LEMMA NextCauses ==
    ASSUME Inv, [Next]_vars
    PROVE  CausesOfFailed' /\ PostsCost' /\ TransientFaultsAbsorbed'
<1> USE DEF Inv
<1>1. ASSUME NEW i \in Tasks, TaskStep(i)
      PROVE  CausesOfFailed' /\ PostsCost' /\ TransientFaultsAbsorbed'
  <2>1. Frame(i) /\ CauseStep(i)
    BY <1>1, TaskSteps DEF Held
  <2>2. Tasks' = Tasks
    BY <2>1, SameJob DEF Frame
  <2>3. CausesOfFailed'
    BY <2>1, <2>2 DEF Frame, CauseStep, CausesOfFailed
  <2>4. /\ faults \in Nat /\ faults' \in Nat /\ faults' >= faults
        /\ \A t \in Tasks : attempt[t] \in Nat
    <3>1. faults \in 0..MaxFaults /\ attempt \in [Tasks -> 0..(Attempts - 1)]
      BY DEF TypeOK
    <3>2. faults' \in 0..MaxFaults /\ faults' >= faults
      BY <2>1 DEF Frame
    <3> QED
      BY <3>1, <3>2, ShardExchangeAssumption DEF Attempts
  <2>5. PostsCost'
    BY <2>1, <2>2, <2>4 DEF Frame, CauseStep, PostsCost
  <2>6. TransientFaultsAbsorbed'
    BY <2>1, <2>2, <2>4 DEF Frame, CauseStep, TransientFaultsAbsorbed
  <2> QED
    BY <2>3, <2>5, <2>6
<1>2. CASE UNCHANGED <<job, pc, value, attempt, why, exchange, faults, reissues>>
  BY <1>2, SameJob DEF CausesOfFailed, PostsCost, TransientFaultsAbsorbed
<1> QED
  BY <1>1, <1>2, StepShapes

LEMMA NextReported ==
    ASSUME Inv, [Next]_vars
    PROVE  ReportedIsPosted'
<1> USE DEF Inv
<1>1. ASSUME NEW i \in Tasks, TaskStep(i)
      PROVE  ReportedIsPosted'
  <2>1. Frame(i) /\ ExchangeStep(i)
    BY <1>1, TaskSteps DEF Held
  <2>2. Tasks' = Tasks
    BY <2>1, SameJob DEF Frame
  <2>3. CASE UNCHANGED exchange /\ pc'[i] # "done"
    BY <2>1, <2>2, <2>3 DEF Frame, ReportedIsPosted
  <2>4. CASE exchange' = Stored(i) /\ value'[i] = value[i]
    <3>1. /\ DOMAIN exchange' = DOMAIN exchange \cup {i}
          /\ exchange'[i] = value[i]
          /\ \A t \in DOMAIN exchange : t # i => exchange'[t] = exchange[t]
      BY <2>4 DEF Stored
    <3> QED
      BY <2>1, <2>2, <2>4, <3>1 DEF Frame, ReportedIsPosted
  <2> QED
    BY <2>1, <2>3, <2>4 DEF ExchangeStep
<1>2. CASE UNCHANGED <<job, pc, value, attempt, why, exchange, faults, reissues>>
  BY <1>2, SameJob DEF ReportedIsPosted
<1> QED
  BY <1>1, <1>2, StepShapes

LEMMA NextInputsStay ==
    ASSUME Inv, [Next]_vars
    PROVE  InputsStay'
<1> USE DEF Inv
<1>1. ASSUME NEW i \in Tasks, TaskStep(i)
      PROVE  InputsStay'
  <2>1. Frame(i) /\ ValueStep(i) /\ ExchangeStep(i)
    BY <1>1, TaskSteps DEF Held
  <2>2. /\ Tasks' = Tasks /\ Merge' = Merge /\ Shards' = Shards
        /\ UNCHANGED job
    BY <2>1, SameJob DEF Frame, Shards
  <2>3. /\ DOMAIN exchange \subseteq DOMAIN exchange'
        /\ exchange' = [t \in DOMAIN exchange' |-> exchange'[t]]
    BY <2>1 DEF ExchangeStep, Stored, InputsStay
  <2>4. ASSUME NEW t \in Tasks, InputReady(t)
        PROVE  InputReady(t)'
    BY <2>2, <2>3, <2>4 DEF InputReady
  <2>5. ASSUME NEW t \in Tasks, pc'[t] \in {"compute", "post", "done"}
        PROVE  InputReady(t)
    <3>1. CASE t # i
      BY <2>1, <2>5, <3>1 DEF Frame, InputsStay
    <3>2. CASE t = i
      BY <2>1, <2>5, <3>2 DEF ValueStep, InputsStay
    <3> QED
      BY <3>1, <3>2
  <2> QED
    BY <2>2, <2>3, <2>4, <2>5 DEF InputsStay
<1>2. CASE UNCHANGED <<job, pc, value, attempt, why, exchange, faults, reissues>>
  BY <1>2, SameJob DEF InputsStay, InputReady, Shards
<1> QED
  BY <1>1, <1>2, StepShapes

LEMMA NextTypeOK ==
    ASSUME Inv, Held', [Next]_vars
    PROVE  TypeOK'
<1> USE DEF Inv
<1>1. ASSUME NEW i \in Tasks, TaskStep(i)
      PROVE  TypeOK'
  <2>1. Frame(i) /\ ValueStep(i) /\ ExchangeStep(i) /\ CauseStep(i)
    BY <1>1, TaskSteps DEF Held
  <2>2. job \in Jobs /\ UNCHANGED job
    BY <2>1 DEF TypeOK, Frame
  <2>3. /\ Tasks' = Tasks /\ Merge' = Merge /\ Layer' = Layer
        /\ \A t : Result(t)' = Result(t)
        /\ \A t : Given(t)' = Given(t)
    BY <2>2, SameJob
  <2>4. \A t \in Tasks : Result(t) \in Seq(Layer)
    BY <2>2, ResultTyped
  <2>5. \A t \in Tasks : t # Merge => Given(t) \in Seq(Layer)
    <3> SUFFICES ASSUME NEW t \in Tasks, t # Merge PROVE Given(t) \in Seq(Layer)
      OBVIOUS
    <3>1. t \in 0..(job.shards - 1) /\ job.shards \in Nat
      BY <2>2, JobShape
    <3>2. t > 0 => t - 1 \in 0..(job.shards - 1)
      BY <3>1
    <3>3. t > 0 => Result(t - 1) \in Seq(Layer)
      BY <2>2, <2>4, <3>2, JobShape
    <3>4. << >> \in Seq(Layer)
      BY EmptySeq
    <3>5. CASE job.topology = "pipeline" /\ t > 0
      BY <3>3, <3>5 DEF Given
    <3>6. CASE ~(job.topology = "pipeline" /\ t > 0)
      BY <3>4, <3>6 DEF Given
    <3> QED
      BY <3>5, <3>6
  <2>6. Merge \in Tasks => Given(Merge) \in Seq(Seq(Layer))
    <3>1. SUFFICES ASSUME Merge \in Tasks PROVE Given(Merge) \in Seq(Seq(Layer))
      OBVIOUS
    <3>2. Given(Merge) = [k \in 1..job.shards |-> Result(k - 1)]
      BY <2>2, <3>1, JobShape DEF Given
    <3>3. \A k \in 1..job.shards : k - 1 \in Tasks
      <4>1. job.shards \in Nat /\ \A n \in 0..(job.shards - 1) : n \in Tasks
        BY <2>2, JobShape
      <4>2. \A k \in 1..job.shards : k - 1 \in 0..(job.shards - 1)
        BY <4>1
      <4> QED
        BY <4>1, <4>2
    <3>4. Given(Merge) \in [1..job.shards -> Seq(Layer)]
      BY <2>4, <3>2, <3>3
    <3>5. job.shards \in Nat
      BY <2>2, JobShape
    <3> QED
      BY <3>4, <3>5, FunctionIsSeq
  <2>7. \A t \in Tasks :
           IF t = Merge /\ (pc'[t] = "compute" \/ why'[t] = "compute")
           THEN value'[t] \in Seq(Seq(Layer)) ELSE value'[t] \in Seq(Layer)
    <3>1. ASSUME NEW t \in Tasks, t # i
          PROVE  IF t = Merge /\ (pc'[t] = "compute" \/ why'[t] = "compute")
                 THEN value'[t] \in Seq(Seq(Layer)) ELSE value'[t] \in Seq(Layer)
      BY <2>1, <3>1 DEF Frame, TypeOK
    <3> DEFINE Typed == IF i = Merge /\ (pc'[i] = "compute" \/ why'[i] = "compute")
                        THEN value'[i] \in Seq(Seq(Layer)) ELSE value'[i] \in Seq(Layer)
    <3>2. Typed
      <4>2. CASE pc'[i] = "compute"
        <5>1. value'[i] = Given(i)
          BY <2>3, <4>2 DEF Held
        <5>2. i # Merge => Given(i) \in Seq(Layer)
          BY <2>5
        <5> QED
          BY <2>6, <4>2, <5>1, <5>2
      <4>3. CASE pc'[i] \in {"post", "done"}
        <5>1. value'[i] = Result(i)
          BY <2>3, <4>3 DEF Held
        <5>2. why'[i] = "none"
          BY <2>1, <4>3 DEF CauseStep
        <5>3. Result(i) \in Seq(Layer)
          BY <2>4
        <5> QED
          BY <4>3, <5>1, <5>2, <5>3
      <4>4. CASE value'[i] = << >> /\ pc'[i] # "compute" /\ why'[i] # "compute"
        BY <4>4, EmptySeq
      <4>5. CASE /\ value'[i] = value[i] /\ pc'[i] # "compute"
                 /\ why'[i] = "compute" <=> pc[i] = "compute" \/ why[i] = "compute"
        BY <4>5 DEF TypeOK
      <4> QED
        BY <2>1, <4>2, <4>3, <4>4, <4>5 DEF ValueStep
    <3> QED
      BY <3>1, <3>2
  <2>8. /\ DOMAIN exchange' \subseteq Tasks
        /\ \A t \in DOMAIN exchange' : exchange'[t] \in Seq(Layer)
    <3>1. DOMAIN exchange' \subseteq Tasks
      BY <2>1 DEF ExchangeStep, Stored, TypeOK
    <3>2. \A t \in DOMAIN exchange' : exchange'[t] = Result(t)
      BY <2>3 DEF Held
    <3> QED
      BY <2>4, <3>1, <3>2
  <2> HIDE DEF Inv
  <2> QED
    BY <2>1, <2>2, <2>3, <2>7, <2>8 DEF Frame, TypeOK, Pcs, CausesOfFailure
<1>2. CASE /\ elapsed' \in [Tasks -> 0..PollTimeout]
           /\ UNCHANGED <<job, pc, value, attempt, why, exchange, faults, reissues>>
  BY <1>2, SameJob DEF TypeOK
<1> QED
  BY <1>1, <1>2, StepShapes

LEMMA InvNext == Inv /\ [Next]_vars => Inv'
BY NextTypeOK, NextHeld, NextCauses, NextInputsStay, NextReported DEF Inv

LEMMA Invariant == Spec => []Inv
BY InvInit, InvNext, PTL DEF Spec

-----------------------------------------------------------------------------
(* The theorems. *)

\* Every value a task holds, and every output the exchange stores, is a
\* sequence of the model's layers; the merge alone holds a list of them.
THEOREM TypeCorrect == Spec => []TypeOK
<1>1. Inv => TypeOK
  BY DEF Inv
<1> QED
  BY <1>1, Invariant, PTL

\* A run whose worker can compute it gives what the unsharded model gives, for
\* every number of shards, every cut and topology, and whatever is repeated.
\* A command shard without an executor echoes its input (data_worker.py:149);
\* the node gives its worker none (node.py:208), so for the node as it is this
\* speaks of the models alone.
THEOREM ShardsCompose ==
    Spec => []((job.workload = "command" => HasExecutor) => ComposesInOrder)
<1>1. Inv => ((job.workload = "command" => HasExecutor) => ComposesInOrder)
  BY DEF Inv, Held, Result, Applied, ComposesInOrder, Expected, Depth
<1> QED
  BY <1>1, Invariant, PTL

\* A shard task is reported as done only when its output is at the server
\* (execute_shard returns after _post_output).
THEOREM DoneIsPosted == Spec => []ReportedIsPosted
<1>1. Inv => ReportedIsPosted
  BY DEF Inv
<1> QED
  BY <1>1, Invariant, PTL

\* Fewer than three faults, wherever they fall, fail no post (_post_output).
THEOREM PostsSurviveFaults == Spec => []TransientFaultsAbsorbed
<1>1. Inv => TransientFaultsAbsorbed
  BY DEF Inv
<1> QED
  BY <1>1, Invariant, PTL

-----------------------------------------------------------------------------
(* The dataflow. *)

Returned == {i \in Tasks : pc[i] = "done"}

\* What the dataflow makes of the exchange is what the task posts.
LEMMA OutputIsResult ==
    ASSUME Inv, NEW i \in Tasks, InputReady(i)
    PROVE  /\ Dataflow!Sources(i) \subseteq DOMAIN exchange
           /\ Dataflow!Output(i) = Result(i)
<1>1. job \in Jobs /\ Input(i) = Given(i)
  BY InputIsGiven DEF Inv, TypeOK, Held
<1>2. (IF i = Merge THEN ComputeMerge(Input(i)) ELSE ComputeShard(i, Input(i)))
         = Result(i)
  BY <1>1, ComputedIsResult
<1>3. /\ job.shards \in Nat \ {0}
      /\ i = Merge => job.topology = "reduce"
      /\ i # Merge => i \in 0..(job.shards - 1)
  BY <1>1, JobShape
<1>4. CASE i = Merge
  <2>1. Dataflow!Sources(i) = Shards
    BY <1>4 DEF Dataflow!Sources, Dataflow!Final, Dataflow!Shares, Merge, Shards
  <2>2. Dataflow!Output(i) = Dataflow!FlattenSeq(Input(i))
    BY <1>3, <1>4 DEF Dataflow!Output, Dataflow!Final, Input, Merge
  <2>3. Dataflow!FlattenSeq(Input(i)) = FlattenSeq(Input(i))
    BY Zenon DEF Dataflow!FlattenSeq, FlattenSeq
  <2> QED
    BY <1>2, <1>3, <1>4, <2>1, <2>2, <2>3 DEF InputReady, ComputeMerge
<1>5. CASE i # Merge
  <2>1. /\ Dataflow!Sources(i) =
              IF job.topology = "pipeline" /\ i > 0 THEN {i - 1} ELSE {}
        /\ Dataflow!Sources(i) = {} => Input(i) = << >>
        /\ Dataflow!Sources(i) # {} => Input(i) = exchange[i - 1]
    BY <1>5 DEF Dataflow!Sources, Dataflow!Final, Input, Merge
  <2>2. Dataflow!Output(i) = Input(i) \o Dataflow!Share(i)
    BY <1>5, <2>1 DEF Dataflow!Output, Dataflow!Final, Merge
  <2>3. Dataflow!Share(i) =
           IF Echo(job) THEN << >> ELSE Layers(Cut[i], Cut[i + 1])
    BY DEF Dataflow!Share, Layers, Cut
  <2>4. Input(i) \o << >> = Input(i)
    <3>1. Dataflow!Sources(i) # {} => i - 1 \in DOMAIN exchange
      BY <1>5, <2>1 DEF InputReady
    <3>2. Input(i) \in Seq(Layer)
      BY <2>1, <3>1, EmptySeq DEF Inv, TypeOK
    <3> QED
      BY <3>2, ConcatEmptySeq
  <2>5. ComputeShard(i, Input(i)) = Result(i)
    BY <1>2, <1>5
  <2>6. Dataflow!Sources(i) \subseteq DOMAIN exchange
    BY <1>5, <2>1 DEF InputReady
  <2>7. CASE Echo(job)
    BY <2>2, <2>3, <2>4, <2>5, <2>6, <2>7 DEF ComputeShard
  <2>8. CASE ~Echo(job)
    BY <2>2, <2>3, <2>5, <2>6, <2>8 DEF ComputeShard, RunLayers
  <2> QED
    BY <2>7, <2>8
<1> QED
  BY <1>4, <1>5

LEMMA DataflowStarts == Init => Dataflow!DataInit
BY DEF Init, Dataflow!DataInit

LEMMA DataflowSteps ==
    ASSUME Inv, [Next]_vars
    PROVE  [Dataflow!DataNext]_(Dataflow!dataVars)
<1> DEFINE Goal == [Dataflow!DataNext]_(Dataflow!dataVars)
<1>1. ASSUME NEW i \in Tasks, TaskStep(i)
      PROVE  Goal
  <2>1. Frame(i) /\ ValueStep(i) /\ ExchangeStep(i)
    BY <1>1, TaskSteps DEF Held, Inv
  <2>2. UNCHANGED job /\ Tasks' = Tasks
    BY <2>1, SameJob DEF Frame
  <2>3. Returned' = IF pc'[i] = "done" THEN Returned \cup {i} ELSE Returned \ {i}
    BY <2>1, <2>2 DEF Frame, Returned
  <2>4. i \in Dataflow!Parts
    BY DEF Dataflow!Parts, Dataflow!Final, Dataflow!Shares, Tasks, Merge, Shards
  <2>5. CASE UNCHANGED exchange /\ pc'[i] # "done"
    <3>1. CASE i \in Returned
      <4>1. Dataflow!Recall(i)
        BY <2>2, <2>3, <2>5, <3>1 DEF Dataflow!Recall, Returned
      <4> QED
        BY <2>4, <4>1 DEF Dataflow!DataNext
    <3>2. CASE i \notin Returned
      BY <2>2, <2>3, <2>5, <3>2 DEF Dataflow!dataVars, Returned
    <3> QED
      BY <3>1, <3>2
  <2>6. CASE exchange' = Stored(i) /\ pc[i] = "post"
    <3>1. i \notin Returned /\ value[i] = Result(i) /\ InputReady(i)
      BY <2>6 DEF Returned, Inv, Held, InputsStay
    <3>2. /\ Dataflow!Sources(i) \subseteq DOMAIN exchange
          /\ Dataflow!Output(i) = Result(i)
      BY <3>1, OutputIsResult
    <3>3. Returned' \in {Returned, Returned \cup {i}}
      BY <2>3, <3>1
    <3>4. CASE i \notin DOMAIN exchange
      <4>1. Dataflow!Appear(i)
        BY <2>2, <2>6, <3>1, <3>2, <3>3, <3>4
        DEF Dataflow!Appear, Returned, Stored
      <4> QED
        BY <2>4, <4>1 DEF Dataflow!DataNext
    <3>5. CASE i \in DOMAIN exchange
      <4>1. exchange' = exchange
        <5>1. exchange[i] = value[i] /\ DOMAIN exchange \cup {i} = DOMAIN exchange
          BY <3>1, <3>5 DEF Inv, Held
        <5>2. Stored(i) = [j \in DOMAIN exchange |-> exchange[j]]
          BY <5>1 DEF Stored
        <5> QED
          BY <2>6, <5>2 DEF Inv, InputsStay
      <4>2. CASE Returned' = Returned
        BY <2>2, <4>1, <4>2 DEF Dataflow!dataVars, Returned
      <4>3. CASE Returned' = Returned \cup {i}
        <5>1. Dataflow!Return(i)
          BY <2>2, <3>5, <4>1, <4>3 DEF Dataflow!Return, Returned
        <5> QED
          BY <2>4, <5>1 DEF Dataflow!DataNext
      <4> QED
        BY <3>3, <4>2, <4>3
    <3> QED
      BY <3>4, <3>5
  <2> QED
    BY <2>1, <2>5, <2>6 DEF ExchangeStep
<1>2. CASE UNCHANGED <<job, pc, value, attempt, why, exchange, faults, reissues>>
  BY <1>2, SameJob DEF Dataflow!dataVars
<1> QED
  BY <1>1, <1>2, StepShapes DEF Inv

\* Whatever is polled, repeated, lost or issued again, outputs appear once, after
\* those they are computed from, and never change (data_worker.py).
THEOREM DataflowImplemented == Spec => ImplementsDataflow
<1>1. Inv /\ [Next]_vars => [Dataflow!DataNext]_(Dataflow!dataVars)
  BY DataflowSteps
<1> QED
  BY <1>1, DataflowStarts, Invariant, PTL
  DEF Spec, ImplementsDataflow, Dataflow!DataSpec
=============================================================================
