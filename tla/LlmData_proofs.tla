-------------------------- MODULE LlmData_proofs --------------------------
(***************************************************************************)
(* The data of a run: the weights its tasks load and the activations they  *)
(* send, for any number of layers, any set of models and plans, any number *)
(* of failures, and any set of nested lists.                               *)
(*                                                                         *)
(* The invariant about the weights says what makes the three properties    *)
(* true together: a hole in a file, and two tasks writing one file, come   *)
(* with the overlap flag (OverlapSeen); a file bears the revision of       *)
(* whoever may read it unless two revisions share a directory              *)
(* (RevisionsKept); a task without a failure of its own, in a directory of *)
(* its own, finds every file as published (OwnDirectory); and a loaded     *)
(* module is what load_state_dict made of the keys (Built).                *)
(*                                                                         *)
(* About the activations there is little to keep (TensorInv); the work is  *)
(* in what the algorithms compute.  The levels of a full array have as     *)
(* many nodes as the shape says (LevelSizes), so the last one is the flat  *)
(* list (FlatArray); the levels of what _reshape returns are its chunks    *)
(* (ReshapedLevels), so the last one is the flat list again                *)
(* (ReshapeIsArray); and arrays that agree there agree at every level      *)
(* above (ArraysEqual).                                                    *)
(***************************************************************************)
EXTENDS ShardWeights, TensorFormat, FiniteSetTheorems, SequenceTheorems,
        WellFoundedInduction, NaturalsInduction, TLAPS

AtWork == {"look", "request", "write", "read"}

AtAFile == \A s \in Shards : task[s].phase \in AtWork => task[s].file \in Files

Built ==
    /\ DOMAIN params = Shards
    /\ \A s \in Shards : At(s, "loaded") => params[s] = LoadStateDict(s)
                                            /\ ~ForwardRaises(s)

OverlapSeen ==
    ~overlapped =>
        /\ \A s, t \in Shards :
              s # t /\ At(s, "write") /\ At(t, "write") /\ DirOf(s) = DirOf(t)
                => task[s].file # task[t].file
        /\ \A d \in Shards, f \in Files : disk[d][f].state # "holed"
        /\ \A s \in Shards : \A c \in got[s] : c.state = "whole"

RevisionsKept ==
    ~(plan.sharedDir /\ ~plan.sameRev) =>
        \A s \in Shards :
            /\ \A f \in Files : File(s, f).state # "absent" => File(s, f).rev = RevOf(s)
            /\ \A c \in got[s] : c.rev = RevOf(s)

OwnDirectory ==
    ~plan.sharedDir =>
        \A s \in Shards \ hit :
            /\ \A f \in Files :
                  \/ disk[s][f].state = "absent"
                  \/ disk[s][f].state = "whole" /\ f \in Published
                  \/ /\ disk[s][f].state = "cut" /\ f \in Published
                     /\ At(s, "write") /\ task[s].file = f
            /\ task[s].phase \in AtWork => task[s].file \in Published \cup {"index"}
            /\ task[s].todo \subseteq Published
            /\ At(s, "failed") => ForwardRaises(s)

Inv ==
    /\ TypeOK
    /\ AtAFile
    /\ Built
    /\ OverlapSeen
    /\ RevisionsKept
    /\ OwnDirectory

-----------------------------------------------------------------------------
(* Keys and parameters. *)

LEMMA PlanShape ==
    ASSUME plan \in Plans, model \in Models
    PROVE  /\ NumLayers \in Nat /\ plan.cut \in 0..NumLayers
           /\ plan.sharedDir \in BOOLEAN /\ plan.sameRev \in BOOLEAN
           /\ plan.source = "local" => plan.sharedDir /\ plan.sameRev
           /\ model.layout \in {"single", "sharded"} /\ model.tied \in BOOLEAN
           /\ Shards = {0, 1}
BY ShardWeightsAssumption

LEMMA RangeShape ==
    ASSUME plan \in Plans, model \in Models, NEW s \in Shards
    PROVE  Start(s) \in Nat /\ End(s) \in Nat /\ Start(s) <= End(s) /\ End(s) <= NumLayers
BY PlanShape DEF Start, End

\* What the keys of a shard are, and what becomes of them.
LEMMA KeyKinds ==
    ASSUME plan \in Plans, model \in Models, NEW s \in Shards,
           NEW k \in KeysForShard(s)
    PROVE  \/ \E i \in Nat : /\ Start(s) <= i /\ i < End(s)
                             /\ k = Layer(i) /\ LocalKey(s, k) = Layer(i - Start(s))
           \/ k = Other("embed") /\ s = 0 /\ LocalKey(s, k) = k
           \/ k = Other("norm") /\ s = 1 /\ LocalKey(s, k) = k
           \/ k = Other("head") /\ s = 1 /\ ~model.tied /\ LocalKey(s, k) = k
<1>1. k \in AllKeys
  BY DEF KeysForShard
<1>2. CASE \E i \in 0..(NumLayers - 1) : k = Layer(i)
  <2>1. PICK i \in 0..(NumLayers - 1) : k = Layer(i)
    BY <1>2
  <2>2. k.name = "layer" /\ k.index = i /\ i \in Nat
    BY <2>1, PlanShape DEF Layer
  <2>3. Start(s) <= i /\ i < End(s)
    BY <2>2, RangeShape DEF KeysForShard
  <2> QED
    BY <2>1, <2>2, <2>3 DEF LocalKey
<1>3. CASE k \in {Other("embed"), Other("norm")}
  BY <1>3 DEF KeysForShard, LocalKey, Other
<1>4. CASE k = Other("head") /\ ~model.tied
  BY <1>4 DEF KeysForShard, LocalKey, Other
<1> QED
  BY <1>1, <1>2, <1>3, <1>4 DEF AllKeys

\* Every key of a shard has a parameter in the shard's module.
LEMMA KeysFit ==
    ASSUME plan \in Plans, model \in Models, NEW s \in Shards,
           NEW k \in KeysForShard(s)
    PROVE  /\ LocalKey(s, k) \in OwnParams(s)
           /\ k.name = "layer" => /\ k.index \in Nat /\ k.index >= Start(s)
                                  /\ k.index = Start(s) + LocalKey(s, k).index
<1>1. Shards = {0, 1} /\ NumLayers \in Nat
  BY PlanShape
<1>2. Start(s) \in Nat /\ End(s) \in Nat /\ Start(s) <= End(s) /\ End(s) <= NumLayers
  BY RangeShape
<1>3. CASE \E i \in Nat : /\ Start(s) <= i /\ i < End(s)
                          /\ k = Layer(i) /\ LocalKey(s, k) = Layer(i - Start(s))
  <2>1. PICK i \in Nat : /\ Start(s) <= i /\ i < End(s)
                         /\ k = Layer(i) /\ LocalKey(s, k) = Layer(i - Start(s))
    BY <1>3
  <2>2. i - Start(s) \in 0..(NumLayers - 1) /\ i - Start(s) < End(s) - Start(s)
    BY <1>1, <1>2, <2>1
  <2>3. LocalKey(s, k) \in OwnParams(s)
    BY <2>1, <2>2 DEF OwnParams
  <2>4. k.index = i /\ LocalKey(s, k).index = i - Start(s)
    BY <2>1 DEF Layer
  <2> QED
    BY <1>2, <2>1, <2>3, <2>4
<1>4. CASE k = Other("embed") /\ s = 0 /\ LocalKey(s, k) = k
  BY <1>4 DEF OwnParams, Other
<1>5. CASE k = Other("norm") /\ s = 1 /\ LocalKey(s, k) = k
  BY <1>5 DEF OwnParams, Other
<1>6. CASE k = Other("head") /\ s = 1 /\ ~model.tied /\ LocalKey(s, k) = k
  BY <1>6 DEF OwnParams, Other
<1> QED
  BY <1>3, <1>4, <1>5, <1>6, KeyKinds

\* Every parameter of a shard's module has a key of the shard.
LEMMA ParamsHaveKeys ==
    ASSUME plan \in Plans, model \in Models, NEW s \in Shards, ~ForwardRaises(s),
           NEW p \in OwnParams(s)
    PROVE  \E k \in KeysForShard(s) : LocalKey(s, k) = p
<1>1. Shards = {0, 1} /\ NumLayers \in Nat
  BY PlanShape
<1>2. Start(s) \in Nat /\ End(s) \in Nat /\ Start(s) <= End(s) /\ End(s) <= NumLayers
  BY RangeShape
<1>3. CASE p \in {Layer(i) : i \in {j \in 0..(NumLayers - 1) : j < End(s) - Start(s)}}
  <2>1. PICK i \in 0..(NumLayers - 1) : i < End(s) - Start(s) /\ p = Layer(i)
    BY <1>3
  <2> DEFINE k == Layer(i + Start(s))
  <2>2. i + Start(s) \in 0..(NumLayers - 1) /\ i + Start(s) < End(s)
        /\ i + Start(s) >= Start(s) /\ (i + Start(s)) - Start(s) = i
    BY <1>1, <1>2, <2>1
  <2>3. k \in AllKeys /\ k.name = "layer" /\ k.index = i + Start(s)
    BY <2>2 DEF AllKeys, Layer
  <2>4. k \in KeysForShard(s)
    BY <2>2, <2>3 DEF KeysForShard
  <2>5. LocalKey(s, k) = p
    BY <2>1, <2>2, <2>3 DEF LocalKey
  <2> QED
    BY <2>4, <2>5
<1>4. CASE s = 0 /\ p = Other("embed")
  BY <1>4 DEF KeysForShard, AllKeys, LocalKey, Other
<1>5. CASE s = 1 /\ p = Other("norm")
  BY <1>5 DEF KeysForShard, AllKeys, LocalKey, Other
<1>6. CASE s = 1 /\ ~model.tied /\ p = Other("head")
  BY <1>6 DEF KeysForShard, AllKeys, LocalKey, Other
<1> QED
  BY <1>1, <1>3, <1>4, <1>5, <1>6 DEF OwnParams

\* load_state_dict uses each key of the shard and sets each parameter of its
\* module, each layer from the key it stands for.
LEMMA LoadSetsAll ==
    ASSUME plan \in Plans, model \in Models, NEW s \in Shards, ~ForwardRaises(s)
    PROVE  /\ {p.param : p \in LoadStateDict(s)} = OwnParams(s)
           /\ \A p \in LoadStateDict(s) :
                 p.key.name = "layer" => p.key.index = Start(s) + p.param.index
           /\ \A k : (\E p \in LoadStateDict(s) : p.key = k) <=> k \in KeysForShard(s)
<1>1. LoadStateDict(s) = {[param |-> LocalKey(s, k), key |-> k] : k \in KeysForShard(s)}
  <2>1. {j \in KeysForShard(s) : /\ j.name = "layer" => j.index >= Start(s)
                                 /\ LocalKey(s, j) \in OwnParams(s)} = KeysForShard(s)
    BY KeysFit
  <2> QED
    BY <2>1 DEF LoadStateDict
<1>2. \A p \in LoadStateDict(s) : p.key \in KeysForShard(s) /\ p.param = LocalKey(s, p.key)
  BY <1>1
<1>3. \A k \in KeysForShard(s) :
         \E p \in LoadStateDict(s) : p.key = k /\ p.param = LocalKey(s, k)
  <2> SUFFICES ASSUME NEW k \in KeysForShard(s)
               PROVE  \E p \in LoadStateDict(s) : p.key = k /\ p.param = LocalKey(s, k)
    OBVIOUS
  <2> DEFINE p == [param |-> LocalKey(s, k), key |-> k]
  <2>1. p \in LoadStateDict(s) /\ p.key = k /\ p.param = LocalKey(s, k)
    BY <1>1
  <2> QED
    BY <2>1
<1>4. {p.param : p \in LoadStateDict(s)} = OwnParams(s)
  <2>1. \A p \in LoadStateDict(s) : p.param \in OwnParams(s)
    BY <1>2, KeysFit
  <2>2. \A q \in OwnParams(s) : \E p \in LoadStateDict(s) : p.param = q
    BY <1>3, ParamsHaveKeys
  <2> QED
    BY <2>1, <2>2
<1>5. \A p \in LoadStateDict(s) :
         p.key.name = "layer" => p.key.index = Start(s) + p.param.index
  BY <1>2, KeysFit
<1> QED
  BY <1>2, <1>3, <1>4, <1>5

\* Each key of the model belongs to exactly one shard.
LEMMA KeysSplit ==
    ASSUME plan \in Plans, model \in Models, NEW k \in AllKeys
    PROVE  \E s \in Shards : {t \in Shards : k \in KeysForShard(t)} = {s}
<1>1. /\ Shards = {0, 1} /\ NumLayers \in Nat /\ plan.cut \in 0..NumLayers
      /\ Start(0) = 0 /\ End(0) = plan.cut
      /\ Start(1) = plan.cut /\ End(1) = NumLayers
  BY PlanShape DEF Start, End
<1>2. CASE \E i \in 0..(NumLayers - 1) : k = Layer(i)
  <2>1. PICK i \in 0..(NumLayers - 1) : k = Layer(i)
    BY <1>2
  <2>2. k.name = "layer" /\ k.index = i
    BY <2>1 DEF Layer
  <2>3. \A t \in Shards : k \in KeysForShard(t) <=> i >= Start(t) /\ i < End(t)
    BY <2>2 DEF KeysForShard
  <2>4. CASE i < plan.cut
    <3>1. 0 \in Shards /\ {t \in Shards : k \in KeysForShard(t)} = {0}
      BY <1>1, <2>3, <2>4
    <3> QED
      BY <3>1
  <2>5. CASE ~(i < plan.cut)
    <3>1. 1 \in Shards /\ {t \in Shards : k \in KeysForShard(t)} = {1}
      BY <1>1, <2>3, <2>5
    <3> QED
      BY <3>1
  <2> QED
    BY <2>4, <2>5
<1>3. CASE k = Other("embed")
  <2>1. 0 \in Shards /\ {t \in Shards : k \in KeysForShard(t)} = {0}
    BY <1>1, <1>3 DEF KeysForShard, Other
  <2> QED
    BY <2>1
<1>4. CASE k \in {Other("norm"), Other("head")}
  <2>1. 1 \in Shards /\ {t \in Shards : k \in KeysForShard(t)} = {1}
    BY <1>1, <1>4 DEF KeysForShard, Other
  <2> QED
    BY <2>1
<1> QED
  BY <1>2, <1>3, <1>4 DEF AllKeys

-----------------------------------------------------------------------------
(* What a step of one task does. *)

Phases == {"idle", "look", "request", "write", "read", "build", "loaded", "failed"}
TaskRecord == [file : Files \cup {"none"}, phase : Phases, todo : SUBSET WeightFiles]

\* Going to a file and a phase changes no other task, and nothing to come.
LEMMA GotoTyped ==
    ASSUME TypeOK, NEW s \in Shards, NEW f \in Files \cup {"none"},
           NEW ph \in Phases, Goto(s, f, ph)
    PROVE  /\ task' \in [Shards -> TaskRecord]
           /\ \A t \in Shards : t # s => task'[t] = task[t]
           /\ task'[s].file = f /\ task'[s].phase = ph
           /\ task'[s].todo = task[s].todo
<1>1. task \in [Shards -> TaskRecord] /\ task[s] \in TaskRecord
  BY DEF TypeOK, TaskRecord, Phases
<1> DEFINE r == [task[s] EXCEPT !.file = f, !.phase = ph]
<1>2. task' = [task EXCEPT ![s] = r]
  BY DEF Goto
<1>3. /\ r \in TaskRecord /\ r.file = f /\ r.phase = ph
      /\ r.todo = task[s].todo
  BY <1>1 DEF TaskRecord
<1> HIDE DEF r
<1>4. task'[s] = r
  BY <1>1, <1>2
<1> QED
  BY <1>1, <1>2, <1>3, <1>4

\* Writing changes the one file, which is then there and of the writer's
\* revision.
LEMMA SetFileTyped ==
    ASSUME TypeOK, NEW s \in Shards, NEW st \in {"cut", "holed", "whole"},
           task[s].file \in Files, DirOf(s) \in Shards, RevOf(s) \in Shards,
           SetFile(s, st)
    PROVE  /\ disk' \in [Shards -> [Files -> Content]]
           /\ disk'[DirOf(s)][task[s].file].state = st
           /\ disk'[DirOf(s)][task[s].file].rev = RevOf(s)
           /\ \A d \in Shards, f \in Files :
                 d # DirOf(s) \/ f # task[s].file => disk'[d][f] = disk[d][f]
<1> DEFINE c == [state |-> st, rev |-> RevOf(s)]
<1>1. disk \in [Shards -> [Files -> Content]]
  BY DEF TypeOK
<1>2. c \in Content /\ c.state = st /\ c.rev = RevOf(s)
  BY DEF Content
<1> HIDE DEF c
<1>3. disk' = [disk EXCEPT ![DirOf(s)] = [disk[DirOf(s)] EXCEPT ![task[s].file] = c]]
  BY DEF SetFile, c
<1>4. [disk[DirOf(s)] EXCEPT ![task[s].file] = c] \in [Files -> Content]
  BY <1>1, <1>2
<1>5. disk'[DirOf(s)] = [disk[DirOf(s)] EXCEPT ![task[s].file] = c]
  BY <1>1, <1>3
<1>6. disk'[DirOf(s)][task[s].file] = c
  BY <1>1, <1>5
<1>7. \A d \in Shards, f \in Files :
         d # DirOf(s) \/ f # task[s].file => disk'[d][f] = disk[d][f]
  BY <1>1, <1>3, <1>5
<1> QED
  BY <1>1, <1>2, <1>3, <1>4, <1>6, <1>7

\* Where a task may go next.
LEMMA AfterTyped ==
    ASSUME TypeOK, NEW s \in Shards, After(s), task[s].file \in Files
    PROVE  /\ task' \in [Shards -> TaskRecord]
           /\ \A t \in Shards : t # s => task'[t] = task[t]
           /\ \/ /\ task'[s].phase = "build"
                 /\ task'[s].todo = {}
              \/ /\ task[s].file = "config" /\ task'[s].file = "index"
                 /\ task'[s].phase = "look" /\ task'[s].todo = task[s].todo
              \/ /\ task'[s].file \in task'[s].todo /\ task'[s].phase = "look"
                 /\ task'[s].todo \subseteq WeightFiles
                 /\ \/ task[s].file = "index" /\ task'[s].todo = NeededFiles(s)
                    \/ task'[s].todo \subseteq task[s].todo
<1>1. task \in [Shards -> TaskRecord] /\ task[s] \in TaskRecord
  BY DEF TypeOK, TaskRecord, Phases
<1> DEFINE todo == IF task[s].file = "index" THEN NeededFiles(s)
                   ELSE task[s].todo \ {task[s].file}
<1>2. NeededFiles(s) \subseteq WeightFiles
  BY DEF NeededFiles, FileOfKey, WeightFiles
<1>3. todo \subseteq WeightFiles
  BY <1>1, <1>2 DEF TaskRecord
<1>4. /\ task[s].file = "index" /\ todo = NeededFiles(s)
      \/ todo \subseteq task[s].todo
  OBVIOUS
<1>5. \/ task[s].file = "config" /\ Goto(s, "index", "look")
      \/ task' = [task EXCEPT ![s] = [file |-> "none", phase |-> "build", todo |-> {}]]
      \/ \E g \in todo :
            task' = [task EXCEPT ![s] = [file |-> g, phase |-> "look", todo |-> todo]]
  BY DEF After
<1> HIDE DEF todo
<1>6. CASE task[s].file = "config" /\ Goto(s, "index", "look")
  <2>1. "index" \in Files /\ "look" \in Phases
    BY DEF Files, Phases
  <2> QED
    BY <1>6, <2>1, GotoTyped
<1>7. CASE task' = [task EXCEPT ![s] = [file |-> "none", phase |-> "build", todo |-> {}]]
  <2> DEFINE r == [file |-> "none", phase |-> "build", todo |-> {}]
  <2>1. r \in TaskRecord /\ r.phase = "build" /\ r.todo = {}
    BY DEF TaskRecord, Phases
  <2> HIDE DEF r
  <2>2. task' = [task EXCEPT ![s] = r]
    BY <1>7 DEF r
  <2> QED
    BY <1>1, <2>1, <2>2
<1>8. ASSUME NEW g \in todo,
             task' = [task EXCEPT ![s] = [file |-> g, phase |-> "look", todo |-> todo]]
      PROVE  /\ task' \in [Shards -> TaskRecord]
             /\ \A t \in Shards : t # s => task'[t] = task[t]
             /\ task'[s].file = g /\ task'[s].phase = "look" /\ task'[s].todo = todo
  <2> DEFINE r == [file |-> g, phase |-> "look", todo |-> todo]
  <2>1. /\ r \in TaskRecord
        /\ r.file = g /\ r.phase = "look" /\ r.todo = todo
    BY <1>3 DEF TaskRecord, Phases, Files
  <2> HIDE DEF r
  <2>2. task' = [task EXCEPT ![s] = r]
    BY <1>8 DEF r
  <2> QED
    BY <1>1, <2>1, <2>2
<1> QED
  BY <1>3, <1>4, <1>5, <1>6, <1>7, <1>8

\* The other task, the model and the plan, and the types of what changes.
Frame(s) ==
    /\ UNCHANGED <<model, plan>>
    /\ task' \in [Shards -> TaskRecord]
    /\ \A t \in Shards : t # s => task'[t] = task[t]
    /\ disk' \in [Shards -> [Files -> Content]]
    /\ \A d \in Shards, f \in Files :
          \/ disk'[d][f] = disk[d][f]
          \/ /\ d = DirOf(s) /\ f = task[s].file
             /\ disk'[d][f].state # "absent" /\ disk'[d][f].rev = RevOf(s)
    /\ got' \in [Shards -> SUBSET Content]
    /\ \A t \in Shards : t # s => got'[t] = got[t]
    /\ DOMAIN params' = Shards
    /\ \A t \in Shards : t # s => params'[t] = params[t]
    /\ hit' \subseteq Shards /\ hit \subseteq hit'
    /\ overlapped' \in BOOLEAN
    /\ faults' \in 0..MaxFaults

\* A step that neither reads nor writes a file.
Quiet(s) ==
    /\ UNCHANGED <<disk, got, overlapped>>
    /\ task'[s].phase # "write"
    /\ task'[s].phase = "read" => Look(s)

LEMMA DirsAndRevs ==
    ASSUME plan \in Plans, model \in Models, NEW s \in Shards
    PROVE  DirOf(s) \in Shards /\ RevOf(s) \in Shards
BY PlanShape DEF DirOf, RevOf

LEMMA TaskSteps ==
    ASSUME TypeOK, AtAFile, DOMAIN params = Shards, NEW s \in Shards, Load(s)
    PROVE  /\ Frame(s)
           /\ task'[s].phase \in AtWork => task'[s].file \in Files
           /\ StartWrite(s) \/ EndWrite(s) \/ Read(s) \/ Quiet(s)
           /\ params'[s] = params[s] \/ Build(s)
           /\ task'[s].phase = "loaded" => Build(s)
           /\ task[s].phase \notin {"loaded", "failed"}
<1>a. /\ disk \in [Shards -> [Files -> Content]]
      /\ got \in [Shards -> SUBSET Content]
      /\ hit \subseteq Shards /\ overlapped \in BOOLEAN
      /\ faults \in 0..MaxFaults /\ MaxFaults \in Nat
      /\ DirOf(s) \in Shards /\ RevOf(s) \in Shards
      /\ task[s] \in TaskRecord
      /\ task[s].phase \in AtWork => task[s].file \in Files
      /\ DOMAIN params = Shards
      /\ "index" \in Files /\ "model" \in Files /\ "config" \in Files
  BY ShardWeightsAssumption, DirsAndRevs
  DEF TypeOK, AtAFile, TaskRecord, Phases, Files, WeightFiles
<1>b. ASSUME NEW f \in Files \cup {"none"}, NEW ph \in Phases, Goto(s, f, ph)
      PROVE  /\ task' \in [Shards -> TaskRecord]
             /\ \A t \in Shards : t # s => task'[t] = task[t]
             /\ task'[s].file = f /\ task'[s].phase = ph
  BY <1>b, GotoTyped
<1>r. ASSUME Raise(s), task[s].phase \in AtWork
      PROVE  /\ task' \in [Shards -> TaskRecord]
             /\ \A t \in Shards : t # s => task'[t] = task[t]
             /\ task'[s].phase \in {"look", "failed"}
             /\ task'[s].file \in Files
  BY <1>a, <1>b, <1>r DEF Raise, Phases
<1>1. CASE Begin(s)
  BY <1>1, <1>a, <1>b DEF Begin, Frame, Quiet, At, AtWork, Phases
<1>2. CASE Look(s)
  <2>1. CASE Goto(s, "model", "look")
    BY <1>2, <2>1, <1>a, <1>b DEF Look, Frame, Quiet, At, AtWork, Phases
  <2>2. CASE Goto(s, task[s].file,
                  IF File(s, task[s].file).state = "absent" THEN "request" ELSE "read")
    BY <1>2, <2>2, <1>a, <1>b DEF Look, Frame, Quiet, At, AtWork, Phases
  <2> QED
    BY <1>2, <2>1, <2>2 DEF Look
<1>3. CASE RequestFails(s)
  BY <1>3, <1>a, <1>r DEF RequestFails, Frame, Quiet, At, AtWork
<1>4. CASE StartWrite(s)
  <2>1. /\ task[s].phase = "request" /\ SetFile(s, "cut") /\ task[s].file \in Files
        /\ Goto(s, task[s].file, "write") /\ overlapped' \in BOOLEAN
        /\ UNCHANGED <<model, plan, got, params, hit, faults>>
    BY <1>4, <1>a DEF StartWrite, At, AtWork
  <2>2. /\ disk' \in [Shards -> [Files -> Content]]
        /\ disk'[DirOf(s)][task[s].file].state = "cut"
        /\ disk'[DirOf(s)][task[s].file].rev = RevOf(s)
        /\ \A d \in Shards, f \in Files :
              d # DirOf(s) \/ f # task[s].file => disk'[d][f] = disk[d][f]
    BY <2>1, <1>a, SetFileTyped
  <2>3. "write" \in Phases
    BY DEF Phases
  <2> QED
    BY <1>4, <2>1, <2>2, <2>3, <1>a, <1>b DEF Frame, AtWork
<1>5. CASE EndWrite(s)
  <2>1. PICK st \in {"holed", "whole"} : SetFile(s, st)
    BY <1>5 DEF EndWrite
  <2>2. /\ task[s].phase = "write" /\ task[s].file \in Files
        /\ Goto(s, task[s].file, "read")
        /\ UNCHANGED <<model, plan, got, params, hit, overlapped, faults>>
    BY <1>5, <1>a DEF EndWrite, At, AtWork
  <2>3. /\ disk' \in [Shards -> [Files -> Content]]
        /\ disk'[DirOf(s)][task[s].file].state = st
        /\ disk'[DirOf(s)][task[s].file].rev = RevOf(s)
        /\ \A d \in Shards, f \in Files :
              d # DirOf(s) \/ f # task[s].file => disk'[d][f] = disk[d][f]
    BY <2>1, <2>2, <1>a, SetFileTyped
  <2>4. "read" \in Phases
    BY DEF Phases
  <2> QED
    BY <1>5, <2>2, <2>3, <2>4, <1>a, <1>b DEF Frame, AtWork
<1>6. CASE WriteBreaks(s)
  BY <1>6, <1>a, <1>r DEF WriteBreaks, Frame, Quiet, At, AtWork
<1>7. CASE Read(s)
  <2>1. CASE Readable(task[s].file, File(s, task[s].file))
    <3>1. /\ After(s) /\ got' = [got EXCEPT ![s] = @ \cup {File(s, task[s].file)}]
          /\ task[s].phase = "read" /\ task[s].file \in Files
      BY <1>7, <2>1, <1>a DEF Read, At, AtWork
    <3>2. File(s, task[s].file) \in Content
      BY <3>1, <1>a DEF File
    <3>3. task'[s].phase \in {"look", "build"}
          /\ task'[s].phase \in AtWork => task'[s].file \in Files
      BY <3>1, <1>a, AfterTyped DEF AtWork, Files
    <3> QED
      BY <1>7, <3>1, <3>2, <3>3, <1>a, AfterTyped DEF Read, Frame
  <2>2. CASE ~Readable(task[s].file, File(s, task[s].file))
    BY <1>7, <2>2, <1>a, <1>b DEF Read, Frame, At, AtWork, Phases
  <2> QED
    BY <2>1, <2>2
<1>8. CASE Build(s)
  BY <1>8, <1>a, <1>b DEF Build, Frame, Quiet, At, AtWork, Phases
<1> QED
  BY <1>1, <1>2, <1>3, <1>4, <1>5, <1>6, <1>7, <1>8 DEF Load

-----------------------------------------------------------------------------
(* The invariant. *)

LEMMA SamePlan ==
    ASSUME UNCHANGED <<model, plan>>
    PROVE  /\ Published' = Published /\ AllKeys' = AllKeys
           /\ \A s : DirOf(s)' = DirOf(s)
           /\ \A s : RevOf(s)' = RevOf(s)
           /\ \A s : ForwardRaises(s)' = ForwardRaises(s)
           /\ \A s : LoadStateDict(s)' = LoadStateDict(s)
<1>1. AllKeys' = AllKeys
  BY DEF AllKeys
<1>2. \A s : Start(s)' = Start(s) /\ End(s)' = End(s)
  BY DEF Start, End
<1>3. \A s : KeysForShard(s)' = KeysForShard(s)
  BY <1>1, <1>2 DEF KeysForShard
<1>4. \A s : OwnParams(s)' = OwnParams(s)
  BY <1>2 DEF OwnParams
<1>5. \A s, k : LocalKey(s, k)' = LocalKey(s, k)
  BY <1>2 DEF LocalKey
<1>6. \A s : LoadStateDict(s)' = LoadStateDict(s)
  BY <1>2, <1>3, <1>4, <1>5 DEF LoadStateDict
<1> QED
  BY <1>1, <1>6 DEF Published, DirOf, RevOf, ForwardRaises

\* Two tasks have one directory only where they are made to share it.
LEMMA Directories ==
    ASSUME plan \in Plans, model \in Models, NEW s \in Shards, NEW t \in Shards, s # t
    PROVE  /\ DirOf(s) = DirOf(t) => plan.sharedDir
           /\ ~plan.sharedDir => DirOf(s) = s
           /\ plan.sameRev => RevOf(s) = RevOf(t)
BY PlanShape DEF DirOf, RevOf

LEMMA InvInit == Init => Inv
<1> SUFFICES ASSUME Init PROVE Inv
  OBVIOUS
<1>1. plan \in Plans /\ model \in Models
  BY DEF Init
<1>2. \A s \in Shards : DirOf(s) \in Shards
  BY <1>1, DirsAndRevs
<1>3. 0 \in Shards /\ 0 \in 0..MaxFaults
  BY ShardWeightsAssumption
<1>4. \A d \in Shards, f \in Files :
         disk[d][f] = IF plan.source = "local" /\ f \in Published
                      THEN [state |-> "whole", rev |-> 0] ELSE Absent
  BY DEF Init
<1>5. /\ [state |-> "whole", rev |-> 0] \in Content /\ Absent \in Content
  BY <1>3 DEF Content, Absent
<1>6. disk \in [Shards -> [Files -> Content]]
  BY <1>5 DEF Init
<1>7. \A s \in Shards : task[s] = [file |-> "none", phase |-> "idle", todo |-> {}]
  BY DEF Init
<1>8. TypeOK
  <2>1. task \in [Shards -> TaskRecord]
    BY DEF Init, TaskRecord, Phases
  <2>2. hit \subseteq Shards /\ overlapped \in BOOLEAN /\ faults \in 0..MaxFaults
        /\ got \in [Shards -> SUBSET Content] /\ \A s \in Shards : params[s] = {}
    BY <1>3 DEF Init
  <2> QED
    BY <1>1, <1>6, <1>7, <2>1, <2>2 DEF TypeOK, TaskRecord, Phases
<1>9. AtAFile /\ Built
  BY <1>7 DEF Init, AtAFile, Built, AtWork, At
<1>10. OverlapSeen
  BY <1>4, <1>7 DEF Init, OverlapSeen, At, Absent
<1>11. RevisionsKept
  <2>1. ~(plan.sharedDir /\ ~plan.sameRev) => (plan.source = "local" => plan.sameRev)
    BY <1>1, PlanShape
  <2>2. \A s \in Shards : plan.sameRev => RevOf(s) = 0
    BY DEF RevOf
  <2>3. \A s \in Shards : got[s] = {}
    BY DEF Init
  <2> QED
    BY <1>2, <1>4, <2>1, <2>2, <2>3 DEF RevisionsKept, File, Absent
<1>12. OwnDirectory
  BY <1>4, <1>7 DEF OwnDirectory, AtWork, At, Absent
<1> QED
  BY <1>8, <1>9, <1>10, <1>11, <1>12 DEF Inv

\* A task that writes or reads a file finds it.
LEMMA FileIsThere ==
    ASSUME Inv, NEW s \in Shards, Load(s), task'[s].phase \in {"write", "read"}
    PROVE  disk'[DirOf(s)][task'[s].file].state # "absent"
<1> USE DEF Inv
<1>1. /\ task[s].phase \in AtWork => task[s].file \in Files
      /\ task'[s].phase \in AtWork => task'[s].file \in Files
      /\ DirOf(s) \in Shards /\ RevOf(s) \in Shards
      /\ StartWrite(s) \/ EndWrite(s) \/ Read(s) \/ Quiet(s)
  BY TaskSteps, DirsAndRevs DEF AtAFile, Built, TypeOK
<1>2. CASE StartWrite(s)
  <2>1. SetFile(s, "cut") /\ Goto(s, task[s].file, "write") /\ task[s].file \in Files
    BY <1>1, <1>2 DEF StartWrite, At, AtWork
  <2>2. disk'[DirOf(s)][task[s].file].state = "cut"
    BY <1>1, <2>1, SetFileTyped
  <2>3. task'[s].file = task[s].file
    BY <2>1, GotoTyped DEF Phases
  <2> QED
    BY <2>2, <2>3
<1>3. CASE EndWrite(s)
  <2>1. PICK st \in {"holed", "whole"} : SetFile(s, st)
    BY <1>3 DEF EndWrite
  <2>2. Goto(s, task[s].file, "read") /\ task[s].file \in Files
    BY <1>1, <1>3 DEF EndWrite, At, AtWork
  <2>3. disk'[DirOf(s)][task[s].file].state = st
    BY <1>1, <2>1, <2>2, SetFileTyped
  <2>4. task'[s].file = task[s].file
    BY <2>2, GotoTyped DEF Phases
  <2> QED
    BY <2>3, <2>4
<1>4. CASE Read(s)
  <2>1. task[s].file \in Files /\ task[s].file \in Files \cup {"none"} /\ "failed" \in Phases
    BY <1>1, <1>4 DEF Read, At, AtWork, Phases
  <2>2. After(s) \/ Goto(s, task[s].file, "failed")
    BY <1>4 DEF Read
  <2> QED
    BY <2>1, <2>2, AfterTyped, GotoTyped
<1>5. CASE Quiet(s)
  <2>1. Look(s) /\ UNCHANGED disk /\ task'[s].phase = "read"
    BY <1>5 DEF Quiet
  <2>2. task[s].file \in Files
    BY <1>1, <2>1 DEF Look, At, AtWork
  <2>3. CASE Goto(s, "model", "look")
    BY <2>1, <2>3, GotoTyped DEF Files, WeightFiles, Phases
  <2>4. CASE Goto(s, task[s].file, IF File(s, task[s].file).state = "absent"
                                   THEN "request" ELSE "read")
    <3>1. task'[s].file = task[s].file
          /\ task'[s].phase = IF File(s, task[s].file).state = "absent"
                              THEN "request" ELSE "read"
      BY <2>2, <2>4, GotoTyped DEF Phases
    <3> QED
      BY <2>1, <3>1 DEF File
  <2> QED
    BY <2>1, <2>3, <2>4 DEF Look
<1> QED
  BY <1>1, <1>2, <1>3, <1>4, <1>5

LEMMA NextTypeOK ==
    ASSUME Inv, NEW s \in Shards, Load(s)
    PROVE  TypeOK' /\ AtAFile' /\ Built'
<1> USE DEF Inv
<1>1. /\ Frame(s)
      /\ task'[s].phase \in AtWork => task'[s].file \in Files
      /\ params'[s] = params[s] \/ Build(s)
      /\ task'[s].phase = "loaded" => Build(s)
  BY TaskSteps DEF Built
<1>2. UNCHANGED <<model, plan>> /\ plan \in Plans /\ model \in Models
  BY <1>1 DEF Frame, TypeOK
<1>3. AtAFile'
  BY <1>1 DEF Frame, AtAFile
<1>4. Build(s) => /\ params'[s] = LoadStateDict(s)
                  /\ task'[s].phase = "loaded" => ~ForwardRaises(s)
  <2> SUFFICES ASSUME Build(s)
               PROVE  /\ params'[s] = LoadStateDict(s)
                      /\ task'[s].phase = "loaded" => ~ForwardRaises(s)
    OBVIOUS
  <2>1. params'[s] = LoadStateDict(s)
    BY DEF Build, Built
  <2>2. Goto(s, "none", IF ForwardRaises(s) THEN "failed" ELSE "loaded")
    BY DEF Build
  <2>3. task'[s].phase = IF ForwardRaises(s) THEN "failed" ELSE "loaded"
    BY <2>2, GotoTyped DEF Phases
  <2> QED
    BY <2>1, <2>3
<1>5. Built'
  <2>1. DOMAIN params' = Shards
    BY <1>1 DEF Frame
  <2>2. ASSUME NEW t \in Shards, task'[t].phase = "loaded"
        PROVE  params'[t] = LoadStateDict(t) /\ ~ForwardRaises(t)
    <3>1. CASE t = s
      BY <1>1, <1>4, <2>2, <3>1
    <3>2. CASE t # s
      BY <1>1, <2>2, <3>2 DEF Frame, Built, At
    <3> QED
      BY <3>1, <3>2
  <2> QED
    BY <1>2, <2>1, <2>2, SamePlan DEF Built, At
<1>6. \A t \in Shards : \A p \in params'[t] : p.key \in AllKeys
  <2>1. \A p \in LoadStateDict(s) : p.key \in AllKeys
    BY DEF LoadStateDict, KeysForShard
  <2>2. params'[s] = params[s] \/ params'[s] = LoadStateDict(s)
    BY <1>1, <1>4
  <2>3. \A t \in Shards : \A p \in params[t] : p.key \in AllKeys
    BY DEF TypeOK
  <2>4. \A t \in Shards : t # s => params'[t] = params[t]
    BY <1>1 DEF Frame
  <2> HIDE DEF Inv
  <2> QED
    BY <2>1, <2>2, <2>3, <2>4
<1>7. ASSUME NEW t \in Shards, task'[t].phase \in {"write", "read"}
      PROVE  disk'[DirOf(t)][task'[t].file].state # "absent"
  <2>1. CASE t = s
    BY <1>7, <2>1, FileIsThere
  <2>2. CASE t # s
    <3>1. task'[t] = task[t] /\ task[t].file \in Files /\ DirOf(t) \in Shards
      BY <1>1, <1>2, <1>7, <2>2, DirsAndRevs DEF Frame, AtAFile, AtWork
    <3>2. disk[DirOf(t)][task[t].file].state # "absent"
      BY <1>7, <3>1 DEF TypeOK, File
    <3> QED
      BY <1>1, <3>1, <3>2 DEF Frame
  <2> QED
    BY <2>1, <2>2
<1>8. TypeOK'
  <2>1. \A t \in Shards : task'[t].phase \in {"write", "read"} =>
           File(t, task[t].file)'.state # "absent"
    BY <1>2, <1>7, SamePlan DEF File
  <2>2. \A t \in Shards : \A p \in params'[t] : p.key \in AllKeys'
    BY <1>2, <1>6, SamePlan
  <2> HIDE DEF Inv
  <2> QED
    BY <1>1, <1>2, <2>1, <2>2 DEF Frame, TypeOK, TaskRecord, Phases
<1> QED
  BY <1>3, <1>5, <1>8

LEMMA NextOverlapSeen ==
    ASSUME Inv, NEW s \in Shards, Load(s)
    PROVE  OverlapSeen'
<1> USE DEF Inv
<1>1. /\ Frame(s)
      /\ StartWrite(s) \/ EndWrite(s) \/ Read(s) \/ Quiet(s)
  BY TaskSteps DEF Built
<1>2. /\ UNCHANGED <<model, plan>> /\ plan \in Plans /\ model \in Models
      /\ DirOf(s) \in Shards /\ RevOf(s) \in Shards
      /\ task[s].phase \in AtWork => task[s].file \in Files
  BY <1>1, DirsAndRevs DEF Frame, TypeOK, AtAFile
<1>3. \A t \in Shards : DirOf(t)' = DirOf(t)
  BY <1>2, SamePlan
<1>s. SUFFICES ASSUME ~overlapped'
               PROVE  /\ \A t, u \in Shards :
                            t # u /\ At(t, "write")' /\ At(u, "write")' /\ DirOf(t) = DirOf(u)
                              => task'[t].file # task'[u].file
                      /\ \A d \in Shards, f \in Files : disk'[d][f].state # "holed"
                      /\ \A t \in Shards : \A c \in got'[t] : c.state = "whole"
  BY <1>3 DEF OverlapSeen
<1>4. CASE StartWrite(s)
  <2>1. /\ ~overlapped /\ Writers(DirOf(s), task[s].file) = {}
        /\ SetFile(s, "cut") /\ Goto(s, task[s].file, "write") /\ UNCHANGED got
        /\ task[s].file \in Files
    BY <1>2, <1>4, <1>s DEF StartWrite, At, AtWork
  <2>2. task'[s].file = task[s].file
    BY <2>1, GotoTyped DEF Phases
  <2>3. \A d \in Shards, f \in Files : disk'[d][f].state # "holed"
    <3>1. /\ disk'[DirOf(s)][task[s].file].state = "cut"
          /\ \A d \in Shards, f \in Files :
                d # DirOf(s) \/ f # task[s].file => disk'[d][f] = disk[d][f]
      BY <1>2, <2>1, SetFileTyped
    <3> QED
      BY <2>1, <3>1 DEF OverlapSeen
  <2>4. ASSUME NEW t \in Shards, t # s, At(t, "write")', DirOf(t) = DirOf(s)
        PROVE  task'[t].file # task'[s].file
    <3>1. task'[t] = task[t]
      BY <1>1, <2>4 DEF Frame
    <3> QED
      BY <2>1, <2>2, <2>4, <3>1 DEF Writers, At
  <2>5. ASSUME NEW t \in Shards, NEW u \in Shards, t # u, t # s, u # s,
               At(t, "write")', At(u, "write")', DirOf(t) = DirOf(u)
        PROVE  task'[t].file # task'[u].file
    BY <1>1, <2>1, <2>5 DEF Frame, OverlapSeen, At
  <2> QED
    BY <2>1, <2>3, <2>4, <2>5 DEF OverlapSeen
<1>5. CASE ~StartWrite(s)
  <2>1. ~overlapped /\ task'[s].phase # "write"
    <3>1. CASE EndWrite(s)
      <4>1. /\ task[s].file \in Files /\ "read" \in Phases
            /\ Goto(s, task[s].file, "read") /\ UNCHANGED overlapped
        BY <1>2, <3>1 DEF EndWrite, At, AtWork, Phases
      <4>2. task'[s].phase = "read"
        BY <4>1, GotoTyped
      <4> QED
        BY <1>s, <4>1, <4>2
    <3>2. CASE Read(s)
      <4>1. /\ task[s].file \in Files /\ task[s].file \in Files \cup {"none"}
            /\ "failed" \in Phases /\ ~overlapped
            /\ After(s) \/ Goto(s, task[s].file, "failed")
        BY <1>2, <1>s, <3>2 DEF Read, At, AtWork, Phases
      <4>2. CASE After(s)
        BY <4>1, <4>2, AfterTyped
      <4>3. CASE Goto(s, task[s].file, "failed")
        <5>1. TypeOK
          OBVIOUS
        <5> HIDE DEF Inv
        <5>2. task'[s].phase = "failed"
          BY <4>1, <4>3, <5>1, GotoTyped
        <5> QED
          BY <4>1, <5>2
      <4> QED
        BY <4>1, <4>2, <4>3
    <3>3. CASE Quiet(s)
      BY <1>s, <3>3 DEF Quiet
    <3> QED
      BY <1>1, <1>5, <3>1, <3>2, <3>3
  <2>2. ASSUME NEW t \in Shards, NEW u \in Shards, t # u,
               At(t, "write")', At(u, "write")', DirOf(t) = DirOf(u)
        PROVE  task'[t].file # task'[u].file
    <3>1. t # s /\ u # s
      BY <2>1, <2>2 DEF At
    <3> QED
      BY <1>1, <2>1, <2>2, <3>1 DEF Frame, OverlapSeen, At
  <2>3. \A d \in Shards, f \in Files : disk'[d][f].state # "holed"
    <3>1. CASE UNCHANGED disk
      BY <2>1, <3>1 DEF OverlapSeen
    <3>2. CASE EndWrite(s)
      <4>1. task[s].phase = "write" /\ task[s].file \in Files
        BY <1>2, <3>2 DEF EndWrite, At, AtWork
      <4>2. Writers(DirOf(s), task[s].file) = {s}
        BY <2>1, <4>1 DEF Writers, OverlapSeen, At
      <4>3. SetFile(s, "whole")
        BY <3>2, <4>2 DEF EndWrite
      <4>4. /\ disk'[DirOf(s)][task[s].file].state = "whole"
            /\ \A d \in Shards, f \in Files :
                  d # DirOf(s) \/ f # task[s].file => disk'[d][f] = disk[d][f]
        BY <1>2, <4>1, <4>3, SetFileTyped
      <4> QED
        BY <2>1, <4>4 DEF OverlapSeen
    <3> QED
      BY <1>1, <1>5, <3>1, <3>2 DEF Read, Quiet
  <2>4. \A t \in Shards : \A c \in got'[t] : c.state = "whole"
    <3>1. CASE UNCHANGED got
      BY <2>1, <3>1 DEF OverlapSeen
    <3>2. CASE Read(s) /\ Readable(task[s].file, File(s, task[s].file))
      <4>1. /\ got' = [got EXCEPT ![s] = @ \cup {File(s, task[s].file)}]
            /\ task[s].file \in Files
        BY <1>2, <3>2 DEF Read, At, AtWork
      <4>2. File(s, task[s].file).state = "whole"
        BY <1>2, <2>1, <3>2, <4>1 DEF Readable, File, OverlapSeen
      <4> QED
        BY <2>1, <4>1, <4>2 DEF OverlapSeen, TypeOK
    <3>3. UNCHANGED got \/ (Read(s) /\ Readable(task[s].file, File(s, task[s].file)))
      BY <1>1, <1>5 DEF Read, EndWrite, Quiet
    <3> QED
      BY <3>1, <3>2, <3>3
  <2> QED
    BY <2>2, <2>3, <2>4
<1> QED
  BY <1>4, <1>5

LEMMA NextRevisionsKept ==
    ASSUME Inv, NEW s \in Shards, Load(s)
    PROVE  RevisionsKept'
<1> USE DEF Inv
<1>1. /\ Frame(s)
      /\ StartWrite(s) \/ EndWrite(s) \/ Read(s) \/ Quiet(s)
  BY TaskSteps DEF Built
<1>2. /\ UNCHANGED <<model, plan>> /\ plan \in Plans /\ model \in Models
      /\ task[s].phase \in AtWork => task[s].file \in Files
  BY <1>1 DEF Frame, TypeOK, AtAFile
<1>3. \A t \in Shards : DirOf(t)' = DirOf(t) /\ RevOf(t)' = RevOf(t) /\ DirOf(t) \in Shards
  BY <1>2, SamePlan, DirsAndRevs
<1>s. SUFFICES ASSUME ~(plan.sharedDir /\ ~plan.sameRev), NEW t \in Shards
               PROVE  /\ \A f \in Files : disk'[DirOf(t)][f].state # "absent" =>
                                             disk'[DirOf(t)][f].rev = RevOf(t)
                      /\ \A c \in got'[t] : c.rev = RevOf(t)
  BY <1>2, <1>3 DEF RevisionsKept, File
<1>4. /\ \A f \in Files : disk[DirOf(t)][f].state # "absent" =>
                             disk[DirOf(t)][f].rev = RevOf(t)
      /\ \A c \in got[t] : c.rev = RevOf(t)
  BY <1>s DEF RevisionsKept, File
<1>5. DirOf(t) = DirOf(s) => RevOf(t) = RevOf(s)
  BY <1>2, <1>s, Directories
<1>6. \A f \in Files : disk'[DirOf(t)][f].state # "absent" =>
                          disk'[DirOf(t)][f].rev = RevOf(t)
  BY <1>1, <1>3, <1>4, <1>5 DEF Frame
<1>7. \A c \in got'[t] : c.rev = RevOf(t)
  <2>1. CASE got'[t] = got[t]
    BY <1>4, <2>1
  <2>2. CASE got'[t] # got[t]
    <3>1. t = s /\ Read(s) /\ got' = [got EXCEPT ![s] = @ \cup {File(s, task[s].file)}]
      BY <1>1, <2>2 DEF Frame, StartWrite, EndWrite, Read, Quiet
    <3>2. task[s].file \in Files /\ File(s, task[s].file).state # "absent"
      BY <1>2, <3>1 DEF Read, At, AtWork, TypeOK
    <3>3. File(s, task[s].file).rev = RevOf(s)
      BY <1>4, <3>1, <3>2 DEF File
    <3> QED
      BY <1>4, <3>1, <3>3 DEF TypeOK
  <2> QED
    BY <2>1, <2>2
<1> QED
  BY <1>6, <1>7

\* In a directory of its own, a task that has met no failure of its own finds
\* each file absent or as published.
LEMMA NextOwnDirectory ==
    ASSUME Inv, NEW s \in Shards, Load(s)
    PROVE  OwnDirectory'
<1> USE DEF Inv
<1>1. /\ Frame(s)
      /\ StartWrite(s) \/ EndWrite(s) \/ Read(s) \/ Quiet(s)
      /\ task'[s].phase = "loaded" => Build(s)
  BY TaskSteps DEF Built
<1>2. /\ UNCHANGED <<model, plan>> /\ plan \in Plans /\ model \in Models
      /\ DirOf(s) \in Shards /\ RevOf(s) \in Shards
      /\ task[s].phase \in AtWork => task[s].file \in Files
      /\ \A t \in Shards : ForwardRaises(t)' = ForwardRaises(t)
      /\ Published' = Published
  BY <1>1, DirsAndRevs, SamePlan DEF Frame, TypeOK, AtAFile
<1> DEFINE FilesAsPublished(t, dk, tk) ==
             \A f \in Files :
                \/ dk[f].state = "absent"
                \/ dk[f].state = "whole" /\ f \in Published
                \/ /\ dk[f].state = "cut" /\ f \in Published
                   /\ tk.phase = "write" /\ tk.file = f
           OnItsWay(t, tk) ==
             /\ tk.phase \in AtWork => tk.file \in Published \cup {"index"}
             /\ tk.todo \subseteq Published
             /\ tk.phase = "failed" => ForwardRaises(t)
<1>s. SUFFICES ASSUME ~plan.sharedDir, NEW t \in Shards, t \notin hit'
               PROVE  FilesAsPublished(t, disk'[t], task'[t]) /\ OnItsWay(t, task'[t])
  BY <1>2 DEF OwnDirectory, At
<1>3. /\ DirOf(t) = t /\ DirOf(s) = s /\ t \notin hit
      /\ plan.source = "hub"
  BY <1>1, <1>2, <1>s, PlanShape, ShardWeightsAssumption DEF DirOf, Frame
<1>4. FilesAsPublished(t, disk[t], task[t]) /\ OnItsWay(t, task[t])
  BY <1>3, <1>s DEF OwnDirectory, At
<1>5. CASE t # s
  <2>1. task'[t] = task[t] /\ \A f \in Files : disk'[t][f] = disk[t][f]
    BY <1>1, <1>3, <1>5 DEF Frame
  <2> QED
    BY <1>4, <2>1
<1>6. CASE t = s
  <2>i. "index" \notin Published => "model" \in Published
    BY <1>2, PlanShape DEF Published
  <2>q. ASSUME UNCHANGED disk,
               task[s].phase # "write" \/ (task'[s].phase = "write" /\ task'[s].file = task[s].file)
        PROVE  FilesAsPublished(s, disk'[s], task'[s])
    BY <1>4, <1>6, <2>q
  <2>1. CASE Begin(s)
    <3>1. Goto(s, "config", "look") /\ UNCHANGED disk /\ task[s].phase = "idle"
      BY <2>1 DEF Begin, At
    <3>2. /\ task'[s].file = "config" /\ task'[s].phase = "look"
          /\ task'[s].todo = task[s].todo
      BY <3>1, GotoTyped DEF Files, Phases
    <3> QED
      BY <1>4, <1>6, <2>q, <3>1, <3>2 DEF Published
  <2>2. CASE Look(s)
    <3>1. /\ Goto(s, task[s].file, IF File(s, task[s].file).state = "absent"
                                   THEN "request" ELSE "read")
          /\ UNCHANGED disk /\ task[s].phase = "look" /\ task[s].file \in Files
      BY <1>2, <1>3, <2>2 DEF Look, At, AtWork
    <3>2. /\ task'[s].file = task[s].file /\ task'[s].phase \in {"request", "read"}
          /\ task'[s].todo = task[s].todo
      BY <3>1, GotoTyped DEF Phases
    <3> QED
      BY <1>4, <1>6, <2>q, <3>1, <3>2 DEF AtWork
  <2>3. CASE RequestFails(s)
    <3>1. /\ task[s].file \notin Published /\ task[s].phase = "request"
          /\ Raise(s) /\ UNCHANGED disk
      BY <1>6, <1>s, <2>3 DEF RequestFails, At
    <3>2. task[s].file = "index"
      BY <1>4, <1>6, <3>1 DEF AtWork
    <3>3. Goto(s, "model", "look")
      BY <1>3, <3>1, <3>2 DEF Raise
    <3>4. /\ task'[s].file = "model" /\ task'[s].phase = "look"
          /\ task'[s].todo = task[s].todo
      BY <3>3, GotoTyped DEF Files, WeightFiles, Phases
    <3> QED
      BY <1>4, <1>6, <2>i, <2>q, <3>1, <3>2, <3>4
  <2>4. CASE StartWrite(s)
    <3>1. /\ task[s].phase = "request" /\ SetFile(s, "cut") /\ task[s].file \in Files
          /\ task[s].file \in Published /\ Goto(s, task[s].file, "write")
      BY <1>2, <2>4 DEF StartWrite, At, AtWork
    <3>2. /\ task'[s].file = task[s].file /\ task'[s].phase = "write"
          /\ task'[s].todo = task[s].todo
      BY <3>1, GotoTyped DEF Phases
    <3>3. /\ disk'[s][task[s].file].state = "cut"
          /\ \A f \in Files : f # task[s].file => disk'[s][f] = disk[s][f]
      BY <1>2, <1>3, <3>1, SetFileTyped
    <3> QED
      BY <1>4, <1>6, <3>1, <3>2, <3>3
  <2>5. CASE EndWrite(s)
    <3>1. /\ task[s].phase = "write" /\ task[s].file \in Files
          /\ Goto(s, task[s].file, "read")
      BY <1>2, <2>5 DEF EndWrite, At, AtWork
    <3>2. /\ task'[s].file = task[s].file /\ task'[s].phase = "read"
          /\ task'[s].todo = task[s].todo
      BY <3>1, GotoTyped DEF Phases
    <3>3. Writers(DirOf(s), task[s].file) = {s}
      BY <1>2, <1>3, <1>s, <3>1, Directories DEF Writers, At
    <3>4. SetFile(s, "whole")
      BY <2>5, <3>3 DEF EndWrite
    <3>5. /\ disk'[s][task[s].file].state = "whole"
          /\ \A f \in Files : f # task[s].file => disk'[s][f] = disk[s][f]
      BY <1>2, <1>3, <3>1, <3>4, SetFileTyped
    <3>6. task[s].file \in Published
      <4>1. disk[s][task[s].file].state # "absent"
        BY <1>3, <1>6, <3>1 DEF TypeOK, File
      <4> QED
        BY <1>4, <1>6, <3>1, <4>1
    <3> QED
      BY <1>4, <1>6, <3>1, <3>2, <3>5, <3>6
  <2>6. CASE WriteBreaks(s)
    BY <1>6, <1>s, <2>6 DEF WriteBreaks
  <2>7. CASE Read(s)
    <3>1. /\ task[s].phase = "read" /\ task[s].file \in Files /\ UNCHANGED disk
      BY <1>2, <2>7 DEF Read, At, AtWork
    <3>2. File(s, task[s].file).state = "whole" /\ task[s].file \in Published
      <4>1. disk[s][task[s].file].state # "absent"
        BY <1>3, <1>6, <3>1 DEF TypeOK, File
      <4> QED
        BY <1>3, <1>4, <1>6, <3>1, <4>1 DEF File
    <3>3. After(s)
      BY <2>7, <3>2 DEF Read, Readable
    <3>4. task[s].file = "index" => NeededFiles(s) \subseteq Published
      BY <1>2, <3>2, PlanShape DEF NeededFiles, FileOfKey, Published
    <3>5. /\ task'[s].phase \in {"build", "look"}
          /\ task'[s].todo \subseteq Published
          /\ task'[s].phase = "look" => task'[s].file \in Published \cup {"index"}
      BY <1>4, <1>6, <3>1, <3>3, <3>4, AfterTyped
    <3> QED
      BY <1>6, <2>q, <3>1, <3>5 DEF AtWork
  <2>8. CASE Build(s)
    <3>1. /\ Goto(s, "none", IF ForwardRaises(s) THEN "failed" ELSE "loaded")
          /\ UNCHANGED disk /\ task[s].phase = "build"
      BY <2>8 DEF Build, At
    <3>2. /\ task'[s].phase = IF ForwardRaises(s) THEN "failed" ELSE "loaded"
          /\ task'[s].todo = task[s].todo
      BY <3>1, GotoTyped DEF Phases
    <3> QED
      BY <1>4, <1>6, <2>q, <3>1, <3>2 DEF AtWork
  <2> QED
    BY <1>6, <2>1, <2>2, <2>3, <2>4, <2>5, <2>6, <2>7, <2>8 DEF Load
<1> QED
  BY <1>5, <1>6

LEMMA InvNext == Inv /\ [Next]_vars => Inv'
<1> SUFFICES ASSUME Inv, [Next]_vars PROVE Inv'
  OBVIOUS
<1>1. ASSUME NEW s \in Shards, Load(s) PROVE Inv'
  BY <1>1, NextTypeOK, NextOverlapSeen, NextRevisionsKept, NextOwnDirectory
  DEF Inv
<1>2. CASE UNCHANGED vars
  <2>1. UNCHANGED <<model, plan>>
    BY <1>2 DEF vars
  <2> QED
    BY <1>2, <2>1, SamePlan
    DEF vars, Inv, TypeOK, AtAFile, Built, OverlapSeen, RevisionsKept,
        OwnDirectory,
        At, File
<1> QED
  BY <1>1, <1>2 DEF Next

THEOREM Invariant == Spec => []Inv
<1> QED
  BY InvInit, InvNext, PTL DEF Spec

-----------------------------------------------------------------------------
(* The theorems. *)

\* Every variable keeps its type; a file being written or read is there.
THEOREM TypeCorrect == Spec => []TypeOK
<1>1. Inv => TypeOK
  BY DEF Inv
<1> QED
  BY <1>1, Invariant, PTL

\* A shard that runs has read whole files of the revision its URI names,
\* whenever no two tasks downloaded one file at once, and no two revisions
\* share a directory (weights.py:125-162).
THEOREM WeightsAreTheModels == Spec => []LoadedFromItsFiles
<1>1. Inv => LoadedFromItsFiles
  BY DEF Inv, OverlapSeen, RevisionsKept, LoadedFromItsFiles
<1> QED
  BY <1>1, Invariant, PTL

\* With a directory per task, a task fails by its own requests and transfers
\* only, or because a tied model's last shard lacks the embeddings
\* (weights.py:125).
THEOREM DirectoriesIsolate == Spec => []FailuresStayLocal
<1>1. Inv => FailuresStayLocal
  BY DEF Inv, OwnDirectory, FailuresStayLocal
<1> QED
  BY <1>1, Invariant, PTL

\* The shards that run are one model, for every number of layers and every
\* cut (weights.py:19, model_shard.py:231).
THEOREM ShardsAreOneModel == Spec => []ShardsFormTheModel
<1>1. ASSUME Inv, NEW s \in Shards, At(s, "loaded")
      PROVE  /\ {p.param : p \in params[s]} = OwnParams(s)
             /\ \A p \in params[s] :
                  p.key.name = "layer" => p.key.index = Start(s) + p.param.index
             /\ \A k : (\E p \in params[s] : p.key = k) <=> k \in KeysForShard(s)
  <2>1. params[s] = LoadStateDict(s) /\ ~ForwardRaises(s)
        /\ plan \in Plans /\ model \in Models
    BY <1>1 DEF Inv, Built, TypeOK
  <2> QED
    BY <2>1, LoadSetsAll
<1>2. ASSUME Inv, NEW k \in AllKeys, \A s \in Shards : At(s, "loaded")
      PROVE  Cardinality({s \in Shards : \E p \in params[s] : p.key = k}) = 1
  <2>1. {s \in Shards : \E p \in params[s] : p.key = k}
          = {s \in Shards : k \in KeysForShard(s)}
    BY <1>1, <1>2
  <2>2. PICK s \in Shards : {t \in Shards : k \in KeysForShard(t)} = {s}
    BY <1>2, KeysSplit DEF Inv, TypeOK
  <2> QED
    BY <2>1, <2>2, FS_Singleton
<1>3. Inv => ShardsFormTheModel
  BY <1>1, <1>2 DEF ShardsFormTheModel
<1> QED
  BY <1>3, Invariant, PTL

-----------------------------------------------------------------------------
(* Activations: numbers, levels and concatenations. *)

LEMMA LeastNatural ==
    ASSUME NEW T, T \subseteq Nat, T # {}
    PROVE  \E x \in T : \A y \in T : x <= y
<1>1. PICK x \in T : \A y \in T : ~ (<<y, x>> \in OpToRel(<, Nat))
  BY NatLessThanWellFounded, WFMin
<1>2. \A y \in T : ~ (y < x)
  BY <1>1 DEF OpToRel
<1> QED
  BY <1>2

\* Induction over the numbers up to m, for a set of them.
LEMMA UpTo ==
    ASSUME NEW m \in Nat, NEW T, 0 \in T,
           \A n \in 0..m : n < m /\ n \in T => n + 1 \in T
    PROVE  \A n \in 0..m : n \in T
<1> DEFINE B == {n \in 0..m : n \notin T}
<1>1. SUFFICES ASSUME B # {} PROVE FALSE
  OBVIOUS
<1>2. B \subseteq Nat
  OBVIOUS
<1>3. PICK n \in B : \A y \in B : n <= y
  <2> HIDE DEF B
  <2> QED
    BY <1>1, <1>2, LeastNatural
<1>4. n \in 0..m /\ n \notin T /\ n # 0
  OBVIOUS
<1>5. n - 1 \in 0..m /\ n - 1 < m /\ ~ (n <= n - 1)
  BY <1>4
<1>6. n - 1 \in T
  BY <1>3, <1>5
<1> QED
  BY <1>4, <1>5, <1>6

\* The same from m down.
LEMMA DownTo ==
    ASSUME NEW m \in Nat, NEW T, m \in T,
           \A n \in 0..m : n < m /\ n + 1 \in T => n \in T
    PROVE  \A n \in 0..m : n \in T
<1> DEFINE U == {k \in 0..m : m - k \in T}
<1>1. 0 \in U
  OBVIOUS
<1>2. ASSUME NEW k \in 0..m, k < m, k \in U
      PROVE  k + 1 \in U
  <2>1. m - (k + 1) \in 0..m /\ m - (k + 1) < m /\ (m - (k + 1)) + 1 = m - k
    BY <1>2
  <2>2. m - (k + 1) \in T
    BY <1>2, <2>1
  <2> QED
    BY <1>2, <2>2
<1>3. \A k \in 0..m : k \in U
  <2> HIDE DEF U
  <2> QED
    BY <1>1, <1>2, UpTo
<1>4. ASSUME NEW n \in 0..m
      PROVE  n \in T
  <2>1. m - n \in 0..m /\ m - (m - n) = n
    OBVIOUS
  <2> QED
    BY <1>3, <2>1
<1> QED
  BY <1>4

\* The levels of a nested list are what their recursion says.
LEMMA LevelEquations ==
    ASSUME NEW d
    PROVE  /\ Level(d)[0] = <<d>>
           /\ \A n \in 1..MaxDepth : Level(d)[n] = Unwrap(Level(d)[n - 1])
<1>0. MaxDepth \in Nat
  BY TensorAssumption
<1> DEFINE Sol(f, m) == f = [n \in 0..m |-> IF n = 0 THEN <<d>>
                                           ELSE Unwrap(f[n - 1])]
           T == {m \in Nat : \E f : Sol(f, m)}
<1>1. 0 \in T
  <2> DEFINE f == [n \in 0..0 |-> <<d>>]
  <2>1. Sol(f, 0)
    OBVIOUS
  <2> QED
    BY <2>1
<1>2. ASSUME NEW m \in Nat, m \in T
      PROVE  m + 1 \in T
  <2>1. PICK g : Sol(g, m)
    BY <1>2
  <2> DEFINE h == [n \in 0..(m + 1) |-> IF n = m + 1 THEN Unwrap(g[m]) ELSE g[n]]
  <2>2. ASSUME NEW n \in 0..(m + 1)
        PROVE  h[n] = IF n = 0 THEN <<d>> ELSE Unwrap(h[n - 1])
    <3>1. CASE n = m + 1
      BY <3>1
    <3>2. CASE n \in 0..m
      <4>1. g[n] = IF n = 0 THEN <<d>> ELSE Unwrap(g[n - 1])
        BY <2>1, <3>2
      <4>2. h[n] = g[n] /\ (n # 0 => h[n - 1] = g[n - 1])
        BY <3>2
      <4> QED
        BY <4>1, <4>2
    <3> QED
      BY <3>1, <3>2
  <2>3. Sol(h, m + 1)
    <3>1. h = [n \in 0..(m + 1) |-> h[n]]
      OBVIOUS
    <3> HIDE DEF h
    <3> QED
      BY <2>2, <3>1
  <2> HIDE DEF h
  <2> QED
    BY <2>3
<1>3. MaxDepth \in T
  <2> HIDE DEF T
  <2> QED
    BY <1>0, <1>1, <1>2, UpTo
<1>4. Level(d) = CHOOSE f : Sol(f, MaxDepth)
  BY DEF Level
<1>5. Sol(Level(d), MaxDepth)
  BY <1>3, <1>4
<1> QED
  BY <1>0, <1>5

LEMMA TimesMonotone ==
    ASSUME NEW a \in Nat, NEW b \in Nat, NEW c \in Nat, a <= b
    PROVE  a * c <= b * c
<1>1. PICK e \in Nat : b = a + e
  <2>1. b - a \in Nat /\ b = a + (b - a)
    OBVIOUS
  <2> QED
    BY <2>1
<1>2. e * c \in Nat /\ a * c \in Nat /\ (a + e) * c = a * c + e * c
  OBVIOUS
<1> QED
  BY <1>1, <1>2

\* The j-th item of the i-th of equal groups of c is among the first i * c.
LEMMA PlaceInGroups ==
    ASSUME NEW c \in Nat, NEW i \in Nat \ {0}, NEW j \in 1..c
    PROVE  /\ (i - 1) * c + j \in 1..(i * c)
           /\ (i - 1) * c \in Nat /\ i * c \in Nat
           /\ i * c = (i - 1) * c + c
<1>1. (i - 1) * c \in Nat /\ i * c \in Nat /\ i * c = (i - 1) * c + c
  OBVIOUS
<1> QED
  BY <1>1

\* A function on 1..k is a sequence of length k.
LEMMA LenOfFunction ==
    ASSUME NEW k \in Nat, NEW X, NEW s \in [1..k -> X]
    PROVE  s \in Seq(X) /\ Len(s) = k
OBVIOUS

\* g holds the concatenations of the first sequences of ss.
Concatenations(g, ss, n) ==
    /\ g[1] = ss[1]
    /\ \A i \in 1..n : i # 1 => g[i] = g[i - 1] \o ss[i]

\* The concatenation of sequences is what its recursion says.
LEMMA FlattenEquations ==
    ASSUME NEW n \in Nat \ {0}, NEW ss, Len(ss) = n
    PROVE  \E g : FlattenSeq(ss) = g[n] /\ Concatenations(g, ss, n)
<1> DEFINE Sol(g, m) == g = [i \in 1..m |-> IF i = 1 THEN ss[i]
                                           ELSE g[i - 1] \o ss[i]]
           T == {m \in Nat : \E g : Sol(g, m)}
<1>1. 0 \in T
  <2> DEFINE g == [i \in 1..0 |-> ss[i]]
  <2>1. Sol(g, 0)
    OBVIOUS
  <2> HIDE DEF g
  <2> QED
    BY <2>1
<1>2. ASSUME NEW m \in 0..n, m < n, m \in T
      PROVE  m + 1 \in T
  <2>1. PICK g : Sol(g, m)
    BY <1>2
  <2> DEFINE h == [i \in 1..(m + 1) |->
                     IF i # m + 1 THEN g[i]
                     ELSE IF i = 1 THEN ss[i] ELSE g[m] \o ss[i]]
  <2>2. ASSUME NEW i \in 1..(m + 1)
        PROVE  h[i] = IF i = 1 THEN ss[i] ELSE h[i - 1] \o ss[i]
    <3>1. CASE i = m + 1
      <4>1. i # 1 => h[i - 1] = g[m]
        BY <3>1
      <4> QED
        BY <3>1, <4>1
    <3>2. CASE i \in 1..m
      <4>1. g[i] = IF i = 1 THEN ss[i] ELSE g[i - 1] \o ss[i]
        BY <2>1, <3>2
      <4>2. h[i] = g[i] /\ (i # 1 => h[i - 1] = g[i - 1])
        BY <3>2
      <4> QED
        BY <4>1, <4>2
    <3> QED
      BY <3>1, <3>2
  <2>3. Sol(h, m + 1)
    <3>1. h = [i \in 1..(m + 1) |-> h[i]]
      OBVIOUS
    <3> HIDE DEF h
    <3> QED
      BY <2>2, <3>1
  <2>4. m + 1 \in Nat
    OBVIOUS
  <2> HIDE DEF h, Sol
  <2> QED
    BY <2>3, <2>4
<1>3. n \in T
  <2> HIDE DEF T
  <2> QED
    BY <1>1, <1>2, UpTo
<1> DEFINE f == CHOOSE g : Sol(g, n)
<1>4. FlattenSeq(ss) = f[n]
  BY DEF FlattenSeq
<1>5. Sol(f, n)
  BY <1>3
<1> HIDE DEF f
<1>6. Concatenations(f, ss, n)
  <2>1. \A i \in 1..n : f[i] = IF i = 1 THEN ss[i] ELSE f[i - 1] \o ss[i]
    BY <1>5, Zenon
  <2>2. 1 \in 1..n
    OBVIOUS
  <2> QED
    BY <2>1, <2>2, Zenon DEF Concatenations
<1> QED
  BY <1>4, <1>6

\* f is the concatenation of the n sequences of ss, each of length c.
Joined(f, ss, n, c, X) ==
    /\ f \in [1..(n * c) -> X]
    /\ \A i \in 1..n : \A j \in 1..c : f[(i - 1) * c + j] = ss[i][j]

\* The concatenation of n sequences of length c.
LEMMA FlattenEqualLengths ==
    ASSUME NEW n \in Nat, NEW c \in Nat, NEW X, NEW ss \in [1..n -> [1..c -> X]]
    PROVE  Joined(FlattenSeq(ss), ss, n, c, X)
<1> USE DEF Joined
<1>1. Len(ss) = n
  BY LenOfFunction
<1>2. CASE n = 0
  <2>1. FlattenSeq(ss) = ss
    BY <1>1, <1>2 DEF FlattenSeq
  <2>2. n * c = 0
    BY <1>2
  <2> QED
    BY <1>2, <2>1, <2>2
<1>3. CASE n # 0
  <2>1. PICK g : FlattenSeq(ss) = g[n] /\ Concatenations(g, ss, n)
    <3>1. n \in Nat \ {0}
      BY <1>3
    <3> QED
      BY <1>1, <3>1, FlattenEquations
  <2> DEFINE Upto(m) == /\ g[m] \in [1..(m * c) -> X]
                        /\ \A i \in 1..m : \A j \in 1..c :
                              g[m][(i - 1) * c + j] = ss[i][j]
             T == {m \in 0..n : m = 0 \/ Upto(m)}
  <2>2. 0 \in T
    OBVIOUS
  <2>3. ASSUME NEW m \in 0..n, m < n, m \in T
        PROVE  m + 1 \in T
    <3>1. CASE m = 0
      <4>1. g[1] \in [1..(1 * c) -> X] /\ \A j \in 1..c : (1 - 1) * c + j = j
        BY <1>3, <2>1 DEF Concatenations
      <4>2. Upto(1)
        BY <2>1, <4>1 DEF Concatenations
      <4>3. m + 1 = 1 /\ 1 \in 0..n
        BY <1>3, <3>1
      <4> HIDE DEF Upto
      <4> QED
        BY <4>2, <4>3
    <3>2. CASE m # 0
      <4>1. /\ m + 1 \in 1..n /\ m * c \in Nat /\ (m + 1) * c = m * c + c
            /\ g[m + 1] = g[m] \o ss[m + 1]
            /\ Upto(m)
        <5>1. m + 1 \in 1..n /\ m * c \in Nat /\ (m + 1) * c = m * c + c
              /\ m + 1 # 1 /\ (m + 1) - 1 = m
          BY <2>3, <3>2
        <5>2. Upto(m)
          BY <2>3, <3>2
        <5>3. g[m + 1] = g[(m + 1) - 1] \o ss[m + 1]
          BY <2>1, <5>1, Zenon DEF Concatenations
        <5> QED
          BY <5>1, <5>2, <5>3
      <4>2. /\ g[m] \in Seq(X) /\ Len(g[m]) = m * c
            /\ ss[m + 1] \in Seq(X) /\ Len(ss[m + 1]) = c
        BY <4>1, LenOfFunction
      <4>3. /\ g[m + 1] \in Seq(X) /\ Len(g[m + 1]) = (m + 1) * c
            /\ \A k \in 1..(m * c + c) :
                  g[m + 1][k] = IF k <= m * c THEN g[m][k]
                                ELSE ss[m + 1][k - m * c]
        <5> DEFINE p == g[m]
                   q == ss[m + 1]
                   l == m * c
        <5>1. /\ p \in Seq(X) /\ Len(p) = l /\ l \in Nat
              /\ q \in Seq(X) /\ Len(q) = c
              /\ g[m + 1] = p \o q /\ (m + 1) * c = l + c
          BY <4>1, <4>2
        <5> HIDE DEF p, q, l
        <5>2. /\ p \o q \in Seq(X) /\ Len(p \o q) = l + c
              /\ \A k \in 1..(l + c) :
                    (p \o q)[k] = IF k <= l THEN p[k] ELSE q[k - l]
          BY <5>1, ConcatProperties
        <5>3. /\ g[m + 1] \in Seq(X) /\ Len(g[m + 1]) = (m + 1) * c
              /\ \A k \in 1..(l + c) :
                    g[m + 1][k] = IF k <= l THEN p[k] ELSE q[k - l]
          BY <5>1, <5>2
        <5> QED
          BY <5>3 DEF p, q, l
      <4>4. g[m + 1] \in [1..((m + 1) * c) -> X]
        BY <4>3, LenProperties
      <4>5. ASSUME NEW i \in 1..(m + 1), NEW j \in 1..c
            PROVE  g[m + 1][(i - 1) * c + j] = ss[i][j]
        <5>1. CASE i = m + 1
          <6>1. (i - 1) * c + j \in 1..(m * c + c) /\ ~ ((i - 1) * c + j <= m * c)
                /\ ((i - 1) * c + j) - m * c = j
            BY <4>1, <5>1
          <6> QED
            BY <4>3, <5>1, <6>1
        <5>2. CASE i \in 1..m
          <6>1. (i - 1) * c + j \in 1..(i * c) /\ i * c \in Nat
            BY <5>2, PlaceInGroups
          <6>2. i * c <= m * c
            BY <5>2, TimesMonotone
          <6>3. (i - 1) * c + j \in 1..(m * c + c) /\ (i - 1) * c + j <= m * c
            <7> DEFINE p == (i - 1) * c + j
                       u == i * c
                       v == m * c
            <7>1. p \in 1..u /\ u \in Nat /\ u <= v /\ v \in Nat
              BY <4>1, <6>1, <6>2
            <7> HIDE DEF p, u, v
            <7>2. p \in 1..(v + c) /\ p <= v
              BY <7>1
            <7> QED
              BY <7>2 DEF p, v
          <6> QED
            BY <4>1, <4>3, <5>2, <6>3
        <5> QED
          BY <5>1, <5>2
      <4> QED
        <5>1. Upto(m + 1)
          BY <4>4, <4>5
        <5>2. m + 1 \in 0..n
          BY <4>1
        <5> HIDE DEF Upto
        <5> QED
          BY <5>1, <5>2
    <3> QED
      BY <3>1, <3>2
  <2>4. n \in T
    <3> HIDE DEF T
    <3>1. n \in 0..n
      OBVIOUS
    <3> QED
      BY <2>2, <2>3, <3>1, UpTo
  <2> QED
    BY <1>3, <2>1, <2>4
<1> QED
  BY <1>2, <1>3

\* The products of the last dimensions are what their recursion says.
LEMMA ProdsEquations ==
    ASSUME NEW r \in Nat, NEW shape \in [1..r -> Nat]
    PROVE  /\ Prods(shape)[r] = 1
           /\ \A k \in 0..r : Prods(shape)[k] \in Nat
           /\ \A k \in 0..r :
                 k < r => Prods(shape)[k] = shape[k + 1] * Prods(shape)[k + 1]
<1>1. Len(shape) = r
  BY LenOfFunction
<1> DEFINE Sol(f, m) == f = [k \in (r - m)..r |->
                               IF k = r THEN 1 ELSE shape[k + 1] * f[k + 1]]
           T == {m \in Nat : \E f : Sol(f, m)}
<1>2. 0 \in T
  <2> DEFINE f == [k \in (r - 0)..r |-> 1]
  <2>1. Sol(f, 0)
    OBVIOUS
  <2> HIDE DEF f
  <2> QED
    BY <2>1
<1>3. ASSUME NEW m \in 0..r, m < r, m \in T
      PROVE  m + 1 \in T
  <2>1. PICK g : Sol(g, m)
    BY <1>3
  <2> DEFINE h == [k \in (r - (m + 1))..r |->
                     IF k = r - (m + 1) THEN shape[k + 1] * g[k + 1] ELSE g[k]]
  <2>2. ASSUME NEW k \in (r - (m + 1))..r
        PROVE  h[k] = IF k = r THEN 1 ELSE shape[k + 1] * h[k + 1]
    <3>1. CASE k = r - (m + 1)
      <4>1. k # r /\ k + 1 \in (r - (m + 1))..r /\ k + 1 # r - (m + 1)
        BY <1>3, <3>1
      <4> QED
        BY <3>1, <4>1
    <3>2. CASE k \in (r - m)..r
      <4>1. g[k] = IF k = r THEN 1 ELSE shape[k + 1] * g[k + 1]
        BY <2>1, <3>2
      <4>2. k # r - (m + 1)
        BY <3>2
      <4>3. k # r => k + 1 \in (r - (m + 1))..r /\ k + 1 # r - (m + 1)
        BY <3>2
      <4> QED
        BY <4>1, <4>2, <4>3
    <3> QED
      BY <3>1, <3>2
  <2>3. Sol(h, m + 1)
    <3>1. h = [k \in (r - (m + 1))..r |-> h[k]]
      OBVIOUS
    <3> HIDE DEF h
    <3> QED
      BY <2>2, <3>1
  <2>4. m + 1 \in Nat
    OBVIOUS
  <2> HIDE DEF h, Sol
  <2> QED
    BY <2>3, <2>4
<1>4. r \in T
  <2> HIDE DEF T
  <2>1. r \in 0..r
    OBVIOUS
  <2> QED
    BY <1>2, <1>3, <2>1, UpTo
<1>5. Prods(shape) = CHOOSE f : Sol(f, r)
  BY <1>1 DEF Prods
<1>6. Sol(Prods(shape), r)
  BY <1>4, <1>5
<1>7. \A k \in 0..r : Prods(shape)[k] =
                        IF k = r THEN 1 ELSE shape[k + 1] * Prods(shape)[k + 1]
  BY <1>6
<1>8. \A k \in 0..r : k \in {n \in 0..r : Prods(shape)[n] \in Nat}
  <2> DEFINE N == {n \in 0..r : Prods(shape)[n] \in Nat}
  <2>1. r \in N
    BY <1>7
  <2>2. ASSUME NEW n \in 0..r, n < r, n + 1 \in N
        PROVE  n \in N
    BY <1>7, <2>2
  <2> HIDE DEF N
  <2>3. \A k \in 0..r : k \in N
    BY <2>1, <2>2, DownTo
  <2> QED
    BY <2>3 DEF N
<1> QED
  BY <1>7, <1>8

\* What _reshape makes of the slice s from dimension k on, given what it
\* makes of slices from the next dimension on.
Reshaped(flat, shape, k, s, next) ==
    IF k = Len(shape) THEN List(SubSeq(flat, s[1] + 1, s[2]))
    ELSE List([i \in 1..shape[k] |->
                 IF Prods(shape)[k] = 0 THEN List(<<>>)
                 ELSE next[<<s[1] + (i - 1) * Prods(shape)[k],
                             s[1] + i * Prods(shape)[k]>>]])

Slices(flat) == (0..Len(flat)) \X (0..Len(flat))

\* part holds what _reshape makes of every slice, from every dimension on.
Parts(part, flat, shape) ==
    \A k \in 1..Len(shape) : \A s \in Slices(flat) :
        part[k][s] = Reshaped(flat, shape, k, s, part[k + 1])

\* The recursion of _reshape has a solution.
LEMMA ReshapeEquations ==
    ASSUME NEW flat, NEW shape, Len(shape) \in Nat \ {0}
    PROVE  \E part :
              /\ Reshape(flat, shape) = part[1][<<0, Len(flat)>>]
              /\ Parts(part, flat, shape)
<1> DEFINE r == Len(shape)
           Body(k, next) == [s \in Slices(flat) |-> Reshaped(flat, shape, k, s, next)]
           Sol(f, m) == f = [k \in (r - m)..r |-> Body(k, f[k + 1])]
           T == {m \in Nat : \E f : Sol(f, m)}
<1>1. \A next, other : Body(r, next) = Body(r, other)
  BY DEF Reshaped
<1> HIDE DEF Body
<1>2. 0 \in T
  <2> DEFINE f == [k \in (r - 0)..r |-> Body(r, <<>>)]
  <2>1. Sol(f, 0)
    BY <1>1
  <2> HIDE DEF f
  <2> QED
    BY <2>1
<1>3. ASSUME NEW m \in 0..(r - 1), m < r - 1, m \in T
      PROVE  m + 1 \in T
  <2>1. PICK g : Sol(g, m)
    BY <1>3
  <2> DEFINE h == [k \in (r - (m + 1))..r |->
                     IF k = r - (m + 1) THEN Body(k, g[k + 1]) ELSE g[k]]
  <2>2. ASSUME NEW k \in (r - (m + 1))..r
        PROVE  h[k] = Body(k, h[k + 1])
    <3>1. CASE k = r - (m + 1)
      <4>1. k + 1 \in (r - (m + 1))..r /\ k + 1 # r - (m + 1)
        BY <1>3, <3>1
      <4> QED
        BY <3>1, <4>1
    <3>2. CASE k \in (r - m)..r
      <4>1. g[k] = Body(k, g[k + 1])
        BY <2>1, <3>2
      <4>2. h[k] = g[k]
        BY <3>2
      <4>3. k # r => h[k + 1] = g[k + 1]
        BY <3>2
      <4> QED
        BY <1>1, <4>1, <4>2, <4>3
    <3> QED
      BY <3>1, <3>2
  <2>3. Sol(h, m + 1)
    <3>1. h = [k \in (r - (m + 1))..r |-> h[k]]
      OBVIOUS
    <3> HIDE DEF h
    <3> QED
      BY <2>2, <3>1
  <2>4. m + 1 \in Nat
    OBVIOUS
  <2> HIDE DEF h, Sol
  <2> QED
    BY <2>3, <2>4
<1>4. r - 1 \in T
  <2> HIDE DEF T
  <2>1. r - 1 \in Nat /\ r - 1 \in 0..(r - 1)
    OBVIOUS
  <2> QED
    BY <1>2, <1>3, <2>1, UpTo
<1> DEFINE part == CHOOSE f : Sol(f, r - 1)
<1>5. Sol(part, r - 1)
  BY <1>4
<1>6. Reshape(flat, shape) = part[1][<<0, Len(flat)>>]
  <2>1. r - (r - 1) = 1
    OBVIOUS
  <2> QED
    BY <2>1 DEF Reshape, Body, Reshaped, Slices
<1> HIDE DEF part
<1>7. \A k \in 1..r : part[k] = Body(k, part[k + 1])
  BY <1>5
<1>8. \A k \in 1..r : \A s \in Slices(flat) :
         part[k][s] = Reshaped(flat, shape, k, s, part[k + 1])
  BY <1>7 DEF Body
<1> QED
  BY <1>6, <1>8 DEF Parts

-----------------------------------------------------------------------------
(* Levels. *)

\* Place p is one of the n groups of c places.
InGroup(p, n, c) == \E i \in 1..n : \E j \in 1..c : p = (i - 1) * c + j

\* The numbers 1 to n * c fall into n groups of c.
LEMMA GroupOfPlace ==
    ASSUME NEW n \in Nat, NEW c \in Nat, NEW m, m = n * c, NEW p \in 1..m
    PROVE  InGroup(p, n, c)
<1> USE DEF InGroup
<1> DEFINE Grouped(l) == \A k \in 1..(l * c) :
                            \E i \in 1..l : \E j \in 1..c : k = (i - 1) * c + j
           T == {l \in 0..n : Grouped(l)}
<1>1. 0 \in T
  <2>1. 0 * c = 0 /\ 1..0 = {}
    OBVIOUS
  <2>2. Grouped(0)
    BY <2>1
  <2> HIDE DEF Grouped
  <2> QED
    BY <2>2
<1>2. ASSUME NEW l \in 0..n, l < n, l \in T
      PROVE  l + 1 \in T
  <2>1. l * c \in Nat /\ (l + 1) * c = l * c + c
    OBVIOUS
  <2>2. ASSUME NEW k \in 1..((l + 1) * c)
        PROVE  \E i \in 1..(l + 1) : \E j \in 1..c : k = (i - 1) * c + j
    <3>1. CASE k <= l * c
      <4>1. k \in 1..(l * c)
        BY <2>1, <3>1
      <4>2. PICK i \in 1..l : \E j \in 1..c : k = (i - 1) * c + j
        BY <1>2, <4>1
      <4>3. i \in 1..(l + 1)
        OBVIOUS
      <4> QED
        BY <4>2, <4>3
    <3>2. CASE ~ (k <= l * c)
      <4>1. k - l * c \in 1..c /\ k = l * c + (k - l * c)
        BY <2>1, <3>2
      <4>2. (l + 1) - 1 = l /\ l + 1 \in 1..(l + 1)
        OBVIOUS
      <4>3. \E j \in 1..c : k = ((l + 1) - 1) * c + j
        BY <4>1, <4>2
      <4> QED
        BY <4>2, <4>3
    <3> QED
      BY <3>1, <3>2
  <2>3. Grouped(l + 1) /\ l + 1 \in 0..n
    BY <1>2, <2>2
  <2> HIDE DEF Grouped
  <2> QED
    BY <2>3
<1>3. n \in T
  <2> HIDE DEF T
  <2>1. n \in 0..n
    OBVIOUS
  <2> QED
    BY <1>1, <1>2, <2>1, UpTo
<1> QED
  BY <1>3

\* lower holds the items of the lists in upper, c of each, in order.
ItemsOf(lower, upper, c) ==
    /\ IsSeq(lower)
    /\ Len(lower) = Len(upper) * c
    /\ \A i \in 1..Len(upper) : \A j \in 1..c :
          lower[(i - 1) * c + j] = Items(upper[i])[j]

\* A level of lists, all of one length, is followed by their items.
LEMMA UnwrapLists ==
    ASSUME NEW n \in Nat, NEW c \in Nat, NEW nodes, IsSeq(nodes), Len(nodes) = n,
           \A i \in 1..n : /\ IsList(nodes[i])
                           /\ IsSeq(Items(nodes[i])) /\ Len(Items(nodes[i])) = c
    PROVE  ItemsOf(Unwrap(nodes), nodes, c)
<1> DEFINE X == {Items(nodes[i])[j] : i \in 1..n, j \in 1..c}
           ss == [i \in 1..n |-> Items(nodes[i])]
<1>1. ss \in [1..n -> [1..c -> X]]
  BY DEF IsSeq
<1>2. Unwrap(nodes) = FlattenSeq(ss)
  <2>1. DOMAIN nodes = 1..n
    BY DEF IsSeq
  <2>2. [i \in DOMAIN nodes |-> IF IsList(nodes[i]) THEN Items(nodes[i])
                                ELSE <<nodes[i]>>] = ss
    BY <2>1
  <2> QED
    BY <2>2 DEF Unwrap
<1>3. /\ FlattenSeq(ss) \in [1..(n * c) -> X]
      /\ \A i \in 1..n : \A j \in 1..c : FlattenSeq(ss)[(i - 1) * c + j] = ss[i][j]
  <2> HIDE DEF X, ss
  <2>1. Joined(FlattenSeq(ss), ss, n, c, X)
    BY <1>1, FlattenEqualLengths
  <2> QED
    BY <2>1 DEF Joined
<1>4. n * c \in Nat
  OBVIOUS
<1>5. Len(FlattenSeq(ss)) = n * c
  <2> HIDE DEF X, ss
  <2> QED
    BY <1>3, <1>4, LenOfFunction
<1>6. IsSeq(FlattenSeq(ss))
  <2> HIDE DEF X, ss
  <2> QED
    BY <1>3, <1>4, <1>5 DEF IsSeq
<1> QED
  BY <1>2, <1>3, <1>5, <1>6 DEF ItemsOf

\* A level of numbers stays.
LEMMA UnwrapNumbers ==
    ASSUME NEW nodes, IsSeq(nodes), \A i \in 1..Len(nodes) : ~IsList(nodes[i])
    PROVE  Unwrap(nodes) = nodes
<1> DEFINE n == Len(nodes)
           X == {nodes[i] : i \in 1..n}
           ss == [i \in 1..n |-> <<nodes[i]>>]
<1>1. n \in Nat /\ DOMAIN nodes = 1..n
  BY DEF IsSeq
<1>2. ss \in [1..n -> [1..1 -> X]]
  OBVIOUS
<1>3. Unwrap(nodes) = FlattenSeq(ss)
  <2>1. [i \in DOMAIN nodes |-> IF IsList(nodes[i]) THEN Items(nodes[i])
                                ELSE <<nodes[i]>>] = ss
    BY <1>1
  <2> QED
    BY <2>1 DEF Unwrap
<1>4. /\ FlattenSeq(ss) \in [1..n -> X]
      /\ \A i \in 1..n : FlattenSeq(ss)[i] = ss[i][1]
  <2> HIDE DEF X, ss, n
  <2>1. Joined(FlattenSeq(ss), ss, n, 1, X)
    BY <1>1, <1>2, FlattenEqualLengths
  <2>2. n * 1 = n /\ 1 \in 1..1 /\ \A i \in 1..n : (i - 1) * 1 + 1 = i
    BY <1>1
  <2> QED
    BY <2>1, <2>2 DEF Joined
<1>5. \A i \in 1..n : ss[i][1] = nodes[i]
  OBVIOUS
<1>6. \A i \in 1..n : FlattenSeq(ss)[i] = nodes[i]
  BY <1>4, <1>5
<1> HIDE DEF X, ss
<1> QED
  BY <1>1, <1>3, <1>4, <1>5, <1>6 DEF IsSeq

\* The lists of the levels above the r-th are lists with their items.
ProperAbove(d, r) ==
    \A k \in 0..(r - 1) : \A i \in DOMAIN Level(d)[k] : IsNode(Level(d)[k][i])

\* The nodes are lists of c items.
ListsOf(nodes, c) ==
    \A i \in 1..Len(nodes) :
       /\ nodes[i] = List(Items(nodes[i]))
       /\ IsSeq(Items(nodes[i])) /\ Len(Items(nodes[i])) = c

\* Below a level of a full array come the items of its lists.
LEMMA NextLevel ==
    ASSUME NEW r \in 0..MaxDepth, NEW shape \in [1..r -> Nat], NEW d,
           Rectangular(d, shape), ProperAbove(d, r),
           NEW k \in 0..(r - 1), IsSeq(Level(d)[k])
    PROVE  /\ ItemsOf(Level(d)[k + 1], Level(d)[k], shape[k + 1])
           /\ ListsOf(Level(d)[k], shape[k + 1])
<1> DEFINE nodes == Level(d)[k]
<1>1. Len(shape) = r /\ MaxDepth \in Nat
  BY LenOfFunction, TensorAssumption
<1>2. /\ DOMAIN nodes = 1..Len(nodes) /\ Len(nodes) \in Nat
      /\ k + 1 \in 1..r /\ (k + 1) - 1 = k /\ shape[k + 1] \in Nat
      /\ k + 1 \in 1..MaxDepth
  BY <1>1 DEF IsSeq
<1>3. \A i \in 1..Len(nodes) : IsList(nodes[i]) /\ Len(Items(nodes[i])) = shape[k + 1]
  BY <1>1, <1>2 DEF Rectangular
<1>4. \A i \in 1..Len(nodes) : IsNode(nodes[i])
  BY <1>2 DEF ProperAbove
<1>5. \A i \in 1..Len(nodes) : /\ nodes[i] = List(Items(nodes[i]))
                               /\ IsSeq(Items(nodes[i]))
  <2> SUFFICES ASSUME NEW i \in 1..Len(nodes)
               PROVE  nodes[i] = List(Items(nodes[i])) /\ IsSeq(Items(nodes[i]))
    OBVIOUS
  <2> DEFINE node == nodes[i]
  <2>1. IsNode(node) /\ IsList(node)
    BY <1>3, <1>4
  <2> HIDE DEF node
  <2>2. node = List(Items(node)) /\ IsSeq(Items(node))
    BY <2>1 DEF IsNode, IsList, List, Items
  <2> QED
    BY <2>2 DEF node
<1>6. Level(d)[k + 1] = Unwrap(nodes)
  BY <1>2, LevelEquations
<1>7. ItemsOf(Unwrap(nodes), nodes, shape[k + 1])
  <2>1. IsSeq(nodes)
    OBVIOUS
  <2> HIDE DEF nodes
  <2> QED
    BY <1>2, <1>3, <1>5, <2>1, UnwrapLists
<1> QED
  BY <1>3, <1>5, <1>6, <1>7 DEF ListsOf

\* Every level of a full array is a sequence with as many nodes as leave the
\* elements of the whole array below them.
LevelSize(d, shape, k) ==
    /\ IsSeq(Level(d)[k])
    /\ Len(Level(d)[k]) * Prods(shape)[k] = Prods(shape)[0]

LEMMA LevelSizes ==
    ASSUME NEW r \in 0..MaxDepth, NEW shape \in [1..r -> Nat], NEW d,
           Rectangular(d, shape), ProperAbove(d, r)
    PROVE  \A k \in 0..r : LevelSize(d, shape, k)
<1> DEFINE T == {k \in 0..r : LevelSize(d, shape, k)}
<1>1. MaxDepth \in Nat /\ r \in Nat
  BY TensorAssumption
<1>2. /\ \A k \in 0..r : Prods(shape)[k] \in Nat
      /\ \A k \in 0..r :
            k < r => Prods(shape)[k] = shape[k + 1] * Prods(shape)[k + 1]
  BY <1>1, ProdsEquations
<1>3. 0 \in T
  <2>1. Level(d)[0] = <<d>>
    BY LevelEquations
  <2>2. 1 * Prods(shape)[0] = Prods(shape)[0]
    BY <1>1, <1>2
  <2>3. IsSeq(<<d>>) /\ Len(<<d>>) = 1
    BY DEF IsSeq
  <2>4. LevelSize(d, shape, 0)
    BY <2>1, <2>2, <2>3 DEF LevelSize
  <2> QED
    BY <1>1, <2>4
<1>4. ASSUME NEW k \in 0..r, k < r, k \in T
      PROVE  k + 1 \in T
  <2>1. k \in 0..(r - 1) /\ k + 1 \in 0..r /\ k + 1 \in 1..r
    BY <1>1, <1>4
  <2>2. LevelSize(d, shape, k)
    BY <1>4
  <2>3. ItemsOf(Level(d)[k + 1], Level(d)[k], shape[k + 1])
    BY <2>1, <2>2, NextLevel DEF LevelSize
  <2> DEFINE n == Len(Level(d)[k])
             c == shape[k + 1]
             p == Prods(shape)[k + 1]
  <2>4. n \in Nat /\ c \in Nat /\ p \in Nat /\ Prods(shape)[k] = c * p
    BY <1>2, <1>4, <2>1, <2>2 DEF LevelSize, IsSeq
  <2>5. (n * c) * p = n * (c * p)
    <3> HIDE DEF n, c, p
    <3> QED
      BY <2>4
  <2>6. LevelSize(d, shape, k + 1)
    BY <2>2, <2>3, <2>4, <2>5 DEF LevelSize, ItemsOf
  <2> QED
    BY <2>1, <2>6
<1>5. \A k \in 0..r : k \in T
  <2> HIDE DEF T
  <2> QED
    BY <1>1, <1>3, <1>4, UpTo
<1> QED
  BY <1>5

\* Once a level holds numbers only, all levels below are the same.
LEMMA NumbersStay ==
    ASSUME NEW r \in 0..MaxDepth, NEW d, IsSeq(Level(d)[r]),
           \A i \in 1..Len(Level(d)[r]) : ~IsList(Level(d)[r][i])
    PROVE  Level(d)[MaxDepth] = Level(d)[r]
<1> DEFINE T == {m \in 0..(MaxDepth - r) : Level(d)[r + m] = Level(d)[r]}
<1>1. MaxDepth \in Nat /\ r \in Nat /\ MaxDepth - r \in Nat
  BY TensorAssumption
<1>2. 0 \in T
  BY <1>1
<1>3. ASSUME NEW m \in 0..(MaxDepth - r), m < MaxDepth - r, m \in T
      PROVE  m + 1 \in T
  <2>1. r + (m + 1) \in 1..MaxDepth /\ (r + (m + 1)) - 1 = r + m
        /\ m + 1 \in 0..(MaxDepth - r)
    BY <1>1, <1>3
  <2>2. Level(d)[r + (m + 1)] = Unwrap(Level(d)[r + m])
    BY <2>1, LevelEquations
  <2>3. Level(d)[r + m] = Level(d)[r]
    BY <1>3
  <2>4. Unwrap(Level(d)[r]) = Level(d)[r]
    BY UnwrapNumbers
  <2> QED
    BY <2>1, <2>2, <2>3, <2>4
<1>4. MaxDepth - r \in T
  <2> HIDE DEF T
  <2>1. MaxDepth - r \in 0..(MaxDepth - r)
    BY <1>1
  <2> QED
    BY <1>1, <1>2, <1>3, <2>1, UpTo
<1>5. r + (MaxDepth - r) = MaxDepth
  BY <1>1
<1> QED
  BY <1>4, <1>5

\* The last level of a full array is what _flatten returns: as many numbers
\* as the shape says.
LEMMA FlatArray ==
    ASSUME NEW r \in 0..MaxDepth, NEW shape \in [1..r -> Nat], NEW d,
           Rectangular(d, shape), ProperAbove(d, r)
    PROVE  /\ Flatten(d) = Level(d)[r]
           /\ IsSeq(Flatten(d))
           /\ Len(Flatten(d)) = Prod(shape)
           /\ \A i \in 1..Len(Flatten(d)) : /\ ~IsList(Flatten(d)[i])
                                            /\ Flatten(d)[i][2] \in Numbers
<1>1. MaxDepth \in Nat /\ r \in Nat /\ Len(shape) = r
  BY TensorAssumption, LenOfFunction
<1>2. LevelSize(d, shape, r) /\ Prods(shape)[r] = 1
  BY <1>1, LevelSizes, ProdsEquations
<1>3. IsSeq(Level(d)[r]) /\ DOMAIN Level(d)[r] = 1..Len(Level(d)[r])
  BY <1>2 DEF LevelSize, IsSeq
<1>4. Len(Level(d)[r]) = Prods(shape)[0]
  <2> DEFINE n == Len(Level(d)[r])
  <2>1. n \in Nat /\ n * 1 = Prods(shape)[0]
    BY <1>2 DEF LevelSize, IsSeq
  <2> HIDE DEF n
  <2>2. n = Prods(shape)[0]
    BY <2>1
  <2> QED
    BY <2>2 DEF n
<1>5. \A i \in 1..Len(Level(d)[r]) : /\ ~IsList(Level(d)[r][i])
                                     /\ Level(d)[r][i][2] \in Numbers
  BY <1>1, <1>3 DEF Rectangular
<1>6. Level(d)[MaxDepth] = Level(d)[r]
  BY <1>3, <1>5, NumbersStay
<1> QED
  BY <1>3, <1>4, <1>5, <1>6 DEF Flatten, Prod

-----------------------------------------------------------------------------
(* The way back. *)

LEMMA TimesCancels ==
    ASSUME NEW a \in Nat, NEW b \in Nat, NEW c \in Nat, c > 0, a * c = b * c
    PROVE  a = b
<1>1. ASSUME NEW x \in Nat, NEW y \in Nat, x < y
      PROVE  x * c < y * c
  <2>1. PICK e \in Nat : y = x + e /\ e > 0
    <3>1. y - x \in Nat /\ y = x + (y - x) /\ y - x > 0
      BY <1>1
    <3> QED
      BY <3>1
  <2>2. e * c > 0 /\ x * c \in Nat /\ (x + e) * c = x * c + e * c
    BY <2>1
  <2> QED
    BY <2>1, <2>2
<1>2. a * c \in Nat /\ b * c \in Nat
  OBVIOUS
<1> QED
  BY <1>1, <1>2

\* In an array with elements no dimension is zero.
LEMMA ProdsPositive ==
    ASSUME NEW r \in Nat, NEW shape \in [1..r -> Nat], Prods(shape)[0] > 0
    PROVE  \A k \in 0..r : Prods(shape)[k] \in Nat /\ Prods(shape)[k] > 0
<1> DEFINE T == {k \in 0..r : Prods(shape)[k] > 0}
<1>1. /\ \A k \in 0..r : Prods(shape)[k] \in Nat
      /\ \A k \in 0..r :
            k < r => Prods(shape)[k] = shape[k + 1] * Prods(shape)[k + 1]
  BY ProdsEquations
<1>2. 0 \in T
  OBVIOUS
<1>3. ASSUME NEW k \in 0..r, k < r, k \in T
      PROVE  k + 1 \in T
  <2> DEFINE c == shape[k + 1]
             p == Prods(shape)[k + 1]
  <2>1. k + 1 \in 0..r /\ c \in Nat /\ p \in Nat /\ c * p > 0
    BY <1>1, <1>3
  <2>2. p # 0
    BY <2>1
  <2> QED
    BY <2>1, <2>2
<1>4. \A k \in 0..r : k \in T
  <2> HIDE DEF T
  <2> QED
    BY <1>2, <1>3, UpTo
<1> QED
  BY <1>1, <1>4

\* Two arrays with elements, of one shape and with the same numbers in the
\* same order, are the same: level by level, from the numbers up.
LEMMA ArraysEqual ==
    ASSUME NEW r \in 0..MaxDepth, NEW shape \in [1..r -> Nat],
           Prods(shape)[0] > 0,
           NEW x, Rectangular(x, shape), ProperAbove(x, r),
           NEW y, Rectangular(y, shape), ProperAbove(y, r),
           Flatten(x) = Flatten(y)
    PROVE  x = y
<1> DEFINE T == {k \in 0..r : Level(x)[k] = Level(y)[k]}
<1>1. MaxDepth \in Nat /\ r \in Nat
  BY TensorAssumption
<1>2. r \in T
  BY <1>1, FlatArray
<1>3. ASSUME NEW k \in 0..r, k < r, k + 1 \in T
      PROVE  k \in T
  <2> DEFINE u == Level(x)[k]
             v == Level(y)[k]
             c == shape[k + 1]
             p == Prods(shape)[k]
  <2>1. k \in 0..(r - 1) /\ c \in Nat /\ p \in Nat /\ p > 0
    BY <1>1, <1>3, ProdsPositive
  <2>2. LevelSize(x, shape, k) /\ LevelSize(y, shape, k)
    BY LevelSizes
  <2>3. /\ IsSeq(u) /\ IsSeq(v)
        /\ Len(u) * p = Prods(shape)[0] /\ Len(v) * p = Prods(shape)[0]
    BY <2>2 DEF LevelSize
  <2>4. k \in 0..(r - 1) /\ IsSeq(Level(x)[k]) /\ IsSeq(Level(y)[k])
    BY <2>1, <2>3
  <2>5. Len(u) = Len(v) /\ Len(u) \in Nat
    <3>1. Len(u) \in Nat /\ Len(v) \in Nat
      BY <2>3 DEF IsSeq
    <3> HIDE DEF u, v, p
    <3> QED
      BY <2>1, <2>3, <3>1, TimesCancels
  <2>6. /\ ItemsOf(Level(x)[k + 1], u, c)
        /\ ListsOf(u, c)
    BY <2>4, NextLevel
  <2>7. /\ ItemsOf(Level(y)[k + 1], v, c)
        /\ ListsOf(v, c)
    BY <2>4, NextLevel
  <2>8. ASSUME NEW i \in 1..Len(u)
        PROVE  u[i] = v[i]
    <3>1. Level(x)[k + 1] = Level(y)[k + 1]
      BY <1>3
    <3>2. \A j \in 1..c : Items(u[i])[j] = Items(v[i])[j]
      BY <2>5, <2>6, <2>7, <3>1 DEF ItemsOf
    <3> DEFINE s == Items(u[i])
               t == Items(v[i])
    <3>3. /\ IsSeq(s) /\ IsSeq(t) /\ Len(s) = c /\ Len(t) = c
          /\ u[i] = List(s) /\ v[i] = List(t)
      BY <2>5, <2>6, <2>7 DEF ListsOf
    <3> HIDE DEF s, t, u, v, c
    <3>4. \A j \in 1..c : s[j] = t[j]
      BY <3>2 DEF s, t
    <3>5. s = t
      BY <3>3, <3>4 DEF IsSeq
    <3> QED
      BY <3>3, <3>5
  <2>9. u = v
    <3> HIDE DEF u, v
    <3> QED
      BY <2>3, <2>5, <2>8 DEF IsSeq
  <2> QED
    BY <2>9
<1>4. \A k \in 0..r : k \in T
  <2> HIDE DEF T
  <2> QED
    BY <1>1, <1>2, <1>3, DownTo
<1>5. Level(x)[0] = Level(y)[0]
  <2>1. 0 \in 0..r
    BY <1>1
  <2> QED
    BY <1>4, <2>1
<1>6. <<x>> = <<y>>
  BY <1>5, LevelEquations
<1> QED
  BY <1>6

\* The j-th chunk of p numbers in the i-th chunk of c * p numbers.
LEMMA ChunkOfChunk ==
    ASSUME NEW c \in Nat, NEW p \in Nat, NEW i \in Nat \ {0}, NEW j \in Nat \ {0}
    PROVE  /\ (i - 1) * (c * p) + (j - 1) * p = (((i - 1) * c + j) - 1) * p
           /\ (i - 1) * (c * p) + j * p = ((i - 1) * c + j) * p
<1> DEFINE a == i - 1
           b == j - 1
<1>1. a \in Nat /\ b \in Nat /\ j = b + 1
  OBVIOUS
<1>2. a * (c * p) = (a * c) * p /\ a * c \in Nat
  <2> HIDE DEF a
  <2> QED
    BY <1>1
<1>3. ((a * c + j) - 1) = a * c + b /\ a * c + j = a * c + (b + 1)
  <2> HIDE DEF a
  <2> QED
    BY <1>1, <1>2
<1> DEFINE q == a * c
<1>4. (q + b) * p = q * p + b * p /\ (q + (b + 1)) * p = q * p + (b + 1) * p
  <2> HIDE DEF q, b
  <2> QED
    BY <1>1, <1>2 DEF q
<1> HIDE DEF a, b
<1>5. /\ a * (c * p) + b * p = ((a * c + j) - 1) * p
      /\ a * (c * p) + j * p = (a * c + j) * p
  BY <1>1, <1>2, <1>3, <1>4
<1> QED
  BY <1>5 DEF a, b

\* The nodes of level k are the chunks of the flat list, in order.
Chunked(b, part, shape, k) ==
    /\ LevelSize(b, shape, k)
    /\ \A i \in 1..Len(Level(b)[k]) :
          Level(b)[k][i] =
             part[k + 1][<<(i - 1) * Prods(shape)[k], i * Prods(shape)[k]>>]

\* The i-th chunk of p out of n lies in the flat list.
ChunkWithin(flat, i, p) ==
    /\ <<(i - 1) * p, i * p>> \in Slices(flat)
    /\ (i - 1) * p \in Nat /\ i * p = (i - 1) * p + p
    /\ i * p \in Nat /\ i * p <= Len(flat)

LEMMA ChunkIsSlice ==
    ASSUME NEW flat, NEW n \in Nat, NEW p \in Nat, NEW l, l = n * p,
           l = Len(flat), NEW i \in 1..n
    PROVE  ChunkWithin(flat, i, p)
<1>1. (i - 1) * p \in Nat /\ i * p \in Nat /\ i * p = (i - 1) * p + p
      /\ n * p \in Nat
  OBVIOUS
<1>2. i * p <= n * p
  BY TimesMonotone
<1> DEFINE u == (i - 1) * p
           v == i * p
           w == n * p
<1>3. u \in Nat /\ v \in Nat /\ v = u + p /\ w \in Nat /\ v <= w /\ w = Len(flat)
  BY <1>1, <1>2
<1> HIDE DEF u, v, w
<1>4. <<u, v>> \in Slices(flat) /\ v <= Len(flat)
  BY <1>3 DEF Slices
<1> QED
  BY <1>3, <1>4 DEF u, v, ChunkWithin

\* What _reshape returns, level by level: chunks above the last dimension.
LEMMA ReshapedLevels ==
    ASSUME NEW r \in 1..MaxDepth, NEW shape \in [1..r -> Nat],
           Prods(shape)[0] > 0,
           NEW flat, Len(flat) = Prods(shape)[0],
           NEW b, NEW part, b = part[1][<<0, Len(flat)>>],
           Parts(part, flat, shape)
    PROVE  \A k \in 0..(r - 1) : Chunked(b, part, shape, k)
<1> DEFINE T == {k \in 0..(r - 1) : Chunked(b, part, shape, k)}
           P(k) == Prods(shape)[k]
<1>1. MaxDepth \in Nat /\ r \in Nat /\ r - 1 \in Nat /\ Len(shape) = r
  BY TensorAssumption, LenOfFunction
<1>2. /\ \A k \in 0..r : P(k) \in Nat /\ P(k) > 0
      /\ \A k \in 0..r : k < r => P(k) = shape[k + 1] * P(k + 1)
  BY <1>1, ProdsEquations, ProdsPositive
<1>3. 0 \in T
  <2>1. Level(b)[0] = <<b>>
    BY LevelEquations
  <2>2. P(0) \in Nat /\ 1 * P(0) = P(0) /\ (1 - 1) * P(0) = 0
    BY <1>1, <1>2
  <2>3. IsSeq(<<b>>) /\ Len(<<b>>) = 1
    BY DEF IsSeq
  <2>4. LevelSize(b, shape, 0)
    BY <2>1, <2>2, <2>3 DEF LevelSize
  <2>5. ASSUME NEW i \in 1..Len(Level(b)[0])
        PROVE  Level(b)[0][i] = part[0 + 1][<<(i - 1) * P(0), i * P(0)>>]
    <3>1. i = 1
      BY <2>1, <2>3
    <3>2. part[0 + 1][<<(1 - 1) * P(0), 1 * P(0)>>] = b
      <4>1. /\ (1 - 1) * P(0) = 0 /\ 1 * P(0) = Len(flat)
            /\ 0 + 1 = 1
        BY <2>2
      <4> HIDE DEF P
      <4> QED
        BY <4>1
    <3> QED
      BY <2>1, <3>1, <3>2
  <2>6. Chunked(b, part, shape, 0)
    BY <2>4, <2>5 DEF Chunked
  <2> QED
    BY <1>1, <2>6
<1>4. ASSUME NEW k \in 0..(r - 1), k < r - 1, k \in T
      PROVE  k + 1 \in T
  <2> DEFINE c == shape[k + 1]
             p == P(k + 1)
             nodes == Level(b)[k]
             n == Len(nodes)
  <2>1. /\ k \in 0..r /\ k + 1 \in 1..r /\ k + 1 # r /\ k + 1 \in 0..(r - 1)
        /\ k + 1 \in 0..r /\ k + 1 \in 1..MaxDepth /\ (k + 1) - 1 = k /\ k < r
    BY <1>1, <1>4
  <2>2. c \in Nat /\ p \in Nat /\ p > 0 /\ P(k) = c * p
    BY <1>2, <2>1
  <2>3. LevelSize(b, shape, k) /\ IsSeq(nodes) /\ n \in Nat /\ n * P(k) = Len(flat)
    BY <1>4 DEF Chunked, LevelSize, IsSeq
  <2> DEFINE Slice(i) == <<(i - 1) * P(k), i * P(k)>>
             Sub(i, j) == <<(i - 1) * P(k) + (j - 1) * p, (i - 1) * P(k) + j * p>>
             items(i) == [j \in 1..c |-> part[k + 2][Sub(i, j)]]
  <2>4. ASSUME NEW i \in 1..n
        PROVE  nodes[i] = List(items(i))
    <3>1. nodes[i] = part[k + 1][Slice(i)]
      BY <1>4 DEF Chunked
    <3>2. Slice(i) \in Slices(flat)
      <4>1. P(k) \in Nat
        BY <1>2, <2>1
      <4>2. ChunkWithin(flat, i, P(k))
        <5> HIDE DEF P, n
        <5> QED
          BY <2>3, <4>1, ChunkIsSlice
      <4> QED
        BY <4>2 DEF ChunkWithin
    <3> HIDE DEF Slice
    <3>3. part[k + 1][Slice(i)] =
            Reshaped(flat, shape, k + 1, Slice(i), part[(k + 1) + 1])
      BY <1>1, <2>1, <3>2 DEF Parts
    <3>4. (k + 1) + 1 = k + 2 /\ p # 0
      BY <2>1, <2>2
    <3>5. Reshaped(flat, shape, k + 1, Slice(i), part[k + 2]) =
            List([j \in 1..c |->
               part[k + 2][<<Slice(i)[1] + (j - 1) * p, Slice(i)[1] + j * p>>]])
      BY <1>1, <2>1, <3>4 DEF Reshaped
    <3>6. Slice(i)[1] = (i - 1) * P(k)
      BY DEF Slice
    <3> QED
      BY <3>1, <3>3, <3>4, <3>5, <3>6
  <2>5. \A i \in 1..n : /\ IsList(nodes[i]) /\ Items(nodes[i]) = items(i)
                        /\ IsSeq(Items(nodes[i])) /\ Len(Items(nodes[i])) = c
    <3> SUFFICES ASSUME NEW i \in 1..n
                 PROVE  /\ IsList(nodes[i]) /\ Items(nodes[i]) = items(i)
                        /\ IsSeq(Items(nodes[i])) /\ Len(Items(nodes[i])) = c
      OBVIOUS
    <3>1. IsSeq(items(i)) /\ Len(items(i)) = c
      <4> HIDE DEF Sub
      <4> QED
        BY <2>2 DEF IsSeq
    <3>2. nodes[i] = List(items(i))
      BY <2>4
    <3> HIDE DEF nodes, items
    <3> QED
      BY <3>1, <3>2 DEF List, IsList, Items
  <2>6. ItemsOf(Unwrap(nodes), nodes, c)
    <3> HIDE DEF nodes, c, items
    <3> QED
      BY <2>2, <2>3, <2>5, UnwrapLists DEF n
  <2>7. Level(b)[k + 1] = Unwrap(nodes)
    BY <2>1, LevelEquations
  <2> DEFINE lower == Level(b)[k + 1]
  <2>8. IsSeq(lower) /\ Len(lower) = n * c
    BY <2>6, <2>7 DEF ItemsOf
  <2>9. LevelSize(b, shape, k + 1)
    <3>1. n * (c * p) = Prods(shape)[0]
      BY <2>2, <2>3
    <3>2. (n * c) * p = n * (c * p)
      <4> HIDE DEF n, c, p
      <4> QED
        BY <2>2, <2>3
    <3> QED
      BY <2>8, <3>1, <3>2 DEF LevelSize
  <2>10. ASSUME NEW q \in 1..Len(lower)
         PROVE  lower[q] = part[(k + 1) + 1][<<(q - 1) * p, q * p>>]
    <3>1. PICK i \in 1..n : \E j \in 1..c : q = (i - 1) * c + j
      <4> HIDE DEF n, c, lower
      <4>1. InGroup(q, n, c)
        BY <2>2, <2>3, <2>8, GroupOfPlace
      <4> QED
        BY <4>1 DEF InGroup
    <3>2. PICK j \in 1..c : q = (i - 1) * c + j
      BY <3>1
    <3>3. lower[q] = items(i)[j]
      <4>1. lower[(i - 1) * c + j] = Items(nodes[i])[j]
        BY <2>6, <2>7 DEF ItemsOf
      <4> HIDE DEF lower, items
      <4> QED
        BY <2>5, <3>2, <4>1
    <3>4. items(i)[j] = part[k + 2][Sub(i, j)]
      OBVIOUS
    <3>5. Sub(i, j) = <<(q - 1) * p, q * p>>
      <4>1. /\ (i - 1) * (c * p) + (j - 1) * p = (((i - 1) * c + j) - 1) * p
            /\ (i - 1) * (c * p) + j * p = ((i - 1) * c + j) * p
        <5>1. n \in Nat /\ c \in Nat /\ p \in Nat
          BY <2>2, <2>3
        <5> HIDE DEF n, c, p
        <5>2. i \in Nat \ {0} /\ j \in Nat \ {0}
          BY <5>1
        <5> QED
          BY <5>1, <5>2, ChunkOfChunk
      <4> QED
        BY <2>2, <3>2, <4>1
    <3>6. (k + 1) + 1 = k + 2
      OBVIOUS
    <3> QED
      BY <3>3, <3>4, <3>5, <3>6
  <2>11. Chunked(b, part, shape, k + 1)
    BY <2>9, <2>10 DEF Chunked
  <2> HIDE DEF P
  <2> QED
    BY <2>1, <2>11
<1>5. \A k \in 0..(r - 1) : k \in T
  <2> HIDE DEF T
  <2> QED
    BY <1>1, <1>3, <1>4, UpTo
<1> QED
  BY <1>5

\* A slice of p places.
LEMMA SliceOf ==
    ASSUME NEW flat, NEW l \in Nat, NEW p \in Nat
    PROVE  LET slice == SubSeq(flat, l + 1, l + p) IN
           /\ IsSeq(slice) /\ Len(slice) = p
           /\ \A j \in 1..p : slice[j] = flat[l + j]
<1> DEFINE a == l + 1
           b == l + p
           S == {flat[q] : q \in a..b}
           slice == SubSeq(flat, a, b)
<1>1. a \in Int /\ b \in Int /\ b - a + 1 = p /\ (a <= b => b - a + 1 = p)
      /\ (~ (a <= b) => p = 0) /\ \A j \in 1..p : a + j - 1 = l + j
  OBVIOUS
<1>2. \A q \in a..b : flat[q] \in S
  OBVIOUS
<1> HIDE DEF a, b, S
<1>3. /\ slice \in Seq(S)
      /\ Len(slice) = IF a <= b THEN b - a + 1 ELSE 0
      /\ \A j \in 1..(b - a + 1) : slice[j] = flat[a + j - 1]
  BY <1>1, <1>2, SubSeqProperties
<1> HIDE DEF slice
<1>4. Len(slice) = p /\ \A j \in 1..p : slice[j] = flat[l + j]
  BY <1>1, <1>3
<1>5. IsSeq(slice)
  BY <1>3, <1>4, LenProperties DEF IsSeq
<1> QED
  BY <1>4, <1>5 DEF slice, a, b

\* What _reshape returns is a full array of the shape, with the numbers of
\* the flat list in their order.
LEMMA ReshapeIsArray ==
    ASSUME NEW r \in 1..MaxDepth, NEW shape \in [1..r -> Nat],
           Prods(shape)[0] > 0,
           NEW flat, IsSeq(flat), Len(flat) = Prods(shape)[0],
           \A i \in 1..Len(flat) : ~IsList(flat[i]) /\ flat[i][2] \in Numbers
    PROVE  /\ Rectangular(Reshape(flat, shape), shape)
           /\ ProperAbove(Reshape(flat, shape), r)
           /\ Flatten(Reshape(flat, shape)) = flat
<1>1. /\ MaxDepth \in Nat /\ r \in Nat /\ r - 1 \in Nat /\ Len(shape) = r
      /\ Len(shape) \in Nat \ {0}
  BY TensorAssumption, LenOfFunction
<1>2. PICK part : /\ Reshape(flat, shape) = part[1][<<0, Len(flat)>>]
                  /\ Parts(part, flat, shape)
  BY <1>1, ReshapeEquations
<1> DEFINE b == Reshape(flat, shape)
<1>3. \A k \in 0..(r - 1) : Chunked(b, part, shape, k)
  <2> HIDE DEF b
  <2>1. b = part[1][<<0, Len(flat)>>]
    BY <1>2 DEF b
  <2> QED
    BY <1>2, <2>1, ReshapedLevels
<1>4. /\ \A k \in 0..r : Prods(shape)[k] \in Nat /\ Prods(shape)[k] > 0
      /\ Prods(shape)[r] = 1
      /\ \A k \in 0..r : k < r =>
            Prods(shape)[k] = shape[k + 1] * Prods(shape)[k + 1]
  BY <1>1, ProdsEquations, ProdsPositive
<1> HIDE DEF b
\* Above the last dimension: the chunks are lists of chunks.
<1>5. ASSUME NEW k \in 0..(r - 1)
      PROVE  \A i \in DOMAIN Level(b)[k] :
                LET node == Level(b)[k][i] IN
                /\ IsList(node) /\ IsNode(node)
                /\ Len(Items(node)) = shape[k + 1]
                /\ k = r - 1 =>
                      \A j \in 1..shape[r] :
                         Items(node)[j] = flat[(i - 1) * shape[r] + j]
  <2> DEFINE nodes == Level(b)[k]
             n == Len(nodes)
             p == Prods(shape)[k]
             c == shape[k + 1]
  <2>1. Chunked(b, part, shape, k)
    BY <1>3
  <2>2. /\ IsSeq(nodes) /\ n \in Nat /\ n * p = Len(flat)
        /\ DOMAIN nodes = 1..n
    BY <2>1 DEF Chunked, LevelSize, IsSeq
  <2>3. p \in Nat /\ c \in Nat /\ k + 1 \in 1..r /\ k \in 0..r /\ k < r
        /\ k + 1 \in 0..r /\ Prods(shape)[k + 1] # 0
    BY <1>1, <1>4
  <2> SUFFICES ASSUME NEW i \in 1..n
               PROVE  /\ IsList(nodes[i]) /\ IsNode(nodes[i])
                      /\ Len(Items(nodes[i])) = c
                      /\ k = r - 1 =>
                            \A j \in 1..shape[r] :
                               Items(nodes[i])[j] = flat[(i - 1) * shape[r] + j]
    BY <2>2
  <2> DEFINE slice == <<(i - 1) * p, i * p>>
  <2>4. /\ slice \in Slices(flat) /\ (i - 1) * p \in Nat
        /\ i * p = (i - 1) * p + p /\ i * p \in Nat /\ i * p <= Len(flat)
    <3>1. ChunkWithin(flat, i, p)
      <4> HIDE DEF n, p, c, nodes
      <4> QED
        BY <2>2, <2>3, ChunkIsSlice
    <3> QED
      BY <3>1 DEF ChunkWithin
  <2>5. nodes[i] = Reshaped(flat, shape, k + 1, slice, part[(k + 1) + 1])
    <3>1. nodes[i] = part[k + 1][slice]
      BY <2>1 DEF Chunked
    <3> HIDE DEF slice, nodes
    <3> QED
      BY <1>1, <1>2, <2>3, <2>4, <3>1 DEF Parts
  <2>6. CASE k # r - 1
    <3> DEFINE item(j) == part[(k + 1) + 1][
                             <<slice[1] + (j - 1) * Prods(shape)[k + 1],
                               slice[1] + j * Prods(shape)[k + 1]>>]
               items == [j \in 1..c |-> item(j)]
    <3>1. k + 1 # Len(shape)
      BY <1>1, <2>3, <2>6
    <3>2. nodes[i] = List(items)
      <4> HIDE DEF slice, nodes
      <4> QED
        BY <2>3, <2>5, <3>1 DEF Reshaped
    <3>3. IsSeq(items) /\ Len(items) = c
      <4> HIDE DEF item, c
      <4> QED
        BY <2>3 DEF IsSeq
    <3> HIDE DEF items, nodes, c
    <3> QED
      BY <2>6, <3>2, <3>3 DEF List, IsList, IsNode, Items
  <2>7. CASE k = r - 1
    <3> DEFINE l == (i - 1) * p
               items == SubSeq(flat, l + 1, l + p)
    <3>1. k + 1 = Len(shape) /\ k + 1 = r
      BY <1>1, <2>7
    <3>2. p = c /\ c = shape[r]
      <4>1. p = c * Prods(shape)[r] /\ Prods(shape)[r] = 1
        BY <1>4, <2>3, <3>1
      <4>2. c * 1 = c
        BY <2>3
      <4> QED
        BY <3>1, <4>1, <4>2
    <3>3. nodes[i] = List(items)
      <4>1. slice[1] = l /\ slice[2] = l + p
        BY <2>4
      <4> HIDE DEF slice, nodes, l, p
      <4> QED
        BY <2>5, <3>1, <4>1 DEF Reshaped
    <3>4. l \in Nat /\ l + p <= Len(flat) /\ Len(flat) \in Nat
      BY <2>4 DEF IsSeq
    <3> HIDE DEF l, p
    <3>5. IsSeq(items) /\ Len(items) = p
          /\ \A j \in 1..p : items[j] = flat[l + j]
      BY <2>3, <3>4, SliceOf
    <3>6. \A j \in 1..shape[r] : items[j] = flat[(i - 1) * shape[r] + j]
      BY <3>2, <3>5 DEF l
    <3> HIDE DEF items, nodes, c
    <3> QED
      BY <3>2, <3>3, <3>5, <3>6 DEF List, IsList, IsNode, Items
  <2> QED
    BY <2>6, <2>7
<1>6. ProperAbove(b, r)
  BY <1>5 DEF ProperAbove
\* The last level: the chunks of the last dimension, one after the other.
<1>7. Level(b)[r] = flat
  <2> DEFINE k == r - 1
             nodes == Level(b)[k]
             n == Len(nodes)
             c == shape[r]
             lower == Level(b)[r]
  <2>1. k \in 0..(r - 1) /\ k + 1 = r /\ k \in 0..r /\ k < r /\ r \in 0..r
        /\ r \in 1..MaxDepth /\ r - 1 = k
    BY <1>1
  <2>2. IsSeq(nodes) /\ n \in Nat /\ n * Prods(shape)[k] = Len(flat)
        /\ DOMAIN nodes = 1..n
    BY <1>3, <2>1 DEF Chunked, LevelSize, IsSeq
  <2>3. c \in Nat /\ Prods(shape)[k] = c
    <3>1. c \in Nat /\ Prods(shape)[k] = c * 1
      BY <1>1, <1>4, <2>1
    <3> HIDE DEF c
    <3> QED
      BY <3>1
  <2>4. \A i \in 1..n : /\ IsList(nodes[i])
                        /\ IsSeq(Items(nodes[i])) /\ Len(Items(nodes[i])) = c
                        /\ \A j \in 1..c : Items(nodes[i])[j] = flat[(i - 1) * c + j]
    <3>1. \A i \in DOMAIN nodes :
             /\ IsList(nodes[i]) /\ IsNode(nodes[i])
             /\ Len(Items(nodes[i])) = c
             /\ \A j \in 1..c : Items(nodes[i])[j] = flat[(i - 1) * c + j]
      BY <1>5, <2>1
    <3> HIDE DEF nodes, n, c
    <3> QED
      BY <2>2, <3>1 DEF IsNode
  <2>5. lower = Unwrap(nodes)
    BY <2>1, LevelEquations
  <2>6. ItemsOf(lower, nodes, c)
    <3> HIDE DEF nodes, c, lower
    <3> QED
      BY <2>2, <2>3, <2>4, <2>5, UnwrapLists DEF n
  <2>7. Len(lower) = Len(flat) /\ IsSeq(lower) /\ Len(flat) = n * c
    BY <2>2, <2>3, <2>6 DEF ItemsOf
  <2>8. ASSUME NEW q \in 1..Len(flat)
        PROVE  lower[q] = flat[q]
    <3>1. PICK i \in 1..n : \E j \in 1..c : q = (i - 1) * c + j
      <4> HIDE DEF n, c
      <4>1. InGroup(q, n, c)
        BY <2>2, <2>3, <2>7, GroupOfPlace
      <4> QED
        BY <4>1 DEF InGroup
    <3>2. PICK j \in 1..c : q = (i - 1) * c + j
      BY <3>1
    <3>3. lower[(i - 1) * c + j] = Items(nodes[i])[j]
      BY <2>6 DEF ItemsOf
    <3>4. Items(nodes[i])[j] = flat[(i - 1) * c + j]
      BY <2>4
    <3> HIDE DEF lower, nodes, n, c
    <3> QED
      BY <3>2, <3>3, <3>4
  <2> HIDE DEF lower
  <2>9. lower = flat
    BY <2>7, <2>8 DEF IsSeq
  <2> QED
    BY <2>9 DEF lower
<1>8. Rectangular(b, shape)
  <2>1. ASSUME NEW k \in 1..r, NEW i \in DOMAIN Level(b)[k - 1]
        PROVE  IsList(Level(b)[k - 1][i]) /\ Len(Items(Level(b)[k - 1][i])) = shape[k]
    <3>1. k - 1 \in 0..(r - 1) /\ (k - 1) + 1 = k
      BY <1>1
    <3> QED
      BY <1>5, <3>1
  <2>2. \A i \in DOMAIN Level(b)[r] :
           ~IsList(Level(b)[r][i]) /\ Level(b)[r][i][2] \in Numbers
    <3>1. DOMAIN flat = 1..Len(flat)
      BY DEF IsSeq
    <3> QED
      BY <1>7, <3>1
  <2> QED
    BY <1>1, <2>1, <2>2 DEF Rectangular
<1>9. Flatten(b) = flat
  <2>1. r \in 0..MaxDepth
    BY <1>1
  <2> QED
    BY <1>6, <1>7, <1>8, <2>1, FlatArray
<1> QED
  BY <1>6, <1>8, <1>9 DEF b

\* An array without elements of at most two dimensions comes back as well.
LEMMA EmptyArrays ==
    ASSUME NEW r \in 1..MaxDepth, r <= 2, NEW shape \in [1..r -> Nat],
           Prods(shape)[0] = 0,
           NEW d, Rectangular(d, shape), ProperAbove(d, r),
           NEW flat, IsSeq(flat), Len(flat) = 0
    PROVE  Reshape(flat, shape) = d
<1>1. /\ r \in 0..MaxDepth /\ Len(shape) = r /\ Len(shape) \in Nat \ {0}
      /\ 0 \in 0..(r - 1) /\ 1 \in 1..Len(shape) /\ MaxDepth \in Nat
  BY TensorAssumption, LenOfFunction
<1>2. PICK part : /\ Reshape(flat, shape) = part[1][<<0, Len(flat)>>]
                  /\ Parts(part, flat, shape)
  BY <1>1, ReshapeEquations
<1> DEFINE s == <<0, 0>>
<1>3. Reshape(flat, shape) = Reshaped(flat, shape, 1, s, part[1 + 1])
  <2>1. s \in Slices(flat)
    BY DEF Slices
  <2> QED
    BY <1>1, <1>2, <2>1 DEF Parts
<1>4. /\ \A k \in 0..r : Prods(shape)[k] \in Nat
      /\ Prods(shape)[r] = 1
      /\ \A k \in 0..r : k < r =>
            Prods(shape)[k] = shape[k + 1] * Prods(shape)[k + 1]
  BY <1>1, ProdsEquations
<1>5. Level(d)[0] = <<d>> /\ IsSeq(Level(d)[0]) /\ Len(Level(d)[0]) = 1
  <2>1. Level(d)[0] = <<d>>
    BY LevelEquations
  <2>2. IsSeq(<<d>>) /\ Len(<<d>>) = 1
    BY DEF IsSeq
  <2> QED
    BY <2>1, <2>2
<1>6. ASSUME NEW k \in 0..(r - 1), IsSeq(Level(d)[k])
      PROVE  /\ ItemsOf(Level(d)[k + 1], Level(d)[k], shape[k + 1])
             /\ ListsOf(Level(d)[k], shape[k + 1])
  <2>1. r \in 0..MaxDepth
    BY <1>1
  <2> QED
    BY <1>6, <2>1, NextLevel
<1>7. /\ ItemsOf(Level(d)[0 + 1], Level(d)[0], shape[0 + 1])
      /\ d = List(Items(d)) /\ IsSeq(Items(d)) /\ Len(Items(d)) = shape[0 + 1]
  <2>1. /\ ItemsOf(Level(d)[0 + 1], Level(d)[0], shape[0 + 1])
        /\ ListsOf(Level(d)[0], shape[0 + 1])
    <3>1. r \in 0..MaxDepth /\ 0 \in 0..(r - 1) /\ IsSeq(Level(d)[0])
      BY <1>1, <1>5
    <3> QED
      BY <1>6, <3>1
  <2> QED
    BY <1>5, <2>1 DEF ListsOf
<1>8. ASSUME NEW t, IsSeq(t), Len(t) = 0
      PROVE  t = <<>>
  BY <1>8 DEF IsSeq
<1>9. CASE r = 1
  <2>1. shape[1] = 0
    <3>1. shape[1] \in Nat /\ 0 = shape[1] * 1
      BY <1>4, <1>9
    <3> QED
      BY <3>1
  <2>2. d = List(<<>>)
    BY <1>7, <1>8, <2>1
  <2>3. SubSeq(flat, s[1] + 1, s[2]) = <<>>
    BY SubSeqEmpty
  <2>4. Reshape(flat, shape) = List(<<>>)
    BY <1>1, <1>3, <1>9, <2>3 DEF Reshaped
  <2> QED
    BY <2>2, <2>4
<1>10. CASE r = 2
  <2> DEFINE a == shape[1]
             c == shape[2]
  <2>1. a \in Nat /\ c \in Nat /\ Prods(shape)[1] = c /\ (c = 0 \/ a = 0)
    <3>1. a \in Nat /\ c \in Nat /\ Prods(shape)[1] = c * 1
          /\ 0 = a * Prods(shape)[1]
      BY <1>4, <1>10
    <3> HIDE DEF a, c
    <3>2. Prods(shape)[1] = c
      BY <3>1
    <3>3. 0 = a * c
      BY <3>1, <3>2
    <3> QED
      BY <3>1, <3>2, <3>3
  <2> DEFINE item(i) == IF Prods(shape)[1] = 0 THEN List(<<>>)
                        ELSE part[1 + 1][<<s[1] + (i - 1) * Prods(shape)[1],
                                           s[1] + i * Prods(shape)[1]>>]
             rows == [i \in 1..a |-> item(i)]
  <2>2. Reshape(flat, shape) = List(rows)
    <3>1. 1 # Len(shape)
      BY <1>1, <1>10
    <3> QED
      BY <1>3, <3>1 DEF Reshaped
  <2>3. ASSUME NEW i \in 1..a
        PROVE  Items(d)[i] = item(i)
    <3>1. Prods(shape)[1] = 0 /\ c = 0
      BY <2>1
    <3>2. item(i) = List(<<>>)
      BY <3>1
    <3> DEFINE lower == Level(d)[1]
    <3>3. IsSeq(lower) /\ Len(lower) = a
          /\ lower[i] = Items(d)[i]
      <4>1. /\ 1 * a = a /\ (1 - 1) * a + i = i /\ 0 + 1 = 1 /\ 1 \in 1..1
        BY <2>1
      <4>2. ItemsOf(lower, <<d>>, a)
        BY <1>5, <1>7, <4>1
      <4>3. lower[(1 - 1) * a + i] = Items(<<d>>[1])[i]
        BY <4>1, <4>2 DEF ItemsOf
      <4>4. Len(lower) = 1 * a /\ IsSeq(lower)
        BY <4>2 DEF ItemsOf
      <4> HIDE DEF lower, a
      <4> QED
        BY <4>1, <4>3, <4>4
    <3>4. 1 \in 0..(r - 1) /\ 1 + 1 = 2
      BY <1>10
    <3>5. ListsOf(Level(d)[1], shape[1 + 1])
      <4>1. r \in 0..MaxDepth /\ 1 \in 0..(r - 1) /\ IsSeq(Level(d)[1])
        BY <1>1, <3>3, <3>4
      <4> QED
        BY <1>6, <4>1
    <3>6. lower[i] = List(Items(lower[i])) /\ Items(lower[i]) = <<>>
      BY <1>8, <3>1, <3>3, <3>4, <3>5 DEF ListsOf
    <3> HIDE DEF item, lower
    <3> QED
      BY <3>2, <3>3, <3>6
  <2>4. Items(d) = rows
    <3>1. IsSeq(Items(d)) /\ Len(Items(d)) = a
      BY <1>7
    <3> HIDE DEF item, a
    <3> QED
      BY <2>3, <3>1 DEF IsSeq
  <2> QED
    BY <1>7, <2>2, <2>4
<1> QED
  BY <1>9, <1>10

-----------------------------------------------------------------------------
(* The shape of a sample. *)

\* A concatenation is a sequence at least as long as what it begins with.
LEMMA FlattenStarts ==
    ASSUME NEW ss, IsSeq(ss), Len(ss) # 0, \A i \in 1..Len(ss) : IsSeq(ss[i])
    PROVE  IsSeq(FlattenSeq(ss)) /\ Len(FlattenSeq(ss)) >= Len(ss[1])
<1> DEFINE n == Len(ss)
<1>1. n \in Nat \ {0}
  BY DEF IsSeq
<1>2. PICK g : FlattenSeq(ss) = g[n] /\ Concatenations(g, ss, n)
  BY <1>1, FlattenEquations
<1> DEFINE T == {m \in 0..n : m = 0 \/ (IsSeq(g[m]) /\ Len(g[m]) >= Len(ss[1]))}
<1>3. 0 \in T
  OBVIOUS
<1>4. ASSUME NEW m \in 0..n, m < n, m \in T
      PROVE  m + 1 \in T
  <2>1. m + 1 \in 1..n /\ m + 1 \in 0..n /\ 1 \in 1..n /\ (m + 1) - 1 = m
    BY <1>1, <1>4
  <2>2. CASE m = 0
    <3>1. IsSeq(ss[1]) /\ Len(ss[1]) \in Nat /\ g[1] = ss[1] /\ m + 1 = 1
      BY <1>2, <2>1, <2>2 DEF Concatenations, IsSeq
    <3>2. IsSeq(g[m + 1]) /\ Len(g[m + 1]) >= Len(ss[1])
      BY <3>1
    <3> QED
      BY <2>1, <3>2
  <2>3. CASE m # 0
    <3> DEFINE s == g[m]
               t == ss[m + 1]
               X == {s[i] : i \in 1..Len(s)} \cup {t[i] : i \in 1..Len(t)}
    <3>1. IsSeq(s) /\ IsSeq(t) /\ Len(s) >= Len(ss[1]) /\ Len(ss[1]) \in Nat
      BY <1>4, <2>1, <2>3 DEF IsSeq
    <3>2. g[m + 1] = s \o t
      <4>1. m + 1 # 1
        BY <2>3
      <4> QED
        BY <1>2, <2>1, <4>1, Zenon DEF Concatenations
    <3> HIDE DEF s, t
    <3>3. s \in Seq(X) /\ t \in Seq(X) /\ Len(s) \in Nat /\ Len(t) \in Nat
      <4>1. /\ Len(s) \in Nat /\ s \in [1..Len(s) -> X]
            /\ Len(t) \in Nat /\ t \in [1..Len(t) -> X]
        BY <3>1 DEF IsSeq
      <4> HIDE DEF X
      <4> QED
        BY <4>1, LenOfFunction
    <3> HIDE DEF X
    <3>4. s \o t \in Seq(X) /\ Len(s \o t) = Len(s) + Len(t)
      BY <3>3, ConcatProperties
    <3>5. IsSeq(s \o t)
      <4> DEFINE u == s \o t
      <4>1. u \in Seq(X)
        BY <3>4
      <4> HIDE DEF u
      <4>2. IsSeq(u)
        BY <4>1, LenProperties DEF IsSeq
      <4> QED
        BY <4>2 DEF u
    <3>6. Len(s \o t) >= Len(ss[1])
      BY <3>1, <3>3, <3>4
    <3> QED
      BY <2>1, <3>2, <3>5, <3>6
  <2> QED
    BY <2>2, <2>3
<1>5. n \in T
  <2> HIDE DEF T
  <2>1. n \in 0..n /\ n \in Nat
    BY <1>1
  <2> QED
    BY <1>3, <1>4, <2>1, UpTo
<1> QED
  BY <1>1, <1>2, <1>5

LEMMA EmptySequence ==
    ASSUME NEW s, IsSeq(s), Len(s) = 0
    PROVE  s = <<>>
BY DEF IsSeq

\* Below nodes come nodes again, some if the first is a number or has items.
LEMMA UnwrapStarts ==
    ASSUME NEW nodes, IsSeq(nodes), \A i \in 1..Len(nodes) : IsNode(nodes[i])
    PROVE  /\ IsSeq(Unwrap(nodes))
           /\ Len(nodes) # 0 /\ (IsList(nodes[1]) => Items(nodes[1]) # <<>>)
                 => Len(Unwrap(nodes)) # 0
<1> DEFINE n == Len(nodes)
           ss == [i \in 1..n |-> IF IsList(nodes[i]) THEN Items(nodes[i])
                                 ELSE <<nodes[i]>>]
<1>1. n \in Nat /\ DOMAIN nodes = 1..n
  BY DEF IsSeq
<1>2. Unwrap(nodes) = FlattenSeq(ss)
  BY <1>1 DEF Unwrap
<1>3. Len(ss) = n /\ IsSeq(ss)
  BY <1>1 DEF IsSeq
<1>4. ASSUME NEW i \in 1..n
      PROVE  IsSeq(ss[i])
  <2>1. CASE IsList(nodes[i])
    BY <2>1 DEF IsNode
  <2>2. CASE ~IsList(nodes[i])
    <3>1. IsSeq(<<nodes[i]>>)
      BY DEF IsSeq
    <3> QED
      BY <2>2, <3>1
  <2> QED
    BY <2>1, <2>2
<1>5. CASE n = 0
  <2>1. FlattenSeq(ss) = ss
    BY <1>3, <1>5 DEF FlattenSeq
  <2> QED
    BY <1>2, <1>3, <1>5, <2>1
<1>6. CASE n # 0
  <2>1. IsSeq(FlattenSeq(ss)) /\ Len(FlattenSeq(ss)) >= Len(ss[1])
    <3> HIDE DEF ss
    <3> QED
      BY <1>3, <1>4, <1>6, FlattenStarts
  <2>2. ASSUME IsList(nodes[1]) => Items(nodes[1]) # <<>>
        PROVE  Len(ss[1]) # 0
    <3>1. 1 \in 1..n
      BY <1>1, <1>6
    <3>2. CASE IsList(nodes[1])
      <4>1. ss[1] # <<>> /\ IsSeq(ss[1])
        BY <1>4, <2>2, <3>1, <3>2
      <4> QED
        BY <4>1, EmptySequence
    <3>3. CASE ~IsList(nodes[1])
      <4>1. ss[1] = <<nodes[1]>>
        BY <3>1, <3>3
      <4> QED
        BY <4>1
    <3> QED
      BY <3>2, <3>3
  <2>3. Len(ss[1]) \in Nat /\ Len(FlattenSeq(ss)) \in Nat
    <3>1. IsSeq(ss[1])
      BY <1>1, <1>4, <1>6
    <3> HIDE DEF ss
    <3> QED
      BY <2>1, <3>1 DEF IsSeq
  <2> HIDE DEF ss
  <2> QED
    BY <1>2, <2>1, <2>2, <2>3
<1> QED
  BY <1>5, <1>6

\* All levels of a sample are sequences of nodes.
LEMMA LevelsOfSample ==
    ASSUME NEW d \in Samples
    PROVE  \A n \in 0..MaxDepth :
              /\ IsSeq(Level(d)[n])
              /\ \A i \in 1..Len(Level(d)[n]) : IsNode(Level(d)[n][i])
<1> DEFINE T == {n \in 0..MaxDepth : IsSeq(Level(d)[n])}
<1>1. MaxDepth \in Nat
  BY TensorAssumption
<1>2. ASSUME NEW n \in 0..MaxDepth, IsSeq(Level(d)[n])
      PROVE  \A i \in 1..Len(Level(d)[n]) : IsNode(Level(d)[n][i])
  <2>1. DOMAIN Level(d)[n] = 1..Len(Level(d)[n])
    BY <1>2 DEF IsSeq
  <2> QED
    BY <2>1, TensorAssumption
<1>3. 0 \in T
  <2>1. IsSeq(<<d>>)
    BY DEF IsSeq
  <2> QED
    BY <1>1, <2>1, LevelEquations
<1>4. ASSUME NEW n \in 0..MaxDepth, n < MaxDepth, n \in T
      PROVE  n + 1 \in T
  <2>1. n + 1 \in 1..MaxDepth /\ n + 1 \in 0..MaxDepth /\ (n + 1) - 1 = n
    BY <1>1, <1>4
  <2>2. Level(d)[n + 1] = Unwrap(Level(d)[n])
    BY <2>1, LevelEquations
  <2>3. IsSeq(Level(d)[n])
    BY <1>4
  <2>4. \A i \in 1..Len(Level(d)[n]) : IsNode(Level(d)[n][i])
    BY <1>2, <2>3
  <2>5. IsSeq(Unwrap(Level(d)[n]))
    BY <2>3, <2>4, UnwrapStarts
  <2> QED
    BY <2>1, <2>2, <2>5
<1>5. \A n \in 0..MaxDepth : n \in T
  <2> HIDE DEF T
  <2> QED
    BY <1>1, <1>3, <1>4, UpTo
<1> QED
  BY <1>2, <1>5

\* The walk has not ended above level n.
WalksTo(d, n) == \A m \in 0..(n - 1) : ~WalkEnds(d, m)

\* Wherever the walk goes there is a first node.
LEMMA WalkMeetsNodes ==
    ASSUME NEW d \in Samples, NEW e \in 0..MaxDepth, WalksTo(d, e)
    PROVE  \A n \in 0..e : Len(Level(d)[n]) # 0
<1> DEFINE T == {n \in 0..e : Len(Level(d)[n]) # 0}
<1>1. MaxDepth \in Nat /\ e \in Nat
  BY TensorAssumption
<1>2. 0 \in T
  <2>1. Len(<<d>>) # 0
    OBVIOUS
  <2>2. Len(Level(d)[0]) # 0
    BY <2>1, LevelEquations
  <2> QED
    BY <1>1, <2>2
<1>3. ASSUME NEW n \in 0..e, n < e, n \in T
      PROVE  n + 1 \in T
  <2>1. n + 1 \in 1..MaxDepth /\ n + 1 \in 0..e /\ (n + 1) - 1 = n
        /\ n \in 0..(e - 1) /\ n \in 0..MaxDepth
    BY <1>1, <1>3
  <2>2. Level(d)[n + 1] = Unwrap(Level(d)[n])
    BY <2>1, LevelEquations
  <2>3. Items(Level(d)[n][1]) # <<>>
    BY <2>1 DEF WalksTo, WalkEnds, FirstNode
  <2>4. /\ IsSeq(Level(d)[n])
        /\ \A i \in 1..Len(Level(d)[n]) : IsNode(Level(d)[n][i])
    BY <2>1, LevelsOfSample
  <2>5. Len(Unwrap(Level(d)[n])) # 0
    BY <1>3, <2>3, <2>4, UnwrapStarts
  <2> QED
    BY <2>1, <2>2, <2>5
<1>4. \A n \in 0..e : n \in T
  <2> HIDE DEF T
  <2> QED
    BY <1>1, <1>2, <1>3, UpTo
<1> QED
  BY <1>4

\* The first node of a level the walk meets.
LEMMA FirstNodes ==
    ASSUME NEW d \in Samples, NEW e \in 0..MaxDepth, WalksTo(d, e),
           NEW n \in 0..e
    PROVE  /\ IsNode(FirstNode(d, n))
           /\ n = MaxDepth => ~IsList(FirstNode(d, n))
           /\ n = 0 => IsList(FirstNode(d, n))
<1>1. n \in 0..MaxDepth /\ MaxDepth \in Nat
  BY TensorAssumption
<1>2. IsSeq(Level(d)[n]) /\ Len(Level(d)[n]) # 0
  BY <1>1, LevelsOfSample, WalkMeetsNodes
<1>3. 1 \in DOMAIN Level(d)[n]
  BY <1>2 DEF IsSeq
<1>4. n = 0 => FirstNode(d, n) = d
  BY LevelEquations DEF FirstNode
<1> QED
  BY <1>1, <1>3, <1>4, TensorAssumption DEF FirstNode

\* The walk ends.
LEMMA WalkHasEnd ==
    ASSUME NEW d \in Samples
    PROVE  /\ WalkEnd(d) \in 0..MaxDepth
           /\ WalksTo(d, WalkEnd(d)) /\ WalkEnds(d, WalkEnd(d))
<1> DEFINE T == {n \in 0..MaxDepth : WalkEnds(d, n)}
<1>1. MaxDepth \in Nat
  BY TensorAssumption
<1>2. T # {}
  <2> SUFFICES ASSUME T = {} PROVE FALSE
    OBVIOUS
  <2>1. MaxDepth \in 0..MaxDepth /\ WalksTo(d, MaxDepth)
    BY <1>1 DEF WalksTo
  <2>2. ~IsList(FirstNode(d, MaxDepth))
    BY <2>1, FirstNodes
  <2> QED
    BY <2>1, <2>2 DEF WalkEnds
<1>3. PICK e \in T : \A n \in T : e <= n
  <2>1. T \subseteq Nat
    OBVIOUS
  <2> HIDE DEF T
  <2> QED
    BY <1>2, <2>1, LeastNatural
<1>4. e \in 0..MaxDepth /\ WalkEnds(d, e) /\ \A m \in 0..(e - 1) : ~WalkEnds(d, m)
  BY <1>1, <1>3
<1> QED
  BY <1>4 DEF WalkEnd, WalksTo

\* The inferred shape has a dimension at least, no more than MaxDepth, and
\* only numbers.
Shaped(d, shape, r) ==
    /\ r \in 1..MaxDepth
    /\ shape \in [1..r -> Nat]
    /\ ProperAbove(d, r)

LEMMA ShapeOfSample ==
    ASSUME NEW d \in Samples
    PROVE  Shaped(d, InferShape(d), Len(InferShape(d)))
<1> DEFINE e == WalkEnd(d)
           r == e + IF IsList(FirstNode(d, e)) THEN 1 ELSE 0
<1>1. MaxDepth \in Nat /\ e \in 0..MaxDepth /\ WalksTo(d, e)
  BY TensorAssumption, WalkHasEnd
<1> HIDE DEF e
<1>2. e \in 0..e
  BY <1>1
<1>3. r \in 1..MaxDepth
  <2>1. CASE IsList(FirstNode(d, e))
    <3>1. e # MaxDepth
      BY <1>1, <1>2, <2>1, FirstNodes
    <3> QED
      BY <1>1, <2>1, <3>1
  <2>2. CASE ~IsList(FirstNode(d, e))
    <3>1. e # 0
      BY <1>1, <1>2, <2>2, FirstNodes
    <3> QED
      BY <1>1, <2>2, <3>1
  <2> QED
    BY <2>1, <2>2
<1>4. InferShape(d) = [k \in 1..r |-> Len(Items(FirstNode(d, k - 1)))]
  BY DEF InferShape, e
<1>5. ASSUME NEW k \in 1..r
      PROVE  Len(Items(FirstNode(d, k - 1))) \in Nat
  <2> DEFINE n == k - 1
  <2>1. n \in 0..e /\ (n = e \/ n \in 0..(e - 1)) /\ (n = e => r # e)
    BY <1>1, <1>5
  <2>2. IsList(FirstNode(d, n))
    <3>1. CASE n = e
      BY <1>1, <2>1, <3>1
    <3>2. CASE n \in 0..(e - 1)
      BY <1>1, <3>2 DEF WalksTo, WalkEnds
    <3> QED
      BY <2>1, <3>1, <3>2
  <2>3. IsNode(FirstNode(d, n))
    <3> HIDE DEF n
    <3> QED
      BY <1>1, <2>1, FirstNodes
  <2> HIDE DEF n
  <2>4. Len(Items(FirstNode(d, n))) \in Nat
    BY <2>2, <2>3 DEF IsNode, IsSeq
  <2> QED
    BY <2>4 DEF n
<1> HIDE DEF r
<1>6. InferShape(d) \in [1..r -> Nat] /\ r \in Nat
  BY <1>1, <1>3, <1>4, <1>5
<1>7. Len(InferShape(d)) = r
  BY <1>6, LenOfFunction
<1>8. ProperAbove(d, r)
  <2> SUFFICES ASSUME NEW k \in 0..(r - 1), NEW i \in DOMAIN Level(d)[k]
               PROVE  IsNode(Level(d)[k][i])
    BY DEF ProperAbove
  <2>1. k \in 0..MaxDepth
    BY <1>1, <1>3
  <2> QED
    BY <2>1, TensorAssumption
<1> QED
  BY <1>3, <1>6, <1>7, <1>8 DEF Shaped

-----------------------------------------------------------------------------
(* The wire format. *)

Packed(d)  == [shape |-> InferShape(d), flat |-> Flatten(d)]
Accepts(w) == Valid(w) /\ \A i \in DOMAIN w.flat : w.flat[i][2] \in Numbers

\* What goes over the wire is what the sample packs to, and acceptable; what
\* is rejected is not.
TensorInv ==
    /\ data \in Samples \cup {NoData}
    /\ data = NoData => tensorPc = "rejected"
    /\ tensorPc \in {"packed", "unpacked"} => wire = Packed(data) /\ Accepts(wire)
    /\ tensorPc = "unpacked" => back = Reshape(wire.flat, wire.shape)
    /\ tensorPc = "rejected" /\ data # NoData => ~Accepts(Packed(data))

THEOREM TensorInvariant == TensorSpec => []TensorInv
<1>1. TensorInit => TensorInv
  BY DEF TensorInit, TensorInv, NoData
<1>2. TensorInv /\ [TensorNext]_tensorVars => TensorInv'
  <2> SUFFICES ASSUME TensorInv, [TensorNext]_tensorVars
               PROVE  TensorInv'
    OBVIOUS
  <2>1. CASE Pack
    <3>1. Packed(data) = [shape |-> InferShape(data), flat |-> Flatten(data)]
      BY DEF Packed
    <3>2. IF Accepts(Packed(data))
          THEN tensorPc' = "packed" /\ wire' = Packed(data)
          ELSE tensorPc' = "rejected" /\ UNCHANGED wire
      BY <2>1, <3>1, Zenon DEF Pack, Accepts
    <3>3. tensorPc = "packing" /\ UNCHANGED <<data, back>>
      BY <2>1 DEF Pack
    <3>4. CASE Accepts(Packed(data))
      BY <3>2, <3>3, <3>4 DEF TensorInv
    <3>5. CASE ~Accepts(Packed(data))
      BY <3>2, <3>3, <3>5 DEF TensorInv
    <3> QED
      BY <3>4, <3>5
  <2>2. CASE Unpack
    BY <2>2 DEF TensorInv, Unpack
  <2>3. CASE UNCHANGED tensorVars
    BY <2>3 DEF TensorInv, tensorVars
  <2> QED
    BY <2>1, <2>2, <2>3 DEF TensorNext
<1> QED
  BY <1>1, <1>2, PTL DEF TensorSpec

\* The numbers of a sample.
LEMMA FlatSample ==
    ASSUME NEW d \in Samples
    PROVE  /\ IsSeq(Flatten(d))
           /\ DOMAIN Flatten(d) = 1..Len(Flatten(d))
           /\ \A i \in 1..Len(Flatten(d)) : ~IsList(Flatten(d)[i])
<1>1. MaxDepth \in 0..MaxDepth
  BY TensorAssumption
<1>2. IsSeq(Flatten(d))
  BY <1>1, LevelsOfSample DEF Flatten
<1>3. DOMAIN Flatten(d) = 1..Len(Flatten(d))
  BY <1>2 DEF IsSeq
<1>4. \A i \in DOMAIN Level(d)[MaxDepth] : ~IsList(Level(d)[MaxDepth][i])
  BY TensorAssumption
<1> QED
  BY <1>2, <1>3, <1>4 DEF Flatten

\* An array within the cap is accepted, and comes back as it was if it has
\* elements or at most two dimensions: packing, the checks of both sides and
\* the reshaping lose nothing.
THEOREM ArraysComeBack == TensorSpec => []ArraysRoundTrip
<1>1. TensorInv => ArraysRoundTrip
  <2> SUFFICES ASSUME TensorInv, data # NoData, IsArray(data),
                      Size(data) <= MaxElements
               PROVE  /\ tensorPc # "rejected"
                      /\ tensorPc = "unpacked"
                            /\ (Size(data) > 0 \/ Len(wire.shape) <= 2)
                         => back = data
    BY DEF ArraysRoundTrip
  <2> DEFINE shape == InferShape(data)
             flat  == Flatten(data)
             r     == Len(shape)
  <2>1. data \in Samples
    BY DEF TensorInv
  <2>2. Shaped(data, shape, r)
    BY <2>1, ShapeOfSample
  <2>3. MaxDepth \in Nat /\ r \in 0..MaxDepth /\ r \in 1..MaxDepth
    BY <2>2, TensorAssumption DEF Shaped
  <2>4. Rectangular(data, shape) /\ Size(data) = Prod(shape)
        /\ Prod(shape) = Prods(shape)[0]
    BY DEF IsArray, Size, Prod
  <2> HIDE DEF shape
  <2>5. shape \in [1..r -> Nat] /\ ProperAbove(data, r)
    BY <2>2 DEF Shaped
  <2>6. /\ IsSeq(flat) /\ Len(flat) = Prod(shape)
        /\ \A i \in 1..Len(flat) : ~IsList(flat[i]) /\ flat[i][2] \in Numbers
    BY <2>3, <2>4, <2>5, FlatArray
  <2>7. DOMAIN flat = 1..Len(flat)
    BY <2>1, FlatSample
  <2>8. Packed(data) = [shape |-> shape, flat |-> flat]
    BY DEF Packed, shape
  <2> HIDE DEF flat
  <2>9. Accepts(Packed(data))
    BY <2>4, <2>6, <2>7, <2>8 DEF Accepts, Valid
  <2>10. ASSUME tensorPc = "unpacked", Size(data) > 0 \/ Len(wire.shape) <= 2
         PROVE  back = data
    <3>1. wire.shape = shape /\ wire.flat = flat /\ back = Reshape(flat, shape)
      BY <2>8, <2>10 DEF TensorInv
    <3>2. Prods(shape)[0] \in Nat
      <4>1. 0 \in 0..r /\ r \in Nat
        BY <2>3
      <4> QED
        BY <2>5, <4>1, ProdsEquations
    <3>3. CASE Prods(shape)[0] > 0
      <4>1. /\ Rectangular(back, shape) /\ ProperAbove(back, r)
            /\ Flatten(back) = flat
        <5>1. Len(flat) = Prods(shape)[0]
          BY <2>4, <2>6
        <5> HIDE DEF r
        <5>2. /\ Rectangular(Reshape(flat, shape), shape)
              /\ ProperAbove(Reshape(flat, shape), r)
              /\ Flatten(Reshape(flat, shape)) = flat
          BY <2>3, <2>5, <2>6, <3>3, <5>1, ReshapeIsArray
        <5> QED
          BY <3>1, <5>2
      <4>2. Flatten(back) = Flatten(data)
        BY <4>1 DEF flat
      <4> QED
        BY <2>3, <2>4, <2>5, <3>3, <4>1, <4>2, ArraysEqual
    <3>4. CASE Prods(shape)[0] = 0
      <4>1. r <= 2 /\ Len(flat) = 0
        BY <2>4, <2>6, <2>10, <3>1, <3>4
      <4> HIDE DEF r
      <4>2. Reshape(flat, shape) = data
        BY <2>3, <2>4, <2>5, <2>6, <3>4, <4>1, EmptyArrays
      <4> QED
        BY <3>1, <4>2
    <3> QED
      BY <3>2, <3>3, <3>4
  <2> QED
    BY <2>9, <2>10 DEF TensorInv
<1> QED
  BY <1>1, TensorInvariant, PTL

\* Whatever is accepted and has elements, a ragged list included, comes out as
\* a full array of the shape on the wire, with all its numbers in their order.
THEOREM NumbersKept == TensorSpec => []AcceptedKeepsNumbers
<1>1. TensorInv => AcceptedKeepsNumbers
  <2> SUFFICES ASSUME TensorInv, tensorPc = "unpacked", Size(data) > 0
               PROVE  /\ Rectangular(back, wire.shape)
                      /\ Flatten(back) = Flatten(data)
    BY DEF AcceptedKeepsNumbers
  <2> DEFINE shape == InferShape(data)
             flat  == Flatten(data)
             r     == Len(shape)
  <2>1. data \in Samples
    BY DEF TensorInv
  <2>2. Shaped(data, shape, r)
    BY <2>1, ShapeOfSample
  <2>3. wire = [shape |-> shape, flat |-> flat] /\ Accepts(wire)
        /\ back = Reshape(flat, shape)
    BY DEF TensorInv, Packed
  <2>4. Prods(shape)[0] > 0
    BY DEF Size, Prod
  <2>5. IsSeq(flat) /\ \A i \in 1..Len(flat) : ~IsList(flat[i])
        /\ DOMAIN flat = 1..Len(flat)
    BY <2>1, FlatSample
  <2> HIDE DEF shape, flat
  <2>6. Len(flat) = Prods(shape)[0]
        /\ \A i \in 1..Len(flat) : flat[i][2] \in Numbers
    BY <2>3, <2>5 DEF Accepts, Valid, Prod
  <2>7. r \in 1..MaxDepth /\ shape \in [1..r -> Nat]
    BY <2>2 DEF Shaped
  <2> HIDE DEF r
  <2>8. /\ Rectangular(Reshape(flat, shape), shape)
        /\ Flatten(Reshape(flat, shape)) = flat
    BY <2>4, <2>5, <2>6, <2>7, ReshapeIsArray
  <2> QED
    BY <2>3, <2>8 DEF flat
<1> QED
  BY <1>1, TensorInvariant, PTL
=============================================================================
