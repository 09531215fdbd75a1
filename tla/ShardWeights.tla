---------------------------- MODULE ShardWeights ----------------------------
(***************************************************************************)
(* How the tasks of an LLM run get their weights (llm/weights.py and the   *)
(* first half of LLMShardExecutor._run_shard): each reads the model's      *)
(* configuration, then its index, then the weight files its layer range    *)
(* needs, downloading what is not in its directory, and builds the layers  *)
(* of its shard from the keys it selects.                                  *)
(***************************************************************************)
EXTENDS Naturals, FiniteSets

CONSTANTS
    Shards,     \* 0 and 1: two tasks, one per part of the model
    NumLayers,  \* layers of the model
    Models,     \* how it is published, see ASSUME
    Plans,      \* how the run is set up, see ASSUME
    MaxFaults   \* bound on requests and transfers that fail

ASSUME ShardWeightsAssumption ==
    /\ Shards = {0, 1}
    /\ NumLayers \in Nat
    /\ Models \subseteq [layout : {"single", "sharded"}, tied : BOOLEAN]
    /\ Plans \subseteq [assigned  : SUBSET Shards,   \* tasks this node gets
                        cut       : 0..NumLayers,    \* first layer of part 1
                        source    : {"hub", "local"},
                        sharedDir : BOOLEAN,         \* a cache_dir is given
                        sameRev   : BOOLEAN]
    \* a local directory is one, and has no revisions
    /\ \A p \in Plans : p.source = "local" => p.sharedDir /\ p.sameRev
    /\ MaxFaults \in Nat

VARIABLES
    model, plan,
    disk,       \* the directories' files: [state, rev]
    task,       \* each task: file it is at, phase, files to come
    got,        \* the contents it has read
    params,     \* the parameters of the module it has built
    hit,        \* tasks a request or transfer of their own has failed for
    overlapped, \* some file was being downloaded by both tasks at once
    faults

vars == <<model, plan, disk, task, got, params, hit, overlapped, faults>>

WeightFiles == {"first", "second", "model"}
Files == {"config", "index"} \cup WeightFiles

Content == [state : {"absent", "cut", "holed", "whole"}, rev : Shards]
Absent  == [state |-> "absent", rev |-> 0]

\* Mutant: without cache_dir, all tasks of the process share one directory.
DirOfProcess(s) == 0

\* mkdtemp in __init__: a directory per task, unless cache_dir is given.
DirOf(s) == IF plan.sharedDir THEN 0 ELSE s

\* A revision is named after the first task that asks for it.
RevOf(s) == IF plan.sameRev THEN 0 ELSE s

\* _cache_path leaves the revision out.
File(s, f) == disk[DirOf(s)][f]

Published == {"config"} \cup
    (IF model.layout = "single" THEN {"model"} ELSE {"index", "first", "second"})

-----------------------------------------------------------------------------
(* Keys of the model and parameters of a shard. *)

Layer(i) == [name |-> "layer", index |-> i]
Other(n) == [name |-> n, index |-> 0]
AllKeys ==
    {Layer(i) : i \in 0..(NumLayers - 1)} \cup {Other("embed"), Other("norm")}
       \cup (IF model.tied THEN {} ELSE {Other("head")})

\* The weight_map: embeddings and layer 0 in the first file.
FileOfKey(k) ==
    IF model.layout = "single" THEN "model"
    ELSE IF k = Other("embed") \/ k = Layer(0) THEN "first" ELSE "second"

Start(s) == IF s = 0 THEN 0 ELSE plan.cut
End(s)   == IF s = 0 THEN plan.cut ELSE NumLayers

\* keys_for_shard: [start, end), embeddings first, norm and head last.
KeysForShard(s) ==
    {k \in AllKeys :
       \/ k.name = "layer" /\ k.index >= Start(s) /\ k.index < End(s)
       \/ k.name = "embed" /\ s = 0
       \/ k.name \in {"norm", "head"} /\ s = 1}

\* The parameters of TorchShardModule, numbered from zero.
OwnParams(s) ==
    {Layer(i) : i \in {j \in 0..(NumLayers - 1) : j < End(s) - Start(s)}}
       \cup (IF s = 0 THEN {Other("embed")} ELSE {Other("norm")})
       \cup (IF s = 1 /\ ~model.tied THEN {Other("head")} ELSE {})

\* Mutant: layers keep the number they have in the whole model.
KeepIndex(s, k) == k

LocalKey(s, k) == IF k.name = "layer" THEN Layer(k.index - Start(s)) ELSE k

\* load_state_dict: a key outside the range, or that the module lacks, is
\* skipped; a parameter no key names keeps its random values.
LoadStateDict(s) ==
    {[param |-> LocalKey(s, k), key |-> k] :
       k \in {j \in KeysForShard(s) : /\ j.name = "layer" => j.index >= Start(s)
                                      /\ LocalKey(s, j) \in OwnParams(s)}}

\* With tied embeddings the last shard looks for embeddings only the first
\* has; forward raises.
ForwardRaises(s) == model.tied /\ s = 1

-----------------------------------------------------------------------------

TypeOK ==
    /\ model \in Models /\ plan \in Plans
    /\ disk \in [Shards -> [Files -> Content]]
    /\ task \in [Shards -> [file  : Files \cup {"none"},
                            phase : {"idle", "look", "request", "write", "read",
                                     "build", "loaded", "failed"},
                            todo  : SUBSET WeightFiles]]
    /\ got \in [Shards -> SUBSET Content]
    /\ \A s \in Shards : \A p \in params[s] : p.key \in AllKeys
    /\ hit \subseteq Shards
    /\ overlapped \in BOOLEAN
    /\ faults \in 0..MaxFaults
    /\ \A s \in Shards : task[s].phase \in {"write", "read"} =>
          File(s, task[s].file).state # "absent"

Init ==
    /\ model \in Models /\ plan \in Plans
    /\ disk = [d \in Shards |-> [f \in Files |->
                 IF plan.source = "local" /\ f \in Published
                 THEN [state |-> "whole", rev |-> 0] ELSE Absent]]
    /\ task = [s \in Shards |-> [file |-> "none", phase |-> "idle", todo |-> {}]]
    /\ got = [s \in Shards |-> {}]
    /\ params = [s \in Shards |-> {}]
    /\ hit = {}
    /\ overlapped = FALSE
    /\ faults = 0

At(s, ph) == task[s].phase = ph

Goto(s, f, ph) == task' = [task EXCEPT ![s].file = f, ![s].phase = ph]

\* The task arrives; load_config comes first.
Begin(s) ==
    /\ At(s, "idle")
    /\ s \in plan.assigned
    /\ Goto(s, "config", "look")
    /\ UNCHANGED <<model, plan, disk, got, params, hit, overlapped, faults>>

\* _cache_has: any file of that name will do.  A local directory is asked
\* for the single file before the index.
Look(s) ==
    /\ At(s, "look")
    /\ LET f == task[s].file IN
       IF plan.source = "local" /\ f = "index" /\ File(s, "model").state # "absent"
       THEN Goto(s, "model", "look")
       ELSE Goto(s, f, IF File(s, f).state = "absent" THEN "request" ELSE "read")
    /\ UNCHANGED <<model, plan, disk, got, params, hit, overlapped, faults>>

\* An exception in _download.  The index's is taken to mean a single-file
\* model; any other ends the task.
Raise(s) ==
    IF task[s].file = "index" /\ plan.source = "hub"
    THEN Goto(s, "model", "look")
    ELSE Goto(s, task[s].file, "failed")

\* The hub does not have the file, or does not answer: nothing is written.
RequestFails(s) ==
    /\ At(s, "request")
    /\ \/ task[s].file \notin Published /\ UNCHANGED <<faults, hit>>
       \/ /\ task[s].file \in Published
          /\ faults < MaxFaults /\ faults' = faults + 1
          /\ hit' = hit \cup {s}
    /\ Raise(s)
    /\ UNCHANGED <<model, plan, disk, got, params, overlapped>>

Writers(d, f) == {s \in Shards : At(s, "write") /\ DirOf(s) = d /\ task[s].file = f}

SetFile(s, st) ==
    disk' = [disk EXCEPT ![DirOf(s)][task[s].file] =
               [state |-> st, rev |-> RevOf(s)]]

\* Mutant: the file gets its full length first, and is filled in afterwards.
StartWritePreallocated(s) ==
    /\ At(s, "request")
    /\ task[s].file \in Published
    /\ SetFile(s, "holed")
    /\ overlapped' = (overlapped
                        \/ Writers(DirOf(s), task[s].file) # {}
                        \/ File(s, task[s].file).state # "absent")
    /\ Goto(s, task[s].file, "write")
    /\ UNCHANGED <<model, plan, got, params, hit, faults>>

\* open(dest, "wb") empties the file in its final place.
StartWrite(s) ==
    /\ At(s, "request")
    /\ task[s].file \in Published
    /\ SetFile(s, "cut")
    /\ overlapped' = (overlapped
                        \/ Writers(DirOf(s), task[s].file) # {}
                        \/ File(s, task[s].file).state # "absent")
    /\ Goto(s, task[s].file, "write")
    /\ UNCHANGED <<model, plan, got, params, hit, faults>>

\* The last chunk.  Where another task has emptied the file in between, what
\* came before is a hole until that task has written it.
EndWrite(s) ==
    /\ At(s, "write")
    /\ IF Writers(DirOf(s), task[s].file) = {s}
       THEN SetFile(s, "whole")
       ELSE \E st \in {"holed", "whole"} : SetFile(s, st)
    /\ Goto(s, task[s].file, "read")
    /\ UNCHANGED <<model, plan, got, params, hit, overlapped, faults>>

\* The transfer breaks off, and what has come stays where it is.
WriteBreaks(s) ==
    /\ At(s, "write")
    /\ faults < MaxFaults /\ faults' = faults + 1
    /\ hit' = hit \cup {s}
    /\ Raise(s)
    /\ UNCHANGED <<model, plan, disk, got, params, overlapped>>

\* Truncated files are recognised as such, and JSON with a hole; a hole among
\* tensors is not.
Readable(f, c) == c.state = "whole" \/ (c.state = "holed" /\ f \in WeightFiles)

NeededFiles(s) == {FileOfKey(k) : k \in KeysForShard(s)}

\* What comes after a file that could be read.
After(s) ==
    LET f == task[s].file
        todo == IF f = "index" THEN NeededFiles(s) ELSE task[s].todo \ {f} IN
    IF f = "config"
    THEN Goto(s, "index", "look")
    ELSE IF todo = {}
    THEN task' = [task EXCEPT ![s] = [file |-> "none", phase |-> "build",
                                      todo |-> {}]]
    ELSE \E g \in todo :
           task' = [task EXCEPT ![s] = [file |-> g, phase |-> "look",
                                        todo |-> todo]]

Read(s) ==
    /\ At(s, "read")
    /\ LET f == task[s].file IN
       IF Readable(f, File(s, f))
       THEN After(s) /\ got' = [got EXCEPT ![s] = @ \cup {File(s, f)}]
       ELSE Goto(s, f, "failed") /\ UNCHANGED got
    /\ UNCHANGED <<model, plan, disk, params, hit, overlapped, faults>>

Build(s) ==
    /\ At(s, "build")
    /\ params' = [params EXCEPT ![s] = LoadStateDict(s)]
    /\ Goto(s, "none", IF ForwardRaises(s) THEN "failed" ELSE "loaded")
    /\ UNCHANGED <<model, plan, disk, got, hit, overlapped, faults>>

-----------------------------------------------------------------------------

Load(s) ==
    \/ Begin(s) \/ Look(s) \/ RequestFails(s) \/ StartWrite(s) \/ EndWrite(s)
    \/ WriteBreaks(s) \/ Read(s) \/ Build(s)

Next == \E s \in Shards : Load(s)

Spec == Init /\ [][Next]_vars

-----------------------------------------------------------------------------
(* Properties. *)

\* A shard that runs has read whole files only, unless two tasks that share a
\* directory downloaded the same file at once (weights.py:154-162), and of the
\* revision its URI names, unless two revisions share a directory: the name
\* of a cached file leaves the revision out (weights.py:131).
LoadedFromItsFiles ==
    \A s \in Shards : At(s, "loaded") =>
       \A c \in got[s] :
          /\ ~overlapped => c.state = "whole"
          /\ ~(plan.sharedDir /\ ~plan.sameRev) => c.rev = RevOf(s)

\* Each task has a directory of its own on this node, so the file a broken
\* transfer leaves behind fails nobody else's task, nor a later one
\* (weights.py:125).
FailuresStayLocal ==
    ~plan.sharedDir =>
       \A s \in Shards : At(s, "failed") => s \in hit \/ ForwardRaises(s)

\* The shards that run are one model: each parameter of each shard has been
\* set from the one key it stands for, and no key serves twice, for every cut
\* and with one part empty (weights.py:19, model_shard.py:231).
ShardsFormTheModel ==
    /\ \A s \in Shards : At(s, "loaded") =>
         /\ {p.param : p \in params[s]} = OwnParams(s)
         /\ \A p \in params[s] :
              p.key.name = "layer" => p.key.index = Start(s) + p.param.index
    /\ \A k \in AllKeys :
         (\A s \in Shards : At(s, "loaded"))
            => Cardinality({s \in Shards : \E p \in params[s] : p.key = k}) = 1
=============================================================================
