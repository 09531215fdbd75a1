------------------------------ MODULE KvCache ------------------------------
(***************************************************************************)
(* LLMShardExecutor (llm/executor.py): threads of the executor pool run    *)
(* single passes of autoregressive generations and share one LRU cache of  *)
(* keys and values per <<run, shard>>.  A cached value is abstracted to    *)
(* the sequence of tokens it stands for, token p being the one processed   *)
(* by pass p (the prompt is token 0): concatenating in the attention layer *)
(* is appending, and the RoPE offset is the length of the sequence.        *)
(*                                                                         *)
(* The coordinator is external.  It issues the passes of a run one at a    *)
(* time, shard after shard; it issues a pass again when it never saw its   *)
(* report; and once a run is over it names that run in the evict_run_id of *)
(* a later task.                                                           *)
(***************************************************************************)
EXTENDS Integers, Sequences, FiniteSets, SequencesExt

CONSTANTS
    Runs,           \* generation runs (data_run_id)
    NumShards,      \* shards of each run served by this node
    MaxEntries,     \* max_kv_entries
    NumPasses,      \* passes per run
    MaxLost,        \* bound on task reports the coordinator never sees
    MaxLive,        \* runs the coordinator keeps started and not evicted
    Workers,        \* threads of the executor pool
    NoRun,          \* no run: an absent evict_run_id or data_run_id
    NoWorker        \* nobody holds _kv_lock

ASSUME KvCacheAssumption ==
    /\ IsFiniteSet(Runs) /\ NoRun \notin Runs
    /\ NumShards \in Nat \ {0}
    /\ MaxEntries \in Nat \ {0}
    /\ NumPasses \in Nat \ {0}
    /\ MaxLost \in Nat
    /\ MaxLive \in Nat \ {0}
    /\ NoWorker \notin Workers

VARIABLES
    cache,      \* _kv_cache: a function from the live keys
    order,      \* _kv_order: the keys, least recently used first
    lock,       \* the holder of _kv_lock inside evict_run_id
    job,        \* what each thread is executing
    step,       \* shard passes of each run the coordinator has seen done
    phase,      \* the coordinator's view: new, generating, over, signalled
    evicted,    \* runs whose eviction signal has been executed
    lost,       \* reports lost so far
    disturbed,  \* runs that lost a live entry to the cap, or a report
    late        \* runs evicted before a pass at work had stored its keys

cacheVars == <<cache, order, lock>>
poolVars == <<step, phase, lost>>
history == <<disturbed, late>>
kvVars == <<cache, order, lock, job, step, phase, evicted, lost, disturbed,
            late>>

KvShards == 0..(NumShards - 1)
Keys == Runs \X KvShards
Steps == 0..(NumPasses * NumShards)

\* The coordinator walks pass 0 through every shard, then pass 1, and so on.
PassOf(n) == n \div NumShards
ShardOf(n) == n % NumShards

\* Where a thread is: before the eviction signal, inside evict_run_id,
\* loading weights, before the cache lookup, in the forward pass, after it.
TaskPcs == {"idle", "start", "evicting", "load", "forward", "report"}

\* A run over and done with has been named in an evict_run_id.
Phases == {"new", "generating", "over", "signalled"}

Idle == [pc |-> "idle", run |-> NoRun, shard |-> 0, pass |-> 0,
         evict |-> NoRun, past |-> << >>]

KeyOf(w) == <<job[w].run, job[w].shard>>

KvTypeOK ==
    /\ DOMAIN cache \subseteq Keys
    /\ \A k \in DOMAIN cache : cache[k] \in Seq(0..(NumPasses - 1))
    /\ order \in Seq(Keys)
    /\ lock \in Workers \cup {NoWorker}
    /\ job \in [Workers -> [pc : TaskPcs, run : Runs \cup {NoRun},
                            shard : KvShards, pass : 0..(NumPasses - 1),
                            evict : Runs \cup {NoRun},
                            past : Seq(0..(NumPasses - 1))]]
    /\ step \in [Runs -> Steps]
    /\ phase \in [Runs -> Phases]
    /\ evicted \subseteq Runs
    /\ lost \in 0..MaxLost
    /\ disturbed \subseteq Runs /\ late \subseteq Runs

KvInit ==
    /\ cache = << >>
    /\ order = << >>
    /\ lock = NoWorker
    /\ job = [w \in Workers |-> Idle]
    /\ step = [r \in Runs |-> 0]
    /\ phase = [r \in Runs |-> "new"]
    /\ evicted = {}
    /\ lost = 0
    /\ disturbed = {} /\ late = {}

\* The cache without the keys in S (dict.pop for each of them).
Without(S) == [k \in DOMAIN cache \ S |-> cache[k]]

\* An over run whose end has not been signalled yet, or none.
EvictSignals == {r \in Runs : phase[r] = "over"} \cup {NoRun}

Signalled(e) == [r \in Runs |-> IF r = e THEN "signalled" ELSE phase[r]]

-----------------------------------------------------------------------------
(* The coordinator. *)

InFlight(r) == \E w \in Workers : job[w].run = r
Unstored(r) == \E w \in Workers : job[w].run = r /\ job[w].pc # "report"

\* A run is started while fewer than MaxLive others may have entries.
StartRun(r) ==
    /\ phase[r] = "new"
    /\ Cardinality({q \in Runs : phase[q] # "new" /\ q \notin evicted}) < MaxLive
    /\ phase' = [phase EXCEPT ![r] = "generating"]
    /\ UNCHANGED <<cacheVars, job, step, evicted, lost, history>>

\* The next pass of a run, if none of its passes is being executed; the
\* payload may also name a run to evict.
IssuePass(w, r, e) ==
    /\ job[w].pc = "idle"
    /\ phase[r] = "generating"
    /\ step[r] < NumPasses * NumShards
    /\ ~InFlight(r)
    /\ e \in EvictSignals
    /\ job' = [job EXCEPT ![w] =
                  [Idle EXCEPT !.pc = "start", !.run = r, !.evict = e,
                               !.shard = ShardOf(step[r]),
                               !.pass = PassOf(step[r])]]
    /\ phase' = Signalled(e)
    /\ UNCHANGED <<cacheVars, step, evicted, lost, history>>

\* A shard task without use_cache that carries the eviction signal.
IssueEviction(w, e) ==
    /\ job[w].pc = "idle"
    /\ e \in EvictSignals \ {NoRun}
    /\ job' = [job EXCEPT ![w] = [Idle EXCEPT !.pc = "start", !.evict = e]]
    /\ phase' = Signalled(e)
    /\ UNCHANGED <<cacheVars, step, evicted, lost, history>>

\* The run finished, failed or was stopped.
EndRun(r) ==
    /\ phase[r] = "generating"
    /\ phase' = [phase EXCEPT ![r] = "over"]
    /\ UNCHANGED <<cacheVars, job, step, evicted, lost, history>>

-----------------------------------------------------------------------------
(* One task on a thread of the pool. *)

\* execute: without a signal straight to _run_shard ...
SkipEvict(w) ==
    /\ job[w].pc = "start"
    /\ job[w].evict = NoRun
    /\ job' = [job EXCEPT ![w].pc = "load"]
    /\ UNCHANGED <<cacheVars, evicted, poolVars, history>>

\* ... otherwise evict_run_id first, which takes the lock, ...
BeginEvict(w) ==
    /\ job[w].pc = "start"
    /\ job[w].evict # NoRun
    /\ lock = NoWorker
    /\ lock' = w
    /\ job' = [job EXCEPT ![w].pc = "evicting"]
    /\ UNCHANGED <<cache, order, evicted, poolVars, history>>

\* ... drops the run's keys one after another ...
EvictKey(w, k) ==
    /\ job[w].pc = "evicting"
    /\ k \in DOMAIN cache
    /\ k[1] = job[w].evict
    /\ cache' = Without({k})
    /\ order' = RemoveFirst(order, k)
    /\ UNCHANGED <<lock, job, evicted, poolVars, history>>

\* Mutant: only the first key of the run is dropped.
EndEvictEarly(w) ==
    /\ job[w].pc = "evicting"
    /\ lock' = NoWorker
    /\ evicted' = evicted \cup {job[w].evict}
    /\ late' = IF Unstored(job[w].evict)
               THEN late \cup {job[w].evict} ELSE late
    /\ job' = [job EXCEPT ![w].pc = "load"]
    /\ UNCHANGED <<cache, order, disturbed, poolVars>>

\* ... and releases the lock.
EndEvict(w) ==
    /\ job[w].pc = "evicting"
    /\ \A k \in DOMAIN cache : k[1] # job[w].evict
    /\ lock' = NoWorker
    /\ evicted' = evicted \cup {job[w].evict}
    /\ late' = IF Unstored(job[w].evict)
               THEN late \cup {job[w].evict} ELSE late
    /\ job' = [job EXCEPT ![w].pc = "load"]
    /\ UNCHANGED <<cache, order, disturbed, poolVars>>

\* The weights are loaded; a task without use_cache leaves the cache alone.
RunUncached(w) ==
    /\ job[w].pc = "load"
    /\ job[w].run = NoRun
    /\ job' = [job EXCEPT ![w].pc = "report"]
    /\ UNCHANGED <<cacheVars, evicted, poolVars, history>>

\* _kv_cache_get misses: the forward pass starts without a past.
CacheMiss(w) ==
    /\ job[w].pc = "load"
    /\ job[w].run # NoRun
    /\ lock = NoWorker
    /\ KeyOf(w) \notin DOMAIN cache
    /\ job' = [job EXCEPT ![w].pc = "forward"]
    /\ UNCHANGED <<cacheVars, evicted, poolVars, history>>

\* Mutant: the lookup appends the key without removing its old place.
CacheHitAppends(w) ==
    /\ job[w].pc = "load"
    /\ job[w].run # NoRun
    /\ lock = NoWorker
    /\ KeyOf(w) \in DOMAIN cache
    /\ order' = Append(order, KeyOf(w))
    /\ job' = [job EXCEPT ![w].pc = "forward", ![w].past = cache[KeyOf(w)]]
    /\ UNCHANGED <<cache, lock, evicted, poolVars, history>>

\* _kv_cache_get hits and bumps the key to the most recently used end.
CacheHit(w) ==
    /\ job[w].pc = "load"
    /\ job[w].run # NoRun
    /\ lock = NoWorker
    /\ KeyOf(w) \in DOMAIN cache
    /\ order' = Append(RemoveFirst(order, KeyOf(w)), KeyOf(w))
    /\ job' = [job EXCEPT ![w].pc = "forward", ![w].past = cache[KeyOf(w)]]
    /\ UNCHANGED <<cache, lock, evicted, poolVars, history>>

\* Mutant: the attention layer returns only the new keys and values.
NewestOnly(w) == << job[w].pass >>

\* The forward pass appends the newest token to the past it was given.
Extended(w) == Append(job[w].past, job[w].pass)

\* The order after a put, before the cap is enforced.
Bumped(k) ==
    Append(IF k \in DOMAIN cache THEN RemoveFirst(order, k) ELSE order, k)

\* The forward pass ends and _kv_cache_put stores its keys and values; the
\* oldest keys go while the cache is over its cap.
StorePast(w) ==
    /\ job[w].pc = "forward"
    /\ lock = NoWorker
    /\ LET k == KeyOf(w)
           live == DOMAIN cache \cup {k}
           drop == IF Cardinality(live) > MaxEntries
                   THEN Cardinality(live) - MaxEntries ELSE 0
           old == ToSet(SubSeq(Bumped(k), 1, drop))
       IN  /\ order' = SubSeq(Bumped(k), drop + 1, Len(Bumped(k)))
           /\ cache' = [x \in live \ old |->
                          IF x = k THEN Extended(w) ELSE cache[x]]
           /\ disturbed' = disturbed \cup {x[1] : x \in old}
    /\ job' = [job EXCEPT ![w].pc = "report"]
    /\ UNCHANGED <<lock, evicted, late, poolVars>>

\* The task is reported: a pass of a run advances that run.
Report(w) ==
    /\ job[w].pc = "report"
    /\ job' = [job EXCEPT ![w] = Idle]
    /\ step' = [r \in Runs |->
                  IF r = job[w].run THEN step[r] + 1 ELSE step[r]]
    /\ UNCHANGED <<cacheVars, phase, evicted, lost, history>>

\* The report is lost, so the coordinator will issue the same pass again.
ReportLost(w) ==
    /\ job[w].pc = "report"
    /\ job[w].run # NoRun
    /\ lost < MaxLost
    /\ lost' = lost + 1
    /\ disturbed' = disturbed \cup {job[w].run}
    /\ job' = [job EXCEPT ![w] = Idle]
    /\ UNCHANGED <<cacheVars, step, phase, evicted, late>>

\* Loading the weights or the forward pass raises: the run has failed.
PassRaises(w) ==
    /\ job[w].pc \in {"load", "forward"}
    /\ job' = [job EXCEPT ![w] = Idle]
    /\ phase' = [r \in Runs |->
                   IF r = job[w].run /\ phase[r] = "generating"
                   THEN "over" ELSE phase[r]]
    /\ UNCHANGED <<cacheVars, step, evicted, lost, history>>

-----------------------------------------------------------------------------
Coordinator ==
    \/ \E w \in Workers, r \in Runs, e \in Runs \cup {NoRun} :
          IssuePass(w, r, e)
    \/ \E w \in Workers, e \in Runs : IssueEviction(w, e)
    \/ \E r \in Runs : StartRun(r) \/ EndRun(r)

Thread(w) ==
    \/ SkipEvict(w) \/ BeginEvict(w) \/ (\E k \in Keys : EvictKey(w, k))
    \/ EndEvict(w) \/ RunUncached(w) \/ CacheMiss(w) \/ CacheHit(w)
    \/ StorePast(w) \/ Report(w) \/ ReportLost(w) \/ PassRaises(w)

\* Every run has been evicted and every thread is idle.
Quiescent ==
    /\ \A r \in Runs : phase[r] = "signalled"
    /\ \A w \in Workers : job[w] = Idle
    /\ UNCHANGED kvVars

KvNext == Coordinator \/ Quiescent \/ \E w \in Workers : Thread(w)

KvSpec == KvInit /\ [][KvNext]_kvVars

-----------------------------------------------------------------------------
(* Properties. *)

\* The dict and the list that orders it never drift apart, and never grow past
\* max_kv_entries: the list holds every live key exactly once, whoever
\* evicts, looks up or stores.
CacheIntact ==
    /\ ToSet(order) = DOMAIN cache
    /\ Len(order) = Cardinality(DOMAIN cache)
    /\ Len(order) <= MaxEntries

\* Unless the cap took an entry of its run, the run was evicted meanwhile or
\* one of its reports was lost, a pass attends to exactly the tokens before
\* it, in order: the sharded generation computes what a full recompute would.
AttendsToPrefix ==
    \A w \in Workers :
        (job[w].pc = "forward" /\ job[w].run \notin disturbed \cup late) =>
            job[w].past = [i \in 1..job[w].pass |-> i - 1]

\* Once the eviction signal of a run has been executed the cache holds
\* nothing of that run, unless a pass of it had still to store its own.
EvictedRunsStayGone ==
    \A r \in evicted \ late : \A k \in DOMAIN cache : k[1] # r
=============================================================================
