---------------------------- MODULE MCNodeLife ----------------------------
(* Model-checking instances of TaskExecutors and Heartbeat.  The two share   *)
(* nothing: a behaviour is one of the node's executors or of its            *)
(* registration.                                                            *)
EXTENDS TaskExecutors, Heartbeat, TLC

VARIABLE part

CONSTANTS t1, t2, n1, n2

MCTasks == {t1, t2}
MCIds == {n1, n2}

\* The coordinators the node recognises an unknown-node answer of ...
Recognisable == {[transport |-> "http", unknown |-> "unacknowledged"],
                 [transport |-> "grpc", unknown |-> "notfound"]}

\* ... and one that answers 404 over HTTP.
HttpNotFound == {[transport |-> "http", unknown |-> "notfound"]}

Node(e, a, d, w, o) == [executor |-> e, autostart |-> a, desktop |-> d,
                        wrapped |-> w, torch |-> o]

\* The four executors, and for the two that want Docker the three ways they
\* may look for it.
MCSetups == {Node("auto", TRUE, TRUE, TRUE, FALSE),
             Node("auto", FALSE, FALSE, FALSE, FALSE),
             Node("docker", TRUE, FALSE, TRUE, TRUE),
             Node("local", TRUE, TRUE, TRUE, TRUE),
             Node("echo", TRUE, TRUE, TRUE, FALSE)}

Plain(i, c) == [kind |-> "plain", image |-> i, command |-> c]
Shard(k)    == [kind |-> k, image |-> FALSE, command |-> "simple"]
Pair(p, q)  == (t1 :> p) @@ (t2 :> q)
MCJobs == {Pair(Plain(TRUE, "simple"), Plain(FALSE, "compound")),
           Pair(Plain(TRUE, "detaching"), Plain(FALSE, "detaching")),
           Pair(Plain(TRUE, "compound"), Plain(FALSE, "simple")),
           Pair(Shard("data_shard"), Shard("llm_shard")),
           Pair(Shard("pipeline_shard"), Plain(TRUE, "none"))}

MCVars == <<part, vars, hbVars>>

\* The executors of a node whose registration is not looked at.
TasksInit ==
    /\ part = "tasks"
    /\ Init
    /\ HbInit /\ nodeId = n1
    /\ deployment = CHOOSE d \in Deployments : TRUE

\* The registration of a node whose main raised instead of taking tasks.
BeatsInit ==
    /\ part = "beats"
    /\ HbInit
    /\ setup = Node("docker", FALSE, FALSE, TRUE, TRUE)
    /\ payload = CHOOSE j \in Jobs : TRUE
    /\ mainPc = "raised" /\ hasDocker = FALSE
    /\ daemon = "down" /\ changes = 0
    /\ task = [t \in Tasks |-> [pc |-> "queued", place |-> "none",
                                work |-> "none", outcome |-> "none",
                                verdict |-> "none"]]

TasksEnded == mainPc = "raised" \/ \A t \in Tasks : task[t].pc = "done"

MCNext ==
    \/ part = "tasks" /\ Next /\ UNCHANGED <<part, hbVars>>
    \/ part = "tasks" /\ TasksEnded /\ UNCHANGED MCVars
    \/ part = "beats" /\ HbNext /\ UNCHANGED <<part, vars>>

\* The fairness of the two specifications, each in its part.
MCFairSpec ==
    /\ (TasksInit \/ BeatsInit) /\ [][MCNext]_MCVars
    /\ WF_MCVars(part = "tasks" /\ Main /\ UNCHANGED <<part, hbVars>>)
    /\ \A t \in Tasks :
         WF_MCVars(part = "tasks" /\ Thread(t) /\ UNCHANGED <<part, hbVars>>)
    /\ WF_MCVars(part = "beats" /\ NodeMain /\ UNCHANGED <<part, vars>>)
    /\ WF_MCVars(part = "beats" /\ Beat /\ UNCHANGED <<part, vars>>)
=============================================================================
