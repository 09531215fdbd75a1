----------------------------- MODULE MCServing -----------------------------
(* Model-checking instance of Serving. *)
EXTENDS Serving

MCKinds  == {"docker", "native", "sshd", "forking", "robbed"}
MCRelays == {"keeps", "forgets"}

\* The tunnel does not know the kind of its session, so that the server that
\* forgets a session is met with the native ones, whose states are fewer.
MCInit == ServingInit /\ (kind = "docker" => relay = "keeps")

MCFairSpec == MCInit /\ [][Next]_vars /\ Fairness
=============================================================================
