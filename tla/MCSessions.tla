----------------------------- MODULE MCSessions -----------------------------
(* Model-checking instances of Sessions. *)
EXTENDS Sessions, TLC

CONSTANTS s1, th1, th2

OneSession == {s1}
OneThread == {th1}
TwoThreads == {th1, th2}

\* Nothing fails, or one HTTP exchange, or one docker command.
OneMishap == faults + flakes <= 1

ThreadSymmetry == Permutations(TwoThreads)
=============================================================================
