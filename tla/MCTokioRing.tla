---------------------------- MODULE MCTokioRing -----------------------------
(* Instances of TokioRing for TLC. *)
EXTENDS TokioRing

(* n tasks on w workers; the operations of slow complete after submit(). *)
Program(n, w, slow, faults, drops, stops) ==
  {[tasks |-> ts, slow |-> slow \cap (ts \X (1 .. OpsPerTask)), workers |-> w,
    faults |-> faults, drops |-> drops, stops |-> stops] :
     ts \in {CHOOSE ts \in SUBSET Tasks : Cardinality(ts) = n}}

FirstOnes == Tasks \X {1}

(* Every task awaits Nops; submissions that fail or are short; futures that *)
(* are dropped while the driver shuts down; all of it on one worker.        *)
Various ==
  Program(3, 2, {}, FALSE, FALSE, FALSE)
    \cup Program(2, 2, FirstOnes, TRUE, FALSE, FALSE)
    \cup Program(2, 2, FirstOnes, FALSE, TRUE, TRUE)
    \cup Program(2, 1, FirstOnes, TRUE, TRUE, TRUE)

(* Nothing fails, and every operation outlasts submit(). *)
OneWorker  == Program(1, 1, Futures, FALSE, FALSE, FALSE)
TwoWorkers == Program(2, 2, Futures, FALSE, FALSE, FALSE)
=============================================================================
