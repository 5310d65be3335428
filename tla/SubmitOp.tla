------------------------------ MODULE SubmitOp ------------------------------
(***************************************************************************)
(* What AsyncIoUring::submit_op promises, for the tokio and the async-std  *)
(* back ends alike: the future resolves to the result code of its own      *)
(* operation, after the kernel has carried the operation out, or to an     *)
(* error.  An operation is carried out at most once, and may be carried    *)
(* out although its future failed or was dropped.                          *)
(***************************************************************************)
CONSTANTS
  Futures,   \* one for each call of submit_op
  NoFuture

VARIABLES
  state,     \* of each future
  got,       \* whose result code an Ok future returned
  executed   \* operations the kernel has completed

pvars == <<state, got, executed>>

PInit ==
  /\ state = [f \in Futures |-> "unborn"]
  /\ got = [f \in Futures |-> NoFuture]
  /\ executed = {}

Await(f) ==
  /\ state[f] = "unborn"
  /\ state' = [state EXCEPT ![f] = "waiting"]
  /\ UNCHANGED <<got, executed>>

(* A set, because one submission may complete several operations inline. *)
Execute(done) ==
  /\ \A f \in done : state[f] # "unborn" /\ f \notin executed
  /\ executed' = executed \cup done

ResolveOk(f) ==
  /\ state[f] = "waiting" /\ f \in executed
  /\ state' = [state EXCEPT ![f] = "ok"]
  /\ got' = [got EXCEPT ![f] = f]
  /\ UNCHANGED executed

ResolveErr(f) == state[f] = "waiting" /\ state' = [state EXCEPT ![f] = "err"]
Abandon(f)    == state[f] = "waiting" /\ state' = [state EXCEPT ![f] = "dropped"]

PNext ==
  \/ \E done \in SUBSET Futures : Execute(done) /\ UNCHANGED <<state, got>>
  \/ \E f \in Futures :
       \/ Await(f) \/ ResolveOk(f)
       \/ (ResolveErr(f) \/ Abandon(f)) /\ UNCHANGED <<got, executed>>

PSpec == PInit /\ [][PNext]_pvars
=============================================================================
