---------------------------- MODULE TokioProofs -----------------------------
(***************************************************************************)
(* Theorems about module TokioRing, for any finite set of tasks, any ring  *)
(* size and any program, with every fault: what the wakers map says, what  *)
(* a poll leaves behind, and that the back end implements SubmitOp.        *)
(***************************************************************************)
EXTENDS TokioRing, Integers, QueueLemmas

(* What the properties rest on: the map, the counter and the state of each  *)
(* future and task (not the ring).                                          *)
Typed ==
  /\ wakers \in [UserData -> Tasks \cup {NoTask}]
  /\ nextUserData \in Nat \ {0}
  /\ userData \in [Futures -> Nat]
  /\ state \in [Futures -> {"unborn", "waiting", "ok", "err", "dropped"}]
  /\ current \in [Tasks -> 1 .. OpsPerTask]
  /\ poll \in [Tasks -> {"idle", "locking", "submitting", "draining", "arming"}]
  /\ woken \in [Tasks -> BOOLEAN]
  /\ reader \in Tasks \cup {NoTask}

(* A user_data is given out once, to one future, and the counter is ahead   *)
(* of all of them; as many have been given out as it says, so that the last *)
(* future still finds one.                                                  *)
Taken == {f \in Futures : userData[f] # 0}

Numbered ==
  /\ IsFiniteSet(Taken) /\ Cardinality(Taken) = nextUserData - 1
  /\ \A f \in Taken : userData[f] < nextUserData
  /\ \A f, g \in Taken : userData[f] = userData[g] => f = g

(* How the position of a task, the state of its future and the future's     *)
(* user_data go together: a future has one from the moment it is submitted. *)
Phases ==
  /\ \A t \in Tasks, n \in 1 .. OpsPerTask : n > current[t] => state[<<t, n>>] = "unborn"
  /\ \A f \in Futures : state[f] = "unborn" => userData[f] = 0
  /\ \A f \in Futures : state[f] = "ok" => userData[f] # 0
  /\ \A t \in Tasks :
       /\ poll[t] = "submitting" => state[Future(t)] = "waiting" /\ userData[Future(t)] = 0
       /\ poll[t] \in {"draining", "arming"} => state[Future(t)] = "waiting"
       /\ poll[t] = "locking" => state[Future(t)] \in {"unborn", "waiting"}
       /\ poll[t] # "submitting" /\ state[Future(t)] = "waiting" => userData[Future(t)] # 0

WakerInv == Typed /\ Numbered /\ Phases /\ WakersAreOwn /\ SleepersAreRegistered

-----------------------------------------------------------------------------
(* There are finitely many futures, so a largest user_data. *)
LEMMA FuturesFinite ==
  /\ IsFiniteSet(Futures) /\ Cardinality(Futures) \in Nat
<1>1. IsFiniteSet(1 .. OpsPerTask)
  BY TokioAssumption, FS_Interval
<1> QED
  BY <1>1, TokioAssumption, FS_Product, FS_CardinalityType DEF Futures

(* The future a task awaits, and that of another task. *)
LEMMA FutureFacts ==
  ASSUME Typed
  PROVE  /\ \A t \in Tasks : Future(t) \in Futures
         /\ \A t, u \in Tasks : Future(t) = Future(u) => t = u
BY DEF Typed, Future, Futures

(* The user_data given out are within the range that the model counts. *)
LEMMA TypedFacts ==
  ASSUME Typed, Numbered
  PROVE  /\ \A f \in Taken : userData[f] \in UserData
         /\ nextUserData - 1 <= Cardinality(Futures)
<1>1. Taken \in SUBSET Futures
  BY DEF Taken
<1>2. Cardinality(Taken) <= Cardinality(Futures)
  BY <1>1, FuturesFinite, FS_Subset
<1>3. nextUserData - 1 <= Cardinality(Futures)
  BY <1>2 DEF Numbered
<1>4. ASSUME NEW f \in Taken PROVE userData[f] \in UserData
  <2>1. userData[f] \in Nat /\ userData[f] # 0 /\ userData[f] < nextUserData
    BY DEF Typed, Taken, Numbered
  <2> QED
    BY <2>1, <1>3, FuturesFinite DEF UserData, Typed
<1> QED
  BY <1>3, <1>4

(* WakerInv holds before the first poll. *)
LEMMA InitWakerInv == Init => WakerInv
<1> SUFFICES ASSUME Init PROVE WakerInv
  OBVIOUS
<1>1. /\ \A u \in UserData : wakers[u] = NoTask
      /\ \A f \in Futures : userData[f] = 0 /\ state[f] = "unborn"
      /\ \A t \in Tasks : poll[t] = "idle"
      /\ nextUserData = 1
  BY DEF Init
<1>2. current \in [Tasks -> 1 .. OpsPerTask]
  BY TokioAssumption DEF Init
<1>3. Typed
  BY <1>2 DEF Init, Typed
<1>4. Numbered
  <2>1. Taken = {}
    BY <1>1 DEF Taken
  <2> QED
    BY <1>1, <2>1, FS_EmptySet DEF Numbered
<1>5. Phases
  <2>1. \A t \in Tasks : state[Future(t)] = "unborn"
    BY <1>1, <1>3, FutureFacts
  <2>2. \A t \in Tasks, n \in 1 .. OpsPerTask : <<t, n>> \in Futures
    BY DEF Futures
  <2> QED
    BY <1>1, <2>1, <2>2 DEF Phases
<1>6. WakersAreOwn
  BY <1>1 DEF WakersAreOwn
<1>7. SleepersAreRegistered
  BY <1>1, <1>3, FutureFacts DEF SleepersAreRegistered
<1> QED
  BY <1>3, <1>4, <1>5, <1>6, <1>7 DEF WakerInv

-----------------------------------------------------------------------------
(* A step after which no task sleeps that did not sleep before, and that    *)
(* leaves the map and the futures alone: the kernel's and the driver's, and *)
(* a poll between two lines that change neither.                            *)
LEMMA StepOutsideInner ==
  ASSUME WakerInv, UNCHANGED <<wakers, nextUserData, userData, state, current>>,
         poll' \in [Tasks -> {"idle", "locking", "submitting", "draining", "arming"}],
         woken' \in [Tasks -> BOOLEAN], reader' \in Tasks \cup {NoTask},
         \A t \in Tasks :
           \/ poll'[t] = poll[t] /\ (woken[t] => woken'[t])
           \/ poll[t] = "idle" /\ state[Future(t)] \in {"unborn", "waiting"} /\ poll'[t] = "locking"
           \/ poll[t] = "draining" /\ poll'[t] = "arming"
  PROVE  WakerInv'
<1> USE DEF WakerInv
<1>1. Typed'
  BY DEF Typed
<1>2. Taken' = Taken
  BY DEF Taken
<1>3. Numbered'
  BY <1>2 DEF Numbered
<1>4. \A t \in Tasks : Future(t)' = Future(t)
  BY DEF Future
<1>5. Phases'
  BY <1>4 DEF Phases, Typed
<1>6. WakersAreOwn'
  BY DEF WakersAreOwn
<1>7. SleepersAreRegistered'
  BY <1>4 DEF SleepersAreRegistered
<1> QED
  BY <1>1, <1>3, <1>5, <1>6, <1>7

(* What Over does, whichever way the future ends. *)
LEMMA OverFacts ==
  ASSUME Typed, NEW t \in Tasks, NEW how \in {"ok", "err", "dropped"}, NEW of, Over(t, how, of)
  PROVE  /\ state' = [state EXCEPT ![Future(t)] = how]
         /\ state' \in [Futures -> {"unborn", "waiting", "ok", "err", "dropped"}]
         /\ poll' \in [Tasks -> {"idle", "locking", "submitting", "draining", "arming"}]
         /\ current' \in [Tasks -> 1 .. OpsPerTask]
         /\ \A u \in Tasks \ {t} : poll'[u] = poll[u] /\ current'[u] = current[u]
         /\ \/ poll'[t] = "locking" /\ current'[t] = current[t] + 1
            \/ poll'[t] = "idle" /\ current'[t] = current[t]
<1>1. state' = [state EXCEPT ![Future(t)] = how]
  BY DEF Over
<1>2. state' \in [Futures -> {"unborn", "waiting", "ok", "err", "dropped"}]
  BY <1>1, FutureFacts DEF Typed
<1>3. CASE current[t] < OpsPerTask
  BY <1>1, <1>2, <1>3, TokioAssumption DEF Over, Typed
<1>4. CASE ~(current[t] < OpsPerTask)
  BY <1>1, <1>2, <1>4, TokioAssumption DEF Over, Typed
<1> QED
  BY <1>3, <1>4

(* The next future of the task has not begun, and its old one is over. *)
LEMMA OverKeepsPhases ==
  ASSUME Typed, Phases, NEW t \in Tasks, NEW how \in {"ok", "err", "dropped"}, NEW of,
         Over(t, how, of), state[Future(t)] = "waiting",
         userData' \in [Futures -> Nat],
         \A f \in Futures \ {Future(t)} : userData'[f] = userData[f],
         how = "ok" => userData'[Future(t)] # 0
  PROVE  Phases'
<1>1. /\ state' = [state EXCEPT ![Future(t)] = how]
      /\ \A u \in Tasks \ {t} : poll'[u] = poll[u] /\ current'[u] = current[u]
      /\ \/ poll'[t] = "locking" /\ current'[t] = current[t] + 1
         \/ poll'[t] = "idle" /\ current'[t] = current[t]
      /\ current' \in [Tasks -> 1 .. OpsPerTask]
  BY OverFacts
<1>2. \A f \in Futures : state'[f] = IF f = Future(t) THEN how ELSE state[f]
  BY <1>1 DEF Typed
<1>3. \A u \in Tasks : current[u] \in 1 .. OpsPerTask /\ current'[u] \in 1 .. OpsPerTask
  BY <1>1 DEF Typed
<1>4. ASSUME NEW u \in Tasks, NEW n \in 1 .. OpsPerTask, n > current'[u]
      PROVE  state'[<<u, n>>] = "unborn"
  <2>1. n > current[u] /\ <<u, n>> \in Futures
    BY <1>1, <1>3, <1>4 DEF Futures
  <2>2. <<u, n>> # Future(t)
    BY <1>3, <2>1 DEF Future
  <2> QED
    BY <1>2, <2>1, <2>2 DEF Phases
<1>5. ASSUME NEW f \in Futures
      PROVE  /\ state'[f] = "unborn" => userData'[f] = 0
             /\ state'[f] = "ok" => userData'[f] # 0
  BY <1>2 DEF Phases
<1>6. \A u \in Tasks \ {t} : /\ Future(u)' = Future(u) /\ Future(u) \in Futures
                             /\ Future(u) # Future(t)
  BY <1>1, FutureFacts DEF Future
<1>7. CASE poll'[t] = "locking" /\ current'[t] = current[t] + 1
  <2>1. Future(t)' = <<t, current[t] + 1>> /\ <<t, current[t] + 1>> \in Futures
    BY <1>3, <1>7 DEF Future, Futures
  <2>2. current[t] + 1 > current[t] /\ current[t] + 1 \in 1 .. OpsPerTask
    BY <1>3, <1>7
  <2>3. <<t, current[t] + 1>> # Future(t)
    BY <1>3 DEF Future
  <2>4. state'[Future(t)'] = "unborn"
    BY <1>2, <2>1, <2>2, <2>3 DEF Phases
  <2> QED
    BY <1>1, <1>2, <1>4, <1>5, <1>6, <1>7, <2>4 DEF Phases
<1>8. CASE poll'[t] = "idle" /\ current'[t] = current[t]
  <2>1. Future(t)' = Future(t) /\ Future(t) \in Futures
    BY <1>8, FutureFacts DEF Future
  <2>2. state'[Future(t)'] = how
    BY <1>2, <2>1
  <2> QED
    BY <1>1, <1>2, <1>4, <1>5, <1>6, <1>8, <2>2 DEF Phases
<1> QED
  BY <1>1, <1>7, <1>8

(* Every end of a future: by an error at submission (which may have given    *)
(* it its user_data before), its completion, an error of the driver, or a   *)
(* drop.                                                                    *)
LEMMA OverKeepsInv ==
  ASSUME WakerInv, NEW t \in Tasks, NEW how \in {"ok", "err", "dropped"}, NEW of,
         Over(t, how, of), state[Future(t)] = "waiting",
         UNCHANGED <<woken, reader>>,
         nextUserData' \in Nat \ {0}, userData' \in [Futures -> Nat], Numbered',
         \A f \in Futures \ {Future(t)} : userData'[f] = userData[f],
         userData[Future(t)] # 0 => userData'[Future(t)] = userData[Future(t)],
         how = "ok" => userData[Future(t)] # 0 /\ wakers' = Forget(t),
         how # "ok" => wakers' = wakers
  PROVE  WakerInv'
<1> USE DEF WakerInv
<1>1. /\ state' = [state EXCEPT ![Future(t)] = how]
      /\ state' \in [Futures -> {"unborn", "waiting", "ok", "err", "dropped"}]
      /\ poll' \in [Tasks -> {"idle", "locking", "submitting", "draining", "arming"}]
      /\ current' \in [Tasks -> 1 .. OpsPerTask]
      /\ \A u \in Tasks \ {t} : poll'[u] = poll[u] /\ current'[u] = current[u]
      /\ \/ poll'[t] = "locking" /\ current'[t] = current[t] + 1
         \/ poll'[t] = "idle" /\ current'[t] = current[t]
  BY OverFacts
<1>2. Future(t) \in Futures
  BY FutureFacts
<1>3. \A f \in Futures : state'[f] = IF f = Future(t) THEN how ELSE state[f]
  BY <1>1 DEF Typed
<1>4. wakers' \in [UserData -> Tasks \cup {NoTask}]
  BY DEF Forget, Typed
<1>5. Typed'
  BY <1>1, <1>4 DEF Typed
<1>6. Phases'
  BY OverKeepsPhases
<1>7. \A v \in UserData : wakers'[v] = wakers[v] \/ wakers'[v] = NoTask
  BY DEF Forget, Typed
<1>8. WakersAreOwn'
  <2>1. ASSUME NEW v \in UserData, wakers'[v] # NoTask
        PROVE  \E n \in 1 .. OpsPerTask : userData'[<<wakers'[v], n>>] = v
    <3>1. wakers'[v] = wakers[v] /\ wakers[v] # NoTask /\ wakers[v] \in Tasks
      BY <1>7, <2>1 DEF Typed
    <3>2. PICK n \in 1 .. OpsPerTask : userData[<<wakers[v], n>>] = v
      BY <3>1 DEF WakersAreOwn
    <3>3. <<wakers[v], n>> \in Futures /\ v # 0
      BY <3>1, FuturesFinite DEF Futures, UserData
    <3>4. userData'[<<wakers[v], n>>] = v
      BY <3>2, <3>3
    <3> QED
      BY <3>1, <3>4
  <2>2. ASSUME NEW f \in Futures, state'[f] = "ok" PROVE wakers'[userData'[f]] = NoTask
    <3>1. CASE f = Future(t)
      <4>1. how = "ok" /\ userData'[f] = userData[f] /\ userData[f] # 0
        BY <1>3, <2>2, <3>1
      <4>2. userData[f] \in UserData
        BY <4>1, TypedFacts DEF Taken
      <4> QED
        BY <3>1, <4>1, <4>2 DEF Forget, Typed
    <3>2. CASE f # Future(t)
      <4>1. state[f] = "ok" /\ userData'[f] = userData[f]
        BY <1>3, <2>2, <3>2
      <4>2. userData[f] \in UserData
        BY <4>1, TypedFacts DEF Taken, Phases
      <4> QED
        BY <1>7, <4>1, <4>2 DEF WakersAreOwn
    <3> QED
      BY <3>1, <3>2
  <2> QED
    BY <2>1, <2>2 DEF WakersAreOwn
<1>9. SleepersAreRegistered'
  <2> SUFFICES ASSUME NEW u \in Tasks, poll'[u] = "idle", ~woken'[u],
                      state'[Future(u)'] = "waiting"
               PROVE  wakers'[userData'[Future(u)']] = u
    BY DEF SleepersAreRegistered
  <2>1. u # t
    <3> SUFFICES ASSUME u = t PROVE FALSE
      OBVIOUS
    <3>1. current'[t] = current[t]
      BY <1>1
    <3>2. Future(t)' = Future(t)
      BY <3>1 DEF Future
    <3> QED
      BY <1>2, <1>3, <3>2
  <2>2. Future(u)' = Future(u) /\ Future(u) \in Futures /\ Future(u) # Future(t)
    BY <1>1, <2>1, FutureFacts DEF Future
  <2>3. poll[u] = "idle" /\ ~woken[u] /\ state[Future(u)] = "waiting"
    BY <1>1, <1>3, <2>1, <2>2
  <2>4. wakers[userData[Future(u)]] = u /\ userData[Future(u)] # 0
    BY <2>3 DEF SleepersAreRegistered, Phases
  <2>5. userData'[Future(u)] = userData[Future(u)]
    BY <2>2
  <2>6. wakers'[userData[Future(u)]] = wakers[userData[Future(u)]]
    <3>1. CASE how = "ok"
      <4>1. Future(u) \in Taken /\ Future(t) \in Taken
        BY <1>2, <2>2, <2>4, <3>1 DEF Taken
      <4>2. userData[Future(u)] # userData[Future(t)]
        BY <2>2, <4>1 DEF Numbered
      <4>3. userData[Future(u)] \in UserData
        BY <4>1, TypedFacts
      <4> QED
        BY <3>1, <4>2, <4>3 DEF Forget, Typed
    <3>2. CASE how # "ok"
      BY <3>2
    <3> QED
      BY <3>1, <3>2
  <2> QED
    BY <2>2, <2>4, <2>5, <2>6
<1> QED
  BY <1>5, <1>6, <1>8, <1>9

(* The next user_data exists, and has not been given out. *)
LEMMA TakeOpFacts ==
  ASSUME WakerInv, NEW t \in Tasks, TakeOp(t)
  PROVE  /\ nextUserData \in UserData /\ Future(t) \in Futures
         /\ state[Future(t)] = "waiting" /\ userData[Future(t)] = 0
         /\ userData' \in [Futures -> Nat] /\ nextUserData' = nextUserData + 1
         /\ \A f \in Futures :
              userData'[f] = IF f = Future(t) THEN nextUserData ELSE userData[f]
         /\ Numbered'
<1> USE DEF WakerInv
<1>1. Future(t) \in Futures
  BY FutureFacts
<1>2. /\ poll[t] = "submitting"
      /\ userData' = [userData EXCEPT ![Future(t)] = nextUserData]
      /\ nextUserData' = nextUserData + 1
  BY DEF TakeOp, FreshUserData
<1>3. state[Future(t)] = "waiting" /\ userData[Future(t)] = 0
  BY <1>2 DEF Phases
<1>4. nextUserData \in Nat /\ nextUserData # 0
  BY DEF Typed
<1>5. \A f \in Futures :
        userData'[f] = IF f = Future(t) THEN nextUserData ELSE userData[f]
  BY <1>1, <1>2 DEF Typed
<1>6. userData' \in [Futures -> Nat]
  BY <1>1, <1>2, <1>4 DEF Typed
<1>7. Taken' = Taken \cup {Future(t)}
  BY <1>1, <1>4, <1>5 DEF Taken
<1>8. Future(t) \notin Taken
  BY <1>3 DEF Taken
<1>9. IsFiniteSet(Taken') /\ Cardinality(Taken') = nextUserData' - 1
  <2>1. /\ IsFiniteSet(Taken') /\ Cardinality(Taken') = Cardinality(Taken) + 1
    BY <1>7, <1>8, FS_AddElement DEF Numbered
  <2> QED
    BY <1>2, <1>4, <2>1 DEF Numbered
<1>10. nextUserData \in UserData
  <2>1. Taken' \in SUBSET Futures
    BY <1>1, <1>7 DEF Taken
  <2>2. Cardinality(Taken') <= Cardinality(Futures)
    BY <2>1, FuturesFinite, FS_Subset
  <2> QED
    BY <1>2, <1>4, <1>9, <2>2, FuturesFinite DEF UserData
<1>11. \A f \in Taken' : userData'[f] < nextUserData'
  BY <1>1, <1>2, <1>4, <1>5, <1>7 DEF Numbered, Typed, Taken
<1>12. \A f, g \in Taken' : userData'[f] = userData'[g] => f = g
  <2> SUFFICES ASSUME NEW f \in Taken', NEW g \in Taken', userData'[f] = userData'[g]
               PROVE  f = g
    OBVIOUS
  <2>1. \A h \in Taken : h \in Futures /\ userData[h] < nextUserData /\ userData[h] \in Nat
    BY DEF Numbered, Taken, Typed
  <2>2. CASE f = Future(t) \/ g = Future(t)
    BY <1>1, <1>4, <1>5, <1>7, <2>1, <2>2
  <2>3. CASE f # Future(t) /\ g # Future(t)
    BY <1>5, <1>7, <2>1, <2>3 DEF Numbered
  <2> QED
    BY <2>2, <2>3
<1> QED
  BY <1>1, <1>2, <1>3, <1>5, <1>6, <1>9, <1>10, <1>11, <1>12 DEF Numbered

-----------------------------------------------------------------------------
(* get_sqe or submit() fails: the future ends, at whatever point. *)
LEMMA SubmitErrorKeepsInv ==
  ASSUME WakerInv, NEW t \in Tasks, SubmitFull(t) \/ SubmitFails(t)
  PROVE  WakerInv'
<1>1. /\ TakeOp(t) /\ Over(t, "err", NoFuture)
      /\ UNCHANGED <<woken, reader, wakers>>
  BY DEF SubmitFull, SubmitFails, SubmitTakes, driver
<1>2. /\ Future(t) \in Futures
      /\ state[Future(t)] = "waiting" /\ userData[Future(t)] = 0
      /\ userData' \in [Futures -> Nat] /\ nextUserData' = nextUserData + 1
      /\ \A f \in Futures :
           userData'[f] = IF f = Future(t) THEN nextUserData ELSE userData[f]
      /\ Numbered'
  BY <1>1, TakeOpFacts
<1>3. nextUserData' \in Nat \ {0}
  BY <1>2 DEF WakerInv, Typed
<1> QED
  BY <1>1, <1>2, <1>3, OverKeepsInv

(* The other steps with which a future ends. *)
LEMMA OtherEndsKeepInv ==
  ASSUME WakerInv, NEW t \in Tasks, DrainOwn(t) \/ ArmFails(t) \/ Drop(t)
  PROVE  WakerInv'
<1>1. /\ UNCHANGED <<woken, reader, nextUserData, userData>>
      /\ poll[t] \in {"draining", "arming", "idle"}
  BY DEF DrainOwn, ArmFails, Drop, inner, driver
<1>2. state[Future(t)] = "waiting" /\ userData[Future(t)] # 0
  BY <1>1 DEF DrainOwn, ArmFails, Drop, WakerInv, Phases
<1>3. Numbered' /\ nextUserData' \in Nat \ {0} /\ userData' \in [Futures -> Nat]
  BY <1>1 DEF WakerInv, Numbered, Taken, Typed
<1>4. CASE DrainOwn(t)
  <2>1. Over(t, "ok", Head(cq).req) /\ wakers' = Forget(t)
    BY <1>4 DEF DrainOwn
  <2> QED
    BY <1>1, <1>2, <1>3, <2>1, OverKeepsInv
<1>5. CASE ArmFails(t)
  <2>1. Over(t, "err", NoFuture) /\ wakers' = wakers
    BY <1>5 DEF ArmFails, inner
  <2> QED
    BY <1>1, <1>2, <1>3, <2>1, OverKeepsInv
<1>6. CASE Drop(t)
  <2>1. Over(t, "dropped", NoFuture) /\ wakers' = wakers
    BY <1>6 DEF Drop, inner
  <2> QED
    BY <1>1, <1>2, <1>3, <2>1, OverKeepsInv
<1> QED
  BY <1>4, <1>5, <1>6

(* The mutex is granted: the first poll goes on to submit, a later one to    *)
(* drain.                                                                   *)
LEMMA LockKeepsInv == ASSUME WakerInv, NEW t \in Tasks, Lock(t) PROVE WakerInv'
<1> USE DEF WakerInv
<1>1. /\ poll[t] = "locking"
      /\ poll' = [poll EXCEPT ![t] = IF state[Future(t)] = "unborn" THEN "submitting"
                                     ELSE "draining"]
      /\ state' = [state EXCEPT ![Future(t)] = "waiting"]
      /\ UNCHANGED <<wakers, nextUserData, userData, current, woken, reader>>
  BY DEF Lock, inner, driver
<1>2. \A u \in Tasks : Future(u)' = Future(u) /\ Future(u) \in Futures
  BY <1>1, FutureFacts DEF Future
<1>3. \A f \in Futures : state'[f] = IF f = Future(t) THEN "waiting" ELSE state[f]
  BY <1>1, <1>2 DEF Typed
<1>4. \A u \in Tasks \ {t} : poll'[u] = poll[u] /\ Future(u) # Future(t)
  BY <1>1, FutureFacts DEF Typed
<1>5. \/ poll'[t] = "submitting" /\ userData[Future(t)] = 0
      \/ poll'[t] = "draining" /\ userData[Future(t)] # 0
  <2>1. CASE state[Future(t)] = "unborn"
    BY <1>1, <1>2, <2>1 DEF Phases, Typed
  <2>2. CASE state[Future(t)] # "unborn"
    BY <1>1, <1>2, <2>2 DEF Phases, Typed
  <2> QED
    BY <2>1, <2>2
<1>6. Typed'
  BY <1>1, <1>2 DEF Typed
<1>7. Numbered'
  BY <1>1 DEF Numbered, Taken
<1>8. Phases'
  <2>1. ASSUME NEW u \in Tasks, NEW n \in 1 .. OpsPerTask, n > current'[u]
        PROVE  state'[<<u, n>>] = "unborn"
    <3>1. <<u, n>> # Future(t) /\ <<u, n>> \in Futures
      BY <1>1, <2>1 DEF Future, Futures, Typed
    <3> QED
      BY <1>1, <1>3, <2>1, <3>1 DEF Phases
  <2>2. \A f \in Futures : /\ state'[f] = "unborn" => userData'[f] = 0
                           /\ state'[f] = "ok" => userData'[f] # 0
    BY <1>1, <1>3 DEF Phases
  <2> QED
    BY <1>1, <1>2, <1>3, <1>4, <1>5, <2>1, <2>2 DEF Phases
<1>9. WakersAreOwn'
  BY <1>1, <1>3 DEF WakersAreOwn
<1>10. SleepersAreRegistered'
  BY <1>1, <1>2, <1>3, <1>4, <1>5 DEF SleepersAreRegistered
<1> QED
  BY <1>6, <1>7, <1>8, <1>9, <1>10

(* The operation is submitted and the waker inserted, at a user_data that   *)
(* no other future has.                                                     *)
LEMMA SubmitOkKeepsInv == ASSUME WakerInv, NEW t \in Tasks, SubmitOk(t) PROVE WakerInv'
<1> USE DEF WakerInv
<1>1. /\ TakeOp(t) /\ poll[t] = "submitting"
      /\ wakers' = [wakers EXCEPT ![nextUserData] = t]
      /\ poll' = [poll EXCEPT ![t] = "draining"]
      /\ UNCHANGED <<state, current, woken, reader>>
  BY DEF SubmitOk, SubmitTakes, TakeOp, outcome
<1>2. /\ nextUserData \in UserData /\ Future(t) \in Futures
      /\ state[Future(t)] = "waiting" /\ userData[Future(t)] = 0
      /\ userData' \in [Futures -> Nat] /\ nextUserData' = nextUserData + 1
      /\ \A f \in Futures :
           userData'[f] = IF f = Future(t) THEN nextUserData ELSE userData[f]
      /\ Numbered'
  BY <1>1, TakeOpFacts
<1>3. nextUserData \in Nat /\ nextUserData # 0
  BY DEF Typed
<1>4. \A u \in Tasks : Future(u)' = Future(u) /\ Future(u) \in Futures
  BY <1>1, FutureFacts DEF Future
<1>5. \A u \in Tasks \ {t} : poll'[u] = poll[u] /\ Future(u) # Future(t)
  BY <1>1, FutureFacts DEF Typed
<1>6. \A v \in UserData : wakers'[v] = IF v = nextUserData THEN t ELSE wakers[v]
  BY <1>1 DEF Typed
<1>7. \A f \in Taken : userData[f] \in UserData /\ userData[f] # nextUserData
  BY <1>3, TypedFacts DEF Numbered, Taken, Typed
<1>8. Typed'
  BY <1>1, <1>2, <1>3 DEF Typed
<1>9. poll'[t] = "draining"
  BY <1>1 DEF Typed
<1>10. Phases'
  BY <1>1, <1>2, <1>3, <1>4, <1>5, <1>9 DEF Phases
<1>11. WakersAreOwn'
  <2>1. ASSUME NEW v \in UserData, wakers'[v] # NoTask
        PROVE  \E n \in 1 .. OpsPerTask : userData'[<<wakers'[v], n>>] = v
    <3>1. CASE v = nextUserData
      <4>1. current[t] \in 1 .. OpsPerTask /\ userData'[<<t, current[t]>>] = v
        BY <1>2, <3>1 DEF Future, Typed
      <4> QED
        BY <1>6, <3>1, <4>1
    <3>2. CASE v # nextUserData
      <4>1. wakers'[v] = wakers[v] /\ wakers[v] # NoTask /\ wakers[v] \in Tasks
        BY <1>6, <2>1, <3>2 DEF Typed
      <4>2. PICK n \in 1 .. OpsPerTask : userData[<<wakers[v], n>>] = v
        BY <4>1 DEF WakersAreOwn
      <4>3. <<wakers[v], n>> \in Futures /\ v # 0
        BY <4>1, FuturesFinite DEF Futures, UserData
      <4> QED
        BY <1>2, <4>1, <4>2, <4>3
    <3> QED
      BY <3>1, <3>2
  <2>2. ASSUME NEW f \in Futures, state'[f] = "ok" PROVE wakers'[userData'[f]] = NoTask
    <3>1. state[f] = "ok" /\ f # Future(t) /\ userData'[f] = userData[f]
      BY <1>1, <1>2, <2>2
    <3>2. f \in Taken
      BY <3>1 DEF Phases, Taken
    <3> QED
      BY <1>6, <1>7, <3>1, <3>2 DEF WakersAreOwn
  <2> QED
    BY <2>1, <2>2 DEF WakersAreOwn
<1>12. SleepersAreRegistered'
  <2> SUFFICES ASSUME NEW u \in Tasks, poll'[u] = "idle", ~woken'[u],
                      state'[Future(u)'] = "waiting"
               PROVE  wakers'[userData'[Future(u)']] = u
    BY DEF SleepersAreRegistered
  <2>1. u # t
    BY <1>9
  <2>2. /\ Future(u)' = Future(u) /\ Future(u) # Future(t) /\ poll[u] = "idle"
        /\ ~woken[u] /\ state[Future(u)] = "waiting"
    BY <1>1, <1>4, <1>5, <2>1
  <2>3. wakers[userData[Future(u)]] = u /\ Future(u) \in Taken
    BY <1>4, <2>2 DEF SleepersAreRegistered, Phases, Taken
  <2>4. userData'[Future(u)] = userData[Future(u)]
    BY <1>2, <1>4, <2>2
  <2> QED
    BY <1>6, <1>7, <2>2, <2>3, <2>4
<1> QED
  BY <1>2, <1>8, <1>10, <1>11, <1>12

(* Another future's completion is drained: its waker goes, but it is woken. *)
LEMMA DrainOtherKeepsInv == ASSUME WakerInv, NEW t \in Tasks, DrainOther(t) PROVE WakerInv'
<1> DEFINE v == userData[Head(cq).req]
<1> USE DEF WakerInv
<1>1. /\ woken' = IF wakers[v] = NoTask THEN woken ELSE Woken(wakers[v])
      /\ wakers' = [wakers EXCEPT ![v] = NoTask]
      /\ poll[t] = "draining" /\ poll' = [poll EXCEPT ![t] = "draining"]
      /\ UNCHANGED <<nextUserData, userData, state, current, reader>>
  BY DEF DrainOther, PeekAgain, outcome, driver
<1> HIDE DEF v
<1>2. poll' = poll
  BY <1>1 DEF Typed
<1>3. \A w \in UserData : wakers'[w] = IF w = v THEN NoTask ELSE wakers[w]
  BY <1>1 DEF Typed
<1>4. \A u \in Tasks : Future(u)' = Future(u) /\ Future(u) \in Futures
  BY <1>1, FutureFacts DEF Future
<1>5. woken' \in [Tasks -> BOOLEAN]
  BY <1>1 DEF Typed, Woken
<1>6. \A u \in Tasks : ~woken'[u] => ~woken[u] /\ wakers[v] # u
  BY <1>1, TokioAssumption DEF Typed, Woken
<1>7. Typed'
  BY <1>1, <1>2, <1>5 DEF Typed
<1>8. Numbered'
  BY <1>1 DEF Numbered, Taken
<1>9. Phases'
  BY <1>1, <1>2, <1>4 DEF Phases
<1>10. WakersAreOwn'
  <2>1. ASSUME NEW f \in Futures, state'[f] = "ok" PROVE wakers'[userData'[f]] = NoTask
    <3>1. wakers[userData[f]] = NoTask /\ userData[f] \in UserData
      BY <1>1, <2>1, TypedFacts DEF WakersAreOwn, Phases, Taken
    <3> QED
      BY <1>1, <1>3, <3>1
  <2> QED
    BY <1>1, <1>3, <2>1 DEF WakersAreOwn
<1>11. SleepersAreRegistered'
  <2> SUFFICES ASSUME NEW u \in Tasks, poll'[u] = "idle", ~woken'[u],
                      state'[Future(u)'] = "waiting"
               PROVE  wakers'[userData'[Future(u)']] = u
    BY DEF SleepersAreRegistered
  <2>1. /\ Future(u)' = Future(u) /\ poll[u] = "idle" /\ ~woken[u] /\ wakers[v] # u
        /\ state[Future(u)] = "waiting"
    BY <1>1, <1>2, <1>4, <1>6
  <2>2. wakers[userData[Future(u)]] = u /\ userData[Future(u)] \in UserData
    BY <1>4, <2>1, TypedFacts DEF SleepersAreRegistered, Phases, Taken
  <2> QED
    BY <1>1, <1>3, <2>1, <2>2
<1> QED
  BY <1>7, <1>8, <1>9, <1>10, <1>11

(* The task goes to sleep with its waker registered. *)
LEMMA ArmKeepsInv == ASSUME WakerInv, NEW t \in Tasks, Arm(t) PROVE WakerInv'
<1> DEFINE v == userData[Future(t)]
<1> USE DEF WakerInv
<1>1. /\ poll[t] = "arming" /\ poll' = [poll EXCEPT ![t] = "idle"]
      /\ wakers' = [wakers EXCEPT ![v] = t]
      /\ reader' \in Tasks \cup {NoTask}
      /\ UNCHANGED <<nextUserData, userData, state, current, woken>>
  BY DEF Arm, Register, Reader, outcome, Typed
<1>2. \A u \in Tasks : Future(u)' = Future(u) /\ Future(u) \in Futures
  BY <1>1, FutureFacts DEF Future
<1>3. \A u \in Tasks \ {t} : poll'[u] = poll[u] /\ Future(u) # Future(t)
  BY <1>1, FutureFacts DEF Typed
<1>4. state[Future(t)] = "waiting" /\ Future(t) \in Taken
  BY <1>1, <1>2 DEF Phases, Taken
<1>5. v \in UserData
  BY <1>4, TypedFacts
<1>6. \A f \in Taken \ {Future(t)} : userData[f] # v
  BY <1>4 DEF Numbered
<1>7. current[t] \in 1 .. OpsPerTask /\ userData[<<t, current[t]>>] = v
  BY DEF Future, Typed
<1> HIDE DEF v
<1>8. \A w \in UserData : wakers'[w] = IF w = v THEN t ELSE wakers[w]
  BY <1>1 DEF Typed
<1>9. Typed'
  BY <1>1 DEF Typed
<1>10. Numbered'
  BY <1>1 DEF Numbered, Taken
<1>11. Phases'
  <2>1. poll'[t] = "idle"
    BY <1>1 DEF Typed
  <2> QED
    BY <1>1, <1>2, <1>3, <1>4, <2>1 DEF Phases, Taken
<1>12. WakersAreOwn'
  <2>1. ASSUME NEW w \in UserData, wakers'[w] # NoTask
        PROVE  \E n \in 1 .. OpsPerTask : userData'[<<wakers'[w], n>>] = w
    <3>1. CASE w = v
      BY <1>1, <1>7, <1>8, <3>1
    <3>2. CASE w # v
      BY <1>1, <1>8, <2>1, <3>2 DEF WakersAreOwn
    <3> QED
      BY <3>1, <3>2
  <2>2. ASSUME NEW f \in Futures, state'[f] = "ok" PROVE wakers'[userData'[f]] = NoTask
    <3>1. f \in Taken /\ f # Future(t) /\ wakers[userData[f]] = NoTask
      BY <1>1, <1>4, <2>2 DEF WakersAreOwn, Phases, Taken
    <3> QED
      BY <1>1, <1>6, <1>8, <3>1, TypedFacts
  <2> QED
    BY <2>1, <2>2 DEF WakersAreOwn
<1>13. SleepersAreRegistered'
  <2> SUFFICES ASSUME NEW u \in Tasks, poll'[u] = "idle", ~woken'[u],
                      state'[Future(u)'] = "waiting"
               PROVE  wakers'[userData'[Future(u)']] = u
    BY DEF SleepersAreRegistered
  <2>1. CASE u = t
    BY <1>1, <1>2, <1>5, <1>8, <2>1 DEF v
  <2>2. CASE u # t
    <3>1. /\ Future(u)' = Future(u) /\ Future(u) # Future(t) /\ poll[u] = "idle"
          /\ ~woken[u] /\ state[Future(u)] = "waiting"
      BY <1>1, <1>2, <1>3, <2>2
    <3>2. wakers[userData[Future(u)]] = u /\ Future(u) \in Taken
      BY <1>2, <3>1 DEF SleepersAreRegistered, Phases, Taken
    <3> QED
      BY <1>1, <1>6, <1>8, <3>1, <3>2, TypedFacts
  <2> QED
    BY <2>1, <2>2
<1> QED
  BY <1>9, <1>10, <1>11, <1>12, <1>13

(* The steps that change neither the map nor a future. *)
LEMMA OutsideStepsKeepInv ==
  ASSUME WakerInv,
         \/ \E t \in Tasks : TaskPoll(t) \/ DrainedAll(t)
         \/ \E f \in Futures : Complete(f)
         \/ EpollWait \/ Dispatch \/ StopDriver
  PROVE  WakerInv'
<1> USE DEF WakerInv
<1>1. CASE \E t \in Tasks : TaskPoll(t)
  <2>1. PICK t \in Tasks : TaskPoll(t)
    BY <1>1
  <2>2. state[Future(t)] \in {"unborn", "waiting"}
    BY <2>1, FutureFacts DEF TaskPoll, Finished, Typed
  <2>3. /\ UNCHANGED <<wakers, nextUserData, userData, state, current>>
        /\ poll' \in [Tasks -> {"idle", "locking", "submitting", "draining", "arming"}]
        /\ woken' \in [Tasks -> BOOLEAN] /\ reader' \in Tasks \cup {NoTask}
        /\ poll[t] = "idle" /\ poll'[t] = "locking"
        /\ \A u \in Tasks \ {t} : poll'[u] = poll[u] /\ woken'[u] = woken[u]
    BY <2>1 DEF TaskPoll, Typed, inner, outcome, driver
  <2> QED
    BY <2>2, <2>3, StepOutsideInner
<1>2. CASE \E t \in Tasks : DrainedAll(t)
  <2>1. PICK t \in Tasks : DrainedAll(t)
    BY <1>2
  <2>2. /\ UNCHANGED <<wakers, nextUserData, userData, state, current>>
        /\ poll' \in [Tasks -> {"idle", "locking", "submitting", "draining", "arming"}]
        /\ woken' = woken /\ reader' = reader
        /\ poll[t] = "draining" /\ poll'[t] = "arming"
        /\ \A u \in Tasks \ {t} : poll'[u] = poll[u]
    BY <2>1 DEF DrainedAll, Typed, inner, outcome, driver
  <2> QED
    BY <2>2, StepOutsideInner DEF Typed
<1>3. CASE \/ \E f \in Futures : Complete(f)
           \/ EpollWait \/ Dispatch \/ StopDriver
  <2>1. /\ UNCHANGED <<wakers, nextUserData, userData, state, current, poll>>
        /\ reader' \in Tasks \cup {NoTask}
        /\ \/ woken' = woken
           \/ woken' = Woken(reader)
    BY <1>3 DEF Complete, EpollWait, Dispatch, StopDriver, inner, outcome, Typed
  <2>2. woken' \in [Tasks -> BOOLEAN] /\ \A u \in Tasks : woken[u] => woken'[u]
    BY <2>1 DEF Typed, Woken
  <2> QED
    BY <2>1, <2>2, StepOutsideInner DEF Typed
<1> QED
  BY <1>1, <1>2, <1>3

(* WakerInv survives every step. *)
LEMMA NextWakerInv == WakerInv /\ [Next]_<<program, vars>> => WakerInv'
<1> SUFFICES ASSUME WakerInv, [Next]_<<program, vars>> PROVE WakerInv'
  OBVIOUS
<1>1. ASSUME NEW t \in Tasks, TaskPoll(t) \/ Lock(t) \/ PollStep(t) \/ Drop(t)
      PROVE  WakerInv'
  BY <1>1, OutsideStepsKeepInv, LockKeepsInv, SubmitErrorKeepsInv, SubmitOkKeepsInv,
    OtherEndsKeepInv, DrainOtherKeepsInv, ArmKeepsInv
  DEF PollStep
<1>2. CASE \/ \E f \in Futures : Complete(f)
           \/ EpollWait \/ Dispatch \/ StopDriver
  BY <1>2, OutsideStepsKeepInv
<1>3. CASE UNCHANGED <<program, vars>>
  <2>1. UNCHANGED <<wakers, nextUserData, userData, state, current, poll, woken, reader>>
    BY <1>3 DEF vars, inner, outcome, driver
  <2> QED
    BY <2>1, StepOutsideInner DEF WakerInv, Typed
<1> QED
  BY <1>1, <1>2, <1>3 DEF Next

-----------------------------------------------------------------------------
(* WakerInv is an invariant of the tasks that share an AsyncIoUring. *)
THEOREM WakerInvariant == Spec => []WakerInv
<1>1. Init => WakerInv
  BY InitWakerInv
<1>2. WakerInv /\ [Next]_<<program, vars>> => WakerInv'
  BY NextWakerInv
<1> QED
  BY <1>1, <1>2, PTL DEF Spec

(* A waker in the map belongs to the task that awaits that user_data, and    *)
(* none is left of a future that resolved Ok.                               *)
THEOREM WakersStayOwn == Spec => []WakersAreOwn
<1>1. WakerInv => WakersAreOwn
  BY DEF WakerInv
<1> QED
  BY <1>1, WakerInvariant, PTL

(* A task that sleeps on a pending future is in the map, for whoever drains *)
(* its completion.                                                          *)
THEOREM SleepersStayRegistered == Spec => []SleepersAreRegistered
<1>1. WakerInv => SleepersAreRegistered
  BY DEF WakerInv
<1> QED
  BY <1>1, WakerInvariant, PTL

(* No two futures are ever given the same user_data, and each that submits  *)
(* one finds the counter within its range.                                  *)
THEOREM UserDataIsUnique ==
  Spec => [](\A f, g \in Futures : userData[f] # 0 /\ userData[f] = userData[g] => f = g)
<1>1. WakerInv => (\A f, g \in Futures : userData[f] # 0 /\ userData[f] = userData[g] => f = g)
  BY DEF WakerInv, Numbered, Taken
<1> QED
  BY <1>1, WakerInvariant, PTL
-----------------------------------------------------------------------------
(* What the refinement rests on besides: the ring holds operations that     *)
(* were submitted, each in one place, the kernel has carried out those that *)
(* it completed and no other, and only an Ok future returned a result.      *)
RingInv ==
  /\ sq \in Seq(Futures) /\ Distinct(sq) /\ Range(sq) \subseteq Taken
  /\ inflight \subseteq Taken /\ executed \subseteq Taken
  /\ Range(sq) \cap inflight = {} /\ (Range(sq) \cup inflight) \cap executed = {}
  /\ cq \in Seq(Queues!Cqes) /\ Completed(cq) \subseteq executed

OnlyOkReturns ==
  /\ got \in [Futures -> Futures \cup {NoFuture}]
  /\ \A f \in Futures : state[f] # "ok" => got[f] = NoFuture

Settings ==
  /\ program \in Programs
  /\ {ready, edge, event, stopped} \subseteq BOOLEAN

(* The mutex: one task is between the lines of a poll, at most. *)
OneLocked == \A t, u \in Tasks : Locked(t) /\ Locked(u) => t = u

(* When every operation completes inside submit(), what a poll has put into *)
(* the ring and the map is its own, and is taken out before it returns.     *)
CalmInv ==
  Calm =>
    /\ sq = <<>> /\ inflight = {} /\ ~stopped
    /\ \A t \in Tasks :
         /\ poll[t] # "arming"
         /\ state[Future(t)] = "waiting" => poll[t] \in {"submitting", "draining"}
         /\ poll[t] = "draining" => Len(cq) = 1 /\ cq[1].req = Future(t)
    /\ (\A t \in Tasks : poll[t] # "draining") => cq = <<>>
    /\ \A u \in UserData :
         wakers[u] # NoTask =>
           poll[wakers[u]] = "draining" /\ userData[Future(wakers[u])] = u

SharedInv == WakerInv /\ RingInv /\ OnlyOkReturns /\ Settings /\ OneLocked /\ CalmInv

-----------------------------------------------------------------------------
(* The queue that submit() hands over ends with the operation of this poll; *)
(* the kernel takes the k oldest entries, and completes some of them.       *)
LEMMA TakesFacts ==
  ASSUME WakerInv, RingInv, NEW t \in Tasks, TakeOp(t), NEW k \in Nat, SubmitTakes(t, k)
  PROVE  \E queue, rest, taken :
           /\ queue \in Seq(Futures) /\ rest \in Seq(Futures)
           /\ queue = Append(sq, Future(t)) /\ Len(queue) = Len(sq) + 1
           /\ k \in 0 .. Len(queue) /\ taken = Oldest(queue, k)
           /\ Future(t) \notin Taken /\ Taken' = Taken \cup {Future(t)}
           /\ Range(rest) \cup taken = Range(sq) \cup {Future(t)}
           /\ Distinct(rest) /\ taken \cap Range(rest) = {}
           /\ sq' = rest
           /\ inflight' = inflight \cup (taken \cap program.slow)
           /\ executed' = executed \cup (taken \ program.slow)
<1> DEFINE queue == Append(sq, Future(t))
           taken == Oldest(queue, k)
           rest  == Rest(queue, k)
<1>1. /\ Future(t) \in Futures /\ userData[Future(t)] = 0 /\ nextUserData \in UserData
      /\ \A f \in Futures :
           userData'[f] = IF f = Future(t) THEN nextUserData ELSE userData[f]
  BY TakeOpFacts
<1>2. Future(t) \notin Taken /\ Taken' = Taken \cup {Future(t)}
  BY <1>1, FuturesFinite DEF Taken, UserData
<1>3. /\ queue \in Seq(Futures) /\ Len(queue) = Len(sq) + 1
      /\ Distinct(queue) /\ Range(queue) = Range(sq) \cup {Future(t)}
  BY <1>1, <1>2, AppendNew DEF RingInv
<1>4. /\ k \in 0 .. Len(queue)
      /\ sq' = rest
      /\ inflight' = inflight \cup (taken \cap program.slow)
      /\ executed' = executed \cup (taken \ program.slow)
  BY <1>3 DEF SubmitTakes, Oldest, Rest
<1>5. queue = Append(sq, Future(t)) /\ taken = Oldest(queue, k)
  OBVIOUS
<1> HIDE DEF queue
<1>6. IsFiniteSet({}) /\ {} \cap Range(queue) = {}
  BY FS_EmptySet
<1>7. /\ rest \in Seq(Futures) /\ Distinct(rest)
      /\ ({} \cup taken) \cap Range(rest) = {}
      /\ Range(rest) \cup taken = Range(queue)
  BY <1>3, <1>4, <1>6, TakeFirst
<1> HIDE DEF taken, rest
<1>8. taken \cap Range(rest) = {} /\ Range(rest) \cup taken = Range(sq) \cup {Future(t)}
  BY <1>3, <1>7
<1> QED
  BY <1>2, <1>3, <1>4, <1>5, <1>7, <1>8

(* The completions posted inside submit() are of operations that it has     *)
(* carried out, in the order of the queue.                                  *)
LEMMA InlineFacts ==
  ASSUME NEW t \in Tasks, NEW k \in Nat, SubmitTakes(t, k),
         NEW queue \in Seq(Futures), queue = Append(sq, Future(t)), k \in 0 .. Len(queue)
  PROVE  \E posted \in Seq(Queues!Cqes) :
           /\ cq' = cq \o posted
           /\ \A i \in 1 .. Len(posted) :
                posted[i].req \in Oldest(queue, k) \ program.slow
           /\ Len(posted) = Cardinality({i \in 1 .. k : queue[i] \notin program.slow})
<1> DEFINE fast == {i \in 1 .. k : queue[i] \notin program.slow}
           n == Cardinality(fast)
<1>1. PICK order \in [1 .. n -> fast] :
        cq' = cq \o [i \in DOMAIN order |-> [req |-> queue[order[i]], res |-> 0]]
  BY DEF SubmitTakes
<1> DEFINE posted == [i \in DOMAIN order |-> [req |-> queue[order[i]], res |-> 0]]
<1>2. IsFiniteSet(1 .. k) /\ fast \in SUBSET (1 .. k)
  BY FS_Interval
<1>3. n \in Nat
  BY <1>2, FS_Subset, FS_CardinalityType
<1>4. \A i \in 1 .. n : order[i] \in 1 .. k /\ queue[order[i]] \notin program.slow
  BY <1>1
<1>5. \A j \in 1 .. k : queue[j] \in Futures /\ queue[j] \in Oldest(queue, k)
  BY ElementOfSeq DEF Oldest
<1>6. posted \in [1 .. n -> Queues!Cqes]
  BY <1>1, <1>4, <1>5 DEF Queues!Cqes
<1>7. \A i \in 1 .. n : posted[i].req \in Oldest(queue, k) \ program.slow
  BY <1>1, <1>4, <1>5
<1>8. cq' = cq \o posted
  BY <1>1
<1> HIDE DEF n, posted
<1>9. posted \in Seq(Queues!Cqes) /\ Len(posted) = n
  BY <1>3, <1>6
<1> QED
  BY <1>7, <1>8, <1>9 DEF n

(* The kernel takes entries and completes some: RingInv survives. *)
LEMMA TakesKeepsRing ==
  ASSUME WakerInv, RingInv, NEW t \in Tasks, TakeOp(t), NEW k \in Nat, SubmitTakes(t, k)
  PROVE  RingInv'
<1>1. PICK queue, rest, taken :
        /\ queue \in Seq(Futures) /\ rest \in Seq(Futures)
        /\ queue = Append(sq, Future(t)) /\ k \in 0 .. Len(queue) /\ taken = Oldest(queue, k)
        /\ Future(t) \notin Taken /\ Taken' = Taken \cup {Future(t)}
        /\ Range(rest) \cup taken = Range(sq) \cup {Future(t)}
        /\ Distinct(rest) /\ taken \cap Range(rest) = {}
        /\ sq' = rest
        /\ inflight' = inflight \cup (taken \cap program.slow)
        /\ executed' = executed \cup (taken \ program.slow)
  BY TakesFacts
<1>2. PICK posted \in Seq(Queues!Cqes) :
        /\ cq' = cq \o posted
        /\ \A i \in 1 .. Len(posted) : posted[i].req \in taken \ program.slow
  BY <1>1, InlineFacts
<1>3. cq \in Seq(Queues!Cqes) /\ Completed(cq) \subseteq executed
  BY DEF RingInv
<1>4. cq' \in Seq(Queues!Cqes) /\ Range(cq') = Range(cq) \cup Range(posted)
  BY <1>2, <1>3, ConcatProperties, RangeConcatenation
<1>5. \A c \in Range(posted) : c.req \in taken \ program.slow
  BY <1>2, InRange
<1>6. Completed(cq)' \subseteq executed'
  <2>1. \A c \in Range(cq) : c.req \in executed
    BY <1>3 DEF Completed
  <2> QED
    BY <1>1, <1>4, <1>5, <2>1 DEF Completed
<1>7. /\ Range(sq) \subseteq Taken /\ inflight \subseteq Taken /\ executed \subseteq Taken
      /\ Range(sq) \cap inflight = {} /\ (Range(sq) \cup inflight) \cap executed = {}
  BY DEF RingInv
<1>8. taken \cap inflight = {} /\ taken \cap executed = {}
  BY <1>1, <1>7
<1>9. Range(rest) \cap inflight = {} /\ Range(rest) \cap executed = {}
  BY <1>1, <1>7
<1>10. Range(rest) \subseteq Taken' /\ taken \subseteq Taken'
  BY <1>1, <1>7
<1>11. /\ Range(sq)' \subseteq Taken' /\ inflight' \subseteq Taken' /\ executed' \subseteq Taken'
  BY <1>1, <1>7, <1>10
<1>12. Range(sq)' \cap inflight' = {} /\ Range(sq)' \cap executed' = {}
  BY <1>1, <1>9
<1>13. inflight' \cap executed' = {}
  BY <1>1, <1>7, <1>8
<1>14. sq' \in Seq(Futures) /\ Distinct(sq)'
  BY <1>1 DEF Distinct
<1> QED
  BY <1>4, <1>6, <1>11, <1>12, <1>13, <1>14 DEF RingInv

(* A completion is reaped: nothing else of the ring changes. *)
LEMMA ReapKeepsRing ==
  ASSUME RingInv, Queues!Reap, UNCHANGED <<executed, userData>>
  PROVE  /\ RingInv'
         /\ Head(cq) \in Range(cq) /\ Head(cq).req \in executed
<1>1. cq # <<>> /\ cq' = Tail(cq) /\ UNCHANGED <<sq, inflight, executed, userData>>
  BY DEF Queues!Reap
<1>2. cq \in Seq(Queues!Cqes) /\ Completed(cq) \subseteq executed
  BY DEF RingInv
<1>3. /\ cq' \in Seq(Queues!Cqes) /\ Range(cq') \subseteq Range(cq)
      /\ Head(cq) \in Range(cq)
  BY <1>1, <1>2, RangeTail
<1>4. Completed(cq)' \subseteq executed' /\ Head(cq).req \in executed
  BY <1>1, <1>2, <1>3 DEF Completed
<1>5. Taken' = Taken /\ Distinct(sq)' = Distinct(sq)
  BY <1>1 DEF Taken, Distinct
<1> QED
  BY <1>1, <1>3, <1>4, <1>5 DEF RingInv

(* An operation the kernel holds is completed, for the first time. *)
LEMMA CompleteKeepsRing ==
  ASSUME RingInv, NEW f \in Futures, Complete(f)
  PROVE  RingInv' /\ f \in Taken /\ f \notin executed
<1> DEFINE c == [req |-> f, res |-> 0]
<1>1. /\ f \in inflight /\ inflight' = inflight \ {f}
      /\ cq' = Append(cq, c) /\ sq' = sq
      /\ executed' = executed \cup {f}
      /\ userData' = userData
  BY DEF Complete, Queues!Complete, inner
<1>2. c \in Queues!Cqes /\ c.req = f
  BY DEF Queues!Cqes
<1> HIDE DEF c
<1>3. /\ cq \in Seq(Queues!Cqes) /\ Completed(cq) \subseteq executed
      /\ Range(sq) \subseteq Taken /\ inflight \subseteq Taken /\ executed \subseteq Taken
      /\ Range(sq) \cap inflight = {} /\ (Range(sq) \cup inflight) \cap executed = {}
  BY DEF RingInv
<1>4. cq' \in Seq(Queues!Cqes) /\ Range(cq') = Range(cq) \cup {c}
  BY <1>1, <1>2, <1>3, AppendRange
<1>5. Completed(cq)' \subseteq executed'
  BY <1>1, <1>2, <1>3, <1>4 DEF Completed
<1>6. Taken' = Taken /\ Distinct(sq)' = Distinct(sq) /\ Range(sq)' = Range(sq)
  BY <1>1 DEF Taken, Distinct
<1>7. /\ inflight' \subseteq Taken /\ executed' \subseteq Taken
      /\ Range(sq) \cap inflight' = {} /\ (Range(sq) \cup inflight') \cap executed' = {}
  BY <1>1, <1>3
<1>8. f \in Taken /\ f \notin executed
  BY <1>1, <1>3
<1> QED
  BY <1>1, <1>4, <1>5, <1>6, <1>7, <1>8 DEF RingInv

(* A step that leaves the ring alone, and may give out a user_data. *)
LEMMA OtherStepKeepsRing ==
  ASSUME RingInv, UNCHANGED ring, Taken \subseteq Taken'
  PROVE  RingInv'
<1>1. UNCHANGED <<sq, inflight, cq, executed>>
  BY DEF ring
<1> QED
  BY <1>1 DEF RingInv, Distinct, Completed

(* RingInv survives every step. *)
LEMMA NextRingInv ==
  ASSUME WakerInv, WakerInv', RingInv, [Next]_<<program, vars>>
  PROVE  RingInv'
<1>1. ASSUME UNCHANGED ring, UNCHANGED userData PROVE RingInv'
  BY <1>1, OtherStepKeepsRing DEF Taken
<1>2. ASSUME NEW t \in Tasks, TaskPoll(t) \/ Lock(t) \/ Drop(t) PROVE RingInv'
  BY <1>1, <1>2 DEF TaskPoll, Lock, Drop, inner
<1>3. ASSUME NEW t \in Tasks, DrainedAll(t) \/ ArmFails(t) \/ Arm(t) PROVE RingInv'
  BY <1>1, <1>3 DEF DrainedAll, ArmFails, Arm, inner
<1>4. ASSUME NEW t \in Tasks, SubmitFull(t) PROVE RingInv'
  <2>1. TakeOp(t) /\ UNCHANGED ring
    BY <1>4 DEF SubmitFull
  <2>2. /\ Future(t) \in Futures /\ userData[Future(t)] = 0
        /\ \A f \in Futures :
             userData'[f] = IF f = Future(t) THEN nextUserData ELSE userData[f]
    BY <2>1, TakeOpFacts
  <2>3. Taken \subseteq Taken'
    BY <2>2 DEF Taken
  <2> QED
    BY <2>1, <2>3, OtherStepKeepsRing
<1>5. ASSUME NEW t \in Tasks, SubmitFails(t) PROVE RingInv'
  BY <1>5, TakesKeepsRing DEF SubmitFails
<1>6. ASSUME NEW t \in Tasks, SubmitOk(t) PROVE RingInv'
  <2>1. PICK k \in 1 .. SqEntries : SubmitTakes(t, k)
    BY <1>6 DEF SubmitOk
  <2>2. k \in Nat /\ TakeOp(t)
    BY <1>6, TokioAssumption DEF SubmitOk
  <2> QED
    BY <2>1, <2>2, TakesKeepsRing
<1>7. ASSUME NEW t \in Tasks, DrainOwn(t) \/ DrainOther(t) PROVE RingInv'
  <2>1. Queues!Reap /\ UNCHANGED <<executed, userData>>
    BY <1>7 DEF DrainOwn, DrainOther
  <2> QED
    BY <2>1, ReapKeepsRing
<1>8. ASSUME NEW f \in Futures, Complete(f) PROVE RingInv'
  BY <1>8, CompleteKeepsRing
<1>9. ASSUME EpollWait \/ Dispatch \/ StopDriver PROVE RingInv'
  BY <1>1, <1>9 DEF EpollWait, Dispatch, StopDriver, inner
<1>10. ASSUME UNCHANGED <<program, vars>> PROVE RingInv'
  BY <1>1, <1>10 DEF vars, inner
<1> QED
  BY <1>2, <1>3, <1>4, <1>5, <1>6, <1>7, <1>8, <1>9, <1>10 DEF Next, PollStep

-----------------------------------------------------------------------------
(* A drained completion that passes for one's own is one's own: no other    *)
(* future has that user_data.                                               *)
LEMMA OwnIsOwn ==
  ASSUME WakerInv, RingInv, NEW t \in Tasks, poll[t] = "draining", cq # <<>>
  PROVE  /\ Head(cq).req \in Futures /\ Head(cq).req \in Taken /\ Head(cq).req \in executed
         /\ OwnCqe(t) <=> Head(cq).req = Future(t)
<1>1. /\ cq \in Seq(Queues!Cqes) /\ Completed(cq) \subseteq executed /\ executed \subseteq Taken
  BY DEF RingInv
<1>2. Head(cq) \in Range(cq)
  BY <1>1, RangeTail
<1>3. Head(cq).req \in executed /\ Head(cq).req \in Taken
  BY <1>1, <1>2 DEF Completed
<1>4. state[Future(t)] = "waiting" /\ userData[Future(t)] # 0 /\ Future(t) \in Futures
  BY FutureFacts DEF WakerInv, Phases
<1>5. Future(t) \in Taken
  BY <1>4 DEF Taken
<1>6. OwnCqe(t) => Head(cq).req = Future(t)
  BY <1>3, <1>5 DEF OwnCqe, WakerInv, Numbered
<1> QED
  BY <1>3, <1>6 DEF OwnCqe, Taken

(* The result of a future is set when it resolves Ok, and by nothing else. *)
LEMMA NextReturns ==
  ASSUME WakerInv, RingInv, OnlyOkReturns, [Next]_<<program, vars>>
  PROVE  OnlyOkReturns'
<1>1. /\ state \in [Futures -> {"unborn", "waiting", "ok", "err", "dropped"}]
      /\ \A t \in Tasks : Future(t) \in Futures
  BY FutureFacts DEF WakerInv, Typed
<1>2. ASSUME UNCHANGED <<state, got>> PROVE OnlyOkReturns'
  BY <1>2 DEF OnlyOkReturns
<1>3. ASSUME NEW t \in Tasks, NEW how \in {"err", "dropped"}, Over(t, how, NoFuture)
      PROVE  OnlyOkReturns'
  <2>1. /\ state' = [state EXCEPT ![Future(t)] = how]
        /\ got' = [got EXCEPT ![Future(t)] = NoFuture]
    BY <1>3 DEF Over
  <2> QED
    BY <1>1, <2>1 DEF OnlyOkReturns
<1>4. ASSUME NEW t \in Tasks, DrainOwn(t) PROVE OnlyOkReturns'
  <2>1. Head(cq).req \in Futures
    BY <1>4, OwnIsOwn DEF DrainOwn, OwnCqe
  <2>2. /\ state' = [state EXCEPT ![Future(t)] = "ok"]
        /\ got' = [got EXCEPT ![Future(t)] = Head(cq).req]
    BY <1>4 DEF DrainOwn, Over
  <2> QED
    BY <1>1, <2>1, <2>2 DEF OnlyOkReturns
<1>5. ASSUME NEW t \in Tasks, Lock(t) PROVE OnlyOkReturns'
  <2>1. state' = [state EXCEPT ![Future(t)] = "waiting"] /\ got' = got
    BY <1>5 DEF Lock
  <2>2. state[Future(t)] # "ok"
    BY <1>5 DEF Lock, WakerInv, Phases
  <2> QED
    BY <1>1, <2>1, <2>2 DEF OnlyOkReturns
<1>6. ASSUME NEW t \in Tasks, SubmitFull(t) \/ SubmitFails(t) \/ ArmFails(t) \/ Drop(t)
      PROVE  OnlyOkReturns'
  BY <1>3, <1>6 DEF SubmitFull, SubmitFails, ArmFails, Drop
<1>7. ASSUME NEW t \in Tasks, TaskPoll(t) \/ SubmitOk(t) \/ DrainOther(t) \/ DrainedAll(t) \/ Arm(t)
      PROVE  OnlyOkReturns'
  BY <1>2, <1>7 DEF TaskPoll, SubmitOk, DrainOther, DrainedAll, Arm, outcome
<1>8. CASE \/ \E f \in Futures : Complete(f)
           \/ EpollWait \/ Dispatch \/ StopDriver \/ UNCHANGED <<program, vars>>
  BY <1>2, <1>8 DEF Complete, EpollWait, Dispatch, StopDriver, vars, outcome
<1> QED
  BY <1>4, <1>5, <1>6, <1>7, <1>8 DEF Next, PollStep

(* What a step may change of the program and the driver. *)
LEMMA NextSettings ==
  ASSUME Settings, RingInv, [Next]_<<program, vars>>
  PROVE  Settings'
<1>1. program' = program
  BY DEF Next
<1>2. {ready', edge', event', stopped'} \subseteq BOOLEAN
  <2>1. ASSUME UNCHANGED driver PROVE {ready', edge', event', stopped'} \subseteq BOOLEAN
    BY <2>1 DEF Settings, driver
  <2>2. ASSUME NEW t \in Tasks, NEW k, SubmitTakes(t, k)
        PROVE  {ready', edge', event', stopped'} \subseteq BOOLEAN
    BY <2>2 DEF SubmitTakes, Settings
  <2>3. ASSUME NEW t \in Tasks, TaskPoll(t) \/ Lock(t) \/ PollStep(t) \/ Drop(t)
        PROVE  {ready', edge', event', stopped'} \subseteq BOOLEAN
    <3>1. CASE \/ TaskPoll(t) \/ Lock(t) \/ SubmitFull(t) \/ DrainOwn(t) \/ DrainOther(t)
               \/ DrainedAll(t) \/ ArmFails(t) \/ Drop(t)
      BY <2>1, <3>1 DEF TaskPoll, Lock, SubmitFull, DrainOwn, DrainOther, DrainedAll,
        ArmFails, Drop
    <3>2. CASE SubmitFails(t) \/ SubmitOk(t)
      BY <2>2, <3>2 DEF SubmitFails, SubmitOk
    <3>3. CASE Arm(t)
      BY <3>3 DEF Arm, Settings
    <3> QED
      BY <2>3, <3>1, <3>2, <3>3 DEF PollStep
  <2>4. CASE \/ \E f \in Futures : Complete(f)
             \/ EpollWait \/ Dispatch \/ StopDriver
    BY <2>4 DEF Complete, EpollWait, Dispatch, StopDriver, Settings
  <2>5. CASE UNCHANGED <<program, vars>>
    BY <2>1, <2>5 DEF vars
  <2> QED
    BY <2>3, <2>4, <2>5 DEF Next
<1> QED
  BY <1>1, <1>2 DEF Settings

(* A step of task t, or of none: no other task is locked or unlocked, and t *)
(* is locked only by way of the mutex.                                      *)
LEMMA StepKeepsOneLocked ==
  ASSUME OneLocked, NEW t \in Tasks,
         \A u \in Tasks \ {t} : poll'[u] = poll[u],
         Locked(t)' => Locked(t) \/ Unlocked
  PROVE  OneLocked'
<1>1. \A u \in Tasks \ {t} : Locked(u)' <=> Locked(u)
  BY DEF Locked
<1>2. Unlocked => \A u \in Tasks : ~Locked(u)
  BY DEF Unlocked
<1> QED
  BY <1>1, <1>2 DEF OneLocked

(* The mutex excludes, at every step. *)
LEMMA NextOneLocked ==
  ASSUME WakerInv, OneLocked, [Next]_<<program, vars>>
  PROVE  OneLocked'
<1>1. poll \in [Tasks -> {"idle", "locking", "submitting", "draining", "arming"}]
  BY DEF WakerInv, Typed
<1>2. ASSUME NEW t \in Tasks, Lock(t) PROVE OneLocked'
  <2>1. Unlocked /\ \A u \in Tasks \ {t} : poll'[u] = poll[u]
    BY <1>1, <1>2 DEF Lock
  <2> QED
    BY <2>1, StepKeepsOneLocked
<1>3. ASSUME NEW t \in Tasks, NEW to, poll' = [poll EXCEPT ![t] = to],
             to \in {"idle", "locking"} \/ Locked(t)
      PROVE  OneLocked'
  <2>1. \A u \in Tasks \ {t} : poll'[u] = poll[u]
    BY <1>1, <1>3
  <2>2. Locked(t)' => Locked(t)
    BY <1>1, <1>3 DEF Locked
  <2> QED
    BY <2>1, <2>2, StepKeepsOneLocked
<1>4. ASSUME NEW t \in Tasks, NEW how, NEW of, Over(t, how, of) PROVE OneLocked'
  <2>1. \/ poll' = [poll EXCEPT ![t] = "locking"]
        \/ poll' = [poll EXCEPT ![t] = "idle"]
    BY <1>4 DEF Over
  <2> QED
    BY <1>3, <2>1
<1>5. ASSUME NEW t \in Tasks,
             SubmitFull(t) \/ SubmitFails(t) \/ DrainOwn(t) \/ ArmFails(t) \/ Drop(t)
      PROVE  OneLocked'
  BY <1>4, <1>5 DEF SubmitFull, SubmitFails, DrainOwn, ArmFails, Drop
<1>6. ASSUME NEW t \in Tasks, TaskPoll(t) \/ Arm(t) PROVE OneLocked'
  BY <1>3, <1>6 DEF TaskPoll, Arm
<1>7. ASSUME NEW t \in Tasks, SubmitOk(t) \/ DrainOther(t) \/ DrainedAll(t) PROVE OneLocked'
  <2>1. Locked(t)
    BY <1>7 DEF SubmitOk, TakeOp, DrainOther, DrainedAll, Locked
  <2>2. \E to : poll' = [poll EXCEPT ![t] = to]
    BY <1>7 DEF SubmitOk, DrainOther, DrainedAll
  <2> QED
    BY <1>3, <2>1, <2>2
<1>8. CASE \/ \E f \in Futures : Complete(f)
           \/ EpollWait \/ Dispatch \/ StopDriver \/ UNCHANGED <<program, vars>>
  <2>1. poll' = poll
    BY <1>8 DEF Complete, EpollWait, Dispatch, StopDriver, vars
  <2> QED
    BY <2>1 DEF OneLocked, Locked
<1> QED
  BY <1>2, <1>5, <1>6, <1>7, <1>8 DEF Next, PollStep

-----------------------------------------------------------------------------
(* With no operation that outlasts submit() and nothing that fails, the one *)
(* entry that a poll queues is taken and completed at once.                 *)
LEMMA CalmTakes ==
  ASSUME WakerInv, RingInv, Calm, sq = <<>>, inflight = {}, cq = <<>>,
         NEW t \in Tasks, TakeOp(t), NEW k \in Nat, SubmitTakes(t, k)
  PROVE  /\ k = 1 /\ sq' = <<>> /\ inflight' = {}
         /\ Len(cq') = 1 /\ cq'[1].req = Future(t)
<1>1. PICK queue \in Seq(Futures) : queue = Append(sq, Future(t)) /\ Len(queue) = Len(sq) + 1
  BY TakesFacts
<1>2. Len(sq) = 0
  BY EmptySeq
<1>3. Len(queue) = 1 /\ queue[1] = Future(t)
  <2>1. sq \in Seq(Futures) /\ Future(t) \in Futures
    BY FutureFacts DEF RingInv, WakerInv
  <2>2. queue[Len(sq) + 1] = Future(t)
    BY <1>1, <2>1, AppendProperties
  <2> QED
    BY <1>1, <1>2, <2>2
<1>4. k = 1
  BY <1>1, <1>3 DEF SubmitTakes, Calm
<1>5. sq' = <<>>
  <2>1. sq' = SubSeq(queue, k + 1, Len(queue))
    BY <1>1 DEF SubmitTakes
  <2> QED
    BY <1>3, <1>4, <2>1, SubSeqEmpty
<1>6. inflight' = {}
  BY DEF SubmitTakes, Calm
<1>7. PICK posted \in Seq(Queues!Cqes) :
        /\ cq' = cq \o posted
        /\ \A i \in 1 .. Len(posted) : posted[i].req \in Oldest(queue, k) \ program.slow
        /\ Len(posted) = Cardinality({i \in 1 .. k : queue[i] \notin program.slow})
  <2>1. k \in 0 .. Len(queue)
    BY <1>3, <1>4
  <2> QED
    BY <1>1, <2>1, InlineFacts
<1>8. cq' = posted
  BY <1>7, ConcatEmptySeq
<1>9. Len(posted) = 1
  <2>1. {i \in 1 .. k : queue[i] \notin program.slow} = {1}
    BY <1>4 DEF Calm
  <2> QED
    BY <1>7, <2>1, FS_Singleton
<1>10. posted[1].req = Future(t)
  <2>1. 1 \in 1 .. Len(posted)
    BY <1>9
  <2>2. posted[1].req \in Oldest(queue, k)
    BY <1>7, <2>1
  <2> QED
    BY <1>3, <1>4, <2>2 DEF Oldest
<1> QED
  BY <1>4, <1>5, <1>6, <1>8, <1>9, <1>10

(* CalmInv survives the three kinds of step of a task that there are then: *)
(* to a poll, ...                                                           *)
LEMMA CalmLocks ==
  ASSUME WakerInv, RingInv, OneLocked, CalmInv, Calm,
         NEW t \in Tasks, TaskPoll(t) \/ Lock(t)
  PROVE  CalmInv'
<1>1. /\ sq' = <<>> /\ inflight' = {} /\ ~stopped' /\ cq' = cq
      /\ UNCHANGED <<wakers, userData, current>>
  BY DEF CalmInv, TaskPoll, Lock, ring, inner, driver, outcome
<1>2. \A u \in Tasks : Future(u)' = Future(u) /\ Future(u) \in Futures
  BY <1>1, FutureFacts DEF Future, WakerInv
<1>3. poll[t] # "draining" /\ poll'[t] \in {"locking", "submitting"}
      /\ \A u \in Tasks \ {t} : poll'[u] = poll[u]
  BY DEF TaskPoll, Lock, CalmInv, WakerInv, Typed, Phases
<1>4. \A u \in Tasks \ {t} : state'[Future(u)] = state[Future(u)]
  BY <1>2, FutureFacts DEF TaskPoll, Lock, outcome, WakerInv, Typed
<1>5. state'[Future(t)] = "waiting" => poll'[t] = "submitting"
  <2>1. CASE TaskPoll(t)
    BY <2>1 DEF TaskPoll, outcome, CalmInv
  <2>2. CASE Lock(t)
    BY <1>3, <2>2 DEF Lock, CalmInv, WakerInv, Typed, Phases
  <2> QED
    BY <2>1, <2>2
<1>6. \A u \in UserData :
        wakers[u] # NoTask => poll[wakers[u]] = "draining" /\ wakers[u] # t
                                /\ wakers[u] \in Tasks /\ userData[Future(wakers[u])] = u
  BY <1>3 DEF CalmInv, WakerInv, Typed
<1>7. (\A u \in Tasks : poll'[u] # "draining") => cq = <<>>
  BY <1>3 DEF CalmInv
<1>8. ASSUME NEW u \in Tasks
      PROVE  /\ poll'[u] # "arming"
             /\ state'[Future(u)] = "waiting" => poll'[u] \in {"submitting", "draining"}
             /\ poll'[u] = "draining" => Len(cq) = 1 /\ cq[1].req = Future(u)
  BY <1>3, <1>4, <1>5 DEF CalmInv
<1> QED
  BY <1>1, <1>2, <1>3, <1>6, <1>7, <1>8 DEF CalmInv

(* ... to the submission, ... *)
LEMMA CalmSubmits ==
  ASSUME WakerInv, RingInv, OneLocked, CalmInv, Calm,
         NEW t \in Tasks, SubmitFull(t) \/ SubmitFails(t) \/ SubmitOk(t)
  PROVE  CalmInv'
<1>1. TakeOp(t) /\ poll[t] = "submitting" /\ Locked(t)
  BY DEF SubmitFull, SubmitFails, SubmitOk, TakeOp, Locked
<1>2. \A u \in Tasks : poll[u] # "draining"
  BY <1>1 DEF OneLocked, Locked
<1>3. sq = <<>> /\ inflight = {} /\ ~stopped /\ cq = <<>>
      /\ \A u \in UserData : wakers[u] = NoTask
  BY <1>2 DEF CalmInv, WakerInv, Typed
<1>4. CASE SubmitFull(t)
  <2>1. Len(sq) = 0 /\ SqEntries > 0
    BY <1>3, TokioAssumption
  <2> QED
    BY <1>4, <2>1, TokioAssumption DEF SubmitFull, Queues!CanPush
<1>5. CASE SubmitFails(t)
  <2>1. SubmitTakes(t, 0)
    BY <1>5 DEF SubmitFails
  <2> QED
    BY <1>1, <1>3, <2>1, CalmTakes
<1>6. CASE SubmitOk(t)
  <2>1. PICK k \in 1 .. SqEntries : SubmitTakes(t, k)
    BY <1>6 DEF SubmitOk
  <2>2. k \in Nat
    BY TokioAssumption
  <2>3. /\ sq' = <<>> /\ inflight' = {} /\ Len(cq') = 1 /\ cq'[1].req = Future(t)
    BY <1>1, <1>3, <2>1, <2>2, CalmTakes
  <2>4. /\ wakers' = [wakers EXCEPT ![nextUserData] = t]
        /\ poll' = [poll EXCEPT ![t] = "draining"]
        /\ UNCHANGED <<state, current, stopped>>
    BY <1>6, <2>1 DEF SubmitOk, SubmitTakes, outcome
  <2>5. userData'[Future(t)] = nextUserData /\ nextUserData \in UserData
    BY <1>1, TakeOpFacts
  <2>6. \A u \in Tasks : Future(u)' = Future(u)
    BY <2>4 DEF Future
  <2>7. poll'[t] = "draining" /\ \A u \in Tasks \ {t} : poll'[u] = poll[u]
    BY <2>4 DEF WakerInv, Typed
  <2>8. \A u \in UserData : wakers'[u] = IF u = nextUserData THEN t ELSE NoTask
    BY <1>3, <2>4 DEF WakerInv, Typed
  <2>9. ASSUME NEW u \in Tasks
        PROVE  /\ poll'[u] # "arming"
               /\ state'[Future(u)'] = "waiting" => poll'[u] \in {"submitting", "draining"}
               /\ poll'[u] = "draining" => Len(cq') = 1 /\ cq'[1].req = Future(u)'
    BY <1>2, <2>3, <2>4, <2>6, <2>7 DEF CalmInv
  <2>10. ASSUME NEW u \in UserData, wakers'[u] # NoTask
         PROVE  poll'[wakers'[u]] = "draining" /\ userData'[Future(wakers[u])'] = u
    <3>1. wakers'[u] = t /\ u = nextUserData
      BY <2>8, <2>10
    <3>2. Future(wakers[u])' = Future(t)
      BY <2>6, <3>1 DEF Future
    <3> QED
      BY <2>5, <2>7, <3>1, <3>2
  <2>11. poll'[t] = "draining" /\ ~stopped'
    BY <1>3, <2>4, <2>7
  <2> QED
    BY <2>3, <2>9, <2>10, <2>11 DEF CalmInv
<1> QED
  BY <1>4, <1>5, <1>6

(* ... and to the drain: the only completion is its own. *)
LEMMA CalmDrains ==
  ASSUME WakerInv, WakerInv', RingInv, OneLocked, CalmInv, Calm,
         NEW t \in Tasks, DrainOwn(t) \/ DrainOther(t) \/ DrainedAll(t)
  PROVE  CalmInv'
<1>1. poll[t] = "draining" /\ Locked(t)
  BY DEF DrainOwn, DrainOther, DrainedAll, Locked
<1>2. Len(cq) = 1 /\ cq[1].req = Future(t) /\ cq \in Seq(Queues!Cqes)
  BY <1>1 DEF CalmInv, RingInv
<1>3. cq # <<>>
  <2> SUFFICES ASSUME cq = <<>> PROVE FALSE
    OBVIOUS
  <2>1. Len(cq) = 0
    BY EmptySeq
  <2> QED
    BY <1>2, <2>1
<1>4. Head(cq).req = Future(t)
  BY <1>2, <1>3, HeadTailProperties
<1>5. DrainOwn(t)
  BY <1>1, <1>3, <1>4, OwnIsOwn DEF DrainOther, DrainedAll
<1>6. /\ Queues!Reap /\ wakers' = Forget(t) /\ Over(t, "ok", Head(cq).req)
      /\ UNCHANGED <<userData, stopped>>
  BY <1>5 DEF DrainOwn, driver
<1>7. sq' = <<>> /\ inflight' = {} /\ ~stopped'
  BY <1>6 DEF CalmInv, Queues!Reap
<1>8. cq' = <<>>
  <2>1. cq' = Tail(cq)
    BY <1>6 DEF Queues!Reap
  <2>2. cq' \in Seq(Queues!Cqes) /\ Len(cq') = 0
    BY <1>2, <1>3, <2>1, RangeTail
  <2> QED
    BY <2>2, EmptySeq
<1>9. \A u \in Tasks \ {t} : poll[u] \notin {"submitting", "draining", "arming"}
  BY <1>1 DEF OneLocked, Locked
<1>10. \A u \in UserData : wakers'[u] = NoTask
  <2> SUFFICES ASSUME NEW u \in UserData, wakers'[u] # NoTask PROVE FALSE
    OBVIOUS
  <2>1. u # userData[Future(t)] /\ wakers'[u] = wakers[u]
    BY <1>6 DEF Forget, WakerInv, Typed
  <2>2. wakers[u] \in Tasks /\ poll[wakers[u]] = "draining" /\ userData[Future(wakers[u])] = u
    BY <2>1 DEF CalmInv, WakerInv, Typed
  <2>3. wakers[u] = t
    BY <1>9, <2>2
  <2> QED
    BY <2>1, <2>2, <2>3
<1>11. /\ state' = [state EXCEPT ![Future(t)] = "ok"]
       /\ poll'[t] \in {"locking", "idle"}
       /\ \A u \in Tasks \ {t} : poll'[u] = poll[u] /\ current'[u] = current[u]
       /\ \/ current'[t] = current[t] + 1
          \/ current'[t] = current[t]
       /\ current' \in [Tasks -> 1 .. OpsPerTask]
  <2>1. Typed
    BY DEF WakerInv
  <2> QED
    BY <1>6, <2>1, OverFacts
<1>12. state'[Future(t)'] # "waiting"
  <2>1. Future(t) \in Futures /\ Typed
    BY FutureFacts DEF WakerInv
  <2>2. CASE current'[t] = current[t]
    <3>1. Future(t)' = Future(t)
      BY <2>2 DEF Future
    <3> QED
      BY <1>11, <2>1, <3>1 DEF Typed
  <2>3. CASE current'[t] = current[t] + 1
    <3>1. Future(t)' = <<t, current[t] + 1>> /\ current[t] \in 1 .. OpsPerTask
      BY <2>1, <2>3 DEF Future, Typed
    <3>2. current[t] + 1 \in 1 .. OpsPerTask /\ current[t] + 1 > current[t]
      BY <1>11, <2>3, <3>1
    <3>3. state[<<t, current[t] + 1>>] = "unborn"
      BY <3>2 DEF WakerInv, Phases
    <3>4. <<t, current[t] + 1>> \in Futures /\ <<t, current[t] + 1>> # Future(t)
      BY <3>1, <3>2 DEF Futures, Future
    <3> QED
      BY <1>11, <2>1, <3>1, <3>3, <3>4 DEF Typed
  <2> QED
    BY <1>11, <2>2, <2>3
<1>13. \A u \in Tasks \ {t} : state'[Future(u)'] = state[Future(u)]
  <2>1. \A u \in Tasks \ {t} : Future(u)' = Future(u) /\ Future(u) \in Futures
                               /\ Future(u) # Future(t)
    BY <1>11, FutureFacts DEF Future, WakerInv
  <2> QED
    BY <1>11, <2>1 DEF WakerInv, Typed
<1>14. ASSUME NEW u \in Tasks
       PROVE  poll'[u] \notin {"arming", "draining"} /\ state'[Future(u)'] # "waiting"
  <2>1. CASE u = t
    BY <1>11, <1>12, <2>1
  <2>2. CASE u # t
    BY <1>9, <1>11, <1>13, <2>2 DEF CalmInv
  <2> QED
    BY <2>1, <2>2
<1> QED
  BY <1>7, <1>8, <1>10, <1>14 DEF CalmInv

(* CalmInv survives every step. *)
LEMMA NextCalmInv ==
  ASSUME WakerInv, WakerInv', RingInv, OneLocked, CalmInv, [Next]_<<program, vars>>
  PROVE  CalmInv'
<1>1. program' = program /\ (Calm' <=> Calm)
  BY DEF Next, Calm
<1>2. CASE ~Calm
  BY <1>1, <1>2 DEF CalmInv
<1>3. CASE Calm
  <2>1. ASSUME NEW t \in Tasks, TaskPoll(t) \/ Lock(t) PROVE CalmInv'
    BY <1>3, <2>1, CalmLocks
  <2>2. ASSUME NEW t \in Tasks, SubmitFull(t) \/ SubmitFails(t) \/ SubmitOk(t) PROVE CalmInv'
    BY <1>3, <2>2, CalmSubmits
  <2>3. ASSUME NEW t \in Tasks, DrainOwn(t) \/ DrainOther(t) \/ DrainedAll(t) PROVE CalmInv'
    BY <1>3, <2>3, CalmDrains
  <2>4. ASSUME NEW t \in Tasks, ArmFails(t) \/ Arm(t) \/ Drop(t) PROVE FALSE
    BY <1>3, <2>4 DEF ArmFails, Arm, Drop, Calm, CalmInv
  <2>5. ASSUME NEW f \in Futures, Complete(f) PROVE FALSE
    BY <1>3, <2>5 DEF Complete, Queues!Complete, CalmInv
  <2>6. ~StopDriver
    BY <1>3 DEF StopDriver, Calm
  <2>7. CASE EpollWait \/ Dispatch \/ UNCHANGED <<program, vars>>
    <3>1. UNCHANGED <<sq, inflight, cq, stopped, poll, state, current, wakers, userData>>
      BY <2>7 DEF EpollWait, Dispatch, vars, ring, inner, outcome, driver
    <3>2. \A t \in Tasks \cup {NoTask} : Future(t)' = Future(t)
      BY <3>1 DEF Future
    <3>3. \A u \in UserData : wakers[u] \in Tasks \cup {NoTask}
      BY DEF WakerInv, Typed
    <3> QED
      BY <1>3, <3>1, <3>2, <3>3 DEF CalmInv
  <2> QED
    BY <2>1, <2>2, <2>3, <2>4, <2>5, <2>6, <2>7 DEF Next, PollStep
<1> QED
  BY <1>2, <1>3

-----------------------------------------------------------------------------
(* SharedInv holds before the first poll, ... *)
LEMMA InitSharedInv == Init => SharedInv
<1> SUFFICES ASSUME Init PROVE SharedInv
  OBVIOUS
<1>1. WakerInv
  BY InitWakerInv
<1>2. /\ sq = <<>> /\ inflight = {} /\ cq = <<>> /\ executed = {}
      /\ \A f \in Futures : state[f] = "unborn" /\ got[f] = NoFuture
      /\ got \in [Futures -> Futures \cup {NoFuture}]
      /\ \A t \in Tasks : poll[t] = "idle"
      /\ \A u \in UserData : wakers[u] = NoTask
      /\ ~stopped
  BY DEF Init, Queues!QInit
<1>3. RingInv
  <2>1. /\ <<>> \in Seq(Futures) /\ <<>> \in Seq(Queues!Cqes) /\ Len(<<>>) = 0
    BY EmptySeq
  <2>2. Range(<<>>) = {}
    BY DEF Range
  <2>3. Distinct(sq) /\ Range(sq) = {} /\ Completed(cq) = {}
    BY <1>2, <2>1, <2>2 DEF Distinct, Completed
  <2> QED
    BY <1>2, <2>1, <2>3 DEF RingInv
<1>4. OnlyOkReturns
  BY <1>2 DEF OnlyOkReturns
<1>5. Settings
  BY DEF Init, Settings
<1>6. OneLocked
  BY <1>2 DEF OneLocked, Locked
<1>7. CalmInv
  <2>1. \A t \in Tasks : state[Future(t)] = "unborn"
    BY <1>1, <1>2, FutureFacts DEF WakerInv
  <2> QED
    BY <1>2, <2>1 DEF CalmInv
<1> QED
  BY <1>1, <1>3, <1>4, <1>5, <1>6, <1>7 DEF SharedInv

(* ... and survives every step. *)
LEMMA NextSharedInv == SharedInv /\ [Next]_<<program, vars>> => SharedInv'
<1> SUFFICES ASSUME SharedInv, [Next]_<<program, vars>> PROVE SharedInv'
  OBVIOUS
<1>1. WakerInv /\ RingInv /\ OnlyOkReturns /\ Settings /\ OneLocked /\ CalmInv
  BY DEF SharedInv
<1>2. WakerInv'
  BY <1>1, NextWakerInv
<1>3. RingInv'
  BY <1>1, <1>2, NextRingInv
<1>4. OnlyOkReturns' /\ Settings'
  BY <1>1, NextReturns, NextSettings
<1>5. OneLocked' /\ CalmInv'
  BY <1>1, <1>2, NextOneLocked, NextCalmInv
<1> QED
  BY <1>2, <1>3, <1>4, <1>5 DEF SharedInv

(* SharedInv is an invariant of the tasks, their ring and the driver. *)
THEOREM SharedInvariant == Spec => []SharedInv
<1>1. Init => SharedInv
  BY InitSharedInv
<1>2. SharedInv /\ [Next]_<<program, vars>> => SharedInv'
  BY NextSharedInv
<1> QED
  BY <1>1, <1>2, PTL DEF Spec

(* Type correctness; in particular the counter of user_data never passes    *)
(* the number of futures, and no user_data is of another range.             *)
THEOREM SharedTypeCorrect == Spec => []TypeOK
<1>1. SharedInv => TypeOK
  <2> SUFFICES ASSUME SharedInv PROVE TypeOK
    OBVIOUS
  <2>1. Typed /\ Numbered /\ RingInv /\ OnlyOkReturns /\ Settings
    BY DEF SharedInv, WakerInv
  <2>2. nextUserData \in 1 .. Cardinality(Futures) + 1
    BY <2>1, TypedFacts, FuturesFinite DEF Typed
  <2>3. userData \in [Futures -> UserData \cup {0}]
    <3>1. \A f \in Futures : userData[f] \in UserData \cup {0}
      BY <2>1, TypedFacts DEF Taken
    <3> QED
      BY <2>1, <3>1 DEF Typed
  <2>4. sq \in Seq(Futures) /\ inflight \subseteq Futures /\ cq \in Seq(Queues!Cqes)
        /\ executed \subseteq Futures
    BY <2>1 DEF RingInv, Taken
  <2> QED
    BY <2>1, <2>2, <2>3, <2>4 DEF TypeOK, Typed, OnlyOkReturns, Settings
<1> QED
  BY <1>1, SharedInvariant, PTL

(* When every operation completes inside submit() and nothing fails, a poll *)
(* leaves nothing in the ring or the map when it releases the mutex.        *)
THEOREM PollsLeaveNothing == Spec => []QuietBetweenPolls
<1>1. SharedInv => QuietBetweenPolls
  <2> SUFFICES ASSUME SharedInv, Calm, Unlocked
               PROVE  /\ sq = <<>> /\ inflight = {} /\ cq = <<>>
                      /\ \A u \in UserData : wakers[u] = NoTask
    BY DEF QuietBetweenPolls
  <2>1. \A t \in Tasks : poll[t] # "draining"
    BY DEF Unlocked, Locked
  <2> QED
    BY <2>1 DEF SharedInv, CalmInv, WakerInv, Typed
<1> QED
  BY <1>1, SharedInvariant, PTL

(* The std Mutex lets one poll at a time between lock() and its return. *)
THEOREM MutexExcludes == Spec => [](\A t, u \in Tasks : Locked(t) /\ Locked(u) => t = u)
<1>1. SharedInv => \A t, u \in Tasks : Locked(t) /\ Locked(u) => t = u
  BY DEF SharedInv, OneLocked
<1> QED
  BY <1>1, SharedInvariant, PTL

-----------------------------------------------------------------------------
(* Every step is one of SubmitOp's or leaves its variables alone. *)

(* The first poll of a future is its submit_op. *)
LEMMA LockIsAwait ==
  ASSUME SharedInv, NEW t \in Tasks, Lock(t)
  PROVE  [Promise!PNext]_(Promise!pvars)
<1>1. /\ state' = [state EXCEPT ![Future(t)] = "waiting"] /\ UNCHANGED <<got, executed>>
      /\ poll[t] = "locking"
  BY DEF Lock, ring
<1>2. Future(t) \in Futures /\ state[Future(t)] \in {"unborn", "waiting"}
  BY <1>1, FutureFacts DEF SharedInv, WakerInv, Phases
<1>3. CASE state[Future(t)] = "unborn"
  BY <1>1, <1>2, <1>3 DEF Promise!PNext, Promise!Await
<1>4. CASE state[Future(t)] = "waiting"
  <2>1. state' = state
    BY <1>1, <1>4 DEF SharedInv, WakerInv, Typed
  <2> QED
    BY <1>1, <2>1 DEF Promise!pvars
<1> QED
  BY <1>2, <1>3, <1>4

(* The kernel carries out only what was submitted, and nothing twice. *)
LEMMA TakesIsExecute ==
  ASSUME SharedInv, NEW t \in Tasks, TakeOp(t), NEW k \in Nat, SubmitTakes(t, k),
         UNCHANGED <<state, got>>
  PROVE  [Promise!PNext]_(Promise!pvars)
<1>1. WakerInv /\ RingInv
  BY DEF SharedInv
<1>2. PICK taken :
        /\ executed' = executed \cup (taken \ program.slow)
        /\ taken \subseteq Range(sq) \cup {Future(t)} /\ Future(t) \notin Taken
  BY <1>1, TakesFacts
<1>3. state[Future(t)] = "waiting" /\ Future(t) \in Futures
  BY <1>1, TakeOpFacts
<1> DEFINE done == taken \ program.slow
<1>4. \A f \in Taken : f \in Futures /\ state[f] # "unborn"
  BY <1>1 DEF WakerInv, Phases, Taken
<1>5. Range(sq) \subseteq Taken /\ Range(sq) \cap executed = {} /\ executed \subseteq Taken
  BY <1>1 DEF RingInv
<1>6. \A f \in done : f \in Futures /\ state[f] # "unborn" /\ f \notin executed
  BY <1>2, <1>3, <1>4, <1>5
<1>7. done \in SUBSET Futures /\ executed' = executed \cup done
  BY <1>2, <1>6
<1> HIDE DEF done
<1>8. Promise!Execute(done)
  BY <1>6, <1>7 DEF Promise!Execute
<1> QED
  BY <1>7, <1>8 DEF Promise!PNext

(* A completion by the kernel. *)
LEMMA CompleteIsExecute ==
  ASSUME SharedInv, NEW f \in Futures, Complete(f)
  PROVE  [Promise!PNext]_(Promise!pvars)
<1>1. f \in Taken /\ f \notin executed
  BY CompleteKeepsRing DEF SharedInv
<1>2. state[f] # "unborn"
  BY <1>1 DEF SharedInv, WakerInv, Phases, Taken
<1>3. executed' = executed \cup {f} /\ UNCHANGED <<state, got>>
  BY DEF Complete, outcome
<1>4. Promise!Execute({f}) /\ {f} \in SUBSET Futures
  BY <1>1, <1>2, <1>3 DEF Promise!Execute
<1> QED
  BY <1>3, <1>4 DEF Promise!PNext

(* A future resolves to an error or is dropped: it returns no result, and    *)
(* had none.                                                                *)
LEMMA ErrorIsResolve ==
  ASSUME SharedInv, NEW t \in Tasks, NEW how \in {"err", "dropped"},
         Over(t, how, NoFuture), state[Future(t)] = "waiting", executed' = executed
  PROVE  [Promise!PNext]_(Promise!pvars)
<1>1. /\ state' = [state EXCEPT ![Future(t)] = how]
      /\ got' = [got EXCEPT ![Future(t)] = NoFuture]
  BY DEF Over
<1>2. Future(t) \in Futures /\ got[Future(t)] = NoFuture
  BY FutureFacts DEF SharedInv, WakerInv, OnlyOkReturns
<1>3. got' = got
  BY <1>1, <1>2 DEF SharedInv, OnlyOkReturns
<1> QED
  BY <1>1, <1>2, <1>3 DEF Promise!PNext, Promise!ResolveErr, Promise!Abandon

(* A future resolves Ok: with the result of its own operation, which the     *)
(* kernel has carried out.                                                  *)
LEMMA DrainIsResolve ==
  ASSUME SharedInv, NEW t \in Tasks, DrainOwn(t)
  PROVE  [Promise!PNext]_(Promise!pvars)
<1>1. poll[t] = "draining" /\ OwnCqe(t) /\ cq # <<>>
  BY DEF DrainOwn, OwnCqe
<1>2. Head(cq).req = Future(t) /\ Future(t) \in executed /\ Future(t) \in Futures
  BY <1>1, OwnIsOwn DEF SharedInv
<1>3. /\ state' = [state EXCEPT ![Future(t)] = "ok"]
      /\ got' = [got EXCEPT ![Future(t)] = Future(t)]
      /\ executed' = executed
  BY <1>2 DEF DrainOwn, Over
<1>4. state[Future(t)] = "waiting"
  BY <1>1 DEF SharedInv, WakerInv, Phases
<1> QED
  BY <1>2, <1>3, <1>4 DEF Promise!PNext, Promise!ResolveOk

(* Every step refines one of SubmitOp's. *)
LEMMA NextIsPromised ==
  ASSUME SharedInv, [Next]_<<program, vars>>
  PROVE  [Promise!PNext]_(Promise!pvars)
<1>1. ASSUME UNCHANGED <<state, got, executed>> PROVE [Promise!PNext]_(Promise!pvars)
  BY <1>1 DEF Promise!pvars
<1>2. ASSUME NEW t \in Tasks, SubmitFull(t) \/ SubmitFails(t)
      PROVE  [Promise!PNext]_(Promise!pvars)
  <2>1. TakeOp(t) /\ Over(t, "err", NoFuture)
    BY <1>2 DEF SubmitFull, SubmitFails
  <2>2. state[Future(t)] = "waiting"
    BY <2>1, TakeOpFacts DEF SharedInv
  <2>3. executed' = executed
    <3>1. CASE SubmitFull(t)
      BY <3>1 DEF SubmitFull, ring
    <3>2. CASE SubmitFails(t)
      <4>1. SubmitTakes(t, 0)
        BY <3>2 DEF SubmitFails
      <4>2. 1 .. 0 = {}
        OBVIOUS
      <4> QED
        BY <4>1, <4>2 DEF SubmitTakes
    <3> QED
      BY <1>2, <3>1, <3>2
  <2> QED
    BY <2>1, <2>2, <2>3, ErrorIsResolve
<1>3. ASSUME NEW t \in Tasks, SubmitOk(t) PROVE [Promise!PNext]_(Promise!pvars)
  <2>1. PICK k \in 1 .. SqEntries : SubmitTakes(t, k)
    BY <1>3 DEF SubmitOk
  <2>2. k \in Nat /\ TakeOp(t) /\ UNCHANGED <<state, got>>
    BY <1>3, TokioAssumption DEF SubmitOk, outcome
  <2> QED
    BY <2>1, <2>2, TakesIsExecute
<1>4. ASSUME NEW t \in Tasks, ArmFails(t) \/ Drop(t) PROVE [Promise!PNext]_(Promise!pvars)
  <2>1. executed' = executed /\ state[Future(t)] = "waiting"
    BY <1>4 DEF ArmFails, Drop, ring, SharedInv, WakerInv, Phases
  <2>2. Over(t, "err", NoFuture) \/ Over(t, "dropped", NoFuture)
    BY <1>4 DEF ArmFails, Drop
  <2> QED
    BY <2>1, <2>2, ErrorIsResolve
<1>5. ASSUME NEW t \in Tasks, TaskPoll(t) \/ DrainOther(t) \/ DrainedAll(t) \/ Arm(t)
      PROVE  [Promise!PNext]_(Promise!pvars)
  BY <1>1, <1>5 DEF TaskPoll, DrainOther, DrainedAll, Arm, ring, outcome
<1>6. CASE EpollWait \/ Dispatch \/ StopDriver \/ UNCHANGED <<program, vars>>
  BY <1>1, <1>6 DEF EpollWait, Dispatch, StopDriver, vars, ring, outcome
<1> QED
  BY <1>2, <1>3, <1>4, <1>5, <1>6, LockIsAwait, CompleteIsExecute, DrainIsResolve
  DEF Next, PollStep

(* The tokio back end keeps what submit_op promises, for any number of      *)
(* tasks and any program, whatever fails, is dropped or comes out of order: *)
(* an Ok future returns the result of its own operation, and no operation   *)
(* is carried out twice.                                                    *)
THEOREM TokioKeepsPromise == Spec => ImplementsSubmitOp
<1>1. Init => Promise!PInit
  BY DEF Init, Promise!PInit
<1>2. SharedInv /\ [Next]_<<program, vars>> => [Promise!PNext]_(Promise!pvars)
  BY NextIsPromised
<1> QED
  BY <1>1, <1>2, SharedInvariant, PTL DEF Spec, ImplementsSubmitOp, Promise!PSpec
=============================================================================
