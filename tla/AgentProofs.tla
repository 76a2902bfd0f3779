----------------------------- MODULE AgentProofs -----------------------------
(***************************************************************************)
(* The extensions of the coding agent, each by itself and then as Agent     *)
(* puts them side by side.                                                  *)
(***************************************************************************)
EXTENDS Agent, TLAPS, FiniteSetTheorems, SequenceTheorems

-----------------------------------------------------------------------------
(***************************************************************************)
(* The pool runs every task exactly once within its limit, a returned call  *)
(* is complete, and an abort reaches every child, for any limits.           *)
(***************************************************************************)

\* What is true of one task between two awaits.
Sound(t) ==
  /\ t.at = "waiting" => t = Waiting
  /\ t.at = "mkdtemp" => t.temp = "none"
  /\ t.at = "write" => t.temp = "dir"
  /\ t.at = "up" => t.temp # "dir" /\ (aborted => t.told)
  /\ t.at = "ended" => t.temp = "none" /\ t.exit # -1
  /\ t.at = "thrown" => t.temp # "file"
  /\ t.alive => t.at = "up"

\* The loop has called runSingleAgent for the tasks before nextIndex.
Taken ==
  /\ nextIndex <= n + 1
  /\ \A i \in Slots : task[i].at = "waiting" <=> i >= nextIndex

\* A call that does not run has no worker, one whose answer is a rejection has a task that threw.
Workers ==
  /\ call \in {"idle", "confirming", "refused"} => nextIndex = 1
  /\ call \notin {"running", "threw"} => free = 0
  /\ call = "threw" <=> \E i \in Slots : task[i].at = "thrown"

Well(t) == t.at = "ended" /\ ~Failed(t)

\* The worker of a chain is free only after steps that ended well.
ChainFree == mode = "chain" /\ free > 0 => \A i \in Slots : i < nextIndex => Well(task[i])
ChainOrder == mode = "chain" => \A i, j \in Slots : j < i /\ i < nextIndex => Well(task[j])

Complete == call = "returned" =>
  /\ \A i \in Slots : i < nextIndex => task[i].at = "ended"
  /\ nextIndex = n + 1 \/ (mode = "chain" /\ nextIndex > 1 /\ Failed(task[nextIndex - 1]))

SubIInv ==
  /\ SubTypeOK
  /\ \A i \in Slots : Sound(task[i])
  /\ Taken
  /\ Workers
  /\ WithinLimit
  /\ ChainFree
  /\ ChainOrder
  /\ Complete
-----------------------------------------------------------------------------
(* The limit and the set of active tasks. *)

LEMMA LimitType == ASSUME NEW m, NEW k \in Slots PROVE Limit(m, k) \in 1..MAX_CONCURRENCY
  BY LimitsAssumption DEF Limit, Slots, MaxTasks

LEMMA Bounds == MaxTasks \in Nat \ {0} /\ MAX_CONCURRENCY \in Nat \ {0}
  BY LimitsAssumption DEF MaxTasks

LEMMA ActiveFinite ==
  /\ IsFiniteSet(Slots)
  /\ \A S \in SUBSET Slots : IsFiniteSet(S) /\ Cardinality(S) \in Nat
<1>1. IsFiniteSet(Slots)
  BY Bounds, FS_Interval DEF Slots
<1>2. ASSUME NEW S \in SUBSET Slots PROVE IsFiniteSet(S) /\ Cardinality(S) \in Nat
  <2>1. IsFiniteSet(S)
    BY <1>1, FS_Subset
  <2> QED
    BY <2>1, FS_CardinalityType
<1> QED
  BY <1>1, <1>2

LEMMA ActiveCount == ASSUME NEW i \in Slots, Active(i)
                     PROVE  Cardinality(ActiveTasks) >= 1
<1>1. ActiveTasks \in SUBSET Slots /\ i \in ActiveTasks
  BY DEF ActiveTasks
<1>2. Cardinality(ActiveTasks \ {i}) = Cardinality(ActiveTasks) - 1
  BY <1>1, ActiveFinite, FS_RemoveElement
<1>3. (ActiveTasks \ {i}) \in SUBSET Slots
  BY <1>1
<1> QED
  BY <1>1, <1>2, <1>3, ActiveFinite

\* A chain or a single call has one task at a time, and then no free worker.
LEMMA OneAtATime ==
  ASSUME SubIInv, mode # "parallel", NEW i \in Slots, Active(i)
  PROVE  free = 0 /\ \A j \in Slots : Active(j) => j = i
<1>1. Limit(mode, n) = 1
  BY DEF SubIInv, Limit
<1>2. Cardinality(ActiveTasks) >= 1 /\ Cardinality(ActiveTasks) \in Nat
  BY ActiveCount, ActiveFinite DEF ActiveTasks
<1>3. free = 0 /\ Cardinality(ActiveTasks) = 1
  BY <1>1, <1>2 DEF SubIInv, WithinLimit, SubTypeOK
<1>4. ASSUME NEW j \in Slots, Active(j), j # i PROVE FALSE
  <2>1. ActiveTasks \in SUBSET Slots /\ i \in ActiveTasks /\ j \in ActiveTasks
    BY <1>4 DEF ActiveTasks
  <2>2. Cardinality(ActiveTasks \ {i}) = 0
    BY <2>1, <1>3, ActiveFinite, FS_RemoveElement
  <2>3. ActiveTasks \ {i} = {}
    BY <2>1, <2>2, ActiveFinite, FS_EmptySet
  <2> QED
    BY <2>1, <2>3, <1>4
<1> QED
  BY <1>3, <1>4

\* The task that a chain works at is the last that was taken, and the ones before it ended well.
LEMMA ChainAlone ==
  ASSUME SubIInv, mode = "chain", NEW i \in Slots, Active(i)
  PROVE  /\ free = 0 /\ i = nextIndex - 1 /\ call = "running"
         /\ \A j \in Slots : j < i => Well(task[j])
<1>1. free = 0 /\ i < nextIndex
  BY OneAtATime DEF SubIInv, Taken, Active, SubTypeOK, Slots
<1>2. ASSUME i # nextIndex - 1 PROVE FALSE
  <2>1. nextIndex - 1 \in Slots /\ i < nextIndex - 1
    BY <1>1, <1>2, Bounds DEF SubIInv, Taken, SubTypeOK, Slots
  <2>2. Well(task[i])
    BY <2>1, <1>1 DEF SubIInv, ChainOrder, SubTypeOK, Slots
  <2> QED
    BY <2>2 DEF Well, Active
<1>3. \A j \in Slots : j < i => Well(task[j])
  BY <1>1 DEF SubIInv, ChainOrder
<1>4. call \notin {"idle", "confirming", "refused", "returned"}
  BY <1>1 DEF SubIInv, Workers, Complete, Active, SubTypeOK, Slots
<1>5. ASSUME call = "threw" PROVE FALSE
  <2>1. PICK j \in Slots : task[j].at = "thrown"
    BY <1>5 DEF SubIInv, Workers
  <2>2. j < nextIndex
    BY <2>1 DEF SubIInv, Taken, SubTypeOK, Slots
  <2>3. j = i
    BY <1>2, <1>3, <2>1, <2>2 DEF Well, SubIInv, SubTypeOK, Slots
  <2> QED
    BY <2>1, <2>3 DEF Active
<1> QED
  BY <1>1, <1>2, <1>3, <1>4, <1>5 DEF SubIInv, SubTypeOK
-----------------------------------------------------------------------------
(* What a step that changes one task does to the set of active tasks.       *)

Running(t) == t.at \in {"mkdtemp", "write", "up"}

\* A worker takes task i, or goes on with it.
Claimed(i) == i = nextIndex /\ nextIndex <= n /\ free > 0 /\ nextIndex' = nextIndex + 1
Worked(i) == Active(i) /\ nextIndex' = nextIndex

LEMMA Counting ==
  ASSUME SubIInv, NEW i \in Slots, NEW u \in Task, task' = [task EXCEPT ![i] = u]
  PROVE  Cardinality(ActiveTasks') =
           Cardinality(ActiveTasks) + (IF Running(u) THEN 1 ELSE 0) - (IF Active(i) THEN 1 ELSE 0)
<1>1. ActiveTasks \in SUBSET Slots /\ ActiveTasks' \in SUBSET Slots
  BY DEF ActiveTasks
<1>2. IsFiniteSet(ActiveTasks) /\ Cardinality(ActiveTasks) \in Nat
  BY <1>1, ActiveFinite
<1>3. i \in ActiveTasks <=> Active(i)
  BY DEF ActiveTasks
<1>4. ActiveTasks' = IF Running(u) THEN ActiveTasks \cup {i} ELSE ActiveTasks \ {i}
  BY DEF ActiveTasks, Active, Running, SubIInv, SubTypeOK
<1>5. CASE Running(u)
  <2>1. Cardinality(ActiveTasks \cup {i}) =
          IF i \in ActiveTasks THEN Cardinality(ActiveTasks) ELSE Cardinality(ActiveTasks) + 1
    BY <1>2, FS_AddElement
  <2> QED
    BY <1>2, <1>3, <1>4, <1>5, <2>1
<1>6. CASE ~Running(u)
  <2>1. Cardinality(ActiveTasks \ {i}) =
          IF i \in ActiveTasks THEN Cardinality(ActiveTasks) - 1 ELSE Cardinality(ActiveTasks)
    BY <1>2, FS_RemoveElement
  <2> QED
    BY <1>2, <1>3, <1>4, <1>6, <2>1
<1> QED
  BY <1>5, <1>6

\* The conjuncts that hold however the task goes on.
LEMMA OneTask ==
  ASSUME SubIInv, NEW i \in Slots, NEW u \in Task, task' = [task EXCEPT ![i] = u],
         Sound(u), u.at # "waiting", UNCHANGED <<mode, n, aborted>>,
         Claimed(i) \/ Worked(i)
  PROVE  /\ task' \in [Slots -> Task] /\ nextIndex' \in 1..(MaxTasks + 1)
         /\ (\A j \in Slots : Sound(task[j]))'
         /\ Taken'
         /\ i < nextIndex'
         /\ (\E j \in Slots : task[j].at = "thrown")'
              <=> u.at = "thrown" \/ \E j \in Slots : task[j].at = "thrown"
<1>1. task' \in [Slots -> Task] /\ \A j \in Slots : task'[j] = IF j = i THEN u ELSE task[j]
  BY DEF SubIInv, SubTypeOK
<1>2. nextIndex' \in 1..(MaxTasks + 1)
  BY Bounds DEF SubIInv, SubTypeOK, Claimed, Worked, Slots
<1>3. (\A j \in Slots : Sound(task[j]))'
  BY <1>1 DEF SubIInv, Sound
<1>4. Taken' /\ i < nextIndex'
  BY <1>1, Bounds DEF SubIInv, SubTypeOK, Taken, Claimed, Worked, Active, Slots
<1>5. task[i].at # "thrown"
  BY Bounds DEF SubIInv, SubTypeOK, Taken, Claimed, Worked, Active, Slots
<1> QED
  BY <1>1, <1>2, <1>3, <1>4, <1>5

\* The number of workers and tasks when the limit is one.
LEMMA AlmostFree ==
  ASSUME SubIInv, mode = "chain", NEW i \in Slots, Claimed(i)
  PROVE  free = 1 /\ \A j \in Slots : j < i => Well(task[j])
<1>1. Limit(mode, n) = 1 /\ ActiveTasks \in SUBSET Slots
  BY DEF Limit, ActiveTasks
<1>2. Cardinality(ActiveTasks) \in Nat
  BY <1>1, ActiveFinite
<1> QED
  BY <1>1, <1>2, Bounds DEF SubIInv, WithinLimit, SubTypeOK, ChainFree, Claimed
-----------------------------------------------------------------------------
(* The three ways a task goes on: to its next await, to its end, to an error. *)

LEMMA SubMoves ==
  ASSUME SubIInv, NEW i \in Slots, NEW u \in Task, task' = [task EXCEPT ![i] = u],
         Sound(u), Running(u), UNCHANGED <<call, mode, n, aborted>>,
         \/ Claimed(i) /\ free' = free - 1
         \/ Worked(i) /\ free' = free
  PROVE  SubIInv'
<1>1. /\ task' \in [Slots -> Task] /\ nextIndex' \in 1..(MaxTasks + 1)
      /\ (\A j \in Slots : Sound(task[j]))'
      /\ Taken' /\ i < nextIndex'
      /\ (\E j \in Slots : task[j].at = "thrown")' <=> \E j \in Slots : task[j].at = "thrown"
  BY OneTask DEF Running
<1>2. call \in {"running", "threw"}
  BY DEF SubIInv, Workers, Taken, Complete, Claimed, Worked, Active, SubTypeOK, Slots
<1>3. Workers' /\ Complete'
  BY <1>1, <1>2 DEF Workers, Complete, SubIInv
<1>4. free' \in 0..MAX_CONCURRENCY
  BY Bounds DEF SubIInv, SubTypeOK, Claimed
<1>5. WithinLimit'
  <2>1. ActiveTasks \in SUBSET Slots /\ (Claimed(i) => ~Active(i))
    BY Bounds DEF ActiveTasks, SubIInv, Taken, Active, Claimed, SubTypeOK, Slots
  <2>2. Cardinality(ActiveTasks) \in Nat /\ Limit(mode, n) \in Nat
    BY <2>1, ActiveFinite, LimitType, Bounds DEF SubIInv, SubTypeOK
  <2>3. Cardinality(ActiveTasks') = Cardinality(ActiveTasks) + 1 - (IF Active(i) THEN 1 ELSE 0)
    BY Counting
  <2>4. Cardinality(ActiveTasks') + free' = Cardinality(ActiveTasks) + free
    BY <2>1, <2>2, <2>3 DEF SubIInv, SubTypeOK, Worked
  <2>5. Limit(mode', n') = Limit(mode, n)
    OBVIOUS
  <2> QED
    BY <2>4, <2>5 DEF SubIInv, WithinLimit
<1>6. ASSUME mode' = "chain" PROVE /\ free' = 0
                                   /\ nextIndex' = i + 1
                                   /\ \A j \in Slots : j < i => Well(task[j])
  BY <1>6, AlmostFree, ChainAlone, Bounds DEF Claimed, Worked, SubIInv, SubTypeOK
<1>7. ChainFree' /\ ChainOrder'
  <2>1. \A j \in Slots : j < i => task'[j] = task[j]
    BY DEF SubIInv, SubTypeOK, Slots
  <2>2. ChainFree'
    BY <1>6 DEF ChainFree
  <2>3. ASSUME mode' = "chain", NEW j \in Slots, NEW k \in Slots, j < k, k < nextIndex'
        PROVE  Well(task'[j])
    <3>1. nextIndex' = i + 1
      BY <1>6, <2>3
    <3>2. i \in Int /\ j \in Int /\ k \in Int
      BY Bounds DEF Slots
    <3>3. j < i
      BY <2>3, <3>1, <3>2
    <3> QED
      BY <1>6, <2>1, <2>3, <3>3
  <2> QED
    BY <2>2, <2>3 DEF ChainOrder, Well, Failed
<1> QED
  BY <1>1, <1>3, <1>4, <1>5, <1>7 DEF SubIInv, SubTypeOK

LEMMA Settles ==
  ASSUME SubIInv, NEW i \in Slots, NEW t \in Task, NEW others \in Nat,
         Settle(i, t, others), t.exit # -1, t.temp # "dir",
         UNCHANGED <<mode, n, aborted>>,
         \/ Claimed(i) /\ others = free - 1
         \/ Worked(i) /\ others = free
  PROVE  SubIInv'
<1> DEFINE u == Cleaned([t EXCEPT !.at = "ended", !.alive = FALSE])
<1>1. u \in Task /\ u.at = "ended" /\ Sound(u) /\ ~Running(u)
      /\ u.exit = t.exit /\ u.stop = t.stop
  BY DEF Task, Cleaned, Sound, Running
<1>2. task' = [task EXCEPT ![i] = u]
  BY DEF Settle
<1> HIDE DEF u
<1>3. /\ task' \in [Slots -> Task] /\ nextIndex' \in 1..(MaxTasks + 1)
      /\ (\A j \in Slots : Sound(task[j]))'
      /\ Taken' /\ i < nextIndex'
      /\ (\E j \in Slots : task[j].at = "thrown")' <=> \E j \in Slots : task[j].at = "thrown"
  BY <1>1, <1>2, OneTask
<1>4. call \in {"running", "threw"}
  BY DEF SubIInv, Workers, Taken, Complete, Claimed, Worked, Active, SubTypeOK, Slots
<1>5. task'[i] = u /\ \A j \in Slots : j # i => task'[j] = task[j]
  BY <1>2 DEF SubIInv, SubTypeOK
<1>6. ASSUME mode = "chain"
      PROVE  /\ nextIndex' = i + 1 /\ nextIndex' \in Int /\ call = "running"
             /\ \A j \in Slots : j < i => Well(task[j])
  <2>1. CASE Claimed(i)
    <3>1. free = 1 /\ \A j \in Slots : j < i => Well(task[j])
      BY <1>6, <2>1, AlmostFree
    <3>2. call # "threw"
      BY <2>1, <3>1 DEF SubIInv, Workers, Taken, Well, Claimed, SubTypeOK, Slots
    <3> QED
      BY <1>4, <2>1, <3>1, <3>2, Bounds DEF Claimed, SubIInv, SubTypeOK
  <2>2. CASE Worked(i)
    BY <1>6, <2>2, ChainAlone, Bounds DEF Worked, SubIInv, SubTypeOK
  <2> QED
    BY <2>1, <2>2
<1>7. WithinLimit' /\ free' \in 0..MAX_CONCURRENCY
  <2>1. ActiveTasks \in SUBSET Slots /\ (Claimed(i) => ~Active(i))
    BY Bounds DEF ActiveTasks, SubIInv, Taken, Active, Claimed, SubTypeOK, Slots
  <2>2. Cardinality(ActiveTasks) \in Nat /\ Limit(mode, n) \in 1..MAX_CONCURRENCY
    BY <2>1, ActiveFinite, LimitType DEF SubIInv, SubTypeOK
  <2>3. Cardinality(ActiveTasks') =
          Cardinality(ActiveTasks) + (IF Running(u) THEN 1 ELSE 0) - (IF Active(i) THEN 1 ELSE 0)
    BY <1>1, <1>2, Counting
  <2>4. Active(i) => Cardinality(ActiveTasks) >= 1
    BY ActiveCount
  <2>5. free' = 0 \/ free' = others + 1
    BY DEF Settle
  <2>6. /\ Cardinality(ActiveTasks') + free' <= Cardinality(ActiveTasks) + free
        /\ Cardinality(ActiveTasks') \in Nat /\ free' \in Nat
    BY <1>1, <2>1, <2>2, <2>3, <2>4, <2>5 DEF SubIInv, SubTypeOK, Worked, Claimed
  <2>7. Limit(mode', n') = Limit(mode, n)
    OBVIOUS
  <2> QED
    BY <2>2, <2>6, <2>7, Bounds DEF SubIInv, WithinLimit, SubTypeOK
<1>8. ASSUME mode = "chain", Failed(t) PROVE SubIInv'
  <2>1. call' = "returned" /\ free' = 0 /\ Failed(u)
    BY <1>1, <1>8 DEF Settle, Failed
  <2>2. ~ \E j \in Slots : task[j].at = "thrown"
    BY <1>6, <1>8 DEF SubIInv, Workers
  <2>3. Workers'
    BY <1>3, <2>1, <2>2 DEF Workers
  <2>4. Complete'
    <3>1. ASSUME NEW j \in Slots, j < nextIndex' PROVE task'[j].at = "ended"
      <4>1. j = i \/ j < i
        BY <1>6, <1>8, <3>1, Bounds DEF Slots
      <4> QED
        BY <1>1, <1>5, <1>6, <1>8, <4>1, Bounds DEF Well, Slots
    <3>2. nextIndex' > 1 /\ task'[nextIndex' - 1] = u
      BY <1>5, <1>6, <1>8 DEF Slots
    <3> QED
      BY <1>8, <2>1, <3>1, <3>2 DEF Complete, Failed
  <2>5. ChainFree'
    BY <2>1 DEF ChainFree
  <2>6. ASSUME NEW j \in Slots, NEW k \in Slots, j < k, k < nextIndex' PROVE Well(task'[j])
    <3>1. j < i
      BY <1>6, <1>8, <2>6, Bounds DEF Slots
    <3> QED
      BY <1>5, <1>6, <1>8, <3>1 DEF Slots
  <2>7. ChainOrder'
    BY <2>6 DEF ChainOrder, Well, Failed
  <2> QED
    BY <1>3, <1>7, <2>1, <2>3, <2>4, <2>5, <2>7 DEF SubIInv, SubTypeOK
<1>9. ASSUME ~(mode = "chain" /\ Failed(t)) PROVE SubIInv'
  <2>1. call' = call
    BY <1>9 DEF Settle
  <2>2. Workers' /\ Complete'
    BY <1>3, <1>4, <2>1 DEF Workers, Complete, SubIInv
  <2>3. ASSUME mode' = "chain", NEW j \in Slots, j < nextIndex' PROVE Well(task'[j])
    <3>1. j = i \/ j < i
      BY <1>6, <2>3, Bounds DEF Slots
    <3>2. CASE j = i
      BY <1>1, <1>5, <1>9, <2>3, <3>2 DEF Well, Failed
    <3>3. CASE j < i
      BY <1>5, <1>6, <2>3, <3>3 DEF Slots
    <3> QED
      BY <3>1, <3>2, <3>3
  <2>4. ChainFree'
    BY <2>3 DEF ChainFree, Well, Failed
  <2>5. ASSUME mode' = "chain", NEW j \in Slots, NEW k \in Slots, j < k, k < nextIndex'
        PROVE  Well(task'[j])
    BY <1>3, <2>3, <2>5, Bounds DEF Slots
  <2>6. ChainOrder'
    BY <2>5 DEF ChainOrder, Well, Failed
  <2> QED
    BY <1>3, <1>7, <2>1, <2>2, <2>4, <2>6 DEF SubIInv, SubTypeOK
<1> QED
  BY <1>8, <1>9

LEMMA Throws ==
  ASSUME SubIInv, NEW i \in Slots, NEW t \in Task, Throw(i, t), UNCHANGED <<mode, n, aborted>>,
         Worked(i)
  PROVE  SubIInv'
<1> DEFINE u == Cleaned([t EXCEPT !.at = "thrown", !.alive = FALSE])
<1>1. u \in Task /\ u.at = "thrown" /\ Sound(u) /\ ~Running(u)
  BY DEF Task, Cleaned, Sound, Running
<1>2. task' = [task EXCEPT ![i] = u] /\ free' = free
  BY DEF Throw
<1> HIDE DEF u
<1>3. /\ task' \in [Slots -> Task] /\ nextIndex' \in 1..(MaxTasks + 1)
      /\ (\A j \in Slots : Sound(task[j]))'
      /\ Taken' /\ i < nextIndex'
      /\ (\E j \in Slots : task[j].at = "thrown")'
  BY <1>1, <1>2, OneTask
<1>4. call \in {"running", "threw"} /\ call' = "threw"
  BY DEF SubIInv, Workers, Taken, Complete, Worked, Active, SubTypeOK, Slots, Throw
<1>5. Workers' /\ Complete'
  BY <1>3, <1>4 DEF Workers, Complete
<1>6. WithinLimit'
  <2>1. Cardinality(ActiveTasks) \in Nat /\ Limit(mode, n) \in Nat
    BY ActiveFinite, LimitType, Bounds DEF ActiveTasks, SubIInv, SubTypeOK
  <2>2. Cardinality(ActiveTasks') =
          Cardinality(ActiveTasks) + (IF Running(u) THEN 1 ELSE 0) - (IF Active(i) THEN 1 ELSE 0)
    BY <1>1, <1>2, Counting
  <2>3. Limit(mode', n') = Limit(mode, n)
    OBVIOUS
  <2> QED
    BY <1>1, <1>2, <2>1, <2>2, <2>3 DEF SubIInv, WithinLimit, SubTypeOK, Worked
<1>7. ASSUME mode' = "chain" PROVE /\ free' = 0 /\ nextIndex' = i + 1 /\ nextIndex' \in Int
                                   /\ \A j \in Slots : j < i => Well(task[j])
  BY <1>2, <1>3, <1>7, ChainAlone DEF Worked
<1>8. ChainFree'
  BY <1>7 DEF ChainFree
<1>9. ASSUME mode' = "chain", NEW j \in Slots, NEW k \in Slots, j < k, k < nextIndex'
      PROVE  Well(task'[j])
  <2>1. j < i
    BY <1>7, <1>9, Bounds DEF Slots
  <2>2. task'[j] = task[j]
    BY <1>2, <2>1 DEF SubIInv, SubTypeOK, Slots
  <2> QED
    BY <1>7, <1>9, <2>1, <2>2
<1>10. ChainOrder'
  BY <1>9 DEF ChainOrder, Well, Failed
<1> QED
  BY <1>2, <1>3, <1>4, <1>5, <1>6, <1>8, <1>10 DEF SubIInv, SubTypeOK
-----------------------------------------------------------------------------
(* The initial states and the actions. *)

\* Before the first task is taken nothing is active, whatever mode the call has.
LEMMA Begins ==
  ASSUME SubIInv, nextIndex = 1, mode' \in {"single", "parallel", "chain"}, n' \in Slots,
         UNCHANGED <<nextIndex, task, aborted>>, call \in {"idle", "confirming", "refused"},
         \/ call' \in {"confirming", "refused"} /\ free' = 0
         \/ call' = "running" /\ free' = Limit(mode', n')
  PROVE  SubIInv'
<1>1. ActiveTasks' = {}
  BY DEF ActiveTasks, Active, SubIInv, Taken, SubTypeOK, Slots
<1>2. Cardinality(ActiveTasks') = 0
  BY <1>1, FS_EmptySet
<1>3. Limit(mode', n') \in 1..MAX_CONCURRENCY
  BY LimitType
<1>4. WithinLimit' /\ free' \in 0..MAX_CONCURRENCY
  BY <1>2, <1>3, Bounds DEF WithinLimit
<1>5. (\A i \in Slots : Sound(task[i]))'
  BY DEF SubIInv, Sound
<1>6. \A i \in Slots : task[i].at = "waiting" /\ i >= 1 /\ ~(i < 1)
  BY Bounds DEF SubIInv, Taken, Slots
<1>7. nextIndex' <= n' + 1
  <2>1. \A k \in Slots : 1 <= k + 1
    BY Bounds DEF Slots
  <2> QED
    BY <2>1
<1>8. Taken'
  BY <1>6, <1>7 DEF Taken
<1>9. Workers'
  BY DEF SubIInv, Workers
<1>10. Complete'
  BY DEF Complete
<1>11. ChainFree' /\ ChainOrder'
  BY <1>6 DEF ChainFree, ChainOrder
<1> QED
  BY <1>4, <1>5, <1>8, <1>9, <1>10, <1>11 DEF SubIInv, SubTypeOK

LEMMA SubInitInv == SubInit => SubIInv
<1> SUFFICES ASSUME SubInit PROVE SubIInv
  OBVIOUS
<1>1. Waiting \in Task
  BY DEF Waiting, Task
<1>2. 1 \in Slots /\ 1 \in 1..(MaxTasks + 1) /\ 0 \in 0..MAX_CONCURRENCY
  BY Bounds DEF Slots
<1>3. SubTypeOK
  BY <1>1, <1>2 DEF SubInit, SubTypeOK
<1>4. (\A i \in Slots : Sound(task[i])) /\ Taken
  BY Bounds DEF SubInit, Sound, Taken, Waiting, Slots
<1>5. Workers
  BY DEF SubInit, Workers, Waiting
<1>6. ActiveTasks = {}
  BY DEF SubInit, ActiveTasks, Active, Waiting
<1>7. WithinLimit
  BY <1>6, FS_EmptySet, Bounds DEF WithinLimit, SubInit, Limit
<1>8. ChainFree /\ ChainOrder /\ Complete
  BY DEF SubInit, ChainFree, ChainOrder, Complete
<1> QED
  BY <1>3, <1>4, <1>5, <1>7, <1>8 DEF SubIInv

LEMMA ExecuteStep == SubIInv /\ Execute => SubIInv'
<1> SUFFICES ASSUME SubIInv, Execute PROVE SubIInv'
  OBVIOUS
<1>1. nextIndex = 1 /\ call = "idle"
  BY DEF SubIInv, Workers, Execute
<1>2. \/ call' \in {"confirming", "refused"} /\ free' = 0
      \/ call' = "running" /\ free' = Limit(mode', n')
  BY DEF Execute, Begin
<1> QED
  BY <1>1, <1>2, Begins DEF Execute

LEMMA RefuseStep == SubIInv /\ Refuse => SubIInv'
<1> SUFFICES ASSUME SubIInv, Refuse PROVE SubIInv'
  OBVIOUS
<1>1. nextIndex = 1 /\ free = 0
  BY DEF SubIInv, Workers, Refuse
<1> QED
  BY <1>1, Begins DEF Refuse, SubIInv, SubTypeOK

LEMMA ApproveStep == SubIInv /\ Approve => SubIInv'
<1> SUFFICES ASSUME SubIInv, Approve PROVE SubIInv'
  OBVIOUS
<1>1. nextIndex = 1
  BY DEF SubIInv, Workers, Approve
<1> QED
  BY <1>1, Begins DEF Approve, Begin, SubIInv, SubTypeOK

LEMMA ClaimStep == SubIInv /\ Claim => SubIInv'
<1> SUFFICES ASSUME SubIInv, Claim PROVE SubIInv'
  OBVIOUS
<1>1. /\ nextIndex \in Slots /\ Claimed(nextIndex)
      /\ task[nextIndex] = Waiting /\ task[nextIndex] \in Task /\ free - 1 \in Nat
  BY Bounds DEF Claim, Claimed, SubIInv, Sound, Taken, SubTypeOK, Slots
<1>2. CASE Settle(nextIndex, [task[nextIndex] EXCEPT !.exit = 1], free - 1)
  <2> DEFINE t == [task[nextIndex] EXCEPT !.exit = 1]
  <2>1. t \in Task
    BY <1>1 DEF Task
  <2>2. t.exit # -1 /\ t.temp # "dir"
    BY <1>1 DEF Task, Waiting
  <2>3. Settle(nextIndex, t, free - 1)
    BY <1>2
  <2> HIDE DEF t
  <2> QED
    BY <1>1, <2>1, <2>2, <2>3, Settles DEF Claim
<1>3. CASE /\ task' = [task EXCEPT ![nextIndex].at = "mkdtemp"]
           /\ free' = free - 1 /\ call' = call
  <2> DEFINE u == [task[nextIndex] EXCEPT !.at = "mkdtemp"]
  <2>1. u \in Task
    BY <1>1 DEF Task
  <2>2. Running(u) /\ Sound(u)
    BY <1>1 DEF Task, Waiting, Running, Sound
  <2>3. task' = [task EXCEPT ![nextIndex] = u]
    BY <1>3
  <2> HIDE DEF u
  <2> QED
    BY <1>1, <1>3, <2>1, <2>2, <2>3, SubMoves DEF Claim
<1>4. CASE \E starts \in BOOLEAN :
             /\ task' = [task EXCEPT ![nextIndex] = Spawned(@, starts)]
             /\ free' = free - 1 /\ call' = call
  <2>1. PICK starts \in BOOLEAN : task' = [task EXCEPT ![nextIndex] = Spawned(@, starts)]
    BY <1>4
  <2> DEFINE u == Spawned(task[nextIndex], starts)
  <2>2. u \in Task
    BY <1>1 DEF Task, Spawned, SubIInv, SubTypeOK
  <2>3. Running(u) /\ Sound(u)
    BY <1>1 DEF Task, Waiting, Running, Sound, Spawned, SubIInv, SubTypeOK
  <2>4. task' = [task EXCEPT ![nextIndex] = u]
    BY <2>1
  <2> HIDE DEF u
  <2> QED
    BY <1>1, <1>4, <2>2, <2>3, <2>4, SubMoves DEF Claim
<1> QED
  BY <1>2, <1>3, <1>4 DEF Claim

LEMMA MakeDirStep == ASSUME SubIInv, NEW i \in Slots, MakeDir(i) PROVE SubIInv'
<1>1. Worked(i) /\ task[i] \in Task /\ Sound(task[i]) /\ ~task[i].alive
  BY DEF MakeDir, Worked, Active, SubIInv, SubTypeOK, Sound
<1>2. CASE /\ task' = [task EXCEPT ![i].at = "write", ![i].temp = "dir"]
           /\ UNCHANGED <<call, free>>
  <2> DEFINE u == [task[i] EXCEPT !.at = "write", !.temp = "dir"]
  <2>1. u \in Task /\ Running(u) /\ Sound(u)
    BY <1>1 DEF Task, Running, Sound
  <2>2. task' = [task EXCEPT ![i] = u]
    BY <1>2 DEF SubIInv, SubTypeOK
  <2> HIDE DEF u
  <2> QED
    BY <1>1, <1>2, <2>1, <2>2, SubMoves DEF MakeDir
<1>3. CASE Throw(i, task[i])
  BY <1>1, <1>3, Throws DEF MakeDir
<1> QED
  BY <1>2, <1>3 DEF MakeDir

LEMMA WritePromptStep == ASSUME SubIInv, NEW i \in Slots, WritePrompt(i) PROVE SubIInv'
<1>1. Worked(i) /\ task[i] \in Task
  BY DEF WritePrompt, Worked, Active, SubIInv, SubTypeOK
<1>2. CASE \E starts \in BOOLEAN :
             /\ task' = [task EXCEPT ![i] = Spawned([@ EXCEPT !.temp = "file"], starts)]
             /\ UNCHANGED <<call, free>>
  <2>1. PICK starts \in BOOLEAN :
          task' = [task EXCEPT ![i] = Spawned([@ EXCEPT !.temp = "file"], starts)]
    BY <1>2
  <2> DEFINE u == Spawned([task[i] EXCEPT !.temp = "file"], starts)
  <2>2. u \in Task /\ Running(u) /\ Sound(u)
    BY <1>1 DEF Task, Running, Sound, Spawned, SubIInv, SubTypeOK
  <2>3. task' = [task EXCEPT ![i] = u]
    BY <2>1
  <2> HIDE DEF u
  <2> QED
    BY <1>1, <1>2, <2>2, <2>3, SubMoves DEF WritePrompt
<1>3. CASE Throw(i, task[i])
  BY <1>1, <1>3, Throws DEF WritePrompt
<1> QED
  BY <1>2, <1>3 DEF WritePrompt

LEMMA MessageStep == ASSUME SubIInv, NEW i \in Slots, Message(i) PROVE SubIInv'
<1>1. Worked(i) /\ task[i] \in Task /\ Sound(task[i])
  BY DEF Message, Worked, Active, SubIInv, SubTypeOK
<1>2. PICK s \in {"ok", "error"} : task' = [task EXCEPT ![i].stop = s, ![i].exit = 0]
  BY DEF Message
<1> DEFINE u == [task[i] EXCEPT !.stop = s, !.exit = 0]
<1>3. u \in Task /\ Running(u) /\ Sound(u)
  BY <1>1 DEF Task, Running, Sound, Message
<1>4. task' = [task EXCEPT ![i] = u]
  BY <1>2 DEF SubIInv, SubTypeOK
<1> HIDE DEF u
<1> QED
  BY <1>1, <1>3, <1>4, SubMoves DEF Message

LEMMA CloseStep == ASSUME SubIInv, NEW i \in Slots, Close(i) PROVE SubIInv'
<1>1. /\ Worked(i) /\ task[i] \in Task /\ task[i].temp # "dir"
      /\ free \in Nat
  BY Bounds DEF Close, Worked, Active, SubIInv, SubTypeOK, Sound
<1>2. PICK code \in {0, 1} :
        LET t == [task[i] EXCEPT !.exit = code]
        IN IF t.told THEN Throw(i, t) ELSE Settle(i, t, free)
  BY DEF Close
<1> DEFINE t == [task[i] EXCEPT !.exit = code]
<1>3. t \in Task /\ t.exit # -1 /\ t.temp # "dir"
  BY <1>1 DEF Task
<1>4. Throw(i, t) \/ Settle(i, t, free)
  BY <1>2
<1> HIDE DEF t
<1> QED
  BY <1>1, <1>3, <1>4, Settles, Throws DEF Close

\* Steps that leave every task at its await.
LEMMA ReturnStep == SubIInv /\ Return => SubIInv'
<1> SUFFICES ASSUME SubIInv, Return PROVE SubIInv'
  OBVIOUS
<1>1. nextIndex = n + 1 /\ \A i \in Slots : task[i].at \in {"waiting", "ended"}
  BY Bounds DEF Return, SubIInv, Taken, Workers, Active, SubTypeOK, Task, Slots
<1>2. ActiveTasks' = {}
  BY <1>1 DEF ActiveTasks, Active, Return
<1>3. WithinLimit' /\ free' \in 0..MAX_CONCURRENCY
  BY <1>2, FS_EmptySet, LimitType, Bounds DEF WithinLimit, Return, SubIInv, SubTypeOK
<1>4. Workers'
  BY <1>1 DEF Workers, Return
<1>5. Complete'
  <2>1. \A i \in Slots : i < nextIndex => task[i].at = "ended"
    BY <1>1, Bounds DEF SubIInv, Taken, SubTypeOK, Slots
  <2> QED
    BY <1>1, <2>1 DEF Complete, Return
<1>6. (\A i \in Slots : Sound(task[i]))' /\ Taken'
  BY DEF Return, SubIInv, Sound, Taken
<1>7. ChainFree' /\ ChainOrder'
  BY DEF Return, SubIInv, ChainFree, ChainOrder, Well, Failed
<1> QED
  BY <1>3, <1>4, <1>5, <1>6, <1>7 DEF SubIInv, SubTypeOK, Return

LEMMA AbortStep == SubIInv /\ Abort => SubIInv'
<1> SUFFICES ASSUME SubIInv, Abort PROVE SubIInv'
  OBVIOUS
<1>1. /\ task' \in [Slots -> Task]
      /\ \A i \in Slots : /\ task'[i].at = task[i].at /\ task'[i].exit = task[i].exit
                          /\ task'[i].stop = task[i].stop /\ task'[i].temp = task[i].temp
                          /\ task'[i].alive => task[i].alive
                          /\ task[i].at = "up" => task'[i].told
  BY DEF Abort, SubIInv, SubTypeOK, Task
<1>2. \A i \in Slots : task[i].at = "waiting" => task'[i] = task[i]
  BY DEF Abort, SubIInv, SubTypeOK, Task, Sound, Waiting
<1>3. Taken'
  BY <1>1 DEF SubIInv, Taken, Abort
<1>4. (\A i \in Slots : Sound(task[i]))'
  BY <1>1, <1>2 DEF SubIInv, Sound, Abort
<1>5. ActiveTasks' = ActiveTasks
  BY <1>1 DEF ActiveTasks, Active
<1>6. WithinLimit'
  BY <1>5 DEF WithinLimit, SubIInv, Abort
<1>7. Workers'
  BY <1>1 DEF Workers, SubIInv, Abort
<1>8. Complete'
  BY DEF Complete, Abort
<1>9. \A i \in Slots : Well(task'[i]) <=> Well(task[i])
  BY <1>1 DEF Well, Failed
<1>10. ChainFree' /\ ChainOrder'
  BY <1>9 DEF ChainFree, ChainOrder, SubIInv, Abort
<1> QED
  BY <1>1, <1>3, <1>4, <1>6, <1>7, <1>8, <1>10 DEF SubIInv, SubTypeOK, Abort

LEMMA SubStutterStep == SubIInv /\ UNCHANGED subVars => SubIInv'
BY DEF SubIInv, subVars, SubTypeOK, Sound, Taken, Workers, WithinLimit, ActiveTasks, Active,
       ChainFree, ChainOrder, Well, Failed, Complete

LEMMA SubNextStep == SubIInv /\ [SubNext]_subVars => SubIInv'
BY ExecuteStep, RefuseStep, ApproveStep, ClaimStep, MakeDirStep, WritePromptStep, MessageStep,
   CloseStep, ReturnStep, AbortStep, SubStutterStep DEF SubNext
-----------------------------------------------------------------------------
(* The inductive invariant: tasks are taken in order, a chain's steps ended *)
(* well before the next was taken, and a child that runs under a fired      *)
(* signal was told (index.ts:219-237, 399-409, 530-581).                    *)
THEOREM SubInductive == SubSpec => []SubIInv
<1>1. SubInit => SubIInv
  BY SubInitInv
<1>2. SubIInv /\ [SubNext]_subVars => SubIInv'
  BY SubNextStep
<1> QED
  BY <1>1, <1>2, PTL DEF SubSpec

(* Every variable of a call keeps its type, for any limits (index.ts:149-161). *)
THEOREM SubTypeCorrect == SubSpec => []SubTypeOK
<1>1. SubIInv => SubTypeOK
  BY DEF SubIInv
<1> QED
  BY <1>1, SubInductive, PTL

LEMMA InvTaken == SubIInv => InOrder
<1> SUFFICES ASSUME SubIInv PROVE InOrder
  OBVIOUS
<1>1. \A i \in Slots : task[i].at # "waiting" <=> i \in 1..(nextIndex - 1)
  BY Bounds DEF SubIInv, Taken, SubTypeOK, Slots
<1>2. 1..(nextIndex - 1) \subseteq Slots
  BY Bounds DEF SubIInv, SubTypeOK, Slots
<1> QED
  BY <1>1, <1>2 DEF InOrder, Begun, SubIInv, Taken

LEMMA InvChain == SubIInv => ChainStops
<1> SUFFICES ASSUME SubIInv, mode = "chain", NEW i \in Begun, NEW j \in 1..(i - 1)
             PROVE  Well(task[j])
  BY DEF ChainStops, Well
<1>1. i \in Slots /\ i < nextIndex
  BY Bounds DEF SubIInv, Taken, SubTypeOK, Begun, Slots
<1>2. j \in Slots /\ j < i
  BY <1>1, Bounds DEF Slots
<1> QED
  BY <1>1, <1>2 DEF SubIInv, ChainOrder

LEMMA InvComplete == SubIInv => ResultsComplete /\ ViewTells
<1> SUFFICES ASSUME SubIInv, call = "returned" PROVE ResultsComplete /\ ViewTells
  BY DEF ResultsComplete, ViewTells
<1>1. Begun = 1..(nextIndex - 1) /\ Begun \subseteq Slots
  BY InvTaken DEF InOrder, Begun
<1>2. \A i \in Begun : task[i].at = "ended" /\ task[i] \in Task /\ task[i].exit # -1
  BY <1>1, Bounds DEF SubIInv, Complete, Sound, SubTypeOK, Begun, Slots
<1>3. ActiveTasks = {}
  BY <1>2 DEF ActiveTasks, Active, Begun
<1>4. Begun = 1..n \/ (mode = "chain" /\ Failed(task[nextIndex - 1]))
  BY <1>1, Bounds DEF SubIInv, Complete, SubTypeOK, Slots
<1>5. ViewTells
  <2> SUFFICES ASSUME NEW i \in Begun
               PROVE  /\ Icon(task[i]) # "running"
                      /\ (Icon(task[i]) = "done" /\ Failed(task[i])) =>
                            (mode = "chain" /\ task[i].stop = "error")
    BY DEF ViewTells
  <2>1. CASE mode = "single"
    BY <1>2, <2>1 DEF Icon, SingleIcon
  <2>2. CASE mode = "chain"
    BY <1>2, <2>2 DEF Icon, ChainIcon, Failed
  <2>3. CASE mode = "parallel"
    BY <1>2, <2>3 DEF Icon, ParallelIcon
  <2> QED
    BY <2>1, <2>2, <2>3 DEF SubIInv, SubTypeOK
<1> QED
  BY <1>2, <1>3, <1>4, <1>5 DEF ResultsComplete

LEMMA InvNothing == SubIInv => NothingLeftBehind
BY DEF SubIInv, SubTypeOK, Task, Sound, NothingLeftBehind, Waiting

(* mapWithConcurrencyLimit runs every task once, in order and within the    *)
(* limit; what a call returns is complete, and no process and no prompt     *)
(* file stays (index.ts:219-237, 414-428).                                  *)
THEOREM PoolExact == SubSpec => []PoolIsExact
<1>1. SubIInv => PoolIsExact
  BY InvTaken, InvChain, InvComplete, InvNothing DEF PoolIsExact, SubIInv
<1> QED
  BY <1>1, SubInductive, PTL

(* However the abort falls between the awaits of the workers, no child runs *)
(* on without having been sent SIGTERM, even one spawned after the call was *)
(* rejected (index.ts:399-409).                                             *)
THEOREM AbortReaches == SubSpec => []AbortReachesAll
<1>1. SubIInv => AbortReachesAll
  BY DEF SubIInv, Sound, AbortReachesAll
<1> QED
  BY <1>1, SubInductive, PTL

-----------------------------------------------------------------------------
(***************************************************************************)
(* The tools follow the mode and the progress is real, for plans of any     *)
(* length and any sequence of toggles, dialogs, messages and restarts.      *)
(***************************************************************************)

Plans == UNION {[1..k -> BOOLEAN] : k \in 0..MaxSteps}

Entries == [enabled : BOOLEAN, executing : BOOLEAN, todos : Plans,
            before : (SUBSET Tools) \cup {Undefined}, is : BOOLEAN]

PlanTypes ==
  /\ usual \in {Tools, NORMAL_MODE_TOOLS}
  /\ planMode \in BOOLEAN /\ executing \in BOOLEAN /\ lost \in BOOLEAN /\ due \in BOOLEAN
  /\ todos \in Plans
  /\ asks \in {"none", "select", "editor"}
  /\ agent \in {"idle", "working", "said"}
  /\ message \subseteq 1..MaxSteps /\ since \subseteq 1..MaxSteps /\ mine \subseteq 1..MaxSteps
  /\ entry \in Entries

\* A dialog and the message that is on its way exclude a running agent and each other.
Turns ==
  /\ asks # "none" => agent = "idle" /\ ~due
  /\ due => agent = "idle" /\ mine = {}
  /\ asks = "select" /\ todos # <<>> => planMode

\* The entry is what the closure was when it was written: a process that starts from it has its modes.
Saved ==
  /\ entry.executing = executing
  /\ entry.is => entry.enabled = planMode
  /\ ~entry.is => entry.before = Undefined /\ ~entry.executing /\ entry.todos = <<>>
  /\ entry.is => entry.before = IF entry.enabled THEN usual ELSE Undefined
  /\ DOMAIN entry.todos = DOMAIN todos
  /\ \A i \in DOMAIN todos : entry.todos[i] => todos[i]

\* The file tells the steps of this execution from those of earlier ones once it has the execute message.
Counted ==
  /\ mine \subseteq since
  /\ executing /\ ~lost /\ ~due => since = mine
  /\ executing => message \subseteq mine
  /\ agent # "said" => message = {}

\* A plan in the making has no completed step; of one that is executed a reported step is
\* marked, or the turn that marks it has yet to end.
Marked ==
  /\ planMode => Completed(todos) = {}
  /\ executing =>
       /\ ~lost => Completed(todos) \subseteq mine
       /\ \A i \in DOMAIN todos \cap mine : todos[i] \/ (agent = "said" /\ i \in message)

PlanIInv == PlanTypes /\ ToolsFollowMode /\ Turns /\ Saved /\ Counted /\ Marked
-----------------------------------------------------------------------------
LEMMA Empty == <<>> \in Plans /\ DOMAIN <<>> = {}
<1>1. <<>> \in [1..0 -> BOOLEAN] /\ DOMAIN <<>> = {}
  OBVIOUS
<1>2. 0 \in 0..MaxSteps
  BY MaxStepsAssumption
<1> QED
  BY <1>1, <1>2 DEF Plans

LEMMA PlanIsList == ASSUME NEW list \in Plans
                    PROVE  list \in Seq(BOOLEAN) /\ Len(list) <= MaxSteps
<1>1. PICK k \in 0..MaxSteps : list \in [1..k -> BOOLEAN]
  BY DEF Plans
<1>2. k \in Nat /\ k <= MaxSteps
  BY MaxStepsAssumption
<1> QED
  BY <1>1, <1>2, MaxStepsAssumption

\* A plan of which some steps are marked is a plan of the same length.
LEMMA MarkedPlan == ASSUME NEW list \in Plans, NEW P \in SUBSET (1..MaxSteps)
                    PROVE  [i \in DOMAIN list |-> list[i] \/ i \in P] \in Plans
  BY DEF Plans

LEMMA NotUndefined == usual \in {Tools, NORMAL_MODE_TOOLS} =>
  /\ usual # Undefined /\ usual \in SUBSET Tools
  /\ GetPlanModeTools(usual) \in SUBSET Tools
  BY DEF Tools, NORMAL_MODE_TOOLS, Undefined, GetPlanModeTools, PLAN_MODE_TOOLS

LEMMA PlanInitInv == PlanInit => PlanIInv
<1> SUFFICES ASSUME PlanInit PROVE PlanIInv
  OBVIOUS
<1>1. NoEntry \in Entries
  BY Empty DEF NoEntry, Entries
<1>2. PlanTypes
  BY <1>1, Empty DEF PlanTypes, PlanInit
<1>3. ToolsFollowMode
  <2>1. PICK flag \in BOOLEAN :
          /\ planMode = flag
          /\ before = (IF flag THEN usual ELSE Undefined)
          /\ active = (IF flag THEN GetPlanModeTools(usual) ELSE usual)
          /\ shown = Status(flag, FALSE, <<>>)
    BY DEF PlanInit
  <2> QED
    BY <2>1 DEF ToolsFollowMode, PlanInit
<1>4. Turns /\ Counted /\ Marked
  BY Empty DEF Turns, Counted, Marked, Completed, PlanInit
<1>5. Saved
  BY Empty DEF Saved, PlanInit, NoEntry
<1> QED
  BY <1>2, <1>3, <1>4, <1>5 DEF PlanIInv
-----------------------------------------------------------------------------
(* One lemma per action. *)

\* What a process finds when it starts with the tools and the entry it has.
LEMMA RestartStep == PlanIInv /\ Restart => PlanIInv'
<1> SUFFICES ASSUME PlanIInv, NEW flag \in BOOLEAN, Start(flag, entry, since),
                    lost' = (lost \/ due), UNCHANGED <<usual, entry, since, mine>>
             PROVE  PlanIInv'
  BY DEF Restart
<1> DEFINE plan == IF entry.is THEN entry.enabled ELSE flag
           resumed == entry.is /\ entry.executing /\ entry.todos # <<>>
<1>1. /\ planMode' = plan /\ executing' = entry.executing
      /\ todos' = [i \in DOMAIN entry.todos |-> entry.todos[i] \/ (resumed /\ i \in since)]
      /\ shown' = Status(planMode', executing', todos')
      /\ asks' = "none" /\ agent' = "idle" /\ message' = {} /\ due' = FALSE
  BY DEF Start, UpdateStatus
<1>2. /\ entry \in Entries /\ usual \in {Tools, NORMAL_MODE_TOOLS}
      /\ plan \in BOOLEAN
  BY DEF PlanIInv, PlanTypes, Entries
<1>3. entry.todos \in Plans /\ entry.executing \in BOOLEAN /\ entry.is \in BOOLEAN
  BY <1>2 DEF Entries
<1>4. todos' \in Plans /\ DOMAIN todos' = DOMAIN entry.todos
  BY <1>1, <1>3 DEF Plans
<1>5. PlanTypes'
  BY <1>1, <1>2, <1>3, <1>4 DEF PlanTypes, PlanIInv
<1>6. ASSUME plan PROVE ToolsFollowMode'
  <2>1. entry.before \in {usual, Undefined} /\ ~entry.executing
    BY <1>6 DEF PlanIInv, Saved, ToolsFollowMode
  <2>2. before' = usual /\ active' = GetPlanModeTools(usual)
    BY <1>6, <2>1 DEF Start, EnablePlanModeTools
  <2> QED
    BY <1>1, <1>2, <1>6, <2>1, <2>2 DEF ToolsFollowMode
<1>7. ASSUME ~plan PROVE ToolsFollowMode'
  <2>1. before' = Undefined /\ active' = usual
    BY <1>7 DEF Start, PlanIInv, Saved
  <2> QED
    BY <1>1, <1>7, <2>1 DEF ToolsFollowMode
<1>8. ToolsFollowMode'
  BY <1>6, <1>7
<1>9. Turns'
  BY <1>1 DEF Turns
<1>10. Saved'
  <2>1. entry.is => entry.enabled = planMode'
    BY <1>1
  <2> QED
    BY <1>1, <1>3, <1>4, <2>1 DEF Saved, PlanIInv, Plans
<1>11. Counted'
  BY <1>1 DEF PlanIInv, Saved, Counted, PlanTypes
<1>12. ASSUME planMode' PROVE Completed(todos') = {}
  <2>1. ~resumed /\ (entry.is => planMode)
    BY <1>1, <1>3, <1>8, <1>12 DEF ToolsFollowMode, PlanIInv, Saved
  <2>2. \A i \in DOMAIN entry.todos : ~entry.todos[i]
    BY <1>3, <2>1, Empty DEF PlanIInv, Saved, Marked, Completed
  <2>3. \A i \in DOMAIN todos' : ~todos'[i]
    BY <1>1, <2>1, <2>2
  <2> QED
    BY <2>3 DEF Completed
<1>13. ASSUME executing'
       PROVE  /\ ~lost' => Completed(todos') \subseteq mine
              /\ \A i \in DOMAIN todos' \cap mine : todos'[i]
  <2>1. executing /\ entry.is /\ entry.executing
    BY <1>1, <1>3, <1>13 DEF PlanIInv, Saved
  <2>2. ASSUME NEW i \in DOMAIN todos' PROVE todos'[i] <=> entry.todos[i] \/ i \in since
    <3>1. i \in DOMAIN entry.todos
      BY <1>1
    <3>2. entry.todos # <<>>
      BY <3>1, Empty
    <3>3. resumed
      BY <2>1, <3>2
    <3> QED
      BY <1>1, <3>1, <3>3
  <2>3. mine \subseteq since
    BY DEF PlanIInv, Counted
  <2>4. ASSUME ~lost', NEW i \in DOMAIN todos', todos'[i] PROVE i \in mine
    <3>1. since = mine /\ Completed(todos) \subseteq mine
      BY <2>1, <2>4 DEF PlanIInv, Counted, Marked
    <3>2. entry.todos[i] => todos[i] /\ i \in DOMAIN todos
      BY <1>4, <2>4 DEF PlanIInv, Saved
    <3> QED
      BY <2>2, <2>4, <3>1, <3>2 DEF Completed
  <2> QED
    BY <2>2, <2>3, <2>4 DEF Completed
<1>14. Marked'
  BY <1>12, <1>13 DEF Marked
<1> QED
  BY <1>5, <1>8, <1>9, <1>10, <1>11, <1>14 DEF PlanIInv

LEMMA ToggleStep == PlanIInv /\ TogglePlanMode => PlanIInv'
<1> SUFFICES ASSUME PlanIInv, TogglePlanMode PROVE PlanIInv'
  OBVIOUS
<1>1. /\ planMode' = ~planMode /\ executing' = FALSE /\ todos' = <<>>
      /\ UNCHANGED <<usual, asks, agent, message, due, since, mine, lost>>
      /\ shown' = Status(planMode', executing', todos')
      /\ entry' = [enabled |-> planMode', executing |-> FALSE, todos |-> <<>>,
                   before |-> before', is |-> TRUE]
  BY DEF TogglePlanMode, UpdateStatus, PersistState
<1>2. /\ planMode \in BOOLEAN /\ usual \in {Tools, NORMAL_MODE_TOOLS}
      /\ usual # Undefined /\ usual \in SUBSET Tools
  BY NotUndefined DEF PlanIInv, PlanTypes
<1>3. ASSUME planMode PROVE ToolsFollowMode'
  <2>1. ~planMode' /\ before' = Undefined /\ active' = usual
    BY <1>1, <1>2, <1>3 DEF TogglePlanMode, RestoreNormalModeTools, PlanIInv, ToolsFollowMode
  <2> QED
    BY <1>1, <2>1 DEF ToolsFollowMode
<1>4. ASSUME ~planMode PROVE ToolsFollowMode'
  <2>1. planMode' /\ before' = usual /\ active' = GetPlanModeTools(usual)
    BY <1>1, <1>2, <1>4 DEF TogglePlanMode, EnablePlanModeTools, PlanIInv, ToolsFollowMode
  <2> QED
    BY <1>1, <2>1 DEF ToolsFollowMode
<1>5. ToolsFollowMode'
  BY <1>2, <1>3, <1>4
<1>6. before' \in (SUBSET Tools) \cup {Undefined} /\ planMode' \in BOOLEAN
  BY <1>1, <1>2, <1>5 DEF ToolsFollowMode
<1>7. entry' \in Entries
  BY <1>1, <1>6, Empty DEF Entries
<1>8. PlanTypes'
  BY <1>1, <1>6, <1>7, Empty DEF PlanTypes, PlanIInv
<1>9. Turns' /\ Counted' /\ Marked'
  BY <1>1, Empty DEF Turns, Counted, Marked, Completed, PlanIInv
<1>10. Saved'
  BY <1>1, <1>5, Empty DEF Saved, ToolsFollowMode
<1> QED
  BY <1>5, <1>8, <1>9, <1>10 DEF PlanIInv

LEMMA SayStep == PlanIInv /\ Say => PlanIInv'
<1> SUFFICES ASSUME PlanIInv, Say PROVE PlanIInv'
  OBVIOUS
<1>1. PICK steps \in SUBSET (1..MaxSteps) :
        /\ since' = since \cup steps
        /\ mine' = IF executing THEN mine \cup steps ELSE mine
        /\ message' = steps
  BY DEF Say
<1>2. /\ agent = "working" /\ agent' = "said"
      /\ UNCHANGED <<usual, planMode, executing, todos, before, active, shown, asks, due, entry, lost>>
  BY DEF Say, memory
<1>3. PlanTypes' /\ ToolsFollowMode' /\ Saved'
  BY <1>1, <1>2 DEF PlanIInv, PlanTypes, ToolsFollowMode, Saved
<1>4. Turns' /\ Counted'
  BY <1>1, <1>2 DEF PlanIInv, Turns, Counted
<1>5. Marked'
  BY <1>1, <1>2 DEF PlanIInv, Marked, Completed
<1> QED
  BY <1>3, <1>4, <1>5 DEF PlanIInv

LEMMA TurnEndStep == PlanIInv /\ TurnEnd => PlanIInv'
<1> SUFFICES ASSUME PlanIInv, TurnEnd PROVE PlanIInv'
  OBVIOUS
<1>1. /\ agent = "said" /\ agent' = "working" /\ message' = {}
      /\ UNCHANGED <<usual, asks, due, since, mine, lost>>
  BY DEF TurnEnd
<1>2. CASE executing /\ todos # <<>>
  <2>1. /\ todos' = [i \in DOMAIN todos |-> todos[i] \/ i \in message]
        /\ UNCHANGED <<planMode, executing, before, active>>
        /\ shown' = Status(planMode', executing', todos')
        /\ entry' = [enabled |-> planMode', executing |-> executing', todos |-> todos',
                     before |-> before', is |-> TRUE]
    BY <1>2 DEF TurnEnd, UpdateStatus, PersistState
  <2>2. todos' \in Plans /\ DOMAIN todos' = DOMAIN todos
    BY <2>1 DEF PlanIInv, PlanTypes, Plans
  <2>3. ToolsFollowMode'
    BY <1>1, <2>1 DEF PlanIInv, ToolsFollowMode
  <2>4. before' \in (SUBSET Tools) \cup {Undefined}
    BY <1>1, <2>3, NotUndefined DEF ToolsFollowMode, PlanIInv, PlanTypes
  <2>5. entry' \in Entries
    BY <2>1, <2>2, <2>4 DEF Entries, PlanIInv, PlanTypes
  <2>6. PlanTypes'
    BY <1>1, <2>1, <2>2, <2>5 DEF PlanTypes, PlanIInv
  <2>7. Turns' /\ Counted'
    BY <1>1, <2>1 DEF Turns, Counted, PlanIInv
  <2>8. Saved'
    BY <1>1, <2>1, <2>3 DEF Saved, ToolsFollowMode
  <2>9. Marked'
    <3>1. \A i \in DOMAIN todos : todos'[i] <=> todos[i] \/ i \in message
      BY <2>1 DEF PlanIInv, PlanTypes, Plans
    <3>2. ~planMode'
      BY <1>2, <2>1 DEF PlanIInv, ToolsFollowMode
    <3>3. \A i \in DOMAIN todos' \cap mine' : todos'[i]
      BY <1>1, <1>2, <2>2, <3>1 DEF PlanIInv, Marked
    <3>4. ASSUME ~lost' PROVE Completed(todos') \subseteq mine'
      <4>1. Completed(todos) \subseteq mine
        BY <1>1, <1>2, <3>4 DEF PlanIInv, Marked
      <4>2. message \subseteq mine
        BY <1>2 DEF PlanIInv, Counted
      <4> QED
        BY <1>1, <2>2, <3>1, <4>1, <4>2 DEF Completed
    <3> QED
      BY <3>2, <3>3, <3>4 DEF Marked
  <2> QED
    BY <2>3, <2>6, <2>7, <2>8, <2>9 DEF PlanIInv
<1>3. CASE ~(executing /\ todos # <<>>)
  <2>1. UNCHANGED <<planMode, executing, todos, before, active, shown, entry>>
    BY <1>3 DEF TurnEnd, memory
  <2>2. PlanTypes' /\ ToolsFollowMode' /\ Turns' /\ Saved' /\ Counted'
    BY <1>1, <2>1 DEF PlanIInv, PlanTypes, ToolsFollowMode, Turns, Saved, Counted
  <2>3. Marked'
    BY <1>1, <1>3, <2>1, Empty DEF PlanIInv, Marked
  <2> QED
    BY <2>2, <2>3 DEF PlanIInv
<1> QED
  BY <1>2, <1>3

LEMMA ExecutionEndStep == PlanIInv /\ ExecutionEnd => PlanIInv'
<1> SUFFICES ASSUME PlanIInv, ExecutionEnd PROVE PlanIInv'
  OBVIOUS
<1>1. /\ agent = "working" /\ agent' = "idle"
      /\ UNCHANGED <<usual, asks, message, due, since, mine, lost>>
      /\ executing
  BY DEF ExecutionEnd
<1>2. asks = "none" /\ ~due
  BY <1>1 DEF PlanIInv, Turns, PlanTypes
<1>3. CASE \A i \in DOMAIN todos : todos[i]
  <2>1. /\ executing' = FALSE /\ todos' = <<>>
        /\ UNCHANGED <<planMode, before, active>>
        /\ shown' = Status(planMode', executing', todos')
        /\ entry' = [enabled |-> planMode', executing |-> FALSE, todos |-> <<>>,
                     before |-> before', is |-> TRUE]
    BY <1>3 DEF ExecutionEnd, UpdateStatus, PersistState
  <2>2. ToolsFollowMode'
    BY <1>1, <2>1 DEF PlanIInv, ToolsFollowMode
  <2>3. before' \in (SUBSET Tools) \cup {Undefined}
    BY <1>1, <2>2, NotUndefined DEF ToolsFollowMode, PlanIInv, PlanTypes
  <2>4. entry' \in Entries
    BY <2>1, <2>3, Empty DEF Entries, PlanIInv, PlanTypes
  <2>5. PlanTypes'
    BY <1>1, <2>1, <2>4, Empty DEF PlanTypes, PlanIInv
  <2>6. Turns' /\ Counted' /\ Marked'
    BY <1>1, <1>2, <2>1, Empty DEF Turns, Counted, Marked, Completed, PlanIInv
  <2>7. Saved'
    BY <1>1, <2>1, <2>2, Empty DEF Saved, ToolsFollowMode
  <2> QED
    BY <2>2, <2>5, <2>6, <2>7 DEF PlanIInv
<1>4. CASE ~ \A i \in DOMAIN todos : todos[i]
  <2>1. UNCHANGED <<planMode, executing, todos, before, active, shown, entry>>
    BY <1>4 DEF ExecutionEnd, memory
  <2> QED
    BY <1>1, <1>2, <2>1 DEF PlanIInv, PlanTypes, ToolsFollowMode, Turns, Saved, Counted, Marked
<1> QED
  BY <1>3, <1>4

LEMMA PlanningEndStep == PlanIInv /\ PlanningEnd => PlanIInv'
<1> SUFFICES ASSUME PlanIInv, PlanningEnd PROVE PlanIInv'
  OBVIOUS
<1>1. /\ agent = "working" /\ agent' = "idle"
      /\ UNCHANGED <<usual, message, due, since, mine, lost>>
      /\ asks = "none" /\ ~due
  BY DEF PlanningEnd, PlanIInv, Turns, PlanTypes
<1>2. CASE UNCHANGED <<memory, entry, asks>>
  BY <1>1, <1>2 DEF PlanIInv, PlanTypes, ToolsFollowMode, Turns, Saved, Counted, Marked, memory
<1>3. CASE /\ planMode
           /\ \E k \in 0..MaxSteps :
                LET list == IF k > 0 THEN [i \in 1..k |-> FALSE] ELSE todos
                IN /\ list # <<>>
                   /\ todos' = list
           /\ UNCHANGED <<planMode, executing, before, active, shown>>
           /\ PersistState
           /\ asks' = "select"
  <2>1. ~executing /\ ~executing' /\ planMode'
    BY <1>3 DEF PlanIInv, ToolsFollowMode, PlanTypes
  <2>2. PICK k \in 0..MaxSteps : todos' = IF k > 0 THEN [i \in 1..k |-> FALSE] ELSE todos
    BY <1>3
  <2>3. todos' \in Plans
    BY <2>2 DEF PlanIInv, PlanTypes, Plans
  <2>4. ToolsFollowMode'
    BY <1>1, <1>3, <2>1 DEF PlanIInv, ToolsFollowMode, Status
  <2>5. before' \in (SUBSET Tools) \cup {Undefined}
    BY <1>1, <2>4, NotUndefined DEF ToolsFollowMode, PlanIInv, PlanTypes
  <2>6. entry' = [enabled |-> planMode', executing |-> executing', todos |-> todos',
                  before |-> before', is |-> TRUE]
    BY <1>3 DEF PersistState
  <2>7. entry' \in Entries
    BY <1>3, <2>3, <2>5, <2>6 DEF Entries, PlanIInv, PlanTypes
  <2>8. PlanTypes'
    BY <1>1, <1>3, <2>3, <2>7 DEF PlanTypes, PlanIInv
  <2>9. Turns' /\ Counted'
    BY <1>1, <1>3, <2>1 DEF Turns, Counted, PlanIInv
  <2>11. Marked'
    <3>1. Completed(todos') = {}
      BY <1>3, <2>2 DEF PlanIInv, Marked, Completed
    <3> QED
      BY <2>1, <3>1 DEF Marked
  <2>10. Saved'
    BY <1>1, <2>1, <2>4, <2>6 DEF Saved, ToolsFollowMode
  <2> QED
    BY <2>4, <2>8, <2>9, <2>10, <2>11 DEF PlanIInv
<1> QED
  BY <1>2, <1>3 DEF PlanningEnd

LEMMA ExecutePlanStep == PlanIInv /\ ExecutePlan => PlanIInv'
<1> SUFFICES ASSUME PlanIInv, ExecutePlan PROVE PlanIInv'
  OBVIOUS
<1>1. /\ asks = "select" /\ asks' = "none" /\ agent = "idle" /\ ~due
      /\ UNCHANGED <<usual, agent, message>>
  BY DEF ExecutePlan, PlanIInv, Turns
<1>2. CASE todos = <<>>
  <2>1. UNCHANGED <<planMode, executing, todos, before, active, shown, due, entry, since, mine, lost>>
    BY <1>2 DEF ExecutePlan, memory, file
  <2> QED
    BY <1>1, <2>1 DEF PlanIInv, PlanTypes, ToolsFollowMode, Turns, Saved, Counted, Marked
<1>3. CASE todos # <<>>
  <2>1. /\ planMode /\ ~executing /\ usual # Undefined /\ before = usual
    BY <1>1, <1>3, NotUndefined DEF PlanIInv, Turns, ToolsFollowMode, PlanTypes
  <2>2. /\ planMode' = FALSE /\ executing' = TRUE /\ todos' = todos
        /\ shown' = Status(planMode', executing', todos')
        /\ entry' = [enabled |-> FALSE, executing |-> TRUE, todos |-> todos',
                     before |-> before', is |-> TRUE]
        /\ due' = TRUE /\ mine' = {} /\ lost' = FALSE /\ since' = since
    BY <1>3 DEF ExecutePlan, UpdateStatus, PersistState
  <2>3. active' = usual /\ before' = Undefined
    BY <1>3, <2>1 DEF ExecutePlan, RestoreNormalModeTools
  <2>4. ToolsFollowMode'
    BY <1>1, <2>2, <2>3 DEF ToolsFollowMode
  <2>5. entry' \in Entries
    BY <2>2, <2>3 DEF Entries, PlanIInv, PlanTypes
  <2>6. PlanTypes'
    BY <1>1, <2>2, <2>5 DEF PlanTypes, PlanIInv
  <2>7. Turns' /\ Counted' /\ Saved'
    BY <1>1, <2>2, <2>3 DEF Turns, Counted, Saved, PlanIInv
  <2>8. Marked'
    BY <2>1, <2>2 DEF PlanIInv, Marked
  <2> QED
    BY <2>4, <2>6, <2>7, <2>8 DEF PlanIInv
<1> QED
  BY <1>2, <1>3

LEMMA DeliverStep == PlanIInv /\ Deliver => PlanIInv'
<1> SUFFICES ASSUME PlanIInv, Deliver PROVE PlanIInv'
  OBVIOUS
<1>1. /\ agent = "idle" /\ agent' = "working" /\ asks = "none" /\ mine = {} /\ since' = {}
      /\ due /\ due' = FALSE
      /\ UNCHANGED <<usual, planMode, executing, todos, before, active, shown, asks, message,
                     entry, mine, lost>>
  BY DEF Deliver, memory, PlanIInv, Turns, PlanTypes
<1> QED
  BY <1>1 DEF PlanIInv, PlanTypes, ToolsFollowMode, Turns, Saved, Counted, Marked

\* Steps of the user that leave the closure and the file as they are.
LEMMA DialogSteps == PlanIInv /\ (Prompt \/ Stay \/ Refine \/ SendRefinement) => PlanIInv'
<1> SUFFICES ASSUME PlanIInv, Prompt \/ Stay \/ Refine \/ SendRefinement PROVE PlanIInv'
  OBVIOUS
<1>1. /\ UNCHANGED <<usual, planMode, executing, todos, before, active, shown, message, due,
                     entry, since, mine, lost>>
      /\ agent' = agent \/ (agent = "idle" /\ agent' = "working" /\ ~due /\ asks' = "none")
      /\ asks' = "none" \/ asks' = asks \/ (asks = "select" /\ asks' = "editor" /\ agent' = agent)
  BY DEF Prompt, Stay, Refine, SendRefinement, memory, file, PlanIInv, Turns
<1>2. asks' # "none" => agent' = "idle" /\ ~due'
  BY <1>1 DEF PlanIInv, Turns
<1> QED
  BY <1>1, <1>2 DEF PlanIInv, PlanTypes, ToolsFollowMode, Turns, Saved, Counted, Marked

LEMMA PlanStutterStep == PlanIInv /\ UNCHANGED planVars => PlanIInv'
BY DEF PlanIInv, PlanTypes, ToolsFollowMode, Turns, Saved, Counted, Marked, planVars, memory, file

LEMMA PlanNextStep == PlanIInv /\ [PlanNext]_planVars => PlanIInv'
BY RestartStep, ToggleStep, SayStep, TurnEndStep, ExecutionEndStep, PlanningEndStep,
   ExecutePlanStep, DeliverStep, DialogSteps, PlanStutterStep DEF PlanNext
-----------------------------------------------------------------------------
(* The inductive invariant: a dialog keeps the agent idle, the saved entry   *)
(* has the modes of the closure, and once the execute message is in the     *)
(* file the steps after it are those of this execution                      *)
(* (plan-mode/index.ts:128-135, 312-340, 350-400).                          *)
THEOREM PlanInductive == PlanSpec => []PlanIInv
<1>1. PlanInit => PlanIInv
  BY PlanInitInv
<1>2. PlanIInv /\ [PlanNext]_planVars => PlanIInv'
  BY PlanNextStep
<1> QED
  BY <1>1, <1>2, PTL DEF PlanSpec

(* The closure and the file keep their types (plan-mode/index.ts:39-69).     *)
THEOREM PlanTypeCorrect == PlanSpec => []PlanTypeOK
<1>1. PlanIInv => PlanTypeOK
  <2> SUFFICES ASSUME PlanIInv PROVE PlanTypeOK
    OBVIOUS
  <2>1. /\ usual \in SUBSET Tools /\ active \in SUBSET Tools
        /\ before \in (SUBSET Tools) \cup {Undefined}
    BY NotUndefined DEF PlanIInv, PlanTypes, ToolsFollowMode
  <2>2. todos \in Seq(BOOLEAN) /\ Len(todos) <= MaxSteps
    BY PlanIsList DEF PlanIInv, PlanTypes
  <2> QED
    BY <2>1, <2>2 DEF PlanTypeOK, PlanIInv, PlanTypes
<1> QED
  BY <1>1, PlanInductive, PTL

(* Plan mode never runs with edit or write and always with its own          *)
(* read-only tools, and no sequence of toggles, dialogs and restarts loses  *)
(* a tool of the user                                                       *)
(* (plan-mode/index.ts:102-156, 318-325).                                   *)
THEOREM ToolsFollow == PlanSpec => []ToolsFollowMode
<1>1. PlanIInv => ToolsFollowMode
  BY DEF PlanIInv
<1> QED
  BY <1>1, PlanInductive, PTL

(* A step counts as done only if this execution reported it, unless its      *)
(* marker was lost with the process, and a reported step is not asked for   *)
(* again (plan-mode/index.ts:213-270, 370-400).                             *)
THEOREM ProgressReal == PlanSpec => []ProgressIsReal
<1>1. PlanIInv => ProgressIsReal
  <2> SUFFICES ASSUME PlanIInv, executing
               PROVE  /\ ~lost => Completed(todos) \subseteq mine
                      /\ agent = "idle" => Remaining \cap mine = {}
    BY DEF ProgressIsReal
  <2>1. ~lost => Completed(todos) \subseteq mine
    BY DEF PlanIInv, Marked
  <2>2. ASSUME agent = "idle", NEW i \in Remaining \cap mine PROVE FALSE
    <3>1. i \in DOMAIN todos /\ ~todos[i]
      BY <2>2 DEF Remaining
    <3> QED
      BY <2>2, <3>1 DEF PlanIInv, Marked
  <2> QED
    BY <2>1, <2>2
<1> QED
  BY <1>1, PlanInductive, PTL

-----------------------------------------------------------------------------
(***************************************************************************)
(* A submitted questionnaire is complete and its answers are possible, for  *)
(* any number of questions and options.                                     *)
(***************************************************************************)

Possible(q, a) == IF a = Typed THEN q.other ELSE a \in 1..q.options

\* With distinct ids an answer is the answer to the question with its id.
Fits == Distinct => \A i \in DOMAIN questions :
  questions[i].id \in DOMAIN answers => Possible(questions[i], answers[questions[i].id])

Asked == \A id \in DOMAIN answers : \E i \in DOMAIN questions : questions[i].id = id

AskIInv ==
  /\ AskTypeOK
  /\ CursorInList
  /\ EditorIsCurrent
  /\ Fits
  /\ Asked
  /\ dialog = "submitted" => AllAnswered
  /\ dialog = "crashed" => OptionsOf(Current) = 0
-----------------------------------------------------------------------------
(* The questions and the question that is shown. *)

LEMMA Lists == ASSUME NEW k \in 1..MaxQuestions, NEW s \in [1..k -> Question]
               PROVE  s \in Seq(Question) /\ Len(s) = k /\ DOMAIN s = 1..k
  BY AskAssumption

LEMMA NextTab == ASSUME NEW k \in Nat, NEW t \in 0..k, t # k
              PROVE  t + 1 \in 1..k
  OBVIOUS

LEMMA Top == ASSUME NEW k \in Nat, k > 0
             PROVE  0 \in 0..(k - 1)
  OBVIOUS

LEMMA Shows == ASSUME AskIInv
               PROVE  /\ Len(questions) \in Nat \ {0} /\ DOMAIN questions = 1..Len(questions)
                      /\ tab \in 0..Len(questions) /\ (tab = Len(questions) => Len(questions) > 1)
                      /\ ~OnSubmitTab => /\ tab + 1 \in DOMAIN questions /\ Current \in Question
                                         /\ OptionsOf(Current) \in 0..(MaxOptions + 1)
                                         /\ OptionCount = OptionsOf(Current)
<1>1. /\ questions \in Seq(Question) /\ Len(questions) \in 1..MaxQuestions
      /\ tab \in 0..Len(questions) /\ (tab = Len(questions) => Len(questions) > 1)
  BY DEF AskIInv, AskTypeOK, IsMulti
<1>2. Len(questions) \in Nat \ {0} /\ DOMAIN questions = 1..Len(questions)
  BY <1>1, AskAssumption
<1>3. ASSUME ~OnSubmitTab
      PROVE  /\ tab + 1 \in DOMAIN questions /\ Current \in Question
             /\ OptionsOf(Current) \in 0..(MaxOptions + 1) /\ OptionCount = OptionsOf(Current)
  <2>1. tab + 1 \in 1..Len(questions)
    BY <1>1, <1>2, <1>3, NextTab DEF OnSubmitTab
  <2>2. Current \in Question
    BY <1>1, <2>1 DEF Current
  <2>3. Current.options \in 0..MaxOptions /\ Current.other \in BOOLEAN
    BY <2>2 DEF Question
  <2>4. OptionsOf(Current) \in 0..(MaxOptions + 1)
    BY <2>3, AskAssumption DEF OptionsOf
  <2> QED
    BY <1>2, <1>3, <2>1, <2>2, <2>4 DEF OptionCount
<1> QED
  BY <1>1, <1>2, <1>3

LEMMA AskInitInv == AskInit => AskIInv
<1> SUFFICES ASSUME AskInit PROVE AskIInv
  OBVIOUS
<1>1. PICK k \in 1..MaxQuestions : questions \in [1..k -> Question]
  BY DEF AskInit
<1>2. /\ questions \in Seq(Question) /\ Len(questions) \in 1..MaxQuestions
      /\ DOMAIN answers = {} /\ tab = 0 /\ option = 0 /\ input = NoId /\ dialog = "open"
  BY <1>1, Lists DEF AskInit
<1>3. Len(questions) # 0 /\ Len(questions) \in Nat
  BY <1>2, AskAssumption
<1>4. AskTypeOK
  BY <1>2, <1>3, AskAssumption DEF AskTypeOK
<1>5. CursorInList
  <2> SUFFICES ASSUME ~OnSubmitTab, OptionCount > 0
               PROVE  0 \in 0..(OptionCount - 1)
    BY <1>2 DEF CursorInList
  <2>1. OptionCount \in Nat
    <3>1. 1 \in 1..Len(questions)
      BY <1>3
    <3>2. Current \in Question
      BY <1>2, <3>1 DEF Current
    <3>3. Current.options \in Nat
      BY <3>2, AskAssumption DEF Question
    <3> QED
      BY <3>3 DEF OptionCount, OptionsOf
  <2> QED
    BY <2>1
<1>6. EditorIsCurrent /\ Fits /\ Asked
  BY <1>2 DEF EditorIsCurrent, Editing, Fits, Asked
<1> QED
  BY <1>2, <1>4, <1>5, <1>6 DEF AskIInv
-----------------------------------------------------------------------------
(* What the steps have in common. *)

\* A step that saves no answer and leaves the dialog open or gives it up.
LEMMA AskMoves == ASSUME AskIInv, UNCHANGED <<questions, input, answers>>, dialog = "open",
                      dialog' \in {"open", "cancelled"}, ~Editing,
                      tab' \in 0..Len(questions), IsMulti \/ tab' = tab,
                      option' \in -1..MaxOptions,
                      option' = 0 \/ (tab' = tab /\ (CursorInList => CursorInList'))
               PROVE  AskIInv'
<1>1. AskTypeOK'
  BY Shows DEF AskIInv, AskTypeOK, IsMulti
<1>2. CursorInList'
  <2>1. CASE option' = 0
    <3> SUFFICES ASSUME ~OnSubmitTab', OptionCount' > 0
                 PROVE  0 \in 0..(OptionCount' - 1)
      BY <2>1 DEF CursorInList
    <3>1. tab' + 1 \in 1..Len(questions)
      BY Shows, NextTab DEF OnSubmitTab
    <3>2. questions[tab' + 1] \in Question
      BY <3>1 DEF AskIInv, AskTypeOK
    <3>3. questions[tab' + 1].options \in Nat
      BY <3>2, AskAssumption DEF Question
    <3>4. OptionCount' \in Nat
      BY <3>3 DEF OptionCount, OptionsOf, Current, OnSubmitTab
    <3> QED
      BY <3>4, Top
  <2> QED
    BY <2>1 DEF AskIInv
<1>3. EditorIsCurrent' /\ Fits' /\ Asked'
  BY DEF AskIInv, EditorIsCurrent, Editing, Fits, Asked, Distinct
<1> QED
  BY <1>1, <1>2, <1>3 DEF AskIInv

\* A step that answers the question that is shown.
LEMMA Saves == ASSUME AskIInv, dialog = "open", ~OnSubmitTab, NEW a \in 0..MaxOptions,
                      Possible(Current, a), SaveAnswer(Current.id, a), AdvanceAfterAnswer,
                      input' = NoId, UNCHANGED questions
               PROVE  AskIInv'
<1>1. /\ DOMAIN answers' = DOMAIN answers \cup {Current.id} /\ answers'[Current.id] = a
      /\ \A id \in DOMAIN answers : id # Current.id => answers'[id] = answers[id]
  BY DEF SaveAnswer
<1>2. Current.id \in Ids /\ tab + 1 \in DOMAIN questions
  BY Shows DEF Question
<1>3. /\ tab' \in 0..Len(questions) /\ (tab' = Len(questions) => Len(questions) > 1)
      /\ option' \in -1..MaxOptions /\ dialog' \in {"open", "submitted"}
  BY Shows, AskAssumption DEF AdvanceAfterAnswer, IsMulti, OnSubmitTab, AskIInv, AskTypeOK
<1>4. AskTypeOK'
  BY <1>1, <1>2, <1>3 DEF AskIInv, AskTypeOK, IsMulti
<1>5. CursorInList'
  <2> SUFFICES ASSUME dialog' = "open", ~OnSubmitTab', OptionCount' > 0
               PROVE  option' \in 0..(OptionCount' - 1)
    BY DEF CursorInList
  <2>1. option' = 0
    BY DEF AdvanceAfterAnswer
  <2>2. tab' + 1 \in 1..Len(questions)
    BY <1>3, Shows, NextTab DEF OnSubmitTab
  <2>3. questions[tab' + 1] \in Question
    BY <2>2 DEF AskIInv, AskTypeOK
  <2>4. questions[tab' + 1].options \in Nat
    BY <2>3, AskAssumption DEF Question
  <2>5. OptionCount' \in Nat
    BY <2>4 DEF OptionCount, OptionsOf, Current, OnSubmitTab
  <2> QED
    BY <2>1, <2>5, Top
<1>6. EditorIsCurrent'
  BY DEF EditorIsCurrent, Editing
<1>7. Fits'
  <2> SUFFICES ASSUME Distinct, NEW i \in DOMAIN questions, questions[i].id \in DOMAIN answers'
               PROVE  Possible(questions[i], answers'[questions[i].id])
    BY DEF Fits, Distinct, Possible
  <2>1. CASE i = tab + 1
    BY <1>1, <2>1 DEF Current
  <2>2. CASE i # tab + 1
    <3>1. questions[i].id # Current.id
      BY <1>2, <2>2 DEF Distinct, Current
    <3> QED
      BY <1>1, <3>1 DEF AskIInv, Fits
  <2> QED
    BY <2>1, <2>2
<1>8. Asked'
  BY <1>1, <1>2 DEF AskIInv, Asked, Current
<1>9. dialog' = "submitted" => AllAnswered'
  <2> SUFFICES ASSUME dialog' = "submitted", NEW i \in DOMAIN questions
               PROVE  questions[i].id \in DOMAIN answers'
    BY DEF AllAnswered
  <2>1. Len(questions) = 1 /\ tab = 0
    BY Shows DEF AdvanceAfterAnswer, IsMulti, OnSubmitTab
  <2>2. i = tab + 1
    BY <2>1, Shows
  <2> QED
    BY <1>1, <2>2 DEF Current
<1> QED
  BY <1>3, <1>4, <1>5, <1>6, <1>7, <1>8, <1>9 DEF AskIInv
-----------------------------------------------------------------------------
(* One lemma per action. *)

LEMMA SubmitTextStep == AskIInv /\ SubmitText => AskIInv'
<1> SUFFICES ASSUME AskIInv, SubmitText PROVE AskIInv'
  OBVIOUS
<1>1. ~OnSubmitTab /\ Current.id = input /\ Current.other
  BY DEF SubmitText, AskIInv, EditorIsCurrent
<1>2. Possible(Current, Typed) /\ Typed \in 0..MaxOptions
  BY <1>1, AskAssumption DEF Possible, Typed
<1> QED
  BY <1>1, <1>2, Saves DEF SubmitText

LEMMA LeaveEditorStep == AskIInv /\ LeaveEditor => AskIInv'
<1> SUFFICES ASSUME AskIInv, LeaveEditor PROVE AskIInv'
  OBVIOUS
<1>1. UNCHANGED <<questions, tab, option, answers, dialog>> /\ input' = NoId
  BY DEF LeaveEditor
<1>2. AskTypeOK' /\ CursorInList'
  BY <1>1 DEF AskIInv, AskTypeOK, CursorInList, IsMulti, OnSubmitTab, OptionCount, OptionsOf, Current
<1>3. EditorIsCurrent' /\ Fits' /\ Asked'
  BY <1>1 DEF AskIInv, EditorIsCurrent, Editing, Fits, Asked, Distinct
<1>4. (dialog' = "submitted" => AllAnswered') /\ (dialog' = "crashed" => OptionsOf(Current)' = 0)
  BY <1>1 DEF AskIInv, AllAnswered, OptionsOf, Current
<1> QED
  BY <1>2, <1>3, <1>4 DEF AskIInv

LEMMA Around == ASSUME NEW m \in Nat, NEW k \in Nat PROVE k % (m + 1) \in 0..m
  OBVIOUS

LEMMA SwitchTabStep == AskIInv /\ SwitchTab => AskIInv'
<1> SUFFICES ASSUME AskIInv, SwitchTab PROVE AskIInv'
  OBVIOUS
<1>1. PICK step \in {1, Len(questions)} : tab' = (tab + step) % (Len(questions) + 1)
  BY DEF SwitchTab
<1>2. Len(questions) \in Nat /\ tab + step \in Nat
  <2>1. Len(questions) \in Nat /\ tab \in Nat
    <3>1. Len(questions) \in Nat /\ tab \in 0..Len(questions)
      BY Shows
    <3> QED
      BY <3>1
  <2>2. step \in Nat
    BY <2>1
  <2> QED
    BY <2>1, <2>2
<1>3. tab' \in 0..Len(questions)
  BY <1>1, <1>2, Around
<1> QED
  BY <1>3, AskAssumption, AskMoves DEF SwitchTab, Listening

LEMMA SubmitStep == AskIInv /\ Submit => AskIInv'
<1> SUFFICES ASSUME AskIInv, Submit PROVE AskIInv'
  OBVIOUS
<1>1. UNCHANGED <<questions, tab, option, input, answers>> /\ dialog' = "submitted" /\ AllAnswered
  BY DEF Submit
<1>2. AskTypeOK' /\ CursorInList'
  BY <1>1 DEF AskIInv, AskTypeOK, CursorInList, IsMulti
<1>3. EditorIsCurrent' /\ Fits' /\ Asked' /\ AllAnswered'
  BY <1>1 DEF AskIInv, EditorIsCurrent, Editing, Fits, Asked, Distinct, AllAnswered, OnSubmitTab, Current
<1> QED
  BY <1>1, <1>2, <1>3 DEF AskIInv

\* Up and down keep the cursor between the ends of the list.
LEMMA Between == ASSUME NEW m \in 0..(MaxOptions + 1), NEW o \in -1..MaxOptions, NEW p,
                        \/ p = IF o - 1 < 0 THEN 0 ELSE o - 1
                        \/ p = IF m - 1 < o + 1 THEN m - 1 ELSE o + 1
                 PROVE  p \in -1..MaxOptions /\ (m > 0 => (o \in 0..(m - 1) => p \in 0..(m - 1)))
  BY AskAssumption

LEMMA MoveStep == AskIInv /\ Move => AskIInv'
<1> SUFFICES ASSUME AskIInv, Move PROVE AskIInv'
  OBVIOUS
<1>1. /\ UNCHANGED <<questions, tab, input, answers, dialog>>
      /\ dialog = "open" /\ ~Editing /\ ~OnSubmitTab
  BY DEF Move, Listening
<1>2. OptionCount \in 0..(MaxOptions + 1) /\ option \in -1..MaxOptions
  BY <1>1, Shows DEF AskIInv, AskTypeOK
<1>3. /\ option' \in -1..MaxOptions
      /\ OptionCount > 0 => (option \in 0..(OptionCount - 1) => option' \in 0..(OptionCount - 1))
  BY <1>2, Between DEF Move
<1>4. OptionCount' = OptionCount /\ OnSubmitTab' = OnSubmitTab
  BY <1>1 DEF OptionCount, OptionsOf, Current, OnSubmitTab
<1>5. CursorInList => CursorInList'
  BY <1>1, <1>3, <1>4 DEF CursorInList
<1>6. tab \in 0..Len(questions)
  BY Shows
<1> QED
  BY <1>1, <1>3, <1>5, <1>6, AskMoves

LEMMA ChooseStep == AskIInv /\ Choose => AskIInv'
<1> SUFFICES ASSUME AskIInv, Choose PROVE AskIInv'
  OBVIOUS
<1>1. dialog = "open" /\ ~Editing /\ ~OnSubmitTab /\ UNCHANGED questions
  BY DEF Choose, Listening
<1>2. Current \in Question /\ OptionsOf(Current) \in 0..(MaxOptions + 1) /\ OptionCount = OptionsOf(Current)
  BY <1>1, Shows
<1>3. CASE option \notin 0..(OptionCount - 1) /\ dialog' = "crashed" /\ UNCHANGED <<tab, option, input, answers>>
  <2>1. OptionsOf(Current) = 0
    BY <1>1, <1>2, <1>3 DEF AskIInv, CursorInList
  <2>2. AskTypeOK' /\ CursorInList'
    BY <1>1, <1>3 DEF AskIInv, AskTypeOK, CursorInList, IsMulti
  <2>3. EditorIsCurrent' /\ Fits' /\ Asked'
    BY <1>1, <1>3 DEF AskIInv, EditorIsCurrent, Editing, Fits, Asked, Distinct
  <2>4. OptionsOf(Current)' = 0
    BY <1>1, <1>3, <2>1 DEF OptionsOf, Current
  <2> QED
    BY <1>3, <2>2, <2>3, <2>4 DEF AskIInv
<1>4. CASE Current.other /\ input' = Current.id /\ UNCHANGED <<tab, option, answers, dialog>>
  <2>1. input' \in Ids
    BY <1>2, <1>4 DEF Question
  <2>2. AskTypeOK' /\ CursorInList'
    BY <1>1, <1>4, <2>1 DEF AskIInv, AskTypeOK, CursorInList, IsMulti, OnSubmitTab, OptionCount, OptionsOf, Current
  <2>3. EditorIsCurrent'
    BY <1>1, <1>4 DEF EditorIsCurrent, OnSubmitTab, Current
  <2>4. Fits' /\ Asked'
    BY <1>1, <1>4 DEF AskIInv, Fits, Asked, Distinct
  <2> QED
    BY <1>1, <1>4, <2>2, <2>3, <2>4 DEF AskIInv
<1>5. CASE /\ option \in 0..(Current.options - 1)
           /\ SaveAnswer(Current.id, option + 1) /\ AdvanceAfterAnswer /\ UNCHANGED input
  <2>1. Current.options \in 0..MaxOptions
    BY <1>2 DEF Question
  <2>2. option + 1 \in 1..Current.options /\ option + 1 \in 0..MaxOptions /\ option + 1 # 0
    BY <1>5, <2>1, AskAssumption
  <2>3. Possible(Current, option + 1) /\ input' = NoId
    BY <1>1, <1>5, <2>2 DEF Possible, Typed, Editing
  <2> QED
    BY <1>1, <1>5, <2>2, <2>3, Saves
<1> QED
  BY <1>3, <1>4, <1>5 DEF Choose

LEMMA CancelStep == AskIInv /\ Cancel => AskIInv'
<1> SUFFICES ASSUME AskIInv, Cancel PROVE AskIInv'
  OBVIOUS
<1>1. /\ UNCHANGED <<questions, tab, option, input, answers>> /\ dialog' = "cancelled"
      /\ dialog = "open" /\ ~Editing
  BY DEF Cancel, Listening
<1>2. tab \in 0..Len(questions) /\ option \in -1..MaxOptions
  BY Shows DEF AskIInv, AskTypeOK
<1>3. CursorInList'
  BY <1>1 DEF CursorInList
<1> QED
  BY <1>1, <1>2, <1>3, AskMoves

LEMMA AskStutterStep == AskIInv /\ UNCHANGED askVars => AskIInv'
<1> SUFFICES ASSUME AskIInv, UNCHANGED askVars PROVE AskIInv'
  OBVIOUS
<1>1. UNCHANGED <<questions, tab, option, input, answers, dialog>>
  BY DEF askVars
<1>2. AskTypeOK' /\ CursorInList'
  BY <1>1 DEF AskIInv, AskTypeOK, CursorInList, IsMulti, OnSubmitTab, OptionCount, OptionsOf, Current
<1>3. EditorIsCurrent' /\ Fits' /\ Asked'
  BY <1>1 DEF AskIInv, EditorIsCurrent, Editing, Fits, Asked, Distinct, OnSubmitTab, Current
<1>4. (dialog' = "submitted" => AllAnswered') /\ (dialog' = "crashed" => OptionsOf(Current)' = 0)
  BY <1>1 DEF AskIInv, AllAnswered, OptionsOf, Current
<1> QED
  BY <1>2, <1>3, <1>4 DEF AskIInv

LEMMA AskNextStep == AskIInv /\ [AskNext]_askVars => AskIInv'
  BY SubmitTextStep, LeaveEditorStep, SwitchTabStep, SubmitStep, MoveStep, ChooseStep, CancelStep,
     AskStutterStep DEF AskNext
-----------------------------------------------------------------------------
(* The theorems. *)

\* The inductive invariant: cursor and editor are of the question that is shown, and with distinct
\* ids every answer is possible for the question that has its id.
THEOREM AskInductive == AskSpec => []AskIInv
<1>1. AskInit => AskIInv
  BY AskInitInv
<1>2. AskIInv /\ [AskNext]_askVars => AskIInv'
  BY AskNextStep
<1> QED
  BY <1>1, <1>2, PTL DEF AskSpec

\* The dialog and the answers keep their shape.
THEOREM AskTypeCorrect == AskSpec => []AskTypeOK
<1>1. AskIInv => AskTypeOK
  BY DEF AskIInv
<1> QED
  BY <1>1, AskInductive, PTL

\* An answer is shown under the question with its id.
LEMMA InvAnswers == ASSUME AskIInv, Distinct, NEW id \in DOMAIN AnswerLines
                    PROVE  LET q == questions[AnswerLines[id][1]]
                               a == AnswerLines[id][2]
                           IN IF a = Typed THEN q.other ELSE a \in 1..q.options
<1>1. id \in DOMAIN answers /\ AnswerLines[id] = <<FirstWith(id), answers[id]>>
  BY DEF AnswerLines
<1>2. PICK i \in DOMAIN questions : questions[i].id = id
  BY <1>1 DEF AskIInv, Asked
<1>3. \A j \in 1..(i - 1) : j \in DOMAIN questions /\ j # i
  BY Shows
<1>4. FirstWith(id) \in DOMAIN questions /\ questions[FirstWith(id)].id = id
  BY <1>2, <1>3 DEF FirstWith, Distinct
<1>5. Possible(questions[FirstWith(id)], answers[id])
  BY <1>1, <1>4 DEF AskIInv, Fits
<1> QED
  BY <1>1, <1>5 DEF Possible

\* What is submitted is complete and possible (questionnaire.ts:257-268), the cursor and the editor
\* stay with the question that is shown, and the dialog breaks only where there is nothing to choose.
THEOREM SubmittedComplete == AskSpec => []AnswersComplete
<1>1. AskIInv => AnswersComplete
  BY InvAnswers DEF AskIInv, AnswersComplete, AllAnswered
<1> QED
  BY <1>1, AskInductive, PTL

-----------------------------------------------------------------------------
(* The three of them: Agent leaves the variables of an extension that does   *)
(* not run as they are, so what holds of each holds of all.                  *)

\* .pi/extensions: no extension depends on the state of another one.
THEOREM Independent == Spec => SubSpec /\ PlanSpec /\ AskSpec
<1>1. Init => SubInit /\ PlanInit /\ AskInit
  BY DEF Init
<1>2. [Next]_vars => [SubNext]_subVars /\ [PlanNext]_planVars /\ [AskNext]_askVars
  <2>1. CASE UNCHANGED vars
    BY <2>1 DEF vars
  <2>2. CASE Next
    BY <2>2 DEF Next
  <2> QED
    BY <2>1, <2>2
<1> QED
  BY <1>1, <1>2, PTL DEF Spec, SubSpec, PlanSpec, AskSpec

\* The types of the three extensions' variables, for every instance.
THEOREM TypeCorrect == Spec => []TypeOK
<1>1. SubTypeOK /\ PlanTypeOK /\ AskTypeOK => TypeOK
  BY DEF TypeOK
<1> QED
  BY <1>1, Independent, SubTypeCorrect, PlanTypeCorrect, AskTypeCorrect, PTL

\* The properties of the three extensions hold in the agent that has them all.
THEOREM AllCorrect ==
  Spec => []PoolIsExact /\ []AbortReachesAll /\ []ToolsFollowMode /\ []ProgressIsReal
          /\ []AnswersComplete
BY Independent, PoolExact, AbortReaches, ToolsFollow, ProgressReal, SubmittedComplete, PTL
=============================================================================
