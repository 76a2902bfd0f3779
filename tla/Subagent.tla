------------------------------ MODULE Subagent ------------------------------
(* The subagent tool of .pi/extensions/subagent/index.ts.  One call of the  *)
(* tool runs one task, a chain of them, or up to MAX_PARALLEL_TASKS of them *)
(* on MAX_CONCURRENCY workers; every task is a child `pi` process.          *)
(*                                                                         *)
(* A worker is the loop of mapWithConcurrencyLimit: it is either free (at   *)
(* the loop's head, about to read nextIndex) or at a task.  A chain and a   *)
(* single run are the same loop with one worker.  What runs between two     *)
(* awaits is one action; the awaits are mkdtemp, writeFile and the promise  *)
(* that the child's close or error event resolves.  The child, its exit     *)
(* code and the last message it printed are the environment's choice.       *)
EXTENDS Integers, FiniteSets

CONSTANTS MAX_PARALLEL_TASKS,   \* 8 in the code
          MAX_CONCURRENCY       \* 4 in the code

ASSUME LimitsAssumption ==
  /\ MAX_PARALLEL_TASKS \in Nat \ {0}
  /\ MAX_CONCURRENCY \in Nat \ {0}

VARIABLES
  call,       \* where execute() is
  mode,       \* "single", "parallel" or "chain"
  n,          \* the number of tasks of the call
  nextIndex,  \* the next task a worker will take
  free,       \* workers at the head of their loop
  task,       \* one record per task: see Task
  aborted     \* the call's AbortSignal has fired

subVars == <<call, mode, n, nextIndex, free, task, aborted>>

MaxTasks == MAX_PARALLEL_TASKS + 1    \* one more than a parallel call may have
Slots == 1..MaxTasks

\* A task before runSingleAgent is called for it; exit = -1 is the placeholder "still running".
Waiting == [at |-> "waiting", temp |-> "none", alive |-> FALSE, told |-> FALSE,
            stop |-> "none", exit |-> -1]

Task == [at : {"waiting", "mkdtemp", "write", "up", "ended", "thrown"},
         temp : {"none", "dir", "file"},     \* the prompt's temporary directory, with or without the file
         alive : BOOLEAN, told : BOOLEAN,    \* the child runs; killProc was called (wasAborted)
         stop : {"none", "ok", "error"},     \* the stopReason of the last message
         exit : {-1, 0, 1}]                       \* exitCode as the view gets it

\* The call's arguments may name one agent's task, a list or a chain.
Limit(m, k) ==
  IF m # "parallel" THEN 1
  ELSE IF MAX_CONCURRENCY < k THEN MAX_CONCURRENCY ELSE k

SubInit ==
  /\ call = "idle" /\ mode = "single" /\ n = 1 /\ nextIndex = 1
  /\ free = 0 /\ aborted = FALSE
  /\ task = [i \in Slots |-> Waiting]

\* discoverAgents: the sources an agent can have under a scope; a name in neither directory is unknown.
SourcesOf(scope) ==
  CASE scope = "user" -> {"user", "unknown"}
    [] scope = "project" -> {"project", "unknown"}
    [] scope = "both" -> {"user", "project", "unknown"}

\* Project agents are confirmed when the caller left the check on and there is a user to ask.
MustConfirm(scope, sources, check, hasUI) ==
  /\ scope # "user" /\ check /\ hasUI
  /\ "project" \in sources

Begin(m, k) ==
  IF m = "parallel" /\ k > MAX_PARALLEL_TASKS
  THEN call' = "refused" /\ free' = 0
  ELSE call' = "running" /\ free' = Limit(m, k)

Execute ==
  /\ call = "idle"
  /\ \E m \in {"single", "parallel", "chain"}, k \in Slots :
       /\ m = "single" => k = 1
       /\ mode' = m /\ n' = k
       /\ \E scope \in {"user", "project", "both"}, check, hasUI \in BOOLEAN :
            \E sources \in (SUBSET SourcesOf(scope)) \ {{}} :
              IF MustConfirm(scope, sources, check, hasUI)
              THEN call' = "confirming" /\ free' = 0
              ELSE Begin(m, k)
  /\ UNCHANGED <<nextIndex, task, aborted>>

Refuse ==   \* more than one mode, none at all, or the user's No
  /\ call \in {"idle", "confirming"}
  /\ call' = "refused"
  /\ UNCHANGED <<mode, n, nextIndex, free, task, aborted>>

Approve ==
  /\ call = "confirming"
  /\ Begin(mode, n)
  /\ UNCHANGED <<mode, n, nextIndex, task, aborted>>
-----------------------------------------------------------------------------
(* One task: runSingleAgent. *)

Failed(t) == t.exit # 0 \/ t.stop = "error"

\* finally: the file is unlinked and its directory removed, if writePromptToTempFile returned them.
Cleaned(t) == [t EXCEPT !.temp = IF @ = "file" THEN "none" ELSE @]

Active(i) == task[i].at \in {"mkdtemp", "write", "up"}

\* Mutant of Settle: a chain goes on after a step whose last message was an error.
SettleByCode(i, t, others) ==
  /\ task' = [task EXCEPT ![i] = Cleaned([t EXCEPT !.at = "ended", !.alive = FALSE])]
  /\ IF mode = "chain" /\ t.exit # 0
     THEN call' = "returned" /\ free' = 0
     ELSE call' = call /\ free' = others + 1
\* The promise of the task resolved: its worker joins the others, unless a chain stops at a failure.
Settle(i, t, others) ==
  /\ task' = [task EXCEPT ![i] = Cleaned([t EXCEPT !.at = "ended", !.alive = FALSE])]
  /\ IF mode = "chain" /\ Failed(t)
     THEN call' = "returned" /\ free' = 0
     ELSE call' = call /\ free' = others + 1

\* It rejected: the worker is gone, and the first rejection is the call's answer.
Throw(i, t) ==
  /\ task' = [task EXCEPT ![i] = Cleaned([t EXCEPT !.at = "thrown", !.alive = FALSE])]
  /\ call' = IF call = "running" THEN "threw" ELSE call
  /\ free' = free

\* Mutant of Spawned: the signal is not looked at when the child starts.
SpawnedUnchecked(t, starts) == [t EXCEPT !.at = "up", !.alive = starts]
\* spawn: the child runs or its error event is due; an aborted signal is noticed at once.
Spawned(t, starts) == [t EXCEPT !.at = "up", !.alive = starts, !.told = aborted]

\* A free worker takes the next task: its agent is unknown, has a system prompt, or has none.
Claim ==
  /\ free > 0 /\ nextIndex <= n
  /\ nextIndex' = nextIndex + 1
  /\ \/ Settle(nextIndex, [task[nextIndex] EXCEPT !.exit = 1], free - 1)
     \/ /\ task' = [task EXCEPT ![nextIndex].at = "mkdtemp"]
        /\ free' = free - 1 /\ call' = call
     \/ \E starts \in BOOLEAN :
          /\ task' = [task EXCEPT ![nextIndex] = Spawned(@, starts)]
          /\ free' = free - 1 /\ call' = call
  /\ UNCHANGED <<mode, n, aborted>>

\* writePromptToTempFile, first await.
MakeDir(i) ==
  /\ task[i].at = "mkdtemp"
  /\ \/ /\ task' = [task EXCEPT ![i].at = "write", ![i].temp = "dir"]
        /\ UNCHANGED <<call, free>>
     \/ Throw(i, task[i])
  /\ UNCHANGED <<mode, n, nextIndex, aborted>>

\* Second await: the file is there and the child is spawned; or the write fails before tmpPromptDir is set.
WritePrompt(i) ==
  /\ task[i].at = "write"
  /\ \/ \E starts \in BOOLEAN :
          /\ task' = [task EXCEPT ![i] = Spawned([@ EXCEPT !.temp = "file"], starts)]
          /\ UNCHANGED <<call, free>>
     \/ Throw(i, task[i])
  /\ UNCHANGED <<mode, n, nextIndex, aborted>>

\* A message_end line: it is kept, with its stopReason, and the view is sent the running result (exit 0).
Message(i) ==
  /\ task[i].at = "up" /\ task[i].alive
  /\ \E s \in {"ok", "error"} : task' = [task EXCEPT ![i].stop = s, ![i].exit = 0]
  /\ UNCHANGED <<call, mode, n, nextIndex, free, aborted>>

\* The close event, or error when the child never started.  A signal gives code null, taken as 0.
Close(i) ==
  /\ task[i].at = "up"
  /\ \E code \in IF task[i].alive THEN {0, 1} ELSE {1} :
       LET t == [task[i] EXCEPT !.exit = code]
       IN IF t.told THEN Throw(i, t) ELSE Settle(i, t, free)
  /\ UNCHANGED <<mode, n, nextIndex, aborted>>

\* Every worker has found no task left and every promise has resolved.
Return ==
  /\ call = "running" /\ nextIndex > n /\ \A i \in Slots : ~Active(i)
  /\ call' = "returned" /\ free' = 0
  /\ UNCHANGED <<mode, n, nextIndex, task, aborted>>

\* The signal fires: the listener of every child spawned so far sends it SIGTERM.
Abort ==
  /\ call \in {"running", "threw"} /\ ~aborted
  /\ aborted' = TRUE
  /\ task' = [i \in Slots |-> [task[i] EXCEPT !.told = @ \/ task[i].at = "up"]]
  /\ UNCHANGED <<call, mode, n, nextIndex, free>>

SubNext ==
  \/ Execute \/ Refuse \/ Approve \/ Claim \/ Return \/ Abort
  \/ \E i \in Slots : MakeDir(i) \/ WritePrompt(i) \/ Message(i) \/ Close(i)

\* File operations end, and a child that was sent SIGTERM exits; one that was not may run for ever.
CloseTold(i) == task[i].told /\ Close(i)
SubFairness ==
  /\ WF_subVars(Claim) /\ WF_subVars(Return)
  /\ \A i \in Slots : WF_subVars(MakeDir(i)) /\ WF_subVars(WritePrompt(i)) /\ WF_subVars(CloseTold(i))

SubSpec == SubInit /\ [][SubNext]_subVars
-----------------------------------------------------------------------------
(* renderResult: what the call's view shows for a task.  A chain goes by     *)
(* the exit code alone; the other views use isFailedResult.                 *)

SingleIcon(t) == IF Failed(t) THEN "failed" ELSE "done"
ChainIcon(t) == IF t.exit = 0 THEN "done" ELSE "failed"
ParallelIcon(t) ==
  IF t.exit = -1 THEN "running" ELSE IF Failed(t) THEN "failed" ELSE "done"

Icon(t) ==
  CASE mode = "single" -> SingleIcon(t)
    [] mode = "chain" -> ChainIcon(t)
    [] mode = "parallel" -> ParallelIcon(t)
-----------------------------------------------------------------------------
(* Properties *)

SubTypeOK ==
  /\ call \in {"idle", "confirming", "running", "returned", "refused", "threw"}
  /\ mode \in {"single", "parallel", "chain"}
  /\ n \in Slots /\ nextIndex \in 1..(MaxTasks + 1)
  /\ free \in 0..MAX_CONCURRENCY
  /\ aborted \in BOOLEAN
  /\ task \in [Slots -> Task]

Begun == {i \in Slots : task[i].at # "waiting"}
ActiveTasks == {i \in Slots : Active(i)}

\* The pool: workers take the tasks in order, each once, never more at a time than the limit.
InOrder == Begun = 1..(nextIndex - 1) /\ nextIndex <= n + 1
WithinLimit == Cardinality(ActiveTasks) + free <= Limit(mode, n)

\* A chain reaches a step only after every earlier one ended well.
ChainStops == mode = "chain" =>
  \A i \in Begun : \A j \in 1..(i - 1) : task[j].at = "ended" /\ ~Failed(task[j])

\* A call that returned has a result for each of its tasks, or for a chain up to the failing step.
ResultsComplete == call = "returned" =>
  /\ ActiveTasks = {}
  /\ \A i \in Begun : task[i].at = "ended"
  /\ Begun = 1..n \/ (mode = "chain" /\ Failed(task[nextIndex - 1]))

\* A task that is over left no child running, and no prompt unless writing it failed.
NothingLeftBehind == \A i \in Slots : task[i].at \in {"waiting", "ended", "thrown"} =>
  /\ ~task[i].alive
  /\ task[i].temp = "none" \/ (task[i].temp = "dir" /\ task[i].at = "thrown")

\* After the call nothing is shown as running, and a failed task is shown as failed, unless it is
\* a step of a chain whose child exited with 0 after a message that ended in an error.
ViewTells == call = "returned" => \A i \in Begun :
  /\ Icon(task[i]) # "running"
  /\ (Icon(task[i]) = "done" /\ Failed(task[i])) => (mode = "chain" /\ task[i].stop = "error")

(* mapWithConcurrencyLimit runs each task of a call exactly once and in      *)
(* order, within the limit; the results of a call that returns are complete *)
(* and it leaves no process and no prompt file behind.                      *)
PoolIsExact ==
  InOrder /\ WithinLimit /\ ChainStops /\ ResultsComplete /\ NothingLeftBehind /\ ViewTells

(* However the abort falls between the awaits, every child that runs after  *)
(* it has been sent SIGTERM (index.ts:399-409), the ones a worker of an     *)
(* already rejected call spawns later included.                             *)
AbortReachesAll == aborted => \A i \in Slots : task[i].alive => task[i].told

(* An abort ends the call: no await of a task outlives it, as long as the    *)
(* children die of SIGTERM.                                                 *)
AbortEnds == aborted ~> call # "running"
=============================================================================
