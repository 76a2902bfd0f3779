------------------------------ MODULE PlanMode ------------------------------
(* The plan-mode extension of .pi/extensions/plan-mode: a read-only mode, a *)
(* list of steps extracted from the model's answer, and their execution,    *)
(* whose progress the model reports with [DONE:n] in its messages.          *)
(*                                                                         *)
(* The extension's closure is the memory of one process; the session file   *)
(* outlives it.  Restart is a crash or a quit followed by a resume of the   *)
(* same session.  Of the file the model keeps the last "plan-mode" entry,   *)
(* and the steps reported since the last "plan-mode-execute" message.       *)
(* A handler runs to its next await, so the select and the editor of        *)
(* agent_end are states of their own, during which /plan still works.       *)
EXTENDS Integers, Sequences, FiniteSets

CONSTANTS MaxSteps

ASSUME MaxStepsAssumption == MaxSteps \in Nat

Tools == {"read", "edit", "questionnaire", "other"}
PLAN_MODE_TOOLS == {"read", "questionnaire"}
NORMAL_MODE_TOOLS == {"read", "edit"}
PLAN_MODE_DISABLED_TOOLS == {"edit"}
PLAN_MANAGED_TOOLS == PLAN_MODE_TOOLS \cup NORMAL_MODE_TOOLS

VARIABLES
  usual,      \* the tools a new process starts with
  planMode, executing, todos, before,   \* the closure; todos[i] is completed
  active,     \* pi's active tools
  shown,      \* the footer and the widget: "none", "plan" or the todos
  asks,       \* the dialog agent_end awaits: "none", "select", "editor"
  agent,      \* "idle", "working", "said": a message is in the file, turn_end has not run
  message,    \* the steps that message reports as done
  due,        \* the execute message is sent but not yet in the file
  entry,      \* the file's last plan-mode entry, or NoEntry
  since,      \* steps reported in the file since the last execute message
  mine,       \* steps reported in the execution under way (no code reads it)
  lost        \* a process died before the execute message was in the file (nor this)

memory == <<planMode, executing, todos, before, active, shown>>
file == <<entry, since, mine, lost>>
planVars == <<usual, memory, asks, agent, message, due, file>>

Undefined == {"undefined"}
NoEntry == [enabled |-> FALSE, executing |-> FALSE, todos |-> <<>>, before |-> Undefined, is |-> FALSE]
Completed(list) == {i \in DOMAIN list : list[i]}

GetPlanModeTools(names) == (names \ PLAN_MODE_DISABLED_TOOLS) \cup PLAN_MODE_TOOLS
GetNormalModeTools(names) == NORMAL_MODE_TOOLS \cup (names \ PLAN_MANAGED_TOOLS)

\* enablePlanModeTools keeps the first list it saw; restoreNormalModeTools forgets it.
EnablePlanModeTools(seen, names) ==
  LET kept == IF seen = Undefined THEN names ELSE seen
  IN before' = kept /\ active' = GetPlanModeTools(kept)
RestoreNormalModeTools ==
  /\ active' = IF before = Undefined THEN GetNormalModeTools(active) ELSE before
  /\ before' = Undefined

\* updateStatus, of the state a handler leaves.
Status(plan, exec, list) ==
  IF exec /\ list # <<>> THEN list ELSE IF plan THEN <<"plan">> ELSE <<>>
UpdateStatus == shown' = Status(planMode', executing', todos')

PersistState == entry' =
  [enabled |-> planMode', executing |-> executing', todos |-> todos', before |-> before', is |-> TRUE]

\* session_start of a process with or without --plan.
Start(flag, e, done) ==
  LET plan == IF e.is THEN e.enabled ELSE flag
      resumed == e.is /\ e.executing /\ e.todos # <<>>
  IN /\ planMode' = plan
     /\ executing' = e.executing
     /\ todos' = [i \in DOMAIN e.todos |-> e.todos[i] \/ (resumed /\ i \in done)]
     /\ IF plan THEN EnablePlanModeTools(e.before, usual)
                ELSE before' = e.before /\ active' = usual
     /\ UpdateStatus
     /\ asks' = "none" /\ agent' = "idle" /\ message' = {} /\ due' = FALSE

PlanInit ==
  /\ usual \in {Tools, NORMAL_MODE_TOOLS}
  /\ \E flag \in BOOLEAN :
       /\ planMode = flag
       /\ before = (IF flag THEN usual ELSE Undefined)
       /\ active = (IF flag THEN GetPlanModeTools(usual) ELSE usual)
       /\ shown = Status(flag, FALSE, <<>>)
  /\ executing = FALSE /\ todos = <<>>
  /\ asks = "none" /\ agent = "idle" /\ message = {} /\ due = FALSE
  /\ entry = NoEntry /\ since = {} /\ mine = {} /\ lost = FALSE

Restart ==
  /\ \E flag \in BOOLEAN : Start(flag, entry, since)
  /\ lost' = (lost \/ due)
  /\ UNCHANGED <<usual, entry, since, mine>>

\* Mutant of TogglePlanMode: the steps stay.
ToggleKeepsTodos ==
  /\ planMode' = ~planMode /\ executing' = FALSE /\ todos' = todos
  /\ IF planMode' THEN EnablePlanModeTools(before, active) ELSE RestoreNormalModeTools
  /\ UpdateStatus /\ PersistState
  /\ UNCHANGED <<usual, asks, agent, message, due, since, mine, lost>>
\* /plan or Ctrl+Alt+P, at any time.
TogglePlanMode ==
  /\ planMode' = ~planMode /\ executing' = FALSE /\ todos' = <<>>
  /\ IF planMode' THEN EnablePlanModeTools(before, active) ELSE RestoreNormalModeTools
  /\ UpdateStatus /\ PersistState
  /\ UNCHANGED <<usual, asks, agent, message, due, since, mine, lost>>

\* The user's message starts a run.
Prompt ==
  /\ agent = "idle" /\ asks = "none" /\ ~due
  /\ agent' = "working"
  /\ UNCHANGED <<usual, memory, asks, message, due, file>>

\* before_agent_start: the steps the model is told to execute.
Remaining == IF executing /\ todos # <<>> THEN {i \in DOMAIN todos : ~todos[i]} ELSE {}

\* An assistant message is appended to the file; it reports some steps as done.
Say ==
  /\ agent = "working"
  /\ \E steps \in SUBSET (1..MaxSteps) :
       /\ since' = since \cup steps
       /\ mine' = IF executing THEN mine \cup steps ELSE mine
       /\ message' = steps
  /\ agent' = "said"
  /\ UNCHANGED <<usual, memory, asks, due, entry, lost>>
\* turn_end: the completed steps are marked, shown and saved.
TurnEnd ==
  /\ agent = "said"
  /\ agent' = "working" /\ message' = {}
  /\ IF executing /\ todos # <<>>
     THEN /\ todos' = [i \in DOMAIN todos |-> todos[i] \/ i \in message]
          /\ UNCHANGED <<planMode, executing, before, active>>
          /\ UpdateStatus /\ PersistState
     ELSE UNCHANGED <<memory, entry>>
  /\ UNCHANGED <<usual, asks, due, since, mine, lost>>

\* agent_end of an execution: the plan is over when every step is completed.
ExecutionEnd ==
  /\ agent = "working" /\ executing /\ todos # <<>>
  /\ agent' = "idle"
  /\ IF \A i \in DOMAIN todos : todos[i]
     THEN /\ executing' = FALSE /\ todos' = <<>>
          /\ UNCHANGED <<planMode, before, active>>
          /\ UpdateStatus /\ PersistState
     ELSE UNCHANGED <<memory, entry>>
  /\ UNCHANGED <<usual, asks, message, due, since, mine, lost>>

\* agent_end otherwise: in plan mode, with a user to ask, the steps of the answer replace the list.
PlanningEnd ==
  /\ agent = "working" /\ ~(executing /\ todos # <<>>)
  /\ agent' = "idle"
  /\ \/ UNCHANGED <<memory, entry, asks>>
     \/ /\ planMode
        /\ \E k \in 0..MaxSteps :
             LET list == IF k > 0 THEN [i \in 1..k |-> FALSE] ELSE todos
             IN /\ list # <<>>
                /\ todos' = list
        /\ UNCHANGED <<planMode, executing, before, active, shown>>
        /\ PersistState
        /\ asks' = "select"
  /\ UNCHANGED <<usual, message, due, since, mine, lost>>

\* "Execute the plan", if /plan has not emptied the list meanwhile.
ExecutePlan ==
  /\ asks = "select"
  /\ asks' = "none"
  /\ IF todos = <<>> THEN UNCHANGED <<memory, due, file>>
     ELSE /\ planMode' = FALSE /\ executing' = TRUE /\ todos' = todos
          /\ RestoreNormalModeTools
          /\ UpdateStatus /\ PersistState
          /\ due' = TRUE /\ mine' = {} /\ lost' = FALSE
          /\ UNCHANGED since
  /\ UNCHANGED <<usual, agent, message>>

\* Mutant of Deliver: the steps of earlier executions still count.
DeliverUnmarked ==
  /\ due /\ agent = "idle"
  /\ due' = FALSE /\ agent' = "working"
  /\ UNCHANGED <<usual, memory, asks, message, file>>
\* The execute message reaches the file and starts a run.
Deliver ==
  /\ due /\ agent = "idle"
  /\ due' = FALSE /\ agent' = "working"
  /\ since' = {}
  /\ UNCHANGED <<usual, memory, asks, message, entry, mine, lost>>

Stay ==     \* or the dialog is dismissed, or the editor left empty
  /\ asks # "none"
  /\ asks' = "none"
  /\ UNCHANGED <<usual, memory, agent, message, due, file>>

Refine ==
  /\ asks = "select"
  /\ asks' = "editor"
  /\ UNCHANGED <<usual, memory, agent, message, due, file>>

SendRefinement ==
  /\ asks = "editor" /\ agent = "idle"
  /\ asks' = "none" /\ agent' = "working"
  /\ UNCHANGED <<usual, memory, message, due, file>>

PlanNext ==
  \/ Restart \/ TogglePlanMode \/ Prompt \/ Say \/ TurnEnd \/ ExecutionEnd \/ PlanningEnd
  \/ ExecutePlan \/ Deliver \/ Stay \/ Refine \/ SendRefinement

PlanSpec == PlanInit /\ [][PlanNext]_planVars
-----------------------------------------------------------------------------
(* Properties *)

PlanTypeOK ==
  /\ usual \in SUBSET Tools /\ active \in SUBSET Tools
  /\ before \in (SUBSET Tools) \cup {Undefined}
  /\ planMode \in BOOLEAN /\ executing \in BOOLEAN /\ lost \in BOOLEAN /\ due \in BOOLEAN
  /\ todos \in Seq(BOOLEAN) /\ Len(todos) <= MaxSteps
  /\ asks \in {"none", "select", "editor"}
  /\ agent \in {"idle", "working", "said"}
  /\ message \subseteq 1..MaxSteps /\ since \subseteq 1..MaxSteps /\ mine \subseteq 1..MaxSteps

(* Whatever toggles, dialogs and restarts came before: plan mode runs with   *)
(* the user's tools less edit and write and with the read-only list of its  *)
(* own (PLAN_MODE_TOOLS), any other mode with exactly the tools the user    *)
(* had; planning and executing exclude each other, and the footer shows     *)
(* which of them is on.                                                     *)
ToolsFollowMode ==
  /\ active = IF planMode THEN GetPlanModeTools(usual) ELSE usual
  /\ before = IF planMode THEN usual ELSE Undefined
  /\ ~(planMode /\ executing)
  /\ shown = Status(planMode, executing, todos)

(* While a plan is executed, a step counts as completed only if a message   *)
(* of this execution reported it, a resumed session included; and when a    *)
(* new run starts no step that was reported is left among the remaining     *)
(* ones.  The first half fails only if the process died before the message  *)
(* that marks the execution's start was in the file.                        *)
ProgressIsReal == executing =>
  /\ ~lost => Completed(todos) \subseteq mine
  /\ agent = "idle" => Remaining \cap mine = {}
=============================================================================
