------------------------------- MODULE Agent -------------------------------
(* The extensions of the coding agent under .pi, one at a time: a call of    *)
(* the subagent tool, a questionnaire, or plan mode over the life of a       *)
(* session.  They share no state: a child agent has a process of its own    *)
(* and no user, a questionnaire holds the screen until it is answered.      *)
EXTENDS Subagent, PlanMode, Questionnaire

VARIABLE extension

vars == <<extension, subVars, planVars, askVars>>

\* An extension that does not run keeps one of its initial states.
Resting(e) ==
  \/ extension = e
  \/ e = "subagent"
  \/ e = "plan-mode" /\ usual = Tools /\ ~planMode
  \/ e = "questionnaire" /\ questions = <<CHOOSE q \in Question : TRUE>>

Extensions == {"subagent", "plan-mode", "questionnaire"}

Init ==
  /\ extension \in Extensions
  /\ SubInit /\ PlanInit /\ AskInit
  /\ \A e \in Extensions : Resting(e)

Next ==
  \/ /\ extension = "subagent" /\ SubNext
     /\ UNCHANGED <<extension, planVars, askVars>>
  \/ /\ extension = "plan-mode" /\ PlanNext
     /\ UNCHANGED <<extension, subVars, askVars>>
  \/ /\ extension = "questionnaire" /\ AskNext
     /\ UNCHANGED <<extension, subVars, planVars>>

Spec == Init /\ [][Next]_vars

\* Only the subagent tool promises to end; users and models promise nothing.
FairSpec == Spec /\ SubFairness
-----------------------------------------------------------------------------
\* The types of the variables of the three extensions.
TypeOK == SubTypeOK /\ PlanTypeOK /\ AskTypeOK
=============================================================================
