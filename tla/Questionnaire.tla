---------------------------- MODULE Questionnaire ----------------------------
(* The questionnaire tool of .pi/extensions/questionnaire.ts: one question  *)
(* shows a list, several show a tab each and a Submit tab after them.       *)
(*                                                                         *)
(* The model gives the questions: their ids need not differ and a list may  *)
(* be empty, for the parameters' schema forbids neither.  An answer is the  *)
(* number of the chosen option, or Typed.                                   *)
EXTENDS Integers, Sequences

CONSTANTS Ids, MaxQuestions, MaxOptions

\* "none" stands for a null inputQuestionId (NoId below).
ASSUME AskAssumption == "none" \notin Ids /\ MaxQuestions \in Nat /\ MaxOptions \in Nat

VARIABLES
  questions,  \* sequence of [id, options, other]
  tab,        \* currentTab, from 0; Len(questions) is the Submit tab
  option,     \* optionIndex, from 0
  input,      \* inputQuestionId: NoId outside the editor
  answers,    \* function from the ids answered so far
  dialog      \* "open", "submitted", "cancelled", "crashed"

askVars == <<questions, tab, option, input, answers, dialog>>

NoId == "none"
Typed == 0
Question == [id : Ids, options : 0..MaxOptions, other : BOOLEAN]

IsMulti == Len(questions) > 1
OnSubmitTab == tab = Len(questions)
Current == questions[tab + 1]

\* currentOptions: the question's own, then "Type something." unless it was turned off.
OptionsOf(q) == q.options + IF q.other THEN 1 ELSE 0
OptionCount == IF OnSubmitTab THEN 0 ELSE OptionsOf(Current)

AllAnswered == \A i \in DOMAIN questions : questions[i].id \in DOMAIN answers

\* The checks before the dialog: an empty list of questions is an error result.
AskInit ==
  /\ questions \in UNION {[1..k -> Question] : k \in 1..MaxQuestions}
  /\ tab = 0 /\ option = 0 /\ input = NoId
  /\ answers = [id \in {} |-> 0]
  /\ dialog = "open"

\* Mutant of AdvanceAfterAnswer: the cursor stays where it was.
AdvanceKeepsOption ==
  IF ~IsMulti THEN dialog' = "submitted" /\ UNCHANGED <<tab, option>>
  ELSE tab' = tab + 1 /\ UNCHANGED <<dialog, option>>
\* advanceAfterAnswer; the last question leads to the Submit tab.
AdvanceAfterAnswer ==
  IF ~IsMulti THEN dialog' = "submitted" /\ UNCHANGED <<tab, option>>
  ELSE tab' = tab + 1 /\ option' = 0 /\ UNCHANGED dialog

SaveAnswer(id, value) == answers' = [k \in DOMAIN answers \cup {id} |-> IF k = id THEN value ELSE answers[k]]

Editing == input # NoId
Listening == dialog = "open" /\ ~Editing

\* editor.onSubmit; an empty text is "(no response)", an answer like any other.
SubmitText ==
  /\ dialog = "open" /\ Editing
  /\ SaveAnswer(input, Typed)
  /\ input' = NoId
  /\ AdvanceAfterAnswer
  /\ UNCHANGED questions

LeaveEditor ==
  /\ dialog = "open" /\ Editing
  /\ input' = NoId
  /\ UNCHANGED <<questions, tab, option, answers, dialog>>

\* Tab and the arrows go round all the tabs, Submit included.
SwitchTab ==
  /\ Listening /\ IsMulti
  /\ \E step \in {1, Len(questions)} : tab' = (tab + step) % (Len(questions) + 1)
  /\ option' = 0
  /\ UNCHANGED <<questions, input, answers, dialog>>

\* Enter on the Submit tab.
Submit ==
  /\ Listening /\ IsMulti /\ OnSubmitTab /\ AllAnswered
  /\ dialog' = "submitted"
  /\ UNCHANGED <<questions, tab, option, input, answers>>

\* Mutant of Move: the list has no ends.
MoveFreely ==
  /\ Listening /\ ~OnSubmitTab
  /\ option' \in {option - 1, option + 1}
  /\ UNCHANGED <<questions, tab, input, answers, dialog>>
\* Down stops at opts.length - 1, which is -1 for an empty list.
Move ==
  /\ Listening /\ ~OnSubmitTab
  /\ \/ option' = IF option - 1 < 0 THEN 0 ELSE option - 1
     \/ option' = IF OptionCount - 1 < option + 1 THEN OptionCount - 1 ELSE option + 1
  /\ UNCHANGED <<questions, tab, input, answers, dialog>>

\* Enter on an option.  opts[optionIndex] may not exist: reading isOther of it throws.
Choose ==
  /\ Listening /\ ~OnSubmitTab
  /\ \/ /\ option \notin 0..(OptionCount - 1)
        /\ dialog' = "crashed"
        /\ UNCHANGED <<tab, option, input, answers>>
     \/ /\ option = Current.options /\ Current.other
        /\ input' = Current.id
        /\ UNCHANGED <<tab, option, answers, dialog>>
     \/ /\ option \in 0..(Current.options - 1)
        /\ SaveAnswer(Current.id, option + 1)
        /\ AdvanceAfterAnswer
        /\ UNCHANGED input
  /\ UNCHANGED questions

Cancel ==
  /\ Listening
  /\ dialog' = "cancelled"
  /\ UNCHANGED <<questions, tab, option, input, answers>>

AskNext == SubmitText \/ LeaveEditor \/ SwitchTab \/ Submit \/ Move \/ Choose \/ Cancel

AskSpec == AskInit /\ [][AskNext]_askVars

\* The text of the result: each answer under the label of the first question with its id.
FirstWith(id) == CHOOSE i \in DOMAIN questions :
  questions[i].id = id /\ \A j \in 1..(i - 1) : questions[j].id # id
AnswerLines == [id \in DOMAIN answers |-> <<FirstWith(id), answers[id]>>]
-----------------------------------------------------------------------------
(* Properties *)

Distinct == \A i, j \in DOMAIN questions : questions[i].id = questions[j].id => i = j

AskTypeOK ==
  /\ questions \in Seq(Question) /\ Len(questions) \in 1..MaxQuestions
  /\ tab \in 0..Len(questions) /\ (tab = Len(questions) => IsMulti)
  /\ option \in -1..MaxOptions
  /\ input \in Ids \cup {NoId}
  /\ DOMAIN answers \subseteq Ids /\ \A id \in DOMAIN answers : answers[id] \in 0..MaxOptions
  /\ dialog \in {"open", "submitted", "cancelled", "crashed"}

\* The cursor is on an option of the shown list whatever keys led here, unless the list is empty.
CursorInList == (dialog = "open" /\ ~OnSubmitTab /\ OptionCount > 0) => option \in 0..(OptionCount - 1)

\* The editor that is open belongs to the question that is shown.
EditorIsCurrent == Editing => ~OnSubmitTab /\ Current.id = input /\ Current.other

(* A questionnaire is submitted only when every question has an answer, and *)
(* then the result names for each question an option it really has or a     *)
(* text it allows; with repeated ids the answer may be another question's.  *)
(* The dialog breaks only at a question with nothing to choose.             *)
AnswersComplete ==
  /\ dialog = "submitted" =>
       /\ \A i \in DOMAIN questions : questions[i].id \in DOMAIN answers
       /\ Distinct => \A id \in DOMAIN AnswerLines :
            LET q == questions[AnswerLines[id][1]]
                a == AnswerLines[id][2]
            IN IF a = Typed THEN q.other ELSE a \in 1..q.options
  /\ CursorInList /\ EditorIsCurrent
  /\ dialog = "crashed" => OptionsOf(Current) = 0
=============================================================================
