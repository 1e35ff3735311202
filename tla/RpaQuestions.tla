---------------------------- MODULE RpaQuestions ----------------------------
(***************************************************************************)
(* The question form in the text of a run: question-form-parser.ts.        *)
(*                                                                         *)
(* A transcript is the sequence of its <question-form> blocks.  Of a block *)
(* it matters whether its closing tag is there, whether its body is JSON   *)
(* with an array of questions, and what these are.                         *)
(***************************************************************************)
EXTENDS Sequences, SequencesExt

NoForm == [isForm |-> FALSE, questions |-> {}]

QuestionTypes == {"text", "textarea", "radio", "checkbox", "select"}
ChoiceTypes   == {"radio", "checkbox", "select"}

\* Bound: of the other spellings of a type, one for each type.
NormalizeQuestionType(type) ==
  CASE type \in QuestionTypes    -> type
    [] type = "single_choice"    -> "radio"
    [] type = "multiple_choice"  -> "checkbox"
    [] type = "dropdown"         -> "select"
    [] type = "string"           -> "text"
    [] type = "paragraph"        -> "textarea"
    [] OTHER                     -> "none"

\* An option is the text of its label, without the blanks around it.
OptionIsSound(option) == option # ""

\* A question that is not a choice may have options: nobody looks at them.
QuestionIsSound(question) ==
  /\ question.id # "" /\ question.label # ""
  /\ NormalizeQuestionType(question.type) # "none"
  /\ NormalizeQuestionType(question.type) \in ChoiceTypes =>
       /\ question.hasOptions
       /\ \A option \in question.options : OptionIsSound(option)

\* A form without questions is a form.
CandidateIsSound(candidate) ==
  /\ candidate.isForm
  /\ \A question \in candidate.questions : QuestionIsSound(question)

\* A block without its closing tag reaches to that of a later block, and is no
\* JSON then; when there is none, it is passed over.
Candidates(transcript) ==
  LET reaches(i) == \E j \in i..Len(transcript) : transcript[j].closed
      body(i) == IF transcript[i].closed THEN transcript[i].body ELSE NoForm
  IN [i \in {j \in DOMAIN transcript : reaches(j)} |-> body(i)]

\* The last candidate that is sound; an error when all are not.
ParseQuestionForm(transcript) ==
  LET candidates == Candidates(transcript) IN
  IF DOMAIN candidates = {} THEN "none"
  ELSE IF \E i \in DOMAIN candidates : CandidateIsSound(candidates[i]) THEN "form"
  ELSE "invalid"

-----------------------------------------------------------------------------
(* Bound: the questions and transcripts of the runs *)

Question(type, options) ==
  [id |-> "q", label |-> "Which?", type |-> type, hasOptions |-> TRUE, options |-> options]
Form(question) == [closed |-> TRUE, body |-> [isForm |-> TRUE, questions |-> {question}]]

Sound   == Form(Question("single_choice", {"a", "b"}))
Unsound == Form(Question("dropdown", {"a", ""}))
Open    == [closed |-> FALSE, body |-> NoForm]

Transcripts == {<<>>, <<Open>>, <<Sound>>, <<Unsound>>, <<Sound, Unsound>>, <<Open, Sound>>}
=============================================================================
