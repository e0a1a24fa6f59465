------------------------------ MODULE Intents -------------------------------
(***************************************************************************)
(* What the tutor takes a message for (tutor/triage.py,                    *)
(* tutor/conversation.py).  A message is [kind, about]: a chip the tutor   *)
(* offered, or one of the kinds of typed messages; about is the concept    *)
(* concept_for_text finds in it.  The text is reduced to its cues: the     *)
(* families of patterns that match it.                                     *)
(***************************************************************************)
EXTENDS OsCourse

LOCAL INSTANCE SequencesExt

CONSTANT None

Message(kind, about) == [kind |-> kind, about |-> about]
Act(kind)            == Message(kind, None)      \* a chip of ACTIONS

(* The intents of the chips with a fixed text, whatever patterns they match. *)
ChipIntents ==
    [hint |-> "hint", tell_me |-> "tell_me", skip |-> "skip", example |-> "example", pause |-> "pause",
     path |-> "path", lost |-> "lost", next_quiz |-> "skip", continue |-> "continue",
     simpler |-> "struggle", bullets |-> "format", next_topic |-> "skip"]

IsAction(m) == m.about = None /\ m.kind \in DOMAIN ChipIntents

(* Names too long for the word limit of the "with an example" and "more    *)
(* simply" patterns.                                                       *)
LongInExample == {"user_kernel_mode", "system_call", "fork_exec_wait", "address_space",
                  "memory_allocation", "demand_paging", "race_condition"}
LongInSimply  == LongInExample \ {"system_call", "memory_allocation"}

(* The families that match a message: first the chips that name a concept, *)
(* then what is typed.                                                     *)
Cues(m) ==
    CASE m.kind \in {"explain", "why", "connect", "ask"} -> {"question"}
      [] m.kind = "show"        -> {"question", "example"}
      [] m.kind = "with_example" -> {"question"} \union (IF m.about \in LongInExample THEN {} ELSE {"example"})
      [] m.kind = "more_simply" -> {"question"} \union (IF m.about \in LongInSimply THEN {} ELSE {"struggle"})
      [] m.kind = "know_first"  -> {"question", "prereqs"}
      [] m.kind = "begin"       -> {"question", "path"}
      [] m.kind \in {"test", "check"} -> {"quiz"}
      [] m.kind = "after"       -> {"question", "next_topic"}
      [] m.kind = "points"      -> {"format"}
      [] m.kind = "ok"          -> {"ack"}
      [] m.kind = "hello"       -> {"greeting"}
      [] m.kind = "video"       -> {"question", "capability"}
      [] m.kind = "unhelpful"   -> {"dissatisfied"}
      [] m.kind = "overwhelmed" -> {"distress", "struggle"}
      [] OTHER                  -> {}              \* "attempt", "tell_me_more"

TriageOrder == <<"injection", "distress", "off_scope", "smalltalk">>
IntentOrder ==
    <<"pause", "quiz", "tell_me", "skip", "hint", "prereqs", "next_topic", "path", "lost", "help_opener",
      "greeting", "continue", "ack", "dissatisfied", "capability", "struggle", "format", "example", "question">>

(* Mutant: a message that looks like a question is one.                    *)
QuestionFirst(order, m, otherwise) ==
    LET found == SelectInSeq(<<"question">> \o order, LAMBDA cue : cue \in Cues(m))
    IN  IF found = 0 THEN otherwise ELSE (<<"question">> \o order)[found]

FirstCue(order, m, otherwise) ==
    LET found == SelectInSeq(order, LAMBDA cue : cue \in Cues(m))
    IN  IF found = 0 THEN otherwise ELSE order[found]

(* A request to reshape the last answer is a question of its own if it     *)
(* names a concept or reads like a full question, which the bullets chip   *)
(* does ("Give that as short bullet points").                              *)
NamesItsTopic(m) == m.about # None \/ m = Act("bullets")

Triage(m) == FirstCue(TriageOrder, m, "course")
Intent(m) == IF IsAction(m) THEN ChipIntents[m.kind] ELSE FirstCue(IntentOrder, m, "answer")

(* A label of classify_answer is possible for an answer that matches so    *)
(* many groups of keys of question q, or none that a misconception hides.  *)
AnswerLabels(c, q) ==
    {"UNCLEAR"} \union {"CORRECT" : n \in q.need .. q.groups}
                \union {"PARTIAL" : n \in 1 .. (q.need - 1)}
                \union (IF c \in Misconceived THEN {"MISCONCEPTION"} ELSE {})
=============================================================================
