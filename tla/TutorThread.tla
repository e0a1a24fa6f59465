---------------------------- MODULE TutorThread -----------------------------
(***************************************************************************)
(* The tutoring state of one chat thread (conversation.TutorState) and the *)
(* turns that work on it: engine.plan_turn, which handles a message in one *)
(* step, and what api/routes/chat.py does to the same state after its      *)
(* awaits: engine.finish_rag when the grounded answer has been streamed,   *)
(* the advisory of a realised reply, and the model-written follow-up.      *)
(*                                                                         *)
(* plan_turn and finish_rag contain no await, so each is one step.         *)
(* Between them the server runs other requests of the same thread (a       *)
(* second tab, or a message sent after Stop while the old turn still       *)
(* streams): job[r] is what request r will still do, computed from the     *)
(* state plan_turn saw.                                                    *)
(*                                                                         *)
(* A message is what conversation.classify, classify_answer and            *)
(* concept_for_text find in it: an action per intent, with the answer's    *)
(* label and the concept named as parameters.  Of a reply, the model keeps *)
(* the question it poses, the question it reminds of and the quiz it sums  *)
(* up; chips and wording are left out, and so is the never-repeat guard,   *)
(* which replaces wording only.                                            *)
(***************************************************************************)
EXTENDS Pedagogy

CONSTANTS
    Requests,        \* requests that may be in flight on the thread at once
    PathPosition,    \* concept -> its place in knowledge.learning_path
    QuizLength,      \* QUIZ_LENGTH
    ModelFollowups,  \* OS_RAG_MODEL_FOLLOWUPS
    Free,            \* a question written by the model
    None

ASSUME ThreadAssumption ==
    /\ PathPosition \in [Concepts -> Nat]
    /\ QuizLength \in Nat \ {0}
    /\ ModelFollowups \in BOOLEAN
    /\ Free \notin Questions
    /\ None \notin Concepts \union Questions \union {Free}

VARIABLES
    concepts,   \* state.concepts: the ConceptStates of the thread
    pending,    \* state.pending: the one Socratic question waiting for an answer
    quiz,       \* state.quiz: the "test my understanding" run in progress
    topic,      \* state.topic: the last concept discussed
    job,        \* request -> what it still has to do, None when idle
    said        \* what the last reply of the thread put before the student

vars == <<concepts, pending, quiz, topic, job, said>>

Authored(q, source) ==
    [kind |-> "authored", question |-> q, source |-> source,
     hinted |-> FALSE, simplified |-> FALSE, reminded |-> FALSE]

FreeQuestion(c) ==
    [kind |-> "free", question |-> Free, concept |-> c, reminded |-> FALSE]

RagPlan(c, named, quiet, struggling, resume) ==
    [kind |-> "rag", concept |-> c, named |-> named, quiet |-> quiet,
     struggling |-> struggling, resume |-> resume]

Advice(c) == [kind |-> "advise", concept |-> c]
Offer     == [kind |-> "offer"]      \* generate_followups has been called
Offering  == [kind |-> "offering"]   \* its question is being streamed

IsAuthored == pending # None /\ pending.kind = "authored"
IsFree     == pending # None /\ pending.kind = "free"

(* resume_line: the question the student is led back to.                   *)
Reminder == IF pending = None THEN None ELSE pending.question

Saying(poses, reminds, report) ==
    [poses |-> poses, reminds |-> reminds, report |-> report]
Nothing == Saying(None, None, None)

Init ==
    /\ concepts = NewConceptStates
    /\ pending = None
    /\ quiz = None
    /\ topic = None
    /\ job = [r \in Requests |-> None]
    /\ said = Nothing

----------------------------------------------------------------------------
(* Building blocks: what every handler ends in.                            *)

(* A message of request r reaches plan_turn.                               *)
Arrives(r) == job[r] = None

(* A turn that ends in a reply composed from authored text.                *)
Replies(saying) == said' = saying /\ UNCHANGED job

(* A turn that goes on to retrieval.                                       *)
Plans(r, plan) == job' = [job EXCEPT ![r] = plan] /\ said' = Nothing

(* Mutant: the question is not put on record as asked.                     *)
AskUnrecorded(cs, q, source) ==
    /\ concepts' = Intervened(Introduce(cs, ConceptOf[q]), ConceptOf[q])
    /\ pending' = Authored(q, source)
    /\ topic' = ConceptOf[q]

(* _ask: pose q, on the concept states cs.                                 *)
Ask(cs, q, source) ==
    /\ concepts' = [Intervened(Introduce(cs, ConceptOf[q]), ConceptOf[q])
                       EXCEPT !.asked = @ \union {q}]
    /\ pending' = Authored(q, source)
    /\ topic' = ConceptOf[q]

(* Mutant: the questions of a quiz are not counted.                        *)
QuizNextUncounted(cs, qz, candidates) ==
    /\ \E q \in candidates :
          /\ Ask(cs, q, "quiz")
          /\ Replies(Saying(q, None, None))
    /\ quiz' = qz

(* _quiz_next: the next question of quiz run qz, else its summary.         *)
QuizNext(cs, qz, candidates) ==
    \/ /\ qz.asked < QuizLength
       /\ \E q \in candidates :
             /\ Ask(cs, q, "quiz")
             /\ Replies(Saying(q, None, None))
       /\ quiz' = [qz EXCEPT !.asked = @ + 1]
    \/ /\ qz.asked >= QuizLength \/ candidates = {}
       /\ concepts' = cs
       /\ pending' = None
       /\ quiz' = None
       /\ Replies(Saying(None, None, qz))
       /\ UNCHANGED topic

QuizOn(c) == quiz # None /\ quiz.concept = c

(* _finish_question: the pending question q is answered, explained or      *)
(* skipped; a quiz on its concept goes on with its next question.          *)
FinishQuestion(cs, q, correct) ==
    \/ /\ QuizOn(ConceptOf[q])
       /\ LET deeper == DeeperQuestions(cs, q)
          IN  QuizNext(cs,
                       [quiz EXCEPT !.correct = IF correct THEN @ + 1 ELSE @],
                       IF correct /\ deeper # {} THEN deeper
                       ELSE Choices(cs, ConceptOf[q], FALSE))
    \/ /\ ~QuizOn(ConceptOf[q])
       /\ concepts' = cs
       /\ pending' = None
       /\ Replies(Nothing)
       /\ UNCHANGED <<quiz, topic>>

----------------------------------------------------------------------------
(* plan_turn, whatever is pending.                                         *)

(* Triage, and the replies that leave the open question as it is: a nudge  *)
(* after a bare "ok", a hint already given, a hint echoed back.            *)
LeaveAsIs(r) ==
    /\ Arrives(r)
    /\ concepts' = Tick(concepts)
    /\ Replies(Nothing)
    /\ UNCHANGED <<pending, quiz, topic>>

(* "give me a video", "I'm not satisfied": answered, then back to the      *)
(* open question.                                                          *)
SideRequest(r) ==
    /\ Arrives(r)
    /\ concepts' = Tick(concepts)
    /\ Replies(Saying(None, Reminder, None))
    /\ UNCHANGED <<pending, quiz, topic>>

(* "as bullet points": the last topic again, in another shape.             *)
Reformat(r) ==
    /\ Arrives(r)
    /\ topic # None
    /\ concepts' = Tick(concepts)
    /\ Plans(r, RagPlan(topic, TRUE, TRUE, FALSE, Reminder))
    /\ UNCHANGED <<pending, quiz, topic>>

(* Mutant: taking a break ends the quiz but not its open question.         *)
PauseKeepsQuestion(r) ==
    /\ Arrives(r)
    /\ concepts' = Tick(concepts)
    /\ quiz' = None
    /\ Replies(Nothing)
    /\ UNCHANGED <<pending, topic>>

Pause(r) ==
    /\ Arrives(r)
    /\ concepts' = Tick(concepts)
    /\ pending' = None
    /\ quiz' = None
    /\ Replies(Nothing)
    /\ UNCHANGED topic

(* PATH, LOST, GREETING, HELP_OPENER, NEXT_TOPIC, a QUIZ on no topic: the  *)
(* open question is dropped, a quiz in progress is not.                    *)
ChangeDirection(r) ==
    /\ Arrives(r)
    /\ concepts' = Tick(concepts)
    /\ pending' = None
    /\ Replies(Nothing)
    /\ UNCHANGED <<quiz, topic>>

(* PREREQS of concept c, named in the message or the topic.                *)
AskPrerequisites(r, c) ==
    /\ Arrives(r)
    /\ concepts' = Tick(concepts)
    /\ pending' = None
    /\ topic' = c
    /\ Replies(Nothing)
    /\ UNCHANGED quiz

(* _start_quiz on concept c, named in the message or the topic.            *)
StartQuiz(r, c) ==
    /\ Arrives(r)
    /\ QuestionsOn(c) # {}
    /\ LET cs == Tick(concepts)
       IN  QuizNext(cs, [concept |-> c, asked |-> 0, correct |-> 0],
                    Choices(cs, c, FALSE))

----------------------------------------------------------------------------
(* plan_turn with nothing pending.                                         *)

(* Mutant: the next idea is the next one of the path.                      *)
NextIdeasOnward ==
    LET ahead == {c \in Concepts : concepts.state[c] = UNKNOWN /\ PathPosition[c] > PathPosition[topic]}
    IN  {c \in ahead : \A d \in ahead : PathPosition[c] <= PathPosition[d]}

(* _advance: "ok" / "next" goes on to the next idea of the path: concepts  *)
(* never touched first, then those not understood yet.                     *)
NextIdeas ==
    LET unseen == {c \in Concepts : concepts.state[c] = UNKNOWN} \ {topic}
        later  == {c \in Concepts : UNKNOWN < concepts.state[c]
                                    /\ concepts.state[c] < UNDERSTOOD} \ {topic}
        pool   == IF unseen # {} THEN unseen ELSE later
    IN  {c \in pool : \A d \in pool : PathPosition[c] <= PathPosition[d]}

Advance(r) ==
    /\ Arrives(r)
    /\ pending = None
    /\ topic # None
    /\ concepts' = Tick(concepts)
    /\ \E c \in NextIdeas : Plans(r, RagPlan(c, TRUE, FALSE, FALSE, None))
    /\ UNCHANGED <<pending, quiz, topic>>

(* A question for the course material.  Its concept is the one it names,   *)
(* else that of a misconception spotted in it, else none.  (PREREQS comes  *)
(* here too when there is no topic, having dropped a free question.)       *)
AskCourse(r, c, named, continuation) ==
    /\ Arrives(r)
    /\ pending # None => topic = None /\ ~named /\ ~continuation
    /\ named => c # None
    /\ concepts' = Tick(concepts)
    /\ pending' = None
    /\ Plans(r, RagPlan(c, named, continuation, FALSE, None))
    /\ UNCHANGED <<quiz, topic>>

(* STRUGGLE on concept c, named in the message or the topic.               *)
Struggle(r, c) ==
    /\ Arrives(r)
    /\ pending = None
    /\ concepts' = Tick(concepts)
    /\ Plans(r, RagPlan(c, TRUE, FALSE, TRUE, None))
    /\ UNCHANGED <<pending, quiz, topic>>

(* EXAMPLE naming no concept.                                              *)
AskExample(r) ==
    /\ Arrives(r)
    /\ pending = None
    /\ topic # None
    /\ concepts' = Tick(concepts)
    /\ Plans(r, RagPlan(topic, TRUE, FALSE, FALSE, None))
    /\ UNCHANGED <<pending, quiz, topic>>

----------------------------------------------------------------------------
(* plan_turn with an authored question pending: _handle_pending, _grade.   *)

Skip(r) ==
    /\ Arrives(r)
    /\ IsAuthored
    /\ FinishQuestion(Intervened(Tick(concepts), ConceptOf[pending.question]),
                      pending.question, FALSE)

Hint(r) ==
    /\ Arrives(r)
    /\ IsAuthored /\ ~pending.hinted
    /\ concepts' = Tick(concepts)
    /\ pending' = [pending EXCEPT !.hinted = TRUE]
    /\ Replies(Nothing)
    /\ UNCHANGED <<quiz, topic>>

(* "just tell me", and a second "I don't get it".                          *)
TellMe(r) ==
    /\ Arrives(r)
    /\ IsAuthored
    /\ FinishQuestion(ApplyClassification(Tick(concepts), pending.question, "UNCLEAR"),
                      pending.question, FALSE)

(* A first "I don't get it".                                               *)
Simplify(r) ==
    /\ Arrives(r)
    /\ IsAuthored /\ ~pending.simplified
    /\ concepts' = Tick(concepts)
    /\ pending' = [pending EXCEPT !.hinted = TRUE, !.simplified = TRUE]
    /\ Replies(Nothing)
    /\ UNCHANGED <<quiz, topic>>

SideExample(r) ==
    /\ Arrives(r)
    /\ IsAuthored
    /\ concepts' = Tick(concepts)
    /\ Plans(r, RagPlan(ConceptOf[pending.question], TRUE, FALSE, FALSE, Reminder))
    /\ UNCHANGED <<pending, quiz, topic>>

(* Mutant: the side question drops the open one, and still reminds of it.  *)
SideQuestionDrops(r, c) ==
    /\ Arrives(r)
    /\ pending # None
    /\ concepts' = Tick(concepts)
    /\ Plans(r, RagPlan(c, c # None, FALSE, FALSE, Reminder))
    /\ pending' = None
    /\ UNCHANGED <<quiz, topic>>

(* A course question while a question is open (authored or free), naming   *)
(* concept c or none: answered, with a single reminder of the open one.    *)
SideQuestion(r, c) ==
    /\ Arrives(r)
    /\ pending # None
    /\ concepts' = Tick(concepts)
    /\ LET about == IF IsAuthored THEN ConceptOf[pending.question] ELSE pending.concept
       IN  Plans(r, RagPlan(IF c # None THEN c ELSE about, c # None, FALSE, FALSE,
                            IF pending.reminded THEN None ELSE Reminder))
    /\ pending' = [pending EXCEPT !.reminded = TRUE]
    /\ UNCHANGED <<quiz, topic>>

(* Mutant: any correct answer on an understood concept makes it mastered.  *)
GradedMasters(q, label) ==
    LET cs == ApplyClassification(Tick(concepts), q, label)
    IN  IF label = "CORRECT" /\ concepts.state[ConceptOf[q]] = UNDERSTOOD
        THEN MarkMastered(cs, ConceptOf[q])
        ELSE cs

(* _grade up to next_after_answer: the concept states after an answer.     *)
Graded(q, label) ==
    LET cs == ApplyClassification(Tick(concepts), q, label)
    IN  IF /\ label = "CORRECT"
           /\ TypeOf[q] = "TRANSFER"
           /\ concepts.state[ConceptOf[q]] = UNDERSTOOD
        THEN MarkMastered(cs, ConceptOf[q])
        ELSE cs

(* An answer after which the question is done: correct, or missed often    *)
(* enough that the tutor explains.                                         *)
AnswerCloses(r, label) ==
    /\ Arrives(r)
    /\ IsAuthored
    /\ LET cs   == Graded(pending.question, label)
           next == NextAfterAnswer(cs, pending.question, label)
       IN  /\ next \in {"advance", "explain"}
           /\ FinishQuestion(cs, pending.question, next = "advance")

(* An answer after which the tutor helps and asks again.  When the keys    *)
(* could not fully read it, the reply waits for a model's wording, which   *)
(* comes with a suggested label (llm.realise_turn).                        *)
AnswerKeepsOpen(r, label, realise) ==
    /\ Arrives(r)
    /\ IsAuthored
    /\ realise => label \in {"UNCLEAR", "PARTIAL"}
    /\ NextAfterAnswer(Graded(pending.question, label), pending.question, label) = "ask_again"
    /\ concepts' = Graded(pending.question, label)
    /\ IF realise THEN Plans(r, Advice(ConceptOf[pending.question])) ELSE Replies(Nothing)
    /\ UNCHANGED <<pending, quiz, topic>>

(* _handle_free_pending: an attempt, a skip or any request for help ends a *)
(* model-written question; nothing is graded.                              *)
CloseFree(r) ==
    /\ Arrives(r)
    /\ IsFree
    /\ concepts' = Tick(concepts)
    /\ pending' = None
    /\ Replies(Nothing)
    /\ UNCHANGED <<quiz, topic>>

----------------------------------------------------------------------------
(* What chat.py does with the thread after an await of request r.          *)

Done(r, saying) == job' = [job EXCEPT ![r] = None] /\ said' = saying

Has(r, kind) == job[r] # None /\ job[r].kind = kind

(* Retrieval or generation failed, or the client went away.                *)
Abandon(r) ==
    /\ job[r] # None
    /\ Done(r, Nothing)
    /\ UNCHANGED <<concepts, pending, quiz, topic>>

(* engine.off_topic: retrieval found nothing relevant.                     *)
OffTopic(r) ==
    /\ Has(r, "rag") /\ ~job[r].named
    /\ Done(r, Saying(None, Reminder, None))
    /\ UNCHANGED <<concepts, pending, quiz, topic>>

(* The realised reply arrived, with the label it suggests.                 *)
Advise(r, suggested) ==
    /\ Has(r, "advise")
    /\ concepts' = ApplyAdvisory(concepts, job[r].concept, suggested)
    /\ Done(r, Nothing)
    /\ UNCHANGED <<pending, quiz, topic>>

(* finish_rag.  The answer was about concept c: the plan's, else one found *)
(* in the titles of the sources, else none.                                *)
AnswerConcept(r, c) ==
    IF job[r].concept # None THEN c = job[r].concept ELSE c \in Concepts \union {None}

Introduced(c) == IF c # None THEN Introduce(concepts, c) ELSE concepts

(* Mutant: a follow-up is chosen whether or not a question is open.        *)
FollowupStacks(r, c) ==
    IF /\ c # None
       /\ ~job[r].struggling /\ ~job[r].quiet
       /\ MayOpenFollowup(Introduced(c), c)
    THEN Choices(Introduced(c), c, TRUE)
    ELSE {}

(* The questions that may follow the answer.                               *)
FollowupChoices(r, c) ==
    IF /\ pending = None
       /\ c # None
       /\ ~job[r].struggling /\ ~job[r].quiet
       /\ MayOpenFollowup(Introduced(c), c)
    THEN Choices(Introduced(c), c, TRUE)
    ELSE {}

FinishWithQuestion(r, c) ==
    /\ Has(r, "rag")
    /\ AnswerConcept(r, c)
    /\ \E q \in FollowupChoices(r, c) :
          /\ Ask(Introduced(c), q, "followup")
          /\ Done(r, Saying(q, job[r].resume, None))
    /\ UNCHANGED quiz

(* Nothing to ask, a refusal, or socratic off.  With OS_RAG_MODEL_FOLLOWUPS *)
(* a model may then be asked for a follow-up: if no question is open once  *)
(* the suffix has been sent, which may be later than this step.            *)
FinishPlain(r, c, refused, socratic) ==
    /\ Has(r, "rag")
    /\ AnswerConcept(r, c)
    /\ socratic /\ ~refused => FollowupChoices(r, c) = {}
    /\ concepts' = Introduced(c)
    /\ topic' = IF c # None THEN c ELSE topic
    /\ said' = Saying(None, job[r].resume, None)
    /\ job' = [job EXCEPT ![r] =
                  IF ModelFollowups /\ socratic /\ ~refused /\ ~job[r].quiet
                  THEN Offer ELSE None]
    /\ UNCHANGED <<pending, quiz>>

(* The follow-up arrived: its question is streamed if none is open...      *)
StreamOffer(r) ==
    /\ Has(r, "offer")
    /\ pending = None
    /\ job' = [job EXCEPT ![r] = Offering]
    /\ said' = Nothing
    /\ UNCHANGED <<concepts, pending, quiz, topic>>

(* ...and becomes the pending one once it has been sent.                   *)
SetFree(r) ==
    /\ Has(r, "offering")
    /\ pending' = FreeQuestion(topic)
    /\ Done(r, Saying(Free, None, None))
    /\ UNCHANGED <<concepts, quiz, topic>>

----------------------------------------------------------------------------
AnyConcept == Concepts \union {None}

PlanTurn(r) ==
    \/ LeaveAsIs(r) \/ SideRequest(r) \/ Reformat(r) \/ Pause(r) \/ ChangeDirection(r)
    \/ \E c \in Concepts : AskPrerequisites(r, c) \/ StartQuiz(r, c) \/ Struggle(r, c)
    \/ Advance(r) \/ AskExample(r)
    \/ \E c \in AnyConcept, named, continuation \in BOOLEAN : AskCourse(r, c, named, continuation)
    \/ Skip(r) \/ Hint(r) \/ TellMe(r) \/ Simplify(r) \/ SideExample(r) \/ CloseFree(r)
    \/ \E c \in AnyConcept : SideQuestion(r, c)
    \/ \E label \in Labels : \/ AnswerCloses(r, label)
                             \/ \E realise \in BOOLEAN : AnswerKeepsOpen(r, label, realise)

AfterAwait(r) ==
    \/ Abandon(r) \/ OffTopic(r)
    \/ \E suggested \in Labels : Advise(r, suggested)
    \/ \E c \in AnyConcept : \/ FinishWithQuestion(r, c)
                             \/ \E refused, socratic \in BOOLEAN :
                                   FinishPlain(r, c, refused, socratic)
    \/ StreamOffer(r) \/ SetFree(r)

Next == \E r \in Requests : PlanTurn(r) \/ AfterAwait(r)

Spec == Init /\ [][Next]_vars

----------------------------------------------------------------------------
(* Properties.                                                             *)

QuestionOrNone == Questions \union {Free, None}

PendingType ==
    [kind : {"authored"}, question : Questions, source : {"quiz", "followup"},
     hinted : BOOLEAN, simplified : BOOLEAN, reminded : BOOLEAN]
    \union [kind : {"free"}, question : {Free}, concept : AnyConcept, reminded : BOOLEAN]

QuizType == [concept : Concepts, asked : Nat, correct : Nat]

JobType ==
    [kind : {"rag"}, concept : AnyConcept, named : BOOLEAN, quiet : BOOLEAN,
     struggling : BOOLEAN, resume : QuestionOrNone]
    \union [kind : {"advise"}, concept : Concepts]
    \union [kind : {"offer", "offering"}]

SayingType ==
    [poses : QuestionOrNone, reminds : QuestionOrNone, report : QuizType \union {None}]

ASSUME NoneAssumption == None \notin PendingType \union QuizType \union JobType

TypeOK ==
    /\ concepts \in ConceptStates
    /\ pending \in PendingType \union {None}
    /\ quiz \in QuizType \union {None}
    /\ topic \in AnyConcept
    /\ job \in [Requests -> JobType \union {None}]
    /\ said \in SayingType

(* A question that waits for an answer is on record as asked (a skipped or *)
(* dropped one is never repeated), its concept is introduced, and it has   *)
(* been missed fewer times than it takes the tutor to explain: however     *)
(* hints, help and side turns interleave, no question is open for ever     *)
(* (engine._ask, _grade, pedagogy.next_after_answer).                      *)
PendingIsWorthAsking ==
    IsAuthored =>
        /\ pending.question \in concepts.asked
        /\ concepts.state[ConceptOf[pending.question]] >= INTRODUCED
        /\ concepts.misses[pending.question] < ExplainAfter

(* The score of a quiz in progress: at least one answer short of what was  *)
(* asked, and never more asked than the quiz has, although answers to      *)
(* follow-ups on its concept move it too (engine._quiz_next,               *)
(* _finish_question).                                                      *)
QuizScoreBounded ==
    quiz # None => quiz.correct < quiz.asked /\ quiz.asked <= QuizLength

(* An open quiz question always belongs to the quiz in progress, so its    *)
(* answer is counted and brings the next one.                              *)
QuizQuestionHasQuiz ==
    IsAuthored /\ pending.source = "quiz" =>
        quiz # None /\ quiz.concept = ConceptOf[pending.question]

(* A quiz keeps its score right and its question its own, along any        *)
(* sequence of quizzes, follow-ups, breaks and changes of direction.       *)
QuizIsSound == QuizScoreBounded /\ QuizQuestionHasQuiz

(* A reply waiting for a model's wording is about a concept the student    *)
(* has already attempted, whatever other turns of the thread did since.    *)
AdviceFollowsAttempt ==
    \A r \in Requests : Has(r, "advise") => concepts.state[job[r].concept] >= ATTEMPTED

(* The life of each authored question, as the thread's state tells it.     *)
Status(q) ==
    IF IsAuthored /\ pending.question = q THEN "open"
    ELSE IF q \in concepts.asked THEN "closed" ELSE "unasked"

Lifecycle == INSTANCE QuestionLifecycle WITH status <- [q \in Questions |-> Status(q)]

(* Whatever turns interleave, an authored question is put to the student   *)
(* at most once, one is open at a time, and a closed one never comes back  *)
(* (choose_question, deeper_question: "never repeats an asked question").  *)
QuestionsLiveOnce == Lifecycle!LifecycleSpec

(* Understanding follows the evidence: a concept becomes UNDERSTOOD only   *)
(* when a question about it is pending, MASTERED only from UNDERSTOOD by a *)
(* TRANSFER question, and it drops only from there, and only to            *)
(* PARTIALLY_UNDERSTOOD, while a question about it is pending.             *)
MasteryFollowsEvidence ==
    [][\A c \in Concepts :
         LET before == concepts.state[c]
             after  == concepts'.state[c]
             tested == IsAuthored /\ ConceptOf[pending.question] = c
         IN  /\ after > before /\ after >= UNDERSTOOD => tested
             /\ after = MASTERED /\ before # MASTERED =>
                   before = UNDERSTOOD /\ TypeOf[pending.question] = "TRANSFER"
             /\ after < before => /\ tested
                                  /\ before >= UNDERSTOOD
                                  /\ after = PARTIALLY_UNDERSTOOD]_vars

(* A model's suggestion lifts a concept at most one level, never past      *)
(* PARTIALLY_UNDERSTOOD, and never lowers it, although other turns may     *)
(* have moved the concept while the model was asked                        *)
(* (pedagogy.apply_advisory, chat.py after llm.realise_turn).              *)
AdvisoryIsClamped ==
    [][\A r \in Requests :
         Has(r, "advise") /\ job'[r] = None =>
             \A c \in Concepts :
                 \/ concepts'.state[c] = concepts.state[c]
                 \/ /\ concepts'.state[c] = concepts.state[c] + 1
                    /\ concepts'.state[c] <= PARTIALLY_UNDERSTOOD]_vars

(* An answer brings at most one question: it does not lead back to an open *)
(* question and pose another (docs/GUIDE_PART2_RAG_CHATBOT_PIPELINE.md:538 *)
(* "Appends at most one authored Socratic question", "never stacks a       *)
(* second question on a pending one").                                     *)
OneQuestionPerReply == said.poses = None \/ said.reminds = None

(* A student is only led back to the question that is open.                *)
ReminderIsOpen == said.reminds # None => said.reminds = Reminder
=============================================================================
