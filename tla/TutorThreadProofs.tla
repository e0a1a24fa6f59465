------------------------- MODULE TutorThreadProofs --------------------------
(***************************************************************************)
(* The tutor's theorems, for every knowledge base, policy and number of    *)
(* requests in flight: what the operators of Pedagogy keep true, the       *)
(* safety of a thread, what a step of it may never do, and what a student  *)
(* who waits for each turn is told.                                        *)
(***************************************************************************)
EXTENDS TutorThread, TLAPS

----------------------------------------------------------------------------
(* Lemmas about the operators of Pedagogy: what each of them keeps true of *)
(* the concept states of a thread, for every knowledge base and policy.    *)

(* Only a question that was asked can have been missed.                    *)
Coherent(cs) ==
    /\ cs \in ConceptStates
    /\ \A q \in Questions : q \notin cs.asked => cs.misses[q] = 0

(* No question is forgotten, and no concept falls below INTRODUCED or      *)
(* below ATTEMPTED once it got there.                                      *)
Grows(cs, ds) ==
    /\ cs.asked \subseteq ds.asked
    /\ \A c \in Concepts :
          /\ cs.state[c] >= INTRODUCED => ds.state[c] >= INTRODUCED
          /\ cs.state[c] >= ATTEMPTED  => ds.state[c] >= ATTEMPTED

LEMMA GrowsTransitive ==
    ASSUME NEW cs \in ConceptStates, NEW ds \in ConceptStates, NEW es \in ConceptStates,
           Grows(cs, ds), Grows(ds, es)
    PROVE  Grows(cs, es)
  BY DEF Grows

(* A label moves a state by the ladder: to UNDERSTOOD or above only if     *)
(* CORRECT, down only from there.                                          *)
LEMMA NextStateFacts ==
    ASSUME NEW s \in States, NEW label \in Labels
    PROVE  /\ NextState(s, label) \in ATTEMPTED .. MASTERED
           /\ NextState(s, label) < s =>
                 s >= UNDERSTOOD /\ NextState(s, label) = PARTIALLY_UNDERSTOOD
           /\ NextState(s, label) > s => NextState(s, label) <= UNDERSTOOD
           /\ label # "CORRECT" /\ s < UNDERSTOOD => NextState(s, label) < UNDERSTOOD
  BY DEF States, Labels, NextState, AtLeast, UNKNOWN, INTRODUCED, ATTEMPTED,
         PARTIALLY_UNDERSTOOD, UNDERSTOOD, MASTERED

(* A suggestion never lowers a state, lifts it at most to                  *)
(* PARTIALLY_UNDERSTOOD, and by one level if it was ATTEMPTED.             *)
LEMMA AdvisedFacts ==
    ASSUME NEW s \in States, NEW suggested \in Labels
    PROVE  /\ Advised(s, suggested) \in States
           /\ Advised(s, suggested) >= s
           /\ Advised(s, suggested) # s => Advised(s, suggested) <= PARTIALLY_UNDERSTOOD
           /\ s >= ATTEMPTED => Advised(s, suggested) <= s + 1
  BY DEF States, Labels, Advised, NextState, AtLeast, AtMost, UNKNOWN, INTRODUCED,
         ATTEMPTED, PARTIALLY_UNDERSTOOD, UNDERSTOOD, MASTERED

LEMMA NewIsCoherent == Coherent(NewConceptStates)
  BY PolicyAssumption DEF Coherent, ConceptStates, NewConceptStates, States, UNKNOWN, MASTERED

LEMMA TickFacts ==
    ASSUME NEW cs, Coherent(cs)
    PROVE  /\ Coherent(Tick(cs))
           /\ Grows(cs, Tick(cs))
           /\ Tick(cs).state = cs.state
           /\ Tick(cs).asked = cs.asked
           /\ Tick(cs).misses = cs.misses
  <1> DEFINE older == [c \in Concepts |-> AtMost(cs.idle[c] + 1, Cooldown)]
  <1>1. older \in [Concepts -> 0 .. Cooldown]
    BY PolicyAssumption DEF Coherent, ConceptStates, AtMost
  <1>2. Tick(cs) = [cs EXCEPT !.idle = older]
    BY DEF Tick
  <1> HIDE DEF older
  <1> QED
    BY <1>1, <1>2 DEF Coherent, Grows, ConceptStates

LEMMA IntervenedFacts ==
    ASSUME NEW cs, Coherent(cs), NEW c \in Concepts
    PROVE  /\ Coherent(Intervened(cs, c))
           /\ Grows(cs, Intervened(cs, c))
           /\ Intervened(cs, c).state = cs.state
           /\ Intervened(cs, c).asked = cs.asked
           /\ Intervened(cs, c).misses = cs.misses
  BY PolicyAssumption DEF Coherent, Grows, ConceptStates, Intervened

LEMMA IntroduceFacts ==
    ASSUME NEW cs, Coherent(cs), NEW c \in Concepts
    PROVE  /\ Coherent(Introduce(cs, c))
           /\ Grows(cs, Introduce(cs, c))
           /\ Introduce(cs, c).state =
                 [cs.state EXCEPT ![c] = AtLeast(cs.state[c], INTRODUCED)]
           /\ Introduce(cs, c).asked = cs.asked
           /\ Introduce(cs, c).misses = cs.misses
  BY DEF Coherent, Grows, ConceptStates, Introduce, AtLeast, States, UNKNOWN, INTRODUCED,
         ATTEMPTED, MASTERED

LEMMA ApplyClassificationFacts ==
    ASSUME NEW cs, Coherent(cs), NEW q \in Questions, NEW label \in Labels
    PROVE  LET ds == ApplyClassification(cs, q, label)
           IN  /\ Coherent(ds)
               /\ Grows(cs, ds)
               /\ ds.state = [cs.state EXCEPT ![ConceptOf[q]] =
                                 NextState(cs.state[ConceptOf[q]], label)]
               /\ ds.asked = cs.asked \union {q}
  <1> DEFINE c  == ConceptOf[q]
             is == Intervened(cs, c)
             ds == ApplyClassification(cs, q, label)
  <1>1. c \in Concepts
    BY KnowledgeAssumption
  <1>2. /\ is \in ConceptStates
        /\ is.state = cs.state
        /\ is.asked = cs.asked
        /\ is.misses = cs.misses
    BY <1>1, IntervenedFacts DEF Coherent
  <1>3. /\ cs \in ConceptStates
        /\ cs.state \in [Concepts -> States]
        /\ cs.misses \in [Questions -> Nat]
    BY DEF Coherent, ConceptStates
  <1>4. /\ NextState(cs.state[c], label) \in States
        /\ NextState(cs.state[c], label) >= ATTEMPTED
    BY <1>1, <1>3, NextStateFacts DEF States, UNKNOWN, ATTEMPTED, MASTERED
  <1>5. /\ ds.state = [cs.state EXCEPT ![c] = NextState(cs.state[c], label)]
        /\ ds.asked = cs.asked \union {q}
        /\ ds.misses = [cs.misses EXCEPT ![q] = IF label = "CORRECT" THEN @ ELSE @ + 1]
        /\ ds.idle = is.idle
        /\ ds = [state |-> ds.state, idle |-> ds.idle, asked |-> ds.asked, misses |-> ds.misses]
    <2> DEFINE state  == [cs.state EXCEPT ![c] = NextState(cs.state[c], label)]
               misses == [cs.misses EXCEPT ![q] = IF label = "CORRECT" THEN @ ELSE @ + 1]
    <2>1. ds = [is EXCEPT !.state = [is.state EXCEPT ![c] = NextState(@, label)],
                          !.asked = @ \union {q},
                          !.misses = [is.misses EXCEPT ![q] = IF label = "CORRECT" THEN @ ELSE @ + 1]]
      BY <1>2 DEF ApplyClassification, ConceptStates
    <2>2. ds = [is EXCEPT !.state = state, !.asked = cs.asked \union {q}, !.misses = misses]
      BY <1>2, <2>1
    <2> HIDE DEF state, misses, ds
    <2>3. /\ ds.state = state
          /\ ds.asked = cs.asked \union {q}
          /\ ds.misses = misses
          /\ ds.idle = is.idle
          /\ ds = [state |-> ds.state, idle |-> ds.idle, asked |-> ds.asked, misses |-> ds.misses]
      BY <1>2, <2>2 DEF ConceptStates
    <2> QED
      BY <2>3 DEF state, misses
  <1>6. Coherent(ds)
    BY <1>1, <1>2, <1>3, <1>4, <1>5 DEF Coherent, ConceptStates
  <1>7. Grows(cs, ds)
    BY <1>1, <1>3, <1>4, <1>5 DEF Grows, States, UNKNOWN, INTRODUCED, ATTEMPTED, MASTERED
  <1> QED
    BY <1>5, <1>6, <1>7

LEMMA MarkMasteredFacts ==
    ASSUME NEW cs, Coherent(cs), NEW c \in Concepts
    PROVE  LET ds == MarkMastered(cs, c)
           IN  /\ Coherent(ds)
               /\ Grows(cs, ds)
               /\ ds.state = [cs.state EXCEPT ![c] =
                                 IF cs.state[c] = UNDERSTOOD THEN MASTERED ELSE cs.state[c]]
               /\ ds.asked = cs.asked
               /\ ds.misses = cs.misses
  BY DEF Coherent, Grows, ConceptStates, MarkMastered, States, UNKNOWN, INTRODUCED,
         ATTEMPTED, UNDERSTOOD, MASTERED

LEMMA ApplyAdvisoryFacts ==
    ASSUME NEW cs, Coherent(cs), NEW c \in Concepts, NEW suggested \in Labels
    PROVE  LET ds == ApplyAdvisory(cs, c, suggested)
           IN  /\ Coherent(ds)
               /\ Grows(cs, ds)
               /\ \/ ds.state = cs.state
                  \/ ds.state = [cs.state EXCEPT ![c] = Advised(cs.state[c], suggested)]
               /\ ds.asked = cs.asked
               /\ ds.misses = cs.misses
  <1>1. /\ Advised(cs.state[c], suggested) \in States
        /\ Advised(cs.state[c], suggested) >= cs.state[c]
        /\ cs.state[c] \in States
    BY AdvisedFacts DEF Coherent, ConceptStates
  <1> QED
    BY <1>1 DEF Coherent, Grows, ConceptStates, ApplyAdvisory, States, UNKNOWN, INTRODUCED,
       ATTEMPTED, MASTERED

(* Recording a question as asked.                                          *)
LEMMA AskedFacts ==
    ASSUME NEW cs, Coherent(cs), NEW q \in Questions
    PROVE  LET ds == [cs EXCEPT !.asked = @ \union {q}]
           IN  /\ Coherent(ds)
               /\ Grows(cs, ds)
               /\ ds.state = cs.state
               /\ ds.asked = cs.asked \union {q}
               /\ ds.misses = cs.misses
  BY DEF Coherent, Grows, ConceptStates

(* choose_question and deeper_question return unasked questions of the     *)
(* concept.                                                                *)
LEMMA ChoicesUnasked ==
    ASSUME NEW cs, NEW c, NEW after
    PROVE  Choices(cs, c, after) \subseteq Unasked(cs, c)
  BY DEF Choices

LEMMA DeeperUnasked ==
    ASSUME NEW cs, NEW q
    PROVE  DeeperQuestions(cs, q) \subseteq Unasked(cs, ConceptOf[q])
  BY DEF DeeperQuestions

----------------------------------------------------------------------------
(* The safety of a tutoring thread, for every knowledge base, policy and   *)
(* number of requests in flight.                                           *)

IInv ==
    /\ TypeOK
    /\ Coherent(concepts)
    /\ PendingIsWorthAsking
    /\ QuizScoreBounded
    /\ QuizQuestionHasQuiz
    /\ AdviceFollowsAttempt

----------------------------------------------------------------------------
(* Types of the records the handlers build.                                *)

LEMMA ReminderType == TypeOK => Reminder \in QuestionOrNone
  BY DEF TypeOK, Reminder, QuestionOrNone, PendingType

LEMMA RagPlanType ==
    ASSUME NEW c \in AnyConcept, NEW named \in BOOLEAN, NEW quiet \in BOOLEAN,
           NEW struggling \in BOOLEAN, NEW resume \in QuestionOrNone
    PROVE  /\ RagPlan(c, named, quiet, struggling, resume) \in JobType
           /\ RagPlan(c, named, quiet, struggling, resume).kind # "advise"
  BY DEF RagPlan, JobType

LEMMA SayingIsType ==
    ASSUME NEW poses \in QuestionOrNone, NEW reminds \in QuestionOrNone,
           NEW report \in QuizType \union {None}
    PROVE  Saying(poses, reminds, report) \in SayingType
  BY DEF Saying, SayingType

LEMMA NothingType == Nothing \in SayingType
  BY SayingIsType DEF Nothing, QuestionOrNone

(* The pending question of a thread is about a concept.                    *)
LEMMA PendingConcept ==
    TypeOK /\ IsAuthored => /\ pending.question \in Questions
                            /\ ConceptOf[pending.question] \in Concepts
  BY KnowledgeAssumption DEF TypeOK, IsAuthored, PendingType

----------------------------------------------------------------------------
(* What a request may be left to do.                                       *)
JobsGood ==
    /\ job \in [Requests -> JobType \union {None}]
    /\ AdviceFollowsAttempt

(* Jobs stay good when one of them is replaced by a plan or ends.          *)
LEMMA JobReplaced ==
    ASSUME IInv, Grows(concepts, concepts'), Coherent(concepts'),
           NEW r \in Requests, NEW j \in JobType \union {None},
           j # None /\ j.kind = "advise" => concepts'.state[j.concept] >= ATTEMPTED,
           job' = [job EXCEPT ![r] = j]
    PROVE  JobsGood'
  <1>1. job' \in [Requests -> JobType \union {None}]
    BY DEF IInv, TypeOK
  <1>2. ASSUME NEW p \in Requests, job'[p] # None, job'[p].kind = "advise"
        PROVE  concepts'.state[job'[p].concept] >= ATTEMPTED
    <2>1. CASE p = r
      BY <1>2, <2>1 DEF IInv, TypeOK
    <2>2. CASE p # r
      <3>1. job'[p] = job[p] /\ job[p] \in JobType
        BY <1>2, <2>2 DEF IInv, TypeOK
      <3>2. job[p].concept \in Concepts
        BY <1>2, <3>1 DEF JobType
      <3> QED
        BY <1>2, <3>1, <3>2 DEF IInv, AdviceFollowsAttempt, Has, Grows
    <2> QED
      BY <2>1, <2>2
  <1> QED
    BY <1>1, <1>2 DEF JobsGood, AdviceFollowsAttempt, Has

LEMMA JobsKept ==
    ASSUME IInv, Grows(concepts, concepts'), Coherent(concepts'), job' = job
    PROVE  JobsGood'
  <1>1. ASSUME NEW p \in Requests, job[p] # None, job[p].kind = "advise"
        PROVE  concepts'.state[job[p].concept] >= ATTEMPTED
    <2>1. job[p] \in JobType
      BY <1>1 DEF IInv, TypeOK
    <2>2. job[p].concept \in Concepts
      BY <1>1, <2>1 DEF JobType
    <2> QED
      BY <1>1, <2>2 DEF IInv, AdviceFollowsAttempt, Has, Grows
  <1> QED
    BY <1>1 DEF JobsGood, AdviceFollowsAttempt, Has, IInv, TypeOK

----------------------------------------------------------------------------
(* A step that opens no question and counts no answer.                     *)
LEMMA QuietStep ==
    ASSUME IInv, Coherent(concepts'), Grows(concepts, concepts'),
           concepts'.misses = concepts.misses,
           \/ pending' = None
           \/ pending' = pending
           \/ /\ pending # None
              /\ pending' \in PendingType
              /\ pending'.kind = pending.kind
              /\ pending'.question = pending.question
              /\ pending.kind = "authored" => pending'.source = pending.source,
           quiz' = quiz \/ (quiz' = None /\ pending' = None),
           topic' \in AnyConcept, JobsGood', said' \in SayingType
    PROVE  IInv'
  <1>1. TypeOK'
    BY DEF IInv, TypeOK, JobsGood, Coherent
  <1>2. PendingIsWorthAsking'
    <2>1. CASE pending' = None
      BY <2>1 DEF PendingIsWorthAsking, IsAuthored
    <2>2. CASE pending' # None
      <3> SUFFICES ASSUME IsAuthored'
                   PROVE  /\ pending'.question \in concepts'.asked
                          /\ concepts'.state[ConceptOf[pending'.question]] >= INTRODUCED
                          /\ concepts'.misses[pending'.question] < ExplainAfter
        BY DEF PendingIsWorthAsking
      <3>1. IsAuthored /\ pending'.question = pending.question
        BY <2>2 DEF IsAuthored
      <3>2. ConceptOf[pending.question] \in Concepts
        BY <3>1, PendingConcept DEF IInv
      <3> QED
        BY <3>1, <3>2 DEF IInv, PendingIsWorthAsking, Grows
    <2> QED
      BY <2>1, <2>2
  <1>3. QuizScoreBounded' /\ QuizQuestionHasQuiz'
    BY DEF IInv, QuizScoreBounded, QuizQuestionHasQuiz, IsAuthored
  <1> QED
    BY <1>1, <1>2, <1>3 DEF IInv, JobsGood

(* Posing a question that was not asked before.                            *)
LEMMA AskStep ==
    ASSUME NEW cs, Coherent(cs), NEW q \in Questions, q \notin cs.asked,
           NEW source \in {"quiz", "followup"}, Ask(cs, q, source)
    PROVE  /\ Coherent(concepts')
           /\ Grows(cs, concepts')
           /\ concepts'.state = [cs.state EXCEPT ![ConceptOf[q]] =
                                    AtLeast(cs.state[ConceptOf[q]], INTRODUCED)]
           /\ concepts'.asked = cs.asked \union {q}
           /\ pending' = Authored(q, source)
           /\ pending' \in PendingType
           /\ PendingIsWorthAsking'
           /\ topic' \in Concepts
  <1> DEFINE c == ConceptOf[q]
             ds == Introduce(cs, c)
             es == Intervened(ds, c)
  <1>1. c \in Concepts
    BY KnowledgeAssumption
  <1>2. /\ Coherent(ds) /\ Grows(cs, ds)
        /\ ds.state = [cs.state EXCEPT ![c] = AtLeast(cs.state[c], INTRODUCED)]
        /\ ds.asked = cs.asked
        /\ ds.misses = cs.misses
    BY <1>1, IntroduceFacts
  <1>3. /\ Coherent(es) /\ Grows(ds, es)
        /\ es.state = ds.state
        /\ es.asked = ds.asked
        /\ es.misses = ds.misses
    BY <1>1, <1>2, IntervenedFacts
  <1>4. concepts' = [es EXCEPT !.asked = @ \union {q}]
    BY DEF Ask
  <1>5. /\ Coherent(concepts') /\ Grows(es, concepts')
        /\ concepts'.state = es.state
        /\ concepts'.asked = es.asked \union {q}
        /\ concepts'.misses = es.misses
    BY <1>3, <1>4, AskedFacts
  <1>6. Grows(cs, concepts')
    <2>1. Grows(cs, es)
      BY <1>2, <1>3, GrowsTransitive DEF Coherent
    <2> QED
      BY <1>3, <1>5, <2>1, GrowsTransitive DEF Coherent
  <1>7. pending' = Authored(q, source) /\ topic' = c
    BY DEF Ask
  <1>8. pending' \in PendingType
    BY <1>7 DEF Authored, PendingType
  <1>9. PendingIsWorthAsking'
    <2>1. concepts'.misses[q] = 0
      BY <1>2, <1>3, <1>5 DEF Coherent
    <2>2. concepts'.state[c] >= INTRODUCED
      BY <1>1, <1>2, <1>3, <1>5 DEF Coherent, ConceptStates, AtLeast, States, UNKNOWN,
         INTRODUCED, MASTERED
    <2>3. pending'.question = q
      BY <1>7 DEF Authored
    <2>4. 0 < ExplainAfter
      BY PolicyAssumption
    <2> QED
      BY <1>5, <2>1, <2>2, <2>3, <2>4 DEF PendingIsWorthAsking
  <1> HIDE DEF c, ds, es
  <1> QED
    BY <1>1, <1>2, <1>3, <1>5, <1>6, <1>7, <1>8, <1>9 DEF c

(* The next question of a quiz, or its summary: run is the quiz with the   *)
(* answer just given, if any, already counted.                             *)
LEMMA QuizNextStep ==
    ASSUME IInv, NEW cs, Coherent(cs), Grows(concepts, cs),
           NEW run \in QuizType, run.correct <= run.asked, run.asked <= QuizLength,
           NEW candidates, candidates \subseteq Unasked(cs, run.concept),
           QuizNext(cs, run, candidates)
    PROVE  IInv'
  <1>1. CASE /\ run.asked < QuizLength
             /\ \E q \in candidates : Ask(cs, q, "quiz") /\ Replies(Saying(q, None, None))
             /\ quiz' = [run EXCEPT !.asked = @ + 1]
    <2>1. PICK q \in candidates : Ask(cs, q, "quiz") /\ Replies(Saying(q, None, None))
      BY <1>1
    <2>2. q \in Questions /\ q \notin cs.asked /\ ConceptOf[q] = run.concept
      BY DEF Unasked, QuestionsOn
    <2>3. /\ Coherent(concepts') /\ Grows(cs, concepts')
          /\ pending' = Authored(q, "quiz") /\ pending' \in PendingType
          /\ PendingIsWorthAsking' /\ topic' \in Concepts
      BY <2>1, <2>2, AskStep
    <2>4. Grows(concepts, concepts')
      BY <2>3, GrowsTransitive DEF IInv, Coherent
    <2>5. JobsGood'
      BY <2>1, <2>3, <2>4, JobsKept DEF Replies
    <2>6. said' \in SayingType
      BY <2>1, <2>2, SayingIsType DEF Replies, QuestionOrNone
    <2>7. /\ quiz' \in QuizType
          /\ quiz'.asked = run.asked + 1
          /\ quiz'.correct = run.correct
          /\ quiz'.concept = run.concept
      BY <1>1 DEF QuizType
    <2>8. TypeOK'
      BY <2>3, <2>5, <2>6, <2>7 DEF TypeOK, JobsGood, Coherent, AnyConcept
    <2>9. QuizScoreBounded'
      BY <1>1, <2>7, ThreadAssumption DEF QuizScoreBounded, QuizType
    <2>10. QuizQuestionHasQuiz'
      <3>1. pending'.question = q
        BY <2>3 DEF Authored
      <3>2. quiz' # None
        BY <2>7, NoneAssumption
      <3> QED
        BY <2>2, <2>7, <3>1, <3>2 DEF QuizQuestionHasQuiz
    <2> QED
      BY <2>3, <2>5, <2>8, <2>9, <2>10 DEF IInv, JobsGood
  <1>2. CASE /\ concepts' = cs /\ pending' = None /\ quiz' = None
             /\ Replies(Saying(None, None, run)) /\ UNCHANGED topic
    <2>1. JobsGood'
      BY <1>2, JobsKept DEF Replies
    <2>2. said' \in SayingType
      BY <1>2, SayingIsType DEF Replies, QuestionOrNone
    <2>3. TypeOK'
      BY <1>2, <2>1, <2>2 DEF IInv, TypeOK, JobsGood, Coherent
    <2>4. PendingIsWorthAsking' /\ QuizScoreBounded' /\ QuizQuestionHasQuiz'
      BY <1>2 DEF PendingIsWorthAsking, QuizScoreBounded, QuizQuestionHasQuiz, IsAuthored
    <2> QED
      BY <1>2, <2>1, <2>3, <2>4 DEF IInv, JobsGood
  <1> QED
    BY <1>1, <1>2 DEF QuizNext

(* The pending question is done.                                           *)
LEMMA FinishQuestionStep ==
    ASSUME IInv, IsAuthored, NEW cs, Coherent(cs), Grows(concepts, cs), NEW correct \in BOOLEAN,
           FinishQuestion(cs, pending.question, correct)
    PROVE  IInv'
  <1> DEFINE q == pending.question
  <1>1. q \in Questions /\ ConceptOf[q] \in Concepts
    BY PendingConcept DEF IInv
  <1>2. CASE QuizOn(ConceptOf[q])
    <2> DEFINE run == [quiz EXCEPT !.correct = IF correct THEN @ + 1 ELSE @]
               deeper == DeeperQuestions(cs, q)
               candidates == IF correct /\ deeper # {} THEN deeper
                             ELSE Choices(cs, ConceptOf[q], FALSE)
    <2>1. QuizNext(cs, run, candidates)
      BY <1>2 DEF FinishQuestion
    <2>2. quiz \in QuizType /\ quiz.correct < quiz.asked /\ quiz.asked <= QuizLength
      BY <1>2 DEF IInv, TypeOK, QuizScoreBounded, QuizOn
    <2>3. run \in QuizType /\ run.correct <= run.asked /\ run.asked <= QuizLength
      BY <2>2 DEF QuizType
    <2>4. run.concept = ConceptOf[q]
      BY <1>2, <2>2 DEF QuizType, QuizOn
    <2>5. candidates \subseteq Unasked(cs, run.concept)
      BY <2>4, ChoicesUnasked, DeeperUnasked
    <2> HIDE DEF run, candidates
    <2> QED
      BY <2>1, <2>3, <2>5, QuizNextStep
  <1>3. CASE /\ concepts' = cs /\ pending' = None /\ Replies(Nothing)
             /\ UNCHANGED <<quiz, topic>>
    <2>1. JobsGood'
      BY <1>3, JobsKept DEF Replies
    <2>2. said' \in SayingType
      BY <1>3, NothingType DEF Replies
    <2>3. TypeOK'
      BY <1>3, <2>1, <2>2 DEF IInv, TypeOK, JobsGood, Coherent
    <2>4. PendingIsWorthAsking' /\ QuizScoreBounded' /\ QuizQuestionHasQuiz'
      BY <1>3 DEF IInv, PendingIsWorthAsking, QuizScoreBounded, QuizQuestionHasQuiz, IsAuthored
    <2> QED
      BY <1>3, <2>1, <2>3, <2>4 DEF IInv, JobsGood
  <1> QED
    BY <1>2, <1>3 DEF FinishQuestion

(* The concept states after an answer to the pending question.             *)
LEMMA GradedFacts ==
    ASSUME IInv, NEW q \in Questions, NEW label \in Labels
    PROVE  /\ Coherent(Graded(q, label))
           /\ Grows(concepts, Graded(q, label))
           /\ Graded(q, label).asked = concepts.asked \union {q}
           /\ \/ Graded(q, label).state =
                    [concepts.state EXCEPT ![ConceptOf[q]] = NextState(@, label)]
              \/ /\ label = "CORRECT" /\ TypeOf[q] = "TRANSFER"
                 /\ concepts.state[ConceptOf[q]] = UNDERSTOOD
                 /\ Graded(q, label).state =
                       [concepts.state EXCEPT ![ConceptOf[q]] = MASTERED]
  <1> DEFINE c  == ConceptOf[q]
             ts == Tick(concepts)
             ds == ApplyClassification(ts, q, label)
  <1>1. c \in Concepts
    BY KnowledgeAssumption
  <1>2. /\ Coherent(ts) /\ Grows(concepts, ts)
        /\ ts.state = concepts.state
        /\ ts.asked = concepts.asked
    BY TickFacts DEF IInv
  <1>3. /\ Coherent(ds) /\ Grows(ts, ds)
        /\ ds.state = [ts.state EXCEPT ![c] = NextState(ts.state[c], label)]
        /\ ds.asked = ts.asked \union {q}
    BY <1>2, ApplyClassificationFacts
  <1>4. Grows(concepts, ds)
    BY <1>2, <1>3, GrowsTransitive DEF IInv, Coherent
  <1>5. CASE /\ label = "CORRECT" /\ TypeOf[q] = "TRANSFER"
             /\ concepts.state[c] = UNDERSTOOD
    <2> DEFINE ms == MarkMastered(ds, c)
    <2>1. /\ Coherent(ms) /\ Grows(ds, ms)
          /\ ms.state = [ds.state EXCEPT ![c] = IF ds.state[c] = UNDERSTOOD THEN MASTERED
                                                ELSE ds.state[c]]
          /\ ms.asked = ds.asked
      BY <1>1, <1>3, MarkMasteredFacts
    <2>2. ds.state[c] = UNDERSTOOD
      BY <1>1, <1>2, <1>3, <1>5 DEF IInv, Coherent, ConceptStates, NextState, AtLeast, UNDERSTOOD
    <2>3. Grows(concepts, ms)
      BY <1>3, <1>4, <2>1, GrowsTransitive DEF IInv, Coherent
    <2>4. ms.state = [concepts.state EXCEPT ![c] = MASTERED]
      BY <1>2, <1>3, <2>1, <2>2 DEF Coherent, ConceptStates
    <2>5. Graded(q, label) = ms
      BY <1>5 DEF Graded
    <2> QED
      BY <1>2, <1>3, <1>5, <2>1, <2>3, <2>4, <2>5
  <1>6. CASE ~(/\ label = "CORRECT" /\ TypeOf[q] = "TRANSFER"
               /\ concepts.state[c] = UNDERSTOOD)
    <2>1. Graded(q, label) = ds
      BY <1>6 DEF Graded
    <2> QED
      BY <1>2, <1>3, <1>4, <2>1
  <1> QED
    BY <1>5, <1>6

----------------------------------------------------------------------------
(* Every handler keeps the invariant.                                      *)

(* A handler that only ticks, replies and maybe drops what is open.        *)
LEMMA ReplyStep ==
    ASSUME IInv, concepts' = Tick(concepts),
           \/ pending' = None
           \/ pending' = pending
           \/ /\ pending # None
              /\ pending' \in PendingType
              /\ pending'.kind = pending.kind
              /\ pending'.question = pending.question
              /\ pending.kind = "authored" => pending'.source = pending.source,
           quiz' = quiz \/ (quiz' = None /\ pending' = None),
           topic' \in AnyConcept,
           NEW saying \in SayingType, Replies(saying)
    PROVE  IInv'
  <1>1. /\ Coherent(concepts') /\ Grows(concepts, concepts')
        /\ concepts'.misses = concepts.misses
    BY TickFacts DEF IInv
  <1>2. JobsGood' /\ said' \in SayingType
    BY <1>1, JobsKept DEF Replies
  <1> QED
    BY <1>1, <1>2, QuietStep

(* A handler that only ticks and plans a retrieval.                        *)
LEMMA PlanStep ==
    ASSUME IInv, concepts' = Tick(concepts),
           \/ pending' = None
           \/ pending' = pending
           \/ /\ pending # None
              /\ pending' \in PendingType
              /\ pending'.kind = pending.kind
              /\ pending'.question = pending.question
              /\ pending.kind = "authored" => pending'.source = pending.source,
           UNCHANGED <<quiz, topic>>,
           NEW r \in Requests, NEW c \in AnyConcept, NEW named \in BOOLEAN, NEW quiet \in BOOLEAN,
           NEW struggling \in BOOLEAN, NEW resume \in QuestionOrNone,
           Plans(r, RagPlan(c, named, quiet, struggling, resume))
    PROVE  IInv'
  <1>1. /\ Coherent(concepts') /\ Grows(concepts, concepts')
        /\ concepts'.misses = concepts.misses
    BY TickFacts DEF IInv
  <1>2. JobsGood'
    BY <1>1, JobReplaced, RagPlanType DEF Plans
  <1>3. said' \in SayingType
    BY NothingType DEF Plans
  <1>4. topic' \in AnyConcept
    BY DEF IInv, TypeOK
  <1> QED
    BY <1>1, <1>2, <1>3, <1>4, QuietStep

(* An answer that leaves the question open has been missed less often than *)
(* it takes to explain, and made its concept ATTEMPTED before any advice.  *)
LEMMA AnswerKeepsOpenStep ==
    ASSUME IInv, NEW r \in Requests, NEW label \in Labels, NEW realise \in BOOLEAN,
           AnswerKeepsOpen(r, label, realise)
    PROVE  IInv'
  <1> DEFINE q == pending.question
             c == ConceptOf[q]
  <1>1. /\ q \in Questions /\ c \in Concepts
        /\ pending' = pending /\ quiz' = quiz /\ topic' = topic
        /\ concepts' = Graded(q, label)
        /\ NextAfterAnswer(concepts', q, label) = "ask_again"
        /\ IsAuthored
    BY PendingConcept DEF AnswerKeepsOpen, IInv
  <1>2. /\ Coherent(concepts') /\ Grows(concepts, concepts')
        /\ concepts'.asked = concepts.asked \union {q}
        /\ \/ concepts'.state = [concepts.state EXCEPT ![c] = NextState(@, label)]
           \/ concepts'.state = [concepts.state EXCEPT ![c] = MASTERED]
    BY <1>1, GradedFacts
  <1>3. concepts'.state[c] >= ATTEMPTED
    <2>1. concepts.state \in [Concepts -> States]
      BY DEF IInv, Coherent, ConceptStates
    <2>2. NextState(concepts.state[c], label) >= ATTEMPTED
      BY <1>1, <2>1, NextStateFacts DEF ATTEMPTED, MASTERED
    <2> QED
      BY <1>1, <1>2, <2>1, <2>2 DEF ATTEMPTED, MASTERED
  <1>4. concepts'.misses[q] < ExplainAfter
    <2>1. ~(label # "CORRECT" /\ concepts'.misses[q] >= ExplainAfter) /\ label # "CORRECT"
      BY <1>1 DEF NextAfterAnswer
    <2>2. concepts'.misses[q] \in Nat /\ ExplainAfter \in Nat
      BY <1>1, <1>2, PolicyAssumption DEF Coherent, ConceptStates
    <2> QED
      BY <2>1, <2>2
  <1>5. JobsGood' /\ said' \in SayingType
    <2>1. CASE realise
      <3>1. job' = [job EXCEPT ![r] = Advice(c)] /\ said' = Nothing
        BY <2>1 DEF AnswerKeepsOpen, Plans
      <3>2. Advice(c) \in JobType /\ Advice(c).concept = c
        BY <1>1 DEF Advice, JobType
      <3> QED
        BY <1>2, <1>3, <3>1, <3>2, JobReplaced, NothingType
    <2>2. CASE ~realise
      BY <1>2, <2>2, JobsKept, NothingType DEF AnswerKeepsOpen, Replies
    <2> QED
      BY <2>1, <2>2
  <1>6. TypeOK'
    BY <1>1, <1>2, <1>5 DEF IInv, TypeOK, JobsGood, Coherent
  <1>7. PendingIsWorthAsking'
    <2>1. concepts'.state[c] >= INTRODUCED
      BY <1>1, <1>2, <1>3 DEF Coherent, ConceptStates, States, UNKNOWN, INTRODUCED, ATTEMPTED, MASTERED
    <2> QED
      BY <1>1, <1>2, <1>4, <2>1 DEF PendingIsWorthAsking
  <1>8. QuizScoreBounded' /\ QuizQuestionHasQuiz'
    BY <1>1 DEF IInv, QuizScoreBounded, QuizQuestionHasQuiz, IsAuthored
  <1> QED
    BY <1>2, <1>5, <1>6, <1>7, <1>8 DEF IInv, JobsGood

LEMMA PlanTurnStep ==
    ASSUME IInv, NEW r \in Requests, PlanTurn(r)
    PROVE  IInv'
  <1> USE NothingType
  <1>1. CASE LeaveAsIs(r)
    BY <1>1, ReplyStep DEF LeaveAsIs, IInv, TypeOK
  <1>2. CASE SideRequest(r)
    <2>1. Saying(None, Reminder, None) \in SayingType
      BY ReminderType, SayingIsType DEF IInv, QuestionOrNone
    <2> QED
      BY <1>2, <2>1, ReplyStep DEF SideRequest, IInv, TypeOK
  <1>3. CASE Reformat(r)
    BY <1>3, PlanStep, ReminderType DEF Reformat, IInv, TypeOK
  <1>4. CASE Pause(r)
    BY <1>4, ReplyStep DEF Pause, IInv, TypeOK
  <1>5. CASE ChangeDirection(r)
    BY <1>5, ReplyStep DEF ChangeDirection, IInv, TypeOK
  <1>6. ASSUME NEW c \in Concepts, AskPrerequisites(r, c)
        PROVE  IInv'
    BY <1>6, ReplyStep DEF AskPrerequisites, AnyConcept
  <1>7. ASSUME NEW c \in Concepts, StartQuiz(r, c)
        PROVE  IInv'
    <2> DEFINE run == [concept |-> c, asked |-> 0, correct |-> 0]
    <2>1. Coherent(Tick(concepts)) /\ Grows(concepts, Tick(concepts))
      BY TickFacts DEF IInv
    <2>2. /\ run \in QuizType /\ run.correct <= run.asked /\ run.asked <= QuizLength
          /\ run.concept = c
      BY ThreadAssumption DEF QuizType
    <2>3. Choices(Tick(concepts), c, FALSE) \subseteq Unasked(Tick(concepts), c)
      BY ChoicesUnasked
    <2>4. QuizNext(Tick(concepts), run, Choices(Tick(concepts), c, FALSE))
      BY <1>7 DEF StartQuiz
    <2> HIDE DEF run
    <2> QED
      BY <2>1, <2>2, <2>3, <2>4, QuizNextStep
  <1>8. ASSUME NEW c \in Concepts, Struggle(r, c)
        PROVE  IInv'
    BY <1>8, PlanStep DEF Struggle, AnyConcept, QuestionOrNone
  <1>9. CASE Advance(r)
    <2>1. PICK c \in NextIdeas : Plans(r, RagPlan(c, TRUE, FALSE, FALSE, None))
      BY <1>9 DEF Advance
    <2>2. c \in AnyConcept
      BY DEF NextIdeas, AnyConcept
    <2> QED
      BY <1>9, <2>1, <2>2, PlanStep DEF Advance, QuestionOrNone
  <1>10. CASE AskExample(r)
    BY <1>10, PlanStep DEF AskExample, IInv, TypeOK, QuestionOrNone
  <1>11. ASSUME NEW c \in AnyConcept, NEW named \in BOOLEAN, NEW continuation \in BOOLEAN,
                AskCourse(r, c, named, continuation)
         PROVE  IInv'
    BY <1>11, PlanStep DEF AskCourse, QuestionOrNone
  <1>12. CASE Skip(r)
    <2> DEFINE cs == Intervened(Tick(concepts), ConceptOf[pending.question])
    <2>1. ConceptOf[pending.question] \in Concepts
      BY <1>12, PendingConcept DEF Skip, IInv
    <2>2. Coherent(Tick(concepts)) /\ Grows(concepts, Tick(concepts))
      BY TickFacts DEF IInv
    <2>3. Coherent(cs) /\ Grows(Tick(concepts), cs)
      BY <2>1, <2>2, IntervenedFacts
    <2>4. Grows(concepts, cs)
      BY <2>2, <2>3, GrowsTransitive DEF IInv, Coherent
    <2>5. IsAuthored /\ FinishQuestion(cs, pending.question, FALSE)
      BY <1>12 DEF Skip
    <2> HIDE DEF cs
    <2> QED
      BY <2>3, <2>4, <2>5, FinishQuestionStep
  <1>13. CASE Hint(r)
    <2>1. /\ pending' \in PendingType
          /\ pending'.kind = pending.kind
          /\ pending'.question = pending.question
          /\ pending'.source = pending.source
      BY <1>13 DEF Hint, IInv, TypeOK, IsAuthored, PendingType
    <2> QED
      BY <1>13, <2>1, ReplyStep DEF Hint, IInv, TypeOK, IsAuthored
  <1>14. CASE TellMe(r)
    <2> DEFINE cs == ApplyClassification(Tick(concepts), pending.question, "UNCLEAR")
    <2>1. pending.question \in Questions
      BY <1>14, PendingConcept DEF TellMe, IInv
    <2>2. Coherent(Tick(concepts)) /\ Grows(concepts, Tick(concepts))
      BY TickFacts DEF IInv
    <2>3. Coherent(cs) /\ Grows(Tick(concepts), cs)
      BY <2>1, <2>2, ApplyClassificationFacts DEF Labels
    <2>4. Grows(concepts, cs)
      BY <2>2, <2>3, GrowsTransitive DEF IInv, Coherent
    <2>5. IsAuthored /\ FinishQuestion(cs, pending.question, FALSE)
      BY <1>14 DEF TellMe
    <2> HIDE DEF cs
    <2> QED
      BY <2>3, <2>4, <2>5, FinishQuestionStep
  <1>15. CASE Simplify(r)
    <2>1. /\ pending' \in PendingType
          /\ pending'.kind = pending.kind
          /\ pending'.question = pending.question
          /\ pending'.source = pending.source
      BY <1>15 DEF Simplify, IInv, TypeOK, IsAuthored, PendingType
    <2> QED
      BY <1>15, <2>1, ReplyStep DEF Simplify, IInv, TypeOK, IsAuthored
  <1>16. CASE SideExample(r)
    <2>1. ConceptOf[pending.question] \in AnyConcept
      BY <1>16, PendingConcept DEF SideExample, IInv, AnyConcept
    <2>2. Reminder \in QuestionOrNone
      BY ReminderType DEF IInv
    <2> QED
      BY <1>16, <2>1, <2>2, PlanStep DEF SideExample
  <1>17. CASE CloseFree(r)
    BY <1>17, ReplyStep DEF CloseFree, IInv, TypeOK
  <1>18. ASSUME NEW c \in AnyConcept, SideQuestion(r, c)
         PROVE  IInv'
    <2> DEFINE about  == IF IsAuthored THEN ConceptOf[pending.question] ELSE pending.concept
               cid    == IF c # None THEN c ELSE about
               named  == c # None
               resume == IF pending.reminded THEN None ELSE Reminder
    <2>1. pending # None /\ pending \in PendingType
      BY <1>18 DEF SideQuestion, IInv, TypeOK
    <2>2. cid \in AnyConcept
      BY <2>1, KnowledgeAssumption DEF PendingType, IsAuthored, AnyConcept
    <2>3. resume \in QuestionOrNone
      BY ReminderType DEF IInv, QuestionOrNone
    <2>4. /\ pending' \in PendingType
          /\ pending'.kind = pending.kind
          /\ pending'.question = pending.question
          /\ pending.kind = "authored" => pending'.source = pending.source
      BY <1>18, <2>1 DEF SideQuestion, PendingType
    <2>5. /\ Plans(r, RagPlan(cid, named, FALSE, FALSE, resume))
          /\ concepts' = Tick(concepts)
          /\ UNCHANGED <<quiz, topic>>
      BY <1>18 DEF SideQuestion
    <2>6. named \in BOOLEAN
      OBVIOUS
    <2> HIDE DEF cid, named, resume
    <2> QED
      BY <2>1, <2>2, <2>3, <2>4, <2>5, <2>6, PlanStep
  <1>19. ASSUME NEW label \in Labels, AnswerCloses(r, label)
         PROVE  IInv'
    <2> DEFINE cs   == Graded(pending.question, label)
               next == NextAfterAnswer(cs, pending.question, label)
    <2>1. pending.question \in Questions
      BY <1>19, PendingConcept DEF AnswerCloses, IInv
    <2>2. Coherent(cs) /\ Grows(concepts, cs)
      BY <2>1, GradedFacts
    <2>3. IsAuthored /\ FinishQuestion(cs, pending.question, next = "advance")
      BY <1>19 DEF AnswerCloses
    <2>4. (next = "advance") \in BOOLEAN
      OBVIOUS
    <2> HIDE DEF cs, next
    <2> QED
      BY <2>2, <2>3, <2>4, FinishQuestionStep
  <1>20. ASSUME NEW label \in Labels, NEW realise \in BOOLEAN, AnswerKeepsOpen(r, label, realise)
         PROVE  IInv'
    BY <1>20, AnswerKeepsOpenStep
  <1> QED
    BY <1>1, <1>2, <1>3, <1>4, <1>5, <1>6, <1>7, <1>8, <1>9, <1>10, <1>11, <1>12, <1>13,
       <1>14, <1>15, <1>16, <1>17, <1>18, <1>19, <1>20 DEF PlanTurn

----------------------------------------------------------------------------
(* What runs after an await keeps the invariant too.                       *)

(* A handler that ends its request, on concept states that only grew.      *)
LEMMA DoneStep ==
    ASSUME IInv, NEW r \in Requests, NEW saying \in SayingType, Done(r, saying),
           Coherent(concepts'), Grows(concepts, concepts')
    PROVE  JobsGood' /\ said' \in SayingType
  BY JobReplaced DEF Done

LEMMA FinishWithQuestionStep ==
    ASSUME IInv, NEW r \in Requests, NEW c \in AnyConcept, FinishWithQuestion(r, c)
    PROVE  IInv'
  <1> DEFINE cs == Introduced(c)
  <1>1. PICK q \in FollowupChoices(r, c) :
           Ask(cs, q, "followup") /\ Done(r, Saying(q, job[r].resume, None))
    BY DEF FinishWithQuestion
  <1>2. pending = None /\ c \in Concepts /\ q \in Choices(cs, c, TRUE)
    BY <1>1 DEF FollowupChoices, AnyConcept
  <1>3. cs = Introduce(concepts, c)
    BY <1>2, ThreadAssumption DEF Introduced
  <1>4. Coherent(cs) /\ Grows(concepts, cs)
    BY <1>2, <1>3, IntroduceFacts DEF IInv
  <1>5. q \in Questions /\ q \notin cs.asked
    BY <1>2, ChoicesUnasked DEF Unasked, QuestionsOn
  <1> HIDE DEF cs
  <1>6. /\ Coherent(concepts') /\ Grows(cs, concepts')
        /\ pending' = Authored(q, "followup") /\ pending' \in PendingType
        /\ PendingIsWorthAsking' /\ topic' \in Concepts
    BY <1>1, <1>4, <1>5, AskStep
  <1>7. Grows(concepts, concepts')
    BY <1>4, <1>6, GrowsTransitive DEF IInv, Coherent
  <1>8. JobsGood' /\ said' \in SayingType
    <2>1. job[r] \in JobType /\ job[r].kind = "rag"
      BY DEF FinishWithQuestion, Has, IInv, TypeOK
    <2>2. job[r].resume \in QuestionOrNone
      BY <2>1 DEF JobType
    <2>3. Saying(q, job[r].resume, None) \in SayingType
      BY <1>5, <2>2, SayingIsType DEF QuestionOrNone
    <2> QED
      BY <1>1, <1>6, <1>7, <2>3, DoneStep
  <1>9. quiz' = quiz
    BY DEF FinishWithQuestion
  <1>10. TypeOK'
    BY <1>6, <1>8, <1>9 DEF IInv, TypeOK, JobsGood, Coherent, AnyConcept
  <1>11. QuizScoreBounded' /\ QuizQuestionHasQuiz'
    <2>1. pending'.source # "quiz"
      BY <1>6 DEF Authored
    <2> QED
      BY <1>9, <2>1 DEF IInv, QuizScoreBounded, QuizQuestionHasQuiz
  <1> QED
    BY <1>6, <1>8, <1>10, <1>11 DEF IInv, JobsGood

LEMMA FinishPlainStep ==
    ASSUME IInv, NEW r \in Requests, NEW c \in AnyConcept, NEW refused \in BOOLEAN,
           NEW socratic \in BOOLEAN, FinishPlain(r, c, refused, socratic)
    PROVE  IInv'
  <1>1. /\ Coherent(concepts') /\ Grows(concepts, concepts')
        /\ concepts'.misses = concepts.misses
    <2>1. CASE c = None
      <3>1. concepts' = concepts
        BY <2>1 DEF FinishPlain, Introduced
      <3> QED
        BY <3>1 DEF IInv, Coherent, Grows, ConceptStates, States, UNKNOWN, MASTERED
    <2>2. CASE c # None
      <3>1. c \in Concepts /\ concepts' = Introduce(concepts, c)
        BY <2>2 DEF FinishPlain, Introduced, AnyConcept
      <3> QED
        BY <3>1, IntroduceFacts DEF IInv
    <2> QED
      BY <2>1, <2>2
  <1>2. JobsGood'
    <2> DEFINE j == IF ModelFollowups /\ socratic /\ ~refused /\ ~job[r].quiet
                    THEN Offer ELSE None
    <2>1. job' = [job EXCEPT ![r] = j]
      BY DEF FinishPlain
    <2>2. j \in JobType \union {None} /\ (j # None => j.kind = "offer")
      BY DEF Offer, JobType
    <2> HIDE DEF j
    <2> QED
      BY <1>1, <2>1, <2>2, JobReplaced
  <1>3. said' \in SayingType
    <2>1. job[r] \in JobType /\ job[r].kind = "rag"
      BY DEF FinishPlain, Has, IInv, TypeOK
    <2>2. job[r].resume \in QuestionOrNone
      BY <2>1 DEF JobType
    <2> QED
      BY <2>2, SayingIsType DEF FinishPlain, QuestionOrNone
  <1>4. topic' \in AnyConcept /\ pending' = pending /\ quiz' = quiz
    BY DEF FinishPlain, IInv, TypeOK
  <1> QED
    BY <1>1, <1>2, <1>3, <1>4, QuietStep

LEMMA SetFreeStep ==
    ASSUME IInv, NEW r \in Requests, SetFree(r)
    PROVE  IInv'
  <1>1. concepts' = concepts /\ quiz' = quiz /\ topic' = topic /\ pending' = FreeQuestion(topic)
    BY DEF SetFree
  <1>2. Coherent(concepts') /\ Grows(concepts, concepts')
    BY <1>1 DEF IInv, Coherent, Grows, ConceptStates, States, UNKNOWN, MASTERED
  <1>3. JobsGood' /\ said' \in SayingType
    <2>1. Saying(Free, None, None) \in SayingType
      BY SayingIsType DEF QuestionOrNone
    <2> QED
      BY <1>2, <2>1, DoneStep DEF SetFree
  <1>4. pending' \in PendingType /\ pending'.kind = "free"
    BY <1>1 DEF FreeQuestion, PendingType, IInv, TypeOK
  <1>5. TypeOK'
    BY <1>1, <1>2, <1>3, <1>4 DEF IInv, TypeOK, JobsGood
  <1>6. ~IsAuthored'
    BY <1>4 DEF IsAuthored
  <1>7. PendingIsWorthAsking' /\ QuizScoreBounded' /\ QuizQuestionHasQuiz'
    BY <1>1, <1>6 DEF IInv, PendingIsWorthAsking, QuizScoreBounded, QuizQuestionHasQuiz
  <1> QED
    BY <1>2, <1>3, <1>5, <1>7 DEF IInv, JobsGood

LEMMA AfterAwaitStep ==
    ASSUME IInv, NEW r \in Requests, AfterAwait(r)
    PROVE  IInv'
  <1>0. Grows(concepts, concepts) /\ Coherent(concepts) /\ topic \in AnyConcept
    BY DEF IInv, TypeOK, Coherent, Grows, ConceptStates, States, UNKNOWN, MASTERED
  <1>1. CASE Abandon(r)
    BY <1>0, <1>1, NothingType, DoneStep, QuietStep DEF Abandon
  <1>2. CASE OffTopic(r)
    <2>1. Saying(None, Reminder, None) \in SayingType
      BY ReminderType, SayingIsType DEF IInv, QuestionOrNone
    <2> QED
      BY <1>0, <1>2, <2>1, DoneStep, QuietStep DEF OffTopic
  <1>3. ASSUME NEW suggested \in Labels, Advise(r, suggested)
        PROVE  IInv'
    <2>1. job[r].concept \in Concepts
      BY <1>3 DEF Advise, Has, IInv, TypeOK, JobType
    <2>2. /\ Coherent(concepts') /\ Grows(concepts, concepts')
          /\ concepts'.misses = concepts.misses
      BY <1>3, <2>1, ApplyAdvisoryFacts DEF Advise, IInv
    <2> QED
      BY <1>0, <1>3, <2>2, NothingType, DoneStep, QuietStep DEF Advise
  <1>4. ASSUME NEW c \in AnyConcept, FinishWithQuestion(r, c)
        PROVE  IInv'
    BY <1>4, FinishWithQuestionStep
  <1>5. ASSUME NEW c \in AnyConcept, NEW refused \in BOOLEAN, NEW socratic \in BOOLEAN,
               FinishPlain(r, c, refused, socratic)
        PROVE  IInv'
    BY <1>5, FinishPlainStep
  <1>6. CASE StreamOffer(r)
    <2>1. JobsGood'
      <3>1. Offering \in JobType /\ Offering.kind = "offering"
        BY DEF Offering, JobType
      <3> QED
        BY <1>0, <1>6, <3>1, JobReplaced DEF StreamOffer
    <2> QED
      BY <1>0, <1>6, <2>1, NothingType, QuietStep DEF StreamOffer
  <1>7. CASE SetFree(r)
    BY <1>7, SetFreeStep
  <1> QED
    BY <1>1, <1>2, <1>3, <1>4, <1>5, <1>6, <1>7 DEF AfterAwait

----------------------------------------------------------------------------
LEMMA InitIsGood == Init => IInv
  <1> SUFFICES ASSUME Init
               PROVE  IInv
    OBVIOUS
  <1>1. TypeOK /\ Coherent(concepts)
    BY NewIsCoherent, NothingType DEF Init, TypeOK, AnyConcept, Coherent
  <1>2. PendingIsWorthAsking /\ QuizScoreBounded /\ QuizQuestionHasQuiz /\ AdviceFollowsAttempt
    BY DEF Init, PendingIsWorthAsking, QuizScoreBounded, QuizQuestionHasQuiz,
           AdviceFollowsAttempt, IsAuthored, Has
  <1> QED
    BY <1>1, <1>2 DEF IInv

LEMMA StepKeepsIInv == IInv /\ [Next]_vars => IInv'
  <1> SUFFICES ASSUME IInv, [Next]_vars
               PROVE  IInv'
    OBVIOUS
  <1>1. CASE Next
    <2>1. PICK r \in Requests : PlanTurn(r) \/ AfterAwait(r)
      BY <1>1 DEF Next
    <2> QED
      BY <2>1, PlanTurnStep, AfterAwaitStep
  <1>2. CASE UNCHANGED vars
    BY <1>2 DEF vars, IInv, TypeOK, PendingIsWorthAsking, QuizScoreBounded,
       QuizQuestionHasQuiz, AdviceFollowsAttempt, IsAuthored, Has
  <1> QED
    BY <1>1, <1>2

(* The inductive invariant holds in every behaviour of a thread.           *)
THEOREM Invariance == Spec => []IInv
  BY InitIsGood, StepKeepsIInv, PTL DEF Spec

(* The tutoring state keeps its types (conversation.TutorState,            *)
(* pedagogy.ConceptRecord).                                                *)
THEOREM TypeCorrect == Spec => []TypeOK
  <1>1. IInv => TypeOK
    BY DEF IInv
  <1> QED
    BY <1>1, Invariance, PTL

(* No question stays open for ever: the pending one is on record as asked  *)
(* and still has attempts left, whatever requests run at once              *)
(* (engine._ask, _grade, pedagogy.next_after_answer).                      *)
THEOREM PendingSafe == Spec => []PendingIsWorthAsking
  <1>1. IInv => PendingIsWorthAsking
    BY DEF IInv
  <1> QED
    BY <1>1, Invariance, PTL

(* A quiz has its score right and its open question belongs to it          *)
(* (engine._quiz_next, _finish_question, _start_quiz).                     *)
THEOREM QuizSafe == Spec => []QuizIsSound
  <1>1. IInv => QuizIsSound
    BY DEF IInv, QuizIsSound
  <1> QED
    BY <1>1, Invariance, PTL

(* Advice that arrives after an await is about an attempted concept.       *)
THEOREM AdviceSafe == Spec => []AdviceFollowsAttempt
  <1>1. IInv => AdviceFollowsAttempt
    BY DEF IInv
  <1> QED
    BY <1>1, Invariance, PTL

----------------------------------------------------------------------------
(* What a step of a tutoring thread may never do: grant understanding      *)
(* without evidence, let a model's suggestion past its ceiling, or put a   *)
(* question to the student a second time.                                  *)

Tested(c) == IsAuthored /\ ConceptOf[pending.question] = c

(* Concept c may go from one state to another while this question is open. *)
EarnedAt(c, before, after) ==
    /\ after > before /\ after >= UNDERSTOOD => Tested(c)
    /\ after = MASTERED /\ before # MASTERED =>
          before = UNDERSTOOD /\ TypeOf[pending.question] = "TRANSFER"
    /\ after < before => /\ Tested(c)
                         /\ before >= UNDERSTOOD
                         /\ after = PARTIALLY_UNDERSTOOD

Earned(cs, ds) == \A c \in Concepts : EarnedAt(c, cs.state[c], ds.state[c])

(* No question is posed: the open one, if any, is kept or dropped.         *)
PosesNone ==
    /\ concepts'.asked = concepts.asked
    /\ IsAuthored' => IsAuthored /\ pending'.question = pending.question

PosesNew ==
    \E q \in Questions :
        /\ q \notin concepts.asked
        /\ concepts'.asked = concepts.asked \union {q}
        /\ IsAuthored' /\ pending'.question = q

Sound == Earned(concepts, concepts') /\ (PosesNone \/ PosesNew)

----------------------------------------------------------------------------
(* States that stay, or only go from UNKNOWN to INTRODUCED, are earned.    *)
LEMMA EarnedThenIntroduced ==
    ASSUME NEW cs \in ConceptStates, NEW ds \in ConceptStates, NEW es \in ConceptStates,
           Earned(cs, ds),
           \A c \in Concepts : \/ es.state[c] = ds.state[c]
                               \/ es.state[c] = AtLeast(ds.state[c], INTRODUCED)
    PROVE  Earned(cs, es)
  <1> SUFFICES ASSUME NEW c \in Concepts
               PROVE  EarnedAt(c, cs.state[c], es.state[c])
    BY DEF Earned
  <1>1. cs.state[c] \in States /\ ds.state[c] \in States /\ es.state[c] \in States
    BY DEF ConceptStates
  <1>2. \/ es.state[c] = ds.state[c]
        \/ ds.state[c] = UNKNOWN /\ es.state[c] = INTRODUCED
    BY <1>1 DEF AtLeast, States, UNKNOWN, INTRODUCED, MASTERED
  <1>3. CASE es.state[c] = ds.state[c]
    BY <1>3 DEF Earned
  <1>4. CASE ds.state[c] = UNKNOWN /\ es.state[c] = INTRODUCED
    <2>1. ~(ds.state[c] < cs.state[c])
      <3>1. ds.state[c] < cs.state[c] => ds.state[c] = PARTIALLY_UNDERSTOOD
        BY DEF Earned, EarnedAt
      <3> QED
        BY <1>4, <3>1 DEF UNKNOWN, PARTIALLY_UNDERSTOOD
    <2> QED
      BY <1>1, <1>4, <2>1 DEF EarnedAt, States, UNKNOWN, INTRODUCED, UNDERSTOOD, MASTERED
  <1> QED
    BY <1>2, <1>3, <1>4

LEMMA EarnedSame ==
    ASSUME NEW cs \in ConceptStates, NEW ds \in ConceptStates, ds.state = cs.state
    PROVE  Earned(cs, ds)
  <1>1. ASSUME NEW c \in Concepts
        PROVE  EarnedAt(c, cs.state[c], ds.state[c])
    <2>1. ds.state[c] = cs.state[c] /\ cs.state[c] \in Int
      BY DEF ConceptStates, States, UNKNOWN, MASTERED
    <2> QED
      BY <2>1 DEF EarnedAt
  <1> QED
    BY <1>1 DEF Earned

(* An answer to the open question is evidence for its concept.             *)
LEMMA EarnedByAnswer ==
    ASSUME IInv, IsAuthored, NEW label \in Labels
    PROVE  /\ Earned(concepts, Graded(pending.question, label))
           /\ Graded(pending.question, label).asked = concepts.asked
  <1> DEFINE q  == pending.question
             cs == Graded(q, label)
  <1>1. q \in Questions /\ ConceptOf[q] \in Concepts /\ q \in concepts.asked
    BY PendingConcept DEF IInv, PendingIsWorthAsking
  <1>2. /\ cs.asked = concepts.asked \union {q}
        /\ \/ cs.state = [concepts.state EXCEPT ![ConceptOf[q]] = NextState(@, label)]
           \/ /\ label = "CORRECT" /\ TypeOf[q] = "TRANSFER"
              /\ concepts.state[ConceptOf[q]] = UNDERSTOOD
              /\ cs.state = [concepts.state EXCEPT ![ConceptOf[q]] = MASTERED]
    BY <1>1, GradedFacts
  <1>3. concepts.state \in [Concepts -> States]
    BY DEF IInv, Coherent, ConceptStates
  <1> HIDE DEF cs
  <1>4. ASSUME NEW c \in Concepts
        PROVE  EarnedAt(c, concepts.state[c], cs.state[c])
    <2>1. CASE c # ConceptOf[q]
      <3>1. cs.state[c] = concepts.state[c] /\ concepts.state[c] \in Int
        BY <1>2, <1>3, <2>1 DEF States, UNKNOWN, MASTERED
      <3> QED
        BY <3>1 DEF EarnedAt
    <2>2. CASE c = ConceptOf[q]
      <3>1. Tested(c)
        BY <2>2 DEF Tested
      <3>2. concepts.state[c] \in States
        BY <1>3
      <3>3. CASE cs.state = [concepts.state EXCEPT ![ConceptOf[q]] = NextState(@, label)]
        <4>1. cs.state[c] = NextState(concepts.state[c], label)
          BY <1>3, <2>2, <3>3
        <4> QED
          BY <3>1, <3>2, <4>1, NextStateFacts DEF EarnedAt, States, UNKNOWN, ATTEMPTED, UNDERSTOOD, MASTERED
      <3>4. CASE /\ TypeOf[q] = "TRANSFER" /\ concepts.state[c] = UNDERSTOOD
                 /\ cs.state = [concepts.state EXCEPT ![ConceptOf[q]] = MASTERED]
        <4>1. cs.state[c] = MASTERED
          BY <1>3, <2>2, <3>4
        <4> QED
          BY <3>1, <3>4, <4>1 DEF EarnedAt, UNDERSTOOD, MASTERED
      <3> QED
        BY <1>2, <2>2, <3>3, <3>4
    <2> QED
      BY <2>1, <2>2
  <1> QED
    BY <1>1, <1>2, <1>4 DEF Earned, cs

----------------------------------------------------------------------------
(* A handler that poses no question and does not judge an answer.          *)
LEMMA QuietSound ==
    ASSUME IInv, Coherent(concepts'), Earned(concepts, concepts'),
           concepts'.asked = concepts.asked,
           \/ ~IsAuthored'
           \/ pending' = pending
           \/ /\ pending # None
              /\ pending' # None
              /\ pending'.kind = pending.kind
              /\ pending'.question = pending.question
    PROVE  Sound
  BY DEF Sound, PosesNone, IsAuthored

LEMMA TickSound ==
    ASSUME IInv, concepts' = Tick(concepts),
           \/ ~IsAuthored'
           \/ pending' = pending
           \/ /\ pending # None
              /\ pending' # None
              /\ pending'.kind = pending.kind
              /\ pending'.question = pending.question
    PROVE  Sound
  <1>1. /\ Coherent(concepts')
        /\ concepts'.state = concepts.state
        /\ concepts'.asked = concepts.asked
    BY TickFacts DEF IInv
  <1>2. Earned(concepts, concepts')
    BY <1>1, EarnedSame DEF IInv, Coherent
  <1> QED
    BY <1>1, <1>2, QuietSound

(* Posing an unasked question, on concept states that are earned.          *)
LEMMA AskSound ==
    ASSUME IInv, NEW cs, Coherent(cs), Earned(concepts, cs), cs.asked = concepts.asked,
           NEW q \in Questions, q \notin cs.asked, NEW source \in {"quiz", "followup"},
           Ask(cs, q, source)
    PROVE  Sound
  <1>1. /\ Coherent(concepts')
        /\ concepts'.state = [cs.state EXCEPT ![ConceptOf[q]] =
                                  AtLeast(cs.state[ConceptOf[q]], INTRODUCED)]
        /\ concepts'.asked = cs.asked \union {q}
        /\ pending' = Authored(q, source) /\ pending' \in PendingType
    BY AskStep
  <1>2. \A c \in Concepts : \/ concepts'.state[c] = cs.state[c]
                            \/ concepts'.state[c] = AtLeast(cs.state[c], INTRODUCED)
    BY <1>1 DEF Coherent, ConceptStates
  <1>3. concepts \in ConceptStates /\ cs \in ConceptStates /\ concepts' \in ConceptStates
    BY <1>1 DEF IInv, Coherent
  <1>4. Earned(concepts, concepts')
    BY <1>2, <1>3, EarnedThenIntroduced
  <1>5. IsAuthored' /\ pending'.question = q
    <2>1. pending' # None
      BY <1>1, NoneAssumption
    <2> QED
      BY <1>1, <2>1 DEF IsAuthored, Authored
  <1> QED
    BY <1>1, <1>4, <1>5 DEF Sound, PosesNew

LEMMA QuizNextSound ==
    ASSUME IInv, NEW cs, Coherent(cs), Earned(concepts, cs), cs.asked = concepts.asked,
           NEW run, NEW candidates, NEW c, candidates \subseteq Unasked(cs, c),
           QuizNext(cs, run, candidates)
    PROVE  Sound
  <1>1. ASSUME NEW q \in candidates, Ask(cs, q, "quiz")
        PROVE  Sound
    <2>1. q \in Questions /\ q \notin cs.asked
      BY DEF Unasked, QuestionsOn
    <2> QED
      BY <1>1, <2>1, AskSound
  <1>2. CASE concepts' = cs /\ pending' = None
    BY <1>2, QuietSound DEF IsAuthored
  <1> QED
    BY <1>1, <1>2 DEF QuizNext

LEMMA FinishQuestionSound ==
    ASSUME IInv, NEW cs, Coherent(cs), Earned(concepts, cs), cs.asked = concepts.asked,
           NEW q, NEW correct \in BOOLEAN, FinishQuestion(cs, q, correct)
    PROVE  Sound
  <1> DEFINE run == [quiz EXCEPT !.correct = IF correct THEN @ + 1 ELSE @]
             deeper == DeeperQuestions(cs, q)
             candidates == IF correct /\ deeper # {} THEN deeper
                           ELSE Choices(cs, ConceptOf[q], FALSE)
  <1>1. CASE QuizNext(cs, run, candidates)
    <2>1. candidates \subseteq Unasked(cs, ConceptOf[q])
      BY ChoicesUnasked, DeeperUnasked
    <2> HIDE DEF run, candidates
    <2> QED
      BY <1>1, <2>1, QuizNextSound
  <1>2. CASE concepts' = cs /\ pending' = None
    BY <1>2, QuietSound DEF IsAuthored
  <1> QED
    BY <1>1, <1>2 DEF FinishQuestion

----------------------------------------------------------------------------
LEMMA PlanTurnSound ==
    ASSUME IInv, NEW r \in Requests, PlanTurn(r)
    PROVE  Sound
  <1>1. CASE \/ LeaveAsIs(r) \/ SideRequest(r) \/ Reformat(r) \/ Pause(r) \/ ChangeDirection(r)
             \/ Advance(r) \/ AskExample(r) \/ SideExample(r) \/ CloseFree(r)
             \/ \E c \in Concepts : AskPrerequisites(r, c) \/ Struggle(r, c)
             \/ \E c \in AnyConcept, named, continuation \in BOOLEAN :
                   AskCourse(r, c, named, continuation)
    <2>1. concepts' = Tick(concepts) /\ (pending' = None \/ pending' = pending)
      BY <1>1 DEF LeaveAsIs, SideRequest, Reformat, Pause, ChangeDirection, Advance, AskExample,
         SideExample, CloseFree, AskPrerequisites, Struggle, AskCourse
    <2> QED
      BY <2>1, TickSound DEF IsAuthored
  <1>2. CASE Hint(r) \/ Simplify(r) \/ \E c \in AnyConcept : SideQuestion(r, c)
    <2>1. pending # None /\ pending \in PendingType /\ concepts' = Tick(concepts)
      BY <1>2 DEF Hint, Simplify, SideQuestion, IsAuthored, IInv, TypeOK
    <2>2. pending' \in PendingType /\ pending'.kind = pending.kind
          /\ pending'.question = pending.question
      BY <1>2, <2>1 DEF Hint, Simplify, SideQuestion, IsAuthored, PendingType
    <2>3. pending' # None
      BY <2>2, NoneAssumption
    <2> QED
      BY <2>1, <2>2, <2>3, TickSound
  <1>3. ASSUME NEW c \in Concepts, StartQuiz(r, c)
        PROVE  Sound
    <2> DEFINE cs == Tick(concepts)
    <2>1. Coherent(cs) /\ cs.state = concepts.state /\ cs.asked = concepts.asked
      BY TickFacts DEF IInv
    <2>2. Earned(concepts, cs)
      BY <2>1, EarnedSame DEF IInv, Coherent
    <2>3. Choices(cs, c, FALSE) \subseteq Unasked(cs, c)
      BY ChoicesUnasked
    <2>4. QuizNext(cs, [concept |-> c, asked |-> 0, correct |-> 0], Choices(cs, c, FALSE))
      BY <1>3 DEF StartQuiz
    <2> HIDE DEF cs
    <2> QED
      BY <2>1, <2>2, <2>3, <2>4, QuizNextSound
  <1>4. CASE Skip(r)
    <2> DEFINE cs == Intervened(Tick(concepts), ConceptOf[pending.question])
    <2>1. ConceptOf[pending.question] \in Concepts
      BY <1>4, PendingConcept DEF Skip, IInv
    <2>2. Coherent(cs) /\ cs.state = concepts.state /\ cs.asked = concepts.asked
      BY <2>1, TickFacts, IntervenedFacts DEF IInv
    <2>3. Earned(concepts, cs)
      BY <2>2, EarnedSame DEF IInv, Coherent
    <2>4. FinishQuestion(cs, pending.question, FALSE)
      BY <1>4 DEF Skip
    <2> HIDE DEF cs
    <2> QED
      BY <2>2, <2>3, <2>4, FinishQuestionSound
  <1>5. CASE TellMe(r)
    <2> DEFINE cs == ApplyClassification(Tick(concepts), pending.question, "UNCLEAR")
    <2>1. IsAuthored /\ pending.question \in Questions /\ FinishQuestion(cs, pending.question, FALSE)
      BY <1>5, PendingConcept DEF TellMe, IInv
    <2>2. cs = Graded(pending.question, "UNCLEAR")
      BY DEF Graded
    <2>3. Earned(concepts, cs) /\ cs.asked = concepts.asked /\ Coherent(cs)
      BY <2>1, <2>2, EarnedByAnswer, GradedFacts DEF Labels
    <2> HIDE DEF cs
    <2> QED
      BY <2>1, <2>3, FinishQuestionSound
  <1>6. ASSUME NEW label \in Labels, AnswerCloses(r, label)
        PROVE  Sound
    <2> DEFINE cs   == Graded(pending.question, label)
               next == NextAfterAnswer(cs, pending.question, label)
    <2>1. /\ IsAuthored /\ pending.question \in Questions
          /\ FinishQuestion(cs, pending.question, next = "advance")
      BY <1>6, PendingConcept DEF AnswerCloses, IInv
    <2>2. Earned(concepts, cs) /\ cs.asked = concepts.asked /\ Coherent(cs)
      BY <2>1, EarnedByAnswer, GradedFacts
    <2>3. (next = "advance") \in BOOLEAN
      OBVIOUS
    <2> HIDE DEF cs, next
    <2> QED
      BY <2>1, <2>2, <2>3, FinishQuestionSound
  <1>7. ASSUME NEW label \in Labels, NEW realise \in BOOLEAN, AnswerKeepsOpen(r, label, realise)
        PROVE  Sound
    <2>1. /\ IsAuthored /\ pending.question \in Questions /\ pending' = pending
          /\ concepts' = Graded(pending.question, label)
      BY <1>7, PendingConcept DEF AnswerKeepsOpen, IInv
    <2>2. Earned(concepts, concepts') /\ concepts'.asked = concepts.asked /\ Coherent(concepts')
      BY <2>1, EarnedByAnswer, GradedFacts
    <2> QED
      BY <2>1, <2>2, QuietSound
  <1> QED
    BY <1>1, <1>2, <1>3, <1>4, <1>5, <1>6, <1>7 DEF PlanTurn

(* A suggestion moves a concept at most one level, below UNDERSTOOD.       *)
LEMMA AdviceClamped ==
    ASSUME IInv, NEW r \in Requests, NEW suggested \in Labels, Advise(r, suggested)
    PROVE  /\ Coherent(concepts')
           /\ concepts'.asked = concepts.asked
           /\ \A c \in Concepts :
                 \/ concepts'.state[c] = concepts.state[c]
                 \/ /\ concepts'.state[c] = concepts.state[c] + 1
                    /\ concepts'.state[c] <= PARTIALLY_UNDERSTOOD
  <1> DEFINE d == job[r].concept
  <1>1. d \in Concepts /\ concepts.state[d] >= ATTEMPTED
    BY DEF Advise, Has, IInv, TypeOK, JobType, AdviceFollowsAttempt
  <1>2. /\ Coherent(concepts')
        /\ concepts'.asked = concepts.asked
        /\ \/ concepts'.state = concepts.state
           \/ concepts'.state = [concepts.state EXCEPT ![d] = Advised(concepts.state[d], suggested)]
    BY <1>1, ApplyAdvisoryFacts DEF Advise, IInv
  <1>3. concepts.state \in [Concepts -> States]
    BY DEF IInv, Coherent, ConceptStates
  <1>4. \/ Advised(concepts.state[d], suggested) = concepts.state[d]
        \/ /\ Advised(concepts.state[d], suggested) = concepts.state[d] + 1
           /\ Advised(concepts.state[d], suggested) <= PARTIALLY_UNDERSTOOD
    BY <1>1, <1>3, AdvisedFacts DEF States, UNKNOWN, MASTERED
  <1> QED
    BY <1>1, <1>2, <1>3, <1>4

LEMMA AfterAwaitSound ==
    ASSUME IInv, NEW r \in Requests, AfterAwait(r)
    PROVE  Sound
  <1>0. concepts \in ConceptStates /\ Coherent(concepts)
    BY DEF IInv, Coherent
  <1>1. CASE Abandon(r) \/ OffTopic(r) \/ StreamOffer(r) \/ SetFree(r)
    <2>1. concepts' = concepts /\ (pending' = pending \/ ~IsAuthored')
      BY <1>1 DEF Abandon, OffTopic, StreamOffer, SetFree, FreeQuestion, IsAuthored
    <2>2. Earned(concepts, concepts')
      BY <1>0, <2>1, EarnedSame
    <2> QED
      BY <1>0, <2>1, <2>2, QuietSound
  <1>2. ASSUME NEW suggested \in Labels, Advise(r, suggested)
        PROVE  Sound
    <2>1. /\ Coherent(concepts') /\ concepts'.asked = concepts.asked
          /\ \A c \in Concepts :
                \/ concepts'.state[c] = concepts.state[c]
                \/ /\ concepts'.state[c] = concepts.state[c] + 1
                   /\ concepts'.state[c] <= PARTIALLY_UNDERSTOOD
      BY <1>2, AdviceClamped
    <2>2. ASSUME NEW c \in Concepts
          PROVE  EarnedAt(c, concepts.state[c], concepts'.state[c])
      <3>1. concepts.state[c] \in Int
        BY <1>0 DEF ConceptStates, States, UNKNOWN, MASTERED
      <3>2. CASE concepts'.state[c] = concepts.state[c]
        BY <3>1, <3>2 DEF EarnedAt
      <3>3. CASE /\ concepts'.state[c] = concepts.state[c] + 1
                 /\ concepts'.state[c] <= PARTIALLY_UNDERSTOOD
        <4>1. /\ concepts'.state[c] \in Int
              /\ ~(concepts'.state[c] < concepts.state[c])
              /\ ~(concepts'.state[c] >= UNDERSTOOD)
              /\ concepts'.state[c] # MASTERED
          BY <3>1, <3>3 DEF PARTIALLY_UNDERSTOOD, UNDERSTOOD, MASTERED
        <4> QED
          BY <4>1 DEF EarnedAt
      <3> QED
        BY <2>1, <3>2, <3>3
    <2>3. Earned(concepts, concepts')
      BY <2>2 DEF Earned
    <2> QED
      BY <1>2, <2>1, <2>3, QuietSound DEF Advise
  <1>3. ASSUME NEW c \in AnyConcept,
               FinishWithQuestion(r, c)
                  \/ \E refused, socratic \in BOOLEAN : FinishPlain(r, c, refused, socratic)
        PROVE  Sound
    <2> DEFINE cs == Introduced(c)
    <2>1. /\ Coherent(cs) /\ cs.asked = concepts.asked
          /\ \A d \in Concepts : \/ cs.state[d] = concepts.state[d]
                                  \/ cs.state[d] = AtLeast(concepts.state[d], INTRODUCED)
      <3>1. CASE c = None
        BY <1>0, <3>1 DEF Introduced
      <3>2. CASE c # None
        <4>1. c \in Concepts /\ cs = Introduce(concepts, c)
          BY <3>2 DEF Introduced, AnyConcept
        <4>2. /\ Coherent(cs) /\ cs.asked = concepts.asked
              /\ cs.state = [concepts.state EXCEPT ![c] = AtLeast(concepts.state[c], INTRODUCED)]
          <5> HIDE DEF cs
          <5> QED
            BY <1>0, <4>1, IntroduceFacts
        <4>3. concepts.state \in [Concepts -> States]
          BY <1>0 DEF ConceptStates
        <4> HIDE DEF cs
        <4> QED
          BY <4>1, <4>2, <4>3
      <3> QED
        BY <3>1, <3>2
    <2>2. Earned(concepts, cs)
      <3>1. Earned(concepts, concepts)
        BY <1>0, EarnedSame
      <3> HIDE DEF cs
      <3> QED
        BY <1>0, <2>1, <3>1, EarnedThenIntroduced DEF Coherent
    <2>3. CASE FinishWithQuestion(r, c)
      <3>1. PICK q \in FollowupChoices(r, c) : Ask(cs, q, "followup")
        BY <2>3 DEF FinishWithQuestion
      <3>2. q \in Questions /\ q \notin cs.asked
        BY ChoicesUnasked DEF FollowupChoices, Unasked, QuestionsOn
      <3> HIDE DEF cs
      <3> QED
        BY <2>1, <2>2, <3>1, <3>2, AskSound
    <2>4. CASE \E refused, socratic \in BOOLEAN : FinishPlain(r, c, refused, socratic)
      <3>1. concepts' = cs /\ pending' = pending
        BY <2>4 DEF FinishPlain
      <3> HIDE DEF cs
      <3> QED
        BY <2>1, <2>2, <3>1, QuietSound
    <2> QED
      BY <1>3, <2>3, <2>4
  <1> QED
    BY <1>1, <1>2, <1>3 DEF AfterAwait

LEMMA StepSound == IInv /\ [Next]_vars => Sound
  <1> SUFFICES ASSUME IInv, [Next]_vars
               PROVE  Sound
    OBVIOUS
  <1>1. CASE Next
    BY <1>1, PlanTurnSound, AfterAwaitSound DEF Next
  <1>2. CASE UNCHANGED vars
    <2>1. concepts' = concepts /\ pending' = pending /\ concepts \in ConceptStates
      BY <1>2 DEF vars, IInv, Coherent
    <2>2. Earned(concepts, concepts')
      BY <2>1, EarnedSame
    <2> QED
      BY <2>1, <2>2, QuietSound DEF IInv
  <1> QED
    BY <1>1, <1>2

----------------------------------------------------------------------------
(* A turn's own step starts from an idle request and touches no other job. *)
LEMMA PlanTurnJobs ==
    ASSUME IInv, NEW p \in Requests, PlanTurn(p), NEW r \in Requests, job[r] # None
    PROVE  job'[r] = job[r]
  <1>1. job[p] = None
    BY DEF PlanTurn, Arrives, LeaveAsIs, SideRequest, Reformat, Pause, ChangeDirection,
       AskPrerequisites, StartQuiz, Struggle, Advance, AskExample, AskCourse, Skip, Hint, TellMe,
       Simplify, SideExample, CloseFree, SideQuestion, AnswerCloses, AnswerKeepsOpen
  <1>2. job' = job \/ \E plan : job' = [job EXCEPT ![p] = plan]
    BY DEF PlanTurn, LeaveAsIs, SideRequest, Reformat, Pause, ChangeDirection,
       AskPrerequisites, StartQuiz, Struggle, Advance, AskExample, AskCourse, Skip, Hint, TellMe,
       Simplify, SideExample, CloseFree, SideQuestion, AnswerCloses, AnswerKeepsOpen,
       FinishQuestion, QuizNext, Replies, Plans
  <1>3. job \in [Requests -> JobType \union {None}]
    BY DEF IInv, TypeOK
  <1> QED
    BY <1>1, <1>2, <1>3

LEMMA AfterAwaitJobs ==
    ASSUME IInv, NEW p \in Requests, AfterAwait(p), NEW r \in Requests, r # p
    PROVE  job'[r] = job[r]
  <1>1. \E j : job' = [job EXCEPT ![p] = j]
    BY DEF AfterAwait, Abandon, OffTopic, Advise, FinishWithQuestion, FinishPlain, StreamOffer,
       SetFree, Done
  <1>2. job \in [Requests -> JobType \union {None}]
    BY DEF IInv, TypeOK
  <1> QED
    BY <1>1, <1>2

LEMMA AdviceStep ==
    ASSUME IInv, [Next]_vars, NEW r \in Requests, Has(r, "advise"), job'[r] = None
    PROVE  \A c \in Concepts :
              \/ concepts'.state[c] = concepts.state[c]
              \/ /\ concepts'.state[c] = concepts.state[c] + 1
                 /\ concepts'.state[c] <= PARTIALLY_UNDERSTOOD
  <1>1. job[r] # None /\ job[r].kind = "advise" /\ job'[r] # job[r]
    BY DEF Has
  <1>2. Next
    BY <1>1 DEF vars
  <1>3. PICK p \in Requests : PlanTurn(p) \/ AfterAwait(p)
    BY <1>2 DEF Next
  <1>4. p = r /\ AfterAwait(r)
    BY <1>1, <1>3, PlanTurnJobs, AfterAwaitJobs
  <1>5. Abandon(r) \/ \E suggested \in Labels : Advise(r, suggested)
    BY <1>1, <1>4 DEF AfterAwait, OffTopic, FinishWithQuestion, FinishPlain, StreamOffer, SetFree, Has
  <1>6. CASE Abandon(r)
    BY <1>6 DEF Abandon
  <1>7. ASSUME NEW suggested \in Labels, Advise(r, suggested)
        PROVE  \A c \in Concepts :
                  \/ concepts'.state[c] = concepts.state[c]
                  \/ /\ concepts'.state[c] = concepts.state[c] + 1
                     /\ concepts'.state[c] <= PARTIALLY_UNDERSTOOD
    BY <1>7, AdviceClamped
  <1> QED
    BY <1>5, <1>6, <1>7

(* A model's suggestion, however late it arrives, lifts a concept at most  *)
(* one level and never past PARTIALLY_UNDERSTOOD (pedagogy.apply_advisory, *)
(* called by chat.py after llm.realise_turn).                              *)
THEOREM AdvisoryClamped == Spec => AdvisoryIsClamped
  <1>1. IInv /\ [Next]_vars =>
          [\A r \in Requests :
             Has(r, "advise") /\ job'[r] = None =>
                 \A c \in Concepts :
                     \/ concepts'.state[c] = concepts.state[c]
                     \/ /\ concepts'.state[c] = concepts.state[c] + 1
                        /\ concepts'.state[c] <= PARTIALLY_UNDERSTOOD]_vars
    BY AdviceStep
  <1> QED
    BY <1>1, Invariance, PTL DEF Spec, AdvisoryIsClamped

(* Understanding is only granted, and only lost, on the evidence of an     *)
(* answer to the open question (pedagogy.apply_classification,             *)
(* mark_mastered, engine._grade).                                          *)
THEOREM MasteryEarned == Spec => MasteryFollowsEvidence
  <1>1. IInv /\ [Next]_vars =>
          [\A c \in Concepts :
             LET before == concepts.state[c]
                 after  == concepts'.state[c]
                 tested == IsAuthored /\ ConceptOf[pending.question] = c
             IN  /\ after > before /\ after >= UNDERSTOOD => tested
                 /\ after = MASTERED /\ before # MASTERED =>
                       before = UNDERSTOOD /\ TypeOf[pending.question] = "TRANSFER"
                 /\ after < before => /\ tested
                                      /\ before >= UNDERSTOOD
                                      /\ after = PARTIALLY_UNDERSTOOD]_vars
    BY StepSound DEF Sound, Earned, EarnedAt, Tested
  <1> QED
    BY <1>1, Invariance, PTL DEF Spec, MasteryFollowsEvidence

----------------------------------------------------------------------------
(* The thread implements the life of its questions.                        *)

LEMMA LifecycleStart == Init => Lifecycle!LifecycleInit
  <1> SUFFICES ASSUME Init
               PROVE  \A q \in Questions : Status(q) = "unasked"
    BY DEF Lifecycle!LifecycleInit
  <1> QED
    BY DEF Init, NewConceptStates, Status, IsAuthored

LEMMA LifecycleStep ==
    IInv /\ [Next]_vars => [Lifecycle!LifecycleNext]_[q \in Questions |-> Status(q)]
  <1> SUFFICES ASSUME IInv, [Next]_vars
               PROVE  \/ Lifecycle!LifecycleNext
                      \/ [q \in Questions |-> Status(q)]' = [q \in Questions |-> Status(q)]
    OBVIOUS
  <1>1. PosesNone \/ PosesNew
    BY StepSound DEF Sound
  <1>2. IsAuthored => pending.question \in Questions /\ pending.question \in concepts.asked
    BY PendingConcept DEF IInv, PendingIsWorthAsking
  <1>3. CASE PosesNone
    <2>1. CASE IsAuthored /\ ~IsAuthored'
      <3>1. \A q \in Questions :
               Status(q)' = IF Status(q) = "open" THEN "closed" ELSE Status(q)
        BY <1>2, <1>3, <2>1 DEF PosesNone, Status
      <3>2. Status(pending.question) = "open"
        BY <2>1 DEF Status
      <3>3. Lifecycle!Close
        BY <1>2, <2>1, <3>1, <3>2 DEF Lifecycle!Close, Lifecycle!Closing
      <3> QED
        BY <3>3 DEF Lifecycle!LifecycleNext
    <2>2. CASE ~(IsAuthored /\ ~IsAuthored')
      <3>1. \A q \in Questions : Status(q)' = Status(q)
        BY <1>3, <2>2 DEF PosesNone, Status
      <3> QED
        BY <3>1
    <2> QED
      BY <2>1, <2>2
  <1>4. CASE PosesNew
    <2>1. PICK q \in Questions : /\ q \notin concepts.asked
                                /\ concepts'.asked = concepts.asked \union {q}
                                /\ IsAuthored' /\ pending'.question = q
      BY <1>4 DEF PosesNew
    <2>2. Status(q) = "unasked"
      BY <1>2, <2>1 DEF Status
    <2>3. \A p \in Questions :
             Status(p)' = IF p = q THEN "open"
                          ELSE IF Status(p) = "open" THEN "closed" ELSE Status(p)
      BY <1>2, <2>1 DEF Status
    <2>4. Lifecycle!Pose(q)
      BY <2>2, <2>3 DEF Lifecycle!Pose, Lifecycle!Closing
    <2> QED
      BY <2>4 DEF Lifecycle!LifecycleNext
  <1> QED
    BY <1>1, <1>3, <1>4

(* Every authored question is put to the student at most once, one at a    *)
(* time, and a closed one never comes back: the thread implements          *)
(* QuestionLifecycle (pedagogy.choose_question, deeper_question,           *)
(* engine._ask).                                                           *)
THEOREM QuestionsOnce == Spec => QuestionsLiveOnce
  BY LifecycleStart, LifecycleStep, Invariance, PTL
     DEF Spec, QuestionsLiveOnce, Lifecycle!LifecycleSpec

----------------------------------------------------------------------------
(* What a student who waits for each turn is told: with one request at a   *)
(* time on the thread, a reply poses or reminds but never both, and only   *)
(* reminds of the open question.  Neither holds once a second request      *)
(* overtakes an await (TLC refutes both for two requests), so the argument *)
(* has to be about the resume line a RAG turn carries across its await:    *)
(* alone, nothing can change the question it was taken from.               *)

(* At most one request is ever in flight on the thread.                    *)
Alone == \A r, s \in Requests : r = s

(* What was just said: a question or a reminder, and of the open question. *)
SaysWell(saying, open) ==
    /\ saying.poses = None \/ saying.reminds = None
    /\ saying.reminds # None => saying.reminds = open

(* The line a plan goes on with is the question that is open.              *)
ResumesOpen(j, open) ==
    j # None /\ j.kind = "rag" /\ j.resume # None => j.resume = open

AloneInv ==
    /\ SaysWell(said, Reminder)
    /\ \A r \in Requests : ResumesOpen(job[r], Reminder)

LEMMA Says ==
    ASSUME NEW poses, NEW reminds, NEW report, NEW open,
           poses = None \/ reminds = None,
           reminds # None => reminds = open
    PROVE  SaysWell(Saying(poses, reminds, report), open)
  BY DEF SaysWell, Saying

LEMMA SaysNothing ==
    ASSUME NEW open
    PROVE  SaysWell(Nothing, open)
  BY Says DEF Nothing

(* A message that is answered at once: the request stays idle.             *)
LEMMA ReplyAlone ==
    ASSUME Alone, NEW r \in Requests, Arrives(r), UNCHANGED job,
           SaysWell(said', Reminder')
    PROVE  AloneInv'
  <1>1. \A s \in Requests : job'[s] = None
    BY DEF Alone, Arrives
  <1> QED
    BY <1>1 DEF AloneInv, ResumesOpen

(* A message that is taken to retrieval or to a model.                     *)
LEMMA PlanAlone ==
    ASSUME IInv, Alone, NEW r \in Requests, NEW plan, Plans(r, plan),
           ResumesOpen(plan, Reminder')
    PROVE  AloneInv'
  <1>1. \A s \in Requests : job'[s] = plan
    BY DEF Alone, Plans, IInv, TypeOK
  <1>2. SaysWell(said', Reminder')
    BY SaysNothing DEF Plans
  <1> QED
    BY <1>1, <1>2 DEF AloneInv

(* What a request does after its await.                                    *)
LEMMA DoneAlone ==
    ASSUME IInv, Alone, NEW r \in Requests, NEW j, job' = [job EXCEPT ![r] = j],
           j = None \/ j.kind # "rag", SaysWell(said', Reminder')
    PROVE  AloneInv'
  <1>1. \A s \in Requests : job'[s] = j
    BY DEF Alone, IInv, TypeOK
  <1> QED
    BY <1>1 DEF AloneInv, ResumesOpen

LEMMA QuizNextAlone ==
    ASSUME Alone, NEW r \in Requests, Arrives(r), NEW cs, NEW run, NEW candidates,
           QuizNext(cs, run, candidates)
    PROVE  AloneInv'
  <1>1. ASSUME NEW q \in candidates, Replies(Saying(q, None, None))
        PROVE  AloneInv'
    BY <1>1, Says, ReplyAlone DEF Replies
  <1>2. CASE Replies(Saying(None, None, run))
    BY <1>2, Says, ReplyAlone DEF Replies
  <1> QED
    BY <1>1, <1>2 DEF QuizNext

LEMMA FinishQuestionAlone ==
    ASSUME Alone, NEW r \in Requests, Arrives(r), NEW cs, NEW q, NEW correct \in BOOLEAN,
           FinishQuestion(cs, q, correct)
    PROVE  AloneInv'
  <1>1. CASE Replies(Nothing)
    BY <1>1, SaysNothing, ReplyAlone DEF Replies
  <1>2. CASE ~Replies(Nothing)
    <2>1. \E run, candidates : QuizNext(cs, run, candidates)
      BY <1>2 DEF FinishQuestion
    <2> QED
      BY <2>1, QuizNextAlone
  <1> QED
    BY <1>1, <1>2

----------------------------------------------------------------------------
LEMMA PlanTurnAlone ==
    ASSUME IInv, Alone, NEW r \in Requests, PlanTurn(r)
    PROVE  AloneInv'
  <1>1. CASE \/ LeaveAsIs(r) \/ Pause(r) \/ ChangeDirection(r) \/ Hint(r) \/ Simplify(r)
             \/ CloseFree(r) \/ \E c \in Concepts : AskPrerequisites(r, c)
    <2>1. Arrives(r) /\ Replies(Nothing)
      BY <1>1 DEF LeaveAsIs, Pause, ChangeDirection, Hint, Simplify, CloseFree, AskPrerequisites
    <2> QED
      BY <2>1, SaysNothing, ReplyAlone DEF Replies
  <1>2. CASE SideRequest(r)
    <2>1. Arrives(r) /\ Replies(Saying(None, Reminder, None)) /\ Reminder' = Reminder
      BY <1>2 DEF SideRequest, Reminder
    <2> QED
      BY <2>1, Says, ReplyAlone DEF Replies
  <1>3. CASE \/ Advance(r) \/ AskExample(r) \/ \E c \in Concepts : Struggle(r, c)
             \/ \E c \in AnyConcept, named, continuation \in BOOLEAN :
                   AskCourse(r, c, named, continuation)
    <2>1. \E c, named, quiet, struggling : Plans(r, RagPlan(c, named, quiet, struggling, None))
      BY <1>3 DEF Advance, AskExample, Struggle, AskCourse
    <2> QED
      BY <2>1, PlanAlone DEF RagPlan, ResumesOpen
  <1>4. CASE Reformat(r) \/ SideExample(r)
    <2>1. /\ \E c, named, quiet : Plans(r, RagPlan(c, named, quiet, FALSE, Reminder))
          /\ Reminder' = Reminder
      BY <1>4 DEF Reformat, SideExample, Reminder
    <2> QED
      BY <2>1, PlanAlone DEF RagPlan, ResumesOpen
  <1>5. ASSUME NEW c \in AnyConcept, SideQuestion(r, c)
        PROVE  AloneInv'
    <2>1. pending # None /\ pending \in PendingType /\ pending' = [pending EXCEPT !.reminded = TRUE]
      BY <1>5 DEF SideQuestion, IInv, TypeOK
    <2>2. pending' \in PendingType /\ pending'.question = pending.question
      BY <2>1 DEF PendingType
    <2>3. Reminder' = Reminder
      BY <2>1, <2>2, NoneAssumption DEF Reminder
    <2>4. \E about, named, resume :
             resume \in {None, Reminder} /\ Plans(r, RagPlan(about, named, FALSE, FALSE, resume))
      BY <1>5 DEF SideQuestion
    <2> QED
      BY <2>3, <2>4, PlanAlone DEF RagPlan, ResumesOpen
  <1>6. ASSUME NEW c \in Concepts, StartQuiz(r, c)
        PROVE  AloneInv'
    <2>1. Arrives(r) /\ \E cs, run, candidates : QuizNext(cs, run, candidates)
      BY <1>6 DEF StartQuiz
    <2> QED
      BY <2>1, QuizNextAlone
  <1>7. CASE Skip(r) \/ TellMe(r) \/ \E label \in Labels : AnswerCloses(r, label)
    <2>1. Arrives(r) /\ \E cs, q : \E correct \in BOOLEAN : FinishQuestion(cs, q, correct)
      BY <1>7 DEF Skip, TellMe, AnswerCloses
    <2> QED
      BY <2>1, FinishQuestionAlone
  <1>8. ASSUME NEW label \in Labels, NEW realise \in BOOLEAN, AnswerKeepsOpen(r, label, realise)
        PROVE  AloneInv'
    <2>1. Arrives(r) /\ (Replies(Nothing) \/ \E c : Plans(r, Advice(c)))
      BY <1>8 DEF AnswerKeepsOpen
    <2>2. CASE Replies(Nothing)
      BY <2>1, <2>2, SaysNothing, ReplyAlone DEF Replies
    <2>3. CASE \E c : Plans(r, Advice(c))
      BY <2>3, PlanAlone DEF Advice, ResumesOpen
    <2> QED
      BY <2>1, <2>2, <2>3
  <1> QED
    BY <1>1, <1>2, <1>3, <1>4, <1>5, <1>6, <1>7, <1>8 DEF PlanTurn

LEMMA AfterAwaitAlone ==
    ASSUME IInv, Alone, AloneInv, NEW r \in Requests, AfterAwait(r)
    PROVE  AloneInv'
  <1>0. ResumesOpen(job[r], Reminder)
    BY DEF AloneInv
  <1>1. CASE Abandon(r) \/ \E suggested \in Labels : Advise(r, suggested)
    <2>1. Done(r, Nothing)
      BY <1>1 DEF Abandon, Advise
    <2> QED
      BY <2>1, SaysNothing, DoneAlone DEF Done
  <1>2. CASE OffTopic(r)
    <2>1. Done(r, Saying(None, Reminder, None)) /\ Reminder' = Reminder
      BY <1>2 DEF OffTopic, Reminder
    <2> QED
      BY <2>1, Says, DoneAlone DEF Done
  <1>3. ASSUME NEW c \in AnyConcept, FinishWithQuestion(r, c)
        PROVE  AloneInv'
    <2>1. Has(r, "rag")
      BY <1>3 DEF FinishWithQuestion
    <2>2. PICK q : Done(r, Saying(q, job[r].resume, None)) /\ pending = None
      BY <1>3 DEF FinishWithQuestion, FollowupChoices
    <2>3. job[r].resume = None
      BY <1>0, <2>1, <2>2 DEF Has, ResumesOpen, Reminder
    <2>4. SaysWell(said', Reminder')
      BY <2>2, <2>3, Says DEF Done
    <2> QED
      BY <2>2, <2>4, DoneAlone DEF Done
  <1>4. ASSUME NEW c \in AnyConcept, NEW refused \in BOOLEAN, NEW socratic \in BOOLEAN,
               FinishPlain(r, c, refused, socratic)
        PROVE  AloneInv'
    <2>1. Has(r, "rag") /\ Reminder' = Reminder /\ said' = Saying(None, job[r].resume, None)
      BY <1>4 DEF FinishPlain, Reminder
    <2>2. SaysWell(said', Reminder')
      BY <1>0, <2>1, Says DEF Has, ResumesOpen
    <2>3. Offer.kind # "rag" /\ \E j \in {Offer, None} : job' = [job EXCEPT ![r] = j]
      BY <1>4 DEF FinishPlain, Offer
    <2> QED
      BY <2>2, <2>3, DoneAlone
  <1>5. CASE StreamOffer(r)
    <2>1. job' = [job EXCEPT ![r] = Offering] /\ Offering.kind # "rag" /\ said' = Nothing
      BY <1>5 DEF StreamOffer, Offering
    <2> QED
      BY <2>1, SaysNothing, DoneAlone
  <1>6. CASE SetFree(r)
    <2>1. Done(r, Saying(Free, None, None))
      BY <1>6 DEF SetFree
    <2> QED
      BY <2>1, Says, DoneAlone DEF Done
  <1> QED
    BY <1>1, <1>2, <1>3, <1>4, <1>5, <1>6 DEF AfterAwait

LEMMA AloneStart == Init => AloneInv
  <1> SUFFICES ASSUME Init
               PROVE  AloneInv
    OBVIOUS
  <1>1. said = Nothing /\ \A r \in Requests : job[r] = None
    BY DEF Init
  <1> QED
    BY <1>1, SaysNothing DEF AloneInv, ResumesOpen

LEMMA AloneStep ==
    ASSUME Alone
    PROVE  IInv /\ AloneInv /\ [Next]_vars => AloneInv'
  <1>1. ASSUME AloneInv, UNCHANGED vars
        PROVE  AloneInv'
    BY <1>1 DEF vars, AloneInv, Reminder
  <1> QED
    BY <1>1, PlanTurnAlone, AfterAwaitAlone DEF Next

THEOREM AloneInvariance ==
    ASSUME Alone
    PROVE  Spec => []AloneInv
  <1>1. IInv /\ AloneInv /\ [Next]_vars => AloneInv'
    BY AloneStep
  <1> QED
    BY <1>1, AloneStart, Invariance, PTL DEF Spec

(* A student who waits for each turn gets at most one question per reply:  *)
(* the open one again or a new one (engine.finish_rag).                    *)
THEOREM OneQuestionAlone ==
    ASSUME Alone
    PROVE  Spec => []OneQuestionPerReply
  <1>1. AloneInv => OneQuestionPerReply
    BY DEF AloneInv, SaysWell, OneQuestionPerReply
  <1> QED
    BY <1>1, AloneInvariance, PTL

(* A student who waits for each turn is only led back to the question that *)
(* is open (engine.resume_line, off_topic).                                *)
THEOREM ReminderAlone ==
    ASSUME Alone
    PROVE  Spec => []ReminderIsOpen
  <1>1. AloneInv => ReminderIsOpen
    BY DEF AloneInv, SaysWell, ReminderIsOpen
  <1> QED
    BY <1>1, AloneInvariance, PTL
=============================================================================
