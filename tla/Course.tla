------------------------------- MODULE Course -------------------------------
(***************************************************************************)
(* A chat of one student about the real course: the thread of TutorThread  *)
(* with the knowledge of OsCourse, the messages of Intents and the chips   *)
(* every reply offers (engine.py, followups.py).  The student taps a chip  *)
(* of the last reply, or types; which handler runs is what Intents makes   *)
(* of the message.                                                         *)
(***************************************************************************)
EXTENDS TutorThread, TLC

INSTANCE Intents
LOCAL Seqs == INSTANCE SequencesExt

CONSTANTS
    ChipMemory,    \* asked_chips keeps so many
    MaxMessages,   \* messages of the chat
    Named          \* concepts a typed message may name

VARIABLES
    heard,     \* the last message, and how many there were
    ui         \* the last reply: its chips, what it is about; and asked_chips

courseVars == <<vars, heard, ui>>

----------------------------------------------------------------------------
(* engine._chips, _remember: what was offered is not offered again; the    *)
(* actions always may be.                                                  *)

New(items, limit) ==
    LET step(out, m) == IF m \in Seqs!ToSet(ui.asked) \union Seqs!ToSet(out) \/ Len(out) >= limit
                        THEN out ELSE Append(out, m)
    IN  Seqs!FoldLeft(step, <<>>, items)

UpTo(s, n)   == SubSeq(s, 1, AtMost(n, Len(s)))
LastOf(s, n) == SubSeq(s, IF Len(s) > n THEN Len(s) - n + 1 ELSE 1, Len(s))

(* Mutant: the actions are remembered too.                                 *)
RememberActions(chips) ==
    LastOf(ui.asked \o SelectSeq(chips, LAMBDA m : m \notin Seqs!ToSet(ui.asked)), ChipMemory)

Remember(chips) ==
    LastOf(ui.asked \o SelectSeq(chips, LAMBDA m : m \notin Seqs!ToSet(ui.asked) /\ ~IsAction(m)), ChipMemory)

Shows(reply, about, chips, asked) ==
    ui' = [chips |-> chips, asked |-> asked, reply |-> reply, about |-> about]

Offers(reply, about, chips) == Shows(reply, about, chips, Remember(chips))

----------------------------------------------------------------------------
(* followups.py, on the concept states cs.                                 *)

Known(cs, c) == cs.state[c] # UNKNOWN

(* The chips of everything untouched, else the authored starters.          *)
Starters == <<Message("begin", "os_role"), Message("ask", "os_role"), Message("ask", "process"),
              Message("ask", "paging"), Message("ask", "deadlock"), Message("show", "fork_exec_wait"),
              Message("ask", "semaphores"), Message("check", "process")>>
StarterChips(cs, limit) ==
    LET untouched == SelectSeq(LearningPath, LAMBDA c : ~Known(cs, c))
        texts     == [i \in DOMAIN untouched |-> Message("explain", untouched[i])]
        all       == IF texts = <<>> THEN Starters ELSE texts
    IN  UpTo(all, limit)

(* The concept a "how does X connect to Y" chip is taken to be about: the  *)
(* longer match.                                                           *)
Connects(c) ==
    LET deps  == Dependents(c)
        top   == Seqs!SelectInSeq(deps, LAMBDA d : \A i \in DOMAIN deps :
                                                Knowledge[deps[i]].importance <= Knowledge[d].importance)
        wins  == {"os_role", "process", "context_switch", "paging", "threads", "locks", "semaphores",
                  "deadlock", "linux_commands"}
    IN  Message("connect", IF c \in wins THEN deps[top] ELSE c)

ConceptChips(cs, c) ==
    <<Message("with_example", c)>>
    \o (IF QuestionsOn(c) # {} THEN <<Message("test", c)>> ELSE <<>>)
    \o (IF \E p \in Prerequisites(c) : ~Known(cs, p) THEN <<Message("know_first", c)>>
        ELSE IF Dependents(c) # <<>> THEN <<Connects(c)>> ELSE <<Message("why", c)>>)

NextSteps(cs, c) ==
    IF c = None THEN New(StarterChips(cs, 4), 3) ELSE New(ConceptChips(cs, c), 3)

Explain(path) == [i \in DOMAIN path |-> Message("explain", path[i])]
PathOrStarters(cs, n) == New(<<Act("path")>> \o StarterChips(cs, n), n + 1)

QuestionChips == (IF pending'.hinted THEN <<>> ELSE <<Act("hint")>>) \o <<Act("tell_me"), Act("skip")>>
AsksAgain(c)  == Shows("question", c, QuestionChips, ui.asked)

----------------------------------------------------------------------------
(* The replies of plan_turn, each with its chips.                          *)

Orients(reply) == Offers(reply, None, New(<<Act("path")>> \o StarterChips(concepts', 3), 4))

Remaining == SelectSeq(LearningPath, LAMBDA c : concepts'.state[c] < UNDERSTOOD)
PathReply ==
    IF Remaining = <<>>
    THEN Offers("path", None, New(<<Message("test", "deadlock"), Message("test", "paging")>>, 4))
    ELSE Offers("path", None, Explain(UpTo(Remaining, 3)))

(* After _quiz_next or _finish_question about concept c.                   *)
AfterQuestion(c) ==
    IF pending' # None THEN AsksAgain(c)
    ELSE LET chips  == NextSteps(concepts', c)
             again  == said'.report # None /\ concepts'.state[c] < UNDERSTOOD
         IN  Offers("feedback", c, IF again THEN New(<<Message("more_simply", c)>> \o chips, 4) ELSE chips)

OnTopic(m) == IF m.about # None THEN m.about ELSE topic

Triaged(r, m) == Triage(m) # "course" /\ LeaveAsIs(r) /\ Offers("triage", None, PathOrStarters(concepts, 2))

Request(r, m) ==
    /\ Intent(m) \in {"capability", "dissatisfied"}
    /\ SideRequest(r)
    /\ LET ways == IF Intent(m) = "capability" THEN <<Act("bullets"), Act("example"), Act("next_topic")>>
                                               ELSE <<Act("simpler"), Act("example"), Act("bullets")>>
       IN  Offers("feedback", topic, IF topic # None THEN New(ways, 3) ELSE PathOrStarters(concepts, 2))

Pauses(r, m) == Intent(m) = "pause" /\ Pause(r) /\ Offers("feedback", topic, NextSteps(concepts, topic))

(* A change of direction, with or without an open question.                *)
Direction(r, m) ==
    \/ Intent(m) = "path" /\ ChangeDirection(r) /\ PathReply
    \/ Intent(m) \in {"lost", "help_opener", "greeting"} /\ ChangeDirection(r) /\ Orients("orientation")
    \/ /\ Intent(m) = "next_topic"
       /\ ChangeDirection(r)
       /\ IF OnTopic(m) # None /\ Dependents(OnTopic(m)) # <<>>
          THEN Offers("feedback", OnTopic(m), New(Explain(UpTo(Dependents(OnTopic(m)), 3)), 4))
          ELSE PathReply

Quizzes(r, m) ==
    /\ Intent(m) = "quiz"
    /\ IF OnTopic(m) = None THEN ChangeDirection(r) /\ Orients("orientation")
       ELSE StartQuiz(r, OnTopic(m)) /\ AfterQuestion(OnTopic(m))

Requires(r, m) ==
    /\ Intent(m) = "prereqs" /\ OnTopic(m) # None
    /\ AskPrerequisites(r, OnTopic(m))
    /\ LET c == OnTopic(m)
           first == Knowledge[c].prerequisites
       IN  Offers("prereqs", c, IF first = <<>> THEN NextSteps(concepts, c) ELSE New(Explain(Append(first, c)), 4))

(* _handle_pending on an authored question.                                *)
WhileAsking(r, m) ==
    /\ IsAuthored
    /\ LET c == ConceptOf[pending.question]
           q == Bank[c][pending.question[2]]
       IN  \/ Intent(m) = "ack" /\ LeaveAsIs(r) /\ AsksAgain(c)
           \/ Intent(m) = "skip" /\ Skip(r) /\ AfterQuestion(c)
           \/ Intent(m) = "hint" /\ IF pending.hinted THEN LeaveAsIs(r) /\ AsksAgain(c) ELSE Hint(r) /\ AsksAgain(c)
           \/ Intent(m) = "tell_me" /\ TellMe(r) /\ AfterQuestion(c)
           \/ Intent(m) = "struggle" /\ IF pending.simplified THEN TellMe(r) /\ AfterQuestion(c) ELSE Simplify(r) /\ AsksAgain(c)
           \/ Intent(m) \in {"answer", "continue"} /\ m.kind # "tell_me_more"
              /\ \E label \in AnswerLabels(c, q) : \/ AnswerCloses(r, label) /\ AfterQuestion(c)
                                                   \/ AnswerKeepsOpen(r, label, FALSE) /\ AsksAgain(c)

Plan(reply, about) == Shows(reply, about, <<>>, ui.asked)

(* What goes on to retrieval.                                              *)
IsQuestion(m) == Intent(m) = "question" \/ (Intent(m) = "format" /\ (NamesItsTopic(m) \/ topic = None))

PlansTurn(r, m) ==
    \/ Intent(m) = "format" /\ ~IsQuestion(m) /\ Reformat(r) /\ Plan("format", topic)
    \/ /\ IsAuthored
       /\ \/ Intent(m) = "example" /\ SideExample(r) /\ Plan("side_question", ConceptOf[pending.question])
          \/ (IsQuestion(m) \/ m.kind = "tell_me_more") /\ SideQuestion(r, m.about) /\ Plan("side_question", m.about)
    \/ /\ pending = None
       /\ \/ /\ Intent(m) \in {"ack", "skip"}
             /\ IF topic # None /\ NextIdeas # {} THEN Advance(r) /\ Plan("advance", job'[r].concept)
                ELSE ChangeDirection(r) /\ PathReply
          \/ /\ Intent(m) = "struggle"
             /\ IF OnTopic(m) = None THEN ChangeDirection(r) /\ Orients("orientation")
                ELSE Struggle(r, OnTopic(m)) /\ Plan("simplified", OnTopic(m))
          \/ Intent(m) = "example" /\ m.about = None /\ AskExample(r) /\ Plan("example", topic)
          \/ /\ \/ IsQuestion(m)
                \/ Intent(m) \in {"answer", "hint", "tell_me", "continue"}
                \/ Intent(m) = "example" /\ (m.about # None \/ topic = None)
                \/ Intent(m) = "prereqs" /\ OnTopic(m) = None
             /\ AskCourse(r, m.about, m.about # None, Intent(m) = "continue") /\ Plan("rag", m.about)

Handles(r, m) ==
    \/ Triaged(r, m)
    \/ /\ Triage(m) = "course"
       /\ \/ Request(r, m) \/ Pauses(r, m) \/ Direction(r, m) \/ Quizzes(r, m) \/ Requires(r, m)
          \/ WhileAsking(r, m) \/ PlansTurn(r, m)

(* The student taps a chip of the last reply or types something.           *)
Typed == {Act(k) : k \in {"ok", "hello", "video", "unhelpful", "overwhelmed", "points", "attempt", "ask", "stop"}}
         \union {Message(k, c) : k \in {"ask", "after"}, c \in Named}

Says(r, m) ==
    /\ heard.count < MaxMessages
    /\ Handles(r, m)
    /\ heard' = [message |-> m, count |-> heard.count + 1]

----------------------------------------------------------------------------
(* finish_rag, and what ends a turn without it.                            *)

(* The bound of the model: a title names one of these concepts or none.    *)
MayBeAbout(r, c) == Has(r, "rag") /\ (job[r].concept = None => c \in Named \union {None})

TitleChips == {<<>>} \union {<<Message("tell_me_more", c)>> : c \in Named \union {None}}

(* Never fewer than three ways forward.                                    *)
WaysForward(c, titles) ==
    LET chips == New(NextSteps(concepts', c) \o titles, 3)
        more  == IF c # None THEN <<Act("example"), Act("next_topic"), Act("path")>>
                             ELSE <<Act("path")>> \o StarterChips(concepts, 2)
    IN  IF Len(chips) < 3 THEN New(chips \o more, 3) ELSE chips

Answers(r, c) ==
    /\ \E socratic \in BOOLEAN : FinishPlain(r, c, FALSE, socratic)
    /\ IF pending # None THEN Shows("reminder", c, <<Act("tell_me"), Act("skip")>>, ui.asked)
       ELSE IF job[r].struggling /\ c # None
       THEN Offers("support", c, New(<<Message("more_simply", c), Message("with_example", c), Act("path")>>, 3))
       ELSE \E titles \in TitleChips : Offers("answer", c, WaysForward(c, titles))

Refuses(r, c) ==
    /\ FinishPlain(r, c, TRUE, TRUE)
    /\ Shows("refused", c, New(<<Act("lost")>> \o StarterChips(concepts, 2), 3), ui.asked)

Finishes(r) ==
    /\ \/ \E c \in AnyConcept :
             /\ MayBeAbout(r, c)
             /\ \/ FinishWithQuestion(r, c) /\ AsksAgain(c)
                \/ Answers(r, c)
                \/ Refuses(r, c)
       \/ OffTopic(r) /\ Offers("triage", None, PathOrStarters(concepts, 2))
       \/ Abandon(r) /\ Shows("failed", None, <<>>, ui.asked)
    /\ UNCHANGED heard

----------------------------------------------------------------------------
(* An empty chat shows the starters and the map of the course, of which    *)
(* only the concepts Named are tapped.                                     *)
CourseInit ==
    /\ Init
    /\ heard = [message |-> None, count |-> 0]
    /\ ui = [chips |-> Starters \o Explain(SelectSeq(LearningPath, LAMBDA c : c \in Named)), asked |-> <<>>,
             reply |-> "none", about |-> None]

CourseNext ==
    \E r \in Requests :
        \/ \E m \in Seqs!ToSet(ui.chips) \union Typed : Says(r, m)
        \/ Finishes(r)

CourseSpec == CourseInit /\ [][CourseNext]_courseVars

----------------------------------------------------------------------------
(* engine.py:760 after an answer about a concept that poses no question:   *)
(* the student is never left fewer than three ways forward, however many   *)
(* chips were offered before.                                              *)
ThreeWaysForward == ui.reply = "answer" /\ ui.about # None => Len(ui.chips) = 3

(* "Next" along the path: when it goes on to a concept never touched, all  *)
(* that the concept builds on was touched before, or is the topic.         *)
NextIsPrepared ==
    ui.reply = "advance" /\ ~Known(concepts, ui.about) =>
        \A p \in Prerequisites(ui.about) : Known(concepts, p) \/ p = topic

(* followups.py: every chip is a complete message.  A tapped one does what *)
(* it says: tests that concept, lists what it needs, plans an answer about *)
(* it, shows the path, hints, or closes the open question.                 *)
DoesWhatItSays(m) ==
    CASE m.kind \in {"test", "check"} -> ui'.reply \in {"question", "feedback"} /\ ui'.about = m.about
      [] m.kind = "know_first" -> ui'.reply = "prereqs" /\ topic' = m.about
      [] m.kind \in {"explain", "why", "connect", "with_example", "more_simply", "show", "ask"} ->
             \E r \in Requests : job'[r] # None /\ job'[r].concept = m.about
      [] m = Act("path") -> ui'.reply = "path"
      [] m = Act("hint") -> pending'.hinted
      [] m \in {Act("tell_me"), Act("skip")} -> pending' = None \/ said'.poses # None
      [] OTHER           -> TRUE

ChipsDoWhatTheySay ==
    [][heard' # heard /\ heard'.message \in Seqs!ToSet(ui.chips) => DoesWhatItSays(heard'.message)]_courseVars

(* The chip that offers the last answer as bullet points.                  *)
BulletsReshape ==
    [][heard' # heard /\ heard'.message = Act("bullets") =>
          \E r \in Requests : job'[r] # None /\ job'[r].quiet /\ job'[r].concept = topic]_courseVars
=============================================================================
