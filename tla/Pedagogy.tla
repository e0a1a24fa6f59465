------------------------------ MODULE Pedagogy ------------------------------
(***************************************************************************)
(* The deterministic pedagogical policy of src/tutor/pedagogy.py: the      *)
(* concept states of one chat thread and the functions that read and       *)
(* change them.  The functions are pure here (a ConceptStates record in,   *)
(* one out), as they are on the copy every handler of the engine works on. *)
(*                                                                         *)
(* Abstractions.  A state is its RANK.  The wording of questions and       *)
(* answers is gone: an answer is the label classify_answer gives it.  The  *)
(* turn counter seq and a concept's last_seq are kept as their difference, *)
(* idle[c], saturated at the cooldown (a concept never intervened on has   *)
(* no last_seq and is never in its cooldown): the code only compares the   *)
(* difference with the cooldown.  The attempts counter, the list of        *)
(* misconceptions met and the history rows are written but never read by   *)
(* the policy, and are left out.                                           *)
(***************************************************************************)
EXTENDS Integers, Sequences

CONSTANTS
    Concepts,       \* ids of the authored concepts
    Questions,      \* ids of the authored questions
    ConceptOf,      \* question -> the concept it is about
    TypeOf,         \* question -> its type (qtype)
    Cooldown,       \* CONCEPT_COOLDOWN_TURNS
    ExplainAfter    \* EXPLAIN_AFTER_MISSES

QuestionTypes ==
    {"OBSERVATION", "WHY", "PREDICTION", "CONSEQUENCE", "INTERPRETATION", "TRANSFER"}

ASSUME KnowledgeAssumption ==
    /\ ConceptOf \in [Questions -> Concepts]
    /\ TypeOf \in [Questions -> QuestionTypes]

ASSUME PolicyAssumption ==
    /\ Cooldown \in Nat
    /\ ExplainAfter \in Nat \ {0}

(* The mastery ladder.                                                     *)
UNKNOWN              == 0
INTRODUCED           == 1
ATTEMPTED            == 2
PARTIALLY_UNDERSTOOD == 3
UNDERSTOOD           == 4
MASTERED             == 5
States               == UNKNOWN .. MASTERED

Labels == {"CORRECT", "PARTIAL", "MISCONCEPTION", "UNCLEAR"}

ConceptStates ==
    [state  : [Concepts -> States],
     idle   : [Concepts -> 0 .. Cooldown],
     asked  : SUBSET Questions,
     misses : [Questions -> Nat]]

NewConceptStates ==
    [state  |-> [c \in Concepts |-> UNKNOWN],
     idle   |-> [c \in Concepts |-> Cooldown],
     asked  |-> {},
     misses |-> [q \in Questions |-> 0]]

AtLeast(s, floor)  == IF s >= floor THEN s ELSE floor
AtMost(s, ceiling) == IF s <= ceiling THEN s ELSE ceiling

----------------------------------------------------------------------------
(* Evidence: how the record of a concept moves.                            *)

(* Mutant: an answer that cannot be read leaves the state as it was.       *)
NextStateStill(s, label) ==
    CASE label = "CORRECT" -> AtLeast(s, UNDERSTOOD)
      [] label = "PARTIAL" -> AtLeast(s, PARTIALLY_UNDERSTOOD)
      [] OTHER             -> s

NextState(s, label) ==
    CASE label = "CORRECT"       -> AtLeast(s, UNDERSTOOD)
      [] label = "PARTIAL"       -> AtLeast(s, PARTIALLY_UNDERSTOOD)
      [] label = "MISCONCEPTION" -> IF s >= UNDERSTOOD THEN PARTIALLY_UNDERSTOOD
                                                       ELSE AtLeast(s, ATTEMPTED)
      [] OTHER                   -> AtLeast(s, ATTEMPTED)

(* Mutant: the turns since an intervention are counted past the cooldown.  *)
TickUnbounded(cs) == [cs EXCEPT !.idle = [c \in Concepts |-> cs.idle[c] + 1]]

(* ConceptStates.tick: one more turn since every intervention.             *)
Tick(cs) ==
    [cs EXCEPT !.idle = [c \in Concepts |-> AtMost(cs.idle[c] + 1, Cooldown)]]

(* rec.last_seq = cs.seq                                                   *)
Intervened(cs, c) == [cs EXCEPT !.idle[c] = 0]

Introduce(cs, c) == [cs EXCEPT !.state[c] = AtLeast(@, INTRODUCED)]

ApplyClassification(cs, q, label) ==
    [Intervened(cs, ConceptOf[q]) EXCEPT
        !.state[ConceptOf[q]] = NextState(@, label),
        !.asked = @ \union {q},
        !.misses[q] = IF label = "CORRECT" THEN @ ELSE @ + 1]

MarkMastered(cs, c) ==
    [cs EXCEPT !.state[c] = IF @ = UNDERSTOOD THEN MASTERED ELSE @]

(* Mutant: the suggestion is taken as it is.                               *)
AdvisedUnclamped(s, suggested) == AtLeast(s, NextState(s, suggested))

(* What a model's suggestion may make of a state.                          *)
Advised(s, suggested) ==
    LET target  == NextState(s, IF suggested = "CORRECT" THEN "PARTIAL" ELSE suggested)
        ceiling == AtMost(AtLeast(s + 1, ATTEMPTED), PARTIALLY_UNDERSTOOD)
    IN  IF target > s THEN AtMost(target, ceiling) ELSE s

ApplyAdvisory(cs, c, suggested) ==
    IF suggested \in Labels \ {"UNCLEAR"}
    THEN [cs EXCEPT !.state[c] = Advised(@, suggested)]
    ELSE cs

----------------------------------------------------------------------------
(* Policy: what to ask next.                                               *)

Level == [OBSERVATION |-> 1, WHY |-> 2, PREDICTION |-> 3, CONSEQUENCE |-> 3,
          INTERPRETATION |-> 4, TRANSFER |-> 4]

QuestionsOn(c)   == {q \in Questions : ConceptOf[q] = c}
Unasked(cs, c)   == QuestionsOn(c) \ cs.asked

TypeOrder(s, afterExplanation) ==
    CASE s <= INTRODUCED ->
            IF afterExplanation THEN <<"PREDICTION", "CONSEQUENCE", "WHY", "OBSERVATION">>
                                ELSE <<"OBSERVATION", "WHY", "PREDICTION">>
      [] s = ATTEMPTED            -> <<"WHY", "PREDICTION", "OBSERVATION">>
      [] s = PARTIALLY_UNDERSTOOD -> <<"INTERPRETATION", "CONSEQUENCE", "WHY", "PREDICTION">>
      [] s = UNDERSTOOD           -> <<"TRANSFER", "INTERPRETATION">>
      [] OTHER                    -> <<"TRANSFER">>

(* TRUE if the order names type t no later than type u.                    *)
NoLater(order, t, u) ==
    \A i \in 1 .. Len(order) : order[i] = u => \E j \in 1 .. i : order[j] = t

(***************************************************************************)
(* The questions choose_question may pick (none: it returns None): an      *)
(* unasked one of the earliest type of the order, else any unasked one.    *)
(* Among questions of one type the code takes the authored order, which    *)
(* the model leaves open.                                                  *)
(***************************************************************************)
Choices(cs, c, afterExplanation) ==
    LET order == TypeOrder(cs.state[c], afterExplanation)
        pool  == {q \in Unasked(cs, c) :
                     cs.state[c] = MASTERED => TypeOf[q] = "TRANSFER"}
    IN  {q \in pool : \A p \in pool : NoLater(order, TypeOf[q], TypeOf[p])}

(* deeper_question: the unasked ones above q, of the lowest such level.     *)
DeeperQuestions(cs, q) ==
    LET above == {p \in Unasked(cs, ConceptOf[q]) \ {q} :
                     Level[TypeOf[p]] > Level[TypeOf[q]]}
    IN  {p \in above : \A o \in above : Level[TypeOf[p]] <= Level[TypeOf[o]]}

MayOpenFollowup(cs, c) ==
    /\ cs.state[c] < UNDERSTOOD
    /\ cs.idle[c] >= Cooldown

(* Mutant: the tutor explains one miss too late.                           *)
NextAfterAnswerLate(cs, q, label) ==
    CASE label = "CORRECT"            -> "advance"
      [] label # "CORRECT" /\ cs.misses[q] > ExplainAfter -> "explain"
      [] OTHER                        -> "ask_again"

(* next_after_answer, for an answer already counted in misses ("probe" and  *)
(* "scaffold" differ in wording only: both leave the question open).       *)
NextAfterAnswer(cs, q, label) ==
    CASE label = "CORRECT"              -> "advance"
      [] label # "CORRECT" /\ cs.misses[q] >= ExplainAfter -> "explain"
      [] OTHER                          -> "ask_again"
=============================================================================
