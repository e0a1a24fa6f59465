------------------------------ MODULE ChatTurn ------------------------------
(***************************************************************************)
(* The turns of one chat thread as POST /chat streams them                 *)
(* (api/routes/chat.py _stream_chat): the server-sent events of each, the  *)
(* retry when the model fails before saying anything, the sentence gate    *)
(* between the model and the student (src/tutor/shaping.py), and the       *)
(* thread's history (api/routes/session.py), which DELETE                  *)
(* /tutor/session/{id} clears.                                             *)
(*                                                                         *)
(* Turns of one thread interleave wherever the code awaits or yields; the  *)
(* client may go away at any such point, which cancels the generator.      *)
(* What the tutor decides to say is TutorThread's business and is open     *)
(* here.  Text is counted in the gate's units (sentences or lines);        *)
(* authored text, sent in several small token events, is one event.        *)
(***************************************************************************)
EXTENDS Integers, Sequences, SequencesExt

CONSTANTS
    Requests,        \* the turns of the thread
    MaxUnits,        \* the gate's max_units for the detail level
    MaxTokens,       \* bound: tokens the model writes in one attempt
    MaxResets,       \* bound: how often the thread is reset
    ModelFollowups   \* OS_RAG_MODEL_FOLLOWUPS

ASSUME ChatAssumption ==
    /\ MaxUnits \in Nat \ {0}
    /\ MaxTokens \in Nat /\ MaxResets \in Nat
    /\ ModelFollowups \in BOOLEAN

VARIABLES
    turn,      \* request -> where its generator stands
    wire,      \* request -> the events it has sent
    history,   \* _SESSIONS[key]: the finished turns, oldest first
    resets     \* how often the thread has been reset

vars == <<turn, wire, history, resets>>

Attempts == {"first", "second"}
Sources  == {"authored", "lead", "tail", "suffix", "followup", "end"} \union Attempts
Event(kind, from) == [event |-> kind, from |-> from]
Events == [event : {"token", "ui", "sources", "error"}, from : Sources]

(* held: the gate keeps an unfinished sentence back; units and shown: what *)
(* it has let through; full: the budget is spent.                          *)
NewGate == [held |-> FALSE, units |-> 0, shown |-> FALSE, full |-> FALSE]

NewTurn ==
    [phase |-> "new", asked |-> 0, rag |-> FALSE, context |-> FALSE,
     attempt |-> "first", tokens |-> 0, gate |-> NewGate]

Init ==
    /\ turn = [r \in Requests |-> NewTurn]
    /\ wire = [r \in Requests |-> <<>>]
    /\ history = <<>>
    /\ resets = 0

At(r, phase) == turn[r].phase = phase
Goto(r, phase) == turn' = [turn EXCEPT ![r].phase = phase]
Send(r, events) == wire' = [wire EXCEPT ![r] = @ \o events]
Token(from) == <<Event("token", from)>>

(* TRUE if the thread's last finished turn was grounded in some material.  *)
LastContext == history # <<>> /\ Last(history).context

----------------------------------------------------------------------------
(* plan_turn: authored text, authored text a model may rephrase, or RAG.   *)

PlanReply(r, realise) ==
    /\ At(r, "new")
    /\ turn' = [turn EXCEPT ![r].phase = IF realise THEN "realising" ELSE "authored",
                            ![r].asked = resets]
    /\ UNCHANGED <<wire, history, resets>>

(* A continuation goes on with the material of the last turn, if any.      *)
PlanRag(r, continuation) ==
    /\ At(r, "new")
    /\ LET reuse == continuation /\ LastContext
       IN  turn' = [turn EXCEPT ![r].phase = IF reuse THEN "leading" ELSE "retrieving",
                                ![r].asked = resets, ![r].rag = TRUE, ![r].context = reuse]
    /\ UNCHANGED <<wire, history, resets>>

(* llm.realise_turn returns, whatever happened to the model.               *)
Realised(r) ==
    /\ At(r, "realising")
    /\ Goto(r, "authored")
    /\ UNCHANGED <<wire, history, resets>>

(* Mutant: the turn is remembered before its text is sent.                 *)
SendAuthoredLate(r) ==
    /\ At(r, "authored")
    /\ history' = Append(history, [of |-> r, context |-> LastContext])
    /\ Send(r, Token("authored"))
    /\ Goto(r, "authored_ui")
    /\ UNCHANGED resets

(* The text, then the ui event.                                            *)
SendAuthored(r) ==
    /\ At(r, "authored")
    /\ Send(r, Token("authored"))
    /\ Goto(r, "authored_ui")
    /\ UNCHANGED <<history, resets>>

SendAuthoredUi(r) ==
    /\ At(r, "authored_ui")
    /\ Send(r, <<Event("ui", "authored")>>)
    /\ Goto(r, "closing")
    /\ UNCHANGED <<history, resets>>

----------------------------------------------------------------------------
(* A RAG turn up to the model.                                             *)

Fail(r) == Send(r, <<Event("error", "end")>>) /\ Goto(r, "ended")

(* Mutant: the error is sent and the turn goes on without material.        *)
RetrievalFailsOn(r) ==
    /\ At(r, "retrieving")
    /\ Send(r, <<Event("error", "end")>>)
    /\ Goto(r, "leading")
    /\ UNCHANGED <<history, resets>>

RetrievalFails(r) ==
    /\ At(r, "retrieving")
    /\ Fail(r)
    /\ UNCHANGED <<history, resets>>

(* Nothing in the course matches: an authored bridge.                      *)
OffTopic(r) ==
    /\ At(r, "retrieving")
    /\ turn' = [turn EXCEPT ![r].phase = "authored", ![r].rag = FALSE]
    /\ UNCHANGED <<wire, history, resets>>

Retrieved(r, found) ==
    /\ At(r, "retrieving")
    /\ turn' = [turn EXCEPT ![r].phase = "leading", ![r].context = found]
    /\ UNCHANGED <<wire, history, resets>>

(* The optional misconception check, the plan's lead, and the first prompt. *)
Lead(r, lead) ==
    /\ At(r, "leading")
    /\ Send(r, IF lead THEN Token("lead") ELSE <<>>)
    /\ Goto(r, "model")
    /\ UNCHANGED <<history, resets>>

----------------------------------------------------------------------------
(* The model streams into the gate.                                        *)

(* Mutant: the gate closes one unit late.                                  *)
FeedOver(gate, released, ends, rest) ==
    LET room == MaxUnits - gate.units
    IN  CASE ~released                 -> [gate EXCEPT !.held = TRUE]
          [] released /\ ends <= room  -> [gate EXCEPT !.held = rest, !.shown = TRUE, !.units = @ + ends]
          [] OTHER                     -> [held |-> FALSE, units |-> MaxUnits, shown |-> TRUE, full |-> TRUE]

(* SentenceGate.feed: a token that brings the text to a boundary releases  *)
(* it; ends counts the units this completes (a ":" completes none), rest   *)
(* says whether text is left after the last boundary.                      *)
Feed(gate, released, ends, rest) ==
    LET room == MaxUnits - gate.units
    IN  CASE ~released                -> [gate EXCEPT !.held = TRUE]
          [] released /\ ends < room  -> [gate EXCEPT !.held = rest, !.shown = TRUE, !.units = @ + ends]
          [] OTHER                    -> [held |-> FALSE, units |-> MaxUnits, shown |-> TRUE, full |-> TRUE]

(* When the gate is full the model is stopped.                             *)
ModelToken(r, released, ends, rest) ==
    /\ At(r, "model")
    /\ turn[r].tokens < MaxTokens
    /\ ~released => ends = 0
    /\ LET gate == Feed(turn[r].gate, released, ends, rest)
       IN  /\ turn' = [turn EXCEPT ![r].gate = gate, ![r].tokens = @ + 1,
                                   ![r].phase = IF gate.full THEN "answered" ELSE "model"]
           /\ Send(r, IF released THEN Token(turn[r].attempt) ELSE <<>>)
    /\ UNCHANGED <<history, resets>>

(* Mutant: the retry is made although text has been shown.                 *)
ModelFailsAloud(r) ==
    /\ At(r, "model")
    /\ IF turn[r].attempt = "second"
       THEN Fail(r)
       ELSE /\ turn' = [turn EXCEPT ![r].attempt = "second", ![r].tokens = 0, ![r].gate = NewGate]
            /\ UNCHANGED wire
    /\ UNCHANGED <<history, resets>>

(* Mutant: the retries are not counted.                                    *)
ModelFailsForever(r) ==
    /\ At(r, "model")
    /\ IF turn[r].gate.shown
       THEN Fail(r)
       ELSE /\ turn' = [turn EXCEPT ![r].attempt = "second", ![r].tokens = 0, ![r].gate = NewGate]
            /\ UNCHANGED wire
    /\ UNCHANGED <<history, resets>>

(* Ollama cannot be reached, refuses, times out or reports an error: one   *)
(* quiet retry, if nothing has been shown yet.                             *)
ModelFails(r) ==
    /\ At(r, "model")
    /\ IF turn[r].attempt = "second" \/ turn[r].gate.shown
       THEN Fail(r)
       ELSE /\ turn' = [turn EXCEPT ![r].attempt = "second", ![r].tokens = 0, ![r].gate = NewGate]
            /\ UNCHANGED wire
    /\ UNCHANGED <<history, resets>>

(* A line that is no JSON: the exception ends the generator on the spot.   *)
ModelGarbles(r) ==
    /\ At(r, "model")
    /\ Goto(r, "broken")
    /\ UNCHANGED <<wire, history, resets>>

(* The stream ends.  SentenceGate.finish: what is held back is sent, unless *)
(* the model was cut off and something complete has been shown.            *)
ModelEnds(r, truncated) ==
    /\ At(r, "model")
    /\ LET gate == turn[r].gate
           tail == gate.held /\ ~(truncated /\ gate.shown)
       IN  /\ turn' = [turn EXCEPT ![r].phase = "answered", ![r].gate.held = FALSE,
                                   ![r].gate.units = IF tail THEN @ + 1 ELSE @]
           /\ Send(r, IF tail THEN Token("tail") ELSE <<>>)
    /\ UNCHANGED <<history, resets>>

----------------------------------------------------------------------------
(* After the answer.                                                       *)

(* engine.finish_rag: perhaps a question or a reminder, then the ui.       *)
FinishRag(r, suffix) ==
    /\ At(r, "answered")
    /\ Send(r, IF suffix THEN Token("suffix") ELSE <<>>)
    /\ Goto(r, "ui")
    /\ UNCHANGED <<history, resets>>

SendUi(r, offer) ==
    /\ At(r, "ui")
    /\ offer => ModelFollowups
    /\ Send(r, <<Event("ui", "suffix")>>)
    /\ Goto(r, IF offer THEN "offer" ELSE "closing")
    /\ UNCHANGED <<history, resets>>

(* The model-written follow-up: a question, more chips, or nothing.        *)
FollowUps == {Token("followup") \o <<Event("ui", "followup")>>, <<Event("ui", "followup")>>, <<>>}

FollowUp(r, events) ==
    /\ At(r, "offer")
    /\ Send(r, events)
    /\ Goto(r, "closing")
    /\ UNCHANGED <<history, resets>>

(* session.append_turn, then the sources event.  A reply that needed no    *)
(* retrieval carries the context of the turn before it on.                 *)
Remember(r) ==
    /\ At(r, "closing")
    /\ history' = Append(history,
                         [of |-> r, context |-> IF turn[r].rag THEN turn[r].context ELSE LastContext])
    /\ Send(r, <<Event("sources", "end")>>)
    /\ Goto(r, "ended")
    /\ UNCHANGED resets

----------------------------------------------------------------------------
Over == {"new", "ended", "broken", "gone"}

(* Stop, a closed tab, a lost connection: the generator is cancelled.      *)
Disconnect(r) ==
    /\ turn[r].phase \notin Over
    /\ Goto(r, "gone")
    /\ UNCHANGED <<wire, history, resets>>

(* DELETE /tutor/session/{id}: session.clear.                              *)
Reset ==
    /\ resets < MaxResets
    /\ history' = <<>>
    /\ resets' = resets + 1
    /\ UNCHANGED <<turn, wire>>

Plan(r) == \/ \E realise \in BOOLEAN : PlanReply(r, realise)
           \/ \E continuation \in BOOLEAN : PlanRag(r, continuation)

ModelSteps(r) ==
    \/ \E released, rest \in BOOLEAN, ends \in 0 .. 2 : ModelToken(r, released, ends, rest)
    \/ ModelFails(r) \/ ModelGarbles(r)
    \/ \E truncated \in BOOLEAN : ModelEnds(r, truncated)

(* What the generator of r does when it is resumed.                        *)
Proceed(r) ==
    \/ Realised(r) \/ SendAuthored(r) \/ SendAuthoredUi(r)
    \/ RetrievalFails(r) \/ OffTopic(r)
    \/ \E b \in BOOLEAN : Retrieved(r, b) \/ Lead(r, b) \/ FinishRag(r, b) \/ SendUi(r, b)
    \/ ModelSteps(r)
    \/ \E events \in FollowUps : FollowUp(r, events)
    \/ Remember(r)

Next ==
    \/ \E r \in Requests : Plan(r) \/ Proceed(r) \/ Disconnect(r)
    \/ Reset

(* Every await of the code has a timeout (httpx 120 s, the model calls'    *)
(* own) and the event loop resumes every task, so a generator goes on.     *)
Spec == Init /\ [][Next]_vars /\ \A r \in Requests : WF_vars(Proceed(r))

----------------------------------------------------------------------------
Phases == Over \union {"realising", "authored", "authored_ui", "retrieving", "leading",
                       "model", "answered", "ui", "offer", "closing"}

TypeOK ==
    /\ turn \in [Requests ->
          [phase : Phases, asked : 0 .. MaxResets, rag : BOOLEAN, context : BOOLEAN,
           attempt : Attempts, tokens : 0 .. MaxTokens,
           gate : [held : BOOLEAN, units : Nat, shown : BOOLEAN, full : BOOLEAN]]]
    /\ wire \in [Requests -> Seq(Events)]
    /\ history \in Seq([of : Requests, context : BOOLEAN])
    /\ resets \in 0 .. MaxResets

Kinds(r) == {wire[r][i].event : i \in DOMAIN wire[r]}
Terminal == {"sources", "error"}
Answered(r) == "sources" \in Kinds(r)

(* The stream of a turn the server finished ends in exactly one of sources *)
(* and error, nothing follows it, and an answer's chips and question (ui)  *)
(* come before its sources (chat.py:15-17): on every path through replies, *)
(* retrieval, retries and follow-ups.                                      *)
EndsOnce ==
    \A r \in Requests :
        /\ \A i \in DOMAIN wire[r] : wire[r][i].event \in Terminal => i = Len(wire[r])
        /\ At(r, "ended") => wire[r] # <<>> /\ Last(wire[r]).event \in Terminal
        /\ Answered(r) => "ui" \in Kinds(r)

(* The student never sees the text of two attempts in one answer: the      *)
(* retry is quiet (chat.py:238, 262).                                      *)
OneAttemptShown ==
    \A r \in Requests, i, j \in 1 .. 2 * (MaxTokens + 5) :
        {i, j} \subseteq DOMAIN wire[r] /\ {wire[r][i].from, wire[r][j].from} \subseteq Attempts
            => wire[r][i].from = wire[r][j].from

(* An answer is at most max_units sentences, counting the unfinished one   *)
(* released at its end (shaping.py:27-29).                                 *)
WithinBudget == \A r \in Requests : turn[r].gate.units <= MaxUnits

(* The history of the thread is its answered turns: what failed, broke or  *)
(* was stopped is not in it, nothing is in it twice, and an answered turn  *)
(* is in it as long as the thread has not been reset since it was asked.   *)
HistoryIsAnswered ==
    /\ \A i \in DOMAIN history : Answered(history[i].of)
    /\ \A i, j \in DOMAIN history : history[i].of = history[j].of => i = j
    /\ \A r \in Requests :
          Answered(r) /\ turn[r].asked = resets => \E i \in DOMAIN history : history[i].of = r

(* A turn that was begun ends, whatever the model does.                    *)
TurnEnds == \A r \in Requests : turn[r].phase # "new" ~> turn[r].phase \in Over

(* A turn as its reader sees it: what was sent, whether it is over, what   *)
(* the thread remembers of it.                                             *)
Promised == INSTANCE TurnStream WITH
    MaxEvents <- 2 * (MaxTokens + 5),
    phase     <- [r \in Requests |-> IF turn[r].phase \in Over THEN turn[r].phase ELSE "open"],
    sent      <- [r \in Requests |-> [i \in DOMAIN wire[r] |-> wire[r][i].event]],
    answered  <- [i \in DOMAIN history |-> history[i].of]

(* Replies, retrieval, retries, the gate and follow-ups keep the promise   *)
(* of the route's head (chat.py:7-17): the client can be written against   *)
(* TurnStream (ChatClient is).                                             *)
KeepsPromise == Promised!StreamSpec
=============================================================================
