--------------------------- MODULE ChatTurnProofs ---------------------------
(***************************************************************************)
(* What the turns of a thread keep true, for every number of requests,     *)
(* budget, length of an answer and number of resets, and that they keep    *)
(* the promise TurnStream makes to the client.                             *)
(*                                                                         *)
(* The invariant says of each turn what its wire holds at each phase: the  *)
(* phases up to the lead have sent nothing, nothing terminal is sent       *)
(* before the end, the ui event is out before the turn closes, only the    *)
(* attempt that is shown is on the wire, and the gate has room left while  *)
(* the model speaks.                                                       *)
(***************************************************************************)
EXTENDS ChatTurn, SequenceTheorems, TLAPS

Turns == [phase : Phases, asked : 0 .. MaxResets, rag : BOOLEAN, context : BOOLEAN,
          attempt : Attempts, tokens : 0 .. MaxTokens,
          gate : [held : BOOLEAN, units : Nat, shown : BOOLEAN, full : BOOLEAN]]

Early == {"new", "realising", "authored", "retrieving", "leading"}

(* The kinds of the events of a wire, and the attempts its text is from.   *)
KindsOf(w)    == {w[i].event : i \in DOMAIN w}
AttemptsOf(w) == {w[i].from : i \in DOMAIN w} \intersect Attempts

(* How long the wire of a turn can be.                                     *)
Longest(t) ==
    CASE t.phase \in Early            -> 0
      [] t.phase = "authored_ui"      -> 1
      [] t.phase = "model"            -> IF t.gate.shown THEN 1 + t.tokens ELSE 1
      [] t.phase = "answered"         -> MaxTokens + 2
      [] t.phase = "ui"               -> MaxTokens + 3
      [] t.phase = "offer"            -> MaxTokens + 4
      [] OTHER                        -> MaxTokens + 6

TurnGood(t, w) ==
    /\ t \in Turns
    /\ w \in Seq(Events)
    /\ t.phase # "ended" => KindsOf(w) \intersect Terminal = {}
    /\ t.phase = "ended" =>
          /\ w # <<>>
          /\ w[Len(w)].event \in Terminal
          /\ \A i \in 1 .. Len(w) - 1 : w[i].event \notin Terminal
    /\ t.phase \in {"offer", "closing"} \/ "sources" \in KindsOf(w) => "ui" \in KindsOf(w)
    /\ AttemptsOf(w) \subseteq {t.attempt}
    /\ ~t.gate.shown => AttemptsOf(w) = {}
    /\ t.gate.units <= MaxUnits
    /\ t.phase \in Early \union {"model"} => t.gate.units < MaxUnits /\ ~t.gate.full
    /\ t.phase # "ended" => Len(w) <= Longest(t)

HistoryGood ==
    /\ history \in Seq([of : Requests, context : BOOLEAN])
    /\ resets \in 0 .. MaxResets
    /\ \A r \in Requests : turn[r].asked <= resets
    /\ HistoryIsAnswered

IInv ==
    /\ turn \in [Requests -> Turns]
    /\ wire \in [Requests -> Seq(Events)]
    /\ \A r \in Requests : TurnGood(turn[r], wire[r])
    /\ HistoryGood

----------------------------------------------------------------------------
(* Sequences of events.                                                    *)

LEMMA AppendedEvents ==
    ASSUME NEW w \in Seq(Events), NEW e \in Events
    PROVE  /\ w \o <<e>> = Append(w, e)
           /\ Append(w, e) \in Seq(Events)
           /\ Len(Append(w, e)) = Len(w) + 1
           /\ KindsOf(Append(w, e)) = KindsOf(w) \union {e.event}
           /\ AttemptsOf(Append(w, e)) = AttemptsOf(w) \union ({e.from} \intersect Attempts)
  <1> DEFINE v == Append(w, e)
  <1>1. /\ w \o <<e>> = v /\ v \in Seq(Events) /\ Len(v) = Len(w) + 1
        /\ \A i \in 1 .. Len(w) : v[i] = w[i]
        /\ v[Len(w) + 1] = e
    BY AppendProperties, AppendIsConcat
  <1>2. DOMAIN w = 1 .. Len(w) /\ DOMAIN v = 1 .. (Len(w) + 1) /\ Len(w) \in Nat
    BY <1>1, LenProperties
  <1> HIDE DEF v
  <1>3. KindsOf(v) = KindsOf(w) \union {e.event}
    BY <1>1, <1>2 DEF KindsOf
  <1>4. {v[i].from : i \in DOMAIN v} = {w[i].from : i \in DOMAIN w} \union {e.from}
    BY <1>1, <1>2
  <1>5. AttemptsOf(v) = AttemptsOf(w) \union ({e.from} \intersect Attempts)
    BY <1>4 DEF AttemptsOf
  <1> QED
    BY <1>1, <1>3, <1>5 DEF v

LEMMA TwoEvents ==
    ASSUME NEW w \in Seq(Events), NEW a \in Events, NEW b \in Events
    PROVE  w \o (<<a>> \o <<b>>) = (w \o <<a>>) \o <<b>>
  <1> DEFINE x == <<a>>
             y == <<b>>
  <1>1. x \in Seq(Events) /\ y \in Seq(Events)
    OBVIOUS
  <1> HIDE DEF x, y
  <1>2. w \o (x \o y) = (w \o x) \o y
    BY <1>1, ConcatAssociative
  <1> QED
    BY <1>2 DEF x, y

LEMMA EmptyWire ==
    /\ <<>> \in Seq(Events) /\ Len(<<>>) = 0
    /\ KindsOf(<<>>) = {} /\ AttemptsOf(<<>>) = {}
  BY EmptySeq DEF KindsOf, AttemptsOf

LEMMA NoEvents ==
    ASSUME NEW w \in Seq(Events)
    PROVE  w \o <<>> = w
  BY ConcatEmptySeq

LEMMA EventType ==
    ASSUME NEW kind \in {"token", "ui", "sources", "error"}, NEW from \in Sources
    PROVE  /\ Event(kind, from) \in Events
           /\ Event(kind, from).event = kind /\ Event(kind, from).from = from
  BY DEF Event, Events

LEMMA AnsweredKinds ==
    ASSUME NEW r \in Requests
    PROVE  Answered(r) <=> "sources" \in KindsOf(wire[r])
  BY DEF Answered, Kinds, KindsOf

LEMMA HistoryTurns == IInv => \A i \in DOMAIN history : history[i].of \in Requests
  <1> DEFINE R == [of : Requests, context : BOOLEAN]
  <1> SUFFICES ASSUME history \in Seq(R), NEW i \in DOMAIN history
               PROVE  history[i].of \in Requests
    BY DEF IInv, HistoryGood
  <1>1. history[i] \in R
    <2> HIDE DEF R
    <2> QED
      BY ElementOfSeq, LenProperties
  <1> QED
    BY <1>1

----------------------------------------------------------------------------
(* A step of one turn that does not end in an answer leaves the history as *)
(* it is.                                                                  *)
LEMMA TurnMoves ==
    ASSUME IInv, NEW r \in Requests, NEW t, NEW w,
           turn' = [turn EXCEPT ![r] = t], wire' = [wire EXCEPT ![r] = w],
           TurnGood(t, w), UNCHANGED <<history, resets>>,
           t.asked \in {turn[r].asked, resets},
           "sources" \notin KindsOf(wire[r]), "sources" \notin KindsOf(w)
    PROVE  IInv'
  <1>1. /\ turn' \in [Requests -> Turns]
        /\ wire' \in [Requests -> Seq(Events)]
        /\ turn'[r] = t /\ wire'[r] = w
        /\ \A q \in Requests : q # r => turn'[q] = turn[q] /\ wire'[q] = wire[q]
    BY DEF IInv, TurnGood
  <1>2. \A q \in Requests : TurnGood(turn[q], wire[q])'
    BY <1>1 DEF IInv, TurnGood, Longest
  <1>3. \A q \in Requests : Answered(q)' <=> Answered(q)
    BY <1>1, AnsweredKinds DEF Answered, Kinds, KindsOf
  <1>4. \A q \in Requests : Answered(q) => turn'[q].asked = turn[q].asked
    BY <1>1, AnsweredKinds
  <1>5. \A q \in Requests : turn'[q].asked <= resets
    <2>1. resets \in Nat /\ t.asked \in Nat
      BY ChatAssumption DEF IInv, HistoryGood, TurnGood, Turns
    <2> QED
      BY <1>1, <2>1 DEF IInv, HistoryGood
  <1>6. \A i \in DOMAIN history : history[i].of \in Requests
    BY HistoryTurns
  <1>7. HistoryIsAnswered'
    BY <1>3, <1>4, <1>6 DEF IInv, HistoryGood, HistoryIsAnswered
  <1> QED
    BY <1>1, <1>2, <1>5, <1>7 DEF IInv, HistoryGood

(* What a turn that is not over has sent.                                  *)
LEMMA NotAnsweredYet ==
    ASSUME IInv, NEW r \in Requests, turn[r].phase # "ended"
    PROVE  /\ TurnGood(turn[r], wire[r])
           /\ turn[r] \in Turns /\ wire[r] \in Seq(Events) /\ Len(wire[r]) \in Nat
           /\ "sources" \notin KindsOf(wire[r])
           /\ "error" \notin KindsOf(wire[r])
  BY LenProperties DEF IInv, TurnGood, Terminal

LEMMA LongestFacts ==
    ASSUME NEW t \in Turns
    PROVE  /\ t.phase \in Early => Longest(t) = 0
           /\ t.phase = "authored_ui" => Longest(t) = 1
           /\ t.phase = "model" => Longest(t) = IF t.gate.shown THEN 1 + t.tokens ELSE 1
           /\ t.phase = "answered" => Longest(t) = MaxTokens + 2
           /\ t.phase = "ui" => Longest(t) = MaxTokens + 3
           /\ t.phase = "offer" => Longest(t) = MaxTokens + 4
           /\ t.phase \in {"closing", "gone", "broken"} => Longest(t) = MaxTokens + 6
           /\ t.tokens \in 0 .. MaxTokens /\ MaxTokens \in Nat
           /\ MaxUnits \in Nat \ {0} /\ t.gate.units \in Nat
  BY ChatAssumption DEF Turns, Longest, Early

(* A turn that has sent nothing.                                           *)
LEMMA SilentTurn ==
    ASSUME NEW t, NEW w, TurnGood(t, w), t.phase \in Early
    PROVE  w = <<>>
  BY EmptySeq, LenProperties DEF TurnGood, Early, Longest

LEMMA SendsNothing ==
    ASSUME IInv, NEW r \in Requests, UNCHANGED wire \/ Send(r, <<>>)
    PROVE  wire' = [wire EXCEPT ![r] = wire[r]]
  BY NoEvents DEF IInv, Send

LEMMA SendsOne ==
    ASSUME IInv, NEW r \in Requests, NEW e \in Events, Send(r, <<e>>)
    PROVE  wire' = [wire EXCEPT ![r] = Append(wire[r], e)]
  BY AppendedEvents DEF IInv, Send

----------------------------------------------------------------------------
(* The phases up to the lead send nothing.                                 *)
LEMMA EarlyStep ==
    ASSUME IInv, NEW r \in Requests, turn[r].phase \in Early, UNCHANGED wire,
           NEW t \in Turns, turn' = [turn EXCEPT ![r] = t], UNCHANGED <<history, resets>>,
           t.phase \in Early \union {"gone"}, t.asked \in {turn[r].asked, resets},
           t.gate = turn[r].gate
    PROVE  IInv'
  <1>1. wire[r] = <<>> /\ wire[r] \in Seq(Events)
    BY SilentTurn, NotAnsweredYet DEF Early
  <1>2. KindsOf(wire[r]) = {} /\ AttemptsOf(wire[r]) = {} /\ Len(wire[r]) = 0
    BY <1>1, EmptyWire
  <1>3. t.gate.units <= MaxUnits /\ t.gate.units < MaxUnits /\ ~t.gate.full
    BY DEF IInv, TurnGood
  <1>4. 0 <= Longest(t)
    BY ChatAssumption DEF Longest, Early
  <1>5. TurnGood(t, wire[r])
    BY <1>1, <1>2, <1>3, <1>4 DEF TurnGood, Early
  <1> QED
    BY <1>2, <1>5, TurnMoves, SendsNothing

LEMMA PlanKeeps ==
    ASSUME IInv, NEW r \in Requests, Plan(r)
    PROVE  IInv'
  <1>0. resets \in 0 .. MaxResets /\ turn[r] \in Turns
    BY DEF IInv, HistoryGood
  <1>1. ASSUME NEW realise \in BOOLEAN, PlanReply(r, realise)
        PROVE  IInv'
    <2> DEFINE t == [turn[r] EXCEPT !.phase = IF realise THEN "realising" ELSE "authored", !.asked = resets]
    <2>1. turn' = [turn EXCEPT ![r] = t]
      BY <1>1 DEF PlanReply, IInv
    <2>2. /\ t \in Turns /\ t.phase \in Early /\ t.asked = resets /\ t.gate = turn[r].gate
          /\ turn[r].phase \in Early
      BY <1>0, <1>1 DEF Turns, Phases, Early, PlanReply, At
    <2> HIDE DEF t
    <2> QED
      BY <1>1, <2>1, <2>2, EarlyStep DEF PlanReply
  <1>2. ASSUME NEW continuation \in BOOLEAN, PlanRag(r, continuation)
        PROVE  IInv'
    <2> DEFINE reuse == continuation /\ LastContext
               t == [turn[r] EXCEPT !.phase = IF reuse THEN "leading" ELSE "retrieving",
                                    !.asked = resets, !.rag = TRUE, !.context = reuse]
    <2>1. turn' = [turn EXCEPT ![r] = t]
      BY <1>2 DEF PlanRag, IInv
    <2>2. reuse \in BOOLEAN
      OBVIOUS
    <2>3. /\ t \in Turns /\ t.phase \in Early /\ t.asked = resets /\ t.gate = turn[r].gate
          /\ turn[r].phase \in Early
      <3> HIDE DEF reuse
      <3> QED
        BY <1>0, <1>2, <2>2 DEF Turns, Phases, Early, PlanRag, At
    <2> HIDE DEF t
    <2> QED
      BY <1>2, <2>1, <2>3, EarlyStep DEF PlanRag
  <1> QED
    BY <1>1, <1>2 DEF Plan

LEMMA BeforeLeadKeeps ==
    ASSUME IInv, NEW r \in Requests,
           Realised(r) \/ OffTopic(r) \/ \E found \in BOOLEAN : Retrieved(r, found)
    PROVE  IInv'
  <1>0. turn[r] \in Turns
    BY DEF IInv
  <1>1. CASE Realised(r)
    <2> DEFINE t == [turn[r] EXCEPT !.phase = "authored"]
    <2>1. turn' = [turn EXCEPT ![r] = t]
      BY <1>1 DEF Realised, Goto, IInv
    <2>2. /\ t \in Turns /\ t.phase \in Early /\ t.asked = turn[r].asked /\ t.gate = turn[r].gate
          /\ turn[r].phase \in Early
      BY <1>0, <1>1 DEF Turns, Phases, Early, Realised, At
    <2> HIDE DEF t
    <2> QED
      BY <1>1, <2>1, <2>2, EarlyStep DEF Realised
  <1>2. CASE OffTopic(r)
    <2> DEFINE t == [turn[r] EXCEPT !.phase = "authored", !.rag = FALSE]
    <2>1. turn' = [turn EXCEPT ![r] = t]
      BY <1>2 DEF OffTopic, IInv
    <2>2. /\ t \in Turns /\ t.phase \in Early /\ t.asked = turn[r].asked /\ t.gate = turn[r].gate
          /\ turn[r].phase \in Early
      BY <1>0, <1>2 DEF Turns, Phases, Early, OffTopic, At
    <2> HIDE DEF t
    <2> QED
      BY <1>2, <2>1, <2>2, EarlyStep DEF OffTopic
  <1>3. ASSUME NEW found \in BOOLEAN, Retrieved(r, found)
        PROVE  IInv'
    <2> DEFINE t == [turn[r] EXCEPT !.phase = "leading", !.context = found]
    <2>1. turn' = [turn EXCEPT ![r] = t]
      BY <1>3 DEF Retrieved, IInv
    <2>2. /\ t \in Turns /\ t.phase \in Early /\ t.asked = turn[r].asked /\ t.gate = turn[r].gate
          /\ turn[r].phase \in Early
      BY <1>0, <1>3 DEF Turns, Phases, Early, Retrieved, At
    <2> HIDE DEF t
    <2> QED
      BY <1>3, <2>1, <2>2, EarlyStep DEF Retrieved
  <1> QED
    BY <1>1, <1>2, <1>3

----------------------------------------------------------------------------
(* A turn that goes on after sending at most one event that ends nothing.  *)
LEMMA SendsAndGoesOn ==
    ASSUME IInv, NEW r \in Requests, turn[r].phase # "ended",
           NEW e \in Events, e.event \notin Terminal,
           NEW says \in BOOLEAN, Send(r, IF says THEN <<e>> ELSE <<>>),
           NEW t \in Turns, turn' = [turn EXCEPT ![r] = t], UNCHANGED <<history, resets>>,
           t.phase # "ended", t.asked = turn[r].asked, t.attempt = turn[r].attempt,
           turn[r].gate.shown => t.gate.shown,
           says /\ e.from \in Attempts => e.from = t.attempt /\ t.gate.shown,
           t.gate.units <= MaxUnits, t.phase \in Early \union {"model"} => t.gate.units < MaxUnits /\ ~t.gate.full,
           t.phase \in {"offer", "closing"} =>
               "ui" \in KindsOf(wire[r]) \/ (says /\ e.event = "ui"),
           Len(wire[r]) + (IF says THEN 1 ELSE 0) <= Longest(t)
    PROVE  IInv'
  <1>1. /\ TurnGood(turn[r], wire[r]) /\ wire[r] \in Seq(Events)
        /\ "sources" \notin KindsOf(wire[r]) /\ "error" \notin KindsOf(wire[r])
        /\ AttemptsOf(wire[r]) \subseteq {turn[r].attempt}
        /\ ~turn[r].gate.shown => AttemptsOf(wire[r]) = {}
    BY NotAnsweredYet DEF TurnGood
  <1>2. CASE says
    <2> DEFINE w == Append(wire[r], e)
    <2>1. wire' = [wire EXCEPT ![r] = w]
      BY <1>2, SendsOne
    <2>2. /\ w \in Seq(Events) /\ Len(w) = Len(wire[r]) + 1
          /\ KindsOf(w) = KindsOf(wire[r]) \union {e.event}
          /\ AttemptsOf(w) = AttemptsOf(wire[r]) \union ({e.from} \intersect Attempts)
      BY <1>1, AppendedEvents
    <2> HIDE DEF w
    <2>3. "sources" \notin KindsOf(w) /\ KindsOf(w) \intersect Terminal = {}
      BY <1>1, <2>2 DEF Terminal
    <2>4. AttemptsOf(w) \subseteq {t.attempt} /\ (~t.gate.shown => AttemptsOf(w) = {})
      BY <1>1, <1>2, <2>2
    <2>5. TurnGood(t, w)
      BY <1>2, <2>2, <2>3, <2>4 DEF TurnGood
    <2> QED
      BY <1>1, <2>1, <2>3, <2>5, TurnMoves
  <1>3. CASE ~says
    <2>1. wire' = [wire EXCEPT ![r] = wire[r]]
      BY <1>3, SendsNothing
    <2>2. TurnGood(t, wire[r])
      BY <1>1, <1>3, LenProperties DEF TurnGood, Terminal
    <2> QED
      BY <1>1, <2>1, <2>2, TurnMoves
  <1> QED
    BY <1>2, <1>3

(* An error or the sources close a stream that has not ended before.       *)
LEMMA ClosingEvent ==
    ASSUME NEW w \in Seq(Events), NEW e \in Events, e.event \in Terminal,
           KindsOf(w) \intersect Terminal = {}
    PROVE  LET v == Append(w, e)
           IN  /\ v # <<>>
               /\ v[Len(v)].event \in Terminal
               /\ \A i \in 1 .. Len(v) - 1 : v[i].event \notin Terminal
  <1> DEFINE v == Append(w, e)
  <1>1. /\ v # <<>> /\ Len(v) = Len(w) + 1 /\ v[Len(w) + 1] = e
        /\ \A i \in 1 .. Len(w) : v[i] = w[i]
        /\ DOMAIN w = 1 .. Len(w) /\ Len(w) \in Nat
    BY AppendProperties, LenProperties
  <1> HIDE DEF v
  <1>2. Len(v) - 1 = Len(w)
    BY <1>1
  <1> QED
    BY <1>1, <1>2 DEF KindsOf, v

LEMMA FailKeeps ==
    ASSUME IInv, NEW r \in Requests, turn[r].phase # "ended", Fail(r), UNCHANGED <<history, resets>>
    PROVE  IInv'
  <1> DEFINE t == [turn[r] EXCEPT !.phase = "ended"]
             e == Event("error", "end")
             w == Append(wire[r], e)
  <1>1. /\ TurnGood(turn[r], wire[r]) /\ turn[r] \in Turns /\ wire[r] \in Seq(Events)
        /\ "sources" \notin KindsOf(wire[r]) /\ KindsOf(wire[r]) \intersect Terminal = {}
    BY NotAnsweredYet DEF TurnGood
  <1>2. e \in Events /\ e.event = "error" /\ e.from = "end" /\ e.event \in Terminal
    BY EventType DEF Sources, Terminal
  <1>3. wire' = [wire EXCEPT ![r] = w] /\ turn' = [turn EXCEPT ![r] = t]
    BY <1>2, SendsOne DEF Fail, Goto, IInv
  <1>4. /\ t \in Turns /\ t.phase = "ended" /\ t.asked = turn[r].asked /\ t.attempt = turn[r].attempt
        /\ t.gate = turn[r].gate
    BY <1>1 DEF Turns, Phases, Over
  <1>5. /\ w \in Seq(Events) /\ KindsOf(w) = KindsOf(wire[r]) \union {"error"}
        /\ AttemptsOf(w) = AttemptsOf(wire[r])
    BY <1>1, <1>2, AppendedEvents DEF Attempts
  <1>6. /\ w # <<>> /\ w[Len(w)].event \in Terminal
        /\ \A i \in 1 .. Len(w) - 1 : w[i].event \notin Terminal
    BY <1>1, <1>2, ClosingEvent
  <1> HIDE DEF t, w, e
  <1>7. TurnGood(t, w)
    BY <1>1, <1>4, <1>5, <1>6 DEF TurnGood, Early
  <1> QED
    BY <1>1, <1>3, <1>4, <1>5, <1>7, TurnMoves

----------------------------------------------------------------------------
(* Authored text, the lead, and what follows the answer.                   *)

LEMMA SendAuthoredKeeps ==
    ASSUME IInv, NEW r \in Requests, SendAuthored(r)
    PROVE  IInv'
  <1> DEFINE t == [turn[r] EXCEPT !.phase = "authored_ui"]
             e == Event("token", "authored")
  <1>1. /\ TurnGood(turn[r], wire[r]) /\ turn[r] \in Turns
        /\ Len(wire[r]) \in Nat /\ Len(wire[r]) <= Longest(turn[r])
    BY NotAnsweredYet DEF TurnGood, SendAuthored, At
  <1>2. e \in Events /\ e.event = "token" /\ e.from = "authored" /\ e.event \notin Terminal
    BY EventType DEF Sources, Terminal
  <1>3. turn' = [turn EXCEPT ![r] = t] /\ Send(r, IF TRUE THEN <<e>> ELSE <<>>)
    BY DEF SendAuthored, Goto, IInv, Token
  <1>4. /\ t \in Turns /\ t.phase = "authored_ui" /\ t.asked = turn[r].asked
        /\ t.attempt = turn[r].attempt /\ t.gate = turn[r].gate
    BY <1>1 DEF Turns, Phases, Over
  <1> HIDE DEF t, e
  <1>5. Len(wire[r]) + (IF TRUE THEN 1 ELSE 0) <= Longest(t)
    BY <1>1, <1>4, LongestFacts DEF SendAuthored, At, Early
  <1> QED
    BY <1>1, <1>2, <1>3, <1>4, <1>5, SendsAndGoesOn DEF SendAuthored, At, TurnGood, Early, Attempts

LEMMA SendAuthoredUiKeeps ==
    ASSUME IInv, NEW r \in Requests, SendAuthoredUi(r)
    PROVE  IInv'
  <1> DEFINE t == [turn[r] EXCEPT !.phase = "closing"]
             e == Event("ui", "authored")
  <1>1. /\ TurnGood(turn[r], wire[r]) /\ turn[r] \in Turns
        /\ Len(wire[r]) \in Nat /\ Len(wire[r]) <= Longest(turn[r])
    BY NotAnsweredYet DEF TurnGood, SendAuthoredUi, At
  <1>2. e \in Events /\ e.event = "ui" /\ e.from = "authored" /\ e.event \notin Terminal
    BY EventType DEF Sources, Terminal
  <1>3. turn' = [turn EXCEPT ![r] = t] /\ Send(r, IF TRUE THEN <<e>> ELSE <<>>)
    BY DEF SendAuthoredUi, Goto, IInv
  <1>4. /\ t \in Turns /\ t.phase = "closing" /\ t.asked = turn[r].asked
        /\ t.attempt = turn[r].attempt /\ t.gate = turn[r].gate
    BY <1>1 DEF Turns, Phases, Over
  <1> HIDE DEF t, e
  <1>5. Len(wire[r]) + (IF TRUE THEN 1 ELSE 0) <= Longest(t)
    BY <1>1, <1>4, LongestFacts DEF SendAuthoredUi, At, Early
  <1> QED
    BY <1>1, <1>2, <1>3, <1>4, <1>5, SendsAndGoesOn DEF SendAuthoredUi, At, TurnGood, Early, Attempts

LEMMA LeadKeeps ==
    ASSUME IInv, NEW r \in Requests, NEW lead \in BOOLEAN, Lead(r, lead)
    PROVE  IInv'
  <1> DEFINE t == [turn[r] EXCEPT !.phase = "model"]
             e == Event("token", "lead")
  <1>1. /\ TurnGood(turn[r], wire[r]) /\ turn[r] \in Turns
        /\ Len(wire[r]) \in Nat /\ Len(wire[r]) <= Longest(turn[r])
    BY NotAnsweredYet DEF TurnGood, Lead, At
  <1>2. e \in Events /\ e.event = "token" /\ e.from = "lead" /\ e.event \notin Terminal
    BY EventType DEF Sources, Terminal
  <1>3. turn' = [turn EXCEPT ![r] = t] /\ Send(r, IF lead THEN <<e>> ELSE <<>>)
    BY DEF Lead, Goto, IInv, Token
  <1>4. /\ t \in Turns /\ t.phase = "model" /\ t.asked = turn[r].asked
        /\ t.attempt = turn[r].attempt /\ t.gate = turn[r].gate
    BY <1>1 DEF Turns, Phases, Over
  <1> HIDE DEF t, e
  <1>5. Len(wire[r]) + (IF lead THEN 1 ELSE 0) <= Longest(t)
    <2>1. PICK n \in 0 .. 1 : n = IF lead THEN 1 ELSE 0
      OBVIOUS
    <2>2. Longest(turn[r]) + 1 <= Longest(t) /\ Longest(turn[r]) \in Nat /\ Longest(t) \in Nat
      BY <1>1, <1>4, LongestFacts DEF Lead, At, Early
    <2>3. Len(wire[r]) + n <= Longest(t)
      BY <1>1, <2>2
    <2> QED
      BY <2>1, <2>3
  <1> QED
    BY <1>1, <1>2, <1>3, <1>4, <1>5, SendsAndGoesOn DEF Lead, At, TurnGood, Early, Attempts

LEMMA FinishRagKeeps ==
    ASSUME IInv, NEW r \in Requests, NEW suffix \in BOOLEAN, FinishRag(r, suffix)
    PROVE  IInv'
  <1> DEFINE t == [turn[r] EXCEPT !.phase = "ui"]
             e == Event("token", "suffix")
  <1>1. /\ TurnGood(turn[r], wire[r]) /\ turn[r] \in Turns
        /\ Len(wire[r]) \in Nat /\ Len(wire[r]) <= Longest(turn[r])
    BY NotAnsweredYet DEF TurnGood, FinishRag, At
  <1>2. e \in Events /\ e.event = "token" /\ e.from = "suffix" /\ e.event \notin Terminal
    BY EventType DEF Sources, Terminal
  <1>3. turn' = [turn EXCEPT ![r] = t] /\ Send(r, IF suffix THEN <<e>> ELSE <<>>)
    BY DEF FinishRag, Goto, IInv, Token
  <1>4. /\ t \in Turns /\ t.phase = "ui" /\ t.asked = turn[r].asked
        /\ t.attempt = turn[r].attempt /\ t.gate = turn[r].gate
    BY <1>1 DEF Turns, Phases, Over
  <1> HIDE DEF t, e
  <1>5. Len(wire[r]) + (IF suffix THEN 1 ELSE 0) <= Longest(t)
    <2>1. PICK n \in 0 .. 1 : n = IF suffix THEN 1 ELSE 0
      OBVIOUS
    <2>2. Longest(turn[r]) + 1 <= Longest(t) /\ Longest(turn[r]) \in Nat /\ Longest(t) \in Nat
      BY <1>1, <1>4, LongestFacts DEF FinishRag, At, Early
    <2>3. Len(wire[r]) + n <= Longest(t)
      BY <1>1, <2>2
    <2> QED
      BY <2>1, <2>3
  <1> QED
    BY <1>1, <1>2, <1>3, <1>4, <1>5, SendsAndGoesOn DEF FinishRag, At, TurnGood, Early, Attempts

LEMMA SendUiKeeps ==
    ASSUME IInv, NEW r \in Requests, NEW offer \in BOOLEAN, SendUi(r, offer)
    PROVE  IInv'
  <1> DEFINE t == [turn[r] EXCEPT !.phase = IF offer THEN "offer" ELSE "closing"]
             e == Event("ui", "suffix")
  <1>1. /\ TurnGood(turn[r], wire[r]) /\ turn[r] \in Turns
        /\ Len(wire[r]) \in Nat /\ Len(wire[r]) <= Longest(turn[r])
    BY NotAnsweredYet DEF TurnGood, SendUi, At
  <1>2. e \in Events /\ e.event = "ui" /\ e.from = "suffix" /\ e.event \notin Terminal
    BY EventType DEF Sources, Terminal
  <1>3. turn' = [turn EXCEPT ![r] = t] /\ Send(r, IF TRUE THEN <<e>> ELSE <<>>)
    BY DEF SendUi, Goto, IInv
  <1>4. /\ t \in Turns /\ t.phase = (IF offer THEN "offer" ELSE "closing") /\ t.asked = turn[r].asked
        /\ t.attempt = turn[r].attempt /\ t.gate = turn[r].gate
    BY <1>1 DEF Turns, Phases, Over
  <1> HIDE DEF t, e
  <1>5. Len(wire[r]) + (IF TRUE THEN 1 ELSE 0) <= Longest(t)
    BY <1>1, <1>4, LongestFacts DEF SendUi, At, Early
  <1> QED
    BY <1>1, <1>2, <1>3, <1>4, <1>5, SendsAndGoesOn DEF SendUi, At, TurnGood, Early, Attempts

----------------------------------------------------------------------------
(* The model.                                                              *)

Gates == [held : BOOLEAN, units : Nat, shown : BOOLEAN, full : BOOLEAN]

(* What a token does to a gate with room: it never takes more than the     *)
(* budget, it closes as soon as the budget is spent, and it has shown      *)
(* something if it has let anything through.                               *)
LEMMA FeedFacts ==
    ASSUME NEW gate \in Gates, gate.units < MaxUnits, ~gate.full,
           NEW released \in BOOLEAN, NEW ends \in 0 .. 2, NEW rest \in BOOLEAN
    PROVE  LET fed == Feed(gate, released, ends, rest)
           IN  /\ fed \in Gates
               /\ fed.units <= MaxUnits
               /\ ~fed.full => fed.units < MaxUnits
               /\ gate.shown \/ released => fed.shown
               /\ ~released => fed.shown = gate.shown
  <1> DEFINE fed == Feed(gate, released, ends, rest)
  <1>1. CASE ~released
    <2>1. fed = [gate EXCEPT !.held = TRUE]
      BY <1>1, Zenon DEF Feed
    <2>2. fed \in Gates
      BY <2>1 DEF Gates
    <2>3. fed.units = gate.units /\ fed.shown = gate.shown /\ fed.full = gate.full
      BY <2>1 DEF Gates
    <2>4. gate.units <= MaxUnits
      BY ChatAssumption DEF Gates
    <2> HIDE DEF fed
    <2> QED
      BY <1>1, <2>2, <2>3, <2>4 DEF fed
  <1>2. CASE released /\ ends < MaxUnits - gate.units
    <2>1. fed = [gate EXCEPT !.held = rest, !.shown = TRUE, !.units = @ + ends]
      BY <1>2, Zenon DEF Feed
    <2>2. gate.units + ends \in Nat /\ gate.units + ends < MaxUnits /\ gate.units + ends <= MaxUnits
      BY <1>2, ChatAssumption DEF Gates
    <2> DEFINE n == gate.units + ends
    <2>3. fed = [gate EXCEPT !.held = rest, !.shown = TRUE, !.units = n]
      BY <2>1
    <2> HIDE DEF fed, n
    <2>4. fed \in Gates /\ fed.units = n /\ fed.shown = TRUE
      BY <2>2, <2>3 DEF Gates, n
    <2> QED
      BY <1>2, <2>2, <2>4 DEF fed, n
  <1>3. CASE released /\ ~(ends < MaxUnits - gate.units)
    <2>1. fed = [held |-> FALSE, units |-> MaxUnits, shown |-> TRUE, full |-> TRUE]
      BY <1>3, Zenon DEF Feed
    <2>2. MaxUnits \in Nat /\ MaxUnits <= MaxUnits
      BY ChatAssumption
    <2> HIDE DEF fed
    <2>3. fed \in Gates /\ fed.units = MaxUnits /\ fed.shown = TRUE /\ fed.full = TRUE
      BY <2>1, <2>2 DEF Gates
    <2> QED
      BY <1>3, <2>2, <2>3 DEF fed
  <1> QED
    BY <1>1, <1>2, <1>3

LEMMA ModelTokenKeeps ==
    ASSUME IInv, NEW r \in Requests, NEW released \in BOOLEAN, NEW ends \in 0 .. 2,
           NEW rest \in BOOLEAN, ModelToken(r, released, ends, rest)
    PROVE  IInv'
  <1> DEFINE gate == Feed(turn[r].gate, released, ends, rest)
             t == [turn[r] EXCEPT !.gate = gate, !.tokens = @ + 1,
                                  !.phase = IF gate.full THEN "answered" ELSE "model"]
             e == Event("token", turn[r].attempt)
  <1>1. /\ turn[r].phase = "model" /\ turn[r].tokens < MaxTokens
        /\ TurnGood(turn[r], wire[r]) /\ turn[r] \in Turns
        /\ Len(wire[r]) \in Nat /\ Len(wire[r]) <= Longest(turn[r])
        /\ turn[r].gate \in Gates /\ turn[r].gate.units < MaxUnits /\ ~turn[r].gate.full
        /\ turn[r].attempt \in Attempts
    BY NotAnsweredYet DEF TurnGood, ModelToken, At, Turns, Gates
  <1>2. e \in Events /\ e.event = "token" /\ e.from = turn[r].attempt /\ e.event \notin Terminal
    BY <1>1, EventType DEF Sources, Terminal
  <1>3. turn' = [turn EXCEPT ![r] = t] /\ Send(r, IF released THEN <<e>> ELSE <<>>)
    BY DEF ModelToken, IInv, Token
  <1>4. /\ gate \in Gates /\ gate.units <= MaxUnits
        /\ ~gate.full => gate.units < MaxUnits
        /\ turn[r].gate.shown \/ released => gate.shown
        /\ ~released => gate.shown = turn[r].gate.shown
    BY <1>1, FeedFacts
  <1> HIDE DEF gate
  <1>5. /\ t \in Turns /\ t.phase = (IF gate.full THEN "answered" ELSE "model")
        /\ t.asked = turn[r].asked /\ t.attempt = turn[r].attempt /\ t.gate = gate
        /\ t.tokens = turn[r].tokens + 1
    <2> DEFINE n == turn[r].tokens + 1
               phase == IF gate.full THEN "answered" ELSE "model"
    <2>1. n \in 0 .. MaxTokens
      BY <1>1, ChatAssumption DEF Turns
    <2>2. phase \in Phases
      BY DEF Phases
    <2>3. t = [turn[r] EXCEPT !.gate = gate, !.tokens = n, !.phase = phase]
      BY <1>1 DEF Turns
    <2> HIDE DEF t, n, phase
    <2>4. /\ t \in Turns /\ t.phase = phase /\ t.asked = turn[r].asked
          /\ t.attempt = turn[r].attempt /\ t.gate = gate /\ t.tokens = n
      BY <1>1, <1>4, <2>1, <2>2, <2>3 DEF Turns, Gates
    <2> QED
      BY <2>4 DEF n, phase
  <1> HIDE DEF t, e
  <1>6. Len(wire[r]) + (IF released THEN 1 ELSE 0) <= Longest(t)
    <2>1. PICK n \in 0 .. 1 : n = IF released THEN 1 ELSE 0
      OBVIOUS
    <2>2. Longest(turn[r]) + n <= Longest(t) /\ Longest(turn[r]) \in Nat /\ Longest(t) \in Nat
      <3> DEFINE k == turn[r].tokens
                 before == Longest(turn[r])
                 after == Longest(t)
      <3>1. before = IF turn[r].gate.shown THEN 1 + k ELSE 1
        BY <1>1, LongestFacts
      <3>2. CASE gate.full
        <4>1. after = MaxTokens + 2
          BY <1>5, <3>2, LongestFacts
        <4>2. k \in 0 .. MaxTokens /\ MaxTokens \in Nat
          BY <1>1, LongestFacts
        <4> HIDE DEF before, after, k
        <4> QED
          BY <2>1, <3>1, <4>1, <4>2 DEF before, after
      <3>3. CASE ~gate.full
        <4>1. after = IF gate.shown THEN 1 + (k + 1) ELSE 1
          BY <1>5, <3>3, LongestFacts
        <4>2. k \in Nat
          BY <1>1, LongestFacts
        <4>3. /\ turn[r].gate.shown => gate.shown
              /\ n = 1 => gate.shown
              /\ gate.shown => turn[r].gate.shown \/ n = 1
          BY <1>4, <2>1
        <4> HIDE DEF before, after, k
        <4> QED
          BY <2>1, <3>1, <4>1, <4>2, <4>3 DEF before, after
      <3> QED
        BY <3>2, <3>3
    <2>3. Len(wire[r]) + n <= Longest(t)
      BY <1>1, <2>2
    <2> QED
      BY <2>1, <2>3
  <1>7. t.phase \in Early \union {"model"} => t.gate.units < MaxUnits /\ ~t.gate.full
    BY <1>1, <1>4, <1>5 DEF Early
  <1>8. turn[r].phase # "ended" /\ t.phase # "ended" /\ t.phase \notin {"offer", "closing"}
    BY <1>1, <1>5
  <1>9. /\ turn[r].gate.shown => t.gate.shown
        /\ released /\ e.from \in Attempts => e.from = t.attempt /\ t.gate.shown
        /\ t.gate.units <= MaxUnits
    BY <1>2, <1>4, <1>5
  <1>10. UNCHANGED <<history, resets>>
    BY DEF ModelToken
  <1> QED
    BY <1>2, <1>3, <1>5, <1>6, <1>7, <1>8, <1>9, <1>10, SendsAndGoesOn

(* The retry is made only when nothing of the first attempt is on the wire. *)
LEMMA ModelFailsKeeps ==
    ASSUME IInv, NEW r \in Requests, ModelFails(r)
    PROVE  IInv'
  <1>1. /\ turn[r].phase = "model" /\ UNCHANGED <<history, resets>>
        /\ TurnGood(turn[r], wire[r]) /\ turn[r] \in Turns /\ wire[r] \in Seq(Events)
        /\ "sources" \notin KindsOf(wire[r])
        /\ Len(wire[r]) \in Nat /\ Len(wire[r]) <= Longest(turn[r])
    BY NotAnsweredYet DEF TurnGood, ModelFails, At
  <1>2. CASE turn[r].attempt = "second" \/ turn[r].gate.shown
    BY <1>1, <1>2, FailKeeps DEF ModelFails
  <1>3. CASE ~(turn[r].attempt = "second" \/ turn[r].gate.shown)
    <2> DEFINE t == [turn[r] EXCEPT !.attempt = "second", !.tokens = 0, !.gate = NewGate]
    <2>1. turn' = [turn EXCEPT ![r] = t] /\ UNCHANGED wire
      BY <1>3 DEF ModelFails, IInv
    <2>2. /\ t \in Turns /\ t.phase = "model" /\ t.asked = turn[r].asked
          /\ t.attempt = "second" /\ t.gate = NewGate
      <3>1. NewGate \in Gates /\ 0 \in 0 .. MaxTokens
        BY ChatAssumption DEF NewGate, Gates
      <3> QED
        BY <1>1, <3>1 DEF Turns, Attempts, Gates
    <2> HIDE DEF t
    <2>3. AttemptsOf(wire[r]) = {} /\ Len(wire[r]) <= 1
      BY <1>1, <1>3, LongestFacts DEF TurnGood
    <2>4. Longest(t) = 1 /\ NewGate.units = 0 /\ ~NewGate.full /\ MaxUnits \in Nat \ {0}
      BY <2>2, LongestFacts, ChatAssumption DEF NewGate
    <2>5. TurnGood(t, wire[r])
      BY <1>1, <2>2, <2>3, <2>4 DEF TurnGood
    <2> QED
      BY <1>1, <2>1, <2>2, <2>5, TurnMoves, SendsNothing
  <1> QED
    BY <1>2, <1>3

(* A turn that breaks off.                                                 *)
LEMMA BreaksOffKeeps ==
    ASSUME IInv, NEW r \in Requests, turn[r].phase # "ended",
           NEW how \in {"broken", "gone"}, Goto(r, how), UNCHANGED <<wire, history, resets>>
    PROVE  IInv'
  <1> DEFINE t == [turn[r] EXCEPT !.phase = how]
  <1>1. /\ TurnGood(turn[r], wire[r]) /\ turn[r] \in Turns /\ wire[r] \in Seq(Events)
        /\ "sources" \notin KindsOf(wire[r])
        /\ Len(wire[r]) \in Nat /\ Len(wire[r]) <= Longest(turn[r])
    BY NotAnsweredYet DEF TurnGood
  <1>2. turn' = [turn EXCEPT ![r] = t]
    BY DEF Goto, IInv
  <1>3. /\ t \in Turns /\ t.phase = how /\ t.asked = turn[r].asked
        /\ t.attempt = turn[r].attempt /\ t.gate = turn[r].gate
    BY <1>1 DEF Turns, Phases, Over
  <1> HIDE DEF t
  <1>4. Longest(turn[r]) <= MaxTokens + 6 /\ Longest(t) = MaxTokens + 6 /\ Longest(turn[r]) \in Nat
    BY <1>1, <1>3, LongestFacts DEF Turns, Phases, Over, Early
  <1>5. Len(wire[r]) <= Longest(t)
    BY <1>1, <1>4, LongestFacts
  <1>6. TurnGood(t, wire[r])
    BY <1>1, <1>3, <1>5 DEF TurnGood, Early
  <1> QED
    BY <1>1, <1>2, <1>3, <1>6, TurnMoves, SendsNothing

(* What is held back adds one unit to a gate that had room.                *)
LEMMA ModelEndsKeeps ==
    ASSUME IInv, NEW r \in Requests, NEW truncated \in BOOLEAN, ModelEnds(r, truncated)
    PROVE  IInv'
  <1> DEFINE tail == turn[r].gate.held /\ ~(truncated /\ turn[r].gate.shown)
             n == IF tail THEN turn[r].gate.units + 1 ELSE turn[r].gate.units
             t == [turn[r] EXCEPT !.phase = "answered", !.gate = [turn[r].gate EXCEPT !.held = FALSE, !.units = n]]
             e == Event("token", "tail")
  <1>1. /\ turn[r].phase = "model" /\ UNCHANGED <<history, resets>>
        /\ TurnGood(turn[r], wire[r]) /\ turn[r] \in Turns
        /\ Len(wire[r]) \in Nat /\ Len(wire[r]) <= Longest(turn[r])
        /\ turn[r].gate \in Gates /\ turn[r].gate.units < MaxUnits
    BY NotAnsweredYet DEF TurnGood, ModelEnds, At, Turns, Gates
  <1>2. e \in Events /\ e.event = "token" /\ e.from = "tail" /\ e.event \notin Terminal /\ e.from \notin Attempts
    BY EventType DEF Sources, Terminal, Attempts
  <1>3. turn' = [turn EXCEPT ![r] = t]
    BY <1>1 DEF ModelEnds, IInv, Turns, Gates
  <1>4. Send(r, IF tail THEN <<e>> ELSE <<>>)
    BY DEF ModelEnds, Token
  <1>5. tail \in BOOLEAN
    OBVIOUS
  <1> HIDE DEF tail
  <1>6. n \in Nat /\ n <= MaxUnits
    BY <1>1, ChatAssumption DEF Gates
  <1> HIDE DEF n
  <1>7. /\ t \in Turns /\ t.phase = "answered" /\ t.asked = turn[r].asked /\ t.attempt = turn[r].attempt
        /\ t.gate.units = n /\ t.gate.shown = turn[r].gate.shown
    BY <1>1, <1>6 DEF Turns, Phases, Gates
  <1> HIDE DEF t, e
  <1>8. Len(wire[r]) + (IF tail THEN 1 ELSE 0) <= Longest(t)
    <2>1. PICK k \in 0 .. 1 : k = IF tail THEN 1 ELSE 0
      OBVIOUS
    <2>2. Longest(turn[r]) + k <= Longest(t) /\ Longest(turn[r]) \in Nat /\ Longest(t) \in Nat
      BY <1>1, <1>7, <2>1, LongestFacts
    <2>3. Len(wire[r]) + k <= Longest(t)
      BY <1>1, <2>2
    <2> QED
      BY <2>1, <2>3
  <1>9. t.phase \notin Early \union {"model", "offer", "closing", "ended"} /\ turn[r].phase # "ended"
    BY <1>1, <1>7 DEF Early
  <1> QED
    BY <1>1, <1>2, <1>3, <1>4, <1>5, <1>6, <1>7, <1>8, <1>9, SendsAndGoesOn

----------------------------------------------------------------------------
(* The follow-up, the sources, a reset.                                    *)

LEMMA FollowUpKeeps ==
    ASSUME IInv, NEW r \in Requests, NEW events \in FollowUps, FollowUp(r, events)
    PROVE  IInv'
  <1> DEFINE t == [turn[r] EXCEPT !.phase = "closing"]
             a == Event("token", "followup")
             b == Event("ui", "followup")
  <1>1. /\ turn[r].phase = "offer" /\ UNCHANGED <<history, resets>>
        /\ TurnGood(turn[r], wire[r]) /\ turn[r] \in Turns /\ wire[r] \in Seq(Events)
        /\ "sources" \notin KindsOf(wire[r]) /\ "error" \notin KindsOf(wire[r])
        /\ "ui" \in KindsOf(wire[r])
        /\ Len(wire[r]) \in Nat /\ Len(wire[r]) <= MaxTokens + 4
        /\ AttemptsOf(wire[r]) \subseteq {turn[r].attempt}
        /\ ~turn[r].gate.shown => AttemptsOf(wire[r]) = {}
    BY NotAnsweredYet, LongestFacts DEF TurnGood, FollowUp, At
  <1>2. /\ a \in Events /\ a.event = "token" /\ a.from = "followup"
        /\ b \in Events /\ b.event = "ui" /\ b.from = "followup"
        /\ "followup" \notin Attempts
    BY EventType DEF Sources, Attempts
  <1>3. turn' = [turn EXCEPT ![r] = t]
    BY DEF FollowUp, Goto, IInv
  <1>4. /\ t \in Turns /\ t.phase = "closing" /\ t.asked = turn[r].asked
        /\ t.attempt = turn[r].attempt /\ t.gate = turn[r].gate
    BY <1>1 DEF Turns, Phases
  <1> HIDE DEF t, a, b
  <1>5. Longest(t) = MaxTokens + 6 /\ MaxTokens \in Nat
    BY <1>4, LongestFacts
  <1> DEFINE w == wire[r] \o events
  <1>6. wire' = [wire EXCEPT ![r] = w]
    BY DEF FollowUp, Send, IInv
  <1>10. /\ w \in Seq(Events)
         /\ Len(w) <= Len(wire[r]) + 2
         /\ KindsOf(w) \subseteq KindsOf(wire[r]) \union {"token", "ui"}
         /\ "ui" \in KindsOf(w)
         /\ AttemptsOf(w) = AttemptsOf(wire[r])
    <2>1. events \in {Token("followup") \o <<b>>, <<b>>, <<>>}
      BY DEF FollowUps, b
    <2>2. CASE events = <<>>
      <3>1. w = wire[r]
        BY <1>1, <2>2, NoEvents
      <3> HIDE DEF w
      <3> QED
        BY <1>1, <3>1
    <2>3. CASE events = <<b>>
      <3>1. w = Append(wire[r], b)
        BY <1>1, <1>2, <2>3, AppendedEvents
      <3>2. /\ w \in Seq(Events) /\ Len(w) = Len(wire[r]) + 1
            /\ KindsOf(w) = KindsOf(wire[r]) \union {b.event}
            /\ AttemptsOf(w) = AttemptsOf(wire[r]) \union ({b.from} \intersect Attempts)
        BY <1>1, <1>2, <3>1, AppendedEvents
      <3> HIDE DEF w
      <3>3. AttemptsOf(w) = AttemptsOf(wire[r])
        BY <1>2, <3>2
      <3>4. Len(w) <= Len(wire[r]) + 2
        BY <1>1, <3>2
      <3> QED
        BY <1>2, <3>2, <3>3, <3>4
    <2>4. CASE events = Token("followup") \o <<b>>
      <3> DEFINE v == Append(wire[r], a)
      <3>1. events = <<a>> \o <<b>> /\ <<a>> \in Seq(Events) /\ <<b>> \in Seq(Events)
        BY <1>2, <2>4 DEF Token, a
      <3>2. w = (wire[r] \o <<a>>) \o <<b>>
        BY <1>1, <1>2, <3>1, TwoEvents
      <3>3. /\ wire[r] \o <<a>> = v /\ v \in Seq(Events) /\ Len(v) = Len(wire[r]) + 1
            /\ KindsOf(v) = KindsOf(wire[r]) \union {a.event}
            /\ AttemptsOf(v) = AttemptsOf(wire[r]) \union ({a.from} \intersect Attempts)
        BY <1>1, <1>2, AppendedEvents
      <3> HIDE DEF v
      <3>4. /\ v \o <<b>> = Append(v, b) /\ Append(v, b) \in Seq(Events)
            /\ Len(Append(v, b)) = Len(v) + 1
            /\ KindsOf(Append(v, b)) = KindsOf(v) \union {b.event}
            /\ AttemptsOf(Append(v, b)) = AttemptsOf(v) \union ({b.from} \intersect Attempts)
        BY <1>2, <3>3, AppendedEvents
      <3>5. w = Append(v, b)
        BY <3>2, <3>3, <3>4
      <3> HIDE DEF w
      <3>6. AttemptsOf(w) = AttemptsOf(wire[r])
        BY <1>2, <3>3, <3>4, <3>5
      <3>7. Len(w) <= Len(wire[r]) + 2
        BY <1>1, <3>3, <3>4, <3>5
      <3> QED
        BY <1>2, <3>3, <3>4, <3>5, <3>6, <3>7
    <2> QED
      BY <2>1, <2>2, <2>3, <2>4
  <1> HIDE DEF w
  <1>7. "sources" \notin KindsOf(w) /\ KindsOf(w) \intersect Terminal = {}
    BY <1>1, <1>10 DEF Terminal
  <1>8. Len(w) <= Longest(t)
    BY <1>1, <1>5, <1>10, LenProperties
  <1>9. TurnGood(t, w)
    BY <1>1, <1>4, <1>10, <1>7, <1>8 DEF TurnGood, Early
  <1> QED
    BY <1>1, <1>3, <1>4, <1>6, <1>7, <1>9, TurnMoves

LEMMA RememberKeeps ==
    ASSUME IInv, NEW r \in Requests, Remember(r)
    PROVE  IInv'
  <1> DEFINE t == [turn[r] EXCEPT !.phase = "ended"]
             e == Event("sources", "end")
             w == Append(wire[r], e)
             h == [of |-> r, context |-> IF turn[r].rag THEN turn[r].context ELSE LastContext]
             R == [of : Requests, context : BOOLEAN]
  <1>1. /\ turn[r].phase = "closing" /\ UNCHANGED resets
        /\ TurnGood(turn[r], wire[r]) /\ turn[r] \in Turns /\ wire[r] \in Seq(Events)
        /\ "sources" \notin KindsOf(wire[r]) /\ KindsOf(wire[r]) \intersect Terminal = {}
        /\ "ui" \in KindsOf(wire[r])
    BY NotAnsweredYet DEF TurnGood, Remember, At
  <1>2. e \in Events /\ e.event = "sources" /\ e.from = "end" /\ e.event \in Terminal
    BY EventType DEF Sources, Terminal
  <1>3. /\ wire' = [wire EXCEPT ![r] = w] /\ turn' = [turn EXCEPT ![r] = t]
        /\ history' = Append(history, h)
    BY <1>2, SendsOne DEF Remember, Goto, IInv
  <1>4. /\ t \in Turns /\ t.phase = "ended" /\ t.asked = turn[r].asked /\ t.attempt = turn[r].attempt
        /\ t.gate = turn[r].gate
    BY <1>1 DEF Turns, Phases, Over
  <1>5. /\ w \in Seq(Events) /\ KindsOf(w) = KindsOf(wire[r]) \union {"sources"}
        /\ AttemptsOf(w) = AttemptsOf(wire[r])
    BY <1>1, <1>2, AppendedEvents DEF Attempts
  <1>6. /\ w # <<>> /\ w[Len(w)].event \in Terminal
        /\ \A i \in 1 .. Len(w) - 1 : w[i].event \notin Terminal
    BY <1>1, <1>2, ClosingEvent
  <1>7. h \in R /\ h.of = r
    BY <1>1 DEF LastContext, Turns
  <1> HIDE DEF t, w, e, h, R
  <1>8. TurnGood(t, w)
    BY <1>1, <1>4, <1>5, <1>6 DEF TurnGood, Early
  <1>9. /\ turn' \in [Requests -> Turns] /\ wire' \in [Requests -> Seq(Events)]
        /\ turn'[r] = t /\ wire'[r] = w
        /\ \A q \in Requests : q # r => turn'[q] = turn[q] /\ wire'[q] = wire[q]
    BY <1>3, <1>4, <1>5 DEF IInv
  <1>10. \A q \in Requests : TurnGood(turn[q], wire[q])'
    BY <1>8, <1>9 DEF IInv, TurnGood, Longest
  <1>11. /\ history \in Seq(R) /\ history' \in Seq(R)
         /\ DOMAIN history = 1 .. Len(history) /\ Len(history) \in Nat
         /\ DOMAIN history' = 1 .. (Len(history) + 1)
         /\ \A i \in 1 .. Len(history) : history'[i] = history[i]
         /\ history'[Len(history) + 1].of = r
    <2>1. history \in Seq(R)
      BY DEF IInv, HistoryGood, R
    <2> QED
      BY <1>3, <1>7, <2>1, AppendProperties, LenProperties
  <1>12. Answered(r)' /\ ~Answered(r)
    <2>1. Answered(r)' <=> "sources" \in KindsOf(w)
      BY <1>9 DEF Answered, Kinds, KindsOf
    <2> QED
      BY <1>1, <1>5, <2>1, AnsweredKinds
  <1>13. \A q \in Requests : q # r => (Answered(q)' <=> Answered(q))
    BY <1>9 DEF Answered, Kinds
  <1>14. \A i \in 1 .. Len(history) : history[i].of \in Requests /\ Answered(history[i].of) /\ history[i].of # r
    BY <1>11, <1>12, HistoryTurns DEF IInv, HistoryGood, HistoryIsAnswered
  <1>15. \A i \in DOMAIN history' : Answered(history[i].of)'
    <2> TAKE i \in DOMAIN history'
    <2>1. CASE i \in 1 .. Len(history)
      <3>1. PICK q \in Requests : q = history[i].of /\ q # r /\ Answered(q)
        BY <1>14, <2>1
      <3>2. Answered(q)' /\ history'[i].of = q
        BY <1>11, <1>13, <2>1, <3>1
      <3> QED
        BY <3>2 DEF Answered, Kinds
    <2>2. CASE i = Len(history) + 1
      BY <1>11, <1>12, <2>2 DEF Answered, Kinds
    <2> QED
      BY <1>11, <2>1, <2>2
  <1>16. \A i, j \in DOMAIN history' : history'[i].of = history'[j].of => i = j
    <2> TAKE i, j \in DOMAIN history'
    <2>1. i \in 1 .. Len(history) \/ i = Len(history) + 1
      BY <1>11
    <2>2. j \in 1 .. Len(history) \/ j = Len(history) + 1
      BY <1>11
    <2>3. \A k, l \in 1 .. Len(history) : history[k].of = history[l].of => k = l
      BY <1>11 DEF IInv, HistoryGood, HistoryIsAnswered
    <2> QED
      BY <1>11, <1>14, <2>1, <2>2, <2>3
  <1>17. \A q \in Requests :
            Answered(q)' /\ turn'[q].asked = resets => \E i \in DOMAIN history' : history'[i].of = q
    <2> TAKE q \in Requests
    <2>1. CASE q = r
      BY <1>11, <2>1
    <2>2. CASE q # r
      BY <1>9, <1>11, <1>13, <2>2 DEF IInv, HistoryGood, HistoryIsAnswered
    <2> QED
      BY <2>1, <2>2
  <1>18. HistoryIsAnswered'
    BY <1>1, <1>15, <1>16, <1>17 DEF HistoryIsAnswered
  <1>19. \A q \in Requests : turn'[q].asked <= resets
    BY <1>4, <1>9 DEF IInv, HistoryGood
  <1> QED
    BY <1>1, <1>9, <1>10, <1>11, <1>18, <1>19 DEF IInv, HistoryGood, R

(* After a reset no turn that was asked before is owed a place.            *)
LEMMA ResetKeeps == IInv /\ Reset => IInv'
  <1> SUFFICES ASSUME IInv, Reset
               PROVE  IInv'
    OBVIOUS
  <1>1. UNCHANGED <<turn, wire>> /\ history' = <<>> /\ resets' = resets + 1 /\ resets < MaxResets
    BY DEF Reset
  <1>2. resets \in Nat /\ resets' \in 0 .. MaxResets
    BY <1>1, ChatAssumption DEF IInv, HistoryGood
  <1>3. \A r \in Requests : turn'[r].asked <= resets' /\ turn'[r].asked # resets'
    <2> TAKE r \in Requests
    <2>1. turn[r].asked \in Nat /\ turn[r].asked <= resets
      BY ChatAssumption DEF IInv, HistoryGood, Turns
    <2> QED
      BY <1>1, <1>2, <2>1
  <1>4. history' \in Seq([of : Requests, context : BOOLEAN]) /\ DOMAIN history' = {}
    BY <1>1
  <1>5. HistoryIsAnswered'
    BY <1>3, <1>4 DEF HistoryIsAnswered
  <1>6. \A r \in Requests : TurnGood(turn[r], wire[r])'
    BY <1>1 DEF IInv
  <1> QED
    BY <1>1, <1>2, <1>3, <1>4, <1>5, <1>6 DEF IInv, HistoryGood

----------------------------------------------------------------------------
(* The invariant.                                                          *)

LEMMA InitIsGood == Init => IInv
  <1> SUFFICES ASSUME Init
               PROVE  IInv
    OBVIOUS
  <1>1. /\ turn = [r \in Requests |-> NewTurn] /\ wire = [r \in Requests |-> <<>>]
        /\ history = <<>> /\ resets = 0
    BY DEF Init
  <1>2. NewGate \in Gates /\ NewGate.units = 0 /\ ~NewGate.full
    BY DEF NewGate, Gates
  <1>3. /\ NewTurn \in Turns /\ NewTurn.phase = "new" /\ NewTurn.asked = 0
        /\ NewTurn.gate = NewGate
    BY <1>2, ChatAssumption DEF NewTurn, Turns, Phases, Over, Attempts, Gates
  <1>4. Longest(NewTurn) = 0 /\ MaxUnits \in Nat \ {0}
    BY <1>3, LongestFacts DEF Early
  <1>5. TurnGood(NewTurn, <<>>)
    <2>1. NewTurn.gate.units <= MaxUnits /\ NewTurn.gate.units < MaxUnits /\ ~NewTurn.gate.full
      BY <1>2, <1>3, <1>4
    <2>2. /\ <<>> \in Seq(Events) /\ KindsOf(<<>>) = {} /\ AttemptsOf(<<>>) = {}
          /\ Len(<<>>) <= Longest(NewTurn)
      BY <1>4, EmptyWire
    <2> QED
      BY <1>3, <2>1, <2>2 DEF TurnGood
  <1>6. \A r \in Requests : ~Answered(r)
    BY <1>1 DEF Answered, Kinds
  <1>7. HistoryIsAnswered
    BY <1>1, <1>6 DEF HistoryIsAnswered
  <1>8. HistoryGood
    BY <1>1, <1>3, <1>7, ChatAssumption DEF HistoryGood
  <1> QED
    BY <1>1, <1>3, <1>5, <1>8, EmptyWire DEF IInv

LEMMA DisconnectKeeps ==
    ASSUME IInv, NEW r \in Requests, Disconnect(r)
    PROVE  IInv'
  BY BreaksOffKeeps DEF Disconnect, Over

LEMMA ProceedKeeps ==
    ASSUME IInv, NEW r \in Requests, Proceed(r)
    PROVE  IInv'
  <1>1. CASE Realised(r) \/ OffTopic(r) \/ \E b \in BOOLEAN : Retrieved(r, b)
    BY <1>1, BeforeLeadKeeps
  <1>2. CASE SendAuthored(r) \/ SendAuthoredUi(r)
    BY <1>2, SendAuthoredKeeps, SendAuthoredUiKeeps
  <1>3. CASE RetrievalFails(r)
    BY <1>3, FailKeeps DEF RetrievalFails, At
  <1>4. CASE \E b \in BOOLEAN : Lead(r, b) \/ FinishRag(r, b) \/ SendUi(r, b)
    BY <1>4, LeadKeeps, FinishRagKeeps, SendUiKeeps
  <1>5. CASE ModelSteps(r)
    <2>1. CASE ModelGarbles(r)
      BY <2>1, BreaksOffKeeps DEF ModelGarbles, At
    <2> QED
      BY <1>5, <2>1, ModelTokenKeeps, ModelFailsKeeps, ModelEndsKeeps DEF ModelSteps
  <1>6. CASE \E events \in FollowUps : FollowUp(r, events)
    BY <1>6, FollowUpKeeps
  <1>7. CASE Remember(r)
    BY <1>7, RememberKeeps
  <1> QED
    BY <1>1, <1>2, <1>3, <1>4, <1>5, <1>6, <1>7 DEF Proceed

LEMMA StepKeepsIInv == IInv /\ [Next]_vars => IInv'
  <1> SUFFICES ASSUME IInv, [Next]_vars
               PROVE  IInv'
    OBVIOUS
  <1>1. CASE UNCHANGED vars
    BY <1>1 DEF vars, IInv, HistoryGood, HistoryIsAnswered, Answered, Kinds
  <1>2. CASE Next
    BY <1>2, PlanKeeps, ProceedKeeps, DisconnectKeeps, ResetKeeps DEF Next
  <1> QED
    BY <1>1, <1>2

THEOREM Invariance == Spec => []IInv
  <1> QED
    BY InitIsGood, StepKeepsIInv, PTL DEF Spec

(* Every variable keeps its type.                                          *)
THEOREM TypeCorrect == Spec => []TypeOK
  <1>1. IInv => TypeOK
    BY DEF IInv, TypeOK, HistoryGood, Turns
  <1> QED
    BY <1>1, Invariance, PTL

(* Every stream the server finishes ends in exactly one of sources and     *)
(* error, and an answer has sent its ui event (chat.py:15-17).             *)
THEOREM StreamsEndOnce == Spec => []EndsOnce
  <1>1. IInv => EndsOnce
    <2> SUFFICES ASSUME IInv, NEW r \in Requests
                 PROVE  /\ \A i \in DOMAIN wire[r] : wire[r][i].event \in Terminal => i = Len(wire[r])
                        /\ At(r, "ended") => wire[r] # <<>> /\ Last(wire[r]).event \in Terminal
                        /\ Answered(r) => "ui" \in Kinds(r)
      BY DEF EndsOnce
    <2>1. TurnGood(turn[r], wire[r]) /\ wire[r] \in Seq(Events)
      BY DEF IInv, TurnGood
    <2>2. DOMAIN wire[r] = 1 .. Len(wire[r]) /\ Len(wire[r]) \in Nat
      BY <2>1, LenProperties
    <2>3. CASE turn[r].phase # "ended"
      <3>1. \A i \in DOMAIN wire[r] : wire[r][i].event \notin Terminal
        BY <2>1, <2>3 DEF TurnGood, KindsOf
      <3> QED
        BY <2>3, <3>1 DEF At, Answered, Kinds, Terminal
    <2>4. CASE turn[r].phase = "ended"
      <3>1. /\ wire[r] # <<>> /\ wire[r][Len(wire[r])].event \in Terminal
            /\ \A i \in 1 .. Len(wire[r]) - 1 : wire[r][i].event \notin Terminal
            /\ "sources" \in KindsOf(wire[r]) => "ui" \in KindsOf(wire[r])
        BY <2>1, <2>4 DEF TurnGood
      <3>2. \A i \in DOMAIN wire[r] : i = Len(wire[r]) \/ i \in 1 .. Len(wire[r]) - 1
        BY <2>2
      <3> QED
        BY <3>1, <3>2 DEF Answered, Kinds, KindsOf, Last
    <2> QED
      BY <2>3, <2>4
  <1> QED
    BY <1>1, Invariance, PTL

(* One answer never shows the text of two attempts (chat.py:238, 262).     *)
THEOREM RetryIsQuiet == Spec => []OneAttemptShown
  <1>1. IInv => OneAttemptShown
    <2> SUFFICES ASSUME IInv, NEW r \in Requests, NEW i \in DOMAIN wire[r], NEW j \in DOMAIN wire[r],
                        wire[r][i].from \in Attempts, wire[r][j].from \in Attempts
                 PROVE  wire[r][i].from = wire[r][j].from
      BY DEF OneAttemptShown
    <2>1. AttemptsOf(wire[r]) \subseteq {turn[r].attempt}
      BY DEF IInv, TurnGood
    <2> QED
      BY <2>1 DEF AttemptsOf
  <1> QED
    BY <1>1, Invariance, PTL

(* No answer is longer than the gate's budget (shaping.py:27-29).          *)
THEOREM BudgetKept == Spec => []WithinBudget
  <1>1. IInv => WithinBudget
    BY DEF IInv, TurnGood, WithinBudget
  <1> QED
    BY <1>1, Invariance, PTL

(* The history of the thread is exactly its answered turns, whatever turns *)
(* of it interleave, fail, are stopped, and whenever it is reset           *)
(* (session.append_turn, session.clear).                                   *)
THEOREM HistoryKept == Spec => []HistoryIsAnswered
  <1>1. IInv => HistoryIsAnswered
    BY DEF IInv, HistoryGood
  <1> QED
    BY <1>1, Invariance, PTL

----------------------------------------------------------------------------
(* The promise of TurnStream: what the reader of a turn sees of it.        *)

PhaseSeen(t)   == IF t.phase \in Over THEN t.phase ELSE "open"
Seen(w)        == [i \in DOMAIN w |-> w[i].event]
Remembered(h)  == [i \in DOMAIN h |-> h[i].of]
EventKinds     == {"token", "ui", "sources", "error"}

LEMMA SeenFacts ==
    ASSUME NEW w \in Seq(Events)
    PROVE  /\ Seen(w) \in Seq(EventKinds) /\ Len(Seen(w)) = Len(w)
           /\ DOMAIN Seen(w) = DOMAIN w
           /\ {Seen(w)[i] : i \in DOMAIN Seen(w)} = KindsOf(w)
  <1>1. DOMAIN w = 1 .. Len(w) /\ Len(w) \in Nat /\ \A i \in DOMAIN w : w[i] \in Events
    BY LenProperties
  <1>2. Seen(w) \in [1 .. Len(w) -> EventKinds]
    BY <1>1 DEF Seen, Events, EventKinds
  <1>3. Seen(w) \in Seq(EventKinds) /\ Len(Seen(w)) = Len(w)
    BY <1>1, <1>2, SeqDef, LenProperties
  <1>4. {Seen(w)[i] : i \in DOMAIN Seen(w)} = KindsOf(w)
    BY DEF Seen, KindsOf
  <1> QED
    BY <1>3, <1>4 DEF Seen

LEMMA SeenExtended ==
    ASSUME NEW w \in Seq(Events), NEW v \in Seq(Events)
    PROVE  Seen(w \o v) = Seen(w) \o Seen(v)
  <1>1. /\ w \o v \in Seq(Events) /\ Len(w \o v) = Len(w) + Len(v)
        /\ \A i \in 1 .. Len(w) + Len(v) : (w \o v)[i] = IF i <= Len(w) THEN w[i] ELSE v[i - Len(w)]
        /\ DOMAIN (w \o v) = 1 .. Len(w) + Len(v)
        /\ DOMAIN w = 1 .. Len(w) /\ DOMAIN v = 1 .. Len(v) /\ Len(w) \in Nat /\ Len(v) \in Nat
    BY ConcatProperties, LenProperties
  <1> DEFINE x == Seen(w)
             y == Seen(v)
             z == Seen(w \o v)
  <1>2. /\ x \in Seq(EventKinds) /\ Len(x) = Len(w) /\ y \in Seq(EventKinds) /\ Len(y) = Len(v)
        /\ z \in Seq(EventKinds) /\ Len(z) = Len(w) + Len(v)
    BY <1>1, SeenFacts
  <1>3. /\ \A i \in 1 .. Len(w) : x[i] = w[i].event
        /\ \A i \in 1 .. Len(v) : y[i] = v[i].event
        /\ \A i \in 1 .. Len(w) + Len(v) : z[i] = (w \o v)[i].event
    BY <1>1 DEF Seen
  <1> HIDE DEF x, y, z
  <1>4. /\ x \o y \in Seq(EventKinds) /\ Len(x \o y) = Len(w) + Len(v)
        /\ \A i \in 1 .. Len(w) + Len(v) : (x \o y)[i] = IF i <= Len(w) THEN x[i] ELSE y[i - Len(w)]
    <2>1. x \in Seq(EventKinds) /\ y \in Seq(EventKinds)
      BY <1>2
    <2>2. /\ x \o y \in Seq(EventKinds) /\ Len(x \o y) = Len(x) + Len(y)
          /\ \A i \in 1 .. Len(x) + Len(y) : (x \o y)[i] = IF i <= Len(x) THEN x[i] ELSE y[i - Len(x)]
      <3> HIDE DEF EventKinds
      <3> QED
        BY <2>1, ConcatProperties
    <2>3. Len(x) = Len(w) /\ Len(y) = Len(v)
      BY <1>2
    <2> QED
      BY <2>2, <2>3
  <1>5. ASSUME NEW i \in 1 .. Len(w) + Len(v)
        PROVE  z[i] = (x \o y)[i]
    <2>1. CASE i <= Len(w)
      BY <1>1, <1>3, <1>4, <2>1
    <2>2. CASE ~(i <= Len(w))
      <3>1. i - Len(w) \in 1 .. Len(v)
        BY <1>1, <2>2
      <3> QED
        BY <1>1, <1>3, <1>4, <2>2, <3>1
    <2> QED
      BY <2>1, <2>2
  <1>6. z = x \o y
    BY <1>2, <1>4, <1>5, SeqEqual
  <1> QED
    BY <1>6 DEF x, y, z

LEMMA RememberedAppend ==
    ASSUME NEW h \in Seq([of : Requests, context : BOOLEAN]), NEW e \in [of : Requests, context : BOOLEAN]
    PROVE  Remembered(Append(h, e)) = Append(Remembered(h), e.of)
  <1> DEFINE R == [of : Requests, context : BOOLEAN]
             k == Append(h, e)
             x == Remembered(h)
             z == Remembered(k)
  <1>0. h \in Seq(R) /\ e \in R
    OBVIOUS
  <1> HIDE DEF R
  <1>1. /\ k \in Seq(R) /\ Len(k) = Len(h) + 1 /\ DOMAIN k = 1 .. Len(h) + 1
        /\ DOMAIN h = 1 .. Len(h) /\ Len(h) \in Nat
        /\ \A i \in 1 .. Len(h) : k[i] = h[i]
        /\ k[Len(h) + 1] = e
        /\ \A i \in DOMAIN h : h[i] \in R
    <2>1. \A i \in DOMAIN h : h[i] \in R
      BY <1>0, ElementOfSeq, LenProperties
    <2>2. k \in Seq(R) /\ Len(k) = Len(h) + 1 /\ k[Len(h) + 1] = e /\ \A i \in 1 .. Len(h) : k[i] = h[i]
      BY <1>0, AppendProperties
    <2>3. DOMAIN k = 1 .. Len(k) /\ DOMAIN h = 1 .. Len(h) /\ Len(h) \in Nat
      <3> HIDE DEF k
      <3> QED
        BY <1>0, <2>2, LenProperties
    <2> QED
      BY <2>1, <2>2, <2>3
  <1>2. e.of \in Requests /\ \A i \in 1 .. Len(h) : h[i].of \in Requests
    BY <1>0, <1>1 DEF R
  <1> HIDE DEF k
  <1>3. x \in [1 .. Len(h) -> Requests] /\ z \in [1 .. Len(h) + 1 -> Requests]
    BY <1>1, <1>2 DEF Remembered
  <1> HIDE DEF x, z
  <1>4. /\ x \in Seq(Requests) /\ Len(x) = Len(h) /\ z \in Seq(Requests) /\ Len(z) = Len(h) + 1
    <2>1. Len(h) + 1 \in Nat
      BY <1>1
    <2>2. x \in Seq(Requests) /\ z \in Seq(Requests)
      <3>1. \A n \in Nat : [1 .. n -> Requests] \subseteq Seq(Requests)
        BY SeqDef
      <3>2. [1 .. Len(h) -> Requests] \subseteq Seq(Requests)
        BY <1>1, <3>1
      <3>3. [1 .. Len(h) + 1 -> Requests] \subseteq Seq(Requests)
        BY <2>1, <3>1
      <3> QED
        BY <1>3, <3>2, <3>3
    <2>3. DOMAIN x = 1 .. Len(h) /\ DOMAIN z = 1 .. Len(h) + 1
      BY <1>3
    <2>4. Len(x) \in Nat /\ DOMAIN x = 1 .. Len(x) /\ Len(z) \in Nat /\ DOMAIN z = 1 .. Len(z)
      BY <2>2, LenProperties
    <2> QED
      BY <1>1, <2>1, <2>2, <2>3, <2>4
  <1> USE DEF x, z
  <1>5. /\ \A i \in 1 .. Len(h) : x[i] = h[i].of /\ z[i] = h[i].of
        /\ z[Len(h) + 1] = e.of
    BY <1>1 DEF Remembered
  <1> HIDE DEF x, z
  <1> DEFINE y == Append(x, e.of)
  <1>6. /\ y \in Seq(Requests) /\ Len(y) = Len(h) + 1 /\ y[Len(h) + 1] = e.of
        /\ \A i \in 1 .. Len(h) : y[i] = x[i]
    BY <1>2, <1>4, AppendProperties
  <1> HIDE DEF y
  <1>7. \A i \in 1 .. Len(h) + 1 : z[i] = y[i]
    BY <1>1, <1>5, <1>6
  <1>8. z = y
    BY <1>4, <1>6, <1>7, SeqEqual
  <1> QED
    BY <1>8 DEF x, y, z, k

PhaseBar    == [r \in Requests |-> PhaseSeen(turn[r])]
SentBar     == [r \in Requests |-> Seen(wire[r])]
RememberBar == Remembered(history)

(* The actions of TurnStream, read in what is seen of a turn.              *)
LEMMA BeginSeen ==
    ASSUME NEW r \in Requests, PhaseBar[r] = "new", PhaseBar' = [PhaseBar EXCEPT ![r] = "open"],
           UNCHANGED <<SentBar, RememberBar, resets>>
    PROVE  Promised!StreamNext
  BY DEF PhaseBar, SentBar, RememberBar, PhaseSeen, Seen, Remembered,
         Promised!StreamNext, Promised!Begin, Promised!Close

LEMMA StreamSeen ==
    ASSUME NEW r \in Requests, PhaseBar[r] = "open",
           NEW events \in {<<"token">>, <<"ui">>, <<"token", "ui">>},
           Len(SentBar[r]) + Len(events) <= 2 * (MaxTokens + 5),
           SentBar' = [SentBar EXCEPT ![r] = @ \o events],
           UNCHANGED <<PhaseBar, RememberBar, resets>>
    PROVE  Promised!StreamNext
  BY DEF PhaseBar, SentBar, RememberBar, PhaseSeen, Seen, Remembered,
         Promised!StreamNext, Promised!Stream, Promised!Extend

LEMMA AnswerSeen ==
    ASSUME NEW r \in Requests, PhaseBar[r] = "open",
           "ui" \in {SentBar[r][i] : i \in DOMAIN SentBar[r]},
           SentBar' = [SentBar EXCEPT ![r] = @ \o <<"sources">>],
           PhaseBar' = [PhaseBar EXCEPT ![r] = "ended"],
           RememberBar' = Append(RememberBar, r), UNCHANGED resets
    PROVE  Promised!StreamNext
  BY DEF PhaseBar, SentBar, RememberBar, PhaseSeen, Seen, Remembered,
         Promised!StreamNext, Promised!Answer, Promised!Extend, Promised!Close, Promised!SentTo

LEMMA RefuseSeen ==
    ASSUME NEW r \in Requests, PhaseBar[r] = "open",
           SentBar' = [SentBar EXCEPT ![r] = @ \o <<"error">>],
           PhaseBar' = [PhaseBar EXCEPT ![r] = "ended"],
           UNCHANGED <<RememberBar, resets>>
    PROVE  Promised!StreamNext
  BY DEF PhaseBar, SentBar, RememberBar, PhaseSeen, Seen, Remembered,
         Promised!StreamNext, Promised!Refuse, Promised!Extend, Promised!Close

LEMMA BreakOffSeen ==
    ASSUME NEW r \in Requests, PhaseBar[r] = "open", NEW how \in {"broken", "gone"},
           PhaseBar' = [PhaseBar EXCEPT ![r] = how],
           UNCHANGED <<SentBar, RememberBar, resets>>
    PROVE  Promised!StreamNext
  BY DEF PhaseBar, SentBar, RememberBar, PhaseSeen, Seen, Remembered,
         Promised!StreamNext, Promised!BreakOff, Promised!Close

LEMMA ForgetSeen ==
    ASSUME RememberBar' = <<>>, resets' = resets + 1, UNCHANGED <<PhaseBar, SentBar>>
    PROVE  Promised!StreamNext
  BY DEF PhaseBar, SentBar, RememberBar, PhaseSeen, Seen, Remembered,
         Promised!StreamNext, Promised!Forget

LEMMA NothingSeen ==
    ASSUME UNCHANGED <<PhaseBar, SentBar, RememberBar, resets>>
    PROVE  UNCHANGED Promised!streamVars
  BY DEF PhaseBar, SentBar, RememberBar, PhaseSeen, Seen, Remembered, Promised!streamVars

(* A step of one turn is seen of that turn only.                           *)
LEMMA OneTurnSeen ==
    ASSUME IInv, IInv', NEW r \in Requests,
           \A q \in Requests : q # r => turn'[q] = turn[q] /\ wire'[q] = wire[q]
    PROVE  /\ PhaseBar[r] = PhaseSeen(turn[r]) /\ SentBar[r] = Seen(wire[r])
           /\ PhaseBar' = [PhaseBar EXCEPT ![r] = PhaseSeen(turn'[r])]
           /\ SentBar' = [SentBar EXCEPT ![r] = Seen(wire'[r])]
  BY DEF PhaseBar, SentBar, PhaseSeen, Seen

LEMMA SendSeen ==
    ASSUME IInv, IInv', NEW r \in Requests, NEW events \in Seq(Events), Send(r, events)
    PROVE  /\ Seen(wire'[r]) = Seen(wire[r]) \o Seen(events)
           /\ Len(Seen(wire'[r])) = Len(Seen(wire[r])) + Len(Seen(events))
           /\ \A q \in Requests : q # r => wire'[q] = wire[q]
  <1>1. wire[r] \in Seq(Events) /\ wire'[r] = wire[r] \o events
    BY DEF IInv, Send
  <1>2. Seen(wire'[r]) = Seen(wire[r]) \o Seen(events)
    BY <1>1, SeenExtended
  <1>3. Len(wire'[r]) = Len(wire[r]) + Len(events) /\ wire'[r] \in Seq(Events)
    <2> HIDE DEF Events
    <2> QED
      BY <1>1, ConcatProperties
  <1>4. \A q \in Requests : q # r => wire'[q] = wire[q]
    BY DEF IInv, Send
  <1> QED
    BY <1>1, <1>2, <1>3, <1>4, SeenFacts

LEMMA SeenOne ==
    ASSUME NEW e \in Events
    PROVE  <<e>> \in Seq(Events) /\ Seen(<<e>>) = <<e.event>>
  BY DEF Seen

(* While a turn streams.                                                   *)
LEMMA Streams ==
    ASSUME IInv, IInv', NEW r \in Requests,
           turn[r].phase \notin Over, turn'[r].phase \notin Over,
           \A q \in Requests : q # r => turn'[q] = turn[q],
           NEW events \in Seq(Events), Send(r, events),
           Seen(events) \in {<<"token">>, <<"ui">>, <<"token", "ui">>},
           UNCHANGED <<history, resets>>
    PROVE  Promised!StreamNext
  <1>1. /\ Seen(wire'[r]) = Seen(wire[r]) \o Seen(events)
        /\ Len(Seen(wire'[r])) = Len(Seen(wire[r])) + Len(Seen(events))
        /\ \A q \in Requests : q # r => wire'[q] = wire[q]
    BY SendSeen
  <1>2. /\ PhaseBar[r] = PhaseSeen(turn[r]) /\ SentBar[r] = Seen(wire[r])
        /\ PhaseBar' = [PhaseBar EXCEPT ![r] = PhaseSeen(turn'[r])]
        /\ SentBar' = [SentBar EXCEPT ![r] = Seen(wire'[r])]
    BY <1>1, OneTurnSeen
  <1>3. PhaseSeen(turn[r]) = "open" /\ PhaseSeen(turn'[r]) = "open"
    BY DEF PhaseSeen
  <1>4. UNCHANGED PhaseBar
    BY <1>2, <1>3 DEF PhaseBar
  <1>5. UNCHANGED <<RememberBar, resets>>
    BY DEF RememberBar
  <1>6. Len(Seen(wire'[r])) <= 2 * (MaxTokens + 5)
    <2>1. TurnGood(turn'[r], wire'[r]) /\ turn'[r].phase # "ended" /\ turn'[r] \in Turns
      BY DEF IInv, TurnGood, Over
    <2>2. Len(wire'[r]) <= Longest(turn'[r]) /\ wire'[r] \in Seq(Events) /\ Len(wire'[r]) \in Nat
      BY <2>1, LenProperties DEF TurnGood
    <2>3. Longest(turn'[r]) <= 2 * (MaxTokens + 5)
      <3> DEFINE t == turn'[r]
      <3>1. t \in Turns
        BY <2>1
      <3> HIDE DEF t
      <3>2. Longest(t) <= 2 * (MaxTokens + 5)
        BY <3>1, ChatAssumption DEF Longest, Turns
      <3> QED
        BY <3>2 DEF t
    <2>4. Longest(turn'[r]) \in Int /\ MaxTokens \in Nat
      <3> DEFINE t == turn'[r]
      <3>1. t \in Turns
        BY <2>1
      <3> HIDE DEF t
      <3>2. Longest(t) \in Int /\ MaxTokens \in Nat
        BY <3>1, ChatAssumption DEF Longest, Turns
      <3> QED
        BY <3>2 DEF t
    <2> QED
      BY <2>2, <2>3, <2>4, SeenFacts
  <1> HIDE DEF PhaseBar, SentBar, RememberBar, Seen
  <1> QED
    BY <1>1, <1>2, <1>3, <1>4, <1>5, <1>6, StreamSeen

(* A step of a turn that sends nothing and does not end it.                *)
LEMMA StreamsQuietly ==
    ASSUME IInv, IInv', NEW r \in Requests,
           turn[r].phase \notin Over, turn'[r].phase \notin Over,
           \A q \in Requests : q # r => turn'[q] = turn[q],
           UNCHANGED wire \/ Send(r, <<>>), UNCHANGED <<history, resets>>
    PROVE  UNCHANGED Promised!streamVars
  <1>1. UNCHANGED wire
    BY SendsNothing DEF IInv
  <1>2. PhaseSeen(turn[r]) = "open" /\ PhaseSeen(turn'[r]) = "open"
    BY DEF PhaseSeen
  <1>3. UNCHANGED PhaseBar
    BY <1>2 DEF PhaseBar
  <1>4. UNCHANGED <<SentBar, RememberBar, resets>>
    BY <1>1 DEF SentBar, RememberBar
  <1> QED
    BY <1>3, <1>4, NothingSeen

LEMMA StreamsOne ==
    ASSUME IInv, IInv', NEW r \in Requests,
           turn[r].phase \notin Over, turn'[r].phase \notin Over,
           \A q \in Requests : q # r => turn'[q] = turn[q],
           NEW e \in Events, e.event \in {"token", "ui"},
           NEW says \in BOOLEAN, Send(r, IF says THEN <<e>> ELSE <<>>),
           UNCHANGED <<history, resets>>
    PROVE  [Promised!StreamNext]_Promised!streamVars
  <1>1. CASE says
    <2>1. <<e>> \in Seq(Events) /\ Seen(<<e>>) \in {<<"token">>, <<"ui">>, <<"token", "ui">>}
      BY SeenOne
    <2>2. Send(r, <<e>>)
      BY <1>1
    <2> QED
      BY <2>1, <2>2, Streams
  <1>2. CASE ~says
    BY <1>2, StreamsQuietly
  <1> QED
    BY <1>1, <1>2

----------------------------------------------------------------------------
(* Every step of a turn is seen as a step of TurnStream, or not at all.    *)

LEMMA PlanSeen ==
    ASSUME IInv, IInv', NEW r \in Requests, Plan(r)
    PROVE  Promised!StreamNext
  <1> DEFINE Begins == /\ turn[r].phase = "new" /\ turn'[r].phase \notin Over
                       /\ \A q \in Requests : q # r => turn'[q] = turn[q]
                       /\ UNCHANGED <<wire, history, resets>>
  <1>1. Begins
    <2>1. ASSUME NEW realise \in BOOLEAN, PlanReply(r, realise)
          PROVE  Begins
      BY <2>1 DEF PlanReply, At, Over, IInv
    <2>2. ASSUME NEW continuation \in BOOLEAN, PlanRag(r, continuation)
          PROVE  Begins
      <3> DEFINE reuse == continuation /\ LastContext
                 to == IF reuse THEN "leading" ELSE "retrieving"
      <3>1. /\ turn[r].phase = "new" /\ UNCHANGED <<wire, history, resets>>
            /\ turn' = [turn EXCEPT ![r] = [@ EXCEPT !.phase = to, !.asked = resets, !.rag = TRUE, !.context = reuse]]
        BY <2>2 DEF PlanRag, At
      <3>2. to \notin Over
        BY DEF Over
      <3> HIDE DEF to, reuse
      <3> QED
        BY <3>1, <3>2 DEF IInv, Turns
    <2> QED
      BY <2>1, <2>2 DEF Plan
  <1>2. PhaseSeen(turn[r]) = "new" /\ PhaseSeen(turn'[r]) = "open"
    BY <1>1 DEF PhaseSeen, Over
  <1>3. /\ PhaseBar[r] = PhaseSeen(turn[r])
        /\ PhaseBar' = [PhaseBar EXCEPT ![r] = PhaseSeen(turn'[r])]
    BY <1>1, OneTurnSeen
  <1>4. UNCHANGED <<SentBar, RememberBar, resets>>
    BY <1>1 DEF SentBar, RememberBar
  <1> HIDE DEF PhaseBar, SentBar, RememberBar
  <1> QED
    BY <1>2, <1>3, <1>4, BeginSeen

LEMMA FailSeen ==
    ASSUME IInv, IInv', NEW r \in Requests, turn[r].phase \notin Over, Fail(r),
           UNCHANGED <<history, resets>>
    PROVE  Promised!StreamNext
  <1> DEFINE e == Event("error", "end")
  <1>1. e \in Events /\ e.event = "error"
    BY EventType DEF Sources
  <1>2. /\ Send(r, <<e>>) /\ turn'[r].phase = "ended"
        /\ \A q \in Requests : q # r => turn'[q] = turn[q]
    BY DEF Fail, Goto, IInv
  <1> HIDE DEF e
  <1>3. <<e>> \in Seq(Events) /\ Seen(<<e>>) = <<"error">>
    BY <1>1, SeenOne
  <1>4. /\ Seen(wire'[r]) = Seen(wire[r]) \o Seen(<<e>>)
        /\ \A q \in Requests : q # r => wire'[q] = wire[q]
    BY <1>2, <1>3, SendSeen
  <1>5. /\ PhaseBar[r] = PhaseSeen(turn[r]) /\ SentBar[r] = Seen(wire[r])
        /\ PhaseBar' = [PhaseBar EXCEPT ![r] = PhaseSeen(turn'[r])]
        /\ SentBar' = [SentBar EXCEPT ![r] = Seen(wire'[r])]
    BY <1>2, <1>4, OneTurnSeen
  <1>6. PhaseSeen(turn[r]) = "open" /\ PhaseSeen(turn'[r]) = "ended"
    BY <1>2 DEF PhaseSeen, Over
  <1>7. UNCHANGED <<RememberBar, resets>>
    BY DEF RememberBar
  <1> HIDE DEF PhaseBar, SentBar, RememberBar, Seen
  <1> QED
    BY <1>3, <1>4, <1>5, <1>6, <1>7, RefuseSeen

LEMMA BreaksOffSeen ==
    ASSUME IInv, IInv', NEW r \in Requests, turn[r].phase \notin Over,
           NEW how \in {"broken", "gone"}, Goto(r, how), UNCHANGED <<wire, history, resets>>
    PROVE  Promised!StreamNext
  <1>1. turn'[r].phase = how /\ \A q \in Requests : q # r => turn'[q] = turn[q]
    BY DEF Goto, IInv
  <1>2. PhaseSeen(turn[r]) = "open" /\ PhaseSeen(turn'[r]) = how
    BY <1>1 DEF PhaseSeen, Over
  <1>3. /\ PhaseBar[r] = PhaseSeen(turn[r])
        /\ PhaseBar' = [PhaseBar EXCEPT ![r] = PhaseSeen(turn'[r])]
    BY <1>1, OneTurnSeen
  <1>4. UNCHANGED <<SentBar, RememberBar, resets>>
    BY DEF SentBar, RememberBar
  <1> HIDE DEF PhaseBar, SentBar, RememberBar
  <1> QED
    BY <1>2, <1>3, <1>4, BreakOffSeen

LEMMA RememberSeen ==
    ASSUME IInv, IInv', NEW r \in Requests, Remember(r)
    PROVE  Promised!StreamNext
  <1> DEFINE e == Event("sources", "end")
             h == [of |-> r, context |-> IF turn[r].rag THEN turn[r].context ELSE LastContext]
             R == [of : Requests, context : BOOLEAN]
  <1>1. e \in Events /\ e.event = "sources"
    BY EventType DEF Sources
  <1>2. /\ Send(r, <<e>>) /\ turn'[r].phase = "ended" /\ turn[r].phase = "closing"
        /\ \A q \in Requests : q # r => turn'[q] = turn[q]
        /\ history' = Append(history, h) /\ UNCHANGED resets
    BY DEF Remember, Goto, At, IInv
  <1>3. h \in R /\ h.of = r /\ history \in Seq(R)
    BY DEF LastContext, IInv, HistoryGood, Turns
  <1>4. "ui" \in KindsOf(wire[r]) /\ wire[r] \in Seq(Events)
    BY <1>2 DEF IInv, TurnGood
  <1> HIDE DEF e, h
  <1>5. RememberBar' = Append(RememberBar, r)
    BY <1>2, <1>3, RememberedAppend DEF RememberBar
  <1>6. <<e>> \in Seq(Events) /\ Seen(<<e>>) = <<"sources">>
    BY <1>1, SeenOne
  <1>7. /\ Seen(wire'[r]) = Seen(wire[r]) \o Seen(<<e>>)
        /\ \A q \in Requests : q # r => wire'[q] = wire[q]
    BY <1>2, <1>6, SendSeen
  <1>8. /\ PhaseBar[r] = PhaseSeen(turn[r]) /\ SentBar[r] = Seen(wire[r])
        /\ PhaseBar' = [PhaseBar EXCEPT ![r] = PhaseSeen(turn'[r])]
        /\ SentBar' = [SentBar EXCEPT ![r] = Seen(wire'[r])]
    BY <1>2, <1>7, OneTurnSeen
  <1>9. PhaseSeen(turn[r]) = "open" /\ PhaseSeen(turn'[r]) = "ended"
    BY <1>2 DEF PhaseSeen, Over
  <1>10. "ui" \in {SentBar[r][i] : i \in DOMAIN SentBar[r]}
    BY <1>4, <1>8, SeenFacts
  <1> HIDE DEF PhaseBar, SentBar, RememberBar, Seen
  <1> QED
    BY <1>2, <1>5, <1>6, <1>7, <1>8, <1>9, <1>10, AnswerSeen

LEMMA QuietSeen ==
    ASSUME IInv, IInv', NEW r \in Requests,
           Realised(r) \/ OffTopic(r) \/ \E found \in BOOLEAN : Retrieved(r, found)
    PROVE  UNCHANGED Promised!streamVars
  <1> DEFINE Quiet == /\ turn[r].phase \notin Over /\ turn'[r].phase \notin Over
                      /\ \A q \in Requests : q # r => turn'[q] = turn[q]
                      /\ UNCHANGED <<wire, history, resets>>
  <1>1. Quiet
    <2>1. CASE Realised(r)
      BY <2>1 DEF Realised, Goto, At, Over, IInv, Turns
    <2>2. CASE OffTopic(r)
      BY <2>2 DEF OffTopic, At, Over, IInv, Turns
    <2>3. ASSUME NEW found \in BOOLEAN, Retrieved(r, found)
          PROVE  Quiet
      BY <2>3 DEF Retrieved, At, Over, IInv, Turns
    <2> QED
      BY <2>1, <2>2, <2>3
  <1> QED
    BY <1>1, StreamsQuietly

(* The steps that send at most one token or ui event.                      *)
LEMMA OneEventSeen ==
    ASSUME IInv, IInv', NEW r \in Requests,
           \/ SendAuthored(r) \/ SendAuthoredUi(r)
           \/ \E b \in BOOLEAN : Lead(r, b) \/ FinishRag(r, b) \/ SendUi(r, b)
    PROVE  [Promised!StreamNext]_Promised!streamVars
  <1>0. /\ Event("token", "authored") \in Events /\ Event("token", "authored").event \in {"token", "ui"}
        /\ Event("token", "lead") \in Events /\ Event("token", "lead").event \in {"token", "ui"}
        /\ Event("token", "suffix") \in Events /\ Event("token", "suffix").event \in {"token", "ui"}
        /\ Event("ui", "authored") \in Events /\ Event("ui", "authored").event \in {"token", "ui"}
        /\ Event("ui", "suffix") \in Events /\ Event("ui", "suffix").event \in {"token", "ui"}
    BY EventType DEF Sources
  <1>1. ASSUME NEW from, NEW to, At(r, from), Goto(r, to), from \notin Over, to \notin Over
        PROVE  /\ turn[r].phase \notin Over /\ turn'[r].phase \notin Over
               /\ \A q \in Requests : q # r => turn'[q] = turn[q]
    BY <1>1 DEF At, Goto, IInv
  <1>2. CASE SendAuthored(r)
    <2>1. /\ At(r, "authored") /\ Goto(r, "authored_ui") /\ UNCHANGED <<history, resets>>
          /\ Send(r, IF TRUE THEN <<Event("token", "authored")>> ELSE <<>>)
      BY <1>2 DEF SendAuthored, Token
    <2>2. "authored" \notin Over /\ "authored_ui" \notin Over
      BY DEF Over
    <2> QED
      BY <1>0, <1>1, <2>1, <2>2, StreamsOne
  <1>3. CASE SendAuthoredUi(r)
    <2>1. /\ At(r, "authored_ui") /\ Goto(r, "closing") /\ UNCHANGED <<history, resets>>
          /\ Send(r, IF TRUE THEN <<Event("ui", "authored")>> ELSE <<>>)
      BY <1>3 DEF SendAuthoredUi
    <2>2. "authored_ui" \notin Over /\ "closing" \notin Over
      BY DEF Over
    <2> QED
      BY <1>0, <1>1, <2>1, <2>2, StreamsOne
  <1>4. ASSUME NEW b \in BOOLEAN, Lead(r, b)
        PROVE  [Promised!StreamNext]_Promised!streamVars
    <2>1. /\ At(r, "leading") /\ Goto(r, "model") /\ UNCHANGED <<history, resets>>
          /\ Send(r, IF b THEN <<Event("token", "lead")>> ELSE <<>>)
      BY <1>4 DEF Lead, Token
    <2>2. "leading" \notin Over /\ "model" \notin Over
      BY DEF Over
    <2> QED
      BY <1>0, <1>1, <2>1, <2>2, StreamsOne
  <1>5. ASSUME NEW b \in BOOLEAN, FinishRag(r, b)
        PROVE  [Promised!StreamNext]_Promised!streamVars
    <2>1. /\ At(r, "answered") /\ Goto(r, "ui") /\ UNCHANGED <<history, resets>>
          /\ Send(r, IF b THEN <<Event("token", "suffix")>> ELSE <<>>)
      BY <1>5 DEF FinishRag, Token
    <2>2. "answered" \notin Over /\ "ui" \notin Over
      BY DEF Over
    <2> QED
      BY <1>0, <1>1, <2>1, <2>2, StreamsOne
  <1>6. ASSUME NEW b \in BOOLEAN, SendUi(r, b)
        PROVE  [Promised!StreamNext]_Promised!streamVars
    <2> DEFINE to == IF b THEN "offer" ELSE "closing"
    <2>1. /\ At(r, "ui") /\ Goto(r, to) /\ UNCHANGED <<history, resets>>
          /\ Send(r, IF TRUE THEN <<Event("ui", "suffix")>> ELSE <<>>)
      BY <1>6 DEF SendUi
    <2>2. "ui" \notin Over /\ to \notin Over
      BY DEF Over
    <2> HIDE DEF to
    <2> QED
      BY <1>0, <1>1, <2>1, <2>2, StreamsOne
  <1> QED
    BY <1>2, <1>3, <1>4, <1>5, <1>6

LEMMA ModelTokenSeen ==
    ASSUME IInv, IInv', NEW r \in Requests, NEW released \in BOOLEAN, NEW rest \in BOOLEAN,
           NEW ends \in 0 .. 2, ModelToken(r, released, ends, rest)
    PROVE  [Promised!StreamNext]_Promised!streamVars
  <1> DEFINE e == Event("token", turn[r].attempt)
             gate == Feed(turn[r].gate, released, ends, rest)
             to == IF gate.full THEN "answered" ELSE "model"
             t == [turn[r] EXCEPT !.gate = gate, !.tokens = @ + 1, !.phase = to]
  <1>1. e \in Events /\ e.event \in {"token", "ui"}
    BY EventType DEF IInv, Turns, Sources
  <1>2. turn' = [turn EXCEPT ![r] = t] /\ Send(r, IF released THEN <<e>> ELSE <<>>)
    BY DEF ModelToken, Token, IInv
  <1>3. turn[r].phase = "model" /\ UNCHANGED <<history, resets>> /\ turn[r] \in Turns
    BY DEF ModelToken, At, IInv
  <1>4. to \notin Over /\ t.phase = to
    <2>1. to \notin Over
      BY DEF Over
    <2> HIDE DEF gate, to
    <2> QED
      BY <1>3, <2>1 DEF Turns
  <1> HIDE DEF e, t
  <1>5. /\ turn[r].phase \notin Over /\ turn'[r].phase \notin Over
        /\ \A q \in Requests : q # r => turn'[q] = turn[q]
    BY <1>2, <1>3, <1>4 DEF IInv, Over
  <1> QED
    BY <1>1, <1>2, <1>3, <1>5, StreamsOne

LEMMA ModelFailsSeen ==
    ASSUME IInv, IInv', NEW r \in Requests, ModelFails(r)
    PROVE  [Promised!StreamNext]_Promised!streamVars
  <1>1. turn[r].phase = "model" /\ turn[r].phase \notin Over /\ UNCHANGED <<history, resets>>
    BY DEF ModelFails, At, Over
  <1>2. CASE Fail(r)
    BY <1>1, <1>2, FailSeen
  <1>3. CASE /\ turn' = [turn EXCEPT ![r].attempt = "second", ![r].tokens = 0, ![r].gate = NewGate]
             /\ UNCHANGED wire
    <2>1. /\ turn'[r].phase \notin Over
          /\ \A q \in Requests : q # r => turn'[q] = turn[q]
      BY <1>1, <1>3 DEF IInv, Turns, Over
    <2> QED
      BY <1>1, <1>3, <2>1, StreamsQuietly
  <1> QED
    BY <1>2, <1>3 DEF ModelFails

LEMMA ModelEndsSeen ==
    ASSUME IInv, IInv', NEW r \in Requests, NEW truncated \in BOOLEAN, ModelEnds(r, truncated)
    PROVE  [Promised!StreamNext]_Promised!streamVars
  <1> DEFINE e == Event("token", "tail")
             tail == turn[r].gate.held /\ ~(truncated /\ turn[r].gate.shown)
             n == IF tail THEN turn[r].gate.units + 1 ELSE turn[r].gate.units
             t == [turn[r] EXCEPT !.phase = "answered",
                                  !.gate = [turn[r].gate EXCEPT !.held = FALSE, !.units = n]]
  <1>1. e \in Events /\ e.event \in {"token", "ui"}
    BY EventType DEF Sources
  <1>2. turn[r].phase = "model" /\ UNCHANGED <<history, resets>>
        /\ turn[r] \in Turns /\ turn[r].gate \in Gates /\ turn \in [Requests -> Turns]
    BY DEF ModelEnds, At, IInv, Turns, Gates
  <1>3. turn' = [turn EXCEPT ![r] = t] /\ Send(r, IF tail THEN <<e>> ELSE <<>>)
    <2>1. turn' = [turn EXCEPT ![r] = t]
      BY <1>2 DEF ModelEnds, Turns, Gates
    <2>2. Send(r, IF tail THEN <<e>> ELSE <<>>)
      BY DEF ModelEnds, Token
    <2> QED
      BY <2>1, <2>2
  <1>4. tail \in BOOLEAN
    OBVIOUS
  <1> HIDE DEF e, tail, n
  <1>5. t.phase = "answered"
    BY <1>2 DEF Turns
  <1> HIDE DEF t
  <1>6. /\ turn[r].phase \notin Over /\ turn'[r].phase \notin Over
        /\ \A q \in Requests : q # r => turn'[q] = turn[q]
    BY <1>2, <1>3, <1>5 DEF IInv, Over
  <1> QED
    BY <1>1, <1>2, <1>3, <1>4, <1>6, StreamsOne

LEMMA FollowUpSeen ==
    ASSUME IInv, IInv', NEW r \in Requests, NEW events \in FollowUps, FollowUp(r, events)
    PROVE  [Promised!StreamNext]_Promised!streamVars
  <1> DEFINE a == Event("token", "followup")
             b == Event("ui", "followup")
  <1>1. a \in Events /\ b \in Events /\ a.event = "token" /\ b.event = "ui"
    BY EventType DEF Sources
  <1>2. /\ turn[r].phase \notin Over /\ turn'[r].phase \notin Over /\ Send(r, events)
        /\ \A q \in Requests : q # r => turn'[q] = turn[q]
        /\ UNCHANGED <<history, resets>>
    BY DEF FollowUp, Goto, At, Over, IInv
  <1>3. events \in {<<a>> \o <<b>>, <<b>>, <<>>}
    BY DEF FollowUps, Token
  <1> HIDE DEF a, b
  <1>4. CASE events = <<a>> \o <<b>>
    <2> DEFINE x == <<a>>
               y == <<b>>
    <2>1. x \in Seq(Events) /\ y \in Seq(Events) /\ Seen(x) = <<"token">> /\ Seen(y) = <<"ui">>
      BY <1>1, SeenOne
    <2> HIDE DEF x, y
    <2>2. x \o y \in Seq(Events) /\ Seen(x \o y) = Seen(x) \o Seen(y)
      <3>1. x \o y \in Seq(Events)
        <4> HIDE DEF Events
        <4> QED
          BY <2>1, ConcatProperties
      <3> QED
        BY <2>1, <3>1, SeenExtended
    <2>3. <<"token">> \o <<"ui">> = <<"token", "ui">>
      <3> DEFINE S == {"token", "ui"}
                 p == <<"token">>
                 q == <<"ui">>
                 l == <<"token", "ui">>
      <3>1. /\ p \in Seq(S) /\ Len(p) = 1 /\ p[1] = "token"
            /\ q \in Seq(S) /\ Len(q) = 1 /\ q[1] = "ui"
            /\ l \in Seq(S) /\ Len(l) = 2 /\ l[1] = "token" /\ l[2] = "ui"
        OBVIOUS
      <3> HIDE DEF S, p, q, l
      <3>2. /\ p \o q \in Seq(S) /\ Len(p \o q) = 2
            /\ (p \o q)[1] = "token" /\ (p \o q)[2] = "ui"
        BY <3>1, ConcatProperties
      <3>3. p \o q = l
        BY <3>1, <3>2, SeqEqual
      <3> QED
        BY <3>3 DEF p, q, l
    <2>4. events = x \o y
      BY <1>4 DEF x, y
    <2>5. events \in Seq(Events) /\ Seen(events) = <<"token", "ui">>
      BY <2>1, <2>2, <2>3, <2>4
    <2> QED
      BY <1>2, <2>5, Streams
  <1>5. CASE events = <<b>>
    <2>1. events \in Seq(Events) /\ Seen(events) = <<"ui">>
      BY <1>1, <1>5, SeenOne
    <2> QED
      BY <1>2, <2>1, Streams
  <1>6. CASE events = <<>>
    BY <1>2, <1>6, StreamsQuietly
  <1> QED
    BY <1>3, <1>4, <1>5, <1>6

LEMMA ProceedSeen ==
    ASSUME IInv, IInv', NEW r \in Requests, Proceed(r)
    PROVE  [Promised!StreamNext]_Promised!streamVars
  <1>1. CASE Realised(r) \/ OffTopic(r) \/ \E b \in BOOLEAN : Retrieved(r, b)
    BY <1>1, QuietSeen
  <1>2. CASE \/ SendAuthored(r) \/ SendAuthoredUi(r)
             \/ \E b \in BOOLEAN : Lead(r, b) \/ FinishRag(r, b) \/ SendUi(r, b)
    BY <1>2, OneEventSeen
  <1>3. CASE RetrievalFails(r)
    BY <1>3, FailSeen DEF RetrievalFails, At, Over
  <1>4. CASE ModelSteps(r)
    <2>1. CASE ModelGarbles(r)
      BY <2>1, BreaksOffSeen DEF ModelGarbles, At, Over
    <2> QED
      BY <1>4, <2>1, ModelTokenSeen, ModelFailsSeen, ModelEndsSeen DEF ModelSteps
  <1>5. CASE \E events \in FollowUps : FollowUp(r, events)
    BY <1>5, FollowUpSeen
  <1>6. CASE Remember(r)
    BY <1>6, RememberSeen
  <1> QED
    BY <1>1, <1>2, <1>3, <1>4, <1>5, <1>6 DEF Proceed

LEMMA ResetSeen ==
    ASSUME Reset
    PROVE  Promised!StreamNext
  <1>1. RememberBar' = <<>> /\ resets' = resets + 1
    BY DEF Reset, RememberBar, Remembered
  <1>2. UNCHANGED <<PhaseBar, SentBar>>
    BY DEF Reset, PhaseBar, SentBar
  <1> QED
    BY <1>1, <1>2, ForgetSeen

LEMMA PromiseStart == Init => Promised!StreamInit
  BY DEF Init, NewTurn, Over, Promised!StreamInit

LEMMA PromiseStep ==
    IInv /\ IInv' /\ [Next]_vars => [Promised!StreamNext]_Promised!streamVars
  <1> SUFFICES ASSUME IInv, IInv', [Next]_vars
               PROVE  [Promised!StreamNext]_Promised!streamVars
    OBVIOUS
  <1>1. CASE UNCHANGED vars
    BY <1>1 DEF vars, Promised!streamVars
  <1>2. CASE Reset
    BY <1>2, ResetSeen
  <1>3. ASSUME NEW r \in Requests, Plan(r) \/ Proceed(r) \/ Disconnect(r)
        PROVE  [Promised!StreamNext]_Promised!streamVars
    BY <1>3, PlanSeen, ProceedSeen, BreaksOffSeen DEF Disconnect
  <1> QED
    BY <1>1, <1>2, <1>3 DEF Next

(* The turns keep the promise of the route's head (chat.py:7-17), whatever *)
(* replies, retrieval, the model, its retries, the gate, follow-ups and    *)
(* resets do: what is seen of them is a behaviour of TurnStream.           *)
THEOREM PromiseKept == Spec => KeepsPromise
  <1> QED
    BY PromiseStart, PromiseStep, Invariance, PTL DEF Spec, KeepsPromise, Promised!StreamSpec
=============================================================================
