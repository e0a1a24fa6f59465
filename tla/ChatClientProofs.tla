-------------------------- MODULE ChatClientProofs --------------------------
(***************************************************************************)
(* A thread of the web client and the turns streamed for it, for every     *)
(* number of requests, events, questions and reloads.  What carries the    *)
(* properties is that at most one request is being read, the one in the    *)
(* abort map; that what it has read of its stream is exactly what its      *)
(* message shows; and, on the server's side, that nothing follows an event *)
(* that ends a turn.                                                       *)
(***************************************************************************)
EXTENDS ChatClient, FiniteSetTheorems, SequenceTheorems, TLAPS

Kinds == {"token", "ui", "sources", "error"}
Last  == {"sources", "error"}
Messages == [text : [of : Requests \union {Nobody}, tokens : Nat],
             ui : Requests \union {Nobody}, sources : Requests \union {Nobody},
             error : BOOLEAN, streaming : BOOLEAN]
Readers == [open : BOOLEAN, to : Nat, read : Nat]

(* What the server has sent: nothing follows the last event of a turn, the *)
(* sources come after a ui event and only of a turn that is remembered.    *)
StreamGood ==
    /\ phase \in [Requests -> {"new", "open", "ended", "broken", "gone"}]
    /\ sent \in [Requests -> Seq(Kinds)]
    /\ answered \in Seq(Requests)
    /\ resets \in Nat
    /\ \A r \in Requests : \A k \in DOMAIN sent[r] :
          /\ sent[r][k] \in Last => k = Len(sent[r]) /\ phase[r] = "ended"
          /\ sent[r][k] = "sources" => \E j \in 1 .. k : sent[r][j] = "ui"
    /\ resets = 0 => \A r \in Requests : "sources" \in SentTo(r) =>
          \E k \in DOMAIN answered : answered[k] = r

(* The first n events of r, of which s is the stream, as a message.        *)
Of(s, kind, n) == {i \in 1 .. n : s[i] = kind}
Shows(m, s, r, n) ==
    /\ m.text = [of |-> IF Of(s, "token", n) = {} THEN Nobody ELSE r,
                 tokens |-> Cardinality(Of(s, "token", n))]
    /\ m.ui = IF Of(s, "ui", n) = {} THEN Nobody ELSE r
    /\ m.sources = IF Of(s, "sources", n) = {} THEN Nobody ELSE r

PageTypes ==
    /\ messages \in Seq(Messages)
    /\ reader \in [Requests -> Readers]
    /\ controller \in Requests \union {Nobody}
    /\ streaming \in BOOLEAN /\ deleted \in BOOLEAN /\ reloads \in Nat

(* One request is read at a time, and it is the one that can be aborted.   *)
OneReader ==
    /\ streaming <=> controller # Nobody
    /\ \A r \in Requests : reader[r].open <=> r = controller
    /\ \A r \in Requests : reader[r].open => reader[r].to \in DOMAIN messages
    /\ deleted => messages = <<>> /\ ~streaming
    /\ ~deleted => resets = 0

Shown ==
    /\ \A r \in Requests : reader[r].read <= Len(sent[r])
    /\ \A r \in Requests : reader[r].open =>
          /\ Shows(messages[reader[r].to], sent[r], r, reader[r].read)
          /\ ~messages[reader[r].to].streaming =>
                \E k \in 1 .. reader[r].read : sent[r][k] \in Last
    /\ \A i \in DOMAIN messages : \E r \in Requests :
          reader[r].to = i /\ Shows(messages[i], sent[r], r, reader[r].read)

IInv == StreamGood /\ PageTypes /\ OneReader /\ Shown /\ SpinnerHasReader

-----------------------------------------------------------------------------
(* Streams of events.                                                      *)

LEMMA OneEvent ==
    ASSUME NEW s \in Seq(Kinds), NEW e \in Kinds
    PROVE  LET v == s \o <<e>> IN
           /\ v \in Seq(Kinds) /\ Len(v) = Len(s) + 1
           /\ DOMAIN s = 1 .. Len(s) /\ DOMAIN v = 1 .. (Len(s) + 1) /\ Len(s) \in Nat
           /\ \A k \in DOMAIN s : v[k] = s[k]
           /\ v[Len(s) + 1] = e
  <1> DEFINE v == s \o <<e>>
  <1> HIDE DEF Kinds
  <1>1. v = Append(s, e)
    BY AppendIsConcat
  <1>2. /\ v \in Seq(Kinds) /\ Len(v) = Len(s) + 1
        /\ \A i \in 1 .. Len(s) : v[i] = s[i]
        /\ v[Len(s) + 1] = e
    BY <1>1, AppendProperties
  <1>3. DOMAIN s = 1 .. Len(s) /\ DOMAIN v = 1 .. Len(v) /\ Len(s) \in Nat
    BY <1>2, LenProperties
  <1> QED
    BY <1>2, <1>3

LEMMA TwoEvents ==
    ASSUME NEW s \in Seq(Kinds), NEW a \in Kinds, NEW b \in Kinds
    PROVE  LET v == s \o <<a, b>> IN
           /\ v \in Seq(Kinds) /\ Len(v) = Len(s) + 2
           /\ DOMAIN v = 1 .. (Len(s) + 2)
           /\ \A k \in 1 .. Len(s) : v[k] = s[k]
           /\ v[Len(s) + 1] = a /\ v[Len(s) + 2] = b
  <1> DEFINE t == <<a, b>>
             v == s \o t
  <1>1. t \in Seq(Kinds) /\ Len(t) = 2 /\ t[1] = a /\ t[2] = b
    BY DEF Kinds
  <1> HIDE DEF t, Kinds
  <1>2. /\ v \in Seq(Kinds) /\ Len(v) = Len(s) + 2 /\ Len(s) \in Nat
        /\ \A k \in 1 .. Len(v) : v[k] = IF k <= Len(s) THEN s[k] ELSE t[k - Len(s)]
    <2>1. /\ v \in Seq(Kinds) /\ Len(v) = Len(s) + Len(t)
          /\ \A k \in 1 .. Len(v) : v[k] = IF k <= Len(s) THEN s[k] ELSE t[k - Len(s)]
      BY <1>1, ConcatProperties
    <2>2. Len(s) \in Nat
      BY LenProperties
    <2> QED
      BY <1>1, <2>1, <2>2
  <1>3. DOMAIN v = 1 .. (Len(s) + 2)
    BY <1>2, LenProperties
  <1> HIDE DEF v
  <1>4. \A k \in 1 .. Len(s) : v[k] = s[k]
    BY <1>2
  <1>5. v[Len(s) + 1] = t[1]
    <2>1. Len(s) + 1 \in 1 .. Len(v) /\ ~(Len(s) + 1 <= Len(s)) /\ (Len(s) + 1) - Len(s) = 1
      BY <1>2
    <2> QED
      BY <1>2, <2>1
  <1>6. v[Len(s) + 2] = t[2]
    <2>1. Len(s) + 2 \in 1 .. Len(v) /\ ~(Len(s) + 2 <= Len(s)) /\ (Len(s) + 2) - Len(s) = 2
      BY <1>2
    <2> QED
      BY <1>2, <2>1
  <1> QED
    BY <1>1, <1>2, <1>3, <1>4, <1>5, <1>6 DEF v, t

LEMMA StreamFacts ==
    ASSUME StreamGood, NEW r \in Requests
    PROVE  /\ sent[r] \in Seq(Kinds) /\ DOMAIN sent[r] = 1 .. Len(sent[r]) /\ Len(sent[r]) \in Nat
           /\ \A k \in DOMAIN sent[r] : sent[r][k] \in Kinds
           /\ DOMAIN phase = Requests /\ DOMAIN sent = Requests
  <1>1. sent[r] \in Seq(Kinds)
    BY DEF StreamGood
  <1>2. DOMAIN sent[r] = 1 .. Len(sent[r]) /\ Len(sent[r]) \in Nat
        /\ \A k \in DOMAIN sent[r] : sent[r][k] \in Kinds
    <2> HIDE DEF Kinds
    <2> QED
      BY <1>1, LenProperties, ElementOfSeq
  <1> QED
    BY <1>1, <1>2 DEF StreamGood

(* A stream only grows.                                                    *)
Grows == \A r \in Requests :
           /\ Len(sent[r]) <= Len(sent'[r])
           /\ \A k \in 1 .. Len(sent[r]) : sent'[r][k] = sent[r][k]

(* A turn that is open goes on: its stream is v now.                       *)
LEMMA Continues ==
    ASSUME StreamGood, NEW r \in Requests, phase[r] = "open", NEW v \in Seq(Kinds),
           NEW how \in {"open", "ended"}, Len(sent[r]) <= Len(v),
           \A k \in 1 .. Len(sent[r]) : v[k] = sent[r][k],
           sent' = [sent EXCEPT ![r] = v], phase' = [phase EXCEPT ![r] = how],
           answered' \in Seq(Requests), resets' = resets,
           \A k \in DOMAIN v : v[k] \in Last =>
              /\ k = Len(v) /\ how = "ended"
              /\ v[k] = "sources" => "ui" \in SentTo(r),
           resets = 0 => \A q \in Requests :
              \/ "sources" \in SentTo(q)
              \/ q = r /\ \E k \in DOMAIN v : v[k] = "sources"
              => \E k \in DOMAIN answered' : answered'[k] = q
    PROVE  StreamGood' /\ Grows
  <1> DEFINE n == Len(sent[r])
  <1>1. /\ DOMAIN sent[r] = 1 .. n /\ n \in Nat
        /\ DOMAIN v = 1 .. Len(v) /\ Len(v) \in Nat
    BY StreamFacts, LenProperties
  <1>2. /\ sent'[r] = v /\ phase'[r] = how
        /\ \A q \in Requests : q # r => sent'[q] = sent[q] /\ phase'[q] = phase[q]
    BY StreamFacts
  <1> HIDE DEF n
  <1>3. /\ phase' \in [Requests -> {"new", "open", "ended", "broken", "gone"}]
        /\ sent' \in [Requests -> Seq(Kinds)]
    <2> HIDE DEF Kinds
    <2> QED
      BY DEF StreamGood
  <1>4. \A k \in DOMAIN v : v[k] = "sources" => \E j \in 1 .. k : v[j] = "ui"
    <2> SUFFICES ASSUME NEW k \in DOMAIN v, v[k] = "sources"
                 PROVE  \E j \in 1 .. k : v[j] = "ui"
      OBVIOUS
    <2>1. k = Len(v) /\ "ui" \in SentTo(r)
      BY DEF Last
    <2>2. PICK j \in 1 .. n : sent[r][j] = "ui"
      BY <1>1, <2>1 DEF SentTo
    <2>3. j \in 1 .. k /\ v[j] = "ui"
      BY <1>1, <2>1, <2>2 DEF n
    <2> QED
      BY <2>3
  <1>5. \A q \in Requests : \A k \in DOMAIN sent'[q] :
          /\ sent'[q][k] \in Last => k = Len(sent'[q]) /\ phase'[q] = "ended"
          /\ sent'[q][k] = "sources" => \E j \in 1 .. k : sent'[q][j] = "ui"
    <2> SUFFICES ASSUME NEW q \in Requests, NEW k \in DOMAIN sent'[q]
                 PROVE  /\ sent'[q][k] \in Last => k = Len(sent'[q]) /\ phase'[q] = "ended"
                        /\ sent'[q][k] = "sources" => \E j \in 1 .. k : sent'[q][j] = "ui"
      OBVIOUS
    <2>1. CASE q = r
      BY <2>1, <1>2, <1>4
    <2>2. CASE q # r
      BY <2>2, <1>2 DEF StreamGood
    <2> QED
      BY <2>1, <2>2
  <1>6. \A q \in Requests : "sources" \in SentTo(q)' =>
          \/ "sources" \in SentTo(q)
          \/ q = r /\ \E k \in DOMAIN v : v[k] = "sources"
    BY <1>2 DEF SentTo
  <1>7. StreamGood'
    <2>1. resets' \in Nat
      BY DEF StreamGood
    <2> QED
      BY <1>3, <1>5, <1>6, <2>1 DEF StreamGood
  <1>8. Grows
    <2> SUFFICES ASSUME NEW q \in Requests
                 PROVE  /\ Len(sent[q]) <= Len(sent'[q])
                        /\ \A k \in 1 .. Len(sent[q]) : sent'[q][k] = sent[q][k]
      BY DEF Grows
    <2>1. CASE q = r
      BY <2>1, <1>2
    <2>2. CASE q # r
      BY <2>2, <1>2, StreamFacts
    <2> QED
      BY <2>1, <2>2
  <1> QED
    BY <1>7, <1>8

(* A turn that goes on without sending, or the history is cleared.         *)
LEMMA Silent ==
    ASSUME StreamGood, sent' = sent,
           phase' \in [Requests -> {"new", "open", "ended", "broken", "gone"}],
           \A q \in Requests : phase[q] = "ended" => phase'[q] = "ended",
           \/ UNCHANGED <<answered, resets>>
           \/ answered' = <<>> /\ resets' = resets + 1
    PROVE  StreamGood' /\ Grows
  <1>1. Grows
    BY StreamFacts DEF Grows
  <1>2. \A q \in Requests : SentTo(q)' = SentTo(q)
    BY DEF SentTo
  <1>3. answered' \in Seq(Requests)
    <2>1. answered \in Seq(Requests) /\ <<>> \in Seq(Requests)
      BY EmptySeq DEF StreamGood
    <2> QED
      BY <2>1
  <1>4. resets' \in Nat /\ (resets' = 0 => answered' = answered /\ resets = 0)
    <2>1. resets \in Nat
      BY DEF StreamGood
    <2> QED
      BY <2>1
  <1> QED
    BY <1>1, <1>2, <1>3, <1>4 DEF StreamGood

LEMMA StreamStep == StreamGood /\ [StreamNext]_streamVars => StreamGood' /\ Grows
  <1> SUFFICES ASSUME StreamGood, [StreamNext]_streamVars
               PROVE  StreamGood' /\ Grows
    OBVIOUS
  <1>1. CASE UNCHANGED streamVars
    BY <1>1, Silent DEF streamVars, StreamGood
  <1>2. ASSUME NEW r \in Requests, Begin(r) PROVE StreamGood' /\ Grows
    BY <1>2, Silent DEF Begin, Close, StreamGood
  <1>3. ASSUME NEW r \in Requests, phase[r] = "open", NEW v \in Seq(Kinds),
               Len(sent[r]) <= Len(v), \A k \in 1 .. Len(sent[r]) : v[k] = sent[r][k],
               \A k \in DOMAIN v : k \in 1 .. Len(sent[r]) \/ v[k] \notin Last,
               sent' = [sent EXCEPT ![r] = v], UNCHANGED <<phase, answered, resets>>
        PROVE  StreamGood' /\ Grows
    <2>1. phase' = [phase EXCEPT ![r] = "open"]
      BY <1>3 DEF StreamGood
    <2>2. answered' \in Seq(Requests)
      BY <1>3 DEF StreamGood
    <2>3. \A k \in DOMAIN v : v[k] \notin Last
      BY <1>3, StreamFacts DEF StreamGood
    <2>4. ~\E k \in DOMAIN v : v[k] = "sources"
      BY <2>3 DEF Last
    <2>5. resets = 0 => \A q \in Requests :
            \/ "sources" \in SentTo(q)
            \/ q = r /\ \E k \in DOMAIN v : v[k] = "sources"
            => \E k \in DOMAIN answered' : answered'[k] = q
      BY <1>3, <2>4 DEF StreamGood
    <2> QED
      BY <1>3, <2>1, <2>2, <2>3, <2>5, Continues
  <1>4. ASSUME NEW r \in Requests, Answer(r) PROVE StreamGood' /\ Grows
    <2> DEFINE v == sent[r] \o <<"sources">>
    <2>1. /\ phase[r] = "open" /\ "ui" \in SentTo(r) /\ answered' = Append(answered, r)
          /\ phase' = [phase EXCEPT ![r] = "ended"] /\ resets' = resets
          /\ sent' = [sent EXCEPT ![r] = v]
      BY <1>4 DEF Answer, Extend, Close
    <2>2. /\ v \in Seq(Kinds) /\ Len(v) = Len(sent[r]) + 1 /\ DOMAIN v = 1 .. (Len(sent[r]) + 1)
          /\ \A k \in 1 .. Len(sent[r]) : v[k] = sent[r][k]
      BY OneEvent, StreamFacts DEF Kinds
    <2>3. /\ answered' \in Seq(Requests) /\ Len(answered) \in Nat
          /\ DOMAIN answered = 1 .. Len(answered) /\ DOMAIN answered' = 1 .. (Len(answered) + 1)
          /\ answered'[Len(answered) + 1] = r
          /\ \A k \in 1 .. Len(answered) : answered'[k] = answered[k]
      <3>1. answered \in Seq(Requests)
        BY DEF StreamGood
      <3> QED
        BY <2>1, <3>1, AppendProperties, LenProperties
    <2>4. \A q \in Requests :
            (\E k \in DOMAIN answered : answered[k] = q) \/ q = r =>
               \E k \in DOMAIN answered' : answered'[k] = q
      BY <2>3
    <2>5. resets = 0 => \A q \in Requests : "sources" \in SentTo(q) \/ q = r =>
                           \E k \in DOMAIN answered' : answered'[k] = q
      BY <2>4 DEF StreamGood
    <2>6. \A k \in DOMAIN v : v[k] \in Last => k = Len(v)
      <3>1. \A k \in 1 .. Len(sent[r]) : sent[r][k] \notin Last
        BY <2>1, StreamFacts DEF StreamGood
      <3>2. \A k \in DOMAIN v : k \in 1 .. Len(sent[r]) \/ k = Len(v)
        BY <2>2, StreamFacts
      <3> QED
        BY <2>2, <3>1, <3>2
    <2>7. Len(sent[r]) <= Len(v)
      BY <2>2, StreamFacts
    <2> HIDE DEF v
    <2> QED
      BY <2>1, <2>2, <2>3, <2>5, <2>6, <2>7, Continues
  <1>5. ASSUME NEW r \in Requests, Refuse(r) PROVE StreamGood' /\ Grows
    <2> DEFINE v == sent[r] \o <<"error">>
    <2>1. /\ phase[r] = "open" /\ answered' = answered
          /\ phase' = [phase EXCEPT ![r] = "ended"] /\ resets' = resets
          /\ sent' = [sent EXCEPT ![r] = v]
      BY <1>5 DEF Refuse, Extend, Close
    <2>2. /\ v \in Seq(Kinds) /\ Len(v) = Len(sent[r]) + 1 /\ DOMAIN v = 1 .. (Len(sent[r]) + 1)
          /\ \A k \in 1 .. Len(sent[r]) : v[k] = sent[r][k]
          /\ v[Len(sent[r]) + 1] = "error"
      BY OneEvent, StreamFacts DEF Kinds
    <2>3. resets = 0 => \A q \in Requests : "sources" \in SentTo(q) =>
                           \E k \in DOMAIN answered' : answered'[k] = q
      BY <2>1 DEF StreamGood
    <2>4. \A k \in DOMAIN v : v[k] \in Last => k = Len(v) /\ v[k] = "error"
      <3>1. \A k \in 1 .. Len(sent[r]) : sent[r][k] \notin Last
        BY <2>1, StreamFacts DEF StreamGood
      <3>2. \A k \in DOMAIN v : k \in 1 .. Len(sent[r]) \/ k = Len(v)
        BY <2>2, StreamFacts
      <3> QED
        BY <2>2, <3>1, <3>2
    <2>5. Len(sent[r]) <= Len(v)
      BY <2>2, StreamFacts
    <2>6. answered' \in Seq(Requests)
      BY <2>1 DEF StreamGood
    <2>7. \A k \in DOMAIN v : v[k] # "sources"
      BY <2>4 DEF Last
    <2> HIDE DEF v
    <2> QED
      BY <2>1, <2>2, <2>3, <2>4, <2>5, <2>6, <2>7, Continues
  <1>6. ASSUME NEW r \in Requests, NEW how \in {"broken", "gone"}, BreakOff(r, how)
        PROVE  StreamGood' /\ Grows
    BY <1>6, Silent DEF BreakOff, Close, StreamGood
  <1>7. CASE Forget
    BY <1>7, Silent DEF Forget, StreamGood
  <1>8. ASSUME NEW r \in Requests, Stream(r) PROVE StreamGood' /\ Grows
    <2> DEFINE n == Len(sent[r])
    <2>1. PICK events \in {<<"token">>, <<"ui">>, <<"token", "ui">>} : Extend(r, events)
      BY <1>8 DEF Stream
    <2>2. phase[r] = "open" /\ UNCHANGED <<phase, answered, resets>> /\ n \in Nat
      BY <1>8, StreamFacts DEF Stream
    <2>3. ASSUME NEW e \in {"token", "ui"}, events = <<e>> PROVE StreamGood' /\ Grows
      <3> DEFINE v == sent[r] \o <<e>>
      <3>1. /\ v \in Seq(Kinds) /\ Len(v) = n + 1 /\ DOMAIN v = 1 .. (n + 1)
            /\ (\A k \in 1 .. n : v[k] = sent[r][k]) /\ v[n + 1] = e
        BY OneEvent, StreamFacts DEF Kinds
      <3>2. sent' = [sent EXCEPT ![r] = v]
        BY <2>1, <2>3 DEF Extend
      <3> HIDE DEF v, n
      <3>3. /\ n <= Len(v)
            /\ \A k \in DOMAIN v : k \in 1 .. n \/ k = n + 1
        BY <2>2, <3>1
      <3>4. \A k \in DOMAIN v : k \in 1 .. n \/ v[k] \notin Last
        BY <3>1, <3>3 DEF Last
      <3> QED
        BY <1>3, <2>2, <3>1, <3>2, <3>3, <3>4 DEF n
    <2>4. CASE events = <<"token", "ui">>
      <3> DEFINE v == sent[r] \o <<"token", "ui">>
      <3>1. /\ v \in Seq(Kinds) /\ Len(v) = n + 2 /\ DOMAIN v = 1 .. (n + 2)
            /\ (\A k \in 1 .. n : v[k] = sent[r][k]) /\ v[n + 1] = "token" /\ v[n + 2] = "ui"
        BY TwoEvents, StreamFacts DEF Kinds
      <3>2. sent' = [sent EXCEPT ![r] = v]
        BY <2>1, <2>4 DEF Extend
      <3> HIDE DEF v, n
      <3>3. /\ n <= Len(v)
            /\ \A k \in DOMAIN v : k \in 1 .. n \/ k = n + 1 \/ k = n + 2
        BY <2>2, <3>1
      <3>4. \A k \in DOMAIN v : k \in 1 .. n \/ v[k] \notin Last
        BY <3>1, <3>3 DEF Last
      <3> QED
        BY <1>3, <2>2, <3>1, <3>2, <3>3, <3>4 DEF n
    <2> QED
      BY <2>1, <2>3, <2>4
  <1> QED
    BY <1>1, <1>2, <1>4, <1>5, <1>6, <1>7, <1>8 DEF StreamNext

-----------------------------------------------------------------------------
(* What a message shows of a stream.                                       *)

LEMMA NextEvent ==
    ASSUME NEW s, NEW kind, NEW n \in Nat
    PROVE  /\ IsFiniteSet(Of(s, kind, n)) /\ Cardinality(Of(s, kind, n)) \in Nat
           /\ s[n + 1] # kind => Of(s, kind, n + 1) = Of(s, kind, n)
           /\ s[n + 1] = kind => /\ Of(s, kind, n + 1) = Of(s, kind, n) \union {n + 1}
                                 /\ Of(s, kind, n + 1) # {}
  <1>1. IsFiniteSet(1 .. n)
    BY FS_Interval
  <1>2. Of(s, kind, n) \in SUBSET (1 .. n)
    BY DEF Of
  <1>3. IsFiniteSet(Of(s, kind, n)) /\ Cardinality(Of(s, kind, n)) \in Nat
    BY <1>1, <1>2, FS_Subset, FS_CardinalityType
  <1>4. 1 .. (n + 1) = (1 .. n) \union {n + 1}
    OBVIOUS
  <1> QED
    BY <1>3, <1>4 DEF Of

LEMMA SameEvents ==
    ASSUME NEW s, NEW t, NEW n, \A k \in 1 .. n : t[k] = s[k], NEW m, NEW r, Shows(m, s, r, n)
    PROVE  Shows(m, t, r, n)
  <1>1. \A kind : Of(t, kind, n) = Of(s, kind, n)
    BY DEF Of
  <1> QED
    BY <1>1 DEF Shows

LEMMA ShowsNothing ==
    ASSUME NEW s, NEW r
    PROVE  Shows(Blank, s, r, 0) /\ Blank \in Messages /\ Blank.streaming
  <1>1. \A kind : Of(s, kind, 0) = {}
    BY DEF Of
  <1> QED
    BY <1>1, FS_EmptySet DEF Shows, Blank, Messages

LEMMA ThreadFacts ==
    ASSUME PageTypes
    PROVE  /\ DOMAIN messages = 1 .. Len(messages) /\ Len(messages) \in Nat
           /\ \A i \in DOMAIN messages : messages[i] \in Messages
           /\ \A i \in DOMAIN messages, m \in Messages :
                 /\ [messages EXCEPT ![i] = m] \in Seq(Messages)
                 /\ DOMAIN [messages EXCEPT ![i] = m] = DOMAIN messages
  <1>1. messages \in Seq(Messages)
    BY DEF PageTypes
  <1> HIDE DEF Messages
  <1> QED
    BY <1>1, LenProperties, ElementOfSeq, ExceptSeq

LEMMA ReaderFacts ==
    ASSUME PageTypes, StreamGood, NEW r \in Requests
    PROVE  /\ reader[r] \in Readers /\ reader[r].open \in BOOLEAN
           /\ reader[r].to \in Nat /\ reader[r].read \in Nat
           /\ Len(sent[r]) \in Nat /\ DOMAIN sent[r] = 1 .. Len(sent[r])
  BY StreamFacts DEF PageTypes, Readers

-----------------------------------------------------------------------------
(* The server goes on: what is shown stays what was sent.                  *)
LEMMA ServerGoesOn ==
    ASSUME IInv, StreamGood', Grows, UNCHANGED client, resets' = resets \/ deleted
    PROVE  IInv'
  <1> USE DEF client
  <1>1. PageTypes'
    BY DEF IInv, PageTypes
  <1>2. OneReader'
    BY DEF IInv, OneReader
  <1>3. SpinnerHasReader'
    BY DEF IInv, SpinnerHasReader
  <1>4. \A r \in Requests : reader[r].read <= Len(sent'[r])
    BY ReaderFacts, StreamFacts DEF IInv, Shown, Grows, StreamGood
  <1>5. \A r \in Requests : \A k \in 1 .. reader[r].read : sent'[r][k] = sent[r][k]
    <2> SUFFICES ASSUME NEW r \in Requests, NEW k \in 1 .. reader[r].read
                 PROVE  sent'[r][k] = sent[r][k]
      OBVIOUS
    <2>1. reader[r].read \in Nat /\ Len(sent[r]) \in Nat /\ reader[r].read <= Len(sent[r])
      BY ReaderFacts DEF IInv, Shown
    <2>2. k \in 1 .. Len(sent[r])
      BY <2>1
    <2> QED
      BY <2>2 DEF Grows
  <1>6. \A r \in Requests : \A m : Shows(m, sent[r], r, reader[r].read)
                                  => Shows(m, sent'[r], r, reader[r].read)
    BY <1>5, SameEvents
  <1>7. Shown'
    BY <1>4, <1>5, <1>6 DEF IInv, Shown
  <1> QED
    BY <1>1, <1>2, <1>3, <1>7 DEF IInv

(* The open reader takes a step: its message shows m, the first n events,  *)
(* and it stays open or is done with.                                      *)
LEMMA ReaderMoves ==
    ASSUME IInv, UNCHANGED <<streamVars, deleted, reloads>>,
           NEW r \in Requests, reader[r].open,
           NEW m \in Messages, messages' = [messages EXCEPT ![reader[r].to] = m],
           NEW n \in Nat, n <= Len(sent[r]), Shows(m, sent[r], r, n),
           NEW open \in BOOLEAN,
           reader' \in [Requests -> Readers],
           reader'[r].open = open, reader'[r].to = reader[r].to, reader'[r].read = n,
           \A q \in Requests : q # r => reader'[q] = reader[q],
           open => /\ UNCHANGED <<controller, streaming>>
                   /\ ~m.streaming => \E k \in 1 .. n : sent[r][k] \in Last,
           ~open => controller' = Nobody /\ streaming' = FALSE /\ ~m.streaming
    PROVE  IInv'
  <1> DEFINE i == reader[r].to
             t == reader'[r]
  <1>1. /\ i \in DOMAIN messages /\ streaming /\ ~deleted /\ controller = r
        /\ \A q \in Requests : reader[q].open => q = r
    BY ClientAssumption DEF IInv, OneReader
  <1>2. /\ messages' \in Seq(Messages) /\ DOMAIN messages' = DOMAIN messages
        /\ messages'[i] = m /\ \A j \in DOMAIN messages : j # i => messages'[j] = messages[j]
    BY <1>1, ThreadFacts DEF IInv
  <1>3. t.open = open /\ t.to = i /\ t.read = n
    OBVIOUS
  <1>5. /\ reader'[r] = t /\ \A q \in Requests : q # r => reader'[q] = reader[q]
        /\ reader' \in [Requests -> Readers]
    OBVIOUS
  <1> HIDE DEF t
  <1> HIDE DEF i
  <1>6. UNCHANGED <<phase, sent, answered, resets>>
    BY DEF streamVars
  <1>7. StreamGood'
    BY StreamStep DEF IInv
  <1>8. PageTypes'
    BY <1>2, <1>5 DEF IInv, PageTypes
  <1>9. OneReader'
    <2>1. CASE open
      BY <2>1, <1>1, <1>2, <1>3, <1>5, <1>6 DEF IInv, OneReader
    <2>2. CASE ~open
      <3>1. \A q \in Requests : ~reader'[q].open
        BY <2>2, <1>1, <1>3, <1>5
      <3> QED
        BY <2>2, <3>1, <1>1, <1>6, ClientAssumption DEF IInv, OneReader
    <2> QED
      BY <2>1, <2>2
  <1>10. Shown'
    <2>1. \A q \in Requests : reader'[q].read <= Len(sent'[q])
      BY <1>3, <1>5, <1>6 DEF IInv, Shown
    <2>2. \A q \in Requests : reader'[q].open =>
            /\ Shows(messages'[reader'[q].to], sent'[q], q, reader'[q].read)
            /\ ~messages'[reader'[q].to].streaming =>
                  \E k \in 1 .. reader'[q].read : sent'[q][k] \in Last
      BY <1>1, <1>2, <1>3, <1>5, <1>6
    <2>3. \A j \in DOMAIN messages' : \E q \in Requests :
            reader'[q].to = j /\ Shows(messages'[j], sent'[q], q, reader'[q].read)
      <3> SUFFICES ASSUME NEW j \in DOMAIN messages
                   PROVE  \E q \in Requests :
                            reader'[q].to = j /\ Shows(messages'[j], sent'[q], q, reader'[q].read)
        BY <1>2
      <3>1. CASE j = i
        BY <3>1, <1>2, <1>3, <1>5, <1>6
      <3>2. CASE j # i
        <4>1. PICK q \in Requests : reader[q].to = j /\ Shows(messages[j], sent[q], q, reader[q].read)
          BY DEF IInv, Shown
        <4>2. q # r
          BY <3>2, <4>1 DEF i
        <4> QED
          BY <3>2, <4>1, <4>2, <1>2, <1>5, <1>6
      <3> QED
        BY <3>1, <3>2
    <2> QED
      BY <2>1, <2>2, <2>3 DEF Shown
  <1>11. SpinnerHasReader'
    <2> SUFFICES ASSUME reloads = 0, NEW j \in DOMAIN messages, messages'[j].streaming
                 PROVE  \E q \in Requests : reader'[q].open /\ reader'[q].to = j
      BY <1>2 DEF SpinnerHasReader
    <2>1. CASE j = i
      BY <2>1, <1>2, <1>3, <1>5
    <2>2. CASE j # i
      <3>1. PICK q \in Requests : reader[q].open /\ reader[q].to = j
        BY <2>2, <1>2 DEF IInv, SpinnerHasReader
      <3> QED
        BY <2>2, <3>1, <1>1 DEF i
    <2> QED
      BY <2>1, <2>2
  <1> QED
    BY <1>7, <1>8, <1>9, <1>10, <1>11 DEF IInv

(* A question is run: its message starts from nothing.                     *)
LEMMA QuestionRuns ==
    ASSUME IInv, UNCHANGED <<streamVars, deleted, reloads>>, ~streaming, ~deleted,
           NEW r \in Requests, NEW i \in Nat, NEW thread \in Seq(Messages),
           i \in DOMAIN thread, DOMAIN thread = DOMAIN messages \union {i}, i # 0,
           \A j \in DOMAIN messages : thread[j] = messages[j],
           RunQuestion(r, i, thread)
    PROVE  IInv'
  <1> DEFINE t == [open |-> TRUE, to |-> i, read |-> 0]
  <1>1. /\ reader[r].to = 0 /\ controller' = r /\ streaming' = TRUE
        /\ reader' = [reader EXCEPT ![r] = t] /\ messages' = [thread EXCEPT ![i] = Blank]
    BY DEF RunQuestion, Fresh, Unasked
  <1>2. \A q \in Requests : ~reader[q].open
    BY ClientAssumption DEF IInv, OneReader
  <1>3. /\ messages' \in Seq(Messages) /\ DOMAIN messages' = DOMAIN thread
        /\ messages'[i] = Blank
        /\ \A j \in DOMAIN thread : j # i => messages'[j] = messages[j]
    <2>1. Blank \in Messages
      BY ShowsNothing
    <2>2. messages' \in Seq(Messages)
      <3> HIDE DEF Messages
      <3> QED
        BY <1>1, <2>1, ExceptSeq
    <2> QED
      BY <1>1, <2>2
  <1>4. t \in Readers /\ t.open /\ t.to = i /\ t.read = 0
    BY DEF Readers
  <1>5. DOMAIN reader = Requests /\ reader \in [Requests -> Readers]
    BY DEF IInv, PageTypes
  <1> HIDE DEF t
  <1>6. /\ reader'[r] = t /\ \A q \in Requests : q # r => reader'[q] = reader[q]
        /\ reader' \in [Requests -> Readers]
    BY <1>1, <1>4, <1>5
  <1>7. UNCHANGED <<phase, sent, answered, resets>>
    BY DEF streamVars
  <1>8. StreamGood'
    BY StreamStep DEF IInv
  <1>9. PageTypes'
    BY <1>1, <1>3, <1>6 DEF IInv, PageTypes
  <1>10. OneReader'
    BY <1>1, <1>2, <1>3, <1>4, <1>6, <1>7, ClientAssumption DEF IInv, OneReader
  <1>11. Shown'
    <2>1. \A q \in Requests : reader'[q].read <= Len(sent'[q])
      BY <1>4, <1>6, <1>7, StreamFacts DEF IInv, Shown
    <2>2. \A q \in Requests : reader'[q].open =>
            /\ Shows(messages'[reader'[q].to], sent'[q], q, reader'[q].read)
            /\ ~messages'[reader'[q].to].streaming =>
                  \E k \in 1 .. reader'[q].read : sent'[q][k] \in Last
      BY <1>2, <1>3, <1>4, <1>6, <1>7, ShowsNothing
    <2>3. \A j \in DOMAIN messages' : \E q \in Requests :
            reader'[q].to = j /\ Shows(messages'[j], sent'[q], q, reader'[q].read)
      <3> SUFFICES ASSUME NEW j \in DOMAIN thread
                   PROVE  \E q \in Requests :
                            reader'[q].to = j /\ Shows(messages'[j], sent'[q], q, reader'[q].read)
        BY <1>3
      <3>1. CASE j = i
        BY <3>1, <1>3, <1>4, <1>6, ShowsNothing
      <3>2. CASE j # i
        <4>1. j \in DOMAIN messages /\ j # 0
          BY <3>2, ThreadFacts DEF IInv
        <4>2. PICK q \in Requests : reader[q].to = j /\ Shows(messages[j], sent[q], q, reader[q].read)
          BY <4>1 DEF IInv, Shown
        <4>3. q # r
          BY <4>1, <4>2, <1>1
        <4> QED
          BY <3>2, <4>2, <4>3, <1>3, <1>6, <1>7
      <3> QED
        BY <3>1, <3>2
    <2> QED
      BY <2>1, <2>2, <2>3 DEF Shown
  <1>12. SpinnerHasReader'
    <2> SUFFICES ASSUME reloads = 0, NEW j \in DOMAIN thread, messages'[j].streaming
                 PROVE  \E q \in Requests : reader'[q].open /\ reader'[q].to = j
      BY <1>3 DEF SpinnerHasReader
    <2>1. CASE j = i
      BY <2>1, <1>4, <1>6
    <2>2. CASE j # i
      BY <2>2, <1>2, <1>3 DEF IInv, SpinnerHasReader
    <2> QED
      BY <2>1, <2>2
  <1> QED
    BY <1>8, <1>9, <1>10, <1>11, <1>12 DEF IInv

-----------------------------------------------------------------------------
(* One step of the page.                                                   *)

LEMMA EventIsRead ==
    ASSUME IInv, NEW r \in Requests, ReadEvent(r), UNCHANGED streamVars
    PROVE  IInv'
  <1> DEFINE i == reader[r].to
             k == reader[r].read
             n == k + 1
             e == sent[r][n]
             old == messages[i]
             m == CASE e = "token" -> [old EXCEPT !.text = [of |-> r, tokens |-> Cardinality(Of(sent[r], "token", n))]]
                    [] e = "ui" -> [old EXCEPT !.ui = r]
                    [] e = "sources" -> [old EXCEPT !.sources = r, !.streaming = FALSE]
                    [] OTHER -> [old EXCEPT !.error = TRUE, !.streaming = FALSE]
  <1>1. /\ reader[r].open /\ k \in Nat /\ n \in Nat /\ n <= Len(sent[r]) /\ n \in DOMAIN sent[r]
        /\ i \in DOMAIN messages /\ ~deleted /\ old \in Messages /\ e \in Kinds
        /\ Shows(old, sent[r], r, k)
    <2>1. /\ reader[r].open /\ k < Len(sent[r])
      BY DEF ReadEvent
    <2>2. k \in Nat /\ Len(sent[r]) \in Nat /\ DOMAIN sent[r] = 1 .. Len(sent[r])
      BY ReaderFacts DEF IInv
    <2>3. n \in Nat /\ n <= Len(sent[r]) /\ n \in DOMAIN sent[r]
      BY <2>1, <2>2
    <2>4. i \in DOMAIN messages /\ ~deleted
      BY <2>1, ClientAssumption DEF IInv, OneReader
    <2>5. old \in Messages
      BY <2>4, ThreadFacts DEF IInv
    <2>6. e \in Kinds
      BY <2>3, StreamFacts DEF IInv
    <2>7. Shows(old, sent[r], r, k)
      BY <2>1 DEF IInv, Shown
    <2> QED
      BY <2>1, <2>2, <2>3, <2>4, <2>5, <2>6, <2>7
  <1>2. messages' = [messages EXCEPT ![i] = m]
    BY <1>1 DEF ReadEvent, Show, Among, Of
  <1>3. /\ reader' \in [Requests -> Readers]
        /\ reader'[r].open = TRUE /\ reader'[r].to = i /\ reader'[r].read = n
        /\ \A q \in Requests : q # r => reader'[q] = reader[q]
    <2>1. reader' = [reader EXCEPT ![r].read = n]
      BY DEF ReadEvent
    <2>2. reader \in [Requests -> Readers]
      BY DEF IInv, PageTypes
    <2> HIDE DEF n
    <2> QED
      BY <1>1, <2>1, <2>2 DEF Readers
  <1>4. /\ \A kind \in Kinds : e # kind => Of(sent[r], kind, n) = Of(sent[r], kind, k)
        /\ Of(sent[r], e, n) # {}
        /\ Cardinality(Of(sent[r], "token", n)) \in Nat
    <2> HIDE DEF k
    <2>1. ASSUME NEW kind
          PROVE  /\ e # kind => Of(sent[r], kind, n) = Of(sent[r], kind, k)
                 /\ e = kind => Of(sent[r], kind, n) # {}
      <3>1. k \in Nat
        BY <1>1
      <3> QED
        BY <3>1, NextEvent, Zenon
    <2>2. Cardinality(Of(sent[r], "token", n)) \in Nat
      BY <1>1, NextEvent
    <2> QED
      BY <2>1, <2>2
  <1> HIDE DEF n, k, old, i
  <1>5. /\ m \in Messages /\ Shows(m, sent[r], r, n)
        /\ m.streaming = (old.streaming /\ e \notin Last)
    <2>1. CASE e = "token"
      <3>1. m = [old EXCEPT !.text = [of |-> r, tokens |-> Cardinality(Of(sent[r], "token", n))]]
        BY <2>1
      <3> HIDE DEF m
      <3> QED
        BY <2>1, <3>1, <1>1, <1>4 DEF Messages, Shows, Kinds, Last
    <2>2. CASE e = "ui"
      <3>1. m = [old EXCEPT !.ui = r]
        BY <2>2
      <3> HIDE DEF m
      <3> QED
        BY <2>2, <3>1, <1>1, <1>4 DEF Messages, Shows, Kinds, Last
    <2>3. CASE e = "sources"
      <3>1. m = [old EXCEPT !.sources = r, !.streaming = FALSE]
        BY <2>3
      <3> HIDE DEF m
      <3> QED
        BY <2>3, <3>1, <1>1, <1>4 DEF Messages, Shows, Kinds, Last
    <2>4. CASE e = "error"
      <3>1. m = [old EXCEPT !.error = TRUE, !.streaming = FALSE]
        BY <2>4
      <3> HIDE DEF m
      <3> QED
        BY <2>4, <3>1, <1>1, <1>4 DEF Messages, Shows, Kinds, Last
    <2> QED
      BY <2>1, <2>2, <2>3, <2>4, <1>1 DEF Kinds
  <1>6. ~m.streaming => \E j \in 1 .. n : sent[r][j] \in Last
    <2>1. CASE e \in Last
      BY <2>1, <1>1 DEF n
    <2>2. CASE ~old.streaming
      <3>1. PICK j \in 1 .. k : sent[r][j] \in Last
        BY <2>2, <1>1 DEF IInv, Shown, i, k, old
      <3>2. j \in 1 .. n
        BY <1>1 DEF n
      <3> QED
        BY <3>1, <3>2
    <2> QED
      BY <1>5, <2>1, <2>2
  <1>7. UNCHANGED <<streamVars, deleted, reloads, controller, streaming>>
    BY DEF ReadEvent, page
  <1> HIDE DEF m, e
  <1> QED
    BY <1>1, <1>2, <1>3, <1>5, <1>6, <1>7, ReaderMoves DEF i

LEMMA QuestionSettles ==
    ASSUME IInv, NEW r \in Requests, reader[r].open, NEW failed \in BOOLEAN,
           Settle(r, failed), Finally(r), UNCHANGED streamVars
    PROVE  IInv'
  <1> DEFINE i == reader[r].to
             old == messages[i]
             m == [old EXCEPT !.streaming = FALSE, !.error = @ \/ failed]
  <1>1. i \in DOMAIN messages /\ ~deleted /\ old \in Messages /\ Shows(old, sent[r], r, reader[r].read)
    <2>1. i \in DOMAIN messages /\ ~deleted
      BY ClientAssumption DEF IInv, OneReader
    <2>2. old \in Messages
      BY <2>1, ThreadFacts DEF IInv
    <2> QED
      BY <2>1, <2>2 DEF IInv, Shown
  <1>2. messages' = [messages EXCEPT ![i] = m]
    BY <1>1 DEF Settle, Show
  <1>3. /\ reader' \in [Requests -> Readers]
        /\ reader'[r].open = FALSE /\ reader'[r].to = i /\ reader'[r].read = reader[r].read
        /\ \A q \in Requests : q # r => reader'[q] = reader[q]
    <2>1. reader' = [reader EXCEPT ![r].open = FALSE]
      BY DEF Finally
    <2>2. reader \in [Requests -> Readers]
      BY DEF IInv, PageTypes
    <2> QED
      BY <2>1, <2>2 DEF Readers
  <1>4. m \in Messages /\ ~m.streaming /\ Shows(m, sent[r], r, reader[r].read)
    <2> HIDE DEF old
    <2>1. m \in Messages
      BY <1>1 DEF Messages
    <2>2. /\ ~m.streaming /\ m.text = old.text /\ m.ui = old.ui /\ m.sources = old.sources
      BY <1>1 DEF Messages
    <2> QED
      BY <1>1, <2>1, <2>2 DEF Shows
  <1>5. /\ UNCHANGED <<streamVars, deleted, reloads>> /\ controller' = Nobody /\ streaming' = FALSE
        /\ reader[r].read \in Nat /\ reader[r].read <= Len(sent[r])
    BY ReaderFacts DEF Finally, IInv, Shown
  <1> HIDE DEF m, old
  <1> QED
    BY <1>2, <1>3, <1>4, <1>5, ReaderMoves

LEMMA ThreadIsLeft ==
    ASSUME IInv, Reload \/ DeleteThread, UNCHANGED streamVars
    PROVE  IInv'
  <1>1. UNCHANGED <<phase, sent, answered, resets>>
    BY DEF streamVars
  <1>2. StreamGood'
    BY StreamStep DEF IInv
  <1>3. \A r \in Requests : /\ reader'[r].open = FALSE
                            /\ reader'[r].to = reader[r].to /\ reader'[r].read = reader[r].read
    <2>1. \A r \in Requests : reader[r] \in Readers
      BY ReaderFacts DEF IInv
    <2>2. CASE Reload
      BY <2>1, <2>2 DEF Reload, Readers
    <2>3. CASE DeleteThread
      BY <2>1, <2>3 DEF DeleteThread, Readers, IInv, OneReader
    <2> QED
      BY <2>2, <2>3
  <1>4. reader' \in [Requests -> Readers]
    <2>1. \A r \in Requests : reader[r] \in Readers
      BY ReaderFacts DEF IInv
    <2>2. CASE Reload
      BY <2>1, <2>2 DEF Reload, Readers
    <2>3. CASE DeleteThread
      BY <2>1, <2>3 DEF DeleteThread, Readers
    <2> QED
      BY <2>2, <2>3
  <1>5. /\ controller' = Nobody /\ streaming' = FALSE /\ deleted' \in BOOLEAN /\ reloads' \in Nat
        /\ messages' \in Seq(Messages)
        /\ deleted' => messages' = <<>>
        /\ ~deleted' => messages' = messages /\ ~deleted /\ reloads' # 0
    <2>1. CASE Reload
      BY <2>1 DEF Reload, IInv, PageTypes
    <2>2. CASE DeleteThread
      <3>1. <<>> \in Seq(Messages)
        BY EmptySeq
      <3> QED
        BY <2>2, <3>1 DEF DeleteThread, IInv, PageTypes
    <2> QED
      BY <2>1, <2>2
  <1>6. PageTypes'
    BY <1>4, <1>5 DEF PageTypes
  <1>7. OneReader'
    BY <1>1, <1>3, <1>5, ClientAssumption DEF IInv, OneReader
  <1>8. DOMAIN <<>> = {}
    OBVIOUS
  <1>9. Shown'
    BY <1>1, <1>3, <1>5, <1>8 DEF IInv, Shown
  <1>10. SpinnerHasReader'
    BY <1>5, <1>8 DEF SpinnerHasReader
  <1> QED
    BY <1>2, <1>6, <1>7, <1>9, <1>10 DEF IInv

LEMMA Sends ==
    ASSUME IInv, NEW r \in Requests, SendMessage(r), UNCHANGED streamVars
    PROVE  IInv'
  <1> DEFINE i == Len(messages) + 1
             thread == Append(messages, Blank)
  <1>1. messages \in Seq(Messages) /\ Blank \in Messages /\ Len(messages) \in Nat
        /\ DOMAIN messages = 1 .. Len(messages)
    BY ThreadFacts, ShowsNothing DEF IInv, PageTypes
  <1>2. /\ thread \in Seq(Messages) /\ Len(thread) = i
        /\ \A j \in DOMAIN messages : thread[j] = messages[j]
    <2> HIDE DEF Messages
    <2> QED
      BY <1>1, AppendProperties
  <1>3. DOMAIN thread = 1 .. i
    BY <1>2, LenProperties
  <1>4. i \in Nat /\ i # 0 /\ i \in DOMAIN thread /\ DOMAIN thread = DOMAIN messages \union {i}
    BY <1>1, <1>3
  <1>5. RunQuestion(r, i, thread) /\ ~streaming /\ ~deleted /\ UNCHANGED <<streamVars, deleted, reloads>>
    BY DEF SendMessage
  <1> HIDE DEF i, thread
  <1> QED
    BY <1>2, <1>4, <1>5, QuestionRuns

LEMMA Reruns ==
    ASSUME IInv, NEW r \in Requests, NEW i \in DOMAIN messages, RerunFrom(r, i), UNCHANGED streamVars
    PROVE  IInv'
  <1>1. messages \in Seq(Messages) /\ i \in Nat /\ i # 0
    BY ThreadFacts DEF IInv, PageTypes
  <1>2. RunQuestion(r, i, messages) /\ ~streaming /\ ~deleted /\ UNCHANGED <<streamVars, deleted, reloads>>
    BY DEF RerunFrom
  <1> QED
    BY <1>1, <1>2, QuestionRuns

-----------------------------------------------------------------------------
(* The invariant holds whatever is asked, stopped, run again, reloaded or  *)
(* deleted, and however the server's turns go on meanwhile.                *)
THEOREM Invariance == ClientSpec => []IInv
  <1>1. ClientInit => IInv
    <2> SUFFICES ASSUME ClientInit PROVE IInv
      OBVIOUS
    <2>1. /\ phase = [r \in Requests |-> "new"] /\ sent = [r \in Requests |-> <<>>]
          /\ answered = <<>> /\ resets = 0
      BY DEF ClientInit, StreamInit
    <2>2. /\ messages = <<>> /\ reader = [r \in Requests |-> NoReader] /\ controller = Nobody
          /\ streaming = FALSE /\ deleted = FALSE /\ reloads = 0
      BY DEF ClientInit
    <2>3. /\ <<>> \in Seq(Kinds) /\ <<>> \in Seq(Requests) /\ <<>> \in Seq(Messages)
          /\ DOMAIN <<>> = {} /\ Len(<<>>) = 0
      BY EmptySeq
    <2>4. StreamGood
      BY <2>1, <2>3 DEF StreamGood, SentTo
    <2>5. NoReader \in Readers /\ NoReader.open = FALSE /\ NoReader.read = 0
      BY DEF NoReader, Readers
    <2>6. PageTypes
      BY <2>2, <2>3, <2>5 DEF PageTypes
    <2>7. OneReader /\ SpinnerHasReader
      BY <2>1, <2>2, <2>3, <2>5, ClientAssumption DEF OneReader, SpinnerHasReader
    <2>8. Shown
      BY <2>1, <2>2, <2>3, <2>5 DEF Shown
    <2> QED
      BY <2>4, <2>6, <2>7, <2>8 DEF IInv
  <1>2. IInv /\ [ClientNext]_allVars => IInv'
    <2> SUFFICES ASSUME IInv, [ClientNext]_allVars PROVE IInv'
      OBVIOUS
    <2>1. ASSUME [StreamNext]_streamVars, UNCHANGED client, resets' = resets \/ deleted PROVE IInv'
      BY <2>1, StreamStep, ServerGoesOn DEF IInv
    <2>2. CASE UNCHANGED allVars
      BY <2>1, <2>2 DEF allVars, streamVars
    <2>3. CASE ((\E r \in Requests : Arrives(r) \/ Proceeds(r) \/ Leaves(r)) \/ Clears) /\ UNCHANGED client
      <3>1. StreamNext
        BY <2>3 DEF StreamNext, Arrives, Proceeds, Leaves, Clears
      <3>2. resets' = resets \/ deleted
        BY <2>3 DEF Arrives, Proceeds, Leaves, Clears, Begin, Stream, Answer, Refuse, BreakOff
      <3> QED
        BY <2>1, <2>3, <3>1, <3>2
    <2>4. CASE PageStep /\ UNCHANGED streamVars
      <3>1. ASSUME NEW r \in Requests, StreamEnds(r) PROVE IInv'
        BY <2>4, <3>1, QuestionSettles DEF StreamEnds
      <3>2. ASSUME NEW r \in Requests, StreamBreaks(r) PROVE IInv'
        BY <2>4, <3>2, QuestionSettles DEF StreamBreaks
      <3>3. CASE HandleStop
        <4>1. controller \in Requests /\ reader[controller].open
          BY <3>3 DEF HandleStop, IInv, PageTypes, OneReader
        <4> QED
          BY <2>4, <3>3, <4>1, QuestionSettles DEF HandleStop
      <3> QED
        BY <2>4, <3>1, <3>2, <3>3, Sends, Reruns, EventIsRead, ThreadIsLeft DEF PageStep
    <2> QED
      BY <2>2, <2>3, <2>4 DEF ClientNext
  <1> QED
    BY <1>1, <1>2, PTL DEF ClientSpec

(* A message shows one answer: text, chips and sources of one request, the *)
(* last one run for it, in the order they were sent and with nothing left  *)
(* out (Chat.tsx:191-193, 209-239).                                        *)
THEOREM OneAnswerShown == ClientSpec => []MessageIsOneAnswer
  <1>1. IInv => MessageIsOneAnswer
    <2> SUFFICES ASSUME IInv, NEW i \in DOMAIN messages,
                        NEW r \in {messages[i].text.of, messages[i].ui, messages[i].sources} \ {Nobody}
                 PROVE  LET m == messages[i] IN
                        /\ {m.text.of, m.ui, m.sources} \ {Nobody} = {r}
                        /\ m.text = [of |-> IF m.text.tokens = 0 THEN Nobody ELSE r,
                                     tokens |-> Cardinality(Among("token", r, reader[r].read))]
                        /\ m.sources = r => m.ui = r
      BY DEF MessageIsOneAnswer
    <2>1. PICK q \in Requests : reader[q].to = i /\ Shows(messages[i], sent[q], q, reader[q].read)
      BY DEF IInv, Shown
    <2> DEFINE m == messages[i]
               n == reader[q].read
               tokens == Of(sent[q], "token", n)
    <2>2. /\ m.text.of = IF tokens = {} THEN Nobody ELSE q
          /\ m.text.tokens = Cardinality(tokens)
          /\ m.text = [of |-> IF tokens = {} THEN Nobody ELSE q, tokens |-> Cardinality(tokens)]
          /\ m.ui = IF Of(sent[q], "ui", n) = {} THEN Nobody ELSE q
          /\ m.sources = IF Of(sent[q], "sources", n) = {} THEN Nobody ELSE q
      BY <2>1 DEF Shows
    <2>3. q # Nobody /\ n \in Nat /\ n <= Len(sent[q])
      BY ClientAssumption, ReaderFacts DEF IInv, Shown
    <2> HIDE DEF m, tokens
    <2>4. r = q
      BY <2>2 DEF m
    <2>5. {m.text.of, m.ui, m.sources} \ {Nobody} = {r}
      BY <2>2, <2>3, <2>4 DEF m
    <2>6. Cardinality(tokens) = 0 <=> tokens = {}
      BY <2>3, NextEvent, FS_EmptySet DEF tokens
    <2>7. tokens = Among("token", r, reader[r].read)
      BY <2>4 DEF tokens, Of, Among
    <2>8. m.sources = r => m.ui = r
      <3> SUFFICES ASSUME Of(sent[q], "sources", n) # {}
                   PROVE  Of(sent[q], "ui", n) # {}
        BY <2>2, <2>3, <2>4
      <3>1. PICK k \in 1 .. n : sent[q][k] = "sources"
        BY DEF Of
      <3>2. k \in DOMAIN sent[q]
        BY <2>3, ReaderFacts DEF IInv
      <3>3. PICK j \in 1 .. k : sent[q][j] = "ui"
        BY <3>1, <3>2 DEF IInv, StreamGood
      <3>4. j \in 1 .. n
        BY <2>3
      <3> QED
        BY <3>3, <3>4 DEF Of
    <2>9. m.text = [of |-> IF m.text.tokens = 0 THEN Nobody ELSE r,
                    tokens |-> Cardinality(Among("token", r, reader[r].read))]
      BY <2>2, <2>4, <2>6, <2>7
    <2> QED
      BY <2>5, <2>8, <2>9 DEF m
  <1> QED
    BY <1>1, Invariance, PTL

(* What the student has seen to its end, the server goes on from: an       *)
(* answer shown with its sources is in the history of the thread.          *)
THEOREM CompleteKept == ClientSpec => []CompleteIsRemembered
  <1>1. IInv => CompleteIsRemembered
    <2> SUFFICES ASSUME IInv, NEW i \in DOMAIN messages, messages[i].sources # Nobody
                 PROVE  \E k \in DOMAIN answered : answered[k] = messages[i].sources
      BY DEF CompleteIsRemembered
    <2>1. PICK q \in Requests : Shows(messages[i], sent[q], q, reader[q].read)
      BY DEF IInv, Shown
    <2>2. messages[i].sources = q /\ Of(sent[q], "sources", reader[q].read) # {}
      BY <2>1 DEF Shows
    <2>3. PICK k \in 1 .. reader[q].read : sent[q][k] = "sources"
      BY <2>2 DEF Of
    <2>4. reader[q].read \in Nat /\ reader[q].read <= Len(sent[q]) /\ DOMAIN sent[q] = 1 .. Len(sent[q])
          /\ Len(sent[q]) \in Nat
      BY ReaderFacts DEF IInv, Shown
    <2>5. k \in DOMAIN sent[q]
      BY <2>4
    <2>6. "sources" \in SentTo(q)
      BY <2>3, <2>5 DEF SentTo
    <2>7. ~deleted /\ resets = 0
      <3>1. DOMAIN <<>> = {}
        OBVIOUS
      <3> QED
        BY <3>1 DEF IInv, OneReader
    <2> QED
      BY <2>2, <2>6, <2>7 DEF IInv, StreamGood
  <1> QED
    BY <1>1, Invariance, PTL

(* A waiting message has somebody who waits for it, unless the page was    *)
(* reloaded: every way out of runQuestion takes the animation away         *)
(* (Chat.tsx:249-266).                                                     *)
THEOREM SpinnerSafe == ClientSpec => []SpinnerHasReader
  <1>1. IInv => SpinnerHasReader
    BY DEF IInv
  <1> QED
    BY <1>1, Invariance, PTL

(* Nothing arrives late: what an answer says once it has settled changes   *)
(* only when its question is run again, but for an error put over it.      *)
THEOREM SettledKept == ClientSpec => SettledStays
  <1>1. ASSUME IInv, IInv', [ClientNext]_allVars, NEW i \in DOMAIN messages,
               ~messages[i].streaming, ~deleted'
        PROVE  messages'[i] \in {[messages[i] EXCEPT !.error = e] : e \in BOOLEAN} \union {Blank}
    <2> DEFINE old == messages[i]
               Stays == messages'[i] \in {[old EXCEPT !.error = e] : e \in BOOLEAN} \union {Blank}
    <2>1. old \in Messages
      BY <1>1, ThreadFacts DEF IInv
    <2>2. ASSUME messages' = messages PROVE Stays
      <3> HIDE DEF old
      <3>1. old = [old EXCEPT !.error = old.error] /\ old.error \in BOOLEAN
        BY <2>1 DEF Messages
      <3> QED
        BY <2>2, <3>1 DEF old
    <2>3. ASSUME NEW r \in Requests, reader[r].open, NEW failed \in BOOLEAN, Settle(r, failed)
          PROVE  Stays
      <3>1. CASE reader[r].to = i
        <4>1. messages'[i] = [old EXCEPT !.streaming = FALSE, !.error = @ \/ failed] \/ messages' = messages
          BY <2>3, <3>1 DEF Settle, Show
        <4>2. CASE messages'[i] = [old EXCEPT !.streaming = FALSE, !.error = @ \/ failed]
          <5>1. ~old.streaming
            BY <1>1
          <5> HIDE DEF old
          <5>2. [old EXCEPT !.streaming = FALSE, !.error = @ \/ failed]
                  = [old EXCEPT !.error = old.error \/ failed]
            BY <2>1, <5>1 DEF Messages
          <5>3. (old.error \/ failed) \in BOOLEAN
            OBVIOUS
          <5> QED
            BY <4>2, <5>2, <5>3
        <4> QED
          BY <2>2, <4>1, <4>2
      <3>2. CASE reader[r].to # i
        <4>1. messages'[i] = messages[i]
          BY <2>3, <3>2 DEF Settle, Show
        <4> HIDE DEF old
        <4>2. old = [old EXCEPT !.error = old.error] /\ old.error \in BOOLEAN
          BY <2>1 DEF Messages
        <4> QED
          BY <4>1, <4>2 DEF old
      <3> QED
        BY <3>1, <3>2
    <2>4. ASSUME NEW r \in Requests, ReadEvent(r) PROVE Stays
      <3>1. /\ reader[r].open /\ reader[r].read < Len(sent[r])
        BY <2>4 DEF ReadEvent
      <3>2. reader[r].to # i
        <4> SUFFICES ASSUME reader[r].to = i PROVE FALSE
          OBVIOUS
        <4>1. PICK k \in 1 .. reader[r].read : sent[r][k] \in Last
          BY <1>1, <3>1 DEF IInv, Shown
        <4>2. reader[r].read \in Nat /\ Len(sent[r]) \in Nat /\ DOMAIN sent[r] = 1 .. Len(sent[r])
          BY <1>1, ReaderFacts DEF IInv
        <4>3. k \in DOMAIN sent[r] /\ k # Len(sent[r])
          BY <3>1, <4>2
        <4> QED
          BY <1>1, <4>1, <4>3 DEF IInv, StreamGood
      <3>3. messages'[i] = messages[i]
        BY <2>4, <3>2 DEF ReadEvent, Show
      <3> HIDE DEF old
      <3>4. old = [old EXCEPT !.error = old.error] /\ old.error \in BOOLEAN
        BY <2>1 DEF Messages
      <3> QED
        BY <3>3, <3>4 DEF old
    <2>5. CASE UNCHANGED client
      BY <2>2, <2>5 DEF client
    <2>6. CASE PageStep
      <3>1. ASSUME NEW r \in Requests, SendMessage(r) PROVE Stays
        <4>1. /\ messages' = [Append(messages, Blank) EXCEPT ![Len(messages) + 1] = Blank]
          BY <3>1 DEF SendMessage, RunQuestion
        <4>2. /\ i # Len(messages) + 1 /\ i \in DOMAIN Append(messages, Blank)
              /\ Append(messages, Blank)[i] = messages[i]
          <5>1. messages \in Seq(Messages) /\ Blank \in Messages /\ Len(messages) \in Nat
                /\ DOMAIN messages = 1 .. Len(messages)
            BY <1>1, ThreadFacts, ShowsNothing DEF IInv, PageTypes
          <5> HIDE DEF Messages
          <5>2. Append(messages, Blank) \in Seq(Messages)
                /\ Len(Append(messages, Blank)) = Len(messages) + 1
                /\ Append(messages, Blank)[i] = messages[i]
            BY <5>1, AppendProperties
          <5>3. DOMAIN Append(messages, Blank) = 1 .. (Len(messages) + 1)
            BY <5>2, LenProperties
          <5> QED
            BY <5>1, <5>2, <5>3
        <4>3. messages'[i] = messages[i]
          BY <4>1, <4>2
        <4> HIDE DEF old
        <4>4. old = [old EXCEPT !.error = old.error] /\ old.error \in BOOLEAN
          BY <2>1 DEF Messages
        <4> QED
          BY <4>3, <4>4 DEF old
      <3>2. ASSUME NEW r \in Requests, NEW j \in DOMAIN messages, RerunFrom(r, j) PROVE Stays
        <4>1. messages' = [messages EXCEPT ![j] = Blank]
          BY <3>2 DEF RerunFrom, RunQuestion
        <4>2. messages'[i] = messages[i] \/ messages'[i] = Blank
          BY <4>1
        <4> HIDE DEF old
        <4>3. old = [old EXCEPT !.error = old.error] /\ old.error \in BOOLEAN
          BY <2>1 DEF Messages
        <4> QED
          BY <4>2, <4>3 DEF old
      <3>3. ASSUME NEW r \in Requests, StreamEnds(r) \/ StreamBreaks(r) PROVE Stays
        BY <2>3, <3>3 DEF StreamEnds, StreamBreaks
      <3>4. CASE HandleStop
        <4>1. controller \in Requests /\ reader[controller].open
          BY <1>1, <3>4 DEF HandleStop, IInv, PageTypes, OneReader
        <4> QED
          BY <2>3, <3>4, <4>1 DEF HandleStop
      <3>5. CASE Reload \/ DeleteThread
        BY <1>1, <2>2, <3>5 DEF Reload, DeleteThread
      <3> QED
        BY <2>4, <2>6, <3>1, <3>2, <3>3, <3>4, <3>5 DEF PageStep
    <2> QED
      BY <1>1, <2>5, <2>6 DEF ClientNext, allVars, client
  <1>2. IInv /\ IInv' /\ [ClientNext]_allVars =>
          [\A i \in DOMAIN messages :
              ~messages[i].streaming /\ ~deleted'
                => messages'[i] \in {[messages[i] EXCEPT !.error = e] : e \in BOOLEAN} \union {Blank}]_allVars
    BY <1>1
  <1> QED
    BY <1>2, Invariance, PTL DEF ClientSpec, SettledStays
=============================================================================
