----------------------------- MODULE ChatClient -----------------------------
(***************************************************************************)
(* One thread of the web client (frontend/components/Chat.tsx) together    *)
(* with the turns the server streams for it (TurnStream, which ChatTurn    *)
(* implements).  The page sends, stops, runs an earlier question again,    *)
(* reloads and deletes the thread; it reads the events of a turn in the    *)
(* order the server sent them, some time later (lib/sse.ts).  The server   *)
(* notices only later that a reader has gone, so a stopped turn may still  *)
(* be running when the next begins.                                        *)
(*                                                                         *)
(* A message stands for a question and its answer.  The text of an answer  *)
(* is how many token events of which request it is made of.                *)
(***************************************************************************)
EXTENDS TurnStream, FiniteSets

CONSTANTS
    Nobody,          \* no request
    MaxMessages,     \* bound: questions of the thread
    MaxReloads       \* bound: how often the page is reloaded

ASSUME ClientAssumption ==
    /\ Nobody \notin Requests
    /\ MaxMessages \in Nat /\ MaxReloads \in Nat

VARIABLES
    messages,     \* the thread as saved in the browser and shown
    reader,       \* request -> the runQuestion call that made it
    controller,   \* abortControllers.current.get(thread)
    streaming,    \* streamingIds.has(thread)
    deleted,      \* the thread is gone from the page
    reloads

client == <<messages, reader, controller, streaming, deleted, reloads>>
page   == <<controller, streaming, deleted, reloads>>
allVars == <<streamVars, client>>

NoReader == [open |-> FALSE, to |-> 0, read |-> 0]
Blank == [text |-> [of |-> Nobody, tokens |-> 0], ui |-> Nobody, sources |-> Nobody,
          error |-> FALSE, streaming |-> TRUE]

ClientInit ==
    /\ StreamInit
    /\ messages = <<>>
    /\ reader = [r \in Requests |-> NoReader]
    /\ controller = Nobody
    /\ streaming = FALSE
    /\ deleted = FALSE
    /\ reloads = 0

(* Requests are alike: a question takes the next one.                      *)
Unasked == {r \in Requests : reader[r].to = 0}
Fresh(r) == r \in Unasked /\ r = CHOOSE q \in Unasked : TRUE

(* The events of a kind among the first n that request r was sent.         *)
Among(kind, r, n) == {i \in 1 .. n : sent[r][i] = kind}

----------------------------------------------------------------------------
(* runQuestion for message i: its request r is posted.                     *)
RunQuestion(r, i, thread) ==
    /\ Fresh(r)
    /\ reader' = [reader EXCEPT ![r] = [open |-> TRUE, to |-> i, read |-> 0]]
    /\ controller' = r
    /\ streaming' = TRUE
    /\ messages' = [thread EXCEPT ![i] = Blank]

SendMessage(r) ==
    /\ ~streaming /\ ~deleted
    /\ Len(messages) < MaxMessages
    /\ RunQuestion(r, Len(messages) + 1, Append(messages, Blank))
    /\ UNCHANGED <<deleted, reloads>>

(* Mutant: a question can be run again while the thread is streaming.      *)
RerunAnyTime(r, i) ==
    /\ ~deleted
    /\ RunQuestion(r, i, messages)
    /\ UNCHANGED <<deleted, reloads>>

(* Retry on a failed message, regenerate on a finished one.                *)
RerunFrom(r, i) ==
    /\ ~streaming /\ ~deleted
    /\ messages[i].error \/ ~messages[i].streaming
    /\ RunQuestion(r, i, messages)
    /\ UNCHANGED <<deleted, reloads>>

(* updateAssistant: a message that is no longer there is left alone.       *)
Show(i, message) == messages' = IF deleted THEN messages ELSE [messages EXCEPT ![i] = message]

(* The next event of r's stream.                                           *)
ReadEvent(r) ==
    /\ reader[r].open /\ reader[r].read < Len(sent[r])
    /\ LET n == reader[r].read + 1
           i == reader[r].to
       IN  /\ reader' = [reader EXCEPT ![r].read = n]
           /\ Show(i, CASE sent[r][n] = "token" ->
                             [messages[i] EXCEPT !.text = [of |-> r, tokens |-> Cardinality(Among("token", r, n))]]
                        [] sent[r][n] = "ui" -> [messages[i] EXCEPT !.ui = r]
                        [] sent[r][n] = "sources" ->
                             [messages[i] EXCEPT !.sources = r, !.streaming = FALSE]
                        [] OTHER -> [messages[i] EXCEPT !.error = TRUE, !.streaming = FALSE])
    /\ UNCHANGED page

(* Mutant: the thread is not taken out of streamingIds.                    *)
FinallyForgets(r) ==
    /\ reader' = [reader EXCEPT ![r].open = FALSE]
    /\ controller' = Nobody
    /\ UNCHANGED <<streaming, deleted, reloads>>

(* The finally clause of runQuestion.                                      *)
Finally(r) ==
    /\ reader' = [reader EXCEPT ![r].open = FALSE]
    /\ controller' = Nobody
    /\ streaming' = FALSE
    /\ UNCHANGED <<deleted, reloads>>

Settle(r, failed) ==
    LET i == reader[r].to
    IN  Show(i, [messages[i] EXCEPT !.streaming = FALSE, !.error = @ \/ failed])

StreamEnds(r) ==
    /\ reader[r].open
    /\ phase[r] = "ended" /\ reader[r].read = Len(sent[r])
    /\ Settle(r, FALSE)
    /\ Finally(r)

(* Mutant: only a stop clears the streaming mark of the message.           *)
StreamBreaksSilently(r) ==
    /\ reader[r].open
    /\ UNCHANGED messages
    /\ Finally(r)

(* The post is refused or the connection is lost: the error is shown.      *)
StreamBreaks(r) ==
    /\ reader[r].open
    /\ Settle(r, TRUE)
    /\ Finally(r)

(* Stop: the abort reaches the request the map holds for the thread.       *)
HandleStop ==
    /\ controller # Nobody /\ ~deleted
    /\ Settle(controller, FALSE)
    /\ Finally(controller)

(* What is saved is what was shown, streaming marks included.              *)
Reload ==
    /\ reloads < MaxReloads /\ ~deleted
    /\ reloads' = reloads + 1
    /\ reader' = [r \in Requests |-> [reader[r] EXCEPT !.open = FALSE]]
    /\ controller' = Nobody
    /\ streaming' = FALSE
    /\ UNCHANGED <<messages, deleted>>

(* The thread goes, its request is aborted, and DELETE is sent.            *)
DeleteThread ==
    /\ ~deleted
    /\ deleted' = TRUE
    /\ messages' = <<>>
    /\ reader' = [r \in Requests |-> IF r = controller THEN [reader[r] EXCEPT !.open = FALSE] ELSE reader[r]]
    /\ controller' = Nobody
    /\ streaming' = FALSE
    /\ UNCHANGED reloads

PageStep ==
    \/ \E r \in Requests : \/ SendMessage(r)
                           \/ \E i \in DOMAIN messages : RerunFrom(r, i)
                           \/ ReadEvent(r) \/ StreamEnds(r) \/ StreamBreaks(r)
    \/ HandleStop \/ Reload \/ DeleteThread

(* The server's steps: a request the page has made arrives, its turn goes  *)
(* on, a reader that has gone is noticed, DELETE clears the history.       *)
Arrives(r) == reader[r].to # 0 /\ Begin(r)
Proceeds(r) == Stream(r) \/ Answer(r) \/ Refuse(r) \/ BreakOff(r, "broken")
Ends(r) == Answer(r) \/ Refuse(r) \/ BreakOff(r, "broken")
Leaves(r) == ~reader[r].open /\ BreakOff(r, "gone")
Clears == deleted /\ resets = 0 /\ Forget

ClientNext ==
    \/ PageStep /\ UNCHANGED streamVars
    \/ ((\E r \in Requests : Arrives(r) \/ Proceeds(r) \/ Leaves(r)) \/ Clears) /\ UNCHANGED client

Reads(r) == (ReadEvent(r) \/ StreamEnds(r)) /\ UNCHANGED streamVars
Notices(r) == phase[r] = "broken" /\ StreamBreaks(r) /\ UNCHANGED streamVars

(* A request arrives or its post is refused, a turn of the server ends     *)
(* (ChatTurn's TurnEnds), the browser delivers what was sent, and a broken *)
(* stream is noticed.                                                      *)
ClientSpec ==
    /\ ClientInit /\ [][ClientNext]_allVars
    /\ \A r \in Requests :
          /\ WF_allVars(Arrives(r) /\ UNCHANGED client)
          /\ WF_allVars(Ends(r) /\ UNCHANGED client)
          /\ WF_allVars(Reads(r))
          /\ WF_allVars(Notices(r))

----------------------------------------------------------------------------
(* A message shows one answer: its text, chips and sources come from one   *)
(* request, the last one run for it, in the order they were sent and with  *)
(* nothing left out - whatever was stopped, run again, reloaded or still   *)
(* runs on the server (Chat.tsx:191-193, 209-239).                         *)
MessageIsOneAnswer ==
    \A i \in DOMAIN messages :
        LET m == messages[i]
            shown == {m.text.of, m.ui, m.sources} \ {Nobody}
        IN  \A r \in shown :
               /\ shown = {r}
               /\ m.text = [of |-> IF m.text.tokens = 0 THEN Nobody ELSE r,
                            tokens |-> Cardinality(Among("token", r, reader[r].read))]
               /\ m.sources = r => m.ui = r

(* What the student has seen to its end, the server goes on from: an       *)
(* answer shown with its sources is in the history of the thread.          *)
CompleteIsRemembered ==
    \A i \in DOMAIN messages :
        messages[i].sources # Nobody =>
            \E k \in DOMAIN answered : answered[k] = messages[i].sources

(* The animation of a waiting message means somebody waits for it: no way  *)
(* out of runQuestion leaves it behind, except a reload of the page, which *)
(* saves it.                                                               *)
SpinnerHasReader ==
    reloads = 0 => \A i \in DOMAIN messages :
        messages[i].streaming => \E r \in Requests : reader[r].open /\ reader[r].to = i

(* What an answer says once it has settled changes only when its question  *)
(* is run again: nothing arrives late from a turn that was stopped, failed *)
(* or completed.  An error may still be put over it, when the connection   *)
(* is lost between the sources and the end of the stream.                  *)
SettledStays ==
    [][\A i \in DOMAIN messages :
          ~messages[i].streaming /\ ~deleted'
              => messages'[i] \in {[messages[i] EXCEPT !.error = e] : e \in BOOLEAN} \union {Blank}]_allVars

(* Every question frees the composer again: the thread does not stay       *)
(* blocked by streamingIds, whatever the server and the model do.          *)
ComposerFrees == streaming ~> ~streaming
=============================================================================
