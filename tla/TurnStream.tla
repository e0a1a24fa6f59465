----------------------------- MODULE TurnStream -----------------------------
(***************************************************************************)
(* What POST /chat promises of the turns of a thread (the head of          *)
(* api/routes/chat.py), whatever happens inside: a stream of token and ui  *)
(* events that an answered turn closes with sources, once it has sent a ui *)
(* event and is in the thread's history, and a failed one with error;      *)
(* unless it breaks off or its reader goes away.  ChatTurn implements it.  *)
(***************************************************************************)
EXTENDS Integers, Sequences

CONSTANTS
    Requests,        \* the turns of the thread
    MaxEvents        \* bound: events of a turn before the last

VARIABLES
    phase,      \* request -> where its turn stands
    sent,       \* request -> the kinds of the events it was sent
    answered,   \* the thread's history, oldest first
    resets      \* the history has been cleared

streamVars == <<phase, sent, answered, resets>>

StreamInit ==
    /\ phase = [r \in Requests |-> "new"]
    /\ sent = [r \in Requests |-> <<>>]
    /\ answered = <<>>
    /\ resets = 0

SentTo(r) == {sent[r][i] : i \in DOMAIN sent[r]}
Extend(r, events) == sent' = [sent EXCEPT ![r] = @ \o events]
Close(r, how) == phase' = [phase EXCEPT ![r] = how]

Begin(r) ==
    /\ phase[r] = "new"
    /\ Close(r, "open")
    /\ UNCHANGED <<sent, answered, resets>>

Stream(r) ==
    /\ phase[r] = "open"
    /\ \E events \in {<<"token">>, <<"ui">>, <<"token", "ui">>} :
          /\ Len(sent[r]) + Len(events) <= MaxEvents
          /\ Extend(r, events)
    /\ UNCHANGED <<phase, answered, resets>>

(* Mutant: the sources are sent and the turn is not remembered.            *)
AnswerForgotten(r) ==
    /\ phase[r] = "open" /\ "ui" \in SentTo(r)
    /\ Extend(r, <<"sources">>)
    /\ Close(r, "ended")
    /\ UNCHANGED <<answered, resets>>

Answer(r) ==
    /\ phase[r] = "open" /\ "ui" \in SentTo(r)
    /\ Extend(r, <<"sources">>)
    /\ answered' = Append(answered, r)
    /\ Close(r, "ended")
    /\ UNCHANGED resets

Refuse(r) ==
    /\ phase[r] = "open"
    /\ Extend(r, <<"error">>)
    /\ Close(r, "ended")
    /\ UNCHANGED <<answered, resets>>

(* An exception nobody catches, or a reader that has gone.                 *)
BreakOff(r, how) ==
    /\ phase[r] = "open"
    /\ how \in {"broken", "gone"}
    /\ Close(r, how)
    /\ UNCHANGED <<sent, answered, resets>>

Forget ==
    /\ answered' = <<>>
    /\ resets' = resets + 1
    /\ UNCHANGED <<phase, sent>>

StreamNext ==
    \/ \E r \in Requests : \/ Begin(r) \/ Stream(r) \/ Answer(r) \/ Refuse(r)
                           \/ \E how \in {"broken", "gone"} : BreakOff(r, how)
    \/ Forget

StreamSpec == StreamInit /\ [][StreamNext]_streamVars
=============================================================================
