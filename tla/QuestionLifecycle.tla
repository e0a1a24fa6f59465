------------------------- MODULE QuestionLifecycle --------------------------
(***************************************************************************)
(* What a student sees of the authored questions of a thread, whatever the *)
(* tutor does in between: a question is put to them at most once, at most  *)
(* one is open at a time, and a question that was closed (answered,        *)
(* explained, skipped or dropped) never comes back.  TutorThread           *)
(* implements this.                                                        *)
(***************************************************************************)
CONSTANT Questions

VARIABLE status

Statuses == {"unasked", "open", "closed"}

LifecycleInit == status = [q \in Questions |-> "unasked"]

Closing == [q \in Questions |-> IF status[q] = "open" THEN "closed" ELSE status[q]]

(* A new question, which closes the one that was open.                     *)
Pose(q) ==
    /\ status[q] = "unasked"
    /\ status' = [Closing EXCEPT ![q] = "open"]

Close ==
    /\ \E q \in Questions : status[q] = "open"
    /\ status' = Closing

LifecycleNext == Close \/ \E q \in Questions : Pose(q)

LifecycleSpec == LifecycleInit /\ [][LifecycleNext]_status
=============================================================================
