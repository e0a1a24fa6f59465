------------------------------- MODULE RunLog -------------------------------
(***************************************************************************)
(* The resumable runners of the research code: each call to a model is     *)
(* appended as one JSON line to a log, a launch skips the calls whose key  *)
(* the log already holds, and a crash or a failed call is repaired by      *)
(* launching again.  The five runners differ in how they fail:             *)
(*                                                                         *)
(*   pilot       run_pilot.py: the process dies after three attempts       *)
(*   competence  run_competence_pilot.py: waits for the GPU, retries the   *)
(*               same call, gives up after MaxRestarts                     *)
(*   claude      run_claude.py: parallel workers, failures are counted     *)
(*   blocks      run_blocks_world_confirmatory.py: a failed call is logged *)
(*               as an error record; lines that do not parse are skipped   *)
(*   cells       experiments.py: any failure ends the process              *)
(*                                                                         *)
(* A call is a record with a field key.  A crash while a line is written   *)
(* leaves a part of it ("torn"), or all of it but its newline.             *)
(***************************************************************************)
EXTENDS Naturals, Sequences, FiniteSets, SequencesExt

CONSTANTS Runners,      \* the runners explored
          Batches(_),   \* the lists of calls a launch of a runner may be given (--limit-worlds, --smoke)
          CellLists(_), \* those of the cells runner, with its log: E3b's depend on it
          Workers,      \* threads of the claude runner
          MaxRestarts,  \* MAX_RESTARTS of the competence runner
          MaxStarts     \* bound: launches

ASSUME RunnersAssumption == Runners \subseteq {"pilot", "competence", "claude", "blocks", "cells"}

(* A plan asks each model each prompt, or task variant, with each seed     *)
(* once, and that is what call_key hashes.  Two cells may share a key.     *)
ASSUME PlanAssumption ==
    \A kind \in Runners \ {"cells"} : \A calls \in Batches(kind) :
        \A i, j \in DOMAIN calls : calls[i].key = calls[j].key => i = j

VARIABLE run

NoRunner == [kind |-> "none", proc |-> "off", file |-> <<>>, calls |-> <<>>, todo |-> {}, inflight |-> {},
             restarts |-> 0, failures |-> {}, starts |-> 0]

Line(call, result, ended) == [call |-> call, result |-> result, ended |-> ended]
Readable(line) == line.result \in {"answer", "error"}
Lines(file) == {file[i] : i \in DOMAIN file}
LoggedKeys(file) == {line.call.key : line \in {l \in Lines(file) : Readable(l)}}

(* json.loads of every line, or of those it can.                           *)
Skips(kind) == kind = "blocks"

(* The file is opened for appending: after an unfinished line the new one  *)
(* continues it, and neither can be read again.                            *)
Appended(file, line) ==
    IF file # <<>> /\ ~Last(file).ended THEN [file EXCEPT ![Len(file)] = Line(@.call, "torn", line.ended)]
    ELSE Append(file, line)

(* Mutant: the log is written but not read back.                           *)
TodoAll(calls, file) == DOMAIN calls

(* The positions of the calls that are still to do, in order.              *)
Todo(calls, file) == {i \in DOMAIN calls : calls[i].key \notin LoggedKeys(file)}

----------------------------------------------------------------------------
Launch(kind) ==
    /\ run.kind \in {"none", kind} /\ run.proc \notin {"gate", "running"} /\ run.starts < MaxStarts
    /\ \E calls \in (IF kind = "cells" THEN CellLists(run.file) ELSE Batches(kind)) :
          LET stuck == ~Skips(kind) /\ \E l \in Lines(run.file) : ~Readable(l)
              todo  == IF stuck THEN {} ELSE Todo(calls, run.file)
          IN  run' = [run EXCEPT !.kind = kind, !.calls = calls, !.todo = todo, !.restarts = 0, !.failures = {},
                                 !.starts = @ + 1,
                                 !.proc = CASE stuck -> "stuck"
                                            [] ~stuck /\ kind = "competence" /\ todo # {} -> "gate"
                                            [] OTHER -> "running"]

GateFree    == run.proc = "gate" /\ run' = [run EXCEPT !.proc = "running"]
GateGivesUp == run.proc = "gate" /\ run' = [run EXCEPT !.proc = "gave_up"]

Submit ==
    /\ run.proc = "running"
    /\ Cardinality(run.inflight) < (IF run.kind = "claude" THEN Workers ELSE 1)
    /\ \E i \in run.todo :
          /\ \A j \in run.todo : i <= j
          /\ run' = [run EXCEPT !.todo = @ \ {i}, !.inflight = @ \union {run.calls[i]}]

Answer(call) ==
    run' = [run EXCEPT !.inflight = @ \ {call}, !.file = Appended(@, Line(call, "answer", TRUE))]

Stopped(proc) == run' = [run EXCEPT !.proc = proc, !.inflight = {}, !.todo = {}]

(* Mutant: the call that failed is passed over.                            *)
CallFailsOver(call) ==
    CASE run.kind \in {"pilot", "cells"} -> Stopped("off")
      [] OTHER -> run' = [run EXCEPT !.inflight = @ \ {call}]

CallFails(call) ==
    CASE run.kind \in {"pilot", "cells"} -> Stopped("off")
      [] run.kind = "competence" ->
            IF run.restarts = MaxRestarts THEN Stopped("failed")
            ELSE run' = [run EXCEPT !.restarts = @ + 1]
      [] run.kind = "claude" -> run' = [run EXCEPT !.inflight = @ \ {call}, !.failures = @ \union {call}]
      [] OTHER -> run' = [run EXCEPT !.inflight = @ \ {call}, !.file = Appended(@, Line(call, "error", TRUE))]

Finishes ==
    /\ run.proc = "running" /\ run.todo = {} /\ run.inflight = {}
    /\ run' = [run EXCEPT !.proc = "done"]

Crash == run.proc \in {"gate", "running"} /\ Stopped("off")

CrashWriting(call) ==
    \E result \in {"torn", "answer"} :
        run' = [run EXCEPT !.proc = "off", !.inflight = {}, !.todo = {},
                           !.file = Appended(@, Line(call, result, FALSE))]

RunInit == run = NoRunner
RunNext ==
    \/ \E kind \in Runners : Launch(kind)
    \/ GateFree \/ GateGivesUp \/ Submit \/ Finishes \/ Crash
    \/ /\ run.proc = "running"
       /\ \E call \in run.inflight : Answer(call) \/ CallFails(call) \/ CrashWriting(call)

RunSpec == RunInit /\ [][RunNext]_run

----------------------------------------------------------------------------
(* "no duplicate trials" (run_competence_pilot.py:17): however often a     *)
(* runner is launched, with whatever limits, and however it crashed, no    *)
(* key has two answers in the log.                                         *)
OneAnswerEach ==
    run.kind # "cells" =>
        \A i, j \in DOMAIN run.file :
            Readable(run.file[i]) /\ Readable(run.file[j]) /\ run.file[i].call.key = run.file[j].call.key => i = j

(* A launch that reports success answered every call it was given, unless  *)
(* the log shows the damage: a line that stops the next launch, or (blocks)*)
(* one that it will skip and run again.                                    *)
DoneIsComplete ==
    run.proc = "done" /\ run.failures = {} =>
        \/ {run.calls[i].key : i \in DOMAIN run.calls} \subseteq LoggedKeys(run.file)
        \/ \E l \in Lines(run.file) : ~Readable(l)
=============================================================================
