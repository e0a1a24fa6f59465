----------------------------- MODULE JudgeCells -----------------------------
(***************************************************************************)
(* The calls of the judging experiment (research/evaluation: experiments,  *)
(* prompts, llm_client) as the runner RunLog sees them: the cells of one   *)
(* benchmark instance, each with the prompt it sends.  A cell whose key is *)
(* in the log is not run; two cells with the same model, prompt, kind and  *)
(* replicate have the same key.                                            *)
(*                                                                         *)
(* A trace is named by its part in the instance: R1 the reference, R2 and  *)
(* R3 other valid traces, I and I2 invalid ones, irrelevant another        *)
(* instance's.                                                             *)
(***************************************************************************)
EXTENDS RunLog

CONSTANTS Split,        \* "id" or another split
          NoisePick,    \* the positions, in order, of the judging cells that are repeated
          Outputs,      \* Outputs[g]: what generator g answered for the instance, or Unparsed
          Unparsed,
          JudgeModel    \* the generator that is the judge, and whose log this is

Reference(cand, ref) ==
    CASE ref = "self"        -> [trace |-> cand, style |-> "given"]
      [] ref = "R1_reworded" -> [trace |-> "R1", style |-> "other"]
      [] OTHER               -> [trace |-> ref, style |-> "given"]

GenerationPrompt == [asks |-> "trace"]
JudgePrompt(cand, reference, note) == [asks |-> "verdict", cand |-> cand, reference |-> reference, note |-> note]

(* Mutant: the replicate is not part of the key.                           *)
CallKeyOnce(prompt, replicate) == [prompt |-> prompt, replicate |-> 0]

CallKey(prompt, replicate) == [prompt |-> prompt, replicate |-> replicate]

Cell(exp, name, prompt, replicate) ==
    [exp |-> exp, name |-> name, key |-> CallKey(prompt, replicate)]

Conditions ==
    IF Split = "id"
    THEN <<<<"R2", "none">>, <<"R2", "R1">>, <<"R2", "R3">>, <<"R2", "self">>, <<"R2", "R1_reworded">>,
           <<"R2", "I2">>, <<"R2", "irrelevant">>, <<"I", "none">>, <<"I", "R1">>, <<"I", "R3">>,
           <<"R1", "none">>, <<"R1", "self">>, <<"R1", "R3">>>>
    ELSE <<<<"R2", "none">>, <<"R2", "R1">>, <<"R2", "R3">>, <<"R2", "self">>, <<"I", "none">>, <<"I", "R1">>>>

(* sorted(rng.sample(range(len(judge)), ...))                              *)
ASSUME NoiseAssumption ==
    /\ NoisePick \in Seq(DOMAIN Conditions)
    /\ \A j, k \in DOMAIN NoisePick : j < k => NoisePick[j] < NoisePick[k]

JudgingCells ==
    [i \in DOMAIN Conditions |->
        LET c == Conditions[i] IN Cell("E2", c, JudgePrompt(c[1], Reference(c[1], c[2]), FALSE), 0)]

BuildCells ==
    <<Cell("E1", "E1", GenerationPrompt, 0)>> \o JudgingCells \o
    (IF Split = "id" THEN LET noted(cand) == Cell("E2M", <<cand, "R1">>, JudgePrompt(cand, Reference(cand, "R1"), TRUE), 0)
                          IN <<noted("R2"), noted("I")>>
     ELSE <<>>)

NoiseCells ==
    [k \in DOMAIN NoisePick |-> LET c == JudgingCells[NoisePick[k]] IN Cell("NOISE", c.name, c.key.prompt, 1)]

(* Of the generators given, sorted, those whose answer parses.             *)
E3BCells(generators) ==
    LET parsed == SelectSeq([g \in DOMAIN Outputs |-> g], LAMBDA g : g \in generators /\ Outputs[g] # Unparsed)
    IN  [k \in DOMAIN parsed |-> Cell("E3B", parsed[k], JudgePrompt(Outputs[parsed[k]], Reference("R1", "R1"), FALSE), 0)]

AllE3BCells == E3BCells(DOMAIN Outputs)

MainCells == BuildCells \o NoiseCells

Recorded(cell, file) == \E line \in Lines(file) : Readable(line) /\ line.call = cell

(* main; or analysis --run-e3b on whatever the logs hold by then: the      *)
(* judge's own answer is in this one, those of the others in theirs.       *)
CellBatches(file) ==
    {MainCells} \union
    {E3BCells(generators) : generators \in
        {g \in SUBSET (DOMAIN Outputs) : JudgeModel \in g => Recorded(BuildCells[1], file)}}

(* e3b_summary: an output is accepted if its record's verdict says so, and *)
(* counts as rejected when there is no record.                             *)
Rejected(g) ==
    Outputs[g] # Unparsed /\ ~\E i \in DOMAIN AllE3BCells : AllE3BCells[i].name = g /\ Recorded(AllE3BCells[i], run.file)

----------------------------------------------------------------------------
(* An E3B record of the same prompt.  A main run finds it in the log if    *)
(* --run-e3b was given before the main run was complete, and then leaves   *)
(* the condition out.                                                      *)
JudgedEarly(cell, file) ==
    \E line \in Lines(file) : Readable(line) /\ line.call.exp = "E3B" /\ line.call.key = cell.key

(* No condition, control or noise repeat is answered with another's        *)
(* verdict: when the main run ends each has a record of its own, unless    *)
(* E3B was judged too early or the log is damaged.                         *)
ConditionsAreRecorded ==
    run.kind = "cells" /\ run.proc = "done" /\ run.calls = MainCells =>
        \/ \A i \in DOMAIN MainCells : Recorded(MainCells[i], run.file) \/ JudgedEarly(MainCells[i], run.file)
        \/ \E line \in Lines(run.file) : ~Readable(line)

(* A run that ends well has answered all its calls, and the judge's cache  *)
(* stands for no condition but its own, E3B apart.                         *)
RunsAreComplete == DoneIsComplete /\ ConditionsAreRecorded

(* "one fixed judge scores every model's E1 output with reference R1"      *)
(* (experiments.py:82): once the E3b run is done no output counts as       *)
(* rejected for want of a record.                                          *)
EveryOutputIsJudged ==
    run.kind = "cells" /\ run.proc = "done" /\ run.calls = AllE3BCells =>
        \A g \in DOMAIN Outputs : ~Rejected(g)
=============================================================================
