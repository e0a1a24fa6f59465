------------------------------- MODULE Sweep -------------------------------
(***************************************************************************)
(* The evaluation sweep (eval/ragas_eval.py over src/evaluation.py): each  *)
(* variant of a grid of configurations answers every question, a judge     *)
(* scores the answers, and three files are written: the workbook of all    *)
(* runs ever made, the details and the ranked table of this sweep.  A      *)
(* sweep takes hours, may be stopped anywhere, and is started again with   *)
(* --resume, which reads from the workbook what is done.                   *)
(***************************************************************************)
EXTENDS Arrangement, SequencesExt

CONSTANTS Grids,        \* the lists of variants a sweep may be started with
          EvalSizes,    \* how many questions (--quick, --num-questions, all)
          Verdicts,     \* what the judge may return for an answer; NaN: unusable output
          NaN,
          MaxSweeps     \* bound: sweeps

VARIABLE sweep

(* The grids of the code, by the names of their variants.                  *)
Mmr == <<"+mmr_True", "+mmr_False">>
NamedVariants(labels, methods, tails) ==
    FlattenSeq(FlattenSeq([l \in DOMAIN labels |->
        [m \in DOMAIN methods |-> [t \in DOMAIN tails |-> labels[l] \o methods[m] \o tails[t]]]]))

DefaultVariants ==
    NamedVariants(<<"dense", "dense+multi_query", "bm25", "bm25+multi_query",
                    "hybrid_rrf", "hybrid_rrf+multi_query", "hyde">>,
                  <<"+cross_encoder", "+none">>, Mmr)
FocusedVariants ==
    NamedVariants(<<"dense", "hyde", "dense+multi_query", "hyde+multi_query">>,
                  <<"+none", "+cross_encoder">>, <<"">>)
PromptVariants == <<"prompt_few_shot", "prompt_cot">>
TemperatureVariants == <<"temp_0.0", "temp_0.2">>

----------------------------------------------------------------------------
NoSweep == [proc |-> "off", book |-> <<>>, torn |-> FALSE, details |-> <<>>, table |-> <<>>, starts |-> 0,
            grid |-> <<>>, resume |-> FALSE, asked |-> 0, todo |-> <<>>, at |-> 0, scores |-> <<>>,
            rows |-> <<>>, failures |-> {}]

Variants(rows) == {rows[i].variant : i \in DOMAIN rows}
Sheets(book) == {book[i].sheet : i \in DOMAIN book}

(* _unique_sheet_name: Excel allows 31 characters.                         *)
Shortened(name, n) == IF Len(name) > n THEN SubSeq(name, 1, n) ELSE name
Suffixed(name, k) == Shortened(name, 28) \o "_" \o ToString(k)
FreeSuffixes(book, name) == {k \in 2 .. 999 : Suffixed(name, k) \notin Sheets(book)}
SheetName(book, name) ==
    IF Shortened(name, 31) \notin Sheets(book) THEN Shortened(name, 31) ELSE Suffixed(name, Min(FreeSuffixes(book, name)))
HasSheetName(book, name) == Shortened(name, 31) \notin Sheets(book) \/ FreeSuffixes(book, name) # {}

(* What the rest needs to know of a grid's names: that none is what the    *)
(* sheet of another may be called.                                         *)
SheetsOf(name) == {Shortened(name, 31)} \union {Suffixed(name, k) : k \in 2 .. 999}
NamesTellApart(names) == \A name, other \in names : name \in SheetsOf(other) => name = other

Names == UNION {ToSet(grid) : grid \in Grids}
SweepAssumption == Verdicts \subseteq Int \union {NaN} /\ \A grid \in Grids : grid \in Seq(Names)

(* Mutant: the name is compared as it was cut for its sheet.               *)
RemainingCut(grid, book) == Picked(grid, {i \in DOMAIN grid : Shortened(grid[i], 31) \notin Sheets(book)})

(* completed_run_names takes the sheets' names for the variants'.          *)
Remaining(grid, book) == Picked(grid, {i \in DOMAIN grid : grid[i] \notin Sheets(book)})

StartSweep ==
    /\ sweep.proc \in {"off", "done"} /\ sweep.starts < MaxSweeps
    /\ \E grid \in Grids, asked \in EvalSizes, resume \in BOOLEAN :
          LET fails == resume /\ sweep.torn
          IN  sweep' = [sweep EXCEPT !.proc = IF fails THEN "off" ELSE "answering",
                            !.starts = @ + 1, !.grid = grid, !.resume = resume, !.asked = asked,
                            !.todo = IF fails THEN <<>> ELSE IF resume THEN Remaining(grid, sweep.book) ELSE grid,
                            !.at = 0, !.scores = <<>>, !.rows = <<>>, !.failures = {}]

(* score_pipeline: first every answer, then every verdict, since the two   *)
(* models do not fit on the card together.                                 *)
Generate ==
    /\ sweep.proc = "answering" /\ sweep.todo # <<>> /\ sweep.at < sweep.asked
    /\ sweep' = [sweep EXCEPT !.at = @ + 1]

HandOver ==
    /\ sweep.proc = "answering" /\ sweep.todo # <<>> /\ sweep.at = sweep.asked
    /\ sweep' = [sweep EXCEPT !.proc = "judging", !.at = 0]

Judge ==
    /\ sweep.proc = "judging" /\ sweep.at < sweep.asked
    /\ \E v \in Verdicts : sweep' = [sweep EXCEPT !.at = @ + 1, !.scores = Append(@, v)]

NextVariant(s) == [s EXCEPT !.proc = "answering", !.todo = Tail(@), !.at = 0, !.scores = <<>>]

(* Ingestion, an answer or a verdict raises: the variant is given up.      *)
VariantFails ==
    /\ sweep.proc \in {"answering", "judging"} /\ sweep.todo # <<>>
    /\ sweep' = NextVariant([sweep EXCEPT !.failures = @ \union {Head(sweep.todo)}])

(* The mean over the usable verdicts.                                      *)
Mean(scores) ==
    LET usable == Picked(scores, {i \in DOMAIN scores : scores[i] # NaN})
    IN  [sum |-> SumFunction(usable), of |-> Len(usable)]

VariantScored ==
    /\ sweep.proc = "judging" /\ sweep.at = sweep.asked
    /\ sweep' = [sweep EXCEPT !.proc = "recording",
                              !.rows = Append(@, [variant |-> Head(sweep.todo), mean |-> Mean(sweep.scores)])]

(* append_run_to_workbook is outside the try: it raises on a torn file,    *)
(* and when no name is free.                                               *)
RecordRun ==
    /\ sweep.proc = "recording"
    /\ sweep' = IF sweep.torn \/ ~HasSheetName(sweep.book, Head(sweep.todo)) THEN [sweep EXCEPT !.proc = "off"]
                ELSE [sweep EXCEPT !.proc = "detailing",
                         !.book = Append(@, [sheet |-> SheetName(@, Head(sweep.todo)), variant |-> Head(sweep.todo)])]

WriteDetails ==
    /\ sweep.proc = "detailing"
    /\ sweep' = [sweep EXCEPT !.proc = "ranking", !.details = sweep.rows]

(* _ranked: by decreasing mean, equals in order, without a mean last.      *)
Better(a, b) == IF b.of = 0 THEN a.of > 0 ELSE a.of > 0 /\ a.sum * b.of > b.sum * a.of
Ranks(rows) ==
    {p \in (DOMAIN rows) \X (DOMAIN rows) :
        LET a == rows[p[1]].mean
            b == rows[p[2]].mean
        IN  Better(a, b) \/ (~Better(b, a) /\ p[1] < p[2])}
Ranked(rows) == LET at == Arranged(DOMAIN rows, Ranks(rows)) IN [n \in DOMAIN at |-> rows[at[n]]]

WriteTable ==
    /\ sweep.proc = "ranking"
    /\ sweep' = NextVariant([sweep EXCEPT !.table = Ranked(sweep.rows)])

FinishSweep ==
    /\ sweep.proc = "answering" /\ sweep.todo = <<>>
    /\ sweep' = [sweep EXCEPT !.proc = "done"]

(* The process dies: between two writes, or while the workbook (which is   *)
(* written anew each time) or the table is being written.                  *)
Die == sweep.proc \notin {"off", "done"} /\ sweep' = [sweep EXCEPT !.proc = "off"]
DieSaving == sweep.proc = "recording" /\ sweep' = [sweep EXCEPT !.proc = "off", !.book = <<>>, !.torn = TRUE]
DieRanking ==
    /\ sweep.proc = "ranking"
    /\ \E n \in 0 .. Len(sweep.rows) - 1 : sweep' = [sweep EXCEPT !.proc = "off", !.table = SubSeq(Ranked(sweep.rows), 1, n)]

SweepInit == sweep = NoSweep
SweepNext ==
    \/ StartSweep \/ Generate \/ HandOver \/ Judge \/ VariantFails \/ VariantScored
    \/ RecordRun \/ WriteDetails \/ WriteTable \/ FinishSweep
    \/ Die \/ DieSaving \/ DieRanking

SweepSpec == SweepInit /\ [][SweepNext]_sweep

----------------------------------------------------------------------------
(* A sweep over the default grid that reports its end, resumed as often as *)
(* it may be, has a row in the workbook for every variant that it did not  *)
(* report as failed, although the names are cut and two may be cut alike;  *)
(* and what the table and the details show is recorded there too, unless a *)
(* crash destroyed the workbook (ragas_eval.py:300-312).                   *)
DoneIsRecorded ==
    /\ sweep.proc = "done" => ToSet(sweep.grid) \subseteq sweep.failures \union Variants(sweep.book)
    /\ ~sweep.torn => Variants(sweep.details) \union Variants(sweep.table) \subseteq Variants(sweep.book)
    /\ Cardinality(Sheets(sweep.book)) = Len(sweep.book)

(* "Skip variants already recorded in the per-run workbook"                *)
(* (ragas_eval.py:259): what a resumed sweep still does is what the        *)
(* workbook has no run of.                                                 *)
SkipsTheRecorded ==
    [][sweep'.starts > sweep.starts /\ sweep'.resume /\ sweep'.proc = "answering" =>
          ToSet(sweep'.todo) = ToSet(sweep'.grid) \ Variants(sweep.book)]_sweep
=============================================================================
