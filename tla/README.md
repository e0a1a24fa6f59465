# A TLA+ model of the OS tutor

The repository is a retrieval-augmented tutor for an operating-systems course:
a FastAPI service streams answers grounded in the course files, and a
deterministic tutor decides, turn by turn, what to ask the student, how to read
the answer and what it says about their understanding. Next to it live the
programs that build the retrieval index, the sweep that compares retrieval
settings, and a research part: simulators of scheduling, synchronisation and
the banker's algorithm, a benchmark made with them, runs of language models
over it, and a second domain.

This directory models the parts of it whose behaviour depends on order,
interleaving, failure or boundaries, checks them with TLC and proves most of
what is checked, for instances of any size, with TLAPS. Paths below are relative to the repository's root.

## 1. The system

| Part | State it keeps | Operations | Hard about it |
|---|---|---|---|
| Pedagogical policy, `src/tutor/pedagogy.py` | per thread and concept: mastery state, when it was last asked about; which questions were asked and how often missed | grade an answer, mark mastered, apply a model's advisory, choose a question, a deeper one, decide whether to ask again or explain | clamps and boundaries over long sequences of answers |
| Tutor engine, `src/tutor/engine.py`, `conversation.py` | `TutorState`: concept records, the pending question, the quiz, the topic, the chips already shown | `plan_turn` (one branch per intent), `finish_rag`, `off_topic` | a plan is made before retrieval and generation are awaited and finished after; other turns of the thread run in between |
| Course, chips and intents, `os_course.py`, `knowledge.py`, `followups.py`, `conversation.py`, `triage.py` | authored tables; chips travel as plain messages | look up concepts and questions, offer chips, classify a message | a tapped chip goes through the same patterns as typed text |
| Chat route, `api/routes/chat.py` | a generator per request | reply, retrieve, stream the model, retry, finish, follow up, remember | every await may fail, be cancelled, or let another request of the thread run |
| Sentence gate, `src/tutor/shaping.py` | buffered text and spent units of one answer | `feed`, `finish` | tokens with no, one or several sentence ends; the tail |
| Session store, `api/routes/session.py`, `tutor.py` | history and tutor state per thread, in memory | append a turn, read, reset | a reset while a turn is in flight |
| Web client, `frontend/` | threads and messages in the browser, an abort controller and a streaming flag per thread | send, stop, run again, delete, reload, read the stream | a stopped turn still runs on the server; events arrive late |
| Retrieval, `src/pipeline.py`, `src/retrieval`, `src/reranking`, `src/diversification` | none per query | rewrite, retrieve, fuse, cap, rerank, diversify, expand | sizes of the stages |
| Ingestion, `src/ingestion`, `src/chunking` | captions and manifest | extract, caption, chunk | headings, windows, slides without text |
| Index programs, `src/build_index.py`, `scripts/reindex.py`, `api/pipeline_instance.py` | `data/processed/*.pkl`, `dense.faiss`, `dense_chunks.pkl`, `bm25.pkl`, `manifest.json` | full build, incremental update, the server's rebuild | a crash between or inside the writes; files and settings that change around and during a run |
| Sweep, `eval/ragas_eval.py`, `src/evaluation.py` | workbook of all runs, details, ranked table | generate, judge, record, resume | hours long, stopped anywhere, resumed by names |
| Simulators, `research/simulator` | none | enumerate and sample valid traces; validate one | two independent definitions of valid |
| Benchmark, `research/benchmark` | one instance | sample, permute, check, label | labels must follow from both definitions |
| Pilot and judging runs, `research/ssr_pilot/run_*.py`, `research/evaluation` | one append-only log per model | launch, call, append, resume | crashes in a write, failed calls, keys |
| Oracle and scoring, `research/ssr_pilot` | none | parse, judge, compare with a reference | cut answers, names outside the world |
| Second domain, `research/pilot_second_domain` | none; its own log | search all shortest plans, judge a plan | pruning that must keep every shortest plan |
| Reference choice, `research/ssr_pilot/rcrc` | none | exact distribution of a margin, certificate of its sign | zero margins, budgets |
| Statistics, other analyses, paper, scripts | files | offline | nothing concurrent |

How they interact: a chat request gets the thread's `TutorState` and history
from the session store; `plan_turn` changes the state and returns an authored
`Reply` or a `RagPlan`; the route carries the plan out (retrieval in a thread,
the model over HTTP through the gate), comes back to the same state with
`finish_rag`, `apply_advisory` or a model-written follow-up, and appends the
exchange to the history. The page reads the events of the stream and offers the
chips in them, which come back as messages. Everything of one server process
runs on one event loop, so code between two awaits (or yields) is atomic and
nothing else is. The index programs and the server share only the files under
`data/`; the research programs share only their logs.

What makes each part correct:

* tutor: no question is posed twice or stays open for ever, the quiz counts
  right, mastery follows evidence, a model can only nudge it; a chip does what
  it says and the student always has somewhere to go;
* chat: every finished stream has one final event, the student never sees two
  attempts, answers stay within their budget, turns end, the history is what
  was answered; the page shows one answer per message and becomes free again;
* index: what is not processed again is in the index, reused chunks belong to
  the file's content and settings, positions in the dense files match, a full
  build repairs everything, and no text is lost on the way to a chunk;
* research: enumerators and validators agree, labels follow from them, each
  call is answered once and a finished run is complete, certified signs hold.

## 2. The modules

| Module | Models | Role |
|---|---|---|
| `Pedagogy` | `pedagogy.py` | the policy as pure functions on the concept states |
| `TutorThread` | `engine.py`, `conversation.TutorState`, what `chat.py` does to it | the state of one thread and its turns; extends `Pedagogy` |
| `QuestionLifecycle` | | abstract: unasked, then open, then closed, once; `TutorThread` implements it |
| `OsCourse` | `os_course.py`, `knowledge.py` | the authored course: concepts, prerequisites, path, questions, starters |
| `Intents` | `conversation.py`, `triage.py` | which handler a message gets; extends `OsCourse` |
| `Course` | `engine.py`, `followups.py`, `StarterPanel.tsx` | one student's chat about the real course, by chips and typed messages: `TutorThread` with `Intents` |
| `TurnStream` | the head of `chat.py` | abstract: what a turn's event stream promises |
| `ChatTurn` | `chat.py`, `shaping.py`, `session.py` | event streams, gate, retry, history, reset; implements `TurnStream` |
| `ChatClient` | `Chat.tsx`, `api.ts`, `sse.ts`, `sessionStore.ts` | one thread of the page over `TurnStream` |
| `Ingestion` | `src/ingestion`, `src/chunking` | from a file's parts to chunks |
| `IndexBuild` | `build_index.py`, `reindex.py`, `pipeline_instance.py`, `manifest.py`, the retrievers' save, load, build, add | the index on disk |
| `Retrieval` | `pipeline.py` and its stages | one query |
| `Sweep` | `ragas_eval.py`, `evaluation.py` | a sweep, its files and its resumption |
| `CpuScheduling`, `Interleaving`, `Banker` | `research/simulator` | transition systems and validators, as operators |
| `Benchmark` | `benchmark/generator.py` | the construction of one instance over the first two |
| `SemanticOracle` | `ssr_pilot` worlds, oracle, scoring | the judgement of one written answer over all three |
| `RunLog` | `run_pilot.py`, `run_competence_pilot.py`, `run_claude.py`, `run_blocks_world_confirmatory.py`, `llm_client.py` | five runners over an append-only log |
| `JudgeCells` | `experiments.py`, `prompts.py`, `analysis.py` | the calls of the judging experiment; extends `RunLog` |
| `BlocksTasks`, `BlocksWorld` | `pilot_second_domain` | the 24 tasks; search, verification and judging |
| `ReferenceChoice` | `rcrc`, the sensitivity analyses | margins over references, exactly |
| `MCTutorThread`, `MCChatTurn`, `MCCourse`, `MCSweep`, `MCJudgeCells`, `MCOracle`, `MCComponents` | | constants for TLC |
| `Arrangement` | | lists made from sets of places: what sorting and filtering return; used by `Ingestion`, `Retrieval`, `Sweep`, `CpuScheduling` |
| `TutorThreadProofs` | | lemmas on the policy; the tutor's theorems |
| `ChatTurnProofs`, `ChatClientProofs`, `IndexBuildProofs` | | lemmas and theorems of the module each is named after |
| `CorpusProofs` | | `Ingestion` and `Retrieval` |
| `EvaluationProofs` | | `RunLog` and `JudgeCells`; `Sweep`; `ReferenceChoice` |
| `SimulatorProofs` | | `CpuScheduling`, `Interleaving` and `Banker` as `SemanticOracle` uses them |
| `CollectionLemmas` | | least numbers, induction over numbers and finite sets, arrangements, sums |

`PROJECT.json` maps each definition to the lines it stands for. Operators whose
comment starts with *Mutant:* are plausible wrong versions of the definition
that follows them; they are used by no specification and show that a property
can fail.

### Pedagogy and TutorThread

The variables are the fields of `TutorState` that decide anything (`concepts`,
`pending`, `quiz`, `topic`), `job[r]` (what request `r` still has to do: a
`RagPlan` waiting for its answer, an advisory waiting for the model, a
follow-up waiting to be offered) and `said`, what the last reply put before the
student. `plan_turn` has no await, so each of its branches is one action
(`Skip` is `_handle_pending`'s SKIP branch through `_finish_question` and
`_quiz_next`, and so on); `finish_rag`, `off_topic`, the advisory and the
follow-up are the actions of `AfterAwait`. The model-written follow-up is two
actions, `StreamOffer` and `SetFree`, because the code yields the question's
tokens between checking that nothing is pending and assigning `state.pending`.

Left to nondeterminism: the intent of a message, the label of an answer, the
concept a message names or the titles of an answer's sources show, what a model
suggests, and the order among questions of one type (the code takes the
authored order). The turn counter and `last_seq` are kept as their difference,
saturated at the cooldown, because the code only compares that difference with
the cooldown. Wording and the never-repeat guard on wording are not in the
model, and neither are `attempts`, `misconceptions` and the history rows of a
concept, which the policy never reads. A reset gives a thread a fresh state and
is in `ChatTurn`.

### OsCourse, Intents and Course

`OsCourse` writes down the authored tables by their structure: for a concept
its prerequisites and importance, for a question its type and how many groups
of keys an answer must match. `Intents` reduces a message to the families of
patterns that match it and goes through them in the code's order; its `Cues`
were read off the patterns for every chip text the code can produce. `Course`
takes over the actions of `TutorThread`, decides with `Intents` which one a
message runs, and adds what that module leaves out: `ui`, the chips of the
last reply, and what was offered before (`asked_chips`, the last 40).

### TurnStream, ChatTurn and ChatClient

In `ChatTurn`, `turn[r]` is where the generator of request `r` stands, `wire[r]`
the events it has sent, `history` the thread's finished turns. A phase is a
stretch of code between two points at which the generator may be left (an await
or a yield), so disconnects and other turns come exactly there. Consecutive
tokens of authored text are one event. The gate is reduced to what it decides
on: whether text is held back, units spent, whether anything was shown, whether
it is full; a token that reaches a boundary completes `ends` units. A line of
the model's stream that is not JSON raises out of the generator
(`ModelGarbles`, `chat.py:128`): such a turn ends in phase `broken`, without a
final event.

`TurnStream` is what a reader may rely on. `ChatTurn` implements it under the
mapping in `Promised` (property `KeepsPromise`), and `ChatClient` is built on
it instead of on `ChatTurn`: the page cannot see more. `ChatClient` adds the
messages of the thread, the `runQuestion` call behind each request (`reader`),
the abort controller and the streaming flag. The page reads an event some time
after it was sent; a stop aborts the reader at once while the server notices a
reader that has gone only at its next send, or never if it finishes first.

### Ingestion, IndexBuild and Retrieval

`Ingestion` reads one file step by step: slides with their bullets and
pictures, paragraphs with heading levels, sentences with lengths and shifts of
topic, characters of a section. Text is named by its position, so that losing,
repeating or misplacing it shows.

In `IndexBuild`, `raw` and `setting` are the course files and the
`ChunkingConfig`; `cache`, `manifest` and `index` are the files the programs
write; `run` is the running program: what it listed, what it still has to do,
the hash it took, the manifest it holds in memory and the retriever it is about
to save. Hashing a file and reading it again to chunk it are two actions, and
the four saves are one each. `Stop` is a death between two steps, `StopWriting`
a death inside a write, which leaves that file `Torn`: no file is written aside
and renamed. `Fails` is every exception the code does not catch. Editing,
removing and restoring files happens at any time. A batch stands for all the
chunks of a file; each file is taken to yield at least one.

`Retrieval` follows one query; a stage is an action. Scores are any values from
`Levels`, similarity of two chunks is having the same parent, and rank fusion is
computed with integers (`Scale` is divisible by the denominators that occur).

### The research modules

A trace, a problem, a plan is data; the enumerators, samplers and validators
are operators over them, written from each side's own code, and the state
machine (`build`, `trial`, `planning`, `study`) is one instance, one answer, one
task or one study as it is worked out. `RunLog` keeps the log as a sequence of
lines that may be torn or lack their newline; what a runner does with such a
line, a failed call or a launch with a limit differs by `kind`. The lists of
calls are parameters (`Batches`, `CellLists`), assumed to ask nothing twice, as
the keys are hashes of model, prompt and seed; what is still to do is a set of
positions in the list, computed from the log as the code does. The cells of E3B
(`--run-e3b`) may be run whenever the judge's log permits, before the main run
is complete too: nothing in `analysis.py` asks for that, and the verdicts it
chooses the judge by may be of other instances. In `SemanticOracle` an answer is
what the parser makes of it: segments of a schedule may begin and end anywhere,
in any order, overlap, leave gaps, last no time or end before they begin. `Sweep` keeps
the three files and the process; names of variants are the code's own strings,
because cutting them is the point.

### MCComponents

The components that share no state are explored in one run: `active` is chosen
in the initial state, the named one moves, the others stay as they began.
Nothing is composed by this beyond what the modules compose themselves; it
spares a run per component, and the states of the run are the sum of theirs.
Its properties are the modules' own, named at the end of `MCComponents`.

## 3. The runs

Passing runs (`expect: pass`):

| Run | Shows | Bounds |
|---|---|---|
| `ThreadAlone` | one request at a time: types, quiz, reminders, one question per answer, mastery by evidence | two concepts, four questions of four types (the first concept has recall, why and transfer, enough for a full quiz and for mastery; the second has one), cooldown 2, explanation after 2 misses, quiz of 3 |
| `ThreadConcurrent` | what survives two interleaved requests and model-written follow-ups: open questions are worth asking, none is posed twice, advice is clamped and about an attempted concept | one concept, three questions, two requests, cooldown 1 |
| `ChatOneTurn` | one turn's stream: final event, quiet retry, budget, termination | budget 3, four tokens per attempt of up to two sentence ends each, follow-ups on |
| `ChatTurns` | the history of two interleaved turns with a reset, and that they are what `TurnStream` promises | one token, follow-ups off |
| `ClientThread` | a message is one answer, what was seen complete is remembered, no waiting message without a reader, settled text stays, the composer becomes free | two questions or a rerun, two events before the last, one reload |
| `IndexRuns` | the index under crashes | two files, three contents, two settings, three edits, three program runs, one death; old contents and settings do not come back |
| `Components` | see below | see below |

`Components`, by `active`:

| Part | Property | Bounds |
|---|---|---|
| `chat` | `NeverAtALoss`, `ChipsDoWhatTheySay` | the real course (all concepts and questions), three messages, typed messages and titles about one concept |
| `query` | `RankingIsSound` | four chunks of two shared parents and one without; eleven settings over all techniques, rerankers and caps; two score levels |
| `reading` | `NothingIsLost` | three slides of two shapes, five paragraphs of three levels, three sentences, a text of eleven characters with windows of five overlapping by two |
| `sweep` | `DoneIsRecorded` | three variants of the default grid whose names are cut alike, one question, two launches |
| `build` | `BenchmarkIsSound` | three processes with ties, gaps, recut segments and all policies; six concurrency problems with mutexes, semaphores, waiting and a possible deadlock |
| `trial` | `OraclesAgree` | eight worlds of three families, answers of up to six entries, cut or with a stranger, times up to four, one stray entry or one segment without time (see below) |
| `run` | `OneAnswerEach`, `RunsAreComplete` | five runners, three calls (or one instance's cells), three launches, one restart, two workers |
| `planning` | `PlansAreComplete` | 19 of the 24 tasks searched and verified; answers of up to three actions for nine of them |
| `study` | `MarginIsCertain` | up to two tasks with up to three references each, two outputs, probabilities in twenty-fourths |

Runs that show a disagreement between the code and what is written about it
(`expect: violation`); each checks one property:

| Run | What happens |
|---|---|
| `CourseBullets` | "Give that as short bullet points", which the tutor offers as a chip, has six words and begins with "Give": `engine.py:592` takes it for a question of its own and retrieves for it. |
| `SweepResume` | The workbook knows a variant by the name of its sheet, cut to 31 characters. A resumed sweep runs variants with longer names again, and skips `dense+multi_query+cross_encoder` when what was recorded is another whose name was cut to that. |
| `E3bJudge` | A model's output equal to a reference gives the judge a prompt that is in its log already; no record is written for the output, and the summary counts it as rejected. |
| `IndexReverts` | A run with new settings dies after chunking, the old settings come back: the chunks made with the new settings match the old manifest entry and are reused. |
| `EmptySegment` | To a valid schedule a segment that takes no time is added: the normal form drops it and matches the reference, the transition system accepts it, and the validator calls it an overlap. |

Why the bounds are enough. The tutor's decisions depend on the type and
concept of one question and on counters that are small constants of the code:
two misses, three quiz questions, a cooldown that is either over or not. The
two concepts of `ThreadAlone` exercise both a complete quiz and one that runs
out. Two requests exhaust what one stale plan can meet, because a turn is
compared with one state: the one it finds. What depends on more (any number of
requests, concepts and questions) is proved. Three messages in the real course
reach a question, a chip of its answer and the chip after that; longer chats
are `ThreadAlone`'s, without the chips. In the chat, four tokens fill a budget
of three in every way and twice over in one retry. For the page, two requests
are one that was stopped or lost and one that came after it. In the index, a
crash needs a run before it (to have an index) and one after it (to see what it
left), and two files are what "some processed, some not" needs. Three launches
of a runner are one that leaves damage, one that meets it, and one after that.
The parts of `study`, `planning`, `trial` and `build` are functions of their
input; the inputs are chosen for ties, gaps, simultaneous events, contention and
more than one solution. In `trial` a schedule's segments are free
within the times, and two bounds cut answers that went wrong: a rule is broken
by at most one beginning of an answer (`MaxStumbles`; a gap that is filled later
is such a break), and a segment that takes no time is written last. Both judges
sort the segments first, so that a stray one written last stands for one written
anywhere. The theorem has no such bounds. The five tasks of the second
domain that are not searched (19 to 23) have the shape of others with one block
more.

`CHECK_DEADLOCK FALSE` appears where the system may really stop: all turns of a
chat over, all edits and programs of the index used up, a component at its end.
The bounds on tokens, resets, events, messages, reloads, edits, runs, launches
and deaths are in the guards and are named constants.

Fairness. Two runs need it. `TurnEnds` assumes weak fairness of each request's
`Proceed`, the steps of its generator: every await in it has a timeout (120 s
for the model's stream, shorter for the tutor's own calls) or is a local
computation, and the event loop resumes each task whose await is done.
`ComposerFrees` assumes, for each request the page has made, that it arrives at
the server, that its turn ends there (which is `TurnEnds`), that the browser
delivers what was sent, and that a broken stream is noticed. Nothing is assumed
about which outcome an await has, about the student or about new requests.

## 4. The proofs

Each theorem holds for every value of the constants that the named assumptions
of the modules allow; no bound of section 3 enters. The proofs are of
`Spec => []Inv` or `Spec => [][A]_vars`, `Spec` being the specification the runs
check.

| Module | Theorem | Property |
|---|---|---|
| `TutorThreadProofs` | `TypeCorrect`, `PendingSafe`, `QuizSafe`, `AdviceSafe` | `TypeOK`, `PendingIsWorthAsking`, `QuizIsSound`, `AdviceFollowsAttempt` |
| | `AdvisoryClamped`, `MasteryEarned` | `AdvisoryIsClamped`, `MasteryFollowsEvidence` |
| | `QuestionsOnce` | `QuestionsLiveOnce`: `TutorThread` implements `QuestionLifecycle` |
| | `OneQuestionAlone`, `ReminderAlone` | `OneQuestionPerReply`, `ReminderIsOpen`, for one request at a time |
| `ChatTurnProofs` | `StreamsEndOnce`, `RetryIsQuiet`, `BudgetKept`, `HistoryKept` | `EndsOnce`, `OneAttemptShown`, `WithinBudget`, `HistoryIsAnswered` |
| | `PromiseKept` | `KeepsPromise`: `ChatTurn` implements `TurnStream` |
| `ChatClientProofs` | `OneAnswerShown`, `CompleteKept`, `SpinnerSafe`, `SettledKept` | `MessageIsOneAnswer`, `CompleteIsRemembered`, `SpinnerHasReader`, `SettledStays` |
| `IndexBuildProofs` | `DenseKept`, `BuildRepairs` | `DenseAligned`, `FullBuildRepairs` |
| | `UnchangedKept`, `ReuseKept` | `UnchangedIsIndexed`, `ReuseIsSound`, if nothing comes back |
| `EvaluationProofs` | `NoDuplicates`, `CacheIsSound` | `OneAnswerEach`, `RunsAreComplete` |
| | `SuccessIsComplete` | `DoneIsComplete`, the first half of `RunsAreComplete`, for any lists of calls |
| | `SweepsAreRecorded` | `DoneIsRecorded`, for any grids whose names tell apart |
| | `MarginsAreCertain` | `MarginIsCertain`, for any tasks and any number of them |
| `CorpusProofs` | `ReadingLosesNothing` | `NothingIsLost`, for files of any length |
| | `RankingsAreSound` | `RankingIsSound`, for any settings and scores |
| `SimulatorProofs` | `OrdersAreNeverRegretted` | `NeverRegretted`, a part of `OraclesAgree`, for any problem of the banker |
| | `OraclesAgreeOnOrders`, `OraclesAgreeOnEvents`, `OraclesAgreeOnSchedules` | the other parts of `OraclesAgree`, in the worlds of one family each, for answers of any length |
| | `OraclesNeverDisagree` | `OraclesAgree`, for any worlds of the three families |
| | `LabelsNeverDisagree`, `RoundRobinStarvesNobody` | `LabelsAreTrue` and `RoundRobinIsFair`, parts of `BenchmarkIsSound`, for any problems |

Assumptions. `KnowledgeAssumption`, `PolicyAssumption`, `ThreadAssumption` and
`NoneAssumption` say that concepts and questions are authored consistently and
that the policy's constants are positive numbers. `PlanAssumption` says that a
runner's list of calls asks nothing twice. `DiskAssumption` says that a missing
file and a torn one are told apart from each other and from any content.
`NoiseAssumption` says that the conditions judged twice are picked from the list
in its order, as a sorted sample is; `RunnersAssumption` names the five runners.
`BoundAssumption` and `WindowAssumption` say that sizes are natural numbers and
that windows overlap by less than their length; `RetrievalAssumption` that there
are finitely many chunks, that scores are numbers and that rank fusion has a
common denominator; `SettingsAssumption` that each stage keeps something and the
pool is a multiple (above 1) of what the next stage keeps, which is how
`config.py` has it. `StudyAssumption` says what a count of matches can be, and
that probabilities are multiples of the unit `Total`, which rational ones always
are for some `Total`. `WorldsAssumption` says what the problems of the three
families are: finitely many processes that arrive at natural times and run for
some time each, with a positive quantum for round robin (`ScheduleProblem`);
finitely many threads with a sequence of operations each; finitely many
processes of a banker that hold natural numbers of the resources there are.
`ProblemsAssumption` of `MCComponents` evaluates it for the worlds checked.

Some theorems have a hypothesis of their own, because without it they are
false. `Alone` (no two requests on one thread): TLC finds a counterexample as
soon as a thread has two. `~Reverts` (contents and settings move forward): the
run `IndexReverts` is the counterexample. `NamesTellApart` (no variant's full
name is what the sheet of another may be called): without it a resumed sweep
skips a variant that never ran. It holds of the grid checked and of the code's
default grid (`GridsAssumption` of `MCComponents` evaluates both), and fails of
the grid of `SweepResume`, which is the counterexample.

Two properties carry their exception in the statement, which the theorems take
over. `OraclesAgree` claims that what the transition system accepts is valid,
and that a match with the reference is valid, only of answers in which every
segment takes time (`TakesTime`); `EmptySegment` is the counterexample
otherwise. `RunsAreComplete` claims a record for each condition unless the
judge's log is damaged or already held an E3B record of the same prompt
(`JudgedEarly`); section 5 tells how that happens.

Several proofs are by induction over data: over the length of a document, the
number of tasks, the elements of a set. The library states induction with an
operator as a parameter, which the provers cannot instantiate.
`CollectionLemmas` states it with a set instead: `LeastNatural` (a set of
numbers that is not empty has a least one), `Induction` and `SetInduction` follow
from the finiteness of intervals, and each use names the set of numbers, or of
sets, for which its claim holds. From them come `ArrangedFacts` (`Arranged`
returns every element once and in order, for any strict total order: what
`sorted()` promises), and the laws of sums over finite sets, of which
`SumByKey` and `SumOfProducts` carry the margins.

### The tutor

`Invariance` proves the inductive invariant `IInv`: types, the
safety of the open question, the quiz and the advice, and `Coherent(concepts)`,
which none of the properties states and they need: only a question that was
asked can have been missed. Without it a question that has just been posed could
already stand at the number of misses that calls for an explanation. What other
turns may do to a request's job is bounded by `Grows`: no step forgets that a
question was asked, and no concept falls below INTRODUCED or below ATTEMPTED
once it got there, so an advisory that waits for a model stays about an
attempted concept and a pending question about an introduced one.
`TutorThreadProofs` has one lemma per policy function (what it keeps and what it
changes), and one case per action for each kind of step. It then proves
from `IInv` that every step is `Sound`: it raises understanding only through
evidence, and either poses a question that was not asked before or poses none;
the theorems on action properties and the refinement follow.

With one request, `AloneInv` adds what a plan carries across its await: the
question it will lead the student back to is the one that is open. This is what
a second request breaks, by closing that question in between.

### The chat

`ChatTurnProofs` says of each turn what its wire holds at each phase
(`TurnGood`): the phases up to the lead have sent nothing, nothing terminal goes
out before the end, the ui event is out before the turn closes, only the attempt
that is shown is on the wire, and while the model speaks the gate has room left.
The last is needed for the budget, since one token may complete several
sentences and only a gate that was not full cuts them down in time; the bound on
the length of a wire (`Longest`) is needed because `OneAttemptShown` quantifies
over the positions a wire can have. There is one lemma per action, on `TurnGood`
of the turn that moves; the history and the other turns follow from
`TurnMoves`. `PromiseKept` maps each action to a step of `TurnStream`: a phase
that sends is a `Stream`, the end an `Answer`, a `Refuse` or a `BreakOff`, a
reset a `Forget`, and the rest nothing the page can see.

### The page

`ChatClientProofs` has the page over `TurnStream`, so it needs what the stream
guarantees (`StreamGood`: nothing follows an event that ends a turn, sources come
after a ui event and only of a remembered turn) and that what was sent stays
(`Grows`). On the page's side `OneReader` says that the open request is the one
in the abort map, and `Shown` that a message is exactly the first `read` events
of its request. `ReadEvent` keeps `Shown` because the next event is added to a
message that showed the events before it; stopping, running again and deleting
keep it because they close the only reader there is.

### The index

`IInv` follows a program through its phases: `Chunked` (one batch in memory for
each file it is through with), `Written` (what is in memory and how much of it
is on disk already), `Aligned` (the two dense files agree as long as nobody was
killed). `DenseAligned` and `FullBuildRepairs` follow from it with no assumption
on edits.

That the manifest does not promise too much needs the second invariant, `RInv`,
and that nothing comes back. `Newest` says that hashes and settings on record
are never newer than what there has been. Then an edit or a change of settings
can only take claims away (`ClaimsShrink`), and it suffices to keep sound the
claims there are: of the cache (`CacheSound`, for the manifest on disk, for the
one in memory, and for the hash just taken), of the batches of the running
program (`RunSound`) and of the index on disk and in memory (`IndexSound`).
Both manifests have to be covered because a death leaves the one on disk and a
save replaces it by the other. The hash just taken has to be because a file may
be edited between being hashed and being chunked: the chunks are then of the
newer content, and the entry, with the older hash, claims nothing.

### The logs

The inductive invariant is `LogInv`. `KeysApart` says that a key in the log is neither to do nor in flight, that a
key in flight is not to do, and that no two calls share one; with it a result can
be appended without a second answer, wherever the previous process died. A torn
line is no result, and a line glued to a torn one destroys both.
`NothingForgotten` says that every call is in the log, in flight or to do,
unless the log is damaged or a call failed.

The judge's key hashes the prompt and not the condition, so a key in the log
need not say which cell was run. Two main cells with one key are one cell, since
they have one prompt and the prompt tells the condition (`KeyTells`): no control
or noise repeat is answered with another's verdict. `CellsInv` says that the
readable lines of the log are main cells or E3B's, or the log is damaged. So when
the main run ends with every key in the log, the line with a condition's key is
its own record or an E3B record of the same prompt (`MainIsComplete`). The second
happens, and `RunsAreComplete` names it as its exception (`JudgedEarly`). It is
the only way in which a condition goes without a record; that an E3B cell goes
without one is what `E3bJudge` shows.

### The files

`ReadingInv` says for each kind of file what has been read of it. For slides
(`ChunkedOK`): which slide the divider texts pending are from, and that each
bullet of the slides read is in exactly one child, under its own slide and
headed by the titles since the last slide with content. For paragraphs
(`DocumentOK`): each paragraph read is in one section, finished or open, and a
section's path names the headings it stands under (`Under`): those before it
with no heading of the same or a higher level in between. A new heading keeps
this because cutting the path at its level (`CutPath`) removes exactly the
headings it closes. For the windows the claim is about numbers
(`WindowCoversWord`): windows start at multiples of the step, so the last start
before a word is less than a step before it, and a word no longer than the
overlap ends inside that window.

### A query

`QueryInv` says that the list of candidates has the length of all there is, or
that of the pool computed for the setting, from which it follows that each later
stage chooses from more than it keeps or from everything (`SizeFacts`, by cases
of the setting). That what is ahead in every ranking stays ahead is
`FusionKeepsAgreement`: each summand of the fused score falls with the rank, a
chunk missing from a list that was cut off counts nothing, so a sum over the
lists of one chunk is above that of the other (`SumGrowsStrictly`), and sorting by
it (`ArrangedFacts`) puts the first chunk first and cutting the result off
(`CutRanking`) keeps it there.

### A sweep

`SweepInv` follows the process: every variant of the grid is still to do, has
failed, or is in the workbook, apart from the one at work; rows that were scored
are in the workbook but for the one about to be recorded; after a save was torn
the process never gets as far as the details. Resuming drops a variant if a sheet
is called like it, and since names tell apart that sheet is its own. That no two
sheets are called alike needs that a suffix is only chosen when it is free, and
`RankedFacts` that the table holds what the rows hold: `Better`, a comparison of
fractions with a possible zero denominator, is shown to be a strict weak order
first (`MeansRank`).

### A margin

`Exact(tasks, choice, margin)` says that the distribution counts vectors: each
score that some vector with positive weight has is there, with the sum of the
weights of the vectors that have it. It holds of no task, and
`ConvolutionCounts` takes it through one convolution: the vectors over one more
task are the pairs of a vector and a reference (`ExtendedFacts`), weights
multiply and scores add. The expectation and the chance of a reversal are then
sums over vectors in another order (`SumByKey`). `CertifiedHolds` needs that the
expectation of one task moves by at most `K` times twice the distance
(`TaskMoves`: weights sum to `Total` under both choices, and a difference of
matches lies in `-K .. K`), and that the closed form of the budget is the
distance itself.

### An answer and its two judges

`TrialInv` says what has been written (processes of the world, or events of its
threads, of any number) and that the reference is among the traces enumerated.
The rest is about the functions that judge.

For the banker, an order is `Orderly` as far as it names nobody twice and each
need fits what is available and what the processes before it held; the validator
rejects exactly the orders that are not (`JudgedOrder`), the solver accepts
exactly the orderly ones of all processes (`AcceptedOrder`), and its walk reaches
exactly those (`SafeOrders`). The table of what there is to work with depends on
who has finished and not on the order (`WorkIs`), and it only grows (`WorkGrows`).
`NeverRegretted` is the exchange argument: of a safe order take the first process
the written order lacks; all before it are done, so there is at least as much to
work with as there was then, and it fits (`GoesOnSafely`). Repeated as often as
processes are missing, this completes the order (`Completed`).

For threads, the transition system keeps a set of configurations and the
validator one verdict. `TablesAgree` is an induction over the events: as long as
the validator has found no broken rule the set holds one configuration, which is
the validator's own, and afterwards it is empty. `EventsAgree` reads the two
results off that. That whatever is enumerated is valid needs that a run has as
many steps as there are operations: a step takes one operation from what is left
(`StepTakesOne`), so after the last one nothing remains.

For schedules, written segments are first sorted, filled with idle time and
merged. `ArrangedFacts` gives the sorting. The segments may be any: what makes
them tractable is the overlap check. Segments of which none overlaps another,
once sorted and filled, follow one another without a gap (`FilledGapless`), and
filling has then made of the answer a trace with the same verdict and the same
normal form (`FilledSame`). The other way round, what was written is recovered
from a normal form without gaps, as far as it takes time: filling adds idle time
only and merging keeps where segments begin and end, so if the normal form has
no overlap neither has the answer (`FilledTimed`, `TimedApart`). This is where a
segment that takes no time, which the normal form forgets, has to be excluded.
Of segments that follow one another nothing changes but the merging (`Gapless`),
and a merged trace covers the time with the same processes, so that it decides
what constraints and outcomes decide (`MergedCovers`, `HoldsOfFilled`).

On the scheduler's side, the runs of a problem are the least set that has the
initial states and is closed under steps (`PathFacts`): enough steps are taken,
since each takes time and none ends after the last arrival and all bursts
(`Legal` states). On the validator's side, without preemption there is one
verdict; it follows the run segment by segment, because two neighbouring
segments of a run are never of one process and so its trace is merged already
(`StraightRuns`, `JudgedRuns`). With round robin a merged segment may be several
quanta of one process, and the validator keeps a set of configurations.
`ReachedFacts` says that what it reaches inside a segment is the least set that
has the configuration it starts from and is closed under dispatches, although a
worklist computes it, and `ConsistentEnds` with `RunsKeep` that the
configurations consistent with a merged trace are exactly the last states of the
runs whose segments merge to it. That a trace is accepted if and only if it is
enumerated then says the same of both sides (`JudgeIsSpace`).

That a match is valid follows for all three (`MatchedIsValid`): a match has the
reference's normal form, and of three different traces none is empty.

### An instance of the benchmark

`LabelInv` says at each stage what has been made so far: an enumerated R1, an
enumerated R2 that differs from it in substance, a candidate that is some sequence
of segments of positive length (or of events of the threads), and traces the
validator refused. The labels follow, since validator and transition system agree on every
trace of that form (`EnumeratedAre`, `RefusedAreNot`).

That R1 is enumerated is the longest part. The code takes the first step the
transition system offers, each time. For threads, that must be a step from which
the rest can still be finished: a configuration that can finish and has
operations left offers one (`LiveStepExists`), so the walk does not stop early
and is one of the runs. For schedules, a step
must exist whose queue is in canonical order: the orders in which arrivals may
enqueue include the rising one, time unit by time unit (`InOrderFacts`), both when the
processor idles (`WaitInOrder`) and when a process is preempted
(`RotateInOrder`). Processes and threads must be numbered for that
(`BenchmarkAssumption`); the code numbers them by their place in its list.

`RoundRobinStarvesNobody` rests on `Fair`, an invariant of runs and their merged
traces: whoever is at place `k` of the queue has waited so little that, after
`k - 1` more quanta, it is still within the bound. Who goes to the end of the queue has
just run or arrived, and at most all others are before it (`FairQuantum`).

### What is only model-checked

* Liveness (`TurnEnds`, `ComposerFrees`): it needs `ENABLED`, and fairness of
  each request.
* `NeverAtALoss` and `ChipsDoWhatTheySay`: they are about the authored course
  itself, and checking its tables is a computation.
* Of `BenchmarkIsSound`, that an invalid trace shares the surface of the valid
  ones and that commuting swaps change no verdict (`SurfaceIsShared`,
  `ClassDecides`): they count and pick elements with `SelectSeq`, a recursive
  operator.
* `PlansAreComplete`: `BlocksWorld` uses recursive operators, which the SMT
  backend does not take; so does `MCComponents` through it.

## 5. What is not modelled

* Two index programs at once. The code has no lock; `IndexBuild` runs one at a
  time.
* The student and the page together with the tutor's state: that a follow-up is
  pending although its reader went away before it was shown (`engine.py:744`).
  The composition is out of TLC's reach at bounds where questions are graded.
* Text: grading keys, hints, prompts, gate boundaries as regular expressions,
  the free wording of a typed message. Each is represented by what the rest of
  the code distinguishes in it.
* In the page: switching between threads, the model list, the overview and the
  progress panel; two tabs that save over each other. Authentication.
* Embeddings, the judge's metrics and every score: any value.
* The similarity-biased choice of references and the Monte Carlo estimates,
  bootstraps, correlations, tables and the paper: floating-point computation
  without state. `run_stated_convention.py` writes its log as `run_pilot.py`
  does. The extractors' libraries and table layout.
* Process restarts of the server: histories and tutor states are in memory only
  and are lost, which is `Init`.

`PROJECT.json` lists the hazards found in the code, with the properties that
cover them or the reason that none does.

One disagreement has no run of its own. `generator.py:10-14` and
`docs/PREREGISTRATION_V2.md:20` say that I has the same multiset of segments as
the valid traces, so that only the order can tell it from R2. With round robin
it need not. Ties decide which neighbouring quanta merge, so schedules of one
problem may name the same processes in the same order for different times
(as those of `Recut` in `MCComponents`); half of the
candidates are made from a valid trace that is not R2 (`generator.py:205`), and
only length and profile of names are matched with R2's. In `benchmark_v2.json`,
I2 of `rr_primitive_050` has another multiset than R2. `test_semantics.py:205`
leaves round robin out, and so does `SurfaceIsShared`: it says that I is made of
the segments of some valid trace, of R2's without preemption, and that processes
get the time they get in R2.

Another has no run because `RunsAreComplete` excepts it. If the main run of the
judge is interrupted and `analysis --run-e3b` is given then, an output equal to a
reference that a condition still to come is judged with (R2 with R1, or R1 with
itself) is judged under that condition's key (`analysis.py:331-338`; only the
rate of parse failures is asked about, at 294). The resumed main run finds the
key in the log, drops the cell (`experiments.py:148`) and ends well, without a
record of the condition.

What a segment without time does is not confined to `EmptySegment`. After the
end of a valid schedule ("P2 7-7" when everything is over at 4) it passes the
overlap check, the answer is judged TRUE and matches the reference, and the
outcome that is observed has P2 finish at 7 (`families.py`), so that the two of
the three criteria that should follow from each other do not.

Behaviour met while modelling that is not a property of a run, because nothing
in the repository claims otherwise or because a run for it would repeat another:

* With two requests in flight an answer can end in a reminder of a question
  that was closed meanwhile and in a new one (`OneQuestionPerReply` and
  `ReminderIsOpen` hold in `ThreadAlone` and not in `ThreadConcurrent`'s
  setting), and a model-written follow-up can overwrite an authored question
  (`chat.py:296-306`).
* A quiz on a concept with two questions (`pcb`, `dining_philosophers`,
  `reader_writer`) sums up after two. Mastery, which needs a transfer question,
  can be reached for `os_role`, `page_replacement`, `locks` and `deadlock` only.
* A turn in flight while its thread is reset appends itself to the new history.
* An example asked for while a question is open is about the question's
  concept, even when the message names another (`engine.py:428`); "Next topic"
  with a question open skips the question; on a path that is understood to its
  end the reply has no chips (`engine.py:213-216`).
* A message saved while it was streaming keeps its animation after a reload
  (`SpinnerHasReader` excepts it). A connection lost after the sources puts an
  error over a complete answer (`SettledStays` allows it).
* A slide deck's last divider slide, headings without body, and pictures whose
  caption failed are not indexed. A word longer than the windows' overlap can
  be cut in every window. Files with one stem share their `doc_id`.
* With a pool multiplier of 1 diversification has nothing to choose from; the
  cap per parent can leave fewer candidates than the pool asks for.
* After a file is removed, `reindex` says that the index is already up to date
  (`reindex.py:54-55`) and drops the file's manifest entry; its chunks stay in
  the index until the next full build.
* A crash while the workbook is saved loses the history of all sweeps; after a
  resume the table and the details show only the resumed session; records of
  `--quick` count as done for a full sweep.
* A torn last line stops `run_pilot.py`, `run_competence_pilot.py`,
  `run_claude.py` and the judging runner for good; the second-domain runner
  skips it, and glues its next record to it. Its error records count as done.
* The competence runner goes on when the wait for a free GPU runs out.
* The second domain's oracle accepts plans that are valid and longer than the
  shortest, which match no reference.

## 6. Plan

1. `SurfaceIsShared` and `ClassDecides`, the rest of `BenchmarkIsSound`.
2. Overlapping index programs in `IndexBuild`; threads in `ChatClient`.
