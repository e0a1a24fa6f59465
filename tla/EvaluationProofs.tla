---------------------------- MODULE EvaluationProofs ----------------------------
(***************************************************************************)
(* What is proved of the programs that run experiments and compare what    *)
(* they give: the resumable runners over one log each, the sweep over the  *)
(* pipeline's variants, and the margin between two models.                 *)
(***************************************************************************)
EXTENDS JudgeCells, Sweep, ReferenceChoice, CollectionLemmas, TLAPS

----------------------------------------------------------------------------
(* The logs of the resumable runners, for every plan, number of workers,   *)
(* of restarts and of launches.  However the process dies, a key in the    *)
(* log is never on the list of what is still to do and never in flight:    *)
(* this is what keeps a second answer out of the log.  The judging runner  *)
(* caches by prompt: within a main run the prompt tells the condition, and *)
(* until every condition has its record nothing else is written.           *)

IsLog(file) == file \in Seq(Lines(file))

SingleAnswers(file) ==
    \A i, j \in DOMAIN file :
        Readable(file[i]) /\ Readable(file[j]) /\ file[i].call.key = file[j].call.key => i = j

(* Every trial is in the log, in flight or to do, and in one of them only. *)
KeysApart ==
    /\ run.todo \subseteq DOMAIN run.calls
    /\ \A i, j \in DOMAIN run.calls : run.calls[i].key = run.calls[j].key => i = j
    /\ \A i \in run.todo : run.calls[i].key \notin LoggedKeys(run.file)
    /\ \A c \in run.inflight : c.key \notin LoggedKeys(run.file)
    /\ \A c \in run.inflight, i \in run.todo : c.key # run.calls[i].key
    /\ \A c, d \in run.inflight : c.key = d.key => c = d

Damaged(file) == \E l \in Lines(file) : ~Readable(l)

(* Of a launch that is under way nothing is forgotten.                     *)
NothingForgotten ==
    run.proc \in {"gate", "running", "done"} /\ run.failures = {} =>
        \/ Damaged(run.file)
        \/ \A i \in DOMAIN run.calls : \/ run.calls[i].key \in LoggedKeys(run.file)
                                       \/ i \in run.todo
                                       \/ run.calls[i] \in run.inflight

LogInv ==
    /\ DOMAIN run = DOMAIN NoRunner
    /\ IsLog(run.file)
    /\ run.proc # "running" => run.inflight = {}
    /\ run.proc = "done" => run.todo = {}
    /\ run.kind # "cells" => SingleAnswers(run.file) /\ KeysApart
    /\ NothingForgotten

----------------------------------------------------------------------------
(* Writing a line adds it, or tears the unfinished one before it.          *)
LEMMA AppendedFacts ==
    ASSUME NEW file, IsLog(file), NEW line
    PROVE  LET f == Appended(file, line) IN
           /\ IsLog(f)
           /\ \/ /\ DOMAIN f = DOMAIN file \union {Len(file) + 1} /\ Len(file) + 1 \notin DOMAIN file
                 /\ \A i \in DOMAIN file : f[i] = file[i]
                 /\ f[Len(file) + 1] = line
              \/ /\ DOMAIN f = DOMAIN file /\ Len(file) \in DOMAIN file
                 /\ \A i \in DOMAIN file : i # Len(file) => f[i] = file[i]
                 /\ ~Readable(f[Len(file)])
  <1> DEFINE f == Appended(file, line)
             torn == Line(file[Len(file)].call, "torn", line.ended)
             S == Lines(file) \union {line, torn}
  <1>1. DOMAIN file = 1 .. Len(file) /\ Len(file) \in Nat /\ \A i \in DOMAIN file : file[i] \in S
    BY LenProperties DEF IsLog, Lines
  <1>2. file \in Seq(S)
    <2>1. file \in [1 .. Len(file) -> S]
      BY <1>1, LenProperties DEF IsLog
    <2>2. \A n \in Nat : [1 .. n -> S] \subseteq Seq(S)
      BY SeqDef
    <2> QED
      BY <1>1, <2>1, <2>2
  <1>3. torn \in S /\ line \in S
    OBVIOUS
  <1>4. \A g \in Seq(S) : IsLog(g)
    <2> SUFFICES ASSUME NEW g \in Seq(S)
                 PROVE  g \in Seq(Lines(g))
      BY DEF IsLog
    <2> HIDE DEF S
    <2>1. DOMAIN g = 1 .. Len(g) /\ Len(g) \in Nat /\ g \in [1 .. Len(g) -> S]
      BY LenProperties
    <2>2. g \in [1 .. Len(g) -> Lines(g)]
      BY <2>1 DEF Lines
    <2>3. \A n \in Nat : [1 .. n -> Lines(g)] \subseteq Seq(Lines(g))
      BY SeqDef
    <2> QED
      BY <2>1, <2>2, <2>3
  <1>5. CASE f = Append(file, line)
    <2> DEFINE g == Append(file, line)
    <2> HIDE DEF S
    <2>1. /\ g \in Seq(S) /\ Len(g) = Len(file) + 1 /\ \A i \in 1 .. Len(file) : g[i] = file[i]
          /\ g[Len(file) + 1] = line
      BY <1>2, <1>3, AppendProperties
    <2>2. DOMAIN g = 1 .. Len(g)
      <3> HIDE DEF g
      <3> QED
        BY <2>1, LenProperties
    <2>3. IsLog(g)
      BY <1>4, <2>1
    <2> HIDE DEF g
    <2>4. /\ DOMAIN g = DOMAIN file \union {Len(file) + 1} /\ Len(file) + 1 \notin DOMAIN file
          /\ \A i \in DOMAIN file : g[i] = file[i]
      BY <1>1, <2>1, <2>2
    <2>5. f = g
      BY <1>5 DEF g
    <2> HIDE DEF f
    <2> QED
      BY <2>1, <2>3, <2>4, <2>5 DEF f
  <1>6. CASE file # <<>> /\ f = [file EXCEPT ![Len(file)] = torn]
    <2> DEFINE g == [file EXCEPT ![Len(file)] = torn]
    <2>1. Len(file) \in 1 .. Len(file)
      BY <1>1, <1>2, <1>6, EmptySeq
    <2>2. /\ g \in Seq(S) /\ DOMAIN g = DOMAIN file
          /\ \A i \in DOMAIN file : i # Len(file) => g[i] = file[i]
          /\ g[Len(file)] = torn
      <3>1. g \in Seq(S)
        <4> HIDE DEF S, torn
        <4> QED
          BY <1>2, <1>3, <2>1, ExceptSeq
      <3> QED
        BY <1>1, <2>1, <3>1
    <2>3. ~Readable(torn)
      BY DEF Readable, Line
    <2>4. IsLog(g)
      <3> HIDE DEF S, g
      <3> QED
        BY <1>4, <2>2
    <2>5. f = g
      BY <1>6
    <2> HIDE DEF f, g, torn, S
    <2> QED
      BY <1>1, <2>1, <2>2, <2>3, <2>4, <2>5 DEF f
  <1> QED
    BY <1>5, <1>6 DEF Appended, Last

LEMMA LoggedFacts ==
    ASSUME NEW file, NEW key
    PROVE  key \in LoggedKeys(file) <=>
               \E i \in DOMAIN file : Readable(file[i]) /\ file[i].call.key = key
  BY DEF LoggedKeys, Lines

LEMMA DamagedFacts ==
    ASSUME NEW file
    PROVE  Damaged(file) <=> \E i \in DOMAIN file : ~Readable(file[i])
  BY DEF Damaged, Lines

(* A result is written once for its key, and replaces no other, unless it  *)
(* tears a line.                                                           *)
LEMMA Writes ==
    ASSUME NEW file, IsLog(file), NEW call, NEW result, NEW ended
    PROVE  LET f == Appended(file, Line(call, result, ended)) IN
           /\ IsLog(f)
           /\ LoggedKeys(f) \subseteq LoggedKeys(file) \union {call.key}
           /\ SingleAnswers(file) /\ call.key \notin LoggedKeys(file) => SingleAnswers(f)
           /\ Damaged(file) => Damaged(f)
           /\ Damaged(f) \/ LoggedKeys(file) \union {call.key} \subseteq LoggedKeys(f)
  <1> DEFINE line == Line(call, result, ended)
             f == Appended(file, line)
             n == Len(file) + 1
             m == Len(file)
  <1>1. line.call.key = call.key
    BY DEF Line
  <1>2. CASE /\ DOMAIN f = DOMAIN file \union {n} /\ n \notin DOMAIN file
             /\ \A i \in DOMAIN file : f[i] = file[i]
             /\ f[n] = line
    <2> HIDE DEF f, line, n
    <2>1. LoggedKeys(f) \subseteq LoggedKeys(file) \union {call.key}
      <3> SUFFICES ASSUME NEW key \in LoggedKeys(f), key \notin LoggedKeys(file)
                   PROVE  key = call.key
        OBVIOUS
      <3>1. PICK i \in DOMAIN f : Readable(f[i]) /\ f[i].call.key = key
        BY LoggedFacts
      <3> QED
        BY <1>1, <1>2, <3>1, LoggedFacts
    <2>2. ASSUME SingleAnswers(file), call.key \notin LoggedKeys(file)
          PROVE  SingleAnswers(f)
      <3> SUFFICES ASSUME NEW i \in DOMAIN f, NEW j \in DOMAIN f, Readable(f[i]), Readable(f[j]),
                          f[i].call.key = f[j].call.key
                   PROVE  i = j
        BY DEF SingleAnswers
      <3>1. \A k \in DOMAIN file : Readable(file[k]) => file[k].call.key # call.key
        BY <2>2, LoggedFacts
      <3> QED
        BY <1>1, <1>2, <2>2, <3>1 DEF SingleAnswers
    <2>3. Damaged(file) => Damaged(f)
      BY <1>2, DamagedFacts
    <2>4. ASSUME ~Damaged(f), NEW key \in LoggedKeys(file) \union {call.key}
          PROVE  key \in LoggedKeys(f)
      <3>1. CASE key = call.key
        <4>1. n \in DOMAIN f /\ Readable(f[n]) /\ f[n].call.key = key
          BY <1>1, <1>2, <2>4, <3>1, DamagedFacts
        <4> QED
          BY <4>1, LoggedFacts
      <3>2. CASE key \in LoggedKeys(file)
        <4>1. PICK i \in DOMAIN file : Readable(file[i]) /\ file[i].call.key = key
          BY <3>2, LoggedFacts
        <4> QED
          BY <1>2, <4>1, LoggedFacts
      <3> QED
        BY <2>4, <3>1, <3>2
    <2>5. IsLog(f)
      BY AppendedFacts DEF f
    <2> QED
      BY <2>1, <2>2, <2>3, <2>4, <2>5 DEF f, line
  <1>3. CASE /\ DOMAIN f = DOMAIN file /\ m \in DOMAIN file
             /\ \A i \in DOMAIN file : i # m => f[i] = file[i]
             /\ ~Readable(f[m])
    <2> HIDE DEF f, line, m
    <2>1. Damaged(f)
      BY <1>3, DamagedFacts
    <2>2. LoggedKeys(f) \subseteq LoggedKeys(file)
      <3> SUFFICES ASSUME NEW key \in LoggedKeys(f)
                   PROVE  key \in LoggedKeys(file)
        OBVIOUS
      <3>1. PICK i \in DOMAIN f : Readable(f[i]) /\ f[i].call.key = key
        BY LoggedFacts
      <3> QED
        BY <1>3, <3>1, LoggedFacts
    <2>3. SingleAnswers(file) => SingleAnswers(f)
      <3> SUFFICES ASSUME SingleAnswers(file), NEW i \in DOMAIN f, NEW j \in DOMAIN f, Readable(f[i]),
                          Readable(f[j]), f[i].call.key = f[j].call.key
                   PROVE  i = j
        BY DEF SingleAnswers
      <3> QED
        BY <1>3 DEF SingleAnswers
    <2>4. IsLog(f)
      BY AppendedFacts DEF f
    <2> QED
      BY <2>1, <2>2, <2>3, <2>4 DEF f, line
  <1> QED
    BY <1>2, <1>3, AppendedFacts

----------------------------------------------------------------------------
(* Each step of a runner, by the fields it changes.                        *)

LEMMA LaunchKeeps ==
    ASSUME LogInv, NEW kind \in Runners, Launch(kind)
    PROVE  LogInv'
  <1> DEFINE stuck == ~Skips(kind) /\ \E l \in Lines(run.file) : ~Readable(l)
  <1>1. PICK calls \in (IF kind = "cells" THEN CellLists(run.file) ELSE Batches(kind)) :
           LET todo == IF stuck THEN {} ELSE Todo(calls, run.file)
           IN  run' = [run EXCEPT !.kind = kind, !.calls = calls, !.todo = todo, !.restarts = 0, !.failures = {},
                                  !.starts = @ + 1,
                                  !.proc = CASE stuck -> "stuck"
                                             [] ~stuck /\ kind = "competence" /\ todo # {} -> "gate"
                                             [] OTHER -> "running"]
    BY DEF Launch
  <1>2. run.kind \in {"none", kind} /\ run.proc \notin {"gate", "running"}
    BY DEF Launch
  <1> DEFINE todo == IF stuck THEN {} ELSE Todo(calls, run.file)
             proc == CASE stuck -> "stuck"
                       [] ~stuck /\ kind = "competence" /\ todo # {} -> "gate"
                       [] OTHER -> "running"
  <1>3. proc \in {"stuck", "gate", "running"} /\ (stuck <=> proc = "stuck")
    OBVIOUS
  <1>4. todo \subseteq DOMAIN calls /\ \A i \in todo : calls[i].key \notin LoggedKeys(run.file)
    BY DEF Todo
  <1>5. ~stuck => \A i \in DOMAIN calls : calls[i].key \in LoggedKeys(run.file) \/ i \in todo
    BY DEF Todo
  <1> HIDE DEF todo, proc, stuck
  <1>6. /\ DOMAIN run' = DOMAIN NoRunner /\ run'.kind = kind /\ run'.calls = calls /\ run'.todo = todo
        /\ run'.proc = proc /\ run'.file = run.file /\ run'.inflight = run.inflight /\ run'.failures = {}
    BY <1>1 DEF LogInv, NoRunner, todo, proc
  <1>7. run'.inflight = {} /\ IsLog(run'.file)
    BY <1>2, <1>6 DEF LogInv
  <1>8. kind # "cells" => SingleAnswers(run'.file) /\ KeysApart'
    <2> SUFFICES ASSUME kind # "cells"
                 PROVE  SingleAnswers(run'.file) /\ KeysApart'
      OBVIOUS
    <2>1. \A i, j \in DOMAIN calls : calls[i].key = calls[j].key => i = j
      BY PlanAssumption
    <2>2. SingleAnswers(run'.file)
      BY <1>2, <1>6 DEF LogInv
    <2> QED
      BY <1>4, <1>6, <1>7, <2>1, <2>2 DEF KeysApart
  <1>9. NothingForgotten'
    BY <1>3, <1>5, <1>6 DEF NothingForgotten
  <1> QED
    BY <1>3, <1>6, <1>7, <1>8, <1>9 DEF LogInv

(* A line is written for a call in flight, which is then no longer so.     *)
LEMMA CallWritten ==
    ASSUME LogInv, NEW call \in run.inflight, NEW result, NEW ended,
           run'.file = Appended(run.file, Line(call, result, ended)),
           run'.inflight \subseteq run.inflight \ {call}, run'.todo \subseteq run.todo,
           run'.calls = run.calls, run'.kind = run.kind
    PROVE  /\ IsLog(run'.file)
           /\ run'.kind # "cells" => SingleAnswers(run'.file) /\ KeysApart'
           /\ Damaged(run.file) => Damaged(run'.file)
           /\ Damaged(run'.file) \/ LoggedKeys(run.file) \union {call.key} \subseteq LoggedKeys(run'.file)
  <1> DEFINE f == Appended(run.file, Line(call, result, ended))
  <1>1. /\ IsLog(f)
        /\ LoggedKeys(f) \subseteq LoggedKeys(run.file) \union {call.key}
        /\ SingleAnswers(run.file) /\ call.key \notin LoggedKeys(run.file) => SingleAnswers(f)
        /\ Damaged(run.file) => Damaged(f)
        /\ Damaged(f) \/ LoggedKeys(run.file) \union {call.key} \subseteq LoggedKeys(f)
    BY Writes DEF LogInv
  <1>2. run'.file = f
    OBVIOUS
  <1> HIDE DEF f
  <1>3. ASSUME run.kind # "cells"
        PROVE  SingleAnswers(f) /\ KeysApart'
    <2>1. KeysApart /\ SingleAnswers(run.file)
      BY <1>3 DEF LogInv
    <2>2. SingleAnswers(f)
      BY <1>1, <2>1 DEF KeysApart
    <2>3. KeysApart'
      BY <1>1, <1>2, <2>1 DEF KeysApart
    <2> QED
      BY <2>2, <2>3
  <1> QED
    BY <1>1, <1>2, <1>3

(* The process ends: what was to do and in flight is forgotten.            *)
LEMMA StoppedKeeps ==
    ASSUME LogInv, NEW proc \in {"off", "failed"}, Stopped(proc)
    PROVE  LogInv'
  <1>1. /\ DOMAIN run' = DOMAIN NoRunner /\ run'.proc = proc /\ run'.inflight = {} /\ run'.todo = {}
        /\ run'.file = run.file /\ run'.calls = run.calls /\ run'.kind = run.kind
    BY DEF Stopped, LogInv, NoRunner
  <1>2. run'.kind # "cells" => SingleAnswers(run'.file) /\ KeysApart'
    BY <1>1 DEF LogInv, KeysApart
  <1> QED
    BY <1>1, <1>2 DEF LogInv, NothingForgotten

LEMMA GateKeeps ==
    ASSUME LogInv, GateFree \/ GateGivesUp
    PROVE  LogInv'
  <1>1. /\ DOMAIN run' = DOMAIN NoRunner /\ run'.proc \in {"running", "gave_up"} /\ run.proc = "gate"
        /\ run'.inflight = run.inflight /\ run'.todo = run.todo /\ run'.failures = run.failures
        /\ run'.file = run.file /\ run'.calls = run.calls /\ run'.kind = run.kind
    BY DEF GateFree, GateGivesUp, LogInv, NoRunner
  <1>2. run'.kind # "cells" => SingleAnswers(run'.file) /\ KeysApart'
    BY <1>1 DEF LogInv, KeysApart
  <1>3. NothingForgotten'
    BY <1>1 DEF LogInv, NothingForgotten
  <1> QED
    BY <1>1, <1>2, <1>3 DEF LogInv

LEMMA SubmitKeeps ==
    ASSUME LogInv, Submit
    PROVE  LogInv'
  <1>1. PICK i \in run.todo : run' = [run EXCEPT !.todo = @ \ {i}, !.inflight = @ \union {run.calls[i]}]
    BY DEF Submit
  <1>2. /\ DOMAIN run' = DOMAIN NoRunner /\ run.proc = "running" /\ run'.proc = run.proc
        /\ run'.inflight = run.inflight \union {run.calls[i]} /\ run'.todo = run.todo \ {i}
        /\ run'.failures = run.failures
        /\ run'.file = run.file /\ run'.calls = run.calls /\ run'.kind = run.kind
    BY <1>1 DEF Submit, LogInv, NoRunner
  <1>3. ASSUME run.kind # "cells"
        PROVE  SingleAnswers(run'.file) /\ KeysApart'
    <2>1. SingleAnswers(run.file) /\ KeysApart
      BY <1>3 DEF LogInv
    <2>2. \A j \in run'.todo : run'.calls[j].key # run.calls[i].key
      BY <1>2, <2>1 DEF KeysApart
    <2>3. \A c \in run.inflight : c.key # run.calls[i].key
      BY <2>1 DEF KeysApart
    <2> QED
      BY <1>2, <2>1, <2>2, <2>3 DEF KeysApart
  <1>4. NothingForgotten'
    BY <1>2 DEF LogInv, NothingForgotten
  <1> QED
    BY <1>2, <1>3, <1>4 DEF LogInv

(* The result of a call, an answer or (blocks) an error, is logged.        *)
LEMMA ResultKeeps ==
    ASSUME LogInv, run.proc = "running", NEW call \in run.inflight, NEW result,
           run' = [run EXCEPT !.inflight = @ \ {call}, !.file = Appended(@, Line(call, result, TRUE))]
    PROVE  LogInv'
  <1>1. /\ DOMAIN run' = DOMAIN NoRunner /\ run'.proc = run.proc
        /\ run'.inflight = run.inflight \ {call} /\ run'.todo = run.todo /\ run'.failures = run.failures
        /\ run'.file = Appended(run.file, Line(call, result, TRUE))
        /\ run'.calls = run.calls /\ run'.kind = run.kind
    BY DEF LogInv, NoRunner
  <1>2. /\ IsLog(run'.file)
        /\ run'.kind # "cells" => SingleAnswers(run'.file) /\ KeysApart'
        /\ Damaged(run.file) => Damaged(run'.file)
        /\ Damaged(run'.file) \/ LoggedKeys(run.file) \union {call.key} \subseteq LoggedKeys(run'.file)
    BY <1>1, CallWritten
  <1>3. NothingForgotten'
    <2> SUFFICES ASSUME run.failures = {}, ~Damaged(run'.file), NEW i \in DOMAIN run.calls
                 PROVE  \/ run.calls[i].key \in LoggedKeys(run'.file)
                        \/ i \in run'.todo
                        \/ run.calls[i] \in run'.inflight
      BY <1>1 DEF NothingForgotten
    <2>1. \/ run.calls[i].key \in LoggedKeys(run.file)
          \/ i \in run.todo
          \/ run.calls[i] \in run.inflight
      BY <1>2 DEF LogInv, NothingForgotten
    <2> QED
      BY <1>1, <1>2, <2>1
  <1> QED
    BY <1>1, <1>2, <1>3 DEF LogInv

LEMMA CallFailsKeeps ==
    ASSUME LogInv, run.proc = "running", NEW call \in run.inflight, CallFails(call)
    PROVE  LogInv'
  <1>1. CASE \E proc \in {"off", "failed"} : Stopped(proc)
    BY <1>1, StoppedKeeps
  <1>2. CASE run' = [run EXCEPT !.restarts = @ + 1]
    <2>1. /\ DOMAIN run' = DOMAIN NoRunner /\ run'.proc = run.proc
          /\ run'.inflight = run.inflight /\ run'.todo = run.todo /\ run'.failures = run.failures
          /\ run'.file = run.file /\ run'.calls = run.calls /\ run'.kind = run.kind
      BY <1>2 DEF LogInv, NoRunner
    <2>2. run'.kind # "cells" => SingleAnswers(run'.file) /\ KeysApart'
      BY <2>1 DEF LogInv, KeysApart
    <2> QED
      BY <2>1, <2>2 DEF LogInv, NothingForgotten
  <1>3. CASE run' = [run EXCEPT !.inflight = @ \ {call}, !.failures = @ \union {call}]
    <2>1. /\ DOMAIN run' = DOMAIN NoRunner /\ run'.proc = run.proc
          /\ run'.inflight = run.inflight \ {call} /\ run'.todo = run.todo /\ run'.failures # {}
          /\ run'.file = run.file /\ run'.calls = run.calls /\ run'.kind = run.kind
      BY <1>3 DEF LogInv, NoRunner
    <2>2. run'.kind # "cells" => SingleAnswers(run'.file) /\ KeysApart'
      BY <2>1 DEF LogInv, KeysApart
    <2> QED
      BY <2>1, <2>2 DEF LogInv, NothingForgotten
  <1>4. CASE run' = [run EXCEPT !.inflight = @ \ {call}, !.file = Appended(@, Line(call, "error", TRUE))]
    BY <1>4, ResultKeeps
  <1> QED
    BY <1>1, <1>2, <1>3, <1>4 DEF CallFails

LEMMA FinishesKeeps ==
    ASSUME LogInv, Finishes
    PROVE  LogInv'
  <1>1. /\ DOMAIN run' = DOMAIN NoRunner /\ run'.proc = "done" /\ run.proc = "running"
        /\ run.inflight = {} /\ run.todo = {}
        /\ run'.inflight = run.inflight /\ run'.todo = run.todo /\ run'.failures = run.failures
        /\ run'.file = run.file /\ run'.calls = run.calls /\ run'.kind = run.kind
    BY DEF Finishes, LogInv, NoRunner
  <1>2. run'.kind # "cells" => SingleAnswers(run'.file) /\ KeysApart'
    BY <1>1 DEF LogInv, KeysApart
  <1>3. NothingForgotten'
    BY <1>1 DEF LogInv, NothingForgotten
  <1> QED
    BY <1>1, <1>2, <1>3 DEF LogInv

LEMMA CrashWritingKeeps ==
    ASSUME LogInv, NEW call \in run.inflight, CrashWriting(call)
    PROVE  LogInv'
  <1>1. PICK result \in {"torn", "answer"} :
           run' = [run EXCEPT !.proc = "off", !.inflight = {}, !.todo = {},
                              !.file = Appended(@, Line(call, result, FALSE))]
    BY DEF CrashWriting
  <1>2. /\ DOMAIN run' = DOMAIN NoRunner /\ run'.proc = "off"
        /\ run'.inflight = {} /\ run'.todo = {}
        /\ run'.file = Appended(run.file, Line(call, result, FALSE))
        /\ run'.calls = run.calls /\ run'.kind = run.kind
    BY <1>1 DEF LogInv, NoRunner
  <1>3. IsLog(run'.file) /\ (run'.kind # "cells" => SingleAnswers(run'.file) /\ KeysApart')
    BY <1>2, CallWritten
  <1> QED
    BY <1>2, <1>3 DEF LogInv, NothingForgotten

----------------------------------------------------------------------------
LEMMA InitIsGood == RunInit => LogInv
  <1> SUFFICES ASSUME run = NoRunner
               PROVE  LogInv
    BY DEF RunInit
  <1>1. IsLog(run.file) /\ DOMAIN run.file = {}
    BY DEF NoRunner, IsLog
  <1> QED
    BY <1>1 DEF NoRunner, LogInv, SingleAnswers, KeysApart, NothingForgotten

LEMMA StepKeepsIInv == LogInv /\ [RunNext]_run => LogInv'
  <1> SUFFICES ASSUME LogInv, [RunNext]_run
               PROVE  LogInv'
    OBVIOUS
  <1>1. CASE UNCHANGED run
    BY <1>1 DEF LogInv, KeysApart, NothingForgotten
  <1>2. ASSUME run.proc = "running", NEW call \in run.inflight,
               Answer(call) \/ CallFails(call) \/ CrashWriting(call)
        PROVE  LogInv'
    BY <1>2, ResultKeeps, CallFailsKeeps, CrashWritingKeeps DEF Answer
  <1>3. CASE RunNext
    BY <1>2, <1>3, LaunchKeeps, GateKeeps, SubmitKeeps, FinishesKeeps, StoppedKeeps DEF RunNext, Crash
  <1> QED
    BY <1>1, <1>3

THEOREM LogInvariance == RunSpec => []LogInv
  <1> QED
    BY InitIsGood, StepKeepsIInv, PTL DEF RunSpec

(* However often a runner is launched, with whatever plans and limits, and *)
(* however it crashed, no key has two results in its log ("no duplicate    *)
(* trials", run_competence_pilot.py:17).                                   *)
THEOREM NoDuplicates == RunSpec => []OneAnswerEach
  <1>1. LogInv => OneAnswerEach
    BY DEF LogInv, SingleAnswers, OneAnswerEach
  <1> QED
    BY <1>1, LogInvariance, PTL

(* A launch that reports success has a result for every call it was given, *)
(* or the log shows the damage (run_model of the runners).                 *)
THEOREM SuccessIsComplete == RunSpec => []DoneIsComplete
  <1>1. LogInv => DoneIsComplete
    BY DEF LogInv, NothingForgotten, DoneIsComplete, Damaged
  <1> QED
    BY <1>1, LogInvariance, PTL

----------------------------------------------------------------------------
(* The judging runner.  The cells of a main run as a set.                  *)

JudgedCell(exp, c, note, replicate) ==
    Cell(exp, c, JudgePrompt(c[1], Reference(c[1], c[2]), note), replicate)

Asked == {Conditions[i] : i \in DOMAIN Conditions}

MainCellSet ==
    {Cell("E1", "E1", GenerationPrompt, 0)}
    \union {JudgedCell("E2", c, FALSE, 0) : c \in Asked}
    \union {JudgedCell("E2M", <<cand, "R1">>, TRUE, 0) : cand \in {"R2", "I"}}
    \union {JudgedCell("NOISE", c, FALSE, 1) : c \in Asked}

(* The cells of a main run, and those of E3B.                              *)
Known(cell) == cell \in MainCellSet \/ cell.exp = "E3B"

(* The lines that hold a result belong to them.                            *)
OnlyKnown(file) == \A l \in Lines(file) : Readable(l) => Known(l.call)

CellsInv ==
    /\ run.kind = "none" => run = NoRunner
    /\ run.kind = "cells" =>
           /\ run.failures = {}
           /\ run.todo \subseteq DOMAIN run.calls
           /\ \A i \in DOMAIN run.calls : Known(run.calls[i])
           /\ \A call \in run.inflight : Known(call)
           /\ Damaged(run.file) \/ OnlyKnown(run.file)

LEMMA AskedFacts ==
    ASSUME NEW c \in Asked
    PROVE  /\ c = <<c[1], c[2]>> /\ c[1] \in {"R1", "R2", "I"}
           /\ c[2] \in {"none", "R1", "R3", "self", "R1_reworded", "I2", "irrelevant"}
           /\ c[1] = "R1" => c[2] # "R1" /\ c[2] # "R1_reworded"
  BY DEF Asked, Conditions

(* What a reference looks like in a prompt tells which one it is: no       *)
(* candidate is also judged against the trace that it is itself.           *)
LEMMA ReferenceTells ==
    ASSUME NEW c \in Asked, NEW d \in Asked, c[1] = d[1], Reference(c[1], c[2]) = Reference(d[1], d[2])
    PROVE  c = d
  <1>1. c[2] = d[2]
    BY AskedFacts DEF Reference
  <1> QED
    BY <1>1, AskedFacts

LEMMA KeyTells ==
    ASSUME NEW c \in MainCellSet, NEW d \in MainCellSet, c.key = d.key
    PROVE  c = d
  <1> USE DEF JudgedCell, Cell, CallKey, JudgePrompt, GenerationPrompt
  <1>1. CASE c = Cell("E1", "E1", GenerationPrompt, 0)
    BY <1>1 DEF MainCellSet
  <1>2. ASSUME NEW x \in Asked, c = JudgedCell("E2", x, FALSE, 0)
        PROVE  c = d
    <2>1. PICK y \in Asked : d = JudgedCell("E2", y, FALSE, 0)
      BY <1>2 DEF MainCellSet
    <2> QED
      BY <1>2, <2>1, ReferenceTells
  <1>3. ASSUME NEW x \in {"R2", "I"}, c = JudgedCell("E2M", <<x, "R1">>, TRUE, 0)
        PROVE  c = d
    BY <1>3 DEF MainCellSet
  <1>4. ASSUME NEW x \in Asked, c = JudgedCell("NOISE", x, FALSE, 1)
        PROVE  c = d
    <2>1. PICK y \in Asked : d = JudgedCell("NOISE", y, FALSE, 1)
      BY <1>4 DEF MainCellSet
    <2> QED
      BY <1>4, <2>1, ReferenceTells
  <1> QED
    BY <1>1, <1>2, <1>3, <1>4 DEF MainCellSet

(* Everything a main run is given is one of these cells.                   *)
LEMMA MainCellsFacts ==
    \A i \in DOMAIN MainCells : MainCells[i] \in MainCellSet
  <1> DEFINE n == Len(Conditions)
             noted(cand) == Cell("E2M", <<cand, "R1">>, JudgePrompt(cand, Reference(cand, "R1"), TRUE), 0)
             notes == IF Split = "id" THEN <<noted("R2"), noted("I")>> ELSE <<>>
             first == <<Cell("E1", "E1", GenerationPrompt, 0)>>
  <1>1. Conditions \in Seq(Asked)
    <2>1. CASE Split = "id"
      <3>1. n = 13 /\ DOMAIN Conditions = 1 .. 13
        BY <2>1 DEF Conditions
      <3>2. Conditions = [i \in DOMAIN Conditions |-> Conditions[i]]
        BY <2>1 DEF Conditions
      <3>3. Conditions \in [1 .. 13 -> Asked]
        BY <3>1, <3>2 DEF Asked
      <3> QED
        BY <3>1, <3>3, SeqDef
    <2>2. CASE Split # "id"
      <3>1. n = 6 /\ DOMAIN Conditions = 1 .. 6
        BY <2>2 DEF Conditions
      <3>2. Conditions = [i \in DOMAIN Conditions |-> Conditions[i]]
        BY <2>2 DEF Conditions
      <3>3. Conditions \in [1 .. 6 -> Asked]
        BY <3>1, <3>2 DEF Asked
      <3> QED
        BY <3>1, <3>3, SeqDef
    <2> QED
      BY <2>1, <2>2
  <1>2. DOMAIN Conditions = 1 .. n /\ n \in Nat
    BY <1>1, LenProperties
  <1> HIDE DEF n
  <1>3. JudgingCells \in Seq(MainCellSet)
    <2>1. JudgingCells \in [1 .. n -> MainCellSet]
      BY <1>2 DEF JudgingCells, MainCellSet, JudgedCell, Asked
    <2> QED
      BY <1>2, <2>1, SeqDef
  <1>4. NoiseCells \in Seq(MainCellSet)
    <2>1. NoisePick \in Seq(DOMAIN Conditions)
      BY NoiseAssumption
    <2>2. DOMAIN NoisePick = 1 .. Len(NoisePick) /\ Len(NoisePick) \in Nat
          /\ \A k \in DOMAIN NoisePick : NoisePick[k] \in DOMAIN Conditions
      BY <2>1, LenProperties
    <2>3. ASSUME NEW k \in DOMAIN NoisePick
          PROVE  NoiseCells[k] \in MainCellSet
      <3>1. NoiseCells[k] = JudgedCell("NOISE", Conditions[NoisePick[k]], FALSE, 1)
        BY <2>2, <2>3 DEF NoiseCells, JudgingCells, JudgedCell, Cell, CallKey
      <3> QED
        BY <2>2, <2>3, <3>1 DEF MainCellSet, Asked
    <2>4. NoiseCells \in [1 .. Len(NoisePick) -> MainCellSet]
      BY <2>2, <2>3 DEF NoiseCells
    <2> QED
      BY <2>2, <2>4, SeqDef
  <1>5. first \in Seq(MainCellSet)
    BY DEF MainCellSet
  <1>6. notes \in Seq(MainCellSet)
    <2>1. noted("R2") \in MainCellSet /\ noted("I") \in MainCellSet
      BY DEF MainCellSet, JudgedCell
    <2> HIDE DEF noted
    <2> QED
      BY <2>1
  <1>7. BuildCells = (first \o JudgingCells) \o notes
    BY DEF BuildCells
  <1> HIDE DEF first, notes
  <1>8. first \o JudgingCells \in Seq(MainCellSet)
    BY <1>3, <1>5, ConcatProperties
  <1>9. BuildCells \in Seq(MainCellSet)
    BY <1>6, <1>7, <1>8, ConcatProperties
  <1>10. MainCells \in Seq(MainCellSet)
    BY <1>4, <1>9, ConcatProperties DEF MainCells
  <1> QED
    BY <1>10, LenProperties

(* And everything it or --run-e3b is given is known.                       *)
LEMMA BatchesAreKnown ==
    ASSUME NEW file, NEW calls \in CellBatches(file)
    PROVE  \A i \in DOMAIN calls : Known(calls[i])
  <1>1. CASE calls = MainCells
    BY <1>1, MainCellsFacts DEF Known
  <1>2. ASSUME NEW generators, calls = E3BCells(generators), NEW i \in DOMAIN calls
        PROVE  calls[i].exp = "E3B"
    BY <1>2 DEF E3BCells, Cell
  <1> QED
    BY <1>1, <1>2 DEF CellBatches, Known

(* A result is written in a line of its own, unless it tears one.          *)
LEMMA WritesRecord ==
    ASSUME NEW file, IsLog(file), NEW call, NEW result, NEW ended
    PROVE  LET f == Appended(file, Line(call, result, ended)) IN
           Damaged(f) \/ Lines(f) = Lines(file) \union {Line(call, result, ended)}
  <1> DEFINE line == Line(call, result, ended)
             f == Appended(file, line)
             n == Len(file) + 1
  <1> HIDE DEF line, n
  <1>1. CASE /\ DOMAIN f = DOMAIN file \union {n} /\ n \notin DOMAIN file
             /\ \A i \in DOMAIN file : f[i] = file[i]
             /\ f[n] = line
    <2> HIDE DEF f
    <2>1. Lines(f) = Lines(file) \union {line}
      BY <1>1 DEF Lines
    <2> QED
      BY <2>1 DEF f, line
  <1>2. CASE Len(file) \in DOMAIN f /\ ~Readable(f[Len(file)])
    BY <1>2, DamagedFacts DEF line
  <1> QED
    BY <1>1, <1>2, AppendedFacts DEF line, n

(* What is in flight or written keeps to the known cells.                  *)
LEMMA WriteKeepsCells ==
    ASSUME LogInv, CellsInv, run.kind = "cells", NEW call \in run.inflight, NEW result, NEW ended,
           run'.file = Appended(run.file, Line(call, result, ended)),
           run'.inflight \subseteq run.inflight, run'.todo \subseteq run.todo,
           run'.calls = run.calls, run'.kind = run.kind, run'.failures = run.failures
    PROVE  CellsInv'
  <1> DEFINE line == Line(call, result, ended)
             f == Appended(run.file, line)
  <1>1. Damaged(f) \/ Lines(f) = Lines(run.file) \union {line}
    BY WritesRecord DEF LogInv
  <1>2. Damaged(run.file) => Damaged(f)
    BY Writes DEF LogInv
  <1>3. line.call = call
    BY DEF Line
  <1> HIDE DEF line
  <1>4. run'.file = f
    BY DEF line
  <1> HIDE DEF f
  <1>5. ASSUME ~Damaged(f), OnlyKnown(run.file)
        PROVE  OnlyKnown(f)
    BY <1>1, <1>3, <1>5 DEF OnlyKnown, CellsInv
  <1> QED
    BY <1>2, <1>4, <1>5 DEF CellsInv

LEMMA LaunchKeepsCells ==
    ASSUME LogInv, CellsInv, NEW kind \in Runners, Launch(kind), \A file : CellLists(file) = CellBatches(file)
    PROVE  CellsInv'
  <1>1. PICK calls \in (IF kind = "cells" THEN CellLists(run.file) ELSE Batches(kind)) :
           \E todo \in SUBSET DOMAIN calls : \E proc :
              run' = [run EXCEPT !.kind = kind, !.calls = calls, !.todo = todo, !.restarts = 0, !.failures = {},
                                 !.starts = @ + 1, !.proc = proc]
    <2> DEFINE stuck == ~Skips(kind) /\ \E l \in Lines(run.file) : ~Readable(l)
               todo(calls) == IF stuck THEN {} ELSE Todo(calls, run.file)
               proc(calls) == CASE stuck -> "stuck"
                                [] ~stuck /\ kind = "competence" /\ todo(calls) # {} -> "gate"
                                [] OTHER -> "running"
    <2>1. PICK calls \in (IF kind = "cells" THEN CellLists(run.file) ELSE Batches(kind)) :
             run' = [run EXCEPT !.kind = kind, !.calls = calls, !.todo = todo(calls), !.restarts = 0,
                                !.failures = {}, !.starts = @ + 1, !.proc = proc(calls)]
      BY DEF Launch
    <2>2. todo(calls) \subseteq DOMAIN calls
      BY DEF Todo
    <2> HIDE DEF todo, proc
    <2> QED
      BY <2>1, <2>2
  <1>2. /\ run'.kind = kind /\ run'.calls = calls /\ run'.file = run.file /\ run'.inflight = run.inflight
        /\ run'.failures = {} /\ run'.todo \subseteq DOMAIN calls
    BY <1>1 DEF LogInv, NoRunner
  <1>3. run.kind \in {"none", kind} /\ run.proc \notin {"gate", "running"} /\ kind # "none"
    BY RunnersAssumption DEF Launch
  <1>4. ASSUME kind = "cells"
        PROVE  /\ \A i \in DOMAIN calls : Known(calls[i])
               /\ run.inflight = {}
               /\ Damaged(run.file) \/ OnlyKnown(run.file)
    <2>1. \A i \in DOMAIN calls : Known(calls[i])
      BY <1>1, <1>4, BatchesAreKnown
    <2>2. run.inflight = {}
      BY <1>3 DEF LogInv
    <2>3. CASE run.kind = "none"
      <3>1. Lines(run.file) = {}
        BY <2>3 DEF CellsInv, NoRunner, Lines
      <3> QED
        BY <2>1, <2>2, <3>1 DEF OnlyKnown
    <2>4. CASE run.kind = "cells"
      BY <2>1, <2>2, <2>4 DEF CellsInv
    <2> QED
      BY <1>3, <1>4, <2>3, <2>4
  <1> QED
    BY <1>2, <1>3, <1>4 DEF CellsInv

LEMMA SubmitKeepsCells ==
    ASSUME LogInv, CellsInv, Submit
    PROVE  CellsInv'
  <1>1. PICK i \in run.todo : run' = [run EXCEPT !.todo = @ \ {i}, !.inflight = @ \union {run.calls[i]}]
    BY DEF Submit
  <1>2. /\ run'.kind = run.kind /\ run'.calls = run.calls /\ run'.file = run.file
        /\ run'.inflight = run.inflight \union {run.calls[i]} /\ run'.todo = run.todo \ {i}
        /\ run'.failures = run.failures
    BY <1>1 DEF LogInv, NoRunner
  <1>3. run.kind # "none"
    BY DEF Submit, CellsInv, NoRunner
  <1>4. run.kind = "cells" => Known(run.calls[i])
    BY DEF CellsInv
  <1> QED
    BY <1>2, <1>3, <1>4 DEF CellsInv

(* The other steps write nothing and start nothing.                        *)
LEMMA QuietKeepsCells ==
    ASSUME CellsInv, run.kind # "none", run'.kind = run.kind, run'.calls = run.calls, run'.file = run.file,
           run'.inflight \subseteq run.inflight, run'.todo \subseteq run.todo,
           run.kind = "cells" => run'.failures = run.failures
    PROVE  CellsInv'
  BY DEF CellsInv

LEMMA ProcKeepsCells ==
    ASSUME LogInv, CellsInv, run.proc # "off", NEW proc,
           \/ run' = [run EXCEPT !.proc = proc]
           \/ Stopped(proc)
           \/ run' = [run EXCEPT !.restarts = @ + 1]
    PROVE  CellsInv'
  <1>1. run.kind # "none"
    BY DEF CellsInv, NoRunner
  <1>2. /\ run'.kind = run.kind /\ run'.calls = run.calls /\ run'.file = run.file
        /\ run'.failures = run.failures /\ run'.inflight \subseteq run.inflight /\ run'.todo \subseteq run.todo
    BY DEF Stopped, LogInv, NoRunner
  <1> QED
    BY <1>1, <1>2, QuietKeepsCells

LEMMA CallKeepsCells ==
    ASSUME LogInv, CellsInv, run.proc = "running", NEW call \in run.inflight,
           Answer(call) \/ CallFails(call) \/ CrashWriting(call)
    PROVE  CellsInv'
  <1>1. run.kind # "none"
    BY DEF CellsInv, NoRunner
  <1>2. ASSUME NEW result, NEW ended, NEW proc,
               \/ run' = [run EXCEPT !.inflight = @ \ {call}, !.file = Appended(@, Line(call, result, ended))]
               \/ run' = [run EXCEPT !.proc = proc, !.inflight = {}, !.todo = {},
                                     !.file = Appended(@, Line(call, result, ended))]
        PROVE  CellsInv'
    <2>1. /\ run'.kind = run.kind /\ run'.calls = run.calls /\ run'.failures = run.failures
          /\ run'.inflight \subseteq run.inflight /\ run'.todo \subseteq run.todo
          /\ run'.file = Appended(run.file, Line(call, result, ended))
      BY <1>2 DEF LogInv, NoRunner
    <2>2. CASE run.kind = "cells"
      BY <2>1, <2>2, WriteKeepsCells
    <2>3. CASE run.kind # "cells"
      BY <1>1, <2>1, <2>3 DEF CellsInv
    <2> QED
      BY <2>2, <2>3
  <1>3. CASE run' = [run EXCEPT !.inflight = @ \ {call}, !.failures = @ \union {call}] /\ run.kind = "claude"
    <2>1. run'.kind = run.kind
      BY <1>3 DEF LogInv, NoRunner
    <2> QED
      BY <1>3, <2>1 DEF CellsInv
  <1>4. CASE CallFails(call)
    BY <1>2, <1>3, <1>4, ProcKeepsCells DEF CallFails
  <1> QED
    BY <1>2, <1>4 DEF Answer, CrashWriting

LEMMA StepKeepsCells ==
    ASSUME \A file : CellLists(file) = CellBatches(file), LogInv, CellsInv, [RunNext]_run
    PROVE  CellsInv'
  <1>1. CASE UNCHANGED run
    BY <1>1 DEF CellsInv
  <1>2. CASE GateFree \/ GateGivesUp \/ Finishes \/ Crash
    BY <1>2, ProcKeepsCells DEF GateFree, GateGivesUp, Finishes, Crash
  <1>3. CASE RunNext
    BY <1>2, <1>3, LaunchKeepsCells, SubmitKeepsCells, CallKeepsCells DEF RunNext
  <1> QED
    BY <1>1, <1>3

(* With all calls of the main run answered, each of its cells has a record *)
(* of its own or was judged early.                                         *)
LEMMA MainIsComplete ==
    ASSUME LogInv, CellsInv
    PROVE  ConditionsAreRecorded
  <1> SUFFICES ASSUME run.kind = "cells", run.proc = "done", run.calls = MainCells, ~Damaged(run.file),
                      OnlyKnown(run.file), NEW i \in DOMAIN MainCells
               PROVE  Recorded(MainCells[i], run.file) \/ JudgedEarly(MainCells[i], run.file)
    BY DEF CellsInv, ConditionsAreRecorded, Damaged
  <1>1. MainCells[i].key \in LoggedKeys(run.file)
    BY DEF LogInv, NothingForgotten, CellsInv
  <1>2. PICK line \in Lines(run.file) : Readable(line) /\ line.call.key = MainCells[i].key
    BY <1>1 DEF LoggedKeys
  <1>3. CASE line.call \in MainCellSet
    <2>1. line.call = MainCells[i]
      BY <1>2, <1>3, KeyTells, MainCellsFacts
    <2> QED
      BY <1>2, <2>1 DEF Recorded
  <1>4. CASE line.call.exp = "E3B"
    BY <1>2, <1>4 DEF JudgedEarly
  <1> QED
    BY <1>2, <1>3, <1>4 DEF OnlyKnown, Known

(* A run that ends well has answered all its calls, and when the judge's   *)
(* main run ends, every condition, control and noise repeat has a record   *)
(* of its own, unless the log is damaged or --run-e3b, given before the    *)
(* main run was complete, has recorded its prompt: the cache, whose key    *)
(* leaves the condition out, answers none with another's verdict           *)
(* (experiments.run), whenever and however often either program runs.      *)
THEOREM CacheIsSound ==
    ASSUME \A file : CellLists(file) = CellBatches(file)
    PROVE  RunSpec => []RunsAreComplete
  <1>1. RunInit => CellsInv
    BY DEF RunInit, CellsInv, NoRunner
  <1>2. LogInv /\ CellsInv /\ [RunNext]_run => CellsInv'
    BY StepKeepsCells
  <1>3. LogInv /\ CellsInv => ConditionsAreRecorded
    BY MainIsComplete
  <1>4. RunSpec => []ConditionsAreRecorded
    BY <1>1, <1>2, <1>3, LogInvariance, PTL DEF RunSpec
  <1> QED
    BY <1>4, SuccessIsComplete, PTL DEF RunsAreComplete

----------------------------------------------------------------------------
(* The workbook: rows of variants, each on a sheet of its own that is      *)
(* called as a sheet of the variant may be.                                *)

SheetNames == UNION {SheetsOf(name) : name \in Names}
BookRows == {row \in [sheet : SheetNames, variant : Names] : row.sheet \in SheetsOf(row.variant)}

BookOK(book) ==
    /\ book \in Seq(BookRows)
    /\ \A i, j \in DOMAIN book : book[i].sheet = book[j].sheet => i = j

Means == [sum : Int, of : Nat]
Rows  == [variant : Names, mean : Means]

(* What is left of the grid while a sweep runs.                            *)
Unfinished(s) == {s.todo[i] : i \in DOMAIN s.todo}
GridNames(s)  == {s.grid[i] : i \in DOMAIN s.grid}

Typed(s) ==
    /\ DOMAIN s = DOMAIN NoSweep
    /\ s.proc \in {"off", "done", "answering", "judging", "recording", "detailing", "ranking"}
    /\ BookOK(s.book)
    /\ s.grid \in Seq(Names) /\ s.todo \in Seq(Names)
    /\ s.scores \in Seq(Int \union {NaN})
    /\ s.rows \in Seq(Rows) /\ s.details \in Seq(Rows) /\ s.table \in Seq(Rows)

(* At each step: the head of what is to do is being worked on, all that    *)
(* came before it has failed or is in the workbook, and so is what was     *)
(* scored, but for a row that is about to be recorded.                     *)
Working(s) ==
    /\ s.proc \in {"judging", "recording", "detailing", "ranking"} => s.todo # <<>>
    /\ s.proc # "off" => GridNames(s) \subseteq s.failures \union Variants(s.book) \union Unfinished(s)
    /\ s.proc = "done" => s.todo = <<>>
    /\ s.proc \in {"detailing", "ranking"} => Head(s.todo) \in Variants(s.book)
    /\ s.proc \in {"answering", "judging", "detailing", "ranking"} /\ ~s.torn => Variants(s.rows) \subseteq Variants(s.book)
    /\ s.proc = "recording" /\ ~s.torn => Variants(s.rows) \subseteq Variants(s.book) \union {Head(s.todo)}
    /\ s.torn => s.proc \notin {"detailing", "ranking"}
    /\ ~s.torn => Variants(s.details) \union Variants(s.table) \subseteq Variants(s.book)

SweepInv == Typed(sweep) /\ Working(sweep)

----------------------------------------------------------------------------
(* The values handled.                                                     *)

LEMMA VariantsFacts ==
    ASSUME NEW rows
    PROVE  \A v : v \in Variants(rows) <=> \E i \in DOMAIN rows : rows[i].variant = v
  BY DEF Variants

LEMMA SheetsFacts ==
    ASSUME NEW book
    PROVE  \A v : v \in Sheets(book) <=> \E i \in DOMAIN book : book[i].sheet = v
  BY DEF Sheets

LEMMA AppendedVariants ==
    ASSUME NEW T, NEW rows \in Seq(T), NEW row
    PROVE  \A v : v \in Variants(Append(rows, row)) <=> v \in Variants(rows) \/ v = row.variant
  <1> DEFINE longer == Append(rows, row)
  <1>1. /\ DOMAIN rows = 1 .. Len(rows) /\ Len(rows) \in Nat
        /\ DOMAIN longer = 1 .. Len(rows) + 1
        /\ \A i \in DOMAIN rows : longer[i] = rows[i]
        /\ longer[Len(rows) + 1] = row
    <2>1. rows \in Seq(T \union {row}) /\ row \in T \union {row}
      BY SeqDef
    <2> QED
      BY <2>1, LenProperties, AppendProperties
  <1> HIDE DEF longer
  <1>2. \A i \in DOMAIN longer : i \in DOMAIN rows \/ i = Len(rows) + 1
    BY <1>1
  <1>3. Len(rows) + 1 \in DOMAIN longer /\ DOMAIN rows \subseteq DOMAIN longer
    BY <1>1
  <1>4. ASSUME NEW v
        PROVE  v \in Variants(longer) <=> v \in Variants(rows) \/ v = row.variant
    <2>1. v \in Variants(longer) <=> \E i \in DOMAIN longer : longer[i].variant = v
      BY VariantsFacts
    <2>2. v \in Variants(rows) <=> \E i \in DOMAIN rows : rows[i].variant = v
      BY VariantsFacts
    <2> QED
      BY <1>1, <1>2, <1>3, <2>1, <2>2, Zenon
  <1> QED
    BY <1>4 DEF longer

LEMMA MeanType ==
    ASSUME NEW scores \in Seq(Int \union {NaN})
    PROVE  Mean(scores) \in Means
  <1> DEFINE T == Int \union {NaN}
             places == {i \in DOMAIN scores : scores[i] # NaN}
             usable == Picked(scores, places)
             at == Rising(places)
  <1>1. /\ usable \in Seq(T) /\ Len(usable) = Len(at)
        /\ at \in [1 .. Len(usable) -> places]
        /\ \A i \in 1 .. Len(usable) : usable[i] = scores[at[i]]
    <2>1. places \in SUBSET DOMAIN scores /\ scores \in Seq(T)
      OBVIOUS
    <2> HIDE DEF places, T
    <2> QED
      BY <2>1, PickedFacts DEF at, usable
  <1>2. Len(usable) \in Nat /\ DOMAIN usable = 1 .. Len(usable)
    BY <1>1, LenProperties
  <1>3. \A i \in DOMAIN usable : usable[i] \in Int
    <2> SUFFICES ASSUME NEW i \in 1 .. Len(usable)
                 PROVE  scores[at[i]] \in Int
      BY <1>1, <1>2
    <2>1. at[i] \in places
      <3> HIDE DEF places, at, usable
      <3> QED
        BY <1>1
    <2>2. at[i] \in DOMAIN scores /\ scores[at[i]] # NaN
      BY <2>1
    <2> HIDE DEF at
    <2>3. scores[at[i]] \in T
      BY <2>2, ElementOfSeq, LenProperties
    <2> QED
      BY <2>2, <2>3
  <1>4. IsFiniteSet(DOMAIN usable)
    BY <1>2, FS_Interval
  <1> HIDE DEF usable
  <1>5. SumFunction(usable) \in Int
    BY <1>3, <1>4, SumType DEF SumFunction
  <1> QED
    BY <1>2, <1>5 DEF Mean, Means, usable, places

LEMMA NameFacts ==
    ASSUME NEW book, NEW name, HasSheetName(book, name)
    PROVE  SheetName(book, name) \in SheetsOf(name) /\ SheetName(book, name) \notin Sheets(book)
  <1>1. CASE Shortened(name, 31) \notin Sheets(book)
    BY <1>1 DEF SheetName, SheetsOf
  <1>2. CASE Shortened(name, 31) \in Sheets(book)
    <2> DEFINE free == FreeSuffixes(book, name)
    <2>1. free # {} /\ free \subseteq Nat /\ free \subseteq 2 .. 999
      BY <1>2 DEF HasSheetName, FreeSuffixes
    <2> HIDE DEF free
    <2>2. Min(free) \in free
      BY <2>1, MinFacts
    <2>3. SheetName(book, name) = Suffixed(name, Min(free))
      BY <1>2 DEF SheetName, free
    <2>4. Suffixed(name, Min(free)) \notin Sheets(book)
      BY <2>2 DEF FreeSuffixes, free
    <2> QED
      BY <2>1, <2>2, <2>3, <2>4 DEF SheetsOf
  <1> QED
    BY <1>1, <1>2

LEMMA RecordedFacts ==
    ASSUME NEW book, BookOK(book), NEW name \in Names, HasSheetName(book, name)
    PROVE  BookOK(Append(book, [sheet |-> SheetName(book, name), variant |-> name]))
  <1> DEFINE row == [sheet |-> SheetName(book, name), variant |-> name]
             longer == Append(book, row)
  <1>1. SheetName(book, name) \in SheetsOf(name) /\ SheetName(book, name) \notin Sheets(book)
    BY NameFacts
  <1>2. row \in BookRows
    <2>1. row.sheet \in SheetNames
      BY <1>1 DEF SheetNames
    <2> QED
      BY <1>1, <2>1 DEF BookRows
  <1>3. row.sheet = SheetName(book, name)
    OBVIOUS
  <1> HIDE DEF row
  <1>4. /\ longer \in Seq(BookRows) /\ Len(book) \in Nat /\ DOMAIN book = 1 .. Len(book)
        /\ DOMAIN longer = 1 .. Len(book) + 1
        /\ \A i \in DOMAIN book : longer[i] = book[i]
        /\ longer[Len(book) + 1] = row
    BY <1>2, LenProperties, AppendProperties DEF BookOK
  <1> HIDE DEF longer
  <1>5. \A i \in DOMAIN book : book[i].sheet # row.sheet
    BY <1>1, <1>3, SheetsFacts
  <1>6. \A i \in DOMAIN longer : i \in DOMAIN book \/ i = Len(book) + 1
    BY <1>4
  <1>7. \A i, j \in DOMAIN longer : longer[i].sheet = longer[j].sheet => i = j
    <2>1. \A i, j \in DOMAIN book : book[i].sheet = book[j].sheet => i = j
      BY DEF BookOK
    <2> QED
      BY <1>4, <1>5, <1>6, <2>1, Zenon
  <1> QED
    BY <1>4, <1>7 DEF BookOK, longer, row

(* What a resumed sweep leaves out is in the workbook.                     *)
LEMMA RemainingFacts ==
    ASSUME NEW book, BookOK(book), NEW grid \in Seq(Names), NamesTellApart(Names)
    PROVE  /\ Remaining(grid, book) \in Seq(Names)
           /\ \A i \in DOMAIN grid : grid[i] \in Variants(book)
                  \/ \E j \in DOMAIN Remaining(grid, book) : Remaining(grid, book)[j] = grid[i]
  <1> DEFINE places == {i \in DOMAIN grid : grid[i] \notin Sheets(book)}
             left == Picked(grid, places)
             at == Rising(places)
  <1>1. /\ left \in Seq(Names) /\ \A i \in 1 .. Len(left) : left[i] = grid[at[i]]
        /\ \A x \in places : \E i \in 1 .. Len(left) : at[i] = x
    <2>1. places \in SUBSET DOMAIN grid
      OBVIOUS
    <2> HIDE DEF places
    <2> QED
      BY <2>1, PickedFacts DEF at, left
  <1>2. DOMAIN left = 1 .. Len(left)
    BY <1>1, LenProperties
  <1>3. Remaining(grid, book) = left
    BY DEF Remaining
  <1> HIDE DEF left, at
  <1>4. ASSUME NEW i \in DOMAIN grid, grid[i] \in Sheets(book)
        PROVE  grid[i] \in Variants(book)
    <2>1. PICK n \in DOMAIN book : book[n].sheet = grid[i]
      BY <1>4, SheetsFacts
    <2>2. book[n] \in BookRows
      <3>1. book \in Seq(BookRows)
        BY DEF BookOK
      <3> QED
        BY <3>1, LenProperties, ElementOfSeq
    <2>3. book[n].variant \in Names /\ grid[i] \in SheetsOf(book[n].variant)
      BY <2>1, <2>2 DEF BookRows
    <2>4. grid[i] \in Names
      BY LenProperties, ElementOfSeq
    <2>5. grid[i] = book[n].variant
      BY <2>3, <2>4 DEF NamesTellApart
    <2> QED
      BY <2>5, VariantsFacts
  <1>5. ASSUME NEW i \in DOMAIN grid, grid[i] \notin Sheets(book)
        PROVE  \E j \in DOMAIN left : left[j] = grid[i]
    BY <1>1, <1>2, <1>5
  <1> QED
    BY <1>1, <1>3, <1>4, <1>5

----------------------------------------------------------------------------
(* The ranked table: means in the order of their values, those of no       *)
(* usable verdict below all others, equals as they came.                   *)

LEMMA Cancels ==
    ASSUME NEW x \in Int, NEW y \in Int, NEW k \in Int, k > 0, k * x >= k * y
    PROVE  x >= y
  <1> SUFFICES ASSUME y > x
               PROVE  FALSE
    OBVIOUS
  <1>1. y - x >= 1 /\ y - x \in Int
    OBVIOUS
  <1>2. k * (y - x) >= 1
    BY <1>1
  <1>3. k * (y - x) = k * y - k * x
    OBVIOUS
  <1> QED
    BY <1>2, <1>3

LEMMA MeansRank ==
    ASSUME NEW a \in Means, NEW b \in Means, NEW c \in Means
    PROVE  /\ ~Better(a, b) \/ ~Better(b, a)
           /\ ~Better(b, a) /\ ~Better(c, b) => ~Better(c, a)
  <1>1. /\ a.sum \in Int /\ a.of \in Nat /\ b.sum \in Int /\ b.of \in Nat /\ c.sum \in Int /\ c.of \in Nat
    BY DEF Means
  <1>2. \A x, y \in Means : Better(x, y) <=> x.of > 0 /\ (y.of = 0 \/ x.sum * y.of > y.sum * x.of)
    BY DEF Better, Means
  <1>3. ~Better(a, b) \/ ~Better(b, a)
    <2>1. a.sum * b.of \in Int /\ b.sum * a.of \in Int
      BY <1>1
    <2> QED
      BY <1>1, <1>2, <2>1
  <1>4. ASSUME ~Better(b, a), ~Better(c, b)
        PROVE  ~Better(c, a)
    <2>1. CASE c.of = 0
      BY <1>2, <2>1
    <2>2. CASE c.of > 0
      <3>1. b.of > 0 /\ b.sum * c.of >= c.sum * b.of
        <4>1. b.sum * c.of \in Int /\ c.sum * b.of \in Int
          BY <1>1
        <4> QED
          BY <1>1, <1>2, <1>4, <2>2, <4>1
      <3>2. a.of > 0 /\ a.sum * b.of >= b.sum * a.of
        <4>1. b.sum * a.of \in Int /\ a.sum * b.of \in Int
          BY <1>1
        <4> QED
          BY <1>1, <1>2, <1>4, <3>1, <4>1
      <3>3. ASSUME NEW p \in Int, NEW q \in Int, NEW r \in Int, NEW m \in Nat, NEW n \in Nat, NEW o \in Nat,
                   m > 0, n > 0, o > 0, p * n >= q * m, q * o >= r * n
            PROVE  p * o >= r * m
        <4>1. /\ o * (p * n) >= o * (q * m) /\ m * (q * o) >= m * (r * n)
          <5>1. p * n \in Int /\ q * m \in Int /\ q * o \in Int /\ r * n \in Int
            OBVIOUS
          <5>2. \A x, y \in Int : \A k \in Nat : x >= y => k * x >= k * y
            OBVIOUS
          <5> QED
            BY <3>3, <5>1, <5>2
        <4>2. /\ o * (p * n) = n * (p * o) /\ o * (q * m) = m * (q * o) /\ m * (r * n) = n * (r * m)
          OBVIOUS
        <4>3. n * (p * o) \in Int /\ m * (q * o) \in Int /\ n * (r * m) \in Int
          OBVIOUS
        <4>4. n * (p * o) >= n * (r * m)
          BY <4>1, <4>2, <4>3
        <4> QED
          BY <3>3, <4>4, Cancels
      <3>4. a.sum * c.of >= c.sum * a.of
        BY <1>1, <2>2, <3>1, <3>2, <3>3
      <3>5. a.sum * c.of \in Int /\ c.sum * a.of \in Int
        BY <1>1
      <3> QED
        BY <1>1, <1>2, <3>2, <3>4, <3>5
    <2> QED
      BY <1>1, <2>1, <2>2
  <1> QED
    BY <1>3, <1>4

LEMMA RanksAreStrict ==
    ASSUME NEW rows \in Seq(Rows)
    PROVE  StrictOrder(DOMAIN rows, Ranks(rows))
  <1> DEFINE D == DOMAIN rows
             over(i, j) == Better(rows[i].mean, rows[j].mean)
  <1>1. D = 1 .. Len(rows) /\ Len(rows) \in Nat /\ \A i \in D : rows[i].mean \in Means
    <2>1. \A i \in D : rows[i] \in Rows
      BY LenProperties, ElementOfSeq
    <2> QED
      BY <2>1, LenProperties DEF Rows
  <1>2. \A i, j \in D : <<i, j>> \in Ranks(rows) <=> over(i, j) \/ (~over(j, i) /\ i < j)
    BY DEF Ranks
  <1>3. /\ \A i, j \in D : ~over(i, j) \/ ~over(j, i)
        /\ \A i, j, k \in D : ~over(j, i) /\ ~over(k, j) => ~over(k, i)
    BY <1>1, MeansRank
  <1> DEFINE R == Ranks(rows)
  <1> HIDE DEF over, R
  <1>4. \A i \in D : <<i, i>> \notin R
    <2>1. \A i \in D : ~(i < i)
      BY <1>1
    <2> QED
      BY <1>2, <1>3, <2>1 DEF R
  <1>5. ASSUME NEW i \in D, NEW j \in D, NEW k \in D, <<i, j>> \in R, <<j, k>> \in R
        PROVE  <<i, k>> \in R
    <2>1. i < j /\ j < k => i < k
      BY <1>1
    <2>2. (over(i, j) \/ (~over(j, i) /\ i < j)) /\ (over(j, k) \/ (~over(k, j) /\ j < k))
      BY <1>2, <1>5 DEF R
    <2>3. ~over(k, i)
      <3>1. ~over(j, i) /\ ~over(k, j)
        BY <1>3, <2>2
      <3> QED
        BY <1>3, <3>1
    <2>4. CASE over(i, k)
      BY <1>2, <2>4 DEF R
    <2>5. CASE ~over(i, k)
      <3>1. ~over(i, j)
        <4>1. ~over(k, j) => (~over(i, k) => ~over(i, j))
          BY <1>3
        <4> QED
          BY <1>3, <2>2, <2>5, <4>1
      <3>2. ~over(j, k)
        <4>1. ~over(j, i) => (~over(i, k) => ~over(j, k))
          BY <1>3
        <4> QED
          BY <1>3, <2>2, <2>5, <4>1
      <3>3. i < k
        BY <2>1, <2>2, <3>1, <3>2
      <3> QED
        BY <1>2, <2>3, <3>3 DEF R
    <2> QED
      BY <2>4, <2>5
  <1>6. ASSUME NEW i \in D, NEW j \in D, i # j
        PROVE  <<i, j>> \in R \/ <<j, i>> \in R
    <2>1. i < j \/ j < i
      BY <1>1, <1>6
    <2> QED
      BY <1>2, <1>3, <2>1 DEF R
  <1>7. \A i, j, k \in D : <<i, j>> \in R /\ <<j, k>> \in R => <<i, k>> \in R
    BY <1>5
  <1>8. \A i, j \in D : i = j \/ <<i, j>> \in R \/ <<j, i>> \in R
    BY <1>6
  <1> HIDE DEF D
  <1>9. StrictOrder(D, R)
    BY <1>4, <1>7, <1>8 DEF StrictOrder
  <1> QED
    BY <1>9 DEF D, R

LEMMA RankedFacts ==
    ASSUME NEW rows \in Seq(Rows)
    PROVE  /\ Ranked(rows) \in Seq(Rows) /\ Len(Ranked(rows)) = Len(rows)
           /\ Variants(Ranked(rows)) \subseteq Variants(rows)
  <1> DEFINE D == DOMAIN rows
             n == Cardinality(D)
             at == Arranged(D, Ranks(rows))
             table == [k \in DOMAIN at |-> rows[at[k]]]
  <1>1. D = 1 .. Len(rows) /\ Len(rows) \in Nat /\ \A i \in D : rows[i] \in Rows
    BY LenProperties, ElementOfSeq
  <1>2. IsFiniteSet(D) /\ n = Len(rows)
    BY <1>1, FS_Interval
  <1>3. at \in [1 .. n -> D] /\ n \in Nat
    BY <1>2, RanksAreStrict, ArrangedFacts
  <1>4. Ranked(rows) = table
    BY DEF Ranked
  <1> HIDE DEF at, D, n
  <1>5. table \in [1 .. n -> Rows] /\ \A k \in 1 .. n : table[k] = rows[at[k]] /\ at[k] \in D
    BY <1>1, <1>3
  <1> HIDE DEF table
  <1>6. table \in Seq(Rows) /\ Len(table) = n
    BY <1>3, <1>5, SeqDef
  <1>7. ASSUME NEW v \in Variants(table)
        PROVE  v \in Variants(rows)
    <2> DOMAIN table = 1 .. n
      BY <1>5
    <2>1. PICK k \in DOMAIN table : table[k].variant = v
      BY VariantsFacts
    <2>2. at[k] \in DOMAIN rows /\ rows[at[k]].variant = v
      BY <1>5, <2>1 DEF D
    <2> QED
      BY <2>2, VariantsFacts
  <1> QED
    BY <1>2, <1>4, <1>6, <1>7

----------------------------------------------------------------------------
(* The steps of a sweep.                                                   *)

LEMMA SweepStarts == SweepInit => SweepInv
  <1>1. /\ DOMAIN NoSweep = DOMAIN NoSweep /\ NoSweep.proc = "off" /\ NoSweep.book = <<>>
        /\ NoSweep.grid = <<>> /\ NoSweep.todo = <<>> /\ NoSweep.scores = <<>> /\ NoSweep.rows = <<>>
        /\ NoSweep.details = <<>> /\ NoSweep.table = <<>> /\ NoSweep.torn = FALSE
    BY DEF NoSweep
  <1>2. BookOK(<<>>)
    BY EmptySeq DEF BookOK
  <1>3. Variants(<<>>) = {}
    BY DEF Variants
  <1>4. Typed(NoSweep)
    BY <1>1, <1>2, EmptySeq DEF Typed
  <1>5. Working(NoSweep)
    BY <1>1, <1>3 DEF Working
  <1> QED
    BY <1>4, <1>5 DEF SweepInit, SweepInv

(* Fields that no invariant is about, and the processes that stop.         *)
LEMMA StopsSafely ==
    ASSUME SweepInv, NEW next, DOMAIN next = DOMAIN NoSweep, next.proc = "off",
           next.book = sweep.book, next.torn = sweep.torn, next.grid = sweep.grid, next.todo = sweep.todo,
           next.scores = sweep.scores, next.rows = sweep.rows, next.details = sweep.details,
           next.table \in Seq(Rows), Variants(next.table) \subseteq Variants(sweep.table)
    PROVE  Typed(next) /\ Working(next)
  <1>1. Typed(next)
    BY DEF SweepInv, Typed
  <1>2. ~sweep.torn => Variants(sweep.details) \union Variants(sweep.table) \subseteq Variants(sweep.book)
    BY DEF SweepInv, Working
  <1> QED
    BY <1>1, <1>2 DEF Working

LEMMA StartKeeps ==
    ASSUME SweepInv, SweepAssumption, NamesTellApart(Names), StartSweep
    PROVE  SweepInv'
  <1>1. PICK grid \in Grids, asked \in EvalSizes, resume \in BOOLEAN :
          LET fails == resume /\ sweep.torn
          IN  sweep' = [sweep EXCEPT !.proc = IF fails THEN "off" ELSE "answering",
                            !.starts = @ + 1, !.grid = grid, !.resume = resume, !.asked = asked,
                            !.todo = IF fails THEN <<>> ELSE IF resume THEN Remaining(grid, sweep.book) ELSE grid,
                            !.at = 0, !.scores = <<>>, !.rows = <<>>, !.failures = {}]
    BY DEF StartSweep
  <1> DEFINE fails == resume /\ sweep.torn
             todo == IF fails THEN <<>> ELSE IF resume THEN Remaining(grid, sweep.book) ELSE grid
  <1>2. DOMAIN sweep = DOMAIN NoSweep /\ BookOK(sweep.book) /\ sweep.details \in Seq(Rows) /\ sweep.table \in Seq(Rows)
    BY DEF SweepInv, Typed
  <1>3. /\ DOMAIN sweep' = DOMAIN NoSweep /\ sweep'.proc = (IF fails THEN "off" ELSE "answering")
        /\ sweep'.grid = grid /\ sweep'.todo = todo /\ sweep'.scores = <<>> /\ sweep'.rows = <<>>
        /\ sweep'.book = sweep.book /\ sweep'.torn = sweep.torn
        /\ sweep'.details = sweep.details /\ sweep'.table = sweep.table
    BY <1>1, <1>2 DEF NoSweep
  <1>4. grid \in Seq(Names)
    BY DEF SweepAssumption
  <1>5. /\ todo \in Seq(Names)
        /\ ~fails => \A i \in DOMAIN grid : grid[i] \in Variants(sweep.book) \/ \E j \in DOMAIN todo : todo[j] = grid[i]
    <2>1. CASE fails
      BY <2>1, EmptySeq
    <2>2. CASE ~fails /\ resume
      BY <1>2, <1>4, <2>2, RemainingFacts
    <2>3. CASE ~fails /\ ~resume
      BY <1>4, <2>3
    <2> QED
      BY <2>1, <2>2, <2>3
  <1> HIDE DEF todo
  <1>6. Typed(sweep')
    BY <1>2, <1>3, <1>4, <1>5, EmptySeq DEF Typed
  <1>7. Variants(<<>>) = {}
    BY DEF Variants
  <1>8. sweep'.proc # "off" => GridNames(sweep') \subseteq sweep'.failures \union Variants(sweep'.book) \union Unfinished(sweep')
    BY <1>3, <1>5 DEF GridNames, Unfinished
  <1>9. ~sweep.torn => Variants(sweep.details) \union Variants(sweep.table) \subseteq Variants(sweep.book)
    BY DEF SweepInv, Working
  <1>10. sweep'.proc \in {"off", "answering"}
    BY <1>3
  <1>11. Working(sweep')
    BY <1>3, <1>7, <1>8, <1>9, <1>10 DEF Working
  <1> QED
    BY <1>6, <1>11 DEF SweepInv

LEMMA AnsweringKeeps ==
    ASSUME SweepInv, SweepAssumption, Generate \/ HandOver \/ Judge \/ FinishSweep
    PROVE  SweepInv'
  <1>1. DOMAIN sweep = DOMAIN NoSweep /\ Typed(sweep) /\ Working(sweep)
    BY DEF SweepInv, Typed
  <1>2. /\ DOMAIN sweep' = DOMAIN NoSweep /\ sweep'.grid = sweep.grid /\ sweep'.todo = sweep.todo
        /\ sweep'.rows = sweep.rows /\ sweep'.book = sweep.book /\ sweep'.torn = sweep.torn
        /\ sweep'.details = sweep.details /\ sweep'.table = sweep.table /\ sweep'.failures = sweep.failures
    BY <1>1 DEF Generate, HandOver, Judge, FinishSweep, NoSweep
  <1>3. /\ sweep.proc \in {"answering", "judging"} /\ sweep'.proc \in {"answering", "judging", "done"}
        /\ sweep'.proc = "judging" => sweep'.todo # <<>>
        /\ sweep'.proc = "done" => sweep'.todo = <<>>
    <2>1. CASE Generate
      BY <1>1, <1>2, <2>1 DEF Generate, NoSweep
    <2>2. CASE HandOver
      BY <1>1, <1>2, <2>2 DEF HandOver, NoSweep
    <2>3. CASE Judge
      <3>1. sweep.proc = "judging" /\ sweep'.proc = "judging"
        BY <1>1, <2>3 DEF Judge, NoSweep
      <3>2. sweep.todo # <<>>
        BY <1>1, <3>1 DEF Working
      <3> QED
        BY <1>2, <3>1, <3>2
    <2>4. CASE FinishSweep
      BY <1>1, <1>2, <2>4 DEF FinishSweep, NoSweep
    <2> QED
      BY <2>1, <2>2, <2>3, <2>4
  <1>4. sweep'.scores \in Seq(Int \union {NaN})
    <2>1. sweep.scores \in Seq(Int \union {NaN})
      BY <1>1 DEF Typed
    <2>2. CASE Judge
      <3>1. PICK v \in Verdicts : sweep' = [sweep EXCEPT !.at = @ + 1, !.scores = Append(@, v)]
        BY <2>2 DEF Judge
      <3>2. sweep'.scores = Append(sweep.scores, v)
        BY <1>1, <3>1 DEF NoSweep
      <3>3. v \in Int \union {NaN}
        BY DEF SweepAssumption
      <3> QED
        BY <2>1, <3>2, <3>3, AppendProperties
    <2>3. CASE Generate \/ HandOver \/ FinishSweep
      <3>1. sweep'.scores = sweep.scores
        BY <1>1, <2>3 DEF Generate, HandOver, FinishSweep, NoSweep
      <3> QED
        BY <2>1, <3>1
    <2> QED
      BY <2>2, <2>3
  <1>5. Typed(sweep')
    BY <1>1, <1>2, <1>3, <1>4 DEF Typed
  <1>6. GridNames(sweep') = GridNames(sweep) /\ Unfinished(sweep') = Unfinished(sweep)
    BY <1>2 DEF GridNames, Unfinished
  <1>7. Working(sweep')
    BY <1>1, <1>2, <1>3, <1>6 DEF Working
  <1> QED
    BY <1>5, <1>7 DEF SweepInv

(* Going on to the next variant: all but the head is still to be done.     *)
LEMMA TailFacts ==
    ASSUME NEW T, NEW list \in Seq(T), list # <<>>
    PROVE  /\ Tail(list) \in Seq(T) /\ Head(list) \in T
           /\ \A i \in DOMAIN list : list[i] = Head(list) \/ \E j \in DOMAIN Tail(list) : Tail(list)[j] = list[i]
  <1>1. /\ Tail(list) \in Seq(T) /\ Head(list) \in T /\ Head(list) = list[1]
        /\ Len(list) \in Nat /\ Len(list) # 0 /\ DOMAIN list = 1 .. Len(list)
        /\ DOMAIN Tail(list) = 1 .. Len(list) - 1
        /\ \A j \in 1 .. Len(list) - 1 : Tail(list)[j] = list[j + 1]
    BY HeadTailProperties, LenProperties, EmptySeq
  <1>2. ASSUME NEW i \in DOMAIN list, i # 1
        PROVE  \E j \in DOMAIN Tail(list) : Tail(list)[j] = list[i]
    <2>1. i - 1 \in 1 .. Len(list) - 1 /\ (i - 1) + 1 = i
      BY <1>1, <1>2
    <2> QED
      BY <1>1, <2>1
  <1> QED
    BY <1>1, <1>2

LEMMA MovesOn ==
    ASSUME SweepInv, sweep.proc # "off", sweep.todo # <<>>,
           NEW s, DOMAIN s = DOMAIN NoSweep,
           s.grid = sweep.grid, s.todo = sweep.todo, s.book = sweep.book, s.torn = sweep.torn,
           s.rows = sweep.rows, s.details = sweep.details,
           sweep.failures \subseteq s.failures,
           Head(s.todo) \in s.failures \union Variants(s.book),
           ~s.torn => Variants(s.rows) \subseteq Variants(s.book),
           s.table \in Seq(Rows), ~s.torn => Variants(s.table) \subseteq Variants(s.book)
    PROVE  Typed(NextVariant(s)) /\ Working(NextVariant(s))
  <1> DEFINE next == NextVariant(s)
  <1>1. Typed(sweep) /\ Working(sweep)
    BY DEF SweepInv
  <1>2. /\ DOMAIN next = DOMAIN NoSweep /\ next.proc = "answering" /\ next.todo = Tail(s.todo) /\ next.scores = <<>>
        /\ next.grid = s.grid /\ next.book = s.book /\ next.torn = s.torn /\ next.rows = s.rows
        /\ next.details = s.details /\ next.table = s.table /\ next.failures = s.failures
    BY DEF NextVariant, NoSweep
  <1>3. sweep.todo \in Seq(Names)
    BY <1>1 DEF Typed
  <1>4. /\ Tail(s.todo) \in Seq(Names)
        /\ \A i \in DOMAIN s.todo : s.todo[i] = Head(s.todo) \/ \E j \in DOMAIN Tail(s.todo) : Tail(s.todo)[j] = s.todo[i]
    BY <1>3, TailFacts
  <1> HIDE DEF next
  <1>5. Typed(next)
    BY <1>1, <1>2, <1>4, EmptySeq DEF Typed
  <1>6. GridNames(next) \subseteq next.failures \union Variants(next.book) \union Unfinished(next)
    <2>1. GridNames(sweep) \subseteq sweep.failures \union Variants(sweep.book) \union Unfinished(sweep)
      BY <1>1 DEF Working
    <2>2. \A v \in Unfinished(sweep) : v = Head(s.todo) \/ v \in Unfinished(next)
      BY <1>2, <1>4 DEF Unfinished
    <2>3. GridNames(next) = GridNames(sweep) /\ next.book = sweep.book /\ next.failures = s.failures
      BY <1>2 DEF GridNames
    <2> QED
      BY <2>1, <2>2, <2>3
  <1>7. ~s.torn => Variants(s.details) \union Variants(s.table) \subseteq Variants(s.book)
    BY <1>1 DEF Working
  <1>8. Working(next)
    BY <1>2, <1>6, <1>7 DEF Working
  <1> QED
    BY <1>5, <1>8 DEF next

LEMMA FailureKeeps ==
    ASSUME SweepInv, VariantFails
    PROVE  SweepInv'
  <1> DEFINE s == [sweep EXCEPT !.failures = @ \union {Head(sweep.todo)}]
  <1>1. DOMAIN sweep = DOMAIN NoSweep /\ Typed(sweep) /\ Working(sweep)
    BY DEF SweepInv, Typed
  <1>2. sweep.proc \in {"answering", "judging"} /\ sweep.todo # <<>> /\ sweep' = NextVariant(s)
    BY DEF VariantFails
  <1>3. /\ DOMAIN s = DOMAIN NoSweep /\ s.grid = sweep.grid /\ s.todo = sweep.todo /\ s.book = sweep.book
        /\ s.torn = sweep.torn /\ s.rows = sweep.rows /\ s.details = sweep.details /\ s.table = sweep.table
        /\ s.failures = sweep.failures \union {Head(sweep.todo)}
    BY <1>1 DEF NoSweep
  <1> HIDE DEF s
  <1>4. sweep.table \in Seq(Rows)
    BY <1>1 DEF Typed
  <1>5. ~sweep.torn => Variants(sweep.rows) \subseteq Variants(sweep.book) /\ Variants(sweep.table) \subseteq Variants(sweep.book)
    BY <1>1, <1>2 DEF Working
  <1> QED
    BY <1>2, <1>3, <1>4, <1>5, MovesOn DEF SweepInv

LEMMA TableKeeps ==
    ASSUME SweepInv, WriteTable
    PROVE  SweepInv'
  <1> DEFINE s == [sweep EXCEPT !.table = Ranked(sweep.rows)]
  <1>1. DOMAIN sweep = DOMAIN NoSweep /\ Typed(sweep) /\ Working(sweep)
    BY DEF SweepInv, Typed
  <1>2. sweep.proc = "ranking" /\ sweep' = NextVariant(s)
    BY DEF WriteTable
  <1>3. /\ DOMAIN s = DOMAIN NoSweep /\ s.grid = sweep.grid /\ s.todo = sweep.todo /\ s.book = sweep.book
        /\ s.torn = sweep.torn /\ s.rows = sweep.rows /\ s.details = sweep.details /\ s.table = Ranked(sweep.rows)
        /\ s.failures = sweep.failures
    BY <1>1 DEF NoSweep
  <1> HIDE DEF s
  <1>4. Ranked(sweep.rows) \in Seq(Rows) /\ Variants(Ranked(sweep.rows)) \subseteq Variants(sweep.rows)
    BY <1>1, RankedFacts DEF Typed
  <1>5. /\ sweep.todo # <<>> /\ Head(sweep.todo) \in Variants(sweep.book) /\ ~sweep.torn
        /\ Variants(sweep.rows) \subseteq Variants(sweep.book)
    BY <1>1, <1>2 DEF Working
  <1> QED
    BY <1>2, <1>3, <1>4, <1>5, MovesOn DEF SweepInv

LEMMA ScoredKeeps ==
    ASSUME SweepInv, VariantScored
    PROVE  SweepInv'
  <1> DEFINE row == [variant |-> Head(sweep.todo), mean |-> Mean(sweep.scores)]
  <1>1. DOMAIN sweep = DOMAIN NoSweep /\ Typed(sweep) /\ Working(sweep)
    BY DEF SweepInv, Typed
  <1>2. sweep.proc = "judging" /\ sweep' = [sweep EXCEPT !.proc = "recording", !.rows = Append(@, row)]
    BY DEF VariantScored
  <1>3. row.variant = Head(sweep.todo) /\ row \in Rows
    <2>1. sweep.todo \in Seq(Names) /\ sweep.todo # <<>> /\ sweep.scores \in Seq(Int \union {NaN})
      BY <1>1, <1>2 DEF Typed, Working
    <2>2. Head(sweep.todo) \in Names /\ Mean(sweep.scores) \in Means
      BY <2>1, TailFacts, MeanType
    <2> QED
      BY <2>2 DEF Rows
  <1> HIDE DEF row
  <1>4. /\ DOMAIN sweep' = DOMAIN NoSweep /\ sweep'.proc = "recording" /\ sweep'.rows = Append(sweep.rows, row)
        /\ sweep'.grid = sweep.grid /\ sweep'.todo = sweep.todo /\ sweep'.book = sweep.book
        /\ sweep'.torn = sweep.torn /\ sweep'.scores = sweep.scores /\ sweep'.details = sweep.details
        /\ sweep'.table = sweep.table /\ sweep'.failures = sweep.failures
    BY <1>1, <1>2 DEF NoSweep
  <1>5. sweep.rows \in Seq(Rows)
    BY <1>1 DEF Typed
  <1>6. /\ Append(sweep.rows, row) \in Seq(Rows)
        /\ \A v : v \in Variants(Append(sweep.rows, row)) <=> v \in Variants(sweep.rows) \/ v = row.variant
    BY <1>3, <1>5, AppendProperties, AppendedVariants
  <1>7. Typed(sweep')
    BY <1>1, <1>4, <1>6 DEF Typed
  <1>8. GridNames(sweep') = GridNames(sweep) /\ Unfinished(sweep') = Unfinished(sweep)
    BY <1>4 DEF GridNames, Unfinished
  <1>9. ~sweep.torn => Variants(Append(sweep.rows, row)) \subseteq Variants(sweep.book) \union {Head(sweep.todo)}
    BY <1>1, <1>2, <1>3, <1>6 DEF Working
  <1>10. Working(sweep')
    BY <1>1, <1>2, <1>4, <1>8, <1>9 DEF Working
  <1> QED
    BY <1>7, <1>10 DEF SweepInv

LEMMA RecordKeeps ==
    ASSUME SweepInv, RecordRun
    PROVE  SweepInv'
  <1> DEFINE name == Head(sweep.todo)
             row == [sheet |-> SheetName(sweep.book, name), variant |-> name]
             book == Append(sweep.book, row)
  <1>1. DOMAIN sweep = DOMAIN NoSweep /\ Typed(sweep) /\ Working(sweep)
    BY DEF SweepInv, Typed
  <1>2. CASE sweep.torn \/ ~HasSheetName(sweep.book, name)
    <2>1. sweep' = [sweep EXCEPT !.proc = "off"]
      BY <1>2 DEF RecordRun
    <2>2. /\ DOMAIN sweep' = DOMAIN NoSweep /\ sweep'.proc = "off"
          /\ sweep'.book = sweep.book /\ sweep'.torn = sweep.torn /\ sweep'.grid = sweep.grid /\ sweep'.todo = sweep.todo
          /\ sweep'.scores = sweep.scores /\ sweep'.rows = sweep.rows /\ sweep'.details = sweep.details
          /\ sweep'.table = sweep.table
      BY <1>1, <2>1 DEF NoSweep
    <2>3. sweep.table \in Seq(Rows)
      BY <1>1 DEF Typed
    <2> QED
      BY <2>2, <2>3, StopsSafely DEF SweepInv
  <1>3. CASE ~sweep.torn /\ HasSheetName(sweep.book, name)
    <2>1. sweep.proc = "recording" /\ sweep' = [sweep EXCEPT !.proc = "detailing", !.book = book]
      BY <1>3 DEF RecordRun
    <2>2. /\ DOMAIN sweep' = DOMAIN NoSweep /\ sweep'.proc = "detailing" /\ sweep'.book = book
          /\ sweep'.torn = sweep.torn /\ sweep'.grid = sweep.grid /\ sweep'.todo = sweep.todo
          /\ sweep'.scores = sweep.scores /\ sweep'.rows = sweep.rows /\ sweep'.details = sweep.details
          /\ sweep'.table = sweep.table /\ sweep'.failures = sweep.failures
      <3> HIDE DEF book
      <3> QED
        BY <1>1, <2>1 DEF NoSweep
    <2>3. name \in Names /\ sweep.todo # <<>>
      BY <1>1, <2>1, TailFacts DEF Typed, Working
    <2>4. BookOK(sweep.book) /\ sweep.book \in Seq(BookRows)
      BY <1>1 DEF Typed, BookOK
    <2>5. BookOK(book) /\ row.variant = name
      BY <1>3, <2>3, <2>4, RecordedFacts
    <2>6. \A v : v \in Variants(book) <=> v \in Variants(sweep.book) \/ v = name
      <3> HIDE DEF row
      <3> QED
        BY <2>4, <2>5, AppendedVariants
    <2> HIDE DEF book, row
    <2>7. Typed(sweep')
      BY <1>1, <2>2, <2>5 DEF Typed
    <2>8. GridNames(sweep') = GridNames(sweep) /\ Unfinished(sweep') = Unfinished(sweep)
      BY <2>2 DEF GridNames, Unfinished
    <2>9. /\ GridNames(sweep) \subseteq sweep.failures \union Variants(sweep.book) \union Unfinished(sweep)
          /\ Variants(sweep.rows) \subseteq Variants(sweep.book) \union {name}
          /\ Variants(sweep.details) \union Variants(sweep.table) \subseteq Variants(sweep.book)
      BY <1>1, <1>3, <2>1 DEF Working
    <2>10. /\ GridNames(sweep') \subseteq sweep'.failures \union Variants(book) \union Unfinished(sweep')
           /\ Variants(sweep.rows) \subseteq Variants(book)
           /\ Variants(sweep.details) \union Variants(sweep.table) \subseteq Variants(book)
           /\ name \in Variants(book)
      BY <2>2, <2>6, <2>8, <2>9
    <2>11. Working(sweep')
      BY <1>3, <2>2, <2>3, <2>10 DEF Working
    <2> QED
      BY <2>7, <2>11 DEF SweepInv
  <1> QED
    BY <1>2, <1>3

LEMMA DetailsKeep ==
    ASSUME SweepInv, WriteDetails
    PROVE  SweepInv'
  <1>1. DOMAIN sweep = DOMAIN NoSweep /\ Typed(sweep) /\ Working(sweep)
    BY DEF SweepInv, Typed
  <1>2. sweep.proc = "detailing" /\ sweep' = [sweep EXCEPT !.proc = "ranking", !.details = sweep.rows]
    BY DEF WriteDetails
  <1>3. /\ DOMAIN sweep' = DOMAIN NoSweep /\ sweep'.proc = "ranking" /\ sweep'.book = sweep.book
        /\ sweep'.torn = sweep.torn /\ sweep'.grid = sweep.grid /\ sweep'.todo = sweep.todo
        /\ sweep'.scores = sweep.scores /\ sweep'.rows = sweep.rows /\ sweep'.details = sweep.rows
        /\ sweep'.table = sweep.table /\ sweep'.failures = sweep.failures
    BY <1>1, <1>2 DEF NoSweep
  <1>4. Typed(sweep')
    BY <1>1, <1>3 DEF Typed
  <1>5. GridNames(sweep') = GridNames(sweep) /\ Unfinished(sweep') = Unfinished(sweep)
    BY <1>3 DEF GridNames, Unfinished
  <1>6. Working(sweep')
    BY <1>1, <1>2, <1>3, <1>5 DEF Working
  <1> QED
    BY <1>4, <1>6 DEF SweepInv

LEMMA DeathKeeps ==
    ASSUME SweepInv, Die \/ DieSaving \/ DieRanking
    PROVE  SweepInv'
  <1>1. DOMAIN sweep = DOMAIN NoSweep /\ Typed(sweep) /\ Working(sweep)
    BY DEF SweepInv, Typed
  <1>2. sweep.table \in Seq(Rows) /\ sweep.rows \in Seq(Rows)
    BY <1>1 DEF Typed
  <1>3. CASE Die
    <2>1. /\ DOMAIN sweep' = DOMAIN NoSweep /\ sweep'.proc = "off"
          /\ sweep'.book = sweep.book /\ sweep'.torn = sweep.torn /\ sweep'.grid = sweep.grid /\ sweep'.todo = sweep.todo
          /\ sweep'.scores = sweep.scores /\ sweep'.rows = sweep.rows /\ sweep'.details = sweep.details
          /\ sweep'.table = sweep.table
      BY <1>1, <1>3 DEF Die, NoSweep
    <2> QED
      BY <1>2, <2>1, StopsSafely DEF SweepInv
  <1>4. CASE DieSaving
    <2>1. /\ DOMAIN sweep' = DOMAIN NoSweep /\ sweep'.proc = "off"
          /\ sweep'.book = <<>> /\ sweep'.torn = TRUE /\ sweep'.grid = sweep.grid /\ sweep'.todo = sweep.todo
          /\ sweep'.scores = sweep.scores /\ sweep'.rows = sweep.rows /\ sweep'.details = sweep.details
          /\ sweep'.table = sweep.table
      BY <1>1, <1>4 DEF DieSaving, NoSweep
    <2>2. BookOK(<<>>)
      BY EmptySeq DEF BookOK
    <2>3. Typed(sweep')
      BY <1>1, <2>1, <2>2 DEF Typed
    <2>4. Working(sweep')
      BY <2>1 DEF Working
    <2> QED
      BY <2>3, <2>4 DEF SweepInv
  <1>5. CASE DieRanking
    <2> DEFINE whole == Ranked(sweep.rows)
    <2>1. PICK n \in 0 .. Len(sweep.rows) - 1 : sweep' = [sweep EXCEPT !.proc = "off", !.table = SubSeq(whole, 1, n)]
      BY <1>5 DEF DieRanking
    <2>2. /\ whole \in Seq(Rows) /\ Len(whole) = Len(sweep.rows) /\ Len(whole) \in Nat
          /\ Variants(whole) \subseteq Variants(sweep.rows)
          /\ DOMAIN whole = 1 .. Len(whole) /\ \A i \in 1 .. Len(whole) : whole[i] \in Rows
      BY <1>2, RankedFacts, LenProperties, ElementOfSeq
    <2> HIDE DEF whole
    <2> DEFINE part == SubSeq(whole, 1, n)
    <2>3. /\ part \in Seq(Rows) /\ DOMAIN part = 1 .. n
          /\ \A i \in 1 .. n : part[i] = whole[i]
      <3>1. \A i \in 1 .. n : whole[i] \in Rows /\ i \in DOMAIN whole
        BY <2>2
      <3>2. /\ part \in Seq(Rows) /\ Len(part) = (IF 1 <= n THEN n - 1 + 1 ELSE 0)
            /\ \A i \in 1 .. n - 1 + 1 : part[i] = whole[1 + i - 1]
        BY <3>1, SubSeqProperties
      <3>3. DOMAIN part = 1 .. Len(part)
        BY <3>2, LenProperties
      <3> HIDE DEF part
      <3>4. n \in Nat
        OBVIOUS
      <3> QED
        BY <3>2, <3>3, <3>4
    <2>4. Variants(part) \subseteq Variants(whole)
      <3> HIDE DEF part
      <3>1. \A i \in DOMAIN part : i \in DOMAIN whole /\ part[i] = whole[i]
        BY <2>2, <2>3
      <3> QED
        BY <3>1, VariantsFacts
    <2> HIDE DEF part
    <2>5. /\ DOMAIN sweep' = DOMAIN NoSweep /\ sweep'.proc = "off"
          /\ sweep'.book = sweep.book /\ sweep'.torn = sweep.torn /\ sweep'.grid = sweep.grid /\ sweep'.todo = sweep.todo
          /\ sweep'.scores = sweep.scores /\ sweep'.rows = sweep.rows /\ sweep'.details = sweep.details
          /\ sweep'.table = part
      BY <1>1, <2>1 DEF NoSweep, part
    <2>6. sweep.proc = "ranking"
      BY <1>5 DEF DieRanking
    <2>7. Typed(sweep')
      BY <1>1, <2>3, <2>5 DEF Typed
    <2>8. ~sweep.torn => Variants(sweep.rows) \subseteq Variants(sweep.book) /\ Variants(sweep.details) \subseteq Variants(sweep.book)
      BY <1>1, <2>6 DEF Working
    <2>9. Working(sweep')
      BY <2>2, <2>4, <2>5, <2>8 DEF Working
    <2> QED
      BY <2>7, <2>9 DEF SweepInv
  <1> QED
    BY <1>3, <1>4, <1>5

LEMMA SweepKeeps ==
    ASSUME SweepAssumption, NamesTellApart(Names), SweepInv, [SweepNext]_sweep
    PROVE  SweepInv'
  <1>1. CASE UNCHANGED sweep
    BY <1>1 DEF SweepInv
  <1>2. CASE SweepNext
    BY <1>2, StartKeeps, AnsweringKeeps, FailureKeeps, TableKeeps, ScoredKeeps, RecordKeeps, DetailsKeep, DeathKeeps
      DEF SweepNext
  <1> QED
    BY <1>1, <1>2

LEMMA SheetsAreCounted ==
    ASSUME NEW book, BookOK(book)
    PROVE  Cardinality(Sheets(book)) = Len(book)
  <1> DEFINE n == Len(book)
             f == [i \in 1 .. n |-> book[i].sheet]
  <1>1. n \in Nat /\ DOMAIN book = 1 .. n /\ \A i, j \in 1 .. n : book[i].sheet = book[j].sheet => i = j
    BY LenProperties DEF BookOK
  <1> HIDE DEF n
  <1>2. f \in Bijection(1 .. n, Sheets(book))
    <2>1. \A i \in 1 .. n : f[i] \in Sheets(book)
      BY <1>1, SheetsFacts
    <2>2. \A v \in Sheets(book) : \E i \in 1 .. n : f[i] = v
      BY <1>1, SheetsFacts
    <2>3. \A i, j \in 1 .. n : f[i] = f[j] => i = j
      BY <1>1
    <2> HIDE DEF f
    <2>4. f \in [1 .. n -> Sheets(book)]
      BY <2>1 DEF f
    <2> QED
      BY <2>2, <2>3, <2>4, Fun_IsBij
  <1>3. Cardinality(1 .. n) = n /\ IsFiniteSet(1 .. n)
    BY <1>1, FS_Interval
  <1>4. Cardinality(Sheets(book)) = Cardinality(1 .. n)
    BY <1>2, <1>3, FS_Bijection, Zenon DEF ExistsBijection
  <1> QED
    BY <1>3, <1>4 DEF n

(* A sweep that reports its end has every variant of its grid in the       *)
(* workbook or among the failures, resumed as often and stopped wherever   *)
(* it may be; what it published is recorded there, and no sheet has two    *)
(* runs (run_comparison with append_run_to_workbook).  The hypothesis on   *)
(* the names is what SweepResume shows to be needed.                       *)
THEOREM SweepsAreRecorded ==
    ASSUME SweepAssumption, NamesTellApart(Names)
    PROVE  SweepSpec => []DoneIsRecorded
  <1>1. SweepInit => SweepInv
    BY SweepStarts
  <1>2. SweepInv /\ [SweepNext]_sweep => SweepInv'
    BY SweepKeeps
  <1>3. SweepInv => DoneIsRecorded
    <2> SUFFICES ASSUME SweepInv
                 PROVE  DoneIsRecorded
      OBVIOUS
    <2>1. Typed(sweep) /\ Working(sweep)
      BY DEF SweepInv
    <2>2. ASSUME sweep.proc = "done"
          PROVE  ToSet(sweep.grid) \subseteq sweep.failures \union Variants(sweep.book)
      <3>1. GridNames(sweep) \subseteq sweep.failures \union Variants(sweep.book) \union Unfinished(sweep)
        BY <2>1, <2>2 DEF Working
      <3>2. Unfinished(sweep) = {}
        BY <2>1, <2>2 DEF Unfinished, Working
      <3>3. \A v \in ToSet(sweep.grid) : v \in GridNames(sweep)
        BY DEF ToSet, GridNames
      <3> QED
        BY <3>1, <3>2, <3>3
    <2>3. ~sweep.torn => Variants(sweep.details) \union Variants(sweep.table) \subseteq Variants(sweep.book)
      BY <2>1 DEF Working
    <2>4. Cardinality(Sheets(sweep.book)) = Len(sweep.book)
      BY <2>1, SheetsAreCounted DEF Typed
    <2> QED
      BY <2>2, <2>3, <2>4 DEF DoneIsRecorded
  <1> QED
    BY <1>1, <1>2, <1>3, PTL DEF SweepSpec

----------------------------------------------------------------------------
(* The choice of references.                                               *)

LEMMA TaskFacts ==
    ASSUME NEW task \in StudiedTasks
    PROVE  /\ NRefs(task) \in Nat \ {0} /\ References(task) = 1 .. NRefs(task) /\ IsFiniteSet(References(task))
           /\ Total \in Nat \ {0} /\ K \in Nat \ {0}
           /\ \A r \in References(task) :
                 /\ task.a[r] \in 0 .. K /\ task.b[r] \in 0 .. K
                 /\ Diff(task, r) \in Int /\ -K <= Diff(task, r) /\ Diff(task, r) <= K
           /\ Total \div NRefs(task) \in Nat /\ NRefs(task) * (Total \div NRefs(task)) = Total
           /\ \A p \in BiasLevels : NRefs(task) = 1 \/ (Total - p) % (NRefs(task) - 1) = 0
  <1> DEFINE n == NRefs(task)
  <1>1. /\ n \in Nat \ {0} /\ task.a \in Counts(n) /\ task.b \in Counts(n) /\ K \in Nat \ {0} /\ Total \in Nat \ {0}
        /\ Total % n = 0 /\ \A p \in BiasLevels : n = 1 \/ (Total - p) % (n - 1) = 0
    BY StudyAssumption DEF NRefs, References
  <1>2. task.a \in [1 .. n -> 0 .. K] /\ task.b \in [1 .. n -> 0 .. K]
    BY <1>1 DEF Counts
  <1>3. References(task) = 1 .. n
    BY <1>2 DEF References
  <1> HIDE DEF n
  <1>4. IsFiniteSet(1 .. n)
    BY <1>1, FS_Interval
  <1>5. ASSUME NEW r \in 1 .. n
        PROVE  /\ task.a[r] \in 0 .. K /\ task.b[r] \in 0 .. K
               /\ Diff(task, r) \in Int /\ -K <= Diff(task, r) /\ Diff(task, r) <= K
    <2>1. task.a[r] \in 0 .. K /\ task.b[r] \in 0 .. K
      BY <1>2
    <2> QED
      BY <1>1, <2>1 DEF Diff
  <1>6. Total \div n \in Nat /\ n * (Total \div n) = Total
    <2>1. Total = n * (Total \div n) + (Total % n) /\ Total \div n \in Int
      BY <1>1
    <2>2. Total \div n \in Nat
      BY <1>1
    <2> QED
      BY <1>1, <2>1, <2>2
  <1> QED
    BY <1>1, <1>3, <1>4, <1>5, <1>6 DEF n

LEMMA ChoiceFacts ==
    ASSUME NEW choice \in Distributions
    PROVE  \/ choice.type = "uniform"
           \/ choice.type = "adversarial"
           \/ choice.type = "canonical_bias" /\ choice.p \in BiasLevels
  BY DEF Distributions

LEMMA DividesInto ==
    ASSUME NEW a \in Nat, NEW n \in Nat \ {0}, a % n = 0
    PROVE  a \div n \in Nat /\ n * (a \div n) = a
  <1>1. a = n * (a \div n) + (a % n) /\ a \div n \in Nat
    OBVIOUS
  <1> QED
    BY <1>1

(* Each choice is a distribution of the weight of certainty.               *)
Distributes(q, R) == /\ DOMAIN q = R /\ \A r \in R : q[r] \in Nat
                     /\ SumFunctionOnSet(q, R) = Total

LEMMA UniformDistributes ==
    ASSUME NEW task \in StudiedTasks
    PROVE  /\ Distributes(Uniform(task), References(task))
           /\ \A r \in References(task) : Uniform(task)[r] = Total \div NRefs(task)
  <1> DEFINE q == Uniform(task)
             R == References(task)
             n == NRefs(task)
             u == Total \div n
  <1>1. n \in Nat \ {0} /\ R = 1 .. n /\ IsFiniteSet(R) /\ u \in Nat /\ n * u = Total
    BY TaskFacts
  <1>2. DOMAIN q = R /\ \A r \in R : q[r] = u
    BY DEF Uniform
  <1> HIDE DEF q, R, u, n
  <1>3. SumFunctionOnSet(q, R) = u * Cardinality(R)
    BY <1>1, <1>2, SumOfConstant
  <1>4. Cardinality(R) = n
    BY <1>1, FS_Interval
  <1>5. u * n = n * u
    BY <1>1
  <1>6. SumFunctionOnSet(q, R) = Total
    BY <1>1, <1>3, <1>4, <1>5
  <1>7. Distributes(q, R)
    BY <1>1, <1>2, <1>6 DEF Distributes
  <1> QED
    BY <1>2, <1>7 DEF q, R, u, n

LEMMA BiasDistributes ==
    ASSUME NEW task \in StudiedTasks, NEW p \in BiasLevels
    PROVE  Distributes(CanonicalBias(task, p), References(task))
  <1> DEFINE q == CanonicalBias(task, p)
             R == References(task)
             n == NRefs(task)
             u == (Total - p) \div (n - 1)
  <1>1. /\ n \in Nat \ {0} /\ R = 1 .. n /\ IsFiniteSet(R) /\ Total \in Nat
        /\ n = 1 \/ (Total - p) % (n - 1) = 0
    BY TaskFacts
  <1>2. p \in Nat /\ Total - p \in Nat
    BY <1>1, StudyAssumption
  <1>3. CASE n = 1
    BY <1>3, UniformDistributes DEF CanonicalBias
  <1>4. CASE n # 1
    <2>1. n - 1 \in Nat \ {0} /\ (Total - p) % (n - 1) = 0
      BY <1>1, <1>4
    <2>2. u \in Nat /\ (n - 1) * u = Total - p
      <3> HIDE DEF n
      <3> QED
        BY <1>2, <2>1, DividesInto
    <2>3. /\ DOMAIN q = R /\ \A r \in R : q[r] = IF r = 1 THEN p ELSE u
      BY <1>4 DEF CanonicalBias
    <2> HIDE DEF q, R, u, n
    <2>4. 1 \in R /\ IsFiniteSet(R \ {1})
      BY <1>1, FS_Subset
    <2>5. Cardinality(R \ {1}) = n - 1
      <3>1. Cardinality(R) = n
        BY <1>1, FS_Interval
      <3> QED
        BY <1>1, <2>4, <3>1, FS_RemoveElement
    <2>6. SumFunctionOnSet(q, R \ {1}) = u * Cardinality(R \ {1})
      <3>1. \A r \in R \ {1} : q[r] = u
        BY <2>3
      <3> QED
        BY <2>2, <2>4, <3>1, SumOfConstant
    <2>7. \A r \in R : q[r] \in Nat
      BY <1>2, <2>2, <2>3
    <2>8. SumFunctionOnSet(q, R) = q[1] + SumFunctionOnSet(q, R \ {1})
      <3>1. \A r \in R : q[r] \in Int
        BY <2>7
      <3> QED
        BY <1>1, <2>4, <3>1, SumStep
    <2>9. q[1] = p
      BY <2>3, <2>4
    <2>10. u * (n - 1) = (n - 1) * u
      BY <2>1, <2>2
    <2>11. SumFunctionOnSet(q, R) = p + (Total - p)
      BY <2>2, <2>5, <2>6, <2>8, <2>9, <2>10
    <2>12. SumFunctionOnSet(q, R) = Total
      BY <1>1, <1>2, <2>11
    <2>13. Distributes(q, R)
      BY <2>3, <2>7, <2>12 DEF Distributes
    <2> QED
      BY <2>13 DEF q, R
  <1> QED
    BY <1>3, <1>4

LEMMA DisplacementDistributes ==
    ASSUME NEW task \in StudiedTasks
    PROVE  Distributes(MaxDisplacement(task), References(task))
  <1> DEFINE moved(r) == Abs(task.a[r] - task.a[1]) + Abs(task.b[r] - task.b[1])
             R == References(task)
             most == {r \in R : \A s \in R : moved(s) <= moved(r)}
             q == MaxDisplacement(task)
  <1>1. NRefs(task) \in Nat \ {0} /\ R = 1 .. NRefs(task) /\ IsFiniteSet(R) /\ Total \in Nat
    BY TaskFacts
  <1>2. /\ DOMAIN q = R /\ \A r \in R : q[r] = IF r = Min(most) THEN Total ELSE 0
    BY DEF MaxDisplacement
  <1>3. \A r \in R : moved(r) \in 0 .. K + K
    <2>1. 1 \in R /\ K \in Nat
      BY <1>1, TaskFacts
    <2>2. ASSUME NEW r \in R
          PROVE  moved(r) \in 0 .. K + K
      <3>1. task.a[r] \in 0 .. K /\ task.a[1] \in 0 .. K /\ task.b[r] \in 0 .. K /\ task.b[1] \in 0 .. K
        BY <2>1, TaskFacts
      <3> QED
        BY <2>1, <3>1 DEF Abs
    <2> QED
      BY <2>2
  <1>4. most # {} /\ most \subseteq Nat /\ most \subseteq R
    <2> DEFINE reached == {m \in Nat : \E r \in R : moved(r) = m}
    <2> HIDE DEF moved, R
    <2>1. 1 \in R /\ K \in Nat
      BY <1>1, TaskFacts DEF R
    <2>2. reached \subseteq Nat /\ reached # {} /\ \A m \in reached : m <= K + K
      BY <1>3, <2>1
    <2> HIDE DEF reached
    <2>3. Max(reached) \in reached /\ \A m \in reached : Max(reached) >= m
      <3>1. K + K \in Nat
        BY <2>1
      <3> QED
        BY <2>2, <3>1, MaxFacts
    <2>4. PICK r \in R : moved(r) = Max(reached)
      BY <2>3 DEF reached
    <2>5. \A s \in R : moved(s) <= moved(r)
      <3>1. \A s \in R : moved(s) \in reached /\ moved(s) \in Nat
        BY <1>3, <2>1 DEF reached
      <3> QED
        BY <2>3, <2>4, <3>1
    <2>6. r \in most
      BY <2>5
    <2> QED
      BY <1>1, <2>6
  <1> HIDE DEF most, q, R, moved
  <1>5. Min(most) \in R
    BY <1>4, MinFacts
  <1> DEFINE y == Min(most)
  <1>6. y \in R /\ q[y] = Total /\ \A x \in R \ {y} : q[x] = 0
    BY <1>2, <1>5
  <1> HIDE DEF y
  <1>7. q[y] \in Int
    BY <1>1, <1>6
  <1>8. SumFunctionOnSet(q, R) = Total
    BY <1>1, <1>6, <1>7, SumOfOne
  <1>9. \A r \in R : q[r] \in Nat
    BY <1>1, <1>2
  <1>10. Distributes(q, R)
    BY <1>2, <1>8, <1>9 DEF Distributes
  <1> QED
    BY <1>10 DEF q, R

LEMMA WeightsDistribute ==
    ASSUME NEW task \in StudiedTasks, NEW choice \in Distributions
    PROVE  Distributes(Weights(task, choice), References(task))
  <1>1. CASE choice.type = "uniform"
    BY <1>1, UniformDistributes DEF Weights
  <1>2. CASE choice.type = "adversarial"
    BY <1>2, DisplacementDistributes DEF Weights
  <1>3. CASE choice.type = "canonical_bias"
    <2>1. choice.p \in BiasLevels
      BY <1>3, ChoiceFacts
    <2>2. Weights(task, choice) = CanonicalBias(task, choice.p)
      BY <1>3 DEF Weights
    <2> QED
      BY <2>1, <2>2, BiasDistributes
  <1> QED
    BY <1>1, <1>2, <1>3, ChoiceFacts

----------------------------------------------------------------------------
(* The certificate.  Two distributions of one task move its expectation by *)
(* no more than K times their distance, since no difference exceeds K.     *)

LEMMA AbsFacts ==
    /\ \A x \in Int : Abs(x) \in Nat /\ (x >= 0 => Abs(x) = x) /\ (x < 0 => Abs(x) = -x)
    /\ \A x, b \in Int : Abs(x) <= b <=> x <= b /\ -x <= b
  BY DEF Abs

LEMMA MovesAtMost ==
    ASSUME NEW x \in Int, NEW d \in Int, NEW k \in Nat, -k <= d, d <= k
    PROVE  x * d <= k * Abs(x) /\ -(x * d) <= k * Abs(x)
  <1>1. ASSUME NEW y \in Nat, NEW e \in Int, -k <= e, e <= k
        PROVE  y * e <= k * y /\ -(y * e) <= k * y
    <2>1. y * (k - e) >= 0 /\ y * (k + e) >= 0
      BY <1>1
    <2>2. y * (k - e) = k * y - y * e /\ y * (k + e) = k * y + y * e
      OBVIOUS
    <2>3. k * y \in Int /\ y * e \in Int
      OBVIOUS
    <2> QED
      BY <2>1, <2>2, <2>3
  <1>2. CASE x >= 0
    <2>1. x \in Nat /\ Abs(x) = x
      BY <1>2, AbsFacts
    <2> QED
      BY <1>1, <2>1
  <1>3. CASE x < 0
    <2> DEFINE y == -x
    <2>1. y \in Nat /\ Abs(x) = y /\ x * d = -(y * d)
      BY <1>3, AbsFacts
    <2>2. y * d <= k * y /\ -(y * d) <= k * y
      BY <1>1, <2>1
    <2>3. y * d \in Int
      BY <2>1
    <2> HIDE DEF y
    <2> QED
      BY <2>1, <2>2, <2>3
  <1> QED
    BY <1>2, <1>3

(* Sums that differ by no more than d in each place.                       *)
LEMMA SumsStayClose ==
    ASSUME NEW S, IsFiniteSet(S), NEW f, NEW g, NEW d, NEW k \in Int,
           \A x \in S : f[x] \in Int /\ g[x] \in Int /\ d[x] \in Int,
           \A x \in S : f[x] - g[x] <= k * d[x] /\ g[x] - f[x] <= k * d[x]
    PROVE  LET F == SumFunctionOnSet(f, S)
               G == SumFunctionOnSet(g, S)
               D == SumFunctionOnSet(d, S)
           IN  F \in Int /\ G \in Int /\ D \in Int /\ F - G <= k * D /\ G - F <= k * D
  <1> DEFINE F == SumFunctionOnSet(f, S)
             G == SumFunctionOnSet(g, S)
             D == SumFunctionOnSet(d, S)
             m == [x \in S |-> k * d[x]]
             fm == [x \in S |-> f[x] + m[x]]
             gm == [x \in S |-> g[x] + m[x]]
  <1>1. \A x \in S : m[x] = k * d[x] /\ m[x] \in Int
    OBVIOUS
  <1> HIDE DEF m
  <1>2. \A x \in S : /\ fm[x] = f[x] + m[x] /\ fm[x] \in Int /\ gm[x] = g[x] + m[x] /\ gm[x] \in Int
                     /\ f[x] <= gm[x] /\ g[x] <= fm[x]
    BY <1>1
  <1> HIDE DEF fm, gm
  <1>3. F \in Int /\ G \in Int /\ D \in Int
    BY SumType
  <1>4. SumFunctionOnSet(m, S) = k * D
    BY <1>1, SumScales
  <1>5. SumFunctionOnSet(fm, S) = F + SumFunctionOnSet(m, S)
    BY <1>1, <1>2, SumAdds
  <1>6. SumFunctionOnSet(gm, S) = G + SumFunctionOnSet(m, S)
    BY <1>1, <1>2, SumAdds
  <1>7. F <= SumFunctionOnSet(gm, S)
    BY <1>2, SumGrows
  <1>8. G <= SumFunctionOnSet(fm, S)
    BY <1>2, SumGrows
  <1> HIDE DEF F, G, D
  <1>9. k * D \in Int
    BY <1>3
  <1> DEFINE M == k * D
  <1>10. F \in Int /\ G \in Int /\ M \in Int /\ F <= G + M /\ G <= F + M
    BY <1>3, <1>4, <1>5, <1>6, <1>7, <1>8, <1>9
  <1> HIDE DEF M
  <1>11. F - G <= M /\ G - F <= M
    BY <1>10
  <1> QED
    BY <1>3, <1>11 DEF M, F, G, D

UniformChoice == [type |-> "uniform"]

LEMMA TaskMoves ==
    ASSUME NEW task \in StudiedTasks, NEW choice \in Distributions
    PROVE  LET F == ExpectedDiff(task, choice)
               G == ExpectedDiff(task, UniformChoice)
               D == Distance(task, choice)
           IN  F \in Int /\ G \in Int /\ D \in Int /\ F - G <= K * D /\ G - F <= K * D
  <1> DEFINE R == References(task)
             q == Weights(task, choice)
             u == Uniform(task)
             f == [r \in R |-> q[r] * Diff(task, r)]
             g == [r \in R |-> u[r] * Diff(task, r)]
             d == [r \in R |-> Abs(q[r] - u[r])]
  <1>1. /\ IsFiniteSet(R) /\ K \in Nat
        /\ \A r \in R : Diff(task, r) \in Int /\ -K <= Diff(task, r) /\ Diff(task, r) <= K
    BY TaskFacts
  <1>2. DOMAIN q = R /\ \A r \in R : q[r] \in Nat /\ u[r] \in Nat
    BY WeightsDistribute, UniformDistributes DEF Distributes
  <1>3. /\ ExpectedDiff(task, choice) = SumFunctionOnSet(f, R)
        /\ ExpectedDiff(task, UniformChoice) = SumFunctionOnSet(g, R)
        /\ Distance(task, choice) = SumFunctionOnSet(d, R)
    <2>1. Weights(task, UniformChoice) = u
      BY DEF Weights, UniformChoice
    <2>2. DOMAIN f = R /\ DOMAIN g = R /\ DOMAIN d = R
      OBVIOUS
    <2>3. d = [r \in DOMAIN q |-> Abs(q[r] - u[r])]
      BY <1>2
    <2> HIDE DEF q, u
    <2> QED
      BY <2>1, <2>2, <2>3 DEF ExpectedDiff, Distance, TwiceTVDistance, SumFunction, q, u
  <1> HIDE DEF R, q, u
  <1>4. ASSUME NEW r \in R
        PROVE  /\ f[r] \in Int /\ g[r] \in Int /\ d[r] \in Int
               /\ f[r] - g[r] <= K * d[r] /\ g[r] - f[r] <= K * d[r]
    <2> DEFINE x == q[r] - u[r]
               e == Diff(task, r)
    <2>1. x \in Int /\ e \in Int /\ -K <= e /\ e <= K
      BY <1>1, <1>2
    <2>2. f[r] = q[r] * e /\ g[r] = u[r] * e /\ d[r] = Abs(x)
      OBVIOUS
    <2>3. f[r] - g[r] = x * e /\ g[r] - f[r] = -(x * e) /\ f[r] \in Int /\ g[r] \in Int
      BY <1>2, <2>1, <2>2
    <2> HIDE DEF x, e
    <2>4. x * e <= K * Abs(x) /\ -(x * e) <= K * Abs(x) /\ Abs(x) \in Int
      BY <1>1, <2>1, MovesAtMost, AbsFacts
    <2> QED
      BY <2>2, <2>3, <2>4
  <1> HIDE DEF f, g, d
  <1>5. K \in Int
    BY <1>1
  <1> QED
    BY <1>1, <1>3, <1>4, <1>5, SumsStayClose

LEMMA TasksMove ==
    ASSUME NEW tasks \in Seq(StudiedTasks), NEW choice \in Distributions
    PROVE  LET F == Expected(tasks, choice)
               G == Expected(tasks, UniformChoice)
               D == SumFunction([i \in DOMAIN tasks |-> Distance(tasks[i], choice)])
           IN  F \in Int /\ G \in Int /\ D \in Int /\ F - G <= K * D /\ G - F <= K * D
  <1> DEFINE S == DOMAIN tasks
             f == [i \in S |-> ExpectedDiff(tasks[i], choice)]
             g == [i \in S |-> ExpectedDiff(tasks[i], UniformChoice)]
             d == [i \in S |-> Distance(tasks[i], choice)]
  <1>1. S = 1 .. Len(tasks) /\ Len(tasks) \in Nat /\ \A i \in S : tasks[i] \in StudiedTasks
    BY LenProperties, ElementOfSeq
  <1>2. IsFiniteSet(S) /\ K \in Int
    BY <1>1, FS_Interval, StudyAssumption
  <1>3. /\ Expected(tasks, choice) = SumFunctionOnSet(f, S)
        /\ Expected(tasks, UniformChoice) = SumFunctionOnSet(g, S)
        /\ SumFunction([i \in DOMAIN tasks |-> Distance(tasks[i], choice)]) = SumFunctionOnSet(d, S)
    BY DEF Expected, SumFunction
  <1>4. ASSUME NEW i \in S
        PROVE  /\ f[i] \in Int /\ g[i] \in Int /\ d[i] \in Int
               /\ f[i] - g[i] <= K * d[i] /\ g[i] - f[i] <= K * d[i]
    <2>1. tasks[i] \in StudiedTasks
      BY <1>1
    <2>2. f[i] = ExpectedDiff(tasks[i], choice) /\ g[i] = ExpectedDiff(tasks[i], UniformChoice) /\ d[i] = Distance(tasks[i], choice)
      OBVIOUS
    <2> HIDE DEF f, g, d
    <2> QED
      BY <2>1, <2>2, TaskMoves
  <1> DEFINE D == SumFunction([i \in DOMAIN tasks |-> Distance(tasks[i], choice)])
  <1> HIDE DEF S, f, g, d, D
  <1>5. LET F == SumFunctionOnSet(f, S)
            G == SumFunctionOnSet(g, S)
            E == SumFunctionOnSet(d, S)
        IN  F \in Int /\ G \in Int /\ E \in Int /\ F - G <= K * E /\ G - F <= K * E
    BY <1>2, <1>4, SumsStayClose
  <1>6. D = SumFunctionOnSet(d, S)
    BY <1>3 DEF D
  <1> QED
    BY <1>3, <1>5, <1>6 DEF D

LEMMA ClosedForm ==
    ASSUME NEW task \in StudiedTasks, NEW choice \in Distributions, choice.type = "canonical_bias"
    PROVE  Distance(task, choice) = TwiceTVBudgetForCanonicalBias(choice.p, NRefs(task))
  <1> DEFINE p == choice.p
             R == References(task)
             n == NRefs(task)
             q == CanonicalBias(task, p)
             u == Uniform(task)
             e == Total \div n
             w == (Total - p) \div (n - 1)
             d == [r \in DOMAIN q |-> Abs(q[r] - u[r])]
  <1>1. p \in BiasLevels /\ Weights(task, choice) = q
    BY ChoiceFacts DEF Weights
  <1>2. /\ n \in Nat \ {0} /\ R = 1 .. n /\ IsFiniteSet(R) /\ Total \in Nat
        /\ e \in Nat /\ n * e = Total /\ (n = 1 \/ (Total - p) % (n - 1) = 0)
    BY <1>1, TaskFacts
  <1>3. p \in Nat /\ Total - p \in Nat
    <2>1. BiasLevels \subseteq 0 .. Total
      BY StudyAssumption
    <2>2. p \in 0 .. Total
      BY <1>1, <2>1
    <2> HIDE DEF p
    <2> QED
      BY <1>2, <2>2
  <1>4. DOMAIN q = R /\ \A r \in R : u[r] = e
    BY <1>1, BiasDistributes, UniformDistributes DEF Distributes
  <1>5. Distance(task, choice) = SumFunctionOnSet(d, R)
    <2>1. DOMAIN d = R
      BY <1>4
    <2> HIDE DEF q, u, R
    <2> QED
      BY <1>1, <2>1 DEF Distance, TwiceTVDistance, SumFunction, u
  <1>6. CASE n = 1
    <2>1. q = u
      BY <1>6 DEF CanonicalBias
    <2>2. \A r \in R : d[r] = 0
      <3> HIDE DEF q, u, R, e
      <3>1. \A r \in R : q[r] = e /\ e - e = 0
        BY <1>2, <1>4, <2>1
      <3> QED
        BY <1>4, <3>1 DEF Abs
    <2> HIDE DEF d, R
    <2>3. SumFunctionOnSet(d, R) = 0
      BY <1>2, <2>2, SumOfZeros
    <2> QED
      BY <1>5, <1>6, <2>3 DEF TwiceTVBudgetForCanonicalBias
  <1>7. CASE n # 1
    <2>1. n - 1 \in Nat \ {0} /\ (Total - p) % (n - 1) = 0
      BY <1>2, <1>7
    <2>2. w \in Nat /\ (n - 1) * w = Total - p
      <3> HIDE DEF n
      <3> QED
        BY <1>3, <2>1, DividesInto
    <2>3. \A r \in R : q[r] = IF r = 1 THEN p ELSE w
      BY <1>7 DEF CanonicalBias
    <2> HIDE DEF q, R, u, n, e, w, p
    <2>4. \A r \in R : d[r] = Abs((IF r = 1 THEN p ELSE w) - e)
      BY <1>4, <2>3
    <2> HIDE DEF d
    <2> DEFINE x == Abs(p - e)
               y == Abs(w - e)
    <2>5. 1 \in R /\ IsFiniteSet(R \ {1}) /\ x \in Nat /\ y \in Nat
      <3>1. p - e \in Int /\ w - e \in Int
        BY <1>2, <1>3, <2>2
      <3> QED
        BY <1>2, <3>1, FS_Subset, AbsFacts
    <2>6. d[1] = x /\ \A r \in R \ {1} : d[r] = y
      BY <2>4, <2>5
    <2> HIDE DEF x, y
    <2>7. Cardinality(R \ {1}) = n - 1
      <3>1. Cardinality(R) = n
        BY <1>2, FS_Interval
      <3>2. IsFiniteSet(R) /\ 1 \in R
        BY <1>2, <2>5
      <3>3. Cardinality(R \ {1}) = Cardinality(R) - 1
        BY ONLY <3>2, FS_RemoveElement
      <3> QED
        BY <3>1, <3>3
    <2>8. SumFunctionOnSet(d, R \ {1}) = y * (n - 1)
      BY <2>5, <2>6, <2>7, SumOfConstant
    <2>9. SumFunctionOnSet(d, R) = x + y * (n - 1)
      <3>1. \A r \in R : d[r] \in Int
        BY <2>5, <2>6
      <3>2. SumFunctionOnSet(d, R) = d[1] + SumFunctionOnSet(d, R \ {1})
        BY <1>2, <2>5, <3>1, SumStep
      <3> QED
        BY <2>6, <2>8, <3>2
    <2>10. y * (n - 1) = x
      <3>1. (n - 1) * (w - e) = e - p
        <4>1. (n - 1) * (w - e) = (n - 1) * w - (n - 1) * e /\ (n - 1) * e = n * e - e
          BY <1>2, <2>1, <2>2
        <4> QED
          BY <1>2, <1>3, <2>2, <4>1
      <3>2. CASE w >= e
        <4>1. y = w - e /\ e - p >= 0 /\ x = e - p
          <5>1. (n - 1) * (w - e) >= 0
            BY <1>2, <2>1, <2>2, <3>2
          <5>2. e - p >= 0 /\ w - e >= 0 /\ e - p \in Int /\ w - e \in Int
            BY <1>2, <1>3, <2>2, <3>1, <3>2, <5>1
          <5>3. Abs(p - e) = e - p
            BY <1>2, <1>3, <5>2 DEF Abs
          <5> QED
            BY <5>2, <5>3, AbsFacts DEF x, y
        <4>2. y * (n - 1) = (n - 1) * (w - e)
          BY <1>2, <2>1, <2>2, <4>1
        <4> QED
          BY <3>1, <4>1, <4>2
      <3>3. CASE w < e
        <4>1. y = e - w /\ x = p - e
          <5>1. (n - 1) * (e - w) >= 0
            BY <1>2, <2>1, <2>2, <3>3
          <5>2. (n - 1) * (e - w) = -((n - 1) * (w - e))
            BY <1>2, <2>1, <2>2
          <5>3. p - e >= 0 /\ p - e \in Int
            BY <1>2, <1>3, <3>1, <5>1, <5>2
          <5>4. Abs(w - e) = e - w
            BY <1>2, <2>2, <3>3 DEF Abs
          <5> QED
            BY <5>3, <5>4, AbsFacts DEF x, y
        <4>2. y * (n - 1) = -((n - 1) * (w - e))
          BY <1>2, <2>1, <2>2, <4>1
        <4> QED
          BY <1>2, <1>3, <3>1, <4>1, <4>2
      <3> QED
        BY <1>2, <2>2, <3>2, <3>3
    <2>11. SumFunctionOnSet(d, R) = 2 * x
      BY <2>5, <2>9, <2>10
    <2>12. ~(n <= 1)
      BY <1>2, <1>7
    <2>13. TwiceTVBudgetForCanonicalBias(p, n) = 2 * x
      BY <2>12 DEF TwiceTVBudgetForCanonicalBias, x, e
    <2> QED
      BY <1>5, <2>11, <2>13 DEF n, p
  <1> QED
    BY <1>6, <1>7

(* A certified sign is the sign of everything within the bound.            *)
LEMMA SignHolds ==
    ASSUME NEW F \in Int, NEW G \in Int, NEW M \in Int, F - G <= M, G - F <= M, CertifiedSign(G, M) # 0
    PROVE  Sign(F) = CertifiedSign(G, M)
  <1>1. Abs(G) > M /\ CertifiedSign(G, M) = Sign(G)
    BY DEF CertifiedSign
  <1>2. CASE G > 0
    <2>1. G > M /\ F > 0
      BY <1>1, <1>2 DEF Abs
    <2> QED
      BY <1>1, <1>2, <2>1 DEF Sign
  <1>3. CASE G < 0
    <2>1. -G > M /\ F < 0
      BY <1>1, <1>3 DEF Abs
    <2> QED
      BY <1>1, <1>3, <2>1 DEF Sign
  <1>4. CASE G = 0
    BY <1>1, <1>4 DEF Sign
  <1> QED
    BY <1>2, <1>3, <1>4

----------------------------------------------------------------------------
(* Convolution.  If m counts S and n counts R, Convolve(m, n) counts their *)
(* pairs.                                                                  *)

LEMMA CountedFacts ==
    ASSUME NEW S, IsFiniteSet(S), NEW w, \A x \in S : w[x] \in Nat, NEW k, NEW m, Counted(m, S, w, k)
    PROVE  /\ IsFiniteSet(DOMAIN m) /\ IsFiniteSet(Weighty(S, w))
           /\ \A d : SumFunctionOnSet(w, Fibre(Weighty(S, w), k, d)) \in Int
           /\ \A d : d \notin DOMAIN m => SumFunctionOnSet(w, Fibre(Weighty(S, w), k, d)) = 0
           /\ \A d \in DOMAIN m : m[d] \in Int
  <1> DEFINE P == Weighty(S, w)
             D == DOMAIN m
             keys == [x \in P |-> k[x]]
  <1>1. P \in SUBSET S /\ IsFiniteSet(P)
    BY FS_Subset DEF Weighty
  <1>2. \A d : d \in D <=> \E x \in P : k[x] = d
    BY DEF Counted
  <1> HIDE DEF P, D
  <1>3. keys \in Surjection(P, D)
    <2>1. keys \in [P -> D] /\ \A d \in D : \E x \in P : keys[x] = d
      BY <1>2
    <2> QED
      BY <2>1, Fun_IsSurj
  <1>4. IsFiniteSet(D)
    BY <1>1, <1>3, FS_Surjection
  <1>5. ASSUME NEW d
        PROVE  SumFunctionOnSet(w, Fibre(P, k, d)) \in Int
    <2> DEFINE R == Fibre(P, k, d)
    <2>1. R \in SUBSET S
      BY <1>1 DEF Fibre
    <2> HIDE DEF R
    <2>2. SumFunctionOnSet(w, R) \in Int
      BY <2>1, SumParts
    <2> QED
      BY <2>2 DEF R
  <1>6. ASSUME NEW d, d \notin D
        PROVE  SumFunctionOnSet(w, Fibre(P, k, d)) = 0
    <2>1. Fibre(P, k, d) = {}
      BY <1>2, <1>6 DEF Fibre
    <2> QED
      BY <2>1, SumEmpty
  <1>7. \A d \in D : m[d] \in Int
    BY <1>5 DEF Counted, P, D
  <1> QED
    BY <1>1, <1>4, <1>5, <1>6, <1>7 DEF P, D

(* What has the key s among the pairs, taken one R at a time.              *)
Paired(Pairs, S, w, k, R, q, d, s) ==
    \A p : p \in Pairs <=> \E x \in Weighty(S, w), r \in Weighty(R, q) : p = <<x, r>> /\ k[x] + d[r] = s
Matched(Pairs, S, w, k, R, q, d, s, g, h) ==
    /\ IsFiniteSet(S) /\ \A x \in S : w[x] \in Nat /\ k[x] \in Int
    /\ IsFiniteSet(R) /\ \A r \in R : q[r] \in Nat /\ d[r] \in Int
    /\ s \in Int
    /\ Paired(Pairs, S, w, k, R, q, d, s)
    /\ \A p \in Pairs : g[p] = w[p[1]] * q[p[2]]
    /\ \A r \in R : h[r] = SumFunctionOnSet(w, Fibre(Weighty(S, w), k, s - d[r])) * q[r]

LEMMA PairsCounted ==
    ASSUME NEW Pairs, NEW S, NEW w, NEW k, NEW R, NEW q, NEW d, NEW s, NEW g, NEW h,
           Matched(Pairs, S, w, k, R, q, d, s, g, h)
    PROVE  IsFiniteSet(Pairs) /\ SumFunctionOnSet(g, Pairs) = SumFunctionOnSet(h, R)
  <1> DEFINE A == Weighty(S, w)
             B == Weighty(R, q)
             second == [p \in Pairs |-> p[2]]
  <1>a. /\ IsFiniteSet(S) /\ IsFiniteSet(R) /\ s \in Int
        /\ (\A x \in S : w[x] \in Nat) /\ (\A x \in S : k[x] \in Int)
        /\ (\A r \in R : q[r] \in Nat) /\ (\A r \in R : d[r] \in Int)
        /\ \A p \in Pairs : g[p] = w[p[1]] * q[p[2]]
    BY DEF Matched
  <1>1. /\ A \subseteq S /\ IsFiniteSet(A) /\ \A x \in S : x \in A <=> w[x] > 0
        /\ B \subseteq R /\ IsFiniteSet(B) /\ \A r \in R : r \in B <=> q[r] > 0
    BY <1>a, FS_Subset DEF Weighty
  <1>2. \A p : p \in Pairs <=> \E x \in A, r \in B : p = <<x, r>> /\ k[x] + d[r] = s
    BY DEF Matched, Paired
  <1>3. \A r \in R : h[r] = SumFunctionOnSet(w, Fibre(A, k, s - d[r])) * q[r]
    BY DEF Matched
  <1> HIDE DEF A, B
  <1>4. IsFiniteSet(Pairs)
    <2>1. IsFiniteSet(A \X B) /\ Pairs \subseteq A \X B
      BY <1>1, <1>2, FS_Product
    <2> QED
      BY <2>1, FS_Subset
  <1>5. ASSUME NEW p \in Pairs
        PROVE  g[p] \in Int /\ second[p] \in R
    <2>1. PICK x \in A, r \in B : p = <<x, r>>
      BY <1>2
    <2>2. w[x] \in Nat /\ q[r] \in Nat /\ g[p] = w[x] * q[r] /\ second[p] = r
      BY <1>a, <1>1, <2>1
    <2> QED
      BY <1>1, <2>2
  <1>6. ASSUME NEW r \in R
        PROVE  h[r] = SumFunctionOnSet(g, Fibre(Pairs, second, r))
    <2> DEFINE Q == Fibre(Pairs, second, r)
               F == Fibre(A, k, s - d[r])
               mass == SumFunctionOnSet(w, F)
    <2>1. F \subseteq A /\ \A x : x \in F <=> x \in A /\ k[x] = s - d[r]
      BY DEF Fibre
    <2>2. mass \in Int /\ IsFiniteSet(F) /\ \A x \in F : w[x] \in Int
      <3>1. F \in SUBSET S
        BY <1>1, <2>1
      <3> HIDE DEF F
      <3>2. mass \in Int /\ IsFiniteSet(F)
        BY <1>a, <3>1, SumParts
      <3> QED
        BY <1>a, <1>1, <2>1, <3>1, <3>2
    <2>3. h[r] = mass * q[r] /\ q[r] \in Nat
      BY <1>a, <1>3
    <2>4. \A p : p \in Q <=> p \in Pairs /\ p[2] = r
      BY DEF Fibre
    <2> HIDE DEF Q, F
    <2>5. CASE q[r] = 0
      <3>1. r \notin B
        BY <1>1, <2>5
      <3>2. Q = {}
        BY <1>2, <2>4, <3>1
      <3>3. SumFunctionOnSet(g, Q) = 0
        BY <3>2, SumEmpty
      <3>4. mass * q[r] = 0
        <4> HIDE DEF mass
        <4> QED
          BY <2>2, <2>5
      <3> QED
        BY <2>3, <3>3, <3>4 DEF Q
    <2>6. CASE q[r] # 0
      <3> DEFINE to == [x \in F |-> <<x, r>>]
                 part == [x \in F |-> w[x] * q[r]]
      <3>1. r \in B
        BY <1>1, <2>3, <2>6
      <3>2. ASSUME NEW p
            PROVE  p \in Q <=> \E x \in F : p = <<x, r>>
        <4>1. ASSUME p \in Q
              PROVE  \E x \in F : p = <<x, r>>
          <5>1. PICK x \in A, y \in B : p = <<x, y>> /\ k[x] + d[y] = s
            BY <1>2, <2>4, <4>1
          <5>2. y = r /\ k[x] \in Int /\ d[r] \in Int
            BY <1>a, <1>1, <2>4, <4>1, <5>1
          <5>3. k[x] = s - d[r]
            BY <1>a, <5>1, <5>2
          <5> QED
            BY <2>1, <5>1, <5>2, <5>3
        <4>2. ASSUME NEW x \in F, p = <<x, r>>
              PROVE  p \in Q
          <5>1. x \in A /\ k[x] = s - d[r] /\ d[r] \in Int
            BY <1>a, <2>1
          <5>2. k[x] + d[r] = s
            BY <1>a, <1>1, <5>1
          <5> QED
            BY <1>2, <2>4, <3>1, <4>2, <5>1, <5>2
        <4> QED
          BY <4>1, <4>2
      <3>3. /\ \A x \in F : to[x] \in Q
            /\ \A x, y \in F : to[x] = to[y] => x = y
            /\ \A p \in Q : \E x \in F : to[x] = p
        BY <3>2
      <3>4. IsFiniteSet(Q) /\ \A p \in Q : g[p] \in Int
        <4>1. Q \subseteq Pairs
          BY <2>4
        <4> QED
          BY <1>4, <1>5, <4>1, FS_Subset
      <3>5. \A x \in F : part[x] = g[to[x]]
        <4> SUFFICES ASSUME NEW x \in F
                     PROVE  w[x] * q[r] = g[<<x, r>>]
          OBVIOUS
        <4>1. <<x, r>> \in Pairs
          BY <2>4, <3>2
        <4> QED
          BY <1>a, <4>1
      <3>6. \A x \in F : part[x] = q[r] * w[x]
        <4>1. \A x \in F : w[x] * q[r] = q[r] * w[x]
          BY <2>2, <2>3
        <4> QED
          BY <4>1
      <3> HIDE DEF to, part
      <3>7. SumFunctionOnSet(part, F) = SumFunctionOnSet(g, Q)
        BY <2>2, <3>3, <3>4, <3>5, SumAlong
      <3>8. SumFunctionOnSet(part, F) = q[r] * mass
        <4>1. q[r] \in Int
          BY <2>3
        <4> QED
          BY <2>2, <3>6, <4>1, SumScales
      <3>9. q[r] * mass = mass * q[r]
        <4> HIDE DEF mass
        <4> QED
          BY <2>2, <2>3
      <3> QED
        BY <2>3, <3>7, <3>8, <3>9 DEF Q
    <2> QED
      BY <2>5, <2>6
  <1> HIDE DEF second
  <1>7. SumFunctionOnSet(g, Pairs) = SumFunctionOnSet(h, R)
    <2>1. \A p \in Pairs : g[p] \in Int /\ second[p] \in R
      BY <1>5
    <2> QED
      BY <1>a, <1>4, <1>6, <2>1, SumByKey
  <1> QED
    BY <1>4, <1>7

(* join names the pairs: V has one element for each of them.               *)
Joins(join, S, R, V) ==
    /\ \A x \in S, r \in R : join[<<x, r>>] \in V
    /\ \A x, y \in S : \A r, t \in R : join[<<x, r>>] = join[<<y, t>>] => x = y /\ r = t
    /\ \A v \in V : \E x \in S, r \in R : join[<<x, r>>] = v

(* W and L are the weight and the score of a pair.                         *)
Combined(m, S, w, k, n, R, q, d, join, V, W, L) ==
    /\ IsFiniteSet(S) /\ \A x \in S : w[x] \in Nat /\ k[x] \in Int
    /\ IsFiniteSet(R) /\ \A r \in R : q[r] \in Nat /\ d[r] \in Int
    /\ Counted(m, S, w, k) /\ Counted(n, R, q, d)
    /\ IsFiniteSet(V) /\ Joins(join, S, R, V)
    /\ \A x \in S : \A r \in R : W[join[<<x, r>>]] = w[x] * q[r] /\ L[join[<<x, r>>]] = k[x] + d[r]

LEMMA ConvolutionCounts ==
    ASSUME NEW m, NEW S, NEW w, NEW k, NEW n, NEW R, NEW q, NEW d, NEW join, NEW V, NEW W, NEW L,
           Combined(m, S, w, k, n, R, q, d, join, V, W, L)
    PROVE  Counted(Convolve(m, n), V, W, L)
  <1>a. /\ IsFiniteSet(S) /\ (\A x \in S : w[x] \in Nat) /\ (\A x \in S : k[x] \in Int)
        /\ IsFiniteSet(R) /\ (\A r \in R : q[r] \in Nat) /\ (\A r \in R : d[r] \in Int)
        /\ Counted(m, S, w, k) /\ Counted(n, R, q, d)
        /\ IsFiniteSet(V) /\ Joins(join, S, R, V)
        /\ \A x \in S : \A r \in R : W[join[<<x, r>>]] = w[x] * q[r]
        /\ \A x \in S : \A r \in R : L[join[<<x, r>>]] = k[x] + d[r]
    BY DEF Combined
  <1> USE <1>a
  <1> DEFINE A == Weighty(S, w)
             B == Weighty(R, q)
             H == Weighty(V, W)
             c == Convolve(m, n)
             mass(t) == SumFunctionOnSet(w, Fibre(A, k, t))
  <1>1. /\ A \subseteq S /\ \A x \in S : x \in A <=> w[x] > 0
        /\ B \subseteq R /\ \A r \in R : r \in B <=> q[r] > 0
        /\ H \subseteq V /\ \A v \in V : v \in H <=> W[v] > 0
    BY DEF Weighty
  <1>2. /\ \A t : t \in DOMAIN m <=> \E x \in A : k[x] = t
        /\ \A t \in DOMAIN m : m[t] = mass(t)
        /\ \A t : t \in DOMAIN n <=> \E r \in B : d[r] = t
        /\ \A t \in DOMAIN n : n[t] = SumFunctionOnSet(q, Fibre(B, d, t))
    BY DEF Counted
  <1>3. /\ \A t : mass(t) \in Int
        /\ \A t : t \notin DOMAIN m => mass(t) = 0
        /\ IsFiniteSet(DOMAIN n) /\ \A t \in DOMAIN n : n[t] \in Int
    BY CountedFacts
  <1>4. \A x \in S : \A r \in R : join[<<x, r>>] \in H <=> x \in A /\ r \in B
    <2> HIDE DEF A, B, H
    <2> SUFFICES ASSUME NEW x \in S, NEW r \in R
                 PROVE  join[<<x, r>>] \in H <=> x \in A /\ r \in B
      OBVIOUS
    <2>1. w[x] \in Nat /\ q[r] \in Nat
      OBVIOUS
    <2>2. ASSUME NEW a \in Nat, NEW b \in Nat
          PROVE  a * b > 0 <=> a > 0 /\ b > 0
      OBVIOUS
    <2>3. w[x] * q[r] > 0 <=> w[x] > 0 /\ q[r] > 0
      BY <2>1, <2>2
    <2>4. join[<<x, r>>] \in V /\ W[join[<<x, r>>]] = w[x] * q[r]
      BY DEF Joins
    <2>5. join[<<x, r>>] \in H <=> w[x] * q[r] > 0
      BY <1>1, <2>4
    <2>6. (x \in A <=> w[x] > 0) /\ (r \in B <=> q[r] > 0)
      BY <1>1
    <2> QED
      BY <2>3, <2>5, <2>6
  <1>5. DOMAIN c = {x + e : x \in DOMAIN m, e \in DOMAIN n}
    BY DEF Convolve
  <1> HIDE DEF c
  <1>6. \A t : t \in DOMAIN c <=> \E x \in DOMAIN m, e \in DOMAIN n : t = x + e
    BY <1>5
  <1>7. ASSUME NEW t
        PROVE  t \in DOMAIN c <=> \E v \in H : L[v] = t
    <2> HIDE DEF A, B, H, mass
    <2>1. ASSUME t \in DOMAIN c
          PROVE  \E v \in H : L[v] = t
      <3>1. PICK a \in DOMAIN m, e \in DOMAIN n : t = a + e
        BY <1>6, <2>1
      <3>2. PICK x \in A : k[x] = a
        BY <1>2
      <3>3. PICK r \in B : d[r] = e
        BY <1>2
      <3>4. x \in S /\ r \in R
        BY <1>1
      <3>5. join[<<x, r>>] \in H /\ L[join[<<x, r>>]] = t
        BY <1>4, <3>1, <3>2, <3>3, <3>4
      <3> QED
        BY <3>5
    <2>2. ASSUME NEW v \in H, L[v] = t
          PROVE  t \in DOMAIN c
      <3>1. PICK x \in S, r \in R : join[<<x, r>>] = v
        BY <1>1 DEF Joins
      <3>2. x \in A /\ r \in B /\ t = k[x] + d[r]
        BY <1>4, <2>2, <3>1
      <3>3. k[x] \in DOMAIN m /\ d[r] \in DOMAIN n
        BY <1>2, <3>2
      <3> QED
        BY <1>6, <3>2, <3>3
    <2> QED
      BY <2>1, <2>2
  <1>8. ASSUME NEW s \in DOMAIN c
        PROVE  c[s] = SumFunctionOnSet(W, Fibre(H, L, s))
    <2> DEFINE E == {e \in DOMAIN n : s - e \in DOMAIN m}
               f == [e \in E |-> m[s - e] * n[e]]
               value == [t \in Int |-> mass(s - t)]
               j == [e \in DOMAIN n |-> value[e] * n[e]]
               h == [r \in R |-> mass(s - d[r]) * q[r]]
               F == Fibre(H, L, s)
               Pairs == {p \in A \X B : k[p[1]] + d[p[2]] = s}
               g == [p \in Pairs |-> w[p[1]] * q[p[2]]]
    <2>1. s \in Int /\ \A e \in DOMAIN n : e \in Int
      <3> HIDE DEF A, B, mass
      <3>1. (\A a \in DOMAIN m : a \in Int) /\ (\A e \in DOMAIN n : e \in Int)
        BY <1>1, <1>2
      <3>2. PICK a \in DOMAIN m, e \in DOMAIN n : s = a + e
        BY <1>6
      <3> QED
        BY <3>1, <3>2
    <2>2. c[s] = SumFunctionOnSet(f, E)
      <3>1. s \in {x + e : x \in DOMAIN m, e \in DOMAIN n}
        BY <1>5
      <3>2. c[s] = SumFunction(f)
        BY <3>1 DEF Convolve, c
      <3>3. DOMAIN f = E
        OBVIOUS
      <3> HIDE DEF f, E
      <3> QED
        BY <3>2, <3>3 DEF SumFunction
    <2>3. \A t \in Int : value[t] = mass(s - t) /\ value[t] \in Int
      BY <1>3
    <2>4. \A e \in DOMAIN n : j[e] = value[e] * n[e]
      OBVIOUS
    <2>5. SumFunctionOnSet(f, E) = SumFunctionOnSet(j, DOMAIN n)
      <3>1. \A e \in E : f[e] = m[s - e] * n[e] /\ s - e \in DOMAIN m /\ e \in DOMAIN n
        OBVIOUS
      <3>2. E \subseteq DOMAIN n /\ \A e \in DOMAIN n \ E : s - e \notin DOMAIN m
        OBVIOUS
      <3> HIDE DEF f, E, value, j, mass
      <3>3. \A e \in E : f[e] \in Int /\ j[e] = f[e]
        <4> SUFFICES ASSUME NEW e \in E
                     PROVE  f[e] \in Int /\ j[e] = f[e]
          OBVIOUS
        <4>1. m[s - e] = mass(s - e) /\ value[e] = mass(s - e) /\ e \in DOMAIN n
          BY <1>2, <2>1, <2>3, <3>1
        <4>2. mass(s - e) \in Int /\ n[e] \in Int
          BY <1>3, <4>1
        <4>3. j[e] = mass(s - e) * n[e] /\ f[e] = mass(s - e) * n[e]
          BY <2>4, <3>1, <4>1
        <4> QED
          BY <4>2, <4>3
      <3>4. \A e \in DOMAIN n \ E : j[e] = 0
        <4> SUFFICES ASSUME NEW e \in DOMAIN n \ E
                     PROVE  j[e] = 0
          OBVIOUS
        <4>1. value[e] = 0
          BY <1>3, <2>1, <2>3, <3>2
        <4>2. n[e] \in Int /\ j[e] = value[e] * n[e]
          BY <1>3, <2>4
        <4> QED
          BY <4>1, <4>2
      <3> QED
        BY <1>3, <3>2, <3>3, <3>4, SumOverPart
    <2>6. SumFunctionOnSet(j, DOMAIN n) = SumFunctionOnSet(h, R)
      <3>1. \A r \in R : h[r] = mass(s - d[r]) * q[r]
        OBVIOUS
      <3> HIDE DEF f, E, value, j, h, mass, A, B
      <3>2. Charged(R, q, d, n, value, h, j)
        BY <2>3, <2>4, <3>1 DEF Charged
      <3> QED
        BY <3>2, SumOverCounts
    <2>7. IsFiniteSet(Pairs) /\ SumFunctionOnSet(g, Pairs) = SumFunctionOnSet(h, R)
      <3>1. Paired(Pairs, S, w, k, R, q, d, s)
        BY DEF Paired
      <3>2. /\ \A p \in Pairs : g[p] = w[p[1]] * q[p[2]]
            /\ \A r \in R : h[r] = SumFunctionOnSet(w, Fibre(Weighty(S, w), k, s - d[r])) * q[r]
        OBVIOUS
      <3> HIDE DEF f, E, value, j, h, g, Pairs, mass, A, B
      <3>3. Matched(Pairs, S, w, k, R, q, d, s, g, h)
        BY <2>1, <3>1, <3>2 DEF Matched
      <3> QED
        BY <3>3, PairsCounted
    <2>8. SumFunctionOnSet(g, Pairs) = SumFunctionOnSet(W, F)
      <3>1. \A p : p \in Pairs <=> p \in A \X B /\ k[p[1]] + d[p[2]] = s
        OBVIOUS
      <3>2. \A v : v \in F <=> v \in H /\ L[v] = s
        BY DEF Fibre
      <3>3. \A p \in Pairs : g[p] = w[p[1]] * q[p[2]]
        OBVIOUS
      <3> HIDE DEF f, E, value, j, h, g, Pairs, mass, A, B, H, F
      <3>4. \A p \in Pairs : \E x \in S, r \in R : p = <<x, r>> /\ x \in A /\ r \in B /\ k[x] + d[r] = s
        BY <1>1, <3>1
      <3>5. ASSUME NEW p \in Pairs
            PROVE  join[p] \in F /\ g[p] = W[join[p]]
        <4>1. PICK x \in S, r \in R : p = <<x, r>> /\ x \in A /\ r \in B /\ k[x] + d[r] = s
          BY <3>4
        <4>2. join[<<x, r>>] \in H /\ L[join[<<x, r>>]] = s
          BY <1>4, <4>1
        <4>3. g[p] = w[x] * q[r] /\ W[join[<<x, r>>]] = w[x] * q[r]
          BY <3>3, <4>1
        <4> QED
          BY <3>2, <4>1, <4>2, <4>3
      <3>6. \A p, o \in Pairs : join[p] = join[o] => p = o
        BY <3>4 DEF Joins
      <3>7. ASSUME NEW v \in F
            PROVE  \E p \in Pairs : join[p] = v
        <4>1. v \in H /\ L[v] = s
          BY <3>2
        <4>2. PICK x \in S, r \in R : join[<<x, r>>] = v
          BY <1>1, <4>1 DEF Joins
        <4>3. x \in A /\ r \in B /\ k[x] + d[r] = s
          BY <1>4, <4>1, <4>2
        <4>4. <<x, r>> \in Pairs
          BY <3>1, <4>3
        <4> QED
          BY <4>2, <4>4
      <3>8. IsFiniteSet(F) /\ \A v \in F : W[v] \in Int
        <4>1. F \subseteq V
          BY <1>1, <3>2
        <4>2. ASSUME NEW v \in V
              PROVE  W[v] \in Int
          <5>1. PICK x \in S, r \in R : join[<<x, r>>] = v
            BY DEF Joins
          <5>2. W[v] = w[x] * q[r] /\ w[x] \in Nat /\ q[r] \in Nat
            BY <5>1
          <5> QED
            BY <5>2
        <4> QED
          BY <4>1, <4>2, FS_Subset
      <3> QED
        BY <2>7, <3>5, <3>6, <3>7, <3>8, SumAlong
    <2> QED
      BY <2>2, <2>5, <2>6, <2>7, <2>8
  <1> QED
    BY <1>7, <1>8 DEF Counted, c, H
----------------------------------------------------------------------------
(* Vectors of references, and how one more task extends them.              *)

IsProduct(f, a, m) == f = [n \in 0 .. m |-> IF n = 0 THEN 1 ELSE f[n - 1] * a[n]]

LEMMA ProductExists ==
    ASSUME NEW a, NEW m \in Nat
    PROVE  \E f : IsProduct(f, a, m)
  <1> DEFINE T == {n \in Nat : \E f : IsProduct(f, a, n)}
  <1>1. 0 \in T
    <2> DEFINE f == [n \in 0 .. 0 |-> 1]
    <2>1. f = [n \in 0 .. 0 |-> IF n = 0 THEN 1 ELSE f[n - 1] * a[n]]
      OBVIOUS
    <2> HIDE DEF f
    <2>2. IsProduct(f, a, 0)
      BY <2>1 DEF IsProduct
    <2> QED
      BY <2>2
  <1>2. ASSUME NEW n \in Nat, n \in T
        PROVE  n + 1 \in T
    <2>1. PICK f : IsProduct(f, a, n)
      BY <1>2
    <2>2. DOMAIN f = 0 .. n /\ \A i \in 0 .. n : f[i] = IF i = 0 THEN 1 ELSE f[i - 1] * a[i]
      BY <2>1 DEF IsProduct
    <2> DEFINE g == [i \in 0 .. n + 1 |-> IF i = n + 1 THEN f[n] * a[n + 1] ELSE f[i]]
    <2>3. ASSUME NEW i \in 0 .. n + 1
          PROVE  g[i] = IF i = 0 THEN 1 ELSE g[i - 1] * a[i]
      <3>1. CASE i = n + 1
        <4>1. g[i] = f[n] * a[n + 1] /\ i # 0 /\ i - 1 = n /\ n \in 0 .. n + 1 /\ n # n + 1
          BY <3>1
        <4>2. g[n] = f[n]
          BY <4>1
        <4> HIDE DEF g
        <4> QED
          BY <3>1, <4>1, <4>2
      <3>2. CASE i # n + 1
        <4>1. i \in 0 .. n /\ g[i] = f[i]
          BY <3>2
        <4>2. i # 0 => g[i - 1] = f[i - 1]
          BY <4>1
        <4> HIDE DEF g
        <4> QED
          BY <2>2, <4>1, <4>2
      <3> QED
        BY <3>1, <3>2
    <2>4. g = [i \in 0 .. n + 1 |-> g[i]]
      OBVIOUS
    <2> HIDE DEF g
    <2>5. IsProduct(g, a, n + 1)
      BY <2>3, <2>4 DEF IsProduct
    <2> QED
      BY <2>5
  <1> HIDE DEF T
  <1>3. m \in T
    BY <1>1, <1>2, Induction
  <1> QED
    BY <1>3 DEF T

(* The longer product starts with the factors of the shorter.              *)
Continues(g, b, n, f, a, m) ==
    /\ m \in Nat /\ n \in Nat /\ m <= n /\ \A i \in 1 .. m : a[i] = b[i]
    /\ IsProduct(f, a, m) /\ IsProduct(g, b, n)

LEMMA ProductsAgree ==
    ASSUME NEW g, NEW b, NEW n, NEW f, NEW a, NEW m, Continues(g, b, n, f, a, m)
    PROVE  f[m] = g[m]
  <1> DEFINE T == {i \in Nat : i <= m => f[i] = g[i]}
  <1>a. /\ m \in Nat /\ n \in Nat /\ m <= n /\ \A i \in 1 .. m : a[i] = b[i]
        /\ IsProduct(f, a, m) /\ IsProduct(g, b, n)
    BY DEF Continues
  <1>1. /\ \A i \in 0 .. m : f[i] = IF i = 0 THEN 1 ELSE f[i - 1] * a[i]
        /\ \A i \in 0 .. n : g[i] = IF i = 0 THEN 1 ELSE g[i - 1] * b[i]
    BY <1>a DEF IsProduct
  <1>2. 0 \in T
    BY <1>a, <1>1
  <1>3. ASSUME NEW i \in Nat, i \in T
        PROVE  i + 1 \in T
    <2> SUFFICES ASSUME i + 1 <= m
                 PROVE  f[i + 1] = g[i + 1]
      OBVIOUS
    <2>1. f[i] = g[i] /\ i + 1 \in 0 .. m /\ i + 1 \in 0 .. n /\ i + 1 # 0 /\ (i + 1) - 1 = i
      BY <1>a, <1>3
    <2>2. a[i + 1] = b[i + 1]
      BY <1>a, <2>1
    <2>3. f[i + 1] = f[i] * a[i + 1] /\ g[i + 1] = g[i] * b[i + 1]
      BY <1>1, <2>1
    <2> QED
      BY <2>1, <2>2, <2>3
  <1> HIDE DEF T
  <1>4. m \in T
    BY <1>a, <1>2, <1>3, Induction
  <1> QED
    BY <1>a, <1>4 DEF T

Factors(tasks, choice, v) == [n \in Nat |-> Weights(tasks[n], choice)[v[n]]]

LEMMA VectorWeighs ==
    ASSUME NEW tasks, Len(tasks) \in Nat, NEW choice, NEW v
    PROVE  \E f : IsProduct(f, Factors(tasks, choice, v), Len(tasks)) /\ VectorWeight(tasks, choice, v) = f[Len(tasks)]
  <1> DEFINE m == Len(tasks)
             a == Factors(tasks, choice, v)
             Weighs(f) == f = [n \in 0 .. m |-> IF n = 0 THEN 1 ELSE f[n - 1] * Weights(tasks[n], choice)[v[n]]]
             first == CHOOSE f : Weighs(f)
  <1>1. ASSUME NEW f
        PROVE  IsProduct(f, a, m) <=> Weighs(f)
    <2>1. \A n \in 0 .. m : a[n] = Weights(tasks[n], choice)[v[n]]
      BY DEF Factors
    <2> HIDE DEF a
    <2>2. [n \in 0 .. m |-> IF n = 0 THEN 1 ELSE f[n - 1] * a[n]]
          = [n \in 0 .. m |-> IF n = 0 THEN 1 ELSE f[n - 1] * Weights(tasks[n], choice)[v[n]]]
      BY <2>1
    <2> QED
      BY <2>2 DEF IsProduct
  <1>2. VectorWeight(tasks, choice, v) = first[m]
    BY DEF VectorWeight
  <1> HIDE DEF a, Weighs
  <1>3. \E f : Weighs(f)
    BY <1>1, ProductExists DEF m
  <1>4. Weighs(first)
    BY <1>3
  <1> HIDE DEF first
  <1> QED
    BY <1>1, <1>2, <1>4 DEF a

LEMMA VectorWeightGrows ==
    ASSUME NEW tasks \in Seq(StudiedTasks), NEW task \in StudiedTasks, NEW choice, NEW v, NEW r,
           NEW e, \A i \in 1 .. Len(tasks) : e[i] = v[i], e[Len(tasks) + 1] = r
    PROVE  VectorWeight(Append(tasks, task), choice, e) = VectorWeight(tasks, choice, v) * Weights(task, choice)[r]
  <1> DEFINE m == Len(tasks)
             more == Append(tasks, task)
             a == Factors(tasks, choice, v)
             b == Factors(more, choice, e)
  <1>1. m \in Nat /\ Len(more) = m + 1 /\ more[m + 1] = task /\ \A i \in 1 .. m : more[i] = tasks[i]
    BY LenProperties, AppendProperties
  <1> HIDE DEF more, m
  <1>2. \A i \in 1 .. m : a[i] = b[i]
    BY <1>1 DEF Factors, m
  <1>3. b[m + 1] = Weights(task, choice)[r]
    BY <1>1 DEF Factors, m
  <1> HIDE DEF a, b
  <1>4. PICK f : IsProduct(f, a, m) /\ VectorWeight(tasks, choice, v) = f[m]
    BY <1>1, VectorWeighs DEF a, m
  <1>5. PICK g : IsProduct(g, b, m + 1) /\ VectorWeight(more, choice, e) = g[m + 1]
    BY <1>1, VectorWeighs DEF b
  <1>6. f[m] = g[m]
    <2> DEFINE n == m + 1
    <2>1. m \in Nat /\ n \in Nat /\ m <= n
      BY <1>1
    <2>2. Continues(g, b, n, f, a, m)
      BY <1>2, <1>4, <1>5, <2>1 DEF Continues
    <2> HIDE DEF n
    <2> QED
      BY <2>2, ProductsAgree
  <1>7. m + 1 \in 0 .. m + 1 /\ m + 1 # 0 /\ (m + 1) - 1 = m
    BY <1>1
  <1>8. g[m + 1] = g[m] * b[m + 1]
    BY <1>5, <1>7 DEF IsProduct
  <1> QED
    BY <1>3, <1>4, <1>5, <1>6, <1>8 DEF more, m

LEMMA VectorFacts ==
    ASSUME NEW tasks \in Seq(StudiedTasks), NEW v
    PROVE  v \in Vectors(tasks) <=> /\ v = [i \in 1 .. Len(tasks) |-> v[i]]
                                    /\ \A i \in 1 .. Len(tasks) : v[i] \in References(tasks[i])
  <1> DEFINE U == UNION {References(tasks[i]) : i \in DOMAIN tasks}
  <1>1. DOMAIN tasks = 1 .. Len(tasks)
    BY LenProperties
  <1>2. \A i \in DOMAIN tasks : \A r \in References(tasks[i]) : r \in U
    OBVIOUS
  <1>3. v \in Vectors(tasks) <=> v \in [DOMAIN tasks -> U] /\ \A i \in DOMAIN tasks : v[i] \in References(tasks[i])
    BY DEF Vectors
  <1> HIDE DEF U
  <1> QED
    BY <1>1, <1>2, <1>3
(* The vectors of one more task are the pairs of a vector and a reference. *)
Extended(tasks, task) ==
    [p \in Vectors(tasks) \X References(task) |->
        [i \in 1 .. Len(tasks) + 1 |-> IF i = Len(tasks) + 1 THEN p[2] ELSE p[1][i]]]

LEMMA ExtendedFacts ==
    ASSUME NEW tasks \in Seq(StudiedTasks), NEW task \in StudiedTasks
    PROVE  Joins(Extended(tasks, task), Vectors(tasks), References(task), Vectors(Append(tasks, task)))
  <1> DEFINE m == Len(tasks)
             more == Append(tasks, task)
             join == Extended(tasks, task)
             S == Vectors(tasks)
             R == References(task)
             V == Vectors(more)
  <1>1. /\ m \in Nat /\ Len(more) = m + 1 /\ more \in Seq(StudiedTasks)
        /\ more[m + 1] = task /\ \A i \in 1 .. m : more[i] = tasks[i]
    BY LenProperties, AppendProperties
  <1>2. ASSUME NEW v
        PROVE  v \in S <=> v = [i \in 1 .. m |-> v[i]] /\ \A i \in 1 .. m : v[i] \in References(tasks[i])
    BY VectorFacts
  <1> HIDE DEF more, m, S
  <1>3. ASSUME NEW v
        PROVE  v \in V <=> v = [i \in 1 .. m + 1 |-> v[i]] /\ \A i \in 1 .. m + 1 : v[i] \in References(more[i])
    <2>1. v \in V <=> v = [i \in 1 .. Len(more) |-> v[i]] /\ \A i \in 1 .. Len(more) : v[i] \in References(more[i])
      BY <1>1, VectorFacts
    <2> HIDE DEF V
    <2> QED
      BY <1>1, <2>1
  <1> HIDE DEF V
  <1>4. ASSUME NEW v \in S, NEW r \in R
        PROVE  join[<<v, r>>] = [i \in 1 .. m + 1 |-> IF i = m + 1 THEN r ELSE v[i]]
    BY DEF Extended, S, m
  <1> HIDE DEF join
  <1>5. ASSUME NEW v \in S, NEW r \in R
        PROVE  /\ join[<<v, r>>][m + 1] = r
               /\ \A i \in 1 .. m : join[<<v, r>>][i] = v[i]
    <2> DEFINE e == join[<<v, r>>]
    <2>1. e = [i \in 1 .. m + 1 |-> IF i = m + 1 THEN r ELSE v[i]]
      BY <1>4
    <2> HIDE DEF e
    <2>2. e[m + 1] = r /\ \A i \in 1 .. m : e[i] = v[i]
      BY <1>1, <2>1
    <2> QED
      BY <2>2 DEF e
  <1>6. ASSUME NEW v \in S, NEW r \in R
        PROVE  join[<<v, r>>] \in V
    <2> DEFINE e == join[<<v, r>>]
    <2>1. e = [i \in 1 .. m + 1 |-> e[i]]
      BY <1>4
    <2>2. ASSUME NEW i \in 1 .. m + 1
          PROVE  e[i] \in References(more[i])
      <3>1. CASE i = m + 1
        BY <1>1, <1>5, <3>1
      <3>2. CASE i # m + 1
        <4>1. i \in 1 .. m
          BY <1>1, <3>2
        <4>2. e[i] = v[i] /\ v[i] \in References(tasks[i]) /\ more[i] = tasks[i]
          BY <1>1, <1>2, <1>5, <4>1
        <4> QED
          BY <4>2
      <3> QED
        BY <3>1, <3>2
    <2> HIDE DEF e
    <2>3. e \in V
      BY <1>3, <2>1, <2>2
    <2> QED
      BY <2>3 DEF e
  <1>7. ASSUME NEW x \in S, NEW y \in S, NEW r \in R, NEW t \in R, join[<<x, r>>] = join[<<y, t>>]
        PROVE  x = y /\ r = t
    <2>1. r = t
      BY <1>5, <1>7
    <2>2. \A i \in 1 .. m : x[i] = y[i]
      BY <1>5, <1>7
    <2>3. x = [i \in 1 .. m |-> x[i]] /\ y = [i \in 1 .. m |-> y[i]]
      BY <1>2
    <2> QED
      BY <2>1, <2>2, <2>3
  <1>8. ASSUME NEW e \in V
        PROVE  \E x \in S, r \in R : join[<<x, r>>] = e
    <2> DEFINE x == [i \in 1 .. m |-> e[i]]
               r == e[m + 1]
    <2>1. e = [i \in 1 .. m + 1 |-> e[i]] /\ \A i \in 1 .. m + 1 : e[i] \in References(more[i])
      BY <1>3
    <2>2. /\ 1 .. m \subseteq 1 .. m + 1 /\ m + 1 \in 1 .. m + 1
          /\ \A i \in 1 .. m + 1 : i # m + 1 => i \in 1 .. m
      BY <1>1
    <2>3. r \in R
      BY <1>1, <2>1, <2>2
    <2>4. \A i \in 1 .. m : x[i] = e[i]
      OBVIOUS
    <2>5. x \in S
      <3>1. x = [i \in 1 .. m |-> x[i]]
        OBVIOUS
      <3>2. \A i \in 1 .. m : x[i] \in References(tasks[i])
        BY <1>1, <2>1, <2>2, <2>4
      <3> HIDE DEF x
      <3> QED
        BY <1>2, <3>1, <3>2
    <2> HIDE DEF x, R
    <2>6. join[<<x, r>>] = [i \in 1 .. m + 1 |-> IF i = m + 1 THEN r ELSE x[i]]
      BY <1>4, <2>3, <2>5
    <2>7. \A i \in 1 .. m + 1 : e[i] = IF i = m + 1 THEN r ELSE x[i]
      BY <2>2, <2>4
    <2>8. join[<<x, r>>] = e
      BY <2>1, <2>6, <2>7
    <2> QED
      BY <2>3, <2>5, <2>8
  <1>9. Joins(join, S, R, V)
    BY <1>6, <1>7, <1>8 DEF Joins
  <1> QED
    BY <1>9 DEF join, S, R, V, more

(* What a vector of one more task weighs and scores.                       *)
LEMMA ExtendedWeighs ==
    ASSUME NEW tasks \in Seq(StudiedTasks), NEW task \in StudiedTasks, NEW choice,
           NEW v \in Vectors(tasks), NEW r \in References(task)
    PROVE  LET e == Extended(tasks, task)[<<v, r>>]
               more == Append(tasks, task)
           IN  /\ VectorWeight(more, choice, e) = VectorWeight(tasks, choice, v) * Weights(task, choice)[r]
               /\ MarginOf(tasks, v) \in Int /\ MarginOf(more, e) = MarginOf(tasks, v) + Diff(task, r)
  <1> DEFINE m == Len(tasks)
             e == Extended(tasks, task)[<<v, r>>]
             more == Append(tasks, task)
             S == DOMAIN tasks
             U == DOMAIN more
             f == [i \in S |-> Diff(tasks[i], v[i])]
             g == [i \in U |-> Diff(more[i], e[i])]
  <1>1. /\ m \in Nat /\ Len(more) = m + 1 /\ more \in Seq(StudiedTasks)
        /\ S = 1 .. m /\ U = 1 .. m + 1 /\ \A i \in S : tasks[i] \in StudiedTasks
        /\ more[m + 1] = task /\ \A i \in 1 .. m : more[i] = tasks[i]
    BY LenProperties, AppendProperties, ElementOfSeq
  <1>2. e = [i \in 1 .. m + 1 |-> IF i = m + 1 THEN r ELSE v[i]]
    BY DEF Extended
  <1> HIDE DEF e
  <1>3. e[m + 1] = r /\ \A i \in 1 .. m : e[i] = v[i]
    BY <1>1, <1>2
  <1>4. VectorWeight(more, choice, e) = VectorWeight(tasks, choice, v) * Weights(task, choice)[r]
    BY <1>3, VectorWeightGrows
  <1>5. MarginOf(tasks, v) = SumFunctionOnSet(f, S) /\ MarginOf(more, e) = SumFunctionOnSet(g, U)
    <2>1. DOMAIN f = S /\ DOMAIN g = U
      OBVIOUS
    <2> QED
      BY <2>1 DEF MarginOf, SumFunction
  <1>6. \A i \in S : f[i] \in Int
    <2> SUFFICES ASSUME NEW i \in S
                 PROVE  f[i] \in Int
      OBVIOUS
    <2>1. tasks[i] \in StudiedTasks /\ v[i] \in References(tasks[i])
      BY <1>1, VectorFacts
    <2>2. Diff(tasks[i], v[i]) \in Int
      BY <2>1, TaskFacts
    <2>3. f[i] = Diff(tasks[i], v[i])
      OBVIOUS
    <2> HIDE DEF f
    <2> QED
      BY <2>2, <2>3
  <1>7. Diff(task, r) \in Int
    BY TaskFacts
  <1>8. g[m + 1] = Diff(task, r) /\ \A i \in S : g[i] = f[i]
    <2>1. \A i \in U : g[i] = Diff(more[i], e[i])
      OBVIOUS
    <2>2. \A i \in S : f[i] = Diff(tasks[i], v[i])
      OBVIOUS
    <2>3. m + 1 \in U /\ \A i \in S : i \in U
      BY <1>1
    <2> HIDE DEF f, g, S, U
    <2> QED
      BY <1>1, <1>3, <2>1, <2>2, <2>3
  <1> HIDE DEF f, g
  <1>9. IsFiniteSet(S) /\ IsFiniteSet(U) /\ U \ {m + 1} = S /\ m + 1 \in U
    <2>1. IsFiniteSet(1 .. m) /\ IsFiniteSet(1 .. m + 1)
      BY <1>1, FS_Interval
    <2>2. (1 .. m + 1) \ {m + 1} = 1 .. m /\ m + 1 \in 1 .. m + 1
      BY <1>1
    <2> QED
      BY <1>1, <2>1, <2>2
  <1>10. \A i \in U : g[i] \in Int
    <2>1. \A i \in U : i = m + 1 \/ i \in S
      BY <1>9
    <2> QED
      BY <1>6, <1>7, <1>8, <2>1
  <1>11. SumFunctionOnSet(g, U) = g[m + 1] + SumFunctionOnSet(g, U \ {m + 1})
    BY <1>9, <1>10, SumStep
  <1>12. SumFunctionOnSet(g, S) = SumFunctionOnSet(f, S)
    BY <1>6, <1>8, <1>9, SumEqual
  <1>13. SumFunctionOnSet(f, S) \in Int
    BY <1>6, <1>9, SumType
  <1>14. MarginOf(tasks, v) \in Int /\ MarginOf(more, e) = MarginOf(tasks, v) + Diff(task, r)
    BY <1>5, <1>7, <1>8, <1>9, <1>11, <1>12, <1>13
  <1> QED
    BY <1>4, <1>14 DEF e
----------------------------------------------------------------------------
(* The margin is exact: it counts the weights of the vectors by what they  *)
(* score, and its expectation is that of the tasks.                        *)

WeightOf(tasks, choice) == [v \in Vectors(tasks) |-> VectorWeight(tasks, choice, v)]
ScoreOf(tasks)          == [v \in Vectors(tasks) |-> MarginOf(tasks, v)]
Moment(tasks, choice)   == [v \in Vectors(tasks) |-> MarginOf(tasks, v) * VectorWeight(tasks, choice, v)]
TotalWeight(tasks, choice) == SumFunctionOnSet(WeightOf(tasks, choice), Vectors(tasks))
TotalMoment(tasks, choice) == SumFunctionOnSet(Moment(tasks, choice), Vectors(tasks))

Exact(tasks, choice, margin) ==
    /\ IsFiniteSet(Vectors(tasks))
    /\ \A v \in Vectors(tasks) : VectorWeight(tasks, choice, v) \in Nat /\ MarginOf(tasks, v) \in Int
    /\ Counted(margin, Vectors(tasks), WeightOf(tasks, choice), ScoreOf(tasks))
    /\ Total * TotalMoment(tasks, choice) = TotalWeight(tasks, choice) * Expected(tasks, choice)

Differences(task) == [r \in References(task) |-> Diff(task, r)]

LEMMA TaskCounted ==
    ASSUME NEW task, NEW q
    PROVE  Counted(PerTaskDiffs(task, q), References(task), q, Differences(task))
  <1> DEFINE R == References(task)
             P == Weighty(R, q)
             k == Differences(task)
             m == PerTaskDiffs(task, q)
  <1>1. \A x : x \in P <=> x \in R /\ q[x] > 0
    BY DEF Weighty
  <1>2. {r \in References(task) : q[r] > 0} = P
    BY DEF Weighty
  <1>3. \A x \in R : k[x] = Diff(task, x)
    BY DEF Differences
  <1>4. m = [d \in {Diff(task, r) : r \in P} |-> SumFunctionOnSet(q, {r \in P : Diff(task, r) = d})]
    BY <1>2 DEF PerTaskDiffs
  <1> HIDE DEF P, R, k, m
  <1>5. ASSUME NEW d
        PROVE  d \in DOMAIN m <=> \E x \in P : k[x] = d
    <2>1. d \in DOMAIN m <=> \E r \in P : d = Diff(task, r)
      BY <1>4
    <2> QED
      BY <1>1, <1>3, <2>1
  <1>6. ASSUME NEW d \in DOMAIN m
        PROVE  m[d] = SumFunctionOnSet(q, Fibre(P, k, d))
    <2>1. m[d] = SumFunctionOnSet(q, {r \in P : Diff(task, r) = d})
      BY <1>4
    <2>2. {r \in P : Diff(task, r) = d} = Fibre(P, k, d)
      BY <1>1, <1>3 DEF Fibre
    <2> QED
      BY <2>1, <2>2
  <1> QED
    BY <1>5, <1>6 DEF Counted, P, R, k, m

LEMMA ExpectedGrows ==
    ASSUME NEW tasks \in Seq(StudiedTasks), NEW task \in StudiedTasks, NEW choice \in Distributions
    PROVE  /\ Expected(tasks, choice) \in Int /\ ExpectedDiff(task, choice) \in Int
           /\ Expected(Append(tasks, task), choice) = Expected(tasks, choice) + ExpectedDiff(task, choice)
  <1> DEFINE m == Len(tasks)
             more == Append(tasks, task)
             S == DOMAIN tasks
             U == DOMAIN more
             f == [i \in S |-> ExpectedDiff(tasks[i], choice)]
             g == [i \in U |-> ExpectedDiff(more[i], choice)]
  <1>1. /\ m \in Nat /\ S = 1 .. m /\ U = 1 .. m + 1 /\ \A i \in S : tasks[i] \in StudiedTasks
        /\ more[m + 1] = task /\ \A i \in 1 .. m : more[i] = tasks[i]
    BY LenProperties, AppendProperties, ElementOfSeq
  <1>2. Expected(tasks, choice) = SumFunctionOnSet(f, S) /\ Expected(more, choice) = SumFunctionOnSet(g, U)
    BY DEF Expected, SumFunction
  <1>3. ExpectedDiff(task, choice) \in Int /\ \A i \in S : f[i] \in Int
    <2>1. \A t \in StudiedTasks : ExpectedDiff(t, choice) \in Int
      BY TaskMoves
    <2>2. \A i \in S : f[i] = ExpectedDiff(tasks[i], choice)
      OBVIOUS
    <2> HIDE DEF f
    <2> QED
      BY <1>1, <2>1, <2>2
  <1>4. g[m + 1] = ExpectedDiff(task, choice) /\ \A i \in S : g[i] = f[i]
    <2>1. \A i \in U : g[i] = ExpectedDiff(more[i], choice)
      OBVIOUS
    <2>2. \A i \in S : f[i] = ExpectedDiff(tasks[i], choice)
      OBVIOUS
    <2>3. m + 1 \in U /\ \A i \in S : i \in U
      BY <1>1
    <2> HIDE DEF f, g, S, U
    <2> QED
      BY <1>1, <2>1, <2>2, <2>3
  <1> HIDE DEF f, g
  <1>5. IsFiniteSet(S) /\ IsFiniteSet(U) /\ U \ {m + 1} = S /\ m + 1 \in U
    <2>1. IsFiniteSet(1 .. m) /\ IsFiniteSet(1 .. m + 1)
      BY <1>1, FS_Interval
    <2>2. (1 .. m + 1) \ {m + 1} = 1 .. m /\ m + 1 \in 1 .. m + 1
      BY <1>1
    <2> QED
      BY <1>1, <2>1, <2>2
  <1>6. \A i \in U : g[i] \in Int
    <2>1. \A i \in U : i = m + 1 \/ i \in S
      BY <1>5
    <2> QED
      BY <1>3, <1>4, <2>1
  <1>7. SumFunctionOnSet(g, U) = g[m + 1] + SumFunctionOnSet(g, U \ {m + 1})
    BY <1>5, <1>6, SumStep
  <1>8. SumFunctionOnSet(g, S) = SumFunctionOnSet(f, S)
    BY <1>3, <1>4, <1>5, SumEqual
  <1>9. SumFunctionOnSet(f, S) \in Int
    BY <1>3, <1>5, SumType
  <1> QED
    BY <1>2, <1>3, <1>4, <1>5, <1>7, <1>8, <1>9

LEMMA NothingExact ==
    ASSUME NEW choice
    PROVE  Exact(<<>>, choice, NoStudy.margin)
  <1> DEFINE V == Vectors(<<>>)
             W == WeightOf(<<>>, choice)
             L == ScoreOf(<<>>)
             M == Moment(<<>>, choice)
             m == NoStudy.margin
             e == [i \in 1 .. 0 |-> 0]
  <1>1. <<>> \in Seq(StudiedTasks) /\ Len(<<>>) = 0 /\ DOMAIN <<>> = {} /\ 1 .. 0 = {}
    OBVIOUS
  <1>2. \A v : v \in V <=> v = e
    <2>1. \A v : v \in V <=> v = [i \in 1 .. 0 |-> v[i]] /\ \A i \in 1 .. 0 : v[i] \in References(<<>>[i])
      BY <1>1, VectorFacts
    <2>2. \A v : [i \in 1 .. 0 |-> v[i]] = e
      BY <1>1
    <2> HIDE DEF V, e
    <2> QED
      BY <1>1, <2>1, <2>2
  <1> HIDE DEF e
  <1>3. VectorWeight(<<>>, choice, e) = 1
    <2>1. PICK f : IsProduct(f, Factors(<<>>, choice, e), 0) /\ VectorWeight(<<>>, choice, e) = f[0]
      BY <1>1, VectorWeighs
    <2> QED
      BY <2>1 DEF IsProduct
  <1>4. MarginOf(<<>>, e) = 0
    <2> DEFINE f == [i \in {} |-> Diff(<<>>[i], e[i])]
    <2>1. MarginOf(<<>>, e) = SumFunction(f)
      BY <1>1 DEF MarginOf
    <2>2. DOMAIN f = {}
      OBVIOUS
    <2> HIDE DEF f
    <2>3. SumFunction(f) = SumFunctionOnSet(f, {})
      BY <2>2 DEF SumFunction
    <2> QED
      BY <2>1, <2>3, SumEmpty
  <1>5. Expected(<<>>, choice) = 0
    <2> DEFINE f == [i \in {} |-> ExpectedDiff(<<>>[i], choice)]
    <2>1. Expected(<<>>, choice) = SumFunction(f)
      BY <1>1 DEF Expected
    <2>2. DOMAIN f = {}
      OBVIOUS
    <2> HIDE DEF f
    <2>3. SumFunction(f) = SumFunctionOnSet(f, {})
      BY <2>2 DEF SumFunction
    <2> QED
      BY <2>1, <2>3, SumEmpty
  <1>6. V = {e}
    BY <1>2
  <1>7. e \in V /\ W[e] = 1 /\ L[e] = 0 /\ M[e] = 0
    BY <1>2, <1>3, <1>4 DEF WeightOf, ScoreOf, Moment
  <1> HIDE DEF V, W, L, M
  <1>8. IsFiniteSet({e}) /\ {e} \ {e} = {}
    BY FS_Singleton
  <1>9. SumFunctionOnSet(W, {e}) = 1 /\ SumFunctionOnSet(M, {e}) = 0
    <2>1. (\A x \in {e} : W[x] = 1 /\ W[x] \in Int) /\ (\A x \in {e} : M[x] = 0)
      BY <1>7
    <2>2. SumFunctionOnSet(M, {e}) = 0
      BY <1>8, <2>1, SumOfZeros
    <2>3. SumFunctionOnSet(W, {e}) = W[e] + SumFunctionOnSet(W, {e} \ {e})
      BY <1>8, <2>1, SumStep
    <2> QED
      BY <1>7, <1>8, <2>2, <2>3, SumEmpty
  <1>10. Counted(m, V, W, L)
    <2>1. Weighty(V, W) = {e}
      BY <1>6, <1>7 DEF Weighty
    <2>2. Fibre({e}, L, 0) = {e}
      BY <1>7 DEF Fibre
    <2>3. m = [s \in {0} |-> 1]
      BY DEF NoStudy
    <2> HIDE DEF m
    <2>4. (\A d : d \in DOMAIN m <=> d = 0) /\ m[0] = 1
      BY <2>3
    <2>5. \A d : d \in DOMAIN m <=> \E x \in Weighty(V, W) : L[x] = d
      BY <1>7, <2>1, <2>4
    <2>6. \A d \in DOMAIN m : m[d] = SumFunctionOnSet(W, Fibre(Weighty(V, W), L, d))
      BY <1>9, <2>1, <2>2, <2>4
    <2> QED
      BY <2>5, <2>6 DEF Counted
  <1>11. Total * TotalMoment(<<>>, choice) = TotalWeight(<<>>, choice) * Expected(<<>>, choice)
    <2>1. TotalMoment(<<>>, choice) = 0 /\ TotalWeight(<<>>, choice) = 1
      BY <1>6, <1>9 DEF TotalMoment, TotalWeight, V, M, W
    <2>2. Total \in Nat
      BY StudyAssumption
    <2> QED
      BY <1>5, <2>1, <2>2
  <1>12. IsFiniteSet(V) /\ \A v \in V : VectorWeight(<<>>, choice, v) \in Nat /\ MarginOf(<<>>, v) \in Int
    BY <1>3, <1>4, <1>6, <1>8
  <1> HIDE DEF m
  <1> QED
    BY <1>10, <1>11, <1>12 DEF Exact, V, W, L, m
LEMMA ExtendedFinite ==
    ASSUME NEW tasks \in Seq(StudiedTasks), NEW task \in StudiedTasks, IsFiniteSet(Vectors(tasks))
    PROVE  IsFiniteSet(Vectors(Append(tasks, task)))
  <1> DEFINE S == Vectors(tasks)
             R == References(task)
             V == Vectors(Append(tasks, task))
             join == Extended(tasks, task)
             image == [p \in S \X R |-> join[p]]
  <1>1. Joins(join, S, R, V)
    BY ExtendedFacts
  <1>2. IsFiniteSet(S \X R)
    BY TaskFacts, FS_Product
  <1> HIDE DEF S, R, V, join
  <1>3. image \in [S \X R -> V] /\ \A v \in V : \E p \in S \X R : image[p] = v
    <2>1. \A p \in S \X R : join[p] \in V
      BY <1>1 DEF Joins
    <2>2. ASSUME NEW v \in V
          PROVE  \E p \in S \X R : image[p] = v
      <3>1. PICK x \in S, r \in R : join[<<x, r>>] = v
        BY <1>1 DEF Joins
      <3>2. <<x, r>> \in S \X R
        OBVIOUS
      <3> QED
        BY <3>1, <3>2
    <2> QED
      BY <2>1, <2>2
  <1> HIDE DEF image
  <1>4. image \in Surjection(S \X R, V)
    BY <1>3, Fun_IsSurj
  <1> QED
    BY <1>2, <1>4, FS_Surjection DEF V

(* Sums over the vectors of one more task are sums over pairs.             *)
LEMMA SumOverExtended ==
    ASSUME NEW tasks \in Seq(StudiedTasks), NEW task \in StudiedTasks, IsFiniteSet(Vectors(tasks)),
           NEW F, \A v \in Vectors(Append(tasks, task)) : F[v] \in Int,
           NEW g, \A p \in Vectors(tasks) \X References(task) : g[p] = F[Extended(tasks, task)[p]]
    PROVE  SumFunctionOnSet(F, Vectors(Append(tasks, task))) = SumFunctionOnSet(g, Vectors(tasks) \X References(task))
  <1> DEFINE S == Vectors(tasks)
             R == References(task)
             V == Vectors(Append(tasks, task))
             join == Extended(tasks, task)
             P == S \X R
  <1>1. Joins(join, S, R, V)
    BY ExtendedFacts
  <1>2. IsFiniteSet(R)
    BY TaskFacts
  <1>3. /\ \A v \in V : F[v] \in Int
        /\ \A p \in P : g[p] = F[join[p]]
        /\ IsFiniteSet(S)
    OBVIOUS
  <1>4. \A p : p \in P <=> \E x \in S, r \in R : p = <<x, r>>
    OBVIOUS
  <1>5. IsFiniteSet(P)
    BY <1>2, FS_Product
  <1> HIDE DEF S, R, V, join, P
  <1>6. \A p \in P : join[p] \in V
    BY <1>1, <1>4 DEF Joins
  <1>7. ASSUME NEW p \in P, NEW o \in P, join[p] = join[o]
        PROVE  p = o
    <2>1. PICK x \in S, r \in R : p = <<x, r>>
      BY <1>4
    <2>2. PICK y \in S, t \in R : o = <<y, t>>
      BY <1>4
    <2>3. x = y /\ r = t
      BY <1>1, <1>7, <2>1, <2>2 DEF Joins
    <2> QED
      BY <2>1, <2>2, <2>3
  <1>8. \A v \in V : \E p \in P : join[p] = v
    <2> SUFFICES ASSUME NEW v \in V
                 PROVE  \E p \in P : join[p] = v
      OBVIOUS
    <2>1. PICK x \in S, r \in R : join[<<x, r>>] = v
      BY <1>1 DEF Joins
    <2> QED
      BY <1>4, <2>1
  <1>9. IsFiniteSet(V)
    BY ExtendedFinite DEF S, V
  <1>10. SumFunctionOnSet(g, P) = SumFunctionOnSet(F, V)
    BY <1>3, <1>5, <1>6, <1>7, <1>8, <1>9, SumAlong
  <1> QED
    BY <1>10 DEF P, S, R, V

LEMMA OneMoreExact ==
    ASSUME NEW tasks \in Seq(StudiedTasks), NEW task \in StudiedTasks, NEW choice \in Distributions,
           NEW margin, Exact(tasks, choice, margin)
    PROVE  Exact(Append(tasks, task), choice, Convolve(margin, PerTaskDiffs(task, Weights(task, choice))))
  <1> DEFINE more == Append(tasks, task)
             S == Vectors(tasks)
             R == References(task)
             V == Vectors(more)
             join == Extended(tasks, task)
             q == Weights(task, choice)
             d == Differences(task)
             w == WeightOf(tasks, choice)
             k == ScoreOf(tasks)
             M == Moment(tasks, choice)
             W == WeightOf(more, choice)
             L == ScoreOf(more)
             N == Moment(more, choice)
             n == PerTaskDiffs(task, q)
  <1>1. /\ IsFiniteSet(S) /\ IsFiniteSet(V) /\ IsFiniteSet(R)
        /\ \A x \in S : w[x] = VectorWeight(tasks, choice, x) /\ k[x] = MarginOf(tasks, x) /\ w[x] \in Nat /\ k[x] \in Int
        /\ \A x \in S : M[x] = k[x] * w[x]
        /\ Counted(margin, S, w, k)
        /\ Total * SumFunctionOnSet(M, S) = SumFunctionOnSet(w, S) * Expected(tasks, choice)
    BY ExtendedFinite, TaskFacts DEF Exact, WeightOf, ScoreOf, Moment, TotalMoment, TotalWeight
  <1>2. /\ (\A r \in R : q[r] \in Nat) /\ (\A r \in R : d[r] \in Int /\ d[r] = Diff(task, r))
        /\ SumFunctionOnSet(q, R) = Total /\ Total \in Nat
    BY WeightsDistribute, TaskFacts DEF Distributes, Differences
  <1>3. Counted(n, R, q, d)
    BY TaskCounted
  <1>4. Joins(join, S, R, V)
    BY ExtendedFacts
  <1>5. \A v \in V : W[v] = VectorWeight(more, choice, v) /\ L[v] = MarginOf(more, v) /\ N[v] = L[v] * W[v]
    BY DEF WeightOf, ScoreOf, Moment
  <1>6. ASSUME NEW x \in S, NEW r \in R
        PROVE  /\ join[<<x, r>>] \in V
               /\ W[join[<<x, r>>]] = w[x] * q[r] /\ L[join[<<x, r>>]] = k[x] + d[r]
    <2>1. join[<<x, r>>] \in V
      BY <1>4 DEF Joins
    <2>2. /\ VectorWeight(more, choice, join[<<x, r>>]) = VectorWeight(tasks, choice, x) * q[r]
          /\ MarginOf(more, join[<<x, r>>]) = MarginOf(tasks, x) + Diff(task, r)
      BY ExtendedWeighs
    <2> HIDE DEF S, R, V, join, W, L, w, k, q, d, more
    <2> QED
      BY <1>1, <1>2, <1>5, <2>1, <2>2
  <1>7. \A p : p \in S \X R <=> \E x \in S, r \in R : p = <<x, r>>
    OBVIOUS
  <1>8. \A v \in V : W[v] \in Nat /\ L[v] \in Int
    <2> SUFFICES ASSUME NEW v \in V
                 PROVE  W[v] \in Nat /\ L[v] \in Int
      OBVIOUS
    <2> HIDE DEF S, R, V, join, W, L, w, k, q, d
    <2>1. PICK x \in S, r \in R : join[<<x, r>>] = v
      BY <1>4 DEF Joins
    <2>2. W[v] = w[x] * q[r] /\ L[v] = k[x] + d[r] /\ w[x] \in Nat /\ q[r] \in Nat /\ k[x] \in Int /\ d[r] \in Int
      BY <1>1, <1>2, <1>6, <2>1
    <2>3. \A a, b \in Nat : a * b \in Nat
      OBVIOUS
    <2> QED
      BY <2>2, <2>3
  <1>9. Counted(Convolve(margin, n), V, W, L)
    <2> HIDE DEF S, R, V, join, W, L, w, k, q, d, n
    <2>1. Combined(margin, S, w, k, n, R, q, d, join, V, W, L)
      BY <1>1, <1>2, <1>3, <1>4, <1>6 DEF Combined
    <2> QED
      BY <2>1, ConvolutionCounts
  <1> DEFINE P == S \X R
             e == [r \in R |-> q[r] * d[r]]
             g == [p \in P |-> W[join[p]]]
             h == [p \in P |-> N[join[p]]]
             a == [p \in P |-> M[p[1]] * q[p[2]]]
             b == [p \in P |-> w[p[1]] * e[p[2]]]
             SW == SumFunctionOnSet(w, S)
             SM == SumFunctionOnSet(M, S)
             ED == ExpectedDiff(task, choice)
             EX == Expected(tasks, choice)
  <1>10. SumFunctionOnSet(W, V) = SW * Total
    <2>1. SumFunctionOnSet(W, V) = SumFunctionOnSet(g, P)
      <3>1. (\A v \in V : W[v] \in Int) /\ \A p \in P : g[p] = W[join[p]]
        BY <1>8
      <3> HIDE DEF W, g
      <3> QED
        BY <1>1, <3>1, SumOverExtended
    <2>2. /\ \A x \in S : w[x] \in Int
          /\ \A r \in R : q[r] \in Int
          /\ \A x \in S : \A r \in R : g[<<x, r>>] = w[x] * q[r]
      BY <1>1, <1>2, <1>6
    <2> HIDE DEF S, R, V, W, w, q, g
    <2>3. SumFunctionOnSet(g, S \X R) = SumFunctionOnSet(w, S) * SumFunctionOnSet(q, R)
      BY <1>1, <2>2, SumOfProducts
    <2> QED
      BY <1>2, <2>1, <2>3
  <1>11. SumFunctionOnSet(N, V) = SM * Total + SW * ED
    <2>1. SumFunctionOnSet(N, V) = SumFunctionOnSet(h, P)
      <3>1. (\A v \in V : N[v] \in Int) /\ \A p \in P : h[p] = N[join[p]]
        BY <1>5, <1>8
      <3> HIDE DEF N, h
      <3> QED
        BY <1>1, <3>1, SumOverExtended
    <2>2. \A r \in R : e[r] = q[r] * d[r] /\ e[r] \in Int
      BY <1>2
    <2>3. /\ \A x \in S : \A r \in R : a[<<x, r>>] = M[x] * q[r] /\ b[<<x, r>>] = w[x] * e[r] /\ h[<<x, r>>] = N[join[<<x, r>>]]
      OBVIOUS
    <2> HIDE DEF S, R, V, join, W, L, M, N, w, k, q, d, e, h, a, b
    <2>4. \A x \in S : M[x] \in Int /\ w[x] \in Int
      BY <1>1
    <2>5. ASSUME NEW p \in S \X R
          PROVE  a[p] \in Int /\ b[p] \in Int /\ h[p] = a[p] + b[p]
      <3>1. PICK x \in S, r \in R : p = <<x, r>>
        BY <1>7
      <3>2. k[x] \in Int /\ w[x] \in Int /\ q[r] \in Int /\ d[r] \in Int
        BY <1>1, <1>2
      <3>3. a[p] = (k[x] * w[x]) * q[r] /\ b[p] = w[x] * (q[r] * d[r])
        BY <1>1, <2>2, <2>3, <3>1
      <3>4. h[p] = (k[x] + d[r]) * (w[x] * q[r])
        BY <1>5, <1>6, <2>3, <3>1
      <3>5. \A i, j, l, o \in Int : (i + j) * (l * o) = (i * l) * o + l * (o * j) /\ (i * l) * o \in Int /\ l * (o * j) \in Int
        OBVIOUS
      <3> QED
        BY <3>2, <3>3, <3>4, <3>5
    <2>6. IsFiniteSet(S \X R)
      BY <1>1, FS_Product
    <2>7. SumFunctionOnSet(h, S \X R) = SumFunctionOnSet(a, S \X R) + SumFunctionOnSet(b, S \X R)
      BY <2>5, <2>6, SumAdds
    <2>8. SumFunctionOnSet(a, S \X R) = SumFunctionOnSet(M, S) * SumFunctionOnSet(q, R)
      <3>1. (\A x \in S : M[x] \in Int) /\ (\A r \in R : q[r] \in Int) /\ \A x \in S : \A r \in R : a[<<x, r>>] = M[x] * q[r]
        BY <1>2, <2>3, <2>4
      <3> QED
        BY <1>1, <3>1, SumOfProducts
    <2>9. SumFunctionOnSet(b, S \X R) = SumFunctionOnSet(w, S) * SumFunctionOnSet(e, R)
      <3>1. (\A x \in S : w[x] \in Int) /\ (\A r \in R : e[r] \in Int) /\ \A x \in S : \A r \in R : b[<<x, r>>] = w[x] * e[r]
        BY <2>2, <2>3, <2>4
      <3> QED
        BY <1>1, <3>1, SumOfProducts
    <2>10. SumFunctionOnSet(e, R) = ED
      <3> DEFINE f == [r \in R |-> q[r] * Diff(task, r)]
      <3>1. DOMAIN f = R /\ \A r \in R : f[r] = e[r]
        BY <1>2, <2>2
      <3>2. ED = SumFunction(f)
        BY DEF ExpectedDiff, R, q
      <3> HIDE DEF f
      <3>3. ED = SumFunctionOnSet(f, R)
        BY <3>1, <3>2 DEF SumFunction
      <3>4. \A r \in R : e[r] \in Int /\ f[r] = e[r]
        BY <2>2, <3>1
      <3> HIDE DEF ED
      <3> QED
        BY <1>1, <3>3, <3>4, SumEqual
    <2> QED
      BY <1>2, <2>1, <2>7, <2>8, <2>9, <2>10
  <1>12. Total * SumFunctionOnSet(N, V) = SumFunctionOnSet(W, V) * Expected(more, choice)
    <2>1. EX \in Int /\ ED \in Int /\ Expected(more, choice) = EX + ED
      BY ExpectedGrows
    <2>2. SW \in Int /\ SM \in Int /\ Total \in Int
      <3>1. \A x \in S : w[x] \in Int /\ M[x] \in Int
        BY <1>1
      <3> HIDE DEF S, w, M
      <3> QED
        BY <1>1, <1>2, <3>1, SumType
    <2>3. Total * SM = SW * EX
      BY <1>1
    <2> HIDE DEF SW, SM, EX, ED
    <2>4. \A t, m, s, x, y \in Int : t * m = s * x => t * (m * t + s * y) = (s * t) * (x + y)
      <3> SUFFICES ASSUME NEW t \in Int, NEW m \in Int, NEW s \in Int, NEW x \in Int, NEW y \in Int, t * m = s * x
                   PROVE  t * (m * t + s * y) = (s * t) * (x + y)
        OBVIOUS
      <3>1. t * (m * t + s * y) = (t * m) * t + (s * t) * y
        OBVIOUS
      <3>2. (s * t) * (x + y) = (s * x) * t + (s * t) * y
        OBVIOUS
      <3> QED
        BY <3>1, <3>2
    <2>5. Total * (SM * Total + SW * ED) = (SW * Total) * (EX + ED)
      BY <2>1, <2>2, <2>3, <2>4
    <2> QED
      BY <1>10, <1>11, <2>1, <2>5
  <1> QED
    BY <1>1, <1>5, <1>8, <1>9, <1>12 DEF Exact, TotalMoment, TotalWeight

----------------------------------------------------------------------------
(* What weighs anything is what is possible, and the margin gives a set of *)
(* scores the weight of what scores in it.                                 *)
Winning(tasks, choice, T) == {v \in Possible(tasks, choice) : MarginOf(tasks, v) \in T}
ScoresIn(margin, T)       == {s \in DOMAIN margin : s \in T}

LEMMA PossibleFacts ==
    ASSUME NEW tasks, NEW choice, NEW margin, Exact(tasks, choice, margin)
    PROVE  LET V == Vectors(tasks)
               P == Possible(tasks, choice)
               W == WeightOf(tasks, choice)
               L == ScoreOf(tasks)
           IN  /\ P = Weighty(V, W) /\ P \in SUBSET V /\ IsFiniteSet(P) /\ IsFiniteSet(V)
               /\ \A v \in V : W[v] = VectorWeight(tasks, choice, v) /\ L[v] = MarginOf(tasks, v)
                              /\ W[v] \in Nat /\ L[v] \in Int
               /\ \A d : d \in DOMAIN margin <=> \E v \in P : L[v] = d
               /\ \A d \in DOMAIN margin : margin[d] = SumFunctionOnSet(W, Fibre(P, L, d)) /\ margin[d] \in Int /\ d \in Int
               /\ IsFiniteSet(DOMAIN margin)
  <1> DEFINE V == Vectors(tasks)
             P == Possible(tasks, choice)
             W == WeightOf(tasks, choice)
             L == ScoreOf(tasks)
  <1>1. /\ IsFiniteSet(V) /\ Counted(margin, V, W, L)
        /\ \A v \in V : W[v] = VectorWeight(tasks, choice, v) /\ L[v] = MarginOf(tasks, v)
                       /\ W[v] \in Nat /\ L[v] \in Int
    BY DEF Exact, WeightOf, ScoreOf
  <1>2. P = Weighty(V, W) /\ P \in SUBSET V
    <2>1. \A v : v \in P <=> v \in V /\ VectorWeight(tasks, choice, v) > 0
      BY DEF Possible
    <2>2. \A v : v \in Weighty(V, W) <=> v \in V /\ W[v] > 0
      BY DEF Weighty
    <2> HIDE DEF P, V, W
    <2>3. \A v : v \in P <=> v \in Weighty(V, W)
      BY <1>1, <2>1, <2>2
    <2> QED
      BY <2>1, <2>3
  <1>3. IsFiniteSet(P)
    BY <1>1, <1>2, FS_Subset
  <1>4. IsFiniteSet(DOMAIN margin) /\ \A d \in DOMAIN margin : margin[d] \in Int
    <2>1. \A v \in V : W[v] \in Nat
      BY <1>1
    <2> HIDE DEF V, W, L
    <2> QED
      BY <1>1, <2>1, CountedFacts
  <1>5. /\ \A d : d \in DOMAIN margin <=> \E v \in P : L[v] = d
        /\ \A d \in DOMAIN margin : margin[d] = SumFunctionOnSet(W, Fibre(P, L, d))
    BY <1>1, <1>2 DEF Counted
  <1>6. \A d \in DOMAIN margin : d \in Int
    BY <1>1, <1>2, <1>5
  <1> HIDE DEF V, P, W, L
  <1> QED
    BY <1>1, <1>2, <1>3, <1>4, <1>5, <1>6 DEF V, P, W, L

LEMMA ScoredWeight ==
    ASSUME NEW tasks, NEW choice, NEW margin, Exact(tasks, choice, margin), NEW T
    PROVE  LET P == Winning(tasks, choice, T)
           IN  /\ IsFiniteSet(P) /\ SumFunctionOnSet(WeightOf(tasks, choice), P) \in Int
               /\ SumFunctionOnSet(margin, ScoresIn(margin, T)) = SumFunctionOnSet(WeightOf(tasks, choice), P)
  <1> DEFINE V == Vectors(tasks)
             A == Possible(tasks, choice)
             W == WeightOf(tasks, choice)
             L == ScoreOf(tasks)
             D == DOMAIN margin
             P == Winning(tasks, choice, T)
             Q == ScoresIn(margin, T)
             c == [s \in Int |-> IF s \in T THEN 1 ELSE 0]
             h == [v \in V |-> c[L[v]] * W[v]]
             j == [s \in D |-> c[s] * margin[s]]
  <1>1. /\ A \in SUBSET V /\ IsFiniteSet(V) /\ IsFiniteSet(D)
        /\ \A v \in V : L[v] = MarginOf(tasks, v) /\ W[v] \in Nat /\ L[v] \in Int
        /\ \A v \in V \ A : W[v] = 0
        /\ \A s \in D : margin[s] \in Int /\ s \in Int
    <2>1. \A v \in V \ Weighty(V, W) : ~(W[v] > 0)
      BY DEF Weighty
    <2>2. /\ A = Weighty(V, W) /\ A \in SUBSET V /\ IsFiniteSet(V) /\ IsFiniteSet(D)
          /\ \A v \in V : L[v] = MarginOf(tasks, v) /\ W[v] \in Nat /\ L[v] \in Int
          /\ \A s \in D : margin[s] \in Int /\ s \in Int
      BY PossibleFacts
    <2> HIDE DEF V, A, W, L, D
    <2>3. \A v \in V \ A : W[v] = 0
      BY <2>1, <2>2
    <2> QED
      BY <2>2, <2>3
  <1>2. Counted(margin, V, W, L)
    BY DEF Exact
  <1>3. (\A v : v \in P <=> v \in A /\ MarginOf(tasks, v) \in T) /\ (\A s : s \in Q <=> s \in D /\ s \in T)
    BY DEF Winning, ScoresIn
  <1>4. \A s \in Int : (s \in T => c[s] = 1) /\ (s \notin T => c[s] = 0) /\ c[s] \in Int
    OBVIOUS
  <1>5. (\A v \in V : h[v] = c[L[v]] * W[v]) /\ (\A s \in D : j[s] = c[s] * margin[s])
    OBVIOUS
  <1> HIDE DEF V, A, W, L, D, P, Q, c, h, j
  <1>6. Charged(V, W, L, margin, c, h, j)
    BY <1>1, <1>2, <1>4, <1>5 DEF Charged, D
  <1>7. SumFunctionOnSet(j, D) = SumFunctionOnSet(h, V)
    BY <1>6, SumOverCounts DEF D
  <1>8. SumFunctionOnSet(margin, Q) = SumFunctionOnSet(j, D)
    <2>1. Q \in SUBSET D
      BY <1>3
    <2>2. \A s \in Q : margin[s] \in Int /\ j[s] = margin[s]
      <3> SUFFICES ASSUME NEW s \in Q
                   PROVE  margin[s] \in Int /\ j[s] = margin[s]
        OBVIOUS
      <3>1. s \in D /\ c[s] = 1 /\ margin[s] \in Int /\ j[s] = c[s] * margin[s]
        BY <1>1, <1>3, <1>4, <1>5
      <3> QED
        BY <3>1
    <2>3. \A s \in D \ Q : j[s] = 0
      <3> SUFFICES ASSUME NEW s \in D \ Q
                   PROVE  j[s] = 0
        OBVIOUS
      <3>1. c[s] = 0 /\ margin[s] \in Int /\ j[s] = c[s] * margin[s]
        BY <1>1, <1>3, <1>4, <1>5
      <3> QED
        BY <3>1
    <2> QED
      BY <1>1, <2>1, <2>2, <2>3, SumOverPart
  <1>9. P \in SUBSET V
    BY <1>1, <1>3
  <1>10. \A v \in P : W[v] \in Int /\ h[v] = W[v]
    <2> SUFFICES ASSUME NEW v \in P
                 PROVE  W[v] \in Int /\ h[v] = W[v]
      OBVIOUS
    <2>1. v \in V /\ c[L[v]] = 1 /\ W[v] \in Int /\ h[v] = c[L[v]] * W[v]
      BY <1>1, <1>3, <1>4, <1>5
    <2> QED
      BY <2>1
  <1>11. \A v \in V \ P : h[v] = 0
    <2> SUFFICES ASSUME NEW v \in V \ P
                 PROVE  h[v] = 0
      OBVIOUS
    <2>1. h[v] = c[L[v]] * W[v] /\ c[L[v]] \in Int /\ W[v] \in Int
      BY <1>1, <1>4, <1>5
    <2>2. c[L[v]] = 0 \/ W[v] = 0
      BY <1>1, <1>3, <1>4
    <2> QED
      BY <2>1, <2>2
  <1>12. SumFunctionOnSet(W, P) = SumFunctionOnSet(h, V)
    BY <1>1, <1>9, <1>10, <1>11, SumOverPart
  <1>13. IsFiniteSet(P)
    BY <1>1, <1>9, FS_Subset
  <1>14. SumFunctionOnSet(W, P) \in Int
    BY <1>10, <1>13, SumType
  <1> QED
    BY <1>7, <1>8, <1>12, <1>13, <1>14 DEF W, P, Q

LEMMA ReversalExact ==
    ASSUME NEW tasks, NEW choice, NEW margin, Exact(tasks, choice, margin)
    PROVE  WinnerReversal(margin) =
              SumFunction([p \in Opposed(tasks, choice) |->
                              VectorWeight(tasks, choice, p[1]) * VectorWeight(tasks, choice, p[2])])
  <1> DEFINE Positive == {n \in Int : n > 0}
             Negative == {n \in Int : n < 0}
             W == WeightOf(tasks, choice)
             A == Possible(tasks, choice)
             P == Winning(tasks, choice, Positive)
             N == Winning(tasks, choice, Negative)
             Both == Opposed(tasks, choice)
             f == [p \in Both |-> VectorWeight(tasks, choice, p[1]) * VectorWeight(tasks, choice, p[2])]
             MP == SumFunctionOnSet(W, P)
             MN == SumFunctionOnSet(W, N)
  <1>1. /\ IsFiniteSet(P) /\ IsFiniteSet(N) /\ MP \in Int /\ MN \in Int
        /\ SumFunctionOnSet(margin, ScoresIn(margin, Positive)) = MP
        /\ SumFunctionOnSet(margin, ScoresIn(margin, Negative)) = MN
    <2> HIDE DEF Positive, Negative
    <2> QED
      BY ScoredWeight
  <1>2. PPositive(margin) = MP /\ PNegative(margin) = MN
    <2>1. \A s \in DOMAIN margin : s \in Int
      BY PossibleFacts
    <2>2. {s \in DOMAIN margin : s > 0} = ScoresIn(margin, Positive) /\ {s \in DOMAIN margin : s < 0} = ScoresIn(margin, Negative)
      BY <2>1 DEF ScoresIn
    <2> HIDE DEF MP, MN
    <2> QED
      BY <1>1, <2>2 DEF PPositive, PNegative
  <1>3. \A v \in A : MarginOf(tasks, v) \in Int /\ W[v] = VectorWeight(tasks, choice, v) /\ W[v] \in Int
    BY PossibleFacts
  <1>4. /\ \A v : v \in P <=> v \in A /\ MarginOf(tasks, v) > 0
        /\ \A v : v \in N <=> v \in A /\ MarginOf(tasks, v) < 0
    BY <1>3 DEF Winning
  <1>5. \A p : p \in Both <=> \E v, u \in A : p = <<v, u>> /\ Sign(MarginOf(tasks, v)) * Sign(MarginOf(tasks, u)) = -1
    BY DEF Opposed
  <1>6. f = [p \in Both |-> f[p]] /\ \A p \in Both : f[p] = VectorWeight(tasks, choice, p[1]) * VectorWeight(tasks, choice, p[2])
    OBVIOUS
  <1> HIDE DEF A, P, N, W, Both, f
  <1>7. \A a, b \in Int : Sign(a) * Sign(b) = -1 <=> (a > 0 /\ b < 0) \/ (a < 0 /\ b > 0)
    <2> SUFFICES ASSUME NEW a \in Int, NEW b \in Int
                 PROVE  Sign(a) * Sign(b) = -1 <=> (a > 0 /\ b < 0) \/ (a < 0 /\ b > 0)
      OBVIOUS
    <2>1. \A n \in Int : /\ (n > 0 => Sign(n) = 1) /\ (n < 0 => Sign(n) = -1) /\ (n = 0 => Sign(n) = 0)
                        /\ (n > 0 \/ n < 0 \/ n = 0)
      BY DEF Sign
    <2>2. CASE a > 0
      <3>1. Sign(a) = 1 /\ Sign(b) \in Int /\ (Sign(b) = -1 <=> b < 0)
        BY <2>1, <2>2
      <3>2. Sign(a) * Sign(b) = -1 <=> Sign(b) = -1
        BY <3>1
      <3>3. ~(a < 0)
        BY <2>2
      <3>4. Sign(a) * Sign(b) = -1 <=> b < 0
        BY <3>1, <3>2
      <3> QED
        BY <2>2, <3>3, <3>4
    <2>3. CASE a < 0
      <3>1. Sign(a) = -1 /\ Sign(b) \in Int /\ (Sign(b) = 1 <=> b > 0)
        BY <2>1, <2>3
      <3> QED
        BY <2>3, <3>1
    <2>4. CASE a = 0
      <3>1. Sign(a) = 0 /\ Sign(b) \in Int
        BY <2>1, <2>4
      <3> QED
        BY <2>4, <3>1
    <2> QED
      BY <2>1, <2>2, <2>3, <2>4
  <1>8. Both = (P \X N) \union (N \X P)
    <2>1. ASSUME NEW p
          PROVE  p \in Both <=> p \in (P \X N) \union (N \X P)
      <3>1. p \in (P \X N) \union (N \X P) <=> \E v, u \in A : p = <<v, u>> /\ ((v \in P /\ u \in N) \/ (v \in N /\ u \in P))
        <4>1. P \subseteq A /\ N \subseteq A
          BY <1>4
        <4>2. p \in P \X N <=> \E v \in P, u \in N : p = <<v, u>>
          OBVIOUS
        <4>3. p \in N \X P <=> \E v \in N, u \in P : p = <<v, u>>
          OBVIOUS
        <4>4. p \in (P \X N) \union (N \X P) <=> p \in P \X N \/ p \in N \X P
          OBVIOUS
        <4>5. ASSUME p \in (P \X N) \union (N \X P)
              PROVE  \E v, u \in A : p = <<v, u>> /\ ((v \in P /\ u \in N) \/ (v \in N /\ u \in P))
          <5>1. CASE p \in P \X N
            <6>1. PICK v \in P, u \in N : p = <<v, u>>
              BY <4>2, <5>1
            <6>2. v \in A /\ u \in A
              BY <4>1
            <6>3. v \in P /\ u \in N
              OBVIOUS
            <6> QED
              BY <6>1, <6>2, <6>3
          <5>2. CASE p \in N \X P
            BY <4>1, <4>3, <5>2
          <5> QED
            BY <4>4, <4>5, <5>1, <5>2
        <4>6. ASSUME NEW v \in A, NEW u \in A, p = <<v, u>>, (v \in P /\ u \in N) \/ (v \in N /\ u \in P)
              PROVE  p \in (P \X N) \union (N \X P)
          BY <4>6
        <4> QED
          BY <4>5, <4>6
      <3>2. \A v, u \in A : ((v \in P /\ u \in N) \/ (v \in N /\ u \in P)) <=> Sign(MarginOf(tasks, v)) * Sign(MarginOf(tasks, u)) = -1
        <4> SUFFICES ASSUME NEW v \in A, NEW u \in A
                     PROVE  ((v \in P /\ u \in N) \/ (v \in N /\ u \in P)) <=> Sign(MarginOf(tasks, v)) * Sign(MarginOf(tasks, u)) = -1
          OBVIOUS
        <4> DEFINE a == MarginOf(tasks, v)
                   b == MarginOf(tasks, u)
        <4>1. a \in Int /\ b \in Int /\ (v \in P <=> a > 0) /\ (v \in N <=> a < 0) /\ (u \in P <=> b > 0) /\ (u \in N <=> b < 0)
          BY <1>3, <1>4
        <4> HIDE DEF a, b
        <4>2. Sign(a) * Sign(b) = -1 <=> (a > 0 /\ b < 0) \/ (a < 0 /\ b > 0)
          BY <1>7, <4>1
        <4>3. ((v \in P /\ u \in N) \/ (v \in N /\ u \in P)) <=> Sign(a) * Sign(b) = -1
          BY <4>1, <4>2
        <4> QED
          BY <4>3 DEF a, b
      <3> QED
        BY <1>5, <3>1, <3>2
    <2> QED
      BY <2>1
  <1>9. (P \X N) \cap (N \X P) = {}
    <2>1. \A v : ~(v \in P /\ v \in N)
      BY <1>3, <1>4
    <2> QED
      BY <2>1
  <1>10. IsFiniteSet(P \X N) /\ IsFiniteSet(N \X P)
    BY <1>1, FS_Product
  <1>11. /\ \A v \in P : W[v] \in Int
         /\ \A u \in N : W[u] \in Int
         /\ \A v \in P : \A u \in N : f[<<v, u>>] = W[v] * W[u] /\ f[<<u, v>>] = W[u] * W[v]
    <2>1. \A v \in P : v \in A
      BY <1>4
    <2>2. \A v \in N : v \in A
      BY <1>4
    <2>3. \A v \in P : \A u \in N : <<v, u>> \in Both /\ <<u, v>> \in Both
      BY <1>8
    <2> QED
      BY <1>3, <1>6, <2>1, <2>2, <2>3
  <1>12. \A p \in (P \X N) \union (N \X P) : f[p] \in Int
    <2>1. \A v \in P : \A u \in N : f[<<v, u>>] \in Int /\ f[<<u, v>>] \in Int
      <3>1. \A x, y \in Int : x * y \in Int
        OBVIOUS
      <3> QED
        BY <1>11, <3>1
    <2>2. \A p : p \in P \X N => \E v \in P, u \in N : p = <<v, u>>
      OBVIOUS
    <2>3. \A p : p \in N \X P => \E v \in P, u \in N : p = <<u, v>>
      OBVIOUS
    <2> SUFFICES ASSUME NEW p \in (P \X N) \union (N \X P)
                 PROVE  f[p] \in Int
      OBVIOUS
    <2>4. CASE p \in P \X N
      BY <2>1, <2>2, <2>4
    <2>5. CASE p \in N \X P
      BY <2>1, <2>3, <2>5
    <2> QED
      BY <2>4, <2>5
  <1>13. SumFunctionOnSet(f, (P \X N) \union (N \X P)) = SumFunctionOnSet(f, P \X N) + SumFunctionOnSet(f, N \X P)
    <2> DEFINE X == P \X N
               Y == N \X P
    <2>1. IsFiniteSet(X) /\ IsFiniteSet(Y) /\ X \cap Y = {} /\ \A p \in X \union Y : f[p] \in Int
      BY <1>9, <1>10, <1>12
    <2> HIDE DEF X, Y
    <2>2. SumFunctionOnSet(f, X \union Y) = SumFunctionOnSet(f, X) + SumFunctionOnSet(f, Y)
      BY <2>1, SumOfUnion
    <2> QED
      BY <2>2 DEF X, Y
  <1>14. SumFunctionOnSet(f, P \X N) = SumFunctionOnSet(W, P) * SumFunctionOnSet(W, N)
    <2>1. \A v \in P : \A u \in N : f[<<v, u>>] = W[v] * W[u]
      BY <1>11
    <2> QED
      BY <1>1, <1>11, <2>1, SumOfProducts
  <1>15. SumFunctionOnSet(f, N \X P) = SumFunctionOnSet(W, N) * SumFunctionOnSet(W, P)
    <2>1. \A u \in N : \A v \in P : f[<<u, v>>] = W[u] * W[v]
      BY <1>11
    <2> QED
      BY <1>1, <1>11, <2>1, SumOfProducts
  <1>16. SumFunction(f) = SumFunctionOnSet(f, Both)
    <2>1. DOMAIN f = Both
      BY <1>6
    <2> QED
      BY <2>1 DEF SumFunction
  <1>17. WinnerReversal(margin) = SumFunction(f)
    <2>1. SumFunction(f) = MP * MN + MN * MP
      BY <1>8, <1>13, <1>14, <1>15, <1>16
    <2>2. WinnerReversal(margin) = 2 * MP * MN
      BY <1>2 DEF WinnerReversal
    <2> HIDE DEF MP, MN
    <2>3. \A x, y \in Int : 2 * x * y = x * y + y * x
      OBVIOUS
    <2> QED
      BY <1>1, <2>1, <2>2, <2>3
  <1> QED
    BY <1>17 DEF f, Both
LEMMA ExactMargin ==
    ASSUME NEW tasks, NEW choice, NEW margin, Exact(tasks, choice, margin)
    PROVE  /\ DOMAIN margin = {MarginOf(tasks, v) : v \in Possible(tasks, choice)}
           /\ \A s \in DOMAIN margin : margin[s] = WeightOver(tasks, choice, Scoring(tasks, choice, s))
           /\ Total * ExpectedMargin(margin) = WeightOver(tasks, choice, Vectors(tasks)) * Expected(tasks, choice)
  <1> DEFINE V == Vectors(tasks)
             P == Possible(tasks, choice)
             W == WeightOf(tasks, choice)
             L == ScoreOf(tasks)
             M == Moment(tasks, choice)
             D == DOMAIN margin
  <1>1. /\ P \in SUBSET V /\ IsFiniteSet(P) /\ IsFiniteSet(V)
        /\ \A v \in V : W[v] = VectorWeight(tasks, choice, v) /\ L[v] = MarginOf(tasks, v) /\ W[v] \in Nat /\ L[v] \in Int
        /\ \A d : d \in D <=> \E v \in P : L[v] = d
        /\ \A d \in D : margin[d] = SumFunctionOnSet(W, Fibre(P, L, d)) /\ d \in Int
    BY PossibleFacts
  <1>2. D = {MarginOf(tasks, v) : v \in P}
    <2> HIDE DEF V, P, W, L, D
    <2>1. \A d : d \in D <=> \E v \in P : MarginOf(tasks, v) = d
      BY <1>1
    <2> QED
      BY <2>1
  <1>3. ASSUME NEW s \in D
        PROVE  margin[s] = WeightOver(tasks, choice, Scoring(tasks, choice, s))
    <2> DEFINE Q == Scoring(tasks, choice, s)
               f == [v \in Q |-> VectorWeight(tasks, choice, v)]
    <2>1. Q = Fibre(P, L, s)
      <3>1. \A v : v \in Q <=> v \in P /\ MarginOf(tasks, v) = s
        BY DEF Scoring
      <3>2. \A v : v \in Fibre(P, L, s) <=> v \in P /\ L[v] = s
        BY DEF Fibre
      <3> HIDE DEF Q, P, L, V, W
      <3>3. \A v : v \in Q <=> v \in Fibre(P, L, s)
        BY <1>1, <3>1, <3>2
      <3>4. Q \subseteq P
        BY <3>1
      <3>5. Fibre(P, L, s) \subseteq P
        BY <3>2
      <3> QED
        BY <3>3, <3>4, <3>5
    <2>2. Q \in SUBSET P /\ DOMAIN f = Q /\ \A v \in Q : f[v] = VectorWeight(tasks, choice, v)
      BY DEF Scoring
    <2>3. WeightOver(tasks, choice, Q) = SumFunctionOnSet(f, Q)
      <3>1. WeightOver(tasks, choice, Q) = SumFunction(f)
        BY DEF WeightOver
      <3> HIDE DEF f
      <3> QED
        BY <2>2, <3>1 DEF SumFunction
    <2> HIDE DEF Q, f, P, V, W, L
    <2>4. IsFiniteSet(Q) /\ \A v \in Q : W[v] \in Int /\ f[v] = W[v]
      BY <1>1, <2>2, FS_Subset
    <2>5. SumFunctionOnSet(W, Q) = SumFunctionOnSet(f, Q)
      BY <2>4, SumEqual
    <2>6. margin[s] = SumFunctionOnSet(W, Q)
      BY <1>1, <2>1
    <2> QED
      BY <2>3, <2>5, <2>6 DEF Q
  <1>4. ExpectedMargin(margin) = TotalMoment(tasks, choice)
    <2> DEFINE c == [s \in Int |-> s]
               j == [s \in D |-> s * margin[s]]
    <2>1. ExpectedMargin(margin) = SumFunctionOnSet(j, D)
      <3>1. ExpectedMargin(margin) = SumFunction(j) /\ DOMAIN j = D
        BY DEF ExpectedMargin
      <3> HIDE DEF j
      <3> QED
        BY <3>1 DEF SumFunction
    <2>2. Counted(margin, V, W, L)
      BY DEF Exact
    <2>3. (\A s \in Int : c[s] = s) /\ (\A s \in D : j[s] = s * margin[s])
      OBVIOUS
    <2>4. \A v \in V : M[v] = MarginOf(tasks, v) * VectorWeight(tasks, choice, v)
      BY DEF Moment
    <2> HIDE DEF V, P, W, L, M, D, c, j
    <2>5. Charged(V, W, L, margin, c, M, j)
      <3>1. \A v \in V : c[L[v]] \in Int /\ M[v] = c[L[v]] * W[v]
        BY <1>1, <2>3, <2>4
      <3>2. \A s \in DOMAIN margin : j[s] = c[s] * margin[s]
        BY <1>1, <2>3 DEF D
      <3> QED
        BY <1>1, <2>2, <3>1, <3>2 DEF Charged
    <2>6. SumFunctionOnSet(j, DOMAIN margin) = SumFunctionOnSet(M, V)
      BY <2>5, SumOverCounts
    <2> QED
      BY <2>1, <2>6 DEF TotalMoment, D, M, V
  <1>5. WeightOver(tasks, choice, V) = TotalWeight(tasks, choice)
    <2>1. WeightOver(tasks, choice, V) = SumFunction(W) /\ DOMAIN W = V
      BY DEF WeightOver, WeightOf
    <2> HIDE DEF W, V
    <2>2. WeightOver(tasks, choice, V) = SumFunctionOnSet(W, V)
      BY <2>1 DEF SumFunction
    <2> QED
      BY <2>2 DEF TotalWeight, W, V
  <1>6. Total * TotalMoment(tasks, choice) = TotalWeight(tasks, choice) * Expected(tasks, choice)
    BY DEF Exact
  <1> QED
    BY <1>2, <1>3, <1>4, <1>5, <1>6

LEMMA CertifiedHolds ==
    ASSUME NEW tasks \in Seq(StudiedTasks), NEW choice \in Distributions
    PROVE  LET distances == SumFunction([i \in DOMAIN tasks |-> Distance(tasks[i], choice)])
               sign == CertifiedSign(Expected(tasks, [type |-> "uniform"]), BoundOnExpectedMarginChange(distances))
           IN  /\ sign # 0 => Sign(Expected(tasks, choice)) = sign
               /\ choice.type = "canonical_bias" =>
                     \A i \in DOMAIN tasks :
                         Distance(tasks[i], choice) = TwiceTVBudgetForCanonicalBias(choice.p, NRefs(tasks[i]))
  <1> DEFINE F == Expected(tasks, choice)
             G == Expected(tasks, UniformChoice)
             D == SumFunction([i \in DOMAIN tasks |-> Distance(tasks[i], choice)])
             M == K * D
  <1>1. F \in Int /\ G \in Int /\ D \in Int /\ F - G <= K * D /\ G - F <= K * D
    BY TasksMove
  <1>2. K \in Nat
    BY StudyAssumption
  <1>3. CertifiedSign(Expected(tasks, [type |-> "uniform"]), BoundOnExpectedMarginChange(D)) = CertifiedSign(G, M)
    BY DEF UniformChoice, BoundOnExpectedMarginChange
  <1>4. ASSUME CertifiedSign(G, M) # 0
        PROVE  Sign(F) = CertifiedSign(G, M)
    <2> HIDE DEF F, G, D
    <2>1. M \in Int /\ F - G <= M /\ G - F <= M
      BY <1>1, <1>2
    <2> HIDE DEF M
    <2> QED
      BY <1>1, <1>4, <2>1, SignHolds
  <1>5. ASSUME choice.type = "canonical_bias", NEW i \in DOMAIN tasks
        PROVE  Distance(tasks[i], choice) = TwiceTVBudgetForCanonicalBias(choice.p, NRefs(tasks[i]))
    <2>1. tasks[i] \in StudiedTasks
      BY ElementOfSeq, LenProperties
    <2> QED
      BY <1>5, <2>1, ClosedForm
  <1> QED
    BY <1>3, <1>4, <1>5

Studied ==
    study = NoStudy \/ /\ study.choice \in Distributions /\ study.tasks \in Seq(StudiedTasks)
                       /\ Exact(study.tasks, study.choice, study.margin)
StudyInv == DOMAIN study = DOMAIN NoStudy /\ Studied

LEMMA StudyGoesOn ==
    ASSUME StudyInv, [StudyNext]_study
    PROVE  StudyInv'
  <1>1. CASE StartStudy
    <2>1. PICK choice \in Distributions : study = NoStudy /\ study' = [study EXCEPT !.choice = choice]
      BY <1>1 DEF StartStudy
    <2>2. /\ DOMAIN study' = DOMAIN NoStudy
          /\ study'.choice = choice /\ study'.tasks = <<>> /\ study'.margin = NoStudy.margin
      BY <2>1 DEF NoStudy
    <2>3. Exact(<<>>, choice, NoStudy.margin) /\ <<>> \in Seq(StudiedTasks)
      BY NothingExact
    <2> QED
      BY <2>2, <2>3 DEF StudyInv, Studied, NoStudy
  <1>2. CASE StudyTask
    <2>1. PICK task \in StudiedTasks :
             study' = [study EXCEPT !.tasks = Append(@, task),
                                    !.margin = Convolve(@, PerTaskDiffs(task, Weights(task, study.choice)))]
      BY <1>2 DEF StudyTask
    <2>2. /\ DOMAIN study = DOMAIN NoStudy
          /\ study.choice \in Distributions /\ study.tasks \in Seq(StudiedTasks)
          /\ Exact(study.tasks, study.choice, study.margin)
      BY <1>2 DEF StudyTask, StudyInv, Studied
    <2>3. /\ DOMAIN study' = DOMAIN NoStudy
          /\ study'.choice = study.choice
          /\ study'.tasks = Append(study.tasks, task)
          /\ study'.margin = Convolve(study.margin, PerTaskDiffs(task, Weights(task, study.choice)))
      <3>1. "choice" \in DOMAIN study /\ "tasks" \in DOMAIN study /\ "margin" \in DOMAIN study
        BY <2>2 DEF NoStudy
      <3> QED
        BY <2>1, <2>2, <3>1
    <2>4. Exact(study'.tasks, study'.choice, study'.margin)
      BY <2>2, <2>3, OneMoreExact
    <2>5. study'.tasks \in Seq(StudiedTasks)
      BY <2>2, <2>3, AppendProperties
    <2> QED
      BY <2>2, <2>3, <2>4, <2>5 DEF StudyInv, Studied, NoStudy
  <1>3. CASE UNCHANGED study
    BY <1>3 DEF StudyInv, Studied
  <1> QED
    BY <1>1, <1>2, <1>3 DEF StudyNext

(* What is said of a margin is so, for every set of tasks and whatever the *)
(* studied weights: the distribution that is convolved task by task (the   *)
(* dict loops of exact_margin_distribution.py) is that of all vectors of   *)
(* references, its expectation and its chance that two draws disagree on   *)
(* the winner included; and a sign robustness_certificate.py certifies is  *)
(* the sign under every distribution within the bound.                     *)
THEOREM MarginsAreCertain == StudySpec => []MarginIsCertain
  <1>1. StudyInit => StudyInv
    BY DEF StudyInit, StudyInv, Studied
  <1>2. StudyInv /\ [StudyNext]_study => StudyInv'
    BY StudyGoesOn
  <1>3. StudyInv => MarginIsCertain
    <2> SUFFICES ASSUME StudyInv, study # NoStudy
                 PROVE  MarginIsCertain
      BY DEF MarginIsCertain, MarginIsExact, CertificateIsSound
    <2> DEFINE tasks == study.tasks
               choice == study.choice
               margin == study.margin
    <2>1. choice \in Distributions /\ tasks \in Seq(StudiedTasks) /\ Exact(tasks, choice, margin)
      BY DEF StudyInv, Studied
    <2> HIDE DEF tasks, choice, margin
    <2>2. /\ DOMAIN margin = {MarginOf(tasks, v) : v \in Possible(tasks, choice)}
          /\ \A s \in DOMAIN margin : margin[s] = WeightOver(tasks, choice, Scoring(tasks, choice, s))
          /\ Total * ExpectedMargin(margin) = WeightOver(tasks, choice, Vectors(tasks)) * Expected(tasks, choice)
      BY <2>1, ExactMargin
    <2>3. WinnerReversal(margin) =
             SumFunction([p \in Opposed(tasks, choice) |->
                             VectorWeight(tasks, choice, p[1]) * VectorWeight(tasks, choice, p[2])])
      BY <2>1, ReversalExact
    <2>4. LET distances == SumFunction([i \in DOMAIN tasks |-> Distance(tasks[i], choice)])
              sign == CertifiedSign(Expected(tasks, [type |-> "uniform"]), BoundOnExpectedMarginChange(distances))
          IN  /\ sign # 0 => Sign(Expected(tasks, choice)) = sign
              /\ choice.type = "canonical_bias" =>
                    \A i \in DOMAIN tasks :
                        Distance(tasks[i], choice) = TwiceTVBudgetForCanonicalBias(choice.p, NRefs(tasks[i]))
      BY <2>1, CertifiedHolds
    <2>5. MarginIsExact
      BY <2>2, <2>3 DEF MarginIsExact, tasks, choice, margin
    <2>6. CertificateIsSound
      BY <2>4 DEF CertificateIsSound, tasks, choice
    <2> QED
      BY <2>5, <2>6 DEF MarginIsCertain
  <1> QED
    BY <1>1, <1>2, <1>3, PTL DEF StudySpec
=============================================================================
