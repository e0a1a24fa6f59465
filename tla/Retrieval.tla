----------------------------- MODULE Retrieval -----------------------------
(***************************************************************************)
(* One query through the retrieval pipeline (src/pipeline.py and the       *)
(* stages it calls): query texts, rankings of the retrievers, rank fusion, *)
(* cap per source, reranking, diversification, expansion to parents.  Each *)
(* stage narrows what the one before hands it.                             *)
(*                                                                         *)
(* A ranking is a sequence of [chunk, score]; its ranks are its positions. *)
(* How a model scores a text is open.  Two chunks are similar (cosine 1)   *)
(* if they have the same source and unrelated (0) otherwise.               *)
(***************************************************************************)
EXTENDS Arrangement, SequencesExt

CONSTANTS
    Chunks, ParentOf, NoParent,  \* the indexed chunks, their slides, pages or sections
    Settings,                    \* the configurations explored
    RrfK, Scale,                 \* rrf_k; a common multiple of the weights' denominators
    Levels                       \* the scores a model may give

ASSUME RetrievalAssumption ==
    /\ IsFiniteSet(Chunks) /\ Levels \subseteq Int
    /\ RrfK \in Nat /\ Scale \in Nat \ {0} /\ \A rank \in 1 .. Cardinality(Chunks) : Scale % (RrfK + rank) = 0

(* As config.py:90-199 has them; nothing checks what a user sets.  A stage *)
(* keeps something, and the pool is a multiple of what the next one keeps. *)
ASSUME SettingsAssumption ==
    \A s \in Settings :
       /\ {s.top_k, s.cap, s.variants} \subseteq Nat
       /\ {s.top_n, s.mmr_k} \subseteq Nat \ {0} /\ s.multiplier \in Nat \ {0, 1}
       /\ {s.multi_query, s.mmr} \subseteq BOOLEAN

VARIABLE query

NoQuery == [stage |-> "idle", setting |-> NoParent, texts |-> 0, halves |-> <<>>, ranked |-> <<>>,
            candidates |-> <<>>, left |-> 0]

Scored(c, s) == [chunk |-> c, score |-> s]
Cut(list, n) == SubSeq(list, 1, Min({n, Len(list)}))
Ids(list)    == {list[i].chunk : i \in DOMAIN list}
Source(c)    == IF ParentOf[c] = NoParent THEN c ELSE ParentOf[c]

(* Python's sort is stable.                                                *)
Descending(list) ==
    LET better(i, j) == list[i].score > list[j].score \/ (list[i].score = list[j].score /\ i < j)
        order == Arranged(DOMAIN list, {p \in (DOMAIN list) \X DOMAIN list : better(p[1], p[2])})
    IN  [i \in DOMAIN order |-> list[order[i]]]

----------------------------------------------------------------------------
(* _stage_sizes: a stage is handed more than it keeps.                     *)

(* Mutant: the plain configured sizes.                                     *)
StageSizesPlain(s) == [pool |-> s.top_k, rerank |-> s.top_n]

StageSizes(s) ==
    LET reranks   == s.reranker # "none"
        rerank    == IF reranks /\ s.mmr THEN Max({s.top_n, 2 * s.mmr_k}) ELSE s.top_n
        narrowest == IF reranks THEN rerank ELSE s.mmr_k
    IN  IF ~reranks /\ ~s.mmr THEN [pool |-> s.top_k, rerank |-> s.top_n]
        ELSE [pool |-> Max({s.top_k, narrowest * s.multiplier}), rerank |-> rerank]

Asked(s) == StageSizes(s).pool * (IF s.cap > 0 THEN 2 ELSE 1)

(* One dense or BM25 ranking of the corpus for one text.  A single ranking *)
(* is used with its scores, fused ones by their order alone.               *)
Rankings(s) ==
    LET orders == {o \in [1 .. Cardinality(Chunks) -> Chunks] : IsInjective(o)}
        falling == {f \in [1 .. Cardinality(Chunks) -> Levels] : \A i \in 2 .. Cardinality(Chunks) : f[i] <= f[i - 1]}
        scores == IF s.technique = "hybrid_rrf" \/ s.multi_query THEN {[i \in 1 .. Cardinality(Chunks) |-> 0]} ELSE falling
    IN  {Cut([i \in DOMAIN o |-> Scored(o[i], f[i])], Asked(s)) : o \in orders, f \in scores}

Halves(s) == IF s.technique = "hybrid_rrf" THEN 2 ELSE 1

Weight(rank) == Scale \div (RrfK + rank)

WeightIn(list, c) == SumFunction([i \in DOMAIN list |-> IF list[i].chunk = c THEN Weight(i) ELSE 0])

(* Mutant: a chunk's place in a later list replaces that in an earlier one.*)
LastPlace(lists, c) == WeightIn(lists[Max({i \in DOMAIN lists : c \in Ids(lists[i])})], c)

FusedScore(lists, c) == SumFunction([i \in DOMAIN lists |-> WeightIn(lists[i], c)])

(* Where the lists, one after the other, first have a chunk.               *)
Earlier(p, q) == p[1] < q[1] \/ (p[1] = q[1] /\ p[2] < q[2])
FirstSeen(lists, c) ==
    LET places == {p \in UNION {{i} \X DOMAIN lists[i] : i \in DOMAIN lists} : lists[p[1]][p[2]].chunk = c}
    IN  CHOOSE p \in places : \A q \in places : p = q \/ Earlier(p, q)

(* reciprocal_rank_fusion; of equals, the one seen first.                  *)
Fused(lists, k) ==
    LET seen  == UNION {Ids(lists[i]) : i \in DOMAIN lists}
        score == [c \in seen |-> FusedScore(lists, c)]
        first == [c \in seen |-> FirstSeen(lists, c)]
        better(c, d) == score[c] > score[d] \/ (score[c] = score[d] /\ Earlier(first[c], first[d]))
        order == Arranged(seen, {p \in seen \X seen : better(p[1], p[2])})
    IN  Cut([i \in DOMAIN order |-> Scored(order[i], score[order[i]])], k)

(* cap_chunks_per_parent: a chunk is kept if fewer than limit of its       *)
(* source come before it.                                                  *)
Capped(list, limit) ==
    LET fellows(i) == {j \in 1 .. i - 1 : Source(list[j].chunk) = Source(list[i].chunk)}
    IN  IF limit <= 0 THEN list ELSE Picked(list, {i \in DOMAIN list : Cardinality(fellows(i)) < limit})

(* mmr_select with lambda 1/2, doubled and scaled by the spread of scores. *)
Diverse(list, k) ==
    LET scores == {list[i].score : i \in DOMAIN list}
        spread == IF Max(scores) = Min(scores) THEN 1 ELSE Max(scores) - Min(scores)
        relevance(i) == IF Max(scores) = Min(scores) THEN 1 ELSE list[i].score - Min(scores)
        similar(i, chosen) == \E j \in ToSet(chosen) : Source(list[j].chunk) = Source(list[i].chunk)
        value(i, chosen) == relevance(i) - (IF similar(i, chosen) THEN spread ELSE 0)
        Pick(chosen, n) ==
            LET rest == DOMAIN list \ ToSet(chosen)
                best == {i \in rest : \A j \in rest : value(j, chosen) <= value(i, chosen)}
            IN  Append(chosen, Min(best))
        picks == FoldLeft(Pick, <<>>, [n \in 1 .. Min({k, Len(list)}) |-> n])
    IN  [n \in DOMAIN picks |-> list[picks[n]]]

(* expand_to_parents: a parent's text once, in place of its first chunk.   *)
Expanded(list) ==
    LET Widen(out, x) == IF ParentOf[x.chunk] # NoParent /\ \E i \in DOMAIN out : Source(out[i].chunk) = ParentOf[x.chunk]
                         THEN out ELSE Append(out, x)
    IN  FoldLeft(Widen, <<>>, list)

----------------------------------------------------------------------------
UsesModel(s) == s.technique = "hyde" \/ s.multi_query \/ s.reranker = "llm_rerank"

(* The model may write fewer variants than it was asked for.               *)
Ask(s) ==
    /\ query.stage = "idle"
    /\ \E n \in IF s.multi_query THEN 0 .. s.variants ELSE {0} :
          query' = [NoQuery EXCEPT !.stage = "search", !.setting = s, !.texts = 1 + n]

ModelCallFails ==
    /\ query.stage \in {"search", "rerank"} /\ UsesModel(query.setting)
    /\ query' = [query EXCEPT !.stage = "failed"]

Search ==
    /\ query.stage = "search" /\ Len(query.ranked) < query.texts
    /\ Len(query.halves) < Halves(query.setting)
    /\ \E list \in Rankings(query.setting) : query' = [query EXCEPT !.halves = Append(@, list)]

OneText ==
    /\ query.stage = "search" /\ Len(query.halves) = Halves(query.setting)
    /\ LET list == IF Halves(query.setting) = 2 THEN Fused(query.halves, Asked(query.setting)) ELSE query.halves[1]
       IN  query' = [query EXCEPT !.ranked = Append(@, list), !.halves = <<>>]

Pool ==
    /\ query.stage = "search" /\ Len(query.ranked) = query.texts
    /\ LET s    == query.setting
           raw  == IF s.multi_query THEN Fused(query.ranked, Asked(s)) ELSE query.ranked[1]
           kept == Capped(raw, s.cap)
       IN  query' = [query EXCEPT !.stage = "rerank", !.left = Len(kept), !.ranked = <<>>,
                                  !.candidates = IF s.cap > 0 THEN Cut(kept, StageSizes(s).pool) ELSE kept]

Rerank ==
    /\ query.stage = "rerank"
    /\ LET list == query.candidates
       IN  IF query.setting.reranker = "none" THEN query' = [query EXCEPT !.stage = "diversify"]
           ELSE \E f \in [DOMAIN list -> Levels] :
                   query' = [query EXCEPT !.stage = "diversify",
                                !.candidates = Cut(Descending([i \in DOMAIN list |-> Scored(list[i].chunk, f[i])]),
                                                   StageSizes(query.setting).rerank)]

Diversify ==
    /\ query.stage = "diversify"
    /\ query' = [query EXCEPT !.stage = "expand",
                              !.candidates = IF query.setting.mmr THEN Diverse(@, query.setting.mmr_k) ELSE @]

Expand ==
    /\ query.stage = "expand"
    /\ query' = [query EXCEPT !.stage = "done", !.candidates = IF query.setting.expand THEN Expanded(@) ELSE @]

QueryInit == query = NoQuery
QueryNext ==
    \/ \E s \in Settings : Ask(s)
    \/ ModelCallFails \/ Search \/ OneText \/ Pool \/ Rerank \/ Diversify \/ Expand

QuerySpec == QueryInit /\ [][QueryNext]_query

----------------------------------------------------------------------------
(* "Each filtering stage needs to be handed more candidates than it keeps, *)
(* or it cannot filter" (pipeline.py:104): reranker and diversifier choose *)
(* among more than they keep, or among all that the cap left.              *)
HasChoice(n) == Len(query.candidates) > n \/ Len(query.candidates) = query.left

FiltersHaveChoice ==
    /\ query.stage = "rerank" /\ query.setting.reranker # "none" => HasChoice(StageSizes(query.setting).rerank)
    /\ query.stage = "diversify" /\ query.setting.mmr => HasChoice(query.setting.mmr_k)

(* Fusion keeps what the rankings agree on, although each was cut off: if  *)
(* a is ahead of b in every ranking that has b, a is ahead of b in the     *)
(* fused one, which has b only if it has a.                                *)
Place(list, c) == IF c \in Ids(list) THEN CHOOSE i \in DOMAIN list : list[i].chunk = c ELSE Cardinality(Chunks) + 1
Ahead(list, a, b) == Place(list, a) < Place(list, b)

KeepsAgreement(lists, k) ==
    LET fused == Fused(lists, k)
    IN  \A b \in Ids(fused), a \in Chunks :
            (\A i \in DOMAIN lists : b \in Ids(lists[i]) => Ahead(lists[i], a, b)) => Ahead(fused, a, b)

AgreementWins ==
    query.stage = "search" =>
        /\ Len(query.halves) = 2 => KeepsAgreement(query.halves, Asked(query.setting))
        /\ Len(query.ranked) = query.texts => KeepsAgreement(query.ranked, Asked(query.setting))

(* Each stage has something to choose from, and what several rankings      *)
(* agree on is not ranked behind what fewer of them found.                 *)
RankingIsSound == FiltersHaveChoice /\ AgreementWins
=============================================================================
