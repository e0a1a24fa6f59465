---------------------------- MODULE CorpusProofs -----------------------------
(***************************************************************************)
(* The way of the course material, from a file of any size to the contexts *)
(* of an answer: nothing of a file is lost on its way into chunks, and     *)
(* rankings of the chunks are sound, whatever the settings are and however *)
(* the models score them.                                                  *)
(***************************************************************************)
EXTENDS Ingestion, Retrieval, CollectionLemmas

----------------------------------------------------------------------------
(* Windows.  The one that covers a word is the last that starts at or      *)
(* before it: the next window starts after the word's first character, so  *)
(* the word, being no longer than the overlap, ends in front of this one's *)
(* end, and the blank behind it is not beyond the window's last blank.     *)

LEMMA WindowCoversWord ==
    ASSUME NEW text \in Seq({"x", "blank"}), NEW size \in Nat, NEW overlap \in Nat, overlap < size,
           NEW a \in DOMAIN text, NEW b \in DOMAIN text, a <= b, b - a + 1 <= overlap,
           b + 1 \in DOMAIN text => text[b + 1] = "blank"
    PROVE  \E window \in Windows(text, size, overlap) : a .. b \subseteq window
  <1> DEFINE n == Len(text)
             step == Step(size, overlap)
             starts == {s \in {k * step : k \in 0 .. n} : s = 0 \/ s - step + size < n}
             blanks(s) == {i \in s + 2 .. s + size : text[i] = "blank"}
             ends(s) == IF s + size >= n THEN n ELSE IF blanks(s) = {} THEN s + size ELSE Max(blanks(s)) - 1
  <1>1. n \in Nat /\ DOMAIN text = 1 .. n /\ a \in Nat /\ b \in Nat /\ 1 <= a /\ b <= n
    BY LenProperties
  <1>2. step = size - overlap /\ step \in Nat /\ 1 <= step /\ step <= size
    BY PairFacts DEF Step
  <1>3. Windows(text, size, overlap) = {s + 1 .. ends(s) : s \in starts}
    BY DEF Windows
  <1> HIDE DEF n, step, ends
  <1>4. \A k \in Nat : k * step \in Nat /\ k <= k * step /\ (k + 1) * step = k * step + step
    <2> DEFINE T == {k \in Nat : k * step \in Nat /\ k <= k * step}
    <2>1. \A k \in Nat : (k + 1) * step = k * step + step
      BY <1>2
    <2>2. 0 \in T
      BY <1>2
    <2>3. ASSUME NEW k \in Nat, k \in T
          PROVE  k + 1 \in T
      <3>1. (k + 1) * step = k * step + step
        BY <2>1
      <3> DEFINE x == k * step
      <3>2. x \in Nat /\ k <= x
        BY <2>3
      <3> HIDE DEF x
      <3>3. x + step \in Nat /\ k + 1 <= x + step
        BY <1>2, <3>2
      <3> QED
        BY <3>1, <3>3 DEF x
    <2> QED
      BY <2>1, <2>2, <2>3, Induction
  <1>5. 0 \in starts
    <2>1. 0 = 0 * step /\ 0 \in 0 .. n
      BY <1>1, <1>2
    <2> QED
      BY <2>1
  <1> DEFINE early == {s \in starts : s < a}
  <1>6. early \subseteq Nat /\ early # {} /\ \A s \in early : s <= n
    <2>1. \A s \in starts : s \in Nat
      BY <1>4
    <2> HIDE DEF starts
    <2> QED
      BY <1>1, <1>5, <2>1
  <1>7. PICK m \in early : \A s \in early : m >= s
    BY <1>1, <1>6, MaxFacts
  <1>8. m \in Nat /\ m < a /\ m \in starts
    BY <1>6, <1>7
  <1>9. CASE m + size >= n
    <2>1. ends(m) = n
      BY <1>9 DEF ends
    <2>2. a .. b \subseteq m + 1 .. ends(m)
      BY <1>1, <1>8, <2>1
    <2> QED
      BY <1>3, <1>8, <2>2
  <1>10. CASE m + size < n
    <2>1. m + step \in starts
      <3>1. PICK k \in 0 .. n : m = k * step
        BY <1>8
      <3>2. m + step = (k + 1) * step /\ k <= m
        BY <1>4, <3>1
      <3>3. k + 1 \in 0 .. n
        BY <1>1, <1>2, <1>8, <1>10, <3>2
      <3>4. (m + step) - step + size < n
        BY <1>1, <1>2, <1>8, <1>10
      <3> QED
        BY <3>2, <3>3, <3>4
    <2>2. a <= m + step
      <3>1. m + step \notin early
        <4> HIDE DEF early
        <4> QED
          BY <1>2, <1>7, <1>8
      <3> QED
        BY <1>1, <1>2, <1>8, <2>1, <3>1
    <2>3. b < m + size
      BY <1>1, <1>2, <1>8, <2>2
    <2>4. b + 1 \in blanks(m)
      <3>1. b + 1 \in DOMAIN text
        BY <1>1, <1>8, <1>10, <2>3
      <3> QED
        BY <1>1, <1>8, <2>3, <3>1
    <2>5. ends(m) \in Int /\ b <= ends(m)
      <3>1. blanks(m) \subseteq Nat /\ \A i \in blanks(m) : i <= m + size
        BY <1>8
      <3>2. Max(blanks(m)) \in Nat /\ b + 1 <= Max(blanks(m))
        <4> DEFINE B == blanks(m)
        <4> HIDE DEF B
        <4>1. B \subseteq Nat /\ B # {} /\ b + 1 \in B /\ m + size \in Nat /\ \A i \in B : i <= m + size
          BY <1>8, <2>4, <3>1 DEF B
        <4>2. Max(B) \in B /\ b + 1 <= Max(B)
          BY <4>1, MaxFacts
        <4> QED
          BY <4>1, <4>2 DEF B
      <3>3. ends(m) = Max(blanks(m)) - 1
        BY <1>1, <1>8, <1>10, <2>4 DEF ends
      <3> DEFINE last == Max(blanks(m))
      <3>4. last \in Nat /\ b + 1 <= last /\ ends(m) = last - 1
        BY <3>2, <3>3
      <3> HIDE DEF last, blanks
      <3> QED
        BY <1>1, <3>4
    <2>6. a .. b \subseteq m + 1 .. ends(m)
      BY <1>1, <1>8, <2>5
    <2> QED
      BY <1>3, <1>8, <2>6
  <1> QED
    BY <1>1, <1>8, <1>9, <1>10

LEMMA WordsKept ==
    ASSUME reading.input \in Seq({"x", "blank"})
    PROVE  WordsStayWhole
  <1> DEFINE text == reading.input
  <1> SUFFICES ASSUME NEW w \in WordsIn(text), Cardinality(w) <= ChunkOverlap
               PROVE  \E window \in Windows(text, ChunkSize, ChunkOverlap) : w \subseteq window
    BY DEF WordsStayWhole
  <1>1. DOMAIN text = 1 .. Len(text) /\ Len(text) \in Nat
    BY LenProperties
  <1>2. PICK a \in DOMAIN text, b \in DOMAIN text : w = a .. b
    BY DEF WordsIn
  <1>3. a \in Nat /\ b \in Nat /\ a <= b
    BY <1>1, <1>2 DEF WordsIn
  <1>4. Cardinality(w) = b - a + 1
    BY <1>2, <1>3, FS_Interval
  <1>5. Max(w) = b
    BY <1>2, <1>3 DEF Max
  <1>6. b + 1 \in DOMAIN text => text[b + 1] = "blank"
    BY <1>5 DEF WordsIn
  <1> QED
    BY <1>2, <1>3, <1>4, <1>6, WindowCoversWord, WindowAssumption

----------------------------------------------------------------------------
(* DOCX.  The current section stands under the headings that are still     *)
(* open, whose levels rise, and every section before it keeps the headings *)
(* it was closed with.                                                     *)

Section == [heading : Nat, path : Seq(Nat), body : Seq(Nat)]

Under(input, n) ==
    {h \in 1 .. n : input[h] > 0 /\ \A k \in h + 1 .. n : input[k] > 0 => input[k] > input[h]}

SectionOK(input, s) ==
    /\ s \in Section
    /\ s.heading <= Len(input)
    /\ \A a, b \in DOMAIN s.body : a < b => s.body[a] < s.body[b]
    /\ \A n \in {s.heading} \union ToSet(s.body) : ToSet(s.path) = Under(input, n)

OpenHeadings(input, path) ==
    /\ ToSet(path) = Under(input, Len(input))
    /\ \A i, j \in DOMAIN path : i < j => input[path[i]] < input[path[j]]

InFront(s, t) == \A x \in ToSet(s.body), y \in ToSet(t.body) : x < y

(* Each paragraph of body text is in a section, and nothing else is.       *)
Held(input, out, current) ==
    \A x : x \in DOMAIN input /\ input[x] = 0 <=>
             x \in ToSet(current.body) \/ \E i \in DOMAIN out : x \in ToSet(out[i].body)

DocumentOK(input, out, current) ==
    /\ input \in Seq(Nat) /\ out \in Seq(Section)
    /\ \A i \in DOMAIN out : SectionOK(input, out[i]) /\ InFront(out[i], current)
    /\ \A i, k \in DOMAIN out : i < k => InFront(out[i], out[k])
    /\ SectionOK(input, current) /\ OpenHeadings(input, current.path)
    /\ Held(input, out, current)

LEMMA AppendFacts ==
    ASSUME NEW S, NEW s \in Seq(S), NEW x \in S
    PROVE  LET t == Append(s, x) IN
           /\ t \in Seq(S) /\ Len(s) \in Nat /\ Len(t) = Len(s) + 1
           /\ DOMAIN s = 1 .. Len(s) /\ DOMAIN t = DOMAIN s \union {Len(s) + 1}
           /\ \A i \in DOMAIN s : t[i] = s[i]
           /\ t[Len(s) + 1] = x
           /\ ToSet(t) = ToSet(s) \union {x}
  <1> DEFINE t == Append(s, x)
  <1>1. /\ t \in Seq(S) /\ Len(t) = Len(s) + 1 /\ \A i \in 1 .. Len(s) : t[i] = s[i]
        /\ t[Len(s) + 1] = x
    BY AppendProperties
  <1> HIDE DEF t
  <1>2. DOMAIN s = 1 .. Len(s) /\ Len(s) \in Nat /\ DOMAIN t = 1 .. Len(t)
    BY <1>1, LenProperties
  <1>3. DOMAIN t = DOMAIN s \union {Len(s) + 1}
    BY <1>1, <1>2
  <1>4. ToSet(t) = ToSet(s) \union {x}
    BY <1>1, <1>2, <1>3 DEF ToSet
  <1> QED
    BY <1>1, <1>2, <1>3, <1>4 DEF t

(* What a paragraph adds leaves what stands under the earlier ones alone.  *)
LEMMA UnderAppend ==
    ASSUME NEW input \in Seq(Nat), NEW level \in Nat
    PROVE  LET longer == Append(input, level)
               n == Len(input)
           IN  /\ \A m \in 0 .. n : Under(longer, m) = Under(input, m)
               /\ level = 0 => Under(longer, n + 1) = Under(input, n)
               /\ level > 0 =>
                     Under(longer, n + 1) = {h \in Under(input, n) : input[h] < level} \union {n + 1}
  <1> DEFINE longer == Append(input, level)
             n == Len(input)
  <1>1. /\ n \in Nat /\ DOMAIN input = 1 .. n /\ \A i \in 1 .. n : longer[i] = input[i] /\ input[i] \in Nat
        /\ longer[n + 1] = level
    BY AppendFacts, LenProperties
  <1> HIDE DEF longer, n
  <1>2. ASSUME NEW m \in 0 .. n
        PROVE  Under(longer, m) = Under(input, m)
    <2>1. \A h \in 1 .. m : longer[h] = input[h] /\ \A k \in h + 1 .. m : longer[k] = input[k]
      BY <1>1, <1>2
    <2> QED
      BY <2>1 DEF Under
  <1>3. ASSUME level = 0
        PROVE  Under(longer, n + 1) = Under(input, n)
    <2>1. n + 1 \notin Under(longer, n + 1)
      BY <1>1, <1>3 DEF Under
    <2>2. ASSUME NEW h \in 1 .. n
          PROVE  h \in Under(longer, n + 1) <=> h \in Under(input, n)
      <3>1. \A k \in h + 1 .. n + 1 : k = n + 1 \/ k \in h + 1 .. n
        BY <1>1
      <3>2. h + 1 .. n \subseteq h + 1 .. n + 1 /\ h \in 1 .. n + 1
        BY <1>1
      <3>3. longer[h] = input[h] /\ \A k \in h + 1 .. n : longer[k] = input[k]
        BY <1>1
      <3> QED
        BY <1>1, <1>3, <3>1, <3>2, <3>3 DEF Under
    <2>3. \A h \in 1 .. n + 1 : h = n + 1 \/ h \in 1 .. n
      BY <1>1
    <2> QED
      BY <2>1, <2>2, <2>3 DEF Under
  <1>4. ASSUME level > 0
        PROVE  Under(longer, n + 1) = {h \in Under(input, n) : input[h] < level} \union {n + 1}
    BY <1>1, <1>4 DEF Under
  <1> QED
    BY <1>2, <1>3, <1>4 DEF longer, n

(* A section stays right when paragraphs follow it.                        *)
LEMMA SectionStays ==
    ASSUME NEW input \in Seq(Nat), NEW level \in Nat, NEW s, SectionOK(input, s),
           \A x \in ToSet(s.body) : x \in DOMAIN input
    PROVE  SectionOK(Append(input, level), s)
  <1>1. /\ Len(input) \in Nat /\ Len(Append(input, level)) = Len(input) + 1
        /\ DOMAIN input = 1 .. Len(input)
    BY AppendFacts
  <1>2. s.heading \in Nat /\ s.heading <= Len(input)
    BY DEF SectionOK, Section
  <1>3. ASSUME NEW n \in {s.heading} \union ToSet(s.body)
        PROVE  ToSet(s.path) = Under(Append(input, level), n)
    <2>1. n \in 0 .. Len(input)
      BY <1>1, <1>2
    <2> QED
      BY <2>1, UnderAppend DEF SectionOK
  <1>4. s.heading <= Len(Append(input, level))
    BY <1>1, <1>2
  <1> QED
    BY <1>3, <1>4 DEF SectionOK

LEMMA BodyKeeps ==
    ASSUME NEW input, NEW out, NEW current, DocumentOK(input, out, current)
    PROVE  DocumentOK(Append(input, 0), out, [current EXCEPT !.body = Append(@, Len(input) + 1)])
  <1> DEFINE n == Len(input)
             longer == Append(input, 0)
             next == [current EXCEPT !.body = Append(@, n + 1)]
  <1>1. /\ input \in Seq(Nat) /\ out \in Seq(Section)
        /\ \A i \in DOMAIN out : SectionOK(input, out[i]) /\ InFront(out[i], current)
        /\ \A i, k \in DOMAIN out : i < k => InFront(out[i], out[k])
        /\ SectionOK(input, current) /\ OpenHeadings(input, current.path)
        /\ Held(input, out, current)
    BY DEF DocumentOK
  <1>2. /\ longer \in Seq(Nat) /\ n \in Nat /\ Len(longer) = n + 1
        /\ DOMAIN input = 1 .. n /\ DOMAIN longer = DOMAIN input \union {n + 1}
        /\ \A i \in DOMAIN input : longer[i] = input[i] /\ input[i] \in Nat
        /\ longer[n + 1] = 0
    BY <1>1, AppendFacts, LenProperties
  <1>3. current \in Section
    BY <1>1 DEF SectionOK
  <1> DEFINE body == Append(current.body, n + 1)
  <1>4. /\ next \in Section /\ next.heading = current.heading /\ next.path = current.path
        /\ next.body = body
    <2>1. body \in Seq(Nat)
      BY <1>2, <1>3, AppendFacts DEF Section
    <2> HIDE DEF body
    <2>2. next = [current EXCEPT !.body = body]
      BY DEF body
    <2> QED
      BY <1>3, <2>1, <2>2 DEF Section
  <1>5. /\ ToSet(body) = ToSet(current.body) \union {n + 1} /\ Len(current.body) \in Nat
        /\ DOMAIN body = DOMAIN current.body \union {Len(current.body) + 1}
        /\ DOMAIN current.body = 1 .. Len(current.body)
        /\ \A i \in DOMAIN current.body : body[i] = current.body[i]
        /\ body[Len(current.body) + 1] = n + 1
    BY <1>2, <1>3, AppendFacts DEF Section
  <1> HIDE DEF next, body, longer, n
  <1>6. /\ \A i \in DOMAIN out : \A x \in ToSet(out[i].body) : x \in DOMAIN input
        /\ \A x \in ToSet(current.body) : x \in DOMAIN input
    BY <1>1 DEF Held
  <1>7. \A i \in DOMAIN out : SectionOK(longer, out[i])
    BY <1>1, <1>6, SectionStays DEF longer
  <1>8. SectionOK(longer, current)
    BY <1>1, <1>6, SectionStays DEF longer
  <1>9. ToSet(current.path) = Under(longer, n + 1)
    BY <1>1, UnderAppend DEF OpenHeadings, longer, n
  <1>10. SectionOK(longer, next)
    <2>1. \A a, b \in DOMAIN body : a < b => body[a] < body[b]
      <3> SUFFICES ASSUME NEW a \in DOMAIN body, NEW b \in DOMAIN body, a < b
                   PROVE  body[a] < body[b]
        OBVIOUS
      <3>1. a \in DOMAIN current.body
        BY <1>5
      <3>2. CASE b \in DOMAIN current.body
        BY <1>1, <1>5, <3>1, <3>2 DEF SectionOK
      <3>3. CASE b = Len(current.body) + 1
        <4>1. current.body[a] \in DOMAIN input
          BY <1>6, <3>1 DEF ToSet
        <4> QED
          BY <1>2, <1>5, <3>1, <3>3, <4>1
      <3> QED
        BY <1>5, <3>2, <3>3
    <2>2. \A m \in {next.heading} \union ToSet(body) : ToSet(next.path) = Under(longer, m)
      BY <1>4, <1>5, <1>8, <1>9 DEF SectionOK
    <2> QED
      BY <1>4, <1>8, <2>1, <2>2 DEF SectionOK
  <1>11. OpenHeadings(longer, next.path)
    <2>1. \A i \in DOMAIN current.path : current.path[i] \in DOMAIN input
      BY <1>1, <1>2 DEF OpenHeadings, Under, ToSet, n
    <2> QED
      BY <1>1, <1>2, <1>4, <1>9, <2>1 DEF OpenHeadings
  <1>12. ASSUME NEW i \in DOMAIN out
         PROVE  InFront(out[i], next)
    <2>1. \A x \in ToSet(out[i].body) : x < n + 1
      BY <1>2, <1>6
    <2> QED
      BY <1>1, <1>4, <1>5, <2>1 DEF InFront
  <1>13. Held(longer, out, next)
    BY <1>1, <1>2, <1>4, <1>5 DEF Held
  <1> QED
    BY <1>1, <1>2, <1>4, <1>7, <1>10, <1>11, <1>12, <1>13 DEF DocumentOK, next, longer, n

(* The path is cut behind its last heading of a higher rank: what is left  *)
(* are the headings of a higher rank, as their levels rise.                *)
CutAbove(input, path, level) ==
    SubSeq(path, 1, Max({k \in 0 .. Len(path) : k = 0 \/ input[path[k]] < level}))

LEMMA CutPath ==
    ASSUME NEW input \in Seq(Nat), NEW path \in Seq(Nat), NEW level \in Nat,
           \A i \in DOMAIN path : path[i] \in DOMAIN input,
           \A i, j \in DOMAIN path : i < j => input[path[i]] < input[path[j]]
    PROVE  LET cut == CutAbove(input, path, level) IN
               /\ cut \in Seq(Nat)
               /\ \A h : h \in ToSet(cut) <=> h \in ToSet(path) /\ input[h] < level
               /\ \A i, j \in DOMAIN cut : i < j => input[cut[i]] < input[cut[j]]
               /\ \A i \in DOMAIN cut : cut[i] \in ToSet(path)
  <1> DEFINE K == {k \in 0 .. Len(path) : k = 0 \/ input[path[k]] < level}
             m == Max(K)
             cut == SubSeq(path, 1, m)
  <1>1. DOMAIN path = 1 .. Len(path) /\ Len(path) \in Nat /\ \A i \in DOMAIN path : path[i] \in Nat
    BY LenProperties
  <1>2. \A i \in DOMAIN path : input[path[i]] \in Nat
    BY LenProperties
  <1>3. m \in K /\ \A k \in K : m >= k
    <2>1. K \subseteq Nat /\ K # {} /\ \A k \in K : k <= Len(path)
      BY <1>1
    <2> HIDE DEF K
    <2> QED
      BY <1>1, <2>1, MaxFacts
  <1> HIDE DEF m
  <1>4. m \in 0 .. Len(path) /\ (m = 0 \/ input[path[m]] < level)
    BY <1>3
  <1>5. \A k \in DOMAIN path : input[path[k]] < level => k <= m
    BY <1>1, <1>3
  <1> HIDE DEF K
  <1>6. cut \in Seq(Nat) /\ Len(cut) = m /\ \A i \in 1 .. m : cut[i] = path[i]
    BY <1>1, <1>4, SubSeqProperties
  <1>7. DOMAIN cut = 1 .. m
    BY <1>6, LenProperties
  <1> HIDE DEF cut
  <1>8. \A k \in DOMAIN path : k <= m => input[path[k]] < level
    <2> SUFFICES ASSUME NEW k \in DOMAIN path, k <= m
                 PROVE  input[path[k]] < level
      OBVIOUS
    <2>1. k \in Nat /\ 1 <= k /\ m \in DOMAIN path /\ input[path[m]] < level
      BY <1>1, <1>4
    <2>2. CASE k = m
      BY <2>1, <2>2
    <2>3. CASE k < m
      <3>1. input[path[k]] < input[path[m]]
        BY <2>1, <2>3
      <3> QED
        BY <1>2, <2>1, <3>1
    <2> QED
      BY <1>4, <2>1, <2>2, <2>3
  <1>9. ToSet(cut) = {h \in ToSet(path) : input[h] < level}
    <2>1. \A k \in DOMAIN path : k \in 1 .. m <=> input[path[k]] < level
      BY <1>1, <1>4, <1>5, <1>8
    <2>2. 1 .. m \subseteq DOMAIN path
      BY <1>1, <1>4
    <2> QED
      BY <1>6, <1>7, <2>1, <2>2 DEF ToSet
  <1>10. \A i, j \in DOMAIN cut : i < j => input[cut[i]] < input[cut[j]]
    BY <1>1, <1>4, <1>6, <1>7
  <1>11. \A i \in DOMAIN cut : cut[i] \in ToSet(path)
    BY <1>1, <1>4, <1>6, <1>7 DEF ToSet
  <1> QED
    BY <1>6, <1>9, <1>10, <1>11 DEF cut, m, K, CutAbove

LEMMA HeadingKeeps ==
    ASSUME NEW input, NEW out, NEW current, DocumentOK(input, out, current), NEW level \in Nat, level > 0,
           NEW kept \in Seq(Nat),
           ToSet(kept) = {h \in ToSet(current.path) : input[h] < level},
           \A i, j \in DOMAIN kept : i < j => input[kept[i]] < input[kept[j]]
    PROVE  DocumentOK(Append(input, level),
                      IF current.body = <<>> /\ current.heading = 0 THEN out ELSE Append(out, current),
                      [heading |-> Len(input) + 1, path |-> Append(kept, Len(input) + 1), body |-> <<>>])
  <1> DEFINE n == Len(input)
             longer == Append(input, level)
             path == Append(kept, n + 1)
             next == [heading |-> n + 1, path |-> path, body |-> <<>>]
             flushed == IF current.body = <<>> /\ current.heading = 0 THEN out ELSE Append(out, current)
  <1>1. /\ input \in Seq(Nat) /\ out \in Seq(Section)
        /\ \A i \in DOMAIN out : SectionOK(input, out[i]) /\ InFront(out[i], current)
        /\ \A i, k \in DOMAIN out : i < k => InFront(out[i], out[k])
        /\ SectionOK(input, current) /\ OpenHeadings(input, current.path)
        /\ Held(input, out, current)
    BY DEF DocumentOK
  <1>2. /\ longer \in Seq(Nat) /\ n \in Nat /\ Len(longer) = n + 1
        /\ DOMAIN input = 1 .. n /\ DOMAIN longer = DOMAIN input \union {n + 1}
        /\ \A i \in DOMAIN input : longer[i] = input[i] /\ input[i] \in Nat
        /\ longer[n + 1] = level
    BY <1>1, AppendFacts, LenProperties
  <1>3. current \in Section
    BY <1>1 DEF SectionOK
  <1>4. /\ path \in Seq(Nat) /\ ToSet(path) = ToSet(kept) \union {n + 1} /\ Len(kept) \in Nat
        /\ DOMAIN path = DOMAIN kept \union {Len(kept) + 1} /\ DOMAIN kept = 1 .. Len(kept)
        /\ \A i \in DOMAIN kept : path[i] = kept[i]
        /\ path[Len(kept) + 1] = n + 1
    BY <1>2, AppendFacts
  <1>5. next \in Section /\ next.heading = n + 1 /\ next.path = path /\ next.body = <<>> /\ ToSet(next.body) = {}
    <2>1. <<>> \in Seq(Nat)
      OBVIOUS
    <2> HIDE DEF path, n
    <2> QED
      BY <1>2, <1>4, <2>1 DEF Section, ToSet
  <1> HIDE DEF next, path, longer, n
  <1>6. /\ \A i \in DOMAIN out : \A x \in ToSet(out[i].body) : x \in DOMAIN input
        /\ \A x \in ToSet(current.body) : x \in DOMAIN input
    BY <1>1 DEF Held
  <1>7. \A i \in DOMAIN out : SectionOK(longer, out[i])
    BY <1>1, <1>6, SectionStays DEF longer
  <1>8. SectionOK(longer, current)
    BY <1>1, <1>6, SectionStays DEF longer
  <1>9. ToSet(path) = Under(longer, n + 1)
    <2>1. Under(longer, n + 1) = {h \in Under(input, n) : input[h] < level} \union {n + 1}
      BY <1>1, UnderAppend DEF longer, n
    <2> QED
      BY <1>1, <1>4, <2>1 DEF OpenHeadings, n
  <1>10. SectionOK(longer, next)
    <2>1. next.heading <= Len(longer)
      BY <1>2, <1>5
    <2> QED
      BY <1>5, <1>9, <2>1 DEF SectionOK
  <1>11. OpenHeadings(longer, next.path)
    <2>1. \A i \in DOMAIN kept : kept[i] \in DOMAIN input /\ input[kept[i]] < level
      <3>1. \A i \in DOMAIN kept : kept[i] \in ToSet(kept)
        BY DEF ToSet
      <3>2. ToSet(current.path) \subseteq DOMAIN input
        BY <1>1, <1>2 DEF OpenHeadings, Under, n
      <3> QED
        BY <3>1, <3>2
    <2>2. ASSUME NEW i \in DOMAIN path, NEW j \in DOMAIN path, i < j
          PROVE  longer[path[i]] < longer[path[j]]
      <3>1. i \in DOMAIN kept /\ longer[path[i]] = input[kept[i]]
        BY <1>2, <1>4, <2>1, <2>2
      <3>2. CASE j \in DOMAIN kept
        BY <1>2, <1>4, <2>1, <2>2, <3>1, <3>2
      <3>3. CASE j = Len(kept) + 1
        BY <1>2, <1>4, <2>1, <3>1, <3>3
      <3> QED
        BY <1>4, <3>2, <3>3
    <2> QED
      BY <1>2, <1>5, <1>9, <2>2 DEF OpenHeadings
  <1>12. \A s : InFront(s, next)
    BY <1>5 DEF InFront
  <1>13. \A x : x \in DOMAIN longer /\ longer[x] = 0 <=> x \in DOMAIN input /\ input[x] = 0
    BY <1>2
  <1>14. CASE current.body = <<>> /\ current.heading = 0
    <2>1. flushed = out /\ ToSet(current.body) = {}
      BY <1>14 DEF ToSet
    <2> HIDE DEF flushed
    <2>2. Held(longer, out, next)
      BY <1>1, <1>5, <1>13, <2>1 DEF Held
    <2>3. DocumentOK(longer, out, next)
      BY <1>1, <1>2, <1>7, <1>10, <1>11, <1>12, <2>2 DEF DocumentOK
    <2> QED
      BY <2>1, <2>3 DEF flushed, longer, n, next, path
  <1>15. CASE ~(current.body = <<>> /\ current.heading = 0)
    <2> DEFINE m == Len(out)
    <2>1. flushed = Append(out, current)
      BY <1>15
    <2> HIDE DEF flushed
    <2>2. /\ flushed \in Seq(Section) /\ m \in Nat /\ DOMAIN out = 1 .. m
          /\ DOMAIN flushed = DOMAIN out \union {m + 1}
          /\ \A i \in DOMAIN out : flushed[i] = out[i]
          /\ flushed[m + 1] = current
      BY <1>1, <1>3, <2>1, AppendFacts
    <2> HIDE DEF m
    <2>3. \A i \in DOMAIN flushed : SectionOK(longer, flushed[i]) /\ InFront(flushed[i], next)
      BY <1>7, <1>8, <1>12, <2>2
    <2>4. ASSUME NEW i \in DOMAIN flushed, NEW k \in DOMAIN flushed, i < k
          PROVE  InFront(flushed[i], flushed[k])
      <3>1. i \in DOMAIN out
        BY <2>2, <2>4
      <3> QED
        BY <1>1, <2>2, <2>4, <3>1
    <2>5. Held(longer, flushed, next)
      BY <1>1, <1>5, <1>13, <2>2 DEF Held
    <2>6. DocumentOK(longer, flushed, next)
      BY <1>1, <1>2, <1>5, <1>10, <1>11, <2>2, <2>3, <2>4, <2>5 DEF DocumentOK
    <2> QED
      BY <2>6 DEF flushed, longer, n, next, path
  <1> QED
    BY <1>14, <1>15
----------------------------------------------------------------------------
(* Slide decks.  What has been handed on are the titles since the last     *)
(* slide with content; the children chunked so far are those of the slides *)
(* before, in one block for each slide.                                    *)

Piece == [slide : Nat, shape : Nat, what : Shapes]
SlideSet == [titled : BOOLEAN, bullets : Seq(Piece), blobs : Seq(Piece)]
Child == [heading : Seq(Nat), bullet : Piece, parent : Nat]

HandedOn(input, n) == {t \in 1 .. n : input[t].titled /\ \A k \in t .. n : input[k].bullets = <<>>}
HeadedBy(input, n) == {t \in 1 .. n : input[t].titled /\ \A k \in t .. n - 1 : input[k].bullets = <<>>}

BlockOf(input, out, n) ==
    \E first \in 0 .. Len(out) :
       /\ {i \in DOMAIN out : out[i].parent = n} = first + 1 .. first + Len(input[n].bullets)
       /\ \A i \in DOMAIN input[n].bullets :
             /\ out[first + i].bullet = input[n].bullets[i]
             /\ ToSet(out[first + i].heading) = HeadedBy(input, n)

ChunkedOK(input, at, pending, out) ==
    /\ input \in Seq(SlideSet) /\ at \in 0 .. Len(input)
    /\ pending \in Seq(Nat) /\ out \in Seq(Child)
    /\ ToSet(pending) = HandedOn(input, at)
    /\ \A i \in DOMAIN out : out[i].parent \in 1 .. at
    /\ \A n \in 1 .. at : BlockOf(input, out, n)

LEMMA ConcatFacts ==
    ASSUME NEW S, NEW s \in Seq(S), NEW t \in Seq(S)
    PROVE  LET u == s \o t IN
           /\ u \in Seq(S) /\ Len(s) \in Nat /\ Len(t) \in Nat /\ Len(u) = Len(s) + Len(t)
           /\ DOMAIN s = 1 .. Len(s) /\ DOMAIN t = 1 .. Len(t) /\ DOMAIN u = 1 .. Len(s) + Len(t)
           /\ \A i \in 1 .. Len(s) : u[i] = s[i]
           /\ \A i \in 1 .. Len(t) : u[Len(s) + i] = t[i]
           /\ ToSet(u) = ToSet(s) \union ToSet(t)
  <1> DEFINE u == s \o t
  <1>1. /\ u \in Seq(S) /\ Len(u) = Len(s) + Len(t)
        /\ \A i \in 1 .. Len(s) + Len(t) : u[i] = IF i <= Len(s) THEN s[i] ELSE t[i - Len(s)]
    BY ConcatProperties
  <1> HIDE DEF u
  <1>2. /\ Len(s) \in Nat /\ Len(t) \in Nat /\ DOMAIN s = 1 .. Len(s) /\ DOMAIN t = 1 .. Len(t)
        /\ DOMAIN u = 1 .. Len(s) + Len(t)
    BY <1>1, LenProperties
  <1>3. \A i \in 1 .. Len(s) : u[i] = s[i]
    BY <1>1, <1>2
  <1>4. ASSUME NEW i \in 1 .. Len(t)
        PROVE  u[Len(s) + i] = t[i]
    <2>1. Len(s) + i \in 1 .. Len(s) + Len(t) /\ ~(Len(s) + i <= Len(s)) /\ Len(s) + i - Len(s) = i
      BY <1>2
    <2> QED
      BY <1>1, <2>1
  <1>5. \A k \in DOMAIN u : u[k] \in ToSet(s) \/ u[k] \in ToSet(t)
    <2> SUFFICES ASSUME NEW k \in DOMAIN u PROVE u[k] \in ToSet(s) \/ u[k] \in ToSet(t)
      OBVIOUS
    <2>1. CASE k <= Len(s)
      BY <1>2, <1>3, <2>1 DEF ToSet
    <2>2. CASE k > Len(s)
      <3>1. k - Len(s) \in 1 .. Len(t) /\ u[k] = t[k - Len(s)]
        BY <1>1, <1>2, <2>2
      <3> QED
        BY <1>2, <3>1 DEF ToSet
    <2> QED
      BY <1>2, <2>1, <2>2
  <1>6. \A i \in 1 .. Len(t) : Len(s) + i \in DOMAIN u
    BY <1>2
  <1>7. ToSet(u) = ToSet(s) \union ToSet(t)
    <2>1. \A x \in ToSet(s) : x \in ToSet(u)
      BY <1>2, <1>3 DEF ToSet
    <2>2. \A x \in ToSet(t) : x \in ToSet(u)
      BY <1>2, <1>4, <1>6 DEF ToSet
    <2>3. \A x \in ToSet(u) : x \in ToSet(s) \/ x \in ToSet(t)
      BY <1>5 DEF ToSet
    <2> QED
      BY <2>1, <2>2, <2>3
  <1> QED
    BY <1>1, <1>2, <1>3, <1>4, <1>7 DEF u

LEMMA SlideChunked ==
    ASSUME NEW input, NEW at, NEW pending, NEW out, ChunkedOK(input, at, pending, out), at < Len(input),
           NEW heading, heading = pending \o (IF input[at + 1].titled THEN <<at + 1>> ELSE <<>>),
           NEW kids, kids = [i \in DOMAIN input[at + 1].bullets |->
                               [heading |-> heading, bullet |-> input[at + 1].bullets[i], parent |-> at + 1]]
    PROVE  ChunkedOK(input, at + 1, IF input[at + 1].bullets = <<>> THEN heading ELSE <<>>, out \o kids)
  <1> DEFINE n == at + 1
             slide == input[n]
             bullets == slide.bullets
             next == IF bullets = <<>> THEN heading ELSE <<>>
             longer == out \o kids
             more == Len(out)
  <1>1. /\ input \in Seq(SlideSet) /\ at \in 0 .. Len(input)
        /\ pending \in Seq(Nat) /\ out \in Seq(Child)
        /\ ToSet(pending) = HandedOn(input, at)
        /\ \A i \in DOMAIN out : out[i].parent \in 1 .. at
        /\ \A m \in 1 .. at : BlockOf(input, out, m)
    BY DEF ChunkedOK
  <1>2. Len(input) \in Nat /\ at \in Nat /\ n \in Nat /\ n \in DOMAIN input /\ DOMAIN input = 1 .. Len(input)
    BY <1>1, LenProperties
  <1>3. slide \in SlideSet /\ bullets \in Seq(Piece)
    <2>1. input[n] \in SlideSet
      BY <1>1, <1>2, ElementOfSeq
    <2> QED
      BY <2>1 DEF SlideSet
  <1>4. heading \in Seq(Nat) /\ ToSet(heading) = HeadedBy(input, n)
    <2> DEFINE own == IF slide.titled THEN <<n>> ELSE <<>>
    <2>1. own \in Seq(Nat) /\ ToSet(own) = IF slide.titled THEN {n} ELSE {}
      BY <1>2 DEF ToSet
    <2>2. heading = pending \o own
      OBVIOUS
    <2> HIDE DEF own
    <2>3. heading \in Seq(Nat) /\ ToSet(heading) = ToSet(pending) \union ToSet(own)
      <3>1. pending \in Seq(Nat) /\ own \in Seq(Nat)
        BY <1>1, <2>1
      <3>2. pending \o own \in Seq(Nat) /\ ToSet(pending \o own) = ToSet(pending) \union ToSet(own)
        BY <3>1, ConcatFacts
      <3> QED
        BY <2>2, <3>2
    <2>4. HeadedBy(input, n) = HandedOn(input, at) \union (IF slide.titled THEN {n} ELSE {})
      <3>1. \A t \in 1 .. at : t .. n - 1 = t .. at /\ t \in 1 .. n
        BY <1>2
      <3>2. \A t \in 1 .. n : t \in 1 .. at \/ t = n
        BY <1>2
      <3>3. n \in 1 .. n /\ n .. n - 1 = {}
        BY <1>2
      <3> QED
        BY <3>1, <3>2, <3>3 DEF HeadedBy, HandedOn
    <2> QED
      BY <1>1, <2>1, <2>3, <2>4
  <1>5. /\ Len(bullets) \in Nat /\ DOMAIN bullets = 1 .. Len(bullets)
        /\ \A i \in DOMAIN bullets : bullets[i] \in Piece
    BY <1>3, LenProperties
  <1> HIDE DEF n, slide, bullets
  <1>6. kids = [i \in 1 .. Len(bullets) |-> [heading |-> heading, bullet |-> bullets[i], parent |-> n]]
    BY <1>5 DEF n, slide, bullets
  <1>7. kids \in Seq(Child) /\ Len(kids) = Len(bullets)
    <2>1. \A i \in 1 .. Len(bullets) : [heading |-> heading, bullet |-> bullets[i], parent |-> n] \in Child
      BY <1>2, <1>4, <1>5 DEF Child
    <2>2. kids \in [1 .. Len(bullets) -> Child]
      BY <1>6, <2>1
    <2>3. kids \in Seq(Child)
      BY <1>5, <2>2, SeqDef
    <2> QED
      BY <1>5, <2>2, <2>3, LenProperties
  <1> HIDE DEF longer, more
  <1>8. /\ longer \in Seq(Child) /\ more \in Nat /\ Len(longer) = more + Len(bullets)
        /\ DOMAIN out = 1 .. more /\ DOMAIN longer = 1 .. more + Len(bullets)
        /\ \A i \in 1 .. more : longer[i] = out[i]
        /\ \A i \in 1 .. Len(bullets) : longer[more + i] = kids[i]
    <2>1. out \in Seq(Child) /\ kids \in Seq(Child)
      BY <1>1, <1>7
    <2>2. LET u == out \o kids IN
          /\ u \in Seq(Child) /\ Len(out) \in Nat /\ Len(kids) \in Nat /\ Len(u) = Len(out) + Len(kids)
          /\ DOMAIN out = 1 .. Len(out) /\ DOMAIN u = 1 .. Len(out) + Len(kids)
          /\ \A i \in 1 .. Len(out) : u[i] = out[i]
          /\ \A i \in 1 .. Len(kids) : u[Len(out) + i] = kids[i]
      BY <2>1, ConcatFacts
    <2> QED
      BY <1>7, <2>2 DEF longer, more
  <1>9. \A i \in 1 .. Len(bullets) : /\ longer[more + i].parent = n /\ longer[more + i].bullet = bullets[i]
                                     /\ longer[more + i].heading = heading
    <2>1. \A i \in 1 .. Len(bullets) : kids[i] = [heading |-> heading, bullet |-> bullets[i], parent |-> n]
      BY <1>6
    <2>2. ASSUME NEW i \in 1 .. Len(bullets)
          PROVE  longer[more + i] = [heading |-> heading, bullet |-> bullets[i], parent |-> n]
      <3>1. longer[more + i] = kids[i]
        BY <1>8
      <3> QED
        BY <2>1, <3>1
    <2>3. \A i \in 1 .. Len(bullets) : /\ longer[more + i].parent = n
                                       /\ longer[more + i].bullet = bullets[i]
                                       /\ longer[more + i].heading = heading
      <3> SUFFICES ASSUME NEW i \in 1 .. Len(bullets)
                   PROVE  /\ longer[more + i].parent = n /\ longer[more + i].bullet = bullets[i]
                          /\ longer[more + i].heading = heading
        OBVIOUS
      <3> DEFINE kid == longer[more + i]
      <3>1. kid = [heading |-> heading, bullet |-> bullets[i], parent |-> n]
        BY <2>2
      <3> HIDE DEF kid
      <3>2. kid.parent = n /\ kid.bullet = bullets[i] /\ kid.heading = heading
        BY <3>1
      <3> QED
        BY <3>2 DEF kid
    <2> QED
      BY <2>3
  <1>10. \A i \in DOMAIN longer : i \in 1 .. more \/ (i > more /\ longer[i].parent = n)
    <2> SUFFICES ASSUME NEW i \in DOMAIN longer, i \notin 1 .. more PROVE i > more /\ longer[i].parent = n
      OBVIOUS
    <2>1. i > more /\ i - more \in 1 .. Len(bullets) /\ more + (i - more) = i
      BY <1>5, <1>8
    <2> QED
      BY <1>9, <2>1
  <1>11. next \in Seq(Nat) /\ ToSet(next) = HandedOn(input, n)
    <2>1. CASE bullets = <<>>
      <3>1. next = heading
        BY <2>1
      <3>2. HandedOn(input, n) = HeadedBy(input, n)
        <4>1. \A t \in 1 .. n : \A k \in t .. n : k \in t .. n - 1 \/ k = n
          BY <1>2
        <4>2. \A t \in 1 .. n : t .. n - 1 \subseteq t .. n
          BY <1>2
        <4>3. input[n].bullets = <<>>
          BY <2>1 DEF bullets, slide
        <4> QED
          BY <4>1, <4>2, <4>3 DEF HandedOn, HeadedBy
      <3> QED
        BY <1>4, <3>1, <3>2
    <2>2. CASE bullets # <<>>
      <3>1. next = <<>> /\ ToSet(<<>>) = {} /\ <<>> \in Seq(Nat)
        BY <2>2 DEF ToSet
      <3>2. HandedOn(input, n) = {}
        <4>1. \A t \in 1 .. n : n \in t .. n
          BY <1>2
        <4>2. input[n].bullets # <<>>
          BY <2>2 DEF bullets, slide
        <4> QED
          BY <4>1, <4>2 DEF HandedOn
      <3> QED
        BY <3>1, <3>2
    <2> QED
      BY <2>1, <2>2
  <1>12. \A i \in DOMAIN longer : longer[i].parent \in 1 .. n
    <2>1. \A i \in 1 .. more : longer[i].parent \in 1 .. n
      <3>1. \A i \in 1 .. more : longer[i].parent \in 1 .. at
        BY <1>1, <1>8
      <3>2. 1 .. at \subseteq 1 .. n
        BY <1>2 DEF n
      <3> QED
        BY <3>1, <3>2
    <2>2. n \in 1 .. n
      BY <1>2 DEF n
    <2> QED
      BY <1>10, <2>1, <2>2
  <1>13. ASSUME NEW m \in 1 .. at
         PROVE  BlockOf(input, longer, m)
    <2> DEFINE size == Len(input[m].bullets)
    <2>1. m \in DOMAIN input /\ m # n
      BY <1>2 DEF n
    <2>2. size \in Nat /\ DOMAIN input[m].bullets = 1 .. size
      BY <1>1, <2>1, LenProperties DEF SlideSet
    <2>3. PICK first \in 0 .. more :
             /\ {i \in DOMAIN out : out[i].parent = m} = first + 1 .. first + size
             /\ \A i \in DOMAIN input[m].bullets :
                   /\ out[first + i].bullet = input[m].bullets[i]
                   /\ ToSet(out[first + i].heading) = HeadedBy(input, m)
      BY <1>1 DEF BlockOf, more
    <2> HIDE DEF size
    <2>4. first \in 0 .. Len(longer)
      BY <1>5, <1>8
    <2>5. {i \in DOMAIN longer : longer[i].parent = m} = {i \in DOMAIN out : out[i].parent = m}
      <3>1. \A i \in DOMAIN longer : longer[i].parent = m => i \in DOMAIN out /\ out[i].parent = m
        BY <1>8, <1>10, <2>1
      <3>2. \A i \in DOMAIN out : i \in DOMAIN longer /\ longer[i].parent = out[i].parent
        BY <1>5, <1>8
      <3> QED
        BY <3>1, <3>2
    <2>6. \A i \in 1 .. size : longer[first + i] = out[first + i]
      <3>1. \A i \in 1 .. size : first + i \in first + 1 .. first + size
        BY <2>2
      <3>2. \A i \in 1 .. size : first + i \in DOMAIN out
        BY <2>3, <3>1
      <3> QED
        BY <1>8, <3>2
    <2> QED
      BY <2>2, <2>3, <2>4, <2>5, <2>6 DEF BlockOf, size
  <1>14. BlockOf(input, longer, n)
    <2>1. more \in 0 .. Len(longer)
      BY <1>5, <1>8
    <2>2. {i \in DOMAIN longer : longer[i].parent = n} = more + 1 .. more + Len(bullets)
      <3>1. \A i \in 1 .. more : longer[i].parent # n
        <4>1. \A i \in 1 .. more : longer[i].parent \in 1 .. at
          BY <1>1, <1>8
        <4>2. n \notin 1 .. at
          BY <1>2 DEF n
        <4> QED
          BY <4>1, <4>2
      <3>2. \A i \in more + 1 .. more + Len(bullets) : i \in DOMAIN longer /\ i \notin 1 .. more
        BY <1>5, <1>8
      <3>3. \A i \in DOMAIN longer : i \in 1 .. more \/ i \in more + 1 .. more + Len(bullets)
        BY <1>5, <1>8
      <3> QED
        BY <1>10, <3>1, <3>2, <3>3
    <2>3. \A i \in DOMAIN bullets : /\ longer[more + i].bullet = bullets[i]
                                    /\ ToSet(longer[more + i].heading) = HeadedBy(input, n)
      BY <1>4, <1>5, <1>9
    <2> QED
      BY <2>1, <2>2, <2>3 DEF BlockOf, bullets, slide
  <1>15. n \in 0 .. Len(input)
    BY <1>2 DEF n
  <1>16. \A m \in 1 .. n : m \in 1 .. at \/ m = n
    BY <1>2 DEF n
  <1>17. \A m \in 1 .. n : BlockOf(input, longer, m)
    BY <1>13, <1>14, <1>16
  <1>18. ChunkedOK(input, n, next, longer)
    <2> HIDE DEF next
    <2> QED
      BY <1>1, <1>8, <1>11, <1>12, <1>15, <1>17 DEF ChunkedOK
  <1> QED
    BY <1>18 DEF n, slide, bullets, next, longer

----------------------------------------------------------------------------
(* The files read so far, by kind.                                         *)

SlidesInv ==
    /\ Is("slides") \/ Is("captions") \/ Is("deck") => reading.input \in Seq(SlideSet)
    /\ Is("slides") \/ Is("captions") => reading.out = <<>> /\ reading.pending = <<>>
    /\ Is("slides") => reading.at = 0
    /\ Is("captions") => reading.at \in 0 .. Len(reading.input)
    /\ Is("deck") => ChunkedOK(reading.input, reading.at, reading.pending, reading.out)

ParagraphsInv ==
    Is("paragraphs") =>
        /\ DocumentOK(reading.input, reading.out, Current)
        /\ reading.pending = <<>> \/ reading.pending = <<Current>>
        /\ reading.pending = <<>> => reading.input = <<>> /\ reading.out = <<>>

ReadingInv ==
    /\ DOMAIN reading = DOMAIN NotReading
    /\ Is("none") => reading = NotReading
    /\ SlidesInv /\ ParagraphsInv
    /\ Is("section") => reading.input \in Seq({"x", "blank"})

LEMMA ReadingStarts == ReadingInit => ReadingInv
  <1> SUFFICES ASSUME reading = NotReading
               PROVE  ReadingInv
    BY DEF ReadingInit
  <1>1. reading.kind = "none"
    BY DEF NotReading
  <1> QED
    BY <1>1 DEF ReadingInv, SlidesInv, ParagraphsInv, Is

LEMMA NothingRead == DocumentOK(<<>>, <<>>, NoSection)
  <1>1. <<>> \in Seq(Nat) /\ <<>> \in Seq(Section) /\ ToSet(<<>>) = {} /\ DOMAIN <<>> = {} /\ Len(<<>>) = 0
    BY DEF ToSet
  <1>2. NoSection \in Section /\ NoSection.heading = 0 /\ NoSection.path = <<>> /\ NoSection.body = <<>>
    BY <1>1 DEF NoSection, Section
  <1>3. Under(<<>>, 0) = {}
    BY DEF Under
  <1>4. SectionOK(<<>>, NoSection)
    <2> DEFINE none == NoSection
    <2>1. /\ none \in Section /\ none.heading <= Len(<<>>)
          /\ \A a, b \in DOMAIN none.body : a < b => none.body[a] < none.body[b]
      BY <1>1, <1>2
    <2>2. \A n \in {none.heading} \union ToSet(none.body) : n = 0
      BY <1>1, <1>2
    <2>3. ToSet(none.path) = Under(<<>>, 0)
      BY <1>1, <1>2, <1>3
    <2> QED
      BY <2>1, <2>2, <2>3 DEF SectionOK
  <1>5. OpenHeadings(<<>>, NoSection.path)
    BY <1>1, <1>2, <1>3 DEF OpenHeadings
  <1>6. Held(<<>>, <<>>, NoSection)
    BY <1>1, <1>2 DEF Held
  <1> QED
    BY <1>1, <1>4, <1>5, <1>6 DEF DocumentOK

(* What a step does to each field.                                         *)
LEMMA OpenedFields ==
    ASSUME NEW kind, Open(kind)
    PROVE  /\ DOMAIN reading' = DOMAIN NotReading /\ reading'.kind = kind
           /\ reading'.input = <<>> /\ reading'.at = 0 /\ reading'.pending = <<>> /\ reading'.out = <<>>
  BY DEF Open, Opened, NotReading

LEMMA OpenKeeps ==
    ASSUME ReadingInv, NEW kind \in {"slides", "paragraphs", "pages", "section"}, Open(kind)
    PROVE  ReadingInv'
  <1>1. /\ DOMAIN reading' = DOMAIN NotReading /\ reading'.kind = kind
        /\ reading'.input = <<>> /\ reading'.at = 0 /\ reading'.pending = <<>> /\ reading'.out = <<>>
    BY OpenedFields
  <1>2. <<>> \in Seq(SlideSet) /\ <<>> \in Seq({"x", "blank"})
    BY EmptySeq
  <1>3. SlidesInv'
    BY <1>1, <1>2 DEF SlidesInv, Is
  <1>4. ParagraphsInv'
    <2>1. Current' = NoSection
      BY <1>1 DEF Current
    <2> QED
      BY <1>1, <2>1, NothingRead DEF ParagraphsInv
  <1> QED
    BY <1>1, <1>2, <1>3, <1>4 DEF ReadingInv, Is

LEMMA SlideOfShapes ==
    ASSUME NEW n \in Nat, NEW titled \in BOOLEAN, NEW size \in Nat, NEW shapes \in [1 .. size -> Shapes]
    PROVE  Slide(n, titled, shapes) \in SlideSet
  <1> DEFINE all   == [i \in DOMAIN shapes |-> [slide |-> n, shape |-> i, what |-> shapes[i]]]
             texts == {i \in DOMAIN shapes : shapes[i] = "text"}
  <1>1. DOMAIN shapes = 1 .. size
    OBVIOUS
  <1>2. \A i \in 1 .. size : [slide |-> n, shape |-> i, what |-> shapes[i]] \in Piece
    BY DEF Piece
  <1>3. all \in [1 .. size -> Piece]
    BY <1>1, <1>2
  <1>4. all \in Seq(Piece) /\ DOMAIN all = DOMAIN shapes
    BY <1>3, SeqDef
  <1>5. texts \in SUBSET DOMAIN all /\ DOMAIN shapes \ texts \in SUBSET DOMAIN all
    BY <1>4
  <1>6. Slide(n, titled, shapes) = [titled |-> titled, bullets |-> Picked(all, texts),
                                    blobs |-> Picked(all, DOMAIN shapes \ texts)]
    BY DEF Slide
  <1> HIDE DEF all, texts
  <1>7. Picked(all, texts) \in Seq(Piece) /\ Picked(all, DOMAIN shapes \ texts) \in Seq(Piece)
    BY <1>4, <1>5, PickedFacts
  <1> QED
    BY <1>6, <1>7 DEF SlideSet

LEMMA ExtractKeeps == ReadingInv /\ ExtractSlide => ReadingInv'
  <1> SUFFICES ASSUME ReadingInv, ExtractSlide
               PROVE  ReadingInv'
    OBVIOUS
  <1>1. PICK titled \in BOOLEAN, n \in 0 .. MaxShapes : \E shapes \in [1 .. n -> Shapes] :
           reading' = [reading EXCEPT !.input = Append(@, Slide(Len(@) + 1, titled, shapes))]
    BY DEF ExtractSlide
  <1>2. PICK shapes \in [1 .. n -> Shapes] :
           reading' = [reading EXCEPT !.input = Append(@, Slide(Len(@) + 1, titled, shapes))]
    BY <1>1
  <1>3. Is("slides") /\ reading.input \in Seq(SlideSet) /\ DOMAIN reading = DOMAIN NotReading
    BY DEF ExtractSlide, ReadingInv, SlidesInv
  <1> DEFINE slide == Slide(Len(reading.input) + 1, titled, shapes)
  <1>4. slide \in SlideSet
    <2>1. Len(reading.input) + 1 \in Nat /\ n \in Nat
      BY <1>3, LenProperties, BoundAssumption
    <2> QED
      BY <2>1, SlideOfShapes
  <1>5. Append(reading.input, slide) \in Seq(SlideSet)
    BY <1>3, <1>4, AppendProperties
  <1>6. /\ DOMAIN reading' = DOMAIN NotReading /\ reading'.kind = reading.kind
        /\ reading'.input = Append(reading.input, slide) /\ reading'.at = reading.at
        /\ reading'.pending = reading.pending /\ reading'.out = reading.out
    <2> HIDE DEF slide
    <2>1. reading' = [reading EXCEPT !.input = Append(@, slide)]
      BY <1>2 DEF slide
    <2> QED
      BY <1>3, <2>1 DEF NotReading
  <1> HIDE DEF slide
  <1> QED
    BY <1>3, <1>5, <1>6 DEF ReadingInv, SlidesInv, ParagraphsInv, Is

LEMMA EndOfDeckKeeps == ReadingInv /\ EndOfDeck => ReadingInv'
  <1> SUFFICES ASSUME ReadingInv, EndOfDeck
               PROVE  ReadingInv'
    OBVIOUS
  <1>1. /\ Is("slides") /\ reading.input \in Seq(SlideSet) /\ DOMAIN reading = DOMAIN NotReading
        /\ reading.at = 0 /\ reading.out = <<>> /\ reading.pending = <<>>
    BY DEF EndOfDeck, ReadingInv, SlidesInv
  <1>2. /\ DOMAIN reading' = DOMAIN NotReading /\ reading'.kind = "captions"
        /\ reading'.input = reading.input /\ reading'.at = 0
        /\ reading'.pending = <<>> /\ reading'.out = <<>>
    BY <1>1 DEF EndOfDeck, NotReading
  <1>3. 0 \in 0 .. Len(reading.input)
    BY <1>1, LenProperties
  <1> QED
    BY <1>1, <1>2, <1>3 DEF ReadingInv, SlidesInv, ParagraphsInv, Is

LEMMA CaptionKeeps == ReadingInv /\ CaptionSlide => ReadingInv'
  <1> SUFFICES ASSUME ReadingInv, CaptionSlide
               PROVE  ReadingInv'
    OBVIOUS
  <1> DEFINE n == reading.at + 1
             input == reading.input
             blobs == input[n].blobs
  <1>1. /\ Is("captions") /\ input \in Seq(SlideSet) /\ DOMAIN reading = DOMAIN NotReading
        /\ reading.at \in 0 .. Len(input) /\ reading.at < Len(input)
        /\ reading.out = <<>> /\ reading.pending = <<>>
    BY DEF CaptionSlide, ReadingInv, SlidesInv
  <1>2. PICK fresh : LET told == {i \in DOMAIN blobs : blobs[i].what \in reading.captioned \union fresh}
                     IN  reading' = [reading EXCEPT !.at = n, !.captioned = @ \union fresh,
                                                    !.input[n].bullets = @ \o Picked(blobs, told)]
    BY DEF CaptionSlide
  <1> DEFINE captioned == reading.captioned \union fresh
             told == {i \in DOMAIN blobs : blobs[i].what \in captioned}
  <1>3. Len(input) \in Nat /\ DOMAIN input = 1 .. Len(input) /\ n \in DOMAIN input /\ n \in 0 .. Len(input)
    BY <1>1, LenProperties
  <1>4. input[n] \in SlideSet
    BY <1>1, <1>3, ElementOfSeq
  <1>5. blobs \in Seq(Piece) /\ input[n].bullets \in Seq(Piece)
    BY <1>4 DEF SlideSet
  <1> DEFINE bullets == input[n].bullets \o Picked(blobs, told)
             slide == [input[n] EXCEPT !.bullets = bullets]
             next == [input EXCEPT ![n] = slide]
  <1>6. bullets \in Seq(Piece)
    <2>1. Picked(blobs, told) \in Seq(Piece)
      <3> DEFINE list == blobs
      <3> HIDE DEF list
      <3>1. list \in Seq(Piece) /\ told \in SUBSET DOMAIN list
        BY <1>5 DEF list
      <3>2. Picked(list, told) \in Seq(Piece)
        BY <3>1, PickedFacts
      <3> QED
        BY <3>2 DEF list
    <2> QED
      BY <1>5, <2>1, ConcatProperties
  <1>7. reading' = [reading EXCEPT !.at = n, !.captioned = captioned, !.input = next]
    <2> DEFINE more == Picked(blobs, told)
    <2>1. reading' = [reading EXCEPT !.at = n, !.captioned = captioned, !.input[n].bullets = @ \o more]
      BY <1>2
    <2> HIDE DEF more
    <2> QED
      BY <1>1, <2>1 DEF more, NotReading
  <1> HIDE DEF bullets
  <1>8. slide \in SlideSet
    BY <1>4, <1>6 DEF SlideSet
  <1> HIDE DEF slide
  <1>9. next \in Seq(SlideSet) /\ Len(next) = Len(input)
    BY <1>1, <1>3, <1>8, ExceptSeq
  <1> HIDE DEF next
  <1>10. /\ DOMAIN reading' = DOMAIN NotReading /\ reading'.kind = reading.kind
         /\ reading'.input = next /\ reading'.at = n
         /\ reading'.pending = reading.pending /\ reading'.out = reading.out
    BY <1>1, <1>7 DEF NotReading
  <1> HIDE DEF n
  <1> QED
    BY <1>1, <1>3, <1>9, <1>10 DEF ReadingInv, SlidesInv, ParagraphsInv, Is

LEMMA CaptionsDoneKeeps == ReadingInv /\ CaptionsDone => ReadingInv'
  <1> SUFFICES ASSUME ReadingInv, CaptionsDone
               PROVE  ReadingInv'
    OBVIOUS
  <1>1. /\ Is("captions") /\ reading.input \in Seq(SlideSet) /\ DOMAIN reading = DOMAIN NotReading
        /\ reading.out = <<>> /\ reading.pending = <<>>
    BY DEF CaptionsDone, ReadingInv, SlidesInv
  <1>2. /\ DOMAIN reading' = DOMAIN NotReading /\ reading'.kind = "deck"
        /\ reading'.input = reading.input /\ reading'.at = 0
        /\ reading'.pending = <<>> /\ reading'.out = <<>>
    BY <1>1 DEF CaptionsDone, NotReading
  <1>3. ChunkedOK(reading.input, 0, <<>>, <<>>)
    <2>1. <<>> \in Seq(Nat) /\ <<>> \in Seq(Child) /\ ToSet(<<>>) = {} /\ DOMAIN <<>> = {}
      BY EmptySeq DEF ToSet
    <2>2. 0 \in 0 .. Len(reading.input) /\ HandedOn(reading.input, 0) = {}
      BY <1>1, LenProperties DEF HandedOn
    <2>3. \A n \in 1 .. 0 : BlockOf(reading.input, <<>>, n)
      OBVIOUS
    <2>4. \A i \in DOMAIN <<>> : <<>>[i].parent \in 1 .. 0
      BY <2>1
    <2> QED
      BY <1>1, <2>1, <2>2, <2>3, <2>4 DEF ChunkedOK
  <1> QED
    BY <1>1, <1>2, <1>3 DEF ReadingInv, SlidesInv, ParagraphsInv, Is

LEMMA ChunkKeeps == ReadingInv /\ ChunkSlide => ReadingInv'
  <1> SUFFICES ASSUME ReadingInv, ChunkSlide
               PROVE  ReadingInv'
    OBVIOUS
  <1> DEFINE at == reading.at
             input == reading.input
             heading == reading.pending \o (IF input[at + 1].titled THEN <<at + 1>> ELSE <<>>)
             kids == [i \in DOMAIN input[at + 1].bullets |->
                        [heading |-> heading, bullet |-> input[at + 1].bullets[i], parent |-> at + 1]]
             pending == IF input[at + 1].bullets = <<>> THEN heading ELSE <<>>
             out == reading.out \o kids
  <1>1. /\ Is("deck") /\ DOMAIN reading = DOMAIN NotReading /\ at < Len(input)
        /\ ChunkedOK(input, at, reading.pending, reading.out) /\ input \in Seq(SlideSet)
    BY DEF ChunkSlide, ReadingInv, SlidesInv
  <1>2. reading' = [reading EXCEPT !.at = at + 1, !.pending = pending, !.out = out]
    BY DEF ChunkSlide
  <1>3. ChunkedOK(input, at + 1, pending, out)
    <2> HIDE DEF at, input
    <2> QED
      BY <1>1, SlideChunked
  <1> HIDE DEF pending, out
  <1>4. /\ DOMAIN reading' = DOMAIN NotReading /\ reading'.kind = reading.kind
        /\ reading'.input = input /\ reading'.at = at + 1
        /\ reading'.pending = pending /\ reading'.out = out
    BY <1>1, <1>2 DEF NotReading
  <1> QED
    BY <1>1, <1>3, <1>4 DEF ReadingInv, SlidesInv, ParagraphsInv, Is

LEMMA HeadingStepKeeps == ReadingInv /\ ReadHeading => ReadingInv'
  <1> SUFFICES ASSUME ReadingInv, ReadHeading
               PROVE  ReadingInv'
    OBVIOUS
  <1> DEFINE input == reading.input
             n == Len(input) + 1
             current == Current
  <1>1. /\ Is("paragraphs") /\ DOMAIN reading = DOMAIN NotReading
        /\ DocumentOK(input, reading.out, current)
    BY DEF ReadHeading, ReadingInv, ParagraphsInv
  <1>2. PICK level \in 1 .. MaxLevel :
           reading' = [reading EXCEPT !.input = Append(@, level), !.out = Flushed(current),
                          !.pending = <<[heading |-> n, path |-> Append(Above(current.path, level), n), body |-> <<>>]>>]
    BY DEF ReadHeading
  <1>3. level \in Nat /\ level > 0
    BY BoundAssumption
  <1> DEFINE kept == Above(current.path, level)
             section == [heading |-> n, path |-> Append(kept, n), body |-> <<>>]
             out == Flushed(current)
  <1> HIDE DEF current, input
  <1>4. /\ kept \in Seq(Nat) /\ ToSet(kept) = {h \in ToSet(current.path) : input[h] < level}
        /\ \A i, j \in DOMAIN kept : i < j => input[kept[i]] < input[kept[j]]
    <2> DEFINE path == current.path
    <2>1. path \in Seq(Nat) /\ input \in Seq(Nat)
      BY <1>1 DEF DocumentOK, SectionOK, Section
    <2>2. ToSet(path) = Under(input, Len(input)) /\ \A i, j \in DOMAIN path : i < j => input[path[i]] < input[path[j]]
      BY <1>1 DEF DocumentOK, OpenHeadings
    <2>3. \A i \in DOMAIN path : path[i] \in DOMAIN input
      BY <2>1, <2>2, LenProperties DEF Under, ToSet
    <2>4. kept = CutAbove(input, path, level)
      BY DEF Above, input, CutAbove
    <2> HIDE DEF path, kept
    <2>5. level \in Nat
      BY <1>3
    <2>6. \A i, j \in DOMAIN path : i < j => input[path[i]] < input[path[j]]
      BY <2>2
    <2>7. LET cut == CutAbove(input, path, level) IN
          /\ cut \in Seq(Nat)
          /\ \A h : h \in ToSet(cut) <=> h \in ToSet(path) /\ input[h] < level
          /\ \A i, j \in DOMAIN cut : i < j => input[cut[i]] < input[cut[j]]
      BY ONLY <2>1, <2>3, <2>5, <2>6, CutPath
    <2> QED
      BY <2>4, <2>7 DEF path
  <1> HIDE DEF kept
  <1>5. out = IF current.body = <<>> /\ current.heading = 0 THEN reading.out ELSE Append(reading.out, current)
    BY DEF Flushed
  <1> HIDE DEF out
  <1>6. DocumentOK(Append(input, level), out, section)
    BY <1>1, <1>3, <1>4, <1>5, HeadingKeeps
  <1> HIDE DEF section, n
  <1>7. reading' = [reading EXCEPT !.input = Append(input, level), !.out = out, !.pending = <<section>>]
    BY <1>2 DEF out, section, n, kept, input, current
  <1>8. /\ DOMAIN reading' = DOMAIN NotReading /\ reading'.kind = reading.kind
        /\ reading'.input = Append(input, level)
        /\ reading'.pending = <<section>> /\ reading'.out = out
    BY <1>1, <1>7 DEF NotReading
  <1>9. Current' = section
    BY <1>8 DEF Current, Last
  <1>10. ParagraphsInv'
    BY <1>6, <1>8, <1>9 DEF ParagraphsInv
  <1> QED
    BY <1>1, <1>8, <1>10 DEF ReadingInv, SlidesInv, Is

LEMMA BodyStepKeeps == ReadingInv /\ ReadBody => ReadingInv'
  <1> SUFFICES ASSUME ReadingInv, ReadBody
               PROVE  ReadingInv'
    OBVIOUS
  <1> DEFINE input == reading.input
             current == Current
             section == [current EXCEPT !.body = Append(@, Len(input) + 1)]
  <1>1. /\ Is("paragraphs") /\ DOMAIN reading = DOMAIN NotReading
        /\ DocumentOK(input, reading.out, current)
    BY DEF ReadBody, ReadingInv, ParagraphsInv
  <1>2. reading' = [reading EXCEPT !.input = Append(@, 0), !.pending = <<section>>]
    BY DEF ReadBody
  <1>3. DocumentOK(Append(input, 0), reading.out, section)
    <2> HIDE DEF input, current
    <2> QED
      BY <1>1, BodyKeeps
  <1> HIDE DEF section
  <1>4. /\ DOMAIN reading' = DOMAIN NotReading /\ reading'.kind = reading.kind
        /\ reading'.input = Append(input, 0)
        /\ reading'.pending = <<section>> /\ reading'.out = reading.out
    BY <1>1, <1>2 DEF NotReading
  <1>5. Current' = section
    BY <1>4 DEF Current, Last
  <1>6. ParagraphsInv'
    BY <1>3, <1>4, <1>5 DEF ParagraphsInv
  <1> QED
    BY <1>1, <1>4, <1>6 DEF ReadingInv, SlidesInv, Is

LEMMA SentenceKeeps == ReadingInv /\ ReadSentence => ReadingInv'
  <1> SUFFICES ASSUME ReadingInv, ReadSentence
               PROVE  ReadingInv'
    OBVIOUS
  <1>1. Is("pages") /\ DOMAIN reading = DOMAIN NotReading
    BY DEF ReadSentence, ReadingInv
  <1>2. PICK input, out : reading' = [reading EXCEPT !.input = input, !.out = out]
    BY DEF ReadSentence
  <1>3. DOMAIN reading' = DOMAIN NotReading /\ reading'.kind = reading.kind
    BY <1>1, <1>2 DEF NotReading
  <1> QED
    BY <1>1, <1>3 DEF ReadingInv, SlidesInv, ParagraphsInv, Is

LEMMA CharacterKeeps == ReadingInv /\ ReadCharacter => ReadingInv'
  <1> SUFFICES ASSUME ReadingInv, ReadCharacter
               PROVE  ReadingInv'
    OBVIOUS
  <1>1. Is("section") /\ DOMAIN reading = DOMAIN NotReading /\ reading.input \in Seq({"x", "blank"})
    BY DEF ReadCharacter, ReadingInv
  <1>2. PICK c \in {"x", "blank"} : reading' = [reading EXCEPT !.input = Append(@, c)]
    BY DEF ReadCharacter
  <1>3. /\ DOMAIN reading' = DOMAIN NotReading /\ reading'.kind = reading.kind
        /\ reading'.input = Append(reading.input, c)
    BY <1>1, <1>2 DEF NotReading
  <1>4. Append(reading.input, c) \in Seq({"x", "blank"})
    BY <1>1, AppendProperties
  <1> QED
    BY <1>1, <1>3, <1>4 DEF ReadingInv, SlidesInv, ParagraphsInv, Is

LEMMA ReadingKeeps == ReadingInv /\ [ReadingNext]_reading => ReadingInv'
  <1> SUFFICES ASSUME ReadingInv, [ReadingNext]_reading
               PROVE  ReadingInv'
    OBVIOUS
  <1>1. CASE OpenSlides \/ OpenParagraphs \/ OpenPages \/ OpenSection
    BY <1>1, OpenKeeps DEF OpenSlides, OpenParagraphs, OpenPages, OpenSection
  <1>2. CASE ExtractSlide \/ EndOfDeck \/ CaptionSlide \/ CaptionsDone \/ ChunkSlide
    BY <1>2, ExtractKeeps, EndOfDeckKeeps, CaptionKeeps, CaptionsDoneKeeps, ChunkKeeps
  <1>3. CASE ReadHeading \/ ReadBody \/ ReadSentence \/ ReadCharacter
    BY <1>3, HeadingStepKeeps, BodyStepKeeps, SentenceKeeps, CharacterKeeps
  <1>4. CASE UNCHANGED reading
    BY <1>4 DEF ReadingInv, SlidesInv, ParagraphsInv, Is, Current
  <1> QED
    BY <1>1, <1>2, <1>3, <1>4 DEF ReadingNext

LEMMA BulletsHeaded == ReadingInv => BulletsAreHeaded
  <1> SUFFICES ASSUME ReadingInv, Is("deck")
               PROVE  \A n \in 1 .. reading.at :
                         LET bullets == reading.input[n].bullets
                         IN  \E first \in 0 .. Len(reading.out) :
                                /\ {i \in DOMAIN reading.out : reading.out[i].parent = n} =
                                      first + 1 .. first + Len(bullets)
                                /\ \A i \in DOMAIN bullets :
                                      LET child == reading.out[first + i]
                                      IN  child.bullet = bullets[i] /\ ToSet(child.heading) = HeadingOf(n)
    BY DEF BulletsAreHeaded
  <1>1. ASSUME NEW n \in 1 .. reading.at
        PROVE  BlockOf(reading.input, reading.out, n)
    BY <1>1 DEF ReadingInv, SlidesInv, ChunkedOK
  <1>2. \A n : HeadingOf(n) = HeadedBy(reading.input, n)
    BY DEF HeadingOf, HeadedBy
  <1> QED
    BY <1>1, <1>2 DEF BlockOf

LEMMA SectionsRight == ReadingInv => SectionsFollowHeadings
  <1> SUFFICES ASSUME ReadingInv, Is("paragraphs")
               PROVE  SectionsFollowHeadings
    BY DEF SectionsFollowHeadings
  <1> DEFINE input == reading.input
             out == reading.out
             current == Current
             m == Len(out)
             all == Sections
  <1>1. /\ DocumentOK(input, out, current)
        /\ reading.pending = <<>> \/ reading.pending = <<current>>
        /\ reading.pending = <<>> => input = <<>> /\ out = <<>>
    BY DEF ReadingInv, ParagraphsInv
  <1>2. /\ input \in Seq(Nat) /\ out \in Seq(Section)
        /\ \A i \in DOMAIN out : SectionOK(input, out[i]) /\ InFront(out[i], current)
        /\ \A i, k \in DOMAIN out : i < k => InFront(out[i], out[k])
        /\ SectionOK(input, current)
        /\ Held(input, out, current)
    BY <1>1 DEF DocumentOK
  <1>3. /\ Len(input) \in Nat /\ DOMAIN input = 1 .. Len(input) /\ m \in Nat /\ DOMAIN out = 1 .. m
        /\ current \in Section
    BY <1>2, LenProperties DEF SectionOK
  <1>4. /\ DOMAIN all \subseteq 1 .. m + 1
        /\ \A i \in DOMAIN all : all[i] = IF i = m + 1 THEN current ELSE out[i]
        /\ \A i \in 1 .. m : i \in DOMAIN all
        /\ m + 1 \in DOMAIN all \/ current = NoSection
    <2>1. CASE reading.pending = <<>>
      <3>1. all = <<>> /\ m = 0 /\ current = NoSection
        BY <1>1, <2>1 DEF Sections, Current
      <3> QED
        BY <3>1
    <2>2. CASE reading.pending = <<current>>
      <3>1. all = Append(out, current)
        <4>1. reading.pending # <<>>
          BY <2>2
        <4>2. all = out \o <<current>>
          BY <4>1 DEF Sections
        <4> QED
          BY <1>2, <1>3, <4>2, AppendIsConcat
      <3>2. /\ DOMAIN all = DOMAIN out \union {m + 1} /\ \A i \in DOMAIN out : all[i] = out[i]
            /\ all[m + 1] = current
        <4> HIDE DEF all, current
        <4> QED
          BY <1>2, <1>3, <3>1, AppendFacts
      <3> QED
        BY <1>3, <3>2
    <2> QED
      BY <1>1, <2>1, <2>2
  <1>5. NoSection.body = <<>> /\ ToSet(<<>>) = {}
    BY DEF NoSection, ToSet
  <1> HIDE DEF all, current, m
  <1>6. ASSUME NEW i \in DOMAIN all
        PROVE  SectionOK(input, all[i])
    BY <1>2, <1>3, <1>4
  <1>7. ASSUME NEW x
        PROVE  (\E i \in DOMAIN all : x \in ToSet(all[i].body)) <=> x \in DOMAIN input /\ input[x] = 0
    <2>1. x \in DOMAIN input /\ input[x] = 0 <=>
             x \in ToSet(current.body) \/ \E i \in DOMAIN out : x \in ToSet(out[i].body)
      BY <1>2 DEF Held
    <2>2. x \in ToSet(current.body) => m + 1 \in DOMAIN all /\ all[m + 1] = current
      BY <1>4, <1>5
    <2>3. \A i \in DOMAIN out : i \in DOMAIN all /\ all[i] = out[i]
      BY <1>3, <1>4
    <2>4. \A i \in DOMAIN all : all[i] = current \/ (i \in DOMAIN out /\ all[i] = out[i])
      BY <1>3, <1>4
    <2> QED
      BY <2>1, <2>2, <2>3, <2>4
  <1>8. UNION {ToSet(all[i].body) : i \in DOMAIN all} = {n \in DOMAIN input : input[n] = 0}
    <2> DEFINE B(i) == ToSet(all[i].body)
    <2> HIDE DEF B
    <2>1. \A x : (\E i \in DOMAIN all : x \in B(i)) <=> x \in DOMAIN input /\ input[x] = 0
      BY <1>7 DEF B
    <2>2. UNION {B(i) : i \in DOMAIN all} = {n \in DOMAIN input : input[n] = 0}
      BY <2>1
    <2> QED
      BY <2>2 DEF B
  <1>9. ASSUME NEW i \in DOMAIN all, NEW k \in DOMAIN all, NEW a \in DOMAIN all[i].body, NEW b \in DOMAIN all[k].body,
               i < k \/ (i = k /\ a < b)
        PROVE  all[i].body[a] < all[k].body[b]
    <2>1. CASE i = k /\ a < b
      BY <1>6, <2>1 DEF SectionOK
    <2>2. CASE i < k
      <3>1. InFront(all[i], all[k])
        <4>1. i \in DOMAIN out /\ all[i] = out[i]
          BY <1>3, <1>4, <2>2
        <4>2. CASE k = m + 1
          BY <1>2, <1>4, <4>1, <4>2
        <4>3. CASE k # m + 1
          <5>1. k \in DOMAIN out /\ all[k] = out[k]
            BY <1>3, <1>4, <4>3
          <5> QED
            BY <1>2, <2>2, <4>1, <5>1
        <4> QED
          BY <4>2, <4>3
      <3> QED
        BY <3>1 DEF InFront, ToSet
    <2> QED
      BY <1>9, <2>1, <2>2
  <1>10. ASSUME NEW i \in DOMAIN all, NEW n \in {all[i].heading} \union ToSet(all[i].body)
         PROVE  ToSet(all[i].path) = {h \in 1 .. n : StandsUnder(h, n)}
    <2>1. ToSet(all[i].path) = Under(input, n)
      BY <1>6 DEF SectionOK
    <2>2. Under(input, n) = {h \in 1 .. n : StandsUnder(h, n)}
      BY DEF Under, StandsUnder
    <2> QED
      BY <2>1, <2>2
  <1> QED
    BY <1>8, <1>9, <1>10 DEF SectionsFollowHeadings, all

(* Whatever is read, no bullet, paragraph or word is lost: each bullet is  *)
(* a child chunk in order under the titles since the last slide with       *)
(* content, each paragraph is in one section under its headings, and each  *)
(* word no longer than the overlap is whole in one window.                 *)
THEOREM ReadingLosesNothing == ReadingSpec => []NothingIsLost
  <1>1. ReadingInv => NothingIsLost
    <2>1. ReadingInv => WordsStayWhole
      BY WordsKept DEF ReadingInv, WordsStayWhole
    <2> QED
      BY <2>1, BulletsHeaded, SectionsRight DEF NothingIsLost
  <1> QED
    BY <1>1, ReadingStarts, ReadingKeeps, PTL DEF ReadingSpec

----------------------------------------------------------------------------
(* Weights: each place weighs more than those behind it.                   *)

LEMMA ProductGrows ==
    ASSUME NEW a \in Nat, NEW b \in Nat, NEW c \in Nat, a <= b
    PROVE  a * c <= b * c /\ c * a <= c * b
  OBVIOUS

LEMMA WeightFacts ==
    /\ \A r \in 1 .. Cardinality(Chunks) : Weight(r) \in Nat
    /\ \A r, s \in 1 .. Cardinality(Chunks) : r < s => Weight(s) < Weight(r)
  <1> DEFINE n == Cardinality(Chunks)
  <1>1. n \in Nat
    BY RetrievalAssumption, FS_CardinalityType
  <1>2. Scale \in Nat /\ Scale > 0 /\ RrfK \in Nat
    BY RetrievalAssumption
  <1>3. \A r \in 1 .. n : RrfK + r \in Nat /\ RrfK + r > 0
    BY <1>1, <1>2
  <1>4. ASSUME NEW d \in Nat, d > 0, Scale % d = 0
        PROVE  Scale \div d \in Nat /\ (Scale \div d) * d = Scale
    BY <1>2, <1>4
  <1>5. \A r \in 1 .. n : Weight(r) \in Nat /\ Weight(r) * (RrfK + r) = Scale
    BY <1>3, <1>4, RetrievalAssumption DEF Weight
  <1>6. ASSUME NEW r \in 1 .. n, NEW s \in 1 .. n, r < s
        PROVE  Weight(s) < Weight(r)
    <2> DEFINE v == Weight(s)
               w == Weight(r)
               d == RrfK + r
               e == RrfK + s
    <2>1. v \in Nat /\ w \in Nat /\ d \in Nat /\ e \in Nat /\ d > 0 /\ e = d + (s - r) /\ s - r \in Nat /\ s - r > 0
      BY <1>1, <1>2, <1>5, <1>6
    <2>2. w * d = Scale /\ v * e = Scale
      BY <1>5
    <2> HIDE DEF v, w, d, e
    <2>3. w > 0
      BY <1>2, <2>1, <2>2
    <2>4. ASSUME w <= v
          PROVE  FALSE
      <3>1. w * e <= v * e
        BY <2>1, <2>4, ProductGrows
      <3>2. w * e = w * d + w * (s - r)
        BY <2>1
      <3>3. w * (s - r) > 0
        BY <2>1, <2>3
      <3> QED
        BY <1>2, <2>1, <2>2, <3>1, <3>2, <3>3
    <2> QED
      BY <2>1, <2>4 DEF v, w
  <1> QED
    BY <1>5, <1>6
----------------------------------------------------------------------------
(* A ranking has each chunk at most once.  What a ranking adds to a        *)
(* chunk's score is the weight of its place, or nothing.                   *)

Entry == [chunk : Chunks, score : Int]

RankList ==
    {list \in Seq(Entry) :
        /\ Len(list) <= Cardinality(Chunks)
        /\ \A i, j \in DOMAIN list : list[i].chunk = list[j].chunk => i = j}

LEMMA RankListFacts ==
    ASSUME NEW list \in RankList
    PROVE  /\ Len(list) \in Nat /\ Len(list) <= Cardinality(Chunks) /\ DOMAIN list = 1 .. Len(list)
           /\ DOMAIN list \subseteq 1 .. Cardinality(Chunks) /\ IsFiniteSet(DOMAIN list)
           /\ \A i \in DOMAIN list : list[i] \in Entry /\ list[i].chunk \in Chunks
           /\ \A i, j \in DOMAIN list : list[i].chunk = list[j].chunk => i = j
           /\ Ids(list) \subseteq Chunks
  <1>1. list \in Seq(Entry)
    BY DEF RankList
  <1>2. Len(list) \in Nat /\ DOMAIN list = 1 .. Len(list) /\ \A i \in DOMAIN list : list[i] \in Entry
    BY <1>1, LenProperties, ElementOfSeq
  <1>3. Len(list) <= Cardinality(Chunks) /\ Cardinality(Chunks) \in Nat
    BY RetrievalAssumption, FS_CardinalityType DEF RankList
  <1>4. DOMAIN list \subseteq 1 .. Cardinality(Chunks) /\ IsFiniteSet(DOMAIN list)
    BY <1>2, <1>3, FS_Interval
  <1>5. \A i \in DOMAIN list : list[i].chunk \in Chunks
    BY <1>2 DEF Entry
  <1> QED
    BY <1>2, <1>3, <1>4, <1>5 DEF RankList, Ids

LEMMA PlaceFacts ==
    ASSUME NEW list \in RankList, NEW c
    PROVE  /\ Place(list, c) \in Nat
           /\ c \in Ids(list) =>
                 /\ Place(list, c) \in DOMAIN list /\ list[Place(list, c)].chunk = c
                 /\ Place(list, c) \in 1 .. Cardinality(Chunks)
                 /\ WeightIn(list, c) = Weight(Place(list, c))
           /\ c \notin Ids(list) => Place(list, c) = Cardinality(Chunks) + 1 /\ WeightIn(list, c) = 0
           /\ WeightIn(list, c) \in Nat
  <1> DEFINE f == [i \in DOMAIN list |-> IF list[i].chunk = c THEN Weight(i) ELSE 0]
             p == Place(list, c)
  <1>1. /\ Len(list) \in Nat /\ DOMAIN list = 1 .. Len(list)
        /\ DOMAIN list \subseteq 1 .. Cardinality(Chunks) /\ IsFiniteSet(DOMAIN list)
        /\ \A i, j \in DOMAIN list : list[i].chunk = list[j].chunk => i = j
    BY RankListFacts
  <1>2. WeightIn(list, c) = SumFunctionOnSet(f, DOMAIN list)
    BY DEF WeightIn, SumFunction
  <1>3. Cardinality(Chunks) \in Nat
    BY RetrievalAssumption, FS_CardinalityType
  <1>4. CASE c \in Ids(list)
    <2>1. p \in DOMAIN list /\ list[p].chunk = c
      BY <1>4 DEF Place, Ids
    <2>2. p \in 1 .. Cardinality(Chunks) /\ p \in Nat
      BY <1>1, <2>1
    <2> HIDE DEF p
    <2>3. f[p] = Weight(p) /\ Weight(p) \in Nat
      BY <2>1, <2>2, WeightFacts
    <2>4. \A i \in DOMAIN list \ {p} : f[i] = 0
      BY <1>1, <2>1
    <2> HIDE DEF f
    <2>5. SumFunctionOnSet(f, DOMAIN list) = f[p]
      BY <1>1, <2>1, <2>3, <2>4, SumOfOne
    <2> QED
      BY <1>2, <1>4, <2>1, <2>2, <2>3, <2>5 DEF p
  <1>5. CASE c \notin Ids(list)
    <2>1. \A i \in DOMAIN list : f[i] = 0
      BY <1>5 DEF Ids
    <2> HIDE DEF f
    <2>2. SumFunctionOnSet(f, DOMAIN list) = 0
      BY <1>1, <2>1, SumOfZeros
    <2>3. p = Cardinality(Chunks) + 1
      BY <1>5 DEF Place
    <2> QED
      BY <1>2, <1>3, <1>5, <2>2, <2>3
  <1> QED
    BY <1>4, <1>5

(* What is ahead in a ranking gets no less from it, and more if the other  *)
(* is in it.                                                               *)
LEMMA AheadWeighsMore ==
    ASSUME NEW list \in RankList, NEW a \in Chunks, NEW b \in Chunks, b \in Ids(list) => Ahead(list, a, b)
    PROVE  /\ WeightIn(list, b) <= WeightIn(list, a)
           /\ b \in Ids(list) => a \in Ids(list) /\ WeightIn(list, b) < WeightIn(list, a)
  <1>1. CASE b \notin Ids(list)
    <2>1. WeightIn(list, b) = 0 /\ WeightIn(list, a) \in Nat
      BY <1>1, PlaceFacts
    <2> QED
      BY <1>1, <2>1
  <1>2. CASE b \in Ids(list)
    <2> DEFINE p == Place(list, a)
               q == Place(list, b)
    <2>1. q \in 1 .. Cardinality(Chunks) /\ WeightIn(list, b) = Weight(q) /\ p \in Nat /\ p < q
      BY <1>2, PlaceFacts DEF Ahead
    <2>2. Cardinality(Chunks) \in Nat
      BY RetrievalAssumption, FS_CardinalityType
    <2>3. a \in Ids(list)
      <3>1. a \notin Ids(list) => p = Cardinality(Chunks) + 1
        BY PlaceFacts
      <3> QED
        BY <2>1, <2>2, <3>1
    <2>4. p \in 1 .. Cardinality(Chunks) /\ WeightIn(list, a) = Weight(p)
      BY <2>3, PlaceFacts
    <2> HIDE DEF p, q
    <2>5. Weight(q) < Weight(p) /\ Weight(p) \in Nat /\ Weight(q) \in Nat
      BY <2>1, <2>4, WeightFacts
    <2> QED
      BY <1>2, <2>1, <2>3, <2>4, <2>5
  <1> QED
    BY <1>1, <1>2

LEMMA AgreedScores ==
    ASSUME NEW lists \in Seq(RankList), NEW a \in Chunks, NEW b \in Chunks,
           \A i \in DOMAIN lists : b \in Ids(lists[i]) => Ahead(lists[i], a, b),
           NEW m \in DOMAIN lists, b \in Ids(lists[m])
    PROVE  FusedScore(lists, b) < FusedScore(lists, a) /\ a \in Ids(lists[m])
  <1> DEFINE f == [i \in DOMAIN lists |-> WeightIn(lists[i], b)]
             g == [i \in DOMAIN lists |-> WeightIn(lists[i], a)]
  <1>1. DOMAIN lists = 1 .. Len(lists) /\ Len(lists) \in Nat /\ \A i \in DOMAIN lists : lists[i] \in RankList
    BY LenProperties, ElementOfSeq
  <1>2. IsFiniteSet(DOMAIN lists)
    BY <1>1, FS_Interval
  <1>3. FusedScore(lists, b) = SumFunctionOnSet(f, DOMAIN lists) /\ FusedScore(lists, a) = SumFunctionOnSet(g, DOMAIN lists)
    BY DEF FusedScore, SumFunction
  <1>4. \A i \in DOMAIN lists : /\ WeightIn(lists[i], b) \in Nat /\ WeightIn(lists[i], a) \in Nat
                                /\ WeightIn(lists[i], b) <= WeightIn(lists[i], a)
    BY <1>1, PlaceFacts, AheadWeighsMore
  <1>5. WeightIn(lists[m], b) < WeightIn(lists[m], a) /\ a \in Ids(lists[m])
    BY <1>1, AheadWeighsMore
  <1>6. \A i \in DOMAIN lists : f[i] \in Int /\ g[i] \in Int /\ f[i] <= g[i]
    BY <1>4
  <1>7. f[m] < g[m]
    BY <1>5
  <1> HIDE DEF f, g
  <1> QED
    BY <1>2, <1>3, <1>5, <1>6, <1>7, SumGrowsStrictly

LEMMA ScoreType ==
    ASSUME NEW lists \in Seq(RankList), NEW c
    PROVE  FusedScore(lists, c) \in Int
  <1> DEFINE f == [i \in DOMAIN lists |-> WeightIn(lists[i], c)]
  <1>1. DOMAIN lists = 1 .. Len(lists) /\ Len(lists) \in Nat /\ \A i \in DOMAIN lists : lists[i] \in RankList
    BY LenProperties, ElementOfSeq
  <1>2. IsFiniteSet(DOMAIN lists)
    BY <1>1, FS_Interval
  <1>3. \A i \in DOMAIN lists : f[i] \in Int
    BY <1>1, PlaceFacts
  <1>4. FusedScore(lists, c) = SumFunctionOnSet(f, DOMAIN lists)
    BY DEF FusedScore, SumFunction
  <1> HIDE DEF f
  <1> QED
    BY <1>2, <1>3, <1>4, SumType

(* The place at which a chunk is first seen.                               *)
LEMMA FirstSeenFacts ==
    ASSUME NEW lists \in Seq(RankList), NEW m \in DOMAIN lists, NEW c \in Ids(lists[m])
    PROVE  LET p == FirstSeen(lists, c) IN
           /\ p = <<p[1], p[2]>> /\ p[1] \in Nat /\ p[2] \in Nat
           /\ p[1] \in DOMAIN lists /\ p[2] \in DOMAIN lists[p[1]]
           /\ lists[p[1]][p[2]].chunk = c
  <1> DEFINE all == UNION {{i} \X DOMAIN lists[i] : i \in DOMAIN lists}
             places == {p \in all : lists[p[1]][p[2]].chunk = c}
             I == {i \in DOMAIN lists : c \in Ids(lists[i])}
  <1>1. DOMAIN lists = 1 .. Len(lists) /\ Len(lists) \in Nat /\ \A i \in DOMAIN lists : lists[i] \in RankList
    BY LenProperties, ElementOfSeq
  <1>2. \A i \in DOMAIN lists : DOMAIN lists[i] \subseteq Nat
    BY <1>1, RankListFacts
  <1>3. \A p \in all : /\ p = <<p[1], p[2]>> /\ p[1] \in DOMAIN lists /\ p[2] \in DOMAIN lists[p[1]]
                       /\ p[1] \in Nat /\ p[2] \in Nat
    BY <1>1, <1>2
  <1>4. \A i \in DOMAIN lists : \A j \in DOMAIN lists[i] : <<i, j>> \in all
    OBVIOUS
  <1>5. PICK i \in I : \A k \in I : i <= k
    <2>1. I \subseteq Nat /\ I # {}
      BY <1>1
    <2> HIDE DEF I
    <2> QED
      BY <2>1, LeastNatural
  <1> DEFINE J == {j \in DOMAIN lists[i] : lists[i][j].chunk = c}
  <1>6. PICK j \in J : \A k \in J : j <= k
    <2>1. J \subseteq Nat /\ J # {}
      BY <1>2 DEF Ids
    <2> HIDE DEF J
    <2> QED
      BY <2>1, LeastNatural
  <1>7. <<i, j>> \in places
    BY <1>4
  <1>8. ASSUME NEW q \in places
        PROVE  <<i, j>> = q \/ Earlier(<<i, j>>, q)
    <2>1. /\ q = <<q[1], q[2]>> /\ q[1] \in DOMAIN lists /\ q[2] \in DOMAIN lists[q[1]]
          /\ q[1] \in Nat /\ q[2] \in Nat /\ lists[q[1]][q[2]].chunk = c
      BY <1>3
    <2>2. q[1] \in I
      BY <2>1 DEF Ids
    <2>3. i <= q[1] /\ i \in Nat /\ j \in Nat
      BY <1>1, <1>2, <1>5, <2>2
    <2>4. CASE i < q[1]
      BY <2>4 DEF Earlier
    <2>5. CASE i = q[1]
      <3>1. q[2] \in J
        BY <2>1, <2>5
      <3>2. j <= q[2]
        BY <1>6, <3>1
      <3>3. CASE j = q[2]
        BY <2>1, <2>5, <3>3
      <3>4. CASE j < q[2]
        BY <2>5, <3>4 DEF Earlier
      <3> QED
        BY <2>1, <2>3, <3>2, <3>3, <3>4
    <2> QED
      BY <2>1, <2>3, <2>4, <2>5
  <1>9. FirstSeen(lists, c) = CHOOSE p \in places : \A q \in places : p = q \/ Earlier(p, q)
    BY DEF FirstSeen
  <1> HIDE DEF places
  <1>10. FirstSeen(lists, c) \in places
    BY <1>7, <1>8, <1>9
  <1> HIDE DEF all
  <1> QED
    BY <1>3, <1>10 DEF places
----------------------------------------------------------------------------
(* Fusion.                                                                 *)

LEMMA CutFacts ==
    ASSUME NEW T, NEW list \in Seq(T), NEW n \in Nat
    PROVE  LET c == Cut(list, n) IN
           /\ c \in Seq(T) /\ Len(list) \in Nat /\ Len(c) = IF n <= Len(list) THEN n ELSE Len(list)
           /\ DOMAIN c = 1 .. Len(c) /\ Len(c) <= Len(list) /\ Len(c) \in Nat
           /\ \A i \in DOMAIN c : i \in DOMAIN list /\ c[i] = list[i]
  <1> DEFINE m == Min({n, Len(list)})
             c == Cut(list, n)
  <1>1. Len(list) \in Nat /\ DOMAIN list = 1 .. Len(list)
    BY LenProperties
  <1>2. m = (IF n <= Len(list) THEN n ELSE Len(list)) /\ m \in Nat /\ m <= Len(list)
    <2>1. Min({n, Len(list)}) = IF n <= Len(list) THEN n ELSE Len(list)
      <3>1. n \in Int /\ Len(list) \in Int
        BY <1>1
      <3>2. Min({n, Len(list)}) = IF n <= Len(list) THEN n ELSE Len(list)
        BY <3>1, PairFacts
      <3> QED
        BY <3>2
    <2> QED
      BY <1>1, <2>1
  <1>3. c = SubSeq(list, 1, m)
    BY DEF Cut
  <1> HIDE DEF m, c
  <1>4. c \in Seq(T) /\ Len(c) = m /\ \A i \in 1 .. m : c[i] = list[i]
    <2>1. m \in Int /\ 1 \in Int /\ m \in Nat /\ \A i \in 1 .. m : list[i] \in T
      <3>1. m \in Nat /\ m <= Len(list)
        BY <1>2
      <3>2. \A i \in 1 .. m : i \in DOMAIN list
        BY <1>1, <3>1
      <3> QED
        BY <3>1, <3>2, ElementOfSeq
    <2>2. /\ SubSeq(list, 1, m) \in Seq(T)
          /\ Len(SubSeq(list, 1, m)) = IF 1 <= m THEN m - 1 + 1 ELSE 0
          /\ \A i \in 1 .. m - 1 + 1 : SubSeq(list, 1, m)[i] = list[1 + i - 1]
      BY <2>1, SubSeqProperties
    <2>3. Len(SubSeq(list, 1, m)) = m /\ m - 1 + 1 = m /\ \A i \in 1 .. m : 1 + i - 1 = i
      BY <2>1, <2>2
    <2> QED
      BY <1>3, <2>2, <2>3
  <1>5. DOMAIN c = 1 .. m
    BY <1>4, LenProperties
  <1>6. /\ Len(c) = IF n <= Len(list) THEN n ELSE Len(list)
        /\ DOMAIN c = 1 .. Len(c) /\ Len(c) <= Len(list) /\ Len(c) \in Nat
    BY <1>1, <1>2, <1>4, <1>5
  <1>7. \A i \in DOMAIN c : i \in DOMAIN list /\ c[i] = list[i]
    <2>1. DOMAIN c = 1 .. m /\ m \in Nat /\ m <= Len(list)
      BY <1>2, <1>5
    <2>2. 1 .. m \subseteq DOMAIN list
      BY <1>1, <2>1
    <2> QED
      BY <1>4, <2>1, <2>2
  <1> QED
    BY <1>1, <1>4, <1>6, <1>7 DEF c

LEMMA CutRanking ==
    ASSUME NEW list \in RankList, NEW n \in Nat
    PROVE  Cut(list, n) \in RankList
  <1> DEFINE c == Cut(list, n)
  <1>1. list \in Seq(Entry)
    BY DEF RankList
  <1>2. /\ c \in Seq(Entry) /\ Len(c) <= Len(list) /\ Len(c) \in Nat
        /\ \A i \in DOMAIN c : i \in DOMAIN list /\ c[i] = list[i]
    BY <1>1, CutFacts
  <1>3. Len(list) \in Nat /\ Len(list) <= Cardinality(Chunks) /\ Cardinality(Chunks) \in Nat
    BY RankListFacts, RetrievalAssumption, FS_CardinalityType
  <1> HIDE DEF c
  <1>4. \A i, j \in DOMAIN c : c[i].chunk = c[j].chunk => i = j
    BY <1>2 DEF RankList
  <1>5. Len(c) <= Cardinality(Chunks)
    BY <1>2, <1>3
  <1>6. c \in RankList
    BY <1>2, <1>4, <1>5 DEF RankList
  <1> QED
    BY <1>6 DEF c

SeenIn(lists) == UNION {Ids(lists[i]) : i \in DOMAIN lists}

(* The chunks seen, the higher score first.                                *)
LEMMA FusedFacts ==
    ASSUME NEW lists \in Seq(RankList), NEW k \in Nat
    PROVE  \E n \in Nat : \E order \in [1 .. n -> SeenIn(lists)] :
              /\ n <= Cardinality(Chunks)
              /\ \A i, j \in 1 .. n : order[i] = order[j] => i = j
              /\ \A c \in SeenIn(lists) : \E i \in 1 .. n : order[i] = c
              /\ \A i, j \in 1 .. n : FusedScore(lists, order[i]) > FusedScore(lists, order[j]) => i < j
              /\ Fused(lists, k) = Cut([i \in 1 .. n |-> Scored(order[i], FusedScore(lists, order[i]))], k)
  <1> DEFINE seen  == UNION {Ids(lists[i]) : i \in DOMAIN lists}
             score == [c \in seen |-> FusedScore(lists, c)]
             first == [c \in seen |-> FirstSeen(lists, c)]
             before == {p \in seen \X seen :
                           \/ score[p[1]] > score[p[2]]
                           \/ (score[p[1]] = score[p[2]] /\ Earlier(first[p[1]], first[p[2]]))}
             order == Arranged(seen, before)
             n == Cardinality(seen)
  <1>1. \A i \in DOMAIN lists : lists[i] \in RankList
    BY LenProperties, ElementOfSeq
  <1>2. seen \subseteq Chunks /\ seen = SeenIn(lists)
    <2>1. \A i \in DOMAIN lists : Ids(lists[i]) \subseteq Chunks
      BY <1>1, RankListFacts
    <2> QED
      BY <2>1 DEF SeenIn
  <1>3. IsFiniteSet(seen) /\ n \in Nat /\ n <= Cardinality(Chunks)
    <2> HIDE DEF seen
    <2> QED
      BY <1>2, RetrievalAssumption, FS_Subset, FS_CardinalityType
  <1>4. Fused(lists, k) = Cut([i \in DOMAIN order |-> Scored(order[i], score[order[i]])], k)
    BY DEF Fused
  <1>5. \A c \in seen : score[c] = FusedScore(lists, c) /\ score[c] \in Int
    BY ScoreType
  <1>6. \A c \in seen : /\ first[c] = <<first[c][1], first[c][2]>> /\ first[c][1] \in Nat /\ first[c][2] \in Nat
                        /\ lists[first[c][1]][first[c][2]].chunk = c
    <2> SUFFICES ASSUME NEW c \in seen
                 PROVE  /\ first[c] = <<first[c][1], first[c][2]>> /\ first[c][1] \in Nat /\ first[c][2] \in Nat
                        /\ lists[first[c][1]][first[c][2]].chunk = c
      OBVIOUS
    <2>1. PICK m \in DOMAIN lists : c \in Ids(lists[m])
      OBVIOUS
    <2>2. first[c] = FirstSeen(lists, c)
      OBVIOUS
    <2> HIDE DEF first, seen
    <2> QED
      BY <2>1, <2>2, FirstSeenFacts
  <1> DEFINE less(c, d) == \/ score[c] > score[d]
                           \/ (score[c] = score[d] /\ Earlier(first[c], first[d]))
  <1>7. \A c, d \in seen : <<c, d>> \in before <=> less(c, d)
    <2> HIDE DEF seen, score, first
    <2> QED
      OBVIOUS
  <1> HIDE DEF seen, score, first, before
  <1>8. StrictOrder(seen, before)
    <2>1. \A c \in seen : ~less(c, c)
      BY <1>5, <1>6 DEF Earlier
    <2>2. ASSUME NEW c \in seen, NEW d \in seen, NEW e \in seen, less(c, d), less(d, e)
          PROVE  less(c, e)
      <3>1. /\ score[c] \in Int /\ score[d] \in Int /\ score[e] \in Int
            /\ first[c][1] \in Nat /\ first[d][1] \in Nat /\ first[e][1] \in Nat
            /\ first[c][2] \in Nat /\ first[d][2] \in Nat /\ first[e][2] \in Nat
        BY <1>5, <1>6
      <3> QED
        BY <2>2, <3>1 DEF Earlier
    <2>3. ASSUME NEW c \in seen, NEW d \in seen, c # d
          PROVE  less(c, d) \/ less(d, c)
      <3>1. /\ score[c] \in Int /\ score[d] \in Int
            /\ first[c][1] \in Nat /\ first[d][1] \in Nat /\ first[c][2] \in Nat /\ first[d][2] \in Nat
        BY <1>5, <1>6
      <3>2. first[c][1] # first[d][1] \/ first[c][2] # first[d][2]
        BY <1>6, <2>3
      <3> QED
        BY <3>1, <3>2 DEF Earlier
    <2> HIDE DEF less
    <2> QED
      BY <1>7, <2>1, <2>2, <2>3 DEF StrictOrder
  <1> HIDE DEF order
  <1>9. /\ order \in [1 .. n -> seen]
        /\ \A i, j \in 1 .. n : <<order[i], order[j]>> \in before => i < j
        /\ \A i, j \in 1 .. n : order[i] = order[j] => i = j
        /\ \A c \in seen : \E i \in 1 .. n : order[i] = c
    BY <1>3, <1>8, ArrangedFacts DEF order
  <1> HIDE DEF n
  <1>10. ASSUME NEW i \in 1 .. n, NEW j \in 1 .. n, FusedScore(lists, order[i]) > FusedScore(lists, order[j])
         PROVE  i < j
    <2>1. order[i] \in seen /\ order[j] \in seen
      BY <1>9
    <2>2. less(order[i], order[j])
      BY <1>5, <1>10, <2>1
    <2> HIDE DEF less
    <2>3. <<order[i], order[j]>> \in before
      BY <1>7, <2>1, <2>2
    <2> QED
      BY <1>9, <2>3
  <1>11. Fused(lists, k) = Cut([i \in 1 .. n |-> Scored(order[i], FusedScore(lists, order[i]))], k)
    <2>1. DOMAIN order = 1 .. n
      BY <1>9
    <2>2. \A i \in 1 .. n : score[order[i]] = FusedScore(lists, order[i])
      BY <1>5, <1>9
    <2>3. [i \in DOMAIN order |-> Scored(order[i], score[order[i]])] = [i \in 1 .. n |-> Scored(order[i], FusedScore(lists, order[i]))]
      BY <2>1, <2>2
    <2> QED
      BY <1>4, <2>3
  <1> QED
    BY <1>2, <1>3, <1>9, <1>10, <1>11

LEMMA FusionKeepsAgreement ==
    ASSUME NEW lists \in Seq(RankList), NEW k \in Nat
    PROVE  Fused(lists, k) \in RankList /\ KeepsAgreement(lists, k)
  <1>0. PICK n \in Nat : \E order \in [1 .. n -> SeenIn(lists)] :
           /\ n <= Cardinality(Chunks)
           /\ \A i, j \in 1 .. n : order[i] = order[j] => i = j
           /\ \A c \in SeenIn(lists) : \E i \in 1 .. n : order[i] = c
           /\ \A i, j \in 1 .. n : FusedScore(lists, order[i]) > FusedScore(lists, order[j]) => i < j
           /\ Fused(lists, k) = Cut([i \in 1 .. n |-> Scored(order[i], FusedScore(lists, order[i]))], k)
    BY FusedFacts
  <1>1. PICK order \in [1 .. n -> SeenIn(lists)] :
           /\ n <= Cardinality(Chunks)
           /\ \A i, j \in 1 .. n : order[i] = order[j] => i = j
           /\ \A c \in SeenIn(lists) : \E i \in 1 .. n : order[i] = c
           /\ \A i, j \in 1 .. n : FusedScore(lists, order[i]) > FusedScore(lists, order[j]) => i < j
           /\ Fused(lists, k) = Cut([i \in 1 .. n |-> Scored(order[i], FusedScore(lists, order[i]))], k)
    BY <1>0
  <1> DEFINE list == [i \in 1 .. n |-> Scored(order[i], FusedScore(lists, order[i]))]
             fused == Fused(lists, k)
  <1>2. SeenIn(lists) \subseteq Chunks
    <2>1. \A i \in DOMAIN lists : lists[i] \in RankList
      BY LenProperties, ElementOfSeq
    <2>2. \A i \in DOMAIN lists : Ids(lists[i]) \subseteq Chunks
      BY <2>1, RankListFacts
    <2> QED
      BY <2>2 DEF SeenIn
  <1>3. \A i \in 1 .. n : Scored(order[i], FusedScore(lists, order[i])) \in Entry
    BY <1>1, <1>2, ScoreType DEF Scored, Entry
  <1>4. list \in Seq(Entry) /\ Len(list) = n /\ DOMAIN list = 1 .. n
    <2>1. list \in [1 .. n -> Entry]
      BY <1>3
    <2> HIDE DEF list
    <2>2. list \in Seq(Entry)
      BY <2>1, SeqDef
    <2> QED
      BY <2>1, <2>2, LenProperties
  <1>5. \A i \in 1 .. n : list[i].chunk = order[i]
    BY DEF Scored
  <1> HIDE DEF list
  <1>6. list \in RankList
    BY <1>1, <1>4, <1>5 DEF RankList
  <1>7. fused = Cut(list, k)
    BY <1>1 DEF list
  <1> HIDE DEF fused
  <1>8. fused \in RankList
    BY <1>6, <1>7, CutRanking
  <1>9. /\ DOMAIN fused = 1 .. Len(fused) /\ Len(fused) \in Nat /\ Len(fused) <= n
        /\ \A i \in 1 .. Len(fused) : fused[i] = list[i]
    BY <1>4, <1>7, CutFacts
  <1>10. \A i \in 1 .. Len(fused) : i \in 1 .. n /\ fused[i].chunk = order[i]
    BY <1>5, <1>9
  <1>11. ASSUME NEW b \in Ids(fused), NEW a \in Chunks,
                \A i \in DOMAIN lists : b \in Ids(lists[i]) => Ahead(lists[i], a, b)
         PROVE  Ahead(fused, a, b)
    <2>1. PICK j \in 1 .. Len(fused) : b = order[j]
      BY <1>9, <1>10 DEF Ids
    <2>2. b \in SeenIn(lists) /\ b \in Chunks /\ j \in 1 .. n
      BY <1>1, <1>2, <1>10, <2>1
    <2>3. PICK m \in DOMAIN lists : b \in Ids(lists[m])
      BY <2>2 DEF SeenIn
    <2>4. FusedScore(lists, b) < FusedScore(lists, a) /\ a \in Ids(lists[m])
      BY <1>11, <2>2, <2>3, AgreedScores
    <2>5. a \in SeenIn(lists)
      BY <2>3, <2>4 DEF SeenIn
    <2>6. PICK i \in 1 .. n : order[i] = a
      BY <1>1, <2>5
    <2>7. FusedScore(lists, order[i]) > FusedScore(lists, order[j])
      BY <2>1, <2>4, <2>6, ScoreType
    <2>8. i < j
      BY <1>1, <2>2, <2>7
    <2>9. i \in 1 .. Len(fused)
      BY <1>9, <2>8
    <2>10. fused[i].chunk = a /\ fused[j].chunk = b
      BY <1>10, <2>1, <2>6, <2>9
    <2>11. a \in Ids(fused)
      BY <1>9, <2>9, <2>10 DEF Ids
    <2>12. /\ Place(fused, a) \in DOMAIN fused /\ fused[Place(fused, a)].chunk = a
           /\ Place(fused, b) \in DOMAIN fused /\ fused[Place(fused, b)].chunk = b
      BY <1>8, <1>11, <2>11, PlaceFacts
    <2>13. Place(fused, a) = i /\ Place(fused, b) = j
      BY <1>8, <1>9, <2>9, <2>10, <2>12, RankListFacts
    <2> QED
      BY <2>8, <2>13 DEF Ahead
  <1> QED
    BY <1>8, <1>11 DEF KeepsAgreement, fused
----------------------------------------------------------------------------
(* The sizes of the stages.                                                *)

LEMMA LargerOf ==
    ASSUME NEW a \in Nat, NEW b \in Nat
    PROVE  Max({a, b}) \in Nat /\ a <= Max({a, b}) /\ b <= Max({a, b})
  <1>1. Max({a, b}) = IF a >= b THEN a ELSE b
    <2>1. a \in Int /\ b \in Int
      OBVIOUS
    <2> QED
      BY <2>1, PairFacts
  <1> QED
    BY <1>1

LEMMA SizeFacts ==
    ASSUME NEW s \in Settings
    PROVE  /\ StageSizes(s).pool \in Nat /\ StageSizes(s).rerank \in Nat /\ Asked(s) \in Nat
           /\ s.reranker # "none" => StageSizes(s).rerank < StageSizes(s).pool
           /\ s.reranker # "none" /\ s.mmr => s.mmr_k < StageSizes(s).rerank
           /\ s.reranker = "none" /\ s.mmr => s.mmr_k < StageSizes(s).pool
  <1> DEFINE reranks   == s.reranker # "none"
             both      == Max({s.top_n, 2 * s.mmr_k})
             rerank    == IF reranks /\ s.mmr THEN both ELSE s.top_n
             narrowest == IF reranks THEN rerank ELSE s.mmr_k
             wide      == narrowest * s.multiplier
             pool      == Max({s.top_k, wide})
  <1>1. /\ s.top_k \in Nat /\ s.cap \in Nat /\ s.top_n \in Nat /\ s.top_n > 0 /\ s.mmr_k \in Nat /\ s.mmr_k > 0
        /\ s.multiplier \in Nat /\ s.multiplier >= 2 /\ s.mmr \in BOOLEAN
    BY SettingsAssumption
  <1>2. StageSizes(s) = IF ~reranks /\ ~s.mmr THEN [pool |-> s.top_k, rerank |-> s.top_n]
                        ELSE [pool |-> pool, rerank |-> rerank]
    BY DEF StageSizes
  <1>3. both \in Nat /\ s.top_n <= both /\ s.mmr_k < both
    <2>1. 2 * s.mmr_k \in Nat /\ s.mmr_k < 2 * s.mmr_k
      BY <1>1
    <2>2. both \in Nat /\ s.top_n <= both /\ 2 * s.mmr_k <= both
      BY <1>1, <2>1, LargerOf
    <2> QED
      BY <1>1, <2>1, <2>2
  <1> HIDE DEF both
  <1>4. rerank \in Nat /\ rerank > 0 /\ (reranks /\ s.mmr => s.mmr_k < rerank)
    <2>1. CASE reranks /\ s.mmr
      BY <1>1, <1>3, <2>1
    <2>2. CASE ~(reranks /\ s.mmr)
      BY <1>1, <2>2
    <2> QED
      BY <2>1, <2>2
  <1> HIDE DEF rerank
  <1>5. narrowest \in Nat /\ narrowest > 0 /\ (reranks => narrowest = rerank) /\ (~reranks => narrowest = s.mmr_k)
    BY <1>1, <1>4
  <1> HIDE DEF narrowest
  <1>6. wide \in Nat /\ narrowest < wide
    <2> DEFINE m == s.multiplier
               k == narrowest
    <2>1. m \in Nat /\ m >= 2 /\ k \in Nat /\ k > 0
      BY <1>1, <1>5
    <2> HIDE DEF m, k
    <2>2. k * m = k + k * (m - 1) /\ k * (m - 1) > 0 /\ k * m \in Nat
      BY <2>1
    <2>3. k < k * m
      BY <2>1, <2>2
    <2> QED
      BY <2>2, <2>3 DEF m, k
  <1> HIDE DEF wide
  <1>7. pool \in Nat /\ narrowest < pool
    <2>1. pool \in Nat /\ wide <= pool
      BY <1>1, <1>6, LargerOf
    <2> QED
      BY <1>5, <1>6, <2>1
  <1> HIDE DEF pool
  <1>8. CASE ~reranks /\ ~s.mmr
    <2>1. StageSizes(s).pool = s.top_k /\ StageSizes(s).rerank = s.top_n
      BY <1>2, <1>8
    <2>2. Asked(s) \in Nat
      BY <1>1, <2>1 DEF Asked
    <2> QED
      BY <1>1, <1>8, <2>1, <2>2
  <1>9. CASE reranks \/ s.mmr
    <2>1. StageSizes(s).pool = pool /\ StageSizes(s).rerank = rerank
      BY <1>2, <1>9
    <2>2. Asked(s) \in Nat
      BY <1>7, <2>1 DEF Asked
    <2> QED
      BY <1>4, <1>5, <1>7, <2>1, <2>2
  <1> QED
    BY <1>8, <1>9

----------------------------------------------------------------------------
(* A query on its way.                                                     *)

QueryInv ==
    /\ DOMAIN query = DOMAIN NoQuery
    /\ query.stage \in {"search", "rerank", "diversify", "expand"} => query.setting \in Settings
    /\ query.stage = "search" =>
          /\ query.halves \in Seq(RankList) /\ query.ranked \in Seq(RankList)
          /\ query.texts \in Nat \ {0}
    /\ query.stage = "rerank" =>
          /\ query.candidates \in Seq(Entry) /\ query.left \in Nat
          /\ \/ Len(query.candidates) = query.left
             \/ Len(query.candidates) = StageSizes(query.setting).pool
    /\ query.stage = "diversify" /\ query.setting.mmr => HasChoice(query.setting.mmr_k)

LEMMA QueryStarts == QueryInit => QueryInv
  BY DEF QueryInit, QueryInv, NoQuery

LEMMA RankingsFacts ==
    ASSUME NEW s \in Settings, NEW list \in Rankings(s)
    PROVE  list \in RankList
  <1> DEFINE n == Cardinality(Chunks)
             falling == {f \in [1 .. n -> Levels] : \A i \in 2 .. n : f[i] <= f[i - 1]}
             scores == IF s.technique = "hybrid_rrf" \/ s.multi_query THEN {[i \in 1 .. n |-> 0]} ELSE falling
  <1>1. n \in Nat /\ Asked(s) \in Nat
    BY RetrievalAssumption, FS_CardinalityType, SizeFacts
  <1>2. PICK o \in {o \in [1 .. n -> Chunks] : IsInjective(o)}, f \in scores :
           list = Cut([i \in DOMAIN o |-> Scored(o[i], f[i])], Asked(s))
    BY DEF Rankings
  <1>3. f \in [1 .. n -> Int]
    <2>1. f = [i \in 1 .. n |-> 0] \/ f \in falling
      BY <1>2, Zenon
    <2>2. f \in falling => f \in [1 .. n -> Levels]
      OBVIOUS
    <2>3. f = [i \in 1 .. n |-> 0] => f \in [1 .. n -> Int]
      OBVIOUS
    <2> QED
      BY <2>1, <2>2, <2>3, RetrievalAssumption
  <1> DEFINE all == [i \in 1 .. n |-> Scored(o[i], f[i])]
  <1>4. DOMAIN o = 1 .. n /\ \A i, j \in 1 .. n : o[i] = o[j] => i = j
    BY DEF IsInjective
  <1>5. all \in [1 .. n -> Entry] /\ \A i \in 1 .. n : all[i].chunk = o[i]
    BY <1>2, <1>3 DEF Scored, Entry
  <1>6. list = Cut(all, Asked(s))
    BY <1>2, <1>4
  <1> HIDE DEF all, n
  <1>7. all \in Seq(Entry) /\ Len(all) = n /\ DOMAIN all = 1 .. n
    <2>1. all \in Seq(Entry)
      BY <1>1, <1>5, SeqDef
    <2> QED
      BY <1>1, <1>5, <2>1, LenProperties
  <1>8. all \in RankList
    <2>1. Len(all) <= Cardinality(Chunks)
      BY <1>1, <1>7 DEF n
    <2> QED
      BY <1>4, <1>5, <1>7, <2>1 DEF RankList
  <1> QED
    BY <1>1, <1>6, <1>8, CutRanking

LEMMA CappedType ==
    ASSUME NEW T, NEW list \in Seq(T), NEW limit
    PROVE  Capped(list, limit) \in Seq(T)
  <1> DEFINE fellows(i) == {j \in 1 .. i - 1 : Source(list[j].chunk) = Source(list[i].chunk)}
             places == {i \in DOMAIN list : Cardinality(fellows(i)) < limit}
  <1>1. Capped(list, limit) = IF limit <= 0 THEN list ELSE Picked(list, places)
    BY DEF Capped
  <1>2. places \in SUBSET DOMAIN list
    OBVIOUS
  <1> HIDE DEF places
  <1>3. Picked(list, places) \in Seq(T)
    BY <1>2, PickedFacts
  <1> QED
    BY <1>1, <1>3

LEMMA DescendingFacts ==
    ASSUME NEW T, NEW list \in Seq(T), \A i \in DOMAIN list : list[i].score \in Int
    PROVE  Descending(list) \in Seq(T) /\ Len(Descending(list)) = Len(list)
  <1> DEFINE D == DOMAIN list
             better(i, j) == list[i].score > list[j].score \/ (list[i].score = list[j].score /\ i < j)
             before == {p \in D \X D : better(p[1], p[2])}
             order == Arranged(D, before)
             n == Len(list)
  <1>1. D = 1 .. n /\ n \in Nat /\ D \subseteq Nat /\ \A i \in D : list[i] \in T
    BY LenProperties, ElementOfSeq
  <1>2. IsFiniteSet(D) /\ Cardinality(D) = n
    BY <1>1, FS_Interval
  <1>3. Descending(list) = [i \in DOMAIN order |-> list[order[i]]]
    BY DEF Descending
  <1>4. \A i, j \in D : <<i, j>> \in before <=> better(i, j)
    <2> HIDE DEF D, better
    <2> QED
      OBVIOUS
  <1> HIDE DEF before
  <1>5. StrictOrder(D, before)
    <2>1. \A i \in D : ~better(i, i)
      BY <1>1
    <2>2. \A i, j, k \in D : better(i, j) /\ better(j, k) => better(i, k)
      BY <1>1
    <2>3. \A i, j \in D : i = j \/ better(i, j) \/ better(j, i)
      BY <1>1
    <2> HIDE DEF better, D
    <2> QED
      BY <1>4, <2>1, <2>2, <2>3 DEF StrictOrder
  <1> HIDE DEF D, order, n
  <1>6. order \in [1 .. n -> D]
    BY <1>2, <1>5, ArrangedFacts DEF order
  <1>7. Descending(list) \in [1 .. n -> T]
    BY <1>1, <1>3, <1>6
  <1>8. Descending(list) \in Seq(T)
    BY <1>1, <1>7, SeqDef
  <1> QED
    BY <1>1, <1>7, <1>8, LenProperties DEF n

LEMMA AskKeeps ==
    ASSUME QueryInv, NEW s \in Settings, Ask(s)
    PROVE  QueryInv'
  <1>1. PICK n \in IF s.multi_query THEN 0 .. s.variants ELSE {0} :
           query' = [NoQuery EXCEPT !.stage = "search", !.setting = s, !.texts = 1 + n]
    BY DEF Ask
  <1>2. n \in Nat
    BY SettingsAssumption
  <1>3. /\ DOMAIN query' = DOMAIN NoQuery /\ query'.stage = "search" /\ query'.setting = s
        /\ query'.texts = 1 + n /\ query'.halves = <<>> /\ query'.ranked = <<>>
    BY <1>1 DEF NoQuery
  <1>4. <<>> \in Seq(RankList) /\ 1 + n \in Nat \ {0}
    BY <1>2, EmptySeq
  <1> QED
    BY <1>3, <1>4 DEF QueryInv

LEMMA SearchKeeps == QueryInv /\ Search => QueryInv'
  <1> SUFFICES ASSUME QueryInv, Search
               PROVE  QueryInv'
    OBVIOUS
  <1>1. PICK list \in Rankings(query.setting) : query' = [query EXCEPT !.halves = Append(@, list)]
    BY DEF Search
  <1>2. /\ query.stage = "search" /\ query.setting \in Settings /\ DOMAIN query = DOMAIN NoQuery
        /\ query.halves \in Seq(RankList) /\ query.ranked \in Seq(RankList) /\ query.texts \in Nat \ {0}
    BY DEF Search, QueryInv
  <1>3. list \in RankList
    BY <1>2, RankingsFacts
  <1>4. Append(query.halves, list) \in Seq(RankList)
    BY <1>2, <1>3, AppendProperties
  <1>5. /\ DOMAIN query' = DOMAIN NoQuery /\ query'.stage = "search" /\ query'.setting = query.setting
        /\ query'.texts = query.texts /\ query'.halves = Append(query.halves, list) /\ query'.ranked = query.ranked
    BY <1>1, <1>2 DEF NoQuery
  <1> QED
    BY <1>2, <1>4, <1>5 DEF QueryInv

LEMMA OneTextKeeps == QueryInv /\ OneText => QueryInv'
  <1> SUFFICES ASSUME QueryInv, OneText
               PROVE  QueryInv'
    OBVIOUS
  <1> DEFINE list == IF Halves(query.setting) = 2 THEN Fused(query.halves, Asked(query.setting)) ELSE query.halves[1]
  <1>1. /\ query.stage = "search" /\ query.setting \in Settings /\ DOMAIN query = DOMAIN NoQuery
        /\ query.halves \in Seq(RankList) /\ query.ranked \in Seq(RankList) /\ query.texts \in Nat \ {0}
        /\ Len(query.halves) = Halves(query.setting)
    BY DEF OneText, QueryInv
  <1>2. query' = [query EXCEPT !.ranked = Append(@, list), !.halves = <<>>]
    BY DEF OneText
  <1>3. list \in RankList
    <2>1. Fused(query.halves, Asked(query.setting)) \in RankList
      BY <1>1, SizeFacts, FusionKeepsAgreement
    <2>2. query.halves[1] \in RankList
      <3>1. 1 \in 1 .. Len(query.halves) /\ DOMAIN query.halves = 1 .. Len(query.halves)
        BY <1>1, LenProperties DEF Halves
      <3> QED
        BY <1>1, <3>1, ElementOfSeq
    <2> QED
      BY <2>1, <2>2
  <1> HIDE DEF list
  <1>4. Append(query.ranked, list) \in Seq(RankList) /\ <<>> \in Seq(RankList)
    BY <1>1, <1>3, AppendProperties, EmptySeq
  <1>5. /\ DOMAIN query' = DOMAIN NoQuery /\ query'.stage = "search" /\ query'.setting = query.setting
        /\ query'.texts = query.texts /\ query'.halves = <<>> /\ query'.ranked = Append(query.ranked, list)
    BY <1>1, <1>2 DEF NoQuery
  <1> QED
    BY <1>1, <1>4, <1>5 DEF QueryInv

LEMMA PoolKeeps == QueryInv /\ Pool => QueryInv'
  <1> SUFFICES ASSUME QueryInv, Pool
               PROVE  QueryInv'
    OBVIOUS
  <1> DEFINE s    == query.setting
             raw  == IF s.multi_query THEN Fused(query.ranked, Asked(s)) ELSE query.ranked[1]
             kept == Capped(raw, s.cap)
             candidates == IF s.cap > 0 THEN Cut(kept, StageSizes(s).pool) ELSE kept
  <1>1. /\ query.stage = "search" /\ s \in Settings /\ DOMAIN query = DOMAIN NoQuery
        /\ query.ranked \in Seq(RankList) /\ query.texts \in Nat \ {0} /\ Len(query.ranked) = query.texts
    BY DEF Pool, QueryInv
  <1>2. query' = [query EXCEPT !.stage = "rerank", !.left = Len(kept), !.ranked = <<>>, !.candidates = candidates]
    BY DEF Pool
  <1>3. raw \in RankList
    <2>1. Fused(query.ranked, Asked(s)) \in RankList
      <3> HIDE DEF s
      <3> QED
        BY <1>1, SizeFacts, FusionKeepsAgreement
    <2>2. query.ranked[1] \in RankList
      <3>1. 1 \in 1 .. Len(query.ranked) /\ DOMAIN query.ranked = 1 .. Len(query.ranked)
        BY <1>1, LenProperties
      <3> QED
        BY <1>1, <3>1, ElementOfSeq
    <2> QED
      BY <2>1, <2>2
  <1> HIDE DEF raw
  <1>4. kept \in Seq(Entry)
    <2>1. raw \in Seq(Entry)
      BY <1>3 DEF RankList
    <2> QED
      BY <2>1, CappedType
  <1> HIDE DEF kept
  <1>5. /\ candidates \in Seq(Entry) /\ Len(kept) \in Nat
        /\ Len(candidates) = Len(kept) \/ Len(candidates) = StageSizes(s).pool
    <2>1. Len(kept) \in Nat
      BY <1>4, LenProperties
    <2>2. StageSizes(s).pool \in Nat
      BY <1>1, SizeFacts
    <2> DEFINE cut == Cut(kept, StageSizes(s).pool)
    <2>3. cut \in Seq(Entry) /\ (Len(cut) = Len(kept) \/ Len(cut) = StageSizes(s).pool)
      BY <1>4, <2>2, CutFacts
    <2> HIDE DEF cut
    <2>4. CASE s.cap > 0
      <3>1. candidates = cut
        BY <2>4 DEF cut
      <3> QED
        BY <2>1, <2>3, <3>1
    <2>5. CASE ~(s.cap > 0)
      <3>1. candidates = kept
        BY <2>5
      <3> QED
        BY <1>4, <2>1, <3>1
    <2> QED
      BY <2>4, <2>5
  <1> HIDE DEF candidates
  <1>6. /\ DOMAIN query' = DOMAIN NoQuery /\ query'.stage = "rerank" /\ query'.setting = s
        /\ query'.left = Len(kept) /\ query'.candidates = candidates
    BY <1>1, <1>2 DEF NoQuery
  <1> HIDE DEF s
  <1> QED
    BY <1>1, <1>5, <1>6 DEF QueryInv

LEMMA RerankKeeps == QueryInv /\ Rerank => QueryInv'
  <1> SUFFICES ASSUME QueryInv, Rerank
               PROVE  QueryInv'
    OBVIOUS
  <1> DEFINE s    == query.setting
             list == query.candidates
             size == StageSizes(s).rerank
             pool == StageSizes(s).pool
  <1>1. /\ query.stage = "rerank" /\ s \in Settings /\ DOMAIN query = DOMAIN NoQuery
        /\ list \in Seq(Entry) /\ query.left \in Nat
        /\ Len(list) = query.left \/ Len(list) = pool
    BY DEF Rerank, QueryInv
  <1>2. /\ s.mmr \in BOOLEAN /\ s.mmr_k \in Nat /\ pool \in Nat /\ size \in Nat
        /\ s.reranker # "none" => size < pool
        /\ s.reranker # "none" /\ s.mmr => s.mmr_k < size
        /\ s.reranker = "none" /\ s.mmr => s.mmr_k < pool
    BY <1>1, SizeFacts, SettingsAssumption
  <1>3. Len(list) \in Nat
    BY <1>1, LenProperties
  <1>4. CASE s.reranker = "none"
    <2>1. query' = [query EXCEPT !.stage = "diversify"]
      BY <1>4 DEF Rerank
    <2>2. /\ DOMAIN query' = DOMAIN NoQuery /\ query'.stage = "diversify" /\ query'.setting = s
          /\ query'.candidates = list /\ query'.left = query.left
      BY <1>1, <2>1 DEF NoQuery
    <2> HIDE DEF s, list, size, pool
    <2>3. s.mmr => Len(list) > s.mmr_k \/ Len(list) = query.left
      BY <1>1, <1>2, <1>3, <1>4
    <2> QED
      BY <1>1, <2>2, <2>3 DEF QueryInv, HasChoice
  <1>5. CASE s.reranker # "none"
    <2>1. PICK f \in [DOMAIN list -> Levels] :
             query' = [query EXCEPT !.stage = "diversify",
                          !.candidates = Cut(Descending([i \in DOMAIN list |-> Scored(list[i].chunk, f[i])]), size)]
      BY <1>5 DEF Rerank
    <2> DEFINE scored == [i \in DOMAIN list |-> Scored(list[i].chunk, f[i])]
               sorted == Descending(scored)
               next   == Cut(sorted, size)
    <2>2. /\ DOMAIN query' = DOMAIN NoQuery /\ query'.stage = "diversify" /\ query'.setting = s
          /\ query'.candidates = next /\ query'.left = query.left
      <3> HIDE DEF next
      <3>1. query' = [query EXCEPT !.stage = "diversify", !.candidates = next]
        BY <2>1 DEF next
      <3> QED
        BY <1>1, <3>1 DEF NoQuery
    <2> HIDE DEF s, list, size, pool
    <2>3. DOMAIN list = 1 .. Len(list) /\ \A i \in DOMAIN list : list[i] \in Entry
      BY <1>1, LenProperties, ElementOfSeq
    <2>4. scored \in Seq(Entry) /\ Len(scored) = Len(list) /\ \A i \in DOMAIN scored : scored[i].score \in Int
      <3>1. \A i \in DOMAIN list : Scored(list[i].chunk, f[i]) \in Entry
        BY <2>3, RetrievalAssumption DEF Entry, Scored
      <3>2. scored \in [1 .. Len(list) -> Entry]
        BY <2>3, <3>1
      <3> HIDE DEF scored
      <3>3. scored \in Seq(Entry)
        BY <1>3, <3>2, SeqDef
      <3>4. \A i \in DOMAIN scored : scored[i].score \in Int
        BY <3>2 DEF Entry
      <3> QED
        BY <1>3, <3>2, <3>3, <3>4, LenProperties
    <2> HIDE DEF scored
    <2>5. sorted \in Seq(Entry) /\ Len(sorted) = Len(list)
      BY <2>4, DescendingFacts
    <2> HIDE DEF sorted
    <2>6. Len(next) = IF size <= Len(list) THEN size ELSE Len(list)
      BY <1>2, <2>5, CutFacts
    <2> HIDE DEF next
    <2>7. s.mmr => Len(next) > s.mmr_k \/ Len(next) = query.left
      <3> SUFFICES ASSUME s.mmr
                   PROVE  Len(next) > s.mmr_k \/ Len(next) = query.left
        OBVIOUS
      <3>1. s.mmr_k < size /\ size < pool
        BY <1>2, <1>5
      <3>2. CASE size <= Len(list)
        BY <1>2, <2>6, <3>1, <3>2
      <3>3. CASE ~(size <= Len(list))
        <4>1. Len(next) = Len(list) /\ Len(list) # pool
          BY <1>2, <1>3, <2>6, <3>1, <3>3
        <4> QED
          BY <1>1, <4>1
      <3> QED
        BY <3>2, <3>3
    <2> QED
      BY <1>1, <2>2, <2>7 DEF QueryInv, HasChoice
  <1> QED
    BY <1>4, <1>5

LEMMA LastStagesKeep == QueryInv /\ (Diversify \/ Expand \/ ModelCallFails) => QueryInv'
  <1> SUFFICES ASSUME QueryInv, Diversify \/ Expand \/ ModelCallFails
               PROVE  QueryInv'
    OBVIOUS
  <1>1. DOMAIN query = DOMAIN NoQuery
    BY DEF QueryInv
  <1>2. CASE Diversify
    <2>1. PICK list : query' = [query EXCEPT !.stage = "expand", !.candidates = list]
      BY <1>2 DEF Diversify
    <2>2. DOMAIN query' = DOMAIN NoQuery /\ query'.stage = "expand" /\ query'.setting = query.setting
      BY <1>1, <2>1 DEF NoQuery
    <2>3. query.setting \in Settings
      BY <1>2 DEF Diversify, QueryInv
    <2> QED
      BY <2>2, <2>3 DEF QueryInv
  <1>3. CASE Expand
    <2>1. PICK list : query' = [query EXCEPT !.stage = "done", !.candidates = list]
      BY <1>3 DEF Expand
    <2>2. DOMAIN query' = DOMAIN NoQuery /\ query'.stage = "done"
      BY <1>1, <2>1 DEF NoQuery
    <2> QED
      BY <2>2 DEF QueryInv
  <1>4. CASE ModelCallFails
    <2>1. DOMAIN query' = DOMAIN NoQuery /\ query'.stage = "failed"
      BY <1>1, <1>4 DEF ModelCallFails, NoQuery
    <2> QED
      BY <2>1 DEF QueryInv
  <1> QED
    BY <1>2, <1>3, <1>4

LEMMA QueryKeeps == QueryInv /\ [QueryNext]_query => QueryInv'
  <1> SUFFICES ASSUME QueryInv, [QueryNext]_query
               PROVE  QueryInv'
    OBVIOUS
  <1>1. CASE \E s \in Settings : Ask(s)
    BY <1>1, AskKeeps
  <1>2. CASE Search \/ OneText \/ Pool \/ Rerank
    BY <1>2, SearchKeeps, OneTextKeeps, PoolKeeps, RerankKeeps
  <1>3. CASE Diversify \/ Expand \/ ModelCallFails
    BY <1>3, LastStagesKeep
  <1>4. CASE UNCHANGED query
    BY <1>4 DEF QueryInv, HasChoice
  <1> QED
    BY <1>1, <1>2, <1>3, <1>4 DEF QueryNext

LEMMA ChoiceLeft == QueryInv => FiltersHaveChoice
  <1> SUFFICES ASSUME QueryInv
               PROVE  FiltersHaveChoice
    OBVIOUS
  <1>1. ASSUME query.stage = "rerank", query.setting.reranker # "none"
        PROVE  HasChoice(StageSizes(query.setting).rerank)
    <2>1. /\ query.setting \in Settings /\ query.candidates \in Seq(Entry)
          /\ Len(query.candidates) = query.left \/ Len(query.candidates) = StageSizes(query.setting).pool
      BY <1>1 DEF QueryInv
    <2>2. StageSizes(query.setting).rerank < StageSizes(query.setting).pool
      BY <1>1, <2>1, SizeFacts
    <2>3. StageSizes(query.setting).rerank \in Nat /\ StageSizes(query.setting).pool \in Nat
      BY <2>1, SizeFacts
    <2> QED
      BY <2>1, <2>2, <2>3 DEF HasChoice
  <1>2. query.stage = "diversify" /\ query.setting.mmr => HasChoice(query.setting.mmr_k)
    BY DEF QueryInv
  <1> QED
    BY <1>1, <1>2 DEF FiltersHaveChoice

LEMMA AgreementKept == QueryInv => AgreementWins
  <1> SUFFICES ASSUME QueryInv, query.stage = "search"
               PROVE  KeepsAgreement(query.halves, Asked(query.setting)) /\ KeepsAgreement(query.ranked, Asked(query.setting))
    BY DEF AgreementWins
  <1>1. query.setting \in Settings /\ query.halves \in Seq(RankList) /\ query.ranked \in Seq(RankList)
    BY DEF QueryInv
  <1>2. Asked(query.setting) \in Nat
    BY <1>1, SizeFacts
  <1> QED
    BY <1>1, <1>2, FusionKeepsAgreement

(* Whatever the rankings and the scores: reranker and diversifier choose   *)
(* among more than they keep or among all that the cap left, and a chunk   *)
(* that every ranking with another puts ahead of it is ahead of it in the  *)
(* fused one.                                                              *)
THEOREM RankingsAreSound == QuerySpec => []RankingIsSound
  <1>1. QueryInv => RankingIsSound
    BY ChoiceLeft, AgreementKept DEF RankingIsSound
  <1> QED
    BY <1>1, QueryStarts, QueryKeeps, PTL DEF QuerySpec
=============================================================================
