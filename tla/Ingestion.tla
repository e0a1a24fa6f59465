----------------------------- MODULE Ingestion -----------------------------
(***************************************************************************)
(* How a course file becomes chunks: the extractors (src/ingestion), the   *)
(* captions of pictures, and the chunkers (src/chunking), which read their *)
(* input one slide, paragraph, sentence or character at a time.            *)
(*                                                                         *)
(* Pieces of text are named by where they stand.  A slide deck is a        *)
(* sequence of slides, a DOCX one of paragraphs with a heading level (0    *)
(* for body text), a PDF one of pages of sentences with a length and       *)
(* whether the topic shifts before them; the text of a section is a        *)
(* sequence of characters, of which only blanks matter.                    *)
(***************************************************************************)
EXTENDS Arrangement, SequencesExt

CONSTANTS
    MaxSlides, MaxShapes, Pictures,   \* bounds of a deck; the pictures on its slides
    MaxParagraphs, MaxLevel,          \* bounds of a DOCX
    MaxSentences, MaxLength,          \* bounds of a PDF
    MaxText,                          \* characters of a section
    ChunkSize, ChunkOverlap           \* chunk_size, chunk_overlap

ASSUME BoundAssumption ==
    {MaxSlides, MaxShapes, MaxParagraphs, MaxLevel, MaxSentences, MaxLength, MaxText} \subseteq Nat

(* As config.py:62-63 has them; nothing checks what a user sets.           *)
ASSUME WindowAssumption == ChunkSize \in Nat /\ ChunkOverlap \in Nat /\ ChunkOverlap < ChunkSize

VARIABLE reading

NotReading == [kind |-> "none", input |-> <<>>, at |-> 0, captioned |-> {}, pending |-> <<>>, out |-> <<>>]

Opened(kind) == [NotReading EXCEPT !.kind = kind]
Is(kind) == reading.kind = kind
Open(kind) == Is("none") /\ reading' = Opened(kind)
OpenSlides     == Open("slides")
OpenParagraphs == Open("paragraphs")
OpenPages      == Open("pages")
OpenSection    == Open("section")

----------------------------------------------------------------------------
(* Slide decks.  extract_ppt: the title, the bullets (text paragraphs and  *)
(* table rows) in order, the pictures apart.  Notes are not indexed.       *)

Shapes == {"text"} \union Pictures

Slide(n, titled, shapes) ==
    LET all   == [i \in DOMAIN shapes |-> [slide |-> n, shape |-> i, what |-> shapes[i]]]
        texts == {i \in DOMAIN shapes : shapes[i] = "text"}
    IN  [titled |-> titled, bullets |-> Picked(all, texts), blobs |-> Picked(all, DOMAIN shapes \ texts)]

ExtractSlide ==
    /\ Is("slides") /\ Len(reading.input) < MaxSlides
    /\ \E titled \in BOOLEAN, n \in 0 .. MaxShapes : \E shapes \in [1 .. n -> Shapes] :
          reading' = [reading EXCEPT !.input = Append(@, Slide(Len(@) + 1, titled, shapes))]

EndOfDeck == Is("slides") /\ reading.input # <<>> /\ reading' = [reading EXCEPT !.kind = "captions"]

(* enrich_pptx_images, one slide: a picture whose caption is cached or     *)
(* comes from the model becomes the last bullet; a failed call leaves it.  *)
CaptionSlide ==
    /\ Is("captions") /\ reading.at < Len(reading.input)
    /\ LET n == reading.at + 1
           blobs == reading.input[n].blobs
           known == {i \in DOMAIN blobs : blobs[i].what \in reading.captioned}
       IN  \E fresh \in SUBSET {blobs[i].what : i \in DOMAIN blobs \ known} :
              LET told == {i \in DOMAIN blobs : blobs[i].what \in reading.captioned \union fresh}
              IN  reading' = [reading EXCEPT !.at = n, !.captioned = @ \union fresh,
                                             !.input[n].bullets = @ \o Picked(blobs, told)]

CaptionsDone ==
    /\ Is("captions") /\ reading.at = Len(reading.input)
    /\ reading' = [reading EXCEPT !.kind = "deck", !.at = 0]

(* _chunk_pptx, one slide: a slide without bullets hands its title on.     *)
ChunkSlide ==
    /\ Is("deck") /\ reading.at < Len(reading.input)
    /\ LET n == reading.at + 1
           slide == reading.input[n]
           heading == reading.pending \o (IF slide.titled THEN <<n>> ELSE <<>>)
       IN  reading' = [reading EXCEPT !.at = n,
                          !.pending = IF slide.bullets = <<>> THEN heading ELSE <<>>,
                          !.out = @ \o [i \in DOMAIN slide.bullets |->
                                          [heading |-> heading, bullet |-> slide.bullets[i], parent |-> n]]]

----------------------------------------------------------------------------
(* DOCX: one document per section, found by its headings.                  *)

NoSection == [heading |-> 0, path |-> <<>>, body |-> <<>>]
Current == IF reading.pending = <<>> THEN NoSection ELSE Last(reading.pending)

(* flush_section *)
Flushed(section) == IF section.body = <<>> /\ section.heading = 0 THEN reading.out ELSE Append(reading.out, section)

(* Mutant: a heading of the same level does not end the section before it. *)
AboveOrBeside(path, level) ==
    SubSeq(path, 1, Max({k \in 0 .. Len(path) : k = 0 \/ reading.input[path[k]] <= level}))

(* The stack is popped down to a heading of a higher rank.                 *)
Above(path, level) ==
    SubSeq(path, 1, Max({k \in 0 .. Len(path) : k = 0 \/ reading.input[path[k]] < level}))

ReadHeading ==
    /\ Is("paragraphs") /\ Len(reading.input) < MaxParagraphs
    /\ \E level \in 1 .. MaxLevel :
          LET n == Len(reading.input) + 1
              path == Append(Above(Current.path, level), n)
          IN  reading' = [reading EXCEPT !.input = Append(@, level), !.out = Flushed(Current),
                                         !.pending = <<[heading |-> n, path |-> path, body |-> <<>>]>>]

ReadBody ==
    /\ Is("paragraphs") /\ Len(reading.input) < MaxParagraphs
    /\ reading' = [reading EXCEPT !.input = Append(@, 0),
                                  !.pending = <<[Current EXCEPT !.body = Append(@, Len(reading.input) + 1)]>>]

----------------------------------------------------------------------------
(* PDF: the sentences of a page are grouped; a group ends where the topic  *)
(* shifts or it would grow past ChunkSize, and with its page.              *)

GroupLength(group) == FoldLeft(LAMBDA n, s : n + s.length, 0, group)

ReadSentence ==
    /\ Is("pages") /\ Len(reading.input) < MaxSentences
    /\ \E length \in 1 .. MaxLength, shifts \in BOOLEAN, turns \in BOOLEAN :
          LET s == [length |-> length, shifts |-> shifts, turns |-> turns]
              alone == reading.out = <<>> \/ turns \/ shifts \/ GroupLength(Last(reading.out)) + length > ChunkSize
          IN  reading' = [reading EXCEPT !.input = Append(@, s),
                             !.out = IF alone THEN Append(@, <<s>>) ELSE [@ EXCEPT ![Len(@)] = Append(@, s)]]

----------------------------------------------------------------------------
(* _split_into_windows on the text of a section, read so far: a window     *)
(* starts every Step characters and ends before its last blank.            *)

(* Mutant: the windows do not overlap.                                     *)
StepOver(size, overlap) == size

Step(size, overlap) == Max({size - overlap, 1})

Windows(text, size, overlap) ==
    LET step == Step(size, overlap)
        starts == {s \in {k * step : k \in 0 .. Len(text)} : s = 0 \/ s - step + size < Len(text)}
        blanks(s) == {i \in s + 2 .. s + size : text[i] = "blank"}
        ends(s) == IF s + size >= Len(text) THEN Len(text)
                   ELSE IF blanks(s) = {} THEN s + size ELSE Max(blanks(s)) - 1
    IN  {s + 1 .. ends(s) : s \in starts}

ReadCharacter ==
    /\ Is("section") /\ Len(reading.input) < MaxText
    /\ \E c \in {"x", "blank"} : reading' = [reading EXCEPT !.input = Append(@, c)]

ReadingInit == reading = NotReading
ReadingNext ==
    \/ OpenSlides \/ ExtractSlide \/ EndOfDeck \/ CaptionSlide \/ CaptionsDone \/ ChunkSlide
    \/ OpenParagraphs \/ ReadHeading \/ ReadBody
    \/ OpenPages \/ ReadSentence
    \/ OpenSection \/ ReadCharacter

ReadingSpec == ReadingInit /\ [][ReadingNext]_reading

----------------------------------------------------------------------------
(* Every bullet of the slides chunked so far, captions included, is one    *)
(* child chunk under its slide, in order, and is headed by the titles of   *)
(* all slides since the last one with content (structure_aware.py:45-54).  *)
HeadingOf(n) ==
    {t \in 1 .. n : reading.input[t].titled /\ \A k \in t .. n - 1 : reading.input[k].bullets = <<>>}

BulletsAreHeaded ==
    Is("deck") =>
        \A n \in 1 .. reading.at :
            LET bullets == reading.input[n].bullets
            IN  \E first \in 0 .. Len(reading.out) :
                   /\ {i \in DOMAIN reading.out : reading.out[i].parent = n} = first + 1 .. first + Len(bullets)
                   /\ \A i \in DOMAIN bullets :
                         LET child == reading.out[first + i]
                         IN  child.bullet = bullets[i] /\ ToSet(child.heading) = HeadingOf(n)

(* A section's path names the headings it stands under, and every          *)
(* paragraph is in one section, in order (extract_docx.py:25-28).          *)
Sections == reading.out \o (IF reading.pending = <<>> THEN <<>> ELSE <<Current>>)
StandsUnder(h, n) ==
    reading.input[h] > 0 /\ \A k \in h + 1 .. n : reading.input[k] > 0 => reading.input[k] > reading.input[h]

SectionsFollowHeadings ==
    Is("paragraphs") =>
        /\ UNION {ToSet(Sections[i].body) : i \in DOMAIN Sections} =
              {n \in DOMAIN reading.input : reading.input[n] = 0}
        /\ \A i, k \in DOMAIN Sections : \A a \in DOMAIN Sections[i].body, b \in DOMAIN Sections[k].body :
              i < k \/ (i = k /\ a < b) => Sections[i].body[a] < Sections[k].body[b]
        /\ \A i \in DOMAIN Sections :
              \A n \in {Sections[i].heading} \union ToSet(Sections[i].body) :
                  ToSet(Sections[i].path) = {h \in 1 .. n : StandsUnder(h, n)}

(* Overlapping windows keep words whole: a word of no more characters than *)
(* windows overlap is in one of them from end to end, wherever it stands.  *)
WordsIn(text) ==
    {w \in {a .. b : a, b \in DOMAIN text} \ {{}} :
        /\ \A i \in w : text[i] # "blank"
        /\ \A i \in {Min(w) - 1, Max(w) + 1} \cap DOMAIN text : text[i] = "blank"}

WordsStayWhole ==
    Is("section") =>
        \A w \in WordsIn(reading.input) : Cardinality(w) <= ChunkOverlap =>
            \E window \in Windows(reading.input, ChunkSize, ChunkOverlap) : w \subseteq window

(* Nothing of a course file is lost between the extractor and the index.   *)
NothingIsLost == BulletsAreHeaded /\ SectionsFollowHeadings /\ WordsStayWhole
=============================================================================
