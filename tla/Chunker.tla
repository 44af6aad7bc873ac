------------------------------- MODULE Chunker -------------------------------
(***************************************************************************)
(* app/rag/chunker.py: how the parsed pieces of a document become chunks.  *)
(* A piece has a heading, or none, and a text; a section's pieces are      *)
(* joined by two characters and cut again into chunks of whole paragraphs, *)
(* one paragraph a piece.  Of a text the length counts, and where it       *)
(* occurs in other texts: paragraphs may be repeated, or be part of others.*)
(***************************************************************************)
EXTENDS Integers, FiniteSets, Sequences

CONSTANTS
    PieceTexts,       \* texts of pieces
    SizeOf,           \* [PieceTexts -> their lengths, in characters]
    Occurs,           \* Occurs[t][u]: from the start of the last t in u to the end
                      \* of u, in characters; 0 when t is not in u
    Headings,         \* heading paths; NoHeading for none
    NoHeading,
    MaxPieces         \* bound: pieces of a document

ASSUME ChunkerAssumption ==
    /\ SizeOf \in [PieceTexts -> Nat \ {0}] /\ MaxPieces \in Nat
    /\ Occurs \in [PieceTexts -> [PieceTexts -> Nat]]
    /\ \A t, u \in PieceTexts : /\ Occurs[t][t] = SizeOf[t]
                                /\ Occurs[t][u] # 0 => Occurs[t][u] \in SizeOf[t]..SizeOf[u]

VARIABLE pieces       \* the document: Seq of [heading, text, size]

ChunkMin == 500
ChunkMax == 1000
Overlap == 125
Separator == 2
-----------------------------------------------------------------------------
\* _group_sections: a heading that is not the one of before starts a section; a
\* piece without one stays in the section it is in.
SectionOf ==
    LET at[i \in 1..Len(pieces)] ==
            IF i = 1 THEN [start |-> 1, heading |-> pieces[1].heading]
            ELSE IF pieces[i].heading \notin {NoHeading, at[i - 1].heading}
                 THEN [start |-> i, heading |-> pieces[i].heading]
                 ELSE at[i - 1]
    IN  at

SectionStarts == {SectionOf[i].start : i \in DOMAIN pieces}

SectionEnd(start) ==
    CHOOSE e \in DOMAIN pieces : /\ SectionOf[e].start = start
                                 /\ \A k \in DOMAIN pieces : SectionOf[k].start = start => k <= e

\* The length of the pieces first..last once they are joined.
Joined(first, last) ==
    LET upTo[i \in first..last] ==
            IF i = first THEN pieces[i].size ELSE upTo[i - 1] + Separator + pieces[i].size
    IN  upTo[last]

\* Mutant: the separators are not counted.
BufferEndLoose(i, end) ==
    CHOOSE j \in i..end :
        /\ \A k \in i..j : k = i \/ Joined(i, k) - Separator * (k - i) <= ChunkMax
        /\ j < end => Joined(i, j + 1) - Separator * (j + 1 - i) > ChunkMax

\* The last piece that still fits into a chunk begun at i; the first always does.
BufferEnd(i, end) ==
    CHOOSE j \in i..end : /\ \A k \in i..j : k = i \/ Joined(i, k) <= ChunkMax
                          /\ j < end => Joined(i, j + 1) > ChunkMax

\* Mutant: the last piece of a chunk begins the next one.
NextStartAtLast(i, j) == IF j > i THEN j ELSE j + 1

\* The text of piece i is among the last Overlap characters of the chunk i..j:
\* inside one of its paragraphs, as no text contains the two characters between.
OpensAgain(i, j) ==
    \E k \in i..j :
        LET near == Occurs[pieces[i].text][pieces[k].text]
        IN  near # 0 /\ near + Joined(i, j) - Joined(i, k) <= Overlap

\* Where the next chunk begins.  The overlap counts paragraphs from the chunk's
\* first one, as long as they are somewhere in its last characters; one is
\* enough for the last paragraph to begin the next chunk, more change nothing.
NextStart(i, j) == IF j > i /\ OpensAgain(i, j) THEN j ELSE j + 1

\* Mutant: a short rest is dropped too.
TakenAlways(i, j, end) == Joined(i, j) >= ChunkMin

Taken(i, j, end) == Joined(i, j) >= ChunkMin \/ j = end

\* _fill_to_target of the section that ends at "end": what is too short for a
\* chunk, with a piece after it that does not fit, is left out.
FillToTarget(start, end) ==
    LET from[i \in start..(end + 1)] ==
            IF i = end + 1 THEN <<>>
            ELSE LET j == BufferEnd(i, end)
                     chunk == IF Taken(i, j, end) THEN <<[first |-> i, last |-> j]>> ELSE <<>>
                 IN  IF j = end THEN chunk ELSE chunk \o from[NextStart(i, j)]
    IN  from[start]

\* _merge_section: a section that fits is one chunk.
MergeSection(start) ==
    LET end == SectionEnd(start)
    IN  IF Joined(start, end) <= ChunkMax THEN <<[first |-> start, last |-> end]>>
        ELSE FillToTarget(start, end)

\* split_document of all but spreadsheets, whose rows stay as they are.
SplitDocument ==
    LET upTo[i \in 0..Len(pieces)] ==
            IF i = 0 THEN <<>>
            ELSE IF i \in SectionStarts THEN upTo[i - 1] \o MergeSection(i) ELSE upTo[i - 1]
    IN  upTo[Len(pieces)]

ChunkInit ==
    \E n \in 1..MaxPieces :
        pieces \in [1..n -> {[heading |-> h, text |-> t, size |-> SizeOf[t]] :
                                h \in Headings \cup {NoHeading}, t \in PieceTexts}]
-----------------------------------------------------------------------------
\* A chunk is at most as long as the limit, or one piece that is longer, and
\* its pieces are of one section (chunker.py:84-152).
ChunkSizes ==
    LET chunks == SplitDocument
        section == SectionOf
    IN  \A c \in DOMAIN chunks :
            /\ chunks[c].first = chunks[c].last \/ Joined(chunks[c].first, chunks[c].last) <= ChunkMax
            /\ section[chunks[c].first].start = section[chunks[c].last].start

\* Text is only lost where a short run of pieces stands before one that does
\* not fit after it: never the end of a section, and never a piece that is long
\* enough for a chunk of its own (chunker.py:123-152).
LostOnlyWhenShort ==
    LET chunks == SplitDocument
        section == SectionOf
    IN  \A i \in DOMAIN pieces \ UNION {chunks[c].first..chunks[c].last : c \in DOMAIN chunks} :
            /\ pieces[i].size < ChunkMin
            /\ \E k \in DOMAIN pieces : /\ k > i /\ section[k].start = section[i].start
                                       /\ pieces[k].size > ChunkMax - ChunkMin - Separator

\* A chunk comes after another, or begins with the paragraph that ended it,
\* which happens only when that one opens and closes with the same text.
ComesAfter(chunk, other) ==
    \/ chunk.last < other.first
    \/ /\ chunk.last = other.first
       /\ chunk.first < chunk.last /\ OpensAgain(chunk.first, chunk.last)

\* The chunks of a document come in its order, no piece is in three of them,
\* and two share a piece only where a paragraph is repeated: the overlap that
\* the module promises is not between neighbours, as the count of overlapping
\* paragraphs starts at the wrong end (chunker.py:142-169).
ChunksInOrder ==
    LET chunks == SplitDocument
    IN  \A c \in DOMAIN chunks :
            /\ c < Len(chunks) => ComesAfter(chunks[c], chunks[c + 1])
            /\ c + 1 < Len(chunks) => chunks[c].last < chunks[c + 2].first
=============================================================================
