------------------------------- MODULE Parsing -------------------------------
(***************************************************************************)
(* app/rag/parsers.py: the pieces a parser makes of a file.  A text is a   *)
(* sequence of lines: a heading of a level, a line of text (0), or a blank *)
(* line (-1).  The same sequence stands for the paragraphs of a DOCX, the  *)
(* pages of a PDF.                                                         *)
(***************************************************************************)
EXTENDS Integers, FiniteSets, Sequences, SequencesExt

CONSTANTS
    MaxLevel,         \* heading levels
    MaxTextLines,     \* bound: lines of a text
    MaxColumn         \* bound: columns of a sheet

ASSUME ParsingAssumption == MaxLevel \in Nat \ {0} /\ MaxTextLines \in Nat /\ MaxColumn \in Nat

VARIABLES
    text,             \* the lines
    column            \* a 0-based column

parseVars == <<text, column>>

Blank0 == -1

FirstOr(set) == IF set = {} THEN 1 ELSE CHOOSE i \in set : \A j \in set : i <= j

HeadingLines == {i \in DOMAIN text : text[i] > 0}

\* A chunk of the lines first..last, without what is blank on both sides.
Span(first, last, level) == [first |-> first, last |-> last, level |-> level]

IsBlankSpan(s) == \A i \in s.first..s.last : text[i] = Blank0
-----------------------------------------------------------------------------
\* Mutant: a section ends at the next higher heading only.
SectionLastHigher(h) ==
    LET ends == {i \in HeadingLines : i > h /\ text[i] < text[h]}
    IN  IF ends = {} THEN Len(text) ELSE (CHOOSE i \in ends : \A j \in ends : i <= j) - 1

\* A heading's section ends before the next one of the same or a higher level,
\* so that the sections below it are part of it.
SectionLast(h) ==
    LET ends == {i \in HeadingLines : i > h /\ text[i] <= text[h]}
    IN  IF ends = {} THEN Len(text) ELSE (CHOOSE i \in ends : \A j \in ends : i <= j) - 1

FirstHeading == CHOOSE h \in HeadingLines : \A k \in HeadingLines : h <= k

\* parse_markdown: the text before the first heading, then every section.
MarkdownChunks ==
    IF HeadingLines = {}
    THEN {s \in {Span(1, Len(text), 0)} : ~IsBlankSpan(s)}
    ELSE {Span(h, SectionLast(h), text[h]) : h \in HeadingLines}
             \cup {s \in {Span(1, FirstHeading - 1, 0)} : ~IsBlankSpan(s)}

\* parse_txt: the paragraphs are the runs of lines that are not blank.
ParagraphStarts ==
    {i \in DOMAIN text : text[i] # Blank0 /\ (i = 1 \/ text[i - 1] = Blank0)}

ParagraphLast(i) ==
    CHOOSE e \in i..Len(text) : /\ \A k \in i..e : text[k] # Blank0
                                /\ e = Len(text) \/ text[e + 1] = Blank0

\* Mutant: the blank line is not counted.
LineOffsetTight(i) ==
    LET before == {p \in ParagraphStarts : p < i}
    IN  FoldSet(LAMBDA p, sum : sum + (ParagraphLast(p) - p) + 1, 0, before)

\* line_offset when the paragraph is reached: one blank line is counted after
\* each, however many there are; of blank lines at the beginning one is left to
\* the first paragraph, and two or more count one.
LineOffset(i) ==
    LET before  == {p \in ParagraphStarts : p < i}
        leading == FirstOr(ParagraphStarts) - 1
    IN  FoldSet(LAMBDA p, sum : sum + (ParagraphLast(p) - p) + 2, 0, before)
            + (IF leading >= 2 \/ (leading = 1 /\ before # {}) THEN 1 ELSE 0)

\* Mutant: headings of the same level stay on the stack.
HeadingStackKeeping(i) ==
    LET stack[k \in 0..Len(text)] ==
            IF k = 0 THEN <<>>
            ELSE IF text[k] > 0
                 THEN Append(SelectSeq(stack[k - 1], LAMBDA h : text[h] <= text[k]), k)
                 ELSE stack[k - 1]
    IN  stack[i]

\* heading_stack of parse_docx when paragraph i is reached: what is as deep or
\* deeper on top is popped.
HeadingStack(i) ==
    LET kept(stack, level) ==
            LET deep == {n \in DOMAIN stack : text[stack[n]] < level}
            IN  IF deep = {} THEN <<>>
                ELSE SubSeq(stack, 1, CHOOSE n \in deep : \A m \in deep : m <= n)
        stack[k \in 0..Len(text)] ==
            IF k = 0 THEN <<>>
            ELSE IF text[k] > 0 THEN Append(kept(stack[k - 1], text[k]), k) ELSE stack[k - 1]
    IN  stack[i]

\* parse_pdf: the pages that have text, by their number.
PdfPages == {i \in DOMAIN text : text[i] # Blank0}

\* Mutant: digits as in a positional number.
ColumnLetterPositional(n) ==
    LET letters[k \in 0..n] == IF k < 26 THEN <<k>> ELSE Append(letters[k \div 26], k % 26)
    IN  letters[n]

\* _column_letter, letters as 0 to 25.
ColumnLetter(n) ==
    LET letters[k \in 0..n] == IF k < 26 THEN <<k>> ELSE Append(letters[k \div 26 - 1], k % 26)
    IN  letters[n]

ParsingInit ==
    \/ /\ \E n \in 0..MaxTextLines : text \in [1..n -> {Blank0, 0} \cup 1..MaxLevel]
       /\ column = 0
    \/ text = <<>> /\ column \in 0..MaxColumn
-----------------------------------------------------------------------------
\* Two chunks of a Markdown file share lines only when one is a subsection of
\* the other, and no line that is not blank is left out (parsers.py:29-118).
SectionsNest ==
    LET chunks == MarkdownChunks
    IN  /\ \A a, b \in chunks :
               \/ a.last < b.first \/ b.last < a.first \/ a = b
               \/ a.first < b.first /\ b.last <= a.last /\ a.level < b.level
               \/ b.first < a.first /\ a.last <= b.last /\ b.level < a.level
        /\ \A i \in DOMAIN text : text[i] # Blank0 => \E c \in chunks : i \in c.first..c.last

\* The line a paragraph is cited with is its own when single blank lines divide
\* the text (parsers.py:128-167); elsewhere the citation is off.
CitedLinesExact ==
    (\A i \in DOMAIN text : text[i] = Blank0 => i > 1 /\ text[i - 1] # Blank0) =>
        \A i \in ParagraphStarts : LineOffset(i) = i - 1

\* The heading path of a paragraph goes down strictly and ends at the heading
\* nearest above it (parsers.py:232-284).
HeadingPathsDescend ==
    \A i \in DOMAIN text :
        LET path == HeadingStack(i)
            above == {h \in HeadingLines : h <= i}
        IN  /\ \A n \in DOMAIN path : n < Len(path) => text[path[n]] < text[path[n + 1]]
            /\ above # {} => path # <<>> /\ \A h \in above : h <= path[Len(path)]

\* The letters of a column name no other column: read as bijective numerals of
\* base 26 they give the column back (parsers.py:292-298).
ColumnNamesDecode ==
    LET letters == ColumnLetter(column)
        value[k \in 0..Len(letters)] == IF k = 0 THEN 0 ELSE value[k - 1] * 26 + letters[k] + 1
    IN  value[Len(letters)] = column + 1
=============================================================================
