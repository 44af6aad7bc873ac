----------------------------- MODULE IndexStore -----------------------------
(***************************************************************************)
(* app/rag/indexer.py: the hybrid index of a project, in memory and on     *)
(* disk.  Every document is one chunk, or none when it is blank; a vector  *)
(* and an entry of the BM25 corpus stand for the text they were made from. *)
(* Several objects may exist for one project, one for each run under way.  *)
(***************************************************************************)
EXTENDS Integers, Sequences, FiniteSets, Ranks

CONSTANTS
    DocOrder,     \* the source documents, in the order of a scan
    DocTexts,     \* what a document can say
    Blank,        \* a text without chunks
    NoText,       \* a document that does not exist, or has no fingerprint
    Builders,     \* runs that build the index
    MaxEditions,  \* bound: changes of documents
    MaxCalls      \* bound: calls of index, save and load

ASSUME IndexAssumption ==
    /\ Len(DocOrder) \in Nat /\ DOMAIN DocOrder = 1..Len(DocOrder)
    /\ Blank \in DocTexts /\ NoText \notin DocTexts
    /\ MaxEditions \in Nat /\ MaxCalls \in Nat

VARIABLES
    source,       \* [documents -> DocTexts or NoText]
    index,        \* [Builders -> ProjectIndex]
    disk,         \* the five files of the project's directory
    saver,        \* [Builders -> [left, alone]]: the files a save has still to write
    intact,       \* history: the last save was complete, of a good index, and alone
    together,     \* history: the chunks and fingerprints on disk are of one index
    editions, calls

indexVars == <<source, index, disk, saver, intact, together, editions, calls>>

Sources == {DocOrder[i] : i \in DOMAIN DocOrder}

\* The files of save, in its order; embeddings.npy says what faiss.index says.
Files == <<"faiss", "embeddings", "chunks", "corpus", "prints">>

NoPrints == [d \in Sources |-> NoText]

NewIndex == [chunks |-> <<>>, faiss |-> <<>>, corpus |-> <<>>, prints |-> NoPrints,
             embedding |-> FALSE, good |-> TRUE, together |-> TRUE, of |-> NoPrints]

NoDisk == [faiss |-> <<>>, embeddings |-> <<>>, chunks |-> <<>>, corpus |-> <<>>, prints |-> NoPrints]

AtEase == [left |-> <<>>, alone |-> TRUE]

TextsOf(chunks) == [i \in DOMAIN chunks |-> chunks[i].text]
-----------------------------------------------------------------------------
EditSource(d, text) ==
    /\ editions < MaxEditions /\ editions' = editions + 1
    /\ source[d] # text /\ source' = [source EXCEPT ![d] = text]
    /\ UNCHANGED <<index, disk, saver, intact, together, calls>>

Call == calls < MaxCalls /\ calls' = calls + 1

Idle(b) == ~index[b].embedding /\ saver[b].left = <<>>

HasChunk(d, known) == \E i \in DOMAIN known.chunks : known.chunks[i].doc = d

\* Mutant: a document that has a chunk keeps it.
KeepsAnyChunk(d, known) == HasChunk(d, known)

\* A document with an unchanged fingerprint keeps the chunk it has.
KeepsChunk(d, known) == known.prints[d] = source[d] /\ HasChunk(d, known)

\* split_document: a document that exists and says something has a chunk.
InIndex(d, known) == source[d] # NoText /\ (KeepsChunk(d, known) \/ source[d] # Blank)

ChunkOf(d, known) ==
    IF KeepsChunk(d, known) THEN known.chunks[CHOOSE i \in DOMAIN known.chunks : known.chunks[i].doc = d]
    ELSE [doc |-> d, text |-> source[d]]

NewChunks(known) ==
    LET having == {i \in DOMAIN DocOrder : InIndex(DocOrder[i], known)}
    IN  [k \in 1..Cardinality(having) |-> ChunkOf(DocOrder[Nth(having, k)], known)]

\* index: without documents, without chunks, and without a change it returns.
IsChanged(known) ==
    /\ NewChunks(known) # <<>>
    /\ Len(NewChunks(known)) # Len(known.chunks) \/ source # known.prints

\* index up to the embedding: chunks and fingerprints are the new ones already.
BeginBuild(b) ==
    /\ Idle(b) /\ Call
    /\ index' = IF IsChanged(index[b])
                THEN [index EXCEPT ![b].chunks = NewChunks(index[b]), ![b].prints = source,
                                   ![b].embedding = TRUE, ![b].of = source]
                ELSE [index EXCEPT ![b].of = source]
    /\ UNCHANGED <<source, disk, saver, intact, together, editions>>

\* Mutant: the corpus of before is kept.
EmbeddedVectorsOnly(b) ==
    /\ index[b].embedding
    /\ index' = [index EXCEPT ![b].faiss = TextsOf(index[b].chunks),
                              ![b].embedding = FALSE, ![b].good = TRUE]
    /\ UNCHANGED <<source, disk, saver, intact, together, editions, calls>>

\* The embedder answers: all chunks were embedded, also those that were kept.
Embedded(b) ==
    /\ index[b].embedding
    /\ index' = [index EXCEPT ![b].faiss = TextsOf(index[b].chunks),
                              ![b].corpus = TextsOf(index[b].chunks),
                              ![b].embedding = FALSE, ![b].good = TRUE]
    /\ UNCHANGED <<source, disk, saver, intact, together, editions, calls>>

\* The embedder raises: the vectors of the last build stay beside the new chunks.
EmbedFails(b) ==
    /\ index[b].embedding
    /\ index' = [index EXCEPT ![b].embedding = FALSE, ![b].good = FALSE]
    /\ UNCHANGED <<source, disk, saver, intact, together, editions, calls>>

IsBuilt(m) == m.faiss # <<>> /\ m.chunks # <<>>

Saving == {b \in Builders : saver[b].left # <<>>}

\* save of an index that is built; the files are written one after the other.
BeginSave(b) ==
    /\ Idle(b) /\ IsBuilt(index[b]) /\ Call
    /\ saver' = [o \in Builders |->
           IF o = b THEN [left |-> Files, alone |-> Saving = {}]
           ELSE [saver[o] EXCEPT !.alone = FALSE]]
    /\ intact' = FALSE /\ together' = FALSE
    /\ UNCHANGED <<source, index, disk, editions>>

\* Mutant: a corpus that is there is kept.
ContentKeepingCorpus(b, file) ==
    CASE file = "prints"     -> index[b].prints
      [] file = "chunks"     -> index[b].chunks
      [] file = "corpus"     -> IF disk.corpus # <<>> THEN disk.corpus ELSE index[b].corpus
      [] OTHER               -> index[b].faiss

Content(b, file) ==
    CASE file = "prints"     -> index[b].prints
      [] file = "chunks"     -> index[b].chunks
      [] file = "corpus"     -> index[b].corpus
      [] OTHER               -> index[b].faiss

WriteFile(b) ==
    LET left == saver[b].left
    IN  /\ left # <<>>
        /\ disk' = [disk EXCEPT ![Head(left)] = Content(b, Head(left))]
        /\ saver' = [saver EXCEPT ![b].left = Tail(left)]
        /\ intact' = IF Len(left) = 1 THEN saver[b].alone /\ index[b].good ELSE intact
        /\ together' = IF Len(left) = 1 THEN saver[b].alone /\ index[b].together ELSE together
        /\ UNCHANGED <<source, index, editions, calls>>

\* The process dies; files already written stay.
BuilderDies(b) ==
    /\ ~Idle(b)
    /\ index' = [index EXCEPT ![b] = NewIndex]
    /\ saver' = [saver EXCEPT ![b] = AtEase]
    /\ UNCHANGED <<source, disk, intact, together, editions, calls>>

\* A new object, and load: vectors and chunks must be there, the rest may.
LoadIndex(b) ==
    /\ Idle(b) /\ disk.faiss # <<>> /\ disk.chunks # <<>> /\ Call
    /\ index' = [index EXCEPT ![b] =
           [chunks |-> disk.chunks, faiss |-> disk.faiss, corpus |-> disk.corpus,
            prints |-> disk.prints, embedding |-> FALSE, good |-> intact, together |-> together,
            of |-> NoPrints]]
    /\ UNCHANGED <<source, disk, saver, intact, together, editions>>

IndexInit ==
    /\ source \in [Sources -> DocTexts \cup {NoText}]
    /\ index = [b \in Builders |-> NewIndex]
    /\ disk = NoDisk /\ saver = [b \in Builders |-> AtEase]
    /\ intact = FALSE /\ together = TRUE /\ editions = 0 /\ calls = 0

IndexStep ==
    \/ \E d \in Sources, text \in DocTexts \cup {NoText} : EditSource(d, text)
    \/ \E b \in Builders :
           \/ BeginBuild(b) \/ Embedded(b) \/ EmbedFails(b)
           \/ BeginSave(b) \/ WriteFile(b) \/ BuilderDies(b) \/ LoadIndex(b)

IndexSpec == IndexInit /\ [][IndexStep]_indexVars
-----------------------------------------------------------------------------
Chunks == Seq([doc : Sources, text : DocTexts \ {Blank}])

IndexTypeOK ==
    /\ source \in [Sources -> DocTexts \cup {NoText}]
    /\ \A b \in Builders : /\ index[b].chunks \in Chunks
                           /\ index[b].prints \in [Sources -> DocTexts \cup {NoText}]
                           /\ saver[b].left \in Seq({Files[i] : i \in DOMAIN Files})
    /\ disk.chunks \in Chunks

\* Vectors, corpus and chunks of an index agree, position by position, unless
\* its last embedding failed or it was loaded from what an interrupted save
\* left (indexer.py:88-136, 217-244).
VectorsMatchChunks ==
    \A b \in Builders :
        index[b].good /\ ~index[b].embedding =>
            /\ index[b].faiss = TextsOf(index[b].chunks)
            /\ index[b].corpus = TextsOf(index[b].chunks)

\* Chunks say what the documents say: there is one for each text, and no other.
Retell(chunks, texts) ==
    /\ \A i \in DOMAIN chunks : texts[chunks[i].doc] = chunks[i].text
    /\ \A d \in Sources : texts[d] \in DocTexts \ {Blank} =>
           \E i \in DOMAIN chunks : chunks[i] = [doc |-> d, text |-> texts[d]]

\* A build leaves the chunks of the documents it was given, incremental or not,
\* unless they have no text at all: then the chunks of before stay.  An index
\* loaded from what an interrupted save left may have the fingerprints of other
\* chunks, and keep these.
ChunksCurrent ==
    \A b \in Builders :
        index[b].together /\ (\E d \in Sources : index[b].of[d] \in DocTexts \ {Blank}) =>
            Retell(index[b].chunks, index[b].of)

\* A complete save of a good index, not crossed by another one, makes the five
\* files agree again, whatever an earlier crash left there (indexer.py:198-215).
SaveHeals ==
    intact => /\ disk.faiss = TextsOf(disk.chunks) /\ disk.embeddings = disk.faiss
              /\ disk.corpus = disk.faiss
=============================================================================
