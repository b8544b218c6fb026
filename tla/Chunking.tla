------------------------------ MODULE Chunking ------------------------------
(***************************************************************************)
(* domain/memory/chunking.py: a text is cut into overlapping windows, whose *)
(* ends move back to a space when one is near.  A text is a sequence of     *)
(* characters, of which only the two kinds of white space are told apart:   *)
(* strip removes both, a boundary snaps to spaces only.  Positions count    *)
(* from 0, as in the code.                                                  *)
(***************************************************************************)
EXTENDS Integers, Sequences, FiniteSets

CONSTANTS ChunkSize, ChunkOverlap, SnapWindow,
          Space, Line   \* the character " ", and white space other than it

ASSUME ChunkingAssumption ==
    /\ ChunkSize \in Nat /\ ChunkOverlap \in Nat /\ SnapWindow \in Nat
    /\ ChunkOverlap + SnapWindow < ChunkSize

White == {Space, Line}

\* The characters of positions i .. j - 1.
Slice(s, i, j) == SubSeq(s, i + 1, j)

\* str.strip
Strip(s) ==
    LET kept == {i \in DOMAIN s : s[i] \notin White}
    IN  IF kept = {} THEN <<>>
        ELSE SubSeq(s, CHOOSE i \in kept : \A j \in kept : i <= j,
                       CHOOSE i \in kept : \A j \in kept : j <= i)

Hard(s, start) == IF start + ChunkSize < Len(s) THEN start + ChunkSize ELSE Len(s)

\* The spaces a boundary may move back to (rfind, and the guard on what it found).
Snaps(s, start) ==
    LET hard == Hard(s, start)
    IN  {i \in (hard - SnapWindow) .. (hard - 1) : i > start /\ s[i + 1] = Space}

Boundary(s, start) ==
    LET hard == Hard(s, start)  snaps == Snaps(s, start)
    IN  IF hard = Len(s) \/ snaps = {} THEN hard
        ELSE CHOOSE i \in snaps : \A j \in snaps : j <= i

\* Mutant: windows that do not overlap.
NextAfterEnd(start, end) == end

NextStart(start, end) ==
    IF end - ChunkOverlap > start THEN end - ChunkOverlap ELSE start + 1

\* The windows that the loop makes chunks of, from one start on.
WindowsOf(s) ==
    LET from[start \in 0 .. Len(s)] ==
          LET end == Boundary(s, start)
              here == IF Strip(Slice(s, start, end)) = <<>> THEN <<>>
                      ELSE <<[start |-> start, end |-> end]>>
          IN  IF end = Len(s) THEN here ELSE here \o from[NextStart(start, end)]
    IN  from[0]

Chunk(s, window) ==
    [start |-> window.start, text |-> Strip(Slice(s, window.start, window.end))]

\* chunk_text: the chunk of ordinal i is the i-th, counted from 0.
ChunkText(text) ==
    LET s == Strip(text)
    IN  IF s = <<>> THEN <<>>
        ELSE IF Len(s) <= ChunkSize THEN <<[start |-> 0, text |-> s]>>
        ELSE [i \in DOMAIN WindowsOf(s) |-> Chunk(s, WindowsOf(s)[i])]

-----------------------------------------------------------------------------

Within(phrase, chunk) ==
    \E i \in 0 .. Len(chunk.text) - Len(phrase) : Slice(chunk.text, i, i + Len(phrase)) = phrase

\* What straddles a boundary is found on one side of it: every phrase that is no
\* longer than the overlap lies in one chunk, wherever the boundaries were moved
\* to and whatever strip cut off (the comment on CHUNK_OVERLAP).
KeepsPhrases(text) ==
    LET chunks == ChunkText(text)
        solid == {i \in DOMAIN text : text[i] \notin White}
    IN  \A i, j \in solid :
          i <= j /\ j - i < ChunkOverlap
            => \E n \in DOMAIN chunks : Within(SubSeq(text, i, j), chunks[n])

\* Chunks come in the order of the text and none repeats another: each one
\* begins strictly later than the one before, so ordinals identify them.
ChunksAdvance(text) ==
    LET chunks == ChunkText(text)
    IN  \A m, n \in DOMAIN chunks : m < n => chunks[m].start < chunks[n].start
=============================================================================
