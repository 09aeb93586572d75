------------------------------- MODULE Context -------------------------------
(****************************************************************************)
(* From a text to its chunks (spatial/chunker.ts), and from the chunks that *)
(* a search found back to a context (federation/context.ts).  A text is its *)
(* length, a piece of it the sequence of its positions.                     *)
(****************************************************************************)
EXTENDS Integers, FiniteSets, SequencesExt

-----------------------------------------------------------------------------
(* chunkText *)

\* The window of chunk i, from start up to but not including end.
Start(size, overlap, i) == i * (size - overlap)

End(size, overlap, n, i) ==
  LET end == Start(size, overlap, i) + size IN IF end < n THEN end ELSE n

\* The loop stops behind the first window that reaches the end of the text.
IsChunk(size, overlap, n, i) ==
  IF i = 0 THEN n > 0 ELSE End(size, overlap, n, i - 1) < n

Positions(from, to) == [k \in 1..(to - from) |-> from + k - 1]

Body(size, overlap, n, i) == Positions(Start(size, overlap, i), End(size, overlap, n, i))

-----------------------------------------------------------------------------
(* assembleContext.  A hit is a document and the index of a chunk of it;    *)
(* text[d] is the length of document d.                                     *)

Found(hits, d) == {i \in {h.index : h \in Range(hits)} : [doc |-> d, index |-> i] \in Range(hits)}

\* Documents in the order of their best hits.
Documents(hits) ==
  SetToSortSeq({h.doc : h \in Range(hits)},
    LAMBDA d, e : \E i \in DOMAIN hits : hits[i].doc = d /\ \A j \in 1..i : hits[j].doc # e)

\* The runs of adjacent chunks of a document, in the order of the text.
Runs(hits, d) ==
  LET found == Found(hits, d)
      runs  == {r \in found \X found : /\ r[1]..r[2] \subseteq found /\ r[1] <= r[2]
                                       /\ r[1] - 1 \notin found /\ r[2] + 1 \notin found}
  IN  SetToSortSeq({[doc |-> d, from |-> r[1], to |-> r[2]] : r \in runs},
        LAMBDA r, s : r.from < s.from)

AllRuns(hits) == FoldLeft(LAMBDA all, d : all \o Runs(hits, d), << >>, Documents(hits))

\* The first chunk, and of each further one what is behind the overlap.
Merged(size, overlap, n, run) ==
  FoldLeft(LAMBDA body, i :
             LET chunk == Body(size, overlap, n, i)
             IN  body \o SubSeq(chunk, (IF overlap < Len(chunk) THEN overlap ELSE Len(chunk)) + 1, Len(chunk)),
           Body(size, overlap, n, run.from),
           [k \in 1..(run.to - run.from) |-> run.from + k])

EstimateTokens(chars) == (chars + 3) \div 4

\* A block that does not fit is left out; a later, smaller one may still fit.
AddBlock(block, header, maxTokens, context) ==
  LET chars == context.chars + header + Len(block.body) + 2
  IN  IF EstimateTokens(chars) > maxTokens THEN [context EXCEPT !.truncated = TRUE]
      ELSE [context EXCEPT !.chars = chars, !.blocks = Append(@, block)]

AssembleContext(size, overlap, text, header, maxTokens, hits) ==
  FoldLeft(LAMBDA context, run :
             AddBlock([run |-> run, body |-> Merged(size, overlap, text[run.doc], run)],
                      header, maxTokens, context),
           [chars |-> 0, blocks |-> << >>, truncated |-> FALSE],
           AllRuns(hits))
==============================================================================
