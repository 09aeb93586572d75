----------------------------- MODULE MCContext -----------------------------
(****************************************************************************)
(* What a context must be, over all texts of up to MaxText characters, cut  *)
(* in all ways into windows of up to MaxSize, and all lists of up to        *)
(* MaxHits hits in two of them.                                             *)
(****************************************************************************)
EXTENDS Context

MaxText == 6
MaxSize == 3
MaxHits == 3
Header == 2
Doc == {1, 2}

Windows == {w \in (1..MaxSize) \X (0..MaxSize) : w[2] < w[1]}

ChunksOf(w, n) == {i \in 0..MaxText : IsChunk(w[1], w[2], n, i)}

\* The chunks of a text are verbatim pieces that leave nothing out, and the
\* last one is longer than the overlap (chunkText).
ASSUME ChunksCoverText ==
  \A w \in Windows, n \in 0..MaxText :
    /\ UNION {Range(Body(w[1], w[2], n, i)) : i \in ChunksOf(w, n)} = 0..(n - 1)
    /\ \A i \in ChunksOf(w, n) \ {0} : Len(Body(w[1], w[2], n, i)) > w[2]

\* A block is a verbatim piece of its document without a character twice
\* ("merge adjacent chunks of one document, overlap-aware"), the blocks keep to
\* the budget, and unless one did not fit every hit is in exactly one of them
\* (assembleContext).
ASSUME ContextIsVerbatim ==
  \A w \in Windows, text \in [Doc -> {0, 3, MaxText}], maxTokens \in {2, 4, 100} :
    \A hits \in SeqOf({h \in [doc : Doc, index : 0..MaxText] :
                         IsChunk(w[1], w[2], text[h.doc], h.index)}, MaxHits) :
      LET context == AssembleContext(w[1], w[2], text, Header, maxTokens, hits)
          blocks  == Range(context.blocks)
      IN  /\ \A b \in blocks :
               b.body = Positions(Start(w[1], w[2], b.run.from),
                                  End(w[1], w[2], text[b.run.doc], b.run.to))
          /\ EstimateTokens(context.chars) <= maxTokens
          /\ \A h \in Range(hits) :
               LET holding == {k \in DOMAIN context.blocks :
                                 LET run == context.blocks[k].run
                                 IN  run.doc = h.doc /\ h.index \in run.from..run.to}
               IN  Cardinality(holding) = 1 \/ (holding = {} /\ context.truncated)
==============================================================================
