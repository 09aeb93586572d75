-------------------------------- MODULE Prefetch --------------------------------
(****************************************************************************)
(* buffered() of federation/scheduler.ts: a producer pulls batches of       *)
(* documents ahead of the consumer until enough are buffered; each side     *)
(* sleeps on a one-shot latch that the other one fires.                     *)
(*                                                                          *)
(* Documents are numbered as the source yields them.  pendingDocs is the    *)
(* number of documents in the queue, at every step where it is read.        *)
(****************************************************************************)
EXTENDS Integers, Sequences, FiniteSets, SequencesExt

CONSTANTS
  HighWaterMark,
  MaxBatch,       \* bound: documents of a batch
  MaxDocs         \* bound: documents of the source

ASSUME PrefetchAssumption == {HighWaterMark, MaxBatch, MaxDocs} \subseteq Nat \ {0}

VARIABLES
  pulled,     \* documents the source has yielded
  queue,      \* batches
  producer,   \* "check", "asleep", "pulling", "done" or, after an error, "threw"
  consumer,   \* "check", "asleep", "yielded"; "done", "threw"; "left" by its caller
  batch       \* what the caller has not handled of the batch it was given

buffer == <<pulled, queue, producer, consumer, batch>>

PrefetchInit ==
  pulled = 0 /\ queue = << >> /\ producer = "check" /\ consumer = "check" /\ batch = << >>

PendingDocs == Len(FlattenSeq(queue))
Done == producer \in {"done", "threw"}

\* Signal.fire: whoever waits runs on; if nobody does, nothing is remembered.
Fire(side) == IF side = "asleep" THEN "check" ELSE side

Full == PendingDocs >= HighWaterMark

ProducerCheck ==
  /\ producer = "check"
  /\ producer' = IF Full THEN "asleep" ELSE "pulling"
  /\ UNCHANGED <<pulled, queue, consumer, batch>>

PullBatch ==
  /\ producer = "pulling"
  /\ \E n \in 1..MaxBatch :
       /\ pulled + n <= MaxDocs /\ pulled' = pulled + n
       /\ queue' = Append(queue, [i \in 1..n |-> pulled + i])
  /\ producer' = "check" /\ consumer' = Fire(consumer)
  /\ UNCHANGED batch

\* A variant whose producer ends in silence: IngestEnds rules it out.
EndsSilently == consumer' = consumer

EndsAloud == consumer' = Fire(consumer)

\* The source is exhausted, or throws.
PullEnds ==
  /\ producer = "pulling"
  /\ producer' \in {"done", "threw"}
  /\ EndsAloud
  /\ UNCHANGED <<pulled, queue, batch>>

\* A variant that drops what is buffered at the end: StreamIsWhole rules it out.
DoneFirst == Done

Drained == queue = << >> /\ Done

ConsumerCheck ==
  /\ consumer = "check"
  /\ IF Drained
       THEN consumer' = producer /\ UNCHANGED <<queue, producer, batch>>
       ELSE IF queue = << >>
       THEN consumer' = "asleep" /\ UNCHANGED <<queue, producer, batch>>
       ELSE /\ consumer' = "yielded" /\ batch' = Head(queue) /\ queue' = Tail(queue)
            /\ producer' = Fire(producer)
  /\ UNCHANGED pulled

\* The caller's next() resumes the generator, or its error leaves it: the
\* producer is not told.
Resume == consumer = "yielded" /\ batch = << >> /\ consumer' = "check" /\ UNCHANGED <<pulled, queue, producer, batch>>
Leave == consumer = "yielded" /\ consumer' = "left" /\ UNCHANGED <<pulled, queue, producer, batch>>

PrefetchSteps == ProducerCheck \/ PullBatch \/ PullEnds \/ ConsumerCheck \/ Resume

================================================================================
