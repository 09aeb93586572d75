------------------------------ MODULE IngestStream ------------------------------
(****************************************************************************)
(* One IngestScheduler.ingestDocs over an engine that others use as well:   *)
(* the batches come from the prefetch buffer (Prefetch), every document is  *)
(* looked up and, if its text is new, replaced through the broker           *)
(* (WorkerBroker).                                                          *)
(****************************************************************************)
EXTENDS WorkerBroker, Prefetch

CONSTANT MaxOther   \* bound: calls of others

VARIABLES
  docCall,   \* the call that replaceDocument awaits, 0 if none
  handled,   \* documents replaced or skipped
  other,     \* calls of others
  result     \* "running", "returned" or "failed"

ingest == <<docCall, handled, other, result>>
streamVars == <<broker, buffer, ingest>>

StreamInit ==
  /\ BrokerInit /\ PrefetchInit
  /\ docCall = 0 /\ handled = << >> /\ other = 0 /\ result = "running"

Handle == handled' = Append(handled, Head(batch)) /\ batch' = Tail(batch) /\ docCall' = 0

\* MemoryEngine.replaceDocument begins with a read of the document's hash.
LookUp ==
  /\ docCall = 0 /\ consumer = "yielded" /\ batch # << >>
  /\ Read /\ docCall' = Len(call')
  /\ UNCHANGED <<buffer, handled, other, result>>

Answered(op) == docCall # 0 /\ call[docCall].op = op /\ call[docCall].status = "ok"

Replace ==
  /\ Answered("read") /\ Write /\ docCall' = Len(call')
  /\ UNCHANGED <<buffer, handled, other, result>>

\* The hash is the same, or the writer has replaced the document.
Handled ==
  /\ Answered("read") \/ Answered("write")
  /\ Handle
  /\ UNCHANGED <<broker, pulled, queue, producer, consumer, other, result>>

\* A call is rejected, at once if the broker is closed: the for-await loop is left.
Fail ==
  /\ \/ docCall # 0 /\ call[docCall].status = "failed"
     \/ closed /\ consumer = "yielded" /\ docCall = 0 /\ batch # << >>
     \/ closed /\ Answered("read")
  /\ Leave
  /\ result' = "failed" /\ docCall' = 0
  /\ UNCHANGED <<broker, handled, other>>

Return ==
  /\ result = "running" /\ consumer \in {"done", "threw"}
  /\ result' = IF consumer = "done" THEN "returned" ELSE "failed"
  /\ UNCHANGED <<broker, buffer, docCall, handled, other>>

\* Searches and edits of others.
Others ==
  /\ other < MaxOther /\ other' = other + 1
  /\ Read \/ Write
  /\ UNCHANGED <<buffer, docCall, handled, result>>

\* The source yields or ends, and the loop over the batches goes on.
Stream ==
  \/ opening = "open" /\ ~down /\ PrefetchSteps /\ UNCHANGED <<broker, ingest>>
  \/ ~down /\ (LookUp \/ Replace \/ Handled \/ Fail \/ Return)

StreamNext ==
  \/ Steps /\ UNCHANGED <<buffer, ingest>>
  \/ Close /\ UNCHANGED <<buffer, ingest>>
  \/ Stream
  \/ ~down /\ Others

StreamSpec == StreamInit /\ [][StreamNext]_streamVars

Fairness == BrokerFairness /\ WF_streamVars(Stream)

FairSpec == StreamSpec /\ Fairness

--------------------------------------------------------------------------------
(* Documents are handled in the order of the source, and none is left out   *)
(* when the ingest returns; an error of the source comes after all that was *)
(* pulled before it (scheduler.ts:117-127, :224-234).                       *)
StreamIsWhole ==
  /\ handled = [i \in 1..Len(handled) |-> i]
  /\ result = "returned" \/ consumer = "threw" => Len(handled) = pulled

(* An ingest ends: no wake-up is lost between the two sides of the buffer,  *)
(* and no document waits for a call for ever (scheduler.ts:67-128, :224).   *)
(* Unless the engine is closed or one of its threads has died: a later call *)
(* may then never be answered.                                              *)
IngestEnds ==
  <>(result # "running" \/ closed \/ down \/ opening = "failed" \/ Deaths > 0)
================================================================================
