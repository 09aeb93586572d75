------------------------------ MODULE WorkerBroker ------------------------------
(****************************************************************************)
(* The broker between the main thread and the threads that hold the         *)
(* database (workers/broker.ts, workers/worker-main.ts): one writer, and    *)
(* readers that are added while calls queue up.  Calls go out and replies   *)
(* come back as messages; a thread may fail to start, or die at any time.   *)
(*                                                                          *)
(* An operation is a read or a write; the database is behind the threads,   *)
(* of an answer there is whether it is a result or an error.                *)
(****************************************************************************)
EXTENDS Integers, Sequences, FiniteSets, Functions

CONSTANTS
  MinReaders, MaxReaders, ScaleThreshold,   \* BrokerOptions
  MaxDeaths,                                \* bound: threads that fail to start or die
  MaxSettling                               \* bound: calls that CallsSettle looks at

ASSUME BrokerAssumption ==
  /\ MinReaders \in Nat \ {0} /\ MaxReaders \in Nat /\ MinReaders <= MaxReaders
  /\ ScaleThreshold \in Nat \ {0} /\ MaxDeaths \in Nat /\ MaxSettling \in Nat

VARIABLES
  opening,    \* how far WorkerBroker.open is: "writer", "readers", "open" or "failed"
  readers,    \* readers spawned, 1..readers
  ready,      \* workers whose ready promise is resolved
  scaling, closed,
  down,       \* the process has ended: nobody handles a rejection of r.ready.finally()
  thread,     \* worker |-> how its thread stands
  inbox,      \* worker |-> ids of the calls posted to it
  outbox,     \* worker |-> what it has posted, and its 'error' event
  pending,    \* worker |-> the ids of its pending map
  call        \* id |-> its operation, and how it stands

broker == <<opening, readers, ready, scaling, closed, down, thread, inbox, outbox, pending, call>>

Writer == 0
Worker == 0..MaxReaders

BrokerInit ==
  /\ opening = "writer" /\ readers = 0 /\ ready = {} /\ scaling = FALSE
  /\ closed = FALSE /\ down = FALSE /\ call = << >>
  /\ thread = [w \in Worker |-> IF w = Writer THEN "booting" ELSE "none"]
  /\ inbox = [w \in Worker |-> << >>] /\ outbox = [w \in Worker |-> << >>]
  /\ pending = [w \in Worker |-> {}]

--------------------------------------------------------------------------------
(* The threads.                                                              *)

Post(w, msg) == outbox' = [outbox EXCEPT ![w] = Append(@, msg)]
Deaths == Cardinality({w \in Worker : thread[w] = "gone"})

\* The connection is open, the writer's schema is there.
Boot(w) ==
  /\ ~down /\ thread[w] = "booting"
  /\ thread' = [thread EXCEPT ![w] = "serving"]
  /\ Post(w, [kind |-> "ready"])
  /\ UNCHANGED <<opening, readers, ready, scaling, closed, down, inbox, pending, call>>

\* The thread throws while it starts, or runs out of memory.
Die(w) ==
  /\ ~down /\ thread[w] \in {"booting", "serving"} /\ Deaths < MaxDeaths
  /\ thread' = [thread EXCEPT ![w] = "gone"]
  /\ inbox' = [inbox EXCEPT ![w] = << >>]
  /\ Post(w, [kind |-> "error"])
  /\ UNCHANGED <<opening, readers, ready, scaling, closed, down, pending, call>>

\* A variant whose operations throw without an answer: CallsSettle rules it out.
SilentReply(w, id, ok) == IF ok THEN Post(w, [kind |-> "reply", id |-> id, ok |-> TRUE]) ELSE UNCHANGED outbox

Reply(w, id, ok) == Post(w, [kind |-> "reply", id |-> id, ok |-> ok])

\* One message at a time; an operation that throws is answered too, its
\* transaction rolled back.
Serve(w) ==
  /\ ~down /\ thread[w] = "serving" /\ inbox[w] # << >>
  /\ \E ok \in BOOLEAN : Reply(w, Head(inbox[w]), ok)
  /\ inbox' = [inbox EXCEPT ![w] = Tail(@)]
  /\ UNCHANGED <<opening, readers, ready, scaling, closed, down, thread, pending, call>>

\* terminate(): no 'error' event, only an exit.
Exit(w) ==
  /\ ~down /\ closed /\ thread[w] \in {"booting", "serving"}
  /\ thread' = [thread EXCEPT ![w] = "gone"]
  /\ inbox' = [inbox EXCEPT ![w] = << >>]
  /\ UNCHANGED <<opening, readers, ready, scaling, closed, down, outbox, pending, call>>

--------------------------------------------------------------------------------
(* The main thread's handlers.                                               *)

Received(w, kind) ==
  /\ ~down /\ outbox[w] # << >> /\ Head(outbox[w]).kind = kind
  /\ outbox' = [outbox EXCEPT ![w] = Tail(@)]

Boots(first, last) == [w \in Worker |-> IF w \in first..last THEN "booting" ELSE thread[w]]

\* The readers open a file the writer has made, so the writer is first.
OnReady(w) ==
  /\ Received(w, "ready")
  /\ ready' = ready \union {w}
  /\ scaling' = IF w > MinReaders THEN FALSE ELSE scaling
  /\ IF opening = "writer"
       THEN opening' = "readers" /\ readers' = MinReaders /\ thread' = Boots(1, MinReaders)
       ELSE /\ opening' = IF opening = "readers" /\ 1..MinReaders \subseteq ready' THEN "open" ELSE opening
            /\ UNCHANGED <<readers, thread>>
  /\ UNCHANGED <<closed, down, inbox, pending, call>>

Settle(ids, status) ==
  call' = [id \in DOMAIN call |-> IF id \in ids THEN [call[id] EXCEPT !.status = status] ELSE call[id]]

\* A reply nobody waits for is dropped.
OnReply(w) ==
  /\ Received(w, "reply")
  /\ LET msg == Head(outbox[w])
         ids == {msg.id} \intersect pending[w]
     IN  /\ Settle(ids, IF msg.ok THEN "ok" ELSE "failed")
         /\ pending' = [pending EXCEPT ![w] = @ \ ids]
  /\ UNCHANGED <<opening, readers, ready, scaling, closed, down, thread, inbox>>

\* Every pending call is rejected; the worker stays where it is.  A worker that
\* was not ready yet fails open() or, started by maybeScaleUp, ends the process.
OnError(w) ==
  /\ Received(w, "error")
  /\ Settle(pending[w], "failed")
  /\ pending' = [pending EXCEPT ![w] = {}]
  /\ opening' = IF opening \in {"writer", "readers"} /\ w \notin ready THEN "failed" ELSE opening
  /\ down' = (w \notin ready /\ w > MinReaders)
  /\ UNCHANGED <<readers, ready, scaling, closed, thread, inbox>>

--------------------------------------------------------------------------------
(* Calls of the engine.                                                      *)

Inflight(w) == Cardinality(pending[w])
InflightOf(n) == Cardinality(UNION {pending[w] : w \in 1..n})

Exec(w, op) ==
  LET id == Len(call) + 1 IN
  /\ call' = Append(call, [op |-> op, status |-> "waiting"])
  /\ pending' = [pending EXCEPT ![w] = @ \union {id}]
  /\ inbox' = IF thread[w] = "gone" THEN inbox ELSE [inbox EXCEPT ![w] = Append(@, id)]

Write ==
  /\ ~down /\ opening = "open" /\ ~closed
  /\ Exec(Writer, "write")
  /\ UNCHANGED <<opening, readers, ready, scaling, closed, down, thread, outbox>>

NoScaleUp == scaling \/ readers >= MaxReaders \/ InflightOf(readers) < ScaleThreshold * readers

\* The readers take turns, unless one has fewer calls than the one whose turn it is.
LeastBusy(n) ==
  LET turn == 1 + (Cardinality({id \in DOMAIN call : call[id].op = "read"}) % n)
      least == {r \in 1..n : \A s \in 1..n : Inflight(r) <= Inflight(s)}
  IN  IF turn \in least THEN turn ELSE CHOOSE r \in least : \A s \in least : r <= s

Read ==
  /\ ~down /\ opening = "open" /\ ~closed
  /\ IF NoScaleUp
       THEN UNCHANGED <<readers, scaling, thread>>
       ELSE readers' = readers + 1 /\ scaling' = TRUE /\ thread' = Boots(readers + 1, readers + 1)
  /\ Exec(LeastBusy(readers'), "read")
  /\ UNCHANGED <<opening, ready, closed, down, outbox>>

Close ==
  /\ ~down /\ opening = "open" /\ ~closed
  /\ closed' = TRUE
  /\ UNCHANGED <<opening, readers, ready, scaling, down, thread, inbox, outbox, pending, call>>

Steps == \E w \in Worker : Boot(w) \/ Die(w) \/ Serve(w) \/ Exit(w) \/ OnReady(w) \/ OnReply(w) \/ OnError(w)

\* Some thread that can go on does, and the event loop turns.
BrokerFairness ==
  /\ WF_broker(\E w \in Worker : Boot(w) \/ Serve(w) \/ Exit(w))
  /\ WF_broker(\E w \in Worker : OnReady(w) \/ OnReply(w) \/ OnError(w))

--------------------------------------------------------------------------------
(* A call in hand is with one worker, and once: posted to it and not taken  *)
(* up, or answered and not handled; a worker takes its calls up and answers *)
(* them in the order they were made ("all mutations serialize through the   *)
(* singleton writer", broker.ts:122).  Of the calls of a thread that is     *)
(* gone there are the answers it gave.                                      *)
ReplyAt(w, i) == i \in DOMAIN outbox[w] /\ outbox[w][i].kind = "reply"

InHand(w) == Range(inbox[w]) \union {outbox[w][i].id : i \in {j \in DOMAIN outbox[w] : ReplyAt(w, j)}}

InOrderOfCalls(w) ==
  /\ \A i, j \in DOMAIN inbox[w] : i < j => inbox[w][i] < inbox[w][j]
  /\ \A i, j \in DOMAIN outbox[w] : ReplyAt(w, i) /\ ReplyAt(w, j) /\ i < j => outbox[w][i].id < outbox[w][j].id
  /\ \A i \in DOMAIN outbox[w], j \in DOMAIN inbox[w] : ReplyAt(w, i) => outbox[w][i].id < inbox[w][j]

CallsInLine ==
  /\ \A w \in Worker :
       /\ InOrderOfCalls(w)
       /\ InHand(w) \subseteq pending[w]
       /\ thread[w] # "gone" => InHand(w) = pending[w]
  /\ \A id \in DOMAIN call :
       call[id].status = "waiting" <=> \E w \in Worker : id \in pending[w]
  /\ \A v, w \in Worker : v # w => pending[v] \intersect pending[w] = {}

\* The worker has gone and the main thread knows.
KnownGone(w) == thread[w] = "gone" /\ \A i \in DOMAIN outbox[w] : outbox[w][i].kind # "error"

(* A call settles, whatever its operation throws and if its worker dies     *)
(* with it (broker.ts:41-56).  Not so a call sent to a worker that is known *)
(* to have died, nor one that close() overtakes.                            *)
CallsSettle ==
  \A id \in 1..MaxSettling :
    (\E w \in Worker : id \in pending[w] /\ ~KnownGone(w))
      ~> (closed \/ down \/ \A w \in Worker : id \notin pending[w])
================================================================================
