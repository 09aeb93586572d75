------------------------------- MODULE ShardPool -------------------------------
(****************************************************************************)
(* The pool of open shard engines (federation/pool.ts) and the pins that a  *)
(* federated engine keeps on some of them (federated-engine.ts).  Opening   *)
(* and closing an engine take time; what a call does between two awaits is  *)
(* one step.                                                                *)
(*                                                                          *)
(* The lastUsed clock only orders the entries: lru is that order.           *)
(****************************************************************************)
EXTENDS Integers, Sequences, FiniteSets

CONSTANTS
  Shard,        \* shard keys the catalog knows
  Caller,       \* calls of withShard and engine() at a time
  MaxOpen,      \* maxOpenShards
  MaxEngines,   \* bound: engines ever opened
  MaxRefs       \* bound: references to one entry

ASSUME PoolAssumption ==
  /\ MaxOpen \in Nat \ {0}
  /\ MaxEngines \in Nat
  /\ MaxRefs \in Nat
  /\ IsFiniteSet(Caller)

VARIABLES
  entries,      \* ShardPool.entries: shard |-> its engine and its references
  lru,          \* the shards of the entries, least recently used first
  opening,      \* ShardPool.opening: shard |-> how far, and the engine it waits for
  engines,      \* every MemoryEngine so far
  calls,        \* calls under way
  pinned,       \* FederatedEngine.pinned: shard |-> engine
  closed        \* ShardPool.closed

vars == <<entries, lru, opening, engines, calls, pinned, closed>>

Unknown == 0

Engine == 1..MaxEngines

EngineRow == [shard : Shard, state : {"opening", "open", "closing", "closed"}]

\* What names an engine names one that was opened (lru only orders the choice of
\* a victim).
TypeOK ==
  /\ engines \in Seq(EngineRow)
  /\ DOMAIN entries \subseteq Shard
  /\ entries \in [DOMAIN entries -> [engine : DOMAIN engines, refs : Nat]]
  /\ DOMAIN opening \subseteq Shard
  /\ opening \in [DOMAIN opening -> [step : {"evicts", "opens"}, engine : DOMAIN engines]]
  /\ DOMAIN calls \subseteq Caller
  /\ calls \in [DOMAIN calls -> [shard : Shard, kind : {"call", "pin"},
                                 step : {"waits", "holds"}, engine : {Unknown} \cup DOMAIN engines]]
  /\ DOMAIN pinned \subseteq Shard
  /\ pinned \in [DOMAIN pinned -> {Unknown} \cup DOMAIN engines]
  /\ closed \in BOOLEAN

Init ==
  /\ entries = [s \in {} |-> s]
  /\ lru = << >>
  /\ opening = [s \in {} |-> s]
  /\ engines = << >>
  /\ calls = [c \in {} |-> c]
  /\ pinned = [s \in {} |-> s]
  /\ closed = FALSE

Without(f, gone) == [x \in DOMAIN f \ gone |-> f[x]]
With(f, x, v)    == [y \in DOMAIN f \cup {x} |-> IF y = x THEN v ELSE f[y]]

-----------------------------------------------------------------------------
(* Eviction *)

\* A variant of the choice that overlooks the references: InUseIsOpen rules it
\* out.
IdleOrNot == DOMAIN entries

Idle == {s \in DOMAIN entries : entries[s].refs = 0}

Dropped(s) == SelectSeq(lru, LAMBDA t : t # s)

Touched(s) == Append(Dropped(s), s)

IsVictim(s) ==
  /\ s \in Idle
  /\ \E i \in DOMAIN lru : lru[i] = s /\ \A j \in 1..(i - 1) : lru[j] \notin Idle

Full == Cardinality(DOMAIN entries) >= MaxOpen

\* A variant that forgets to close what it evicts: EnginesTracked rules it out.
\* now: the engines at this point of the step.
EvictUnclosed(s, now) ==
  \E v \in Shard :
    /\ Full /\ IsVictim(v)
    /\ entries' = Without(entries, {v})
    /\ lru' = Dropped(v)
    /\ engines' = now
    /\ opening' = With(opening, s, [step |-> "evicts", engine |-> entries[v].engine])

Evict(s, now) ==
  \E v \in Shard :
    /\ Full /\ IsVictim(v)
    /\ entries' = Without(entries, {v})
    /\ lru' = Dropped(v)
    /\ engines' = [now EXCEPT ![entries[v].engine].state = "closing"]
    /\ opening' = With(opening, s, [step |-> "evicts", engine |-> entries[v].engine])

\* A variant that never exceeds the ceiling: AcquireReturns rules it out.
OpenWithRoom(s, now) ==
  /\ ~Full
  /\ engines' = Append(now, [shard |-> s, state |-> "opening"])
  /\ opening' = With(opening, s, [step |-> "opens", engine |-> Len(now) + 1])
  /\ UNCHANGED <<entries, lru>>

\* MemoryEngine.open, also above the ceiling when everything is in use.
Open(s, now) ==
  /\ ~Full \/ Idle = {}
  /\ engines' = Append(now, [shard |-> s, state |-> "opening"])
  /\ opening' = With(opening, s, [step |-> "opens", engine |-> Len(now) + 1])
  /\ UNCHANGED <<entries, lru>>

EvictOrOpen(s, now) == Evict(s, now) \/ Open(s, now)

-----------------------------------------------------------------------------
(* acquire *)

NewCall(c, s, kind, step, e) ==
  calls' = With(calls, c, [shard |-> s, kind |-> kind, step |-> step, engine |-> e])

\* The bound on engines counts those that are still to be opened.
Budget == Len(engines) + Cardinality({s \in DOMAIN opening : opening[s].step = "evicts"}) < MaxEngines

Retain(c, s, kind) ==
  /\ s \in DOMAIN entries /\ entries[s].refs < MaxRefs
  /\ entries' = [entries EXCEPT ![s].refs = @ + 1]
  /\ lru' = Touched(s)
  /\ NewCall(c, s, kind, "holds", entries[s].engine)
  /\ UNCHANGED <<opening, engines>>

\* A variant without the single flight: OneLiveEngine rules it out.
AwaitOwn(c, s, kind) ==
  /\ s \notin DOMAIN entries
  /\ NewCall(c, s, kind, "waits", Unknown)
  /\ Budget /\ EvictOrOpen(s, engines)

\* One opening per shard, whoever waits for it.
Await(c, s, kind) ==
  /\ s \notin DOMAIN entries
  /\ NewCall(c, s, kind, "waits", Unknown)
  /\ IF s \in DOMAIN opening
     THEN UNCHANGED <<entries, lru, opening, engines>>
     ELSE Budget /\ EvictOrOpen(s, engines)

Acquire(c, s, kind) ==
  /\ c \notin DOMAIN calls /\ ~closed
  /\ Retain(c, s, kind) \/ Await(c, s, kind)
  /\ UNCHANGED <<pinned, closed>>

WithShard(c, s) == Acquire(c, s, "call")
PinEngine(c, s) == s \notin DOMAIN pinned /\ Acquire(c, s, "pin")

\* The victim has closed; the loop goes on.
VictimClosed(s) ==
  /\ s \in DOMAIN opening /\ opening[s].step = "evicts"
  /\ EvictOrOpen(s, [engines EXCEPT ![opening[s].engine].state = "closed"])
  /\ UNCHANGED <<calls, pinned, closed>>

Waiting(s) == {c \in DOMAIN calls : calls[c].shard = s /\ calls[c].step = "waits"}

\* All who wait are woken in one go: each takes a reference.
OpenSettles(s) ==
  /\ s \in DOMAIN opening /\ opening[s].step = "opens"
  /\ LET e    == opening[s].engine
         held == IF s \in DOMAIN entries THEN entries[s] ELSE [engine |-> e, refs |-> 0]
     IN
     /\ engines' = [engines EXCEPT ![e].state = "open"]
     /\ entries' = With(entries, s, [held EXCEPT !.refs = @ + Cardinality(Waiting(s))])
     /\ calls' = [c \in DOMAIN calls |->
          IF c \in Waiting(s) THEN [calls[c] EXCEPT !.step = "holds", !.engine = e] ELSE calls[c]]
  /\ lru' = Touched(s)
  /\ opening' = Without(opening, {s})
  /\ UNCHANGED <<pinned, closed>>

OpenFails(s) ==
  /\ s \in DOMAIN opening /\ opening[s].step = "opens"
  /\ engines' = [engines EXCEPT ![opening[s].engine].state = "closed"]
  /\ calls' = Without(calls, Waiting(s))
  /\ opening' = Without(opening, {s})
  /\ UNCHANGED <<entries, lru, pinned, closed>>

-----------------------------------------------------------------------------
(* release and close *)

Release(s) ==
  entries' = IF s \in DOMAIN entries
             THEN [entries EXCEPT ![s].refs = IF @ > 0 THEN @ - 1 ELSE 0]
             ELSE entries

Holds(c, kind) == c \in DOMAIN calls /\ calls[c].step = "holds" /\ calls[c].kind = kind

\* The end of withShard.
Finish(c) ==
  /\ Holds(c, "call")
  /\ Release(calls[c].shard)
  /\ calls' = Without(calls, {c})
  /\ UNCHANGED <<lru, opening, engines, pinned, closed>>

\* The end of engine(), after its await.
KeepPin(c) ==
  /\ Holds(c, "pin")
  /\ pinned' = With(pinned, calls[c].shard, calls[c].engine)
  /\ calls' = Without(calls, {c})
  /\ UNCHANGED <<entries, lru, opening, engines, closed>>

ReleaseEngine(s) ==
  /\ s \in DOMAIN pinned
  /\ pinned' = Without(pinned, {s})
  /\ Release(s)
  /\ UNCHANGED <<lru, opening, engines, calls, closed>>

\* FederatedEngine.close and ShardPool.close, up to the await.
Close ==
  /\ ~closed
  /\ closed' = TRUE
  /\ pinned' = Without(pinned, DOMAIN pinned)
  /\ entries' = Without(entries, DOMAIN entries)
  /\ lru' = << >>
  /\ engines' = [e \in DOMAIN engines |->
       IF \E s \in DOMAIN entries : entries[s].engine = e
       THEN [engines[e] EXCEPT !.state = "closing"] ELSE engines[e]]
  /\ UNCHANGED <<opening, calls>>

\* An engine that close() closes is closed.
Terminated(e) ==
  /\ e \in DOMAIN engines /\ engines[e].state = "closing"
  /\ \A s \in DOMAIN opening : opening[s].engine # e
  /\ engines' = [engines EXCEPT ![e].state = "closed"]
  /\ UNCHANGED <<entries, lru, opening, calls, pinned, closed>>

-----------------------------------------------------------------------------
(* The pool *)

OpenStep(s) == VictimClosed(s) \/ OpenSettles(s) \/ OpenFails(s)

Next ==
  \/ \E c \in Caller, s \in Shard : WithShard(c, s) \/ PinEngine(c, s)
  \/ \E c \in Caller : Finish(c) \/ KeepPin(c)
  \/ \E s \in Shard : OpenStep(s) \/ ReleaseEngine(s)
  \/ Close
  \/ \E e \in Engine : Terminated(e)

\* Engines open, fail to, or close: none hangs.
Fairness == \A s \in Shard : WF_vars(OpenStep(s))

Spec == Init /\ [][Next]_vars
FairSpec == Spec /\ Fairness

-----------------------------------------------------------------------------
(* Properties *)

IsOpen(s, e) == s \in DOMAIN entries /\ entries[s].engine = e /\ engines[e].state = "open"

\* "Engines that are mid-call are pinned (refcounted) and never evicted"
\* (pool.ts), "Pinned engines never evict until releaseEngine()/close()"
\* (federated-engine.ts): whoever holds an engine holds the one in the pool,
\* and it is open.
InUseIsOpen ==
  ~closed =>
    /\ \A c \in DOMAIN calls : calls[c].step = "holds" => IsOpen(calls[c].shard, calls[c].engine)
    /\ \A s \in DOMAIN pinned : IsOpen(s, pinned[s])

\* Calls of one shard share one engine, however they race: two engines of a
\* shard are never open or opening at once.
OneLiveEngine ==
  \A e, f \in DOMAIN engines :
    /\ {engines[e].state, engines[f].state} \subseteq {"opening", "open"}
    /\ engines[e].shard = engines[f].shard
    => e = f

\* No worker pool is left running outside the books: what is open is an entry,
\* and what an entry names is open.
EnginesTracked ==
  \A e \in DOMAIN engines :
    engines[e].state = "open" <=> \E s \in DOMAIN entries : entries[s].engine = e

\* acquire comes to an end, also when every engine is in use and the pool full.
Waits(c) == c \in DOMAIN calls /\ calls[c].step = "waits"
AcquireReturns == \A c \in Caller : Waits(c) ~> ~Waits(c)
=============================================================================
