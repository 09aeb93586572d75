------------------------------- MODULE SearchWave -------------------------------
(****************************************************************************)
(* One federated search (federation/search.ts, federation/router.ts): the   *)
(* router lists candidate shards, which are probed wave by wave, a few at a *)
(* time.  A wave is left when all have answered or, past its deadline, a    *)
(* quorum has; the probes it leaves behind run on and still deliver.        *)
(*                                                                          *)
(* A shard is its place in the order of recency, 1 the latest.  What a term *)
(* finds in which order is data: any lists the constant Nominations has.    *)
(****************************************************************************)
EXTENDS Integers, Sequences, FiniteSets, Functions

CONSTANTS
  MaxShard,     \* shards of the catalog
  Nominations,  \* the ranked lists that scoreCandidates may return for a term
  MaxTerms,     \* bound: terms of a query
  MaxShards,    \* maxShards
  ProbeWave,    \* probeWave
  Parallelism,  \* availableParallelism()
  MaxHung       \* bound: probes that never answer

ASSUME SearchAssumption ==
  /\ MaxShard \in Nat /\ MaxTerms \in Nat /\ MaxHung \in Nat
  /\ MaxShards \in Nat \ {0} /\ ProbeWave \in Nat \ {0} /\ Parallelism \in Nat \ {0}
  /\ << >> \in Nominations
  /\ \A list \in Nominations : list \in Seq(1..MaxShard) /\ IsInjective(list)

VARIABLES
  asked,        \* the call: strict or not, the hint, the lists for its terms and for all of it
  candidates,   \* RouteResult.shardKeys
  wave,         \* waves begun
  probe,        \* place in candidates |-> how its probe stands
  hung,         \* probes that never answer
  late,         \* waves whose timer has fired
  stragglers,   \* shards left behind
  fused,        \* fusedFrom, at the return
  phase

vars == <<asked, candidates, wave, probe, hung, late, stragglers, fused, phase>>

Shard == 1..MaxShard
Place == DOMAIN candidates
NoHint == 0

--------------------------------------------------------------------------------
(* ShardRouter.route.                                                        *)

AllShards == [s \in Shard |-> s]

\* Where a shard comes up: term and rank.
Mentions(lists, s) ==
  {q \in (DOMAIN lists) \X Shard : q[2] <= Len(lists[q[1]]) /\ lists[q[1]][q[2]] = s}

\* A variant that reads one list after the other: SubjectsProbed rules it out.
TurnsInSequence(lists, s) == {q[1] * MaxShard + q[2] : q \in Mentions(lists, s)}

\* The lists are read in turns, one rank after the other, each shard once.
Turns(lists, s) == {(q[2] - 1) * Len(lists) + q[1] : q \in Mentions(lists, s)}

First(ts) == CHOOSE t \in ts : \A u \in ts : t <= u

Named(lists) == {s \in Shard : Mentions(lists, s) # {}}
Earlier(lists, s) == {u \in Named(lists) : First(Turns(lists, u)) < First(Turns(lists, s))}

Interleaved(lists) ==
  [i \in 1..Cardinality(Named(lists)) |->
    CHOOSE s \in Named(lists) : Cardinality(Earlier(lists, s)) = i - 1]

FirstOf(list, n) == SubSeq(list, 1, IF Len(list) < n THEN Len(list) ELSE n)

Recent == FirstOf(AllShards, IF MaxShards < 4 THEN MaxShards ELSE 4)

\* A hint that names a shard pins it.  Several terms are scored one by one; if
\* none finds anything, and with one term only, the query is scored as a whole;
\* if that finds nothing either, the latest four are asked.
Route(call) ==
  IF call.hint # NoHint THEN <<call.hint>>
  ELSE IF Interleaved(call.lists) # << >> THEN FirstOf(Interleaved(call.lists), MaxShards)
  ELSE IF call.whole # << >> THEN FirstOf(call.whole, MaxShards)
  ELSE Recent

--------------------------------------------------------------------------------
(* Waves.                                                                    *)

Waves == {w \in 1..MaxShard : (w - 1) * ProbeWave < Len(candidates)}
InWave(w) == {i \in Place : (w - 1) * ProbeWave < i /\ i <= w * ProbeWave}

AtMost(a, b) == IF a < b THEN a ELSE b
Concurrency(n) == AtMost(n, IF Parallelism < 2 THEN 2 ELSE Parallelism)
\* Math.ceil(0.8 * n)
Quorum(n) == IF asked.strict THEN n ELSE (4 * n + 4) \div 5

Answered == {i \in Place : probe[i] \in {"hits", "none", "failed"}}
Size(w) == Cardinality(InWave(w))
Completed(w) == Cardinality(InWave(w) \cap Answered)

Settled(w) == Completed(w) = Size(w) \/ (w \in late /\ Completed(w) >= Quorum(Size(w)))

\* A variant whose workers end after one probe: SearchReturns rules it out.
NoneTodo(w, k) == {}

\* The probes of a wave that are taken up when k workers are free.
FirstTodo(w, k) ==
  {i \in InWave(w) : /\ probe[i] = "todo"
                     /\ Cardinality({j \in InWave(w) : probe[j] = "todo" /\ j < i}) < k}

BeginWave(w, places, state) ==
  LET new == {i \in places : (w - 1) * ProbeWave < i /\ i <= w * ProbeWave}
      first == (w - 1) * ProbeWave + Concurrency(Cardinality(new))
  IN [i \in places |-> IF i \in new /\ i <= first THEN "probing" ELSE state[i]]

Init ==
  /\ asked \in [strict : BOOLEAN, hint : {NoHint} \cup Shard,
                lists : UNION {[1..n -> Nominations] : n \in {0} \cup 2..MaxTerms},
                whole : Nominations]
  /\ asked.hint # NoHint => asked.lists = << >>
  \* not looked at otherwise
  /\ asked.hint # NoHint \/ Interleaved(asked.lists) # << >> => asked.whole = << >>
  /\ candidates = << >> /\ probe = << >>
  /\ wave = 0
  /\ hung = {} /\ late = {} /\ stragglers = {} /\ fused = {}
  /\ phase = "called"

Begin ==
  /\ phase = "called"
  /\ candidates' = Route(asked)
  /\ IF candidates' = << >>
     THEN /\ phase' = "returned"
          /\ UNCHANGED <<wave, probe, hung>>
     ELSE /\ phase' = "probes"
          /\ wave' = 1
          /\ probe' = BeginWave(1, DOMAIN candidates', [i \in DOMAIN candidates' |-> "todo"])
          /\ \E h \in SUBSET DOMAIN candidates' : Cardinality(h) <= MaxHung /\ hung' = h
  /\ UNCHANGED <<asked, late, stragglers, fused>>

\* A probe answers or fails; its worker takes the next of its wave, whether or
\* not anybody still waits for that wave.
Answer(i) ==
  /\ phase # "called"
  /\ probe[i] = "probing" /\ i \notin hung
  /\ \E outcome \in {"hits", "none", "failed"}, w \in 1..wave :
       /\ i \in InWave(w)
       /\ probe' = [j \in Place |-> IF j = i THEN outcome
                                    ELSE IF j \in FirstTodo(w, 1) THEN "probing" ELSE probe[j]]
  /\ UNCHANGED <<asked, candidates, wave, hung, late, stragglers, fused, phase>>

Deadline ==
  /\ phase = "probes" /\ ~asked.strict
  /\ wave \notin late
  /\ late' = late \cup {wave}
  /\ UNCHANGED <<asked, candidates, wave, probe, hung, stragglers, fused, phase>>

\* A variant that forgets the stragglers of earlier waves: AllAccountedFor rules it out.
LeftNow == InWave(wave) \ Answered

Left == stragglers \cup (InWave(wave) \ Answered)

AnyHit == \E i \in Place : probe[i] = "hits"

\* A variant that stops at a hit in any case: StrictIsExact rules it out.
StopsAtHit == AnyHit

Stops == ~asked.strict /\ AnyHit

LeaveWave ==
  /\ phase = "probes" /\ Settled(wave)
  /\ stragglers' = Left
  /\ IF wave + 1 \in Waves /\ ~Stops
     THEN /\ wave' = wave + 1
          /\ probe' = BeginWave(wave + 1, Place, probe)
          /\ UNCHANGED <<fused, phase>>
     ELSE /\ fused' = {i \in Place : probe[i] \in {"hits", "none"}}
          /\ phase' = "returned"
          /\ UNCHANGED <<wave, probe>>
  /\ UNCHANGED <<asked, candidates, hung, late>>

Next == Begin \/ (\E i \in Place : Answer(i)) \/ Deadline \/ LeaveWave

\* Probes that do not hang answer, timers fire, and the search goes on.
Fairness ==
  /\ WF_vars(Begin) /\ WF_vars(Deadline) /\ WF_vars(LeaveWave)
  /\ WF_vars(\E i \in Place : Answer(i))

Spec == Init /\ [][Next]_vars
FairSpec == Spec /\ Fairness

--------------------------------------------------------------------------------
(* Properties.                                                               *)

Probed == UNION {InWave(w) : w \in 1..wave}

\* A search that has returned names each shard it probed as fused, failed or
\* straggler, although probes answer long after their wave was left.
AllAccountedFor ==
  phase = "returned" =>
    /\ fused \subseteq Probed
    /\ \A i \in Probed : i \in fused \/ i \in stragglers \/ probe[i] = "failed"

\* A strict search returns with every candidate answered and nobody left behind
\* (search.ts: "recall gates must measure retrieval, not the wave policy"), and
\* any search passes over candidates only where a hit was found.
StrictIsExact ==
  phase = "returned" =>
    /\ asked.strict => Answered = Place /\ stragglers = {}
    /\ Probed = Place \/ \E i \in fused : probe[i] = "hits"

\* The best shard of every term is among the first candidates, so that no
\* subject of a query is crowded out of the first waves (router.ts:110-115).
SubjectsProbed ==
  phase # "called" /\ asked.hint = NoHint =>
    \A t \in DOMAIN asked.lists :
      asked.lists[t] # << >> /\ Len(asked.lists) <= MaxShards =>
        \E i \in Place : i <= Len(asked.lists) /\ candidates[i] = asked.lists[t][1]

\* A search returns if each wave has a quorum that answers and a worker no hung
\* probe keeps for good: that one takes up whatever is left of the wave.
Quorate(w) == Cardinality(InWave(w) \ hung) >= Quorum(Size(w))
Spared == \A w \in Waves : Quorate(w) /\ Cardinality(InWave(w) \cap hung) < Concurrency(Size(w))
SearchReturns == (phase = "probes" /\ Spared) ~> (phase = "returned")

\* "The first quorum = ceil(0.8 * probed) shards within timeoutMs are fused
\* immediately; late results are logged, not awaited" (search.ts:8-9): a search
\* returns if each wave has a quorum that answers.
LateNotAwaited == (phase = "probes" /\ \A w \in Waves : Quorate(w)) ~> (phase = "returned")
================================================================================
