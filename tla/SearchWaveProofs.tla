--------------------------- MODULE SearchWaveProofs ---------------------------
(****************************************************************************)
(* Proofs about the waves of a federated search, whatever the catalog, the  *)
(* query, the limits and the probes that hang, and about the merging of the *)
(* chunks it finds, for every length of text, window and overlap.           *)
(****************************************************************************)
EXTENDS SearchWave, Context, FiniteSetTheorems, WellFoundedInduction, TLAPS

-----------------------------------------------------------------------------
(* The merging of adjacent chunks *)

\* The next window starts one step behind this one.
LEMMA NextStart ==
  ASSUME NEW size \in Nat, NEW overlap \in Nat, NEW i \in Nat
  PROVE  Start(size, overlap, i + 1) = Start(size, overlap, i) + (size - overlap)
<1>1. (i + 1) * (size - overlap) = i * (size - overlap) + (size - overlap)
  OBVIOUS
<1> QED
  BY <1>1 DEF Start

\* Two chunks with consecutive indexes share exactly the overlap, and the second
\* goes on behind it: cutting the overlap off its front, as assembleContext does,
\* leaves the next characters of the text, no less, no more and at least one.
THEOREM AdjacentChunksMeet ==
  ASSUME NEW size \in Nat, NEW overlap \in Nat, overlap < size, NEW n \in Nat, NEW i \in Nat,
         IsChunk(size, overlap, n, i + 1)
  PROVE  /\ Start(size, overlap, i + 1) + overlap = End(size, overlap, n, i)
         /\ End(size, overlap, n, i) < End(size, overlap, n, i + 1)
<1>1. End(size, overlap, n, i) < n
  BY DEF IsChunk
<1>2. Start(size, overlap, i) \in Int
  BY DEF Start
<1>3. End(size, overlap, n, i) = Start(size, overlap, i) + size
  BY <1>1, <1>2 DEF End
<1>4. Start(size, overlap, i + 1) = Start(size, overlap, i) + (size - overlap)
  BY NextStart
<1>5. Start(size, overlap, i + 1) + overlap = End(size, overlap, n, i)
  BY <1>2, <1>3, <1>4
<1>6. End(size, overlap, n, i + 1) =
        IF Start(size, overlap, i + 1) + size < n THEN Start(size, overlap, i + 1) + size ELSE n
  BY DEF End
<1>7. End(size, overlap, n, i) < Start(size, overlap, i + 1) + size
  BY <1>2, <1>3, <1>4
<1> QED
  BY <1>1, <1>2, <1>4, <1>5, <1>6, <1>7

-----------------------------------------------------------------------------
(* The candidates *)

\* The lists of a call.
IsLists(lists) ==
  /\ Len(lists) \in Nat /\ DOMAIN lists = 1..Len(lists)
  /\ \A t \in DOMAIN lists : lists[t] \in Nominations

LEMMA FirstIsLeast ==
  ASSUME NEW ts \in SUBSET Nat, ts # {}
  PROVE  First(ts) \in ts /\ \A u \in ts : First(ts) <= u
<1>1. PICK t \in ts : \A u \in ts : ~(<<u, t>> \in OpToRel(<, Nat))
  BY NatLessThanWellFounded, WFMin
<1>2. \A u \in ts : t <= u
  <2>1. \A u \in ts : ~(u < t)
    BY <1>1 DEF OpToRel
  <2> QED
    BY <2>1
<1> QED
  BY <1>2 DEF First

\* No two places of the lists have their turn at once.
LEMMA TurnsDiffer ==
  ASSUME NEW n \in Nat, NEW p \in 1..n, NEW q \in 1..n, NEW r \in Nat, NEW s \in Nat,
         r * n + p = s * n + q
  PROVE  p = q /\ r = s
<1>1. ASSUME NEW a \in Nat, NEW b \in Nat, a < b PROVE a * n + n <= b * n
  <2>1. PICK d \in Nat : b = a + 1 + d
    <3>1. b - a - 1 \in Nat /\ b = a + 1 + (b - a - 1)
      BY <1>1
    <3> QED
      BY <3>1
  <2>2. b * n = a * n + n + d * n
    BY <2>1
  <2>3. d * n \in Nat /\ a * n \in Nat /\ b * n \in Nat
    OBVIOUS
  <2> QED
    BY <2>2, <2>3
<1>2. r * n \in Nat /\ s * n \in Nat
  OBVIOUS
<1>3. ~(r < s)
  <2> SUFFICES ASSUME r < s PROVE FALSE
    OBVIOUS
  <2>1. r * n + n <= s * n
    BY <1>1
  <2> QED
    BY <1>2, <2>1
<1>4. ~(s < r)
  <2> SUFFICES ASSUME s < r PROVE FALSE
    OBVIOUS
  <2>1. s * n + n <= r * n
    BY <1>1
  <2> QED
    BY <1>2, <2>1
<1>5. r = s
  BY <1>3, <1>4
<1> QED
  BY <1>2, <1>5

\* Where a shard comes up, and when.
LEMMA TurnTypes ==
  ASSUME NEW lists, IsLists(lists), NEW s \in Named(lists)
  PROVE  /\ Turns(lists, s) \in SUBSET (Nat \ {0}) /\ Turns(lists, s) # {}
         /\ First(Turns(lists, s)) \in Turns(lists, s)
         /\ \A u \in Turns(lists, s) : First(Turns(lists, s)) <= u
<1>1. ASSUME NEW q \in Mentions(lists, s)
      PROVE  (q[2] - 1) * Len(lists) + q[1] \in Nat \ {0}
  <2>1. q[1] \in Nat \ {0} /\ q[2] - 1 \in Nat /\ Len(lists) \in Nat
    BY SearchAssumption, SMTT(30) DEF Mentions, IsLists, Shard
  <2>2. PICK m \in Nat : m = (q[2] - 1) * Len(lists)
    BY <2>1
  <2>3. m + q[1] \in Nat \ {0}
    BY <2>1
  <2> QED
    BY <2>2, <2>3
<1>2. Turns(lists, s) \in SUBSET (Nat \ {0}) /\ Turns(lists, s) # {}
  BY <1>1 DEF Turns, Named
<1> QED
  BY <1>2, FirstIsLeast

LEMMA FirstsDiffer ==
  ASSUME NEW lists, IsLists(lists), NEW s \in Named(lists), NEW u \in Named(lists),
         First(Turns(lists, s)) = First(Turns(lists, u))
  PROVE  s = u
<1>1. PICK q \in Mentions(lists, s) : First(Turns(lists, s)) = (q[2] - 1) * Len(lists) + q[1]
  BY TurnTypes DEF Turns
<1>2. PICK r \in Mentions(lists, u) : First(Turns(lists, u)) = (r[2] - 1) * Len(lists) + r[1]
  BY TurnTypes DEF Turns
<1>3. /\ q \in (1..Len(lists)) \X (1..MaxShard) /\ r \in (1..Len(lists)) \X (1..MaxShard)
      /\ lists[q[1]][q[2]] = s /\ lists[r[1]][r[2]] = u /\ Len(lists) \in Nat
  BY DEF Mentions, IsLists, Shard
<1>4. PICK q1 \in 1..Len(lists), q2 \in 1..MaxShard : q[1] = q1 /\ q[2] = q2
  BY <1>3
<1>5. PICK r1 \in 1..Len(lists), r2 \in 1..MaxShard : r[1] = r1 /\ r[2] = r2
  BY <1>3
<1>6. q2 - 1 \in Nat /\ r2 - 1 \in Nat /\ q2 \in Int /\ r2 \in Int
  BY SearchAssumption
<1>7. PICK n \in Nat, a \in Nat, b \in Nat : n = Len(lists) /\ a = q2 - 1 /\ b = r2 - 1
  BY <1>3, <1>6
<1>8. a * n + q1 = b * n + r1 /\ q1 \in 1..n /\ r1 \in 1..n
  BY <1>1, <1>2, <1>4, <1>5, <1>7
<1>9. q1 = r1 /\ a = b
  BY <1>8, TurnsDiffer
<1>10. q1 = r1 /\ q2 = r2
  BY <1>6, <1>7, <1>9
<1> QED
  BY <1>3, <1>4, <1>5, <1>10

LEMMA EarlierFinite ==
  ASSUME NEW lists, NEW s
  PROVE  /\ IsFiniteSet(Named(lists)) /\ IsFiniteSet(Earlier(lists, s))
         /\ Cardinality(Named(lists)) \in Nat /\ Cardinality(Earlier(lists, s)) \in Nat
         /\ Cardinality(Named(lists)) <= MaxShard
<1>1. IsFiniteSet(Shard) /\ Cardinality(Shard) = MaxShard
  BY SearchAssumption, FS_Interval DEF Shard
<1>2. IsFiniteSet(Named(lists)) /\ Cardinality(Named(lists)) <= MaxShard
  BY <1>1, FS_Subset DEF Named
<1>3. IsFiniteSet(Earlier(lists, s))
  BY <1>2, FS_Subset DEF Earlier
<1> QED
  BY <1>2, <1>3, FS_CardinalityType

\* Fewer are before the one of two shards that comes up first.
LEMMA EarlierGrows ==
  ASSUME NEW lists, IsLists(lists), NEW s \in Named(lists), NEW u \in Named(lists),
         First(Turns(lists, s)) < First(Turns(lists, u))
  PROVE  Cardinality(Earlier(lists, s)) < Cardinality(Earlier(lists, u))
<1>1. First(Turns(lists, s)) \in Nat /\ First(Turns(lists, u)) \in Nat
  BY TurnTypes
<1>2. Earlier(lists, s) \subseteq Earlier(lists, u)
  <2> SUFFICES ASSUME NEW v \in Earlier(lists, s) PROVE v \in Earlier(lists, u)
    OBVIOUS
  <2>1. v \in Named(lists) /\ First(Turns(lists, v)) < First(Turns(lists, s))
    BY DEF Earlier
  <2>2. First(Turns(lists, v)) \in Nat
    BY <2>1, TurnTypes
  <2> QED
    BY <1>1, <2>1, <2>2 DEF Earlier
<1>3. s \in Earlier(lists, u) /\ s \notin Earlier(lists, s)
  BY <1>1 DEF Earlier
<1>4. IsFiniteSet(Earlier(lists, u)) /\ Cardinality(Earlier(lists, u)) \in Nat
      /\ Cardinality(Earlier(lists, s)) \in Nat
  BY EarlierFinite
<1>5. /\ Cardinality(Earlier(lists, s)) <= Cardinality(Earlier(lists, u))
      /\ Cardinality(Earlier(lists, s)) # Cardinality(Earlier(lists, u))
  BY <1>2, <1>3, <1>4, FS_Subset
<1> QED
  BY <1>4, <1>5

\* A shard that is named is a candidate, behind those that come up before it.
LEMMA InterleavedAt ==
  ASSUME NEW lists, IsLists(lists), NEW s \in Named(lists)
  PROVE  /\ Cardinality(Earlier(lists, s)) + 1 \in 1..Cardinality(Named(lists))
         /\ Interleaved(lists)[Cardinality(Earlier(lists, s)) + 1] = s
<1> DEFINE k == Cardinality(Earlier(lists, s))
<1>1. k \in Nat /\ Cardinality(Named(lists)) \in Nat /\ IsFiniteSet(Named(lists))
  BY EarlierFinite
<1>2. k + 1 \in 1..Cardinality(Named(lists))
  <2>1. Earlier(lists, s) \subseteq Named(lists) /\ s \notin Earlier(lists, s)
    <3>1. First(Turns(lists, s)) \in Nat
      BY TurnTypes
    <3> QED
      BY <3>1 DEF Earlier
  <2>2. k <= Cardinality(Named(lists)) /\ k # Cardinality(Named(lists))
    BY <1>1, <2>1, FS_Subset
  <2> QED
    BY <1>1, <2>2
<1>3. \A u \in Named(lists) : Cardinality(Earlier(lists, u)) = k => u = s
  <2> SUFFICES ASSUME NEW u \in Named(lists), Cardinality(Earlier(lists, u)) = k PROVE u = s
    OBVIOUS
  <2>1. First(Turns(lists, s)) \in Nat /\ First(Turns(lists, u)) \in Nat
    BY TurnTypes
  <2>2. ~(First(Turns(lists, s)) < First(Turns(lists, u)))
    BY <1>1, EarlierGrows
  <2>3. ~(First(Turns(lists, u)) < First(Turns(lists, s)))
    BY <1>1, EarlierGrows
  <2>4. First(Turns(lists, s)) = First(Turns(lists, u))
    BY <2>1, <2>2, <2>3
  <2> QED
    BY <2>4, FirstsDiffer
<1>4. Interleaved(lists)[k + 1] = CHOOSE u \in Named(lists) : Cardinality(Earlier(lists, u)) = (k + 1) - 1
  BY <1>2 DEF Interleaved
<1>5. (k + 1) - 1 = k
  BY <1>1
<1>6. Interleaved(lists)[k + 1] = CHOOSE u \in Named(lists) : Cardinality(Earlier(lists, u)) = k
  BY <1>4, <1>5
<1>7. Interleaved(lists)[k + 1] = s
  BY <1>3, <1>6
<1> QED
  BY <1>2, <1>7

\* The best shard of a list has its turn in the first round.
LEMMA BestComesEarly ==
  ASSUME NEW lists, IsLists(lists), NEW t \in DOMAIN lists, lists[t] # << >>
  PROVE  /\ lists[t][1] \in Named(lists)
         /\ Cardinality(Earlier(lists, lists[t][1])) < Len(lists)
<1> DEFINE s == lists[t][1]
<1>1. lists[t] \in Seq(1..MaxShard) /\ Len(lists) \in Nat /\ t \in 1..Len(lists)
  BY SearchAssumption DEF IsLists
<1>2. s \in Shard /\ 1 \in Shard /\ 1 <= Len(lists[t])
  BY <1>1, SearchAssumption DEF Shard
<1>3. <<t, 1>> \in Mentions(lists, s)
  BY <1>2 DEF Mentions
<1>4. s \in Named(lists)
  BY <1>2, <1>3 DEF Named
<1>5. t \in Turns(lists, s)
  <2>1. (1 - 1) * Len(lists) + t = t
    BY <1>1
  <2>2. (<<t, 1>>[2] - 1) * Len(lists) + <<t, 1>>[1] \in Turns(lists, s)
    BY <1>3 DEF Turns
  <2> QED
    BY <2>1, <2>2
<1>6. First(Turns(lists, s)) \in Nat \ {0} /\ First(Turns(lists, s)) <= t
  BY <1>4, <1>5, TurnTypes
<1> DEFINE n == First(Turns(lists, s))
           before == Earlier(lists, s)
           turn == [u \in before |-> First(Turns(lists, u))]
<1>7. turn \in [before -> 1..(n - 1)]
  <2> SUFFICES ASSUME NEW u \in before PROVE First(Turns(lists, u)) \in 1..(n - 1)
    OBVIOUS
  <2>1. u \in Named(lists) /\ First(Turns(lists, u)) < n
    BY DEF Earlier
  <2>2. First(Turns(lists, u)) \in Nat \ {0}
    BY <2>1, TurnTypes
  <2> QED
    BY <1>6, <2>1, <2>2
<1>8. \A u, v \in before : turn[u] = turn[v] => u = v
  BY FirstsDiffer DEF Earlier
<1>9. IsFiniteSet(before) /\ Cardinality(before) \in Nat
  BY EarlierFinite
<1>10. IsFiniteSet(1..(n - 1)) /\ Cardinality(1..(n - 1)) = n - 1
  <2>1. PICK m \in Nat : m = n - 1
    BY <1>6
  <2>2. IsFiniteSet(1..m) /\ Cardinality(1..m) = IF 1 > m THEN 0 ELSE m - 1 + 1
    BY FS_Interval
  <2>3. IsFiniteSet(1..m) /\ Cardinality(1..m) = m
    BY <2>2
  <2> QED
    BY <2>1, <2>3
<1>11. Cardinality(before) <= n - 1
  <2> SUFFICES ASSUME n - 1 < Cardinality(before) PROVE FALSE
    BY <1>6, <1>9
  <2> HIDE DEF before, n, turn
  <2>1. \E u, v \in before : u # v /\ turn[u] = turn[v]
    BY <1>7, <1>9, <1>10, FS_PigeonHole
  <2> QED
    BY <1>8, <2>1
<1> QED
  BY <1>1, <1>4, <1>6, <1>9, <1>11

LEMMA CountTo == ASSUME NEW n \in Nat PROVE IsFiniteSet(1..n) /\ Cardinality(1..n) = n
<1>1. IsFiniteSet(1..n) /\ Cardinality(1..n) = IF 1 > n THEN 0 ELSE n - 1 + 1
  BY FS_Interval
<1> QED
  BY <1>1

\* The first of a list.
LEMMA FirstOfTypes ==
  ASSUME NEW S, NEW list \in Seq(S), NEW n \in Nat
  PROVE  /\ FirstOf(list, n) \in Seq(S) /\ Len(FirstOf(list, n)) = (IF Len(list) < n THEN Len(list) ELSE n)
         /\ \A i \in 1..Len(FirstOf(list, n)) : FirstOf(list, n)[i] = list[i]
  BY DEF FirstOf

LEMMA InterleavedTypes ==
  ASSUME NEW lists
  PROVE  /\ Interleaved(lists) \in Seq({Interleaved(lists)[i] : i \in 1..Cardinality(Named(lists))})
         /\ Len(Interleaved(lists)) = Cardinality(Named(lists))
         /\ Len(Interleaved(lists)) \in 0..MaxShard
<1> DEFINE n == Cardinality(Named(lists))
           S == {Interleaved(lists)[i] : i \in 1..n}
<1>1. n \in 0..MaxShard
  BY EarlierFinite, SearchAssumption
<1>2. Interleaved(lists) = [i \in 1..n |-> Interleaved(lists)[i]]
  BY DEF Interleaved
<1>3. Interleaved(lists) \in [1..n -> S]
  BY <1>2
<1> HIDE DEF n, S
<1>4. Interleaved(lists) \in Seq(S) /\ Len(Interleaved(lists)) = n
  BY <1>1, <1>3
<1> QED
  BY <1>1, <1>4 DEF n, S

\* No list is longer than the catalog.
LEMMA NominationTypes ==
  ASSUME NEW list \in Nominations
  PROVE  list \in Seq(Shard) /\ Len(list) \in 0..MaxShard
<1>1. list \in Seq(1..MaxShard) /\ IsInjective(list) /\ MaxShard \in Nat
  BY SearchAssumption
<1>2. Len(list) \in Nat /\ list \in [1..Len(list) -> 1..MaxShard] /\ DOMAIN list = 1..Len(list)
  BY <1>1
<1>3. /\ IsFiniteSet(1..Len(list)) /\ Cardinality(1..Len(list)) = Len(list)
      /\ IsFiniteSet(1..MaxShard) /\ Cardinality(1..MaxShard) = MaxShard
  BY <1>1, <1>2, CountTo
<1>4. ~(MaxShard < Len(list))
  <2> SUFFICES ASSUME MaxShard < Len(list) PROVE FALSE
    OBVIOUS
  <2>1. \E i, j \in 1..Len(list) : i # j /\ list[i] = list[j]
    BY <1>2, <1>3, FS_PigeonHole
  <2> QED
    BY <1>1, <1>2, <2>1 DEF IsInjective
<1> QED
  BY <1>1, <1>2, <1>4 DEF Shard

CallTypes ==
  /\ asked.strict \in BOOLEAN /\ asked.hint \in {NoHint} \cup Shard
  /\ IsLists(asked.lists) /\ asked.whole \in Nominations

Outcome == {"hits", "none", "failed"}

\* The phases of a search.
Phases ==
  /\ phase \in {"called", "probes", "returned"}
  /\ wave \in Nat
  /\ Len(candidates) \in 0..MaxShard /\ Place = 1..Len(candidates)
  /\ probe \in [Place -> Outcome \cup {"todo", "probing"}]
  /\ phase = "called" => wave = 0 /\ candidates = << >> /\ stragglers = {} /\ fused = {}
  /\ phase # "called" => candidates = Route(asked)
  /\ phase = "probes" => wave \in Waves

\* Only waves that have begun are probed.
TodoAhead == \A i \in Place : probe[i] # "todo" => i \in Probed

\* A wave that was left has answered but for the stragglers, and a strict search
\* has none.
LeftBehind == {w \in 1..wave : w < wave \/ phase = "returned"}
LeftAreNamed == \A w \in LeftBehind : \A i \in InWave(w) : i \in stragglers \/ i \in Answered
StrictWaits == asked.strict => stragglers = {}

\* What is fused was searched, and a hit among it ended the search early.
FusedAnswered ==
  /\ \A i \in fused : i \in Place /\ probe[i] \in {"hits", "none"}
  /\ phase = "returned" =>
       /\ \A i \in Probed : i \in fused \/ i \in stragglers \/ probe[i] = "failed"
       /\ Probed = Place \/ (~asked.strict /\ \E i \in fused : probe[i] = "hits")

WaveInv == CallTypes /\ Phases /\ TodoAhead /\ LeftAreNamed /\ StrictWaits /\ FusedAnswered

\* What the router answers is a list, and no longer than the catalog.
LEMMA RouteTypes ==
  ASSUME NEW call, call.hint \in {NoHint} \cup Shard, call.whole \in Nominations
  PROVE  Len(Route(call)) \in 0..MaxShard /\ DOMAIN Route(call) = 1..Len(Route(call))
<1>0. MaxShard \in Nat /\ MaxShards \in Nat \ {0}
  BY SearchAssumption
<1>1. CASE call.hint # NoHint
  <2>1. Route(call) = <<call.hint>> /\ 1 <= MaxShard
    BY <1>0, <1>1 DEF Route, Shard
  <2> QED
    BY <1>0, <2>1
<1>2. CASE call.hint = NoHint /\ Interleaved(call.lists) # << >>
  <2>1. Route(call) = FirstOf(Interleaved(call.lists), MaxShards)
    BY <1>2 DEF Route
  <2>2. PICK S : Interleaved(call.lists) \in Seq(S)
    BY InterleavedTypes
  <2>3. Len(Interleaved(call.lists)) \in 0..MaxShard
    BY InterleavedTypes
  <2>4. /\ Route(call) \in Seq(S)
        /\ Len(Route(call)) = IF Len(Interleaved(call.lists)) < MaxShards
                              THEN Len(Interleaved(call.lists)) ELSE MaxShards
    BY <1>0, <2>1, <2>2, FirstOfTypes
  <2> QED
    BY <1>0, <2>3, <2>4
<1>3. CASE call.hint = NoHint /\ Interleaved(call.lists) = << >> /\ call.whole # << >>
  <2>1. Route(call) = FirstOf(call.whole, MaxShards)
    BY <1>3 DEF Route
  <2> QED
    BY <1>0, <2>1, NominationTypes, FirstOfTypes
<1>4. CASE call.hint = NoHint /\ Interleaved(call.lists) = << >> /\ call.whole = << >>
  <2>1. Route(call) = Recent
    BY <1>4 DEF Route
  <2>2. AllShards \in Seq(Shard) /\ Len(AllShards) = MaxShard
    BY <1>0 DEF AllShards, Shard
  <2>3. PICK n \in Nat : Recent = FirstOf(AllShards, n)
    BY <1>0 DEF Recent
  <2> QED
    BY <1>0, <2>1, <2>2, <2>3, FirstOfTypes
<1> QED
  BY <1>1, <1>2, <1>3, <1>4

\* The candidates that a query's terms are owed.
LEMMA RoutesSubjects ==
  ASSUME NEW call, call.hint = NoHint, IsLists(call.lists), Len(call.lists) <= MaxShards,
         NEW t \in DOMAIN call.lists, call.lists[t] # << >>
  PROVE  \E i \in 1..Len(Route(call)) : i <= Len(call.lists) /\ Route(call)[i] = call.lists[t][1]
<1> DEFINE lists == call.lists
           s == lists[t][1]
           k == Cardinality(Earlier(lists, s))
<1>1. s \in Named(lists) /\ k < Len(lists)
  BY BestComesEarly
<1>2. k + 1 \in 1..Cardinality(Named(lists)) /\ Interleaved(lists)[k + 1] = s /\ k \in Nat
  BY <1>1, InterleavedAt, EarlierFinite
<1>3. PICK S : Interleaved(lists) \in Seq(S)
  BY InterleavedTypes
<1>4. Len(Interleaved(lists)) = Cardinality(Named(lists)) /\ Cardinality(Named(lists)) \in Nat
  BY InterleavedTypes, EarlierFinite
<1>5. Interleaved(lists) # << >>
  BY <1>2, <1>4
<1>6. Route(call) = FirstOf(Interleaved(lists), MaxShards)
  BY <1>5 DEF Route
<1>7. Len(lists) \in Nat /\ MaxShards \in Nat
  BY SearchAssumption DEF IsLists
<1> HIDE DEF k, s, lists
<1>8. k + 1 \in 1..Len(Route(call)) /\ k + 1 <= Len(lists)
  BY <1>1, <1>2, <1>3, <1>4, <1>6, <1>7, FirstOfTypes DEF lists
<1>9. Route(call)[k + 1] = s
  BY <1>2, <1>3, <1>6, <1>7, <1>8, FirstOfTypes
<1> QED
  BY <1>8, <1>9 DEF lists, s

-----------------------------------------------------------------------------
(* The waves *)

\* A later wave begins behind an earlier one.
LEMMA WavesApart ==
  ASSUME Phases, NEW v \in Nat, NEW w \in Nat, v < w
  PROVE  InWave(v) \cap InWave(w) = {}
<1>1. PICK d \in Nat : w - 1 = v + d
  <2>1. w - 1 - v \in Nat /\ w - 1 = v + (w - 1 - v)
    OBVIOUS
  <2> QED
    BY <2>1
<1>2. ProbeWave \in Nat
  BY SearchAssumption
<1>3. (w - 1) * ProbeWave = v * ProbeWave + d * ProbeWave
  BY <1>1, <1>2
<1>4. PICK m \in Nat, n \in Nat : m = v * ProbeWave /\ n = d * ProbeWave
  BY <1>2
<1>5. ASSUME NEW i \in InWave(v) \cap InWave(w) PROVE FALSE
  <2>1. i \in Nat /\ i <= v * ProbeWave /\ (w - 1) * ProbeWave < i
    BY DEF InWave, Phases
  <2>2. i <= m /\ m + n < i
    BY <1>3, <1>4, <2>1
  <2> QED
    BY <1>4, <2>1, <2>2
<1> QED
  BY <1>5

\* The waves leave no place out.
LEMMA WavesMeet ==
  ASSUME Phases, NEW i \in Place, i <= wave * ProbeWave
  PROVE  i \in Probed
<1>0. ProbeWave \in Nat \ {0} /\ wave \in Nat /\ i \in Nat \ {0}
  BY SearchAssumption DEF Phases
<1> DEFINE ends == {n \in Nat : i <= n * ProbeWave}
           w == First(ends)
<1>1. w \in ends /\ w <= wave /\ \A n \in ends : w <= n
  BY <1>0, FirstIsLeast
<1> HIDE DEF w
<1>2. w # 0
  BY <1>0, <1>1
<1>3. w \in 1..wave /\ w - 1 \in Nat /\ w - 1 \notin ends
  BY <1>0, <1>1, <1>2
<1>4. (w - 1) * ProbeWave < i
  <2>1. (w - 1) * ProbeWave \in Nat /\ ~(i <= (w - 1) * ProbeWave)
    BY <1>0, <1>3
  <2> QED
    BY <1>0, <2>1
<1>5. i \in InWave(w)
  BY <1>1, <1>4 DEF InWave
<1> QED
  BY <1>3, <1>5 DEF Probed

\* When no wave is left to begin, every candidate was probed.
LEMMA LastWave == ASSUME Phases, wave + 1 \notin Waves PROVE Probed = Place
<1>0. MaxShard \in Nat /\ ProbeWave \in Nat \ {0} /\ wave \in Nat
      /\ Len(candidates) \in 0..MaxShard /\ Place = 1..Len(candidates)
  BY SearchAssumption DEF Phases
<1>1. PICK m \in Nat : m = wave * ProbeWave
  BY <1>0
<1>2. m >= wave
  <2>1. PICK d \in Nat : ProbeWave = d + 1
    BY <1>0
  <2>2. wave * ProbeWave = wave * d + wave /\ wave * d \in Nat
    BY <1>0, <2>1
  <2> QED
    BY <1>0, <1>1, <2>2
<1>3. (wave + 1) - 1 = wave
  BY <1>0
<1>4. wave + 1 > MaxShard \/ ~(m < Len(candidates))
  <2>1. Waves = {w \in 1..MaxShard : (w - 1) * ProbeWave < Len(candidates)}
    BY DEF Waves
  <2>2. ~(wave + 1 \in 1..MaxShard /\ ((wave + 1) - 1) * ProbeWave < Len(candidates))
    BY <2>1
  <2>3. ~(wave + 1 \in 1..MaxShard /\ m < Len(candidates))
    BY <1>1, <1>3, <2>2
  <2> QED
    BY <1>0, <2>3
<1>5. \A i \in Place : i <= m
  BY <1>0, <1>2, <1>4
<1>6. Place \subseteq Probed
  BY <1>1, <1>5, WavesMeet
<1> QED
  BY <1>6 DEF Probed, InWave

\* The next wave is what is probed next.
LEMMA ProbedGrows ==
  ASSUME Phases, candidates' = candidates, wave' = wave + 1
  PROVE  /\ \A w : InWave(w)' = InWave(w)
         /\ Probed' = Probed \cup InWave(wave + 1)
         /\ Probed \cap InWave(wave + 1) = {}
<1>1. \A w : InWave(w)' = InWave(w)
  BY DEF InWave, Place
<1>2. wave \in Nat /\ 1..wave' = (1..wave) \cup {wave + 1}
  BY DEF Phases
<1>3. Probed' = Probed \cup InWave(wave + 1)
  BY <1>1, <1>2 DEF Probed
<1>4. \A w \in 1..wave : InWave(w) \cap InWave(wave + 1) = {}
  BY <1>2, WavesApart
<1> QED
  BY <1>1, <1>3, <1>4 DEF Probed

\* A wave in numbers.
LEMMA WaveCounts ==
  ASSUME Phases, NEW w
  PROVE  /\ Size(w) \in Nat /\ Completed(w) \in Nat /\ Completed(w) <= Size(w)
         /\ Completed(w) = Size(w) => InWave(w) \subseteq Answered
<1>1. IsFiniteSet(Place)
  BY CountTo DEF Phases
<1>2. IsFiniteSet(InWave(w)) /\ InWave(w) \cap Answered \subseteq InWave(w)
  BY <1>1, FS_Subset DEF InWave
<1>3. IsFiniteSet(InWave(w) \cap Answered)
  BY <1>2, FS_Subset
<1>4. Size(w) \in Nat /\ Completed(w) \in Nat
  BY <1>2, <1>3, FS_CardinalityType DEF Size, Completed
<1>5. Completed(w) <= Size(w) /\ (Completed(w) = Size(w) => InWave(w) \cap Answered = InWave(w))
  BY <1>2, FS_Subset DEF Size, Completed
<1> QED
  BY <1>4, <1>5

\* A wave that is settled has its quorum; for a strict search, all of it.
LEMMA SettledMeans ==
  ASSUME Phases, CallTypes, NEW w, Settled(w)
  PROVE  Completed(w) >= Quorum(Size(w)) /\ (asked.strict => InWave(w) \subseteq Answered)
<1>1. Size(w) \in Nat /\ Completed(w) \in Nat /\ Completed(w) <= Size(w)
      /\ (Completed(w) = Size(w) => InWave(w) \subseteq Answered)
  BY WaveCounts
<1>2. CASE asked.strict
  <2>1. Quorum(Size(w)) = Size(w)
    BY <1>2 DEF Quorum
  <2>2. Completed(w) = Size(w)
    BY <1>1, <2>1 DEF Settled
  <2> QED
    BY <1>1, <2>1, <2>2
<1>3. CASE ~asked.strict
  <2>1. Quorum(Size(w)) = (4 * Size(w) + 4) \div 5
    BY <1>3 DEF Quorum
  <2>2. (4 * Size(w) + 4) \div 5 <= Size(w) /\ (4 * Size(w) + 4) \div 5 \in Int
    BY <1>1
  <2> QED
    BY <1>1, <1>3, <2>1, <2>2 DEF Settled
<1> QED
  BY <1>2, <1>3

-----------------------------------------------------------------------------
(* The steps *)

LEMMA WaveInvSuffices == WaveInv => AllAccountedFor /\ StrictIsExact /\ SubjectsProbed
<1> SUFFICES ASSUME WaveInv PROVE AllAccountedFor /\ StrictIsExact /\ SubjectsProbed
  OBVIOUS
<1>1. AllAccountedFor
  BY DEF AllAccountedFor, WaveInv, FusedAnswered, TodoAhead
<1>2. StrictIsExact
  <2> SUFFICES ASSUME phase = "returned"
               PROVE  /\ asked.strict => Answered = Place /\ stragglers = {}
                      /\ Probed = Place \/ \E i \in fused : probe[i] = "hits"
    BY DEF StrictIsExact
  <2>1. Probed = Place \/ (~asked.strict /\ \E i \in fused : probe[i] = "hits")
    BY DEF WaveInv, FusedAnswered
  <2>2. ASSUME asked.strict PROVE Answered = Place /\ stragglers = {}
    <3>1. stragglers = {} /\ Probed = Place
      BY <2>1, <2>2 DEF WaveInv, StrictWaits
    <3>2. \A i \in Probed : i \in Answered
      BY <3>1 DEF WaveInv, LeftAreNamed, LeftBehind, Probed
    <3> QED
      BY <3>1, <3>2 DEF Answered
  <2> QED
    BY <2>1, <2>2
<1>3. SubjectsProbed
  <2> SUFFICES ASSUME phase # "called", asked.hint = NoHint, NEW t \in DOMAIN asked.lists,
                      asked.lists[t] # << >>, Len(asked.lists) <= MaxShards
               PROVE  \E i \in Place : i <= Len(asked.lists) /\ candidates[i] = asked.lists[t][1]
    BY DEF SubjectsProbed
  <2>1. candidates = Route(asked) /\ Place = 1..Len(candidates) /\ IsLists(asked.lists)
    BY DEF WaveInv, Phases, CallTypes
  <2>2. \E i \in 1..Len(Route(asked)) : i <= Len(asked.lists) /\ Route(asked)[i] = asked.lists[t][1]
    BY <2>1, RoutesSubjects
  <2> QED
    BY <2>1, <2>2
<1> QED
  BY <1>1, <1>2, <1>3

LEMMA WaveStart == Init => WaveInv
<1> SUFFICES ASSUME Init PROVE WaveInv
  OBVIOUS
<1>1. CallTypes
  <2>1. PICK n \in Nat : asked.lists \in [1..n -> Nominations]
    BY SearchAssumption DEF Init
  <2>2. IsLists(asked.lists)
    BY <2>1 DEF IsLists
  <2> QED
    BY <2>2 DEF Init, CallTypes
<1>2. Phases
  BY SearchAssumption DEF Init, Phases, Place, Outcome
<1>3. TodoAhead /\ LeftAreNamed /\ StrictWaits /\ FusedAnswered
  BY DEF Init, TodoAhead, LeftAreNamed, LeftBehind, StrictWaits, FusedAnswered, Place
<1> QED
  BY <1>1, <1>2, <1>3 DEF WaveInv

\* A wave that begins probes none but its own.
LEMMA BeginTypes ==
  ASSUME NEW w \in Nat, NEW places, NEW state \in [places -> Outcome \cup {"todo", "probing"}]
  PROVE  /\ BeginWave(w, places, state) \in [places -> Outcome \cup {"todo", "probing"}]
         /\ \A i \in places : \/ BeginWave(w, places, state)[i] = state[i]
                              \/ /\ BeginWave(w, places, state)[i] = "probing"
                                 /\ (w - 1) * ProbeWave < i /\ i <= w * ProbeWave
  BY DEF BeginWave

LEMMA BeginKeeps == ASSUME WaveInv, Begin PROVE WaveInv'
<1>0. /\ CallTypes /\ asked' = asked /\ candidates' = Route(asked) /\ wave = 0 /\ candidates = << >>
      /\ stragglers' = {} /\ fused' = {} /\ probe \in [Place -> Outcome \cup {"todo", "probing"}]
  BY DEF Begin, WaveInv, Phases
<1>1. CallTypes'
  BY <1>0 DEF CallTypes
<1>2. /\ Len(candidates') \in 0..MaxShard /\ Place' = 1..Len(candidates')
      /\ MaxShard \in Nat /\ ProbeWave \in Nat \ {0}
  BY <1>0, RouteTypes, SearchAssumption DEF CallTypes, Place
<1>3. StrictWaits'
  BY <1>0 DEF StrictWaits
<1>4. CASE candidates' = << >>
  <2>1. phase' = "returned" /\ wave' = 0 /\ probe' = probe
    BY <1>0, <1>4 DEF Begin
  <2>2. Place' = {} /\ Place = {}
    BY <1>0, <1>4 DEF Place
  <2>3. Probed' = {}
    BY <2>1 DEF Probed
  <2>4. Phases'
    BY <1>0, <1>2, <2>1, <2>2 DEF Phases, Route
  <2>5. TodoAhead' /\ LeftAreNamed' /\ FusedAnswered'
    BY <1>0, <2>1, <2>2, <2>3 DEF TodoAhead, LeftAreNamed, LeftBehind, FusedAnswered
  <2> QED
    BY <1>1, <1>3, <2>4, <2>5 DEF WaveInv
<1>5. CASE candidates' # << >>
  <2> DEFINE state == [i \in Place' |-> "todo"]
  <2>1. /\ phase' = "probes" /\ wave' = 1
        /\ probe' = BeginWave(1, Place', state)
    BY <1>5 DEF Begin, Place
  <2>2. state \in [Place' -> Outcome \cup {"todo", "probing"}]
    OBVIOUS
  <2>3. /\ probe' \in [Place' -> Outcome \cup {"todo", "probing"}]
        /\ \A i \in Place' : probe'[i] = "todo" \/ ((1 - 1) * ProbeWave < i /\ i <= 1 * ProbeWave)
    BY <2>1, <2>2, BeginTypes
  <2>4. 1 \in Waves'
    <3>1. Len(candidates') # 0
      BY <1>2, <1>5 DEF Place
    <3>2. (1 - 1) * ProbeWave = 0 /\ 1 \in 1..MaxShard /\ 0 < Len(candidates')
      BY <1>2, <3>1
    <3> QED
      BY <3>2 DEF Waves
  <2>5. Phases'
    BY <1>0, <1>2, <2>1, <2>3, <2>4 DEF Phases, Route
  <2>6. TodoAhead'
    <3>1. 1 \in 1..wave'
      BY <2>1
    <3>2. \A i \in Place' : probe'[i] # "todo" => i \in InWave(1)'
      BY <2>3 DEF InWave
    <3> QED
      BY <3>1, <3>2 DEF TodoAhead, Probed
  <2>7. LeftAreNamed' /\ FusedAnswered'
    BY <1>0, <2>1 DEF LeftAreNamed, LeftBehind, FusedAnswered
  <2> QED
    BY <1>1, <1>3, <2>5, <2>6, <2>7 DEF WaveInv
<1> QED
  BY <1>4, <1>5

\* Waves and what was left stay as they are, and what has answered too.
LEMMA AnswersStay ==
  ASSUME WaveInv, UNCHANGED <<asked, candidates, wave, stragglers, fused, phase>>,
         probe' \in [Place -> Outcome \cup {"todo", "probing"}],
         \A i \in Answered : probe'[i] = probe[i],
         \A i \in Place : probe[i] = "todo" /\ probe'[i] # "todo" => i \in Probed
  PROVE  WaveInv'
<1>1. Place' = Place /\ \A w : InWave(w)' = InWave(w)
  BY DEF Place, InWave
<1>2. Probed' = Probed /\ LeftBehind' = LeftBehind /\ Waves' = Waves
  BY <1>1 DEF Probed, LeftBehind, Waves
<1>3. Answered \subseteq Answered'
  BY <1>1 DEF Answered
<1>4. CallTypes' /\ StrictWaits'
  BY DEF WaveInv, CallTypes, StrictWaits
<1>5. Phases'
  BY <1>1, <1>2 DEF WaveInv, Phases, Route, Recent
<1>6. TodoAhead'
  BY <1>1, <1>2 DEF WaveInv, TodoAhead
<1>7. LeftAreNamed'
  BY <1>1, <1>2, <1>3 DEF WaveInv, LeftAreNamed
<1>8. FusedAnswered'
  <2>1. \A i \in fused : i \in Place /\ probe[i] \in {"hits", "none"} /\ i \in Answered
    BY DEF WaveInv, FusedAnswered, Answered
  <2>2. \A i \in Place : probe[i] = "failed" => probe'[i] = "failed"
    BY DEF Answered
  <2>3. \A i \in Probed : i \in Place
    BY DEF Probed, InWave
  <2> QED
    BY <1>1, <1>2, <2>1, <2>2, <2>3 DEF WaveInv, FusedAnswered
<1> QED
  BY <1>4, <1>5, <1>6, <1>7, <1>8 DEF WaveInv

LEMMA AnswerKeeps == ASSUME WaveInv, NEW i \in Place, Answer(i) PROVE WaveInv'
<1>1. PICK outcome \in Outcome, w \in 1..wave :
        probe' = [j \in Place |-> IF j = i THEN outcome
                                  ELSE IF j \in FirstTodo(w, 1) THEN "probing" ELSE probe[j]]
  BY DEF Answer, Outcome
<1>2. probe[i] = "probing" /\ probe \in [Place -> Outcome \cup {"todo", "probing"}]
  BY DEF Answer, WaveInv, Phases
<1>3. \A j \in FirstTodo(w, 1) : probe[j] = "todo" /\ j \in Probed
  BY <1>1 DEF FirstTodo, Probed
<1>4. probe' \in [Place -> Outcome \cup {"todo", "probing"}]
  BY <1>1, <1>2
<1>5. \A j \in Answered : probe'[j] = probe[j]
  BY <1>1, <1>2, <1>3 DEF Answered
<1>6. \A j \in Place : probe[j] = "todo" /\ probe'[j] # "todo" => j \in Probed
  BY <1>1, <1>2, <1>3
<1>7. UNCHANGED <<asked, candidates, wave, stragglers, fused, phase>>
  BY DEF Answer
<1> QED
  BY <1>4, <1>5, <1>6, <1>7, AnswersStay

\* All waves up to this one are left now, with nobody behind who is not named.
LEMMA LeavesNamed ==
  ASSUME WaveInv, LeaveWave
  PROVE  /\ \A w \in 1..wave : \A i \in InWave(w) : i \in Left \/ i \in Answered
         /\ asked.strict => Left = {}
<1>1. \A w \in 1..wave : w # wave => w \in LeftBehind
  BY DEF LeftBehind, WaveInv, Phases
<1>2. \A w \in 1..wave : \A i \in InWave(w) : i \in Left \/ i \in Answered
  BY <1>1 DEF WaveInv, LeftAreNamed, Left
<1>3. asked.strict => InWave(wave) \subseteq Answered
  BY SettledMeans DEF LeaveWave, WaveInv
<1> QED
  BY <1>2, <1>3 DEF Left, WaveInv, StrictWaits

LEMMA NextWaveKeeps ==
  ASSUME WaveInv, LeaveWave, wave + 1 \in Waves, ~Stops
  PROVE  WaveInv'
<1>0. /\ phase = "probes" /\ wave \in Nat /\ wave' = wave + 1
      /\ probe \in [Place -> Outcome \cup {"todo", "probing"}]
      /\ probe' = BeginWave(wave + 1, Place, probe)
      /\ stragglers' = Left /\ UNCHANGED <<asked, candidates, fused, phase>>
  BY DEF LeaveWave, WaveInv, Phases
<1>1. /\ Place' = Place /\ Waves' = Waves
      /\ \A w : InWave(w)' = InWave(w)
      /\ Probed' = Probed \cup InWave(wave + 1)
      /\ Probed \cap InWave(wave + 1) = {}
  BY <1>0, ProbedGrows DEF Place, Waves, WaveInv
<1>2. /\ probe' \in [Place -> Outcome \cup {"todo", "probing"}]
      /\ \A i \in Place : \/ probe'[i] = probe[i]
                          \/ probe'[i] = "probing" /\ i \in InWave(wave + 1)
  <2>1. wave + 1 \in Nat
    BY <1>0
  <2>2. /\ probe' \in [Place -> Outcome \cup {"todo", "probing"}]
        /\ \A i \in Place : \/ probe'[i] = probe[i]
                            \/ /\ probe'[i] = "probing"
                               /\ ((wave + 1) - 1) * ProbeWave < i /\ i <= (wave + 1) * ProbeWave
    BY <1>0, <2>1, BeginTypes
  <2> QED
    BY <2>2 DEF InWave
<1>3. \A i \in Place : probe[i] # "todo" => i \in Probed /\ probe'[i] = probe[i]
  BY <1>1, <1>2 DEF WaveInv, TodoAhead
<1>4. CallTypes' /\ StrictWaits'
  BY <1>0, LeavesNamed DEF WaveInv, CallTypes, StrictWaits
<1>5. Phases'
  BY <1>0, <1>1, <1>2 DEF WaveInv, Phases, Route, Recent
<1>6. TodoAhead'
  BY <1>1, <1>2 DEF WaveInv, TodoAhead
<1>7. LeftAreNamed'
  <2>1. LeftBehind' \subseteq 1..wave
    BY <1>0 DEF LeftBehind
  <2>2. Answered \subseteq Answered'
    BY <1>1, <1>3 DEF Answered
  <2> QED
    BY <1>0, <1>1, <2>1, <2>2, LeavesNamed DEF LeftAreNamed
<1>8. FusedAnswered'
  BY <1>0, <1>1, <1>3 DEF WaveInv, FusedAnswered
<1> QED
  BY <1>4, <1>5, <1>6, <1>7, <1>8 DEF WaveInv

LEMMA ReturnKeeps ==
  ASSUME WaveInv, LeaveWave, ~(wave + 1 \in Waves /\ ~Stops)
  PROVE  WaveInv'
<1>0. /\ phase' = "returned" /\ fused' = {i \in Place : probe[i] \in {"hits", "none"}}
      /\ stragglers' = Left /\ UNCHANGED <<asked, candidates, wave, probe>>
      /\ phase = "probes"
  BY DEF LeaveWave
<1>1. /\ Place' = Place /\ Waves' = Waves /\ Probed' = Probed /\ Answered' = Answered
      /\ \A w : InWave(w)' = InWave(w)
  BY <1>0 DEF Place, Waves, Probed, InWave, Answered
<1>2. CallTypes' /\ StrictWaits'
  BY <1>0, LeavesNamed DEF WaveInv, CallTypes, StrictWaits
<1>3. Phases'
  BY <1>0, <1>1 DEF WaveInv, Phases, Route, Recent
<1>4. TodoAhead'
  BY <1>0, <1>1 DEF WaveInv, TodoAhead
<1>5. LeftAreNamed'
  <2>1. LeftBehind' \subseteq 1..wave
    BY <1>0 DEF LeftBehind
  <2> QED
    BY <1>0, <1>1, <2>1, LeavesNamed DEF LeftAreNamed
<1>6. FusedAnswered'
  <2>1. \A i \in fused' : i \in Place /\ probe[i] \in {"hits", "none"}
    BY <1>0
  <2>2. \A i \in Probed : i \in fused' \/ i \in Left \/ probe[i] = "failed"
    BY <1>0, LeavesNamed DEF Probed, Answered, InWave
  <2>3. Probed = Place \/ (~asked.strict /\ \E i \in fused' : probe[i] = "hits")
    <3>1. CASE wave + 1 \notin Waves
      BY <3>1, LastWave DEF WaveInv
    <3>2. CASE Stops
      BY <1>0, <3>2 DEF Stops, AnyHit
    <3> QED
      BY <3>1, <3>2
  <2> QED
    BY <1>0, <1>1, <2>1, <2>2, <2>3 DEF FusedAnswered
<1> QED
  BY <1>2, <1>3, <1>4, <1>5, <1>6 DEF WaveInv

LEMMA WaveStep == WaveInv /\ [Next]_vars => WaveInv'
<1> SUFFICES ASSUME WaveInv, [Next]_vars PROVE WaveInv'
  OBVIOUS
<1>1. CASE UNCHANGED <<asked, candidates, wave, probe, stragglers, fused, phase>>
  BY <1>1, AnswersStay DEF WaveInv, Phases
<1>2. CASE Deadline
  BY <1>1, <1>2 DEF Deadline
<1>3. CASE UNCHANGED vars
  BY <1>1, <1>3 DEF vars
<1> QED
  BY <1>2, <1>3, BeginKeeps, AnswerKeeps, NextWaveKeeps, ReturnKeeps DEF Next

\* A search that returns has named every shard it probed as fused, failed or
\* straggler, however many probes fail, hang or answer behind its back
\* (fusedFrom, failed and stragglers in search.ts).
THEOREM SearchAccounts == Spec => []AllAccountedFor
  BY WaveStart, WaveStep, WaveInvSuffices, PTL DEF Spec

\* A strict search answers for every candidate, and any search passes over
\* candidates only where it has found something, for any wave size, parallelism
\* and number of candidates (the wave loop in search.ts).
THEOREM StrictSearchIsExact == Spec => []StrictIsExact
  BY WaveStart, WaveStep, WaveInvSuffices, PTL DEF Spec

\* Every term's best shard is among the first candidates, as many as there are
\* terms, whatever the ranked lists are (the interleaving in router.ts).
THEOREM SubjectsAreProbed == Spec => []SubjectsProbed
  BY WaveStart, WaveStep, WaveInvSuffices, PTL DEF Spec
=============================================================================
