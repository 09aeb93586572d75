---------------------------- MODULE CatalogProofs ----------------------------
(****************************************************************************)
(* Proofs about two tables of the catalog: the routing signals, whatever    *)
(* processes, shards and terms there are, and the vectors of the replicas,  *)
(* whatever clients and clocks.                                             *)
(****************************************************************************)
EXTENDS Routing, Stability, FiniteSetTheorems, WellFoundedInduction, TLAPS

-----------------------------------------------------------------------------
(* The count of shards per term *)

Having(table, t) == {s \in Shard : t \in table[s]}

\* The count as a count, of tables that are tables.
CountInv ==
  /\ stats \in [Shard -> SUBSET Term]
  /\ df \in [Term -> Nat]
  /\ \A t \in Term : df[t] = Cardinality(Having(stats, t))

LEMMA HavingIsFinite ==
  ASSUME NEW table, NEW t
  PROVE  IsFiniteSet(Having(table, t)) /\ Cardinality(Having(table, t)) \in Nat
<1>1. IsFiniteSet(Having(table, t))
  BY FS_Subset, RoutingAssumption DEF Having
<1> QED
  BY <1>1, FS_CardinalityType

LEMMA InitCounts == Init => CountInv
<1> SUFFICES ASSUME Init PROVE CountInv
  OBVIOUS
<1>1. ASSUME NEW t \in Term PROVE Having(stats, t) = {}
  BY DEF Init, Having
<1> QED
  BY <1>1, FS_EmptySet DEF Init, CountInv

\* One shard's statistics are overwritten: its term enters, leaves or stays.
LEMMA RecordCounts ==
  ASSUME CountInv, NEW s \in Shard, NEW top \in SUBSET Term,
         stats' = [stats EXCEPT ![s] = top], df' = Counted(stats[s], top)
  PROVE  CountInv'
<1>1. stats' \in [Shard -> SUBSET Term]
  BY DEF CountInv
<1>2. stats'[s] = top /\ \A u \in Shard \ {s} : stats'[u] = stats[u]
  BY DEF CountInv
<1>3. ASSUME NEW t \in Term
      PROVE  df'[t] \in Nat /\ df'[t] = Cardinality(Having(stats', t))
  <2> DEFINE before == Having(stats, t)
             after  == Having(stats', t)
  <2>1. IsFiniteSet(before) /\ Cardinality(before) \in Nat
    BY HavingIsFinite
  <2>2. df[t] = Cardinality(before)
    BY DEF CountInv
  <2>3. df'[t] = IF t \in top \ stats[s] THEN df[t] + 1
                 ELSE IF t \in stats[s] \ top /\ df[t] > 0 THEN df[t] - 1
                 ELSE df[t]
    BY DEF Counted, Entered, Left
  <2>4. CASE t \in top \ stats[s]
    <3>1. after = before \cup {s} /\ s \notin before
      BY <1>2, <2>4 DEF Having
    <3>2. Cardinality(after) = Cardinality(before) + 1
      BY <2>1, <3>1, FS_AddElement
    <3> QED
      BY <2>1, <2>2, <2>3, <2>4, <3>2
  <2>5. CASE t \in stats[s] \ top
    <3>1. after = before \ {s} /\ s \in before
      BY <1>2, <2>5 DEF Having
    <3>2. Cardinality(after) = Cardinality(before) - 1
      <4>1. Cardinality(before \ {s}) = Cardinality(before) - 1
        <5> HIDE DEF before
        <5> QED  BY <2>1, <3>1, FS_RemoveElement
      <4> QED
        BY <3>1, <4>1
    <3>3. df[t] > 0
      BY <2>1, <2>2, <3>1, FS_EmptySet
    <3>4. df'[t] = df[t] - 1
      BY <2>3, <2>5, <3>3
    <3> QED
      BY <2>1, <2>2, <3>2, <3>3, <3>4
  <2>6. CASE t \in top <=> t \in stats[s]
    <3>1. after = before
      BY <1>2, <2>6 DEF Having
    <3> QED
      BY <2>1, <2>2, <2>3, <2>6, <3>1
  <2> QED
    BY <2>4, <2>5, <2>6
<1>4. df' \in [Term -> Nat]
  BY <1>3 DEF Counted
<1> QED
  BY <1>1, <1>3, <1>4 DEF CountInv

LEMMA NextCounts == CountInv /\ [Next]_vars => CountInv'
<1> SUFFICES ASSUME CountInv, [Next]_vars PROVE CountInv'
  OBVIOUS
<1>1. ASSUME NEW p \in Process, NEW s \in Shard, NEW top \in SUBSET Term, RecordTermStats(p, s, top)
      PROVE  CountInv'
  BY <1>1, RecordCounts DEF RecordTermStats
<1>2. CASE UNCHANGED <<stats, df>>
  BY <1>2 DEF CountInv, Having
<1>3. ASSUME NEW p \in Process, NEW s \in Shard, EnsureShard(p, s) \/ ScoreNext(p, s)
      PROVE  UNCHANGED <<stats, df>>
  BY <1>3 DEF EnsureShard, ScoreNext
<1>4. ASSUME NEW p \in Process,
             \/ Score(p) \/ SetRoutingTerms(p) \/ RefreshAllRoutingTerms(p) \/ EndRefresh(p)
             \/ ReadToken(p) \/ ListShards(p) \/ Dies(p)
      PROVE  UNCHANGED <<stats, df>>
  BY <1>4 DEF Score, SetRoutingTerms, RefreshAllRoutingTerms, EndRefresh, ReadToken, ListShards, Dies
<1>5. CASE UNCHANGED vars
  BY <1>2, <1>5 DEF vars
<1> QED
  BY <1>1, <1>2, <1>3, <1>4, <1>5 DEF Next

LEMMA CountsRecount == CountInv => DfIsRecount
  BY DEF CountInv, DfIsRecount, Having

\* term_df says of each term in how many shards' statistics it is, at any time:
\* the increments and decrements of recordTermStats never drift, for any number
\* of processes that record, refresh and die.
THEOREM DfNeverDrifts == Spec => []DfIsRecount
<1>1. Init => CountInv
  BY InitCounts
<1>2. CountInv /\ [Next]_vars => CountInv'
  BY NextCounts
<1>3. CountInv => DfIsRecount
  BY CountsRecount
<1> QED
  BY <1>1, <1>2, <1>3, PTL DEF Spec

-----------------------------------------------------------------------------
(* The signatures, and what the routers make of them *)

JobRow == [at : {"idle", "score", "set", "refresh", "list"}, shard : Shard \cup {None},
           terms : SUBSET Term, todo : SUBSET Shard, refresh : BOOLEAN, steady : BOOLEAN]

RouteTypes ==
  /\ known \subseteq Shard
  /\ signature \in [Shard -> SUBSET Term]
  /\ job \in [Process -> JobRow]
  /\ DOMAIN cache = Process
  /\ settled \in BOOLEAN

\* Only shards of the table have statistics, only those with statistics a
\* signature, and a job that scores or sets one is about such a shard.
OnlyWithStats ==
  /\ \A s \in Shard : (s \notin known => stats[s] = {}) /\ (stats[s] = {} => signature[s] = {})
  /\ \A p \in Process : job[p].at \in {"score", "set"} =>
       job[p].shard \in Shard /\ stats[job[p].shard] # {}

\* No signal has changed since what is about to be set was scored.
ScoresFresh ==
  settled \/ (\E p \in Process : job[p].steady) =>
    \A p \in Process : job[p].at = "set" => job[p].terms \in Scored(job[p].shard)

Settled == \A s \in Shard : signature[s] \in Scored(s)

\* A steady refresh has settled every shard but those it has before it.
Before(p) == job[p].todo \cup (IF job[p].at = "set" THEN {job[p].shard} ELSE {})
SteadyBehind ==
  \A p \in Process : job[p].steady =>
    /\ job[p].at \in {"refresh", "set"} /\ job[p].refresh
    /\ \A s \in Shard \ Before(p) : signature[s] \in Scored(s)

\* A cache that counts as current is.
CachesTrue ==
  \A p \in Routers : job[p].at # "list" /\ IsCurrent(p) => 
    DOMAIN cache[p] = known /\ \A s \in known : cache[p][s] \in Cut(signature[s], HeadN)

RouteInv ==
  /\ CountInv /\ RouteTypes /\ OnlyWithStats /\ ScoresFresh
  /\ (settled => Settled) /\ SteadyBehind /\ CachesTrue

\* Nobody is in the middle of anything.
LEMMA IdleTypes == Idle \in JobRow /\ Idle.at = "idle" /\ ~Idle.steady /\ ~Idle.refresh
  BY DEF Idle, JobRow

\* A process that goes on with its job.
LEMMA JobStep ==
  ASSUME RouteTypes, NEW p \in Process, NEW row \in JobRow, job' = [job EXCEPT ![p] = row]
  PROVE  /\ job' \in [Process -> JobRow]
         /\ job'[p] = row
         /\ \A q \in Process \ {p} : job'[q] = job[q]
  BY DEF RouteTypes

\* What a term's count says: it is distinctive unless every shard has it, where
\* there is more than one.
LEMMA DistinctiveMeans ==
  ASSUME CountInv, RouteTypes, OnlyWithStats, NEW t \in Term, NEW s \in known, t \in stats[s]
  PROVE  Distinctive(t) <=> {u \in known : t \in stats[u]} # known
<1> DEFINE held == {u \in known : t \in stats[u]}
<1>1. held = Having(stats, t)
  BY DEF Having, RouteTypes, OnlyWithStats
<1>2. df[t] = Cardinality(held)
  BY <1>1 DEF CountInv
<1>3. IsFiniteSet(known) /\ Cardinality(known) \in Nat
  BY RoutingAssumption, FS_Subset, FS_CardinalityType DEF RouteTypes
<1>4. IsFiniteSet(held) /\ Cardinality(held) \in Nat
  BY <1>1, HavingIsFinite
<1>5. s \in held
  OBVIOUS
<1>6. Cardinality(held) # 0
  BY <1>4, <1>5, FS_EmptySet
<1>7. held \subseteq known
  OBVIOUS
<1>8. Cardinality(held) <= Cardinality(known) /\ (Cardinality(held) = Cardinality(known) => held = known)
  <2> HIDE DEF held
  <2> QED
    BY <1>3, <1>7, FS_Subset
<1>9. Distinctive(t) <=> Cardinality(known) > Cardinality(held)
  BY <1>2, <1>6 DEF Distinctive
<1> QED
  BY <1>3, <1>4, <1>8, <1>9

LEMMA ScoringTells ==
  ASSUME CountInv, RouteTypes, OnlyWithStats, NEW s \in known
  PROVE  Scoring(s) = Telling(s)
<1>1. stats[s] \subseteq Term
  BY DEF CountInv, RouteTypes
<1>2. ASSUME NEW t \in stats[s] PROVE t \in Scoring(s) <=> t \in Telling(s)
  <2>1. Distinctive(t) <=> {u \in known : t \in stats[u]} # known
    BY <1>1, DistinctiveMeans
  <2> QED
    BY <2>1 DEF Scoring, Telling
<1> QED
  BY <1>2 DEF Scoring, Telling

\* A shard without statistics has the signature without terms.
LEMMA NothingScored == ASSUME NEW s, stats[s] = {} PROVE {} \in Scored(s)
<1>1. Scoring(s) = {}
  BY DEF Scoring
<1>2. Cardinality({}) = 0
  BY FS_EmptySet
<1> QED
  BY <1>1, <1>2, RoutingAssumption DEF Scored, Cut

\* What a cut takes is of what was ranked, and all of it if that is no more.
LEMMA CutTakes ==
  ASSUME NEW ranked, NEW n, NEW best \in Cut(ranked, n)
  PROVE  best \subseteq ranked /\ (Cardinality(ranked) <= n => best = ranked)
  BY DEF Cut

\* The mirror gives shards of which it has a word, and all it is sure of if no
\* limit cuts.
LEMMA MirrorFinds ==
  ASSUME RouteTypes, NEW t, NEW found \in Found(t)
  PROVE  /\ found \subseteq Perhaps(t)
         /\ Cardinality(Perhaps(t)) <= Limit => Surely(t) \subseteq found
<1>1. /\ found \subseteq Perhaps(t) /\ Cardinality(found) <= Limit
      /\ (Cardinality(found) < Limit => Surely(t) \subseteq found)
  BY DEF Found
<1>2. IsFiniteSet(Perhaps(t))
  <2>1. Perhaps(t) \subseteq Shard
    BY DEF Perhaps, RouteTypes
  <2> QED
    BY <2>1, RoutingAssumption, FS_Subset
<1>3. /\ Cardinality(Perhaps(t)) \in Nat /\ Cardinality(found) \in Nat
      /\ Cardinality(found) <= Cardinality(Perhaps(t))
      /\ (Cardinality(found) = Cardinality(Perhaps(t)) => found = Perhaps(t))
  BY <1>1, <1>2, FS_Subset, FS_CardinalityType
<1>4. Surely(t) \subseteq Perhaps(t)
  BY DEF Surely, Perhaps
<1>5. Limit \in Nat
  BY RoutingAssumption
<1>6. ASSUME Cardinality(Perhaps(t)) <= Limit, ~(Cardinality(found) < Limit)
      PROVE  found = Perhaps(t)
  BY <1>1, <1>3, <1>5, <1>6
<1> QED
  BY <1>1, <1>4, <1>6

\* Signatures that follow the statistics send a term where it is held.
LEMMA RouteInvSuffices == RouteInv => RoutedWhereHeld
<1> SUFFICES ASSUME RouteInv, settled, NEW p \in Routers, job[p].at # "list", NEW t \in Term,
                    NEW found \in Found(t), NEW heads \in Densities(p)
             PROVE  /\ \A s \in found \cup Fits(heads, t) :
                         \/ <<s, t>> \in Named
                         \/ \E k \in Telling(s) : k = t \/ <<k, t>> \in Inside \cup Shares
                    /\ Cardinality(Perhaps(t)) <= Limit =>
                         {s \in known : t \in Telling(s) /\ Cardinality(Telling(s)) <= TopN}
                           \subseteq found \cup Fits(heads, t)
  BY DEF RoutedWhereHeld
<1>1. known \subseteq Shard /\ Settled /\ CountInv /\ RouteTypes /\ OnlyWithStats
  BY DEF RouteInv, RouteTypes
<1>2. ASSUME NEW s \in known
      PROVE  /\ signature[s] \subseteq Telling(s)
             /\ Cardinality(Telling(s)) <= TopN => signature[s] = Telling(s)
  <2>1. signature[s] \in Cut(Telling(s), TopN)
    BY <1>1, ScoringTells DEF Settled, Scored
  <2> QED
    BY <2>1, CutTakes
<1>3. DOMAIN heads = known /\ \A s \in known : heads[s] \subseteq signature[s]
  <2>1. DOMAIN heads = known /\ \A s \in known : heads[s] \in Cut(signature[s], HeadN)
    BY DEF Densities, Heads, RouteInv, CachesTrue
  <2> QED
    BY <2>1, CutTakes
<1>4. /\ found \subseteq Perhaps(t)
      /\ Cardinality(Perhaps(t)) <= Limit => Surely(t) \subseteq found
  BY <1>1, MirrorFinds
<1>5. ASSUME NEW s \in found \cup Fits(heads, t)
      PROVE  \/ <<s, t>> \in Named
             \/ \E k \in Telling(s) : k = t \/ <<k, t>> \in Inside \cup Shares
  <2>1. CASE s \in found
    BY <1>2, <1>4, <2>1 DEF Perhaps
  <2>2. CASE s \in Fits(heads, t)
    BY <1>2, <1>3, <2>2 DEF Fits
  <2> QED
    BY <2>1, <2>2
<1>6. {s \in known : t \in Telling(s) /\ Cardinality(Telling(s)) <= TopN} \subseteq Surely(t)
  BY <1>2 DEF Surely
<1> QED
  BY <1>4, <1>5, <1>6

LEMMA RouteStart == Init => RouteInv
<1> SUFFICES ASSUME Init PROVE RouteInv
  OBVIOUS
<1>1. RouteTypes
  BY IdleTypes DEF Init, RouteTypes
<1>2. \A p \in Process : job[p] = Idle
  BY DEF Init
<1>3. OnlyWithStats /\ ScoresFresh /\ SteadyBehind /\ ~settled
  BY <1>2, IdleTypes DEF Init, OnlyWithStats, ScoresFresh, SteadyBehind
<1>4. CachesTrue
  BY RoutingAssumption DEF Init, CachesTrue, IsCurrent
<1> QED
  BY <1>1, <1>3, <1>4, InitCounts DEF RouteInv

\* A signal changes: no refresh covers it, and no cache is current.
LEMMA UnsettledKeeps ==
  ASSUME RouteInv, CountInv', NEW p \in Process, NEW row \in JobRow,
         row = job[p] \/ (row.at = "score" /\ row.shard \in known /\ stats'[row.shard] # {}),
         Unsettle([job EXCEPT ![p] = row]), moved' = Routers,
         known \subseteq known', known' \subseteq Shard, UNCHANGED <<signature, cache>>,
         \A s \in Shard : (s \notin known' => stats'[s] = {}) /\ (stats'[s] = {} => stats[s] = {})
  PROVE  RouteInv'
<1>1. [job EXCEPT ![p] = row] \in [Process -> JobRow]
  BY DEF RouteInv, RouteTypes
<1>2. PICK jobs \in [Process -> JobRow] : jobs = [job EXCEPT ![p] = row]
  BY <1>1
<1>3. ASSUME NEW q \in Process
      PROVE  /\ job'[q] \in JobRow /\ ~job'[q].steady
             /\ job'[q].at = jobs[q].at /\ job'[q].shard = jobs[q].shard
  <2>1. job'[q] = [jobs[q] EXCEPT !.steady = FALSE] /\ jobs[q] \in JobRow
    BY <1>2 DEF Unsettle
  <2> QED
    BY <2>1 DEF JobRow
<1>4. job' \in [Process -> JobRow] /\ settled' = FALSE
  BY <1>3 DEF Unsettle
<1>5. RouteTypes'
  BY <1>4 DEF RouteInv, RouteTypes
<1>6. ASSUME NEW q \in Process, job'[q].at \in {"score", "set"}
      PROVE  job'[q].shard \in Shard /\ stats'[job'[q].shard] # {}
  <2>1. jobs[q] = job[q] \/ (q = p /\ jobs[q] = row)
    BY <1>2 DEF RouteInv, RouteTypes
  <2> QED
    BY <1>3, <1>6, <2>1 DEF RouteInv, OnlyWithStats
<1>7. OnlyWithStats'
  BY <1>6 DEF RouteInv, OnlyWithStats
<1>8. ScoresFresh' /\ SteadyBehind'
  BY <1>3, <1>4 DEF ScoresFresh, SteadyBehind
<1>9. CachesTrue'
  BY DEF CachesTrue, IsCurrent
<1> QED
  BY <1>4, <1>5, <1>7, <1>8, <1>9 DEF RouteInv

LEMMA EnsureKeeps ==
  ASSUME RouteInv, CountInv', NEW p \in Process, NEW s \in Shard, EnsureShard(p, s)
  PROVE  RouteInv'
<1>1. job[p] \in JobRow /\ job = [job EXCEPT ![p] = job[p]]
  BY DEF RouteInv, RouteTypes
<1>2. /\ known \subseteq known' /\ known' \subseteq Shard /\ moved' = Routers
      /\ Unsettle([job EXCEPT ![p] = job[p]]) /\ UNCHANGED <<stats, signature, cache>>
  BY <1>1 DEF EnsureShard, Commit, RouteInv, RouteTypes
<1>3. \A u \in Shard : (u \notin known' => stats'[u] = {}) /\ (stats'[u] = {} => stats[u] = {})
  BY <1>2 DEF RouteInv, OnlyWithStats
<1> QED
  BY <1>1, <1>2, <1>3, UnsettledKeeps

LEMMA RecordKeeps ==
  ASSUME RouteInv, CountInv', NEW p \in Process, NEW s \in Shard, NEW top \in SUBSET Term, top # {},
         RecordTermStats(p, s, top)
  PROVE  RouteInv'
<1>1. PICK row \in JobRow : row.at = "score" /\ row.shard = s /\ Unsettle([job EXCEPT ![p] = row])
  <2>1. [Idle EXCEPT !.at = "score", !.shard = s] \in JobRow
        /\ [Idle EXCEPT !.at = "score", !.shard = s].at = "score"
        /\ [Idle EXCEPT !.at = "score", !.shard = s].shard = s
    BY DEF Idle, JobRow
  <2> QED
    BY <2>1 DEF RecordTermStats
<1>2. /\ stats' = [stats EXCEPT ![s] = top] /\ s \in known /\ known' = known
      /\ moved' = Routers /\ UNCHANGED <<signature, cache>>
  BY DEF RecordTermStats, Commit
<1>3. stats'[s] = top /\ \A u \in Shard : u # s => stats'[u] = stats[u]
  BY <1>2 DEF RouteInv, CountInv
<1>4. \A u \in Shard : (u \notin known' => stats'[u] = {}) /\ (stats'[u] = {} => stats[u] = {})
  BY <1>2, <1>3 DEF RouteInv, OnlyWithStats
<1>5. known \subseteq known' /\ known' \subseteq Shard
  BY <1>2 DEF RouteInv, RouteTypes
<1> QED
  BY <1>1, <1>2, <1>3, <1>4, <1>5, UnsettledKeeps

\* Signals, signatures and caches stay, and no job is about to set anything but
\* what it scored just now.
LEMMA JobsMoveOn ==
  ASSUME RouteInv, CountInv', NEW p \in Process, NEW row \in JobRow, job' = [job EXCEPT ![p] = row],
         UNCHANGED <<known, stats, df, signature>>,
         row.at \in {"score", "set"} => row.shard \in Shard /\ stats[row.shard] # {},
         row.at = "set" => row.terms \in Scored(row.shard),
         row.steady => /\ row.at \in {"refresh", "set"} /\ row.refresh
                       /\ \A s \in Shard \ (row.todo \cup (IF row.at = "set" THEN {row.shard} ELSE {})) :
                            signature[s] \in Scored(s),
         row.steady /\ ~job[p].steady => \A q \in Process : job[q].at # "set",
         settled' \in BOOLEAN, DOMAIN cache' = Process,
         settled' /\ ~settled => job[p].steady /\ Settled,
         CachesTrue'
  PROVE  RouteInv'
<1>1. /\ job' \in [Process -> JobRow] /\ job'[p] = row
      /\ \A q \in Process \ {p} : job'[q] = job[q]
  BY JobStep DEF RouteInv
<1>2. \A s : Scored(s)' = Scored(s)
  BY DEF Scored, Scoring, Distinctive
<1>3. RouteTypes' /\ OnlyWithStats'
  BY <1>1 DEF RouteInv, RouteTypes, OnlyWithStats
<1>4. ScoresFresh'
  <2> SUFFICES ASSUME settled' \/ (\E r \in Process : job'[r].steady),
                      NEW q \in Process, job'[q].at = "set"
               PROVE  job'[q].terms \in Scored(job'[q].shard)
    BY <1>2 DEF ScoresFresh
  <2>1. CASE q = p
    BY <1>1, <2>1
  <2>2. CASE q # p
    <3>1. job'[q] = job[q]
      BY <1>1, <2>2
    <3>2. settled \/ \E r \in Process : job[r].steady
      BY <1>1, <3>1
    <3> QED
      BY <3>1, <3>2 DEF RouteInv, ScoresFresh
  <2> QED
    BY <2>1, <2>2
<1>5. (settled => Settled)'
  BY <1>2 DEF RouteInv, Settled
<1>6. SteadyBehind'
  <2> SUFFICES ASSUME NEW q \in Process, job'[q].steady
               PROVE  /\ job'[q].at \in {"refresh", "set"} /\ job'[q].refresh
                      /\ \A s \in Shard \ Before(q)' : signature[s] \in Scored(s)
    BY <1>2 DEF SteadyBehind
  <2>1. CASE q = p
    BY <1>1, <2>1 DEF Before
  <2>2. CASE q # p
    <3>1. job'[q] = job[q] /\ Before(q)' = Before(q)
      BY <1>1, <2>2 DEF Before
    <3> QED
      BY <3>1 DEF RouteInv, SteadyBehind
  <2> QED
    BY <2>1, <2>2
<1> QED
  BY <1>3, <1>4, <1>5, <1>6 DEF RouteInv

\* Caches stay current, or not.
LEMMA CachesStay ==
  ASSUME RouteInv, NEW p \in Process, NEW row \in JobRow, job' = [job EXCEPT ![p] = row],
         UNCHANGED <<known, signature, cache, moved>>, row.at = "list" <=> job[p].at = "list"
  PROVE  CachesTrue'
<1>1. \A q \in Process : job'[q].at = "list" <=> job[q].at = "list"
  BY JobStep DEF RouteInv
<1> QED
  BY <1>1, RoutingAssumption DEF RouteInv, CachesTrue, IsCurrent

LEMMA ScoreKeeps == ASSUME RouteInv, CountInv', NEW p \in Process, Score(p) PROVE RouteInv'
<1>1. /\ job[p] \in JobRow /\ job[p].at = "score" /\ job[p].shard \in Shard /\ stats[job[p].shard] # {}
      /\ ~job[p].steady
  BY DEF Score, RouteInv, RouteTypes, OnlyWithStats, SteadyBehind
<1>2. PICK best \in Scored(job[p].shard) :
        job' = [job EXCEPT ![p].at = "set", ![p].terms = best]
  BY DEF Score
<1>9. best \subseteq Term
  BY <1>1, CutTakes DEF Scored, Scoring, RouteInv, CountInv
<1>3. PICK row \in JobRow : /\ job' = [job EXCEPT ![p] = row]
                            /\ row.at = "set" /\ row.shard = job[p].shard /\ ~row.steady
                            /\ row.terms = best
  <2>1. PICK old \in JobRow : old = job[p]
    BY <1>1
  <2>2. /\ [old EXCEPT !.at = "set", !.terms = best] \in JobRow
        /\ [old EXCEPT !.at = "set", !.terms = best].shard = old.shard
        /\ [old EXCEPT !.at = "set", !.terms = best].steady = old.steady
        /\ [old EXCEPT !.at = "set", !.terms = best].terms = best
        /\ [old EXCEPT !.at = "set", !.terms = best].at = "set"
    BY <1>9 DEF JobRow
  <2>3. job' = [job EXCEPT ![p] = [old EXCEPT !.at = "set", !.terms = best]]
    BY <1>2, <2>1
  <2> QED
    BY <1>1, <2>1, <2>2, <2>3
<1>4. UNCHANGED <<known, stats, df, signature, cache, moved, settled>>
  BY DEF Score
<1>5. CachesTrue'
  BY <1>1, <1>3, <1>4, CachesStay
<1>6. settled' \in BOOLEAN /\ DOMAIN cache' = Process
  BY <1>4 DEF RouteInv, RouteTypes
<1> QED
  BY <1>1, <1>3, <1>4, <1>5, <1>6, JobsMoveOn

LEMMA RefreshKeeps ==
  ASSUME RouteInv, CountInv', NEW p \in Process, RefreshAllRoutingTerms(p)
  PROVE  RouteInv'
<1>1. PICK row \in JobRow : /\ job' = [job EXCEPT ![p] = row]
                            /\ row.at = "refresh" /\ row.todo = known /\ row.refresh
                            /\ row.steady <=> \A q \in Process : job[q].at # "set"
  <2>1. [Idle EXCEPT !.at = "refresh", !.todo = known, !.refresh = TRUE,
                     !.steady = \A q \in Process : job[q].at # "set"] \in JobRow
    BY DEF Idle, JobRow, RouteInv, RouteTypes
  <2> QED
    BY <2>1 DEF RefreshAllRoutingTerms, Idle
<1>2. UNCHANGED <<known, stats, df, signature, cache, moved, settled>> /\ job[p].at = "idle"
  BY DEF RefreshAllRoutingTerms, IsIdle
<1>3. CachesTrue'
  BY <1>1, <1>2, CachesStay
<1>4. ASSUME NEW s \in Shard \ known PROVE signature[s] \in Scored(s)
  <2>1. stats[s] = {} /\ signature[s] = {}
    BY DEF RouteInv, OnlyWithStats
  <2> QED
    BY <2>1, NothingScored
<1>5. settled' \in BOOLEAN /\ DOMAIN cache' = Process
  BY <1>2 DEF RouteInv, RouteTypes
<1> QED
  BY <1>1, <1>2, <1>3, <1>4, <1>5, JobsMoveOn

LEMMA ScoreNextKeeps ==
  ASSUME RouteInv, CountInv', NEW p \in Process, NEW s \in Shard, ScoreNext(p, s)
  PROVE  RouteInv'
<1>1. job[p] \in JobRow /\ job[p].at = "refresh" /\ s \in job[p].todo /\ stats[s] # {}
  BY DEF ScoreNext, RouteInv, RouteTypes
<1>2. PICK best \in Scored(s) :
        job' = [job EXCEPT ![p].at = "set", ![p].shard = s, ![p].terms = best,
                           ![p].todo = @ \ {s}]
  BY DEF ScoreNext
<1>9. best \subseteq Term
  BY <1>1, CutTakes DEF Scored, Scoring, RouteInv, CountInv
<1>3. PICK row \in JobRow : /\ job' = [job EXCEPT ![p] = row]
                            /\ row.at = "set" /\ row.shard = s /\ row.terms = best
                            /\ row.todo = job[p].todo \ {s}
                            /\ row.steady = job[p].steady /\ row.refresh = job[p].refresh
  <2>1. PICK old \in JobRow : old = job[p]
    BY <1>1
  <2> DEFINE new == [old EXCEPT !.at = "set", !.shard = s, !.terms = best,
                               !.todo = old.todo \ {s}]
  <2>2. new \in JobRow /\ new.at = "set" /\ new.shard = s /\ new.terms = best
        /\ new.todo = old.todo \ {s} /\ new.steady = old.steady /\ new.refresh = old.refresh
    BY <1>9 DEF JobRow
  <2>3. job' = [job EXCEPT ![p] = new]
    <3>1. job' = [job EXCEPT ![p] = [job[p] EXCEPT !.at = "set", !.shard = s, !.terms = best,
                                                   !.todo = job[p].todo \ {s}]]
      BY <1>1, <1>2
    <3> QED
      BY <2>1, <3>1
  <2> HIDE DEF new
  <2> QED
    BY <2>1, <2>2, <2>3
<1>4. UNCHANGED <<known, stats, df, signature, cache, moved, settled>>
  BY DEF ScoreNext
<1>5. CachesTrue'
  BY <1>1, <1>3, <1>4, CachesStay
<1>6. settled' \in BOOLEAN /\ DOMAIN cache' = Process
  BY <1>4 DEF RouteInv, RouteTypes
<1>7. row.steady => row.refresh /\ \A u \in Shard \ (row.todo \cup {s}) : signature[u] \in Scored(u)
  <2>1. Before(p) = row.todo \cup {s}
    BY <1>1, <1>3 DEF Before
  <2> QED
    BY <1>3, <2>1 DEF RouteInv, SteadyBehind
<1> QED
  BY <1>1, <1>3, <1>4, <1>5, <1>6, <1>7, JobsMoveOn

LEMMA EndKeeps == ASSUME RouteInv, CountInv', NEW p \in Process, EndRefresh(p) PROVE RouteInv'
<1>1. /\ job' = [job EXCEPT ![p] = Idle] /\ settled' = (settled \/ job[p].steady)
      /\ UNCHANGED <<known, stats, df, signature, cache, moved>> /\ job[p].at = "refresh"
      /\ \A s \in job[p].todo : stats[s] = {}
  BY DEF EndRefresh
<1>2. CachesTrue'
  BY <1>1, IdleTypes, CachesStay
<1>3. job[p].steady => Settled
  <2> SUFFICES ASSUME job[p].steady, NEW s \in Shard PROVE signature[s] \in Scored(s)
    BY DEF Settled
  <2>1. Before(p) = job[p].todo
    BY <1>1 DEF Before
  <2>2. CASE s \in job[p].todo
    <3>1. stats[s] = {} /\ signature[s] = {}
      BY <1>1, <2>2 DEF RouteInv, OnlyWithStats
    <3> QED
      BY <3>1, NothingScored
  <2>3. CASE s \notin job[p].todo
    BY <2>1, <2>3 DEF RouteInv, SteadyBehind
  <2> QED
    BY <2>2, <2>3
<1>4. settled' \in BOOLEAN /\ DOMAIN cache' = Process /\ (settled' /\ ~settled => job[p].steady)
  BY <1>1 DEF RouteInv, RouteTypes, JobRow
<1> QED
  BY <1>1, <1>2, <1>3, <1>4, IdleTypes, JobsMoveOn

LEMMA DiesKeeps == ASSUME RouteInv, CountInv', NEW p \in Process, Dies(p) PROVE RouteInv'
<1>1. /\ job' = [job EXCEPT ![p] = Idle] /\ cache' = [cache EXCEPT ![p] = NoCache] /\ moved' = moved \ {p}
      /\ UNCHANGED <<known, stats, df, signature, settled>>
  BY DEF Dies
<1>2. CachesTrue'
  <2>1. cache'[p] = NoCache /\ \A q \in Process \ {p} : cache'[q] = cache[q] /\ job'[q] = job[q]
    BY <1>1, IdleTypes, JobStep DEF RouteInv, RouteTypes
  <2> QED
    BY <1>1, <2>1, RoutingAssumption DEF RouteInv, CachesTrue, IsCurrent
<1>3. settled' \in BOOLEAN /\ DOMAIN cache' = Process
  BY <1>1 DEF RouteInv, RouteTypes
<1>4. DOMAIN cache' = Process
  BY <1>1 DEF RouteInv, RouteTypes
<1> QED
  BY <1>1, <1>2, <1>3, <1>4, IdleTypes, JobsMoveOn

LEMMA SetKeeps == ASSUME RouteInv, CountInv', NEW p \in Process, SetRoutingTerms(p) PROVE RouteInv'
<1> DEFINE s == job[p].shard
<1>1. /\ job[p] \in JobRow /\ job[p].at = "set" /\ s \in Shard /\ stats[s] # {}
      /\ signature' = [signature EXCEPT ![s] = job[p].terms]
      /\ moved' = Routers /\ UNCHANGED <<known, stats, df, cache, settled>>
  BY DEF SetRoutingTerms, Commit, RouteInv, RouteTypes, OnlyWithStats
<1>2. PICK row \in JobRow :
        /\ job' = [job EXCEPT ![p] = row]
        /\ row.at \in {"idle", "refresh"}
        /\ row.steady => job[p].steady /\ row.at = "refresh" /\ row.refresh /\ row.todo = job[p].todo
  <2>1. PICK old \in JobRow : old = job[p]
    BY <1>1
  <2> DEFINE new == [old EXCEPT !.at = "refresh", !.shard = None, !.terms = {}]
  <2>2. new \in JobRow /\ new.at = "refresh" /\ new.steady = old.steady /\ new.refresh = old.refresh
        /\ new.todo = old.todo
    BY DEF JobRow
  <2>3. job' = [job EXCEPT ![p] = IF old.refresh THEN new ELSE Idle]
    <3>1. job' = [job EXCEPT ![p] = IF job[p].refresh
                                    THEN [job[p] EXCEPT !.at = "refresh", !.shard = None, !.terms = {}]
                                    ELSE Idle]
      BY DEF SetRoutingTerms
    <3> QED
      BY <2>1, <3>1
  <2> HIDE DEF new
  <2>4. CASE old.refresh
    BY <2>1, <2>2, <2>3, <2>4
  <2>5. CASE ~old.refresh
    BY <2>3, <2>5, IdleTypes
  <2> QED
    BY <2>4, <2>5
<1>3. /\ signature' \in [Shard -> SUBSET Term] /\ signature'[s] = job[p].terms
      /\ \A u \in Shard : u # s => signature'[u] = signature[u]
  BY <1>1 DEF RouteInv, RouteTypes, JobRow
<1>4. /\ job' \in [Process -> JobRow] /\ job'[p] = row
      /\ \A q \in Process \ {p} : job'[q] = job[q]
  BY <1>2, JobStep DEF RouteInv
<1>5. \A u : Scored(u)' = Scored(u)
  BY <1>1 DEF Scored, Scoring, Distinctive
<1>6. RouteTypes'
  BY <1>1, <1>3, <1>4 DEF RouteInv, RouteTypes
<1>7. OnlyWithStats'
  <2>1. \A u \in Shard : stats[u] = {} => signature'[u] = {}
    BY <1>1, <1>3 DEF RouteInv, OnlyWithStats
  <2> QED
    BY <1>1, <1>2, <1>4, <2>1 DEF RouteInv, OnlyWithStats
<1>8. ScoresFresh'
  BY <1>1, <1>2, <1>4, <1>5 DEF RouteInv, ScoresFresh
<1>9. settled \/ (\E q \in Process : job[q].steady) => signature'[s] \in Scored(s)
  BY <1>1, <1>3 DEF RouteInv, ScoresFresh
<1>10. (settled => Settled)'
  BY <1>1, <1>3, <1>5, <1>9 DEF RouteInv, Settled
<1>11. SteadyBehind'
  <2> SUFFICES ASSUME NEW q \in Process, job'[q].steady
               PROVE  /\ job'[q].at \in {"refresh", "set"} /\ job'[q].refresh
                      /\ \A u \in Shard \ Before(q)' : signature'[u] \in Scored(u)
    BY <1>5 DEF SteadyBehind
  <2>1. job[q].steady /\ job'[q].refresh /\ job'[q].at \in {"refresh", "set"}
    BY <1>2, <1>4 DEF RouteInv, SteadyBehind
  <2>2. Before(q) \subseteq Before(q)' \cup {s}
    BY <1>2, <1>4, <2>1 DEF Before
  <2>3. \A u \in Shard \ Before(q) : signature[u] \in Scored(u)
    BY <2>1 DEF RouteInv, SteadyBehind
  <2> QED
    BY <1>3, <1>9, <2>1, <2>2, <2>3
<1>12. CachesTrue'
  BY <1>1 DEF CachesTrue, IsCurrent
<1> QED
  BY <1>6, <1>7, <1>8, <1>10, <1>11, <1>12 DEF RouteInv

\* The two steps of a router that reads.
LEMMA ReadKeeps ==
  ASSUME RouteInv, CountInv', NEW p \in Process, ReadToken(p) \/ ListShards(p)
  PROVE  RouteInv'
<1>1. job[p] \in JobRow /\ job[p].at \in {"idle", "list"} /\ ~job[p].steady
  BY DEF ReadToken, ListShards, IsIdle, RouteInv, RouteTypes, SteadyBehind
<1>2. UNCHANGED <<known, stats, df, signature, settled>>
  BY DEF ReadToken, ListShards
<1>3. PICK row \in JobRow : /\ job' = [job EXCEPT ![p] = row] /\ ~row.steady
                            /\ row.at = IF ReadToken(p) THEN "list" ELSE "idle"
  <2>1. PICK old \in JobRow : old = job[p]
    BY <1>1
  <2>2. [old EXCEPT !.at = "list"] \in JobRow /\ [old EXCEPT !.at = "list"].at = "list"
        /\ [old EXCEPT !.at = "list"].steady = old.steady
    BY DEF JobRow
  <2>3. CASE ReadToken(p)
    <3>1. job' = [job EXCEPT ![p] = [old EXCEPT !.at = "list"]]
      BY <2>1, <2>3 DEF ReadToken
    <3> QED
      BY <1>1, <2>1, <2>2, <2>3, <3>1
  <2>4. CASE ListShards(p) /\ ~ReadToken(p)
    BY <2>4, IdleTypes DEF ListShards
  <2> QED
    BY <2>3, <2>4
<1>4. /\ job'[p] = row /\ \A q \in Process \ {p} : job'[q] = job[q]
  BY <1>3, JobStep DEF RouteInv
<1>5. DOMAIN cache' = Process /\ settled' \in BOOLEAN
  BY <1>2 DEF ReadToken, ListShards, RouteInv, RouteTypes
<1>6. CachesTrue'
  <2> SUFFICES ASSUME NEW q \in Routers, job'[q].at # "list", IsCurrent(q)'
               PROVE  /\ DOMAIN cache'[q] = known
                      /\ \A s \in known : cache'[q][s] \in Cut(signature[s], HeadN)
    BY <1>2 DEF CachesTrue
  <2>1. CASE ReadToken(p)
    <3>1. q # p /\ q \in Process
      BY <1>3, <1>4, <2>1, RoutingAssumption
    <3>2. cache' = cache /\ moved' = moved \ {p}
      BY <2>1 DEF ReadToken
    <3> QED
      BY <1>4, <3>1, <3>2 DEF RouteInv, CachesTrue, IsCurrent
  <2>2. CASE ListShards(p)
    <3>1. PICK heads \in Heads : cache' = [cache EXCEPT ![p] = heads] /\ moved' = moved
      BY <2>2 DEF ListShards
    <3>2. CASE q = p
      BY <3>1, <3>2 DEF Heads, RouteInv, RouteTypes
    <3>3. CASE q # p
      <4>1. q \in Process /\ cache'[q] = cache[q]
        BY <3>1, <3>3, RoutingAssumption DEF RouteInv, RouteTypes
      <4> QED
        BY <1>4, <3>1, <3>3, <4>1 DEF RouteInv, CachesTrue, IsCurrent
    <3> QED
      BY <3>2, <3>3
  <2> QED
    BY <2>1, <2>2
<1> QED
  BY <1>1, <1>2, <1>3, <1>5, <1>6, JobsMoveOn

LEMMA RouteStep == RouteInv /\ [Next]_vars => RouteInv'
<1> SUFFICES ASSUME RouteInv, [Next]_vars PROVE RouteInv'
  OBVIOUS
<1>0. CountInv'
  BY NextCounts DEF RouteInv
<1>1. ASSUME NEW p \in Process, NEW s \in Shard, EnsureShard(p, s) PROVE RouteInv'
  BY <1>0, <1>1, EnsureKeeps
<1>2. ASSUME NEW p \in Process, NEW s \in Shard, NEW top \in SUBSET Term, top # {},
             RecordTermStats(p, s, top)
      PROVE  RouteInv'
  BY <1>0, <1>2, RecordKeeps
<1>3. ASSUME NEW p \in Process, NEW s \in Shard, ScoreNext(p, s) PROVE RouteInv'
  BY <1>0, <1>3, ScoreNextKeeps
<1>4. ASSUME NEW p \in Process,
             \/ Score(p) \/ SetRoutingTerms(p) \/ RefreshAllRoutingTerms(p) \/ EndRefresh(p)
             \/ ReadToken(p) \/ ListShards(p) \/ Dies(p)
      PROVE  RouteInv'
  BY <1>0, <1>4, ScoreKeeps, SetKeeps, RefreshKeeps, EndKeeps, ReadKeeps, DiesKeeps
<1>5. CASE UNCHANGED vars
  <2>1. Settled' <=> Settled
    BY <1>5 DEF vars, Settled, Scored, Scoring, Distinctive
  <2>2. RouteTypes' /\ OnlyWithStats' /\ CachesTrue'
    BY <1>5 DEF vars, RouteInv, RouteTypes, OnlyWithStats, CachesTrue, IsCurrent
  <2>3. ScoresFresh' /\ SteadyBehind'
    BY <1>5 DEF vars, RouteInv, ScoresFresh, SteadyBehind, Before, Scored, Scoring, Distinctive
  <2> QED
    BY <1>0, <1>5, <2>1, <2>2, <2>3 DEF vars, RouteInv
<1> QED
  BY <1>1, <1>2, <1>3, <1>4, <1>5 DEF Next

\* After a refresh that no signal changed under, the candidates of a term are
\* shards whose last recording or name explains it, at every router that has
\* finished reading, and those that recorded it as a telling term are among
\* them, unless a cut takes them away: whatever is inside or shares a word with
\* what, for any number of processes that record, score, set, cache, commit and die
\* between each other's transactions (refreshAllRoutingTerms and
\* setRoutingTerms in catalog.ts, routingState in router.ts).
THEOREM TermsGoWhereHeld == Spec => []RoutedWhereHeld
  BY RouteStart, RouteStep, RouteInvSuffices, PTL DEF Spec

-----------------------------------------------------------------------------
(* Stability of replicas *)

IsVector(vector) == \A client \in DOMAIN vector : vector[client] \in Nat

LEMMA MinIsLeast ==
  ASSUME NEW S \in SUBSET Nat, S # {}
  PROVE  Min(S) \in S /\ \A n \in S : Min(S) <= n
<1>1. \E m \in S : \A n \in S : ~(<<n, m>> \in OpToRel(<, Nat))
  BY NatLessThanWellFounded, WFMin
<1>2. \E m \in S : \A n \in S : m =< n
  <2>1. PICK m \in S : \A n \in S : ~(<<n, m>> \in OpToRel(<, Nat))
    BY <1>1
  <2>2. \A n \in S : ~(n < m)
    BY <2>1 DEF OpToRel
  <2> QED
    BY <2>2
<1> QED
  BY <1>2 DEF Min

LEMMA ClockIsNat == ASSUME NEW vector, IsVector(vector), NEW client
                    PROVE  Clock(vector, client) \in Nat
  BY DEF IsVector, Clock

\* An atom is collapsed if and only if every registered replica has
\* acknowledged all of its history, whichever replica comes first and whichever
\* clients it has never heard of (StabilityTracker.stableFrontier, isStable).
THEOREM CollapsedIsAcknowledged ==
  ASSUME NEW V, \A v \in V : IsVector(v),
         NEW vectors \in Seq(V), NEW vector \in V
  PROVE  Collapses(vector, vectors) <=> Acknowledged(vector, vectors)
<1> SUFFICES ASSUME vectors # << >>
             PROVE  Collapses(vector, vectors) <=> Acknowledged(vector, vectors)
  BY DEF Collapses, Acknowledged
<1> DEFINE Clocks(c) == {Clock(vectors[i], c) : i \in DOMAIN vectors}
<1>0. /\ 1 \in DOMAIN vectors
      /\ IsVector(vector) /\ \A i \in DOMAIN vectors : IsVector(vectors[i])
  OBVIOUS
<1>1. ASSUME NEW c
      PROVE  /\ Clock(StableFrontier(vectors), c) \in Clocks(c)
             /\ \A i \in DOMAIN vectors : Clock(StableFrontier(vectors), c) <= Clock(vectors[i], c)
  <2>1. Clocks(c) \in SUBSET Nat /\ Clocks(c) # {}
    BY <1>0, ClockIsNat
  <2>2. CASE c \in DOMAIN vectors[1]
    <3>1. Clock(StableFrontier(vectors), c) = Min(Clocks(c))
      BY <2>2 DEF StableFrontier, Clock
    <3>2. Min(Clocks(c)) \in Clocks(c) /\ \A n \in Clocks(c) : Min(Clocks(c)) <= n
      BY <2>1, MinIsLeast
    <3> QED
      BY <3>1, <3>2
  <2>3. CASE c \notin DOMAIN vectors[1]
    <3>1. Clock(StableFrontier(vectors), c) = 0 /\ Clock(vectors[1], c) = 0
      BY <2>3 DEF StableFrontier, Clock
    <3> QED
      BY <3>1, <2>1, <1>0
  <2> QED
    BY <2>2, <2>3
<1>2. ASSUME NEW c \in DOMAIN vector
      PROVE  Clock(StableFrontier(vectors), c) >= vector[c]
               <=> \A i \in DOMAIN vectors : vector[c] <= Clock(vectors[i], c)
  <2>1. vector[c] \in Nat /\ \A i \in DOMAIN vectors : Clock(vectors[i], c) \in Nat
    BY <1>0, ClockIsNat DEF IsVector
  <2>2. PICK k \in DOMAIN vectors : Clock(StableFrontier(vectors), c) = Clock(vectors[k], c)
    BY <1>1
  <2> QED
    BY <1>1, <2>1, <2>2
<1> QED
  BY <1>2 DEF Collapses, IsStable, Acknowledged
==============================================================================
