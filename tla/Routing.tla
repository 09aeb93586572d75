------------------------------- MODULE Routing -------------------------------
(****************************************************************************)
(* The routing signals of the catalog (federation/catalog.ts): what each    *)
(* shard's ingest recorded, the count of shards per term that follows it,   *)
(* the signatures derived from both, and the router of each process, which  *)
(* keeps the signatures it read (federation/router.ts).  Processes share    *)
(* catalog.db; what happens between two transactions of one of them may be  *)
(* a transaction of another, or its end.                                    *)
(*                                                                          *)
(* How often a term occurs only ranks it; whether a term is distinctive     *)
(* does not depend on it.  So statistics and signatures are sets, and what  *)
(* a cut leaves of a set is any of its subsets of that size: which terms    *)
(* are the best is data.                                                    *)
(****************************************************************************)
EXTENDS Integers, FiniteSets

CONSTANTS
  Process,
  Routers,      \* the processes that search
  Shard,
  Term,
  MaxTerms,     \* maxTerms: 500 terms in the statistics
  TopN,         \* topN: 200 terms in a signature
  HeadN,        \* 32 terms of it in the densities
  Limit,        \* 64 shards from the mirror
  Inside,       \* <<k, t>>: k is written inside t
  Shares,       \* <<k, t>>: k and t have a word of the mirror in common
  Named,        \* <<s, t>>: the key or the display name of s has a word of t
  None

ASSUME RoutingAssumption ==
  /\ IsFiniteSet(Shard)
  /\ Routers \subseteq Process
  /\ {MaxTerms, TopN, HeadN, Limit} \subseteq Nat
  /\ None \notin Shard

VARIABLES
  known,        \* the shards table
  stats,        \* shard_term_stats; no terms: no row
  df,           \* term_df
  signature,    \* shards.routing_terms and its mirror shard_terms
  job,          \* what each process is in the middle of
  cache,        \* ShardRouter.cache: the heads of the signatures read, or NoCache
  moved,        \* processes whose cache token is another than the one they read last
  settled       \* history: a refresh ended, and no signal has changed since it began

vars == <<known, stats, df, signature, job, cache, moved, settled>>

NoCache == [s \in {} |-> {}]
Idle == [at |-> "idle", shard |-> None, terms |-> {}, todo |-> {}, refresh |-> FALSE,
         steady |-> FALSE]

Init ==
  /\ known = {}
  /\ stats = [s \in Shard |-> {}]
  /\ df = [t \in Term |-> 0]
  /\ signature = [s \in Shard |-> {}]
  /\ job = [p \in Process |-> Idle]
  /\ cache = [p \in Process |-> NoCache]
  /\ moved = {}
  /\ settled = FALSE

IsIdle(p) == job[p].at = "idle"

\* Only the others see a commit in SQLite's version of the file.
CommitUncounted(p) == moved' = moved \cup (Routers \ {p})

\* mutate and data_version: every process sees a commit by its token, its own
\* by the count of its mutations, the others' by SQLite's version of the file.
Commit(p) == moved' = Routers

\* No refresh under way covers a signal that changes now.
Unsettle(jobs) ==
  /\ settled' = FALSE
  /\ job' = [p \in Process |-> [jobs[p] EXCEPT !.steady = FALSE]]

EnsureShard(p, s) ==
  /\ IsIdle(p) /\ s \notin known
  /\ known' = known \cup {s}
  /\ Commit(p)
  /\ Unsettle(job)
  /\ UNCHANGED <<stats, df, signature, cache>>

EnteredAgain(old, new) == new

\* dfUp for the terms that enter a shard's statistics, dfDown for those that leave.
Entered(old, new) == new \ old

Left(old, new) == old \ new

Counted(old, new) ==
  [t \in Term |->
    IF t \in Entered(old, new) THEN df[t] + 1
    ELSE IF t \in Left(old, new) /\ df[t] > 0 THEN df[t] - 1
    ELSE df[t]]

\* The first transaction of recomputeRoutingTerms behind an ingest or a crawl.
RecordTermStats(p, s, top) ==
  /\ IsIdle(p) /\ s \in known
  /\ stats' = [stats EXCEPT ![s] = top]
  /\ df' = Counted(stats[s], top)
  /\ Commit(p)
  /\ Unsettle([job EXCEPT ![p] = [Idle EXCEPT !.at = "score", !.shard = s]])
  /\ UNCHANGED <<known, signature, cache>>

\* slice(0, n) of what is ranked.
Cut(ranked, n) ==
  {best \in SUBSET ranked :
     IF Cardinality(ranked) <= n THEN best = ranked ELSE Cardinality(best) = n}

\* tf * ln((total + 1) / (1 + df)) > 0, a df of 0 taken for 1.
Distinctive(t) == Cardinality(known) > (IF df[t] = 0 THEN 1 ELSE df[t])

Scoring(s) == {t \in stats[s] : Distinctive(t)}

CutBefore(s) == {best \cap Scoring(s) : best \in Cut(stats[s], TopN)}

\* The signatures its statistics may give a shard.
Scored(s) == Cut(Scoring(s), TopN)

\* What it reads of statistics, counts and shards before the second one.
Score(p) ==
  /\ job[p].at = "score"
  /\ \E best \in Scored(job[p].shard) : job' = [job EXCEPT ![p].at = "set", ![p].terms = best]
  /\ UNCHANGED <<known, stats, df, signature, cache, moved, settled>>

SetRoutingTerms(p) ==
  /\ job[p].at = "set"
  /\ signature' = [signature EXCEPT ![job[p].shard] = job[p].terms]
  /\ Commit(p)
  /\ job' = [job EXCEPT ![p] =
       IF @.refresh THEN [@ EXCEPT !.at = "refresh", !.shard = None, !.terms = {}] ELSE Idle]
  /\ UNCHANGED <<known, stats, df, cache, settled>>

\* drainQueue, when a task was completed.  A signature that is scored but not
\* yet set is older than this refresh and may be set behind it.
RefreshAllRoutingTerms(p) ==
  /\ IsIdle(p) /\ known # {}
  /\ job' = [job EXCEPT ![p] =
       [Idle EXCEPT !.at = "refresh", !.todo = known, !.refresh = TRUE,
                    !.steady = \A q \in Process : job[q].at # "set"]]
  /\ UNCHANGED <<known, stats, df, signature, cache, moved, settled>>

ScoreNext(p, s) ==
  /\ job[p].at = "refresh" /\ s \in job[p].todo /\ stats[s] # {}
  /\ \E best \in Scored(s) :
       job' = [job EXCEPT ![p].at = "set", ![p].shard = s, ![p].terms = best,
                          ![p].todo = @ \ {s}]
  /\ UNCHANGED <<known, stats, df, signature, cache, moved, settled>>

EndRefresh(p) ==
  /\ job[p].at = "refresh" /\ \A s \in job[p].todo : stats[s] = {}
  /\ job' = [job EXCEPT ![p] = Idle]
  /\ settled' = (settled \/ job[p].steady)
  /\ UNCHANGED <<known, stats, df, signature, cache, moved>>

\* routingState compares the token it reads with the cache's, and then lists
\* the shards.
IsCurrent(p) == cache[p] # NoCache /\ p \notin moved

ReadToken(p) ==
  /\ p \in Routers /\ IsIdle(p) /\ ~IsCurrent(p)
  /\ moved' = moved \ {p}
  /\ job' = [job EXCEPT ![p].at = "list"]
  /\ UNCHANGED <<known, stats, df, signature, cache, settled>>

\* What the densities are taken of: the head of each signature.
Heads ==
  LET Head(s) == Cut(signature[s], HeadN)
  IN  {heads \in [known -> UNION {Head(s) : s \in known}] : \A s \in known : heads[s] \in Head(s)}

ListShards(p) ==
  /\ job[p].at = "list"
  /\ \E heads \in Heads : cache' = [cache EXCEPT ![p] = heads]
  /\ job' = [job EXCEPT ![p] = Idle]
  /\ UNCHANGED <<known, stats, df, signature, moved, settled>>

\* The process ends and is started again.
Dies(p) ==
  /\ job' = [job EXCEPT ![p] = Idle]
  /\ cache' = [cache EXCEPT ![p] = NoCache]
  /\ moved' = moved \ {p}
  /\ UNCHANGED <<known, stats, df, signature, settled>>

Next ==
  \E p \in Process :
    \/ \E s \in Shard : EnsureShard(p, s)
    \/ \E s \in Shard, top \in SUBSET Term :
         top # {} /\ Cardinality(top) <= MaxTerms /\ RecordTermStats(p, s, top)
    \/ Score(p)
    \/ SetRoutingTerms(p)
    \/ RefreshAllRoutingTerms(p)
    \/ \E s \in Shard : ScoreNext(p, s)
    \/ EndRefresh(p)
    \/ ReadToken(p)
    \/ ListShards(p)
    \/ Dies(p)

Spec == Init /\ [][Next]_vars

-----------------------------------------------------------------------------
\* df is kept by increments and decrements, in transactions of several
\* processes, and no pass ever counts again: it must be, at any time, the
\* number of shards whose statistics have the term (recordTermStats; "#shards
\* whose stats contain the term").
DfIsRecount == \A t \in Term : df[t] = Cardinality({s \in Shard : t \in stats[s]})

\* The lanes of scoreCandidates for a term.  The densities come from the cache:
\* a keyword counts wherever it occurs in the text.
Densities(p) == IF IsCurrent(p) THEN {cache[p]} ELSE Heads

Fits(heads, t) == {s \in DOMAIN heads : \E k \in heads[s] : k = t \/ <<k, t>> \in Inside}

\* The mirror is asked now.  It has the words of the signature, the key and the
\* name of a shard, and finds a term of several words where they stand side by
\* side: terms that share a word with it, or a name, may let it be found.
Surely(t) == {s \in known : t \in signature[s]}

Perhaps(t) ==
  {s \in known : <<s, t>> \in Named \/ \E k \in signature[s] : k = t \/ <<k, t>> \in Shares}

Found(t) ==
  {best \in SUBSET Perhaps(t) :
     Cardinality(best) <= Limit /\ (Cardinality(best) < Limit => Surely(t) \subseteq best)}

\* The terms of a shard that tell it from some other.
Telling(s) == {t \in stats[s] : \E u \in known : t \notin stats[u]}

\* After a refresh ("this pass settles all signatures against the final
\* rollup"), until a signal changes, whatever the order in which the processes
\* recorded, scored, set and cached: the candidates every router has for a term
\* are shards with a word of it in their name, or with a telling term among
\* those they recorded last that is the term, is inside it or shares a word
\* with it, so that nothing recorded earlier nominates a shard.  And every shard
\* that recorded it as a telling term is among them, unless a cut, of the
\* signature or of the matches, takes it away (refreshAllRoutingTerms,
\* setRoutingTerms, routingState, scoreCandidates).
RoutedWhereHeld ==
  settled =>
    \A p \in {q \in Routers : job[q].at # "list"}, t \in Term :
      \A found \in Found(t), heads \in Densities(p) :
        LET candidates == found \cup Fits(heads, t)
        IN  /\ \A s \in candidates :
                 <<s, t>> \in Named \/ \E k \in Telling(s) : k = t \/ <<k, t>> \in Inside \cup Shares
            /\ Cardinality(Perhaps(t)) <= Limit =>
                 {s \in known : t \in Telling(s) /\ Cardinality(Telling(s)) <= TopN} \subseteq candidates
==============================================================================
