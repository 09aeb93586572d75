---------------------------- MODULE ShardPoolProofs ----------------------------
(****************************************************************************)
(* The safety properties of the pool.  BookInv ties every live engine to    *)
(* one place in the books; UseInv counts the references, since what is in   *)
(* use is kept by nothing but its count.                                    *)
(****************************************************************************)
EXTENDS ShardPool, FiniteSetTheorems, TLAPS

EntryRow == [engine : DOMAIN engines, refs : Nat]
OpeningRow == [step : {"evicts", "opens"}, engine : DOMAIN engines]

\* What is in the pool is not being opened.
Apart == DOMAIN entries \cap DOMAIN opening = {}

EntriesOpen ==
  \A s \in DOMAIN entries :
    engines[entries[s].engine].state = "open" /\ engines[entries[s].engine].shard = s

OpenTracked ==
  \A e \in DOMAIN engines : engines[e].state = "open" => \E s \in DOMAIN entries : entries[s].engine = e

\* An opening waits for a victim to close or for its own engine to open.
OpeningLive ==
  \A s \in DOMAIN opening :
    /\ opening[s].step = "evicts" => engines[opening[s].engine].state = "closing"
    /\ opening[s].step = "opens" => /\ engines[opening[s].engine].state = "opening"
                                    /\ engines[opening[s].engine].shard = s

OpeningTracked ==
  \A e \in DOMAIN engines : engines[e].state = "opening" =>
    \E s \in DOMAIN opening : opening[s].engine = e /\ opening[s].step = "opens"

OpeningsApart == \A s, t \in DOMAIN opening : opening[s].engine = opening[t].engine => s = t

BookInv ==
  /\ TypeOK /\ Apart
  /\ EntriesOpen /\ OpenTracked
  /\ OpeningLive /\ OpeningTracked /\ OpeningsApart

EngineState == {"opening", "open", "closing", "closed"}

\* An engine that changes its state is the same engine otherwise.
LEMMA SetState ==
  ASSUME NEW now \in Seq(EngineRow), NEW e \in DOMAIN now, NEW state \in EngineState,
         NEW after, after = [now EXCEPT ![e].state = state]
  PROVE  /\ after \in Seq(EngineRow) /\ DOMAIN after = DOMAIN now
         /\ after[e].state = state /\ after[e].shard = now[e].shard
         /\ \A f \in DOMAIN now : f # e => after[f] = now[f]
<1>1. PICK row \in EngineRow : row = now[e]
  OBVIOUS
<1>2. PICK new \in EngineRow :
        new = [row EXCEPT !.state = state] /\ new.state = state /\ new.shard = row.shard
  <2>1. [row EXCEPT !.state = state] \in EngineRow
    BY DEF EngineRow, EngineState
  <2>2. [row EXCEPT !.state = state].state = state /\ [row EXCEPT !.state = state].shard = row.shard
    BY DEF EngineRow
  <2> QED
    BY <2>1, <2>2
<1>3. after = [now EXCEPT ![e] = new]
  BY <1>1, <1>2
<1>4. after \in Seq(EngineRow)
  BY <1>3
<1>5. DOMAIN after = DOMAIN now /\ after[e] = new /\ \A f \in DOMAIN now : f # e => after[f] = now[f]
  BY <1>3
<1> QED
  BY <1>1, <1>2, <1>4, <1>5

\* What the books name is an engine.
LEMMA Named ==
  ASSUME TypeOK
  PROVE  /\ engines \in Seq(EngineRow)
         /\ \A s \in DOMAIN entries : entries[s] \in EntryRow /\ entries[s].engine \in DOMAIN engines
         /\ \A s \in DOMAIN opening : /\ opening[s] \in OpeningRow
                                       /\ opening[s].engine \in DOMAIN engines
                                       /\ opening[s].step \in {"evicts", "opens"}
  BY DEF TypeOK, EntryRow, OpeningRow

LEMMA BooksUnlock == BookInv => OneLiveEngine /\ EnginesTracked
<1> SUFFICES ASSUME BookInv PROVE OneLiveEngine /\ EnginesTracked
  OBVIOUS
<1> USE DEF BookInv
<1>1. EnginesTracked
  BY DEF EnginesTracked, EntriesOpen, OpenTracked
<1>2. ASSUME NEW e \in DOMAIN engines, NEW f \in DOMAIN engines,
             {engines[e].state, engines[f].state} \subseteq {"opening", "open"},
             engines[e].shard = engines[f].shard
      PROVE  e = f
  <2>1. \A g \in {e, f} :
          \/ engines[g].shard \in DOMAIN entries /\ entries[engines[g].shard].engine = g
          \/ engines[g].shard \in DOMAIN opening /\ opening[engines[g].shard].engine = g
    BY <1>2 DEF EntriesOpen, OpenTracked, OpeningLive, OpeningTracked
  <2> QED
    BY <1>2, <2>1 DEF Apart
<1> QED
  BY <1>1, <1>2 DEF OneLiveEngine

-----------------------------------------------------------------------------
(* The books *)

\* The loop of evictIfNeeded goes on for a shard that is not in the pool: from
\* acquire, or when its victim, and nobody else's, has closed.
GoesOn(s, now) ==
  /\ s \in Shard /\ s \notin DOMAIN entries
  /\ now \in Seq(EngineRow) /\ DOMAIN now = DOMAIN engines
  /\ \A e \in DOMAIN engines :
       \/ now[e] = engines[e] /\ (s \in DOMAIN opening => opening[s].engine # e)
       \/ /\ engines[e].state = "closing" /\ now[e].state = "closed"
          /\ s \in DOMAIN opening /\ opening[s].engine = e
  /\ s \in DOMAIN opening => opening[s].step = "evicts"

LEMMA GoesOnKeeps ==
  ASSUME BookInv, NEW s, NEW now, GoesOn(s, now), EvictOrOpen(s, now)
  PROVE  /\ engines' \in Seq(EngineRow) /\ DOMAIN engines \subseteq DOMAIN engines'
         /\ DOMAIN entries' \subseteq DOMAIN entries
         /\ \A t \in DOMAIN entries' : entries'[t] = entries[t]
         /\ entries' \in [DOMAIN entries' -> EntryRow']
         /\ DOMAIN opening' \subseteq Shard /\ opening' \in [DOMAIN opening' -> OpeningRow']
         /\ Apart' /\ EntriesOpen' /\ OpenTracked' /\ OpeningLive' /\ OpeningTracked' /\ OpeningsApart'
<1> USE DEF BookInv
<1>0. /\ s \in Shard /\ s \notin DOMAIN entries
      /\ now \in Seq(EngineRow) /\ DOMAIN now = DOMAIN engines
      /\ DOMAIN opening \subseteq Shard
      /\ \A t \in DOMAIN entries : entries[t] \in EntryRow /\ entries[t].engine \in DOMAIN engines
      /\ \A t \in DOMAIN opening : opening[t] \in OpeningRow /\ opening[t].engine \in DOMAIN engines
      /\ \A e \in DOMAIN engines : engines[e].state # "closing" => now[e] = engines[e]
      /\ \A t \in DOMAIN opening : t # s => now[opening[t].engine] = engines[opening[t].engine]
      /\ \A e \in DOMAIN engines : now[e] = engines[e] \/ now[e].state = "closed"
      /\ s \in DOMAIN opening => opening[s].step = "evicts"
  BY Named DEF GoesOn, TypeOK, OpeningsApart
<1>1. CASE Evict(s, now)
  <2>1. PICK v \in DOMAIN entries :
          /\ entries' = Without(entries, {v})
          /\ engines' = [now EXCEPT ![entries[v].engine].state = "closing"]
          /\ opening' = With(opening, s, [step |-> "evicts", engine |-> entries[v].engine])
    BY <1>1 DEF Evict, IsVictim, Idle
  <2> DEFINE e == entries[v].engine
  <2>2. e \in DOMAIN engines /\ engines[e].state = "open" /\ now[e] = engines[e]
    BY <1>0 DEF EntriesOpen
  <2>3. /\ engines' \in Seq(EngineRow) /\ DOMAIN engines' = DOMAIN engines
        /\ engines'[e].state = "closing"
        /\ \A f \in DOMAIN engines : f # e => engines'[f] = now[f]
    BY <1>0, <2>1, <2>2, SetState DEF EngineState
  <2>4. /\ DOMAIN entries' = DOMAIN entries \ {v}
        /\ \A t \in DOMAIN entries' : entries'[t] = entries[t]
        /\ entries' = [t \in DOMAIN entries' |-> entries'[t]]
    BY <2>1 DEF Without
  <2>5. /\ DOMAIN opening' = DOMAIN opening \cup {s}
        /\ opening'[s] = [step |-> "evicts", engine |-> e]
        /\ \A t \in DOMAIN opening : t # s => opening'[t] = opening[t]
        /\ opening' = [t \in DOMAIN opening' |-> opening'[t]]
    BY <2>1 DEF With
  <2>6. EntryRow' = EntryRow /\ OpeningRow' = OpeningRow
    BY <2>3 DEF EntryRow, OpeningRow
  <2>7. entries' \in [DOMAIN entries' -> EntryRow]
    BY <1>0, <2>4
  <2>8. opening' \in [DOMAIN opening' -> OpeningRow]
    <3>1. opening'[s] \in OpeningRow
      BY <2>2, <2>5 DEF OpeningRow
    <3> QED
      BY <1>0, <2>5, <3>1
  <2>9. Apart'
    BY <1>0, <2>4, <2>5 DEF Apart
  <2>10. \A t \in DOMAIN entries' : entries[t].engine # e
    BY <2>2, <2>4 DEF EntriesOpen
  <2>11. EntriesOpen'
    BY <1>0, <2>3, <2>4, <2>10 DEF EntriesOpen
  <2>12. OpenTracked'
    <3> SUFFICES ASSUME NEW f \in DOMAIN engines, engines'[f].state = "open"
                 PROVE  \E t \in DOMAIN entries' : entries'[t].engine = f
      BY <2>3 DEF OpenTracked
    <3>1. f # e /\ engines[f].state = "open"
      BY <1>0, <2>3
    <3>2. PICK t \in DOMAIN entries : entries[t].engine = f
      BY <3>1 DEF OpenTracked
    <3> QED
      BY <2>4, <3>1, <3>2
  <2>13. \A t \in DOMAIN opening : opening[t].engine # e
    BY <1>0, <2>2 DEF OpeningLive, OpeningRow
  <2>14. OpeningLive'
    BY <1>0, <2>3, <2>5, <2>13 DEF OpeningLive
  <2>15. OpeningsApart'
    BY <2>5, <2>13 DEF OpeningsApart
  <2>16. OpeningTracked'
    <3> SUFFICES ASSUME NEW f \in DOMAIN engines, engines'[f].state = "opening"
                 PROVE  \E t \in DOMAIN opening' : opening'[t].engine = f /\ opening'[t].step = "opens"
      BY <2>3 DEF OpeningTracked
    <3>1. engines[f].state = "opening"
      BY <1>0, <2>3
    <3>2. PICK t \in DOMAIN opening : opening[t].engine = f /\ opening[t].step = "opens"
      BY <3>1 DEF OpeningTracked
    <3> QED
      BY <1>0, <2>5, <3>2
  <2> QED
    BY <1>0, <2>3, <2>4, <2>5, <2>6, <2>7, <2>8, <2>9, <2>11, <2>12, <2>14, <2>15, <2>16
<1>2. CASE Open(s, now)
  <2> DEFINE e == Len(now) + 1
  <2>1. /\ engines' = Append(now, [shard |-> s, state |-> "opening"])
        /\ opening' = With(opening, s, [step |-> "opens", engine |-> e])
        /\ entries' = entries
    BY <1>2 DEF Open
  <2>2. /\ engines' \in Seq(EngineRow) /\ DOMAIN engines' = DOMAIN engines \cup {e}
        /\ e \notin DOMAIN engines
        /\ engines'[e] = [shard |-> s, state |-> "opening"]
        /\ \A f \in DOMAIN engines : engines'[f] = now[f]
    <3>1. [shard |-> s, state |-> "opening"] \in EngineRow
      BY <1>0 DEF EngineRow
    <3> QED
      BY <1>0, <2>1, <3>1
  <2>3. \A row \in EntryRow : row \in EntryRow'
    BY <2>2 DEF EntryRow
  <2>4. entries' \in [DOMAIN entries' -> EntryRow']
    BY <1>0, <2>1, <2>3 DEF TypeOK
  <2>5. /\ DOMAIN opening' = DOMAIN opening \cup {s}
        /\ opening'[s] = [step |-> "opens", engine |-> e]
        /\ \A t \in DOMAIN opening : t # s => opening'[t] = opening[t]
        /\ opening' = [t \in DOMAIN opening' |-> opening'[t]]
    BY <2>1 DEF With
  <2>6. opening' \in [DOMAIN opening' -> OpeningRow']
    <3>1. opening'[s] \in OpeningRow'
      BY <2>2, <2>5 DEF OpeningRow
    <3>2. \A row \in OpeningRow : row \in OpeningRow'
      BY <2>2 DEF OpeningRow
    <3> QED
      BY <1>0, <2>5, <3>1, <3>2
  <2>7. Apart'
    BY <1>0, <2>1, <2>5 DEF Apart
  <2>8. EntriesOpen'
    BY <1>0, <2>1, <2>2 DEF EntriesOpen
  <2>9. OpenTracked'
    BY <1>0, <2>1, <2>2 DEF OpenTracked
  <2>10. \A t \in DOMAIN opening : opening[t].engine # e
    BY <1>0, <2>2
  <2>11. OpeningLive'
    BY <1>0, <2>2, <2>5, <2>10 DEF OpeningLive
  <2>12. OpeningsApart'
    BY <2>5, <2>10 DEF OpeningsApart
  <2>13. OpeningTracked'
    <3> SUFFICES ASSUME NEW f \in DOMAIN engines', engines'[f].state = "opening"
                 PROVE  \E t \in DOMAIN opening' : opening'[t].engine = f /\ opening'[t].step = "opens"
      BY DEF OpeningTracked
    <3>1. CASE f = e
      BY <2>5, <3>1
    <3>2. CASE f # e
      <4>1. f \in DOMAIN engines /\ engines[f].state = "opening"
        BY <1>0, <2>2, <3>2
      <4>2. PICK t \in DOMAIN opening : opening[t].engine = f /\ opening[t].step = "opens"
        BY <4>1 DEF OpeningTracked
      <4> QED
        BY <1>0, <2>5, <4>2
    <3> QED
      BY <3>1, <3>2
  <2> QED
    BY <1>0, <2>1, <2>2, <2>4, <2>5, <2>6, <2>7, <2>8, <2>9, <2>11, <2>12, <2>13
<1> QED
  BY <1>1, <1>2 DEF EvictOrOpen

\* Calls that come and go, and references, leave the books alone.
LEMMA BooksUntouched ==
  ASSUME BookInv, TypeOK', engines' = engines, opening' = opening,
         DOMAIN entries' = DOMAIN entries,
         \A s \in DOMAIN entries : entries'[s].engine = entries[s].engine
  PROVE  BookInv'
  BY DEF BookInv, Apart, EntriesOpen, OpenTracked, OpeningLive, OpeningTracked, OpeningsApart

CallRow == [shard : Shard, kind : {"call", "pin"}, step : {"waits", "holds"},
            engine : {Unknown} \cup DOMAIN engines]

\* The types of calls and pins survive as long as engines are only added.
LEMMA CallsTyped ==
  ASSUME TypeOK, DOMAIN engines \subseteq DOMAIN engines'
  PROVE  /\ \A c \in DOMAIN calls : calls[c] \in CallRow'
         /\ \A s \in DOMAIN pinned : pinned[s] \in ({Unknown} \cup DOMAIN engines)'
  BY DEF TypeOK, CallRow

LEMMA NewCallTyped ==
  ASSUME TypeOK, DOMAIN engines \subseteq DOMAIN engines', NEW c \in Caller, NEW s \in Shard,
         NEW kind \in {"call", "pin"}, NEW step \in {"waits", "holds"},
         NEW e \in {Unknown} \cup DOMAIN engines, NewCall(c, s, kind, step, e)
  PROVE  DOMAIN calls' \subseteq Caller /\ calls' \in [DOMAIN calls' -> CallRow']
<1>1. /\ DOMAIN calls' = DOMAIN calls \cup {c}
      /\ calls'[c] = [shard |-> s, kind |-> kind, step |-> step, engine |-> e]
      /\ \A d \in DOMAIN calls : d # c => calls'[d] = calls[d]
      /\ calls' = [d \in DOMAIN calls' |-> calls'[d]]
  BY DEF NewCall, With
<1>2. calls'[c] \in CallRow'
  BY <1>1 DEF CallRow
<1> QED
  BY <1>1, <1>2, CallsTyped DEF TypeOK

\* A reference more or less.
LEMMA RefsTyped ==
  ASSUME TypeOK, NEW s \in DOMAIN entries, NEW n \in Nat,
         entries' = [entries EXCEPT ![s].refs = n]
  PROVE  /\ DOMAIN entries' = DOMAIN entries
         /\ \A t \in DOMAIN entries : entries'[t].engine = entries[t].engine
         /\ entries'[s].refs = n
         /\ \A t \in DOMAIN entries : t # s => entries'[t] = entries[t]
         /\ entries' \in [DOMAIN entries' -> EntryRow]
<1>1. PICK row \in EntryRow : row = entries[s]
  BY Named
<1>2. PICK new \in EntryRow :
        new = [row EXCEPT !.refs = n] /\ new.refs = n /\ new.engine = row.engine
  <2>1. [row EXCEPT !.refs = n] \in EntryRow
    BY DEF EntryRow
  <2>2. [row EXCEPT !.refs = n].refs = n /\ [row EXCEPT !.refs = n].engine = row.engine
    BY DEF EntryRow
  <2> QED
    BY <2>1, <2>2
<1>3. entries' = [entries EXCEPT ![s] = new]
  BY <1>1, <1>2
<1>4. entries \in [DOMAIN entries -> EntryRow]
  BY DEF TypeOK, EntryRow
<1>5. /\ DOMAIN entries' = DOMAIN entries /\ entries'[s] = new
      /\ \A t \in DOMAIN entries : t # s => entries'[t] = entries[t]
  BY <1>3
<1>6. entries' \in [DOMAIN entries' -> EntryRow]
  BY <1>3, <1>4, <1>5
<1> QED
  BY <1>1, <1>2, <1>5, <1>6

LEMMA ReleaseTyped ==
  ASSUME TypeOK, NEW s, Release(s)
  PROVE  /\ DOMAIN entries' = DOMAIN entries
         /\ \A t \in DOMAIN entries : entries'[t].engine = entries[t].engine
         /\ entries' \in [DOMAIN entries' -> EntryRow]
         /\ s \in DOMAIN entries =>
              entries'[s].refs = IF entries[s].refs > 0 THEN entries[s].refs - 1 ELSE 0
         /\ \A t \in DOMAIN entries : t # s => entries'[t] = entries[t]
<1>1. CASE s \notin DOMAIN entries
  BY <1>1 DEF Release, TypeOK, EntryRow
<1>2. CASE s \in DOMAIN entries
  <2> DEFINE n == IF entries[s].refs > 0 THEN entries[s].refs - 1 ELSE 0
  <2>1. entries[s].refs \in Nat
    BY <1>2 DEF TypeOK
  <2>2. n \in Nat
    BY <2>1
  <2>3. entries' = [entries EXCEPT ![s].refs = n]
    BY <1>2 DEF Release
  <2> HIDE DEF n
  <2>4. entries'[s].refs = n
    BY <1>2, <2>2, <2>3, RefsTyped
  <2> QED
    BY <1>2, <2>2, <2>3, <2>4, RefsTyped DEF n
<1> QED
  BY <1>1, <1>2

LEMMA RetainBooks ==
  ASSUME BookInv, NEW c \in Caller, NEW s \in Shard, NEW kind \in {"call", "pin"},
         Retain(c, s, kind), UNCHANGED <<pinned, closed>>
  PROVE  BookInv'
<1>1. s \in DOMAIN entries /\ entries[s].refs \in Nat /\ TypeOK
  BY DEF Retain, BookInv, TypeOK
<1>2. /\ DOMAIN entries' = DOMAIN entries
      /\ \A t \in DOMAIN entries : entries'[t].engine = entries[t].engine
      /\ entries' \in [DOMAIN entries' -> EntryRow]
  <2>1. entries' = [entries EXCEPT ![s].refs = entries[s].refs + 1] /\ entries[s].refs + 1 \in Nat
    BY <1>1 DEF Retain
  <2> QED
    BY <1>1, <2>1, RefsTyped
<1>3. engines' = engines /\ opening' = opening
  BY DEF Retain
<1>4. DOMAIN calls' \subseteq Caller /\ calls' \in [DOMAIN calls' -> CallRow']
  BY <1>1, <1>3, Named, NewCallTyped DEF Retain
<1>5. TypeOK'
  BY <1>1, <1>2, <1>3, <1>4 DEF TypeOK, EntryRow, CallRow
<1> QED
  BY <1>2, <1>3, <1>5, BooksUntouched

LEMMA GoesOnTyped ==
  ASSUME BookInv, NEW s, NEW now, GoesOn(s, now), EvictOrOpen(s, now),
         DOMAIN calls' \subseteq Caller, calls' \in [DOMAIN calls' -> CallRow'],
         UNCHANGED <<pinned, closed>>
  PROVE  BookInv'
<1>1. /\ engines' \in Seq(EngineRow) /\ DOMAIN engines \subseteq DOMAIN engines'
      /\ DOMAIN entries' \subseteq DOMAIN entries
      /\ entries' \in [DOMAIN entries' -> EntryRow']
      /\ DOMAIN opening' \subseteq Shard /\ opening' \in [DOMAIN opening' -> OpeningRow']
      /\ Apart' /\ EntriesOpen' /\ OpenTracked' /\ OpeningLive' /\ OpeningTracked' /\ OpeningsApart'
  BY GoesOnKeeps
<1>2. pinned' \in [DOMAIN pinned' -> ({Unknown} \cup DOMAIN engines)']
  BY <1>1, CallsTyped DEF BookInv, TypeOK
<1>3. TypeOK'
  BY <1>1, <1>2 DEF BookInv, TypeOK, EntryRow, OpeningRow, CallRow
<1> QED
  BY <1>1, <1>3 DEF BookInv

LEMMA AwaitBooks ==
  ASSUME BookInv, NEW c \in Caller, NEW s \in Shard, NEW kind \in {"call", "pin"},
         Await(c, s, kind), UNCHANGED <<pinned, closed>>
  PROVE  BookInv'
<1>0. TypeOK /\ NewCall(c, s, kind, "waits", Unknown) /\ s \notin DOMAIN entries
  BY DEF BookInv, Await
<1>1. CASE UNCHANGED <<entries, lru, opening, engines>>
  <2>1. DOMAIN calls' \subseteq Caller /\ calls' \in [DOMAIN calls' -> CallRow']
    BY <1>0, <1>1, NewCallTyped
  <2>2. TypeOK'
    BY <1>0, <1>1, <2>1 DEF TypeOK, CallRow
  <2> QED
    BY <1>1, <2>2, BooksUntouched
<1>2. CASE s \notin DOMAIN opening /\ EvictOrOpen(s, engines)
  <2>1. GoesOn(s, engines)
    BY <1>0, <1>2 DEF GoesOn, TypeOK
  <2>2. DOMAIN engines \subseteq DOMAIN engines'
    BY <1>2, <2>1, GoesOnKeeps
  <2>3. DOMAIN calls' \subseteq Caller /\ calls' \in [DOMAIN calls' -> CallRow']
    BY <1>0, <2>2, NewCallTyped
  <2> QED
    BY <1>2, <2>1, <2>3, GoesOnTyped
<1> QED
  BY <1>1, <1>2 DEF Await

LEMMA VictimClosedBooks ==
  ASSUME BookInv, NEW s \in Shard, VictimClosed(s)
  PROVE  BookInv'
<1> DEFINE e == opening[s].engine
<1>. PICK now : now = [engines EXCEPT ![e].state = "closed"]
  OBVIOUS
<1>0. /\ TypeOK /\ s \in DOMAIN opening /\ opening[s].step = "evicts"
      /\ EvictOrOpen(s, now) /\ UNCHANGED <<calls, pinned, closed>>
  BY DEF VictimClosed, BookInv
<1>1. e \in DOMAIN engines /\ engines \in Seq(EngineRow) /\ engines[e].state = "closing"
  BY <1>0, Named DEF BookInv, OpeningLive
<1>2. /\ now \in Seq(EngineRow) /\ DOMAIN now = DOMAIN engines /\ now[e].state = "closed"
      /\ \A f \in DOMAIN engines : f # e => now[f] = engines[f]
  BY <1>1, SetState DEF EngineState
<1>3. GoesOn(s, now)
  BY <1>0, <1>1, <1>2 DEF GoesOn, BookInv, Apart
<1>4. DOMAIN engines \subseteq DOMAIN engines'
  BY <1>0, <1>3, GoesOnKeeps
<1>5. DOMAIN calls' \subseteq Caller /\ calls' \in [DOMAIN calls' -> CallRow']
  BY <1>0, <1>4, CallsTyped DEF TypeOK
<1> QED
  BY <1>0, <1>3, <1>5, GoesOnTyped

\* The opening of a shard is over.
LEMMA OpeningOver ==
  ASSUME BookInv, NEW s \in DOMAIN opening, opening' = Without(opening, {s}), engines' \in Seq(EngineRow),
         DOMAIN engines' = DOMAIN engines,
         \A f \in DOMAIN engines : f # opening[s].engine => engines'[f] = engines[f],
         engines'[opening[s].engine].state # "opening"
  PROVE  /\ DOMAIN opening' = DOMAIN opening \ {s}
         /\ \A t \in DOMAIN opening' : opening'[t] = opening[t]
         /\ DOMAIN opening' \subseteq Shard /\ opening' \in [DOMAIN opening' -> OpeningRow']
         /\ OpeningLive' /\ OpeningTracked' /\ OpeningsApart'
<1>1. /\ DOMAIN opening' = DOMAIN opening \ {s}
      /\ \A t \in DOMAIN opening' : opening'[t] = opening[t]
      /\ opening' = [t \in DOMAIN opening' |-> opening'[t]]
  BY DEF Without
<1>2. OpeningRow' = OpeningRow
  BY DEF OpeningRow
<1>3. DOMAIN opening' \subseteq Shard /\ opening' \in [DOMAIN opening' -> OpeningRow']
  BY <1>1, <1>2, Named, ZenonT(60) DEF BookInv, TypeOK
<1>4. \A t \in DOMAIN opening' :
        /\ opening[t].engine \in DOMAIN engines
        /\ engines'[opening[t].engine] = engines[opening[t].engine]
  BY <1>1, Named DEF BookInv, OpeningsApart
<1>5. OpeningLive'
  <2> SUFFICES ASSUME NEW t \in DOMAIN opening'
               PROVE  /\ opening'[t].step = "evicts" => engines'[opening'[t].engine].state = "closing"
                      /\ opening'[t].step = "opens" =>
                           /\ engines'[opening'[t].engine].state = "opening"
                           /\ engines'[opening'[t].engine].shard = t
    BY DEF OpeningLive
  <2>1. /\ t \in DOMAIN opening /\ opening'[t] = opening[t]
        /\ engines'[opening[t].engine] = engines[opening[t].engine]
    BY <1>1, <1>4
  <2> QED
    BY <2>1 DEF BookInv, OpeningLive
<1>6. OpeningsApart'
  BY <1>1 DEF BookInv, OpeningsApart
<1>7. OpeningTracked'
  <2> SUFFICES ASSUME NEW f \in DOMAIN engines, engines'[f].state = "opening"
               PROVE  \E t \in DOMAIN opening' : opening'[t].engine = f /\ opening'[t].step = "opens"
    BY DEF OpeningTracked
  <2>1. f # opening[s].engine /\ engines[f].state = "opening"
    OBVIOUS
  <2>2. PICK t \in DOMAIN opening : opening[t].engine = f /\ opening[t].step = "opens"
    BY <2>1 DEF BookInv, OpeningTracked
  <2>3. t \in DOMAIN opening' /\ opening'[t] = opening[t]
    BY <1>1, <2>1, <2>2
  <2> QED
    BY <2>2, <2>3
<1> QED
  BY <1>1, <1>3, <1>5, <1>6, <1>7

\* Everybody who waits is given the engine: what of a call stays is its shard.
Woken(s, e) ==
  [c \in DOMAIN calls |->
     IF c \in Waiting(s) THEN [calls[c] EXCEPT !.step = "holds", !.engine = e] ELSE calls[c]]

LEMMA WokenTyped ==
  ASSUME TypeOK, NEW s, NEW e \in DOMAIN engines, DOMAIN engines' = DOMAIN engines,
         calls' = Woken(s, e)
  PROVE  /\ DOMAIN calls' = DOMAIN calls /\ calls' \in [DOMAIN calls' -> CallRow']
         /\ \A c \in Waiting(s) : calls'[c].shard = s /\ calls'[c].step = "holds" /\ calls'[c].engine = e
         /\ \A c \in DOMAIN calls \ Waiting(s) : calls'[c] = calls[c]
<1>1. CallRow' = CallRow
  BY DEF CallRow
<1>2. \A c \in DOMAIN calls : calls[c] \in CallRow
  BY DEF TypeOK, CallRow
<1>3. ASSUME NEW c \in Waiting(s)
      PROVE  /\ calls'[c] \in CallRow
             /\ calls'[c].shard = s /\ calls'[c].step = "holds" /\ calls'[c].engine = e
  <2>1. PICK row \in CallRow : row = calls[c] /\ row.shard = s
    BY <1>2 DEF Waiting
  <2>2. [row EXCEPT !.step = "holds", !.engine = e] \in CallRow
    BY DEF CallRow
  <2>3. /\ [row EXCEPT !.step = "holds", !.engine = e].shard = row.shard
        /\ [row EXCEPT !.step = "holds", !.engine = e].step = "holds"
        /\ [row EXCEPT !.step = "holds", !.engine = e].engine = e
    BY DEF CallRow
  <2>4. calls'[c] = [row EXCEPT !.step = "holds", !.engine = e]
    BY <2>1 DEF Woken, Waiting
  <2> QED
    BY <2>1, <2>2, <2>3, <2>4
<1>4. /\ DOMAIN calls' = DOMAIN calls /\ calls' = [c \in DOMAIN calls' |-> calls'[c]]
      /\ \A c \in DOMAIN calls \ Waiting(s) : calls'[c] = calls[c]
  BY DEF Woken
<1> QED
  BY <1>1, <1>2, <1>3, <1>4

\* What OpenSettles does, without the case that Apart rules out.
LEMMA Settled ==
  ASSUME BookInv, IsFiniteSet(Caller), NEW s \in Shard, OpenSettles(s), NEW e, e = opening[s].engine
  PROVE  /\ e \in DOMAIN engines /\ s \notin DOMAIN entries
         /\ engines' = [engines EXCEPT ![e].state = "open"]
         /\ DOMAIN entries' = DOMAIN entries \cup {s}
         /\ entries'[s] = [engine |-> e, refs |-> Cardinality(Waiting(s))]
         /\ Cardinality(Waiting(s)) \in Nat
         /\ \A t \in DOMAIN entries : entries'[t] = entries[t]
         /\ entries' = [t \in DOMAIN entries' |-> entries'[t]]
         /\ calls' = Woken(s, e)
<1>1. s \notin DOMAIN entries /\ e \in DOMAIN engines
  BY Named DEF BookInv, Apart, OpenSettles
<1>2. Waiting(s) \subseteq Caller
  BY DEF Waiting, BookInv, TypeOK
<1>3. Cardinality(Waiting(s)) \in Nat
  BY <1>2, FS_Subset, FS_CardinalityType
<1>4. entries' = With(entries, s, [[engine |-> e, refs |-> 0] EXCEPT !.refs = @ + Cardinality(Waiting(s))])
  BY <1>1 DEF OpenSettles
<1>5. entries' = With(entries, s, [engine |-> e, refs |-> Cardinality(Waiting(s))])
  <2>1. \A n \in Nat : [[engine |-> e, refs |-> 0] EXCEPT !.refs = @ + n] = [engine |-> e, refs |-> n]
    OBVIOUS
  <2> QED
    BY <1>3, <1>4, <2>1
<1> QED
  BY <1>1, <1>3, <1>5 DEF OpenSettles, With, Woken

LEMMA OpenSettlesBooks ==
  ASSUME BookInv, IsFiniteSet(Caller), NEW s \in Shard, OpenSettles(s)
  PROVE  BookInv'
<1> DEFINE e == opening[s].engine
<1>0. /\ TypeOK /\ s \in DOMAIN opening /\ opening[s].step = "opens"
      /\ opening' = Without(opening, {s}) /\ UNCHANGED <<pinned, closed>>
  BY DEF OpenSettles, BookInv
<1>1. /\ e \in DOMAIN engines /\ s \notin DOMAIN entries
      /\ engines' = [engines EXCEPT ![e].state = "open"]
      /\ DOMAIN entries' = DOMAIN entries \cup {s}
      /\ entries'[s] = [engine |-> e, refs |-> Cardinality(Waiting(s))]
      /\ Cardinality(Waiting(s)) \in Nat
      /\ \A t \in DOMAIN entries : entries'[t] = entries[t]
      /\ entries' = [t \in DOMAIN entries' |-> entries'[t]]
      /\ calls' = Woken(s, e)
  BY Settled
<1>2. engines[e].state = "opening" /\ engines[e].shard = s
  BY <1>0 DEF BookInv, OpeningLive
<1>3. /\ engines' \in Seq(EngineRow) /\ DOMAIN engines' = DOMAIN engines
      /\ engines'[e].state = "open" /\ engines'[e].shard = s
      /\ \A f \in DOMAIN engines : f # e => engines'[f] = engines[f]
  BY <1>0, <1>1, <1>2, Named, SetState DEF EngineState
<1>4. /\ DOMAIN opening' = DOMAIN opening \ {s}
      /\ DOMAIN opening' \subseteq Shard /\ opening' \in [DOMAIN opening' -> OpeningRow']
      /\ OpeningLive' /\ OpeningTracked' /\ OpeningsApart'
  BY <1>0, <1>3, OpeningOver
<1>5. EntryRow' = EntryRow
  BY <1>3 DEF EntryRow
<1>6. entries' \in [DOMAIN entries' -> EntryRow']
  <2>1. entries'[s] \in EntryRow
    BY <1>1 DEF EntryRow
  <2> QED
    BY <1>0, <1>1, <1>5, <2>1, Named
<1>7. /\ DOMAIN calls' \subseteq Caller
      /\ calls' \in [DOMAIN calls' -> CallRow']
  BY <1>0, <1>1, <1>3, WokenTyped DEF TypeOK
<1>8. Apart'
  BY <1>1, <1>4 DEF BookInv, Apart
<1>9. \A t \in DOMAIN entries : entries[t].engine # e /\ entries[t].engine \in DOMAIN engines
  BY <1>0, <1>2, Named DEF BookInv, EntriesOpen
<1>10. EntriesOpen'
  <2> SUFFICES ASSUME NEW t \in DOMAIN entries'
               PROVE  engines'[entries'[t].engine].state = "open" /\ engines'[entries'[t].engine].shard = t
    BY DEF EntriesOpen
  <2>1. CASE t = s
    <3>1. entries'[t].engine = e
      BY <1>1, <2>1
    <3> QED
      BY <1>3, <2>1, <3>1
  <2>2. CASE t # s
    <3>1. t \in DOMAIN entries /\ entries'[t] = entries[t] /\ engines'[entries[t].engine] = engines[entries[t].engine]
      BY <1>1, <1>3, <1>9, <2>2
    <3> QED
      BY <3>1 DEF BookInv, EntriesOpen
  <2> QED
    BY <2>1, <2>2
<1>11. OpenTracked'
  BY <1>1, <1>3 DEF BookInv, OpenTracked
<1>12. TypeOK'
  BY <1>0, <1>1, <1>3, <1>4, <1>6, <1>7, ZenonT(60) DEF TypeOK, EntryRow, OpeningRow, CallRow
<1> QED
  BY <1>4, <1>8, <1>10, <1>11, <1>12 DEF BookInv

LEMMA OpenFailsBooks ==
  ASSUME BookInv, NEW s \in Shard, OpenFails(s)
  PROVE  BookInv'
<1> DEFINE e == opening[s].engine
<1>0. /\ TypeOK /\ s \in DOMAIN opening /\ opening[s].step = "opens"
      /\ engines' = [engines EXCEPT ![e].state = "closed"]
      /\ calls' = Without(calls, Waiting(s))
      /\ opening' = Without(opening, {s}) /\ UNCHANGED <<entries, pinned, closed>>
  BY DEF OpenFails, BookInv
<1>1. e \in DOMAIN engines /\ engines[e].state = "opening"
  BY <1>0, Named DEF BookInv, OpeningLive
<1>2. /\ engines' \in Seq(EngineRow) /\ DOMAIN engines' = DOMAIN engines
      /\ engines'[e].state = "closed"
      /\ \A f \in DOMAIN engines : f # e => engines'[f] = engines[f]
  BY <1>0, <1>1, Named, SetState DEF EngineState
<1>3. /\ DOMAIN opening' = DOMAIN opening \ {s}
      /\ DOMAIN opening' \subseteq Shard /\ opening' \in [DOMAIN opening' -> OpeningRow']
      /\ OpeningLive' /\ OpeningTracked' /\ OpeningsApart'
  BY <1>0, <1>2, OpeningOver
<1>4. DOMAIN calls' \subseteq Caller /\ calls' \in [DOMAIN calls' -> CallRow']
  BY <1>0, <1>2, CallsTyped DEF Without, TypeOK
<1>5. \A t \in DOMAIN entries : entries[t].engine # e /\ entries[t].engine \in DOMAIN engines
  BY <1>0, <1>1, Named DEF BookInv, EntriesOpen
<1>6. Apart' /\ EntriesOpen' /\ OpenTracked'
  BY <1>0, <1>2, <1>3, <1>5 DEF BookInv, Apart, EntriesOpen, OpenTracked
<1>7. TypeOK'
  BY <1>0, <1>2, <1>3, <1>4 DEF TypeOK, OpeningRow, CallRow
<1> QED
  BY <1>3, <1>6, <1>7 DEF BookInv

LEMMA ReleasedBooks ==
  ASSUME BookInv, NEW s, Release(s), UNCHANGED <<engines, opening, closed>>,
         \/ \E c \in DOMAIN calls : calls' = Without(calls, {c}) /\ pinned' = pinned
         \/ pinned' = Without(pinned, {s}) /\ calls' = calls
  PROVE  BookInv'
<1>1. TypeOK
  BY DEF BookInv
<1>2. /\ DOMAIN entries' = DOMAIN entries
      /\ \A t \in DOMAIN entries : entries'[t].engine = entries[t].engine
      /\ entries' \in [DOMAIN entries' -> EntryRow]
  BY <1>1, ReleaseTyped
<1>3. /\ DOMAIN calls' \subseteq Caller /\ calls' \in [DOMAIN calls' -> CallRow]
      /\ DOMAIN pinned' \subseteq Shard /\ pinned' \in [DOMAIN pinned' -> {Unknown} \cup DOMAIN engines]
  BY <1>1 DEF Without, TypeOK, CallRow
<1>4. TypeOK'
  BY <1>1, <1>2, <1>3 DEF TypeOK, EntryRow, CallRow
<1> QED
  BY <1>2, <1>4, BooksUntouched

LEMMA KeepPinBooks ==
  ASSUME BookInv, NEW c \in Caller, KeepPin(c)
  PROVE  BookInv'
<1>1. /\ TypeOK /\ c \in DOMAIN calls
      /\ pinned' = With(pinned, calls[c].shard, calls[c].engine)
      /\ calls' = Without(calls, {c})
      /\ UNCHANGED <<entries, opening, engines, closed>>
  BY DEF BookInv, KeepPin, Holds
<1>2. calls[c].shard \in Shard /\ calls[c].engine \in {Unknown} \cup DOMAIN engines
  BY <1>1 DEF TypeOK
<1>3. /\ DOMAIN calls' \subseteq Caller /\ calls' \in [DOMAIN calls' -> CallRow]
  BY <1>1 DEF Without, TypeOK, CallRow
<1>4. DOMAIN pinned' \subseteq Shard /\ pinned' \in [DOMAIN pinned' -> {Unknown} \cup DOMAIN engines]
  BY <1>1, <1>2 DEF With, TypeOK
<1>5. TypeOK'
  BY <1>1, <1>3, <1>4 DEF TypeOK, CallRow
<1> QED
  BY <1>1, <1>5, BooksUntouched

LEMMA CloseBooks ==
  ASSUME BookInv, Close
  PROVE  BookInv'
<1> DEFINE Entered(e) == \E s \in DOMAIN entries : entries[s].engine = e
<1>0. /\ TypeOK /\ DOMAIN entries' = {} /\ DOMAIN pinned' = {}
      /\ entries' = [t \in {} |-> t] /\ pinned' = [t \in {} |-> t]
      /\ closed' = TRUE /\ UNCHANGED <<opening, calls>>
  BY DEF BookInv, Close, Without
<1>1. /\ DOMAIN engines' = DOMAIN engines
      /\ \A e \in DOMAIN engines : engines'[e] = IF Entered(e) THEN [engines[e] EXCEPT !.state = "closing"]
                                                 ELSE engines[e]
      /\ engines' = [e \in DOMAIN engines |-> engines'[e]]
  BY DEF Close
<1>2. \A e \in DOMAIN engines : engines[e] \in EngineRow
  BY <1>0 DEF TypeOK
<1>3. ASSUME NEW e \in DOMAIN engines
      PROVE  /\ engines'[e] \in EngineRow
             /\ Entered(e) => engines'[e].state = "closing"
             /\ ~Entered(e) => engines'[e] = engines[e]
  <2>1. PICK row \in EngineRow : row = engines[e]
    BY <1>2
  <2>2. [row EXCEPT !.state = "closing"] \in EngineRow /\ [row EXCEPT !.state = "closing"].state = "closing"
    BY DEF EngineRow
  <2> QED
    BY <1>1, <2>1, <2>2
<1>4. engines' \in Seq(EngineRow)
  <2>1. DOMAIN engines = 1..Len(engines) /\ Len(engines) \in Nat
    BY <1>0 DEF TypeOK
  <2> QED
    BY <1>1, <1>3, <2>1
<1>5. \A s \in DOMAIN opening : ~Entered(opening[s].engine) /\ opening[s].engine \in DOMAIN engines
  BY <1>0, Named DEF BookInv, EntriesOpen, OpeningLive
<1>6. OpeningLive' /\ OpeningsApart'
  BY <1>0, <1>3, <1>5 DEF BookInv, OpeningLive, OpeningsApart
<1>7. OpeningTracked' /\ OpenTracked'
  <2>1. \A e \in DOMAIN engines : engines[e].state = "open" => Entered(e)
    BY DEF BookInv, OpenTracked
  <2> QED
    BY <1>0, <1>1, <1>3, <2>1 DEF BookInv, OpeningTracked, OpenTracked
<1>8. Apart' /\ EntriesOpen'
  BY <1>0 DEF Apart, EntriesOpen
<1>9. TypeOK'
  BY <1>0, <1>1, <1>4 DEF TypeOK
<1> QED
  BY <1>6, <1>7, <1>8, <1>9 DEF BookInv

LEMMA TerminatedBooks ==
  ASSUME BookInv, NEW e, Terminated(e)
  PROVE  BookInv'
<1>0. /\ TypeOK /\ e \in DOMAIN engines /\ engines[e].state = "closing"
      /\ engines' = [engines EXCEPT ![e].state = "closed"]
      /\ \A s \in DOMAIN opening : opening[s].engine # e
      /\ UNCHANGED <<entries, opening, calls, pinned, closed>>
  BY DEF BookInv, Terminated
<1>1. /\ engines' \in Seq(EngineRow) /\ DOMAIN engines' = DOMAIN engines
      /\ engines'[e].state = "closed"
      /\ \A f \in DOMAIN engines : f # e => engines'[f] = engines[f]
  <2>1. engines \in Seq(EngineRow) /\ "closed" \in EngineState
    BY <1>0, Named DEF EngineState
  <2>2. e \in DOMAIN engines /\ engines' = [engines EXCEPT ![e].state = "closed"]
    BY <1>0
  <2>3. PICK after : after = [engines EXCEPT ![e].state = "closed"]
    OBVIOUS
  <2>4. /\ after \in Seq(EngineRow) /\ DOMAIN after = DOMAIN engines /\ after[e].state = "closed"
        /\ \A f \in DOMAIN engines : f # e => after[f] = engines[f]
    BY <2>1, <2>2, <2>3, SetState DEF EngineState
  <2> QED
    BY <2>2, <2>3, <2>4
<1>2. TypeOK'
  BY <1>0, <1>1 DEF TypeOK
<1>3. Apart' /\ EntriesOpen' /\ OpenTracked'
  BY <1>0, <1>1, Named DEF BookInv, Apart, EntriesOpen, OpenTracked
<1>4. OpeningLive' /\ OpeningTracked' /\ OpeningsApart'
  BY <1>0, <1>1, Named DEF BookInv, OpeningLive, OpeningTracked, OpeningsApart
<1> QED
  BY <1>2, <1>3, <1>4 DEF BookInv

LEMMA BookStep == BookInv /\ [Next]_vars => BookInv'
<1> SUFFICES ASSUME BookInv, [Next]_vars PROVE BookInv'
  OBVIOUS
<1>0. IsFiniteSet(Caller)
  BY PoolAssumption
<1>1. ASSUME NEW c \in Caller, NEW s \in Shard, NEW kind \in {"call", "pin"}, Acquire(c, s, kind)
      PROVE  BookInv'
  BY <1>1, RetainBooks, AwaitBooks DEF Acquire
<1>2. ASSUME NEW c \in Caller, Finish(c) PROVE BookInv'
  BY <1>2, ReleasedBooks DEF Finish, Holds
<1>3. ASSUME NEW c \in Caller, KeepPin(c) PROVE BookInv'
  BY <1>3, KeepPinBooks
<1>4. ASSUME NEW s \in Shard, OpenStep(s) PROVE BookInv'
  BY <1>0, <1>4, VictimClosedBooks, OpenSettlesBooks, OpenFailsBooks DEF OpenStep
<1>5. ASSUME NEW s \in Shard, ReleaseEngine(s) PROVE BookInv'
  BY <1>5, ReleasedBooks DEF ReleaseEngine
<1>6. CASE UNCHANGED vars
  BY <1>6 DEF vars, BookInv, TypeOK, Apart, EntriesOpen, OpenTracked, OpeningLive, OpeningTracked, OpeningsApart
<1> QED
  BY <1>1, <1>2, <1>3, <1>4, <1>5, <1>6, CloseBooks, TerminatedBooks DEF Next, WithShard, PinEngine

LEMMA BookStart == Init => BookInv
<1> SUFFICES ASSUME Init PROVE BookInv
  OBVIOUS
<1>1. /\ engines = << >> /\ DOMAIN entries = {} /\ DOMAIN opening = {}
      /\ DOMAIN calls = {} /\ DOMAIN pinned = {} /\ closed = FALSE
  BY DEF Init
<1>2. DOMAIN engines = {}
  BY <1>1
<1>3. TypeOK
  <2>1. engines \in Seq(EngineRow)
    BY <1>1
  <2>2. \A T : entries \in [{} -> T] /\ opening \in [{} -> T] /\ calls \in [{} -> T] /\ pinned \in [{} -> T]
    BY DEF Init
  <2> QED
    BY <1>1, <2>1, <2>2 DEF TypeOK
<1>4. Apart /\ EntriesOpen /\ OpenTracked /\ OpeningLive /\ OpeningTracked /\ OpeningsApart
  BY <1>1, <1>2 DEF Apart, EntriesOpen, OpenTracked, OpeningLive, OpeningTracked, OpeningsApart
<1> QED
  BY <1>3, <1>4 DEF BookInv

-----------------------------------------------------------------------------
(* The references *)

Holders(s) == {c \in DOMAIN calls : calls[c].shard = s /\ calls[c].step = "holds"}

Pins(s) == IF s \in DOMAIN pinned THEN 1 ELSE 0

HoldersFit ==
  \A c \in DOMAIN calls : calls[c].step = "holds" =>
    /\ calls[c].shard \in DOMAIN entries
    /\ calls[c].engine = entries[calls[c].shard].engine

PinsFit == \A s \in DOMAIN pinned : s \in DOMAIN entries /\ pinned[s] = entries[s].engine

RefsCount == \A s \in DOMAIN entries : entries[s].refs >= Cardinality(Holders(s)) + Pins(s)

\* At least one reference for each that uses an entry.  (Two pins of one shard
\* at once leave a reference nobody gives back.)
UseInv == closed \/ (HoldersFit /\ PinsFit /\ RefsCount)

LEMMA UseUnlocks == BookInv /\ UseInv => InUseIsOpen
<1> SUFFICES ASSUME BookInv, UseInv, ~closed
             PROVE  /\ \A c \in DOMAIN calls :
                         calls[c].step = "holds" => IsOpen(calls[c].shard, calls[c].engine)
                    /\ \A s \in DOMAIN pinned : IsOpen(s, pinned[s])
  BY DEF InUseIsOpen
<1>1. ASSUME NEW s \in DOMAIN entries PROVE IsOpen(s, entries[s].engine)
  BY <1>1 DEF BookInv, EntriesOpen, IsOpen
<1> QED
  BY <1>1 DEF UseInv, HoldersFit, PinsFit

\* Sets of callers are finite.
LEMMA CallersCount ==
  ASSUME NEW S, S \subseteq Caller
  PROVE  /\ IsFiniteSet(S) /\ Cardinality(S) \in Nat
         /\ Cardinality(S) = 0 => S = {}
         /\ \A c \in S : Cardinality(S \ {c}) = Cardinality(S) - 1
         /\ \A c : c \notin S => Cardinality(S \cup {c}) = Cardinality(S) + 1
  BY PoolAssumption, FS_Subset, FS_CardinalityType, FS_EmptySet, FS_AddElement, FS_RemoveElement

LEMMA HoldersTyped ==
  ASSUME TypeOK, NEW s
  PROVE  Holders(s) \subseteq Caller /\ Cardinality(Holders(s)) \in Nat /\ Pins(s) \in {0, 1}
<1>1. Holders(s) \subseteq Caller
  BY DEF TypeOK, Holders
<1> QED
  BY <1>1, CallersCount DEF Pins

\* An entry nobody refers to is of no use to anybody.
LEMMA IdleUnused ==
  ASSUME TypeOK, HoldersFit, RefsCount, NEW s \in DOMAIN entries, entries[s].refs = 0
  PROVE  s \notin DOMAIN pinned /\ \A c \in DOMAIN calls : calls[c].step = "holds" => calls[c].shard # s
<1>1. Cardinality(Holders(s)) = 0 /\ Pins(s) = 0
  BY HoldersTyped DEF RefsCount
<1>2. Holders(s) = {}
  BY <1>1, HoldersTyped, CallersCount
<1> QED
  BY <1>1, <1>2 DEF Pins, Holders

\* Entries go only when they are idle, and who holds an engine goes on holding.
LEMMA UseStays ==
  ASSUME TypeOK, HoldersFit, PinsFit, RefsCount, pinned' = pinned,
         DOMAIN entries' \subseteq DOMAIN entries,
         \A t \in DOMAIN entries' : entries'[t] = entries[t],
         \A t \in DOMAIN entries \ DOMAIN entries' : entries[t].refs = 0,
         \A c \in DOMAIN calls' : calls'[c].step = "holds" => c \in DOMAIN calls /\ calls'[c] = calls[c],
         \A c \in DOMAIN calls : calls[c].step = "holds" => c \in DOMAIN calls' /\ calls'[c] = calls[c]
  PROVE  HoldersFit' /\ PinsFit' /\ RefsCount'
<1>1. \A t : Holders(t)' = Holders(t) /\ Pins(t)' = Pins(t)
  BY DEF Holders, Pins
<1>2. HoldersFit'
  <2> SUFFICES ASSUME NEW c \in DOMAIN calls', calls'[c].step = "holds"
               PROVE  /\ calls'[c].shard \in DOMAIN entries'
                      /\ calls'[c].engine = entries'[calls'[c].shard].engine
    BY DEF HoldersFit
  <2>1. c \in DOMAIN calls /\ calls'[c] = calls[c] /\ calls[c].step = "holds"
    OBVIOUS
  <2>2. calls[c].shard \in DOMAIN entries /\ calls[c].engine = entries[calls[c].shard].engine
    BY <2>1 DEF HoldersFit
  <2>3. calls[c].shard \in DOMAIN entries'
    BY <2>1, <2>2, IdleUnused
  <2> QED
    BY <2>1, <2>2, <2>3
<1>3. PinsFit'
  BY IdleUnused DEF PinsFit
<1>4. RefsCount'
  BY <1>1 DEF RefsCount
<1> QED
  BY <1>2, <1>3, <1>4

\* Eviction takes idle entries only.
LEMMA DropsIdle ==
  ASSUME NEW s, NEW now, EvictOrOpen(s, now)
  PROVE  /\ DOMAIN entries' \subseteq DOMAIN entries
         /\ \A t \in DOMAIN entries' : entries'[t] = entries[t]
         /\ \A t \in DOMAIN entries \ DOMAIN entries' : entries[t].refs = 0
<1>1. CASE Evict(s, now)
  <2>1. PICK v \in Idle : entries' = Without(entries, {v})
    BY <1>1 DEF Evict, IsVictim
  <2> QED
    BY <2>1 DEF Without, Idle
<1>2. CASE Open(s, now)
  BY <1>2 DEF Open
<1> QED
  BY <1>1, <1>2 DEF EvictOrOpen

LEMMA RetainUse ==
  ASSUME TypeOK, HoldersFit, PinsFit, RefsCount, NEW c \in Caller \ DOMAIN calls, NEW s \in Shard,
         NEW kind, Retain(c, s, kind), pinned' = pinned
  PROVE  HoldersFit' /\ PinsFit' /\ RefsCount'
<1>1. s \in DOMAIN entries /\ entries[s].refs \in Nat
  BY DEF Retain, TypeOK
<1>2. /\ DOMAIN entries' = DOMAIN entries
      /\ \A t \in DOMAIN entries : entries'[t].engine = entries[t].engine
      /\ entries'[s].refs = entries[s].refs + 1
      /\ \A t \in DOMAIN entries : t # s => entries'[t] = entries[t]
  <2>1. entries' = [entries EXCEPT ![s].refs = entries[s].refs + 1] /\ entries[s].refs + 1 \in Nat
    BY <1>1 DEF Retain
  <2> QED
    BY <1>1, <2>1, RefsTyped
<1>3. /\ DOMAIN calls' = DOMAIN calls \cup {c}
      /\ calls'[c] = [shard |-> s, kind |-> kind, step |-> "holds", engine |-> entries[s].engine]
      /\ \A d \in DOMAIN calls : calls'[d] = calls[d]
  BY DEF Retain, NewCall, With
<1>4. HoldersFit'
  <2> SUFFICES ASSUME NEW d \in DOMAIN calls', calls'[d].step = "holds"
               PROVE  /\ calls'[d].shard \in DOMAIN entries'
                      /\ calls'[d].engine = entries'[calls'[d].shard].engine
    BY DEF HoldersFit
  <2>1. CASE d = c
    BY <1>1, <1>2, <1>3, <2>1
  <2>2. CASE d # c
    BY <1>2, <1>3, <2>2 DEF HoldersFit
  <2> QED
    BY <2>1, <2>2
<1>5. PinsFit'
  BY <1>2 DEF PinsFit
<1>6. \A t : Pins(t)' = Pins(t)
  BY DEF Pins
<1>7. Holders(s)' = Holders(s) \cup {c} /\ c \notin Holders(s)
  BY <1>3 DEF Holders
<1>8. \A t : t # s => Holders(t)' = Holders(t)
  BY <1>3 DEF Holders
<1>9. Cardinality(Holders(s)') = Cardinality(Holders(s)) + 1
  BY <1>7, HoldersTyped, CallersCount
<1>10. entries'[s].refs >= Cardinality(Holders(s)') + Pins(s)'
  <2>1. entries[s].refs >= Cardinality(Holders(s)) + Pins(s)
    BY <1>1 DEF RefsCount
  <2> QED
    BY <1>1, <1>2, <1>6, <1>9, <2>1, HoldersTyped
<1>11. ASSUME NEW t \in DOMAIN entries, t # s
       PROVE  entries'[t].refs >= Cardinality(Holders(t)') + Pins(t)'
  BY <1>2, <1>6, <1>8, <1>11 DEF RefsCount
<1>12. RefsCount'
  BY <1>2, <1>10, <1>11 DEF RefsCount
<1> QED
  BY <1>4, <1>5, <1>12

LEMMA AwaitUse ==
  ASSUME TypeOK, HoldersFit, PinsFit, RefsCount, NEW c \in Caller \ DOMAIN calls, NEW s \in Shard,
         NEW kind, Await(c, s, kind), pinned' = pinned
  PROVE  HoldersFit' /\ PinsFit' /\ RefsCount'
<1>1. /\ DOMAIN entries' \subseteq DOMAIN entries
      /\ \A t \in DOMAIN entries' : entries'[t] = entries[t]
      /\ \A t \in DOMAIN entries \ DOMAIN entries' : entries[t].refs = 0
  BY DropsIdle DEF Await
<1>2. /\ DOMAIN calls' = DOMAIN calls \cup {c} /\ calls'[c].step = "waits"
      /\ \A d \in DOMAIN calls : calls'[d] = calls[d]
  BY DEF Await, NewCall, With
<1> QED
  BY <1>1, <1>2, UseStays

LEMMA OpenFailsUse ==
  ASSUME TypeOK, HoldersFit, PinsFit, RefsCount, NEW s \in Shard, OpenFails(s)
  PROVE  HoldersFit' /\ PinsFit' /\ RefsCount'
<1>1. entries' = entries /\ pinned' = pinned
  BY DEF OpenFails
<1>2. /\ DOMAIN calls' = DOMAIN calls \ Waiting(s)
      /\ \A d \in DOMAIN calls' : calls'[d] = calls[d]
  BY DEF OpenFails, Without
<1>3. \A d \in Waiting(s) : calls[d].step # "holds"
  BY DEF Waiting
<1> QED
  BY <1>1, <1>2, <1>3, UseStays

LEMMA OpenSettlesUse ==
  ASSUME BookInv, HoldersFit, PinsFit, RefsCount, NEW s \in Shard, OpenSettles(s)
  PROVE  HoldersFit' /\ PinsFit' /\ RefsCount'
<1> DEFINE e == opening[s].engine
<1>1. /\ e \in DOMAIN engines /\ s \notin DOMAIN entries
      /\ DOMAIN entries' = DOMAIN entries \cup {s}
      /\ entries'[s] = [engine |-> e, refs |-> Cardinality(Waiting(s))]
      /\ Cardinality(Waiting(s)) \in Nat
      /\ \A t \in DOMAIN entries : entries'[t] = entries[t]
      /\ calls' = Woken(s, e)
  BY Settled, PoolAssumption
<1>2. pinned' = pinned
  BY DEF OpenSettles
<1>3. /\ DOMAIN calls' = DOMAIN calls
      /\ \A c \in Waiting(s) : calls'[c].shard = s /\ calls'[c].step = "holds" /\ calls'[c].engine = e
      /\ \A c \in DOMAIN calls \ Waiting(s) : calls'[c] = calls[c]
  <2>1. \A c \in DOMAIN calls : calls[c] \in CallRow
    BY DEF BookInv, TypeOK, CallRow
  <2>2. ASSUME NEW c \in Waiting(s)
        PROVE  calls'[c].shard = s /\ calls'[c].step = "holds" /\ calls'[c].engine = e
    <3>1. PICK row \in CallRow : row = calls[c] /\ row.shard = s
      BY <2>1 DEF Waiting
    <3>2. calls'[c] = [row EXCEPT !.step = "holds", !.engine = e]
      BY <1>1, <3>1 DEF Woken, Waiting
    <3>3. /\ [row EXCEPT !.step = "holds", !.engine = e].shard = row.shard
          /\ [row EXCEPT !.step = "holds", !.engine = e].step = "holds"
          /\ [row EXCEPT !.step = "holds", !.engine = e].engine = e
      BY DEF CallRow
    <3> QED
      BY <3>1, <3>2, <3>3
  <2> QED
    BY <1>1, <2>2 DEF Woken
<1>4. s \notin DOMAIN pinned /\ \A c \in DOMAIN calls : calls[c].step = "holds" => calls[c].shard # s
  BY <1>1 DEF HoldersFit, PinsFit
<1>5. Waiting(s) \subseteq DOMAIN calls /\ \A c \in DOMAIN calls : calls[c].step = "holds" => c \notin Waiting(s)
  BY DEF Waiting
<1>6. HoldersFit'
  <2> SUFFICES ASSUME NEW c \in DOMAIN calls', calls'[c].step = "holds"
               PROVE  /\ calls'[c].shard \in DOMAIN entries'
                      /\ calls'[c].engine = entries'[calls'[c].shard].engine
    BY DEF HoldersFit
  <2>1. CASE c \in Waiting(s)
    BY <1>1, <1>3, <2>1
  <2>2. CASE c \notin Waiting(s)
    BY <1>1, <1>3, <2>2 DEF HoldersFit
  <2> QED
    BY <2>1, <2>2
<1>7. PinsFit'
  BY <1>1, <1>2 DEF PinsFit
<1>8. Holders(s)' = Waiting(s)
  BY <1>3, <1>4, <1>5 DEF Holders
<1>9. \A t : t # s => Holders(t)' = Holders(t)
  BY <1>3, <1>5 DEF Holders, Waiting
<1>10. \A t : Pins(t)' = Pins(t)
  BY <1>2 DEF Pins
<1>11. Pins(s) = 0
  BY <1>4 DEF Pins
<1>12. entries'[s].refs >= Cardinality(Holders(s)') + Pins(s)'
  BY <1>1, <1>8, <1>10, <1>11
<1>13. ASSUME NEW t \in DOMAIN entries PROVE entries'[t].refs >= Cardinality(Holders(t)') + Pins(t)'
  BY <1>1, <1>9, <1>10, <1>13 DEF RefsCount
<1>14. RefsCount'
  BY <1>1, <1>12, <1>13 DEF RefsCount
<1> QED
  BY <1>6, <1>7, <1>14

LEMMA FinishUse ==
  ASSUME TypeOK, HoldersFit, PinsFit, RefsCount, NEW c \in Caller, Finish(c)
  PROVE  HoldersFit' /\ PinsFit' /\ RefsCount'
<1>0. PICK s : s = calls[c].shard
  OBVIOUS
<1>1. /\ c \in DOMAIN calls /\ calls[c].step = "holds" /\ Release(s)
      /\ calls' = Without(calls, {c}) /\ pinned' = pinned
  BY <1>0 DEF Finish, Holds
<1>2. s \in DOMAIN entries /\ entries[s].refs \in Nat
  BY <1>0, <1>1 DEF HoldersFit, TypeOK
<1>3. /\ DOMAIN entries' = DOMAIN entries
      /\ \A t \in DOMAIN entries : entries'[t].engine = entries[t].engine
      /\ entries'[s].refs = IF entries[s].refs > 0 THEN entries[s].refs - 1 ELSE 0
      /\ \A t \in DOMAIN entries : t # s => entries'[t] = entries[t]
  BY <1>1, <1>2, ReleaseTyped
<1>4. DOMAIN calls' = DOMAIN calls \ {c} /\ \A d \in DOMAIN calls' : calls'[d] = calls[d]
  BY <1>1 DEF Without
<1>5. HoldersFit' /\ PinsFit'
  <2>1. HoldersFit'
    BY <1>3, <1>4 DEF HoldersFit
  <2>2. PinsFit'
    BY <1>1, <1>3 DEF PinsFit
  <2> QED
    BY <2>1, <2>2
<1>6. Holders(s)' = Holders(s) \ {c} /\ c \in Holders(s)
  BY <1>0, <1>1, <1>4 DEF Holders
<1>7. \A t : t # s => Holders(t)' = Holders(t)
  BY <1>0, <1>4 DEF Holders
<1>8. \A t : Pins(t)' = Pins(t)
  BY <1>1 DEF Pins
<1>9. Cardinality(Holders(s)') = Cardinality(Holders(s)) - 1 /\ Cardinality(Holders(s)') \in Nat
  <2>1. Holders(s) \ {c} \subseteq Caller
    BY HoldersTyped
  <2> QED
    BY <1>6, <2>1, HoldersTyped, CallersCount
<1>10. entries'[s].refs >= Cardinality(Holders(s)') + Pins(s)'
  <2>1. entries[s].refs >= Cardinality(Holders(s)) + Pins(s)
    BY <1>2 DEF RefsCount
  <2> QED
    BY <1>2, <1>3, <1>8, <1>9, <2>1, HoldersTyped
<1>11. ASSUME NEW t \in DOMAIN entries, t # s
       PROVE  entries'[t].refs >= Cardinality(Holders(t)') + Pins(t)'
  BY <1>3, <1>7, <1>8, <1>11 DEF RefsCount
<1>12. RefsCount'
  BY <1>3, <1>10, <1>11 DEF RefsCount
<1> QED
  BY <1>5, <1>12

LEMMA KeepPinUse ==
  ASSUME TypeOK, HoldersFit, PinsFit, RefsCount, NEW c \in Caller, KeepPin(c)
  PROVE  HoldersFit' /\ PinsFit' /\ RefsCount'
<1>0. PICK s : s = calls[c].shard
  OBVIOUS
<1>1. /\ c \in DOMAIN calls /\ calls[c].step = "holds" /\ entries' = entries
      /\ calls' = Without(calls, {c}) /\ pinned' = With(pinned, s, calls[c].engine)
  BY <1>0 DEF KeepPin, Holds
<1>2. s \in DOMAIN entries /\ calls[c].engine = entries[s].engine /\ entries[s].refs \in Nat
  BY <1>0, <1>1 DEF HoldersFit, TypeOK
<1>3. /\ DOMAIN pinned' = DOMAIN pinned \cup {s} /\ pinned'[s] = entries[s].engine
      /\ \A t \in DOMAIN pinned : t # s => pinned'[t] = pinned[t]
  BY <1>1, <1>2 DEF With
<1>4. DOMAIN calls' = DOMAIN calls \ {c} /\ \A d \in DOMAIN calls' : calls'[d] = calls[d]
  BY <1>1 DEF Without
<1>5. HoldersFit'
  BY <1>1, <1>4 DEF HoldersFit
<1>6. PinsFit'
  BY <1>1, <1>2, <1>3 DEF PinsFit
<1>7. Holders(s)' = Holders(s) \ {c} /\ c \in Holders(s)
  BY <1>0, <1>1, <1>4 DEF Holders
<1>8. \A t : t # s => Holders(t)' = Holders(t) /\ Pins(t)' = Pins(t)
  BY <1>0, <1>3, <1>4 DEF Holders, Pins
<1>9. Cardinality(Holders(s)') = Cardinality(Holders(s)) - 1 /\ Cardinality(Holders(s)') \in Nat
  <2>1. Holders(s) \ {c} \subseteq Caller
    BY HoldersTyped
  <2> QED
    BY <1>7, <2>1, HoldersTyped, CallersCount
<1>10. entries'[s].refs >= Cardinality(Holders(s)') + Pins(s)'
  <2>1. entries[s].refs >= Cardinality(Holders(s)) + Pins(s)
    BY <1>2 DEF RefsCount
  <2>2. Pins(s)' = 1
    BY <1>3 DEF Pins
  <2> QED
    BY <1>1, <1>2, <1>9, <2>1, <2>2, HoldersTyped
<1>11. ASSUME NEW t \in DOMAIN entries, t # s
       PROVE  entries'[t].refs >= Cardinality(Holders(t)') + Pins(t)'
  BY <1>1, <1>8, <1>11 DEF RefsCount
<1>12. RefsCount'
  BY <1>1, <1>10, <1>11 DEF RefsCount
<1> QED
  BY <1>5, <1>6, <1>12

LEMMA ReleaseEngineUse ==
  ASSUME TypeOK, HoldersFit, PinsFit, RefsCount, NEW s \in Shard, ReleaseEngine(s)
  PROVE  HoldersFit' /\ PinsFit' /\ RefsCount'
<1>1. s \in DOMAIN pinned /\ Release(s) /\ calls' = calls /\ pinned' = Without(pinned, {s})
  BY DEF ReleaseEngine
<1>2. s \in DOMAIN entries /\ entries[s].refs \in Nat
  BY <1>1 DEF PinsFit, TypeOK
<1>3. /\ DOMAIN entries' = DOMAIN entries
      /\ \A t \in DOMAIN entries : entries'[t].engine = entries[t].engine
      /\ entries'[s].refs = IF entries[s].refs > 0 THEN entries[s].refs - 1 ELSE 0
      /\ \A t \in DOMAIN entries : t # s => entries'[t] = entries[t]
  BY <1>1, <1>2, ReleaseTyped
<1>4. DOMAIN pinned' = DOMAIN pinned \ {s} /\ \A t \in DOMAIN pinned' : pinned'[t] = pinned[t]
  BY <1>1 DEF Without
<1>5. HoldersFit' /\ PinsFit'
  BY <1>1, <1>3, <1>4 DEF HoldersFit, PinsFit
<1>6. \A t : Holders(t)' = Holders(t)
  BY <1>1 DEF Holders
<1>7. Pins(s) = 1 /\ Pins(s)' = 0 /\ \A t : t # s => Pins(t)' = Pins(t)
  BY <1>1, <1>4 DEF Pins
<1>8. entries'[s].refs >= Cardinality(Holders(s)') + Pins(s)'
  <2>1. entries[s].refs >= Cardinality(Holders(s)) + Pins(s)
    BY <1>2 DEF RefsCount
  <2> QED
    BY <1>2, <1>3, <1>6, <1>7, <2>1, HoldersTyped
<1>9. ASSUME NEW t \in DOMAIN entries, t # s
      PROVE  entries'[t].refs >= Cardinality(Holders(t)') + Pins(t)'
  BY <1>3, <1>6, <1>7, <1>9 DEF RefsCount
<1>10. RefsCount'
  BY <1>3, <1>8, <1>9 DEF RefsCount
<1> QED
  BY <1>5, <1>10

LEMMA UseStep == BookInv /\ UseInv /\ [Next]_vars => UseInv'
<1> SUFFICES ASSUME BookInv, UseInv, [Next]_vars PROVE UseInv'
  OBVIOUS
<1>0. TypeOK
  BY DEF BookInv
<1>1. CASE closed
  <2>1. closed'
    BY <1>1 DEF Next, vars, WithShard, PinEngine, Acquire, Finish, KeepPin, OpenStep, VictimClosed,
                OpenSettles, OpenFails, ReleaseEngine, Close, Terminated
  <2> QED
    BY <2>1, SMTT(30) DEF UseInv
<1>2. CASE ~closed
  <2>0. HoldersFit /\ PinsFit /\ RefsCount
    BY <1>2 DEF UseInv
  <2> SUFFICES closed' \/ (HoldersFit' /\ PinsFit' /\ RefsCount')
    BY DEF UseInv
  <2>1. ASSUME NEW c \in Caller, NEW s \in Shard, NEW kind, Acquire(c, s, kind)
        PROVE  HoldersFit' /\ PinsFit' /\ RefsCount'
    BY <1>0, <2>0, <2>1, RetainUse, AwaitUse DEF Acquire
  <2>2. ASSUME NEW c \in Caller, Finish(c) \/ KeepPin(c)
        PROVE  HoldersFit' /\ PinsFit' /\ RefsCount'
    BY <1>0, <2>0, <2>2, FinishUse, KeepPinUse
  <2>3. ASSUME NEW s \in Shard, VictimClosed(s)
        PROVE  HoldersFit' /\ PinsFit' /\ RefsCount'
    <3>1. calls' = calls /\ pinned' = pinned
      BY <2>3 DEF VictimClosed
    <3>2. /\ DOMAIN entries' \subseteq DOMAIN entries
          /\ \A t \in DOMAIN entries' : entries'[t] = entries[t]
          /\ \A t \in DOMAIN entries \ DOMAIN entries' : entries[t].refs = 0
      BY <2>3, DropsIdle DEF VictimClosed
    <3> QED
      BY <1>0, <2>0, <3>1, <3>2, UseStays
  <2>4. ASSUME NEW s \in Shard, OpenSettles(s) \/ OpenFails(s) \/ ReleaseEngine(s)
        PROVE  HoldersFit' /\ PinsFit' /\ RefsCount'
    BY <1>0, <2>0, <2>4, OpenSettlesUse, OpenFailsUse, ReleaseEngineUse
  <2>5. ASSUME Close PROVE closed'
    BY <2>5 DEF Close
  <2>6. ASSUME entries' = entries, calls' = calls, pinned' = pinned
        PROVE  HoldersFit' /\ PinsFit' /\ RefsCount'
    BY <1>0, <2>0, <2>6, UseStays
  <2>7. ASSUME NEW e, Terminated(e) PROVE HoldersFit' /\ PinsFit' /\ RefsCount'
    BY <2>6, <2>7 DEF Terminated
  <2>8. CASE UNCHANGED vars
    BY <2>6, <2>8 DEF vars
  <2> QED
    BY <2>1, <2>2, <2>3, <2>4, <2>5, <2>7, <2>8 DEF Next, WithShard, PinEngine, OpenStep
<1> QED
  BY <1>1, <1>2

LEMMA UseStart == Init => UseInv
<1> SUFFICES ASSUME Init PROVE HoldersFit /\ PinsFit /\ RefsCount
  BY DEF UseInv
<1>1. DOMAIN entries = {} /\ DOMAIN calls = {} /\ DOMAIN pinned = {}
  BY DEF Init
<1> QED
  BY <1>1 DEF HoldersFit, PinsFit, RefsCount

-----------------------------------------------------------------------------
(* The theorems *)

\* The books of the pool keep their types, through opens that fail, evictions
\* and a close() at any point (pool.ts).
THEOREM PoolTyped == Spec => []TypeOK
<1>1. BookInv => TypeOK
  BY DEF BookInv
<1> QED
  BY <1>1, BookStart, BookStep, PTL DEF Spec

\* Two engines of a shard are never open or opening at once: the single flight
\* of ShardPool.open, with any number of shards and callers.
THEOREM ShardHasOneEngine == Spec => []OneLiveEngine
  BY BooksUnlock, BookStart, BookStep, PTL DEF Spec

\* Nothing open is missing from ShardPool.entries and nothing in it is closed:
\* close() reaches every worker pool that is left.
THEOREM NoEngineLost == Spec => []EnginesTracked
  BY BooksUnlock, BookStart, BookStep, PTL DEF Spec

\* An engine is never evicted under a call or a pin (pool.ts,
\* federated-engine.ts), however they race.
THEOREM UseKeepsOpen == Spec => []InUseIsOpen
<1>1. Init => BookInv /\ UseInv
  BY BookStart, UseStart
<1>2. BookInv /\ UseInv /\ [Next]_vars => (BookInv /\ UseInv)'
  BY BookStep, UseStep
<1> QED
  BY <1>1, <1>2, UseUnlocks, PTL DEF Spec
===============================================================================
