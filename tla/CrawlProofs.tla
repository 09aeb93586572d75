----------------------------- MODULE CrawlProofs -----------------------------
(****************************************************************************)
(* Proofs about the crawls of one source: what a checkpoint covers and what *)
(* a crawl leaves behind, for any number of paths and changes, any batch    *)
(* size and any crawls that break off.                                      *)
(****************************************************************************)
EXTENDS CrawlRunner, WellFoundedInduction, TLAPS

-----------------------------------------------------------------------------
(* The invariant                                                            *)

Row == [content : Nat, stamp : Nat, fits : BOOLEAN]
Tree == UNION {[ps -> Row] : ps \in SUBSET Path}

\* A stamp is the state a path was last written in, and it kept what it got then.
RowKept(j, p) ==
  /\ trees[j][p].stamp \in 1..j
  /\ \A i \in trees[j][p].stamp..j : p \in DOMAIN trees[i] /\ trees[i][p] = trees[j][p]

Sourced ==
  /\ kind \in Kinds
  /\ trees \in Seq(Tree) /\ Len(trees) >= 1
  /\ \A j \in 1..Len(trees) : \A p \in DOMAIN trees[j] : RowKept(j, p)

\* A cursor somebody wrote, and the last one of the crawl under way.
Taken(c) == c.at \in 1..Len(trees) /\ c.page \in 0..MaxPath
Final == [at |-> crawl.at, page |-> 0]

Underway ==
  /\ crawl = [mode |-> crawl.mode, at |-> crawl.at, from |-> crawl.from, pos |-> crawl.pos, stage |-> crawl.stage,
              batch |-> crawl.batch, deletes |-> crawl.deletes, cursor |-> crawl.cursor]
  /\ crawl.mode \in {"full", "delta"} /\ crawl.stage \in {"docs", "end"}
  /\ crawl.at \in 1..Len(trees)
  /\ crawl.from = None \/ Taken(crawl.from)
  /\ crawl.mode = "delta" => Taken(crawl.from)
  /\ crawl.from.at <= crawl.at /\ checkpoint.at <= crawl.at
  /\ crawl.pos \in 0..MaxPath /\ DOMAIN crawl.batch \subseteq 1..crawl.pos
  /\ crawl.deletes # {} => crawl.stage = "end"
  /\ crawl.stage = "end" => crawl.cursor = Final
  /\ crawl.stage = "docs" /\ crawl.cursor # None => crawl.mode = "delta"
  /\ \/ crawl.cursor \in {None, Final}
     \/ crawl.mode = "delta" /\ crawl.cursor \in [at : {crawl.from.at}, page : Path]

ShapeInv == Sourced /\ (checkpoint = None \/ Taken(checkpoint)) /\ (Running => Underway)

\* A path unchanged since state i, and what the shard has of it or will have once
\* the batch is written.
Steady(i, p) == p \in DOMAIN Now /\ Now[p].stamp <= i
Holds(p) == p \in DOMAIN shard /\ shard[p] = Now[p].content
WillHold(p) == IF p \in DOMAIN crawl.batch THEN crawl.batch[p] = Now[p].content ELSE Holds(p)

\* A checkpoint covers what is unchanged since; a crawl covers as much of it as it
\* has passed, and deletes nothing of it.  What a delta of git finds as it was and
\* does not list was not written since its checkpoint either, or it was overlooked.
Due == Wanted \ overlooked
Covers(c) == \A p \in Due : Steady(c.at, p) => Holds(p)
Passed(p) == p <= crawl.pos \/ (crawl.mode = "delta" /\ Steady(crawl.from.at, p)) \/ crawl.cursor = Final

Committed == checkpoint # None => Covers(checkpoint)
OnTheWay == Running => \A p \in Due : Steady(crawl.at, p) /\ Passed(p) => WillHold(p)
DeletesOld == Running => \A p \in crawl.deletes \cap Wanted : ~Steady(crawl.at, p)
Listing == crawl.mode = "delta" /\ kind = "git-org" =>
  \A p \in DOMAIN At \ overlooked : SameBlob(From, At, p) => At[p].stamp <= crawl.from.at

CoverInv == ShapeInv /\ Committed /\ OnTheWay /\ DeletesOld /\ Listing

\* Where the connector looks for what is gone when it compares with state i.
Ever == UNION {DOMAIN trees[i] : i \in DOMAIN trees}
Home(i) ==
  CASE kind = "filesystem" -> Walk(trees[i])
    [] kind = "git-org"    -> DOMAIN trees[i]
    [] kind = "confluence" -> Ever

Rested == clean /\ ~Running => DOMAIN shard \subseteq IF checkpoint = None THEN {} ELSE Home(checkpoint.at)
Moving == clean /\ Running =>
  /\ DOMAIN crawl.batch \subseteq Home(crawl.at)
  /\ crawl.mode = "full" => checkpoint = None
  /\ DOMAIN shard \subseteq Home(crawl.at) \union
       (IF crawl.stage = "end" THEN crawl.deletes ELSE IF Full THEN {} ELSE Home(crawl.from.at))

GhostInv == ShapeInv /\ Rested /\ Moving

-----------------------------------------------------------------------------
(* Facts                                                                    *)

LEMMA Bounds == MaxPath \in Nat /\ Kinds \subseteq {"filesystem", "git-org", "confluence"}
  BY CrawlAssumption

\* A batch has a last path.
LastOf(s) == CHOOSE p \in s : \A q \in s : q <= p

LEMMA LastIsIn ==
  ASSUME NEW s \in SUBSET Path, s # {}
  PROVE  LastOf(s) \in s /\ \A q \in s : q <= LastOf(s)
<1> DEFINE Gaps == {MaxPath - p : p \in s}
<1>1. \A p \in s : p \in Nat /\ p <= MaxPath /\ MaxPath - p \in Nat
  BY Bounds DEF Path
<1>2. Gaps \subseteq Nat /\ Gaps # {}
  BY <1>1
<1>3. PICK g \in Gaps : \A f \in Gaps : ~(<<f, g>> \in OpToRel(<, Nat))
  BY <1>2, NatLessThanWellFounded, WFMin
<1>4. PICK last \in s : g = MaxPath - last
  OBVIOUS
<1>5. \A q \in s : MaxPath - q \in Gaps /\ ~(MaxPath - q < g)
  BY <1>1, <1>2, <1>3 DEF OpToRel
<1>6. \A q \in s : q <= last
  BY <1>1, <1>4, <1>5, Bounds
<1> QED
  BY <1>6 DEF LastOf

LEMMA TreeIs ==
  ASSUME NEW t \in Tree
  PROVE  DOMAIN t \subseteq Path /\ \A p \in DOMAIN t : t[p] \in Row /\ t[p].stamp \in Nat /\ t[p].content \in Nat
  BY DEF Tree, Row

LEMMA NowIs ==
  ASSUME Sourced
  PROVE  /\ Len(trees) \in Nat /\ Len(trees) >= 1 /\ DOMAIN trees = 1..Len(trees)
         /\ \A i \in 1..Len(trees) : trees[i] \in Tree
         /\ Now \in Tree /\ DOMAIN Now \subseteq Path /\ Wanted \subseteq DOMAIN Now
         /\ \A p \in DOMAIN Now : Now[p].stamp \in 1..Len(trees)
<1>1. Len(trees) \in Nat /\ Len(trees) >= 1 /\ DOMAIN trees = 1..Len(trees) /\ \A i \in 1..Len(trees) : trees[i] \in Tree
  BY DEF Sourced
<1>2. Now \in Tree
  BY <1>1 DEF Now
<1>3. Wanted \subseteq DOMAIN Now
  BY DEF Wanted, Walk
<1> QED
  BY <1>1, <1>2, <1>3, TreeIs DEF Sourced, RowKept, Now

\* What is unchanged since state i stood there all along.
LEMMA SteadyIs ==
  ASSUME Sourced, NEW i \in 1..Len(trees), NEW k \in i..Len(trees), NEW p, Steady(i, p)
  PROVE  p \in DOMAIN trees[k] /\ trees[k][p] = Now[p] /\ Steady(k, p)
<1>1. Len(trees) \in Nat /\ Len(trees) \in 1..Len(trees) /\ p \in DOMAIN Now /\ Now[p].stamp \in 1..Len(trees)
  BY NowIs DEF Steady
<1>2. RowKept(Len(trees), p)
  BY <1>1 DEF Sourced, Now
<1>3. k \in Now[p].stamp..Len(trees)
  BY <1>1 DEF Steady
<1> QED
  BY <1>1, <1>2, <1>3 DEF RowKept, Now, Steady

\* What two states have with one stamp is unchanged since the first.
LEMMA SameIsSteady ==
  ASSUME Sourced, NEW i \in 1..Len(trees), NEW p \in DOMAIN Now, p \in DOMAIN trees[i],
         trees[i][p].stamp = Now[p].stamp
  PROVE  Steady(i, p)
<1>1. Len(trees) \in 1..Len(trees) /\ p \in DOMAIN trees[Len(trees)] /\ Len(trees) \in Nat
  BY NowIs DEF Now
<1>2. RowKept(i, p) /\ RowKept(Len(trees), p)
  BY <1>1 DEF Sourced
<1>3. trees[i][p].stamp = Now[p].stamp /\ trees[i][p].stamp \in 1..i
  BY <1>2 DEF RowKept, Now
<1> QED
  BY <1>3 DEF Steady

-----------------------------------------------------------------------------
(* The source changes                                                       *)

LEMMA ChangeKeeps ==
  ASSUME Sourced, NEW tree \in Tree, Change(tree),
         \A p \in DOMAIN tree :
           \/ tree[p].stamp = Len(trees) + 1
           \/ p \in DOMAIN Now /\ tree[p] = Now[p]
  PROVE  /\ Sourced'
         /\ Len(trees') = Len(trees) + 1 /\ \A i \in 1..Len(trees) : trees'[i] = trees[i]
         /\ \A i \in 1..Len(trees) : \A p : Steady(i, p)' => Steady(i, p) /\ Now'[p] = Now[p]
<1>1. Len(trees) \in Nat /\ Len(trees) >= 1 /\ DOMAIN trees = 1..Len(trees) /\ trees \in Seq(Tree)
  BY NowIs DEF Sourced
<1>2. trees' = Append(trees, tree) /\ kind' = kind
  BY DEF Change
<1>3. /\ trees' \in Seq(Tree) /\ Len(trees') = Len(trees) + 1 /\ trees'[Len(trees) + 1] = tree
      /\ \A i \in 1..Len(trees) : trees'[i] = trees[i]
  BY <1>1, <1>2
<1>4. Now' = tree
  BY <1>3 DEF Now
<1>5. ASSUME NEW j \in 1..Len(trees), NEW p \in DOMAIN trees'[j] PROVE RowKept(j, p)'
  <2>1. p \in DOMAIN trees[j] /\ trees'[j] = trees[j] /\ RowKept(j, p)
    BY <1>3, <1>5 DEF Sourced
  <2>2. \A i \in trees[j][p].stamp..j : i \in 1..Len(trees)
    BY <2>1, <1>1 DEF RowKept
  <2> QED
    BY <2>1, <2>2, <1>2, <1>3 DEF RowKept
<1> PICK n \in Nat : n = Len(trees) + 1
  BY <1>1
<1>6. ASSUME NEW p \in DOMAIN tree PROVE RowKept(n, p)'
  <2>1. CASE tree[p].stamp = Len(trees) + 1
    BY <2>1, <1>1, <1>2, <1>3, <1>6 DEF RowKept
  <2>2. CASE p \in DOMAIN Now /\ tree[p] = Now[p]
    <3>1. RowKept(Len(trees), p)
      BY <2>2, <1>1 DEF Sourced, Now
    <3>2. \A i \in tree[p].stamp..(Len(trees) + 1) :
            i = Len(trees) + 1 \/ (i \in Now[p].stamp..Len(trees) /\ i \in 1..Len(trees))
      BY <2>2, <3>1, <1>1 DEF RowKept, Now
    <3>3. \A i \in tree[p].stamp..(Len(trees) + 1) : p \in DOMAIN trees'[i] /\ trees'[i][p] = tree[p]
      BY <2>2, <3>1, <3>2, <1>3 DEF RowKept, Now
    <3>4. tree[p].stamp \in 1..(Len(trees) + 1)
      BY <2>2, <3>1, <1>1 DEF RowKept, Now
    <3> QED
      BY <3>3, <3>4, <1>2, <1>3 DEF RowKept
  <2> QED
    BY <2>1, <2>2
<1>7. Sourced'
  <2>1. ASSUME NEW j \in 1..Len(trees'), NEW p \in DOMAIN trees'[j] PROVE RowKept(j, p)'
    <3>1. CASE j = n
      BY <3>1, <1>3, <1>6, <2>1
    <3>2. CASE j \in 1..Len(trees)
      BY <3>2, <1>5, <2>1
    <3> QED
      BY <3>1, <3>2, <1>1, <1>3
  <2> QED
    BY <2>1, <1>1, <1>2, <1>3 DEF Sourced
<1>8. ASSUME NEW i \in 1..Len(trees), NEW p, Steady(i, p)'
      PROVE  Steady(i, p) /\ Now'[p] = Now[p]
  <2>1. p \in DOMAIN tree /\ tree[p].stamp <= i
    BY <1>8, <1>4 DEF Steady
  <2>2. p \in DOMAIN Now /\ tree[p] = Now[p]
    BY <2>1, <1>1
  <2> QED
    BY <2>1, <2>2, <1>4 DEF Steady
<1> QED
  BY <1>3, <1>7, <1>8

\* Whatever happens to the source, a crawl, its checkpoint and the shard are as
\* they were, older states too, and what is unchanged since one of them was
\* unchanged before.
LEMMA SourceKeeps ==
  ASSUME Sourced, SourceStep
  PROVE  /\ Sourced'
         /\ Len(trees') = Len(trees) + 1 /\ \A i \in 1..Len(trees) : trees'[i] = trees[i]
         /\ \A i \in 1..Len(trees) : \A p : Steady(i, p)' => Steady(i, p) /\ Now'[p] = Now[p]
         /\ UNCHANGED <<kind, shard, checkpoint, cache, crawl, faults, overlooked, clean>>
<1>1. Len(trees) \in Nat /\ Now \in Tree /\ DOMAIN Now \subseteq Path
  BY NowIs
<1>2. \A p \in DOMAIN Now : Now[p] \in Row
  BY <1>1, TreeIs
<1>3. ASSUME NEW p \in Path, NEW content \in Nat, NEW fits \in BOOLEAN
      PROVE  /\ With(p, content, fits) \in Tree
             /\ \A q \in DOMAIN With(p, content, fits) :
                  \/ With(p, content, fits)[q].stamp = Len(trees) + 1
                  \/ q \in DOMAIN Now /\ With(p, content, fits)[q] = Now[q]
  <2>1. [content |-> content, stamp |-> Len(trees) + 1, fits |-> fits] \in Row
    BY <1>1, <1>3 DEF Row
  <2>2. With(p, content, fits) \in [DOMAIN Now \cup {p} -> Row]
    BY <2>1, <1>2 DEF With
  <2>3. DOMAIN Now \cup {p} \in SUBSET Path
    BY <1>1
  <2> QED
    BY <1>3, <2>2, <2>3 DEF With, Tree
<1>4. ASSUME NEW p \in Path, Remove(p)
      PROVE  \E tree \in Tree : Change(tree) /\ \A q \in DOMAIN tree : q \in DOMAIN Now /\ tree[q] = Now[q]
  <2> DEFINE tree == [q \in DOMAIN Now \ {p} |-> Now[q]]
  <2>1. tree \in [DOMAIN Now \ {p} -> Row] /\ DOMAIN Now \ {p} \in SUBSET Path
    BY <1>1, <1>2
  <2>2. tree \in Tree
    BY <2>1 DEF Tree
  <2> QED
    BY <1>4, <2>2 DEF Remove
<1>5. \E tree \in Tree :
        /\ Change(tree)
        /\ \A q \in DOMAIN tree :
             \/ tree[q].stamp = Len(trees) + 1
             \/ q \in DOMAIN Now /\ tree[q] = Now[q]
  <2>1. ASSUME NEW p \in Path, Write(p)
        PROVE  \E content \in Nat, fits \in BOOLEAN : Change(With(p, content, fits))
    <3>1. \A old \in Past(p) : old.content \in Nat /\ old.fits \in BOOLEAN
      BY NowIs, TreeIs DEF Past, Row
    <3>2. Len(trees) + 1 \in Nat
      BY <1>1
    <3> QED
      BY <2>1, <3>1, <3>2 DEF Write, WriteNew, WriteBack
  <2>2. ASSUME NEW p \in Path, Touch(p)
        PROVE  \E content \in Nat, fits \in BOOLEAN : Change(With(p, content, fits))
    <3>1. Now[p].content \in Nat /\ Now[p].fits \in BOOLEAN
      BY <2>2, <1>2 DEF Touch, Row
    <3> QED
      BY <2>2, <3>1 DEF Touch
  <2>3. CASE \E p \in Path : Write(p) \/ Touch(p)
    BY <2>1, <2>2, <2>3, <1>3
  <2>4. CASE \E p \in Path : Remove(p)
    BY <2>4, <1>4
  <2> QED
    BY <2>3, <2>4 DEF SourceStep
<1>6. UNCHANGED <<kind, shard, checkpoint, cache, crawl, faults, overlooked, clean>>
  BY <1>5 DEF Change
<1> QED
  BY <1>5, <1>6, ChangeKeeps

-----------------------------------------------------------------------------
(* What the steps of a crawl do to its record                               *)

Goes(pos, stage, batch, deletes, cursor) ==
  crawl' = [mode |-> crawl.mode, at |-> crawl.at, from |-> crawl.from, pos |-> pos, stage |-> stage,
            batch |-> batch, deletes |-> deletes, cursor |-> cursor]

LEMMA ExceptGoes ==
  ASSUME Underway, NEW pos, NEW stage, NEW batch, NEW deletes, NEW cursor,
         crawl' = [crawl EXCEPT !.pos = pos, !.stage = stage, !.batch = batch, !.deletes = deletes, !.cursor = cursor]
  PROVE  Goes(pos, stage, batch, deletes, cursor)
  BY DEF Underway, Goes

LEMMA GoesFields ==
  ASSUME NEW pos, NEW stage, NEW batch, NEW deletes, NEW cursor, Goes(pos, stage, batch, deletes, cursor)
  PROVE  /\ crawl'.mode = crawl.mode /\ crawl'.at = crawl.at /\ crawl'.from = crawl.from
         /\ crawl'.pos = pos /\ crawl'.stage = stage /\ crawl'.batch = batch
         /\ crawl'.deletes = deletes /\ crawl'.cursor = cursor
         /\ crawl' = [mode |-> crawl'.mode, at |-> crawl'.at, from |-> crawl'.from, pos |-> crawl'.pos,
                      stage |-> crawl'.stage, batch |-> crawl'.batch, deletes |-> crawl'.deletes, cursor |-> crawl'.cursor]
  BY DEF Goes

LEMMA SourceStays ==
  ASSUME Sourced, UNCHANGED <<kind, trees>>
  PROVE  /\ Sourced' /\ Now' = Now /\ Wanted' = Wanted
         /\ \A i : Home(i)' = Home(i)
         /\ \A c : Taken(c)' <=> Taken(c)
<1>1. Sourced'
  BY DEF Sourced, RowKept
<1> QED
  BY <1>1 DEF Now, Wanted, Walk, Home, Ever, Taken

LEMMA OffIsNot ==
  /\ Off.mode = "off" /\ Off.batch = NoDocs /\ DOMAIN Off.batch = {} /\ Off.deletes = {} /\ Off.stage = "end"
  /\ Off.cursor = None /\ Off.pos = 0 /\ None.at = 0 /\ None.page = 0
  /\ DOMAIN NoDocs = {}
  BY DEF Off, NoDocs, None

LEMMA GoesShape ==
  ASSUME ShapeInv, Running, UNCHANGED <<kind, trees>>,
         NEW pos \in 0..MaxPath, NEW stage \in {"docs", "end"}, NEW batch, DOMAIN batch \subseteq 1..pos,
         NEW deletes, deletes # {} => stage = "end", NEW cursor,
         stage = "end" => cursor = Final,
         stage = "docs" /\ cursor # None => crawl.mode = "delta",
         \/ cursor \in {None, Final}
         \/ crawl.mode = "delta" /\ cursor \in [at : {crawl.from.at}, page : Path],
         Goes(pos, stage, batch, deletes, cursor),
         NEW c, checkpoint' = c, c = checkpoint \/ (Taken(c) /\ c.at <= crawl.at)
  PROVE  ShapeInv' /\ Running'
<1>1. Underway
  BY DEF ShapeInv
<1>2. /\ crawl'.mode = crawl.mode /\ crawl'.at = crawl.at /\ crawl'.from = crawl.from
      /\ crawl'.pos = pos /\ crawl'.stage = stage /\ crawl'.batch = batch
      /\ crawl'.deletes = deletes /\ crawl'.cursor = cursor
      /\ crawl' = [mode |-> crawl'.mode, at |-> crawl'.at, from |-> crawl'.from, pos |-> crawl'.pos,
                   stage |-> crawl'.stage, batch |-> crawl'.batch, deletes |-> crawl'.deletes, cursor |-> crawl'.cursor]
  BY GoesFields
<1>3. Sourced' /\ \A d : Taken(d)' <=> Taken(d)
  BY SourceStays DEF ShapeInv
<1>4. Final' = Final
  BY <1>2 DEF Final
<1>5. Running'
  BY <1>1, <1>2, OffIsNot DEF Underway, Running
<1>6. Underway'
  BY <1>1, <1>2, <1>3, <1>4 DEF Underway
<1>7. (checkpoint = None \/ Taken(checkpoint))'
  BY <1>3 DEF ShapeInv
<1> QED
  BY <1>3, <1>5, <1>6, <1>7 DEF ShapeInv

\* A batch of s, its last path and the cursor with it.
Batched(s, last, cursor) ==
  /\ s \subseteq DOMAIN Read /\ last \in Path
  /\ \A q \in s : q <= last
  /\ \A q \in Rest \ s : last < q
  /\ Goes(last, "docs", [p \in s |-> Read[p].content], {}, cursor)
  /\ \/ cursor = None
     \/ crawl.mode = "delta" /\ cursor = Final /\ s = Rest
     \/ crawl.mode = "delta" /\ cursor \in [at : {crawl.from.at}, page : Path]

LEMMA NextBatchIs ==
  ASSUME ShapeInv, NextBatch
  PROVE  /\ Running /\ Underway /\ crawl.stage = "docs"
         /\ DOMAIN crawl.batch = {} /\ crawl.deletes = {} /\ crawl.cursor = None
         /\ UNCHANGED <<kind, trees, faults, overlooked, clean, shard, checkpoint, cache>>
         /\ \E s \in SUBSET Rest : \E last \in s : \E cursor : Batched(s, last, cursor)
<1>1. /\ Running /\ Underway /\ crawl.stage = "docs"
      /\ DOMAIN crawl.batch = {} /\ crawl.deletes = {} /\ crawl.cursor = None
      /\ UNCHANGED <<kind, trees, faults, overlooked, clean, shard, checkpoint, cache>>
  BY OffIsNot, SMTT(30) DEF NextBatch, Idle, Keep, ShapeInv
<1>2. PICK s \in (SUBSET Rest) \ {{}} :
        /\ IsSlice(s)
        /\ s \subseteq DOMAIN Read
        /\ crawl' = [crawl EXCEPT !.batch = [p \in s |-> Read[p].content],
                                  !.pos = CHOOSE p \in s : \A q \in s : q <= p,
                                  !.cursor = PageCursor(s)]
  BY DEF NextBatch
<1> DEFINE last == LastOf(s)
           batch == [p \in s |-> Read[p].content]
<1>3. s \subseteq Path
  <2>1. DOMAIN Read \subseteq Path
    BY <1>1, NowIs, TreeIs DEF Read, At, ShapeInv, Underway
  <2> QED
    BY <2>1, <1>2
<1>4. last \in s /\ \A q \in s : q <= last
  <2>1. s \in SUBSET Path /\ s # {}
    BY <1>2, <1>3
  <2> QED
    BY <2>1, LastIsIn
<1>5. \A q \in Rest \ s : last < q
  BY <1>2, <1>4 DEF IsSlice
<1>6. \/ PageCursor(s) = None
      \/ crawl.mode = "delta" /\ PageCursor(s) = Final /\ s = Rest
      \/ crawl.mode = "delta" /\ PageCursor(s) \in [at : {crawl.from.at}, page : Path]
  BY <1>1, <1>3, <1>4 DEF PageCursor, Full, Final, Underway, LastOf
<1> HIDE DEF last
<1>7. Goes(last, "docs", batch, {}, PageCursor(s))
  <2>1. crawl' = [crawl EXCEPT !.batch = batch, !.pos = last, !.cursor = PageCursor(s)]
    BY <1>2 DEF last, LastOf
  <2> HIDE DEF batch
  <2>2. crawl' = [crawl EXCEPT !.pos = last, !.stage = "docs", !.batch = batch, !.deletes = {}, !.cursor = PageCursor(s)]
    BY <2>1, <1>1 DEF Underway
  <2> QED
    BY <1>1, <2>2, ExceptGoes
<1>8. last \in s /\ Batched(s, last, PageCursor(s))
  BY <1>2, <1>3, <1>4, <1>5, <1>6, <1>7 DEF Batched
<1> QED
  BY <1>1, <1>2, <1>8

LEMMA NextLastIs ==
  ASSUME ShapeInv, NextLast
  PROVE  /\ Running /\ Underway /\ crawl.stage = "docs" /\ Rest = {}
         /\ DOMAIN crawl.batch = {} /\ crawl.deletes = {} /\ crawl.cursor = None
         /\ UNCHANGED <<kind, trees, faults, overlooked, clean, shard, checkpoint, cache>>
         /\ Goes(crawl.pos, "end", crawl.batch, Gone, Final)
<1>1. /\ Running /\ Underway /\ crawl.stage = "docs" /\ Rest = {}
      /\ DOMAIN crawl.batch = {} /\ crawl.deletes = {} /\ crawl.cursor = None
      /\ UNCHANGED <<kind, trees, faults, overlooked, clean, shard, checkpoint, cache>>
      /\ crawl' = [crawl EXCEPT !.deletes = Gone, !.stage = "end", !.cursor = Final]
  BY OffIsNot DEF NextLast, Idle, Keep, ShapeInv, Final
<1>2. crawl' = [crawl EXCEPT !.pos = crawl.pos, !.stage = "end", !.batch = crawl.batch, !.deletes = Gone, !.cursor = Final]
  BY <1>1 DEF Underway
<1> QED
  BY <1>1, <1>2, ExceptGoes

LEMMA ReplaceIs ==
  ASSUME ShapeInv, ReplaceDocument
  PROVE  /\ Running /\ Underway
         /\ UNCHANGED <<kind, trees, faults, overlooked, clean, checkpoint, cache>>
         /\ \E p \in DOMAIN crawl.batch :
              /\ shard' = [q \in DOMAIN shard \cup {p} |-> IF q = p THEN crawl.batch[p] ELSE shard[q]]
              /\ Goes(crawl.pos, crawl.stage, [q \in DOMAIN crawl.batch \ {p} |-> crawl.batch[q]],
                      crawl.deletes, crawl.cursor)
<1>1. PICK p \in DOMAIN crawl.batch :
        /\ shard' = [q \in DOMAIN shard \cup {p} |-> IF q = p THEN crawl.batch[p] ELSE shard[q]]
        /\ crawl' = [crawl EXCEPT !.batch = [q \in DOMAIN crawl.batch \ {p} |-> crawl.batch[q]]]
  BY DEF ReplaceDocument
<1>2. /\ Running /\ Underway
      /\ UNCHANGED <<kind, trees, faults, overlooked, clean, checkpoint, cache>>
  BY <1>1, OffIsNot DEF ReplaceDocument, Keep, ShapeInv, Running
<1> DEFINE batch == [q \in DOMAIN crawl.batch \ {p} |-> crawl.batch[q]]
<1> HIDE DEF batch
<1>3. crawl' = [crawl EXCEPT !.pos = crawl.pos, !.stage = crawl.stage, !.batch = batch,
                             !.deletes = crawl.deletes, !.cursor = crawl.cursor]
  <2>1. crawl' = [crawl EXCEPT !.batch = batch]
    BY <1>1 DEF batch
  <2> QED
    BY <2>1, <1>2 DEF Underway
<1>4. Goes(crawl.pos, crawl.stage, batch, crawl.deletes, crawl.cursor)
  BY <1>2, <1>3, ExceptGoes
<1> QED
  BY <1>1, <1>2, <1>4 DEF batch

LEMMA DeleteIs ==
  ASSUME ShapeInv, DeleteDocument
  PROVE  /\ Running /\ Underway /\ crawl.stage = "end" /\ DOMAIN crawl.batch = {}
         /\ UNCHANGED <<kind, trees, faults, overlooked, clean, checkpoint, cache>>
         /\ \E p \in crawl.deletes :
              /\ shard' = [q \in DOMAIN shard \ {p} |-> shard[q]]
              /\ Goes(crawl.pos, crawl.stage, crawl.batch, crawl.deletes \ {p}, crawl.cursor)
<1>1. PICK p \in crawl.deletes :
        /\ shard' = [q \in DOMAIN shard \ {p} |-> shard[q]]
        /\ crawl' = [crawl EXCEPT !.deletes = crawl.deletes \ {p}]
  BY DEF DeleteDocument
<1>2. /\ Running /\ Underway /\ DOMAIN crawl.batch = {}
      /\ UNCHANGED <<kind, trees, faults, overlooked, clean, checkpoint, cache>>
  BY <1>1, OffIsNot DEF DeleteDocument, Keep, ShapeInv, Running
<1>3. crawl' = [crawl EXCEPT !.pos = crawl.pos, !.stage = crawl.stage, !.batch = crawl.batch,
                             !.deletes = crawl.deletes \ {p}, !.cursor = crawl.cursor]
  BY <1>1, <1>2 DEF Underway
<1>4. Goes(crawl.pos, crawl.stage, crawl.batch, crawl.deletes \ {p}, crawl.cursor)
  BY <1>2, <1>3, ExceptGoes
<1> QED
  BY <1>1, <1>2, <1>4 DEF Underway

LEMMA PutCheckpointIs ==
  ASSUME ShapeInv, PutCheckpoint
  PROVE  /\ Running /\ Underway
         /\ DOMAIN crawl.batch = {} /\ crawl.deletes = {}
         /\ crawl.cursor.at <= crawl.at /\ Taken(crawl.cursor) /\ crawl.cursor # None
         /\ UNCHANGED <<kind, trees, faults, overlooked, clean, shard, cache>> /\ checkpoint' = crawl.cursor
         /\ crawl.stage = "end" => crawl' = Off
         /\ crawl.stage = "docs" =>
              Goes(crawl.pos, crawl.stage, crawl.batch, crawl.deletes, None) /\ crawl.mode = "delta"
<1>1. /\ Running /\ Underway /\ crawl.cursor # None
      /\ DOMAIN crawl.batch = {} /\ crawl.deletes = {}
      /\ UNCHANGED <<kind, trees, faults, overlooked, clean, shard, cache>> /\ checkpoint' = crawl.cursor
      /\ crawl.stage = "end" => crawl' = Off
      /\ crawl.stage = "docs" => crawl' = [crawl EXCEPT !.cursor = None]
  BY OffIsNot DEF PutCheckpoint, Keep, ShapeInv, Running
<1>2. crawl.cursor.at <= crawl.at /\ Taken(crawl.cursor)
  BY <1>1, Bounds, NowIs DEF Underway, Taken, Final, Path, ShapeInv
<1>3. ASSUME crawl.stage = "docs"
      PROVE  Goes(crawl.pos, crawl.stage, crawl.batch, crawl.deletes, None) /\ crawl.mode = "delta"
  <2>1. crawl' = [crawl EXCEPT !.pos = crawl.pos, !.stage = crawl.stage, !.batch = crawl.batch,
                               !.deletes = crawl.deletes, !.cursor = None]
    BY <1>1, <1>3 DEF Underway
  <2> QED
    BY <1>1, <1>3, <2>1, ExceptGoes DEF Underway
<1> QED
  BY <1>1, <1>2, <1>3

\* A crawl begins at the state of the source, or a diff of git is not possible.
LEMMA StartIs ==
  ASSUME ShapeInv, NEW mode \in {"full", "delta"}, Start(mode)
  PROVE  /\ ~Running /\ (mode = "delta" => checkpoint # None)
         /\ UNCHANGED <<kind, trees, shard, checkpoint, faults>>
         /\ clean' => clean /\ (mode = "full" => checkpoint = None)
         /\ overlooked \subseteq overlooked' /\ (crawl'.mode = "delta" => Overlooked \subseteq overlooked')
         /\ \/ crawl' = Off
            \/ \E pos \in 0..MaxPath :
                 /\ mode = "delta" => pos = checkpoint.page
                 /\ mode = "full" => pos = 0
                 /\ crawl' = [mode |-> mode, at |-> Len(trees), from |-> checkpoint, pos |-> pos, stage |-> "docs",
                              batch |-> NoDocs, deletes |-> {}, cursor |-> None]
<1> DEFINE pos == IF mode = "delta" THEN checkpoint.page ELSE 0
<1>1. /\ ~Running /\ (mode = "delta" => checkpoint # None)
      /\ UNCHANGED <<kind, trees, shard, checkpoint, faults>>
      /\ clean' => clean /\ (mode = "full" => checkpoint = None)
      /\ \/ crawl' = Off
         \/ crawl' = [Off EXCEPT !.mode = mode, !.at = Len(trees), !.stage = "docs", !.from = checkpoint, !.pos = pos]
  BY DEF Start
<1>2. pos \in 0..MaxPath /\ (mode = "delta" => pos = checkpoint.page) /\ (mode = "full" => pos = 0)
  BY <1>1, Bounds DEF ShapeInv, Taken
<1>3. overlooked \subseteq overlooked' /\ (crawl'.mode = "delta" => Overlooked \subseteq overlooked')
  BY DEF Start
<1> HIDE DEF pos
<1>4. \/ crawl' = Off
      \/ crawl' = [mode |-> mode, at |-> Len(trees), from |-> checkpoint, pos |-> pos, stage |-> "docs",
                   batch |-> NoDocs, deletes |-> {}, cursor |-> None]
  BY <1>1 DEF Off
<1> QED
  BY <1>1, <1>2, <1>3, <1>4

-----------------------------------------------------------------------------
(* The shape                                                                *)

LEMMA ShapeStart == Init => ShapeInv
<1> SUFFICES ASSUME Init PROVE ShapeInv
  OBVIOUS
<1>1. PICK ps \in SUBSET Path : trees = <<[p \in ps |-> [content |-> 1, stamp |-> 1, fits |-> TRUE]]>>
  BY DEF Init
<1> DEFINE tree == [p \in ps |-> [content |-> 1, stamp |-> 1, fits |-> TRUE]]
<1>2. tree \in Tree /\ \A p \in DOMAIN tree : tree[p].stamp = 1 /\ tree[p].content = 1
  <2>1. tree \in [ps -> Row]
    BY DEF Row
  <2> QED
    BY <2>1 DEF Tree
<1> HIDE DEF tree
<1>3. trees \in Seq(Tree) /\ Len(trees) = 1 /\ trees[1] = tree
  BY <1>1, <1>2 DEF tree
<1>4. Sourced
  BY <1>2, <1>3 DEF Sourced, RowKept, Init
<1> QED
  BY <1>4 DEF ShapeInv, Init, Running

LEMMA ShapeOff ==
  ASSUME ShapeInv, UNCHANGED <<kind, trees>>, crawl' = Off,
         NEW c, checkpoint' = c, c = checkpoint \/ Taken(c)
  PROVE  ShapeInv' /\ ~Running'
<1>1. Sourced' /\ \A d : Taken(d)' <=> Taken(d)
  BY SourceStays DEF ShapeInv
<1> QED
  BY <1>1 DEF ShapeInv, Running

LEMMA StartShape ==
  ASSUME ShapeInv, NEW mode \in {"full", "delta"}, Start(mode)
  PROVE  ShapeInv'
<1>1. /\ UNCHANGED <<kind, trees, checkpoint>> /\ (mode = "delta" => checkpoint # None)
  BY StartIs
<1>2. CASE crawl' = Off
  BY <1>1, <1>2, ShapeOff
<1>3. ASSUME NEW pos \in 0..MaxPath,
             crawl' = [mode |-> mode, at |-> Len(trees), from |-> checkpoint, pos |-> pos, stage |-> "docs",
                       batch |-> NoDocs, deletes |-> {}, cursor |-> None]
      PROVE  ShapeInv'
  <2>1. /\ crawl'.mode = mode /\ crawl'.at = Len(trees) /\ crawl'.from = checkpoint /\ crawl'.pos = pos
        /\ crawl'.stage = "docs" /\ crawl'.batch = NoDocs /\ crawl'.deletes = {} /\ crawl'.cursor = None
        /\ crawl' = [mode |-> crawl'.mode, at |-> crawl'.at, from |-> crawl'.from, pos |-> crawl'.pos,
                     stage |-> crawl'.stage, batch |-> crawl'.batch, deletes |-> crawl'.deletes, cursor |-> crawl'.cursor]
    BY <1>3
  <2>2. Sourced' /\ \A d : Taken(d)' <=> Taken(d)
    BY <1>1, SourceStays DEF ShapeInv
  <2>3. Len(trees) \in 1..Len(trees) /\ checkpoint.at <= Len(trees)
    BY NowIs, OffIsNot DEF ShapeInv, Taken
  <2>4. Underway'
    BY <1>1, <2>1, <2>2, <2>3, OffIsNot DEF ShapeInv, Underway
  <2> QED
    BY <1>1, <2>2, <2>4 DEF ShapeInv
<1> QED
  BY <1>2, <1>3, StartIs

LEMMA NextBatchShape ==
  ASSUME ShapeInv, NextBatch
  PROVE  ShapeInv' /\ Running'
<1>1. /\ Running /\ UNCHANGED <<kind, trees, checkpoint>>
  BY NextBatchIs
<1>2. PICK s \in SUBSET Rest : \E last \in s : \E cursor : Batched(s, last, cursor)
  BY NextBatchIs
<1>3. PICK last \in s : \E cursor : Batched(s, last, cursor)
  BY <1>2
<1>4. PICK cursor : Batched(s, last, cursor)
  BY <1>3
<1> DEFINE batch == [p \in s |-> Read[p].content]
<1>5. DOMAIN batch \subseteq 1..last /\ last \in 0..MaxPath
  <2>1. DOMAIN Read \subseteq Path
    BY NextBatchIs, NowIs, TreeIs DEF Read, At, ShapeInv, Underway
  <2> QED
    BY <2>1, <1>4, Bounds DEF Batched, Path
<1> HIDE DEF batch
<1>6. Goes(last, "docs", batch, {}, cursor)
  BY <1>4 DEF Batched, batch
<1>7. \/ cursor \in {None, Final} /\ (cursor # None => crawl.mode = "delta")
      \/ crawl.mode = "delta" /\ cursor \in [at : {crawl.from.at}, page : Path]
  BY <1>4 DEF Batched
<1> QED
  BY <1>1, <1>5, <1>6, <1>7, GoesShape

LEMMA NextLastShape ==
  ASSUME ShapeInv, NextLast
  PROVE  ShapeInv' /\ Running'
<1>1. /\ Running /\ Underway /\ UNCHANGED <<kind, trees, checkpoint>>
      /\ Goes(crawl.pos, "end", crawl.batch, Gone, Final)
  BY NextLastIs
<1> QED
  BY <1>1, GoesShape DEF Underway

LEMMA ReplaceShape ==
  ASSUME ShapeInv, ReplaceDocument
  PROVE  ShapeInv' /\ Running'
<1>1. /\ Running /\ Underway /\ UNCHANGED <<kind, trees, checkpoint>>
  BY ReplaceIs
<1>2. PICK p \in DOMAIN crawl.batch :
        Goes(crawl.pos, crawl.stage, [q \in DOMAIN crawl.batch \ {p} |-> crawl.batch[q]], crawl.deletes, crawl.cursor)
  BY ReplaceIs
<1> DEFINE batch == [q \in DOMAIN crawl.batch \ {p} |-> crawl.batch[q]]
<1>3. DOMAIN batch \subseteq 1..crawl.pos
  BY <1>1 DEF Underway
<1> HIDE DEF batch
<1>4. Goes(crawl.pos, crawl.stage, batch, crawl.deletes, crawl.cursor)
  BY <1>2 DEF batch
<1> QED
  BY <1>1, <1>3, <1>4, GoesShape DEF Underway

LEMMA DeleteShape ==
  ASSUME ShapeInv, DeleteDocument
  PROVE  ShapeInv' /\ Running'
<1>1. /\ Running /\ Underway /\ crawl.stage = "end" /\ UNCHANGED <<kind, trees, checkpoint>>
  BY DeleteIs
<1>2. PICK p \in crawl.deletes :
        Goes(crawl.pos, crawl.stage, crawl.batch, crawl.deletes \ {p}, crawl.cursor)
  BY DeleteIs
<1> QED
  BY <1>1, <1>2, GoesShape DEF Underway

LEMMA PutCheckpointShape ==
  ASSUME ShapeInv, PutCheckpoint
  PROVE  ShapeInv' /\ (Running' <=> crawl.stage = "docs")
<1>1. /\ Running /\ Underway /\ UNCHANGED <<kind, trees>> /\ checkpoint' = crawl.cursor
      /\ Taken(crawl.cursor) /\ crawl.cursor.at <= crawl.at
  BY PutCheckpointIs
<1>2. CASE crawl.stage = "end"
  BY <1>1, <1>2, PutCheckpointIs, ShapeOff
<1>3. CASE crawl.stage = "docs"
  <2>1. Goes(crawl.pos, crawl.stage, crawl.batch, crawl.deletes, None)
    BY <1>3, PutCheckpointIs
  <2> QED
    BY <1>1, <1>3, <2>1, GoesShape DEF Underway
<1> QED
  BY <1>1, <1>2, <1>3 DEF Underway

LEMMA SourceShape ==
  ASSUME ShapeInv, SourceStep
  PROVE  ShapeInv' /\ (Running' <=> Running)
<1>1. /\ Sourced' /\ Len(trees') = Len(trees) + 1 /\ Len(trees) \in Nat
      /\ UNCHANGED <<checkpoint, crawl>>
  BY SourceKeeps, NowIs DEF ShapeInv
<1>2. \A c : Taken(c) => Taken(c)'
  BY <1>1 DEF Taken
<1>3. Underway => Underway'
  BY <1>1, <1>2 DEF Underway, Final
<1> QED
  BY <1>1, <1>2, <1>3 DEF ShapeInv, Running

-----------------------------------------------------------------------------
(* What the connectors find                                                 *)

LEMMA AtIs ==
  ASSUME ShapeInv, Running, NEW p \in Wanted, Steady(crawl.at, p)
  PROVE  /\ p \in DOMAIN At /\ At[p] = Now[p] /\ p \in DOMAIN Now /\ (kind # "confluence" => Now[p].fits)
         /\ crawl.mode = "delta" => crawl.from.at \in 1..Len(trees) /\ From = trees[crawl.from.at]
<1>1. Sourced /\ Underway /\ Len(trees) \in Nat
  BY NowIs DEF ShapeInv
<1>2. crawl.at \in 1..Len(trees) /\ crawl.at \in crawl.at..Len(trees)
  BY <1>1 DEF Underway
<1> QED
  BY <1>1, <1>2, SteadyIs, NowIs DEF At, From, Underway, Taken, Wanted, Walk

\* A path unchanged since the crawl began is listed, or was unchanged already since
\* the state the delta compares with.
LEMMA NotListedIsOld ==
  ASSUME ShapeInv, Listing, Running, NEW p \in Due, Steady(crawl.at, p), p \notin Listed
  PROVE  crawl.mode = "delta" /\ Steady(crawl.from.at, p)
<1>1. /\ p \in DOMAIN At /\ At[p] = Now[p] /\ p \in DOMAIN Now /\ (kind # "confluence" => Now[p].fits)
      /\ crawl.mode = "delta" => crawl.from.at \in 1..Len(trees) /\ From = trees[crawl.from.at]
  BY AtIs DEF Due
<1>2. Sourced /\ (~Full => crawl.mode = "delta") /\ kind \in {"filesystem", "git-org", "confluence"}
  BY Bounds DEF ShapeInv, Underway, Full, Sourced
<1>3. CASE kind = "filesystem"
  <2>1. ~Full /\ SameFile(From, At, p)
    BY <1>1, <1>3 DEF Listed, Files, Walk
  <2>2. p \in DOMAIN From /\ From[p].stamp = Now[p].stamp
    BY <1>1, <2>1 DEF SameFile, Walk
  <2> QED
    BY <1>1, <1>2, <2>1, <2>2, SameIsSteady
<1>4. CASE kind = "git-org"
  <2>1. ~Full /\ SameBlob(From, At, p)
    BY <1>1, <1>4 DEF Listed, Blobs, ListFiles
  <2>2. At[p].stamp <= crawl.from.at
    BY <1>1, <1>2, <1>4, <2>1 DEF Listing, Due
  <2> QED
    BY <1>1, <1>2, <2>1, <2>2 DEF Steady
<1>5. CASE kind = "confluence"
  <2>1. ~Full /\ ~(Now[p].stamp > crawl.from.at)
    BY <1>1, <1>5 DEF Listed, Pages
  <2>2. Now[p].stamp \in Nat /\ crawl.from.at \in Nat
    BY <1>1, <1>2, <2>1, NowIs
  <2> QED
    BY <1>1, <1>2, <2>1, <2>2 DEF Steady
<1> QED
  BY <1>2, <1>3, <1>4, <1>5

LEMMA ReadIsNow ==
  ASSUME ShapeInv, Running, NEW p \in Wanted, Steady(crawl.at, p)
  PROVE  Read[p].content = Now[p].content
  BY AtIs DEF Read

LEMMA GoneIsNotWanted ==
  ASSUME ShapeInv, Running, NEW p \in Wanted, Steady(crawl.at, p)
  PROVE  p \notin Gone
<1>1. kind \in {"filesystem", "git-org", "confluence"}
  BY Bounds DEF ShapeInv, Sourced
<1> QED
  BY <1>1, AtIs DEF Gone, FilesGone, BlobsGone, PagesGone, Walk, Trashed

-----------------------------------------------------------------------------
(* What checkpoints cover                                                   *)

LEMMA SteadyLater ==
  ASSUME Sourced, NEW i, NEW k, i \in Int, k \in Int, i <= k, NEW p, Steady(i, p)
  PROVE  Steady(k, p)
  BY NowIs DEF Steady

\* The list of a crawl is made of the two states it compares.
LEMMA ListingStays ==
  ASSUME Listing, Now' = Now, UNCHANGED <<kind, trees, overlooked>>,
         crawl'.mode = crawl.mode, crawl'.at = crawl.at, crawl'.from = crawl.from
  PROVE  Listing' /\ (Wanted' = Wanted => Due' = Due)
  BY DEF Listing, At, From, SameBlob, Due

\* Nothing a crawl is about depends on older crawls: a change of the source only
\* takes paths away from what is unchanged.
LEMMA SourceCovers ==
  ASSUME CoverInv, SourceStep
  PROVE  CoverInv'
<1>1. /\ Len(trees) \in Nat
      /\ \A i \in 1..Len(trees) : \A p : Steady(i, p)' => Steady(i, p) /\ Now'[p] = Now[p]
      /\ UNCHANGED <<kind, shard, checkpoint, crawl, overlooked>>
  BY SourceKeeps, NowIs DEF CoverInv, ShapeInv
<1>2. ShapeInv' /\ (Running' <=> Running)
  BY SourceShape DEF CoverInv
<1>3. ASSUME NEW i \in 1..Len(trees), NEW p, p \in Wanted', Steady(i, p)'
      PROVE  p \in Wanted /\ Steady(i, p) /\ Now'[p] = Now[p] /\ (p \in Due' => p \in Due)
  <2>1. Steady(i, p) /\ Now'[p] = Now[p] /\ p \in DOMAIN Now
    BY <1>1, <1>3 DEF Steady
  <2>2. p \in Wanted
    BY <1>1, <1>3, <2>1 DEF Wanted, Walk
  <2> QED
    BY <1>1, <2>1, <2>2 DEF Due
<1>4. Committed'
  <2> SUFFICES ASSUME checkpoint # None, NEW p \in Due', Steady(checkpoint.at, p)'
               PROVE  Holds(p)'
    BY <1>1 DEF Committed, Covers
  <2>1. checkpoint.at \in 1..Len(trees)
    BY DEF CoverInv, ShapeInv, Taken
  <2>2. Steady(checkpoint.at, p) <=> p \in DOMAIN Now /\ Now[p].stamp <= checkpoint.at
    BY DEF Steady
  <2>3. PICK i \in 1..Len(trees) : i = checkpoint.at
    BY <2>1
  <2>4. Steady(i, p)'
    BY <2>3, <1>1 DEF Steady
  <2>5. p \in Due /\ Steady(checkpoint.at, p) /\ Now'[p] = Now[p]
    BY <1>3, <2>3, <2>4 DEF Due
  <2> QED
    BY <1>1, <2>5 DEF CoverInv, Committed, Covers, Holds
<1>5. ASSUME Running, NEW p \in Wanted', (Steady(crawl.at, p))'
      PROVE  p \in Wanted /\ Steady(crawl.at, p) /\ Now'[p] = Now[p] /\ (p \in Due' => p \in Due)
  <2>1. PICK i \in 1..Len(trees) : i = crawl.at
    BY <1>5 DEF CoverInv, ShapeInv, Underway
  <2>2. Steady(i, p)'
    BY <2>1, <1>1, <1>5 DEF Steady
  <2> QED
    BY <1>3, <2>1, <2>2
<1>6. OnTheWay'
  <2> SUFFICES ASSUME Running, NEW p \in Due', (Steady(crawl.at, p))', Passed(p)'
               PROVE  WillHold(p)'
    BY <1>1, <1>2 DEF OnTheWay
  <2>1. p \in Due /\ Steady(crawl.at, p) /\ Now'[p] = Now[p]
    BY <1>5 DEF Due
  <2>2. crawl.mode = "delta" => crawl.from.at \in 1..Len(trees)
    BY DEF CoverInv, ShapeInv, Underway, Taken
  <2>3. Passed(p)
    <3>1. CASE crawl.mode = "delta" /\ (Steady(crawl.from.at, p))'
      <4>1. PICK i \in 1..Len(trees) : i = crawl.from.at
        BY <2>2, <3>1
      <4>2. Steady(i, p)'
        BY <4>1, <3>1, <1>1 DEF Steady
      <4> QED
        BY <4>1, <4>2, <3>1, <1>3 DEF Passed, Due
    <3>2. CASE p <= crawl.pos \/ crawl.cursor = Final
      BY <3>2 DEF Passed
    <3> QED
      BY <3>1, <3>2, <1>1 DEF Passed, Final
  <2>4. WillHold(p)
    BY <2>1, <2>3 DEF CoverInv, OnTheWay
  <2> QED
    BY <2>1, <2>4, <1>1 DEF WillHold, Holds
<1>7. DeletesOld'
  BY <1>1, <1>2, <1>5 DEF CoverInv, DeletesOld
<1>8. Listing'
  <2>1. \A i \in 1..Len(trees) : trees'[i] = trees[i]
    BY SourceKeeps DEF CoverInv, ShapeInv
  <2>2. crawl.mode = "delta" => Running /\ crawl.at \in 1..Len(trees) /\ crawl.from.at \in 1..Len(trees)
    BY OffIsNot DEF CoverInv, ShapeInv, Underway, Taken, Running
  <2>3. crawl.mode = "delta" => At' = At /\ From' = From
    BY <1>1, <2>1, <2>2 DEF At, From
  <2> QED
    BY <1>1, <2>3 DEF CoverInv, Listing, SameBlob
<1> QED
  BY <1>2, <1>4, <1>6, <1>7, <1>8 DEF CoverInv

LEMMA StartCovers ==
  ASSUME CoverInv, NEW mode \in {"full", "delta"}, Start(mode)
  PROVE  CoverInv'
<1>1. /\ ~Running /\ (mode = "delta" => checkpoint # None)
      /\ UNCHANGED <<kind, trees, shard, checkpoint>>
      /\ overlooked \subseteq overlooked' /\ (crawl'.mode = "delta" => Overlooked \subseteq overlooked')
  BY StartIs DEF CoverInv
<1>2. ShapeInv' /\ Now' = Now /\ Wanted' = Wanted
  BY <1>1, StartShape, SourceStays DEF CoverInv, ShapeInv
<1>9. Due' \subseteq Due
  BY <1>1, <1>2 DEF Due
<1>3. Committed'
  BY <1>1, <1>2, <1>9 DEF CoverInv, Committed, Covers, Steady, Holds
<1>4. CASE crawl' = Off
  BY <1>2, <1>3, <1>4, OffIsNot DEF CoverInv, OnTheWay, DeletesOld, Running, Listing
<1>5. ASSUME NEW pos \in 0..MaxPath, mode = "delta" => pos = checkpoint.page, mode = "full" => pos = 0,
             crawl' = [mode |-> mode, at |-> Len(trees), from |-> checkpoint, pos |-> pos, stage |-> "docs",
                       batch |-> NoDocs, deletes |-> {}, cursor |-> None]
      PROVE  CoverInv'
  <2>1. /\ crawl'.mode = mode /\ crawl'.at = Len(trees) /\ crawl'.from = checkpoint /\ crawl'.pos = pos
        /\ DOMAIN crawl'.batch = {} /\ crawl'.deletes = {} /\ crawl'.cursor = None
    BY <1>5, OffIsNot
  <2>2. OnTheWay'
    <3> SUFFICES ASSUME NEW p \in Due', Passed(p)' PROVE WillHold(p)'
      BY <1>2 DEF OnTheWay
    <3>1. p \in Due /\ p \in DOMAIN Now /\ p \in Path /\ p > 0 /\ Now[p].stamp \in Nat
      BY <1>2, <1>9, NowIs DEF CoverInv, ShapeInv, Path, Due
    <3>2. None # Final'
      BY <2>1, NowIs, OffIsNot DEF Final, CoverInv, ShapeInv
    <3>3. mode = "delta"
      BY <3>1, <3>2, <2>1, <1>5 DEF Passed, Path
    <3>4. Taken(checkpoint) /\ p \notin Overlooked
      BY <1>1, <2>1, <3>3 DEF CoverInv, ShapeInv, Due
    <3>5. Steady(checkpoint.at, p)
      <4>1. CASE p <= pos
        BY <4>1, <3>1, <3>3, <3>4, <1>5, NowIs DEF Overlooked, Steady, Taken
      <4>2. CASE (Steady(crawl.from.at, p))'
        BY <4>2, <2>1, <1>2 DEF Steady
      <4> QED
        BY <4>1, <4>2, <3>2, <2>1 DEF Passed
    <3>6. Holds(p)
      BY <1>1, <3>1, <3>3, <3>5 DEF CoverInv, Committed, Covers
    <3> QED
      BY <1>1, <1>2, <2>1, <3>6 DEF WillHold, Holds
  <2>3. DeletesOld'
    BY <2>1 DEF DeletesOld
  <2>4. Listing'
    <3> SUFFICES ASSUME mode = "delta", kind = "git-org", NEW p \in DOMAIN Now, p \notin overlooked',
                        SameBlob(trees[checkpoint.at], Now, p)
                 PROVE  Now[p].stamp <= checkpoint.at
      <4>1. At' = Now /\ From' = trees[checkpoint.at]
        BY <1>1, <2>1 DEF At, From, Now
      <4> QED
        BY <1>1, <2>1, <4>1 DEF Listing, SameBlob
    <3>1. Taken(checkpoint) /\ p \notin Overlooked /\ Now[p].stamp \in Nat
      BY <1>1, <2>1, NowIs DEF CoverInv, ShapeInv
    <3> QED
      BY <3>1, NowIs DEF Overlooked, Taken, CoverInv, ShapeInv
  <2> QED
    BY <1>2, <1>3, <2>2, <2>3, <2>4 DEF CoverInv
<1> QED
  BY <1>4, <1>5, StartIs DEF CoverInv

LEMMA NextBatchCovers ==
  ASSUME CoverInv, NextBatch
  PROVE  CoverInv'
<1>1. /\ Running /\ Underway /\ DOMAIN crawl.batch = {} /\ crawl.deletes = {} /\ crawl.cursor = None
      /\ UNCHANGED <<kind, trees, shard, checkpoint, overlooked>>
  BY NextBatchIs DEF CoverInv
<1>2. PICK s \in SUBSET Rest : \E last \in s : \E cursor : Batched(s, last, cursor)
  BY NextBatchIs DEF CoverInv
<1>3. PICK last \in s : \E cursor : Batched(s, last, cursor)
  BY <1>2
<1>4. PICK cursor : Batched(s, last, cursor)
  BY <1>3
<1>5. /\ crawl'.mode = crawl.mode /\ crawl'.at = crawl.at /\ crawl'.from = crawl.from
      /\ crawl'.pos = last /\ crawl'.deletes = {} /\ crawl'.cursor = cursor
      /\ crawl'.batch = [p \in s |-> Read[p].content] /\ DOMAIN crawl'.batch = s
  BY <1>4, GoesFields DEF Batched
<1>6. ShapeInv' /\ Running' /\ Now' = Now /\ Wanted' = Wanted /\ Due' = Due
  BY <1>1, NextBatchShape, SourceStays DEF CoverInv, ShapeInv, Due
<1>7. Committed'
  BY <1>1, <1>6 DEF CoverInv, Committed, Covers, Steady, Holds
<1>8. OnTheWay'
  <2> SUFFICES ASSUME NEW p \in Due, Steady(crawl.at, p), Passed(p)' PROVE WillHold(p)'
    BY <1>1, <1>5, <1>6 DEF OnTheWay, Steady
  <2>1. CASE p \in s
    <3>1. Read[p].content = Now[p].content
      BY <1>1, ReadIsNow DEF CoverInv, Due
    <3> QED
      BY <2>1, <3>1, <1>5, <1>6 DEF WillHold
  <2>2. CASE p \notin s
    <3>1. p \in Path /\ crawl.pos \in 0..MaxPath /\ last \in Path
      BY <1>1, <1>4, NowIs DEF CoverInv, ShapeInv, Underway, Batched, Due
    <3>2. p \in Rest => last < p /\ s # Rest
      BY <1>4, <2>2 DEF Batched
    <3>3. CASE p \in Rest
      <4>1. cursor # Final /\ ~(p <= last)
        <5>1. ~(p <= last)
          BY <3>1, <3>2, <3>3, Bounds DEF Path
        <5>2. crawl.at \in 1..Len(trees) /\ Final.page = 0 /\ Final.at = crawl.at /\ 0 \notin Path /\ Len(trees) \in Nat
          BY <1>1, NowIs DEF Final, Path, Underway, CoverInv, ShapeInv
        <5>3. CASE cursor = None
          BY <5>1, <5>2, <5>3, OffIsNot
        <5>4. CASE cursor \in [at : {crawl.from.at}, page : Path]
          BY <5>1, <5>2, <5>4
        <5> QED
          BY <5>1, <5>3, <5>4, <3>2, <3>3, <1>4 DEF Batched
      <4>2. crawl.mode = "delta" /\ Steady(crawl.from.at, p)
        BY <3>3, <4>1, <1>5, <1>6 DEF Passed, Steady, Final
      <4>3. WillHold(p)
        BY <1>1, <4>2 DEF CoverInv, OnTheWay, Passed
      <4> QED
        BY <1>1, <1>5, <1>6, <2>2, <4>3 DEF WillHold, Holds
    <3>4. CASE p \notin Rest
      <4>1. Passed(p)
        <5>1. CASE p \in Listed
          BY <5>1, <3>1, <3>4, Bounds DEF Rest, Passed, Path
        <5>2. CASE p \notin Listed
          BY <5>2, <1>1, NotListedIsOld DEF Passed, CoverInv
        <5> QED
          BY <5>1, <5>2
      <4>2. WillHold(p)
        BY <1>1, <4>1 DEF CoverInv, OnTheWay
      <4> QED
        BY <1>1, <1>5, <1>6, <2>2, <4>2 DEF WillHold, Holds
    <3> QED
      BY <3>3, <3>4
  <2> QED
    BY <2>1, <2>2
<1>9. DeletesOld' /\ Listing'
  BY <1>1, <1>5, <1>6, ListingStays DEF CoverInv, DeletesOld
<1> QED
  BY <1>6, <1>7, <1>8, <1>9 DEF CoverInv

LEMMA NextLastCovers ==
  ASSUME CoverInv, NextLast
  PROVE  CoverInv'
<1>1. /\ Running /\ Underway /\ Rest = {} /\ UNCHANGED <<kind, trees, shard, checkpoint, overlooked>>
      /\ Goes(crawl.pos, "end", crawl.batch, Gone, Final)
  BY NextLastIs DEF CoverInv
<1>2. /\ crawl'.at = crawl.at /\ crawl'.batch = crawl.batch /\ crawl'.deletes = Gone
      /\ crawl'.mode = crawl.mode /\ crawl'.from = crawl.from
  BY <1>1, GoesFields
<1>3. ShapeInv' /\ Running' /\ Now' = Now /\ Wanted' = Wanted /\ Due' = Due
  BY <1>1, NextLastShape, SourceStays DEF CoverInv, ShapeInv, Due
<1>4. Committed'
  BY <1>1, <1>3 DEF CoverInv, Committed, Covers, Steady, Holds
<1>5. OnTheWay'
  <2> SUFFICES ASSUME NEW p \in Due, Steady(crawl.at, p) PROVE WillHold(p)'
    BY <1>1, <1>2, <1>3 DEF OnTheWay, Steady
  <2>1. Passed(p)
    <3>1. CASE p \in Listed
      <4>1. p \in Path /\ crawl.pos \in 0..MaxPath /\ ~(p > crawl.pos)
        BY <3>1, <1>1, NowIs DEF Rest, CoverInv, ShapeInv, Underway, Due
      <4> QED
        BY <4>1, Bounds DEF Passed, Path
    <3>2. CASE p \notin Listed
      BY <3>2, <1>1, NotListedIsOld DEF Passed, CoverInv
    <3> QED
      BY <3>1, <3>2
  <2>2. WillHold(p)
    BY <1>1, <2>1 DEF CoverInv, OnTheWay
  <2> QED
    BY <1>1, <1>2, <1>3, <2>2 DEF WillHold, Holds
<1>6. DeletesOld'
  <2> SUFFICES ASSUME NEW p \in Wanted, Steady(crawl.at, p) PROVE p \notin Gone
    BY <1>2, <1>3 DEF DeletesOld, Steady
  <2> QED
    BY <1>1, GoneIsNotWanted DEF CoverInv
<1>7. Listing'
  BY <1>1, <1>2, <1>3, ListingStays DEF CoverInv
<1> QED
  BY <1>3, <1>4, <1>5, <1>6, <1>7 DEF CoverInv

\* What is covered stays so when the shard only changes in a path of the batch, or
\* in one to delete.
LEMMA StaysCommitted ==
  ASSUME CoverInv, Running, Now' = Now, Due' = Due, UNCHANGED checkpoint,
         \A p \in Due : Steady(crawl.at, p) /\ Holds(p) => Holds(p)'
  PROVE  Committed'
<1> SUFFICES ASSUME checkpoint # None, NEW p \in Due, Steady(checkpoint.at, p)
             PROVE  Holds(p)'
  BY DEF Committed, Covers, Steady
<1>1. Holds(p)
  BY DEF CoverInv, Committed, Covers
<1>2. checkpoint.at \in Int /\ crawl.at \in Int /\ checkpoint.at <= crawl.at /\ Sourced
  BY NowIs DEF CoverInv, ShapeInv, Taken, Underway
<1>3. Steady(crawl.at, p)
  BY <1>2, SteadyLater
<1> QED
  BY <1>1, <1>3

LEMMA ReplaceCovers ==
  ASSUME CoverInv, ReplaceDocument
  PROVE  CoverInv'
<1>1. /\ Running /\ Underway /\ UNCHANGED <<kind, trees, checkpoint, overlooked>>
  BY ReplaceIs DEF CoverInv
<1>2. PICK p \in DOMAIN crawl.batch :
        /\ shard' = [q \in DOMAIN shard \cup {p} |-> IF q = p THEN crawl.batch[p] ELSE shard[q]]
        /\ Goes(crawl.pos, crawl.stage, [q \in DOMAIN crawl.batch \ {p} |-> crawl.batch[q]],
                crawl.deletes, crawl.cursor)
  BY ReplaceIs DEF CoverInv
<1>3. /\ crawl'.mode = crawl.mode /\ crawl'.at = crawl.at /\ crawl'.from = crawl.from
      /\ crawl'.pos = crawl.pos /\ crawl'.deletes = crawl.deletes /\ crawl'.cursor = crawl.cursor
      /\ crawl'.batch = [q \in DOMAIN crawl.batch \ {p} |-> crawl.batch[q]]
  BY <1>2, GoesFields
<1>4. ShapeInv' /\ Running' /\ Now' = Now /\ Wanted' = Wanted /\ Due' = Due
  BY <1>1, ReplaceShape, SourceStays DEF CoverInv, ShapeInv, Due
<1>6. Committed' /\ OnTheWay'
  <2>1. ASSUME NEW q \in Due, Steady(crawl.at, q), WillHold(q)
        PROVE  WillHold(q)'
    BY <2>1, <1>2, <1>3, <1>4 DEF WillHold, Holds
  <2>2. ASSUME NEW q \in Due, Steady(crawl.at, q), Holds(q)
        PROVE  Holds(q)'
    <3>1. CASE q = p
      <4>1. q <= crawl.pos
        BY <3>1, <1>1, <1>2 DEF Underway
      <4>2. WillHold(q)
        BY <1>1, <2>2, <4>1 DEF CoverInv, OnTheWay, Passed
      <4> QED
        BY <3>1, <4>2, <1>2, <1>4 DEF WillHold, Holds
    <3>2. CASE q # p
      BY <3>2, <2>2, <1>2, <1>4 DEF Holds
    <3> QED
      BY <3>1, <3>2
  <2>3. Committed'
    BY <1>1, <1>4, <2>2, StaysCommitted
  <2>4. OnTheWay'
    BY <1>1, <1>3, <1>4, <2>1 DEF CoverInv, OnTheWay, Steady, Passed, Final
  <2> QED
    BY <2>3, <2>4
<1>7. DeletesOld' /\ Listing'
  BY <1>1, <1>3, <1>4, ListingStays DEF CoverInv, DeletesOld, Steady
<1> QED
  BY <1>4, <1>6, <1>7 DEF CoverInv

LEMMA DeleteCovers ==
  ASSUME CoverInv, DeleteDocument
  PROVE  CoverInv'
<1>1. /\ Running /\ Underway /\ UNCHANGED <<kind, trees, checkpoint, overlooked>>
  BY DeleteIs DEF CoverInv
<1>2. PICK p \in crawl.deletes :
        /\ shard' = [q \in DOMAIN shard \ {p} |-> shard[q]]
        /\ Goes(crawl.pos, crawl.stage, crawl.batch, crawl.deletes \ {p}, crawl.cursor)
  BY DeleteIs DEF CoverInv
<1>3. /\ crawl'.mode = crawl.mode /\ crawl'.at = crawl.at /\ crawl'.from = crawl.from
      /\ crawl'.pos = crawl.pos /\ crawl'.batch = crawl.batch /\ crawl'.cursor = crawl.cursor
      /\ crawl'.deletes = crawl.deletes \ {p}
  BY <1>2, GoesFields
<1>4. ShapeInv' /\ Running' /\ Now' = Now /\ Wanted' = Wanted /\ Due' = Due
  BY <1>1, DeleteShape, SourceStays DEF CoverInv, ShapeInv, Due
<1>5. ASSUME NEW q \in Wanted, Steady(crawl.at, q)
      PROVE  (Holds(q) => Holds(q)') /\ (WillHold(q) => WillHold(q)')
  <2>1. q # p
    BY <1>1, <1>2, <1>5 DEF CoverInv, DeletesOld
  <2> QED
    BY <2>1, <1>2, <1>3, <1>4 DEF Holds, WillHold
<1>6. Committed'
  BY <1>1, <1>4, <1>5, StaysCommitted DEF Due
<1>7. OnTheWay'
  BY <1>1, <1>3, <1>4, <1>5 DEF CoverInv, OnTheWay, Steady, Passed, Final, Due
<1>8. DeletesOld' /\ Listing'
  BY <1>1, <1>3, <1>4, ListingStays DEF CoverInv, DeletesOld, Steady
<1> QED
  BY <1>4, <1>6, <1>7, <1>8 DEF CoverInv

\* With the batch written a crawl has covered what its cursor says.
LEMMA PutCheckpointCovers ==
  ASSUME CoverInv, PutCheckpoint
  PROVE  CoverInv'
<1>1. /\ Running /\ Underway /\ DOMAIN crawl.batch = {} /\ crawl.deletes = {} /\ crawl.cursor # None
      /\ UNCHANGED <<kind, trees, shard, overlooked>> /\ checkpoint' = crawl.cursor
  BY PutCheckpointIs DEF CoverInv
<1>2. ShapeInv' /\ (Running' <=> crawl.stage = "docs") /\ Now' = Now /\ Wanted' = Wanted /\ Due' = Due
  BY <1>1, PutCheckpointShape, SourceStays DEF CoverInv, ShapeInv, Due
<1>3. Committed'
  <2> SUFFICES ASSUME NEW p \in Due, Steady(crawl.cursor.at, p)
               PROVE  Holds(p)
    BY <1>1, <1>2 DEF Committed, Covers, Steady, Holds
  <2>1. Steady(crawl.at, p)
    <3>1. crawl.cursor.at \in Int /\ crawl.at \in Int /\ crawl.cursor.at <= crawl.at /\ Sourced
      BY <1>1, PutCheckpointIs, NowIs DEF CoverInv, ShapeInv, Underway, Taken
    <3> QED
      BY <3>1, SteadyLater
  <2>2. Passed(p)
    BY <1>1 DEF Underway, Passed
  <2> QED
    BY <1>1, <2>1, <2>2 DEF CoverInv, OnTheWay, WillHold
<1>4. CASE crawl.stage = "end"
  <2>1. crawl'.mode # "delta"
    BY <1>4, PutCheckpointIs, OffIsNot DEF CoverInv
  <2> QED
    BY <1>2, <1>3, <1>4, <2>1 DEF CoverInv, OnTheWay, DeletesOld, Listing
<1>5. CASE crawl.stage = "docs"
  <2>1. Goes(crawl.pos, crawl.stage, crawl.batch, crawl.deletes, None)
    BY <1>5, PutCheckpointIs DEF CoverInv
  <2>2. /\ crawl'.mode = crawl.mode /\ crawl'.at = crawl.at /\ crawl'.from = crawl.from
        /\ crawl'.pos = crawl.pos /\ crawl'.batch = crawl.batch /\ crawl'.cursor = None
        /\ crawl'.deletes = crawl.deletes
    BY <2>1, GoesFields
  <2>3. None # Final
    BY <1>1, OffIsNot DEF Final, Underway
  <2>4. OnTheWay'
    <3> SUFFICES ASSUME NEW p \in Due, Steady(crawl.at, p), Passed(p)' PROVE WillHold(p)'
      BY <1>1, <1>2, <2>2 DEF OnTheWay, Steady
    <3>1. Passed(p)
      BY <1>2, <2>2, <2>3 DEF Passed, Steady, Final
    <3>2. WillHold(p)
      BY <1>1, <3>1 DEF CoverInv, OnTheWay
    <3> QED
      BY <1>1, <1>2, <2>2, <3>2 DEF WillHold, Holds
  <2>5. DeletesOld' /\ Listing'
    BY <1>1, <1>2, <2>2, ListingStays DEF CoverInv, DeletesOld
  <2> QED
    BY <1>2, <1>3, <2>4, <2>5 DEF CoverInv
<1> QED
  BY <1>1, <1>4, <1>5 DEF Underway

\* A crawl that breaks off leaves checkpoint and shard as they are.
LEMMA OffCovers ==
  ASSUME CoverInv, UNCHANGED <<kind, trees, shard, checkpoint, overlooked>>, crawl' = Off
  PROVE  CoverInv'
<1>1. ShapeInv' /\ ~Running' /\ Now' = Now /\ Wanted' = Wanted /\ Due' = Due
  BY ShapeOff, SourceStays DEF CoverInv, ShapeInv, Due
<1>2. Committed'
  BY <1>1 DEF CoverInv, Committed, Covers, Steady, Holds
<1> QED
  BY <1>1, <1>2, OffIsNot DEF CoverInv, OnTheWay, DeletesOld, Listing

LEMMA NothingCovers ==
  ASSUME CoverInv, UNCHANGED <<kind, trees, shard, checkpoint, crawl, overlooked>>
  PROVE  CoverInv'
<1>1. Now' = Now /\ Wanted' = Wanted /\ Sourced' /\ \A c : Taken(c)' <=> Taken(c)
  BY SourceStays DEF CoverInv, ShapeInv
<1>2. ShapeInv'
  BY <1>1 DEF CoverInv, ShapeInv, Running, Underway, Final
<1>3. Due' = Due /\ Listing'
  BY <1>1, ListingStays DEF CoverInv
<1> QED
  BY <1>1, <1>2, <1>3 DEF CoverInv, Committed, Covers, OnTheWay, DeletesOld, Steady, Holds, WillHold, Passed, Final, Running

LEMMA CoverStart == Init => CoverInv
<1> SUFFICES ASSUME Init PROVE CoverInv
  OBVIOUS
<1>1. checkpoint = None /\ ~Running
  BY DEF Init, Running
<1> QED
  BY <1>1, ShapeStart, OffIsNot DEF CoverInv, Committed, OnTheWay, DeletesOld, Listing, Running

LEMMA CoverStep == CoverInv /\ [Next]_vars => CoverInv'
<1> SUFFICES ASSUME CoverInv, [Next]_vars PROVE CoverInv'
  OBVIOUS
<1>1. CASE SourceStep
  BY <1>1, SourceCovers
<1>2. CASE RunCrawl
  <2>1. CASE ReadThrows
    BY <2>1, OffCovers DEF ReadThrows
  <2> QED
    BY <1>2, <2>1, StartCovers, NextBatchCovers, NextLastCovers, ReplaceCovers, DeleteCovers, PutCheckpointCovers
    DEF RunCrawl
<1>3. CASE BreakOff
  BY <1>3, OffCovers DEF BreakOff
<1>4. CASE LoseCache \/ UNCHANGED vars
  BY <1>4, NothingCovers DEF LoseCache, vars
<1> QED
  BY <1>1, <1>2, <1>3, <1>4 DEF Next

\* What was not written since the state the checkpoint names, the shard holds as
\* the source has it: wherever crawls break off and resume, whatever the source
\* does meanwhile, going back to older texts included, unless the path was due at a
\* delta and not on its list (runner.ts: the checkpoint is written behind what it
\* covers).
THEOREM CoveredDocumentsAreStored == Spec => []CoveredIsStored
<1>1. CoverInv => CoveredIsStored
  BY NowIs DEF CoveredIsStored, CoverInv, ShapeInv, Committed, Covers, Due, Steady, Holds, Stored
<1>2. CoverInv /\ [Next]_vars => CoverInv'
  BY CoverStep
<1> QED
  BY <1>1, <1>2, CoverStart, PTL DEF Spec

-----------------------------------------------------------------------------
(* What crawls leave behind                                                 *)

LEMMA SourceGhosts ==
  ASSUME GhostInv, SourceStep
  PROVE  GhostInv'
<1>1. /\ Sourced /\ Len(trees) \in Nat /\ DOMAIN trees = 1..Len(trees)
      /\ Sourced' /\ Len(trees') = Len(trees) + 1 /\ \A i \in 1..Len(trees) : trees'[i] = trees[i]
      /\ UNCHANGED <<kind, shard, checkpoint, crawl, clean>>
  BY SourceKeeps, NowIs DEF GhostInv, ShapeInv
<1>2. ShapeInv' /\ (Running' <=> Running)
  BY SourceShape DEF GhostInv
<1>3. DOMAIN trees' = 1..(Len(trees) + 1)
  BY <1>1 DEF Sourced
<1>4. Ever \subseteq Ever'
  BY <1>1, <1>3 DEF Ever
<1>5. \A i \in 1..Len(trees) : Home(i) \subseteq Home(i)'
  BY <1>1, <1>4, Bounds DEF Home, Walk, Sourced
<1>6. Rested'
  <2> SUFFICES ASSUME clean, ~Running, NEW p \in DOMAIN shard
               PROVE  checkpoint # None /\ p \in Home(checkpoint.at)'
    BY <1>1, <1>2 DEF Rested
  <2>1. checkpoint # None /\ p \in Home(checkpoint.at)
    BY DEF GhostInv, Rested
  <2>2. PICK i \in 1..Len(trees) : i = checkpoint.at
    BY <2>1 DEF GhostInv, ShapeInv, Taken
  <2>3. p \in Home(i)'
    BY <2>1, <2>2, <1>5
  <2> QED
    BY <2>1, <2>2, <2>3, <1>1 DEF Home
<1>7. Moving'
  <2> SUFFICES ASSUME clean, Running PROVE Moving'
    BY <1>1, <1>2 DEF Moving
  <2>1. PICK at \in 1..Len(trees) : at = crawl.at
    BY DEF GhostInv, ShapeInv, Underway
  <2>2. Home(crawl.at) \subseteq Home(crawl.at)'
    BY <2>1, <1>1, <1>5 DEF Home
  <2>3. crawl.stage = "end" \/ Full \/ Home(crawl.from.at) \subseteq Home(crawl.from.at)'
    <3>1. CASE ~Full
      <4>1. PICK from \in 1..Len(trees) : from = crawl.from.at
        BY <3>1 DEF GhostInv, ShapeInv, Underway, Full, Taken
      <4> QED
        BY <4>1, <1>1, <1>5 DEF Home
    <3> QED
      BY <3>1
  <2>4. Full' = Full
    BY <1>1 DEF Full
  <2> QED
    BY <1>1, <2>2, <2>3, <2>4 DEF GhostInv, Moving
<1> QED
  BY <1>2, <1>6, <1>7 DEF GhostInv

LEMMA StartGhosts ==
  ASSUME GhostInv, NEW mode \in {"full", "delta"}, Start(mode)
  PROVE  GhostInv'
<1>1. /\ ~Running /\ (mode = "delta" => checkpoint # None)
      /\ UNCHANGED <<kind, trees, shard, checkpoint>>
      /\ clean' => clean /\ (mode = "full" => checkpoint = None)
  BY StartIs DEF GhostInv
<1>2. ShapeInv' /\ \A i : Home(i)' = Home(i)
  BY <1>1, StartShape, SourceStays DEF GhostInv, ShapeInv
<1>3. CASE crawl' = Off
  BY <1>1, <1>2, <1>3 DEF GhostInv, Rested, Moving, Running
<1>4. ASSUME NEW pos \in 0..MaxPath,
             crawl' = [mode |-> mode, at |-> Len(trees), from |-> checkpoint, pos |-> pos, stage |-> "docs",
                       batch |-> NoDocs, deletes |-> {}, cursor |-> None]
      PROVE  GhostInv'
  <2>1. /\ crawl'.mode = mode /\ crawl'.from = checkpoint /\ crawl'.stage = "docs" /\ DOMAIN crawl'.batch = {}
        /\ Running'
    BY <1>4, OffIsNot DEF Running
  <2>2. Moving'
    BY <1>1, <1>2, <2>1 DEF GhostInv, Rested, Moving, Full
  <2> QED
    BY <1>2, <2>1, <2>2 DEF GhostInv, Rested
<1> QED
  BY <1>3, <1>4, StartIs DEF GhostInv

LEMMA NextBatchGhosts ==
  ASSUME GhostInv, NextBatch
  PROVE  GhostInv'
<1>1. /\ Running /\ Underway /\ crawl.stage = "docs" /\ UNCHANGED <<kind, trees, shard, checkpoint, clean>>
  BY NextBatchIs DEF GhostInv
<1>2. PICK s \in SUBSET Rest : \E last \in s : \E cursor : Batched(s, last, cursor)
  BY NextBatchIs DEF GhostInv
<1>3. PICK last \in s : \E cursor : Batched(s, last, cursor)
  BY <1>2
<1>4. PICK cursor : Batched(s, last, cursor)
  BY <1>3
<1>5. /\ crawl'.mode = crawl.mode /\ crawl'.at = crawl.at /\ crawl'.from = crawl.from
      /\ crawl'.stage = "docs" /\ crawl'.deletes = {} /\ DOMAIN crawl'.batch = s
  BY <1>4, GoesFields DEF Batched
<1>6. ShapeInv' /\ Running' /\ \A i : Home(i)' = Home(i)
  BY <1>1, NextBatchShape, SourceStays DEF GhostInv, ShapeInv
<1>7. s \subseteq Home(crawl.at)
  <2>1. s \subseteq Listed
    BY DEF Rest
  <2>2. kind \in {"filesystem", "git-org", "confluence"} /\ DOMAIN Now \subseteq Ever
    BY Bounds, NowIs DEF GhostInv, ShapeInv, Sourced, Ever, Now
  <2> QED
    BY <2>1, <2>2 DEF Listed, Files, Blobs, ListFiles, Pages, Home, At
<1>8. Moving'
  BY <1>1, <1>5, <1>6, <1>7 DEF GhostInv, Moving, Full
<1> QED
  BY <1>6, <1>8 DEF GhostInv, Rested

LEMMA NextLastGhosts ==
  ASSUME GhostInv, NextLast
  PROVE  GhostInv'
<1>1. /\ Running /\ Underway /\ crawl.stage = "docs" /\ UNCHANGED <<kind, trees, shard, checkpoint, clean>>
      /\ Goes(crawl.pos, "end", crawl.batch, Gone, Final)
  BY NextLastIs DEF GhostInv
<1>2. /\ crawl'.mode = crawl.mode /\ crawl'.at = crawl.at /\ crawl'.from = crawl.from
      /\ crawl'.stage = "end" /\ crawl'.batch = crawl.batch /\ crawl'.deletes = Gone
  BY <1>1, GoesFields
<1>3. ShapeInv' /\ Running' /\ \A i : Home(i)' = Home(i)
  BY <1>1, NextLastShape, SourceStays DEF GhostInv, ShapeInv
<1>4. ~Full => Home(crawl.from.at) \ Home(crawl.at) \subseteq Gone
  <2>1. kind \in {"filesystem", "git-org", "confluence"}
    BY Bounds DEF GhostInv, ShapeInv, Sourced
  <2> QED
    BY <2>1 DEF Gone, FilesGone, BlobsGone, Home, From, At
<1>5. Moving'
  BY <1>1, <1>2, <1>3, <1>4 DEF GhostInv, Moving, Full
<1> QED
  BY <1>3, <1>5 DEF GhostInv, Rested

LEMMA ReplaceGhosts ==
  ASSUME GhostInv, ReplaceDocument
  PROVE  GhostInv'
<1>1. /\ Running /\ UNCHANGED <<kind, trees, checkpoint, clean>>
  BY ReplaceIs DEF GhostInv
<1>2. PICK p \in DOMAIN crawl.batch :
        /\ shard' = [q \in DOMAIN shard \cup {p} |-> IF q = p THEN crawl.batch[p] ELSE shard[q]]
        /\ Goes(crawl.pos, crawl.stage, [q \in DOMAIN crawl.batch \ {p} |-> crawl.batch[q]],
                crawl.deletes, crawl.cursor)
  BY ReplaceIs DEF GhostInv
<1>3. /\ crawl'.mode = crawl.mode /\ crawl'.at = crawl.at /\ crawl'.from = crawl.from
      /\ crawl'.stage = crawl.stage /\ crawl'.deletes = crawl.deletes
      /\ DOMAIN crawl'.batch = DOMAIN crawl.batch \ {p}
  BY <1>2, GoesFields
<1>4. ShapeInv' /\ Running' /\ \A i : Home(i)' = Home(i)
  BY <1>1, ReplaceShape, SourceStays DEF GhostInv, ShapeInv
<1>5. DOMAIN shard' = DOMAIN shard \cup {p}
  BY <1>2
<1>6. Moving'
  BY <1>1, <1>2, <1>3, <1>4, <1>5 DEF GhostInv, Moving, Full
<1> QED
  BY <1>4, <1>6 DEF GhostInv, Rested

LEMMA DeleteGhosts ==
  ASSUME GhostInv, DeleteDocument
  PROVE  GhostInv'
<1>1. /\ Running /\ crawl.stage = "end" /\ UNCHANGED <<kind, trees, checkpoint, clean>>
  BY DeleteIs DEF GhostInv
<1>2. PICK p \in crawl.deletes :
        /\ shard' = [q \in DOMAIN shard \ {p} |-> shard[q]]
        /\ Goes(crawl.pos, crawl.stage, crawl.batch, crawl.deletes \ {p}, crawl.cursor)
  BY DeleteIs DEF GhostInv
<1>3. /\ crawl'.mode = crawl.mode /\ crawl'.at = crawl.at /\ crawl'.from = crawl.from
      /\ crawl'.stage = crawl.stage /\ crawl'.batch = crawl.batch /\ crawl'.deletes = crawl.deletes \ {p}
  BY <1>2, GoesFields
<1>4. ShapeInv' /\ Running' /\ \A i : Home(i)' = Home(i)
  BY <1>1, DeleteShape, SourceStays DEF GhostInv, ShapeInv
<1>5. DOMAIN shard' = DOMAIN shard \ {p}
  BY <1>2
<1>6. Moving'
  BY <1>1, <1>2, <1>3, <1>4, <1>5 DEF GhostInv, Moving, Full
<1> QED
  BY <1>4, <1>6 DEF GhostInv, Rested

LEMMA PutCheckpointGhosts ==
  ASSUME GhostInv, PutCheckpoint
  PROVE  GhostInv'
<1>1. /\ Running /\ Underway /\ crawl.deletes = {} /\ crawl.cursor # None
      /\ UNCHANGED <<kind, trees, shard, clean>> /\ checkpoint' = crawl.cursor
  BY PutCheckpointIs DEF GhostInv
<1>2. ShapeInv' /\ (Running' <=> crawl.stage = "docs") /\ \A i : Home(i)' = Home(i)
  BY <1>1, PutCheckpointShape, SourceStays DEF GhostInv, ShapeInv
<1>3. CASE crawl.stage = "end"
  <2>1. crawl.cursor.at = crawl.at
    BY <1>1, <1>3 DEF Underway, Final
  <2>2. Rested'
    <3>1. ASSUME clean PROVE DOMAIN shard \subseteq Home(crawl.at)
      BY <1>1, <1>3, <3>1 DEF GhostInv, Moving
    <3>2. (Home(checkpoint.at))' = Home(crawl.at)
      BY <1>1, <2>1 DEF Home, Walk, Ever
    <3> QED
      BY <1>1, <3>1, <3>2 DEF Rested
  <2> QED
    BY <1>2, <1>3, <2>2 DEF GhostInv, Moving
<1>4. CASE crawl.stage = "docs"
  <2>1. Goes(crawl.pos, crawl.stage, crawl.batch, crawl.deletes, None) /\ crawl.mode = "delta"
    BY <1>4, PutCheckpointIs DEF GhostInv
  <2>2. /\ crawl'.mode = crawl.mode /\ crawl'.at = crawl.at /\ crawl'.from = crawl.from
        /\ crawl'.stage = crawl.stage /\ crawl'.batch = crawl.batch /\ crawl'.deletes = crawl.deletes
    BY <2>1, GoesFields
  <2>3. Moving'
    BY <1>1, <1>2, <1>4, <2>1, <2>2 DEF GhostInv, Moving, Full
  <2> QED
    BY <1>2, <1>4, <2>3 DEF GhostInv, Rested
<1> QED
  BY <1>1, <1>3, <1>4 DEF Underway

LEMMA OffGhosts ==
  ASSUME GhostInv, UNCHANGED <<kind, trees, checkpoint>>, crawl' = Off, clean' = FALSE
  PROVE  GhostInv'
<1>1. ShapeInv' /\ ~Running'
  BY ShapeOff DEF GhostInv
<1> QED
  BY <1>1 DEF GhostInv, Rested, Moving

LEMMA NothingGhosts ==
  ASSUME GhostInv, UNCHANGED <<kind, trees, shard, checkpoint, crawl, clean>>
  PROVE  GhostInv'
<1>1. Sourced' /\ (\A c : Taken(c)' <=> Taken(c)) /\ \A i : Home(i)' = Home(i)
  BY SourceStays DEF GhostInv, ShapeInv
<1>2. ShapeInv'
  BY <1>1 DEF GhostInv, ShapeInv, Running, Underway, Final
<1>3. (Home(checkpoint.at))' = Home(checkpoint.at) /\ (Home(crawl.at))' = Home(crawl.at)
      /\ (Home(crawl.from.at))' = Home(crawl.from.at)
  BY DEF Home, Walk, Ever
<1> QED
  BY <1>2, <1>3 DEF GhostInv, Rested, Moving, Running, Full

LEMMA GhostStart == Init => GhostInv
<1> SUFFICES ASSUME Init PROVE GhostInv
  OBVIOUS
<1>1. checkpoint = None /\ ~Running /\ DOMAIN shard = {}
  BY DEF Init, Running, NoDocs
<1> QED
  BY <1>1, ShapeStart DEF GhostInv, Rested, Moving

LEMMA GhostStep == GhostInv /\ [Next]_vars => GhostInv'
<1> SUFFICES ASSUME GhostInv, [Next]_vars PROVE GhostInv'
  OBVIOUS
<1>1. CASE SourceStep
  BY <1>1, SourceGhosts
<1>2. CASE RunCrawl
  <2>1. CASE ReadThrows
    BY <2>1, OffGhosts DEF ReadThrows
  <2> QED
    BY <1>2, <2>1, StartGhosts, NextBatchGhosts, NextLastGhosts, ReplaceGhosts, DeleteGhosts, PutCheckpointGhosts
    DEF RunCrawl
<1>3. CASE BreakOff
  BY <1>3, OffGhosts DEF BreakOff
<1>4. CASE LoseCache \/ UNCHANGED vars
  BY <1>4, NothingGhosts DEF LoseCache, vars
<1> QED
  BY <1>1, <1>2, <1>3, <1>4 DEF Next

\* Between crawls of which none broke off and none was a second full one, all that
\* the shard has and the source has not is where the next delta looks for deletes:
\* in the manifest, the diff or the trash (filesystem.ts, git-org.ts, confluence.ts).
THEOREM GhostsAreFound == Spec => []NoGhosts
<1>1. GhostInv => NoGhosts
  <2> SUFFICES ASSUME GhostInv, clean, ~Running, checkpoint # None PROVE NoGhosts
    BY DEF NoGhosts
  <2>1. DOMAIN shard \subseteq Home(checkpoint.at) /\ kind \in {"filesystem", "git-org", "confluence"}
    BY Bounds DEF GhostInv, Rested, ShapeInv, Sourced
  <2> QED
    BY <2>1 DEF NoGhosts, Home, Ever, Trashed
<1> QED
  BY <1>1, GhostStart, GhostStep, PTL DEF Spec
=============================================================================
