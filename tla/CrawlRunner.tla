------------------------------ MODULE CrawlRunner ------------------------------
(****************************************************************************)
(* Crawls of one source into one shard (connectors/): the runner, which     *)
(* handles a connector's events one after the other and writes a checkpoint *)
(* behind what it covers, and the three connectors that produce the events. *)
(* The source changes at any time; a crawl may end between any two calls.   *)
(*                                                                          *)
(* The source is the sequence of its states.  A cursor names the state it   *)
(* was taken at: the commit (git), the stat manifest of the walk (files),   *)
(* the watermark (Confluence).                                              *)
(****************************************************************************)
EXTENDS Integers, Sequences, FiniteSets

CONSTANTS
  Kinds,        \* connectors to choose from
  MaxPath,      \* bound: paths or pages
  MaxChanges,   \* bound: changes of the source
  MaxFaults,    \* bound: crashes, failed requests and lost caches
  BatchSize,    \* batchSize
  Reverting     \* connectors whose sources may go back to an earlier text

ASSUME CrawlAssumption ==
  /\ Kinds \subseteq {"filesystem", "git-org", "confluence"}
  /\ MaxPath \in Nat /\ MaxChanges \in Nat /\ MaxFaults \in Nat
  /\ BatchSize \in Nat \ {0}
  /\ Reverting \subseteq Kinds

VARIABLES
  kind,         \* the connector
  trees,        \* the states of the source, each path |-> [content, stamp, fits]
  shard,        \* documents of the shard: path |-> content
  checkpoint,   \* the row of checkpoints
  cache,        \* commits the clone cache has
  crawl,        \* the crawl under way
  faults,
  overlooked,   \* history: paths that were due at a delta and not on its list
  clean         \* history: no crawl broke off, none was a second full one

vars == <<kind, trees, shard, checkpoint, cache, crawl, faults, overlooked, clean>>

Path == 1..MaxPath
None == [at |-> 0, page |-> 0]
NoDocs == [p \in {} |-> p]
Off == [mode |-> "off", at |-> 0, from |-> None, pos |-> 0, stage |-> "end",
        batch |-> NoDocs, deletes |-> {}, cursor |-> None]

Init ==
  /\ kind \in Kinds
  /\ \E ps \in SUBSET Path :
       trees = <<[p \in ps |-> [content |-> 1, stamp |-> 1, fits |-> TRUE]]>>
  /\ shard = NoDocs
  /\ checkpoint = None
  /\ cache = {}
  /\ crawl = Off
  /\ faults = 0
  /\ overlooked = {}
  /\ clean = TRUE

Now == trees[Len(trees)]

--------------------------------------------------------------------------------
(* The source.                                                               *)

Change(tree) ==
  /\ Len(trees) <= MaxChanges
  /\ trees' = Append(trees, tree)
  /\ UNCHANGED <<kind, shard, checkpoint, cache, crawl, faults, overlooked, clean>>

With(p, content, fits) ==
  [q \in DOMAIN Now \cup {p} |->
     IF q = p THEN [content |-> content, stamp |-> Len(trees) + 1, fits |-> fits] ELSE Now[q]]

Past(p) == {trees[i][p] : i \in {j \in DOMAIN trees : p \in DOMAIN trees[j]}}

\* A new text.  Pages have no limit on their size.
WriteNew(p) ==
  \E fits \in BOOLEAN :
    (kind = "confluence" => fits) /\ Change(With(p, Len(trees) + 1, fits))

\* A text that stood there before, as long as it was.
WriteBack(p) ==
  /\ kind \in Reverting
  /\ \E old \in Past(p) : Change(With(p, old.content, old.fits))

Write(p) == WriteNew(p) \/ WriteBack(p)

\* A file or page is saved as it was; git makes no commit of that.
Touch(p) ==
  /\ kind # "git-org" /\ p \in DOMAIN Now
  /\ Change(With(p, Now[p].content, Now[p].fits))

Remove(p) == p \in DOMAIN Now /\ Change([q \in DOMAIN Now \ {p} |-> Now[q]])

SourceStep == \E p \in Path : Write(p) \/ Touch(p) \/ Remove(p)

--------------------------------------------------------------------------------
(* What the connectors list, read and delete.                                *)

At == trees[crawl.at]
From == trees[crawl.from.at]
Full == crawl.mode = "full"

\* Files that are empty or too large do not exist for the walk.
Walk(tree) == {p \in DOMAIN tree : tree[p].fits}

\* rsync's quickcheck on mtime and size against the manifest
SameFile(a, b, p) == p \in Walk(a) /\ p \in Walk(b) /\ a[p].stamp = b[p].stamp

Files == IF Full THEN Walk(At) ELSE {p \in Walk(At) : ~SameFile(From, At, p)}

\* A variant that only notices unlinked files: NoGhosts rules it out.
FilesUnlinked == IF Full THEN {} ELSE DOMAIN From \ DOMAIN At

FilesGone == IF Full THEN {} ELSE Walk(From) \ Walk(At)

\* ls-tree leaves out what is empty or too large; diff --raw does not.
ListFiles(tree) == {p \in DOMAIN tree : tree[p].fits}
SameBlob(a, b, p) == p \in DOMAIN a /\ p \in DOMAIN b /\ a[p].content = b[p].content

Blobs == IF Full THEN ListFiles(At) ELSE {p \in DOMAIN At : ~SameBlob(From, At, p)}
BlobsGone == IF Full THEN {} ELSE DOMAIN From \ DOMAIN At

\* Confluence answers each request from what it has then.
Pages == IF Full THEN DOMAIN Now ELSE {p \in DOMAIN Now : Now[p].stamp > crawl.from.at}
Trashed == (UNION {DOMAIN trees[i] : i \in DOMAIN trees}) \ DOMAIN Now
PagesGone == IF Full THEN {} ELSE Trashed

Listed ==
  CASE kind = "filesystem" -> Files
    [] kind = "git-org"    -> Blobs
    [] kind = "confluence" -> Pages

Gone ==
  CASE kind = "filesystem" -> FilesGone
    [] kind = "git-org"    -> BlobsGone
    [] kind = "confluence" -> PagesGone

\* A full walk of files reads each batch when it comes to it, a delta at once.
Read == IF kind = "confluence" \/ (kind = "filesystem" /\ Full) THEN Now ELSE At

Rest == {p \in Listed : p > crawl.pos}

IsSlice(s) ==
  /\ Cardinality(s) = IF Cardinality(Rest) < BatchSize THEN Cardinality(Rest) ELSE BatchSize
  /\ \A p \in s, q \in Rest \ s : p < q

\* Only the delta of Confluence has a cursor with each page.
PageCursor(s) ==
  IF kind # "confluence" \/ Full THEN None
  ELSE IF s = Rest THEN [at |-> crawl.at, page |-> 0]
  ELSE [at |-> crawl.from.at, page |-> CHOOSE p \in s : \A q \in s : q <= p]

--------------------------------------------------------------------------------
(* runCrawl.                                                                 *)

Running == crawl # Off
Idle == crawl.batch = NoDocs /\ crawl.deletes = {} /\ crawl.cursor = None

Keep == UNCHANGED <<kind, trees, faults, overlooked, clean>>

\* The cache needs both commits of a diff.
CanDiff == checkpoint.at \in cache \cup {Len(trees)}

\* What has been written since the checkpoint and is not on the list of a delta
\* that starts from it: a page that an earlier attempt has passed, a path of git
\* that went back to the text it had.
Overlooked ==
  {p \in DOMAIN Now : /\ Now[p].stamp > checkpoint.at
                      /\ \/ p <= checkpoint.page
                         \/ kind = "git-org" /\ SameBlob(trees[checkpoint.at], Now, p)}

Start(mode) ==
  /\ ~Running
  /\ mode = "delta" => checkpoint # None
  /\ crawl' = IF kind = "git-org" /\ mode = "delta" /\ ~CanDiff THEN Off
              ELSE [Off EXCEPT !.mode = mode, !.at = Len(trees), !.stage = "docs",
                               !.from = checkpoint,
                               !.pos = IF mode = "delta" THEN checkpoint.page ELSE 0]
  /\ cache' = IF kind = "git-org" THEN cache \cup {Len(trees)} ELSE cache
  /\ overlooked' = overlooked \cup (IF crawl'.mode = "delta" THEN Overlooked ELSE {})
  /\ clean' = (clean /\ ~(mode = "full" /\ checkpoint # None))
  /\ UNCHANGED <<kind, trees, shard, checkpoint, faults>>

NextBatch ==
  /\ Running /\ Idle /\ crawl.stage = "docs"
  /\ \E s \in (SUBSET Rest) \ {{}} :
       /\ IsSlice(s)
       /\ s \subseteq DOMAIN Read
       /\ crawl' = [crawl EXCEPT !.batch = [p \in s |-> Read[p].content],
                                 !.pos = CHOOSE p \in s : \A q \in s : q <= p,
                                 !.cursor = PageCursor(s)]
  /\ Keep /\ UNCHANGED <<shard, checkpoint, cache>>

\* The deletes and the last cursor are two events; the runner treats them as one.
NextLast ==
  /\ Running /\ Idle /\ crawl.stage = "docs" /\ Rest = {}
  /\ crawl' = [crawl EXCEPT !.deletes = Gone, !.stage = "end",
                            !.cursor = [at |-> crawl.at, page |-> 0]]
  /\ Keep /\ UNCHANGED <<shard, checkpoint, cache>>

\* The engine skips a document whose hash it has: no difference to the shard.
ReplaceDocument ==
  /\ \E p \in DOMAIN crawl.batch :
       /\ \A q \in DOMAIN crawl.batch : p <= q
       /\ shard' = [q \in DOMAIN shard \cup {p} |-> IF q = p THEN crawl.batch[p] ELSE shard[q]]
       /\ crawl' = [crawl EXCEPT !.batch = [q \in DOMAIN crawl.batch \ {p} |-> crawl.batch[q]]]
  /\ Keep /\ UNCHANGED <<checkpoint, cache>>

DeleteDocument ==
  /\ crawl.batch = NoDocs
  /\ \E p \in crawl.deletes :
       /\ shard' = [q \in DOMAIN shard \ {p} |-> shard[q]]
       /\ crawl' = [crawl EXCEPT !.deletes = @ \ {p}]
  /\ Keep /\ UNCHANGED <<checkpoint, cache>>

\* A variant that does not wait for the batch: CoveredIsStored rules it out.
PutCheckpointFirst ==
  /\ crawl.deletes = {} /\ crawl.cursor # None
  /\ checkpoint' = crawl.cursor
  /\ crawl' = IF crawl.stage = "end" THEN Off ELSE [crawl EXCEPT !.cursor = None]
  /\ Keep /\ UNCHANGED <<shard, cache>>

\* Behind the last cursor the crawl only settles the shard's status.
PutCheckpoint ==
  /\ crawl.batch = NoDocs /\ crawl.deletes = {} /\ crawl.cursor # None
  /\ checkpoint' = crawl.cursor
  /\ crawl' = IF crawl.stage = "end" THEN Off ELSE [crawl EXCEPT !.cursor = None]
  /\ Keep /\ UNCHANGED <<shard, cache>>

\* A file of the walk is not there any more when its batch is read.
ReadThrows ==
  /\ Running /\ Idle /\ crawl.stage = "docs"
  /\ \E s \in SUBSET Rest : IsSlice(s) /\ ~(s \subseteq DOMAIN Read)
  /\ crawl' = Off
  /\ clean' = FALSE
  /\ UNCHANGED <<kind, trees, shard, checkpoint, cache, faults, overlooked>>

\* The process ends, a call to the engine or a request to the source throws.
BreakOff ==
  /\ Running
  /\ faults < MaxFaults /\ faults' = faults + 1
  /\ crawl' = Off
  /\ clean' = FALSE
  /\ UNCHANGED <<kind, trees, shard, checkpoint, cache, overlooked>>

LoseCache ==
  /\ ~Running /\ cache # {}
  /\ faults < MaxFaults /\ faults' = faults + 1
  /\ cache' = {}
  /\ UNCHANGED <<kind, trees, shard, checkpoint, crawl, overlooked, clean>>

RunCrawl ==
  \/ \E mode \in {"full", "delta"} : Start(mode)
  \/ NextBatch
  \/ NextLast
  \/ ReplaceDocument
  \/ DeleteDocument
  \/ PutCheckpoint
  \/ ReadThrows

Next == SourceStep \/ RunCrawl \/ BreakOff \/ LoseCache

Spec == Init /\ [][Next]_vars

--------------------------------------------------------------------------------
(* Properties.                                                               *)

Wanted == IF kind = "confluence" THEN DOMAIN Now ELSE Walk(Now)

\* What a delta from the checkpoint would take for unchanged.
Skipped(p) ==
  /\ p > checkpoint.page
  /\ CASE kind = "filesystem" -> SameFile(trees[checkpoint.at], Now, p)
       [] kind = "git-org"    -> SameBlob(trees[checkpoint.at], Now, p)
       [] kind = "confluence" -> Now[p].stamp <= checkpoint.at

Stored(p) == p \in DOMAIN shard /\ shard[p] = Now[p].content

\* A checkpoint covers committed documents only ("checkpoint after commit, never
\* before", runner.ts:10): what has not been written since the state it names, the
\* shard holds as the source has it, wherever crawls broke off and were resumed and
\* however texts went back and forth.  Only a path that was due at a delta and not
\* on its list is not covered; SkippedIsStored shows what becomes of it.
CoveredIsStored ==
  checkpoint # None =>
    \A p \in Wanted \ overlooked : Now[p].stamp <= checkpoint.at => Stored(p)

\* "a mid-pagination crash resumes exactly" (confluence.ts:9-10), "a crash
\* re-ingests one idempotent batch rather than lose data" (runner.ts:7-10), "never
\* loses data" (the engine's README): whatever the next delta would pass over, the
\* shard holds as the source has it.
SkippedIsStored ==
  checkpoint # None => \A p \in Wanted : Skipped(p) => Stored(p)

\* While no crawl broke off and none was a second full one, what the shard has
\* and the source has not is deleted by the crawl under way or by the next delta.
NoGhosts ==
  clean /\ ~Running /\ checkpoint # None =>
    CASE kind = "filesystem" -> DOMAIN shard \ Walk(Now) \subseteq Walk(trees[checkpoint.at])
      [] kind = "git-org"    -> DOMAIN shard \ DOMAIN Now \subseteq DOMAIN trees[checkpoint.at]
      [] kind = "confluence" -> DOMAIN shard \ DOMAIN Now \subseteq Trashed
================================================================================
