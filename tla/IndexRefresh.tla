---------------------------- MODULE IndexRefresh ----------------------------
(***************************************************************************)
(* The search index as a copy of the vault: refresh_paths,                 *)
(* refresh_wiki_folder, startup_reconcile (refresh_index) and              *)
(* reindex_all_vectors, the embeddings they fetch, and the searches that   *)
(* read what they wrote.                                                   *)
(*                                                                         *)
(* A job is synchronous code: it holds its process from start to end, so   *)
(* two jobs interleave only when two processes share the vault and the     *)
(* database.  A step is one read of the file system, one SQLite            *)
(* transaction, or one request to the embedding API, between which the     *)
(* vault changes as it likes.                                              *)
(*                                                                         *)
(* A version is a number that no other content has had, and 0 is "no file" *)
(* (or "no row"): sha256 is injective, so a revision is a version.         *)
(***************************************************************************)
EXTENDS Naturals, Sequences, FiniteSets, SequencesExt, VaultPolicy

CONSTANTS
  Servers,      \* processes that serve refresh_paths, alone or after a write
  Scripts,      \* an operator's processes, which call the jobs that walk
  Md,           \* vault-relative paths that end in .md
  Other,        \* and paths that do not
  Wiki,         \* the notes under 70_Wiki
  ProposeOnly,  \* paths under policy.propose_only_roots
  ProposeElse,  \* and under such a root other than 70_Wiki itself
  Allowed,      \* notes under policy.allowlist_roots, outside dot-folders
  Place,        \* the place of each note in the order of sorted()
  Lists,        \* lists of paths that callers refresh
  Edited,       \* notes that change while jobs run
  Missing,      \* notes of an earlier index that the vault has lost
  Callers,      \* profiles that refresh
  Texts,        \* Texts[v]: number of chunks of version v that are long enough
  MaxTexts,     \* bound on that number
  BatchSize,    \* embedding.batch_size
  MAX_RETRIES,  \* attempts per batch
  MaxEdits,     \* bound on changes of the vault
  MaxJobs,      \* bound on jobs
  MaxFaults     \* bound on I/O and database errors, and on short API answers

Paths == Md \cup Other
Procs == Servers \cup Scripts

ASSUME PathsAssumption ==
  /\ Md \cap Other = {} /\ IsFiniteSet(Md)
  /\ Wiki \subseteq Md /\ Allowed \subseteq Md
  /\ Denied \subseteq Paths /\ ProposeOnly \subseteq Paths
  /\ (ProposeOnly \cap Md) \ Wiki \subseteq ProposeElse
  /\ ProposeElse \subseteq ProposeOnly
  /\ Place \in Injection(Md, Nat)
  /\ Lists \subseteq Seq(Paths)

ASSUME SizesAssumption ==
  /\ BatchSize \in Nat \ {0} /\ MAX_RETRIES \in Nat \ {0}
  /\ MaxEdits \in Nat /\ MaxFaults \in Nat /\ MaxJobs \in Nat
  /\ MaxTexts \in Nat /\ Texts \in [1..(MaxEdits + 1) -> 0..MaxTexts]

Versions == 0..(MaxEdits + 1)
Kinds    == {"refresh", "wiki", "reconcile", "reindex"}

VARIABLES
  fs,        \* the version of each path
  edits,     \* changes of the vault so far
  schema,    \* whether initialize_schema has ever run on this database
  row,       \* notes, index_state and notes_fts rows: one transaction
  chunks,    \* note_chunks rows of each note
  build,     \* vec0: this SQLite has the vec0 module, so note_chunks_vec
             \* exists; embeds: a backend, an API base and a key are set
  pc, job,   \* per process: where its job is, and the job
  since,     \* history: versions each path has had during each job
  wrote,     \* history: paths whose rows the job wrote or deleted
  blind,     \* history: paths whose stat failed during the job
  alone,     \* history: nothing else has moved since the job began
  short,     \* history: notes whose chunks come from a short API answer
  faults,    \* what is left of MaxFaults
  jobs       \* and of MaxJobs

vars == <<fs, edits, schema, row, chunks, build, pc, job, since, wrote,
          blind, alone, short, faults, jobs>>
tables  == <<fs, edits, schema, row, chunks, build, short, jobs>>
history == <<since, wrote, blind, alone>>

\* A note_chunks row: chunk pos of version rev.  The embedding is not in it:
\* it goes to note_chunks_vec, which is missing where the row can be stored.
ChunkRows == [rev: Versions, pos: Nat]
NoJob == [kind |-> "refresh", profile |-> "admin", list |-> <<>>, todo |-> <<>>,
          got |-> 0, at |-> 0, tries |-> 0, emb |-> <<>>]
Jobs  == [kind: Kinds, profile: Profiles, list: Seq(Paths), todo: Seq(Paths),
          got: Versions, at: Nat, tries: Nat, emb: Seq(Nat)]
Labels == {"idle", "next", "read", "upsert", "delete", "embed", "store",
           "ok", "error"}

TypeOK ==
  /\ fs \in [Paths -> Versions] /\ edits \in 1..(MaxEdits + 1)
  /\ schema \in BOOLEAN
  /\ row \in [Paths -> Versions]
  /\ chunks \in [Paths -> SUBSET ChunkRows]
  /\ build \in [vec0: BOOLEAN, embeds: BOOLEAN]
  /\ pc \in [Procs -> Labels]
  /\ job \in [Procs -> Jobs]
  /\ since \in [Procs -> [Paths -> SUBSET Versions]]
  /\ wrote \in [Procs -> SUBSET Paths]
  /\ blind \in [Procs -> SUBSET Paths]
  /\ alone \in [Procs -> BOOLEAN]
  /\ short \in SUBSET Paths
  /\ faults \in 0..MaxFaults /\ jobs \in 0..MaxJobs

Unseen == [n \in Paths |-> {}]

\* The index of an earlier server: it may hold a note that the vault has
\* lost since, or that the denylist has been extended to.
Init ==
  /\ fs = [n \in Paths |-> IF n \in Missing THEN 0 ELSE 1] /\ edits = 1
  /\ schema \in BOOLEAN
  /\ row = [n \in Paths |-> IF schema /\ n \in Md THEN 1 ELSE 0]
  /\ chunks = [n \in Paths |-> {}]
  /\ build \in [vec0: BOOLEAN, embeds: BOOLEAN]
  /\ build.vec0 => build.embeds
  /\ pc = [p \in Procs |-> "idle"] /\ job = [p \in Procs |-> NoJob]
  /\ since = [p \in Procs |-> Unseen] /\ wrote = [p \in Procs |-> {}]
  /\ blind = [p \in Procs |-> {}]
  /\ alone = [p \in Procs |-> FALSE]
  /\ short = {} /\ faults = MaxFaults /\ jobs = MaxJobs

-----------------------------------------------------------------------------
(* The vault *)

\* Somebody (a mutation tool, Obsidian, sync) writes or deletes a file.
Edit(n, v) ==
  /\ edits <= MaxEdits
  /\ fs[n] # v
  /\ edits' = edits + 1
  /\ fs' = [fs EXCEPT ![n] = v]
  /\ since' = [p \in Procs |->
       IF pc[p] = "idle" THEN since[p] ELSE [since[p] EXCEPT ![n] = @ \cup {v}]]
  /\ alone' = [p \in Procs |-> FALSE]
  /\ UNCHANGED <<schema, row, chunks, build, pc, job, wrote, blind, short,
                 faults, jobs>>

VaultChanges == \E n \in Edited : Edit(n, edits + 1) \/ Edit(n, 0)

-----------------------------------------------------------------------------
(* Jobs *)

n_(p) == Head(job[p].todo)

\* _authorize_refresh, with _wiki_derivative_refresh_config for the wiki notes
\* of the jobs that walk: it drops the root 70_Wiki, not one below it.
\* reindex_all_vectors uses the plain configuration.
May(p) ==
  LET wikiConfig == \/ job[p].kind = "wiki"
                    \/ job[p].kind = "reconcile" /\ n_(p) \in Wiki
  IN Authorize(job[p].profile, n_(p), "refresh", FALSE,
               IF wikiConfig THEN ProposeElse ELSE ProposeOnly)

\* _walk_allowlist_markdown_paths, _walk_wiki_markdown_paths: the notes of S
\* that are there, sorted (Place leaves one such list).
Sorted(l) == \A i, j \in DOMAIN l : i < j => Place[l[i]] < Place[l[j]]
Walks(S)  == {l \in SetToSeqs({n \in S : fs[n] # 0}) : Sorted(l)}

Begin(p, k, prof, l) ==
  /\ pc[p] = "idle" /\ jobs > 0
  /\ jobs' = jobs - 1
  /\ pc' = [pc EXCEPT ![p] = "next"]
  /\ job' = [job EXCEPT ![p] = [NoJob EXCEPT !.kind = k, !.profile = prof,
                                             !.list = l, !.todo = l]]
  /\ schema' = (schema \/ k # "reindex")
  /\ since' = [since EXCEPT ![p] = [n \in Paths |-> {fs[n]}]]
  /\ wrote' = [wrote EXCEPT ![p] = {}]
  /\ blind' = [blind EXCEPT ![p] = {}]
  /\ alone' = [q \in Procs |-> q = p /\ \A o \in Procs \ {p} : pc[o] = "idle"]
  /\ UNCHANGED <<fs, edits, row, chunks, build, short>>

StartRefresh(p) ==
  /\ \E l \in Lists, prof \in Callers : Begin(p, "refresh", prof, l)
  /\ UNCHANGED faults

\* os.path.isdir and os.walk take a folder they cannot read for an empty one:
\* the walk misses the notes in it.
Walk(p, k, S) ==
  /\ pc[p] = "idle" /\ jobs > 0
  /\ \E missed \in SUBSET S :
       /\ IF missed = {} THEN UNCHANGED faults
                         ELSE faults > 0 /\ faults' = faults - 1
       /\ \E l \in Walks(S \ missed) : Begin(p, k, "admin", l)

StartWiki(p)      == Walk(p, "wiki", Wiki)
StartReconcile(p) == Walk(p, "reconcile", Allowed)
StartReindex(p)   == Walk(p, "reindex", Allowed)

Goto(p, l) == pc' = [pc EXCEPT ![p] = l]

\* The job is over; its caller has the list of updated paths, or an error.
End(p, l) ==
  /\ Goto(p, l)
  /\ UNCHANGED <<job, since>>

Advance(p) ==
  /\ Goto(p, "next")
  /\ job' = [job EXCEPT ![p] = [job[p] EXCEPT !.todo = Tail(job[p].todo), !.got = 0,
                                               !.at = 0, !.tries = 0, !.emb = <<>>]]
  /\ UNCHANGED since

\* Mutant: refresh_paths, too, swallows the exception of one path.
Raise_continues(p) == Advance(p)

\* An exception leaves refresh_paths and startup_reconcile at once;
\* reindex_all_vectors goes on with the next path.
Raise(p) == IF job[p].kind = "reindex" THEN Advance(p) ELSE End(p, "error")

Finish(p) ==
  /\ pc[p] = "next" /\ job[p].todo = <<>>
  /\ End(p, "ok")
  /\ UNCHANGED <<tables, wrote, blind, alone, faults>>

Skip(p) ==
  /\ pc[p] = "next" /\ job[p].todo # <<>>
  /\ n_(p) \notin Md
  /\ Advance(p)
  /\ UNCHANGED <<tables, wrote, blind, alone, faults>>

Refused(p) ==
  /\ pc[p] = "next" /\ job[p].todo # <<>>
  /\ n_(p) \in Md /\ ~May(p)
  /\ Raise(p)
  /\ UNCHANGED <<tables, wrote, blind, alone, faults>>

Granted(p) ==
  /\ pc[p] = "next" /\ job[p].todo # <<>>
  /\ n_(p) \in Md /\ May(p)

\* _path_exists, which only refresh_paths asks
Asks(p) == job[p].kind \in {"refresh", "wiki"}

Exists(p) ==
  /\ Granted(p)
  /\ Goto(p, IF Asks(p) /\ fs[n_(p)] = 0 THEN "delete" ELSE "read")
  /\ UNCHANGED <<tables, history, job, faults>>

\* os.path.exists takes a stat that fails for a file that is not there.
StatError(p) ==
  /\ Granted(p) /\ Asks(p)
  /\ faults > 0
  /\ faults' = faults - 1
  /\ Goto(p, "delete")
  /\ blind' = [blind EXCEPT ![p] = @ \cup {n_(p)}]
  /\ UNCHANGED <<tables, since, wrote, alone, job>>

\* read_file raises when the file is gone by now.
Read(p) ==
  /\ pc[p] = "read"
  /\ \/ /\ fs[n_(p)] # 0
        /\ job' = [job EXCEPT ![p].got = fs[n_(p)]]
        /\ Goto(p, IF job[p].kind = "reindex" THEN "embed" ELSE "upsert")
        /\ UNCHANGED since
     \/ fs[n_(p)] = 0 /\ Raise(p)
  /\ UNCHANGED <<tables, wrote, blind, alone, faults>>

\* Mutant: the row is stamped with the newest version that any note has.
Upserted_now(p) == [row EXCEPT ![n_(p)] = edits]

\* What upsert_note_index leaves: content and revision as read.
Upserted(p) == [row EXCEPT ![n_(p)] = job[p].got]

Upsert(p) ==
  /\ pc[p] = "upsert"
  /\ row' = Upserted(p)
  /\ wrote' = [wrote EXCEPT ![p] = @ \cup {n_(p)}]
  /\ Goto(p, "embed")
  /\ UNCHANGED <<fs, edits, schema, chunks, build, short, job, since, blind,
                 alone, faults, jobs>>

\* Mutant: a note that is gone keeps its rows.
Deleted_keeps(p) == row

Deleted(p) == [row EXCEPT ![n_(p)] = 0]

\* delete_note_index leaves the note_chunks rows alone.
Delete(p) ==
  /\ pc[p] = "delete"
  /\ row' = Deleted(p)
  /\ wrote' = [wrote EXCEPT ![p] = @ \cup {n_(p)}]
  /\ Advance(p)
  /\ UNCHANGED <<fs, edits, schema, chunks, build, short, blind, alone, faults,
                 jobs>>

\* A file that cannot be read, or a database that stays locked for longer
\* than busy_timeout: the transaction is rolled back.
Fault(p) ==
  /\ faults > 0
  /\ pc[p] \in {"read", "upsert", "delete", "store"}
  /\ Raise(p)
  /\ faults' = faults - 1
  /\ UNCHANGED <<tables, wrote, blind, alone>>

-----------------------------------------------------------------------------
(* Embeddings *)

TextsOf(p) == Texts[job[p].got]
Min2(a, b) == IF a < b THEN a ELSE b
Batch(p)   == Min2(BatchSize, TextsOf(p) - job[p].at)   \* texts in this batch

\* No backend, no API base, no key or no chunk: nothing is stored.
NoEmbedding(p) ==
  /\ pc[p] = "embed" /\ (~build.embeds \/ TextsOf(p) = 0)
  /\ Advance(p)
  /\ UNCHANGED <<tables, wrote, blind, alone, faults>>

\* Mutant: the loop over the batches does not advance.
Extend_sameBatch(p, es) ==
  LET j == job[p]
  IN /\ job' = [job EXCEPT ![p] = [j EXCEPT !.emb = j.emb \o es, !.tries = 0]]
     /\ Goto(p, IF Len(j.emb) >= TextsOf(p) THEN "store" ELSE "embed")

\* all_embeddings grows by what the batch gave.
Extend(p, es) ==
  LET j == job[p]
  IN /\ job' = [job EXCEPT ![p] = [j EXCEPT !.emb = j.emb \o es, !.tries = 0,
                                            !.at = j.at + Batch(p)]]
     /\ Goto(p, IF j.at + Batch(p) = TextsOf(p) THEN "store" ELSE "embed")

Embedding(p) == pc[p] = "embed" /\ build.embeds /\ TextsOf(p) # 0

\* The embedding of text i is i; the API sorts them by index.
Answered(p) ==
  /\ Embedding(p)
  /\ Extend(p, [i \in 1..Batch(p) |-> job[p].at + i])
  /\ UNCHANGED <<tables, history, faults>>

\* The API answers 200 with JSON of another form: AttributeError or TypeError,
\* which neither _call_embedding_api nor embed_batch catches.
BadAnswer(p) ==
  /\ Embedding(p) /\ faults > 0
  /\ Raise(p)
  /\ faults' = faults - 1
  /\ UNCHANGED <<tables, wrote, blind, alone>>

\* The API answers 200 with the embeddings of only some of the texts.
ShortAnswer(p) ==
  /\ Embedding(p) /\ faults > 0
  /\ faults' = faults - 1
  /\ \E k \in 0..(Batch(p) - 1) :
       Extend(p, [i \in 1..k |-> job[p].at + i])
  /\ short' = short \cup {n_(p)}
  /\ UNCHANGED <<fs, edits, schema, row, chunks, build, history, jobs>>

\* An attempt fails and the loop sleeps.
Attempt(p) == job' = [job EXCEPT ![p].tries = @ + 1] /\ UNCHANGED pc

\* Mutant: a batch that failed leaves no placeholders behind.
Placeholders_none(p) == <<>>

\* One empty embedding per text of a batch that failed MAX_RETRIES times.
Placeholders(p) == [i \in 1..Batch(p) |-> 0]

Failed(p) ==
  /\ Embedding(p)
  /\ IF job[p].tries + 1 < MAX_RETRIES THEN Attempt(p)
                                       ELSE Extend(p, Placeholders(p))
  /\ UNCHANGED <<tables, history, faults>>

\* Mutant: chunk rows are added to those the note had.
Replaced_adds(p, rows) == [chunks EXCEPT ![n_(p)] = @ \cup rows]

Replaced(p, rows) == [chunks EXCEPT ![n_(p)] = rows]

\* zip(chunks, embeddings), without the empty ones, and upsert_note_chunks.
\* It raises where note_chunks_vec exists (the table has no column id) and
\* where nobody has created note_chunks.
Store(p) ==
  LET j    == job[p]
      rows == {[rev |-> j.got, pos |-> i] :
                 i \in {k \in 1..Min2(Len(j.emb), TextsOf(p)) : j.emb[k] # 0}}
  IN /\ pc[p] = "store"
     /\ \/ rows = {} /\ Advance(p) /\ UNCHANGED chunks
        \/ rows # {} /\ (build.vec0 \/ ~schema) /\ Raise(p) /\ UNCHANGED chunks
        \/ /\ rows # {} /\ ~build.vec0 /\ schema
           /\ chunks' = Replaced(p, rows)
           /\ Advance(p)
     /\ UNCHANGED <<fs, edits, schema, row, build, short, wrote, blind, alone,
                    faults, jobs>>

-----------------------------------------------------------------------------
(* Searches *)

\* search_fts: a query matches every row, to be on the safe side.
FullText == {[path |-> n, rev |-> row[n]] : n \in {m \in Md : row[m] # 0}}

\* search_notes: note_chunks_vec is missing or empty in every build, so
\* query_similar answers nothing and the full-text rows are the answer.
\* find_similar_notes, which has no other source, always answers nothing.
SearchNotes == FilterResults(FullText)

\* A search writes, too: it creates the schema.
Search(p) ==
  /\ pc[p] = "idle" /\ ~schema
  /\ schema' = TRUE
  /\ UNCHANGED <<fs, edits, row, chunks, build, pc, job, history, short, faults, jobs>>

\* The caller gets its answer, or the process dies (at any point of the job)
\* and is started again: the job is forgotten, what it committed stays.
Forget(p) ==
  /\ Goto(p, "idle")
  /\ job' = [job EXCEPT ![p] = NoJob]
  /\ since' = [since EXCEPT ![p] = Unseen]
  /\ wrote' = [wrote EXCEPT ![p] = {}]
  /\ blind' = [blind EXCEPT ![p] = {}]
  /\ alone' = [alone EXCEPT ![p] = FALSE]
  /\ UNCHANGED <<tables, faults>>

Return(p) == pc[p] \in {"ok", "error"} /\ Forget(p)
Crash(p)  == pc[p] \notin {"idle", "ok", "error"} /\ Forget(p)

Step(p) ==
  \/ Finish(p) \/ Skip(p) \/ Refused(p) \/ Exists(p) \/ StatError(p)
  \/ Read(p) \/ Upsert(p) \/ Delete(p) \/ Fault(p)
  \/ NoEmbedding(p) \/ Answered(p) \/ BadAnswer(p) \/ ShortAnswer(p)
  \/ Failed(p) \/ Store(p)
  \/ Return(p)

Start ==
  \/ \E p \in Servers : StartRefresh(p)
  \/ \E p \in Scripts : StartWiki(p) \/ StartReconcile(p) \/ StartReindex(p)

Next ==
  \/ VaultChanges \/ Start
  \/ \E p \in Procs : Step(p) \/ Crash(p)
  \/ \E p \in Servers : Search(p)

Spec == Init /\ [][Next]_vars

-----------------------------------------------------------------------------
(* Properties *)

\* A row a job writes holds content that its note had while the job ran, and
\* a row it deletes is of a note that was missing while it ran or that the job
\* could not stat: however two jobs and the edits of the vault interleave, no
\* job brings back what was gone before it began.
RowsSeenInJob ==
  [][\A n \in Paths : row'[n] # row[n] =>
       \E p \in Procs : pc[p] # "idle" /\
         \/ row'[n] \in since[p][n]
         \/ row'[n] = 0 /\ n \in blind[p]]_vars

\* The job p has ended well, undisturbed by edits or by another process.
QuietSuccess(p) == alone[p] /\ pc[p] = "ok" /\ job[p].kind # "reindex"

\* A quiet success leaves the index equal to the vault on every note it named
\* and could stat; a walk does so for the notes it found.
QuietSuccessIsCurrent ==
  \A p \in Procs : QuietSuccess(p) =>
    \A n \in (Range(job[p].list) \cap Md) \ blind[p] : row[n] = fs[n]

\* A job that fails has refreshed the notes before one point of its list, and
\* nothing after it, however often a note is named; one that succeeds has
\* refreshed them all.
DonePathsArePrefix ==
  \A p \in Procs : job[p].kind # "reindex" =>
    LET l == job[p].list
    IN /\ \E k \in 0..Len(l) : wrote[p] = {l[i] : i \in 1..k} \cap Md
       /\ pc[p] = "ok" => wrote[p] = Range(l) \cap Md

\* However jobs of two processes interleave, the chunk rows of a note are
\* those of one version, one row per position.
ChunksOfOneVersion ==
  \A n \in Paths : \A r, s \in chunks[n] :
    r.rev = s.rev /\ (r.pos = s.pos => r = s)

\* The chunks stored for a note are those whose text got an embedding from
\* the API, also when some of the batches failed: only an API that answers
\* with fewer embeddings than it was asked for can shift them.
ChunksWereEmbedded ==
  [][\A n \in Paths \ short : chunks'[n] # chunks[n] =>
       \E p \in Procs :
         /\ pc[p] = "store" /\ n_(p) = n
         /\ chunks'[n] = {[rev |-> job[p].got, pos |-> i] :
                            i \in Range(job[p].emb) \ {0}}]_vars

\* Nothing under a denylist root enters the index or leaves it, and no search
\* answers it, whatever an earlier configuration has indexed.
DeniedStaysOut ==
  [][\A n \in Denied :
       /\ row'[n] = row[n] /\ chunks'[n] = chunks[n]
       /\ \A h \in SearchNotes' : h.path # n]_vars

\* The steps a job may still make for its current path, at most ...
PathSteps == MaxTexts * MAX_RETRIES + 5
LeftOnPath(p) ==
  CASE pc[p] = "next"   -> IF job[p].todo = <<>> THEN 1 ELSE PathSteps
    [] pc[p] = "read"   -> PathSteps - 1
    [] pc[p] = "upsert" -> PathSteps - 2
    [] pc[p] = "embed"  ->
         2 + (TextsOf(p) - job[p].at) * MAX_RETRIES - job[p].tries
    [] pc[p] \in {"store", "delete"} -> 1
    [] OTHER -> 0

\* ... and for the rest of its list.
Rank(p) == Len(job[p].todo) * PathSteps + LeftOnPath(p)

\* A job ends, however often the embedding API fails and whatever the other
\* process does: every step it makes takes it closer to its end, and no step
\* of anybody else takes it further away.
JobsWindDown ==
  [][\A p \in Procs : pc[p] # "idle" /\ pc'[p] # "idle" =>
       \/ UNCHANGED <<pc[p], job[p]>>
       \/ Rank(p)' < Rank(p)]_vars
=============================================================================
