------------------------ MODULE IndexRefresh_proofs ------------------------
(***************************************************************************)
(* Theorems about IndexRefresh for every set of processes and notes, every *)
(* list of paths and every bound.                                          *)
(***************************************************************************)
EXTENDS IndexRefresh, TLAPS, FiniteSetTheorems

AtPath == {"read", "upsert", "delete", "embed", "store"}
Fields == {"kind", "profile", "list", "todo", "got", "at", "tries", "emb"}

\* What the types of the variables have to say; what the list of a job holds
\* is Listed's, below.
Shape ==
  /\ fs \in [Paths -> Versions] /\ edits \in 1..(MaxEdits + 1)
  /\ row \in [Paths -> Versions]
  /\ pc \in [Procs -> Labels]
  /\ since \in [Procs -> [Paths -> SUBSET Versions]]
  /\ blind \in [Procs -> SUBSET Paths]
  /\ DOMAIN job = Procs /\ job = [p \in Procs |-> job[p]]
  /\ \A p \in Procs : DOMAIN job[p] = Fields

\* A job has seen what each note is now, what it is about to write, and that
\* what it is about to delete was missing or could not be asked for.
Seen ==
  \A p \in Procs :
    /\ pc[p] # "idle" => \A n \in Paths : fs[n] \in since[p][n]
    /\ pc[p] = "upsert" /\ n_(p) \in Paths => job[p].got \in since[p][n_(p)]
    /\ pc[p] = "delete" /\ n_(p) \in Paths =>
         0 \in since[p][n_(p)] \/ n_(p) \in blind[p]

LEMMA InitShape == Init => Shape /\ Seen
  BY SizesAssumption DEF Init, Shape, Seen, Versions, Labels, NoJob, Unseen, Fields

LEMMA RowTyped ==
  ASSUME row \in [Paths -> Versions], NEW n, NEW v, n \in Paths => v \in Versions
  PROVE  [row EXCEPT ![n] = v] \in [Paths -> Versions]
  OBVIOUS

LEMMA ForgetShape ==
  ASSUME Shape, Seen, NEW p \in Procs, Forget(p)
  PROVE  Shape' /\ Seen'
  BY DEF Forget, Goto, tables, Shape, Seen, n_, NoJob, Fields, Labels, Unseen

\* Steps that change one job and its label, and nothing else that counts.
LEMMA MoveShape ==
  ASSUME Shape, Seen, NEW p \in Procs, NEW l \in Labels,
         pc' = [pc EXCEPT ![p] = l], pc[p] = "idle" => l = "idle",
         l # "upsert",
         l = "delete" /\ n_(p)' \in Paths =>
           0 \in since[p][n_(p)'] \/ n_(p)' \in blind'[p],
         blind' \in [Procs -> SUBSET Paths],
         \A q \in Procs : blind[q] \subseteq blind'[q],
         DOMAIN job' = Procs, job' = [q \in Procs |-> job'[q]],
         \A q \in Procs \ {p} : job'[q] = job[q],
         DOMAIN job'[p] = Fields,
         UNCHANGED <<fs, edits, since>>, row' \in [Paths -> Versions]
  PROVE  Shape' /\ Seen'
  <1>1. Shape'
    BY DEF Shape
  <1>2. ASSUME NEW q \in Procs, NEW n \in Paths, pc'[q] # "idle"
        PROVE  fs'[n] \in since'[q][n]
    BY <1>2 DEF Shape, Seen
  <1>3. ASSUME NEW q \in Procs, pc'[q] = "upsert", n_(q)' \in Paths
        PROVE  job'[q].got \in since'[q][n_(q)']
    BY <1>3 DEF Shape, Seen, n_
  <1>4. ASSUME NEW q \in Procs, pc'[q] = "delete", n_(q)' \in Paths
        PROVE  0 \in since'[q][n_(q)'] \/ n_(q)' \in blind'[q]
    <2>1. CASE q = p
      BY <1>4, <2>1 DEF Shape
    <2>2. CASE q # p
      BY <1>4, <2>2 DEF Shape, Seen, n_
    <2>. QED BY <2>1, <2>2
  <1>. QED BY <1>1, <1>2, <1>3, <1>4 DEF Seen

\* Steps that leave a job between two paths, or at its end.
LEMMA AdvanceShape ==
  ASSUME Shape, Seen, NEW p \in Procs, Advance(p), pc[p] # "idle",
         UNCHANGED <<fs, edits, blind>>, row' \in [Paths -> Versions]
  PROVE  Shape' /\ Seen'
  <1>1. /\ DOMAIN job' = Procs /\ job' = [q \in Procs |-> job'[q]]
        /\ \A q \in Procs \ {p} : job'[q] = job[q]
        /\ DOMAIN job'[p] = Fields
    BY DEF Advance, Shape
  <1>. QED BY <1>1, MoveShape DEF Advance, Goto, Labels, Shape

LEMMA EndShape ==
  ASSUME Shape, Seen, NEW p \in Procs, NEW l \in {"ok", "error"}, End(p, l),
         pc[p] # "idle", UNCHANGED <<fs, edits, row, blind>>
  PROVE  Shape' /\ Seen'
  <1>1. /\ DOMAIN job' = Procs /\ job' = [q \in Procs |-> job'[q]]
        /\ \A q \in Procs : job'[q] = job[q]
        /\ DOMAIN job'[p] = Fields
    BY DEF End, Shape
  <1>. QED BY <1>1, MoveShape DEF End, Goto, Labels, Shape

LEMMA RaiseShape ==
  ASSUME Shape, Seen, NEW p \in Procs, Raise(p), pc[p] # "idle",
         UNCHANGED <<fs, edits, row, blind>>
  PROVE  Shape' /\ Seen'
  BY AdvanceShape, EndShape DEF Raise, Shape

LEMMA EditShape ==
  ASSUME Shape, Seen, NEW n \in Edited, NEW v, v = edits + 1 \/ v = 0, Edit(n, v)
  PROVE  Shape' /\ Seen'
  <1>. USE DEF Edit
  <1>1. v \in Versions /\ edits' \in 1..(MaxEdits + 1)
    BY SizesAssumption DEF Shape, Versions
  <1>2. since' \in [Procs -> [Paths -> SUBSET Versions]]
    <2>1. ASSUME NEW q \in Procs
          PROVE  [since[q] EXCEPT ![n] = @ \cup {v}] \in [Paths -> SUBSET Versions]
      <3>1. since[q] \in [Paths -> SUBSET Versions]
        BY DEF Shape
      <3>2. CASE n \in Paths
        BY <3>1, <3>2, <1>1
      <3>3. CASE n \notin Paths
        BY <3>1, <3>3
      <3>. QED BY <3>2, <3>3
    <2>. QED BY <2>1 DEF Shape
  <1>3. Shape'
    BY <1>1, <1>2 DEF Shape
  <1>4. \A q \in Procs, m \in Paths : since[q][m] \subseteq since'[q][m]
    BY DEF Shape
  <1>5. ASSUME NEW q \in Procs, pc'[q] # "idle", NEW m \in Paths
        PROVE  fs'[m] \in since'[q][m]
    BY <1>5 DEF Shape, Seen
  <1>. QED BY <1>3, <1>4, <1>5 DEF Seen, n_, Shape

LEMMA BeginShape ==
  ASSUME Shape, Seen, NEW p \in Procs, NEW k, NEW prof, NEW l, Begin(p, k, prof, l)
  PROVE  Shape' /\ Seen'
  <1>. USE DEF Begin
  <1>1. /\ DOMAIN job' = Procs /\ job' = [q \in Procs |-> job'[q]]
        /\ DOMAIN job'[p] = Fields
        /\ \A q \in Procs \ {p} : job'[q] = job[q]
    BY DEF Shape, NoJob, Fields
  <1>2. Shape'
    BY <1>1 DEF Shape, Labels, Versions
  <1>3. ASSUME NEW q \in Procs
        PROVE  /\ pc'[q] # "idle" => \A n \in Paths : fs'[n] \in since'[q][n]
               /\ pc'[q] = "upsert" /\ n_(q)' \in Paths => job'[q].got \in since'[q][n_(q)']
               /\ pc'[q] = "delete" /\ n_(q)' \in Paths =>
                    0 \in since'[q][n_(q)'] \/ n_(q)' \in blind'[q]
    <2>1. CASE q = p
      BY <2>1 DEF Shape
    <2>2. CASE q # p
      BY <2>2, <1>1 DEF Shape, Seen, n_
    <2>. QED BY <2>1, <2>2
  <1>. QED BY <1>2, <1>3 DEF Seen

\* A batch is over: the list of embeddings grows.
LEMMA ExtendShape ==
  ASSUME Shape, Seen, NEW p \in Procs, NEW es, Extend(p, es), pc[p] = "embed",
         UNCHANGED <<fs, edits, row, since, blind>>
  PROVE  Shape' /\ Seen'
  <1>. DEFINE l == IF job[p].at + Batch(p) = TextsOf(p) THEN "store" ELSE "embed"
  <1>1. /\ DOMAIN job' = Procs /\ job' = [q \in Procs |-> job'[q]]
        /\ \A q \in Procs \ {p} : job'[q] = job[q]
        /\ DOMAIN job'[p] = Fields
    BY DEF Extend, Shape
  <1>2. pc' = [pc EXCEPT ![p] = l]
    BY DEF Extend, Goto
  <1>3. l \in Labels /\ l # "upsert" /\ l # "delete"
    BY DEF Labels
  <1>. HIDE DEF l
  <1>. QED BY <1>1, <1>2, <1>3, MoveShape DEF Shape

LEMMA StepShape ==
  ASSUME Shape, Seen, NEW p \in Procs, Step(p)
  PROVE  Shape' /\ Seen'
  <1>1. CASE Finish(p)
    BY <1>1, EndShape DEF Finish, tables
  <1>2. CASE Skip(p)
    BY <1>2, AdvanceShape DEF Skip, tables, Shape
  <1>3. CASE Refused(p)
    BY <1>3, RaiseShape DEF Refused, tables
  <1>4. CASE Exists(p)
    <2>1. /\ UNCHANGED <<fs, edits, row, since, blind, job>> /\ pc[p] = "next"
      BY <1>4 DEF Exists, Granted, tables, history
    <2>4. PICK l \in {"delete", "read"} :
               /\ pc' = [pc EXCEPT ![p] = l]
               /\ l = "delete" => fs[n_(p)] = 0
      <3>1. CASE Asks(p) /\ fs[n_(p)] = 0
        BY <1>4, <3>1 DEF Exists, Goto
      <3>2. CASE ~(Asks(p) /\ fs[n_(p)] = 0)
        BY <1>4, <3>2 DEF Exists, Goto
      <3>. QED BY <3>1, <3>2
    <2>2. n_(p)' = n_(p)
      BY <2>1 DEF n_
    <2>3. n_(p) \in Paths /\ fs[n_(p)] = 0 => 0 \in since[p][n_(p)]
      BY <2>1 DEF Seen, Shape
    <2>5. /\ DOMAIN job' = Procs /\ job' = [q \in Procs |-> job'[q]]
          /\ \A q \in Procs \ {p} : job'[q] = job[q]
          /\ DOMAIN job'[p] = Fields /\ row' \in [Paths -> Versions]
          /\ blind' \in [Procs -> SUBSET Paths]
      BY <2>1 DEF Shape
    <2>6. l \in Labels /\ l # "upsert" /\ pc[p] # "idle"
      BY <2>1 DEF Labels
    <2>7. l = "delete" /\ n_(p)' \in Paths => 0 \in since[p][n_(p)']
      BY <2>2, <2>3, <2>4
    <2>. QED BY <2>1, <2>4, <2>5, <2>6, <2>7, MoveShape
  <1>15. CASE StatError(p)
    <2>1. /\ UNCHANGED <<fs, edits, row, since, job>> /\ pc[p] = "next"
          /\ n_(p) \in Paths /\ pc' = [pc EXCEPT ![p] = "delete"]
          /\ blind' = [blind EXCEPT ![p] = @ \cup {n_(p)}]
      BY <1>15 DEF StatError, Granted, tables, Goto, Paths
    <2>2. n_(p)' = n_(p)
      BY <2>1 DEF n_
    <2>3. /\ DOMAIN job' = Procs /\ job' = [q \in Procs |-> job'[q]]
          /\ \A q \in Procs \ {p} : job'[q] = job[q]
          /\ DOMAIN job'[p] = Fields /\ row' \in [Paths -> Versions]
      BY <2>1 DEF Shape
    <2>4. /\ blind' \in [Procs -> SUBSET Paths] /\ n_(p)' \in blind'[p]
          /\ \A q \in Procs : blind[q] \subseteq blind'[q]
      BY <2>1, <2>2 DEF Shape
    <2>. QED BY <2>1, <2>3, <2>4, MoveShape DEF Labels
  <1>5. CASE Read(p)
    <2>1. CASE fs[n_(p)] = 0 /\ Raise(p)
      BY <1>5, <2>1, RaiseShape DEF Read, tables
    <2>2. CASE fs[n_(p)] # 0 /\ job[p].kind = "reindex"
      <3>1. /\ UNCHANGED <<fs, edits, row, since, blind>> /\ pc[p] = "read"
            /\ pc' = [pc EXCEPT ![p] = "embed"]
            /\ job' = [job EXCEPT ![p].got = fs[n_(p)]]
        BY <1>5, <2>2 DEF Read, tables, Goto, Raise
      <3>2. /\ DOMAIN job' = Procs /\ job' = [q \in Procs |-> job'[q]]
            /\ \A q \in Procs \ {p} : job'[q] = job[q]
            /\ DOMAIN job'[p] = Fields /\ row' \in [Paths -> Versions]
            /\ blind' \in [Procs -> SUBSET Paths]
        BY <3>1 DEF Shape
      <3>. QED BY <3>1, <3>2, MoveShape DEF Labels
    <2>3. CASE fs[n_(p)] # 0 /\ job[p].kind # "reindex"
      <3>1. /\ UNCHANGED <<fs, edits, row, since, blind>> /\ pc[p] = "read"
            /\ pc' = [pc EXCEPT ![p] = "upsert"]
            /\ job' = [job EXCEPT ![p].got = fs[n_(p)]]
        BY <1>5, <2>3 DEF Read, tables, Goto, Raise
      <3>2. Shape'
        BY <3>1 DEF Shape, Labels
      <3>3. n_(p)' = n_(p) /\ job'[p].got = fs[n_(p)]
        BY <3>1 DEF n_, Shape, Fields
      <3>4. \A q \in Procs \ {p} : job'[q] = job[q] /\ pc'[q] = pc[q] /\ n_(q)' = n_(q)
        BY <3>1 DEF n_, Shape
      <3>5. pc'[p] = "upsert"
        BY <3>1 DEF Shape
      <3>. QED BY <3>1, <3>2, <3>3, <3>4, <3>5 DEF Seen
    <2>. QED BY <1>5, <2>1, <2>2, <2>3 DEF Read
  <1>6. CASE Upsert(p)
    <2>1. row' \in [Paths -> Versions]
      <3>1. n_(p) \in Paths => job[p].got \in Versions
        BY <1>6 DEF Upsert, Shape, Seen
      <3>. QED BY <1>6, <3>1, RowTyped DEF Upsert, Upserted, Shape
    <2>2. UNCHANGED <<fs, edits, since, blind, job>> /\ pc[p] = "upsert"
          /\ pc' = [pc EXCEPT ![p] = "embed"]
      BY <1>6 DEF Upsert, Goto
    <2>3. /\ DOMAIN job' = Procs /\ job' = [q \in Procs |-> job'[q]]
          /\ \A q \in Procs \ {p} : job'[q] = job[q]
          /\ DOMAIN job'[p] = Fields
      BY <2>2 DEF Shape
    <2>. QED BY <2>1, <2>2, <2>3, MoveShape DEF Labels, Shape
  <1>7. CASE Delete(p)
    <2>1. row' \in [Paths -> Versions]
      <3>1. 0 \in Versions
        BY SizesAssumption DEF Versions
      <3>. QED BY <1>7, <3>1, RowTyped DEF Delete, Deleted, Shape
    <2>. QED BY <1>7, <2>1, AdvanceShape DEF Delete
  <1>8. CASE Fault(p) \/ BadAnswer(p)
    BY <1>8, RaiseShape DEF Fault, BadAnswer, Embedding, tables
  <1>9. CASE NoEmbedding(p)
    BY <1>9, AdvanceShape DEF NoEmbedding, tables, Shape
  <1>10. CASE Answered(p)
    BY <1>10, ExtendShape DEF Answered, Embedding, tables, history
  <1>11. CASE ShortAnswer(p)
    BY <1>11, ExtendShape DEF ShortAnswer, Embedding, history
  <1>12. CASE Failed(p)
    <2>1. CASE Attempt(p)
      <3>1. /\ UNCHANGED <<fs, edits, since, blind, row, pc>> /\ pc[p] = "embed"
            /\ job' = [job EXCEPT ![p].tries = job[p].tries + 1]
        BY <1>12, <2>1 DEF Failed, Embedding, Attempt, tables, history
      <3>2. pc' = [pc EXCEPT ![p] = "embed"]
        BY <3>1 DEF Shape
      <3>3. /\ DOMAIN job' = Procs /\ job' = [q \in Procs |-> job'[q]]
            /\ \A q \in Procs \ {p} : job'[q] = job[q]
            /\ DOMAIN job'[p] = Fields /\ row' \in [Paths -> Versions]
        BY <3>1 DEF Shape
      <3>. QED BY <3>1, <3>2, <3>3, MoveShape DEF Labels, Shape
    <2>2. CASE Extend(p, Placeholders(p))
      BY <1>12, <2>2, ExtendShape DEF Failed, Embedding, tables, history
    <2>. QED BY <1>12, <2>1, <2>2 DEF Failed
  <1>13. CASE Store(p)
    <2>1. UNCHANGED <<fs, edits, row, blind>> /\ pc[p] = "store" /\ (Advance(p) \/ Raise(p))
      BY <1>13 DEF Store
    <2>. QED BY <2>1, AdvanceShape, RaiseShape DEF Shape
  <1>14. CASE Return(p)
    BY <1>14, ForgetShape DEF Return
  <1>. QED BY <1>1, <1>2, <1>3, <1>4, <1>5, <1>6, <1>7, <1>8, <1>9, <1>10, <1>11,
              <1>12, <1>13, <1>14, <1>15 DEF Step

LEMMA NextShape ==
  ASSUME Shape, Seen, [Next]_vars
  PROVE  Shape' /\ Seen'
  <1>1. CASE VaultChanges
    BY <1>1, EditShape DEF VaultChanges
  <1>2. CASE Start
    <2>. QED BY <1>2, BeginShape
             DEF Start, StartRefresh, StartWiki, Walk, StartReconcile, StartReindex, Procs
  <1>3. ASSUME NEW p \in Procs, Step(p)
        PROVE  Shape' /\ Seen'
    BY <1>3, StepShape
  <1>4. ASSUME NEW p \in Procs, Crash(p)
        PROVE  Shape' /\ Seen'
    BY <1>4, ForgetShape DEF Crash
  <1>5. ASSUME NEW p \in Servers, Search(p)
        PROVE  Shape' /\ Seen'
    BY <1>5 DEF Search, history, Shape, Seen, n_
  <1>6. CASE UNCHANGED vars
    BY <1>6 DEF vars, Shape, Seen, n_
  <1>. QED BY <1>1, <1>2, <1>3, <1>4, <1>5, <1>6 DEF Next

\* The invariant behind the theorems below holds in every state: the variables
\* have their shape, and a job has seen what the index holds of its notes.
THEOREM ShapeAndSeen == Spec => [](Shape /\ Seen)
  <1>1. Init => Shape /\ Seen
    BY InitShape
  <1>2. Shape /\ Seen /\ [Next]_vars => (Shape /\ Seen)'
    BY NextShape
  <1>. QED BY <1>1, <1>2, PTL DEF Spec

-----------------------------------------------------------------------------
(* RowsSeenInJob *)

\* A row changes only where a job upserts or deletes.
LEMMA RowChange ==
  ASSUME Next, row' # row
  PROVE  \E p \in Procs :
           \/ pc[p] = "upsert" /\ row' = Upserted(p)
           \/ pc[p] = "delete" /\ row' = Deleted(p)
  <1>1. ASSUME NEW p \in Procs, Step(p)
        PROVE  \/ pc[p] = "upsert" /\ row' = Upserted(p)
               \/ pc[p] = "delete" /\ row' = Deleted(p)
    <2>1. Upsert(p) \/ Delete(p)
      BY <1>1 DEF Step, Finish, Skip, Refused, Exists, Read, Fault, NoEmbedding,
                  Answered, ShortAnswer, BadAnswer, StatError, Granted, Asks,
                  Failed,
                Store, Return, Forget, tables
    <2>. QED BY <2>1 DEF Upsert, Delete
  <1>2. ~VaultChanges /\ ~Start
    BY DEF VaultChanges, Edit, Start, StartRefresh, StartWiki, Walk, StartReconcile,
           StartReindex, Begin
  <1>3. \A p \in Procs : ~Crash(p) /\ ~Search(p)
    BY DEF Crash, Search, Forget, tables
  <1>. QED BY <1>1, <1>2, <1>3 DEF Next, Procs

LEMMA RowStep ==
  ASSUME Shape, Seen, Next, NEW n \in Paths, row'[n] # row[n]
  PROVE  \E p \in Procs : pc[p] # "idle" /\
           \/ row'[n] \in since[p][n]
           \/ row'[n] = 0 /\ n \in blind[p]
  <1>1. PICK p \in Procs :
           \/ pc[p] = "upsert" /\ row' = Upserted(p)
           \/ pc[p] = "delete" /\ row' = Deleted(p)
    BY RowChange
  <1>2. CASE pc[p] = "upsert" /\ row' = Upserted(p)
    <2>1. n = n_(p) /\ row'[n] = job[p].got
      BY <1>2 DEF Upserted, Shape
    <2>. QED BY <1>2, <2>1 DEF Seen
  <1>3. CASE pc[p] = "delete" /\ row' = Deleted(p)
    <2>1. n = n_(p) /\ row'[n] = 0
      BY <1>3 DEF Deleted, Shape
    <2>. QED BY <1>3, <2>1 DEF Seen
  <1>. QED BY <1>1, <1>2, <1>3

\* For every number of processes, notes, edits and jobs: a row a job writes
\* holds content that its note had while the job ran, and a row it deletes is
\* of a note that was missing while it ran or that the job could not stat.
THEOREM RowsAreSeen == Spec => RowsSeenInJob
  <1>1. Shape /\ Seen /\ [Next]_vars =>
          [\A n \in Paths : row'[n] # row[n] =>
             \E p \in Procs : pc[p] # "idle" /\
               \/ row'[n] \in since[p][n]
               \/ row'[n] = 0 /\ n \in blind[p]]_vars
    BY RowStep DEF vars
  <1>. QED BY <1>1, ShapeAndSeen, PTL DEF Spec, RowsSeenInJob

-----------------------------------------------------------------------------
(* ChunksOfOneVersion *)

Chunked ==
  /\ DOMAIN chunks = Paths /\ chunks = [n \in Paths |-> chunks[n]]
  /\ ChunksOfOneVersion

\* The chunk rows of a note change only when they are all replaced.
LEMMA ChunksChange ==
  ASSUME [Next]_vars, chunks' # chunks
  PROVE  \E p \in Procs :
           /\ pc[p] = "store"
           /\ chunks' = Replaced(p,
                 {[rev |-> job[p].got, pos |-> i] :
                    i \in {k \in 1..Min2(Len(job[p].emb), TextsOf(p)) : job[p].emb[k] # 0}})
  <1>1. ASSUME NEW p \in Procs, Step(p)
        PROVE  Store(p)
    BY <1>1 DEF Step, Finish, Skip, Refused, Exists, Read, Upsert, Delete, Fault,
                NoEmbedding, Answered, ShortAnswer, BadAnswer, StatError,
                Granted, Asks,
                Failed, Return, Forget, tables
  <1>2. ~VaultChanges /\ ~Start
    BY DEF VaultChanges, Edit, Start, StartRefresh, StartWiki, Walk, StartReconcile,
           StartReindex, Begin
  <1>3. \A p \in Procs : ~Crash(p) /\ ~Search(p)
    BY DEF Crash, Search, Forget, tables
  <1>4. PICK p \in Procs : Store(p)
    BY <1>1, <1>2, <1>3 DEF Next, Procs, vars
  <1>. QED BY <1>4 DEF Store

LEMMA ChunkedStep == Chunked /\ [Next]_vars => Chunked'
  <1>. SUFFICES ASSUME Chunked, [Next]_vars, chunks' # chunks
                PROVE  Chunked'
    BY DEF Chunked, ChunksOfOneVersion
  <1>1. PICK p \in Procs :
          chunks' = Replaced(p,
                 {[rev |-> job[p].got, pos |-> i] :
                    i \in {k \in 1..Min2(Len(job[p].emb), TextsOf(p)) : job[p].emb[k] # 0}})
    BY ChunksChange
  <1>. DEFINE rows == {[rev |-> job[p].got, pos |-> i] :
                    i \in {k \in 1..Min2(Len(job[p].emb), TextsOf(p)) : job[p].emb[k] # 0}}
  <1>2. \A r, s \in rows : r.rev = s.rev /\ (r.pos = s.pos => r = s)
    OBVIOUS
  <1>3. chunks' = [chunks EXCEPT ![n_(p)] = rows]
    BY <1>1 DEF Replaced
  <1>. HIDE DEF rows
  <1>4. \A n \in Paths : chunks'[n] = chunks[n] \/ chunks'[n] = rows
    BY <1>3 DEF Chunked
  <1>5. DOMAIN chunks' = Paths /\ chunks' = [n \in Paths |-> chunks'[n]]
    BY <1>3 DEF Chunked
  <1>. QED BY <1>2, <1>4, <1>5 DEF Chunked, ChunksOfOneVersion

\* However jobs interleave, crash and fail, the chunk rows of a note are those
\* of one version, one row per position.
THEOREM ChunksAreOfOneVersion == Spec => []ChunksOfOneVersion
  <1>1. Init => Chunked
    BY DEF Init, Chunked, ChunksOfOneVersion
  <1>2. Chunked => ChunksOfOneVersion
    BY DEF Chunked
  <1>. QED BY <1>1, <1>2, ChunkedStep, PTL DEF Spec

-----------------------------------------------------------------------------
(* DeniedStaysOut *)

\* A job works only on paths that it may refresh.
AtAllowed == \A p \in Procs : pc[p] \in AtPath => n_(p) \notin Denied

\* What a step of a job means for the path it is at.
LEMMA StaysAtPath ==
  ASSUME Shape, NEW p \in Procs, Step(p), pc'[p] \in AtPath
  PROVE  \/ n_(p)' = n_(p) /\ pc[p] \in AtPath
         \/ n_(p)' = n_(p) /\ n_(p) \notin Denied
  <1>. USE DEF AtPath
  <1>1. ASSUME Advance(p) PROVE FALSE
    BY <1>1 DEF Advance, Goto, Shape
  <1>2. ASSUME Raise(p) PROVE FALSE
    BY <1>1, <1>2 DEF Raise, End, Goto, Shape
  <1>3. ASSUME NEW es, Extend(p, es) PROVE n_(p)' = n_(p)
    <2>1. job'[p].todo = job[p].todo
      BY <1>3 DEF Extend, Shape, Fields
    <2>. QED BY <2>1 DEF n_
  <1>4. CASE Finish(p)
    BY <1>4 DEF Finish, End, Goto, Shape
  <1>5. CASE \/ Skip(p) \/ Refused(p) \/ Delete(p) \/ Fault(p)
            \/ NoEmbedding(p) \/ BadAnswer(p)
    BY <1>1, <1>2, <1>5
       DEF Skip, Refused, Delete, Fault, NoEmbedding, BadAnswer, Embedding
  <1>6. CASE Exists(p) \/ StatError(p)
    BY <1>6 DEF Exists, StatError, Granted, May, Authorize, n_
  <1>7. CASE Read(p)
    <2>1. job' = [job EXCEPT ![p].got = fs[n_(p)]] /\ pc[p] = "read"
      BY <1>2, <1>7 DEF Read
    <2>2. job'[p].todo = job[p].todo
      BY <2>1 DEF Shape, Fields
    <2>. QED BY <2>1, <2>2 DEF n_
  <1>8. CASE Upsert(p)
    BY <1>8 DEF Upsert, n_
  <1>9. CASE Answered(p)
    BY <1>3, <1>9 DEF Answered, Embedding
  <1>10. CASE ShortAnswer(p)
    BY <1>3, <1>10 DEF ShortAnswer, Embedding
  <1>11. CASE Failed(p)
    <2>1. CASE Attempt(p)
      <3>1. job'[p].todo = job[p].todo
        BY <2>1 DEF Attempt, Shape, Fields
      <3>. QED BY <3>1, <1>11 DEF n_, Failed, Embedding
    <2>2. CASE Extend(p, Placeholders(p))
      BY <1>3, <1>11, <2>2 DEF Failed, Embedding
    <2>. QED BY <1>11, <2>1, <2>2 DEF Failed
  <1>12. CASE Store(p)
    BY <1>1, <1>2, <1>12 DEF Store
  <1>13. CASE Return(p)
    BY <1>13 DEF Return, Forget, Goto, Shape
  <1>. QED BY <1>4, <1>5, <1>6, <1>7, <1>8, <1>9, <1>10, <1>11, <1>12, <1>13 DEF Step

\* A step of one job leaves the others alone.
LEMMA OthersStay ==
  ASSUME Shape, NEW p \in Procs, Step(p) \/ Crash(p), NEW q \in Procs \ {p}
  PROVE  job'[q] = job[q] /\ pc'[q] = pc[q]
  <1>. USE DEF Shape, Goto
  <1>1. ASSUME Advance(p) PROVE job'[q] = job[q] /\ pc'[q] = pc[q]
    BY <1>1 DEF Advance
  <1>2. ASSUME Raise(p) PROVE job'[q] = job[q] /\ pc'[q] = pc[q]
    BY <1>1, <1>2 DEF Raise, End
  <1>3. ASSUME NEW es, Extend(p, es) PROVE job'[q] = job[q] /\ pc'[q] = pc[q]
    BY <1>3 DEF Extend
  <1>4. ASSUME Forget(p) PROVE job'[q] = job[q] /\ pc'[q] = pc[q]
    BY <1>4 DEF Forget
  <1>5. CASE Finish(p) \/ Exists(p) \/ StatError(p) \/ Upsert(p)
    BY <1>5 DEF Finish, Exists, StatError, Upsert, End
  <1>6. CASE \/ Skip(p) \/ Refused(p) \/ Delete(p) \/ Fault(p)
             \/ NoEmbedding(p) \/ BadAnswer(p) \/ Store(p)
    BY <1>1, <1>2, <1>6 DEF Skip, Refused, Delete, Fault, NoEmbedding,
    BadAnswer, Store
  <1>7. CASE Read(p)
    BY <1>2, <1>7 DEF Read
  <1>8. CASE Answered(p) \/ ShortAnswer(p)
    BY <1>3, <1>8 DEF Answered, ShortAnswer
  <1>9. CASE Failed(p)
    BY <1>3, <1>9 DEF Failed, Attempt
  <1>10. CASE Return(p) \/ Crash(p)
    BY <1>4, <1>10 DEF Return, Crash
  <1>. QED BY <1>5, <1>6, <1>7, <1>8, <1>9, <1>10 DEF Step

LEMMA AtAllowedStep ==
  ASSUME Shape, AtAllowed, [Next]_vars
  PROVE  AtAllowed'
  <1>1. ASSUME NEW p \in Procs, Step(p)
        PROVE  AtAllowed'
    BY <1>1, StaysAtPath, OthersStay DEF AtAllowed, n_
  <1>2. ASSUME NEW p \in Procs, Crash(p)
        PROVE  AtAllowed'
    BY <1>2, OthersStay DEF AtAllowed, n_, Crash, Forget, Goto, Shape, AtPath
  <1>3. CASE VaultChanges
    BY <1>3 DEF VaultChanges, Edit, AtAllowed, n_
  <1>4. ASSUME NEW p \in Procs, NEW k, NEW prof, NEW l, Begin(p, k, prof, l)
        PROVE  AtAllowed'
    <2>1. pc'[p] = "next" /\ \A q \in Procs \ {p} : pc'[q] = pc[q] /\ job'[q] = job[q]
      BY <1>4 DEF Begin, Shape
    <2>. QED BY <2>1 DEF AtAllowed, n_, AtPath
  <1>5. CASE Start
    BY <1>4, <1>5 DEF Start, StartRefresh, StartWiki, Walk, StartReconcile, StartReindex, Procs
  <1>6. ASSUME NEW p \in Servers, Search(p)
        PROVE  AtAllowed'
    BY <1>6 DEF Search, AtAllowed, n_
  <1>7. CASE UNCHANGED vars
    BY <1>7 DEF vars, AtAllowed, n_
  <1>. QED BY <1>1, <1>2, <1>3, <1>5, <1>6, <1>7 DEF Next

LEMMA DeniedStep ==
  ASSUME Shape, AtAllowed, Chunked, [Next]_vars, NEW n \in Denied
  PROVE  /\ row'[n] = row[n] /\ chunks'[n] = chunks[n]
         /\ \A h \in SearchNotes' : h.path # n
  <1>0. n \in Paths
    BY PathsAssumption
  <1>1. row'[n] = row[n]
    <2>1. CASE row' = row
      BY <2>1
    <2>2. CASE row' # row
      <3>1. Next
        BY <2>2 DEF vars
      <3>2. PICK p \in Procs :
              \/ pc[p] = "upsert" /\ row' = Upserted(p)
              \/ pc[p] = "delete" /\ row' = Deleted(p)
        BY <2>2, <3>1, RowChange
      <3>3. n_(p) # n
        BY <3>2 DEF AtAllowed, AtPath
      <3>. QED BY <1>0, <3>2, <3>3 DEF Upserted, Deleted, Shape
    <2>. QED BY <2>1, <2>2
  <1>2. chunks'[n] = chunks[n]
    <2>1. CASE chunks' = chunks
      BY <2>1
    <2>2. CASE chunks' # chunks
      <3>1. PICK p \in Procs : pc[p] = "store" /\ \E rows : chunks' = Replaced(p, rows)
        BY <2>2, ChunksChange
      <3>2. n_(p) # n
        BY <3>1 DEF AtAllowed, AtPath
      <3>. QED BY <1>0, <3>1, <3>2 DEF Replaced, Chunked
    <2>. QED BY <2>1, <2>2
  <1>3. \A h \in SearchNotes' : h.path # n
    BY DEF SearchNotes, FilterResults
  <1>. QED BY <1>1, <1>2, <1>3

\* Whoever asks, and whatever an earlier configuration has indexed: nothing
\* under a denylist root enters the index or leaves it, and no search
\* answers it.
THEOREM DeniedIsOut == Spec => DeniedStaysOut
  <1>1. Init => AtAllowed
    BY DEF Init, AtAllowed, AtPath
  <1>2. Shape /\ AtAllowed /\ Chunked /\ [Next]_vars =>
          [\A n \in Denied :
             /\ row'[n] = row[n] /\ chunks'[n] = chunks[n]
             /\ \A h \in SearchNotes' : h.path # n]_vars
    BY DeniedStep
  <1>3. Init => Chunked
    BY DEF Init, Chunked, ChunksOfOneVersion
  <1>4. Shape /\ AtAllowed /\ [Next]_vars => AtAllowed'
    BY AtAllowedStep
  <1>. QED BY <1>1, <1>2, <1>3, <1>4, ChunkedStep, ShapeAndSeen, PTL
           DEF Spec, DeniedStaysOut

-----------------------------------------------------------------------------
(* ChunksWereEmbedded *)

\* The embeddings a job holds: one for each text it has asked for, of that
\* text or empty, unless the API has answered short for this note.
Aligned(p) ==
  /\ pc[p] \in {"next", "read", "upsert", "delete"} =>
       job[p].emb = <<>> /\ job[p].at = 0
  /\ pc[p] \in AtPath => n_(p) \in Paths
  /\ pc[p] \in {"upsert", "embed", "store"} => job[p].got \in Versions \ {0}
  /\ pc[p] \in {"embed", "store"} => job[p].at \in Nat /\ job[p].at <= TextsOf(p)
  /\ pc[p] \in {"embed", "store"} /\ n_(p) \notin short =>
       /\ job[p].emb \in Seq(Nat) /\ Len(job[p].emb) = job[p].at
       /\ \A i \in 1..Len(job[p].emb) : job[p].emb[i] \in {0, i}

AllAligned == \A p \in Procs : Aligned(p)

\* Between two paths, and at its end, a job holds none.
LEMMA AdvanceAligned ==
  ASSUME Shape, NEW p \in Procs, Advance(p)
  PROVE  Aligned(p)'
  <1>1. job'[p].emb = <<>> /\ job'[p].at = 0 /\ pc'[p] = "next"
    BY DEF Advance, Goto, Shape, Fields
  <1>. QED BY <1>1 DEF Aligned, AtPath

LEMMA RaiseAligned ==
  ASSUME Shape, NEW p \in Procs, Raise(p)
  PROVE  Aligned(p)'
  <1>1. CASE Advance(p)
    BY <1>1, AdvanceAligned
  <1>2. CASE End(p, "error")
    BY <1>2 DEF End, Goto, Shape, Aligned, AtPath
  <1>. QED BY <1>1, <1>2 DEF Raise

\* A batch asks for at least one text, and for none that the note has not.
LEMMA BatchFits ==
  ASSUME NEW p \in Procs, Aligned(p), pc[p] = "embed"
  PROVE  /\ Batch(p) \in Nat /\ TextsOf(p) \in Nat
         /\ job[p].at + Batch(p) <= TextsOf(p)
  <1>1. job[p].got \in 1..(MaxEdits + 1) /\ job[p].at \in Nat /\ job[p].at <= TextsOf(p)
    BY SizesAssumption DEF Aligned, Versions
  <1>2. TextsOf(p) \in Nat
    BY <1>1, SizesAssumption DEF TextsOf
  <1>. QED BY <1>1, <1>2, SizesAssumption DEF Batch, Min2

LEMMA ConcatOfTwo ==
  ASSUME NEW a \in Seq(Nat), NEW b \in Seq(Nat)
  PROVE  /\ a \o b \in Seq(Nat) /\ Len(a \o b) = Len(a) + Len(b)
         /\ Len(a) \in Nat /\ Len(b) \in Nat
         /\ \A i \in 1..Len(a) : (a \o b)[i] = a[i]
         /\ \A i \in (Len(a) + 1)..(Len(a) + Len(b)) : (a \o b)[i] = b[i - Len(a)]
  OBVIOUS

\* The embeddings of a batch, each of its own text or empty, keep the rest in
\* place; a batch of a note in short may bring anything.
LEMMA ExtendAligned ==
  ASSUME Shape, NEW p \in Procs, Aligned(p), pc[p] = "embed", NEW es, Extend(p, es),
         short \subseteq short',
         n_(p) \notin short' => /\ es \in Seq(Nat) /\ Len(es) = Batch(p)
                               /\ \A i \in 1..Len(es) : es[i] \in {0, job[p].at + i}
  PROVE  Aligned(p)'
  <1>. DEFINE j == job[p]  k == job'[p]
  <1>1. /\ k.todo = j.todo /\ k.got = j.got
        /\ k.emb = j.emb \o es /\ k.at = j.at + Batch(p)
    BY DEF Extend, Shape, Fields
  <1>2. pc'[p] \in {"store", "embed"}
    BY DEF Extend, Goto, Shape
  <1>3. n_(p)' = n_(p) /\ TextsOf(p)' = TextsOf(p)
    BY <1>1 DEF n_, TextsOf
  <1>4. k.at \in Nat /\ k.at <= TextsOf(p)'
    BY <1>1, <1>3, BatchFits DEF Aligned
  <1>5. ASSUME n_(p)' \notin short'
        PROVE  /\ k.emb \in Seq(Nat) /\ Len(k.emb) = k.at
               /\ \A i \in 1..Len(k.emb) : k.emb[i] \in {0, i}
    <2>1. /\ j.emb \in Seq(Nat) /\ Len(j.emb) = j.at /\ j.at \in Nat
          /\ \A i \in 1..Len(j.emb) : j.emb[i] \in {0, i}
      BY <1>3, <1>5 DEF Aligned
    <2>2. /\ es \in Seq(Nat) /\ Len(es) = Batch(p)
          /\ \A i \in 1..Len(es) : es[i] \in {0, j.at + i}
      BY <1>3, <1>5
    <2>3. k.emb \in Seq(Nat) /\ Len(k.emb) = k.at
      BY <1>1, <2>1, <2>2, ConcatOfTwo
    <2>4. ASSUME NEW i \in 1..Len(k.emb)
          PROVE  k.emb[i] \in {0, i}
      <3>1. CASE i <= Len(j.emb)
        BY <1>1, <2>1, <2>2, <2>3, <3>1, ConcatOfTwo
      <3>2. CASE i > Len(j.emb)
        <4>0. /\ i \in (Len(j.emb) + 1)..(Len(j.emb) + Len(es))
              /\ Len(es) \in Nat /\ j.at \in Nat
          BY <1>1, <2>1, <2>2, <2>3, <3>2, ConcatOfTwo
        <4>3. (j.emb \o es)[i] = es[i - Len(j.emb)]
          BY <2>1, <2>2, <4>0, ConcatOfTwo
        <4>4. k.emb[i] = es[i - j.at]
          BY <1>1, <2>1, <4>3
        <4>1. i - j.at \in 1..Len(es) /\ i \in Nat
          <5>. DEFINE a == Len(j.emb)  b == Len(es)
          <5>1. j.at = a /\ i \in (a + 1)..(a + b) /\ a \in Nat /\ b \in Nat
            BY <2>1, <4>0
          <5>. HIDE DEF a, b
          <5>2. i - a \in 1..b /\ i \in Nat
            BY <5>1
          <5>. QED BY <5>1, <5>2 DEF b
        <4>2. es[i - j.at] \in {0, j.at + (i - j.at)}
          BY <2>2, <4>1
        <4>5. j.at + (i - j.at) = i
          BY <4>0, <4>1
        <4>. QED BY <4>2, <4>4, <4>5
      <3>. QED BY <2>1, <2>3, <3>1, <3>2
    <2>. QED BY <2>3, <2>4
  <1>. QED BY <1>1, <1>2, <1>3, <1>4, <1>5 DEF Aligned, AtPath

LEMMA StepAligned ==
  ASSUME Shape, NEW p \in Procs, Aligned(p), Step(p)
  PROVE  Aligned(p)'
  <1>1. CASE Finish(p)
    BY <1>1 DEF Finish, End, Goto, Shape, Aligned, AtPath
  <1>2. CASE Skip(p) \/ Delete(p) \/ NoEmbedding(p)
    BY <1>2, AdvanceAligned DEF Skip, Delete, NoEmbedding
  <1>3. CASE Refused(p) \/ Fault(p) \/ BadAnswer(p)
    BY <1>3, RaiseAligned DEF Refused, Fault, BadAnswer
  <1>4. CASE Exists(p) \/ StatError(p)
    <2>1. pc'[p] \in {"read", "delete"}
      BY <1>4 DEF Exists, StatError, Goto, Shape
    <2>2. n_(p) \in Paths /\ job' = job /\ pc[p] = "next"
      BY <1>4 DEF Exists, StatError, Granted, Paths
    <2>. QED BY <2>1, <2>2 DEF Aligned, AtPath, n_
  <1>5. CASE Read(p)
    <2>1. CASE Raise(p)
      BY <2>1, RaiseAligned
    <2>2. CASE ~Raise(p)
      <3>1. /\ fs[n_(p)] # 0 /\ pc[p] = "read" /\ short' = short
            /\ job' = [job EXCEPT ![p].got = fs[n_(p)]]
        BY <1>5, <2>2 DEF Read, tables
      <3>2. pc'[p] \in {"embed", "upsert"}
        BY <1>5, <2>2 DEF Read, Goto, Shape
      <3>3. /\ job'[p].todo = job[p].todo /\ job'[p].emb = job[p].emb
            /\ job'[p].at = job[p].at /\ job'[p].got = fs[n_(p)]
        BY <3>1 DEF Shape, Fields
      <3>4. n_(p)' = n_(p) /\ n_(p) \in Paths /\ job[p].emb = <<>> /\ job[p].at = 0
        BY <3>1, <3>3 DEF n_, Aligned, AtPath
      <3>5. job'[p].got \in Versions \ {0}
        BY <3>1, <3>3, <3>4 DEF Shape
      <3>6. TextsOf(p)' \in Nat
        BY <3>5, SizesAssumption DEF TextsOf, Versions
      <3>. QED BY <3>2, <3>3, <3>4, <3>5, <3>6 DEF Aligned, AtPath
    <2>. QED BY <2>1, <2>2
  <1>6. CASE Upsert(p)
    <2>1. pc[p] = "upsert" /\ pc'[p] = "embed" /\ job' = job /\ short' = short
      BY <1>6 DEF Upsert, Goto, Shape
    <2>2. TextsOf(p) \in Nat
      BY <2>1, SizesAssumption DEF TextsOf, Aligned, Versions
    <2>3. n_(p)' = n_(p) /\ TextsOf(p)' = TextsOf(p)
      BY <2>1 DEF n_, TextsOf
    <2>4. job'[p] = job[p] /\ job[p].emb = <<>> /\ job[p].at = 0 /\ n_(p) \in Paths
      BY <2>1 DEF Aligned, AtPath
    <2>. QED BY <2>1, <2>2, <2>3, <2>4 DEF Aligned, AtPath
  <1>7. CASE Answered(p)
    <2>. DEFINE es == [i \in 1..Batch(p) |-> job[p].at + i]
    <2>1. pc[p] = "embed" /\ Extend(p, es) /\ short' = short
      BY <1>7 DEF Answered, Embedding, tables
    <2>2. Batch(p) \in Nat /\ job[p].at \in Nat
      BY <2>1, BatchFits DEF Aligned
    <2>3. /\ es \in Seq(Nat) /\ Len(es) = Batch(p)
          /\ \A i \in 1..Len(es) : es[i] \in {0, job[p].at + i}
      BY <2>2
    <2>. QED BY <2>1, <2>3, ExtendAligned
  <1>8. CASE ShortAnswer(p)
    <2>1. PICK k \in 0..(Batch(p) - 1) : Extend(p, [i \in 1..k |-> job[p].at + i])
      BY <1>8 DEF ShortAnswer
    <2>2. pc[p] = "embed" /\ short' = short \cup {n_(p)}
      BY <1>8 DEF ShortAnswer, Embedding
    <2>. DEFINE es == [i \in 1..k |-> job[p].at + i]
    <2>3. Extend(p, es)
      BY <2>1
    <2>. HIDE DEF es
    <2>4. short \subseteq short' /\ n_(p) \in short'
      BY <2>2
    <2>. QED BY <2>2, <2>3, <2>4, ExtendAligned
  <1>9. CASE Failed(p)
    <2>1. CASE Attempt(p)
      <3>1. /\ job'[p].todo = job[p].todo /\ job'[p].emb = job[p].emb
            /\ job'[p].at = job[p].at /\ job'[p].got = job[p].got
        BY <2>1 DEF Attempt, Shape, Fields
      <3>2. pc' = pc /\ short' = short
        BY <1>9, <2>1 DEF Failed, Attempt, tables
      <3>3. n_(p)' = n_(p) /\ TextsOf(p)' = TextsOf(p)
        BY <3>1 DEF n_, TextsOf
      <3>. QED BY <3>1, <3>2, <3>3 DEF Aligned
    <2>2. CASE Extend(p, Placeholders(p))
      <3>1. pc[p] = "embed" /\ short' = short
        BY <1>9 DEF Failed, Embedding, tables
      <3>2. Batch(p) \in Nat
        BY <3>1, BatchFits
      <3>3. /\ Placeholders(p) \in Seq(Nat) /\ Len(Placeholders(p)) = Batch(p)
            /\ \A i \in 1..Len(Placeholders(p)) :
                 Placeholders(p)[i] \in {0, job[p].at + i}
        BY <3>2 DEF Placeholders
      <3>. QED BY <2>2, <3>1, <3>3, ExtendAligned
    <2>. QED BY <1>9, <2>1, <2>2 DEF Failed
  <1>10. CASE Store(p)
    BY <1>10, AdvanceAligned, RaiseAligned DEF Store
  <1>11. CASE Return(p)
    BY <1>11 DEF Return, Forget, Goto, Shape, Aligned, AtPath
  <1>. QED BY <1>1, <1>2, <1>3, <1>4, <1>5, <1>6, <1>7, <1>8, <1>9, <1>10, <1>11 DEF Step

LEMMA ShortGrows == [Next]_vars => short \subseteq short'
  <1>1. ASSUME NEW p \in Procs, Step(p)
        PROVE  short \subseteq short'
    BY <1>1 DEF Step, Finish, Skip, Refused, Exists, Read, Upsert, Delete, Fault,
                NoEmbedding, Answered, ShortAnswer, BadAnswer, StatError,
                Granted, Asks, Failed,
                Store, Return, Forget, tables
  <1>2. VaultChanges \/ Start => UNCHANGED short
    BY DEF VaultChanges, Edit, Start, StartRefresh, StartWiki, Walk, StartReconcile,
           StartReindex, Begin
  <1>3. \A p \in Procs : Crash(p) \/ Search(p) => UNCHANGED short
    BY DEF Crash, Search, Forget, tables
  <1>. QED BY <1>1, <1>2, <1>3 DEF Next, Procs, vars

LEMMA AlignedStep ==
  ASSUME Shape, AllAligned, [Next]_vars
  PROVE  AllAligned'
  <1>0. ASSUME NEW q \in Procs, job'[q] = job[q], pc'[q] = pc[q]
        PROVE  Aligned(q)'
    BY <1>0, ShortGrows DEF AllAligned, Aligned, n_, TextsOf
  <1>1. ASSUME NEW p \in Procs, Step(p)
        PROVE  AllAligned'
    BY <1>0, <1>1, StepAligned, OthersStay DEF AllAligned
  <1>2. ASSUME NEW p \in Procs, Crash(p)
        PROVE  AllAligned'
    <2>1. Aligned(p)'
      BY <1>2 DEF Crash, Forget, Goto, Shape, Aligned, AtPath
    <2>. QED BY <1>0, <1>2, <2>1, OthersStay DEF AllAligned
  <1>3. CASE VaultChanges
    BY <1>0, <1>3 DEF VaultChanges, Edit, AllAligned
  <1>4. ASSUME NEW p \in Procs, NEW k, NEW prof, NEW l, Begin(p, k, prof, l)
        PROVE  AllAligned'
    <2>1. /\ pc'[p] = "next" /\ job'[p].emb = <<>> /\ job'[p].at = 0
          /\ \A q \in Procs \ {p} : pc'[q] = pc[q] /\ job'[q] = job[q]
      BY <1>4 DEF Begin, Shape, NoJob
    <2>2. Aligned(p)'
      BY <2>1 DEF Aligned, AtPath
    <2>. QED BY <1>0, <2>1, <2>2 DEF AllAligned
  <1>5. CASE Start
    BY <1>4, <1>5 DEF Start, StartRefresh, StartWiki, Walk, StartReconcile, StartReindex, Procs
  <1>6. ASSUME NEW p \in Servers, Search(p)
        PROVE  AllAligned'
    BY <1>0, <1>6 DEF Search, AllAligned
  <1>7. CASE UNCHANGED vars
    BY <1>0, <1>7 DEF vars, AllAligned
  <1>. QED BY <1>1, <1>2, <1>3, <1>5, <1>6, <1>7 DEF Next

LEMMA EmbeddedStep ==
  ASSUME AllAligned, Chunked, Next, NEW n \in Paths \ short, chunks'[n] # chunks[n]
  PROVE  \E p \in Procs :
           /\ pc[p] = "store" /\ n_(p) = n
           /\ chunks'[n] = {[rev |-> job[p].got, pos |-> i] :
                              i \in Range(job[p].emb) \ {0}}
  <1>1. PICK p \in Procs :
          /\ pc[p] = "store"
          /\ chunks' = Replaced(p,
                 {[rev |-> job[p].got, pos |-> i] :
                    i \in {k \in 1..Min2(Len(job[p].emb), TextsOf(p)) : job[p].emb[k] # 0}})
    BY ChunksChange
  <1>. DEFINE e == job[p].emb
              stored == {k \in 1..Min2(Len(e), TextsOf(p)) : e[k] # 0}
  <1>2. n_(p) = n /\ chunks'[n] = {[rev |-> job[p].got, pos |-> i] : i \in stored}
    BY <1>1 DEF Replaced, Chunked
  <1>3. /\ e \in Seq(Nat) /\ Len(e) <= TextsOf(p)
        /\ \A i \in 1..Len(e) : e[i] \in {0, i}
    BY <1>1, <1>2 DEF AllAligned, Aligned
  <1>4. TextsOf(p) \in Nat
    <2>1. job[p].got \in 1..(MaxEdits + 1)
      BY <1>1, SizesAssumption DEF AllAligned, Aligned, Versions
    <2>. QED BY <2>1, SizesAssumption DEF TextsOf
  <1>. HIDE DEF e
  <1>5. Min2(Len(e), TextsOf(p)) = Len(e)
    BY <1>3, <1>4 DEF Min2
  <1>6. stored = Range(e) \ {0}
    BY <1>3, <1>5 DEF Range
  <1>. QED BY <1>1, <1>2, <1>6 DEF e

\* For every batch size, number of attempts and number of chunks: the chunks
\* stored for a note are those whose text got an embedding, also when some of
\* the batches failed, unless the API has answered with fewer than it was
\* asked for.
THEOREM StoredWereEmbedded == Spec => ChunksWereEmbedded
  <1>1. Init => AllAligned /\ Chunked
    BY DEF Init, AllAligned, Aligned, AtPath, Chunked, ChunksOfOneVersion
  <1>2. Shape /\ AllAligned /\ [Next]_vars => AllAligned'
    BY AlignedStep
  <1>3. AllAligned /\ Chunked /\ [Next]_vars =>
          [\A n \in Paths \ short : chunks'[n] # chunks[n] =>
             \E p \in Procs :
               /\ pc[p] = "store" /\ n_(p) = n
               /\ chunks'[n] = {[rev |-> job[p].got, pos |-> i] :
                                  i \in Range(job[p].emb) \ {0}}]_vars
    BY EmbeddedStep DEF vars
  <1>. QED BY <1>1, <1>2, <1>3, ChunkedStep, ShapeAndSeen, PTL
           DEF Spec, ChunksWereEmbedded

-----------------------------------------------------------------------------
(* The list of a job *)

\* The paths a job is done with, and whether it is at one.
Done(p) == Len(job[p].list) - Len(job[p].todo)

Listed(p) ==
  /\ job[p].list \in Seq(Paths) /\ job[p].todo \in Seq(Paths)
  /\ Len(job[p].todo) <= Len(job[p].list)
  /\ \A i \in 1..Len(job[p].todo) : job[p].todo[i] = job[p].list[Done(p) + i]
  /\ pc[p] \in AtPath => job[p].todo # <<>> /\ n_(p) \in Md

AllListed == \A p \in Procs : Listed(p)

\* What a job keeps until it is forgotten.
SameList(p) == job'[p].list = job[p].list /\ job'[p].kind = job[p].kind

\* A step of a job drops the first of its paths, or keeps its list.
Drops(p) ==
  /\ SameList(p) /\ pc'[p] = "next" /\ job'[p].todo = Tail(job[p].todo)
  /\ pc[p] \in AtPath \/ (pc[p] = "next" /\ job[p].todo # <<>>)
Keeps(p) ==
  /\ SameList(p) /\ job'[p].todo = job[p].todo
  /\ \/ pc[p] \in AtPath /\ pc'[p] \in AtPath
     \/ pc[p] = "next" /\ job[p].todo # <<>> /\ n_(p) \in Md /\ pc'[p] \in AtPath
     \/ pc[p] = "next" /\ job[p].todo = <<>> /\ pc'[p] = "ok"
     \/ pc[p] \in AtPath \cup {"next"} /\ pc'[p] = "error"

LEMMA StepOnList ==
  ASSUME Shape, NEW p \in Procs, Step(p)
  PROVE  Drops(p) \/ Keeps(p) \/ Forget(p)
  <1>. USE DEF AtPath, Drops, Keeps, SameList
  <1>1. ASSUME Advance(p), pc[p] \in AtPath \/ (pc[p] = "next" /\ job[p].todo # <<>>)
        PROVE  Drops(p)
    BY <1>1 DEF Advance, Goto, Shape, Fields
  <1>2. ASSUME Raise(p), pc[p] \in AtPath \/ (pc[p] = "next" /\ job[p].todo # <<>>)
        PROVE  Drops(p) \/ Keeps(p)
    <2>1. CASE End(p, "error")
      BY <1>2, <2>1 DEF End, Goto, Shape
    <2>. QED BY <1>1, <1>2, <2>1 DEF Raise
  <1>3. ASSUME NEW es, Extend(p, es), pc[p] = "embed"
        PROVE  Keeps(p)
    BY <1>3 DEF Extend, Goto, Shape, Fields
  <1>4. CASE Finish(p)
    BY <1>4 DEF Finish, End, Goto, Shape
  <1>5. CASE \/ Skip(p) \/ Refused(p) \/ Delete(p) \/ Fault(p)
            \/ NoEmbedding(p) \/ BadAnswer(p)
    BY <1>1, <1>2, <1>5
       DEF Skip, Refused, Delete, Fault, NoEmbedding, BadAnswer, Embedding
  <1>6. CASE Exists(p) \/ StatError(p)
    BY <1>6 DEF Exists, StatError, Granted, Goto, Shape
  <1>7. CASE Read(p)
    <2>1. CASE Raise(p)
      BY <1>2, <1>7, <2>1 DEF Read
    <2>2. CASE ~Raise(p)
      BY <1>7, <2>2 DEF Read, Goto, Shape, Fields
    <2>. QED BY <2>1, <2>2
  <1>8. CASE Upsert(p)
    BY <1>8 DEF Upsert, Goto, Shape
  <1>9. CASE Answered(p) \/ ShortAnswer(p)
    BY <1>3, <1>9 DEF Answered, ShortAnswer, Embedding
  <1>10. CASE Failed(p)
    <2>1. CASE Attempt(p)
      BY <1>10, <2>1 DEF Failed, Embedding, Attempt, Shape, Fields
    <2>. QED BY <1>3, <1>10, <2>1 DEF Failed, Embedding
  <1>11. CASE Store(p)
    BY <1>1, <1>2, <1>11 DEF Store
  <1>12. CASE Return(p)
    BY <1>12 DEF Return
  <1>. QED BY <1>4, <1>5, <1>6, <1>7, <1>8, <1>9, <1>10, <1>11, <1>12 DEF Step

\* The list of a new job has nothing but paths.
LEMMA WalksTyped ==
  ASSUME NEW S \in SUBSET Md, NEW l \in Walks(S)
  PROVE  l \in Seq(Paths)
  <1>. DEFINE there == {n \in S : fs[n] # 0}
  <1>1. Cardinality(there) \in Nat
    BY PathsAssumption, FS_Subset, FS_CardinalityType
  <1>2. l \in SetToSeqs(there)
    BY DEF Walks
  <1>. HIDE DEF there
  <1>3. l \in [1..Cardinality(there) -> there]
    BY <1>2, Zenon DEF SetToSeqs
  <1>4. there \subseteq Paths
    BY DEF there, Paths
  <1>. QED BY <1>1, <1>3, <1>4

LEMMA StartsTyped ==
  ASSUME Start
  PROVE  \E p \in Procs, l \in Seq(Paths) : \E k, prof : Begin(p, k, prof, l)
  <1>1. Lists \subseteq Seq(Paths) /\ Wiki \subseteq Md /\ Allowed \subseteq Md
    BY PathsAssumption
  <1>. QED BY <1>1, WalksTyped
           DEF Start, StartRefresh, StartWiki, Walk, StartReconcile, StartReindex, Procs

LEMMA TailShifts ==
  ASSUME NEW t \in Seq(Paths), t # <<>>
  PROVE  /\ Tail(t) \in Seq(Paths) /\ Len(Tail(t)) = Len(t) - 1 /\ Len(t) \in Nat
         /\ Len(t) >= 1 /\ Head(t) = t[1]
         /\ \A i \in 1..(Len(t) - 1) : Tail(t)[i] = t[i + 1]
  OBVIOUS

LEMMA ForgetListed ==
  ASSUME Shape, NEW p \in Procs, Forget(p)
  PROVE  Listed(p)'
  <1>1. job'[p].list = <<>> /\ job'[p].todo = <<>> /\ pc'[p] = "idle"
    BY DEF Forget, Goto, NoJob, Shape
  <1>2. Len(<<>>) = 0 /\ <<>> \in Seq(Paths)
    OBVIOUS
  <1>. QED BY <1>1, <1>2 DEF Listed, AtPath

LEMMA StepListed ==
  ASSUME Shape, NEW p \in Procs, Listed(p), Step(p)
  PROVE  Listed(p)'
  <1>1. CASE Drops(p)
    <2>. DEFINE l == job[p].list  t == job[p].todo
    <2>1. /\ job'[p].list = l /\ job'[p].todo = Tail(t) /\ pc'[p] = "next"
          /\ t # <<>> /\ l \in Seq(Paths) /\ t \in Seq(Paths) /\ Len(t) <= Len(l)
          /\ \A i \in 1..Len(t) : t[i] = l[(Len(l) - Len(t)) + i]
      BY <1>1 DEF Drops, SameList, Listed, Done
    <2>. HIDE DEF l, t
    <2>2. /\ Tail(t) \in Seq(Paths) /\ Len(Tail(t)) = Len(t) - 1 /\ Len(t) \in Nat
          /\ Len(t) >= 1 /\ Len(l) \in Nat
          /\ \A i \in 1..(Len(t) - 1) : Tail(t)[i] = t[i + 1]
      BY <2>1, TailShifts
    <2>3. ASSUME NEW i \in 1..Len(Tail(t))
          PROVE  Tail(t)[i] = l[(Len(l) - Len(Tail(t))) + i]
      <3>1. i + 1 \in 1..Len(t) /\ Tail(t)[i] = t[i + 1]
        BY <2>2
      <3>2. t[i + 1] = l[(Len(l) - Len(t)) + (i + 1)]
        BY <2>1, <3>1
      <3>3. (Len(l) - Len(t)) + (i + 1) = (Len(l) - Len(Tail(t))) + i
        BY <2>2
      <3>. QED BY <3>1, <3>2, <3>3
    <2>. QED BY <2>1, <2>2, <2>3 DEF Listed, Done, AtPath
  <1>2. CASE Keeps(p)
    BY <1>2 DEF Keeps, SameList, Listed, Done, n_, AtPath
  <1>3. CASE Forget(p)
    BY <1>3, ForgetListed
  <1>. QED BY <1>1, <1>2, <1>3, StepOnList

LEMMA ListedStep ==
  ASSUME Shape, AllListed, [Next]_vars
  PROVE  AllListed'
  <1>0. ASSUME NEW q \in Procs, job'[q] = job[q], pc'[q] = pc[q]
        PROVE  Listed(q)'
    BY <1>0 DEF AllListed, Listed, Done, n_
  <1>1. ASSUME NEW p \in Procs, Step(p)
        PROVE  AllListed'
    BY <1>0, <1>1, StepListed, OthersStay DEF AllListed
  <1>2. ASSUME NEW p \in Procs, Crash(p)
        PROVE  AllListed'
    <2>1. Listed(p)'
      BY <1>2, ForgetListed DEF Crash
    <2>. QED BY <1>0, <1>2, <2>1, OthersStay DEF AllListed
  <1>3. CASE VaultChanges
    BY <1>0, <1>3 DEF VaultChanges, Edit, AllListed
  <1>4. ASSUME NEW p \in Procs, NEW k, NEW prof, NEW l \in Seq(Paths), Begin(p, k, prof, l)
        PROVE  AllListed'
    <2>1. /\ pc'[p] = "next" /\ job'[p].list = l /\ job'[p].todo = l
          /\ \A q \in Procs \ {p} : pc'[q] = pc[q] /\ job'[q] = job[q]
      BY <1>4 DEF Begin, Shape, NoJob
    <2>2. Listed(p)'
      BY <2>1 DEF Listed, Done, AtPath
    <2>. QED BY <1>0, <2>1, <2>2 DEF AllListed
  <1>5. CASE Start
    BY <1>4, <1>5, StartsTyped
  <1>6. ASSUME NEW p \in Servers, Search(p)
        PROVE  AllListed'
    BY <1>0, <1>6 DEF Search, AllListed
  <1>7. CASE UNCHANGED vars
    BY <1>0, <1>7 DEF vars, AllListed
  <1>. QED BY <1>1, <1>2, <1>3, <1>5, <1>6, <1>7 DEF Next

-----------------------------------------------------------------------------
(* DonePathsArePrefix *)

\* The notes among the first k paths of a list.
Part(l, k) == {l[i] : i \in 1..k} \cap Md

Touched(p) == wrote[p] = Part(job[p].list, Done(p) + 1)
Before(p)  == wrote[p] = Part(job[p].list, Done(p))

\* What a job has written is the notes of what it is done with, and the one it
\* is at once it has upserted that.
Prefixed(p) ==
  /\ pc[p] \in {"idle", "next", "read", "upsert", "delete", "ok"} => Before(p)
  /\ pc[p] \in {"embed", "store"} => Touched(p)
  /\ pc[p] = "error" => job[p].todo # <<>> /\ (Before(p) \/ Touched(p))
  /\ pc[p] = "ok" => job[p].todo = <<>>

AllPrefixed ==
  /\ wrote \in [Procs -> SUBSET Paths]
  /\ \A p \in Procs : job[p].kind # "reindex" => Prefixed(p)

\* The path a job is at is the next one of its list.
LEMMA PartGrows ==
  ASSUME NEW p \in Procs, Listed(p), job[p].todo # <<>>
  PROVE  /\ Done(p) \in Nat /\ Len(job[p].list) \in Nat
         /\ Done(p) + 1 <= Len(job[p].list)
         /\ Part(job[p].list, Done(p) + 1)
              = Part(job[p].list, Done(p)) \cup ({n_(p)} \cap Md)
  <1>. DEFINE l == job[p].list  t == job[p].todo  d == Len(l) - Len(t)
  <1>1. /\ l \in Seq(Paths) /\ t \in Seq(Paths) /\ t # <<>> /\ Len(t) <= Len(l)
        /\ \A i \in 1..Len(t) : t[i] = l[d + i]
    BY DEF Listed, Done
  <1>. HIDE DEF l, t
  <1>2. Len(t) \in Nat /\ Len(l) \in Nat /\ Len(t) >= 1 /\ Head(t) = t[1]
    BY <1>1, TailShifts
  <1>3. d \in Nat /\ d + 1 <= Len(l) /\ Head(t) = l[d + 1]
    BY <1>1, <1>2
  <1>. HIDE DEF d
  <1>4. 1..(d + 1) = (1..d) \cup {d + 1}
    BY <1>3
  <1>5. Part(l, d + 1) = Part(l, d) \cup ({Head(t)} \cap Md)
    BY <1>3, <1>4 DEF Part
  <1>. QED BY <1>2, <1>3, <1>5 DEF l, t, d, Done, n_

LEMMA DropsDone ==
  ASSUME NEW p \in Procs, Listed(p), job[p].todo # <<>>, Drops(p)
  PROVE  Done(p)' = Done(p) + 1
  <1>. DEFINE a == Len(job[p].list)  b == Len(job[p].todo)
  <1>1. /\ b \in Nat /\ Len(Tail(job[p].todo)) = b - 1 /\ a \in Nat
    BY TailShifts DEF Listed
  <1>2. Done(p) = a - b /\ Done(p)' = a - (b - 1)
    BY <1>1 DEF Drops, SameList, Done
  <1>. HIDE DEF a, b
  <1>. QED BY <1>1, <1>2

\* A job goes on to its next path once the notes up to this one are done.
LEMMA AdvancePrefixed ==
  ASSUME Shape, NEW p \in Procs, Listed(p), Advance(p),
         pc[p] \in AtPath \/ (pc[p] = "next" /\ job[p].todo # <<>>),
         wrote'[p] = Part(job[p].list, Done(p) + 1)
  PROVE  Prefixed(p)'
  <1>1. Drops(p) /\ job[p].todo # <<>>
    BY DEF Advance, Goto, Shape, Fields, Drops, SameList, Listed
  <1>2. Done(p)' = Done(p) + 1 /\ job'[p].list = job[p].list /\ pc'[p] = "next"
    BY <1>1, DropsDone DEF Drops, SameList
  <1>. QED BY <1>2 DEF Prefixed, Before

\* A job keeps its list, and what it has written.
LEMMA StaysPrefixed ==
  ASSUME NEW p \in Procs, Prefixed(p), job'[p].list = job[p].list,
         job'[p].todo = job[p].todo, wrote' = wrote,
         \/ pc[p] \in {"next", "read"} /\ pc'[p] \in {"read", "upsert", "delete"}
         \/ pc[p] = "next" /\ job[p].todo = <<>> /\ pc'[p] = "ok"
         \/ pc[p] = "embed" /\ pc'[p] \in {"embed", "store"}
         \/ pc[p] # "ok" /\ job[p].todo # <<>> /\ pc'[p] = "error" /\ (Before(p) \/ Touched(p))
  PROVE  Prefixed(p)'
  BY DEF Prefixed, Before, Touched, Done

LEMMA RaisePrefixed ==
  ASSUME Shape, NEW p \in Procs, Listed(p), Prefixed(p), Raise(p), wrote' = wrote,
         job[p].kind # "reindex",
         pc[p] \in AtPath \/ (pc[p] = "next" /\ job[p].todo # <<>>)
  PROVE  Prefixed(p)'
  <1>1. job' = job /\ pc'[p] = "error" /\ job[p].todo # <<>>
    BY DEF Raise, End, Goto, Shape, Listed
  <1>2. pc[p] # "ok" /\ (Before(p) \/ Touched(p))
    BY DEF Prefixed, AtPath
  <1>. QED BY <1>1, <1>2, StaysPrefixed

LEMMA ForgetPrefixed ==
  ASSUME Shape, NEW p \in Procs, wrote \in [Procs -> SUBSET Paths], Forget(p)
  PROVE  Prefixed(p)'
  <1>1. /\ job'[p].list = <<>> /\ job'[p].todo = <<>> /\ pc'[p] = "idle"
        /\ wrote'[p] = {}
    BY DEF Forget, Goto, NoJob, Shape
  <1>2. Len(<<>>) - Len(<<>>) = 0 /\ Part(<<>>, 0) = {}
    BY DEF Part
  <1>. QED BY <1>1, <1>2 DEF Prefixed, Before, Done

LEMMA StepPrefixed ==
  ASSUME Shape, NEW p \in Procs, Listed(p), wrote \in [Procs -> SUBSET Paths],
         job[p].kind # "reindex", Prefixed(p), Step(p)
  PROVE  Prefixed(p)'
  <1>1. pc[p] \in AtPath =>
          /\ job[p].todo # <<>> /\ n_(p) \in Md
          /\ Part(job[p].list, Done(p) + 1) = Part(job[p].list, Done(p)) \cup {n_(p)}
    BY PartGrows DEF Listed
  <1>2. CASE Finish(p)
    BY <1>2, StaysPrefixed DEF Finish, End, Goto, Shape
  <1>3. CASE Skip(p)
    BY <1>3, PartGrows, AdvancePrefixed DEF Skip, Prefixed, Before
  <1>4. CASE Refused(p) \/ Fault(p) \/ BadAnswer(p)
    BY <1>4, RaisePrefixed DEF Refused, Fault, BadAnswer, Embedding, AtPath
  <1>5. CASE Exists(p) \/ StatError(p)
    <2>1. job' = job /\ wrote' = wrote /\ pc[p] = "next" /\ pc'[p] \in {"read", "delete"}
      BY <1>5 DEF Exists, StatError, Granted, history, Goto, Shape
    <2>. QED BY <2>1, StaysPrefixed
  <1>6. CASE Read(p)
    <2>1. CASE Raise(p)
      BY <1>6, <2>1, RaisePrefixed DEF Read, AtPath
    <2>2. CASE ~Raise(p)
      <3>1. /\ job'[p].list = job[p].list /\ job'[p].todo = job[p].todo
            /\ wrote' = wrote /\ pc[p] = "read" /\ pc'[p] = "upsert"
        BY <1>6, <2>2 DEF Read, Goto, Shape, Fields
      <3>. QED BY <3>1, StaysPrefixed
    <2>. QED BY <2>1, <2>2
  <1>7. CASE Upsert(p)
    <2>1. /\ job' = job /\ pc[p] = "upsert" /\ pc'[p] = "embed"
          /\ wrote'[p] = wrote[p] \cup {n_(p)}
      BY <1>7 DEF Upsert, Goto, Shape
    <2>. QED BY <1>1, <2>1 DEF Prefixed, Before, Touched, Done, AtPath
  <1>8. CASE Delete(p)
    <2>1. Advance(p) /\ pc[p] = "delete" /\ wrote'[p] = wrote[p] \cup {n_(p)}
      BY <1>8 DEF Delete
    <2>. QED BY <1>1, <2>1, AdvancePrefixed DEF Prefixed, Before, AtPath
  <1>9. CASE NoEmbedding(p)
    BY <1>9, AdvancePrefixed DEF NoEmbedding, Prefixed, Touched, AtPath
  <1>10. ASSUME NEW es, Extend(p, es), pc[p] = "embed", wrote' = wrote
         PROVE  Prefixed(p)'
    <2>1. /\ job'[p].list = job[p].list /\ job'[p].todo = job[p].todo
          /\ pc'[p] \in {"embed", "store"}
      BY <1>10 DEF Extend, Goto, Shape, Fields
    <2>. QED BY <1>10, <2>1, StaysPrefixed
  <1>11. CASE Answered(p) \/ ShortAnswer(p)
    BY <1>10, <1>11 DEF Answered, ShortAnswer, Embedding, history
  <1>12. CASE Failed(p)
    <2>1. CASE Attempt(p)
      <3>1. /\ job'[p].list = job[p].list /\ job'[p].todo = job[p].todo
            /\ wrote' = wrote /\ pc[p] = "embed" /\ pc'[p] = "embed"
        BY <1>12, <2>1 DEF Failed, Embedding, Attempt, history, Shape, Fields
      <3>. QED BY <3>1, StaysPrefixed
    <2>. QED BY <1>10, <1>12, <2>1 DEF Failed, Embedding, history
  <1>13. CASE Store(p)
    <2>1. CASE Advance(p)
      BY <1>13, <2>1, AdvancePrefixed DEF Store, Prefixed, Touched, AtPath
    <2>. QED BY <1>13, <2>1, RaisePrefixed DEF Store, AtPath
  <1>14. CASE Return(p)
    BY <1>14, ForgetPrefixed DEF Return
  <1>. QED BY <1>2, <1>3, <1>4, <1>5, <1>6, <1>7, <1>8, <1>9, <1>11, <1>12, <1>13,
              <1>14 DEF Step

\* Nobody else's steps touch what a job has written.
LEMMA WroteTyped ==
  ASSUME Shape, AllListed, wrote \in [Procs -> SUBSET Paths], [Next]_vars
  PROVE  wrote' \in [Procs -> SUBSET Paths]
  <1>1. ASSUME NEW p \in Procs, Step(p)
        PROVE  wrote' \in [Procs -> SUBSET Paths]
    <2>1. CASE Upsert(p) \/ Delete(p)
      <3>1. n_(p) \in Paths
        BY <2>1 DEF Upsert, Delete, AllListed, Listed, AtPath, Paths
      <3>. QED BY <2>1, <3>1 DEF Upsert, Delete
    <2>2. CASE Return(p)
      BY <2>2 DEF Return, Forget
    <2>3. CASE UNCHANGED wrote
      BY <2>3
    <2>. QED BY <1>1, <2>1, <2>2, <2>3
             DEF Step, Finish, Skip, Refused, Exists, Read, Fault, NoEmbedding,
                 Answered, ShortAnswer, BadAnswer, StatError, Granted, Asks,
                 Failed, Store, history
  <1>2. ASSUME NEW p \in Procs, Crash(p)
        PROVE  wrote' \in [Procs -> SUBSET Paths]
    BY <1>2 DEF Crash, Forget
  <1>3. CASE VaultChanges \/ Start
    BY <1>3 DEF VaultChanges, Edit, Start, StartRefresh, StartWiki, Walk, StartReconcile,
                StartReindex, Begin
  <1>. QED BY <1>1, <1>2, <1>3 DEF Next, Search, history, vars

LEMMA OthersWrote ==
  ASSUME wrote \in [Procs -> SUBSET Paths], NEW p \in Procs, Step(p) \/ Crash(p),
         NEW q \in Procs \ {p}
  PROVE  wrote'[q] = wrote[q]
  <1>1. CASE Upsert(p) \/ Delete(p)
    BY <1>1 DEF Upsert, Delete
  <1>2. CASE Return(p) \/ Crash(p)
    BY <1>2 DEF Return, Crash, Forget
  <1>. QED BY <1>1, <1>2
           DEF Step, Finish, Skip, Refused, Exists, Read, Fault, NoEmbedding,
               Answered, ShortAnswer, BadAnswer, StatError, Granted, Asks,
               Failed, Store, history

LEMMA PrefixedStep ==
  ASSUME Shape, AllListed, AllPrefixed, [Next]_vars
  PROVE  AllPrefixed'
  <1>. SUFFICES ASSUME NEW q \in Procs, job'[q].kind # "reindex"
                PROVE  Prefixed(q)'
    BY WroteTyped DEF AllPrefixed
  <1>0. ASSUME job'[q] = job[q], pc'[q] = pc[q], wrote'[q] = wrote[q]
        PROVE  Prefixed(q)'
    BY <1>0 DEF AllPrefixed, Prefixed, Before, Touched, Done
  <1>1. ASSUME NEW p \in Procs, Step(p) \/ Crash(p)
        PROVE  Prefixed(q)'
    <2>1. CASE q # p
      BY <1>0, <1>1, <2>1, OthersStay, OthersWrote DEF AllPrefixed
    <2>2. CASE q = p /\ Forget(p)
      BY <2>2, ForgetPrefixed DEF AllPrefixed
    <2>3. CASE q = p /\ Step(p) /\ ~Forget(p)
      <3>1. job[p].kind # "reindex"
        BY <2>3, StepOnList DEF Drops, Keeps, SameList
      <3>. QED BY <2>3, <3>1, StepPrefixed DEF AllPrefixed, AllListed
    <2>. QED BY <1>1, <2>1, <2>2, <2>3 DEF Crash
  <1>2. CASE VaultChanges
    BY <1>0, <1>2 DEF VaultChanges, Edit
  <1>3. ASSUME NEW p \in Procs, NEW k, NEW prof, NEW l \in Seq(Paths), Begin(p, k, prof, l)
        PROVE  Prefixed(q)'
    <2>1. CASE q # p
      BY <1>0, <1>3, <2>1 DEF Begin, Shape, AllPrefixed
    <2>2. CASE q = p
      <3>1. /\ pc'[p] = "next" /\ job'[p].list = l /\ job'[p].todo = l
            /\ wrote'[p] = {}
        BY <1>3 DEF Begin, Shape, NoJob, AllPrefixed
      <3>2. Len(l) - Len(l) = 0 /\ Part(l, 0) = {}
        BY DEF Part
      <3>. QED BY <2>2, <3>1, <3>2 DEF Prefixed, Before, Done
    <2>. QED BY <2>1, <2>2
  <1>4. CASE Start
    BY <1>3, <1>4, StartsTyped
  <1>5. ASSUME NEW p \in Servers, Search(p)
        PROVE  Prefixed(q)'
    BY <1>0, <1>5 DEF Search, history
  <1>6. CASE UNCHANGED vars
    BY <1>0, <1>6 DEF vars
  <1>. QED BY <1>1, <1>2, <1>4, <1>5, <1>6 DEF Next

LEMMA SpecListed == Spec => [](AllListed /\ AllPrefixed)
  <1>1. Init => AllListed
    <2>. SUFFICES ASSUME Init, NEW p \in Procs PROVE Listed(p)
      BY DEF AllListed
    <2>1. job[p].list = <<>> /\ job[p].todo = <<>> /\ pc[p] = "idle"
      BY DEF Init, NoJob
    <2>2. Len(<<>>) = 0 /\ <<>> \in Seq(Paths)
      OBVIOUS
    <2>. QED BY <2>1, <2>2 DEF Listed, AtPath
  <1>2. Init => AllPrefixed
    BY DEF Init, AllPrefixed, Prefixed, Before, Done, Part, NoJob
  <1>3. Shape /\ AllListed /\ [Next]_vars => AllListed'
    BY ListedStep
  <1>4. Shape /\ AllListed /\ AllPrefixed /\ [Next]_vars => AllPrefixed'
    BY PrefixedStep
  <1>. QED BY <1>1, <1>2, <1>3, <1>4, ShapeAndSeen, PTL DEF Spec

\* For every list, repeated paths included: a job that fails has refreshed the
\* notes before one point of its list and nothing after it, and one that
\* succeeds has refreshed them all (index_refresh.py, refresh_paths).
THEOREM JobsKeepTheirOrder == Spec => []DonePathsArePrefix
  <1>1. ASSUME AllListed, Shape, AllPrefixed, NEW p \in Procs, job[p].kind # "reindex"
        PROVE  /\ \E k \in 0..Len(job[p].list) : wrote[p] = Part(job[p].list, k)
               /\ pc[p] = "ok" => wrote[p] = Range(job[p].list) \cap Md
    <2>1. /\ Len(job[p].list) \in Nat /\ Len(job[p].todo) \in Nat
          /\ Len(job[p].todo) <= Len(job[p].list) /\ job[p].list \in Seq(Paths)
      BY <1>1 DEF AllListed, Listed
    <2>2. Done(p) \in 0..Len(job[p].list)
      <3>. DEFINE a == Len(job[p].list)  b == Len(job[p].todo)
      <3>1. a \in Nat /\ b \in Nat /\ b <= a /\ Done(p) = a - b
        BY <2>1 DEF Done
      <3>. HIDE DEF a, b
      <3>2. a - b \in 0..a
        BY <3>1
      <3>. QED BY <3>1, <3>2 DEF a
    <2>3. Before(p) \/ (Touched(p) /\ job[p].todo # <<>>)
      BY <1>1 DEF AllPrefixed, Prefixed, AllListed, Listed, AtPath, Shape, Labels
    <2>4. \E k \in 0..Len(job[p].list) : wrote[p] = Part(job[p].list, k)
      <3>1. CASE Before(p)
        BY <2>2, <3>1 DEF Before
      <3>2. CASE Touched(p) /\ job[p].todo # <<>>
        <4>1. Done(p) + 1 \in 0..Len(job[p].list)
          BY <1>1, <3>2, PartGrows DEF AllListed
        <4>. QED BY <3>2, <4>1 DEF Touched
      <3>. QED BY <2>3, <3>1, <3>2
    <2>5. ASSUME pc[p] = "ok" PROVE wrote[p] = Range(job[p].list) \cap Md
      <3>1. Before(p) /\ job[p].todo = <<>>
        BY <1>1, <2>5 DEF AllPrefixed, Prefixed
      <3>2. Done(p) = Len(job[p].list)
        BY <2>1, <3>1 DEF Done
      <3>3. Range(job[p].list) = {job[p].list[i] : i \in 1..Len(job[p].list)}
        BY <2>1 DEF Range
      <3>. QED BY <3>1, <3>2, <3>3 DEF Before, Part
    <2>. QED BY <2>4, <2>5
  <1>2. AllListed /\ Shape /\ AllPrefixed => DonePathsArePrefix
    BY <1>1 DEF DonePathsArePrefix, Part
  <1>. QED BY <1>2, SpecListed, ShapeAndSeen, PTL

-----------------------------------------------------------------------------
(* QuietSuccessIsCurrent *)

\* While nothing else moves, what a job has written is what the vault holds,
\* and so is what it is about to write.
Quiet(p) ==
  /\ pc[p] # "idle" /\ \A q \in Procs \ {p} : pc[q] = "idle"
  /\ job[p].kind # "reindex" =>
       /\ \A n \in wrote[p] \ blind[p] : row[n] = fs[n]
       /\ pc[p] = "upsert" => job[p].got = fs[n_(p)]
       /\ pc[p] = "delete" => fs[n_(p)] = 0 \/ n_(p) \in blind[p]

AllQuiet ==
  /\ alone \in [Procs -> BOOLEAN]
  /\ \A p \in Procs : alone[p] => Quiet(p)

\* A step is of a job that runs; it leaves the vault alone and, until the job
\* is forgotten, the job alone with it.
LEMMA StepIsOfJob ==
  ASSUME NEW p \in Procs, Step(p) \/ Crash(p)
  PROVE  pc[p] # "idle" /\ fs' = fs /\ (alone' = alone \/ Forget(p))
  BY DEF Step, Finish, Skip, Refused, Exists, Read, Upsert, Delete, Fault, NoEmbedding,
         Answered, ShortAnswer, BadAnswer, StatError, Granted, Asks, Failed,
         Store, Return, Crash, Forget, tables, history,
         Embedding

LEMMA StepQuiet ==
  ASSUME Shape, NEW p \in Procs, Listed(p), wrote \in [Procs -> SUBSET Paths],
         Quiet(p), Step(p), ~Forget(p)
  PROVE  Quiet(p)'
  <1>. DEFINE Fits == /\ \A n \in wrote[p] \ blind[p] : row[n] = fs[n]
                      /\ pc[p] = "upsert" => job[p].got = fs[n_(p)]
                      /\ pc[p] = "delete" => fs[n_(p)] = 0 \/ n_(p) \in blind[p]
  <1>1. /\ Drops(p) \/ Keeps(p)
        /\ pc'[p] # "idle" /\ job'[p].kind = job[p].kind
    BY StepOnList DEF Drops, Keeps, SameList, AtPath
  <1>2. \A q \in Procs \ {p} : pc'[q] = pc[q]
    BY OthersStay
  <1>3. fs' = fs
    BY StepIsOfJob
  <1>4. ASSUME Fits, job[p].kind # "reindex"
        PROVE  Fits'
    <2>1. CASE Upsert(p)
      <3>1. /\ n_(p) \in Paths /\ pc'[p] = "embed" /\ job[p].got = fs[n_(p)]
            /\ blind' = blind
            /\ row' = [row EXCEPT ![n_(p)] = job[p].got]
            /\ wrote'[p] = wrote[p] \cup {n_(p)}
        BY <1>4, <2>1 DEF Upsert, Upserted, Goto, Shape, Listed, AtPath, Paths
      <3>2. wrote[p] \subseteq Paths /\ row \in [Paths -> Versions]
        BY DEF Shape
      <3>. QED BY <1>3, <1>4, <3>1, <3>2
    <2>2. CASE Delete(p)
      <3>1. /\ n_(p) \in Paths /\ pc'[p] = "next" /\ blind' = blind
            /\ fs[n_(p)] = 0 \/ n_(p) \in blind[p]
            /\ row' = [row EXCEPT ![n_(p)] = 0]
            /\ wrote'[p] = wrote[p] \cup {n_(p)}
        BY <1>4, <2>2 DEF Delete, Deleted, Advance, Goto, Shape, Listed, AtPath, Paths
      <3>2. wrote[p] \subseteq Paths /\ row \in [Paths -> Versions]
        BY DEF Shape
      <3>. QED BY <1>3, <1>4, <3>1, <3>2
    <2>3. CASE StatError(p)
      <3>1. /\ UNCHANGED <<row, job, wrote>> /\ pc'[p] = "delete"
            /\ blind[p] \subseteq blind'[p] /\ n_(p) \in blind'[p]
        BY <2>3 DEF StatError, Granted, tables, Goto, Shape
      <3>. QED BY <1>3, <1>4, <3>1 DEF n_
    <2>4. CASE ~Upsert(p) /\ ~Delete(p) /\ ~StatError(p)
      <3>1. row' = row /\ wrote' = wrote /\ blind' = blind
        BY <1>1, <2>4, StepIsOfJob
           DEF Step, Finish, Skip, Refused, Exists, Read, Fault, NoEmbedding,
               Answered, ShortAnswer, BadAnswer, Granted, Asks, Failed, Store,
               Return, tables, history
      <3>2. pc'[p] = "upsert" => job'[p].got = fs[n_(p)']
        <4>1. ASSUME pc'[p] = "upsert" PROVE Read(p) /\ ~Raise(p)
          BY <1>1, <2>4, <4>1
             DEF Step, Finish, Skip, Refused, Exists, Read, Fault, NoEmbedding,
                 Answered, ShortAnswer, BadAnswer, Granted, Asks, Failed,
                 Store, Return, Raise, End, Advance,
                 Goto, Extend, Attempt, Embedding, Shape
        <4>. QED BY <4>1 DEF Read, Shape, Fields, n_
      <3>3. pc'[p] = "delete" => fs[n_(p)'] = 0
        <4>1. ASSUME pc'[p] = "delete" PROVE Exists(p)
          BY <1>1, <2>4, <4>1
             DEF Step, Finish, Skip, Refused, Exists, Read, Fault, NoEmbedding,
                 Answered, ShortAnswer, BadAnswer, Granted, Asks, Failed,
                 Store, Return, Raise, End, Advance,
                 Goto, Extend, Attempt, Embedding, Shape
        <4>. QED BY <4>1 DEF Exists, Shape, Goto, n_
      <3>. QED BY <1>3, <1>4, <3>1, <3>2, <3>3
    <2>. QED BY <2>1, <2>2, <2>3, <2>4
  <1>. QED BY <1>1, <1>2, <1>4 DEF Quiet

LEMMA QuietStep ==
  ASSUME Shape, AllListed, AllPrefixed, AllQuiet, [Next]_vars
  PROVE  AllQuiet'
  <1>0. ASSUME UNCHANGED <<fs, row, pc, job, wrote, blind, alone>>
        PROVE  AllQuiet'
    BY <1>0 DEF AllQuiet, Quiet, n_
  <1>1. ASSUME NEW p \in Procs, Forget(p), pc[p] # "idle"
        PROVE  AllQuiet'
    <2>1. alone' \in [Procs -> BOOLEAN] /\ ~alone'[p]
      BY <1>1 DEF Forget, AllQuiet
    <2>2. \A q \in Procs \ {p} : ~alone'[q]
      BY <1>1 DEF Forget, AllQuiet, Quiet
    <2>. QED BY <2>1, <2>2 DEF AllQuiet
  <1>2. ASSUME NEW p \in Procs, Step(p), ~Forget(p)
        PROVE  AllQuiet'
    <2>1. alone' = alone /\ pc[p] # "idle"
      BY <1>2, StepIsOfJob
    <2>2. \A q \in Procs \ {p} : ~alone[q]
      BY <2>1 DEF AllQuiet, Quiet
    <2>3. alone[p] => Quiet(p)'
      BY <1>2, StepQuiet DEF AllQuiet, AllListed, AllPrefixed
    <2>. QED BY <2>1, <2>2, <2>3 DEF AllQuiet
  <1>3. CASE VaultChanges
    BY <1>3 DEF VaultChanges, Edit, AllQuiet
  <1>4. ASSUME NEW p \in Procs, NEW k, NEW prof, NEW l, Begin(p, k, prof, l)
        PROVE  AllQuiet'
    <2>1. /\ alone' \in [Procs -> BOOLEAN] /\ \A q \in Procs \ {p} : ~alone'[q]
          /\ alone'[p] => \A q \in Procs \ {p} : pc[q] = "idle"
      BY <1>4 DEF Begin
    <2>2. /\ pc'[p] = "next" /\ wrote'[p] = {}
          /\ \A q \in Procs \ {p} : pc'[q] = pc[q]
      BY <1>4 DEF Begin, Shape, AllPrefixed
    <2>. QED BY <2>1, <2>2 DEF AllQuiet, Quiet
  <1>5. CASE Start
    BY <1>4, <1>5 DEF Start, StartRefresh, StartWiki, Walk, StartReconcile, StartReindex, Procs
  <1>6. ASSUME NEW p \in Servers, Search(p)
        PROVE  AllQuiet'
    BY <1>0, <1>6 DEF Search, history
  <1>7. CASE UNCHANGED vars
    BY <1>0, <1>7 DEF vars
  <1>8. ASSUME NEW p \in Procs, Crash(p)
        PROVE  AllQuiet'
    BY <1>1, <1>8 DEF Crash
  <1>. QED BY <1>1, <1>2, <1>3, <1>5, <1>6, <1>7, <1>8, StepIsOfJob DEF Next

\* Whatever the list, the earlier index and the faults: a refresh that reports
\* success, undisturbed, leaves the index equal to the vault on every note it
\* named and could stat (index_refresh.py, refresh_paths; startup_reconcile
\* and refresh_wiki_folder for what they found).
THEOREM QuietRefreshIsCurrent == Spec => []QuietSuccessIsCurrent
  <1>1. Init => AllQuiet
    BY DEF Init, AllQuiet
  <1>2. Shape /\ AllListed /\ AllPrefixed /\ AllQuiet /\ [Next]_vars => AllQuiet'
    BY QuietStep
  <1>3. AllListed /\ DonePathsArePrefix /\ AllQuiet => QuietSuccessIsCurrent
    BY DEF DonePathsArePrefix, AllQuiet, Quiet, QuietSuccess, QuietSuccessIsCurrent
  <1>. QED BY <1>1, <1>2, <1>3, SpecListed, JobsKeepTheirOrder, ShapeAndSeen, PTL DEF Spec

-----------------------------------------------------------------------------
(* JobsWindDown *)

\* The attempts a job has made on its batch, and the texts that are left.
Counted(p) ==
  /\ job[p].tries \in Nat /\ job[p].tries < MAX_RETRIES
  /\ pc[p] \in AtPath \cup {"next"} => pc[p] = "embed" \/ job[p].tries = 0
  /\ pc[p] = "embed" =>
       job[p].at < TextsOf(p) \/ (job[p].at = 0 /\ job[p].tries = 0)

AllCounted == \A p \in Procs : Counted(p)

\* There is a batch to ask for, and it ends within the note.
LEMMA BatchMoves ==
  ASSUME NEW p \in Procs, Aligned(p), Counted(p), Embedding(p)
  PROVE  /\ Batch(p) \in Nat \ {0} /\ TextsOf(p) \in 0..MaxTexts /\ job[p].at \in Nat
         /\ job[p].at + Batch(p) <= TextsOf(p)
  <1>1. job[p].got \in 1..(MaxEdits + 1) /\ job[p].at \in Nat /\ pc[p] = "embed"
    BY SizesAssumption DEF Aligned, Versions, Embedding
  <1>2. TextsOf(p) \in 0..MaxTexts
    BY <1>1, SizesAssumption DEF TextsOf
  <1>3. job[p].at < TextsOf(p)
    BY <1>1, <1>2, SizesAssumption DEF Counted, Embedding
  <1>. QED BY <1>1, <1>2, <1>3, SizesAssumption DEF Batch, Min2

LEMMA StepCounted ==
  ASSUME Shape, NEW p \in Procs, Aligned(p), Counted(p), Step(p)
  PROVE  Counted(p)'
  <1>. USE DEF AtPath
  <1>0. 0 < MAX_RETRIES /\ MAX_RETRIES \in Nat
    BY SizesAssumption
  <1>1. ASSUME Advance(p)
        PROVE  Counted(p)'
    <2>1. job'[p].tries = 0 /\ pc'[p] = "next"
      BY <1>1 DEF Advance, Goto, Shape, Fields
    <2>. QED BY <1>0, <2>1 DEF Counted
  <1>2. ASSUME Raise(p)
        PROVE  Counted(p)'
    BY <1>1, <1>2 DEF Raise, End, Goto, Shape, Counted
  <1>3. ASSUME NEW es, Extend(p, es), Embedding(p)
        PROVE  Counted(p)'
    <2>1. /\ job'[p].tries = 0 /\ job'[p].at = job[p].at + Batch(p)
          /\ job'[p].got = job[p].got
          /\ pc'[p] = IF job[p].at + Batch(p) = TextsOf(p) THEN "store" ELSE "embed"
      BY <1>3 DEF Extend, Goto, Shape, Fields
    <2>2. TextsOf(p)' = TextsOf(p)
      BY <2>1 DEF TextsOf
    <2>. QED BY <1>0, <1>3, <2>1, <2>2, BatchMoves DEF Counted
  <1>4. CASE Finish(p)
    BY <1>4 DEF Finish, End, Goto, Shape, Counted
  <1>5. CASE \/ Skip(p) \/ Refused(p) \/ Delete(p) \/ Fault(p)
            \/ NoEmbedding(p) \/ BadAnswer(p)
    BY <1>1, <1>2, <1>5
       DEF Skip, Refused, Delete, Fault, NoEmbedding, BadAnswer, Embedding
  <1>6. CASE Exists(p) \/ StatError(p)
    <2>1. job' = job /\ pc[p] = "next" /\ pc'[p] \in {"read", "delete"}
      BY <1>6 DEF Exists, StatError, Granted, Goto, Shape
    <2>. QED BY <2>1 DEF Counted
  <1>7. CASE Read(p)
    <2>1. CASE Raise(p)
      BY <1>2, <2>1
    <2>2. CASE ~Raise(p)
      <3>1. /\ job'[p].tries = job[p].tries /\ job'[p].at = job[p].at /\ pc[p] = "read"
            /\ pc'[p] \in {"upsert", "embed"}
        BY <1>7, <2>2 DEF Read, Goto, Shape, Fields
      <3>. QED BY <3>1 DEF Counted, Aligned
    <2>. QED BY <2>1, <2>2
  <1>8. CASE Upsert(p)
    <2>1. job' = job /\ pc[p] = "upsert" /\ pc'[p] = "embed"
      BY <1>8 DEF Upsert, Goto, Shape
    <2>. QED BY <2>1 DEF Counted, Aligned
  <1>9. CASE Answered(p) \/ ShortAnswer(p)
    BY <1>3, <1>9 DEF Answered, ShortAnswer
  <1>10. CASE Failed(p)
    <2>1. CASE job[p].tries + 1 < MAX_RETRIES
      <3>1. /\ job'[p].tries = job[p].tries + 1 /\ job'[p].at = job[p].at
            /\ job'[p].got = job[p].got /\ pc' = pc
        BY <1>10, <2>1 DEF Failed, Attempt, Shape, Fields
      <3>2. job[p].at < TextsOf(p) /\ TextsOf(p)' = TextsOf(p)
        <4>1. job[p].at + Batch(p) <= TextsOf(p) /\ Batch(p) \in Nat \ {0}
              /\ job[p].at \in Nat /\ TextsOf(p) \in 0..MaxTexts
          BY <1>10, BatchMoves DEF Failed
        <4>. QED BY <3>1, <4>1, SizesAssumption DEF TextsOf
      <3>3. pc[p] = "embed" /\ job[p].tries \in Nat
        BY <1>10 DEF Failed, Embedding, Counted
      <3>. QED BY <2>1, <3>1, <3>2, <3>3 DEF Counted
    <2>. QED BY <1>3, <1>10, <2>1 DEF Failed
  <1>11. CASE Store(p)
    BY <1>1, <1>2, <1>11 DEF Store
  <1>12. CASE Return(p)
    BY <1>0, <1>12 DEF Return, Forget, Goto, NoJob, Shape, Counted
  <1>. QED BY <1>4, <1>5, <1>6, <1>7, <1>8, <1>9, <1>10, <1>11, <1>12 DEF Step

LEMMA CountedStep ==
  ASSUME Shape, AllAligned, AllCounted, [Next]_vars
  PROVE  AllCounted'
  <1>00. 0 < MAX_RETRIES /\ MAX_RETRIES \in Nat
    BY SizesAssumption
  <1>0. ASSUME NEW q \in Procs, job'[q] = job[q], pc'[q] = pc[q]
        PROVE  Counted(q)'
    BY <1>0 DEF AllCounted, Counted, TextsOf
  <1>1. ASSUME NEW p \in Procs, Step(p)
        PROVE  AllCounted'
    BY <1>0, <1>1, StepCounted, OthersStay DEF AllCounted, AllAligned
  <1>2. ASSUME NEW p \in Procs, Crash(p)
        PROVE  AllCounted'
    <2>1. Counted(p)'
      BY <1>00, <1>2 DEF Crash, Forget, Goto, NoJob, Shape, Counted, AtPath
    <2>. QED BY <1>0, <1>2, <2>1, OthersStay DEF AllCounted
  <1>3. CASE VaultChanges
    BY <1>0, <1>3 DEF VaultChanges, Edit, AllCounted
  <1>4. ASSUME NEW p \in Procs, NEW k, NEW prof, NEW l, Begin(p, k, prof, l)
        PROVE  AllCounted'
    <2>1. /\ pc'[p] = "next" /\ job'[p].tries = 0
          /\ \A q \in Procs \ {p} : pc'[q] = pc[q] /\ job'[q] = job[q]
      BY <1>4 DEF Begin, Shape, NoJob
    <2>2. Counted(p)'
      BY <1>00, <2>1 DEF Counted
    <2>. QED BY <1>0, <2>1, <2>2 DEF AllCounted
  <1>5. CASE Start
    BY <1>4, <1>5 DEF Start, StartRefresh, StartWiki, Walk, StartReconcile, StartReindex, Procs
  <1>6. ASSUME NEW p \in Servers, Search(p)
        PROVE  AllCounted'
    BY <1>0, <1>6 DEF Search, AllCounted
  <1>7. CASE UNCHANGED vars
    BY <1>0, <1>7 DEF vars, AllCounted
  <1>. QED BY <1>1, <1>2, <1>3, <1>5, <1>6, <1>7 DEF Next

\* What the ranks need of products: one factor is a bound of the instance.
LEMMA Products ==
  ASSUME NEW m \in Nat, NEW x \in Nat, NEW y \in Nat, x <= y
  PROVE  /\ x * m \in Nat /\ y * m \in Nat /\ (y - x) * m \in Nat
         /\ y * m = x * m + (y - x) * m
         /\ y # x => (y - x) * m >= m
  <1>1. PICK d \in Nat : d = y - x
    OBVIOUS
  <1>2. y = x + d
    BY <1>1
  <1>3. d * m \in Nat /\ x * m \in Nat /\ (x + d) * m = x * m + d * m
    OBVIOUS
  <1>4. d # 0 => d * m >= m
    <2>1. ASSUME d # 0 PROVE d * m >= m
      <3>1. PICK e \in Nat : d = e + 1
        BY <2>1
      <3>2. (e + 1) * m = e * m + m /\ e * m \in Nat
        OBVIOUS
      <3>. QED BY <3>1, <3>2
    <2>. QED BY <2>1
  <1>. QED BY <1>1, <1>2, <1>3, <1>4

LEMMA StepsPositive == PathSteps \in Nat /\ PathSteps >= MaxTexts * MAX_RETRIES + 5
                       /\ PathSteps >= 5 /\ MaxTexts * MAX_RETRIES \in Nat
  <1>1. MaxTexts * MAX_RETRIES \in Nat
    BY SizesAssumption
  <1>. QED BY <1>1 DEF PathSteps

\* A job that runs has at least one step left.
LEMMA LeftPositive ==
  ASSUME Shape, NEW p \in Procs, Aligned(p), Counted(p),
         pc[p] \in AtPath \cup {"next"}
  PROVE  LeftOnPath(p) \in Int /\ LeftOnPath(p) >= 1
  <1>1. CASE pc[p] = "embed"
    <2>1. job[p].got \in 1..(MaxEdits + 1) /\ job[p].at \in Nat
          /\ job[p].tries \in Nat /\ job[p].tries < MAX_RETRIES
          /\ job[p].at <= TextsOf(p)
      BY <1>1, SizesAssumption DEF Aligned, Counted, Versions
    <2>2. TextsOf(p) \in Nat /\ MAX_RETRIES \in Nat
      BY <2>1, SizesAssumption DEF TextsOf
    <2>. DEFINE x == (TextsOf(p) - job[p].at) * MAX_RETRIES
    <2>3. x \in Nat /\ (TextsOf(p) # job[p].at => x >= MAX_RETRIES)
      BY <2>1, <2>2, Products
    <2>4. TextsOf(p) = job[p].at => job[p].tries = 0
      BY <1>1, <2>1, <2>2 DEF Counted
    <2>5. LeftOnPath(p) = 2 + x - job[p].tries
      BY <1>1 DEF LeftOnPath
    <2>. HIDE DEF x
    <2>. QED BY <2>1, <2>2, <2>3, <2>4, <2>5
  <1>2. CASE pc[p] # "embed"
    BY <1>2, StepsPositive DEF LeftOnPath, AtPath
  <1>. QED BY <1>1, <1>2

\* Where a job keeps its list, it has fewer steps left on its path.
LEMMA LeftShrinks ==
  ASSUME Shape, NEW p \in Procs, Listed(p), Aligned(p), Counted(p), Step(p), Keeps(p)
  PROVE  LeftOnPath(p)' \in Int /\ LeftOnPath(p)' < LeftOnPath(p)
  <1>. USE DEF AtPath
  <1>1. CASE pc'[p] \in {"ok", "error"}
    <2>1. LeftOnPath(p)' = 0 /\ pc[p] \in AtPath \cup {"next"}
      BY <1>1 DEF LeftOnPath, Keeps
    <2>. QED BY <2>1, LeftPositive
  <1>2. CASE pc[p] = "next" /\ pc'[p] \in AtPath
    <2>1. Exists(p) \/ StatError(p)
      BY <1>2 DEF Step, Finish, Skip, Refused, Exists, Read, Upsert, Delete, Fault,
                  NoEmbedding, Answered, ShortAnswer, BadAnswer, StatError,
                  Granted, Asks, Failed, Store, Return, Forget,
                  Raise, End, Advance, Goto, Embedding, Shape
    <2>2. pc'[p] \in {"read", "delete"} /\ job[p].todo # <<>>
      BY <2>1 DEF Exists, StatError, Granted, Goto, Shape
    <2>3. LeftOnPath(p) = PathSteps /\ LeftOnPath(p)' \in {PathSteps - 1, 1}
      BY <1>2, <2>2 DEF LeftOnPath
    <2>. QED BY <2>3, StepsPositive
  <1>3. CASE pc[p] = "read" /\ pc'[p] \in AtPath
    <2>1. Read(p) /\ ~Raise(p) /\ fs[n_(p)] # 0
      BY <1>3 DEF Step, Finish, Skip, Refused, Exists, Read, Upsert, Delete, Fault,
                  NoEmbedding, Answered, ShortAnswer, BadAnswer, StatError,
                  Granted, Asks, Failed, Store, Return, Forget,
                  Raise, End, Advance, Goto, Embedding, Shape
    <2>2. /\ pc'[p] \in {"upsert", "embed"} /\ job'[p].at = job[p].at
          /\ job'[p].tries = job[p].tries /\ job'[p].got = fs[n_(p)]
      BY <2>1 DEF Read, Goto, Shape, Fields
    <2>3. job'[p].at = 0 /\ job'[p].tries = 0 /\ LeftOnPath(p) = PathSteps - 1
      BY <1>3, <2>2 DEF Aligned, Counted, LeftOnPath
    <2>4. CASE pc'[p] = "upsert"
      BY <2>3, <2>4, StepsPositive DEF LeftOnPath
    <2>5. CASE pc'[p] = "embed"
      <3>1. fs[n_(p)] \in 1..(MaxEdits + 1)
        BY <1>3, <2>1, SizesAssumption DEF Aligned, Shape, Versions
      <3>2. TextsOf(p)' \in 0..MaxTexts
        BY <2>2, <3>1, SizesAssumption DEF TextsOf
      <3>. DEFINE T == TextsOf(p)'
      <3>3. LeftOnPath(p)' = 2 + (T - 0) * MAX_RETRIES - 0
        BY <2>3, <2>5 DEF LeftOnPath
      <3>. HIDE DEF T
      <3>4. T \in Nat /\ T <= MaxTexts /\ MaxTexts \in Nat /\ MAX_RETRIES \in Nat
        BY <3>2, SizesAssumption DEF T
      <3>5. T * MAX_RETRIES \in Nat /\ T * MAX_RETRIES <= MaxTexts * MAX_RETRIES
        BY <3>4, Products
      <3>6. T - 0 = T
        BY <3>4
      <3>. QED BY <2>3, <3>3, <3>5, <3>6, StepsPositive
    <2>. QED BY <2>2, <2>4, <2>5
  <1>4. CASE pc[p] = "upsert" /\ pc'[p] \in AtPath
    <2>1. Upsert(p)
      BY <1>4 DEF Step, Finish, Skip, Refused, Exists, Read, Upsert, Delete, Fault,
                  NoEmbedding, Answered, ShortAnswer, BadAnswer, StatError,
                  Granted, Asks, Failed, Store, Return, Forget,
                  Raise, End, Advance, Goto, Embedding, Shape
    <2>2. pc'[p] = "embed" /\ job' = job
      BY <2>1 DEF Upsert, Goto, Shape
    <2>3. job[p].at = 0 /\ job[p].tries = 0 /\ LeftOnPath(p) = PathSteps - 2
      BY <1>4 DEF Aligned, Counted, LeftOnPath
    <2>4. TextsOf(p) \in 0..MaxTexts
      BY <1>4, SizesAssumption DEF Aligned, TextsOf, Versions
    <2>. DEFINE T == TextsOf(p)
    <2>5. LeftOnPath(p)' = 2 + (T - 0) * MAX_RETRIES - 0
      BY <2>2, <2>3 DEF LeftOnPath, TextsOf
    <2>. HIDE DEF T
    <2>6. T \in Nat /\ T <= MaxTexts /\ MaxTexts \in Nat /\ MAX_RETRIES \in Nat
      BY <2>4, SizesAssumption DEF T
    <2>7. T * MAX_RETRIES \in Nat /\ T * MAX_RETRIES <= MaxTexts * MAX_RETRIES
      BY <2>6, Products
    <2>8. T - 0 = T
      BY <2>6
    <2>. QED BY <2>3, <2>5, <2>7, <2>8, StepsPositive
  <1>5. CASE pc[p] = "embed" /\ pc'[p] \in AtPath
    <2>1. Embedding(p) /\ (Answered(p) \/ ShortAnswer(p) \/ Failed(p))
      BY <1>5 DEF Step, Finish, Skip, Refused, Exists, Read, Upsert, Delete, Fault,
                  NoEmbedding, Answered, ShortAnswer, BadAnswer, StatError,
                  Granted, Asks, Failed, Store, Return, Forget,
                  Raise, End, Advance, Goto, Embedding, Shape
    <2>. DEFINE T == TextsOf(p)  a == job[p].at  t == job[p].tries  m == MAX_RETRIES
                b == Batch(p)
    <2>2. /\ T \in Nat /\ a \in Nat /\ t \in Nat /\ m \in Nat /\ b \in Nat \ {0}
          /\ t < m /\ a + b <= T
      BY <2>1, BatchMoves, SizesAssumption DEF Counted
    <2>3. LeftOnPath(p) = 2 + (T - a) * m - t
      BY <1>5 DEF LeftOnPath
    <2>4. CASE Attempt(p)
      <3>1. /\ pc'[p] = "embed" /\ job'[p].at = a /\ job'[p].tries = t + 1
            /\ job'[p].got = job[p].got
        BY <1>5, <2>4 DEF Attempt, Shape, Fields
      <3>2. LeftOnPath(p)' = 2 + (T - a) * m - (t + 1)
        BY <3>1 DEF LeftOnPath, TextsOf
      <3>. HIDE DEF T, a, t, m, b
      <3>3. (T - a) * m \in Nat
        BY <2>2, Products
      <3>. QED BY <2>2, <2>3, <3>2, <3>3
    <2>5. CASE \E es : Extend(p, es)
      <3>0. PICK es : Extend(p, es)
        BY <2>5
      <3>1. /\ job'[p].at = a + b /\ job'[p].tries = 0 /\ job'[p].got = job[p].got
            /\ pc'[p] = IF a + b = T THEN "store" ELSE "embed"
        <4>. HIDE DEF b, T
        <4>1. /\ job'[p].at = job[p].at + Batch(p) /\ job'[p].tries = 0
              /\ job'[p].got = job[p].got
              /\ pc'[p] = IF job[p].at + Batch(p) = TextsOf(p) THEN "store" ELSE "embed"
          BY <3>0 DEF Extend, Goto, Shape, Fields
        <4>. QED BY <4>1 DEF b, T
      <3>2. LeftOnPath(p)' = IF a + b = T THEN 1 ELSE 2 + (T - (a + b)) * m - 0
        BY <3>1 DEF LeftOnPath, TextsOf
      <3>. HIDE DEF T, a, t, m, b
      <3>3. PICK d \in Nat : d = T - (a + b)
        BY <2>2
      <3>4. T - a = d + b /\ d + b \in Nat /\ (d + b) - d = b /\ d <= d + b /\ d + b # d
        BY <2>2, <3>3
      <3>5. d * m \in Nat /\ (d + b) * m = d * m + b * m /\ b * m >= m /\ b * m \in Nat
        BY <2>2, <3>4, Products
      <3>. QED BY <2>2, <2>3, <3>2, <3>3, <3>4, <3>5
    <2>. QED BY <2>1, <2>4, <2>5 DEF Answered, ShortAnswer, Failed
  <1>6. pc[p] \notin {"store", "delete"} \/ pc'[p] \notin AtPath
    BY DEF Step, Finish, Skip, Refused, Exists, Read, Upsert, Delete, Fault,
           NoEmbedding, Answered, ShortAnswer, BadAnswer, StatError, Granted,
           Asks, Failed, Store, Return, Forget,
           Raise, End, Advance, Goto, Embedding, Shape
  <1>. QED BY <1>1, <1>2, <1>3, <1>4, <1>5, <1>6 DEF Keeps

\* A step of a job that does not end it brings its end nearer.
LEMMA RankShrinks ==
  ASSUME Shape, NEW p \in Procs, Listed(p), Aligned(p), Counted(p), Step(p), ~Forget(p)
  PROVE  Rank(p)' < Rank(p)
  <1>. DEFINE L == Len(job[p].todo)  S == PathSteps  k == LeftOnPath(p)
  <1>1. L \in Nat /\ S \in Nat /\ S >= 5 /\ pc[p] \in AtPath \cup {"next"}
    BY StepOnList, StepsPositive DEF Listed, Keeps, Drops
  <1>2. k \in Int /\ k >= 1 /\ Rank(p) = L * S + k
    BY <1>1, LeftPositive DEF Rank
  <1>3. CASE Keeps(p)
    <2>. DEFINE j == LeftOnPath(p)'
    <2>1. Rank(p)' = L * S + j
      BY <1>3 DEF Rank, Keeps
    <2>2. j \in Int /\ j < k
      BY <1>3, LeftShrinks
    <2>. HIDE DEF L, S, k, j
    <2>3. L * S \in Nat
      BY <1>1
    <2>. QED BY <1>2, <2>1, <2>2, <2>3
  <1>4. CASE Drops(p)
    <2>. DEFINE j == LeftOnPath(p)'
    <2>1. job'[p].todo = Tail(job[p].todo) /\ pc'[p] = "next" /\ job[p].todo # <<>>
      BY <1>4 DEF Drops, Listed
    <2>2. Len(Tail(job[p].todo)) = L - 1 /\ L >= 1
      BY <2>1, TailShifts DEF Listed
    <2>3. Rank(p)' = (L - 1) * S + j
      BY <2>1, <2>2 DEF Rank
    <2>4. j \in {1, S}
      BY <2>1 DEF LeftOnPath
    <2>. HIDE DEF L, S, k, j
    <2>5. PICK e \in Nat : L = e + 1
      BY <1>1, <2>2
    <2>6. e * S \in Nat /\ (e + 1) * S = e * S + S /\ L - 1 = e
      BY <1>1, <2>5
    <2>. QED BY <1>1, <1>2, <2>3, <2>4, <2>5, <2>6
  <1>. QED BY <1>3, <1>4, StepOnList

LEMMA WindStep ==
  ASSUME Shape, AllListed, AllAligned, AllCounted, Next, NEW p \in Procs,
         pc[p] # "idle", pc'[p] # "idle"
  PROVE  UNCHANGED <<pc[p], job[p]>> \/ Rank(p)' < Rank(p)
  <1>1. ASSUME NEW q \in Procs, Step(q) \/ Crash(q)
        PROVE  UNCHANGED <<pc[p], job[p]>> \/ Rank(p)' < Rank(p)
    <2>1. CASE q # p
      BY <1>1, <2>1, OthersStay
    <2>2. CASE q = p
      <3>1. ~Forget(p)
        BY DEF Forget, Goto, Shape
      <3>. QED BY <1>1, <2>2, <3>1, RankShrinks DEF Crash, AllListed, AllAligned, AllCounted
    <2>. QED BY <2>1, <2>2
  <1>2. CASE VaultChanges
    BY <1>2 DEF VaultChanges, Edit
  <1>3. CASE Start
    BY <1>3 DEF Start, StartRefresh, StartWiki, Walk, StartReconcile, StartReindex, Begin,
                Shape, Procs
  <1>4. ASSUME NEW q \in Servers, Search(q)
        PROVE  UNCHANGED <<pc[p], job[p]>>
    BY <1>4 DEF Search
  <1>. QED BY <1>1, <1>2, <1>3, <1>4 DEF Next

\* For every list, number of chunks, batch size and number of attempts: every
\* step of a job takes it closer to its end, and no step of anybody else takes
\* it further away.
THEOREM JobsEnd == Spec => JobsWindDown
  <1>1. Init => AllAligned /\ AllCounted
    BY SizesAssumption DEF Init, AllAligned, Aligned, AllCounted, Counted, AtPath, NoJob
  <1>2. Shape /\ AllAligned /\ [Next]_vars => AllAligned'
    BY AlignedStep
  <1>3. Shape /\ AllAligned /\ AllCounted /\ [Next]_vars => AllCounted'
    BY CountedStep
  <1>4. Shape /\ AllListed /\ AllAligned /\ AllCounted /\ [Next]_vars =>
          [\A p \in Procs : pc[p] # "idle" /\ pc'[p] # "idle" =>
             \/ UNCHANGED <<pc[p], job[p]>>
             \/ Rank(p)' < Rank(p)]_vars
    BY WindStep
  <1>. QED BY <1>1, <1>2, <1>3, <1>4, SpecListed, ShapeAndSeen, PTL DEF Spec, JobsWindDown
=============================================================================
