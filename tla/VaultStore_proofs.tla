-------------------------- MODULE VaultStore_proofs --------------------------
(***************************************************************************)
(* One server alone with the vault implements the AuditedStore: every step *)
(* of the pipeline is one step of the store, or none.                      *)
(***************************************************************************)
EXTENDS VaultAudit_proofs

-----------------------------------------------------------------------------
(* What the store sees of the vault *)

StoreSeen   == [n \in Notes |-> fs[n]]
AskedSeen   == [r \in Requests |->
                  IF rev[r] = Absent THEN Absent
                  ELSE [note |-> Path(r), content |-> rev[r]]]
PendingSeen == IF Unrecorded = {} THEN NoReq
               ELSE CHOOSE r \in Unrecorded : TRUE

Seen == <<StoreSeen, AskedSeen, trail, PendingSeen>>

\* No tool call names LOG.md, so the notes are all it writes of the vault.
LogIsLeft == Log \notin Targets /\ Log \notin Sources

Sound ==
  /\ Typed /\ CallsFit /\ WorkingHasLoop /\ RecordsWithLoop
  /\ EventsOnce /\ Undisturbed /\ Still

LEMMA PendingIs ==
  /\ (\A r \in Requests : pc[r] \notin Unsaid) => PendingSeen = NoReq
  /\ \A r \in Requests :
       pc[r] \in Unsaid /\ (\A q \in Requests \ {r} : pc[q] \notin Unsaid)
         => PendingSeen = r
<1>1. ASSUME \A r \in Requests : pc[r] \notin Unsaid
      PROVE  PendingSeen = NoReq
  BY <1>1 DEF PendingSeen, Unrecorded, Unsaid
<1>2. ASSUME NEW r \in Requests, pc[r] \in Unsaid,
             \A q \in Requests \ {r} : pc[q] \notin Unsaid
      PROVE  PendingSeen = r
  <2>1. Unrecorded = {r}
    BY <1>2 DEF Unrecorded, Unsaid
  <2>2. QED
    BY <2>1 DEF PendingSeen
<1>3. QED
  BY <1>1, <1>2

\* A call that names a path names a note.
LEMMA PathsAreNotes ==
  ASSUME LogIsLeft, Typed, CallsFit, NEW r \in Requests,
         call[r].op \in {"create", "write", "edit", "promote"}
  PROVE  Path(r) \in Notes
  BY FilesAssumption DEF LogIsLeft, CallsFit, Fitting, Promotes, Files

-----------------------------------------------------------------------------
(* Steps that the store does not see *)

LEMMA AskedStays ==
  ASSUME Typed, CallsFit, NEW r \in Requests, Steps(r), ~Reads(r)
  PROVE  AskedSeen' = AskedSeen
<1>1. rev' = rev /\ \A q \in Requests : rev[q] # Absent => Path(q)' = Path(q)
  <2>1. CASE \E p \in Procs : Submit(p, r)
    BY <2>1
    DEF Submit, SubmitWrite, SubmitEdit, Refuse, SubmitCreate, SubmitPromote,
        CallsFit, Fitting, Typed, CallsTyped, Path, client
  <2>2. CASE Serve(r)
    BY <2>2
    DEF Serve, Suspend, Recheck, Replace, PromoteCheck, PromoteRead,
        PromoteMove, AuditRead, AuditWrite, LogRead, LogWrite, RefreshExists,
        RefreshRead, RefreshUpsert, RefreshDelete, Fail, client, Path
  <2>3. QED
    BY <2>1, <2>2 DEF Steps
<1>2. QED
  BY <1>1 DEF AskedSeen

\* Whose event is to come changes with the change of a note and with the event.
LEMMA PendingStays ==
  ASSUME Typed, ~Fault, NEW r \in Requests, Steps(r), ~AuditWrite(r), ~Replace(r),
         ~(PromoteMove(r) /\ fs[Path(r)] # Absent)
  PROVE  PendingSeen' = PendingSeen
<1>1. \A q \in Requests \ {r} : pc'[q] = pc[q]
  BY StepFacts DEF StepOf, OthersStay
<1>2. pc[r] \in Unsaid <=> pc'[r] \in Unsaid
  BY UnsaidSteps, UnsaidStays DEF Unsaid
<1>3. Unrecorded' = Unrecorded
  BY <1>1, <1>2 DEF Unrecorded, Unsaid
<1>4. QED
  BY <1>3 DEF PendingSeen

-----------------------------------------------------------------------------
(* Steps of the store *)

\* A call that changes its note is the next to change the vault, and changes it
\* once.
LEMMA Commits ==
  ASSUME Alone, Sound, NEW r \in Requests, Steps(r),
         Replace(r) \/ (PromoteMove(r) /\ fs[Path(r)] # Absent)
  PROVE  /\ PendingSeen = NoReq
         /\ PendingSeen' = r
         /\ r # NoReq
         /\ \A i \in DOMAIN trail : trail[i] # r
         /\ AskedSeen' = AskedSeen /\ trail' = trail
<1> USE DEF Sound
<1>1. /\ pc[r] \in {"replace", "pmove"} /\ pc'[r] = "audit"
      /\ trail' = trail /\ UNCHANGED client
  BY DEF Replace, PromoteMove, Goto, Typed, ControlTyped
<1>2. \A q \in Requests : pc[q] \notin Unsaid
  BY <1>1, OneRecorder DEF Working, Unsaid
<1>3. \A q \in Requests \ {r} : pc'[q] \notin Unsaid
  BY <1>2, StepFacts DEF StepOf, OthersStay
<1>4. PendingSeen = NoReq
  BY <1>2, PendingIs
<1>5. PendingSeen' = r
  <2>1. Unrecorded' = {r}
    BY <1>1, <1>3 DEF Unrecorded, Unsaid
  <2>2. QED
    BY <2>1 DEF PendingSeen
<1>6. ~In(r, trail)
  BY <1>1 DEF EventsOnce, Spoken, Said, Refreshing
<1>7. AskedSeen' = AskedSeen
  BY <1>1 DEF AskedSeen, Path, client
<1>8. QED
  BY <1>1, <1>4, <1>5, <1>6, <1>7, NullsAssumption DEF In

LEMMA ReadIsRead ==
  ASSUME LogIsLeft, Sound, NEW r \in Requests, Reads(r)
  PROVE  \E n \in Notes : Store!Read(r, n)
<1>1. PICK o \in {"write", "edit"}, f \in Targets, d \in DryRuns :
        ReadNote(r, o, f, d)
  BY DEF Reads
<1>2. f \in Notes
  BY FilesAssumption DEF LogIsLeft, Files
<1>3. /\ pc[r] = "idle" /\ rev[r] = Absent /\ fs[f] \in Contents
      /\ UNCHANGED <<fs, trail>>
      /\ rev' = [rev EXCEPT ![r] = fs[f]]
      /\ \A q \in Requests \ {r} : Path(q)' = Path(q)
      /\ Path(r)' = f
  BY <1>1, <1>2
  DEF Sound, Typed, VaultTyped, CallsTyped, CallsFit, Fitting, ReadNote, world,
      Path, Files
<1>4. AskedSeen' = [AskedSeen EXCEPT ![r] = [note |-> f, content |-> fs[f]]]
  BY <1>3, NullsAssumption DEF AskedSeen, Sound, Typed, CallsTyped, Contents
<1>5. PendingSeen' = PendingSeen
  <2>1. Unrecorded' = Unrecorded
    BY <1>1 DEF ReadNote, Goto, Unrecorded, Sound, Typed, ControlTyped
  <2>2. QED
    BY <2>1 DEF PendingSeen
<1>6. AskedSeen[r] = Absent
  BY <1>3 DEF AskedSeen
<1>7. Store!Read(r, f)
  BY <1>2, <1>3, <1>4, <1>5, <1>6, NullsAssumption
  DEF Store!Read, AskedSeen, PendingSeen, Contents
<1>8. QED
  BY <1>2, <1>7

\* os.replace of a new version: a compare and swap for the calls that bring a
\* revision, a plain write for create_note.
LEMMA ReplaceIsUpdate ==
  ASSUME Alone, LogIsLeft, Sound, NEW r \in Requests, Steps(r), Replace(r)
  PROVE  Store!Update(r) \/ \E n \in Notes : Store!Put(r, n)
<1>1. /\ pc[r] = "replace"
      /\ fs' = [fs EXCEPT ![Path(r)] = plan[r]]
      /\ call[r].op \in {"create", "write", "edit"}
      /\ plan[r] \in Contents
  BY DEF Replace, Sound, CallsFit, Fitting, Typed, CallsTyped
<1>2. PICK n \in Notes : n = Path(r)
  BY <1>1, PathsAreNotes DEF Sound
<1>3. Store!Commit(r)
  BY Commits DEF Store!Commit, Store!Fresh, AskedSeen, PendingSeen
<1>4. Store!Replaced(n)
  <2>1. \A m \in Notes : fs'[m] = IF m = n THEN plan[r] ELSE fs[m]
    BY <1>1, <1>2 DEF Sound, Typed, VaultTyped, Files
  <2>2. \A m \in Notes : fs'[m] \in Contents \cup {Absent}
    BY <1>1, <2>1 DEF Sound, Typed, VaultTyped, Files
  <2>3. plan[r] # Absent
    BY <1>1, ContentsClosed
  <2>4. QED
    BY <1>2, <2>1, <2>2, <2>3 DEF Store!Replaced
<1>5. CASE call[r].op = "create"
  <2>1. AskedSeen[r] = Absent
    BY <1>5 DEF AskedSeen, Sound, CallsFit, Fitting
  <2>2. Store!Put(r, n)
    BY <1>3, <1>4, <2>1 DEF Store!Put, AskedSeen
  <2>3. QED
    BY <2>2
<1>6. CASE call[r].op \in {"write", "edit"}
  <2>1. rev[r] # Absent /\ rev[r] \in Contents
    BY <1>6 DEF Sound, CallsFit, Fitting, Typed, CallsTyped
  <2>2. fs[Path(r)] = rev[r]
    BY <1>1, <1>6
    DEF Sound, Undisturbed, ReplaceIntended, Interference, Several, Alone
  <2>3. AskedSeen[r] = [note |-> n, content |-> rev[r]]
    BY <1>2, <2>1 DEF AskedSeen
  <2>4. AskedSeen[r] # Absent
    BY <1>2, <2>1, <2>3, NullsAssumption DEF Contents, Files
  <2>5. /\ AskedSeen[r].note = n
        /\ AskedSeen[r].content = StoreSeen[n]
    BY <1>2, <2>2, <2>3 DEF StoreSeen
  <2>6. Store!Update(r)
    BY <1>3, <1>4, <2>4, <2>5
    DEF Store!Update, Store!Replaced, AskedSeen, StoreSeen
  <2>7. QED
    BY <2>6
<1>7. QED
  BY <1>1, <1>5, <1>6

LEMMA MoveIsMove ==
  ASSUME Alone, LogIsLeft, Sound, NEW r \in Requests, Steps(r),
         PromoteMove(r), fs[Path(r)] # Absent
  PROVE  \E n, m \in Notes : Store!Move(r, n, m)
<1>1. /\ pc[r] = "pmove"
      /\ fs' = [fs EXCEPT ![call[r].dst] = fs[Path(r)], ![Path(r)] = Absent]
      /\ Promotes(r)
      /\ call[r].dst \in Notes /\ Path(r) # call[r].dst
      /\ rev[r] = Absent
  BY DEF PromoteMove, Sound, CallsFit, Fitting, Promotes
<1>2. PICK n \in Notes, m \in Notes : n = Path(r) /\ m = call[r].dst
  BY <1>1, PathsAreNotes DEF Sound, Promotes
<1>3. fs[m] = Absent
  BY <1>1, <1>2
  DEF Sound, Undisturbed, DestinationFree, Interference, Several, Alone
<1>4. Store!Commit(r)
  BY Commits DEF Store!Commit, Store!Fresh, AskedSeen, PendingSeen
<1>5. StoreSeen' = [StoreSeen EXCEPT ![m] = StoreSeen[n], ![n] = Absent]
  BY <1>1, <1>2 DEF StoreSeen, Sound, Typed, VaultTyped, Files
<1>6. AskedSeen[r] = Absent
  BY <1>1 DEF AskedSeen
<1>7. Store!Move(r, n, m)
  BY <1>1, <1>2, <1>3, <1>4, <1>5, <1>6
  DEF Store!Move, StoreSeen, AskedSeen
<1>8. QED
  BY <1>7

\* record_event: the audit gets the event that is missing.
LEMMA WriteIsRecord ==
  ASSUME Alone, Sound, NEW r \in Requests, Steps(r), AuditWrite(r)
  PROVE  Store!Record
<1> USE DEF Sound
<1>1. /\ pc[r] = "awrite" /\ pc'[r] = "log" /\ trail' = Append(trail, r)
      /\ UNCHANGED <<fs, client>>
  BY DEF AuditWrite, Goto, Typed, ControlTyped, Undisturbed, AuditFresh, Alone,
         Several
<1>2. \A q \in Requests \ {r} : pc[q] \notin Unsaid /\ pc'[q] \notin Unsaid
  BY <1>1, OneRecorder, StepFacts DEF Working, Unsaid, StepOf, OthersStay
<1>3. PendingSeen = r
  BY <1>1, <1>2, PendingIs DEF Unsaid
<1>4. PendingSeen' = NoReq
  <2>1. Unrecorded' = {}
    BY <1>1, <1>2 DEF Unrecorded, Unsaid
  <2>2. QED
    BY <2>1 DEF PendingSeen
<1>5. StoreSeen' = StoreSeen /\ AskedSeen' = AskedSeen
  BY <1>1 DEF StoreSeen, AskedSeen, Path, client
<1>6. r # NoReq
  BY NullsAssumption
<1>7. QED
  BY <1>1, <1>3, <1>4, <1>5, <1>6
  DEF Store!Record, StoreSeen, AskedSeen, PendingSeen

\* Every other step is none of the store.
LEMMA OthersStutter ==
  ASSUME LogIsLeft, Sound, ~Fault, NEW r \in Requests, Steps(r), ~Reads(r),
         ~Replace(r), ~(PromoteMove(r) /\ fs[Path(r)] # Absent), ~AuditWrite(r)
  PROVE  Seen' = Seen
<1> USE DEF Sound
<1>1. trail' = trail /\ \A n \in Notes : fs'[n] = fs[n]
  <2>1. \A n \in Notes : n \in Files /\ n # Log
    BY FilesAssumption DEF Files
  <2>2. QED
    BY <2>1, WorldSteps
    DEF LogWrite, RefreshUpsert, RefreshDelete, world, Typed, VaultTyped
<1>2. StoreSeen' = StoreSeen
  BY <1>1 DEF StoreSeen
<1>3. QED
  BY <1>1, <1>2, AskedStays, PendingStays DEF Seen

LEMMA StepsImplement ==
  ASSUME Alone, LogIsLeft
  PROVE  Sound /\ [Next]_vars => [Store!SNext]_(Store!svars)
<1> SUFFICES ASSUME Sound, [Next]_vars
             PROVE  [Store!SNext]_(Store!svars)
  OBVIOUS
<1>1. (\E r \in Requests : Steps(r)) \/ UNCHANGED vars
  BY StillStep DEF Sound
<1>2. ~Fault
  BY StillStep DEF Sound
<1>3. ASSUME NEW r \in Requests, Steps(r)
      PROVE  Store!SNext \/ Seen' = Seen
  <2>1. CASE Reads(r)
    BY <2>1, ReadIsRead DEF Store!SNext
  <2>2. CASE Replace(r)
    BY <1>3, <2>2, ReplaceIsUpdate DEF Store!SNext
  <2>3. CASE PromoteMove(r) /\ fs[Path(r)] # Absent
    BY <1>3, <2>3, MoveIsMove DEF Store!SNext
  <2>4. CASE AuditWrite(r)
    BY <1>3, <2>4, WriteIsRecord DEF Store!SNext
  <2>5. QED
    BY <1>2, <1>3, <2>1, <2>2, <2>3, <2>4, OthersStutter
<1>4. CASE UNCHANGED vars
  BY <1>4 DEF vars, Store!svars, Unrecorded, Path
<1>5. Seen' = Seen => UNCHANGED Store!svars
  BY DEF Seen, StoreSeen, AskedSeen, PendingSeen, Store!svars
<1>6. QED
  BY <1>1, <1>3, <1>4, <1>5

\* When one server is alone with the vault and no tool call names LOG.md, the
\* pipeline is an AuditedStore: its locks, awaits and files implement changes
\* that are atomic, conditional on the revision read, and recorded one by one
\* (NFR-002; mutation_service.py, draft_promotion_service.py, audit_log.py).
THEOREM PipelineIsStore ==
  ASSUME Alone, Log \notin Targets, Log \notin Sources
  PROVE  Spec => ImplementsStore
<1>1. LogIsLeft
  BY DEF LogIsLeft
<1>2. Init => Store!SInit
  <2> SUFFICES ASSUME Init PROVE Store!SInit
    OBVIOUS
  <2>1. /\ \A n \in Notes : fs[n] \in Contents \cup {Absent}
        /\ \A r \in Requests : rev[r] = Absent
        /\ Unrecorded = {}
        /\ trail = <<>>
    BY ContentsClosed DEF Init, Unrecorded, Files
  <2>2. QED
    BY <2>1 DEF Store!SInit
<1>3. Sound /\ [Next]_vars => [Store!SNext]_(Store!svars)
  BY <1>1, StepsImplement
<1>4. Spec => []Sound
  BY SpecTyped, SpecFits, LoopExclusion, SpecRecords, SpecEvents,
     SpecUndisturbed, SpecStill, PTL
  DEF Sound
<1>5. QED
  BY <1>2, <1>3, <1>4, PTL DEF Spec, ImplementsStore, Store!SSpec

=============================================================================
