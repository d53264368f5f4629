------------------------ MODULE VaultMutation_proofs ------------------------
(***************************************************************************)
(* Theorems about VaultMutation for every set of processes, requests and   *)
(* notes and every bound.                                                  *)
(***************************************************************************)
EXTENDS VaultMutation, TLAPS

-----------------------------------------------------------------------------
(* Types *)

LEMMA ContentsClosed ==
  /\ <<>> \in Contents
  /\ <<Sync>> \in Contents
  /\ \A r \in Requests : <<r>> \in Contents
  /\ \A c \in Contents, r \in Requests \cup {Sync} : Append(c, r) \in Contents
  /\ \A t \in Seq(Requests) : t \in Contents
  /\ Absent \notin Contents
  /\ <<>> \in Seq(Requests)
  BY NullsAssumption DEF Contents

LEMMA KeysTyped ==
  /\ \A f \in Files : RelKey(f) \in Keys /\ AbsKey(f) \in Keys
  /\ AbsKey(Audit) \in Keys
  /\ Log \in Files
  BY DEF RelKey, AbsKey, Keys, Files

LEMMA LabelsTyped ==
  /\ {"idle", "ready", "done"} \subseteq Labels
  /\ Waiting \subseteq Labels
  /\ Working \subseteq Labels
  /\ {"none", "ok", "planned", "conflict", "error", "crashed"} \subseteq Outcomes
  BY DEF Labels, Outcomes, Waiting, Working

VaultTyped ==
  /\ fs \in [Files -> Contents \cup {Absent}]
  /\ trail \in Seq(Requests)
  /\ index \in [Files -> Contents \cup {Absent}]
  /\ writer \in [Files -> Procs \cup {Sync}]

CallsTyped ==
  /\ call \in [Requests -> [op: Ops \cup {"none"}, path: Files, dst: Files,
                            dry: BOOLEAN, proc: Procs \cup {NoProc}]]
  /\ rev \in [Requests -> Contents \cup {Absent}]
  /\ plan \in [Requests -> Contents]
  /\ buf \in [Requests -> Contents]

ControlTyped ==
  /\ running \in [Procs -> Requests \cup {NoReq}]
  /\ pc \in [Requests -> Labels]
  /\ held \in [Requests -> SUBSET Keys]
  /\ outcome \in [Requests -> Outcomes]

EnvTyped == env \in [syncs: Nat, faults: Nat, crashes: Nat]

\* TypeOK is not inductive: a write records the process of its call as the
\* writer, an edit appends to the revision it was given, and an audit write
\* appends to what it has read.
Served(r) == pc[r] \notin {"idle", "ready", "done"}

CallsReady ==
  \A r \in Requests :
    /\ Served(r) => Proc(r) \in Procs
    /\ pc[r] = "ready" => rev[r] \in Contents
    /\ pc[r] = "awrite" => buf[r] \in Seq(Requests)

Typed == VaultTyped /\ CallsTyped /\ ControlTyped /\ EnvTyped /\ CallsReady

LEMMA TypedImpliesTypeOK == Typed => TypeOK
  BY DEF Typed, VaultTyped, CallsTyped, ControlTyped, EnvTyped, TypeOK

LEMMA InitTyped == Init => Typed
<1> SUFFICES ASSUME Init PROVE Typed
  OBVIOUS
<1>1. VaultTyped
  <2>1. fs \in [Files -> Contents \cup {Absent}]
    BY ContentsClosed DEF Init
  <2>2. QED
    BY <2>1 DEF Init, VaultTyped
<1>2. CallsTyped
  BY ContentsClosed, KeysTyped DEF Init, CallsTyped, NoCall
<1>3. ControlTyped
  BY LabelsTyped DEF Init, ControlTyped
<1>4. EnvTyped
  BY BoundsAssumption DEF Init, EnvTyped
<1>5. CallsReady
  BY DEF Init, CallsReady, Served
<1>6. QED
  BY <1>1, <1>2, <1>3, <1>4, <1>5 DEF Typed

\* The helpers keep the types of what they change.
LEMMA ReturnTyped ==
  ASSUME ControlTyped, NEW p \in Procs, NEW r \in Requests, NEW o \in Outcomes,
         Return(p, r, o)
  PROVE  ControlTyped'
  BY LabelsTyped DEF ControlTyped, Return, Goto

LEMMA TakeTyped ==
  ASSUME ControlTyped, NEW r \in Requests, NEW k \in Keys, NEW l \in Labels,
         Take(r, k), Goto(r, l)
  PROVE  ControlTyped'
  BY DEF ControlTyped, Take, Goto

LEMMA ReleaseTyped ==
  ASSUME ControlTyped, NEW r \in Requests, NEW k, NEW l \in Labels,
         Release(r, k), Goto(r, l)
  PROVE  ControlTyped'
  BY DEF ControlTyped, Release, Goto

LEMMA StartTyped ==
  ASSUME ControlTyped, NEW p \in Procs, NEW r \in Requests, NEW l \in Labels,
         Goto(r, l), \/ running' = [running EXCEPT ![p] = r]
                     \/ UNCHANGED running,
         UNCHANGED <<held, outcome>>
  PROVE  ControlTyped'
  BY DEF ControlTyped, Goto

LEMMA VaultStays ==
  ASSUME VaultTyped, UNCHANGED world
  PROVE  VaultTyped'
  BY DEF VaultTyped, world

LEMMA CallsStay ==
  ASSUME CallsTyped, UNCHANGED <<client, buf>>
  PROVE  CallsTyped'
  BY DEF CallsTyped, client

LEMMA EnvStays ==
  ASSUME EnvTyped, Fault \/ NoFault \/ UNCHANGED env
  PROVE  EnvTyped'
  BY DEF EnvTyped, Fault, NoFault

LEMMA CallTyped ==
  ASSUME CallsTyped, NEW r \in Requests, NEW p \in Procs,
         call' = [call EXCEPT ![r].proc = p]
  PROVE  call' \in [Requests -> [op: Ops \cup {"none"}, path: Files, dst: Files,
                                dry: BOOLEAN, proc: Procs \cup {NoProc}]]
<1> DEFINE Call == [op: Ops \cup {"none"}, path: Files, dst: Files,
                    dry: BOOLEAN, proc: Procs \cup {NoProc}]
<1>1. call \in [Requests -> Call]
  BY DEF CallsTyped
<1>2. [call[r] EXCEPT !.proc = p] \in Call
  BY <1>1
<1>3. call' = [call EXCEPT ![r] = [call[r] EXCEPT !.proc = p]]
  BY <1>1
<1> HIDE DEF Call
<1>4. call' \in [Requests -> Call]
  BY <1>1, <1>2, <1>3
<1>5. QED
  BY <1>4 DEF Call

LEMMA ReadTyped ==
  ASSUME CallsTyped, NEW r \in Requests, NEW c \in Contents \cup {Absent},
         ReadOrEmpty(r, c)
  PROVE  /\ buf' \in [Requests -> Contents]
         /\ buf'[r] = c \/ buf'[r] = <<>>
         /\ Fault \/ NoFault
  BY ContentsClosed DEF CallsTyped, ReadOrEmpty

LEMMA NextTyped == Typed /\ [Next]_vars => Typed'
<1> SUFFICES ASSUME Typed, [Next]_vars PROVE Typed'
  OBVIOUS
<1> USE DEF Typed
<1>1. ASSUME NEW r \in Requests, NEW o \in {"write", "edit"},
             NEW f \in Targets, NEW d \in DryRuns, ReadNote(r, o, f, d)
      PROVE  Typed'
  <2>1. CallsTyped'
    BY <1>1, FilesAssumption DEF ReadNote, VaultTyped, CallsTyped, Ops
  <2>2. ControlTyped'
    BY <1>1, StartTyped, LabelsTyped DEF ReadNote
  <2>3. CallsReady'
    BY <1>1, FilesAssumption
    DEF ReadNote, ControlTyped, CallsReady, Served, Proc, Goto, VaultTyped,
        CallsTyped
  <2>4. QED
    BY <1>1, <2>1, <2>2, <2>3, VaultStays, EnvStays DEF ReadNote
<1>2. ASSUME NEW p \in Procs, NEW r \in Requests, SubmitWrite(p, r)
      PROVE  Typed'
  <2>1. CallsTyped'
    BY <1>2, ContentsClosed, CallTyped DEF SubmitWrite, CallsTyped
  <2>2. ControlTyped'
    BY <1>2, StartTyped, ReturnTyped, LabelsTyped DEF SubmitWrite, Waiting
  <2>3. CallsReady'
    BY <1>2
    DEF SubmitWrite, ControlTyped, CallsReady, Served, Proc, Goto, CallsTyped,
        Return
  <2>4. QED
    BY <1>2, <2>1, <2>2, <2>3, VaultStays, EnvStays DEF SubmitWrite
<1>3. ASSUME NEW p \in Procs, NEW r \in Requests, SubmitEdit(p, r)
      PROVE  Typed'
  <2>1. CallsTyped'
    <3>1. fs[Path(r)] = rev[r] => Append(rev[r], r) \in Contents
      BY <1>3, ContentsClosed DEF SubmitEdit, CallsReady
    <3>2. plan' \in [Requests -> Contents]
      BY <1>3, <3>1 DEF SubmitEdit, CallsTyped
    <3>3. QED
      BY <1>3, <3>2, CallTyped DEF SubmitEdit, CallsTyped
  <2>2. ControlTyped'
    BY <1>3, StartTyped, ReturnTyped, LabelsTyped DEF SubmitEdit, Waiting
  <2>3. CallsReady'
    BY <1>3
    DEF SubmitEdit, ControlTyped, CallsReady, Served, Proc, Goto, CallsTyped,
        Return
  <2>4. QED
    BY <1>3, <2>1, <2>2, <2>3, VaultStays, EnvStays DEF SubmitEdit
<1>4. ASSUME NEW p \in Procs, NEW r \in Requests, Refuse(p, r)
      PROVE  Typed'
  <2>1. ControlTyped'
    BY <1>4, ReturnTyped, LabelsTyped DEF Refuse
  <2>2. CallsReady'
    BY <1>4
    DEF Refuse, ControlTyped, CallsReady, Served, Proc, Goto, Return, client
  <2>3. QED
    BY <1>4, <2>1, <2>2, VaultStays, CallsStay, EnvStays DEF Refuse
<1>5. ASSUME NEW p \in Procs, NEW r \in Requests, NEW f \in Targets,
             NEW d \in DryRuns, SubmitCreate(p, r, f, d)
      PROVE  Typed'
  <2>1. CallsTyped'
    BY <1>5, ContentsClosed, FilesAssumption DEF SubmitCreate, CallsTyped, Ops
  <2>2. ControlTyped'
    BY <1>5, StartTyped, ReturnTyped, LabelsTyped DEF SubmitCreate, Working
  <2>3. CallsReady'
    BY <1>5
    DEF SubmitCreate, ControlTyped, CallsReady, Served, Proc, Goto,
        CallsTyped, Return
  <2>4. QED
    BY <1>5, <2>1, <2>2, <2>3, VaultStays, EnvStays DEF SubmitCreate
<1>6. ASSUME NEW p \in Procs, NEW r \in Requests, NEW f \in Sources,
             NEW g \in Notes, NEW d \in DryRuns, SubmitPromote(p, r, f, g, d)
      PROVE  Typed'
  <2>1. CallsTyped'
    BY <1>6, FilesAssumption DEF SubmitPromote, CallsTyped, Ops, Files
  <2>2. ControlTyped'
    BY <1>6, StartTyped, LabelsTyped DEF SubmitPromote, Waiting
  <2>3. CallsReady'
    BY <1>6
    DEF SubmitPromote, ControlTyped, CallsReady, Served, Proc, Goto,
        CallsTyped
  <2>4. QED
    BY <1>6, <2>1, <2>2, <2>3, VaultStays, EnvStays DEF SubmitPromote
<1>7. ASSUME NEW r \in Requests, Suspend(r)
      PROVE  Typed'
  <2>1. ControlTyped'
    BY <1>7 DEF Suspend, ControlTyped
  <2>2. CallsReady'
    BY <1>7 DEF Suspend, ControlTyped, CallsReady, Served, Proc, Goto, client
  <2>3. QED
    BY <1>7, <2>1, <2>2, VaultStays, CallsStay, EnvStays DEF Suspend
<1>8. ASSUME NEW r \in Requests, Recheck(r)
      PROVE  Typed'
  <2>1. ControlTyped'
    BY <1>8, TakeTyped, ReturnTyped, KeysTyped, LabelsTyped
    DEF Recheck, CallsTyped, CallsReady, Served, Proc, Path, Working
  <2>2. EnvTyped'
    BY <1>8, EnvStays DEF Recheck
  <2>3. CallsReady'
    BY <1>8
    DEF Recheck, ControlTyped, CallsReady, Served, Proc, Goto, Return, client
  <2>4. QED
    BY <1>8, <2>1, <2>2, <2>3, VaultStays, CallsStay DEF Recheck
<1>9. ASSUME NEW r \in Requests, Replace(r)
      PROVE  Typed'
  <2>1. VaultTyped'
    BY <1>9
    DEF Replace, VaultTyped, CallsTyped, CallsReady, Served, Proc, Path
  <2>2. ControlTyped'
    BY <1>9, ReleaseTyped, LabelsTyped DEF Replace, Waiting
  <2>3. CallsReady'
    BY <1>9 DEF Replace, ControlTyped, CallsReady, Served, Proc, Goto, client
  <2>4. QED
    BY <1>9, <2>1, <2>2, <2>3, CallsStay, EnvStays DEF Replace
<1>10. ASSUME NEW r \in Requests, PromoteCheck(r)
       PROVE  Typed'
  <2>1. ControlTyped'
    BY <1>10, TakeTyped, ReturnTyped, KeysTyped, LabelsTyped
    DEF PromoteCheck, CallsTyped, CallsReady, Served, Proc, Path, Working
  <2>2. EnvTyped'
    BY <1>10, EnvStays DEF PromoteCheck
  <2>3. CallsReady'
    BY <1>10
    DEF PromoteCheck, ControlTyped, CallsReady, Served, Proc, Goto, Return,
        client
  <2>4. QED
    BY <1>10, <2>1, <2>2, <2>3, VaultStays, CallsStay DEF PromoteCheck
<1>11. ASSUME NEW r \in Requests, PromoteRead(r)
       PROVE  Typed'
  <2>1. CallsTyped'
    BY <1>11 DEF PromoteRead, VaultTyped, CallsTyped, Path
  <2>2. ControlTyped'
    BY <1>11, StartTyped, ReturnTyped, LabelsTyped
    DEF PromoteRead, CallsReady, Served, Proc, Working
  <2>3. CallsReady'
    BY <1>11
    DEF PromoteRead, ControlTyped, CallsReady, Served, Proc, Goto, CallsTyped,
        Return
  <2>4. QED
    BY <1>11, <2>1, <2>2, <2>3, VaultStays, EnvStays DEF PromoteRead
<1>12. ASSUME NEW r \in Requests, PromoteMove(r)
       PROVE  Typed'
  <2>1. VaultTyped'
    BY <1>12
    DEF PromoteMove, VaultTyped, CallsTyped, CallsReady, Served, Proc, Path
  <2>2. ControlTyped'
    BY <1>12, StartTyped, ReturnTyped, LabelsTyped
    DEF PromoteMove, CallsReady, Served, Proc, Waiting
  <2>3. CallsReady'
    BY <1>12
    DEF PromoteMove, ControlTyped, CallsReady, Served, Proc, Goto, Return,
        client
  <2>4. QED
    BY <1>12, <2>1, <2>2, <2>3, CallsStay, EnvStays DEF PromoteMove
<1>13. ASSUME NEW r \in Requests, AuditRead(r)
       PROVE  Typed'
  <2>1. CallsTyped'
    BY <1>13, ReadTyped, ContentsClosed
    DEF AuditRead, VaultTyped, CallsTyped, client
  <2>2. ControlTyped'
    BY <1>13, TakeTyped, KeysTyped, LabelsTyped DEF AuditRead, Working
  <2>3. EnvTyped'
    BY <1>13, EnvStays, ReadTyped, ContentsClosed DEF AuditRead, VaultTyped
  <2>4. CallsReady'
    <3>1. trail \in Seq(Requests) /\ trail \in Contents
      BY ContentsClosed DEF VaultTyped
    <3>2. buf'[r] = trail \/ buf'[r] = <<>>
      BY <1>13, <3>1, ReadTyped DEF AuditRead
    <3>3. buf'[r] \in Seq(Requests)
      BY <3>1, <3>2, ContentsClosed
    <3>4. QED
      BY <1>13, <3>3, <2>2
      DEF AuditRead, Take, ControlTyped, CallsReady, Served, Proc, Goto, client,
          ReadOrEmpty, CallsTyped
  <2>5. QED
    BY <1>13, <2>1, <2>2, <2>3, <2>4, VaultStays DEF AuditRead
<1>14. ASSUME NEW r \in Requests, AuditWrite(r)
       PROVE  Typed'
  <2>1. VaultTyped'
    BY <1>14 DEF AuditWrite, VaultTyped, CallsReady
  <2>2. ControlTyped'
    BY <1>14, ReleaseTyped, LabelsTyped DEF AuditWrite, Waiting
  <2>3. CallsReady'
    BY <1>14
    DEF AuditWrite, ControlTyped, CallsReady, Served, Proc, Goto, client
  <2>4. QED
    BY <1>14, <2>1, <2>2, <2>3, CallsStay, EnvStays DEF AuditWrite
<1>15. ASSUME NEW r \in Requests, LogRead(r)
       PROVE  Typed'
  <2>1. CallsTyped'
    BY <1>15, ReadTyped, KeysTyped DEF LogRead, VaultTyped, CallsTyped, client
  <2>2. ControlTyped'
    BY <1>15, TakeTyped, KeysTyped, LabelsTyped DEF LogRead, Working
  <2>3. EnvTyped'
    BY <1>15, EnvStays, ReadTyped, KeysTyped DEF LogRead, VaultTyped
  <2>4. CallsReady'
    BY <1>15
    DEF LogRead, ControlTyped, CallsReady, Served, Proc, Goto, CallsTyped,
        ReadOrEmpty, client
  <2>5. QED
    BY <1>15, <2>1, <2>2, <2>3, <2>4, VaultStays DEF LogRead
<1>16. ASSUME NEW r \in Requests, LogWrite(r)
       PROVE  Typed'
  <2>1. VaultTyped'
    BY <1>16, ContentsClosed, KeysTyped
    DEF LogWrite, VaultTyped, CallsTyped, CallsReady, Served, Proc
  <2>2. ControlTyped'
    BY <1>16, ReleaseTyped, ReturnTyped, LabelsTyped
    DEF LogWrite, CallsReady, Served, Proc, Working
  <2>3. CallsReady'
    BY <1>16
    DEF LogWrite, ControlTyped, CallsReady, Served, Proc, Goto, Return, client
  <2>4. QED
    BY <1>16, <2>1, <2>2, <2>3, CallsStay, EnvStays DEF LogWrite
<1>17. ASSUME NEW r \in Requests, RefreshExists(r)
       PROVE  Typed'
  <2>1. ControlTyped'
    BY <1>17, LabelsTyped DEF RefreshExists, ControlTyped, Goto, Working
  <2>2. EnvTyped'
    BY <1>17, EnvStays DEF RefreshExists
  <2>3. CallsReady'
    BY <1>17
    DEF RefreshExists, ControlTyped, CallsReady, Served, Proc, Goto, client
  <2>4. QED
    BY <1>17, <2>1, <2>2, <2>3, VaultStays, CallsStay DEF RefreshExists
<1>18. ASSUME NEW r \in Requests, RefreshRead(r)
       PROVE  Typed'
  <2>1. CallsTyped'
    BY <1>18 DEF RefreshRead, VaultTyped, CallsTyped, client, Path
  <2>2. ControlTyped'
    BY <1>18, StartTyped, ReturnTyped, LabelsTyped
    DEF RefreshRead, CallsReady, Served, Proc, Working
  <2>3. CallsReady'
    BY <1>18
    DEF RefreshRead, ControlTyped, CallsReady, Served, Proc, Goto, CallsTyped,
        Return, client
  <2>4. QED
    BY <1>18, <2>1, <2>2, <2>3, VaultStays, EnvStays DEF RefreshRead
<1>19. ASSUME NEW r \in Requests, RefreshUpsert(r)
       PROVE  Typed'
  <2>1. VaultTyped'
    BY <1>19 DEF RefreshUpsert, VaultTyped, CallsTyped, Path
  <2>2. ControlTyped'
    BY <1>19, ReturnTyped, LabelsTyped
    DEF RefreshUpsert, CallsReady, Served, Proc
  <2>3. CallsReady'
    BY <1>19
    DEF RefreshUpsert, ControlTyped, CallsReady, Served, Proc, Goto, Return,
        client
  <2>4. QED
    BY <1>19, <2>1, <2>2, <2>3, CallsStay, EnvStays DEF RefreshUpsert
<1>20. ASSUME NEW r \in Requests, RefreshDelete(r)
       PROVE  Typed'
  <2>1. VaultTyped'
    BY <1>20 DEF RefreshDelete, VaultTyped, CallsTyped, Path
  <2>2. ControlTyped'
    BY <1>20, ReturnTyped, LabelsTyped
    DEF RefreshDelete, CallsReady, Served, Proc
  <2>3. CallsReady'
    BY <1>20
    DEF RefreshDelete, ControlTyped, CallsReady, Served, Proc, Goto, Return,
        client
  <2>4. QED
    BY <1>20, <2>1, <2>2, <2>3, CallsStay, EnvStays DEF RefreshDelete
<1>21. ASSUME NEW r \in Requests, Fail(r)
       PROVE  Typed'
  <2>1. ControlTyped'
    BY <1>21, ReturnTyped, LabelsTyped
    DEF Fail, CallsReady, Served, Proc, Working
  <2>2. EnvTyped'
    BY <1>21, EnvStays DEF Fail
  <2>3. CallsReady'
    BY <1>21
    DEF Fail, ControlTyped, CallsReady, Served, Proc, Goto, Return, client
  <2>4. QED
    BY <1>21, <2>1, <2>2, <2>3, VaultStays, CallsStay DEF Fail
<1>22. ASSUME NEW p \in Procs, Crash(p)
       PROVE  Typed'
  <2>1. ControlTyped'
    BY <1>22 DEF Crash, ControlTyped, Labels, Outcomes
  <2>2. EnvTyped'
    BY <1>22 DEF Crash, EnvTyped
  <2>3. CallsReady'
    BY <1>22
    DEF Crash, ControlTyped, CallsReady, Served, Proc, Goto, client, Waiting,
        Working, Labels
  <2>4. QED
    BY <1>22, <2>1, <2>2, <2>3, VaultStays, CallsStay DEF Crash
<1>23. ASSUME NEW f \in Files, SyncChange(f)
       PROVE  Typed'
  <2>1. VaultTyped'
    <3>1. fs[f] # Absent => Append(fs[f], Sync) \in Contents
      BY ContentsClosed DEF VaultTyped
    <3>2. fs' \in [Files -> Contents \cup {Absent}]
      BY <1>23, <3>1, ContentsClosed DEF SyncChange, VaultTyped
    <3>3. QED
      BY <1>23, <3>2 DEF SyncChange, VaultTyped
  <2>2. ControlTyped'
    BY <1>23 DEF SyncChange, ControlTyped
  <2>3. EnvTyped'
    BY <1>23 DEF SyncChange, EnvTyped
  <2>4. CallsReady'
    BY <1>23
    DEF SyncChange, ControlTyped, CallsReady, Served, Proc, Goto, client
  <2>5. QED
    BY <1>23, <2>1, <2>2, <2>3, <2>4, CallsStay DEF SyncChange
<1>24. CASE UNCHANGED vars
  BY <1>24, VaultStays, CallsStay, EnvStays
  DEF vars, world, client, ControlTyped, CallsReady, Served, Proc
<1>25. QED
  BY <1>1, <1>2, <1>3, <1>4, <1>5, <1>6, <1>7, <1>8, <1>9, <1>10, <1>11,
     <1>12, <1>13, <1>14, <1>15, <1>16, <1>17, <1>18, <1>19, <1>20, <1>21,
     <1>22, <1>23, <1>24
  DEF Next, Submit, Serve, Quiet

LEMMA SpecTyped == Spec => []Typed
  BY InitTyped, NextTyped, PTL DEF Spec

\* In every reachable state each variable has its type, whatever the number of
\* processes, calls and notes, and whatever fails (mutation_service.py,
\* audit_log.py, index_refresh.py: a value read from a missing file is never
\* used as content).
THEOREM TypeCorrect == Spec => []TypeOK
  BY SpecTyped, TypedImpliesTypeOK, PTL

=============================================================================
