------------------------- MODULE VaultSafety_proofs -------------------------
(***************************************************************************)
(* The safety of the mutation pipeline, for every set of processes, calls  *)
(* and notes: what the event loop and the locks exclude, and from it what  *)
(* a write, a promotion and an audit record may rely on.                   *)
(***************************************************************************)
EXTENDS VaultMutation_proofs, SequenceTheorems

-----------------------------------------------------------------------------
(* What one step of one coroutine can do *)

\* The process that serves r after the step.
Server(r) == call'[r].proc

\* The other calls keep what is theirs.
OthersStay(r) ==
  \A q \in Requests \ {r} :
    /\ pc'[q] = pc[q]
    /\ call'[q] = call[q]
    /\ rev'[q] = rev[q]
    /\ buf'[q] = buf[q]
    /\ held'[q] = held[q]

\* The step needs the loop of its process, and keeps it or gives it up; a
\* call that is only read for or refused needs none.
UsesLoop(r) ==
  \/ /\ Server(r) \in Procs
     /\ running[Server(r)] \in {r, NoReq}
     /\ running'[Server(r)] \in {r, NoReq}
     /\ \A p \in Procs \ {Server(r)} : running'[p] = running[p]
     /\ pc'[r] \in Working => running'[Server(r)] = r
  \/ UNCHANGED <<running, fs, writer>> /\ ~Served(r) /\ ~Served(r)'

\* A call is written once, when it is submitted.
KeepsCall(r) ==
  Served(r) => call'[r] = call[r] /\ rev'[r] = rev[r]

\* What a step changes bears the name of its process.
Signs(r) ==
  \A f \in Files :
    \/ fs'[f] = fs[f] /\ writer'[f] = writer[f]
    \/ writer'[f] = Server(r)

\* A lock is taken only when no call of the process holds it.
TakesFree(r) ==
  /\ \A k \in held'[r] \ held[r] :
       \A q \in Requests \ {r} : Proc(q) = Server(r) => k \notin held[q]
  /\ ~Served(r) => held'[r] \subseteq held[r]
  /\ ~Served(r)' => held'[r] = {} \/ (~Served(r) /\ held'[r] = held[r])

StepOf(r) ==
  OthersStay(r) /\ UsesLoop(r) /\ KeepsCall(r) /\ Signs(r) /\ TakesFree(r)

\* What a call has just checked or read when it goes on to change something.
HasRechecked(r) ==
  pc'[r] = "replace" /\ call'[r].op # "create" => fs'[call'[r].path] = rev'[r]

HasChecked(r) ==
  /\ pc'[r] = "psource" => fs'[call'[r].dst] = Absent \/ env.faults > 0
  /\ pc'[r] = "pmove" => pc[r] = "psource" /\ fs' = fs

HasRead(r) ==
  /\ pc'[r] = "awrite" => buf'[r] = trail' \/ env.faults > 0
  /\ \/ trail' = trail
     \/ pc[r] = "awrite" /\ trail' = Append(buf[r], r)

Spends ==
  /\ env'.syncs = env.syncs
  /\ env'.faults \in Nat /\ env'.faults <= env.faults

Prepares(r) == HasRechecked(r) /\ HasChecked(r) /\ HasRead(r) /\ Spends

Reads(r) == \E o \in {"write", "edit"}, f \in Targets, d \in DryRuns :
              ReadNote(r, o, f, d)

LEMMA SubmitIsStep ==
  ASSUME Typed, NEW r \in Requests,
         Reads(r) \/ \E p \in Procs : Submit(p, r)
  PROVE  StepOf(r)
<1> USE DEF Typed, ControlTyped, CallsTyped, VaultTyped, CallsReady, StepOf,
            OthersStay, UsesLoop, KeepsCall, Signs, TakesFree, Server, Served,
            Proc, Path, Goto, Return, world, client, Working
<1>1. CASE Reads(r)
  BY <1>1 DEF Reads, ReadNote
<1>2. ASSUME NEW p \in Procs, SubmitWrite(p, r)
      PROVE  StepOf(r)
  BY <1>2 DEF SubmitWrite
<1>3. ASSUME NEW p \in Procs, SubmitEdit(p, r)
      PROVE  StepOf(r)
  BY <1>3 DEF SubmitEdit
<1>4. ASSUME NEW p \in Procs, Refuse(p, r)
      PROVE  StepOf(r)
  BY <1>4 DEF Refuse
<1>5. ASSUME NEW p \in Procs, NEW f \in Targets, NEW d \in DryRuns,
             SubmitCreate(p, r, f, d)
      PROVE  StepOf(r)
  BY <1>5 DEF SubmitCreate
<1>6. ASSUME NEW p \in Procs, NEW f \in Sources, NEW g \in Notes,
             NEW d \in DryRuns, SubmitPromote(p, r, f, g, d)
      PROVE  StepOf(r)
  BY <1>6 DEF SubmitPromote
<1>7. QED
  BY <1>1, <1>2, <1>3, <1>4, <1>5, <1>6 DEF Submit

LEMMA ServeIsStep ==
  ASSUME Typed, NEW r \in Requests, Serve(r)
  PROVE  StepOf(r)
<1> USE DEF Typed, ControlTyped, CallsTyped, VaultTyped, CallsReady, StepOf,
            OthersStay, UsesLoop, KeepsCall, Signs, TakesFree, Server, Served,
            Proc, Path, OnLoop, Goto, Return, world, client, Working
<1>1. CASE Suspend(r)
  BY <1>1 DEF Suspend, Waiting
<1>2. CASE Recheck(r)
  BY <1>2 DEF Recheck, CanTake, LockFree, Take
<1>3. CASE Replace(r)
  BY <1>3 DEF Replace, Release
<1>4. CASE PromoteCheck(r)
  BY <1>4 DEF PromoteCheck, CanTake, LockFree, Take
<1>5. CASE PromoteRead(r)
  <2>1. CASE pc'[r] = "pmove"
    BY <1>5, <2>1 DEF PromoteRead
  <2>2. CASE pc'[r] # "pmove"
    BY <1>5, <2>2 DEF PromoteRead
  <2>3. QED
    BY <2>1, <2>2
<1>6. CASE PromoteMove(r)
  BY <1>6 DEF PromoteMove
<1>7. CASE AuditRead(r)
  BY <1>7 DEF AuditRead, CanTake, LockFree, Take, ReadOrEmpty
<1>8. CASE AuditWrite(r)
  BY <1>8 DEF AuditWrite, Release
<1>9. CASE LogRead(r)
  BY <1>9 DEF LogRead, CanTake, LockFree, Take, ReadOrEmpty
<1>10. CASE LogWrite(r)
  BY <1>10 DEF LogWrite, Release
<1>11. CASE RefreshExists(r)
  BY <1>11 DEF RefreshExists
<1>12. CASE RefreshRead(r)
  BY <1>12 DEF RefreshRead
<1>13. CASE RefreshUpsert(r)
  BY <1>13 DEF RefreshUpsert
<1>14. CASE RefreshDelete(r)
  BY <1>14 DEF RefreshDelete
<1>15. CASE Fail(r)
  BY <1>15 DEF Fail
<1>16. QED
  BY <1>1, <1>2, <1>3, <1>4, <1>5, <1>6, <1>7, <1>8, <1>9, <1>10, <1>11,
     <1>12, <1>13, <1>14, <1>15
  DEF Serve

LEMMA SubmitPrepares ==
  ASSUME Typed, NEW r \in Requests,
         Reads(r) \/ \E p \in Procs : Submit(p, r)
  PROVE  Prepares(r)
<1> USE DEF Typed, ControlTyped, CallsTyped, VaultTyped, EnvTyped, Prepares,
            HasRechecked, HasChecked, HasRead, Spends, Path, Goto, Return,
            world, client
<1>1. CASE Reads(r)
  BY <1>1 DEF Reads, ReadNote
<1>2. ASSUME NEW p \in Procs, SubmitWrite(p, r)
      PROVE  Prepares(r)
  BY <1>2 DEF SubmitWrite
<1>3. ASSUME NEW p \in Procs, SubmitEdit(p, r)
      PROVE  Prepares(r)
  BY <1>3 DEF SubmitEdit
<1>4. ASSUME NEW p \in Procs, Refuse(p, r)
      PROVE  Prepares(r)
  BY <1>4 DEF Refuse
<1>5. ASSUME NEW p \in Procs, NEW f \in Targets, NEW d \in DryRuns,
             SubmitCreate(p, r, f, d)
      PROVE  Prepares(r)
  BY <1>5 DEF SubmitCreate
<1>6. ASSUME NEW p \in Procs, NEW f \in Sources, NEW g \in Notes,
             NEW d \in DryRuns, SubmitPromote(p, r, f, g, d)
      PROVE  Prepares(r)
  BY <1>6 DEF SubmitPromote
<1>7. QED
  BY <1>1, <1>2, <1>3, <1>4, <1>5, <1>6 DEF Submit

LEMMA ServePrepares ==
  ASSUME Typed, NEW r \in Requests, Serve(r)
  PROVE  Prepares(r)
<1> USE DEF Typed, ControlTyped, CallsTyped, VaultTyped, EnvTyped, Prepares,
            HasRechecked, HasChecked, HasRead, Spends, Path, Goto, Return,
            world, client
<1>1. CASE Suspend(r)
  BY <1>1 DEF Suspend, Waiting
<1>2. CASE Recheck(r)
  BY <1>2 DEF Recheck, Take, NoFault
<1>3. CASE Replace(r)
  BY <1>3 DEF Replace
<1>4. CASE PromoteCheck(r)
  BY <1>4 DEF PromoteCheck, Take, Fault, NoFault
<1>5. CASE PromoteRead(r)
  BY <1>5 DEF PromoteRead
<1>6. CASE PromoteMove(r)
  BY <1>6 DEF PromoteMove
<1>7. CASE AuditRead(r)
  BY <1>7, ContentsClosed DEF AuditRead, ReadOrEmpty, Fault, NoFault
<1>8. CASE AuditWrite(r)
  BY <1>8 DEF AuditWrite
<1>9. CASE LogRead(r)
  BY <1>9 DEF LogRead, ReadOrEmpty, Fault, NoFault
<1>10. CASE LogWrite(r)
  BY <1>10 DEF LogWrite
<1>11. CASE RefreshExists(r)
  BY <1>11 DEF RefreshExists, Fault, NoFault
<1>12. CASE RefreshRead(r)
  BY <1>12 DEF RefreshRead
<1>13. CASE RefreshUpsert(r)
  BY <1>13 DEF RefreshUpsert
<1>14. CASE RefreshDelete(r)
  BY <1>14 DEF RefreshDelete
<1>15. CASE Fail(r)
  BY <1>15 DEF Fail, Fault
<1>16. QED
  BY <1>1, <1>2, <1>3, <1>4, <1>5, <1>6, <1>7, <1>8, <1>9, <1>10, <1>11,
     <1>12, <1>13, <1>14, <1>15
  DEF Serve

Stepped == \E r \in Requests : StepOf(r) /\ Prepares(r)

LEMMA NextCases ==
  ASSUME Typed, [Next]_vars
  PROVE  \/ Stepped
         \/ \E p \in Procs : Crash(p)
         \/ \E f \in Files : SyncChange(f)
         \/ UNCHANGED vars
  BY SubmitIsStep, ServeIsStep, SubmitPrepares, ServePrepares
  DEF Next, Reads, Quiet, Stepped

LEMMA ServedIsInFlight ==
  ASSUME ControlTyped, NEW r \in Requests
  PROVE  Served(r) <=> InFlight(r)
  BY DEF ControlTyped, Served, InFlight, Labels, Waiting, Working

-----------------------------------------------------------------------------
(* The event loop and the locks *)

LEMMA LoopStep == Typed /\ WorkingHasLoop /\ [Next]_vars => WorkingHasLoop'
<1> SUFFICES ASSUME Typed, WorkingHasLoop, [Next]_vars, NEW q \in Requests,
                    pc'[q] \in Working
             PROVE  OnLoop(q)'
  BY DEF WorkingHasLoop
<1> USE DEF WorkingHasLoop, OnLoop, Proc
<1>1. ASSUME NEW r \in Requests, StepOf(r)
      PROVE  OnLoop(q)'
  <2>1. CASE q = r
    BY <1>1, <2>1
    DEF StepOf, UsesLoop, Server, Served, Typed, ControlTyped, Labels, Working
  <2>2. CASE q # r
    <3>1. running[Proc(q)] = q /\ Proc(q) \in Procs
      BY <1>1, <2>2
      DEF StepOf, OthersStay, Typed, CallsReady, Served, Working
    <3>2. QED
      BY <1>1, <2>2, <3>1, NullsAssumption
      DEF StepOf, OthersStay, UsesLoop, Server
  <2>3. QED
    BY <2>1, <2>2
<1>2. ASSUME NEW p \in Procs, Crash(p)
      PROVE  OnLoop(q)'
  BY <1>2 DEF Crash, client, Typed, ControlTyped, Working
<1>3. ASSUME NEW f \in Files, SyncChange(f)
      PROVE  OnLoop(q)'
  BY <1>3 DEF SyncChange, client
<1>4. CASE UNCHANGED vars
  BY <1>4 DEF vars, client
<1>5. QED
  BY <1>1, <1>2, <1>3, <1>4, NextCases DEF Stepped

\* In every process, and however many there are, only the coroutine that has
\* the loop is between two awaits (server.py runs every handler on one loop;
\* concurrency.py acquires a free lock without yielding).
THEOREM LoopExclusion == Spec => []WorkingHasLoop
<1>1. Init => WorkingHasLoop
  BY DEF Init, WorkingHasLoop, Working
<1>2. QED
  BY <1>1, LoopStep, SpecTyped, PTL DEF Spec

LEMMA LockStep == Typed /\ LocksExclusive /\ [Next]_vars => LocksExclusive'
<1> SUFFICES ASSUME Typed, LocksExclusive, [Next]_vars
             PROVE  LocksExclusive'
  OBVIOUS
<1> DEFINE Over(q)     == ~Served(q) => held[q] = {}
           Apart(q, r) == Proc(q) = Proc(r) => held[q] \cap held[r] = {}
<1>0. /\ \A q \in Requests : Over(q)
      /\ \A q, r \in Requests : q # r => Apart(q, r)
  BY ServedIsInFlight DEF LocksExclusive, Typed
<1>1. ASSUME NEW r \in Requests, StepOf(r)
      PROVE  /\ \A q \in Requests : Over(q)'
             /\ \A q, t \in Requests : q # t => Apart(q, t)'
  <2>1. \A q \in Requests : Over(q)'
    BY <1>0, <1>1 DEF StepOf, OthersStay, TakesFree, Served
  <2>2. ASSUME NEW q \in Requests \ {r}
        PROVE  Apart(q, r)'
    BY <1>0, <1>1
    DEF StepOf, OthersStay, TakesFree, KeepsCall, Served, Proc, Server
  <2>3. ASSUME NEW q \in Requests \ {r}, NEW t \in Requests \ {r}, q # t
        PROVE  Apart(q, t)'
    BY <1>0, <1>1, <2>3 DEF StepOf, OthersStay, Proc
  <2>4. QED
    BY <2>1, <2>2, <2>3
<1>2. ASSUME NEW p \in Procs, Crash(p)
      PROVE  /\ \A q \in Requests : Over(q)'
             /\ \A q, t \in Requests : q # t => Apart(q, t)'
  BY <1>0, <1>2
  DEF Crash, client, Typed, ControlTyped, Labels, Served, Proc
<1>3. ASSUME UNCHANGED <<call, pc, held>>
      PROVE  /\ \A q \in Requests : Over(q)'
             /\ \A q, t \in Requests : q # t => Apart(q, t)'
  BY <1>0, <1>3 DEF Served, Proc
<1>4. /\ \A q \in Requests : Over(q)'
      /\ \A q, t \in Requests : q # t => Apart(q, t)'
  BY <1>1, <1>2, <1>3, NextCases DEF Stepped, SyncChange, client, vars
<1>5. ControlTyped'
  BY NextTyped DEF Typed
<1>6. \A q \in Requests : Served(q)' <=> InFlight(q)'
  BY <1>5 DEF ControlTyped, Served, InFlight, Labels, Waiting, Working
<1>7. QED
  BY <1>4, <1>6 DEF LocksExclusive

\* Two calls of one process never hold the same lock, and a call that has
\* returned, raised or died holds none (concurrency.py, acquire_path_lock).
THEOREM LockExclusion == Spec => []LocksExclusive
<1>1. Init => LocksExclusive
  BY DEF Init, LocksExclusive
<1>2. QED
  BY <1>1, LockStep, SpecTyped, PTL DEF Spec

-----------------------------------------------------------------------------
(* What a call relies on between its check and its change *)

Several      == \E p, q \in Procs : p # q
Interference == Several \/ MaxSync > 0

EnvBound == env.syncs <= MaxSync /\ env.faults <= MaxFaults

\* Only somebody outside its process can come between the recheck of a call
\* and its os.replace.
ReplaceIntended ==
  \A r \in Requests : pc[r] = "replace" /\ call[r].op # "create" =>
    \/ fs[Path(r)] = rev[r]
    \/ Interference /\ writer[Path(r)] # Proc(r)

\* The destination of a promotion is free from its check to its move.
DestinationFree ==
  \A r \in Requests : pc[r] \in {"psource", "pmove"} =>
    fs[call[r].dst] = Absent \/ Interference \/ MaxFaults > 0

\* What record_event is about to extend is the whole audit.
AuditFresh ==
  \A r \in Requests : pc[r] = "awrite" =>
    buf[r] = trail \/ Several \/ MaxFaults > 0

Undisturbed == EnvBound /\ ReplaceIntended /\ DestinationFree /\ AuditFresh

LEMMA InitUndisturbed == Init => Undisturbed
  BY BoundsAssumption
  DEF Init, Undisturbed, EnvBound, ReplaceIntended, DestinationFree, AuditFresh

\* Another call that steps while q is between two awaits runs elsewhere, or
\* touches nothing.
LEMMA StepElsewhere ==
  ASSUME Typed, WorkingHasLoop, NEW r \in Requests, StepOf(r),
         NEW q \in Requests \ {r}, pc[q] \in Working
  PROVE  /\ Proc(q) \in Procs
         /\ \/ UNCHANGED <<fs, writer>>
            \/ Server(r) \in Procs /\ Server(r) # Proc(q)
  BY NullsAssumption
  DEF Typed, CallsReady, Served, Working, WorkingHasLoop, OnLoop, StepOf,
      UsesLoop

LEMMA StepUndisturbed ==
  ASSUME Typed, WorkingHasLoop, Undisturbed,
         NEW r \in Requests, StepOf(r), Prepares(r)
  PROVE  Undisturbed'
<1> USE DEF Undisturbed
<1>1. EnvBound'
  BY BoundsAssumption
  DEF EnvBound, Prepares, Spends, Typed, EnvTyped
<1>2. ReplaceIntended'
  <2> SUFFICES ASSUME NEW q \in Requests, pc'[q] = "replace",
                      call'[q].op # "create"
               PROVE  \/ fs'[call'[q].path] = rev'[q]
                      \/ Interference /\ writer'[call'[q].path] # call'[q].proc
    BY DEF ReplaceIntended, Path, Proc
  <2>1. CASE q = r
    BY <2>1 DEF Prepares, HasRechecked
  <2>2. CASE q # r
    <3>1. /\ pc[q] = "replace"
          /\ call'[q] = call[q]
          /\ rev'[q] = rev[q]
          /\ Path(q) \in Files
      BY <2>2 DEF StepOf, OthersStay, Path, Typed, CallsTyped
    <3>2. CASE fs'[Path(q)] = fs[Path(q)] /\ writer'[Path(q)] = writer[Path(q)]
      BY <3>1, <3>2 DEF ReplaceIntended, Path, Proc
    <3>3. CASE writer'[Path(q)] = Server(r) /\ ~UNCHANGED <<fs, writer>>
      BY <2>2, <3>1, <3>3, StepElsewhere
      DEF Working, Interference, Several, Path, Proc
    <3>4. QED
      BY <3>1, <3>2, <3>3 DEF StepOf, Signs
  <2>3. QED
    BY <2>1, <2>2
<1>3. DestinationFree'
  <2> SUFFICES ASSUME NEW q \in Requests, pc'[q] \in {"psource", "pmove"},
                      ~Interference, MaxFaults = 0
               PROVE  fs'[call'[q].dst] = Absent
    BY BoundsAssumption DEF DestinationFree, Interference
  <2>1. CASE q = r
    <3>1. CASE pc'[q] = "psource"
      BY <2>1, <3>1 DEF Prepares, HasChecked, EnvBound, Typed, EnvTyped
    <3>2. CASE pc'[q] = "pmove"
      BY <2>1, <3>2
      DEF Prepares, HasChecked, StepOf, KeepsCall, Served, DestinationFree
    <3>3. QED
      BY <3>1, <3>2
  <2>2. CASE q # r
    BY <2>2, StepElsewhere
    DEF Working, StepOf, OthersStay, DestinationFree, Interference, Several
  <2>3. QED
    BY <2>1, <2>2
<1>4. AuditFresh'
  <2> SUFFICES ASSUME NEW q \in Requests, pc'[q] = "awrite", ~Several,
                      MaxFaults = 0
               PROVE  buf'[q] = trail'
    BY BoundsAssumption DEF AuditFresh
  <2>1. CASE q = r
    BY <2>1 DEF Prepares, HasRead, EnvBound, Typed, EnvTyped
  <2>2. CASE q # r
    <3>1. pc[q] = "awrite" /\ buf'[q] = buf[q]
      BY <2>2 DEF StepOf, OthersStay
    <3>2. trail' = trail
      <4>1. CASE pc[r] = "awrite"
        BY <2>2, <3>1, <4>1, NullsAssumption
        DEF Typed, CallsReady, Served, WorkingHasLoop, OnLoop, Working, Several
      <4>2. QED
        BY <4>1 DEF Prepares, HasRead
    <3>3. QED
      BY <3>1, <3>2 DEF AuditFresh
  <2>3. QED
    BY <2>1, <2>2
<1>5. QED
  BY <1>1, <1>2, <1>3, <1>4

LEMMA NextUndisturbed ==
  Typed /\ WorkingHasLoop /\ Undisturbed /\ [Next]_vars => Undisturbed'
<1> SUFFICES ASSUME Typed, WorkingHasLoop, Undisturbed, [Next]_vars
             PROVE  Undisturbed'
  OBVIOUS
<1> USE DEF EnvBound, ReplaceIntended, DestinationFree, AuditFresh, Path, Proc
<1>1. CASE Stepped
  BY <1>1, StepUndisturbed DEF Stepped
<1>2. ASSUME NEW p \in Procs, Crash(p)
      PROVE  Undisturbed'
  <2>1. /\ UNCHANGED <<world, client, buf>>
        /\ env'.syncs = env.syncs /\ env'.faults = env.faults
        /\ \A q \in Requests : pc'[q] = pc[q] \/ pc'[q] = "done"
    BY <1>2 DEF Crash, Typed, ControlTyped, EnvTyped
  <2>2. QED
    BY <2>1 DEF Undisturbed, world, client
<1>3. ASSUME NEW f \in Files, SyncChange(f)
      PROVE  Undisturbed'
  <2>1. EnvBound' /\ MaxSync > 0
    BY <1>3, BoundsAssumption DEF SyncChange, Undisturbed, Typed, EnvTyped
  <2>2. ReplaceIntended'
    <3> SUFFICES ASSUME NEW q \in Requests, pc[q] = "replace",
                        call[q].op # "create"
                 PROVE  \/ fs'[Path(q)] = rev[q]
                        \/ writer'[Path(q)] # Proc(q)
      BY <1>3, <2>1 DEF SyncChange, client, Interference
    <3>1. Proc(q) \in Procs /\ Path(q) \in Files
      BY DEF Typed, CallsReady, CallsTyped, Served
    <3>2. QED
      BY <1>3, <3>1, NullsAssumption
      DEF SyncChange, Undisturbed, Typed, VaultTyped
  <2>3. DestinationFree'
    BY <2>1 DEF Interference
  <2>4. AuditFresh'
    BY <1>3 DEF SyncChange, Undisturbed
  <2>5. QED
    BY <2>1, <2>2, <2>3, <2>4 DEF Undisturbed
<1>4. CASE UNCHANGED vars
  BY <1>4 DEF vars, client, Undisturbed
<1>5. QED
  BY <1>1, <1>2, <1>3, <1>4, NextCases

LEMMA SpecUndisturbed == Spec => []Undisturbed
  BY InitUndisturbed, NextUndisturbed, SpecTyped, LoopExclusion, PTL DEF Spec

\* What a write destroys beyond the revision it expected was put there from
\* outside its process (mutation_service.py, _write_plan_if_revision_matches).
THEOREM OverwriteIsForeign == Spec => OverwritesOnlyForeign
<1>1. ReplaceIntended =>
        [\A r \in Requests : Overwrites(r) =>
           \/ fs[Path(r)] = rev[r]
           \/ writer[Path(r)] # Proc(r)]_vars
  BY DEF ReplaceIntended, Overwrites
<1>2. QED
  BY <1>1, SpecUndisturbed, PTL DEF Undisturbed, OverwritesOnlyForeign

\* With one server process and no foreign writer, write_note, append_note and
\* edit_note replace exactly the revision their caller expected, for any number
\* of calls, with I/O errors and crashes.
THEOREM SingleWriterNeverOverwrites ==
  ASSUME MaxSync = 0, \A p, q \in Procs : p = q
  PROVE  Spec => NoSilentOverwrite
<1>1. ReplaceIntended =>
        [\A r \in Requests : Overwrites(r) => fs[Path(r)] = rev[r]]_vars
  BY DEF ReplaceIntended, Overwrites, Interference, Several
<1>2. QED
  BY <1>1, SpecUndisturbed, PTL DEF Undisturbed, NoSilentOverwrite

\* Under the same conditions, and as long as stat does not fail, promote_note
\* moves a note only where there is none (draft_promotion_service.py).
THEOREM PromotionIsSafe ==
  ASSUME MaxSync = 0, MaxFaults = 0, \A p, q \in Procs : p = q
  PROVE  Spec => PromoteNeverOverwrites
<1>1. DestinationFree =>
        [\A r \in Requests : pc[r] = "pmove" /\ pc'[r] = "audit"
                                => fs[call[r].dst] = Absent]_vars
  BY DEF DestinationFree, Interference, Several
<1>2. QED
  BY <1>1, SpecUndisturbed, PTL DEF Undisturbed, PromoteNeverOverwrites

LEMMA AppendExtends ==
  ASSUME NEW S, NEW t \in Seq(S), NEW x \in S
  PROVE  LET u == Append(t, x)
         IN  /\ Len(t) <= Len(t) /\ SubSeq(t, 1, Len(t)) = t
             /\ Len(t) <= Len(u) /\ SubSeq(u, 1, Len(t)) = t
<1>1. Len(t) \in Nat /\ Len(Append(t, x)) = Len(t) + 1
  OBVIOUS
<1>2. ASSUME NEW u \in Seq(S), Len(t) <= Len(u),
             \A i \in 1 .. Len(t) : u[i] = t[i]
      PROVE  SubSeq(u, 1, Len(t)) = t
  <2>1. \A i \in 1 .. Len(t) : u[i] \in S
    BY <1>2
  <2>2. /\ SubSeq(u, 1, Len(t)) \in Seq(S)
        /\ Len(SubSeq(u, 1, Len(t))) = Len(t)
        /\ \A i \in 1 .. Len(t) : SubSeq(u, 1, Len(t))[i] = u[i]
    BY <1>1, <2>1, SubSeqProperties
  <2>3. QED
    BY <1>2, <2>2, SeqEqual
<1>3. /\ Append(t, x) \in Seq(S)
      /\ \A i \in 1 .. Len(t) : Append(t, x)[i] = t[i]
  OBVIOUS
<1>4. QED
  BY <1>1, <1>2, <1>3

\* With one server process and as long as the audit can be read, audit.ndjson
\* only ever grows, also when Obsidian sync changes notes and when the process
\* is killed and restarted (audit_log.py, record_event).
THEOREM AuditOnlyGrows ==
  ASSUME MaxFaults = 0, \A p, q \in Procs : p = q
  PROVE  Spec => AuditAppendOnly
<1>1. Typed /\ AuditFresh /\ [Next]_vars =>
        [/\ Len(trail) <= Len(trail')
         /\ SubSeq(trail', 1, Len(trail)) = trail]_vars
  <2> SUFFICES ASSUME Typed, AuditFresh, [Next]_vars
               PROVE  /\ Len(trail) <= Len(trail')
                      /\ SubSeq(trail', 1, Len(trail)) = trail
    OBVIOUS
  <2>1. trail \in Seq(Requests)
    BY DEF Typed, VaultTyped
  <2>2. trail' = trail \/ \E r \in Requests : trail' = Append(trail, r)
    <3>1. CASE Stepped
      BY <3>1 DEF Stepped, Prepares, HasRead, AuditFresh, Several
    <3>2. CASE ~Stepped
      BY <3>2, NextCases DEF Crash, SyncChange, vars, world
    <3>3. QED
      BY <3>1, <3>2
  <2>3. CASE trail' = trail
    <3>1. CASE Requests = {}
      BY <2>1, <2>3, <3>1, SeqEqual, SubSeqEmpty
    <3>2. CASE Requests # {}
      BY <2>1, <2>3, <3>2, AppendExtends
    <3>3. QED
      BY <3>1, <3>2
  <2>4. QED
    BY <2>1, <2>2, <2>3, AppendExtends
<1>2. QED
  BY <1>1, SpecUndisturbed, SpecTyped, PTL
     DEF Undisturbed, AuditAppendOnly, Spec

=============================================================================
