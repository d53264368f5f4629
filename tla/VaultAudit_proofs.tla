-------------------------- MODULE VaultAudit_proofs --------------------------
(***************************************************************************)
(* What the audit, LOG.md, the index and the answers of the mutation       *)
(* pipeline tell about one another, for every set of processes, calls and  *)
(* notes.  The first part holds whatever goes wrong; the second needs that *)
(* one process is alone with the vault and nothing fails.                  *)
(***************************************************************************)
EXTENDS VaultSafety_proofs, FiniteSetTheorems

-----------------------------------------------------------------------------
(* What one step leaves of the other calls *)

OthersKeep(r) ==
  \A q \in Requests \ {r} : plan'[q] = plan[q] /\ outcome'[q] = outcome[q]

LEMMA StepKeeps ==
  ASSUME Typed, NEW r \in Requests,
         Reads(r) \/ (\E p \in Procs : Submit(p, r)) \/ Serve(r)
  PROVE  OthersKeep(r)
  BY DEF Typed, ControlTyped, CallsTyped, OthersKeep, Reads, ReadNote, Submit,
         SubmitWrite, SubmitEdit, Refuse, SubmitCreate, SubmitPromote, Serve,
         Suspend, Recheck, Replace, PromoteCheck, PromoteRead, PromoteMove,
         AuditRead, AuditWrite, LogRead, LogWrite, RefreshExists, RefreshRead,
         RefreshUpsert, RefreshDelete, Fail, Return, Take, Release, client

Steps(r) == Reads(r) \/ (\E p \in Procs : Submit(p, r)) \/ Serve(r)

LEMMA StepFacts ==
  ASSUME Typed, NEW r \in Requests, Steps(r)
  PROVE  StepOf(r) /\ Prepares(r) /\ OthersKeep(r)
  BY SubmitIsStep, ServeIsStep, SubmitPrepares, ServePrepares, StepKeeps
  DEF Steps

LEMMA NextSteps ==
  ASSUME [Next]_vars
  PROVE  \/ \E r \in Requests : Steps(r)
         \/ \E p \in Procs : Crash(p)
         \/ \E f \in Files : SyncChange(f)
         \/ UNCHANGED vars
  BY DEF Next, Reads, Steps, Quiet

\* A crash ends the calls of its process and changes nothing else of a call.
LEMMA CrashFacts ==
  ASSUME Typed, NEW p \in Procs, Crash(p)
  PROVE  /\ UNCHANGED <<world, client, buf>>
         /\ \A q \in Requests :
              \/ pc'[q] = pc[q] /\ outcome'[q] = outcome[q] /\ held'[q] = held[q]
              \/ /\ InFlight(q)
                 /\ pc'[q] = "done" /\ outcome'[q] = "crashed" /\ held'[q] = {}
  BY DEF Crash, Typed, ControlTyped, InFlight

-----------------------------------------------------------------------------
(* Where a call is says what it is *)

\* The arguments of a call fit its place: only edits and writes wait for the
\* note's lock, only promotions move, and only they are done at LOG.md.
Fitting(r) ==
  /\ pc[r] = "idle" => call[r] = NoCall /\ rev[r] = Absent
  /\ pc[r] \in {"ready", "lock"} => call[r].op \in {"write", "edit"}
  /\ pc[r] = "replace" => call[r].op \in {"create", "write", "edit"}
  /\ pc[r] \in {"plock", "psource", "pmove"} => Promotes(r)
  /\ pc[r] \in {"rexists", "rread", "rupsert", "rdelete"} => ~Promotes(r)
  /\ Promotes(r) =>
       Path(r) \in Sources /\ call[r].dst \in Notes /\ Path(r) # call[r].dst
  /\ call[r].op \in {"create", "write", "edit"} => Path(r) \in Targets
  /\ call[r].op \in {"write", "edit"} <=> rev[r] # Absent
  /\ outcome[r] # "none" => pc[r] = "done"

CallsFit == \A r \in Requests : Fitting(r)

LEMMA FitReads ==
  ASSUME Typed, CallsFit, NEW r \in Requests, Reads(r)
  PROVE  Fitting(r)'
  BY DEF CallsFit, Fitting, Typed, ControlTyped, CallsTyped, VaultTyped, Reads,
         ReadNote, Promotes, Path, Goto

LEMMA FitSubmits ==
  ASSUME Typed, CallsFit, NEW r \in Requests, NEW p \in Procs, Submit(p, r)
  PROVE  Fitting(r)'
<1> USE DEF CallsFit, Fitting, Typed, ControlTyped, CallsTyped, Promotes, Path,
            Goto, Return, client
<1>1. CASE SubmitWrite(p, r)
  BY <1>1 DEF SubmitWrite
<1>2. CASE SubmitEdit(p, r)
  BY <1>2 DEF SubmitEdit
<1>3. CASE Refuse(p, r)
  BY <1>3 DEF Refuse
<1>4. ASSUME NEW f \in Targets, NEW d \in DryRuns, SubmitCreate(p, r, f, d)
      PROVE  Fitting(r)'
  BY <1>4 DEF SubmitCreate, NoCall
<1>5. ASSUME NEW f \in Sources, NEW g \in Notes, NEW d \in DryRuns,
             SubmitPromote(p, r, f, g, d)
      PROVE  Fitting(r)'
  BY <1>5 DEF SubmitPromote, NoCall
<1>6. QED
  BY <1>1, <1>2, <1>3, <1>4, <1>5 DEF Submit

LEMMA FitServes ==
  ASSUME Typed, CallsFit, NEW r \in Requests, Serve(r)
  PROVE  Fitting(r)'
<1> USE DEF CallsFit, Fitting, Typed, ControlTyped, Promotes, Path, Goto, Return,
            client
<1>1. CASE Suspend(r)
  BY <1>1 DEF Suspend
<1>2. CASE Recheck(r)
  BY <1>2 DEF Recheck, Take
<1>3. CASE Replace(r)
  BY <1>3 DEF Replace, Release
<1>4. CASE PromoteCheck(r)
  BY <1>4 DEF PromoteCheck, Take
<1>5. CASE PromoteRead(r)
  BY <1>5 DEF PromoteRead
<1>6. CASE PromoteMove(r)
  BY <1>6 DEF PromoteMove
<1>7. CASE AuditRead(r)
  BY <1>7 DEF AuditRead, Take
<1>8. CASE AuditWrite(r)
  BY <1>8 DEF AuditWrite, Release
<1>9. CASE LogRead(r)
  BY <1>9 DEF LogRead, Take
<1>10. CASE LogWrite(r)
  BY <1>10 DEF LogWrite, Release
<1>11. CASE RefreshExists(r) \/ RefreshRead(r)
  BY <1>11 DEF RefreshExists, RefreshRead
<1>12. CASE RefreshUpsert(r) \/ RefreshDelete(r)
  BY <1>12 DEF RefreshUpsert, RefreshDelete
<1>13. CASE Fail(r)
  BY <1>13 DEF Fail
<1>14. QED
  BY <1>1, <1>2, <1>3, <1>4, <1>5, <1>6, <1>7, <1>8, <1>9, <1>10, <1>11,
     <1>12, <1>13
  DEF Serve

LEMMA FitStep == Typed /\ CallsFit /\ [Next]_vars => CallsFit'
<1> SUFFICES ASSUME Typed, CallsFit, [Next]_vars, NEW q \in Requests
             PROVE  Fitting(q)'
  BY DEF CallsFit
<1>1. ASSUME NEW r \in Requests, Steps(r)
      PROVE  Fitting(q)'
  <2>1. CASE q = r
    BY <1>1, <2>1, FitReads, FitSubmits, FitServes DEF Steps
  <2>2. CASE q # r
    BY <1>1, <2>2, StepFacts
    DEF StepOf, OthersStay, OthersKeep, CallsFit, Fitting, Promotes, Path
  <2>3. QED
    BY <2>1, <2>2
<1>2. ASSUME NEW p \in Procs, Crash(p)
      PROVE  Fitting(q)'
  BY <1>2, CrashFacts DEF CallsFit, Fitting, Promotes, Path, client
<1>3. ASSUME UNCHANGED <<call, rev, pc, outcome>>
      PROVE  Fitting(q)'
  BY <1>3 DEF CallsFit, Fitting, Promotes, Path
<1>4. QED
  BY <1>1, <1>2, <1>3, NextSteps DEF SyncChange, client, vars

LEMMA SpecFits == Spec => []CallsFit
<1>1. Init => CallsFit
  BY DEF Init, CallsFit, Fitting, NoCall, Promotes
<1>2. QED
  BY <1>1, FitStep, SpecTyped, PTL DEF Spec

-----------------------------------------------------------------------------
(* Events *)

In(r, seq)    == \E i \in DOMAIN seq : seq[i] = r
Distinct(seq) == \A i, j \in DOMAIN seq : seq[i] = seq[j] => i = j

\* A call that has changed its note is Unsaid until its event is in the audit.
Unsaid     == {"audit", "awrite"}
Refreshing == {"rexists", "rread", "rupsert", "rdelete"}
Said       == {"log", "lwrite"} \cup Refreshing

LEMMA InAppend ==
  ASSUME NEW S, NEW t \in Seq(S), NEW x \in S
  PROVE  /\ \A y : In(y, Append(t, x)) <=> In(y, t) \/ y = x
         /\ Distinct(t) /\ ~In(x, t) => Distinct(Append(t, x))
         /\ DOMAIN Append(t, x) = DOMAIN t \cup {Len(t) + 1}
         /\ Append(t, x)[Len(t) + 1] = x
         /\ \A i \in DOMAIN t : i \in 1 .. Len(t) /\ Append(t, x)[i] = t[i]
         /\ Len(t) \in Nat
<1>1. /\ Len(t) \in Nat
      /\ DOMAIN t = 1 .. Len(t)
      /\ DOMAIN Append(t, x) = 1 .. Len(t) + 1
      /\ Append(t, x)[Len(t) + 1] = x
      /\ \A i \in 1 .. Len(t) : Append(t, x)[i] = t[i]
  BY AppendProperties
<1>2. DOMAIN Append(t, x) = DOMAIN t \cup {Len(t) + 1}
  BY <1>1
<1>3. \A y : In(y, Append(t, x)) <=> In(y, t) \/ y = x
  BY <1>1, <1>2 DEF In
<1>4. ASSUME Distinct(t), ~In(x, t)
      PROVE  Distinct(Append(t, x))
  BY <1>1, <1>2, <1>4 DEF In, Distinct
<1>5. QED
  BY <1>1, <1>2, <1>3, <1>4

LEMMA InEmpty == Distinct(<<>>) /\ \A y : ~In(y, <<>>)
  BY DEF In, Distinct

\* The places of a call on its way: it never returns to a place before its
\* audit record, and only two steps have to do with the audit.
LEMMA Onward ==
  ASSUME Typed, NEW r \in Requests, Steps(r)
  PROVE  /\ pc[r] \in Said \cup {"done"} => pc'[r] \in Said \cup {"done"}
         /\ pc[r] \in Unsaid => pc'[r] \in Unsaid \cup Said \cup {"done"}
         /\ \/ AuditRead(r) /\ trail' = trail
            \/ AuditWrite(r) /\ pc'[r] = "log"
            \/ trail' = trail /\ pc'[r] # "awrite"
<1> USE DEF Typed, ControlTyped, Said, Unsaid, Refreshing, Goto, Return, world
<1>1. CASE Reads(r)
  BY <1>1 DEF Reads, ReadNote
<1>2. CASE \E p \in Procs : Submit(p, r)
  BY <1>2 DEF Submit, SubmitWrite, SubmitEdit, Refuse, SubmitCreate,
              SubmitPromote
<1>3. CASE Serve(r)
  BY <1>3 DEF Serve, Suspend, Waiting, Recheck, Replace, PromoteCheck,
              PromoteRead, PromoteMove, AuditRead, AuditWrite, LogRead, LogWrite,
              RefreshExists, RefreshRead, RefreshUpsert, RefreshDelete, Fail,
              Working
<1>4. QED
  BY <1>1, <1>2, <1>3 DEF Steps

\* A sequence of events that calls past their audit record may have left.
Spoken(seq) ==
  /\ Distinct(seq)
  /\ \A r \in Requests : In(r, seq) => pc[r] \in Said \cup {"done"}

\* No event is there twice, neither in the audit nor in what a call that is
\* about to rewrite it has read: at most its own is still to come.
EventsOnce ==
  /\ Spoken(trail)
  /\ \A q \in Requests : pc[q] = "awrite" => Spoken(buf[q])

LEMMA EventsStep == Typed /\ EventsOnce /\ [Next]_vars => EventsOnce'
<1> SUFFICES ASSUME Typed, EventsOnce, [Next]_vars
             PROVE  EventsOnce'
  OBVIOUS
<1>1. ASSUME NEW r \in Requests, Steps(r)
      PROVE  EventsOnce'
  <2>1. \A q \in Requests : pc[q] \in Said \cup {"done"}
                              => pc'[q] \in Said \cup {"done"}
    BY <1>1, Onward, StepFacts DEF StepOf, OthersStay
  <2>2. Spoken(trail)' \/ AuditWrite(r)
    BY <1>1, <2>1, Onward DEF EventsOnce, Spoken, AuditRead, world
  <2>3. ASSUME AuditWrite(r)
        PROVE  Spoken(trail)'
    <3>1. /\ buf[r] \in Seq(Requests)
          /\ trail' = Append(buf[r], r)
          /\ Spoken(buf[r])
          /\ pc[r] = "awrite"
          /\ pc'[r] = "log"
      BY <2>3
      DEF AuditWrite, Goto, Typed, ControlTyped, CallsReady, EventsOnce
    <3>2. ~In(r, buf[r])
      BY <3>1 DEF Spoken, Said, Refreshing
    <3>3. QED
      BY <2>1, <3>1, <3>2, InAppend DEF Spoken, Said
  <2>4. ASSUME NEW q \in Requests, pc'[q] = "awrite"
        PROVE  Spoken(buf[q])'
    <3>1. CASE q = r
      <4>1. AuditRead(r)
        BY <1>1, <2>4, <3>1, Onward
      <4>2. buf'[r] = trail \/ buf'[r] = <<>>
        BY <4>1, ReadTyped, ContentsClosed
        DEF AuditRead, Typed, VaultTyped
      <4>3. QED
        BY <2>1, <3>1, <4>2, InEmpty DEF EventsOnce, Spoken
    <3>2. CASE q # r
      BY <1>1, <2>1, <2>4, <3>2, StepFacts
      DEF StepOf, OthersStay, EventsOnce, Spoken
    <3>3. QED
      BY <3>1, <3>2
  <2>5. QED
    BY <2>2, <2>3, <2>4 DEF EventsOnce
<1>2. ASSUME NEW p \in Procs, Crash(p)
      PROVE  EventsOnce'
  BY <1>2, CrashFacts DEF EventsOnce, Spoken, world
<1>3. ASSUME UNCHANGED <<trail, buf, pc>>
      PROVE  EventsOnce'
  BY <1>3 DEF EventsOnce, Spoken
<1>4. QED
  BY <1>1, <1>2, <1>3, NextSteps DEF SyncChange, vars

LEMMA SpecEvents == Spec => []EventsOnce
<1>1. Init => EventsOnce
  BY InEmpty DEF Init, EventsOnce, Spoken
<1>2. QED
  BY <1>1, EventsStep, SpecTyped, PTL DEF Spec

\* How often a call is in the audit.
LEMMA TimesIn ==
  ASSUME NEW r, NEW seq, Distinct(seq)
  PROVE  /\ In(r, seq) => Times(r, seq) = 1
         /\ ~In(r, seq) => Times(r, seq) = 0
<1>1. CASE In(r, seq)
  <2>1. PICK i \in DOMAIN seq : seq[i] = r
    BY <1>1 DEF In
  <2>2. {j \in DOMAIN seq : seq[j] = r} = {i}
    BY <2>1 DEF Distinct
  <2>3. QED
    BY <1>1, <2>2, FS_Singleton DEF Times
<1>2. CASE ~In(r, seq)
  <2>1. {j \in DOMAIN seq : seq[j] = r} = {}
    BY <1>2 DEF In
  <2>2. QED
    BY <1>2, <2>1, FS_EmptySet DEF Times
<1>3. QED
  BY <1>1, <1>2

\* However many processes rewrite audit.ndjson, whatever they fail to read and
\* wherever they die, no event is in it twice (audit_log.py, record_event).
THEOREM EventsAreNotDoubled == Spec => []AuditNeverDuplicates
<1>1. EventsOnce => AuditNeverDuplicates
  BY TimesIn DEF EventsOnce, Spoken, AuditNeverDuplicates
<1>2. QED
  BY <1>1, SpecEvents, PTL

\* With one process that can read its audit, the event of a call stays there
\* from its record to its answer, and after it.
EventsKept ==
  \A r \in Requests : pc[r] \in Said \/ outcome[r] = "ok" => In(r, trail)

LEMMA OkIsSaid ==
  ASSUME Typed, NEW r \in Requests, Steps(r)
  PROVE  /\ pc'[r] \in Said => pc[r] \in Said \/ AuditWrite(r)
         /\ outcome'[r] = "ok" => outcome[r] = "ok" \/ pc[r] \in Said
<1> USE DEF Typed, ControlTyped, Said, Refreshing, Goto, Return
<1>1. CASE Reads(r)
  BY <1>1 DEF Reads, ReadNote
<1>2. CASE \E p \in Procs : Submit(p, r)
  BY <1>2 DEF Submit, SubmitWrite, SubmitEdit, Refuse, SubmitCreate,
              SubmitPromote
<1>3. CASE Serve(r)
  BY <1>3 DEF Serve, Suspend, Recheck, Replace, PromoteCheck, PromoteRead,
              PromoteMove, AuditRead, AuditWrite, LogRead, LogWrite,
              RefreshExists, RefreshRead, RefreshUpsert, RefreshDelete, Fail,
              Take, Release
<1>4. QED
  BY <1>1, <1>2, <1>3 DEF Steps

LEMMA KeptStep ==
  ASSUME MaxFaults = 0, \A p, q \in Procs : p = q
  PROVE  Typed /\ AuditFresh /\ EventsKept /\ [Next]_vars => EventsKept'
<1> SUFFICES ASSUME Typed, AuditFresh, EventsKept, [Next]_vars
             PROVE  EventsKept'
  OBVIOUS
<1>1. ASSUME NEW r \in Requests, Steps(r)
      PROVE  EventsKept'
  <2>1. trail \in Seq(Requests)
    BY DEF Typed, VaultTyped
  <2>2. CASE AuditWrite(r)
    <3>1. trail' = Append(trail, r)
      BY <2>2 DEF AuditWrite, AuditFresh, Several
    <3>2. \A q \in Requests : In(q, trail') <=> In(q, trail) \/ q = r
      BY <2>1, <3>1, InAppend
    <3>3. QED
      BY <1>1, <3>2, StepFacts DEF EventsKept, StepOf, OthersStay, OthersKeep
  <2>3. CASE ~AuditWrite(r)
    <3>1. trail' = trail
      BY <1>1, <2>3, Onward
    <3>2. QED
      BY <1>1, <2>3, <3>1, OkIsSaid, StepFacts
      DEF EventsKept, StepOf, OthersStay, OthersKeep
  <2>4. QED
    BY <2>2, <2>3
<1>2. ASSUME NEW p \in Procs, Crash(p)
      PROVE  EventsKept'
  BY <1>2, CrashFacts DEF EventsKept, world, Said, Refreshing
<1>3. ASSUME UNCHANGED <<trail, pc, outcome>>
      PROVE  EventsKept'
  BY <1>3 DEF EventsKept
<1>4. QED
  BY <1>1, <1>2, <1>3, NextSteps DEF SyncChange, vars

\* With one server process whose reads do not fail, a call that answered success
\* has exactly one event, wherever the process dies and whatever sync changes
\* (mutation_service.py: record_event is awaited before the result).
THEOREM SuccessHasItsEvent ==
  ASSUME MaxFaults = 0, \A p, q \in Procs : p = q
  PROVE  Spec => []SuccessIsAudited
<1>1. Init => EventsKept
  BY DEF Init, EventsKept, Said, Refreshing
<1>2. EventsOnce /\ EventsKept => SuccessIsAudited
  BY TimesIn DEF EventsOnce, Spoken, EventsKept, SuccessIsAudited
<1>3. QED
  BY <1>1, <1>2, KeptStep, SpecTyped, SpecUndisturbed, SpecEvents, PTL
  DEF Spec, Undisturbed

-----------------------------------------------------------------------------
(* Traces *)

\* A call may have left something behind: it has changed a note, or it was
\* answered otherwise than with a plan or a conflict.
Left(r) == pc[r] \in Unsaid \cup Said \/ outcome[r] \in {"ok", "error", "crashed"}

\* Nothing of r is anywhere but in its own plan.
Traceless(r) ==
  /\ ~In(r, trail)
  /\ \A f \in Files : ~Appears(r, fs[f]) /\ ~Appears(r, index[f])
  /\ \A q \in Requests : /\ ~Appears(r, rev[q])
                         /\ ~Appears(r, buf[q])
                         /\ q # r => ~Appears(r, plan[q])

TracesLeft == \A r \in Requests : Left(r) \/ Traceless(r)

LEMMA AppearsIn ==
  /\ \A x : ~Appears(x, <<>>) /\ ~Appears(x, Absent)
  /\ \A x, y \in Requests \cup {Sync} : Appears(x, <<y>>) <=> x = y
  /\ \A x : \A c \in Contents, y \in Requests \cup {Sync} :
       Appears(x, Append(c, y)) <=> Appears(x, c) \/ x = y
  /\ \A x : \A t \in Seq(Requests) : Appears(x, t) <=> In(x, t)
<1>1. \A x : ~Appears(x, <<>>) /\ ~Appears(x, Absent)
  BY DEF Appears
<1>2. \A x, y \in Requests \cup {Sync} : Appears(x, <<y>>) <=> x = y
  <2> SUFFICES ASSUME NEW x \in Requests \cup {Sync}, NEW y \in Requests \cup {Sync}
               PROVE  Appears(x, <<y>>) <=> x = y
    OBVIOUS
  <2>1. <<y>> # Absent
    BY ContentsClosed
  <2>2. DOMAIN <<y>> = {1} /\ <<y>>[1] = y
    OBVIOUS
  <2>3. QED
    BY <2>1, <2>2 DEF Appears
<1>3. ASSUME NEW c \in Contents, NEW y \in Requests \cup {Sync}, NEW x
      PROVE  Appears(x, Append(c, y)) <=> Appears(x, c) \/ x = y
  <2>1. Append(c, y) # Absent /\ c # Absent
    BY ContentsClosed
  <2>2. In(x, Append(c, y)) <=> In(x, c) \/ x = y
    BY InAppend DEF Contents
  <2>3. QED
    BY <2>1, <2>2 DEF Appears, In
<1>4. ASSUME NEW t \in Seq(Requests), NEW x
      PROVE  Appears(x, t) <=> In(x, t)
  BY ContentsClosed DEF Appears, In
<1>5. QED
  BY <1>1, <1>2, <1>3, <1>4

\* What a call has left stays left.
LEMMA LeftStays ==
  ASSUME Typed, CallsFit, NEW r \in Requests, Steps(r), NEW x \in Requests, Left(x)
  PROVE  Left(x)'
<1>1. CASE x = r
  <2> USE DEF Typed, ControlTyped, CallsFit, Fitting, Left, Said, Unsaid,
              Refreshing, Goto, Return
  <2>1. CASE Reads(r)
    BY <1>1, <2>1 DEF Reads, ReadNote
  <2>2. CASE \E p \in Procs : Submit(p, r)
    BY <1>1, <2>2
    DEF Submit, SubmitWrite, SubmitEdit, Refuse, SubmitCreate, SubmitPromote
  <2>3. CASE Serve(r)
    BY <1>1, <2>3
    DEF Serve, Suspend, Recheck, Replace, PromoteCheck, PromoteRead,
        PromoteMove, AuditRead, AuditWrite, LogRead, LogWrite, RefreshExists,
        RefreshRead, RefreshUpsert, RefreshDelete, Fail, Take, Release, Waiting,
        Working
  <2>4. QED
    BY <2>1, <2>2, <2>3 DEF Steps
<1>2. CASE x # r
  BY <1>2, StepFacts DEF StepOf, OthersStay, OthersKeep, Left
<1>3. QED
  BY <1>1, <1>2

LEMMA TracelessSubmits ==
  ASSUME Typed, NEW r \in Requests, Reads(r) \/ (\E p \in Procs : Submit(p, r)),
         NEW x \in Requests, Traceless(x)
  PROVE  Traceless(x)'
<1> USE AppearsIn DEF Traceless, Typed, VaultTyped, CallsTyped, CallsReady,
                      world, client, Return
<1>1. CASE Reads(r)
  BY <1>1, FilesAssumption DEF Reads, ReadNote
<1>2. ASSUME NEW p \in Procs, SubmitWrite(p, r)
      PROVE  Traceless(x)'
  BY <1>2 DEF SubmitWrite
<1>3. ASSUME NEW p \in Procs, SubmitEdit(p, r)
      PROVE  Traceless(x)'
  <2>1. /\ rev[r] \in Contents
        /\ plan'[r] = plan[r] \/ plan'[r] = Append(rev[r], r)
    BY <1>3 DEF SubmitEdit
  <2>2. Appears(x, Append(rev[r], r)) <=> Appears(x, rev[r]) \/ x = r
    BY <2>1, AppearsIn
  <2>3. x # r => ~Appears(x, plan[r]) /\ ~Appears(x, rev[r])
    OBVIOUS
  <2>4. x # r => ~Appears(x, plan'[r])
    BY <2>1, <2>2, <2>3
  <2>5. \A q \in Requests \ {r} : plan'[q] = plan[q]
    BY <1>3 DEF SubmitEdit
  <2>6. QED
    BY <1>3, <2>4, <2>5 DEF SubmitEdit
<1>4. ASSUME NEW p \in Procs, Refuse(p, r)
      PROVE  Traceless(x)'
  BY <1>4 DEF Refuse
<1>5. ASSUME NEW p \in Procs, NEW f \in Targets, NEW d \in DryRuns,
             SubmitCreate(p, r, f, d)
      PROVE  Traceless(x)'
  BY <1>5 DEF SubmitCreate
<1>6. ASSUME NEW p \in Procs, NEW f \in Sources, NEW g \in Notes,
             NEW d \in DryRuns, SubmitPromote(p, r, f, g, d)
      PROVE  Traceless(x)'
  BY <1>6 DEF SubmitPromote
<1>7. QED
  BY <1>1, <1>2, <1>3, <1>4, <1>5, <1>6 DEF Submit

LEMMA TracelessServes ==
  ASSUME Typed, CallsFit, NEW r \in Requests, Serve(r),
         NEW x \in Requests, Traceless(x), ~Left(x)'
  PROVE  Traceless(x)'
<1> USE AppearsIn DEF Traceless, Typed, VaultTyped, CallsTyped, ControlTyped,
                      world, client, Path, Goto
<1>1. CASE Suspend(r)
  BY <1>1 DEF Suspend
<1>2. CASE Recheck(r)
  BY <1>2 DEF Recheck
<1>3. CASE Replace(r)
  BY <1>3 DEF Replace, Left, Unsaid
<1>4. CASE PromoteCheck(r)
  BY <1>4 DEF PromoteCheck
<1>5. CASE PromoteRead(r)
  <2>1. plan'[r] \in {plan[r], fs[Path(r)]} /\ Path(r) \in Files
    BY <1>5 DEF PromoteRead
  <2>2. \A q \in Requests \ {r} : plan'[q] = plan[q]
    BY <1>5 DEF PromoteRead
  <2>3. QED
    BY <1>5, <2>1, <2>2 DEF PromoteRead
<1>6. CASE PromoteMove(r)
  <2>1. \A f \in Files : fs'[f] \in {fs[f], fs[Path(r)], Absent}
    BY <1>6 DEF PromoteMove
  <2>2. Path(r) \in Files
    OBVIOUS
  <2>3. \A f \in Files : ~Appears(x, fs'[f])
    BY <2>1, <2>2
  <2>4. QED
    BY <1>6, <2>3 DEF PromoteMove
<1>7. CASE AuditRead(r)
  <2>1. buf'[r] = trail \/ buf'[r] = <<>>
    BY <1>7, ReadTyped, ContentsClosed DEF AuditRead
  <2>2. \A q \in Requests \ {r} : buf'[q] = buf[q]
    BY <1>7, StepFacts DEF Steps, Serve, StepOf, OthersStay
  <2>3. QED
    BY <1>7, <2>1, <2>2 DEF AuditRead
<1>8. CASE AuditWrite(r)
  <2>1. buf[r] \in Seq(Requests) /\ trail' = Append(buf[r], r) /\ x # r
    BY <1>8 DEF AuditWrite, CallsReady, Left, Said
  <2>2. In(x, trail') <=> In(x, buf[r])
    BY <2>1, InAppend
  <2>3. QED
    BY <1>8, <2>1, <2>2 DEF AuditWrite
<1>9. CASE LogRead(r)
  <2>1. buf'[r] = fs[Log] \/ buf'[r] = <<>>
    BY <1>9, ReadTyped, KeysTyped DEF LogRead
  <2>2. \A q \in Requests \ {r} : buf'[q] = buf[q]
    BY <1>9, StepFacts DEF Steps, Serve, StepOf, OthersStay
  <2>3. QED
    BY <1>9, <2>1, <2>2, KeysTyped DEF LogRead
<1>10. CASE LogWrite(r)
  <2>1. x # r
    BY <1>10 DEF LogWrite, Return, Left, Said, Refreshing
  <2>2. QED
    BY <1>10, <2>1, KeysTyped DEF LogWrite
<1>11. CASE RefreshExists(r)
  BY <1>11 DEF RefreshExists
<1>12. CASE RefreshRead(r)
  <2>1. \A q \in Requests : buf'[q] \in {buf[q], fs[Path(r)]}
    BY <1>12 DEF RefreshRead
  <2>2. \A q \in Requests : ~Appears(x, buf'[q])
    BY <2>1
  <2>3. QED
    BY <1>12, <2>2 DEF RefreshRead
<1>13. CASE RefreshUpsert(r)
  BY <1>13 DEF RefreshUpsert
<1>14. CASE RefreshDelete(r)
  BY <1>14 DEF RefreshDelete
<1>15. CASE Fail(r)
  BY <1>15 DEF Fail
<1>16. QED
  BY <1>1, <1>2, <1>3, <1>4, <1>5, <1>6, <1>7, <1>8, <1>9, <1>10, <1>11,
     <1>12, <1>13, <1>14, <1>15
  DEF Serve

LEMMA TracesStep ==
  Typed /\ CallsFit /\ TracesLeft /\ [Next]_vars => TracesLeft'
<1> SUFFICES ASSUME Typed, CallsFit, TracesLeft, [Next]_vars,
                    NEW x \in Requests, ~Left(x)'
             PROVE  Traceless(x)'
  BY DEF TracesLeft
<1>1. ASSUME NEW r \in Requests, Steps(r)
      PROVE  Traceless(x)'
  <2>1. Traceless(x)
    BY <1>1, LeftStays DEF TracesLeft
  <2>2. QED
    BY <1>1, <2>1, TracelessSubmits, TracelessServes DEF Steps
<1>2. ASSUME NEW p \in Procs, Crash(p)
      PROVE  Traceless(x)'
  <2>1. ~Left(x)
    BY <1>2, CrashFacts DEF CallsFit, Fitting, Left
  <2>2. QED
    BY <1>2, <2>1, CrashFacts DEF TracesLeft, Traceless, world, client
<1>3. ASSUME NEW f \in Files, SyncChange(f)
      PROVE  Traceless(x)'
  <2>1. Traceless(x) /\ x # Sync
    BY <1>3, NullsAssumption DEF SyncChange, TracesLeft, Left
  <2>2. \A g \in Files : \/ fs'[g] \in {fs[g], <<Sync>>, Absent}
                         \/ fs[f] \in Contents /\ fs'[g] = Append(fs[f], Sync)
    BY <1>3 DEF SyncChange, Typed, VaultTyped
  <2>3. ~Appears(x, <<Sync>>) /\ ~Appears(x, Absent)
    BY <2>1, AppearsIn
  <2>4. \A c \in Contents : Appears(x, Append(c, Sync)) <=> Appears(x, c)
    BY <2>1, AppearsIn
  <2>5. \A g \in Files : ~Appears(x, fs[g])
    BY <2>1 DEF Traceless
  <2>6. \A g \in Files : ~Appears(x, fs'[g])
    BY <2>2, <2>3, <2>4, <2>5
  <2>7. QED
    BY <1>3, <2>1, <2>6 DEF SyncChange, Traceless, client
<1>4. CASE UNCHANGED vars
  BY <1>4 DEF vars, client, TracesLeft, Left, Traceless
<1>5. QED
  BY <1>1, <1>2, <1>3, <1>4, NextSteps

\* A call answered with a dry-run plan or a conflict has left nothing in a note,
\* the audit, LOG.md or the index, whatever other processes do and whatever
\* fails (mutation_service.py: a dry run and a conflict return before the write;
\* no other call has taken anything of it over).
THEOREM RefusalIsTraceless == Spec => []RefusedLeavesNoTrace
<1>1. Init => TracesLeft
  <2> SUFFICES ASSUME Init, NEW x \in Requests
               PROVE  Traceless(x)
    BY DEF TracesLeft
  <2>1. x # Sync
    BY NullsAssumption
  <2>2. QED
    BY <2>1, AppearsIn, InEmpty DEF Init, Traceless
<1>2. EventsOnce /\ CallsFit /\ TracesLeft => RefusedLeavesNoTrace
  <2> SUFFICES ASSUME EventsOnce, CallsFit, TracesLeft, NEW r \in Requests,
                      outcome[r] \in {"planned", "conflict"}
               PROVE  /\ Times(r, trail) = 0
                      /\ \A f \in Files : ~Appears(r, fs[f]) /\ ~Appears(r, index[f])
    BY DEF RefusedLeavesNoTrace
  <2>1. Traceless(r)
    BY DEF CallsFit, Fitting, TracesLeft, Left, Unsaid, Said, Refreshing
  <2>2. QED
    BY <2>1, TimesIn DEF Traceless, EventsOnce, Spoken
<1>3. QED
  BY <1>1, <1>2, TracesStep, SpecTyped, SpecFits, SpecEvents, PTL DEF Spec

-----------------------------------------------------------------------------
(* From the change of a note to its line in LOG.md nothing is awaited *)

\* Where the locks of the audit and of LOG.md are held.
LocksPlaced ==
  \A r \in Requests :
    /\ AbsKey(Audit) \in held[r] => pc[r] = "awrite"
    /\ AbsKey(Log) \in held[r] =>
         pc[r] = "lwrite" \/ (Promotes(r) /\ Path(r) = Log)

\* A call keeps the loop from its change to its event, and to its line in
\* LOG.md unless some promotion has locked LOG.md as its source.
RecordsWithLoop ==
  \A r \in Requests :
    pc[r] = "audit" \/ (pc[r] = "log" /\ Log \notin Sources) => OnLoop(r)

LEMMA KeysApart ==
  /\ \A f, g \in Files : RelKey(f) # AbsKey(g)
  /\ \A f \in Files : RelKey(f) # AbsKey(Audit) /\ AbsKey(f) # AbsKey(Audit)
  /\ \A f, g \in Files : AbsKey(f) = AbsKey(g) => f = g
  BY FilesAssumption DEF RelKey, AbsKey, Files

LEMMA PlacedStep == Typed /\ CallsFit /\ LocksPlaced /\ [Next]_vars => LocksPlaced'
<1> SUFFICES ASSUME Typed, CallsFit, LocksPlaced, [Next]_vars,
                    NEW q \in Requests
             PROVE  /\ AbsKey(Audit) \in held'[q] => pc'[q] = "awrite"
                    /\ AbsKey(Log) \in held'[q] =>
                         \/ pc'[q] = "lwrite"
                         \/ Promotes(q)' /\ Path(q)' = Log
  BY DEF LocksPlaced
<1> USE DEF LocksPlaced, Promotes, Path
<1>1. ASSUME NEW r \in Requests, Steps(r)
      PROVE  /\ AbsKey(Audit) \in held'[q] => pc'[q] = "awrite"
             /\ AbsKey(Log) \in held'[q] =>
                  \/ pc'[q] = "lwrite"
                  \/ Promotes(q)' /\ Path(q)' = Log
  <2>1. CASE q # r
    BY <1>1, <2>1, StepFacts DEF StepOf, OthersStay
  <2>2. CASE q = r /\ ~Serve(r)
    <3> USE DEF Typed, ControlTyped, CallsTyped, Goto, Return, CallsFit, Fitting
    <3>1. CASE Reads(r)
      BY <2>2, <3>1 DEF Reads, ReadNote, NoCall
    <3>2. CASE \E p \in Procs : Submit(p, r)
      BY <2>2, <3>2
      DEF Submit, SubmitWrite, SubmitEdit, Refuse, SubmitCreate, SubmitPromote,
          NoCall
    <3>3. QED
      BY <1>1, <2>2, <3>1, <3>2 DEF Steps
  <2>3. CASE q = r /\ Serve(r)
    <3>1. Path(r) \in Files /\ Log \in Files
      BY KeysTyped DEF Typed, CallsTyped
    <3> USE KeysApart DEF Typed, ControlTyped, Goto, Return, Take, Release, client
    <3>2. CASE Suspend(r) \/ Fail(r)
      BY <2>3, <3>2 DEF Suspend, Fail
    <3>3. CASE Recheck(r)
      BY <2>3, <3>1, <3>3 DEF Recheck
    <3>4. CASE PromoteCheck(r)
      BY <2>3, <3>1, <3>4 DEF PromoteCheck, CallsFit, Fitting
    <3>5. CASE Replace(r)
      BY <2>3, <3>1, <3>5 DEF Replace
    <3>6. CASE PromoteRead(r) \/ PromoteMove(r)
      BY <2>3, <3>1, <3>6 DEF PromoteRead, PromoteMove
    <3>7. CASE AuditRead(r) \/ LogRead(r)
      BY <2>3, <3>1, <3>7 DEF AuditRead, LogRead
    <3>8. CASE AuditWrite(r)
      BY <2>3, <3>1, <3>8 DEF AuditWrite
    <3>9. CASE LogWrite(r)
      BY <2>3, <3>1, <3>9 DEF LogWrite
    <3>10. CASE RefreshExists(r) \/ RefreshRead(r)
      BY <2>3, <3>1, <3>10 DEF RefreshExists, RefreshRead
    <3>11. CASE RefreshUpsert(r) \/ RefreshDelete(r)
      BY <2>3, <3>1, <3>11 DEF RefreshUpsert, RefreshDelete
    <3>12. QED
      BY <2>3, <3>2, <3>3, <3>4, <3>5, <3>6, <3>7, <3>8, <3>9, <3>10, <3>11
      DEF Serve
  <2>4. QED
    BY <2>1, <2>2, <2>3
<1>2. ASSUME NEW p \in Procs, Crash(p)
      PROVE  /\ AbsKey(Audit) \in held'[q] => pc'[q] = "awrite"
             /\ AbsKey(Log) \in held'[q] =>
                  \/ pc'[q] = "lwrite"
                  \/ Promotes(q)' /\ Path(q)' = Log
  BY <1>2, CrashFacts DEF client
<1>3. CASE UNCHANGED <<held, pc, call>>
  BY <1>3
<1>4. QED
  BY <1>1, <1>2, <1>3, NextSteps DEF SyncChange, vars, client

LEMMA LoopKept ==
  ASSUME Typed, NEW r \in Requests, Steps(r), NEW q \in Requests \ {r},
         Served(q), OnLoop(q)
  PROVE  OnLoop(q)'
<1>1. Proc(q) \in Procs /\ running[Proc(q)] = q
  BY DEF Typed, CallsReady, OnLoop
<1>2. QED
  BY <1>1, StepFacts, NullsAssumption
  DEF StepOf, OthersStay, UsesLoop, Server, OnLoop, Proc

LEMMA RecordsStep ==
  Typed /\ CallsFit /\ WorkingHasLoop /\ LocksPlaced /\ RecordsWithLoop
    /\ [Next]_vars => RecordsWithLoop'
<1> SUFFICES ASSUME Typed, CallsFit, WorkingHasLoop, LocksPlaced, RecordsWithLoop,
                    [Next]_vars, NEW q \in Requests,
                    pc'[q] = "audit" \/ (pc'[q] = "log" /\ Log \notin Sources)
             PROVE  OnLoop(q)'
  BY DEF RecordsWithLoop
<1>1. ASSUME NEW r \in Requests, Steps(r)
      PROVE  OnLoop(q)'
  <2>1. CASE q # r
    BY <1>1, <2>1, LoopKept, StepFacts
    DEF StepOf, OthersStay, RecordsWithLoop, Served
  <2>2. CASE q = r
    <3>1. CASE Suspend(r)
      <4>1. pc[r] = pc'[r] /\ OnLoop(r)
        BY <3>1 DEF Suspend
      <4>2. PICK t \in Requests : /\ Proc(t) = Proc(r)
                                  /\ \/ pc[r] = "audit" /\ AbsKey(Audit) \in held[t]
                                     \/ pc[r] = "log" /\ AbsKey(Log) \in held[t]
        BY <2>2, <3>1, <4>1 DEF Suspend, LockFree
      <4>3. pc[t] \in {"awrite", "lwrite"}
        BY <2>2, <4>1, <4>2 DEF LocksPlaced, CallsFit, Fitting
      <4>4. OnLoop(t)
        BY <4>3 DEF WorkingHasLoop, Working
      <4>5. t = r
        BY <4>1, <4>2, <4>4 DEF OnLoop
      <4>6. QED
        BY <2>2, <4>1, <4>3, <4>5
    <3>2. CASE Replace(r) \/ PromoteMove(r) \/ AuditWrite(r)
      BY <2>2, <3>2
      DEF Replace, PromoteMove, AuditWrite, Release, Goto, Return, Typed,
          ControlTyped, OnLoop, Proc, client
    <3>3. QED
      <4> USE DEF Typed, ControlTyped, Goto, Return
      <4>1. CASE Reads(r)
        BY <2>2, <4>1 DEF Reads, ReadNote
      <4>2. CASE \E p \in Procs : Submit(p, r)
        BY <2>2, <4>2
        DEF Submit, SubmitWrite, SubmitEdit, Refuse, SubmitCreate, SubmitPromote
      <4>3. CASE Serve(r)
        BY <2>2, <3>1, <3>2, <4>3
        DEF Serve, Recheck, PromoteCheck, PromoteRead, AuditRead, LogRead,
            LogWrite, RefreshExists, RefreshRead, RefreshUpsert, RefreshDelete,
            Fail
      <4>4. QED
        BY <1>1, <4>1, <4>2, <4>3 DEF Steps
  <2>3. QED
    BY <2>1, <2>2
<1>2. ASSUME NEW p \in Procs, Crash(p)
      PROVE  OnLoop(q)'
  <2>1. pc'[q] = pc[q] /\ OnLoop(q) /\ UNCHANGED call
    BY <1>2, CrashFacts DEF RecordsWithLoop, client
  <2>2. Proc(q) # p
    BY <1>2, <2>1
    DEF Crash, Typed, ControlTyped, Waiting
  <2>3. QED
    BY <1>2, <2>1, <2>2 DEF Crash, OnLoop, Proc, Typed, ControlTyped
<1>3. CASE UNCHANGED <<pc, running, call>>
  BY <1>3 DEF RecordsWithLoop, OnLoop, Proc
<1>4. QED
  BY <1>1, <1>2, <1>3, NextSteps DEF SyncChange, vars, client

LEMMA SpecRecords == Spec => [](LocksPlaced /\ RecordsWithLoop)
<1>1. Init => LocksPlaced /\ RecordsWithLoop
  BY DEF Init, LocksPlaced, RecordsWithLoop
<1>2. QED
  BY <1>1, PlacedStep, RecordsStep, SpecTyped, SpecFits, LoopExclusion, PTL
  DEF Spec

-----------------------------------------------------------------------------
(* One process alone with the vault *)

\* One server, no other writer, no error, no crash: what the documents take
\* for granted where they relate audit, vault, LOG.md and index.
Alone ==
  /\ \A p, q \in Procs : p = q
  /\ MaxSync = 0
  /\ MaxFaults = 0
  /\ MaxCrashes = 0

Still == env.syncs = 0 /\ env.faults = 0 /\ env.crashes = 0

LEMMA StillStep ==
  ASSUME Typed, Still, [Next]_vars
  PROVE  /\ (\E r \in Requests : Steps(r)) \/ UNCHANGED vars
         /\ Still'
         /\ ~Fault
<1>1. /\ ~Fault
      /\ \A p \in Procs : ~Crash(p)
      /\ \A f \in Files : ~SyncChange(f)
  BY DEF Still, Fault, Crash, SyncChange
<1>2. (\E r \in Requests : Steps(r)) \/ UNCHANGED vars
  BY <1>1, NextSteps
<1>3. UNCHANGED env
  <2>1. ASSUME NEW r \in Requests, Steps(r)
        PROVE  UNCHANGED env
    BY <1>1, <2>1
    DEF Steps, Reads, ReadNote, Submit, SubmitWrite, SubmitEdit, Refuse,
        SubmitCreate, SubmitPromote, Serve, Suspend, Recheck, Replace,
        PromoteCheck, PromoteRead, PromoteMove, AuditRead, AuditWrite, LogRead,
        LogWrite, RefreshExists, RefreshRead, RefreshUpsert, RefreshDelete,
        Fail, NoFault, ReadOrEmpty
  <2>2. QED
    BY <1>2, <2>1 DEF vars
<1>4. QED
  BY <1>1, <1>2, <1>3 DEF Still

LEMMA SpecStill ==
  ASSUME Alone
  PROVE  Spec => []Still
<1>1. Init => Still
  BY DEF Alone, Init, Still
<1>2. Typed /\ Still /\ [Next]_vars => Still'
  BY StillStep
<1>3. QED
  BY <1>1, <1>2, SpecTyped, PTL DEF Spec

\* While one call has the loop, another can only be read for or refused.
LEMMA OnlyOne ==
  ASSUME Alone, Typed, NEW r \in Requests, Steps(r), NEW q \in Requests \ {r},
         Served(q), OnLoop(q)
  PROVE  UNCHANGED world /\ ~Served(r) /\ ~Served(r)'
<1>1. Proc(q) \in Procs /\ running[Proc(q)] = q
  BY DEF Typed, CallsReady, OnLoop
<1>2. ~Served(r) /\ ~Served(r)'
  BY <1>1, StepFacts, NullsAssumption DEF Alone, StepOf, UsesLoop
<1>3. ~Serve(r)
  BY <1>2
  DEF Served, Serve, Suspend, Waiting, Recheck, Replace, PromoteCheck,
      PromoteRead, PromoteMove, AuditRead, AuditWrite, LogRead, LogWrite,
      RefreshExists, RefreshRead, RefreshUpsert, RefreshDelete, Fail, Working
<1>4. UNCHANGED world
  BY <1>3
  DEF Steps, Reads, ReadNote, Submit, SubmitWrite, SubmitEdit, Refuse,
      SubmitCreate, SubmitPromote
<1>5. QED
  BY <1>2, <1>4

LEMMA OneRecorder ==
  ASSUME Alone, Typed, WorkingHasLoop, RecordsWithLoop,
         NEW r \in Requests, NEW q \in Requests,
         pc[r] \in Unsaid \cup Working, pc[q] \in Unsaid \cup Working
  PROVE  r = q
<1>1. OnLoop(r) /\ OnLoop(q)
  BY DEF WorkingHasLoop, RecordsWithLoop, Unsaid, Working
<1>2. Proc(r) \in Procs /\ Proc(q) \in Procs
  BY DEF Typed, CallsReady, Served, Unsaid, Working
<1>3. QED
  BY <1>1, <1>2 DEF Alone, OnLoop

\* What an event says of its call does not change any more.
LEMMA SaidIsFixed ==
  ASSUME Typed, NEW r \in Requests, Steps(r), NEW q \in Requests,
         pc[q] \in Unsaid \cup Said \cup {"done"}
  PROVE  call'[q] = call[q] /\ plan'[q] = plan[q]
<1>1. CASE q = r
  <2>1. Serve(r)
    BY <1>1
    DEF Steps, Reads, ReadNote, Submit, SubmitWrite, SubmitEdit, Refuse,
        SubmitCreate, SubmitPromote, Unsaid, Said, Refreshing
  <2>2. UNCHANGED <<call, plan>>
    BY <1>1, <2>1
    DEF Serve, Suspend, Recheck, Replace, PromoteCheck, PromoteRead,
        PromoteMove, AuditRead, AuditWrite, LogRead, LogWrite, RefreshExists,
        RefreshRead, RefreshUpsert, RefreshDelete, Fail, client, Unsaid, Said,
        Refreshing
  <2>3. QED
    BY <2>2
<1>2. CASE q # r
  BY <1>2, StepFacts DEF StepOf, OthersStay, OthersKeep
<1>3. QED
  BY <1>1, <1>2

\* Only these steps change the vault, the audit or the index.
LEMMA WorldSteps ==
  ASSUME NEW r \in Requests, Steps(r)
  PROVE  \/ Replace(r)
         \/ PromoteMove(r) /\ fs[Path(r)] # Absent
         \/ AuditWrite(r)
         \/ LogWrite(r)
         \/ RefreshUpsert(r)
         \/ RefreshDelete(r)
         \/ UNCHANGED world
<1>1. CASE Reads(r)
  BY <1>1 DEF Reads, ReadNote
<1>2. CASE \E p \in Procs : Submit(p, r)
  BY <1>2
  DEF Submit, SubmitWrite, SubmitEdit, Refuse, SubmitCreate, SubmitPromote
<1>3. CASE PromoteMove(r)
  BY <1>3 DEF PromoteMove, world
<1>4. CASE \/ Suspend(r) \/ Recheck(r) \/ PromoteCheck(r) \/ PromoteRead(r)
           \/ AuditRead(r) \/ LogRead(r) \/ RefreshExists(r) \/ RefreshRead(r)
           \/ Fail(r)
  BY <1>4
  DEF Suspend, Recheck, PromoteCheck, PromoteRead, AuditRead, LogRead,
      RefreshExists, RefreshRead, Fail
<1>5. QED
  BY <1>1, <1>2, <1>3, <1>4 DEF Steps, Serve

\* A call becomes Unsaid by changing its note.
LEMMA UnsaidSteps ==
  ASSUME Typed, NEW r \in Requests, Steps(r), pc'[r] \in Unsaid
  PROVE  Replace(r) \/ (PromoteMove(r) /\ fs[Path(r)] # Absent) \/ pc[r] = "audit"
<1> USE DEF Typed, ControlTyped, Unsaid, Goto, Return
<1>1. CASE Reads(r)
  BY <1>1 DEF Reads, ReadNote
<1>2. CASE \E p \in Procs : Submit(p, r)
  BY <1>2
  DEF Submit, SubmitWrite, SubmitEdit, Refuse, SubmitCreate, SubmitPromote
<1>3. CASE Serve(r)
  BY <1>3
  DEF Serve, Suspend, Waiting, Recheck, PromoteCheck, PromoteRead, PromoteMove,
      AuditRead, AuditWrite, LogRead, LogWrite, RefreshExists, RefreshRead,
      RefreshUpsert, RefreshDelete, Fail
<1>4. QED
  BY <1>1, <1>2, <1>3 DEF Steps

\* Without errors it stays Unsaid until its event is written.
LEMMA UnsaidStays ==
  ASSUME Typed, ~Fault, NEW r \in Requests, Steps(r), pc[r] \in Unsaid,
         ~AuditWrite(r)
  PROVE  pc'[r] \in Unsaid
<1> USE DEF Typed, ControlTyped, Unsaid, Goto
<1>1. Suspend(r) \/ AuditRead(r)
  BY DEF Steps, Reads, ReadNote, Submit, SubmitWrite, SubmitEdit, Refuse,
         SubmitCreate, SubmitPromote, Serve, Recheck, Replace, PromoteCheck,
         PromoteRead, PromoteMove, LogRead, LogWrite, RefreshExists,
         RefreshRead, RefreshUpsert, RefreshDelete, Fail
<1>2. QED
  BY <1>1 DEF Suspend, AuditRead

-----------------------------------------------------------------------------
(* The audit explains the vault *)

About(n) == {i \in DOMAIN trail : n \in Touches(trail[i])}

Explained(n) ==
  \/ About(n) = {} /\ writer[n] = Sync
  \/ \E i \in About(n) : /\ \A j \in About(n) : j <= i
                         /\ fs[n] = Effect(trail[i], n)

\* Either the last event about a note explains it, or the call that is about to
\* record its event does.
Explanation ==
  \A n \in Notes :
    /\ (\A r \in Requests : n \in Touches(r) => pc[r] \notin Unsaid) => Explained(n)
    /\ \A r \in Requests :
         n \in Touches(r) /\ pc[r] \in Unsaid => fs[n] = Effect(r, n)

\* What a promotion moves is what it has read.
MoveReady == \A r \in Requests : pc[r] = "pmove" => plan[r] = fs[Path(r)]

LEMMA MoveReadyStep ==
  ASSUME Alone
  PROVE  Typed /\ WorkingHasLoop /\ Still /\ MoveReady /\ [Next]_vars => MoveReady'
<1> SUFFICES ASSUME Typed, WorkingHasLoop, Still, MoveReady, [Next]_vars,
                    NEW q \in Requests, pc'[q] = "pmove"
             PROVE  plan'[q] = fs'[Path(q)']
  BY DEF MoveReady
<1>1. ASSUME NEW r \in Requests, Steps(r)
      PROVE  plan'[q] = fs'[Path(q)']
  <2>1. CASE q = r
    <3>1. PromoteRead(r)
      <4> USE DEF Typed, ControlTyped, Goto, Return
      <4>1. CASE Reads(r)
        BY <2>1, <4>1 DEF Reads, ReadNote
      <4>2. CASE \E p \in Procs : Submit(p, r)
        BY <2>1, <4>2
        DEF Submit, SubmitWrite, SubmitEdit, Refuse, SubmitCreate, SubmitPromote
      <4>3. CASE Serve(r)
        BY <2>1, <4>3
        DEF Serve, Suspend, Waiting, Recheck, Replace, PromoteCheck, PromoteMove,
            AuditRead, AuditWrite, LogRead, LogWrite, RefreshExists,
            RefreshRead, RefreshUpsert, RefreshDelete, Fail
      <4>4. QED
        BY <1>1, <4>1, <4>2, <4>3 DEF Steps
    <3>2. QED
      BY <2>1, <3>1
      DEF PromoteRead, Goto, Return, Typed, ControlTyped, CallsTyped, Path, world
  <2>2. CASE q # r
    <3>1. /\ pc[q] = "pmove" /\ plan'[q] = plan[q] /\ Path(q)' = Path(q)
          /\ OnLoop(q) /\ Served(q)
      BY <1>1, <2>2, StepFacts
      DEF StepOf, OthersStay, OthersKeep, Path, WorkingHasLoop, Working, Served
    <3>2. UNCHANGED world
      BY <1>1, <2>2, <3>1, OnlyOne
    <3>3. QED
      BY <3>1, <3>2 DEF MoveReady, world
  <2>3. QED
    BY <2>1, <2>2
<1>2. CASE UNCHANGED vars
  BY <1>2 DEF vars, MoveReady, Path
<1>3. QED
  BY <1>1, <1>2, StillStep

LEMMA ExplainedStays ==
  ASSUME Typed, EventsOnce, NEW r \in Requests, Steps(r), NEW n \in Notes,
         trail' = trail, fs'[n] = fs[n], writer'[n] = writer[n], Explained(n)
  PROVE  Explained(n)'
<1>1. \A i \in DOMAIN trail :
        /\ call'[trail[i]] = call[trail[i]]
        /\ plan'[trail[i]] = plan[trail[i]]
  BY SaidIsFixed DEF Typed, VaultTyped, EventsOnce, Spoken, In
<1>2. /\ About(n)' = About(n)
      /\ \A i \in DOMAIN trail : Effect(trail[i], n)' = Effect(trail[i], n)
  BY <1>1 DEF About, Touches, Effect, Promotes, Path
<1>3. QED
  BY <1>2 DEF Explained, About

LEMMA ExplainsReplaced ==
  ASSUME Alone, Typed, CallsFit, WorkingHasLoop, RecordsWithLoop, EventsOnce,
         Explanation, MoveReady, NEW r \in Requests, Steps(r),
         Replace(r) \/ (PromoteMove(r) /\ fs[Path(r)] # Absent)
  PROVE  Explanation'
<1>1. /\ pc[r] \in {"replace", "pmove"} /\ pc'[r] = "audit"
      /\ trail' = trail /\ UNCHANGED client
  BY DEF Replace, PromoteMove, Goto, Typed, ControlTyped
<1>2. \A q \in Requests : pc[q] \notin Unsaid
  BY <1>1, OneRecorder DEF Working, Unsaid
<1>3. \A q \in Requests : pc'[q] \in Unsaid => q = r
  BY <1>1, <1>2, StepFacts DEF StepOf, OthersStay
<1>4. \A q \in Requests : Touches(q)' = Touches(q)
  BY <1>1 DEF Touches, Promotes, Path, client
<1> SUFFICES ASSUME NEW n \in Notes
             PROVE  /\ n \in Touches(r) => fs'[n] = Effect(r, n)'
                    /\ n \notin Touches(r) => Explained(n)'
  BY <1>1, <1>3, <1>4 DEF Explanation, Unsaid
<1>5. n \in Files /\ Path(r) \in Files /\ call[r].dst \in Files
  BY DEF Files, Typed, CallsTyped, Path
<1>6. CASE n \in Touches(r)
  <2>1. CASE Replace(r)
    BY <1>5, <1>6, <2>1
    DEF Replace, Touches, Effect, Promotes, Path, CallsFit, Fitting, client,
        Typed, VaultTyped
  <2>2. CASE PromoteMove(r) /\ fs[Path(r)] # Absent
    <3>1. /\ Promotes(r) /\ Path(r) # call[r].dst /\ plan[r] = fs[Path(r)]
          /\ fs' = [fs EXCEPT ![call[r].dst] = fs[Path(r)], ![Path(r)] = Absent]
          /\ UNCHANGED client
      BY <1>1, <2>2 DEF PromoteMove, CallsFit, Fitting, MoveReady
    <3>2. QED
      BY <1>5, <1>6, <3>1
      DEF Touches, Effect, Promotes, Path, client, Typed, VaultTyped
  <2>3. QED
    BY <2>1, <2>2
<1>7. CASE n \notin Touches(r)
  <2>1. fs'[n] = fs[n] /\ writer'[n] = writer[n]
    BY <1>1, <1>5, <1>7
    DEF Replace, PromoteMove, Touches, Promotes, Path, CallsFit, Fitting, Typed,
        VaultTyped
  <2>2. Explained(n)
    BY <1>2 DEF Explanation
  <2>3. QED
    BY <1>1, <1>7, <2>1, <2>2, ExplainedStays
<1>8. QED
  BY <1>6, <1>7

LEMMA ExplainsRecorded ==
  ASSUME Alone, Typed, CallsFit, WorkingHasLoop, RecordsWithLoop, EventsOnce,
         AuditFresh, Explanation, NEW r \in Requests, Steps(r), AuditWrite(r)
  PROVE  Explanation'
<1>1. /\ pc[r] = "awrite" /\ pc'[r] = "log" /\ trail' = Append(trail, r)
      /\ UNCHANGED <<fs, writer, client>>
  BY DEF AuditWrite, Goto, Typed, ControlTyped, AuditFresh, Alone, Several
<1>2. \A q \in Requests : pc'[q] \notin Unsaid
  <2>1. \A q \in Requests \ {r} : pc[q] \notin Unsaid
    BY <1>1, OneRecorder DEF Working, Unsaid
  <2>2. QED
    BY <1>1, <2>1, StepFacts DEF StepOf, OthersStay, Unsaid
<1>3. \A q \in Requests : Touches(q)' = Touches(q)
  BY <1>1 DEF Touches, Promotes, Path, client
<1>4. \A n \in Notes, q \in Requests : Effect(q, n)' = Effect(q, n)
  BY <1>1 DEF Effect, Promotes, Path, client
<1>5. /\ trail \in Seq(Requests)
      /\ Len(trail) \in Nat
      /\ DOMAIN trail' = DOMAIN trail \cup {Len(trail) + 1}
      /\ trail'[Len(trail) + 1] = r
      /\ \A i \in DOMAIN trail : i \in 1 .. Len(trail) /\ trail'[i] = trail[i]
      /\ \A i \in DOMAIN trail : trail[i] \in Requests
  BY <1>1, InAppend DEF Typed, VaultTyped
<1> SUFFICES ASSUME NEW n \in Notes
             PROVE  Explained(n)'
  BY <1>2 DEF Explanation
<1>6. CASE n \in Touches(r)
  <2>1. About(n)' = About(n) \cup {Len(trail) + 1}
    BY <1>3, <1>5, <1>6 DEF About
  <2>2. \A j \in About(n)' : j <= Len(trail) + 1
    BY <1>5, <2>1 DEF About
  <2>3. fs'[n] = Effect(r, n)'
    BY <1>1, <1>4, <1>6 DEF Explanation, Unsaid
  <2>4. Len(trail) + 1 \in About(n)' /\ trail'[Len(trail) + 1] = r
    BY <1>5, <2>1
  <2>5. QED
    BY <2>2, <2>3, <2>4 DEF Explained
<1>7. CASE n \notin Touches(r)
  <2>1. About(n)' = About(n)
    BY <1>3, <1>5, <1>7 DEF About
  <2>2. Explained(n)
    <3>1. \A q \in Requests : n \in Touches(q) => pc[q] \notin Unsaid
      BY <1>1, <1>7, OneRecorder DEF Working, Unsaid
    <3>2. QED
      BY <3>1 DEF Explanation
  <2>3. \A i \in About(n) : Effect(trail[i], n)' = Effect(trail[i], n)
    BY <1>4, <1>5 DEF About
  <2>4. QED
    BY <1>1, <2>1, <2>2, <2>3 DEF Explained
<1>8. QED
  BY <1>6, <1>7

LEMMA ExplainsStep ==
  ASSUME Alone
  PROVE  Typed /\ CallsFit /\ WorkingHasLoop /\ RecordsWithLoop /\ EventsOnce
           /\ AuditFresh /\ Still /\ MoveReady /\ Explanation /\ [Next]_vars
           => Explanation'
<1> SUFFICES ASSUME Typed, CallsFit, WorkingHasLoop, RecordsWithLoop, EventsOnce,
                    AuditFresh, Still, MoveReady, Explanation, [Next]_vars
             PROVE  Explanation'
  OBVIOUS
<1>1. ASSUME NEW r \in Requests, Steps(r)
      PROVE  Explanation'
  <2>1. CASE Replace(r) \/ (PromoteMove(r) /\ fs[Path(r)] # Absent)
    BY <1>1, <2>1, ExplainsReplaced
  <2>2. CASE AuditWrite(r)
    BY <1>1, <2>2, ExplainsRecorded
  <2>3. CASE /\ ~(Replace(r) \/ (PromoteMove(r) /\ fs[Path(r)] # Absent))
             /\ ~AuditWrite(r)
    <3>1. /\ trail' = trail
          /\ \A n \in Notes : fs'[n] = fs[n] /\ writer'[n] = writer[n]
      <4>1. \A n \in Notes : n \in Files /\ n # Log
        BY FilesAssumption DEF Files
      <4>2. QED
        BY <1>1, <2>3, <4>1, WorldSteps
        DEF LogWrite, RefreshUpsert, RefreshDelete, world, Typed, VaultTyped
    <3>2. \A q \in Requests : pc'[q] \in Unsaid =>
            /\ pc[q] \in Unsaid
            /\ call'[q] = call[q] /\ plan'[q] = plan[q]
      <4>1. ASSUME NEW q \in Requests, pc'[q] \in Unsaid
            PROVE  pc[q] \in Unsaid
        BY <1>1, <2>3, <4>1, UnsaidSteps, StepFacts
        DEF StepOf, OthersStay, Unsaid
      <4>2. QED
        BY <1>1, <4>1, SaidIsFixed
    <3>3. ASSUME NEW n \in Notes, NEW q \in Requests, n \in Touches(q)',
                 pc'[q] \in Unsaid
          PROVE  fs'[n] = Effect(q, n)'
      BY <3>1, <3>2, <3>3 DEF Explanation, Touches, Effect, Promotes, Path
    <3>4. ASSUME NEW n \in Notes,
                 \A q \in Requests : n \in Touches(q)' => pc'[q] \notin Unsaid
          PROVE  Explained(n)'
      <4>1. ASSUME NEW q \in Requests, n \in Touches(q), pc[q] \in Unsaid
            PROVE  FALSE
        <5>1. n \in Touches(q)'
          BY <1>1, <4>1, SaidIsFixed DEF Touches, Promotes, Path
        <5>2. pc'[q] \notin Unsaid
          BY <3>4, <5>1
        <5>3. CASE q # r
          BY <1>1, <4>1, <5>2, <5>3, StepFacts DEF StepOf, OthersStay
        <5>4. CASE q = r
          BY <1>1, <2>3, <4>1, <5>2, <5>4, UnsaidStays, StillStep
        <5>5. QED
          BY <5>3, <5>4
      <4>2. Explained(n)
        BY <4>1 DEF Explanation
      <4>3. QED
        BY <1>1, <3>1, <4>2, ExplainedStays
    <3>5. QED
      BY <3>3, <3>4 DEF Explanation
  <2>4. QED
    BY <2>1, <2>2, <2>3
<1>2. CASE UNCHANGED vars
  BY <1>2
  DEF vars, Explanation, Explained, About, Touches, Effect, Promotes, Path
<1>3. QED
  BY <1>1, <1>2, StillStep

LEMMA SpecExplains ==
  ASSUME Alone
  PROVE  Spec => [](MoveReady /\ Explanation)
<1>1. Init => MoveReady /\ Explanation
  BY DEF Init, MoveReady, Explanation, Explained, About, Unsaid, Files
<1>2. QED
  BY <1>1, MoveReadyStep, ExplainsStep, SpecTyped, SpecFits, LoopExclusion,
     SpecRecords, SpecEvents, SpecUndisturbed, SpecStill, PTL
  DEF Spec, Undisturbed

\* When one server is alone with the vault and nothing fails, each note holds
\* what the last event about it says, and a note without events is as the owner
\* left it, whichever calls ran against one another (mutation_service.py,
\* draft_promotion_service.py, audit_log.py).
THEOREM AuditTellsVault ==
  ASSUME Alone
  PROVE  Spec => []AuditExplainsVault
<1>1. Typed /\ Explanation => AuditExplainsVault
  <2> SUFFICES ASSUME Typed, Explanation, NEW n \in Notes,
                      \A r \in Requests :
                        n \in Touches(r) => pc[r] \notin {"audit", "awrite"}
               PROVE  IF About(n) = {}
                      THEN writer[n] = Sync
                      ELSE fs[n] = Effect(trail[CHOOSE i \in About(n) :
                                            \A j \in About(n) : j <= i], n)
    BY DEF AuditExplainsVault, About
  <2>1. Explained(n)
    BY DEF Explanation, Unsaid
  <2>2. CASE About(n) = {}
    BY <2>1, <2>2 DEF Explained
  <2>3. CASE About(n) # {}
    <3>1. PICK i \in About(n) : /\ \A j \in About(n) : j <= i
                                /\ fs[n] = Effect(trail[i], n)
      BY <2>1, <2>3 DEF Explained
    <3>2. About(n) \subseteq Nat
      BY DEF About, Typed, VaultTyped
    <3>3. (CHOOSE k \in About(n) : \A j \in About(n) : j <= k) = i
      BY <3>1, <3>2
    <3>4. QED
      BY <2>3, <3>1, <3>3
  <2>4. QED
    BY <2>2, <2>3
<1>2. QED
  BY <1>1, SpecTyped, SpecExplains, PTL

-----------------------------------------------------------------------------
(* LOG.md follows the audit *)

Telling == {"log", "lwrite"}
Lines   == IF fs[Log] = Absent THEN <<>> ELSE fs[Log]

\* LOG.md has the lines of the audit, but for that of the one call that is
\* between its event and its line.
LogFollows ==
  /\ (\A r \in Requests : pc[r] \notin Telling) => Lines = trail
  /\ \A r \in Requests :
       /\ pc[r] \in Telling => trail = Append(Lines, r)
       /\ pc[r] = "lwrite" => buf[r] = Lines

LEMMA OneTeller ==
  ASSUME Alone, Log \notin Sources, Typed, WorkingHasLoop, RecordsWithLoop,
         NEW r \in Requests, NEW q \in Requests,
         pc[r] \in Telling \cup Unsaid, pc[q] \in Telling \cup Unsaid
  PROVE  r = q
<1>1. OnLoop(r) /\ OnLoop(q)
  BY DEF WorkingHasLoop, RecordsWithLoop, Unsaid, Telling, Working
<1>2. Proc(r) \in Procs /\ Proc(q) \in Procs
  BY DEF Typed, CallsReady, Served, Unsaid, Telling
<1>3. QED
  BY <1>1, <1>2 DEF Alone, OnLoop

LEMMA TellingSteps ==
  ASSUME Typed, ~Fault, NEW r \in Requests, Steps(r), ~AuditWrite(r), ~LogRead(r),
         ~LogWrite(r), pc[r] \in Telling \/ pc'[r] \in Telling
  PROVE  pc'[r] = pc[r] /\ buf' = buf
<1> USE DEF Typed, ControlTyped, Telling, Goto, Return
<1>1. Suspend(r)
  <2>1. CASE Reads(r)
    BY <2>1 DEF Reads, ReadNote
  <2>2. CASE \E p \in Procs : Submit(p, r)
    BY <2>2
    DEF Submit, SubmitWrite, SubmitEdit, Refuse, SubmitCreate, SubmitPromote
  <2>3. CASE Serve(r)
    BY <2>3
    DEF Serve, Recheck, Replace, PromoteCheck, PromoteRead, PromoteMove,
        AuditRead, RefreshExists, RefreshRead, RefreshUpsert, RefreshDelete,
        Fail
  <2>4. QED
    BY <2>1, <2>2, <2>3 DEF Steps
<1>2. QED
  BY <1>1 DEF Suspend

\* Only the projection writes LOG.md when no call names it.
LEMMA LogIsOurs ==
  ASSUME Log \notin Targets, Log \notin Sources, Typed, CallsFit,
         NEW r \in Requests, Steps(r), ~LogWrite(r)
  PROVE  fs'[Log] = fs[Log]
<1>1. Log \in Files /\ Log \notin Notes
  BY KeysTyped, FilesAssumption
<1>2. CASE Replace(r)
  BY <1>1, <1>2 DEF Replace, CallsFit, Fitting, Typed, VaultTyped
<1>3. CASE PromoteMove(r) /\ fs[Path(r)] # Absent
  BY <1>1, <1>3 DEF PromoteMove, CallsFit, Fitting, Typed, VaultTyped
<1>4. CASE fs' = fs
  BY <1>4
<1>5. QED
  BY <1>2, <1>3, <1>4, WorldSteps
  DEF AuditWrite, RefreshUpsert, RefreshDelete, world

LEMMA LogStep ==
  ASSUME Alone, Log \notin Targets, Log \notin Sources
  PROVE  Typed /\ CallsFit /\ WorkingHasLoop /\ RecordsWithLoop /\ AuditFresh
           /\ Still /\ LogFollows /\ [Next]_vars => LogFollows'
<1> SUFFICES ASSUME Typed, CallsFit, WorkingHasLoop, RecordsWithLoop, AuditFresh,
                    Still, LogFollows, [Next]_vars
             PROVE  LogFollows'
  OBVIOUS
<1>1. ASSUME NEW r \in Requests, Steps(r)
      PROVE  LogFollows'
  <2>1. \A q \in Requests \ {r} : pc'[q] = pc[q] /\ buf'[q] = buf[q]
    BY <1>1, StepFacts DEF StepOf, OthersStay
  <2>2. CASE AuditWrite(r)
    <3>1. /\ pc[r] = "awrite" /\ pc'[r] = "log" /\ trail' = Append(trail, r)
          /\ fs' = fs
      BY <2>2
      DEF AuditWrite, Goto, Typed, ControlTyped, AuditFresh, Alone, Several
    <3>2. \A q \in Requests \ {r} : pc[q] \notin Telling
      BY <3>1, OneTeller DEF Telling, Unsaid
    <3>3. Lines = trail /\ Lines' = Lines
      BY <3>1, <3>2 DEF LogFollows, Telling, Lines
    <3>4. QED
      BY <2>1, <3>1, <3>2, <3>3 DEF LogFollows, Telling
  <2>3. CASE LogRead(r)
    <3>1. /\ pc[r] = "log" /\ pc'[r] = "lwrite" /\ UNCHANGED <<fs, trail>>
      BY <2>3 DEF LogRead, Goto, Typed, ControlTyped, world
    <3>2. buf'[r] = Lines
      BY <1>1, <2>3, StillStep
      DEF LogRead, ReadOrEmpty, Lines, Typed, CallsTyped
    <3>3. \A q \in Requests \ {r} : pc[q] \notin Telling
      BY <3>1, OneTeller DEF Telling
    <3>4. QED
      BY <2>1, <3>1, <3>2, <3>3 DEF LogFollows, Telling, Lines
  <2>4. CASE LogWrite(r)
    <3>1. /\ pc[r] = "lwrite" /\ pc'[r] \notin Telling /\ trail' = trail
          /\ fs'[Log] = Append(buf[r], r)
      BY <2>4, KeysTyped
      DEF LogWrite, Goto, Return, Typed, ControlTyped, VaultTyped, Telling
    <3>2. \A q \in Requests \ {r} : pc[q] \notin Telling
      BY <3>1, OneTeller DEF Telling
    <3>3. fs'[Log] = trail /\ fs'[Log] # Absent
      BY <3>1, ContentsClosed
      DEF LogFollows, Telling, Typed, VaultTyped
    <3>4. QED
      BY <2>1, <3>1, <3>2, <3>3 DEF LogFollows, Lines, Telling
  <2>5. CASE ~AuditWrite(r) /\ ~LogRead(r) /\ ~LogWrite(r)
    <3>1. trail' = trail /\ Lines' = Lines
      BY <1>1, <2>5, Onward, LogIsOurs DEF Lines
    <3>2. \A q \in Requests : pc[q] \in Telling \/ pc'[q] \in Telling =>
            pc'[q] = pc[q] /\ buf'[q] = buf[q]
      BY <1>1, <2>1, <2>5, TellingSteps, StillStep
    <3>3. QED
      BY <3>1, <3>2 DEF LogFollows, Telling
  <2>6. QED
    BY <2>2, <2>3, <2>4, <2>5
<1>2. CASE UNCHANGED vars
  BY <1>2 DEF vars, LogFollows, Lines
<1>3. QED
  BY <1>1, <1>2, StillStep

\* When one server is alone with the vault, no tool call names LOG.md and
\* nothing fails, LOG.md has the events of the audit in their order, less at
\* most the last one (audit_log.py, update_log_projection).
THEOREM LogTellsAudit ==
  ASSUME Alone, Log \notin Targets, Log \notin Sources
  PROVE  Spec => []ProjectionFollowsAudit
<1>1. Init => LogFollows
  BY DEF Init, LogFollows, Lines, Telling
<1>2. Typed /\ LogFollows => ProjectionFollowsAudit
  <2> SUFFICES ASSUME Typed, LogFollows
               PROVE  /\ Len(Lines) \in {Len(trail), Len(trail) - 1}
                      /\ \A i \in DOMAIN Lines : Lines[i] = trail[i]
    BY DEF ProjectionFollowsAudit, Lines
  <2>1. CASE Lines = trail
    BY <2>1
  <2>2. CASE Lines # trail
    <3>1. PICK r \in Requests : trail = Append(Lines, r)
      BY <2>2 DEF LogFollows
    <3>2. Lines \in Contents
      BY ContentsClosed, KeysTyped DEF Lines, Typed, VaultTyped
    <3>3. /\ Len(trail) = Len(Lines) + 1
          /\ Len(Lines) \in Nat
          /\ \A i \in DOMAIN Lines : trail[i] = Lines[i]
      BY <3>1, <3>2, InAppend, AppendProperties DEF Contents
    <3>4. QED
      BY <3>3
  <2>3. QED
    BY <2>1, <2>2
<1>3. QED
  BY <1>1, <1>2, LogStep, SpecTyped, SpecFits, LoopExclusion, SpecRecords,
     SpecUndisturbed, SpecStill, PTL
  DEF Spec, Undisturbed

-----------------------------------------------------------------------------
(* The index follows the vault *)

\* What a refresh has seen of its note is still so when it acts on it.
RefreshView ==
  \A r \in Requests :
    /\ pc[r] = "rread" => fs[Path(r)] # Absent
    /\ pc[r] = "rupsert" => buf[r] = fs[Path(r)]
    /\ pc[r] = "rdelete" => fs[Path(r)] = Absent

\* A row that is not the note has a call that will refresh it, or a promotion
\* that has not.
Indexed ==
  \A n \in Notes :
    \/ index[n] = fs[n]
    \/ \E r \in Requests :
         n \in Touches(r) /\ (Promotes(r) \/ pc[r] \in Unsaid \cup Said)

LEMMA RefreshViewStep ==
  ASSUME Alone
  PROVE  Typed /\ WorkingHasLoop /\ Still /\ RefreshView /\ [Next]_vars
           => RefreshView'
<1> SUFFICES ASSUME Typed, WorkingHasLoop, Still, RefreshView, [Next]_vars,
                    NEW q \in Requests, pc'[q] \in {"rread", "rupsert", "rdelete"}
             PROVE  /\ pc'[q] = "rread" => fs'[Path(q)'] # Absent
                    /\ pc'[q] = "rupsert" => buf'[q] = fs'[Path(q)']
                    /\ pc'[q] = "rdelete" => fs'[Path(q)'] = Absent
  BY DEF RefreshView
<1>1. ASSUME NEW r \in Requests, Steps(r)
      PROVE  /\ pc'[q] = "rread" => fs'[Path(q)'] # Absent
             /\ pc'[q] = "rupsert" => buf'[q] = fs'[Path(q)']
             /\ pc'[q] = "rdelete" => fs'[Path(q)'] = Absent
  <2>1. CASE q = r
    <3>1. RefreshExists(r) \/ RefreshRead(r)
      <4> USE DEF Typed, ControlTyped, Goto, Return
      <4>1. CASE Reads(r)
        BY <2>1, <4>1 DEF Reads, ReadNote
      <4>2. CASE \E p \in Procs : Submit(p, r)
        BY <2>1, <4>2
        DEF Submit, SubmitWrite, SubmitEdit, Refuse, SubmitCreate, SubmitPromote
      <4>3. CASE Serve(r)
        BY <2>1, <4>3
        DEF Serve, Suspend, Waiting, Recheck, Replace, PromoteCheck, PromoteRead,
            PromoteMove, AuditRead, AuditWrite, LogRead, LogWrite,
            RefreshUpsert, RefreshDelete, Fail
      <4>4. QED
        BY <1>1, <4>1, <4>2, <4>3 DEF Steps
    <3>2. ~Fault
      BY StillStep
    <3>3. QED
      BY <2>1, <3>1, <3>2
      DEF RefreshExists, RefreshRead, Goto, Return, Typed, ControlTyped,
          CallsTyped, Path, world, client
  <2>2. CASE q # r
    <3>1. /\ pc[q] = pc'[q] /\ buf'[q] = buf[q] /\ Path(q)' = Path(q)
          /\ OnLoop(q) /\ Served(q)
      BY <1>1, <2>2, StepFacts
      DEF StepOf, OthersStay, Path, WorkingHasLoop, Working, Served
    <3>2. UNCHANGED world
      BY <1>1, <2>2, <3>1, OnlyOne
    <3>3. QED
      BY <3>1, <3>2 DEF RefreshView, world
  <2>3. QED
    BY <2>1, <2>2
<1>2. CASE UNCHANGED vars
  BY <1>2 DEF vars, RefreshView, Path
<1>3. QED
  BY <1>1, <1>2, StillStep

\* A promotion keeps its arguments.
LEMMA PromotesStays ==
  ASSUME Typed, CallsFit, NEW r \in Requests, Steps(r), Promotes(r)
  PROVE  call'[r] = call[r]
<1>1. Serve(r)
  BY DEF Steps, Reads, ReadNote, Submit, SubmitWrite, SubmitEdit, Refuse,
         SubmitCreate, SubmitPromote, CallsFit, Fitting, NoCall, Promotes, client
<1>2. QED
  BY <1>1
  DEF Serve, Suspend, Recheck, Replace, PromoteCheck, PromoteRead, PromoteMove,
      AuditRead, AuditWrite, LogRead, LogWrite, RefreshExists, RefreshRead,
      RefreshUpsert, RefreshDelete, Fail, client

\* A call that has changed its note goes on until its row is the note.
LEMMA RowIsNote ==
  ASSUME Typed, CallsFit, ~Fault, RefreshView, NEW r \in Requests, Steps(r),
         ~Promotes(r), pc[r] \in Unsaid \cup Said
  PROVE  \/ pc'[r] \in Unsaid \cup Said
         \/ index'[Path(r)] = fs'[Path(r)]
<1> USE DEF Typed, ControlTyped, VaultTyped, CallsTyped, Unsaid, Said, Refreshing,
            Goto, Return, Path
<1>1. Serve(r)
  BY DEF Steps, Reads, ReadNote, Submit, SubmitWrite, SubmitEdit, Refuse,
         SubmitCreate, SubmitPromote
<1>2. CASE Suspend(r) \/ AuditRead(r) \/ AuditWrite(r) \/ LogRead(r)
  BY <1>2 DEF Suspend, AuditRead, AuditWrite, LogRead
<1>3. CASE LogWrite(r)
  BY <1>3 DEF LogWrite, Promotes
<1>4. CASE RefreshExists(r) \/ RefreshRead(r)
  BY <1>4 DEF RefreshExists, RefreshRead, RefreshView
<1>5. CASE RefreshUpsert(r) \/ RefreshDelete(r)
  BY <1>5 DEF RefreshUpsert, RefreshDelete, RefreshView
<1>6. QED
  BY <1>1, <1>2, <1>3, <1>4, <1>5
  DEF Serve, Recheck, Replace, PromoteCheck, PromoteRead, PromoteMove, Fail

LEMMA IndexedStep ==
  Typed /\ CallsFit /\ Still /\ RefreshView /\ Indexed /\ [Next]_vars => Indexed'
<1> SUFFICES ASSUME Typed, CallsFit, Still, RefreshView, Indexed, [Next]_vars,
                    NEW n \in Notes
             PROVE  \/ index'[n] = fs'[n]
                    \/ \E q \in Requests :
                         /\ n \in Touches(q)'
                         /\ Promotes(q)' \/ pc'[q] \in Unsaid \cup Said
  BY DEF Indexed
<1>0. n \in Files /\ n # Log
  BY FilesAssumption DEF Files
<1>1. ASSUME NEW r \in Requests, Steps(r)
      PROVE  \/ index'[n] = fs'[n]
             \/ \E q \in Requests :
                  /\ n \in Touches(q)'
                  /\ Promotes(q)' \/ pc'[q] \in Unsaid \cup Said
  <2>1. ASSUME NEW q \in Requests, n \in Touches(q),
               Promotes(q) \/ pc[q] \in Unsaid \cup Said
        PROVE  \/ index'[n] = fs'[n]
               \/ /\ n \in Touches(q)'
                  /\ Promotes(q)' \/ pc'[q] \in Unsaid \cup Said
    <3>1. call'[q] = call[q]
      BY <1>1, <2>1, PromotesStays, SaidIsFixed, StepFacts
      DEF StepOf, OthersStay
    <3>2. Touches(q)' = Touches(q) /\ Promotes(q)' = Promotes(q)
      BY <3>1 DEF Touches, Promotes, Path
    <3>3. CASE q # r \/ Promotes(q)
      BY <1>1, <2>1, <3>2, <3>3, StepFacts DEF StepOf, OthersStay
    <3>4. CASE q = r /\ ~Promotes(r)
      BY <1>1, <2>1, <3>2, <3>4, RowIsNote, StillStep DEF Touches
    <3>5. QED
      BY <3>3, <3>4
  <2>2. CASE index[n] = fs[n]
    <3>1. CASE Replace(r)
      <4>1. /\ pc'[r] \in Unsaid /\ ~Promotes(r) /\ call' = call /\ index' = index
            /\ n # Path(r) => fs'[n] = fs[n]
        BY <1>0, <3>1
        DEF Replace, Goto, Typed, ControlTyped, VaultTyped, CallsFit, Fitting,
            Promotes, client, Unsaid
      <4>2. QED
        BY <2>2, <4>1 DEF Touches, Promotes, Path
    <3>2. CASE PromoteMove(r) /\ fs[Path(r)] # Absent
      <4>1. /\ Promotes(r) /\ call' = call /\ index' = index
            /\ n \notin {Path(r), call[r].dst} => fs'[n] = fs[n]
        BY <1>0, <3>2
        DEF PromoteMove, Typed, VaultTyped, CallsFit, Fitting, client
      <4>2. QED
        BY <2>2, <4>1 DEF Touches, Promotes, Path
    <3>3. CASE LogWrite(r)
      BY <1>0, <2>2, <3>3 DEF LogWrite, Typed, VaultTyped
    <3>4. CASE RefreshUpsert(r) \/ RefreshDelete(r)
      BY <1>0, <2>2, <3>4
      DEF RefreshUpsert, RefreshDelete, RefreshView, Typed, VaultTyped
    <3>5. CASE AuditWrite(r) \/ UNCHANGED world
      BY <2>2, <3>5 DEF AuditWrite, world
    <3>6. QED
      BY <1>1, <3>1, <3>2, <3>3, <3>4, <3>5, WorldSteps
  <2>3. QED
    BY <2>1, <2>2 DEF Indexed
<1>2. CASE UNCHANGED vars
  BY <1>2 DEF vars, Indexed, Touches, Promotes, Path
<1>3. QED
  BY <1>1, <1>2, StillStep

\* When one server is alone with the vault and nothing fails, the row of a note
\* is the note as soon as the calls about it have returned, unless a promotion
\* was among them (server.py: refresh_paths(affected_paths) in each handler).
THEOREM IndexIsVault ==
  ASSUME Alone
  PROVE  Spec => []IndexFollowsVault
<1>1. Init => RefreshView /\ Indexed
  BY DEF Init, RefreshView, Indexed
<1>2. Indexed => IndexFollowsVault
  BY DEF Indexed, IndexFollowsVault, InFlight, Unsaid, Said, Refreshing, Waiting,
         Working
<1>3. QED
  BY <1>1, <1>2, RefreshViewStep, IndexedStep, SpecTyped, SpecFits,
     LoopExclusion, SpecStill, PTL
  DEF Spec

=============================================================================
