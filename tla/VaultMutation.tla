--------------------------- MODULE VaultMutation ---------------------------
(***************************************************************************)
(* The mutation pipeline of the memory MCP server: create_note,            *)
(* write_note, append_note / edit_note and promote_note, from the moment a *)
(* tool call reaches its handler until the handler returns.                *)
(*                                                                         *)
(* A process runs ONE asyncio event loop.  Its locks live in a dictionary  *)
(* of that process (concurrency._locks), so another process, and Obsidian  *)
(* sync, see none of them.  Every step below is one access to the shared   *)
(* file system or index; what a coroutine does between two of them is      *)
(* local.  A coroutine gives the loop up only where it waits for a lock    *)
(* somebody holds (Suspend): acquiring a free asyncio.Lock does not yield. *)
(*                                                                         *)
(* Content is a sequence of tokens, one per request (or Sync) that put     *)
(* text there; sha256 is taken to be injective, so a revision IS the       *)
(* content it was computed from.  create, write and edit calls stand for   *)
(* create_note, write_note and append_note / edit_note.                    *)
(***************************************************************************)
EXTENDS Naturals, Sequences, FiniteSets

CONSTANTS
  Procs,       \* server processes that share one vault
  Requests,    \* tool calls; each one is made at most once
  Notes,       \* vault-relative paths of ordinary notes
  Log,         \* LOG.md
  Audit,       \* .obsidian/audit.ndjson, kept in the variable trail
  Sync,        \* Obsidian sync, or any other program that writes the vault
  Absent,      \* no file, or no index row
  NoReq,       \* the event loop is free
  NoProc,      \* the call has not reached a process yet
  Targets,     \* paths that create, write and edit calls name
  Sources,     \* paths that promote calls name as source_path
  DryRuns,     \* values of dry_run that calls use
  MaxSync,     \* bound on changes made by Sync
  MaxFaults,   \* bound on I/O errors
  MaxCrashes   \* bound on process crashes

Files == Notes \cup {Log}

ASSUME FilesAssumption ==
  /\ Log \notin Notes
  /\ Audit \notin Notes \cup {Log}
  /\ Targets \subseteq Files
  /\ Sources \subseteq Files
  /\ DryRuns \subseteq BOOLEAN

ASSUME NullsAssumption ==
  /\ NoReq \notin Requests
  /\ NoProc \notin Procs
  /\ Sync \notin Procs \cup Requests
  /\ Absent \notin Seq(Requests \cup {Sync})
  /\ Absent \notin [note: Files, content: Seq(Requests \cup {Sync})]

ASSUME BoundsAssumption ==
  /\ MaxSync \in Nat
  /\ MaxFaults \in Nat
  /\ MaxCrashes \in Nat

Contents == Seq(Requests \cup {Sync})
Ops      == {"create", "write", "edit", "promote"}

\* Keys of concurrency._locks.  write, append and edit lock the path as the
\* caller spelled it; promote, the audit log and the LOG.md projection lock
\* str(Path(root) / path): one file has two keys.
RelKey(f) == <<"rel", f>>
AbsKey(f) == <<"abs", f>>
Keys      == {"rel", "abs"} \X (Files \cup {Audit})

\* Where a coroutine is: "lock", "plock", "audit" and "log" are the four
\* places where it awaits a lock.
Waiting  == {"lock", "plock", "audit", "log"}
Working  == {"replace", "psource", "pmove", "awrite", "lwrite",
             "rexists", "rread", "rupsert", "rdelete"}
Labels   == {"idle", "ready", "done"} \cup Waiting \cup Working
Outcomes == {"none", "ok", "planned", "conflict", "error", "crashed"}

VARIABLES
  (* the world the processes share *)
  fs,        \* the notes and LOG.md
  trail,     \* audit.ndjson: the requests whose event it holds, in order
  index,     \* notes / index_state / notes_fts rows of the SQLite index
  (* the processes *)
  running,   \* the coroutine on each event loop
  call,      \* the arguments of each call and the process that serves it
  pc,        \* where each call is
  rev,       \* expected_revision of each call
  plan,      \* the content a call is about to write (or has moved)
  buf,       \* what a coroutine read and has not used yet
  held,      \* locks each call holds, in the dictionary of its process
  outcome,   \* what the tool call returned
  (* history and environment *)
  writer,    \* who changed each file last: a process, or Sync
  env        \* what is left of the bounds

world  == <<fs, trail, index, writer>>
client == <<call, rev, plan>>
vars   == <<fs, trail, index, running, call, pc, rev, plan, buf, held,
            outcome, writer, env>>

NoCall == [op |-> "none", path |-> Log, dst |-> Log, dry |-> FALSE,
           proc |-> NoProc]

TypeOK ==
  /\ fs \in [Files -> Contents \cup {Absent}]
  /\ trail \in Seq(Requests)
  /\ index \in [Files -> Contents \cup {Absent}]
  /\ running \in [Procs -> Requests \cup {NoReq}]
  /\ call \in [Requests -> [op: Ops \cup {"none"}, path: Files, dst: Files,
                            dry: BOOLEAN, proc: Procs \cup {NoProc}]]
  /\ pc \in [Requests -> Labels]
  /\ rev \in [Requests -> Contents \cup {Absent}]
  /\ plan \in [Requests -> Contents]
  /\ buf \in [Requests -> Contents]
  /\ held \in [Requests -> SUBSET Keys]
  /\ outcome \in [Requests -> Outcomes]
  /\ writer \in [Files -> Procs \cup {Sync}]
  /\ env \in [syncs: Nat, faults: Nat, crashes: Nat]

\* A vault whose index is up to date (the server has reconciled it).
Init ==
  /\ fs \in [Files -> {Absent, <<Sync>>}]
  /\ fs[Log] = Absent
  /\ trail = <<>>
  /\ index = fs
  /\ running = [p \in Procs |-> NoReq]
  /\ call = [r \in Requests |-> NoCall]
  /\ pc = [r \in Requests |-> "idle"]
  /\ rev = [r \in Requests |-> Absent]
  /\ plan = [r \in Requests |-> <<>>]
  /\ buf = [r \in Requests |-> <<>>]
  /\ held = [r \in Requests |-> {}]
  /\ outcome = [r \in Requests |-> "none"]
  /\ writer = [f \in Files |-> Sync]
  /\ env = [syncs |-> MaxSync, faults |-> MaxFaults, crashes |-> MaxCrashes]

-----------------------------------------------------------------------------
(* Helpers *)

Proc(r)    == call[r].proc
Path(r)    == call[r].path
OnLoop(r)  == running[Proc(r)] = r
Goto(r, l) == pc' = [pc EXCEPT ![r] = l]

\* Mutant: the dictionary of locks is not shared by the calls of a process.
LockFree_ownOnly(r, k) == k \notin held[r]

\* asyncio.Lock is not re-entrant: a key the call itself holds is taken too.
LockFree(r, k) ==
  \A q \in Requests : Proc(q) = Proc(r) => k \notin held[q]

\* The coroutine awaits the lock and gets it: either it is running and does
\* not yield, or it was suspended, the loop is free and the lock too.
CanTake(r, k) ==
  /\ running[Proc(r)] \in {r, NoReq}
  /\ LockFree(r, k)

Take(r, k) ==
  /\ running' = [running EXCEPT ![Proc(r)] = r]
  /\ held' = [held EXCEPT ![r] = @ \cup {k}]
  /\ UNCHANGED outcome

Release(r, k) ==
  /\ held' = [held EXCEPT ![r] = @ \ {k}]
  /\ UNCHANGED <<running, outcome>>

\* Mutant: an early return that does not pass through the end of async with.
Return_leaksLocks(p, r, o) ==
  /\ Goto(r, "done")
  /\ outcome' = [outcome EXCEPT ![r] = o]
  /\ UNCHANGED held
  /\ running' = [running EXCEPT ![p] = NoReq]

\* The handler returns (or raises): async with has released every lock and
\* the loop is free for the next coroutine.
Return(p, r, o) ==
  /\ Goto(r, "done")
  /\ outcome' = [outcome EXCEPT ![r] = o]
  /\ held' = [held EXCEPT ![r] = {}]
  /\ running' = [running EXCEPT ![p] = NoReq]

Fault   == env.faults > 0 /\ env' = [env EXCEPT !.faults = @ - 1]
NoFault == UNCHANGED env

\* Mutant: a missing file is not turned into an empty one.
ReadOrEmpty_unguarded(r, content) ==
  NoFault /\ buf' = [buf EXCEPT ![r] = content]

\* Read-modify-write services treat a file they cannot read as empty.
ReadOrEmpty(r, content) ==
  \/ NoFault /\ buf' = [buf EXCEPT ![r] = IF content = Absent THEN <<>>
                                          ELSE content]
  \/ Fault   /\ buf' = [buf EXCEPT ![r] = <<>>]

-----------------------------------------------------------------------------
(* A call reaches a process *)

\* The client reads the note with read_note: it will send the revision it
\* got as expected_revision.
ReadNote(r, o, f, d) ==
  /\ pc[r] = "idle"
  /\ \E p \in Procs : running[p] = NoReq
  /\ fs[f] # Absent
  /\ call' = [call EXCEPT ![r] = [op |-> o, path |-> f, dst |-> f, dry |-> d,
                                  proc |-> NoProc]]
  /\ rev' = [rev EXCEPT ![r] = fs[f]]
  /\ Goto(r, "ready")
  /\ UNCHANGED <<world, running, plan, buf, held, outcome, env>>

\* Policy, expected_revision and patch validation refuse the call before it
\* has touched anything.
Refuse(p, r) ==
  /\ pc[r] \in {"idle", "ready"}
  /\ running[p] = NoReq
  /\ Return(p, r, "error")
  /\ UNCHANGED <<world, client, buf, env>>

\* Mutant: the handler runs in a thread of its own, beside the coroutine.
SubmitCreate_threaded(p, r, f, d) ==
  /\ pc[r] = "idle"
  /\ call' = [call EXCEPT ![r] = [op |-> "create", path |-> f, dst |-> f,
                                  dry |-> d, proc |-> p]]
  /\ plan' = [plan EXCEPT ![r] = <<r>>]
  /\ Goto(r, "replace")
  /\ running' = [running EXCEPT ![p] = r]
  /\ UNCHANGED <<world, rev, buf, env, held, outcome>>

\* create_note writes at once: no lock, no revision, no existence check.
SubmitCreate(p, r, f, d) ==
  /\ pc[r] = "idle"
  /\ running[p] = NoReq
  /\ call' = [call EXCEPT ![r] = [op |-> "create", path |-> f, dst |-> f,
                                  dry |-> d, proc |-> p]]
  /\ plan' = [plan EXCEPT ![r] = <<r>>]
  /\ \/ d /\ Return(p, r, "planned")
     \/ /\ ~d
        /\ Goto(r, "replace")
        /\ running' = [running EXCEPT ![p] = r]
        /\ UNCHANGED <<held, outcome>>
  /\ UNCHANGED <<world, rev, buf, env>>

\* write_note: a dry run answers without looking at the file.
SubmitWrite(p, r) ==
  /\ pc[r] = "ready"
  /\ call[r].op = "write"
  /\ running[p] = NoReq
  /\ call' = [call EXCEPT ![r].proc = p]
  /\ plan' = [plan EXCEPT ![r] = <<r>>]
  /\ \/ call[r].dry /\ Return(p, r, "planned")
     \/ /\ ~call[r].dry
        /\ Goto(r, "lock")
        /\ running' = [running EXCEPT ![p] = r]
        /\ UNCHANGED <<held, outcome>>
  /\ UNCHANGED <<world, rev, buf, env>>

\* append_note and edit_note: prepare_change reads the note, refuses a
\* revision other than the expected one (with an exception, not with a
\* conflict result) and computes the new content.
SubmitEdit(p, r) ==
  /\ pc[r] = "ready"
  /\ call[r].op = "edit"
  /\ running[p] = NoReq
  /\ call' = [call EXCEPT ![r].proc = p]
  /\ \/ /\ fs[Path(r)] # rev[r]
        /\ Return(p, r, "error")
        /\ UNCHANGED plan
     \/ /\ fs[Path(r)] = rev[r]
        /\ plan' = [plan EXCEPT ![r] = Append(rev[r], r)]
        /\ \/ call[r].dry /\ Return(p, r, "planned")
           \/ /\ ~call[r].dry
              /\ Goto(r, "lock")
              /\ running' = [running EXCEPT ![p] = r]
              /\ UNCHANGED <<held, outcome>>
  /\ UNCHANGED <<world, rev, buf, env>>

\* promote_note: only the destination is authorized.
SubmitPromote(p, r, f, g, d) ==
  /\ pc[r] = "idle"
  /\ f # g
  /\ running[p] = NoReq
  /\ call' = [call EXCEPT ![r] = [op |-> "promote", path |-> f, dst |-> g,
                                  dry |-> d, proc |-> p]]
  /\ Goto(r, "plock")
  /\ running' = [running EXCEPT ![p] = r]
  /\ UNCHANGED <<world, rev, plan, buf, held, outcome, env>>

\* await lock.acquire() on a lock somebody holds: the loop is released.
Suspend(r) ==
  /\ pc[r] \in Waiting
  /\ OnLoop(r)
  /\ \/ pc[r] = "lock"  /\ ~LockFree(r, RelKey(Path(r)))
     \/ pc[r] = "plock" /\ ~LockFree(r, AbsKey(Path(r)))
     \/ pc[r] = "audit" /\ ~LockFree(r, AbsKey(Audit))
     \/ pc[r] = "log"   /\ ~LockFree(r, AbsKey(Log))
  /\ running' = [running EXCEPT ![Proc(r)] = NoReq]
  /\ UNCHANGED <<world, client, pc, buf, held, outcome, env>>

-----------------------------------------------------------------------------
(* The note is changed *)

\* Mutant: the recheck only looks whether the note is still there.
Recheck_blind(r) ==
  /\ pc[r] = "lock"
  /\ CanTake(r, RelKey(Path(r)))
  /\ fs[Path(r)] # Absent
  /\ Take(r, RelKey(Path(r)))
  /\ Goto(r, "replace")
  /\ UNCHANGED <<world, client, buf, env>>

\* Mutant: a call that finds a conflict falls through to the audit.
Recheck_auditsConflict(r) ==
  /\ pc[r] = "lock"
  /\ CanTake(r, RelKey(Path(r)))
  /\ Take(r, RelKey(Path(r)))
  /\ Goto(r, IF fs[Path(r)] = rev[r] THEN "replace" ELSE "audit")
  /\ UNCHANGED <<world, client, buf, env>>

\* Mutant: the note is written before it is rechecked.
Recheck_writesFirst(r) ==
  /\ pc[r] = "lock"
  /\ CanTake(r, RelKey(Path(r)))
  /\ fs' = [fs EXCEPT ![Path(r)] = plan[r]]
  /\ writer' = [writer EXCEPT ![Path(r)] = Proc(r)]
  /\ \/ fs[Path(r)] = rev[r] /\ Take(r, RelKey(Path(r))) /\ Goto(r, "replace")
     \/ fs[Path(r)] # rev[r] /\ Return(Proc(r), r, "conflict")
  /\ UNCHANGED <<trail, index, client, buf, env>>

\* acquire_path_lock(path) and recheck_revision.
Recheck(r) ==
  /\ pc[r] = "lock"
  /\ CanTake(r, RelKey(Path(r)))
  /\ \/ /\ fs[Path(r)] = rev[r]
        /\ Take(r, RelKey(Path(r)))
        /\ Goto(r, "replace")
        /\ NoFault
     \/ /\ fs[Path(r)] \notin {rev[r], Absent}
        /\ Return(Proc(r), r, "conflict")
        /\ NoFault
     \/ /\ fs[Path(r)] = Absent
        /\ Return(Proc(r), r, "error")
        /\ NoFault
  /\ UNCHANGED <<world, client, buf>>

\* Mutant: the handler forgets record_event.
Replace_skipsAudit(r) ==
  /\ pc[r] = "replace"
  /\ OnLoop(r)
  /\ fs' = [fs EXCEPT ![Path(r)] = plan[r]]
  /\ writer' = [writer EXCEPT ![Path(r)] = Proc(r)]
  /\ Release(r, RelKey(Path(r)))
  /\ Goto(r, "log")
  /\ UNCHANGED <<trail, index, client, buf, env>>

\* os.replace of write_file_atomic, then the end of async with.
Replace(r) ==
  /\ pc[r] = "replace"
  /\ OnLoop(r)
  /\ fs' = [fs EXCEPT ![Path(r)] = plan[r]]
  /\ writer' = [writer EXCEPT ![Path(r)] = Proc(r)]
  /\ Release(r, RelKey(Path(r)))
  /\ Goto(r, "audit")
  /\ UNCHANGED <<trail, index, client, buf, env>>

\* Mutant: the destination is not looked at.
PromoteCheck_blind(r) ==
  /\ pc[r] = "plock"
  /\ CanTake(r, AbsKey(Path(r)))
  /\ Take(r, AbsKey(Path(r)))
  /\ Goto(r, "psource")
  /\ UNCHANGED <<world, client, buf, env>>

\* acquire_path_lock(root / source) and _dest_exists.  os.path.exists
\* answers False when stat fails.
PromoteCheck(r) ==
  /\ pc[r] = "plock"
  /\ CanTake(r, AbsKey(Path(r)))
  /\ \/ /\ fs[call[r].dst] # Absent
        /\ Return(Proc(r), r, "error")
        /\ NoFault
     \/ /\ fs[call[r].dst] = Absent
        /\ Take(r, AbsKey(Path(r)))
        /\ Goto(r, "psource")
        /\ NoFault
     \/ /\ Take(r, AbsKey(Path(r)))
        /\ Goto(r, "psource")
        /\ Fault
  /\ UNCHANGED <<world, client, buf>>

\* read_file(source): its revision goes into the audit event.
PromoteRead(r) ==
  /\ pc[r] = "psource"
  /\ OnLoop(r)
  /\ \/ /\ fs[Path(r)] = Absent
        /\ Return(Proc(r), r, "error")
        /\ UNCHANGED plan
     \/ /\ fs[Path(r)] # Absent
        /\ plan' = [plan EXCEPT ![r] = fs[Path(r)]]
        /\ \/ call[r].dry /\ Return(Proc(r), r, "planned")
           \/ /\ ~call[r].dry
              /\ Goto(r, "pmove")
              /\ UNCHANGED <<running, held, outcome>>
  /\ UNCHANGED <<world, call, rev, buf, env>>

\* os.replace(source, dest) of move_file_atomic.
PromoteMove(r) ==
  /\ pc[r] = "pmove"
  /\ OnLoop(r)
  /\ \/ /\ fs[Path(r)] = Absent
        /\ Return(Proc(r), r, "error")
        /\ UNCHANGED <<fs, writer>>
     \/ /\ fs[Path(r)] # Absent
        /\ fs' = [fs EXCEPT ![call[r].dst] = fs[Path(r)], ![Path(r)] = Absent]
        /\ writer' = [writer EXCEPT ![call[r].dst] = Proc(r),
                                    ![Path(r)] = Proc(r)]
        /\ Goto(r, "audit")
        /\ UNCHANGED <<running, held, outcome>>
  /\ UNCHANGED <<trail, index, client, buf, env>>

-----------------------------------------------------------------------------
(* The change is recorded: record_event, update_log_projection *)

AuditRead(r) ==
  /\ pc[r] = "audit"
  /\ CanTake(r, AbsKey(Audit))
  /\ Take(r, AbsKey(Audit))
  /\ ReadOrEmpty(r, trail)
  /\ Goto(r, "awrite")
  /\ UNCHANGED <<world, client>>

\* Mutant: the file is opened for writing, not for appending.
AuditWrite_truncates(r) ==
  /\ pc[r] = "awrite"
  /\ OnLoop(r)
  /\ trail' = <<r>>
  /\ Release(r, AbsKey(Audit))
  /\ Goto(r, "log")
  /\ UNCHANGED <<fs, index, writer, client, buf, env>>

\* The whole file is rewritten: what was read, and one line.
AuditWrite(r) ==
  /\ pc[r] = "awrite"
  /\ OnLoop(r)
  /\ trail' = Append(buf[r], r)
  /\ Release(r, AbsKey(Audit))
  /\ Goto(r, "log")
  /\ UNCHANGED <<fs, index, writer, client, buf, env>>

\* Mutant: the projection forgets the lines that are there.
LogRead_forgets(r) ==
  /\ pc[r] = "log"
  /\ CanTake(r, AbsKey(Log))
  /\ Take(r, AbsKey(Log))
  /\ buf' = [buf EXCEPT ![r] = <<>>]
  /\ Goto(r, "lwrite")
  /\ UNCHANGED <<world, client, env>>

LogRead(r) ==
  /\ pc[r] = "log"
  /\ CanTake(r, AbsKey(Log))
  /\ Take(r, AbsKey(Log))
  /\ ReadOrEmpty(r, fs[Log])
  /\ Goto(r, "lwrite")
  /\ UNCHANGED <<world, client>>

\* Mutant: no handler refreshes the affected paths.
LogWrite_skipsRefresh(r) ==
  /\ pc[r] = "lwrite"
  /\ OnLoop(r)
  /\ fs' = [fs EXCEPT ![Log] = Append(buf[r], r)]
  /\ writer' = [writer EXCEPT ![Log] = Proc(r)]
  /\ Return(Proc(r), r, "ok")
  /\ UNCHANGED <<trail, index, client, buf, env>>

\* promote_note returns here, still inside its async with; the other
\* handlers go on to refresh_paths(affected_paths).
LogWrite(r) ==
  /\ pc[r] = "lwrite"
  /\ OnLoop(r)
  /\ fs' = [fs EXCEPT ![Log] = Append(buf[r], r)]
  /\ writer' = [writer EXCEPT ![Log] = Proc(r)]
  /\ \/ call[r].op = "promote" /\ Return(Proc(r), r, "ok")
     \/ /\ call[r].op # "promote"
        /\ Release(r, AbsKey(Log))
        /\ Goto(r, "rexists")
  /\ UNCHANGED <<trail, index, client, buf, env>>

-----------------------------------------------------------------------------
(* The index follows: refresh_paths *)

RefreshExists(r) ==
  /\ pc[r] = "rexists"
  /\ OnLoop(r)
  /\ \/ fs[Path(r)] # Absent /\ Goto(r, "rread")   /\ NoFault
     \/ fs[Path(r)] = Absent /\ Goto(r, "rdelete") /\ NoFault
     \/ Goto(r, "rdelete") /\ Fault
  /\ UNCHANGED <<world, client, running, buf, held, outcome>>

RefreshRead(r) ==
  /\ pc[r] = "rread"
  /\ OnLoop(r)
  /\ \/ /\ fs[Path(r)] = Absent
        /\ Return(Proc(r), r, "error")
        /\ UNCHANGED buf
     \/ /\ fs[Path(r)] # Absent
        /\ buf' = [buf EXCEPT ![r] = fs[Path(r)]]
        /\ Goto(r, "rupsert")
        /\ UNCHANGED <<running, held, outcome>>
  /\ UNCHANGED <<world, client, env>>

RefreshUpsert(r) ==
  /\ pc[r] = "rupsert"
  /\ OnLoop(r)
  /\ index' = [index EXCEPT ![Path(r)] = buf[r]]
  /\ Return(Proc(r), r, "ok")
  /\ UNCHANGED <<fs, trail, writer, client, buf, env>>

RefreshDelete(r) ==
  /\ pc[r] = "rdelete"
  /\ OnLoop(r)
  /\ index' = [index EXCEPT ![Path(r)] = Absent]
  /\ Return(Proc(r), r, "ok")
  /\ UNCHANGED <<fs, trail, writer, client, buf, env>>

-----------------------------------------------------------------------------
(* What goes wrong around the pipeline *)

\* Mutant: an audit step that failed is done again from the start.
Fail_retries(r) ==
  /\ pc[r] = "lwrite"
  /\ OnLoop(r)
  /\ Fault
  /\ Release(r, AbsKey(Log))
  /\ Goto(r, "audit")
  /\ UNCHANGED <<world, client, buf>>

\* An exception (disk full, permission, locked database) escapes the service:
\* the tool call reports an error; what was already done stays done.
Fail(r) ==
  /\ pc[r] \in Working \ {"rexists"}
  /\ OnLoop(r)
  /\ Fault
  /\ Return(Proc(r), r, "error")
  /\ UNCHANGED <<world, client, buf>>

\* A process dies and is started again: its calls are gone, and with them
\* its lock dictionary.
Crash(p) ==
  LET dead == {r \in Requests : Proc(r) = p /\ pc[r] \in Waiting \cup Working}
  IN  /\ env.crashes > 0
      /\ dead # {}
      /\ env' = [env EXCEPT !.crashes = @ - 1]
      /\ running' = [running EXCEPT ![p] = NoReq]
      /\ pc' = [r \in Requests |-> IF r \in dead THEN "done" ELSE pc[r]]
      /\ held' = [r \in Requests |-> IF r \in dead THEN {} ELSE held[r]]
      /\ outcome' = [r \in Requests |-> IF r \in dead THEN "crashed"
                                        ELSE outcome[r]]
      /\ UNCHANGED <<world, client, buf>>

\* Obsidian sync replaces a note by a newer version, or deletes it.
SyncChange(f) ==
  /\ env.syncs > 0
  /\ env' = [env EXCEPT !.syncs = @ - 1]
  /\ \/ fs[f] = Absent /\ fs' = [fs EXCEPT ![f] = <<Sync>>]
     \/ /\ fs[f] # Absent
        /\ \/ fs' = [fs EXCEPT ![f] = Append(@, Sync)]
           \/ fs' = [fs EXCEPT ![f] = Absent]
  /\ writer' = [writer EXCEPT ![f] = Sync]
  /\ UNCHANGED <<trail, index, running, client, pc, buf, held, outcome>>

\* Every call has returned: the server only waits for more.
Quiet ==
  /\ \A r \in Requests : pc[r] = "done"
  /\ UNCHANGED vars

-----------------------------------------------------------------------------
Submit(p, r) ==
  \/ SubmitWrite(p, r)
  \/ SubmitEdit(p, r)
  \/ Refuse(p, r)
  \/ \E f \in Targets, d \in DryRuns : SubmitCreate(p, r, f, d)
  \/ \E f \in Sources, g \in Notes, d \in DryRuns :
       SubmitPromote(p, r, f, g, d)

\* One step of the coroutine that serves r.
Serve(r) ==
  \/ Suspend(r)
  \/ Recheck(r)
  \/ Replace(r)
  \/ PromoteCheck(r)
  \/ PromoteRead(r)
  \/ PromoteMove(r)
  \/ AuditRead(r)
  \/ AuditWrite(r)
  \/ LogRead(r)
  \/ LogWrite(r)
  \/ RefreshExists(r)
  \/ RefreshRead(r)
  \/ RefreshUpsert(r)
  \/ RefreshDelete(r)
  \/ Fail(r)

Next ==
  \/ \E r \in Requests, o \in {"write", "edit"}, f \in Targets, d \in DryRuns :
       ReadNote(r, o, f, d)
  \/ \E p \in Procs, r \in Requests : Submit(p, r)
  \/ \E r \in Requests : Serve(r)
  \/ \E p \in Procs : Crash(p)
  \/ \E f \in Files : SyncChange(f)
  \/ Quiet

Spec == Init /\ [][Next]_vars

\* The event loop keeps running the coroutines that can run.  Clients promise
\* nothing, and neither do errors, crashes and sync.
FairSpec == Spec /\ \A r \in Requests : WF_vars(Serve(r))

-----------------------------------------------------------------------------
(* Properties *)

InFlight(r) == pc[r] \in Waiting \cup Working
Promotes(r) == call[r].op = "promote"
Touches(r)  == IF Promotes(r) THEN {Path(r), call[r].dst} ELSE {Path(r)}
Appears(r, content) ==
  content # Absent /\ \E i \in DOMAIN content : content[i] = r
Times(r, seq) == Cardinality({i \in DOMAIN seq : seq[i] = r})

\* What the event of r says is in file f after it (FR-016: the audit is the
\* authoritative record): its new_revision, or that the source moved away.
Effect(r, f) == IF Promotes(r) /\ f = Path(r) THEN Absent ELSE plan[r]

Overwrites(r) == /\ pc[r] = "replace"
                 /\ pc'[r] = "audit"
                 /\ call[r].op # "create"

\* SC-003, VF-DF-002-F-002: write_note, append_note and edit_note replace only
\* the revision the caller expected, whatever ran since it read the note.
NoSilentOverwrite ==
  [][\A r \in Requests : Overwrites(r) => fs[Path(r)] = rev[r]]_vars

\* FR-009 (docs/requirements.xml:171) asks expected_revision of create_note as
\* well: whatever the tool, a call replaces only the revision it expected, and
\* a call that expected none finds no note there.
EveryWriteExpected ==
  [][\A r \in Requests : pc[r] = "replace" /\ pc'[r] = "audit"
                            => fs[Path(r)] = rev[r]]_vars

\* The same with other writers about: what a write destroys beyond the
\* revision it expected was put there by somebody OUTSIDE its process since
\* the recheck; two calls of one process never overwrite each other, even
\* when one of them is suspended or the process was restarted in between.
OverwritesOnlyForeign ==
  [][\A r \in Requests : Overwrites(r) =>
       \/ fs[Path(r)] = rev[r]
       \/ writer[Path(r)] # Proc(r)]_vars

\* FR-019, VF-DF-006-F-001: a promotion never replaces an existing note,
\* whichever calls were served between its check and its move.
PromoteNeverOverwrites ==
  [][\A r \in Requests : pc[r] = "pmove" /\ pc'[r] = "audit"
                            => fs[call[r].dst] = Absent]_vars

\* audit.ndjson is an append-only log: no step loses or reorders an event.
AuditAppendOnly ==
  [][/\ Len(trail) <= Len(trail')
     /\ SubSeq(trail', 1, Len(trail)) = trail]_vars

\* The audit explains the vault: when no call is between its change and its
\* event, each note holds what the last event about it says, and a note no
\* event is about was not changed by the server.
AuditExplainsVault ==
  \A n \in Notes :
    (\A r \in Requests : n \in Touches(r) => pc[r] \notin {"audit", "awrite"})
      => LET about == {i \in DOMAIN trail : n \in Touches(trail[i])}
         IN  IF about = {}
             THEN writer[n] = Sync
             ELSE fs[n] = Effect(trail[CHOOSE i \in about :
                                         \A j \in about : j <= i], n)

\* LOG.md is a projection of the audit: the same events in the same order,
\* but for the event whose line is still to be written.
ProjectionFollowsAudit ==
  LET lines == IF fs[Log] = Absent THEN <<>> ELSE fs[Log]
  IN  /\ Len(lines) \in {Len(trail), Len(trail) - 1}
      /\ \A i \in DOMAIN lines : lines[i] = trail[i]

\* A call that answered success has exactly one audit event.
SuccessIsAudited ==
  \A r \in Requests : outcome[r] = "ok" => Times(r, trail) = 1

\* A call that answered with a dry-run plan or a conflict left no trace: not in
\* a note, the audit, LOG.md or the index.
RefusedLeavesNoTrace ==
  \A r \in Requests : outcome[r] \in {"planned", "conflict"} =>
    /\ Times(r, trail) = 0
    /\ \A f \in Files : ~Appears(r, fs[f]) /\ ~Appears(r, index[f])

\* Processes can lose events, but no interleaving of them makes one up or
\* duplicates one.
AuditNeverDuplicates == \A r \in Requests : Times(r, trail) <= 1

\* When the calls about a note have returned, the index row is the note
\* (for notes no promotion touched: promote_note refreshes nothing).
IndexFollowsVault ==
  \A n \in Notes :
    (\A r \in Requests : n \in Touches(r) => ~InFlight(r) /\ ~Promotes(r))
      => index[n] = fs[n]

\* VF-DF-004-S-001: the server refreshes the affected paths of every mutation
\* that succeeded.
AffectedPathsRefreshed ==
  \A n \in Notes :
    (\A r \in Requests : n \in Touches(r) => ~InFlight(r)) => index[n] = fs[n]

\* A coroutine between two awaits has the loop: the recheck, the replacement
\* and the release of one call never interleave with another call of the same
\* process.
WorkingHasLoop == \A r \in Requests : pc[r] \in Working => OnLoop(r)

\* No two calls of a process are in a critical section of the same key, and
\* a call that is over (returned, raised, crashed) holds nothing.
LocksExclusive ==
  \A r \in Requests :
    /\ ~InFlight(r) => held[r] = {}
    /\ \A q \in Requests \ {r} : Proc(q) = Proc(r) => held[q] \cap held[r] = {}

\* Every call a process accepted returns to its client.
EveryCallReturns == \A r \in Requests : InFlight(r) ~> pc[r] = "done"

\* docs/requirements.xml:107: every mutation is recorded in the audit and
\* projected into LOG.md (here: a call that has changed a note comes to report
\* success, which both precede).
EveryChangeProjected ==
  \A r \in Requests : pc[r] = "audit" ~> (outcome[r] = "ok")

-----------------------------------------------------------------------------
(* One process alone, with LOG.md left to the server, is an AuditedStore *)

Unrecorded == {r \in Requests : pc[r] \in {"audit", "awrite"}}

Store == INSTANCE AuditedStore WITH
  NothingRead <- Absent,
  store       <- [n \in Notes |-> fs[n]],
  asked       <- [r \in Requests |->
                    IF rev[r] = Absent THEN Absent
                    ELSE [note |-> Path(r), content |-> rev[r]]],
  pending     <- IF Unrecorded = {} THEN NoReq
                 ELSE CHOOSE r \in Unrecorded : TRUE

\* The pipeline of one process implements the store its clients and auditors
\* are promised (NFR-002: no write bypasses the revision check and the audit).
ImplementsStore == Store!SSpec

=============================================================================
