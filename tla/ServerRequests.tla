--------------------------- MODULE ServerRequests ---------------------------
(***************************************************************************)
(* The life of a request: the JSON-RPC transport, the entry point with its *)
(* two ways of calling a tool, the identity of the caller, the process     *)
(* events the call leaves, and one tool in full, the backup.  Beside it,   *)
(* in the same server, the sessions of the admin pages.                    *)
(*                                                                         *)
(* Everything runs in one event loop: only a handler that awaits a lock    *)
(* lets another request in.  Git, the clock and the disk are not the       *)
(* server's own.                                                           *)
(***************************************************************************)
EXTENDS ProcessEvents

CONSTANTS
  Reqs,        \* requests; a request is also the trace id of its events
  Keys,        \* API keys: a known one is the profile it stands for
  Messages,    \* what clients and scripts send
  Setups,      \* the configurations of the server
  Cookies,     \* session ids that uuid4 gives, and
  Forged,      \* one that it never gives
  Timeout,     \* of a session
  MaxTime,     \* bound on the clock
  MaxTrouble,  \* bound on failures of the disk and of git, restarts, changes
               \* of the vault, commits of others, and jumps of the clock
  MaxCalls     \* bound on requests, logins and visits

ASSUME RequestsAssumption ==
  /\ Timeout \in Nat \ {0} /\ MaxTime \in Nat \ {0}
  /\ MaxTrouble \in Nat /\ MaxCalls \in Nat
  /\ {"unknown", "revoked", "admin"} \subseteq Keys
  /\ Forged \notin Cookies

VARIABLES
  setup,    \* db: a process event store is configured; admin: so are the
            \* admin's credentials; repo: the vault is a git repository
  events,   \* the process event store
  loop,     \* the request that runs, or "free"
  pc, msg,  \* per request: where it is, and what it asks
  result,   \* what its handler gave, or the code of its error
  answer,   \* what the caller gets
  worked,   \* history: whether the work of the handler was done
  lost,     \* history: requests with an event that could not be recorded
  git,      \* the version of the vault, of what is staged, of HEAD
  began,    \* history: version of the vault when a backup began
  now,      \* the server's clock
  sessions, \* admin sessions: when each ends, 0 for none
  born,     \* history: when the login of a session was, since the last start
  over,     \* history: session ids that have been refused once, or given out
            \* by a server that has died since
  last,     \* the last visit of an admin page: with which id, when, how it went
  env       \* what is left of the bounds

calls   == <<pc, msg, result, answer, worked>>
console == <<sessions, born, over, last>>
vars == <<setup, events, loop, calls, lost, git, began, now, console, env>>

Methods == {"empty", "not_json", "array", "not_rpc", "array_params", "initialize",
            "tools/list", "ping", "other_method", "other_tool"}
Tools   == {"read_note", "edit_note", "backup_vault"}
\* Through /message, or as handle_tool_call(), in a script or inside a loop.
Ways    == {"http", "script", "inside_loop"}

ASSUME InputsAssumption ==
  /\ Messages \subseteq [kind: Methods \cup Tools, way: Ways, key: Keys]
  /\ \A m \in Messages :
       m.kind \in Methods \ {"other_tool"} => m.way = "http" /\ m.key = "unknown"
  /\ Setups \subseteq [db: BOOLEAN, admin: BOOLEAN, repo: BOOLEAN]

NoMsg    == [kind |-> "empty", way |-> "http", key |-> "unknown"]
NoAnswer == [status |-> 0, code |-> ""]
Started  == 1   \* the clock of a new server

\* What a handler or the identity ends with, and what the transport answers.
Codes == {"", "AUTH_UNKNOWN_KEY", "AUTH_INVALID_KEY", "POLICY_DENIED", "SERVICE_ERROR"}
ProtocolCodes == {"-32600", "-32601", "-32603", "-32700", "none", "UNKNOWN_TOOL"}

TypeOK ==
  /\ setup \in Setups
  /\ events \in Seq(Events(Reqs, {"received", "completed", "failed"}, Codes, 0..MaxTime))
  /\ loop \in Reqs \cup {"free"}
  /\ pc \in [Reqs -> {"new", "received", "identify", "handle", "suspended", "add", "commit",
                      "parse", "outcome", "answered", "gone"}]
  /\ msg \in [Reqs -> Messages \cup {NoMsg}]
  /\ result \in [Reqs -> [code: Codes, hash: Nat]]
  /\ answer \in [Reqs -> [status: {0, 200, 400, 500}, code: Codes \cup ProtocolCodes]]
  /\ worked \in [Reqs -> {"no", "yes", "conflict", "raised"}]
  /\ lost \subseteq Reqs
  /\ git \in [vault: Nat, staged: Nat, head: Nat]
  /\ began \in [Reqs -> Nat] /\ now \in 0..MaxTime
  /\ sessions \in [Cookies -> Nat] /\ born \in [Cookies -> Nat]
  /\ over \subseteq Cookies \cup {Forged}
  /\ last \in [id: Cookies \cup {Forged}, ok: BOOLEAN, at: 0..MaxTime]
  /\ env \in [trouble: 0..MaxTrouble, calls: 0..MaxCalls]

NoResult == [code |-> "", hash |-> 0]

Init ==
  /\ setup \in Setups
  /\ events = <<>> /\ loop = "free"
  /\ pc = [r \in Reqs |-> "new"] /\ msg = [r \in Reqs |-> NoMsg]
  /\ result = [r \in Reqs |-> NoResult]
  /\ answer = [r \in Reqs |-> NoAnswer]
  /\ worked = [r \in Reqs |-> "no"] /\ lost = {}
  /\ git = [vault |-> 3, staged |-> 2, head |-> 1]   \* some changes are staged
  /\ began = [r \in Reqs |-> 0] /\ now = Started
  /\ sessions = [c \in Cookies |-> 0] /\ born = [c \in Cookies |-> 0]
  /\ over = {} /\ last = [id |-> Forged, ok |-> FALSE, at |-> Started]
  /\ env = [trouble |-> MaxTrouble, calls |-> MaxCalls]

Trouble == env.trouble > 0 /\ env' = [env EXCEPT !.trouble = @ - 1]
Calls == env.calls > 0 /\ env' = [env EXCEPT !.calls = @ - 1]

-----------------------------------------------------------------------------
(* Process events *)

\* _record_process_event: without a store there is nothing to record, and an
\* error of the store is swallowed.  Calls of handle_tool_call record nothing.
Record(r, way, type, code) ==
  IF way # "http" \/ ~setup.db THEN UNCHANGED <<events, lost, env>>
  ELSE \/ /\ events' = Append(events,
               [trace |-> r, type |-> type, code |-> code, time |-> now,
                severity |-> IF type = "failed" THEN "ERROR" ELSE "INFO"])
          /\ UNCHANGED <<lost, env>>
       \/ /\ Trouble
          /\ lost' = lost \cup {r}
          /\ UNCHANGED events

-----------------------------------------------------------------------------
(* Requests *)

\* What _message_handler and _handle_mcp_request answer on their own.  An
\* array is no dict and has no "get" either: aiohttp answers its own 500.
Protocol(kind) ==
  CASE kind \in {"empty", "not_rpc"} -> [status |-> 400, code |-> "-32600"]
    [] kind = "not_json"             -> [status |-> 400, code |-> "-32700"]
    [] kind = "array"                -> [status |-> 500, code |-> "none"]
    [] kind = "array_params"         -> [status |-> 500, code |-> "-32603"]
    [] kind \in {"other_method", "other_tool"} -> [status |-> 200, code |-> "-32601"]
    [] OTHER                         -> [status |-> 200, code |-> ""]

Goto(r, l) == pc' = [pc EXCEPT ![r] = l]

Receive(r, m) ==
  /\ pc[r] = "new" /\ loop = "free"
  /\ msg' = [msg EXCEPT ![r] = m]
  /\ IF m.kind \in Methods
     THEN /\ Goto(r, "answered")
          /\ answer' = [answer EXCEPT ![r] =
               IF m.way = "http" THEN Protocol(m.kind)
               ELSE [status |-> 200, code |-> "UNKNOWN_TOOL"]]
          /\ UNCHANGED loop
     ELSE /\ Goto(r, "received")
          /\ loop' = r
          /\ UNCHANGED answer
  /\ Calls
  /\ UNCHANGED <<setup, events, result, worked, lost, git, began, now, console>>

Received(r) ==
  /\ pc[r] = "received"
  /\ Record(r, msg[r].way, "received", "")
  /\ Goto(r, "identify")
  /\ UNCHANGED <<setup, loop, msg, result, answer, worked, git, began, now, console>>

Code(r, c) == result' = [result EXCEPT ![r].code = c]

\* Mutant: a caller that is not known gets its answer, and no event.
Identify_unrecorded(r) ==
  /\ pc[r] = "identify"
  /\ IF msg[r].key \in {"unknown", "revoked"}
     THEN /\ Goto(r, "answered") /\ loop' = "free"
          /\ answer' = [answer EXCEPT ![r] = [status |-> 200, code |-> "AUTH_UNKNOWN_KEY"]]
     ELSE Goto(r, "handle") /\ UNCHANGED <<loop, answer>>
  /\ UNCHANGED <<setup, events, result, msg, worked, lost, git, began, now, console, env>>

\* resolve_identity.
Identify(r) ==
  /\ pc[r] = "identify"
  /\ LET k == msg[r].key
     IN \/ k = "unknown" /\ Goto(r, "outcome") /\ Code(r, "AUTH_UNKNOWN_KEY")
        \/ k = "revoked" /\ Goto(r, "outcome") /\ Code(r, "AUTH_INVALID_KEY")
        \/ k \notin {"unknown", "revoked"} /\ Goto(r, "handle") /\ UNCHANGED result
  /\ UNCHANGED <<setup, events, loop, msg, answer, worked, lost, git, began, now,
                 console, env>>

Works(r, w, c) ==
  /\ worked' = [worked EXCEPT ![r] = w]
  /\ Code(r, c)
  /\ Goto(r, "outcome")

\* A handler that is a coroutine: inside a loop handle_tool_call closes it
\* before it has run, and raises.
Coroutine(r) == msg[r].kind = "edit_note"

\* _error_code_for_exception: a PermissionError, or what the service raises.
Handle(r) ==
  /\ pc[r] \in {"handle", "suspended"} /\ loop \in {r, "free"}
  /\ msg[r].kind \in {"read_note", "edit_note"}
  /\ \/ Coroutine(r) /\ msg[r].way = "inside_loop" /\ Works(r, "no", "SERVICE_ERROR")
     \/ /\ ~(Coroutine(r) /\ msg[r].way = "inside_loop")
        /\ \/ Works(r, "yes", "")
           \/ Coroutine(r) /\ Works(r, "conflict", "")
           \/ \E c \in {"POLICY_DENIED", "SERVICE_ERROR"} : Works(r, "raised", c)
  /\ loop' = r
  /\ UNCHANGED <<setup, events, msg, answer, lost, git, began, now, console, env>>

\* It awaits the lock of its note.
Suspend(r) ==
  /\ pc[r] = "handle" /\ Coroutine(r) /\ msg[r].way = "http"
  /\ Goto(r, "suspended")
  /\ loop' = "free"
  /\ UNCHANGED <<setup, events, msg, result, answer, worked, lost, git, began, now,
                 console, env>>

\* Mutant: an error of the event store is raised to the transport.
Outcome_raises(r) ==
  LET c == result[r].code
  IN /\ pc[r] = "outcome"
     /\ Record(r, msg[r].way, IF c = "" THEN "completed" ELSE "failed", c)
     /\ answer' = [answer EXCEPT ![r] = IF lost' = lost THEN [status |-> 200, code |-> c]
                                        ELSE [status |-> 500, code |-> "-32603"]]
     /\ Goto(r, "answered")
     /\ loop' = "free"
     /\ UNCHANGED <<setup, msg, result, worked, git, began, now, console>>

\* The outcome is recorded and answered; a result that says "success": false
\* or "conflict" is a completed request.
Outcome(r) ==
  LET c == result[r].code
  IN /\ pc[r] = "outcome"
     /\ Record(r, msg[r].way, IF c = "" THEN "completed" ELSE "failed", c)
     /\ answer' = [answer EXCEPT ![r] = [status |-> 200, code |-> c]]
     /\ Goto(r, "answered")
     /\ loop' = "free"
     /\ UNCHANGED <<setup, msg, result, worked, git, began, now, console>>

-----------------------------------------------------------------------------
(* backup_vault *)

Git(r) == UNCHANGED <<setup, events, loop, msg, answer, lost, now, console>>

\* BackupResult(False, ...): a result like any other.
GivesUp(r) == Works(r, "no", "") /\ UNCHANGED <<git, began>>

Backup(r) ==
  /\ pc[r] = "handle" /\ msg[r].kind = "backup_vault"
  /\ \/ msg[r].key # "admin" /\ Works(r, "raised", "POLICY_DENIED") /\ UNCHANGED <<git, began>>
     \/ msg[r].key = "admin" /\ ~setup.repo /\ GivesUp(r)
     \/ /\ msg[r].key = "admin" /\ setup.repo
        /\ began' = [began EXCEPT ![r] = git.vault]
        /\ Goto(r, "add")
        /\ UNCHANGED <<git, result, worked>>
  /\ Git(r) /\ UNCHANGED env

\* Mutant: git commit is run whatever became of git add.
AfterAdd_always(ok) == "commit"

AfterAdd(ok) == IF ok THEN "commit" ELSE "outcome"

\* git add -A; another git may hold the index.
Add(r) ==
  /\ pc[r] = "add"
  /\ \E ok \in BOOLEAN :
       /\ IF ok THEN git' = [git EXCEPT !.staged = git.vault] /\ UNCHANGED env
                ELSE Trouble /\ UNCHANGED git
       /\ Goto(r, AfterAdd(ok))
  /\ Git(r) /\ UNCHANGED <<result, worked, began>>

\* git commit fails when there is nothing to commit, too.
Commit(r) ==
  /\ pc[r] = "commit"
  /\ \/ /\ git.staged # git.head
        /\ git' = [git EXCEPT !.head = git.staged]
        /\ Goto(r, "parse")
        /\ UNCHANGED <<result, worked, began, env>>
     \/ git.staged = git.head /\ GivesUp(r) /\ UNCHANGED env
     \/ Trouble /\ GivesUp(r)
  /\ Git(r)

\* git rev-parse HEAD.  When it fails there is a commit, and no success.
RevParse(r) ==
  /\ pc[r] = "parse"
  /\ \/ /\ result' = [result EXCEPT ![r].hash = git.head]
        /\ worked' = [worked EXCEPT ![r] = "yes"]
        /\ Goto(r, "outcome")
        /\ UNCHANGED <<git, began, env>>
     \/ Trouble /\ GivesUp(r)
  /\ Git(r)

\* Notes change, and others commit: the owner, the git plug-in of the editor.
Elsewhere ==
  /\ Trouble
  /\ \/ git' = [git EXCEPT !.vault = @ + 1]
     \/ git' = [git EXCEPT !.staged = git.vault, !.head = git.vault] /\ git' # git
  /\ UNCHANGED <<setup, events, loop, calls, lost, began, now, console>>

-----------------------------------------------------------------------------
(* The admin pages *)

\* _handle_login: authenticate_admin and create_admin_session.
Login(right) ==
  /\ loop = "free"
  /\ IF right /\ setup.admin
     THEN \E c \in {d \in Cookies : born[d] = 0 /\ d \notin over} :
            /\ sessions' = [sessions EXCEPT ![c] = now + Timeout]
            /\ born' = [born EXCEPT ![c] = now]
     ELSE UNCHANGED <<sessions, born>>
  /\ Calls
  /\ UNCHANGED <<setup, events, loop, calls, lost, git, began, now, over, last>>

\* Mutant: a session that has expired is refused, and kept.
Validated_keeps(c) ==
  [ok |-> sessions[c] # 0 /\ now < sessions[c], left |-> sessions[c]]

\* validate_admin_session: an expired session is deleted when it is used.
Validated(c) ==
  LET live == sessions[c] # 0 /\ now < sessions[c]
  IN [ok |-> live, left |-> IF live THEN sessions[c] ELSE 0]

\* _require_session, before any of the four pages, which only read.
Visit(c) ==
  /\ loop = "free"
  /\ LET ok == c # Forged /\ Validated(c).ok
     IN /\ last' = [id |-> c, ok |-> ok, at |-> now]
        /\ sessions' = IF c = Forged THEN sessions
                       ELSE [sessions EXCEPT ![c] = Validated(c).left]
        /\ over' = IF ok THEN over ELSE over \cup {c}
  /\ Calls
  /\ UNCHANGED <<setup, events, loop, calls, lost, git, began, now, born>>

-----------------------------------------------------------------------------
(* The clock, and a server that dies and is started again *)

Tick ==
  /\ now < MaxTime /\ now' = now + 1
  /\ UNCHANGED <<setup, events, loop, calls, lost, git, began, console, env>>

SetBack ==
  /\ now > Started /\ Trouble
  /\ now' = now - 1
  /\ UNCHANGED <<setup, events, loop, calls, lost, git, began, console>>

\* Requests in progress are never answered; sessions are forgotten.
Crash ==
  /\ Trouble
  /\ loop' = "free"
  /\ pc' = [r \in Reqs |-> IF pc[r] \in {"new", "answered"} THEN pc[r] ELSE "gone"]
  /\ sessions' = [c \in Cookies |-> 0]
  /\ over' = over \cup {c \in Cookies : born[c] # 0}
  /\ UNCHANGED <<setup, events, msg, result, answer, worked, lost, git, began, now,
                 born, last>>

Step(r) ==
  \/ \E m \in Messages : Receive(r, m)
  \/ Received(r) \/ Identify(r) \/ Handle(r) \/ Suspend(r) \/ Outcome(r)
  \/ Backup(r) \/ Add(r) \/ Commit(r) \/ RevParse(r)

Next ==
  \/ \E r \in Reqs : Step(r)
  \/ \E right \in BOOLEAN : Login(right)
  \/ \E c \in Cookies \cup {Forged} : Visit(c)
  \/ Elsewhere \/ Tick \/ SetBack \/ Crash

Spec == Init /\ [][Next]_vars

-----------------------------------------------------------------------------
(* Properties *)

\* The events with the trace id of a request tell what became of it: nothing
\* for what is no call of a tool, and else its reception and, once, the outcome
\* that the caller was told, with its code; less only what the store has lost
\* or the end of the server cut off.
EventsTellAnswers ==
  \A r \in Reqs :
    LET mine    == {i \in DOMAIN events : events[i].trace = r}
        outcome == IF answer[r].code = "" THEN "completed" ELSE "failed"
        logged  == msg[r].kind \in Tools /\ msg[r].way = "http" /\ setup.db
    IN /\ ~logged => mine = {}
       /\ \A i, j \in mine : i < j =>
            events[i].type = "received" /\ events[j].type # "received"
       /\ logged /\ pc[r] = "answered" =>
            /\ \A i \in mine : events[i].type # "received" =>
                 events[i].type = outcome /\ events[i].code = answer[r].code
            /\ r \notin lost => \E i, j \in mine : i # j
       /\ pc[r] = "gone" => \A i \in mine : events[i].type = "received"

\* The answer of a call tells whether its work was done: neither an event
\* store that fails nor a crash of the bookkeeping turns one into the other.
AnswerTellsTruth ==
  \A r \in Reqs : pc[r] = "answered" /\ msg[r].kind \in Tools =>
    /\ worked[r] \in {"yes", "conflict"} => answer[r] = [status |-> 200, code |-> ""]
    /\ worked[r] = "raised" => answer[r].code # ""
    /\ worked[r] = "no" => answer[r].code # "" \/ msg[r].kind = "backup_vault"

\* A backup that succeeds names a commit that holds all that the vault held
\* when it began, whoever else stages and commits in between.
BackupCovers ==
  \A r \in Reqs : pc[r] = "answered" /\ msg[r].kind = "backup_vault" /\ worked[r] = "yes" =>
    began[r] <= result[r].hash /\ result[r].hash <= git.head

\* An admin page is shown only to a session that a login of this server has
\* begun, for as long as it lasts; once it has been refused it stays so, even
\* when the clock is set back.
AdminPagesNeedLogin ==
  [][LET c == last'.id IN last' # last /\ last'.ok =>
       /\ c \in Cookies \ over
       /\ born[c] # 0 /\ now < born[c] + Timeout]_vars

Times == {events[i].time : i \in DOMAIN events}

\* The events page shows a stretch of the newest events, newest first, however
\* the clock went while they were recorded, and for any number asked for.
RecentAreNewest ==
  \A n \in -1..3 :
    LET shown == Recent(events, n)
    IN /\ n >= 0 => Len(shown) = IF n < Len(events) THEN n ELSE Len(events)
       /\ \A i, j \in DOMAIN shown : i < j =>
            shown[i] # shown[j] /\ events[shown[i]].time >= events[shown[j]].time
       /\ \A i \in Range(shown), k \in DOMAIN events \ Range(shown) :
            events[k].time <= events[i].time

\* The error page, the dashboard and the report count the same errors: every
\* error of the range is in exactly one entry, which begins with its earliest.
ErrorsAddUp ==
  LET Errors(f, t) == {i \in DOMAIN events :
                         events[i].severity = "ERROR" /\ events[i].time \in f..t}
  IN /\ \A f, t \in Times :
          LET entries == Timeline(events, f, t)
              Of(g)   == {i \in Errors(f, t) :
                           ErrorCode(events[i]) = g.code /\ events[i].type = g.type}
          IN /\ UNION {Of(g) : g \in entries} = Errors(f, t)
             /\ \A g \in entries :
                  /\ g.count = Cardinality(Of(g))
                  /\ \A i \in Of(g) : g.first <= events[i].time
             /\ \A g, h \in entries : g # h => Of(g) \cap Of(h) = {}
     /\ Summary(events).errors = Report(events, [severity |-> "ERROR"], 0).total

\* A report holds the oldest of the events it matches, in order, never more of
\* them than the limit, and says so when some are missing.
ReportKeepsOldest ==
  \A n \in 0..(DEFAULT_MAX_LINES + 1), r \in Reqs \cup {"all"} :
    LET filter == IF r = "all" THEN NoFilter ELSE [trace |-> r]
        rep    == Report(events, filter, n)
        rest   == {i \in DOMAIN events : Matches(events[i], filter)} \ Range(rep.lines)
    IN /\ Len(rep.lines) <= DEFAULT_MAX_LINES
       /\ rep.total = Len(rep.lines) + Cardinality(rest)
       /\ rep.truncated <=> rest # {}
       /\ \A i \in Range(rep.lines), k \in rest : events[i].time <= events[k].time
=============================================================================
