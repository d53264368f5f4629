# A verified model of the AgentMemBank memory server

AgentMemBank (`src/src/memory_mcp`) is an MCP server through which several
agents read and change one Obsidian vault. This directory holds TLA+ models of
it, the TLC configurations that check them on small instances, and proofs, which
TLAPS checks, of what must hold for every instance. Line numbers below refer to
the files of `src/src/memory_mcp` unless another path is given.

    tlc -workers 2 -config single_process.cfg MCVaultMutation
    tlc -workers 2 -config index_refresh.cfg MCIndexRefresh
    tlapm IndexRefresh_proofs.tla

`PROJECT.json` lists every run, the lines each definition models, the mutant
that shows each property can fail, the hazards and the findings.

## 1. The system

One server is one process with one asyncio event loop. HTTP requests reach
`handle_tool_call_async` (M-001), which resolves the agent, checks the tool and
calls a handler. Handlers are coroutines or plain functions on that loop, and no
service uses a thread. State is kept in five places: the vault's files, an SQLite
index, an SQLite file of process events (where one is configured), a dictionary of
asyncio locks, and a dictionary of admin sessions; the last two die with the
process. Obsidian sync writes the vault at any time. ADR-015 (architecture draft,
lines 312-326) reckons with a second server process or other automation on the
vault, and decides on a lock file against it; the code has only the locks of a
process.

| id | component, source | state | operations | hard behaviour | correct when |
|---|---|---|---|---|---|
| M-001 | MCPServerEntrypoint, `server.py` | tool table | the tool handlers, refresh after a mutation | errors at any await; refresh left out | each accepted call returns; affected paths are refreshed |
| M-002 | AuthIdentityService, `auth.py` | none | resolve_identity | unknown keys | a key names one agent |
| M-003 | VaultPolicyGuard, `policy.py` | none | authorize_operation, check_path_policy | order of the checks | refused calls change nothing |
| M-004 | VaultReadService, `read_service.py` | none | read_note and metadata | revision stale when used | the revision is of the content returned |
| M-005 | VaultFilesystemRepository, `vault_fs.py` | files | read, atomic write, move | check-then-act; line ends | readers see whole files |
| M-006 | ChangePlanner, `change_planner.py` | none | prepare_change, five patch operations | plans on content read before the lock | the plan changes only what the patch says |
| M-007 | LockAndRevisionService, `concurrency.py` | lock dictionary | acquire_path_lock, recheck_revision | suspension, two keys per file, one process only | exclusion, release on every exit |
| M-008 | VaultMutationService, `mutation_service.py` | none of its own | create, write, append, edit | interleavings, sync, partial failure | no silent overwrite; success is audited |
| M-009 | AuditLogService, `audit_log.py` | audit.ndjson, LOG.md | record_event, update_log_projection | read-modify-write of whole files | the audit only grows; LOG.md follows it |
| M-010 | RetrievalService, `retrieval_service.py` | none | search_notes | stale rows, merge of two sources | answers carry the current revision |
| M-011 | ConfigService, `config.py` | none | load and validate | none at run time | start-up refuses bad documents |
| M-012 | ObservabilityService, `observability.py` | none | trace anchors | none | logging |
| M-013 | IndexRepository, `index_repo.py` | notes, index_state, notes_fts, note_chunks, note_chunks_vec | upserts, deletes, queries | rows of five tables that must agree | a row's parts are of one revision |
| M-014 | IndexRefreshService, `index_refresh.py` | none | refresh_paths, startup_reconcile, reindex | a list that fails half way; deletions while down | the index becomes the vault |
| M-015 | MarkdownSemanticParser, `markdown_parser.py` | none | sections, chunk_note | boundaries of chunks | chunks cover the note |
| M-016 | VectorSearchAdapter, `vector_adapter.py` | none | choice of backend | backend missing, or there and failing | falls back to text search |
| M-017 | BackupService, `backup_service.py` | a git repository | snapshot, health | other commits in between | the hash is of this snapshot |
| M-018 | WikiUpdateService, `wiki_update_service.py` | none | propose a diff | none | changes nothing |
| M-019 | DraftPromotionService, `draft_promotion_service.py` | none | promote_note | locks held over locks, check-then-move | no note is overwritten; it ends |
| M-020 | MCPTransport, `transport.py` | none | JSON-RPC dispatch | malformed bodies | each request is answered |
| M-021 | InstructionService, `instruction_service.py` | none | guidance text | none | formatting |
| M-022 | VaultLayoutService, `vault_layout.py` | none | directory contract, drift | aliases of two intents | drift is what differs from the contract |
| M-023 | MemBankInitializationService, `membank_init_service.py` | directories | check, plan, apply | apply fails half way | a repeated apply converges |
| M-024 | AdminAuthService, `admin_auth.py` | sessions | login, validate, revoke | expiry | an expired session never validates |
| M-025 | ProcessEventLogService, `process_event_log.py` | process_events | record, query | failing insert | a failure does not fail the request |
| M-026 | LogReportService, `log_report_service.py` | none | report, export | limits | no more lines than asked |
| M-027 | AdminDashboardService, `admin_dashboard_service.py` | none | summary | missing tables | read-only |
| M-028 | AdminWebInterface, `admin_web.py` | none | routes | session checks | no page without a session |
| M-029 | EmbeddingService, `embedding_service.py` | none | embed, embed_batch | retries, short answers | vector i belongs to text i |

A mutation runs M-001 -> M-003 -> M-006 -> M-007 -> M-005 -> M-009 -> M-014 ->
M-013, and a promotion M-001 -> M-003 -> M-019 with M-007, M-005 and M-009. That
pipeline is the program's core: it is where several actors meet on shared state.

## 2. The modules and the plan

| module | models | checked by | proofs |
|---|---|---|---|
| `VaultMutation` | M-008, M-019, M-007, M-009 and what they use of M-001, M-004, M-005, M-006, M-013, M-014 | 8 runs of `MCVaultMutation` | `VaultMutation_proofs`, `VaultSafety_proofs`, `VaultAudit_proofs` |
| `AuditedStore` | what the pipeline promises: a store with compare-and-swap and an audit | `ImplementsStore` | `VaultStore_proofs` |
| `VaultPolicy` | M-003: the permission matrix and the roots | the runs of the two modules that extend it | |
| `IndexRefresh` (extends `VaultPolicy`) | M-014, M-013, M-029, M-010, M-016 | `index_refresh` | `IndexRefresh_proofs` |
| `NotePatches` (extends `VaultPolicy`) | M-006, M-015, M-018 | `note_patches` | `NotePatches_proofs` |
| `MemBankInit` | M-022, M-023 | `vault_setup` | `MemBankInit_proofs` |
| `ProcessEvents` | M-025, M-026, M-027: the store and the queries on it, as operators | `server_requests` | `ServerRequests_proofs` |
| `ServerRequests` (extends `ProcessEvents`) | M-001's dispatch, M-002, M-020, M-017, M-024, M-028 | `server_requests` | `ServerRequests_proofs` |

No module with a theorem declares a RECURSIVE operator or reaches one.

Every invariant and action property that a passing run checks, and the
refinement of `AuditedStore`, is also a theorem (section 9). Liveness stays with
TLC.

## 3. VaultMutation: the model and the code

A call has a program counter `pc`. Each step is ONE access to what other actors
can see (a file, or a transaction of SQLite); what a coroutine computes in between
is local. `running[p]` is the coroutine on the loop of process p. Only `Suspend`
gives the loop up before the handler returns, because acquiring a free
`asyncio.Lock` does not yield; steps of other processes and of sync interleave
everywhere.

| variable | code |
|---|---|
| `fs` | the notes and `LOG.md` below `vault.root` |
| `trail` | `.obsidian/audit.ndjson`, as the sequence of the calls whose event it holds |
| `index` | the rows of `notes`, `index_state` and `notes_fts`, by content |
| `running`, `pc` | the event loop, and where each coroutine is |
| `held` | `_locks` (concurrency.py:21) of the call's process; keys are `RelKey` (the path as spelled, mutation_service.py:262) and `AbsKey` (root / path, audit_log.py:132, draft_promotion_service.py:104) |
| `call`, `rev` | arguments, and `expected_revision` |
| `plan`, `buf` | `plan.new_content`, and what a read-modify-write has read |
| `outcome` | success, dry-run plan, conflict, error, or lost with its process |
| `writer`, `env` | history (who changed a file last) and the bounds that are left |

| action | code |
|---|---|
| `ReadNote` | `read_note`: the client gets the revision it will send |
| `Refuse` | policy, missing expected_revision, invalid patch: nothing is touched |
| `SubmitCreate` | `create_note` up to its write: no lock, no revision, no existence check |
| `SubmitWrite` | `write_note` up to its lock; a dry run answers without reading |
| `SubmitEdit` | `append_note` / `edit_note`: `prepare_change` reads, refuses a stale revision, plans |
| `SubmitPromote` | `promote_note` up to its lock |
| `Suspend` | `await lock.acquire()` on a taken lock |
| `Recheck`, `Replace` | `recheck_revision`, `write_file_atomic`, end of `async with` |
| `PromoteCheck`, `PromoteRead`, `PromoteMove` | `move_note_once` |
| `AuditRead`, `AuditWrite` | `record_event` |
| `LogRead`, `LogWrite` | `update_log_projection`; `promote_note` returns here |
| `RefreshExists`, `RefreshRead`, `RefreshUpsert`, `RefreshDelete` | `refresh_paths([path])` in the handler |
| `Fail` | an exception that escapes the service; `async with` releases |
| `Crash` | a process is killed and restarted: its calls and its locks are gone |
| `SyncChange` | Obsidian sync creates, replaces or deletes a file |

Abstractions:

- Content is the sequence of the calls (or `Sync`) that put text into it. A
  revision is the content itself: sha256 is taken to have no collisions.
- `append_note` and `edit_note` are one operation, `edit`, for they share
  `_apply_planned_mutation`; the patch is "append the call's token".
- Waiters of one lock are served in any order, which includes asyncio's FIFO.
  Safety is therefore checked for more schedules than the code has. Liveness
  is checked with finitely many calls, where any order ends.
- A read that fails in `record_event` and `update_log_projection` is an empty
  file, as `except (FileNotFoundError, OSError): pass` makes it. A stat that fails
  in `os.path.exists` is a missing file.
- A crash is the death of a process. Loss of power (the code does not fsync) and
  the temporary file an interrupted `write_file_atomic` leaves are not modelled.
- CRLF, which text mode folds on reading, is not modelled: contents are tokens.
- `membank_init` writes to the same audit; its events are not in `trail` but in
  the `event` of `MemBankInit`.

`AuditedStore` is the abstract specification: notes change one at a time; a
change based on a read is a compare-and-swap; a promotion moves only to a free
path; the event of a change is recorded before the next change.
`ImplementsStore` is `Store!SSpec` under the mapping at the end of
`VaultMutation`: `pending` is the call that has changed a note and not yet
recorded it. That this is at most one call is part of what the run shows.

## 4. IndexRefresh: the model and the code

The index is a copy of the vault that jobs bring up to date. A job is synchronous
code: nothing of its own process runs before it ends. Other processes (a second
server, an operator's script) and the editor do. A step is one look at the file
system, one SQLite transaction, or one request to the embedding API.

| variable | code |
|---|---|
| `fs`, `edits` | the version of each file; a version is a number no other content has |
| `row` | the rows of `notes`, `index_state` and `notes_fts`, which one transaction writes |
| `chunks` | the `note_chunks` rows of a note: version and position; no embedding, for `upsert_note_chunks` puts it into `note_chunks_vec`, which is missing wherever the row can be stored |
| `build` | whether SQLite has vec0, and whether a backend, an API base and a key are configured |
| `schema` | whether `initialize_schema` has run: every job but `reindex_all_vectors`, and every search, runs it |
| `pc`, `job` | where a job is; its kind, caller, list, what is left of it, the content read, the embeddings so far, the attempts |
| `since`, `wrote`, `blind`, `alone`, `short` | history; `blind` has the paths whose stat failed, `short` the notes whose API answer was short |

| action | code |
|---|---|
| `StartRefresh` | `refresh_paths` with a list of paths |
| `StartWiki`, `StartReconcile`, `StartReindex` | `refresh_wiki_folder`, `startup_reconcile`, `reindex_all_vectors`: the walk, which misses a folder it cannot read (`Walk`), then its list |
| `Skip`, `Refused`, `Exists` | `.md` only, `_authorize_refresh`, `_path_exists` |
| `StatError` | `_path_exists` where the stat fails: `os.path.exists` answers False |
| `Read`, `Upsert`, `Delete` | `read_file`, `upsert_note_index`, `delete_note_index` |
| `NoEmbedding`, `Answered`, `ShortAnswer`, `Failed` | `embed_batch`: nothing configured, a batch, a batch with fewer vectors than texts, an attempt that fails |
| `BadAnswer` | JSON of another form: an exception that the attempts do not catch |
| `Store` | the pairing of chunks and vectors, `upsert_note_chunks` |
| `Fault` | an OSError, or a database locked for longer than its timeout |
| `Finish`, `Return`, `Crash` | the end of a job, its answer, the death of its process |
| `Search` | the schema a search creates; `SearchNotes` is its answer |

What the code does and a reader of the documents would not expect:

- `upsert_note_chunks` selects a column `id` of `note_chunks_vec`
  (index_repo.py:184), which a vec0 table of this schema has not. Where vec0 is
  loaded every call of it fails after the full-text row was committed, and
  `refresh_paths` raises, although docs/verification-plan.xml:825 has vector
  failures not block the full-text refresh. Where vec0 is absent
  the rows of `note_chunks` are stored without their embeddings, the table of the
  vectors does not exist, and `query_similar` answers an empty list. So in no build
  do vectors reach a search: `search_notes` is a full-text search, and the merge of
  two result lists in M-010 (`_union_merge`) is never reached. It is not modelled.
- `delete_note_index` leaves the chunks of the note, and so does a refresh whose
  embeddings fail. They may be of an older version than the row:
  `ChunksOfOneVersion` says only that they are of one.
- `startup_reconcile` upserts what its walk found. A note deleted while no server
  ran stays in the index. `QuietSuccessIsCurrent` speaks, for a walk, of what it
  found.
- `reindex_all_vectors` catches the errors of each path, the other jobs stop.
- A stat that fails deletes the row of a note that is in the vault, and the refresh
  succeeds, although the same line of the plan calls the vault's files the source of
  truth. `RowsSeenInJob` and `QuietSuccessIsCurrent` name these paths as their
  exception; TLC violates both without it.
- `_wiki_derivative_refresh_config` drops the propose-only root `70_Wiki` and none
  below it: `ProposeElse` has what stays under such a root.

## 5. MemBankInit: the model and the code

`membank_init` has three modes. `check_only` reports, `dry_run` plans, `apply`
looks, plans, makes the directories in sorted order, writes the projection, and
records one event. It takes no lock, so a second server may do the same in the
same vault while the owner creates and deletes directories.

| action | code |
|---|---|
| `Call`, `Return` | `_handler_membank_init` |
| `Look` | `detect_vault_layout`, `detect_directory_drift`, the role check and the conditions under which apply goes on |
| `Plan` | `create_init_plan` |
| `Listings`, `Senses` | what an I/O error hides from these two: `_list_actual_dirs` answers with no directory, `isdir` and `isfile` with False |
| `Make` | one `os.makedirs`, which raises where a file is in the way |
| `Project`, `Audit` | `AgentMemBank.md`, `record_event` with the actions whose status is "completed" (`taken`; what really was created is the history `made`) |
| `Error`, `Crash` | an I/O error that raises, or hides the marker; the death of the process |
| `Appears`, `Disappears` | what happens to the vault from outside |

`Destination` is `resolve_destination_for_intent` over the maps of the contract.
Two keys share the alias "notes" (`Ambiguous`), so the drift report is never
clean, whatever the vault holds; ambiguity blocks nothing. `directory_contract`
is None in the server's configuration, so the dashboard reports it as degraded
always. Names are in lower case.

Three things the documents rule out and the code does. An unreadable root passes for
one without drift, so apply creates directories in a vault with unknown ones
(membank_init_service.py:97; docs/verification-plan.xml:1036 has drift block apply).
A projection that was not there at the plan, or whose stat failed, is overwritten
(membank_init_service.py:231; docs/verification-plan.xml:902 and
docs/requirements.xml:189 forbid it). And what an apply has created that fails or
dies half-way is in no audit event, not even in that of the retry, which finds it
there (membank_init_service.py:222; docs/requirements.xml:107 has every mutation
audited). The model has all three, and TLC finds each as a counterexample to the
property without its exception.
`OnlyFitVaultsChange`, `UserFilesSurvive` and `CreatedIsAudited` say what holds
beside them, with each exception named. An action of an apply may be "completed"
though another process did it (`exist_ok=True`): the event then names more than the
call created, never less.

## 6. ServerRequests and ProcessEvents: the model and the code

A request comes over HTTP as JSON-RPC, or from a script through
`handle_tool_call`. It leaves process events where a store is configured (HTTP
only). Its handler runs to its end in one turn of the loop, except where it
awaits a lock. `backup_vault` is modelled in full, as three runs of git between
which others stage and commit.

| action | code |
|---|---|
| `Receive` | `_message_handler`, `_handle_mcp_request`: protocol errors, or a call |
| `Received`, `Outcome` | `_record_process_event` and the answer |
| `Identify` | `resolve_identity` |
| `Handle`, `Suspend` | a handler and its one await |
| `Backup`, `Add`, `Commit`, `RevParse` | `create_backup_snapshot` |
| `Login`, `Visit` | `_handle_login`, `_require_session` |
| `Elsewhere`, `Tick`, `SetBack`, `Crash` | other users of the repository, the clock, a restart |

`ProcessEvents` has the queries of the event store: `Query`, `Recent`,
`Timeline`, `Summary`, `Report`. They are evaluated on every store the requests
can produce, with a clock that may be set back. `Query` is ORDER BY ts, id: row i of
the answer is the one with i - 1 matching rows `Earlier` than it. `Timeline` folds
the answer row by row, as the loop of `get_error_timeline` does; an event without a
code counts as UNKNOWN (`ErrorCode`).

What the code does and is easily overlooked:

- A JSON array as body has no `get` (transport.py:138): the client gets aiohttp's
  own 500 and no JSON-RPC error. An unknown tool over HTTP is answered -32601 by
  the transport; `UNKNOWN_TOOL` is for scripts only.
- A backup with nothing to commit answers `success: false`, as does one whose
  `rev-parse` failed after the commit was made. Both are completed requests.
- A negative `limit` on the events page takes as many away from the oldest
  (`Recent`).
- `ServerConfig` has no fields for the admin's credentials, so `load_config`
  never enables the pages; a `Setups` with `admin` is a configuration that sets
  them as attributes, as the tests do. Nothing writes the SQLite table
  `audit_log`, whose rows the report would merge in.
- `revoke_admin_session` has no caller.

## 7. NotePatches: the model and the code

A note is a sequence of tokens: words, line ends, headings. `Patched` is
`_apply_patch_operation`, `ValidPatch` and `ValidShape` the two checks,
`SectionHeads` and `Chunks` what `markdown_parser` makes of the result,
`WithSources` the source list of a wiki proposal. Around them the owner rewrites
the note while an agent's plan waits for its lock (`Prepare`, `Write`).

The regular expression for headings, `^(#{1,6})\s+(.+)$`, lets `\s+` cross line
ends: a line of hashes alone (a bare marker) takes the next line that has text for
its title, also where that line is a heading. `Scan` reads a text from left to right
as the expression does; `Headings`, `Title` and `LineEnd` are defined from it, so
a marker may stand anywhere in a note, a patch or a draft.

A patch cuts and joins texts. At a joint three things happen that the properties
name as exceptions, because the code does them:

- A text that does not end its last line is glued to the heading that follows it
  (change_planner.py:145, 164), which then is none any more.
- A text that ends in a bare marker takes the heading that follows for its title:
  new content `# A`, `x`, `##` before `# C` makes C the title of a heading inside
  A, which a repetition of the patch then replaces. `Closed` excludes both for
  `HeadingsSurvive`, `AppendedIsFound` and `ReplaceIsIdempotent`, unless nothing
  follows the section.
- What is appended to a note that ends in a bare marker becomes its title, and an
  appended text that ends in one is cut from the chunk: `AppendedIsFound` excludes
  them. A draft that ends in a bare marker takes "## Sources" for a title, one that
  ends in "---" without a line end gets one and may close a frontmatter that it
  did not have before: `SourcesAreFound` excludes these.

`HeadingsSurvive` speaks of places: a heading before the section stays at its
token, one behind it as far from the end as it was. `TokensAssumption` is all
that is assumed of notes and patches: sequences of tokens, "#" at most six times,
references that are no line ends and no "---", and a least chunk length of one or
more.

- Of a frontmatter the shape check reads one thing: a field whose value opens a
  list and does not close it makes the shape invalid, so a patch is refused
  (markdown_parser.py:213-225). `Frontmatter` and `ValidShape` have that; the
  values themselves decide nothing.
- Headings and text above the first heading of the lowest level are lost to the
  chunks (markdown_parser.py:155). A page without headings is one chunk until a
  proposal appends "## Sources" to it; then its body has none. `ChunksCoverNote`
  says what is covered: below that heading every word is in a section, and every
  section that is long enough is a chunk with all its words.
- A patch with an empty `text` is refused, so no operation deletes.
- `replace_section` may be repeated under the conditions of
  `ReplaceIsIdempotent`; an append may not.

## 8. The runs

| run | instance | result |
|---|---|---|
| `single_process` | 1 process, 3 calls, 2 notes, dry runs and real ones, nothing fails; 86,384 states | holds |
| `crash_and_sync` | 1 process, 2 calls, a crash, a change by sync, fairness; 191,698 states | holds |
| `two_processes` | 2 processes, 2 calls, a crash, a change by sync, an I/O error, LOG.md can be promoted; 1,516,127 states | holds |
| `sync_overwrite` | 1 process, one change by sync | violated |
| `create_overwrites` | 1 process, nothing fails | violated |
| `audit_unreadable` | 1 process, one I/O error | violated |
| `promote_index` | 1 process, nothing fails | violated |
| `promote_log` | 1 process, LOG.md can be promoted, fairness | violated |
| `index_refresh` | a server and a script, 4 paths, 2 jobs, an edit, a fault; 1,100,305 states | holds |
| `vault_setup` | 2 servers, 2 fragile directories, a fault, a change from outside, fairness; 733,525 states | holds |
| `server_requests` | 2 requests, 2 sessions, 3 calls, one trouble, a clock of 2 ticks; 342,796 states | holds |
| `note_patches` | 8 notes, 35 patches of all five operations, 2 lists of sources; 34,414 states | holds |

What the passing runs show.

- `single_process`: the locks, the recheck and the fact that nothing yields
  between recheck and replace are enough. Calls that planned against old content,
  or were refused, cannot break the store (`ImplementsStore`,
  `NoSilentOverwrite`, `PromoteNeverOverwrites`); audit and vault explain each
  other (`AuditExplainsVault`), LOG.md lags the audit by at most one line
  (`ProjectionFollowsAudit`), the index equals the vault once the calls about a
  note are over (`IndexFollowsVault`), and a call answered with a plan or a
  conflict left nothing anywhere (`RefusedLeavesNoTrace`).
- `crash_and_sync`: whatever sync does and wherever the process dies, a call that
  reported success has exactly one event (`SuccessIsAudited`), the audit only
  grows (`AuditAppendOnly`) and accepted calls return (`EveryCallReturns`).
- `two_processes`: what is left when the locks do not reach the other writer. A
  process still excludes itself (`WorkingHasLoop`, `LocksExclusive`), what a write
  destroys came from outside its process (`OverwritesOnlyForeign`), and no event
  appears twice (`AuditNeverDuplicates`), although events can be lost.

- `index_refresh`: with another process and edits in between, a job never writes
  what was gone before it began (`RowsSeenInJob`); undisturbed it leaves the index
  equal to the vault (`QuietSuccessIsCurrent`), both but for the paths whose stat
  failed; a job that fails has refreshed the notes before one point of its list,
  which may name a note twice, and none after it (`DonePathsArePrefix`); chunk rows
  are of one version, and those stored are the ones whose own text was embedded,
  whatever batches fail (`ChunksOfOneVersion`, `ChunksWereEmbedded`), unless the API
  answered short; the denylist holds in both directions (`DeniedStaysOut`); and each
  step of a job brings it nearer its end (`JobsWindDown`), which is termination as a
  safety property: no fairness is needed to say it.
- `vault_setup`: half-made attempts, a second server and a lively owner cannot make
  apply report a success that is none (`SuccessMeansReady`) or leave something it
  created out of the event of a success (`CreatedIsAudited`). No step removes
  anything, and all it may overwrite is a projection that its plan did not find
  (`UserFilesSurvive`); it touches an unfit vault only if it could not list the root
  (`OnlyFitVaultsChange`). An agent that insists gets its vault (`RetryConverges`).
- `server_requests`: events and answers agree on what became of a request, less only
  what the store lost (`EventsTellAnswers`, `AnswerTellsTruth`); a successful backup
  holds what it saw (`BackupCovers`); pages need a live session
  (`AdminPagesNeedLogin`); the pages and reports count the same events, in an order
  that a clock set back does not spoil (`RecentAreNewest`, `ErrorsAddUp`,
  `ReportKeepsOldest`).
- `note_patches`: planner and parser mean the same by a section (`HeadingsSurvive`,
  `AppendedIsFound`, `ChunksNest`), a replacement whose answer was lost may be
  repeated (`ReplaceIsIdempotent`), text below the first heading of the lowest level
  is in a chunk unless its sections are too short (`ChunksCoverNote`), and proposals
  stay in shape (`SourcesAreFound`), all under the conditions of section 7.

What the violated runs show (`findings` in PROJECT.json quotes the documents).

- `sync_overwrite`: sync replaces the note between `recheck_revision` and
  `os.replace` (mutation_service.py:262-274); its change is lost without a
  conflict. docs/verification-plan.xml:978 promises a conflict.
- `create_overwrites`: `create_note` replaces a note that is there
  (mutation_service.py:173). docs/requirements.xml:171 asks expected_revision of
  it as of the others.
- `audit_unreadable`: when audit.ndjson cannot be read once, the next event
  replaces all of it (audit_log.py:107). The architecture draft, line 217, calls it
  append-only.
- `promote_index`: after `promote_note` the index has the source and not the
  destination (server.py:382). docs/verification-plan.xml:995 has the server
  refresh after every mutation.
- `promote_log`: `promote_note` with `LOG.md` as its source holds the lock that
  the projection awaits (audit_log.py:134). The file has been moved, and the call
  never returns. docs/requirements.xml:107 has every mutation projected.

Bounds. Two calls are enough for a conflict and a lost update: one reads a revision
(or plans) and the other writes before it does. The third, in `single_process`, lets
two changes come between. No call waits for a lock in `single_process` and
`crash_and_sync`: a coroutine gives up the loop only at a lock that is taken, the
holder of a lock that is taken has given up the loop, and so nobody is the first.
The one way to begin is the promotion of LOG.md, which waits for itself;
`two_processes` has it, and there the other calls of its process wait for LOG.md's
lock after it (`Suspend`). So `EveryCallReturns` is, in `crash_and_sync`, about the
exits of the handlers themselves while sync changes files and processes die, not
about a queue at a lock. Two notes are what a promotion needs, and two processes are
what it takes for a lock not to protect. `MaxSync`, `MaxFaults` and `MaxCrashes` are
0 or 1: one foreign change, error or death at any point of any call is what the
properties are about, and the theorems have no bounds. In `two_processes` the
targets are one note and the sources that note and LOG.md, which keeps the instance
small and lets the paths meet.

In `index_refresh` one edit and one fault may fall between any two steps of two
jobs, which is what it takes for a job to commit old content last; versions of one
and of two chunks with batches of one give a failing batch before and after a good
one; two attempts per batch stand for the code's three (`MAX_RETRIES`), one that is
repeated and one that is the last. `MaxTexts` bounds the chunks of a version, and
`Place` is the order of the paths by which a walk sorts what it found. The server
refreshes lists, the script walks, so jobs of both kinds meet. In `vault_setup` two of the six
directories come and go, beside a change by another server, and the fault may be one
that raises, one that hides something, or a crash. In `server_requests` two requests
are enough for one to suspend while the other runs, and for three events beside a
report of two lines; timeout 1 and two ticks let a session expire and the clock go
back, and one trouble is one failing insert, restart, commit by others, or jump of
the clock. In `note_patches` the notes have up to three headings in the orders of
levels that differ for the planner or the parser, bare markers before a heading and
at the end, a frontmatter, and no heading at all; the texts include one without a
last line end and one that ends in a bare marker, and patched notes are patched
again up to length 8.

Symmetry (`MCVaultMutation`) permutes calls and processes, in runs without
liveness properties. Notes are left out of it, for the cfgs name some of them as
targets or sources. `MCServerRequests` permutes the two requests and the two
session ids; its properties are invariants and an action property, which treat
them alike.

Deadlock is checked except in `two_processes` and `promote_log`: promoting LOG.md
really stops a call for ever, and with it all later projections of its process; and
except in `index_refresh` and `server_requests`,
which come to rest when the bounds on jobs, calls and the clock (`MaxJobs`,
`MaxCalls`, `MaxTime`) are used up.

Fairness (`FairSpec`) is weak fairness of `Serve(r)`: the event loop resumes a
coroutine that can run. Nothing is assumed of clients, errors, crashes or sync.
Weak fairness suffices because a call that waits for a free lock stays enabled
unless another takes the loop or the lock, and there are finitely many calls.

`MemBankInit` has weak fairness of a call that has begun. `RetryConverges` names
two assumptions of its own: the agent keeps calling apply (`Insists`, strong
fairness of `Call`), and from some moment on nothing is in the way. It is an
implication, so the specification assumes neither.

## 9. The proofs

### The mutation pipeline

The theorems hold for any number of processes, calls, notes, errors, crashes and
changes by sync. The assumptions are those that `VaultMutation` declares:
`FilesAssumption` (LOG.md and the audit are no notes, and calls are made with notes
and LOG.md only), `NullsAssumption` (null values are distinct from what they are
null for) and `BoundsAssumption` (bounds are natural numbers).

| theorem | states | needs |
|---|---|---|
| `TypeCorrect` | `Spec => []TypeOK` | |
| `LoopExclusion` | `Spec => []WorkingHasLoop` | |
| `LockExclusion` | `Spec => []LocksExclusive` | |
| `OverwriteIsForeign` | `Spec => OverwritesOnlyForeign` | |
| `EventsAreNotDoubled` | `Spec => []AuditNeverDuplicates` | |
| `RefusalIsTraceless` | `Spec => []RefusedLeavesNoTrace` | |
| `SingleWriterNeverOverwrites` | `NoSilentOverwrite` | one process, no sync |
| `PromotionIsSafe` | `PromoteNeverOverwrites` | one process, no sync, no failing stat |
| `AuditOnlyGrows` | `AuditAppendOnly` | one process, no failing read |
| `SuccessHasItsEvent` | `[]SuccessIsAudited` | one process, no failing read |
| `AuditTellsVault` | `[]AuditExplainsVault` | `Alone` |
| `IndexIsVault` | `[]IndexFollowsVault` | `Alone` |
| `LogTellsAudit` | `[]ProjectionFollowsAudit` | `Alone`, LOG.md neither target nor source |
| `PipelineIsStore` | `ImplementsStore` | `Alone`, LOG.md neither target nor source |

`Alone` is one process, no sync, no I/O error and no crash, with any number of
calls and notes: what the documents take for granted where they relate audit,
vault, LOG.md and index. "One process" is a hypothesis about a constant that is
free otherwise. The hypotheses are needed: `sync_overwrite` and
`audit_unreadable` violate properties of this table without them, and so do a
crash between a change and its event and a promotion of LOG.md. All of them are
met by the runs that check the properties.

The argument of `VaultMutation_proofs` and `VaultSafety_proofs`:

1. `TypeOK` is not inductive. A step of a served call uses its process and,
   through `Append(rev[r], r)`, the revision it was made with. `Typed` adds that a
   call past `ready` has a process, that a call with an expected revision has
   content there, and that what is about to be written to the audit is a sequence
   of calls.
2. `SubmitIsStep` and `ServeIsStep` reduce the twenty actions that a call takes
   to one formula, `StepOf(r)`: other calls stay as they are, the step uses the
   loop of its own process and takes a lock only if it is free. `WorkingHasLoop`
   and `LocksExclusive` follow from that formula alone, with one case each for a
   step, a crash and the rest.
3. `SubmitPrepares` and `ServePrepares` say what a step has established when it
   arrives at a dangerous place (`Prepares(r)`): at `replace` the note is the
   expected one, at `pmove` the destination is free, at `awrite` the buffer is the
   audit.
4. `Undisturbed` says that this is still so, or that somebody outside the process
   is to blame: `ReplaceIntended`, `DestinationFree`, `AuditFresh`. It is
   inductive because, by 2, no other call of the process works in between and, for
   the audit, no other call holds its lock.
5. The action properties follow from `Undisturbed` and the action that makes the
   change.

TLC checks `TypeOK`, `WorkingHasLoop` and `LocksExclusive` as invariants of
`two_processes`; the strengthened parts were checked with the same three
instances before they were proved.

`VaultAudit_proofs` goes on from there, each layer resting on those above it:

6. `CallsFit`: a call stands only where its operation goes, so only promotions move,
   and only calls with a revision recheck one.
7. `EventsOnce`: a call has at most one event, in the audit and in every buffer that
   is about to become the audit, and only once it is past `awrite`. It says "at most
   one" of stale buffers too, which is why two processes can lose events but not
   double them (`EventsAreNotDoubled`).
8. `TracesLeft`: a call that has not yet changed anything is in no note, event, row,
   plan or buffer; not in those of other calls either, which is the part that makes
   it inductive (`RefusalIsTraceless`).
9. `LocksPlaced` and `RecordsWithLoop`: the locks of the audit and of LOG.md are
   free whenever a call of the process asks for them, so that nothing is awaited
   from the change of a note to its event and, if LOG.md is no source of a
   promotion, to its line. Hence at most one call is in between (`OneRecorder`,
   `OneTeller`).
10. `Explanation`: each note is what its last event says, or what the one call says
    that has yet to record (`AuditTellsVault`). `LogFollows` is the same of LOG.md
    and the audit. `Indexed` has the call that will still refresh a row that is not
    its note, and `RefreshView` what this call has seen.

`VaultStore_proofs` is the step simulation. `Sound` collects the invariants above;
`PendingIs` computes `pending` of the mapping. `ReplaceIsUpdate`, `MoveIsMove`,
`WriteIsRecord` and `ReadIsRead` map the steps that the store sees, `OthersStutter`
all the rest. The compare-and-swap of the store is met because of `ReplaceIntended`,
its guard that nothing is pending because of `RecordsWithLoop`.

### The index

`IndexRefresh_proofs`, from `PathsAssumption` (the sets of paths are as a
configuration makes them, and sorting tells any two paths apart) and
`SizesAssumption` (bounds and sizes are natural numbers), for any number of
processes, notes, jobs, edits, errors and crashes:

| theorem | states |
|---|---|
| `ShapeAndSeen` | `Spec => [](Shape /\ Seen)` |
| `RowsAreSeen` | `Spec => RowsSeenInJob` |
| `ChunksAreOfOneVersion` | `Spec => []ChunksOfOneVersion` |
| `DeniedIsOut` | `Spec => DeniedStaysOut` |
| `StoredWereEmbedded` | `Spec => ChunksWereEmbedded` |
| `JobsKeepTheirOrder` | `Spec => []DonePathsArePrefix` |
| `QuietRefreshIsCurrent` | `Spec => []QuietSuccessIsCurrent` |
| `JobsEnd` | `Spec => JobsWindDown` |

The invariant is built in layers. `Shape` has what the types of the variables say.
`Seen` ties a job to history: it has seen what every note is now, what it is about
to write, and that what it is about to delete was gone or could not be seen
(`RowsAreSeen`). `AtAllowed`
says that a job past `Exists` is at a path it may refresh (`DeniedIsOut`).
`Aligned` says that before a note a job holds no embeddings, and within it exactly
one, right or empty, for each text asked for, unless an answer was short
(`StoredWereEmbedded`); a batch fits what
is left (`BatchFits`) and joins what is there (`ExtendAligned`). `MoveShape` and
`OthersStay` are the frame: a step changes one job.

`Listed` relates what is left of a list to the list: it is the list from `Done(p)`
on. `Prefixed` then says that what a job wrote is the notes among the first
`Done(p)` paths, with or without the one it is at (`JobsKeepTheirOrder`), and
`Quiet` that, as long as the job is alone, these rows are the notes
(`QuietRefreshIsCurrent`; a path that the list repeats is refreshed again to what it
is), but for those whose stat failed. `Counted` bounds attempts and positions within
a note, from which every step lowers `Rank` (`RankShrinks`, `JobsEnd`); it rests on
`Products`, for the rank multiplies, and one factor is a bound of the instance.

### The vault's set-up

`MemBankInit_proofs`, from `InitAssumption`: `OnlyFitChange`, `FilesSurvive`,
`ReadyOnSuccess` and `CreationsAreAudited` state `OnlyFitVaultsChange`,
`UserFilesSurvive`, `SuccessMeansReady` and `CreatedIsAudited` for any number of
servers, I/O errors, crashes and changes from outside. `Fitness` carries what a call
found when it looked, or that it could not look. `Honesty` ties what it planned to
what was missing, or hidden, at its plan, and what it made to its completed actions:
`made` is only a subset of `taken`, for a directory may be there by the time it is its
turn. `Progress` has what a call has
achieved: whatever is not in its plan any more exists, as long as nobody has deleted
anything. It is inductive because a step of another server only adds directories.

### Requests

`ServerRequests_proofs`, from `RequestsAssumption`, `InputsAssumption` (what may
come as a request) and `LinesAssumption`:

| theorem | states |
|---|---|
| `AnswersAreTrue` | `Spec => []AnswerTellsTruth` |
| `BackupsCover` | `Spec => []BackupCovers` |
| `AdminPagesAreGuarded` | `Spec => AdminPagesNeedLogin` |
| `TypesHold` | `Spec => []TypeOK` |
| `EventsTell` | `Spec => []EventsTellAnswers` |
| `RecentPage` | `Spec => []RecentAreNewest` |
| `ReportsAreOldest` | `Spec => []ReportKeepsOldest` |
| `ErrorsAreCounted` | `Spec => []ErrorsAddUp` |

`Told` says that the work of a request and its code change together, in one step
before the outcome. `Backed` moves with a backup from the vault to what is staged to
HEAD, and needs `GitOrder`, that versions only move that way. `SessionInv` says that
a session which is kept ends a timeout after its login and was never refused; it
needs the clock only to stay above zero, so the theorem holds however the clock is
set.

`Traced(r)` has the events of one request as a function of its program counter:
none before it is received, one reception while it is worked on, one outcome that
fits the answer at the end, less what was lost. It is inductive because a step of
another request appends a row with another trace id (`RowAdded`, `OthersTraced`).

The queries need nothing of the state but that the store is a sequence of rows with
times (`StoreIsRows`); the lemmas hold for every such sequence. `EarlierIsOrder`: time,
then id, is a strict total order, however the clock went. So different rows have
different ranks (`AheadCounts`), and `QueryIsSorted` says that `Query` lists all
matching rows, each once, in this order. `NewestFirst` and `OldestFirst` are what
the two limits cut from such a list. `GroupedCounts` is one turn of the timeline's
loop, `TimelineCounts` all of them.

The last is an induction over the rows. The library's induction theorems take an
operator as a parameter, so `NatSet` states induction for a SET: one that has 0 and
successors is `Nat`, from `LeastNat`, which is the library's `WFMin` for the order
of the naturals. `TurnsExist` and `NotePatches_proofs` use it as well.

### Notes and chunks

`NotePatches_proofs`, from `TokensAssumption`, for every set of notes, patches and
sources:

| theorem | states |
|---|---|
| `NotesStayTyped` | `Spec => []TypeOK` |
| `HeadingsAreKept` | `Spec => []HeadingsSurvive` |
| `AppendsAreFound` | `Spec => []AppendedIsFound` |
| `ReplacesRepeat` | `Spec => []ReplaceIsIdempotent` |
| `WordsAreIndexed` | `Spec => []ChunksCoverNote` |
| `SectionsAreNested` | `Spec => []ChunksNest` |
| `ProposalsNameSources` | `Spec => []SourcesAreFound` |

Each under the conditions that its property names (section 7). The state says
little, and so does `PatchInv`: a plan, the last change and a proposal are results
of the operators. The lemmas about these carry the proof.

Reading a note comes first. `ScanIs` is one step of the scan, and `ScanAgrees` says
that two notes with the same tokens are read alike from two places where they are
read alike: all that is said of a patched note behind the patch rests on it, and the
exceptions for bare markers are what its hypothesis costs (`ScanStays`,
`SpliceStarts`, `LineEnds`, `TextEnds`). `TitleAtIs`, `LineEndIs` and `SectionEndIs`
characterise where a title, its line and its section end; `HeadingMoves` carries a
heading with its title from one note to the other.

`SectionHeadsAre` replaces the descent by levels with which the parser finds its
sections by a condition on a heading and its parent, by induction on levels (this is
where "at most six" is used). `SectionTextIs` says what stripping leaves of a
section, from which `SectionIsChunk` and `WordsHaveSections` give `ChunksCoverNote`.
`SpliceKeeps` follows each token through a patch, so headings before and behind it
stay headings (`KeptBefore`, `KeptBehind`, `OthersSurvive`). `TextInSection` finds an
inserted text in the chunk (`AppendedIsFound`, and `SourcesAreFound` through
`ProposalIs`); `SectionAgain` shows that the replaced section is found again as what
was inserted. `FrontmatterUnique` and `FrontmatterSurvives` show that a list of
sources behind a draft changes nothing of its frontmatter, which is the other half of
a valid shape (`ShapeSurvives`).

### Only model-checked

`EveryCallReturns` and `RetryConverges`, with the violated `EveryChangeProjected`:
liveness under fairness, which the installed provers do not reach. `JobsEnd` is
termination of jobs without fairness. The five violated runs are counterexamples
and stay with TLC.

## 10. Not modelled

- M-011, M-012 and M-021 validate a file once, format log lines, and format text
  from constants. They have no state that changes.
- Of M-001: `main` and `run_server` (wiring, and the events of a start), and
  `whoami`, `health_check` and `get_instructions`, which answer constants. Of
  M-027 and M-028: the status probes, `get_process_detail`, `correlate` and HTML.
- Redaction of texts, in M-025 to M-027, and the layout of a report's lines.
- Ranking, snippets and distances of searches (M-010, M-013, M-016); the merge of
  the hybrid search and `delete_note_chunks`, which nothing reaches.
- Path resolution, the symlink checks and line ends in M-005: contents are tokens,
  so a CRLF that text mode folds is not seen. Its effect is a conflict too many.
- In M-015 the values of a frontmatter, tags and links; of a frontmatter only the
  list that is not closed is modelled, for a patch is refused because of it. Titles and
  lines that consist of spaces. The wording of diffs in M-006.
- Loss of power, and temporary files that an interrupted write leaves.
- In `VaultMutation`, the decision of the policy (any call may be refused; the
  decision itself is in `VaultPolicy`), and the delays of embedding calls during a
  refresh, which block the event loop and change no order of steps.

A tool call that fails with an I/O error while it takes a lock's first read is a
`Fail` of the step after it.
