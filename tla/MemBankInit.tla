---------------------------- MODULE MemBankInit ----------------------------
(***************************************************************************)
(* Setting up a vault: the directory contract (vault_layout), the          *)
(* membank_init tool with its three modes, and what its audit event names. *)
(*                                                                         *)
(* membank_init takes no lock and never leaves its event loop before the   *)
(* audit lock, so what it races with is another server process that sets   *)
(* up the same vault, and whoever else creates and deletes files in it.    *)
(***************************************************************************)
EXTENDS Naturals, Sequences, FiniteSets, SequencesExt

CONSTANTS
  Procs,      \* server processes
  Callers,    \* profiles that call the tool
  Fragile,    \* keys whose directories are missing or changed from outside
  Others,     \* other directories that the root of the vault may have
  Intents,    \* what an agent asks a destination for
  MaxOutside, \* bound on changes from outside
  MaxFaults   \* bound on I/O errors and on crashes

-----------------------------------------------------------------------------
(* vault_layout, names in lower case *)

INITIAL_SEMANTIC_KEY_MAP ==
  [inbox |-> "00_inbox", memory |-> "memory", summaries |-> "summaries",
   wiki |-> "70_wiki", log |-> "00_log", system |-> ".system"]

DEFAULT_DEPRECATED_ALIASES ==
  [inbox     |-> {"inbox", "capture", "incoming", "notes"},
   memory    |-> {"memory", "notes", "mem"},
   summaries |-> {"summaries", "summary", "digest"},
   wiki      |-> {"wiki", "articles", "knowledge"},
   log       |-> {"log", "journal", "diary", "activity"},
   system    |-> {"system", "meta", "internal"}]

Keys       == DOMAIN INITIAL_SEMANTIC_KEY_MAP
KeyOrder   == <<"inbox", "log", "memory", "summaries", "system", "wiki">>
Paths      == Range(INITIAL_SEMANTIC_KEY_MAP)
Deprecated == UNION Range(DEFAULT_DEPRECATED_ALIASES)

ASSUME InitAssumption ==
  /\ Fragile \subseteq Keys
  /\ ".obsidian" \in Others /\ Others \cap Paths = {}
  /\ MaxOutside \in Nat /\ MaxFaults \in Nat

\* resolve_destination_for_intent: a key, a refusal ("denied"), or the inbox
\* for everything nobody has heard of.  (An alias of the contract is a key or
\* deprecated, so the code's third case never applies.)
Destination(intent) ==
  IF intent \in Keys THEN intent
  ELSE IF intent \in Deprecated THEN "denied" ELSE "inbox"

\* What detect_directory_drift compares the names of directories with.
Known == Paths \cup Keys \cup Deprecated \cup {".obsidian", ".git", ".trash"}

\* The aliases that two keys share, or that are another key's name.  There is
\* one ("notes") whatever the vault holds, so a check never finds it healthy.
Ambiguous ==
  {a \in Deprecated : \E k, l \in Keys :
     /\ k # l
     /\ a \in DEFAULT_DEPRECATED_ALIASES[k]
     /\ a \in DEFAULT_DEPRECATED_ALIASES[l] \/ a = l}

-----------------------------------------------------------------------------
VARIABLES
  at,        \* what is at each canonical path: a directory, a file, nothing
  others,    \* the other directories in the root
  projection,\* AgentMemBank.md: missing, generated, or written by a user
  pc,        \* per process: where its call is, or how it ended
  call,      \* its mode and profile
  plan,      \* what create_init_plan found: directories to make, and whether
             \* to write the projection
  taken,     \* actions_taken: the actions whose status is "completed"
  event,     \* what the audit event of the call names, once it is appended
  made,      \* history: what the call really created or wrote
  looked,    \* history: the vault was fit to be set up when the call looked
  lacked,    \* history: what was missing when the plan of the call was made
  erred,     \* history: the steps that took an I/O error for an absence
  calm,      \* history: nobody has deleted anything since the call began
  env        \* what is left of the bounds

vault == <<at, others, projection>>
local == <<call, plan, taken, event, made, looked, lacked, erred>>
vars  == <<vault, local, pc, calm, env>>

Projection == "AgentMemBank.md"
Modes      == {"check_only", "dry_run", "apply", "unknown"}
Profiles   == {"admin", "trusted_writer", "readonly_agent"}
Running    == {"look", "plan", "make", "audit"}
Outcomes   == {"report", "refused", "planned", "applied", "raised"}
Labels     == {"idle"} \cup Running \cup Outcomes
Items      == Keys \cup {Projection}
NoCall     == [mode |-> "unknown", profile |-> "admin"]
NoPlan     == [dirs |-> {}, project |-> FALSE]

TypeOK ==
  /\ at \in [Keys -> {"none", "dir", "file"}]
  /\ others \subseteq Others
  /\ projection \in {"none", "generated", "user"}
  /\ pc \in [Procs -> Labels]
  /\ call \in [Procs -> [mode: Modes, profile: Profiles]]
  /\ plan \in [Procs -> [dirs: SUBSET Keys, project: BOOLEAN]]
  /\ taken \in [Procs -> SUBSET Items]
  /\ event \in [Procs -> SUBSET Items]
  /\ made \in [Procs -> SUBSET Items]
  /\ looked \in [Procs -> BOOLEAN]
  /\ lacked \in [Procs -> SUBSET Items]
  /\ erred \in [Procs -> SUBSET {"look", "plan"}]
  /\ calm \in [Procs -> BOOLEAN]
  /\ env \in [outside: 0..MaxOutside, faults: 0..MaxFaults]

Init ==
  /\ at \in [Keys -> {"none", "dir"}]
  /\ \A k \in Keys \ Fragile : at[k] = "dir"
  /\ others \in SUBSET Others
  /\ projection = "none"
  /\ pc = [p \in Procs |-> "idle"]
  /\ call = [p \in Procs |-> NoCall] /\ plan = [p \in Procs |-> NoPlan]
  /\ taken = [p \in Procs |-> {}] /\ event = [p \in Procs |-> {}]
  /\ made = [p \in Procs |-> {}] /\ looked = [p \in Procs |-> FALSE]
  /\ lacked = [p \in Procs |-> {}] /\ erred = [p \in Procs |-> {}]
  /\ calm = [p \in Procs |-> FALSE]
  /\ env = [outside |-> MaxOutside, faults |-> MaxFaults]

Goto(p, l) == pc' = [pc EXCEPT ![p] = l]

-----------------------------------------------------------------------------
(* The tool call *)

\* _handler_membank_init: any profile of the policy may read, and the vault
\* root, an absolute path, is under no relative denylist root.
Call(p, mode, profile) ==
  /\ pc[p] = "idle"
  /\ call' = [call EXCEPT ![p] = [mode |-> mode, profile |-> profile]]
  /\ calm' = [calm EXCEPT ![p] = TRUE]
  /\ Goto(p, IF mode = "unknown" THEN "refused" ELSE "look")
  /\ UNCHANGED <<vault, plan, taken, event, made, looked, lacked, erred, env>>

Forget(p) ==
  /\ Goto(p, "idle")
  /\ call' = [call EXCEPT ![p] = NoCall]
  /\ plan' = [plan EXCEPT ![p] = NoPlan]
  /\ taken' = [taken EXCEPT ![p] = {}]
  /\ event' = [event EXCEPT ![p] = {}]
  /\ made' = [made EXCEPT ![p] = {}]
  /\ looked' = [looked EXCEPT ![p] = FALSE]
  /\ lacked' = [lacked EXCEPT ![p] = {}]
  /\ erred' = [erred EXCEPT ![p] = {}]
  /\ calm' = [calm EXCEPT ![p] = FALSE]
  /\ UNCHANGED vault

\* The agent has its answer.
Return(p) == pc[p] \in Outcomes /\ Forget(p) /\ UNCHANGED env

Fails ==
  /\ env.faults > 0
  /\ env' = [env EXCEPT !.faults = @ - 1]

\* os.path.isdir and isfile answer False where their stat fails, and
\* _list_actual_dirs answers with no directory where os.listdir does: a step of
\* p takes an I/O error for an absence, when "wrong".
Senses(p, step, wrong) ==
  /\ erred' = [erred EXCEPT ![p] = IF wrong THEN @ \cup {step} ELSE @]
  /\ IF wrong THEN Fails ELSE UNCHANGED env

\* What _list_actual_dirs may find of the directories in the root.
Listings == {others, {}} \cup {others \ {d} : d \in others}

\* Mutant: only a vault with the marker is asked for, its directories are not.
Fit_markerOnly(dirs) == ".obsidian" \in others

\* detect_vault_layout finds the marker, and detect_directory_drift, which is
\* given the directories of the root, none that it does not know.  (Missing
\* and ambiguous ones do not block.)
Fit(dirs) == ".obsidian" \in others /\ dirs \subseteq Known

\* check_only reports; apply is refused to readonly_agent, and in a vault
\* that is not fit for it.
Look(p) ==
  /\ pc[p] = "look"
  /\ looked' = [looked EXCEPT ![p] =
       /\ ".obsidian" \in others /\ others \subseteq Known
       /\ call[p].mode = "apply" /\ call[p].profile # "readonly_agent"]
  /\ \E dirs \in Listings :
       /\ Senses(p, "look", dirs # others)
       /\ \/ call[p].mode = "check_only" /\ Goto(p, "report")
          \/ call[p].mode = "dry_run" /\ Goto(p, "plan")
          \/ /\ call[p].mode = "apply"
             /\ call[p].profile # "readonly_agent" /\ Fit(dirs)
             /\ Goto(p, "plan")
          \/ /\ call[p].mode = "apply"
             /\ call[p].profile = "readonly_agent" \/ ~Fit(dirs)
             /\ Goto(p, "refused")
  /\ UNCHANGED <<vault, call, plan, taken, event, made, lacked, calm>>

\* What create_init_plan has to find missing.  A file in the place of a
\* directory is no directory.
Missing == {k \in Keys : at[k] # "dir"} \cup
           IF projection = "none" THEN {Projection} ELSE {}

\* Mutant: a file in the place of a directory is taken for one.
InitPlan_exists(unseen) ==
  [dirs |-> {k \in Keys : at[k] = "none" \/ k \in unseen},
   project |-> projection = "none" \/ Projection \in unseen]

\* Mutant: the projection is generated anew each time.
InitPlan_always(unseen) ==
  [dirs |-> {k \in Keys : at[k] # "dir" \/ k \in unseen}, project |-> TRUE]

\* Mutant: a projection is taken as proof that the vault is set up.
InitPlan_trusting(unseen) ==
  [dirs |-> {k \in Keys : at[k] # "dir" /\ projection = "none"},
   project |-> projection = "none" \/ Projection \in unseen]

\* create_init_plan: to the missing it adds what a failing stat hides.
InitPlan(unseen) == [dirs |-> Keys \cap (Missing \cup unseen),
                     project |-> Projection \in Missing \cup unseen]

Plan(p) ==
  /\ pc[p] = "plan"
  /\ lacked' = [lacked EXCEPT ![p] = Missing]
  /\ \E unseen \in {{}} \cup {{i} : i \in Items \ Missing} :
       /\ Senses(p, "plan", unseen # {})
       /\ plan' = [plan EXCEPT ![p] = InitPlan(unseen)]
  /\ IF call[p].mode = "dry_run" THEN Goto(p, "planned")
     ELSE Goto(p, "make")
  /\ UNCHANGED <<vault, call, taken, event, made, looked, calm>>

\* The first planned directory that this call has not made, in sorted order.
NextKey(p) ==
  LET i == CHOOSE i \in DOMAIN KeyOrder :
             /\ KeyOrder[i] \in plan[p].dirs
             /\ \A j \in 1..(i - 1) : KeyOrder[j] \notin plan[p].dirs
  IN KeyOrder[i]

\* os.makedirs(exist_ok=True) makes the directory, or does nothing where there
\* is one by now, and raises where a file is in the way.  Its action is
\* "completed" in both of the first cases.  (The check of check_path_policy
\* before sees absolute paths, which no root of the policy, a relative path,
\* matches.)
Make(p) ==
  /\ pc[p] = "make" /\ plan[p].dirs # {}
  /\ LET k == NextKey(p)
     IN \/ /\ at[k] # "file"
           /\ at' = [at EXCEPT ![k] = "dir"]
           /\ plan' = [plan EXCEPT ![p].dirs = @ \ {k}]
           /\ taken' = [taken EXCEPT ![p] = @ \cup {k}]
           /\ made' = [made EXCEPT ![p] =
                         IF at[k] = "none" THEN @ \cup {k} ELSE @]
           /\ UNCHANGED pc
        \/ at[k] = "file" /\ Goto(p, "raised")
           /\ UNCHANGED <<at, plan, taken, made>>
  /\ UNCHANGED <<others, projection, call, event, looked, lacked, erred, calm,
                 env>>

\* The projection is written when the plan says so, over whatever is there.
Project(p) ==
  /\ pc[p] = "make" /\ plan[p].dirs = {}
  /\ Goto(p, "audit")
  /\ IF plan[p].project
     THEN /\ projection' = "generated"
          /\ taken' = [taken EXCEPT ![p] = @ \cup {Projection}]
          /\ made' = [made EXCEPT ![p] = @ \cup {Projection}]
     ELSE UNCHANGED <<projection, taken, made>>
  /\ UNCHANGED <<at, others, call, plan, event, looked, lacked, erred, calm,
                 env>>

\* Mutant: affected_paths are all actions, those that skipped an existing
\* directory included.
InitEvent_skipped(p) == taken[p] \cup Keys

\* affected_paths are the actions whose status is "completed".
InitEvent(p) == taken[p]

\* record_event; what becomes of the audit file is the matter of VaultMutation.
Audit(p) ==
  /\ pc[p] = "audit"
  /\ event' = [event EXCEPT ![p] = InitEvent(p)]
  /\ Goto(p, "applied")
  /\ UNCHANGED <<vault, call, plan, taken, made, looked, lacked, erred, calm,
                 env>>

\* An I/O error while things are made is raised and ends the call, and so does
\* one that hides the marker; or the process dies and is started again.  What
\* the call has created stays, and nothing tells of it.
Error(p) ==
  /\ Fails
  /\ \/ pc[p] \in {"make", "audit"} /\ Goto(p, "raised")
     \/ pc[p] = "look" /\ call[p].mode = "apply" /\ Goto(p, "refused")
  /\ UNCHANGED <<vault, local, calm>>

Crash(p) == pc[p] \in Running /\ Fails /\ Forget(p)

-----------------------------------------------------------------------------
(* Everybody else *)

Outside ==
  /\ env.outside > 0
  /\ env' = [env EXCEPT !.outside = @ - 1]
  /\ UNCHANGED <<local, pc>>

\* Directories and the user's own projection appear ...
Appears ==
  /\ Outside /\ UNCHANGED calm
  /\ \/ /\ \E k \in Fragile, w \in {"dir", "file"} :
              at[k] = "none" /\ at' = [at EXCEPT ![k] = w]
        /\ UNCHANGED <<others, projection>>
     \/ /\ \E d \in Others \ others : others' = others \cup {d}
        /\ UNCHANGED <<at, projection>>
     \/ projection' = "user" /\ UNCHANGED <<at, others>>

\* ... and disappear.
Disappears ==
  /\ Outside /\ calm' = [p \in Procs |-> FALSE]
  /\ \/ /\ \E k \in Fragile : at[k] # "none" /\ at' = [at EXCEPT ![k] = "none"]
        /\ UNCHANGED <<others, projection>>
     \/ /\ \E d \in others : others' = others \ {d}
        /\ UNCHANGED <<at, projection>>
     \/ /\ projection # "none" /\ projection' = "none"
        /\ UNCHANGED <<at, others>>

Step(p) ==
  Look(p) \/ Plan(p) \/ Make(p) \/ Project(p) \/ Audit(p) \/ Return(p)

Next ==
  \/ \E p \in Procs : Step(p) \/ Error(p) \/ Crash(p)
  \/ \E p \in Procs, m \in Modes, f \in Callers : Call(p, m, f)
  \/ Appears \/ Disappears

\* A call that has begun goes on.  That agents call apply again and again is
\* their choice, an assumption of RetryConverges alone.
Fairness == \A p \in Procs : WF_vars(Step(p))
Insists  == \A p \in Procs : SF_vars(Call(p, "apply", "admin"))
Spec == Init /\ [][Next]_vars /\ Fairness

-----------------------------------------------------------------------------
(* Properties *)

Ready == projection # "none" /\ \A k \in Keys : at[k] = "dir"

\* When apply says "success" and nobody has deleted anything meanwhile, the
\* vault is set up: whatever an agent may be told to write to, from then on,
\* is a directory of the contract that exists.
SuccessMeansReady ==
  \A p \in Procs : pc[p] = "applied" /\ calm[p] =>
    /\ Ready
    /\ \A i \in Intents :
         IF i \in Deprecated \ Keys THEN Destination(i) = "denied"
         ELSE at[Destination(i)] = "dir"

\* Nothing is created but by an apply that found the vault fit for it: in a
\* folder that is no vault, or whose layout is somebody else's, every mode and
\* every retry leaves things as they are, if the root can be listed.
OnlyFitVaultsChange ==
  [][\A p \in Procs : made'[p] # made[p] /\ made'[p] # {} =>
       looked[p] \/ "look" \in erred[p]]_vars

\* No step of a server removes anything, and the only file it may overwrite
\* is a projection that came into being after its plan was made, or that its
\* plan could not see.
UserFilesSurvive ==
  [][env'.outside = env.outside =>
       /\ \A k \in Keys : at[k] # "none" => at'[k] = at[k]
       /\ others' = others
       /\ projection # "none" => projection' # "none"
       /\ projection = "user" /\ projection' # "user" =>
            \E p \in Procs :
              /\ pc[p] = "make"
              /\ Projection \in lacked[p] \/ "plan" \in erred[p]]_vars

\* The audit event of an apply that succeeds names all the call created, also
\* where another server or the user got there first, and nothing that existed
\* when its plan was made, unless the plan could not see it.
CreatedIsAudited ==
  [][\A p \in Procs : pc'[p] = "applied" /\ pc[p] # "applied" =>
       /\ made[p] \subseteq event'[p]
       /\ event'[p] \subseteq lacked[p] \/ "plan" \in erred[p]]_vars

\* An agent that keeps calling apply gets the vault set up, after any errors,
\* crashes and half-made attempts, unless the marker stays away, or a file or
\* an unknown directory stays in the way.
RetryConverges ==
  Insists /\ <>[](Fit(others) /\ \A k \in Keys : at[k] # "file") => <>[]Ready
=============================================================================
