---------------------------- MODULE VaultPolicy ----------------------------
(***************************************************************************)
(* The policy guard: which profile may do what to which path.  A path is   *)
(* under a root when it starts with it, so a root is the set of the paths  *)
(* under it, and the lists of roots of the configuration are such sets.    *)
(***************************************************************************)

CONSTANT Denied   \* paths under policy.denylist_roots

PERMISSION_MATRIX ==
  LET reader == {"read", "search", "propose"}
      writer == reader \cup {"create", "append", "edit", "write"}
  IN [readonly_agent  |-> reader,
      trusted_writer  |-> writer,
      wiki_maintainer |-> reader,
      cron_summarizer |-> reader \cup {"append"},
      admin           |-> writer \cup {"promote", "refresh", "backup"}]

Profiles        == DOMAIN PERMISSION_MATRIX
DRY_RUN_REQUIRED == {"create", "append", "edit", "write", "promote"}
ALWAYS_DENIED    == {"delete", "bulk_move"}

\* A profile the matrix does not name may do nothing.
Permitted(profile, op) ==
  profile \in Profiles /\ op \in PERMISSION_MATRIX[profile]

\* Mutant: the denylist is consulted for writes only.
Authorize_writesOnly(profile, path, op, dry, proposeOnly) ==
  /\ path \in Denied => op = "refresh"
  /\ path \in proposeOnly => op = "propose"
  /\ Permitted(profile, op)

\* authorize_operation; proposeOnly are the paths under
\* policy.propose_only_roots.  A real write needs dry = TRUE here: the
\* services that write call it with the dry_run they enforce themselves.
Authorize(profile, path, op, dry, proposeOnly) ==
  /\ path \notin Denied
  /\ op \notin ALWAYS_DENIED
  /\ path \in proposeOnly => op = "propose"
  /\ Permitted(profile, op)
  /\ op \in DRY_RUN_REQUIRED => dry

\* filter_search_results
FilterResults(hits) == {h \in hits : h.path \notin Denied}
=============================================================================
