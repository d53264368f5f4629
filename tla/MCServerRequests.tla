-------------------------- MODULE MCServerRequests --------------------------
(***************************************************************************)
(* An instance of ServerRequests: two requests, one of which may be a      *)
(* backup, two sessions, and reports of at most two lines.                 *)
(***************************************************************************)
EXTENDS ServerRequests, TLC

CONSTANTS r1, r2, s1, s2

MCKeys == {"unknown", "revoked", "trusted_writer", "admin"}

MCMessages ==
  [kind: {"array", "other_tool"}, way: {"http"}, key: {"unknown"}]
  \cup [kind: {"read_note"}, way: {"http"}, key: {"unknown", "trusted_writer"}]
  \cup [kind: {"read_note"}, way: {"script"}, key: {"revoked"}]
  \cup [kind: {"edit_note"}, way: {"http", "inside_loop"}, key: {"trusted_writer"}]
  \cup [kind: {"backup_vault"}, way: {"http"}, key: {"trusted_writer", "admin"}]

MCSetups ==
  {[db |-> TRUE, admin |-> TRUE, repo |-> TRUE], [db |-> FALSE, admin |-> FALSE, repo |-> FALSE]}

MCSymmetry == Permutations({r1, r2}) \cup Permutations({s1, s2})
=============================================================================
