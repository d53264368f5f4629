--------------------------- MODULE MCMemBankInit ---------------------------
(***************************************************************************)
(* An instance of MemBankInit: two servers, two directories that come and  *)
(* go, and, beside the marker, a directory with a name nobody knows.       *)
(***************************************************************************)
EXTENDS MemBankInit

MCOthers  == {".obsidian", "projects"}
MCIntents == {"wiki", "memory", "notes", "journal", "shopping list"}
=============================================================================
