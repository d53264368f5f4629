--------------------------- MODULE MCNotePatches ---------------------------
(***************************************************************************)
(* An instance of NotePatches: notes with three headings in every order of *)
(* levels that matters, notes without headings, with a frontmatter, with a *)
(* bare marker before a heading and at the end, one whose shape is not     *)
(* valid, and every operation on them.                                     *)
(***************************************************************************)
EXTENDS NotePatches

MCA == <<Heading(1, "A"), NL>>
MCB == <<Heading(2, "B"), NL>>
MCC == <<Heading(1, "C"), NL>>
MCx == <<Word("x"), NL>>
MCBare(l) == <<Heading(l, ""), NL>>
MCList == <<FENCE, NL, LIST, CLOSE, NL, FENCE, NL>>

MCDrafts ==
  {MCA \o MCB \o MCx \o MCC,
   MCB \o MCx \o MCA,
   MCA \o MCB \o <<Heading(2, "D"), NL, Word("y")>>,
   <<Heading(1, "A"), NL, Heading(3, "B"), NL, Word("x")>>,
   MCA \o MCBare(2) \o MCC \o MCx,
   MCA \o MCx \o MCBare(3) \o <<NL>>,
   MCList \o MCA,
   <<Word("x"), NL, Word("y")>>}

MCy == <<Word("y"), Word("y"), NL>>

MCTexts == {<<Word("x")>>, MCy, MCB \o <<Word("y"), NL>>, MCx \o MCBare(1)}

MCPatch(ops, ats, ends, texts) == [operation : ops, at : ats, end : ends, text : texts]

MCPatches ==
  LET sectionOps == {"append_under_heading", "insert_after_heading", "replace_section"}
  IN MCPatch(sectionOps, {<<Word("A")>>, <<Word("B")>>}, {<<>>}, MCTexts)
     \cup MCPatch({"append_under_heading"}, {<<Word("E")>>}, {<<>>}, {MCy})
     \cup MCPatch({"replace_exact_text"}, {<<Word("x")>>, MCB, <<CLOSE>>}, {<<>>}, {MCy, <<>>})
     \cup MCPatch({"replace_exact_block"}, {MCB}, {<<>>, MCx}, {MCy, <<REGEX>>})

MCSources == {<<>>, <<"t", "s">>}
=============================================================================
