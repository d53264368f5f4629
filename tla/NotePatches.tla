---------------------------- MODULE NotePatches ----------------------------
(***************************************************************************)
(* What a patch does to a note, and what a search finds of it: the patch   *)
(* operations and checks of change_planner, the shape, the sections and    *)
(* the chunks of markdown_parser, and the source list of a wiki proposal.  *)
(*                                                                         *)
(* A note is a sequence of tokens: words, line ends, and headings.  A      *)
(* heading token is a heading only at the start of a line; after other     *)
(* text it is text like "## B".  A token of "#"s and at most one space is  *)
(* a bare marker: the \s+ of _HEADING_RE takes the line ends behind it, so *)
(* that the next line with text is its title, whatever that line is.  (No  *)
(* line consists of spaces.  Tags and links are left out, and so is what a *)
(* frontmatter says: a patch depends only on whether a line of it opens a  *)
(* list and does not close it.)                                            *)
(***************************************************************************)
EXTENDS Integers, Sequences, FiniteSets, SequencesExt, FiniteSetsExt, VaultPolicy

CONSTANTS
  Drafts,     \* notes that their owner writes
  Patches,    \* patch specifications that agents send
  Callers,    \* profiles of the agents
  Sources,    \* what a search may find for a wiki proposal: lists of paths
  MinChunk,   \* min_chunk_length; the length of a text is its tokens
  MaxLen      \* bound on the length of notes that agents patch

Word(w)       == [level |-> 0, text |-> w]
Heading(l, w) == [level |-> l, text |-> w]
NL            == Word("newline")
REGEX         == Word(".*")      \* stands for all REGEX_INDICATORS
FENCE         == Word("---")
LIST          == Word("key: [")  \* a field whose value starts with "["
CLOSE         == Word("]")       \* stands for all words that end in "]"

-----------------------------------------------------------------------------
(* Headings *)

Bare(t) == t.level > 0 /\ t.text = ""

\* How _HEADING_RE reads a note: at the start of a line, behind a bare marker
\* whose title is still to come, or inside of a line.
After(state, t) ==
  CASE t = NL /\ state = "open" -> "open"
    [] t = NL /\ state # "open" -> "start"
    [] t # NL /\ state = "start" /\ Bare(t) -> "open"
    [] OTHER -> "text"

Scan(c) ==
  LET at[i \in 1..(Len(c) + 1)] == IF i = 1 THEN "start" ELSE After(at[i - 1], c[i - 1])
  IN at

\* A bare marker waits for its title up to the end of the text.
Dangling(c) == Scan(c)[Len(c) + 1] = "open"

Solid(c, i) == {k \in i..Len(c) : c[k] # NL}

Headings(c) ==
  {i \in DOMAIN c : /\ c[i].level > 0 /\ Scan(c)[i] = "start"
                    /\ Bare(c[i]) => Solid(c, i + 1) # {}}

\* The last token of the line of i.
LineLast(c, i) == Min({k \in i..Len(c) : k = Len(c) \/ c[k + 1] = NL})

\* Where the title of heading i starts and ends, and what it is.
TitleAt(c, i) == IF Bare(c[i]) THEN Min(Solid(c, i + 1)) ELSE i
LineEnd(c, i) == LineLast(c, TitleAt(c, i))
Title(c, i)   ==
  LET at == TitleAt(c, i)
  IN [k \in 1..(LineEnd(c, i) - at + 1) |-> IF at + k - 1 = i THEN Word(c[i].text) ELSE c[at + k - 1]]

Strip(c) == IF Solid(c, 1) = {} THEN <<>> ELSE SubSeq(c, Min(Solid(c, 1)), Max(Solid(c, 1)))

-----------------------------------------------------------------------------
(* change_planner *)

ALLOWED_PATCH_OPERATIONS ==
  {"append_under_heading", "replace_section", "replace_exact_text",
   "replace_exact_block", "insert_after_heading"}

\* validate_patch: every field that the operation needs is there and is not
\* empty, and nothing looks like a regular expression.
ValidPatch(p) ==
  /\ p.operation \in ALLOWED_PATCH_OPERATIONS
  /\ p.at # <<>> /\ p.text # <<>>
  /\ p.operation = "replace_exact_block" => p.end # <<>>
  /\ \A s \in {p.at, p.end, p.text} : REGEX \notin Range(s)

\* _find_heading_pos: the first heading with this text.
HeadingsCalled(c, name) == {i \in Headings(c) : Title(c, i) = Strip(name)}

\* Mutants: siblings of the same level do not end a section, or only they do.
NextSibling_above(c, i) ==
  Min({j \in Headings(c) : j > LineEnd(c, i) /\ c[j].level < c[i].level} \cup {Len(c) + 1})
NextSibling_same(c, i) ==
  Min({j \in Headings(c) : j > LineEnd(c, i) /\ c[j].level = c[i].level} \cup {Len(c) + 1})

\* _find_next_sibling
NextSibling(c, i) ==
  Min({j \in Headings(c) : j > LineEnd(c, i) /\ c[j].level <= c[i].level} \cup {Len(c) + 1})

\* _find_marker
Places(c, s, from) == {k \in from..(Len(c) - Len(s) + 1) : SubSeq(c, k, k + Len(s) - 1) = s}

\* Mutant: the character before i is cut as well.
Splice_early(c, i, j, s) == SubSeq(c, 1, i - 2) \o s \o SubSeq(c, j, Len(c))

\* c with its tokens from i up to, not including, j replaced by s.
Splice(c, i, j, s) == SubSeq(c, 1, i - 1) \o s \o SubSeq(c, j, Len(c))

\* _apply_patch_operation: no result is a PatchError.
Patched(c, p) ==
  LET i == Min(HeadingsCalled(c, p.at))
      k == Min(Places(c, p.at, 1))
      after == k + Len(p.at)
      ends  == Places(c, p.end, after)
  IN CASE p.operation = "append_under_heading" /\ HeadingsCalled(c, p.at) # {} ->
            {Splice(c, NextSibling(c, i), NextSibling(c, i), <<NL>> \o p.text)}
       [] p.operation = "insert_after_heading" /\ HeadingsCalled(c, p.at) # {} ->
            {Splice(c, LineEnd(c, i) + 1, LineEnd(c, i) + 1, <<NL>> \o p.text)}
       [] p.operation = "replace_section" /\ HeadingsCalled(c, p.at) # {} ->
            {Splice(c, i, NextSibling(c, i), p.text)}
       [] p.operation = "replace_exact_text" /\ Places(c, p.at, 1) # {} ->
            {Splice(c, k, after, p.text)}
       [] p.operation = "replace_exact_block" /\ Places(c, p.at, 1) # {} ->
            IF ends = {} THEN {} ELSE {Splice(c, k, Min(ends) + Len(p.end), p.text)}
       [] OTHER -> {}

-----------------------------------------------------------------------------
(* markdown_parser *)

\* _FRONTMATTER_RE: the places between two lines of "---", the first of which
\* begins the note.
Frontmatter(c) ==
  LET begin == Min(Solid(c, 3))
      ends  == Places(c, <<NL, FENCE, NL>>, begin)
  IN IF Solid(c, 3) # {} /\ c[1] = FENCE /\ c[2] = NL /\ ends # {}
     THEN begin..(Min(ends) - 1) ELSE {}

\* validate_markdown_shape: no line of the frontmatter opens a list that it does
\* not close, and no heading is more than one level below the one before it.
ValidShape(c) ==
  /\ \A i \in Frontmatter(c) : c[i] = LIST /\ c[i - 1] = NL => c[LineLast(c, i)] = CLOSE
  /\ \A i, j \in Headings(c) :
       i < j /\ Headings(c) \cap (i + 1)..(j - 1) = {} => c[j].level <= c[i].level + 1

\* Mutant: a note is cut at its headings of level 1.
TopLevel_one(c) == 1

TopLevel(c) == Min({c[i].level : i \in Headings(c)} \cup {6})

\* Mutant: a section ends at the next heading of its own level.
SectionEnd_same(c, i) ==
  Min({j \in Headings(c) : j > i /\ c[j].level = c[i].level} \cup {Len(c) + 1})

SectionEnd(c, i) ==
  Min({j \in Headings(c) : j > i /\ c[j].level <= c[i].level} \cup {Len(c) + 1})

\* extract_sections, _build_subsections: the headings that get a section, by
\* level: those of the top level, and one level further down those inside of
\* a section.  A heading before the first of the top level gets none.
SectionHeads(c) ==
  LET heads[l \in 0..6] ==
        IF l < TopLevel(c) THEN {}
        ELSE {i \in Headings(c) : c[i].level = l /\
                (l = TopLevel(c) \/ \E p \in heads[l - 1] : p < i /\ i < SectionEnd(c, p))}
  IN UNION {heads[l] : l \in 1..6}

\* The text of a section includes those of its subsections.
SectionText(c, i) == Strip(SubSeq(c, LineEnd(c, i) + 2, SectionEnd(c, i) - 1))

\* chunk_note, _collect_chunks: a section without text has its heading for
\* one; a note without headings is one chunk.
Chunks(c) ==
  LET all == IF Headings(c) = {} THEN {[head |-> 0, text |-> Strip(c)]}
             ELSE {[head |-> i,
                    text |-> IF SectionText(c, i) = <<>> THEN Title(c, i) ELSE SectionText(c, i)] :
                     i \in SectionHeads(c)}
  IN {ch \in all : ch.text # <<>> /\ Len(ch.text) >= MinChunk}

-----------------------------------------------------------------------------
(* wiki_update_service *)

\* _source_reference_block, but for its heading
References(paths) ==
  [k \in 1..(2 * Len(paths)) |-> IF k % 2 = 1 THEN Word(paths[(k + 1) \div 2]) ELSE NL]

\* Mutant: the list of sources is one level further down.
WithSources_deeper(c, paths) ==
  Strip(c) \o <<NL, Heading(3, "Sources"), NL>> \o References(paths)

\* _with_source_references
WithSources(c, paths) ==
  LET body == IF Solid(c, 1) = {} THEN <<>> ELSE SubSeq(c, 1, Max(Solid(c, 1)))
  IN IF paths = <<>> THEN c
     ELSE body \o <<NL, NL, Heading(2, "Sources"), NL, NL>> \o References(paths)

-----------------------------------------------------------------------------
(* One note that its owner and agents write *)

VARIABLES
  note,      \* its content
  plan,      \* the MutationPlan of an agent that waits for the lock, if any
  last,      \* how the note got this content
  proposal,  \* the proposal in the last answer of the server, if any
  answer     \* that answer

vars == <<note, plan, last, proposal, answer>>

Texts(p) == {p.at, p.end, p.text}
Token == {NL} \cup UNION {Range(s) : s \in Drafts \cup UNION {Texts(p) : p \in Patches}}

\* A heading has up to six "#"s, and a reference is "- [[path]]".
ASSUME TokensAssumption ==
  /\ MinChunk \in Nat \ {0}
  /\ \A t \in Token : t.level \in 0..6
  /\ Drafts \subseteq Seq(Token) /\ \A p \in Patches : Texts(p) \subseteq Seq(Token)
  /\ \A paths \in Sources : /\ paths \in Seq(Range(paths))
                           /\ \A k \in DOMAIN paths : Word(paths[k]) \notin {NL, FENCE}

None  == [draft |-> <<>>, sources |-> <<>>, new |-> <<>>]
Owner == [old |-> <<>>, patch |-> [operation |-> "none"]]

TypeOK ==
  /\ note \in Seq(Token)
  /\ \A pl \in plan : pl.old \in Seq(Token) /\ pl.new \in Seq(Token)
                      /\ pl.patch \in Patches
  /\ Cardinality(plan) <= 1
  /\ last = Owner \/ (last.old \in Seq(Token) /\ last.patch \in Patches)
  /\ proposal.draft \in Drafts \cup {<<>>}
  /\ answer \in {"none", "planned", "written", "refused", "conflict", "proposed"}

Init ==
  /\ note \in Drafts
  /\ plan = {} /\ last = Owner
  /\ proposal = None
  /\ answer = "none"

\* In Obsidian, or with write_note: no patch is involved.
OwnerWrites ==
  /\ \E d \in Drafts : note' = d
  /\ last' = Owner
  /\ proposal' = None /\ answer' = "none"
  /\ UNCHANGED plan

\* What prepare_change makes of a request whose expected revision is that of
\* the note, or is not: one plan, or an exception.
Plans(profile, op, p, fresh) ==
  IF Authorize(profile, "note", op, TRUE, {}) /\ ValidPatch(p) /\ fresh
  THEN {[old |-> note, new |-> c, patch |-> p] : c \in {c \in Patched(note, p) : ValidShape(c)}}
  ELSE {}

\* append_note and edit_note, up to the lock; preview_diff is the same with
\* the operation "propose", and nothing follows it.
Prepare ==
  /\ plan = {} /\ Len(note) <= MaxLen
  /\ \E profile \in Callers, op \in {"append", "edit", "propose"},
        p \in Patches, fresh \in BOOLEAN :
       LET made == Plans(profile, op, p, fresh)
       IN /\ plan' = IF op = "propose" THEN {} ELSE made
          /\ answer' = IF made = {} THEN "refused" ELSE "planned"
  /\ proposal' = None
  /\ UNCHANGED <<note, last>>

\* _write_plan_if_revision_matches
Write ==
  \E pl \in plan :
    /\ IF note = pl.old
       THEN /\ note' = pl.new
            /\ last' = [old |-> pl.old, patch |-> pl.patch]
            /\ answer' = "written"
       ELSE answer' = "conflict" /\ UNCHANGED <<note, last>>
    /\ plan' = {} /\ proposal' = None

\* propose_wiki_update: the agent gets a diff, and nothing is written.
Propose ==
  \E profile \in Callers, d \in Drafts, found \in Sources :
    /\ plan = {}
    /\ Authorize(profile, "wiki", "propose", TRUE, {"wiki"})
    /\ proposal' = [draft |-> d, sources |-> found, new |-> WithSources(d, found)]
    /\ answer' = "proposed"
    /\ UNCHANGED <<note, plan, last>>

Next == OwnerWrites \/ Prepare \/ Write \/ Propose

Spec == Init /\ [][Next]_vars

-----------------------------------------------------------------------------
(* Properties *)

Op == last.patch.operation

\* The heading that the last change was addressed to, where it was.
Addressed == Min(HeadingsCalled(last.old, last.patch.at))
OfSection == Op \in {"append_under_heading", "insert_after_heading", "replace_section"}

\* What follows a text without a last line end, or with a bare marker for its
\* last line, becomes a part of this line, see the README.
Closed == LET text == last.patch.text
          IN \/ text[Len(text)] = NL /\ ~Dangling(text)
             \/ SectionEnd(last.old, Addressed) > Len(last.old)

\* The headings of b in a set of places are those of c, d tokens further on.
SameHeadings(b, c, S, d) ==
  \A i \in S : /\ i \in Headings(b) <=> i + d \in Headings(c)
               /\ i \in Headings(b) => /\ c[i + d].level = b[i].level
                                       /\ Title(c, i + d) = Title(b, i)

\* A patch of a section leaves every heading outside of it as it was and where
\* it was, those behind it as far from the end: the planner's sections are
\* those of the parser.  (The text must end its last line and its last title.)
HeadingsSurvive ==
  OfSection /\ Closed =>
    LET end == SectionEnd(last.old, Addressed)
    IN /\ SameHeadings(last.old, note, 1..(Addressed - 1), 0)
       /\ SameHeadings(last.old, note, end..Len(last.old), Len(note) - Len(last.old))

\* A text that an agent has appended under a heading is what a search finds
\* in the chunk of this heading, if it has one.  (The text must end its last
\* line, and neither the text nor a section at the end of the note may end in
\* a bare marker: it would make what follows it a heading.)
AppendedIsFound ==
  /\ Op = "append_under_heading" /\ Closed
  /\ Headings(last.patch.text) = {} /\ ~Dangling(last.patch.text)
  /\ SectionEnd(last.old, Addressed) > Len(last.old) => ~Dangling(last.old)
  /\ Len(Strip(last.patch.text)) >= MinChunk
  /\ Addressed \in SectionHeads(last.old)
  => \E ch \in Chunks(note) :
       /\ ch.head = Addressed
       /\ Places(ch.text, Strip(last.patch.text), 1) # {}

\* A client that repeats a replace_section, because the answer was lost, does
\* no harm, provided the new section starts with the same heading, contains
\* only deeper ones, and ends its last line and its last title.
ReplaceIsIdempotent ==
  /\ Op = "replace_section" /\ Closed
  /\ LET new == last.patch.text
     IN /\ 1 \in Headings(new)
        /\ Title(new, 1) = Title(last.old, Addressed)
        /\ new[1].level >= last.old[Addressed].level
        /\ \A i \in Headings(new) \ {1} : new[i].level > new[1].level
  => Patched(note, last.patch) = {note}

\* Section i, without its heading, contains the token at k.
Encloses(c, i, k) == i \in SectionHeads(c) /\ LineEnd(c, i) < k /\ k < SectionEnd(c, i)

\* Every word below the first heading of the lowest level is in a section, and
\* every section that is long enough is a chunk with all its words: a word is
\* lost to the vector search only if it is above that heading, or if all the
\* sections that contain it are short.  (What is above is lost, see the README.)
ChunksCoverNote ==
  LET lowest == {i \in Headings(note) : \A j \in Headings(note) : note[i].level <= note[j].level}
  IN \A k \in Solid(note, 1) :
       (\A i \in Headings(note) : k \notin i..LineEnd(note, i)) =>
         /\ lowest # {} /\ Min(lowest) < k => \E i \in SectionHeads(note) : Encloses(note, i, k)
         /\ \A i \in SectionHeads(note) :
              Encloses(note, i, k) /\ Len(SectionText(note, i)) >= MinChunk =>
                \E ch \in Chunks(note) : ch.head = i /\ note[k] \in Range(ch.text)

\* Two chunks are of disjoint parts of the note, or one is of a subsection of
\* the other's section and lies within it.
ChunksNest ==
  \A i, j \in SectionHeads(note) :
    i < j => \/ SectionEnd(note, i) <= j
             \/ /\ SectionEnd(note, j) <= SectionEnd(note, i)
                /\ note[i].level < note[j].level

\* A proposal names its sources in a section of its own, where a search finds
\* them (unless the list is too short), and does not spoil the shape of what
\* the agent proposed.  (A bare marker at the end of the draft would take the
\* heading of the list for its title, and a "---" without a line end would get
\* one, and close a frontmatter.)
SourcesAreFound ==
  proposal.sources # <<>> /\ ~Dangling(proposal.draft) =>
    LET d == proposal.draft
    IN /\ ValidShape(d) /\ (d # <<>> => d[Len(d)] # FENCE) => ValidShape(proposal.new)
       /\ Len(Strip(References(proposal.sources))) >= MinChunk =>
            \E ch \in Chunks(proposal.new) :
              Range(References(proposal.sources)) \ {NL} \subseteq Range(ch.text)
=============================================================================
