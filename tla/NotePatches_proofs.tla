------------------------ MODULE NotePatches_proofs -------------------------
(***************************************************************************)
(* Proofs about NotePatches, for every set of notes, patches and sources:  *)
(* headings have one to six "#"s, and nothing else is assumed of them.     *)
(*                                                                         *)
(* The state of the note says little; the work is in the operators: how a  *)
(* note is read (ScanAgrees: two notes with the same tokens are read the   *)
(* same way from where they are), what is a line, a section and a chunk    *)
(* (LineEndIs, SectionHeadsAre, SectionTextIs), which headings a patch     *)
(* keeps (SpliceKeeps), and what a section contains after it               *)
(* (TextInSection).  PatchInv is the invariant: a plan, the last change    *)
(* and a proposal are results of these operators.                          *)
(***************************************************************************)
EXTENDS NotePatches, FiniteSetTheorems, NaturalsInduction, SequenceTheorems,
        WellFoundedInduction, TLAPS

-----------------------------------------------------------------------------
(* The least and the greatest of a set *)

\* Every set of natural numbers that is not empty has a least element.
LEMMA LeastNat ==
  ASSUME NEW S \in SUBSET Nat, S # {}
  PROVE  \E x \in S : \A y \in S : x <= y
  <1>. DEFINE R == {s \in Nat \X Nat : s[1] < s[2]}
  <1>1. R = OpToRel(<, Nat)
    BY DEF OpToRel
  <1>2. IsWellFoundedOn(R, Nat)
    BY <1>1, NatLessThanWellFounded
  <1>3. \A x, y \in Nat : y < x => <<y, x>> \in R
    OBVIOUS
  <1>. HIDE DEF R
  <1>4. PICK x \in S : \A y \in S : ~ (<<y, x>> \in R)
    BY <1>2, WFMin
  <1>5. \A y \in S : y \in Nat /\ x \in Nat /\ ~(y < x)
    BY <1>3, <1>4
  <1>. QED BY <1>5

\* Induction, for a set instead of a predicate.
LEMMA NatSet ==
  ASSUME NEW S \in SUBSET Nat, 0 \in S, \A n \in S : n + 1 \in S
  PROVE  S = Nat
  <1>. SUFFICES ASSUME Nat \ S # {} PROVE FALSE
    OBVIOUS
  <1>1. PICK x \in Nat \ S : \A y \in Nat \ S : x <= y
    BY LeastNat
  <1>2. x # 0 /\ x - 1 \in Nat /\ ~(x <= x - 1)
    BY <1>1
  <1>3. x - 1 \in S
    BY <1>1, <1>2
  <1>4. (x - 1) + 1 \in S
    BY <1>3
  <1>. QED BY <1>1, <1>4

LEMMA MinIs ==
  ASSUME NEW S \in SUBSET Nat, S # {}
  PROVE  Min(S) \in S /\ Min(S) \in Nat /\ \A y \in S : Min(S) <= y
  BY LeastNat DEF Min

LEMMA MaxIs ==
  ASSUME NEW n \in Nat, NEW S \in SUBSET (0..n), S # {}
  PROVE  Max(S) \in S /\ Max(S) \in Nat /\ \A y \in S : y <= Max(S)
  <1>. DEFINE D == {n - x : x \in S}
  <1>0. \A x \in S : x \in Nat /\ n - x \in Nat
    OBVIOUS
  <1>1. D \in SUBSET Nat /\ D # {}
    BY <1>0
  <1>2. PICK d \in D : \A e \in D : d <= e
    BY <1>1, LeastNat
  <1>3. PICK x \in S : d = n - x
    BY <1>2
  <1>4. \A y \in S : n - y \in D /\ y \in Nat /\ x \in Nat
    OBVIOUS
  <1>5. \A y \in S : x >= y
    BY <1>2, <1>3, <1>4
  <1>6. Max(S) \in S /\ \A y \in S : Max(S) >= y
    BY <1>5 DEF Max
  <1>. QED BY <1>0, <1>6

-----------------------------------------------------------------------------
(* How a note is read *)

\* T stands for any set of tokens.
Tokens(T) == NL \in T /\ \A t \in T : t.level \in 0..6

LEMMA AfterIs ==
  ASSUME NEW s, NEW t
  PROVE  /\ t = NL => After(s, t) = IF s = "open" THEN "open" ELSE "start"
         /\ t # NL => After(s, t) = IF s = "start" /\ Bare(t) THEN "open" ELSE "text"
  BY DEF After

IsScan(c, n, f) == f = [i \in 1..n |-> IF i = 1 THEN "start" ELSE After(f[i - 1], c[i - 1])]

LEMMA ScanExists ==
  ASSUME NEW c, NEW n \in Nat
  PROVE  \E f : IsScan(c, n, f)
  <1>. DEFINE S == {k \in Nat : \E f : IsScan(c, k, f)}
  <1>1. 0 \in S
    <2>. DEFINE f == [i \in 1..0 |-> "start"]
    <2>1. f = [i \in 1..0 |-> IF i = 1 THEN "start" ELSE After(f[i - 1], c[i - 1])]
      OBVIOUS
    <2>. QED BY <2>1 DEF IsScan
  <1>2. ASSUME NEW k \in S PROVE k + 1 \in S
    <2>1. k \in Nat
      OBVIOUS
    <2>2. PICK f : IsScan(c, k, f)
      OBVIOUS
    <2>. DEFINE At(h, i) == IF i = 1 THEN "start" ELSE After(h[i - 1], c[i - 1])
                g == [i \in 1..(k + 1) |-> IF i = k + 1 THEN At(f, i) ELSE f[i]]
    <2>3. ASSUME NEW i \in 1..(k + 1)
          PROVE  g[i] = At(g, i)
      <3>1. CASE i = 1
        <4>1. i # k + 1 => i \in 1..k
          BY <2>1
        <4>2. i # k + 1 => f[i] = At(f, i)
          BY <2>2, <4>1 DEF IsScan
        <4>. QED BY <3>1, <4>2
      <3>2. CASE i # 1
        <4>1. i - 1 \in 1..k /\ i - 1 \in 1..(k + 1) /\ i - 1 # k + 1
          BY <2>1, <3>2
        <4>2. g[i - 1] = f[i - 1]
          BY <4>1
        <4>3. At(g, i) = At(f, i)
          BY <3>2, <4>2
        <4>4. i # k + 1 => i \in 1..k
          BY <2>1
        <4>5. i # k + 1 => f[i] = At(f, i)
          BY <2>2, <4>4 DEF IsScan
        <4>. QED BY <4>3, <4>5
      <3>. QED BY <3>1, <3>2
    <2>4. g = [i \in 1..(k + 1) |-> g[i]]
      OBVIOUS
    <2>. HIDE DEF g
    <2>5. g = [i \in 1..(k + 1) |-> At(g, i)]
      BY <2>3, <2>4
    <2>. QED BY <2>1, <2>5 DEF IsScan
  <1>. HIDE DEF S
  <1>3. S \in SUBSET Nat
    BY DEF S
  <1>4. S = Nat
    BY <1>1, <1>2, <1>3, NatSet
  <1>. QED BY <1>4 DEF S

\* A note is read from its first token on, one token after the other.
LEMMA ScanIs ==
  ASSUME NEW T, NEW c \in Seq(T)
  PROVE  /\ Scan(c)[1] = "start"
         /\ \A k \in 1..Len(c) : Scan(c)[k + 1] = After(Scan(c)[k], c[k])
  <1>1. Len(c) \in Nat
    OBVIOUS
  <1>. DEFINE at == CHOOSE f : IsScan(c, Len(c) + 1, f)
  <1>2. Scan(c) = at
    BY DEF Scan, IsScan
  <1>3. IsScan(c, Len(c) + 1, at)
    BY <1>1, ScanExists
  <1>. HIDE DEF at
  <1>4. \A i \in 1..(Len(c) + 1) : at[i] = IF i = 1 THEN "start" ELSE After(at[i - 1], c[i - 1])
    BY <1>3 DEF IsScan
  <1>5. 1 \in 1..(Len(c) + 1)
    BY <1>1
  <1>6. \A k \in 1..Len(c) : k + 1 \in 1..(Len(c) + 1) /\ k + 1 # 1 /\ (k + 1) - 1 = k
    BY <1>1
  <1>. QED BY <1>2, <1>4, <1>5, <1>6

\* Two notes with the same tokens are read the same way, if they are up to the
\* first of them.
LEMMA ScanAgrees ==
  ASSUME NEW T, NEW c \in Seq(T), NEW r \in Seq(T),
         NEW a \in 1..(Len(c) + 1), NEW b \in a..(Len(c) + 1), NEW d \in Int,
         1 <= a + d, b + d <= Len(r) + 1,
         Scan(r)[a + d] = Scan(c)[a],
         \A k \in a..(b - 1) : r[k + d] = c[k]
  PROVE  \A k \in a..b : Scan(r)[k + d] = Scan(c)[k]
  <1>. DEFINE S == {n \in Nat : a + n <= b => Scan(r)[(a + n) + d] = Scan(c)[a + n]}
  <1>n. Len(c) \in Nat /\ Len(r) \in Nat /\ a \in Nat /\ b \in Nat /\ 1 <= a /\ a <= b /\ b <= Len(c) + 1
    OBVIOUS
  <1>1. 0 \in S
    <2>1. a + 0 = a
      BY <1>n
    <2>. QED BY <2>1
  <1>2. ASSUME NEW n \in S PROVE n + 1 \in S
    <2>1. n \in Nat
      OBVIOUS
    <2>. SUFFICES ASSUME a + (n + 1) <= b
                  PROVE  Scan(r)[(a + (n + 1)) + d] = Scan(c)[a + (n + 1)]
      BY <2>1
    <2>. DEFINE k == a + n
    <2>2. /\ k <= b /\ k \in a..(b - 1) /\ k \in 1..Len(c) /\ k + d \in 1..Len(r)
          /\ a + (n + 1) = k + 1 /\ (a + (n + 1)) + d = (k + d) + 1
      BY <1>n, <2>1
    <2>3. Scan(r)[k + d] = Scan(c)[k]
      BY <2>2
    <2>. HIDE DEF k
    <2>4. r[k + d] = c[k]
      BY <2>2
    <2>5. Scan(c)[k + 1] = After(Scan(c)[k], c[k])
      BY <2>2, ScanIs
    <2>6. Scan(r)[(k + d) + 1] = After(Scan(r)[k + d], r[k + d])
      BY <2>2, ScanIs
    <2>. QED BY <2>2, <2>3, <2>4, <2>5, <2>6
  <1>. HIDE DEF S
  <1>3. S \in SUBSET Nat
    BY DEF S
  <1>4. S = Nat
    BY <1>1, <1>2, <1>3, NatSet
  <1>5. ASSUME NEW k \in a..b PROVE Scan(r)[k + d] = Scan(c)[k]
    <2>1. k - a \in Nat /\ a + (k - a) = k /\ k <= b
      BY <1>n
    <2>2. k - a \in S
      BY <1>4, <2>1
    <2>. QED BY <2>1, <2>2 DEF S
  <1>. QED BY <1>5

\* While the tokens do not change how a note is read, it does not change.
LEMMA ScanStays ==
  ASSUME NEW T, NEW c \in Seq(T), NEW a \in 1..(Len(c) + 1), NEW b \in a..(Len(c) + 1),
         NEW s, Scan(c)[a] = s, \A k \in a..(b - 1) : After(s, c[k]) = s
  PROVE  \A k \in a..b : Scan(c)[k] = s
  <1>. DEFINE S == {n \in Nat : a + n <= b => Scan(c)[a + n] = s}
  <1>n. Len(c) \in Nat /\ a \in Nat /\ b \in Nat /\ 1 <= a /\ a <= b /\ b <= Len(c) + 1
    OBVIOUS
  <1>1. 0 \in S
    <2>1. a + 0 = a
      BY <1>n
    <2>. QED BY <2>1
  <1>2. ASSUME NEW n \in S PROVE n + 1 \in S
    <2>1. n \in Nat
      OBVIOUS
    <2>. SUFFICES ASSUME a + (n + 1) <= b PROVE Scan(c)[a + (n + 1)] = s
      BY <2>1
    <2>. DEFINE k == a + n
    <2>2. k <= b /\ k \in a..(b - 1) /\ k \in 1..Len(c) /\ a + (n + 1) = k + 1
      BY <1>n, <2>1
    <2>3. Scan(c)[k] = s
      BY <2>2
    <2>. HIDE DEF k
    <2>4. Scan(c)[k + 1] = After(Scan(c)[k], c[k])
      BY <2>2, ScanIs
    <2>. QED BY <2>2, <2>3, <2>4
  <1>. HIDE DEF S
  <1>3. S \in SUBSET Nat
    BY DEF S
  <1>4. S = Nat
    BY <1>1, <1>2, <1>3, NatSet
  <1>5. ASSUME NEW k \in a..b PROVE Scan(c)[k] = s
    <2>1. k - a \in Nat /\ a + (k - a) = k /\ k <= b
      BY <1>n
    <2>2. k - a \in S
      BY <1>4, <2>1
    <2>. QED BY <2>1, <2>2 DEF S
  <1>. QED BY <1>5

-----------------------------------------------------------------------------
(* Lines and headings *)

LEMMA NoteIs ==
  ASSUME NEW T, Tokens(T), NEW c \in Seq(T)
  PROVE  /\ Len(c) \in Nat /\ DOMAIN c = 1..Len(c)
         /\ \A i \in 1..Len(c) : c[i] \in T /\ c[i].level \in 0..6 /\ (c[i].level > 0 => c[i] # NL)
         /\ Headings(c) \subseteq 1..Len(c) /\ Headings(c) \subseteq Nat
         /\ \A i \in Headings(c) : /\ c[i].level \in 1..6 /\ c[i] # NL
                                   /\ Scan(c)[i] = "start"
                                   /\ Bare(c[i]) => Solid(c, i + 1) # {}
  <1>1. /\ Len(c) \in Nat /\ DOMAIN c = 1..Len(c)
        /\ \A i \in 1..Len(c) : c[i] \in T /\ c[i].level \in 0..6
    BY DEF Tokens
  <1>2. NL.level = 0
    BY DEF NL, Word
  <1>3. \A i \in 1..Len(c) : c[i].level > 0 => c[i] # NL
    BY <1>2
  <1>4. /\ Headings(c) \subseteq 1..Len(c)
        /\ \A i \in Headings(c) : /\ c[i].level > 0 /\ Scan(c)[i] = "start"
                                  /\ Bare(c[i]) => Solid(c, i + 1) # {}
    BY <1>1 DEF Headings
  <1>5. \A i \in Headings(c) : c[i].level \in 1..6 /\ c[i] # NL
    BY <1>1, <1>3, <1>4
  <1>. QED BY <1>1, <1>3, <1>4, <1>5

\* The line of i ends at its last token before a line end.
LEMMA LineLastIs ==
  ASSUME NEW T, Tokens(T), NEW c \in Seq(T), NEW i \in 1..Len(c)
  PROVE  LET e == LineLast(c, i)
         IN /\ e \in i..Len(c) /\ e \in Nat
            /\ e = Len(c) \/ c[e + 1] = NL
            /\ \A k \in i..Len(c) : k < e => c[k + 1] # NL
  <1>. DEFINE S == {k \in i..Len(c) : k = Len(c) \/ c[k + 1] = NL}
  <1>1. Len(c) \in Nat /\ i \in Nat /\ i <= Len(c)
    BY NoteIs
  <1>2. S \in SUBSET Nat /\ Len(c) \in S
    BY <1>1
  <1>3. LineLast(c, i) = Min(S)
    BY DEF LineLast
  <1>. HIDE DEF S
  <1>4. Min(S) \in S /\ \A y \in S : Min(S) <= y
    BY <1>2, MinIs
  <1>5. Min(S) \in i..Len(c) /\ (Min(S) = Len(c) \/ c[Min(S) + 1] = NL)
    BY <1>4 DEF S
  <1>6. \A k \in i..Len(c) : k < Min(S) => c[k + 1] # NL
    BY <1>1, <1>4, <1>5 DEF S
  <1>. QED BY <1>1, <1>3, <1>5, <1>6

\* It ends there for every search that finds the first such token.
LEMMA LineLastUnique ==
  ASSUME NEW T, Tokens(T), NEW c \in Seq(T), NEW i \in 1..Len(c), NEW e \in i..Len(c),
         e = Len(c) \/ c[e + 1] = NL,
         \A k \in i..Len(c) : k < e => c[k + 1] # NL
  PROVE  LineLast(c, i) = e
  <1>1. /\ LineLast(c, i) \in i..Len(c)
        /\ LineLast(c, i) = Len(c) \/ c[LineLast(c, i) + 1] = NL
        /\ \A k \in i..Len(c) : k < LineLast(c, i) => c[k + 1] # NL
    BY LineLastIs
  <1>2. Len(c) \in Nat /\ i \in Nat
    BY NoteIs
  <1>3. ~(e < LineLast(c, i))
    BY <1>1, <1>2
  <1>4. ~(LineLast(c, i) < e)
    BY <1>1, <1>2
  <1>. QED BY <1>1, <1>2, <1>3, <1>4

\* The title of a heading starts at its token or, if this is a bare marker, at
\* the first token behind it that is no line end.
LEMMA TitleAtIs ==
  ASSUME NEW T, Tokens(T), NEW c \in Seq(T), NEW i \in Headings(c)
  PROVE  LET at == TitleAt(c, i)
         IN /\ at \in i..Len(c) /\ at \in Nat /\ c[at] # NL
            /\ ~Bare(c[i]) => at = i
            /\ Bare(c[i]) => i < at /\ \A k \in (i + 1)..(at - 1) : c[k] = NL
  <1>1. /\ i \in 1..Len(c) /\ i \in Nat /\ Len(c) \in Nat /\ c[i] # NL
        /\ Bare(c[i]) => Solid(c, i + 1) # {}
    BY NoteIs
  <1>2. CASE ~Bare(c[i])
    BY <1>1, <1>2 DEF TitleAt
  <1>3. CASE Bare(c[i])
    <2>. DEFINE at == Min(Solid(c, i + 1))
    <2>1. Solid(c, i + 1) \in SUBSET Nat
      BY <1>1 DEF Solid
    <2>2. at \in Solid(c, i + 1) /\ at \in Nat /\ \A y \in Solid(c, i + 1) : at <= y
      BY <1>1, <1>3, <2>1, MinIs
    <2>3. TitleAt(c, i) = at
      BY <1>3 DEF TitleAt
    <2>. HIDE DEF at
    <2>4. at \in (i + 1)..Len(c) /\ c[at] # NL
      BY <2>2 DEF Solid
    <2>5. ASSUME NEW k \in (i + 1)..(at - 1) PROVE c[k] = NL
      <3>1. k \in (i + 1)..Len(c) /\ ~(at <= k)
        BY <1>1, <2>4
      <3>. QED BY <2>2, <3>1 DEF Solid
    <2>6. at \in i..Len(c) /\ i < at
      BY <1>1, <2>4
    <2>. QED BY <1>3, <2>2, <2>3, <2>4, <2>5, <2>6
  <1>. QED BY <1>2, <1>3

\* It ends with its line, and no heading starts before that.
LEMMA LineEndIs ==
  ASSUME NEW T, Tokens(T), NEW c \in Seq(T), NEW i \in Headings(c)
  PROVE  LET e == LineEnd(c, i)
         IN /\ e \in i..Len(c) /\ e \in Nat /\ e \in TitleAt(c, i)..Len(c)
            /\ e = Len(c) \/ c[e + 1] = NL
            /\ \A k \in TitleAt(c, i)..Len(c) : k < e => c[k + 1] # NL
            /\ \A k \in (i + 1)..(e + 1) : Scan(c)[k] # "start"
            /\ Scan(c)[e + 1] = "text" /\ c[e] # NL
  <1>. DEFINE at == TitleAt(c, i)  e == LineEnd(c, i)
  <1>1. /\ i \in 1..Len(c) /\ i \in Nat /\ Len(c) \in Nat /\ c[i] # NL /\ Scan(c)[i] = "start"
    BY NoteIs
  <1>2. /\ at \in i..Len(c) /\ at \in Nat /\ c[at] # NL
        /\ ~Bare(c[i]) => at = i
        /\ Bare(c[i]) => i < at /\ \A k \in (i + 1)..(at - 1) : c[k] = NL
    BY TitleAtIs
  <1>2a. e = LineLast(c, at)
    BY DEF LineEnd
  <1>h. at = TitleAt(c, i) /\ e = LineEnd(c, i)
    OBVIOUS
  <1>. HIDE DEF at, e
  <1>3. at \in 1..Len(c)
    BY <1>1, <1>2
  <1>4. /\ e \in at..Len(c) /\ e \in Nat
        /\ e = Len(c) \/ c[e + 1] = NL
        /\ \A k \in at..Len(c) : k < e => c[k + 1] # NL
    BY <1>2a, <1>3, LineLastIs
  <1>n. /\ i \in Nat /\ at \in Nat /\ e \in Nat /\ Len(c) \in Nat
        /\ 1 <= i /\ i <= at /\ at <= e /\ e <= Len(c)
    BY <1>1, <1>2, <1>4
  <1>5. \A k \in at..e : c[k] # NL
    <2>. SUFFICES ASSUME NEW k \in at..e PROVE c[k] # NL
      OBVIOUS
    <2>1. CASE k = at
      BY <1>2, <2>1
    <2>2. CASE k # at
      <3>1. k - 1 \in at..Len(c) /\ k - 1 < e /\ (k - 1) + 1 = k
        BY <1>n, <2>2
      <3>. QED BY <1>4, <3>1
    <2>. QED BY <2>1, <2>2
  \* behind a bare marker the note is open up to the title
  <1>6. (\A k \in (i + 1)..at : Scan(c)[k] # "start") /\ Scan(c)[at + 1] = "text"
    <2>1. CASE ~Bare(c[i])
      <3>1. Scan(c)[i + 1] = "text"
        BY <1>1, <2>1, ScanIs, AfterIs
      <3>2. \A k \in (i + 1)..i : FALSE
        BY <1>1
      <3>. QED BY <1>2, <2>1, <3>1, <3>2
    <2>2. CASE Bare(c[i])
      <3>1. Scan(c)[i + 1] = "open"
        BY <1>1, <2>2, ScanIs, AfterIs
      <3>2. i + 1 \in 1..(Len(c) + 1) /\ at \in (i + 1)..(Len(c) + 1)
        BY <1>n, <1>2, <2>2
      <3>3. \A k \in (i + 1)..(at - 1) : After("open", c[k]) = "open"
        BY <1>2, <2>2, AfterIs
      <3>4. \A k \in (i + 1)..at : Scan(c)[k] = "open"
        BY ONLY <3>1, <3>2, <3>3, c \in Seq(T), ScanStays
      <3>5. at \in (i + 1)..at
        BY <1>n, <1>2, <2>2
      <3>6. Scan(c)[at] = "open"
        BY <3>4, <3>5
      <3>7. Scan(c)[at + 1] = "text"
        BY <1>2, <1>3, <3>6, ScanIs, AfterIs
      <3>. QED BY <3>4, <3>7
    <2>. QED BY <2>1, <2>2
  <1>7. \A k \in (at + 1)..(e + 1) : Scan(c)[k] = "text"
    <2>1. at + 1 \in 1..(Len(c) + 1) /\ e + 1 \in (at + 1)..(Len(c) + 1)
      BY <1>n
    <2>2. \A k \in (at + 1)..((e + 1) - 1) : k \in at..e
      BY <1>n
    <2>3. \A k \in (at + 1)..((e + 1) - 1) : After("text", c[k]) = "text"
      BY <1>5, <2>2, AfterIs
    <2>. DEFINE f == e + 1  g == at + 1
    <2>4. /\ g \in 1..(Len(c) + 1) /\ f \in g..(Len(c) + 1) /\ Scan(c)[g] = "text"
          /\ \A k \in g..(f - 1) : After("text", c[k]) = "text"
      BY <1>6, <2>1, <2>3
    <2>. HIDE DEF f, g
    <2>5. \A k \in g..f : Scan(c)[k] = "text"
      BY ONLY <2>4, c \in Seq(T), ScanStays
    <2>. QED BY <2>5 DEF f, g
  <1>8. \A k \in (i + 1)..(e + 1) : Scan(c)[k] # "start"
    <2>1. \A k \in (i + 1)..(e + 1) : k \in (i + 1)..at \/ k \in (at + 1)..(e + 1)
      BY <1>n
    <2>. QED BY <1>6, <1>7, <2>1
  <1>9. e + 1 \in (at + 1)..(e + 1) /\ e \in at..e /\ e \in i..Len(c)
    BY <1>n
  <1>. QED BY <1>h, <1>4, <1>5, <1>7, <1>8, <1>9

\* No heading is inside of a line.
LEMMA HeadingsApart ==
  ASSUME NEW T, Tokens(T), NEW c \in Seq(T), NEW i \in Headings(c), NEW j \in Headings(c), i < j
  PROVE  LineEnd(c, i) + 1 < j /\ c[LineEnd(c, i) + 1] = NL
  <1>1. /\ i \in 1..Len(c) /\ j \in 1..Len(c) /\ Len(c) \in Nat /\ Scan(c)[j] = "start"
    BY NoteIs
  <1>2. /\ LineEnd(c, i) \in i..Len(c)
        /\ LineEnd(c, i) = Len(c) \/ c[LineEnd(c, i) + 1] = NL
        /\ \A k \in (i + 1)..(LineEnd(c, i) + 1) : Scan(c)[k] # "start"
    BY LineEndIs
  <1>3. j \notin (i + 1)..(LineEnd(c, i) + 1)
    BY <1>1, <1>2
  <1>. QED BY <1>1, <1>2, <1>3

\* In a text that does not end in a bare marker, every heading token that is
\* read at the start of a line is a heading.
LEMMA ClosedHeading ==
  ASSUME NEW T, Tokens(T), NEW c \in Seq(T), ~Dangling(c), NEW i \in 1..Len(c),
         Scan(c)[i] = "start", c[i].level > 0
  PROVE  i \in Headings(c)
  <1>1. Len(c) \in Nat /\ DOMAIN c = 1..Len(c) /\ i \in Nat /\ 1 <= i /\ i <= Len(c) /\ c[i] # NL
    BY NoteIs
  <1>2. ASSUME Bare(c[i]), Solid(c, i + 1) = {} PROVE FALSE
    <2>1. Scan(c)[i + 1] = "open"
      BY <1>1, <1>2, ScanIs, AfterIs
    <2>2. \A k \in (i + 1)..Len(c) : c[k] = NL
      BY <1>2 DEF Solid
    <2>. DEFINE a == i + 1  b == Len(c) + 1
    <2>3. a \in 1..(Len(c) + 1) /\ b \in a..(Len(c) + 1) /\ b \in a..b /\ b - 1 = Len(c)
      BY <1>1
    <2>4. Scan(c)[a] = "open" /\ \A k \in a..(b - 1) : After("open", c[k]) = "open"
      BY <2>1, <2>2, <2>3, AfterIs
    <2>h. b = Len(c) + 1
      OBVIOUS
    <2>. HIDE DEF a, b
    <2>6. \A k \in a..b : Scan(c)[k] = "open"
      BY ONLY <2>3, <2>4, c \in Seq(T), ScanStays
    <2>7. Scan(c)[Len(c) + 1] = "open"
      BY <2>3, <2>6, <2>h
    <2>. QED BY <2>7 DEF Dangling
  <1>. QED BY <1>1, <1>2 DEF Headings

\* A section ends before the next heading of its level or above.
LEMMA SectionEndIs ==
  ASSUME NEW T, Tokens(T), NEW c \in Seq(T), NEW i \in 1..Len(c)
  PROVE  LET e == SectionEnd(c, i)
         IN /\ e \in (i + 1)..(Len(c) + 1) /\ e \in Nat
            /\ (e \in Headings(c) /\ c[e].level <= c[i].level) \/ e = Len(c) + 1
            /\ \A j \in Headings(c) : i < j /\ j < e => c[i].level < c[j].level
  <1>. DEFINE S == {j \in Headings(c) : j > i /\ c[j].level <= c[i].level} \cup {Len(c) + 1}
  <1>1. /\ Len(c) \in Nat /\ i \in Nat /\ i <= Len(c) /\ Headings(c) \subseteq 1..Len(c)
        /\ c[i].level \in Nat /\ \A j \in Headings(c) : c[j].level \in Nat
    BY NoteIs
  <1>2. S \in SUBSET Nat /\ S # {}
    BY <1>1
  <1>3. SectionEnd(c, i) = Min(S)
    BY DEF SectionEnd
  <1>. HIDE DEF S
  <1>4. Min(S) \in S /\ Min(S) \in Nat /\ \A y \in S : Min(S) <= y
    BY <1>2, MinIs
  <1>5. /\ Min(S) \in (i + 1)..(Len(c) + 1)
        /\ (Min(S) \in Headings(c) /\ c[Min(S)].level <= c[i].level) \/ Min(S) = Len(c) + 1
    BY <1>1, <1>4 DEF S
  <1>6. ASSUME NEW j \in Headings(c), i < j, j < Min(S)
        PROVE  c[i].level < c[j].level
    <2>1. j \notin S
      BY <1>1, <1>4, <1>6
    <2>2. ~(c[j].level <= c[i].level)
      BY <1>1, <1>6, <2>1 DEF S
    <2>. QED BY <1>1, <2>2
  <1>. QED BY <1>3, <1>4, <1>5, <1>6

LEMMA SectionEndUnique ==
  ASSUME NEW T, Tokens(T), NEW c \in Seq(T), NEW i \in 1..Len(c),
         NEW e \in (i + 1)..(Len(c) + 1),
         (e \in Headings(c) /\ c[e].level <= c[i].level) \/ e = Len(c) + 1,
         \A j \in Headings(c) : i < j /\ j < e => c[i].level < c[j].level
  PROVE  SectionEnd(c, i) = e
  <1>. DEFINE f == SectionEnd(c, i)
  <1>1. /\ f \in (i + 1)..(Len(c) + 1) /\ f \in Nat
        /\ (f \in Headings(c) /\ c[f].level <= c[i].level) \/ f = Len(c) + 1
        /\ \A j \in Headings(c) : i < j /\ j < f => c[i].level < c[j].level
    BY SectionEndIs
  <1>. HIDE DEF f
  <1>2a. /\ Len(c) \in Nat /\ c[i].level \in 0..6
         /\ \A j \in Headings(c) : c[j].level \in 1..6
    BY NoteIs
  <1>2. /\ Len(c) \in Nat /\ i \in Nat /\ c[i].level \in Nat
        /\ \A j \in Headings(c) : c[j].level \in Nat
    BY <1>2a
  <1>3. ~(e < f)
    BY <1>1, <1>2
  <1>4. ~(f < e)
    BY <1>1, <1>2
  <1>5. e = f
    BY <1>1, <1>2, <1>3, <1>4
  <1>. QED BY <1>5 DEF f

\* The planner's sections are those of the parser.
LEMMA SiblingIsSection ==
  ASSUME NEW T, Tokens(T), NEW c \in Seq(T), NEW i \in Headings(c)
  PROVE  NextSibling(c, i) = SectionEnd(c, i)
  <1>1. Headings(c) \subseteq 1..Len(c) /\ Len(c) \in Nat
    BY NoteIs
  <1>2. LineEnd(c, i) \in i..Len(c)
    BY <1>1, LineEndIs
  <1>3. \A j \in Headings(c) : j > LineEnd(c, i) <=> j > i
    <2>1. ASSUME NEW j \in Headings(c), j > i PROVE j > LineEnd(c, i)
      <3>1. LineEnd(c, i) + 1 < j
        BY <2>1, HeadingsApart
      <3>. QED BY <1>1, <1>2, <3>1
    <2>2. ASSUME NEW j \in Headings(c), j > LineEnd(c, i) PROVE j > i
      BY <1>1, <1>2, <2>2
    <2>. QED BY <2>1, <2>2
  <1>4. {j \in Headings(c) : j > LineEnd(c, i) /\ c[j].level <= c[i].level}
          = {j \in Headings(c) : j > i /\ c[j].level <= c[i].level}
    BY <1>3
  <1>. QED BY <1>4 DEF NextSibling, SectionEnd

-----------------------------------------------------------------------------
(* Sections and chunks *)

LEMMA TopLevelIs ==
  ASSUME NEW T, Tokens(T), NEW c \in Seq(T)
  PROVE  /\ TopLevel(c) \in 1..6
         /\ \A i \in Headings(c) : TopLevel(c) <= c[i].level
         /\ Headings(c) # {} => \E i \in Headings(c) : c[i].level = TopLevel(c)
  <1>. DEFINE S == {c[i].level : i \in Headings(c)} \cup {6}
  <1>1. \A i \in Headings(c) : c[i].level \in 1..6
    BY NoteIs
  <1>2. S \in SUBSET Nat /\ S # {}
    BY <1>1
  <1>3. TopLevel(c) = Min(S)
    BY DEF TopLevel
  <1>. HIDE DEF S
  <1>4. Min(S) \in S /\ Min(S) \in Nat /\ \A y \in S : Min(S) <= y
    BY <1>2, MinIs
  <1>5. Min(S) \in 1..6 /\ Min(S) <= 6 /\ \A i \in Headings(c) : Min(S) <= c[i].level
    BY <1>1, <1>4 DEF S
  <1>6. ASSUME Headings(c) # {} PROVE \E i \in Headings(c) : c[i].level = Min(S)
    <2>1. PICK j \in Headings(c) : TRUE
      BY <1>6
    <2>2. CASE Min(S) = 6
      <3>1. c[j].level = Min(S)
        BY <1>1, <1>5, <2>2
      <3>. QED BY <3>1
    <2>3. CASE Min(S) # 6
      BY <1>4, <2>3 DEF S
    <2>. QED BY <2>2, <2>3
  <1>. QED BY <1>3, <1>5, <1>6

\* The headings of level l with a section, given those one level above.
HeadsAt(c, h, l) ==
  IF l < TopLevel(c) THEN {}
  ELSE {i \in Headings(c) : c[i].level = l /\
          (l = TopLevel(c) \/ \E p \in h[l - 1] : p < i /\ i < SectionEnd(c, p))}
IsHeads(c, n, h) == h = [l \in 0..n |-> HeadsAt(c, h, l)]

LEMMA HeadsExist ==
  ASSUME NEW c, TopLevel(c) \in 1..6, NEW n \in Nat
  PROVE  \E h : IsHeads(c, n, h)
  <1>. DEFINE S == {k \in Nat : \E h : IsHeads(c, k, h)}
  <1>1. 0 \in S
    <2>. DEFINE h == [l \in 0..0 |-> {}]
    <2>1. HeadsAt(c, h, 0) = {}
      BY DEF HeadsAt
    <2>2. h = [l \in 0..0 |-> HeadsAt(c, h, l)]
      BY <2>1
    <2>. QED BY <2>2 DEF IsHeads
  <1>2. ASSUME NEW k \in S PROVE k + 1 \in S
    <2>1. k \in Nat
      OBVIOUS
    <2>2. PICK h : IsHeads(c, k, h)
      OBVIOUS
    <2>. DEFINE g == [l \in 0..(k + 1) |-> IF l = k + 1 THEN HeadsAt(c, h, k + 1) ELSE h[l]]
    <2>3. ASSUME NEW l \in 0..(k + 1)
          PROVE  g[l] = HeadsAt(c, g, l)
      <3>1. CASE l = 0
        <4>1. HeadsAt(c, g, 0) = {} /\ HeadsAt(c, h, 0) = {}
          BY DEF HeadsAt
        <4>2. 0 \in 0..k /\ 0 # k + 1
          BY <2>1
        <4>3. h[0] = HeadsAt(c, h, 0)
          BY <2>2, <4>2 DEF IsHeads
        <4>. QED BY <3>1, <4>1, <4>2, <4>3
      <3>2. CASE l # 0
        <4>1. l - 1 \in 0..k /\ l - 1 \in 0..(k + 1) /\ l - 1 # k + 1
          BY <2>1, <3>2
        <4>2. g[l - 1] = h[l - 1]
          BY <4>1
        <4>3. HeadsAt(c, g, l) = HeadsAt(c, h, l)
          BY <4>2 DEF HeadsAt
        <4>4. l # k + 1 => l \in 0..k
          BY <2>1
        <4>5. l # k + 1 => h[l] = HeadsAt(c, h, l)
          BY <2>2, <4>4 DEF IsHeads
        <4>. QED BY <4>3, <4>5
      <3>. QED BY <3>1, <3>2
    <2>4. g = [l \in 0..(k + 1) |-> g[l]]
      OBVIOUS
    <2>. HIDE DEF g
    <2>5. g = [l \in 0..(k + 1) |-> HeadsAt(c, g, l)]
      BY <2>3, <2>4
    <2>. QED BY <2>1, <2>5 DEF IsHeads
  <1>. HIDE DEF S
  <1>3. S \in SUBSET Nat
    BY DEF S
  <1>4. S = Nat
    BY <1>1, <1>2, <1>3, NatSet
  <1>. QED BY <1>4 DEF S

\* A heading has a section if it is of the top level, or is one level further
\* down in a section.
LEMMA SectionHeadsAre ==
  ASSUME NEW T, Tokens(T), NEW c \in Seq(T)
  PROVE  /\ SectionHeads(c) \subseteq Headings(c)
         /\ \A i \in Headings(c) :
              i \in SectionHeads(c) <=>
                \/ c[i].level = TopLevel(c)
                \/ \E p \in SectionHeads(c) :
                     c[p].level = c[i].level - 1 /\ p < i /\ i < SectionEnd(c, p)
  <1>. DEFINE heads == CHOOSE h : IsHeads(c, 6, h)
  <1>1. SectionHeads(c) = UNION {heads[l] : l \in 1..6}
    BY DEF SectionHeads, IsHeads, HeadsAt
  <1>2. TopLevel(c) \in 1..6 /\ \A i \in Headings(c) : c[i].level \in 1..6 /\ TopLevel(c) <= c[i].level
    BY TopLevelIs, NoteIs
  <1>3. IsHeads(c, 6, heads)
    BY <1>2, HeadsExist
  <1>. HIDE DEF heads
  <1>4. \A l \in 0..6 : heads[l] = HeadsAt(c, heads, l)
    BY <1>3 DEF IsHeads
  <1>5. \A l \in 0..6 : \A i \in heads[l] : i \in Headings(c) /\ c[i].level = l
    BY <1>4 DEF HeadsAt
  <1>6. heads[0] = {}
    BY <1>2, <1>4 DEF HeadsAt
  <1>7. \A i \in Headings(c) : i \in SectionHeads(c) <=> i \in heads[c[i].level]
    BY <1>1, <1>2, <1>5
  <1>8. SectionHeads(c) \subseteq Headings(c)
    BY <1>1, <1>5
  <1>9. ASSUME NEW i \in Headings(c)
        PROVE  i \in heads[c[i].level] <=>
                 \/ c[i].level = TopLevel(c)
                 \/ \E p \in heads[c[i].level - 1] : p < i /\ i < SectionEnd(c, p)
    <2>1. c[i].level \in 0..6 /\ ~(c[i].level < TopLevel(c))
      BY <1>2
    <2>. QED BY <1>4, <2>1 DEF HeadsAt
  <1>10. ASSUME NEW i \in Headings(c), NEW p
         PROVE  p \in heads[c[i].level - 1] <=> p \in SectionHeads(c) /\ c[p].level = c[i].level - 1
    <2>1. c[i].level - 1 \in 0..6
      BY <1>2
    <2>2. p \in heads[c[i].level - 1] => p \in Headings(c) /\ c[p].level = c[i].level - 1
      BY <1>5, <2>1
    <2>. QED BY <1>7, <1>8, <2>2
  <1>. QED BY <1>7, <1>8, <1>9, <1>10

\* Two sections are apart, or one is inside of the other.
LEMMA SectionsNest ==
  ASSUME NEW T, Tokens(T), NEW c \in Seq(T), NEW i \in Headings(c), NEW j \in Headings(c), i < j
  PROVE  \/ SectionEnd(c, i) <= j
         \/ SectionEnd(c, j) <= SectionEnd(c, i) /\ c[i].level < c[j].level
  <1>. DEFINE e == SectionEnd(c, i)  f == SectionEnd(c, j)
  <1>1. /\ i \in 1..Len(c) /\ j \in 1..Len(c) /\ Len(c) \in Nat
        /\ \A k \in Headings(c) : k \in Nat /\ c[k].level \in Nat
    BY NoteIs
  <1>2. /\ e \in (i + 1)..(Len(c) + 1) /\ e \in Nat
        /\ (e \in Headings(c) /\ c[e].level <= c[i].level) \/ e = Len(c) + 1
        /\ \A k \in Headings(c) : i < k /\ k < e => c[i].level < c[k].level
    BY <1>1, SectionEndIs
  <1>3. /\ f \in (j + 1)..(Len(c) + 1) /\ f \in Nat
        /\ \A k \in Headings(c) : j < k /\ k < f => c[j].level < c[k].level
    BY <1>1, SectionEndIs
  <1>. HIDE DEF e, f
  <1>4. CASE j < e
    <2>1. c[i].level < c[j].level
      BY <1>2, <1>4
    <2>2. CASE e = Len(c) + 1
      BY <1>1, <1>3, <2>1, <2>2 DEF e, f
    <2>3. CASE e \in Headings(c) /\ c[e].level <= c[i].level
      <3>1. ~(c[j].level < c[e].level)
        BY <1>1, <2>1, <2>3
      <3>2. ~(e < f)
        BY <1>3, <1>4, <2>3, <3>1
      <3>. QED BY <1>2, <1>3, <2>1, <3>2 DEF e, f
    <2>. QED BY <1>2, <2>2, <2>3
  <1>5. CASE ~(j < e)
    BY <1>1, <1>2, <1>5 DEF e
  <1>. QED BY <1>4, <1>5

LEMMA SubSeqIs ==
  ASSUME NEW T, NEW c \in Seq(T), NEW a \in 1..(Len(c) + 1), NEW b \in (a - 1)..Len(c)
  PROVE  /\ SubSeq(c, a, b) \in Seq(T) /\ Len(SubSeq(c, a, b)) = b - a + 1
         /\ \A i \in 1..(b - a + 1) : SubSeq(c, a, b)[i] = c[a + i - 1]
  <1>1. Len(c) \in Nat /\ a \in Int /\ b \in Int /\ \A i \in a..b : c[i] \in T
    OBVIOUS
  <1>2. /\ SubSeq(c, a, b) \in Seq(T)
        /\ Len(SubSeq(c, a, b)) = IF a <= b THEN b - a + 1 ELSE 0
        /\ \A i \in 1..(b - a + 1) : SubSeq(c, a, b)[i] = c[a + i - 1]
    BY <1>1, SubSeqProperties
  <1>. QED BY <1>1, <1>2

\* SeqEqual of the library, with the length as a name.
LEMMA EqualTexts ==
  ASSUME NEW T, NEW r \in Seq(T), NEW s \in Seq(T), NEW n, Len(r) = n, Len(s) = n,
         \A x \in 1..n : r[x] = s[x]
  PROVE  r = s
  OBVIOUS

\* A text is stripped of the line ends around its other tokens.
LEMMA StripIs ==
  ASSUME NEW T, Tokens(T), NEW c \in Seq(T), NEW k \in 1..Len(c), c[k] # NL
  PROVE  \E a, b \in 1..Len(c) :
           /\ a <= k /\ k <= b /\ c[a] # NL /\ c[b] # NL
           /\ \A x \in 1..Len(c) : x < a \/ b < x => c[x] = NL
           /\ Strip(c) = SubSeq(c, a, b)
  <1>. DEFINE solid == Solid(c, 1)  a == Min(solid)  b == Max(solid)
  <1>1. Len(c) \in Nat
    BY NoteIs
  <1>0. \A x : x \in solid <=> x \in 1..Len(c) /\ c[x] # NL
    BY DEF Solid
  <1>h. solid = Solid(c, 1)
    OBVIOUS
  <1>. HIDE DEF solid
  <1>2. k \in solid /\ solid \in SUBSET Nat /\ solid \in SUBSET (0..Len(c)) /\ solid # {}
    BY <1>0, <1>1
  <1>4. Strip(c) = SubSeq(c, a, b)
    BY <1>2, <1>h DEF Strip
  <1>5. a \in solid /\ \A y \in solid : a <= y
    BY <1>2, MinIs
  <1>6. b \in solid /\ \A y \in solid : y <= b
    BY <1>1, <1>2, MaxIs
  <1>. HIDE DEF a, b
  <1>7. /\ a \in 1..Len(c) /\ b \in 1..Len(c) /\ c[a] # NL /\ c[b] # NL
        /\ a <= k /\ k <= b
    BY <1>0, <1>2, <1>5, <1>6
  <1>8. ASSUME NEW x \in 1..Len(c), x < a \/ b < x
        PROVE  c[x] = NL
    <2>1. x \notin solid
      BY <1>5, <1>6, <1>7, <1>8
    <2>. QED BY <1>0, <2>1
  <1>. QED BY <1>4, <1>7, <1>8

LEMMA StripBlank ==
  ASSUME NEW T, NEW c \in Seq(T), \A k \in 1..Len(c) : c[k] = NL
  PROVE  Strip(c) = <<>>
  BY DEF Strip, Solid

\* The text of a section is what is between its line ends.
LEMMA SectionTextIs ==
  ASSUME NEW T, Tokens(T), NEW c \in Seq(T), NEW i \in Headings(c),
         NEW k \in 1..Len(c), LineEnd(c, i) < k, k < SectionEnd(c, i), c[k] # NL
  PROVE  \E a, b \in 1..Len(c) :
           /\ LineEnd(c, i) + 1 < a /\ a <= k /\ k <= b /\ b < SectionEnd(c, i)
           /\ SectionText(c, i) = SubSeq(c, a, b)
           /\ c[a] # NL /\ c[b] # NL
           /\ \A x \in 1..Len(c) :
                LineEnd(c, i) < x /\ x < SectionEnd(c, i) /\ (x < a \/ b < x) => c[x] = NL
  <1>. DEFINE l == LineEnd(c, i)  e == SectionEnd(c, i)  sub == SubSeq(c, l + 2, e - 1)
  <1>1. i \in 1..Len(c) /\ Len(c) \in Nat /\ DOMAIN c = 1..Len(c)
    BY NoteIs
  <1>2. /\ l \in i..Len(c) /\ l \in Nat /\ (l = Len(c) \/ c[l + 1] = NL)
        /\ e \in (i + 1)..(Len(c) + 1) /\ e \in Nat
    BY <1>1, LineEndIs, SectionEndIs
  <1>3. l # Len(c) /\ c[l + 1] = NL /\ k # l + 1
    BY <1>1, <1>2
  <1>4. SectionText(c, i) = Strip(sub)
    BY DEF SectionText
  <1>. HIDE DEF l, e
  <1>5. l + 2 \in 1..(Len(c) + 1) /\ e - 1 \in ((l + 2) - 1)..Len(c) /\ l < k /\ k < e
    BY <1>1, <1>2, <1>3 DEF l, e
  <1>6. /\ sub \in Seq(T) /\ Len(sub) = (e - 1) - (l + 2) + 1
        /\ \A x \in 1..((e - 1) - (l + 2) + 1) : sub[x] = c[(l + 2) + x - 1]
    BY <1>5, SubSeqIs
  <1>7. Len(sub) = e - l - 2 /\ \A x \in 1..Len(sub) : sub[x] = c[l + 1 + x]
    <2>1. (e - 1) - (l + 2) + 1 = e - l - 2
      BY <1>2
    <2>2. \A x \in 1..(e - l - 2) : (l + 2) + x - 1 = l + 1 + x
      BY <1>2
    <2>. QED BY <1>6, <2>1, <2>2
  <1>. HIDE DEF sub
  <1>n. /\ k \in Nat /\ l \in Nat /\ e \in Nat /\ Len(c) \in Nat /\ Len(sub) \in Nat
        /\ Len(sub) = e - l - 2 /\ l + 2 <= k /\ k < e /\ e <= Len(c) + 1
    <2>0. Len(c) \in Nat
      BY <1>1
    <2>0a. k \in Nat
      BY <2>0
    <2>0b. l \in Nat /\ e \in Nat
      BY <1>2
    <2>1. k \in Nat /\ l \in Nat /\ e \in Nat /\ Len(c) \in Nat
      BY <2>0, <2>0a, <2>0b
    <2>2. l + 2 <= k
      BY <2>1, <1>3, <1>5
    <2>3. k < e
      BY <1>5
    <2>3a. e - 1 \in ((l + 2) - 1)..Len(c)
      BY <1>5
    <2>4. e <= Len(c) + 1
      BY <2>1, <2>3a
    <2>5. Len(sub) = e - l - 2
      BY <1>7
    <2>6. Len(sub) \in Nat
      BY <2>1, <2>2, <2>3, <2>5
    <2>. QED BY <2>1, <2>2, <2>3, <2>4, <2>5, <2>6
  <1>m. \A x \in 1..Len(sub) : sub[x] = c[l + 1 + x]
    BY <1>7
  <1>8. k - l - 1 \in 1..Len(sub) /\ l + 1 + (k - l - 1) = k
    BY <1>n
  <1>9. sub[k - l - 1] # NL
    BY <1>m, <1>8
  <1>10. PICK a, b \in 1..Len(sub) :
           /\ a <= k - l - 1 /\ k - l - 1 <= b /\ sub[a] # NL /\ sub[b] # NL
           /\ \A x \in 1..Len(sub) : x < a \/ b < x => sub[x] = NL
           /\ Strip(sub) = SubSeq(sub, a, b)
    BY <1>6, <1>8, <1>9, StripIs
  <1>. DEFINE aa == l + 1 + a  bb == l + 1 + b
  <1>ab. a \in Nat /\ b \in Nat /\ 1 <= a /\ a <= k - l - 1 /\ k - l - 1 <= b /\ b <= Len(sub)
    BY <1>n, <1>10
  <1>11. /\ aa \in 1..Len(c) /\ bb \in 1..Len(c) /\ l + 1 < aa /\ aa <= k /\ k <= bb /\ bb < e
         /\ aa \in Nat /\ bb \in Nat
    BY <1>n, <1>ab
  <1>11a. c[aa] # NL /\ c[bb] # NL
    BY <1>m, <1>10
  <1>12. ASSUME NEW x \in 1..Len(c), l < x, x < e, x < aa \/ bb < x
         PROVE  c[x] = NL
    <2>1. CASE x = l + 1
      BY <1>3, <2>1
    <2>2. CASE x # l + 1
      <3>0. x \in Nat
        BY <1>n
      <3>1. x - l - 1 \in 1..Len(sub) /\ l + 1 + (x - l - 1) = x
        BY <1>n, <1>12, <2>2, <3>0
      <3>2. x - l - 1 < a \/ b < x - l - 1
        BY <1>n, <1>ab, <1>12, <3>0
      <3>3. sub[x - l - 1] = NL
        BY <1>10, <3>1, <3>2
      <3>. QED BY <1>m, <3>1, <3>3
    <2>. QED BY <2>1, <2>2
  <1>13. SubSeq(sub, a, b) = SubSeq(c, aa, bb)
    <2>1. a \in 1..(Len(sub) + 1) /\ b \in (a - 1)..Len(sub)
      BY <1>n, <1>ab
    <2>2. /\ SubSeq(sub, a, b) \in Seq(T) /\ Len(SubSeq(sub, a, b)) = b - a + 1
          /\ \A x \in 1..(b - a + 1) : SubSeq(sub, a, b)[x] = sub[a + x - 1]
      BY <1>6, <2>1, SubSeqIs
    <2>3. aa \in 1..(Len(c) + 1) /\ bb \in (aa - 1)..Len(c) /\ bb - aa + 1 = b - a + 1
      BY <1>n, <1>ab, <1>11
    <2>5. \A x \in 1..(b - a + 1) : a + x - 1 \in 1..Len(sub) /\ l + 1 + (a + x - 1) = aa + x - 1
      BY <1>n, <1>ab
    <2>. HIDE DEF aa, bb
    <2>4. /\ SubSeq(c, aa, bb) \in Seq(T) /\ Len(SubSeq(c, aa, bb)) = b - a + 1
          /\ \A x \in 1..(b - a + 1) : SubSeq(c, aa, bb)[x] = c[aa + x - 1]
      BY <2>3, SubSeqIs
    <2>6. \A x \in 1..(b - a + 1) : sub[a + x - 1] = c[aa + x - 1]
      BY <1>m, <2>5
    <2>7. \A x \in 1..(b - a + 1) : SubSeq(sub, a, b)[x] = SubSeq(c, aa, bb)[x]
      BY <2>2, <2>4, <2>6
    <2>. HIDE DEF aa, bb
    <2>. QED BY <2>2, <2>4, <2>7, EqualTexts
  <1>. HIDE DEF aa, bb
  <1>14. /\ l + 1 < aa /\ aa <= k /\ k <= bb /\ bb < e
         /\ SectionText(c, i) = SubSeq(c, aa, bb) /\ c[aa] # NL /\ c[bb] # NL
         /\ \A x \in 1..Len(c) : l < x /\ x < e /\ (x < aa \/ bb < x) => c[x] = NL
    <2>1. SectionText(c, i) = SubSeq(c, aa, bb)
      BY <1>4, <1>10, <1>13
    <2>2. \A x \in 1..Len(c) : l < x /\ x < e /\ (x < aa \/ bb < x) => c[x] = NL
      BY <1>12
    <2>. QED BY <1>11, <1>11a, <2>1, <2>2
  <1>15. \E x, y \in 1..Len(c) :
           /\ l + 1 < x /\ x <= k /\ k <= y /\ y < e
           /\ SectionText(c, i) = SubSeq(c, x, y)
           /\ c[x] # NL /\ c[y] # NL
           /\ \A z \in 1..Len(c) : l < z /\ z < e /\ (z < x \/ y < z) => c[z] = NL
    BY <1>11, <1>14, Zenon
  <1>. QED BY <1>15, Zenon DEF l, e

\* A token of a section is in the chunk of this section, unless that is short.
LEMMA SectionIsChunk ==
  ASSUME NEW T, Tokens(T), NEW c \in Seq(T), NEW i \in SectionHeads(c), MinChunk \in Nat \ {0},
         NEW k \in 1..Len(c), LineEnd(c, i) < k, k < SectionEnd(c, i), c[k] # NL,
         Len(SectionText(c, i)) >= MinChunk
  PROVE  [head |-> i, text |-> SectionText(c, i)] \in Chunks(c) /\ c[k] \in Range(SectionText(c, i))
  <1>1. i \in Headings(c)
    BY SectionHeadsAre
  <1>2. PICK a, b \in 1..Len(c) : a <= k /\ k <= b /\ SectionText(c, i) = SubSeq(c, a, b)
    BY <1>1, SectionTextIs
  <1>3. Len(c) \in Nat /\ a \in 1..(Len(c) + 1) /\ b \in (a - 1)..Len(c)
    BY <1>2, NoteIs
  <1>4. /\ SectionText(c, i) \in Seq(T) /\ Len(SectionText(c, i)) = b - a + 1
        /\ \A x \in 1..(b - a + 1) : SectionText(c, i)[x] = c[a + x - 1]
    BY <1>2, <1>3, SubSeqIs
  <1>5. k - a + 1 \in 1..(b - a + 1) /\ a + (k - a + 1) - 1 = k
    BY <1>2, <1>3
  <1>6. SectionText(c, i)[k - a + 1] = c[k] /\ k - a + 1 \in DOMAIN SectionText(c, i)
    BY <1>4, <1>5
  <1>7. SectionText(c, i) # <<>>
    BY <1>6
  <1>8. Headings(c) # {}
    BY <1>1
  <1>9. [head |-> i, text |-> SectionText(c, i)] \in Chunks(c)
    BY <1>7, <1>8 DEF Chunks
  <1>10. c[k] \in Range(SectionText(c, i))
    BY <1>6 DEF Range
  <1>. QED BY <1>9, <1>10

\* Below the first heading of the lowest level, every word is in the section of
\* the last such heading before it.
LEMMA WordsHaveSections ==
  ASSUME NEW T, Tokens(T), NEW c \in Seq(T),
         NEW f \in Headings(c), \A j \in Headings(c) : c[f].level <= c[j].level,
         NEW k \in f..Len(c), c[k] # NL,
         ~(\E i \in Headings(c) : k \in i..LineEnd(c, i))
  PROVE  \E i \in SectionHeads(c) : Encloses(c, i, k)
  <1>. DEFINE S == {i \in Headings(c) : c[i].level = TopLevel(c) /\ i <= k}
  <1>0. \A i \in Headings(c) : c[i].level \in 1..6
    BY NoteIs
  <1>0a. Len(c) \in Nat /\ Headings(c) \subseteq 1..Len(c) /\ Headings(c) \subseteq Nat
    BY NoteIs
  <1>1. /\ Len(c) \in Nat /\ Headings(c) \subseteq 1..Len(c) /\ Headings(c) \subseteq Nat
        /\ \A i \in Headings(c) : c[i].level \in Nat
    BY <1>0, <1>0a
  <1>2. k \in 1..Len(c) /\ k \in Nat /\ f \in Nat /\ f <= k
    BY <1>1
  <1>3. TopLevel(c) \in Nat /\ \A i \in Headings(c) : TopLevel(c) <= c[i].level
    BY TopLevelIs
  <1>4. c[f].level = TopLevel(c)
    <2>1. PICK i \in Headings(c) : c[i].level = TopLevel(c)
      BY TopLevelIs
    <2>2. c[f].level <= TopLevel(c)
      BY <2>1
    <2>. QED BY <1>1, <1>3, <2>2
  <1>5. f \in S
    BY <1>2, <1>4
  <1>6. S \in SUBSET (0..Len(c)) /\ S # {}
    BY <1>1, <1>5
  <1>. DEFINE i == Max(S)
  <1>7. i \in S /\ \A y \in S : y <= i
    BY <1>1, <1>6, MaxIs
  <1>. HIDE DEF i
  <1>8. i \in Headings(c) /\ c[i].level = TopLevel(c) /\ i <= k /\ i \in Nat /\ i \in 1..Len(c)
    BY <1>1, <1>7
  <1>9. \A j \in Headings(c) : c[j].level = TopLevel(c) /\ j <= k => j <= i
    BY <1>7
  <1>. HIDE DEF S
  <1>10. LineEnd(c, i) \in Nat /\ k \notin i..LineEnd(c, i)
    BY <1>8, LineEndIs
  <1>11. LineEnd(c, i) < k
    BY <1>2, <1>8, <1>10
  <1>12. k < SectionEnd(c, i)
    <2>. DEFINE e == SectionEnd(c, i)
    <2>1. /\ e \in (i + 1)..(Len(c) + 1) /\ e \in Nat
          /\ (e \in Headings(c) /\ c[e].level <= c[i].level) \/ e = Len(c) + 1
      BY <1>8, SectionEndIs
    <2>. HIDE DEF e
    <2>2. CASE e = Len(c) + 1
      BY <1>1, <1>2, <2>2 DEF e
    <2>3. CASE e \in Headings(c) /\ c[e].level <= c[i].level
      <3>1. c[e].level = TopLevel(c)
        BY <1>1, <1>3, <1>8, <2>3
      <3>2. ~(e <= i)
        BY <1>8, <2>1
      <3>3. ~(e <= k)
        BY <1>9, <2>3, <3>1, <3>2
      <3>. QED BY <1>2, <2>1, <3>3 DEF e
    <2>. QED BY <2>1, <2>2, <2>3
  <1>13. i \in SectionHeads(c)
    BY <1>8, SectionHeadsAre
  <1>. QED BY <1>11, <1>12, <1>13 DEF Encloses


-----------------------------------------------------------------------------
(* Cutting and joining *)

\* r is c with s in the place of its tokens from i up to j.
IsSplice(r, c, i, j, s) ==
  /\ Len(s) - (j - i) \in Int /\ Len(r) = Len(c) + (Len(s) - (j - i))
  /\ \A k \in 1..(i - 1) : r[k] = c[k]
  /\ \A k \in 1..Len(s) : r[i - 1 + k] = s[k]
  /\ \A k \in j..Len(c) : r[k + (Len(s) - (j - i))] = c[k]

LEMMA SpliceIs ==
  ASSUME NEW T, NEW c \in Seq(T), NEW s \in Seq(T),
         NEW i \in 1..(Len(c) + 1), NEW j \in i..(Len(c) + 1)
  PROVE  Splice(c, i, j, s) \in Seq(T) /\ IsSplice(Splice(c, i, j, s), c, i, j, s)
  <1>. DEFINE x == SubSeq(c, 1, i - 1)  z == SubSeq(c, j, Len(c))  xs == x \o s  r == xs \o z
              d == Len(s) - (j - i)
  <1>1. Len(c) \in Nat /\ Len(s) \in Nat
    OBVIOUS
  <1>2. i \in Nat /\ j \in Nat /\ 1 <= i /\ i <= j /\ j <= Len(c) + 1
    BY <1>1
  <1>3. 1 \in 1..(Len(c) + 1) /\ i - 1 \in (1 - 1)..Len(c) /\ (i - 1) - 1 + 1 = i - 1
    BY <1>1, <1>2
  <1>4. x \in Seq(T) /\ Len(x) = i - 1 /\ \A k \in 1..(i - 1) : x[k] = c[1 + k - 1]
    BY <1>3, SubSeqIs
  <1>5. Len(c) \in (j - 1)..Len(c) /\ j \in 1..(Len(c) + 1)
    BY <1>1, <1>2
  <1>6. z \in Seq(T) /\ Len(z) = Len(c) - j + 1 /\ \A k \in 1..(Len(c) - j + 1) : z[k] = c[j + k - 1]
    BY <1>5, SubSeqIs
  <1>. HIDE DEF x, z
  <1>7. /\ xs \in Seq(T) /\ Len(xs) = Len(x) + Len(s)
        /\ \A k \in 1..(Len(x) + Len(s)) : xs[k] = IF k <= Len(x) THEN x[k] ELSE s[k - Len(x)]
    BY <1>4, ConcatProperties
  <1>. HIDE DEF xs
  <1>6a. z \in Seq(T)
    BY <1>6
  <1>7a. xs \in Seq(T)
    BY <1>7
  <1>8. /\ r \in Seq(T) /\ Len(r) = Len(xs) + Len(z)
        /\ \A k \in 1..(Len(xs) + Len(z)) : r[k] = IF k <= Len(xs) THEN xs[k] ELSE z[k - Len(xs)]
    BY <1>6a, <1>7a, ConcatProperties
  <1>9. Splice(c, i, j, s) = r
    BY DEF Splice, x, z, xs
  <1>. HIDE DEF r
  <1>10. Len(xs) = i - 1 + Len(s) /\ Len(z) = Len(c) - j + 1 /\ Len(x) = i - 1
    BY <1>4, <1>6, <1>7
  <1>11. Len(r) = Len(c) + d /\ d \in Int
    BY <1>1, <1>2, <1>8, <1>10
  <1>12. ASSUME NEW k \in 1..(i - 1) PROVE r[k] = c[k]
    <2>1. /\ k \in 1..(Len(xs) + Len(z)) /\ k <= Len(xs) /\ k \in 1..(Len(x) + Len(s)) /\ k <= Len(x)
          /\ 1 + k - 1 = k
      BY <1>1, <1>2, <1>10
    <2>2. r[k] = xs[k] /\ xs[k] = x[k]
      BY <1>7, <1>8, <2>1
    <2>. QED BY <1>4, <2>1, <2>2
  <1>13. ASSUME NEW k \in 1..Len(s) PROVE r[i - 1 + k] = s[k]
    <2>. DEFINE m == i - 1 + k
    <2>1. /\ m \in 1..(Len(xs) + Len(z)) /\ m <= Len(xs) /\ m \in 1..(Len(x) + Len(s)) /\ ~(m <= Len(x))
          /\ m - Len(x) = k
      BY <1>1, <1>2, <1>10
    <2>. HIDE DEF m
    <2>2. r[m] = xs[m] /\ xs[m] = s[m - Len(x)]
      BY <1>7, <1>8, <2>1
    <2>. QED BY <2>1, <2>2 DEF m
  <1>14. ASSUME NEW k \in j..Len(c) PROVE r[k + d] = c[k]
    <2>. DEFINE m == k + d
    <2>1. /\ m \in 1..(Len(xs) + Len(z)) /\ ~(m <= Len(xs)) /\ m - Len(xs) = k - j + 1
          /\ k - j + 1 \in 1..(Len(c) - j + 1) /\ j + (k - j + 1) - 1 = k
      BY <1>1, <1>2, <1>10
    <2>. HIDE DEF m
    <2>2. r[m] = z[m - Len(xs)]
      BY <1>8, <2>1
    <2>3. z[k - j + 1] = c[k]
      BY <1>6, <2>1
    <2>. QED BY <2>1, <2>2, <2>3 DEF m
  <1>15. IsSplice(r, c, i, j, s)
    BY <1>11, <1>12, <1>13, <1>14 DEF IsSplice
  <1>. QED BY <1>8, <1>9, <1>15

\* The line of a heading is the same wherever its tokens are, and its token is
\* a heading where it is read at the start of a line.
LEMMA HeadingMoves ==
  ASSUME NEW T, Tokens(T), NEW c \in Seq(T), NEW r \in Seq(T), NEW i \in Headings(c),
         NEW h \in 1..Len(r), Scan(r)[h] = "start",
         LineEnd(c, i) + (h - i) <= Len(r),
         \A k \in i..LineEnd(c, i) : r[k + (h - i)] = c[k],
         LineEnd(c, i) + (h - i) = Len(r) \/ r[LineEnd(c, i) + (h - i) + 1] = NL
  PROVE  /\ h \in Headings(r) /\ r[h] = c[i]
         /\ LineEnd(r, h) = LineEnd(c, i) + (h - i) /\ Title(r, h) = Title(c, i)
  <1>. DEFINE e == LineEnd(c, i)  d == h - i  at == TitleAt(c, i)
  <1>0. Len(c) \in Nat /\ Len(r) \in Nat /\ i \in Nat /\ h \in Nat /\ DOMAIN r = 1..Len(r)
    BY NoteIs
  <1>0c. i \in 1..Len(c) /\ c[i].level \in 1..6
    BY NoteIs
  <1>0d. d \in Int /\ i + d = h /\ d = h - i
    BY <1>0
  <1>0h. /\ e + d <= Len(r) /\ \A k \in i..e : r[k + d] = c[k]
         /\ e + d = Len(r) \/ r[e + d + 1] = NL
    OBVIOUS
  <1>1. /\ at \in i..Len(c) /\ at \in Nat /\ c[at] # NL
        /\ ~Bare(c[i]) => at = i
        /\ Bare(c[i]) => i < at /\ \A k \in (i + 1)..(at - 1) : c[k] = NL
    BY TitleAtIs
  <1>2. /\ e \in at..Len(c) /\ e \in Nat
        /\ \A k \in at..Len(c) : k < e => c[k + 1] # NL
    BY LineEndIs
  <1>e. e = LineEnd(c, i) /\ at = TitleAt(c, i)
    OBVIOUS
  <1>. HIDE DEF e, d, at
  <1>n. /\ i \in Nat /\ at \in Nat /\ e \in Nat /\ Len(c) \in Nat /\ Len(r) \in Nat /\ h \in Nat /\ d \in Int
        /\ 1 <= i /\ i <= at /\ at <= e /\ e <= Len(c) /\ 1 <= h /\ i + d = h /\ e + d <= Len(r)
    BY <1>0, <1>0c, <1>0d, <1>0h, <1>1, <1>2
  <1>3. r[h] = c[i]
    <2>1. i \in i..e
      BY <1>n
    <2>. QED BY <1>0d, <1>0h, <2>1
  <1>4. at + d \in 1..Len(r) /\ r[at + d] # NL
    <2>1. at \in i..e
      BY <1>n
    <2>2. at + d \in 1..Len(r)
      BY <1>n
    <2>. QED BY <1>0h, <1>1, <2>1, <2>2
  <1>5. (Bare(r[h]) => Solid(r, h + 1) # {}) /\ TitleAt(r, h) = at + d
    <2>1. CASE ~Bare(c[i])
      BY <1>0d, <1>1, <1>3, <2>1 DEF TitleAt
    <2>2. CASE Bare(c[i])
      <3>. DEFINE x == at + d  S == Solid(r, h + 1)
      <3>0. S = {k \in (h + 1)..Len(r) : r[k] # NL} /\ x \in Nat
        BY <1>n, <1>4 DEF Solid
      <3>1. x \in S
        <4>0. i < at
          BY <1>1, <2>2
        <4>1. x \in (h + 1)..Len(r)
          BY <1>n, <1>4, <4>0
        <4>. QED BY <1>4, <3>0, <4>1
      <3>2. ASSUME NEW y \in S, y < x PROVE FALSE
        <4>1. y \in (h + 1)..Len(r) /\ r[y] # NL
          BY <3>0
        <4>. DEFINE k == y - d
        <4>2. k \in (i + 1)..(at - 1) /\ k \in i..e /\ k + d = y
          BY <1>n, <3>2, <4>1
        <4>. HIDE DEF k
        <4>3. c[k] = NL /\ r[k + d] = c[k]
          BY <1>0h, <1>1, <2>2, <4>2
        <4>. QED BY <4>1, <4>2, <4>3
      <3>3. S \in SUBSET Nat
        BY <1>n, <3>0
      <3>h. S = Solid(r, h + 1)
        OBVIOUS
      <3>. HIDE DEF S
      <3>4. Min(S) \in S /\ Min(S) \in Nat /\ Min(S) <= x
        BY <3>1, <3>3, MinIs
      <3>5. ~(Min(S) < x)
        BY <3>2, <3>4
      <3>6. Min(S) = x
        BY <3>0, <3>4, <3>5
      <3>7. TitleAt(r, h) = Min(S)
        BY <1>3, <2>2, <3>h DEF TitleAt
      <3>. QED BY <3>1, <3>6, <3>7, <3>h
    <2>. QED BY <2>1, <2>2
  <1>6. h \in Headings(r)
    BY <1>0, <1>0c, <1>3, <1>5 DEF Headings
  <1>7. LineEnd(r, h) = e + d
    <2>. DEFINE x == at + d  z == e + d
    <2>1. x \in 1..Len(r) /\ z \in x..Len(r) /\ (z = Len(r) \/ r[z + 1] = NL)
      BY <1>0h, <1>n, <1>4
    <2>2. ASSUME NEW k \in x..Len(r), k < z PROVE r[k + 1] # NL
      <3>. DEFINE y == k - d
      <3>1. y \in at..Len(c) /\ y < e /\ y + 1 \in i..e /\ (y + 1) + d = k + 1
        BY <1>n, <2>2
      <3>. HIDE DEF y
      <3>2. c[y + 1] # NL
        BY <1>2, <3>1
      <3>. QED BY <1>0h, <3>1, <3>2
    <2>h. x = at + d /\ z = e + d
      OBVIOUS
    <2>. HIDE DEF x, z
    <2>3. LineLast(r, x) = z
      BY <2>1, <2>2, LineLastUnique
    <2>. QED BY <1>5, <2>3, <2>h DEF LineEnd
  <1>8. Title(r, h) = Title(c, i)
    <2>1. (e + d) - (at + d) + 1 = e - at + 1
      BY <1>n
    <2>2. ASSUME NEW k \in 1..(e - at + 1)
          PROVE  (IF (at + d) + k - 1 = h THEN Word(r[h].text) ELSE r[(at + d) + k - 1])
                   = (IF at + k - 1 = i THEN Word(c[i].text) ELSE c[at + k - 1])
      <3>0. k \in Nat /\ 1 <= k /\ k <= e - at + 1
        BY <1>n
      <3>1. /\ at + k - 1 \in i..e /\ (at + k - 1) + d = (at + d) + k - 1
        BY <1>n, <3>0
      <3>1a. (at + d) + k - 1 = h <=> at + k - 1 = i
        BY <1>n, <3>0
      <3>2. r[(at + d) + k - 1] = c[at + k - 1]
        BY <1>0h, <3>1
      <3>. QED BY <1>3, <3>1a, <3>2
    <2>3. [k \in 1..(e - at + 1) |-> IF (at + d) + k - 1 = h THEN Word(r[h].text) ELSE r[(at + d) + k - 1]]
          = [k \in 1..(e - at + 1) |-> IF at + k - 1 = i THEN Word(c[i].text) ELSE c[at + k - 1]]
      BY <2>2
    <2>. QED BY <1>5, <1>7, <1>e, <2>1, <2>3 DEF Title
  <1>. QED BY <1>0d, <1>3, <1>6, <1>7, <1>8, <1>e

\* What is before the start of a line keeps its headings.
LEMMA HeadBefore ==
  ASSUME NEW T, Tokens(T), NEW c \in Seq(T), NEW r \in Seq(T), NEW a \in 1..(Len(c) + 1),
         Scan(c)[a] = "start", a - 1 <= Len(r),
         \A k \in 1..(a - 1) : r[k] = c[k],
         NEW i \in Headings(c), i < a
  PROVE  /\ i \in Headings(r) /\ r[i] = c[i] /\ Title(r, i) = Title(c, i)
         /\ LineEnd(r, i) = LineEnd(c, i) /\ LineEnd(c, i) < a - 1
  <1>. DEFINE e == LineEnd(c, i)
  <1>1. i \in 1..Len(c) /\ i \in Nat /\ Len(c) \in Nat /\ Len(r) \in Nat /\ a \in Nat /\ Scan(c)[i] = "start"
    BY NoteIs
  <1>2. /\ e \in i..Len(c) /\ e \in Nat /\ (e = Len(c) \/ c[e + 1] = NL)
        /\ \A k \in (i + 1)..(e + 1) : Scan(c)[k] # "start"
    BY LineEndIs
  <1>h. e = LineEnd(c, i)
    OBVIOUS
  <1>. HIDE DEF e
  <1>3. a \notin (i + 1)..(e + 1)
    BY <1>2
  <1>n. /\ i \in Nat /\ e \in Nat /\ a \in Nat /\ Len(c) \in Nat /\ Len(r) \in Nat
        /\ 1 <= i /\ i <= e /\ e <= Len(c) /\ e < a - 1 /\ a <= Len(c) + 1 /\ a - 1 <= Len(r)
    BY <1>1, <1>2, <1>3
  <1>4. Scan(r)[i] = "start"
    <2>. DEFINE f == 1  d == 0
    <2>1. /\ f \in 1..(Len(c) + 1) /\ i \in f..(Len(c) + 1) /\ d \in Int
          /\ 1 <= f + d /\ i + d <= Len(r) + 1 /\ i \in f..i /\ i + d = i
      BY <1>n
    <2>2. Scan(r)[f + d] = Scan(c)[f]
      BY ScanIs
    <2>3. \A k \in f..(i - 1) : k \in 1..(a - 1) /\ k + d = k
      BY <1>n
    <2>4. \A k \in f..(i - 1) : r[k + d] = c[k]
      BY <2>3
    <2>. HIDE DEF f, d
    <2>5. \A k \in f..i : Scan(r)[k + d] = Scan(c)[k]
      BY ONLY <2>1, <2>2, <2>4, c \in Seq(T), r \in Seq(T), ScanAgrees
    <2>6. Scan(r)[i + d] = Scan(c)[i]
      BY <2>1, <2>5
    <2>. QED BY <1>1, <2>1, <2>6
  <1>5. /\ i \in 1..Len(r) /\ e + (i - i) = e /\ e <= Len(r)
        /\ \A k \in i..e : k \in 1..(a - 1) /\ k + (i - i) = k
        /\ e + 1 \in 1..(a - 1)
    BY <1>n
  <1>6. \A k \in i..e : r[k + (i - i)] = c[k]
    BY <1>5
  <1>7. r[e + (i - i) + 1] = NL
    <2>1. c[e + 1] = NL
      BY <1>2, <1>n
    <2>. QED BY <1>5, <2>1
  <1>8. /\ i \in Headings(r) /\ r[i] = c[i]
        /\ LineEnd(r, i) = e + (i - i) /\ Title(r, i) = Title(c, i)
    BY <1>4, <1>5, <1>6, <1>7, <1>h, HeadingMoves
  <1>. QED BY <1>5, <1>8, <1>h, <1>n

LEMMA KeptBefore ==
  ASSUME NEW T, Tokens(T), NEW c \in Seq(T), NEW r \in Seq(T), NEW a \in 1..(Len(c) + 1),
         Scan(c)[a] = "start", a - 1 <= Len(r),
         \A k \in 1..(a - 1) : r[k] = c[k]
  PROVE  SameHeadings(c, r, 1..(a - 1), 0) /\ Scan(r)[a] = "start"
  <1>0. Len(c) \in Nat /\ Len(r) \in Nat /\ a \in Nat
    BY NoteIs
  <1>1. Scan(r)[a] = "start"
    <2>. DEFINE f == 1  d == 0
    <2>1. /\ f \in 1..(Len(c) + 1) /\ a \in f..(Len(c) + 1) /\ d \in Int
          /\ 1 <= f + d /\ a + d <= Len(r) + 1 /\ a \in f..a /\ a + d = a
      BY <1>0
    <2>2. Scan(r)[f + d] = Scan(c)[f]
      BY ScanIs
    <2>3. \A k \in f..(a - 1) : k \in 1..(a - 1) /\ k + d = k
      BY <1>0
    <2>4. \A k \in f..(a - 1) : r[k + d] = c[k]
      BY <2>3
    <2>. HIDE DEF f, d
    <2>5. \A k \in f..a : Scan(r)[k + d] = Scan(c)[k]
      BY ONLY <2>1, <2>2, <2>4, c \in Seq(T), r \in Seq(T), ScanAgrees
    <2>6. Scan(r)[a + d] = Scan(c)[a]
      BY <2>1, <2>5
    <2>. QED BY <2>1, <2>6
  <1>2. a \in 1..(Len(r) + 1) /\ a - 1 <= Len(c) /\ \A k \in 1..(a - 1) : c[k] = r[k]
    BY <1>0
  <1>3. ASSUME NEW i \in 1..(a - 1)
        PROVE  /\ i \in Headings(c) <=> i + 0 \in Headings(r)
               /\ i \in Headings(c) => r[i + 0].level = c[i].level /\ Title(r, i + 0) = Title(c, i)
    <2>1. i < a /\ i + 0 = i
      BY <1>0
    <2>2. i \in Headings(c) => i \in Headings(r) /\ r[i] = c[i] /\ Title(r, i) = Title(c, i)
      BY <2>1, HeadBefore
    <2>3. i \in Headings(r) => i \in Headings(c)
      BY <1>1, <1>2, <2>1, HeadBefore
    <2>. QED BY <2>1, <2>2, <2>3
  <1>. QED BY <1>1, <1>3 DEF SameHeadings

\* What is behind a token up to which two notes are read the same way keeps
\* them too.
LEMMA HeadBehind ==
  ASSUME NEW T, Tokens(T), NEW c \in Seq(T), NEW r \in Seq(T), NEW j \in 1..(Len(c) + 1), NEW d \in Int,
         Len(r) = Len(c) + d, j + d >= 1,
         \A k \in j..Len(c) : r[k + d] = c[k],
         Scan(r)[j + d] = Scan(c)[j],
         NEW i \in Headings(c), j <= i
  PROVE  i + d \in Headings(r) /\ r[i + d] = c[i] /\ Title(r, i + d) = Title(c, i)
  <1>. DEFINE e == LineEnd(c, i)  h == i + d
  <1>1. i \in 1..Len(c) /\ i \in Nat /\ Len(c) \in Nat /\ Len(r) \in Nat /\ j \in Nat /\ Scan(c)[i] = "start"
    BY NoteIs
  <1>2. e \in i..Len(c) /\ e \in Nat /\ (e = Len(c) \/ c[e + 1] = NL)
    BY LineEndIs
  <1>h. e = LineEnd(c, i) /\ h = i + d
    OBVIOUS
  <1>. HIDE DEF e
  <1>n. /\ i \in Nat /\ e \in Nat /\ j \in Nat /\ Len(c) \in Nat /\ Len(r) \in Nat
        /\ 1 <= j /\ j <= i /\ i <= e /\ e <= Len(c) /\ Len(r) = Len(c) + d /\ j + d >= 1
    BY <1>1, <1>2
  <1>3. h \in 1..Len(r) /\ h - i = d /\ h \in Nat
    BY <1>n
  <1>4. Scan(r)[h] = "start"
    <2>1. /\ j \in 1..(Len(c) + 1) /\ i \in j..(Len(c) + 1) /\ d \in Int
          /\ 1 <= j + d /\ i + d <= Len(r) + 1 /\ i \in j..i
      BY <1>n
    <2>2. \A k \in j..(i - 1) : k \in j..Len(c)
      BY <1>n
    <2>3. \A k \in j..(i - 1) : r[k + d] = c[k]
      BY <2>2
    <2>4. Scan(r)[j + d] = Scan(c)[j]
      OBVIOUS
    <2>5. \A k \in j..i : Scan(r)[k + d] = Scan(c)[k]
      BY ONLY <2>1, <2>3, <2>4, c \in Seq(T), r \in Seq(T), ScanAgrees
    <2>. QED BY <1>1, <2>1, <2>5
  <1>5. e + d <= Len(r) /\ \A k \in i..e : k \in j..Len(c)
    BY <1>n
  <1>6. \A k \in i..e : r[k + d] = c[k]
    BY <1>5
  <1>7. e + d = Len(r) \/ r[e + d + 1] = NL
    <2>1. CASE e = Len(c)
      BY <1>n, <2>1
    <2>2. CASE e # Len(c)
      <3>1. e + 1 \in j..Len(c) /\ (e + 1) + d = e + d + 1
        BY <1>n, <2>2
      <3>2. r[(e + 1) + d] = c[e + 1]
        BY <3>1
      <3>. QED BY <1>2, <2>2, <3>1, <3>2
    <2>. QED BY <2>1, <2>2
  <1>. HIDE DEF h
  <1>8. /\ e + (h - i) <= Len(r) /\ \A k \in i..e : r[k + (h - i)] = c[k]
        /\ e + (h - i) = Len(r) \/ r[e + (h - i) + 1] = NL
    BY <1>3, <1>5, <1>6, <1>7
  <1>9. h \in Headings(r) /\ r[h] = c[i] /\ Title(r, h) = Title(c, i)
    <2>1. LineEnd(c, i) + (h - i) <= Len(r)
      BY <1>8, <1>h
    <2>2. \A k \in i..LineEnd(c, i) : r[k + (h - i)] = c[k]
      BY <1>8, <1>h
    <2>3. LineEnd(c, i) + (h - i) = Len(r) \/ r[LineEnd(c, i) + (h - i) + 1] = NL
      BY <1>8, <1>h
    <2>4. h \in 1..Len(r) /\ i \in Headings(c) /\ Tokens(T) /\ c \in Seq(T) /\ r \in Seq(T)
      BY <1>3
    <2>. QED BY ONLY <1>4, <2>1, <2>2, <2>3, <2>4, HeadingMoves
  <1>. QED BY <1>9, <1>h

LEMMA KeptBehind ==
  ASSUME NEW T, Tokens(T), NEW c \in Seq(T), NEW r \in Seq(T), NEW j \in 1..(Len(c) + 1), NEW d \in Int,
         Len(r) = Len(c) + d, j + d >= 1,
         \A k \in j..Len(c) : r[k + d] = c[k],
         Scan(r)[j + d] = Scan(c)[j]
  PROVE  SameHeadings(c, r, j..Len(c), d)
  <1>0. Len(c) \in Nat /\ Len(r) \in Nat /\ j \in Nat
    BY NoteIs
  <1>. SUFFICES ASSUME NEW i \in j..Len(c)
                PROVE  /\ i \in Headings(c) <=> i + d \in Headings(r)
                       /\ i \in Headings(c) => /\ r[i + d].level = c[i].level
                                               /\ Title(r, i + d) = Title(c, i)
    BY DEF SameHeadings
  <1>1. j <= i /\ i \in Nat
    BY <1>0
  <1>2. i \in Headings(c) => i + d \in Headings(r) /\ r[i + d] = c[i] /\ Title(r, i + d) = Title(c, i)
    BY <1>1, HeadBehind
  <1>3. ASSUME i + d \in Headings(r) PROVE i \in Headings(c)
    <2>. DEFINE jj == j + d  dd == 0 - d  ii == i + d
    <2>1. /\ jj \in 1..(Len(r) + 1) /\ dd \in Int /\ Len(c) = Len(r) + dd /\ jj + dd >= 1 /\ jj <= ii
          /\ jj + dd = j /\ ii + dd = i
      BY <1>0, <1>1
    <2>2. ASSUME NEW k \in jj..Len(r) PROVE c[k + dd] = r[k]
      <3>1. k + dd \in j..Len(c) /\ (k + dd) + d = k
        BY <1>0
      <3>. QED BY <3>1
    <2>3. Scan(c)[jj + dd] = Scan(r)[jj] /\ ii \in Headings(r)
      BY <1>3, <2>1
    <2>h. ii + dd = i
      BY <2>1
    <2>. HIDE DEF jj, dd, ii
    <2>4. ii + dd \in Headings(c)
      BY <2>1, <2>2, <2>3, HeadBehind
    <2>. QED BY <2>4, <2>h
  <1>. QED BY <1>2, <1>3

\* A text that ends its last line and its last title is read up to the start of
\* a line.
Ends(s) == s # <<>> /\ s[Len(s)] = NL /\ ~Dangling(s)

LEMMA TextEnds ==
  ASSUME NEW T, NEW s \in Seq(T), NEW r \in Seq(T), NEW o \in Nat, Ends(s),
         o + Len(s) <= Len(r), \A k \in 1..Len(s) : r[o + k] = s[k],
         Scan(r)[o + 1] = "start"
  PROVE  Scan(r)[o + Len(s) + 1] = "start"
  <1>. DEFINE n == Len(s)
  <1>1. n \in Nat /\ Len(r) \in Nat /\ n >= 1
    BY DEF Ends
  <1>h. n = Len(s)
    OBVIOUS
  <1>. HIDE DEF n
  <1>2. /\ 1 \in 1..(n + 1) /\ n + 1 \in 1..(n + 1) /\ o \in Int /\ 1 <= 1 + o
        /\ (n + 1) + o <= Len(r) + 1 /\ 1 + o = o + 1 /\ (n + 1) + o = o + n + 1 /\ n \in 1..n
    BY <1>1, <1>h
  <1>3. \A k \in 1..((n + 1) - 1) : k \in 1..n /\ k + o = o + k
    BY <1>1
  <1>4. \A k \in 1..((n + 1) - 1) : r[k + o] = s[k]
    BY <1>3, <1>h
  <1>5. Scan(r)[1 + o] = Scan(s)[1]
    BY <1>2, ScanIs
  <1>. DEFINE b == n + 1  a == 1
  <1>6. /\ a \in 1..(Len(s) + 1) /\ b \in a..(Len(s) + 1) /\ 1 <= a + o /\ b + o <= Len(r) + 1
        /\ Scan(r)[a + o] = Scan(s)[a] /\ \A k \in a..(b - 1) : r[k + o] = s[k]
    BY <1>1, <1>2, <1>4, <1>5, <1>h
  <1>7. b \in a..b
    BY <1>1
  <1>. HIDE DEF a, b
  <1>8. \A k \in a..b : Scan(r)[k + o] = Scan(s)[k]
    BY ONLY <1>6, <1>2, s \in Seq(T), r \in Seq(T), ScanAgrees
  <1>9. Scan(r)[b + o] = Scan(s)[b]
    BY <1>7, <1>8
  <1>10. Scan(s)[n + 1] = After(Scan(s)[n], NL) /\ Scan(s)[n + 1] # "open"
    <2>1. Scan(s)[n + 1] = After(Scan(s)[n], s[n])
      BY <1>2, <1>h, ScanIs
    <2>. QED BY <2>1, <1>h DEF Ends, Dangling
  <1>11. Scan(s)[n + 1] = "start"
    BY <1>10, AfterIs
  <1>. QED BY <1>2, <1>9, <1>11, <1>h DEF b

\* What is before the line of i, and from the heading e on, which is behind j.
LEMMA SpliceKeeps ==
  ASSUME NEW T, Tokens(T), NEW c \in Seq(T), NEW s \in Seq(T),
         NEW i \in 1..(Len(c) + 1), NEW j \in i..(Len(c) + 1),
         NEW a \in 1..i, Scan(c)[a] = "start",
         NEW e \in j..(Len(c) + 1), e \in Headings(c) \/ e = Len(c) + 1,
         e \in Headings(c) =>
           Scan(Splice(c, i, j, s))[e + (Len(Splice(c, i, j, s)) - Len(c))] = "start"
  PROVE  /\ SameHeadings(c, Splice(c, i, j, s), 1..(a - 1), 0)
         /\ SameHeadings(c, Splice(c, i, j, s), e..Len(c), Len(Splice(c, i, j, s)) - Len(c))
  <1>. DEFINE d == Len(s) - (j - i)  r == Splice(c, i, j, s)
  <1>1. /\ r \in Seq(T) /\ d \in Int /\ Len(r) = Len(c) + d
        /\ \A k \in 1..(i - 1) : r[k] = c[k]
        /\ \A k \in j..Len(c) : r[k + d] = c[k]
    <2>1. /\ c \in Seq(T) /\ s \in Seq(T) /\ i \in 1..(Len(c) + 1) /\ j \in i..(Len(c) + 1)
      OBVIOUS
    <2>2. r \in Seq(T) /\ IsSplice(r, c, i, j, s)
      BY ONLY <2>1, SpliceIs
    <2>. HIDE DEF r
    <2>. QED BY <2>2 DEF IsSplice
  <1>2. Len(c) \in Nat /\ Len(s) \in Nat /\ Len(r) \in Nat
    BY <1>1
  <1>3. /\ i \in Nat /\ j \in Nat /\ a \in Nat /\ e \in Nat
        /\ 1 <= a /\ a <= i /\ i <= j /\ j <= e /\ e <= Len(c) + 1
    BY <1>2
  <1>4. Len(r) - Len(c) = d /\ e + d >= 1 /\ e + d \in Int
    BY <1>1, <1>2, <1>3
  <1>5. i - 1 + Len(s) + 1 = j + d
    BY <1>2, <1>3
  <1>6. SameHeadings(c, r, 1..(a - 1), 0)
    <2>1. a \in 1..(Len(c) + 1)
      BY <1>2, <1>3
    <2>1a. a - 1 <= Len(r)
      BY <1>2, <1>3, <1>1, <1>5
    <2>2. \A k \in 1..(a - 1) : k \in 1..(i - 1)
      BY <1>3
    <2>3. \A k \in 1..(a - 1) : r[k] = c[k]
      BY <1>1, <2>2
    <2>4. r \in Seq(T) /\ c \in Seq(T) /\ Tokens(T) /\ Scan(c)[a] = "start"
      BY <1>1
    <2>. QED BY ONLY <2>1, <2>1a, <2>3, <2>4, KeptBefore
  <1>7. SameHeadings(c, r, e..Len(c), d)
    <2>1. CASE e \in Headings(c)
      <3>1. e \in 1..(Len(c) + 1)
        BY <1>2, <1>3
      <3>2. \A k \in e..Len(c) : k \in j..Len(c)
        BY <1>2, <1>3
      <3>3. \A k \in e..Len(c) : r[k + d] = c[k]
        BY <1>1, <3>2
      <3>4. r \in Seq(T) /\ c \in Seq(T) /\ Tokens(T) /\ d \in Int /\ Len(r) = Len(c) + d /\ e + d >= 1
        BY <1>1, <1>4
      <3>5. Scan(r)[e + d] = Scan(c)[e]
        <4>1. Scan(c)[e] = "start"
          BY <2>1, NoteIs
        <4>. QED BY <1>4, <2>1, <4>1
      <3>. QED BY ONLY <3>1, <3>3, <3>4, <3>5, KeptBehind
    <2>2. CASE e = Len(c) + 1
      <3>1. e..Len(c) = {}
        BY <1>2, <2>2
      <3>. QED BY <3>1 DEF SameHeadings
    <2>. QED BY <2>1, <2>2
  <1>. QED BY <1>4, <1>6, <1>7

-----------------------------------------------------------------------------
(* The patches *)

OfHeading(p) == p.operation \in {"append_under_heading", "insert_after_heading", "replace_section"}

\* A patch of a section is a splice at its first heading with this text.
LEMMA SectionPatchIs ==
  ASSUME NEW T, Tokens(T), NEW c \in Seq(T), NEW p, OfHeading(p), NEW r \in Patched(c, p)
  PROVE  LET a == Min(HeadingsCalled(c, p.at))  e == SectionEnd(c, a)  l == LineEnd(c, a) + 1
         IN /\ a \in HeadingsCalled(c, p.at) /\ \A y \in HeadingsCalled(c, p.at) : a <= y
            /\ a \in Headings(c) /\ a \in 1..Len(c) /\ Scan(c)[a] = "start"
            /\ l \in (a + 1)..e /\ e \in (a + 1)..(Len(c) + 1)
            /\ e \in Headings(c) => l < e
            /\ e \in Headings(c) \/ e = Len(c) + 1
            /\ p.operation = "append_under_heading" => r = Splice(c, e, e, <<NL>> \o p.text)
            /\ p.operation = "insert_after_heading" => r = Splice(c, l, l, <<NL>> \o p.text)
            /\ p.operation = "replace_section" => r = Splice(c, a, e, p.text)
  <1>. DEFINE a == Min(HeadingsCalled(c, p.at))  e == SectionEnd(c, a)  l == LineEnd(c, a) + 1
  <1>1. HeadingsCalled(c, p.at) # {}
    BY DEF Patched, OfHeading
  <1>2. HeadingsCalled(c, p.at) \subseteq Headings(c) /\ HeadingsCalled(c, p.at) \subseteq Nat
    BY NoteIs DEF HeadingsCalled
  <1>3. a \in HeadingsCalled(c, p.at) /\ \A y \in HeadingsCalled(c, p.at) : a <= y
    BY <1>1, <1>2, MinIs
  <1>4. /\ p.operation = "append_under_heading" =>
             r = Splice(c, NextSibling(c, a), NextSibling(c, a), <<NL>> \o p.text)
        /\ p.operation = "insert_after_heading" => r = Splice(c, l, l, <<NL>> \o p.text)
        /\ p.operation = "replace_section" => r = Splice(c, a, NextSibling(c, a), p.text)
    BY <1>1 DEF Patched
  <1>. HIDE DEF a
  <1>5. a \in Headings(c) /\ a \in 1..Len(c) /\ Len(c) \in Nat
    BY <1>2, <1>3, NoteIs
  <1>6. Scan(c)[a] = "start"
    BY <1>5, NoteIs
  <1>7. NextSibling(c, a) = e
    BY <1>5, SiblingIsSection
  <1>8. e \in (a + 1)..(Len(c) + 1) /\ (e \in Headings(c) \/ e = Len(c) + 1)
    BY <1>5, SectionEndIs
  <1>. HIDE DEF e
  <1>9. LineEnd(c, a) \in a..Len(c)
    BY <1>5, LineEndIs
  <1>10. e \in Headings(c) => l < e
    <2>. SUFFICES ASSUME e \in Headings(c) PROVE l < e
      OBVIOUS
    <2>1. a < e
      BY <1>5, <1>8
    <2>. QED BY <1>5, <2>1, HeadingsApart
  <1>. HIDE DEF l
  <1>11. l \in (a + 1)..e
    <2>1. l = LineEnd(c, a) + 1
      BY DEF l
    <2>. HIDE DEF l
    <2>2. l \in (a + 1)..(Len(c) + 1)
      BY <1>5, <1>9, <2>1
    <2>. QED BY <1>5, <1>8, <1>10, <2>2
  <1>. QED BY <1>3, <1>4, <1>5, <1>6, <1>7, <1>8, <1>10, <1>11 DEF a, e, l

\* Before i, what is put into a note at i is read like the note.
LEMMA SpliceStarts ==
  ASSUME NEW T, Tokens(T), NEW c \in Seq(T), NEW s \in Seq(T),
         NEW i \in 1..(Len(c) + 1), NEW j \in i..(Len(c) + 1)
  PROVE  Scan(Splice(c, i, j, s))[i] = Scan(c)[i]
  <1>. DEFINE r == Splice(c, i, j, s)  f == 1  d == 0
  <1>1. r \in Seq(T) /\ IsSplice(r, c, i, j, s)
    <2>. HIDE DEF r
    <2>. QED BY SpliceIs DEF r
  <1>h. r = Splice(c, i, j, s)
    OBVIOUS
  <1>. HIDE DEF r
  <1>2. Len(c) \in Nat /\ Len(s) \in Nat /\ i \in Nat /\ j \in Nat /\ Len(r) = Len(c) + (Len(s) - (j - i))
    BY <1>1 DEF IsSplice
  <1>3. /\ f \in 1..(Len(c) + 1) /\ i \in f..(Len(c) + 1) /\ d \in Int /\ 1 <= f + d
        /\ i + d <= Len(r) + 1 /\ i \in f..i /\ i + d = i
    BY <1>2
  <1>4. Scan(r)[f + d] = Scan(c)[f]
    BY <1>1, ScanIs
  <1>5. \A k \in f..(i - 1) : r[k + d] = c[k]
    <2>1. \A k \in f..(i - 1) : k \in 1..(i - 1) /\ k + d = k
      BY <1>2
    <2>. QED BY <1>1, <2>1 DEF IsSplice
  <1>. HIDE DEF f, d
  <1>6. \A k \in f..i : Scan(r)[k + d] = Scan(c)[k]
    BY ONLY <1>1, <1>3, <1>4, <1>5, c \in Seq(T), ScanAgrees
  <1>. QED BY <1>3, <1>6, <1>h

\* A line end at the end of a section or of its heading ends a line.
LEMMA LineEnds ==
  ASSUME NEW T, Tokens(T), NEW r \in Seq(T), NEW k \in 1..Len(r), r[k] = NL, Scan(r)[k] # "open"
  PROVE  Scan(r)[k + 1] = "start"
  BY ScanIs, AfterIs

\* A patch of a section leaves the headings outside of it.
LEMMA OthersSurvive ==
  ASSUME NEW T, Tokens(T), NEW c \in Seq(T), NEW p, OfHeading(p), p.text \in Seq(T), p.text # <<>>,
         NEW r \in Patched(c, p), NEW a, a = Min(HeadingsCalled(c, p.at)),
         NEW e, e = SectionEnd(c, a), Ends(p.text) \/ e > Len(c)
  PROVE  /\ SameHeadings(c, r, 1..(a - 1), 0)
         /\ SameHeadings(c, r, e..Len(c), Len(r) - Len(c))
  <1>. DEFINE l == LineEnd(c, a) + 1  t == <<NL>> \o p.text  n == Len(p.text)
  <1>1. /\ a \in Headings(c) /\ a \in 1..Len(c) /\ Scan(c)[a] = "start"
        /\ l \in (a + 1)..e /\ e \in (a + 1)..(Len(c) + 1)
        /\ e \in Headings(c) => l < e
        /\ e \in Headings(c) \/ e = Len(c) + 1
        /\ p.operation = "append_under_heading" => r = Splice(c, e, e, t)
        /\ p.operation = "insert_after_heading" => r = Splice(c, l, l, t)
        /\ p.operation = "replace_section" => r = Splice(c, a, e, p.text)
    BY SectionPatchIs
  <1>1a. Scan(c)[l] = "text"
    BY <1>1, LineEndIs
  <1>1b. a < e => (e \in Headings(c) => c[l] = NL)
    BY <1>1, HeadingsApart
  <1>2. Len(c) \in Nat /\ a \in Nat /\ e \in Nat /\ l \in Nat
    BY <1>1
  <1>3. NL \in T /\ n \in Nat /\ n >= 1
    BY DEF Tokens
  <1>h. n = Len(p.text)
    OBVIOUS
  <1>4. /\ t \in Seq(T) /\ Len(t) = n + 1 /\ t[1] = NL
        /\ \A k \in 1..n : t[k + 1] = p.text[k]
    BY <1>3
  <1>. HIDE DEF l, t, n
  <1>5. e \in Headings(c) => Ends(p.text) /\ c[l] = NL /\ Scan(c)[e] = "start" /\ e <= Len(c)
    <2>1. e \in Headings(c) => e <= Len(c) /\ Scan(c)[e] = "start"
      BY <1>2, NoteIs
    <2>. QED BY <1>1, <1>1b, <1>2, <2>1
  <1>6. /\ e \in 1..(Len(c) + 1) /\ e \in e..(Len(c) + 1) /\ a \in 1..e
        /\ l \in 1..(Len(c) + 1) /\ l \in l..(Len(c) + 1) /\ a \in 1..l /\ e \in l..(Len(c) + 1)
        /\ a \in 1..(Len(c) + 1) /\ e \in a..(Len(c) + 1) /\ a \in 1..a
    BY <1>1, <1>2
  <1>t. /\ Tokens(T) /\ c \in Seq(T) /\ p.text \in Seq(T)
        /\ Scan(c)[a] = "start"
        /\ e \in Headings(c) \/ e = Len(c) + 1
    BY <1>1
  <1>7. CASE p.operation = "append_under_heading"
    <2>1. r = Splice(c, e, e, t)
      BY <1>1, <1>7
    <2>2. r \in Seq(T) /\ IsSplice(r, c, e, e, t)
      BY ONLY <1>t, <1>4, <1>6, <2>1, SpliceIs
    <2>3. e \in Headings(c) => Scan(r)[e + (Len(r) - Len(c))] = "start"
      <3>. SUFFICES ASSUME e \in Headings(c) PROVE Scan(r)[e + (Len(r) - Len(c))] = "start"
        OBVIOUS
      <3>1. Scan(r)[e] = "start"
        <4>1. Scan(r)[e] = Scan(c)[e]
          BY ONLY <1>t, <1>4, <1>6, <2>1, SpliceStarts
        <4>. QED BY <1>5, <4>1
      <3>2. /\ Len(r) = Len(c) + (n + 1) /\ \A k \in 1..(n + 1) : r[e - 1 + k] = t[k]
        BY <1>2, <1>3, <1>4, <2>2 DEF IsSplice
      <3>3. r[e] = NL
        <4>1. 1 \in 1..(n + 1) /\ e - 1 + 1 = e
          BY <1>2, <1>3
        <4>. QED BY <1>4, <3>2, <4>1
      <3>4. e \in 1..Len(r)
        BY <1>2, <1>3, <1>6, <3>2
      <3>5. Scan(r)[e + 1] = "start"
        BY <2>2, <3>1, <3>3, <3>4, LineEnds
      <3>6. \A k \in 1..n : r[e + k] = p.text[k]
        <4>1. \A k \in 1..n : k + 1 \in 1..(n + 1) /\ e - 1 + (k + 1) = e + k
          BY <1>2, <1>3
        <4>2. \A k \in 1..n : r[e - 1 + (k + 1)] = t[k + 1]
          BY <3>2, <4>1
        <4>. QED BY <1>4, <4>1, <4>2
      <3>7. Scan(r)[e + n + 1] = "start"
        <4>1. e + n <= Len(r)
          BY <1>2, <1>3, <1>5, <3>2
        <4>. QED BY <1>2, <1>5, <1>h, <2>2, <3>5, <3>6, <4>1, TextEnds
      <3>. QED BY <1>2, <1>3, <3>2, <3>7
    <2>. QED BY ONLY <1>t, <1>4, <1>6, <2>1, <2>3, SpliceKeeps
  <1>8. CASE p.operation = "insert_after_heading"
    <2>1. r = Splice(c, l, l, t)
      BY <1>1, <1>8
    <2>2. r \in Seq(T) /\ IsSplice(r, c, l, l, t)
      BY ONLY <1>t, <1>4, <1>6, <2>1, SpliceIs
    <2>3. e \in Headings(c) => Scan(r)[e + (Len(r) - Len(c))] = "start"
      <3>. SUFFICES ASSUME e \in Headings(c) PROVE Scan(r)[e + (Len(r) - Len(c))] = "start"
        OBVIOUS
      <3>1. Scan(r)[l] = "text"
        <4>1. Scan(r)[l] = Scan(c)[l]
          BY ONLY <1>t, <1>4, <1>6, <2>1, SpliceStarts
        <4>. QED BY <1>1a, <4>1
      <3>2. /\ Len(r) = Len(c) + (n + 1) /\ \A k \in 1..(n + 1) : r[l - 1 + k] = t[k]
            /\ \A k \in l..Len(c) : r[k + (n + 1)] = c[k]
        BY <1>2, <1>3, <1>4, <2>2 DEF IsSplice
      <3>3. r[l] = NL
        <4>1. 1 \in 1..(n + 1) /\ l - 1 + 1 = l
          BY <1>2, <1>3
        <4>. QED BY <1>4, <3>2, <4>1
      <3>n. /\ l < e /\ e <= Len(c) /\ 1 <= l
        BY <1>1, <1>5, <1>6, <1>2
      <3>4. l \in 1..Len(r) /\ l \in 1..Len(c)
        BY <1>2, <1>3, <3>n, <3>2
      <3>5. Scan(r)[l + 1] = "start"
        BY <2>2, <3>1, <3>3, <3>4, LineEnds
      <3>6. \A k \in 1..n : r[l + k] = p.text[k]
        <4>1. \A k \in 1..n : k + 1 \in 1..(n + 1) /\ l - 1 + (k + 1) = l + k
          BY <1>2, <1>3
        <4>2. \A k \in 1..n : r[l - 1 + (k + 1)] = t[k + 1]
          BY <3>2, <4>1
        <4>. QED BY <1>4, <4>1, <4>2
      <3>7. Scan(r)[l + n + 1] = "start"
        <4>1. l + n <= Len(r)
          BY <1>2, <1>3, <3>n, <3>2
        <4>. QED BY <1>2, <1>5, <1>h, <2>2, <3>5, <3>6, <4>1, TextEnds
      <3>8. Scan(c)[l + 1] = "start" 
        BY <1>1a, <1>5, <3>4, <1>t, LineEnds
      <3>9. Scan(r)[e + (n + 1)] = Scan(c)[e]
        <4>. DEFINE f == l + 1  d == n + 1
        <4>1. l + n + 1 + 1 = f + d /\ l + n + 1 \in 1..Len(r) /\ l + d = l + n + 1
              /\ f \in 1..(Len(c) + 1) /\ e \in f..(Len(c) + 1) /\ d \in Int /\ 1 <= f + d
              /\ e + d <= Len(r) + 1 /\ e \in f..e
          BY <1>2, <1>3, <3>n, <3>2
        <4>2. r[l + n + 1] = NL
          BY <1>5, <3>2, <3>4, <4>1
        <4>3. Scan(r)[(l + n + 1) + 1] = "start"
          BY <2>2, <3>7, <4>1, <4>2, LineEnds
        <4>4. Scan(r)[f + d] = Scan(c)[f]
          BY <3>8, <4>1, <4>3
        <4>5. \A k \in f..(e - 1) : r[k + d] = c[k]
          <5>1. \A k \in f..(e - 1) : k \in l..Len(c)
            BY <1>2, <3>n
          <5>. QED BY <3>2, <5>1
        <4>. HIDE DEF f, d
        <4>6. \A k \in f..e : Scan(r)[k + d] = Scan(c)[k]
          BY ONLY <4>1, <4>4, <4>5, <1>t, <2>2, ScanAgrees
        <4>. QED BY <4>1, <4>6 DEF d
      <3>10. Len(r) - Len(c) = n + 1
        BY <1>2, <1>3, <3>2
      <3>. QED BY <1>5, <3>9, <3>10
    <2>. QED BY ONLY <1>t, <1>4, <1>6, <2>1, <2>3, SpliceKeeps
  <1>9. CASE p.operation = "replace_section"
    <2>1. r = Splice(c, a, e, p.text)
      BY <1>1, <1>9
    <2>2. r \in Seq(T) /\ IsSplice(r, c, a, e, p.text)
      BY ONLY <1>t, <1>6, <2>1, SpliceIs
    <2>3. e \in Headings(c) => Scan(r)[e + (Len(r) - Len(c))] = "start"
      <3>. SUFFICES ASSUME e \in Headings(c) PROVE Scan(r)[e + (Len(r) - Len(c))] = "start"
        OBVIOUS
      <3>. DEFINE o == a - 1
      <3>1. Scan(r)[a] = "start"
        <4>1. Scan(r)[a] = Scan(c)[a]
          BY ONLY <1>t, <1>6, <2>1, SpliceStarts
        <4>. QED BY <1>t, <4>1
      <3>2. /\ Len(r) = Len(c) + (n - (e - a)) /\ \A k \in 1..n : r[o + k] = p.text[k]
        BY <1>h, <2>2 DEF IsSplice
      <3>2a. Len(r) = Len(c) + (n - (e - a)) /\ 1 <= a /\ e <= Len(c) + 1
        BY <1>2, <1>6, <3>2
      <3>3o. o = a - 1
        OBVIOUS
      <3>. HIDE DEF o
      <3>3d. o \in Nat /\ o + 1 = a
        BY <1>2, <3>2a, <3>3o
      <3>3f. Len(r) \in Nat
        BY <2>2
      <3>3e. Len(r) - (o + n) = Len(c) + 1 - e
        BY ONLY <1>2, <1>3, <3>2a, <3>3o, <3>3f
      <3>3a. o \in Nat /\ o + 1 = a /\ o + n <= Len(r)
        BY <1>2, <1>3, <3>2a, <3>3d, <3>3e, <3>3f
      <3>3b. Len(r) - Len(c) = n - (e - a)
        BY <1>2, <1>3, <3>2a
      <3>3c. o + n + 1 = e + (n - (e - a))
        BY <1>2, <1>3, <3>2a, <3>3o
      <3>3. o \in Nat /\ o + 1 = a /\ o + n <= Len(r) /\ o + n + 1 = e + (Len(r) - Len(c))
        BY <3>3a, <3>3b, <3>3c
      <3>4. Scan(r)[o + n + 1] = "start"
        BY <1>5, <1>h, <2>2, <3>1, <3>2, <3>3, TextEnds
      <3>. QED BY <3>3, <3>4
    <2>. QED BY ONLY <1>t, <1>6, <2>1, <2>3, SpliceKeeps
  <1>. QED BY <1>7, <1>8, <1>9 DEF OfHeading


LEMMA MarkerIs ==
  ASSUME NEW T, NEW c \in Seq(T), NEW s \in Seq(T), NEW from \in Nat \ {0},
         Places(c, s, from) # {}
  PROVE  LET k == Min(Places(c, s, from))
         IN k \in Nat /\ k >= from /\ k + Len(s) <= Len(c) + 1
  <1>1. Len(c) \in Nat /\ Len(s) \in Nat
    OBVIOUS
  <1>2. Places(c, s, from) \in SUBSET (from..(Len(c) - Len(s) + 1))
    BY DEF Places
  <1>3. Places(c, s, from) \in SUBSET Nat
    BY <1>1, <1>2
  <1>4. Min(Places(c, s, from)) \in Places(c, s, from)
    BY <1>3, MinIs
  <1>. HIDE DEF Places
  <1>5. Min(Places(c, s, from)) \in from..(Len(c) - Len(s) + 1)
    BY <1>2, <1>4
  <1>. QED BY <1>1, <1>5

\* A patch has at most one result, which is a note again.
LEMMA PatchedIs ==
  ASSUME NEW T, Tokens(T), NEW c \in Seq(T), NEW p, Texts(p) \subseteq Seq(T), NEW r \in Patched(c, p)
  PROVE  r \in Seq(T) /\ Patched(c, p) = {r}
  <1>0. /\ Len(c) \in Nat /\ p.at \in Seq(T) /\ p.end \in Seq(T) /\ p.text \in Seq(T)
        /\ Len(p.at) \in Nat /\ Len(p.end) \in Nat /\ NL \in T
    BY DEF Texts, Tokens
  <1>1. ASSUME OfHeading(p) PROVE r \in Seq(T)
    <2>. DEFINE a == Min(HeadingsCalled(c, p.at))  e == SectionEnd(c, a)  l == LineEnd(c, a) + 1
                t == <<NL>> \o p.text
    <2>1. /\ a \in 1..Len(c) /\ l \in (a + 1)..e /\ e \in (a + 1)..(Len(c) + 1)
          /\ p.operation = "append_under_heading" => r = Splice(c, e, e, t)
          /\ p.operation = "insert_after_heading" => r = Splice(c, l, l, t)
          /\ p.operation = "replace_section" => r = Splice(c, a, e, p.text)
      BY <1>1, SectionPatchIs
    <2>2. t \in Seq(T)
      BY <1>0
    <2>. HIDE DEF a, e, l, t
    <2>3. a \in 1..(Len(c) + 1) /\ l \in 1..(Len(c) + 1) /\ l \in l..(Len(c) + 1)
          /\ e \in 1..(Len(c) + 1) /\ e \in e..(Len(c) + 1) /\ e \in a..(Len(c) + 1)
      BY <1>0, <2>1
    <2>4. CASE p.operation = "append_under_heading"
      <3>1. r = Splice(c, e, e, t) /\ c \in Seq(T)
        BY <2>1, <2>4
      <3>. QED BY ONLY <2>2, <2>3, <3>1, SpliceIs
    <2>5. CASE p.operation = "insert_after_heading"
      <3>1. r = Splice(c, l, l, t) /\ c \in Seq(T)
        BY <2>1, <2>5
      <3>. QED BY ONLY <2>2, <2>3, <3>1, SpliceIs
    <2>6. CASE p.operation = "replace_section"
      <3>1. r = Splice(c, a, e, p.text) /\ c \in Seq(T) /\ p.text \in Seq(T)
        BY <1>0, <2>1, <2>6
      <3>. QED BY ONLY <2>3, <3>1, SpliceIs
    <2>. QED BY <1>1, <2>4, <2>5, <2>6 DEF OfHeading
  <1>2. ASSUME p.operation = "replace_exact_text" PROVE r \in Seq(T)
    <2>. DEFINE k == Min(Places(c, p.at, 1))
    <2>1. Places(c, p.at, 1) # {} /\ r = Splice(c, k, k + Len(p.at), p.text)
      BY <1>2 DEF Patched
    <2>2. k \in Nat /\ k >= 1 /\ k + Len(p.at) <= Len(c) + 1
      BY <1>0, <2>1, MarkerIs
    <2>. HIDE DEF k
    <2>3. k \in 1..(Len(c) + 1) /\ k + Len(p.at) \in k..(Len(c) + 1)
      BY <1>0, <2>2
    <2>4. c \in Seq(T) /\ p.text \in Seq(T) /\ r = Splice(c, k, k + Len(p.at), p.text)
      BY <1>0, <2>1
    <2>. QED BY ONLY <2>3, <2>4, SpliceIs
  <1>3. ASSUME p.operation = "replace_exact_block" PROVE r \in Seq(T)
    <2>. DEFINE k == Min(Places(c, p.at, 1))  from == k + Len(p.at)
                j == Min(Places(c, p.end, from)) + Len(p.end)
    <2>1. /\ Places(c, p.at, 1) # {} /\ Places(c, p.end, from) # {}
          /\ r = Splice(c, k, j, p.text)
      BY <1>3 DEF Patched
    <2>2. k \in Nat /\ k >= 1 /\ k + Len(p.at) <= Len(c) + 1
      BY <1>0, <2>1, MarkerIs
    <2>. HIDE DEF k
    <2>3. from \in Nat \ {0} /\ from >= k
      BY <1>0, <2>2
    <2>. HIDE DEF from
    <2>4. /\ Min(Places(c, p.end, from)) \in Nat /\ Min(Places(c, p.end, from)) >= from
          /\ j <= Len(c) + 1
      BY <1>0, <2>1, <2>3, MarkerIs
    <2>5. k \in 1..(Len(c) + 1) /\ j \in k..(Len(c) + 1)
      BY <1>0, <2>2, <2>3, <2>4
    <2>6. c \in Seq(T) /\ p.text \in Seq(T) /\ r = Splice(c, k, j, p.text)
      BY <1>0, <2>1
    <2>. QED BY ONLY <2>5, <2>6, SpliceIs
  <1>4. OfHeading(p) \/ p.operation \in {"replace_exact_text", "replace_exact_block"}
    BY DEF Patched, OfHeading
  <1>5. \E x : Patched(c, p) = {} \/ Patched(c, p) = {x}
    BY DEF Patched
  <1>. QED BY <1>1, <1>2, <1>3, <1>4, <1>5

LEMMA TokensHold == Tokens(Token) /\ MinChunk \in Nat \ {0}
  BY TokensAssumption DEF Tokens, Token

LEMMA NestIsInvariant == note \in Seq(Token) => ChunksNest
  <1>. SUFFICES ASSUME note \in Seq(Token), NEW i \in SectionHeads(note), NEW j \in SectionHeads(note),
                       i < j
                PROVE  \/ SectionEnd(note, i) <= j
                       \/ /\ SectionEnd(note, j) <= SectionEnd(note, i)
                          /\ note[i].level < note[j].level
    BY DEF ChunksNest
  <1>1. i \in Headings(note) /\ j \in Headings(note)
    BY TokensHold, SectionHeadsAre
  <1>. QED BY <1>1, TokensHold, SectionsNest

LEMMA CoverIsInvariant == note \in Seq(Token) => ChunksCoverNote
  <1>. DEFINE lowest == {i \in Headings(note) : \A j \in Headings(note) : note[i].level <= note[j].level}
  <1>. SUFFICES ASSUME note \in Seq(Token), NEW k \in Solid(note, 1),
                       \A i \in Headings(note) : k \notin i..LineEnd(note, i)
                PROVE  /\ lowest # {} /\ Min(lowest) < k =>
                            \E i \in SectionHeads(note) : Encloses(note, i, k)
                       /\ \A i \in SectionHeads(note) :
                            Encloses(note, i, k) /\ Len(SectionText(note, i)) >= MinChunk =>
                              \E ch \in Chunks(note) : ch.head = i /\ note[k] \in Range(ch.text)
    BY DEF ChunksCoverNote
  <1>1. k \in 1..Len(note) /\ note[k] # NL
    BY DEF Solid
  <1>2. ASSUME lowest # {}, Min(lowest) < k
        PROVE  \E i \in SectionHeads(note) : Encloses(note, i, k)
    <2>1. lowest \in SUBSET Nat
      BY TokensHold, NoteIs
    <2>. DEFINE f == Min(lowest)
    <2>2. f \in lowest
      BY <1>2, <2>1, MinIs
    <2>3. f \in Headings(note) /\ \A j \in Headings(note) : note[f].level <= note[j].level
      BY <2>2
    <2>4. f \in Nat
      BY <2>1, <2>2
    <2>5. f < k
      BY <1>2
    <2>. HIDE DEF f, lowest
    <2>6. k \in f..Len(note)
      BY <1>1, <2>4, <2>5
    <2>. QED BY <1>1, <2>3, <2>6, TokensHold, WordsHaveSections
  <1>3. ASSUME NEW i \in SectionHeads(note), Encloses(note, i, k), Len(SectionText(note, i)) >= MinChunk
        PROVE  \E ch \in Chunks(note) : ch.head = i /\ note[k] \in Range(ch.text)
    <2>1. LineEnd(note, i) < k /\ k < SectionEnd(note, i)
      BY <1>3 DEF Encloses
    <2>. DEFINE ch == [head |-> i, text |-> SectionText(note, i)]
    <2>2. ch \in Chunks(note) /\ note[k] \in Range(SectionText(note, i))
      BY <1>1, <1>3, <2>1, TokensHold, SectionIsChunk
    <2>. QED BY <2>2
  <1>. HIDE DEF lowest
  <1>. QED BY <1>2, <1>3

-----------------------------------------------------------------------------
(* The invariant: where a plan, the last change and a proposal come from *)

PatchInv ==
  /\ note \in Seq(Token)
  /\ \A pl \in plan : /\ pl.old \in Seq(Token) /\ pl.patch \in Patches /\ ValidPatch(pl.patch)
                      /\ pl.new \in Patched(pl.old, pl.patch)
  /\ \/ last = Owner
     \/ /\ last.old \in Seq(Token) /\ last.patch \in Patches /\ ValidPatch(last.patch)
        /\ note \in Patched(last.old, last.patch)
  /\ \/ proposal = None
     \/ /\ proposal.draft \in Drafts /\ proposal.sources \in Sources
        /\ proposal.new = WithSources(proposal.draft, proposal.sources)

LEMMA PatchTexts == \A p \in Patches : Texts(p) \subseteq Seq(Token)
  BY TokensAssumption

LEMMA PatchInvariant == Spec => []PatchInv
  <1>1. Init => PatchInv
    BY TokensAssumption DEF Init, PatchInv
  <1>2. PatchInv /\ [Next]_vars => PatchInv'
    <2>. SUFFICES ASSUME PatchInv, [Next]_vars PROVE PatchInv'
      OBVIOUS
    <2>. USE DEF PatchInv
    <2>1. CASE OwnerWrites
      BY <2>1, TokensAssumption DEF OwnerWrites
    <2>2. CASE Prepare
      <3>1. /\ note' = note /\ last' = last /\ proposal' = None
            /\ \E profile \in Callers, op \in {"append", "edit", "propose"}, p \in Patches, fresh \in BOOLEAN :
                 plan' = {} \/ plan' = Plans(profile, op, p, fresh)
        BY <2>2 DEF Prepare
      <3>2. ASSUME NEW pl \in plan'
            PROVE  /\ pl.old \in Seq(Token) /\ pl.patch \in Patches /\ ValidPatch(pl.patch)
                   /\ pl.new \in Patched(pl.old, pl.patch)
        <4>1. PICK profile \in Callers, op \in {"append", "edit", "propose"}, p \in Patches, fresh \in BOOLEAN :
                plan' = {} \/ plan' = Plans(profile, op, p, fresh)
          BY <3>1
        <4>2. pl \in Plans(profile, op, p, fresh)
          BY <3>2, <4>1
        <4>3. PICK c \in Patched(note, p) : ValidPatch(p) /\ pl = [old |-> note, new |-> c, patch |-> p]
          BY <4>2 DEF Plans
        <4>. QED BY <4>3
      <3>. QED BY <3>1, <3>2
    <2>3. CASE Write
      <3>1. PICK pl \in plan :
              /\ \/ note = pl.old /\ note' = pl.new /\ last' = [old |-> pl.old, patch |-> pl.patch]
                 \/ note' = note /\ last' = last
              /\ plan' = {} /\ proposal' = None
        BY <2>3 DEF Write
      <3>2. pl.new \in Seq(Token)
        BY TokensHold, PatchTexts, PatchedIs
      <3>. QED BY <3>1, <3>2
    <2>4. CASE Propose
      <3>1. PICK d \in Drafts, found \in Sources :
              proposal' = [draft |-> d, sources |-> found, new |-> WithSources(d, found)]
        BY <2>4 DEF Propose
      <3>2. note' = note /\ last' = last /\ plan' = plan
        BY <2>4 DEF Propose
      <3>. QED BY <3>1, <3>2
    <2>5. CASE UNCHANGED vars
      BY <2>5 DEF vars
    <2>. QED BY <2>1, <2>2, <2>3, <2>4, <2>5 DEF Next
  <1>. QED BY <1>1, <1>2, PTL DEF Spec

LEMMA SurviveIsInvariant == PatchInv => HeadingsSurvive
  <1>. SUFFICES ASSUME PatchInv, OfSection, Closed
                PROVE  LET end == SectionEnd(last.old, Addressed)
                       IN /\ SameHeadings(last.old, note, 1..(Addressed - 1), 0)
                          /\ SameHeadings(last.old, note, end..Len(last.old), Len(note) - Len(last.old))
    BY DEF HeadingsSurvive
  <1>1. OfHeading(last.patch) /\ last # Owner
    BY DEF OfSection, Op, OfHeading, Owner
  <1>2. /\ last.old \in Seq(Token) /\ last.patch \in Patches /\ ValidPatch(last.patch)
        /\ note \in Patched(last.old, last.patch)
    BY <1>1 DEF PatchInv
  <1>3. last.patch.text \in Seq(Token) /\ last.patch.text # <<>>
    BY <1>2, PatchTexts DEF Texts, ValidPatch
  <1>4. Ends(last.patch.text) \/ SectionEnd(last.old, Addressed) > Len(last.old)
    BY <1>3 DEF Closed, Ends
  <1>. QED BY <1>1, <1>2, <1>3, <1>4, TokensHold, OthersSurvive DEF Addressed

-----------------------------------------------------------------------------
(* What a search finds *)

\* A text inside of a section is a part of the chunk of this section.
Holds(c, o, t) == \A x \in 1..Len(t) : c[o + x] = t[x]
Found(c, i, t) == \E ch \in Chunks(c) : /\ ch.head = i
                                        /\ Places(ch.text, Strip(t), 1) # {}
                                        /\ Range(t) \ {NL} \subseteq Range(ch.text)

LEMMA TextInSection ==
  ASSUME NEW T, Tokens(T), MinChunk \in Nat \ {0}, NEW c \in Seq(T), NEW i \in SectionHeads(c),
         NEW t \in Seq(T), NEW o \in Nat,
         LineEnd(c, i) <= o, o + Len(t) < SectionEnd(c, i),
         Holds(c, o, t), Len(Strip(t)) >= MinChunk
  PROVE  Found(c, i, t)
  <1>. DEFINE l == LineEnd(c, i)  e == SectionEnd(c, i)  y == Strip(t)  z == SectionText(c, i)
  <1>1. /\ i \in Headings(c) /\ i \in 1..Len(c) /\ Len(c) \in Nat /\ Len(t) \in Nat
        /\ DOMAIN t = 1..Len(t)
    BY SectionHeadsAre, NoteIs
  <1>2. l \in Nat /\ e \in Nat /\ e \in (i + 1)..(Len(c) + 1)
    BY <1>1, LineEndIs, SectionEndIs
  <1>3. PICK k \in 1..Len(t) : t[k] # NL
    <2>. SUFFICES ASSUME \A k \in 1..Len(t) : t[k] = NL PROVE FALSE
      OBVIOUS
    <2>1. Strip(t) = <<>>
      BY StripBlank
    <2>. QED BY <2>1
  <1>4. PICK u, v \in 1..Len(t) :
           /\ u <= k /\ k <= v /\ t[u] # NL /\ t[v] # NL
           /\ \A x \in 1..Len(t) : x < u \/ v < x => t[x] = NL
           /\ Strip(t) = SubSeq(t, u, v)
    BY <1>3, StripIs
  <1>n. /\ Len(c) \in Nat /\ Len(t) \in Nat /\ l \in Nat /\ e \in Nat /\ u \in Nat /\ v \in Nat
        /\ e <= Len(c) + 1 /\ l <= o /\ o + Len(t) < e
        /\ 1 <= u /\ u <= v /\ v <= Len(t)
    <2>1. k \in Nat /\ u \in Nat /\ v \in Nat /\ 1 <= u /\ v <= Len(t)
      BY <1>1
    <2>2. u <= v
      BY <1>4, <2>1
    <2>3. e <= Len(c) + 1
      BY <1>1, <1>2
    <2>. QED BY <1>1, <1>2, <2>1, <2>2, <2>3
  <1>h. l = LineEnd(c, i) /\ e = SectionEnd(c, i) /\ z = SectionText(c, i) /\ y = Strip(t)
    OBVIOUS
  <1>o. \A x \in 1..Len(t) : c[o + x] = t[x]
    BY DEF Holds
  <1>. HIDE DEF l, e, y, z
  <1>5. o + u \in 1..Len(c) /\ o + v \in 1..Len(c) /\ l < o + u /\ o + u < e /\ l < o + v /\ o + v < e
    BY <1>n
  <1>6. c[o + u] # NL /\ c[o + v] # NL
    BY <1>4, <1>o
  <1>7. PICK a, b \in 1..Len(c) :
           /\ l + 1 < a /\ a <= o + u /\ o + u <= b /\ b < e
           /\ z = SubSeq(c, a, b)
           /\ \A x \in 1..Len(c) : l < x /\ x < e /\ (x < a \/ b < x) => c[x] = NL
    <2>. DEFINE w == o + u
    <2>1. w \in 1..Len(c) /\ LineEnd(c, i) < w /\ w < SectionEnd(c, i) /\ c[w] # NL
      BY <1>5, <1>6, <1>h
    <2>. HIDE DEF w
    <2>2. \E a, b \in 1..Len(c) :
           /\ LineEnd(c, i) + 1 < a /\ a <= w /\ w <= b /\ b < SectionEnd(c, i)
           /\ SectionText(c, i) = SubSeq(c, a, b)
           /\ c[a] # NL /\ c[b] # NL
           /\ \A x \in 1..Len(c) :
                LineEnd(c, i) < x /\ x < SectionEnd(c, i) /\ (x < a \/ b < x) => c[x] = NL
      BY <1>1, <2>1, SectionTextIs
    <2>3. \E a, b \in 1..Len(c) :
           /\ l + 1 < a /\ a <= w /\ w <= b /\ b < e
           /\ z = SubSeq(c, a, b)
           /\ \A x \in 1..Len(c) : l < x /\ x < e /\ (x < a \/ b < x) => c[x] = NL
      BY ONLY <2>2, <1>h
    <2>. QED BY ONLY <2>3 DEF w
  <1>8. o + v <= b
    <2>1. ~(b < o + v)
      BY <1>5, <1>6, <1>7
    <2>2. b \in Nat
      BY <1>n
    <2>. QED BY <1>n, <2>1, <2>2
  <1>m. a \in Nat /\ b \in Nat /\ 1 <= a /\ a <= o + u /\ o + v <= b /\ b <= Len(c)
    BY <1>n, <1>7, <1>8
  <1>9. z \in Seq(T) /\ Len(z) = b - a + 1 /\ \A x \in 1..(b - a + 1) : z[x] = c[a + x - 1]
    <2>1. a \in 1..(Len(c) + 1) /\ b \in (a - 1)..Len(c) /\ c \in Seq(T)
      BY <1>n, <1>m
    <2>2. /\ SubSeq(c, a, b) \in Seq(T) /\ Len(SubSeq(c, a, b)) = b - a + 1
          /\ \A x \in 1..(b - a + 1) : SubSeq(c, a, b)[x] = c[a + x - 1]
      BY ONLY <2>1, SubSeqIs
    <2>. QED BY <1>7, <2>2
  <1>10. y \in Seq(T) /\ Len(y) = v - u + 1 /\ \A x \in 1..(v - u + 1) : y[x] = t[u + x - 1]
    <2>1. u \in 1..(Len(t) + 1) /\ v \in (u - 1)..Len(t) /\ t \in Seq(T)
      BY <1>n
    <2>2. /\ SubSeq(t, u, v) \in Seq(T) /\ Len(SubSeq(t, u, v)) = v - u + 1
          /\ \A x \in 1..(v - u + 1) : SubSeq(t, u, v)[x] = t[u + x - 1]
      BY ONLY <2>1, SubSeqIs
    <2>. QED BY <1>4, <1>h, <2>2
  <1>11. [head |-> i, text |-> z] \in Chunks(c)
    <2>1. Len(y) >= MinChunk
      BY <1>h
    <2>1a. Len(z) = b - a + 1 /\ Len(y) = v - u + 1
      BY <1>9, <1>10
    <2>1b. Len(z) >= Len(y) /\ Len(z) \in Nat /\ Len(y) \in Nat
      BY <1>n, <1>m, <2>1a
    <2>2. Len(z) >= MinChunk
      BY <2>1, <2>1b
    <2>. DEFINE w == o + u
    <2>3. w \in 1..Len(c) /\ LineEnd(c, i) < w /\ w < SectionEnd(c, i) /\ c[w] # NL
      BY <1>5, <1>6, <1>h
    <2>. HIDE DEF w
    <2>4. Tokens(T) /\ c \in Seq(T) /\ i \in SectionHeads(c) /\ MinChunk \in Nat \ {0}
          /\ Len(SectionText(c, i)) >= MinChunk
      BY <1>h, <2>2
    <2>5. [head |-> i, text |-> SectionText(c, i)] \in Chunks(c)
      BY ONLY <2>3, <2>4, SectionIsChunk
    <2>. QED BY <2>5, <1>h
  <1>12. Places(z, y, 1) # {}
    <2>. DEFINE q == o + u - a + 1
    <2>1. /\ q \in 1..(Len(z) - Len(y) + 1) /\ q + Len(y) - 1 = o + v - a + 1
          /\ q \in 1..(Len(z) + 1) /\ q + Len(y) - 1 \in (q - 1)..Len(z)
          /\ (q + Len(y) - 1) - q + 1 = v - u + 1
      BY <1>n, <1>m, <1>9, <1>10
    <2>2. ASSUME NEW x \in 1..(v - u + 1)
          PROVE  z[q + x - 1] = y[x]
      <3>1. /\ q + x - 1 \in 1..(b - a + 1) /\ a + (q + x - 1) - 1 = o + (u + x - 1)
            /\ u + x - 1 \in 1..Len(t)
        BY <1>n, <1>m
      <3>2. z[q + x - 1] = c[o + (u + x - 1)]
        BY <1>9, <3>1
      <3>3. c[o + (u + x - 1)] = t[u + x - 1]
        BY <1>o, <3>1
      <3>. QED BY <1>10, <3>2, <3>3
    <2>. HIDE DEF q
    <2>. DEFINE w == q + Len(y) - 1
    <2>3. w \in (q - 1)..Len(z) /\ w - q + 1 = v - u + 1 /\ q \in 1..(Len(z) + 1) /\ z \in Seq(T)
      BY <1>9, <2>1
    <2>. HIDE DEF w
    <2>4. /\ SubSeq(z, q, w) \in Seq(T) /\ Len(SubSeq(z, q, w)) = w - q + 1
          /\ \A x \in 1..(w - q + 1) : SubSeq(z, q, w)[x] = z[q + x - 1]
      BY ONLY <2>3, SubSeqIs
    <2>5. \A x \in 1..(v - u + 1) : SubSeq(z, q, w)[x] = y[x]
      BY <2>2, <2>3, <2>4
    <2>6. SubSeq(z, q, w) = y
      <3>. DEFINE part == SubSeq(z, q, w)  size == v - u + 1
      <3>1. /\ part \in Seq(T) /\ y \in Seq(T) /\ Len(part) = size /\ Len(y) = size
            /\ \A x \in 1..size : part[x] = y[x]
        BY <1>10, <2>3, <2>4, <2>5
      <3>. HIDE DEF part, size
      <3>2. part = y
        BY ONLY <3>1, EqualTexts
      <3>. QED BY <3>2 DEF part
    <2>. QED BY <2>1, <2>6 DEF Places, w
  <1>13. ASSUME NEW w \in Range(t), w # NL
         PROVE  w \in Range(z)
    <2>1. PICK x \in 1..Len(t) : w = t[x]
      BY <1>1 DEF Range
    <2>1a. ~(x < u \/ v < x)
      BY <1>4, <1>13, <2>1
    <2>2. ~(x < u) /\ ~(v < x) /\ x \in Nat
      BY <1>n, <2>1a
    <2>3. o + x - a + 1 \in 1..(b - a + 1) /\ a + (o + x - a + 1) - 1 = o + x
      BY <1>n, <1>m, <2>2
    <2>4. z[o + x - a + 1] = c[o + x]
      BY <1>9, <2>3
    <2>5. z[o + x - a + 1] = w /\ o + x - a + 1 \in DOMAIN z
      <3>1. Len(z) = b - a + 1 /\ DOMAIN z = 1..Len(z)
        BY <1>9
      <3>. QED BY <1>o, <2>1, <2>3, <2>4, <3>1
    <2>. QED BY <2>5 DEF Range
  <1>14. /\ Places(SectionText(c, i), Strip(t), 1) # {}
         /\ Range(t) \ {NL} \subseteq Range(SectionText(c, i))
         /\ [head |-> i, text |-> SectionText(c, i)] \in Chunks(c)
    BY <1>11, <1>12, <1>13, <1>h
  <1>. DEFINE ch == [head |-> i, text |-> SectionText(c, i)]
  <1>15. ch.head = i /\ ch.text = SectionText(c, i)
    OBVIOUS
  <1>. HIDE DEF ch
  <1>16. ch \in Chunks(c)
    BY <1>14 DEF ch
  <1>. QED BY ONLY <1>14, <1>15, <1>16 DEF Found

\* A section is inside of one of the top level.
LEMMA TopLevelBefore ==
  ASSUME NEW T, Tokens(T), NEW c \in Seq(T), NEW a \in SectionHeads(c)
  PROVE  \E p \in Headings(c) : p <= a /\ c[p].level = TopLevel(c)
  <1>. DEFINE S == {n \in Nat : \A x \in SectionHeads(c) : c[x].level = n =>
                                  \E p \in Headings(c) : p <= x /\ c[p].level = TopLevel(c)}
  <1>0. SectionHeads(c) \subseteq Headings(c)
    BY SectionHeadsAre
  <1>1. \A x \in Headings(c) : x \in Nat /\ c[x].level \in Nat /\ c[x].level # 0
    BY NoteIs
  <1>2. 0 \in S
    BY <1>0, <1>1
  <1>3. ASSUME NEW n \in S PROVE n + 1 \in S
    <2>0. n \in Nat
      OBVIOUS
    <2>. SUFFICES ASSUME NEW x \in SectionHeads(c), c[x].level = n + 1
                  PROVE  \E p \in Headings(c) : p <= x /\ c[p].level = TopLevel(c)
      BY <2>0
    <2>1. x \in Headings(c) /\ x \in Nat
      BY <1>0, <1>1
    <2>2. CASE c[x].level = TopLevel(c)
      BY <2>1, <2>2
    <2>3. CASE c[x].level # TopLevel(c)
      <3>1. PICK y \in SectionHeads(c) : c[y].level = c[x].level - 1 /\ y < x
        BY <2>1, <2>3, SectionHeadsAre
      <3>2. c[y].level = n
        BY <2>0, <3>1
      <3>3. PICK p \in Headings(c) : p <= y /\ c[p].level = TopLevel(c)
        BY <3>2
      <3>3a. p \in Nat /\ y \in Nat /\ x \in Nat
        BY <1>0, <1>1, <2>1
      <3>4. p <= x
        BY <3>1, <3>3, <3>3a
      <3>. QED BY <3>3, <3>4
    <2>. QED BY <2>2, <2>3
  <1>. HIDE DEF S
  <1>4. S \in SUBSET Nat
    BY DEF S
  <1>5. S = Nat
    BY <1>2, <1>3, <1>4, NatSet
  <1>. QED BY <1>0, <1>1, <1>5 DEF S

\* Whether a heading gets a section depends on what is before it and on the
\* top level.
LEMMA HeadsSurvive ==
  ASSUME NEW T, Tokens(T), NEW c \in Seq(T), NEW r \in Seq(T), NEW a \in SectionHeads(c),
         TopLevel(r) = TopLevel(c),
         \A i \in Nat : i <= a => /\ i \in Headings(c) <=> i \in Headings(r)
                                  /\ i \in Headings(c) => r[i].level = c[i].level
  PROVE  a \in SectionHeads(r)
  <1>. DEFINE S == {n \in Nat : \A x \in SectionHeads(c) : c[x].level = n /\ x <= a => x \in SectionHeads(r)}
  <1>0. SectionHeads(c) \subseteq Headings(c)
    BY SectionHeadsAre
  <1>1. \A x \in Headings(c) : x \in Nat /\ c[x].level \in Nat /\ c[x].level # 0
    BY NoteIs
  <1>2. 0 \in S
    BY <1>0, <1>1
  <1>3. ASSUME NEW n \in S PROVE n + 1 \in S
    <2>0. n \in Nat /\ a \in Nat
      BY <1>0, <1>1
    <2>. SUFFICES ASSUME NEW x \in SectionHeads(c), c[x].level = n + 1, x <= a
                  PROVE  x \in SectionHeads(r)
      BY <2>0
    <2>1. x \in Headings(c) /\ x \in Nat /\ x \in Headings(r) /\ r[x].level = c[x].level
      BY <1>0, <1>1
    <2>2. CASE c[x].level = TopLevel(c)
      BY <2>1, <2>2, SectionHeadsAre
    <2>3. CASE c[x].level # TopLevel(c)
      <3>1. PICK y \in SectionHeads(c) : c[y].level = c[x].level - 1 /\ y < x /\ x < SectionEnd(c, y)
        BY <2>1, <2>3, SectionHeadsAre
      <3>2. c[y].level = n /\ y \in Headings(c) /\ y \in Nat /\ y <= a
        BY <1>0, <1>1, <2>0, <2>1, <3>1
      <3>3. y \in SectionHeads(r)
        BY <3>2
      <3>4. y \in Headings(r) /\ r[y].level = c[y].level
        BY <3>2
      <3>5. x < SectionEnd(r, y)
        <4>. DEFINE f == SectionEnd(r, y)
        <4>1. y \in 1..Len(r) /\ y \in 1..Len(c) /\ Len(r) \in Nat /\ x <= Len(r)
          <5>1. Headings(r) \subseteq 1..Len(r) /\ Headings(c) \subseteq 1..Len(c) /\ Len(r) \in Nat
            BY NoteIs
          <5>. QED BY <2>1, <3>2, <3>4, <5>1
        <4>2. /\ f \in Nat /\ f \in (y + 1)..(Len(r) + 1)
              /\ (f \in Headings(r) /\ r[f].level <= r[y].level) \/ f = Len(r) + 1
          BY <4>1, SectionEndIs
        <4>3. \A j \in Headings(c) : y < j /\ j < SectionEnd(c, y) => c[y].level < c[j].level
          BY <4>1, SectionEndIs
        <4>4. SectionEnd(c, y) \in Nat
          BY <4>1, SectionEndIs
        <4>. HIDE DEF f
        <4>5. ASSUME f <= x PROVE FALSE
          <5>1. f \in Headings(r) /\ r[f].level <= r[y].level /\ y < f /\ f <= a /\ f < SectionEnd(c, y)
            BY <2>0, <2>1, <3>1, <3>2, <4>1, <4>2, <4>4, <4>5
          <5>2. f \in Headings(c) /\ r[f].level = c[f].level
            BY <4>2, <5>1
          <5>3. c[y].level < c[f].level
            BY <4>3, <5>1, <5>2
          <5>4. c[y].level \in Nat /\ c[f].level \in Nat
            BY <1>1, <3>2, <5>2
          <5>. QED BY <3>4, <5>1, <5>2, <5>3, <5>4
        <4>. QED BY <2>1, <4>2, <4>5 DEF f
      <3>. QED BY <2>1, <3>1, <3>3, <3>4, <3>5, SectionHeadsAre
    <2>. QED BY <2>2, <2>3
  <1>. HIDE DEF S
  <1>4. S \in SUBSET Nat
    BY DEF S
  <1>5. S = Nat
    BY <1>2, <1>3, <1>4, NatSet
  <1>. QED BY <1>0, <1>1, <1>5 DEF S

\* A text without headings that is added at the end of a section is found in
\* the chunk of this section.
Appended(r, c, a, text) == r = Splice(c, SectionEnd(c, a), SectionEnd(c, a), <<NL>> \o text)

LEMMA AppendedText ==
  ASSUME NEW T, Tokens(T), MinChunk \in Nat \ {0}, NEW c \in Seq(T), NEW text \in Seq(T),
         NEW a \in SectionHeads(c), NEW r, Appended(r, c, a, text),
         Headings(text) = {}, ~Dangling(text), Len(Strip(text)) >= MinChunk,
         Ends(text) \/ SectionEnd(c, a) > Len(c),
         SectionEnd(c, a) > Len(c) => ~Dangling(c)
  PROVE  Found(r, a, text)
  <1>. DEFINE t == <<NL>> \o text  n == Len(text)  e == SectionEnd(c, a)
  <1>1. /\ Len(c) \in Nat /\ n \in Nat /\ NL \in T /\ NL.level = 0
        /\ a \in Headings(c) /\ a \in 1..Len(c)
    BY SectionHeadsAre, NoteIs DEF Tokens, NL, Word
  <1>2. /\ e \in (a + 1)..(Len(c) + 1) /\ e \in Nat
        /\ e \in Headings(c) \/ e = Len(c) + 1
        /\ \A j \in Headings(c) : a < j /\ j < e => c[a].level < c[j].level
    BY <1>1, SectionEndIs
  <1>3. t \in Seq(T) /\ Len(t) = n + 1 /\ t[1] = NL /\ \A k \in 1..n : t[k + 1] = text[k]
    BY <1>1
  <1>h. t = <<NL>> \o text /\ n = Len(text) /\ e = SectionEnd(c, a)
    OBVIOUS
  <1>r. r = Splice(c, e, e, t)
    BY DEF Appended
  <1>. HIDE DEF t, n, e
  <1>4. r \in Seq(T) /\ IsSplice(r, c, e, e, t)
    <2>1. /\ c \in Seq(T) /\ t \in Seq(T) /\ e \in 1..(Len(c) + 1) /\ e \in e..(Len(c) + 1)
          /\ r = Splice(c, e, e, t)
      BY <1>1, <1>2, <1>3, <1>r
    <2>. QED BY ONLY <2>1, SpliceIs
  <1>n. a \in Nat /\ e \in Nat /\ Len(c) \in Nat /\ n \in Nat /\ 1 <= a /\ a < e /\ e <= Len(c) + 1
    BY <1>1, <1>2
  <1>5. /\ Len(r) = Len(c) + n + 1
        /\ \A k \in 1..(e - 1) : r[k] = c[k]
        /\ \A k \in 1..(n + 1) : r[e - 1 + k] = t[k]
        /\ \A k \in e..Len(c) : r[k + (n + 1)] = c[k]
    <2>1. Len(t) - (e - e) = n + 1 /\ Len(c) + (n + 1) = Len(c) + n + 1
      BY ONLY <1>n, <1>3
    <2>2. /\ Len(r) = Len(c) + (Len(t) - (e - e))
          /\ \A k \in 1..(e - 1) : r[k] = c[k]
          /\ \A k \in 1..Len(t) : r[e - 1 + k] = t[k]
          /\ \A k \in e..Len(c) : r[k + (Len(t) - (e - e))] = c[k]
      BY ONLY <1>4 DEF IsSplice
    <2>. QED BY ONLY <1>3, <2>1, <2>2
  <1>len. Len(r) = Len(c) + n + 1
    BY ONLY <1>5
  <1>6. r[e] = NL /\ \A k \in 1..n : r[e + k] = text[k]
    <2>1. 1 \in 1..(n + 1) /\ e - 1 + 1 = e
      BY <1>n
    <2>2. \A k \in 1..n : k + 1 \in 1..(n + 1) /\ e - 1 + (k + 1) = e + k
      BY <1>n
    <2>. QED BY <1>3, <1>5, <2>1, <2>2
  <1>7. \A k \in (e + n + 1)..Len(r) : k - (n + 1) \in e..Len(c) /\ r[k] = c[k - (n + 1)]
    <2>1. \A k \in (e + n + 1)..Len(r) : k - (n + 1) \in e..Len(c) /\ (k - (n + 1)) + (n + 1) = k
      BY <1>n, <1>5
    <2>. QED BY <1>5, <2>1
  <1>8. DOMAIN r = 1..Len(r) /\ DOMAIN c = 1..Len(c) /\ DOMAIN text = 1..n /\ Len(r) \in Nat
    BY <1>4, <1>h, NoteIs
  \* how r is read
  <1>s. Scan(r)[e] = Scan(c)[e] /\ Scan(c)[e] # "open"
    <2>1. /\ Tokens(T) /\ c \in Seq(T) /\ t \in Seq(T) /\ e \in 1..(Len(c) + 1) /\ e \in e..(Len(c) + 1)
          /\ r = Splice(c, e, e, t)
      BY <1>1, <1>2, <1>3, <1>r
    <2>2. Scan(r)[e] = Scan(c)[e]
      BY ONLY <2>1, SpliceStarts
    <2>3. CASE e \in Headings(c)
      <3>1. Scan(c)[e] = "start"
        BY <2>3, NoteIs
      <3>. QED BY <2>2, <3>1
    <2>4. CASE e = Len(c) + 1
      <3>1. ~Dangling(c)
        BY <1>n, <1>h, <2>4
      <3>. QED BY <2>2, <2>4, <3>1 DEF Dangling
    <2>. QED BY <1>2, <2>3, <2>4
  <1>s1. Scan(r)[e + 1] = "start"
    <2>1. e \in 1..Len(r)
      BY <1>n, <1>5
    <2>. QED BY <1>4, <1>6, <1>s, <2>1, LineEnds
  <1>s2. \A k \in 1..n : Scan(r)[e + k] = Scan(text)[k]
    <2>. DEFINE f == 1  b == n + 1
    <2>1. /\ f \in 1..(Len(text) + 1) /\ b \in f..(Len(text) + 1) /\ e \in Int /\ 1 <= f + e
          /\ b + e <= Len(r) + 1 /\ f + e = e + 1
      BY <1>n, <1>h, <1>5
    <2>2. Scan(r)[f + e] = Scan(text)[f]
      BY <1>s1, <2>1, ScanIs
    <2>3. \A k \in f..(b - 1) : k \in 1..n /\ k + e = e + k
      BY <1>n
    <2>4. \A k \in f..(b - 1) : r[k + e] = text[k]
      BY <1>6, <2>3
    <2>5. \A k \in 1..n : k \in f..b /\ k + e = e + k
      BY <1>n
    <2>. HIDE DEF f, b
    <2>6. \A k \in f..b : Scan(r)[k + e] = Scan(text)[k]
      BY ONLY <2>1, <2>2, <2>4, <1>4, text \in Seq(T), ScanAgrees
    <2>. QED BY <2>5, <2>6
  <1>s3. \A i \in 1..(e - 1) : Scan(r)[i] = Scan(c)[i]
    <2>. DEFINE f == 1  d == 0
    <2>1. /\ f \in 1..(Len(c) + 1) /\ e \in f..(Len(c) + 1) /\ d \in Int /\ 1 <= f + d
          /\ e + d <= Len(r) + 1
      BY <1>n, <1>5
    <2>2. Scan(r)[f + d] = Scan(c)[f]
      BY <1>4, ScanIs
    <2>3. \A k \in f..(e - 1) : k \in 1..(e - 1) /\ k + d = k
      BY <1>n
    <2>4. \A k \in f..(e - 1) : r[k + d] = c[k]
      BY <1>5, <2>3
    <2>5. \A i \in 1..(e - 1) : i \in f..e /\ i + d = i
      BY <1>n
    <2>. HIDE DEF f, d
    <2>6. \A k \in f..e : Scan(r)[k + d] = Scan(c)[k]
      BY ONLY <2>1, <2>2, <2>4, <1>4, c \in Seq(T), ScanAgrees
    <2>. QED BY <2>5, <2>6
  \* the headings of r are those of c
  <1>9. ASSUME NEW i \in 1..(e - 1)
        PROVE  (i \in Headings(c) <=> i \in Headings(r)) /\ r[i] = c[i]
    <2>int. i \in Int /\ 1 <= i /\ i <= e - 1
      BY ONLY <1>n, i \in 1..(e - 1)
    <2>1. i \in 1..Len(c) /\ i \in 1..Len(r)
      BY ONLY <1>n, <1>len, <2>int
    <2>2. r[i] = c[i] /\ Scan(r)[i] = Scan(c)[i]
      BY <1>5, <1>s3
    <2>3. ASSUME i \in Headings(c) PROVE i \in Headings(r)
      <3>1. c[i].level > 0 /\ Scan(c)[i] = "start" /\ (Bare(c[i]) => Solid(c, i + 1) # {})
        BY <2>3 DEF Headings
      <3>2. ASSUME NEW k \in Solid(c, i + 1) PROVE Solid(r, i + 1) # {}
        <4>1. k \in (i + 1)..Len(c) /\ c[k] # NL
          BY DEF Solid
        <4>int. k \in Int /\ i + 1 <= k /\ k <= Len(c)
          BY ONLY <1>n, <2>int, <4>1
        <4>2. CASE k < e
          <5>1. k \in 1..(e - 1) /\ k \in (i + 1)..Len(r)
            BY ONLY <1>n, <1>len, <2>int, <4>int, <4>2
          <5>2. r[k] # NL
            BY <1>5, <4>1, <5>1
          <5>. QED BY <5>1, <5>2 DEF Solid
        <4>3. CASE ~(k < e)
          <5>1. k \in e..Len(c)
            BY ONLY <1>n, <4>int, <4>3
          <5>3. k + (n + 1) \in (i + 1)..Len(r)
            BY ONLY <1>n, <1>len, <2>int, <4>int
          <5>2. r[k + (n + 1)] # NL
            BY <1>5, <4>1, <5>1
          <5>. QED BY <5>2, <5>3 DEF Solid
        <4>. QED BY <4>2, <4>3
      <3>. QED BY <1>8, <2>1, <2>2, <3>1, <3>2 DEF Headings
    <2>4. ASSUME i \in Headings(r) PROVE i \in Headings(c)
      <3>1. c[i].level > 0 /\ Scan(c)[i] = "start"
        BY <2>2, <2>4 DEF Headings
      <3>2. CASE e \in Headings(c)
        <4>1. c[e] # NL /\ e \in 1..Len(c)
          BY <3>2, NoteIs
        <4>2. e \in (i + 1)..Len(c)
          BY <1>n, <4>1
        <4>3. e \in Solid(c, i + 1)
          BY <4>1, <4>2 DEF Solid
        <4>. QED BY <1>8, <2>1, <3>1, <4>3 DEF Headings
      <3>3. CASE e = Len(c) + 1
        <4>1. ~Dangling(c)
          BY <1>n, <1>h, <3>3
        <4>. QED BY <2>1, <3>1, <4>1, ClosedHeading
      <3>. QED BY <1>2, <3>2, <3>3
    <2>. QED BY <2>2, <2>3, <2>4
  <1>10. ASSUME NEW i \in Headings(r), i \in e..(e + n)
         PROVE  FALSE
    <2>1. r[i].level > 0 /\ Scan(r)[i] = "start"
      BY DEF Headings
    <2>2. i # e
      BY <1>1, <1>6, <2>1
    <2>. DEFINE k == i - e
    <2>3. k \in 1..n /\ e + k = i
      BY <1>n, <1>10, <2>2
    <2>. HIDE DEF k
    <2>4. text[k].level > 0 /\ Scan(text)[k] = "start" /\ k \in 1..Len(text)
      BY <1>6, <1>h, <1>s2, <2>1, <2>3
    <2>5. k \in Headings(text)
      BY <2>4, ClosedHeading
    <2>. QED BY <2>5
  <1>11. ASSUME NEW i \in Headings(r), i \in (e + n + 1)..Len(r)
         PROVE  i - (n + 1) \in Headings(c) /\ r[i] = c[i - (n + 1)]
    <2>. DEFINE k == i - (n + 1)  d == n + 1
    <2>1. k \in e..Len(c) /\ r[i] = c[k]
      BY <1>7, <1>11
    <2>2. e <= Len(c) /\ e \in Headings(c) /\ e \in 1..(Len(c) + 1)
      BY <1>2, <1>n, <2>1
    <2>3. Ends(text)
      BY <1>n, <1>h, <2>2
    <2>4. Scan(r)[e + n + 1] = "start"
      <3>1. e + Len(text) <= Len(r) /\ e + Len(text) + 1 = e + n + 1
        BY <1>n, <1>h, <1>5, <2>2
      <3>2. \A x \in 1..Len(text) : r[e + x] = text[x]
        BY <1>6, <1>h
      <3>3. Scan(r)[e + Len(text) + 1] = "start"
        BY <1>4, <1>n, <1>s1, <2>3, <3>1, <3>2, TextEnds
      <3>. QED BY <3>1, <3>3
    <2>5. Scan(c)[e] = "start"
      BY <2>2, NoteIs
    <2>6. /\ d \in Int /\ Len(r) = Len(c) + d /\ e + d >= 1 /\ e + d = e + n + 1
          /\ i \in Nat /\ i = k + d
      BY <1>n, <1>5, <1>8, <1>11
    <2>7. \A x \in e..Len(c) : r[x + d] = c[x]
      BY <1>5
    <2>8. Scan(r)[e + d] = Scan(c)[e]
      BY <2>4, <2>5, <2>6
    <2>h. k = i - (n + 1)
      OBVIOUS
    <2>. HIDE DEF k, d
    <2>9. SameHeadings(c, r, e..Len(c), d)
      BY ONLY <1>4, <2>2, <2>6, <2>7, <2>8, Tokens(T), c \in Seq(T), KeptBehind
    <2>10. k \in Headings(c)
      <3>1. k + d \in Headings(r)
        BY <2>6
      <3>. QED BY <2>1, <2>9, <3>1 DEF SameHeadings
    <2>. QED BY <2>1, <2>10, <2>h
  <1>12. ASSUME NEW i \in Headings(r)
         PROVE  \E k \in Headings(c) : r[i].level = c[k].level
    <2>1. i \in 1..Len(r)
      BY <1>4, NoteIs
    <2>2. i \in 1..(e - 1) \/ i \in e..(e + n) \/ i \in (e + n + 1)..Len(r)
      BY <1>n, <1>8, <2>1
    <2>. QED BY <1>9, <1>10, <1>11, <2>2
  <1>13. TopLevel(r) = TopLevel(c)
    <2>1. PICK p \in Headings(c) : p <= a /\ c[p].level = TopLevel(c)
      BY TopLevelBefore
    <2>2. p \in 1..(e - 1)
      <3>1. p \in 1..Len(c)
        BY NoteIs
      <3>. QED BY <1>n, <2>1, <3>1
    <2>3. p \in Headings(r) /\ r[p].level = TopLevel(c)
      BY <1>9, <2>1, <2>2
    <2>4. /\ TopLevel(r) \in 1..6 /\ TopLevel(r) <= TopLevel(c)
          /\ \E i \in Headings(r) : r[i].level = TopLevel(r)
      BY <1>4, <2>3, TopLevelIs
    <2>5. TopLevel(c) \in 1..6 /\ \A k \in Headings(c) : TopLevel(c) <= c[k].level
      BY TopLevelIs
    <2>6. TopLevel(c) <= TopLevel(r)
      BY <1>12, <2>4, <2>5
    <2>. QED BY <2>4, <2>5, <2>6
  <1>14. a \in SectionHeads(r)
    <2>1. ASSUME NEW i \in Nat, i <= a
          PROVE  /\ i \in Headings(c) <=> i \in Headings(r)
                 /\ i \in Headings(c) => r[i].level = c[i].level
      <3>1. CASE i = 0
        <4>1. Headings(c) \subseteq 1..Len(c) /\ Headings(r) \subseteq 1..Len(r)
          BY <1>4, NoteIs
        <4>2. 0 \notin 1..Len(c) /\ 0 \notin 1..Len(r)
          BY <1>8, <1>n
        <4>. QED BY <3>1, <4>1, <4>2
      <3>2. CASE i # 0
        <4>1. i \in 1..(e - 1)
          BY <1>n, <2>1, <3>2
        <4>. QED BY <1>9, <4>1
      <3>. QED BY <3>1, <3>2
    <2>. QED BY <1>4, <1>13, <2>1, HeadsSurvive
  \* and the section of a holds the text
  <1>15. a \in 1..Len(r) /\ a \in 1..(e - 1) /\ r[a] = c[a]
    <2>1. Len(r) = Len(c) + n + 1
      BY <1>5
    <2>2. a \in 1..Len(r) /\ a \in 1..(e - 1)
      BY <1>n, <2>1
    <2>. QED BY <1>5, <2>2
  <1>16. LineEnd(r, a) <= e
    <2>1. a \in Headings(r)
      BY <1>1, <1>9, <1>15
    <2>2. /\ LineEnd(r, a) \in Nat
          /\ \A k \in (a + 1)..(LineEnd(r, a) + 1) : Scan(r)[k] # "start"
      BY <1>4, <2>1, LineEndIs
    <2>3. e + 1 \notin (a + 1)..(LineEnd(r, a) + 1)
      BY <1>s1, <2>2
    <2>. QED BY <1>n, <2>2, <2>3
  <1>17. e + n < SectionEnd(r, a)
    <2>. DEFINE f == SectionEnd(r, a)
    <2>1. /\ f \in (a + 1)..(Len(r) + 1) /\ f \in Nat
          /\ (f \in Headings(r) /\ r[f].level <= r[a].level) \/ f = Len(r) + 1
      BY <1>4, <1>15, SectionEndIs
    <2>. HIDE DEF f
    <2>2. CASE f = Len(r) + 1
      BY <1>n, <1>5, <2>2 DEF f
    <2>3. CASE f \in Headings(r) /\ r[f].level <= r[a].level
      <3>1. ~(f \in e..(e + n))
        BY <1>10, <2>3
      <3>2. ~(f < e)
        <4>. SUFFICES ASSUME f < e PROVE FALSE
          OBVIOUS
        <4>1. f \in 1..(e - 1) /\ a < f
          BY <1>n, <2>1
        <4>2. f \in Headings(c) /\ r[f] = c[f]
          BY <1>9, <2>3, <4>1
        <4>3. c[a].level < c[f].level
          BY <1>2, <4>1, <4>2
        <4>4. c[a].level \in 1..6 /\ c[f].level \in 1..6
          BY <1>1, <4>2, NoteIs
        <4>5. r[a] = c[a]
          BY <1>15
        <4>6. c[f].level <= c[a].level
          BY <2>3, <4>2, <4>5
        <4>. QED BY ONLY <4>3, <4>4, <4>6
      <3>. QED BY <1>n, <2>1, <3>1, <3>2 DEF f
    <2>. QED BY <2>1, <2>2, <2>3
  <1>18. /\ LineEnd(r, a) <= e /\ e + Len(text) < SectionEnd(r, a)
         /\ Holds(r, e, text)
         /\ e \in Nat /\ r \in Seq(T) /\ text \in Seq(T) /\ Tokens(T) /\ MinChunk \in Nat \ {0}
         /\ Len(Strip(text)) >= MinChunk
    BY <1>n, <1>4, <1>6, <1>16, <1>17, <1>h DEF Holds
  <1>. QED BY ONLY <1>14, <1>18, TextInSection

LEMMA FoundIsInvariant == PatchInv => AppendedIsFound
  <1>. SUFFICES ASSUME PatchInv, Op = "append_under_heading", Closed,
                       Headings(last.patch.text) = {}, ~Dangling(last.patch.text),
                       SectionEnd(last.old, Addressed) > Len(last.old) => ~Dangling(last.old),
                       Len(Strip(last.patch.text)) >= MinChunk, Addressed \in SectionHeads(last.old)
                PROVE  \E ch \in Chunks(note) :
                         /\ ch.head = Addressed
                         /\ Places(ch.text, Strip(last.patch.text), 1) # {}
    BY DEF AppendedIsFound
  <1>1. OfHeading(last.patch) /\ last # Owner
    BY DEF Op, OfHeading, Owner
  <1>2. /\ last.old \in Seq(Token) /\ last.patch \in Patches /\ ValidPatch(last.patch)
        /\ note \in Patched(last.old, last.patch)
    BY <1>1 DEF PatchInv
  <1>3. last.patch.text \in Seq(Token) /\ last.patch.text # <<>>
    BY <1>2, PatchTexts DEF Texts, ValidPatch
  <1>3a. Ends(last.patch.text) \/ SectionEnd(last.old, Addressed) > Len(last.old)
    BY <1>3 DEF Closed, Ends
  <1>4. Appended(note, last.old, Addressed, last.patch.text)
    <2>1. last.patch.operation = "append_under_heading"
      BY DEF Op
    <2>. QED BY <1>1, <1>2, <2>1, TokensHold, SectionPatchIs DEF Addressed, Appended
  <1>5. /\ Tokens(Token) /\ MinChunk \in Nat \ {0} /\ last.old \in Seq(Token)
        /\ last.patch.text \in Seq(Token) /\ Addressed \in SectionHeads(last.old)
        /\ Headings(last.patch.text) = {} /\ Len(Strip(last.patch.text)) >= MinChunk
        /\ ~Dangling(last.patch.text)
        /\ SectionEnd(last.old, Addressed) > Len(last.old) => ~Dangling(last.old)
    BY <1>2, <1>3, TokensHold
  <1>6. Found(note, Addressed, last.patch.text)
    BY ONLY <1>3a, <1>4, <1>5, AppendedText
  <1>. QED BY <1>6 DEF Found

-----------------------------------------------------------------------------
(* The same patch again *)

\* The new section starts with the same heading, contains only deeper ones, and
\* ends its last line and its last title.
SameSection(c, a, t) ==
  /\ 1 \in Headings(t) /\ Title(t, 1) = Title(c, a) /\ t[1].level >= c[a].level
  /\ \A i \in Headings(t) \ {1} : t[i].level > t[1].level
  /\ Ends(t) \/ SectionEnd(c, a) > Len(c)

LEMMA SectionAgain ==
  ASSUME NEW T, Tokens(T), NEW c \in Seq(T), NEW p, Texts(p) \subseteq Seq(T),
         p.operation = "replace_section", p.text # <<>>, NEW r \in Patched(c, p),
         SameSection(c, Min(HeadingsCalled(c, p.at)), p.text)
  PROVE  r \in Patched(r, p)
  <1>. DEFINE a == Min(HeadingsCalled(c, p.at))  e == SectionEnd(c, a)
              t == p.text  n == Len(t)  g == a + n
  <1>1. OfHeading(p) /\ t \in Seq(T)
    BY DEF OfHeading, Texts
  <1>2. /\ a \in HeadingsCalled(c, p.at) /\ \A y \in HeadingsCalled(c, p.at) : a <= y
        /\ a \in Headings(c) /\ a \in 1..Len(c) /\ Scan(c)[a] = "start"
        /\ e \in (a + 1)..(Len(c) + 1)
        /\ e \in Headings(c) \/ e = Len(c) + 1
        /\ r = Splice(c, a, e, t)
    BY <1>1, SectionPatchIs
  <1>3. /\ 1 \in Headings(t) /\ Title(t, 1) = Title(c, a) /\ t[1].level >= c[a].level
        /\ \A i \in Headings(t) \ {1} : t[i].level > t[1].level
        /\ Ends(t) \/ e > Len(c)
    BY DEF SameSection
  <1>4. /\ SameHeadings(c, r, 1..(a - 1), 0)
        /\ SameHeadings(c, r, e..Len(c), Len(r) - Len(c))
    BY <1>1, <1>3, OthersSurvive
  <1>h. t = p.text /\ a = Min(HeadingsCalled(c, p.at)) /\ e = SectionEnd(c, a) /\ n = Len(t) /\ g = a + n
    OBVIOUS
  <1>. HIDE DEF a, e, t, n, g
  <1>5. /\ Len(c) \in Nat /\ n \in Nat /\ 1 \in 1..Len(t) /\ t[1].level > 0 /\ t[1] # NL
        /\ DOMAIN t = 1..Len(t)
    <2>1. 1 \in 1..Len(t) /\ t[1].level \in 1..6 /\ t[1] # NL /\ DOMAIN t = 1..Len(t) /\ Len(t) \in Nat
      BY <1>1, <1>3, NoteIs
    <2>. QED BY <1>h, <2>1, NoteIs
  <1>n. /\ Len(c) \in Nat /\ n \in Nat /\ 1 <= n /\ a \in Nat /\ e \in Nat /\ g \in Nat /\ g = a + n
        /\ 1 <= a /\ a < e /\ e <= Len(c) + 1
    BY <1>2, <1>5, <1>h
  <1>6. r \in Seq(T) /\ IsSplice(r, c, a, e, t)
    <2>1. c \in Seq(T) /\ t \in Seq(T) /\ a \in 1..(Len(c) + 1) /\ e \in a..(Len(c) + 1)
      BY <1>1, <1>n
    <2>. QED BY ONLY <1>2, <2>1, SpliceIs
  <1>7. /\ Len(r) = Len(c) + (n - (e - a)) /\ Len(r) \in Nat /\ DOMAIN r = 1..Len(r)
        /\ \A k \in 1..(a - 1) : r[k] = c[k]
        /\ \A k \in 1..n : r[a - 1 + k] = t[k]
    BY <1>6, <1>h DEF IsSplice
  <1>m. Len(r) \in Nat /\ g <= Len(r) + 1 /\ a <= Len(r) /\ (e = Len(c) + 1 => g = Len(r) + 1)
        /\ e + (Len(r) - Len(c)) = g
    <2>1. Len(r) = Len(c) + (n - (e - a)) /\ Len(r) \in Nat
      BY <1>7
    <2>. QED BY <1>n, <2>1
  \* r is read from a on like the new section
  <1>s. Scan(r)[a] = "start" /\ \A k \in 1..n : Scan(r)[k + (a - 1)] = Scan(t)[k]
    <2>1. /\ c \in Seq(T) /\ t \in Seq(T) /\ a \in 1..(Len(c) + 1) /\ e \in a..(Len(c) + 1)
          /\ r = Splice(c, a, e, t) /\ Tokens(T)
      BY <1>1, <1>2, <1>n
    <2>2. Scan(r)[a] = Scan(c)[a]
      BY ONLY <2>1, SpliceStarts
    <2>. DEFINE f == 1  d == a - 1
    <2>3. f \in 1..(Len(t) + 1) /\ n \in f..(Len(t) + 1) /\ d \in Int /\ 1 <= f + d /\ f + d = a
      BY <1>n, <1>h
    <2>4. n + d <= Len(r) + 1
      BY <1>n, <1>m
    <2>5. Scan(r)[f + d] = Scan(t)[f]
      BY <1>2, <2>1, <2>2, <2>3, ScanIs
    <2>6. \A k \in f..(n - 1) : k \in 1..n /\ k + d = a - 1 + k
      BY <1>n
    <2>7. \A k \in f..(n - 1) : r[k + d] = t[k]
      BY <1>7, <2>6
    <2>h. f = 1 /\ d = a - 1
      OBVIOUS
    <2>. HIDE DEF f, d
    <2>9. r \in Seq(T) /\ t \in Seq(T)
      BY <1>6, <2>1
    <2>8. \A k \in f..n : Scan(r)[k + d] = Scan(t)[k]
      BY ONLY <2>3, <2>4, <2>5, <2>7, <2>9, ScanAgrees
    <2>. QED BY <1>2, <2>2, <2>8, <2>h
  \* the heading is where it was
  <1>8. r[a] = t[1] /\ a \in Headings(r) /\ Title(r, a) = Title(t, 1)
    <2>. DEFINE l == LineEnd(t, 1)
    <2>1. /\ l \in 1..Len(t) /\ l \in Nat
          /\ l = Len(t) \/ t[l + 1] = NL
          /\ t[l] # NL
      BY <1>1, <1>3, LineEndIs
    <2>h. l = LineEnd(t, 1)
      OBVIOUS
    <2>. HIDE DEF l
    <2>2. 1 <= l /\ l <= n /\ l \in Nat
      BY <1>n, <1>h, <2>1
    <2>3. \A k \in 1..l : k \in 1..n /\ k + (a - 1) = a - 1 + k
      BY <1>n, <2>2
    <2>4. \A k \in 1..l : r[k + (a - 1)] = t[k]
      BY <1>7, <2>3
    <2>5. l + (a - 1) <= Len(r)
      BY <1>n, <1>m, <2>2
    <2>6. l + (a - 1) = Len(r) \/ r[l + (a - 1) + 1] = NL
      <3>1. CASE l = n
        <4>1. ~Ends(t)
          BY <1>h, <2>1, <3>1 DEF Ends
        <4>2. e = Len(c) + 1
          BY <1>3, <1>n, <4>1
        <4>. QED BY <1>n, <1>m, <3>1, <4>2
      <3>2. CASE l # n
        <4>1. l + 1 \in 1..n /\ a - 1 + (l + 1) = l + (a - 1) + 1
          BY <1>n, <2>2, <3>2
        <4>2. r[l + (a - 1) + 1] = t[l + 1]
          BY <1>7, <4>1
        <4>. QED BY <1>h, <2>1, <3>2, <4>2
      <3>. QED BY <3>1, <3>2
    <2>. DEFINE x == 1
    <2>7. /\ LineEnd(t, x) + (a - x) <= Len(r)
          /\ \A k \in x..LineEnd(t, x) : r[k + (a - x)] = t[k]
          /\ LineEnd(t, x) + (a - x) = Len(r) \/ r[LineEnd(t, x) + (a - x) + 1] = NL
          /\ a \in 1..Len(r) /\ x \in Headings(t)
      BY <1>3, <1>n, <1>m, <2>4, <2>5, <2>6, <2>h
    <2>9. Tokens(T) /\ t \in Seq(T) /\ r \in Seq(T) /\ Scan(r)[a] = "start"
      BY <1>1, <1>6, <1>h, <1>s
    <2>. HIDE DEF x
    <2>8. a \in Headings(r) /\ r[a] = t[x] /\ Title(r, a) = Title(t, x)
      BY ONLY <2>7, <2>9, HeadingMoves
    <2>. QED BY <2>8 DEF x
  <1>9. Title(r, a) = Title(c, a)
    BY <1>3, <1>8
  <1>10. a \in HeadingsCalled(r, p.at)
    BY <1>2, <1>8, <1>9 DEF HeadingsCalled
  <1>11. ASSUME NEW y \in HeadingsCalled(r, p.at)
         PROVE  a <= y
    <2>1. y \in Headings(r) /\ Title(r, y) = Strip(p.at)
      BY DEF HeadingsCalled
    <2>2. y \in Nat /\ 1 <= y
      BY <1>6, <2>1, NoteIs
    <2>. SUFFICES ASSUME y < a PROVE FALSE
      BY <1>n, <2>2
    <2>3. y \in 1..(a - 1) /\ y + 0 = y
      BY <1>n, <2>2
    <2>4. y \in Headings(c) /\ Title(r, y) = Title(c, y)
      BY <1>4, <2>1, <2>3 DEF SameHeadings
    <2>5. y \in HeadingsCalled(c, p.at)
      BY <2>1, <2>4 DEF HeadingsCalled
    <2>6. a <= y
      BY <1>2, <2>5
    <2>. QED BY <1>n, <2>2, <2>6
  <1>12. Min(HeadingsCalled(r, p.at)) = a
    <2>1. HeadingsCalled(r, p.at) \subseteq Nat
      BY <1>6, NoteIs DEF HeadingsCalled
    <2>2. /\ Min(HeadingsCalled(r, p.at)) \in HeadingsCalled(r, p.at)
          /\ \A y \in HeadingsCalled(r, p.at) : Min(HeadingsCalled(r, p.at)) <= y
      BY <1>10, <2>1, MinIs
    <2>. DEFINE m == Min(HeadingsCalled(r, p.at))
    <2>3. m <= a /\ a <= m /\ m \in Nat
      BY <1>10, <1>11, <2>1, <2>2
    <2>. HIDE DEF m
    <2>4. m = a
      BY <1>n, <2>3
    <2>. QED BY <2>4 DEF m
  \* and its section is the new one
  <1>13. SectionEnd(r, a) = g
    <2>1. g \in (a + 1)..(Len(r) + 1)
      BY <1>n, <1>m
    <2>2. (g \in Headings(r) /\ r[g].level <= r[a].level) \/ g = Len(r) + 1
      <3>1. CASE e = Len(c) + 1
        BY <1>m, <3>1
      <3>2. CASE e # Len(c) + 1
        <4>1. e \in Headings(c) /\ e \in e..Len(c)
          BY <1>2, <1>n, <3>2
        <4>2. g \in Headings(r) /\ r[g].level = c[e].level
          BY <1>4, <1>m, <4>1 DEF SameHeadings
        <4>3. c[e].level <= c[a].level
          <5>1. (e \in Headings(c) /\ c[e].level <= c[a].level) \/ e = Len(c) + 1
            BY <1>2, <1>h, SectionEndIs
          <5>. QED BY <3>2, <5>1
        <4>4. c[e].level \in 1..6 /\ c[a].level \in 1..6 /\ t[1].level \in 1..6
          BY <1>1, <1>2, <1>3, <4>1, NoteIs
        <4>5. c[e].level <= t[1].level
          BY <1>3, <4>3, <4>4
        <4>. QED BY <1>8, <4>2, <4>5
      <3>. QED BY <3>1, <3>2
    <2>3. ASSUME NEW j \in Headings(r), a < j, j < g
          PROVE  r[a].level < r[j].level
      <3>1. j \in Nat
        BY <1>6, NoteIs
      <3>. DEFINE k == j - a + 1
      <3>1a. a + 1 <= j /\ j <= a + n - 1
        BY <1>n, <2>3, <3>1
      <3>1b. k \in Nat /\ 2 <= k /\ k <= n /\ a - 1 + k = j
        BY <1>n, <3>1, <3>1a
      <3>. HIDE DEF k
      <3>2. k \in 1..n /\ a - 1 + k = j /\ k + (a - 1) = j /\ k # 1
        BY <1>n, <3>1a, <3>1b
      <3>3. r[j] = t[k] /\ Scan(r)[j] = Scan(t)[k]
        BY <1>7, <1>s, <3>2
      <3>4. t[k].level > 0 /\ Scan(t)[k] = "start" /\ k \in 1..Len(t) /\ (Bare(t[k]) => Solid(r, j + 1) # {})
        BY <1>h, <3>2, <3>3 DEF Headings
      <3>5. k \in Headings(t)
        <4>1. CASE Ends(t)
          BY <1>1, <3>4, <4>1, ClosedHeading DEF Ends
        <4>2. CASE e = Len(c) + 1
          <5>1. ASSUME NEW y \in Solid(r, j + 1) PROVE Solid(t, k + 1) # {}
            <6>1. y \in (j + 1)..Len(r) /\ r[y] # NL
              BY DEF Solid
            <6>. DEFINE x == y - (a - 1)
            <6>2. x \in (k + 1)..n /\ x \in 1..n /\ a - 1 + x = y
              BY <1>n, <1>m, <3>1b, <4>2, <6>1
            <6>. HIDE DEF x
            <6>3. t[x] # NL /\ x \in (k + 1)..Len(t)
              BY <1>7, <1>h, <6>1, <6>2
            <6>. QED BY <6>3 DEF Solid
          <5>. QED BY <1>5, <3>4, <5>1 DEF Headings
        <4>. QED BY <1>3, <1>n, <4>1, <4>2
      <3>6. t[k].level > t[1].level
        BY <1>3, <3>2, <3>5
      <3>7. t[k].level \in 1..6 /\ t[1].level \in 1..6
        BY <1>1, <1>3, <3>5, NoteIs
      <3>8. r[j].level = t[k].level /\ r[a].level = t[1].level
        BY <1>8, <3>3
      <3>. QED BY ONLY <3>6, <3>7, <3>8
    <2>4. a \in 1..Len(r)
      BY <1>n, <1>m
    <2>. QED BY <1>6, <2>1, <2>2, <2>3, <2>4, SectionEndUnique
  <1>14. Splice(r, a, g, t) \in Patched(r, p)
    <2>1. NextSibling(r, a) = g
      BY <1>6, <1>8, <1>13, SiblingIsSection
    <2>2. HeadingsCalled(r, p.at) # {}
      BY <1>10
    <2>. QED BY <1>12, <1>h, <2>1, <2>2 DEF Patched
  <1>15. Splice(r, a, g, t) = r
    <2>1. r \in Seq(T) /\ t \in Seq(T) /\ a \in 1..(Len(r) + 1) /\ g \in a..(Len(r) + 1)
      BY <1>1, <1>6, <1>n, <1>m
    <2>. DEFINE q == Splice(r, a, g, t)
    <2>2. q \in Seq(T) /\ IsSplice(q, r, a, g, t)
      BY ONLY <2>1, SpliceIs
    <2>. HIDE DEF q
    <2>3. Len(t) - (g - a) = 0
      BY <1>n, <1>h
    <2>4. /\ Len(q) = Len(r) + 0
          /\ \A k \in 1..(a - 1) : q[k] = r[k]
          /\ \A k \in 1..n : q[a - 1 + k] = t[k]
          /\ \A k \in g..Len(r) : q[k + 0] = r[k]
      BY <1>h, <2>2, <2>3 DEF IsSplice
    <2>5. ASSUME NEW k \in 1..Len(r) PROVE q[k] = r[k]
      <3>1. CASE k < a
        <4>1. k \in 1..(a - 1)
          BY <1>n, <1>m, <3>1
        <4>. QED BY <2>4, <4>1
      <3>2. CASE a <= k /\ k < g
        <4>1. k - a + 1 \in 1..n /\ a - 1 + (k - a + 1) = k
          BY <1>n, <1>m, <3>2
        <4>2. q[k] = t[k - a + 1]
          BY <2>4, <4>1
        <4>3. r[k] = t[k - a + 1]
          BY <1>7, <4>1
        <4>. QED BY <4>2, <4>3
      <3>3. CASE g <= k
        <4>1. k \in g..Len(r) /\ k + 0 = k
          BY <1>n, <1>m, <3>3
        <4>. QED BY <2>4, <4>1
      <3>. QED BY <1>n, <1>m, <3>1, <3>2, <3>3
    <2>6. Len(q) = Len(r)
      BY <1>m, <2>4
    <2>7. q \in Seq(T) /\ r \in Seq(T) /\ Len(r) = Len(r)
      BY <1>6, <2>2
    <2>8. q = r
      BY ONLY <2>5, <2>6, <2>7, EqualTexts
    <2>. QED BY <2>8 DEF q
  <1>. QED BY <1>14, <1>15

LEMMA IdempotentIsInvariant == PatchInv => ReplaceIsIdempotent
  <1>. SUFFICES ASSUME PatchInv, Op = "replace_section", Closed,
                       1 \in Headings(last.patch.text),
                       Title(last.patch.text, 1) = Title(last.old, Addressed),
                       last.patch.text[1].level >= last.old[Addressed].level,
                       \A i \in Headings(last.patch.text) \ {1} :
                         last.patch.text[i].level > last.patch.text[1].level
                PROVE  Patched(note, last.patch) = {note}
    BY DEF ReplaceIsIdempotent
  <1>1. last # Owner /\ last.patch.operation = "replace_section"
    BY DEF Op, Owner
  <1>2. /\ last.old \in Seq(Token) /\ last.patch \in Patches /\ ValidPatch(last.patch)
        /\ note \in Patched(last.old, last.patch) /\ note \in Seq(Token)
    BY <1>1 DEF PatchInv
  <1>3. Texts(last.patch) \subseteq Seq(Token) /\ last.patch.text # <<>>
    BY <1>2, PatchTexts DEF ValidPatch
  <1>4. SameSection(last.old, Min(HeadingsCalled(last.old, last.patch.at)), last.patch.text)
    <2>1. Ends(last.patch.text) \/ SectionEnd(last.old, Addressed) > Len(last.old)
      BY <1>3 DEF Closed, Ends
    <2>. QED BY <2>1 DEF SameSection, Addressed
  <1>5. Tokens(Token)
    BY TokensHold
  <1>6. note \in Patched(note, last.patch)
    BY ONLY <1>1, <1>2, <1>3, <1>4, <1>5, SectionAgain
  <1>. QED BY ONLY <1>2, <1>3, <1>5, <1>6, PatchedIs

-----------------------------------------------------------------------------
(* The sources of a proposal *)

WikiToken(paths) == Token \cup {Heading(2, "Sources")} \cup {Word(paths[k]) : k \in 1..Len(paths)}

LEMMA ReferencesAre ==
  ASSUME NEW paths, Len(paths) \in Nat, \A k \in 1..Len(paths) : Word(paths[k]) # FENCE
  PROVE  /\ References(paths) \in Seq(WikiToken(paths))
         /\ \A k \in 1..Len(References(paths)) : /\ References(paths)[k].level = 0
                                                 /\ References(paths)[k] # FENCE
  <1>. DEFINE n == 2 * Len(paths)
  <1>1. n \in Nat
    OBVIOUS
  <1>2. References(paths) =
          [k \in 1..n |-> IF k % 2 = 1 THEN Word(paths[(k + 1) \div 2]) ELSE NL]
    BY DEF References
  <1>3. NL \in WikiToken(paths) /\ NL.level = 0 /\ NL # FENCE
    <2>1. NL.text = "newline" /\ FENCE.text = "---" /\ "newline" # "---"
      BY DEF NL, FENCE, Word
    <2>. QED BY <2>1 DEF WikiToken, Token, NL, Word
  <1>. HIDE DEF n
  <1>4. ASSUME NEW k \in 1..n, k % 2 = 1
        PROVE  /\ Word(paths[(k + 1) \div 2]) \in WikiToken(paths)
               /\ Word(paths[(k + 1) \div 2]).level = 0
               /\ Word(paths[(k + 1) \div 2]) # FENCE
    <2>1. (k + 1) \div 2 \in 1..Len(paths)
      BY <1>4 DEF n
    <2>2. \A w : Word(w).level = 0
      BY DEF Word
    <2>. QED BY <2>1, <2>2 DEF WikiToken
  <1>5. \A k \in 1..n : /\ References(paths)[k] \in WikiToken(paths)
                        /\ References(paths)[k].level = 0
                        /\ References(paths)[k] # FENCE
    BY <1>2, <1>3, <1>4
  <1>6. References(paths) \in [1..n -> WikiToken(paths)]
    BY <1>2, <1>5
  <1>. HIDE DEF References
  <1>7. References(paths) \in Seq(WikiToken(paths)) /\ Len(References(paths)) = n
    BY <1>1, <1>6
  <1>. QED BY <1>5, <1>7

LEMMA WikiTokens ==
  ASSUME NEW paths
  PROVE  Tokens(WikiToken(paths)) /\ Token \subseteq WikiToken(paths)
  <1>1. Heading(2, "Sources").level = 2 /\ \A w : Word(w).level = 0
    BY DEF Heading, Word
  <1>. QED BY <1>1, TokensHold DEF Tokens, WikiToken

\* A proposal is the draft without the line ends behind it, the heading, and
\* the list.
IsProposal(r, draft, m, refs) ==
  /\ Len(r) = m + 5 + Len(refs)
  /\ \A k \in 1..m : r[k] = draft[k]
  /\ \A k \in (m + 1)..Len(draft) : draft[k] = NL
  /\ r[m + 1] = NL /\ r[m + 2] = NL /\ r[m + 3] = Heading(2, "Sources")
  /\ r[m + 4] = NL /\ r[m + 5] = NL
  /\ \A k \in 1..Len(refs) : r[m + 5 + k] = refs[k]

LEMMA ProposalIs ==
  ASSUME NEW draft \in Seq(Token), NEW paths, Len(paths) \in Nat, paths # <<>>,
         \A k \in 1..Len(paths) : Word(paths[k]) # FENCE,
         NEW T, T = WikiToken(paths), NEW r, r = WithSources(draft, paths)
  PROVE  \E m \in 0..Len(draft) : r \in Seq(T) /\ IsProposal(r, draft, m, References(paths))
  <1>. DEFINE solid == Solid(draft, 1)
              body == IF solid = {} THEN <<>> ELSE SubSeq(draft, 1, Max(solid))
              mid == <<NL, NL, Heading(2, "Sources"), NL, NL>>
              refs == References(paths)
  <1>1. Len(draft) \in Nat /\ DOMAIN draft = 1..Len(draft)
    OBVIOUS
  <1>0. \A k : k \in solid <=> k \in 1..Len(draft) /\ draft[k] # NL
    BY DEF Solid
  <1>2. r = body \o mid \o refs
    BY DEF WithSources
  <1>3. Tokens(T) /\ draft \in Seq(T) /\ NL \in T /\ Heading(2, "Sources") \in T
    <2>1. Tokens(T) /\ Token \subseteq T
      BY WikiTokens
    <2>2. draft \in Seq(T)
      BY <1>1, <2>1
    <2>. QED BY <2>1, <2>2 DEF Tokens, WikiToken
  <1>4. refs \in Seq(T)
    BY ReferencesAre
  <1>5. \E m \in 0..Len(draft) :
          /\ body \in Seq(T) /\ Len(body) = m /\ \A k \in 1..m : body[k] = draft[k]
          /\ \A k \in (m + 1)..Len(draft) : draft[k] = NL
    <2>1. CASE solid = {}
      <3>1. body = <<>> /\ 0 \in 0..Len(draft)
        BY <1>1, <2>1
      <3>2. \A k \in (0 + 1)..Len(draft) : draft[k] = NL
        BY <1>0, <1>1, <2>1
      <3>. HIDE DEF body
      <3>3. body \in Seq(T) /\ Len(body) = 0
        BY <3>1
      <3>4. \A k \in 1..0 : body[k] = draft[k]
        OBVIOUS
      <3>. QED BY <3>1, <3>2, <3>3, <3>4
    <2>2. CASE solid # {}
      <3>. DEFINE m == Max(solid)
      <3>1. solid \in SUBSET (0..Len(draft))
        BY <1>0, <1>1
      <3>2. body = SubSeq(draft, 1, m)
        BY <2>2
      <3>h. \A k \in 1..Len(draft) : draft[k] # NL => k \in solid
        BY <1>0
      <3>i. \A k \in solid : k \in 1..Len(draft)
        BY <1>0
      <3>. HIDE DEF solid, body
      <3>3. m \in solid /\ \A k \in solid : k <= m
        BY <1>1, <2>2, <3>1, MaxIs
      <3>4. m \in 1..Len(draft)
        BY <3>3, <3>i
      <3>. HIDE DEF m
      <3>5. m \in Nat /\ 1 <= m /\ m <= Len(draft)
        BY <1>1, <3>4
      <3>6. ASSUME NEW k \in (m + 1)..Len(draft) PROVE draft[k] = NL
        <4>1. k \in 1..Len(draft) /\ ~(k <= m)
          BY <1>1, <3>5
        <4>. QED BY <3>3, <3>h, <4>1
      <3>7. body \in Seq(T) /\ Len(body) = m /\ \A k \in 1..m : body[k] = draft[k]
        <4>1. draft \in Seq(T) /\ 1 \in 1..(Len(draft) + 1) /\ m \in (1 - 1)..Len(draft)
          BY <1>1, <1>3, <3>5
        <4>2. /\ body \in Seq(T) /\ Len(body) = m - 1 + 1
              /\ \A k \in 1..(m - 1 + 1) : body[k] = draft[1 + k - 1]
          BY ONLY <3>2, <4>1, SubSeqIs
        <4>3. m - 1 + 1 = m /\ \A k \in 1..m : 1 + k - 1 = k
          BY <3>5
        <4>. QED BY <4>2, <4>3
      <3>8. m \in 0..Len(draft)
        BY <1>1, <3>5
      <3>. QED BY <3>6, <3>7, <3>8
    <2>. QED BY <2>1, <2>2
  <1>6. /\ mid \in Seq(T) /\ Len(mid) = 5
        /\ mid[1] = NL /\ mid[2] = NL /\ mid[3] = Heading(2, "Sources") /\ mid[4] = NL /\ mid[5] = NL
    BY <1>3
  <1>. HIDE DEF solid, body, mid, refs
  <1>7. PICK m \in 0..Len(draft) :
          /\ body \in Seq(T) /\ Len(body) = m /\ \A k \in 1..m : body[k] = draft[k]
          /\ \A k \in (m + 1)..Len(draft) : draft[k] = NL
    BY <1>5
  <1>. DEFINE bm == body \o mid
  <1>8. /\ bm \in Seq(T) /\ Len(bm) = Len(body) + Len(mid)
        /\ \A k \in 1..(Len(body) + Len(mid)) :
             bm[k] = IF k <= Len(body) THEN body[k] ELSE mid[k - Len(body)]
    <2>1. body \in Seq(T) /\ mid \in Seq(T)
      BY <1>6, <1>7
    <2>. QED BY <2>1, ConcatProperties
  <1>9. r = bm \o refs
    BY <1>2
  <1>. HIDE DEF bm
  <1>10. /\ r \in Seq(T) /\ Len(r) = Len(bm) + Len(refs)
         /\ \A k \in 1..(Len(bm) + Len(refs)) :
              r[k] = IF k <= Len(bm) THEN bm[k] ELSE refs[k - Len(bm)]
    <2>1. bm \in Seq(T) /\ refs \in Seq(T)
      BY <1>4, <1>8
    <2>2. /\ bm \o refs \in Seq(T) /\ Len(bm \o refs) = Len(bm) + Len(refs)
          /\ \A k \in 1..(Len(bm) + Len(refs)) :
               (bm \o refs)[k] = IF k <= Len(bm) THEN bm[k] ELSE refs[k - Len(bm)]
      BY ONLY <2>1, ConcatProperties
    <2>. QED BY <1>9, <2>2
  <1>11. m \in Nat /\ Len(refs) \in Nat /\ Len(bm) = m + 5 /\ Len(body) = m /\ Len(mid) = 5
    <2>1. m \in Nat /\ Len(refs) \in Nat /\ Len(body) = m /\ Len(mid) = 5
      BY <1>1, <1>4, <1>6, <1>7
    <2>2. Len(bm) = Len(body) + Len(mid)
      BY <1>8
    <2>. QED BY <2>1, <2>2
  <1>12. \A k \in 1..m : r[k] = draft[k]
    <2>1. \A k \in 1..m : /\ k \in 1..(Len(bm) + Len(refs)) /\ k <= Len(bm)
                          /\ k \in 1..(Len(body) + Len(mid)) /\ k <= Len(body)
      BY <1>11
    <2>2. \A k \in 1..m : r[k] = bm[k] /\ bm[k] = body[k]
      BY <1>8, <1>10, <2>1
    <2>. QED BY <1>7, <2>2
  <1>13. ASSUME NEW k \in 1..5 PROVE r[m + k] = mid[k]
    <2>. DEFINE x == m + k
    <2>1. /\ x \in 1..(Len(bm) + Len(refs)) /\ x <= Len(bm)
          /\ x \in 1..(Len(body) + Len(mid)) /\ ~(x <= Len(body)) /\ x - Len(body) = k
      BY <1>11
    <2>. HIDE DEF x
    <2>2. r[x] = bm[x] /\ bm[x] = mid[x - Len(body)]
      BY <1>8, <1>10, <2>1
    <2>. QED BY <2>1, <2>2 DEF x
  <1>14. /\ r[m + 1] = NL /\ r[m + 2] = NL /\ r[m + 3] = Heading(2, "Sources")
         /\ r[m + 4] = NL /\ r[m + 5] = NL
    <2>1. 1 \in 1..5 /\ 2 \in 1..5 /\ 3 \in 1..5 /\ 4 \in 1..5 /\ 5 \in 1..5
      OBVIOUS
    <2>. QED BY <1>6, <1>13, <2>1
  <1>15. ASSUME NEW k \in 1..Len(refs) PROVE r[m + 5 + k] = refs[k]
    <2>. DEFINE x == m + 5 + k
    <2>1. x \in 1..(Len(bm) + Len(refs)) /\ ~(x <= Len(bm)) /\ x - Len(bm) = k
      BY <1>11
    <2>. HIDE DEF x
    <2>2. r[x] = refs[x - Len(bm)]
      BY <1>10, <2>1
    <2>. QED BY <2>1, <2>2 DEF x
  <1>16. Len(r) = m + 5 + Len(refs)
    BY <1>10, <1>11
  <1>17. IsProposal(r, draft, m, refs)
    BY <1>7, <1>12, <1>14, <1>15, <1>16 DEF IsProposal
  <1>. QED BY <1>10, <1>17 DEF refs

\* Its headings are those of the draft and the one of the list.
LEMMA ProposalHeadings ==
  ASSUME NEW T, Tokens(T), NEW draft \in Seq(T), NEW r \in Seq(T), NEW m \in 0..Len(draft),
         NEW refs \in Seq(T), \A k \in 1..Len(refs) : refs[k].level = 0,
         IsProposal(r, draft, m, refs), ~Dangling(draft)
  PROVE  Headings(r) = Headings(draft) \cup {m + 3} /\ \A i \in Headings(draft) : i <= m
  <1>1. /\ Len(draft) \in Nat /\ m \in Nat /\ m <= Len(draft)
        /\ DOMAIN draft = 1..Len(draft) /\ DOMAIN r = 1..Len(r) /\ NL.level = 0
        /\ Heading(2, "Sources").level = 2 /\ ~Bare(Heading(2, "Sources"))
    <2>1. NL.level = 0 /\ Heading(2, "Sources").level = 2 /\ Heading(2, "Sources").text = "Sources"
      BY DEF NL, Word, Heading
    <2>2. ~Bare(Heading(2, "Sources"))
      <3>. DEFINE t == Heading(2, "Sources")
      <3>1. t.text # ""
        BY <2>1
      <3>. HIDE DEF t
      <3>2. ~Bare(t)
        BY <3>1 DEF Bare
      <3>. QED BY <3>2 DEF t
    <2>. QED BY <2>1, <2>2, NoteIs
  <1>. DEFINE n == Len(refs)
  <1>p. /\ Len(r) = m + 5 + n
        /\ \A k \in 1..m : r[k] = draft[k]
        /\ \A k \in (m + 1)..Len(draft) : draft[k] = NL
        /\ r[m + 1] = NL /\ r[m + 2] = NL /\ r[m + 3] = Heading(2, "Sources")
        /\ r[m + 4] = NL /\ r[m + 5] = NL
        /\ \A k \in 1..n : r[m + 5 + k].level = 0
    BY DEF IsProposal
  <1>na. n \in Nat
    OBVIOUS
  <1>. HIDE DEF n
  <1>n. m \in Nat /\ n \in Nat /\ Len(r) = m + 5 + n /\ Len(draft) \in Nat /\ m <= Len(draft)
    BY <1>1, <1>na, <1>p
  <1>2. ASSUME NEW i \in Headings(draft) PROVE i \in 1..m
    <2>1. i \in 1..Len(draft) /\ draft[i] # NL
      BY NoteIs
    <2>2. i \notin (m + 1)..Len(draft)
      BY <1>p, <2>1
    <2>. QED BY <1>n, <2>1, <2>2
  \* how r is read
  <1>s. \A k \in 1..(m + 1) : Scan(r)[k] = Scan(draft)[k]
    <2>. DEFINE f == 1  b == m + 1  d == 0
    <2>1. /\ f \in 1..(Len(draft) + 1) /\ b \in f..(Len(draft) + 1) /\ d \in Int
          /\ 1 <= f + d /\ b + d <= Len(r) + 1
      BY <1>n
    <2>2. Scan(r)[f + d] = Scan(draft)[f]
      BY ScanIs
    <2>3. \A k \in f..(b - 1) : k \in 1..m /\ k + d = k
      BY <1>n
    <2>4. \A k \in f..(b - 1) : r[k + d] = draft[k]
      BY <1>p, <2>3
    <2>5. \A k \in 1..(m + 1) : k \in f..b /\ k + d = k
      BY <1>n
    <2>. HIDE DEF f, b, d
    <2>6. \A k \in f..b : Scan(r)[k + d] = Scan(draft)[k]
      BY ONLY <2>1, <2>2, <2>4, r \in Seq(T), draft \in Seq(T), ScanAgrees
    <2>. QED BY <2>5, <2>6
  <1>s1. Scan(draft)[m + 1] # "open"
    <2>. SUFFICES ASSUME Scan(draft)[m + 1] = "open" PROVE FALSE
      OBVIOUS
    <2>. DEFINE a == m + 1  b == Len(draft) + 1
    <2>1. a \in 1..(Len(draft) + 1) /\ b \in a..(Len(draft) + 1) /\ b \in a..b /\ b - 1 = Len(draft)
      BY <1>n
    <2>2. Scan(draft)[a] = "open" /\ \A k \in a..(b - 1) : After("open", draft[k]) = "open"
      BY <1>p, <2>1, AfterIs
    <2>h. b = Len(draft) + 1
      OBVIOUS
    <2>. HIDE DEF a, b
    <2>3. \A k \in a..b : Scan(draft)[k] = "open"
      BY ONLY <2>1, <2>2, draft \in Seq(T), ScanStays
    <2>4. Scan(draft)[Len(draft) + 1] = "open"
      BY <2>1, <2>3, <2>h
    <2>. QED BY <2>4 DEF Dangling
  <1>s2. Scan(r)[m + 3] = "start"
    <2>1. /\ m + 1 \in 1..(m + 1) /\ m + 1 \in 1..Len(r) /\ (m + 1) + 1 \in 1..Len(r)
          /\ ((m + 1) + 1) + 1 = m + 3 /\ (m + 1) + 1 = m + 2
      BY <1>n
    <2>2. Scan(r)[m + 1] # "open"
      BY <1>s, <1>s1, <2>1
    <2>3. Scan(r)[(m + 1) + 1] = "start"
      BY <1>p, <2>1, <2>2, LineEnds
    <2>4. r[(m + 1) + 1] = NL
      BY <1>p, <2>1
    <2>5. Scan(r)[((m + 1) + 1) + 1] = "start"
      BY <2>1, <2>3, <2>4, LineEnds
    <2>. QED BY <2>1, <2>5
  <1>3. ASSUME NEW i \in 1..m PROVE i \in Headings(draft) <=> i \in Headings(r)
    <2>1. i \in 1..Len(draft) /\ i \in 1..Len(r) /\ i \in 1..(m + 1)
      BY <1>n
    <2>2. r[i] = draft[i] /\ Scan(r)[i] = Scan(draft)[i]
      BY <1>p, <1>s, <2>1
    <2>3. ASSUME i \in Headings(draft) PROVE i \in Headings(r)
      <3>1. ASSUME NEW k \in Solid(draft, i + 1) PROVE Solid(r, i + 1) # {}
        <4>1. k \in (i + 1)..Len(draft) /\ draft[k] # NL
          BY DEF Solid
        <4>2. k \notin (m + 1)..Len(draft)
          BY <1>p, <4>1
        <4>3. k \in 1..m /\ k \in (i + 1)..Len(r)
          BY <1>n, <4>1, <4>2
        <4>4. r[k] # NL
          BY <1>p, <4>1, <4>3
        <4>. QED BY <4>3, <4>4 DEF Solid
      <3>. QED BY <1>1, <2>1, <2>2, <2>3, <3>1 DEF Headings
    <2>4. ASSUME i \in Headings(r) PROVE i \in Headings(draft)
      <3>1. draft[i].level > 0 /\ Scan(draft)[i] = "start"
        BY <2>2, <2>4 DEF Headings
      <3>. QED BY <2>1, <3>1, ClosedHeading
    <2>. QED BY <2>3, <2>4
  <1>4. m + 3 \in Headings(r)
    <2>1. m + 3 \in 1..Len(r)
      BY <1>n
    <2>2. r[m + 3].level > 0 /\ ~Bare(r[m + 3])
      BY <1>1, <1>p
    <2>. QED BY <1>1, <1>s2, <2>1, <2>2 DEF Headings
  <1>5. ASSUME NEW i \in Headings(r), ~(i <= m) PROVE i = m + 3
    <2>1. i \in 1..Len(r) /\ r[i].level > 0 /\ i \in Nat
      BY NoteIs DEF Headings
    <2>1a. r[m + 1].level = 0 /\ r[m + 2].level = 0 /\ r[m + 4].level = 0 /\ r[m + 5].level = 0
      BY <1>1, <1>p
    <2>1b. r[i].level # 0
      BY <2>1
    <2>2. i # m + 1 /\ i # m + 2 /\ i # m + 4 /\ i # m + 5
      BY ONLY <2>1a, <2>1b
    <2>3. ~(i > m + 5)
      <3>. SUFFICES ASSUME i > m + 5 PROVE FALSE
        OBVIOUS
      <3>. DEFINE k == i - m - 5
      <3>1. k \in 1..n /\ m + 5 + k = i
        BY <1>n, <2>1
      <3>. HIDE DEF k
      <3>2. r[m + 5 + k].level = 0
        BY <1>p, <3>1
      <3>3. r[i].level = 0
        BY <3>1, <3>2
      <3>. QED BY <2>1, <3>3
    <2>. QED BY <1>n, <1>5, <2>1, <2>2, <2>3
  <1>6. \A i \in Headings(r) : i <= m => i \in 1..m
    <2>1. Headings(r) \subseteq 1..Len(r)
      BY NoteIs
    <2>. QED BY <1>n, <2>1
  <1>7. \A i \in Headings(draft) : i <= m
    BY <1>2, <1>n
  <1>8. ASSUME NEW i PROVE i \in Headings(r) <=> i \in Headings(draft) \cup {m + 3}
    <2>1. i \in Headings(r) => i \in Headings(draft) \/ i = m + 3
      BY <1>3, <1>5, <1>6
    <2>2. i \in Headings(draft) => i \in Headings(r)
      BY <1>2, <1>3
    <2>. QED BY <1>4, <2>1, <2>2
  <1>. QED BY <1>7, <1>8

\* A frontmatter begins at b and ends before the line end k.
IsClose(c, k) == k + 2 <= Len(c) /\ c[k] = NL /\ c[k + 1] = FENCE /\ c[k + 2] = NL

IsFrontmatter(c, b, k) ==
  /\ c[1] = FENCE /\ c[2] = NL
  /\ b \in 3..Len(c) /\ c[b] # NL /\ \A x \in 3..(b - 1) : c[x] = NL
  /\ k \in Nat /\ b <= k /\ IsClose(c, k) /\ \A x \in b..(k - 1) : ~IsClose(c, x)

LEMMA FencePlaces ==
  ASSUME NEW T, NEW c \in Seq(T), NEW from \in Nat \ {0}
  PROVE  \A k : k \in Places(c, <<NL, FENCE, NL>>, from) <=> k \in Nat /\ from <= k /\ IsClose(c, k)
  <1>. DEFINE s == <<NL, FENCE, NL>>  S == T \cup {NL, FENCE}
  <1>1. Len(c) \in Nat /\ Len(s) = 3 /\ s[1] = NL /\ s[2] = FENCE /\ s[3] = NL
    OBVIOUS
  <1>2. c \in Seq(S) /\ s \in Seq(S)
    OBVIOUS
  <1>h. s = <<NL, FENCE, NL>>
    OBVIOUS
  <1>. HIDE DEF s, S
  <1>3. ASSUME NEW k \in from..(Len(c) - 2)
        PROVE  SubSeq(c, k, k + 2) = s <=> c[k] = NL /\ c[k + 1] = FENCE /\ c[k + 2] = NL
    <2>. DEFINE e == k + 2  part == SubSeq(c, k, e)
    <2>1. k \in 1..(Len(c) + 1) /\ e \in (k - 1)..Len(c) /\ e - k + 1 = 3
      BY <1>1
    <2>2. /\ part \in Seq(S) /\ Len(part) = e - k + 1
          /\ \A x \in 1..(e - k + 1) : part[x] = c[k + x - 1]
      <3>. HIDE DEF e
      <3>. QED BY ONLY <1>2, <2>1, SubSeqIs
    <2>3. 1 \in 1..3 /\ 2 \in 1..3 /\ 3 \in 1..3 /\ k + 1 - 1 = k /\ k + 2 - 1 = k + 1 /\ k + 3 - 1 = k + 2
      BY <1>1
    <2>. HIDE DEF e, part
    <2>4. part[1] = c[k] /\ part[2] = c[k + 1] /\ part[3] = c[k + 2]
      BY <2>1, <2>2, <2>3
    <2>5. ASSUME c[k] = NL, c[k + 1] = FENCE, c[k + 2] = NL PROVE part = s
      <3>1. \A x \in 1..3 : part[x] = s[x]
        <4>1. \A x \in 1..3 : x = 1 \/ x = 2 \/ x = 3
          OBVIOUS
        <4>. QED BY <1>1, <2>4, <2>5, <4>1
      <3>2. part \in Seq(S) /\ s \in Seq(S) /\ Len(part) = 3 /\ Len(s) = 3
        BY <1>1, <1>2, <2>1, <2>2
      <3>. QED BY ONLY <3>1, <3>2, EqualTexts
    <2>6. part = s => c[k] = NL /\ c[k + 1] = FENCE /\ c[k + 2] = NL
      BY <1>1, <2>4
    <2>. QED BY <2>5, <2>6 DEF part, e
  <1>4. \A k : k \in Places(c, s, from) <=> k \in from..(Len(c) - 2) /\ SubSeq(c, k, k + 2) = s
    <2>1. Len(c) - Len(s) + 1 = Len(c) - 2 /\ \A k \in Int : k + Len(s) - 1 = k + 2
      BY <1>1
    <2>2. \A k \in from..(Len(c) - 2) : k \in Int
      OBVIOUS
    <2>. QED BY <2>1, <2>2 DEF Places
  <1>5. \A k : k \in from..(Len(c) - 2) <=> k \in Nat /\ from <= k /\ k + 2 <= Len(c)
    BY <1>1
  <1>6. ASSUME NEW k
        PROVE  k \in Places(c, s, from) <=> k \in Nat /\ from <= k /\ IsClose(c, k)
    BY <1>3, <1>4, <1>5 DEF IsClose
  <1>. QED BY <1>6, <1>h

LEMMA FrontmatterIs ==
  ASSUME NEW T, NEW c \in Seq(T), NEW i \in Frontmatter(c)
  PROVE  \E b, k \in Nat : IsFrontmatter(c, b, k) /\ i \in b..(k - 1)
  <1>. DEFINE solid == Solid(c, 3)  b == Min(solid)
              ends == Places(c, <<NL, FENCE, NL>>, b)  k == Min(ends)
  <1>1. solid # {} /\ c[1] = FENCE /\ c[2] = NL /\ ends # {} /\ i \in b..(k - 1)
    BY DEF Frontmatter
  <1>2. Len(c) \in Nat /\ \A x : x \in solid <=> x \in 3..Len(c) /\ c[x] # NL
    BY DEF Solid
  <1>. HIDE DEF solid
  <1>3. solid \in SUBSET Nat
    BY <1>2
  <1>4. b \in solid /\ \A x \in solid : b <= x
    BY <1>1, <1>3, MinIs
  <1>e. ends = Places(c, <<NL, FENCE, NL>>, b)
    OBVIOUS
  <1>. HIDE DEF b, ends
  <1>5. b \in 3..Len(c) /\ c[b] # NL /\ b \in Nat \ {0}
    BY <1>2, <1>4
  <1>6. \A x : x \in ends <=> x \in Nat /\ b <= x /\ IsClose(c, x)
    BY <1>5, <1>e, FencePlaces
  <1>7. ends \in SUBSET Nat
    BY <1>6
  <1>8. k \in ends /\ \A x \in ends : k <= x
    BY <1>1, <1>7, MinIs
  <1>. HIDE DEF k
  <1>9. k \in Nat /\ b <= k /\ IsClose(c, k)
    BY <1>6, <1>8
  <1>10. ASSUME NEW x \in 3..(b - 1) PROVE c[x] = NL
    <2>1. x \in 3..Len(c) /\ ~(b <= x)
      BY <1>2, <1>5
    <2>. QED BY <1>2, <1>4, <2>1
  <1>11. ASSUME NEW x \in b..(k - 1) PROVE ~IsClose(c, x)
    <2>1. x \in Nat /\ b <= x /\ ~(k <= x)
      BY <1>5, <1>9
    <2>. QED BY <1>6, <1>8, <2>1
  <1>12. IsFrontmatter(c, b, k)
    BY <1>1, <1>5, <1>9, <1>10, <1>11 DEF IsFrontmatter
  <1>. QED BY <1>1, <1>5, <1>9, <1>12

LEMMA FrontmatterUnique ==
  ASSUME NEW T, NEW c \in Seq(T), NEW b \in Nat, NEW k \in Nat, IsFrontmatter(c, b, k)
  PROVE  Frontmatter(c) = b..(k - 1)
  <1>. DEFINE solid == Solid(c, 3)  ends == Places(c, <<NL, FENCE, NL>>, b)
  <1>1. Len(c) \in Nat /\ \A x : x \in solid <=> x \in 3..Len(c) /\ c[x] # NL
    BY DEF Solid
  <1>2. /\ c[1] = FENCE /\ c[2] = NL
        /\ b \in 3..Len(c) /\ c[b] # NL /\ \A x \in 3..(b - 1) : c[x] = NL
        /\ b <= k /\ IsClose(c, k) /\ \A x \in b..(k - 1) : ~IsClose(c, x)
    BY DEF IsFrontmatter
  <1>h. solid = Solid(c, 3) /\ ends = Places(c, <<NL, FENCE, NL>>, b)
    OBVIOUS
  <1>. HIDE DEF solid, ends
  <1>3. b \in Nat \ {0} /\ b \in solid
    BY <1>1, <1>2
  <1>4. \A x : x \in ends <=> x \in Nat /\ b <= x /\ IsClose(c, x)
    BY <1>3, <1>h, FencePlaces
  <1>5. solid \in SUBSET Nat /\ ends \in SUBSET Nat /\ k \in ends
    BY <1>1, <1>2, <1>4
  <1>6. Min(solid) = b
    <2>. DEFINE w == Min(solid)
    <2>1. w \in solid /\ w <= b
      BY <1>3, <1>5, MinIs
    <2>. HIDE DEF w
    <2>2. w \in 3..Len(c) /\ c[w] # NL /\ w \in Nat
      BY <1>1, <2>1
    <2>3. ~(w < b)
      <3>1. w < b => w \in 3..(b - 1)
        BY <2>2
      <3>. QED BY <1>2, <2>2, <3>1
    <2>4. w = b
      BY <2>1, <2>2, <2>3
    <2>. QED BY <2>4 DEF w
  <1>7. Min(ends) = k
    <2>. DEFINE w == Min(ends)
    <2>1. w \in ends /\ w <= k
      BY <1>5, MinIs
    <2>. HIDE DEF w
    <2>2. w \in Nat /\ b <= w /\ IsClose(c, w)
      BY <1>4, <2>1
    <2>3. ~(w < k)
      <3>1. w < k => w \in b..(k - 1)
        BY <2>2
      <3>. QED BY <1>2, <2>2, <3>1
    <2>4. w = k
      BY <2>1, <2>2, <2>3
    <2>. QED BY <2>4 DEF w
  <1>8. solid # {} /\ ends # {}
    BY <1>3, <1>5
  <1>. QED BY <1>2, <1>6, <1>7, <1>8, <1>h DEF Frontmatter

\* The frontmatter of a proposal is that of the draft, unless the draft ends in
\* a "---" that gets its line end from the proposal.
LEMMA FrontmatterSurvives ==
  ASSUME NEW T, Tokens(T), NEW draft \in Seq(T), NEW r \in Seq(T), NEW m \in 0..Len(draft),
         NEW refs \in Seq(T), \A k \in 1..Len(refs) : refs[k] # FENCE,
         IsProposal(r, draft, m, refs), draft # <<>> => draft[Len(draft)] # FENCE,
         NEW b \in Nat, NEW k \in Nat, IsFrontmatter(r, b, k)
  PROVE  IsFrontmatter(draft, b, k) /\ k < m
  <1>p. /\ Len(r) = m + 5 + Len(refs)
        /\ \A x \in 1..m : r[x] = draft[x]
        /\ \A x \in (m + 1)..Len(draft) : draft[x] = NL
        /\ r[m + 1] = NL /\ r[m + 2] = NL /\ r[m + 3] = Heading(2, "Sources")
        /\ r[m + 4] = NL /\ r[m + 5] = NL
        /\ \A x \in 1..Len(refs) : r[m + 5 + x] = refs[x]
    BY DEF IsProposal
  <1>n. m \in Nat /\ Len(refs) \in Nat /\ Len(draft) \in Nat /\ m <= Len(draft)
    OBVIOUS
  <1>f. FENCE # NL /\ FENCE # Heading(2, "Sources")
    <2>1. FENCE.text = "---" /\ NL.text = "newline" /\ Heading(2, "Sources").text = "Sources"
      BY DEF FENCE, NL, Word, Heading
    <2>2. "---" # "newline" /\ "---" # "Sources"
      OBVIOUS
    <2>. QED BY <2>1, <2>2
  <1>1. /\ r[1] = FENCE /\ r[2] = NL
        /\ b \in 3..Len(r) /\ r[b] # NL /\ \A x \in 3..(b - 1) : r[x] = NL
        /\ b <= k /\ IsClose(r, k) /\ \A x \in b..(k - 1) : ~IsClose(r, x)
    BY DEF IsFrontmatter
  <1>2. k + 2 <= Len(r) /\ r[k] = NL /\ r[k + 1] = FENCE /\ r[k + 2] = NL /\ b \in Nat /\ 3 <= b
    BY <1>1 DEF IsClose
  \* no "---" is behind the draft
  <1>3. k + 1 <= m
    <2>. SUFFICES ASSUME ~(k + 1 <= m) PROVE FALSE
      OBVIOUS
    <2>. DEFINE y == k + 1
    <2>1. y \in Nat /\ m < y /\ y <= m + 5 + Len(refs) /\ r[y] = FENCE
      BY <1>n, <1>p, <1>2
    <2>. HIDE DEF y
    <2>2. y # m + 1 /\ y # m + 2 /\ y # m + 3 /\ y # m + 4 /\ y # m + 5
      BY <1>p, <1>f, <2>1
    <2>3. m + 5 < y
      BY <1>n, <2>1, <2>2
    <2>. DEFINE x == y - (m + 5)
    <2>4. x \in 1..Len(refs) /\ m + 5 + x = y
      BY <1>n, <2>1, <2>3
    <2>. HIDE DEF x
    <2>5. r[y] = refs[x]
      BY <1>p, <2>4
    <2>. QED BY <2>1, <2>4, <2>5
  \* and the line end behind it is one of the draft
  <1>4. k + 2 <= Len(draft)
    <2>. SUFFICES ASSUME ~(k + 2 <= Len(draft)) PROVE FALSE
      OBVIOUS
    <2>1. k + 1 = m /\ m = Len(draft) /\ m \in 1..m
      BY <1>n, <1>3
    <2>2. draft[Len(draft)] = FENCE /\ draft # <<>>
      BY <1>p, <1>2, <1>n, <2>1
    <2>. QED BY <2>2
  <1>5. \A x \in 1..(k + 2) : r[x] = draft[x]
    <2>. SUFFICES ASSUME NEW x \in 1..(k + 2) PROVE r[x] = draft[x]
      OBVIOUS
    <2>1. CASE x <= m
      <3>1. x \in 1..m
        BY <1>n, <2>1
      <3>. QED BY <1>p, <3>1
    <2>2. CASE ~(x <= m)
      <3>1. x = m + 1 /\ x \in (m + 1)..Len(draft)
        BY <1>n, <1>3, <1>4, <2>2
      <3>. QED BY <1>p, <3>1
    <2>. QED BY <2>1, <2>2
  <1>6. IsClose(draft, k)
    <2>1. k \in 1..(k + 2) /\ k + 1 \in 1..(k + 2) /\ k + 2 \in 1..(k + 2)
      BY <1>1, <1>2
    <2>. QED BY <1>2, <1>4, <1>5, <2>1 DEF IsClose
  <1>7. ASSUME NEW x \in b..(k - 1) PROVE ~IsClose(draft, x)
    <2>1. /\ x \in 1..(k + 2) /\ x + 1 \in 1..(k + 2) /\ x + 2 \in 1..(k + 2) /\ x + 2 <= Len(r)
      BY <1>1, <1>2
    <2>2. r[x] = draft[x] /\ r[x + 1] = draft[x + 1] /\ r[x + 2] = draft[x + 2]
      BY <1>5, <2>1
    <2>3. ~IsClose(r, x)
      BY <1>1
    <2>. QED BY <2>1, <2>2, <2>3 DEF IsClose
  <1>8. draft[1] = FENCE /\ draft[2] = NL
    <2>1. 1 \in 1..(k + 2) /\ 2 \in 1..(k + 2)
      BY <1>1, <1>2
    <2>. QED BY <1>1, <1>5, <2>1
  <1>9. b \in 3..Len(draft) /\ draft[b] # NL
    <2>1. b \in 1..(k + 2) /\ b \in 3..Len(draft)
      BY <1>1, <1>2, <1>4
    <2>. QED BY <1>1, <1>5, <2>1
  <1>10. ASSUME NEW x \in 3..(b - 1) PROVE draft[x] = NL
    <2>1. x \in 1..(k + 2)
      BY <1>1, <1>2
    <2>. QED BY <1>1, <1>5, <2>1
  <1>11. IsFrontmatter(draft, b, k)
    BY <1>1, <1>6, <1>7, <1>8, <1>9, <1>10 DEF IsFrontmatter
  <1>. QED BY <1>n, <1>3, <1>11

LEMMA ShapeSurvives ==
  ASSUME NEW T, Tokens(T), NEW draft \in Seq(T), NEW r \in Seq(T), NEW m \in 0..Len(draft),
         NEW refs \in Seq(T), \A k \in 1..Len(refs) : refs[k] # FENCE,
         IsProposal(r, draft, m, refs), draft # <<>> => draft[Len(draft)] # FENCE,
         Headings(r) = Headings(draft) \cup {m + 3}, \A i \in Headings(draft) : i <= m,
         r[m + 3].level = 2, \A k \in 1..m : r[k] = draft[k], ValidShape(draft)
  PROVE  ValidShape(r)
  <1>m. m \in Nat /\ Len(draft) \in Nat /\ m <= Len(draft) /\ Len(r) \in Nat
    OBVIOUS
  <1>s. /\ \A i \in Frontmatter(draft) :
             draft[i] = LIST /\ draft[i - 1] = NL => draft[LineLast(draft, i)] = CLOSE
        /\ \A i, j \in Headings(draft) :
             i < j /\ Headings(draft) \cap (i + 1)..(j - 1) = {} => draft[j].level <= draft[i].level + 1
    BY DEF ValidShape
  <1>a. ASSUME NEW i \in Frontmatter(r), r[i] = LIST, r[i - 1] = NL
        PROVE  r[LineLast(r, i)] = CLOSE
    <2>1. PICK b \in Nat, k \in Nat : IsFrontmatter(r, b, k) /\ i \in b..(k - 1)
      BY FrontmatterIs
    <2>2. IsFrontmatter(draft, b, k) /\ k < m
      BY <2>1, FrontmatterSurvives
    <2>3. i \in Frontmatter(draft)
      BY <2>1, <2>2, FrontmatterUnique
    <2>4. 3 <= b /\ draft[k] = NL /\ i \in Nat /\ i < k /\ 3 <= i
      <3>1. b \in 3..Len(draft) /\ draft[k] = NL
        BY <2>2 DEF IsFrontmatter, IsClose
      <3>. QED BY <2>1, <3>1
    <2>5. i \in 1..m /\ i - 1 \in 1..m /\ i \in 1..Len(draft) /\ k \in 1..m
      BY <1>m, <2>2, <2>4
    <2>6. draft[i] = LIST /\ draft[i - 1] = NL
      BY <1>a, <2>5
    <2>. DEFINE l == LineLast(draft, i)
    <2>7. draft[l] = CLOSE
      BY <1>s, <2>3, <2>6
    <2>8. /\ l \in i..Len(draft) /\ l \in Nat /\ (l = Len(draft) \/ draft[l + 1] = NL)
          /\ \A x \in i..Len(draft) : x < l => draft[x + 1] # NL
      BY <2>5, LineLastIs
    <2>. HIDE DEF l
    <2>9. l < k
      <3>1. k - 1 \in i..Len(draft) /\ (k - 1) + 1 = k
        BY <1>m, <2>4, <2>5
      <3>2. ~(k - 1 < l)
        BY <2>4, <2>8, <3>1
      <3>. QED BY <2>4, <2>5, <2>8, <3>2
    <2>10. /\ l \in i..Len(r) /\ l \in 1..m /\ l + 1 \in 1..m /\ i \in 1..Len(r) /\ l # Len(draft)
      <3>1. Len(r) >= m
        BY <1>m DEF IsProposal
      <3>. QED BY <1>m, <2>2, <2>4, <2>5, <2>8, <2>9, <3>1
    <2>11. r[l + 1] = NL /\ r[l] = CLOSE
      BY <2>7, <2>8, <2>10
    <2>12. ASSUME NEW x \in i..Len(r), x < l PROVE r[x + 1] # NL
      <3>1. x \in i..Len(draft) /\ x + 1 \in 1..m
        BY <1>m, <2>4, <2>10, <2>12
      <3>. QED BY <2>8, <2>12, <3>1
    <2>13. LineLast(r, i) = l
      BY <2>10, <2>11, <2>12, LineLastUnique
    <2>. QED BY <2>11, <2>13
  <1>b. ASSUME NEW i \in Headings(r), NEW j \in Headings(r), i < j,
               Headings(r) \cap (i + 1)..(j - 1) = {}
        PROVE  r[j].level <= r[i].level + 1
    <2>0. /\ i \in Nat /\ j \in Nat /\ r[i].level \in 1..6 /\ r[j].level \in 1..6
          /\ \A x \in Headings(draft) : x \in Nat /\ x \in 1..Len(draft)
      BY NoteIs
    <2>1. CASE j = m + 3
      <3>1. r[j].level = 2 /\ r[i].level >= 1
        BY <2>0, <2>1
      <3>. QED BY <2>0, <3>1
    <2>2. CASE j # m + 3
      <3>1. j \in Headings(draft) /\ j <= m
        BY <2>2
      <3>2. i # m + 3
        BY <1>b, <1>m, <2>0, <3>1
      <3>3. i \in Headings(draft) /\ i <= m
        BY <3>2
      <3>4. Headings(draft) \cap (i + 1)..(j - 1) = {}
        BY <1>b
      <3>5. draft[j].level <= draft[i].level + 1
        BY <1>b, <1>s, <3>1, <3>3, <3>4
      <3>6. i \in 1..m /\ j \in 1..m
        BY <1>m, <2>0, <3>1, <3>3
      <3>7. r[i] = draft[i] /\ r[j] = draft[j]
        BY <3>6
      <3>. QED BY <3>5, <3>7
    <2>. QED BY <2>1, <2>2
  <1>. QED BY <1>a, <1>b DEF ValidShape

\* The last heading of the top level has a section up to the end of the note.
LEMMA LastSection ==
  ASSUME NEW T, Tokens(T), NEW r \in Seq(T), Headings(r) # {}
  PROVE  \E i \in SectionHeads(r) : SectionEnd(r, i) = Len(r) + 1
  <1>. DEFINE S == {i \in Headings(r) : r[i].level = TopLevel(r)}
  <1>1. /\ Len(r) \in Nat /\ Headings(r) \subseteq 1..Len(r)
        /\ \A i \in Headings(r) : r[i].level \in 1..6
    BY NoteIs
  <1>2. TopLevel(r) \in 1..6 /\ \A i \in Headings(r) : TopLevel(r) <= r[i].level
    BY TopLevelIs
  <1>3. S # {}
    BY TopLevelIs
  <1>4. S \in SUBSET (0..Len(r))
    BY <1>1
  <1>. DEFINE i == Max(S)
  <1>5. i \in S /\ \A y \in S : y <= i
    BY <1>1, <1>3, <1>4, MaxIs
  <1>. HIDE DEF i
  <1>6. i \in Headings(r) /\ r[i].level = TopLevel(r) /\ i \in 1..Len(r)
    BY <1>1, <1>5
  <1>7. i \in SectionHeads(r)
    BY <1>6, SectionHeadsAre
  <1>. DEFINE e == SectionEnd(r, i)
  <1>8. /\ e \in (i + 1)..(Len(r) + 1) /\ e \in Nat
        /\ (e \in Headings(r) /\ r[e].level <= r[i].level) \/ e = Len(r) + 1
    BY <1>6, SectionEndIs
  <1>h. e = SectionEnd(r, i)
    OBVIOUS
  <1>. HIDE DEF e
  <1>9. ~(e \in Headings(r) /\ r[e].level <= r[i].level)
    <2>. SUFFICES ASSUME e \in Headings(r), r[e].level <= r[i].level PROVE FALSE
      OBVIOUS
    <2>1. r[e].level = TopLevel(r)
      <3>1. r[e].level \in 1..6 /\ TopLevel(r) <= r[e].level /\ r[e].level <= TopLevel(r)
        BY <1>1, <1>2, <1>6
      <3>. QED BY <1>2, <3>1
    <2>2. e <= i
      BY <1>5, <2>1
    <2>3. i + 1 <= e /\ i \in Nat
      BY <1>1, <1>6, <1>8
    <2>. QED BY <1>8, <2>2, <2>3
  <1>. QED BY <1>7, <1>8, <1>9, <1>h

LEMMA SourcesAreInvariant == PatchInv => SourcesAreFound
  <1>. SUFFICES ASSUME PatchInv, proposal.sources # <<>>, ~Dangling(proposal.draft)
                PROVE  /\ /\ ValidShape(proposal.draft)
                          /\ proposal.draft # <<>> => proposal.draft[Len(proposal.draft)] # FENCE
                          => ValidShape(proposal.new)
                       /\ Len(Strip(References(proposal.sources))) >= MinChunk =>
                            \E ch \in Chunks(proposal.new) :
                              Range(References(proposal.sources)) \ {NL} \subseteq Range(ch.text)
    BY DEF SourcesAreFound
  <1>. DEFINE draft == proposal.draft  paths == proposal.sources  r == proposal.new
              T == WikiToken(paths)  refs == References(paths)
  <1>1. draft \in Drafts /\ paths \in Sources /\ r = WithSources(draft, paths)
    <2>1. proposal # None
      BY DEF None
    <2>. QED BY <2>1 DEF PatchInv
  <1>2. draft \in Seq(Token) /\ paths \in Seq(Range(paths)) /\ paths # <<>>
    BY <1>1, TokensAssumption
  <1>3. Len(paths) \in Nat /\ \A k \in 1..Len(paths) : Word(paths[k]) # FENCE
    <2>1. Len(paths) \in Nat /\ DOMAIN paths = 1..Len(paths)
      BY <1>2
    <2>. QED BY <1>1, <2>1, TokensAssumption
  <1>4. Tokens(T) /\ Token \subseteq T
    BY WikiTokens
  <1>5. draft \in Seq(T)
    BY <1>2, <1>4
  <1>6. /\ refs \in Seq(T) /\ \A k \in 1..Len(refs) : refs[k].level = 0
        /\ \A k \in 1..Len(refs) : refs[k] # FENCE
    BY <1>3, ReferencesAre
  <1>h. T = WikiToken(paths) /\ refs = References(paths)
    OBVIOUS
  <1>g. draft = proposal.draft /\ paths = proposal.sources /\ r = proposal.new /\ ~Dangling(draft)
    OBVIOUS
  <1>. HIDE DEF draft, paths, r, T, refs
  <1>7a. PICK m \in 0..Len(draft) : r \in Seq(T) /\ IsProposal(r, draft, m, refs)
    BY <1>1, <1>2, <1>3, <1>h, ProposalIs
  <1>7. /\ Len(r) = m + 5 + Len(refs)
        /\ \A k \in 1..m : r[k] = draft[k]
        /\ r[m + 3] = Heading(2, "Sources") /\ r[m + 4] = NL
        /\ \A k \in 1..Len(refs) : r[m + 5 + k] = refs[k]
    BY <1>7a DEF IsProposal
  <1>8. m \in Nat /\ Len(refs) \in Nat /\ r \in Seq(T)
    BY <1>2, <1>6, <1>7a
  <1>9. Headings(r) = Headings(draft) \cup {m + 3} /\ \A i \in Headings(draft) : i <= m
    <2>1. m \in 0..Len(draft)
      OBVIOUS
    <2>. QED BY ONLY <1>4, <1>5, <1>6, <1>7a, <1>g, <2>1, ProposalHeadings
  <1>10. ASSUME ValidShape(draft), draft # <<>> => draft[Len(draft)] # FENCE PROVE ValidShape(r)
    <2>1. r[m + 3].level = 2
      BY <1>7 DEF Heading
    <2>2. \A k \in 1..m : r[k] = draft[k]
      BY <1>7
    <2>3. m \in 0..Len(draft)
      OBVIOUS
    <2>. QED BY ONLY <1>4, <1>5, <1>6, <1>7a, <1>8, <1>9, <1>10, <2>1, <2>2, <2>3, ShapeSurvives
  <1>11. ASSUME Len(Strip(refs)) >= MinChunk
         PROVE  \E ch \in Chunks(r) : Range(refs) \ {NL} \subseteq Range(ch.text)
    <2>1. PICK i \in SectionHeads(r) : SectionEnd(r, i) = Len(r) + 1
      BY <1>4, <1>8, <1>9, LastSection
    <2>2. i \in Headings(r) /\ i \in 1..Len(r) /\ i \in Nat
      BY <1>4, <1>8, SectionHeadsAre, NoteIs
    <2>3. i <= m + 3
      BY <1>8, <1>9, <2>2
    <2>4. LineEnd(r, i) <= m + 5
      <3>1. /\ LineEnd(r, i) \in Nat
            /\ \A k \in TitleAt(r, i)..Len(r) : k < LineEnd(r, i) => r[k + 1] # NL
        BY <1>4, <1>8, <2>2, LineEndIs
      <3>2. CASE i = m + 3
        <4>1. Len(r) = m + 5 + Len(refs) /\ r[m + 4] = NL /\ ~Bare(r[m + 3])
          BY <1>7 DEF Bare, Heading
        <4>2. TitleAt(r, i) = m + 3
          BY <3>2, <4>1 DEF TitleAt
        <4>3. m + 3 \in TitleAt(r, i)..Len(r) /\ (m + 3) + 1 = m + 4
          BY <1>8, <4>1, <4>2
        <4>4. ~(m + 3 < LineEnd(r, i))
          BY <3>1, <4>1, <4>3
        <4>. QED BY <1>8, <3>1, <4>4
      <3>3. CASE i # m + 3
        <4>. DEFINE j == m + 3
        <4>1. j \in Headings(r) /\ i < j
          BY <1>8, <1>9, <2>2, <2>3, <3>3
        <4>. HIDE DEF j
        <4>2. LineEnd(r, i) + 1 < j
          BY <1>4, <1>8, <2>2, <4>1, HeadingsApart
        <4>. QED BY <1>8, <3>1, <4>2 DEF j
      <3>. QED BY <3>2, <3>3
    <2>. DEFINE o == m + 5
    <2>5. o \in Nat /\ LineEnd(r, i) <= o /\ o + Len(refs) < SectionEnd(r, i)
      BY <1>7, <1>8, <2>1, <2>4
    <2>6. Holds(r, o, refs)
      BY <1>7 DEF Holds
    <2>. HIDE DEF o
    <2>7. /\ Tokens(T) /\ MinChunk \in Nat \ {0} /\ r \in Seq(T) /\ i \in SectionHeads(r)
          /\ refs \in Seq(T) /\ Len(Strip(refs)) >= MinChunk
      BY <1>4, <1>6, <1>8, <1>11, TokensHold
    <2>8. Found(r, i, refs)
      BY ONLY <2>5, <2>6, <2>7, TextInSection
    <2>. QED BY <2>8 DEF Found
  <1>. QED BY <1>10, <1>11, <1>g, <1>h

-----------------------------------------------------------------------------
(* The theorems *)

\* The note, the plan, the last change and the proposal stay what they are
\* declared to be: an agent holds at most one plan, since a patch has at most
\* one result.
THEOREM NotesStayTyped == Spec => []TypeOK
  <1>. DEFINE Answers == {"none", "planned", "written", "refused", "conflict", "proposed"}
              Small == (plan = {} \/ \E x : plan = {x}) /\ answer \in Answers
  <1>1. Init => Small
    BY DEF Init
  <1>2. PatchInv /\ Small /\ [Next]_vars => Small'
    <2>. SUFFICES ASSUME PatchInv, Small, [Next]_vars PROVE Small'
      OBVIOUS
    <2>1. CASE OwnerWrites
      BY <2>1 DEF OwnerWrites
    <2>2. CASE Prepare
      <3>1. PICK profile \in Callers, op \in {"append", "edit", "propose"}, p \in Patches, fresh \in BOOLEAN :
              plan' = {} \/ plan' = Plans(profile, op, p, fresh)
        BY <2>2 DEF Prepare
      <3>2. answer' \in Answers
        BY <2>2 DEF Prepare
      <3>3. Patched(note, p) = {} \/ \E r : Patched(note, p) = {r}
        <4>1. \A r \in Patched(note, p) : Patched(note, p) = {r}
          BY TokensHold, PatchTexts, PatchedIs DEF PatchInv
        <4>. QED BY <4>1
      <3>4. Plans(profile, op, p, fresh) = {} \/ \E x : Plans(profile, op, p, fresh) = {x}
        <4>1. \A x, y \in Plans(profile, op, p, fresh) : x = y
          BY <3>3 DEF Plans
        <4>. QED BY <4>1
      <3>. QED BY <3>1, <3>2, <3>4
    <2>3. CASE Write
      BY <2>3 DEF Write
    <2>4. CASE Propose
      BY <2>4 DEF Propose
    <2>5. CASE UNCHANGED vars
      BY <2>5 DEF vars
    <2>. QED BY <2>1, <2>2, <2>3, <2>4, <2>5 DEF Next
  <1>3. PatchInv /\ Small => TypeOK
    <2>. SUFFICES ASSUME PatchInv, Small PROVE TypeOK
      OBVIOUS
    <2>1. Cardinality(plan) <= 1
      <3>1. CASE plan = {}
        <4>1. Cardinality({}) = 0
          BY FS_EmptySet
        <4>. QED BY <3>1, <4>1
      <3>2. ASSUME NEW x, plan = {x} PROVE Cardinality(plan) <= 1
        <4>1. Cardinality({x}) = 1
          BY FS_Singleton
        <4>. QED BY <3>2, <4>1
      <3>. QED BY <3>1, <3>2
    <2>2. \A pl \in plan : pl.old \in Seq(Token) /\ pl.new \in Seq(Token) /\ pl.patch \in Patches
      BY TokensHold, PatchTexts, PatchedIs DEF PatchInv
    <2>3. proposal.draft \in Drafts \cup {<<>>}
      BY DEF PatchInv, None
    <2>. QED BY <2>1, <2>2, <2>3 DEF PatchInv, TypeOK
  <1>4. Spec => []Small
    BY <1>1, <1>2, PatchInvariant, PTL DEF Spec
  <1>. QED BY <1>3, <1>4, PatchInvariant, PTL

\* A patch of a section, as append_under_heading, insert_after_heading and
\* replace_section write it, leaves every heading outside of this section,
\* those behind it moved by what was added, if its text ends its last line and
\* its last title, or nothing is behind the section.
THEOREM HeadingsAreKept == Spec => []HeadingsSurvive
  BY SurviveIsInvariant, PatchInvariant, PTL

\* What append_under_heading adds to a section with a chunk is in this chunk, if
\* no bare marker at the end of the text or of the note makes a heading of it.
THEOREM AppendsAreFound == Spec => []AppendedIsFound
  BY FoundIsInvariant, PatchInvariant, PTL

\* A replace_section whose text is one section, and ends its last line and its
\* last title, changes nothing when it is applied again to its own result.
THEOREM ReplacesRepeat == Spec => []ReplaceIsIdempotent
  BY IdempotentIsInvariant, PatchInvariant, PTL

\* Every word below the first heading of the lowest level is in a section, and in
\* the chunk of every section around it that is long enough to have one.
THEOREM WordsAreIndexed == Spec => []ChunksCoverNote
  <1>1. PatchInv => ChunksCoverNote
    BY CoverIsInvariant DEF PatchInv
  <1>. QED BY <1>1, PatchInvariant, PTL

\* The sections of two chunks are apart, or one is inside of the other.
THEOREM SectionsAreNested == Spec => []ChunksNest
  <1>1. PatchInv => ChunksNest
    BY NestIsInvariant DEF PatchInv
  <1>. QED BY <1>1, PatchInvariant, PTL

\* The list of sources that propose_wiki_update adds is found by a search, and
\* leaves a draft of valid shape in a valid shape, if the draft does not end in a
\* bare marker or in a "---" without its line end.
THEOREM ProposalsNameSources == Spec => []SourcesAreFound
  BY SourcesAreInvariant, PatchInvariant, PTL
=============================================================================
