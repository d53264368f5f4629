---------------------------- MODULE AuditedStore ----------------------------
(***************************************************************************)
(* What the mutation pipeline promises: notes change one at a time, a      *)
(* change made on the strength of an earlier read takes effect only if the *)
(* note is still what was read, a promotion never replaces a note, and the *)
(* audit event of a change is recorded before the next change is made.     *)
(***************************************************************************)
EXTENDS Sequences

CONSTANTS Requests, Notes, Contents, Absent, NoReq, NothingRead

VARIABLES
  store,     \* the notes
  asked,     \* the note and the content a request has read
  trail,     \* the audit: requests in the order of their changes
  pending    \* the request whose change is not in the audit yet

svars == <<store, asked, trail, pending>>

SInit ==
  /\ store \in [Notes -> Contents \cup {Absent}]
  /\ asked = [r \in Requests |-> NothingRead]
  /\ trail = <<>>
  /\ pending = NoReq

Fresh(r) == r # pending /\ \A i \in DOMAIN trail : trail[i] # r

Read(r, n) ==
  /\ asked[r] = NothingRead
  /\ store[n] # Absent
  /\ asked' = [asked EXCEPT ![r] = [note |-> n, content |-> store[n]]]
  /\ UNCHANGED <<store, trail, pending>>

\* r is the next to change the vault, and changes it once.
Commit(r) ==
  /\ pending = NoReq
  /\ Fresh(r)
  /\ pending' = r
  /\ UNCHANGED <<asked, trail>>

\* Note n gets some new content, and no other note changes.
Replaced(n) ==
  /\ store' \in [Notes -> Contents \cup {Absent}]
  /\ store'[n] # Absent
  /\ \A m \in Notes \ {n} : store'[m] = store[m]

\* Compare and swap.
Update(r) ==
  /\ asked[r] # NothingRead
  /\ store[asked[r].note] = asked[r].content
  /\ Replaced(asked[r].note)
  /\ Commit(r)

Put(r, n) ==
  /\ asked[r] = NothingRead
  /\ Replaced(n)
  /\ Commit(r)

Move(r, n, m) ==
  /\ asked[r] = NothingRead
  /\ store[n] # Absent
  /\ store[m] = Absent
  /\ store' = [store EXCEPT ![m] = store[n], ![n] = Absent]
  /\ Commit(r)

Record ==
  /\ pending # NoReq
  /\ trail' = Append(trail, pending)
  /\ pending' = NoReq
  /\ UNCHANGED <<store, asked>>

SNext ==
  \/ \E r \in Requests, n \in Notes : Read(r, n)
  \/ \E r \in Requests : Update(r)
  \/ \E r \in Requests, n \in Notes : Put(r, n)
  \/ \E r \in Requests, n, m \in Notes : Move(r, n, m)
  \/ Record

SSpec == SInit /\ [][SNext]_svars

=============================================================================
