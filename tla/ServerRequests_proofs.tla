------------------------ MODULE ServerRequests_proofs ------------------------
(***************************************************************************)
(* Theorems about ServerRequests for every number of requests, every       *)
(* session timeout and every bound: what the answer of a call says, what a *)
(* backup holds, to whom the admin pages are shown, what the events of a   *)
(* request tell, and what the pages and reports make of all events.        *)
(***************************************************************************)
EXTENDS ServerRequests, FiniteSetTheorems, NaturalsInduction, SequenceTheorems,
        WellFoundedInduction, TLAPS

Before == {"new", "received", "identify", "handle", "suspended", "add", "commit", "parse"}

\* What the types of the variables have to say.
Shape ==
  /\ DOMAIN pc = Reqs /\ DOMAIN msg = Reqs /\ DOMAIN worked = Reqs
  /\ DOMAIN answer = Reqs
  /\ DOMAIN result = Reqs
  /\ \A r \in Reqs : DOMAIN result[r] = {"code", "hash"} /\ result[r].hash \in Nat
  /\ began \in [Reqs -> Nat]
  /\ git \in [vault: Nat, staged: Nat, head: Nat]

\* What may be said of the work of a request whose handler gave code c.
Truth(r, c) ==
  /\ worked[r] \in {"yes", "conflict"} => c = ""
  /\ worked[r] = "raised" => c # ""
  /\ worked[r] = "no" => c # "" \/ msg[r].kind = "backup_vault"

\* The work of a request is done in one step, the last before its outcome.
Told(r) ==
  /\ pc[r] \in Before => worked[r] = "no" /\ result[r].code = ""
  /\ pc[r] \in {"add", "commit", "parse"} => msg[r].kind = "backup_vault"
  /\ pc[r] = "outcome" => Truth(r, result[r].code)
  /\ pc[r] = "answered" /\ msg[r].kind \in Tools =>
       Truth(r, result[r].code) /\ answer[r] = [status |-> 200, code |-> result[r].code]

\* Versions only move forward, from the vault to what is staged to HEAD.
GitOrder == git.head <= git.staged /\ git.staged <= git.vault

\* A backup moves along with what the vault held when it began.
Backed(r) ==
  /\ pc[r] = "add"    => began[r] <= git.vault
  /\ pc[r] = "commit" => began[r] <= git.staged
  /\ pc[r] = "parse"  => began[r] <= git.head
  /\ worked[r] = "yes" /\ msg[r].kind = "backup_vault" =>
       began[r] <= result[r].hash /\ result[r].hash <= git.head

RequestInv == Shape /\ GitOrder /\ \A r \in Reqs : Told(r) /\ Backed(r)

LEMMA InitRequest == Init => RequestInv
  <1>. SUFFICES ASSUME Init PROVE RequestInv
    OBVIOUS
  <1>1. Shape
    BY DEF Init, Shape, NoResult
  <1>2. GitOrder
    BY DEF Init, GitOrder
  <1>3. ASSUME NEW r \in Reqs PROVE Told(r) /\ Backed(r)
    <2>1. pc[r] = "new" /\ worked[r] = "no" /\ result[r].code = ""
      BY DEF Init, NoResult
    <2>. QED BY <2>1 DEF Told, Backed
  <1>. QED BY <1>1, <1>2, <1>3 DEF RequestInv

LEMMA NatVersions ==
  ASSUME RequestInv
  PROVE  /\ git.vault \in Nat /\ git.staged \in Nat /\ git.head \in Nat
         /\ git.vault <= git.vault /\ git.staged <= git.staged /\ git.head <= git.head
         /\ \A r \in Reqs : began[r] \in Nat /\ result[r].hash \in Nat
  <1>1. git.vault \in Nat /\ git.staged \in Nat /\ git.head \in Nat
    BY DEF RequestInv, Shape
  <1>2. \A r \in Reqs : began[r] \in Nat /\ result[r].hash \in Nat
    BY DEF RequestInv, Shape
  <1>. QED BY <1>1, <1>2

\* A step of request r: what it may change of the others is HEAD.
LEMMA OthersKeep ==
  ASSUME RequestInv, Shape', NEW r \in Reqs, NEW q \in Reqs \ {r},
         pc'[q] = pc[q], msg'[q] = msg[q], worked'[q] = worked[q],
         answer'[q] = answer[q], result'[q] = result[q], began'[q] = began[q],
         git.vault <= git'.vault, git.staged <= git'.staged, git.head <= git'.head
  PROVE  (Told(q) /\ Backed(q))'
  <1>1. Told(q)'
    <2>1. Told(q)
      BY DEF RequestInv
    <2>. QED BY <2>1 DEF Told, Truth
  <1>2. Backed(q)'
    BY DEF RequestInv, Backed, Shape
  <1>. QED BY <1>1, <1>2

\* The handler of a request ends with code c, having done its work or not.
LEMMA WorksRequest ==
  ASSUME RequestInv, NEW r \in Reqs, NEW w, NEW c, Works(r, w, c),
         UNCHANGED <<git, began, msg, answer>>,
         w \in {"yes", "conflict"} => c = "", w = "raised" => c # "",
         w = "no" => c # "" \/ msg[r].kind = "backup_vault",
         w = "yes" => msg[r].kind # "backup_vault"
  PROVE  RequestInv'
  <1>1. /\ DOMAIN pc' = Reqs /\ DOMAIN worked' = Reqs /\ DOMAIN result' = Reqs
        /\ pc'[r] = "outcome" /\ worked'[r] = w /\ result'[r].code = c
        /\ result'[r].hash = result[r].hash /\ DOMAIN result'[r] = DOMAIN result[r]
        /\ \A q \in Reqs \ {r} :
             pc'[q] = pc[q] /\ worked'[q] = worked[q] /\ result'[q] = result[q]
    BY DEF Works, Goto, Code, RequestInv, Shape
  <1>2. Shape'
    BY <1>1 DEF RequestInv, Shape
  <1>3. (Told(r) /\ Backed(r))'
    BY <1>1 DEF Told, Truth, Backed, Before
  <1>f. git' = git
    OBVIOUS
  <1>g. git.vault <= git'.vault /\ git.staged <= git'.staged /\ git.head <= git'.head
    BY <1>f, NatVersions
  <1>4. ASSUME NEW q \in Reqs \ {r} PROVE (Told(q) /\ Backed(q))'
    BY <1>1, <1>2, <1>g, OthersKeep
  <1>. QED BY <1>2, <1>3, <1>4 DEF RequestInv, GitOrder

LEMMA StepRequest ==
  ASSUME RequestInv, NEW r \in Reqs, Step(r)
  PROVE  RequestInv'
  <1>. DEFINE Frame(q) ==
         /\ pc'[q] = pc[q] /\ msg'[q] = msg[q] /\ worked'[q] = worked[q]
         /\ answer'[q] = answer[q] /\ result'[q] = result[q] /\ began'[q] = began[q]
  <1>0. ASSUME Shape', GitOrder', (Told(r) /\ Backed(r))',
               git.vault <= git'.vault, git.staged <= git'.staged, git.head <= git'.head,
               \A q \in Reqs \ {r} : Frame(q)
        PROVE  RequestInv'
    BY <1>0, OthersKeep DEF RequestInv
  <1>g. git' = git => /\ git.vault <= git'.vault /\ git.staged <= git'.staged
                      /\ git.head <= git'.head /\ GitOrder'
    BY DEF RequestInv, GitOrder, Shape
  <1>1. ASSUME NEW m \in Messages, Receive(r, m)
        PROVE  RequestInv'
    <2>1. Shape' /\ git' = git
      BY <1>1 DEF Receive, Goto, RequestInv, Shape
    <2>2. \A q \in Reqs \ {r} : Frame(q)
      BY <1>1 DEF Receive, Goto, RequestInv, Shape
    <2>3. /\ pc[r] = "new" /\ msg'[r] = m /\ UNCHANGED <<result, worked, began>>
          /\ pc'[r] = IF m.kind \in Methods THEN "answered" ELSE "received"
      BY <1>1 DEF Receive, Goto, RequestInv, Shape
    <2>4. m.kind \in Methods => m.kind \notin Tools
      BY DEF Methods, Tools
    <2>5. (Told(r) /\ Backed(r))'
      BY <2>3, <2>4 DEF RequestInv, Told, Truth, Backed, Before
    <2>. QED BY <1>0, <1>g, <2>1, <2>2, <2>5
  <1>2. CASE Received(r)
    <2>1. /\ Shape' /\ git' = git /\ UNCHANGED <<msg, result, answer, worked, began>>
          /\ pc[r] = "received" /\ pc'[r] = "identify"
      BY <1>2 DEF Received, Goto, RequestInv, Shape
    <2>2. \A q \in Reqs \ {r} : Frame(q)
      BY <1>2 DEF Received, Goto, RequestInv, Shape
    <2>3. (Told(r) /\ Backed(r))'
      BY <2>1 DEF RequestInv, Told, Truth, Backed, Before
    <2>. QED BY <1>0, <1>g, <2>1, <2>2, <2>3
  <1>3. CASE Identify(r)
    <2>0. git' = git /\ UNCHANGED <<msg, answer, worked, began>> /\ pc[r] = "identify"
      BY <1>3 DEF Identify
    <2>4. \/ Goto(r, "handle") /\ result' = result
          \/ Goto(r, "outcome") /\ \E c : c # "" /\ Code(r, c)
      BY <1>3 DEF Identify
    <2>5. /\ \/ pc'[r] = "outcome" /\ result'[r].code # ""
             \/ pc'[r] = "handle" /\ result' = result
          /\ result'[r].hash = result[r].hash /\ DOMAIN result'[r] = DOMAIN result[r]
          /\ DOMAIN result' = Reqs /\ DOMAIN pc' = Reqs
      <3>1. CASE Goto(r, "handle") /\ result' = result
        BY <3>1 DEF Goto, RequestInv, Shape
      <3>2. ASSUME Goto(r, "outcome"), NEW c, c # "", Code(r, c)
            PROVE  /\ pc'[r] = "outcome" /\ result'[r].code = c
                   /\ result'[r].hash = result[r].hash /\ DOMAIN result'[r] = DOMAIN result[r]
                   /\ DOMAIN result' = Reqs /\ DOMAIN pc' = Reqs
        BY <3>2 DEF Goto, Code, RequestInv, Shape
      <3>3. CASE Goto(r, "outcome") /\ \E c : c # "" /\ Code(r, c)
        <4>1. PICK c : c # "" /\ Code(r, c)
          BY <3>3
        <4>2. /\ pc'[r] = "outcome" /\ result'[r].code = c
              /\ result'[r].hash = result[r].hash /\ DOMAIN result'[r] = DOMAIN result[r]
              /\ DOMAIN result' = Reqs /\ DOMAIN pc' = Reqs
          BY <3>2, <3>3, <4>1
        <4>. QED BY <4>1, <4>2
      <3>. QED BY <2>4, <3>1, <3>3
    <2>6. \A q \in Reqs \ {r} : result'[q] = result[q]
      BY <2>4 DEF Goto, Code, RequestInv, Shape
    <2>1. /\ Shape'
          /\ \/ pc'[r] = "outcome" /\ result'[r].code # ""
             \/ pc'[r] = "handle" /\ result' = result
          /\ result'[r].hash = result[r].hash
      BY <2>0, <2>5, <2>6 DEF RequestInv, Shape
    <2>2. \A q \in Reqs \ {r} : Frame(q)
      BY <2>0, <2>4 DEF Goto, Code, RequestInv, Shape
    <2>3. (Told(r) /\ Backed(r))'
      BY <2>0, <2>1 DEF RequestInv, Told, Truth, Backed, Before
    <2>. QED BY <1>0, <1>g, <2>0, <2>1, <2>2, <2>3
  <1>4. CASE Handle(r)
    <2>1. /\ UNCHANGED <<git, began, msg, answer>>
          /\ msg[r].kind # "backup_vault"
      BY <1>4 DEF Handle
    <2>. QED BY <1>4, <2>1, WorksRequest DEF Handle
  <1>5. CASE Suspend(r)
    <2>1. /\ Shape' /\ git' = git /\ UNCHANGED <<msg, result, answer, worked, began>>
          /\ pc[r] = "handle" /\ pc'[r] = "suspended"
      BY <1>5 DEF Suspend, Goto, RequestInv, Shape
    <2>2. \A q \in Reqs \ {r} : Frame(q)
      BY <1>5 DEF Suspend, Goto, RequestInv, Shape
    <2>3. (Told(r) /\ Backed(r))'
      BY <2>1 DEF RequestInv, Told, Truth, Backed, Before
    <2>. QED BY <1>0, <1>g, <2>1, <2>2, <2>3
  <1>6. CASE Outcome(r)
    <2>1. /\ Shape' /\ git' = git /\ UNCHANGED <<msg, result, worked, began>>
          /\ pc[r] = "outcome" /\ pc'[r] = "answered"
          /\ answer'[r] = [status |-> 200, code |-> result[r].code]
      BY <1>6 DEF Outcome, Goto, RequestInv, Shape
    <2>2. \A q \in Reqs \ {r} : Frame(q)
      BY <1>6 DEF Outcome, Goto, RequestInv, Shape
    <2>3. (Told(r) /\ Backed(r))'
      BY <2>1 DEF RequestInv, Told, Truth, Backed, Before
    <2>. QED BY <1>0, <1>g, <2>1, <2>2, <2>3
  <1>7. CASE Backup(r)
    <2>1. CASE Works(r, "raised", "POLICY_DENIED") /\ UNCHANGED <<git, began>>
      BY <1>7, <2>1, WorksRequest DEF Backup, Git
    <2>2. CASE GivesUp(r)
      BY <1>7, <2>2, WorksRequest DEF Backup, Git, GivesUp
    <2>3. CASE began' = [began EXCEPT ![r] = git.vault] /\ Goto(r, "add")
               /\ UNCHANGED <<git, result, worked>>
      <3>1. /\ Shape' /\ UNCHANGED <<git, msg, answer, result, worked>>
            /\ pc[r] = "handle" /\ pc'[r] = "add" /\ began'[r] = git.vault
            /\ msg[r].kind = "backup_vault" /\ \A q \in Reqs \ {r} : Frame(q)
        BY <1>7, <2>3 DEF Backup, Git, Goto, RequestInv, Shape
      <3>2. (Told(r) /\ Backed(r))'
        <4>1. worked[r] = "no" /\ result[r].code = ""
          BY <3>1 DEF RequestInv, Told, Before
        <4>2. Told(r)'
          BY <3>1, <4>1 DEF Told, Truth, Before
        <4>3. began'[r] <= git'.vault
          BY <3>1, NatVersions
        <4>. QED BY <3>1, <4>1, <4>2, <4>3 DEF Backed
      <3>. QED BY <1>0, <1>g, <3>1, <3>2
    <2>. QED BY <1>7, <2>1, <2>2, <2>3 DEF Backup
  <1>8. CASE Add(r)
    <2>1. PICK ok \in BOOLEAN :
            /\ IF ok THEN git' = [git EXCEPT !.staged = git.vault] ELSE git' = git
            /\ pc' = [pc EXCEPT ![r] = AfterAdd(ok)]
      BY <1>8 DEF Add, Goto
    <2>2. UNCHANGED <<msg, answer, result, worked, began>> /\ pc[r] = "add"
      BY <1>8 DEF Add, Git
    <2>3. Shape' /\ \A q \in Reqs \ {r} : Frame(q)
      BY <2>1, <2>2 DEF RequestInv, Shape
    <2>4. /\ git.vault <= git'.vault /\ git.staged <= git'.staged
          /\ git.head <= git'.head /\ GitOrder'
      BY <2>1 DEF RequestInv, GitOrder, Shape
    <2>5. /\ ok => pc'[r] = "commit" /\ git'.staged = git.vault
          /\ ~ok => pc'[r] = "outcome"
      BY <2>1 DEF AfterAdd, RequestInv, Shape
    <2>6. worked[r] = "no" /\ result[r].code = "" /\ msg[r].kind = "backup_vault"
          /\ began[r] <= git.vault
      BY <2>2 DEF RequestInv, Told, Backed, Before
    <2>7. (Told(r) /\ Backed(r))'
      BY <2>2, <2>5, <2>6 DEF Told, Truth, Backed, Before
    <2>. QED BY <1>0, <2>3, <2>4, <2>7
  <1>9. CASE Commit(r)
    <2>0. UNCHANGED <<msg, answer>> /\ pc[r] = "commit"
      BY <1>9 DEF Commit, Git
    <2>6. worked[r] = "no" /\ result[r].code = "" /\ msg[r].kind = "backup_vault"
          /\ began[r] <= git.staged
      BY <2>0 DEF RequestInv, Told, Backed, Before
    <2>1. CASE GivesUp(r)
      BY <2>0, <2>1, <2>6, WorksRequest DEF GivesUp
    <2>2. CASE /\ git' = [git EXCEPT !.head = git.staged] /\ Goto(r, "parse")
               /\ UNCHANGED <<result, worked, began>>
      <3>1. /\ Shape' /\ pc'[r] = "parse" /\ git'.head = git.staged
            /\ \A q \in Reqs \ {r} : Frame(q)
        BY <2>0, <2>2 DEF Goto, RequestInv, Shape
      <3>2. /\ git.vault <= git'.vault /\ git.staged <= git'.staged
            /\ git.head <= git'.head /\ GitOrder'
        BY <2>2 DEF RequestInv, GitOrder, Shape
      <3>3. (Told(r) /\ Backed(r))'
        BY <2>0, <2>2, <2>6, <3>1 DEF Told, Truth, Backed, Before
      <3>. QED BY <1>0, <3>1, <3>2, <3>3
    <2>. QED BY <1>9, <2>1, <2>2 DEF Commit
  <1>10. CASE RevParse(r)
    <2>0. UNCHANGED <<msg, answer, git, began>> /\ pc[r] = "parse"
      BY <1>10 DEF RevParse, Git, GivesUp
    <2>6. worked[r] = "no" /\ result[r].code = "" /\ msg[r].kind = "backup_vault"
          /\ began[r] <= git.head
      BY <2>0 DEF RequestInv, Told, Backed, Before
    <2>1. CASE GivesUp(r)
      BY <2>0, <2>1, <2>6, WorksRequest DEF GivesUp
    <2>2. CASE /\ result' = [result EXCEPT ![r].hash = git.head]
               /\ worked' = [worked EXCEPT ![r] = "yes"] /\ Goto(r, "outcome")
      <3>0. /\ pc'[r] = "outcome" /\ worked'[r] = "yes"
            /\ result'[r].hash = git.head /\ result'[r].code = ""
            /\ DOMAIN result'[r] = DOMAIN result[r]
            /\ \A q \in Reqs \ {r} : Frame(q)
        BY <2>0, <2>2, <2>6 DEF Goto, RequestInv, Shape
      <3>1. Shape'
        BY <2>0, <2>2, <3>0 DEF Goto, RequestInv, Shape
      <3>2. (Told(r) /\ Backed(r))'
        <4>1. Told(r)'
          BY <2>0, <2>6, <3>0 DEF Told, Truth, Before
        <4>2. began'[r] <= result'[r].hash /\ result'[r].hash <= git'.head
          BY <2>0, <2>6, <3>0, NatVersions
        <4>. QED BY <3>0, <4>1, <4>2 DEF Backed
      <3>. QED BY <1>0, <1>g, <2>0, <3>0, <3>1, <3>2
    <2>. QED BY <1>10, <2>1, <2>2 DEF RevParse
  <1>. QED BY <1>1, <1>2, <1>3, <1>4, <1>5, <1>6, <1>7, <1>8, <1>9, <1>10 DEF Step

LEMMA NextRequest ==
  ASSUME RequestInv, [Next]_vars
  PROVE  RequestInv'
  <1>1. ASSUME NEW r \in Reqs, Step(r)
        PROVE  RequestInv'
    BY <1>1, StepRequest
  <1>2. CASE UNCHANGED <<calls, git, began>>
    BY <1>2 DEF calls, RequestInv, Shape, GitOrder, Told, Truth, Backed
  <1>3. CASE Elsewhere
    <2>1. UNCHANGED <<pc, msg, result, answer, worked, began>>
      BY <1>3 DEF Elsewhere, calls
    <2>2. /\ git' \in [vault: Nat, staged: Nat, head: Nat] /\ GitOrder'
          /\ git.vault <= git'.vault /\ git.staged <= git'.staged /\ git.head <= git'.head
      <3>1. CASE git' = [git EXCEPT !.vault = git.vault + 1]
        BY <3>1 DEF RequestInv, Shape, GitOrder
      <3>2. CASE git' = [git EXCEPT !.staged = git.vault, !.head = git.vault]
        <4>1. git.vault \in Nat /\ git.staged \in Nat /\ git.head \in Nat /\ GitOrder
          BY NatVersions DEF RequestInv
        <4>2. git'.vault = git.vault /\ git'.staged = git.vault /\ git'.head = git.vault
          BY <3>2 DEF RequestInv, Shape
        <4>3. git' \in [vault: Nat, staged: Nat, head: Nat]
          BY <3>2, <4>1 DEF RequestInv, Shape
        <4>. QED BY <4>1, <4>2, <4>3 DEF GitOrder
      <3>. QED BY <1>3, <3>1, <3>2 DEF Elsewhere
    <2>3. Shape'
      BY <2>1, <2>2 DEF RequestInv, Shape
    <2>4. ASSUME NEW r \in Reqs PROVE Told(r)'
      BY <2>1 DEF RequestInv, Told, Truth
    <2>5. ASSUME NEW r \in Reqs PROVE Backed(r)'
      <3>1. Backed(r) /\ began[r] \in Nat /\ result[r].hash \in Nat
        BY NatVersions DEF RequestInv
      <3>2. /\ git.vault \in Nat /\ git.staged \in Nat /\ git.head \in Nat
            /\ git'.vault \in Nat /\ git'.staged \in Nat /\ git'.head \in Nat
        BY <2>2, NatVersions
      <3>. QED BY <2>1, <2>2, <3>1, <3>2 DEF Backed
    <2>. QED BY <2>2, <2>3, <2>4, <2>5 DEF RequestInv
  <1>4. CASE Crash
    <2>1. UNCHANGED <<msg, result, answer, worked, began, git>>
      BY <1>4 DEF Crash
    <2>2. DOMAIN pc' = Reqs /\ \A r \in Reqs :
            pc'[r] = "gone" \/ (pc'[r] = pc[r] /\ pc[r] \in {"new", "answered"})
      BY <1>4 DEF Crash
    <2>3. Shape'
      BY <2>1, <2>2 DEF RequestInv, Shape
    <2>4. ASSUME NEW r \in Reqs PROVE (Told(r) /\ Backed(r))'
      BY <2>1, <2>2 DEF RequestInv, Told, Truth, Backed, Before
    <2>. QED BY <2>1, <2>3, <2>4 DEF RequestInv, GitOrder
  <1>5. (\E right \in BOOLEAN : Login(right)) => UNCHANGED <<calls, git, began>>
    BY DEF Login
  <1>6. (\E c \in Cookies \cup {Forged} : Visit(c)) => UNCHANGED <<calls, git, began>>
    BY DEF Visit
  <1>7. Tick \/ SetBack \/ UNCHANGED vars => UNCHANGED <<calls, git, began>>
    BY DEF Tick, SetBack, vars
  <1>. QED BY <1>1, <1>2, <1>3, <1>4, <1>5, <1>6, <1>7 DEF Next

\* The invariant behind the theorems below holds in every state of every behaviour:
\* answers, backups and sessions are what their handlers left them to be.
THEOREM Invariant == Spec => []RequestInv
  <1>1. RequestInv /\ [Next]_vars => RequestInv'
    BY NextRequest
  <1>. QED BY <1>1, InitRequest, PTL DEF Spec

\* However requests, failures of the event store and restarts interleave, the
\* answer of a call tells whether its work was done.
THEOREM AnswersAreTrue == Spec => []AnswerTellsTruth
  <1>1. RequestInv => AnswerTellsTruth
    <2>. SUFFICES ASSUME RequestInv, NEW r \in Reqs, pc[r] = "answered", msg[r].kind \in Tools
                  PROVE  /\ worked[r] \in {"yes", "conflict"} =>
                              answer[r] = [status |-> 200, code |-> ""]
                         /\ worked[r] = "raised" => answer[r].code # ""
                         /\ worked[r] = "no" => answer[r].code # "" \/ msg[r].kind = "backup_vault"
      BY DEF AnswerTellsTruth
    <2>1. /\ Truth(r, result[r].code)
          /\ answer[r] = [status |-> 200, code |-> result[r].code]
      BY DEF RequestInv, Told
    <2>2. answer[r].code = result[r].code
      BY <2>1
    <2>. QED BY <2>1, <2>2 DEF Truth
  <1>. QED BY <1>1, Invariant, PTL

\* However many backups, edits and commits of others interleave, a backup that
\* succeeds names a commit with all that the vault held when it began.
THEOREM BackupsCover == Spec => []BackupCovers
  <1>1. RequestInv => BackupCovers
    BY DEF RequestInv, Backed, BackupCovers
  <1>. QED BY <1>1, Invariant, PTL

-----------------------------------------------------------------------------
(* The admin pages *)

\* A session ends Timeout after its login, and has never been refused.
SessionInv ==
  /\ now \in Nat /\ now >= Started
  /\ sessions \in [Cookies -> Nat] /\ born \in [Cookies -> Nat]
  /\ \A c \in Cookies : sessions[c] # 0 =>
       born[c] # 0 /\ sessions[c] = born[c] + Timeout /\ c \notin over

LEMMA NextSession ==
  ASSUME SessionInv, [Next]_vars
  PROVE  SessionInv'
  <1>1. CASE UNCHANGED <<now, sessions, born, over>>
    BY <1>1 DEF SessionInv
  <1>2. ASSUME NEW r \in Reqs, Step(r)
        PROVE  UNCHANGED <<now, sessions, born, over>>
    BY <1>2 DEF Step, Receive, Received, Identify, Handle, Suspend, Outcome, Backup, Add,
                Commit, RevParse, Git, console
  <1>3. ASSUME NEW right \in BOOLEAN, Login(right)
        PROVE  SessionInv'
    <2>1. UNCHANGED <<now, over>>
      BY <1>3 DEF Login
    <2>2. CASE UNCHANGED <<sessions, born>>
      BY <1>1, <2>1, <2>2
    <2>3. CASE right /\ setup.admin
      <3>1. PICK c \in {d \in Cookies : born[d] = 0 /\ d \notin over} :
              /\ sessions' = [sessions EXCEPT ![c] = now + Timeout]
              /\ born' = [born EXCEPT ![c] = now]
        BY <1>3, <2>3 DEF Login
      <3>. QED BY <2>1, <3>1, RequestsAssumption DEF SessionInv, Started
    <2>. QED BY <1>3, <2>2, <2>3 DEF Login
  <1>4. ASSUME NEW c \in Cookies \cup {Forged}, Visit(c)
        PROVE  SessionInv'
    <2>1. UNCHANGED <<now, born>>
      BY <1>4 DEF Visit
    <2>2. CASE c = Forged
      <3>1. sessions' = sessions /\ over' \subseteq over \cup {Forged}
        BY <1>4, <2>2 DEF Visit
      <3>. QED BY <2>1, <3>1, RequestsAssumption DEF SessionInv
    <2>3. CASE c \in Cookies /\ c # Forged
      <3>1. \/ sessions' = sessions /\ over' = over
            \/ sessions' = [sessions EXCEPT ![c] = 0] /\ over' = over \cup {c}
        <4>1. CASE Validated(c).ok
          <5>1. Validated(c).left = sessions[c]
            BY <4>1 DEF Validated
          <5>2. sessions' = [sessions EXCEPT ![c] = sessions[c]] /\ over' = over
            BY <1>4, <2>3, <4>1, <5>1 DEF Visit
          <5>. QED BY <5>2 DEF SessionInv
        <4>2. CASE ~Validated(c).ok
          <5>1. Validated(c).left = 0
            BY <4>2 DEF Validated
          <5>. QED BY <1>4, <2>3, <4>2, <5>1 DEF Visit
        <4>. QED BY <4>1, <4>2
      <3>. QED BY <2>1, <3>1 DEF SessionInv
    <2>. QED BY <2>2, <2>3
  <1>5. CASE Crash
    BY <1>5 DEF Crash, SessionInv
  <1>6. CASE Tick \/ SetBack
    BY <1>6 DEF Tick, SetBack, SessionInv, console, Started
  <1>7. CASE Elsewhere \/ UNCHANGED vars
    BY <1>1, <1>7 DEF Elsewhere, vars, console
  <1>. QED BY <1>1, <1>2, <1>3, <1>4, <1>5, <1>6, <1>7 DEF Next

LEMMA VisitShown ==
  ASSUME SessionInv, Next, last' # last, last'.ok
  PROVE  /\ last'.id \in Cookies \ over
         /\ born[last'.id] # 0 /\ now < born[last'.id] + Timeout
  <1>1. PICK c \in Cookies \cup {Forged} : Visit(c)
    <2>1. ASSUME NEW r \in Reqs, Step(r)
          PROVE  UNCHANGED last
      BY <2>1 DEF Step, Receive, Received, Identify, Handle, Suspend, Outcome, Backup, Add,
                  Commit, RevParse, Git, console
    <2>2. \A right \in BOOLEAN : Login(right) => UNCHANGED last
      BY DEF Login
    <2>3. Elsewhere \/ Tick \/ SetBack \/ Crash => UNCHANGED last
      BY DEF Elsewhere, Tick, SetBack, Crash, console
    <2>. QED BY <2>1, <2>2, <2>3 DEF Next
  <1>2. last'.id = c /\ last'.ok = (c # Forged /\ Validated(c).ok)
    BY <1>1 DEF Visit
  <1>3. c \in Cookies /\ sessions[c] # 0 /\ now < sessions[c]
    BY <1>1, <1>2 DEF Validated
  <1>. QED BY <1>2, <1>3 DEF SessionInv

\* For every timeout, and however the clock goes and the server restarts: an
\* admin page is shown only to a session that a login of this server has
\* begun, for as long as it lasts, and to none that has been refused.
THEOREM AdminPagesAreGuarded == Spec => AdminPagesNeedLogin
  <1>1. Init => SessionInv
    BY DEF Init, SessionInv, Started
  <1>2. SessionInv /\ [Next]_vars => SessionInv'
    BY NextSession
  <1>3. SessionInv /\ [Next]_vars =>
          [LET c == last'.id IN last' # last /\ last'.ok =>
             /\ c \in Cookies \ over
             /\ born[c] # 0 /\ now < born[c] + Timeout]_vars
    BY VisitShown DEF vars
  <1>. QED BY <1>1, <1>2, <1>3, PTL DEF Spec, AdminPagesNeedLogin

-----------------------------------------------------------------------------
(* Types *)

EventTypes == {"received", "completed", "failed"}
Rows == Events(Reqs, EventTypes, Codes, 0..MaxTime)

\* What an event leaves behind, and what it may.
LEMMA RecordType ==
  ASSUME TypeOK, NEW r \in Reqs, NEW way, NEW type \in EventTypes, NEW code \in Codes,
         Record(r, way, type, code)
  PROVE  /\ events' \in Seq(Rows)
         /\ lost' \subseteq Reqs
         /\ env' \in [trouble: 0..MaxTrouble, calls: 0..MaxCalls]
  <1>. DEFINE row == [trace |-> r, type |-> type, code |-> code, time |-> now,
                      severity |-> IF type = "failed" THEN "ERROR" ELSE "INFO"]
  <1>1. /\ events \in Seq(Rows) /\ lost \subseteq Reqs
        /\ env \in [trouble: 0..MaxTrouble, calls: 0..MaxCalls]
    BY DEF TypeOK, Rows, EventTypes
  <1>2. row \in Rows
    BY DEF TypeOK, Rows, Events
  <1>. HIDE DEF row
  <1>3. CASE UNCHANGED <<events, lost, env>>
    BY <1>1, <1>3
  <1>4. CASE events' = Append(events, row) /\ UNCHANGED <<lost, env>>
    BY <1>1, <1>2, <1>4
  <1>5. CASE Trouble /\ lost' = lost \cup {r} /\ UNCHANGED events
    BY <1>1, <1>5, RequestsAssumption DEF Trouble
  <1>. QED BY <1>3, <1>4, <1>5 DEF Record, row

Stages == {"new", "received", "identify", "handle", "suspended", "add", "commit", "parse",
           "outcome", "answered", "gone"}

LEMMA GotoType ==
  ASSUME TypeOK, NEW r, NEW l \in Stages, Goto(r, l)
  PROVE  pc' \in [Reqs -> Stages]
  BY DEF TypeOK, Goto, Stages

LEMMA EnvType ==
  ASSUME TypeOK, Trouble \/ Calls \/ UNCHANGED env
  PROVE  env' \in [trouble: 0..MaxTrouble, calls: 0..MaxCalls]
  <1>1. env \in [trouble: 0..MaxTrouble, calls: 0..MaxCalls]
    BY DEF TypeOK
  <1>. QED BY <1>1, RequestsAssumption DEF Trouble, Calls

\* A code changes, a hash, a version.
LEMMA FieldTypes ==
  ASSUME TypeOK, NEW r
  PROVE  /\ \A c \in Codes : [result EXCEPT ![r].code = c] \in [Reqs -> [code: Codes, hash: Nat]]
         /\ \A h \in Nat : [result EXCEPT ![r].hash = h] \in [Reqs -> [code: Codes, hash: Nat]]
         /\ \A v \in Nat :
              /\ [git EXCEPT !.vault = v] \in [vault: Nat, staged: Nat, head: Nat]
              /\ [git EXCEPT !.staged = v] \in [vault: Nat, staged: Nat, head: Nat]
              /\ [git EXCEPT !.head = v] \in [vault: Nat, staged: Nat, head: Nat]
              /\ [git EXCEPT !.staged = v, !.head = v] \in [vault: Nat, staged: Nat, head: Nat]
         /\ git.vault \in Nat /\ git.vault + 1 \in Nat /\ git.staged \in Nat /\ git.head \in Nat
  <1>1. result \in [Reqs -> [code: Codes, hash: Nat]]
    BY DEF TypeOK
  <1>2. git \in [vault: Nat, staged: Nat, head: Nat]
    BY DEF TypeOK
  <1>3. \A c \in Codes : [result EXCEPT ![r].code = c] \in [Reqs -> [code: Codes, hash: Nat]]
    BY <1>1
  <1>4. \A h \in Nat : [result EXCEPT ![r].hash = h] \in [Reqs -> [code: Codes, hash: Nat]]
    BY <1>1
  <1>5. ASSUME NEW v \in Nat
        PROVE  /\ [git EXCEPT !.vault = v] \in [vault: Nat, staged: Nat, head: Nat]
               /\ [git EXCEPT !.staged = v] \in [vault: Nat, staged: Nat, head: Nat]
               /\ [git EXCEPT !.head = v] \in [vault: Nat, staged: Nat, head: Nat]
               /\ [git EXCEPT !.staged = v, !.head = v] \in [vault: Nat, staged: Nat, head: Nat]
    BY <1>2
  <1>6. git.vault \in Nat /\ git.staged \in Nat /\ git.head \in Nat
    BY <1>2
  <1>7. git.vault + 1 \in Nat
    BY <1>6
  <1>. QED BY <1>3, <1>4, <1>5, <1>6, <1>7, Zenon

LEMMA WorksType ==
  ASSUME TypeOK, NEW r \in Reqs, NEW w \in {"no", "yes", "conflict", "raised"}, NEW c \in Codes,
         Works(r, w, c)
  PROVE  /\ pc' \in [Reqs -> Stages]
         /\ worked' \in [Reqs -> {"no", "yes", "conflict", "raised"}]
         /\ result' \in [Reqs -> [code: Codes, hash: Nat]]
  <1>1. Goto(r, "outcome")
    BY DEF Works
  <1>2. pc' \in [Reqs -> Stages]
    BY <1>1, GotoType DEF Stages
  <1>3. result' \in [Reqs -> [code: Codes, hash: Nat]]
    BY FieldTypes DEF Works, Code
  <1>4. worked' \in [Reqs -> {"no", "yes", "conflict", "raised"}]
    BY DEF Works, TypeOK
  <1>. QED BY <1>2, <1>3, <1>4

LEMMA InitType == Init => TypeOK
  <1>. SUFFICES ASSUME Init PROVE TypeOK
    OBVIOUS
  <1>1. /\ setup \in Setups /\ events \in Seq(Rows) /\ loop \in Reqs \cup {"free"}
        /\ pc \in [Reqs -> Stages] /\ msg \in [Reqs -> Messages \cup {NoMsg}]
    BY DEF Init, Stages, Rows
  <1>2. /\ result \in [Reqs -> [code: Codes, hash: Nat]]
        /\ answer \in [Reqs -> [status: {0, 200, 400, 500}, code: Codes \cup ProtocolCodes]]
        /\ worked \in [Reqs -> {"no", "yes", "conflict", "raised"}]
    BY DEF Init, NoResult, NoAnswer, Codes, ProtocolCodes
  <1>3. /\ lost \subseteq Reqs /\ git \in [vault: Nat, staged: Nat, head: Nat]
        /\ began \in [Reqs -> Nat] /\ now \in 0..MaxTime
        /\ sessions \in [Cookies -> Nat] /\ born \in [Cookies -> Nat]
        /\ over \subseteq Cookies \cup {Forged}
    BY RequestsAssumption DEF Init, Started
  <1>4. /\ last \in [id: Cookies \cup {Forged}, ok: BOOLEAN, at: 0..MaxTime]
        /\ env \in [trouble: 0..MaxTrouble, calls: 0..MaxCalls]
    BY RequestsAssumption DEF Init, Started
  <1>. QED BY <1>1, <1>2, <1>3, <1>4 DEF TypeOK, Stages, Rows, EventTypes

\* Nothing else than the calls of requests moves.
LEMMA StepType ==
  ASSUME TypeOK, NEW r \in Reqs, Step(r)
  PROVE  TypeOK'
  <1>. DEFINE Types ==
         /\ events' \in Seq(Rows) /\ loop' \in Reqs \cup {"free"} /\ pc' \in [Reqs -> Stages]
         /\ msg' \in [Reqs -> Messages \cup {NoMsg}]
         /\ result' \in [Reqs -> [code: Codes, hash: Nat]]
         /\ answer' \in [Reqs -> [status: {0, 200, 400, 500}, code: Codes \cup ProtocolCodes]]
         /\ worked' \in [Reqs -> {"no", "yes", "conflict", "raised"}]
         /\ lost' \subseteq Reqs
         /\ git' \in [vault: Nat, staged: Nat, head: Nat] /\ began' \in [Reqs -> Nat]
         /\ env' \in [trouble: 0..MaxTrouble, calls: 0..MaxCalls]
  <1>0. ASSUME Types, UNCHANGED <<setup, now, console>>
        PROVE  TypeOK'
    BY <1>0 DEF TypeOK, console, Stages, Rows, EventTypes
  <1>s. /\ events \in Seq(Rows) /\ pc \in [Reqs -> Stages] /\ loop \in Reqs \cup {"free"}
        /\ msg \in [Reqs -> Messages \cup {NoMsg}]
        /\ result \in [Reqs -> [code: Codes, hash: Nat]]
        /\ answer \in [Reqs -> [status: {0, 200, 400, 500}, code: Codes \cup ProtocolCodes]]
        /\ worked \in [Reqs -> {"no", "yes", "conflict", "raised"}]
        /\ lost \subseteq Reqs
        /\ git \in [vault: Nat, staged: Nat, head: Nat] /\ began \in [Reqs -> Nat]
        /\ env \in [trouble: 0..MaxTrouble, calls: 0..MaxCalls]
    BY DEF TypeOK, Stages, Rows, EventTypes
  <1>1. ASSUME NEW m \in Messages, Receive(r, m)
        PROVE  TypeOK'
    <2>1. Protocol(m.kind) \in [status: {0, 200, 400, 500}, code: Codes \cup ProtocolCodes]
      BY DEF Protocol, Codes, ProtocolCodes
    <2>2. answer' \in [Reqs -> [status: {0, 200, 400, 500}, code: Codes \cup ProtocolCodes]]
      <3>. DEFINE Answers == [status: {0, 200, 400, 500}, code: Codes \cup ProtocolCodes]
                  unknown == [status |-> 200, code |-> "UNKNOWN_TOOL"]
      <3>1. unknown \in Answers
        BY DEF ProtocolCodes
      <3>2. \/ answer' = [answer EXCEPT ![r] = Protocol(m.kind)]
            \/ answer' = [answer EXCEPT ![r] = unknown]
            \/ answer' = answer
        BY <1>1 DEF Receive
      <3>3. Protocol(m.kind) \in Answers /\ answer \in [Reqs -> Answers]
        BY <1>s, <2>1
      <3>. HIDE DEF Answers, unknown
      <3>4. answer' \in [Reqs -> Answers]
        BY <3>1, <3>2, <3>3
      <3>. QED BY <3>4 DEF Answers
    <2>3. pc' \in [Reqs -> Stages] /\ env' \in [trouble: 0..MaxTrouble, calls: 0..MaxCalls]
      BY <1>1, GotoType, EnvType DEF Receive, Stages
    <2>4. UNCHANGED <<setup, events, result, worked, lost, git, began, now, console>>
      BY <1>1 DEF Receive
    <2>5. msg' \in [Reqs -> Messages \cup {NoMsg}] /\ loop' \in Reqs \cup {"free"}
      BY <1>1, <1>s DEF Receive
    <2>. QED BY <1>0, <1>s, <2>2, <2>3, <2>4, <2>5
  <1>2. CASE Received(r)
    <2>1. UNCHANGED <<setup, loop, msg, result, answer, worked, git, began, now, console>>
      BY <1>2 DEF Received
    <2>2. pc' \in [Reqs -> Stages]
      BY <1>2, GotoType DEF Received, Stages
    <2>3. Record(r, msg[r].way, "received", "")
      BY <1>2 DEF Received
    <2>4. /\ events' \in Seq(Rows) /\ lost' \subseteq Reqs
          /\ env' \in [trouble: 0..MaxTrouble, calls: 0..MaxCalls]
      BY <2>3, RecordType DEF EventTypes, Codes
    <2>. QED BY <1>0, <1>s, <2>1, <2>2, <2>4
  <1>3. CASE Identify(r)
    <2>1. UNCHANGED <<setup, events, loop, msg, answer, worked, lost, git, began, now,
                      console, env>>
      BY <1>3 DEF Identify
    <2>2. pc' \in [Reqs -> Stages]
      BY <1>3, GotoType DEF Identify, Stages
    <2>3. result' \in [Reqs -> [code: Codes, hash: Nat]]
      <3>1. "AUTH_UNKNOWN_KEY" \in Codes /\ "AUTH_INVALID_KEY" \in Codes
        BY DEF Codes
      <3>2. \/ result' = result
            \/ result' = [result EXCEPT ![r].code = "AUTH_UNKNOWN_KEY"]
            \/ result' = [result EXCEPT ![r].code = "AUTH_INVALID_KEY"]
        BY <1>3 DEF Identify, Code
      <3>3. /\ [result EXCEPT ![r].code = "AUTH_UNKNOWN_KEY"] \in [Reqs -> [code: Codes, hash: Nat]]
            /\ [result EXCEPT ![r].code = "AUTH_INVALID_KEY"] \in [Reqs -> [code: Codes, hash: Nat]]
        BY <3>1, FieldTypes, Zenon
      <3>4. result \in [Reqs -> [code: Codes, hash: Nat]]
        BY <1>s
      <3>. QED BY <3>2, <3>3, <3>4
    <2>. QED BY <1>0, <1>s, <2>1, <2>2, <2>3
  <1>4. CASE Handle(r)
    <2>1. UNCHANGED <<setup, events, msg, answer, lost, git, began, now, console, env>>
      BY <1>4 DEF Handle
    <2>2. \E w \in {"no", "yes", "conflict", "raised"}, c \in Codes : Works(r, w, c)
      BY <1>4 DEF Handle, Codes
    <2>3. /\ pc' \in [Reqs -> Stages]
          /\ worked' \in [Reqs -> {"no", "yes", "conflict", "raised"}]
          /\ result' \in [Reqs -> [code: Codes, hash: Nat]]
      BY <2>2, WorksType
    <2>4. loop' = r
      BY <1>4 DEF Handle
    <2>. QED BY <1>0, <1>s, <2>1, <2>3, <2>4
  <1>5. CASE Suspend(r)
    <2>1. UNCHANGED <<setup, events, msg, result, answer, worked, lost, git, began, now,
                      console, env>>
      BY <1>5 DEF Suspend
    <2>2. pc' \in [Reqs -> Stages] /\ loop' = "free"
      BY <1>5, GotoType DEF Suspend, Stages
    <2>. QED BY <1>0, <1>s, <2>1, <2>2
  <1>6. CASE Outcome(r)
    <2>1. UNCHANGED <<setup, msg, result, worked, git, began, now, console>> /\ loop' = "free"
      BY <1>6 DEF Outcome
    <2>2. pc' \in [Reqs -> Stages]
      BY <1>6, GotoType DEF Outcome, Stages
    <2>3. result[r].code \in Codes
      BY <1>s
    <2>4. answer' \in [Reqs -> [status: {0, 200, 400, 500}, code: Codes \cup ProtocolCodes]]
      BY <1>6, <1>s, <2>3 DEF Outcome
    <2>5. \E type \in EventTypes : Record(r, msg[r].way, type, result[r].code)
      BY <1>6 DEF Outcome, EventTypes
    <2>6. /\ events' \in Seq(Rows) /\ lost' \subseteq Reqs
          /\ env' \in [trouble: 0..MaxTrouble, calls: 0..MaxCalls]
      BY <2>3, <2>5, RecordType
    <2>. QED BY <1>0, <1>s, <2>1, <2>2, <2>4, <2>6
  <1>7. CASE Backup(r)
    <2>1. UNCHANGED <<setup, events, loop, msg, answer, lost, now, console, env, git>>
      BY <1>7 DEF Backup, Git, GivesUp
    <2>2. CASE \E w \in {"no", "yes", "conflict", "raised"}, c \in Codes :
                 Works(r, w, c) /\ UNCHANGED began
      <3>1. /\ pc' \in [Reqs -> Stages]
            /\ worked' \in [Reqs -> {"no", "yes", "conflict", "raised"}]
            /\ result' \in [Reqs -> [code: Codes, hash: Nat]]
        BY <2>2, WorksType
      <3>. QED BY <1>0, <1>s, <2>1, <2>2, <3>1
    <2>3. CASE /\ began' = [began EXCEPT ![r] = git.vault] /\ Goto(r, "add")
               /\ UNCHANGED <<result, worked>>
      <3>1. pc' \in [Reqs -> Stages]
        BY <2>3, GotoType DEF Stages
      <3>. QED BY <1>0, <1>s, <2>1, <2>3, <3>1
    <2>. QED BY <1>7, <2>2, <2>3 DEF Backup, GivesUp, Codes
  <1>8. CASE Add(r)
    <2>1. UNCHANGED <<setup, events, loop, msg, answer, lost, now, console, result, worked, began>>
      BY <1>8 DEF Add, Git
    <2>2. pc' \in [Reqs -> Stages] /\ env' \in [trouble: 0..MaxTrouble, calls: 0..MaxCalls]
      BY <1>8, GotoType, EnvType DEF Add, AfterAdd, Stages
    <2>3. git' \in [vault: Nat, staged: Nat, head: Nat]
      <3>1. git' = [git EXCEPT !.staged = git.vault] \/ git' = git
        BY <1>8 DEF Add
      <3>. QED BY <1>s, <3>1, FieldTypes
    <2>. QED BY <1>0, <1>s, <2>1, <2>2, <2>3
  <1>9. CASE Commit(r)
    <2>1. UNCHANGED <<setup, events, loop, msg, answer, lost, now, console, began>>
      BY <1>9 DEF Commit, Git, GivesUp
    <2>2. env' \in [trouble: 0..MaxTrouble, calls: 0..MaxCalls]
      BY <1>9, EnvType DEF Commit
    <2>3. git' \in [vault: Nat, staged: Nat, head: Nat]
      <3>1. git' = [git EXCEPT !.head = git.staged] \/ git' = git
        BY <1>9 DEF Commit, GivesUp
      <3>. QED BY <1>s, <3>1, FieldTypes
    <2>4. CASE Works(r, "no", "")
      <3>1. /\ pc' \in [Reqs -> Stages]
            /\ worked' \in [Reqs -> {"no", "yes", "conflict", "raised"}]
            /\ result' \in [Reqs -> [code: Codes, hash: Nat]]
        BY <2>4, WorksType DEF Codes
      <3>. QED BY <1>0, <1>s, <2>1, <2>2, <2>3, <3>1
    <2>5. CASE Goto(r, "parse") /\ UNCHANGED <<result, worked>>
      <3>1. pc' \in [Reqs -> Stages]
        BY <2>5, GotoType DEF Stages
      <3>. QED BY <1>0, <1>s, <2>1, <2>2, <2>3, <2>5, <3>1
    <2>. QED BY <1>9, <2>4, <2>5 DEF Commit, GivesUp
  <1>10. CASE RevParse(r)
    <2>1. UNCHANGED <<setup, events, loop, msg, answer, lost, now, console, git, began>>
      BY <1>10 DEF RevParse, Git, GivesUp
    <2>2. env' \in [trouble: 0..MaxTrouble, calls: 0..MaxCalls]
      BY <1>10, EnvType DEF RevParse
    <2>3. CASE Works(r, "no", "")
      <3>1. /\ pc' \in [Reqs -> Stages]
            /\ worked' \in [Reqs -> {"no", "yes", "conflict", "raised"}]
            /\ result' \in [Reqs -> [code: Codes, hash: Nat]]
        BY <2>3, WorksType DEF Codes
      <3>. QED BY <1>0, <1>s, <2>1, <2>2, <3>1
    <2>4. CASE /\ result' = [result EXCEPT ![r].hash = git.head]
               /\ worked' = [worked EXCEPT ![r] = "yes"] /\ Goto(r, "outcome")
      <3>1. pc' \in [Reqs -> Stages]
        BY <2>4, GotoType DEF Stages
      <3>2. result' \in [Reqs -> [code: Codes, hash: Nat]]
        BY <2>4, FieldTypes
      <3>3. worked' \in [Reqs -> {"no", "yes", "conflict", "raised"}]
        BY <1>s, <2>4
      <3>. QED BY <1>0, <1>s, <2>1, <2>2, <3>1, <3>2, <3>3
    <2>. QED BY <1>10, <2>3, <2>4 DEF RevParse, GivesUp
  <1>. QED BY <1>1, <1>2, <1>3, <1>4, <1>5, <1>6, <1>7, <1>8, <1>9, <1>10 DEF Step

LEMMA NextType ==
  ASSUME TypeOK, [Next]_vars
  PROVE  TypeOK'
  <1>1. ASSUME NEW right \in BOOLEAN, Login(right)
        PROVE  TypeOK'
    <2>1. UNCHANGED <<setup, events, loop, calls, lost, git, began, now, over, last>>
      BY <1>1 DEF Login
    <2>2. env' \in [trouble: 0..MaxTrouble, calls: 0..MaxCalls]
      BY <1>1, EnvType DEF Login
    <2>3. now \in Nat /\ now + Timeout \in Nat /\ sessions \in [Cookies -> Nat] /\ born \in [Cookies -> Nat]
      BY RequestsAssumption DEF TypeOK
    <2>4. sessions' \in [Cookies -> Nat] /\ born' \in [Cookies -> Nat]
      BY <1>1, <2>3 DEF Login
    <2>. QED BY <2>1, <2>2, <2>4 DEF TypeOK, calls
  <1>2. ASSUME NEW c \in Cookies \cup {Forged}, Visit(c)
        PROVE  TypeOK'
    <2>1. UNCHANGED <<setup, events, loop, calls, lost, git, began, now, born>>
      BY <1>2 DEF Visit
    <2>2. env' \in [trouble: 0..MaxTrouble, calls: 0..MaxCalls]
      BY <1>2, EnvType DEF Visit
    <2>3. last' \in [id: Cookies \cup {Forged}, ok: BOOLEAN, at: 0..MaxTime]
      BY <1>2 DEF Visit, TypeOK, Validated
    <2>4. c \in Cookies => Validated(c).left \in Nat
      BY DEF Validated, TypeOK
    <2>5. sessions' \in [Cookies -> Nat]
      BY <1>2, <2>4 DEF Visit, TypeOK
    <2>6. over' \subseteq Cookies \cup {Forged}
      BY <1>2 DEF Visit, TypeOK
    <2>. QED BY <2>1, <2>2, <2>3, <2>5, <2>6 DEF TypeOK, calls
  <1>3. CASE Crash
    <2>1. UNCHANGED <<setup, events, msg, result, answer, worked, lost, git, began, now,
                      born, last>> /\ loop' = "free"
      BY <1>3 DEF Crash
    <2>2. env' \in [trouble: 0..MaxTrouble, calls: 0..MaxCalls]
      BY <1>3, EnvType DEF Crash
    <2>3. sessions' \in [Cookies -> Nat] /\ over' \subseteq Cookies \cup {Forged}
      BY <1>3 DEF Crash, TypeOK
    <2>4. pc' \in [Reqs -> Stages]
      BY <1>3 DEF Crash, TypeOK, Stages
    <2>. QED BY <2>1, <2>2, <2>3, <2>4 DEF TypeOK, Stages
  <1>4. CASE Tick \/ SetBack
    <2>1. UNCHANGED <<setup, events, loop, calls, lost, git, began, console>>
      BY <1>4 DEF Tick, SetBack
    <2>2. env' \in [trouble: 0..MaxTrouble, calls: 0..MaxCalls]
      BY <1>4, EnvType DEF Tick, SetBack
    <2>3. now' \in 0..MaxTime
      BY <1>4, RequestsAssumption DEF Tick, SetBack, TypeOK, Started
    <2>. QED BY <2>1, <2>2, <2>3 DEF TypeOK, calls, console
  <1>5. CASE Elsewhere
    <2>1. UNCHANGED <<setup, events, loop, calls, lost, began, now, console>>
      BY <1>5 DEF Elsewhere
    <2>2. env' \in [trouble: 0..MaxTrouble, calls: 0..MaxCalls]
      BY <1>5, EnvType DEF Elsewhere
    <2>3. git \in [vault: Nat, staged: Nat, head: Nat]
      BY DEF TypeOK
    <2>4. git' \in [vault: Nat, staged: Nat, head: Nat]
      <3>1. \/ git' = [git EXCEPT !.vault = git.vault + 1]
            \/ git' = [git EXCEPT !.staged = git.vault, !.head = git.vault]
        BY <1>5 DEF Elsewhere
      <3>. QED BY <3>1, FieldTypes
    <2>. QED BY <2>1, <2>2, <2>4 DEF TypeOK, calls, console
  <1>6. CASE UNCHANGED vars
    BY <1>6 DEF TypeOK, vars, calls, console
  <1>. QED BY <1>1, <1>2, <1>3, <1>4, <1>5, <1>6, StepType DEF Next

\* Every variable keeps its type, for every bound.
THEOREM TypesHold == Spec => []TypeOK
  <1>1. TypeOK /\ [Next]_vars => TypeOK'
    BY NextType
  <1>. QED BY <1>1, InitType, PTL DEF Spec

-----------------------------------------------------------------------------
(* The events of a request *)

Mine(r)   == {i \in DOMAIN events : events[i].trace = r}
Logged(r) == msg[r].kind \in Tools /\ msg[r].way = "http" /\ setup.db
Working   == {"identify", "handle", "suspended", "add", "commit", "parse", "outcome"}

\* The event of a request that is at work is its reception, unless it is lost;
\* the outcome follows with the answer.
Traced(r) ==
  /\ \A i \in Mine(r) : Logged(r)
  /\ \A i, j \in Mine(r) : i < j => events[i].type = "received" /\ events[j].type # "received"
  /\ pc[r] \in {"new", "received"} => Mine(r) = {}
  /\ pc[r] \in Working \cup {"gone"} => \A i \in Mine(r) : events[i].type = "received"
  /\ pc[r] \in Working /\ Logged(r) /\ r \notin lost => Mine(r) # {}
  /\ pc[r] \in Working \cup {"received"} => msg[r].kind \in Tools
  /\ pc[r] = "answered" /\ Logged(r) =>
       /\ \A i \in Mine(r) : events[i].type # "received" =>
            /\ events[i].type = IF answer[r].code = "" THEN "completed" ELSE "failed"
            /\ events[i].code = answer[r].code
       /\ r \notin lost => \E i, j \in Mine(r) : i # j

EventInv == TypeOK /\ \A r \in Reqs : Traced(r)

LEMMA InitEvents == Init => EventInv
  <1>. SUFFICES ASSUME Init PROVE EventInv
    OBVIOUS
  <1>1. DOMAIN events = {}
    BY DEF Init
  <1>2. \A r \in Reqs : Mine(r) = {} /\ pc[r] = "new"
    BY <1>1 DEF Mine, Init
  <1>. QED BY <1>2, InitType DEF EventInv, Traced, Working

\* What a request has left is its own: a row of another does not touch it.
LEMMA RowAdded ==
  ASSUME TypeOK, NEW r \in Reqs, NEW row, row.trace = r, events' = Append(events, row)
  PROVE  LET n == Len(events) + 1
         IN /\ \A q \in Reqs \ {r} : Mine(q)' = Mine(q)
            /\ Mine(r)' = Mine(r) \cup {n} /\ events'[n] = row
            /\ \A q \in Reqs : \A i \in Mine(q) : events'[i] = events[i] /\ i < n /\ i \in Nat
  <1>. DEFINE n == Len(events) + 1
  <1>1. events \in Seq(Rows)
    BY DEF TypeOK, Rows, EventTypes
  <1>2. /\ DOMAIN events = 1..Len(events) /\ DOMAIN events' = 1..n /\ Len(events) \in Nat
        /\ events'[n] = row /\ \A i \in 1..Len(events) : events'[i] = events[i]
    BY <1>1
  <1>3. \A i \in 1..n : i \in 1..Len(events) \/ i = n
    BY <1>2
  <1>4. \A i \in 1..Len(events) : i \in 1..n /\ i < n /\ i \in Nat
    BY <1>2
  <1>. HIDE DEF n
  <1>5. \A q \in Reqs : \A i \in Mine(q) : events'[i] = events[i] /\ i < n /\ i \in Nat
    BY <1>2, <1>4 DEF Mine
  <1>6. \A q \in Reqs \ {r} : Mine(q)' = Mine(q)
    BY <1>2, <1>3, <1>4 DEF Mine
  <1>7. n \in 1..n
    BY <1>2 DEF n
  <1>8. Mine(r)' = Mine(r) \cup {n}
    BY <1>2, <1>3, <1>4, <1>7 DEF Mine
  <1>. QED BY <1>2, <1>5, <1>6, <1>8 DEF n

\* What may become of the events when request r records one.
LEMMA RecordCases ==
  ASSUME NEW r, NEW way, NEW type, NEW code, Record(r, way, type, code)
  PROVE  \/ (way # "http" \/ ~setup.db) /\ UNCHANGED <<events, lost>>
         \/ \E row : /\ events' = Append(events, row) /\ UNCHANGED lost
                     /\ row.trace = r /\ row.type = type /\ row.code = code
                     /\ way = "http" /\ setup.db
         \/ lost' = lost \cup {r} /\ UNCHANGED events
  <1>. DEFINE row == [trace |-> r, type |-> type, code |-> code, time |-> now,
                      severity |-> IF type = "failed" THEN "ERROR" ELSE "INFO"]
  <1>1. row.trace = r /\ row.type = type /\ row.code = code
    OBVIOUS
  <1>. HIDE DEF row
  <1>. QED BY <1>1 DEF Record, row

\* The requests that a step is not of.
LEMMA OthersTraced ==
  ASSUME EventInv, NEW r \in Reqs, NEW q \in Reqs \ {r},
         pc'[q] = pc[q], msg'[q] = msg[q], answer'[q] = answer[q], setup' = setup,
         lost \subseteq lost',
         \/ events' = events
         \/ \E row : row.trace = r /\ events' = Append(events, row)
  PROVE  Traced(q)'
  <1>1. /\ Mine(q)' = Mine(q) /\ Logged(q)' = Logged(q)
        /\ \A i \in Mine(q) : events'[i] = events[i]
    <2>1. CASE events' = events
      BY <2>1 DEF Mine, Logged
    <2>2. CASE \E row : row.trace = r /\ events' = Append(events, row)
      <3>1. Mine(q)' = Mine(q) /\ \A i \in Mine(q) : events'[i] = events[i]
        BY <2>2, RowAdded DEF EventInv
      <3>. QED BY <3>1 DEF Logged
    <2>. QED BY <2>1, <2>2
  <1>2. Traced(q)
    BY DEF EventInv
  <1>3. /\ \A i \in Mine(q)' : Logged(q)'
        /\ pc'[q] \in {"new", "received"} => Mine(q)' = {}
        /\ pc'[q] \in Working /\ Logged(q)' /\ q \notin lost' => Mine(q)' # {}
        /\ pc'[q] \in Working \cup {"received"} => msg'[q].kind \in Tools
    BY <1>1, <1>2 DEF Traced
  <1>4. ASSUME NEW i \in Mine(q)', NEW j \in Mine(q)', i < j
        PROVE  events'[i].type = "received" /\ events'[j].type # "received"
    <2>1. i \in Mine(q) /\ j \in Mine(q)
      BY <1>1
    <2>2. events[i].type = "received" /\ events[j].type # "received"
      BY <1>2, <1>4, <2>1 DEF Traced
    <2>. QED BY <1>1, <2>1, <2>2
  <1>5. ASSUME pc'[q] \in Working \cup {"gone"}, NEW i \in Mine(q)'
        PROVE  events'[i].type = "received"
    <2>1. i \in Mine(q) /\ events'[i] = events[i]
      BY <1>1
    <2>. QED BY <1>2, <1>5, <2>1 DEF Traced
  <1>6. ASSUME pc'[q] = "answered", Logged(q)'
        PROVE  /\ \A i \in Mine(q)' : events'[i].type # "received" =>
                    /\ events'[i].type = IF answer'[q].code = "" THEN "completed" ELSE "failed"
                    /\ events'[i].code = answer'[q].code
               /\ q \notin lost' => \E i, j \in Mine(q)' : i # j
    <2>1. /\ \A i \in Mine(q) : events[i].type # "received" =>
               /\ events[i].type = IF answer[q].code = "" THEN "completed" ELSE "failed"
               /\ events[i].code = answer[q].code
          /\ q \notin lost => \E i, j \in Mine(q) : i # j
      BY <1>1, <1>2, <1>6 DEF Traced
    <2>2. \A i \in Mine(q)' : i \in Mine(q) /\ events'[i] = events[i]
      BY <1>1
    <2>3. q \notin lost' => \E i, j \in Mine(q)' : i # j
      BY <1>1, <2>1
    <2>. QED BY <2>1, <2>2, <2>3
  <1>. QED BY <1>3, <1>4, <1>5, <1>6 DEF Traced

\* A step of r that records nothing and ends nothing.
LEMMA QuietTraced ==
  ASSUME EventInv, NEW r \in Reqs, pc[r] \in Working, pc'[r] \in Working,
         msg'[r] = msg[r], UNCHANGED <<setup, events, lost>>
  PROVE  Traced(r)'
  <1>1. Mine(r)' = Mine(r) /\ Logged(r)' = Logged(r) /\ pc'[r] \notin {"new", "received", "answered", "gone"}
    BY DEF Mine, Logged, Working
  <1>2. Traced(r)
    BY DEF EventInv
  <1>. QED BY <1>1, <1>2 DEF Traced

LEMMA StepEvents ==
  ASSUME EventInv, NEW r \in Reqs, Step(r)
  PROVE  \A q \in Reqs : Traced(q)'
  <1>. DEFINE Frame(q) == pc'[q] = pc[q] /\ msg'[q] = msg[q] /\ answer'[q] = answer[q]
  <1>s. /\ pc \in [Reqs -> Stages] /\ msg \in [Reqs -> Messages \cup {NoMsg}]
        /\ DOMAIN answer = Reqs /\ Traced(r)
    BY DEF TypeOK, EventInv, Stages
  <1>0. ASSUME Traced(r)', \A q \in Reqs \ {r} : Frame(q), setup' = setup, lost \subseteq lost',
               \/ events' = events
               \/ \E row : row.trace = r /\ events' = Append(events, row)
        PROVE  \A q \in Reqs : Traced(q)'
    BY <1>0, OthersTraced
  <1>1. ASSUME NEW m \in Messages, Receive(r, m)
        PROVE  \A q \in Reqs : Traced(q)'
    <2>1. UNCHANGED <<setup, events, lost>> /\ pc[r] = "new" /\ msg'[r] = m
      BY <1>1, <1>s DEF Receive
    <2>2. \A q \in Reqs \ {r} : Frame(q)
      BY <1>1, <1>s DEF Receive, Goto
    <2>3. Mine(r)' = {}
      BY <1>s, <2>1 DEF Traced, Mine
    <2>4. /\ m.kind \in Methods => pc'[r] = "answered"
          /\ m.kind \notin Methods => pc'[r] = "received" /\ msg'[r].kind \in Tools
      BY <1>1, <1>s, <2>1, InputsAssumption DEF Receive, Goto
    <2>5. m.kind \in Methods => m.kind \notin Tools
      BY DEF Methods, Tools
    <2>6. pc'[r] = "answered" => ~Logged(r)'
      BY <2>1, <2>4, <2>5 DEF Logged
    <2>7. pc'[r] \notin Working
      BY <2>4 DEF Working
    <2>8. Traced(r)'
      BY <2>3, <2>4, <2>6, <2>7 DEF Traced
    <2>. QED BY <1>0, <2>1, <2>2, <2>8
  <1>2. CASE Received(r)
    <2>1. /\ pc[r] = "received" /\ pc'[r] = "identify" /\ UNCHANGED <<setup, msg, answer>>
          /\ Record(r, msg[r].way, "received", "")
      BY <1>2, <1>s DEF Received, Goto
    <2>2. \A q \in Reqs \ {r} : Frame(q)
      BY <1>2, <1>s DEF Received, Goto
    <2>3. Mine(r) = {} /\ msg[r].kind \in Tools
      BY <1>s, <2>1 DEF Traced
    <2>4. /\ pc'[r] \notin {"new", "received", "answered", "gone"} /\ msg'[r].kind \in Tools
          /\ Logged(r)' = Logged(r) /\ (Logged(r) <=> msg[r].way = "http" /\ setup.db)
      BY <2>1, <2>3 DEF Logged
    <2>5. CASE (msg[r].way # "http" \/ ~setup.db) /\ UNCHANGED <<events, lost>>
      <3>1. Mine(r)' = {}
        BY <2>3, <2>5 DEF Mine
      <3>2. Traced(r)'
        BY <2>4, <2>5, <3>1 DEF Traced
      <3>. QED BY <1>0, <2>1, <2>2, <2>5, <3>2
    <2>6. CASE \E row : /\ events' = Append(events, row) /\ UNCHANGED lost
                        /\ row.trace = r /\ row.type = "received" /\ row.code = ""
                        /\ msg[r].way = "http" /\ setup.db
      <3>1. PICK row : /\ events' = Append(events, row) /\ UNCHANGED lost
                       /\ row.trace = r /\ row.type = "received"
                       /\ msg[r].way = "http" /\ setup.db
        BY <2>6
      <3>2. Mine(r)' = {Len(events) + 1} /\ events'[Len(events) + 1] = row
        BY <2>3, <3>1, RowAdded DEF EventInv
      <3>3. ~(Len(events) + 1 < Len(events) + 1)
        <4>1. events \in Seq(Rows)
          BY DEF EventInv, TypeOK, Rows, EventTypes
        <4>. QED BY <4>1
      <3>4. Traced(r)'
        BY <2>4, <3>1, <3>2, <3>3 DEF Traced
      <3>. QED BY <1>0, <2>1, <2>2, <3>1, <3>4
    <2>7. CASE lost' = lost \cup {r} /\ UNCHANGED events
      <3>1. Mine(r)' = {} /\ r \in lost'
        BY <2>3, <2>7 DEF Mine
      <3>2. Traced(r)'
        BY <2>4, <3>1 DEF Traced
      <3>. QED BY <1>0, <2>1, <2>2, <2>7, <3>2
    <2>. QED BY <2>1, <2>5, <2>6, <2>7, RecordCases
  <1>3. CASE Identify(r) \/ Handle(r) \/ Suspend(r) \/ Backup(r) \/ Add(r) \/ Commit(r)
             \/ RevParse(r)
    <2>1. /\ pc[r] \in Working /\ pc'[r] \in Working
          /\ \A q \in Reqs \ {r} : pc'[q] = pc[q]
      BY <1>3, <1>s DEF Identify, Handle, Suspend, Backup, Add, Commit, RevParse, GivesUp,
                        Works, Goto, AfterAdd, Working
    <2>2. UNCHANGED <<setup, events, lost, msg, answer>>
      BY <1>3 DEF Identify, Handle, Suspend, Backup, Add, Commit, RevParse, Git
    <2>3. Traced(r)'
      BY <2>1, <2>2, QuietTraced
    <2>. QED BY <1>0, <2>1, <2>2, <2>3
  <1>4. CASE Outcome(r)
    <2>. DEFINE c == result[r].code
                type == IF c = "" THEN "completed" ELSE "failed"
    <2>1. /\ pc[r] = "outcome" /\ pc'[r] = "answered" /\ UNCHANGED <<setup, msg>>
          /\ Record(r, msg[r].way, type, c) /\ answer'[r].code = c
      BY <1>4, <1>s DEF Outcome, Goto
    <2>2. \A q \in Reqs \ {r} : Frame(q)
      BY <1>4, <1>s DEF Outcome, Goto
    <2>3. /\ \A i \in Mine(r) : Logged(r) /\ events[i].type = "received"
          /\ \A i, j \in Mine(r) : ~(i < j)
          /\ Logged(r) /\ r \notin lost => Mine(r) # {}
          /\ msg[r].kind \in Tools
      BY <1>s, <2>1 DEF Traced, Working
    <2>4. /\ pc'[r] \notin Working \cup {"new", "received", "gone"}
          /\ Logged(r)' = Logged(r) /\ (Logged(r) <=> msg[r].way = "http" /\ setup.db)
      BY <2>1, <2>3 DEF Logged, Working
    <2>t. type # "received"
      OBVIOUS
    <2>u. type = IF answer'[r].code = "" THEN "completed" ELSE "failed"
      BY <2>1
    <2>. HIDE DEF c, type
    <2>5. CASE (msg[r].way # "http" \/ ~setup.db) /\ UNCHANGED <<events, lost>>
      <3>1. Mine(r)' = {} /\ ~Logged(r)'
        BY <2>3, <2>4, <2>5 DEF Mine
      <3>2. Traced(r)'
        BY <2>4, <3>1 DEF Traced
      <3>. QED BY <1>0, <2>1, <2>2, <2>5, <3>2
    <2>6. CASE \E row : /\ events' = Append(events, row) /\ UNCHANGED lost
                        /\ row.trace = r /\ row.type = type /\ row.code = c
                        /\ msg[r].way = "http" /\ setup.db
      <3>. DEFINE n == Len(events) + 1
      <3>1. PICK row : /\ events' = Append(events, row) /\ UNCHANGED lost
                       /\ row.trace = r /\ row.type = type /\ row.code = c
                       /\ msg[r].way = "http" /\ setup.db
        BY <2>6
      <3>2. /\ Mine(r)' = Mine(r) \cup {n} /\ events'[n] = row
            /\ \A i \in Mine(r) : events'[i] = events[i] /\ i < n /\ i \in Nat
        BY <3>1, RowAdded DEF EventInv
      <3>3. n \in Nat
        <4>1. events \in Seq(Rows)
          BY DEF EventInv, TypeOK, Rows, EventTypes
        <4>. QED BY <4>1
      <3>. HIDE DEF n
      <3>4. Logged(r)
        BY <2>4, <3>1
      <3>5. \A i, j \in Mine(r)' : i < j =>
              events'[i].type = "received" /\ events'[j].type # "received"
        <4>. SUFFICES ASSUME NEW i \in Mine(r)', NEW j \in Mine(r)', i < j
                      PROVE  events'[i].type = "received" /\ events'[j].type # "received"
          OBVIOUS
        <4>1. ~(i \in Mine(r) /\ j \in Mine(r))
          BY <2>3
        <4>2. i # n
          BY <3>2, <3>3
        <4>3. i \in Mine(r) /\ j = n
          BY <3>2, <4>1, <4>2
        <4>4. events'[i].type = "received"
          BY <2>3, <3>2, <4>3
        <4>. QED BY <2>t, <3>1, <3>2, <4>3, <4>4
      <3>6. \A i \in Mine(r)' : events'[i].type # "received" =>
              /\ events'[i].type = IF answer'[r].code = "" THEN "completed" ELSE "failed"
              /\ events'[i].code = answer'[r].code
        <4>. SUFFICES ASSUME NEW i \in Mine(r)', events'[i].type # "received"
                      PROVE  events'[i].type = type /\ events'[i].code = c
          BY <2>1, <2>u
        <4>1. i \notin Mine(r)
          <5>. SUFFICES ASSUME i \in Mine(r) PROVE FALSE
            OBVIOUS
          <5>1. events'[i] = events[i] /\ events[i].type = "received"
            BY <2>3, <3>2
          <5>. QED BY <5>1
        <4>2. i = n
          BY <3>2, <4>1
        <4>. QED BY <3>1, <3>2, <4>2
      <3>7. r \notin lost' => \E i, j \in Mine(r)' : i # j
        <4>. SUFFICES ASSUME r \notin lost' PROVE \E i, j \in Mine(r)' : i # j
          OBVIOUS
        <4>1. PICK i \in Mine(r) : TRUE
          BY <2>3, <3>1, <3>4
        <4>2. i # n
          BY <3>2, <3>3
        <4>. QED BY <3>2, <4>2
      <3>8. Traced(r)'
        BY <2>4, <3>4, <3>5, <3>6, <3>7 DEF Traced
      <3>. QED BY <1>0, <2>1, <2>2, <3>1, <3>8
    <2>7. CASE lost' = lost \cup {r} /\ UNCHANGED events
      <3>1. Mine(r)' = Mine(r) /\ r \in lost'
        BY <2>7 DEF Mine
      <3>2. Traced(r)'
        BY <2>3, <2>4, <2>7, <3>1 DEF Traced
      <3>. QED BY <1>0, <2>1, <2>2, <2>7, <3>2
    <2>. QED BY <2>1, <2>5, <2>6, <2>7, RecordCases
  <1>. QED BY <1>1, <1>2, <1>3, <1>4 DEF Step

LEMMA NextEvents ==
  ASSUME EventInv, [Next]_vars
  PROVE  EventInv'
  <1>1. TypeOK'
    BY NextType DEF EventInv
  <1>2. CASE UNCHANGED <<setup, events, pc, msg, answer, lost>>
    <2>. SUFFICES ASSUME NEW r \in Reqs PROVE Traced(r)'
      BY <1>1 DEF EventInv
    <2>1. Mine(r)' = Mine(r) /\ Logged(r)' = Logged(r) /\ Traced(r)
      BY <1>2 DEF Mine, Logged, EventInv
    <2>. QED BY <1>2, <2>1 DEF Traced
  <1>3. CASE Crash
    <2>1. /\ UNCHANGED <<setup, events, msg, answer, lost>>
          /\ \A r \in Reqs : pc'[r] = IF pc[r] \in {"new", "answered"} THEN pc[r] ELSE "gone"
      BY <1>3 DEF Crash
    <2>2. ASSUME NEW r \in Reqs PROVE Traced(r)'
      <3>1. /\ Mine(r)' = Mine(r) /\ Logged(r)' = Logged(r) /\ Traced(r)
            /\ pc[r] \in Stages
        BY <2>1 DEF Mine, Logged, EventInv, TypeOK, Stages
      <3>2. CASE pc[r] \in {"new", "answered"}
        BY <2>1, <3>1, <3>2 DEF Traced
      <3>3. CASE pc[r] \notin {"new", "answered"}
        <4>1. pc'[r] = "gone" /\ pc[r] \in Working \cup {"received", "gone"}
          BY <2>1, <3>1, <3>3 DEF Stages, Working
        <4>2. \A i \in Mine(r) : events[i].type = "received"
          BY <3>1, <4>1 DEF Traced
        <4>. QED BY <2>1, <3>1, <4>1, <4>2 DEF Traced, Working
      <3>. QED BY <3>2, <3>3
    <2>. QED BY <1>1, <2>2 DEF EventInv
  <1>4. CASE \E r \in Reqs : Step(r)
    BY <1>1, <1>4, StepEvents DEF EventInv
  <1>5. CASE \/ \E right \in BOOLEAN : Login(right)
             \/ \E c \in Cookies \cup {Forged} : Visit(c)
             \/ Elsewhere \/ Tick \/ SetBack \/ UNCHANGED vars
    BY <1>2, <1>5 DEF Login, Visit, Elsewhere, Tick, SetBack, vars, calls
  <1>. QED BY <1>3, <1>4, <1>5 DEF Next

\* What a request has recorded so far follows its place in the dispatch, and its
\* last event is of the answer it has been given.
THEOREM EventInvariant == Spec => []EventInv
  <1>1. EventInv /\ [Next]_vars => EventInv'
    BY NextEvents
  <1>. QED BY <1>1, InitEvents, PTL DEF Spec

\* However requests, errors of the store and restarts interleave, and however
\* many they are: the events of a request tell what its caller was told.
THEOREM EventsTell == Spec => []EventsTellAnswers
  <1>1. EventInv => EventsTellAnswers
    <2>. SUFFICES ASSUME EventInv, NEW r \in Reqs
                  PROVE  /\ ~Logged(r) => Mine(r) = {}
                         /\ \A i, j \in Mine(r) : i < j =>
                              events[i].type = "received" /\ events[j].type # "received"
                         /\ Logged(r) /\ pc[r] = "answered" =>
                              /\ \A i \in Mine(r) : events[i].type # "received" =>
                                   /\ events[i].type = IF answer[r].code = "" THEN "completed"
                                                       ELSE "failed"
                                   /\ events[i].code = answer[r].code
                              /\ r \notin lost => \E i, j \in Mine(r) : i # j
                         /\ pc[r] = "gone" => \A i \in Mine(r) : events[i].type = "received"
      BY DEF EventsTellAnswers, Mine, Logged
    <2>1. Traced(r)
      BY DEF EventInv
    <2>. QED BY <2>1 DEF Traced
  <1>. QED BY <1>1, EventInvariant, PTL

-----------------------------------------------------------------------------
(* The answers of the event store *)

\* The ids of the rows that a query matches, and those that come before one.
Ids(es, filter)    == {i \in DOMAIN es : Matches(es[i], filter)}
Ahead(es, ids, i)  == {j \in ids : Earlier(es, j, i)}

\* The order of rows is one: of two rows one is earlier.
LEMMA EarlierIsOrder ==
  ASSUME NEW es, NEW n \in Nat, DOMAIN es = 1..n, \A i \in 1..n : es[i].time \in Int,
         NEW i \in 1..n, NEW j \in 1..n
  PROVE  /\ ~Earlier(es, i, i)
         /\ i # j => Earlier(es, i, j) \/ Earlier(es, j, i)
         /\ ~(Earlier(es, i, j) /\ Earlier(es, j, i))
         /\ \A k \in 1..n : Earlier(es, i, j) /\ Earlier(es, j, k) => Earlier(es, i, k)
  BY DEF Earlier

\* The rows before an earlier one are fewer, and fewer than all.
LEMMA AheadCounts ==
  ASSUME NEW es, NEW n \in Nat, DOMAIN es = 1..n, \A i \in 1..n : es[i].time \in Int,
         NEW ids \in SUBSET (1..n)
  PROVE  /\ IsFiniteSet(ids) /\ Cardinality(ids) \in Nat
         /\ \A i \in ids : Cardinality(Ahead(es, ids, i)) \in 0..(Cardinality(ids) - 1)
         /\ \A i, j \in ids : Earlier(es, i, j) =>
              Cardinality(Ahead(es, ids, i)) < Cardinality(Ahead(es, ids, j))
  <1>0. IsFiniteSet(1..n)
    BY FS_Interval
  <1>1. IsFiniteSet(ids) /\ Cardinality(ids) \in Nat
    BY <1>0, FS_Subset, FS_CardinalityType
  <1>2. ASSUME NEW i \in ids
        PROVE  /\ IsFiniteSet(Ahead(es, ids, i))
               /\ Cardinality(Ahead(es, ids, i)) \in 0..(Cardinality(ids) - 1)
    <2>1. Ahead(es, ids, i) \subseteq ids \ {i}
      BY EarlierIsOrder DEF Ahead
    <2>2. IsFiniteSet(ids \ {i}) /\ Cardinality(ids \ {i}) = Cardinality(ids) - 1
      BY <1>1, FS_RemoveElement
    <2>3. /\ IsFiniteSet(Ahead(es, ids, i))
          /\ Cardinality(Ahead(es, ids, i)) <= Cardinality(ids) - 1
      BY <2>1, <2>2, FS_Subset
    <2>. QED BY <1>1, <2>3, FS_CardinalityType
  <1>3. ASSUME NEW i \in ids, NEW j \in ids, Earlier(es, i, j)
        PROVE  Cardinality(Ahead(es, ids, i)) < Cardinality(Ahead(es, ids, j))
    <2>1. i \in Ahead(es, ids, j)
      BY <1>3 DEF Ahead
    <2>2. Ahead(es, ids, i) \subseteq Ahead(es, ids, j) \ {i}
      BY <1>3, EarlierIsOrder DEF Ahead
    <2>3. /\ IsFiniteSet(Ahead(es, ids, j) \ {i})
          /\ Cardinality(Ahead(es, ids, j) \ {i}) = Cardinality(Ahead(es, ids, j)) - 1
      BY <1>2, <2>1, FS_RemoveElement
    <2>4. Cardinality(Ahead(es, ids, i)) <= Cardinality(Ahead(es, ids, j)) - 1
      BY <2>2, <2>3, FS_Subset
    <2>. QED BY <1>1, <1>2, <2>4
  <1>. QED BY <1>1, <1>2, <1>3

\* A query answers every row that it matches, once, in the order of time.
LEMMA QueryIsSorted ==
  ASSUME NEW es, NEW n \in Nat, DOMAIN es = 1..n, \A i \in 1..n : es[i].time \in Int,
         NEW filter
  PROVE  LET q == Query(es, filter)
             c == Cardinality(Ids(es, filter))
         IN /\ c \in Nat /\ IsFiniteSet(Ids(es, filter))
            /\ q \in [1..c -> Ids(es, filter)]
            /\ \A i \in Ids(es, filter) : \E k \in 1..c : q[k] = i
            /\ \A j, k \in 1..c : j < k => Earlier(es, q[j], q[k])
  <1>. DEFINE ids == Ids(es, filter)  c == Cardinality(ids)  q == Query(es, filter)
              Rank(i) == Cardinality(Ahead(es, ids, i))
              rank == [i \in ids |-> Rank(i) + 1]
  <1>1. ids \in SUBSET (1..n)
    BY DEF Ids
  <1>2. q = [k \in 1..c |-> CHOOSE i \in ids : Rank(i) = k - 1]
    BY DEF Query, Ids, Ahead
  <1>. HIDE DEF ids, q
  <1>3. /\ IsFiniteSet(ids) /\ c \in Nat
        /\ \A i \in ids : Rank(i) \in 0..(c - 1)
        /\ \A i, j \in ids : Earlier(es, i, j) => Rank(i) < Rank(j)
    BY <1>1, AheadCounts
  <1>. HIDE DEF c, Rank
  <1>4. \A i, j \in ids : Rank(i) = Rank(j) => i = j
    <2>. SUFFICES ASSUME NEW i \in ids, NEW j \in ids, i # j PROVE Rank(i) # Rank(j)
      OBVIOUS
    <2>1. Earlier(es, i, j) \/ Earlier(es, j, i)
      BY <1>1, EarlierIsOrder
    <2>2. Rank(i) < Rank(j) \/ Rank(j) < Rank(i)
      BY <1>3, <2>1
    <2>3. Rank(i) \in Int /\ Rank(j) \in Int
      BY <1>3
    <2>. QED BY <2>2, <2>3
  <1>5. rank \in Injection(ids, 1..c)
    BY <1>3, <1>4 DEF Injection, IsInjective
  <1>6a. rank = [i \in ids |-> Rank(i) + 1]
    OBVIOUS
  <1>. HIDE DEF rank
  <1>6. rank \in Surjection(ids, 1..c)
    <2>1. IsFiniteSet(1..c) /\ Cardinality(1..c) = c
      BY <1>3, FS_Interval
    <2>2. Cardinality(ids) = Cardinality(1..c)
      BY <2>1 DEF c
    <2>. DEFINE I == 1..c
    <2>3. rank \in Injection(ids, I) /\ IsFiniteSet(I)
      BY <1>5, <2>1
    <2>4. Cardinality(ids) = Cardinality(I)
      BY <2>2
    <2>. HIDE DEF I
    <2>5. Cardinality(ids) = Cardinality(I) <=> rank \in Surjection(ids, I)
      BY <2>3, FS_Injection
    <2>6. rank \in Surjection(ids, I)
      BY <2>4, <2>5
    <2>. QED BY <2>6 DEF I
  <1>7. \A k \in 1..c : \E i \in ids : Rank(i) = k - 1
    <2>. SUFFICES ASSUME NEW k \in 1..c PROVE \E i \in ids : Rank(i) = k - 1
      OBVIOUS
    <2>1. PICK i \in ids : rank[i] = k
      BY <1>6 DEF Surjection
    <2>2. Rank(i) + 1 = k /\ Rank(i) \in Int
      BY <1>3, <1>6a, <2>1
    <2>. QED BY <2>2
  <1>8. \A k \in 1..c : q[k] \in ids /\ Rank(q[k]) = k - 1
    BY <1>2, <1>7
  <1>9. \A i \in ids : \E k \in 1..c : q[k] = i
    <2>. SUFFICES ASSUME NEW i \in ids PROVE q[Rank(i) + 1] = i /\ Rank(i) + 1 \in 1..c
      OBVIOUS
    <2>1. Rank(i) + 1 \in 1..c /\ (Rank(i) + 1) - 1 = Rank(i)
      BY <1>3
    <2>. QED BY <1>4, <1>8, <2>1
  <1>10. ASSUME NEW j \in 1..c, NEW k \in 1..c, j < k
         PROVE  Earlier(es, q[j], q[k])
    <2>1. q[j] \in ids /\ q[k] \in ids /\ Rank(q[j]) = j - 1 /\ Rank(q[k]) = k - 1
      BY <1>8
    <2>2. q[j] # q[k] /\ ~(Rank(q[k]) < Rank(q[j]))
      BY <2>1, <1>3, <1>10
    <2>3. ~Earlier(es, q[k], q[j])
      BY <2>1, <2>2, <1>3
    <2>4. q[j] \in 1..n /\ q[k] \in 1..n
      BY <2>1, <1>1
    <2>. QED BY <2>2, <2>3, <2>4, EarlierIsOrder
  <1>. QED BY <1>2, <1>3, <1>8, <1>9, <1>10 DEF ids, c, q

\* The answer of a query is a sequence of ids, no two of them the same.
LEMMA QueryIsSeq ==
  ASSUME NEW es, NEW n \in Nat, DOMAIN es = 1..n, \A i \in 1..n : es[i].time \in Int,
         NEW filter
  PROVE  LET q == Query(es, filter)
             c == Cardinality(Ids(es, filter))
         IN /\ q \in Seq(Ids(es, filter)) /\ Len(q) = c
            /\ \A j, k \in 1..c : j # k => q[j] # q[k]
            /\ \A j, k \in 1..c : j < k =>
                 es[q[j]].time \in Int /\ es[q[k]].time \in Int
                 /\ es[q[j]].time <= es[q[k]].time
  <1>. DEFINE ids == Ids(es, filter)  c == Cardinality(ids)  q == Query(es, filter)
  <1>1. /\ c \in Nat /\ q \in [1..c -> ids]
        /\ \A j, k \in 1..c : j < k => Earlier(es, q[j], q[k])
    BY QueryIsSorted
  <1>2. ids \subseteq 1..n
    BY DEF Ids
  <1>. HIDE DEF ids, c, q
  <1>3. q \in Seq(ids) /\ Len(q) = c
    BY <1>1
  <1>4. \A j \in 1..c : q[j] \in 1..n
    BY <1>1, <1>2
  <1>5. ASSUME NEW j \in 1..c, NEW k \in 1..c, j < k
        PROVE  /\ q[j] # q[k] /\ es[q[j]].time \in Int /\ es[q[k]].time \in Int
               /\ es[q[j]].time <= es[q[k]].time
    <2>1. Earlier(es, q[j], q[k]) /\ q[j] \in 1..n /\ q[k] \in 1..n
      BY <1>1, <1>4, <1>5
    <2>2. es[q[j]].time \in Int /\ es[q[k]].time \in Int
      BY <2>1
    <2>. QED BY <2>1, <2>2 DEF Earlier
  <1>6. \A j, k \in 1..c : j # k => q[j] # q[k]
    <2>. SUFFICES ASSUME NEW j \in 1..c, NEW k \in 1..c, j # k PROVE q[j] # q[k]
      OBVIOUS
    <2>1. j < k \/ k < j
      BY <1>1
    <2>. QED BY <2>1, <1>5
  <1>. QED BY <1>3, <1>5, <1>6 DEF ids, c, q

\* A slice from the front is as long as it may be.
LEMMA ShorterIsFront ==
  ASSUME NEW S, NEW s \in Seq(S), NEW n \in Int
  PROVE  LET l == IF n < 0 THEN 0 ELSE IF n < Len(s) THEN n ELSE Len(s)
         IN /\ Shorter(s, n) \in Seq(S) /\ Len(Shorter(s, n)) = l
            /\ DOMAIN Shorter(s, n) = 1..l
            /\ \A i \in 1..l : Shorter(s, n)[i] = s[i]
  <1>. DEFINE m == IF n < Len(s) THEN n ELSE Len(s)
  <1>1. m \in Int /\ \A i \in 1..m : s[i] \in S
    OBVIOUS
  <1>2. Shorter(s, n) = SubSeq(s, 1, m)
    BY DEF Shorter
  <1>3. /\ SubSeq(s, 1, m) \in Seq(S)
        /\ Len(SubSeq(s, 1, m)) = IF 1 <= m THEN m - 1 + 1 ELSE 0
        /\ \A i \in 1..(m - 1 + 1) : SubSeq(s, 1, m)[i] = s[1 + i - 1]
    BY <1>1, SubSeqProperties
  <1>4. Len(s) \in Nat
    OBVIOUS
  <1>5. \A i \in 1..m : SubSeq(s, 1, m)[i] = s[i]
    <2>. SUFFICES ASSUME NEW i \in 1..m PROVE SubSeq(s, 1, m)[i] = s[i]
      OBVIOUS
    <2>1. i \in 1..(m - 1 + 1) /\ 1 + i - 1 = i
      BY <1>1
    <2>. QED BY <1>3, <2>1
  <1>. HIDE DEF m
  <1>6. Len(SubSeq(s, 1, m)) = IF 1 <= m THEN m ELSE 0
    BY <1>1, <1>3
  <1>7. DOMAIN SubSeq(s, 1, m) = 1..Len(SubSeq(s, 1, m))
    BY <1>3
  <1>. QED BY <1>2, <1>3, <1>4, <1>5, <1>6, <1>7 DEF m

LEMMA ReverseIs ==
  ASSUME NEW S, NEW s \in Seq(S)
  PROVE  /\ Reverse(s) \in Seq(S) /\ Len(Reverse(s)) = Len(s)
         /\ \A i \in 1..Len(s) : Reverse(s)[i] = s[Len(s) - i + 1]
  <1>1. \A i \in 1..Len(s) : s[Len(s) - i + 1] \in S
    OBVIOUS
  <1>. QED BY <1>1 DEF Reverse

\* What get_recent_events answers, whatever limit it is called with.
LEMMA NewestFirst ==
  ASSUME NEW es, NEW n \in Nat, DOMAIN es = 1..n, \A i \in 1..n : es[i].time \in Int,
         Len(es) = n, NEW limit \in Int
  PROVE  LET shown == Recent(es, limit)
         IN /\ limit >= 0 => Len(shown) = IF limit < Len(es) THEN limit ELSE Len(es)
            /\ \A i, j \in DOMAIN shown : i < j =>
                 shown[i] # shown[j] /\ es[shown[i]].time >= es[shown[j]].time
            /\ \A i \in Range(shown), k \in DOMAIN es \ Range(shown) :
                 es[k].time <= es[i].time
  <1>. DEFINE ids == Ids(es, NoFilter)  q == Query(es, NoFilter)  newest == Reverse(q)
              shown == Recent(es, limit)
              m == IF limit < 0 THEN Len(newest) + limit ELSE limit
              l == IF m < 0 THEN 0 ELSE IF m < n THEN m ELSE n
  <1>1. ids = 1..n /\ Cardinality(ids) = n
    <2>1. DOMAIN NoFilter = {}
      BY DEF NoFilter
    <2>2. ids = 1..n
      BY <2>1 DEF Ids, Matches
    <2>. QED BY <2>2, FS_Interval
  <1>2. /\ q \in Seq(1..n) /\ Len(q) = n
        /\ \A j, k \in 1..n : j # k => q[j] # q[k]
        /\ \A j, k \in 1..n : j < k =>
             es[q[j]].time \in Int /\ es[q[k]].time \in Int /\ es[q[j]].time <= es[q[k]].time
    BY <1>1, QueryIsSeq
  <1>3. \A i \in 1..n : \E k \in 1..n : q[k] = i
    BY <1>1, QueryIsSorted
  <1>. HIDE DEF ids, q
  <1>4. /\ newest \in Seq(1..n) /\ Len(newest) = n
        /\ \A i \in 1..n : newest[i] = q[n - i + 1]
        /\ \A i \in 1..n : newest[i] \in 1..n
    <2>1. /\ newest \in Seq(1..n) /\ Len(newest) = n
          /\ \A i \in 1..n : newest[i] = q[n - i + 1]
      BY <1>2, ReverseIs
    <2>. HIDE DEF newest
    <2>. QED BY <2>1
  <1>5. /\ \A j, k \in 1..n : j # k => newest[j] # newest[k]
        /\ \A j, k \in 1..n : j < k => es[newest[j]].time >= es[newest[k]].time
        /\ \A i \in 1..n : \E k \in 1..n : newest[k] = i
    <2>1. \A j, k \in 1..n : j < k => n - k + 1 < n - j + 1 /\ n - k + 1 \in 1..n /\ n - j + 1 \in 1..n
      OBVIOUS
    <2>2. ASSUME NEW j \in 1..n, NEW k \in 1..n, j < k
          PROVE  newest[j] # newest[k] /\ es[newest[j]].time >= es[newest[k]].time
      <3>1. n - k + 1 < n - j + 1 /\ n - k + 1 \in 1..n /\ n - j + 1 \in 1..n
        BY <2>1, <2>2
      <3>2. newest[j] = q[n - j + 1] /\ newest[k] = q[n - k + 1]
        BY <1>4
      <3>3. q[n - k + 1] # q[n - j + 1]
        BY <3>1, <1>2
      <3>4. /\ es[q[n - k + 1]].time \in Int /\ es[q[n - j + 1]].time \in Int
            /\ es[q[n - k + 1]].time <= es[q[n - j + 1]].time
        BY <3>1, <1>2
      <3>. QED BY <3>2, <3>3, <3>4
    <2>3. ASSUME NEW i \in 1..n PROVE \E k \in 1..n : newest[k] = i
      <3>1. PICK k \in 1..n : q[k] = i
        BY <1>3
      <3>2. n - k + 1 \in 1..n /\ n - (n - k + 1) + 1 = k
        OBVIOUS
      <3>. QED BY <3>1, <3>2, <1>4
    <2>4. \A j, k \in 1..n : j # k => j < k \/ k < j
      OBVIOUS
    <2>. QED BY <2>2, <2>3, <2>4
  <1>. HIDE DEF newest
  <1>6. shown = Shorter(newest, m) /\ m \in Int
    BY <1>4 DEF Recent, newest, q
  <1>. HIDE DEF shown, m
  <1>7. /\ Len(shown) = l /\ DOMAIN shown = 1..l /\ l \in 0..n
        /\ \A i \in 1..l : shown[i] = newest[i]
    <2>1. l = IF m < 0 THEN 0 ELSE IF m < Len(newest) THEN m ELSE Len(newest)
      BY <1>4
    <2>2. l \in 0..n
      BY <1>6
    <2>. HIDE DEF l
    <2>3. /\ Len(Shorter(newest, m)) = l /\ DOMAIN Shorter(newest, m) = 1..l
          /\ \A i \in 1..l : Shorter(newest, m)[i] = newest[i]
      BY <1>4, <1>6, <2>1, ShorterIsFront
    <2>. QED BY <1>6, <2>2, <2>3
  <1>8. limit >= 0 => Len(shown) = IF limit < Len(es) THEN limit ELSE Len(es)
    BY <1>7 DEF m
  <1>. HIDE DEF l
  <1>9. \A i, j \in 1..l : i < j => shown[i] # shown[j] /\ es[shown[i]].time >= es[shown[j]].time
    <2>. SUFFICES ASSUME NEW i \in 1..l, NEW j \in 1..l, i < j
                  PROVE  shown[i] # shown[j] /\ es[shown[i]].time >= es[shown[j]].time
      OBVIOUS
    <2>1. i \in 1..n /\ j \in 1..n /\ i # j
      BY <1>7
    <2>2. shown[i] = newest[i] /\ shown[j] = newest[j]
      BY <1>7
    <2>. QED BY <1>5, <2>1, <2>2
  <1>10. ASSUME NEW i \in Range(shown), NEW k \in DOMAIN es \ Range(shown)
         PROVE  es[k].time <= es[i].time
    <2>1. PICK a \in 1..l : i = newest[a]
      BY <1>7 DEF Range
    <2>2. PICK b \in 1..n : k = newest[b]
      BY <1>5
    <2>3. b \notin 1..l
      BY <1>7, <2>2 DEF Range
    <2>4. a < b /\ a \in 1..n
      BY <2>3, <1>7
    <2>5. es[newest[a]].time >= es[newest[b]].time
      BY <2>4, <1>5
    <2>6. newest[a] \in 1..n /\ newest[b] \in 1..n
      BY <1>4, <2>4
    <2>7. es[newest[a]].time \in Int /\ es[newest[b]].time \in Int
      BY <2>6
    <2>. QED BY <2>1, <2>2, <2>5, <2>7
  <1>. QED BY <1>7, <1>8, <1>9, <1>10 DEF shown

\* What build_log_report puts into a report.
LEMMA OldestFirst ==
  ASSUME NEW es, NEW n \in Nat, DOMAIN es = 1..n, \A i \in 1..n : es[i].time \in Int,
         NEW filter, NEW max \in Int
  PROVE  LET rep  == Report(es, filter, max)
             rest == Ids(es, filter) \ Range(rep.lines)
         IN /\ Len(rep.lines) <= DEFAULT_MAX_LINES
            /\ rep.total = Len(rep.lines) + Cardinality(rest)
            /\ rep.truncated <=> rest # {}
            /\ \A i \in Range(rep.lines), k \in rest : es[i].time <= es[k].time
  <1>. DEFINE ids == Ids(es, filter)  q == Query(es, filter)  c == Cardinality(ids)
              m == MaxLines(max)  lines == Shorter(q, m)
              l == IF m < 0 THEN 0 ELSE IF m < Len(q) THEN m ELSE Len(q)
              rest == ids \ Range(lines)
  <1>1. /\ c \in Nat /\ q \in Seq(ids) /\ Len(q) = c
        /\ \A i \in ids : \E k \in 1..c : q[k] = i
        /\ \A j, k \in 1..c : j # k => q[j] # q[k]
        /\ \A j, k \in 1..c : j < k =>
             es[q[j]].time \in Int /\ es[q[k]].time \in Int /\ es[q[j]].time <= es[q[k]].time
    <2>1. c \in Nat /\ \A i \in ids : \E k \in 1..c : q[k] = i
      BY QueryIsSorted
    <2>2. /\ q \in Seq(ids) /\ Len(q) = c
          /\ \A j, k \in 1..c : j # k => q[j] # q[k]
          /\ \A j, k \in 1..c : j < k =>
               es[q[j]].time \in Int /\ es[q[k]].time \in Int
               /\ es[q[j]].time <= es[q[k]].time
      BY QueryIsSeq
    <2>. HIDE DEF ids, q, c
    <2>. QED BY <2>1, <2>2
  <1>2. m \in 1..DEFAULT_MAX_LINES /\ DEFAULT_MAX_LINES \in Nat
    BY LinesAssumption DEF MaxLines
  <1>. HIDE DEF ids, q, c, m
  <1>3. /\ Len(lines) = l /\ DOMAIN lines = 1..l
        /\ \A i \in 1..l : lines[i] = q[i]
    BY <1>1, <1>2, ShorterIsFront
  <1>4. l = (IF m < c THEN m ELSE c) /\ c \in Nat /\ l \in 0..c /\ l <= DEFAULT_MAX_LINES
    BY <1>1, <1>2
  <1>. HIDE DEF l, lines
  <1>5. Range(lines) = {q[j] : j \in 1..l}
    BY <1>3 DEF Range
  <1>6. rest = {q[j] : j \in (l + 1)..c}
    <2>1. ASSUME NEW i \in rest PROVE i \in {q[j] : j \in (l + 1)..c}
      <3>1. PICK k \in 1..c : q[k] = i
        BY <1>1
      <3>2. k \notin 1..l
        BY <1>5, <3>1
      <3>. QED BY <3>1, <3>2, <1>4
    <2>2. ASSUME NEW j \in (l + 1)..c PROVE q[j] \in rest
      <3>1. j \in 1..c /\ \A k \in 1..l : k \in 1..c /\ k # j
        BY <1>4
      <3>2. q[j] \in ids
        BY <3>1, <1>1
      <3>3. q[j] \notin Range(lines)
        BY <1>1, <1>5, <3>1
      <3>. QED BY <3>2, <3>3
    <2>. QED BY <2>1, <2>2
  <1>. HIDE DEF rest
  <1>7. IsFiniteSet((l + 1)..c) /\ Cardinality((l + 1)..c) = c - l
    <2>1. l + 1 \in Int /\ c \in Int /\ l \in Int /\ l <= c
      BY <1>4
    <2>2. /\ IsFiniteSet((l + 1)..c)
          /\ Cardinality((l + 1)..c) = IF l + 1 > c THEN 0 ELSE c - (l + 1) + 1
      BY <2>1, FS_Interval
    <2>. QED BY <2>1, <2>2
  <1>8. Cardinality(rest) = c - l
    <2>. DEFINE f == [j \in (l + 1)..c |-> q[j]]
    <2>1. f \in Bijection((l + 1)..c, rest)
      <3>1. f \in [(l + 1)..c -> rest] /\ \A i \in rest : \E j \in (l + 1)..c : f[j] = i
        BY <1>6
      <3>2. \A j, k \in (l + 1)..c : f[j] = f[k] => j = k
        BY <1>1, <1>4
      <3>. QED BY <3>1, <3>2 DEF Bijection, Injection, Surjection, IsInjective
    <2>. HIDE DEF f
    <2>2. ExistsBijection((l + 1)..c, rest)
      BY <2>1 DEF ExistsBijection
    <2>. QED BY <1>7, <2>2, FS_Bijection
  <1>9. Report(es, filter, max) = [lines |-> lines, total |-> c, truncated |-> c > m]
    BY <1>1 DEF Report, lines, q, m
  <1>10. c > m <=> rest # {}
    <2>1. c > m <=> l < c
      BY <1>1, <1>2, <1>4
    <2>2. l < c <=> (l + 1)..c # {}
      <3>1. l < c => c \in (l + 1)..c
        BY <1>4
      <3>2. ~(l < c) => \A i \in (l + 1)..c : FALSE
        BY <1>4
      <3>. QED BY <3>1, <3>2
    <2>. QED BY <2>1, <2>2, <1>6
  <1>11. ASSUME NEW i \in Range(lines), NEW k \in rest PROVE es[i].time <= es[k].time
    <2>1. PICK a \in 1..l : i = q[a]
      BY <1>5
    <2>2. PICK b \in (l + 1)..c : k = q[b]
      BY <1>6
    <2>3. a < b /\ a \in 1..c /\ b \in 1..c
      BY <1>4
    <2>. QED BY <2>1, <2>2, <2>3, <1>1
  <1>12. c = l + (c - l)
    BY <1>1, <1>4
  <1>13. /\ Len(lines) <= DEFAULT_MAX_LINES /\ c = Len(lines) + Cardinality(rest)
         /\ (c > m) <=> rest # {}
    BY <1>3, <1>4, <1>8, <1>10, <1>12
  <1>. DEFINE rep == Report(es, filter, max)
  <1>14. rep.lines = lines /\ rep.total = c /\ rep.truncated = (c > m)
    BY <1>9
  <1>. HIDE DEF rep
  <1>15. Ids(es, filter) \ Range(rep.lines) = rest
    BY <1>14 DEF rest, ids
  <1>. QED BY <1>11, <1>13, <1>14, <1>15 DEF rep

-----------------------------------------------------------------------------
(* The error timeline *)

\* Every set of natural numbers that is not empty has a least element.
LEMMA LeastNat ==
  ASSUME NEW S \in SUBSET Nat, S # {}
  PROVE  \E x \in S : \A y \in S : x <= y
  <1>. DEFINE R == {s \in Nat \X Nat : s[1] < s[2]}
  <1>1. R = OpToRel(<, Nat)
    BY DEF OpToRel
  <1>2. IsWellFoundedOn(R, Nat)
    BY <1>1, NatLessThanWellFounded
  <1>3. \A x, y \in Nat : y < x => <<y, x>> \in R
    OBVIOUS
  <1>. HIDE DEF R
  <1>4. PICK x \in S : \A y \in S : ~ (<<y, x>> \in R)
    BY <1>2, WFMin
  <1>5. \A y \in S : y \in Nat /\ x \in Nat /\ ~(y < x)
    BY <1>3, <1>4
  <1>. QED BY <1>5

\* Induction, for a set instead of a predicate.
LEMMA NatSet ==
  ASSUME NEW S \in SUBSET Nat, 0 \in S, \A n \in S : n + 1 \in S
  PROVE  S = Nat
  <1>. SUFFICES ASSUME Nat \ S # {} PROVE FALSE
    OBVIOUS
  <1>1. PICK x \in Nat \ S : \A y \in Nat \ S : x <= y
    BY LeastNat
  <1>2. x # 0 /\ x - 1 \in Nat /\ ~(x <= x - 1)
    BY <1>1
  <1>3. x - 1 \in S
    BY <1>1, <1>2
  <1>4. (x - 1) + 1 \in S
    BY <1>3
  <1>. QED BY <1>1, <1>4

\* The groups after every turn of the loop over the rows ids.
IsTurns(es, ids, m, t) ==
  t = [k \in 0..m |-> IF k = 0 THEN {} ELSE Grouped(t[k - 1], es[ids[k]])]

\* There are such groups.
LEMMA TurnsExist ==
  ASSUME NEW es, NEW ids, NEW m \in Nat
  PROVE  \E t : IsTurns(es, ids, m, t)
  <1>. DEFINE S == {k \in Nat : \E t : IsTurns(es, ids, k, t)}
  <1>1. 0 \in S
    <2>1. IsTurns(es, ids, 0, [k \in 0..0 |-> {}])
      BY DEF IsTurns
    <2>. QED BY <2>1
  <1>2. ASSUME NEW n \in S PROVE n + 1 \in S
    <2>1. n \in Nat
      OBVIOUS
    <2>2. PICK t : IsTurns(es, ids, n, t)
      OBVIOUS
    <2>. DEFINE u == [k \in 0..(n + 1) |-> IF k = n + 1 THEN Grouped(t[n], es[ids[n + 1]])
                                           ELSE t[k]]
    <2>3. ASSUME NEW k \in 0..(n + 1)
          PROVE  u[k] = IF k = 0 THEN {} ELSE Grouped(u[k - 1], es[ids[k]])
      <3>1. CASE k = n + 1
        <4>1. k - 1 = n /\ n \in 0..(n + 1) /\ n # n + 1 /\ k # 0
          BY <2>1, <3>1
        <4>2. u[n] = t[n] /\ u[k] = Grouped(t[n], es[ids[k]])
          BY <3>1, <4>1
        <4>. QED BY <4>1, <4>2
      <3>2. CASE k # n + 1
        <4>1. k \in 0..n /\ u[k] = t[k]
          BY <2>1, <3>2
        <4>2. k # 0 => k - 1 \in 0..(n + 1) /\ k - 1 # n + 1 /\ u[k - 1] = t[k - 1]
          BY <2>1, <4>1
        <4>3. t[k] = IF k = 0 THEN {} ELSE Grouped(t[k - 1], es[ids[k]])
          BY <2>2, <4>1 DEF IsTurns
        <4>. QED BY <4>1, <4>2, <4>3
      <3>. QED BY <3>1, <3>2
    <2>4. DOMAIN u = 0..(n + 1)
      OBVIOUS
    <2>5. u = [k \in 0..(n + 1) |-> u[k]]
      OBVIOUS
    <2>. HIDE DEF u
    <2>6. u = [k \in 0..(n + 1) |-> IF k = 0 THEN {} ELSE Grouped(u[k - 1], es[ids[k]])]
      BY <2>3, <2>5
    <2>. QED BY <2>1, <2>6 DEF IsTurns
  <1>. HIDE DEF S
  <1>3. S \in SUBSET Nat
    BY DEF S
  <1>4. S = Nat
    BY <1>1, <1>2, <1>3, NatSet
  <1>. QED BY <1>4 DEF S

InEntry(es, i, g) == ErrorCode(es[i]) = g.code /\ es[i].type = g.type

\* The groups count the rows of T: each is in one, which knows how many it has
\* and when the first was.
CountsRows(es, T, groups) ==
  /\ \A g \in groups : DOMAIN g = {"code", "type", "count", "first"} /\ g.first \in Int
  /\ \A i \in T : \E g \in groups : InEntry(es, i, g)
  /\ \A g, h \in groups : g.code = h.code /\ g.type = h.type => g = h
  /\ \A g \in groups :
       /\ g.count = Cardinality({i \in T : InEntry(es, i, g)})
       /\ \A i \in T : InEntry(es, i, g) => g.first <= es[i].time

\* A turn of the loop adds its row to what is counted.
LEMMA GroupedCounts ==
  ASSUME NEW es, NEW n \in Nat, \A i \in 1..n : es[i].time \in Int,
         NEW T \in SUBSET (1..n), NEW groups, CountsRows(es, T, groups),
         NEW i \in (1..n) \ T
  PROVE  CountsRows(es, T \cup {i}, Grouped(groups, es[i]))
  <1>. DEFINE e   == es[i]
              old == {g \in groups : g.code = ErrorCode(e) /\ g.type = e.type}
              U   == T \cup {i}
              new == Grouped(groups, e)
              Of(V, g) == {j \in V : InEntry(es, j, g)}
  <1>0. /\ e.time \in Int /\ \A j \in T : es[j].time \in Int
        /\ \A g \in groups : DOMAIN g = {"code", "type", "count", "first"} /\ g.first \in Int
    BY DEF CountsRows
  <1>1. IsFiniteSet(T)
    <2>1. IsFiniteSet(1..n)
      BY FS_Interval
    <2>. QED BY <2>1, FS_Subset
  <1>2. \A g : IsFiniteSet(Of(T, g)) /\ Cardinality(Of(T, g)) \in Nat /\ i \notin Of(T, g)
    BY <1>1, FS_Subset, FS_CardinalityType
  <1>3. ASSUME NEW g, InEntry(es, i, g)
        PROVE  Cardinality(Of(U, g)) = Cardinality(Of(T, g)) + 1
    <2>1. Of(U, g) = Of(T, g) \cup {i}
      BY <1>3
    <2>2. IsFiniteSet(Of(T, g)) /\ i \notin Of(T, g)
      BY <1>2
    <2>. HIDE DEF Of
    <2>3. Cardinality(Of(T, g) \cup {i}) = Cardinality(Of(T, g)) + 1
      BY <2>2, FS_AddElement
    <2>. QED BY <2>1, <2>3
  <1>4. \A g : ~InEntry(es, i, g) => Of(U, g) = Of(T, g)
    OBVIOUS
  <1>5. CASE old = {}
    <2>. DEFINE h == [code |-> ErrorCode(e), type |-> e.type, count |-> 1, first |-> e.time]
    <2>1. new = groups \cup {h}
      BY <1>5 DEF Grouped
    <2>2. InEntry(es, i, h) /\ h.count = 1 /\ h.first = e.time
          /\ DOMAIN h = {"code", "type", "count", "first"}
      BY DEF InEntry
    <2>3. \A g \in groups : ~InEntry(es, i, g)
      BY <1>5 DEF InEntry
    <2>4. Of(T, h) = {}
      <3>. SUFFICES ASSUME NEW j \in T, InEntry(es, j, h) PROVE FALSE
        OBVIOUS
      <3>1. PICK g \in groups : InEntry(es, j, g)
        BY DEF CountsRows
      <3>2. g \in old
        BY <3>1 DEF InEntry
      <3>. QED BY <1>5, <3>2
    <2>5. \A g \in groups : ~(g.code = h.code /\ g.type = h.type)
      BY <2>3 DEF InEntry
    <2>6. Cardinality(Of(U, h)) = 1
      BY <1>3, <2>2, <2>4, FS_EmptySet
    <2>. HIDE DEF h, new
    <2>7. \A j \in U : \E g \in new : InEntry(es, j, g)
      BY <2>1, <2>2 DEF CountsRows
    <2>8. \A f, g \in new : f.code = g.code /\ f.type = g.type => f = g
      BY <2>1, <2>5 DEF CountsRows
    <2>9. ASSUME NEW g \in new
          PROVE  /\ g.count = Cardinality(Of(U, g))
                 /\ \A j \in U : InEntry(es, j, g) => g.first <= es[j].time
                 /\ DOMAIN g = {"code", "type", "count", "first"} /\ g.first \in Int
      <3>1. CASE g = h
        <4>1. \A j \in T : ~InEntry(es, j, h)
          BY <2>4
        <4>. QED BY <1>0, <2>2, <2>6, <3>1, <4>1
      <3>2. CASE g \in groups
        BY <1>0, <1>4, <2>3, <3>2 DEF CountsRows
      <3>. QED BY <2>1, <3>1, <3>2
    <2>. QED BY <2>7, <2>8, <2>9 DEF CountsRows, new
  <1>6. CASE old # {}
    <2>. DEFINE g0 == CHOOSE g \in old : TRUE
                h == [g0 EXCEPT !.count = @ + 1,
                                !.first = IF e.time < @ THEN e.time ELSE @]
    <2>1. new = (groups \ {g0}) \cup {h}
      BY <1>6 DEF Grouped
    <2>2. g0 \in groups /\ InEntry(es, i, g0)
      BY <1>6 DEF InEntry
    <2>. HIDE DEF g0
    <2>3. /\ DOMAIN h = {"code", "type", "count", "first"} /\ h.first \in Int
          /\ h.code = g0.code /\ h.type = g0.type /\ h.count = g0.count + 1
          /\ h.first <= g0.first /\ h.first <= e.time
      BY <1>0, <2>2
    <2>. HIDE DEF h, new
    <2>4. \A j : InEntry(es, j, h) <=> InEntry(es, j, g0)
      BY <2>3 DEF InEntry
    <2>5. Of(U, h) = Of(U, g0)
      BY <2>4
    <2>6. \A g \in groups \ {g0} : ~InEntry(es, i, g)
      BY <2>2 DEF CountsRows, InEntry
    <2>7. \A j \in U : \E g \in new : InEntry(es, j, g)
      BY <2>1, <2>2, <2>4 DEF CountsRows
    <2>8. \A f, g \in new : f.code = g.code /\ f.type = g.type => f = g
      BY <2>1, <2>2, <2>3 DEF CountsRows
    <2>9. ASSUME NEW g \in new
          PROVE  /\ g.count = Cardinality(Of(U, g))
                 /\ \A j \in U : InEntry(es, j, g) => g.first <= es[j].time
                 /\ DOMAIN g = {"code", "type", "count", "first"} /\ g.first \in Int
      <3>1. CASE g = h
        <4>1. g0.count = Cardinality(Of(T, g0))
          BY <2>2 DEF CountsRows
        <4>2. h.count = Cardinality(Of(U, h))
          BY <1>3, <2>2, <2>3, <2>5, <4>1
        <4>3. \A j \in T : InEntry(es, j, h) => g0.first <= es[j].time
          BY <2>2, <2>4 DEF CountsRows
        <4>4. \A j \in T : InEntry(es, j, h) => h.first <= es[j].time
          BY <1>0, <2>2, <2>3, <4>3
        <4>. QED BY <2>3, <3>1, <4>2, <4>4
      <3>2. CASE g \in groups \ {g0}
        BY <1>0, <1>4, <2>6, <3>2 DEF CountsRows
      <3>. QED BY <2>1, <3>1, <3>2
    <2>. QED BY <2>7, <2>8, <2>9 DEF CountsRows, new
  <1>. QED BY <1>5, <1>6

\* What get_error_timeline answers: the errors of the range, each in one group.
LEMMA TimelineCounts ==
  ASSUME NEW es, NEW n \in Nat, DOMAIN es = 1..n, \A i \in 1..n : es[i].time \in Int,
         NEW from, NEW to
  PROVE  CountsRows(es, Ids(es, [from |-> from, to |-> to, severity |-> "ERROR"]),
                    Timeline(es, from, to))
  <1>. DEFINE filter == [from |-> from, to |-> to, severity |-> "ERROR"]
              ids == Ids(es, filter)  q == Query(es, filter)  c == Cardinality(ids)
              m == Len(q)
              turns == CHOOSE t : IsTurns(es, q, m, t)
              Done(k) == {q[j] : j \in 1..k}
              S == {k \in Nat : k <= m => CountsRows(es, Done(k), turns[k])}
  <1>1. Timeline(es, from, to) = turns[m]
    BY DEF Timeline, IsTurns
  <1>. HIDE DEF filter
  <1>2. /\ c \in Nat /\ m = c /\ \A j \in 1..c : q[j] \in ids
        /\ \A i \in ids : \E k \in 1..c : q[k] = i
        /\ \A j, k \in 1..c : j # k => q[j] # q[k]
    <2>1. /\ c \in Nat /\ q \in [1..c -> ids]
          /\ \A i \in ids : \E k \in 1..c : q[k] = i
      BY QueryIsSorted
    <2>2. m = c /\ \A j, k \in 1..c : j # k => q[j] # q[k]
      BY QueryIsSeq
    <2>. HIDE DEF ids, q, c, m
    <2>. QED BY <2>1, <2>2
  <1>3. ids \subseteq 1..n
    BY DEF Ids
  <1>. HIDE DEF ids, q, c, m
  <1>4. m \in Nat
    BY <1>2
  <1>5. IsTurns(es, q, m, turns)
    BY <1>4, TurnsExist
  <1>. HIDE DEF turns
  <1>6. 0 \in S
    <2>1. turns[0] = {}
      BY <1>4, <1>5 DEF IsTurns
    <2>2. Done(0) = {}
      OBVIOUS
    <2>3. CountsRows(es, {}, {})
      BY DEF CountsRows
    <2>. QED BY <2>1, <2>2, <2>3
  <1>7. ASSUME NEW k \in S PROVE k + 1 \in S
    <2>1. k \in Nat /\ k + 1 \in Nat
      OBVIOUS
    <2>. SUFFICES ASSUME k + 1 <= m PROVE CountsRows(es, Done(k + 1), turns[k + 1])
      BY <2>1
    <2>2. k <= m /\ k + 1 \in 1..c /\ k + 1 \in 0..m /\ k + 1 # 0
      BY <1>2, <2>1
    <2>3. CountsRows(es, Done(k), turns[k])
      BY <2>2
    <2>4. \A j \in 1..k : j \in 1..c /\ j # k + 1
      BY <1>2, <2>1, <2>2
    <2>5. \A j \in 1..c : q[j] \in 1..n
      BY <1>2, <1>3
    <2>6. Done(k) \in SUBSET (1..n) /\ q[k + 1] \in (1..n) \ Done(k)
      BY <1>2, <2>2, <2>4, <2>5
    <2>7. Done(k + 1) = Done(k) \cup {q[k + 1]}
      <3>1. 1..(k + 1) = (1..k) \cup {k + 1}
        BY <2>1
      <3>. QED BY <3>1
    <2>8. turns[k + 1] = Grouped(turns[k], es[q[k + 1]])
      <3>1. (k + 1) - 1 = k
        BY <2>1
      <3>. QED BY <1>5, <2>2, <3>1 DEF IsTurns
    <2>. HIDE DEF Done
    <2>9. CountsRows(es, Done(k) \cup {q[k + 1]}, Grouped(turns[k], es[q[k + 1]]))
      BY <2>3, <2>6, GroupedCounts
    <2>. QED BY <2>7, <2>8, <2>9
  <1>8. S = Nat
    <2>1. S \in SUBSET Nat
      OBVIOUS
    <2>. HIDE DEF S
    <2>. QED BY <1>6, <1>7, <2>1, NatSet
  <1>9. Done(m) = ids
    BY <1>2
  <1>10. CountsRows(es, Done(m), turns[m])
    <2>1. m \in S
      BY <1>4, <1>8
    <2>. QED BY <1>4, <2>1
  <1>. QED BY <1>1, <1>9, <1>10 DEF ids, filter

-----------------------------------------------------------------------------
(* What the admin pages make of the events *)

\* The store is what the lemmas on queries ask for.
LEMMA StoreIsRows ==
  ASSUME TypeOK
  PROVE  /\ Len(events) \in Nat /\ DOMAIN events = 1..Len(events)
         /\ \A i \in 1..Len(events) : events[i].time \in Int
  <1>1. events \in Seq(Rows)
    BY DEF TypeOK, Rows, EventTypes
  <1>2. \A i \in 1..Len(events) : events[i] \in Rows
    BY <1>1
  <1>. QED BY <1>1, <1>2 DEF Rows, Events

\* Whatever is in the store and however the clock went, the events page shows
\* the newest events, newest first, and as many as it can.
THEOREM RecentPage == Spec => []RecentAreNewest
  <1>1. TypeOK => RecentAreNewest
    <2>. SUFFICES ASSUME TypeOK, NEW n \in -1..3
                  PROVE  LET shown == Recent(events, n)
                         IN /\ n >= 0 => Len(shown) = IF n < Len(events) THEN n ELSE Len(events)
                            /\ \A i, j \in DOMAIN shown : i < j =>
                                 shown[i] # shown[j]
                                 /\ events[shown[i]].time >= events[shown[j]].time
                            /\ \A i \in Range(shown), k \in DOMAIN events \ Range(shown) :
                                 events[k].time <= events[i].time
      BY DEF RecentAreNewest
    <2>1. n \in Int
      OBVIOUS
    <2>. QED BY <2>1, StoreIsRows, NewestFirst
  <1>. QED BY <1>1, TypesHold, PTL

\* A report is the oldest of what it matches, whatever the limit.
THEOREM ReportsAreOldest == Spec => []ReportKeepsOldest
  <1>1. TypeOK => ReportKeepsOldest
    <2>. SUFFICES ASSUME TypeOK, NEW n \in 0..(DEFAULT_MAX_LINES + 1), NEW r \in Reqs \cup {"all"}
                  PROVE  LET filter == IF r = "all" THEN NoFilter ELSE [trace |-> r]
                             rep    == Report(events, filter, n)
                             rest   == Ids(events, filter) \ Range(rep.lines)
                         IN /\ Len(rep.lines) <= DEFAULT_MAX_LINES
                            /\ rep.total = Len(rep.lines) + Cardinality(rest)
                            /\ rep.truncated <=> rest # {}
                            /\ \A i \in Range(rep.lines), k \in rest :
                                 events[i].time <= events[k].time
      BY DEF ReportKeepsOldest, Ids
    <2>1. n \in Int
      OBVIOUS
    <2>. QED BY <2>1, StoreIsRows, OldestFirst
  <1>. QED BY <1>1, TypesHold, PTL

\* The error page, the dashboard and the report count the same errors,
\* however many there are, and the error page each of them once.
THEOREM ErrorsAreCounted == Spec => []ErrorsAddUp
  <1>. DEFINE Errors(f, t) == {i \in DOMAIN events :
                                 events[i].severity = "ERROR" /\ events[i].time \in f..t}
  <1>1. ASSUME TypeOK, NEW f \in Times, NEW t \in Times
        PROVE  LET entries == Timeline(events, f, t)
                   Of(g) == {i \in Errors(f, t) :
                              ErrorCode(events[i]) = g.code /\ events[i].type = g.type}
               IN /\ UNION {Of(g) : g \in entries} = Errors(f, t)
                  /\ \A g \in entries :
                       /\ g.count = Cardinality(Of(g))
                       /\ \A i \in Of(g) : g.first <= events[i].time
                  /\ \A g, h \in entries : g # h => Of(g) \cap Of(h) = {}
    <2>. DEFINE entries == Timeline(events, f, t)
                filter  == [from |-> f, to |-> t, severity |-> "ERROR"]
                Of(g) == {i \in Errors(f, t) :
                           ErrorCode(events[i]) = g.code /\ events[i].type = g.type}
    <2>1. f \in Int /\ t \in Int
      BY <1>1, StoreIsRows DEF Times
    <2>2. Ids(events, filter) = Errors(f, t)
      <3>1. DOMAIN filter = {"from", "to", "severity"}
        OBVIOUS
      <3>2. ASSUME NEW i \in DOMAIN events
            PROVE  Matches(events[i], filter) <=>
                     /\ events[i].time >= f /\ events[i].time <= t
                     /\ events[i].severity = "ERROR"
        BY <3>1 DEF Matches
      <3>3. \A i \in DOMAIN events : events[i].time \in Int
        BY <1>1, StoreIsRows
      <3>. QED BY <2>1, <3>2, <3>3 DEF Ids
    <2>3. CountsRows(events, Errors(f, t), entries)
      BY <1>1, <2>2, StoreIsRows, TimelineCounts
    <2>4. \A g : Of(g) = {i \in Errors(f, t) : InEntry(events, i, g)}
      BY DEF InEntry
    <2>. HIDE DEF entries, Errors
    <2>5. UNION {Of(g) : g \in entries} = Errors(f, t)
      BY <2>3, <2>4 DEF CountsRows
    <2>6. \A g \in entries :
            /\ g.count = Cardinality(Of(g))
            /\ \A i \in Of(g) : g.first <= events[i].time
      BY <2>3, <2>4 DEF CountsRows
    <2>7. \A g, h \in entries : g # h => Of(g) \cap Of(h) = {}
      BY <2>3 DEF CountsRows
    <2>. QED BY <2>5, <2>6, <2>7 DEF entries
  <1>2. ASSUME TypeOK
        PROVE  Summary(events).errors = Report(events, [severity |-> "ERROR"], 0).total
    <2>. DEFINE filter == [severity |-> "ERROR"]
    <2>1. Ids(events, filter) = {i \in DOMAIN events : events[i].severity = "ERROR"}
      <3>1. DOMAIN filter = {"severity"}
        OBVIOUS
      <3>2. \A i \in DOMAIN events : Matches(events[i], filter) <=> events[i].severity = "ERROR"
        BY <3>1 DEF Matches
      <3>. QED BY <3>2 DEF Ids
    <2>2. Len(Query(events, filter)) = Cardinality(Ids(events, filter))
      BY <1>2, StoreIsRows, QueryIsSeq
    <2>. QED BY <2>1, <2>2 DEF Summary, Report
  <1>3. TypeOK => ErrorsAddUp
    BY <1>1, <1>2 DEF ErrorsAddUp
  <1>. QED BY <1>3, TypesHold, PTL
=============================================================================
