------------------------- MODULE MemBankInit_proofs -------------------------
(***************************************************************************)
(* Theorems about MemBankInit for every number of server processes, every  *)
(* set of foreign directories and every bound.                             *)
(***************************************************************************)
EXTENDS MemBankInit, TLAPS

\* What the types of the variables have to say.
Shape ==
  /\ at \in [Keys -> {"none", "dir", "file"}]
  /\ pc \in [Procs -> Labels]
  /\ DOMAIN call = Procs /\ call = [p \in Procs |-> call[p]]
  /\ plan \in [Procs -> [dirs: SUBSET Keys, project: BOOLEAN]]
  /\ taken \in [Procs -> SUBSET Items]
  /\ event \in [Procs -> SUBSET Items]
  /\ made \in [Procs -> SUBSET Items]
  /\ looked \in [Procs -> BOOLEAN]
  /\ calm \in [Procs -> BOOLEAN]
  /\ lacked \in [Procs -> SUBSET Items]
  /\ erred \in [Procs -> SUBSET {"look", "plan"}]
  /\ env \in [outside: Nat, faults: Nat]

\* A call that makes things is an apply that found the vault fit, or could
\* not list it.
Fitness(p) ==
  /\ pc[p] = "plan" => call[p].mode \in {"dry_run", "apply"}
  /\ pc[p] = "plan" /\ call[p].mode = "apply" => looked[p] \/ "look" \in erred[p]
  /\ pc[p] = "make" => looked[p] \/ "look" \in erred[p]

\* What a call has planned was missing, or it could not see it; and what it
\* has made is among its completed actions.
Honesty(p) ==
  /\ pc[p] \in {"idle", "look", "plan"} => taken[p] = {} /\ made[p] = {}
  /\ made[p] \subseteq taken[p]
  /\ pc[p] \in {"make", "audit"} =>
       \/ "plan" \in erred[p]
       \/ /\ taken[p] \cup plan[p].dirs \subseteq lacked[p]
          /\ pc[p] = "make" /\ plan[p].project => Projection \in lacked[p]

\* What is not, or no longer, in the plan of a call exists, unless somebody
\* deletes it.
Progress(p) ==
  /\ pc[p] \in {"audit", "applied"} => plan[p].dirs = {}
  /\ calm[p] /\ pc[p] \in {"make", "audit", "applied"} =>
       \A k \in Keys \ plan[p].dirs : at[k] = "dir"
  /\ calm[p] /\ pc[p] = "make" /\ ~plan[p].project => projection # "none"
  /\ calm[p] /\ pc[p] \in {"audit", "applied"} => projection # "none"

Inv == Shape /\ \A p \in Procs : Fitness(p) /\ Honesty(p) /\ Progress(p)

LEMMA InitInv == Init => Inv
  <1>. SUFFICES ASSUME Init PROVE Inv
    OBVIOUS
  <1>1. Shape
    BY InitAssumption DEF Init, Shape, Labels, NoPlan
  <1>. QED BY <1>1 DEF Init, Inv, Fitness, Honesty, Progress

LEMMA ForgetInv ==
  ASSUME Inv, NEW p \in Procs, Forget(p), env' \in [outside: Nat, faults: Nat]
  PROVE  Inv'
  <1>1. Shape'
    BY DEF Inv, Shape, Forget, Goto, vault, Labels, NoPlan
  <1>2. ASSUME NEW q \in Procs
        PROVE  (Fitness(q) /\ Honesty(q) /\ Progress(q))'
    BY <1>2 DEF Inv, Shape, Forget, Goto, vault, Fitness, Honesty, Progress
  <1>. QED BY <1>1, <1>2 DEF Inv

LEMMA FaultsTyped ==
  ASSUME Shape, Fails
  PROVE  env' \in [outside: Nat, faults: Nat] /\ env'.outside = env.outside
  BY DEF Shape, Fails

LEMMA SensesTyped ==
  ASSUME Shape, NEW p \in Procs, NEW step \in {"look", "plan"}, NEW wrong,
         Senses(p, step, wrong)
  PROVE  /\ erred' \in [Procs -> SUBSET {"look", "plan"}]
         /\ env' \in [outside: Nat, faults: Nat] /\ env'.outside = env.outside
  BY FaultsTyped DEF Senses, Shape

LEMMA NextIsPlanned ==
  ASSUME Shape, NEW p \in Procs, plan[p].dirs # {}
  PROVE  NextKey(p) \in plan[p].dirs
  <1>. DEFINE Due(i) == KeyOrder[i] \in plan[p].dirs
              First(i) == Due(i) /\ \A j \in 1..(i - 1) : ~Due(j)
  <1>1. /\ DOMAIN KeyOrder = 1..6
        /\ Keys = {KeyOrder[1], KeyOrder[2], KeyOrder[3], KeyOrder[4], KeyOrder[5], KeyOrder[6]}
    BY DEF KeyOrder, Keys, INITIAL_SEMANTIC_KEY_MAP
  <1>2. Due(1) \/ Due(2) \/ Due(3) \/ Due(4) \/ Due(5) \/ Due(6)
    BY <1>1 DEF Shape
  <1>3. \E i \in 1..6 : First(i)
    <2>. HIDE DEF Due
    <2>1. CASE Due(1) BY <2>1
    <2>2. CASE ~Due(1) /\ Due(2) BY <2>2
    <2>3. CASE ~Due(1) /\ ~Due(2) /\ Due(3) BY <2>3
    <2>4. CASE ~Due(1) /\ ~Due(2) /\ ~Due(3) /\ Due(4) BY <2>4
    <2>5. CASE ~Due(1) /\ ~Due(2) /\ ~Due(3) /\ ~Due(4) /\ Due(5) BY <2>5
    <2>6. CASE ~Due(1) /\ ~Due(2) /\ ~Due(3) /\ ~Due(4) /\ ~Due(5) /\ Due(6) BY <2>6
    <2>. QED BY <1>2, <2>1, <2>2, <2>3, <2>4, <2>5, <2>6
  <1>. QED BY <1>1, <1>3 DEF NextKey

LEMMA StepInv ==
  ASSUME Inv, NEW p \in Procs, Step(p)
  PROVE  Inv'
  <1>1. CASE Look(p)
    <2>1. PICK dirs \in Listings :
            /\ Senses(p, "look", dirs # others)
            /\ \/ call[p].mode = "check_only" /\ Goto(p, "report")
               \/ call[p].mode = "dry_run" /\ Goto(p, "plan")
               \/ /\ call[p].mode = "apply"
                  /\ call[p].profile # "readonly_agent" /\ Fit(dirs)
                  /\ Goto(p, "plan")
               \/ /\ call[p].mode = "apply"
                  /\ call[p].profile = "readonly_agent" \/ ~Fit(dirs)
                  /\ Goto(p, "refused")
      BY <1>1 DEF Look
    <2>2. /\ pc[p] = "look"
          /\ looked' = [looked EXCEPT ![p] =
               /\ ".obsidian" \in others /\ others \subseteq Known
               /\ call[p].mode = "apply" /\ call[p].profile # "readonly_agent"]
          /\ UNCHANGED <<at, projection, call, plan, taken, event, made, lacked, calm>>
      BY <1>1 DEF Look, vault
    <2>0. /\ erred' \in [Procs -> SUBSET {"look", "plan"}]
          /\ env' \in [outside: Nat, faults: Nat]
      BY <2>1, SensesTyped DEF Inv
    <2>3. Shape'
      BY <2>0, <2>1, <2>2 DEF Inv, Shape, Goto, Labels, Running, Outcomes
    <2>4. pc'[p] \in {"report", "plan", "refused"}
      BY <2>1 DEF Inv, Shape, Goto
    <2>5. pc'[p] = "plan" =>
            /\ call[p].mode \in {"dry_run", "apply"}
            /\ call[p].mode = "apply" => looked'[p] \/ "look" \in erred'[p]
      BY <2>1, <2>2 DEF Inv, Shape, Goto, Fit, Senses
    <2>6. (Fitness(p) /\ Honesty(p) /\ Progress(p))'
      BY <2>2, <2>4, <2>5 DEF Inv, Fitness, Honesty, Progress
    <2>7. ASSUME NEW q \in Procs, q # p
          PROVE  (Fitness(q) /\ Honesty(q) /\ Progress(q))'
      BY <2>1, <2>2, <2>7 DEF Inv, Shape, Goto, Senses, Fitness, Honesty, Progress
    <2>. QED BY <2>3, <2>6, <2>7 DEF Inv
  <1>2. CASE Plan(p)
    <2>1. PICK unseen \in {{}} \cup {{i} : i \in Items \ Missing} :
            /\ Senses(p, "plan", unseen # {})
            /\ plan' = [plan EXCEPT ![p] = InitPlan(unseen)]
      BY <1>2 DEF Plan
    <2>2. /\ pc[p] = "plan"
          /\ lacked' = [lacked EXCEPT ![p] = Missing]
          /\ \/ call[p].mode = "dry_run" /\ pc' = [pc EXCEPT ![p] = "planned"]
             \/ call[p].mode # "dry_run" /\ pc' = [pc EXCEPT ![p] = "make"]
          /\ UNCHANGED <<at, projection, call, taken, event, made, looked, calm>>
      BY <1>2 DEF Plan, Goto, vault
    <2>3. /\ InitPlan(unseen) \in [dirs: SUBSET Keys, project: BOOLEAN]
          /\ Missing \in SUBSET Items
      BY DEF InitPlan, Missing, Items
    <2>0. /\ erred' \in [Procs -> SUBSET {"look", "plan"}]
          /\ env' \in [outside: Nat, faults: Nat]
      BY <2>1, SensesTyped DEF Inv
    <2>4. Shape'
      <3>1. plan' \in [Procs -> [dirs: SUBSET Keys, project: BOOLEAN]]
        BY <2>1, <2>3 DEF Inv, Shape
      <3>2. lacked' \in [Procs -> SUBSET Items]
        BY <2>2, <2>3 DEF Inv, Shape
      <3>3. pc' \in [Procs -> Labels]
        BY <2>2 DEF Inv, Shape, Labels, Running, Outcomes
      <3>. QED BY <2>0, <2>2, <3>1, <3>2, <3>3 DEF Inv, Shape
    <2>5. /\ plan'[p] = InitPlan(unseen) /\ lacked'[p] = Missing
          /\ pc'[p] \in {"planned", "make"}
          /\ pc'[p] = "make" => call[p].mode # "dry_run"
          /\ unseen # {} => "plan" \in erred'[p]
          /\ "look" \in erred[p] => "look" \in erred'[p]
      BY <2>1, <2>2 DEF Inv, Shape, Senses
    <2>6. /\ \A k \in Keys \ InitPlan(unseen).dirs : at[k] = "dir"
          /\ ~InitPlan(unseen).project => projection # "none"
          /\ unseen = {} => /\ InitPlan(unseen).dirs \subseteq Missing
                            /\ InitPlan(unseen).project => Projection \in Missing
      BY DEF InitPlan, Missing
    <2>7. Fitness(p)'
      BY <2>5, <2>2 DEF Inv, Fitness
    <2>8. Honesty(p)'
      BY <2>5, <2>6, <2>2 DEF Inv, Honesty
    <2>9. Progress(p)'
      BY <2>5, <2>6, <2>2 DEF Progress
    <2>10. ASSUME NEW q \in Procs, q # p
           PROVE  (Fitness(q) /\ Honesty(q) /\ Progress(q))'
      BY <2>1, <2>2, <2>10 DEF Inv, Shape, Senses, Fitness, Honesty, Progress
    <2>. QED BY <2>4, <2>7, <2>8, <2>9, <2>10 DEF Inv
  <1>3. CASE Make(p)
    <2>. DEFINE k == NextKey(p)
    <2>0. /\ pc[p] = "make" /\ k \in plan[p].dirs
          /\ UNCHANGED <<projection, call, event, looked, lacked, erred, calm, env>>
      BY <1>3, NextIsPlanned DEF Make, Inv, Shape
    <2>1. CASE at[k] = "file" /\ Goto(p, "raised") /\ UNCHANGED <<at, plan, taken, made>>
      <3>2. Shape'
        BY <2>1, <2>0 DEF Inv, Shape, Goto, Labels, Outcomes
      <3>3. ASSUME NEW q \in Procs
            PROVE  (Fitness(q) /\ Honesty(q) /\ Progress(q))'
        BY <2>1, <2>0 DEF Inv, Shape, Goto, Fitness, Honesty, Progress
      <3>. QED BY <3>2, <3>3 DEF Inv
    <2>2. CASE /\ at[k] # "file" /\ at' = [at EXCEPT ![k] = "dir"]
               /\ plan' = [plan EXCEPT ![p].dirs = plan[p].dirs \ {k}]
               /\ taken' = [taken EXCEPT ![p] = taken[p] \cup {k}]
               /\ made' = [made EXCEPT ![p] =
                             IF at[k] = "none" THEN made[p] \cup {k} ELSE made[p]]
               /\ UNCHANGED pc
      <3>. HIDE DEF k
      <3>1. k \in Items
        BY <2>0 DEF Inv, Shape, Items
      <3>2. Shape'
        BY <2>2, <2>0, <3>1 DEF Inv, Shape
      <3>3. \A q \in Procs : plan'[q].project = plan[q].project
        BY <2>2 DEF Inv, Shape
      <3>4. plan'[p].dirs = plan[p].dirs \ {k} /\ \A q \in Procs \ {p} : plan'[q] = plan[q]
        BY <2>2 DEF Inv, Shape
      <3>5. \A m \in Keys : at'[m] = IF m = k THEN "dir" ELSE at[m]
        BY <2>2 DEF Inv, Shape
      <3>6. /\ taken'[p] = taken[p] \cup {k}
            /\ made'[p] = made[p] \/ made'[p] = made[p] \cup {k}
            /\ \A q \in Procs \ {p} : taken'[q] = taken[q] /\ made'[q] = made[q]
        BY <2>2 DEF Inv, Shape
      <3>7. ASSUME NEW q \in Procs
            PROVE  (Fitness(q) /\ Progress(q))'
        BY <2>2, <2>0, <3>3, <3>4, <3>5 DEF Inv, Fitness, Progress
      <3>8. ASSUME NEW q \in Procs
            PROVE  Honesty(q)'
        BY <2>2, <2>0, <3>3, <3>4, <3>6 DEF Inv, Honesty
      <3>. QED BY <3>2, <3>7, <3>8 DEF Inv
    <2>. QED BY <1>3, <2>1, <2>2 DEF Make
  <1>4. CASE Project(p)
    <2>0. /\ taken' = taken \/ taken' = [taken EXCEPT ![p] = taken[p] \cup {Projection}]
          /\ made' = made \/ made' = [made EXCEPT ![p] = made[p] \cup {Projection}]
          /\ pc' = [pc EXCEPT ![p] = "audit"]
          /\ UNCHANGED <<at, plan, event, looked, lacked, erred, calm, env, call>>
      BY <1>4 DEF Project, Goto
    <2>1. Shape'
      <3>0. Projection \in Items
        BY DEF Items
      <3>1. taken' \in [Procs -> SUBSET Items] /\ made' \in [Procs -> SUBSET Items]
        <4>1. taken' \in [Procs -> SUBSET Items]
          BY <2>0, <3>0 DEF Inv, Shape
        <4>2. made' \in [Procs -> SUBSET Items]
          BY <2>0, <3>0 DEF Inv, Shape
        <4>. QED BY <4>1, <4>2
      <3>2. pc' \in [Procs -> Labels]
        BY <2>0 DEF Inv, Shape, Labels, Running
      <3>. QED BY <2>0, <3>1, <3>2 DEF Inv, Shape
    <2>2. projection' # projection => projection' = "generated"
      BY <1>4 DEF Project
    <2>3. /\ UNCHANGED <<at, call, plan, looked, lacked, erred, calm>>
          /\ pc[p] = "make" /\ plan[p].dirs = {}
          /\ pc' = [pc EXCEPT ![p] = "audit"]
          /\ plan[p].project => projection' = "generated"
      BY <1>4 DEF Project, Goto
    <2>5. /\ \A q \in Procs \ {p} : taken'[q] = taken[q] /\ made'[q] = made[q]
          /\ \/ ~plan[p].project /\ taken'[p] = taken[p] /\ made'[p] = made[p]
             \/ /\ plan[p].project /\ taken'[p] = taken[p] \cup {Projection}
                /\ made'[p] = made[p] \cup {Projection}
      BY <1>4 DEF Project, Inv, Shape
    <2>4. ASSUME NEW q \in Procs
          PROVE  (Fitness(q) /\ Honesty(q) /\ Progress(q))'
      BY <2>2, <2>3, <2>5 DEF Inv, Shape, Fitness, Honesty, Progress
    <2>. QED BY <2>1, <2>4 DEF Inv
  <1>5. CASE Audit(p)
    <2>1. Shape'
      BY <1>5 DEF Inv, Shape, Audit, InitEvent, Goto, Labels, Outcomes, vault
    <2>2. ASSUME NEW q \in Procs
          PROVE  (Fitness(q) /\ Honesty(q) /\ Progress(q))'
      BY <1>5 DEF Inv, Shape, Audit, Goto, vault, Fitness, Honesty, Progress
    <2>. QED BY <2>1, <2>2 DEF Inv
  <1>6. CASE Return(p)
    BY <1>6, ForgetInv DEF Return, Inv, Shape
  <1>. QED BY <1>1, <1>2, <1>3, <1>4, <1>5, <1>6 DEF Step

LEMMA NextInv ==
  ASSUME Inv, [Next]_vars
  PROVE  Inv'
  <1>1. ASSUME NEW p \in Procs, Step(p)
        PROVE  Inv'
    BY <1>1, StepInv
  <1>2. ASSUME NEW p \in Procs, Error(p)
        PROVE  Inv'
    <2>0. env' \in [outside: Nat, faults: Nat]
      BY <1>2, FaultsTyped DEF Inv, Error
    <2>1. Shape'
      BY <1>2, <2>0 DEF Inv, Shape, Error, Goto, vault, local, Labels, Outcomes
    <2>2. ASSUME NEW q \in Procs
          PROVE  (Fitness(q) /\ Honesty(q) /\ Progress(q))'
      BY <1>2 DEF Inv, Shape, Error, Goto, vault, local, Fitness, Honesty, Progress
    <2>. QED BY <2>1, <2>2 DEF Inv
  <1>3. ASSUME NEW p \in Procs, Crash(p)
        PROVE  Inv'
    BY <1>3, ForgetInv, FaultsTyped DEF Crash, Inv
  <1>4. ASSUME NEW p \in Procs, NEW m \in Modes, NEW f \in Callers, Call(p, m, f)
        PROVE  Inv'
    <2>1. Shape'
      BY <1>4 DEF Inv, Shape, Call, Goto, vault, Labels, Running, Outcomes
    <2>2. ASSUME NEW q \in Procs
          PROVE  (Fitness(q) /\ Honesty(q) /\ Progress(q))'
      BY <1>4 DEF Inv, Shape, Call, Goto, vault, Fitness, Honesty, Progress
    <2>. QED BY <2>1, <2>2 DEF Inv
  <1>5. CASE Appears
    <2>1. /\ env' \in [outside: Nat, faults: Nat]
          /\ UNCHANGED <<call, plan, taken, event, made, looked, lacked, erred, pc, calm>>
      BY <1>5 DEF Appears, Outside, local, Inv, Shape
    <2>2. at' \in [Keys -> {"none", "dir", "file"}] /\ \A k \in Keys : at[k] = "dir" => at'[k] = "dir"
      BY <1>5 DEF Appears, Inv, Shape
    <2>3. projection # "none" => projection' # "none"
      BY <1>5 DEF Appears
    <2>4. Shape'
      BY <2>1, <2>2 DEF Inv, Shape
    <2>5. ASSUME NEW q \in Procs
          PROVE  (Fitness(q) /\ Honesty(q) /\ Progress(q))'
      BY <2>1, <2>2, <2>3 DEF Inv, Fitness, Honesty, Progress
    <2>. QED BY <2>4, <2>5 DEF Inv
  <1>6. CASE Disappears
    <2>0. env' \in [outside: Nat, faults: Nat]
      BY <1>6 DEF Disappears, Outside, Inv, Shape
    <2>1. /\ UNCHANGED <<call, plan, taken, event, made, looked, lacked, erred, pc>>
          /\ calm' = [p \in Procs |-> FALSE]
      BY <1>6 DEF Disappears, Outside, local
    <2>2. at' \in [Keys -> {"none", "dir", "file"}]
      BY <1>6 DEF Disappears, Inv, Shape
    <2>3. Shape'
      BY <2>0, <2>1, <2>2 DEF Inv, Shape
    <2>4. ASSUME NEW q \in Procs
          PROVE  (Fitness(q) /\ Honesty(q) /\ Progress(q))'
      BY <2>1 DEF Inv, Fitness, Honesty, Progress
    <2>. QED BY <2>3, <2>4 DEF Inv
  <1>7. CASE UNCHANGED vars
    BY <1>7 DEF vars, vault, local, Inv, Shape, Fitness, Honesty, Progress
  <1>. QED BY <1>1, <1>2, <1>3, <1>4, <1>5, <1>6, <1>7 DEF Next

\* The invariant behind the theorems below holds in every state of every behaviour:
\* what a call of membank_init found, planned and made so far is still so.
THEOREM Invariant == Spec => []Inv
  <1>1. Inv /\ [Next]_vars => Inv'
    BY NextInv
  <1>. QED BY <1>1, InitInv, PTL DEF Spec

-----------------------------------------------------------------------------
LEMMA FitMakes ==
  ASSUME Inv, Next, NEW p \in Procs, made'[p] # made[p], made'[p] # {}
  PROVE  looked[p] \/ "look" \in erred[p]
  <1>1. ASSUME NEW q \in Procs, Make(q) \/ Project(q)
        PROVE  q = p /\ pc[p] = "make"
    BY <1>1 DEF Make, Project, Inv, Shape
  <1>2. ASSUME NEW q \in Procs, Return(q) \/ Crash(q)
        PROVE  FALSE
    BY <1>2 DEF Return, Crash, Forget, Inv, Shape
  <1>3. ASSUME NEW q \in Procs, Look(q) \/ Plan(q) \/ Audit(q) \/ Error(q)
        PROVE  FALSE
    BY <1>3 DEF Look, Plan, Audit, Error, local
  <1>4. ~Appears /\ ~Disappears
    BY DEF Appears, Disappears, Outside, local
  <1>5. ASSUME NEW q \in Procs, NEW m \in Modes, NEW f \in Callers, Call(q, m, f)
        PROVE  FALSE
    BY <1>5 DEF Call
  <1>. QED BY <1>1, <1>2, <1>3, <1>4, <1>5 DEF Next, Step, Inv, Fitness

\* However calls, errors and restarts interleave, in a folder that is no vault
\* and in one with a layout of its own no call creates anything, but where it
\* could not list the root.
THEOREM OnlyFitChange == Spec => OnlyFitVaultsChange
  <1>1. Inv /\ [Next]_vars =>
          [\A p \in Procs : made'[p] # made[p] /\ made'[p] # {} =>
             looked[p] \/ "look" \in erred[p]]_vars
    BY FitMakes
  <1>. QED BY <1>1, Invariant, PTL DEF Spec, OnlyFitVaultsChange

-----------------------------------------------------------------------------
LEMMA ServersKeep ==
  ASSUME Inv, Next, env'.outside = env.outside
  PROVE  /\ \A k \in Keys : at[k] # "none" => at'[k] = at[k]
         /\ others' = others
         /\ projection # "none" => projection' # "none"
         /\ projection = "user" /\ projection' # "user" =>
              \E p \in Procs :
                /\ pc[p] = "make"
                /\ Projection \in lacked[p] \/ "plan" \in erred[p]
  <1>1. ASSUME NEW p \in Procs, Make(p)
        PROVE  (\A k \in Keys : at[k] # "none" => at'[k] = at[k]) /\ UNCHANGED <<others, projection>>
    <2>. DEFINE m == NextKey(p)
    <2>1. at' = at \/ (at[m] # "file" /\ at' = [at EXCEPT ![m] = "dir"])
      BY <1>1 DEF Make
    <2>2. UNCHANGED <<others, projection>>
      BY <1>1 DEF Make
    <2>. HIDE DEF m
    <2>. QED BY <2>1, <2>2 DEF Inv, Shape
  <1>2. ASSUME NEW p \in Procs, Project(p)
        PROVE  /\ UNCHANGED <<at, others>>
               /\ projection' \in {projection, "generated"}
               /\ projection' # projection =>
                    pc[p] = "make" /\ (Projection \in lacked[p] \/ "plan" \in erred[p])
    BY <1>2 DEF Project, Inv, Honesty
  <1>3. ASSUME NEW p \in Procs,
               Look(p) \/ Plan(p) \/ Audit(p) \/ Return(p) \/ Error(p) \/ Crash(p)
        PROVE  UNCHANGED vault
    BY <1>3 DEF Look, Plan, Audit, Return, Error, Crash, Forget
  <1>4. ASSUME NEW p \in Procs, NEW m \in Modes, NEW f \in Callers, Call(p, m, f)
        PROVE  UNCHANGED vault
    BY <1>4 DEF Call
  <1>5. ~Appears /\ ~Disappears
    <2>1. ASSUME Outside PROVE FALSE
      BY <2>1 DEF Outside, Inv, Shape
    <2>. QED BY <2>1 DEF Appears, Disappears
  <1>. QED BY <1>1, <1>2, <1>3, <1>4, <1>5 DEF Next, Step, vault

\* No step of a server removes a file or a directory; all it may overwrite is
\* a projection that was missing when its plan was made, or that the plan
\* could not see.
THEOREM FilesSurvive == Spec => UserFilesSurvive
  <1>1. Inv /\ [Next]_vars =>
          [env'.outside = env.outside =>
             /\ \A k \in Keys : at[k] # "none" => at'[k] = at[k]
             /\ others' = others
             /\ projection # "none" => projection' # "none"
             /\ projection = "user" /\ projection' # "user" =>
                  \E p \in Procs :
                    /\ pc[p] = "make"
                    /\ Projection \in lacked[p] \/ "plan" \in erred[p]]_vars
    BY ServersKeep
  <1>. QED BY <1>1, Invariant, PTL DEF Spec, UserFilesSurvive

-----------------------------------------------------------------------------
LEMMA DestinationIsKey ==
  ASSUME NEW i, ~(i \in Deprecated \ Keys)
  PROVE  Destination(i) \in Keys
  <1>1. "inbox" \in Keys
    BY DEF Keys, INITIAL_SEMANTIC_KEY_MAP
  <1>. QED BY <1>1 DEF Destination

\* When apply reports success, and nobody has deleted anything meanwhile, the
\* vault is set up and every destination an agent may be told exists.
THEOREM ReadyOnSuccess == Spec => []SuccessMeansReady
  <1>1. ASSUME Inv, NEW p \in Procs, pc[p] = "applied", calm[p]
        PROVE  /\ Ready
               /\ \A i \in Intents :
                    IF i \in Deprecated \ Keys THEN Destination(i) = "denied"
                    ELSE at[Destination(i)] = "dir"
    <2>1. Ready
      BY <1>1 DEF Inv, Progress, Ready
    <2>2. ASSUME NEW i, i \in Deprecated \ Keys PROVE Destination(i) = "denied"
      BY <2>2 DEF Destination
    <2>. QED BY <2>1, <2>2, DestinationIsKey DEF Ready
  <1>2. Inv => SuccessMeansReady
    BY <1>1 DEF SuccessMeansReady
  <1>. QED BY <1>2, Invariant, PTL

-----------------------------------------------------------------------------
LEMMA SuccessIsAnEvent ==
  ASSUME Inv, Next, NEW p \in Procs, pc'[p] = "applied", pc[p] # "applied"
  PROVE  Audit(p)
  <1>1. ASSUME NEW q \in Procs, Step(q) \/ Error(q) \/ Crash(q)
        PROVE  q = p
    BY <1>1 DEF Step, Look, Plan, Make, Project, Audit, Return, Error, Crash,
                Forget, Goto, Inv, Shape
  <1>2. /\ ~Look(p) /\ ~Plan(p) /\ ~Make(p) /\ ~Project(p)
        /\ ~Return(p) /\ ~Error(p) /\ ~Crash(p)
    BY DEF Look, Plan, Make, Project, Return, Error, Crash, Forget, Goto, Inv, Shape
  <1>3. ASSUME NEW q \in Procs, NEW m \in Modes, NEW f \in Callers, Call(q, m, f)
        PROVE  FALSE
    BY <1>3 DEF Call, Goto, Inv, Shape
  <1>4. ~Appears /\ ~Disappears
    BY DEF Appears, Disappears, Outside
  <1>. QED BY <1>1, <1>2, <1>3, <1>4 DEF Next, Step

\* However calls, errors and restarts interleave, the event of an apply that
\* succeeds names all that the call created, and nothing that existed when its
\* plan was made, unless the plan could not see it.
THEOREM CreationsAreAudited == Spec => CreatedIsAudited
  <1>1. ASSUME Inv, Next, NEW p \in Procs, pc'[p] = "applied", pc[p] # "applied"
        PROVE  /\ made[p] \subseteq event'[p]
               /\ event'[p] \subseteq lacked[p] \/ "plan" \in erred[p]
    <2>1. pc[p] = "audit" /\ event' = [event EXCEPT ![p] = taken[p]]
      BY <1>1, SuccessIsAnEvent DEF Audit, InitEvent
    <2>2. event'[p] = taken[p]
      BY <1>1, <2>1 DEF Inv, Shape
    <2>. QED BY <1>1, <2>1, <2>2 DEF Inv, Honesty
  <1>2. Inv /\ [Next]_vars =>
          [\A p \in Procs : pc'[p] = "applied" /\ pc[p] # "applied" =>
             /\ made[p] \subseteq event'[p]
             /\ event'[p] \subseteq lacked[p] \/ "plan" \in erred[p]]_vars
    BY <1>1 DEF vars
  <1>. QED BY <1>2, Invariant, PTL DEF Spec, CreatedIsAudited
=============================================================================
