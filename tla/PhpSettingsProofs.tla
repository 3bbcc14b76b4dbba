------------------------- MODULE PhpSettingsProofs -------------------------
(* Proofs about PhpSettings and PhpVersions, for any number of requests,     *)
(* tasks, versions, sites and values.                                        *)
EXTENDS PhpSettings, PhpVersions, FiniteSetTheorems, TLAPS

\* php_settings_mutate: a settings request past its guard holds it.
Guarded == \A t \in SetTasks : task[t].pc \notin {"idle", "guard"} <=> settings_mutate = t

\* Who can ask for what, and be where.
WellAsked(t) ==
    task[t].pc # "idle" =>
      /\ t \in SetTasks => task[t].op \in {"global"} \cup Kinds /\ task[t].x \in Values
      /\ t \in ExtTasks => task[t].op \in {"add", "remove"} /\ task[t].x \in Exts /\ task[t].pc # "guard"
      /\ task[t].op = "global" => task[t].pc # "reread"
AllWellAsked == \A t \in Tasks : WellAsked(t)

\* The manager has the config's settings, but for what the holder of the guard
\* has yet to hand on.
Agree == mgr.settings = php.settings /\ mgr.per = php.per
Owes(t) ==
    IF task[t].op = "global"
    THEN task[t].snap.settings = php.settings /\ mgr.per = php.per
    ELSE /\ mgr.settings = php.settings
         /\ task[t].pc = "apply" => task[t].snap.per = php.per
         /\ \A k \in Kinds, w \in Versions \ {task[t].v} : mgr.per[k][w] = php.per[k][w]
Applied ==
    /\ (\A t \in SetTasks : task[t].pc \notin {"reread", "apply"}) => Agree
    /\ \A t \in SetTasks : task[t].pc \in {"reread", "apply"} => Owes(t)

\* Without overlap an extension request is alone, what a request is about to
\* write to the CLI ini files is the config's, and so is what is there when
\* nobody is about to.
CliFits ==
    ~overlap =>
      /\ \A t \in ExtTasks : task[t].pc # "idle" => \A o \in Tasks \ {t} : task[o].pc = "idle"
      /\ \A t \in Tasks : task[t].pc = "writecli" => task[t].snap = php
      /\ (\A t \in Tasks : task[t].pc \in {"idle", "guard", "commit"}) => \A v \in Versions : cli[v] = CliOf(php, v)

IInv == TypeOK /\ Guarded /\ AllWellAsked /\ Applied /\ RunningIsCurrent /\ CliFits

-----------------------------------------------------------------------------
LEMMA InitInv == Init => IInv
<1> SUFFICES ASSUME Init PROVE IInv
  BY Zenon
<1>1. (CHOOSE v \in Versions : TRUE) \in Versions /\ (CHOOSE x \in Values : TRUE) \in Values
  BY PhpSettingsAssumption, Zenon
<1>2. Idle \in Asking /\ Idle.pc = "idle"
  BY <1>1, Zenon DEF Idle, Asking, Ops
<1>3. php \in PhpSection /\ mgr = php
  BY <1>1, Zenon DEF Init, PhpSection
<1>4. \A v \in Versions : CliOf(php, v) \in CliRendered
  BY <1>3 DEF CliOf, CliRendered, PhpSection
<1>a. budget \in 0 .. MaxRequests
  BY PhpSettingsAssumption DEF Init
<1>d. overlap \in BOOLEAN
  BY Zenon DEF Init
<1>b. cli \in [Versions -> CliRendered] /\ pool \in [Versions -> {NotStarted, StartFailed} \cup Rendered]
  BY <1>4, Zenon DEF Init
<1>c. task \in [Tasks -> Asking \cup Applying] /\ settings_mutate \in SetTasks \cup {NoTask}
  BY <1>2, Zenon DEF Init
<1>5. TypeOK
  BY <1>3, <1>a, <1>b, <1>c, <1>d, Zenon DEF TypeOK
<1>6. \A t \in Tasks : task[t] = Idle
  BY Zenon DEF Init
<1>7. Guarded /\ AllWellAsked /\ Applied
  BY <1>2, <1>3, <1>6, PhpSettingsAssumption, Zenon DEF Init, Guarded, AllWellAsked, WellAsked, Applied, Agree, Tasks
<1>8. RunningIsCurrent
  BY Zenon DEF Init, RunningIsCurrent, RunningPool
<1>9. CliFits
  BY <1>2, <1>6, Zenon DEF Init, CliFits, Tasks
<1>10. QED
  BY <1>5, <1>7, <1>8, <1>9, Zenon DEF IInv

\* A step of one task leaves the others' records alone.
LEMMA OneMoves ==
    ASSUME TypeOK, NEW t \in Tasks, NEW k \in Asking \cup Applying, task' = [task EXCEPT ![t] = k]
    PROVE  /\ task' \in [Tasks -> Asking \cup Applying] /\ task'[t] = k
           /\ \A o \in Tasks \ {t} : task'[o] = task[o]
BY Zenon DEF TypeOK

\* The pools are those of the manager's copies, whoever moves, as long as both
\* are left alone.
LEMMA PoolsKept == IInv /\ UNCHANGED <<mgr, pool>> => RunningIsCurrent'
BY Zenon DEF IInv, RunningIsCurrent, RunningPool, PoolOf

\* Request: a request comes in; it has changed nothing.
LEMMA RequestKeeps ==
    ASSUME IInv, NEW t \in Tasks, NEW op \in Ops, NEW v \in Versions, NEW x \in Values \cup Exts,
           t \in SetTasks => op \in {"global"} \cup Kinds /\ x \in Values,
           t \in ExtTasks => op \in {"add", "remove"} /\ x \in Exts,
           Request(t, op, v, x)
    PROVE  IInv'
<1> DEFINE k == [pc |-> IF t \in SetTasks THEN "guard" ELSE "commit", op |-> op, v |-> v, x |-> x]
<1>1. k \in Asking /\ k.pc \in {"guard", "commit"} /\ (k.pc = "guard" <=> t \in SetTasks) /\ k.op = op /\ k.x = x
  BY Zenon DEF Asking
<1>2. /\ task' = [task EXCEPT ![t] = k] /\ task[t].pc = "idle"
      /\ UNCHANGED <<php, mgr, pool, cli, settings_mutate>>
      /\ budget' \in 0 .. MaxRequests
  BY PhpSettingsAssumption DEF Request, IInv, TypeOK
<1> HIDE DEF k
<1>3. /\ task' \in [Tasks -> Asking \cup Applying] /\ task'[t] = k
      /\ \A o \in Tasks \ {t} : task'[o] = task[o]
  BY <1>1, <1>2, OneMoves, Zenon DEF IInv
<1>4. overlap' \in BOOLEAN
  BY Zenon DEF Request
<1>5. TypeOK'
  BY <1>2, <1>3, <1>4, Zenon DEF IInv, TypeOK
<1>6. Guarded'
  BY <1>1, <1>2, <1>3, Zenon DEF IInv, Guarded, Tasks
<1>7. AllWellAsked'
  BY <1>1, <1>3, PhpSettingsAssumption DEF IInv, AllWellAsked, WellAsked, Tasks
<1>8. Applied'
  BY <1>1, <1>2, <1>3 DEF IInv, Applied, Agree, Owes, Tasks
<1>9. RunningIsCurrent'
  BY <1>2, PoolsKept, Zenon
<1>10. CliFits'
  <2> SUFFICES ASSUME ~overlap' PROVE CliFits'
    BY Zenon DEF CliFits
  <2>1. ~overlap /\ \A o \in Tasks \ {t} : task[o].pc = "idle" \/ {o, t} \cap ExtTasks = {}
    BY Zenon DEF Request
  <2>2. \A e \in ExtTasks : task'[e].pc # "idle" => \A o \in Tasks \ {e} : task'[o].pc = "idle"
    BY <1>1, <1>3, <2>1 DEF IInv, CliFits, Tasks
  <2>3. \A o \in Tasks : task'[o].pc = "writecli" => task'[o].snap = php'
    BY <1>1, <1>2, <1>3, <2>1, Zenon DEF IInv, CliFits
  <2>4. (\A o \in Tasks : task'[o].pc \in {"idle", "guard", "commit"}) => \A w \in Versions : cli'[w] = CliOf(php, w)'
    <3>1. (\A o \in Tasks : task'[o].pc \in {"idle", "guard", "commit"}) => \A o \in Tasks : task[o].pc \in {"idle", "guard", "commit"}
      <4>1. task[t].pc = "idle"
        BY <1>2, Zenon
      <4>2. QED
        BY <1>3, <4>1, Zenon
    <3>2. (\A o \in Tasks : task[o].pc \in {"idle", "guard", "commit"}) => \A w \in Versions : cli[w] = CliOf(php, w)
      BY <2>1, Zenon DEF IInv, CliFits
    <3>3. \A w \in Versions : cli'[w] = cli[w] /\ CliOf(php, w)' = CliOf(php, w)
      BY <1>2, Zenon DEF CliOf
    <3>4. QED
      BY <3>1, <3>2, <3>3, Zenon
  <2>5. QED
    BY <2>2, <2>3, <2>4, Zenon DEF CliFits
<1>11. QED
  BY <1>5, <1>6, <1>7, <1>8, <1>9, <1>10, Zenon DEF IInv

\* Guard: the request takes the guard, nobody else being past it.
LEMMA GuardKeeps ==
    ASSUME IInv, NEW t \in Tasks, Guard(t)
    PROVE  IInv'
<1>1. t \in SetTasks /\ task[t].pc = "guard" /\ settings_mutate = NoTask /\ settings_mutate' = t
  BY Zenon DEF Guard, IInv, AllWellAsked, WellAsked, Tasks
<1>2. PICK k \in Asking : /\ task' = [task EXCEPT ![t] = k] /\ k.pc = "commit"
                          /\ k.op = task[t].op /\ k.x = task[t].x
  <2>1. task \in [Tasks -> Asking \cup Applying] /\ task[t] \in Asking
    BY <1>1, Zenon DEF IInv, TypeOK, Applying
  <2>2. [task[t] EXCEPT !.pc = "commit"] \in Asking
    BY <2>1, Zenon DEF Asking
  <2>3. QED
    BY <2>1, <2>2, Zenon DEF Guard, Asking
<1>3. /\ task' \in [Tasks -> Asking \cup Applying] /\ task'[t] = k
      /\ \A o \in Tasks \ {t} : task'[o] = task[o]
  BY <1>2, OneMoves, Zenon DEF IInv
<1>4. UNCHANGED <<php, mgr, pool, cli, overlap, budget>>
  BY Zenon DEF Guard
<1>5. TypeOK'
  BY <1>1, <1>3, <1>4, Zenon DEF IInv, TypeOK
<1>6. \A o \in SetTasks : task[o].pc \in {"idle", "guard"}
  BY <1>1, PhpSettingsAssumption, Zenon DEF IInv, Guarded
<1>7. Guarded'
  BY <1>1, <1>2, <1>3, <1>6, Zenon DEF Guarded, Tasks
<1>8. AllWellAsked'
  BY <1>1, <1>2, <1>3, Zenon DEF IInv, AllWellAsked, WellAsked, Tasks
<1>9. Applied'
  BY <1>1, <1>2, <1>3, <1>4, <1>6, Zenon DEF IInv, Applied, Agree, Owes, Tasks
<1>10. RunningIsCurrent'
  BY <1>4, PoolsKept, Zenon
<1>11. CliFits'
  <2> SUFFICES ASSUME ~overlap' PROVE CliFits'
    BY Zenon DEF CliFits
  <2>1. ~overlap
    BY <1>4, Zenon
  <2>2. \A e \in ExtTasks : task'[e].pc # "idle" => \A o \in Tasks \ {e} : task'[o].pc = "idle"
    BY <1>1, <1>3, <2>1, PhpSettingsAssumption, Zenon DEF IInv, CliFits, Tasks
  <2>3. \A o \in Tasks : task'[o].pc = "writecli" => task'[o].snap = php'
    BY <1>2, <1>3, <1>4, <2>1, Zenon DEF IInv, CliFits
  <2>4. (\A o \in Tasks : task'[o].pc \in {"idle", "guard", "commit"}) => \A w \in Versions : cli'[w] = CliOf(php, w)'
    <3>1. (\A o \in Tasks : task'[o].pc \in {"idle", "guard", "commit"}) =>
            \A o \in Tasks : task[o].pc \in {"idle", "guard", "commit"}
      BY <1>1, <1>3, Zenon
    <3>2. QED
      BY <1>4, <2>1, <3>1, Zenon DEF IInv, CliFits, CliOf
  <2>5. QED
    BY <2>2, <2>3, <2>4, Zenon DEF CliFits
<1>12. QED
  BY <1>5, <1>7, <1>8, <1>9, <1>10, <1>11, Zenon DEF IInv

\* A task's end gives the guard back if it has it.
LEMMA EndFacts ==
    ASSUME IInv, NEW t \in Tasks, End(t), task[t].pc \notin {"idle", "guard"}
    PROVE  /\ task' \in [Tasks -> Asking \cup Applying] /\ task'[t].pc = "idle"
           /\ \A o \in Tasks \ {t} : task'[o] = task[o]
           /\ settings_mutate' \in SetTasks \cup {NoTask} /\ Guarded' /\ AllWellAsked'
           /\ t \in ExtTasks => settings_mutate' = settings_mutate
           /\ t \in SetTasks => \A o \in SetTasks \ {t} : task[o].pc \in {"idle", "guard"}
<1>1. (CHOOSE v \in Versions : TRUE) \in Versions /\ (CHOOSE x \in Values : TRUE) \in Values
  BY PhpSettingsAssumption, Zenon
<1>2. Idle \in Asking /\ Idle.pc = "idle"
  BY <1>1, Zenon DEF Idle, Asking, Ops
<1>3. /\ task' \in [Tasks -> Asking \cup Applying] /\ task'[t] = Idle
      /\ \A o \in Tasks \ {t} : task'[o] = task[o]
  BY <1>2, OneMoves, Zenon DEF End, IInv
<1>4. settings_mutate' \in SetTasks \cup {NoTask} /\ settings_mutate' = IF settings_mutate = t THEN NoTask ELSE settings_mutate
  BY Zenon DEF End, IInv, TypeOK
<1>5. \A o \in SetTasks : task[o].pc \notin {"idle", "guard"} <=> settings_mutate = o
  BY Zenon DEF IInv, Guarded
<1>6. Guarded'
  BY <1>2, <1>3, <1>4, <1>5, PhpSettingsAssumption, Zenon DEF Guarded, Tasks
<1>7. AllWellAsked'
  BY <1>2, <1>3, Zenon DEF IInv, AllWellAsked, WellAsked
<1>8. t \in ExtTasks => settings_mutate' = settings_mutate
  BY <1>4, PhpSettingsAssumption, Zenon DEF IInv, TypeOK
<1>9. t \in SetTasks => \A o \in SetTasks \ {t} : task[o].pc \in {"idle", "guard"}
  BY <1>5, Zenon
<1>10. QED
  BY <1>2, <1>3, <1>4, <1>6, <1>7, <1>8, <1>9, Zenon

\* Refused: nothing was changed.
LEMMA RefusedKeeps ==
    ASSUME IInv, NEW t \in Tasks, Refused(t)
    PROVE  IInv'
<1>1. task[t].pc = "commit" /\ End(t) /\ UNCHANGED <<php, mgr, pool, cli, overlap, budget>>
  BY Zenon DEF Refused
<1>2. /\ task' \in [Tasks -> Asking \cup Applying] /\ task'[t].pc = "idle"
      /\ \A o \in Tasks \ {t} : task'[o] = task[o]
      /\ settings_mutate' \in SetTasks \cup {NoTask} /\ Guarded' /\ AllWellAsked'
  BY <1>1, EndFacts, Zenon
<1>3. TypeOK'
  BY <1>1, <1>2, Zenon DEF IInv, TypeOK
<1>4. Applied'
  BY <1>1, <1>2 DEF IInv, Applied, Agree, Owes, Tasks
<1>5. RunningIsCurrent'
  BY <1>1, PoolsKept, Zenon
<1>6. CliFits'
  <2> SUFFICES ASSUME ~overlap' PROVE CliFits'
    BY Zenon DEF CliFits
  <2>1. ~overlap
    BY <1>1, Zenon
  <2>2. \A e \in ExtTasks : task'[e].pc # "idle" => \A o \in Tasks \ {e} : task'[o].pc = "idle"
    BY <1>1, <1>2, <2>1, Zenon DEF IInv, CliFits, Tasks
  <2>3. \A o \in Tasks : task'[o].pc = "writecli" => task'[o].snap = php'
    BY <1>1, <1>2, <2>1, Zenon DEF IInv, CliFits
  <2>4. (\A o \in Tasks : task'[o].pc \in {"idle", "guard", "commit"}) => \A w \in Versions : cli'[w] = CliOf(php, w)'
    BY <1>1, <1>2, <2>1, Zenon DEF IInv, CliFits, CliOf
  <2>5. QED
    BY <2>2, <2>3, <2>4, Zenon DEF CliFits
<1>7. QED
  BY <1>2, <1>3, <1>4, <1>5, <1>6, Zenon DEF IInv

\* What a request makes of the config: its own part of it, and no other.
LEMMA MergedFacts ==
    ASSUME IInv, NEW t \in Tasks, task[t].pc = "commit"
    PROVE  /\ Merged(t) \in PhpSection
           /\ t \in ExtTasks => Merged(t).settings = php.settings /\ Merged(t).per = php.per
           /\ task[t].op = "global" => Merged(t).per = php.per
           /\ t \in SetTasks /\ task[t].op # "global" =>
                /\ Merged(t).settings = php.settings
                /\ \A k \in Kinds, w \in Versions \ {task[t].v} : Merged(t).per[k][w] = php.per[k][w]
<1>1. php \in PhpSection /\ task[t].v \in Versions
  BY Zenon DEF IInv, TypeOK, Asking, Applying
<1>2. CASE t \in SetTasks /\ task[t].op = "global"
  <2>1. Merged(t) = [php EXCEPT !.settings = task[t].x] /\ task[t].x \in Values
    BY <1>2, Zenon DEF Merged, IInv, AllWellAsked, WellAsked, Tasks
  <2>2. QED
    BY <1>1, <1>2, <2>1, PhpSettingsAssumption, Zenon DEF PhpSection
<1>3. CASE t \in ExtTasks
  <2>1. task[t].op \in {"add", "remove"} /\ task[t].x \in Exts
    BY <1>3, Zenon DEF IInv, AllWellAsked, WellAsked
  <2>2. CASE task[t].op = "add"
    <3>1. Merged(t) = [php EXCEPT !.extensions[task[t].v] = @ \cup {task[t].x}]
      BY <2>2, Zenon DEF Merged
    <3>2. QED
      BY <1>1, <1>3, <2>1, <2>2, <3>1, PhpSettingsAssumption DEF PhpSection
  <2>3. CASE task[t].op = "remove"
    <3>1. Merged(t) = [php EXCEPT !.extensions[task[t].v] = @ \ {task[t].x}]
      BY <2>3, Zenon DEF Merged
    <3>2. QED
      BY <1>1, <1>3, <2>1, <2>3, <3>1, PhpSettingsAssumption DEF PhpSection
  <2>4. QED
    BY <2>1, <2>2, <2>3, Zenon
<1>4. CASE t \in SetTasks /\ task[t].op # "global"
  <2>1. task[t].op \in Kinds /\ task[t].x \in Values
    BY <1>4, Zenon DEF IInv, AllWellAsked, WellAsked, Tasks
  <2>2. Merged(t) = [php EXCEPT !.per[task[t].op][task[t].v] = task[t].x]
    BY <1>4, <2>1, PhpSettingsAssumption, Zenon DEF Merged
  <2> DEFINE of == [php.per[task[t].op] EXCEPT ![task[t].v] = task[t].x]
             per == [php.per EXCEPT ![task[t].op] = of]
  <2>3. of \in [Versions -> Values] /\ \A w \in Versions \ {task[t].v} : of[w] = php.per[task[t].op][w]
    BY <1>1, <2>1, Zenon DEF PhpSection
  <2>4. per \in [Kinds -> [Versions -> Values]] /\ per[task[t].op] = of
        /\ \A k \in Kinds \ {task[t].op} : per[k] = php.per[k]
    <3> HIDE DEF of
    <3>1. QED
      BY <1>1, <2>1, <2>3, Zenon DEF PhpSection
  <2>5. Merged(t) = [php EXCEPT !.per = per]
    BY <1>1, <2>1, <2>2, Zenon DEF PhpSection
  <2> HIDE DEF of, per
  <2>6. Merged(t) \in PhpSection /\ Merged(t).settings = php.settings /\ Merged(t).per = per
    BY <1>1, <2>4, <2>5, Zenon DEF PhpSection
  <2>7. \A k \in Kinds, w \in Versions \ {task[t].v} : Merged(t).per[k][w] = php.per[k][w]
    BY <2>1, <2>3, <2>4, <2>6, Zenon
  <2>8. QED
    BY <1>4, <2>6, <2>7, PhpSettingsAssumption, Zenon
<1>5. QED
  BY <1>2, <1>3, <1>4, Zenon DEF Tasks

\* Commit: one settings request at a time, and the extension requests change
\* another part of the config.
LEMMA CommitKeeps ==
    ASSUME IInv, NEW t \in Tasks, CommitChange(t)
    PROVE  IInv'
<1>1. task[t].pc = "commit" /\ php' = Merged(t) /\ UNCHANGED <<mgr, pool, cli, settings_mutate, overlap, budget>>
  BY Zenon DEF CommitChange
<1>2. task[t] \in Asking /\ php \in PhpSection
  BY <1>1, Zenon DEF IInv, TypeOK, Applying
<1>3. PICK k \in Applying :
        /\ task' = [task EXCEPT ![t] = k] /\ k.pc = (IF task[t].op = "global" THEN "apply" ELSE "reread")
        /\ k.op = task[t].op /\ k.v = task[t].v /\ k.x = task[t].x /\ k.snap = Merged(t)
  <2> DEFINE k == [pc |-> IF task[t].op = "global" THEN "apply" ELSE "reread",
                   op |-> task[t].op, v |-> task[t].v, x |-> task[t].x, snap |-> Merged(t)]
  <2>1. k \in Applying
    BY <1>1, <1>2, MergedFacts, Zenon DEF Asking, Applying
  <2>2. task' = [task EXCEPT ![t] = k]
    BY Zenon DEF CommitChange, IInv, TypeOK
  <2>3. QED
    BY <2>1, <2>2, Zenon
<1>4. /\ task' \in [Tasks -> Asking \cup Applying] /\ task'[t] = k
      /\ \A o \in Tasks \ {t} : task'[o] = task[o]
  BY <1>3, OneMoves, Zenon DEF IInv
<1>5. TypeOK'
  BY <1>1, <1>4, MergedFacts, Zenon DEF IInv, TypeOK
<1>6. Guarded'
  BY <1>1, <1>3, <1>4, Zenon DEF IInv, Guarded, Tasks
<1>7. AllWellAsked'
  BY <1>1, <1>3, <1>4, Zenon DEF IInv, AllWellAsked, WellAsked, Tasks
<1>8. t \in SetTasks => \A o \in SetTasks \ {t} : task[o].pc \in {"idle", "guard"}
  BY <1>1, Zenon DEF IInv, Guarded
<1>9. Applied'
  <2>1. CASE t \in SetTasks
    <3>1. Agree
      BY <1>1, <1>8, <2>1, Zenon DEF IInv, Applied
    <3>2. Owes(t)'
      BY <1>1, <1>3, <1>4, <2>1, <3>1, MergedFacts DEF Owes, Agree
    <3>3. \A o \in SetTasks : task'[o].pc \in {"reread", "apply"} => o = t
      BY <1>4, <1>8, <2>1, Zenon DEF Tasks
    <3>4. task'[t].pc \in {"reread", "apply"}
      BY <1>3, <1>4, Zenon
    <3>5. QED
      BY <2>1, <3>2, <3>3, <3>4, Zenon DEF Applied
  <2>2. CASE t \in ExtTasks
    <3>1. php'.settings = php.settings /\ php'.per = php.per
      BY <1>1, <2>2, MergedFacts, Zenon
    <3>2. \A o \in SetTasks : task'[o] = task[o]
      BY <1>4, <2>2, PhpSettingsAssumption, Zenon DEF Tasks
    <3>3. QED
      BY <1>1, <3>1, <3>2 DEF IInv, Applied, Agree, Owes
  <2>3. QED
    BY <2>1, <2>2, Zenon DEF Tasks
<1>10. RunningIsCurrent'
  BY <1>1, PoolsKept, Zenon
<1>11. CliFits'
  <2> SUFFICES ASSUME ~overlap' PROVE CliFits'
    BY Zenon DEF CliFits
  <2>1. ~overlap
    BY <1>1, Zenon
  <2>2. \A e \in ExtTasks : task'[e].pc # "idle" => \A o \in Tasks \ {e} : task'[o].pc = "idle"
    BY <1>1, <1>4, <2>1, Zenon DEF IInv, CliFits, Tasks
  <2>3. \A o \in Tasks : task'[o].pc # "writecli"
    BY <1>1, <1>3, <1>4, <1>8, <2>1, Zenon DEF IInv, CliFits, Tasks
  <2>4. task'[t].pc \notin {"idle", "guard", "commit"}
    BY <1>3, <1>4, Zenon
  <2>5. QED
    BY <2>2, <2>3, <2>4, Zenon DEF CliFits
<1>12. QED
  BY <1>5, <1>6, <1>7, <1>9, <1>10, <1>11, Zenon DEF IInv

\* Reread and ReadCli: a request takes a fresh copy of the config.
LEMMA ReadKeeps ==
    ASSUME IInv, NEW t \in Tasks, Reread(t) \/ ReadCli(t)
    PROVE  IInv'
<1>1. /\ task[t].pc \in {"reread", "readcli"}
      /\ UNCHANGED <<php, mgr, pool, cli, settings_mutate, overlap, budget>>
  BY Zenon DEF Reread, ReadCli
<1>2. PICK k \in Applying :
        /\ task' = [task EXCEPT ![t] = k] /\ k.pc = (IF task[t].pc = "reread" THEN "apply" ELSE "writecli")
        /\ k.op = task[t].op /\ k.v = task[t].v /\ k.x = task[t].x /\ k.snap = php
  <2>1. task \in [Tasks -> Asking \cup Applying] /\ task[t] \in Applying /\ php \in PhpSection
    BY <1>1, Zenon DEF IInv, TypeOK, Asking
  <2>2. CASE Reread(t)
    <3>1. [task[t] EXCEPT !.pc = "apply", !.snap = php] \in Applying
      BY <2>1, Zenon DEF Applying
    <3>2. QED
      BY <2>1, <2>2, <3>1, Zenon DEF Reread, Applying
  <2>3. CASE ReadCli(t)
    <3>1. [task[t] EXCEPT !.pc = "writecli", !.snap = php] \in Applying
      BY <2>1, Zenon DEF Applying
    <3>2. QED
      BY <2>1, <2>3, <3>1, Zenon DEF ReadCli, Applying
  <2>4. QED
    BY <2>2, <2>3, Zenon
<1>3. /\ task' \in [Tasks -> Asking \cup Applying] /\ task'[t] = k
      /\ \A o \in Tasks \ {t} : task'[o] = task[o]
  BY <1>2, OneMoves, Zenon DEF IInv
<1>4. TypeOK'
  BY <1>1, <1>3, Zenon DEF IInv, TypeOK
<1>5. Guarded'
  BY <1>1, <1>2, <1>3, Zenon DEF IInv, Guarded, Tasks
<1>6. AllWellAsked'
  BY <1>1, <1>2, <1>3 DEF IInv, AllWellAsked, WellAsked, Tasks
<1>7. task[t].pc = "reread" => task[t].op # "global"
  BY <1>1, Zenon DEF IInv, AllWellAsked, WellAsked
<1>8. Applied'
  <2>1. (\A o \in SetTasks : task'[o].pc \notin {"reread", "apply"}) => Agree'
    BY <1>1, <1>2, <1>3, Zenon DEF IInv, Applied, Agree, Tasks
  <2>2. ASSUME NEW o \in SetTasks, task'[o].pc \in {"reread", "apply"} PROVE Owes(o)'
    <3>1. CASE o = t
      BY <1>1, <1>2, <1>3, <1>7, <2>2, <3>1 DEF IInv, Applied, Owes
    <3>2. CASE o # t
      BY <1>1, <1>3, <2>2, <3>2 DEF IInv, Applied, Owes, Tasks
    <3>3. QED
      BY <3>1, <3>2, Zenon
  <2>3. QED
    BY <2>1, <2>2, Zenon DEF Applied
<1>9. RunningIsCurrent'
  BY <1>1, PoolsKept, Zenon
<1>10. CliFits'
  <2> SUFFICES ASSUME ~overlap' PROVE CliFits'
    BY Zenon DEF CliFits
  <2>1. ~overlap
    BY <1>1, Zenon
  <2>2. \A e \in ExtTasks : task'[e].pc # "idle" => \A o \in Tasks \ {e} : task'[o].pc = "idle"
    BY <1>1, <1>3, <2>1, Zenon DEF IInv, CliFits, Tasks
  <2>3. \A o \in Tasks : task'[o].pc = "writecli" => task'[o].snap = php'
    BY <1>1, <1>2, <1>3, <2>1, Zenon DEF IInv, CliFits
  <2>4. task'[t].pc \notin {"idle", "guard", "commit"}
    BY <1>2, <1>3, Zenon
  <2>5. QED
    BY <2>2, <2>3, <2>4, Zenon DEF CliFits
<1>11. QED
  BY <1>4, <1>5, <1>6, <1>8, <1>9, <1>10, Zenon DEF IInv

\* What the manager gets: the holder's part, which the config has too.
LEMMA PushedFacts ==
    ASSUME IInv, NEW t \in Tasks, task[t].pc = "apply", mgr' = Pushed(t), UNCHANGED php
    PROVE  /\ mgr' \in PhpSection
           /\ t \in ExtTasks => mgr'.settings = mgr.settings /\ mgr'.per = mgr.per
           /\ t \in SetTasks => Agree'
           /\ t \in SetTasks /\ task[t].op # "global" =>
                /\ mgr'.settings = mgr.settings
                /\ \A k \in Kinds, w \in Versions \ {task[t].v} : mgr'.per[k][w] = mgr.per[k][w]
<1>1. task[t] \in Applying /\ task[t].snap \in PhpSection /\ mgr \in PhpSection /\ php \in PhpSection
  BY Zenon DEF IInv, TypeOK, Asking, Applying
<1>2. t \in SetTasks => Owes(t)
  BY Zenon DEF IInv, Applied
<1>3. CASE t \in SetTasks /\ task[t].op = "global"
  <2>1. mgr' = [mgr EXCEPT !.settings = task[t].snap.settings]
    BY <1>3, Zenon DEF Pushed
  <2>2. QED
    BY <1>1, <1>2, <1>3, <2>1, PhpSettingsAssumption, Zenon DEF PhpSection, Owes, Agree
<1>4. CASE t \in SetTasks /\ task[t].op # "global"
  <2>1. task[t].op \in Kinds
    BY <1>4, Zenon DEF IInv, AllWellAsked, WellAsked
  <2>2. mgr' = [mgr EXCEPT !.per = task[t].snap.per]
    BY <1>4, <2>1, PhpSettingsAssumption, Zenon DEF Pushed
  <2>3. mgr' \in PhpSection /\ mgr'.settings = mgr.settings /\ mgr'.per = task[t].snap.per
    BY <1>1, <2>2, Zenon DEF PhpSection
  <2>4. mgr.settings = php.settings /\ task[t].snap.per = php.per
        /\ \A k \in Kinds, w \in Versions \ {task[t].v} : mgr.per[k][w] = php.per[k][w]
    BY <1>2, <1>4, Zenon DEF Owes
  <2>5. QED
    BY <1>4, <2>3, <2>4, PhpSettingsAssumption DEF Agree
<1>5. CASE t \in ExtTasks
  <2>1. task[t].op \in {"add", "remove"}
    BY <1>5, Zenon DEF IInv, AllWellAsked, WellAsked
  <2>2. mgr' = [mgr EXCEPT !.extensions = task[t].snap.extensions]
    BY <2>1, Zenon DEF Pushed
  <2>3. QED
    BY <1>1, <1>5, <2>2, PhpSettingsAssumption, Zenon DEF PhpSection
<1>6. QED
  BY <1>3, <1>4, <1>5, Zenon DEF Tasks

LEMMA PoolOfType ==
    ASSUME NEW s \in PhpSection, NEW v \in Versions
    PROVE  PoolOf(s, v) \in Rendered /\ PoolOf(s, v).settings = s.settings
BY DEF PoolOf, PhpSection, Rendered

\* Apply: the maps and the restarts under one hold of the manager's lock.
LEMMA ApplyKeeps ==
    ASSUME IInv, NEW t \in Tasks, Apply(t)
    PROVE  IInv'
<1>1. task[t].pc = "apply" /\ mgr' = Pushed(t) /\ UNCHANGED <<php, cli, settings_mutate, overlap, budget>>
  BY Zenon DEF Apply
<1>2. PICK k \in Applying :
        /\ task' = [task EXCEPT ![t] = k] /\ k.pc = "readcli"
        /\ k.op = task[t].op /\ k.x = task[t].x
  <2>1. task \in [Tasks -> Asking \cup Applying] /\ task[t] \in Applying
    BY <1>1, Zenon DEF IInv, TypeOK, Asking
  <2>2. [task[t] EXCEPT !.pc = "readcli"] \in Applying
    BY <2>1, Zenon DEF Applying
  <2>3. QED
    BY <2>1, <2>2, Zenon DEF Apply, Applying
<1>3. /\ task' \in [Tasks -> Asking \cup Applying] /\ task'[t] = k
      /\ \A o \in Tasks \ {t} : task'[o] = task[o]
  BY <1>2, OneMoves, Zenon DEF IInv
<1>4. PICK failed \in SUBSET Affected(t) :
        pool' = [v \in Versions |-> IF v \in failed THEN StartFailed
                                    ELSE IF v \in Affected(t) THEN PoolOf(mgr', v) ELSE pool[v]]
  BY Zenon DEF Apply
<1>5. /\ mgr' \in PhpSection
      /\ t \in ExtTasks => mgr'.settings = mgr.settings /\ mgr'.per = mgr.per
      /\ t \in SetTasks => Agree'
      /\ t \in SetTasks /\ task[t].op # "global" =>
           /\ mgr'.settings = mgr.settings
           /\ \A h \in Kinds, w \in Versions \ {task[t].v} : mgr'.per[h][w] = mgr.per[h][w]
  BY <1>1, PushedFacts, Zenon
<1>6. pool' \in [Versions -> {NotStarted, StartFailed} \cup Rendered]
  BY <1>4, <1>5, PoolOfType, Zenon DEF IInv, TypeOK
<1>7. TypeOK'
  BY <1>1, <1>3, <1>5, <1>6, Zenon DEF IInv, TypeOK
<1>8. Guarded'
  BY <1>1, <1>2, <1>3, Zenon DEF IInv, Guarded, Tasks
<1>9. AllWellAsked'
  BY <1>1, <1>2, <1>3 DEF IInv, AllWellAsked, WellAsked, Tasks
<1>10. Applied'
  <2>1. CASE t \in SetTasks
    <3>1. \A o \in SetTasks : task'[o].pc \notin {"reread", "apply"}
      BY <1>1, <1>2, <1>3, <2>1, Zenon DEF IInv, Guarded, Tasks
    <3>2. QED
      BY <1>5, <2>1, <3>1, Zenon DEF Applied
  <2>2. CASE t \in ExtTasks
    <3>1. \A o \in SetTasks : task'[o] = task[o]
      BY <1>3, <2>2, PhpSettingsAssumption, Zenon DEF Tasks
    <3>2. QED
      BY <1>1, <1>5, <2>2, <3>1 DEF IInv, Applied, Agree, Owes
  <2>3. QED
    BY <2>1, <2>2, Zenon DEF Tasks
<1>11. RunningIsCurrent'
  <2> SUFFICES ASSUME NEW v \in Versions, RunningPool(v)'
               PROVE  pool'[v].settings = mgr'.settings /\ pool'[v].per = PoolOf(mgr', v).per
    BY Zenon DEF RunningIsCurrent, PoolOf
  <2>1. CASE v \in Affected(t)
    <3>1. pool'[v] = PoolOf(mgr', v)
      BY <1>4, <2>1, Zenon DEF RunningPool
    <3>2. QED
      BY <1>5, <3>1, PoolOfType, Zenon
  <2>2. CASE v \notin Affected(t)
    <3>1. pool'[v] = pool[v] /\ RunningPool(v)
      BY <1>4, <2>2, Zenon DEF RunningPool
    <3>2. pool[v].settings = mgr.settings /\ pool[v].per = PoolOf(mgr, v).per
      BY <3>1, Zenon DEF IInv, RunningIsCurrent
    <3>3. task[t].op # "global" /\ v # task[t].v
      BY <2>2, <3>1, Zenon DEF Affected, RunningPool
    <3>4. mgr'.settings = mgr.settings /\ \A h \in Kinds : mgr'.per[h][v] = mgr.per[h][v]
      BY <1>5, <3>3, Zenon DEF Tasks
    <3>5. PoolOf(mgr', v).per = PoolOf(mgr, v).per
      BY <3>4, Zenon DEF PoolOf
    <3>6. QED
      BY <3>1, <3>2, <3>4, <3>5, Zenon
  <2>3. QED
    BY <2>1, <2>2, Zenon
<1>12. CliFits'
  <2> SUFFICES ASSUME ~overlap' PROVE CliFits'
    BY Zenon DEF CliFits
  <2>1. ~overlap
    BY <1>1, Zenon
  <2>2. \A e \in ExtTasks : task'[e].pc # "idle" => \A o \in Tasks \ {e} : task'[o].pc = "idle"
    BY <1>1, <1>3, <2>1, Zenon DEF IInv, CliFits, Tasks
  <2>3. \A o \in Tasks : task'[o].pc = "writecli" => task'[o].snap = php'
    BY <1>1, <1>2, <1>3, <2>1, Zenon DEF IInv, CliFits
  <2>4. task'[t].pc \notin {"idle", "guard", "commit"}
    BY <1>2, <1>3, Zenon
  <2>5. QED
    BY <2>2, <2>3, <2>4, Zenon DEF CliFits
<1>13. QED
  BY <1>7, <1>8, <1>9, <1>10, <1>11, <1>12, Zenon DEF IInv

\* WriteCli: the last step of a request.
LEMMA WriteCliKeeps ==
    ASSUME IInv, NEW t \in Tasks, WriteCli(t)
    PROVE  IInv'
<1>1. /\ task[t].pc = "writecli" /\ End(t) /\ UNCHANGED <<php, mgr, pool, overlap, budget>>
      /\ cli' = [v \in Versions |-> CliOf(task[t].snap, v)]
  BY Zenon DEF WriteCli
<1>2. /\ task' \in [Tasks -> Asking \cup Applying] /\ task'[t].pc = "idle"
      /\ \A o \in Tasks \ {t} : task'[o] = task[o]
      /\ settings_mutate' \in SetTasks \cup {NoTask} /\ Guarded' /\ AllWellAsked'
  BY <1>1, EndFacts, Zenon
<1>3. task[t].snap \in PhpSection
  BY <1>1, Zenon DEF IInv, TypeOK, Asking, Applying
<1>4. cli' \in [Versions -> CliRendered]
  <2>1. \A v \in Versions : CliOf(task[t].snap, v) \in CliRendered
    BY <1>3 DEF CliOf, CliRendered, PhpSection
  <2>2. QED
    BY <1>1, <2>1, Zenon
<1>5. TypeOK'
  BY <1>1, <1>2, <1>4, Zenon DEF IInv, TypeOK
<1>6. Applied'
  BY <1>1, <1>2 DEF IInv, Applied, Agree, Owes, Tasks
<1>7. RunningIsCurrent'
  BY <1>1, PoolsKept, Zenon
<1>8. CliFits'
  <2> SUFFICES ASSUME ~overlap' PROVE CliFits'
    BY Zenon DEF CliFits
  <2>1. ~overlap
    BY <1>1, Zenon
  <2>2. \A e \in ExtTasks : task'[e].pc # "idle" => \A o \in Tasks \ {e} : task'[o].pc = "idle"
    BY <1>1, <1>2, <2>1, Zenon DEF IInv, CliFits, Tasks
  <2>3. \A o \in Tasks : task'[o].pc = "writecli" => task'[o].snap = php'
    BY <1>1, <1>2, <2>1, Zenon DEF IInv, CliFits
  <2>4. task[t].snap = php
    BY <1>1, <2>1, Zenon DEF IInv, CliFits
  <2>5. \A w \in Versions : cli'[w] = CliOf(php, w)'
    BY <1>1, <2>4, Zenon DEF CliOf
  <2>6. QED
    BY <2>2, <2>3, <2>5, Zenon DEF CliFits
<1>9. QED
  BY <1>2, <1>5, <1>6, <1>7, <1>8, Zenon DEF IInv

\* A pool starts from the manager's copies, or stops, whatever requests do.
LEMMA PoolStepKeeps ==
    ASSUME IInv, NEW v \in Versions, Ensure(v) \/ PoolStops(v)
    PROVE  IInv'
<1>1. UNCHANGED <<php, mgr, cli, settings_mutate, task, overlap, budget>>
  BY Zenon DEF Ensure, PoolStops
<1>2. pool' \in {[pool EXCEPT ![v] = PoolOf(mgr, v)], [pool EXCEPT ![v] = StartFailed], [pool EXCEPT ![v] = NotStarted]}
  BY Zenon DEF Ensure, PoolStops
<1>3. pool' \in [Versions -> {NotStarted, StartFailed} \cup Rendered]
  BY <1>2, PoolOfType DEF IInv, TypeOK
<1>4. TypeOK'
  BY <1>1, <1>3, Zenon DEF IInv, TypeOK
<1>5. Guarded' /\ AllWellAsked' /\ Applied'
  BY <1>1 DEF IInv, Guarded, AllWellAsked, WellAsked, Applied, Agree, Owes
<1>6. RunningIsCurrent'
  <2> SUFFICES ASSUME NEW w \in Versions, RunningPool(w)'
               PROVE  pool'[w].settings = mgr'.settings /\ pool'[w].per = PoolOf(mgr', w).per
    BY Zenon DEF RunningIsCurrent, PoolOf
  <2>1. CASE w = v
    <3>1. pool'[v] = PoolOf(mgr, v)
      BY <1>2, <2>1, Zenon DEF RunningPool, IInv, TypeOK
    <3>2. QED
      BY <1>1, <2>1, <3>1, PoolOfType DEF IInv, TypeOK
  <2>2. CASE w # v
    <3>1. pool'[w] = pool[w]
      BY <1>2, <2>2, Zenon DEF IInv, TypeOK
    <3>2. QED
      BY <1>1, <3>1, Zenon DEF IInv, RunningIsCurrent, RunningPool
  <2>3. QED
    BY <2>1, <2>2, Zenon
<1>7. CliFits'
  BY <1>1, Zenon DEF IInv, CliFits, CliOf
<1>8. QED
  BY <1>4, <1>5, <1>6, <1>7, Zenon DEF IInv

-----------------------------------------------------------------------------
\* IInv is inductive, in whatever order requests, pool starts and stops
\* interleave.
THEOREM Inductive == Spec => []IInv
<1>1. Init => IInv
  BY InitInv, Zenon
<1>2. IInv /\ [Next]_vars => IInv'
  <2> SUFFICES ASSUME IInv, [Next]_vars PROVE IInv'
    BY Zenon
  <2>1. CASE \E t \in SetTasks, x \in Values : set_php_settings(t, x)
    <3>1. PICK t \in SetTasks, x \in Values : Request(t, "global", Idle.v, x)
      BY <2>1, Zenon DEF set_php_settings
    <3>2. Idle.v \in Versions /\ "global" \in Ops /\ t \in Tasks /\ t \notin ExtTasks
      BY PhpSettingsAssumption, Zenon DEF Idle, Ops, Tasks
    <3>3. QED
      BY <3>1, <3>2, RequestKeeps, Zenon
  <2>2. CASE \E t \in SetTasks, k \in Kinds, v \in Versions, x \in Values : set_php_version(t, k, v, x)
    <3>1. PICK t \in SetTasks, k \in Kinds, v \in Versions, x \in Values : Request(t, k, v, x)
      BY <2>2, Zenon DEF set_php_version
    <3>2. k \in Ops /\ t \in Tasks /\ t \notin ExtTasks
      BY PhpSettingsAssumption, Zenon DEF Ops, Tasks
    <3>3. QED
      BY <3>1, <3>2, RequestKeeps, Zenon
  <2>3. CASE \E t \in ExtTasks, v \in Versions, e \in Exts : add_php_extension(t, v, e) \/ remove_php_extension(t, v, e)
    <3>1. PICK t \in ExtTasks, v \in Versions, e \in Exts, op \in {"add", "remove"} : Request(t, op, v, e)
      BY <2>3, Zenon DEF add_php_extension, remove_php_extension
    <3>2. op \in Ops /\ t \in Tasks /\ t \notin SetTasks
      BY PhpSettingsAssumption, Zenon DEF Ops, Tasks
    <3>3. QED
      BY <3>1, <3>2, RequestKeeps, Zenon
  <2>4. CASE \E t \in Tasks : Step(t)
    BY <2>4, GuardKeeps, RefusedKeeps, CommitKeeps, ReadKeeps, ApplyKeeps, WriteCliKeeps, Zenon DEF Step
  <2>5. CASE \E v \in Versions : Ensure(v) \/ PoolStops(v)
    BY <2>5, PoolStepKeeps, Zenon
  <2>6. CASE UNCHANGED vars
    <3>1. TypeOK' /\ Guarded' /\ AllWellAsked'
      BY <2>6, Zenon DEF vars, IInv, TypeOK, Guarded, AllWellAsked, WellAsked
    <3>2. Applied'
      BY <2>6 DEF vars, IInv, Applied, Agree, Owes
    <3>3. CliFits' /\ RunningIsCurrent'
      <4>1. UNCHANGED <<php, mgr, pool, cli, task, overlap>>
        BY <2>6, Zenon DEF vars
      <4>2. CliFits'
        BY <4>1 DEF IInv, CliFits, CliOf
      <4>3. QED
        BY <4>1, <4>2, PoolsKept, Zenon
    <3>4. QED
      BY <3>1, <3>2, <3>3, Zenon DEF IInv
  <2>7. QED
    BY <2>1, <2>2, <2>3, <2>4, <2>5, <2>6, Zenon DEF Next
<1>3. QED
  BY <1>1, <1>2, PTL DEF Spec

\* PHP settings are in effect, however set_php_settings, the per-version
\* requests, the extension requests and the starts of pools overlap: whenever no
\* settings request is past its guard the manager has the config's settings, at
\* every moment the pools that run have the manager's, and with no request in
\* flight every version's CLI ini is the config's, unless an extension request,
\* which takes no guard, has overlapped with another.
THEOREM SettingsInEffectAlways == Spec => []SettingsInEffect
<1>1. IInv => SettingsApplied /\ RunningIsCurrent
  BY PhpSettingsAssumption, Zenon DEF IInv, Guarded, Applied, Agree, SettingsApplied
<1>2. IInv => CliIniCurrent
  BY Zenon DEF IInv, CliFits, CliIniCurrent, AtRest
<1>3. IInv => SettingsInEffect
  BY <1>1, <1>2, Zenon DEF IInv, SettingsInEffect
<1>4. QED
  BY Inductive, <1>3, PTL
-----------------------------------------------------------------------------
(* PHP versions.                                                             *)

\* Past the wait for php_mutate, or for a remover from its start.
Active(t) == req[t].pc \notin {"idle", "lock"}

\* Where a task can be, by its request, and when it has a version.
Form(t) ==
    /\ t \in Installers => /\ req[t].pc \in {"idle", "lock", "stage", "clear", "rename", "discover", "binaries",
                                             "adopt", "shimlock", "prune"}
                           /\ req[t].pc # "idle" => req[t].v \in Minors
    /\ t \in Updaters => /\ req[t].pc \in {"idle", "lock", "pick", "stage", "clear", "rename", "restart", "poll"}
                         /\ req[t].pc \in {"stage", "clear", "rename"} => req[t].v \in Minors
    /\ t \in Removers => /\ req[t].pc \in {"idle", "check", "stop", "remove", "discover", "binaries", "shimlock",
                                           "prune"}
                         /\ req[t].pc # "idle" => req[t].v \in Minors
Forms == \A t \in Requesters : Form(t)

\* php_mutate: an install or update past its wait holds it.
Holds == \A t \in Installers \cup Updaters : Active(t) <=> mutate = t

\* Without overlap an uninstall is alone.
Alone ==
    Without({"overlap"}) =>
      \A r \in Removers : req[r].pc # "idle" => \A o \in Requesters \ {r} : req[o].pc = "idle"

\* What the daemon knows is what is installed, but for what the one task that
\* has changed a directory has yet to tell.
Quiet == Without({"overlap", "rename"})
Clean == binaries = Installed /\ shims = Installed
Dirty(t) ==
    IF t \in Updaters THEN req[t].pc = "rename"
    ELSE req[t].pc \in {"rename", "discover", "binaries", "adopt", "shimlock", "prune"}
Owed(t) ==
    /\ req[t].pc \in {"binaries", "prune"} => req[t].snap = Installed
    /\ req[t].pc \in {"adopt", "shimlock", "prune"} => binaries = Installed
    /\ t \in Updaters /\ req[t].pc \in {"stage", "clear"} => req[t].v \in Installed
    /\ t \in Updaters /\ req[t].pc = "rename" => binaries = Installed \cup {req[t].v} /\ shims = binaries
Known == Quiet => ((\A t \in Requesters : ~Dirty(t)) => Clean) /\ \A t \in Requesters : Owed(t)

\* Nothing has changed since uninstall_php's checks.
Unneeded(t) ==
    t \in Removers /\ req[t].pc \in {"stop", "remove"} =>
      /\ \A s \in DOMAIN versionOf : versionOf[s] # req[t].v
      /\ default = req[t].v => Cardinality(Installed) <= 1
RestartedBy(t) ==
    t \in Updaters /\ req[t].pc = "poll" => \A v \in req[t].updated : master[v] \in {0, patch[v]}
Lone == Without({"overlap"}) => \A t \in Requesters : Unneeded(t) /\ RestartedBy(t)

VInv == VersionsTypeOK /\ Forms /\ Holds /\ Alone /\ Known /\ Lone

-----------------------------------------------------------------------------
LEMMA VersionsInitInv == VersionsInit => VInv
<1> SUFFICES ASSUME VersionsInit PROVE VInv
  BY Zenon
<1>1. NoRequest \in Requests /\ NoRequest.pc = "idle" /\ \A t \in Requesters : req[t] = NoRequest
  BY Zenon DEF VersionsInit, NoRequest, Requests, Pcs
<1>2. 0 \in Patches /\ 1 \in 1 .. MaxPatch /\ 0 .. 1 \subseteq Patches /\ MaxAsked \in 0 .. MaxAsked
  BY VersionsAssumption DEF Patches
<1>3. /\ patch \in [Minors -> Patches] /\ listing \in [Minors -> 1 .. MaxPatch] /\ master \in [Minors -> Patches]
      /\ quota \in 0 .. MaxAsked
  BY <1>2, Zenon DEF VersionsInit
<1>4. /\ binaries \subseteq Minors /\ shims \subseteq Minors
      /\ default \in Minors \ Legacy /\ pin \in [Sites -> Minors \cup {Unset}]
      /\ mutate \in Installers \cup Updaters \cup {Unset} /\ reconcile \in Requesters \cup {Unset}
      /\ mishaps \subseteq Mishaps
  BY Zenon DEF VersionsInit, Installed
<1>5. DOMAIN versionOf \subseteq Sites /\ \A s \in DOMAIN versionOf : versionOf[s] \in Minors
  BY Zenon DEF VersionsInit, Resolve
<1>6. req \in [Requesters -> Requests]
  BY <1>1, Zenon DEF VersionsInit
<1>7. VersionsTypeOK
  BY <1>3, <1>4, <1>5, <1>6, Zenon DEF VersionsTypeOK
<1>8. Forms /\ Holds /\ Alone
  BY <1>1, VersionsAssumption, Zenon DEF VersionsInit, Forms, Form, Holds, Active, Alone, Requesters
<1>9. Known
  BY <1>1, Zenon DEF VersionsInit, Known, Clean, Owed
<1>10. Lone
  BY <1>1, Zenon DEF Lone, Unneeded, RestartedBy
<1>11. QED
  BY <1>7, <1>8, <1>9, <1>10, Zenon DEF VInv

\* A mishap is never forgotten.
LEMMA Sooner == ASSUME mishaps \subseteq mishaps', NEW S PROVE Without(S)' => Without(S)
BY Zenon DEF Without

\* The patches and the quota are in their ranges.
LEMMA Ranges ==
    ASSUME VInv
    PROVE  /\ patch \in [Minors -> Patches] /\ master \in [Minors -> Patches] /\ 0 \in Patches
           /\ \A v \in Minors : listing[v] \in Patches /\ listing[v] # 0
           /\ quota \in 0 .. MaxAsked
<1>1. /\ patch \in [Minors -> Patches] /\ master \in [Minors -> Patches] /\ listing \in [Minors -> 1 .. MaxPatch]
      /\ quota \in 0 .. MaxAsked
  BY Zenon DEF VInv, VersionsTypeOK
<1>2. 0 \in Patches /\ \A x \in 1 .. MaxPatch : x \in Patches /\ x # 0
  BY VersionsAssumption DEF Patches
<1>3. QED
  BY <1>1, <1>2, Zenon

\* A counter that is not yet 0 stays in its range when it goes down.
LEMMA Decreased == \A n \in Nat : \A q \in 0 .. n : q > 0 => q - 1 \in 0 .. n
OBVIOUS

\* The form of a task only changes with its request.
LEMMA SameForm == ASSUME NEW o, req'[o] = req[o], Form(o) PROVE Form(o)'
BY Zenon DEF Form

\* What a task owes only changes with its request, or with what is installed
\* and known.
LEMMA SameDebt ==
    ASSUME NEW o, req'[o] = req[o], Installed' = Installed, binaries' = binaries, shims' = shims
    PROVE  (Dirty(o)' <=> Dirty(o)) /\ (Owed(o) => Owed(o)')
<1>1. Dirty(o)' <=> Dirty(o)
  BY Zenon DEF Dirty
<1>2. Owed(o) => Owed(o)'
  BY Zenon DEF Owed
<1>3. QED
  BY <1>1, <1>2, Zenon

\* Without overlap one task at a time is past its wait.
LEMMA OneActive ==
    ASSUME VInv, Without({"overlap"}), NEW t \in Requesters, NEW o \in Requesters, Active(t), Active(o)
    PROVE  t = o
<1>1. CASE t \in Removers \/ o \in Removers
  BY <1>1, Zenon DEF VInv, Alone, Active
<1>2. CASE t \notin Removers /\ o \notin Removers
  BY <1>2, Zenon DEF VInv, Holds, Requesters
<1>3. QED
  BY <1>1, <1>2, Zenon

\* How a step of t treats php_mutate: it keeps it, takes it, or ends.
Keeps(t) == mutate' = mutate /\ (Active(t) <=> Active(t)')
Takes(t) == t \notin Removers /\ mutate = Unset /\ mutate' = t /\ Active(t)'
Leaves(t) == ~Active(t)' /\ mutate' = IF mutate = t THEN Unset ELSE mutate

\* A step of a task that is under way: the forms, the lock and the solitude.
LEMMA TaskMoves ==
    ASSUME VInv, NEW t \in Requesters, NEW k \in Requests, req' = [req EXCEPT ![t] = k], req[t].pc # "idle",
           Form(t)', Keeps(t) \/ Takes(t) \/ Leaves(t), mishaps \subseteq mishaps'
    PROVE  /\ req' \in [Requesters -> Requests] /\ mutate' \in Installers \cup Updaters \cup {Unset}
           /\ req'[t] = k /\ \A o \in Requesters \ {t} : req'[o] = req[o]
           /\ Forms' /\ Holds' /\ Alone'
<1>1. req' \in [Requesters -> Requests] /\ req'[t] = k /\ \A o \in Requesters \ {t} : req'[o] = req[o]
  BY Zenon DEF VInv, VersionsTypeOK
<1>2. mutate' \in Installers \cup Updaters \cup {Unset}
  BY Zenon DEF VInv, VersionsTypeOK, Keeps, Takes, Leaves, Requesters
<1>3. Forms'
  <2>1. ASSUME NEW o \in Requesters \ {t} PROVE Form(o)'
    BY <1>1, SameForm, Zenon DEF VInv, Forms
  <2>2. QED
    BY <2>1, Zenon DEF Forms
<1>4. ASSUME NEW o \in Installers \cup Updaters PROVE Active(o)' <=> mutate' = o
  <2>1. o \in Requesters /\ (Active(o) <=> mutate = o) /\ o # Unset
    BY VersionsAssumption, Zenon DEF VInv, Holds, Requesters
  <2>2. CASE o # t
    <3>1. Active(o)' <=> Active(o)
      BY <1>1, <2>1, <2>2, Zenon DEF Active
    <3>2. QED
      BY <2>1, <2>2, <3>1, Zenon DEF Keeps, Takes, Leaves
  <2>3. CASE o = t
    BY <2>1, <2>3, Zenon DEF Keeps, Takes, Leaves
  <2>4. QED
    BY <2>2, <2>3, Zenon
<1>5. Holds'
  BY <1>4, Zenon DEF Holds
<1>6. Alone'
  <2> SUFFICES ASSUME Without({"overlap"})', NEW r \in Removers, req'[r].pc # "idle", NEW o \in Requesters \ {r}
               PROVE  req'[o].pc = "idle"
    BY Zenon DEF Alone
  <2>1. Without({"overlap"}) /\ r \in Requesters
    BY Sooner, Zenon DEF Requesters
  <2>2. req[r].pc # "idle"
    BY <1>1, <2>1, Zenon
  <2>3. req[o].pc = "idle" /\ o # t
    BY <2>1, <2>2, Zenon DEF VInv, Alone
  <2>4. QED
    BY <1>1, <2>3, Zenon
<1>7. QED
  BY <1>1, <1>2, <1>3, <1>5, <1>6, Zenon

\* A step of the task that is past its wait: what the others owe has not
\* changed, as there are none.
LEMMA ActiveStep ==
    ASSUME VInv, NEW t \in Requesters, NEW k \in Requests, req' = [req EXCEPT ![t] = k], Active(t),
           Form(t)', Keeps(t) \/ Leaves(t), mishaps \subseteq mishaps',
           Quiet' => (~Dirty(t)' => Clean') /\ Owed(t)',
           Without({"overlap"}) => Unneeded(t)' /\ RestartedBy(t)'
    PROVE  /\ req' \in [Requesters -> Requests] /\ mutate' \in Installers \cup Updaters \cup {Unset}
           /\ Forms' /\ Holds' /\ Alone' /\ Known' /\ Lone'
<1>1. /\ req' \in [Requesters -> Requests] /\ mutate' \in Installers \cup Updaters \cup {Unset}
      /\ req'[t] = k /\ \A o \in Requesters \ {t} : req'[o] = req[o]
      /\ Forms' /\ Holds' /\ Alone'
  BY TaskMoves, ZenonT(30) DEF Active
<1>2. Without({"overlap"}) => \A o \in Requesters \ {t} : req'[o].pc \in {"idle", "lock"}
  BY <1>1, OneActive, Zenon DEF Active
<1>3. Quiet' => Without({"overlap"})
  BY Sooner, Zenon DEF Quiet, Without
<1>4. Known'
  BY <1>2, <1>3, Zenon DEF Known, Dirty, Owed
<1>5. Lone'
  BY <1>2, Sooner, Zenon DEF Lone, Unneeded, RestartedBy
<1>6. QED
  BY <1>1, <1>4, <1>5, Zenon

LEMMA CleanBefore == ASSUME VInv, Quiet, NEW t \in Requesters, Active(t), ~Dirty(t) PROVE Clean
<1>1. Without({"overlap"})
  BY Zenon DEF Quiet, Without
<1>2. \A o \in Requesters \ {t} : req[o].pc \in {"idle", "lock"}
  BY <1>1, OneActive, Zenon DEF Active
<1>3. QED
  BY <1>2, Zenon DEF VInv, Known, Dirty

LEMMA Goes ==
    ASSUME VInv, NEW t \in Requesters, NEW pc \in Pcs, Goto(t, pc)
    PROVE  LET k == [req[t] EXCEPT !.pc = pc]
           IN  /\ k \in Requests /\ req' = [req EXCEPT ![t] = k] /\ req'[t] = k
               /\ k.pc = pc /\ k.v = req[t].v /\ k.todo = req[t].todo /\ k.updated = req[t].updated /\ k.snap = req[t].snap
BY Zenon DEF VInv, VersionsTypeOK, Requests, Goto

LEMMA Ends ==
    ASSUME VInv, NEW t \in Requesters, EndTask(t)
    PROVE  /\ NoRequest \in Requests /\ NoRequest.pc = "idle" /\ req' = [req EXCEPT ![t] = NoRequest]
           /\ req'[t] = NoRequest /\ Leaves(t) /\ Form(t)' /\ ~Dirty(t)' /\ Owed(t)' /\ Unneeded(t)' /\ RestartedBy(t)'
<1>1. NoRequest \in Requests /\ NoRequest.pc = "idle"
  BY Zenon DEF NoRequest, Requests, Pcs
<1>2. req' = [req EXCEPT ![t] = NoRequest] /\ req'[t] = NoRequest
  BY Zenon DEF EndTask, VInv, VersionsTypeOK
<1>3. QED
  BY <1>1, <1>2, Zenon DEF EndTask, Leaves, Active, Form, Dirty, Owed, Unneeded, RestartedBy

\* A step that changes no more than the task and its locks.
LEMMA StillStep ==
    ASSUME VInv, NEW t \in Requesters, NEW k \in Requests, req' = [req EXCEPT ![t] = k], Active(t),
           UNCHANGED <<files, config, binaries, master, books>>, reconcile' \in Requesters \cup {Unset},
           Form(t)', Keeps(t) \/ Leaves(t), Dirty(t) => Dirty(t)', Quiet => Owed(t)',
           Without({"overlap"}) => Unneeded(t)', req'[t].pc # "poll"
    PROVE  VInv'
<1>1. UNCHANGED <<patch, listing, shims, default, pin, versionOf, binaries, master, mishaps, quota>>
  BY Zenon DEF files, config, books
<1>2. Installed' = Installed /\ (Quiet' <=> Quiet) /\ mishaps \subseteq mishaps'
  BY <1>1, Zenon DEF Installed, Quiet, Without
<1>3. Quiet' => (~Dirty(t)' => Clean')
  BY <1>1, <1>2, CleanBefore, Zenon DEF Clean
<1>4. RestartedBy(t)'
  BY Zenon DEF RestartedBy
<1>5. /\ req' \in [Requesters -> Requests] /\ mutate' \in Installers \cup Updaters \cup {Unset}
      /\ Forms' /\ Holds' /\ Alone' /\ Known' /\ Lone'
  BY <1>2, <1>3, <1>4, ActiveStep, Zenon
<1>6. VersionsTypeOK'
  BY <1>1, <1>5, Zenon DEF VInv, VersionsTypeOK
<1>7. QED
  BY <1>5, <1>6, Zenon DEF VInv

\* Stage, UpdateFails, Pick: an install or update before it changes anything.
LEMMA StageKeeps == ASSUME VInv, NEW t \in Requesters, Stage(t) PROVE VInv'
<1> DEFINE k == [req[t] EXCEPT !.pc = "clear"]
<1>1. /\ req[t].pc = "stage" /\ Goto(t, "clear") /\ Form(t) /\ "clear" \in Pcs
      /\ UNCHANGED <<files, config, binaries, master, books, mutate, reconcile>>
  BY Zenon DEF Stage, VInv, Forms, Pcs
<1>2. k \in Requests /\ req' = [req EXCEPT ![t] = k] /\ req'[t] = k /\ k.pc = "clear" /\ k.v = req[t].v
  BY <1>1, Goes
<1> HIDE DEF k
<1>3. Active(t) /\ Active(t)' /\ Keeps(t) /\ Form(t)' /\ ~Dirty(t) /\ Unneeded(t)'
  BY <1>1, <1>2, Zenon DEF Active, Keeps, Form, Dirty, Unneeded
<1>4. Quiet => Owed(t)'
  BY <1>1, <1>2, Zenon DEF VInv, Known, Owed, Installed, files
<1>5. reconcile' \in Requesters \cup {Unset}
  BY <1>1, Zenon DEF VInv, VersionsTypeOK
<1>6. QED
  BY <1>1, <1>2, <1>3, <1>4, <1>5, StillStep, Zenon

LEMMA UpdateFailsKeeps == ASSUME VInv, NEW t \in Requesters, UpdateFails(t) PROVE VInv'
<1> DEFINE k == [req[t] EXCEPT !.pc = "restart"]
<1>1. /\ t \in Updaters /\ req[t].pc \in {"stage", "pick"} /\ Goto(t, "restart") /\ Form(t) /\ "restart" \in Pcs
      /\ UNCHANGED <<files, config, binaries, master, books, mutate, reconcile>>
  BY Zenon DEF UpdateFails, VInv, Forms, Pcs
<1>2. k \in Requests /\ req' = [req EXCEPT ![t] = k] /\ req'[t] = k /\ k.pc = "restart"
  BY <1>1, Goes
<1> HIDE DEF k
<1>3. Active(t) /\ Active(t)' /\ Keeps(t) /\ Form(t)' /\ ~Dirty(t) /\ Unneeded(t)' /\ Owed(t)'
  BY <1>1, <1>2, VersionsAssumption, Zenon DEF Active, Keeps, Form, Dirty, Unneeded, Owed
<1>5. reconcile' \in Requesters \cup {Unset}
  BY <1>1, Zenon DEF VInv, VersionsTypeOK
<1>6. QED
  BY <1>1, <1>2, <1>3, <1>5, StillStep, Zenon

LEMMA PickKeeps == ASSUME VInv, NEW t \in Requesters, Pick(t) PROVE VInv'
<1>1. /\ req[t].pc = "pick" /\ Form(t) /\ req[t] \in Requests
      /\ UNCHANGED <<files, config, binaries, master, books, mutate, reconcile>>
  BY ZenonT(30) DEF Pick, VInv, Forms, VersionsTypeOK
<1>2. t \in Updaters /\ t \notin Installers /\ t \notin Removers
  BY <1>1, ZenonT(30) DEF Form, Requesters
<1>3. PICK k \in Requests : /\ req' = [req EXCEPT ![t] = k] /\ req'[t] = k /\ k.pc \in {"pick", "stage", "restart"}
                            /\ k.pc = "stage" => k.v \in Installed
  <2>1. CASE req[t].todo = {} /\ Goto(t, "restart")
    BY <2>1, Goes, Zenon DEF Pcs
  <2>2. CASE \E v \in req[t].todo :
               req' = [req EXCEPT ![t].todo = @ \ {v}, ![t].v = v,
                                  ![t].pc = IF patch[v] \in 1 .. listing[v] - 1 THEN "stage" ELSE "pick"]
    <3>1. PICK v \in req[t].todo :
               req' = [req EXCEPT ![t].todo = @ \ {v}, ![t].v = v,
                                  ![t].pc = IF patch[v] \in 1 .. listing[v] - 1 THEN "stage" ELSE "pick"]
      BY <2>2, Zenon
    <3> DEFINE pc == IF patch[v] \in 1 .. listing[v] - 1 THEN "stage" ELSE "pick"
    <3> DEFINE k == [req[t] EXCEPT !.todo = req[t].todo \ {v}, !.v = v, !.pc = pc]
    <3>2. v \in Minors /\ pc \in Pcs /\ pc \in {"pick", "stage"}
      BY <1>1, Zenon DEF Requests, Pcs
    <3>3. pc = "stage" => v \in Installed
      <4>1. patch[v] \in Nat /\ listing[v] \in Nat
        BY <3>2, VersionsAssumption DEF VInv, VersionsTypeOK, Patches
      <4>2. QED
        BY <3>2, <4>1 DEF Installed
    <3> HIDE DEF pc
    <3>4. k \in Requests /\ k.pc = pc /\ k.v = v
      BY <1>1, <3>2, Zenon DEF Requests
    <3>5. req' = [req EXCEPT ![t] = k]
      BY <3>1, ZenonT(30) DEF pc, VInv, VersionsTypeOK
    <3> HIDE DEF k
    <3>6. req'[t] = k
      BY <3>5, Zenon DEF VInv, VersionsTypeOK
    <3>7. QED
      BY <3>2, <3>3, <3>4, <3>5, <3>6, Zenon
  <2>3. QED
    BY <2>1, <2>2, ZenonT(30) DEF Pick
<1>4. k.pc = "stage" => k.v \in Minors
  BY <1>3, ZenonT(30) DEF Installed
<1>5. Active(t) /\ Active(t)' /\ Keeps(t) /\ Form(t)' /\ ~Dirty(t) /\ Unneeded(t)' /\ req'[t].pc # "poll"
  BY <1>1, <1>2, <1>3, <1>4, Zenon DEF Active, Keeps, Form, Dirty, Unneeded
<1>6. Owed(t)'
  BY <1>1, <1>3, Zenon DEF Owed, Installed, files
<1>7. reconcile' \in Requesters \cup {Unset}
  BY <1>1, Zenon DEF VInv, VersionsTypeOK
<1>8. QED
  BY <1>1, <1>3, <1>5, <1>6, <1>7, StillStep, ZenonT(30)

\* Poll, and Cancel of a download: the request ends.
LEMMA EndKeeps ==
    ASSUME VInv, NEW t \in Requesters, EndTask(t), req[t].pc \in {"stage", "poll", "check"},
           UNCHANGED <<files, config, binaries, master, books, reconcile>>
    PROVE  VInv'
<1>1. /\ NoRequest \in Requests /\ NoRequest.pc = "idle" /\ req' = [req EXCEPT ![t] = NoRequest]
      /\ req'[t] = NoRequest /\ Leaves(t) /\ Form(t)' /\ ~Dirty(t)' /\ Owed(t)' /\ Unneeded(t)'
  BY Ends, Zenon
<1>2. Active(t) /\ ~Dirty(t)
  BY Zenon DEF Active, Dirty
<1>3. reconcile' \in Requesters \cup {Unset}
  BY Zenon DEF VInv, VersionsTypeOK
<1>4. QED
  BY <1>1, <1>2, <1>3, StillStep, Zenon

\* Lock, and Cancel of the wait for it: the world is as it was.
LEMMA WaitStep ==
    ASSUME VInv, NEW t \in Requesters, NEW k \in Requests, req' = [req EXCEPT ![t] = k], req[t].pc = "lock",
           UNCHANGED <<files, config, binaries, master, books, reconcile>>, Takes(t) \/ Leaves(t),
           Form(t)', ~Dirty(t)', Owed(t)', Unneeded(t)', RestartedBy(t)'
    PROVE  VInv'
<1>1. UNCHANGED <<patch, listing, shims, default, pin, versionOf, binaries, master, mishaps, quota>>
  BY Zenon DEF files, config, books
<1>2. /\ req' \in [Requesters -> Requests] /\ mutate' \in Installers \cup Updaters \cup {Unset}
      /\ req'[t] = k /\ \A o \in Requesters \ {t} : req'[o] = req[o]
      /\ Forms' /\ Holds' /\ Alone'
  BY <1>1, TaskMoves, ZenonT(30)
<1>3. Installed' = Installed /\ (Quiet' <=> Quiet) /\ (Without({"overlap"})' <=> Without({"overlap"}))
  BY <1>1, Zenon DEF Installed, Quiet, Without
<1>4. ~Dirty(t)
  BY Zenon DEF Dirty
<1>5. ASSUME NEW o \in Requesters \ {t}
      PROVE  /\ Dirty(o)' <=> Dirty(o)
             /\ Owed(o) => Owed(o)'
             /\ Unneeded(o) => Unneeded(o)'
             /\ RestartedBy(o) => RestartedBy(o)'
  <2>1. req'[o] = req[o]
    BY <1>2, Zenon
  <2>2. (Dirty(o)' <=> Dirty(o)) /\ (Owed(o) => Owed(o)')
    BY <1>1, <1>3, <2>1, SameDebt, Zenon
  <2>3. (Unneeded(o) => Unneeded(o)') /\ (RestartedBy(o) => RestartedBy(o)')
    BY <1>1, <1>3, <2>1, Zenon DEF Unneeded, RestartedBy
  <2>4. QED
    BY <2>2, <2>3, Zenon
<1>6. Known'
  <2> SUFFICES ASSUME Quiet PROVE ((\A o \in Requesters : ~Dirty(o)') => Clean') /\ \A o \in Requesters : Owed(o)'
    BY <1>3, Zenon DEF Known
  <2>1. ((\A o \in Requesters : ~Dirty(o)) => Clean) /\ \A o \in Requesters : Owed(o)
    BY Zenon DEF VInv, Known
  <2>2. Clean => Clean'
    BY <1>1, <1>3, Zenon DEF Clean
  <2>3. QED
    BY <1>4, <1>5, <2>1, <2>2, Zenon
<1>7. Lone'
  BY <1>3, <1>5, Zenon DEF VInv, Lone
<1>8. VersionsTypeOK'
  BY <1>1, <1>2, Zenon DEF VInv, VersionsTypeOK
<1>9. QED
  BY <1>2, <1>6, <1>7, <1>8, Zenon DEF VInv

LEMMA LockKeeps == ASSUME VInv, NEW t \in Requesters, Lock(t) PROVE VInv'
<1> DEFINE pc == IF t \in Installers THEN "stage" ELSE "pick"
<1> DEFINE k == [req[t] EXCEPT !.pc = pc]
<1>1. /\ req[t].pc = "lock" /\ mutate = Unset /\ mutate' = t /\ Goto(t, pc) /\ Form(t) /\ pc \in Pcs
      /\ UNCHANGED <<files, config, binaries, master, books, reconcile>>
  BY Zenon DEF Lock, VInv, Forms, Pcs
<1>2. k \in Requests /\ req' = [req EXCEPT ![t] = k] /\ req'[t] = k /\ k.pc = pc /\ k.v = req[t].v
  BY <1>1, Goes
<1> HIDE DEF k
<1>3. t \notin Removers /\ (t \in Updaters <=> t \notin Installers)
  BY <1>1, VersionsAssumption, Zenon DEF Form, Requesters
<1>4. Takes(t) /\ Form(t)' /\ ~Dirty(t)' /\ Owed(t)' /\ Unneeded(t)' /\ RestartedBy(t)'
  BY <1>1, <1>2, <1>3, ZenonT(30) DEF Takes, Active, Form, Dirty, Owed, Unneeded, RestartedBy
<1>5. QED
  BY <1>1, <1>2, <1>4, WaitStep, Zenon

LEMMA CancelKeeps == ASSUME VInv, NEW t \in Requesters, Cancel(t) PROVE VInv'
<1>1. EndTask(t) /\ UNCHANGED <<files, config, binaries, master, books, reconcile>>
  BY Zenon DEF Cancel
<1>2. CASE req[t].pc = "stage"
  BY <1>1, <1>2, EndKeeps, Zenon
<1>3. CASE req[t].pc = "lock"
  <2>1. /\ NoRequest \in Requests /\ req' = [req EXCEPT ![t] = NoRequest]
        /\ Leaves(t) /\ Form(t)' /\ ~Dirty(t)' /\ Owed(t)' /\ Unneeded(t)' /\ RestartedBy(t)'
    BY <1>1, Ends, Zenon
  <2>2. QED
    BY <1>1, <1>3, <2>1, WaitStep, Zenon
<1>4. QED
  BY <1>2, <1>3, Zenon DEF Cancel

\* Clear, Renamed, RenameFails: the directory goes and comes.
LEMMA ClearKeeps == ASSUME VInv, NEW t \in Requesters, Clear(t) PROVE VInv'
<1> DEFINE k == [req[t] EXCEPT !.pc = "rename"]
<1>1. /\ req[t].pc = "clear" /\ Goto(t, "rename") /\ Form(t) /\ "rename" \in Pcs
      /\ patch' = [patch EXCEPT ![req[t].v] = 0]
      /\ UNCHANGED <<listing, shims, default, pin, versionOf, binaries, master, mutate, reconcile, mishaps, quota>>
  BY Zenon DEF Clear, VInv, Forms, Pcs, config, books
<1>2. k \in Requests /\ req' = [req EXCEPT ![t] = k] /\ req'[t] = k /\ k.pc = "rename" /\ k.v = req[t].v
  BY <1>1, Goes
<1> HIDE DEF k
<1>3. req[t].v \in Minors /\ t \notin Removers
  BY <1>1, Zenon DEF Form, Requesters
<1>4. patch' \in [Minors -> Patches] /\ Installed' = Installed \ {req[t].v}
  BY <1>1, <1>3, Ranges, Zenon DEF Installed
<1>5. Active(t) /\ Active(t)' /\ Keeps(t) /\ Form(t)' /\ ~Dirty(t) /\ Dirty(t)' /\ Unneeded(t)' /\ RestartedBy(t)'
  BY <1>1, <1>2, <1>3, Zenon DEF Active, Keeps, Form, Dirty, Unneeded, RestartedBy
<1>6. (Quiet' <=> Quiet) /\ mishaps \subseteq mishaps'
  BY <1>1, Zenon DEF Quiet, Without
<1>7. Quiet => Owed(t)'
  <2> SUFFICES ASSUME Quiet PROVE Owed(t)'
    BY Zenon
  <2>1. Clean /\ Owed(t)
    BY <1>5, CleanBefore, Zenon DEF VInv, Known
  <2>2. t \in Updaters => req[t].v \in Installed
    BY <1>1, <2>1, Zenon DEF Owed
  <2>3. QED
    BY <1>1, <1>2, <1>4, <2>1, <2>2, Zenon DEF Owed, Clean
<1>8. /\ req' \in [Requesters -> Requests] /\ mutate' \in Installers \cup Updaters \cup {Unset}
      /\ Forms' /\ Holds' /\ Alone' /\ Known' /\ Lone'
  BY <1>2, <1>5, <1>6, <1>7, ActiveStep, Zenon
<1>9. VersionsTypeOK'
  BY <1>1, <1>4, <1>8, Zenon DEF VInv, VersionsTypeOK
<1>10. QED
  BY <1>8, <1>9, Zenon DEF VInv

LEMMA RenamedKeeps == ASSUME VInv, NEW t \in Requesters, Renamed(t) PROVE VInv'
<1> DEFINE k == IF t \in Installers THEN [req[t] EXCEPT !.pc = "discover"]
                ELSE [req[t] EXCEPT !.pc = "pick", !.updated = req[t].updated \cup {req[t].v}]
<1>1. /\ req[t].pc = "rename" /\ Form(t) /\ req[t] \in Requests
      /\ patch' = [patch EXCEPT ![req[t].v] = listing[req[t].v]]
      /\ UNCHANGED <<listing, shims, default, pin, versionOf, binaries, master, mutate, reconcile, mishaps, quota>>
  BY Zenon DEF Renamed, VInv, Forms, VersionsTypeOK, config, books
<1>2. req[t].v \in Minors /\ t \notin Removers /\ (t \in Updaters <=> t \notin Installers)
  BY <1>1, VersionsAssumption, Zenon DEF Form, Requesters
<1>3. k \in Requests /\ k.v = req[t].v /\ k.pc = IF t \in Installers THEN "discover" ELSE "pick"
  BY <1>1, <1>2, Zenon DEF Requests, Pcs
<1>4. req' = [req EXCEPT ![t] = k]
  BY ZenonT(30) DEF Renamed, VInv, VersionsTypeOK
<1> HIDE DEF k
<1>5. req'[t] = k
  BY <1>4, Zenon DEF VInv, VersionsTypeOK
<1>6. patch' \in [Minors -> Patches] /\ Installed' = Installed \cup {req[t].v}
  <2>1. listing[req[t].v] \in Patches /\ listing[req[t].v] # 0
    BY <1>2, Ranges, Zenon
  <2>2. patch \in [Minors -> Patches]
    BY Zenon DEF VInv, VersionsTypeOK
  <2>3. QED
    BY <1>1, <1>2, <2>1, <2>2, ZenonT(30) DEF Installed
<1>7. Active(t) /\ Active(t)' /\ Keeps(t) /\ Form(t)' /\ Unneeded(t)' /\ RestartedBy(t)' /\ Owed(t)'
  BY <1>1, <1>2, <1>3, <1>5, Zenon DEF Active, Keeps, Form, Owed, Unneeded, RestartedBy
<1>8. (Quiet' <=> Quiet) /\ mishaps \subseteq mishaps'
  BY <1>1, ZenonT(30) DEF Quiet, Without
<1>9. Quiet => (~Dirty(t)' => Clean')
  <2> SUFFICES ASSUME Quiet, ~Dirty(t)' PROVE Clean'
    BY Zenon
  <2>1. t \in Updaters
    BY <1>2, <1>3, <1>5, Zenon DEF Dirty
  <2>2. binaries = Installed \cup {req[t].v} /\ shims = binaries
    BY <1>1, <2>1, Zenon DEF VInv, Known, Owed
  <2>3. QED
    BY <1>1, <1>6, <2>2, Zenon DEF Clean
<1>10. /\ req' \in [Requesters -> Requests] /\ mutate' \in Installers \cup Updaters \cup {Unset}
       /\ Forms' /\ Holds' /\ Alone' /\ Known' /\ Lone'
  BY <1>3, <1>4, <1>7, <1>8, <1>9, ActiveStep, Zenon
<1>11. VersionsTypeOK'
  BY <1>1, <1>6, <1>10, Zenon DEF VInv, VersionsTypeOK
<1>12. QED
  BY <1>10, <1>11, Zenon DEF VInv

LEMMA RenameFailsKeeps == ASSUME VInv, NEW t \in Requesters, RenameFails(t) PROVE VInv'
<1>1. /\ req[t].pc = "rename" /\ Form(t) /\ mishaps' = mishaps \cup {"rename"}
      /\ UNCHANGED <<patch, listing, shims, default, pin, versionOf, binaries, master, reconcile, quota>>
  BY ZenonT(30) DEF RenameFails, VInv, Forms, files, config
<1>2. ~Quiet' /\ mishaps \subseteq mishaps' /\ Active(t)
  BY <1>1, Zenon DEF Quiet, Without, Active
<1>3. PICK k \in Requests : /\ req' = [req EXCEPT ![t] = k] /\ Form(t)' /\ (Keeps(t) \/ Leaves(t))
                            /\ Unneeded(t)' /\ RestartedBy(t)'
  <2>1. CASE t \in Installers
    BY <2>1, Ends, Zenon DEF RenameFails
  <2>2. CASE t \notin Installers
    <3> DEFINE k == [req[t] EXCEPT !.pc = "restart"]
    <3>1. "restart" \in Pcs /\ Goto(t, "restart") /\ mutate' = mutate
      BY <2>2, Zenon DEF RenameFails, Pcs
    <3>2. k \in Requests /\ req' = [req EXCEPT ![t] = k] /\ req'[t] = k /\ k.pc = "restart"
      BY <3>1, Goes
    <3> HIDE DEF k
    <3>3. Form(t)' /\ Keeps(t) /\ Unneeded(t)' /\ RestartedBy(t)'
      BY <1>1, <1>2, <2>2, <3>1, <3>2, Zenon DEF Form, Keeps, Active, Unneeded, RestartedBy
    <3>4. QED
      BY <3>2, <3>3, Zenon
  <2>3. QED
    BY <2>1, <2>2, Zenon
<1>4. /\ req' \in [Requesters -> Requests] /\ mutate' \in Installers \cup Updaters \cup {Unset}
      /\ Forms' /\ Holds' /\ Alone' /\ Known' /\ Lone'
  BY <1>2, <1>3, ActiveStep, Zenon
<1>5. mishaps' \subseteq Mishaps
  BY <1>1, Zenon DEF VInv, VersionsTypeOK, Mishaps
<1>6. VersionsTypeOK'
  BY <1>1, <1>4, <1>5, Zenon DEF VInv, VersionsTypeOK
<1>7. QED
  BY <1>4, <1>6, Zenon DEF VInv

\* Restart and Stop: the pools.
LEMMA MasterStep ==
    ASSUME VInv, NEW t \in Requesters, NEW k \in Requests, req' = [req EXCEPT ![t] = k], Active(t),
           UNCHANGED <<files, config, binaries, mutate, reconcile, books>>, master' \in [Minors -> Patches],
           Form(t)', Active(t)', ~Dirty(t), ~Dirty(t)', Owed(t)',
           Without({"overlap"}) => Unneeded(t)' /\ RestartedBy(t)'
    PROVE  VInv'
<1>1. UNCHANGED <<patch, listing, shims, default, pin, versionOf, binaries, mutate, reconcile, mishaps, quota>>
  BY Zenon DEF files, config, books
<1>2. Installed' = Installed /\ (Quiet' <=> Quiet) /\ mishaps \subseteq mishaps' /\ Keeps(t)
  BY <1>1, Zenon DEF Installed, Quiet, Without, Keeps
<1>3. Quiet' => Clean'
  BY <1>1, <1>2, CleanBefore, Zenon DEF Clean
<1>4. /\ req' \in [Requesters -> Requests] /\ mutate' \in Installers \cup Updaters \cup {Unset}
      /\ Forms' /\ Holds' /\ Alone' /\ Known' /\ Lone'
  BY <1>2, <1>3, ActiveStep, ZenonT(30)
<1>5. VersionsTypeOK'
  BY <1>1, <1>4, Zenon DEF VInv, VersionsTypeOK
<1>6. QED
  BY <1>4, <1>5, Zenon DEF VInv

LEMMA RestartKeeps == ASSUME VInv, NEW t \in Requesters, Restart(t) PROVE VInv'
<1> DEFINE k == [req[t] EXCEPT !.pc = "poll"]
<1>1. /\ req[t].pc = "restart" /\ Goto(t, "poll") /\ Form(t) /\ "poll" \in Pcs /\ req[t].updated \subseteq Minors
      /\ UNCHANGED <<files, config, binaries, mutate, reconcile, books>>
  BY Zenon DEF Restart, VInv, Forms, Pcs, VersionsTypeOK, Requests
<1>2. k \in Requests /\ req' = [req EXCEPT ![t] = k] /\ req'[t] = k /\ k.pc = "poll" /\ k.updated = req[t].updated
  BY <1>1, Goes
<1> HIDE DEF k
<1>3. patch \in [Minors -> Patches] /\ master \in [Minors -> Patches] /\ 0 \in Patches /\ patch' = patch
  BY <1>1, Ranges, Zenon DEF files
<1>4. PICK failed \in SUBSET pools_needing_restart(t) :
        master' = [v \in Minors |-> IF v \in pools_needing_restart(t)
                                    THEN IF v \in failed THEN 0 ELSE patch[v] ELSE master[v]]
  BY Zenon DEF Restart
<1>5. master' \in [Minors -> Patches]
  BY <1>3, <1>4, Zenon
<1>6. \A v \in req[t].updated : master'[v] \in {0, patch[v]}
  BY <1>1, <1>4, Zenon DEF pools_needing_restart
<1>7. RestartedBy(t)'
  BY <1>2, <1>3, <1>6, Zenon DEF RestartedBy
<1>8. Active(t) /\ Active(t)' /\ Form(t)' /\ ~Dirty(t) /\ ~Dirty(t)' /\ Owed(t)' /\ Unneeded(t)'
  BY <1>1, <1>2, Zenon DEF Active, Form, Dirty, Owed, Unneeded
<1>9. QED
  BY <1>1, <1>2, <1>5, <1>7, <1>8, MasterStep, Zenon

LEMMA StopKeeps == ASSUME VInv, NEW t \in Requesters, Stop(t) PROVE VInv'
<1> DEFINE k == [req[t] EXCEPT !.pc = "remove"]
<1>1. /\ req[t].pc = "stop" /\ Goto(t, "remove") /\ Form(t) /\ "remove" \in Pcs
      /\ master' = [master EXCEPT ![req[t].v] = 0]
      /\ UNCHANGED <<files, config, binaries, mutate, reconcile, books>>
  BY Zenon DEF Stop, VInv, Forms, Pcs
<1>2. k \in Requests /\ req' = [req EXCEPT ![t] = k] /\ req'[t] = k /\ k.pc = "remove" /\ k.v = req[t].v
  BY <1>1, Goes
<1> HIDE DEF k
<1>3. master' \in [Minors -> Patches]
  <2>1. 0 \in Patches /\ master \in [Minors -> Patches]
    BY VersionsAssumption DEF VInv, VersionsTypeOK, Patches
  <2>2. QED
    BY <1>1, <2>1, Zenon
<1>4. Active(t) /\ Active(t)' /\ Form(t)' /\ ~Dirty(t) /\ ~Dirty(t)' /\ RestartedBy(t)'
  BY <1>1, <1>2, ZenonT(30) DEF Active, Form, Dirty, RestartedBy
<1>5. Owed(t)'
  BY <1>1, <1>2, ZenonT(30) DEF Owed
<1>6. Without({"overlap"}) => Unneeded(t)'
  <2>1. Without({"overlap"}) => Unneeded(t)
    BY Zenon DEF VInv, Lone
  <2>2. UNCHANGED <<versionOf, default, Installed>>
    BY <1>1, Zenon DEF files, config, Installed
  <2>3. QED
    BY <1>1, <1>2, <2>1, <2>2, Zenon DEF Unneeded
<1>7. QED
  BY <1>1, <1>2, <1>3, <1>4, <1>5, <1>6, MasterStep, Zenon

LEMMA CheckKeeps == ASSUME VInv, NEW t \in Requesters, Check(t) PROVE VInv'
<1>1. /\ req[t].pc = "check" /\ Form(t)
      /\ UNCHANGED <<files, config, binaries, master, books, reconcile>>
  BY Zenon DEF Check, VInv, Forms
<1>2. CASE Blocked(req[t].v)
  <2>1. EndTask(t)
    BY <1>2, Zenon DEF Check
  <2>2. QED
    BY <1>1, <2>1, EndKeeps, Zenon
<1>3. CASE ~Blocked(req[t].v)
  <2> DEFINE k == [req[t] EXCEPT !.pc = "stop"]
  <2>1. Goto(t, "stop") /\ mutate' = mutate /\ "stop" \in Pcs
    BY <1>3, Zenon DEF Check, Pcs
  <2>2. k \in Requests /\ req' = [req EXCEPT ![t] = k] /\ req'[t] = k /\ k.pc = "stop" /\ k.v = req[t].v
    BY <2>1, Goes
  <2> HIDE DEF k
  <2>3. Active(t) /\ Keeps(t) /\ Form(t)' /\ ~Dirty(t) /\ Owed(t)'
    BY <1>1, <2>1, <2>2, Zenon DEF Active, Keeps, Form, Dirty, Owed
  <2>4. Cardinality(Installed) \in Nat
    <3>1. IsFiniteSet(Installed)
      BY VersionsAssumption, FS_Subset, Zenon DEF Installed
    <3>2. QED
      BY <3>1, FS_CardinalityType, Zenon
  <2>5. UNCHANGED <<versionOf, default, Installed>>
    BY <1>1, Zenon DEF files, config, Installed
  <2>6. /\ \A s \in DOMAIN versionOf : versionOf[s] # req[t].v
        /\ default = req[t].v => Cardinality(Installed) <= 1
    BY <1>3, <2>4 DEF Blocked
  <2>7. Unneeded(t)'
    BY <2>2, <2>5, <2>6, Zenon DEF Unneeded
  <2>8. reconcile' \in Requesters \cup {Unset}
    BY <1>1, Zenon DEF VInv, VersionsTypeOK
  <2>9. QED
    BY <1>1, <2>2, <2>3, <2>7, <2>8, StillStep, Zenon
<1>4. QED
  BY <1>2, <1>3, Zenon

LEMMA RemoveDirKeeps == ASSUME VInv, NEW t \in Requesters, RemoveDir(t) PROVE VInv'
<1>1. /\ req[t].pc = "remove" /\ Form(t) /\ patch' = [patch EXCEPT ![req[t].v] = 0]
      /\ UNCHANGED <<listing, shims, default, pin, versionOf, binaries, master, reconcile, mishaps, quota>>
  BY ZenonT(30) DEF RemoveDir, VInv, Forms, config, books
<1>2. req[t].v \in Minors /\ patch \in [Minors -> Patches] /\ 0 \in Patches
  <2>1. req[t].v \in Minors
    BY <1>1, Zenon DEF Form, Requesters
  <2>2. QED
    BY <2>1, Ranges, Zenon
<1>3. CASE patch[req[t].v] = 0
  <2>1. patch' = patch /\ EndTask(t)
    BY <1>1, <1>2, <1>3, Zenon DEF RemoveDir
  <2>2. UNCHANGED <<files, config, books>>
    BY <1>1, <2>1, Zenon DEF files, config, books
  <2>3. /\ NoRequest \in Requests /\ NoRequest.pc = "idle" /\ req' = [req EXCEPT ![t] = NoRequest]
        /\ req'[t] = NoRequest /\ Leaves(t) /\ Form(t)' /\ ~Dirty(t)' /\ Owed(t)' /\ Unneeded(t)'
    BY <2>1, Ends, Zenon
  <2>4. Active(t) /\ ~Dirty(t) /\ reconcile' \in Requesters \cup {Unset}
    BY <1>1, Zenon DEF Active, Dirty, VInv, VersionsTypeOK
  <2>5. QED
    BY <1>1, <2>2, <2>3, <2>4, StillStep, Zenon
<1>4. CASE patch[req[t].v] # 0
  <2> DEFINE k == [req[t] EXCEPT !.pc = "discover"]
  <2>1. Goto(t, "discover") /\ mutate' = mutate /\ "discover" \in Pcs
    BY <1>4, Zenon DEF RemoveDir, Pcs
  <2>2. k \in Requests /\ req' = [req EXCEPT ![t] = k] /\ req'[t] = k /\ k.pc = "discover" /\ k.v = req[t].v
    BY <2>1, Goes
  <2> HIDE DEF k
  <2>3. t \in Removers /\ t \notin Updaters
    BY <1>1, VersionsAssumption, Zenon DEF Form, Requesters
  <2>4. Active(t) /\ Keeps(t) /\ Form(t)' /\ Dirty(t)' /\ Owed(t)' /\ Unneeded(t)' /\ RestartedBy(t)'
    BY <1>1, <2>1, <2>2, <2>3, ZenonT(30) DEF Active, Keeps, Form, Dirty, Owed, Unneeded, RestartedBy
  <2>5. /\ req' \in [Requesters -> Requests] /\ mutate' \in Installers \cup Updaters \cup {Unset}
        /\ Forms' /\ Holds' /\ Alone' /\ Known' /\ Lone'
    BY <1>1, <2>2, <2>4, ActiveStep, ZenonT(30)
  <2>6. VersionsTypeOK'
    BY <1>1, <1>2, <2>5, Zenon DEF VInv, VersionsTypeOK
  <2>7. QED
    BY <2>5, <2>6, Zenon DEF VInv
<1>5. QED
  BY <1>3, <1>4, Zenon

\* What an install or uninstall tells the daemon after the change.
LEMMA DiscoverKeeps == ASSUME VInv, NEW t \in Requesters, Discover(t) PROVE VInv'
<1> DEFINE k == [req[t] EXCEPT !.pc = "binaries", !.snap = Installed]
<1>1. /\ req[t].pc = "discover" /\ Form(t) /\ req[t] \in Requests /\ t \notin Updaters
      /\ UNCHANGED <<files, config, binaries, master, books, mutate, reconcile>>
  BY Zenon DEF Discover, VInv, Forms, Form, VersionsTypeOK
<1>2. Installed \subseteq Minors /\ Installed' = Installed
  BY <1>1, Zenon DEF Installed, files
<1>3. k \in Requests /\ k.pc = "binaries" /\ k.snap = Installed /\ k.v = req[t].v
  BY <1>1, <1>2, Zenon DEF Requests, Pcs
<1>4. req' = [req EXCEPT ![t] = k]
  BY ZenonT(30) DEF Discover, VInv, VersionsTypeOK
<1> HIDE DEF k
<1>5. req'[t] = k
  BY <1>4, Zenon DEF VInv, VersionsTypeOK
<1>6. Active(t) /\ Keeps(t) /\ Form(t)' /\ Dirty(t)' /\ Unneeded(t)'
  BY <1>1, <1>3, <1>5, Zenon DEF Active, Keeps, Form, Dirty, Unneeded
<1>7. Owed(t)'
  BY <1>2, <1>3, <1>5, Zenon DEF Owed
<1>8. reconcile' \in Requesters \cup {Unset}
  BY <1>1, Zenon DEF VInv, VersionsTypeOK
<1>9. QED
  BY <1>1, <1>3, <1>4, <1>5, <1>6, <1>7, <1>8, StillStep, Zenon

LEMMA ShimLockKeeps == ASSUME VInv, NEW t \in Requesters, ShimLock(t) PROVE VInv'
<1> DEFINE k == [req[t] EXCEPT !.pc = "prune", !.snap = Installed]
<1>1. /\ req[t].pc = "shimlock" /\ Form(t) /\ req[t] \in Requests /\ t \notin Updaters /\ reconcile' = t
      /\ UNCHANGED <<files, config, binaries, master, books, mutate>>
  BY Zenon DEF ShimLock, VInv, Forms, Form, VersionsTypeOK
<1>2. Installed \subseteq Minors /\ Installed' = Installed
  BY <1>1, Zenon DEF Installed, files
<1>3. k \in Requests /\ k.pc = "prune" /\ k.snap = Installed /\ k.v = req[t].v
  BY <1>1, <1>2, Zenon DEF Requests, Pcs
<1>4. req' = [req EXCEPT ![t] = k]
  BY ZenonT(30) DEF ShimLock, VInv, VersionsTypeOK
<1> HIDE DEF k
<1>5. req'[t] = k
  BY <1>4, Zenon DEF VInv, VersionsTypeOK
<1>6. Active(t) /\ Keeps(t) /\ Form(t)' /\ Dirty(t)' /\ Unneeded(t)'
  BY <1>1, <1>3, <1>5, Zenon DEF Active, Keeps, Form, Dirty, Unneeded
<1>7. Quiet => Owed(t)'
  <2>1. Quiet => binaries = Installed
    BY <1>1, Zenon DEF VInv, Known, Owed
  <2>2. QED
    BY <1>1, <1>2, <1>3, <1>5, <2>1, Zenon DEF Owed
<1>8. QED
  BY <1>1, <1>3, <1>4, <1>5, <1>6, <1>7, StillStep, Zenon

LEMMA SetBinariesKeeps == ASSUME VInv, NEW t \in Requesters, set_binaries(t) PROVE VInv'
<1> DEFINE pc == IF t \in Removers THEN "shimlock" ELSE "adopt"
<1> DEFINE k == [req[t] EXCEPT !.pc = pc]
<1>1. /\ req[t].pc = "binaries" /\ Form(t) /\ req[t] \in Requests /\ t \notin Updaters
      /\ binaries' = req[t].snap /\ Goto(t, pc) /\ pc \in Pcs
      /\ UNCHANGED <<patch, listing, shims, default, pin, versionOf, master, mutate, reconcile, mishaps, quota>>
  BY Zenon DEF set_binaries, VInv, Forms, Form, VersionsTypeOK, Pcs, files, config, books
<1>2. k \in Requests /\ req' = [req EXCEPT ![t] = k] /\ req'[t] = k /\ k.pc = pc /\ k.v = req[t].v
  BY <1>1, Goes
<1> HIDE DEF k
<1>3. t \in Removers <=> t \notin Installers
  BY <1>1, VersionsAssumption, ZenonT(30) DEF Requesters
<1>4. Active(t) /\ Keeps(t) /\ Form(t)' /\ Dirty(t)' /\ Unneeded(t)' /\ RestartedBy(t)'
  BY <1>1, <1>2, <1>3, ZenonT(30) DEF Active, Keeps, Form, Dirty, Unneeded, RestartedBy
<1>5. Installed' = Installed /\ (Quiet' <=> Quiet) /\ mishaps \subseteq mishaps'
  BY <1>1, ZenonT(30) DEF Installed, Quiet, Without
<1>6. Quiet => Owed(t)'
  <2>1. Quiet => req[t].snap = Installed
    BY <1>1, Zenon DEF VInv, Known, Owed
  <2>2. QED
    BY <1>1, <1>2, <1>5, <2>1, ZenonT(30) DEF Owed
<1>7. /\ req' \in [Requesters -> Requests] /\ mutate' \in Installers \cup Updaters \cup {Unset}
      /\ Forms' /\ Holds' /\ Alone' /\ Known' /\ Lone'
  BY <1>2, <1>4, <1>5, <1>6, ActiveStep, ZenonT(30)
<1>8. VersionsTypeOK'
  BY <1>1, <1>7, Zenon DEF VInv, VersionsTypeOK, Requests
<1>9. QED
  BY <1>7, <1>8, Zenon DEF VInv

LEMMA AdoptKeeps == ASSUME VInv, NEW t \in Requesters, adopt_default_if_unset(t) PROVE VInv'
<1> DEFINE k == [req[t] EXCEPT !.pc = "shimlock"]
<1>1. /\ req[t].pc = "adopt" /\ Form(t) /\ t \notin Updaters /\ t \notin Removers
      /\ Goto(t, "shimlock") /\ "shimlock" \in Pcs
      /\ UNCHANGED <<patch, listing, shims, pin, versionOf, binaries, master, mutate, reconcile, mishaps, quota>>
  BY Zenon DEF adopt_default_if_unset, VInv, Forms, Form, Pcs, files, books
<1>2. k \in Requests /\ req' = [req EXCEPT ![t] = k] /\ req'[t] = k /\ k.pc = "shimlock" /\ k.v = req[t].v
  BY <1>1, Goes
<1> HIDE DEF k
<1>3. default' \in Minors \ Legacy
  <2>1. req[t].v \in Minors /\ default \in Minors \ Legacy
    BY <1>1, ZenonT(30) DEF Form, Requesters, VInv, VersionsTypeOK
  <2>2. QED
    BY <2>1, ZenonT(30) DEF adopt_default_if_unset
<1>4. Active(t) /\ Keeps(t) /\ Form(t)' /\ Dirty(t)' /\ Unneeded(t)' /\ RestartedBy(t)'
  BY <1>1, <1>2, ZenonT(30) DEF Active, Keeps, Form, Dirty, Unneeded, RestartedBy
<1>5. Installed' = Installed /\ (Quiet' <=> Quiet) /\ mishaps \subseteq mishaps'
  BY <1>1, ZenonT(30) DEF Installed, Quiet, Without
<1>6. Quiet => Owed(t)'
  <2>1. Quiet => binaries = Installed
    BY <1>1, Zenon DEF VInv, Known, Owed
  <2>2. QED
    BY <1>1, <1>2, <1>5, <2>1, ZenonT(30) DEF Owed
<1>7. /\ req' \in [Requesters -> Requests] /\ mutate' \in Installers \cup Updaters \cup {Unset}
      /\ Forms' /\ Holds' /\ Alone' /\ Known' /\ Lone'
  BY <1>2, <1>4, <1>5, <1>6, ActiveStep, ZenonT(30)
<1>8. VersionsTypeOK'
  BY <1>1, <1>3, <1>7, Zenon DEF VInv, VersionsTypeOK
<1>9. QED
  BY <1>7, <1>8, Zenon DEF VInv

LEMMA ReconcileKeeps == ASSUME VInv, NEW t \in Requesters, reconcile_shims(t) PROVE VInv'
<1>1. /\ req[t].pc = "prune" /\ req[t] \in Requests /\ EndTask(t) /\ shims' = req[t].snap /\ reconcile' = Unset
      /\ UNCHANGED <<patch, listing, default, pin, versionOf, binaries, master, mishaps, quota>>
  BY Zenon DEF reconcile_shims, VInv, VersionsTypeOK, config, books
<1>2. /\ NoRequest \in Requests /\ NoRequest.pc = "idle" /\ req' = [req EXCEPT ![t] = NoRequest]
      /\ req'[t] = NoRequest /\ Leaves(t) /\ Form(t)' /\ ~Dirty(t)' /\ Owed(t)' /\ Unneeded(t)' /\ RestartedBy(t)'
  BY <1>1, Ends, ZenonT(30)
<1>3. Installed' = Installed /\ (Quiet' <=> Quiet) /\ mishaps \subseteq mishaps' /\ Active(t)
  BY <1>1, ZenonT(30) DEF Installed, Quiet, Without, Active
<1>4. Quiet => Clean'
  <2>1. Quiet => req[t].snap = Installed /\ binaries = Installed
    BY <1>1, Zenon DEF VInv, Known, Owed
  <2>2. QED
    BY <1>1, <1>3, <2>1, Zenon DEF Clean
<1>5. /\ req' \in [Requesters -> Requests] /\ mutate' \in Installers \cup Updaters \cup {Unset}
      /\ Forms' /\ Holds' /\ Alone' /\ Known' /\ Lone'
  BY <1>2, <1>3, <1>4, ActiveStep, Zenon
<1>6. VersionsTypeOK'
  BY <1>1, <1>5, Zenon DEF VInv, VersionsTypeOK, Requests
<1>7. QED
  BY <1>5, <1>6, Zenon DEF VInv

\* A request starts; beside an uninstall, that is recorded.
LEMMA BeginKeeps ==
    ASSUME VInv, NEW t \in Requesters, NEW pc, NEW v \in Minors \cup {Unset}, NEW todo \in SUBSET Minors,
           Begin(t, pc, v, todo), pc = IF t \in Removers THEN "check" ELSE "lock", t \in Updaters \/ v \in Minors
    PROVE  VInv'
<1> DEFINE k == [NoRequest EXCEPT !.pc = pc, !.v = v, !.todo = todo]
<1>1. /\ req[t].pc = "idle" /\ quota > 0 /\ quota' = quota - 1
      /\ Overlaps(IF t \in Removers THEN ~AllIdle ELSE Removing) /\ req' = [req EXCEPT ![t] = k]
      /\ UNCHANGED <<patch, listing, shims, default, pin, versionOf, binaries, master, mutate, reconcile>>
  BY Zenon DEF Begin, files, config
<1>2. k \in Requests /\ k.pc = pc /\ k.v = v
  BY Zenon DEF Requests, NoRequest, Pcs
<1> HIDE DEF k
<1>3. req' \in [Requesters -> Requests] /\ req'[t] = k /\ \A o \in Requesters \ {t} : req'[o] = req[o]
  BY <1>1, <1>2, Zenon DEF VInv, VersionsTypeOK
<1>4. mishaps \subseteq mishaps' /\ mishaps' \subseteq Mishaps
  BY <1>1, Zenon DEF Overlaps, VInv, VersionsTypeOK, Mishaps
<1>5. VersionsTypeOK'
  <2>1. quota' \in 0 .. MaxAsked
    <3>1. MaxAsked \in Nat
      BY VersionsAssumption, Zenon
    <3>2. QED
      BY <1>1, <3>1, Ranges, Decreased, Zenon
  <2>2. QED
    BY <1>1, <1>3, <1>4, <2>1, Zenon DEF VInv, VersionsTypeOK
<1>6. Form(t)' /\ ~Dirty(t) /\ ~Dirty(t)' /\ Owed(t)' /\ Unneeded(t)' /\ RestartedBy(t)'
  BY <1>1, <1>2, <1>3, VersionsAssumption, ZenonT(30) DEF Form, Dirty, Owed, Unneeded, RestartedBy, Requesters
<1>7. Forms'
  <2>1. ASSUME NEW o \in Requesters \ {t} PROVE Form(o)'
    BY <1>3, SameForm, Zenon DEF VInv, Forms
  <2>2. QED
    BY <1>6, <2>1, Zenon DEF Forms
<1>8. Holds'
  <2> SUFFICES ASSUME NEW o \in Installers \cup Updaters PROVE Active(o)' <=> mutate' = o
    BY Zenon DEF Holds
  <2>1. o \in Requesters /\ (Active(o) <=> mutate = o) /\ o \notin Removers
    BY VersionsAssumption, Zenon DEF VInv, Holds, Requesters
  <2>2. Active(o)' <=> Active(o)
    BY <1>1, <1>2, <1>3, <2>1, Zenon DEF Active
  <2>3. QED
    BY <1>1, <2>1, <2>2, Zenon
<1>9. Alone'
  <2> SUFFICES ASSUME Without({"overlap"})', NEW r \in Removers, req'[r].pc # "idle", NEW o \in Requesters \ {r}
               PROVE  req'[o].pc = "idle"
    BY Zenon DEF Alone
  <2>1. ~(IF t \in Removers THEN ~AllIdle ELSE Removing)
    BY <1>1, Zenon DEF Overlaps, Without
  <2>2. r \in Requesters
    BY Zenon DEF Requesters
  <2>3. t \in Removers /\ AllIdle
    BY <1>3, <2>1, <2>2, Zenon DEF Removing, AllIdle
  <2>4. r = t
    BY <1>3, <2>2, <2>3, Zenon DEF AllIdle
  <2>5. QED
    BY <1>3, <2>3, <2>4, Zenon DEF AllIdle
<1>10. Installed' = Installed /\ (Quiet' => Quiet)
  BY <1>1, <1>4, Zenon DEF Installed, Quiet, Without
<1>11. ASSUME NEW o \in Requesters \ {t}
       PROVE  /\ Dirty(o)' <=> Dirty(o)
              /\ Owed(o) => Owed(o)'
              /\ Unneeded(o) => Unneeded(o)'
              /\ RestartedBy(o) => RestartedBy(o)'
  <2>1. req'[o] = req[o]
    BY <1>3, Zenon
  <2>2. (Dirty(o)' <=> Dirty(o)) /\ (Owed(o) => Owed(o)')
    BY <1>1, <1>10, <2>1, SameDebt, Zenon
  <2>3. (Unneeded(o) => Unneeded(o)') /\ (RestartedBy(o) => RestartedBy(o)')
    BY <1>1, <1>10, <2>1, Zenon DEF Unneeded, RestartedBy
  <2>4. QED
    BY <2>2, <2>3, Zenon
<1>12. Known'
  <2> SUFFICES ASSUME Quiet PROVE ((\A o \in Requesters : ~Dirty(o)') => Clean') /\ \A o \in Requesters : Owed(o)'
    BY <1>10, Zenon DEF Known
  <2>1. ((\A o \in Requesters : ~Dirty(o)) => Clean) /\ \A o \in Requesters : Owed(o)
    BY Zenon DEF VInv, Known
  <2>2. Clean => Clean'
    BY <1>1, <1>10, Zenon DEF Clean
  <2>3. QED
    BY <1>6, <1>11, <2>1, <2>2, Zenon
<1>13. Lone'
  <2>1. Without({"overlap"})' => Without({"overlap"})
    BY <1>4, Sooner, Zenon
  <2>2. QED
    BY <1>6, <1>11, <2>1, Zenon DEF VInv, Lone
<1>14. QED
  BY <1>5, <1>7, <1>8, <1>9, <1>12, <1>13, Zenon DEF VInv

\* A step of no task that leaves the directories and what is known of them.
LEMMA OtherStep ==
    ASSUME VInv, UNCHANGED <<patch, shims, binaries, mutate, req>>, mishaps \subseteq mishaps', VersionsTypeOK',
           Without({"overlap"})' => \A t \in Requesters : Unneeded(t)' /\ RestartedBy(t)'
    PROVE  VInv'
<1>1. Forms' /\ Holds'
  BY Zenon DEF VInv, Forms, Form, Holds, Active
<1>2. Without({"overlap"})' => Without({"overlap"})
  BY Sooner, Zenon
<1>3. Alone' /\ Lone'
  BY <1>2, Zenon DEF VInv, Alone, Lone
<1>4. Installed' = Installed /\ (Quiet' => Quiet)
  BY Zenon DEF Installed, Quiet, Without
<1>5. \A t \in Requesters : (Dirty(t)' <=> Dirty(t)) /\ (Owed(t)' <=> Owed(t))
  BY <1>4, Zenon DEF Dirty, Owed
<1>6. Clean' <=> Clean
  BY <1>4, Zenon DEF Clean
<1>7. Known'
  BY <1>4, <1>5, <1>6, Zenon DEF VInv, Known
<1>8. QED
  BY <1>1, <1>3, <1>7, Zenon DEF VInv

\* The requests on the config: beside an uninstall, that is recorded.
LEMMA AskedKeeps ==
    ASSUME VInv, Asked, UNCHANGED <<patch, shims, listing, binaries, master, mutate, reconcile, req>>,
           default' \in Minors \ Legacy, pin' \in [Sites -> Minors \cup {Unset}],
           DOMAIN versionOf' \subseteq Sites, \A s \in DOMAIN versionOf' : versionOf'[s] \in Minors
    PROVE  VInv'
<1>1. mishaps \subseteq mishaps' /\ mishaps' \subseteq Mishaps
  BY Zenon DEF Asked, Overlaps, VInv, VersionsTypeOK, Mishaps
<1>2. quota' \in 0 .. MaxAsked
  <2>1. MaxAsked \in Nat
    BY VersionsAssumption, Zenon
  <2>2. QED
    BY <2>1, Ranges, Decreased, Zenon DEF Asked
<1>3. VersionsTypeOK'
  BY <1>1, <1>2, Zenon DEF VInv, VersionsTypeOK
<1>4. ASSUME Without({"overlap"})', NEW t \in Requesters PROVE Unneeded(t)' /\ RestartedBy(t)'
  <2>1. ~Removing /\ Without({"overlap"})
    BY <1>1, <1>4, Sooner, Zenon DEF Asked, Overlaps, Without
  <2>2. Unneeded(t)'
    BY <2>1, Zenon DEF Removing, Unneeded
  <2>3. RestartedBy(t)'
    BY <2>1, Zenon DEF VInv, Lone, RestartedBy
  <2>4. QED
    BY <2>2, <2>3, Zenon
<1>5. QED
  BY <1>1, <1>3, <1>4, OtherStep, Zenon

\* EnsureMinor, MinorStops: a pool starts on the patch in the directory, or stops.
LEMMA PoolKeeps ==
    ASSUME VInv, NEW v \in Minors, EnsureMinor(v) \/ MinorStops(v)
    PROVE  VInv'
<1>1. /\ UNCHANGED <<patch, listing, shims, default, pin, versionOf, binaries, mutate, reconcile, req, mishaps, quota>>
      /\ \E p \in {0, patch[v]} : master' = [master EXCEPT ![v] = p]
  BY Zenon DEF EnsureMinor, MinorStops, files, config, books
<1>2. PICK p \in {0, patch[v]} : master' = [master EXCEPT ![v] = p]
  BY <1>1, Zenon
<1>3. patch \in [Minors -> Patches] /\ master \in [Minors -> Patches] /\ 0 \in Patches
  BY VersionsAssumption DEF VInv, VersionsTypeOK, Patches
<1>4. master' \in [Minors -> Patches]
  BY <1>2, <1>3, Zenon
<1>5. VersionsTypeOK'
  BY <1>1, <1>4, Zenon DEF VInv, VersionsTypeOK
<1>6. \A u \in Minors : master[u] \in {0, patch[u]} => master'[u] \in {0, patch[u]}
  BY <1>2, <1>3, Zenon
<1>7. ASSUME Without({"overlap"})', NEW t \in Requesters PROVE Unneeded(t)' /\ RestartedBy(t)'
  <2>1. Unneeded(t) /\ RestartedBy(t)
    BY <1>1, <1>7, Zenon DEF VInv, Lone, Without
  <2>2. Unneeded(t)'
    BY <1>1, <2>1, Zenon DEF Unneeded, Installed
  <2>3. req[t].updated \subseteq Minors
    BY Zenon DEF VInv, VersionsTypeOK, Requests
  <2>4. RestartedBy(t)'
    BY <1>1, <1>6, <2>1, <2>3, Zenon DEF RestartedBy
  <2>5. QED
    BY <2>2, <2>4, Zenon
<1>8. QED
  BY <1>1, <1>5, <1>7, OtherStep, Zenon

LEMMA PublishKeeps == ASSUME VInv, NEW v \in Minors, Publish(v) PROVE VInv'
<1>1. /\ UNCHANGED <<patch, shims, default, pin, versionOf, binaries, master, mutate, reconcile, req, mishaps>>
      /\ listing[v] < MaxPatch /\ quota > 0 /\ quota' = quota - 1 /\ listing' = [listing EXCEPT ![v] = listing[v] + 1]
  BY Zenon DEF Publish, config
<1>2. listing \in [Minors -> 1 .. MaxPatch] /\ quota \in 0 .. MaxAsked
  BY Zenon DEF VInv, VersionsTypeOK
<1>3. listing' \in [Minors -> 1 .. MaxPatch] /\ quota' \in 0 .. MaxAsked
  <2>1. listing[v] + 1 \in 1 .. MaxPatch
    BY <1>1, <1>2, VersionsAssumption
  <2>2. quota' \in 0 .. MaxAsked
    BY <1>1, <1>2, VersionsAssumption
  <2>3. QED
    BY <1>1, <1>2, <2>1, <2>2, Zenon
<1>4. VersionsTypeOK'
  BY <1>1, <1>3, Zenon DEF VInv, VersionsTypeOK
<1>5. ASSUME Without({"overlap"})', NEW t \in Requesters PROVE Unneeded(t)' /\ RestartedBy(t)'
  BY <1>1, <1>5, Zenon DEF VInv, Lone, Without, Unneeded, RestartedBy, Installed
<1>6. QED
  BY <1>1, <1>4, <1>5, OtherStep, Zenon

LEMMA CrashKeeps == ASSUME VInv, Crash PROVE VInv'
<1>1. NoRequest \in Requests /\ NoRequest.pc = "idle" /\ \A t \in Requesters : req'[t] = NoRequest
  BY Zenon DEF Crash, NoRequest, Requests, Pcs
<1>2. Installed' = Installed /\ Installed \subseteq Minors
  BY Zenon DEF Crash, Installed
<1>3. /\ master' \in [Minors -> Patches] /\ req' \in [Requesters -> Requests]
      /\ DOMAIN versionOf' \subseteq Sites /\ \A s \in DOMAIN versionOf' : versionOf'[s] \in Minors
  <2>1. 0 \in Patches
    BY VersionsAssumption DEF Patches
  <2>2. DOMAIN versionOf' \subseteq Sites /\ \A s \in DOMAIN versionOf' : versionOf'[s] \in Minors
    BY Zenon DEF Crash, Resolve, VInv, VersionsTypeOK
  <2>3. QED
    BY <1>1, <2>1, <2>2, Zenon DEF Crash
<1>4. VersionsTypeOK'
  BY <1>2, <1>3, ZenonT(30) DEF Crash, VInv, VersionsTypeOK, books
<1>5. Forms' /\ Holds' /\ Alone'
  BY <1>1, VersionsAssumption, Zenon DEF Crash, Forms, Form, Holds, Active, Alone, Requesters
<1>6. Known'
  BY <1>1, <1>2, Zenon DEF Crash, Known, Clean, Owed
<1>7. Lone'
  BY <1>1, Zenon DEF Lone, Unneeded, RestartedBy
<1>8. QED
  BY <1>4, <1>5, <1>6, <1>7, Zenon DEF VInv

LEMMA VersionsStepKeeps == ASSUME VInv, [VersionsNext]_versionsvars PROVE VInv'
<1>1. ASSUME NEW t \in Installers, NEW v \in Minors, install_php(t, v) PROVE VInv'
  <2>1. t \in Requesters /\ t \notin Removers
    BY VersionsAssumption, Zenon DEF Requesters
  <2>2. QED
    BY <1>1, <2>1, BeginKeeps DEF install_php
<1>2. ASSUME NEW t \in Updaters, NEW targets \in SUBSET Minors, update_php(t, targets) PROVE VInv'
  <2>1. t \in Requesters /\ t \notin Removers
    BY VersionsAssumption, Zenon DEF Requesters
  <2>2. QED
    BY <1>2, <2>1, BeginKeeps, Zenon DEF update_php
<1>3. ASSUME NEW t \in Removers, NEW v \in Minors, uninstall_php(t, v) PROVE VInv'
  BY <1>3, BeginKeeps DEF uninstall_php, Requesters
<1>4. ASSUME NEW t \in Requesters, VersionsStep(t) PROVE VInv'
  <2>1. CASE Poll(t)
    BY <2>1, EndKeeps, Zenon DEF Poll
  <2>2. CASE Lock(t) \/ Cancel(t) \/ Stage(t) \/ Clear(t) \/ Renamed(t) \/ RenameFails(t)
    BY <2>2, LockKeeps, CancelKeeps, StageKeeps, ClearKeeps, RenamedKeeps, RenameFailsKeeps, Zenon
  <2>3. CASE Pick(t) \/ UpdateFails(t) \/ Restart(t) \/ Check(t) \/ Stop(t) \/ RemoveDir(t)
    BY <2>3, PickKeeps, UpdateFailsKeeps, RestartKeeps, CheckKeeps, StopKeeps, RemoveDirKeeps, Zenon
  <2>4. CASE Discover(t) \/ set_binaries(t) \/ adopt_default_if_unset(t) \/ ShimLock(t) \/ reconcile_shims(t)
    BY <2>4, DiscoverKeeps, SetBinariesKeeps, AdoptKeeps, ShimLockKeeps, ReconcileKeeps, Zenon
  <2>5. QED
    BY <1>4, <2>1, <2>2, <2>3, <2>4, Zenon DEF VersionsStep
<1>5. ASSUME NEW v \in Minors, set_default_php(v) PROVE VInv'
  <2>1. /\ Asked /\ default' \in Minors \ Legacy
        /\ UNCHANGED <<patch, shims, listing, pin, versionOf, binaries, master, mutate, reconcile, req>>
    BY <1>5, Zenon DEF set_default_php, files, Installed
  <2>2. QED
    BY <2>1, AskedKeeps, Zenon DEF VInv, VersionsTypeOK
<1>6. ASSUME NEW s \in Sites, NEW v \in Minors, apply_set_php(s, v) PROVE VInv'
  <2>1. /\ Asked /\ pin' = [pin EXCEPT ![s] = v]
        /\ versionOf' = [o \in DOMAIN versionOf |-> IF pin'[o] = Unset THEN default ELSE pin'[o]]
        /\ UNCHANGED <<patch, shims, listing, default, binaries, master, mutate, reconcile, req>>
    BY <1>6, Zenon DEF apply_set_php, files
  <2>2. pin' \in [Sites -> Minors \cup {Unset}] /\ default \in Minors \ Legacy /\ DOMAIN versionOf \subseteq Sites
    BY <2>1, Zenon DEF VInv, VersionsTypeOK
  <2>3. DOMAIN versionOf' \subseteq Sites /\ \A o \in DOMAIN versionOf' : versionOf'[o] \in Minors
    BY <2>1, <2>2, Zenon
  <2>4. QED
    BY <2>1, <2>2, <2>3, AskedKeeps, Zenon
<1>7. ASSUME NEW sites \in SUBSET Sites, RebuildRouter(sites) PROVE VInv'
  <2>1. /\ Asked /\ versionOf' = Resolve(sites)
        /\ UNCHANGED <<patch, shims, listing, default, pin, binaries, master, mutate, reconcile, req>>
    BY <1>7, Zenon DEF RebuildRouter, files
  <2>2. pin \in [Sites -> Minors \cup {Unset}] /\ default \in Minors \ Legacy
    BY Zenon DEF VInv, VersionsTypeOK
  <2>3. DOMAIN versionOf' \subseteq Sites /\ \A o \in DOMAIN versionOf' : versionOf'[o] \in Minors
    BY <2>1, <2>2, Zenon DEF Resolve
  <2>4. QED
    BY <2>1, <2>2, <2>3, AskedKeeps, Zenon
<1>8. CASE UNCHANGED versionsvars
  <2>1. UNCHANGED <<patch, listing, binaries, master, shims, default, pin, versionOf, mutate, reconcile, req, mishaps, quota>>
    BY <1>8, Zenon DEF versionsvars
  <2>2. VersionsTypeOK'
    BY <2>1, Zenon DEF VInv, VersionsTypeOK
  <2>3. ASSUME Without({"overlap"})', NEW t \in Requesters PROVE Unneeded(t)' /\ RestartedBy(t)'
    BY <2>1, <2>3, Zenon DEF VInv, Lone, Without, Unneeded, RestartedBy, Installed
  <2>4. QED
    BY <2>1, <2>2, <2>3, OtherStep, Zenon
<1>9. CASE VersionsNext
  <2>1. Installed \in SUBSET Minors /\ \A v \in Minors : {v} \in SUBSET Minors
    BY Zenon DEF Installed
  <2>2. QED
    BY <1>1, <1>2, <1>3, <1>4, <1>5, <1>6, <1>7, <1>9, <2>1, PoolKeeps, PublishKeeps, CrashKeeps, Zenon DEF VersionsNext
<1>10. QED
  BY <1>8, <1>9, Zenon

\* The versions' inductive invariant: php_mutate has one holder, an uninstall
\* that did not overlap is alone and what it checked still holds, and what the
\* daemon knows lags behind the directories by what one task has yet to tell.
THEOREM VersionsInductive == VersionsSpec => []VInv
<1>1. VInv /\ [VersionsNext]_versionsvars => VInv'
  BY VersionsStepKeeps, Zenon
<1>2. QED
  BY <1>1, VersionsInitInv, PTL DEF VersionsSpec

\* restart_updated_pools, finalize_php_install and uninstall_php, for any number
\* of tasks, versions, sites and patches: an update that answers leaves no pool
\* of a minor it updated on the old patch, and with no request in flight the
\* daemon knows exactly the installed versions.
THEOREM UpdatedRunsAlways == VersionsSpec => []UpdatedRuns
<1>1. VInv => UpdatedRuns
  <2> SUFFICES ASSUME VInv PROVE UpdatedRuns
    BY Zenon
  <2>1. PoolsUpdated
    BY Zenon DEF VInv, Lone, RestartedBy, PoolsUpdated, Requesters
  <2>2. VersionsKnown
    <3> SUFFICES ASSUME AllIdle, Without({"overlap", "rename"}) PROVE Clean
      BY Zenon DEF VersionsKnown, Clean
    <3>1. \A t \in Requesters : ~Dirty(t)
      BY Zenon DEF AllIdle, Dirty
    <3>2. QED
      BY <3>1, Zenon DEF VInv, Known, Quiet
  <2>3. QED
    BY <2>1, <2>2, Zenon DEF UpdatedRuns, VInv
<1>2. QED
  BY <1>1, VersionsInductive, PTL

\* install, and uninstall_php's remove_dir_all, are the only steps that touch a
\* version's directory.
LEMMA DirMovers ==
    ASSUME VersionsNext, patch' # patch
    PROVE  \E u \in Requesters : Clear(u) \/ Renamed(u) \/ RemoveDir(u)
<1>1. ASSUME NEW t, NEW pc, NEW v, NEW todo, Begin(t, pc, v, todo) PROVE FALSE
  BY <1>1, Zenon DEF Begin, files
<1>2. ASSUME NEW t \in Requesters, VersionsStep(t) PROVE Clear(t) \/ Renamed(t) \/ RemoveDir(t)
  BY <1>2, Zenon DEF VersionsStep, Lock, Cancel, Stage, RenameFails, Pick, UpdateFails, Restart, Poll, Discover,
     set_binaries, adopt_default_if_unset, ShimLock, reconcile_shims, Check, Stop, files
<1>3. ASSUME NEW v PROVE ~set_default_php(v) /\ ~EnsureMinor(v) /\ ~MinorStops(v) /\ ~Publish(v)
  BY ZenonT(30) DEF set_default_php, EnsureMinor, MinorStops, Publish, files
<1>4. ASSUME NEW s, NEW v PROVE ~apply_set_php(s, v) /\ ~RebuildRouter(s) /\ ~Crash
  BY Zenon DEF apply_set_php, RebuildRouter, Crash, files
<1>5. QED
  BY <1>1, <1>2, <1>3, <1>4, ZenonT(30) DEF VersionsNext, install_php, update_php, uninstall_php

\* uninstall_php, for any number of tasks, versions and sites: if nothing ran
\* between its checks and the removal, the removed version is no served site's,
\* and not the default while another version is left.
THEOREM RemovalIsSafeAlways == VersionsSpec => RemovalIsSafe
<1>1. VInv /\ [VersionsNext]_versionsvars => [RemovesSafely]_versionsvars
  <2> SUFFICES ASSUME VInv, VersionsNext, NEW t \in Removers, patch' # patch, req[t].pc = "remove",
                      Without({"overlap"})
               PROVE  /\ \A s \in DOMAIN versionOf : versionOf[s] # req[t].v
                      /\ default = req[t].v => Installed = {req[t].v}
    BY Zenon DEF RemovesSafely
  <2>1. PICK u \in Requesters : Clear(u) \/ Renamed(u) \/ RemoveDir(u)
    BY DirMovers, Zenon
  <2>2. t \in Requesters /\ Active(t) /\ Active(u)
    BY <2>1, Zenon DEF Requesters, Active, Clear, Renamed, RemoveDir
  <2>3. RemoveDir(t)
    BY <2>1, <2>2, OneActive, Zenon DEF Clear, Renamed
  <2>4. req[t].v \in Minors /\ patch \in [Minors -> Patches] /\ Unneeded(t)
    BY <2>2, ZenonT(30) DEF VInv, Forms, Form, VersionsTypeOK, Lone
  <2>5. req[t].v \in Installed
    BY <2>3, <2>4, ZenonT(30) DEF RemoveDir, Installed
  <2>6. Cardinality(Installed) <= 1 => Installed = {req[t].v}
    <3>1. IsFiniteSet(Installed)
      BY VersionsAssumption, FS_Subset, Zenon DEF Installed
    <3>2. Cardinality(Installed) \in Nat /\ Cardinality(Installed) # 0
      BY <2>5, <3>1, FS_CardinalityType, FS_EmptySet, Zenon
    <3>3. SUFFICES ASSUME Cardinality(Installed) <= 1 PROVE Installed = {req[t].v}
      BY Zenon
    <3>4. Cardinality(Installed) = 1
      BY <3>2, <3>3
    <3>5. PICK x : Installed = {x}
      BY <3>1, <3>4, FS_Singleton, Zenon
    <3>6. QED
      BY <2>5, <3>5, ZenonT(30)
  <2>7. QED
    BY <2>4, <2>6, Zenon DEF Unneeded
<1>2. QED
  BY <1>1, VersionsInductive, PTL DEF VersionsSpec, RemovalIsSafe
=============================================================================
