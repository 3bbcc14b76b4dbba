------------------------ MODULE ServiceEngineProofs ------------------------
(* Proofs about ServiceEngine, for any number of tasks, versions, requests    *)
(* and restarts of the daemon, and for every kind of engine.                  *)
EXTENDS ServiceEngine, FiniteSetTheorems, TLAPS

\* How far each kind of request has come tells what it is about.
Progress ==
    \A t \in All :
      /\ t = AutoStart => /\ task[t].op = "auto"
                          /\ task[t].pc \in {"read", "lock", "ensure", "init", "drive", "done"}
      /\ t # AutoStart /\ task[t].pc = "idle" => task[t] = Idle
      /\ task[t].pc \in {"download", "clear", "rename"} => task[t].op \in {"install", "change"}
      /\ task[t].pc = "read" => task[t].op \in {"start", "restart", "auto"}
      /\ task[t].pc = "remove" => task[t].op \in {"change", "uninstall", "purge"}
      /\ task[t].op \in {"install", "change", "uninstall", "purge"} => task[t].v \in Versions
      /\ task[t].pc \in {"ensure", "init", "drive", "persist", "remove"} => task[t].v \in Versions

\* The manager's lock is held from ensure to the end of the drive.
Mutex == \A t \in All : task[t].pc \in {"ensure", "init", "drive"} => lock = t

\* Data is initialised only where no server has ever stored any.
Unused == \A t \in All : task[t].pc = "init" => data[DirOf(task[t].v)] # "used"

AtMostOne == servers = {} \/ \E s \in Server : servers = {s}

\* Without an overlap there is no request before the auto-start is done, and
\* none beside a removal.
Alone ==
    mishaps = {} =>
      /\ task[AutoStart].pc # "done" => AtRest
      /\ \A t, u \in Tasks : Removal(task[t].op) /\ u # t => task[u].pc = "idle"

\* Installed, or about to be again.
Present(v) == v \in installed \/ \E u \in Tasks : task[u].pc = "rename" /\ task[u].v = v

NoneHeld == \A s \in servers : ~ Held(s)

\* Without an overlap or a failed rename, what runs or is about to run has its
\* files, and a removal finds nothing running from what it removes.
FilesKept ==
    mishaps = {} =>
      /\ \A s \in servers : Held(s) => Present(s.v) /\ data[DirOf(s.v)] # "absent"
      /\ \A t \in All : task[t].pc \in {"init", "drive"} => Present(task[t].v)
      /\ \A t \in Tasks : task[t].op \in {"uninstall", "purge"} /\ task[t].pc = "remove" => NoneHeld
      /\ \A t \in Tasks : task[t].op = "change" =>
           /\ task[t].pc # "download" => task[t].v \notin task[t].old
           /\ task[t].pc \in {"ensure", "init", "drive"} => NoneHeld
           /\ task[t].pc \in {"persist", "remove"} =>
                \A s \in servers : Held(s) => s.v = task[t].v

IInv == TypeOK /\ Progress /\ Mutex /\ Unused /\ AtMostOne /\ Alone /\ FilesKept

TaskType == [pc : Pcs, op : Ops, v : Versions \cup {Nil}, old : SUBSET Versions]

-----------------------------------------------------------------------------
(* What keeps the invariant, for a step of t that makes its task n.           *)

\* What Progress says of one task.
ProgressOf(t, n) ==
      /\ t = AutoStart => /\ n.op = "auto"
                          /\ n.pc \in {"read", "lock", "ensure", "init", "drive", "done"}
      /\ t # AutoStart /\ n.pc = "idle" => n = Idle
      /\ n.pc \in {"download", "clear", "rename"} => n.op \in {"install", "change"}
      /\ n.pc = "read" => n.op \in {"start", "restart", "auto"}
      /\ n.pc = "remove" => n.op \in {"change", "uninstall", "purge"}
      /\ n.op \in {"install", "change", "uninstall", "purge"} => n.v \in Versions
      /\ n.pc \in {"ensure", "init", "drive", "persist", "remove"} => n.v \in Versions

LEMMA TaskFacts ==
    ASSUME IInv, NEW t \in All
    PROVE  /\ task \in [All -> TaskType] /\ task[t] \in TaskType
           /\ ProgressOf(t, task[t])
  BY Zenon DEF IInv, TypeOK, TaskType, Progress, ProgressOf

LEMMA IdleFacts ==
    /\ Idle \in TaskType /\ Idle.pc = "idle" /\ Idle.op = "start" /\ Idle.v = Nil
    /\ ~ Removal(Idle.op)
  BY Zenon DEF Idle, TaskType, Pcs, Ops, Removal

\* A request in flight goes on to its next step or ends.
LEMMA GoesOn ==
    ASSUME IInv, NEW t \in All, NEW n \in TaskType, task' = [task EXCEPT ![t] = n],
           ProgressOf(t, n),
           n.op = task[t].op \/ n.pc = "idle",
           task[t].pc \notin {"idle", "done"},
           mishaps \subseteq mishaps',
           lock' = lock \/ (lock' = t /\ lock = Nil) \/ (lock' = Nil /\ lock = t),
           n.pc \in {"ensure", "init", "drive"} <=> lock' = t
    PROVE  /\ task' \in [All -> TaskType] /\ task'[t] = n
           /\ \A u \in All \ {t} : task'[u] = task[u]
           /\ Progress' /\ Mutex' /\ Alone'
           /\ lock' \in All \cup {Nil}
           /\ lock' # Nil => task'[lock'].pc \in {"ensure", "init", "drive"}
<1> USE ServiceEngineAssumption
<1>1. task \in [All -> TaskType] /\ AutoStart \in All /\ Tasks \subseteq All
  BY TaskFacts, Zenon DEF All
<1>2. /\ task' \in [All -> TaskType] /\ task'[t] = n
      /\ \A u \in All \ {t} : task'[u] = task[u]
  BY <1>1, Zenon
<1>3. Progress'
  BY <1>2, Zenon DEF IInv, Progress, ProgressOf
<1>4. Mutex'
  <2> SUFFICES ASSUME NEW u \in All, task'[u].pc \in {"ensure", "init", "drive"}
               PROVE  lock' = u
    BY Zenon DEF Mutex
  <2>1. CASE u = t
    BY <2>1, <1>2, Zenon
  <2>2. CASE u # t
    <3>1. lock = u
      BY <2>2, <1>2, Zenon DEF IInv, Mutex
    <3> QED
      BY <3>1, <2>2, Zenon DEF All
  <2> QED
    BY <2>1, <2>2, Zenon
<1>5. Alone'
  <2> SUFFICES ASSUME mishaps' = {}
               PROVE  /\ task'[AutoStart].pc # "done" => \A u \in Tasks : task'[u].pc = "idle"
                      /\ \A u, w \in Tasks : Removal(task'[u].op) /\ w # u => task'[w].pc = "idle"
    BY Zenon DEF Alone, AtRest
  <2>1. /\ task[AutoStart].pc # "done" => \A u \in Tasks : task[u].pc = "idle"
        /\ \A u, w \in Tasks : Removal(task[u].op) /\ w # u => task[w].pc = "idle"
    BY Zenon DEF IInv, Alone, AtRest
  <2>2. task'[AutoStart].pc # "done" => \A u \in Tasks : task'[u].pc = "idle"
    <3>1. CASE t = AutoStart
      BY <3>1, <2>1, <1>1, <1>2, Zenon
    <3>2. CASE t # AutoStart
      <4>1. t \in Tasks /\ task[AutoStart].pc = "done"
        BY <3>2, <2>1, Zenon DEF All
      <4> QED
        BY <4>1, <3>2, <1>1, <1>2, Zenon
    <3> QED
      BY <3>1, <3>2, Zenon
  <2>3. ASSUME NEW u \in Tasks, NEW w \in Tasks, Removal(task'[u].op), w # u
        PROVE  task'[w].pc = "idle"
    <3>1. Removal(task[u].op)
      <4>1. CASE u = t
        <5>1. n.pc = "idle" => n = Idle
          BY <4>1, Zenon DEF ProgressOf
        <5> QED
          BY <4>1, <5>1, <1>2, <2>3, IdleFacts, Zenon
      <4>2. CASE u # t
        BY <4>2, <1>1, <1>2, <2>3, Zenon
      <4> QED
        BY <4>1, <4>2, Zenon
    <3>2. task[w].pc = "idle"
      BY <3>1, <2>3, <2>1, Zenon
    <3> QED
      BY <3>2, <1>1, <1>2, Zenon
  <2> QED
    BY <2>2, <2>3, Zenon
<1>6. lock' \in All \cup {Nil}
  BY Zenon DEF IInv, TypeOK
<1>7. lock' # Nil => task'[lock'].pc \in {"ensure", "init", "drive"}
  BY <1>2, <1>6, Zenon DEF IInv, TypeOK
<1> QED
  BY <1>2, <1>3, <1>4, <1>5, <1>6, <1>7, Zenon

\* Such a step keeps the files if it starts no server, drops no data and
\* leaves present what is.
LEMMA FilesStay ==
    ASSUME IInv, NEW t \in All, NEW n \in TaskType,
           task' \in [All -> TaskType], task'[t] = n,
           \A u \in All \ {t} : task'[u] = task[u],
           engine' = engine, mishaps \subseteq mishaps', servers' \subseteq servers,
           mishaps' = {} =>
             /\ \A v \in Versions : Present(v) => Present(v)'
             /\ \A d \in Dirs : data'[d] = "absent" => data[d] = "absent"
             /\ n.pc \in {"init", "drive"} => Present(n.v)'
             /\ n.op \in {"uninstall", "purge"} /\ n.pc = "remove" => NoneHeld'
             /\ n.op = "change" =>
                  /\ n.pc # "download" => n.v \notin n.old
                  /\ n.pc \in {"ensure", "init", "drive"} => NoneHeld'
                  /\ n.pc \in {"persist", "remove"} =>
                       \A s \in servers' : Held(s) => s.v = n.v
    PROVE  FilesKept'
<1> SUFFICES ASSUME mishaps' = {}
             PROVE  /\ \A s \in servers' : Held(s) => Present(s.v)' /\ data'[DirOf(s.v)] # "absent"
                    /\ \A u \in All : task'[u].pc \in {"init", "drive"} => Present(task[u].v)'
                    /\ \A u \in Tasks : task'[u].op \in {"uninstall", "purge"}
                                          /\ task'[u].pc = "remove" => NoneHeld'
                    /\ \A u \in Tasks : task'[u].op = "change" =>
                       /\ task'[u].pc # "download" => task'[u].v \notin task'[u].old
                       /\ task'[u].pc \in {"ensure", "init", "drive"} => NoneHeld'
                       /\ task'[u].pc \in {"persist", "remove"} =>
                            \A s \in servers' : Held(s) => s.v = task'[u].v
  BY Zenon DEF FilesKept, DirOf, Held
<1>t. /\ servers \subseteq Server /\ task \in [All -> TaskType] /\ Tasks \subseteq All
      /\ Progress
  BY TaskFacts, Zenon DEF IInv, TypeOK, All
<1>k. /\ \A s \in servers : Held(s) => Present(s.v) /\ data[DirOf(s.v)] # "absent"
      /\ \A u \in All : task[u].pc \in {"init", "drive"} => Present(task[u].v)
      /\ \A u \in Tasks : task[u].op \in {"uninstall", "purge"} /\ task[u].pc = "remove" => NoneHeld
      /\ \A u \in Tasks : task[u].op = "change" =>
           /\ task[u].pc # "download" => task[u].v \notin task[u].old
           /\ task[u].pc \in {"ensure", "init", "drive"} => NoneHeld
           /\ task[u].pc \in {"persist", "remove"} =>
                \A s \in servers : Held(s) => s.v = task[u].v
  BY Zenon DEF IInv, FilesKept
<1>n. NoneHeld => NoneHeld'
  BY Zenon DEF NoneHeld, Held
<1>1. \A s \in servers' : Held(s) => Present(s.v)' /\ data'[DirOf(s.v)] # "absent"
  <2> SUFFICES ASSUME NEW s \in servers', Held(s)
               PROVE  Present(s.v)' /\ data'[DirOf(s.v)] # "absent"
    BY Zenon
  <2>1. s.v \in Versions /\ DirOf(s.v) \in Dirs /\ s' = s
    BY <1>t, Zenon DEF Server, Dirs
  <2> QED
    BY <2>1, <1>k, Zenon
<1>2. \A u \in All : task'[u].pc \in {"init", "drive"} => Present(task[u].v)'
  <2> SUFFICES ASSUME NEW u \in All, task'[u].pc \in {"init", "drive"}
               PROVE  Present(task[u].v)'
    BY Zenon
  <2>1. CASE u = t
    BY <2>1, Zenon
  <2>2. CASE u # t
    BY <2>2, <1>k, <1>t, Zenon DEF Progress
  <2> QED
    BY <2>1, <2>2, Zenon
<1>3. \A u \in Tasks : task'[u].op \in {"uninstall", "purge"}
                         /\ task'[u].pc = "remove" => NoneHeld'
  BY <1>k, <1>t, <1>n, Zenon
<1>4. ASSUME NEW u \in Tasks, task'[u].op = "change"
      PROVE  /\ task'[u].pc # "download" => task'[u].v \notin task'[u].old
             /\ task'[u].pc \in {"ensure", "init", "drive"} => NoneHeld'
             /\ task'[u].pc \in {"persist", "remove"} =>
                  \A s \in servers' : Held(s) => s.v = task'[u].v
  BY <1>4, <1>k, <1>t, <1>n
<1> QED
  BY <1>1, <1>2, <1>3, <1>4, Zenon

CfgType == {Nil} \cup [version : Versions \cup {Nil}, enabled : BOOLEAN]
DataType == [Dirs -> {"absent", "ready", "used"}]

LEMMA StateFacts ==
    ASSUME IInv
    PROVE  /\ installed \subseteq Versions /\ data \in DataType /\ cfg \in CfgType
           /\ inst \in Versions \cup {Nil} /\ servers \subseteq Server
           /\ mishaps \subseteq {"overlap", "swap"} /\ engine \in Engines
           /\ stopped \in {"no", "stop", "boot"} /\ left \in 0 .. MaxRequests
           /\ boots \in 0 .. MaxBoots /\ lock \in All \cup {Nil}
           /\ \A v \in Versions : DirOf(v) \in Dirs
           /\ Tasks \subseteq All /\ AutoStart \in All
  BY Zenon DEF IInv, TypeOK, CfgType, DataType, Dirs, All

\* A step of a request that starts no server and removes no file.
LEMMA StepKeeps ==
    ASSUME IInv, NEW t \in All, NEW n \in TaskType, task' = [task EXCEPT ![t] = n],
           ProgressOf(t, n),
           n.op = task[t].op \/ n.pc = "idle",
           task[t].pc \notin {"idle", "done"},
           mishaps \subseteq mishaps', mishaps' \subseteq {"overlap", "swap"},
           lock' = lock \/ (lock' = t /\ lock = Nil) \/ (lock' = Nil /\ lock = t),
           n.pc \in {"ensure", "init", "drive"} <=> lock' = t,
           installed' \subseteq Versions, data' \in DataType, cfg' \in CfgType,
           inst' \in Versions \cup {Nil}, servers' \subseteq servers,
           UNCHANGED <<engine, stopped, left, boots>>,
           \A d \in Dirs : data'[d] = "used" => data[d] = "used",
           n.pc = "init" => data'[DirOf(n.v)] # "used",
           mishaps' = {} =>
             /\ \A v \in Versions : Present(v) => Present(v)'
             /\ \A d \in Dirs : data'[d] = "absent" => data[d] = "absent"
             /\ n.pc \in {"init", "drive"} => Present(n.v)'
             /\ n.op \in {"uninstall", "purge"} /\ n.pc = "remove" => NoneHeld'
             /\ n.op = "change" =>
                  /\ n.pc # "download" => n.v \notin n.old
                  /\ n.pc \in {"ensure", "init", "drive"} => NoneHeld'
                  /\ n.pc \in {"persist", "remove"} =>
                       \A s \in servers' : Held(s) => s.v = n.v
    PROVE  IInv'
<1>1. /\ task' \in [All -> TaskType] /\ task'[t] = n
      /\ \A u \in All \ {t} : task'[u] = task[u]
      /\ Progress' /\ Mutex' /\ Alone'
      /\ lock' \in All \cup {Nil}
      /\ lock' # Nil => task'[lock'].pc \in {"ensure", "init", "drive"}
  BY GoesOn, Zenon
<1>2. FilesKept'
  BY <1>1, FilesStay, Zenon
<1>d. Dirs' = Dirs
  BY Zenon DEF Dirs, DirOf
<1>3. TypeOK'
  BY <1>1, <1>d, Zenon DEF IInv, TypeOK, TaskType, CfgType, DataType
<1>4. AtMostOne'
  BY DEF IInv, AtMostOne
<1>5. Unused'
  <2> SUFFICES ASSUME NEW u \in All, task'[u].pc = "init"
               PROVE  data'[DirOf(task'[u].v)] # "used"
    BY Zenon DEF Unused, DirOf
  <2>1. CASE u = t
    BY <2>1, <1>1, Zenon
  <2>2. CASE u # t
    <3>1. task'[u] = task[u] /\ task[u].v \in Versions
      BY <2>2, <1>1, Zenon DEF IInv, Progress
    <3>2. data[DirOf(task[u].v)] # "used" /\ DirOf(task[u].v) \in Dirs
      BY <3>1, Zenon DEF IInv, Unused, Dirs
    <3> QED
      BY <3>1, <3>2, Zenon
  <2> QED
    BY <2>1, <2>2, Zenon
<1> QED
  BY <1>1, <1>2, <1>3, <1>4, <1>5, Zenon DEF IInv

Ended(t) == IF t = AutoStart THEN [Idle EXCEPT !.pc = "done", !.op = "auto"] ELSE Idle

LEMMA EndFacts ==
    ASSUME IInv, NEW t \in All, NEW n, n = Ended(t)
    PROVE  /\ n \in TaskType /\ ProgressOf(t, n) /\ n.pc \in {"idle", "done"}
           /\ n.op \in {"start", "auto"} /\ (n.op = task[t].op \/ n.pc = "idle")
<1>1. CASE t = AutoStart
  <2>1. n.pc = "done" /\ n.op = "auto" /\ n.v = Nil /\ n.old = {} /\ n \in TaskType
    BY <1>1, Zenon DEF Ended, Idle, TaskType, Pcs, Ops
  <2>2. task[t].op = "auto"
    BY <1>1, TaskFacts, Zenon DEF ProgressOf
  <2> QED
    BY <1>1, <2>1, <2>2, Zenon DEF ProgressOf
<1>2. CASE t # AutoStart
  <2>1. n = Idle
    BY <1>2, Zenon DEF Ended
  <2> QED
    BY <1>2, <2>1, IdleFacts, Zenon DEF ProgressOf
<1> QED
  BY <1>1, <1>2, Zenon

\* The request ends, having changed nothing but, perhaps, a data directory.
LEMMA EndsQuietly ==
    ASSUME IInv, NEW t \in All, task' = [task EXCEPT ![t] = Ended(t)],
           task[t].pc \notin {"idle", "done"},
           (lock' = lock /\ lock # t) \/ (lock' = Nil /\ lock = t),
           mishaps \subseteq mishaps', mishaps' \subseteq {"overlap", "swap"},
           mishaps' = {} => task[t].pc # "rename",
           data' \in DataType, \A d \in Dirs : data'[d] = "used" => data[d] = "used",
           \A d \in Dirs : data'[d] = "absent" => data[d] = "absent",
           cfg' \in CfgType,
           UNCHANGED <<engine, installed, inst, servers, stopped, left, boots>>
    PROVE  IInv'
<1> DEFINE n == Ended(t)
<1>1. /\ n \in TaskType /\ ProgressOf(t, n) /\ n.pc \in {"idle", "done"}
      /\ n.op \in {"start", "auto"} /\ (n.op = task[t].op \/ n.pc = "idle")
  BY EndFacts, Zenon
<1>2. task \in [All -> TaskType]
  BY TaskFacts, Zenon
<1>3. mishaps' = {} => \A v \in Versions : Present(v) => Present(v)'
  BY <1>1, <1>2, Zenon DEF Present, All
<1>4. /\ n.pc \in {"ensure", "init", "drive"} <=> lock' = t
      /\ lock' = lock \/ (lock' = Nil /\ lock = t)
  BY <1>1, ServiceEngineAssumption, Zenon DEF All
<1>5. n.pc \notin {"init", "drive", "remove", "persist", "ensure"}
      /\ n.op \notin {"uninstall", "purge", "change"}
  BY <1>1, Zenon
<1> HIDE DEF n
<1> QED
  BY <1>1, <1>2, <1>3, <1>4, <1>5, StateFacts, StepKeeps, Zenon DEF n

\* A request that is not inside ensure ends, having changed nothing.
LEMMA EndsOutside ==
    ASSUME IInv, NEW t \in All, task' = [task EXCEPT ![t] = Ended(t)],
           task[t].pc \notin {"idle", "done"}, lock # t,
           mishaps \subseteq mishaps', mishaps' \subseteq {"overlap", "swap"},
           mishaps' = {} => task[t].pc # "rename", cfg' \in CfgType,
           UNCHANGED <<engine, installed, data, inst, servers, lock, stopped, left, boots>>
    PROVE  IInv'
<1>1. (lock' = lock /\ lock # t) \/ (lock' = Nil /\ lock = t)
  BY Zenon
<1>2. /\ data' \in DataType
      /\ \A d \in Dirs : data'[d] = "used" => data[d] = "used"
      /\ \A d \in Dirs : data'[d] = "absent" => data[d] = "absent"
  BY StateFacts, Zenon
<1> QED
  BY <1>1, <1>2, EndsQuietly, Zenon

-----------------------------------------------------------------------------
(* The actions.                                                              *)

LEMMA EndingSteps ==
    ASSUME IInv, NEW t \in All, DownloadFails(t) \/ RenameFails(t) \/ InitFails(t) \/ DriveFails(t)
    PROVE  IInv'
<1>l. task[t].pc \in {"ensure", "init", "drive"} <=> lock = t
  <2>1. lock = t => task[t].pc \in {"ensure", "init", "drive"}
    BY ServiceEngineAssumption DEF IInv, TypeOK, All
  <2> QED
    BY <2>1, Zenon DEF IInv, Mutex
<1>1. CASE DownloadFails(t)
  <2>1. /\ task[t].pc = "clear" /\ task' = [task EXCEPT ![t] = Ended(t)]
        /\ UNCHANGED <<installed, data, cfg, inst, servers, lock, engine, stopped, mishaps, left, boots>>
    BY <1>1, Zenon DEF DownloadFails, End, Ended, books
  <2>2. lock # t /\ task[t].pc \notin {"idle", "done", "rename"}
    BY <2>1, <1>l, Zenon
  <2> QED
    BY <2>1, <2>2, StateFacts, EndsOutside, Zenon
<1>2. CASE RenameFails(t)
  <2>1. /\ task[t].pc = "rename" /\ task' = [task EXCEPT ![t] = Ended(t)]
        /\ mishaps' = mishaps \cup {"swap"}
        /\ UNCHANGED <<installed, data, cfg, inst, servers, lock, engine, stopped, left, boots>>
    BY <1>2, Zenon DEF RenameFails, End, Ended
  <2>2. lock # t /\ task[t].pc \notin {"idle", "done"}
    BY <2>1, <1>l, Zenon
  <2>3. /\ mishaps \subseteq mishaps' /\ mishaps' \subseteq {"overlap", "swap"}
        /\ mishaps' # {}
    BY <2>1, StateFacts, Zenon
  <2> QED
    BY <2>1, <2>2, <2>3, StateFacts, EndsOutside, Zenon
<1>3. CASE InitFails(t)
  <2>1. /\ task[t].pc = "init" /\ task' = [task EXCEPT ![t] = Ended(t)] /\ lock' = Nil
        /\ UNCHANGED <<installed, data, cfg, inst, servers, engine, stopped, mishaps, left, boots>>
    BY <1>3, Zenon DEF InitFails, End, Ended, books
  <2> QED
    BY <2>1, <1>l, StateFacts, EndsQuietly, Zenon
<1>4. CASE DriveFails(t)
  <2> DEFINE d == DirOf(task[t].v)
  <2>1. /\ task[t].pc = "drive" /\ task' = [task EXCEPT ![t] = Ended(t)] /\ lock' = Nil
        /\ data' = [data EXCEPT ![d] = IF PortFree THEN Prepared(d) ELSE data[d]]
        /\ UNCHANGED <<installed, cfg, inst, servers, engine, stopped, mishaps, left, boots>>
    BY <1>4, Zenon DEF DriveFails, End, Ended, books
  <2>2. task[t].v \in Versions
    BY <2>1, Zenon DEF IInv, Progress
  <2>3. d \in Dirs /\ data \in DataType
    BY <2>2, StateFacts, Zenon
  <2>4. /\ data' \in DataType /\ \A e \in Dirs : data'[e] = "used" => data[e] = "used"
        /\ \A e \in Dirs : data'[e] = "absent" => data[e] = "absent"
    <3>1. data[d] \in {"absent", "ready", "used"}
      BY <2>3, Zenon DEF DataType
    <3>2. PICK x \in {"absent", "ready", "used"} :
            /\ data' = [data EXCEPT ![d] = x] /\ (x = "used" => data[d] = "used")
            /\ x = "absent" => data[d] = "absent"
      BY <2>1, <3>1, Zenon DEF Prepared
    <3> HIDE DEF d
    <3> QED
      BY <3>2, <2>3, Zenon DEF DataType
  <2> QED
    BY <2>1, <2>4, <1>l, StateFacts, EndsQuietly, Zenon
<1> QED
  BY <1>1, <1>2, <1>3, <1>4, Zenon

LEMMA GotoFacts ==
    ASSUME IInv, NEW t \in All, NEW pc \in Pcs, NEW n, n = [task[t] EXCEPT !.pc = pc], Goto(t, pc)
    PROVE  /\ task' = [task EXCEPT ![t] = n] /\ n \in TaskType
           /\ n.pc = pc /\ n.op = task[t].op /\ n.v = task[t].v /\ n.old = task[t].old
  BY TaskFacts, Zenon DEF Goto, TaskType

LEMMA GoesTo ==
    ASSUME IInv, NEW t \in All, NEW pc \in Pcs, Goto(t, pc)
    PROVE  \E n \in TaskType :
             /\ task' = [task EXCEPT ![t] = n]
             /\ n.pc = pc /\ n.op = task[t].op /\ n.v = task[t].v /\ n.old = task[t].old
<1> DEFINE n == [task[t] EXCEPT !.pc = pc]
<1>1. /\ task' = [task EXCEPT ![t] = n] /\ n \in TaskType
      /\ n.pc = pc /\ n.op = task[t].op /\ n.v = task[t].v /\ n.old = task[t].old
  BY GotoFacts
<1> HIDE DEF n
<1> QED
  BY <1>1, Zenon

\* A task has the lock exactly while it is inside ensure.
LEMMA HasLock ==
    ASSUME IInv, NEW t \in All
    PROVE  task[t].pc \in {"ensure", "init", "drive"} <=> lock = t
<1>1. lock = t => task[t].pc \in {"ensure", "init", "drive"}
  BY ServiceEngineAssumption DEF IInv, TypeOK, All
<1> QED
  BY <1>1, Zenon DEF IInv, Mutex

LEMMA DownloadStep ==
    ASSUME IInv, NEW t \in All, Download(t) PROVE IInv'
<1> DEFINE old == IF task[t].op = "change" THEN installed \ {task[t].v} ELSE {}
           n == [task[t] EXCEPT !.pc = "clear", !.old = old]
<1>t. task[t] \in TaskType /\ task \in [All -> TaskType] /\ ProgressOf(t, task[t])
  BY TaskFacts, Zenon
<1>u. /\ task[t].pc = "download" /\ task' = [task EXCEPT ![t] = n]
      /\ UNCHANGED <<installed, data, cfg, inst, servers, lock, engine, stopped, mishaps, left, boots>>
  <2>1. task' = [task EXCEPT ![t].pc = "clear", ![t].old = old]
    BY Zenon DEF Download
  <2> QED
    BY <1>t, <2>1, Zenon DEF Download, books, TaskType
<1>o. old \subseteq Versions /\ (task[t].op = "change" => task[t].v \notin old)
  BY StateFacts, Zenon
<1>n. /\ n \in TaskType /\ n.pc = "clear" /\ n.op = task[t].op /\ n.v = task[t].v /\ n.old = old
  <2> HIDE DEF old
  <2> QED
    BY <1>t, <1>o, Zenon DEF TaskType, Pcs
<1>p. ProgressOf(t, n) /\ lock # t
  BY <1>t, <1>u, <1>n, HasLock, Zenon DEF ProgressOf
<1>f. \A v \in Versions : Present(v) => Present(v)'
  BY <1>t, <1>u, Zenon DEF Present, All
<1> HIDE DEF n, old
<1> QED
  BY <1>u, <1>o, <1>n, <1>p, <1>f, StateFacts, StepKeeps, Zenon

LEMMA ClearStep ==
    ASSUME IInv, NEW t \in All, Clear(t) PROVE IInv'
<1> DEFINE n == [task[t] EXCEPT !.pc = "rename"]
<1>t. task[t] \in TaskType /\ task \in [All -> TaskType] /\ ProgressOf(t, task[t])
  BY TaskFacts, Zenon
<1>u. /\ task[t].pc = "clear" /\ Goto(t, "rename") /\ installed' = installed \ {task[t].v}
      /\ UNCHANGED <<data, cfg, inst, servers, lock, engine, stopped, mishaps, left, boots>>
  BY Zenon DEF Clear, books
<1>n. /\ task' = [task EXCEPT ![t] = n] /\ n \in TaskType
      /\ n.pc = "rename" /\ n.op = task[t].op /\ n.v = task[t].v /\ n.old = task[t].old
  BY <1>u, GotoFacts DEF Pcs
<1>p. ProgressOf(t, n) /\ lock # t /\ t # AutoStart
  BY <1>t, <1>u, <1>n, HasLock, Zenon DEF ProgressOf
<1>f. \A v \in Versions : Present(v) => Present(v)'
  <2> HIDE DEF n
  <2>1. t \in Tasks /\ task'[t] = n /\ \A u \in All \ {t} : task'[u] = task[u]
    BY <1>t, <1>n, <1>p, Zenon DEF All
  <2> QED
    BY <2>1, <1>u, <1>n, Zenon DEF Present, All
<1>o. mishaps = {} => (n.op = "change" => n.v \notin n.old)
  BY <1>u, <1>n, <1>p, Zenon DEF IInv, FilesKept, All
<1>i. installed' \subseteq Versions
  BY <1>u, StateFacts, Zenon
<1> HIDE DEF n
<1> QED
  BY <1>u, <1>n, <1>p, <1>f, <1>o, <1>i, StateFacts, StepKeeps, Zenon

LEMMA RenameStep ==
    ASSUME IInv, NEW t \in All, Rename(t) PROVE IInv'
<1> DEFINE n == [task[t] EXCEPT !.pc = "lock"]
<1>t. task[t] \in TaskType /\ task \in [All -> TaskType] /\ ProgressOf(t, task[t])
  BY TaskFacts, Zenon
<1>u. /\ task[t].pc = "rename" /\ Goto(t, "lock") /\ installed' = installed \cup {task[t].v}
      /\ UNCHANGED <<data, cfg, inst, servers, lock, engine, stopped, mishaps, left, boots>>
  BY Zenon DEF Rename, books
<1>n. /\ task' = [task EXCEPT ![t] = n] /\ n \in TaskType
      /\ n.pc = "lock" /\ n.op = task[t].op /\ n.v = task[t].v /\ n.old = task[t].old
  BY <1>u, GotoFacts DEF Pcs
<1>p. ProgressOf(t, n) /\ lock # t /\ t # AutoStart /\ task[t].v \in Versions
  BY <1>t, <1>u, <1>n, HasLock, Zenon DEF ProgressOf
<1>f. \A v \in Versions : Present(v) => Present(v)'
  <2> HIDE DEF n
  <2>1. \A u \in All \ {t} : task'[u] = task[u]
    BY <1>t, <1>n, Zenon
  <2> QED
    BY <2>1, <1>u, Zenon DEF Present, All
<1>o. mishaps = {} => (n.op = "change" => n.v \notin n.old)
  BY <1>u, <1>n, <1>p, Zenon DEF IInv, FilesKept, All
<1>i. installed' \subseteq Versions
  BY <1>u, <1>p, StateFacts, Zenon
<1> HIDE DEF n
<1> QED
  BY <1>u, <1>n, <1>p, <1>f, <1>o, <1>i, StateFacts, StepKeeps, Zenon

LEMMA ResolveFacts ==
    ASSUME IInv, NEW t, resolve_version(t) # Nil
    PROVE  resolve_version(t) \in Versions
<1>1. cfg \in CfgType /\ installed \subseteq Versions
  BY StateFacts, Zenon
<1>2. Configured \in Versions \cup {Nil}
  BY <1>1, Zenon DEF Configured, CfgType
<1>3. Latest \in Versions \cup {Nil}
  <2>1. CASE installed = {}
    BY <2>1, Zenon DEF Latest
  <2>2. CASE installed # {}
    <3>1. \E v \in installed : \A w \in installed : v >= w
      BY <1>1, <2>2, ServiceEngineAssumption, Zenon
    <3>2. Max(installed) \in installed
      BY <3>1, Zenon DEF Max
    <3> QED
      BY <1>1, <2>2, <3>2, Zenon DEF Latest
  <2> QED
    BY <2>1, <2>2, Zenon
<1> QED
  BY <1>2, <1>3, Zenon DEF resolve_version

LEMMA ReadStep ==
    ASSUME IInv, NEW t \in All, Read(t) PROVE IInv'
<1>t. task[t] \in TaskType /\ task \in [All -> TaskType] /\ ProgressOf(t, task[t])
  BY TaskFacts, Zenon
<1>u. /\ task[t].pc = "read"
      /\ UNCHANGED <<installed, data, cfg, inst, servers, lock, engine, stopped, mishaps, left, boots>>
  BY Zenon DEF Read, books
<1>l. lock # t /\ task[t].pc \notin {"idle", "done", "rename"}
  BY <1>u, HasLock, Zenon
<1>1. CASE End(t)
  <2>1. task' = [task EXCEPT ![t] = Ended(t)]
    BY <1>1, Zenon DEF End, Ended
  <2> QED
    BY <2>1, <1>u, <1>l, StateFacts, EndsOutside, Zenon
<1>2. CASE /\ resolve_version(t) # Nil
           /\ task' = [task EXCEPT ![t].pc = "lock", ![t].v = resolve_version(t)]
  <2> DEFINE v == resolve_version(t)
             n == [task[t] EXCEPT !.pc = "lock", !.v = v]
  <2>1. v \in Versions
    BY <1>2, ResolveFacts, Zenon
  <2> HIDE DEF v
  <2>n. /\ task' = [task EXCEPT ![t] = n] /\ n \in TaskType
        /\ n.pc = "lock" /\ n.op = task[t].op /\ n.v = v /\ n.old = task[t].old
    BY <1>2, <1>t, <2>1, Zenon DEF TaskType, Pcs, v
  <2>p. ProgressOf(t, n)
    BY <1>t, <1>u, <2>n, <2>1, Zenon DEF ProgressOf
  <2>f. \A w \in Versions : Present(w) => Present(w)'
    <3> HIDE DEF n
    <3>1. \A u \in All \ {t} : task'[u] = task[u]
      BY <1>t, <2>n, Zenon
    <3> QED
      BY <3>1, <1>u, Zenon DEF Present, All
  <2>o. n.op # "change"
    BY <1>t, <1>u, <2>n, Zenon DEF ProgressOf
  <2> HIDE DEF n
  <2> QED
    BY <1>u, <1>l, <2>n, <2>p, <2>f, <2>o, StateFacts, StepKeeps, Zenon
<1> QED
  BY <1>1, <1>2, Zenon DEF Read

\* Without an overlap a request in flight beside another is no removal, and the
\* auto-start is done.
LEMMA Sole ==
    ASSUME IInv, mishaps = {}, NEW t \in All, task[t].pc \notin {"idle", "done"},
           NEW u \in All, u # t
    PROVE  /\ u \in Tasks => ~ Removal(task[u].op)
           /\ Removal(task[t].op) /\ t \in Tasks => task[u].pc \in {"idle", "done"}
<1>a. /\ task[AutoStart].pc # "done" => \A x \in Tasks : task[x].pc = "idle"
      /\ \A x, y \in Tasks : Removal(task[x].op) /\ y # x => task[y].pc = "idle"
  BY Zenon DEF IInv, Alone, AtRest
<1>1. CASE t = AutoStart
  <2>1. u \in Tasks /\ task[u].pc = "idle"
    BY <1>1, <1>a, Zenon DEF All
  <2>2. task[u] = Idle
    BY <2>1, <1>1, TaskFacts, ServiceEngineAssumption, Zenon DEF ProgressOf
  <2> QED
    BY <1>1, <2>1, <2>2, IdleFacts, Zenon
<1>2. CASE t # AutoStart
  <2>1. t \in Tasks /\ task[AutoStart].pc = "done"
    BY <1>2, <1>a, Zenon DEF All
  <2> QED
    BY <2>1, <1>a, Zenon DEF All
<1> QED
  BY <1>1, <1>2, Zenon

\* The step takes nothing from what is present: t's task changes, the files do not.
LEMMA StaysPresent ==
    ASSUME IInv, NEW t \in All, NEW n \in TaskType, task' = [task EXCEPT ![t] = n],
           task[t].pc # "rename", installed \subseteq installed'
    PROVE  \A v \in Versions : Present(v) => Present(v)'
<1>1. task \in [All -> TaskType]
  BY TaskFacts, Zenon
<1>2. \A u \in All \ {t} : task'[u] = task[u]
  BY <1>1, Zenon
<1> QED
  BY <1>2, Zenon DEF Present, All

LEMMA StoppedFacts ==
    ASSUME IInv, Stopped
    PROVE  /\ inst' \in Versions \cup {Nil} /\ servers' \subseteq servers
           /\ NoneHeld'
  BY Zenon DEF Stopped, NoneHeld, Held

LEMMA StopStep ==
    ASSUME IInv, NEW t \in All, Stop(t) PROVE IInv'
<1>t. task[t] \in TaskType /\ task \in [All -> TaskType] /\ ProgressOf(t, task[t])
  BY TaskFacts, Zenon
<1>u. /\ task[t].pc = "lock" /\ Stopped /\ lock = Nil
      /\ UNCHANGED <<installed, data, cfg, lock, engine, stopped, mishaps, left, boots>>
  BY Zenon DEF Stop, books
<1>l. lock # t
  BY <1>u, ServiceEngineAssumption, Zenon DEF All
<1>s. inst' \in Versions \cup {Nil} /\ servers' \subseteq servers /\ NoneHeld'
  BY <1>u, StoppedFacts, Zenon
<1>1. PICK n \in TaskType :
        /\ task' = [task EXCEPT ![t] = n] /\ ProgressOf(t, n)
        /\ n.op = task[t].op \/ n.pc = "idle"
        /\ n.pc \in {"idle", "done", "read", "remove"}
        /\ n.op # "change"
  <2>1. CASE End(t)
    <3>1. task' = [task EXCEPT ![t] = Ended(t)]
      BY <2>1, Zenon DEF End, Ended
    <3> DEFINE n == Ended(t)
    <3>2. /\ n \in TaskType /\ ProgressOf(t, n) /\ n.pc \in {"idle", "done"}
          /\ n.op \in {"start", "auto"} /\ (n.op = task[t].op \/ n.pc = "idle")
      BY EndFacts, Zenon
    <3> HIDE DEF n
    <3> QED
      BY <3>1, <3>2, Zenon DEF n
  <2>2. CASE task[t].op = "restart" /\ Goto(t, "read")
    <3> DEFINE n == [task[t] EXCEPT !.pc = "read"]
    <3>1. /\ task' = [task EXCEPT ![t] = n] /\ n \in TaskType
          /\ n.pc = "read" /\ n.op = task[t].op /\ n.v = task[t].v /\ n.old = task[t].old
      BY <2>2, GotoFacts DEF Pcs
    <3>2. ProgressOf(t, n)
      BY <1>t, <2>2, <3>1, Zenon DEF ProgressOf
    <3> HIDE DEF n
    <3> QED
      BY <2>2, <3>1, <3>2, Zenon
  <2>3. CASE task[t].op \in {"uninstall", "purge"} /\ Goto(t, "remove")
    <3> DEFINE n == [task[t] EXCEPT !.pc = "remove"]
    <3>1. /\ task' = [task EXCEPT ![t] = n] /\ n \in TaskType
          /\ n.pc = "remove" /\ n.op = task[t].op /\ n.v = task[t].v /\ n.old = task[t].old
      BY <2>3, GotoFacts DEF Pcs
    <3>2. ProgressOf(t, n)
      BY <1>t, <2>3, <3>1, Zenon DEF ProgressOf
    <3> HIDE DEF n
    <3> QED
      BY <2>3, <3>1, <3>2, Zenon
  <2> QED
    BY <2>1, <2>2, <2>3, Zenon DEF Stop
<1>f. \A v \in Versions : Present(v) => Present(v)'
  BY <1>1, <1>u, StaysPresent, Zenon
<1> QED
  BY <1>u, <1>l, <1>s, <1>1, <1>f, StateFacts, StepKeeps, Zenon

LEMMA LockStep ==
    ASSUME IInv, NEW t \in All, Lock(t) PROVE IInv'
<1> DEFINE n == [task[t] EXCEPT !.pc = "ensure"]
<1>t. task[t] \in TaskType /\ task \in [All -> TaskType] /\ ProgressOf(t, task[t])
  BY TaskFacts, Zenon
<1>u. /\ task[t].pc = "lock" /\ lock = Nil /\ lock' = t /\ task[t].v # Nil
      /\ Goto(t, "ensure")
      /\ UNCHANGED <<installed, data, cfg, engine, stopped, mishaps, left, boots>>
  BY Zenon DEF Lock, books
<1>s. /\ inst' \in Versions \cup {Nil} /\ servers' \subseteq servers
      /\ task[t].op = "change" => NoneHeld'
  <2>1. CASE task[t].op = "change"
    BY <2>1, StoppedFacts, Zenon DEF Lock
  <2>2. CASE task[t].op # "change"
    BY <2>2, StateFacts, Zenon DEF Lock
  <2> QED
    BY <2>1, <2>2, Zenon
<1>n. /\ task' = [task EXCEPT ![t] = n] /\ n \in TaskType
      /\ n.pc = "ensure" /\ n.op = task[t].op /\ n.v = task[t].v /\ n.old = task[t].old
  BY <1>u, GotoFacts DEF Pcs
<1>p. ProgressOf(t, n)
  BY <1>t, <1>u, <1>n, Zenon DEF ProgressOf, TaskType
<1>f. \A v \in Versions : Present(v) => Present(v)'
  BY <1>u, <1>n, StaysPresent, Zenon
<1>o. mishaps = {} => (n.op = "change" => n.v \notin n.old)
  <2>1. task[t].op = "change" => t \in Tasks
    BY <1>t, Zenon DEF ProgressOf, All
  <2> QED
    BY <2>1, <1>u, <1>n, Zenon DEF IInv, FilesKept
<1> HIDE DEF n
<1> QED
  BY <1>u, <1>s, <1>n, <1>p, <1>f, <1>o, StateFacts, StepKeeps, Zenon

\* What becomes of the task when its server is up: it persists or ends.
LEMMA StartedFacts ==
    ASSUME IInv, NEW t \in All, Started(t), task[t].v \in Versions
    PROVE  \E n \in TaskType :
             /\ task' = [task EXCEPT ![t] = n] /\ ProgressOf(t, n)
             /\ n.op = task[t].op \/ n.pc = "idle"
             /\ n.pc \in {"idle", "done", "persist"}
             /\ n.op \notin {"uninstall", "purge"}
             /\ n.op = "change" => n.pc = "persist" /\ n.v = task[t].v /\ n.old = task[t].old
<1>t. task[t] \in TaskType /\ task \in [All -> TaskType] /\ ProgressOf(t, task[t])
  BY TaskFacts, Zenon
<1>1. CASE Persists(t)
  <2> DEFINE n == [task[t] EXCEPT !.pc = "persist"]
  <2>1. /\ task' = [task EXCEPT ![t] = n] /\ n \in TaskType
        /\ n.pc = "persist" /\ n.op = task[t].op /\ n.v = task[t].v /\ n.old = task[t].old
    BY <1>1, GotoFacts DEF Started, Pcs
  <2>2. task[t].op \in {"install", "change", "start"}
    BY <1>1, Zenon DEF Persists
  <2>3. ProgressOf(t, n)
    BY <1>t, <2>1, <2>2, Zenon DEF ProgressOf
  <2> HIDE DEF n
  <2> QED
    BY <2>1, <2>2, <2>3, Zenon
<1>2. CASE ~ Persists(t)
  <2> DEFINE n == Ended(t)
  <2>1. task' = [task EXCEPT ![t] = n]
    BY <1>2, Zenon DEF Started, End, Ended
  <2>2. /\ n \in TaskType /\ ProgressOf(t, n) /\ n.pc \in {"idle", "done"}
        /\ n.op \in {"start", "auto"} /\ (n.op = task[t].op \/ n.pc = "idle")
    BY EndFacts, Zenon
  <2> HIDE DEF n
  <2> QED
    BY <2>1, <2>2, Zenon
<1> QED
  BY <1>1, <1>2, Zenon

\* Without a mishap a change of version inside ensure finds nothing running.
LEMMA ChangeFacts ==
    ASSUME IInv, NEW t \in All, mishaps = {}, task[t].op = "change", task[t].pc # "download"
    PROVE  /\ t \in Tasks /\ task[t].v \notin task[t].old
           /\ task[t].pc \in {"ensure", "init", "drive"} => NoneHeld
           /\ task[t].pc \in {"persist", "remove"} =>
                \A s \in servers : Held(s) => s.v = task[t].v
<1>1. t \in Tasks
  BY TaskFacts, Zenon DEF ProgressOf, All
<1> QED
  BY <1>1, Zenon DEF IInv, FilesKept

LEMMA EnsureStep ==
    ASSUME IInv, NEW t \in All, Ensure(t) PROVE IInv'
<1>t. task[t] \in TaskType /\ task \in [All -> TaskType] /\ ProgressOf(t, task[t])
  BY TaskFacts, Zenon
<1>u. /\ task[t].pc = "ensure"
      /\ UNCHANGED <<installed, data, cfg, inst, servers, engine, stopped, mishaps, left, boots>>
  BY Zenon DEF Ensure, books
<1>l. lock = t /\ task[t].v \in Versions /\ t # Nil
  BY <1>t, <1>u, HasLock, ServiceEngineAssumption, Zenon DEF ProgressOf, All
<1>d. /\ data' \in DataType
      /\ \A d \in Dirs : data'[d] = "used" => data[d] = "used"
      /\ \A d \in Dirs : data'[d] = "absent" => data[d] = "absent"
      /\ installed' \subseteq Versions /\ cfg' \in CfgType /\ inst' \in Versions \cup {Nil}
      /\ servers' \subseteq servers
  BY <1>u, StateFacts, Zenon
<1>1. CASE Alive /\ Started(t) /\ lock' = Nil
  <2>1. PICK n \in TaskType :
          /\ task' = [task EXCEPT ![t] = n] /\ ProgressOf(t, n)
          /\ n.op = task[t].op \/ n.pc = "idle"
          /\ n.pc \in {"idle", "done", "persist"}
          /\ n.op \notin {"uninstall", "purge"}
          /\ n.op = "change" => n.pc = "persist" /\ n.v = task[t].v /\ n.old = task[t].old
    BY <1>1, <1>l, StartedFacts, Zenon
  <2>2. ~ NoneHeld
    <3>1. [v |-> inst, held |-> TRUE] \in servers
      BY <1>1, Zenon DEF Alive
    <3> QED
      BY <3>1, Zenon DEF NoneHeld, Held
  <2>3. mishaps = {} => n.op # "change"
    <3> SUFFICES ASSUME mishaps = {}, n.op = "change" PROVE FALSE
      BY Zenon
    <3>1. task[t].op = "change"
      BY <2>1, Zenon
    <3> QED
      BY <3>1, <2>2, <1>u, ChangeFacts, Zenon
  <2>f. \A v \in Versions : Present(v) => Present(v)'
    BY <2>1, <1>u, StaysPresent, Zenon
  <2> QED
    BY <1>1, <1>u, <1>l, <1>d, <2>1, <2>3, <2>f, StateFacts, StepKeeps, Zenon
<1>2. CASE End(t) /\ lock' = Nil
  <2>1. task' = [task EXCEPT ![t] = Ended(t)]
    BY <1>2, Zenon DEF End, Ended
  <2> QED
    BY <2>1, <1>2, <1>u, <1>l, <1>d, StateFacts, EndsQuietly, Zenon
<1>3. CASE /\ task[t].v \in installed /\ lock' = lock
           /\ Goto(t, IF engine.init /\ data[DirOf(task[t].v)] = "absent" THEN "init" ELSE "drive")
  <2> DEFINE pc == IF engine.init /\ data[DirOf(task[t].v)] = "absent" THEN "init" ELSE "drive"
  <2>1. pc \in {"init", "drive"} /\ pc \in Pcs /\ (pc = "init" => data[DirOf(task[t].v)] # "used")
    BY Zenon DEF Pcs
  <2> HIDE DEF pc
  <2>n. PICK n \in TaskType :
        /\ task' = [task EXCEPT ![t] = n]
        /\ n.pc = pc /\ n.op = task[t].op /\ n.v = task[t].v /\ n.old = task[t].old
    BY <1>3, <2>1, GoesTo, Zenon DEF pc
  <2>p. ProgressOf(t, n)
    BY <1>t, <1>u, <1>l, <2>1, <2>n, Zenon DEF ProgressOf
  <2>f. (\A v \in Versions : Present(v) => Present(v)') /\ Present(n.v)'
    <3>1. \A v \in Versions : Present(v) => Present(v)'
      BY <2>n, <1>u, StaysPresent, Zenon
    <3> QED
      BY <3>1, <1>3, <1>l, <2>n, Zenon DEF Present
  <2>o. mishaps = {} /\ n.op = "change" => n.v \notin n.old /\ NoneHeld'
    BY <1>u, <2>n, ChangeFacts, Zenon DEF NoneHeld, Held
  <2>q. n.pc = "init" => data'[DirOf(n.v)] # "used"
    BY <1>u, <2>n, <2>1, Zenon
  <2>k. /\ n.pc \in {"ensure", "init", "drive"} <=> lock' = t
        /\ n.pc \notin {"download", "persist", "remove"}
        /\ task[t].pc \notin {"idle", "done"} /\ mishaps' = mishaps
        /\ mishaps \subseteq {"overlap", "swap"} /\ lock' = lock
    BY <1>3, <1>u, <1>l, <2>1, <2>n, StateFacts, Zenon
  <2> QED
    BY <1>u, <1>d, <2>n, <2>p, <2>f, <2>o, <2>q, <2>k, StepKeeps, Zenon
<1> QED
  BY <1>1, <1>2, <1>3, Zenon DEF Ensure

LEMMA InitDatadirStep ==
    ASSUME IInv, NEW t \in All, InitDatadir(t) PROVE IInv'
<1> DEFINE d == DirOf(task[t].v)
<1>t. task[t] \in TaskType /\ task \in [All -> TaskType] /\ ProgressOf(t, task[t])
  BY TaskFacts, Zenon
<1>u. /\ task[t].pc = "init" /\ Goto(t, "drive") /\ data' = [data EXCEPT ![d] = "ready"]
      /\ UNCHANGED <<installed, cfg, inst, servers, lock, engine, stopped, mishaps, left, boots>>
  BY Zenon DEF InitDatadir, books
<1>l. lock = t /\ task[t].v \in Versions
  BY <1>t, <1>u, HasLock, Zenon DEF ProgressOf
<1>d. d \in Dirs /\ data \in DataType
  BY <1>l, StateFacts, Zenon
<1>n. PICK n \in TaskType :
      /\ task' = [task EXCEPT ![t] = n]
      /\ n.pc = "drive" /\ n.op = task[t].op /\ n.v = task[t].v /\ n.old = task[t].old
  BY <1>u, GoesTo, Zenon DEF Pcs
<1>p. ProgressOf(t, n)
  BY <1>t, <1>u, <1>l, <1>n, Zenon DEF ProgressOf
<1>f. \A v \in Versions : Present(v) => Present(v)'
  BY <1>u, <1>n, StaysPresent, Zenon
<1>g. mishaps = {} => Present(n.v)'
  BY <1>u, <1>n, <1>l, <1>f, Zenon DEF IInv, FilesKept
<1>o. mishaps = {} /\ n.op = "change" => n.v \notin n.old /\ NoneHeld'
  BY <1>u, <1>n, ChangeFacts, Zenon DEF NoneHeld, Held
<1>e. /\ data' \in DataType /\ \A e \in Dirs : data'[e] = "used" => data[e] = "used"
      /\ \A e \in Dirs : data'[e] = "absent" => data[e] = "absent"
  <2> HIDE DEF d
  <2> QED
    BY <1>u, <1>d, Zenon DEF DataType
<1>k. /\ n.pc \in {"ensure", "init", "drive"} <=> lock' = t
      /\ n.pc \notin {"download", "persist", "remove", "init"}
      /\ task[t].pc \notin {"idle", "done"} /\ mishaps' = mishaps
      /\ mishaps \subseteq {"overlap", "swap"} /\ lock' = lock
      /\ installed' \subseteq Versions /\ cfg' \in CfgType /\ inst' \in Versions \cup {Nil}
      /\ servers' \subseteq servers
  BY <1>u, <1>l, <1>n, StateFacts, Zenon
<1> QED
  BY <1>u, <1>n, <1>p, <1>f, <1>g, <1>o, <1>e, <1>k, StepKeeps, Zenon

\* The one step that starts a server: the port is free, so it is alone.
LEMMA DriveStep ==
    ASSUME IInv, NEW t \in All, Drive(t) PROVE IInv'
<1> DEFINE d == DirOf(task[t].v)
<1>t. task[t] \in TaskType /\ task \in [All -> TaskType] /\ ProgressOf(t, task[t])
  BY TaskFacts, Zenon
<1>u. /\ task[t].pc = "drive" /\ servers = {} /\ Started(t) /\ lock' = Nil
      /\ inst' = task[t].v /\ data' = [data EXCEPT ![d] = "used"]
      /\ servers' = {[v |-> task[t].v, held |-> TRUE]}
      /\ UNCHANGED <<installed, cfg, engine, stopped, mishaps, left, boots>>
  BY Zenon DEF Drive, PortFree, books
<1>l. lock = t /\ task[t].v \in Versions /\ t # Nil
  BY <1>t, <1>u, HasLock, ServiceEngineAssumption, Zenon DEF ProgressOf, All
<1>1. PICK n \in TaskType :
        /\ task' = [task EXCEPT ![t] = n] /\ ProgressOf(t, n)
        /\ n.op = task[t].op \/ n.pc = "idle"
        /\ n.pc \in {"idle", "done", "persist"}
        /\ n.op \notin {"uninstall", "purge"}
        /\ n.op = "change" => n.pc = "persist" /\ n.v = task[t].v /\ n.old = task[t].old
  BY <1>u, <1>l, StartedFacts, Zenon
<1>2. /\ task' \in [All -> TaskType] /\ task'[t] = n
      /\ \A u \in All \ {t} : task'[u] = task[u]
      /\ Progress' /\ Mutex' /\ Alone'
      /\ lock' \in All \cup {Nil}
      /\ lock' # Nil => task'[lock'].pc \in {"ensure", "init", "drive"}
  <2>1. /\ mishaps \subseteq mishaps' /\ task[t].pc \notin {"idle", "done"}
        /\ n.pc \in {"ensure", "init", "drive"} <=> lock' = t
        /\ lock' = Nil /\ lock = t
    BY <1>u, <1>l, <1>1, Zenon
  <2> QED
    BY <1>1, <2>1, GoesOn, Zenon
<1>3. PICK s \in Server : s.v = task[t].v /\ s.held /\ servers' = {s}
  <2>1. [v |-> task[t].v, held |-> TRUE] \in Server
    BY <1>l, Zenon DEF Server
  <2> QED
    BY <2>1, <1>u, Zenon
<1>4. d \in Dirs /\ data \in DataType /\ Dirs' = Dirs
  BY <1>l, <1>u, StateFacts, Zenon DEF Dirs, DirOf
<1>5. data' \in DataType /\ data'[d] = "used"
  <2> HIDE DEF d
  <2> QED
    BY <1>u, <1>4, Zenon DEF DataType
<1>6. TypeOK'
  <2>1. inst' \in Versions \cup {Nil} /\ servers' \subseteq Server
    BY <1>u, <1>l, <1>3, Zenon
  <2>2. data' \in [Dirs' -> {"absent", "ready", "used"}]
    BY <1>4, <1>5, Zenon DEF DataType
  <2> QED
    BY <1>2, <1>u, <2>1, <2>2, Zenon DEF IInv, TypeOK, TaskType
<1>7. AtMostOne'
  BY <1>3, Zenon DEF AtMostOne
<1>8. Unused'
  <2> SUFFICES ASSUME NEW u \in All, task'[u].pc = "init" PROVE FALSE
    BY Zenon DEF Unused
  <2>1. u # t
    BY <1>1, <1>2, Zenon
  <2>2. task[u].pc = "init"
    BY <1>2, <2>1, Zenon
  <2> QED
    BY <2>1, <2>2, <1>l, HasLock, Zenon
<1>9. FilesKept'
  <2> SUFFICES ASSUME mishaps = {} PROVE FilesKept'
    BY <1>u, Zenon DEF FilesKept
  <2>o. \A u \in All \ {t} : task[u].pc \notin {"init", "drive"}
    BY <1>l, HasLock, Zenon
  <2>r. \A u \in Tasks \ {t} : ~ Removal(task[u].op)
    BY <1>u, Sole, Zenon DEF All
  <2>1. Present(s.v)'
    <3>1. \A v \in Versions : Present(v) => Present(v)'
      BY <1>1, <1>u, StaysPresent, Zenon
    <3>2. Present(task[t].v)
      BY <1>u, Zenon DEF IInv, FilesKept
    <3> QED
      BY <3>1, <3>2, <1>l, <1>3, Zenon
  <2>2. data'[DirOf(s.v)'] # "absent"
    BY <1>3, <1>5, <1>u, Zenon DEF DirOf
  <2>3. \A u \in All : task'[u].pc \notin {"init", "drive"}
    BY <1>1, <1>2, <2>o, Zenon
  <2>4. \A u \in Tasks : task'[u].op \in {"uninstall", "purge", "change"} => u = t /\ n.op = "change"
    <3> SUFFICES ASSUME NEW u \in Tasks, task'[u].op \in {"uninstall", "purge", "change"}
                 PROVE  u = t /\ n.op = "change"
      BY Zenon
    <3>1. u \in All
      BY Zenon DEF All
    <3>2. u = t
      BY <3>1, <1>2, <2>r, Zenon DEF Removal
    <3> QED
      BY <3>2, <1>1, <1>2, Zenon
  <2>5. n.op = "change" => /\ n.pc = "persist" /\ n.v \notin n.old /\ s.v = n.v
    <3>1. n.op = "change" => task[t].op = "change"
      BY <1>1, Zenon
    <3> QED
      BY <3>1, <1>1, <1>u, <1>3, ChangeFacts, Zenon
  <2> QED
    BY <2>1, <2>2, <2>3, <2>4, <2>5, <1>2, <1>3, Zenon DEF FilesKept, Held
<1> QED
  BY <1>2, <1>6, <1>7, <1>8, <1>9, Zenon DEF IInv

LEMMA PersistStep ==
    ASSUME IInv, NEW t \in All, Persist(t) PROVE IInv'
<1>t. task[t] \in TaskType /\ task \in [All -> TaskType] /\ ProgressOf(t, task[t])
  BY TaskFacts, Zenon
<1>u. /\ task[t].pc = "persist" /\ cfg' = [Entry EXCEPT !.version = task[t].v]
      /\ UNCHANGED <<installed, data, inst, servers, lock, engine, stopped, mishaps, left, boots>>
  BY Zenon DEF Persist, books
<1>l. lock # t /\ task[t].v \in Versions
  BY <1>t, <1>u, HasLock, Zenon DEF ProgressOf
<1>c. cfg' \in CfgType
  <2>1. Entry \in [version : Versions \cup {Nil}, enabled : BOOLEAN]
    BY StateFacts, Zenon DEF Entry, CfgType
  <2> QED
    BY <2>1, <1>u, <1>l, Zenon DEF CfgType
<1>1. CASE End(t)
  <2>1. task' = [task EXCEPT ![t] = Ended(t)] /\ task[t].pc \notin {"idle", "done", "rename"}
    BY <1>1, <1>u, Zenon DEF End, Ended
  <2> QED
    BY <2>1, <1>u, <1>l, <1>c, StateFacts, EndsOutside, Zenon
<1>2. CASE task[t].op = "change" /\ Goto(t, "remove")
  <2>1. PICK n \in TaskType :
          /\ task' = [task EXCEPT ![t] = n]
          /\ n.pc = "remove" /\ n.op = task[t].op /\ n.v = task[t].v /\ n.old = task[t].old
    BY <1>2, GoesTo, Zenon DEF Pcs
  <2>p. ProgressOf(t, n)
    BY <1>t, <1>2, <1>l, <2>1, Zenon DEF ProgressOf
  <2>f. \A v \in Versions : Present(v) => Present(v)'
    BY <2>1, <1>u, StaysPresent, Zenon
  <2>o. mishaps = {} => n.v \notin n.old /\ \A s \in servers' : Held(s) => s.v = n.v
    BY <1>2, <1>u, <2>1, ChangeFacts, Zenon
  <2>k. /\ n.pc \in {"ensure", "init", "drive"} <=> lock' = t
        /\ n.pc \notin {"download", "persist", "init"} /\ n.op = "change"
        /\ task[t].pc \notin {"idle", "done"} /\ mishaps' = mishaps
        /\ mishaps \subseteq {"overlap", "swap"} /\ lock' = lock
        /\ installed' \subseteq Versions /\ inst' \in Versions \cup {Nil}
        /\ servers' \subseteq servers
    BY <1>2, <1>u, <1>l, <2>1, StateFacts, Zenon
  <2>d. /\ data' \in DataType
        /\ \A d \in Dirs : data'[d] = "used" => data[d] = "used"
        /\ \A d \in Dirs : data'[d] = "absent" => data[d] = "absent"
    BY <1>u, StateFacts, Zenon
  <2> QED
    BY <1>u, <1>c, <2>1, <2>p, <2>f, <2>o, <2>k, <2>d, StepKeeps, Zenon
<1> QED
  BY <1>1, <1>2, Zenon DEF Persist

LEMMA PurgeFacts ==
    ASSUME IInv, NEW v \in Versions, NEW D, D = purge_version_datadirs(v)
    PROVE  D \in DataType /\ \A e \in Dirs : D[e] = "used" => data[e] = "used"
<1>1. DirOf(v) \in Dirs /\ data \in DataType
  BY StateFacts, Zenon
<1>2. CASE ~ engine.exact
  <2>1. D = [data EXCEPT ![DirOf(v)] = "absent"]
    BY <1>2, Zenon DEF purge_version_datadirs
  <2> QED
    BY <2>1, <1>1, Zenon DEF DataType
<1>3. CASE engine.exact
  <2>1. D = [d \in Dirs |-> IF d # DirOf(v) /\ \E o \in installed \ {v} : DirOf(o) = d
                            THEN data[d] ELSE "absent"]
    BY <1>3, Zenon DEF purge_version_datadirs
  <2> QED
    BY <2>1, <1>1, Zenon DEF DataType
<1> QED
  BY <1>2, <1>3, Zenon

\* A removal is alone and has stopped what runs from the files it removes.
LEMMA RemoveStep ==
    ASSUME IInv, NEW t \in All, Remove(t) PROVE IInv'
<1> DEFINE n == Ended(t)
<1>t. task[t] \in TaskType /\ task \in [All -> TaskType] /\ ProgressOf(t, task[t])
  BY TaskFacts, Zenon
<1>u. /\ task[t].pc = "remove" /\ task' = [task EXCEPT ![t] = n]
      /\ installed' = installed \ (IF task[t].op = "change" THEN task[t].old ELSE {task[t].v})
      /\ data' = IF task[t].op = "purge" THEN purge_version_datadirs(task[t].v) ELSE data
      /\ UNCHANGED <<cfg, inst, servers, lock, engine, stopped, mishaps, left, boots>>
  BY Zenon DEF Remove, End, Ended, books
<1>l. /\ lock # t /\ task[t].v \in Versions /\ task[t].op \in {"change", "uninstall", "purge"}
      /\ t \in Tasks
  BY <1>t, <1>u, HasLock, Zenon DEF ProgressOf, All
<1>n. /\ n \in TaskType /\ ProgressOf(t, n) /\ n.pc \in {"idle", "done"}
      /\ n.op \in {"start", "auto"} /\ (n.op = task[t].op \/ n.pc = "idle")
  BY EndFacts, Zenon
<1> HIDE DEF n
<1>2. /\ task' \in [All -> TaskType] /\ task'[t] = n
      /\ \A u \in All \ {t} : task'[u] = task[u]
      /\ Progress' /\ Mutex' /\ Alone'
      /\ lock' \in All \cup {Nil}
      /\ lock' # Nil => task'[lock'].pc \in {"ensure", "init", "drive"}
  <2>1. /\ mishaps \subseteq mishaps' /\ task[t].pc \notin {"idle", "done"}
        /\ n.pc \in {"ensure", "init", "drive"} <=> lock' = t
        /\ lock' = lock
    BY <1>u, <1>l, <1>n, Zenon
  <2> QED
    BY <1>u, <1>n, <2>1, GoesOn, Zenon
<1>3. data' \in DataType /\ \A e \in Dirs : data'[e] = "used" => data[e] = "used"
  <2>1. CASE task[t].op = "purge"
    BY <2>1, <1>u, <1>l, PurgeFacts, Zenon
  <2>2. CASE task[t].op # "purge"
    BY <2>2, <1>u, StateFacts, Zenon
  <2> QED
    BY <2>1, <2>2, Zenon
<1>4. Dirs' = Dirs
  BY <1>u, Zenon DEF Dirs, DirOf
<1>6. TypeOK'
  <2>1. installed' \subseteq Versions
    BY <1>u, StateFacts, Zenon
  <2>2. data' \in [Dirs' -> {"absent", "ready", "used"}]
    BY <1>3, <1>4, Zenon DEF DataType
  <2> QED
    BY <1>2, <1>u, <2>1, <2>2, Zenon DEF IInv, TypeOK, TaskType
<1>7. AtMostOne'
  BY <1>u, Zenon DEF IInv, AtMostOne
<1>8. Unused'
  <2> SUFFICES ASSUME NEW u \in All, task'[u].pc = "init"
               PROVE  data'[DirOf(task'[u].v)] # "used"
    BY <1>u, Zenon DEF Unused, DirOf
  <2>1. u # t
    BY <1>n, <1>2, Zenon
  <2>2. task'[u] = task[u] /\ task[u].v \in Versions
    BY <1>2, <2>1, Zenon DEF IInv, Progress
  <2>3. data[DirOf(task[u].v)] # "used" /\ DirOf(task[u].v) \in Dirs
    BY <2>2, Zenon DEF IInv, Unused, Dirs
  <2> QED
    BY <2>2, <2>3, <1>3, Zenon
<1>9. FilesKept'
  <2> SUFFICES ASSUME mishaps = {} PROVE FilesKept'
    BY <1>u, Zenon DEF FilesKept
  <2>o. \A u \in All \ {t} : task[u].pc \in {"idle", "done"}
    BY <1>u, <1>l, Sole, Zenon DEF Removal
  <2>r. \A u \in Tasks \ {t} : ~ Removal(task[u].op)
    BY <1>u, Sole, Zenon DEF All
  <2>1. ASSUME NEW s \in servers, Held(s)
        PROVE  Present(s.v)' /\ data'[DirOf(s.v)'] # "absent"
    <3>1. task[t].op = "change"
      BY <2>1, <1>u, <1>l, Zenon DEF IInv, FilesKept, NoneHeld
    <3>2. s.v = task[t].v /\ task[t].v \notin task[t].old
      BY <3>1, <2>1, <1>u, ChangeFacts, Zenon
    <3>3. Present(s.v) /\ data[DirOf(s.v)] # "absent"
      BY <2>1, Zenon DEF IInv, FilesKept
    <3>4. \A u \in Tasks : task[u].pc # "rename"
      BY <1>u, <2>o, Zenon DEF All
    <3>5. s.v \in installed
      BY <3>3, <3>4, Zenon DEF Present
    <3>6. s.v \in installed' /\ data' = data /\ engine' = engine
      BY <3>1, <3>2, <3>5, <1>u, Zenon
    <3> QED
      BY <3>3, <3>6, Zenon DEF Present, DirOf
  <2>3. \A u \in All : task'[u].pc \in {"idle", "done"}
    BY <1>n, <1>2, <2>o, Zenon
  <2>4. \A u \in Tasks : ~ Removal(task'[u].op)
    BY <1>n, <1>2, <2>r, Zenon DEF Removal, All
  <2> QED
    BY <2>1, <2>3, <2>4, <1>u, Zenon DEF FilesKept, Held, Removal
<1> QED
  BY <1>2, <1>6, <1>7, <1>8, <1>9, Zenon DEF IInv

\* A request begins.
LEMMA RequestStep ==
    ASSUME IInv, NEW t \in Tasks, NEW op \in Ops, op # "auto", NEW v \in Versions \cup {Nil},
           op \in {"install", "change", "uninstall", "purge"} => v \in Versions,
           request(t, op, v)
    PROVE  IInv'
<1> DEFINE n == [pc |-> First(op), op |-> op, v |-> v, old |-> {}]
<1>t. t \in All /\ task[t] \in TaskType /\ task \in [All -> TaskType] /\ t # AutoStart
  BY TaskFacts, ServiceEngineAssumption, Zenon DEF All
<1>u. /\ task[t].pc = "idle" /\ left > 0 /\ left' = left - 1 /\ task' = [task EXCEPT ![t] = n]
      /\ stopped' \in {"no", "stop", "boot"}
      /\ mishaps' = mishaps \cup IF Overlaps(op) THEN {"overlap"} ELSE {}
      /\ UNCHANGED <<engine, installed, data, cfg, inst, servers, lock, boots>>
  BY Zenon DEF request
<1>f. /\ First(op) \in {"download", "read", "lock"}
      /\ First(op) = "download" <=> op \in {"install", "change"}
      /\ First(op) = "read" <=> op = "start"
  BY Zenon DEF First
<1>n. /\ n \in TaskType /\ n.pc = First(op) /\ n.op = op /\ n.v = v /\ n.old = {}
  BY <1>f, Zenon DEF TaskType, Pcs
<1>l. lock # t
  BY <1>t, <1>u, HasLock, Zenon
<1>p. ProgressOf(t, n)
  BY <1>t, <1>f, <1>n, Zenon DEF ProgressOf
<1> HIDE DEF n
<1>m. /\ mishaps \subseteq mishaps' /\ mishaps' \subseteq {"overlap", "swap"}
      /\ mishaps' = {} => mishaps = {} /\ ~ Overlaps(op)
  BY <1>u, StateFacts, Zenon
<1>2. /\ task' \in [All -> TaskType] /\ task'[t] = n
      /\ \A u \in All \ {t} : task'[u] = task[u]
  BY <1>t, <1>u, <1>n, Zenon
<1>3. Progress'
  BY <1>2, <1>p DEF IInv, Progress, ProgressOf
<1>4. Mutex'
  BY <1>2, <1>f, <1>n, <1>u, Zenon DEF IInv, Mutex
<1>5. Unused'
  <2>1. \A u \in All : task'[u].pc = "init" => u # t
    BY <1>2, <1>f, <1>n, Zenon
  <2>2. \A u \in All : task'[u].pc = "init" => task'[u] = task[u]
    BY <2>1, <1>2, Zenon
  <2>3. \A u \in All : task[u].pc = "init" => data[engine.dir[task[u].v]] # "used"
    BY Zenon DEF IInv, Unused, DirOf
  <2>4. \A u \in All : task'[u].pc = "init" => data'[engine'.dir[task'[u].v]] # "used"
    BY <2>2, <2>3, <1>u, Zenon
  <2> QED
    BY <2>4, Zenon DEF Unused, DirOf
<1>6. TypeOK'
  <2>1. /\ lock' \in All \cup {Nil} /\ left' \in 0 .. MaxRequests
        /\ lock' # Nil => task'[lock'].pc \in {"ensure", "init", "drive"}
    BY <1>2, <1>l, <1>u, ServiceEngineAssumption DEF IInv, TypeOK
  <2>2. Dirs' = Dirs
    BY <1>u, Zenon DEF Dirs, DirOf
  <2> QED
    BY <1>2, <1>u, <1>m, <2>1, <2>2, Zenon DEF IInv, TypeOK, TaskType
<1>7. AtMostOne'
  BY <1>u, Zenon DEF IInv, AtMostOne
<1>8. Alone'
  <2> SUFFICES ASSUME mishaps' = {}
               PROVE  /\ task'[AutoStart].pc # "done" => \A u \in Tasks : task'[u].pc = "idle"
                      /\ \A u, w \in Tasks : Removal(task'[u].op) /\ w # u => task'[w].pc = "idle"
    BY Zenon DEF Alone, AtRest
  <2>1. /\ task[AutoStart].pc = "done"
        /\ Removal(op) => \A u \in Tasks : task[u].pc = "idle"
        /\ \A u \in Tasks : ~ Removal(task[u].op)
    BY <1>m, Zenon DEF Overlaps, AtRest
  <2>2. task'[AutoStart].pc = "done"
    BY <2>1, <1>2, <1>t, Zenon DEF All
  <2>3. ASSUME NEW u \in Tasks, NEW w \in Tasks, Removal(task'[u].op), w # u
        PROVE  task'[w].pc = "idle"
    <3>1. u = t /\ Removal(op)
      BY <2>1, <2>3, <1>2, <1>n, Zenon DEF All
    <3> QED
      BY <3>1, <2>1, <2>3, <1>2, Zenon DEF All
  <2> QED
    BY <2>2, <2>3, Zenon
<1>9. FilesKept'
  <2>1. \A w \in Versions : Present(w) => Present(w)'
    BY <1>t, <1>u, <1>n, StaysPresent, Zenon
  <2>2. /\ n.pc \notin {"init", "drive", "remove", "ensure", "persist"}
        /\ n.op = "change" => n.pc = "download"
    BY <1>f, <1>n, Zenon
  <2> QED
    BY <1>t, <1>u, <1>n, <1>m, <1>2, <2>1, <2>2, FilesStay, Zenon
<1> QED
  BY <1>3, <1>4, <1>5, <1>6, <1>7, <1>8, <1>9, Zenon DEF IInv

\* A step of no task: the config entry changes, or a server exits.
LEMMA NoTaskStep ==
    ASSUME IInv, servers' \subseteq servers, cfg' \in CfgType, left' \in 0 .. MaxRequests,
           stopped' \in {"no", "stop", "boot"},
           UNCHANGED <<engine, mishaps, installed, data, inst, lock, task, boots>>
    PROVE  IInv'
<1>1. Dirs' = Dirs
  BY Zenon DEF Dirs, DirOf
<1>2. TypeOK'
  BY <1>1, Zenon DEF IInv, TypeOK, CfgType
<1>3. Progress' /\ Mutex' /\ AtMostOne' /\ Alone'
  BY Zenon DEF IInv, Progress, Mutex, AtMostOne, Alone, AtRest
<1>4. Unused'
  BY Zenon DEF IInv, Unused, DirOf
<1>5. \A v : Present(v) <=> Present(v)'
  BY Zenon DEF Present
<1>6. NoneHeld => NoneHeld'
  BY Zenon DEF NoneHeld, Held
<1>7. FilesKept'
  BY <1>5, <1>6, Zenon DEF IInv, FilesKept, Held, DirOf
<1> QED
  BY <1>2, <1>3, <1>4, <1>7, Zenon DEF IInv

LEMMA OtherSteps ==
    ASSUME IInv,
           \/ \E enabled \in BOOLEAN : set_service_autostart(enabled)
           \/ \E s \in servers : ServerExits(s)
    PROVE  IInv'
<1>1. ASSUME NEW enabled \in BOOLEAN, set_service_autostart(enabled) PROVE IInv'
  <2>1. Entry \in [version : Versions \cup {Nil}, enabled : BOOLEAN]
    BY StateFacts, Zenon DEF Entry, CfgType
  <2>2. cfg' \in CfgType
    BY <1>1, <2>1, Zenon DEF set_service_autostart, CfgType
  <2>3. left' \in 0 .. MaxRequests /\ stopped' \in {"no", "stop", "boot"}
    BY <1>1, StateFacts, ServiceEngineAssumption DEF set_service_autostart
  <2> QED
    BY <1>1, <2>2, <2>3, NoTaskStep, Zenon DEF set_service_autostart
<1>2. ASSUME NEW s \in servers, ServerExits(s) PROVE IInv'
  BY <1>2, StateFacts, NoTaskStep, Zenon DEF ServerExits, books
<1> QED
  BY <1>1, <1>2, Zenon

Fresh == [t \in All |-> IF t = AutoStart THEN [Idle EXCEPT !.pc = "read", !.op = "auto"] ELSE Idle]

LEMMA FreshFacts ==
    /\ Fresh \in [All -> TaskType]
    /\ Fresh[AutoStart].pc = "read" /\ Fresh[AutoStart].op = "auto"
    /\ \A t \in Tasks : Fresh[t] = Idle
<1>1. [Idle EXCEPT !.pc = "read", !.op = "auto"] \in TaskType
  BY Zenon DEF Idle, TaskType, Pcs, Ops
<1>2. [Idle EXCEPT !.pc = "read", !.op = "auto"].pc = "read"
      /\ [Idle EXCEPT !.pc = "read", !.op = "auto"].op = "auto"
  BY Zenon DEF Idle
<1> DEFINE a == [Idle EXCEPT !.pc = "read", !.op = "auto"]
<1> HIDE DEF a
<1>3. Fresh = [t \in All |-> IF t = AutoStart THEN a ELSE Idle]
  BY Zenon DEF Fresh, a
<1>4. a \in TaskType /\ a.pc = "read" /\ a.op = "auto"
  BY <1>1, <1>2, Zenon DEF a
<1> QED
  BY <1>3, <1>4, IdleFacts, ServiceEngineAssumption, Zenon DEF All

\* Nothing of the daemon survives but files, config and, after a crash, servers
\* nobody holds.
LEMMA FreshHolds ==
    task = Fresh /\ lock = Nil /\ mishaps = {} /\ NoneHeld
      => Progress /\ Mutex /\ Unused /\ Alone /\ FilesKept
<1> SUFFICES ASSUME task = Fresh, lock = Nil, mishaps = {}, NoneHeld
             PROVE  Progress /\ Mutex /\ Unused /\ Alone /\ FilesKept
  BY Zenon
<1> USE FreshFacts, IdleFacts, ServiceEngineAssumption
<1>1. \A t \in All : /\ task[t].pc \in {"read", "idle"}
                     /\ t = AutoStart => task[t].pc = "read" /\ task[t].op = "auto"
                     /\ t # AutoStart => t \in Tasks /\ task[t] = Idle
  BY Zenon DEF All
<1>2. Progress
  <2> SUFFICES ASSUME NEW t \in All PROVE ProgressOf(t, task[t])
    BY Zenon DEF Progress, ProgressOf
  <2>1. CASE t = AutoStart
    BY <2>1, <1>1, Zenon DEF ProgressOf
  <2>2. CASE t # AutoStart
    BY <2>2, <1>1, Zenon DEF ProgressOf
  <2> QED
    BY <2>1, <2>2, Zenon
<1>3. Mutex /\ Unused
  BY <1>1, Zenon DEF Mutex, Unused
<1>4. \A t \in Tasks : task[t].pc = "idle" /\ task[t].op = "start"
  BY Zenon
<1>5. Alone
  BY <1>4, Zenon DEF Alone, AtRest, Removal
<1>6. FilesKept
  BY <1>1, <1>4, Zenon DEF FilesKept, NoneHeld
<1> QED
  BY <1>2, <1>3, <1>5, <1>6, Zenon

LEMMA InitHolds == Init => IInv
<1> SUFFICES ASSUME Init PROVE IInv
  BY Zenon
<1>1. task = Fresh /\ lock = Nil /\ mishaps = {} /\ NoneHeld
  BY Zenon DEF Init, Fresh, NoneHeld
<1>2. Progress /\ Mutex /\ Unused /\ Alone /\ FilesKept
  BY <1>1, FreshHolds, Zenon
<1>3. task \in [All -> TaskType]
  BY <1>1, FreshFacts, Zenon
<1>4. /\ engine \in Engines /\ installed \subseteq Versions
      /\ data \in [Dirs -> {"absent", "ready", "used"}]
      /\ left \in 0 .. MaxRequests /\ boots \in 0 .. MaxBoots
  BY ServiceEngineAssumption DEF Init
<1>5. TypeOK
  BY <1>3, <1>4, Zenon DEF Init, TypeOK, TaskType
<1>6. AtMostOne
  BY Zenon DEF Init, AtMostOne
<1> QED
  BY <1>2, <1>5, <1>6, Zenon DEF IInv

LEMMA BootStep ==
    ASSUME IInv, NEW kept, Boot(kept), kept \subseteq Server, \A s \in kept : ~ s.held,
           kept = {} \/ \E s \in Server : kept = {s}
    PROVE  IInv'
<1>1. task' = Fresh /\ lock' = Nil /\ mishaps' = {} /\ NoneHeld'
  BY Zenon DEF Boot, Fresh, NoneHeld, Held
<1>2. Progress' /\ Mutex' /\ Unused' /\ Alone' /\ FilesKept'
  <2>1. (task = Fresh /\ lock = Nil /\ mishaps = {} /\ NoneHeld
           => Progress /\ Mutex /\ Unused /\ Alone /\ FilesKept)'
    BY FreshHolds, PTL
  <2> QED
    BY <1>1, <2>1, Zenon
<1>3. task' \in [All -> TaskType]
  BY <1>1, FreshFacts, Zenon
<1>4. /\ Dirs' = Dirs /\ boots' \in 0 .. MaxBoots /\ servers' = kept /\ inst' = Nil
      /\ stopped' \in {"no", "stop", "boot"}
      /\ UNCHANGED <<engine, installed, data, cfg, left>>
  BY StateFacts, ServiceEngineAssumption DEF Boot, Dirs, DirOf
<1>5. TypeOK'
  BY <1>1, <1>3, <1>4, Zenon DEF IInv, TypeOK, TaskType
<1>6. AtMostOne'
  BY <1>4, Zenon DEF AtMostOne
<1> QED
  BY <1>2, <1>5, <1>6, Zenon DEF IInv

LEMMA BootSteps ==
    ASSUME IInv, Crash \/ Shutdown PROVE IInv'
<1>1. servers \subseteq Server /\ (servers = {} \/ \E s \in Server : servers = {s})
  BY StateFacts, Zenon DEF IInv, AtMostOne
<1>2. CASE Crash
  <2> DEFINE kept == {[s EXCEPT !.held = FALSE] : s \in servers}
  <2>1. kept \subseteq Server /\ \A s \in kept : ~ s.held
    BY <1>1, Zenon DEF Server
  <2>2. kept = {} \/ \E s \in Server : kept = {s}
    <3>1. CASE servers = {}
      BY <3>1, Zenon
    <3>2. ASSUME NEW s \in Server, servers = {s} PROVE kept = {[s EXCEPT !.held = FALSE]}
      BY <3>2, Zenon
    <3>3. \A s \in Server : [s EXCEPT !.held = FALSE] \in Server
      BY Zenon DEF Server
    <3> QED
      BY <1>1, <3>1, <3>2, <3>3, Zenon
  <2>3. Boot(kept)
    BY <1>2, Zenon DEF Crash
  <2> HIDE DEF kept
  <2> QED
    BY <2>1, <2>2, <2>3, BootStep, Zenon
<1>3. CASE Shutdown
  <2> DEFINE kept == {s \in servers : ~ Held(s)}
  <2>1. kept \subseteq Server /\ (\A s \in kept : ~ s.held) /\ kept \subseteq servers
    BY <1>1, Zenon DEF Held
  <2>3. Boot(kept)
    BY <1>3, Zenon DEF Shutdown
  <2> HIDE DEF kept
  <2>2. kept = {} \/ \E s \in Server : kept = {s}
    BY <1>1, <2>1, Zenon
  <2> QED
    BY <2>1, <2>2, <2>3, BootStep, Zenon
<1> QED
  BY <1>2, <1>3, Zenon

-----------------------------------------------------------------------------
LEMMA NextKeeps == IInv /\ [Next]_vars => IInv'
<1> SUFFICES ASSUME IInv, [Next]_vars PROVE IInv'
  BY Zenon
<1>1. CASE UNCHANGED vars
  BY <1>1, StateFacts, NoTaskStep, Zenon DEF vars
<1>2. CASE Next
  <2>1. ASSUME NEW t \in Tasks, NEW v \in Versions, install_service(t, v) PROVE IInv'
    BY <2>1, RequestStep, Zenon DEF install_service, Ops
  <2>2. ASSUME NEW t \in Tasks, NEW v \in Versions, change_service_version(t, v) PROVE IInv'
    BY <2>2, RequestStep, Zenon DEF change_service_version, Ops
  <2>3. ASSUME NEW t \in Tasks, NEW v \in Versions, NEW purge \in BOOLEAN, uninstall_service(t, v, purge)
        PROVE  IInv'
    <3>1. CASE purge
      BY <3>1, <2>3, RequestStep, Zenon DEF uninstall_service, Ops
    <3>2. CASE ~ purge
      BY <3>2, <2>3, RequestStep, Zenon DEF uninstall_service, Ops
    <3> QED
      BY <3>1, <3>2, Zenon
  <2>4. ASSUME NEW t \in Tasks, start_service(t) PROVE IInv'
    BY <2>4, RequestStep, Zenon DEF start_service, Ops
  <2>5. ASSUME NEW t \in Tasks, stop_service(t) PROVE IInv'
    BY <2>5, RequestStep, Zenon DEF stop_service, Ops
  <2>6. ASSUME NEW t \in Tasks, restart_service(t) PROVE IInv'
    BY <2>6, RequestStep, Zenon DEF restart_service, Ops
  <2>7. ASSUME NEW t \in All, Step(t) PROVE IInv'
    BY <2>7, DownloadStep, ClearStep, RenameStep, ReadStep, StopStep, LockStep, EnsureStep,
       InitDatadirStep, DriveStep, PersistStep, RemoveStep, EndingSteps, Zenon DEF Step
  <2> QED
    BY <1>2, <2>1, <2>2, <2>3, <2>4, <2>5, <2>6, <2>7, OtherSteps, BootSteps, Zenon DEF Next
<1> QED
  BY <1>1, <1>2, Zenon

\* The inductive invariant of the engine, for any number of requests at once: the
\* manager's lock covers exactly ensure, initialisation and drive; a directory is
\* initialised only while no server has stored data in it; and without a mishap
\* what runs has its version and its data.
THEOREM Inductive == Spec => []IInv
  BY InitHolds, NextKeeps, PTL DEF Spec

\* ServiceManager's lock, ensure's check for a live instance and preflight_port:
\* the engine never has two servers, whichever requests overlap and also when a
\* crashed daemon left one behind; and at rest a server the daemon holds runs
\* from an installed version on a data directory that exists.
THEOREM OneServerPerEngineAlways == Spec => []OneServerPerEngine
<1>1. IInv => OneServerPerEngine
  <2> SUFFICES ASSUME IInv PROVE OneServerPerEngine
    BY Zenon
  <2>1. OneServer
    <3>1. Cardinality({}) = 0
      BY FS_EmptySet, Zenon
    <3>2. \A s : Cardinality({s}) = 1
      BY FS_Singleton, Zenon
    <3> QED
      BY <3>1, <3>2 DEF IInv, AtMostOne, OneServer
  <2>2. RunsOnItsFiles
    <3> SUFFICES ASSUME NEW s \in servers, Held(s), AtRest, mishaps = {}
                 PROVE  s.v \in installed /\ data[DirOf(s.v)] # "absent"
      BY Zenon DEF RunsOnItsFiles
    <3> QED
      BY Zenon DEF IInv, FilesKept, Present, AtRest
  <2> QED
    BY <2>1, <2>2, Zenon DEF OneServerPerEngine
<1> QED
  BY <1>1, Inductive, PTL

\* init_datadir_if_needed, prepare_dirs and purge_version_datadirs: data that a
\* server has stored is given up by no step but the removal of an uninstall with
\* purge.
THEOREM DataIsKept == Spec => DataKept
<1>1. IInv /\ [Next]_vars => [OnlyPurgeDrops]_vars
  <2> SUFFICES ASSUME IInv, Next, NEW d \in DOMAIN data, data[d] = "used", data'[d] # "used"
               PROVE  \E t \in Tasks : task[t].pc = "remove" /\ task[t].op = "purge"
    BY Zenon DEF OnlyPurgeDrops
  <2>d. data \in DataType /\ data' # data /\ d \in Dirs
    BY StateFacts, Zenon DEF DataType
  <2>1. PICK t \in All : Step(t)
    BY <2>d, Zenon DEF Next, request, install_service, change_service_version, uninstall_service,
       start_service, stop_service, restart_service, set_service_autostart, ServerExits,
       Crash, Shutdown, Boot
  <2>2. InitDatadir(t) \/ Drive(t) \/ DriveFails(t) \/ Remove(t)
    BY <2>1, <2>d, Zenon DEF Step, Download, DownloadFails, Clear, Rename, RenameFails, Read, Stop,
       Lock, Ensure, InitFails, Persist
  <2>v. task[t].v \in Versions /\ DirOf(task[t].v) \in Dirs
    <3>1. task[t].pc \in {"init", "drive", "remove"}
      BY <2>2, Zenon DEF InitDatadir, Drive, DriveFails, Remove
    <3> QED
      BY <3>1, TaskFacts, StateFacts, Zenon DEF ProgressOf
  <2>3. ~ InitDatadir(t)
    <3> SUFFICES ASSUME InitDatadir(t) PROVE FALSE
      BY Zenon
    <3>1. data[DirOf(task[t].v)] # "used"
      BY Zenon DEF InitDatadir, IInv, Unused
    <3> QED
      BY <3>1, <2>d, <2>v, Zenon DEF InitDatadir, DataType
  <2>4. ~ Drive(t)
    BY <2>d, <2>v, Zenon DEF Drive, DataType
  <2>5. ~ DriveFails(t)
    BY <2>d, <2>v, Zenon DEF DriveFails, Prepared, DataType
  <2>6. Remove(t)
    BY <2>2, <2>3, <2>4, <2>5, Zenon
  <2>7. task[t].pc = "remove" /\ task[t].op = "purge"
    BY <2>6, <2>d, Zenon DEF Remove
  <2>8. t \in Tasks
    BY <2>7, TaskFacts, Zenon DEF ProgressOf, All
  <2> QED
    BY <2>7, <2>8, Zenon
<1> QED
  BY <1>1, Inductive, PTL DEF Spec, DataKept
=============================================================================
