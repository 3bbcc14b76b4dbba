-------------------------- MODULE ConfigStoreProofs --------------------------
(* Proofs about what the daemon keeps in its configuration, for any parked    *)
(* roots, project directories, clients, instances and number of steps:       *)
(* ConfigStore, then ServiceInstances.                                       *)
EXTENDS ConfigStore, ServiceInstances, TLAPS

\* The config mutex: a handler past its acquisition holds it, and so does the
\* watcher between its lock and its release; a daemon that is down has neither.
LockHeld ==
    /\ \A t \in Tasks : task[t].at \in {"apply", "router", "wordpress"} <=> lock = t
    /\ wpc \in {"scan", "router", "wordpress"} <=> lock = Watcher
    /\ up <=> wpc # "off"
    /\ ~up => \A t \in Tasks : task[t].at = "idle"

\* A mutation between its save and its answer: its change is on disk.
Saved ==
    \A t \in Tasks : task[t].at \in {"router", "wordpress"} =>
        /\ task[t].op \in {"Park", "Unpark"}
        /\ (task[t].root \in disk.roots) = (task[t].op = "Park")

\* Memory and disk name the same roots while the daemon runs, whatever the
\* service code saved or failed to save.
SameRoots == up => mem.roots = disk.roots

\* A routing that only serves directories under parked roots.
Fits(routing) == \A d \in Dirs : routing[d] # "absent" => RootOf(d) \in mem.roots

Swapping == \E t \in Tasks : task[t].at \in {"router", "wordpress"}

\* What is routed, or about to be, fits the configuration in memory; router and
\* detection maps differ only between the two swaps.
RoutingFits ==
    /\ up /\ ~Swapping /\ wpc \notin {"router", "wordpress"} => Fits(router) /\ wordpress = router
    /\ \A t \in Tasks :
         /\ task[t].at = "router" => Fits(task[t].routing)
         /\ task[t].at = "wordpress" => Fits(task[t].routing) /\ router = task[t].routing
    /\ wpc = "router" => Fits(built)
    /\ wpc = "wordpress" => Fits(built) /\ router = built

\* From the scan to the reconciliation the watch set that was collected is the
\* right one, unless something has happened that wakes the watcher again or
\* that nothing can see; after the reconciliation it is what is tracked.
Collected ==
    ~woken /\ ~Swapping =>
        /\ wpc \in {"router", "wordpress", "reconcile"} => desired \cap Roots = mem.roots
        /\ wpc = "router" =>
             \A d \in Dirs \ missed : built[d] = "empty" => d \in desired /\ dirs[d] = "empty"
        /\ wpc \in {"wordpress", "reconcile"} =>
             \A d \in Dirs \ missed : router[d] = "empty" => d \in desired /\ dirs[d] = "empty"
        /\ wpc = "select" /\ ~kept =>
             /\ tracked \cap Roots = mem.roots
             /\ \A d \in Dirs \ missed : router[d] = "empty" => d \in tracked

IInv ==
    /\ TypeOK /\ LockHeld /\ Saved /\ SameRoots /\ AckedIsDurable /\ RoutingFits /\ Collected

-----------------------------------------------------------------------------
LEMMA IdleType ==
    /\ Idle.at = "idle" /\ Idle.op = "none" /\ Idle.root \in Roots /\ Idle.value \in Values
    /\ Idle.routing = NoRouting /\ NoRouting \in Routing
    /\ Idle \in Handlers
BY StoreAssumption, Zenon DEF Idle, NoRouting, Routing, Kinds, Handlers

\* A record of a handler with some of its fields changed is one still.
LEMMA HandlerFields ==
    ASSUME NEW k \in Handlers
    PROVE  /\ \A x \in {"idle", "wait", "apply", "router", "wordpress"} : [k EXCEPT !.at = x] \in Handlers
           /\ \A x \in {"idle", "wait", "apply", "router", "wordpress"}, y \in Routing :
                [k EXCEPT !.at = x, !.routing = y] \in Handlers
BY Zenon DEF Handlers

LEMMA BuildFacts ==
    ASSUME NEW c \in Configs, NEW present \in Routing
    PROVE  /\ build_routing(c, present) \in Routing
           /\ \A d \in Dirs : build_routing(c, present)[d] # "absent" => RootOf(d) \in c.roots
           /\ \A d \in Dirs : build_routing(c, present)[d] = "empty" => present[d] = "empty"
BY Zenon DEF build_routing, Routing, Kinds

LEMMA ApplyFacts ==
    ASSUME NEW c \in Configs, NEW k \in Handlers
    PROVE  /\ apply(c, k) \in Configs
           /\ k.op = "Park" => apply(c, k).roots = c.roots \cup {k.root}
           /\ k.op = "Unpark" => apply(c, k).roots = c.roots \ {k.root}
           /\ k.op \notin {"Park", "Unpark"} => apply(c, k).roots = c.roots
BY Zenon DEF apply, Configs, Handlers

LEMMA InitIInv == Init => IInv
<1> SUFFICES ASSUME Init PROVE IInv
  BY Zenon
<1> USE StoreAssumption, IdleType DEF Init
<1>1. disk \in Configs /\ mem \in Configs /\ dirs \in Routing /\ mem = disk
  BY Zenon DEF Configs
<1>2. /\ router \in Routing /\ wordpress = router
      /\ \A d \in Dirs : router[d] # "absent" => RootOf(d) \in mem.roots
  BY <1>1, BuildFacts, Zenon
<1>3. \A t \in Tasks : task[t].at = "idle"
  BY Zenon
<1>4. TypeOK
  <2>1. acked \in [Roots -> BOOLEAN] /\ left \in 0 .. MaxSteps /\ task \in [Tasks -> Handlers]
    OBVIOUS
  <2> QED
    BY <1>1, <1>2, <2>1, Zenon DEF TypeOK
<1>5. LockHeld /\ Saved /\ SameRoots
  BY <1>1, <1>3, Zenon DEF LockHeld, Saved, SameRoots
<1>6. AckedIsDurable
  BY <1>1, Zenon DEF AckedIsDurable
<1>7. RoutingFits /\ Collected
  BY <1>2, <1>3, Zenon DEF RoutingFits, Collected, Fits
<1> QED
  BY <1>4, <1>5, <1>6, <1>7, Zenon DEF IInv

LEMMA DirChangesStep ==
    ASSUME IInv, NEW d \in Dirs, NEW new \in Kinds, DirChanges(d, new)
    PROVE  IInv'
<1> USE StoreAssumption, IdleType, BuildFacts DEF cfgvars, livevars, watchvars
<1>1. TypeOK'
  <2>1. dirs' \in Routing
    BY Zenon DEF IInv, TypeOK, DirChanges, Routing
  <2>2. left' \in 0 .. MaxSteps
    BY DEF IInv, TypeOK, DirChanges, Spend
  <2>3. missed' \subseteq Dirs /\ woken' \in BOOLEAN /\ watched' \subseteq tracked
    BY Zenon DEF IInv, TypeOK, DirChanges
  <2> QED
    BY <2>1, <2>2, <2>3, Zenon DEF IInv, DirChanges, TypeOK
<1>2. LockHeld'
  BY Zenon DEF IInv, DirChanges, Spend, Changes, Seen, TypeOK, LockHeld
<1>3. Saved'
  BY Zenon DEF IInv, DirChanges, Spend, Changes, Seen, TypeOK, LockHeld, Saved
<1>4. SameRoots'
  BY Zenon DEF IInv, DirChanges, Spend, Changes, Seen, TypeOK, LockHeld, SameRoots
<1>5. AckedIsDurable'
  BY DEF IInv, DirChanges, Spend, Changes, Seen, TypeOK, LockHeld, Saved, SameRoots, AckedIsDurable, Committing
<1>6. RoutingFits'
  BY DEF IInv, DirChanges, Spend, Changes, Seen, TypeOK, LockHeld, RoutingFits, Swapping, Fits
<1>7. Collected'
  BY DEF IInv, DirChanges, Spend, Changes, Seen, TypeOK, LockHeld, RoutingFits, Collected, Swapping
<1> QED
  BY <1>1, <1>2, <1>3, <1>4, <1>5, <1>6, <1>7, Zenon DEF IInv

LEMMA AskStep ==
    ASSUME IInv, NEW t \in Tasks, NEW op \in {"Park", "Unpark", "SetValue"}, NEW r \in Roots, NEW v \in Values, Ask(t, op, r, v)
    PROVE  IInv'
<1> USE StoreAssumption, IdleType, BuildFacts DEF cfgvars, livevars, watchvars
<1>1. TypeOK'
  <2>1. [Idle EXCEPT !.at = "wait", !.op = op, !.root = r, !.value = v] \in Handlers
    BY Zenon DEF Handlers
  <2>2. task' \in [Tasks -> Handlers]
    BY <2>1, Zenon DEF IInv, TypeOK, Ask
  <2> QED
    BY <2>2 DEF IInv, Ask, Spend, TypeOK
<1>2. LockHeld'
  BY DEF IInv, Ask, Spend, TypeOK, LockHeld
<1>3. Saved'
  BY DEF IInv, Ask, Spend, TypeOK, LockHeld, Saved
<1>4. SameRoots'
  BY Zenon DEF IInv, Ask, Spend, TypeOK, LockHeld, SameRoots
<1>5. AckedIsDurable'
  BY Zenon DEF IInv, Ask, Spend, TypeOK, LockHeld, Saved, SameRoots, AckedIsDurable, Committing
<1>6. RoutingFits'
  BY DEF IInv, Ask, Spend, TypeOK, LockHeld, RoutingFits, Swapping, Fits
<1>7. Collected'
  BY Zenon DEF IInv, Ask, Spend, TypeOK, LockHeld, RoutingFits, Collected, Swapping
<1> QED
  BY <1>1, <1>2, <1>3, <1>4, <1>5, <1>6, <1>7, Zenon DEF IInv

LEMMA AcquireStep ==
    ASSUME IInv, NEW t \in Tasks, Acquire(t)
    PROVE  IInv'
<1> USE StoreAssumption, IdleType, BuildFacts DEF cfgvars, livevars, watchvars
<1>1. TypeOK'
  <2>1. task' \in [Tasks -> Handlers]
    BY HandlerFields, Zenon DEF IInv, TypeOK, Acquire
  <2> QED
    BY <2>1, Zenon DEF IInv, Acquire, TypeOK
<1>2. LockHeld'
  BY DEF IInv, Acquire, TypeOK, LockHeld
<1>3. Saved'
  BY DEF IInv, Acquire, TypeOK, LockHeld, Saved
<1>4. SameRoots'
  BY Zenon DEF IInv, Acquire, TypeOK, LockHeld, SameRoots
<1>5. AckedIsDurable'
  BY Zenon DEF IInv, Acquire, TypeOK, LockHeld, Saved, SameRoots, AckedIsDurable, Committing
<1>6. RoutingFits'
  BY DEF IInv, Acquire, TypeOK, LockHeld, RoutingFits, Swapping, Fits
<1>7. Collected'
  BY Zenon DEF IInv, Acquire, TypeOK, LockHeld, RoutingFits, Collected, Swapping
<1> QED
  BY <1>1, <1>2, <1>3, <1>4, <1>5, <1>6, <1>7, Zenon DEF IInv

LEMMA MutationFailsStep ==
    ASSUME IInv, NEW t \in Tasks, MutationFails(t)
    PROVE  IInv'
<1> USE StoreAssumption, IdleType, BuildFacts DEF cfgvars, livevars, watchvars
<1>1. TypeOK'
  BY Zenon DEF IInv, MutationFails, IsMutation, TypeOK, Configs, Kinds, Routing
<1>2. LockHeld'
  BY Zenon DEF IInv, MutationFails, IsMutation, TypeOK, LockHeld
<1>3. Saved'
  BY DEF IInv, MutationFails, IsMutation, TypeOK, LockHeld, Saved
<1>4. SameRoots'
  BY Zenon DEF IInv, MutationFails, IsMutation, TypeOK, LockHeld, SameRoots
<1>5. AckedIsDurable'
  BY Zenon DEF IInv, MutationFails, IsMutation, TypeOK, LockHeld, Saved, SameRoots, AckedIsDurable, Committing
<1>6. RoutingFits'
  BY DEF IInv, MutationFails, IsMutation, TypeOK, LockHeld, RoutingFits, Swapping, Fits
<1>7. Collected'
  BY Zenon DEF IInv, MutationFails, IsMutation, TypeOK, LockHeld, RoutingFits, Collected, Swapping
<1> QED
  BY <1>1, <1>2, <1>3, <1>4, <1>5, <1>6, <1>7, Zenon DEF IInv

LEMMA MutationSavedStep ==
    ASSUME IInv, NEW t \in Tasks, MutationSaved(t)
    PROVE  IInv'
<1> USE StoreAssumption, IdleType, BuildFacts DEF cfgvars, livevars, watchvars
<1>1. TypeOK'
  <2>1. disk' \in Configs /\ mem' \in Configs
    BY ApplyFacts, Zenon DEF IInv, TypeOK, MutationSaved
  <2>2. build_routing(mem', dirs) \in Routing
    BY <2>1, BuildFacts, Zenon DEF IInv, TypeOK
  <2>3. task' \in [Tasks -> Handlers]
    BY <2>2, HandlerFields, Zenon DEF IInv, TypeOK, MutationSaved
  <2> QED
    BY <2>1, <2>3, Zenon DEF IInv, MutationSaved, TypeOK
<1>2. LockHeld'
  BY DEF IInv, MutationSaved, IsMutation, apply, TypeOK, LockHeld
<1>3. Saved'
  BY DEF IInv, MutationSaved, IsMutation, apply, TypeOK, LockHeld, Saved
<1>4. SameRoots'
  BY Zenon DEF IInv, MutationSaved, IsMutation, apply, TypeOK, LockHeld, SameRoots
<1>5. AckedIsDurable'
  BY DEF IInv, MutationSaved, IsMutation, apply, TypeOK, LockHeld, Saved, SameRoots, AckedIsDurable, Committing
<1>6. RoutingFits'
  <2>1. mem' \in Configs /\ mem' = apply(mem, task[t]) /\ ~Swapping /\ wpc \notin {"router", "wordpress"}
    BY ApplyFacts DEF IInv, TypeOK, MutationSaved, IsMutation, LockHeld, Swapping
  <2>2. \A d \in Dirs : build_routing(mem', dirs)[d] # "absent" => RootOf(d) \in mem'.roots
    BY <2>1, BuildFacts, Zenon DEF IInv, TypeOK
  <2>3. task' = [task EXCEPT ![t].at = "router", ![t].routing = build_routing(mem', dirs)]
    BY Zenon DEF MutationSaved
  <2> QED
    BY <2>1, <2>2, <2>3 DEF IInv, MutationSaved, TypeOK, LockHeld, RoutingFits, Swapping, Fits
<1>7. Collected'
  BY DEF IInv, MutationSaved, IsMutation, apply, TypeOK, LockHeld, RoutingFits, Collected, Swapping
<1> QED
  BY <1>1, <1>2, <1>3, <1>4, <1>5, <1>6, <1>7, Zenon DEF IInv

LEMMA SwapRouterStep ==
    ASSUME IInv, NEW t \in Tasks, SwapRouter(t)
    PROVE  IInv'
<1> USE StoreAssumption, IdleType, BuildFacts DEF cfgvars, livevars, watchvars
<1>1. TypeOK'
  <2>1. task' \in [Tasks -> Handlers]
    BY HandlerFields, Zenon DEF IInv, TypeOK, SwapRouter
  <2>2. router' \in Routing
    BY Zenon DEF IInv, TypeOK, SwapRouter, Handlers
  <2> QED
    BY <2>1, <2>2, Zenon DEF IInv, SwapRouter, TypeOK
<1>2. LockHeld'
  BY DEF IInv, SwapRouter, TypeOK, LockHeld
<1>3. Saved'
  BY DEF IInv, SwapRouter, TypeOK, LockHeld, Saved
<1>4. SameRoots'
  BY Zenon DEF IInv, SwapRouter, TypeOK, LockHeld, SameRoots
<1>5. AckedIsDurable'
  BY DEF IInv, SwapRouter, TypeOK, LockHeld, Saved, SameRoots, AckedIsDurable, Committing
<1>6. RoutingFits'
  BY DEF IInv, SwapRouter, TypeOK, LockHeld, RoutingFits, Swapping, Fits
<1>7. Collected'
  BY DEF IInv, SwapRouter, TypeOK, LockHeld, RoutingFits, Collected, Swapping
<1> QED
  BY <1>1, <1>2, <1>3, <1>4, <1>5, <1>6, <1>7, Zenon DEF IInv

LEMMA MutationDoneStep ==
    ASSUME IInv, NEW t \in Tasks, MutationDone(t)
    PROVE  IInv'
<1> USE StoreAssumption, IdleType, BuildFacts DEF cfgvars, livevars, watchvars
<1>1. TypeOK'
  <2>1. acked' \in [Roots -> BOOLEAN]
    BY Zenon DEF IInv, TypeOK, MutationDone
  <2>2. task' \in [Tasks -> Handlers]
    BY Zenon DEF IInv, TypeOK, MutationDone
  <2>3. wordpress' \in Routing
    BY Zenon DEF IInv, TypeOK, MutationDone, Handlers
  <2> QED
    BY <2>1, <2>2, <2>3, Zenon DEF IInv, MutationDone, TypeOK
<1>2. LockHeld'
  BY DEF IInv, MutationDone, TypeOK, LockHeld
<1>3. Saved'
  BY Zenon DEF IInv, MutationDone, TypeOK, LockHeld, Saved
<1>4. SameRoots'
  BY Zenon DEF IInv, MutationDone, TypeOK, LockHeld, SameRoots
<1>5. AckedIsDurable'
  BY DEF IInv, MutationDone, TypeOK, LockHeld, Saved, SameRoots, AckedIsDurable, Committing
<1>6. RoutingFits'
  BY DEF IInv, MutationDone, TypeOK, LockHeld, RoutingFits, Swapping, Fits
<1>7. Collected'
  BY Zenon DEF IInv, MutationDone, TypeOK, LockHeld, RoutingFits, Collected, Swapping
<1> QED
  BY <1>1, <1>2, <1>3, <1>4, <1>5, <1>6, <1>7, Zenon DEF IInv

LEMMA PersistStep ==
    ASSUME IInv, NEW t \in Tasks, persist_instance(t)
    PROVE  IInv'
<1> USE StoreAssumption, IdleType, BuildFacts DEF cfgvars, livevars, watchvars
<1>a. mem' \in Configs /\ mem'.roots = mem.roots
  BY ApplyFacts, Zenon DEF IInv, TypeOK, persist_instance
<1>1. TypeOK'
  BY <1>a, Zenon DEF IInv, persist_instance, TypeOK
<1>2. LockHeld'
  BY <1>a DEF IInv, persist_instance, TypeOK, LockHeld
<1>3. Saved'
  BY <1>a DEF IInv, persist_instance, TypeOK, LockHeld, Saved
<1>4. SameRoots'
  BY <1>a, Zenon DEF IInv, persist_instance, TypeOK, LockHeld, SameRoots
<1>5. AckedIsDurable'
  BY <1>a DEF IInv, persist_instance, TypeOK, LockHeld, Saved, SameRoots, AckedIsDurable, Committing
<1>6. RoutingFits'
  BY <1>a DEF IInv, persist_instance, TypeOK, LockHeld, RoutingFits, Swapping, Fits
<1>7. Collected'
  BY <1>a, Zenon DEF IInv, persist_instance, TypeOK, LockHeld, RoutingFits, Collected, Swapping
<1> QED
  BY <1>1, <1>2, <1>3, <1>4, <1>5, <1>6, <1>7, Zenon DEF IInv

LEMMA WakeStep ==
    ASSUME IInv, Wake
    PROVE  IInv'
<1> USE StoreAssumption, IdleType, BuildFacts DEF cfgvars, livevars, watchvars
<1>1. TypeOK'
  BY Zenon DEF IInv, Wake, TypeOK, Configs, Kinds, Routing
<1>2. LockHeld'
  BY Zenon DEF IInv, Wake, TypeOK, LockHeld
<1>3. Saved'
  BY Zenon DEF IInv, Wake, TypeOK, LockHeld, Saved
<1>4. SameRoots'
  BY Zenon DEF IInv, Wake, TypeOK, LockHeld, SameRoots
<1>5. AckedIsDurable'
  BY DEF IInv, Wake, TypeOK, LockHeld, Saved, SameRoots, AckedIsDurable, Committing
<1>6. RoutingFits'
  BY Zenon DEF IInv, Wake, TypeOK, LockHeld, RoutingFits, Swapping, Fits
<1>7. Collected'
  BY Zenon DEF IInv, Wake, TypeOK, LockHeld, RoutingFits, Collected, Swapping
<1> QED
  BY <1>1, <1>2, <1>3, <1>4, <1>5, <1>6, <1>7, Zenon DEF IInv

LEMMA WatcherLocksStep ==
    ASSUME IInv, WatcherLocks
    PROVE  IInv'
<1> USE StoreAssumption, IdleType, BuildFacts DEF cfgvars, livevars, watchvars
<1>1. TypeOK'
  BY Zenon DEF IInv, WatcherLocks, TypeOK, Configs, Kinds, Routing
<1>2. LockHeld'
  BY Zenon DEF IInv, WatcherLocks, TypeOK, LockHeld
<1>3. Saved'
  BY Zenon DEF IInv, WatcherLocks, TypeOK, LockHeld, Saved
<1>4. SameRoots'
  BY Zenon DEF IInv, WatcherLocks, TypeOK, LockHeld, SameRoots
<1>5. AckedIsDurable'
  BY DEF IInv, WatcherLocks, TypeOK, LockHeld, Saved, SameRoots, AckedIsDurable, Committing
<1>6. RoutingFits'
  BY Zenon DEF IInv, WatcherLocks, TypeOK, LockHeld, RoutingFits, Swapping, Fits
<1>7. Collected'
  BY Zenon DEF IInv, WatcherLocks, TypeOK, LockHeld, RoutingFits, Collected, Swapping
<1> QED
  BY <1>1, <1>2, <1>3, <1>4, <1>5, <1>6, <1>7, Zenon DEF IInv

LEMMA ScanStep ==
    ASSUME IInv, Scan
    PROVE  IInv'
<1> USE StoreAssumption, IdleType, BuildFacts DEF cfgvars, livevars, watchvars
<1>1. TypeOK'
  BY Zenon DEF IInv, Scan, TypeOK, Configs, Kinds, Routing
<1>2. LockHeld'
  BY Zenon DEF IInv, Scan, TypeOK, LockHeld
<1>3. Saved'
  BY Zenon DEF IInv, Scan, TypeOK, LockHeld, Saved
<1>4. SameRoots'
  BY Zenon DEF IInv, Scan, TypeOK, LockHeld, SameRoots
<1>5. AckedIsDurable'
  BY DEF IInv, Scan, TypeOK, LockHeld, Saved, SameRoots, AckedIsDurable, Committing
<1>6. RoutingFits'
  BY DEF IInv, Scan, TypeOK, LockHeld, RoutingFits, Swapping, Fits
<1>7. Collected'
  <2>1. /\ built' \in Routing /\ mem' = mem /\ missed' = {}
        /\ \A d \in Dirs : built'[d] = "empty" => dirs[d] = "empty"
    BY BuildFacts DEF IInv, TypeOK, Scan
  <2>2. desired' \cap Roots = mem.roots
    BY Zenon DEF IInv, TypeOK, Scan, Configs
  <2> QED
    BY <2>1, <2>2, Zenon DEF IInv, Scan, TypeOK, LockHeld, Collected, Swapping
<1> QED
  BY <1>1, <1>2, <1>3, <1>4, <1>5, <1>6, <1>7, Zenon DEF IInv

LEMMA ScanFailsStep ==
    ASSUME IInv, ScanFails
    PROVE  IInv'
<1> USE StoreAssumption, IdleType, BuildFacts DEF cfgvars, livevars, watchvars
<1>1. TypeOK'
  BY Zenon DEF IInv, ScanFails, TypeOK, Configs, Kinds, Routing
<1>2. LockHeld'
  BY DEF IInv, ScanFails, TypeOK, LockHeld
<1>3. Saved'
  BY Zenon DEF IInv, ScanFails, TypeOK, LockHeld, Saved
<1>4. SameRoots'
  BY Zenon DEF IInv, ScanFails, TypeOK, LockHeld, SameRoots
<1>5. AckedIsDurable'
  BY DEF IInv, ScanFails, TypeOK, LockHeld, Saved, SameRoots, AckedIsDurable, Committing
<1>6. RoutingFits'
  BY Zenon DEF IInv, ScanFails, TypeOK, LockHeld, RoutingFits, Swapping, Fits
<1>7. Collected'
  BY Zenon DEF IInv, ScanFails, TypeOK, LockHeld, RoutingFits, Collected, Swapping
<1> QED
  BY <1>1, <1>2, <1>3, <1>4, <1>5, <1>6, <1>7, Zenon DEF IInv

LEMMA InstallRouterStep ==
    ASSUME IInv, InstallRouter
    PROVE  IInv'
<1> USE StoreAssumption, IdleType, BuildFacts DEF cfgvars, livevars, watchvars
<1>1. TypeOK'
  BY Zenon DEF IInv, InstallRouter, TypeOK, Configs, Kinds, Routing
<1>2. LockHeld'
  BY Zenon DEF IInv, InstallRouter, TypeOK, LockHeld
<1>3. Saved'
  BY Zenon DEF IInv, InstallRouter, TypeOK, LockHeld, Saved
<1>4. SameRoots'
  BY Zenon DEF IInv, InstallRouter, TypeOK, LockHeld, SameRoots
<1>5. AckedIsDurable'
  BY DEF IInv, InstallRouter, TypeOK, LockHeld, Saved, SameRoots, AckedIsDurable, Committing
<1>6. RoutingFits'
  BY DEF IInv, InstallRouter, TypeOK, LockHeld, RoutingFits, Swapping, Fits
<1>7. Collected'
  BY Zenon DEF IInv, InstallRouter, TypeOK, LockHeld, RoutingFits, Collected, Swapping
<1> QED
  BY <1>1, <1>2, <1>3, <1>4, <1>5, <1>6, <1>7, Zenon DEF IInv

LEMMA InstallWordpressStep ==
    ASSUME IInv, InstallWordpress
    PROVE  IInv'
<1> USE StoreAssumption, IdleType, BuildFacts DEF cfgvars, livevars, watchvars
<1>1. TypeOK'
  BY Zenon DEF IInv, InstallWordpress, TypeOK, Configs, Kinds, Routing
<1>2. LockHeld'
  BY DEF IInv, InstallWordpress, TypeOK, LockHeld
<1>3. Saved'
  BY Zenon DEF IInv, InstallWordpress, TypeOK, LockHeld, Saved
<1>4. SameRoots'
  BY Zenon DEF IInv, InstallWordpress, TypeOK, LockHeld, SameRoots
<1>5. AckedIsDurable'
  BY DEF IInv, InstallWordpress, TypeOK, LockHeld, Saved, SameRoots, AckedIsDurable, Committing
<1>6. RoutingFits'
  BY Zenon DEF IInv, InstallWordpress, TypeOK, LockHeld, RoutingFits, Swapping, Fits
<1>7. Collected'
  BY Zenon DEF IInv, InstallWordpress, TypeOK, LockHeld, RoutingFits, Collected, Swapping
<1> QED
  BY <1>1, <1>2, <1>3, <1>4, <1>5, <1>6, <1>7, Zenon DEF IInv

LEMMA ReconcileStep ==
    ASSUME IInv, reconcile
    PROVE  IInv'
<1> USE StoreAssumption, IdleType, BuildFacts DEF cfgvars, livevars, watchvars
<1>1. TypeOK'
  BY Zenon DEF IInv, reconcile, Rewatch, TypeOK, Configs, Kinds, Routing
<1>2. LockHeld'
  BY Zenon DEF IInv, reconcile, Rewatch, TypeOK, LockHeld
<1>3. Saved'
  BY Zenon DEF IInv, reconcile, Rewatch, TypeOK, LockHeld, Saved
<1>4. SameRoots'
  BY Zenon DEF IInv, reconcile, Rewatch, TypeOK, LockHeld, SameRoots
<1>5. AckedIsDurable'
  BY DEF IInv, reconcile, Rewatch, TypeOK, LockHeld, Saved, SameRoots, AckedIsDurable, Committing
<1>6. RoutingFits'
  BY Zenon DEF IInv, reconcile, Rewatch, TypeOK, LockHeld, RoutingFits, Swapping, Fits
<1>7. Collected'
  BY Zenon DEF IInv, reconcile, Rewatch, TypeOK, LockHeld, RoutingFits, Collected, Swapping
<1> QED
  BY <1>1, <1>2, <1>3, <1>4, <1>5, <1>6, <1>7, Zenon DEF IInv

LEMMA CrashStep ==
    ASSUME IInv, Crash
    PROVE  IInv'
<1> USE StoreAssumption, IdleType, BuildFacts DEF cfgvars, livevars, watchvars
<1>1. TypeOK'
  <2>1. acked' \in [Roots -> BOOLEAN]
    <3> DEFINE told(r) == IF \E t \in Tasks : task[t].root = r /\ task[t].at \in {"router", "wordpress"}
                          THEN r \in disk.roots ELSE acked[r]
    <3>1. ASSUME NEW r \in Roots PROVE told(r) \in BOOLEAN
      <4>1. acked[r] \in BOOLEAN
        <5>1. acked \in [Roots -> BOOLEAN]
          BY Zenon DEF IInv, TypeOK
        <5> QED
          BY <5>1, Zenon
      <4>2. (r \in disk.roots) \in BOOLEAN
        OBVIOUS
      <4>3. told(r) = (r \in disk.roots) \/ told(r) = acked[r]
        BY Zenon
      <4> QED
        BY <4>1, <4>2, <4>3, Zenon
    <3>2. acked' = [r \in Roots |-> told(r)]
      BY Zenon DEF Crash
    <3> HIDE DEF told
    <3> QED
      BY <3>1, <3>2, Zenon
  <2>2. task' \in [Tasks -> Handlers] /\ left' \in 0 .. MaxSteps
    <3>1. task' \in [Tasks -> Handlers]
      BY Zenon DEF Crash
    <3>2. left \in 0 .. MaxSteps /\ left > 0 /\ left' = left - 1
      BY Zenon DEF IInv, TypeOK, Crash, Spend
    <3> QED
      BY <3>1, <3>2
  <2> QED
    BY <2>1, <2>2, Zenon DEF IInv, Crash, TypeOK
<1>2. LockHeld'
  BY Zenon DEF IInv, Crash, Spend, TypeOK, LockHeld
<1>3. Saved'
  BY Zenon DEF IInv, Crash, Spend, TypeOK, LockHeld, Saved
<1>4. SameRoots'
  BY Zenon DEF IInv, Crash, Spend, TypeOK, LockHeld, SameRoots
<1>5. AckedIsDurable'
  BY Zenon DEF IInv, Crash, Spend, TypeOK, LockHeld, Saved, SameRoots, AckedIsDurable, Committing
<1>6. RoutingFits'
  BY Zenon DEF IInv, Crash, Spend, TypeOK, LockHeld, RoutingFits, Swapping, Fits
<1>7. Collected'
  BY Zenon DEF IInv, Crash, Spend, TypeOK, LockHeld, RoutingFits, Collected, Swapping
<1> QED
  BY <1>1, <1>2, <1>3, <1>4, <1>5, <1>6, <1>7, Zenon DEF IInv

LEMMA RestartStep ==
    ASSUME IInv, Restart
    PROVE  IInv'
<1> USE StoreAssumption, IdleType, BuildFacts DEF cfgvars, livevars, watchvars
<1>1. TypeOK'
  BY Zenon DEF IInv, Restart, TypeOK, Configs, Kinds, Routing
<1>2. LockHeld'
  BY Zenon DEF IInv, Restart, TypeOK, LockHeld
<1>3. Saved'
  BY Zenon DEF IInv, Restart, TypeOK, LockHeld, Saved
<1>4. SameRoots'
  BY Zenon DEF IInv, Restart, TypeOK, LockHeld, SameRoots
<1>5. AckedIsDurable'
  BY Zenon DEF IInv, Restart, TypeOK, LockHeld, Saved, SameRoots, AckedIsDurable, Committing
<1>6. RoutingFits'
  BY Zenon DEF IInv, Restart, TypeOK, LockHeld, RoutingFits, Swapping, Fits
<1>7. Collected'
  BY Zenon DEF IInv, Restart, TypeOK, LockHeld, RoutingFits, Collected, Swapping
<1> QED
  BY <1>1, <1>2, <1>3, <1>4, <1>5, <1>6, <1>7, Zenon DEF IInv

-----------------------------------------------------------------------------
\* The inductive invariant holds in every reachable state.
THEOREM Inductive == Spec => []IInv
<1>1. IInv /\ [Next]_vars => IInv'
  <2> SUFFICES ASSUME IInv, [Next]_vars PROVE IInv'
    BY Zenon
  <2>1. ASSUME NEW d \in Dirs, NEW new \in Kinds, DirChanges(d, new) PROVE IInv'
    BY <2>1, DirChangesStep, Zenon
  <2>2. ASSUME NEW t \in Tasks, NEW r \in Roots, NEW op \in {"Park", "Unpark"}, Ask(t, op, r, Idle.value)
        PROVE  IInv'
    BY <2>2, AskStep, IdleType, Zenon
  <2>3. ASSUME NEW t \in Tasks, NEW v \in Values, Ask(t, "SetValue", Idle.root, v) PROVE IInv'
    BY <2>3, AskStep, IdleType, Zenon
  <2>4. ASSUME NEW t \in Tasks, TaskStep(t) PROVE IInv'
    BY <2>4, AcquireStep, MutationFailsStep, MutationSavedStep, SwapRouterStep, MutationDoneStep, PersistStep, Zenon
    DEF TaskStep
  <2>5. CASE WatcherStep
    BY <2>5, WakeStep, WatcherLocksStep, ScanStep, ScanFailsStep, InstallRouterStep, InstallWordpressStep,
       ReconcileStep, Zenon DEF WatcherStep
  <2>6. CASE Crash \/ Restart
    BY <2>6, CrashStep, RestartStep, Zenon
  <2>7. CASE UNCHANGED vars
    <3> USE <2>7 DEF vars, cfgvars, livevars, watchvars, IInv
    <3>1. TypeOK'
      BY Zenon DEF TypeOK
    <3>2. LockHeld' /\ Saved'
      BY Zenon DEF LockHeld, Saved
    <3>3. SameRoots' /\ AckedIsDurable'
      BY Zenon DEF SameRoots, AckedIsDurable, Committing
    <3>4. RoutingFits'
      BY Zenon DEF RoutingFits, Fits, Swapping
    <3>5. Collected'
      BY Zenon DEF Collected, Swapping
    <3> QED
      BY <3>1, <3>2, <3>3, <3>4, <3>5, Zenon
  <2> QED
    BY <2>1, <2>2, <2>3, <2>4, <2>5, <2>6, <2>7, Zenon DEF Next
<1> QED
  BY InitIInv, <1>1, PTL DEF Spec

\* Whatever runs, fails or crashes beside it, an answered Park or Unpark is on
\* disk and in memory, the router serves parked roots only, and at rest the
\* watcher tracks them (handle_mutation, recompute, reconcile, bring_up).
THEOREM ServedIsSavedAlways == Spec => []ServedIsSaved
<1>1. IInv => ServedIsSaved
  <2> SUFFICES ASSUME IInv PROVE ServedIsSaved
    BY Zenon
  <2>1. RouterFollowsConfig
    BY StoreAssumption, Zenon DEF IInv, LockHeld, RoutingFits, Fits, Swapping, RouterFollowsConfig
  <2>2. WatchSetFollows
    BY Zenon DEF IInv, Collected, Swapping, WatchSetFollows, Quiescent
  <2> QED
    BY <2>1, <2>2, Zenon DEF IInv, ServedIsSaved
<1> QED
  BY Inductive, <1>1, PTL

-----------------------------------------------------------------------------
(* ServiceInstances.                                                         *)

\* Where each operation can be, and what it carries.
WorkForm(t) ==
    LET k == work[t] IN
    /\ k.pc = "idle" => k = NoWork
    /\ t = AutoStart /\ k.pc # "idle" => k.op = "auto" /\ k.pc \in {"list", "next", "ensure"}
    /\ t # AutoStart => k.op # "auto" /\ k.pc \notin {"list", "next"} /\ k.todo = {}
    /\ k.pc \notin {"idle", "list", "next"} => k.site \in Owners
    /\ k.op = "site" => k.new \in Owners
    /\ k.op = "port" \/ k.pc \in {"persist", "ensure", "record"} => k.port \in Ports
    /\ k.pc = "exists" => k.op = "add"
    /\ k.pc \in {"reserved", "persist"} => k.op \in {"add", "port"}
    /\ k.pc = "read" => k.op \in {"start", "restart"}
    /\ k.pc \in {"ensure", "record"} => k.op \in {"add", "start", "restart", "auto"}
    /\ k.pc = "halt" => k.op \in {"remove", "site", "restart", "stop"}
    /\ k.pc = "drop" => k.op = "remove"
    /\ k.pc \in {"check", "move", "target", "unlink"} => k.op = "site"
    /\ k.pc \in {"unrule", "rule"} => k.op \in {"add", "port", "remove", "site"}
    /\ k.pc = "rule" => k.op # "remove"

\* Unless it was noted otherwise, no two tasks are at work on one site.
Apart == "site" \notin mishaps => \A t, u \in All : t # u => At(t) \cap At(u) = {}

\* A server runs for a configured instance, or for one that is about to be
\* recorded; an entry is dropped or moved once its server is down, and the
\* auto-start's list stays configured.
BackedBy(t, s) ==
    running[s] = Absent \/ instances[s] # Absent \/ (work[t].pc = "record" /\ work[t].site = s)
Halted(t) ==
    LET k == work[t] IN
    /\ k.pc \in {"drop", "move"} => running[k.site] = Absent
    /\ k.pc = "ensure" /\ k.op \in {"add", "auto"} => instances[k.site] # Absent
    /\ \A s \in k.todo : instances[s] # Absent
NoStray == "site" \notin mishaps =>
    (\A s \in Owners : \E t \in All : BackedBy(t, s)) /\ (\A t \in All : Halted(t))

\* The sites whose rule a task has still to bring in line.
Dirty(t) ==
    IF work[t].pc \in {"ensure", "record"} /\ work[t].op = "add" THEN {work[t].site}
    ELSE IF work[t].pc \in {"target", "unlink"} THEN {work[t].site, work[t].new}
    ELSE IF work[t].pc \in {"unrule", "rule"} THEN {RuleSite(t)} ELSE {}
LinedBy(t, s) == rule[s] = PortOf(s) \/ s \in Dirty(t)

\* What a task has read, and will set the rule from, is still so.
Current(t) ==
    LET k == work[t] IN
    /\ k.op \notin {"add", "auto"}
         /\ k.pc \in {"reserved", "persist", "read", "ensure", "record", "check", "halt", "drop", "move"}
         => instances[k.site] # Absent
    /\ k.op # "auto" /\ k.pc \in {"ensure", "record"} => PortOf(k.site) = k.port
    /\ k.op = "site" /\ k.pc \in {"halt", "move"} => instances[k.new] = Absent
    /\ k.op = "site" /\ k.pc \in {"target", "unlink", "unrule", "rule"} => k.site # k.new
    /\ k.pc \in {"target", "unlink"} => instances[k.site] = Absent /\ instances[k.new] # Absent
    /\ k.pc = "unlink" => PortOf(k.new) = k.port
    /\ k.pc \in {"unrule", "rule"} => PortOf(RuleSite(t)) = IF k.op = "remove" THEN Absent ELSE k.port
    /\ k.pc = "rule" => rule[RuleSite(t)] = Absent
Following == mishaps = {} =>
    (\A s \in Owners : \E t \in All : LinedBy(t, s)) /\ (\A t \in All : Current(t))

InstInv == InstTypeOK /\ (\A t \in All : WorkForm(t)) /\ Apart /\ NoStray /\ Following

-----------------------------------------------------------------------------
\* A task's sites are its own, and so is what is still to be done for them.
LEMMA SiteFacts ==
    ASSUME InstTypeOK, NEW t \in All, WorkForm(t)
    PROVE  /\ work[t] \in Works /\ At(t) \subseteq Owners
           /\ Dirty(t) \subseteq At(t)
           /\ work[t].pc \notin {"idle", "list", "next"} => work[t].site \in At(t)
           /\ work[t].op = "site" /\ work[t].pc # "list" => work[t].new \in At(t)
           /\ work[t].todo \subseteq At(t)
<1>1. work[t] \in Works
  BY Zenon DEF InstTypeOK
<1>2. At(t) \subseteq Owners
  BY <1>1, Zenon DEF At, Works
<1>3. /\ work[t].pc \notin {"idle", "list", "next"} => work[t].site \in At(t)
      /\ work[t].op = "site" /\ work[t].pc # "list" => work[t].new \in At(t)
      /\ work[t].todo \subseteq At(t)
  BY <1>1, InstAssumption, Zenon DEF At, Works, WorkForm
<1>4. Dirty(t) \subseteq At(t)
  BY <1>3, Zenon DEF Dirty, RuleSite, WorkForm
<1>5. QED
  BY <1>1, <1>2, <1>3, <1>4, Zenon

LEMMA Mine ==
    ASSUME InstInv, NEW t \in All
    PROVE  /\ "site" \notin mishaps => Halted(t) /\ \A s \in At(t) : BackedBy(t, s)
           /\ mishaps = {} => Current(t) /\ \A s \in At(t) : LinedBy(t, s)
<1>1. \A u \in All : At(u) \subseteq Owners /\ Dirty(u) \subseteq At(u)
                     /\ (work[u].pc = "record" => work[u].site \in At(u))
  BY SiteFacts, Zenon DEF InstInv
<1>2. ASSUME "site" \notin mishaps PROVE Halted(t) /\ \A s \in At(t) : BackedBy(t, s)
  BY <1>1, <1>2 DEF InstInv, Apart, NoStray, BackedBy
<1>3. ASSUME mishaps = {} PROVE Current(t) /\ \A s \in At(t) : LinedBy(t, s)
  BY <1>1, <1>3, Zenon DEF InstInv, Apart, Following, LinedBy
<1>4. QED
  BY <1>2, <1>3, Zenon

\* A step of one task on its own sites.
OnlyAt(t) ==
    /\ \A u \in All \ {t} : work'[u] = work[u]
    /\ At(t)' \subseteq At(t)
    /\ \A s \in Owners \ At(t) : instances'[s] = instances[s] /\ rule'[s] = rule[s] /\ running'[s] = running[s]
    /\ mishaps \subseteq mishaps'

\* Such a step keeps InstInv when the task and its sites are left in order: the
\* other tasks are at work on other sites.
LEMMA Elsewhere ==
    ASSUME InstInv, InstTypeOK', NEW t \in All, OnlyAt(t), WorkForm(t)',
           "site" \notin mishaps' => Halted(t)' /\ \A s \in At(t) : BackedBy(t, s)',
           mishaps' = {} => Current(t)' /\ \A s \in At(t) : LinedBy(t, s)'
    PROVE  InstInv'
<1>1. \A u \in All \ {t} : work'[u] = work[u] /\ At(u)' = At(u) /\ WorkForm(u)' /\ Dirty(u)' = Dirty(u)
  <2> SUFFICES ASSUME NEW u \in All \ {t}
               PROVE  work'[u] = work[u] /\ At(u)' = At(u) /\ WorkForm(u)' /\ Dirty(u)' = Dirty(u)
    BY Zenon
  <2>1. work'[u] = work[u] /\ WorkForm(u)
    BY Zenon DEF OnlyAt, InstInv
  <2>2. At(u)' = At(u) /\ Dirty(u)' = Dirty(u)
    BY <2>1, Zenon DEF At, Dirty, RuleSite
  <2>3. WorkForm(u)'
    BY <2>1, ZenonT(30) DEF WorkForm
  <2>4. QED
    BY <2>1, <2>2, <2>3, Zenon
<1>2. \A u \in All : WorkForm(u)'
  BY <1>1, Zenon
<1>3. Apart'
  BY <1>1, ZenonT(30) DEF OnlyAt, Apart, InstInv
<1>4. \A u \in All \ {t} : /\ Dirty(u) \subseteq At(u) /\ work[u].todo \subseteq At(u) /\ At(u) \subseteq Owners
                           /\ work[u].pc \notin {"idle", "list", "next"} => work[u].site \in At(u)
                           /\ work[u].op = "site" /\ work[u].pc # "list" => work[u].new \in At(u)
  BY SiteFacts, Zenon DEF InstInv
<1>5. ASSUME "site" \notin mishaps'
      PROVE  \A u \in All \ {t} : At(u) \subseteq Owners \ At(t)
  BY <1>4, <1>5, Zenon DEF OnlyAt, InstInv, Apart
<1>6. NoStray'
  <2> SUFFICES ASSUME "site" \notin mishaps'
               PROVE  (\A s \in Owners : \E u \in All : BackedBy(u, s)') /\ \A u \in All : Halted(u)'
    BY Zenon DEF NoStray
  <2>1. "site" \notin mishaps
    BY Zenon DEF OnlyAt
  <2>2. ASSUME NEW s \in Owners \ At(t) PROVE \E u \in All : BackedBy(u, s)'
    <3>1. PICK u \in All : BackedBy(u, s)
      BY <2>1, Zenon DEF InstInv, NoStray
    <3>2. /\ instances'[s] = instances[s] /\ running'[s] = running[s]
      BY Zenon DEF OnlyAt
    <3>3. work[t].pc = "record" => work[t].site # s
      BY SiteFacts, <2>2, Zenon DEF InstInv
    <3>4. u # t => work'[u] = work[u]
      BY Zenon DEF OnlyAt
    <3>5. QED
      BY <3>1, <3>2, <3>3, <3>4, Zenon DEF BackedBy
  <2>3. ASSUME NEW u \in All \ {t} PROVE Halted(u)'
    <3>1. Halted(u) /\ WorkForm(u) /\ work'[u] = work[u]
      BY <2>1, <1>1, Zenon DEF InstInv, NoStray
    <3>2. \A s \in At(u) : instances'[s] = instances[s] /\ running'[s] = running[s]
      BY <1>5, Zenon DEF OnlyAt
    <3>3. /\ work[u].pc \in {"drop", "move", "ensure"} => work[u].site \in At(u)
          /\ \A s \in work[u].todo : s \in At(u)
      BY <1>4, Zenon
    <3>4. QED
      BY <3>1, <3>2, <3>3, Zenon DEF Halted
  <2>4. QED
    BY <2>2, <2>3, Zenon
<1>7. Following'
  <2> SUFFICES ASSUME mishaps' = {}
               PROVE  (\A s \in Owners : \E u \in All : LinedBy(u, s)') /\ \A u \in All : Current(u)'
    BY Zenon DEF Following
  <2>1. mishaps = {}
    BY Zenon DEF OnlyAt
  <2>2. ASSUME NEW s \in Owners \ At(t) PROVE \E u \in All : LinedBy(u, s)'
    <3>1. PICK u \in All : LinedBy(u, s)
      BY <2>1, Zenon DEF InstInv, Following
    <3>2. rule'[s] = rule[s] /\ PortOf(s)' = PortOf(s)
      BY Zenon DEF OnlyAt, PortOf
    <3>3. s \notin Dirty(t)
      BY SiteFacts, <2>2, Zenon DEF InstInv
    <3>4. u # t => Dirty(u)' = Dirty(u)
      BY <1>1, Zenon
    <3>5. QED
      BY <3>1, <3>2, <3>3, <3>4, Zenon DEF LinedBy
  <2>3. ASSUME NEW u \in All \ {t} PROVE Current(u)'
    <3>1. Current(u) /\ WorkForm(u) /\ work'[u] = work[u] /\ RuleSite(u)' = RuleSite(u)
      BY <2>1, <1>1, ZenonT(30) DEF InstInv, Following, RuleSite
    <3>2. \A s \in At(u) : instances'[s] = instances[s] /\ rule'[s] = rule[s] /\ PortOf(s)' = PortOf(s)
      BY <1>5, Zenon DEF OnlyAt, PortOf
    <3>3. /\ work[u].pc \notin {"idle", "list", "next"} => work[u].site \in At(u)
          /\ work[u].op = "site" /\ work[u].pc # "list" => work[u].new \in At(u)
          /\ work[u].pc \in {"unrule", "rule"} => RuleSite(u) \in At(u)
      BY <1>4, Zenon DEF RuleSite
    <3>4. work[u].pc \in {"target", "unlink"} => work[u].op = "site"
      BY <3>1, ZenonT(30) DEF WorkForm
    <3>5. QED
      BY <3>1, <3>2, <3>3, <3>4, ZenonT(30) DEF Current
  <2>4. QED
    BY <2>2, <2>3, Zenon
<1>8. QED
  BY <1>2, <1>3, <1>6, <1>7, Zenon DEF InstInv

\* A task that has ended.
LEMMA NoWorkTyped == NoWork \in Works
BY InstAssumption, Zenon DEF NoWork, Works, Pcs, WorkOps

LEMMA Ended ==
    ASSUME NEW t, work'[t] = NoWork
    PROVE  WorkForm(t)' /\ At(t)' = {} /\ Dirty(t)' = {} /\ Halted(t)' /\ Current(t)'
<1>1. /\ work'[t].pc = "idle" /\ work'[t].op = "stop" /\ work'[t].site = Absent /\ work'[t].new = Absent
      /\ work'[t].todo = {}
  BY DEF NoWork
<1>2. WorkForm(t)'
  BY <1>1, Zenon DEF WorkForm
<1>3. At(t)' = {} /\ Dirty(t)' = {}
  BY <1>1, Zenon DEF At, Dirty
<1>4. Halted(t)'
  BY <1>1, Zenon DEF Halted
<1>5. Current(t)'
  BY <1>1, Zenon DEF Current
<1>6. QED
  BY <1>2, <1>3, <1>4, <1>5, Zenon

\* The steps of a request.
LEMMA WorkStepKeeps == ASSUME InstInv, NEW t \in All, WorkStep(t) PROVE InstInv'
<1> DEFINE k == work[t]
<1>1. InstTypeOK /\ WorkForm(t) /\ k \in Works
  BY SiteFacts, Zenon DEF InstInv
<1>2. /\ k.pc \notin {"idle", "list", "next"} => k.site \in At(t)
      /\ k.op = "site" /\ k.pc # "list" => k.new \in At(t)
      /\ k.pc # "list" => At(t) = ({k.site, k.new} \cup k.todo) \ {Absent}
  BY <1>1, SiteFacts, Zenon DEF At
<1>3. /\ "site" \notin mishaps => Halted(t) /\ \A s \in At(t) : BackedBy(t, s)
      /\ mishaps = {} => Current(t) /\ \A s \in At(t) : LinedBy(t, s)
  BY Mine, Zenon
<1>4. NoWork \in Works /\ (work'[t] = NoWork => WorkForm(t)')
  BY NoWorkTyped, Ended, Zenon
<1>0. \A s \in Owners : Entry(s) \in Entries
  BY <1>1, InstAssumption, Zenon DEF InstTypeOK, Entry, Entries
<1>5. CASE Exists(t)
  <2>1. InstTypeOK'
    BY <1>1, <1>4, <1>5, InstAssumption DEF Exists, End, Goto, books, InstTypeOK, Works, Pcs, WorkForm, Entries, PortOf
  <2>2. OnlyAt(t)
    BY <1>1, <1>2, <1>5, InstAssumption DEF Exists, End, Goto, books, InstTypeOK, Works, NoWork, OnlyAt, At
  <2>3. WorkForm(t)'
    <3>1. CASE work'[t] = NoWork
      BY <1>4, <3>1, Zenon
    <3>2. CASE work'[t] # NoWork
      <4>1. k.pc = "exists" /\ work'[t] = [k EXCEPT !.pc = "reserved"]
        BY <1>1, <1>5, <3>2, Zenon DEF Exists, End, Goto, InstTypeOK
      <4>2. QED
        BY <1>1, <4>1, Zenon DEF Works, WorkForm
    <3>3. QED
      BY <3>1, <3>2, Zenon
  <2>4. ASSUME "site" \notin mishaps' PROVE Halted(t)' /\ \A s \in At(t) : BackedBy(t, s)'
    BY <1>1, <1>2, <1>3, <1>5, <2>4, InstAssumption
    DEF Exists, End, Goto, books, InstTypeOK, Works, NoWork, WorkForm, Halted, BackedBy, Entries
  <2>5. ASSUME mishaps' = {} PROVE Current(t)' /\ \A s \in At(t) : LinedBy(t, s)'
    BY <1>1, <1>2, <1>3, <1>5, <2>5, InstAssumption
    DEF Exists, End, Goto, books, InstTypeOK, Works, NoWork, WorkForm, Current, LinedBy, Dirty, RuleSite, PortOf, Entries
  <2>6. QED
    BY <2>1, <2>2, <2>3, <2>4, <2>5, Elsewhere, Zenon
<1>6. CASE Reserve(t)
  <2>1. InstTypeOK'
    BY <1>1, <1>4, <1>6, InstAssumption DEF Reserve, End, Goto, books, InstTypeOK, Works, Pcs, WorkForm, Entries, PortOf
  <2>2. OnlyAt(t)
    BY <1>1, <1>2, <1>6, InstAssumption DEF Reserve, End, Goto, books, InstTypeOK, Works, NoWork, OnlyAt, At
  <2>3. WorkForm(t)'
    <3>1. CASE work'[t] = NoWork
      BY <1>4, <3>1, Zenon
    <3>2. CASE work'[t] # NoWork
      <4>1. k.pc = "reserved" /\ \E p \in Ports : work'[t] = [k EXCEPT !.pc = "persist", !.port = p]
        <5>1. CASE k.port # Absent
          <6>1. k.port \in Ports /\ work'[t] = [k EXCEPT !.pc = "persist"] /\ k.pc = "reserved"
            BY <1>1, <1>6, <3>2, <5>1, Zenon DEF Reserve, End, Goto, InstTypeOK, Works
          <6>2. [k EXCEPT !.pc = "persist"] = [k EXCEPT !.pc = "persist", !.port = k.port]
            BY <1>1, Zenon DEF Works
          <6>3. QED
            BY <6>1, <6>2, Zenon
        <5>2. CASE k.port = Absent
          BY <1>1, <1>6, <3>2, <5>2, Zenon DEF Reserve, End, InstTypeOK
        <5>3. QED
          BY <5>1, <5>2, ZenonT(30)
      <4>2. QED
        BY <1>1, <4>1, Zenon DEF Works, WorkForm
    <3>3. QED
      BY <3>1, <3>2, Zenon
  <2>4. ASSUME "site" \notin mishaps' PROVE Halted(t)' /\ \A s \in At(t) : BackedBy(t, s)'
    BY <1>1, <1>2, <1>3, <1>6, <2>4, InstAssumption
    DEF Reserve, End, Goto, books, InstTypeOK, Works, NoWork, WorkForm, Halted, BackedBy, Entries
  <2>5. ASSUME mishaps' = {} PROVE Current(t)' /\ \A s \in At(t) : LinedBy(t, s)'
    BY <1>1, <1>2, <1>3, <1>6, <2>5, InstAssumption
    DEF Reserve, End, Goto, books, InstTypeOK, Works, NoWork, WorkForm, Current, LinedBy, Dirty, RuleSite, PortOf, Entries
  <2>6. QED
    BY <2>1, <2>2, <2>3, <2>4, <2>5, Elsewhere, Zenon
<1>7. CASE Persist(t)
  <2>1. InstTypeOK'
    <3>1. k.site \in Owners /\ k.port \in Ports /\ k.on \in BOOLEAN
      BY <1>1, <1>7, Zenon DEF Persist, WorkForm, Works
    <3>2. [port |-> k.port, enabled |-> k.on] \in Entries /\ [Entry(k.site) EXCEPT !.port = k.port] \in Entries
      BY <1>0, <3>1, Zenon DEF Entries
    <3>3. instances' \in [Owners -> {Absent} \cup Entries]
      BY <1>1, <1>7, <3>2, Zenon DEF Persist, InstTypeOK
    <3>4. work' \in [All -> Works]
      BY <1>1, <1>4, <1>7 DEF Persist, End, Goto, InstTypeOK, Works, Pcs
    <3>5. QED
      BY <1>1, <1>7, <3>3, <3>4, Zenon DEF Persist, SaveFails, InstTypeOK
  <2>2. OnlyAt(t)
    BY <1>1, <1>2, <1>7, InstAssumption DEF Persist, End, Goto, SaveFails, Entry, books, InstTypeOK, Works, NoWork, OnlyAt, At
  <2>3. WorkForm(t)'
    <3>1. CASE work'[t] = NoWork
      BY <1>4, <3>1, Zenon
    <3>2. CASE work'[t] # NoWork
      <4>1. k.pc = "persist" /\ work'[t] = [k EXCEPT !.pc = IF k.op = "add" THEN "ensure" ELSE "unrule"]
        BY <1>1, <1>7, <3>2, Zenon DEF Persist, End, Goto, InstTypeOK
      <4>2. QED
        BY <1>1, <4>1, Zenon DEF Works, WorkForm
    <3>3. QED
      BY <3>1, <3>2, Zenon
  <2>4. ASSUME "site" \notin mishaps' PROVE Halted(t)' /\ \A s \in At(t) : BackedBy(t, s)'
    BY <1>1, <1>2, <1>3, <1>7, <2>4, InstAssumption
    DEF Persist, End, Goto, SaveFails, Entry, books, InstTypeOK, Works, NoWork, WorkForm, Halted, BackedBy, Entries
  <2>5. ASSUME mishaps' = {} PROVE Current(t)' /\ \A s \in At(t) : LinedBy(t, s)'
    BY <1>1, <1>2, <1>3, <1>7, <2>5, InstAssumption
    DEF Persist, End, Goto, SaveFails, Entry, books, InstTypeOK, Works, NoWork, WorkForm, Current, LinedBy, Dirty, RuleSite, PortOf, Entries
  <2>6. QED
    BY <2>1, <2>2, <2>3, <2>4, <2>5, Elsewhere, Zenon
<1>8. CASE Read(t)
  <2>1. InstTypeOK'
    <3>1. Entry(k.site).port \in Ports
      BY <1>0, <1>1, <1>8, Zenon DEF Read, WorkForm, Entries
    <3>2. QED
      BY <1>1, <1>8, <3>1, ZenonT(30) DEF Read, books, InstTypeOK, Works, Pcs
  <2>2. OnlyAt(t)
    BY <1>1, <1>2, <1>8, InstAssumption, Zenon DEF Read, Entry, books, InstTypeOK, Works, NoWork, OnlyAt, At
  <2>3. WorkForm(t)'
    BY <1>1, <1>8, InstAssumption, Zenon DEF Read, Entry, InstTypeOK, Works, NoWork, WorkForm, Entries
  <2>4. ASSUME "site" \notin mishaps' PROVE Halted(t)' /\ \A s \in At(t) : BackedBy(t, s)'
    BY <1>1, <1>2, <1>3, <1>8, <2>4, InstAssumption
    DEF Read, Entry, books, InstTypeOK, Works, NoWork, WorkForm, Halted, BackedBy, Entries
  <2>5. ASSUME mishaps' = {} PROVE Current(t)' /\ \A s \in At(t) : LinedBy(t, s)'
    BY <1>1, <1>2, <1>3, <1>8, <2>5, InstAssumption
    DEF Read, Entry, books, InstTypeOK, Works, NoWork, WorkForm, Current, LinedBy, Dirty, RuleSite, PortOf, Entries
  <2>6. QED
    BY <2>1, <2>2, <2>3, <2>4, <2>5, Elsewhere, Zenon
<1>9. CASE Ensure(t)
  <2>a. k.pc = "ensure" /\ k.site \in Owners /\ k.port \in Ports /\ k.port # Absent
    BY <1>1, <1>9, InstAssumption, ZenonT(30) DEF Ensure, WorkForm
  <2>b. PICK ok \in BOOLEAN :
          /\ Ensured(t, ok) /\ UNCHANGED <<instances, rule, mishaps, budget>>
          /\ \/ ~ok /\ running' = running /\ running[k.site] = Absent
             \/ ok /\ running' = running /\ running[k.site] # Absent
             \/ ok /\ running' = [running EXCEPT ![k.site] = k.port]
    BY <1>9, Zenon DEF Ensure, books
  <2>c. /\ work' = [work EXCEPT ![t] = work'[t]]
        /\ \/ t = AutoStart /\ work'[t] = [k EXCEPT !.pc = "next"]
           \/ t # AutoStart /\ ok /\ work'[t] = [k EXCEPT !.pc = "record"]
           \/ t # AutoStart /\ ~ok /\ k.op = "add" /\ work'[t] = [k EXCEPT !.pc = "unrule"]
           \/ t # AutoStart /\ ~ok /\ k.op # "add" /\ work'[t] = NoWork
    BY <1>1, <2>b, Zenon DEF Ensured, End, Goto, InstTypeOK
  <2>1. InstTypeOK'
    <3>1. running' \in [Owners -> Ports \cup {Absent}]
      BY <1>1, <2>a, <2>b, Zenon DEF InstTypeOK
    <3>2. work'[t] \in Works
      BY <1>1, <1>4, <2>c DEF Works, Pcs
    <3>3. QED
      BY <1>1, <2>b, <2>c, <3>1, <3>2, Zenon DEF InstTypeOK
  <2>2. OnlyAt(t)
    BY <1>1, <1>2, <2>a, <2>b, <2>c, InstAssumption DEF books, InstTypeOK, Works, NoWork, OnlyAt, At
  <2>3. WorkForm(t)'
    BY <1>1, <2>a, <2>b, <2>c, InstAssumption DEF InstTypeOK, Works, NoWork, WorkForm, Entries
  <2>d. /\ \A s \in Owners \ {k.site} : running'[s] = running[s]
        /\ k.site \in At(t) /\ work'[t] # NoWork => work'[t].site = k.site /\ work'[t].op = k.op
        /\ \A s \in At(t) : s \in Owners
    BY <1>1, <1>2, <2>a, <2>b, <2>c, SiteFacts DEF InstTypeOK, Works
  <2>4. ASSUME "site" \notin mishaps' PROVE Halted(t)' /\ \A s \in At(t) : BackedBy(t, s)'
    <3>1. Halted(t) /\ \A s \in At(t) : BackedBy(t, s)
      BY <1>3, <2>b, <2>4, Zenon
    <3>2. Halted(t)'
      BY <1>1, <2>a, <2>b, <2>c, <3>1 DEF Halted, Works, NoWork
    <3>3. \A s \in At(t) \ {k.site} : BackedBy(t, s)'
      BY <2>a, <2>b, <2>d, <3>1, Zenon DEF BackedBy
    <3>4. ASSUME NEW s \in Owners, s = k.site PROVE BackedBy(t, s)'
      <4>1. CASE t = AutoStart
        BY <1>1, <2>a, <2>b, <3>1, <3>4, <4>1, Zenon DEF BackedBy, Halted, WorkForm
      <4>2. CASE t # AutoStart /\ ok
        BY <1>1, <2>c, <3>4, <4>2, Zenon DEF BackedBy, Works
      <4>3. CASE t # AutoStart /\ ~ok
        BY <2>b, <3>4, <4>3, Zenon DEF BackedBy
      <4>4. QED
        BY <4>1, <4>2, <4>3, Zenon
    <3>5. QED
      BY <2>d, <3>2, <3>3, <3>4, Zenon
  <2>5. ASSUME mishaps' = {} PROVE Current(t)' /\ \A s \in At(t) : LinedBy(t, s)'
    <3>1. Current(t) /\ \A s \in At(t) : LinedBy(t, s)
      BY <1>3, <2>b, <2>5, Zenon
    <3>2. \A s \in Owners : PortOf(s)' = PortOf(s)
      BY <2>b, Zenon DEF PortOf
    <3>3. k.op # "auto" => PortOf(k.site) = k.port
      BY <2>a, <3>1, Zenon DEF Current
    <3>4. k.op = "auto" <=> t = AutoStart
      BY <1>1, <2>a, Zenon DEF WorkForm
    <3>5. CASE work'[t] = [k EXCEPT !.pc = "next"] /\ t = AutoStart
      <4>1. work'[t].pc = "next" /\ Dirty(t) = {}
        BY <1>1, <2>a, <3>4, <3>5, Zenon DEF Works, Dirty
      <4>2. Current(t)'
        BY <4>1, Zenon DEF Current
      <4>3. QED
        BY <2>b, <2>d, <3>1, <3>2, <4>1, <4>2, Zenon DEF LinedBy
    <3>6. CASE work'[t] = [k EXCEPT !.pc = "record"] /\ t # AutoStart
      <4>1. Current(t)'
        BY <1>1, <2>a, <2>b, <3>1, <3>2, <3>3, <3>4, <3>6 DEF Works, Current
      <4>2. Dirty(t)' = Dirty(t)
        BY <1>1, <2>a, <3>6, Zenon DEF Works, Dirty
      <4>3. QED
        BY <2>b, <3>1, <3>2, <2>d, <4>1, <4>2, Zenon DEF LinedBy
    <3>7. CASE work'[t] = [k EXCEPT !.pc = "unrule"] /\ k.op = "add"
      <4>1. RuleSite(t)' = k.site /\ Dirty(t)' = {k.site} /\ Dirty(t) = {k.site}
        BY <1>1, <2>a, <3>7, Zenon DEF Works, Dirty, RuleSite
      <4>2. Current(t)'
        BY <1>1, <2>a, <2>b, <3>2, <3>3, <3>7, <4>1, Zenon DEF Works, Current
      <4>3. QED
        BY <2>b, <3>1, <3>2, <2>d, <4>1, <4>2, Zenon DEF LinedBy
    <3>8. CASE work'[t] = NoWork /\ t # AutoStart /\ k.op # "add"
      <4>1. Dirty(t) = {}
        BY <2>a, <3>8, Zenon DEF Dirty
      <4>2. QED
        BY <2>b, <2>d, <3>1, <3>2, <3>8, <4>1, Ended, Zenon DEF LinedBy
    <3>9. QED
      BY <2>c, <3>5, <3>6, <3>7, <3>8, Zenon
  <2>6. QED
    BY <2>1, <2>2, <2>3, <2>4, <2>5, Elsewhere, Zenon
<1>10. CASE Record(t)
  <2>1. InstTypeOK'
    <3>1. [Entry(k.site) EXCEPT !.port = k.port] \in Entries
      BY <1>0, <1>1, <1>10, Zenon DEF Record, WorkForm, Entries
    <3>2. instances' \in [Owners -> {Absent} \cup Entries]
      BY <1>1, <1>10, <3>1, Zenon DEF Record, InstTypeOK
    <3>3. QED
      BY <1>1, <1>4, <1>10, <3>2 DEF Record, End, Goto, books, InstTypeOK, Works, Pcs
  <2>2. OnlyAt(t)
    BY <1>1, <1>2, <1>10, InstAssumption DEF Record, Entry, End, Goto, books, InstTypeOK, Works, NoWork, OnlyAt, At
  <2>3. WorkForm(t)'
    <3>1. CASE work'[t] = NoWork
      BY <1>4, <3>1, Zenon
    <3>2. CASE work'[t] # NoWork
      <4>1. k.pc = "record" /\ work'[t] = [k EXCEPT !.pc = "unrule"] /\ k.op = "add"
        BY <1>1, <1>10, <3>2, Zenon DEF Record, End, Goto, InstTypeOK
      <4>2. QED
        BY <1>1, <4>1, Zenon DEF Works, WorkForm
    <3>3. QED
      BY <3>1, <3>2, Zenon
  <2>4. ASSUME "site" \notin mishaps' PROVE Halted(t)' /\ \A s \in At(t) : BackedBy(t, s)'
    <3>1. Halted(t) /\ \A s \in At(t) : BackedBy(t, s)
      BY <1>3, <1>10, <2>4, Zenon DEF Record, books
    <3>2. k.todo = {} /\ k.site \in Owners /\ k.pc = "record" /\ UNCHANGED <<running, rule>>
      BY <1>1, <1>10, Zenon DEF Record, WorkForm
    <3>3. instances' = [instances EXCEPT ![k.site] = instances'[k.site]] /\ instances'[k.site] # Absent
      <4>1. instances' = [instances EXCEPT ![k.site] = [Entry(k.site) EXCEPT !.port = k.port]]
        BY <1>10, Zenon DEF Record
      <4>2. [Entry(k.site) EXCEPT !.port = k.port] \in Entries
        BY <1>0, <1>1, <1>10, Zenon DEF Record, WorkForm, Entries
      <4>3. Absent \notin Entries
        BY InstAssumption, Zenon DEF Entries
      <4>4. QED
        BY <1>1, <3>2, <4>1, <4>2, <4>3, Zenon DEF InstTypeOK
    <3>4. \A s \in At(t) : BackedBy(t, s)'
      <4>1. \A s \in At(t) : s # k.site => instances'[s] = instances[s]
        BY <1>1, <3>3, SiteFacts, Zenon DEF InstTypeOK
      <4>2. QED
        BY <3>1, <3>2, <3>3, <4>1, Zenon DEF BackedBy
    <3>5. work'[t].todo = {} /\ work'[t].pc \in {"idle", "unrule"}
      BY <1>1, <1>10, <3>2 DEF Record, End, Goto, InstTypeOK, Works, NoWork
    <3>6. QED
      BY <3>4, <3>5, Zenon DEF Halted
  <2>5. ASSUME mishaps' = {} PROVE Current(t)' /\ \A s \in At(t) : LinedBy(t, s)'
    BY <1>1, <1>2, <1>3, <1>10, <2>5, InstAssumption
    DEF Record, Entry, End, Goto, books, InstTypeOK, Works, NoWork, WorkForm, Current, LinedBy, Dirty, RuleSite, PortOf, Entries
  <2>6. QED
    BY <2>1, <2>2, <2>3, <2>4, <2>5, Elsewhere, Zenon
<1>11. CASE Check(t)
  <2>1. InstTypeOK'
    BY <1>1, <1>4, <1>11, InstAssumption DEF Check, End, Goto, books, InstTypeOK, Works, Pcs, WorkForm, Entries, PortOf
  <2>2. OnlyAt(t)
    BY <1>1, <1>2, <1>11, InstAssumption DEF Check, End, Goto, books, InstTypeOK, Works, NoWork, OnlyAt, At
  <2>3. WorkForm(t)'
    <3>1. CASE work'[t] = NoWork
      BY <1>4, <3>1, Zenon
    <3>2. CASE work'[t] # NoWork
      <4>1. k.pc = "check" /\ work'[t] = [k EXCEPT !.pc = "halt"]
        BY <1>1, <1>11, <3>2, Zenon DEF Check, End, Goto, InstTypeOK
      <4>2. QED
        BY <1>1, <4>1, Zenon DEF Works, WorkForm
    <3>3. QED
      BY <3>1, <3>2, Zenon
  <2>4. ASSUME "site" \notin mishaps' PROVE Halted(t)' /\ \A s \in At(t) : BackedBy(t, s)'
    BY <1>1, <1>2, <1>3, <1>11, <2>4, InstAssumption
    DEF Check, End, Goto, books, InstTypeOK, Works, NoWork, WorkForm, Halted, BackedBy, Entries
  <2>5. ASSUME mishaps' = {} PROVE Current(t)' /\ \A s \in At(t) : LinedBy(t, s)'
    BY <1>1, <1>2, <1>3, <1>11, <2>5, InstAssumption
    DEF Check, End, Goto, books, InstTypeOK, Works, NoWork, WorkForm, Current, LinedBy, Dirty, RuleSite, PortOf, Entries
  <2>6. QED
    BY <2>1, <2>2, <2>3, <2>4, <2>5, Elsewhere, Zenon
<1>12. CASE Halt(t)
  <2>a. k.pc = "halt" /\ k.site \in Owners /\ k.op \in {"remove", "site", "restart", "stop"} /\ t # AutoStart
    BY <1>1, <1>12, Zenon DEF Halt, WorkForm
  <2>b. running' = [running EXCEPT ![k.site] = Absent] /\ UNCHANGED <<instances, rule, mishaps, budget>>
    BY <1>12, Zenon DEF Halt, books
  <2>c. /\ work' = [work EXCEPT ![t] = work'[t]]
        /\ \/ k.op = "remove" /\ work'[t] = [k EXCEPT !.pc = "drop"]
           \/ k.op = "site" /\ work'[t] = [k EXCEPT !.pc = "move"]
           \/ k.op = "restart" /\ work'[t] = [k EXCEPT !.pc = "read"]
           \/ k.op = "stop" /\ work'[t] = NoWork
    BY <1>1, <1>12, <2>a, Zenon DEF Halt, AfterHalt, End, Goto, InstTypeOK
  <2>1. InstTypeOK'
    BY <1>1, <1>4, <2>a, <2>b, <2>c, InstAssumption DEF books, InstTypeOK, Works, Pcs, WorkForm, Entries, PortOf
  <2>2. OnlyAt(t)
    BY <1>1, <1>2, <2>a, <2>b, <2>c, InstAssumption DEF books, InstTypeOK, Works, NoWork, OnlyAt, At
  <2>3. WorkForm(t)'
    BY <1>1, <2>a, <2>b, <2>c, InstAssumption DEF InstTypeOK, Works, NoWork, WorkForm, Entries
  <2>4. ASSUME "site" \notin mishaps' PROVE Halted(t)' /\ \A s \in At(t) : BackedBy(t, s)'
    BY <1>1, <1>2, <1>3, <2>a, <2>b, <2>c, <2>4, InstAssumption
    DEF InstTypeOK, Works, NoWork, WorkForm, Halted, BackedBy, Entries
  <2>5. ASSUME mishaps' = {} PROVE Current(t)' /\ \A s \in At(t) : LinedBy(t, s)'
    BY <1>1, <1>2, <1>3, <2>a, <2>b, <2>c, <2>5, InstAssumption
    DEF InstTypeOK, Works, NoWork, WorkForm, Current, LinedBy, Dirty, RuleSite, PortOf, Entries
  <2>6. QED
    BY <2>1, <2>2, <2>3, <2>4, <2>5, Elsewhere, Zenon
<1>13. CASE Drop(t)
  <2>1. InstTypeOK'
    BY <1>1, <1>4, <1>13, InstAssumption DEF Drop, Goto, books, InstTypeOK, Works, Pcs, WorkForm, Entries, PortOf
  <2>2. OnlyAt(t)
    BY <1>1, <1>2, <1>13, InstAssumption, Zenon DEF Drop, Goto, books, InstTypeOK, Works, NoWork, OnlyAt, At
  <2>3. WorkForm(t)'
    BY <1>1, <1>13, InstAssumption, Zenon DEF Drop, Goto, InstTypeOK, Works, NoWork, WorkForm, Entries
  <2>4. ASSUME "site" \notin mishaps' PROVE Halted(t)' /\ \A s \in At(t) : BackedBy(t, s)'
    BY <1>1, <1>2, <1>3, <1>13, <2>4, InstAssumption
    DEF Drop, Goto, books, InstTypeOK, Works, NoWork, WorkForm, Halted, BackedBy, Entries
  <2>5. ASSUME mishaps' = {} PROVE Current(t)' /\ \A s \in At(t) : LinedBy(t, s)'
    BY <1>1, <1>2, <1>3, <1>13, <2>5, InstAssumption
    DEF Drop, Goto, books, InstTypeOK, Works, NoWork, WorkForm, Current, LinedBy, Dirty, RuleSite, PortOf, Entries
  <2>6. QED
    BY <2>1, <2>2, <2>3, <2>4, <2>5, Elsewhere, Zenon
<1>14. CASE Move(t)
  <2>1. InstTypeOK'
    <3>1. k.site \in Owners /\ k.new \in Owners
      BY <1>1, <1>14, Zenon DEF Move, WorkForm
    <3>2. instances' \in [Owners -> {Absent} \cup Entries]
      BY <1>1, <1>14, <3>1, Zenon DEF Move, InstTypeOK
    <3>3. work' \in [All -> Works]
      BY <1>1, <1>4, <1>14 DEF Move, End, Goto, InstTypeOK, Works, Pcs
    <3>4. mishaps' \subseteq {"site", "unlisted", "save"} /\ UNCHANGED <<running, rule, budget>>
      BY <1>1, <1>14, Zenon DEF Move, SaveFails, InstTypeOK
    <3>5. QED
      BY <1>1, <3>2, <3>3, <3>4, Zenon DEF InstTypeOK
  <2>2. OnlyAt(t)
    BY <1>1, <1>2, <1>14, InstAssumption DEF Move, End, Goto, SaveFails, books, InstTypeOK, Works, NoWork, OnlyAt, At
  <2>3. WorkForm(t)'
    <3>1. CASE work'[t] = NoWork
      BY <1>4, <3>1, Zenon
    <3>2. CASE work'[t] # NoWork
      <4>1. k.pc = "move" /\ work'[t] = [k EXCEPT !.pc = "target"]
        BY <1>1, <1>14, <3>2, Zenon DEF Move, End, Goto, InstTypeOK
      <4>2. QED
        BY <1>1, <4>1, Zenon DEF Works, WorkForm
    <3>3. QED
      BY <3>1, <3>2, Zenon
  <2>4. ASSUME "site" \notin mishaps' PROVE Halted(t)' /\ \A s \in At(t) : BackedBy(t, s)'
    BY <1>1, <1>2, <1>3, <1>14, <2>4, InstAssumption
    DEF Move, End, Goto, SaveFails, books, InstTypeOK, Works, NoWork, WorkForm, Halted, BackedBy, Entries
  <2>5. ASSUME mishaps' = {} PROVE Current(t)' /\ \A s \in At(t) : LinedBy(t, s)'
    <3>1. /\ k.pc = "move" /\ k.op = "site" /\ k.site \in Owners /\ k.new \in Owners /\ UNCHANGED <<mishaps, rule>>
          /\ work'[t] = [k EXCEPT !.pc = "target"]
      BY <1>1, <1>14, <2>5, Zenon DEF Move, Goto, SaveFails, WorkForm, InstTypeOK
    <3>2. /\ work'[t].pc = "target" /\ work'[t].op = "site" /\ work'[t].site = k.site /\ work'[t].new = k.new
      BY <1>1, <3>1, Zenon DEF Works
    <3>3. Current(t) /\ \A s \in At(t) : LinedBy(t, s)
      BY <1>3, <2>5, <3>1, Zenon
    <3>4. instances[k.site] # Absent /\ instances[k.new] = Absent
      BY <3>1, <3>3, Zenon DEF Current
    <3>5. instances' = [instances EXCEPT ![k.site] = Absent, ![k.new] = instances[k.site]]
      BY <1>14, <3>4, Zenon DEF Move
    <3>6. instances'[k.site] = Absent /\ instances'[k.new] # Absent /\ k.site # k.new
      BY <1>1, <3>1, <3>4, <3>5, Zenon DEF InstTypeOK
    <3>7. Current(t)'
      BY <3>2, <3>6, Zenon DEF Current
    <3>8. Dirty(t)' = {k.site, k.new} /\ Dirty(t) = {}
      BY <3>1, <3>2, Zenon DEF Dirty
    <3>9. \A s \in Owners \ {k.site, k.new} : PortOf(s)' = PortOf(s)
      BY <1>1, <3>1, <3>5, Zenon DEF InstTypeOK, PortOf
    <3>10. \A s \in At(t) : LinedBy(t, s)'
      BY <1>1, <3>1, <3>3, <3>8, <3>9, SiteFacts, Zenon DEF LinedBy
    <3>11. QED
      BY <3>7, <3>10, Zenon
  <2>6. QED
    BY <2>1, <2>2, <2>3, <2>4, <2>5, Elsewhere, Zenon
<1>15. CASE Target(t)
  <2>1. InstTypeOK'
    <3>1. Entry(k.new).port \in Ports
      BY <1>0, <1>1, <1>15, Zenon DEF Target, WorkForm, Entries
    <3>2. QED
      BY <1>1, <1>15, <3>1, Zenon DEF Target, books, InstTypeOK, Works, Pcs
  <2>2. OnlyAt(t)
    BY <1>1, <1>2, <1>15, InstAssumption, Zenon DEF Target, Entry, books, InstTypeOK, Works, NoWork, OnlyAt, At
  <2>3. WorkForm(t)'
    BY <1>1, <1>15, InstAssumption, Zenon DEF Target, Entry, InstTypeOK, Works, NoWork, WorkForm, Entries
  <2>4. ASSUME "site" \notin mishaps' PROVE Halted(t)' /\ \A s \in At(t) : BackedBy(t, s)'
    BY <1>1, <1>2, <1>3, <1>15, <2>4, InstAssumption
    DEF Target, Entry, books, InstTypeOK, Works, NoWork, WorkForm, Halted, BackedBy, Entries
  <2>5. ASSUME mishaps' = {} PROVE Current(t)' /\ \A s \in At(t) : LinedBy(t, s)'
    <3>1. Current(t) /\ \A s \in At(t) : LinedBy(t, s)
      BY <1>3, <1>15, <2>5, Zenon DEF Target, books
    <3>2. k.pc = "target" /\ k.op = "site" /\ k.new \in Owners /\ UNCHANGED <<instances, rule>>
      BY <1>1, <1>15, Zenon DEF Target, WorkForm
    <3>3. \A s \in Owners : PortOf(s)' = PortOf(s)
      BY <3>2, Zenon DEF PortOf
    <3>4. work'[t] = [k EXCEPT !.pc = "unlink", !.port = Entry(k.new).port]
      BY <1>1, <1>15, Zenon DEF Target, InstTypeOK
    <3>5. instances[k.new] # Absent => PortOf(k.new) = Entry(k.new).port
      BY Zenon DEF PortOf, Entry
    <3>6. Dirty(t)' = Dirty(t)
      BY <1>1, <3>2, <3>4, Zenon DEF Works, Dirty
    <3>7. instances[k.new] # Absent
      BY <3>1, <3>2, Zenon DEF Current
    <3>8. Current(t)'
      BY <1>1, <3>1, <3>2, <3>3, <3>4, <3>5, <3>7 DEF Works, Current
    <3>9. QED
      BY <1>1, <3>1, <3>2, <3>3, <3>6, <3>8, SiteFacts, Zenon DEF LinedBy
  <2>6. QED
    BY <2>1, <2>2, <2>3, <2>4, <2>5, Elsewhere, Zenon
<1>16. CASE Unlink(t)
  <2>1. InstTypeOK'
    BY <1>1, <1>4, <1>16, InstAssumption DEF Unlink, Ruled, SaveFails, Goto, books, InstTypeOK, Works, Pcs, WorkForm, Entries, PortOf
  <2>2. OnlyAt(t)
    BY <1>1, <1>2, <1>16, InstAssumption, Zenon DEF Unlink, Ruled, SaveFails, Goto, books, InstTypeOK, Works, NoWork, OnlyAt, At
  <2>3. WorkForm(t)'
    BY <1>1, <1>16, InstAssumption, Zenon DEF Unlink, Ruled, SaveFails, Goto, InstTypeOK, Works, NoWork, WorkForm, Entries
  <2>4. ASSUME "site" \notin mishaps' PROVE Halted(t)' /\ \A s \in At(t) : BackedBy(t, s)'
    BY <1>1, <1>2, <1>3, <1>16, <2>4, InstAssumption
    DEF Unlink, Ruled, SaveFails, Goto, books, InstTypeOK, Works, NoWork, WorkForm, Halted, BackedBy, Entries
  <2>5. ASSUME mishaps' = {} PROVE Current(t)' /\ \A s \in At(t) : LinedBy(t, s)'
    BY <1>1, <1>2, <1>3, <1>16, <2>5, InstAssumption
    DEF Unlink, Ruled, SaveFails, Goto, books, InstTypeOK, Works, NoWork, WorkForm, Current, LinedBy, Dirty, RuleSite, PortOf, Entries
  <2>6. QED
    BY <2>1, <2>2, <2>3, <2>4, <2>5, Elsewhere, Zenon
<1>17. CASE Unrule(t)
  <2>1. InstTypeOK'
    BY <1>1, <1>4, <1>17, InstAssumption DEF Unrule, Ruled, SaveFails, End, Goto, RuleSite, books, InstTypeOK, Works, Pcs, WorkForm, Entries, PortOf
  <2>2. OnlyAt(t)
    BY <1>1, <1>2, <1>17, InstAssumption DEF Unrule, Ruled, SaveFails, End, Goto, RuleSite, books, InstTypeOK, Works, NoWork, OnlyAt, At
  <2>3. WorkForm(t)'
    <3>1. CASE work'[t] = NoWork
      BY <1>4, <3>1, Zenon
    <3>2. CASE work'[t] # NoWork
      <4>1. k.pc = "unrule" /\ work'[t] = [k EXCEPT !.pc = "rule"] /\ k.op # "remove"
        BY <1>1, <1>17, <3>2, Zenon DEF Unrule, End, Goto, InstTypeOK
      <4>2. QED
        BY <1>1, <4>1, Zenon DEF Works, WorkForm
    <3>3. QED
      BY <3>1, <3>2, Zenon
  <2>4. ASSUME "site" \notin mishaps' PROVE Halted(t)' /\ \A s \in At(t) : BackedBy(t, s)'
    BY <1>1, <1>2, <1>3, <1>17, <2>4, InstAssumption
    DEF Unrule, Ruled, SaveFails, End, Goto, RuleSite, books, InstTypeOK, Works, NoWork, WorkForm, Halted, BackedBy, Entries
  <2>5. ASSUME mishaps' = {} PROVE Current(t)' /\ \A s \in At(t) : LinedBy(t, s)'
    BY <1>1, <1>2, <1>3, <1>17, <2>5, InstAssumption
    DEF Unrule, Ruled, SaveFails, End, Goto, RuleSite, books, InstTypeOK, Works, NoWork, WorkForm, Current, LinedBy, Dirty, PortOf, Entries
  <2>6. QED
    BY <2>1, <2>2, <2>3, <2>4, <2>5, Elsewhere, Zenon
<1>18. CASE AddRule(t)
  <2>1. InstTypeOK'
    <3>1. RuleSite(t) \in Owners /\ k.port \in Ports \cup {Absent}
      BY <1>1, <1>18, Zenon DEF AddRule, WorkForm, RuleSite, Works
    <3>2. rule' \in [Owners -> Ports \cup {Absent}] /\ mishaps' \subseteq {"site", "unlisted", "save"}
      BY <1>1, <1>18, <3>1, Zenon DEF AddRule, Ruled, SaveFails, InstTypeOK
    <3>3. work' \in [All -> Works] /\ UNCHANGED <<instances, running, budget>>
      BY <1>1, <1>4, <1>18, Zenon DEF AddRule, End, InstTypeOK
    <3>4. QED
      BY <1>1, <3>2, <3>3, Zenon DEF InstTypeOK
  <2>2. OnlyAt(t)
    BY <1>1, <1>2, <1>18, InstAssumption DEF AddRule, Ruled, SaveFails, End, RuleSite, books, InstTypeOK, Works, NoWork, OnlyAt, At
  <2>3. WorkForm(t)'
    BY <1>1, <1>18, Ended, Zenon DEF AddRule, End, InstTypeOK
  <2>4. ASSUME "site" \notin mishaps' PROVE Halted(t)' /\ \A s \in At(t) : BackedBy(t, s)'
    <3>1. k.pc = "rule" /\ UNCHANGED <<instances, running>> /\ work'[t] = NoWork /\ mishaps \subseteq mishaps'
      BY <1>1, <1>18, Zenon DEF AddRule, Ruled, SaveFails, End, InstTypeOK
    <3>2. \A s \in At(t) : BackedBy(t, s)'
      BY <1>3, <2>4, <3>1, Zenon DEF BackedBy
    <3>3. QED
      BY <3>1, <3>2, Ended, Zenon
  <2>5. ASSUME mishaps' = {} PROVE Current(t)' /\ \A s \in At(t) : LinedBy(t, s)'
    <3>1. Current(t) /\ \A s \in At(t) : LinedBy(t, s)
      BY <1>3, <1>18, <2>5, ZenonT(30) DEF AddRule, Ruled, SaveFails
    <3>2. k.pc = "rule" /\ RuleSite(t) \in Owners /\ UNCHANGED instances /\ work'[t] = NoWork
      BY <1>1, <1>18, ZenonT(30) DEF AddRule, End, InstTypeOK, WorkForm, RuleSite
    <3>3. rule[RuleSite(t)] = Absent /\ PortOf(RuleSite(t)) = IF k.op = "remove" THEN Absent ELSE k.port
      BY <3>1, <3>2, ZenonT(30) DEF Current
    <3>4. rule' = [rule EXCEPT ![RuleSite(t)] = k.port]
      BY <1>18, <2>5, <3>3, ZenonT(30) DEF AddRule, Ruled, SaveFails
    <3>5. k.op # "remove"
      BY <1>1, <3>2, Zenon DEF WorkForm
    <3>6. \A s \in Owners : PortOf(s)' = PortOf(s)
      BY <3>2, Zenon DEF PortOf
    <3>7. Dirty(t) = {RuleSite(t)}
      BY <3>2, Zenon DEF Dirty
    <3>8. \A s \in At(t) : LinedBy(t, s)'
      BY <1>1, <3>1, <3>2, <3>3, <3>4, <3>5, <3>6, <3>7, SiteFacts, Zenon DEF LinedBy, InstTypeOK
    <3>9. QED
      BY <3>2, <3>8, Ended, ZenonT(30)
  <2>6. QED
    BY <2>1, <2>2, <2>3, <2>4, <2>5, Elsewhere, Zenon
<1>19. QED
  BY <1>5, <1>6, <1>7, <1>8, <1>9, <1>10, <1>11, <1>12, <1>13, <1>14, <1>15, <1>16, <1>17, <1>18, Zenon DEF WorkStep

\* A request begins: it was noted if another task is at work on its sites, or if
\* it names an instance that is not configured.
LEMMA RequestKeeps ==
    ASSUME InstInv, NEW t \in Workers, NEW op \in WorkOps, NEW pc \in Pcs, NEW s \in Owners,
           NEW new \in Owners \cup {Absent}, NEW p \in Ports \cup {Absent}, NEW on \in BOOLEAN,
           request(t, op, pc, s, new, p, on),
           op = "port" => p \in Ports, op = "site" => new \in Owners,
           <<op, pc>> \in {<<"add", "exists">>, <<"remove", "halt">>, <<"port", "reserved">>, <<"site", "check">>,
                           <<"start", "read">>, <<"restart", "halt">>, <<"stop", "halt">>}
    PROVE  InstInv'
<1> DEFINE r == [NoWork EXCEPT !.pc = pc, !.op = op, !.site = s, !.new = new, !.port = p, !.on = on]
<1>1. InstTypeOK /\ t \in All /\ t # AutoStart /\ work[t].pc = "idle" /\ work[t] = NoWork
  BY InstAssumption, Zenon DEF InstInv, All, request, WorkForm
<1>2. work' = [work EXCEPT ![t] = r] /\ UNCHANGED <<instances, running, rule>> /\ r \in Works
  <2>1. NoWork \in Works
    BY InstAssumption, Zenon DEF NoWork, Works, Pcs, WorkOps
  <2>2. r \in Works
    BY <2>1, ZenonT(30) DEF Works
  <2>3. QED
    BY <2>2, Zenon DEF request
<1>a. r.pc = pc /\ r.op = op /\ r.site = s /\ r.new = new /\ r.port = p /\ r.todo = {}
  BY Zenon DEF NoWork
<1> HIDE DEF r
<1>3. work'[t] = r /\ \A u \in All \ {t} : work'[u] = work[u]
  BY <1>1, <1>2, Zenon DEF InstTypeOK
<1>4. /\ mishaps \subseteq mishaps' /\ mishaps' \subseteq {"site", "unlisted", "save"} /\ budget' \in 0 .. MaxWork
      /\ "site" \notin mishaps' => \A u \in All : At(u) \cap {s, new} = {}
      /\ "unlisted" \notin mishaps' => op = "add" \/ instances[s] # Absent
  BY <1>1, InstAssumption DEF request, Noted, InstTypeOK
<1>5. InstTypeOK'
  BY <1>1, <1>2, <1>4, Zenon DEF InstTypeOK
<1>6. pc \in {"exists", "halt", "reserved", "check", "read"} /\ op # "auto"
  BY Zenon
<1>7. /\ At(t)' \subseteq {s, new} /\ Dirty(t) = {} /\ Dirty(t)' = {}
  BY <1>1, <1>3, <1>6, <1>a, Zenon DEF At, Dirty, NoWork
<1>8. \A u \in All \ {t} : At(u)' = At(u) /\ Dirty(u)' = Dirty(u)
  BY <1>3, Zenon DEF At, Dirty, RuleSite
<1>9. \A u \in All : WorkForm(u)'
  <2>1. WorkForm(t)'
    BY <1>1, <1>3, <1>a, Zenon DEF WorkForm
  <2>2. ASSUME NEW u \in All \ {t} PROVE WorkForm(u)'
    BY <1>3, Zenon DEF WorkForm, InstInv
  <2>3. QED
    BY <2>1, <2>2, Zenon
<1>10. Apart'
  <2> SUFFICES ASSUME "site" \notin mishaps', NEW u \in All, NEW w \in All, u # w PROVE At(u)' \cap At(w)' = {}
    BY Zenon DEF Apart
  <2>1. "site" \notin mishaps /\ \A o \in All : At(o) \cap {s, new} = {}
    BY <1>4, Zenon
  <2>2. At(u) \cap At(w) = {}
    BY <2>1, Zenon DEF Apart, InstInv
  <2>3. QED
    BY <1>7, <1>8, <2>1, <2>2
<1>11. NoStray'
  <2> SUFFICES ASSUME "site" \notin mishaps'
               PROVE  (\A o \in Owners : \E u \in All : BackedBy(u, o)') /\ \A u \in All : Halted(u)'
    BY Zenon DEF NoStray
  <2>1. /\ \A o \in Owners : \E u \in All : BackedBy(u, o)
        /\ \A u \in All : Halted(u)
    BY <1>4, Zenon DEF InstInv, NoStray
  <2>2. \A o \in Owners, u \in All : BackedBy(u, o) => BackedBy(u, o)'
    BY <1>1, <1>2, <1>3, Zenon DEF BackedBy, NoWork
  <2>3. Halted(t)'
    BY <1>3, <1>6, <1>a, Zenon DEF Halted
  <2>4. \A u \in All \ {t} : Halted(u)'
    BY <1>2, <1>3, <2>1, Zenon DEF Halted
  <2>5. QED
    BY <2>1, <2>2, <2>3, <2>4, Zenon
<1>12. Following'
  <2> SUFFICES ASSUME mishaps' = {}
               PROVE  (\A o \in Owners : \E u \in All : LinedBy(u, o)') /\ \A u \in All : Current(u)'
    BY Zenon DEF Following
  <2>1. /\ \A o \in Owners : \E u \in All : LinedBy(u, o)
        /\ \A u \in All : Current(u)
    BY <1>4, Zenon DEF InstInv, Following
  <2>2. \A o \in Owners : PortOf(o)' = PortOf(o)
    BY <1>2, Zenon DEF PortOf
  <2>3. \A o \in Owners, u \in All : LinedBy(u, o) => LinedBy(u, o)'
    BY <1>2, <1>7, <1>8, <2>2, Zenon DEF LinedBy
  <2>4. Current(t)'
    BY <1>2, <1>3, <1>4, <1>6, <1>a, ZenonT(30) DEF Current
  <2>5. ASSUME NEW u \in All \ {t} PROVE Current(u)'
    <3>1. Current(u) /\ work'[u] = work[u] /\ RuleSite(u)' = RuleSite(u)
      BY <1>3, <2>1, Zenon DEF RuleSite
    <3>2. UNCHANGED <<instances, rule>>
      BY <1>2, Zenon
    <3>3. QED
      BY <3>1, <3>2, Zenon DEF Current, PortOf
  <2>6. QED
    BY <2>1, <2>3, <2>4, <2>5, Zenon
<1>13. QED
  BY <1>5, <1>9, <1>10, <1>11, <1>12, Zenon DEF InstInv

\* The boot auto-start.
LEMMA AutoStartKeeps == ASSUME InstInv, List \/ start_one PROVE InstInv'
<1> DEFINE t == AutoStart
           k == work[t]
<1>1. InstTypeOK /\ WorkForm(t) /\ k \in Works /\ t \in All
  BY SiteFacts, Zenon DEF InstInv, All
<1>2. /\ "site" \notin mishaps => Halted(t) /\ \A s \in At(t) : BackedBy(t, s)
      /\ mishaps = {} => Current(t) /\ \A s \in At(t) : LinedBy(t, s)
  BY <1>1, Mine, Zenon
<1>3. /\ UNCHANGED <<instances, running, rule, mishaps, budget>> /\ k.pc \in {"list", "next"} /\ k.op = "auto"
      /\ \A s \in Owners : PortOf(s)' = PortOf(s)
  BY <1>1, ZenonT(30) DEF List, start_one, books, WorkForm, PortOf
<1>4. /\ work' = [work EXCEPT ![t] = work'[t]]
      /\ \/ k.pc = "list" /\ work'[t] = [k EXCEPT !.pc = "next",
                                                  !.todo = {s \in Owners : instances[s] # Absent /\ Entry(s).enabled}]
         \/ k.pc = "next" /\ work'[t] = NoWork
         \/ /\ k.pc = "next"
            /\ \E s \in k.todo : work'[t] = [k EXCEPT !.pc = "ensure", !.site = s, !.port = Entry(s).port,
                                                     !.todo = k.todo \ {s}]
  BY <1>1, Zenon DEF List, start_one, End, InstTypeOK
<1>5. NoWork \in Works /\ (work'[t] = NoWork => WorkForm(t)')
  BY NoWorkTyped, Ended, Zenon
<1>6. \A s \in Owners : Entry(s) \in Entries
  BY <1>1, InstAssumption, Zenon DEF InstTypeOK, Entry, Entries
<1>7. work'[t] \in Works /\ WorkForm(t)' /\ At(t)' \subseteq At(t)
  <2>1. CASE k.pc = "list"
    <3> DEFINE todo == {s \in Owners : instances[s] # Absent /\ Entry(s).enabled}
    <3>1. work'[t] = [k EXCEPT !.pc = "next", !.todo = todo] /\ todo \subseteq Owners
      BY <1>4, <2>1, Zenon
    <3> HIDE DEF todo
    <3>2. work'[t] \in Works /\ At(t) = Owners
      BY <1>1, <2>1, <3>1, Zenon DEF Works, Pcs, At
    <3>3. WorkForm(t)'
      BY <1>1, <1>3, <2>1, <3>1, Zenon DEF Works, WorkForm
    <3>4. At(t)' \subseteq Owners
      BY <3>2, Zenon DEF Works, At
    <3>5. QED
      BY <3>2, <3>3, <3>4, Zenon
  <2>2. CASE work'[t] = NoWork
    BY <1>5, <2>2, Ended, Zenon
  <2>3. ASSUME NEW s \in k.todo, k.pc = "next",
               work'[t] = [k EXCEPT !.pc = "ensure", !.site = s, !.port = Entry(s).port, !.todo = k.todo \ {s}]
        PROVE  work'[t] \in Works /\ WorkForm(t)' /\ At(t)' \subseteq At(t)
    <3>1. s \in Owners /\ Entry(s).port \in Ports
      BY <1>1, <1>6, Zenon DEF Works, Entries
    <3>2. work'[t] \in Works
      BY <1>1, <2>3, <3>1, ZenonT(30) DEF Works, Pcs
    <3>3. WorkForm(t)'
      BY <1>1, <1>3, <2>3, <3>1, Zenon DEF Works, WorkForm
    <3>4. At(t) = ({k.site, k.new} \cup k.todo) \ {Absent} /\ s \in At(t)
      BY <2>3, <3>1, InstAssumption, Zenon DEF At
    <3>5. At(t)' = ({s, k.new} \cup (k.todo \ {s})) \ {Absent}
      BY <1>1, <2>3, Zenon DEF Works, At
    <3>6. QED
      BY <3>2, <3>3, <3>4, <3>5, Zenon
  <2>4. QED
    BY <1>4, <2>1, <2>2, <2>3, Zenon
<1>8. InstTypeOK' /\ OnlyAt(t)
  BY <1>1, <1>3, <1>4, <1>7, Zenon DEF InstTypeOK, OnlyAt
<1>9. ASSUME "site" \notin mishaps' PROVE Halted(t)' /\ \A s \in At(t) : BackedBy(t, s)'
  <2>1. Halted(t) /\ \A s \in At(t) : BackedBy(t, s)
    BY <1>2, <1>3, <1>9, Zenon
  <2>2. \A s \in At(t) : BackedBy(t, s)'
    BY <1>3, <2>1, Zenon DEF BackedBy
  <2>3. Halted(t)'
    <3>1. CASE k.pc = "list"
      <4> DEFINE todo == {s \in Owners : instances[s] # Absent /\ Entry(s).enabled}
      <4>0. work'[t] = [k EXCEPT !.pc = "next", !.todo = todo] /\ \A s \in todo : instances[s] # Absent
        BY <1>4, <3>1, Zenon
      <4> HIDE DEF todo
      <4>1. work'[t].pc = "next" /\ \A s \in work'[t].todo : instances[s] # Absent
        BY <1>1, <4>0, Zenon DEF Works
      <4>2. QED
        BY <1>3, <4>1, Zenon DEF Halted
    <3>2. CASE work'[t] = NoWork
      BY <3>2, Ended, Zenon
    <3>3. ASSUME NEW s \in k.todo, k.pc = "next",
                 work'[t] = [k EXCEPT !.pc = "ensure", !.site = s, !.port = Entry(s).port, !.todo = k.todo \ {s}]
          PROVE  Halted(t)'
      <4>1. work'[t].pc = "ensure" /\ work'[t].site = s /\ work'[t].todo = k.todo \ {s}
        BY <1>1, <3>3, Zenon DEF Works
      <4>2. QED
        BY <1>3, <2>1, <4>1, Zenon DEF Halted
    <3>4. QED
      BY <1>4, <3>1, <3>2, <3>3, Zenon
  <2>4. QED
    BY <2>2, <2>3, Zenon
<1>10. ASSUME mishaps' = {} PROVE Current(t)' /\ \A s \in At(t) : LinedBy(t, s)'
  <2>1. \A s \in At(t) : LinedBy(t, s)
    BY <1>2, <1>3, <1>10, Zenon
  <2>2. Dirty(t) = {}
    BY <1>3, Zenon DEF Dirty
  <2>3. \A s \in At(t) : LinedBy(t, s)'
    BY <1>1, <1>3, <2>1, <2>2, SiteFacts, Zenon DEF LinedBy
  <2>4. work'[t].pc \in {"next", "idle"} \/ (work'[t].pc = "ensure" /\ work'[t].op = "auto")
    <3>1. CASE k.pc = "list"
      BY <1>1, <1>4, <3>1, Zenon DEF Works
    <3>2. CASE work'[t] = NoWork
      BY <3>2 DEF NoWork
    <3>3. ASSUME NEW s \in k.todo, k.pc = "next",
                 work'[t] = [k EXCEPT !.pc = "ensure", !.site = s, !.port = Entry(s).port, !.todo = k.todo \ {s}]
          PROVE  work'[t].pc = "ensure" /\ work'[t].op = "auto"
      BY <1>1, <1>3, <3>3, Zenon DEF Works
    <3>4. QED
      BY <1>4, <3>1, <3>2, <3>3, Zenon
  <2>5. Current(t)'
    BY <2>4, <1>7, Zenon DEF Current, WorkForm, NoWork
  <2>6. QED
    BY <2>3, <2>5, Zenon
<1>11. QED
  BY <1>1, <1>7, <1>8, <1>9, <1>10, Elsewhere, Zenon

\* set_service_autostart, and a server that ends by itself.
LEMMA SwitchKeeps ==
    ASSUME InstInv, NEW s \in Owners, NEW on \in BOOLEAN, set_service_autostart(s, on) \/ ServerExits(s)
    PROVE  InstInv'
<1>1. InstTypeOK /\ work' = work /\ rule' = rule /\ mishaps \subseteq mishaps'
  BY Zenon DEF InstInv, set_service_autostart, ServerExits, Noted, books
<1>2. /\ \A u \in All : At(u)' = At(u) /\ Dirty(u)' = Dirty(u) /\ RuleSite(u)' = RuleSite(u)
      /\ \A u \in All : At(u) \subseteq Owners
  BY <1>1, SiteFacts, Zenon DEF At, Dirty, RuleSite, InstInv
<1>3. Entry(s) \in Entries /\ [Entry(s) EXCEPT !.enabled = on] \in Entries /\ Absent \notin Entries
  BY <1>1, InstAssumption, Zenon DEF InstTypeOK, Entry, Entries
<1>4. InstTypeOK'
  <2>1. CASE set_service_autostart(s, on)
    BY <1>1, <1>3, <2>1, InstAssumption DEF set_service_autostart, Noted, InstTypeOK
  <2>2. CASE ServerExits(s)
    BY <1>1, <2>2, Zenon DEF ServerExits, books, InstTypeOK
  <2>3. QED
    BY <2>1, <2>2, Zenon
<1>5. Apart' /\ \A u \in All : WorkForm(u)'
  BY <1>1, <1>2, ZenonT(30) DEF InstInv, Apart, WorkForm
<1>6. /\ \A o \in Owners : running'[o] \in {running[o], Absent}
      /\ \A o \in Owners \ {s} : instances'[o] = instances[o]
      /\ instances'[s] = instances[s] \/ instances'[s] = [Entry(s) EXCEPT !.enabled = on]
      /\ instances'[s] # instances[s] /\ mishaps' = {} => instances[s] # Absent
  BY <1>1, Zenon DEF set_service_autostart, ServerExits, Noted, InstTypeOK, books
<1>7. \A o \in Owners : instances[o] # Absent => instances'[o] # Absent
  BY <1>3, <1>6, Zenon
<1>8. ASSUME mishaps' = {}
      PROVE  \A o \in Owners : PortOf(o)' = PortOf(o) /\ (instances'[o] = Absent <=> instances[o] = Absent)
  <2>1. instances[s] # Absent /\ instances'[s] = [Entry(s) EXCEPT !.enabled = on] => instances'[s].port = instances[s].port
    BY <1>3, Zenon DEF Entry, Entries
  <2>2. QED
    BY <1>3, <1>6, <1>8, <2>1, Zenon DEF PortOf
<1>9. NoStray'
  <2> SUFFICES ASSUME "site" \notin mishaps'
               PROVE  (\A o \in Owners : \E u \in All : BackedBy(u, o)') /\ \A u \in All : Halted(u)'
    BY Zenon DEF NoStray
  <2>1. /\ \A o \in Owners : \E u \in All : BackedBy(u, o)
        /\ \A u \in All : Halted(u)
    BY <1>1, Zenon DEF InstInv, NoStray
  <2>2. \A o \in Owners, u \in All : BackedBy(u, o) => BackedBy(u, o)'
    BY <1>1, <1>6, <1>7, Zenon DEF BackedBy
  <2>3. ASSUME NEW u \in All PROVE Halted(u)'
    <3>1. Halted(u) /\ WorkForm(u) /\ work[u] \in Works
      BY <1>1, <2>1, Zenon DEF InstInv, InstTypeOK
    <3>2. QED
      BY <1>1, <1>6, <1>7, <3>1, Zenon DEF Halted, WorkForm, Works
  <2>4. QED
    BY <2>1, <2>2, <2>3, Zenon
<1>10. Following'
  <2> SUFFICES ASSUME mishaps' = {}
               PROVE  (\A o \in Owners : \E u \in All : LinedBy(u, o)') /\ \A u \in All : Current(u)'
    BY Zenon DEF Following
  <2>1. /\ \A o \in Owners : \E u \in All : LinedBy(u, o)
        /\ \A u \in All : Current(u)
    BY <1>1, Zenon DEF InstInv, Following
  <2>2. \A o \in Owners, u \in All : LinedBy(u, o) => LinedBy(u, o)'
    BY <1>1, <1>2, <1>8, Zenon DEF LinedBy
  <2>3. ASSUME NEW u \in All PROVE Current(u)'
    <3>1. Current(u) /\ WorkForm(u) /\ work'[u] = work[u] /\ rule' = rule /\ RuleSite(u)' = RuleSite(u)
      BY <1>1, <1>2, <2>1, Zenon DEF InstInv
    <3>2. /\ work[u].pc \notin {"idle", "list", "next"} => work[u].site \in Owners
          /\ work[u].op = "site" => work[u].new \in Owners
          /\ work[u].pc \in {"unrule", "rule"} => RuleSite(u) \in Owners
          /\ work[u].pc \in {"target", "unlink"} => work[u].op = "site"
      BY <3>1, Zenon DEF WorkForm, RuleSite
    <3>3. QED
      BY <1>8, <3>1, <3>2, Zenon DEF Current
  <2>4. QED
    BY <2>1, <2>2, <2>3, Zenon
<1>11. QED
  BY <1>4, <1>5, <1>9, <1>10, Zenon DEF InstInv

LEMMA InstInitInv == InstInit => InstInv
<1> SUFFICES ASSUME InstInit PROVE InstInv
  BY Zenon
<1> DEFINE first == [NoWork EXCEPT !.pc = "list", !.op = "auto"]
<1>1. /\ \A t \in All : work[t] = IF t = AutoStart THEN first ELSE NoWork
      /\ mishaps = {} /\ \A s \in Owners : running[s] = Absent /\ rule[s] = PortOf(s)
  BY Zenon DEF InstInit
<1>2. NoWork \in Works /\ first \in Works
  BY InstAssumption, Zenon DEF NoWork, Works, Pcs, WorkOps
<1>3. instances \in [Owners -> {Absent} \cup Entries]
  BY Zenon DEF InstInit, Entries
<1>4. \A s \in Owners : PortOf(s) \in Ports \cup {Absent}
  BY <1>3, Zenon DEF PortOf, Entries
<1>5. InstTypeOK
  BY <1>2, <1>3, <1>4, InstAssumption DEF InstInit, InstTypeOK
<1>6. \A t \in All : WorkForm(t) /\ Halted(t) /\ Current(t)
  <2> SUFFICES ASSUME NEW t \in All PROVE WorkForm(t) /\ Halted(t) /\ Current(t)
    BY Zenon
  <2>1. /\ work[t].pc \in {"idle", "list"} /\ work[t].todo = {} /\ work[t].op \in {"auto", "stop"}
        /\ t # AutoStart => work[t] = NoWork /\ work[t].op = "stop" /\ work[t].pc = "idle"
        /\ t = AutoStart => work[t].op = "auto" /\ work[t].pc = "list"
    <3>1. first.pc = "list" /\ first.op = "auto" /\ first.todo = {}
      BY Zenon DEF NoWork
    <3>2. NoWork.pc = "idle" /\ NoWork.op = "stop" /\ NoWork.todo = {}
      BY Zenon DEF NoWork
    <3> HIDE DEF first
    <3>3. QED
      BY <1>1, <3>1, <3>2, Zenon
  <2>2. WorkForm(t)
    BY <2>1, ZenonT(30) DEF WorkForm
  <2>3. Halted(t) /\ Current(t)
    BY <2>1, Zenon DEF Halted, Current
  <2>4. QED
    BY <2>2, <2>3, Zenon
<1>7. \A t \in All : t # AutoStart => At(t) = {}
  BY <1>1 DEF NoWork, At
<1>8. Apart
  BY <1>7, Zenon DEF Apart
<1>9. NoStray /\ Following
  BY <1>1, <1>6, Zenon DEF NoStray, Following, BackedBy, LinedBy, All
<1>10. QED
  BY <1>5, <1>6, <1>8, <1>9, Zenon DEF InstInv

\* With no request in flight every rule is that of its site's instance and only
\* configured instances run, for any number of sites, ports and requests, as
\* long as no two tasks were at work on one site.
THEOREM InstanceIsServedAlways == InstSpec => []InstanceIsServed
<1>1. InstInit => InstInv
  BY InstInitInv, Zenon
<1>2. InstInv /\ [InstNext]_instvars => InstInv'
  <2> SUFFICES ASSUME InstInv, [InstNext]_instvars PROVE InstInv'
    BY Zenon
  <2>0. {"add", "remove", "port", "site", "start", "restart", "stop"} \subseteq WorkOps
        /\ {"exists", "halt", "reserved", "check", "read"} \subseteq Pcs
    BY Zenon DEF WorkOps, Pcs
  <2>1. ASSUME NEW t \in Workers, NEW s \in Owners, NEW p \in Ports \cup {Absent}, NEW on \in BOOLEAN, add_service(t, s, p, on)
        PROVE  InstInv'
    BY <2>0, <2>1, RequestKeeps DEF add_service
  <2>2. ASSUME NEW t \in Workers, NEW s \in Owners, NEW p \in Ports, set_service_port(t, s, p)
        PROVE  InstInv'
    BY <2>0, <2>2, RequestKeeps, Zenon DEF set_service_port
  <2>3. ASSUME NEW t \in Workers, NEW s \in Owners, NEW new \in Owners, set_service_site(t, s, new)
        PROVE  InstInv'
    BY <2>0, <2>3, RequestKeeps, Zenon DEF set_service_site
  <2>4. ASSUME NEW t \in Workers, NEW s \in Owners,
               remove_service(t, s) \/ start_service(t, s) \/ restart_service(t, s) \/ stop_service(t, s)
        PROVE  InstInv'
    BY <2>0, <2>4, RequestKeeps, Zenon DEF remove_service, start_service, restart_service, stop_service
  <2>5. ASSUME NEW s \in Owners, NEW on \in BOOLEAN, set_service_autostart(s, on) \/ ServerExits(s)
        PROVE  InstInv'
    BY <2>5, SwitchKeeps, Zenon
  <2>6. CASE \E t \in All : WorkStep(t)
    BY <2>6, WorkStepKeeps, Zenon
  <2>7. CASE List \/ start_one
    BY <2>7, AutoStartKeeps, Zenon
  <2>8. CASE UNCHANGED instvars
    <3>1. UNCHANGED <<instances, running, rule, mishaps, work, budget>>
      BY <2>8, Zenon DEF instvars
    <3>2. InstTypeOK' /\ Apart' /\ \A t \in All : WorkForm(t)'
      BY <3>1, ZenonT(30) DEF InstInv, InstTypeOK, Apart, At, WorkForm
    <3>3. NoStray'
      BY <3>1, Zenon DEF InstInv, NoStray, BackedBy, Halted
    <3>4. Following'
      <4>0. \A t \in All : RuleSite(t)' = RuleSite(t) /\ Dirty(t)' = Dirty(t)
        BY <3>1, Zenon DEF Dirty, RuleSite
      <4>1. /\ \A s \in Owners, t \in All : LinedBy(t, s)' <=> LinedBy(t, s)
            /\ \A t \in All : Current(t)' <=> Current(t)
        <5>1. \A s \in Owners, t \in All : LinedBy(t, s)' <=> LinedBy(t, s)
          BY <3>1, <4>0, ZenonT(30) DEF LinedBy, PortOf
        <5>2. \A t \in All : Current(t)' <=> Current(t)
          BY <3>1, <4>0 DEF Current, PortOf
        <5>3. QED
          BY <5>1, <5>2, Zenon
      <4>2. QED
        BY <3>1, <4>1, Zenon DEF InstInv, Following
    <3>5. QED
      BY <3>2, <3>3, <3>4, Zenon DEF InstInv
  <2>9. QED
    BY <2>1, <2>2, <2>3, <2>4, <2>5, <2>6, <2>7, <2>8, Zenon DEF InstNext
<1>3. InstInv => InstanceIsServed
  <2> SUFFICES ASSUME InstInv PROVE InstanceIsServed
    BY Zenon
  <2>1. AtRest => \A t \in All : Dirty(t) = {} /\ work[t].pc # "record"
    BY Zenon DEF AtRest, Dirty
  <2>2. NoStrayServer
    BY <2>1, Zenon DEF InstInv, NoStray, BackedBy, NoStrayServer, Without
  <2>3. RuleFollowsInstance
    <3>1. InstTypeOK /\ Without({"site", "unlisted", "save"}) => mishaps = {}
      BY Zenon DEF InstTypeOK, Without
    <3>2. QED
      BY <2>1, <3>1, Zenon DEF InstInv, Following, LinedBy, RuleFollowsInstance
  <2>4. QED
    BY <2>2, <2>3, Zenon DEF InstInv, InstanceIsServed
<1>4. QED
  BY <1>1, <1>2, <1>3, PTL DEF InstSpec
=============================================================================
