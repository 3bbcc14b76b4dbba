--------------------------- MODULE LifecycleProofs ---------------------------
(* Proofs about Lifecycle, for any number of daemon processes, starts,       *)
(* config changes and crashes, and about SelfUpdate.                         *)
EXTENDS Lifecycle, SelfUpdate, TLAPS

(* The instance lock: who is between Acquire and Release holds it.           *)
LockHeld == \A d \in Daemons : proc[d].pc \in Owning <=> lock = d

(* yerd.sock leads to the owner from the bind of its listener to the end of  *)
(* its drain.                                                                *)
SocketHeld ==
  \A d \in Daemons :
    proc[d].pc \in {"ipc", "dns", "mail", "assembled", "serving", "draining"} => sock = d

(* The two CA files are written in one order: the key never exists without   *)
(* the certificate, and two complete files are one pair, whoever died in     *)
(* between.  What the owner is about to write fits what it has written.      *)
CaPaired ==
  /\ ca.key # Missing => ca.cert # Missing
  /\ ca.cert > Half /\ ca.key > Half => ca.cert = ca.key
  /\ used.ca >= Half
CaFits(d) ==
    /\ proc[d].pc \in {"cert open", "cert", "key open"} => proc[d].ca > Half
    /\ proc[d].pc \in {"cert open", "cert"} => ca.key = Missing
    /\ proc[d].pc \in {"cert", "key open"} => ca.cert = proc[d].ca
    /\ proc[d].pc \in {"ca", "web", "ipc", "dns", "mail", "assembled", "serving"} =>
         ca.cert = proc[d].ca /\ ca.key = proc[d].ca
CaWritten == \A d \in Daemons : CaFits(d)

(* Whoever has read the config and was not overtaken by another's change has *)
(* in memory what is on disk.                                                *)
Current ==
  \A d \in Daemons :
    proc[d].pc \notin {"off", "starting"} /\ ~proc[d].raced => proc[d].config = disk

IInv == TypeOK /\ LockHeld /\ SocketHeld /\ CaPaired /\ CaWritten /\ Current /\ SurvivesHandover

-----------------------------------------------------------------------------
LEMMA FreshType ==
    /\ Fresh \in Processes /\ Fresh.pc = "off" /\ ~Fresh.raced
    /\ \A x \in {"off", "starting"} :
         LET k == [Fresh EXCEPT !.pc = x] IN k \in Processes /\ k.pc = x /\ ~k.raced
BY Zenon DEF Fresh, Processes, Stages, Webs, Missing

\* One process changes, to a record of the same type.
LEMMA OneChanges ==
    ASSUME TypeOK, NEW d \in Daemons, NEW k \in Processes, proc' = [proc EXCEPT ![d] = k]
    PROVE  /\ proc' \in [Daemons -> Processes]
           /\ proc'[d] = k
           /\ \A e \in Daemons \ {d} : proc'[e] = proc[e]
BY Zenon DEF TypeOK

\* What the actions do to a process leaves it a process.
LEMMA ProcessFields ==
    ASSUME NEW k \in Processes, NEW x \in Stages
    PROVE  /\ [k EXCEPT !.pc = x] \in Processes
           /\ \A c \in SUBSET (1..MaxChanges) : [k EXCEPT !.pc = x, !.config = c] \in Processes
           /\ \A c \in SUBSET (1..MaxChanges) : [k EXCEPT !.config = c] \in Processes
           /\ \A n \in Nat : [k EXCEPT !.pc = x, !.ca = n] \in Processes
           /\ \A w \in Webs : [k EXCEPT !.pc = x, !.web = w] \in Processes
           /\ \A w \in Webs : [k EXCEPT !.pc = x, !.redirect = w] \in Processes
           /\ \A w \in Webs : [k EXCEPT !.redirect = w] \in Processes
           /\ \A r \in BOOLEAN : [k EXCEPT !.pc = x, !.restart = r] \in Processes
           /\ [k EXCEPT !.raced = TRUE] \in Processes
BY Zenon DEF Processes

\* Who owns the files is alone with them.
LEMMA Alone ==
    ASSUME IInv, NEW d \in Daemons, proc[d].pc \in Owning, NEW e \in Daemons \ {d}
    PROVE  /\ proc[e].pc \notin Owning /\ lock = d
           /\ proc[e].pc \notin {"locked", "cert open", "cert", "key open", "ca", "web", "ipc", "dns",
                            "mail", "assembled", "serving", "draining", "stopped"}
BY Zenon DEF IInv, LockHeld, Owning

\* Go changes nothing but how far the process is.
LEMMA GoFacts ==
    ASSUME TypeOK, NEW d \in Daemons, NEW x \in Stages, Go(d, x)
    PROVE  /\ proc' \in [Daemons -> Processes]
           /\ proc'[d].pc = x /\ proc'[d].ca = proc[d].ca /\ proc'[d].config = proc[d].config
           /\ proc'[d].raced = proc[d].raced
           /\ \A e \in Daemons \ {d} : proc'[e] = proc[e]
BY DEF TypeOK, Go, Processes

LEMMA InitIInv == Init => IInv
<1> SUFFICES ASSUME Init PROVE IInv
  BY Zenon
<1>1. TypeOK
  <2>1. proc \in [Daemons -> Processes]
    BY FreshType, Zenon DEF Init
  <2>2. pf \in BOOLEAN /\ held \in [Ports -> Daemons \cup {Nobody}]
    BY Zenon DEF Init
  <2>3. used \in [starts : 0..MaxStarts, changes : 0..MaxChanges, crashes : 0..MaxCrashes, flips : 0..MaxFlips, ca : Nat]
    BY LifecycleAssumption DEF Init, Half
  <2> QED
    BY <2>1, <2>2, <2>3, Zenon DEF Init, TypeOK, Missing
<1>2. \A d \in Daemons : proc[d].pc = "off"
  BY FreshType, Zenon DEF Init
<1>3. LockHeld /\ SocketHeld /\ Current /\ SurvivesHandover
  <2>1. LockHeld
    BY <1>2, LifecycleAssumption, Zenon DEF Init, LockHeld, Owning
  <2>2. SocketHeld
    BY <1>2, Zenon DEF SocketHeld
  <2>3. Current
    BY <1>2, Zenon DEF Current
  <2>4. SurvivesHandover
    BY Zenon DEF Init, SurvivesHandover
  <2> QED
    BY <2>1, <2>2, <2>3, <2>4, Zenon
<1>4. CaPaired
  <2>1. ca.key = Missing /\ used.ca >= Half
    BY DEF Init, Missing, Half
  <2>2. ~(ca.key > Half)
    BY <2>1 DEF Missing, Half
  <2> QED
    BY <2>1, <2>2, Zenon DEF CaPaired
<1>5. CaWritten
  BY <1>2, Zenon DEF CaWritten, CaFits
<1> QED
  BY <1>1, <1>3, <1>4, <1>5, Zenon DEF IInv

LEMMA StartStep ==
    ASSUME IInv, NEW d \in Daemons, Start(d)
    PROVE  IInv'
<1>t. TypeOK
  BY Zenon DEF IInv
<1>a. /\ proc' \in [Daemons -> Processes]
      /\ proc[d].pc = "off"
      /\ proc'[d].pc = "starting" /\ ~proc'[d].raced
      /\ \A e \in Daemons \ {d} : proc'[e] = proc[e]
  BY <1>t, FreshType, OneChanges, Zenon DEF Start, At
<1>u. UNCHANGED <<lock, disk, acked, ca, sock>> /\ used'.ca = used.ca
  BY <1>t, Zenon DEF Start, TypeOK
<1>1. TypeOK'
  <2>1. used' \in [starts : 0..MaxStarts, changes : 0..MaxChanges, crashes : 0..MaxCrashes, flips : 0..MaxFlips, ca : Nat]
    BY <1>t, LifecycleAssumption DEF TypeOK, Start
  <2> QED
    BY <1>a, <1>t, <2>1, Zenon DEF TypeOK, Start
<1>2. LockHeld'
  BY <1>a, <1>u, <1>t, LifecycleAssumption, Zenon DEF IInv, TypeOK, LockHeld, Owning
<1>3. SocketHeld'
  BY <1>a, <1>u, <1>t, Zenon DEF IInv, TypeOK, SocketHeld, LockHeld, Owning
<1>4. CaPaired'
  BY <1>a, <1>u, Zenon DEF IInv, CaPaired
<1>5. CaWritten'
  <2>1. \A e \in Daemons \ {d} : CaFits(e)'
    BY <1>a, <1>u, Zenon DEF IInv, CaWritten, CaFits
  <2>2. CaFits(d)'
    BY <1>a, <1>u, Zenon DEF IInv, CaWritten, CaFits
  <2> QED
    BY <2>1, <2>2, Zenon DEF CaWritten
<1>6. Current'
  BY <1>a, <1>u, <1>t DEF IInv, TypeOK, Current
<1>7. SurvivesHandover'
  BY <1>a, <1>u, <1>t, Zenon DEF IInv, TypeOK, SurvivesHandover
<1> QED
  BY <1>1, <1>2, <1>3, <1>4, <1>5, <1>6, <1>7, Zenon DEF IInv

LEMMA LoadStep ==
    ASSUME IInv, NEW d \in Daemons, Load(d)
    PROVE  IInv'
<1>t. TypeOK
  BY Zenon DEF IInv
<1>a. /\ proc' \in [Daemons -> Processes]
      /\ proc[d].pc = "starting"
      /\ proc'[d].pc = "loaded" /\ proc'[d].config = disk /\ proc'[d].ca = proc[d].ca /\ proc'[d].raced = proc[d].raced
      /\ \A e \in Daemons \ {d} : proc'[e] = proc[e]
  <2>1. [proc[d] EXCEPT !.pc = "loaded", !.config = disk] \in Processes
    BY <1>t, ProcessFields, Zenon DEF TypeOK, Stages, Owning
  <2>2. proc' = [proc EXCEPT ![d] = [proc[d] EXCEPT !.pc = "loaded", !.config = disk]]
    BY <1>t, Zenon DEF TypeOK, Load
  <2> QED
    BY <1>t, <2>1, <2>2, OneChanges DEF Load, At, TypeOK, Processes
<1>u. UNCHANGED <<lock, disk, acked, ca, sock, used>>
  BY Zenon DEF Load
<1>1. TypeOK'
  BY <1>a, <1>t, Zenon DEF TypeOK, Load
<1>2. LockHeld'
  BY <1>a, <1>u, <1>t, LifecycleAssumption, Zenon DEF IInv, TypeOK, LockHeld, Owning
<1>3. SocketHeld'
  BY <1>a, <1>u, <1>t, Zenon DEF IInv, TypeOK, SocketHeld, LockHeld, Owning
<1>4. CaPaired'
  BY <1>a, <1>u, Zenon DEF IInv, CaPaired
<1>5. CaWritten'
  <2>1. \A e \in Daemons \ {d} : CaFits(e)'
    BY <1>a, <1>u, Zenon DEF IInv, CaWritten, CaFits
  <2>2. CaFits(d)'
    BY <1>a, <1>u, Zenon DEF IInv, CaWritten, CaFits
  <2> QED
    BY <2>1, <2>2, Zenon DEF CaWritten
<1>6. Current'
  BY <1>a, <1>u, <1>t DEF IInv, TypeOK, Current
<1>7. SurvivesHandover'
  BY <1>a, <1>u, <1>t, Zenon DEF IInv, TypeOK, SurvivesHandover
<1> QED
  BY <1>1, <1>2, <1>3, <1>4, <1>5, <1>6, <1>7, Zenon DEF IInv

LEMMA ServeStep ==
    ASSUME IInv, NEW d \in Daemons, Serve(d)
    PROVE  IInv'
<1>t. TypeOK
  BY Zenon DEF IInv
<1>a. /\ proc' \in [Daemons -> Processes]
      /\ proc[d].pc = "assembled"
      /\ proc'[d].pc = "serving" /\ proc'[d].ca = proc[d].ca /\ proc'[d].config = proc[d].config /\ proc'[d].raced = proc[d].raced
      /\ \A e \in Daemons \ {d} : proc'[e] = proc[e]
  BY <1>t, GoFacts, Zenon DEF Serve, At, Stages, Owning
<1>u. UNCHANGED <<lock, disk, acked, ca, sock, used>>
  BY Zenon DEF Serve
<1>1. TypeOK'
  BY <1>a, <1>t, Zenon DEF TypeOK, Serve
<1>2. LockHeld'
  BY <1>a, <1>u, <1>t, LifecycleAssumption, Zenon DEF IInv, TypeOK, LockHeld, Owning
<1>3. SocketHeld'
  BY <1>a, <1>u, <1>t, Zenon DEF IInv, TypeOK, SocketHeld, LockHeld, Owning
<1>4. CaPaired'
  BY <1>a, <1>u, Zenon DEF IInv, CaPaired
<1>5. CaWritten'
  <2>1. \A e \in Daemons \ {d} : CaFits(e)'
    BY <1>a, <1>u, Zenon DEF IInv, CaWritten, CaFits
  <2>2. CaFits(d)'
    BY <1>a, <1>u, Zenon DEF IInv, CaWritten, CaFits
  <2> QED
    BY <2>1, <2>2, Zenon DEF CaWritten
<1>6. Current'
  BY <1>a, <1>u, <1>t DEF IInv, TypeOK, Current
<1>7. SurvivesHandover'
  BY <1>a, <1>u, <1>t, Zenon DEF IInv, TypeOK, SurvivesHandover
<1> QED
  BY <1>1, <1>2, <1>3, <1>4, <1>5, <1>6, <1>7, Zenon DEF IInv

LEMMA AssembleStep ==
    ASSUME IInv, NEW d \in Daemons, Assemble(d)
    PROVE  IInv'
<1>t. TypeOK
  BY Zenon DEF IInv
<1>a. /\ proc' \in [Daemons -> Processes]
      /\ proc[d].pc = "mail"
      /\ proc'[d].pc = "assembled" /\ proc'[d].ca = proc[d].ca /\ proc'[d].config = proc[d].config /\ proc'[d].raced = proc[d].raced
      /\ \A e \in Daemons \ {d} : proc'[e] = proc[e]
  <2>0. proc[d].web \in Webs
    BY <1>t, Zenon DEF TypeOK, Processes
  <2>1. [proc[d] EXCEPT !.pc = "assembled", !.redirect = proc[d].web] \in Processes
    BY <2>0, <1>t, ProcessFields, Zenon DEF TypeOK, Stages, Owning
  <2>2. proc' = [proc EXCEPT ![d] = [proc[d] EXCEPT !.pc = "assembled", !.redirect = proc[d].web]]
    BY <1>t, Zenon DEF TypeOK, Assemble
  <2> QED
    BY <1>t, <2>1, <2>2, OneChanges DEF Assemble, At, TypeOK, Processes
<1>u. UNCHANGED <<lock, disk, acked, ca, sock, used>>
  BY Zenon DEF Assemble
<1>1. TypeOK'
  BY <1>a, <1>t, Zenon DEF TypeOK, Assemble
<1>2. LockHeld'
  BY <1>a, <1>u, <1>t, LifecycleAssumption, Zenon DEF IInv, TypeOK, LockHeld, Owning
<1>3. SocketHeld'
  BY <1>a, <1>u, <1>t, Zenon DEF IInv, TypeOK, SocketHeld, LockHeld, Owning
<1>4. CaPaired'
  BY <1>a, <1>u, Zenon DEF IInv, CaPaired
<1>5. CaWritten'
  <2>1. \A e \in Daemons \ {d} : CaFits(e)'
    BY <1>a, <1>u, Zenon DEF IInv, CaWritten, CaFits
  <2>2. CaFits(d)'
    BY <1>a, <1>u, Zenon DEF IInv, CaWritten, CaFits
  <2> QED
    BY <2>1, <2>2, Zenon DEF CaWritten
<1>6. Current'
  BY <1>a, <1>u, <1>t DEF IInv, TypeOK, Current
<1>7. SurvivesHandover'
  BY <1>a, <1>u, <1>t, Zenon DEF IInv, TypeOK, SurvivesHandover
<1> QED
  BY <1>1, <1>2, <1>3, <1>4, <1>5, <1>6, <1>7, Zenon DEF IInv

LEMMA BuildIpcListenerStep ==
    ASSUME IInv, NEW d \in Daemons, BuildIpcListener(d)
    PROVE  IInv'
<1>t. TypeOK
  BY Zenon DEF IInv
<1>a. /\ proc' \in [Daemons -> Processes]
      /\ proc[d].pc = "web"
      /\ proc'[d].pc = "ipc" /\ proc'[d].ca = proc[d].ca /\ proc'[d].config = proc[d].config /\ proc'[d].raced = proc[d].raced
      /\ \A e \in Daemons \ {d} : proc'[e] = proc[e]
  BY <1>t, GoFacts, Zenon DEF BuildIpcListener, At, Stages, Owning
<1>u. UNCHANGED <<lock, disk, acked, ca, used>>
  BY Zenon DEF BuildIpcListener
<1>1. TypeOK'
  BY <1>a, <1>t, Zenon DEF TypeOK, BuildIpcListener
<1>2. LockHeld'
  BY <1>a, <1>u, <1>t, LifecycleAssumption, Zenon DEF IInv, TypeOK, LockHeld, Owning
<1>3. SocketHeld'
  <2>1. \A e \in Daemons \ {d} : proc'[e].pc \notin {"ipc", "dns", "mail", "assembled", "serving", "draining"}
    BY <1>a, Alone, Zenon DEF Owning
  <2> QED
    BY <2>1, <1>a, Zenon DEF SocketHeld, BuildIpcListener
<1>4. CaPaired'
  BY <1>a, <1>u, Zenon DEF IInv, CaPaired
<1>5. CaWritten'
  <2>1. \A e \in Daemons \ {d} : CaFits(e)'
    BY <1>a, <1>u, Zenon DEF IInv, CaWritten, CaFits
  <2>2. CaFits(d)'
    BY <1>a, <1>u, Zenon DEF IInv, CaWritten, CaFits
  <2> QED
    BY <2>1, <2>2, Zenon DEF CaWritten
<1>6. Current'
  BY <1>a, <1>u, <1>t DEF IInv, TypeOK, Current
<1>7. SurvivesHandover'
  BY <1>a, <1>u, <1>t, Zenon DEF IInv, TypeOK, SurvivesHandover
<1> QED
  BY <1>1, <1>2, <1>3, <1>4, <1>5, <1>6, <1>7, Zenon DEF IInv

LEMMA ReleaseStep ==
    ASSUME IInv, NEW d \in Daemons, Release(d)
    PROVE  IInv'
<1>t. TypeOK
  BY Zenon DEF IInv
<1>a. /\ proc' \in [Daemons -> Processes]
      /\ proc[d].pc = "stopped"
      /\ proc'[d].pc = "released" /\ proc'[d].ca = proc[d].ca /\ proc'[d].config = proc[d].config /\ proc'[d].raced = proc[d].raced
      /\ \A e \in Daemons \ {d} : proc'[e] = proc[e]
  BY <1>t, GoFacts, Zenon DEF Release, At, Stages, Owning
<1>u. UNCHANGED <<disk, acked, ca, sock, used>>
  BY Zenon DEF Release
<1>1. TypeOK'
  BY <1>a, <1>t, Zenon DEF TypeOK, Release
<1>2. LockHeld'
  BY <1>a, <1>t, LifecycleAssumption, Zenon DEF IInv, TypeOK, LockHeld, Owning, Release
<1>3. SocketHeld'
  BY <1>a, <1>u, <1>t, Zenon DEF IInv, TypeOK, SocketHeld, LockHeld, Owning
<1>4. CaPaired'
  BY <1>a, <1>u, Zenon DEF IInv, CaPaired
<1>5. CaWritten'
  <2>1. \A e \in Daemons \ {d} : CaFits(e)'
    BY <1>a, <1>u, Zenon DEF IInv, CaWritten, CaFits
  <2>2. CaFits(d)'
    BY <1>a, <1>u, Zenon DEF IInv, CaWritten, CaFits
  <2> QED
    BY <2>1, <2>2, Zenon DEF CaWritten
<1>6. Current'
  BY <1>a, <1>u, <1>t DEF IInv, TypeOK, Current
<1>7. SurvivesHandover'
  BY <1>a, <1>u, <1>t, Zenon DEF IInv, TypeOK, SurvivesHandover
<1> QED
  BY <1>1, <1>2, <1>3, <1>4, <1>5, <1>6, <1>7, Zenon DEF IInv

LEMMA WriteCertStep ==
    ASSUME IInv, NEW d \in Daemons, WriteCert(d)
    PROVE  IInv'
<1>t. TypeOK
  BY Zenon DEF IInv
<1>a. /\ proc' \in [Daemons -> Processes]
      /\ proc[d].pc = "cert open"
      /\ proc'[d].pc = "cert" /\ proc'[d].ca = proc[d].ca /\ proc'[d].config = proc[d].config /\ proc'[d].raced = proc[d].raced
      /\ \A e \in Daemons \ {d} : proc'[e] = proc[e]
  BY <1>t, GoFacts, Zenon DEF WriteCert, At, Stages, Owning
<1>u. UNCHANGED <<lock, disk, acked, sock, used>>
  BY Zenon DEF WriteCert
<1>1. TypeOK'
  <2>1. ca' \in [cert : Nat, key : Nat]
    BY <1>t, Zenon DEF TypeOK, Processes, WriteCert
  <2> QED
    BY <1>a, <1>t, <2>1, Zenon DEF TypeOK, WriteCert
<1>2. LockHeld'
  BY <1>a, <1>u, <1>t, LifecycleAssumption, Zenon DEF IInv, TypeOK, LockHeld, Owning
<1>3. SocketHeld'
  BY <1>a, <1>u, <1>t, Zenon DEF IInv, TypeOK, SocketHeld, LockHeld, Owning
<1>4. CaPaired'
  <2>1. ca'.cert = proc[d].ca /\ ca'.key = Missing
    BY <1>a, <1>t, Zenon DEF IInv, CaWritten, CaFits, TypeOK, WriteCert
  <2> QED
    BY <2>1, <1>u DEF IInv, CaPaired, Missing, Half
<1>5. CaWritten'
  <2>1. \A e \in Daemons \ {d} : CaFits(e)'
    BY <1>a, Alone, Zenon DEF CaFits, Owning
  <2>2. ca'.cert = proc[d].ca /\ ca'.key = Missing /\ proc[d].ca > Half
    BY <1>a, <1>t, Zenon DEF IInv, CaWritten, CaFits, TypeOK, WriteCert
  <2>3. CaFits(d)'
    BY <1>a, <2>2, Zenon DEF CaFits
  <2> QED
    BY <2>1, <2>3, Zenon DEF CaWritten
<1>6. Current'
  BY <1>a, <1>u, <1>t, Zenon DEF IInv, TypeOK, Current
<1>7. SurvivesHandover'
  BY <1>a, <1>u, <1>t, Zenon DEF IInv, TypeOK, SurvivesHandover
<1> QED
  BY <1>1, <1>2, <1>3, <1>4, <1>5, <1>6, <1>7, Zenon DEF IInv

LEMMA RedirectProbeStep ==
    ASSUME IInv, NEW d \in Daemons, RedirectProbe(d)
    PROVE  IInv'
<1>t. TypeOK
  BY Zenon DEF IInv
<1>a. /\ proc' \in [Daemons -> Processes]
      /\ proc[d].pc = "serving"
      /\ proc'[d].pc = "serving" /\ proc'[d].ca = proc[d].ca /\ proc'[d].config = proc[d].config /\ proc'[d].raced = proc[d].raced
      /\ \A e \in Daemons \ {d} : proc'[e] = proc[e]
  <2>1. [proc[d] EXCEPT !.redirect = EffectiveRedirectPort(proc[d].web, pf)] \in Processes
    BY <1>t, ProcessFields, Zenon DEF TypeOK, Stages, Owning, EffectiveRedirectPort, Webs
  <2>2. proc' = [proc EXCEPT ![d] = [proc[d] EXCEPT !.redirect = EffectiveRedirectPort(proc[d].web, pf)]]
    BY <1>t, Zenon DEF TypeOK, RedirectProbe
  <2> QED
    BY <1>t, <2>1, <2>2, OneChanges DEF RedirectProbe, At, TypeOK, Processes
<1>u. UNCHANGED <<lock, disk, acked, ca, sock, used>>
  BY Zenon DEF RedirectProbe
<1>1. TypeOK'
  BY <1>a, <1>t, Zenon DEF TypeOK, RedirectProbe
<1>2. LockHeld'
  BY <1>a, <1>u, <1>t, LifecycleAssumption, Zenon DEF IInv, TypeOK, LockHeld, Owning
<1>3. SocketHeld'
  BY <1>a, <1>u, <1>t, Zenon DEF IInv, TypeOK, SocketHeld, LockHeld, Owning
<1>4. CaPaired'
  BY <1>a, <1>u, Zenon DEF IInv, CaPaired
<1>5. CaWritten'
  <2>1. \A e \in Daemons \ {d} : CaFits(e)'
    BY <1>a, <1>u, Zenon DEF IInv, CaWritten, CaFits
  <2>2. CaFits(d)'
    BY <1>a, <1>u, Zenon DEF IInv, CaWritten, CaFits
  <2> QED
    BY <2>1, <2>2, Zenon DEF CaWritten
<1>6. Current'
  BY <1>a, <1>u, <1>t, Zenon DEF IInv, TypeOK, Current
<1>7. SurvivesHandover'
  BY <1>a, <1>u, <1>t, Zenon DEF IInv, TypeOK, SurvivesHandover
<1> QED
  BY <1>1, <1>2, <1>3, <1>4, <1>5, <1>6, <1>7, Zenon DEF IInv

LEMMA AcquiredStep ==
    ASSUME IInv, NEW d \in Daemons, Acquire(d), lock = Nobody
    PROVE  IInv'
<1>t. TypeOK
  BY Zenon DEF IInv
<1>a. /\ proc' \in [Daemons -> Processes]
      /\ proc[d].pc = "loaded"
      /\ proc'[d].pc = "locked" /\ proc'[d].ca = proc[d].ca /\ proc'[d].config = proc[d].config /\ proc'[d].raced = proc[d].raced
      /\ \A e \in Daemons \ {d} : proc'[e] = proc[e]
  BY <1>t, GoFacts, Zenon DEF Acquire, At, Stages, Owning
<1>u. UNCHANGED <<disk, acked, ca, sock, used>>
  BY Zenon DEF Acquire
<1>1. TypeOK'
  BY <1>a, <1>t, Zenon DEF TypeOK, Acquire
<1>2. LockHeld'
  <2>1. lock' = d
    BY Zenon DEF Acquire
  <2> QED
    BY <2>1, <1>a, LifecycleAssumption, Zenon DEF IInv, LockHeld, Owning
<1>3. SocketHeld'
  BY <1>a, <1>u, <1>t, Zenon DEF IInv, TypeOK, SocketHeld, LockHeld, Owning
<1>4. CaPaired'
  BY <1>a, <1>u, Zenon DEF IInv, CaPaired
<1>5. CaWritten'
  <2>1. \A e \in Daemons \ {d} : CaFits(e)'
    BY <1>a, <1>u, Zenon DEF IInv, CaWritten, CaFits
  <2>2. CaFits(d)'
    BY <1>a, <1>u, Zenon DEF IInv, CaWritten, CaFits
  <2> QED
    BY <2>1, <2>2, Zenon DEF CaWritten
<1>6. Current'
  BY <1>a, <1>u, <1>t DEF IInv, TypeOK, Current
<1>7. SurvivesHandover'
  BY <1>a, <1>u, <1>t, Zenon DEF IInv, TypeOK, SurvivesHandover
<1> QED
  BY <1>1, <1>2, <1>3, <1>4, <1>5, <1>6, <1>7, Zenon DEF IInv

LEMMA TurnedStep ==
    ASSUME IInv, NEW d \in Daemons, Acquire(d), lock # Nobody
    PROVE  IInv'
<1>t. TypeOK
  BY Zenon DEF IInv
<1>a. /\ proc' \in [Daemons -> Processes]
      /\ proc[d].pc = "loaded"
      /\ proc'[d].pc = "off" /\ proc'[d].ca = proc[d].ca /\ proc'[d].config = proc[d].config /\ proc'[d].raced = proc[d].raced
      /\ \A e \in Daemons \ {d} : proc'[e] = proc[e]
  BY <1>t, GoFacts, Zenon DEF Acquire, At, Stages, Owning
<1>u. UNCHANGED <<lock, disk, acked, ca, sock, used>>
  BY Zenon DEF Acquire
<1>1. TypeOK'
  BY <1>a, <1>t, Zenon DEF TypeOK, Acquire
<1>2. LockHeld'
  BY <1>a, <1>u, <1>t, LifecycleAssumption, Zenon DEF IInv, TypeOK, LockHeld, Owning
<1>3. SocketHeld'
  BY <1>a, <1>u, <1>t, Zenon DEF IInv, TypeOK, SocketHeld, LockHeld, Owning
<1>4. CaPaired'
  BY <1>a, <1>u, Zenon DEF IInv, CaPaired
<1>5. CaWritten'
  <2>1. \A e \in Daemons \ {d} : CaFits(e)'
    BY <1>a, <1>u, Zenon DEF IInv, CaWritten, CaFits
  <2>2. CaFits(d)'
    BY <1>a, <1>u, Zenon DEF IInv, CaWritten, CaFits
  <2> QED
    BY <2>1, <2>2, Zenon DEF CaWritten
<1>6. Current'
  BY <1>a, <1>u, <1>t DEF IInv, TypeOK, Current
<1>7. SurvivesHandover'
  BY <1>a, <1>u, <1>t, Zenon DEF IInv, TypeOK, SurvivesHandover
<1> QED
  BY <1>1, <1>2, <1>3, <1>4, <1>5, <1>6, <1>7, Zenon DEF IInv

LEMMA ReadCaStep ==
    ASSUME IInv, NEW d \in Daemons, LoadCa(d), Half \notin {ca.cert, ca.key}
    PROVE  IInv'
<1>t. TypeOK
  BY Zenon DEF IInv
<1>a. /\ proc' \in [Daemons -> Processes]
      /\ proc[d].pc = "locked"
      /\ proc'[d].pc = "ca" /\ proc'[d].ca = ca.key /\ proc'[d].config = proc[d].config /\ proc'[d].raced = proc[d].raced
      /\ \A e \in Daemons \ {d} : proc'[e] = proc[e]
  <2>1. [proc[d] EXCEPT !.pc = "ca", !.ca = ca.key] \in Processes
    BY <1>t, ProcessFields, Zenon DEF TypeOK, Stages, Owning
  <2>2. proc' = [proc EXCEPT ![d] = [proc[d] EXCEPT !.pc = "ca", !.ca = ca.key]]
    BY <1>t, Zenon DEF TypeOK, LoadCa
  <2> QED
    BY <1>t, <2>1, <2>2, OneChanges, Zenon DEF LoadCa, At, TypeOK, Processes
<1>u. UNCHANGED <<lock, disk, acked, ca, sock, used>>
  BY Zenon DEF LoadCa
<1>1. TypeOK'
  BY <1>a, <1>t, Zenon DEF TypeOK, LoadCa
<1>2. LockHeld'
  BY <1>a, <1>u, <1>t, LifecycleAssumption, Zenon DEF IInv, TypeOK, LockHeld, Owning
<1>3. SocketHeld'
  BY <1>a, <1>u, <1>t, Zenon DEF IInv, TypeOK, SocketHeld, LockHeld, Owning
<1>4. CaPaired'
  BY <1>a, <1>u, Zenon DEF IInv, CaPaired
<1>5. CaWritten'
  <2>1. \A e \in Daemons \ {d} : CaFits(e)'
    BY <1>a, <1>u, Zenon DEF IInv, CaWritten, CaFits
  <2>2. ca.cert > Half /\ ca.key > Half
    BY <1>t DEF LoadCa, CaPresent, TypeOK, Missing, Half
  <2>3. ca.cert = ca.key
    BY <2>2, Zenon DEF IInv, CaPaired
  <2>4. CaFits(d)'
    BY <2>3, <1>a, <1>u, Zenon DEF CaFits
  <2> QED
    BY <2>1, <2>4, Zenon DEF CaWritten
<1>6. Current'
  BY <1>a, <1>u, <1>t DEF IInv, TypeOK, Current
<1>7. SurvivesHandover'
  BY <1>a, <1>u, <1>t, Zenon DEF IInv, TypeOK, SurvivesHandover
<1> QED
  BY <1>1, <1>2, <1>3, <1>4, <1>5, <1>6, <1>7, Zenon DEF IInv

LEMMA GenerateCaStep ==
    ASSUME IInv, NEW d \in Daemons, GenerateCa(d)
    PROVE  IInv'
<1>t. TypeOK
  BY Zenon DEF IInv
<1>n. used.ca + 1 \in Nat
  BY <1>t DEF TypeOK
<1>a. /\ proc' \in [Daemons -> Processes]
      /\ proc[d].pc = "locked"
      /\ proc'[d].pc = "cert open" /\ proc'[d].ca = used.ca + 1 /\ proc'[d].config = proc[d].config /\ proc'[d].raced = proc[d].raced
      /\ \A e \in Daemons \ {d} : proc'[e] = proc[e]
  <2>0. used.ca + 1 \in Nat
    BY <1>t DEF TypeOK
  <2>1. [proc[d] EXCEPT !.pc = "cert open", !.ca = used.ca + 1] \in Processes
    BY <2>0, <1>t, ProcessFields, Zenon DEF TypeOK, Stages, Owning
  <2>2. proc' = [proc EXCEPT ![d] = [proc[d] EXCEPT !.pc = "cert open", !.ca = used.ca + 1]]
    BY <1>t, Zenon DEF TypeOK, GenerateCa
  <2> QED
    <3>1. /\ proc' \in [Daemons -> Processes]
          /\ proc'[d] = [proc[d] EXCEPT !.pc = "cert open", !.ca = used.ca + 1]
          /\ \A e \in Daemons \ {d} : proc'[e] = proc[e]
      BY <1>t, <2>1, <2>2, OneChanges, Zenon
    <3>2. proc[d].pc = "locked"
      BY Zenon DEF GenerateCa, At
    <3>3. proc[d] \in Processes
      BY <1>t, Zenon DEF TypeOK
    <3> QED
      BY <3>1, <3>2, <3>3, Zenon DEF Processes
<1>u. UNCHANGED <<lock, disk, acked, sock>>
  BY Zenon DEF GenerateCa
<1>1. TypeOK'
  <2>1. used' \in [starts : 0..MaxStarts, changes : 0..MaxChanges, crashes : 0..MaxCrashes, flips : 0..MaxFlips, ca : Nat]
    BY <1>t, <1>n, Zenon DEF TypeOK, GenerateCa
  <2>2. ca' \in [cert : Nat, key : Nat]
    BY <1>t, Zenon DEF TypeOK, Half, GenerateCa
  <2> QED
    BY <1>a, <1>t, <2>1, <2>2, Zenon DEF TypeOK, GenerateCa
<1>2. LockHeld'
  BY <1>a, <1>u, <1>t, LifecycleAssumption, Zenon DEF IInv, TypeOK, LockHeld, Owning
<1>3. SocketHeld'
  BY <1>a, <1>u, <1>t, Zenon DEF IInv, TypeOK, SocketHeld, LockHeld, Owning
<1>4. CaPaired'
  <2>1. ca'.cert = Half /\ ca'.key = ca.key /\ used'.ca = used.ca + 1
    BY <1>t, Zenon DEF TypeOK, GenerateCa
  <2> QED
    BY <2>1, <1>t DEF IInv, CaPaired, TypeOK, Missing, Half
<1>5. CaWritten'
  <2>1. \A e \in Daemons \ {d} : CaFits(e)'
    BY <1>a, Alone, Zenon DEF CaFits, Owning
  <2>2. ca.key = Missing
    BY Zenon DEF GenerateCa, CaPresent, IInv, CaPaired
  <2>3. ca'.key = Missing
    BY <2>2, <1>t, Zenon DEF GenerateCa, TypeOK
  <2>4. used.ca + 1 > Half
    BY <1>t DEF IInv, CaPaired, TypeOK, Half
  <2>5. CaFits(d)'
    BY <2>3, <2>4, <1>a, Zenon DEF CaFits
  <2> QED
    BY <2>1, <2>5, Zenon DEF CaWritten
<1>6. Current'
  BY <1>a, <1>u, <1>t, Zenon DEF IInv, TypeOK, Current
<1>7. SurvivesHandover'
  BY <1>a, <1>u, <1>t, Zenon DEF IInv, TypeOK, SurvivesHandover
<1> QED
  BY <1>1, <1>2, <1>3, <1>4, <1>5, <1>6, <1>7, Zenon DEF IInv

LEMMA OpenKeyStep ==
    ASSUME IInv, NEW d \in Daemons, WriteKey(d), At(d, "cert")
    PROVE  IInv'
<1>t. TypeOK
  BY Zenon DEF IInv
<1>a. /\ proc' \in [Daemons -> Processes]
      /\ proc[d].pc = "cert"
      /\ proc'[d].pc = "key open" /\ proc'[d].ca = proc[d].ca /\ proc'[d].config = proc[d].config /\ proc'[d].raced = proc[d].raced
      /\ \A e \in Daemons \ {d} : proc'[e] = proc[e]
  BY <1>t, GoFacts, Zenon DEF WriteKey, At, Stages, Owning
<1>u. UNCHANGED <<lock, disk, acked, sock, used>>
  BY Zenon DEF WriteKey
<1>1. TypeOK'
  <2>1. ca' \in [cert : Nat, key : Nat]
    <3>1. ca' = [ca EXCEPT !.key = Half]
      BY Zenon DEF WriteKey, At
    <3> QED
      BY <3>1, <1>t, Zenon DEF TypeOK, Half
  <2> QED
    BY <1>a, <1>t, <2>1, Zenon DEF TypeOK, WriteKey, At
<1>2. LockHeld'
  BY <1>a, <1>u, <1>t, LifecycleAssumption, Zenon DEF IInv, TypeOK, LockHeld, Owning
<1>3. SocketHeld'
  BY <1>a, <1>u, <1>t, Zenon DEF IInv, TypeOK, SocketHeld, LockHeld, Owning
<1>4. CaPaired'
  <2>1. ca'.cert = proc[d].ca /\ ca'.key = Half /\ proc[d].ca > Half
    BY <1>a, <1>t, Zenon DEF IInv, CaWritten, CaFits, TypeOK, WriteKey, At
  <2> QED
    BY <2>1, <1>u DEF IInv, CaPaired, Missing, Half
<1>5. CaWritten'
  <2>1. \A e \in Daemons \ {d} : CaFits(e)'
    BY <1>a, Alone, Zenon DEF CaFits, Owning
  <2>2. ca'.cert = proc[d].ca /\ proc[d].ca > Half
    BY <1>a, <1>t, Zenon DEF IInv, CaWritten, CaFits, TypeOK, WriteKey, At
  <2>3. CaFits(d)'
    BY <1>a, <2>2, Zenon DEF CaFits
  <2> QED
    BY <2>1, <2>3, Zenon DEF CaWritten
<1>6. Current'
  BY <1>a, <1>u, <1>t, Zenon DEF IInv, TypeOK, Current
<1>7. SurvivesHandover'
  BY <1>a, <1>u, <1>t, Zenon DEF IInv, TypeOK, SurvivesHandover
<1> QED
  BY <1>1, <1>2, <1>3, <1>4, <1>5, <1>6, <1>7, Zenon DEF IInv

LEMMA WroteKeyStep ==
    ASSUME IInv, NEW d \in Daemons, WriteKey(d), At(d, "key open")
    PROVE  IInv'
<1>t. TypeOK
  BY Zenon DEF IInv
<1>a. /\ proc' \in [Daemons -> Processes]
      /\ proc[d].pc = "key open"
      /\ proc'[d].pc = "ca" /\ proc'[d].ca = proc[d].ca /\ proc'[d].config = proc[d].config /\ proc'[d].raced = proc[d].raced
      /\ \A e \in Daemons \ {d} : proc'[e] = proc[e]
  BY <1>t, GoFacts, Zenon DEF WriteKey, At, Stages, Owning
<1>u. UNCHANGED <<lock, disk, acked, sock, used>>
  BY Zenon DEF WriteKey
<1>1. TypeOK'
  <2>1. ca' \in [cert : Nat, key : Nat]
    BY <1>t, Zenon DEF TypeOK, Processes, WriteKey, At
  <2> QED
    BY <1>a, <1>t, <2>1, Zenon DEF TypeOK, WriteKey, At
<1>2. LockHeld'
  BY <1>a, <1>u, <1>t, LifecycleAssumption, Zenon DEF IInv, TypeOK, LockHeld, Owning
<1>3. SocketHeld'
  BY <1>a, <1>u, <1>t, Zenon DEF IInv, TypeOK, SocketHeld, LockHeld, Owning
<1>4. CaPaired'
  <2>1. ca'.cert = proc[d].ca /\ ca'.key = proc[d].ca /\ proc[d].ca > Half
    BY <1>a, <1>t, Zenon DEF IInv, CaWritten, CaFits, TypeOK, WriteKey, At
  <2> QED
    BY <2>1, <1>u, Zenon DEF IInv, CaPaired, Missing, Half
<1>5. CaWritten'
  <2>1. \A e \in Daemons \ {d} : CaFits(e)'
    BY <1>a, Alone, Zenon DEF CaFits, Owning
  <2>2. ca'.cert = proc[d].ca /\ ca'.key = proc[d].ca
    BY <1>a, <1>t, Zenon DEF IInv, CaWritten, CaFits, TypeOK, WriteKey, At
  <2>3. CaFits(d)'
    BY <1>a, <2>2, Zenon DEF CaFits
  <2> QED
    BY <2>1, <2>3, Zenon DEF CaWritten
<1>6. Current'
  BY <1>a, <1>u, <1>t, Zenon DEF IInv, TypeOK, Current
<1>7. SurvivesHandover'
  BY <1>a, <1>u, <1>t, Zenon DEF IInv, TypeOK, SurvivesHandover
<1> QED
  BY <1>1, <1>2, <1>3, <1>4, <1>5, <1>6, <1>7, Zenon DEF IInv

LEMMA BindWebStep ==
    ASSUME IInv, NEW d \in Daemons, BindWeb(d)
    PROVE  IInv'
<1>t. TypeOK
  BY Zenon DEF IInv
<1>a. /\ proc' \in [Daemons -> Processes]
      /\ proc[d].pc = "ca"
      /\ proc'[d].pc = "web" /\ proc'[d].ca = proc[d].ca /\ proc'[d].config = proc[d].config /\ proc'[d].raced = proc[d].raced
      /\ \A e \in Daemons \ {d} : proc'[e] = proc[e]
  <2>1. PICK web \in Webs : proc' = [proc EXCEPT ![d].pc = "web", ![d].web = web]
    BY Zenon DEF BindWeb, Webs
  <2>2. [proc[d] EXCEPT !.pc = "web", !.web = web] \in Processes
    BY <1>t, ProcessFields, Zenon DEF TypeOK, Stages, Owning
  <2>3. proc' = [proc EXCEPT ![d] = [proc[d] EXCEPT !.pc = "web", !.web = web]]
    BY <2>1, <1>t, Zenon DEF TypeOK
  <2> QED
    BY <1>t, <2>2, <2>3, OneChanges DEF BindWeb, At, TypeOK, Processes
<1>u. UNCHANGED <<lock, disk, acked, ca, sock, used>>
  BY Zenon DEF BindWeb
<1>1. TypeOK'
  <2>1. held' \in [Ports -> Daemons \cup {Nobody}]
    BY <1>t DEF TypeOK, BindWeb
  <2> QED
    BY <1>a, <1>t, <2>1, Zenon DEF TypeOK, BindWeb
<1>2. LockHeld'
  BY <1>a, <1>u, <1>t, LifecycleAssumption, Zenon DEF IInv, TypeOK, LockHeld, Owning
<1>3. SocketHeld'
  BY <1>a, <1>u, <1>t, Zenon DEF IInv, TypeOK, SocketHeld, LockHeld, Owning
<1>4. CaPaired'
  BY <1>a, <1>u, Zenon DEF IInv, CaPaired
<1>5. CaWritten'
  <2>1. \A e \in Daemons \ {d} : CaFits(e)'
    BY <1>a, <1>u, Zenon DEF IInv, CaWritten, CaFits
  <2>2. CaFits(d)'
    BY <1>a, <1>u, Zenon DEF IInv, CaWritten, CaFits
  <2> QED
    BY <2>1, <2>2, Zenon DEF CaWritten
<1>6. Current'
  BY <1>a, <1>u, <1>t DEF IInv, TypeOK, Current
<1>7. SurvivesHandover'
  BY <1>a, <1>u, <1>t, Zenon DEF IInv, TypeOK, SurvivesHandover
<1> QED
  BY <1>1, <1>2, <1>3, <1>4, <1>5, <1>6, <1>7, Zenon DEF IInv

LEMMA BindDnsStep ==
    ASSUME IInv, NEW d \in Daemons, BindDns(d)
    PROVE  IInv'
<1>t. TypeOK
  BY Zenon DEF IInv
<1>a. /\ proc' \in [Daemons -> Processes]
      /\ proc[d].pc = "ipc"
      /\ proc'[d].pc = "dns" /\ proc'[d].ca = proc[d].ca /\ proc'[d].config = proc[d].config /\ proc'[d].raced = proc[d].raced
      /\ \A e \in Daemons \ {d} : proc'[e] = proc[e]
  BY <1>t, GoFacts, Zenon DEF BindDns, At, Stages, Owning, BindOne
<1>u. UNCHANGED <<lock, disk, acked, ca, sock, used>>
  BY Zenon DEF BindDns, BindOne
<1>1. TypeOK'
  <2>1. held' \in [Ports -> Daemons \cup {Nobody}]
    BY <1>t, Zenon DEF TypeOK, BindDns, BindOne, Ports
  <2> QED
    BY <1>a, <1>t, <2>1, Zenon DEF TypeOK, BindDns, BindOne
<1>2. LockHeld'
  BY <1>a, <1>u, <1>t, LifecycleAssumption, Zenon DEF IInv, TypeOK, LockHeld, Owning
<1>3. SocketHeld'
  BY <1>a, <1>u, <1>t, Zenon DEF IInv, TypeOK, SocketHeld, LockHeld, Owning
<1>4. CaPaired'
  BY <1>a, <1>u, Zenon DEF IInv, CaPaired
<1>5. CaWritten'
  <2>1. \A e \in Daemons \ {d} : CaFits(e)'
    BY <1>a, <1>u, Zenon DEF IInv, CaWritten, CaFits
  <2>2. CaFits(d)'
    BY <1>a, <1>u, Zenon DEF IInv, CaWritten, CaFits
  <2> QED
    BY <2>1, <2>2, Zenon DEF CaWritten
<1>6. Current'
  BY <1>a, <1>u, <1>t DEF IInv, TypeOK, Current
<1>7. SurvivesHandover'
  BY <1>a, <1>u, <1>t, Zenon DEF IInv, TypeOK, SurvivesHandover
<1> QED
  BY <1>1, <1>2, <1>3, <1>4, <1>5, <1>6, <1>7, Zenon DEF IInv

LEMMA BindMailStep ==
    ASSUME IInv, NEW d \in Daemons, BindMail(d)
    PROVE  IInv'
<1>t. TypeOK
  BY Zenon DEF IInv
<1>a. /\ proc' \in [Daemons -> Processes]
      /\ proc[d].pc = "dns"
      /\ proc'[d].pc = "mail" /\ proc'[d].ca = proc[d].ca /\ proc'[d].config = proc[d].config /\ proc'[d].raced = proc[d].raced
      /\ \A e \in Daemons \ {d} : proc'[e] = proc[e]
  BY <1>t, GoFacts, Zenon DEF BindMail, At, Stages, Owning, BindOne
<1>u. UNCHANGED <<lock, disk, acked, ca, sock, used>>
  BY Zenon DEF BindMail, BindOne
<1>1. TypeOK'
  <2>1. held' \in [Ports -> Daemons \cup {Nobody}]
    BY <1>t, Zenon DEF TypeOK, BindMail, BindOne, Ports
  <2> QED
    BY <1>a, <1>t, <2>1, Zenon DEF TypeOK, BindMail, BindOne
<1>2. LockHeld'
  BY <1>a, <1>u, <1>t, LifecycleAssumption, Zenon DEF IInv, TypeOK, LockHeld, Owning
<1>3. SocketHeld'
  BY <1>a, <1>u, <1>t, Zenon DEF IInv, TypeOK, SocketHeld, LockHeld, Owning
<1>4. CaPaired'
  BY <1>a, <1>u, Zenon DEF IInv, CaPaired
<1>5. CaWritten'
  <2>1. \A e \in Daemons \ {d} : CaFits(e)'
    BY <1>a, <1>u, Zenon DEF IInv, CaWritten, CaFits
  <2>2. CaFits(d)'
    BY <1>a, <1>u, Zenon DEF IInv, CaWritten, CaFits
  <2> QED
    BY <2>1, <2>2, Zenon DEF CaWritten
<1>6. Current'
  BY <1>a, <1>u, <1>t DEF IInv, TypeOK, Current
<1>7. SurvivesHandover'
  BY <1>a, <1>u, <1>t, Zenon DEF IInv, TypeOK, SurvivesHandover
<1> QED
  BY <1>1, <1>2, <1>3, <1>4, <1>5, <1>6, <1>7, Zenon DEF IInv

LEMMA ShutdownStep ==
    ASSUME IInv, NEW d \in Daemons, Shutdown(d)
    PROVE  IInv'
<1>t. TypeOK
  BY Zenon DEF IInv
<1>a. /\ proc' \in [Daemons -> Processes]
      /\ proc[d].pc = "serving"
      /\ proc'[d].pc = "draining" /\ proc'[d].ca = proc[d].ca /\ proc'[d].config = proc[d].config /\ proc'[d].raced = proc[d].raced
      /\ \A e \in Daemons \ {d} : proc'[e] = proc[e]
  <2>1. PICK r \in BOOLEAN : proc' = [proc EXCEPT ![d].pc = "draining", ![d].restart = r]
    BY Zenon DEF Shutdown
  <2>2. [proc[d] EXCEPT !.pc = "draining", !.restart = r] \in Processes
    BY <1>t, ProcessFields, Zenon DEF TypeOK, Stages, Owning
  <2>3. proc' = [proc EXCEPT ![d] = [proc[d] EXCEPT !.pc = "draining", !.restart = r]]
    BY <2>1, <1>t, Zenon DEF TypeOK
  <2> QED
    BY <1>t, <2>2, <2>3, OneChanges, Zenon DEF Shutdown, At, TypeOK, Processes
<1>u. UNCHANGED <<lock, disk, acked, ca, sock, used>>
  BY Zenon DEF Shutdown
<1>1. TypeOK'
  BY <1>a, <1>t, Zenon DEF TypeOK, Shutdown
<1>2. LockHeld'
  BY <1>a, <1>u, <1>t, LifecycleAssumption, Zenon DEF IInv, TypeOK, LockHeld, Owning
<1>3. SocketHeld'
  BY <1>a, <1>u, <1>t, Zenon DEF IInv, TypeOK, SocketHeld, LockHeld, Owning
<1>4. CaPaired'
  BY <1>a, <1>u, Zenon DEF IInv, CaPaired
<1>5. CaWritten'
  <2>1. \A e \in Daemons \ {d} : CaFits(e)'
    BY <1>a, <1>u, Zenon DEF IInv, CaWritten, CaFits
  <2>2. CaFits(d)'
    BY <1>a, <1>u, Zenon DEF IInv, CaWritten, CaFits
  <2> QED
    BY <2>1, <2>2, Zenon DEF CaWritten
<1>6. Current'
  BY <1>a, <1>u, <1>t DEF IInv, TypeOK, Current
<1>7. SurvivesHandover'
  BY <1>a, <1>u, <1>t, Zenon DEF IInv, TypeOK, SurvivesHandover
<1> QED
  BY <1>1, <1>2, <1>3, <1>4, <1>5, <1>6, <1>7, Zenon DEF IInv

LEMMA DrainStep ==
    ASSUME IInv, NEW d \in Daemons, Drain(d)
    PROVE  IInv'
<1>t. TypeOK
  BY Zenon DEF IInv
<1>a. /\ proc' \in [Daemons -> Processes]
      /\ proc[d].pc = "draining"
      /\ proc'[d].pc = "stopped" /\ proc'[d].ca = proc[d].ca /\ proc'[d].config = proc[d].config /\ proc'[d].raced = proc[d].raced
      /\ \A e \in Daemons \ {d} : proc'[e] = proc[e]
  BY <1>t, GoFacts, Zenon DEF Drain, At, Stages, Owning
<1>u. UNCHANGED <<lock, disk, acked, ca, used>>
  BY Zenon DEF Drain
<1>1. TypeOK'
  <2>1. held' \in [Ports -> Daemons \cup {Nobody}]
    BY <1>t, Zenon DEF TypeOK, Drain
  <2>2. sock' \in Daemons \cup {Nobody}
    BY <1>t, Zenon DEF TypeOK, Drain
  <2> QED
    BY <1>a, <1>t, <2>1, <2>2, Zenon DEF TypeOK, Drain
<1>2. LockHeld'
  BY <1>a, <1>u, <1>t, LifecycleAssumption, Zenon DEF IInv, TypeOK, LockHeld, Owning
<1>3. SocketHeld'
  BY <1>a, Alone, Zenon DEF SocketHeld, Owning
<1>4. CaPaired'
  BY <1>a, <1>u, Zenon DEF IInv, CaPaired
<1>5. CaWritten'
  <2>1. \A e \in Daemons \ {d} : CaFits(e)'
    BY <1>a, <1>u, Zenon DEF IInv, CaWritten, CaFits
  <2>2. CaFits(d)'
    BY <1>a, <1>u, Zenon DEF IInv, CaWritten, CaFits
  <2> QED
    BY <2>1, <2>2, Zenon DEF CaWritten
<1>6. Current'
  BY <1>a, <1>u, <1>t DEF IInv, TypeOK, Current
<1>7. SurvivesHandover'
  BY <1>a, <1>u, <1>t, Zenon DEF IInv, TypeOK, SurvivesHandover
<1> QED
  BY <1>1, <1>2, <1>3, <1>4, <1>5, <1>6, <1>7, Zenon DEF IInv

LEMMA GoneStep ==
    ASSUME IInv, NEW d \in Daemons, Exit(d)
    PROVE  IInv'
<1>t. TypeOK
  BY Zenon DEF IInv
<1>a. /\ proc' \in [Daemons -> Processes]
      /\ proc[d].pc = "released"
      /\ proc'[d].pc \in {"off", "starting"} /\ ~proc'[d].raced
      /\ \A e \in Daemons \ {d} : proc'[e] = proc[e]
  BY <1>t, FreshType, OneChanges, Zenon DEF Exit, At
<1>u. UNCHANGED <<lock, disk, acked, ca, sock, used>>
  BY Zenon DEF Exit
<1>1. TypeOK'
  <2>1. held' \in [Ports -> Daemons \cup {Nobody}]
    BY <1>t, Zenon DEF TypeOK, Exit, Dropped
  <2> QED
    BY <1>a, <1>t, <2>1, Zenon DEF TypeOK, Exit
<1>2. LockHeld'
  BY <1>a, <1>u, <1>t, LifecycleAssumption, Zenon DEF IInv, TypeOK, LockHeld, Owning
<1>3. SocketHeld'
  BY <1>a, <1>u, <1>t, Zenon DEF IInv, TypeOK, SocketHeld, LockHeld, Owning
<1>4. CaPaired'
  BY <1>a, <1>u, Zenon DEF IInv, CaPaired
<1>5. CaWritten'
  <2>1. \A e \in Daemons \ {d} : CaFits(e)'
    BY <1>a, <1>u, Zenon DEF IInv, CaWritten, CaFits
  <2>2. CaFits(d)'
    BY <1>a, <1>u, Zenon DEF IInv, CaWritten, CaFits
  <2> QED
    BY <2>1, <2>2, Zenon DEF CaWritten
<1>6. Current'
  BY <1>a, <1>u, <1>t DEF IInv, TypeOK, Current
<1>7. SurvivesHandover'
  BY <1>a, <1>u, <1>t, Zenon DEF IInv, TypeOK, SurvivesHandover
<1> QED
  BY <1>1, <1>2, <1>3, <1>4, <1>5, <1>6, <1>7, Zenon DEF IInv

LEMMA CaUnreadStep ==
    ASSUME IInv, NEW d \in Daemons, LoadCa(d), Half \in {ca.cert, ca.key}
    PROVE  IInv'
<1>t. TypeOK
  BY Zenon DEF IInv
<1>a. /\ proc' \in [Daemons -> Processes]
      /\ proc[d].pc = "locked"
      /\ proc'[d].pc = "off" /\ ~proc'[d].raced
      /\ \A e \in Daemons \ {d} : proc'[e] = proc[e]
  BY <1>t, FreshType, OneChanges, Zenon DEF LoadCa, Fail, At
<1>u. UNCHANGED <<disk, acked, ca, sock, used>>
  BY Zenon DEF LoadCa
<1>1. TypeOK'
  <2>1. held' \in [Ports -> Daemons \cup {Nobody}]
    BY <1>t DEF TypeOK, LoadCa, Fail, Dropped
  <2>2. lock' \in Daemons \cup {Nobody}
    BY <1>t, Zenon DEF TypeOK, LoadCa, Fail
  <2> QED
    BY <1>a, <1>t, <2>1, <2>2, Zenon DEF TypeOK, LoadCa
<1>2. LockHeld'
  <2>1. lock' = IF lock = d THEN Nobody ELSE lock
    BY Zenon DEF LoadCa, Fail
  <2> QED
    BY <2>1, <1>a, LifecycleAssumption, Zenon DEF IInv, LockHeld, Owning
<1>3. SocketHeld'
  BY <1>a, <1>u, <1>t, Zenon DEF IInv, TypeOK, SocketHeld, LockHeld, Owning
<1>4. CaPaired'
  BY <1>a, <1>u, Zenon DEF IInv, CaPaired
<1>5. CaWritten'
  <2>1. \A e \in Daemons \ {d} : CaFits(e)'
    BY <1>a, <1>u, Zenon DEF IInv, CaWritten, CaFits
  <2>2. CaFits(d)'
    BY <1>a, <1>u, Zenon DEF IInv, CaWritten, CaFits
  <2> QED
    BY <2>1, <2>2, Zenon DEF CaWritten
<1>6. Current'
  BY <1>a, <1>u, <1>t DEF IInv, TypeOK, Current
<1>7. SurvivesHandover'
  BY <1>a, <1>u, <1>t, Zenon DEF IInv, TypeOK, SurvivesHandover
<1> QED
  BY <1>1, <1>2, <1>3, <1>4, <1>5, <1>6, <1>7, Zenon DEF IInv

LEMMA CrashStep ==
    ASSUME IInv, NEW d \in Daemons, Crash(d)
    PROVE  IInv'
<1>t. TypeOK
  BY Zenon DEF IInv
<1>a. /\ proc' \in [Daemons -> Processes]
      /\ proc[d].pc # "off"
      /\ proc'[d].pc = "off" /\ ~proc'[d].raced
      /\ \A e \in Daemons \ {d} : proc'[e] = proc[e]
  BY <1>t, FreshType, OneChanges, Zenon DEF Crash, Fail, At
<1>u. UNCHANGED <<disk, acked, ca>> /\ used'.ca = used.ca
  BY <1>t, Zenon DEF Crash, TypeOK
<1>1. TypeOK'
  <2>1. held' \in [Ports -> Daemons \cup {Nobody}]
    BY <1>t, Zenon DEF TypeOK, Crash, Fail, Dropped
  <2>2. lock' \in Daemons \cup {Nobody}
    BY <1>t, Zenon DEF TypeOK, Crash, Fail
  <2>3. used' \in [starts : 0..MaxStarts, changes : 0..MaxChanges, crashes : 0..MaxCrashes, flips : 0..MaxFlips, ca : Nat]
    BY <1>t, LifecycleAssumption DEF TypeOK, Crash
  <2>4. sock' \in Daemons \cup {Nobody}
    BY <1>t, Zenon DEF TypeOK, Crash
  <2> QED
    BY <1>a, <1>t, <2>1, <2>2, <2>3, <2>4, Zenon DEF TypeOK, Crash
<1>2. LockHeld'
  <2>1. lock' = IF lock = d THEN Nobody ELSE lock
    BY Zenon DEF Crash, Fail
  <2> QED
    BY <2>1, <1>a, LifecycleAssumption, Zenon DEF IInv, LockHeld, Owning
<1>3. SocketHeld'
  <2>1. sock' = IF sock = d THEN Nobody ELSE sock
    BY Zenon DEF Crash
  <2> QED
    BY <2>1, <1>a, Zenon DEF IInv, SocketHeld
<1>4. CaPaired'
  BY <1>a, <1>u, Zenon DEF IInv, CaPaired
<1>5. CaWritten'
  <2>1. \A e \in Daemons \ {d} : CaFits(e)'
    BY <1>a, <1>u, Zenon DEF IInv, CaWritten, CaFits
  <2>2. CaFits(d)'
    BY <1>a, <1>u, Zenon DEF IInv, CaWritten, CaFits
  <2> QED
    BY <2>1, <2>2, Zenon DEF CaWritten
<1>6. Current'
  BY <1>a, <1>u, <1>t DEF IInv, TypeOK, Current
<1>7. SurvivesHandover'
  BY <1>a, <1>u, <1>t, Zenon DEF IInv, TypeOK, SurvivesHandover
<1> QED
  BY <1>1, <1>2, <1>3, <1>4, <1>5, <1>6, <1>7, Zenon DEF IInv

LEMMA ChangeStep ==
    ASSUME IInv, NEW d \in Daemons, Change(d)
    PROVE  IInv'
<1> DEFINE new == proc[d].config \cup {used.changes + 1}
<1>t. TypeOK
  BY Zenon DEF IInv
<1>n. used.changes + 1 \in 1..MaxChanges
  BY <1>t, LifecycleAssumption DEF TypeOK, Change
<1>c. proc[d] \in Processes /\ new \in SUBSET (1..MaxChanges)
  BY <1>t, <1>n, Zenon DEF TypeOK, Processes
<1>p. proc' = [e \in Daemons |->
             IF e = d THEN [proc[d] EXCEPT !.config = new]
             ELSE IF proc[e].pc \in {"starting", "off"} THEN proc[e]
             ELSE [proc[e] EXCEPT !.raced = TRUE]]
  BY Zenon DEF Change
<1>u. /\ UNCHANGED <<lock, ca, sock, held, pf>> /\ disk' = new
      /\ acked' = [ok |-> acked.ok \cup {used.changes + 1},
                   raced |-> acked.raced \cup (IF proc[d].raced THEN disk \ new ELSE {})]
      /\ used' = [used EXCEPT !.changes = @ + 1]
      /\ proc[d].pc \in {"serving", "draining", "stopped", "released"}
  BY Zenon DEF Change
<1> HIDE DEF new
<1>d. proc'[d] \in Processes /\ proc'[d].pc = proc[d].pc /\ proc'[d].ca = proc[d].ca /\ proc'[d].config = new
  <2>1. proc'[d] = [proc[d] EXCEPT !.config = new]
    BY <1>p, Zenon
  <2>2. [proc[d] EXCEPT !.config = new] \in Processes
    <3>1. proc[d].pc \in Stages
      BY <1>c, Zenon DEF Processes
    <3> QED
      BY <1>c, <3>1, ProcessFields, Zenon
  <2> QED
    BY <2>1, <2>2, <1>c, Zenon DEF Processes
<1>e. \A e \in Daemons \ {d} :
         /\ proc'[e] \in Processes /\ proc'[e].pc = proc[e].pc /\ proc'[e].ca = proc[e].ca
         /\ proc[e].pc \notin {"off", "starting"} => proc'[e].raced
  <2> SUFFICES ASSUME NEW e \in Daemons \ {d}
               PROVE  /\ proc'[e] \in Processes /\ proc'[e].pc = proc[e].pc /\ proc'[e].ca = proc[e].ca
                      /\ proc[e].pc \notin {"off", "starting"} => proc'[e].raced
    BY Zenon
  <2>1. proc[e] \in Processes
    BY <1>t, Zenon DEF TypeOK
  <2>2. CASE proc[e].pc \in {"starting", "off"}
    BY <1>p, <2>1, <2>2, Zenon
  <2>3. CASE proc[e].pc \notin {"starting", "off"}
    <3>1. proc'[e] = [proc[e] EXCEPT !.raced = TRUE]
      BY <1>p, <2>3, Zenon
    <3> QED
      BY <3>1, <2>1, <2>3, Zenon DEF Processes
  <2> QED
    BY <2>2, <2>3, Zenon
<1>1. TypeOK'
  <2>1. proc' \in [Daemons -> Processes]
    BY <1>p, <1>d, <1>e, Zenon
  <2>2. used' \in [starts : 0..MaxStarts, changes : 0..MaxChanges, crashes : 0..MaxCrashes, flips : 0..MaxFlips, ca : Nat]
    BY <1>t, <1>u, <1>n DEF TypeOK
  <2>3. acked' \in [ok : SUBSET (1..MaxChanges), raced : SUBSET (1..MaxChanges)]
    BY <1>t, <1>u, <1>n, Zenon DEF TypeOK
  <2> QED
    BY <2>1, <2>2, <2>3, <1>t, <1>u, <1>c, Zenon DEF TypeOK
<1>2. LockHeld'
  BY <1>d, <1>e, <1>u, Zenon DEF IInv, LockHeld
<1>3. SocketHeld'
  BY <1>d, <1>e, <1>u, Zenon DEF IInv, SocketHeld
<1>4. CaPaired'
  <2>1. used'.ca = used.ca
    BY <1>t, <1>u, Zenon DEF TypeOK
  <2> QED
    BY <2>1, <1>u, Zenon DEF IInv, CaPaired
<1>5. CaWritten'
  BY <1>d, <1>e, <1>u, Zenon DEF IInv, CaWritten, CaFits
<1>6. Current'
  BY <1>d, <1>e, <1>u, Zenon DEF Current
<1>7. SurvivesHandover'
  <2>1. acked'.ok = acked.ok \cup {used.changes + 1} /\ used.changes + 1 \in new
    BY <1>u, Zenon DEF new
  <2>2. acked.raced \subseteq acked'.raced
    BY <1>u, Zenon
  <2>3. CASE proc[d].raced
    BY <2>1, <2>2, <2>3, <1>u, Zenon DEF IInv, SurvivesHandover
  <2>4. CASE ~proc[d].raced
    <3>1. disk \subseteq new
      BY <2>4, <1>u, Zenon DEF IInv, Current, new
    <3> QED
      BY <3>1, <2>1, <2>2, <1>u, Zenon DEF IInv, SurvivesHandover
  <2> QED
    BY <2>3, <2>4, Zenon
<1> QED
  BY <1>1, <1>2, <1>3, <1>4, <1>5, <1>6, <1>7, Zenon DEF IInv

LEMMA FlipStep ==
    ASSUME IInv, Flip
    PROVE  IInv'
<1>t. TypeOK
  BY Zenon DEF IInv
<1>1. TypeOK'
  <2>1. used' \in [starts : 0..MaxStarts, changes : 0..MaxChanges, crashes : 0..MaxCrashes, flips : 0..MaxFlips, ca : Nat]
    BY <1>t, LifecycleAssumption DEF TypeOK, Flip
  <2>2. pf' \in BOOLEAN
    BY Zenon DEF Flip
  <2> QED
    BY <2>1, <2>2, <1>t, Zenon DEF TypeOK, Flip
<1>2. used'.ca = used.ca
  BY <1>t, Zenon DEF TypeOK, Flip
<1>3. UNCHANGED <<proc, lock, disk, acked, ca, sock>>
  BY Zenon DEF Flip
<1> QED
  BY <1>1, <1>2, <1>3, Zenon DEF IInv, LockHeld, SocketHeld, CaPaired, CaWritten, CaFits, Current, SurvivesHandover

-----------------------------------------------------------------------------
(* The instance lock, the socket, the CA files and the config file stay in   *)
(* step with each process's own idea of them, whatever boots, restarts,      *)
(* shutdowns and crashes interleave (InstanceLock, load_or_generate_ca).     *)
THEOREM Inductive == Spec => []IInv
<1>1. ASSUME IInv, Next PROVE IInv'
  <2>1. CASE Flip
    BY <2>1, <1>1, FlipStep, Zenon
  <2>2. CASE Rest
    <3>1. UNCHANGED vars
      BY <2>2, Zenon DEF Rest
    <3> QED
      BY <3>1, <1>1, Zenon DEF vars, IInv, TypeOK, LockHeld, SocketHeld, CaPaired, CaWritten, CaFits, Current, SurvivesHandover
  <2>3. ASSUME NEW d \in Daemons,
               Start(d) \/ BootStep(d) \/ ExitStep(d) \/ Change(d) \/ RedirectProbe(d) \/ Shutdown(d) \/ Crash(d)
        PROVE  IInv'
    <3>1. CASE BootStep(d)
      <4>1. CASE Acquire(d)
        BY <4>1, <1>1, AcquiredStep, TurnedStep, Zenon
      <4>2. CASE LoadCa(d)
        BY <4>2, <1>1, ReadCaStep, CaUnreadStep, Zenon
      <4>3. CASE WriteKey(d)
        <5>1. At(d, "cert") \/ At(d, "key open")
          BY <4>3, Zenon DEF WriteKey
        <5> QED
          BY <5>1, <4>3, <1>1, OpenKeyStep, WroteKeyStep, Zenon
      <4> QED
        BY <3>1, <4>1, <4>2, <4>3, <1>1, LoadStep, GenerateCaStep, WriteCertStep, BindWebStep,
           BuildIpcListenerStep, BindDnsStep, BindMailStep, AssembleStep, ServeStep, Zenon DEF BootStep
    <3>2. CASE ExitStep(d)
      BY <3>2, <1>1, DrainStep, ReleaseStep, GoneStep, Zenon DEF ExitStep
    <3> QED
      BY <2>3, <3>1, <3>2, <1>1, StartStep, ChangeStep, RedirectProbeStep, ShutdownStep, CrashStep, Zenon
  <2> QED
    BY <2>1, <2>2, <2>3, <1>1, Zenon DEF Next
<1>2. ASSUME IInv, UNCHANGED vars PROVE IInv'
  BY <1>2, Zenon DEF vars, IInv, TypeOK, LockHeld, SocketHeld, CaPaired, CaWritten, CaFits, Current, SurvivesHandover
<1> QED
  BY <1>1, <1>2, InitIInv, PTL DEF Spec

(* No two processes own the daemon's files; the one that serves is the one   *)
(* yerd.sock leads to and signs with the CA on disk; a change answered Ok    *)
(* stays in yerd.toml, but for one a process overwrote that had read the     *)
(* file before it was saved (bring_up reads the config before it locks).     *)
THEOREM OneDaemonOwnsAlways == Spec => []OneDaemonOwns
<1>1. ASSUME IInv PROVE OneDaemonOwns
  <2>1. SocketIsOurs
    BY <1>1, Zenon DEF IInv, LockHeld, SocketHeld, SocketIsOurs, At
  <2>2. OneCa
    <3> SUFFICES ASSUME NEW d \in Daemons,
                        proc[d].pc \in {"web", "ipc", "dns", "mail", "assembled", "serving"}
                 PROVE  ca = [cert |-> proc[d].ca, key |-> proc[d].ca]
      BY Zenon DEF OneCa
    <3>1. ca.cert = proc[d].ca /\ ca.key = proc[d].ca
      BY <1>1, Zenon DEF IInv, CaWritten, CaFits
    <3>2. ca \in [cert : Nat, key : Nat]
      BY <1>1, Zenon DEF IInv, TypeOK
    <3> QED
      BY <3>1, <3>2, Zenon
  <2> QED
    BY <1>1, <2>1, <2>2, Zenon DEF IInv, OneDaemonOwns
<1> QED
  BY <1>1, Inductive, PTL

-----------------------------------------------------------------------------
(* The update of yerd itself (SelfUpdate), for any number of requests and    *)
(* appliers, releases, bounds and killed appliers.                           *)

(* What a check found, or answered, is published, newer and allowed on its   *)
(* channel.                                                                  *)
RightOffer(s, releases) ==
  s.target # None => /\ s.target \in releases /\ s.target > s.current
                     /\ s.channel = "stable" => ~IsPrerelease(s.target)

(* Where an applier is, and what it has: a staged file from the download on, *)
(* no backup before it is spawned, the daemon not stopped before the stop;   *)
(* once ended of itself it has restarted a daemon it stopped.                *)
NotSpawned == {"idle", "fetch", "fetched", "offline", "artifact", "sig"}
NotStopped == NotSpawned \cup {"staged", "reverify", "install", "extract", "stop"}
ActFits(x) ==
  /\ x.pc \notin {"idle", "fetch", "fetched", "offline"} => x.file # None
  /\ x.pc \in NotSpawned => x.backup = Gone
  /\ x.pc \in NotStopped => ~x.stopped
  /\ x.pc = "done" /\ x.exit # "killed" /\ x.stopped => x.restarted
ActsFit(acts, releases) ==
  /\ acts \in [Actors -> Acts]
  /\ \A a \in Actors : ActFits(acts[a]) /\ acts[a].got \subseteq releases

(* A bundle that is not installed is in a backup that nobody is about to     *)
(* remove: who removes one has put a bundle in place, and who has moved that *)
(* aside since is not that far.                                              *)
Holds(x) == x.backup # Gone /\ x.pc # "cleanup"
BundleKept(acts, bundle) == bundle = Gone => \E a \in Actors : Holds(acts[a])

UpdateInv ==
  /\ UpdateTypeOK
  /\ RightOffer(snap, published) /\ RightOffer(answer, published)
  /\ cache \subseteq published
  /\ ActsFit(actor, published) /\ BundleKept(actor, installed)

(* The latest of some releases is one of them (MaxOf).                       *)
LEMMA LatestIsOne == ASSUME NEW S \in SUBSET Versions
                     PROVE  MaxOf(S) \in S \cup {None}
<1>1. CASE S = {} BY <1>1, Zenon DEF MaxOf
<1>2. CASE S # {}
  <2>1. \E v \in S : \A w \in S : v >= w BY <1>2, SelfUpdateAssumption, Zenon
  <2>2. Max(S) \in S BY <2>1, Zenon DEF Max
  <2> QED BY <1>2, <2>2, Zenon DEF MaxOf
<1> QED BY <1>1, <1>2, Zenon

(* A manifest names published releases only (build_manifests).               *)
LEMMA ManifestsArePublished == ASSUME NEW S \in SUBSET Versions
                               PROVE  BuildManifests(S) \subseteq S
<1> DEFINE stable == MaxOf({v \in S : ~IsPrerelease(v)})
           pre == MaxOf({v \in S : IsPrerelease(v)})
<1>1. stable \in S \cup {None}
  <2>1. stable \in {v \in S : ~IsPrerelease(v)} \cup {None} BY LatestIsOne, Zenon
  <2> QED BY <2>1, Zenon
<1>2. pre \in S \cup {None}
  <2>1. pre \in {v \in S : IsPrerelease(v)} \cup {None} BY LatestIsOne, Zenon
  <2> QED BY <2>1, Zenon
<1> QED BY <1>1, <1>2 DEF BuildManifests

(* A target is selected that is right for the version and the channel it is  *)
(* selected for (select_target).                                             *)
LEMMA SelectedIsRight ==
  ASSUME NEW R \in SUBSET Versions, NEW P \in SUBSET Versions, R \subseteq P,
         NEW channel \in Channels, NEW current \in Versions \cup {Gone}
  PROVE  /\ SelectTarget(R, channel, current) \in Statuses
         /\ RightOffer(SelectTarget(R, channel, current), P)
<1> DEFINE stable == MaxOf({v \in R : ~IsPrerelease(v)})
           latest == IF channel = "stable" THEN stable ELSE MaxOf(R)
<1>1. stable \in {v \in R : ~IsPrerelease(v)} \cup {None} BY LatestIsOne, Zenon
<1>2. MaxOf(R) \in R \cup {None} BY LatestIsOne, Zenon
<1>3. latest \in R \cup {None} /\ (channel = "stable" /\ latest # None => ~IsPrerelease(latest))
  BY <1>1, <1>2, Zenon
<1> DEFINE chosen == SelectTarget(R, channel, current)
<1>4. /\ chosen.current = current /\ chosen.channel = channel
      /\ chosen.target = IF latest > current THEN latest ELSE None
      /\ chosen = [current |-> current, channel |-> channel, target |-> chosen.target,
                   ahead |-> chosen.ahead]
      /\ chosen.ahead \in BOOLEAN
  BY Zenon DEF SelectTarget
<1> HIDE DEF stable, latest, chosen
<1>5. chosen.target \in R \cup {None} BY <1>3, <1>4, Zenon
<1>6. chosen \in Statuses BY <1>4, <1>5, Zenon DEF Statuses, Gone, None
<1>7. RightOffer(chosen, P) BY <1>3, <1>4, Zenon DEF RightOffer
<1> QED BY <1>6, <1>7, Zenon DEF chosen

(* What is answered from a snapshot is right for the daemon that answers and *)
(* the channel asked about (response_from_snapshot).                         *)
LEMMA ResponseIsRight ==
  ASSUME UpdateTypeOK, NEW s \in Statuses, NEW P, RightOffer(s, P), NEW channel \in Channels
  PROVE  /\ ResponseFromSnapshot(s, channel) \in Statuses
         /\ RightOffer(ResponseFromSnapshot(s, channel), P)
<1>1. daemon.version \in Versions \cup {None} BY Zenon DEF UpdateTypeOK, Gone, None
<1> DEFINE drifted == s.current # daemon.version \/ s.channel # channel
           given == ResponseFromSnapshot(s, channel)
<1>2. given = [current |-> daemon.version, channel |-> channel,
               target |-> IF drifted THEN None ELSE s.target, ahead |-> ~drifted /\ s.ahead]
  BY Zenon DEF ResponseFromSnapshot
<1>3. s.target \in Versions \cup {None} /\ s.ahead \in BOOLEAN BY Zenon DEF Statuses
<1>4. given \in Statuses BY <1>1, <1>2, <1>3 DEF Statuses
<1>5. RightOffer(given, P)
  <2>1. CASE drifted BY <1>2, <2>1 DEF RightOffer
  <2>2. CASE ~drifted BY <1>2, <2>2 DEF RightOffer
  <2> QED BY <2>1, <2>2, Zenon
<1> QED BY <1>4, <1>5, Zenon

(* One actor changes, to a record that fits.                                 *)
LEMMA OneFits ==
  ASSUME NEW P, NEW acts, ActsFit(acts, P), NEW a \in Actors, NEW x \in Acts, ActFits(x),
         x.got \subseteq P
  PROVE  ActsFit([acts EXCEPT ![a] = x], P)
<1> DEFINE new == [acts EXCEPT ![a] = x]
<1>1. new \in [Actors -> Acts] BY Zenon DEF ActsFit
<1>2. \A b \in Actors : new[b] = IF b = a THEN x ELSE acts[b] BY Zenon DEF ActsFit
<1> HIDE DEF new
<1>3. \A b \in Actors : ActFits(new[b]) /\ new[b].got \subseteq P BY <1>2, Zenon DEF ActsFit
<1> QED BY <1>1, <1>3, Zenon DEF ActsFit, new
LEMMA OneKeeps ==
  ASSUME NEW P, NEW acts, ActsFit(acts, P), NEW i, NEW j, BundleKept(acts, i),
         NEW a \in Actors, NEW x,
         j # Gone \/ Holds(x) \/ (j = i /\ (Holds(acts[a]) => Holds(x)))
  PROVE  BundleKept([acts EXCEPT ![a] = x], j)
<1> DEFINE new == [acts EXCEPT ![a] = x]
<1>1. \A b \in Actors : new[b] = IF b = a THEN x ELSE acts[b] BY Zenon DEF ActsFit
<1> HIDE DEF new
<1>2. SUFFICES ASSUME j = Gone PROVE \E b \in Actors : Holds(new[b]) BY Zenon DEF BundleKept, new
<1>3. CASE Holds(x) BY <1>1, <1>3, Zenon
<1>4. CASE j = i /\ (Holds(acts[a]) => Holds(x))
  <2>1. PICK b \in Actors : Holds(acts[b]) BY <1>2, <1>4, Zenon DEF BundleKept
  <2> QED BY <1>1, <1>4, <2>1, Zenon
<1> QED BY <1>2, <1>3, <1>4, Zenon

(* An idle actor has nothing.                                                *)
LEMMA IdleFits == Idle \in Acts /\ ActFits(Idle) /\ Idle.got = {} /\ Idle.backup = Gone
  BY Zenon DEF Idle, Acts, ActorPcs, ActFits, Channels, None, Gone, NotSpawned, NotStopped

(* Requests that go with the daemon leave the others, and every backup, as   *)
(* they are (Without).                                                       *)
LEMMA WithoutFits ==
  ASSUME NEW P, NEW acts, ActsFit(acts, P), NEW i, BundleKept(acts, i)
  PROVE  ActsFit(Without(acts), P) /\ BundleKept(Without(acts), i)
<1> DEFINE new == Without(acts)
<1>1. \A b \in Actors : new[b] = IF acts[b].pc \in InDaemon THEN Idle ELSE acts[b] BY Zenon DEF Without
<1>2. new \in [Actors -> Acts] BY IdleFits, Zenon DEF Without, ActsFit
<1> HIDE DEF new
<1>3. \A b \in Actors : ActFits(new[b]) /\ new[b].got \subseteq P BY <1>1, IdleFits, Zenon DEF ActsFit
<1>4. \A b \in Actors : Holds(acts[b]) => Holds(new[b])
  <2> SUFFICES ASSUME NEW b \in Actors, Holds(acts[b]) PROVE Holds(new[b]) BY Zenon
  <2>1. acts[b].pc \notin InDaemon BY Zenon DEF ActsFit, ActFits, Holds, InDaemon, NotSpawned
  <2> QED BY <1>1, <2>1, Zenon
<1>5. BundleKept(new, i) BY <1>4, Zenon DEF BundleKept
<1> QED BY <1>2, <1>3, <1>5, Zenon DEF ActsFit, new

(* A step of one actor that leaves the daemon and what it knows alone.       *)
LEMMA ActorStep ==
  ASSUME UpdateInv, NEW a \in Actors, NEW x \in Acts, ActFits(x), x.got \subseteq published,
         actor' = [actor EXCEPT ![a] = x], installed' \in Versions \cup {Gone},
         \/ installed' # Gone \/ Holds(x)
         \/ installed' = installed /\ (Holds(actor[a]) => Holds(x)),
         UNCHANGED <<published, daemon, snap, cache, answer>>,
         staged' \in [Versions -> [artifact : {"none", "part", "whole"},
                                   sig : {"none", "part", "whole"}]]
  PROVE  UpdateInv'
<1>1. ActsFit(actor', published) BY OneFits, Zenon DEF UpdateInv
<1>2. BundleKept(actor', installed') BY OneKeeps, Zenon DEF UpdateInv
<1>3. UpdateTypeOK' BY <1>1, Zenon DEF UpdateInv, UpdateTypeOK, ActsFit
<1> QED BY <1>1, <1>2, <1>3, Zenon DEF UpdateInv

(* A step of an applier from pc to pc, everything else as it was.            *)
LEMMA Moves ==
  ASSUME UpdateInv, NEW a \in Actors, NEW p \in ActorPcs, ActorGoes(a, p),
         ~ActorAt(a, "done"), p \notin {"done", "idle"},
         p \in NotSpawned => actor[a].pc \in NotSpawned,
         p \in NotStopped => actor[a].pc \in NotStopped,
         p \in {"fetch", "fetched", "offline"} \/ actor[a].file # None,
         p # "cleanup" \/ installed' # Gone, installed' \in Versions \cup {Gone},
         installed' = installed \/ installed' # Gone,
         UNCHANGED <<published, daemon, snap, cache, answer>>,
         staged' \in [Versions -> [artifact : {"none", "part", "whole"},
                                   sig : {"none", "part", "whole"}]]
  PROVE  UpdateInv'
<1> DEFINE x == [actor[a] EXCEPT !.pc = p]
<1>1. actor \in [Actors -> Acts] /\ actor[a] \in Acts /\ ActFits(actor[a])
      /\ actor[a].got \subseteq published
  BY Zenon DEF UpdateInv, ActsFit
<1>2. actor' = [actor EXCEPT ![a] = x] BY <1>1, Zenon DEF ActorGoes
<1>3. x \in Acts BY <1>1, Zenon DEF Acts
<1>4. /\ x.pc = p /\ x.file = actor[a].file /\ x.backup = actor[a].backup /\ x.got = actor[a].got
      /\ x.stopped = actor[a].stopped /\ x.exit = actor[a].exit /\ x.restarted = actor[a].restarted
  BY <1>1, Zenon DEF Acts
<1> HIDE DEF x
<1>5. ActFits(x) BY <1>1, <1>4, Zenon DEF ActFits
<1>6. \/ installed' # Gone \/ Holds(x)
      \/ installed' = installed /\ (Holds(actor[a]) => Holds(x))
  BY <1>4, Zenon DEF Holds
<1> QED BY <1>1, <1>2, <1>3, <1>4, <1>5, <1>6, ActorStep, Zenon

(* An applier ends: before it has stopped the daemon, or killed.             *)
LEMMA EndsFit ==
  ASSUME UpdateInv, NEW a \in Actors, NEW code \in {"ok", "failed", "killed"}, End(a, code),
         code = "killed" \/ actor[a].pc \in NotStopped, actor[a].file # None,
         installed' \in Versions \cup {Gone}, installed' = installed \/ installed' # Gone,
         UNCHANGED <<published, daemon, snap, cache, answer, staged>>
  PROVE  UpdateInv'
<1> DEFINE x == [actor[a] EXCEPT !.pc = "done", !.exit = code]
<1>1. actor \in [Actors -> Acts] /\ actor[a] \in Acts /\ ActFits(actor[a])
      /\ actor[a].got \subseteq published
  BY Zenon DEF UpdateInv, ActsFit
<1>2. actor' = [actor EXCEPT ![a] = x] BY <1>1, Zenon DEF End
<1>3. x \in Acts BY <1>1, Zenon DEF Acts, ActorPcs
<1>4. /\ x.pc = "done" /\ x.file = actor[a].file /\ x.backup = actor[a].backup
      /\ x.got = actor[a].got /\ x.stopped = actor[a].stopped /\ x.exit = code
  BY <1>1, Zenon DEF Acts
<1> HIDE DEF x
<1>5. ActFits(x) BY <1>1, <1>4, Zenon DEF ActFits, NotSpawned, NotStopped
<1>6. Holds(actor[a]) => Holds(x) BY <1>4, Zenon DEF Holds
<1>7. staged' \in [Versions -> [artifact : {"none", "part", "whole"},
                                sig : {"none", "part", "whole"}]]
  BY Zenon DEF UpdateInv, UpdateTypeOK
<1> QED BY <1>1, <1>2, <1>3, <1>4, <1>5, <1>6, <1>7, ActorStep, Zenon

(* What UpdateInv says of one actor.                                         *)
LEMMA OneActor ==
  ASSUME UpdateInv, NEW a \in Actors
  PROVE  /\ actor \in [Actors -> Acts] /\ actor[a] \in Acts /\ ActFits(actor[a])
         /\ actor[a].got \subseteq published /\ actor[a].got \in SUBSET Versions
         /\ actor[a].channel \in Channels /\ actor[a].file \in Versions \cup {None}
         /\ actor[a].backup \in Versions \cup {Gone}
  BY Zenon DEF UpdateInv, ActsFit, Acts
LEMMA StagedTyped ==
  ASSUME UpdateInv
  PROVE  staged \in [Versions -> [artifact : {"none", "part", "whole"},
                                  sig : {"none", "part", "whole"}]]
  BY Zenon DEF UpdateInv, UpdateTypeOK

(* A request begins, and fetches a manifest or not.                          *)
LEMMA BeginFits ==
  ASSUME UpdateInv, NEW a \in Actors, NEW op \in {"check", "poll", "stage"}, Begin(a, op)
  PROVE  UpdateInv'
<1>1. PICK over \in {"none"} \cup Channels :
        actor' = [actor EXCEPT ![a] = [Idle EXCEPT !.pc = "fetch", !.op = op,
          !.channel = IF over = "none" THEN daemon.channel ELSE over]]
  BY Zenon DEF Begin
<1> DEFINE ch == IF over = "none" THEN daemon.channel ELSE over
           x == [Idle EXCEPT !.pc = "fetch", !.op = op, !.channel = ch]
<1>2. ch \in Channels BY Zenon DEF UpdateInv, UpdateTypeOK
<1> HIDE DEF ch
<1>3. x \in Acts BY <1>2, IdleFits, Zenon DEF Acts, ActorPcs
<1>4. x.pc = "fetch" /\ x.backup = Gone /\ ~x.stopped /\ x.got = {} BY Zenon DEF Idle
<1>5. actor' = [actor EXCEPT ![a] = x] BY <1>1, Zenon DEF ch
<1> HIDE DEF x
<1>6. ActFits(x) BY <1>4, Zenon DEF ActFits
<1>7. ~Holds(actor[a]) BY OneActor, Zenon DEF Begin, ActorAt, ActFits, NotSpawned, Holds
<1>8. UNCHANGED <<published, daemon, snap, cache, answer, staged, installed>> BY Zenon DEF Begin
<1>9. installed' \in Versions \cup {Gone} BY <1>8, Zenon DEF UpdateInv, UpdateTypeOK
<1> QED BY <1>3, <1>4, <1>5, <1>6, <1>7, <1>8, <1>9, StagedTyped, ActorStep, Zenon

LEMMA FetchFits ==
  ASSUME UpdateInv, NEW a \in Actors, FetchReleases(a)
  PROVE  UpdateInv'
<1>1. PICK ok \in BOOLEAN :
        actor' = [actor EXCEPT ![a].pc = IF ok THEN "fetched" ELSE "offline",
                               ![a].got = IF ok THEN BuildManifests(published) ELSE {}]
  BY Zenon DEF FetchReleases
<1> DEFINE got == IF ok THEN BuildManifests(published) ELSE {}
           pc == IF ok THEN "fetched" ELSE "offline"
           x == [actor[a] EXCEPT !.pc = pc, !.got = got]
<1>2. got \subseteq published /\ published \subseteq Versions
  BY ManifestsArePublished, Zenon DEF UpdateInv, UpdateTypeOK
<1>3. pc \in {"fetched", "offline"} BY Zenon
<1>4. actor' = [actor EXCEPT ![a] = x] BY <1>1, OneActor, Zenon
<1> HIDE DEF got, pc
<1>5. x \in Acts
  <2>1. pc \in ActorPcs BY <1>3, Zenon DEF ActorPcs
  <2>2. got \in SUBSET Versions BY <1>2, Zenon
  <2>3. actor[a] \in Acts BY OneActor, Zenon
  <2> QED BY <2>1, <2>2, <2>3, Zenon DEF Acts
<1>6. /\ x.pc = pc /\ x.got = got /\ x.backup = actor[a].backup /\ x.stopped = actor[a].stopped
  BY OneActor DEF Acts
<1> HIDE DEF x
<1>7. actor[a].backup = Gone /\ ~actor[a].stopped
  BY OneActor, Zenon DEF FetchReleases, ActorAt, ActFits, NotSpawned, NotStopped
<1>8. ActFits(x) /\ ~Holds(actor[a]) BY <1>3, <1>6, <1>7, Zenon DEF ActFits, Holds
<1>9. UNCHANGED <<published, daemon, snap, cache, answer, staged, installed>> BY Zenon DEF FetchReleases
<1>10. installed' \in Versions \cup {Gone} BY <1>9, Zenon DEF UpdateInv, UpdateTypeOK
<1> QED BY <1>2, <1>4, <1>5, <1>6, <1>8, <1>9, <1>10, StagedTyped, ActorStep, Zenon

(* A request is over: it leaves no backup, and what it has found and         *)
(* answered is right.                                                        *)
LEMMA RequestEnds ==
  ASSUME UpdateInv, NEW a \in Actors, actor[a].pc \in NotSpawned,
         actor' = [actor EXCEPT ![a] = Idle],
         UNCHANGED <<published, daemon, staged, installed>>,
         snap' \in Statuses, RightOffer(snap', published),
         answer' \in Statuses, RightOffer(answer', published), cache' \subseteq published
  PROVE  UpdateInv'
<1>1. ActsFit(actor', published) BY OneFits, IdleFits, Zenon DEF UpdateInv
<1>2. ~Holds(actor[a]) BY OneActor, Zenon DEF ActFits, Holds
<1>3. BundleKept(actor', installed') BY <1>2, OneKeeps, Zenon DEF UpdateInv
<1>4. UpdateTypeOK' BY <1>1, Zenon DEF UpdateInv, UpdateTypeOK, ActsFit
<1> QED BY <1>1, <1>3, <1>4, Zenon DEF UpdateInv

LEMMA KnownRight ==
  ASSUME UpdateInv
  PROVE  /\ daemon.version \in Versions \cup {Gone} /\ daemon.channel \in Channels
         /\ snap \in Statuses /\ RightOffer(snap, published)
         /\ answer \in Statuses /\ RightOffer(answer, published)
         /\ published \in SUBSET Versions /\ cache \subseteq published /\ cache \in SUBSET Versions
  BY Zenon DEF UpdateInv, UpdateTypeOK

LEMMA PollFits ==
  ASSUME UpdateInv, NEW a \in Actors, PollAndRefresh(a)
  PROVE  UpdateInv'
<1>1. snap' \in Statuses /\ RightOffer(snap', published)
  BY KnownRight, OneActor, SelectedIsRight, Zenon DEF PollAndRefresh
<1>2. cache' \subseteq published BY OneActor, Zenon DEF PollAndRefresh
<1>3. actor[a].pc \in NotSpawned BY Zenon DEF PollAndRefresh, ActorAt, NotSpawned
<1>4. actor' = [actor EXCEPT ![a] = Idle] /\ UNCHANGED <<published, daemon, staged, installed, answer>>
  BY Zenon DEF PollAndRefresh
<1> QED BY <1>1, <1>2, <1>3, <1>4, KnownRight, RequestEnds, Zenon

LEMMA CheckFits ==
  ASSUME UpdateInv, NEW a \in Actors, CheckUpdate(a)
  PROVE  UpdateInv'
<1> UpdateTypeOK BY Zenon DEF UpdateInv
<1>1. actor[a].pc \in NotSpawned BY Zenon DEF CheckUpdate, ActorAt, NotSpawned
<1>2. actor' = [actor EXCEPT ![a] = Idle] /\ UNCHANGED <<published, daemon, staged, installed>>
  BY Zenon DEF CheckUpdate
<1>3. CASE /\ cache' = actor[a].got
           /\ snap' = SelectTarget(actor[a].got, actor[a].channel, daemon.version)
           /\ answer' = ResponseFromSnapshot(snap', actor[a].channel)
  <2>1. snap' \in Statuses /\ RightOffer(snap', published)
    BY <1>3, KnownRight, OneActor, SelectedIsRight, Zenon
  <2>2. answer' \in Statuses /\ RightOffer(answer', published)
    BY <1>3, <2>1, OneActor, ResponseIsRight, Zenon
  <2>3. cache' \subseteq published BY <1>3, OneActor, Zenon
  <2> QED BY <1>1, <1>2, <2>1, <2>2, <2>3, RequestEnds, Zenon
<1>4. CASE /\ answer' = IF snap # NoSnap
                        THEN ResponseFromSnapshot(snap, actor[a].channel)
                        ELSE SelectTarget(cache, actor[a].channel, daemon.version)
           /\ UNCHANGED <<snap, cache>>
  <2>1. CASE snap # NoSnap
    <3>1. answer' \in Statuses /\ RightOffer(answer', published)
      BY <1>4, <2>1, OneActor, KnownRight, ResponseIsRight, Zenon
    <3> QED BY <1>1, <1>2, <1>4, <3>1, KnownRight, RequestEnds, Zenon
  <2>2. CASE snap = NoSnap
    <3>1. answer' \in Statuses /\ RightOffer(answer', published)
      BY <1>4, <2>2, OneActor, KnownRight, SelectedIsRight, Zenon
    <3> QED BY <1>1, <1>2, <1>4, <3>1, KnownRight, RequestEnds, Zenon
  <2> QED BY <2>1, <2>2, Zenon
<1>5. CASE UNCHANGED <<snap, cache, answer>>
  BY <1>1, <1>2, <1>5, KnownRight, RequestEnds, Zenon
<1> QED BY <1>3, <1>4, <1>5, Zenon DEF CheckUpdate

(* An artifact is downloaded, and then its signature (stage_update).         *)
LEMMA StageFits ==
  ASSUME UpdateInv, NEW a \in Actors, StageUpdate(a)
  PROVE  UpdateInv'
<1> USE OneActor, StagedTyped
<1>1. UNCHANGED <<published, daemon, snap, cache, installed, answer>> BY Zenon DEF StageUpdate
<1>2. installed \in Versions \cup {Gone} BY Zenon DEF UpdateInv, UpdateTypeOK
<1>3. CASE /\ ActorAt(a, "offline") \/ ActorAt(a, "fetched")
           /\ actor' = [actor EXCEPT ![a] = Idle] /\ UNCHANGED staged
  <2>1. actor[a].pc \in NotSpawned BY <1>3, Zenon DEF ActorAt, NotSpawned
  <2> QED BY <1>1, <1>3, <2>1, KnownRight, RequestEnds, Zenon
<1>4. CASE /\ ActorAt(a, "fetched") /\ SelectAsset(a) # None
           /\ actor' = [actor EXCEPT ![a].pc = "artifact", ![a].file = SelectAsset(a)]
           /\ staged' = [staged EXCEPT ![SelectAsset(a)].artifact = "part"]
  <2> DEFINE file == SelectAsset(a)
             x == [actor[a] EXCEPT !.pc = "artifact", !.file = file]
  <2>1. file \in Versions
    <3>1. SelectTarget(actor[a].got, actor[a].channel, daemon.version) \in Statuses
      BY KnownRight, SelectedIsRight, Zenon
    <3> QED BY <1>4, <3>1, Zenon DEF SelectAsset, Statuses
  <2>2. actor' = [actor EXCEPT ![a] = x] BY <1>4, Zenon
  <2>3. staged' \in [Versions -> [artifact : {"none", "part", "whole"},
                                  sig : {"none", "part", "whole"}]]
    <3>1. staged' = [staged EXCEPT ![file].artifact = "part"] BY <1>4, Zenon
    <3> HIDE DEF file
    <3> QED BY <2>1, <3>1
  <2>4. file # None BY <1>4, Zenon
  <2> HIDE DEF file
  <2>5. x \in Acts
    <3>1. "artifact" \in ActorPcs BY Zenon DEF ActorPcs
    <3> QED BY <2>1, <3>1, Zenon DEF Acts
  <2>6. /\ x.pc = "artifact" /\ x.file = file /\ x.backup = actor[a].backup
        /\ x.stopped = actor[a].stopped /\ x.got = actor[a].got
    BY DEF Acts
  <2> HIDE DEF x
  <2>7. actor[a].backup = Gone /\ ~actor[a].stopped
    BY <1>4, Zenon DEF ActorAt, ActFits, NotSpawned, NotStopped
  <2>8. ActFits(x) /\ ~Holds(actor[a]) BY <2>4, <2>6, <2>7, Zenon DEF ActFits, Holds
  <2> QED BY <1>1, <1>2, <2>2, <2>3, <2>5, <2>6, <2>8, ActorStep, Zenon
<1>5. CASE /\ ActorAt(a, "artifact")
           /\ staged' = [staged EXCEPT ![actor[a].file] = [artifact |-> "whole", sig |-> "part"]]
           /\ ActorGoes(a, "sig")
  <2>1. actor[a].file # None /\ actor[a].pc \in NotSpawned /\ actor[a].pc \in NotStopped
    BY <1>5, Zenon DEF ActorAt, ActFits, NotSpawned, NotStopped
  <2>2. staged' \in [Versions -> [artifact : {"none", "part", "whole"},
                                  sig : {"none", "part", "whole"}]]
    BY <1>5, <2>1, Zenon
  <2>3. "sig" \in ActorPcs /\ ~ActorAt(a, "done") BY <1>5, Zenon DEF ActorPcs, ActorAt
  <2> QED BY <1>1, <1>2, <1>5, <2>1, <2>2, <2>3, Moves, Zenon
<1>6. CASE /\ ActorAt(a, "sig")
           /\ staged' = [staged EXCEPT ![actor[a].file].sig = "whole"]
           /\ ActorGoes(a, "staged")
  <2>1. actor[a].file # None /\ actor[a].pc \in NotSpawned /\ actor[a].pc \in NotStopped
    BY <1>6, Zenon DEF ActorAt, ActFits, NotSpawned, NotStopped
  <2>2. staged' \in [Versions -> [artifact : {"none", "part", "whole"},
                                  sig : {"none", "part", "whole"}]]
    BY <1>6, <2>1
  <2>3. "staged" \in ActorPcs /\ ~ActorAt(a, "done") BY <1>6, Zenon DEF ActorPcs, ActorAt
  <2> QED BY <1>1, <1>2, <1>6, <2>1, <2>2, <2>3, Moves, Zenon
<1> QED BY <1>3, <1>4, <1>5, <1>6, Zenon DEF StageUpdate

(* The applier is spawned, and verifies what was staged.                     *)
LEMMA SpawnFits ==
  ASSUME UpdateInv, NEW a \in Actors, SpawnApplier(a)
  PROVE  UpdateInv'
<1>1. PICK gui \in BOOLEAN, root \in BOOLEAN :
        actor' = [actor EXCEPT ![a].pc = "reverify", ![a].gui = gui, ![a].root = root]
  BY Zenon DEF SpawnApplier
<1> DEFINE x == [actor[a] EXCEPT !.pc = "reverify", !.gui = gui, !.root = root]
<1>2. actor' = [actor EXCEPT ![a] = x] BY <1>1, OneActor, Zenon
<1>3. x \in Acts
  <2>1. "reverify" \in ActorPcs BY Zenon DEF ActorPcs
  <2> QED BY <2>1, OneActor, Zenon DEF Acts
<1>4. /\ x.pc = "reverify" /\ x.file = actor[a].file /\ x.backup = actor[a].backup
      /\ x.stopped = actor[a].stopped /\ x.got = actor[a].got
  BY OneActor DEF Acts
<1> HIDE DEF x
<1>5. actor[a].file # None /\ ~actor[a].stopped
  BY OneActor, Zenon DEF SpawnApplier, ActorAt, ActFits, NotStopped
<1>6. ActFits(x) /\ (Holds(actor[a]) => Holds(x))
  BY <1>4, <1>5, Zenon DEF ActFits, Holds, NotSpawned
<1>7. UNCHANGED <<published, daemon, snap, cache, answer, staged, installed>> BY Zenon DEF SpawnApplier
<1>8. installed' \in Versions \cup {Gone} BY <1>7, Zenon DEF UpdateInv, UpdateTypeOK
<1> QED BY <1>2, <1>3, <1>4, <1>6, <1>7, <1>8, OneActor, StagedTyped, ActorStep, Zenon

LEMMA ReverifyFits ==
  ASSUME UpdateInv, NEW a \in Actors, Reverify(a)
  PROVE  UpdateInv'
<1>1. UNCHANGED <<published, daemon, snap, cache, answer, staged, installed>> BY Zenon DEF Reverify
<1>2. installed' \in Versions \cup {Gone} BY <1>1, Zenon DEF UpdateInv, UpdateTypeOK
<1>3. actor[a].file # None /\ actor[a].pc \in NotStopped /\ ~ActorAt(a, "done")
  BY OneActor, Zenon DEF Reverify, ActorAt, ActFits, NotStopped
<1> DEFINE p == IF host = "macos" THEN "extract" ELSE "install"
<1>4. CASE ActorGoes(a, p)
  <2>1. p \in {"extract", "install"} BY Zenon
  <2> HIDE DEF p
  <2>2. p \in ActorPcs /\ p \notin NotSpawned BY <2>1, Zenon DEF ActorPcs, NotSpawned
  <2> QED BY <1>1, <1>2, <1>3, <1>4, <2>1, <2>2, StagedTyped, Moves, Zenon
<1>5. CASE End(a, "failed") BY <1>1, <1>2, <1>3, <1>5, EndsFit, Zenon
<1> QED BY <1>4, <1>5, Zenon DEF Reverify

(* A package is installed, or a bundle unpacked.                             *)
LEMMA InstallFits ==
  ASSUME UpdateInv, NEW a \in Actors, ElevatedInstall(a)
  PROVE  UpdateInv'
<1>1. UNCHANGED <<published, daemon, snap, cache, answer, staged>> BY Zenon DEF ElevatedInstall
<1>2. actor[a].file # None /\ actor[a].pc \in NotStopped /\ ~ActorAt(a, "done")
  BY OneActor, Zenon DEF ElevatedInstall, ActorAt, ActFits, NotStopped
<1>3. /\ installed' \in Versions \cup {Gone}
      /\ installed' = installed \/ installed' # Gone
  BY <1>2, OneActor, Zenon DEF ElevatedInstall, UpdateInv, UpdateTypeOK, Gone, None
<1>4. CASE End(a, "ok") BY <1>1, <1>2, <1>3, <1>4, EndsFit, Zenon
<1>5. CASE End(a, "failed") BY <1>1, <1>2, <1>3, <1>5, EndsFit, Zenon
<1>6. CASE ActorGoes(a, "restart")
  <2>1. "restart" \in ActorPcs /\ "restart" \notin NotStopped /\ "restart" \notin NotSpawned
    BY Zenon DEF ActorPcs, NotStopped, NotSpawned
  <2> QED BY <1>1, <1>2, <1>3, <1>6, <2>1, StagedTyped, Moves, Zenon
<1> QED BY <1>4, <1>5, <1>6, Zenon DEF ElevatedInstall

LEMMA ExtractFits ==
  ASSUME UpdateInv, NEW a \in Actors, Extract(a)
  PROVE  UpdateInv'
<1>1. UNCHANGED <<published, daemon, snap, cache, answer, staged, installed>> BY Zenon DEF Extract
<1>2. installed' \in Versions \cup {Gone} BY <1>1, Zenon DEF UpdateInv, UpdateTypeOK
<1>3. actor[a].file # None /\ actor[a].pc \in NotStopped /\ ~ActorAt(a, "done")
  BY OneActor, Zenon DEF Extract, ActorAt, ActFits, NotStopped
<1>4. CASE ActorGoes(a, "stop")
  <2>1. "stop" \in ActorPcs /\ "stop" \notin NotSpawned BY Zenon DEF ActorPcs, NotSpawned
  <2> QED BY <1>1, <1>2, <1>3, <1>4, <2>1, StagedTyped, Moves, Zenon
<1>5. CASE End(a, "failed") BY <1>1, <1>2, <1>3, <1>5, EndsFit, Zenon
<1> QED BY <1>4, <1>5, Zenon DEF Extract

(* A daemon that stops takes its requests with it, and no backup.            *)
LEMMA StopFits ==
  ASSUME UpdateInv, NEW a \in Actors, StopDaemon(a)
  PROVE  UpdateInv'
<1> DEFINE x == [actor[a] EXCEPT !.pc = "exists", !.stopped = TRUE]
           acts == [actor EXCEPT ![a] = x]
<1>1. x \in Acts
  <2>1. "exists" \in ActorPcs BY Zenon DEF ActorPcs
  <2> QED BY <2>1, OneActor, Zenon DEF Acts
<1>2. /\ x.pc = "exists" /\ x.file = actor[a].file /\ x.backup = actor[a].backup
      /\ x.got = actor[a].got
  BY OneActor DEF Acts
<1>3. actor' = Without(acts) BY OneActor, Zenon DEF StopDaemon
<1>4. actor[a].file # None BY OneActor, Zenon DEF StopDaemon, ActorAt, ActFits
<1> HIDE DEF x
<1>5. ActFits(x) /\ (Holds(actor[a]) => Holds(x))
  BY <1>2, <1>4, Zenon DEF ActFits, Holds, NotSpawned, NotStopped
<1>6. ActsFit(acts, published) BY <1>1, <1>2, <1>5, OneActor, OneFits, Zenon DEF UpdateInv
<1>7. BundleKept(acts, installed) BY <1>5, OneKeeps, Zenon DEF UpdateInv
<1> HIDE DEF acts
<1>8. ActsFit(actor', published) /\ BundleKept(actor', installed)
  BY <1>3, <1>6, <1>7, WithoutFits, Zenon
<1>9. UpdateTypeOK' BY <1>8, Zenon DEF StopDaemon, UpdateInv, UpdateTypeOK, ActsFit
<1> QED BY <1>8, <1>9, Zenon DEF StopDaemon, UpdateInv

(* The swap: a look at what is there, the old bundle aside, the new one in,  *)
(* the old one back, or its removal.                                         *)
LEMMA TargetFits ==
  ASSUME UpdateInv, NEW a \in Actors, TargetExists(a)
  PROVE  UpdateInv'
<1> DEFINE there == installed # Gone
           x == [actor[a] EXCEPT !.pc = "aside", !.seen = there]
<1>1. there \in BOOLEAN /\ "aside" \in ActorPcs BY Zenon DEF ActorPcs
<1>2. actor' = [actor EXCEPT ![a] = x] BY OneActor, Zenon DEF TargetExists
<1> HIDE DEF there
<1>3. x \in Acts BY <1>1, OneActor, Zenon DEF Acts
<1>4. /\ x.pc = "aside" /\ x.file = actor[a].file /\ x.backup = actor[a].backup
      /\ x.got = actor[a].got
  BY OneActor DEF Acts
<1> HIDE DEF x
<1>5. actor[a].file # None BY OneActor, Zenon DEF TargetExists, ActorAt, ActFits
<1>6. ActFits(x) /\ (Holds(actor[a]) => Holds(x))
  BY <1>4, <1>5, Zenon DEF ActFits, Holds, NotSpawned, NotStopped
<1>7. UNCHANGED <<published, daemon, snap, cache, answer, staged, installed>> BY Zenon DEF TargetExists
<1>8. installed' \in Versions \cup {Gone} BY <1>7, Zenon DEF UpdateInv, UpdateTypeOK
<1> QED BY <1>2, <1>3, <1>4, <1>6, <1>7, <1>8, OneActor, StagedTyped, ActorStep, Zenon

LEMMA AsideFits ==
  ASSUME UpdateInv, NEW a \in Actors, RenameAside(a)
  PROVE  UpdateInv'
<1>1. UNCHANGED <<published, daemon, snap, cache, answer, staged>> BY Zenon DEF RenameAside
<1>2. actor[a].file # None /\ ~ActorAt(a, "done")
  BY OneActor, Zenon DEF RenameAside, ActorAt, ActFits
<1>3. installed \in Versions \cup {Gone} BY Zenon DEF UpdateInv, UpdateTypeOK
<1>4. /\ {"in", "failed"} \subseteq ActorPcs
      /\ {"in", "failed"} \cap NotStopped = {} /\ {"in", "failed"} \cap NotSpawned = {}
  BY Zenon DEF ActorPcs, NotStopped, NotSpawned
<1>5. CASE ActorGoes(a, "in") /\ UNCHANGED installed
  BY <1>1, <1>2, <1>3, <1>4, <1>5, StagedTyped, Moves, Zenon
<1>6. CASE ActorGoes(a, "failed") /\ UNCHANGED installed
  BY <1>1, <1>2, <1>3, <1>4, <1>6, StagedTyped, Moves, Zenon
<1>7. CASE /\ installed # Gone /\ installed' = Gone
           /\ actor' = [actor EXCEPT ![a].pc = "in", ![a].backup = installed]
  <2> DEFINE x == [actor[a] EXCEPT !.pc = "in", !.backup = installed]
  <2>1. actor' = [actor EXCEPT ![a] = x] BY <1>7, OneActor, Zenon
  <2>2. x \in Acts BY <1>3, <1>4, OneActor, Zenon DEF Acts
  <2>3. x.pc = "in" /\ x.file = actor[a].file /\ x.backup = installed /\ x.got = actor[a].got
    BY OneActor DEF Acts
  <2> HIDE DEF x
  <2>4. ActFits(x) /\ Holds(x) BY <1>2, <1>4, <1>7, <2>3, Zenon DEF ActFits, Holds
  <2> QED BY <1>1, <1>7, <2>1, <2>2, <2>3, <2>4, OneActor, StagedTyped, ActorStep, Zenon
<1> QED BY <1>5, <1>6, <1>7, Zenon DEF RenameAside

LEMMA RenameInFits ==
  ASSUME UpdateInv, NEW a \in Actors, RenameIn(a)
  PROVE  UpdateInv'
<1>1. UNCHANGED <<published, daemon, snap, cache, answer, staged>> BY Zenon DEF RenameIn
<1>2. actor[a].file # None /\ ~ActorAt(a, "done")
  BY OneActor, Zenon DEF RenameIn, ActorAt, ActFits
<1>3. /\ {"cleanup", "restore"} \subseteq ActorPcs
      /\ {"cleanup", "restore"} \cap NotStopped = {} /\ {"cleanup", "restore"} \cap NotSpawned = {}
  BY Zenon DEF ActorPcs, NotStopped, NotSpawned
<1>4. CASE installed' = actor[a].file /\ ActorGoes(a, "cleanup")
  <2>1. installed' \in Versions \cup {Gone} /\ installed' # Gone
    BY <1>2, <1>4, OneActor, Zenon DEF Gone, None
  <2> QED BY <1>1, <1>2, <1>3, <1>4, <2>1, StagedTyped, Moves, Zenon
<1>5. CASE ActorGoes(a, "restore") /\ UNCHANGED installed
  <2>1. installed' \in Versions \cup {Gone} BY <1>5, Zenon DEF UpdateInv, UpdateTypeOK
  <2> QED BY <1>1, <1>2, <1>3, <1>5, <2>1, StagedTyped, Moves, Zenon
<1> QED BY <1>4, <1>5, Zenon DEF RenameIn

LEMMA RestoreFits ==
  ASSUME UpdateInv, NEW a \in Actors, Restore(a)
  PROVE  UpdateInv'
<1>1. UNCHANGED <<published, daemon, snap, cache, answer, staged>> BY Zenon DEF Restore
<1>2. actor[a].file # None /\ ~ActorAt(a, "done") BY OneActor, Zenon DEF Restore, ActorAt, ActFits
<1>3. "failed" \in ActorPcs /\ "failed" \notin NotStopped /\ "failed" \notin NotSpawned
  BY Zenon DEF ActorPcs, NotStopped, NotSpawned
<1>4. CASE /\ actor[a].backup # Gone /\ installed' = actor[a].backup
           /\ actor' = [actor EXCEPT ![a].pc = "failed", ![a].backup = Gone]
  <2> DEFINE x == [actor[a] EXCEPT !.pc = "failed", !.backup = Gone]
  <2>1. actor' = [actor EXCEPT ![a] = x] BY <1>4, OneActor, Zenon
  <2>2. x \in Acts BY <1>3, OneActor, Zenon DEF Acts
  <2>3. x.pc = "failed" /\ x.file = actor[a].file /\ x.got = actor[a].got BY OneActor, Zenon DEF Acts
  <2> HIDE DEF x
  <2>4. ActFits(x) BY <1>2, <1>3, <2>3, Zenon DEF ActFits
  <2>5. installed' \in Versions \cup {Gone} /\ installed' # Gone BY <1>4, OneActor, Zenon
  <2> QED BY <1>1, <2>1, <2>2, <2>3, <2>4, <2>5, OneActor, StagedTyped, ActorStep, Zenon
<1>5. CASE ActorGoes(a, "failed") /\ UNCHANGED installed
  <2>1. installed' \in Versions \cup {Gone} BY <1>5, Zenon DEF UpdateInv, UpdateTypeOK
  <2> QED BY <1>1, <1>2, <1>3, <1>5, <2>1, StagedTyped, Moves, Zenon
<1> QED BY <1>4, <1>5, Zenon DEF Restore

LEMMA RemoveFits ==
  ASSUME UpdateInv, NEW a \in Actors, RemoveBackup(a)
  PROVE  UpdateInv'
<1> DEFINE pc == IF actor[a].gui THEN "gui" ELSE "restart"
           x == [actor[a] EXCEPT !.backup = Gone, !.pc = pc]
<1>1. pc \in {"gui", "restart"} BY Zenon
<1>2. pc \in ActorPcs /\ pc \notin NotStopped /\ pc \notin NotSpawned /\ pc # "done"
  BY <1>1, Zenon DEF ActorPcs, NotStopped, NotSpawned
<1>3. actor' = [actor EXCEPT ![a] = x] BY OneActor, Zenon DEF RemoveBackup
<1> HIDE DEF pc
<1>4. x \in Acts BY <1>2, OneActor, Zenon DEF Acts
<1>5. x.pc = pc /\ x.file = actor[a].file /\ x.got = actor[a].got BY OneActor, Zenon DEF Acts
<1> HIDE DEF x
<1>6. actor[a].file # None /\ ~Holds(actor[a])
  BY OneActor, Zenon DEF RemoveBackup, ActorAt, ActFits, Holds
<1>7. ActFits(x) BY <1>2, <1>5, <1>6, Zenon DEF ActFits
<1>8. UNCHANGED <<published, daemon, snap, cache, answer, staged, installed>> BY Zenon DEF RemoveBackup
<1>9. installed' \in Versions \cup {Gone} BY <1>8, Zenon DEF UpdateInv, UpdateTypeOK
<1> QED BY <1>3, <1>4, <1>5, <1>6, <1>7, <1>8, <1>9, OneActor, StagedTyped, ActorStep, Zenon

(* The daemon comes back, as what is installed and with the last check or    *)
(* none; or it does not.                                                     *)
LEMMA RestartFits ==
  ASSUME UpdateInv, NEW acts, ActsFit(acts, published), BundleKept(acts, installed),
         Restarted(acts), UNCHANGED <<published, staged, installed, answer>>
  PROVE  UpdateInv'
<1>1. CASE /\ daemon' = [daemon EXCEPT !.version = installed]
           /\ snap' \in {snap, NoSnap} /\ cache' = {} /\ actor' = Without(acts)
  <2>1. ActsFit(actor', published) /\ BundleKept(actor', installed) BY <1>1, WithoutFits, Zenon
  <2>2. NoSnap \in Statuses /\ RightOffer(NoSnap, published)
    BY Zenon DEF NoSnap, Statuses, RightOffer, Channels, None
  <2>3. snap' \in Statuses /\ RightOffer(snap', published) BY <1>1, <2>2, KnownRight, Zenon
  <2>4. daemon' \in [version : Versions \cup {Gone}, channel : Channels]
    BY <1>1, Zenon DEF UpdateInv, UpdateTypeOK
  <2>5. UpdateTypeOK' BY <1>1, <2>1, <2>3, <2>4, Zenon DEF UpdateInv, UpdateTypeOK, ActsFit
  <2> QED BY <1>1, <2>1, <2>3, <2>5, Zenon DEF UpdateInv
<1>2. CASE actor' = acts /\ UNCHANGED <<daemon, snap, cache>>
  <2>1. UpdateTypeOK' BY <1>2, Zenon DEF UpdateInv, UpdateTypeOK, ActsFit
  <2> QED BY <1>2, <2>1, Zenon DEF UpdateInv
<1> QED BY <1>1, <1>2, Zenon DEF Restarted

(* An applier that ends with a restart has tried to bring the daemon back.   *)
LEMMA TriedFits ==
  ASSUME UpdateInv, NEW a \in Actors, NEW code \in {"ok", "failed"}, actor[a].file # None
  PROVE  LET acts == [actor EXCEPT ![a].pc = "done", ![a].exit = code, ![a].restarted = TRUE]
         IN ActsFit(acts, published) /\ BundleKept(acts, installed)
<1> DEFINE x == [actor[a] EXCEPT !.pc = "done", !.exit = code, !.restarted = TRUE]
           acts == [actor EXCEPT ![a].pc = "done", ![a].exit = code, ![a].restarted = TRUE]
<1>1. acts = [actor EXCEPT ![a] = x] BY OneActor, Zenon
<1>2. x \in Acts
  <2>1. "done" \in ActorPcs BY Zenon DEF ActorPcs
  <2> QED BY <2>1, OneActor, Zenon DEF Acts
<1>3. /\ x.pc = "done" /\ x.file = actor[a].file /\ x.backup = actor[a].backup
      /\ x.got = actor[a].got /\ x.restarted
  BY OneActor DEF Acts
<1> HIDE DEF x
<1>4. ActFits(x) /\ (Holds(actor[a]) => Holds(x))
  BY <1>3, Zenon DEF ActFits, Holds, NotSpawned, NotStopped
<1>5. ActsFit([actor EXCEPT ![a] = x], published)
  BY <1>2, <1>3, <1>4, OneActor, OneFits, Zenon DEF UpdateInv
<1>6. BundleKept([actor EXCEPT ![a] = x], installed) BY <1>4, OneKeeps, Zenon DEF UpdateInv
<1> QED BY <1>1, <1>5, <1>6, Zenon

LEMMA RestartsFit ==
  ASSUME UpdateInv, NEW a \in Actors, RestartServices(a) \/ RestartAfterFailure(a)
  PROVE  UpdateInv'
<1>1. actor[a].file # None
  BY OneActor, Zenon DEF RestartServices, RestartAfterFailure, ActorAt, ActFits
<1>2. UNCHANGED <<published, staged, installed, answer>> BY Zenon DEF RestartServices, RestartAfterFailure
<1> DEFINE acts(code) ==
      [actor EXCEPT ![a].pc = "done", ![a].exit = code, ![a].restarted = TRUE]
<1>3. CASE Restarted(acts("ok"))
  <2>1. ActsFit(acts("ok"), published) /\ BundleKept(acts("ok"), installed) BY <1>1, TriedFits, Zenon
  <2> HIDE DEF acts
  <2> QED BY <1>2, <1>3, <2>1, RestartFits, Zenon
<1>4. CASE Restarted(acts("failed"))
  <2>1. ActsFit(acts("failed"), published) /\ BundleKept(acts("failed"), installed)
    BY <1>1, TriedFits, Zenon
  <2> HIDE DEF acts
  <2> QED BY <1>2, <1>4, <2>1, RestartFits, Zenon
<1> QED BY <1>3, <1>4, Zenon DEF RestartServices, RestartAfterFailure

(* The desktop app is relaunched and polled.                                 *)
LEMMA GuiFits ==
  ASSUME UpdateInv, NEW a \in Actors, RelaunchGui(a) \/ PollUntil(a)
  PROVE  UpdateInv'
<1>1. actor[a].file # None /\ ~ActorAt(a, "done")
  BY OneActor, Zenon DEF RelaunchGui, PollUntil, ActorAt, ActFits
<1>2. UNCHANGED <<published, daemon, snap, cache, answer, staged, installed>>
  BY Zenon DEF RelaunchGui, PollUntil
<1>3. installed' \in Versions \cup {Gone} BY <1>2, Zenon DEF UpdateInv, UpdateTypeOK
<1>4. /\ {"ready", "restart"} \subseteq ActorPcs
      /\ {"ready", "restart"} \cap NotStopped = {} /\ {"ready", "restart"} \cap NotSpawned = {}
  BY Zenon DEF ActorPcs, NotStopped, NotSpawned
<1>5. CASE ActorGoes(a, "ready") BY <1>1, <1>2, <1>3, <1>4, <1>5, StagedTyped, Moves, Zenon
<1>6. CASE ActorGoes(a, "restart") BY <1>1, <1>2, <1>3, <1>4, <1>6, StagedTyped, Moves, Zenon
<1>7. CASE actor' = [actor EXCEPT ![a].pc = "done", ![a].exit = "ok", ![a].restarted = TRUE]
  <2>1. ActsFit(actor', published) /\ BundleKept(actor', installed) BY <1>1, <1>7, TriedFits, Zenon
  <2>2. UpdateTypeOK' BY <1>2, <2>1, Zenon DEF UpdateInv, UpdateTypeOK, ActsFit
  <2> QED BY <1>2, <2>1, <2>2, Zenon DEF UpdateInv
<1> DEFINE pc == IF actor[a].tries + 1 < MaxPolls THEN "ready" ELSE "restart"
           x == [actor[a] EXCEPT !.tries = @ + 1, !.pc = pc]
<1>8. CASE actor' = [actor EXCEPT ![a].tries = @ + 1, ![a].pc = pc]
  <2>1. pc \in {"ready", "restart"} BY Zenon
  <2>2. actor' = [actor EXCEPT ![a] = x] BY <1>8, OneActor, Zenon
  <2> HIDE DEF pc
  <2>3. pc \in ActorPcs /\ pc \notin NotStopped /\ pc \notin NotSpawned /\ pc # "done"
    BY <1>4, <2>1, Zenon
  <2>4. x \in Acts
    <3> DEFINE n == actor[a].tries + 1
    <3>1. n \in Nat BY OneActor DEF Acts
    <3>2. x = [actor[a] EXCEPT !.tries = n, !.pc = pc] BY OneActor, Zenon DEF Acts
    <3> HIDE DEF n
    <3>3. [actor[a] EXCEPT !.tries = n, !.pc = pc] \in Acts BY <2>3, <3>1, OneActor, Zenon DEF Acts
    <3> QED BY <3>2, <3>3, Zenon
  <2>5. /\ x.pc = pc /\ x.file = actor[a].file /\ x.backup = actor[a].backup
        /\ x.got = actor[a].got
    BY OneActor, Zenon DEF Acts
  <2> HIDE DEF x
  <2>6. ActFits(x) BY <1>1, <2>3, <2>5, Zenon DEF ActFits
  <2>7. Holds(actor[a]) => Holds(x) BY <2>1, <2>5, Zenon DEF Holds
  <2> QED BY <1>2, <1>3, <2>2, <2>4, <2>5, <2>6, <2>7, OneActor, StagedTyped, ActorStep, Zenon
<1> QED BY <1>5, <1>6, <1>7, <1>8, Zenon DEF RelaunchGui, PollUntil

(* An applier is killed anywhere.                                            *)
LEMMA KillFits ==
  ASSUME UpdateInv, NEW a \in Actors, ApplierDies(a)
  PROVE  UpdateInv'
<1>1. actor[a].file # None BY OneActor, Zenon DEF ApplierDies, ActFits
<1>2. UNCHANGED <<published, daemon, snap, cache, answer, staged, installed>> BY Zenon DEF ApplierDies
<1>3. installed' \in Versions \cup {Gone} BY <1>2, Zenon DEF UpdateInv, UpdateTypeOK
<1>4. End(a, "killed") BY Zenon DEF ApplierDies
<1> QED BY <1>1, <1>2, <1>3, <1>4, EndsFit, Zenon

(* A release is published: what was right to offer still is.                 *)
LEMMA PublishFits ==
  ASSUME UpdateInv, NEW v \in Versions, Publish(v)
  PROVE  UpdateInv'
<1>1. published \subseteq published' BY Zenon DEF Publish
<1>2. RightOffer(snap, published') /\ RightOffer(answer, published')
  BY <1>1, Zenon DEF UpdateInv, RightOffer
<1>3. ActsFit(actor, published') BY <1>1, Zenon DEF UpdateInv, ActsFit
<1>4. UpdateTypeOK' BY Zenon DEF Publish, UpdateInv, UpdateTypeOK
<1> QED BY <1>1, <1>2, <1>3, <1>4, Zenon DEF Publish, UpdateInv

(* The status is asked for, or the channel changed.                          *)
LEMMA StatusFits ==
  ASSUME UpdateInv, CachedUpdateStatus \/ SetUpdateChannel
  PROVE  UpdateInv'
<1> UpdateTypeOK BY Zenon DEF UpdateInv
<1>1. CASE CachedUpdateStatus
  <2>1. answer' \in Statuses /\ RightOffer(answer', published)
    <3>1. CASE snap = NoSnap
      <4> DEFINE given == [NoSnap EXCEPT !.current = daemon.version, !.channel = daemon.channel]
      <4>1. answer' = given BY <1>1, <3>1, Zenon DEF CachedUpdateStatus
      <4>2. given \in Statuses /\ given.target = None
        BY KnownRight, Zenon DEF NoSnap, Statuses, Gone, None
      <4> QED BY <4>1, <4>2, Zenon DEF RightOffer
    <3>2. CASE snap # NoSnap
      BY <1>1, <3>2, KnownRight, ResponseIsRight, Zenon DEF CachedUpdateStatus
    <3> QED BY <3>1, <3>2, Zenon
  <2>2. UpdateTypeOK' BY <1>1, <2>1, Zenon DEF CachedUpdateStatus, UpdateTypeOK
  <2> QED BY <1>1, <2>1, <2>2, Zenon DEF CachedUpdateStatus, UpdateInv
<1>2. CASE SetUpdateChannel
  <2>1. UpdateTypeOK' BY <1>2, Zenon DEF SetUpdateChannel, UpdateTypeOK
  <2> QED BY <1>2, <2>1, Zenon DEF SetUpdateChannel, UpdateInv
<1> QED BY <1>1, <1>2, Zenon

LEMMA UpdateStepFits ==
  ASSUME UpdateInv, [UpdateNext]_updatevars
  PROVE  UpdateInv'
<1>1. CASE UNCHANGED updatevars
  <2>1. UpdateTypeOK' BY <1>1, Zenon DEF updatevars, UpdateInv, UpdateTypeOK
  <2> QED BY <1>1, <2>1, Zenon DEF updatevars, UpdateInv
<1>2. ASSUME NEW a \in Actors, NEW op \in {"check", "poll", "stage"}, Begin(a, op)
      PROVE  UpdateInv'
  BY <1>2, BeginFits, Zenon
<1>3. ASSUME NEW a \in Actors,
             \/ FetchReleases(a) \/ PollAndRefresh(a) \/ CheckUpdate(a) \/ StageUpdate(a)
             \/ SpawnApplier(a) \/ ApplierDies(a)
      PROVE  UpdateInv'
  BY <1>3, FetchFits, PollFits, CheckFits, StageFits, SpawnFits, KillFits, Zenon
<1>4. ASSUME NEW a \in Actors, ApplierStep(a)
      PROVE  UpdateInv'
  BY <1>4, ReverifyFits, InstallFits, ExtractFits, StopFits, TargetFits, AsideFits, RenameInFits,
     RestoreFits, RemoveFits, RestartsFit, GuiFits, Zenon DEF ApplierStep
<1>5. ASSUME Restarted(actor), UNCHANGED <<published, staged, installed, answer>>
      PROVE  UpdateInv'
  BY <1>5, RestartFits, Zenon DEF UpdateInv
<1>6. ASSUME NEW a \in Actors, GuiStartsDaemon(a) PROVE UpdateInv'
  BY <1>5, <1>6, Zenon DEF GuiStartsDaemon
<1>7. CASE StartDaemon BY <1>5, <1>7, Zenon DEF StartDaemon
<1>8. CASE UpdateRests BY <1>1, <1>8, Zenon DEF UpdateRests
<1> QED BY <1>1, <1>2, <1>3, <1>4, <1>6, <1>7, <1>8, PublishFits, StatusFits, Zenon DEF UpdateNext

(* Invariant of the update: offers found and answered are right, every       *)
(* applier has what its place in apply_macos or elevated_install implies,    *)
(* and a bundle that is not installed is in a backup nobody is removing.     *)
THEOREM UpdateInductive == UpdateSpec => []UpdateInv
<1>1. UpdateInit => UpdateInv
  <2> SUFFICES ASSUME UpdateInit PROVE UpdateInv BY Zenon
  <2>1. NoSnap \in Statuses /\ RightOffer(NoSnap, published)
    BY Zenon DEF NoSnap, Statuses, RightOffer, Channels, None
  <2>2. ActsFit(actor, published) BY IdleFits, Zenon DEF UpdateInit, ActsFit
  <2>3. 1 \in Versions /\ 0 \notin Versions BY SelfUpdateAssumption, Zenon
  <2>4. BundleKept(actor, installed) BY DEF UpdateInit, BundleKept, Gone
  <2>5. daemon \in [version : Versions \cup {Gone}, channel : Channels]
    BY <2>3, Zenon DEF UpdateInit, Channels
  <2>6. UpdateTypeOK BY <2>1, <2>2, <2>3, <2>5, Zenon DEF UpdateInit, UpdateTypeOK, ActsFit
  <2> QED BY <2>1, <2>2, <2>4, <2>6, Zenon DEF UpdateInit, UpdateInv
<1>2. UpdateInv /\ [UpdateNext]_updatevars => UpdateInv' BY UpdateStepFits, Zenon
<1> QED BY <1>1, <1>2, PTL DEF UpdateSpec

(* An update is always safe, whoever else updates, publishes, switches the   *)
(* channel or is killed: an UpdateStatus never offers a release that is not  *)
(* published, not newer or not allowed on its channel; the application is    *)
(* never lost by swap_bundle; and an applier that stopped the daemon ends    *)
(* with an attempt to start it.                                              *)
THEOREM UpdateIsSafeAlways == UpdateSpec => []UpdateIsSafe
<1>1. UpdateInv => UpdateIsSafe
  <2> SUFFICES ASSUME UpdateInv PROVE UpdateIsSafe BY Zenon
  <2>1. OfferIsRight BY Zenon DEF UpdateInv, RightOffer, OfferIsRight
  <2>2. NeverLost BY Zenon DEF UpdateInv, BundleKept, Holds, NeverLost
  <2>3. NotLeftDown BY Zenon DEF UpdateInv, ActsFit, ActFits, NotLeftDown, ActorAt
  <2> QED BY <2>1, <2>2, <2>3, Zenon DEF UpdateInv, UpdateIsSafe
<1> QED BY <1>1, UpdateInductive, PTL
=============================================================================
