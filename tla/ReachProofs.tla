---------------------------- MODULE ReachProofs ----------------------------
(* Proofs about the ways into the sites from outside the machine, for any    *)
(* number of tasks, tunnels, logins, devices and setup codes: NamedTunnel,   *)
(* then LanAccess.                                                          *)
EXTENDS NamedTunnel, LanAccess, FiniteSetTheorems, TLAPS

\* tunnel_mutate: whoever is past the lock holds it, as a request or as a job.
Inside(t) == call[t].at \notin {"idle", "lock"} \/ job[t].at \in {"install", "login"}
Mutex ==
    \A t \in Callers :
        /\ Inside(t) => mutate = t
        /\ call[t].at = "idle" \/ job[t].at = "idle"

\* Where each operation can be.
Form(k) ==
    /\ k.op \in {"create", "delete"} => k.name \in Names /\ k.at \in {"lock", "check", "oneshot", "save"}
    /\ k.op = "start" => k.at \in {"lock", "check", "rules", "begin", "driving"}
    /\ k.op = "none" => k.at = "idle"
Forms == \A t \in Callers : Form(call[t])

\* The account hands out every uuid once, so that a uuid it still has is
\* recorded, if at all, under the account's own name for it.
Handed ==
    /\ \A n \in Names : account[n] <= uuids /\ named[n] <= uuids
    /\ \A n, m \in Names : account[n] # 0 /\ account[n] \in {account[m], named[m]} => n = m

\* At most one tunnel is recorded.
Single == \A n, m \in Recorded : n = m

\* What the holder of tunnel_mutate has seen still holds.
Fits(t) ==
    /\ call[t].op = "create" /\ call[t].at \in {"oneshot", "save"} => Recorded \subseteq {call[t].name}
    /\ call[t].op = "create" /\ call[t].at = "save" =>
         call[t].uuid = account[call[t].name] /\ call[t].uuid # 0 /\ serving = 0
    /\ call[t].op = "delete" /\ call[t].at \in {"oneshot", "save"} => serving = 0
    /\ call[t].at \in {"rules", "begin", "driving"} =>
         call[t].uuid # 0 /\ \E n \in Names : named[n] = call[t].uuid
Held == \A t \in Callers : Fits(t)

\* The process serves a recorded tunnel that the account still has, or one of
\* which the start that drives it has not yet heard.
Driven == \E t \in Callers : call[t].at = "driving"
Serves == serving # 0 => \E n \in Names : named[n] = serving /\ (account[n] = serving \/ Driven)

\* A listing reads the certificate after its mtime, so that it is no older.
Dated(m, f) == m <= cert /\ f <= cert /\ (m # 0 => m <= f)
Listed ==
    /\ Dated(zone.mtime, zone.from)
    /\ \A t \in Callers : /\ job[t].at = "mtime" => job[t].mtime <= cert
                          /\ job[t].at = "pem" => Dated(job[t].mtime, job[t].pem)

TunnelInv == NamedTypeOK /\ Mutex /\ Forms /\ Handed /\ Single /\ Held /\ Serves
CacheInv == ManagedWins /\ Listed
IInv == TunnelInv /\ CacheInv

LEMMA InitInv == NamedInit => IInv
<1> SUFFICES ASSUME NamedInit PROVE IInv
  BY Zenon
<1>1. NoCall \in Requests /\ NoJob \in Jobs /\ Form(NoCall)
  BY NamedTunnelAssumption DEF NoCall, NoJob, Requests, Jobs, CallOps, Sources, Form
<1>a. managed \in BOOLEAN /\ sysbin \in BOOLEAN /\ installed \in BOOLEAN /\ cache \in Sources
  BY Zenon DEF NamedInit, Sources
<1>b. cert \in 0 .. MaxEvents /\ zone \in [mtime : 0 .. MaxEvents, from : 0 .. MaxEvents]
  BY NamedTunnelAssumption DEF NamedInit
<1>2. NamedTypeOK
  BY <1>1, <1>a, <1>b, NamedTunnelAssumption, Zenon DEF NamedInit, NamedTypeOK
<1>3. Mutex /\ Forms
  BY <1>1, Zenon DEF NamedInit, Mutex, Inside, Forms, NoCall, NoJob
<1>4. Handed /\ Single /\ Serves
  BY DEF NamedInit, Handed, Single, Recorded, Serves
<1>5. Held
  BY Zenon DEF NamedInit, Held, Fits, NoCall
<1>6. CacheInv
  BY DEF NamedInit, CacheInv, ManagedWins, Listed, Dated, NoJob
<1>7. QED
  BY <1>2, <1>3, <1>4, <1>5, <1>6, Zenon DEF IInv, TunnelInv

\* A request inside the lock moves on and keeps it.
LEMMA Moves ==
    ASSUME IInv, NEW t \in Callers, Inside(t), call[t].at # "idle",
           NEW k \in Requests, Form(k), k.at \notin {"idle", "lock"},
           call' = [call EXCEPT ![t] = k], UNCHANGED <<mutate, job>>
    PROVE  /\ call' \in [Callers -> Requests] /\ call'[t] = k
           /\ \A o \in Callers \ {t} : call'[o] = call[o]
           /\ Mutex' /\ Forms'
<1>1. /\ call' \in [Callers -> Requests] /\ call'[t] = k
      /\ \A o \in Callers \ {t} : call'[o] = call[o]
  BY Zenon DEF IInv, TunnelInv, NamedTypeOK
<1>2. Mutex'
  BY <1>1, Zenon DEF IInv, TunnelInv, Mutex, Inside
<1>3. Forms'
  BY <1>1, Zenon DEF IInv, TunnelInv, Forms
<1>4. QED
  BY <1>1, <1>2, <1>3, Zenon

\* It returns and gives the lock back.
LEMMA Returns ==
    ASSUME IInv, NEW t \in Callers, Inside(t), call[t].at # "idle", Return(t), UNCHANGED job
    PROVE  /\ call' \in [Callers -> Requests] /\ call'[t] = NoCall /\ mutate' = NoCaller
           /\ \A o \in Callers \ {t} : call'[o] = call[o]
           /\ Mutex' /\ Forms'
<1>1. NoCall \in Requests /\ Form(NoCall) /\ NoCall.at = "idle"
  BY NamedTunnelAssumption DEF NoCall, Requests, CallOps, Form
<1>2. /\ call' \in [Callers -> Requests] /\ call'[t] = NoCall /\ mutate' = NoCaller
      /\ \A o \in Callers \ {t} : call'[o] = call[o]
  BY <1>1, Zenon DEF IInv, TunnelInv, NamedTypeOK, Return
<1>3. \A o \in Callers \ {t} : ~Inside(o)
  BY Zenon DEF IInv, TunnelInv, Mutex
<1>4. Mutex'
  BY <1>1, <1>2, <1>3, Zenon DEF IInv, TunnelInv, Mutex, Inside
<1>5. Forms'
  BY <1>1, <1>2, Zenon DEF IInv, TunnelInv, Forms
<1>6. QED
  BY <1>2, <1>4, <1>5, Zenon

\* Those who wait for the lock or are idle have seen nothing.
LEMMA Outside ==
    ASSUME IInv, NEW t \in Callers, Inside(t), \A o \in Callers \ {t} : call'[o] = call[o]
    PROVE  \A o \in Callers \ {t} : Fits(o)' /\ call[o].at # "driving"
<1> TAKE o \in Callers \ {t}
<1>1. call[o].at \in {"idle", "lock"} /\ call'[o] = call[o]
  BY Zenon DEF IInv, TunnelInv, Mutex, Inside
<1>2. call'[o].at \notin {"oneshot", "save", "rules", "begin", "driving"}
  BY <1>1, Zenon
<1>3. QED
  BY <1>1, <1>2, Zenon DEF Fits

\* A request that changes neither the account nor the config nor the process.
LEMMA OnlyMoves ==
    ASSUME IInv, NEW t \in Callers, Inside(t), \A o \in Callers \ {t} : call'[o] = call[o],
           call[t].at # "driving", UNCHANGED <<acctvars, named>>, serving' \in {0, serving}
    PROVE  Handed' /\ Single' /\ Serves' /\ (Fits(t)' => Held')
<1>1. Handed' /\ Single'
  BY Zenon DEF IInv, TunnelInv, Handed, Single, Recorded, acctvars
<1>2. ~Driven
  BY Outside, Zenon DEF Driven
<1>3. Serves'
  BY <1>2, Zenon DEF IInv, TunnelInv, Serves, acctvars
<1>4. Fits(t)' => Held'
  BY Outside, Zenon DEF Held
<1>5. QED
  BY <1>1, <1>3, <1>4, Zenon

\* Lock: the request that comes in has seen nothing yet.
LEMMA LockKeeps ==
    ASSUME IInv, NEW t \in Callers, Lock(t), UNCHANGED <<binvars, zonevars, job>>
    PROVE  TunnelInv'
<1>1. PICK k \in Requests :
        call' = [call EXCEPT ![t] = k] /\ k.at = "check" /\ k.op = call[t].op /\ k.name = call[t].name
  <2>1. call \in [Callers -> Requests] /\ call[t] \in Requests
    BY Zenon DEF IInv, TunnelInv, NamedTypeOK
  <2>2. [call[t] EXCEPT !.at = "check"] \in Requests
    BY <2>1, Zenon DEF Requests
  <2>3. QED
    BY <2>1, <2>2, Zenon DEF Lock, Requests
<1>2. call' \in [Callers -> Requests] /\ call'[t] = k /\ \A o \in Callers \ {t} : call'[o] = call[o]
  BY <1>1, Zenon DEF IInv, TunnelInv, NamedTypeOK
<1>3. \A o \in Callers : call[o].at \in {"idle", "lock"} /\ ~Inside(o)
  BY NamedTunnelAssumption, Zenon DEF Lock, IInv, TunnelInv, NamedTypeOK, Mutex, Inside
<1>4. NamedTypeOK'
  BY <1>2, Zenon DEF Lock, IInv, TunnelInv, NamedTypeOK, acctvars, cfgvars, binvars, zonevars
<1>5. Mutex'
  BY <1>1, <1>2, <1>3, Zenon DEF Lock, IInv, TunnelInv, Mutex, Inside
<1>6. Form(k)
  BY <1>1, Zenon DEF Lock, Form, IInv, TunnelInv, Forms
<1>7. Forms'
  BY <1>2, <1>6, Zenon DEF IInv, TunnelInv, Forms
<1>8. Handed' /\ Single' /\ Serves'
  BY <1>3, Zenon DEF Lock, IInv, TunnelInv, Handed, Single, Recorded, Serves, Driven, acctvars, cfgvars
<1>9. \A o \in Callers : call'[o].at \in {"idle", "lock", "check"}
  BY <1>1, <1>2, <1>3, Zenon
<1>10. Held'
  BY <1>9, Zenon DEF Held, Fits
<1>11. QED
  BY <1>4, <1>5, <1>7, <1>8, <1>10, Zenon DEF TunnelInv

\* create: what it makes on the account is new, and nothing is served then.
LEMMA CreateKeeps ==
    ASSUME IInv, NEW t \in Callers, UNCHANGED <<binvars, zonevars, job>>,
           CreateStart(t) \/ CreateDone(t) \/ CreateFails(t) \/ CreateSaved(t)
    PROVE  TunnelInv'
<1> USE DEF acctvars, cfgvars, binvars, zonevars
<1> DEFINE n == call[t].name
<1>1. Inside(t) /\ call[t].at \notin {"idle", "driving"} /\ call[t].op = "create" /\ n \in Names
  BY Zenon DEF CreateStart, CreateDone, CreateFails, CreateSaved, Is, Inside, IInv, TunnelInv, Forms, Form
<1>2. ~Driven
  <2>1. \A o \in Callers \ {t} : call[o].at # "driving"
    BY <1>1, Zenon DEF IInv, TunnelInv, Mutex, Inside
  <2>2. QED
    BY <1>1, <2>1, Zenon DEF Driven
<1>3. AccountCreates(n) => serving = 0 \/ call[t].at # "oneshot"
  BY <1>1, <1>2, Zenon DEF AccountCreates, IInv, TunnelInv, Held, Fits, Serves, Recorded
<1>4. CASE CreateStart(t)
  <2>0. PICK k \in Requests :
          call' = [call EXCEPT ![t] = k] /\ k.at = "oneshot" /\ k.op = call[t].op /\ k.name = call[t].name
    <3>1. call \in [Callers -> Requests] /\ call[t] \in Requests
      BY Zenon DEF IInv, TunnelInv, NamedTypeOK
    <3>2. [call[t] EXCEPT !.at = "oneshot"] \in Requests
      BY <3>1, Zenon DEF Requests
    <3>3. QED
      BY <1>4, <3>1, <3>2, Zenon DEF CreateStart, CallGoTo, Requests
  <2>1. Form(k)
    BY <1>1, <2>0, Zenon DEF Form
  <2>2. /\ call' \in [Callers -> Requests] /\ call'[t] = k
        /\ \A o \in Callers \ {t} : call'[o] = call[o]
        /\ Mutex' /\ Forms'
    BY <1>1, <1>4, <2>0, <2>1, Moves, Zenon DEF CreateStart, CallGoTo
  <2>3. NamedTypeOK'
    BY <1>4, <2>2, Zenon DEF CreateStart, CallGoTo, IInv, TunnelInv, NamedTypeOK
  <2>4. Fits(t)'
    BY <1>1, <1>4, <2>0, <2>2, Zenon DEF CreateStart, Fits, Recorded
  <2>5. Handed' /\ Single' /\ Serves' /\ Held'
    BY <1>1, <1>4, <2>2, <2>4, OnlyMoves, Zenon DEF CreateStart
  <2>6. QED
    BY <2>2, <2>3, <2>5, Zenon DEF TunnelInv
<1>5. CASE CreateDone(t)
  <2>a. PICK u \in 0 .. MaxEvents : u = uuids + 1
    BY <1>5, NamedTunnelAssumption DEF CreateDone, AccountCreates, IInv, TunnelInv, NamedTypeOK
  <2>1. u # 0 /\ uuids' = u /\ account' = [account EXCEPT ![n] = u]
    BY <1>5, <2>a, NamedTunnelAssumption DEF CreateDone, AccountCreates, IInv, TunnelInv, NamedTypeOK
  <2>0. PICK k \in Requests :
          call' = [call EXCEPT ![t] = k] /\ k.at = "save" /\ k.op = call[t].op /\ k.name = call[t].name /\ k.uuid = u
    <3>1. call' = [call EXCEPT ![t].at = "save", ![t].uuid = u]
      BY <1>5, <2>1, Zenon DEF CreateDone
    <3>2. call \in [Callers -> Requests] /\ call[t] \in Requests
      BY Zenon DEF IInv, TunnelInv, NamedTypeOK
    <3>3. [call[t] EXCEPT !.at = "save", !.uuid = u] \in Requests
      BY <3>2, Zenon DEF Requests
    <3>4. QED
      BY <3>1, <3>2, <3>3, Zenon DEF Requests
  <2>2. Form(k)
    BY <1>1, <2>0, Zenon DEF Form
  <2>3. /\ call' \in [Callers -> Requests] /\ call'[t] = k
        /\ \A o \in Callers \ {t} : call'[o] = call[o]
        /\ Mutex' /\ Forms'
    BY <1>1, <1>5, <2>0, <2>2, Moves, Zenon DEF CreateDone
  <2>4. NamedTypeOK'
    BY <1>1, <1>5, <2>1, <2>3, Zenon DEF CreateDone, IInv, TunnelInv, NamedTypeOK
  <2>5. Handed' /\ Single'
    BY <1>1, <1>5, <2>a, <2>1, NamedTunnelAssumption DEF CreateDone, IInv, TunnelInv, NamedTypeOK, Handed, Single, Recorded
  <2>6. serving = 0 /\ serving' = 0 /\ Recorded \subseteq {n}
    BY <1>1, <1>3, <1>5, Zenon DEF CreateDone, Is, IInv, TunnelInv, Held, Fits
  <2>7. Fits(t)'
    BY <1>1, <1>5, <2>0, <2>1, <2>3, <2>6, Zenon DEF CreateDone, Fits, Recorded, IInv, TunnelInv, NamedTypeOK
  <2>8. Held'
    BY <1>1, <2>3, <2>7, Outside, Zenon DEF Held
  <2>9. QED
    BY <2>3, <2>4, <2>5, <2>6, <2>8, Zenon DEF TunnelInv, Serves
<1>6. CASE CreateFails(t)
  <2>1. /\ call' \in [Callers -> Requests] /\ call'[t] = NoCall /\ mutate' = NoCaller
        /\ \A o \in Callers \ {t} : call'[o] = call[o]
        /\ Mutex' /\ Forms'
    BY <1>1, <1>6, Returns, Zenon DEF CreateFails
  <2>2. Fits(t)'
    BY <2>1 DEF Fits, NoCall
  <2>3. CASE UNCHANGED acctvars
    BY <1>1, <1>6, <2>1, <2>2, <2>3, OnlyMoves, Zenon DEF CreateFails, IInv, TunnelInv, NamedTypeOK
  <2>4. CASE AccountCreates(n) /\ creds' \in {creds, [creds EXCEPT ![n] = uuids']}
    <3>1. serving' = 0
      BY <1>3, <1>6, <2>4, Zenon DEF CreateFails, Is
    <3>2. uuids' \in 0 .. MaxEvents /\ uuids' = uuids + 1 /\ account' = [account EXCEPT ![n] = uuids']
      BY <2>4, NamedTunnelAssumption DEF AccountCreates, IInv, TunnelInv, NamedTypeOK
    <3>3. NamedTypeOK'
      BY <1>1, <1>6, <2>1, <2>4, <3>2 DEF CreateFails, IInv, TunnelInv, NamedTypeOK
    <3>4. Handed' /\ Single'
      BY <1>1, <1>6, <3>2, NamedTunnelAssumption DEF CreateFails, IInv, TunnelInv, NamedTypeOK, Handed, Single, Recorded
    <3>5. Held'
      BY <1>1, <2>1, <2>2, Outside, Zenon DEF Held
    <3>6. QED
      BY <2>1, <3>1, <3>3, <3>4, <3>5, Zenon DEF TunnelInv, Serves
  <2>5. QED
    BY <1>6, <2>3, <2>4, Zenon DEF CreateFails
<1>7. CASE CreateSaved(t)
  <2>1. /\ call' \in [Callers -> Requests] /\ call'[t] = NoCall /\ mutate' = NoCaller
        /\ \A o \in Callers \ {t} : call'[o] = call[o]
        /\ Mutex' /\ Forms'
    BY <1>1, <1>7, Returns, Zenon DEF CreateSaved
  <2>2. Fits(t)'
    BY <2>1 DEF Fits, NoCall
  <2>3. /\ call[t].uuid \in 0 .. MaxEvents /\ call[t].uuid = account[n] /\ call[t].uuid # 0
        /\ serving = 0 /\ serving' = 0 /\ Recorded \subseteq {n}
    BY <1>1, <1>7, Zenon DEF CreateSaved, Is, IInv, TunnelInv, NamedTypeOK, Requests, Held, Fits
  <2>4. NamedTypeOK'
    BY <1>1, <1>7, <2>1, <2>3, Zenon DEF CreateSaved, IInv, TunnelInv, NamedTypeOK
  <2>5. Handed' /\ Single'
    BY <1>1, <1>7, <2>3 DEF CreateSaved, IInv, TunnelInv, NamedTypeOK, Handed, Single, Recorded
  <2>6. Held'
    BY <1>1, <2>1, <2>2, Outside, Zenon DEF Held
  <2>7. QED
    BY <2>1, <2>3, <2>4, <2>5, <2>6, Zenon DEF TunnelInv, Serves
<1>8. QED
  BY <1>4, <1>5, <1>6, <1>7, Zenon

\* A refusal changes nothing but the lock.
LEMMA RefusedKeeps ==
    ASSUME IInv, NEW t \in Callers, Refused(t), UNCHANGED <<binvars, zonevars, job>>
    PROVE  TunnelInv'
<1> USE DEF acctvars, cfgvars, binvars, zonevars
<1>1. Inside(t) /\ call[t].at \notin {"idle", "driving"}
  BY Zenon DEF Refused, Inside
<1>2. /\ call' \in [Callers -> Requests] /\ call'[t] = NoCall /\ mutate' = NoCaller
      /\ \A o \in Callers \ {t} : call'[o] = call[o]
      /\ Mutex' /\ Forms'
  BY <1>1, Returns, Zenon DEF Refused
<1>3. NamedTypeOK'
  BY <1>2, Zenon DEF Refused, IInv, TunnelInv, NamedTypeOK
<1>4. Fits(t)'
  BY <1>2 DEF Fits, NoCall
<1>5. Handed' /\ Single' /\ Serves' /\ Held'
  BY <1>1, <1>2, <1>4, OnlyMoves, Zenon DEF Refused
<1>6. QED
  BY <1>2, <1>3, <1>5, Zenon DEF TunnelInv

\* delete: from its first step to its last nothing is served.
LEMMA DeleteKeeps ==
    ASSUME IInv, NEW t \in Callers, UNCHANGED <<binvars, zonevars, job>>,
           DeleteStart(t) \/ DeleteDone(t) \/ DeleteFails(t) \/ DeleteSaved(t)
    PROVE  TunnelInv'
<1> USE DEF acctvars, cfgvars, binvars, zonevars
<1> DEFINE n == call[t].name
           Ret == /\ call' \in [Callers -> Requests] /\ call'[t] = NoCall /\ mutate' = NoCaller
                  /\ \A o \in Callers \ {t} : call'[o] = call[o]
                  /\ Mutex' /\ Forms'
           Go(a) == /\ call' \in [Callers -> Requests] /\ mutate' = mutate
                    /\ call'[t].at = a /\ call'[t].op = "delete" /\ call'[t].name = n
                    /\ \A o \in Callers \ {t} : call'[o] = call[o]
                    /\ Mutex' /\ Forms'
<1>1. Inside(t) /\ call[t].at \notin {"idle", "driving"} /\ call[t].op = "delete" /\ n \in Names
  BY Zenon DEF DeleteStart, DeleteDone, DeleteFails, DeleteSaved, Is, Inside, IInv, TunnelInv, Forms, Form
<1>2. serving' = 0
  BY Zenon DEF DeleteStart, DeleteDone, DeleteFails, DeleteSaved, Is, IInv, TunnelInv, Held, Fits
<1>3. Return(t) => Ret
  BY <1>1, Returns, Zenon
<1>4. ASSUME NEW a \in {"oneshot", "save"}, CallGoTo(t, a) PROVE Go(a)
  <2>1. call' = [call EXCEPT ![t].at = a] /\ mutate' = mutate
    BY <1>4, Zenon DEF CallGoTo
  <2>2. PICK k \in Requests : call' = [call EXCEPT ![t] = k] /\ k.at = a /\ k.op = call[t].op /\ k.name = call[t].name
    <3>1. call \in [Callers -> Requests] /\ call[t] \in Requests
      BY Zenon DEF IInv, TunnelInv, NamedTypeOK
    <3>2. [call[t] EXCEPT !.at = a] \in Requests
      BY <3>1, Zenon DEF Requests
    <3>3. QED
      BY <2>1, <3>1, <3>2, Zenon DEF Requests
  <2>3. Form(k)
    BY <1>1, <2>2, Zenon DEF Form
  <2>4. QED
    BY <1>1, <2>1, <2>2, <2>3, Moves, Zenon
<1>5. Ret => Fits(t)'
  BY DEF Fits, NoCall
<1>6. ASSUME NEW a \in {"oneshot", "save"}, Go(a) PROVE Fits(t)'
  BY <1>2, <1>6, Zenon DEF Fits
<1>7. \A o \in Callers \ {t} : call'[o] = call[o]
  BY <1>3, <1>4, Zenon DEF DeleteStart, DeleteDone, DeleteFails, DeleteSaved
<1>8. Fits(t)'
  BY <1>3, <1>4, <1>5, <1>6, Zenon DEF DeleteStart, DeleteDone, DeleteFails, DeleteSaved
<1>9. Held' /\ Serves'
  BY <1>1, <1>2, <1>7, <1>8, Outside, Zenon DEF Held, Serves
<1>10. call' \in [Callers -> Requests] /\ mutate' \in {mutate, NoCaller} /\ Mutex' /\ Forms'
  BY <1>3, <1>4, Zenon DEF DeleteStart, DeleteDone, DeleteFails, DeleteSaved
<1>11. /\ account' \in {account, [account EXCEPT ![n] = 0]} /\ creds' \in {creds, [creds EXCEPT ![n] = 0]}
       /\ named' \in {named, [named EXCEPT ![n] = 0]} /\ hosts' \in {hosts, {}} /\ uuids' = uuids
  BY Zenon DEF DeleteStart, DeleteDone, DeleteFails, DeleteSaved
<1>12. NamedTypeOK'
  BY <1>1, <1>2, <1>10, <1>11, NamedTunnelAssumption DEF IInv, TunnelInv, NamedTypeOK
<1>13. Handed'
  BY <1>1, <1>11, NamedTunnelAssumption DEF IInv, TunnelInv, NamedTypeOK, Handed
<1>14. Single'
  BY <1>1, <1>11, Zenon DEF IInv, TunnelInv, NamedTypeOK, Single, Recorded
<1>15. QED
  BY <1>9, <1>10, <1>12, <1>13, <1>14, Zenon DEF TunnelInv

\* start: it serves what it has read under the same hold of the lock, and keeps
\* the process only when the account knows the tunnel.
LEMMA StartKeeps ==
    ASSUME IInv, NEW t \in Callers, UNCHANGED <<binvars, zonevars, job>>,
           StartReads(t) \/ StartStops(t) \/ StartRuns(t) \/ StartEnds(t)
    PROVE  TunnelInv'
<1> USE DEF acctvars, cfgvars, binvars, zonevars
<1>1. Inside(t) /\ call[t].at # "idle" /\ call[t].op = "start"
  BY Zenon DEF StartReads, StartStops, StartRuns, StartEnds, Is, Inside
<1>2. UNCHANGED <<acctvars, cfgvars>>
  BY Zenon DEF StartReads, StartStops, StartRuns, StartEnds
<1>3. Handed' /\ Single'
  BY <1>2, Zenon DEF IInv, TunnelInv, Handed, Single, Recorded
<1>4. call[t].at \in {"rules", "begin", "driving"} =>
        call[t].uuid \in 0 .. MaxEvents /\ call[t].uuid # 0 /\ \E n \in Names : named[n] = call[t].uuid
  BY Zenon DEF IInv, TunnelInv, NamedTypeOK, Requests, Held, Fits
<1>5. CASE Return(t)
  <2>1. /\ call' \in [Callers -> Requests] /\ call'[t] = NoCall /\ mutate' = NoCaller
        /\ \A o \in Callers \ {t} : call'[o] = call[o]
        /\ Mutex' /\ Forms'
    BY <1>1, <1>5, Returns, Zenon
  <2>2. serving' \in {0, serving}
    <3>1. mutate' # mutate
      BY <1>1, <2>1, NamedTunnelAssumption, Zenon DEF IInv, TunnelInv, Mutex
    <3>2. QED
      BY <3>1, Zenon DEF StartReads, StartStops, StartRuns, StartEnds, CallGoTo
  <2>3. NamedTypeOK'
    BY <1>2, <2>1, <2>2, NamedTunnelAssumption DEF IInv, TunnelInv, NamedTypeOK
  <2>4. Fits(t)'
    BY <2>1 DEF Fits, NoCall
  <2>5. Held'
    BY <1>1, <2>1, <2>4, Outside, Zenon DEF Held
  <2>6. CASE call[t].at # "driving"
    BY <1>1, <1>2, <1>3, <2>1, <2>2, <2>3, <2>5, <2>6, OnlyMoves, Zenon DEF TunnelInv
  <2>7. CASE call[t].at = "driving"
    <3>1. serving' # 0 => \E m \in Names : account[m] = serving /\ serving' = serving
      BY <1>1, <2>7, Zenon DEF StartReads, StartStops, StartRuns, StartEnds, Is
    <3>2. Serves'
      BY <1>2, <3>1, Zenon DEF Serves, IInv, TunnelInv, Handed
    <3>3. QED
      BY <1>3, <2>1, <2>3, <2>5, <3>2, Zenon DEF TunnelInv
  <2>8. QED
    BY <2>6, <2>7, Zenon
<1>6. CASE StartReads(t)
  <2>1. PICK n \in Recorded : call' = [call EXCEPT ![t].at = "rules", ![t].uuid = named[n]]
    BY <1>6, Zenon DEF StartReads
  <2>2. PICK u \in 0 .. MaxEvents : u = named[n] /\ u # 0 /\ n \in Names
    BY Zenon DEF Recorded, IInv, TunnelInv, NamedTypeOK
  <2>3. PICK k \in Requests :
          call' = [call EXCEPT ![t] = k] /\ k.at = "rules" /\ k.op = call[t].op /\ k.uuid = u
    <3>1. call' = [call EXCEPT ![t].at = "rules", ![t].uuid = u]
      BY <2>1, <2>2, Zenon
    <3>2. call \in [Callers -> Requests] /\ call[t] \in Requests
      BY Zenon DEF IInv, TunnelInv, NamedTypeOK
    <3>3. [call[t] EXCEPT !.at = "rules", !.uuid = u] \in Requests
      BY <3>2, Zenon DEF Requests
    <3>4. QED
      BY <3>1, <3>2, <3>3, Zenon DEF Requests
  <2>4. Form(k)
    BY <1>1, <2>3, Zenon DEF Form
  <2>5. /\ call' \in [Callers -> Requests] /\ call'[t] = k
        /\ \A o \in Callers \ {t} : call'[o] = call[o]
        /\ Mutex' /\ Forms'
    BY <1>1, <1>6, <2>3, <2>4, Moves, ZenonT(30) DEF StartReads
  <2>6. NamedTypeOK'
    BY <1>6, <2>5, Zenon DEF StartReads, IInv, TunnelInv, NamedTypeOK
  <2>7. Fits(t)'
    BY <1>1, <1>2, <2>2, <2>3, <2>5, ZenonT(30) DEF Fits
  <2>8. Handed' /\ Single' /\ Serves' /\ Held'
    BY <1>1, <1>6, <2>5, <2>7, OnlyMoves, Zenon DEF StartReads, Is
  <2>9. QED
    BY <2>5, <2>6, <2>8, Zenon DEF TunnelInv
<1>7. CASE ~Return(t) /\ ~StartReads(t)
  <2>1. PICK a \in {"begin", "driving"} :
          /\ CallGoTo(t, a) /\ call[t].at \in {"rules", "begin"}
          /\ a = "begin" => serving' = 0
          /\ a = "driving" => serving' = call[t].uuid
    BY <1>7, Zenon DEF StartStops, StartRuns, StartEnds, Is
  <2>2. call' = [call EXCEPT ![t].at = a] /\ mutate' = mutate
    BY <2>1, Zenon DEF CallGoTo
  <2>3. PICK k \in Requests :
          /\ call' = [call EXCEPT ![t] = k]
          /\ k.at = a /\ k.op = call[t].op /\ k.name = call[t].name /\ k.uuid = call[t].uuid
    <3>1. call \in [Callers -> Requests] /\ call[t] \in Requests
      BY Zenon DEF IInv, TunnelInv, NamedTypeOK
    <3>2. [call[t] EXCEPT !.at = a] \in Requests
      BY <3>1, Zenon DEF Requests
    <3>3. QED
      BY <2>2, <3>1, <3>2, Zenon DEF Requests
  <2>4. Form(k)
    BY <1>1, <2>3, Zenon DEF Form
  <2>5. /\ call' \in [Callers -> Requests] /\ call'[t] = k
        /\ \A o \in Callers \ {t} : call'[o] = call[o]
        /\ Mutex' /\ Forms'
    BY <1>1, <2>2, <2>3, <2>4, Moves, ZenonT(30)
  <2>6. NamedTypeOK'
    BY <1>2, <1>4, <2>1, <2>2, <2>5, NamedTunnelAssumption DEF IInv, TunnelInv, NamedTypeOK
  <2>7. Fits(t)'
    BY <1>1, <1>2, <1>4, <2>1, <2>3, <2>5, Zenon DEF Fits
  <2>8. Held'
    BY <1>1, <2>5, <2>7, Outside, Zenon DEF Held
  <2>9. Serves'
    BY <1>2, <1>4, <2>1, <2>3, <2>5, Zenon DEF Serves, Driven
  <2>10. QED
    BY <1>3, <2>5, <2>6, <2>8, <2>9, Zenon DEF TunnelInv
<1>8. QED
  BY <1>5, <1>6, <1>7, Zenon

\* The requests that do not take the lock, and those that ask for it.
LEMMA OthersKeep ==
    ASSUME IInv, UNCHANGED <<binvars, zonevars, job>>,
           \/ \E t \in Callers, n \in Names \cup {NoName}, op \in CallOps \ {"none"} :
                AskCall(t, op, n) /\ (n \in Names \/ op = "start")
           \/ StopNamed
           \/ \E s \in TunnelSites : SetSiteHostname(s)
    PROVE  TunnelInv'
<1> USE DEF acctvars, cfgvars, binvars, zonevars
<1>1. ASSUME NEW t \in Callers, NEW n \in Names \cup {NoName}, NEW op \in CallOps \ {"none"},
             AskCall(t, op, n), n \in Names \/ op = "start"
      PROVE  TunnelInv'
  <2>1. PICK k \in Requests : call' = [call EXCEPT ![t] = k] /\ k.at = "lock" /\ k.op = op /\ k.name = n
    <3>0. 0 \in 0 .. MaxEvents
      BY NamedTunnelAssumption
    <3>1. [NoCall EXCEPT !.op = op, !.name = n, !.at = "lock"] \in Requests
      BY <3>0, Zenon DEF NoCall, Requests
    <3>2. QED
      BY <1>1, <3>1, Zenon DEF AskCall, NoCall
  <2>2. /\ call' \in [Callers -> Requests] /\ call'[t] = k
        /\ \A o \in Callers \ {t} : call'[o] = call[o]
    BY <2>1, Zenon DEF IInv, TunnelInv, NamedTypeOK
  <2>3. call[t].at = "idle" /\ job[t].at = "idle" /\ UNCHANGED <<acctvars, cfgvars, serving, mutate>>
    BY <1>1, Zenon DEF AskCall
  <2>4. NamedTypeOK'
    BY <2>2, <2>3, Zenon DEF IInv, TunnelInv, NamedTypeOK
  <2>5. Mutex'
    BY <2>1, <2>2, <2>3, Zenon DEF IInv, TunnelInv, Mutex, Inside
  <2>6. Form(k)
    BY <1>1, <2>1, Zenon DEF Form, CallOps
  <2>7. Forms'
    BY <2>2, <2>6, Zenon DEF IInv, TunnelInv, Forms
  <2>8. Handed' /\ Single'
    BY <2>3, Zenon DEF IInv, TunnelInv, Handed, Single, Recorded
  <2>9. Serves'
    BY <2>2, <2>3, Zenon DEF IInv, TunnelInv, Serves, Driven
  <2>10. Fits(t)'
    BY <2>1, <2>2, Zenon DEF Fits
  <2>11. \A o \in Callers \ {t} : Fits(o)'
    BY <2>2, <2>3 DEF IInv, TunnelInv, Held, Fits, Recorded
  <2>12. QED
    BY <2>4, <2>5, <2>7, <2>8, <2>9, <2>10, <2>11, Zenon DEF TunnelInv, Held
<1>2. CASE StopNamed
  <2>1. serving' = 0 /\ UNCHANGED <<acctvars, cfgvars, mutate, call>>
    BY <1>2, Zenon DEF StopNamed
  <2>2. NamedTypeOK' /\ Serves'
    BY <2>1, NamedTunnelAssumption DEF IInv, TunnelInv, NamedTypeOK, Serves
  <2>3. Mutex' /\ Forms' /\ Handed' /\ Single'
    BY <2>1, Zenon DEF IInv, TunnelInv, Mutex, Inside, Forms, Handed, Single, Recorded
  <2>4. Held'
    BY <2>1, Zenon DEF IInv, TunnelInv, Held, Fits, Recorded
  <2>5. QED
    BY <2>2, <2>3, <2>4, Zenon DEF TunnelInv
<1>3. CASE \E s \in TunnelSites : SetSiteHostname(s)
  <2>1. hosts' \subseteq TunnelSites /\ UNCHANGED <<named, acctvars, serving, mutate, call>>
    BY <1>3, Zenon DEF SetSiteHostname, IInv, TunnelInv, NamedTypeOK
  <2>2. NamedTypeOK' /\ Serves'
    BY <2>1, Zenon DEF IInv, TunnelInv, NamedTypeOK, Serves, Driven
  <2>3. Mutex' /\ Forms' /\ Handed' /\ Single'
    BY <2>1, Zenon DEF IInv, TunnelInv, Mutex, Inside, Forms, Handed, Single, Recorded
  <2>4. Held'
    BY <2>1, Zenon DEF IInv, TunnelInv, Held, Fits, Recorded
  <2>5. QED
    BY <2>2, <2>3, <2>4, Zenon DEF TunnelInv
<1>4. QED
  BY <1>1, <1>2, <1>3, Zenon

\* The tunnel's part of a step.
LEMMA TunnelNextKeeps ==
    ASSUME IInv, TunnelNext, UNCHANGED <<binvars, zonevars, job>>
    PROVE  IInv'
<1>1. TunnelInv'
  <2>1. ASSUME NEW t \in Callers, CallStep(t) PROVE TunnelInv'
    BY <2>1, LockKeeps, RefusedKeeps, CreateKeeps, DeleteKeeps, StartKeeps, Zenon DEF CallStep
  <2>2. ASSUME NEW t \in Callers, NEW n \in Names, NEW op \in {"create", "delete"}, AskCall(t, op, n) PROVE TunnelInv'
    BY <2>2, OthersKeep, Zenon DEF CallOps
  <2>3. ASSUME NEW t \in Callers, AskCall(t, "start", NoName) PROVE TunnelInv'
    BY <2>3, OthersKeep, Zenon DEF CallOps
  <2>4. CASE StopNamed \/ \E s \in TunnelSites : SetSiteHostname(s)
    BY <2>4, OthersKeep, Zenon
  <2>5. QED
    BY <2>1, <2>2, <2>3, <2>4, Zenon DEF TunnelNext
<1>2. CacheInv'
  BY Zenon DEF IInv, CacheInv, ManagedWins, Listed, Dated, binvars, zonevars
<1>3. QED
  BY <1>1, <1>2, Zenon DEF IInv

\* A job changes its own record, its caches and perhaps the lock; the tunnel's
\* part of the state is as it was.
JobMoves(t, k) ==
    /\ job' = [job EXCEPT ![t] = k]
    /\ call[t].at = "idle"
    /\ \/ k.at \notin {"install", "login"} /\ job[t].at \notin {"install", "login"} /\ mutate' = mutate
       \/ k.at \notin {"install", "login"} /\ job[t].at \in {"install", "login"} /\ mutate' = NoCaller
       \/ mutate = NoCaller /\ mutate' = t

LEMMA JobMovesKeep ==
    ASSUME IInv, NEW t \in Callers, NEW k \in Jobs, JobMoves(t, k),
           UNCHANGED <<acctvars, cfgvars, serving, call>>,
           managed' \in BOOLEAN, sysbin' \in BOOLEAN, installed' \in BOOLEAN, cache' \in Sources,
           cert' \in 0 .. MaxEvents, zone' \in [mtime : 0 .. MaxEvents, from : 0 .. MaxEvents]
    PROVE  /\ TunnelInv' /\ job'[t] = k
           /\ \A o \in Callers \ {t} : job'[o] = job[o]
<1> USE DEF acctvars, cfgvars
<1>1. /\ job' \in [Callers -> Jobs] /\ job'[t] = k
      /\ \A o \in Callers \ {t} : job'[o] = job[o]
  BY Zenon DEF JobMoves, IInv, TunnelInv, NamedTypeOK
<1>2. mutate' \in Callers \cup {NoCaller}
  BY Zenon DEF JobMoves, IInv, TunnelInv, NamedTypeOK
<1>3. NamedTypeOK'
  BY <1>1, <1>2, Zenon DEF IInv, TunnelInv, NamedTypeOK
<1>4. ASSUME NEW o \in Callers PROVE (Inside(o)' => mutate' = o) /\ (call'[o].at = "idle" \/ job'[o].at = "idle")
  <2>1. CASE o = t
    BY <1>1, <2>1, Zenon DEF JobMoves, Inside
  <2>2. CASE o # t
    BY <1>1, <2>2, NamedTunnelAssumption DEF JobMoves, IInv, TunnelInv, Mutex, Inside
  <2>3. QED
    BY <2>1, <2>2, Zenon
<1>5. Mutex'
  BY <1>4, Zenon DEF Mutex
<1>6. Forms' /\ Handed' /\ Single' /\ Serves'
  BY Zenon DEF IInv, TunnelInv, Forms, Form, Handed, Single, Recorded, Serves, Driven
<1>7. Held'
  BY Zenon DEF IInv, TunnelInv, Held, Fits, Recorded
<1>8. QED
  BY <1>1, <1>3, <1>5, <1>6, <1>7, Zenon DEF TunnelInv

\* The resolution of the binary, the install job and the waiting for the lock:
\* the zone's cache is left alone.
LEMMA BinaryKeeps ==
    ASSUME IInv, NEW t \in Callers, UNCHANGED <<acctvars, cfgvars, serving, call>>,
           \/ CacheHit(t) \/ resolve(t) \/ probe(t) \/ CacheWrite(t)
           \/ LockJob(t) \/ CancelWaiting(t) \/ install(t) \/ InstallRefresh(t)
           \/ \E at \in {"resolve", "wait_install", "wait_login", "zone"} : AskJob(t, at)
    PROVE  IInv'
<1> USE DEF binvars, zonevars
<1>1. /\ managed \in BOOLEAN /\ sysbin \in BOOLEAN /\ installed \in BOOLEAN /\ cache \in Sources
      /\ cert \in 0 .. MaxEvents /\ zone \in [mtime : 0 .. MaxEvents, from : 0 .. MaxEvents]
      /\ job \in [Callers -> Jobs] /\ job[t] \in Jobs /\ NoJob \in Jobs /\ NoJob.at = "idle"
  BY NamedTunnelAssumption DEF IInv, TunnelInv, NamedTypeOK, NoJob, Jobs, Sources
<1>2. PICK k \in Jobs : JobMoves(t, k) /\ k.at \notin {"mtime", "pem"}
  <2>1. CASE CacheHit(t) \/ CacheWrite(t) \/ CancelWaiting(t) \/ InstallRefresh(t)
    BY <1>1, <2>1, Zenon DEF CacheHit, CacheWrite, CancelWaiting, InstallRefresh, JobReturn, JobMoves, IInv, TunnelInv, Mutex
  <2>2. CASE resolve(t)
    <3> DEFINE k == [job[t] EXCEPT !.at = IF managed THEN "cachewrite" ELSE "probe",
                                   !.fresh = IF managed THEN "Managed" ELSE "none"]
    <3>1. k \in Jobs /\ k.at \in {"cachewrite", "probe"}
      BY <1>1, Zenon DEF Jobs, Sources
    <3>2. job' = [job EXCEPT ![t] = k]
      BY <1>1, <2>2, Zenon DEF resolve
    <3> HIDE DEF k
    <3>3. QED
      BY <2>2, <3>1, <3>2, Zenon DEF resolve, JobMoves, IInv, TunnelInv, Mutex
  <2>3. CASE probe(t)
    <3>1. PICK f \in Sources : job' = [job EXCEPT ![t].at = "cachewrite", ![t].fresh = f]
      BY <2>3, Zenon DEF probe, Sources
    <3> DEFINE k == [job[t] EXCEPT !.at = "cachewrite", !.fresh = f]
    <3>2. k \in Jobs /\ k.at = "cachewrite"
      BY <1>1, Zenon DEF Jobs
    <3>3. job' = [job EXCEPT ![t] = k]
      BY <1>1, <3>1, Zenon
    <3> HIDE DEF k
    <3>4. QED
      BY <2>3, <3>2, <3>3, Zenon DEF probe, JobMoves, IInv, TunnelInv, Mutex
  <2>4. CASE LockJob(t)
    <3>1. PICK a \in {"install", "login"} : job' = [job EXCEPT ![t].at = a]
      BY <2>4, ZenonT(30) DEF LockJob, JobGoTo
    <3> DEFINE k == [job[t] EXCEPT !.at = a]
    <3>2. k \in Jobs /\ k.at = a
      BY <1>1, Zenon DEF Jobs
    <3>3. job' = [job EXCEPT ![t] = k]
      BY <1>1, <3>1, Zenon
    <3> HIDE DEF k
    <3>4. QED
      BY <2>4, <3>2, <3>3, Zenon DEF LockJob, JobMoves, IInv, TunnelInv, Mutex
  <2>5. CASE install(t)
    <3>1. CASE JobReturn(t)
      BY <1>1, <2>5, <3>1, ZenonT(30) DEF install, JobReturn, JobMoves, IInv, TunnelInv, Mutex
    <3>2. CASE JobGoTo(t, "refresh")
      <4> DEFINE k == [job[t] EXCEPT !.at = "refresh"]
      <4>1. k \in Jobs /\ k.at = "refresh"
        BY <1>1, Zenon DEF Jobs
      <4>2. job' = [job EXCEPT ![t] = k]
        BY <1>1, <3>2, Zenon DEF JobGoTo
      <4> HIDE DEF k
      <4>3. QED
        BY <2>5, <4>1, <4>2, Zenon DEF install, JobMoves, IInv, TunnelInv, Mutex
    <3>3. QED
      BY <2>5, <3>1, <3>2, Zenon DEF install
  <2>6. CASE \E at \in {"resolve", "wait_install", "wait_login", "zone"} : AskJob(t, at)
    <3>1. PICK a \in {"resolve", "wait_install", "wait_login", "zone"} : AskJob(t, a)
      BY <2>6, Zenon
    <3> DEFINE k == [job[t] EXCEPT !.at = a]
    <3>2. k \in Jobs /\ k.at = a
      BY <1>1, Zenon DEF Jobs
    <3>3. job' = [job EXCEPT ![t] = k]
      BY <1>1, <3>1, Zenon DEF AskJob, JobGoTo
    <3> HIDE DEF k
    <3>4. QED
      BY <3>1, <3>2, <3>3, Zenon DEF AskJob, JobMoves, IInv, TunnelInv, Mutex
  <2>7. QED
    BY <2>1, <2>2, <2>3, <2>4, <2>5, <2>6, Zenon
<1>3. /\ managed' \in {managed, TRUE} /\ sysbin' = sysbin /\ installed' \in {installed, TRUE}
      /\ cache' \in Sources /\ UNCHANGED zonevars
  BY <1>1, Zenon DEF CacheHit, resolve, probe, CacheWrite, LockJob, CancelWaiting, install, InstallRefresh, AskJob, Jobs, Sources
<1>4. ManagedWins'
  BY ZenonT(30) DEF IInv, CacheInv, ManagedWins, CacheHit, resolve, probe, CacheWrite, is_downgrade, LockJob, CancelWaiting,
         install, InstallRefresh, AskJob
<1>5. managed' \in BOOLEAN /\ sysbin' \in BOOLEAN /\ installed' \in BOOLEAN
  BY <1>1, <1>3, Zenon
<1>6. TunnelInv' /\ job'[t] = k /\ \A o \in Callers \ {t} : job'[o] = job[o]
  BY <1>1, <1>2, <1>3, <1>5, JobMovesKeep, Zenon
<1>7. Listed'
  BY <1>2, <1>3, <1>6, Zenon DEF IInv, CacheInv, Listed, Dated
<1>8. QED
  BY <1>4, <1>6, <1>7, Zenon DEF IInv, CacheInv

LEMMA ListedAt ==
    ASSUME Listed, NEW o \in Callers
    PROVE  /\ job[o].at = "mtime" => job[o].mtime <= cert
           /\ job[o].at = "pem" => job[o].mtime <= cert /\ job[o].pem <= cert /\ (job[o].mtime # 0 => job[o].mtime <= job[o].pem)
<1>1. /\ job[o].at = "mtime" => job[o].mtime <= cert
      /\ job[o].at = "pem" => Dated(job[o].mtime, job[o].pem)
  BY Zenon DEF Listed
<1>2. QED
  BY <1>1, Zenon DEF Dated

LEMMA Reaches == \A a, b, c \in Nat : a <= b /\ b <= c => a <= c
OBVIOUS

\* Logins and listings: an answer is kept under the mtime read before the file,
\* and a login only ever moves the mtime on.
LEMMA ZoneKeeps ==
    ASSUME IInv, NEW t \in Callers, UNCHANGED <<acctvars, cfgvars, serving, call>>,
           login(t) \/ ZoneLookup(t) \/ ReadPem(t) \/ ZoneAnswer(t)
    PROVE  IInv'
<1> USE DEF binvars, zonevars
<1>1. /\ managed \in BOOLEAN /\ sysbin \in BOOLEAN /\ installed \in BOOLEAN /\ cache \in Sources
      /\ cert \in 0 .. MaxEvents /\ zone \in [mtime : 0 .. MaxEvents, from : 0 .. MaxEvents]
      /\ job \in [Callers -> Jobs] /\ job[t] \in Jobs /\ NoJob \in Jobs /\ NoJob.at = "idle"
  BY NamedTunnelAssumption DEF IInv, TunnelInv, NamedTypeOK, NoJob, Jobs, Sources
<1>2. UNCHANGED binvars
  BY Zenon DEF login, ZoneLookup, ReadPem, ZoneAnswer
<1>3. ManagedWins'
  BY <1>2, Zenon DEF IInv, CacheInv, ManagedWins
<1>4. /\ cert' \in 0 .. MaxEvents /\ cert <= cert'
      /\ zone' \in [mtime : 0 .. MaxEvents, from : 0 .. MaxEvents]
  <2>1. CASE login(t)
    <3>1. uuids \in Nat /\ cert \in Nat
      BY NamedTunnelAssumption DEF IInv, TunnelInv, NamedTypeOK
    <3>2. zone' = zone /\ (cert' = cert \/ (cert' = cert + 1 /\ uuids + cert < MaxEvents))
      BY <2>1, Zenon DEF login
    <3>3. QED
      BY <1>1, <3>1, <3>2, NamedTunnelAssumption
  <2>2. CASE ZoneLookup(t) \/ ReadPem(t)
    BY <1>1, <2>2, NamedTunnelAssumption DEF ZoneLookup, ReadPem
  <2>3. CASE ZoneAnswer(t)
    <3>1. job[t].mtime \in 0 .. MaxEvents /\ job[t].pem \in 0 .. MaxEvents
      BY <1>1, Zenon DEF Jobs
    <3>2. [mtime |-> job[t].mtime, from |-> job[t].pem] \in [mtime : 0 .. MaxEvents, from : 0 .. MaxEvents]
      BY <3>1, Zenon
    <3>3. cert' = cert /\ zone' \in {zone, [mtime |-> job[t].mtime, from |-> job[t].pem]}
      BY <2>3, ZenonT(30) DEF ZoneAnswer
    <3>4. zone' \in [mtime : 0 .. MaxEvents, from : 0 .. MaxEvents]
      BY <1>1, <3>2, <3>3, Zenon
    <3>5. QED
      BY <1>1, <3>3, <3>4, NamedTunnelAssumption
  <2>4. QED
    BY <2>1, <2>2, <2>3, Zenon
<1>5. PICK k \in Jobs :
        /\ JobMoves(t, k)
        /\ k.at \in {"idle", "mtime", "pem"} /\ (k.at = "idle" \/ cert' = cert)
        /\ k.at = "mtime" => k.mtime = cert
        /\ k.at = "pem" => job[t].at = "mtime" /\ k.mtime = job[t].mtime /\ k.pem = cert
  <2>1. CASE JobReturn(t)
    BY <1>1, <2>1, Zenon DEF login, ZoneLookup, ReadPem, ZoneAnswer, JobReturn, JobMoves, IInv, TunnelInv, Mutex
  <2>2. CASE ZoneLookup(t) /\ ~JobReturn(t)
    <3> DEFINE k == [job[t] EXCEPT !.at = "mtime", !.mtime = cert]
    <3>1. k \in Jobs /\ k.at = "mtime" /\ k.mtime = cert
      BY <1>1, Zenon DEF Jobs
    <3>2. job' = [job EXCEPT ![t] = k]
      BY <1>1, <2>2, Zenon DEF ZoneLookup
    <3> HIDE DEF k
    <3>3. QED
      BY <2>2, <3>1, <3>2, Zenon DEF ZoneLookup, JobMoves, IInv, TunnelInv, Mutex
  <2>3. CASE ReadPem(t)
    <3> DEFINE k == [job[t] EXCEPT !.at = "pem", !.pem = cert]
    <3>1. k \in Jobs /\ k.at = "pem" /\ k.mtime = job[t].mtime /\ k.pem = cert
      BY <1>1, Zenon DEF Jobs
    <3>2. job' = [job EXCEPT ![t] = k]
      BY <1>1, <2>3, ZenonT(30) DEF ReadPem
    <3> HIDE DEF k
    <3>3. QED
      BY <2>3, <3>1, <3>2, Zenon DEF ReadPem, JobMoves, IInv, TunnelInv, Mutex
  <2>4. QED
    BY <2>1, <2>2, <2>3, Zenon DEF login, ZoneAnswer
<1>6. TunnelInv' /\ job'[t] = k /\ \A o \in Callers \ {t} : job'[o] = job[o]
  BY <1>1, <1>2, <1>4, <1>5, JobMovesKeep, Zenon
<1>7. Dated(zone.mtime, zone.from)'
  <2>1. CASE zone' = zone
    BY <1>1, <1>4, <2>1 DEF IInv, CacheInv, Listed, Dated
  <2>2. CASE zone' # zone
    <3>1. /\ job[t].at = "pem" /\ cert' = cert
          /\ zone' = [mtime |-> job[t].mtime, from |-> job[t].pem]
      BY <2>2, Zenon DEF login, ZoneLookup, ReadPem, ZoneAnswer
    <3>2. QED
      BY <3>1, Zenon DEF IInv, CacheInv, Listed, Dated
  <2>3. QED
    BY <2>1, <2>2, Zenon
<1>8. ASSUME NEW o \in Callers
      PROVE  /\ job'[o].at = "mtime" => job'[o].mtime <= cert'
             /\ job'[o].at = "pem" => Dated(job[o].mtime, job[o].pem)'
  <2>1. CASE o = t
    <3>0. cert \in 0 .. MaxEvents /\ MaxEvents \in Nat
      BY <1>1, NamedTunnelAssumption, Zenon
    <3>1. job'[o] = k /\ cert \in Nat
      <4>1. job'[o] = k
        BY <1>6, <2>1, Zenon
      <4>2. QED
        BY <3>0, <4>1
    <3>2. CASE k.at = "idle"
      BY <3>1, <3>2, Zenon
    <3>3. CASE k.at = "mtime"
      <4>1. job'[o].at # "pem" /\ job'[o].mtime = cert
        BY <1>5, <3>1, <3>3, Zenon
      <4>2. cert <= cert'
        BY <1>4, Zenon
      <4>3. QED
        BY <4>1, <4>2, Zenon
    <3>4. CASE k.at = "pem"
      <4>1. job[t].mtime <= cert
        BY <1>5, <3>4, ListedAt, Zenon DEF IInv, CacheInv
      <4>2. k.mtime = job[t].mtime /\ k.pem = cert /\ cert' = cert /\ cert <= cert
        BY <1>5, <3>1, <3>4
      <4>3. QED
        BY <3>1, <3>4, <4>1, <4>2, Zenon DEF Dated
    <3>5. QED
      BY <1>5, <3>2, <3>3, <3>4, Zenon
  <2>2. CASE o # t
    <3>1. job'[o] = job[o] /\ job[o] \in Jobs
      BY <1>1, <1>6, <2>2, Zenon
    <3>2. job[o].mtime \in 0 .. MaxEvents /\ job[o].pem \in 0 .. MaxEvents
      BY <3>1, Zenon DEF Jobs
    <3>3. job[o].mtime \in Nat /\ job[o].pem \in Nat /\ cert \in Nat /\ cert' \in Nat /\ cert <= cert'
      BY <1>1, <1>4, <3>2, NamedTunnelAssumption
    <3>4. /\ job[o].at = "mtime" => job[o].mtime <= cert
          /\ job[o].at = "pem" => job[o].mtime <= cert /\ job[o].pem <= cert /\ (job[o].mtime # 0 => job[o].mtime <= job[o].pem)
      BY ListedAt, Zenon DEF IInv, CacheInv
    <3>5. /\ job[o].mtime <= cert => job[o].mtime <= cert'
          /\ job[o].pem <= cert => job[o].pem <= cert'
      BY <3>3, Reaches, Zenon
    <3>6. job'[o].at = "pem" => Dated(job[o].mtime, job[o].pem)'
      BY <3>1, <3>4, <3>5, Zenon DEF Dated
    <3>7. QED
      BY <3>1, <3>4, <3>5, <3>6, Zenon
  <2>3. QED
    BY <2>1, <2>2, Zenon
<1>9. Listed'
  BY <1>7, <1>8, Zenon DEF Listed
<1>10. QED
  BY <1>3, <1>6, <1>9, Zenon DEF IInv, CacheInv

\* The user's PATH may change at any time.
LEMMA PathKeeps ==
    ASSUME IInv, PathChanges, UNCHANGED <<acctvars, cfgvars, serving, call>>
    PROVE  IInv'
<1> USE DEF acctvars, cfgvars, zonevars
<1>1. sysbin' \in BOOLEAN
  BY Zenon DEF PathChanges
<1>2. NamedTypeOK'
  BY <1>1, Zenon DEF PathChanges, IInv, TunnelInv, NamedTypeOK
<1>3. Mutex' /\ Forms' /\ Handed' /\ Single' /\ Serves'
  BY Zenon DEF PathChanges, IInv, TunnelInv, Mutex, Inside, Forms, Form, Handed, Single, Recorded, Serves, Driven
<1>4. Held'
  BY Zenon DEF PathChanges, IInv, TunnelInv, Held, Fits, Recorded
<1>5. CacheInv'
  BY Zenon DEF PathChanges, IInv, CacheInv, ManagedWins, Listed, Dated
<1>6. QED
  BY <1>2, <1>3, <1>4, <1>5, Zenon DEF IInv, TunnelInv

\* IInv is inductive, in whatever order requests, jobs and caches interleave.
THEOREM Inductive == NamedSpec => []IInv
<1>1. NamedInit => IInv
  BY InitInv, Zenon
<1>2. IInv /\ [NamedNext]_namedvars => IInv'
  <2> SUFFICES ASSUME IInv, [NamedNext]_namedvars PROVE IInv'
    BY Zenon
  <2>1. CASE TunnelNext /\ UNCHANGED <<binvars, zonevars, job>>
    BY <2>1, TunnelNextKeeps, Zenon
  <2>2. CASE CacheNext /\ UNCHANGED <<acctvars, cfgvars, serving, call>>
    BY <2>2, BinaryKeeps, ZoneKeeps, PathKeeps, Zenon DEF CacheNext, JobStep
  <2>3. CASE UNCHANGED namedvars
    BY <2>3, ZenonT(30) DEF namedvars, acctvars, cfgvars, binvars, zonevars, IInv, TunnelInv, CacheInv, NamedTypeOK, Mutex, Inside, Forms,
                Form, Handed, Single, Recorded, Held, Fits, Serves, Driven, ManagedWins, Listed, Dated
  <2>4. QED
    BY <2>1, <2>2, <2>3, Zenon DEF NamedNext
<1>3. QED
  BY <1>1, <1>2, PTL DEF NamedSpec

\* What IInv says of one state.
LEMMA Consequences ==
    IInv => OneNamedTunnel /\ ServesRecorded /\ ManagedWins /\ ZoneIsCurrent
<1> SUFFICES ASSUME IInv PROVE OneNamedTunnel /\ ServesRecorded /\ ManagedWins /\ ZoneIsCurrent
  BY Zenon
<1>1. Recorded = {} \/ \E n \in Recorded : Recorded = {n}
  BY Zenon DEF IInv, TunnelInv, Single
<1>2. OneNamedTunnel
  BY <1>1, FS_EmptySet, FS_Singleton DEF OneNamedTunnel
<1>3. ServesRecorded
  BY Zenon DEF IInv, TunnelInv, Serves, ServesRecorded
<1>4. ZoneIsCurrent
  <2>1. cert \in Nat /\ zone.mtime \in Nat /\ zone.from \in Nat
    BY NamedTunnelAssumption DEF IInv, TunnelInv, NamedTypeOK
  <2>2. QED
    BY <2>1 DEF IInv, CacheInv, Listed, Dated, ZoneIsCurrent
<1>5. QED
  BY <1>2, <1>3, <1>4, Zenon DEF IInv, CacheInv

\* However creates, deletes, starts and stops interleave, fail or time out, the
\* config records at most one tunnel and the consolidated process serves it;
\* the managed binary is used once an install has succeeded, and the zone shown
\* is the current login's.
THEOREM NamedTunnelIsRecordedAlways == NamedSpec => []NamedTunnelIsRecorded
<1>1. IInv => NamedTunnelIsRecorded
  BY Consequences, Zenon DEF NamedTunnelIsRecorded
<1>2. QED
  BY <1>1, Inductive, PTL

-----------------------------------------------------------------------------
(* LanAccess.                                                                *)

\* The code in force is the last one minted; it was minted with LAN mode on,
\* which stays on while the handler mints, and no script was served for it.
CodeInv ==
    /\ minting => cfgLock /\ lanEnabled
    /\ code.used \/ (lanEnabled /\ code.value = codes /\ codes # 0)
    /\ \A i \in DOMAIN served : served[i].code <= codes
    /\ code.used \/ \A i \in DOMAIN served : served[i].code # codes
    /\ CodeOnce

\* A daemon that serves the installer has an address and a CA.
BootInv == ca # 0 /\ boot.ca # 0 /\ (boot.bound => boot.ip # NoIp)

\* Where the installer is says what the device already has, and whether its
\* rollback would take it away.
Paired(r) ==
    /\ r.os = "linux" => (r.ca # 0 => r.conf.ip # NoIp)
    /\ r.os # "linux" => (r.conf.ip # NoIp => r.ca # 0)
DeviceInv(r) ==
    /\ r.pc \notin {"idle", "failed"} => r.script.ip # NoIp /\ r.script.ca # 0
    /\ r.pc \in {"idle", "script", "copy", "installed", "failed"} => ~r.armed /\ Paired(r)
    /\ r.pc \in {"remove old", "trust"} => r.armed /\ r.os = "mac"
    /\ r.pc \in {"conf", "verify"} => r.armed
    /\ r.pc \in {"copy", "conf", "verify"} => r.os = "linux"
    /\ r.pc \in {"conf", "verify", "installed"} => r.ca = r.script.ca
    /\ r.pc = "verify" => r.conf.ip # NoIp
LanInv == LanTypeOK /\ CodeInv /\ BootInv /\ \A d \in Devices : DeviceInv(dev[d])

LEMMA LanInitInv == LanInit => LanInv
<1> SUFFICES ASSUME LanInit PROVE LanInv
  BY Zenon
<1>1. PICK os \in [Devices -> Oses] : dev = [d \in Devices |-> Fresh(os[d])]
  BY Zenon DEF LanInit
<1>2. \A o \in Oses : Fresh(o) \in DeviceRecords /\ DeviceInv(Fresh(o))
  BY Zenon DEF Fresh, NoConf, DeviceRecords, DeviceInv, Paired
<1>3. boot = [n |-> 1, lan |-> FALSE, ip |-> NoIp, ca |-> 1, bound |-> FALSE]
  BY Zenon DEF LanInit, Booted
<1>4. code = [value |-> 0, used |-> TRUE, fresh |-> FALSE] /\ served = << >>
  BY Zenon DEF LanInit, NoCode
<1>5. lanEnabled \in BOOLEAN /\ cfgLock \in BOOLEAN /\ minting \in BOOLEAN
  BY Zenon DEF LanInit
<1>a. /\ boot \in [n : Nat, lan : BOOLEAN, ip : Ips \cup {NoIp}, ca : Nat, bound : BOOLEAN]
      /\ code \in [value : Nat, used : BOOLEAN, fresh : BOOLEAN]
  BY <1>3, <1>4, Zenon
<1>b. served \in Seq([code : Nat, last : BOOLEAN, lan : BOOLEAN, fresh : BOOLEAN]) /\ DOMAIN served = {}
  BY <1>4
<1>c. dev \in [Devices -> DeviceRecords]
  BY <1>1, <1>2, Zenon
<1>6. LanTypeOK
  BY <1>a, <1>b, <1>c, <1>5, Zenon DEF LanInit, LanTypeOK
<1>7. CodeInv /\ BootInv
  <2>1. code.used /\ boot.ca = 1 /\ ~boot.bound
    BY <1>3, <1>4, Zenon
  <2>2. ~minting /\ ca = 1
    BY Zenon DEF LanInit
  <2>3. CodeInv
    BY <1>b, <2>1, <2>2, Zenon DEF CodeInv, CodeOnce
  <2>4. QED
    BY <2>1, <2>2, <2>3 DEF BootInv
<1>8. QED
  BY <1>1, <1>2, <1>6, <1>7, Zenon DEF LanInv

\* The daemon's steps leave the devices alone.
LEMMA HostKeeps ==
    LanInv /\ (SpawnLanSetup \/ SetLanEnabled \/ MintCheck \/ MintStore \/ Expire \/ MoveHost) => LanInv'
<1> SUFFICES ASSUME LanInv, SpawnLanSetup \/ SetLanEnabled \/ MintCheck \/ MintStore \/ Expire \/ MoveHost
             PROVE LanInv'
  BY Zenon
<1> USE DEF LanInv
<1>1. dev' = dev
  BY Zenon DEF SpawnLanSetup, SetLanEnabled, MintCheck, MintStore, Expire, MoveHost
<1>2. CASE SpawnLanSetup
  <2>1. PICK bound \in BOOLEAN, lost \in BOOLEAN :
          /\ ca' = IF lost THEN ca + 1 ELSE ca
          /\ boot' = Booted(boot.n + 1, lanEnabled, lanIp, ca', bound)
    BY <1>2, Zenon DEF SpawnLanSetup
  <2>c. ca' \in Nat /\ ca' # 0
    BY <2>1 DEF LanTypeOK, BootInv
  <2>a. boot' \in [n : Nat, lan : BOOLEAN, ip : Ips \cup {NoIp}, ca : Nat, bound : BOOLEAN]
    <3>1. boot.n + 1 \in Nat /\ lanEnabled \in BOOLEAN /\ lanIp \in Ips
      BY DEF LanTypeOK
    <3>2. (lanEnabled /\ lanIp # NoIp /\ bound) \in BOOLEAN
      BY Zenon
    <3>3. QED
      BY <2>1, <2>c, <3>1, <3>2, Zenon DEF Booted
  <2>d. /\ boot'.ca = ca' /\ boot'.ip = (IF lanEnabled THEN lanIp ELSE NoIp)
        /\ boot'.bound = (lanEnabled /\ lanIp # NoIp /\ bound)
    BY <2>1, Zenon DEF Booted
  <2>b. ca' \in Nat /\ ca' # 0 /\ boot'.ca = ca' /\ (boot'.bound => boot'.ip # NoIp)
    BY <2>c, <2>d, Zenon
  <2>2. LanTypeOK' /\ BootInv'
    BY <1>2, <2>a, <2>b, Zenon DEF SpawnLanSetup, LanTypeOK, BootInv, NoCode
  <2>3. CodeInv'
    BY <1>2, Zenon DEF SpawnLanSetup, CodeInv, CodeOnce, NoCode
  <2>4. QED
    BY <1>1, <2>2, <2>3, Zenon
<1>3. CASE SetLanEnabled
  <2>1. LanTypeOK' /\ BootInv'
    BY <1>3, Zenon DEF SetLanEnabled, LanTypeOK, BootInv, NoCode
  <2>2. CodeInv'
    BY <1>3, Zenon DEF SetLanEnabled, LanTypeOK, CodeInv, CodeOnce, NoCode
  <2>3. QED
    BY <1>1, <2>1, <2>2, Zenon
<1>4. CASE MintCheck
  BY <1>1, <1>4, Zenon DEF MintCheck, LanTypeOK, BootInv, CodeInv, CodeOnce
<1>5. CASE MintStore
  <2>a. code' \in [value : Nat, used : BOOLEAN, fresh : BOOLEAN] /\ codes' \in Nat
    BY <1>5 DEF MintStore, LanTypeOK
  <2>1. LanTypeOK' /\ BootInv'
    BY <1>5, <2>a, Zenon DEF MintStore, LanTypeOK, BootInv
  <2>2. CodeInv'
    <3> DEFINE S == [code : Nat, last : BOOLEAN, lan : BOOLEAN, fresh : BOOLEAN]
    <3>0. served \in Seq(S)
      BY Zenon DEF LanTypeOK
    <3> HIDE DEF S
    <3>b. \A i \in DOMAIN served : served[i] \in S
      BY <3>0
    <3>a. \A i \in DOMAIN served : served[i].code \in Nat
      BY <3>b, Zenon DEF S
    <3>1. \A i \in DOMAIN served : served[i].code \in Nat /\ served[i].code <= codes
      BY <3>a, Zenon DEF CodeInv
    <3>2. \A i \in DOMAIN served : served[i].code <= codes + 1 /\ served[i].code # codes + 1
      BY <3>1 DEF LanTypeOK
    <3>3. /\ minting' = FALSE /\ code'.value = codes' /\ codes' = codes + 1 /\ codes' # 0
          /\ UNCHANGED <<lanEnabled, served>> /\ lanEnabled
      BY <1>5 DEF MintStore, LanTypeOK, CodeInv
    <3>4. QED
      BY <3>2, <3>3, Zenon DEF CodeInv, CodeOnce
  <2>3. QED
    BY <1>1, <2>1, <2>2, Zenon
<1>6. CASE Expire
  <2>1. LanTypeOK' /\ BootInv'
    BY <1>6, ZenonT(30) DEF Expire, LanTypeOK, BootInv
  <2>2. code'.used = code.used /\ code'.value = code.value
    BY <1>6, Zenon DEF Expire, LanTypeOK
  <2>3. CodeInv'
    BY <1>6, <2>2, Zenon DEF Expire, CodeInv, CodeOnce
  <2>4. QED
    BY <1>1, <2>1, <2>3, Zenon
<1>7. CASE MoveHost
  BY <1>1, <1>7 DEF MoveHost, LanTypeOK, BootInv, CodeInv, CodeOnce
<1>8. QED
  BY <1>2, <1>3, <1>4, <1>5, <1>6, <1>7, Zenon

\* A script is served for the code in force, which is then used up.
LEMMA FetchKeeps == ASSUME LanInv, NEW d \in Devices, Fetch(d) PROVE LanInv'
<1> USE DEF LanInv
<1>1. PICK c \in 1..codes :
        /\ ConsumeCode(c)
        /\ served' = Append(served, [code |-> c, last |-> c = codes, lan |-> lanEnabled, fresh |-> code.fresh])
  BY Zenon DEF Fetch
<1> DEFINE new == [code |-> c, last |-> c = codes, lan |-> lanEnabled, fresh |-> code.fresh]
<1>2. /\ c = codes /\ c \in Nat /\ lanEnabled /\ code.fresh /\ ~code.used
      /\ code' = [code EXCEPT !.used = TRUE]
  BY <1>1, Zenon DEF ConsumeCode, CodeInv, LanTypeOK
<1>3. new \in [code : Nat, last : BOOLEAN, lan : BOOLEAN, fresh : BOOLEAN]
  BY <1>2, Zenon DEF LanTypeOK
<1>4. /\ served' \in Seq([code : Nat, last : BOOLEAN, lan : BOOLEAN, fresh : BOOLEAN])
      /\ DOMAIN served' = DOMAIN served \cup {Len(served) + 1} /\ Len(served) + 1 \notin DOMAIN served
      /\ served'[Len(served) + 1] = new /\ \A i \in DOMAIN served : served'[i] = served[i]
  <2> DEFINE S == [code : Nat, last : BOOLEAN, lan : BOOLEAN, fresh : BOOLEAN]
  <2>1. served \in Seq(S) /\ new \in S /\ served' = Append(served, new)
    BY <1>1, <1>3, Zenon DEF LanTypeOK
  <2> HIDE DEF S, new
  <2>2. QED
    BY <2>1 DEF S
<1>5. /\ dev' = [dev EXCEPT ![d].pc = "script", ![d].script = InstallerScript]
      /\ UNCHANGED <<lanEnabled, lanIp, ca, boot, cfgLock, minting, codes>>
  BY Zenon DEF Fetch
<1>6. code' \in [value : Nat, used : BOOLEAN, fresh : BOOLEAN] /\ code'.used
  BY <1>2, Zenon DEF LanTypeOK
<1>7. InstallerScript \in [ip : Ips \cup {NoIp}, ca : Nat] /\ InstallerScript.ip # NoIp /\ InstallerScript.ca # 0
  BY Zenon DEF Fetch, InstallerScript, LanTypeOK, BootInv
<1>8. dev'[d] \in DeviceRecords /\ DeviceInv(dev'[d])
  <2>1. dev[d] \in DeviceRecords /\ DeviceInv(dev[d]) /\ dev[d].pc \in {"idle", "installed", "failed"}
    BY Zenon DEF LanTypeOK, Fetch
  <2>2. dev'[d] = [dev[d] EXCEPT !.pc = "script", !.script = InstallerScript]
    BY <1>5, Zenon DEF LanTypeOK
  <2>3. dev'[d] \in DeviceRecords
    BY <1>7, <2>1, <2>2, Zenon DEF DeviceRecords
  <2>4. QED
    BY <1>7, <2>1, <2>2, <2>3, Zenon DEF DeviceRecords, DeviceInv, Paired
<1>9. LanTypeOK' /\ BootInv'
  BY <1>4, <1>5, <1>6, <1>8, Zenon DEF LanTypeOK, BootInv
<1>10. CodeInv'
  <2>1. \A i \in DOMAIN served : served[i].code # codes /\ served[i].code <= codes
    BY <1>2, Zenon DEF CodeInv
  <2>a. new.last /\ new.fresh /\ new.lan /\ new.code <= codes
    BY <1>2 DEF LanTypeOK
  <2>2. \A i \in DOMAIN served' : served'[i].last /\ served'[i].fresh /\ served'[i].lan /\ served'[i].code <= codes
    <3>1. \A i \in DOMAIN served : served[i].last /\ served[i].fresh /\ served[i].lan
      BY Zenon DEF CodeInv, CodeOnce
    <3>2. QED
      BY <1>4, <2>a, <2>1, <3>1, Zenon
  <2>3. \A i, j \in DOMAIN served' : served'[i].code = served'[j].code => i = j
    BY <1>2, <1>4, <2>1 DEF CodeInv, CodeOnce
  <2>4. QED
    BY <1>5, <1>6, <2>2, <2>3, Zenon DEF CodeInv, CodeOnce
<1>11. \A e \in Devices \ {d} : dev'[e] = dev[e]
  BY <1>5, Zenon DEF LanTypeOK
<1>12. QED
  BY <1>8, <1>9, <1>10, <1>11, Zenon

\* The installer's steps and the device's own, on the one device.
DeviceSteps(d) ==
    \/ DarwinConf(d) \/ MacosRemoveCa(d) \/ DarwinTrust(d) \/ LinuxPick(d)
    \/ LinuxTrust(d) \/ LinuxConf(d) \/ NssInstall(d) \/ Fails(d) \/ Uninstall(d)
    \/ StopResolver(d)
LEMMA DeviceKeeps == ASSUME LanInv, NEW d \in Devices, DeviceSteps(d) PROVE LanInv'
<1> USE DEF LanInv
<1> DEFINE r == dev[d]
<1>1. r \in DeviceRecords /\ DeviceInv(r)
  BY Zenon DEF LanTypeOK
<1>2. UNCHANGED hostvars
  BY ZenonT(30) DEF DeviceSteps, DarwinConf, MacosRemoveCa, DarwinTrust, LinuxPick, LinuxTrust, LinuxConf, NssInstall,
         Fails, Uninstall, StopResolver
<1>3. \E n \in DeviceRecords : dev' = [dev EXCEPT ![d] = n] /\ DeviceInv(n)
  <2>1. CASE DarwinConf(d)
    <3> DEFINE n == [r EXCEPT !.pc = "remove old", !.armed = TRUE, !.conf = [ip |-> r.script.ip]]
    <3>1. dev' = [dev EXCEPT ![d] = n]
      BY <2>1, Zenon DEF DarwinConf, LanTypeOK
    <3>2. n \in DeviceRecords /\ DeviceInv(n)
      BY <1>1, <2>1, Zenon DEF DarwinConf, At, DeviceRecords, DeviceInv, Paired
    <3>3. QED
      BY <3>1, <3>2, Zenon
  <2>2. CASE MacosRemoveCa(d)
    <3>1. PICK rest \in {0, r.ca} : dev' = [dev EXCEPT ![d] = [r EXCEPT !.pc = "trust", !.ca = rest]]
      BY <2>2, Zenon DEF MacosRemoveCa, LanTypeOK
    <3> DEFINE n == [r EXCEPT !.pc = "trust", !.ca = rest]
    <3>a. r.ca \in Nat
      BY <1>1, Zenon DEF DeviceRecords
    <3>b. rest = 0 \/ rest = r.ca
      BY Zenon
    <3>2. rest \in Nat
      BY <3>a, <3>b
    <3>3. n \in DeviceRecords
      BY <1>1, <3>2, Zenon DEF DeviceRecords
    <3>4. DeviceInv(n)
      BY <1>1, <2>2, <3>3, Zenon DEF MacosRemoveCa, At, DeviceRecords, DeviceInv, Paired
    <3>5. QED
      BY <3>1, <3>3, <3>4, Zenon
  <2>3. CASE DarwinTrust(d)
    <3> DEFINE n == [r EXCEPT !.pc = "installed", !.armed = FALSE, !.ca = r.script.ca]
    <3>1. dev' = [dev EXCEPT ![d] = n]
      BY <2>3, Zenon DEF DarwinTrust, LanTypeOK
    <3>2. n \in DeviceRecords /\ DeviceInv(n)
      BY <1>1, <2>3, Zenon DEF DarwinTrust, At, DeviceRecords, DeviceInv, Paired
    <3>3. QED
      BY <3>1, <3>2, Zenon
  <2>4. CASE LinuxPick(d)
    <3> DEFINE n == [r EXCEPT !.pc = IF r.resolver THEN "copy" ELSE "failed"]
    <3>1. dev' = [dev EXCEPT ![d] = n]
      BY <2>4, Zenon DEF LinuxPick, LanTypeOK
    <3>2. n \in DeviceRecords /\ DeviceInv(n)
      BY <1>1, <2>4, Zenon DEF LinuxPick, At, DeviceRecords, DeviceInv, Paired
    <3>3. QED
      BY <3>1, <3>2, Zenon
  <2>5. CASE LinuxTrust(d)
    <3> DEFINE n == [r EXCEPT !.pc = "conf", !.armed = TRUE, !.ca = r.script.ca]
    <3>1. dev' = [dev EXCEPT ![d] = n]
      BY <2>5, Zenon DEF LinuxTrust, LanTypeOK
    <3>2. n \in DeviceRecords /\ DeviceInv(n)
      BY <1>1, <2>5, Zenon DEF LinuxTrust, At, DeviceRecords, DeviceInv, Paired
    <3>3. QED
      BY <3>1, <3>2, Zenon
  <2>6. CASE LinuxConf(d)
    <3> DEFINE n == [r EXCEPT !.pc = "verify", !.armed = TRUE, !.conf = [ip |-> r.script.ip]]
    <3>1. dev' = [dev EXCEPT ![d] = n]
      BY <2>6, Zenon DEF LinuxConf, LanTypeOK
    <3>2. n \in DeviceRecords /\ DeviceInv(n)
      BY <1>1, <2>6, Zenon DEF LinuxConf, At, DeviceRecords, DeviceInv, Paired
    <3>3. QED
      BY <3>1, <3>2, Zenon
  <2>7. CASE NssInstall(d)
    <3> DEFINE n == [r EXCEPT !.pc = "installed", !.armed = FALSE]
    <3>1. dev' = [dev EXCEPT ![d] = n]
      BY <2>7, Zenon DEF NssInstall, LanTypeOK
    <3>2. n \in DeviceRecords /\ DeviceInv(n)
      BY <1>1, <2>7, Zenon DEF NssInstall, At, DeviceRecords, DeviceInv, Paired
    <3>3. QED
      BY <3>1, <3>2, Zenon
  <2>8. CASE Fails(d)
    <3> DEFINE n == [r EXCEPT !.pc = "failed", !.armed = FALSE,
                         !.conf = IF r.armed THEN NoConf ELSE r.conf,
                         !.ca = IF r.armed /\ r.os = "linux" THEN 0 ELSE r.ca]
    <3>1. dev' = [dev EXCEPT ![d] = n]
      BY <2>8, Zenon DEF Fails, LanTypeOK
    <3>2. n \in DeviceRecords /\ DeviceInv(n)
      BY <1>1, <2>8, Zenon DEF Fails, DeviceRecords, DeviceInv, Paired, NoConf
    <3>3. QED
      BY <3>1, <3>2, Zenon
  <2>9. CASE Uninstall(d)
    <3> DEFINE n == [r EXCEPT !.pc = "idle", !.conf = NoConf, !.ca = 0]
    <3>1. dev' = [dev EXCEPT ![d] = n]
      BY <2>9, Zenon DEF Uninstall, LanTypeOK
    <3>2. n \in DeviceRecords /\ DeviceInv(n)
      BY <1>1, <2>9, Zenon DEF Uninstall, DeviceRecords, DeviceInv, Paired, NoConf
    <3>3. QED
      BY <3>1, <3>2, Zenon
  <2>10. CASE StopResolver(d)
    <3> DEFINE n == [r EXCEPT !.resolver = FALSE]
    <3>1. dev' = [dev EXCEPT ![d] = n]
      BY <2>10, Zenon DEF StopResolver, LanTypeOK
    <3>2. n \in DeviceRecords /\ DeviceInv(n)
      BY <1>1, <2>10, Zenon DEF StopResolver, At, DeviceRecords, DeviceInv, Paired
    <3>3. QED
      BY <3>1, <3>2, Zenon
  <2>11. QED
    BY <2>1, <2>2, <2>3, <2>4, <2>5, <2>6, <2>7, <2>8, <2>9, <2>10, Zenon DEF DeviceSteps
<1>4. LanTypeOK' /\ CodeInv' /\ BootInv'
  BY <1>2, <1>3, ZenonT(30) DEF hostvars, LanTypeOK, CodeInv, CodeOnce, BootInv
<1>5. QED
  BY <1>3, <1>4, Zenon DEF LanTypeOK

\* What LanInv says of one state.  A device's question is answered with the
\* address of the host, since a device is not the host itself.
LEMMA LanConsequences == LanInv => LanIsSafe
<1> SUFFICES ASSUME LanInv PROVE LanIsSafe
  BY Zenon
<1>1. PairedTrust
  <2> SUFFICES ASSUME NEW d \in Devices, dev[d].pc = "failed"
               PROVE  IF dev[d].os = "linux" THEN dev[d].ca # 0 => dev[d].conf # NoConf
                      ELSE dev[d].conf # NoConf => dev[d].ca # 0
    BY Zenon DEF PairedTrust
  <2>1. dev[d].conf \in [ip : Ips \cup {NoIp}] /\ Paired(dev[d])
    BY Zenon DEF LanInv, LanTypeOK, DeviceRecords, DeviceInv
  <2>2. dev[d].conf = NoConf <=> dev[d].conf.ip = NoIp
    BY <2>1 DEF NoConf
  <2>3. QED
    BY <2>1, <2>2, Zenon DEF Paired
<1>2. SetUpWorks
  <2> SUFFICES ASSUME NEW d \in Devices, dev[d].pc = "installed", boot.lan, boot.ip = lanIp,
                      dev[d].conf.ip = lanIp, dev[d].script.ca = boot.ca
               PROVE  Visit(d, "site")
    BY Zenon DEF SetUpWorks
  <2>1. dev[d].ca = boot.ca
    BY Zenon DEF LanInv, DeviceInv
  <2>2. HandleRequest(d, TRUE, "site", "A") = boot.ip
    BY LanAssumption, Zenon DEF HandleRequest, Answer, ARecordFor
  <2>3. QED
    BY <2>1, <2>2, Zenon DEF Visit, CertifiedKey
<1>3. QED
  BY <1>1, <1>2, Zenon DEF LanInv, CodeInv, LanIsSafe

\* For any number of devices, codes and daemons: a setup code is served once,
\* fresh and with LAN mode on, although it is minted across an await; an
\* installer that fails leaves the CA and the resolver paired; and a device that
\* finished its setup reaches the sites.
THEOREM LanIsSafeAlways == LanSpec => []LanIsSafe
<1>1. LanInit => LanInv
  BY LanInitInv, Zenon
<1>2. LanInv /\ [LanNext]_lanvars => LanInv'
  <2> SUFFICES ASSUME LanInv, [LanNext]_lanvars PROVE LanInv'
    BY Zenon
  <2>1. CASE LanNext
    BY <2>1, HostKeeps, FetchKeeps, DeviceKeeps, Zenon DEF LanNext, DeviceSteps
  <2>2. CASE UNCHANGED lanvars
    BY <2>2 DEF lanvars, hostvars, LanInv, LanTypeOK, CodeInv, CodeOnce, BootInv
  <2>3. QED
    BY <2>1, <2>2, Zenon
<1>3. QED
  BY <1>1, <1>2, LanConsequences, PTL DEF LanSpec
=============================================================================
