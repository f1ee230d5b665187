-------------------------- MODULE GpuServerProofs --------------------------
(***************************************************************************)
(* For any number of invocations of rust-prove.sh on one device, in every  *)
(* mode, whatever signals they get and whatever the servers do: a script   *)
(* that ends leaves neither its server nor its socket behind, and a run    *)
(* that has the device to itself fails for want of a server only for the   *)
(* reasons that AloneIsServed names.                                       *)
(***************************************************************************)
EXTENDS GpuServer, TLAPS

\* What the loop needs to stay within its tries (PollSocket).
Bounded == \A r \in Runs : pc[r] = "alive" => tries[r] < Tries

\* Where a server may be without its script knowing it, r's part of the invariant.
Kept(r) ==
    /\ pc[r] \in Working \cup {"idle"} => stopped[r] = "none"
    /\ pc[r] \in {"idle", "args", "build", "rm", "spawn"} => srv[r] = "none"
    /\ pc[r] \in {"idle", "args", "build", "rm", "spawn", "pid"} => ~gpu_pid[r]
    /\ stopped[r] = "pid" => ~gpu_pid[r]
    /\ r \in told => gpu_pid[r] /\ pc[r] \in {"wait", "unlink", "ended", "killed"}
    /\ pc[r] \in {"poll", "alive", "check", "host", "proving", "kill"} =>
          srv[r] \in Gone \/ gpu_pid[r] \/ stopped[r] = "pid"
    /\ pc[r] \in {"unlink", "ended"} => srv[r] \in Gone \/ stopped[r] = "pid"
    /\ pc[r] = "ended" => socket # r \/ stopped[r] = "pid"

IInv == TypeOK /\ Bounded /\ \A r \in Runs : Kept(r)

-----------------------------------------------------------------------------
Others(r) == \A q \in Runs \ {r} : /\ pc'[q] = pc[q] /\ stopped'[q] = stopped[q]
                                   /\ srv'[q] = srv[q] /\ gpu_pid'[q] = gpu_pid[q]
                                   /\ (q \in told' <=> q \in told)

\* A step of one script, or of its server, leaves the rest of the invariant alone: it touches
\* the slots of one run, and the path only to empty it or to bind that run's own server.
LEMMA OneAtATime ==
    ASSUME IInv, NEW r \in Runs, Others(r), socket' \in {socket, "none", r}, Kept(r)'
    PROVE  \A q \in Runs : Kept(q)'
<1>. SUFFICES ASSUME NEW q \in Runs, q # r  PROVE Kept(q)'
  OBVIOUS
<1>1. Kept(q) /\ q # "none"
  BY GpuAssumption DEF IInv
<1>2. /\ pc'[q] = pc[q] /\ stopped'[q] = stopped[q] /\ srv'[q] = srv[q]
      /\ gpu_pid'[q] = gpu_pid[q] /\ (q \in told' <=> q \in told)
  BY DEF Others
<1>. QED  BY <1>1, <1>2 DEF Kept

\* Before the first run nothing is owned (Init).
LEMMA InitKept == Init => IInv
<1>. SUFFICES ASSUME Init PROVE IInv
  OBVIOUS
<1>1. TypeOK
  <2>1. srv \in [Servers -> Gone \cup {"starting", "bound"}]
    BY DEF Init, Gone
  <2>2. socket \in Servers \cup {"none", "stale"}
    BY GpuAssumption DEF Init, Servers
  <2>3. tries \in [Runs -> 0..Tries]
    BY GpuAssumption DEF Init
  <2>. QED  BY <2>1, <2>2, <2>3 DEF Init, TypeOK
<1>2. \A r \in Runs : srv[r] = "none"
  BY GpuAssumption DEF Init, Servers
<1>. QED  BY <1>1, <1>2 DEF Init, IInv, Bounded, Kept

\* Every step of a script keeps the invariant: one case for each (Script).
LEMMA StepKept ==
    ASSUME IInv, NEW r \in Runs, Script(r)  PROVE IInv'
<1>. USE GpuAssumption DEF IInv, Goto, Exit
<1>ty. TypeOK /\ Bounded /\ Kept(r) /\ r \in Servers /\ r # "none"
  BY DEF Servers
<1>1. CASE Validate(r)
  <2>1. TypeOK' /\ Bounded'
    <3>1. CASE Goto(r, "build") /\ UNCHANGED status
      BY <1>1, <1>ty, <3>1 DEF Validate, TypeOK, Bounded, Active, Working, Gone
    <3>2. CASE Exit(r, "usage")
      BY <1>1, <1>ty, <3>2 DEF Validate, TypeOK, Bounded, Active, Working, Gone
    <3>. QED  BY <1>1, <3>1, <3>2 DEF Validate
  <2>2. Kept(r)'
    BY <1>1, <1>ty DEF Validate, TypeOK, Kept, Working, Gone
  <2>3. Others(r) /\ socket' \in {socket, "none"}
    BY <1>1, <1>ty DEF Validate, TypeOK, Others
  <2>. QED  BY <2>1, <2>2, <2>3, OneAtATime
<1>2. CASE Build(r)
  <2>1. TypeOK' /\ Bounded'
    BY <1>2, <1>ty DEF Build, TypeOK, Bounded, Active, Working, Gone
  <2>2. Kept(r)'
    BY <1>2, <1>ty DEF Build, TypeOK, Kept, Working, Gone
  <2>3. Others(r) /\ socket' \in {socket, "none"}
    BY <1>2, <1>ty DEF Build, TypeOK, Others
  <2>. QED  BY <2>1, <2>2, <2>3, OneAtATime
<1>3. CASE RemoveSocket(r)
  <2>1. TypeOK' /\ Bounded'
    BY <1>3, <1>ty DEF RemoveSocket, TypeOK, Bounded, Active, Working, Gone
  <2>2. Kept(r)'
    BY <1>3, <1>ty DEF RemoveSocket, TypeOK, Kept, Working, Gone
  <2>3. Others(r) /\ socket' \in {socket, "none"}
    BY <1>3, <1>ty DEF RemoveSocket, TypeOK, Others
  <2>. QED  BY <2>1, <2>2, <2>3, OneAtATime
<1>4. CASE Spawn(r)
  <2>1. TypeOK' /\ Bounded'
    BY <1>4, <1>ty DEF Spawn, TypeOK, Bounded, Active, Working, Gone
  <2>2. Kept(r)'
    BY <1>4, <1>ty DEF Spawn, TypeOK, Kept, Working, Gone
  <2>3. Others(r) /\ socket' \in {socket, "none"}
    BY <1>4, <1>ty DEF Spawn, TypeOK, Others
  <2>. QED  BY <2>1, <2>2, <2>3, OneAtATime
<1>5. CASE RecordPid(r)
  <2>1. TypeOK' /\ Bounded'
    BY <1>5, <1>ty DEF RecordPid, TypeOK, Bounded, Active, Working, Gone
  <2>2. Kept(r)'
    BY <1>5, <1>ty DEF RecordPid, TypeOK, Kept, Working, Gone
  <2>3. Others(r) /\ socket' \in {socket, "none"}
    BY <1>5, <1>ty DEF RecordPid, TypeOK, Others
  <2>. QED  BY <2>1, <2>2, <2>3, OneAtATime
<1>6. CASE PollSocket(r)
  <2>0. /\ pc[r] = "poll" /\ tries[r] \in 0..Tries /\ Tries \in Nat
        /\ pc' = [pc EXCEPT ![r] = IF tries[r] = Tries \/ socket # "none" THEN "check"
                                   ELSE "alive"]
        /\ UNCHANGED <<env, status, gpu_pid, tries, served, stopped, alone, told, srv, socket>>
    BY <1>6, <1>ty DEF PollSocket, TypeOK
  <2>4. pc' \in [Runs -> Active \cup {"idle", "ended", "killed"}] /\ TypeOK'
    BY <1>ty, <2>0 DEF TypeOK, Active, Working
  <2>5. pc'[r] = "alive" => tries[r] < Tries
    <3>1. tries[r] <= Tries /\ tries[r] \in Nat
      BY <2>0
    <3>2. pc'[r] = "alive" => tries[r] # Tries
      BY <1>ty, <2>0 DEF TypeOK
    <3>. QED  BY <2>0, <3>1, <3>2
  <2>6. \A q \in Runs \ {r} : pc'[q] = pc[q] /\ tries'[q] = tries[q]
    BY <1>ty, <2>0 DEF TypeOK
  <2>1. TypeOK' /\ Bounded'
    BY <1>ty, <2>0, <2>4, <2>5, <2>6 DEF Bounded
  <2>2. Kept(r)'
    <3>1. /\ pc[r] = "poll" /\ pc'[r] \in {"check", "alive"} /\ socket' = socket
          /\ UNCHANGED <<gpu_pid, stopped, told, srv>>
      BY <1>6, <1>ty DEF PollSocket, TypeOK
    <3>. QED  BY <1>ty, <3>1 DEF Kept, Working
  <2>3. Others(r) /\ socket' \in {socket, "none"}
    BY <1>6, <1>ty DEF PollSocket, TypeOK, Others
  <2>. QED  BY <2>1, <2>2, <2>3, OneAtATime
<1>7. CASE PollServer(r)
  <2>3. tries' \in [Runs -> 0..Tries]
    <3>1. tries[r] \in 0..Tries /\ tries[r] < Tries
      BY <1>7, <1>ty DEF PollServer, TypeOK, Bounded
    <3>2. tries[r] + 1 \in 0..Tries
      BY <3>1
    <3>. QED  BY <1>7, <1>ty, <3>2 DEF PollServer, TypeOK
  <2>4. Bounded'
    BY <1>7, <1>ty DEF PollServer, TypeOK, Bounded
  <2>1. TypeOK' /\ Bounded'
    BY <1>7, <1>ty, <2>3, <2>4 DEF PollServer, TypeOK, Active, Working
  <2>2. Kept(r)'
    BY <1>7, <1>ty DEF PollServer, TypeOK, Kept, Working, Gone
  <2>5. Others(r) /\ socket' \in {socket, "none"}
    BY <1>7, <1>ty DEF PollServer, TypeOK, Others
  <2>. QED  BY <2>1, <2>2, <2>5, OneAtATime
<1>8. CASE CheckSocket(r)
  <2>1. TypeOK' /\ Bounded'
    BY <1>8, <1>ty DEF CheckSocket, TypeOK, Bounded, Active, Working, Gone
  <2>2. Kept(r)'
    BY <1>8, <1>ty DEF CheckSocket, TypeOK, Kept, Working, Gone
  <2>3. Others(r) /\ socket' \in {socket, "none"}
    BY <1>8, <1>ty DEF CheckSocket, TypeOK, Others
  <2>. QED  BY <2>1, <2>2, <2>3, OneAtATime
<1>9. CASE RunHost(r)
  <2>1. TypeOK' /\ Bounded'
    BY <1>9, <1>ty DEF RunHost, TypeOK, Bounded, Active, Working, Gone
  <2>2. Kept(r)'
    BY <1>9, <1>ty DEF RunHost, TypeOK, Kept, Working, Gone
  <2>3. Others(r) /\ socket' \in {socket, "none"}
    BY <1>9, <1>ty DEF RunHost, TypeOK, Others
  <2>. QED  BY <2>1, <2>2, <2>3, OneAtATime
<1>10. CASE Connect(r)
  <2>3. served' \in [Runs -> Servers \cup {"none", "sdk"}]
    BY <1>10, <1>ty DEF Connect, TypeOK
  <2>4. Bounded'
    BY <1>10, <1>ty DEF Connect, TypeOK, Bounded
  <2>5. \/ pc' = [pc EXCEPT ![r] = "proving"] /\ status' = status
        \/ pc' = [pc EXCEPT ![r] = "kill"] /\ status' = [status EXCEPT ![r] = "refused"]
    BY <1>10 DEF Connect
  <2>6. UNCHANGED <<env, gpu_pid, tries, stopped, alone, told, srv, socket>>
    BY <1>10 DEF Connect
  <2>1. TypeOK' /\ Bounded'
    BY <1>ty, <2>3, <2>4, <2>5, <2>6 DEF TypeOK, Active, Working
  <2>2. Kept(r)'
    BY <1>ty, <2>5, <2>6, <1>10 DEF Connect, TypeOK, Kept, Working, Gone
  <2>7. Others(r) /\ socket' \in {socket, "none"}
    BY <1>10, <1>ty DEF Connect, TypeOK, Others
  <2>. QED  BY <2>1, <2>2, <2>7, OneAtATime
<1>11. CASE ProofDone(r)
  <2>1. TypeOK' /\ Bounded'
    BY <1>11, <1>ty DEF ProofDone, TypeOK, Bounded, Active, Working, Gone
  <2>2. Kept(r)'
    BY <1>11, <1>ty DEF ProofDone, TypeOK, Kept, Working, Gone
  <2>3. Others(r) /\ socket' \in {socket, "none"}
    BY <1>11, <1>ty DEF ProofDone, TypeOK, Others
  <2>. QED  BY <2>1, <2>2, <2>3, OneAtATime
<1>12. CASE CleanupKill(r)
  <2>0. /\ pc[r] = "kill" /\ socket' = socket /\ srv' = srv /\ stopped' = stopped
        /\ gpu_pid' = gpu_pid
        /\ \/ /\ gpu_pid[r] /\ pc' = [pc EXCEPT ![r] = "wait"] /\ told' = told \cup {r}
           \/ /\ ~gpu_pid[r] \/ srv[r] \in Gone
              /\ pc' = [pc EXCEPT ![r] = "unlink"] /\ told' = told
    BY <1>12 DEF CleanupKill
  <2>1. TypeOK' /\ Bounded'
    BY <1>12, <1>ty, <2>0 DEF CleanupKill, TypeOK, Bounded, Active, Working
  <2>2. Kept(r)'
    BY <1>ty, <2>0 DEF TypeOK, Kept, Working
  <2>3. Others(r)
    BY <1>ty, <2>0 DEF TypeOK, Others
  <2>. QED  BY <2>0, <2>1, <2>2, <2>3, OneAtATime
<1>14. CASE CleanupWait(r)
  <2>1. TypeOK' /\ Bounded'
    BY <1>14, <1>ty DEF CleanupWait, TypeOK, Bounded, Active, Working, Gone
  <2>2. Kept(r)'
    BY <1>14, <1>ty DEF CleanupWait, TypeOK, Kept, Working
  <2>3. Others(r) /\ socket' \in {socket, "none"}
    BY <1>14, <1>ty DEF CleanupWait, TypeOK, Others
  <2>. QED  BY <2>1, <2>2, <2>3, OneAtATime
<1>13. CASE CleanupUnlink(r)
  <2>1. TypeOK' /\ Bounded'
    BY <1>13, <1>ty DEF CleanupUnlink, TypeOK, Bounded, Active, Working, Gone
  <2>2. Kept(r)' /\ Others(r) /\ socket' \in {socket, "none"}
    <3>1. /\ pc' = [pc EXCEPT ![r] = "ended"] /\ socket' = "none" /\ pc[r] = "unlink"
          /\ UNCHANGED <<stopped, srv, gpu_pid, told>>
      BY <1>13 DEF CleanupUnlink
    <3>2. pc'[r] = "ended" /\ socket' # r /\ (srv[r] \in Gone \/ stopped[r] = "pid")
      BY <3>1, <1>ty DEF TypeOK, Kept
    <3>3. Kept(r)'
      BY <3>1, <3>2 DEF Kept, Working
    <3>4. Others(r)
      BY <3>1, <1>ty DEF Others, TypeOK
    <3>. QED  BY <3>1, <3>3, <3>4
  <2>. QED  BY <2>1, <2>2, OneAtATime
<1>. QED  BY <1>1, <1>2, <1>3, <1>4, <1>5, <1>6, <1>7, <1>8, <1>9,
             <1>10, <1>11, <1>12, <1>13, <1>14 DEF Script

\* Starting a script, the signals, and the servers (Start, Interrupt, Kill9, Bind, Terminate,
\* Crash).
LEMMA NextKept == IInv /\ [Next]_vars => IInv'
<1>. SUFFICES ASSUME IInv, [Next]_vars PROVE IInv'
  OBVIOUS
<1>. USE GpuAssumption DEF IInv, Goto, Exit
<1>ty. TypeOK /\ Bounded /\ \A r \in Runs : Kept(r)
  OBVIOUS
<1>1. ASSUME NEW r \in Runs, Start(r)  PROVE IInv'
  <2>1. TypeOK' /\ Bounded'
    BY <1>1, <1>ty DEF Start, TypeOK, Bounded, Active, Working
  <2>2. Kept(r)'
    BY <1>1, <1>ty DEF Start, TypeOK, Kept, Working
  <2>3. Others(r) /\ socket' = socket
    BY <1>1, <1>ty DEF Start, TypeOK, Others
  <2>. QED  BY <2>1, <2>2, <2>3, OneAtATime
<1>2. ASSUME NEW r \in Runs, Interrupt(r)  PROVE IInv'
  <2>1. TypeOK' /\ Bounded'
    BY <1>2, <1>ty DEF Interrupt, TypeOK, Bounded, Active, Working
  <2>2. Kept(r)'
    BY <1>2, <1>ty DEF Interrupt, TypeOK, Kept, Working, Gone
  <2>3. Others(r) /\ socket' = socket
    BY <1>2, <1>ty DEF Interrupt, TypeOK, Others
  <2>. QED  BY <2>1, <2>2, <2>3, OneAtATime
<1>3. ASSUME NEW r \in Runs, Kill9(r)  PROVE IInv'
  <2>1. TypeOK' /\ Bounded'
    BY <1>3, <1>ty DEF Kill9, TypeOK, Bounded, Active, Working
  <2>2. Kept(r)'
    BY <1>3, <1>ty DEF Kill9, TypeOK, Kept, Working
  <2>3. Others(r) /\ socket' = socket
    BY <1>3, <1>ty DEF Kill9, TypeOK, Others
  <2>. QED  BY <2>1, <2>2, <2>3, OneAtATime
<1>4. ASSUME NEW s \in Servers, Bind(s)  PROVE IInv'
  <2>1. TypeOK' /\ Bounded'
    BY <1>4, <1>ty DEF Bind, TypeOK, Bounded, script, Gone
  <2>2. ASSUME NEW r \in Runs  PROVE Kept(r)'
    <3>1. Kept(r) /\ pc' = pc /\ stopped' = stopped /\ gpu_pid' = gpu_pid
         /\ told' = told
      BY <1>4 DEF Bind, script
    <3>2. CASE s = r
      <4>1. srv[r] \notin Gone
        BY <1>4, <3>2 DEF Bind, Gone
      <4>. QED  BY <1>4, <3>1, <3>2, <4>1, <1>ty DEF Kept, Gone
    <3>3. CASE s # r
      <4>1. r \in Servers /\ srv'[r] = srv[r]
        BY <1>4, <3>3, <1>ty DEF Bind, TypeOK, Servers
      <4>2. socket' = s \/ socket' = socket
        BY <1>4 DEF Bind
      <4>. QED  BY <3>1, <3>3, <4>1, <4>2 DEF Kept
    <3>. QED  BY <3>2, <3>3
  <2>. QED  BY <2>1, <2>2
<1>5. ASSUME NEW s \in Servers, Crash(s)  PROVE IInv'
  <2>1. TypeOK' /\ Bounded'
    BY <1>5, <1>ty DEF Crash, TypeOK, Bounded, script, Gone
  <2>2. ASSUME NEW r \in Runs  PROVE Kept(r)'
    BY <1>5, <1>ty DEF Crash, TypeOK, Kept, script, Gone
  <2>. QED  BY <2>1, <2>2
<1>6. ASSUME NEW s \in Servers, Terminate(s)  PROVE IInv'
  <2>1. TypeOK' /\ Bounded'
    BY <1>6, <1>ty DEF Terminate, TypeOK, Bounded, script, Gone
  <2>2. ASSUME NEW r \in Runs  PROVE Kept(r)'
    BY <1>6, <1>ty DEF Terminate, TypeOK, Kept, script, Gone
  <2>. QED  BY <2>1, <2>2
<1>7. CASE UNCHANGED vars
  BY <1>7 DEF vars, script, TypeOK, Bounded, Kept
<1>. QED  BY <1>1, <1>2, <1>3, <1>4, <1>5, <1>6, <1>7, StepKept DEF Next

\* The types, with the bound of the polling loop (ensure_gpu_server).
THEOREM TypeCorrect == Spec => []TypeOK
<1>1. IInv => TypeOK
  BY DEF IInv
<1>. QED  BY <1>1, InitKept, NextKept, PTL DEF Spec

\* A script that ends leaves no GPU server behind, unless a signal came before GPU_PID=$!
\* (cleanup).
THEOREM NoServerEverOutlives == Spec => []NoServerOutlivesItsScript
<1>1. IInv => NoServerOutlivesItsScript
  BY DEF IInv, Kept, NoServerOutlivesItsScript
<1>. QED  BY <1>1, InitKept, NextKept, PTL DEF Spec

\* Nor does it leave its socket behind (cleanup).
THEOREM NoSocketEverOutlives == Spec => []NoSocketOutlivesItsScript
<1>1. IInv => NoSocketOutlivesItsScript
  BY DEF IInv, Kept, NoSocketOutlivesItsScript
<1>. QED  BY <1>1, InitKept, NextKept, PTL DEF Spec

-----------------------------------------------------------------------------
\* The excuses that concern the servers: one died by itself, or one that a killed run's trap
\* had told to end did so under r, or one that an earlier run left has the path.
Broken(r) == \/ \E s \in Servers : srv[s] = "crashed"
             \/ \E o \in Runs \ {r} : pc[o] = "killed" /\ o \in told

LostRace(r) == \E o \in Runs \ {r} : Left(o) /\ srv[o] = "bound"

\* What the path may name while nobody removes it: nothing, or a run's server that serves.
Usable == socket = "none" \/ (socket \in Runs /\ srv[socket] = "bound")

\* From the removal of what was at the path to the connection.
Waiting(r) == \/ pc[r] \in {"spawn", "pid", "poll", "alive", "check"}
              \/ pc[r] = "host" /\ env[r].prover = "cuda"

\* A run that has been alone is the only active one.
Solitude(r) ==
    /\ pc[r] = "idle" => status[r] = "none"
    /\ alone[r] /\ pc[r] \in Active => \A o \in Runs \ {r} : pc[o] \notin Active

\* While such a run waits: the path is empty or names a server that serves, r's server can only
\* have failed to bind, and the loop is left with a socket or after its last iteration.
Wait(r) ==
    /\ Waiting(r) => Usable \/ Broken(r)
    /\ pc[r] \in {"pid", "poll", "alive"} /\ srv[r] \in Gone => Broken(r) \/ LostRace(r)
    /\ pc[r] = "check" => tries[r] = Tries \/ socket # "none"
    /\ pc[r] = "host" /\ env[r].prover = "cuda" => socket # "none"

\* And when it has ended.
Excused(r) ==
    /\ status[r] = "refused" => Broken(r)
    /\ status[r] = "server" => Broken(r) \/ LostRace(r) \/ tries[r] = Tries

\* r's part of the invariant behind AloneIsServed.
Alone(r) ==
    /\ Solitude(r)
    /\ status[r] \in {"refused", "server"} => pc[r] \notin Working
    /\ alone[r] => Wait(r) /\ Excused(r)

AllAlone == \A r \in Runs : Alone(r)

\* The script never starts a server that somebody else manages.
External == srv["external"] # "starting"

\* Before the first run nobody is alone (Init).
LEMMA InitAlone == Init => AllAlone /\ External
<1>. SUFFICES ASSUME Init  PROVE AllAlone /\ External
  OBVIOUS
<1>1. External
  BY DEF Init, External, Servers
<1>. QED  BY <1>1 DEF Init, AllAlone, Alone, Solitude

\* Which steps move the servers (Spawn, Bind, Terminate, Crash).
LEMMA WhoMovesServers ==
    ASSUME Next,
           \A r \in Runs : ~Spawn(r),
           \A s \in Servers : ~Bind(s) /\ ~Terminate(s) /\ ~Crash(s)
    PROVE  srv' = srv
  BY DEF Next, Start, Script, Interrupt, Kill9, Validate, Build, RemoveSocket, RecordPid,
     PollSocket, PollServer, CheckSocket, RunHost, Connect, ProofDone, CleanupKill,
     CleanupWait, CleanupUnlink

\* Only runs start servers (Spawn).
LEMMA NextExternal == IInv /\ External /\ [Next]_vars => External'
<1>. SUFFICES ASSUME IInv, External, [Next]_vars  PROVE External'
  OBVIOUS
<1>1. TypeOK /\ "external" \notin Runs /\ "external" \in Servers
  BY GpuAssumption DEF IInv, Servers
<1>2. ASSUME NEW r \in Runs, Spawn(r)  PROVE External'
  BY <1>1, <1>2 DEF Spawn, External, TypeOK
<1>3. ASSUME NEW s \in Servers, Bind(s) \/ Terminate(s) \/ Crash(s)  PROVE External'
  BY <1>1, <1>3 DEF Bind, Terminate, Crash, External, TypeOK
<1>4. CASE UNCHANGED vars
  BY <1>4 DEF vars, External
<1>5. srv' = srv => External'
  BY DEF External
<1>. QED  BY <1>2, <1>3, <1>4, <1>5, WhoMovesServers

\* What a step does not undo in a run: being killed, a signal before GPU_PID=$!, and a SIGTERM
\* sent to its server (Kill9, Interrupt, CleanupKill).
LEMMA OnceForAll ==
    ASSUME IInv, Next, NEW o \in Runs
    PROVE  /\ pc[o] = "killed" => pc'[o] = "killed"
           /\ stopped[o] = "pid" => stopped'[o] = "pid"
           /\ o \in told => o \in told'
<1>1. TypeOK /\ Kept(o)
  BY DEF IInv
<1>2. ASSUME NEW r \in Runs, Start(r) \/ Script(r) \/ Kill9(r)
      PROVE  /\ pc[r] # "killed" /\ (\A q \in Runs \ {r} : pc'[q] = pc[q])
             /\ stopped' = stopped /\ (o \in told => o \in told')
  BY <1>1, <1>2 DEF Start, Script, Kill9, Validate, Build, RemoveSocket, Spawn, RecordPid,
     PollSocket, PollServer, CheckSocket, RunHost, Connect, ProofDone, CleanupKill,
     CleanupWait, CleanupUnlink, Goto, Exit, TypeOK, Active, Working
<1>3. ASSUME NEW r \in Runs, Interrupt(r)
      PROVE  /\ pc[r] \in Working /\ (\A q \in Runs \ {r} : pc'[q] = pc[q])
             /\ (\A q \in Runs \ {r} : stopped'[q] = stopped[q]) /\ told' = told
  BY <1>1, <1>3 DEF Interrupt, Goto, Exit, TypeOK
<1>4. ASSUME NEW s \in Servers, Bind(s) \/ Terminate(s) \/ Crash(s)
      PROVE  UNCHANGED <<pc, stopped, told>>
  BY <1>4 DEF Bind, Terminate, Crash, script
<1>5. pc[o] \in Working => pc[o] # "killed" /\ stopped[o] # "pid"
  BY <1>1 DEF Kept, Working
<1>. QED  BY <1>2, <1>3, <1>4, <1>5 DEF Next

\* An excuse is for ever.  A server is started once, from nothing; one that bound ends by a
\* crash or by the SIGTERM of a trap, and a left server gets one only if its run was killed in
\* the trap (Spawn, Bind, Terminate, Crash).
LEMMA ExcusesStay ==
    ASSUME IInv, Next, NEW r \in Runs
    PROVE  /\ Broken(r) => Broken(r)'
           /\ LostRace(r) => (LostRace(r) \/ Broken(r))'
<1>1. TypeOK /\ \A q \in Runs : Kept(q) /\ q \in Servers
  BY DEF IInv, Servers
<1>2. ASSUME NEW s \in Servers
      PROVE  /\ srv[s] = "crashed" => srv'[s] = "crashed"
             /\ srv[s] = "bound" /\ ~Terminate(s) => srv'[s] \in {"bound", "crashed"}
  <2>1. ASSUME NEW q \in Runs, Spawn(q)  PROVE srv[s] \in {"crashed", "bound"} => srv'[s] = srv[s]
    <3>1. srv[q] = "none"
      BY <1>1, <2>1 DEF Spawn, Kept
    <3>. QED  BY <1>1, <2>1, <3>1 DEF Spawn, TypeOK
  <2>2. ASSUME NEW t \in Servers, Bind(t) \/ Crash(t)
        PROVE  /\ srv[s] = "crashed" => srv'[s] = "crashed"
               /\ srv[s] = "bound" => srv'[s] \in {"bound", "crashed"}
    BY <1>1, <2>2 DEF Bind, Crash, TypeOK, Gone
  <2>3. ASSUME NEW t \in Servers, Terminate(t)
        PROVE  /\ srv[s] = "crashed" => srv'[s] = "crashed"
               /\ srv[s] = "bound" /\ s # t => srv'[s] = "bound"
    BY <1>1, <2>3 DEF Terminate, TypeOK, Gone
  <2>. QED  BY <2>1, <2>2, <2>3, WhoMovesServers
<1>3. Broken(r) => Broken(r)'
  BY <1>2, OnceForAll DEF Broken
<1>4. ASSUME NEW o \in Runs \ {r}, Left(o), srv[o] = "bound"  PROVE (LostRace(r) \/ Broken(r))'
  <2>1. CASE ~Terminate(o)
    <3>1. Left(o)' /\ srv'[o] \in {"bound", "crashed"}
      BY <1>1, <1>2, <1>4, <2>1, OnceForAll DEF Left
    <3>. QED  BY <1>1, <3>1 DEF LostRace, Broken
  <2>2. CASE Terminate(o)
    <3>1. o \in told /\ pc[o] = "killed"
      BY <1>1, <1>4, <2>2 DEF Terminate, Left, Kept
    <3>. QED  BY <1>3, <3>1 DEF Broken
  <2>. QED  BY <2>1, <2>2
<1>. QED  BY <1>3, <1>4 DEF LostRace

\* A step of an active script concerns nobody who is alone but itself: if another run is alone
\* and active, this one is not active.
LEMMA NobodyElseAlone ==
    ASSUME IInv, AllAlone, Next, NEW r \in Runs, pc[r] \in Active, pc'[r] # "idle",
           env' = env, alone' = alone,
           \A q \in Runs \ {r} : pc'[q] = pc[q] /\ status'[q] = status[q] /\ tries'[q] = tries[q],
           status'[r] \in {"refused", "server"} => pc'[r] \notin Working,
           alone[r] => Wait(r)' /\ Excused(r)'
    PROVE  AllAlone'
<1>. SUFFICES ASSUME NEW q \in Runs  PROVE Alone(q)'
  BY DEF AllAlone
<1>1. Alone(r) /\ Alone(q) /\ TypeOK
  BY DEF AllAlone, IInv
<1>2. CASE q = r
  <2>1. Solitude(r)'
    BY <1>1 DEF Alone, Solitude
  <2>. QED  BY <1>2, <2>1 DEF Alone
<1>3. CASE q # r
  <2>1. pc'[q] = pc[q] /\ status'[q] = status[q] /\ tries'[q] = tries[q]
    BY <1>3
  <2>2. ~(alone[q] /\ pc[q] \in Active)
    BY <1>1, <1>3 DEF Alone, Solitude
  <2>3. Solitude(q)'
    BY <1>1, <2>1, <2>2 DEF Alone, Solitude
  <2>4. alone[q] => Wait(q)'
    BY <2>1, <2>2 DEF Wait, Waiting, Active, Working
  <2>5. alone[q] => Excused(q)'
    BY <1>1, <2>1, ExcusesStay DEF Alone, Excused
  <2>. QED  BY <1>1, <2>1, <2>3, <2>4, <2>5 DEF Alone
<1>. QED  BY <1>2, <1>3

\* The steps that neither wait for a server nor report the want of one: the arguments, the
\* build, the host of another mode, the end of the proof, the trap, and the signals.
LEMMA ElsewhereAlone ==
    ASSUME IInv, AllAlone, Next, NEW r \in Runs,
           \/ Validate(r) \/ Build(r) \/ RunHost(r) \/ ProofDone(r) \/ CleanupKill(r)
           \/ CleanupWait(r) \/ CleanupUnlink(r) \/ Interrupt(r) \/ Kill9(r)
    PROVE  AllAlone'
<1>. USE DEF Goto, Exit
<1>1. Alone(r) /\ TypeOK
  BY DEF AllAlone, IInv
<1>2. /\ pc[r] \in Active /\ env' = env /\ alone' = alone /\ tries' = tries
      /\ \A q \in Runs \ {r} : pc'[q] = pc[q] /\ status'[q] = status[q]
  BY <1>1 DEF Validate, Build, RunHost, ProofDone, CleanupKill, CleanupWait, CleanupUnlink,
     Interrupt, Kill9, TypeOK, Active, Working
<1>3. /\ pc'[r] \in {"build", "rm", "host", "kill", "wait", "unlink", "ended", "killed"}
      /\ pc'[r] = "host" => env[r].prover # "cuda"
  BY <1>1 DEF Validate, Build, RunHost, ProofDone, CleanupKill, CleanupWait, CleanupUnlink,
     Interrupt, Kill9, TypeOK
<1>4. status'[r] \in {"refused", "server"} => status'[r] = status[r] /\ pc'[r] \notin Working
  BY <1>1 DEF Validate, Build, RunHost, ProofDone, CleanupKill, CleanupWait, CleanupUnlink,
     Interrupt, Kill9, TypeOK, Alone, Active, Working
<1>5. Wait(r)'
  BY <1>2, <1>3 DEF Wait, Waiting
<1>6. alone[r] => Excused(r)'
  BY <1>1, <1>2, <1>4, ExcusesStay DEF Alone, Excused
<1>. QED  BY <1>2, <1>3, <1>4, <1>5, <1>6, NobodyElseAlone

\* The steps of the wait: whatever was at the path is removed, a server is started, and from
\* then on the path is empty or names a server that is bound (ensure_gpu_server).
LEMMA WaitingAlone ==
    ASSUME IInv, AllAlone, Next, NEW r \in Runs,
           \/ RemoveSocket(r) \/ Spawn(r) \/ RecordPid(r)
           \/ PollSocket(r) \/ PollServer(r) \/ CheckSocket(r)
    PROVE  AllAlone'
<1>. USE DEF Goto, Exit
<1>1. Alone(r) /\ TypeOK /\ Kept(r) /\ r \in Servers /\ "none" \notin Runs
  BY GpuAssumption DEF AllAlone, IInv, Servers
<1>2. /\ pc[r] \in Working /\ env' = env /\ alone' = alone
      /\ \A q \in Runs \ {r} : pc'[q] = pc[q] /\ status'[q] = status[q] /\ tries'[q] = tries[q]
      /\ pc'[r] \in {"spawn", "pid", "poll", "alive", "check", "host", "kill"}
  BY <1>1 DEF RemoveSocket, Spawn, RecordPid, PollSocket, PollServer, CheckSocket,
     TypeOK, Active, Working
<1>3. status[r] \notin {"refused", "server"}
  BY <1>1, <1>2 DEF Alone
<1>4. status'[r] \notin {"refused", "server"} \/ (status'[r] = "server" /\ pc'[r] = "kill")
  BY <1>1, <1>3 DEF RemoveSocket, Spawn, RecordPid, PollSocket, PollServer, CheckSocket, TypeOK
<1>5. ASSUME alone[r]  PROVE Wait(r)' /\ Excused(r)'
  <2>0. Wait(r) /\ (Broken(r) => Broken(r)') /\ (LostRace(r) => (LostRace(r) \/ Broken(r))')
    BY <1>1, <1>5, ExcusesStay DEF Alone
  <2>1. CASE RemoveSocket(r)
    BY <1>1, <1>3, <2>1 DEF RemoveSocket, TypeOK, Wait, Usable, Excused
  <2>2. CASE Spawn(r)
    <3>1. /\ pc[r] = "spawn" /\ srv[r] = "none" /\ socket' = socket /\ status' = status
          /\ srv' = [srv EXCEPT ![r] = "starting"] /\ pc'[r] = "pid"
      BY <1>1, <2>2 DEF Spawn, Kept, TypeOK
    <3>2. Usable => Usable'
      BY <1>1, <3>1 DEF Usable, TypeOK
    <3>3. srv'[r] \notin Gone
      BY <1>1, <3>1 DEF TypeOK, Gone
    <3>. QED  BY <1>3, <2>0, <3>1, <3>2, <3>3 DEF Wait, Waiting, Excused
  <2>3. CASE RecordPid(r) \/ PollSocket(r) \/ PollServer(r) \/ CheckSocket(r)
    <3>1. /\ Waiting(r) /\ socket' = socket /\ srv' = srv
          /\ pc[r] \in {"pid", "poll", "alive", "check"}
      BY <2>3 DEF RecordPid, PollSocket, PollServer, CheckSocket, Waiting
    <3>2. (Usable \/ Broken(r))'
      BY <2>0, <3>1 DEF Wait, Usable
    <3>3. pc'[r] \in {"pid", "poll", "alive"} => pc[r] \in {"pid", "poll", "alive"}
      BY <1>1, <2>3 DEF RecordPid, PollSocket, PollServer, CheckSocket, TypeOK
    <3>4. pc'[r] = "check" => tries'[r] = Tries \/ socket' # "none"
      BY <1>1, <2>3 DEF RecordPid, PollSocket, PollServer, CheckSocket, TypeOK
    <3>5. pc'[r] = "host" => socket' # "none"
      BY <1>1, <2>3 DEF RecordPid, PollSocket, PollServer, CheckSocket, TypeOK
    <3>6. Wait(r)'
      BY <2>0, <3>1, <3>2, <3>3, <3>4, <3>5 DEF Wait
    <3>7. ASSUME status'[r] = "server"
          PROVE  Broken(r) \/ LostRace(r) \/ tries'[r] = Tries
      <4>1. CASE RecordPid(r) \/ PollSocket(r)
        BY <1>3, <3>7, <4>1 DEF RecordPid, PollSocket
      <4>2. CASE PollServer(r)
        BY <1>1, <1>3, <2>0, <3>7, <4>2 DEF PollServer, Wait, TypeOK
      <4>3. CASE CheckSocket(r)
        BY <1>1, <1>3, <2>0, <3>7, <4>3 DEF CheckSocket, Wait, TypeOK
      <4>. QED  BY <2>3, <4>1, <4>2, <4>3
    <3>8. Excused(r)'
      BY <1>4, <2>0, <3>7 DEF Excused
    <3>. QED  BY <3>6, <3>8
  <2>. QED  BY <2>1, <2>2, <2>3
<1>6. pc[r] \in Active /\ pc'[r] # "idle" /\ "kill" \notin Working
  BY <1>2 DEF Active, Working
<1>. QED  BY <1>2, <1>4, <1>5, <1>6, NobodyElseAlone

\* The connection: the path names something, and that serves unless a server has died, so the
\* host is refused only then (o1zkvm cuda).
LEMMA ConnectAlone ==
    ASSUME IInv, AllAlone, Next, NEW r \in Runs, Connect(r)  PROVE AllAlone'
<1>. USE DEF Goto, Exit
<1>1. Alone(r) /\ TypeOK
  BY DEF AllAlone, IInv
<1>2. /\ pc[r] = "host" /\ env[r].prover = "cuda" /\ env' = env /\ alone' = alone
      /\ \A q \in Runs \ {r} : pc'[q] = pc[q] /\ status'[q] = status[q] /\ tries'[q] = tries[q]
      /\ \/ pc'[r] = "proving" /\ status'[r] = status[r]
         \/ pc'[r] = "kill" /\ status'[r] = "refused"
  BY <1>1 DEF Connect, TypeOK
<1>3. status[r] \notin {"refused", "server"}
  BY <1>1, <1>2 DEF Alone, Working
<1>4. Wait(r)'
  BY <1>2 DEF Wait, Waiting
<1>5. ASSUME alone[r], status'[r] = "refused"  PROVE Broken(r)'
  <2>1. socket # "none" /\ (Usable \/ Broken(r))
    BY <1>1, <1>2, <1>5 DEF Alone, Wait, Waiting
  <2>2. ~(socket \in Servers /\ srv[socket] = "bound")
    BY <1>3, <1>5, <2>1 DEF Connect
  <2>. QED  BY <2>1, <2>2, ExcusesStay DEF Usable, Servers
<1>6. alone[r] => Excused(r)'
  BY <1>2, <1>3, <1>5 DEF Excused
<1>7. pc[r] \in Active /\ pc'[r] # "idle" /\ "kill" \notin Working
  BY <1>2 DEF Active, Working
<1>. QED  BY <1>2, <1>3, <1>4, <1>6, <1>7, NobodyElseAlone

\* A script that starts ends the solitude of every active run, and has it itself only if there
\* is none (Start).
LEMMA StartAlone ==
    ASSUME IInv, AllAlone, Next, NEW r \in Runs, Start(r)  PROVE AllAlone'
<1>. DEFINE others == {o \in Runs : pc[o] \in Active}
<1>1. TypeOK /\ Alone(r)
  BY DEF IInv, AllAlone
<1>2. /\ pc[r] = "idle" /\ pc' = [pc EXCEPT ![r] = "args"] /\ env' = env /\ status' = status
      /\ tries' = tries /\ srv' = srv /\ socket' = socket
      /\ alone' = [o \in Runs |-> IF o = r THEN others = {} ELSE alone[o] /\ o \notin others]
  BY DEF Start, Goto
<1>. SUFFICES ASSUME NEW q \in Runs  PROVE Alone(q)'
  BY DEF AllAlone
<1>3. CASE q = r
  <2>1. pc'[r] = "args" /\ status'[r] = "none"
    BY <1>1, <1>2 DEF TypeOK, Alone, Solitude
  <2>2. alone'[r] => \A o \in Runs \ {r} : pc'[o] \notin Active
    BY <1>1, <1>2 DEF TypeOK
  <2>3. Wait(r)' /\ Excused(r)'
    BY <2>1 DEF Wait, Waiting, Excused
  <2>. QED  BY <1>3, <2>1, <2>2, <2>3 DEF Alone, Solitude
<1>4. CASE q # r
  <2>1. /\ Alone(q) /\ pc'[q] = pc[q] /\ status'[q] = status[q] /\ tries'[q] = tries[q]
        /\ alone'[q] => alone[q] /\ pc[q] \notin Active
    BY <1>1, <1>2, <1>4 DEF TypeOK, AllAlone
  <2>2. alone'[q] => Wait(q)'
    BY <2>1 DEF Wait, Waiting, Active, Working
  <2>3. alone'[q] => Excused(q)'
    BY <2>1, ExcusesStay DEF Alone, Excused
  <2>. QED  BY <2>1, <2>2, <2>3 DEF Alone, Solitude
<1>. QED  BY <1>3, <1>4

\* A server that binds makes the path usable; one that cannot bind found a left server there,
\* for the run that is alone removed everything else; a SIGTERM under that run is a killed
\* run's; and a crash is an excuse (Bind, Terminate, Crash).
LEMMA ServersAlone ==
    ASSUME IInv, AllAlone, External, Next, NEW s \in Servers,
           Bind(s) \/ Terminate(s) \/ Crash(s)
    PROVE  AllAlone'
<1>. SUFFICES ASSUME NEW r \in Runs  PROVE Alone(r)'
  BY DEF AllAlone
<1>1. /\ TypeOK /\ Alone(r) /\ "none" \notin Servers
      /\ \A q \in Runs : Kept(q) /\ q \in Servers
  BY GpuAssumption DEF IInv, AllAlone, Servers
<1>2. UNCHANGED <<pc, status, tries, alone, env, stopped, told>>
  BY DEF Bind, Terminate, Crash, script
<1>3. socket # "none" => socket' # "none"
  BY <1>1 DEF Bind, Terminate, Crash
<1>W. ASSUME Waiting(r)  PROVE pc[r] \in Active /\ r \notin told
  BY <1>1, <1>W DEF Waiting, Active, Working, Kept
<1>N. ASSUME alone[r], Waiting(r), NEW o \in Runs \ {r}, srv[o] \notin Gone
      PROVE  /\ Left(o)
             /\ o \in told => pc[o] = "killed"
  <2>1. pc[o] \notin Active /\ pc[o] \in Active \cup {"idle", "ended", "killed"}
    BY <1>1, <1>N, <1>W DEF Alone, Solitude, TypeOK
  <2>2. Kept(o) /\ srv[o] # "none"
    BY <1>1, <1>N DEF Gone
  <2>3. pc[o] \in {"ended", "killed"}
    BY <2>1, <2>2 DEF Kept
  <2>. QED  BY <1>N, <2>2, <2>3 DEF Kept, Left
<1>4. ASSUME alone[r], Waiting(r)  PROVE Usable => (Usable \/ Broken(r))'
  <2>1. CASE Bind(s)
    <3>1. s \in Runs
      BY <2>1 DEF Bind, External, Servers
    <3>. QED  BY <1>1, <2>1, <3>1 DEF Bind, Usable, TypeOK
  <2>2. CASE Crash(s)
    BY <1>1, <2>2 DEF Crash, Broken, TypeOK
  <2>3. CASE Terminate(s)
    <3>1. s \in Runs /\ s \in told /\ socket' = socket /\ srv' = [srv EXCEPT ![s] = "dead"]
      BY <1>1, <2>3 DEF Terminate, TypeOK
    <3>2. CASE socket = s
      <4>1. s # r /\ srv[s] \notin Gone
        BY <1>4, <1>W, <2>3, <3>1 DEF Terminate
      <4>2. pc[s] = "killed"
        BY <1>4, <1>N, <3>1, <4>1
      <4>. QED  BY <1>2, <3>1, <4>1, <4>2 DEF Broken
    <3>3. CASE socket # s
      BY <1>1, <3>1, <3>3 DEF Usable, TypeOK, Servers
    <3>. QED  BY <3>2, <3>3
  <2>. QED  BY <2>1, <2>2, <2>3
<1>5. ASSUME alone[r], pc[r] \in {"pid", "poll", "alive"}, srv'[r] \in Gone
      PROVE  (Broken(r) \/ LostRace(r))'
  <2>0. Wait(r) /\ Waiting(r) /\ r \notin told
    BY <1>1, <1>5, <1>W DEF Alone, Waiting
  <2>1. CASE srv[r] \in Gone
    BY <1>5, <2>0, <2>1, ExcusesStay DEF Wait
  <2>2. CASE srv[r] \notin Gone
    <3>1. s = r
      BY <1>1, <1>5, <2>2 DEF Bind, Terminate, Crash, TypeOK
    <3>2. CASE Bind(s)
      <4>1. /\ srv[r] = "starting" /\ socket # "none" /\ srv' = [srv EXCEPT ![r] = "dead"]
        BY <1>1, <1>5, <3>1, <3>2 DEF Bind, TypeOK, Gone
      <4>2. CASE Broken(r)
        BY <4>2, ExcusesStay
      <4>3. CASE Usable
        <5>1. socket \in Runs \ {r} /\ srv[socket] = "bound" /\ srv[socket] \notin Gone
          BY <4>1, <4>3 DEF Usable, Gone
        <5>2. Left(socket)
          BY <1>5, <1>N, <2>0, <5>1
        <5>3. LostRace(r)
          BY <5>1, <5>2 DEF LostRace
        <5>. QED  BY <5>3, ExcusesStay
      <4>. QED  BY <2>0, <4>2, <4>3 DEF Wait
    <3>3. CASE Crash(s)
      BY <1>1, <3>3 DEF Crash, Broken, TypeOK
    <3>4. CASE Terminate(s)
      BY <2>0, <3>1, <3>4 DEF Terminate
    <3>. QED  BY <3>2, <3>3, <3>4
  <2>. QED  BY <2>1, <2>2
<1>6. ASSUME alone[r]  PROVE Wait(r)'
  <2>1. Waiting(r)' => Waiting(r)
    BY <1>2 DEF Waiting
  <2>2. Waiting(r)' => (Usable \/ Broken(r))'
    BY <1>1, <1>4, <1>6, <2>1, ExcusesStay DEF Alone, Wait
  <2>. QED  BY <1>1, <1>2, <1>3, <1>5, <1>6, <2>2 DEF Alone, Wait
<1>7. alone[r] => Excused(r)'
  BY <1>1, <1>2, ExcusesStay DEF Alone, Excused
<1>. QED  BY <1>1, <1>2, <1>6, <1>7 DEF Alone, Solitude

\* Every step keeps the invariant (Next).
LEMMA NextAlone == IInv /\ AllAlone /\ External /\ [Next]_vars => AllAlone'
<1>. SUFFICES ASSUME IInv, AllAlone, External, [Next]_vars  PROVE AllAlone'
  OBVIOUS
<1>1. CASE UNCHANGED vars
  BY <1>1 DEF vars, script, AllAlone, Alone, Solitude, Wait, Waiting, Excused, Usable, Broken,
     LostRace, Left
<1>2. CASE Next
  BY <1>2, ElsewhereAlone, WaitingAlone, ConnectAlone, StartAlone, ServersAlone
     DEF Next, Script
<1>. QED  BY <1>1, <1>2

\* A CUDA run that has the device to itself connects to a server that serves, whatever any
\* number of earlier runs left, and if it ends without one, by a refused connection or in
\* ensure_gpu_server, then because a server died by itself or of a killed run's SIGTERM,
\* because nothing bound in the whole of the loop, or because a server left behind took the
\* path and still serves.
THEOREM AloneAlwaysServed == Spec => []AloneIsServed
<1>1. AllAlone => AloneIsServed
  BY DEF AllAlone, Alone, Excused, Broken, LostRace, AloneIsServed
<1>. QED  BY <1>1, InitKept, NextKept, InitAlone, NextExternal, NextAlone, PTL DEF Spec
=============================================================================
