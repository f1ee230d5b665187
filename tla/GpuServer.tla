----------------------------- MODULE GpuServer -----------------------------
(***************************************************************************)
(* scripts/rust-prove.sh: invocations on one CUDA device, the GPU server   *)
(* each of them starts, waits for and kills, and the one socket path they  *)
(* all use.                                                                *)
(*                                                                         *)
(* `socket` is the server whose inode the path names: a run's, "external"  *)
(* for a server somebody else manages, "stale" for what a dead server left *)
(* before the first run, or "none".  A server that dies leaves its inode.  *)
(* sp1-gpu-server and the SP1 SDK are outside the repository; what is      *)
(* assumed of them is what the script's comments say.                      *)
(*                                                                         *)
(* An operator named Bug_... is a plausible mistake in the definition that *)
(* follows it; no specification uses it.                                   *)
(***************************************************************************)
EXTENDS Naturals

CONSTANTS Runs,          \* invocations of the script
          Environments,  \* what they may find: prover, key, fixture
          Leftovers,     \* what may be at the socket path before the first run
          Tries          \* iterations of the polling loop (50)

ASSUME GpuAssumption ==
    /\ {"external", "stale", "sdk", "none"} \cap Runs = {}
    /\ Environments \subseteq [prover : {"cpu", "cuda", "network", "other"},
                               key : BOOLEAN, fixture : BOOLEAN]
    /\ Leftovers \subseteq {"none", "stale", "external"}
    /\ Tries \in Nat

Servers == Runs \cup {"external"}

VARIABLES env,      \* the environment of each run
          pc,       \* where each run is
          status,   \* how it came to its exit
          gpu_pid,  \* whether GPU_PID has been assigned
          tries,    \* iterations of the loop that are done
          served,   \* the server its host is connected to
          stopped,  \* the step at which a signal ended the script
          alone,    \* no other run has been active during this one
          told,     \* the runs whose EXIT trap has sent their server a SIGTERM
          srv,      \* the state of each server
          socket    \* the server that the path names

script == <<env, pc, status, gpu_pid, tries, served, stopped, alone, told>>
vars == <<script, srv, socket>>

-----------------------------------------------------------------------------
Goto(r, next) == pc' = [pc EXCEPT ![r] = next]

\* `exit`, a command failing under `set -e`, or the end of the script: the EXIT trap runs.
Exit(r, s) == /\ status' = [status EXCEPT ![r] = s]
              /\ Goto(r, "kill")

\* Between the trap and its end, and not in the trap.
Working == {"args", "build", "rm", "spawn", "pid", "poll", "alive", "check", "host", "proving"}
Active == Working \cup {"kill", "wait", "unlink"}

Gone == {"none", "dead", "crashed"}

\* The script begins: the trap is set before anything is validated.
Start(r) ==
    /\ pc[r] = "idle"
    /\ Goto(r, "args")
    /\ LET others == {o \in Runs : pc[o] \in Active}
       IN  alone' = [o \in Runs |-> IF o = r THEN others = {}
                                    ELSE alone[o] /\ o \notin others]
    /\ UNCHANGED <<env, status, gpu_pid, tries, served, stopped, told, srv, socket>>

\* A known prover, a key for the network, a fixture directory.
Validate(r) ==
    /\ pc[r] = "args"
    /\ IF /\ env[r].prover \in {"cpu", "cuda", "network"}
          /\ env[r].prover = "network" => env[r].key
          /\ env[r].fixture
       THEN Goto(r, "build") /\ UNCHANGED status
       ELSE Exit(r, "usage")
    /\ UNCHANGED <<env, gpu_pid, tries, served, stopped, alone, told, srv, socket>>

\* `make build-rust`, and whether there is a server to start.
Build(r) ==
    /\ pc[r] = "build"
    /\ \/ Exit(r, "build")
       \/ Goto(r, IF env[r].prover = "cuda" THEN "rm" ELSE "host") /\ UNCHANGED status
    /\ UNCHANGED <<env, gpu_pid, tries, served, stopped, alone, told, srv, socket>>

Bug_leftover_stays(r) ==
    /\ pc[r] = "rm"
    /\ Goto(r, "spawn")
    /\ UNCHANGED <<env, status, gpu_pid, tries, served, stopped, alone, told, srv, socket>>

\* ensure_gpu_server: whatever is at the path is removed.
RemoveSocket(r) ==
    /\ pc[r] = "rm"
    /\ socket' = "none"
    /\ Goto(r, "spawn")
    /\ UNCHANGED <<env, status, gpu_pid, tries, served, stopped, alone, told, srv>>

Spawn(r) ==
    /\ pc[r] = "spawn"
    /\ srv' = [srv EXCEPT ![r] = "starting"]
    /\ Goto(r, "pid")
    /\ UNCHANGED <<env, status, gpu_pid, tries, served, stopped, alone, told, socket>>

\* GPU_PID=$!, a command of its own.
RecordPid(r) ==
    /\ pc[r] = "pid"
    /\ gpu_pid' = [gpu_pid EXCEPT ![r] = TRUE]
    /\ Goto(r, "poll")
    /\ UNCHANGED <<env, status, tries, served, stopped, alone, told, srv, socket>>

Bug_one_try_more(r) ==
    /\ pc[r] = "poll"
    /\ Goto(r, IF tries[r] > Tries \/ socket # "none" THEN "check" ELSE "alive")
    /\ UNCHANGED <<env, status, gpu_pid, tries, served, stopped, alone, told, srv, socket>>

\* `for _ in $(seq 1 50)`, `[ -S ... ] && break`: a socket of anybody's will do.
PollSocket(r) ==
    /\ pc[r] = "poll"
    /\ Goto(r, IF tries[r] = Tries \/ socket # "none" THEN "check" ELSE "alive")
    /\ UNCHANGED <<env, status, gpu_pid, tries, served, stopped, alone, told, srv, socket>>

Bug_poll_for_ever(r) ==
    /\ pc[r] = "alive"
    /\ IF srv[r] \in Gone
       THEN Exit(r, "server") /\ UNCHANGED tries
       ELSE Goto(r, "poll") /\ UNCHANGED <<status, tries>>
    /\ UNCHANGED <<env, gpu_pid, served, stopped, alone, told, srv, socket>>

\* `kill -0`, `sleep`: the rest of the loop's body.
PollServer(r) ==
    /\ pc[r] = "alive"
    /\ IF srv[r] \in Gone
       THEN Exit(r, "server") /\ UNCHANGED tries
       ELSE /\ tries' = [tries EXCEPT ![r] = @ + 1]
            /\ Goto(r, "poll") /\ UNCHANGED status
    /\ UNCHANGED <<env, gpu_pid, served, stopped, alone, told, srv, socket>>

\* The second look, after the loop.
CheckSocket(r) ==
    /\ pc[r] = "check"
    /\ IF socket = "none" THEN Exit(r, "server") ELSE Goto(r, "host") /\ UNCHANGED status
    /\ UNCHANGED <<env, gpu_pid, tries, served, stopped, alone, told, srv, socket>>

\* o1zkvm cpu, o1zkvm network: no GPU server is involved.
RunHost(r) ==
    /\ pc[r] = "host" /\ env[r].prover # "cuda"
    /\ \E s \in {"ok", "host"} : Exit(r, s)
    /\ UNCHANGED <<env, gpu_pid, tries, served, stopped, alone, told, srv, socket>>

\* o1zkvm cuda: the SDK connects to the server the path names.  With nothing at the path a
\* server of its own may come up within its retry budget, or may not.
Connect(r) ==
    /\ pc[r] = "host" /\ env[r].prover = "cuda"
    /\ \E s \in {socket} \cup (IF socket = "none" THEN {"sdk"} ELSE {}) :
         IF s = "sdk" \/ (s \in Servers /\ srv[s] = "bound")
         THEN /\ served' = [served EXCEPT ![r] = s]
              /\ Goto(r, "proving") /\ UNCHANGED status
         ELSE Exit(r, "refused") /\ UNCHANGED served
    /\ UNCHANGED <<env, gpu_pid, tries, stopped, alone, told, srv, socket>>

\* The host has its proof, or fails, as it must when the server is gone.
ProofDone(r) ==
    /\ pc[r] = "proving"
    /\ \E s \in {"host"} \cup (IF served[r] \in Servers /\ srv[served[r]] \in Gone
                               THEN {} ELSE {"ok"}) : Exit(r, s)
    /\ UNCHANGED <<env, gpu_pid, tries, served, stopped, alone, told, srv, socket>>

Bug_trap_by_socket(r) ==
    /\ pc[r] = "kill"
    /\ IF socket = r /\ srv[r] \notin Gone
       THEN told' = told \cup {r} /\ Goto(r, "wait")
       ELSE Goto(r, "unlink") /\ UNCHANGED told
    /\ UNCHANGED <<env, status, gpu_pid, tries, served, stopped, alone, srv, socket>>

\* cleanup: SIGTERM to the server, if its pid is known and it is alive.
CleanupKill(r) ==
    /\ pc[r] = "kill"
    /\ IF gpu_pid[r] /\ srv[r] \notin Gone
       THEN told' = told \cup {r} /\ Goto(r, "wait")
       ELSE Goto(r, "unlink") /\ UNCHANGED told
    /\ UNCHANGED <<env, status, gpu_pid, tries, served, stopped, alone, srv, socket>>

Bug_trap_does_not_wait(r) ==
    /\ pc[r] = "wait"
    /\ Goto(r, "unlink")
    /\ UNCHANGED <<env, status, gpu_pid, tries, served, stopped, alone, told, srv, socket>>

\* cleanup: `wait` returns when the server has ended.
CleanupWait(r) ==
    /\ pc[r] = "wait" /\ srv[r] \in Gone
    /\ Goto(r, "unlink")
    /\ UNCHANGED <<env, status, gpu_pid, tries, served, stopped, alone, told, srv, socket>>

\* cleanup: in every mode, and whatever the path names by now.
CleanupUnlink(r) ==
    /\ pc[r] = "unlink"
    /\ socket' = "none"
    /\ Goto(r, "ended")
    /\ UNCHANGED <<env, status, gpu_pid, tries, served, stopped, alone, told, srv>>

Script(r) == \/ Validate(r) \/ Build(r) \/ RemoveSocket(r) \/ Spawn(r) \/ RecordPid(r)
             \/ PollSocket(r) \/ PollServer(r) \/ CheckSocket(r) \/ RunHost(r) \/ Connect(r)
             \/ ProofDone(r) \/ CleanupKill(r) \/ CleanupWait(r) \/ CleanupUnlink(r)

-----------------------------------------------------------------------------
\* Signals.

\* SIGINT or SIGTERM between two commands: the EXIT trap runs.
Interrupt(r) ==
    /\ pc[r] \in Working
    /\ stopped' = [stopped EXCEPT ![r] = pc[r]]
    /\ Exit(r, "signal")
    /\ UNCHANGED <<env, gpu_pid, tries, served, alone, told, srv, socket>>

\* SIGKILL, or a second signal in the trap: nothing more runs, the server lives on.
Kill9(r) ==
    /\ pc[r] \in Active
    /\ Goto(r, "killed")
    /\ UNCHANGED <<env, status, gpu_pid, tries, served, stopped, alone, told, srv, socket>>

\* sp1-gpu-server: bind fails with EADDRINUSE when the path exists.
Bind(s) ==
    /\ srv[s] = "starting"
    /\ IF socket = "none"
       THEN socket' = s /\ srv' = [srv EXCEPT ![s] = "bound"]
       ELSE srv' = [srv EXCEPT ![s] = "dead"] /\ UNCHANGED socket
    /\ UNCHANGED script

\* SIGTERM ends a server, at a time of its own.
Terminate(s) ==
    /\ s \in told /\ srv[s] \notin Gone
    /\ srv' = [srv EXCEPT ![s] = "dead"]
    /\ UNCHANGED <<script, socket>>

Crash(s) ==
    /\ srv[s] \notin Gone
    /\ srv' = [srv EXCEPT ![s] = "crashed"]
    /\ UNCHANGED <<script, socket>>

Init ==
    /\ env \in [Runs -> Environments]
    /\ pc = [r \in Runs |-> "idle"]
    /\ status = [r \in Runs |-> "none"]
    /\ gpu_pid = [r \in Runs |-> FALSE]
    /\ tries = [r \in Runs |-> 0]
    /\ served = [r \in Runs |-> "none"]
    /\ stopped = [r \in Runs |-> "none"]
    /\ alone = [r \in Runs |-> FALSE]
    /\ told = {}
    /\ socket \in Leftovers
    /\ srv = [s \in Servers |-> IF s = socket THEN "bound" ELSE "none"]

Next == \/ \E r \in Runs : Start(r) \/ Script(r) \/ Interrupt(r) \/ Kill9(r)
        \/ \E s \in Servers : Bind(s) \/ Terminate(s) \/ Crash(s)

\* A started script takes its steps, and make and the host return.  Of the servers one thing is
\* assumed: that a SIGTERM ends them, without which the trap's `wait` need not return.  No
\* server need ever bind.
Fairness == \A r \in Runs : WF_vars(Script(r)) /\ WF_vars(Terminate(r))

Spec == Init /\ [][Next]_vars /\ Fairness

-----------------------------------------------------------------------------
TypeOK ==
    /\ env \in [Runs -> Environments]
    /\ pc \in [Runs -> Active \cup {"idle", "ended", "killed"}]
    /\ status \in [Runs -> {"none", "usage", "build", "server", "refused", "host", "ok",
                            "signal"}]
    /\ gpu_pid \in [Runs -> BOOLEAN]
    /\ tries \in [Runs -> 0..Tries]
    /\ served \in [Runs -> Servers \cup {"none", "sdk"}]
    /\ stopped \in [Runs -> Working \cup {"none"}]
    /\ alone \in [Runs -> BOOLEAN]
    /\ told \subseteq Runs
    /\ srv \in [Servers -> Gone \cup {"starting", "bound"}]
    /\ socket \in Servers \cup {"none", "stale"}

\* A script that ends, in whatever way it got to its EXIT trap, leaves no server on the GPU:
\* unless a signal came between the start of the server and GPU_PID=$! (cleanup,
\* ensure_gpu_server).
NoServerOutlivesItsScript ==
    \A r \in Runs : pc[r] = "ended" /\ stopped[r] # "pid" => srv[r] \in Gone

\* A script that ends does not leave its socket behind either, even if its server was still
\* coming up when the trap began: cleanup kills and waits before it removes the path.
NoSocketOutlivesItsScript ==
    \A r \in Runs : pc[r] = "ended" /\ stopped[r] # "pid" => socket # r

\* A run whose server may live on: it was killed, or a signal came before GPU_PID=$!.
Left(o) == pc[o] = "killed" \/ stopped[o] = "pid"

\* A CUDA run that has the device to itself connects to a server that serves, whatever earlier
\* runs left (ensure_gpu_server, up to the connection).  It may end without one, and then for
\* one of four reasons only: a server died by itself; a server that a killed run's trap had
\* told to end did so under it; nothing had bound when the loop ran out; or its own server
\* found the path taken, by one that an earlier run left and that serves, and exited.
AloneIsServed ==
    \A r \in Runs :
        alone[r] /\ status[r] \in {"refused", "server"} =>
            \/ \E s \in Servers : srv[s] = "crashed"
            \/ \E o \in Runs \ {r} : pc[o] = "killed" /\ o \in told
            \/ /\ status[r] = "server"
               /\ \/ tries[r] = Tries
                  \/ \E o \in Runs \ {r} : Left(o) /\ srv[o] = "bound"

\* A script that has begun ends, whether or not its server ever binds (the loop of
\* ensure_gpu_server is bounded and looks at the server).
ScriptEnds == \A r \in Runs : pc[r] = "args" ~> pc[r] \in {"ended", "killed"}

\* rust-prove.sh: "If you need to share an externally managed server, run prove-cuda from a
\* shell that already has it set up."
ExternalServerIsShared ==
    \A r \in Runs :
        served[r] \in Servers /\ srv["external"] = "bound" => served[r] = "external"
=============================================================================
