------------------------------ MODULE O1zkvm ------------------------------
(***************************************************************************)
(* The whole tool: scripts/rust-e2e-test.sh and scripts/rust-prove.sh      *)
(* build a guest with a verification key baked in and start the host       *)
(* driver (crates/o1-verifier-host) on a fixture directory; the host loads *)
(* the four wire files, hands the guest (crates/o1-verifier) its input,    *)
(* and reports what the guest committed.                                   *)
(*                                                                         *)
(* Several runs may be under way in one checkout, sharing the target/      *)
(* directory, while a dump tool rewrites a fixture directory file by file. *)
(* The SP1 SDK, the prover network, cargo and the dump tools are outside   *)
(* the repository and appear by their possible outcomes.                   *)
(*                                                                         *)
(* An operator named Bug_... is a plausible mistake in the definition that *)
(* follows it; no specification uses it.                                   *)
(***************************************************************************)
EXTENDS Pickles, PicklesProver

CONSTANTS Runs,         \* invocations of the two scripts
          Dirs,         \* fixture directories
          Bundles,      \* the genuine proofs, by name
          Args,         \* the command lines: mode, directory, timeout, skip_simulation
          Redump        \* directory |-> the bundle a dump tool is writing into it, or "none"

Names == DOMAIN Bundles

\* A file holds one of the files of a bundle, or what a tool has not finished
\* writing, or is not there.
Contents == Names \cup {"broken", "absent"}

\* The files of a fixture directory, in the order load_verifiable reads them.
FileOrder == <<"vk", "proof", "skeleton", "stmt">>
Files == {"vk", "proof", "skeleton", "stmt"}

\* What clap makes of a command line; limits, prices and the proof mode are passed on.
CommandLines == [mode : {"execute", "cpu", "cuda", "network"}, dir : Dirs,
                 timeout : BOOLEAN, skip_simulation : BOOLEAN]

ASSUME RunsAssumption ==
    /\ Names \subseteq STRING /\ {"broken", "absent", "none"} \cap Names = {}
    /\ Args \subseteq CommandLines
    /\ Redump \in [Dirs -> Names \cup {"none"}]

\* The first chunks of a key's commitments.
first_points(vk) == [i \in DOMAIN vk_commitments(vk) |-> vk_commitments(vk)[i][1]]

\* The bundles are of genuine proofs, and the keys of two programs differ in a commitment.
ASSUME BundlesAssumption ==
    /\ \A n \in Names : IsInstance(Bundles[n])
    /\ \A m, n \in Names : first_points(Bundles[m].vk) = first_points(Bundles[n].vk)
                             => Bundles[m].vk = Bundles[n].vk

VARIABLES dirs,     \* the fixture directories
          elf,      \* the bundle whose key is baked into target/release/o1zkvm
          args,     \* the command line of each run
          pc,       \* where each run is
          image,    \* the binary each run executes
          loaded,   \* the files each run has read, in order
          net,      \* the request of each run at the prover network
          artifact, \* the SP1 proof each run holds
          out,      \* what each run has printed
          why       \* the reason a run ended in failure

vars == <<dirs, elf, args, pc, image, loaded, net, artifact, out, why>>

-----------------------------------------------------------------------------
\* The computation between the files and the committed boolean.

\* parse_wrap_vk .. parse_app_statement, then into_verifiable, on files read whole.
converted(l) ==
    LET ocaml == OcamlProof_parse(Skeleton(Bundles[l[3]]))
    IN  IF ocaml.ok
        THEN into_verifiable(ocaml.value, WrapProof(Bundles[l[2]]), Bundles[l[1]].vk,
                             <<Bundles[l[4]].stmt>>)
        ELSE Err

\* Four files that parse.
Texts == [1..4 -> Names]

\* The guest: the verifier decoded from the baked blob (one step chunk), on its input.
guest(baked, l) ==
    IF converted(l).ok
    THEN verify(Verifier_new(Bundles[baked].vk, PallasSrs, VestaSrs, 1), converted(l).value)
    ELSE "unconvertible"

\* What becomes of each binary and input; a table, so that it is computed once.
outcomes == {<<baked, l, guest(baked, l)>> : baked \in Names, l \in Texts}

-----------------------------------------------------------------------------
\* The steps of a run.

\* The guest in run r's binary comes to v on run r's files.
outcome(r, v) == <<image[r], loaded[r], v>> \in outcomes

Goto(r, next) == pc' = [pc EXCEPT ![r] = next]

\* A panic of the host, or a command failing under `set -e`.
Fail(r, reason) ==
    /\ pc' = [pc EXCEPT ![r] = "failed"]
    /\ why' = [why EXCEPT ![r] = reason]

\* The script's checks: the e2e script looks for the four files.
CheckFixture(r) ==
    /\ pc[r] = "script"
    /\ IF args[r].mode = "execute" /\ \E f \in Files : dirs[args[r].dir][f] = "absent"
       THEN Fail(r, "script")
       ELSE Goto(r, "build") /\ UNCHANGED why
    /\ UNCHANGED <<dirs, elf, args, image, loaded, net, artifact, out>>

\* `make build-rust`, under cargo's lock: the guest's build.rs reads and parses the
\* key of the run's own directory and bakes it in.
Build(r) ==
    /\ pc[r] = "build"
    /\ LET vk == dirs[args[r].dir]["vk"] IN
       IF vk \in Names THEN /\ elf' = vk /\ Goto(r, "start") /\ UNCHANGED why
                       ELSE Fail(r, "build") /\ UNCHANGED elf
    /\ UNCHANGED <<dirs, args, image, loaded, net, artifact, out>>

\* The host's build script asks sp1_build for the guest; whether cargo then sees a change
\* of VK_JSON or of the key file is up to sp1_build.  The binary that is there may stay.
BuildIsFresh(r) ==
    /\ pc[r] = "build" /\ elf # "none"
    /\ Goto(r, "start")
    /\ UNCHANGED <<dirs, elf, args, image, loaded, net, artifact, out, why>>

\* The script starts whatever binary is in target/release now.
Start(r) ==
    /\ pc[r] = "start"
    /\ image' = [image EXCEPT ![r] = elf]
    /\ Goto(r, "load")
    /\ UNCHANGED <<dirs, elf, args, loaded, net, artifact, out, why>>

Bug_LoadFile_unchecked(r) ==
    /\ pc[r] = "load" /\ Len(loaded[r]) < 4
    /\ loaded' = [loaded EXCEPT ![r] =
                     Append(@, dirs[args[r].dir][FileOrder[Len(loaded[r]) + 1]])]
    /\ UNCHANGED <<dirs, elf, args, pc, image, net, artifact, out, why>>

\* load_verifiable reads one file after the other.
LoadFile(r) ==
    /\ pc[r] = "load" /\ Len(loaded[r]) < 4
    /\ LET content == dirs[args[r].dir][FileOrder[Len(loaded[r]) + 1]] IN
       IF content = "absent"
       THEN Fail(r, "read") /\ UNCHANGED loaded
       ELSE /\ loaded' = [loaded EXCEPT ![r] = Append(@, content)]
            /\ UNCHANGED <<pc, why>>
    /\ UNCHANGED <<dirs, elf, args, image, net, artifact, out>>

\* It parses the four texts, converts, and the host writes the guest's stdin.
Assemble(r) ==
    /\ pc[r] = "load" /\ Len(loaded[r]) = 4
    /\ IF \E i \in 1..4 : loaded[r][i] = "broken" THEN Fail(r, "parse")
       ELSE IF outcome(r, "unconvertible") THEN Fail(r, "convert")
       ELSE Goto(r, args[r].mode) /\ UNCHANGED why
    /\ UNCHANGED <<dirs, elf, args, image, loaded, net, artifact, out>>

Bug_Report_not_asserted(r, valid) ==
    /\ Goto(r, "ok") /\ out' = [out EXCEPT ![r] = @ \cup {"verified"}]
    /\ UNCHANGED why

\* The assertion on the committed boolean and the line printed after it.
Report(r, valid) ==
    IF valid THEN /\ Goto(r, "ok") /\ out' = [out EXCEPT ![r] = @ \cup {"verified"}]
                  /\ UNCHANGED why
             ELSE Fail(r, "assert") /\ UNCHANGED out

\* run_execute: the emulator runs the guest.
RunExecute(r) ==
    /\ pc[r] = "execute"
    /\ IF outcome(r, "panic") THEN Fail(r, "execution") /\ UNCHANGED out
                                  ELSE Report(r, outcome(r, "true"))
    /\ UNCHANGED <<dirs, elf, args, image, loaded, net, artifact>>

NoProof == [genuine |-> FALSE, valid |-> FALSE]

\* What a prover may answer: a proof of the guest's run with the value it committed, or
\* something else that client.verify has to catch.
Artifacts(r) ==
    {[genuine |-> FALSE, valid |-> v] : v \in BOOLEAN}
    \cup (IF outcome(r, "panic") THEN {}
          ELSE {[genuine |-> TRUE, valid |-> outcome(r, "true")]})

\* run_cpu, run_cuda: setup and prove.
Prove(r) ==
    /\ pc[r] \in {"cpu", "cuda"}
    /\ \/ Fail(r, "prove") /\ UNCHANGED artifact
       \/ \E a \in Artifacts(r) :
            artifact' = [artifact EXCEPT ![r] = a] /\ Goto(r, "verify") /\ UNCHANGED why
    /\ UNCHANGED <<dirs, elf, args, image, loaded, net, out>>

Bug_VerifyProof_skipped(r) ==
    /\ pc[r] = "verify"
    /\ Goto(r, "report")
    /\ UNCHANGED <<dirs, elf, args, image, loaded, net, artifact, out, why>>

\* client.verify on the proof that came back.
VerifyProof(r) ==
    /\ pc[r] = "verify"
    /\ IF artifact[r].genuine THEN Goto(r, "report") /\ UNCHANGED why ELSE Fail(r, "verify")
    /\ UNCHANGED <<dirs, elf, args, image, loaded, net, artifact, out>>

\* report_proof, report_proof_with_request
ReportProof(r) ==
    /\ pc[r] = "report"
    /\ Report(r, artifact[r].valid)
    /\ UNCHANGED <<dirs, elf, args, image, loaded, net, artifact>>

NoRequest == [state |-> "none", answer |-> NoProof]
Pending == [state |-> "pending", answer |-> NoProof]

Bug_Submitted_waits_first(r) == Goto(r, "wait")

\* Where run_network goes on once it holds the request id.
Submitted(r) == Goto(r, "locate")

\* run_network: req.request().  The local simulation, unless it is skipped, fails when
\* the guest panics; a submission may fail, with or without reaching the network.
Request(r) ==
    /\ pc[r] = "network"
    /\ \/ /\ Fail(r, "submit")
          /\ UNCHANGED net
       \/ /\ args[r].skip_simulation \/ ~outcome(r, "panic")
          /\ net' = [net EXCEPT ![r] = Pending]
          /\ \/ Submitted(r) /\ UNCHANGED why
             \/ Fail(r, "submit")
    /\ UNCHANGED <<dirs, elf, args, image, loaded, artifact, out>>

\* print_request_locator
PrintLocator(r) ==
    /\ pc[r] = "locate"
    /\ out' = [out EXCEPT ![r] = @ \cup {"locator"}]
    /\ Goto(r, "wait")
    /\ UNCHANGED <<dirs, elf, args, image, loaded, net, artifact, why>>

\* client.wait_proof returns the answer, or the failure the network reports.
WaitProof(r) ==
    /\ pc[r] = "wait"
    /\ \/ /\ net[r].state = "fulfilled"
          /\ artifact' = [artifact EXCEPT ![r] = net[r].answer]
          /\ Goto(r, "verify") /\ UNCHANGED why
       \/ /\ net[r].state = "unfulfillable"
          /\ Fail(r, "network") /\ UNCHANGED artifact
    /\ UNCHANGED <<dirs, elf, args, image, loaded, net, out>>

Bug_timeout_not_passed(r) == FALSE

\* Whether wait_proof was given a deadline (--timeout-secs).
has_timeout(r) == args[r].timeout

\* The deadline passes, perhaps while an answer is on its way or already there.
WaitTimesOut(r) ==
    /\ pc[r] = "wait" /\ has_timeout(r)
    /\ Fail(r, "timeout")
    /\ UNCHANGED <<dirs, elf, args, image, loaded, net, artifact, out>>

Step(r) == \/ CheckFixture(r) \/ Build(r) \/ BuildIsFresh(r) \/ Start(r)
           \/ LoadFile(r) \/ Assemble(r) \/ RunExecute(r) \/ Prove(r)
           \/ VerifyProof(r) \/ ReportProof(r)
           \/ Request(r) \/ PrintLocator(r) \/ WaitProof(r) \/ WaitTimesOut(r)

-----------------------------------------------------------------------------
\* The environment.

\* The network answers a request, or gives it up, whether or not anybody still waits.
NetworkAnswers(r) ==
    /\ net[r].state = "pending"
    /\ \/ \E a \in Artifacts(r) :
            net' = [net EXCEPT ![r] = [state |-> "fulfilled", answer |-> a]]
       \/ net' = [net EXCEPT ![r].state = "unfulfillable"]
    /\ UNCHANGED <<dirs, elf, args, pc, image, loaded, artifact, out, why>>

\* A dump tool opens a file of its directory, which empties it, and later has written it.
DumpOpens(d, f) ==
    /\ Redump[d] # "none" /\ dirs[d][f] \notin {"broken", Redump[d]}
    /\ dirs' = [dirs EXCEPT ![d][f] = "broken"]
    /\ UNCHANGED <<elf, args, pc, image, loaded, net, artifact, out, why>>

DumpWrites(d, f) ==
    /\ Redump[d] # "none" /\ dirs[d][f] = "broken"
    /\ dirs' = [dirs EXCEPT ![d][f] = Redump[d]]
    /\ UNCHANGED <<elf, args, pc, image, loaded, net, artifact, out, why>>

Finished == \A r \in Runs : pc[r] \in {"ok", "failed"}

\* When every run has ended nothing need happen any more.
Idle == Finished /\ UNCHANGED vars

Init ==
    /\ dirs \in [Dirs -> {[f \in Files |-> n] : n \in Names \cup {"absent"}}]
    /\ elf = "none"
    /\ args \in [Runs -> Args]
    /\ pc = [r \in Runs |-> "script"]
    /\ image = [r \in Runs |-> "none"]
    /\ loaded = [r \in Runs |-> <<>>]
    /\ net = [r \in Runs |-> NoRequest]
    /\ artifact = [r \in Runs |-> NoProof]
    /\ out = [r \in Runs |-> {}]
    /\ why = [r \in Runs |-> "none"]

Next == \/ \E r \in Runs : Step(r) \/ NetworkAnswers(r)
        \/ \E d \in Dirs, f \in Files : DumpOpens(d, f) \/ DumpWrites(d, f)
        \/ Idle

\* The host and the script take their steps, the build, the emulator and the local provers
\* return, and wall-clock time passes (WaitTimesOut).  Nothing is assumed of the network or
\* of the dump tools.
Fairness == \A r \in Runs : WF_vars(Step(r))

Spec == Init /\ [][Next]_vars /\ Fairness

-----------------------------------------------------------------------------
Steps == {"script", "build", "start", "load", "execute", "cpu", "cuda", "network", "locate",
          "wait", "verify", "report", "ok", "failed"}

Reasons == {"none", "script", "build", "read", "parse", "convert", "execution", "assert",
            "prove", "verify", "submit", "network", "timeout"}

Proofs == [genuine : BOOLEAN, valid : BOOLEAN]

Requests == [state : {"none", "pending", "fulfilled", "unfulfillable"}, answer : Proofs]

\* The types, and that a run past Start executes a binary that was built.
TypeOK ==
    /\ dirs \in [Dirs -> [Files -> Contents]]
    /\ elf \in Names \cup {"none"}
    /\ args \in [Runs -> Args]
    /\ pc \in [Runs -> Steps]
    /\ image \in [Runs -> Names \cup {"none"}]
    /\ \A r \in Runs : pc[r] \notin {"script", "build", "start", "failed"} => image[r] \in Names
    /\ loaded \in [Runs -> Seq(Names \cup {"broken"})]
    /\ net \in [Runs -> Requests]
    /\ artifact \in [Runs -> Proofs]
    /\ out \in [Runs -> SUBSET {"locator", "verified"}]
    /\ why \in [Runs -> Reasons]

\* The files a run has read, as one fixture.
read(l) == [vk |-> Bundles[l[1]].vk, proof |-> WrapProof(Bundles[l[2]]),
            skeleton |-> Skeleton(Bundles[l[3]]), stmt |-> Bundles[l[4]].stmt]

\* The texts that are, file by file, those of a bundle.
one_fixture == {c \in Names \X Texts : read(c[2]) = Fixture(Bundles[c[1]])}

\* The run read the four files of one bundle and its binary has that bundle's key.
Consistent(r) ==
    /\ loaded[r] \in Texts
    /\ \E n \in Names : /\ <<n, loaded[r]>> \in one_fixture
                        /\ Bundles[image[r]].vk = Bundles[n].vk

\* "Pickles proof verified successfully" is printed only for the four files of one genuine
\* proof, for the key in the binary: not for files of two dumps read while the directory was
\* being rewritten, not when another run has rebuilt target/ for another key, and not on the
\* word of a prover (load_verifiable, run_network, report_proof; the host has "no runtime
\* mismatch check").
SuccessMeansOneFixture ==
    \A r \in Runs : "verified" \in out[r] => pc[r] = "ok" /\ Consistent(r)

\* A run that read one genuine fixture under a binary of its key is never told that its
\* proof is invalid, nor does the guest panic on it (into_verifiable, the guest's main).
GenuineNeverRefused ==
    \A r \in Runs : Consistent(r) => why[r] \notin {"convert", "execution", "assert"}

\* No request is lost: when a run that had its request accepted has ended, with a proof that
\* may still arrive, the operator has the locator, unless the submission itself was reported
\* as failed: then the host has no id to print (run_network prints it before it waits).
OrphansAreLocated ==
    \A r \in Runs :
        /\ pc[r] \in {"ok", "failed"} /\ net[r].state # "none" /\ why[r] # "submit"
        => "locator" \in out[r]

\* Every run ends, however the network behaves, unless it waits for the network without a
\* timeout (run_network passes --timeout-secs to wait_proof).
RunsEnd ==
    \A r \in Runs :
        (pc[r] = "script" /\ (args[r].mode = "network" => args[r].timeout))
        ~> pc[r] \in {"ok", "failed"}

-----------------------------------------------------------------------------
\* What module ReportSpec says, of this program.

settled(r) == Len(loaded[r]) = 4

accepted(c) == <<c[1], c[2], "true">> \in outcomes

Promise == INSTANCE ReportSpec WITH
    Claims  <- Names \X [1..4 -> Names \cup {"broken"}],
    Accepts <- accepted,
    claim   <- [r \in Runs |-> IF settled(r) THEN <<image[r], loaded[r]>> ELSE <<>>],
    request <- [r \in Runs |-> IF net[r].state = "none" THEN "none"
                               ELSE IF "locator" \in out[r] THEN "located" ELSE "sent"],
    answer  <- [r \in Runs |-> IF "verified" \in out[r] THEN "verified"
                               ELSE IF pc[r] = "failed" THEN "failed" ELSE "none"],
    limited <- [r \in Runs |-> args[r].mode = "network" => args[r].timeout]

\* The program keeps the promise, step by step: no run changes what it is about once it has
\* read its files, none ends twice or is sent twice, success comes only after the guest's
\* acceptance, and no step of another run, of the network or of a dump tool shows
\* (load_verifiable, run_execute, run_cpu, run_cuda, run_network).
PromiseKept == Promise!Spec
=============================================================================
