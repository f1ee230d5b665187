--------------------------- MODULE O1zkvmProofs ---------------------------
(***************************************************************************)
(* Theorems about the whole tool, for any number of runs, directories and  *)
(* bundles: every run stays within its types and never executes a binary   *)
(* that was not built, no request at the prover network is lost, success   *)
(* is reported only on the guest's own verdict, which is that the files    *)
(* are one genuine fixture of the binary's key, such a fixture is never    *)
(* refused, and the tool implements what it promises (ReportSpec).         *)
(***************************************************************************)
EXTENDS O1zkvm, PicklesBinding, SequenceTheorems, TLAPS

\* A run that is about to start the binary finds one: its build has put it there or has
\* found it there, and no step of any run takes it away (Build, BuildIsFresh).
Built == \A r \in Runs : pc[r] = "start" => elf \in Names

IInv == TypeOK /\ Built

-----------------------------------------------------------------------------
\* The guest's verdict is a Boolean (outcome).
LEMMA OutcomeBoolean ==
    ASSUME NEW r, NEW v  PROVE outcome(r, v) \in BOOLEAN
  BY DEF outcome

\* load_verifiable reads four files and no other.
LEMMA FourFiles ==
    ASSUME NEW n \in Nat, n < 4  PROVE FileOrder[n + 1] \in Files
<1>1. n + 1 \in {1, 2, 3, 4}
  OBVIOUS
<1>. QED  BY <1>1 DEF FileOrder, Files

\* What a prover may answer is an SP1 proof (Artifacts).
LEMMA ArtifactsAreProofs ==
    ASSUME NEW r \in Runs, NEW a \in Artifacts(r)  PROVE a \in Proofs
<1>1. CASE \E v \in BOOLEAN : a = [genuine |-> FALSE, valid |-> v]
  BY <1>1 DEF Proofs
<1>2. CASE a = [genuine |-> TRUE, valid |-> outcome(r, "true")]
  BY <1>2, OutcomeBoolean DEF Proofs
<1>. QED  BY <1>1, <1>2 DEF Artifacts


\* The initial states have their types; no run is past its script (Init).
LEMMA TypeInit == Init => IInv
<1>. SUFFICES ASSUME Init PROVE IInv
  OBVIOUS
<1>. USE DEF Init
<1>1. dirs \in [Dirs -> [Files -> Contents]]
  BY DEF Contents
<1>2. net \in [Runs -> Requests]
  BY DEF NoRequest, NoProof, Proofs, Requests
<1>3. artifact \in [Runs -> Proofs]
  BY DEF NoProof, Proofs
<1>. QED  BY <1>1, <1>2, <1>3 DEF IInv, Built, TypeOK, Steps, Reasons

\* A run under way goes on or ends, and touches at most its request, its SP1 proof, its
\* output and its exit reason: all that the steps after load_verifiable do.
LEMMA Moves ==
    ASSUME IInv, NEW r \in Runs, NEW next \in Steps,
           next \notin {"script", "build", "start"}, image[r] \in Names,
           pc' = [pc EXCEPT ![r] = next],
           why' = why \/ \E reason \in Reasons : why' = [why EXCEPT ![r] = reason],
           out' \in [Runs -> SUBSET {"locator", "verified"}],
           net' \in [Runs -> Requests],
           artifact' \in [Runs -> Proofs],
           UNCHANGED <<dirs, elf, args, image, loaded>>
    PROVE  IInv'
<1>. USE DEF IInv
<1>1. pc' \in [Runs -> Steps]
  BY DEF TypeOK
<1>2. why' \in [Runs -> Reasons]
  BY DEF TypeOK
<1>3. \A q \in Runs : pc'[q] \notin {"script", "build", "start", "failed"} => image[q] \in Names
  BY DEF TypeOK
<1>4. \A q \in Runs : pc'[q] = "start" => elf \in Names
  BY DEF TypeOK, Built
<1>. QED  BY <1>1, <1>2, <1>3, <1>4 DEF TypeOK, Built

\* A step of a run keeps the types (one case per action of Step).
LEMMA TypeStep ==
    ASSUME IInv, NEW r \in Runs, Step(r)  PROVE IInv'
<1>. USE DEF IInv
<1>. DEFINE early == {"script", "build", "start", "failed"}
<1>under. pc[r] \notin early => image[r] \in Names
  BY DEF TypeOK
<1>out. out \in [Runs -> SUBSET {"locator", "verified"}]
  BY DEF TypeOK
<1>net. net \in [Runs -> Requests]
  BY DEF TypeOK
<1>art. artifact \in [Runs -> Proofs]
  BY DEF TypeOK
<1>steps. /\ {"ok", "failed", "execute", "cpu", "cuda", "network", "locate", "wait",
              "verify", "report"} \subseteq Steps
          /\ Reasons = {"none", "script", "build", "read", "parse", "convert", "execution",
                        "assert", "prove", "verify", "submit", "network", "timeout"}
  BY DEF Steps, Reasons
<1>report. ASSUME NEW valid, Report(r, valid), pc[r] \notin early,
                  UNCHANGED <<dirs, elf, args, image, loaded, net, artifact>>
           PROVE  IInv'
  <2>1. CASE valid
    <3>1. out' \in [Runs -> SUBSET {"locator", "verified"}]
      BY <1>report, <2>1, <1>out DEF Report
    <3>. QED  BY <1>report, <2>1, <3>1, <1>under, <1>net, <1>art, <1>steps, Moves DEF Report, Goto
  <2>2. CASE ~valid
    BY <1>report, <2>2, <1>under, <1>out, <1>net, <1>art, <1>steps, Moves DEF Report, Fail
  <2>. QED  BY <2>1, <2>2
<1>1. CASE CheckFixture(r)
  BY <1>1 DEF CheckFixture, Goto, Fail, TypeOK, Built, Steps, Reasons
<1>2. CASE Build(r)
  BY <1>2 DEF Build, Goto, Fail, TypeOK, Built, Steps, Reasons
<1>3. CASE BuildIsFresh(r)
  BY <1>3 DEF BuildIsFresh, Goto, TypeOK, Built, Steps
<1>4. CASE Start(r)
  <2>1. elf \in Names
    BY <1>4 DEF Start, Built
  <2>. QED  BY <1>4, <2>1 DEF Start, Goto, TypeOK, Built, Steps
<1>5. CASE LoadFile(r)
  <2>. DEFINE content == dirs[args[r].dir][FileOrder[Len(loaded[r]) + 1]]
  <2>1. content \in Contents
    <3>1. args[r].dir \in Dirs
      <4>1. args[r] \in Args
        BY DEF TypeOK
      <4>. QED  BY <4>1, RunsAssumption DEF CommandLines
    <3>2. loaded[r] \in Seq(Names \cup {"broken"}) /\ Len(loaded[r]) < 4
      BY <1>5 DEF LoadFile, TypeOK
    <3>3. FileOrder[Len(loaded[r]) + 1] \in Files
      BY <3>2, LenProperties, FourFiles
    <3>. QED  BY <3>1, <3>3 DEF TypeOK
  <2>. HIDE DEF content
  <2>2. CASE content = "absent"
    BY <1>5, <2>2, <1>under, <1>out, <1>net, <1>art, <1>steps, Moves DEF LoadFile, Fail, content
  <2>3. CASE content # "absent"
    <3>1. content \in Names \cup {"broken"}
      BY <2>1, <2>3 DEF Contents
    <3>2. Append(loaded[r], content) \in Seq(Names \cup {"broken"})
      BY <3>1 DEF TypeOK
    <3>3. loaded' = [loaded EXCEPT ![r] = Append(loaded[r], content)]
      BY <1>5, <2>3 DEF LoadFile, content
    <3>4. loaded' \in [Runs -> Seq(Names \cup {"broken"})]
      BY <3>2, <3>3 DEF TypeOK
    <3>5. UNCHANGED <<dirs, elf, args, pc, image, net, artifact, out, why>>
      BY <1>5, <2>3 DEF LoadFile, content
    <3>. QED  BY <3>4, <3>5 DEF TypeOK, Built
  <2>. QED  BY <2>2, <2>3
<1>6. CASE Assemble(r)
  <2>1. args[r] \in Args
    BY DEF TypeOK
  <2>2. args[r].mode \in {"execute", "cpu", "cuda", "network"}
    BY <2>1, RunsAssumption DEF CommandLines
  <2>3. CASE Goto(r, args[r].mode) /\ UNCHANGED why
    BY <1>6, <2>2, <2>3, <1>under, <1>out, <1>net, <1>art, <1>steps, Moves DEF Assemble, Goto
  <2>4. CASE Fail(r, "parse") \/ Fail(r, "convert")
    BY <1>6, <2>4, <1>under, <1>out, <1>net, <1>art, <1>steps, Moves DEF Assemble, Fail
  <2>. QED  BY <1>6, <2>3, <2>4 DEF Assemble
<1>7. CASE RunExecute(r)
  <2>1. CASE Fail(r, "execution") /\ UNCHANGED out
    BY <1>7, <2>1, <1>under, <1>out, <1>net, <1>art, <1>steps, Moves DEF RunExecute, Fail
  <2>2. CASE Report(r, outcome(r, "true"))
    BY <1>7, <2>2, <1>report DEF RunExecute
  <2>. QED  BY <1>7, <2>1, <2>2 DEF RunExecute
<1>8. CASE Prove(r)
  <2>1. CASE Fail(r, "prove") /\ UNCHANGED artifact
    BY <1>8, <2>1, <1>under, <1>out, <1>net, <1>art, <1>steps, Moves DEF Prove, Fail
  <2>2. ASSUME NEW a \in Artifacts(r), artifact' = [artifact EXCEPT ![r] = a],
               Goto(r, "verify"), UNCHANGED why
        PROVE  IInv'
    <3>1. artifact' \in [Runs -> Proofs]
      BY <2>2, <1>art, ArtifactsAreProofs
    <3>. QED  BY <1>8, <2>2, <3>1, <1>under, <1>out, <1>net, <1>steps, Moves DEF Prove, Goto
  <2>. QED  BY <1>8, <2>1, <2>2 DEF Prove
<1>9. CASE VerifyProof(r)
  <2>1. CASE Goto(r, "report") /\ UNCHANGED why
    BY <1>9, <2>1, <1>under, <1>out, <1>net, <1>art, <1>steps, Moves DEF VerifyProof, Goto
  <2>2. CASE Fail(r, "verify")
    BY <1>9, <2>2, <1>under, <1>out, <1>net, <1>art, <1>steps, Moves DEF VerifyProof, Fail
  <2>. QED  BY <1>9, <2>1, <2>2 DEF VerifyProof
<1>10. CASE ReportProof(r)
  BY <1>10, <1>report DEF ReportProof
<1>11. CASE Request(r)
  <2>1. net' \in [Runs -> Requests]
    <3>1. Pending \in Requests
      BY DEF Pending, NoProof, Requests, Proofs
    <3>2. net' = net \/ net' = [net EXCEPT ![r] = Pending]
      BY <1>11 DEF Request
    <3>. QED  BY <3>1, <3>2, <1>net
  <2>2. CASE Fail(r, "submit")
    BY <1>11, <2>1, <2>2, <1>under, <1>out, <1>art, <1>steps, Moves DEF Request, Fail
  <2>3. CASE Submitted(r) /\ UNCHANGED why
    BY <1>11, <2>1, <2>3, <1>under, <1>out, <1>art, <1>steps, Moves
    DEF Request, Submitted, Goto
  <2>. QED  BY <1>11, <2>2, <2>3 DEF Request
<1>12. CASE PrintLocator(r)
  <2>1. out' \in [Runs -> SUBSET {"locator", "verified"}]
    BY <1>12, <1>out DEF PrintLocator
  <2>. QED  BY <1>12, <2>1, <1>under, <1>net, <1>art, <1>steps, Moves DEF PrintLocator, Goto
<1>13. CASE WaitProof(r)
  <2>1. CASE Goto(r, "verify") /\ UNCHANGED why /\ artifact' = [artifact EXCEPT ![r] = net[r].answer]
    <3>1. artifact' \in [Runs -> Proofs]
      BY <2>1, <1>art, <1>net DEF Requests
    <3>. QED  BY <1>13, <2>1, <3>1, <1>under, <1>out, <1>net, <1>steps, Moves DEF WaitProof, Goto
  <2>2. CASE Fail(r, "network") /\ UNCHANGED artifact
    BY <1>13, <2>2, <1>under, <1>out, <1>net, <1>art, <1>steps, Moves DEF WaitProof, Fail
  <2>. QED  BY <1>13, <2>1, <2>2 DEF WaitProof
<1>14. CASE WaitTimesOut(r)
  BY <1>14, <1>under, <1>out, <1>net, <1>art, <1>steps, Moves DEF WaitTimesOut, Fail
<1>. QED
  BY <1>1, <1>2, <1>3, <1>4, <1>5, <1>6, <1>7, <1>8, <1>9, <1>10, <1>11, <1>12, <1>13, <1>14
  DEF Step

\* The environment keeps the types (NetworkAnswers, DumpOpens, DumpWrites).
LEMMA TypeEnvironment ==
    ASSUME IInv,
           \/ \E r \in Runs : NetworkAnswers(r)
           \/ \E d \in Dirs, f \in Files : DumpOpens(d, f) \/ DumpWrites(d, f)
           \/ UNCHANGED vars
    PROVE  IInv'
<1>. USE DEF IInv
<1>1. ASSUME NEW r \in Runs, NetworkAnswers(r)  PROVE IInv'
  <2>1. net[r] \in Requests
    BY DEF TypeOK
  <2>2. ASSUME NEW a \in Artifacts(r),
               net' = [net EXCEPT ![r] = [state |-> "fulfilled", answer |-> a]]
        PROVE  net' \in [Runs -> Requests]
    <3>1. [state |-> "fulfilled", answer |-> a] \in Requests
      BY ArtifactsAreProofs DEF Requests
    <3>. QED  BY <2>2, <3>1 DEF TypeOK
  <2>3. ASSUME net' = [net EXCEPT ![r].state = "unfulfillable"]
        PROVE  net' \in [Runs -> Requests]
    <3>1. [net[r] EXCEPT !.state = "unfulfillable"] \in Requests
      BY <2>1 DEF Requests
    <3>. QED  BY <2>3, <3>1 DEF TypeOK
  <2>4. net' \in [Runs -> Requests]
    BY <1>1, <2>2, <2>3 DEF NetworkAnswers
  <2>. QED  BY <1>1, <2>4 DEF NetworkAnswers, TypeOK, Built
<1>2. ASSUME NEW d \in Dirs, NEW f \in Files, DumpOpens(d, f) \/ DumpWrites(d, f)  PROVE IInv'
  <2>1. \E c \in Contents : dirs' = [dirs EXCEPT ![d][f] = c]
    BY <1>2, RunsAssumption DEF DumpOpens, DumpWrites, Contents
  <2>2. dirs' \in [Dirs -> [Files -> Contents]]
    BY <2>1 DEF TypeOK
  <2>. QED  BY <1>2, <2>2 DEF DumpOpens, DumpWrites, TypeOK, Built
<1>3. CASE UNCHANGED vars
  BY <1>3 DEF vars, TypeOK, Built
<1>. QED  BY <1>1, <1>2, <1>3

\* Every step keeps the inductive invariant (Next).
LEMMA TypeNext == IInv /\ [Next]_vars => IInv'
<1>. SUFFICES ASSUME IInv, [Next]_vars PROVE IInv'
  OBVIOUS
<1>. QED  BY TypeStep, TypeEnvironment DEF Next, Idle

\* However many runs share the checkout, and whatever the dump tools and the network do,
\* every run stays within its types and no run executes a binary that was never built
\* (the whole of O1zkvm).
THEOREM TypeCorrect == Spec => []TypeOK
<1>1. Init => IInv
  BY TypeInit
<1>2. IInv /\ [Next]_vars => IInv'
  BY TypeNext
<1>3. IInv => TypeOK
  BY DEF IInv
<1>. QED  BY <1>1, <1>2, <1>3, PTL DEF Spec

-----------------------------------------------------------------------------
\* A run whose request is at the network has yet to print the locator, has been told that
\* the submission failed, or has printed it.
LocatorOf(r) ==
    net[r].state # "none" =>
        \/ pc[r] = "locate"
        \/ pc[r] = "failed" /\ why[r] = "submit"
        \/ "locator" \in out[r] /\ pc[r] \in {"wait", "verify", "report", "ok", "failed"}

\* A run that waits has printed the locator (print_request_locator comes before wait_proof).
Located == \A r \in Runs : LocatorOf(r) /\ (pc[r] = "wait" => "locator" \in out[r])

\* What the steps of one run do not touch stays as it was for the others.
LEMMA LocatedStep ==
    ASSUME IInv, Located, NEW r \in Runs, Step(r)  PROVE Located'
<1>. USE DEF Goto, Fail
<1>1. \A q \in Runs \ {r} : /\ pc'[q] = pc[q] /\ net'[q] = net[q]
                            /\ out'[q] = out[q] /\ why'[q] = why[q]
  BY DEF IInv, TypeOK, Step, CheckFixture, Build, BuildIsFresh, Start, LoadFile, Assemble,
         RunExecute, Prove, VerifyProof, ReportProof, Report, Request, Submitted,
         PrintLocator, WaitProof, WaitTimesOut
<1>2. LocatorOf(r)' /\ (pc'[r] = "wait" => "locator" \in out'[r])
  <2>. USE DEF IInv, TypeOK, Located, LocatorOf
  <2>1. CASE CheckFixture(r) \/ Build(r) \/ BuildIsFresh(r) \/ Start(r)
    BY <2>1 DEF CheckFixture, Build, BuildIsFresh, Start
  <2>2. CASE LoadFile(r)
    BY <2>2 DEF LoadFile
  <2>3. CASE Assemble(r)
    <3>1. args[r] \in Args
      OBVIOUS
    <3>2. args[r].mode # "wait"
      BY <3>1, RunsAssumption DEF CommandLines
    <3>. QED  BY <2>3, <3>2 DEF Assemble
  <2>4. CASE RunExecute(r)
    BY <2>4 DEF RunExecute, Report
  <2>5. CASE Prove(r)
    BY <2>5 DEF Prove
  <2>6. CASE VerifyProof(r)
    BY <2>6 DEF VerifyProof
  <2>7. CASE ReportProof(r)
    BY <2>7 DEF ReportProof, Report
  <2>8. CASE Request(r)
    BY <2>8 DEF Request, Submitted
  <2>9. CASE PrintLocator(r)
    BY <2>9 DEF PrintLocator
  <2>10. CASE WaitProof(r)
    BY <2>10 DEF WaitProof
  <2>11. CASE WaitTimesOut(r)
    BY <2>11 DEF WaitTimesOut
  <2>. QED  BY <2>1, <2>2, <2>3, <2>4, <2>5, <2>6, <2>7, <2>8, <2>9, <2>10, <2>11 DEF Step
<1>. QED  BY <1>1, <1>2 DEF Located, LocatorOf

\* An answer of the network comes to a request that is there (NetworkAnswers).
LEMMA LocatedNext == IInv /\ Located /\ [Next]_vars => Located'
<1>. SUFFICES ASSUME IInv, Located, [Next]_vars PROVE Located'
  OBVIOUS
<1>1. ASSUME NEW r \in Runs, Step(r)  PROVE Located'
  BY <1>1, LocatedStep
<1>2. ASSUME NEW r \in Runs, NetworkAnswers(r)  PROVE Located'
  <2>1. net[r].state # "none" /\ UNCHANGED <<pc, out, why>>
    BY <1>2 DEF NetworkAnswers
  <2>2. \A q \in Runs \ {r} : net'[q] = net[q]
    BY <1>2 DEF NetworkAnswers, IInv, TypeOK
  <2>. QED  BY <2>1, <2>2 DEF Located, LocatorOf
<1>3. CASE UNCHANGED <<pc, net, out, why>>
  BY <1>3 DEF Located, LocatorOf
<1>. QED  BY <1>1, <1>2, <1>3 DEF Next, DumpOpens, DumpWrites, Idle, vars

\* No request is lost: whenever a run has ended with a request at the network, the operator
\* has its locator, unless the submission was reported as failed (run_network).
THEOREM OrphansAlwaysLocated == Spec => []OrphansAreLocated
<1>1. Init => IInv /\ Located
  <2>1. Init => Located
    BY DEF Init, Located, LocatorOf, NoRequest
  <2>. QED  BY <2>1, TypeInit
<1>2. IInv /\ Located /\ [Next]_vars => IInv' /\ Located'
  BY TypeNext, LocatedNext
<1>3. IInv /\ Located => OrphansAreLocated
  BY DEF Located, LocatorOf, OrphansAreLocated
<1>. QED  BY <1>1, <1>2, <1>3, PTL DEF Spec

-----------------------------------------------------------------------------
\* A genuine SP1 proof has exactly the value the guest committed.
Honest(r, a) == a.genuine => (a.valid <=> outcome(r, "true"))

\* The proof a run holds and the answer to its request are of the run's own binary and input,
\* and only a proof that passed client.verify is reported.
TrustedBy(r) ==
    /\ pc[r] \in {"script", "build", "start", "load"} =>
         ~artifact[r].genuine /\ ~net[r].answer.genuine /\ net[r].state = "none"
    /\ pc[r] \in {"execute", "cpu", "cuda", "network"} => net[r].state = "none"
    /\ Honest(r, artifact[r]) /\ Honest(r, net[r].answer)
    /\ pc[r] = "report" => artifact[r].genuine
    /\ "verified" \in out[r] => pc[r] = "ok" /\ outcome(r, "true")

Trusted == \A r \in Runs : TrustedBy(r)

\* "Pickles proof verified successfully" is printed only by a run that is through, and only if
\* the guest in the binary the run executes accepts the very files the run has read: no
\* prover's word is taken for it, and neither another run's rebuild of target/ nor a dump
\* that has meanwhile changed the directory comes into it (report_proof, run_network).
SuccessIsTheGuests ==
    \A r \in Runs : "verified" \in out[r] => pc[r] = "ok" /\ outcome(r, "true")

\* Of the proofs a prover may answer the genuine ones are honest (Artifacts).
LEMMA ArtifactsAreHonest ==
    ASSUME NEW r \in Runs, NEW a \in Artifacts(r)  PROVE Honest(r, a)
<1>1. CASE \E v \in BOOLEAN : a = [genuine |-> FALSE, valid |-> v]
  BY <1>1 DEF Honest
<1>2. CASE a = [genuine |-> TRUE, valid |-> outcome(r, "true")]
  BY <1>2 DEF Honest
<1>. QED  BY <1>1, <1>2 DEF Artifacts

\* A step of a run keeps its own trust (one case per group of actions of Step).
LEMMA TrustedOwnStep ==
    ASSUME IInv, NEW r \in Runs, TrustedBy(r), Step(r)  PROVE TrustedBy(r)'
<1>. USE DEF TrustedBy, Goto, Fail
<1>1. /\ r \in DOMAIN pc /\ r \in DOMAIN net /\ r \in DOMAIN artifact
      /\ r \in DOMAIN out /\ r \in DOMAIN image /\ r \in DOMAIN loaded
  BY DEF IInv, TypeOK
<1>2. CASE CheckFixture(r) \/ Build(r) \/ BuildIsFresh(r)
  BY <1>1, <1>2 DEF CheckFixture, Build, BuildIsFresh, Honest, outcome
<1>3. CASE Start(r) \/ LoadFile(r)
  BY <1>1, <1>3 DEF Start, LoadFile, Honest
<1>4. CASE Assemble(r)
  <2>1. args[r] \in Args
    BY DEF IInv, TypeOK
  <2>2. args[r].mode \in {"execute", "cpu", "cuda", "network"}
    BY <2>1, RunsAssumption DEF CommandLines
  <2>. QED  BY <1>1, <1>4, <2>2 DEF Assemble, Honest, outcome
<1>5. CASE RunExecute(r)
  BY <1>1, <1>5 DEF RunExecute, Report, Honest, outcome
<1>6. CASE Prove(r)
  <2>1. UNCHANGED <<image, loaded, net, out>> /\ pc'[r] \in {"failed", "verify"}
    BY <1>1, <1>6 DEF Prove
  <2>2. artifact'[r] = artifact[r] \/ artifact'[r] \in Artifacts(r)
    BY <1>1, <1>6 DEF Prove
  <2>3. Honest(r, artifact'[r])
    BY <2>2, ArtifactsAreHonest
  <2>4. "verified" \notin out[r]
    BY <1>6 DEF Prove
  <2>. QED  BY <2>1, <2>3, <2>4 DEF Honest, outcome
<1>7. CASE VerifyProof(r)
  BY <1>1, <1>7 DEF VerifyProof, Honest, outcome
<1>8. CASE ReportProof(r)
  BY <1>1, <1>8 DEF ReportProof, Report, Honest, outcome
<1>9. CASE Request(r)
  <2>1. UNCHANGED <<image, loaded, artifact, out>> /\ pc'[r] \in {"failed", "locate"}
    BY <1>1, <1>9 DEF Request, Submitted
  <2>2. net'[r] = net[r] \/ net'[r] = Pending
    BY <1>1, <1>9 DEF Request
  <2>3. Honest(r, net'[r].answer)
    BY <2>2 DEF Honest, Pending, NoProof
  <2>4. "verified" \notin out[r]
    BY <1>9 DEF Request
  <2>. QED  BY <2>1, <2>3, <2>4 DEF Honest, outcome
<1>10. CASE PrintLocator(r)
  BY <1>1, <1>10 DEF PrintLocator, Honest, outcome
<1>11. CASE WaitProof(r)
  BY <1>1, <1>11 DEF WaitProof, Honest, outcome
<1>12. CASE WaitTimesOut(r)
  BY <1>1, <1>12 DEF WaitTimesOut, Honest, outcome
<1>. QED
  BY <1>2, <1>3, <1>4, <1>5, <1>6, <1>7, <1>8, <1>9, <1>10, <1>11, <1>12 DEF Step

\* A step of one run changes nothing another run's report rests on: each has its own image,
\* files, request and SP1 proof (Build writes the shared target/, not a running image).
LEMMA TrustedOtherStep ==
    ASSUME IInv, NEW r \in Runs, Step(r), NEW q \in Runs \ {r}, TrustedBy(q)
    PROVE  TrustedBy(q)'
<1>1. /\ pc'[q] = pc[q] /\ net'[q] = net[q] /\ out'[q] = out[q]
      /\ artifact'[q] = artifact[q] /\ image'[q] = image[q] /\ loaded'[q] = loaded[q]
  BY DEF IInv, TypeOK, Goto, Fail, Step, CheckFixture, Build, BuildIsFresh, Start, LoadFile,
         Assemble, RunExecute, Prove, VerifyProof, ReportProof, Report, Request, Submitted,
         PrintLocator, WaitProof, WaitTimesOut
<1>. QED  BY <1>1 DEF TrustedBy, Honest, outcome

\* Neither an answer of the network, however late, nor a dump breaks trust (Next).
LEMMA TrustedNext == IInv /\ Trusted /\ [Next]_vars => Trusted'
<1>. SUFFICES ASSUME IInv, Trusted, [Next]_vars PROVE Trusted'
  OBVIOUS
<1>1. ASSUME NEW r \in Runs, Step(r)  PROVE Trusted'
  BY <1>1, TrustedOwnStep, TrustedOtherStep DEF Trusted
<1>2. ASSUME NEW r \in Runs, NetworkAnswers(r)  PROVE Trusted'
  <2>1. net[r].state = "pending" /\ UNCHANGED <<pc, out, artifact, image, loaded>>
    BY <1>2 DEF NetworkAnswers
  <2>2. \A q \in Runs \ {r} : net'[q] = net[q]
    BY <1>2 DEF NetworkAnswers, IInv, TypeOK
  <2>3. net[r] \in Requests /\ r \in DOMAIN net
    BY DEF IInv, TypeOK
  <2>4. Honest(r, net'[r].answer)
    <3>1. net'[r].answer = net[r].answer \/ net'[r].answer \in Artifacts(r)
      BY <1>2, <2>3 DEF NetworkAnswers, Requests
    <3>. QED  BY <3>1, ArtifactsAreHonest DEF Trusted, TrustedBy
  <2>5. TrustedBy(r)'
    BY <2>1, <2>4 DEF Trusted, TrustedBy, Honest, outcome
  <2>6. \A q \in Runs \ {r} : TrustedBy(q)'
    BY <2>1, <2>2 DEF Trusted, TrustedBy, Honest, outcome
  <2>. QED  BY <2>5, <2>6 DEF Trusted
<1>3. CASE UNCHANGED <<pc, net, out, artifact, image, loaded>>
  BY <1>3 DEF Trusted, TrustedBy, Honest, outcome
<1>. QED  BY <1>1, <1>2, <1>3 DEF Next, DumpOpens, DumpWrites, Idle, vars

\* Success is printed only for what the guest in the run's own binary says of the run's own
\* files (report_proof, run_network, run_execute).
THEOREM SuccessAlwaysTheGuests == Spec => []SuccessIsTheGuests
<1>1. Init => IInv /\ Trusted
  <2>1. Init => Trusted
    BY DEF Init, Trusted, TrustedBy, Honest, NoRequest, NoProof
  <2>. QED  BY <2>1, TypeInit
<1>2. IInv /\ Trusted /\ [Next]_vars => IInv' /\ Trusted'
  BY TypeNext, TrustedNext
<1>3. IInv /\ Trusted => SuccessIsTheGuests
  BY DEF Trusted, TrustedBy, SuccessIsTheGuests
<1>. QED  BY <1>1, <1>2, <1>3, PTL DEF Spec

-----------------------------------------------------------------------------
\* How far a run has read: nothing before it is started, all four files once it is past
\* load_verifiable, and a run with four files executes a binary that was built.  The locator
\* is of a request, and is printed once.
ReadingBy(r) ==
    /\ Len(loaded[r]) <= 4
    /\ pc[r] \in {"script", "build", "start"} => loaded[r] = <<>>
    /\ pc[r] \notin {"script", "build", "start", "load", "failed"} => Len(loaded[r]) = 4
    /\ Len(loaded[r]) = 4 => image[r] \in Names
    /\ "locator" \in out[r] => net[r].state # "none"
    /\ pc[r] = "locate" => net[r].state # "none" /\ "locator" \notin out[r]

Reading == \A r \in Runs : ReadingBy(r)

\* A run moves on without reading: every step but Start, LoadFile, Request and PrintLocator.
LEMMA ReadingMoves ==
    ASSUME IInv, NEW r \in Runs, ReadingBy(r),
           pc'[r] \notin {"script", "locate"},
           pc'[r] \in {"build", "start"} => pc[r] \in {"script", "build"},
           pc'[r] = "load" => pc[r] = "load",
           pc'[r] # "failed" /\ pc[r] \in {"script", "build", "start"} =>
              pc'[r] \in {"build", "start"},
           pc[r] # "failed",
           pc[r] = "load" /\ pc'[r] \notin {"load", "failed"} => Len(loaded[r]) = 4,
           net'[r].state = net[r].state,
           out'[r] = out[r] \/ out'[r] = out[r] \cup {"verified"},
           UNCHANGED <<image, loaded>>
    PROVE  ReadingBy(r)'
  BY DEF ReadingBy

\* A step of a run keeps what it has read (one case per group of actions of Step).
LEMMA ReadingOwnStep ==
    ASSUME IInv, Trusted, NEW r \in Runs, ReadingBy(r), Step(r)  PROVE ReadingBy(r)'
<1>. USE DEF Goto, Fail
<1>1. /\ r \in DOMAIN pc /\ r \in DOMAIN net /\ r \in DOMAIN artifact
      /\ r \in DOMAIN out /\ r \in DOMAIN image /\ r \in DOMAIN loaded
  BY DEF IInv, TypeOK
<1>2. CASE CheckFixture(r) \/ Build(r) \/ BuildIsFresh(r)
  BY <1>1, <1>2, ReadingMoves DEF CheckFixture, Build, BuildIsFresh
<1>3. CASE Start(r)
  <2>1. Len(loaded[r]) = 0
    BY <1>3 DEF Start, ReadingBy
  <2>. QED  BY <1>1, <1>3, <2>1 DEF Start, ReadingBy
<1>4. CASE LoadFile(r)
  <2>1. loaded[r] \in Seq(Names \cup {"broken"}) /\ image[r] \in Names
    BY <1>4 DEF IInv, TypeOK, LoadFile
  <2>2. CASE loaded' = loaded /\ pc'[r] = "failed"
    BY <1>1, <1>4, <2>2 DEF LoadFile, ReadingBy
  <2>3. ASSUME NEW c, loaded'[r] = Append(loaded[r], c), UNCHANGED pc
        PROVE  ReadingBy(r)'
    <3>1. Len(loaded'[r]) = Len(loaded[r]) + 1 /\ Len(loaded[r]) \in Nat
      BY <2>1, <2>3
    <3>. QED  BY <1>4, <2>1, <2>3, <3>1 DEF LoadFile, ReadingBy
  <2>. QED  BY <1>1, <1>4, <2>2, <2>3 DEF LoadFile
<1>5. CASE Assemble(r)
  <2>1. args[r] \in Args
    BY DEF IInv, TypeOK
  <2>2. args[r].mode \in {"execute", "cpu", "cuda", "network"}
    BY <2>1, RunsAssumption DEF CommandLines
  <2>. QED  BY <1>1, <1>5, <2>2, ReadingMoves DEF Assemble
<1>6. CASE RunExecute(r) \/ ReportProof(r)
  BY <1>1, <1>6, ReadingMoves DEF RunExecute, ReportProof, Report
<1>7. CASE Prove(r) \/ VerifyProof(r)
  BY <1>1, <1>7, ReadingMoves DEF Prove, VerifyProof
<1>8. CASE Request(r)
  <2>1. net[r].state = "none"
    BY <1>8 DEF Request, Trusted, TrustedBy
  <2>2. /\ UNCHANGED <<image, loaded, out>> /\ pc'[r] \in {"failed", "locate"}
        /\ pc'[r] = "locate" => net'[r].state # "none"
    BY <1>1, <1>8 DEF Request, Submitted, Pending
  <2>. QED  BY <1>8, <2>1, <2>2 DEF Request, ReadingBy
<1>9. CASE PrintLocator(r)
  BY <1>1, <1>9 DEF PrintLocator, ReadingBy
<1>10. CASE WaitProof(r) \/ WaitTimesOut(r)
  BY <1>1, <1>10, ReadingMoves DEF WaitProof, WaitTimesOut
<1>. QED
  BY <1>2, <1>3, <1>4, <1>5, <1>6, <1>7, <1>8, <1>9, <1>10 DEF Step

\* A step of one run leaves the state of the others alone: they share target/ and the
\* directories only (one case for all the actions of Step).
LEMMA OthersKeep ==
    ASSUME IInv, NEW r \in Runs, Step(r), NEW q \in Runs \ {r}
    PROVE  /\ pc'[q] = pc[q] /\ net'[q] = net[q] /\ out'[q] = out[q]
           /\ image'[q] = image[q] /\ loaded'[q] = loaded[q]
  BY DEF IInv, TypeOK, Goto, Fail, Step, CheckFixture, Build, BuildIsFresh, Start, LoadFile,
         Assemble, RunExecute, Prove, VerifyProof, ReportProof, Report, Request, Submitted,
         PrintLocator, WaitProof, WaitTimesOut

\* An answer of the network is to a request that was sent, and changes nothing else; the
\* dump tools change the directories only.
LEMMA EnvironmentKeeps ==
    ASSUME IInv,
           \/ \E r \in Runs : NetworkAnswers(r)
           \/ \E d \in Dirs, f \in Files : DumpOpens(d, f) \/ DumpWrites(d, f)
           \/ UNCHANGED vars
    PROVE  /\ UNCHANGED <<args, pc, out, image, loaded>>
           /\ \A q \in Runs : net'[q].state = "none" <=> net[q].state = "none"
<1>1. ASSUME NEW r \in Runs, NetworkAnswers(r)
      PROVE  /\ UNCHANGED <<args, pc, out, image, loaded>>
             /\ \A q \in Runs : net'[q].state = "none" <=> net[q].state = "none"
  <2>1. r \in DOMAIN net /\ net[r] \in Requests
    BY DEF IInv, TypeOK
  <2>2. \A q \in Runs \ {r} : net'[q] = net[q]
    BY <1>1 DEF NetworkAnswers, IInv, TypeOK
  <2>3. net'[r].state \in {"fulfilled", "unfulfillable"} /\ net[r].state = "pending"
    BY <1>1, <2>1 DEF NetworkAnswers, Requests
  <2>. QED  BY <1>1, <2>2, <2>3 DEF NetworkAnswers
<1>2. CASE UNCHANGED <<args, pc, net, out, image, loaded>>
  BY <1>2
<1>. QED  BY <1>1, <1>2 DEF DumpOpens, DumpWrites, vars

\* Every step keeps what the runs have read (Next).
LEMMA ReadingNext == IInv /\ Trusted /\ Reading /\ [Next]_vars => Reading'
<1>. SUFFICES ASSUME IInv, Trusted, Reading, [Next]_vars PROVE Reading'
  OBVIOUS
<1>1. ASSUME NEW r \in Runs, Step(r)  PROVE Reading'
  <2>1. ReadingBy(r)'
    BY <1>1, ReadingOwnStep DEF Reading
  <2>2. \A q \in Runs \ {r} : ReadingBy(q)'
    BY <1>1, OthersKeep DEF Reading, ReadingBy
  <2>. QED  BY <2>1, <2>2 DEF Reading
<1>2. CASE \/ \E r \in Runs : NetworkAnswers(r)
           \/ \E d \in Dirs, f \in Files : DumpOpens(d, f) \/ DumpWrites(d, f)
           \/ UNCHANGED vars
  BY <1>2, EnvironmentKeeps DEF Reading, ReadingBy
<1>. QED  BY <1>1, <1>2 DEF Next, Idle

-----------------------------------------------------------------------------
\* A table has one verdict for each binary and input (outcomes).
LEMMA OutcomeIs ==
    ASSUME NEW r, NEW v
    PROVE  outcome(r, v) <=>
             image[r] \in Names /\ loaded[r] \in Texts /\ v = guest(image[r], loaded[r])
  BY DEF outcome, outcomes

\* Whatever genuine files a run has read, they convert (into_verifiable).
LEMMA ReadConverts ==
    ASSUME NEW l \in Texts
    PROVE  LET f == read(l) IN
           /\ converted(l) = verifiable(f) /\ f.proof = WrapProof(Bundles[l[2]])
           /\ IsKey(f.vk) /\ IsSkeleton(f.skeleton) /\ converts(f)
<1>. DEFINE f == read(l)
            b == Bundles[l[3]]
            k == Bundles[l[1]]
<1>1. /\ f.vk = k.vk /\ f.proof = WrapProof(Bundles[l[2]])
      /\ f.skeleton = Skeleton(b) /\ f.stmt = Bundles[l[4]].stmt
  BY DEF read
<1>2. converted(l) = verifiable(f)
  BY <1>1, Zenon DEF converted, verifiable
<1>3. IsInstance(b) /\ IsInstance(k)
  BY BundlesAssumption DEF Texts
<1>. HIDE DEF f, b, k
<1>4. IsKey(k.vk) /\ vk_has_chunks(k.vk)
  BY <1>3, InstanceKey
<1>5. IsSkeleton(Skeleton(b)) /\ parses(Skeleton(b))
  BY <1>3, InstanceSkeleton
<1>6. Len(Skeleton(b).prev_wrap_chals) <= 2
  BY <1>3, InstanceWraps DEF IsWrapVectors
<1>7. converts(f)
  BY <1>1, <1>4, <1>5, <1>6 DEF converts
<1>. QED  BY <1>1, <1>2, <1>4, <1>5, <1>7 DEF f

\* The guest's verdict on genuine files (the guest's main, verify).
LEMMA GuestPasses ==
    ASSUME NEW baked \in Names, NEW l \in Texts
    PROVE  guest(baked, l) = "true"
             <=> passes(verifier_of(Bundles[baked].vk), verifiable(read(l)).value)
<1>. DEFINE f == read(l)
            v == verifier_of(Bundles[baked].vk)
<1>1. converted(l) = verifiable(f) /\ IsSkeleton(f.skeleton) /\ converts(f)
  BY ReadConverts
<1>2. guest(baked, l) = IF converted(l).ok THEN verify(v, converted(l).value) ELSE "unconvertible"
  BY DEF guest, verifier_of
<1>. HIDE DEF f, v
<1>3. verifiable(f).ok
  BY <1>1, Converted
<1>4. guest(baked, l) = verify(v, verifiable(f).value)
  BY <1>1, <1>2, <1>3
<1>. QED  BY <1>4, SinglePasses DEF f, v

\* The guest accepts only the four files of the bundle whose wrap proof it was given, and only
\* for that bundle's key (verify).
LEMMA AcceptedIsOneFixture ==
    ASSUME NEW baked \in Names, NEW l \in Texts, guest(baked, l) = "true"
    PROVE  /\ l[2] \in Names /\ read(l) = Fixture(Bundles[l[2]])
           /\ Bundles[baked].vk = Bundles[l[2]].vk
<1>. DEFINE f == read(l)
            a == Bundles[l[2]]
            b == Bundles[l[3]]
            k == Bundles[l[1]]
            key == Bundles[baked].vk
<1>0. l[1] \in Names /\ l[2] \in Names /\ l[3] \in Names
  BY DEF Texts
<1>1. IsInstance(a) /\ IsInstance(b) /\ IsInstance(k)
  BY <1>0, BundlesAssumption
<1>2. f = [vk |-> k.vk, proof |-> WrapProof(a), skeleton |-> Skeleton(b), stmt |-> Bundles[l[4]].stmt]
  BY DEF read
<1>3. IsKey(f.vk) /\ IsSkeleton(f.skeleton) /\ converts(f)
  BY ReadConverts
<1>4. passes(verifier_of(key), verifiable(f).value)
  BY GuestPasses
<1>5. \A m, n \in Names : first_points(Bundles[m].vk) = first_points(Bundles[n].vk)
                            => Bundles[m].vk = Bundles[n].vk
  BY BundlesAssumption
<1>6. first_points(k.vk) = first_points(a.vk) => k.vk = a.vk
  BY <1>0, <1>5
<1>. HIDE DEF f, a, b, k, key
<1>7. key = a.vk /\ Matches(f, a)
  <2>1. f.proof = WrapProof(a)
    BY <1>2
  <2>. QED  BY <1>1, <1>3, <1>4, <2>1, PassesExactlyMatches
<1>8. f.skeleton = Skeleton(a)
  <2>1. f.skeleton = Skeleton(b)
    BY <1>2
  <2>. QED  BY <1>1, <1>7, <2>1, GenuineSkeletons
<1>9. f.vk = a.vk /\ f.stmt = a.stmt
  <2>1. first_chunks(f.vk) = first_chunks(a.vk) /\ f.stmt = a.stmt
    BY <1>7 DEF Matches
  <2>2. f.vk = k.vk
    BY <1>2
  <2>3. first_points(k.vk) = first_points(a.vk)
    BY <2>1, <2>2 DEF first_chunks, first_points
  <2>. QED  BY <1>6, <2>1, <2>2, <2>3
<1>10. f = Fixture(a)
  BY <1>2, <1>8, <1>9 DEF Fixture
<1>. QED  BY <1>0, <1>7, <1>10 DEF f, a, key

\* The guest accepts the four files of a bundle under that bundle's key (verify).
LEMMA OneFixtureIsAccepted ==
    ASSUME NEW baked \in Names, NEW l \in Texts, NEW n \in Names,
           read(l) = Fixture(Bundles[n]), Bundles[baked].vk = Bundles[n].vk
    PROVE  guest(baked, l) = "true"
<1>. DEFINE f == read(l)
            a == Bundles[n]
            key == Bundles[baked].vk
<1>1. IsInstance(a) /\ f = Fixture(a) /\ key = a.vk
  BY BundlesAssumption
<1>2. guest(baked, l) = "true" <=> passes(verifier_of(key), verifiable(f).value)
  BY GuestPasses
<1>. HIDE DEF f, a, key
<1>3. f.proof = WrapProof(a)
  BY <1>1 DEF Fixture
<1>4. IsKey(f.vk) /\ IsSkeleton(f.skeleton) /\ converts(f) /\ Matches(f, a)
  BY <1>1, FixtureMatches
<1>5. passes(verifier_of(key), verifiable(f).value)
  BY <1>1, <1>3, <1>4, PassesExactlyMatches
<1>. QED  BY <1>2, <1>5

\* The table of fixtures says which texts are one (one_fixture).
LEMMA TableOfFixtures ==
    ASSUME NEW n \in Names, NEW l \in Texts
    PROVE  <<n, l>> \in one_fixture <=> read(l) = Fixture(Bundles[n])
  BY DEF one_fixture

\* A run's binary accepts its files exactly when they are one fixture of the binary's key
\* (verify, load_verifiable).
LEMMA ConsistentIsAccepted ==
    ASSUME NEW r, image[r] \in Names
    PROVE  outcome(r, "true") <=> Consistent(r)
<1>1. ASSUME outcome(r, "true")  PROVE Consistent(r)
  <2>. DEFINE l == loaded[r]
  <2>1. l \in Texts /\ guest(image[r], l) = "true"
    BY <1>1, OutcomeIs
  <2>2. /\ l[2] \in Names /\ read(l) = Fixture(Bundles[l[2]])
        /\ Bundles[image[r]].vk = Bundles[l[2]].vk
    BY <2>1, AcceptedIsOneFixture
  <2>3. <<l[2], l>> \in one_fixture
    BY <2>1, <2>2, TableOfFixtures
  <2>. QED  BY <2>1, <2>2, <2>3 DEF Consistent
<1>2. ASSUME Consistent(r)  PROVE outcome(r, "true")
  <2>. DEFINE l == loaded[r]
  <2>1. PICK n \in Names : <<n, l>> \in one_fixture /\ Bundles[image[r]].vk = Bundles[n].vk
    BY <1>2 DEF Consistent
  <2>2. l \in Texts
    BY <1>2 DEF Consistent
  <2>3. read(l) = Fixture(Bundles[n])
    BY <2>1, <2>2, TableOfFixtures
  <2>4. guest(image[r], l) = "true"
    BY <2>1, <2>2, <2>3, OneFixtureIsAccepted
  <2>. QED  BY <2>2, <2>4, OutcomeIs
<1>. QED  BY <1>1, <1>2

\* Success is printed only for the four files of one genuine proof, for the key in the binary:
\* for any number of runs, keys and bundles, however the directory is rewritten meanwhile and
\* whoever has rebuilt target/ (load_verifiable, the guest's main, report_proof).
THEOREM SuccessAlwaysOneFixture == Spec => []SuccessMeansOneFixture
<1>1. SuccessIsTheGuests => SuccessMeansOneFixture
  <2>1. SUFFICES ASSUME SuccessIsTheGuests, NEW r \in Runs, "verified" \in out[r]
                 PROVE  pc[r] = "ok" /\ Consistent(r)
    BY DEF SuccessMeansOneFixture
  <2>2. pc[r] = "ok" /\ outcome(r, "true")
    BY <2>1 DEF SuccessIsTheGuests
  <2>3. image[r] \in Names
    BY <2>2, OutcomeIs
  <2>. QED  BY <2>2, <2>3, ConsistentIsAccepted
<1>. QED  BY <1>1, SuccessAlwaysTheGuests, PTL

-----------------------------------------------------------------------------
\* A run that was refused had a reason that its own binary and files gave it, and does not move
\* any more (Assemble, RunExecute, Report).
RefusedBy(r) ==
    /\ why[r] # "none" => pc[r] = "failed"
    /\ why[r] = "convert" => outcome(r, "unconvertible")
    /\ why[r] = "execution" => outcome(r, "panic")
    /\ why[r] = "assert" => ~outcome(r, "true")

Refused == \A r \in Runs : RefusedBy(r)

\* A step of a run that ends in failure gives the reason for it (one case per group of actions).
LEMMA RefusedOwnStep ==
    ASSUME IInv, Trusted, NEW r \in Runs, RefusedBy(r), Step(r)  PROVE RefusedBy(r)'
<1>. USE DEF Goto, Fail
<1>1. /\ r \in DOMAIN pc /\ r \in DOMAIN why /\ r \in DOMAIN artifact /\ r \in DOMAIN net
      /\ r \in DOMAIN out /\ r \in DOMAIN image /\ r \in DOMAIN loaded
  BY DEF IInv, TypeOK
<1>2. pc[r] # "failed"
  BY DEF Step, CheckFixture, Build, BuildIsFresh, Start, LoadFile, Assemble, RunExecute,
         Prove, VerifyProof, ReportProof, Request, PrintLocator, WaitProof, WaitTimesOut
<1>3. why[r] = "none"
  BY <1>2 DEF RefusedBy
<1>4. CASE \/ CheckFixture(r) \/ Build(r) \/ BuildIsFresh(r) \/ Start(r) \/ LoadFile(r)
           \/ PrintLocator(r)
  BY <1>1, <1>3, <1>4 DEF CheckFixture, Build, BuildIsFresh, Start, LoadFile, PrintLocator,
                          RefusedBy
<1>5. CASE Prove(r) \/ VerifyProof(r) \/ WaitProof(r) \/ WaitTimesOut(r)
  BY <1>1, <1>3, <1>5 DEF Prove, VerifyProof, WaitProof, WaitTimesOut, RefusedBy
<1>6. CASE Request(r)
  BY <1>1, <1>3, <1>6 DEF Request, Submitted, RefusedBy
<1>7. CASE Assemble(r)
  <2>1. UNCHANGED <<image, loaded>>
    BY <1>7 DEF Assemble
  <2>2. \A v : outcome(r, v)' <=> outcome(r, v)
    BY <2>1 DEF outcome
  <2>3. \/ pc'[r] = "failed" /\ why'[r] = "parse"
        \/ pc'[r] = "failed" /\ why'[r] = "convert" /\ outcome(r, "unconvertible")
        \/ why'[r] = why[r]
    BY <1>1, <1>7 DEF Assemble
  <2>. QED  BY <1>3, <2>2, <2>3 DEF RefusedBy
<1>8. CASE RunExecute(r)
  <2>1. UNCHANGED <<image, loaded>>
    BY <1>8 DEF RunExecute
  <2>2. \A v : outcome(r, v)' <=> outcome(r, v)
    BY <2>1 DEF outcome
  <2>3. \/ pc'[r] = "failed" /\ why'[r] = "execution" /\ outcome(r, "panic")
        \/ pc'[r] = "failed" /\ why'[r] = "assert" /\ ~outcome(r, "true")
        \/ why'[r] = why[r]
    BY <1>1, <1>8 DEF RunExecute, Report
  <2>. QED  BY <1>3, <2>2, <2>3 DEF RefusedBy
<1>9. CASE ReportProof(r)
  <2>1. UNCHANGED <<image, loaded>> /\ pc[r] = "report"
    BY <1>9 DEF ReportProof
  <2>2. \A v : outcome(r, v)' <=> outcome(r, v)
    BY <2>1 DEF outcome
  <2>3. artifact[r].genuine /\ Honest(r, artifact[r])
    BY <2>1 DEF Trusted, TrustedBy
  <2>4. artifact[r].valid <=> outcome(r, "true")
    BY <2>3 DEF Honest
  <2>5. \/ pc'[r] = "failed" /\ why'[r] = "assert" /\ ~outcome(r, "true")
        \/ why'[r] = why[r]
    BY <1>1, <1>9, <2>4 DEF ReportProof, Report
  <2>. QED  BY <1>3, <2>2, <2>5 DEF RefusedBy
<1>. QED  BY <1>4, <1>5, <1>6, <1>7, <1>8, <1>9 DEF Step

\* A step of one run changes no other run's reason (one case for all the actions of Step).
LEMMA ReasonsKept ==
    ASSUME IInv, NEW r \in Runs, Step(r), NEW q \in Runs \ {r}
    PROVE  why'[q] = why[q]
  BY DEF IInv, TypeOK, Goto, Fail, Step, CheckFixture, Build, BuildIsFresh, Start, LoadFile,
         Assemble, RunExecute, Prove, VerifyProof, ReportProof, Report, Request, Submitted,
         PrintLocator, WaitProof, WaitTimesOut

\* Every step keeps the reasons true (Next).
LEMMA RefusedNext == IInv /\ Trusted /\ Refused /\ [Next]_vars => Refused'
<1>. SUFFICES ASSUME IInv, Trusted, Refused, [Next]_vars PROVE Refused'
  OBVIOUS
<1>1. ASSUME NEW r \in Runs, Step(r)  PROVE Refused'
  <2>1. RefusedBy(r)'
    BY <1>1, RefusedOwnStep DEF Refused
  <2>2. ASSUME NEW q \in Runs \ {r}  PROVE RefusedBy(q)'
    <3>1. why'[q] = why[q] /\ pc'[q] = pc[q] /\ image'[q] = image[q] /\ loaded'[q] = loaded[q]
      BY <1>1, ReasonsKept, OthersKeep
    <3>2. RefusedBy(q)
      BY DEF Refused
    <3>. QED  BY <3>1, <3>2 DEF RefusedBy, outcome
  <2>. QED  BY <2>1, <2>2 DEF Refused
<1>2. CASE UNCHANGED <<pc, why, image, loaded>>
  BY <1>2 DEF Refused, RefusedBy, outcome
<1>. QED  BY <1>1, <1>2 DEF Next, NetworkAnswers, DumpOpens, DumpWrites, Idle, vars

\* A run that read one genuine fixture under a binary of its key is never refused: its files
\* convert, the guest does not panic on them, and what it commits is true
\* (into_verifiable, the guest's main, report_proof).
THEOREM GenuineAlwaysAccepted == Spec => []GenuineNeverRefused
<1>1. Init => IInv /\ Trusted /\ Reading /\ Refused
  <2>1. Init => Trusted
    BY DEF Init, Trusted, TrustedBy, Honest, NoRequest, NoProof
  <2>2. Init => Reading
    BY DEF Init, Reading, ReadingBy
  <2>3. Init => Refused
    BY DEF Init, Refused, RefusedBy
  <2>. QED  BY <2>1, <2>2, <2>3, TypeInit
<1>2. IInv /\ Trusted /\ Reading /\ Refused /\ [Next]_vars
        => IInv' /\ Trusted' /\ Reading' /\ Refused'
  BY TypeNext, TrustedNext, ReadingNext, RefusedNext
<1>3. Reading /\ Refused => GenuineNeverRefused
  <2>1. SUFFICES ASSUME Reading, Refused, NEW r \in Runs, Consistent(r)
                 PROVE  why[r] \notin {"convert", "execution", "assert"}
    BY DEF GenuineNeverRefused
  <2>2. loaded[r] \in Texts
    BY <2>1 DEF Consistent
  <2>3. Len(loaded[r]) = 4
    BY <2>2 DEF Texts
  <2>4. image[r] \in Names
    BY <2>1, <2>3 DEF Reading, ReadingBy
  <2>5. guest(image[r], loaded[r]) = "true" /\ outcome(r, "true")
    BY <2>1, <2>4, ConsistentIsAccepted, OutcomeIs
  <2>6. ~outcome(r, "unconvertible") /\ ~outcome(r, "panic")
    BY <2>5, OutcomeIs
  <2>. QED  BY <2>1, <2>5, <2>6 DEF Refused, RefusedBy
<1>. QED  BY <1>1, <1>2, <1>3, PTL DEF Spec

-----------------------------------------------------------------------------
(***************************************************************************)
(* The whole tool implements the safety part of its promise (module        *)
(* ReportSpec), for any number of runs, directories and bundles.  A step   *)
(* of a run is seen by the promise as the step of that run it stands for,  *)
(* or not at all; a step of the network or of a dump tool is never seen.   *)
(***************************************************************************)
\* What the promise sees of one run.
claimOf(r) == IF settled(r) THEN <<image[r], loaded[r]>> ELSE <<>>
requestOf(r) == IF net[r].state = "none" THEN "none"
                ELSE IF "locator" \in out[r] THEN "located" ELSE "sent"
answerOf(r) == IF "verified" \in out[r] THEN "verified"
               ELSE IF pc[r] = "failed" THEN "failed" ELSE "none"
limitedOf(r) == args[r].mode = "network" => args[r].timeout

claims == [r \in Runs |-> claimOf(r)]
requests == [r \in Runs |-> requestOf(r)]
answers == [r \in Runs |-> answerOf(r)]
limits == [r \in Runs |-> limitedOf(r)]

\* What the promise sees of run r and no other run may have changed, and no limit has.
OnlyOf(r) ==
    /\ claims' = [claims EXCEPT ![r] = claimOf(r)']
    /\ requests' = [requests EXCEPT ![r] = requestOf(r)']
    /\ answers' = [answers EXCEPT ![r] = answerOf(r)']
    /\ UNCHANGED limits

\* The steps of the promise, said of one run.
SeenAs(r) ==
    \/ UNCHANGED <<claimOf(r), requestOf(r), answerOf(r)>>
    \/ /\ answerOf(r) = "none" /\ claimOf(r) = <<>>
       /\ claimOf(r)' \in Names \X [1..4 -> Names \cup {"broken"}]
       /\ UNCHANGED <<requestOf(r), answerOf(r)>>
    \/ /\ answerOf(r) = "none" /\ claimOf(r) # <<>> /\ requestOf(r) = "none"
       /\ requestOf(r)' = "sent" /\ answerOf(r)' \in {"none", "failed"}
       /\ UNCHANGED claimOf(r)
    \/ /\ answerOf(r) = "none" /\ requestOf(r) = "sent" /\ requestOf(r)' = "located"
       /\ UNCHANGED <<claimOf(r), answerOf(r)>>
    \/ /\ answerOf(r) = "none" /\ requestOf(r) # "sent" /\ claimOf(r) # <<>>
       /\ accepted(claimOf(r)) /\ answerOf(r)' = "verified"
       /\ UNCHANGED <<claimOf(r), requestOf(r)>>
    \/ /\ answerOf(r) = "none" /\ requestOf(r) # "sent" /\ answerOf(r)' = "failed"
       /\ UNCHANGED <<claimOf(r), requestOf(r)>>

\* A step of a run changes what the promise sees of that run only (Step).
LEMMA StepIsOfOne ==
    ASSUME IInv, NEW r \in Runs, Step(r)  PROVE OnlyOf(r)
<1>1. \A q \in Runs \ {r} : /\ claimOf(q)' = claimOf(q)
                            /\ requestOf(q)' = requestOf(q) /\ answerOf(q)' = answerOf(q)
  BY OthersKeep DEF claimOf, settled, requestOf, answerOf
<1>2. UNCHANGED args
  BY DEF Step, CheckFixture, Build, BuildIsFresh, Start, LoadFile, Assemble, RunExecute, Prove,
         VerifyProof, ReportProof, Request, PrintLocator, WaitProof, WaitTimesOut
<1>3. claims' = [claims EXCEPT ![r] = claimOf(r)']
  BY <1>1 DEF claims
<1>4. requests' = [requests EXCEPT ![r] = requestOf(r)']
  BY <1>1 DEF requests
<1>5. answers' = [answers EXCEPT ![r] = answerOf(r)']
  BY <1>1 DEF answers
<1>6. UNCHANGED limits
  BY <1>2 DEF limits, limitedOf
<1>. QED  BY <1>3, <1>4, <1>5, <1>6 DEF OnlyOf

\* The run goes on and the promise does not see it.
LEMMA Unseen ==
    ASSUME IInv, Trusted, NEW r \in Runs, pc[r] # "failed", pc'[r] # "failed",
           net'[r].state = net[r].state, UNCHANGED <<out, loaded>>,
           image'[r] = image[r] \/ Len(loaded[r]) # 4
    PROVE  SeenAs(r)
  BY DEF SeenAs, claimOf, settled, requestOf, answerOf

\* The run fails, with no request the operator cannot find (Fail).
LEMMA SeenToFail ==
    ASSUME IInv, Trusted, Located, NEW r \in Runs, pc[r] \notin {"ok", "failed", "locate"},
           pc'[r] = "failed", UNCHANGED <<out, net, loaded, image>>
    PROVE  SeenAs(r)
<1>1. "verified" \notin out[r]
  BY DEF Trusted, TrustedBy
<1>2. requestOf(r) # "sent"
  BY DEF Located, LocatorOf, requestOf
<1>. QED  BY <1>1, <1>2 DEF SeenAs, claimOf, settled, requestOf, answerOf

\* The assertion on the committed boolean is the run's answer (Report).
LEMMA SeenToReport ==
    ASSUME IInv, Trusted, Located, Reading, NEW r \in Runs, NEW valid, Report(r, valid),
           valid => outcome(r, "true"),
           pc[r] \in {"execute", "report"}, UNCHANGED <<net, loaded, image>>
    PROVE  SeenAs(r)
<1>1. r \in DOMAIN pc /\ r \in DOMAIN out
  BY DEF IInv, TypeOK
<1>2. CASE valid
  <2>1. "verified" \notin out[r] /\ out'[r] = out[r] \cup {"verified"}
    BY <1>1, <1>2 DEF Trusted, TrustedBy, Report
  <2>2. requestOf(r) # "sent"
    BY DEF Located, LocatorOf, requestOf
  <2>3. claimOf(r) = <<image[r], loaded[r]>> /\ claimOf(r) # <<>>
    BY DEF claimOf, settled, Reading, ReadingBy
  <2>4. accepted(claimOf(r))
    BY <1>2, <2>3 DEF accepted, outcome
  <2>5. answerOf(r) = "none" /\ answerOf(r)' = "verified"
    BY <2>1 DEF answerOf
  <2>6. UNCHANGED <<claimOf(r), requestOf(r)>>
    BY <2>1 DEF claimOf, settled, requestOf
  <2>. QED  BY <2>2, <2>3, <2>4, <2>5, <2>6 DEF SeenAs
<1>3. CASE ~valid
  BY <1>1, <1>3, SeenToFail DEF Report, Fail
<1>. QED  BY <1>2, <1>3

\* While fewer than four files are read, four are not (load_verifiable).
LEMMA FewerIsOther == \A n \in Nat : n < 4 => n # 4
  OBVIOUS

\* Each step of a run is a step of the promise, or the promise does not see it (one case per
\* group of actions of Step).
LEMMA StepIsSeen ==
    ASSUME IInv, Trusted, Located, Reading, NEW r \in Runs, Step(r)  PROVE SeenAs(r)
<1>. USE DEF Goto, Fail
<1>1. /\ r \in DOMAIN pc /\ r \in DOMAIN net /\ r \in DOMAIN out
      /\ r \in DOMAIN image /\ r \in DOMAIN loaded
  BY DEF IInv, TypeOK
<1>2. CASE CheckFixture(r) \/ Build(r) \/ BuildIsFresh(r)
  BY <1>1, <1>2, Unseen, SeenToFail DEF CheckFixture, Build, BuildIsFresh
<1>3. CASE Start(r)
  <2>1. Len(loaded[r]) # 4
    BY <1>3 DEF Start, Reading, ReadingBy
  <2>. QED  BY <1>1, <1>3, <2>1, Unseen DEF Start
<1>4. CASE LoadFile(r)
  <2>1. loaded[r] \in Seq(Names \cup {"broken"}) /\ image[r] \in Names
    BY <1>4 DEF IInv, TypeOK, LoadFile
  <2>2. CASE loaded' = loaded /\ pc'[r] = "failed"
    BY <1>1, <1>4, <2>2, SeenToFail DEF LoadFile
  <2>3. ASSUME NEW c, loaded'[r] = Append(loaded[r], c), UNCHANGED pc
        PROVE  SeenAs(r)
    <3>1. IInv'
      BY TypeStep
    <3>2. loaded'[r] \in Seq(Names \cup {"broken"})
      BY <3>1 DEF IInv, TypeOK
    <3>3. UNCHANGED <<requestOf(r), answerOf(r)>> /\ image' = image
      BY <1>4, <2>3 DEF LoadFile, requestOf, answerOf
    <3>4. claimOf(r) = <<>> /\ answerOf(r) = "none"
      <4>1. Len(loaded[r]) # 4
        <5>1. Len(loaded[r]) < 4
          BY <1>4 DEF LoadFile
        <5>2. Len(loaded[r]) \in Nat
          BY <2>1, LenProperties
        <5>. QED  BY <5>1, <5>2, FewerIsOther
      <4>2. pc[r] = "load" /\ "verified" \notin out[r]
        BY <1>4 DEF LoadFile, Trusted, TrustedBy
      <4>. QED  BY <4>1, <4>2 DEF claimOf, settled, answerOf
    <3>5. CASE Len(loaded'[r]) = 4
      <4>1. loaded'[r] \in [1..4 -> Names \cup {"broken"}]
        BY <3>2, <3>5, LenProperties
      <4>2. claimOf(r)' \in Names \X [1..4 -> Names \cup {"broken"}]
        BY <2>1, <3>3, <3>5, <4>1 DEF claimOf, settled
      <4>. QED  BY <3>3, <3>4, <4>2 DEF SeenAs
    <3>6. CASE Len(loaded'[r]) # 4
      <4>1. claimOf(r)' = <<>>
        BY <3>6 DEF claimOf, settled
      <4>. QED  BY <3>3, <3>4, <4>1 DEF SeenAs
    <3>. QED  BY <3>5, <3>6
  <2>. QED  BY <1>1, <1>4, <2>2, <2>3 DEF LoadFile
<1>5. CASE Assemble(r)
  <2>1. args[r] \in Args
    BY DEF IInv, TypeOK
  <2>2. args[r].mode # "failed"
    BY <2>1, RunsAssumption DEF CommandLines
  <2>. QED  BY <1>1, <1>5, <2>2, Unseen, SeenToFail DEF Assemble
<1>6. CASE RunExecute(r)
  <2>1. CASE Fail(r, "execution") /\ UNCHANGED out
    BY <1>1, <1>6, <2>1, SeenToFail DEF RunExecute
  <2>2. CASE Report(r, outcome(r, "true"))
    BY <1>6, <2>2, SeenToReport DEF RunExecute
  <2>. QED  BY <1>6, <2>1, <2>2 DEF RunExecute
<1>7. CASE Prove(r)
  BY <1>1, <1>7, Unseen, SeenToFail DEF Prove
<1>8. CASE VerifyProof(r)
  BY <1>1, <1>8, Unseen, SeenToFail DEF VerifyProof
<1>9. CASE ReportProof(r)
  <2>1. artifact[r].valid => outcome(r, "true")
    BY <1>9 DEF ReportProof, Trusted, TrustedBy, Honest
  <2>. QED  BY <1>9, <2>1, SeenToReport DEF ReportProof
<1>10. CASE Request(r)
  <2>1. /\ UNCHANGED <<image, loaded, out>> /\ pc'[r] \in {"failed", "locate"}
        /\ (net' = net /\ pc'[r] = "failed") \/ net'[r] = Pending
    BY <1>1, <1>10 DEF Request, Submitted
  <2>2. CASE net' = net /\ pc'[r] = "failed"
    BY <1>10, <2>1, <2>2, SeenToFail DEF Request
  <2>3. CASE net'[r] = Pending
    <3>1. requestOf(r) = "none"
      BY <1>10 DEF Request, Trusted, TrustedBy, requestOf
    <3>2. "locator" \notin out[r] /\ "verified" \notin out[r]
      BY <1>10 DEF Request, Trusted, TrustedBy, Reading, ReadingBy
    <3>3. requestOf(r)' = "sent"
      BY <2>1, <2>3, <3>2 DEF requestOf, Pending
    <3>4. answerOf(r) = "none" /\ answerOf(r)' \in {"none", "failed"}
      BY <1>10, <2>1, <3>2 DEF Request, answerOf
    <3>5. claimOf(r) # <<>> /\ UNCHANGED claimOf(r)
      BY <1>10, <2>1 DEF Request, claimOf, settled, Reading, ReadingBy
    <3>. QED  BY <3>1, <3>3, <3>4, <3>5 DEF SeenAs
  <2>. QED  BY <2>1, <2>2, <2>3
<1>11. CASE PrintLocator(r)
  <2>1. net[r].state # "none" /\ "locator" \notin out[r] /\ "verified" \notin out[r]
    BY <1>11 DEF PrintLocator, Trusted, TrustedBy, Reading, ReadingBy
  <2>2. out'[r] = out[r] \cup {"locator"} /\ pc'[r] = "wait" /\ UNCHANGED <<net, image, loaded>>
    BY <1>1, <1>11 DEF PrintLocator
  <2>. QED  BY <1>11, <2>1, <2>2
            DEF PrintLocator, SeenAs, claimOf, settled, requestOf, answerOf
<1>12. CASE WaitProof(r)
  BY <1>1, <1>12, Unseen, SeenToFail DEF WaitProof
<1>13. CASE WaitTimesOut(r)
  BY <1>1, <1>13, SeenToFail DEF WaitTimesOut
<1>. QED
  BY <1>2, <1>3, <1>4, <1>5, <1>6, <1>7, <1>8, <1>9, <1>10, <1>11, <1>12, <1>13 DEF Step

-----------------------------------------------------------------------------
\* The initial states are initial states of the promise (Init).
LEMMA RefinementInit == Init => Promise!Init
<1>. SUFFICES ASSUME Init PROVE Promise!Init
  OBVIOUS
<1>1. \A r \in Runs : ~settled(r) /\ net[r].state = "none"
                      /\ "verified" \notin out[r] /\ pc[r] # "failed"
  BY DEF Init, settled, NoRequest
<1>2. \A r \in Runs : (args[r].mode = "network" => args[r].timeout) \in BOOLEAN
  OBVIOUS
<1>. QED  BY <1>1, <1>2 DEF Promise!Init

\* What the promise sees as the step of one run is a step of the promise.
LEMMA SeenIsAStep ==
    ASSUME NEW r \in Runs, OnlyOf(r), SeenAs(r)  PROVE [Promise!Next]_Promise!vars
<1>0. /\ claims[r] = claimOf(r) /\ requests[r] = requestOf(r) /\ answers[r] = answerOf(r)
      /\ UNCHANGED claimOf(r) => UNCHANGED claims
      /\ UNCHANGED requestOf(r) => UNCHANGED requests
      /\ UNCHANGED answerOf(r) => UNCHANGED answers
  BY DEF OnlyOf, claims, requests, answers
<1>1. CASE UNCHANGED <<claimOf(r), requestOf(r), answerOf(r)>>
  <2>1. UNCHANGED <<claims, requests, answers, limits>>
    BY <1>0, <1>1 DEF OnlyOf
  <2>. QED
    BY <2>1 DEF Promise!vars, claims, requests, answers, limits, claimOf, requestOf, answerOf,
                limitedOf
<1>2. CASE /\ answerOf(r) = "none" /\ claimOf(r) = <<>>
           /\ claimOf(r)' \in Names \X [1..4 -> Names \cup {"broken"}]
           /\ UNCHANGED <<requestOf(r), answerOf(r)>>
  <2>1. /\ answers[r] = "none" /\ claims[r] = <<>>
        /\ \E c \in Names \X [1..4 -> Names \cup {"broken"}] : claims' = [claims EXCEPT ![r] = c]
        /\ UNCHANGED <<requests, answers, limits>>
    BY <1>0, <1>2 DEF OnlyOf
  <2>2. Promise!Settle(r)
    BY <2>1 DEF Promise!Settle, claims, requests, answers, limits, claimOf, requestOf, answerOf,
                limitedOf
  <2>. QED  BY <2>2 DEF Promise!Next
<1>3. CASE /\ answerOf(r) = "none" /\ claimOf(r) # <<>> /\ requestOf(r) = "none"
           /\ requestOf(r)' = "sent" /\ answerOf(r)' \in {"none", "failed"}
           /\ UNCHANGED claimOf(r)
  <2>1. /\ answers[r] = "none" /\ claims[r] # <<>> /\ requests[r] = "none"
        /\ requests' = [requests EXCEPT ![r] = "sent"]
        /\ answers' = answers \/ answers' = [answers EXCEPT ![r] = "failed"]
        /\ UNCHANGED <<claims, limits>>
    BY <1>0, <1>3 DEF OnlyOf
  <2>2. Promise!Send(r)
    BY <2>1 DEF Promise!Send, claims, requests, answers, limits, claimOf, requestOf, answerOf,
                limitedOf
  <2>. QED  BY <2>2 DEF Promise!Next
<1>4. CASE /\ answerOf(r) = "none" /\ requestOf(r) = "sent" /\ requestOf(r)' = "located"
           /\ UNCHANGED <<claimOf(r), answerOf(r)>>
  <2>1. /\ answers[r] = "none" /\ requests[r] = "sent"
        /\ requests' = [requests EXCEPT ![r] = "located"]
        /\ UNCHANGED <<claims, answers, limits>>
    BY <1>0, <1>4 DEF OnlyOf
  <2>2. Promise!Locate(r)
    BY <2>1 DEF Promise!Locate, claims, requests, answers, limits, claimOf, requestOf, answerOf,
                limitedOf
  <2>. QED  BY <2>2 DEF Promise!Next
<1>5. CASE /\ answerOf(r) = "none" /\ requestOf(r) # "sent" /\ claimOf(r) # <<>>
           /\ accepted(claimOf(r)) /\ answerOf(r)' = "verified"
           /\ UNCHANGED <<claimOf(r), requestOf(r)>>
  <2>1. /\ answers[r] = "none" /\ requests[r] # "sent"
        /\ claims[r] # <<>> /\ accepted(claims[r])
        /\ answers' = [answers EXCEPT ![r] = "verified"]
        /\ UNCHANGED <<claims, requests, limits>>
    BY <1>0, <1>5 DEF OnlyOf
  <2>2. Promise!Succeed(r)
    BY <2>1 DEF Promise!Succeed, claims, requests, answers, limits, claimOf, requestOf, answerOf,
                limitedOf
  <2>. QED  BY <2>2 DEF Promise!Next
<1>6. CASE /\ answerOf(r) = "none" /\ requestOf(r) # "sent" /\ answerOf(r)' = "failed"
           /\ UNCHANGED <<claimOf(r), requestOf(r)>>
  <2>1. /\ answers[r] = "none" /\ requests[r] # "sent"
        /\ answers' = [answers EXCEPT ![r] = "failed"]
        /\ UNCHANGED <<claims, requests, limits>>
    BY <1>0, <1>6 DEF OnlyOf
  <2>2. Promise!Fail(r)
    BY <2>1 DEF Promise!Fail, claims, requests, answers, limits, claimOf, requestOf, answerOf,
                limitedOf
  <2>. QED  BY <2>2 DEF Promise!Next
<1>. QED  BY <1>1, <1>2, <1>3, <1>4, <1>5, <1>6 DEF SeenAs

\* Every step of the tool is a step of the promise or is not seen (Next).
LEMMA RefinementNext ==
    IInv /\ Trusted /\ Located /\ Reading /\ [Next]_vars => [Promise!Next]_Promise!vars
<1>. SUFFICES ASSUME IInv, Trusted, Located, Reading, [Next]_vars
              PROVE  [Promise!Next]_Promise!vars
  OBVIOUS
<1>1. ASSUME NEW r \in Runs, Step(r)  PROVE [Promise!Next]_Promise!vars
  BY <1>1, StepIsOfOne, StepIsSeen, SeenIsAStep
<1>2. CASE \/ \E r \in Runs : NetworkAnswers(r)
           \/ \E d \in Dirs, f \in Files : DumpOpens(d, f) \/ DumpWrites(d, f)
           \/ UNCHANGED vars
  <2>1. /\ UNCHANGED <<args, pc, out, image, loaded>>
        /\ \A q \in Runs : net'[q].state = "none" <=> net[q].state = "none"
    BY <1>2, EnvironmentKeeps
  <2>2. UNCHANGED <<claims, requests, answers, limits>>
    BY <2>1 DEF claims, requests, answers, limits, claimOf, settled, requestOf, answerOf, limitedOf
  <2>. QED
    BY <2>2 DEF Promise!vars, claims, requests, answers, limits, claimOf, requestOf, answerOf,
                limitedOf
<1>. QED  BY <1>1, <1>2 DEF Next, Idle

\* The tool keeps its promise, step by step, however many runs share the checkout and
\* whatever the network and the dump tools do: a run settles once what it is about and never
\* changes it, it is sent once and located before it ends unless the submission was reported
\* as failed, it ends once, and it ends in success only if the guest accepts what it is about
\* (load_verifiable, run_execute, run_cpu, run_cuda, run_network).
THEOREM KeepsThePromise == Spec => Promise!Safety
<1>. DEFINE Inv == IInv /\ Trusted /\ Located /\ Reading
<1>1. Init => Inv
  <2>1. Init => Trusted
    BY DEF Init, Trusted, TrustedBy, Honest, NoRequest, NoProof
  <2>2. Init => Located
    BY DEF Init, Located, LocatorOf, NoRequest
  <2>3. Init => Reading
    BY DEF Init, Reading, ReadingBy, NoRequest
  <2>. QED  BY <2>1, <2>2, <2>3, TypeInit
<1>2. Inv /\ [Next]_vars => Inv'
  BY TypeNext, TrustedNext, LocatedNext, ReadingNext
<1>3. Inv /\ [Next]_vars => [Promise!Next]_Promise!vars
  BY RefinementNext
<1>4. Init => Promise!Init
  BY RefinementInit
<1>. QED  BY <1>1, <1>2, <1>3, <1>4, PTL DEF Spec, Promise!Safety
=============================================================================
