----------------------------- MODULE ReportSpec -----------------------------
(***************************************************************************)
(* What the tool promises of its runs, whatever they go through.  A run    *)
(* settles what it is about (a binary and four files) and ends once, in    *)
(* success or in failure; success needs a guest that accepts what the run  *)
(* is about.  A run may submit a request to the prover network; unless the *)
(* submission itself is reported as failed, the operator learns where to   *)
(* find it before the run ends.  A run that does not wait for the network  *)
(* without limit ends.                                                     *)
(***************************************************************************)
CONSTANTS Runs,         \* invocations of the tool
          Claims,       \* what a run may be about
          Accepts(_)    \* the guest accepts a claim

VARIABLES claim,    \* what each run is about, or <<>>
          request,  \* "none", "sent" or "located"
          answer,   \* "none", "verified" or "failed"
          limited   \* whether the run has to end

vars == <<claim, request, answer, limited>>

Init ==
    /\ claim = [r \in Runs |-> <<>>]
    /\ request = [r \in Runs |-> "none"]
    /\ answer = [r \in Runs |-> "none"]
    /\ limited \in [Runs -> BOOLEAN]

Settle(r) ==
    /\ answer[r] = "none" /\ claim[r] = <<>>
    /\ \E c \in Claims : claim' = [claim EXCEPT ![r] = c]
    /\ UNCHANGED <<request, answer, limited>>

\* The submission reaches the network, and may yet be reported as failed.
Send(r) ==
    /\ answer[r] = "none" /\ claim[r] # <<>> /\ request[r] = "none"
    /\ request' = [request EXCEPT ![r] = "sent"]
    /\ \/ UNCHANGED answer
       \/ answer' = [answer EXCEPT ![r] = "failed"]
    /\ UNCHANGED <<claim, limited>>

Locate(r) ==
    /\ answer[r] = "none" /\ request[r] = "sent"
    /\ request' = [request EXCEPT ![r] = "located"]
    /\ UNCHANGED <<claim, answer, limited>>

Succeed(r) ==
    /\ answer[r] = "none" /\ request[r] # "sent"
    /\ claim[r] # <<>> /\ Accepts(claim[r])
    /\ answer' = [answer EXCEPT ![r] = "verified"]
    /\ UNCHANGED <<claim, request, limited>>

Fail(r) ==
    /\ answer[r] = "none" /\ request[r] # "sent"
    /\ answer' = [answer EXCEPT ![r] = "failed"]
    /\ UNCHANGED <<claim, request, limited>>

Next == \E r \in Runs : Settle(r) \/ Send(r) \/ Locate(r) \/ Succeed(r) \/ Fail(r)

Safety == Init /\ [][Next]_vars

Ends == \A r \in Runs : limited[r] ~> answer[r] # "none"

Spec == Safety /\ Ends
=============================================================================
