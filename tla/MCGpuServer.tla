---------------------------- MODULE MCGpuServer ----------------------------
(***************************************************************************)
(* Runs that share one device: CUDA runs, and others whose EXIT trap       *)
(* removes the same path.                                                  *)
(***************************************************************************)
EXTENDS GpuServer

Env(p, k, f) == [prover |-> p, key |-> k, fixture |-> f]

Cuda == Env("cuda", FALSE, TRUE)

MCEnvironments == {Cuda, Env("cpu", FALSE, TRUE), Env("network", FALSE, TRUE)}
CudaOnly == {Cuda}
=============================================================================
