\* One CUDA run where an externally managed server is up.
SPECIFICATION Spec
CONSTANTS
    Runs = {r1}
    Environments <- CudaOnly
    Leftovers = {"external"}
    Tries = 2
INVARIANTS
    ExternalServerIsShared
CHECK_DEADLOCK FALSE
