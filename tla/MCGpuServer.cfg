\* Two runs in every mode, with signals, crashes and a socket that was there before; a run
\* that fails at once leaves the other one an empty path.
SPECIFICATION Spec
CONSTANTS
    Runs = {r1, r2}
    Environments <- MCEnvironments
    Leftovers = {"stale"}
    Tries = 2
INVARIANTS
    TypeOK
    NoServerOutlivesItsScript
    NoSocketOutlivesItsScript
    AloneIsServed
PROPERTIES
    ScriptEnds
CHECK_DEADLOCK FALSE
