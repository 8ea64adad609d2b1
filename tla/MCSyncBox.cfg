\* Safety, liveness and the refinement of SyncPromise; 3 goroutines, so that
\* a wrong reuse would show.  No symmetry, because of the liveness.
CONSTANTS
    t1 = t1
    t2 = t2
    g1 = g1
    g2 = g2
    g3 = g3
    Tickets <- MCTickets
    Goroutines <- MCGoroutines
    None = None
SPECIFICATION Spec
INVARIANTS
    NoLostWakeup
    OneWorkerPerTicket
    PendingPreempts
PROPERTIES
    QuietSettles
    KeepsPromise
