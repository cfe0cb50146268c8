---------------------------- MODULE MCPackageJobs ----------------------------
\* PackageJobs with all turns at one service at a time.
EXTENDS PackageJobs

MCInit == Init /\ \A t, u \in Turns : svc[t] = svc[u]

MCSpec == MCInit /\ [][Next]_vars /\ Fairness

=============================================================================
