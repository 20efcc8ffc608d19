--------------------------- MODULE MCWorkerService ----------------------------
EXTENDS WorkerService, TLC

CONSTANTS w1, j1, j2

\* One process with two slots: the second job is what overlaps the first, and
\* the second attempt of a job what overlaps its first.
MCRoutes   == [j \in Jobs |-> "ltx"]
MCRuntimes == [w \in Workers |-> {"ltx"}]

=============================================================================
