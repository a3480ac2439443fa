--------------------------- MODULE MCSandboxPool ---------------------------
EXTENDS SandboxPool
CONSTANTS t1, t2, r1, r2
MCThreads == {t1, t2}
\* Two runs of one thread, a run and its subagent say; the other thread has a container of
\* an earlier process at most.
MCRuns == {r1, r2}
MCThreadOf == [r \in MCRuns |-> t1]
=============================================================================
