---------------------------- MODULE MCRunJournal ----------------------------
EXTENDS RunJournal, TLC
CONSTANTS r1, r2
MCRuns == {r1, r2}
MCBackends == {"memory", "jsonl", "db"}
\* Enough for a full buffer and one event more, beside a run with a full buffer, or one that
\* writes at the same time where batches break off in between.
MCMaxEvents ==
  [b \in MCBackends, r \in MCRuns |-> IF r = r1 THEN 3 ELSE IF b = "jsonl" THEN 1 ELSE 2]
=============================================================================
