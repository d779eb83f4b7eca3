---------------------------- MODULE MCFileSync -----------------------------
(* FileSync on small sets of model values.  Tasks, web requests and         *)
(* fetching threads are interchangeable.                                    *)
EXTENDS FileSync, TLC

Symmetry == Permutations(Task) \cup Permutations(Admin) \cup Permutations(Fetch)

\* everything but late answers, which the safety properties do not depend on
Rough == {[kind |-> "tasks", last |-> 2, may |-> {"delete", "torn", "fail", "outage"}]}

\* two edits of either kind when nothing goes wrong, and of tasks when they overlap; one
\* edit with lost links and restarts; one with answers and fetches that outlast the retries
Lively == {[kind |-> k, last |-> 2, may |-> {}] : k \in {"tasks", "limits"}}
              \cup {[kind |-> "tasks", last |-> 2, may |-> {"crowd"}],
                    [kind |-> "limits", last |-> 1, may |-> {"outage"}],
                    [kind |-> "limits", last |-> 1, may |-> {"late", "overlap"}]}

Deleting == {[kind |-> "tasks", last |-> 2, may |-> {"delete"}]}

=============================================================================
