------------------------ MODULE BenchmarkRefinement ------------------------
(* BenchmarkRun implements BenchmarkContract when pkill does what it should. *)
EXTENDS BenchmarkRun

Owners == {r \in Run : \E p \in Proc : p[2] = r /\ Executing(p)}

Contract == INSTANCE BenchmarkContract WITH
  active <- pc # "idle",
  owners <- Owners,
  published <- {"csv", "detail", "summary"} \subseteq art,
  verdict <- outcome

\* run_experiment keeps the contract of the benchmark: no foreign neard beside
\* the one it measures, results only from a quiet machine, success only with
\* results, and nothing left running except by a crash of the harness.
KeepsContract == Contract!Spec

=============================================================================
