----------------------------- MODULE ResultsStore -----------------------------
(***************************************************************************)
(* results/single_node_scaling/<storage>/ over successive invocations of   *)
(* scripts/run_benchmark.py: scaling_results.csv, which is appended to,    *)
(* scaling_results_detail.json, which is read, extended and rewritten in   *)
(* place, and one run_S<N>_summary.txt per shard count.                    *)
(*                                                                         *)
(* An invocation may be cut short anywhere: SIGKILL, SIGINT, whose handler *)
(* raises SystemExit, or an OSError of a full disk.  A file that is being  *)
(* rewritten has been truncated by then.                                   *)
(*                                                                         *)
(* cut and tearer are history variables.                                   *)
(***************************************************************************)
EXTENDS Integers, Sequences, FiniteSetsExt, Functions

CONSTANTS Shards,  \* shard counts the invocations are given
          MaxRuns  \* bound: invocations

Torn == 0

VARIABLES
  pc,       \* idle, work, csv, detail or summary
  args,     \* the invocation: its number, --shards and whether it measured
  csv,      \* runs that have a line in the csv file
  json,     \* the detail file: absent, list, empty or torn
  detail,   \* the records of a list
  summary,  \* the run that wrote the summary of each shard count
  cut,      \* runs cut short while they wrote results
  tearer    \* the last run that left an unreadable detail file

history == <<cut, tearer>>
vars == <<pc, args, csv, json, detail, summary, history>>

Init ==
  /\ pc = "idle" /\ args = [run |-> 0, n |-> 0, ok |-> FALSE]
  /\ csv = {} /\ json = "absent" /\ detail = <<>>
  /\ summary = [n \in Shards |-> Torn]
  /\ cut = {} /\ tearer = 0

-----------------------------------------------------------------------------

StartRun(n) ==
  /\ pc = "idle" /\ args.run < MaxRuns
  /\ pc' = "work" /\ args' = [run |-> args.run + 1, n |-> n, ok |-> FALSE]
  /\ UNCHANGED <<csv, json, detail, summary, history>>

\* append_results, or write_failure_artifacts, which leaves the csv file alone.
WorkEnds ==
  /\ pc = "work"
  /\ \E ok \in BOOLEAN : args' = [args EXCEPT !.ok = ok] /\ pc' = IF ok THEN "csv" ELSE "detail"
  /\ UNCHANGED <<csv, json, detail, summary, history>>

AppendCsv ==
  /\ pc = "csv" /\ pc' = "detail"
  /\ csv' = csv \cup {args.run}
  /\ UNCHANGED <<args, json, detail, summary, history>>

\* An empty or unreadable file counts as an empty history.
ReadDetail == IF json = "list" THEN detail ELSE <<>>

\* Fault: the history is not read.
RewriteDetail_Forgets ==
  /\ pc = "detail" /\ pc' = "summary"
  /\ json' = "list" /\ detail' = <<args>>
  /\ UNCHANGED <<args, csv, summary, history>>

RewriteDetail ==
  /\ pc = "detail" /\ pc' = "summary"
  /\ json' = "list" /\ detail' = Append(ReadDetail, args)
  /\ UNCHANGED <<args, csv, summary, history>>

\* Fault: a failed run leaves the summary of the last success.
WriteSummary_SuccessOnly ==
  /\ pc = "summary" /\ pc' = "idle"
  /\ summary' = IF args.ok THEN [summary EXCEPT ![args.n] = args.run] ELSE summary
  /\ UNCHANGED <<args, csv, json, detail, history>>

WriteSummary ==
  /\ pc = "summary" /\ pc' = "idle"
  /\ summary' = [summary EXCEPT ![args.n] = args.run]
  /\ UNCHANGED <<args, csv, json, detail, history>>

-----------------------------------------------------------------------------
(* The invocation is cut short.                                            *)

Stop == pc' = "idle" /\ UNCHANGED args

CutWork ==
  /\ pc = "work" /\ Stop
  /\ UNCHANGED <<csv, json, detail, summary, history>>

\* The line sits in the buffer of the file object.
CutCsv ==
  /\ pc = "csv" /\ Stop
  /\ cut' = cut \cup {args.run}
  /\ UNCHANGED <<csv, json, detail, summary, tearer>>

CutDetail ==
  /\ pc = "detail" /\ Stop
  /\ \/ UNCHANGED <<json, detail, tearer>>
     \/ json' \in {"empty", "torn"} /\ detail' = <<>> /\ tearer' = args.run
  /\ cut' = cut \cup {args.run}
  /\ UNCHANGED <<csv, summary>>

CutSummary ==
  /\ pc = "summary" /\ Stop
  /\ summary' \in {summary, [summary EXCEPT ![args.n] = Torn]}
  /\ cut' = cut \cup {args.run}
  /\ UNCHANGED <<csv, json, detail, tearer>>

Next ==
  \/ \E n \in Shards : StartRun(n)
  \/ WorkEnds \/ AppendCsv \/ RewriteDetail \/ WriteSummary
  \/ CutWork \/ CutCsv \/ CutDetail \/ CutSummary

Spec == Init /\ [][Next]_vars

-----------------------------------------------------------------------------
(* Correctness.                                                            *)

Recorded(S) == {r.run : r \in {s \in Range(detail) : s.n \in S}}
Current(r) == r = args.run /\ pc # "idle"

\* The detail file lists the runs in their order, each once, and every run that
\* measured is in it if it was not cut short and the file has not been torn since.
HistoryKept ==
  /\ \A i, j \in DOMAIN detail : i < j => detail[i].run < detail[j].run
  /\ \A r \in csv : r \in Recorded(Shards) \/ r \in cut \/ r <= tearer \/ Current(r)

\* Between invocations the summary of a shard count is that of its last record,
\* unless the run of that record was cut short.
SummaryIsOfLastRecord ==
  pc = "idle" => \A n \in Shards : Recorded({n}) # {} =>
    LET last == Max(Recorded({n})) IN summary[n] = last \/ last \in cut

=============================================================================
