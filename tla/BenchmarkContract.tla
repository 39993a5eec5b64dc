------------------------- MODULE BenchmarkContract -------------------------
(***************************************************************************)
(* What the benchmark harness promises to whoever runs it, without saying  *)
(* how: invocations come one after the other; neard runs only on a machine *)
(* that no other invocation's neard still occupies; results appear only    *)
(* once the machine is quiet again, and an invocation ends "done" only if  *)
(* they did.  Only a crash of the harness may leave neard running.         *)
(***************************************************************************)
EXTENDS Naturals

CONSTANT Run

VARIABLES active,    \* an invocation is in progress
          run,       \* its number
          owners,    \* invocations that have a neard running
          published, \* the complete results of the invocation are on disk
          verdict    \* how the last invocation ended

cvars == <<active, run, owners, published, verdict>>

Init == /\ active = FALSE /\ run = 0 /\ owners = {}
        /\ published = FALSE /\ verdict = "skipped"

Begin == /\ ~ active /\ run + 1 \in Run
         /\ active' = TRUE /\ run' = run + 1
         /\ published' = FALSE /\ verdict' = "running"
         /\ UNCHANGED owners

\* Bring up neard on a machine with no other invocation's neard.
Occupy == /\ active /\ owners \subseteq {run} /\ verdict = "running"
          /\ owners' = {run}
          /\ UNCHANGED <<active, run, published, verdict>>

\* Processes are killed, or die.
Vacate == /\ owners' \subseteq owners /\ owners' # owners
          /\ UNCHANGED <<active, run, published, verdict>>

\* Something went wrong: no further launch, no success.
GiveUp == /\ active
          /\ verdict' \in {"failed", "interrupted"}
          /\ UNCHANGED <<active, run, owners, published>>

Publish == /\ active /\ run \notin owners /\ verdict = "running"
           /\ published' = TRUE
           /\ UNCHANGED <<active, run, owners, verdict>>

End == /\ active /\ active' = FALSE
       /\ \/ verdict' = "done" /\ verdict = "running" /\ published
          \/ verdict' = "skipped" /\ verdict = "running" /\ ~ published
          \/ verdict' \in {"failed", "interrupted"}
       /\ run \notin owners
       /\ UNCHANGED <<run, owners, published>>

HarnessDies == /\ active /\ active' = FALSE /\ verdict' = "crashed"
               /\ UNCHANGED <<run, owners, published>>

Next == Begin \/ Occupy \/ Vacate \/ GiveUp \/ Publish \/ End \/ HarnessDies

Spec == Init /\ [][Next]_cvars

=============================================================================
