------------------------------ MODULE DailyJob ------------------------------
(***************************************************************************)
(* The job of a day that both scans run in (.github/workflows: RScanner,   *)
(* Preprocessor): the scan writes its files in a fresh checkout, and the   *)
(* last step, which is for a scan that succeeded, pushes them.             *)
(***************************************************************************)
VARIABLES
  pc,            \* where main of the scan, and then the job, is
  files,         \* the scan's files in the job's checkout
  main           \* these files on the branch

Old == [day |-> "old"]  \* a file of an earlier day
Cut == [day |-> "cut"]  \* a file that was truncated and not completely written
Ended == {"pushed", "rejected", "failed"}

\* The checkout has the files of the branch.
Checkout(names) ==
  /\ main = [f \in names |-> Old]
  /\ files = main

\* An error of main, or the job's time is over.
Fail ==
  /\ pc \notin Ended \union {"exit"}
  /\ pc' = "failed"
  /\ UNCHANGED <<files, main>>

\* Mutant: the step runs after a failure, too.
Push_Always ==
  /\ pc \in {"exit", "failed"}
  /\ pc' = "pushed"
  /\ main' = files
  /\ UNCHANGED files

\* git push: refused when another job has pushed since the checkout.
Push ==
  /\ pc = "exit"
  /\ \/ pc' = "pushed" /\ main' = files
     \/ pc' = "rejected" /\ UNCHANGED main
  /\ UNCHANGED files
=============================================================================
