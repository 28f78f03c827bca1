----------------------------- MODULE MCThreadPool -----------------------------
(* Values for the constants of ThreadPool that a cfg file cannot spell.    *)
EXTENDS ThreadPool

\* core counts outside 0 .. MaxCores are refused, 0 stands for one core
AllRequests == -1 .. MaxCores+1

\* The properties say nothing of what follows the race on job_number: the runs
\* that check them need not follow it either.
BeforeRace == ~raced
==============================================================================
