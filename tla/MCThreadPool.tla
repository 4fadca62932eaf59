--------------------------- MODULE MCThreadPool ---------------------------
(* ThreadPool for TLC: three workers, so that two can sleep while one runs;*)
(* three jobs that return and one that throws, all in flight at once.      *)
EXTENDS ThreadPool
=============================================================================
