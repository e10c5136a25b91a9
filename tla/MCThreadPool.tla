---------------------------- MODULE MCThreadPool ----------------------------
(***************************************************************************)
(* Model-checking instance of ThreadPool: three workers, two clients, three  *)
(* tasks.                                                                  *)
(***************************************************************************)
EXTENDS ThreadPool

CONSTANTS c1, c2, t1, t2, t3

MCClient == {c1, c2}
MCTask == {t1, t2, t3}

=============================================================================
