----------------------------- MODULE MCThreadPool -----------------------------
(***************************************************************************)
(* Small instances of ThreadPool.                                          *)
(***************************************************************************)
EXTENDS ThreadPool

\* Clients that wait and clients that leave their tasks to the destructor.
MCScripts ==
  { <<"leaf", "wait_all">>, <<"spawner", "wait_all">>, <<"leaf", "leaf">>, <<"wait_all">> }
=============================================================================
