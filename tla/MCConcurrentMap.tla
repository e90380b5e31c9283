---------------------------- MODULE MCConcurrentMap ----------------------------
(***************************************************************************)
(* Small instances of ConcurrentMap.                                       *)
(***************************************************************************)
EXTENDS ConcurrentMap

Do(o, k) == [op |-> o, key |-> k]

\* Main fills the map and goes on using it beside the other threads.
MCMainScripts ==
  { <<Do("Update", 0), Do("async", 0), Do("Update", 1), Do("Dump", 0), Do("join", 0)>>,
    <<Do("Update", 0), Do("async", 0), Do("Remove", 1), Do("Update", 0), Do("join", 0)>> }

MCScripts ==
  { <<Do("Get", 0), Do("Get", 1)>>, <<Do("Update", 0), Do("Fetch", 0)>>,
    <<Do("Dump", 0)>>, <<Do("Remove", 1), Do("Update", 1)>>, <<Do("FetchUpdates", 1)>> }
=============================================================================
