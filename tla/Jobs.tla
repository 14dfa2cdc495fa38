-------------------------------- MODULE Jobs --------------------------------
(***************************************************************************)
(* A job of any class against a server: the behaviours of the classes side *)
(* by side, one of which each behaviour takes.                             *)
(***************************************************************************)
EXTENDS LoginJob, ListJob, FetchJob, SelectJob, IdleJob, MessageJobs, AccountJobs, ServerJobs, MetaDataJobs

vars == <<jobVars, loginVars, listVars, fetchVars, selectVars, idleVars, dataVars, metaVars>>

Init ==
  /\ JobInit
  /\ LoginInit /\ ListInit /\ FetchInit /\ SelectInit /\ IdleInit /\ DataInit /\ MetaInit

Next ==
  \/ LoginNext /\ UNCHANGED <<listVars, fetchVars, selectVars, idleVars, dataVars, metaVars>>
  \/ ListNext /\ UNCHANGED <<loginVars, fetchVars, selectVars, idleVars, dataVars, metaVars>>
  \/ FetchNext /\ UNCHANGED <<loginVars, listVars, selectVars, idleVars, dataVars, metaVars>>
  \/ SelectNext /\ UNCHANGED <<loginVars, listVars, fetchVars, idleVars, dataVars, metaVars>>
  \/ IdleNext /\ UNCHANGED <<loginVars, listVars, fetchVars, selectVars, dataVars, metaVars>>
  \/ MessageNext /\ UNCHANGED <<loginVars, listVars, fetchVars, selectVars, idleVars, metaVars>>
  \/ AccountNext /\ UNCHANGED <<loginVars, listVars, fetchVars, selectVars, idleVars, metaVars>>
  \/ ServerNext /\ UNCHANGED <<loginVars, listVars, fetchVars, selectVars, idleVars, metaVars>>
  \/ MetaNext /\ UNCHANGED <<loginVars, listVars, fetchVars, selectVars, idleVars>>

Spec == Init /\ [][Next]_vars
=============================================================================
