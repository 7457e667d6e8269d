------------------------------- MODULE MCEras -------------------------------
(***************************************************************************)
(* Eras for three validators: of the genesis, activated in the first era,  *)
(* and exiting.                                                            *)
(***************************************************************************)
EXTENDS Eras

MCRecord ==
  [v \in Validators |->
     CASE v = "stays" -> [since |-> 0, act |-> 0, exit |-> 9]
       [] v = "joins" -> [since |-> 1, act |-> 1, exit |-> 9]
       [] v = "leaves" -> [since |-> 0, act |-> 0, exit |-> 2]]

Config(dynamic, skips, restart, lookups, prompt) ==
  [dynamic |-> dynamic, skips |-> skips, restart |-> restart,
   lookups |-> lookups, prompt |-> prompt]

\* Checkpoints of all epochs or of some, eras of a fixed length or a growing
\* one, and restarts.
MCConfigs ==
  {Config(FALSE, FALSE, "never", TRUE, TRUE), Config(FALSE, TRUE, "never", FALSE, FALSE),
   Config(TRUE, FALSE, "never", FALSE, FALSE), Config(FALSE, TRUE, "any", FALSE, TRUE),
   Config(FALSE, FALSE, "clean", TRUE, TRUE)}

\* Restarts, with a checkpoint in every epoch.
MCRestartConfigs == {Config(FALSE, FALSE, "clean", FALSE, TRUE)}

=============================================================================
