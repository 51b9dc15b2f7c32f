-------------------------------- MODULE MCDsBus --------------------------------
(* Instances of DsBus: every constant is given in the .cfg files.             *)
EXTENDS DsBus
==============================================================================
