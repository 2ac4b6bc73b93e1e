------------------------- MODULE ConfigRefinement -------------------------
(***************************************************************************)
(* The two slots of ConfigStore seen as the one durable cell of            *)
(* ConfigCell.                                                             *)
(***************************************************************************)
EXTENDS ConfigStore

CONSTANT None

ASSUME NoneAssumption == None \notin Config

Cell == INSTANCE ConfigCell WITH
          stored  <- RebootConfig,
          running <- IF task = "boot" THEN RebootConfig ELSE config,
          request <- IF task = "commit_save" THEN call.data.payload ELSE None

(* Commits are atomic: with the sequence of file-system calls of a commit  *)
(* interrupted anywhere by a failure or a power cut, the device behaves as *)
(* if each commit happened at one instant or not at all.                   *)
CommitsAreAtomic == Cell!Spec

=============================================================================
