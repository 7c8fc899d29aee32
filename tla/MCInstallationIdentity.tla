------------------------- MODULE MCInstallationIdentity -------------------------
(* Small sets of starting services for InstallationIdentity. *)
EXTENDS InstallationIdentity
=============================================================================
