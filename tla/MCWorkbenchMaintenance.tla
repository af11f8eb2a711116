----------------------- MODULE MCWorkbenchMaintenance -----------------------
(***************************************************************************)
(* Two rows of the server, two backups, two restores, two faults.          *)
(***************************************************************************)
EXTENDS WorkbenchMaintenance
=============================================================================
