----------------------------- MODULE MCDiscovery ------------------------------
(* Discovery, and with it Lifecycle, on small instances.                     *)
EXTENDS Discovery

===============================================================================
