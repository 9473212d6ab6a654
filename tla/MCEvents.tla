------------------------------- MODULE MCEvents -------------------------------
(* Events on small instances.                                               *)
EXTENDS Events

===============================================================================
