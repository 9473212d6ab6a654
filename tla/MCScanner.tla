------------------------------ MODULE MCScanner -------------------------------
(* Scanner on small instances. *)
EXTENDS Scanner

CONSTANTS f1, f2, movies, music

Both == {movies, music}

\* A config with both shares, and one that drops a share and is quicker.
Wide == [shares |-> Both, settle |-> 3, rescan |-> 3, watch |-> TRUE]
Narrow == [shares |-> {movies}, settle |-> 2, rescan |-> 2, watch |-> FALSE]

TwoConfigs == {Wide, Narrow}

ShareOfTwo == [f \in Files |-> IF f = f1 THEN movies ELSE music]

===============================================================================
