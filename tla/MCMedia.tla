-------------------------------- MODULE MCMedia --------------------------------
(* Media with files of up to four bytes, numerals up to one beyond u64, and   *)
(* reads of two bytes.                                                        *)
EXTENDS Media

SomeContents == {<<>>, <<1, 2, 3>>, <<3, 1>>}

SomeRanges ==
  {[form |-> "none"], [form |-> "malformed"]}
  \cup {[form |-> "first-last", first |-> m, last |-> n] :
          m \in {0, 1, 3}, n \in {0, 1, 2, 3, U64Max, U64Max + 1}}
  \cup {[form |-> "first-", first |-> n] : n \in {0, 2, 3, U64Max + 1}}
  \cup {[form |-> "-suffix", suffix |-> n] : n \in {0, 1, 2, 3, U64Max, U64Max + 1}}

===============================================================================
