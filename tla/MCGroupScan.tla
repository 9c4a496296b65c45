------------------------------ MODULE MCGroupScan ------------------------------
(* Instances of GroupScan for TLC. *)
EXTENDS GroupScan

\* Files of four bytes, samples of one: the byte at offset 1 is no sample.
\* All have the same samples; e and h are equal, and opens and reads of d, which
\* differs and has grown, may fail.
ThreeFiles   == {"d", "e", "h"}
ThreeGroup   == <<"e", "d", "h">>
ThreeContent == [d |-> <<1, 1, 1, 1, 1>>, e |-> <<1, 2, 1, 1>>, h |-> <<1, 2, 1, 1>>]
OneFaulty    == {"d"}

\* Files of one byte: what is sampled is the whole file.
SmallFiles   == {"f", "g", "h"}
SmallGroup   == <<"f", "h", "g">>
SmallContent == [f |-> <<1>>, g |-> <<2>>, h |-> <<1>>]
TwoFaulty    == {"f", "g"}
=============================================================================
