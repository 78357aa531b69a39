---------------------------- MODULE MC_Components ----------------------------
(* The values of the constants that a .cfg cannot write *)
EXTENDS Components

\* A link to a name beside it, one to itself, and paths of one and two names
LinkTargets == {<<"a">>, <<"b">>}
AskedPaths == {<<"a">>, <<"a", "b">>}

\* Edit units whose packets are of equal and of different lengths, one with a
\* partition before it
EditUnits == <<[at |-> 10, len |-> <<4, 5>>], [at |-> 19, len |-> <<5, 4>>], [at |-> 31, len |-> <<4, 4>>]>>

=============================================================================
