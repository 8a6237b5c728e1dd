------------------------------ MODULE MCLogins ------------------------------
(* Small instances of Logins for TLC.                                       *)
EXTENDS Logins, TLC

CONSTANTS a, b, n1, n2

MCIds == {a, b}
MCNonces == {n1, n2}

\* Absent, an empty array, an empty string, a number, one client, two clients
\* (one of them twice, too), and a client and a number.
MCAudiences ==
  {NoAud, <<>>, <<None>>, <<Truthy>>}
    \cup {<<i>> : i \in MCIds} \cup {<<i, j>> : i, j \in MCIds}
    \cup {<<i, Truthy>> : i \in MCIds}

MCSymmetry == Permutations(MCIds) \cup Permutations(MCNonces)
=============================================================================
