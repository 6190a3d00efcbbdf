------------------------------- MODULE MCDriver -------------------------------
(***************************************************************************)
(* Two sessions, or a session and a user, who enter a few programs.        *)
(***************************************************************************)
EXTENDS Driver, TLC

CONSTANTS s1, s2, c1

MCSessions == {s1, s2}
MCAlone    == {s1}
MCClients  == {c1}
MCNobody   == {}

\* Sessions differ in nothing but their name.
Symmetry == Permutations(MCSessions)

==============================================================================
