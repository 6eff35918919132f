------------------------------ MODULE Streams -------------------------------
(***************************************************************************)
(* Sequences read as streams: what one end put in against what the other   *)
(* end took out.                                                           *)
(***************************************************************************)
EXTENDS Integers, Sequences, Functions

(* The stream t begins with s.                                             *)
IsStartOf(s, t) == Len(s) <= Len(t) /\ \A i \in 1..Len(s) : s[i] = t[i]

=============================================================================
