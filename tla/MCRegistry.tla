------------------------------ MODULE MCRegistry ------------------------------
(* Registry with interchangeable addresses. *)
EXTENDS Registry, TLC

\* Host is a set of model values, used only in comparisons.
Addresses == Permutations(Host)

=============================================================================
