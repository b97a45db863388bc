---------------------------- MODULE MCVoiceLedger ---------------------------
(* Instances of VoiceLedger for TLC.                                         *)
EXTENDS VoiceLedger, TLC

\* Requests are interchangeable, and so are countries; voices are not, as some
\* belong to the member. Sound for runs that check invariants only.
Symmetry == Permutations(Requests) \union Permutations(Countries)
=============================================================================
