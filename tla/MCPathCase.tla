----------------------------- MODULE MCPathCase -----------------------------
(* Instances of PathCase for TLC: a handful of members and request slots.    *)
EXTENDS PathCase, TLC

\* Members are interchangeable, and so are request slots; sound for runs that
\* check invariants only.
Symmetry == Permutations(Users) \union Permutations(Requests)

\* Requests are cut short before the case is active, not after: a crash between
\* closing a case and scheduling its follow-ups leaves it without.
CutShortEarly == crashes' > crashes => case.status \in {"NONE", "AWAITING_CONSENT"}
=============================================================================
