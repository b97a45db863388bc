----------------------------- MODULE MCModeration -----------------------------
(* Instances of Moderation for TLC. Moderators, and requests, are all alike: *)
(* no property of this run is temporal.                                      *)
EXTENDS Moderation, TLC

Alike == Permutations(Moderators) \union Permutations(Requests)
=============================================================================
