-------------------------------- MODULE MCSite --------------------------------
(***************************************************************************)
(* Seven parts that share nothing, checked in one run: each behaviour is   *)
(* one of one part, chosen at the start, and the variables of the others   *)
(* keep their initial values. These are the parts that promise what never  *)
(* happens; those that promise what happens in the end are in MCProgress.  *)
(***************************************************************************)
EXTENDS Community, WallPages, Consent, Uploads, Presence, Photos, Catalogues

VARIABLE part

vars == <<community, wallpages, consent, uploads, presence, photos, catalogues, part>>

Init ==
  /\ part \in {"community", "wall", "consent", "uploads", "presence", "photos", "catalogues"}
  /\ CommunityInit /\ WallPagesInit /\ ConsentInit /\ UploadsInit /\ PresenceInit
  /\ PhotosInit /\ CataloguesInit

Next ==
  /\ UNCHANGED part
  /\ \/ part = "community" /\ CommunityNext
        /\ UNCHANGED <<wallpages, consent, uploads, presence, photos, catalogues>>
     \/ part = "wall" /\ WallPagesNext
        /\ UNCHANGED <<community, consent, uploads, presence, photos, catalogues>>
     \/ part = "consent" /\ ConsentNext
        /\ UNCHANGED <<community, wallpages, uploads, presence, photos, catalogues>>
     \/ part = "uploads" /\ UploadsNext
        /\ UNCHANGED <<community, wallpages, consent, presence, photos, catalogues>>
     \/ part = "presence" /\ PresenceNext
        /\ UNCHANGED <<community, wallpages, consent, uploads, photos, catalogues>>
     \/ part = "photos" /\ PhotosNext
        /\ UNCHANGED <<community, wallpages, consent, uploads, presence, catalogues>>
     \/ part = "catalogues" /\ CataloguesNext
        /\ UNCHANGED <<community, wallpages, consent, uploads, presence, photos>>

Spec == Init /\ [][Next]_vars
=============================================================================
