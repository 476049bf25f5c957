---------------------------- MODULE MCSiteAccess ----------------------------
(* Instances of SiteAccess for TLC. *)
EXTENDS SiteAccess, TLC

CONSTANTS o1, o2, s1, s2, s3

\* Two sites in the first organization, one in the second.
SitesOfOrganizations == s1 :> o1 @@ s2 :> o1 @@ s3 :> o2
=============================================================================
