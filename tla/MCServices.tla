----------------------------- MODULE MCServices -----------------------------
(* Services for TLC: two or three of everything, and a site of six pages.  *)
EXTENDS Services
CONSTANTS s, t, o
SiteSeeds == <<s, t, o>>
=============================================================================
