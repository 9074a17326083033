------------------------------ MODULE MCTheNews ------------------------------
(* TheNews with the default sources of UserDetails.                        *)
EXTENDS TheNews

CONSTANTS tBanki, tFinam, uBanki, uFinam

MCDefaultTitles == <<tBanki, tFinam>>
MCDefaultUrls   == <<uBanki, uFinam>>
=============================================================================
