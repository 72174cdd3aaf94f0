--------------------------- MODULE MCSponsorPool ---------------------------
(***************************************************************************)
(* Small instances of SponsorPool.                                         *)
(***************************************************************************)
EXTENDS SponsorPool

\* The rent minimum of a pool of 32 bytes is 1, of a larger one 2.
MCRent(s) == IF s <= 32 THEN 1 ELSE 2
=============================================================================
