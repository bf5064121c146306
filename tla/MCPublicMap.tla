------------------------------ MODULE MCPublicMap ------------------------------
\* Values for PublicMap: two reports of two categories and one visitor.
EXTENDS PublicMap, TLC

CONSTANTS r1, r2

TwoCategories == r1 :> "a" @@ r2 :> "b"
=============================================================================
