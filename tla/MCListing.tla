----------------------------- MODULE MCListing -----------------------------
EXTENDS Listing
\* The last one is past MaxSlice.
MCSizes == {-1, 0, 1, 3, 9}
=============================================================================
