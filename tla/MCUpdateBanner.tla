------------------------- MODULE MCUpdateBanner -------------------------
EXTENDS UpdateBanner
=========================================================================
