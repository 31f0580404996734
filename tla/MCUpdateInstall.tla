------------------------ MODULE MCUpdateInstall ------------------------
EXTENDS UpdateInstall
=========================================================================
