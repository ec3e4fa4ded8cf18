--------------------------- MODULE MCReleasePoller ---------------------------
EXTENDS ReleasePoller
==============================================================================
