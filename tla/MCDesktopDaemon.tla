--------------------------- MODULE MCDesktopDaemon ---------------------------
EXTENDS DesktopDaemon
=============================================================================
