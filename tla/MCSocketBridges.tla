--------------------------- MODULE MCSocketBridges ---------------------------
\* Instances of SocketBridges for TLC.
EXTENDS SocketBridges

AllKinds == {"cdp", "native", "playwright", "session", "target", "vnc"}
=============================================================================
