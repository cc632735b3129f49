---------------------------- MODULE MCEventLoop ----------------------------
EXTENDS EventLoop, TLC

CONSTANTS p1, p2, i1, i2

MCPostOps == {p1, p2}
MCIoOps == {i1, i2}
=============================================================================
