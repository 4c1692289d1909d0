--------------------------- MODULE MCOutboundWork ---------------------------
EXTENDS OutboundWork, TLC

CONSTANTS j1, w1, w2

Processes == Permutations(Workers)

=============================================================================
