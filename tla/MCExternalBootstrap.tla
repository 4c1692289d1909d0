------------------------- MODULE MCExternalBootstrap -------------------------
EXTENDS ExternalBootstrap

CONSTANT b1

=============================================================================
