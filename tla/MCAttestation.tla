--------------------------- MODULE MCAttestation ----------------------------
EXTENDS Attestation
=============================================================================
