--------------------------- MODULE MCIntakeStaging ---------------------------
EXTENDS IntakeStaging, TLC

CONSTANT d1
=============================================================================
