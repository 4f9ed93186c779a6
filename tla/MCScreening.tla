------------------------------ MODULE MCScreening ------------------------------
\* Small instances of ScreeningAttempts for TLC.
EXTENDS ScreeningAttempts, TLC

CONSTANTS a1, a2

NoCopies == {}
OneCopy == {<<a1, a2>>}
=============================================================================
