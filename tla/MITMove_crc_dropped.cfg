\* MWA_MIT_MOVE with two connection attempts per trial and no alteration in
\* transit: a trial after a failed reply sends the reply's headers, without
\* the CRC and with the reply's content-length.
CONSTANTS
    ConnectRetries = 2
    TransitCorruption = FALSE
SPECIFICATION Spec
CHECK_DEADLOCK FALSE
INVARIANT IntactCopySurvives
