SPECIFICATION Spec

CONSTANTS
    MaxGen = 3
    MaxPickers = 2

INVARIANTS
    TypeOK
    PreviewAlive
    CaptureOwned
    MuteSettles
    GainFollowsMic
    ScreenSettles
    OfferSent

\* A call comes to its end.
CHECK_DEADLOCK FALSE
