SPECIFICATION FairSpec

CONSTANTS
    MaxOffers = 2
    MaxEvents = 2
    MaxPending = 1
    Capacity = 1

INVARIANTS
    AnswerMatches
    Converges
    CandidatesUsable
    EventsExact

PROPERTIES
    OfferReplied
    NegotiableAgain

\* The call ends with its last offer.
CHECK_DEADLOCK FALSE
