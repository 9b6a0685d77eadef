\* Deploys, restores and toggles; starts among deploys; killed anywhere, and a Steam update.
CONSTANTS
    a1 = a1
    a2 = a2
    t1 = t1
    t2 = t2
    Foreign = Foreign
    Torn = Torn
    None = None
    Actors <- MCActors
    Tracks <- MCTracks
    Damages <- MCDamages
    Offers <- MCOffers
    MaxUpdates = 1
    MaxFailures = 1
SPECIFICATION EditsSpec
INVARIANTS OneBuild WayBack PenaltiesBack ServedAsAsked
PROPERTIES TracksKept
SYMMETRY Symmetric
