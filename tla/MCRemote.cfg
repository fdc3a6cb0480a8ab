\* One key of each type: the debouncing needs ReleaseScans = BounceScans + 3 at least.
CONSTANTS
    ConsumerKeys = {home}
    KeyboardKeys = {enter}
    VOICE = VOICE
    ReleaseScans = 4
    BounceScans = 1
    OtaBlinks = 1
SPECIFICATION Spec
INVARIANTS
    AtRest
    MicShown
PROPERTY
    LeftAloneSleeps
