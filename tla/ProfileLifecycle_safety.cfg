SPECIFICATION Spec
CONSTANTS
    Profiles = {p1, p2}
    None = None
    Otp = {p1, p2}
    SpmodeVpn = TRUE
    SystemProxy = TRUE
    MaxClicks = 2
    MaxCrashes = 1
    MaxLost = 1
    MaxSpawnErrors = 1
SYMMETRY Symmetric
INVARIANTS GuiMatchesCore StartFindsNoBox FilterCoversGap  NobodyIsStuck
CHECK_DEADLOCK FALSE
