\* Two profiles and the active file, 93 firmware requests, power lost anywhere.
CONSTANTS
    Profiles = {n1, n2, activeTxt}
    ActiveFile = activeTxt
    Bodies <- AllBodies
    Boundary <- CRLF
    BufferLength = 4
SPECIFICATION UploadSpec
INVARIANTS
    ProfilesWhole
    ActiveExists
    InstallsWhatWasSent
