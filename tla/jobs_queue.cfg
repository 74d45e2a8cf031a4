SPECIFICATION Spec
CONSTANTS
    JobIds = {j1}
    pauseId = pauseId
    noId = noId
    jobtopic = TRUE
    None = None
    MaxTime = 2
    MaxFaults = 1
PROPERTIES
    QueuedTransmission
