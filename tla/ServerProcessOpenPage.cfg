\* A page stays open while the server is told to stop.
SPECIFICATION FairSpec
CONSTANTS
    Old = {o1}
    MaxNew = 0
    MaxJobs = 1
    MaxSending = 0
    MaxPages = 1
PROPERTIES
    SignalStopsTransport
