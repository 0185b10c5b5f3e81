\* Two sessions contend for one place under the cap, two workers for a receipt.
SPECIFICATION Spec
PROPERTIES EvidenceKept SuccessIsFinal OneAttemptPerRetry
SYMMETRY CaptureSymmetry
CONSTANTS
    s1 = s1  s2 = s2  w1 = w1  w2 = w2
    None = None
    Sessions = {s1, s2}
    Workers = {w1, w2}
    MaxCount = 1
    Limit = 2
    MaxRetries = 1
    MaxFaults = 1
CHECK_DEADLOCK FALSE
VIEW CaptureView
