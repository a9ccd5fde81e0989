SPECIFICATION RepeatingSpec
CONSTANTS
    Assets = {a1, a2}
    Batches = {b1}
    Lists = {l1}
    Requests = {h1, h2}
    MaxFaults = 1
    None = none
INVARIANTS AnnouncementsHold SavedStaysVisible
PROPERTIES SubmissionIsAnnounced DecisionIsAnnounced
