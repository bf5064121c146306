\* Three requests and up to three faults between or within their steps.
CONSTANTS
    Request = {q1, q2, q3}
    Photo = {p1, p2}
    Status = {"open", "assigned", "resolved"}
    None = None
    MaxFaults = 3
SYMMETRY Both
SPECIFICATION Spec
INVARIANTS UniquePhoto AuditTrail NothingSaved NoStrayFile
           ImagePresent EvidencePresent
PROPERTY Implements
CHECK_DEADLOCK FALSE
