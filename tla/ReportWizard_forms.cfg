SPECIFICATION WizardSpec
CONSTANTS
    None = None
    Centre = Centre
    Photo = {tagged, plain}
    Tagged = {tagged}
    Fix = {here, far}
    Pin = {pin}
    Outside = {far}
    MaxAsks = 1
    MaxPosts = 2
INVARIANTS ConfirmedIsMeasured SourceNotOverstated LabelOfForm SuccessIsStored
CHECK_DEADLOCK FALSE
