SPECIFICATION Spec
CONSTANTS
    Challenges = 2
    MaxExtras = 2
INVARIANTS OneSession DeniedStaysOut DoneMeansApproved
PROPERTIES ApprovalReachesTarget PhoneSettles
CHECK_DEADLOCK FALSE
