SPECIFICATION Spec
CONSTANTS
    NumMail = 2
    KindOf <- MailKind
    MaxDaemon = 2
    MaxSupervisor = 3
    MaxAttempt = 2
INVARIANTS
    TypeOK
    HandedOverAtMostOnce
    ReceiptMeansHandedOver
PROPERTIES
    OldClaimNeedsOperator
CHECK_DEADLOCK FALSE
