SPECIFICATION Spec
CONSTANTS
    Instances = {"a", "b"}
    Workloads <- CheckedWorkloads
    MaxKeys = 3
\* An instance that came up without a pool runs on without key rotation.
CHECK_DEADLOCK FALSE
INVARIANT AtMostOneActive
INVARIANT ReplacedOnce
INVARIANT SigningKeyVerifiable
INVARIANT JwtAccepted
PROPERTY SigningResumes
