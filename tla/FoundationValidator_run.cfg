SPECIFICATION Spec
CONSTANTS
    Modules = {"kms_key", "iam_role"}
    Roots = {"mgmt/org", "live/shared"}
    Regions = {"us-east-1", "us-west-2"}
    OUs = {"Workloads", "Sandbox"}
    MaxWrong = 2
INVARIANTS PassIsSound FailIsReal CrashOnlyUnequipped
CHECK_DEADLOCK FALSE
