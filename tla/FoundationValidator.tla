------------------------ MODULE FoundationValidator ------------------------
(***************************************************************************)
(* validate_foundation.py: a run of checks over the repository and the AWS   *)
(* organization, each adding results to a suite, and an exit code at the end *)
(* that gates the work built on the foundation.                             *)
(*                                                                         *)
(* The world is what is wrong in it and which queries fail; it does not      *)
(* change during a run.  One action per check_ function, in main's order.   *)
(* A control is a pair: the check it belongs to, and its name.              *)
(***************************************************************************)
EXTENDS Naturals, Sequences, FiniteSets, SequencesExt

CONSTANTS
    Modules, \* MODULES_EXPECTED
    Roots,   \* TF_ROOTS
    Regions, \* the primary and the replica region
    OUs,     \* REQUIRED_OUS
    MaxWrong \* bound: wrong facts and failing queries in one world

ASSUME BoundAssumption == MaxWrong \in Nat

VARIABLES
    wrong,   \* the controls that do not hold
    refused, \* the AWS queries that fail
    skip,    \* --skip-local and --skip-aws
    step,    \* the place in Checks of the check to run next
    results, \* s.results: [name, ok, severity]
    rootId,  \* was the organization's root found?
    ouMap,   \* the organizational units found
    exit     \* "none" while running, "crash", or the exit code

world == <<wrong, refused, skip>>
vars  == <<world, step, results, rootId, ouMap, exit>>

Targets == OUs \cup {"root"}

\* REQUIRED_TOOLS; of the others none is run.
Programs == {"git", "aws", "terraform", "pre-commit"}

Of(check, names) == {check} \X names

LocalControls ==
    {"tools"} \X Programs
    \cup Of("repo", {"infra", "directories", "core_files", "codeowners"})
    \cup Of("github", {"issue_templates", "pr_template", "dependabot", "changelog",
                       "adr_log", "site_scaffold", "workflows", "security_scans", "semver"})
    \cup Of("precommit", {"hooks"})
    \cup Of("layout", {"live", "modules_root", "tflint", "checkov", "terraform_docs"})
    \cup Of("module", Modules) \cup Of("tf_root", Roots)
    \cup Of("init", Roots) \cup Of("validate", Roots)
    \cup Of("local", {"terraform_fmt", "pre_commit_all_files"})

AwsControls ==
    Of("aws", {"identity"})
    \cup Of("org", {"feature_set", "service_access", "roots"}) \cup Of("ou", OUs)
    \cup Of("bucket", {"encryption", "versioning", "public_access_block", "replication"})
    \cup Of("lock_table", {"exists", "sse"})
    \cup Of("control_tower", {"landing_zone"})
    \cup Of("cloudtrail", {"org_trail", "multi_region", "kms", "log_file_validation",
                           "logging", "cloudwatch_logs"})
    \cup Of("config", {"aggregator", "org_source"})
    \cup Of("guardduty", {"admin_account"})
    \cup {"found", "enabled", "frequency"} \X Regions
    \cup Of("securityhub", {"admin_account", "standards", "finding_aggregator"})
    \cup Of("finops", {"budgets", "anomaly_monitors", "anomaly_subscriptions"})
    \cup Of("scp", {"policies_exist"}) \cup Of("attachments", Targets)

Controls == LocalControls \cup AwsControls

\* The controls added with severity="warn".
Advisory ==
    Of("github", {"changelog", "adr_log", "site_scaffold", "semver"})
    \cup Of("layout", {"terraform_docs"}) \cup Of("local", {"pre_commit_all_files"})
    \cup Of("cloudtrail", {"kms", "cloudwatch_logs"}) \cup Of("attachments", Targets)

\* A query is named by the control it fails.
SoftQueries == Of("bucket", {"replication"}) \cup Of("control_tower", {"landing_zone"})
Queries ==
    SoftQueries
    \cup Of("aws", {"identity"}) \cup Of("org", {"describe", "service_access", "roots", "ous"})
    \cup Of("bucket", {"encryption", "versioning", "public_access_block"})
    \cup Of("lock_table", {"exists"}) \cup Of("cloudtrail", {"describe", "logging"})
    \cup Of("config", {"aggregator"}) \cup Of("guardduty", {"admin_account"})
    \cup {"found", "detector"} \X Regions
    \cup Of("securityhub", {"admin_account", "standards", "finding_aggregator"})
    \cup Of("finops", {"budgets", "anomaly_monitors", "anomaly_subscriptions"})
    \cup Of("scp", {"policies_exist"}) \cup Of("attachments", Targets)

Checks == <<"tools", "repo", "github", "precommit", "layout", "commands",
            "identity", "organization", "ous", "backend", "control_tower", "cloudtrail",
            "config", "guardduty", "securityhub", "finops", "scps">>

\* The first six are the local ones, the others AWS's.
Begin == IF "local" \in skip THEN 7 ELSE 1
End   == IF "aws" \in skip THEN 6 ELSE 17

Init ==
    /\ \E n \in 0..MaxWrong : \E m \in 0..(MaxWrong - n) :
          /\ \E facts \in [1..n -> Controls] : wrong = ToSet(facts)
          /\ \E queries \in [1..m -> Queries] : refused = ToSet(queries)
    /\ skip \in SUBSET {"local", "aws"} /\ step = Begin
    /\ results = {} /\ rootId = FALSE /\ ouMap = {} /\ exit = "none"

----------------------------------------------------------------------------
(* Results. *)

Holds(controls) == controls \cap wrong = {}

Result(name, ok, severity) == {[name |-> name, ok |-> ok, severity |-> severity]}

Judged(controls) ==
    UNION {Result(c, Holds({c}), IF c \in Advisory THEN "warn" ELSE "fail") : c \in controls}

\* Mutant: every query that fails is a failure.
RefusalHard(query) == Result(query, FALSE, "fail")

\* aws_json: not ok.
Refusal(query) ==
    Result(query, FALSE, IF query \in SoftQueries THEN "warn" ELSE "fail")

Answered(query, found) == IF query \in refused THEN Refusal(query) ELSE found

\* A query and the control of the same name.
Asked(controls) == UNION {Answered(c, Judged({c})) : c \in controls}

At(check) == exit = "none" /\ step <= End /\ Checks[step] = check

Add(found) == results' = results \cup found /\ step' = step + 1 /\ UNCHANGED exit

\* A program that is not on the PATH, or a directory to run it in that is not
\* there: subprocess raises, and nothing catches it.
Crash == exit' = "crash" /\ UNCHANGED <<step, results>>

Kept == UNCHANGED <<world, rootId, ouMap>>

----------------------------------------------------------------------------
(* The checks of the repository. *)

CheckTools ==
    /\ At("tools") /\ Kept
    /\ Add(Result(<<"tools", "installed">>, Holds({"tools"} \X Programs), "fail"))

CheckRepoStructure ==
    /\ At("repo") /\ Kept
    /\ Add(Result(<<"repo", "directories">>, Holds(Of("repo", {"infra", "directories"})), "fail")
             \cup Judged(Of("repo", {"core_files", "codeowners"})))

CheckGithubStandards ==
    /\ At("github") /\ Kept
    /\ Add(Judged({c \in LocalControls : c[1] = "github"}))

CheckPreCommit ==
    /\ At("precommit") /\ Kept
    /\ Add(Judged(Of("precommit", {"hooks"})))

CheckTerraformLayout ==
    /\ At("layout") /\ Kept
    /\ Add(Judged({c \in LocalControls : c[1] \in {"layout", "module", "tf_root"}}))

CheckLocalValidationCommands ==
    /\ At("commands") /\ Kept
    /\ IF Holds(Of("tools", {"terraform", "pre-commit"}) \cup Of("repo", {"infra"}))
       THEN Add(Judged(Of("local", {"terraform_fmt", "pre_commit_all_files"}))
                  \cup UNION {Result(<<"validate", r>>,
                                     Holds({"tf_root", "init", "validate"} \X {r}), "fail")
                              : r \in Roots})
       ELSE Crash

----------------------------------------------------------------------------
(* The checks of AWS. *)

CheckAwsIdentity ==
    /\ At("identity") /\ Kept
    /\ IF Holds(Of("tools", {"aws"})) THEN Add(Asked(Of("aws", {"identity"}))) ELSE Crash

\* The root, if any, is what check_organization returns.
Organization(withoutRoots) ==
    LET describe == <<"org", "describe">>
        roots    == <<"org", "roots">>
    IN  /\ At("organization")
        /\ Add(Answered(describe,
                   Judged(Of("org", {"feature_set"}))
                      \cup Asked(Of("org", {"service_access"}))
                      \cup IF roots \in refused THEN withoutRoots ELSE Judged({roots})))
        /\ rootId' = (refused \cap {describe, roots} = {} /\ Holds({roots}))
        /\ UNCHANGED <<world, ouMap>>

\* Mutant: roots that cannot be listed are not reported.
CheckOrganizationQuietly == Organization({})

CheckOrganization == Organization(Refusal(<<"org", "roots">>))

\* Mutant: the units are asked for even without a root to ask for.
CheckOusAlways ==
    LET query == <<"org", "ous">>
        found == {ou \in OUs : Holds({<<"ou", ou>>})}
    IN  /\ At("ous")
        /\ IF rootId
           THEN /\ Add(Answered(query, Result(query, found = OUs, "fail")))
                /\ ouMap' = IF query \in refused THEN {} ELSE found
           ELSE Crash /\ UNCHANGED ouMap
        /\ UNCHANGED <<world, rootId>>

CheckOus ==
    LET query == <<"org", "ous">>
        found == {ou \in OUs : Holds({<<"ou", ou>>})}
    IN  /\ At("ous")
        /\ IF rootId
           THEN /\ Add(Answered(query, Result(query, found = OUs, "fail")))
                /\ ouMap' = IF query \in refused THEN {} ELSE found
           ELSE Add({}) /\ UNCHANGED ouMap
        /\ UNCHANGED <<world, rootId>>

CheckStateBackend ==
    /\ At("backend") /\ Kept
    /\ Add(Asked({c \in AwsControls : c[1] = "bucket"})
             \cup Answered(<<"lock_table", "exists">>, Judged(Of("lock_table", {"exists", "sse"}))))

CheckControlTower ==
    /\ At("control_tower") /\ Kept
    /\ Add(Asked(Of("control_tower", {"landing_zone"})))

CheckCloudtrail ==
    LET trail  == <<"cloudtrail", "org_trail">>
        status == <<"cloudtrail", "logging">>
    IN  /\ At("cloudtrail") /\ Kept
        /\ Add(Answered(<<"cloudtrail", "describe">>,
                  IF Holds({trail})
                  THEN Judged(Of("cloudtrail", {"org_trail", "multi_region", "kms",
                                                "log_file_validation"}))
                          \cup Answered(status, Judged({status, <<"cloudtrail", "cloudwatch_logs">>}))
                  ELSE Judged({trail})))

CheckConfigAggregator ==
    LET aggregator == <<"config", "aggregator">>
    IN  /\ At("config") /\ Kept
        /\ Add(Answered(aggregator,
                  Judged({aggregator}
                     \cup IF Holds({aggregator}) THEN Of("config", {"org_source"}) ELSE {})))

\* A detector is listed, then read.
CheckGuardduty ==
    /\ At("guardduty") /\ Kept
    /\ Add(Asked(Of("guardduty", {"admin_account"}))
             \cup UNION {Answered(<<"found", r>>,
                            IF Holds({<<"found", r>>})
                            THEN Answered(<<"detector", r>>, Judged({"enabled", "frequency"} \X {r}))
                            ELSE Judged({<<"found", r>>})) : r \in Regions})

CheckSecurityHub ==
    /\ At("securityhub") /\ Kept
    /\ Add(Asked({c \in AwsControls : c[1] = "securityhub"}))

CheckBudgetsAndAnomalies ==
    /\ At("finops") /\ Kept
    /\ Add(Asked({c \in AwsControls : c[1] = "finops"}))

\* A unit that was not found fails its attachments; attachments that do not
\* match are a warning.
CheckScps ==
    /\ At("scps") /\ Kept
    /\ Add(IF ~rootId THEN {}
           ELSE Answered(<<"scp", "policies_exist">>,
                   Judged(Of("scp", {"policies_exist"}))
                      \cup UNION {LET target == <<"attachments", t>>
                                  IN  IF t \in ouMap \cup {"root"} THEN Asked({target})
                                      ELSE Result(target, FALSE, "fail") : t \in Targets}))

----------------------------------------------------------------------------
(* The report. *)

Failures == {r \in results : ~r.ok /\ r.severity = "fail"}

\* The width of the names is a max, which an empty suite does not have.
PrintSummary ==
    /\ exit = "none" /\ step > End
    /\ exit' = IF results = {} THEN "crash" ELSE IF Failures = {} THEN "0" ELSE "1"
    /\ UNCHANGED <<world, step, results, rootId, ouMap>>

Next ==
    \/ CheckTools \/ CheckRepoStructure \/ CheckGithubStandards \/ CheckPreCommit
    \/ CheckTerraformLayout \/ CheckLocalValidationCommands
    \/ CheckAwsIdentity \/ CheckOrganization \/ CheckOus \/ CheckStateBackend
    \/ CheckControlTower \/ CheckCloudtrail \/ CheckConfigAggregator \/ CheckGuardduty
    \/ CheckSecurityHub \/ CheckBudgetsAndAnomalies \/ CheckScps
    \/ PrintSummary

Spec == Init /\ [][Next]_vars

----------------------------------------------------------------------------
(* Properties. *)

\* The controls of the parts that were not skipped.
Covered ==
    (IF "local" \in skip THEN {} ELSE LocalControls)
    \cup (IF "aws" \in skip THEN {} ELSE AwsControls)

TypeOK ==
    /\ wrong \subseteq Controls /\ refused \subseteq Queries
    /\ skip \subseteq {"local", "aws"} /\ step \in Begin..End + 1
    /\ \A r \in results : r.ok \in BOOLEAN /\ r.severity \in {"fail", "warn"}
    /\ rootId \in BOOLEAN /\ ouMap \subseteq OUs /\ (ouMap # {} => rootId)
    /\ exit \in {"none", "crash", "0", "1"}

\* "Validate infra-lab foundations": exit 0 says that every control of the
\* parts that ran holds, whatever query failed and whatever check was left out
\* for want of an earlier answer, but for what is only advised and for the two
\* queries whose failure is only a warning.
PassIsSound == exit = "0" => wrong \cap Covered \subseteq Advisory \cup (refused \cap SoftQueries)

\* Exit 1 has a cause: no advice, no warning and no knock-on effect of one
\* fails a foundation that is sound.
FailIsReal == exit = "1" => ~(wrong \subseteq Advisory /\ refused \subseteq SoftQueries)

\* The run comes to its report unless there is nothing to report on, or a
\* program it starts or the directory it starts it in is missing.
CrashOnlyUnequipped ==
    exit = "crash" => results = {} \/ ~Holds({"tools"} \X Programs \cup Of("repo", {"infra"}))
=============================================================================
