--------------------- MODULE FoundationValidator_proofs ---------------------
(***************************************************************************)
(* Proofs about FoundationValidator, for any modules, roots, regions and     *)
(* organizational units and any number of wrong controls and failing         *)
(* queries.                                                                 *)
(***************************************************************************)
EXTENDS FoundationValidator, TLAPS

----------------------------------------------------------------------------
(* What a set of results says. *)

Fails(found) == \E r \in found : ~r.ok /\ r.severity = "fail"

Typed(found) == \A r \in found : r.ok \in BOOLEAN /\ r.severity \in {"fail", "warn"}

\* A control that is wrong and more than advice.
Hard(c) == c \in wrong /\ c \notin Advisory

\* One result fails if it is hard and not ok.
LEMMA ResultSays ==
  ASSUME NEW name, NEW ok \in BOOLEAN, NEW severity \in {"fail", "warn"}
  PROVE  /\ Fails(Result(name, ok, severity)) <=> ~ok /\ severity = "fail"
         /\ Typed(Result(name, ok, severity))
BY DEF Fails, Typed, Result

\* Two lots of results fail if either does.
LEMMA BothSay ==
  ASSUME NEW some, NEW more
  PROVE  /\ Fails(some \cup more) <=> Fails(some) \/ Fails(more)
         /\ Typed(some) /\ Typed(more) => Typed(some \cup more)
BY DEF Fails, Typed

\* No results, no failure.
LEMMA NoneSay == ~Fails({}) /\ Typed({})
BY DEF Fails, Typed

\* Controls judged one by one fail if one of them is wrong and no advice.
LEMMA JudgedSay ==
  ASSUME NEW controls
  PROVE  /\ Fails(Judged(controls)) <=> \E c \in controls : Hard(c)
         /\ Typed(Judged(controls))
<1>1. \A r : r \in Judged(controls) <=>
               \E c \in controls :
                  r = [name |-> c, ok |-> Holds({c}),
                       severity |-> IF c \in Advisory THEN "warn" ELSE "fail"]
  BY DEF Judged, Result
<1>2. \A c : Holds({c}) \in BOOLEAN /\ (Holds({c}) <=> c \notin wrong)
  BY DEF Holds
<1>3. Typed(Judged(controls))
  <2>1. SUFFICES ASSUME NEW r \in Judged(controls)
                 PROVE  r.ok \in BOOLEAN /\ r.severity \in {"fail", "warn"}
    BY DEF Typed
  <2>2. PICK c \in controls :
           r = [name |-> c, ok |-> Holds({c}),
                severity |-> IF c \in Advisory THEN "warn" ELSE "fail"]
    BY <1>1
  <2> QED
    BY <1>2, <2>2
<1>4. ASSUME NEW c \in controls, Hard(c) PROVE Fails(Judged(controls))
  <2> DEFINE r == [name |-> c, ok |-> Holds({c}),
                   severity |-> IF c \in Advisory THEN "warn" ELSE "fail"]
  <2>1. r \in Judged(controls)
    BY <1>1
  <2>2. ~r.ok /\ r.severity = "fail"
    BY <1>2, <1>4 DEF Hard
  <2> QED
    BY <2>1, <2>2 DEF Fails
<1>5. ASSUME Fails(Judged(controls)) PROVE \E c \in controls : Hard(c)
  <2>1. PICK r \in Judged(controls) : ~r.ok /\ r.severity = "fail"
    BY <1>5 DEF Fails
  <2>2. PICK c \in controls :
           r = [name |-> c, ok |-> Holds({c}),
                severity |-> IF c \in Advisory THEN "warn" ELSE "fail"]
    BY <1>1
  <2>3. Hard(c)
    BY <1>2, <2>1, <2>2 DEF Hard
  <2> QED
    BY <2>3
<1> QED
  BY <1>3, <1>4, <1>5

\* A query that fails is a failure unless it is one of the two soft ones.
LEMMA RefusalSays ==
  ASSUME NEW query
  PROVE  (Fails(Refusal(query)) <=> query \notin SoftQueries) /\ Typed(Refusal(query))
BY ResultSays DEF Refusal

\* An answer is what was found, unless the query fails.
LEMMA AnsweredSays ==
  ASSUME NEW query, NEW found
  PROVE  /\ Fails(Answered(query, found)) <=>
              IF query \in refused THEN query \notin SoftQueries ELSE Fails(found)
         /\ Typed(found) => Typed(Answered(query, found))
BY RefusalSays DEF Answered

\* Controls asked for one by one.
LEMMA AskedSay ==
  ASSUME NEW controls
  PROVE  /\ Fails(Asked(controls)) <=>
              \E c \in controls : IF c \in refused THEN c \notin SoftQueries ELSE Hard(c)
         /\ Typed(Asked(controls))
<1>1. \A c : /\ Fails(Answered(c, Judged({c}))) <=>
                  IF c \in refused THEN c \notin SoftQueries ELSE Hard(c)
             /\ Typed(Answered(c, Judged({c})))
  BY AnsweredSays, JudgedSay
<1>2. \A r : r \in Asked(controls) <=> \E c \in controls : r \in Answered(c, Judged({c}))
  BY DEF Asked
<1>3. Typed(Asked(controls))
  BY <1>1, <1>2 DEF Typed
<1>4. Fails(Asked(controls)) <=> \E c \in controls : Fails(Answered(c, Judged({c})))
  BY <1>2 DEF Fails
<1> QED
  BY <1>1, <1>3, <1>4

----------------------------------------------------------------------------
(* The checks, one by one. *)

\* The check at place n judges control c.
InPart(c, n) ==
    \/ n = 1 /\ c[1] = "tools"
    \/ n = 2 /\ c[1] = "repo"
    \/ n = 3 /\ c[1] = "github"
    \/ n = 4 /\ c[1] = "precommit"
    \/ n = 5 /\ c[1] \in {"layout", "module", "tf_root"}
    \/ n = 6 /\ c[1] \in {"init", "validate", "local"}
    \/ n = 7 /\ c[1] = "aws"
    \/ n = 8 /\ c[1] = "org"
    \/ n = 9 /\ c[1] = "ou"
    \/ n = 10 /\ c[1] \in {"bucket", "lock_table"}
    \/ n = 11 /\ c[1] = "control_tower"
    \/ n = 12 /\ c[1] = "cloudtrail"
    \/ n = 13 /\ c[1] = "config"
    \/ n = 14 /\ c[1] \in {"guardduty", "found", "enabled", "frequency"}
    \/ n = 15 /\ c[1] = "securityhub"
    \/ n = 16 /\ c[1] = "finops"
    \/ n = 17 /\ c[1] \in {"scp", "attachments"}

\* A control of that check is wrong, and neither advice nor behind a query
\* whose failure is only a warning.
Bad(n) == \E c \in wrong : InPart(c, n) /\ c \notin Advisory \cup (refused \cap SoftQueries)

Sound == wrong \subseteq Advisory /\ refused \subseteq SoftQueries

\* What the check at place n finds: a failure if a control of it is bad, none
\* if the foundation is sound.
Finds(n, found) ==
    /\ Typed(found)
    /\ Bad(n) => Fails(found)
    /\ Sound => ~Fails(found)

\* The check at place n runs and adds what it found.
Reports(n) ==
    /\ step = n /\ step' = n + 1 /\ n <= End /\ exit = "none" /\ exit' = "none"
    /\ UNCHANGED world
    /\ Bad(n) => Fails(results')
    /\ \E found : results' = results \cup found /\ Typed(found) /\ (Sound => ~Fails(found))

World == wrong \subseteq Controls /\ refused \subseteq Queries /\ step \in Begin..End + 1

\* Where a check is called.
LEMMA Place ==
  ASSUME World, NEW check, At(check)
  PROVE  /\ exit = "none" /\ step <= End /\ step \in 1..17
         /\ check = "tools" => step = 1
         /\ check = "repo" => step = 2
         /\ check = "github" => step = 3
         /\ check = "precommit" => step = 4
         /\ check = "layout" => step = 5
         /\ check = "commands" => step = 6
         /\ check = "identity" => step = 7
         /\ check = "organization" => step = 8
         /\ check = "ous" => step = 9
         /\ check = "backend" => step = 10
         /\ check = "control_tower" => step = 11
         /\ check = "cloudtrail" => step = 12
         /\ check = "config" => step = 13
         /\ check = "guardduty" => step = 14
         /\ check = "securityhub" => step = 15
         /\ check = "finops" => step = 16
         /\ check = "scps" => step = 17
<1>1. exit = "none" /\ step <= End /\ step \in 1..17 /\ Checks[step] = check
  BY DEF World, At, Begin, End
<1>2. step \in {1, 2, 3, 4, 5, 6, 7, 8, 9, 10, 11, 12, 13, 14, 15, 16, 17}
  BY <1>1
<1> QED
  BY <1>1, <1>2 DEF Checks

\* A check that adds what it finds reports it.
LEMMA AddReports ==
  ASSUME World, NEW n \in 1..17, NEW found, step = n, step <= End, exit = "none",
         UNCHANGED world, Add(found), Finds(n, found)
  PROVE  Reports(n)
BY BothSay DEF Reports, Add, Finds

\* check_tools fails if any program is missing.
LEMMA ToolsReport == ASSUME World, CheckTools PROVE Reports(1)
<1> DEFINE ok    == Holds({"tools"} \X Programs)
           found == Result(<<"tools", "installed">>, ok, "fail")
<1>1. step = 1 /\ step <= End /\ exit = "none" /\ UNCHANGED world /\ Add(found)
  BY Place DEF CheckTools, Kept
<1>2. Typed(found) /\ (Fails(found) <=> ~ok)
  BY ResultSays DEF Holds
<1>3. Bad(1) => ~ok
  BY DEF Bad, InPart, World, Holds, Controls, LocalControls, AwsControls, Of
<1>4. Sound => ok
  BY DEF Sound, Holds, Advisory, Of, Targets
<1> HIDE DEF ok, found
<1>5. Finds(1, found)
  BY <1>2, <1>3, <1>4 DEF Finds
<1> QED
  BY <1>1, <1>5, AddReports

\* A check that judges its controls one by one.
LEMMA Judgements ==
  ASSUME World, NEW n \in 1..17, NEW controls,
         \A c \in Controls : InPart(c, n) => c \in controls,
         \A c \in controls : InPart(c, n)
  PROVE  Finds(n, Judged(controls))
<1>1. Bad(n) => \E c \in controls : Hard(c)
  BY DEF Bad, World, Hard
<1>2. Sound => ~ \E c \in controls : Hard(c)
  BY DEF Sound, Hard
<1> QED
  BY <1>1, <1>2, JudgedSay DEF Finds

\* check_repo_structure: the directories are one result.
LEMMA RepoReports == ASSUME World, CheckRepoStructure PROVE Reports(2)
<1> DEFINE ok    == Holds(Of("repo", {"infra", "directories"}))
           dirs  == Result(<<"repo", "directories">>, ok, "fail")
           files == Judged(Of("repo", {"core_files", "codeowners"}))
<1>1. step = 2 /\ step <= End /\ exit = "none" /\ UNCHANGED world /\ Add(dirs \cup files)
  BY Place DEF CheckRepoStructure, Kept
<1>2. Typed(dirs) /\ (Fails(dirs) <=> ~ok)
  BY ResultSays DEF Holds
<1>3. /\ Typed(files)
      /\ Fails(files) <=> \E c \in Of("repo", {"core_files", "codeowners"}) : Hard(c)
  BY JudgedSay
<1>4. Bad(2) => ~ok \/ \E c \in Of("repo", {"core_files", "codeowners"}) : Hard(c)
  BY DEF Bad, InPart, World, Holds, Hard, Controls, LocalControls, AwsControls, Of
<1>5. Sound => ok /\ ~ \E c \in Of("repo", {"core_files", "codeowners"}) : Hard(c)
  BY DEF Sound, Holds, Hard, Advisory, Of, Targets
<1> HIDE DEF ok, dirs, files
<1>6. Finds(2, dirs \cup files)
  BY <1>2, <1>3, <1>4, <1>5, BothSay DEF Finds
<1> QED
  BY <1>1, <1>6, AddReports

\* check_github_standards judges its controls.
LEMMA GithubReports == ASSUME World, CheckGithubStandards PROVE Reports(3)
<1> DEFINE found == Judged({c \in LocalControls : c[1] = "github"})
<1>1. step = 3 /\ step <= End /\ exit = "none" /\ UNCHANGED world /\ Add(found)
  BY Place DEF CheckGithubStandards, Kept
<1>2. \A c \in AwsControls : c[1] # "github"
  BY DEF AwsControls, Of
<1>3. Finds(3, found)
  BY <1>2, Judgements DEF InPart, Controls
<1> HIDE DEF found
<1> QED
  BY <1>1, <1>3, AddReports

\* check_pre_commit judges its control.
LEMMA PreCommitReports == ASSUME World, CheckPreCommit PROVE Reports(4)
<1> DEFINE found == Judged(Of("precommit", {"hooks"}))
<1>1. step = 4 /\ step <= End /\ exit = "none" /\ UNCHANGED world /\ Add(found)
  BY Place DEF CheckPreCommit, Kept
<1>2. \A c \in Controls : InPart(c, 4) => c \in Of("precommit", {"hooks"})
  BY DEF InPart, Controls, LocalControls, AwsControls, Of
<1>3. \A c \in Of("precommit", {"hooks"}) : InPart(c, 4)
  BY DEF InPart, Of
<1>4. Finds(4, found)
  BY <1>2, <1>3, Judgements
<1> HIDE DEF found
<1> QED
  BY <1>1, <1>4, AddReports

\* check_terraform_layout judges the layout, the modules and the roots.
LEMMA LayoutReports == ASSUME World, CheckTerraformLayout PROVE Reports(5)
<1> DEFINE found == Judged({c \in LocalControls : c[1] \in {"layout", "module", "tf_root"}})
<1>1. step = 5 /\ step <= End /\ exit = "none" /\ UNCHANGED world /\ Add(found)
  BY Place DEF CheckTerraformLayout, Kept
<1>2. \A c \in AwsControls : c[1] \notin {"layout", "module", "tf_root"}
  BY DEF AwsControls, Of
<1>3. Finds(5, found)
  BY <1>2, Judgements DEF InPart, Controls
<1> HIDE DEF found
<1> QED
  BY <1>1, <1>3, AddReports

\* check_local_validation_commands: a root fails if it is not there, does not
\* initialise or is not valid.  Without its programs it does not return.
LEMMA CommandsReport ==
  ASSUME World, CheckLocalValidationCommands
  PROVE  \/ Reports(6)
         \/ Crash /\ Kept /\ ~Holds({"tools"} \X Programs \cup Of("repo", {"infra"}))
<1> DEFINE needs == Holds(Of("tools", {"terraform", "pre-commit"}) \cup Of("repo", {"infra"}))
           ok(r) == Holds({"tf_root", "init", "validate"} \X {r})
           tools == Judged(Of("local", {"terraform_fmt", "pre_commit_all_files"}))
           roots == UNION {Result(<<"validate", r>>, ok(r), "fail") : r \in Roots}
<1>1. CASE needs
  <2>1. /\ step = 6 /\ step <= End /\ exit = "none" /\ UNCHANGED world
        /\ Add(tools \cup roots)
    BY <1>1, Place DEF CheckLocalValidationCommands, Kept
  <2>2. /\ Typed(tools)
        /\ Fails(tools) <=>
             \E c \in Of("local", {"terraform_fmt", "pre_commit_all_files"}) : Hard(c)
    BY JudgedSay
  <2>3. \A r \in Roots : /\ Typed(Result(<<"validate", r>>, ok(r), "fail"))
                         /\ Fails(Result(<<"validate", r>>, ok(r), "fail")) <=> ~ok(r)
    BY ResultSays DEF Holds
  <2>4. Typed(roots) /\ (Fails(roots) <=> \E r \in Roots : ~ok(r))
    <3> HIDE DEF ok
    <3> QED
      BY <2>3 DEF Typed, Fails
  <2>5. Bad(6) => \/ \E c \in Of("local", {"terraform_fmt", "pre_commit_all_files"}) : Hard(c)
                  \/ \E r \in Roots : ~ok(r)
    <3>1. SUFFICES ASSUME NEW c \in wrong, InPart(c, 6), c \notin Advisory
                   PROVE  \/ \E d \in Of("local", {"terraform_fmt", "pre_commit_all_files"}) : Hard(d)
                          \/ \E r \in Roots : ~ok(r)
      BY DEF Bad
    <3>2. \/ c \in Of("local", {"terraform_fmt", "pre_commit_all_files"})
          \/ c \in {"init", "validate"} \X Roots
      BY <3>1 DEF InPart, World, Controls, LocalControls, AwsControls, Of
    <3>3. CASE c \in Of("local", {"terraform_fmt", "pre_commit_all_files"})
      BY <3>1, <3>3 DEF Hard
    <3>4. CASE c \in {"init", "validate"} \X Roots
      <4>1. c[2] \in Roots /\ c \in {"tf_root", "init", "validate"} \X {c[2]}
        BY <3>4
      <4>2. ~ok(c[2])
        BY <4>1 DEF Holds
      <4> QED
        BY <4>1, <4>2
    <3> QED
      BY <3>2, <3>3, <3>4
  <2>6. Sound => /\ ~ \E c \in Of("local", {"terraform_fmt", "pre_commit_all_files"}) : Hard(c)
                 /\ \A r \in Roots : ok(r)
    <3>1. \A r : \A c \in {"tf_root", "init", "validate"} \X {r} : c \notin Advisory
      BY DEF Advisory, Of
    <3> QED
      BY <3>1 DEF Sound, Holds, Hard
  <2> HIDE DEF ok, tools, roots
  <2>7. Finds(6, tools \cup roots)
    BY <2>2, <2>4, <2>5, <2>6, BothSay DEF Finds
  <2> QED
    BY <2>1, <2>7, AddReports
<1>2. CASE ~needs
  <2>1. Crash /\ Kept
    BY <1>2 DEF CheckLocalValidationCommands
  <2>2. ~Holds({"tools"} \X Programs \cup Of("repo", {"infra"}))
    BY <1>2 DEF Holds, Of, Programs
  <2> QED
    BY <2>1, <2>2
<1> QED
  BY <1>1, <1>2

\* A check that asks for its controls one by one.
LEMMA Questions ==
  ASSUME World, NEW n \in 1..17, NEW controls,
         \A c \in Controls : InPart(c, n) => c \in controls
  PROVE  Finds(n, Asked(controls))
<1>1. Bad(n) => \E c \in controls : IF c \in refused THEN c \notin SoftQueries ELSE Hard(c)
  BY DEF Bad, World, Hard
<1>2. Sound => ~ \E c \in controls : IF c \in refused THEN c \notin SoftQueries ELSE Hard(c)
  BY DEF Sound, Hard
<1> QED
  BY <1>1, <1>2, AskedSay DEF Finds

\* check_aws_identity asks who the caller is; without the aws program it does
\* not return.
LEMMA IdentityReports ==
  ASSUME World, CheckAwsIdentity
  PROVE  Reports(7) \/ (Crash /\ Kept /\ ~Holds({"tools"} \X Programs \cup Of("repo", {"infra"})))
<1> DEFINE found == Asked(Of("aws", {"identity"}))
<1>1. CASE Holds(Of("tools", {"aws"}))
  <2>1. step = 7 /\ step <= End /\ exit = "none" /\ UNCHANGED world /\ Add(found)
    BY <1>1, Place DEF CheckAwsIdentity, Kept
  <2>2. \A c \in Controls : InPart(c, 7) => c \in Of("aws", {"identity"})
    BY DEF InPart, Controls, LocalControls, AwsControls, Of
  <2>3. Finds(7, found)
    BY <2>2, Questions
  <2> HIDE DEF found
  <2> QED
    BY <2>1, <2>3, AddReports
<1>2. CASE ~Holds(Of("tools", {"aws"}))
  <2>1. Crash /\ Kept
    BY <1>2 DEF CheckAwsIdentity
  <2>2. ~Holds({"tools"} \X Programs \cup Of("repo", {"infra"}))
    BY <1>2 DEF Holds, Of, Programs
  <2> QED
    BY <2>1, <2>2
<1> QED
  BY <1>1, <1>2

\* check_organization: a root that is not found is a failure.
LEMMA OrganizationReports ==
  ASSUME World, CheckOrganization
  PROVE  Reports(8) /\ ouMap' = ouMap /\ rootId' \in BOOLEAN /\ (~rootId' => Fails(results'))
<1> DEFINE describe == <<"org", "describe">>
           roots    == <<"org", "roots">>
           rest     == IF roots \in refused THEN Refusal(roots) ELSE Judged({roots})
           feature  == Judged(Of("org", {"feature_set"}))
           access   == Asked(Of("org", {"service_access"}))
           found    == Answered(describe, feature \cup access \cup rest)
<1>1. step = 8 /\ step <= End /\ exit = "none" /\ UNCHANGED world /\ Add(found)
  BY Place DEF CheckOrganization, Organization
<1>2. ouMap' = ouMap /\ rootId' = (refused \cap {describe, roots} = {} /\ Holds({roots}))
  BY DEF CheckOrganization, Organization
<1>3. \A q \in {"describe", "roots", "service_access"} : <<"org", q>> \notin SoftQueries
  BY DEF SoftQueries, Of
<1>4. Typed(rest) /\ (Fails(rest) <=> roots \in refused \/ Hard(roots))
  BY <1>3, RefusalSays, JudgedSay
<1>5. /\ Typed(feature)
      /\ Fails(feature) <=> Hard(<<"org", "feature_set">>)
  BY JudgedSay DEF Of
<1>6. /\ Typed(access)
      /\ Fails(access) <=> \/ <<"org", "service_access">> \in refused
                           \/ Hard(<<"org", "service_access">>)
  BY <1>3, AskedSay DEF Of
<1> HIDE DEF rest, feature, access
<1>7. /\ Typed(found)
      /\ Fails(found) <=> \/ describe \in refused \/ Fails(feature)
                          \/ Fails(access) \/ Fails(rest)
  <2>1. /\ Typed(feature \cup access)
        /\ Fails(feature \cup access) <=> Fails(feature) \/ Fails(access)
    BY <1>5, <1>6, BothSay
  <2>2. /\ Typed(feature \cup access \cup rest)
        /\ Fails(feature \cup access \cup rest) <=> Fails(feature) \/ Fails(access) \/ Fails(rest)
    BY <1>4, <2>1, BothSay
  <2>3. describe \notin SoftQueries
    BY <1>3
  <2> QED
    BY <2>2, <2>3, AnsweredSays
<1>8. \A c : c \in Of("org", {"feature_set", "service_access", "roots"}) => c \notin Advisory
  BY DEF Advisory, Of
<1>9. Bad(8) => Fails(found)
  <2>1. SUFFICES ASSUME NEW c \in wrong, InPart(c, 8), c \notin Advisory PROVE Fails(found)
    BY DEF Bad
  <2>2. c \in Of("org", {"feature_set", "service_access", "roots"})
    BY <2>1 DEF InPart, World, Controls, LocalControls, AwsControls, Of
  <2>3. c \in {<<"org", "feature_set">>, <<"org", "service_access">>, roots}
    BY <2>2 DEF Of
  <2>4. Hard(c)
    BY <2>1 DEF Hard
  <2> HIDE DEF found, roots
  <2> QED
    BY <2>3, <2>4, <1>4, <1>5, <1>6, <1>7
<1>10. Sound => ~Fails(found)
  BY <1>3, <1>4, <1>5, <1>6, <1>7 DEF Sound, Hard
<1>11. Hard(roots) <=> roots \in wrong
  BY <1>8 DEF Hard, Of
<1>12. ~rootId' => Fails(found)
  BY <1>2, <1>4, <1>7, <1>11 DEF Holds
<1> HIDE DEF found
<1>13. Finds(8, found)
  BY <1>7, <1>9, <1>10 DEF Finds
<1>14. Reports(8) /\ results' = results \cup found
  BY <1>1, <1>13, AddReports DEF Add
<1>15. rootId' \in BOOLEAN
  BY <1>2
<1> QED
  BY <1>2, <1>12, <1>14, <1>15, BothSay

\* check_ous runs if there is a root; in a sound foundation it finds every unit.
LEMMA OusReport ==
  ASSUME World, CheckOus, rootId \in BOOLEAN, ~rootId => Fails(results), ouMap \subseteq OUs,
         ouMap # {} => rootId
  PROVE  /\ Reports(9) /\ rootId' = rootId /\ ouMap' \subseteq OUs
         /\ ouMap' # {} => rootId
         /\ Sound /\ rootId => ouMap' = OUs
<1> DEFINE query == <<"org", "ous">>
           units == {ou \in OUs : Holds({<<"ou", ou>>})}
           found == Answered(query, Result(query, units = OUs, "fail"))
<1>1. step = 9 /\ step <= End /\ exit = "none" /\ UNCHANGED world /\ rootId' = rootId
  BY Place DEF CheckOus
<1>2. CASE ~rootId
  <2>1. Add({}) /\ ouMap' = ouMap
    BY <1>2 DEF CheckOus
  <2>2. Fails(results')
    BY <1>2, <2>1 DEF Add
  <2>3. Reports(9)
    BY <1>1, <2>1, <2>2, NoneSay DEF Reports, Add
  <2> QED
    BY <1>1, <1>2, <2>1, <2>3
<1>3. CASE rootId
  <2>1. Add(found) /\ ouMap' = IF query \in refused THEN {} ELSE units
    BY <1>3 DEF CheckOus
  <2>2. query \notin SoftQueries
    BY DEF SoftQueries, Of
  <2>3. \A ou \in OUs : <<"ou", ou>> \notin Advisory
    BY DEF Advisory, Of
  <2>4. (units = OUs) \in BOOLEAN /\ (units = OUs <=> \A ou \in OUs : <<"ou", ou>> \notin wrong)
    BY DEF Holds
  <2>5. /\ Typed(found)
        /\ Fails(found) <=> query \in refused \/ units # OUs
    BY <2>2, <2>4, AnsweredSays, ResultSays
  <2>6. Bad(9) => Fails(found)
    <3>1. \A c \in wrong : InPart(c, 9) => c \in Of("ou", OUs)
      BY DEF InPart, World, Controls, LocalControls, AwsControls, Of
    <3>2. Bad(9) => units # OUs
      BY <3>1, <2>4 DEF Bad, Of
    <3> QED
      BY <2>5, <3>2
  <2>7. Sound => query \notin refused /\ units = OUs
    BY <2>2, <2>3, <2>4 DEF Sound
  <2>8. units \subseteq OUs
    OBVIOUS
  <2> HIDE DEF query, units, found
  <2>9. Finds(9, found)
    BY <2>5, <2>6, <2>7 DEF Finds
  <2>10. Reports(9)
    BY <1>1, <2>1, <2>9, AddReports
  <2> QED
    BY <1>1, <1>3, <2>1, <2>7, <2>8, <2>10
<1> QED
  BY <1>2, <1>3

\* check_state_backend asks four questions of the bucket and one of the table.
LEMMA BackendReports == ASSUME World, CheckStateBackend PROVE Reports(10)
<1> DEFINE bucket == {c \in AwsControls : c[1] = "bucket"}
           query  == <<"lock_table", "exists">>
           table  == Judged(Of("lock_table", {"exists", "sse"}))
           answer == Answered(query, table)
<1>1. /\ step = 10 /\ step <= End /\ exit = "none" /\ UNCHANGED world
      /\ Add(Asked(bucket) \cup answer)
  BY Place DEF CheckStateBackend, Kept
<1>2. query \notin SoftQueries
  BY DEF SoftQueries, Of
<1>3. /\ Typed(answer)
      /\ Fails(answer) <=> \/ query \in refused
                           \/ \E c \in Of("lock_table", {"exists", "sse"}) : Hard(c)
  BY <1>2, AnsweredSays, JudgedSay
<1>4. Bad(10) => Fails(Asked(bucket)) \/ Fails(answer)
  <2>1. SUFFICES ASSUME NEW c \in wrong, InPart(c, 10), Hard(c), ~(c \in refused /\ c \in SoftQueries)
                 PROVE  Fails(Asked(bucket)) \/ Fails(answer)
    BY DEF Bad, Hard
  <2>2. c \in bucket \/ c \in Of("lock_table", {"exists", "sse"})
    BY <2>1 DEF InPart, World, Controls, LocalControls, AwsControls, Of
  <2> QED
    BY <1>3, <2>1, <2>2, AskedSay
<1>5. Sound => ~Fails(Asked(bucket)) /\ ~Fails(answer)
  BY <1>2, <1>3, AskedSay DEF Sound, Hard
<1>6. Typed(Asked(bucket))
  BY AskedSay
<1> HIDE DEF bucket, answer
<1>7. Finds(10, Asked(bucket) \cup answer)
  BY <1>3, <1>4, <1>5, <1>6, BothSay DEF Finds
<1> QED
  BY <1>1, <1>7, AddReports

\* check_control_tower only warns if it is refused the answer.
LEMMA ControlTowerReports == ASSUME World, CheckControlTower PROVE Reports(11)
<1> DEFINE found == Asked(Of("control_tower", {"landing_zone"}))
<1>1. step = 11 /\ step <= End /\ exit = "none" /\ UNCHANGED world /\ Add(found)
  BY Place DEF CheckControlTower, Kept
<1>2. \A c \in Controls : InPart(c, 11) => c \in Of("control_tower", {"landing_zone"})
  BY DEF InPart, Controls, LocalControls, AwsControls, Of
<1>3. Finds(11, found)
  BY <1>2, Questions
<1> HIDE DEF found
<1> QED
  BY <1>1, <1>3, AddReports

\* check_cloudtrail judges the trail of the organization, if there is one.
LEMMA CloudtrailReports == ASSUME World, CheckCloudtrail PROVE Reports(12)
<1> DEFINE trail   == <<"cloudtrail", "org_trail">>
           status  == <<"cloudtrail", "logging">>
           about   == Of("cloudtrail", {"org_trail", "multi_region", "kms", "log_file_validation"})
           live    == {status, <<"cloudtrail", "cloudwatch_logs">>}
           answer  == Answered(status, Judged(live))
           listed  == IF Holds({trail}) THEN Judged(about) \cup answer ELSE Judged({trail})
           found   == Answered(<<"cloudtrail", "describe">>, listed)
<1>1. step = 12 /\ step <= End /\ exit = "none" /\ UNCHANGED world /\ Add(found)
  BY Place DEF CheckCloudtrail, Kept
<1>2. status \notin SoftQueries /\ <<"cloudtrail", "describe">> \notin SoftQueries
  BY DEF SoftQueries, Of
<1>3. trail \notin Advisory
  BY DEF Advisory, Of
<1>4. /\ Typed(answer)
      /\ Fails(answer) <=> status \in refused \/ \E c \in live : Hard(c)
  BY <1>2, AnsweredSays, JudgedSay
<1>5. /\ Typed(Judged(about) \cup answer)
      /\ Fails(Judged(about) \cup answer) <=> (\E c \in about : Hard(c)) \/ Fails(answer)
  <2> HIDE DEF answer, about
  <2> QED
    BY <1>4, JudgedSay, BothSay
<1>6. Holds({trail}) <=> ~Hard(trail)
  BY <1>3 DEF Holds, Hard
<1>7. /\ Typed(listed)
      /\ ~Hard(trail) => (Fails(listed) <=> (\E c \in about : Hard(c)) \/ Fails(answer))
      /\ Hard(trail) => Fails(listed)
  BY <1>5, <1>6, JudgedSay
<1>8. /\ Typed(found)
      /\ Fails(found) <=> <<"cloudtrail", "describe">> \in refused \/ Fails(listed)
  <2> HIDE DEF listed
  <2> QED
    BY <1>2, <1>7, AnsweredSays
<1>9. Bad(12) => Fails(listed)
  <2>1. SUFFICES ASSUME NEW c \in wrong, InPart(c, 12), Hard(c) PROVE Fails(listed)
    BY DEF Bad, Hard
  <2>2. c \in about \/ c \in live
    BY <2>1 DEF InPart, World, Controls, LocalControls, AwsControls, Of
  <2> QED
    BY <1>4, <1>7, <2>1, <2>2
<1>10. Sound => ~Fails(listed)
  <2>1. Sound => ~Hard(trail) /\ (\A c \in about : ~Hard(c)) /\ ~Fails(answer)
    BY <1>2, <1>4 DEF Sound, Hard
  <2> QED
    BY <1>7, <2>1
<1>11. Sound => <<"cloudtrail", "describe">> \notin refused
  BY <1>2 DEF Sound
<1> HIDE DEF listed, found
<1>12. Finds(12, found)
  BY <1>8, <1>9, <1>10, <1>11 DEF Finds
<1> QED
  BY <1>1, <1>12, AddReports

\* check_config_aggregator judges the source of the aggregator, if there is one.
LEMMA ConfigReports == ASSUME World, CheckConfigAggregator PROVE Reports(13)
<1> DEFINE aggregator == <<"config", "aggregator">>
           judged     == {aggregator}
                            \cup IF Holds({aggregator}) THEN Of("config", {"org_source"}) ELSE {}
           found      == Answered(aggregator, Judged(judged))
<1>1. step = 13 /\ step <= End /\ exit = "none" /\ UNCHANGED world /\ Add(found)
  BY Place DEF CheckConfigAggregator, Kept
<1>2. aggregator \notin SoftQueries /\ aggregator \notin Advisory
  BY DEF SoftQueries, Advisory, Of
<1>3. /\ Typed(found)
      /\ Fails(found) <=> aggregator \in refused \/ \E c \in judged : Hard(c)
  BY <1>2, AnsweredSays, JudgedSay
<1>4. Bad(13) => \E c \in judged : Hard(c)
  <2>1. SUFFICES ASSUME NEW c \in wrong, InPart(c, 13), Hard(c) PROVE \E d \in judged : Hard(d)
    BY DEF Bad, Hard
  <2>2. c = aggregator \/ c \in Of("config", {"org_source"})
    BY <2>1 DEF InPart, World, Controls, LocalControls, AwsControls, Of
  <2>3. ~Holds({aggregator}) => Hard(aggregator)
    BY <1>2 DEF Holds, Hard
  <2> QED
    BY <2>1, <2>2, <2>3
<1>5. Sound => ~Fails(found)
  BY <1>2, <1>3 DEF Sound, Hard
<1> HIDE DEF found, judged
<1>6. Finds(13, found)
  BY <1>3, <1>4, <1>5 DEF Finds
<1> QED
  BY <1>1, <1>6, AddReports

\* check_guardduty asks for the administrator, and in each region for a detector
\* and what it is set to.
LEMMA GuarddutyReports == ASSUME World, CheckGuardduty PROVE Reports(14)
<1> DEFINE admin       == Asked(Of("guardduty", {"admin_account"}))
           settings(r) == {"enabled", "frequency"} \X {r}
           listed(r)   == IF Holds({<<"found", r>>})
                          THEN Answered(<<"detector", r>>, Judged(settings(r)))
                          ELSE Judged({<<"found", r>>})
           region(r)   == Answered(<<"found", r>>, listed(r))
           regions     == UNION {region(r) : r \in Regions}
<1>1. /\ step = 14 /\ step <= End /\ exit = "none" /\ UNCHANGED world
      /\ Add(admin \cup regions)
  BY Place DEF CheckGuardduty, Kept
<1>2. /\ <<"guardduty", "admin_account">> \notin SoftQueries \cup Advisory
      /\ \A r : <<"found", r>> \notin SoftQueries \cup Advisory /\ <<"detector", r>> \notin SoftQueries
      /\ \A r : \A c \in settings(r) : c \notin Advisory
  BY DEF SoftQueries, Advisory, Of
<1>3. \A r : (Holds({<<"found", r>>}) <=> <<"found", r>> \notin wrong)
  BY DEF Holds
<1>4. /\ Typed(admin)
      /\ Fails(admin) <=> \/ <<"guardduty", "admin_account">> \in refused
                          \/ Hard(<<"guardduty", "admin_account">>)
  BY <1>2, AskedSay DEF Of
<1>5. ASSUME NEW r \in Regions
      PROVE  /\ Typed(region(r))
             /\ Hard(<<"found", r>>) \/ (\E c \in settings(r) : Hard(c)) => Fails(region(r))
             /\ Sound => ~Fails(region(r))
  <2>1. LET answer == Answered(<<"detector", r>>, Judged(settings(r)))
        IN  /\ Typed(answer)
            /\ Fails(answer) <=> <<"detector", r>> \in refused \/ \E c \in settings(r) : Hard(c)
    BY <1>2, AnsweredSays, JudgedSay
  <2>2. /\ Typed(listed(r))
        /\ Hard(<<"found", r>>) \/ (\E c \in settings(r) : Hard(c)) => Fails(listed(r))
        /\ Sound => ~Fails(listed(r))
    <3>1. CASE <<"found", r>> \in wrong
      <4>1. listed(r) = Judged({<<"found", r>>})
        BY <1>3, <3>1
      <4>2. Hard(<<"found", r>>) /\ ~Sound
        BY <1>2, <3>1 DEF Hard, Sound
      <4> HIDE DEF listed
      <4> QED
        BY <4>1, <4>2, JudgedSay
    <3>2. CASE <<"found", r>> \notin wrong
      <4>1. listed(r) = Answered(<<"detector", r>>, Judged(settings(r)))
        BY <1>3, <3>2
      <4>2. Sound => <<"detector", r>> \notin refused /\ ~ \E c \in settings(r) : Hard(c)
        BY <1>2 DEF Sound, Hard
      <4>3. ~Hard(<<"found", r>>)
        BY <3>2 DEF Hard
      <4> HIDE DEF listed, settings
      <4> QED
        BY <2>1, <4>1, <4>2, <4>3
    <3> QED
      BY <3>1, <3>2
  <2> HIDE DEF listed, settings
  <2>3. /\ Typed(region(r))
        /\ Fails(region(r)) <=> <<"found", r>> \in refused \/ Fails(listed(r))
    BY <1>2, <2>2, AnsweredSays
  <2>4. Sound => <<"found", r>> \notin refused
    BY <1>2 DEF Sound
  <2> QED
    BY <2>2, <2>3, <2>4
<1>6. Typed(regions) /\ (Fails(regions) <=> \E r \in Regions : Fails(region(r)))
  <2> HIDE DEF region
  <2> QED
    BY <1>5 DEF Typed, Fails
<1>7. Bad(14) => Fails(admin) \/ Fails(regions)
  <2>1. SUFFICES ASSUME NEW c \in wrong, InPart(c, 14), Hard(c)
                 PROVE  Fails(admin) \/ Fails(regions)
    BY DEF Bad, Hard
  <2>2. \/ c = <<"guardduty", "admin_account">>
        \/ \E r \in Regions : c = <<"found", r>> \/ c \in settings(r)
    BY <2>1 DEF InPart, World, Controls, LocalControls, AwsControls, Of
  <2> HIDE DEF admin, regions, region, settings
  <2> QED
    BY <1>4, <1>5, <1>6, <2>1, <2>2
<1>8. Sound => ~Fails(admin) /\ ~Fails(regions)
  <2>1. Sound => ~Fails(admin)
    BY <1>2, <1>4 DEF Sound, Hard
  <2> HIDE DEF regions, region
  <2> QED
    BY <1>5, <1>6, <2>1
<1> HIDE DEF admin, regions
<1>9. Finds(14, admin \cup regions)
  BY <1>4, <1>6, <1>7, <1>8, BothSay DEF Finds
<1> QED
  BY <1>1, <1>9, AddReports

\* check_security_hub asks for its three controls.
LEMMA SecurityHubReports == ASSUME World, CheckSecurityHub PROVE Reports(15)
<1> DEFINE found == Asked({c \in AwsControls : c[1] = "securityhub"})
<1>1. step = 15 /\ step <= End /\ exit = "none" /\ UNCHANGED world /\ Add(found)
  BY Place DEF CheckSecurityHub, Kept
<1>2. \A c \in LocalControls : c[1] # "securityhub"
  BY DEF LocalControls, Of
<1>3. Finds(15, found)
  BY <1>2, Questions DEF InPart, Controls
<1> HIDE DEF found
<1> QED
  BY <1>1, <1>3, AddReports

\* check_budgets_and_anomalies asks for its three controls.
LEMMA FinopsReports == ASSUME World, CheckBudgetsAndAnomalies PROVE Reports(16)
<1> DEFINE found == Asked({c \in AwsControls : c[1] = "finops"})
<1>1. step = 16 /\ step <= End /\ exit = "none" /\ UNCHANGED world /\ Add(found)
  BY Place DEF CheckBudgetsAndAnomalies, Kept
<1>2. \A c \in LocalControls : c[1] # "finops"
  BY DEF LocalControls, Of
<1>3. Finds(16, found)
  BY <1>2, Questions DEF InPart, Controls
<1> HIDE DEF found
<1> QED
  BY <1>1, <1>3, AddReports

\* check_scps runs if there is a root; what it says of attachments is advice
\* but for a unit that was not found, and in a sound foundation all were.
LEMMA ScpsReport ==
  ASSUME World, CheckScps, ~rootId => Fails(results), Sound /\ rootId => ouMap = OUs
  PROVE  Reports(17) /\ UNCHANGED <<rootId, ouMap>>
<1> DEFINE query     == <<"scp", "policies_exist">>
           target(t) == <<"attachments", t>>
           told(t)   == IF t \in ouMap \cup {"root"} THEN Asked({target(t)})
                        ELSE Result(target(t), FALSE, "fail")
           targets   == UNION {told(t) : t \in Targets}
           policies  == Judged(Of("scp", {"policies_exist"}))
           found     == Answered(query, policies \cup targets)
<1>1. /\ step = 17 /\ step <= End /\ exit = "none" /\ UNCHANGED world
      /\ UNCHANGED <<rootId, ouMap>>
  BY Place DEF CheckScps, Kept
<1>2. CASE ~rootId
  <2>1. Add({})
    BY <1>2 DEF CheckScps
  <2>2. Fails(results')
    BY <1>2, <2>1 DEF Add
  <2>3. Reports(17)
    BY <1>1, <2>1, <2>2, NoneSay DEF Reports, Add
  <2> QED
    BY <1>1, <2>3
<1>3. CASE rootId
  <2>1. Add(found)
    BY <1>3 DEF CheckScps
  <2>2. /\ query \notin SoftQueries
        /\ \A t \in Targets : target(t) \notin SoftQueries /\ target(t) \in Advisory
    BY DEF SoftQueries, Advisory, Of
  <2>3. Typed(policies) /\ (Fails(policies) <=> Hard(query))
    BY JudgedSay DEF Of
  <2>4. \A t \in Targets :
           /\ Typed(told(t))
           /\ Sound => ~Fails(told(t))
    <3>1. SUFFICES ASSUME NEW t \in Targets PROVE Typed(told(t)) /\ (Sound => ~Fails(told(t)))
      OBVIOUS
    <3>2. Typed(told(t))
      BY AskedSay, ResultSays
    <3>3. ASSUME Sound PROVE ~Fails(told(t))
      <4>1. told(t) = Asked({target(t)})
        BY <1>3, <3>3 DEF Targets
      <4>2. target(t) \notin refused /\ ~Hard(target(t))
        BY <2>2, <3>3 DEF Sound, Hard
      <4> HIDE DEF told, target
      <4> QED
        BY <4>1, <4>2, AskedSay
    <3> QED
      BY <3>2, <3>3
  <2>5. Typed(targets) /\ (Fails(targets) <=> \E t \in Targets : Fails(told(t)))
    <3> HIDE DEF told
    <3> QED
      BY <2>4 DEF Typed, Fails
  <2>6. Bad(17) => Hard(query)
    BY <2>2 DEF Bad, Hard, InPart, World, Controls, LocalControls, AwsControls, Of
  <2>7. Sound => query \notin refused /\ ~Hard(query) /\ ~Fails(targets)
    BY <2>2, <2>4, <2>5 DEF Sound, Hard
  <2> HIDE DEF policies, targets
  <2>8. /\ Typed(policies \cup targets)
        /\ Fails(policies \cup targets) <=> Hard(query) \/ Fails(targets)
    BY <2>3, <2>5, BothSay
  <2>9. /\ Typed(found)
        /\ Fails(found) <=> query \in refused \/ Hard(query) \/ Fails(targets)
    BY <2>2, <2>8, AnsweredSays
  <2> HIDE DEF found
  <2>10. Finds(17, found)
    BY <2>6, <2>7, <2>9 DEF Finds
  <2> QED
    BY <1>1, <2>1, <2>10, AddReports
<1> QED
  BY <1>2, <1>3

----------------------------------------------------------------------------
(* The run. *)

\* Every check that ran has reported what was bad.
Reported == \A n \in Begin..step - 1 : Bad(n) => Fails(results)

\* A root that was not found has been reported, and the units are those that
\* were found under it.
Rooted ==
    /\ step > 8 /\ ~rootId => Fails(results)
    /\ step <= 9 => ouMap = {}
    /\ Sound /\ rootId /\ step > 9 => ouMap = OUs

\* Nothing has been reported of a sound foundation.
Quiet == Sound => ~Fails(results)

\* How the run ended.
Ended ==
    /\ exit = "0" => step > End /\ ~Fails(results)
    /\ exit = "1" => Fails(results)
    /\ CrashOnlyUnequipped

Inv == TypeOK /\ Reported /\ Rooted /\ Quiet /\ Ended

\* Failures are the results that fail.
LEMMA FailuresFail == Failures = {} <=> ~Fails(results)
BY DEF Failures, Fails

\* Nothing is reported before the first check.
LEMMA InitInv == Init => Inv
<1> SUFFICES ASSUME Init PROVE Inv
  OBVIOUS
<1>1. wrong \subseteq Controls
  <2>1. PICK n \in 0..MaxWrong : \E facts \in [1..n -> Controls] : wrong = ToSet(facts)
    BY DEF Init
  <2> QED
    BY <2>1 DEF ToSet
<1>2. refused \subseteq Queries
  <2>1. PICK n \in 0..MaxWrong : \E m \in 0..(MaxWrong - n) :
           \E queries \in [1..m -> Queries] : refused = ToSet(queries)
    BY DEF Init
  <2>2. PICK m \in 0..(MaxWrong - n) : \E queries \in [1..m -> Queries] : refused = ToSet(queries)
    BY <2>1
  <2> QED
    BY <2>2 DEF ToSet
<1>3. /\ skip \subseteq {"local", "aws"} /\ step = Begin /\ results = {} /\ rootId = FALSE
      /\ ouMap = {} /\ exit = "none"
  BY DEF Init
<1>4. step \in {1, 7} /\ step \in Begin..End + 1
  BY <1>3 DEF Begin, End
<1>5. TypeOK
  BY <1>1, <1>2, <1>3, <1>4 DEF TypeOK
<1>6. ~Fails(results)
  BY <1>3, NoneSay
<1>7. Reported
  BY <1>3, <1>4 DEF Reported
<1>8. Rooted
  BY <1>3, <1>4 DEF Rooted
<1> QED
  BY <1>3, <1>5, <1>6, <1>7, <1>8 DEF Inv, Quiet, Ended, CrashOnlyUnequipped

\* A check that reports keeps the invariant, if what it returns does.
LEMMA ReportsKeepInv ==
  ASSUME Inv, NEW n \in 1..17, Reports(n),
         rootId' \in BOOLEAN, ouMap' \subseteq OUs, ouMap' # {} => rootId',
         n > 7 /\ ~rootId' => Fails(results'),
         n < 9 => ouMap' = {},
         Sound /\ rootId' /\ n > 8 => ouMap' = OUs
  PROVE  Inv'
<1>1. PICK found : results' = results \cup found /\ Typed(found) /\ (Sound => ~Fails(found))
  BY DEF Reports
<1>2. Fails(results') <=> Fails(results) \/ Fails(found)
  BY <1>1, BothSay
<1>3. UNCHANGED <<wrong, refused, skip>> /\ step = n /\ step' = n + 1 /\ n <= End /\ exit' = "none"
  BY DEF Reports, world
<1>4. Begin' = Begin /\ End' = End /\ Begin \in {1, 7} /\ End \in {6, 17}
  BY <1>3 DEF Begin, End
<1>5. (Sound' <=> Sound) /\ \A k : Bad(k)' <=> Bad(k)
  BY <1>3 DEF Sound, Bad
<1>6. TypeOK'
  <2>1. Typed(results')
    BY <1>1, BothSay DEF Inv, TypeOK, Typed
  <2>2. n \in Begin..End + 1 /\ step' \in (Begin..End + 1)'
    BY <1>3, <1>4 DEF Inv, TypeOK
  <2> QED
    BY <1>3, <2>1, <2>2 DEF Inv, TypeOK, Typed
<1>7. Reported'
  <2>1. SUFFICES ASSUME NEW k \in Begin..n, Bad(k) PROVE Fails(results')
    BY <1>3, <1>4, <1>5 DEF Reported
  <2>2. CASE k = n
    BY <2>1, <2>2 DEF Reports
  <2>3. CASE k # n
    <3>1. k \in Begin..step - 1
      BY <1>3, <1>4, <2>3
    <3> QED
      BY <1>2, <2>1, <3>1 DEF Inv, Reported
  <2> QED
    BY <2>2, <2>3
<1>8. Rooted'
  BY <1>3, <1>5 DEF Rooted
<1>9. Quiet'
  BY <1>1, <1>2, <1>5 DEF Inv, Quiet
<1>10. Ended'
  BY <1>3 DEF Ended, CrashOnlyUnequipped
<1> QED
  BY <1>6, <1>7, <1>8, <1>9, <1>10 DEF Inv

\* A check that returns nothing keeps the invariant.
LEMMA PlainReportsKeepInv ==
  ASSUME Inv, NEW n \in 1..17, n \notin {8, 9}, Reports(n), UNCHANGED <<rootId, ouMap>>
  PROVE  Inv'
<1>1. step = n /\ (Fails(results) => Fails(results'))
  BY BothSay DEF Reports
<1>2. rootId' \in BOOLEAN /\ ouMap' \subseteq OUs /\ (ouMap' # {} => rootId')
  BY DEF Inv, TypeOK
<1>3. n > 7 /\ ~rootId' => Fails(results')
  BY <1>1 DEF Inv, Rooted
<1>4. n < 9 => ouMap' = {}
  BY <1>1 DEF Inv, Rooted
<1>5. Sound /\ rootId' /\ n > 8 => ouMap' = OUs
  BY <1>1 DEF Inv, Rooted
<1> QED
  BY <1>2, <1>3, <1>4, <1>5, ReportsKeepInv

\* A program that is missing ends the run.
LEMMA CrashKeepsInv ==
  ASSUME Inv, Crash, Kept, ~Holds({"tools"} \X Programs \cup Of("repo", {"infra"}))
  PROVE  Inv'
<1>1. UNCHANGED <<wrong, refused, skip, step, results, rootId, ouMap>> /\ exit' = "crash"
  BY DEF Crash, Kept, world
<1>2. Begin' = Begin /\ End' = End
  BY <1>1 DEF Begin, End
<1>3. TypeOK'
  BY <1>1, <1>2 DEF Inv, TypeOK
<1>4. (Sound' <=> Sound) /\ \A k : Bad(k)' <=> Bad(k)
  BY <1>1 DEF Sound, Bad
<1>5. Reported' /\ Rooted' /\ Quiet'
  BY <1>1, <1>2, <1>4 DEF Inv, Reported, Rooted, Quiet
<1>6. Ended'
  BY <1>1 DEF Ended, CrashOnlyUnequipped, Holds
<1> QED
  BY <1>3, <1>5, <1>6 DEF Inv

\* The report says what was found.
LEMMA SummaryKeepsInv == ASSUME Inv, PrintSummary PROVE Inv'
<1>1. /\ UNCHANGED <<wrong, refused, skip, step, results, rootId, ouMap>> /\ step > End
      /\ exit' = IF results = {} THEN "crash" ELSE IF Failures = {} THEN "0" ELSE "1"
  BY DEF PrintSummary, world
<1>2. Begin' = Begin /\ End' = End
  BY <1>1 DEF Begin, End
<1>3. TypeOK'
  BY <1>1, <1>2 DEF Inv, TypeOK
<1>4. (Sound' <=> Sound) /\ \A k : Bad(k)' <=> Bad(k)
  BY <1>1 DEF Sound, Bad
<1>5. Reported' /\ Rooted' /\ Quiet'
  BY <1>1, <1>2, <1>4 DEF Inv, Reported, Rooted, Quiet
<1>6. Ended'
  BY <1>1, <1>2, FailuresFail DEF Ended, CrashOnlyUnequipped
<1> QED
  BY <1>3, <1>5, <1>6 DEF Inv

\* Every step of the run keeps the invariant.
LEMMA NextInv == Inv /\ [Next]_vars => Inv'
<1> SUFFICES ASSUME Inv, [Next]_vars PROVE Inv'
  OBVIOUS
<1>1. World
  BY DEF Inv, TypeOK, World
<1>2. CASE CheckTools
  BY <1>1, <1>2, ToolsReport, PlainReportsKeepInv DEF CheckTools, Kept
<1>3. CASE CheckRepoStructure
  BY <1>1, <1>3, RepoReports, PlainReportsKeepInv DEF CheckRepoStructure, Kept
<1>4. CASE CheckGithubStandards
  BY <1>1, <1>4, GithubReports, PlainReportsKeepInv DEF CheckGithubStandards, Kept
<1>5. CASE CheckPreCommit
  BY <1>1, <1>5, PreCommitReports, PlainReportsKeepInv DEF CheckPreCommit, Kept
<1>6. CASE CheckTerraformLayout
  BY <1>1, <1>6, LayoutReports, PlainReportsKeepInv DEF CheckTerraformLayout, Kept
<1>7. CASE CheckLocalValidationCommands
  <2>1. UNCHANGED <<rootId, ouMap>>
    BY <1>7 DEF CheckLocalValidationCommands, Kept
  <2> QED
    BY <1>1, <1>7, <2>1, CommandsReport, PlainReportsKeepInv, CrashKeepsInv
<1>8. CASE CheckAwsIdentity
  <2>1. UNCHANGED <<rootId, ouMap>>
    BY <1>8 DEF CheckAwsIdentity, Kept
  <2> QED
    BY <1>1, <1>8, <2>1, IdentityReports, PlainReportsKeepInv, CrashKeepsInv
<1>9. CASE CheckOrganization
  <2>1. Reports(8) /\ ouMap' = ouMap /\ rootId' \in BOOLEAN /\ (~rootId' => Fails(results'))
    BY <1>1, <1>9, OrganizationReports
  <2>2. ouMap = {}
    BY <2>1 DEF Reports, Inv, Rooted
  <2> QED
    BY <2>1, <2>2, ReportsKeepInv
<1>10. CASE CheckOus
  <2>1. step = 9
    BY <1>1, <1>10, Place DEF CheckOus
  <2>2. rootId \in BOOLEAN /\ (~rootId => Fails(results))
    BY <2>1 DEF Inv, TypeOK, Rooted
  <2>3. ouMap \subseteq OUs /\ (ouMap # {} => rootId)
    BY DEF Inv, TypeOK
  <2>4. /\ Reports(9) /\ rootId' = rootId /\ ouMap' \subseteq OUs
        /\ ouMap' # {} => rootId
        /\ Sound /\ rootId => ouMap' = OUs
    BY <1>1, <1>10, <2>2, <2>3, OusReport
  <2>5. Fails(results) => Fails(results')
    BY <2>4, BothSay DEF Reports
  <2> QED
    BY <2>2, <2>4, <2>5, ReportsKeepInv
<1>11. CASE CheckStateBackend
  BY <1>1, <1>11, BackendReports, PlainReportsKeepInv DEF CheckStateBackend, Kept
<1>12. CASE CheckControlTower
  BY <1>1, <1>12, ControlTowerReports, PlainReportsKeepInv DEF CheckControlTower, Kept
<1>13. CASE CheckCloudtrail
  BY <1>1, <1>13, CloudtrailReports, PlainReportsKeepInv DEF CheckCloudtrail, Kept
<1>14. CASE CheckConfigAggregator
  BY <1>1, <1>14, ConfigReports, PlainReportsKeepInv DEF CheckConfigAggregator, Kept
<1>15. CASE CheckGuardduty
  BY <1>1, <1>15, GuarddutyReports, PlainReportsKeepInv DEF CheckGuardduty, Kept
<1>16. CASE CheckSecurityHub
  BY <1>1, <1>16, SecurityHubReports, PlainReportsKeepInv DEF CheckSecurityHub, Kept
<1>17. CASE CheckBudgetsAndAnomalies
  BY <1>1, <1>17, FinopsReports, PlainReportsKeepInv DEF CheckBudgetsAndAnomalies, Kept
<1>18. CASE CheckScps
  <2>1. step = 17
    BY <1>1, <1>18, Place DEF CheckScps
  <2>2. (~rootId => Fails(results)) /\ (Sound /\ rootId => ouMap = OUs)
    BY <2>1 DEF Inv, Rooted
  <2> QED
    BY <1>1, <1>18, <2>2, ScpsReport, PlainReportsKeepInv
<1>19. CASE PrintSummary
  BY <1>19, SummaryKeepsInv
<1>20. CASE UNCHANGED vars
  BY <1>20 DEF Inv, TypeOK, Reported, Rooted, Quiet, Ended, CrashOnlyUnequipped, Holds, Sound,
     Bad, Begin, End, vars, world
<1> QED
  BY <1>2, <1>3, <1>4, <1>5, <1>6, <1>7, <1>8, <1>9, <1>10, <1>11, <1>12, <1>13, <1>14,
     <1>15, <1>16, <1>17, <1>18, <1>19, <1>20 DEF Next

\* The invariant holds throughout.
LEMMA Invariant == Spec => []Inv
  BY InitInv, NextInv, PTL DEF Spec

----------------------------------------------------------------------------
(* The theorems. *)

\* The state stays of its types whatever the world: the checks run in main's
\* order within the parts that were not skipped, and units are known only
\* under a root.
THEOREM Types == Spec => []TypeOK
<1>1. Inv => TypeOK
  BY DEF Inv
<1> QED
  BY <1>1, Invariant, PTL

\* Exit 0 says that every control of the parts that ran holds, but for advice
\* and the two queries whose failure is a warning: a check that is left out
\* for want of an earlier answer is left out after a failure.
THEOREM Passes == Spec => []PassIsSound
<1>1. Inv => PassIsSound
  <2> SUFFICES ASSUME Inv, exit = "0", NEW c \in wrong \cap Covered
               PROVE  c \in Advisory \cup (refused \cap SoftQueries)
    BY DEF PassIsSound
  <2>1. ~Fails(results) /\ step > End /\ step \in Begin..End + 1
    BY DEF Inv, Ended, TypeOK
  <2>2. \E n \in Begin..End : InPart(c, n)
    <3>1. CASE c \in LocalControls
      <4>1. \E n \in 1..6 : InPart(c, n)
        BY <3>1 DEF InPart, LocalControls, Of
      <4>2. c \notin AwsControls
        BY <3>1 DEF LocalControls, AwsControls, Of
      <4> QED
        BY <4>1, <4>2 DEF Covered, Begin, End
    <3>2. CASE c \in AwsControls
      <4>1. \E n \in 7..17 : InPart(c, n)
        BY <3>2 DEF InPart, AwsControls, Of
      <4>2. c \notin LocalControls
        BY <3>2 DEF LocalControls, AwsControls, Of
      <4> QED
        BY <4>1, <4>2 DEF Covered, Begin, End
    <3> QED
      BY <3>1, <3>2 DEF Covered
  <2>3. PICK n \in Begin..End : InPart(c, n)
    BY <2>2
  <2>4. n \in Begin..step - 1
    BY <2>1 DEF Begin, End
  <2>5. ~Bad(n)
    BY <2>1, <2>4 DEF Inv, Reported
  <2> QED
    BY <2>3, <2>5 DEF Bad
<1> QED
  BY <1>1, Invariant, PTL

\* Exit 1 has a cause: something is wrong that is more than advice, or a query
\* failed whose failure is no mere warning.
THEOREM FailsForACause == Spec => []FailIsReal
<1>1. Inv => FailIsReal
  BY DEF Inv, Quiet, Ended, Sound, FailIsReal
<1> QED
  BY <1>1, Invariant, PTL

\* The run comes to its report, whatever query fails, unless there is nothing
\* to report on or a program or the directory it is started in is missing.
THEOREM Finishes == Spec => []CrashOnlyUnequipped
<1>1. Inv => CrashOnlyUnequipped
  BY DEF Inv, Ended
<1> QED
  BY <1>1, Invariant, PTL

=============================================================================
