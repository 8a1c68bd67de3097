--------------------------- MODULE ValidationRunner ---------------------------
(***************************************************************************)
(* The independent validation of a release: somebody downloads its files   *)
(* into a directory, checks a commit out, and runs                         *)
(* scripts/external_validation/runner.py, which looks at the provenance of *)
(* the checkout, runs five commands, verifies the files and writes one     *)
(* report.  The four files of a release are a wheel and an sdist, named    *)
(* for the version, and ARTIFACTS.json and SHA256SUMS, which every release *)
(* calls the same.                                                         *)
(*                                                                         *)
(* Bound: validations start when MinReleases releases exist, no run has    *)
(* failed or waits and the branches have arrived, and the release workflow *)
(* then rests; the two share nothing but tags and the files of releases,   *)
(* which no longer change once they exist.  Downloads and validations,     *)
(* those broken off included, go on until there is a report.               *)
(***************************************************************************)
EXTENDS Release

CONSTANTS
    Invocations,   \* the command lines: [tag, commit, version, allowDirty,
                   \* require, dir], with NoTag or Nothing for what is not given
    Heads,         \* commits a validator may check out
    Selections,    \* sets of files that one download brings
    Nothing,       \* there is no file
    Partial,       \* what a file holds before it is filled
    MinReleases,   \* bound: releases there are when validations start
    MaxDownloads,  \* bound: files downloaded
    MaxFaults      \* bound: damaged files, dirty trees, bad commands, crashes

VARIABLES
    dir,           \* the release directory: contents by file name
    downloads,
    faults,
    runner,        \* the validation under way
    temporary,     \* what is in the report's .tmp file
    report         \* what is in the report file

runnerVars == <<dir, downloads, faults, runner, temporary, report>>
allVars == <<vars, runnerVars>>

(* How run_command ends. *)
Outcomes == {"pass", "fail", "timeout", "error"}

Checks == <<"unit_tests", "repository_validation", "local_evaluations", "ruff", "offline_demo">>

Idle == [stage |-> "idle"]

ASSUME HeadsAreCommits == Heads \subseteq Commits

RunnerInit ==
    /\ dir = << >> /\ downloads = 0 /\ faults = 0
    /\ runner = Idle /\ temporary = Nothing /\ report = Nothing

AllInit == Init /\ RunnerInit

Fault == faults < MaxFaults /\ faults' = faults + 1

Quiet ==
    /\ \A t \in DOMAIN run : run[t].stage = "published"
    /\ Cardinality(Released) = MinReleases
    /\ main = Len(MainHistory)
    /\ \A line \in DOMAIN branch : branch[line] = Len(BranchHistory[line])

-----------------------------------------------------------------------------
(* The files.  Two contents have the same digest exactly when they are the *)
(* same; a damaged one is like no other.                                    *)

Content(kind, t) == [kind |-> kind, of |-> t, whole |-> TRUE]

FileName(kind, t) == IF kind \in {"wheel", "sdist"} THEN <<kind, t>> ELSE <<kind>>

Kinds == {"wheel", "sdist", "ARTIFACTS.json", "SHA256SUMS"}

(* Some of the files of a release are downloaded over what is there; one   *)
(* of them may arrive damaged.                                             *)
Download(t, kinds, damaged) ==
    LET names == {FileName(kind, t) : kind \in kinds}
        Arrived(kind) == [Content(kind, t) EXCEPT !.whole = kind \notin damaged]
    IN  /\ runner = Idle /\ Quiet /\ report = Nothing /\ downloads < MaxDownloads
        /\ t \in Released
        /\ damaged \subseteq kinds
        /\ IF damaged = {} THEN UNCHANGED faults ELSE Fault
        /\ dir' = [n \in DOMAIN dir \cup names |->
                     IF n \in names
                     THEN Arrived(CHOOSE kind \in kinds : FileName(kind, t) = n)
                     ELSE dir[n]]
        /\ downloads' = downloads + 1
        /\ UNCHANGED <<vars, runner, temporary, report>>

(* verify_release_artifacts.  SHA256SUMS and ARTIFACTS.json speak of the   *)
(* release they were made for; a damaged one does not parse or agree.  No  *)
(* version is expected where NoTag stands for it.  The mutant compares no  *)
(* digests.                                                                *)
Present(name, content) == name \in DOMAIN dir
FileAt(name, content) == name \in DOMAIN dir /\ dir[name] = content

ArtifactsVerify(version) ==
    /\ <<"ARTIFACTS.json">> \in DOMAIN dir /\ <<"SHA256SUMS">> \in DOMAIN dir
    /\ LET manifest == dir[<<"ARTIFACTS.json">>]
           sums == dir[<<"SHA256SUMS">>]
       IN  /\ manifest.whole /\ (version # NoTag => manifest.of = version)
           \* the entries of SHA256SUMS name the files of the manifest's version
           /\ sums.whole /\ sums.of = manifest.of
           \* and give their digests
           /\ \A kind \in Kinds \ {"SHA256SUMS"} :
                 FileAt(FileName(kind, manifest.of), Content(kind, sums.of))
           \* ARTIFACTS.json repeats those of the distributions
           /\ \A kind \in {"wheel", "sdist"} :
                 FileAt(FileName(kind, manifest.of), Content(kind, manifest.of))

VerifiedFiles ==
    {dir[FileName(kind, dir[<<"ARTIFACTS.json">>].of)] : kind \in Kinds \ {"SHA256SUMS"}}

ArtifactStatus(invocation, version) ==
    CASE invocation.dir -> IF ArtifactsVerify(version) THEN "pass" ELSE "fail"
      [] ~invocation.dir /\ invocation.require -> "fail"
      [] OTHER -> "not_requested"

-----------------------------------------------------------------------------
(* The run of main().                                                       *)

(* read_project_metadata reads the version in the working tree: a clean    *)
(* tree is that of its head, a dirty one may say anything, also something  *)
(* unreadable (NoTag).                                                     *)
Versions(head, dirty) ==
    IF dirty THEN {Tree[c].tag : c \in Commits} \cup {NoTag} ELSE {Tree[head].tag}

StartValidation(invocation, head) ==
    /\ runner = Idle /\ Quiet /\ report = Nothing
    /\ \E dirty \in BOOLEAN : \E version \in Versions(head, dirty) :
          /\ IF dirty THEN Fault ELSE UNCHANGED faults
          /\ runner' = [stage |-> "provenance", asked |-> invocation, head |-> head,
                        dirty |-> dirty, version |-> version,
                        errors |-> IF version = NoTag THEN {"metadata"} ELSE {},
                        checks |-> << >>, artifacts |-> "not_requested", files |-> {}]
    /\ UNCHANGED <<vars, dir, downloads, temporary, report>>

(* collect_git_provenance: a tag that does not exist is an error as well. *)
ProvenanceErrors ==
    LET asked == runner.asked
    IN  {e \in {"dirty", "commit", "tag"} :
           \/ e = "dirty" /\ runner.dirty /\ ~asked.allowDirty
           \/ e = "commit" /\ asked.commit # Nothing /\ asked.commit # runner.head
           \/ e = "tag" /\ asked.tag # NoTag
                /\ (asked.tag \notin DOMAIN tags \/ tags[asked.tag] # runner.head)}

CollectProvenance ==
    /\ runner.stage = "provenance"
    /\ runner' = [runner EXCEPT !.stage = "checks", !.errors = @ \cup ProvenanceErrors]
    /\ UNCHANGED <<vars, dir, downloads, faults, temporary, report>>

(* run_command: a check ends with exit code 0 and output its validator     *)
(* takes, with another exit code or unreadable output, by timeout, or      *)
(* cannot be started.  The others are run all the same.                    *)
RunCheck(status) ==
    /\ runner.stage = "checks" /\ Len(runner.checks) < Len(Checks)
    /\ IF status = "pass" THEN UNCHANGED faults ELSE Fault
    /\ runner' = [runner EXCEPT
                    !.checks = Append(@, status),
                    !.errors = IF status = "pass" THEN @
                               ELSE @ \cup {Checks[Len(runner.checks) + 1]}]
    /\ UNCHANGED <<vars, dir, downloads, temporary, report>>

(* --expected-artifact-version comes before the checkout's own metadata. *)
ExpectedVersion(asked, version) == IF asked.version # NoTag THEN asked.version ELSE version

VerifyArtifacts ==
    /\ runner.stage = "checks" /\ Len(runner.checks) = Len(Checks)
    /\ LET status == ArtifactStatus(runner.asked,
                                    ExpectedVersion(runner.asked, runner.version))
       IN  runner' = [runner EXCEPT
                        !.stage = "report",
                        !.artifacts = status,
                        !.files = IF status = "pass" THEN VerifiedFiles ELSE {},
                        !.errors = IF status = "fail" THEN @ \cup {"artifacts"} ELSE @]
    /\ UNCHANGED <<vars, dir, downloads, faults, temporary, report>>

FinalReport ==
    [asked |-> runner.asked, head |-> runner.head, dirty |-> runner.dirty,
     version |-> runner.version, checks |-> runner.checks,
     artifacts |-> runner.artifacts, files |-> runner.files,
     status |-> IF runner.errors = {} THEN "pass" ELSE "fail"]

Reports ==
    [asked : Invocations, head : Heads, dirty : BOOLEAN,
     version : {Tree[c].tag : c \in Commits} \cup {NoTag}, checks : Seq(Outcomes),
     artifacts : {"pass", "fail", "not_requested"},
     files : SUBSET {Content(kind, t) : kind \in Kinds, t \in Tags},
     status : {"pass", "fail"}]

(* A file that is empty or missing does not hold a report. *)
ASSUME PartialIsNoReport == Partial # Nothing /\ Partial \notin Reports

(* write_report: the temporary file is opened and emptied, then filled,    *)
(* then renamed over the report.                                           *)
OpenTemporary ==
    /\ runner.stage = "report"
    /\ temporary' = Partial
    /\ runner' = [runner EXCEPT !.stage = "write"]
    /\ UNCHANGED <<vars, dir, downloads, faults, report>>

FillTemporary ==
    /\ runner.stage = "write"
    /\ temporary' = FinalReport
    /\ runner' = [runner EXCEPT !.stage = "replace"]
    /\ UNCHANGED <<vars, dir, downloads, faults, report>>

ReplaceReport ==
    /\ runner.stage = "replace"
    /\ report' = temporary /\ temporary' = Nothing
    /\ runner' = Idle
    /\ UNCHANGED <<vars, dir, downloads, faults>>

RunnerCrash ==
    /\ runner # Idle /\ Fault
    /\ runner' = Idle
    /\ UNCHANGED <<vars, dir, downloads, temporary, report>>

Validate ==
    \/ \E t \in Tags, kinds \in Selections, damaged \in {{}} \cup {{k} : k \in Kinds} :
          Download(t, kinds, damaged)
    \/ \E invocation \in Invocations, head \in Heads : StartValidation(invocation, head)
    \/ CollectProvenance
    \/ \E status \in Outcomes : RunCheck(status)
    \/ VerifyArtifacts
    \/ OpenTemporary \/ FillTemporary \/ ReplaceReport
    \/ RunnerCrash

Next ==
    \/ downloads = 0 /\ runner = Idle /\ temporary = Nothing /\ report = Nothing /\ ReleaseNext /\ UNCHANGED runnerVars
    \/ Validate

Spec == AllInit /\ [][Next]_allVars

-----------------------------------------------------------------------------
(* A report that says pass is a whole one, of a run in which every check   *)
(* was made and none failed or ran out of time, on the commit and the tag  *)
(* asked for.  Where files were given, those it verified are the undamaged *)
(* files of one release, however downloads were mixed and interrupted: of  *)
(* the version asked for, or else of the one that the working tree states. *)
(* Of a clean checkout of a released tag with no version asked for, they   *)
(* are that tag's own, though the runner never compares a tag with a       *)
(* version (main, verify_release_artifacts, write_report).                 *)
PassingReportIsSound ==
    /\ report # Partial
    /\ (report \notin {Nothing, Partial} /\ report.status = "pass") =>
        LET asked == report.asked
            FilesAreOf(t) ==
                /\ t \in Released
                /\ report.files = {Content(kind, t) : kind \in Kinds \ {"SHA256SUMS"}}
        IN
        /\ report.checks = [i \in DOMAIN Checks |-> "pass"]
        /\ asked.tag # NoTag => tags[asked.tag] = report.head
        /\ asked.commit # Nothing => asked.commit = report.head
        /\ report.dirty => asked.allowDirty
        /\ ~report.dirty => report.version = Tree[report.head].tag
        /\ asked.require => report.artifacts = "pass"
        /\ report.artifacts = "pass" =>
              /\ FilesAreOf(ExpectedVersion(asked, report.version))
              /\ (asked.tag \in Released /\ asked.version = NoTag /\ ~report.dirty) =>
                    FilesAreOf(asked.tag)
=============================================================================
